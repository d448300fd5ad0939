--------------------------- MODULE MCUploadQuota ---------------------------
(***************************************************************************)
(* Instances of UploadQuota for TLC.                                       *)
(***************************************************************************)
EXTENDS UploadQuota, TLC

CONSTANTS u1, u2, u3, d1, d2, d3

\* The third upload does not fit beside the other two.
Sizes == (u1 :> 1) @@ (u2 :> 2) @@ (u3 :> 2)

Symmetry == Permutations(Deletes)

-----------------------------------------------------------------------------
(* What the repository says of the quota and the code does not do.          *)

\* video_repo.go: Delete of a video that is gone is "treated as no-op": it does not
\* lower the counter below what is stored.
UsedCoversStored == AtRest => used >= Bytes(Stored)

\* video_service.go: DeleteVideo "decrement[s] quota usage": what is gone is not paid
\* for.
NothingLeaks == AtRest => used <= Bytes(Stored)
=============================================================================
