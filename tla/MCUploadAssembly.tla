-------------------------- MODULE MCUploadAssembly --------------------------
(***************************************************************************)
(* Instances of UploadAssembly for TLC.                                    *)
(***************************************************************************)
EXTENDS UploadAssembly, TLC

CONSTANTS r1, r2, r3

Symmetry == Permutations(Requests)
=============================================================================
