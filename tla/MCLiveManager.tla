--------------------------- MODULE MCLiveManager ---------------------------
(***************************************************************************)
(* Instances of LiveManager for TLC.                                       *)
(***************************************************************************)
EXTENDS LiveManager, TLC

CONSTANTS s1, s2, a1, a2

Symmetry == Permutations(Streams) \cup Permutations(ApiCalls)
=============================================================================
