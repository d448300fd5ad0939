------------------------- MODULE MCPlaybackSessions -------------------------
(* Every session is asked for from one address; touchSession goroutines     *)
(* differ in nothing.                                                       *)
EXTENDS PlaybackSessions, TLC
CONSTANT c1
ClientOfDef == [s \in Sessions |-> c1]
Symmetry == Permutations(Goroutines)
=============================================================================
