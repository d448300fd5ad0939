--------------------------- MODULE MCAlertEngine ---------------------------
(* Two sessions of one video.                                               *)
EXTENDS AlertEngine, TLC
CONSTANT v1
OneVideo == [s \in Sessions |-> v1]
Sym == Permutations(Sessions)
============================================================================
