----------------------------- MODULE MCChatHub -----------------------------
(* Two pages post, one of them twice; or one page posts twice.              *)
EXTENDS ChatHub, TLC
CONSTANTS p1, p2

TwoPages == {<<p1, 1>>, <<p1, 2>>, <<p2, 1>>}
OnePage == {<<p1, 1>>, <<p1, 2>>}
Sym == Permutations(Viewers)
============================================================================
