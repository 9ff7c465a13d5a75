---------------------------- MODULE MCPhpCustom -----------------------------
(* PhpCustom on a small instance. *)
EXTENDS PhpCustom, TLC

CONSTANTS r1, r2, w1, w2

Sym == Permutations(Reqs) \cup Permutations(Workers)
=============================================================================
