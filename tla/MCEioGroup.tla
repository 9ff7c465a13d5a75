----------------------------- MODULE MCEioGroup -----------------------------
(* EioGroup on small instances. *)
EXTENDS EioGroup, TLC

CONSTANTS r1, r2, r3, g1, g2

Sym == Permutations(Reqs) \cup Permutations(Grps)
=============================================================================
