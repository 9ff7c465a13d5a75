---------------------------- MODULE MCPhpHandles ----------------------------
(* PhpHandles on small instances. *)
EXTENDS PhpHandles, TLC

CONSTANTS r1, r2, h1, h2, h3, h4, c1, c2, c3, x1, x2, x3, x4

Sym == Permutations(Reqs) \cup Permutations(Handles) \cup Permutations(Cbs)
         \cup Permutations(Rsrcs)
=============================================================================
