----------------------------- MODULE MCEtpPool -----------------------------
(* EtpPool on small instances. *)
EXTENDS EtpPool, TLC

CONSTANTS r1, r2, g1, q1, q2, w1, w2, w3

Sym == Permutations(Reqs) \cup Permutations(Quits) \cup Permutations(Workers)
=============================================================================
