----------------------------- MODULE MCSessions -----------------------------
(* Instances of Sessions for TLC.                                          *)
EXTENDS Sessions, TLC

CONSTANTS u1, u2, t1, t2, t3, c1, h1, h2

Symmetry == Permutations({t1, t2, t3}) \cup Permutations({h1, h2})
=============================================================================
