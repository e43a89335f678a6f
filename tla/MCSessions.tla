----------------------------- MODULE MCSessions -----------------------------
(* Instances of Sessions for TLC.                                           *)
EXTENDS Sessions, TLC

CONSTANTS c1, c2, s1, s2

Symmetric == Permutations(Clients) \cup Permutations(SessionIds)
=============================================================================
