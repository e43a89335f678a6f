----------------------------- MODULE MCKVCache -----------------------------
(* Instances of KVCache for TLC: two keys, each alone in a namespace, and the   *)
(* names 3 and 4: key 1 with blanks around it, and key 2 with blanks around its *)
(* namespace, which no namespace selects.                                       *)
EXTENDS KVCache

CONSTANTS c1, c2

MCKeys == {1, 2}
AllNames == {1, 2, 3, 4}
FewNames == {1, 2, 3}
MCClean == [n \in Names |-> IF n > 2 THEN n - 2 ELSE n]
MCScopes == {Names, {1, 3}, {2}}
MCTTLs == {1, Never}
=============================================================================
