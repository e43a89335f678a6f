------------------------------ MODULE LiveMap ------------------------------
(***************************************************************************)
(* What a user of the KV cache counts on: a map from keys to values in     *)
(* which a value may lapse, and reads that answer with what the map holds. *)
(* Rows that have expired but are still in the table are not in the map,   *)
(* and removing them changes nothing.                                      *)
(***************************************************************************)
CONSTANTS Keys, Values, None

VARIABLES live,    \* [Keys -> Values \cup {None}]
          answer   \* the last key that was read and what was found there

vars == <<live, answer>>

Init == live = [k \in Keys |-> None] /\ answer = None

Put(k, v) == live' = [live EXCEPT ![k] = v] /\ UNCHANGED answer

\* Deletion, clearing, expiry.
Lapse(S) == live' = [k \in Keys |-> IF k \in S THEN None ELSE live[k]] /\ UNCHANGED answer

Read(k) == answer' = [key |-> k, value |-> live[k]] /\ UNCHANGED live

Next ==
    \/ \E k \in Keys, v \in Values : Put(k, v)
    \/ \E S \in SUBSET Keys : Lapse(S)
    \/ \E k \in Keys : Read(k)

Spec == Init /\ [][Next]_vars
=============================================================================
