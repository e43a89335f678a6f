-------------------------- MODULE ReviewedDelivery --------------------------
(***************************************************************************)
(* What the team promises for a prompt, whatever its roles do inside: the  *)
(* prompt is answered without a team or planned, worked on and reviewed;   *)
(* work is delivered as approved only straight from a review that approved *)
(* it, is done over at most Retries times, and may end in a question to    *)
(* the user or in an error.                                                *)
(***************************************************************************)
EXTENDS Naturals

CONSTANT Retries

VARIABLES stage, attempt, outcome

vars == <<stage, attempt, outcome>>

Stages   == {"idle", "answering", "planning", "working", "reviewing", "done", "failed"}
Outcomes == {"none", "blocked", "answered", "awaiting_user_input",
             "review_approved", "review_requires_changes"}

Init == stage = "idle" /\ attempt = 0 /\ outcome = "none"

Becomes(from, to) == stage = from /\ stage' = to

End(o) == stage' = "done" /\ outcome' = o /\ UNCHANGED attempt

Block   == stage = "idle" /\ End("blocked")
Answer  == Becomes("idle", "answering") /\ UNCHANGED <<attempt, outcome>>
Reply   == stage = "answering" /\ End("answered")
Engage  == Becomes("idle", "planning") /\ UNCHANGED <<attempt, outcome>>
Plan    == Becomes("planning", "working") /\ attempt' = 1 /\ UNCHANGED outcome
Work    == Becomes("working", "reviewing") /\ UNCHANGED <<attempt, outcome>>
Ask     == stage = "working" /\ End("awaiting_user_input")
Approve == stage = "reviewing" /\ End("review_approved")
Redo    == /\ attempt <= Retries
           /\ Becomes("reviewing", "working")
           /\ attempt' = attempt + 1
           /\ UNCHANGED outcome
GiveUp  == attempt > Retries /\ stage = "reviewing" /\ End("review_requires_changes")
Fail    == /\ stage \in {"answering", "planning", "working", "reviewing"}
           /\ stage' = "failed"
           /\ UNCHANGED <<attempt, outcome>>

Next == Block \/ Answer \/ Reply \/ Engage \/ Plan \/ Work \/ Ask
        \/ Approve \/ Redo \/ GiveUp \/ Fail

Spec == Init /\ [][Next]_vars /\ WF_vars(Next)
=============================================================================
