----------------------------- MODULE AgentTeam -----------------------------
(***************************************************************************)
(* A prompt handled by mcp_client: WorkflowRegistry.run picks the route,   *)
(* AgentTeamOrchestrator.run plans, and TeamRoleRunner.run_delivery_cycle  *)
(* has the worker work and the reviewer review, over again while there are *)
(* retries.  Each role runs its own AgentWorkflow over its own view of the *)
(* local runtime; the worker's view lets it activate tools and delegate to *)
(* subagents, which run inside the tool call that asked for them.          *)
(*                                                                         *)
(* The Python call stack of nested workflows is stack, the running one     *)
(* last.  Of a conversation only the number of calls still to execute is   *)
(* kept (AgentWorkflow has the rest): what the model asks for is chosen    *)
(* when its turn comes.                                                    *)
(***************************************************************************)
EXTENDS Naturals, Sequences, ToolAccess

CONSTANTS
    Paths,       \* files autowrite may write
    MaxSteps,    \* config.max_steps
    PlanSteps,   \* config.planner_max_steps
    ReviewSteps, \* config.reviewer_max_steps
    Retries,     \* config.review_retries
    AutoWriting, \* config.auto_write_code
    MaxCalls     \* bound: tool calls in one reply of the model

ASSUME TeamAssumption ==
    /\ MaxSteps \in Nat /\ PlanSteps \in Nat /\ ReviewSteps \in Nat
    /\ Retries \in Nat
    /\ MaxCalls \in Nat
    /\ AutoWriting \in BOOLEAN

VARIABLES
    phase,     \* where run() is: a role, "solo" (a workflow without team) ...
    attempt,   \* the worker attempt, 0 before the first
    scope,     \* "host" when the user asked to work outside the sandbox
    stack,     \* the workflows that are running, each inside a call of the one before
    reviewed,  \* the verdict of each review so far
    written,   \* auto_written_files of each worker attempt
    disk,      \* history: the files autowrite has put on the disk for this prompt
    result,    \* the AgentRunResult: done_reason and auto_written_files
    effect     \* what the last step had the local runtime execute

vars == <<phase, attempt, scope, stack, reviewed, written, disk, result, effect>>

Attempts == 1 .. Retries + 1
Writefile == "writefile"

Agents == Roles \cup Subagents \cup {"single", "direct_answer"}

InternalTools == {"request_tools", "delegate_agent"}

\* A running workflow: who runs it, the tools its role view allows and those
\* active in its selectable view, the internal tools it is offered, the files
\* its autowrite may write, its loop and the calls left of the reply.
Frame == [agent : Agents, allowed : SUBSET Tools, active : SUBSET Tools,
          internal : SUBSET InternalTools, autowrite : SUBSET Paths,
          stage : {"looping", "executing", "answered"},
          step : Nat, limit : Nat, left : Nat]

Workflow(agent, allowed, active, internal, autowrite, limit) ==
    [agent |-> agent, allowed |-> allowed, active |-> active,
     internal |-> internal, autowrite |-> autowrite,
     stage |-> "looping", step |-> 0, limit |-> limit, left |-> 0]

AutoWritten == IF AutoWriting THEN Paths ELSE {}

\* RoleWorkflowFactory.build: a role with tools has them behind a selectable
\* view, and the worker may delegate.
RoleInternal(role) ==
    CASE role = "planner"  -> {}
      [] role = "worker"   -> InternalTools
      [] role = "reviewer" -> {"request_tools"}

RoleWorkflow(role, in, autowrite, limit) ==
    Workflow(role, AllowedToolNames(RoleAccess(role), in), InitialTools(role),
             RoleInternal(role), autowrite, limit)

LeastOf(a, b) == IF a < b THEN a ELSE b

\* build_subagent, with allow_delegate = False
SubInternal(agent) ==
    IF SubAccess[agent] = "none" THEN {} ELSE {"request_tools"}

\* RoleWorkflowFactory._delegate_subagent and build_subagent
SubagentWorkflow(agent) ==
    Workflow(agent, SubAllowed(agent, scope), SubInitialTools(agent),
             SubInternal(agent), {}, LeastOf(MaxSteps, 4))

Planner   == RoleWorkflow("planner", "sandbox", {}, PlanSteps)
Worker    == RoleWorkflow("worker", scope, AutoWritten, MaxSteps)
Reviewer  == RoleWorkflow("reviewer", scope, {}, ReviewSteps)

\* planning_mode "never" works on the bare runtime; a direct answer has no tools.
SingleWorkflow == Workflow("single", Tools, Tools, {}, AutoWritten, MaxSteps)
DirectAnswer   == Workflow("direct_answer", {}, {}, {}, {}, MaxSteps)

Verdicts == {"approved", "changes"}

NoEffect == [phase |-> "none", agent |-> "none", depth |-> 0, tool |-> "none"]
NoResult == [reason |-> "none", files |-> {}]

Top == stack[Len(stack)]
Running == stack # <<>>
SetTop(frame) == [stack EXCEPT ![Len(stack)] = frame]
Caller == SubSeq(stack, 1, Len(stack) - 1)

\* A call of frame has its result; after the last one the loop goes on.
CallDone(frame) ==
    [frame EXCEPT !.left = @ - 1,
                  !.stage = IF frame.left = 1 THEN "looping" ELSE "executing"]

\* The nested workflow is over, and with it the call of its caller.
ReturnToCaller ==
    stack' = [Caller EXCEPT ![Len(stack) - 1] = CallDone(Caller[Len(stack) - 1])]

Ran(tool) == [phase |-> phase, agent |-> Top.agent, depth |-> Len(stack), tool |-> tool]

----------------------------------------------------------------------------
Init ==
    /\ phase = "idle"
    /\ attempt = 0
    /\ scope \in Scopes
    /\ stack = <<>>
    /\ reviewed = <<>>
    /\ written = [a \in Attempts |-> {}]
    /\ disk = {}
    /\ result = NoResult
    /\ effect = NoEffect

\* The prompt needs a permission the client was started without.
Block ==
    /\ phase = "idle"
    /\ phase' = "done"
    /\ result' = [reason |-> "blocked", files |-> {}]
    /\ UNCHANGED <<attempt, scope, stack, reviewed, written, disk, effect>>

\* planning_mode "never", or the router chose a direct answer.
AnswerAlone ==
    /\ phase = "idle"
    /\ phase' = "solo"
    /\ \E workflow \in {SingleWorkflow, DirectAnswer} : stack' = <<workflow>>
    /\ UNCHANGED <<attempt, scope, reviewed, written, disk, result, effect>>

\* planning_mode "always", a forced team or the router's choice.
EngageTeam ==
    /\ phase = "idle"
    /\ phase' = "planner"
    /\ stack' = <<Planner>>
    /\ UNCHANGED <<attempt, scope, reviewed, written, disk, result, effect>>

----------------------------------------------------------------------------
(* The loop of the workflow on top of the stack (AgentWorkflow.run)        *)

\* With nothing on offer strip_unavailable_tool_calls leaves no call.
OffersTools(frame) == frame.internal # {} \/ frame.allowed # {}

\* A turn of the model: n calls, or an answer.
Turn(n) ==
    /\ Running
    /\ Top.stage = "looping"
    /\ Top.step < Top.limit
    /\ n > 0 => OffersTools(Top)
    /\ stack' = SetTop([Top EXCEPT !.step = @ + 1, !.left = n,
                                   !.stage = IF n = 0 THEN "answered" ELSE "executing"])
    /\ effect' = NoEffect
    /\ UNCHANGED <<phase, attempt, scope, reviewed, written, disk, result>>

\* The closing turn after the step limit: an answer without tools, of which
\* nothing is written (AgentWorkflow, NoEffectAfterLimit).
ClosingTurn ==
    /\ Running
    /\ Top.stage = "looping"
    /\ Top.step = Top.limit
    /\ stack' = SetTop([Top EXCEPT !.stage = "answered", !.autowrite = {}])
    /\ effect' = NoEffect
    /\ UNCHANGED <<phase, attempt, scope, reviewed, written, disk, result>>

\* A request fails.  In a subagent the error becomes the result of the call
\* that delegated; anywhere else it ends the run.
TurnFails ==
    /\ Running
    /\ Top.stage = "looping"
    /\ IF Len(stack) = 1
       THEN phase' = "failed" /\ stack' = <<>>
       ELSE UNCHANGED phase /\ ReturnToCaller
    /\ effect' = NoEffect
    /\ UNCHANGED <<attempt, scope, reviewed, written, disk, result>>

\* A call of a tool of the runtime: executed when the views let it through,
\* answered with an error when they do not.
CallTool(tool) ==
    /\ Running
    /\ Top.stage = "executing"
    /\ effect' = IF Executes(Top, tool) THEN Ran(tool) ELSE NoEffect
    /\ stack' = SetTop(CallDone(Top))
    /\ UNCHANGED <<phase, attempt, scope, reviewed, written, disk, result>>

\* Any other call: without a name, of an unknown tool, a repeated write, an
\* internal tool the view does not have or with bad arguments.
RefuseCall ==
    /\ Running
    /\ Top.stage = "executing"
    /\ effect' = NoEffect
    /\ stack' = SetTop(CallDone(Top))
    /\ UNCHANGED <<phase, attempt, scope, reviewed, written, disk, result>>

\* request_tools
RequestTools(names) ==
    /\ Running
    /\ Top.stage = "executing"
    /\ "request_tools" \in Top.internal
    /\ effect' = NoEffect
    /\ stack' = SetTop([CallDone(Top) EXCEPT !.active = Activated(Top, names)])
    /\ UNCHANGED <<phase, attempt, scope, reviewed, written, disk, result>>

\* delegate_agent to a subagent of the registry: its workflow runs inside.
Delegate(agent) ==
    /\ Running
    /\ Top.stage = "executing"
    /\ "delegate_agent" \in Top.internal
    /\ effect' = NoEffect
    /\ stack' = Append(stack, SubagentWorkflow(agent))
    /\ UNCHANGED <<phase, attempt, scope, reviewed, written, disk, result>>

\* Mutation: the call of the caller is left to be executed again.
SubagentReturns_CallStays ==
    /\ Len(stack) > 1
    /\ Top.stage = "answered"
    /\ stack' = Caller
    /\ effect' = NoEffect
    /\ UNCHANGED <<phase, attempt, scope, reviewed, written, disk, result>>

SubagentReturns ==
    /\ Len(stack) > 1
    /\ Top.stage = "answered"
    /\ ReturnToCaller
    /\ effect' = NoEffect
    /\ UNCHANGED <<phase, attempt, scope, reviewed, written, disk, result>>

----------------------------------------------------------------------------
(* The outermost workflow has answered                                     *)

Answered(p) == phase = p /\ Len(stack) = 1 /\ Top.stage = "answered"

\* Autowrite of the answer: the files written, through the same view.
AutoWrites(files) ==
    /\ files \subseteq Top.autowrite
    /\ files # {} => Writefile \in Tools /\ Executes(Top, Writefile)
    /\ effect' = IF files # {} THEN Ran(Writefile) ELSE NoEffect
    /\ disk' = disk \cup files

PlannerReturns ==
    /\ Answered("planner")
    /\ phase' = "worker"
    /\ attempt' = 1
    /\ stack' = <<Worker>>
    /\ effect' = NoEffect
    /\ UNCHANGED <<scope, reviewed, written, disk, result>>

\* Mutation: work whose files were written needs no review.
WorkerReturns_SelfApproved(files) ==
    /\ Answered("worker")
    /\ AutoWrites(files)
    /\ written' = [written EXCEPT ![attempt] = files]
    /\ IF files = {}
       THEN phase' = "reviewer" /\ stack' = <<Reviewer>> /\ UNCHANGED result
       ELSE /\ phase' = "done" /\ stack' = <<>>
            /\ result' = [reason |-> "review_approved", files |-> files]
    /\ UNCHANGED <<attempt, scope, reviewed>>

\* The worker's answer goes to the reviewer ...
WorkerReturns(files) ==
    /\ Answered("worker")
    /\ AutoWrites(files)
    /\ written' = [written EXCEPT ![attempt] = files]
    /\ phase' = "reviewer"
    /\ stack' = <<Reviewer>>
    /\ UNCHANGED <<attempt, scope, reviewed, result>>

\* ... unless it is a question for the user (build_user_question).
WorkerAsks(files) ==
    /\ Answered("worker")
    /\ AutoWrites(files)
    /\ written' = [written EXCEPT ![attempt] = files]
    /\ result' = [reason |-> "awaiting_user_input", files |-> files]
    /\ phase' = "done"
    /\ stack' = <<>>
    /\ UNCHANGED <<attempt, scope, reviewed>>

AllWritten == UNION {written[a] : a \in Attempts}

\* Mutation: the result carries the files of the last worker run only.
Deliver_LastRun(reason) ==
    /\ result' = [reason |-> reason, files |-> written[attempt]]
    /\ phase' = "done"
    /\ stack' = <<>>

\* PublicResultBuilder.build
Deliver(reason) ==
    /\ result' = [reason |-> reason, files |-> AllWritten]
    /\ phase' = "done"
    /\ stack' = <<>>

\* Mutation: out of retries, the work is delivered as if approved.
ReviewerRejects_Delivers ==
    /\ Answered("reviewer")
    /\ reviewed' = Append(reviewed, "changes")
    /\ effect' = NoEffect
    /\ UNCHANGED <<scope, written, disk>>
    /\ \/ /\ attempt < Retries + 1
          /\ attempt' = attempt + 1
          /\ phase' = "worker"
          /\ stack' = <<Worker>>
          /\ UNCHANGED result
       \/ /\ attempt = Retries + 1
          /\ Deliver("review_approved")
          /\ UNCHANGED attempt

ReviewerApproves ==
    /\ Answered("reviewer")
    /\ reviewed' = Append(reviewed, "approved")
    /\ Deliver("review_approved")
    /\ effect' = NoEffect
    /\ UNCHANGED <<attempt, scope, written, disk>>

\* The reviewer asks for changes, or says nothing that starts with APROBADO:
\* another attempt, in a workflow built anew, or the end of the retries.
ReviewerRejects ==
    /\ Answered("reviewer")
    /\ reviewed' = Append(reviewed, "changes")
    /\ effect' = NoEffect
    /\ UNCHANGED <<scope, written, disk>>
    /\ \/ /\ attempt < Retries + 1
          /\ attempt' = attempt + 1
          /\ phase' = "worker"
          /\ stack' = <<Worker>>
          /\ UNCHANGED result
       \/ /\ attempt = Retries + 1
          /\ Deliver("review_requires_changes")
          /\ UNCHANGED attempt

SoloReturns(files) ==
    /\ Answered("solo")
    /\ AutoWrites(files)
    /\ result' = [reason |-> "answered", files |-> files]
    /\ phase' = "done"
    /\ stack' = <<>>
    /\ UNCHANGED <<attempt, scope, reviewed, written>>

\* The run has returned or raised.
Ended == phase \in {"done", "failed"} /\ UNCHANGED vars

Loop ==
    \/ \E n \in 0 .. MaxCalls : Turn(n)
    \/ ClosingTurn
    \/ TurnFails
    \/ \E tool \in Tools : CallTool(tool)
    \/ RefuseCall
    \/ \E names \in SUBSET Tools : RequestTools(names)
    \/ \E agent \in Subagents : Delegate(agent)
    \/ SubagentReturns

Cycle ==
    \/ PlannerReturns
    \/ \E files \in SUBSET Paths :
         WorkerReturns(files) \/ WorkerAsks(files) \/ SoloReturns(files)
    \/ ReviewerApproves
    \/ ReviewerRejects

Next == Block \/ AnswerAlone \/ EngageTeam \/ Loop \/ Cycle \/ Ended

\* One thread runs the prompt, each request has a timeout and each tool call
\* returns or raises: a step that can be taken is taken.
Spec == Init /\ [][Next]_vars /\ WF_vars(Next)

----------------------------------------------------------------------------
(* Properties                                                              *)

Reasons == {"none", "blocked", "answered", "awaiting_user_input",
            "review_approved", "review_requires_changes"}

\* The values the state of run() may take, retries and step limits included.
TypeOK ==
    /\ phase \in Roles \cup {"idle", "solo", "done", "failed"}
    /\ attempt \in 0 .. Retries + 1
    /\ scope \in Scopes
    /\ stack \in Seq(Frame)
    /\ reviewed \in Seq(Verdicts)
    /\ written \in [Attempts -> SUBSET Paths]
    /\ disk \subseteq Paths
    /\ result \in [reason : Reasons, files : SUBSET Paths]
    /\ effect \in [phase : Roles \cup {"solo", "none"}, agent : Agents \cup {"none"},
                   depth : Nat, tool : Tools \cup {"none"}]

\* While the team plans or reviews, the runtime executes nothing but tools of
\* the read-only categories, and while it plans nothing at all: whatever names
\* the model calls, activates with request_tools or asks subagents for.
ReadOnlyOutsideWork ==
    effect # NoEffect /\ effect.phase \in {"planner", "reviewer"} =>
        effect.phase # "planner" /\ Category[effect.tool] \in ReadOnlyCategories

\* Unless the user asked for the host, no tool outside the sandbox categories
\* is executed for the team, in the worker, a subagent of it or a retry.
SandboxFirst ==
    effect # NoEffect /\ effect.phase # "solo" /\ scope = "sandbox" =>
        Category[effect.tool] \in SandboxCategories

\* A subagent runs only what its own access and list allow, however much its
\* list or the worker that called it has active.
SubagentConfined ==
    effect.depth > 1 => effect.tool \in SubAllowed(effect.agent, scope)

\* Delegation is not nested, and only work delegates.
NoNestedDelegation == Len(stack) <= 2 /\ (Len(stack) = 2 => phase = "worker")

\* What is delivered as approved was approved by the review of that very
\* attempt, and what is delivered with objections was refused every time.
VerdictStands ==
    /\ result.reason = "review_approved" =>
           Len(reviewed) = attempt /\ reviewed[attempt] = "approved"
    /\ result.reason = "review_requires_changes" =>
           attempt = Retries + 1 /\ \A i \in DOMAIN reviewed : reviewed[i] = "changes"

\* Whatever autowrite put on the disk for a prompt, in refused attempts too, the
\* answer names, and it names nothing else; a question names nothing that is not
\* there (results.py, build and build_user_question; workflow.py, run).
WritesAreNamed ==
    /\ result.reason \in {"answered", "review_approved", "review_requires_changes"} =>
           result.files = disk
    /\ result.reason = "awaiting_user_input" => result.files \subseteq disk

\* Every prompt is answered or ends in an error.
PromptEnds == <>(phase \in {"done", "failed"})

\* The promise this module keeps, step for step.
StageOf ==
    CASE phase = "idle"     -> "idle"
      [] phase = "solo"     -> "answering"
      [] phase = "planner"  -> "planning"
      [] phase = "worker"   -> "working"
      [] phase = "reviewer" -> "reviewing"
      [] phase = "done"     -> "done"
      [] phase = "failed"   -> "failed"

Delivery == INSTANCE ReviewedDelivery
              WITH stage <- StageOf, attempt <- attempt, outcome <- result.reason

\* The cycle of planning, work and reviews implements ReviewedDelivery.
DeliversReviewed == Delivery!Spec
=============================================================================
