-------------------------- MODULE AgentTeam_proofs --------------------------
(***************************************************************************)
(* Proofs about AgentTeam for every set of tools, registry of subagents    *)
(* and bound: who may execute what (ReadOnlyOutsideWork, SandboxFirst,     *)
(* SubagentConfined), that delegation is not nested, and that a delivery   *)
(* carries the verdict of its own review (VerdictStands) and names what    *)
(* was written on the way to it (WritesAreNamed).                          *)
(*                                                                         *)
(* What is inductive is the identity of the running workflows: which role  *)
(* or subagent each frame of the stack belongs to and what its role view   *)
(* allows.  The active tools, which the model extends, do not enter it.    *)
(***************************************************************************)
EXTENDS AgentTeam, SequenceTheorems, TLAPS

\* The frame of the role, or of the workflow without a team, that phase p runs.
Outermost(f, p, in) ==
    /\ p \in Roles \cup {"solo"}
    /\ p \in Roles => f.agent = p
    /\ p = "planner"  => f.allowed = {}
    /\ p = "worker"   => f.allowed = AllowedToolNames("full", in)
    /\ p = "reviewer" => f.allowed = OfCategory(ReadOnlyCategories)
    /\ "delegate_agent" \in f.internal => p = "worker"

\* The frame of a subagent.
Nested(f, in) ==
    /\ f.agent \in Subagents
    /\ f.allowed = SubAllowed(f.agent, in)
    /\ "delegate_agent" \notin f.internal

\* A workflow executes calls only while some are left.
CallsLeft(f) == f.stage = "executing" => f.left > 0

StackInv ==
    /\ Len(stack) <= 2
    /\ stack = <<>> <=> phase \in {"idle", "done", "failed"}
    /\ stack # <<>> => Outermost(stack[1], phase, scope)
    /\ Len(stack) = 2 => /\ Nested(stack[2], scope)
                         /\ phase = "worker"
                         /\ stack[1].stage = "executing"
    /\ \A i \in 1 .. Len(stack) : CallsLeft(stack[i])

EffectInv ==
    \/ effect = NoEffect
    \/ /\ effect.tool \in Tools
       /\ effect.phase \in Roles \cup {"solo"}
       /\ effect.phase # "planner"
       /\ effect.depth \in {1, 2}
       /\ effect.depth = 2 => /\ effect.phase = "worker"
                              /\ effect.agent \in Subagents
                              /\ effect.tool \in SubAllowed(effect.agent, scope)
       /\ effect.depth = 1 /\ effect.phase = "worker" =>
              effect.tool \in AllowedToolNames("full", scope)
       /\ effect.phase = "reviewer" => effect.tool \in OfCategory(ReadOnlyCategories)

\* The verdicts before the current attempt were all refusals.
Refused == \A i \in DOMAIN reviewed : reviewed[i] = "changes"

ReviewInv ==
    /\ phase \in {"idle", "planner", "solo"} => reviewed = <<>>
    /\ phase \in {"worker", "reviewer"} =>
           /\ attempt \in Attempts
           /\ Len(reviewed) = attempt - 1
           /\ Refused
    /\ phase \in {"idle", "planner", "worker", "reviewer", "solo"} => result.reason = "none"
    /\ result.reason = "review_approved" => /\ Len(reviewed) = attempt
                                            /\ attempt \in Attempts
                                            /\ reviewed[attempt] = "approved"
    /\ result.reason = "review_requires_changes" => attempt = Retries + 1 /\ Refused

IInv == TypeOK /\ StackInv /\ EffectInv /\ ReviewInv

USE DEF Scopes, Verdicts, Roles, Access, Categories, ReadOnlyCategories, SandboxCategories

\* What the policy allows is a set of tools, within the sandbox when asked for.
LEMMA AllowedTools ==
    ASSUME NEW access \in Access, NEW in \in Scopes
    PROVE  /\ AllowedToolNames(access, in) \subseteq Tools
           /\ in = "sandbox" =>
                 AllowedToolNames(access, in) \subseteq OfCategory(SandboxCategories)
  BY DEF AllowedToolNames, OfCategory

\* A subagent is allowed no more than its access, whatever it lists.
LEMMA SubagentTools ==
    ASSUME NEW agent \in Subagents, NEW in \in Scopes
    PROVE  /\ SubAllowed(agent, in) \subseteq Tools
           /\ in = "sandbox" => SubAllowed(agent, in) \subseteq OfCategory(SandboxCategories)
           /\ SubInitialTools(agent) \subseteq Tools
  BY AllowedTools, ToolAccessAssumption DEF SubAllowed, SubInitialTools, InitialTools

\* Every workflow starts as a frame with no calls left.
LEMMA FreshWorkflow ==
    ASSUME NEW agent \in Agents, NEW allowed \in SUBSET Tools, NEW active \in SUBSET Tools,
           NEW internal \in SUBSET InternalTools, NEW autowrite \in SUBSET Paths,
           NEW limit \in Nat
    PROVE  LET w == Workflow(agent, allowed, active, internal, autowrite, limit)
           IN  /\ w \in Frame
               /\ CallsLeft(w)
               /\ w.agent = agent /\ w.allowed = allowed /\ w.internal = internal
  BY DEF Workflow, Frame, CallsLeft

\* The workflow RoleWorkflowFactory.build makes for a role is the role's own.
LEMMA FreshRole ==
    ASSUME NEW role \in Roles, NEW in \in Scopes, NEW autowrite \in SUBSET Paths,
           NEW limit \in Nat
    PROVE  LET w == RoleWorkflow(role, in, autowrite, limit)
           IN  /\ w \in Frame
               /\ CallsLeft(w)
               /\ w.agent = role
               /\ w.allowed = AllowedToolNames(RoleAccess(role), in)
               /\ w.internal = RoleInternal(role)
  <1>1. RoleAccess(role) \in Access
    BY DEF RoleAccess
  <1>2. InitialTools(role) \in SUBSET Tools
    BY ToolAccessAssumption DEF InitialTools
  <1>3. AllowedToolNames(RoleAccess(role), in) \in SUBSET Tools
    BY <1>1, AllowedTools
  <1>4. RoleInternal(role) \in SUBSET InternalTools
    BY DEF RoleInternal, InternalTools
  <1>5. role \in Agents
    BY DEF Agents
  <1> QED BY <1>2, <1>3, <1>4, <1>5, FreshWorkflow DEF RoleWorkflow

\* The workflows run_planner, run_delivery_cycle and _run_reviewer start fit their phase.
LEMMA FreshRoles ==
    ASSUME scope \in Scopes
    PROVE  /\ Planner \in Frame /\ Outermost(Planner, "planner", scope) /\ CallsLeft(Planner)
           /\ Worker \in Frame /\ Outermost(Worker, "worker", scope) /\ CallsLeft(Worker)
           /\ Reviewer \in Frame /\ Outermost(Reviewer, "reviewer", scope) /\ CallsLeft(Reviewer)
  <1>1. AutoWritten \in SUBSET Paths
    BY DEF AutoWritten
  <1>2. Planner \in Frame /\ Outermost(Planner, "planner", scope) /\ CallsLeft(Planner)
    <2>1. /\ Planner \in Frame /\ CallsLeft(Planner) /\ Planner.agent = "planner"
          /\ Planner.allowed = AllowedToolNames(RoleAccess("planner"), "sandbox")
          /\ Planner.internal = RoleInternal("planner")
      BY <1>1, FreshRole, TeamAssumption DEF Planner
    <2>2. RoleAccess("planner") = "none"
      BY DEF RoleAccess
    <2> QED BY <2>1, <2>2 DEF Outermost, AllowedToolNames, RoleInternal, InternalTools
  <1>3. Worker \in Frame /\ Outermost(Worker, "worker", scope) /\ CallsLeft(Worker)
    <2>1. /\ Worker \in Frame /\ CallsLeft(Worker) /\ Worker.agent = "worker"
          /\ Worker.allowed = AllowedToolNames(RoleAccess("worker"), scope)
          /\ Worker.internal = RoleInternal("worker")
      BY <1>1, FreshRole, TeamAssumption DEF Worker
    <2>2. RoleAccess("worker") = "full"
      BY DEF RoleAccess
    <2> QED BY <2>1, <2>2 DEF Outermost, AllowedToolNames, RoleInternal, InternalTools
  <1>4. Reviewer \in Frame /\ Outermost(Reviewer, "reviewer", scope) /\ CallsLeft(Reviewer)
    <2>1. /\ Reviewer \in Frame /\ CallsLeft(Reviewer) /\ Reviewer.agent = "reviewer"
          /\ Reviewer.allowed = AllowedToolNames(RoleAccess("reviewer"), scope)
          /\ Reviewer.internal = RoleInternal("reviewer")
      BY <1>1, FreshRole, TeamAssumption DEF Reviewer
    <2>2. RoleAccess("reviewer") = "read_only"
      BY DEF RoleAccess
    <2> QED BY <2>1, <2>2 DEF Outermost, AllowedToolNames, RoleInternal, InternalTools
  <1> QED BY <1>2, <1>3, <1>4

\* So do the workflows WorkflowRegistry runs without a team.
LEMMA FreshSolo ==
    ASSUME NEW w \in {SingleWorkflow, DirectAnswer}
    PROVE  w \in Frame /\ Outermost(w, "solo", scope) /\ CallsLeft(w)
  <1> USE TeamAssumption, FreshWorkflow DEF Agents, Outermost, AutoWritten
  <1>1. CASE w = SingleWorkflow
    BY <1>1 DEF SingleWorkflow
  <1>2. CASE w = DirectAnswer
    BY <1>2 DEF DirectAnswer
  <1> QED BY <1>1, <1>2

\* The workflow build_subagent makes is confined to the subagent's view.
LEMMA FreshSubagent ==
    ASSUME scope \in Scopes, NEW agent \in Subagents
    PROVE  /\ SubagentWorkflow(agent) \in Frame
           /\ Nested(SubagentWorkflow(agent), scope)
           /\ CallsLeft(SubagentWorkflow(agent))
  <1>1. /\ SubAllowed(agent, scope) \in SUBSET Tools
        /\ SubInitialTools(agent) \in SUBSET Tools
    BY SubagentTools
  <1>2. LeastOf(MaxSteps, 4) \in Nat
    BY TeamAssumption DEF LeastOf
  <1>3. /\ SubInternal(agent) \in SUBSET InternalTools
        /\ "delegate_agent" \notin SubInternal(agent)
    BY DEF SubInternal, InternalTools
  <1>4. agent \in Agents
    BY DEF Agents
  <1> QED BY <1>1, <1>2, <1>3, <1>4, FreshWorkflow DEF SubagentWorkflow, Nested
----------------------------------------------------------------------------
(* What the steps do to the stack                                          *)

\* The depths the call stack has.
LEMMA OneOrTwo ==
    ASSUME NEW n \in Nat, n # 0, n <= 2
    PROVE  n = 1 \/ n = 2
  OBVIOUS

\* A depth that is not one is a nested one.
LEMMA AboveOne ==
    ASSUME NEW n \in Nat \ {0}, n # 1
    PROVE  n > 1
  OBVIOUS

\* A stack of one workflow is not empty.
LEMMA OneElement ==
    ASSUME NEW S, NEW s \in Seq(S), Len(s) = 1
    PROVE  s # <<>>
  OBVIOUS

\* Replacing the only element of a stack.
LEMMA ReplaceOnly ==
    ASSUME NEW S, NEW s \in Seq(S), NEW e \in S, Len(s) = 1
    PROVE  LET r == [s EXCEPT ![1] = e] IN r \in Seq(S) /\ Len(r) = 1 /\ r[1] = e
  <1>1. 1 \in 1 .. Len(s)
    OBVIOUS
  <1> QED BY <1>1, ExceptSeq

\* A running stack has a top frame.
LEMMA TopFrame ==
    ASSUME stack \in Seq(Frame), stack # <<>>
    PROVE  Len(stack) \in Nat \ {0} /\ Len(stack) \in 1 .. Len(stack) /\ Top \in Frame
  BY DEF Top

\* The top frame goes on as the same role or subagent.
LEMMA SetTopKeeps ==
    ASSUME stack \in Seq(Frame), stack # <<>>, StackInv,
           NEW f \in Frame, CallsLeft(f),
           f.agent = Top.agent, f.allowed = Top.allowed, f.internal = Top.internal,
           stack' = SetTop(f), phase' = phase, scope' = scope
    PROVE  stack' \in Seq(Frame) /\ StackInv'
  <1>1. /\ stack' \in Seq(Frame) /\ Len(stack') = Len(stack)
        /\ stack'[Len(stack)] = f
        /\ \A i \in 1 .. Len(stack) : i # Len(stack) => stack'[i] = stack[i]
    BY TopFrame, ExceptSeq DEF SetTop
  <1>2. CASE Len(stack) = 1
    BY <1>1, <1>2 DEF StackInv, Top, Outermost
  <1>3. CASE Len(stack) = 2
    BY <1>1, <1>3 DEF StackInv, Top, Outermost, Nested
  <1>4. Len(stack) = 1 \/ Len(stack) = 2
    BY TopFrame, OneOrTwo DEF StackInv
  <1> QED BY <1>1, <1>2, <1>3, <1>4

\* After a call the frame is the same workflow with one call less to execute.
LEMMA CallDoneFrame ==
    ASSUME NEW f \in Frame, f.stage = "executing", CallsLeft(f)
    PROVE  /\ CallDone(f) \in Frame
           /\ CallsLeft(CallDone(f))
           /\ CallDone(f).agent = f.agent
           /\ CallDone(f).allowed = f.allowed
           /\ CallDone(f).internal = f.internal
  <1> DEFINE g == CallDone(f)
             s == IF f.left = 1 THEN "looping" ELSE "executing"
  <1>1. f.left \in Nat /\ f.left > 0
    BY DEF Frame, CallsLeft
  <1>2. f.left - 1 \in Nat /\ (f.left # 1 => f.left - 1 > 0)
    BY <1>1
  <1>3. s \in {"looping", "executing", "answered"} /\ (s = "executing" => f.left # 1)
    OBVIOUS
  <1>4. g = [f EXCEPT !.left = f.left - 1, !.stage = s]
    BY DEF CallDone
  <1> HIDE DEF s, g
  <1>5. g \in Frame /\ g.left = f.left - 1 /\ g.stage = s
        /\ g.agent = f.agent /\ g.allowed = f.allowed /\ g.internal = f.internal
    BY <1>2, <1>3, <1>4 DEF Frame
  <1>6. CallsLeft(g)
    BY <1>2, <1>3, <1>5 DEF CallsLeft
  <1> QED BY <1>5, <1>6 DEF g

\* A subagent's frame goes, and the call it ran in is done.
LEMMA ReturnKeeps ==
    ASSUME stack \in Seq(Frame), Len(stack) > 1, StackInv,
           ReturnToCaller, phase' = phase, scope' = scope
    PROVE  stack' \in Seq(Frame) /\ StackInv'
  <1>1. Len(stack) = 2
    <2>1. Len(stack) \in Nat /\ Len(stack) # 0 /\ Len(stack) # 1
      OBVIOUS
    <2> QED BY <2>1, OneOrTwo DEF StackInv
  <1>2. /\ stack[1] \in Frame /\ stack[1].stage = "executing"
        /\ Outermost(stack[1], phase, scope) /\ CallsLeft(stack[1])
    BY <1>1 DEF StackInv
  <1> DEFINE done == CallDone(stack[1])
  <1>3. done \in Frame /\ Outermost(done, phase, scope) /\ CallsLeft(done)
    BY <1>2, CallDoneFrame DEF Outermost
  <1>4. Caller \in Seq(Frame) /\ Len(Caller) = 1 /\ Caller[1] = stack[1]
    BY <1>1 DEF Caller
  <1>5. stack' = [Caller EXCEPT ![1] = done]
    <2>1. Len(stack) - 1 = 1
      BY <1>1
    <2>2. stack' = [Caller EXCEPT ![1] = CallDone(Caller[1])]
      BY <2>1 DEF ReturnToCaller
    <2> QED BY <1>4, <2>2
  <1> HIDE DEF done
  <1>6. stack' \in Seq(Frame) /\ Len(stack') = 1 /\ stack'[1] = done
    BY <1>3, <1>4, <1>5, ReplaceOnly
  <1>7. phase = "worker"
    BY <1>1 DEF StackInv
  <1>8. /\ Len(stack') <= 2 /\ stack' # <<>>
        /\ \A i \in 1 .. Len(stack') : CallsLeft(stack'[i])
    BY <1>3, <1>6, OneElement
  <1>9. Outermost(stack'[1], phase', scope')
    BY <1>3, <1>6
  <1> QED BY <1>6, <1>7, <1>8, <1>9 DEF StackInv

\* A subagent's frame comes on top of the worker's.
LEMMA PushKeeps ==
    ASSUME stack \in Seq(Frame), stack # <<>>, StackInv, scope \in Scopes,
           Top.stage = "executing", "delegate_agent" \in Top.internal,
           NEW agent \in Subagents, stack' = Append(stack, SubagentWorkflow(agent)),
           phase' = phase, scope' = scope
    PROVE  stack' \in Seq(Frame) /\ StackInv'
  <1>1. Len(stack) = 1
    <2>1. Len(stack) = 1 \/ Len(stack) = 2
      BY TopFrame, OneOrTwo DEF StackInv
    <2> QED BY <2>1 DEF StackInv, Nested, Top
  <1>2. Top = stack[1] /\ phase = "worker"
    BY <1>1 DEF StackInv, Outermost, Top
  <1>3. /\ SubagentWorkflow(agent) \in Frame
        /\ Nested(SubagentWorkflow(agent), scope)
        /\ CallsLeft(SubagentWorkflow(agent))
    BY FreshSubagent
  <1>4. /\ stack' \in Seq(Frame) /\ Len(stack') = 2
        /\ stack'[1] = stack[1] /\ stack'[2] = SubagentWorkflow(agent)
    <2> DEFINE new == SubagentWorkflow(agent)
    <2>1. stack' = Append(stack, new) /\ new \in Frame
      BY <1>3
    <2> HIDE DEF new
    <2>2. /\ stack' \in Seq(Frame) /\ Len(stack') = Len(stack) + 1
          /\ \A i \in 1 .. Len(stack) : stack'[i] = stack[i]
          /\ stack'[Len(stack) + 1] = new
      BY <2>1, AppendProperties
    <2> QED BY <1>1, <2>2 DEF new
  <1> QED BY <1>1, <1>2, <1>3, <1>4 DEF StackInv, Outermost, Nested

\* A workflow starts alone on the stack.
LEMMA FreshStack ==
    ASSUME NEW f \in Frame, CallsLeft(f), Outermost(f, phase', scope'), stack' = <<f>>
    PROVE  stack' \in Seq(Frame) /\ StackInv'
  <1>1. stack' \in Seq(Frame) /\ Len(stack') = 1 /\ stack'[1] = f
    OBVIOUS
  <1> QED BY <1>1 DEF StackInv, Outermost
----------------------------------------------------------------------------
(* What the steps do to the rest                                           *)

EffectType ==
    effect \in [phase : Roles \cup {"solo", "none"}, agent : Agents \cup {"none"},
                depth : Nat, tool : Tools \cup {"none"}]

\* A step that has the runtime execute nothing keeps what is said of effects.
LEMMA NothingRan ==
    ASSUME effect' = NoEffect
    PROVE  EffectType' /\ EffectInv'
  BY DEF EffectType, EffectInv, NoEffect

\* The frame on top: the role of the phase, or a subagent of the worker.
LEMMA TopIs ==
    ASSUME stack \in Seq(Frame), stack # <<>>, StackInv
    PROVE  /\ CallsLeft(Top)
           /\ \/ Len(stack) = 1 /\ Outermost(Top, phase, scope)
              \/ Len(stack) = 2 /\ Nested(Top, scope) /\ phase = "worker"
  <1>1. Len(stack) = 1 \/ Len(stack) = 2
    BY TopFrame, OneOrTwo DEF StackInv
  <1>2. CASE Len(stack) = 1
    BY <1>2 DEF StackInv, Top
  <1>3. CASE Len(stack) = 2
    BY <1>3 DEF StackInv, Top
  <1> QED BY <1>1, <1>2, <1>3

\* A tool the views let through ran.
LEMMA ToolRan ==
    ASSUME TypeOK, StackInv, Running, NEW tool \in Tools, Executes(Top, tool),
           effect' = Ran(tool), scope' = scope
    PROVE  EffectType' /\ EffectInv'
  <1>1. Top \in Frame /\ tool \in Top.allowed
    BY TopFrame DEF TypeOK, Running, Executes
  <1>2. /\ effect'.phase = phase /\ effect'.agent = Top.agent
        /\ effect'.depth = Len(stack) /\ effect'.tool = tool
    BY DEF Ran
  <1>3. CASE Len(stack) = 1 /\ Outermost(Top, phase, scope)
    <2>1. /\ effect'.depth = 1 /\ effect'.phase \in Roles \cup {"solo"}
          /\ effect'.phase # "planner"
          /\ effect'.phase = "worker" => tool \in AllowedToolNames("full", scope)
          /\ effect'.phase = "reviewer" => tool \in OfCategory(ReadOnlyCategories)
      BY <1>1, <1>2, <1>3 DEF Outermost
    <2>2. EffectInv'
      BY <1>2, <2>1 DEF EffectInv
    <2>3. Top.agent \in Agents
      BY <1>1 DEF Frame
    <2> QED BY <2>1, <2>2, <2>3, <1>2 DEF EffectType, Ran
  <1>4. CASE Len(stack) = 2 /\ Nested(Top, scope) /\ phase = "worker"
    <2>1. /\ effect'.depth = 2 /\ effect'.phase = "worker"
          /\ effect'.agent \in Subagents
          /\ effect'.tool \in SubAllowed(effect'.agent, scope)
      BY <1>1, <1>2, <1>4 DEF Nested
    <2>2. EffectInv'
      BY <1>2, <2>1 DEF EffectInv
    <2>3. Top.agent \in Agents
      BY <1>1 DEF Frame
    <2> QED BY <2>1, <2>2, <2>3, <1>2 DEF EffectType, Ran
  <1> QED BY <1>3, <1>4, TopIs DEF TypeOK, Running

\* Steps inside a workflow leave the reviews alone.
LEMMA LoopKeeps ==
    ASSUME IInv, stack' \in Seq(Frame), StackInv', EffectType', EffectInv',
           phase' = phase \/ phase' = "failed",
           UNCHANGED <<attempt, scope, reviewed, written, disk, result>>
    PROVE  IInv'
  <1>1. TypeOK'
    BY DEF IInv, TypeOK, EffectType
  <1>2. ReviewInv'
    BY DEF IInv, ReviewInv, Refused, Attempts
  <1> QED BY <1>1, <1>2 DEF IInv

\* Every step of the loop of a workflow keeps the invariant.
LEMMA LoopSteps ==
    ASSUME IInv, Loop
    PROVE  IInv'
  <1> USE DEF Running
  <1>1. stack \in Seq(Frame) /\ StackInv /\ scope \in Scopes /\ TypeOK
    BY DEF IInv, TypeOK
  <1>2. ASSUME NEW n \in 0 .. MaxCalls, Turn(n) PROVE IInv'
    <2> DEFINE s == IF n = 0 THEN "answered" ELSE "executing"
               f == [Top EXCEPT !.step = @ + 1, !.left = n, !.stage = s]
    <2>1. Top \in Frame /\ n \in Nat
      BY <1>1, <1>2, TopFrame, TeamAssumption DEF Turn
    <2>s. s \in {"answered", "executing"} /\ (s = "executing" => n > 0)
      BY <2>1
    <2>3. stack' = SetTop(f)
      BY <1>2 DEF Turn
    <2> HIDE DEF s
    <2>2. /\ f \in Frame /\ CallsLeft(f)
          /\ f.agent = Top.agent /\ f.allowed = Top.allowed /\ f.internal = Top.internal
      <3>1. Top.step + 1 \in Nat
        BY <2>1 DEF Frame
      <3>2. /\ f \in Frame /\ f.left = n /\ f.stage = s
            /\ f.agent = Top.agent /\ f.allowed = Top.allowed /\ f.internal = Top.internal
        BY <2>1, <2>s, <3>1 DEF Frame
      <3>3. CallsLeft(f)
        BY <2>s, <3>2 DEF CallsLeft
      <3> QED BY <3>2, <3>3
    <2> HIDE DEF f
    <2>4. stack' \in Seq(Frame) /\ StackInv'
      BY <1>1, <1>2, <2>2, <2>3, SetTopKeeps DEF Turn
    <2> QED BY <1>2, <2>4, NothingRan, LoopKeeps DEF Turn
  <1>3. ASSUME ClosingTurn PROVE IInv'
    <2> DEFINE f == [Top EXCEPT !.stage = "answered", !.autowrite = {}]
    <2>1. Top \in Frame
      BY <1>1, <1>3, TopFrame DEF ClosingTurn
    <2>2. /\ f \in Frame /\ CallsLeft(f)
          /\ f.agent = Top.agent /\ f.allowed = Top.allowed /\ f.internal = Top.internal
      BY <2>1 DEF Frame, CallsLeft
    <2>3. stack' = SetTop(f)
      BY <1>3 DEF ClosingTurn
    <2> HIDE DEF f
    <2>4. stack' \in Seq(Frame) /\ StackInv'
      BY <1>1, <1>3, <2>2, <2>3, SetTopKeeps DEF ClosingTurn
    <2> QED BY <1>3, <2>4, NothingRan, LoopKeeps DEF ClosingTurn
  <1>4. ASSUME TurnFails PROVE IInv'
    <2>1. CASE Len(stack) = 1
      <3>1. phase' = "failed" /\ stack' = <<>> /\ scope' = scope
        BY <1>4, <2>1 DEF TurnFails
      <3>2. stack' \in Seq(Frame) /\ StackInv'
        BY <3>1 DEF StackInv
      <3> QED BY <1>4, <3>1, <3>2, NothingRan, LoopKeeps DEF TurnFails
    <2>2. CASE Len(stack) # 1
      <3>1. Len(stack) > 1 /\ ReturnToCaller /\ phase' = phase /\ scope' = scope
        <4>1. Len(stack) > 1
          <5>1. Len(stack) \in Nat \ {0}
            BY <1>1, <1>4, TopFrame DEF TurnFails
          <5> QED BY <2>2, <5>1, AboveOne
        <4>2. ReturnToCaller /\ phase' = phase /\ scope' = scope
          BY <1>4, <2>2 DEF TurnFails
        <4> QED BY <4>1, <4>2
      <3>2. stack' \in Seq(Frame) /\ StackInv'
        BY <1>1, <3>1, ReturnKeeps
      <3> QED BY <1>4, <3>1, <3>2, NothingRan, LoopKeeps DEF TurnFails
    <2> QED BY <2>1, <2>2
  <1>5. ASSUME Running, Top.stage = "executing", stack' = SetTop(CallDone(Top)),
               phase' = phase, scope' = scope
        PROVE  stack' \in Seq(Frame) /\ StackInv'
    <2> DEFINE f == CallDone(Top)
    <2>1. Top \in Frame /\ CallsLeft(Top)
      BY <1>1, <1>5, TopFrame, TopIs
    <2>2. /\ f \in Frame /\ CallsLeft(f)
          /\ f.agent = Top.agent /\ f.allowed = Top.allowed /\ f.internal = Top.internal
      BY <1>5, <2>1, CallDoneFrame
    <2> HIDE DEF f
    <2>3. stack' = SetTop(f)
      BY <1>5 DEF f
    <2> QED BY <1>1, <1>5, <2>2, <2>3, SetTopKeeps
  <1>6. ASSUME NEW tool \in Tools, CallTool(tool) PROVE IInv'
    <2>1. stack' \in Seq(Frame) /\ StackInv'
      BY <1>5, <1>6 DEF CallTool
    <2>2. CASE Executes(Top, tool)
      <3>1. EffectType' /\ EffectInv'
        BY <1>1, <1>6, <2>2, ToolRan DEF CallTool
      <3> QED BY <1>6, <2>1, <3>1, LoopKeeps DEF CallTool
    <2>3. CASE ~Executes(Top, tool)
      BY <1>6, <2>1, <2>3, NothingRan, LoopKeeps DEF CallTool
    <2> QED BY <2>2, <2>3
  <1>7. ASSUME RefuseCall PROVE IInv'
    <2>1. stack' \in Seq(Frame) /\ StackInv'
      BY <1>5, <1>7 DEF RefuseCall
    <2> QED BY <1>7, <2>1, NothingRan, LoopKeeps DEF RefuseCall
  <1>8. ASSUME NEW names \in SUBSET Tools, RequestTools(names) PROVE IInv'
    <2> DEFINE g == CallDone(Top)
               f == [g EXCEPT !.active = Activated(Top, names)]
    <2>1. Top \in Frame /\ CallsLeft(Top) /\ Top.stage = "executing"
      BY <1>1, <1>8, TopFrame, TopIs DEF RequestTools
    <2>2. /\ g \in Frame /\ CallsLeft(g)
          /\ g.agent = Top.agent /\ g.allowed = Top.allowed /\ g.internal = Top.internal
      BY <2>1, CallDoneFrame
    <2>3. Activated(Top, names) \in SUBSET Tools
      BY <2>1 DEF Activated, Frame
    <2>4. stack' = SetTop(f)
      BY <1>8 DEF RequestTools
    <2> HIDE DEF g
    <2>5. /\ f \in Frame /\ CallsLeft(f)
          /\ f.agent = Top.agent /\ f.allowed = Top.allowed /\ f.internal = Top.internal
      BY <2>2, <2>3 DEF Frame, CallsLeft
    <2> HIDE DEF f
    <2>6. stack' \in Seq(Frame) /\ StackInv'
      BY <1>1, <1>8, <2>4, <2>5, SetTopKeeps DEF RequestTools
    <2> QED BY <1>8, <2>6, NothingRan, LoopKeeps DEF RequestTools
  <1>9. ASSUME NEW agent \in Subagents, Delegate(agent) PROVE IInv'
    <2>1. stack' \in Seq(Frame) /\ StackInv'
      BY <1>1, <1>9, PushKeeps DEF Delegate
    <2> QED BY <1>9, <2>1, NothingRan, LoopKeeps DEF Delegate
  <1>10. ASSUME SubagentReturns PROVE IInv'
    <2>1. stack' \in Seq(Frame) /\ StackInv'
      BY <1>1, <1>10, ReturnKeeps DEF SubagentReturns
    <2> QED BY <1>10, <2>1, NothingRan, LoopKeeps DEF SubagentReturns
  <1> QED BY <1>2, <1>3, <1>4, <1>6, <1>7, <1>8, <1>9, <1>10 DEF Loop

\* The outermost workflow is over and those of the cycle are what they were.
LEMMA ReturnedFrame ==
    ASSUME IInv, NEW p \in Roles \cup {"solo"}, Answered(p)
    PROVE  /\ stack \in Seq(Frame) /\ StackInv /\ TypeOK /\ scope \in Scopes
           /\ stack # <<>> /\ Top \in Frame
  <1>1. stack \in Seq(Frame) /\ StackInv /\ TypeOK /\ scope \in Scopes
    BY DEF IInv, TypeOK
  <1>2. stack # <<>>
    BY <1>1, OneElement DEF Answered
  <1> QED BY <1>1, <1>2, TopFrame

\* Autowrite runs nothing but writefile, and that only when the views let it.
LEMMA AutoWriteRan ==
    ASSUME IInv, NEW p \in Roles \cup {"solo"}, Answered(p),
           NEW files \in SUBSET Paths, AutoWrites(files), scope' = scope
    PROVE  EffectType' /\ EffectInv'
  <1>1. CASE files = {}
    BY <1>1, NothingRan DEF AutoWrites
  <1>2. CASE files # {}
    <2>1. Writefile \in Tools /\ Executes(Top, Writefile) /\ effect' = Ran(Writefile)
      BY <1>2 DEF AutoWrites
    <2> QED BY <2>1, ReturnedFrame, ToolRan DEF Running
  <1> QED BY <1>1, <1>2

\* A new workflow of the cycle, or none when the run is over.
LEMMA CycleStack ==
    ASSUME IInv, scope' = scope,
           \/ phase' = "worker" /\ stack' = <<Worker>>
           \/ phase' = "reviewer" /\ stack' = <<Reviewer>>
           \/ phase' = "done" /\ stack' = <<>>
    PROVE  /\ stack' \in Seq(Frame) /\ StackInv'
           /\ phase' \in {"worker", "reviewer", "done"}
  <1>1. scope \in Scopes
    BY DEF IInv, TypeOK
  <1>2. CASE phase' = "worker" /\ stack' = <<Worker>>
    BY <1>1, <1>2, FreshRoles, FreshStack
  <1>3. CASE phase' = "reviewer" /\ stack' = <<Reviewer>>
    BY <1>1, <1>3, FreshRoles, FreshStack
  <1>4. CASE phase' = "done" /\ stack' = <<>>
    BY <1>4 DEF StackInv
  <1> QED BY <1>2, <1>3, <1>4

\* One more verdict at the end of the list.
LEMMA OneMoreVerdict ==
    ASSUME IInv, phase = "reviewer", NEW v \in Verdicts, reviewed' = Append(reviewed, v)
    PROVE  /\ attempt \in Attempts
           /\ reviewed' \in Seq(Verdicts) /\ Len(reviewed') = attempt
           /\ reviewed'[attempt] = v
           /\ v = "changes" => Refused'
  <1>1. /\ reviewed \in Seq(Verdicts) /\ attempt \in Attempts
        /\ Len(reviewed) = attempt - 1 /\ Refused
    BY DEF IInv, TypeOK, ReviewInv
  <1>2. attempt \in Nat /\ Len(reviewed) + 1 = attempt
    BY <1>1, TeamAssumption DEF Attempts
  <1>3. /\ reviewed' \in Seq(Verdicts) /\ Len(reviewed') = Len(reviewed) + 1
        /\ \A i \in 1 .. Len(reviewed) : reviewed'[i] = reviewed[i]
        /\ reviewed'[Len(reviewed) + 1] = v
    BY <1>1, AppendProperties
  <1>4. ASSUME v = "changes" PROVE Refused'
    <2>1. DOMAIN reviewed' = 1 .. Len(reviewed) + 1 /\ DOMAIN reviewed = 1 .. Len(reviewed)
      BY <1>1, <1>3
    <2> QED BY <1>1, <1>3, <1>4, <2>1 DEF Refused
  <1> QED BY <1>1, <1>2, <1>3, <1>4

\* Every step of the delivery cycle keeps the invariant.
LEMMA CycleSteps ==
    ASSUME IInv, Cycle
    PROVE  IInv'
  <1>t. TypeOK /\ ReviewInv
    BY DEF IInv
  <1>1. ASSUME PlannerReturns PROVE IInv'
    <2>1. stack' \in Seq(Frame) /\ StackInv'
      BY <1>1, CycleStack DEF PlannerReturns
    <2>2. EffectType' /\ EffectInv'
      BY <1>1, NothingRan DEF PlannerReturns
    <2>3. ReviewInv'
      BY <1>1, <1>t, TeamAssumption DEF PlannerReturns, Answered, ReviewInv, Refused, Attempts, TypeOK
    <2>4. TypeOK'
      BY <1>1, <1>t, <2>1, <2>2, TeamAssumption DEF PlannerReturns, TypeOK, EffectType
    <2> QED BY <2>1, <2>2, <2>3, <2>4 DEF IInv
  <1>2. ASSUME NEW files \in SUBSET Paths, WorkerReturns(files) PROVE IInv'
    <2>1. stack' \in Seq(Frame) /\ StackInv'
      BY <1>2, CycleStack DEF WorkerReturns
    <2>2. EffectType' /\ EffectInv'
      BY <1>2, AutoWriteRan DEF WorkerReturns
    <2>3. ReviewInv'
      BY <1>2, <1>t DEF WorkerReturns, Answered, ReviewInv, Refused
    <2>d. disk' \subseteq Paths
      BY <1>2, <1>t DEF WorkerReturns, AutoWrites, TypeOK
    <2>4. TypeOK'
      BY <1>2, <1>t, <2>1, <2>2, <2>d DEF WorkerReturns, TypeOK, EffectType
    <2> QED BY <2>1, <2>2, <2>3, <2>4 DEF IInv
  <1>3. ASSUME NEW files \in SUBSET Paths, WorkerAsks(files) PROVE IInv'
    <2>1. stack' \in Seq(Frame) /\ StackInv'
      BY <1>3, CycleStack DEF WorkerAsks
    <2>2. EffectType' /\ EffectInv'
      BY <1>3, AutoWriteRan DEF WorkerAsks
    <2>3. ReviewInv'
      BY <1>3, <1>t DEF WorkerAsks, ReviewInv
    <2>d. disk' \subseteq Paths
      BY <1>3, <1>t DEF WorkerAsks, AutoWrites, TypeOK
    <2>4. TypeOK'
      BY <1>3, <1>t, <2>1, <2>2, <2>d DEF WorkerAsks, TypeOK, EffectType, Reasons
    <2> QED BY <2>1, <2>2, <2>3, <2>4 DEF IInv
  <1>4. ASSUME NEW files \in SUBSET Paths, SoloReturns(files) PROVE IInv'
    <2>1. stack' \in Seq(Frame) /\ StackInv'
      BY <1>4, CycleStack DEF SoloReturns
    <2>2. EffectType' /\ EffectInv'
      BY <1>4, AutoWriteRan DEF SoloReturns
    <2>3. ReviewInv'
      BY <1>4, <1>t DEF SoloReturns, ReviewInv
    <2>d. disk' \subseteq Paths
      BY <1>4, <1>t DEF SoloReturns, AutoWrites, TypeOK
    <2>4. TypeOK'
      BY <1>4, <1>t, <2>1, <2>2, <2>d DEF SoloReturns, TypeOK, EffectType, Reasons
    <2> QED BY <2>1, <2>2, <2>3, <2>4 DEF IInv
  <1>w. AllWritten \in SUBSET Paths
    BY <1>t DEF AllWritten, TypeOK
  <1>5. ASSUME ReviewerApproves PROVE IInv'
    <2>1. stack' \in Seq(Frame) /\ StackInv'
      BY <1>5, CycleStack DEF ReviewerApproves, Deliver
    <2>2. EffectType' /\ EffectInv'
      BY <1>5, NothingRan DEF ReviewerApproves
    <2>3. /\ attempt \in Attempts
          /\ reviewed' \in Seq(Verdicts) /\ Len(reviewed') = attempt
          /\ reviewed'[attempt] = "approved"
      BY <1>5, OneMoreVerdict DEF ReviewerApproves, Answered
    <2>4. ReviewInv'
      BY <1>5, <2>3 DEF ReviewerApproves, Deliver, ReviewInv, Attempts
    <2>5. TypeOK'
      BY <1>5, <1>t, <1>w, <2>1, <2>2, <2>3
         DEF ReviewerApproves, Deliver, TypeOK, EffectType, Reasons
    <2> QED BY <2>1, <2>2, <2>4, <2>5 DEF IInv
  <1>6. ASSUME ReviewerRejects PROVE IInv'
    <2>1. stack' \in Seq(Frame) /\ StackInv'
      BY <1>6, CycleStack DEF ReviewerRejects, Deliver
    <2>2. EffectType' /\ EffectInv'
      BY <1>6, NothingRan DEF ReviewerRejects
    <2>3. /\ attempt \in Attempts
          /\ reviewed' \in Seq(Verdicts) /\ Len(reviewed') = attempt
          /\ Refused'
      BY <1>6, OneMoreVerdict DEF ReviewerRejects, Answered
    <2>4. CASE attempt < Retries + 1 /\ phase' = "worker" /\ attempt' = attempt + 1 /\ result' = result
      <3>1. attempt' \in Attempts /\ Len(reviewed') = attempt' - 1
        BY <2>3, <2>4, TeamAssumption DEF Attempts
      <3>2. result.reason = "none"
        BY <1>6, <1>t DEF ReviewerRejects, Answered, ReviewInv
      <3>3. ReviewInv'
        BY <2>3, <2>4, <3>1, <3>2 DEF ReviewInv
      <3>4. TypeOK'
        BY <1>6, <1>t, <2>1, <2>2, <2>3, <2>4, <3>1
           DEF ReviewerRejects, TypeOK, EffectType, Attempts
      <3> QED BY <2>1, <2>2, <3>3, <3>4 DEF IInv
    <2>5. CASE attempt = Retries + 1 /\ attempt' = attempt /\ Deliver("review_requires_changes")
      <3>1. ReviewInv'
        BY <2>3, <2>5 DEF ReviewInv, Deliver
      <3>2. TypeOK'
        BY <1>6, <1>t, <1>w, <2>1, <2>2, <2>3, <2>5
           DEF ReviewerRejects, Deliver, TypeOK, EffectType, Reasons
      <3> QED BY <2>1, <2>2, <3>1, <3>2 DEF IInv
    <2> QED BY <1>6, <2>4, <2>5 DEF ReviewerRejects
  <1> QED BY <1>1, <1>2, <1>3, <1>4, <1>5, <1>6 DEF Cycle
----------------------------------------------------------------------------
(* The theorems                                                            *)

\* The invariant holds before a prompt is handled.
LEMMA InitInv == Init => IInv
  <1> SUFFICES ASSUME Init PROVE IInv
    OBVIOUS
  <1>1. TypeOK
    BY TeamAssumption DEF Init, TypeOK, NoResult, NoEffect, Reasons, Attempts
  <1>2. StackInv
    BY DEF Init, StackInv
  <1>3. EffectInv /\ ReviewInv
    BY DEF Init, EffectInv, ReviewInv, NoResult
  <1> QED BY <1>1, <1>2, <1>3 DEF IInv

\* The invariant is inductive.
LEMMA NextInv == IInv /\ [Next]_vars => IInv'
  <1> SUFFICES ASSUME IInv, [Next]_vars PROVE IInv'
    OBVIOUS
  <1>t. TypeOK /\ StackInv /\ EffectInv /\ ReviewInv /\ scope \in Scopes
    BY DEF IInv, TypeOK
  <1>1. CASE Block
    <2>1. TypeOK'
      BY <1>1, <1>t DEF Block, TypeOK, Reasons
    <2>2. StackInv'
      BY <1>1, <1>t DEF Block, StackInv
    <2>3. EffectInv'
      BY <1>1, <1>t DEF Block, EffectInv
    <2>4. ReviewInv'
      BY <1>1, <1>t DEF Block, ReviewInv
    <2> QED BY <2>1, <2>2, <2>3, <2>4 DEF IInv
  <1>2. CASE AnswerAlone
    <2>1. PICK w \in {SingleWorkflow, DirectAnswer} : stack' = <<w>>
      BY <1>2 DEF AnswerAlone
    <2>2. stack' \in Seq(Frame) /\ StackInv'
      BY <1>2, <2>1, FreshSolo, FreshStack DEF AnswerAlone
    <2>3. TypeOK'
      BY <1>2, <1>t, <2>2 DEF AnswerAlone, TypeOK
    <2>4. EffectInv'
      BY <1>2, <1>t DEF AnswerAlone, EffectInv
    <2>5. ReviewInv'
      BY <1>2, <1>t DEF AnswerAlone, ReviewInv
    <2> QED BY <2>2, <2>3, <2>4, <2>5 DEF IInv
  <1>3. CASE EngageTeam
    <2>1. stack' \in Seq(Frame) /\ StackInv'
      BY <1>3, <1>t, FreshRoles, FreshStack DEF EngageTeam
    <2>2. TypeOK'
      BY <1>3, <1>t, <2>1 DEF EngageTeam, TypeOK
    <2>3. EffectInv'
      BY <1>3, <1>t DEF EngageTeam, EffectInv
    <2>4. ReviewInv'
      BY <1>3, <1>t DEF EngageTeam, ReviewInv
    <2> QED BY <2>1, <2>2, <2>3, <2>4 DEF IInv
  <1>4. CASE Loop
    BY <1>4, LoopSteps
  <1>5. CASE Cycle
    BY <1>5, CycleSteps
  <1>6. CASE UNCHANGED vars
    <2>1. TypeOK' /\ StackInv'
      BY <1>6, <1>t DEF vars, TypeOK, StackInv
    <2>2. EffectInv' /\ ReviewInv'
      BY <1>6, <1>t DEF vars, EffectInv, ReviewInv, Refused
    <2> QED BY <2>1, <2>2 DEF IInv
  <1> QED BY <1>1, <1>2, <1>3, <1>4, <1>5, <1>6 DEF Next, Ended

\* What every theorem below rests on: the inductive invariant.
THEOREM Invariance == Spec => []IInv
  BY InitInv, NextInv, PTL DEF Spec

\* run() and everything it calls keep the types of their state.
THEOREM TypeCorrect == Spec => []TypeOK
  <1>1. IInv => TypeOK
    BY DEF IInv
  <1> QED BY Invariance, <1>1, PTL

\* Planning executes nothing and a review nothing but read-only tools, for any
\* tools, categories, subagents and initial selections.
THEOREM ReadOnly == Spec => []ReadOnlyOutsideWork
  <1>1. IInv => ReadOnlyOutsideWork
    BY DEF IInv, EffectInv, ReadOnlyOutsideWork, OfCategory
  <1> QED BY Invariance, <1>1, PTL

\* The team stays in the sandbox categories unless the user asked for the host.
THEOREM Sandboxed == Spec => []SandboxFirst
  <1>1. IInv => SandboxFirst
    <2> SUFFICES ASSUME IInv, effect # NoEffect, effect.phase # "solo", scope = "sandbox"
                 PROVE  Category[effect.tool] \in SandboxCategories
      BY DEF SandboxFirst
    <2>1. /\ effect.phase \in {"worker", "reviewer"}
          /\ effect.depth = 1 \/ effect.depth = 2
      BY DEF IInv, EffectInv
    <2>2. CASE effect.phase = "reviewer"
      BY <2>2 DEF IInv, EffectInv, OfCategory
    <2>3. CASE effect.phase = "worker" /\ effect.depth = 1
      <3>1. effect.tool \in AllowedToolNames("full", scope)
        BY <2>3 DEF IInv, EffectInv
      <3>2. AllowedToolNames("full", scope) \subseteq OfCategory(SandboxCategories)
        BY AllowedTools
      <3> QED BY <3>1, <3>2 DEF OfCategory
    <2>4. CASE effect.depth = 2
      <3>1. effect.agent \in Subagents /\ effect.tool \in SubAllowed(effect.agent, scope)
        BY <2>4 DEF IInv, EffectInv
      <3>2. SubAllowed(effect.agent, scope) \subseteq OfCategory(SandboxCategories)
        BY <3>1, SubagentTools
      <3> QED BY <3>1, <3>2 DEF OfCategory
    <2> QED BY <2>1, <2>2, <2>3, <2>4
  <1> QED BY Invariance, <1>1, PTL

\* A subagent executes only what its access and its list allow.
THEOREM Confined == Spec => []SubagentConfined
  <1>1. IInv => SubagentConfined
    BY DEF IInv, EffectInv, SubagentConfined, NoEffect
  <1> QED BY Invariance, <1>1, PTL

\* A subagent never delegates, and nobody but the worker has one.
THEOREM OneLevel == Spec => []NoNestedDelegation
  <1>1. IInv => NoNestedDelegation
    BY DEF IInv, StackInv, NoNestedDelegation
  <1> QED BY Invariance, <1>1, PTL

\* A delivery carries the verdict of the review of its own attempt.
THEOREM VerdictsStand == Spec => []VerdictStands
  <1>1. IInv => VerdictStands
    BY DEF IInv, ReviewInv, Refused, VerdictStands
  <1> QED BY Invariance, <1>1, PTL

\* What is on the disk is what the attempts so far have written, each into a place of
\* its own, and what an answer names.
WritingInv ==
    /\ phase \in {"idle", "planner", "solo"} => disk = {} /\ \A a \in Attempts : written[a] = {}
    /\ phase \in {"worker", "reviewer"} => disk = AllWritten
    /\ phase = "worker" => \A a \in Attempts : a >= attempt => written[a] = {}
    /\ phase = "reviewer" => \A a \in Attempts : a > attempt => written[a] = {}
    /\ WritesAreNamed

\* The files of an attempt that had none are added to those of the others.
LEMMA AddsToAll ==
    ASSUME IInv, NEW files, attempt \in Attempts, written[attempt] = {},
           written' = [written EXCEPT ![attempt] = files]
    PROVE  AllWritten' = AllWritten \cup files /\ files \subseteq AllWritten'
  <1>1. DOMAIN written = Attempts
    BY DEF IInv, TypeOK
  <1>2. written'[attempt] = files /\ \A a \in Attempts \ {attempt} : written'[a] = written[a]
    BY <1>1
  <1> QED BY <1>2 DEF AllWritten

\* The worker's files go to the disk and into the list of its attempt.
LEMMA WorkerWrites ==
    ASSUME IInv, WritingInv, NEW files \in SUBSET Paths, WorkerReturns(files) \/ WorkerAsks(files)
    PROVE  WritingInv'
  <1>1. /\ phase = "worker" /\ disk' = disk \cup files /\ attempt' = attempt
        /\ written' = [written EXCEPT ![attempt] = files]
    BY DEF WorkerReturns, WorkerAsks, Answered, AutoWrites
  <1>2. attempt \in Attempts /\ attempt \in Nat /\ result.reason = "none" /\ DOMAIN written = Attempts
    BY <1>1, TeamAssumption DEF IInv, ReviewInv, TypeOK, Attempts, TeamAssumption
  <1>3. written[attempt] = {} /\ disk = AllWritten
    BY <1>1, <1>2 DEF WritingInv
  <1>4. disk' = AllWritten' /\ \A a \in Attempts : a > attempt => written'[a] = {}
    <2>1. AllWritten' = AllWritten \cup files
      BY <1>1, <1>2, <1>3, AddsToAll
    <2>2. \A a \in Attempts : a > attempt => a # attempt /\ a >= attempt
      BY <1>2, TeamAssumption DEF Attempts, TeamAssumption
    <2> QED BY <1>1, <1>2, <1>3, <2>1, <2>2 DEF WritingInv
  <1>5. CASE WorkerReturns(files)
    <2>1. phase' = "reviewer" /\ result' = result
      BY <1>5 DEF WorkerReturns
    <2> QED BY <1>1, <1>2, <1>4, <2>1 DEF WritingInv, WritesAreNamed
  <1>6. CASE WorkerAsks(files)
    <2>1. /\ phase' = "done" /\ result' = [reason |-> "awaiting_user_input", files |-> files]
      BY <1>6 DEF WorkerAsks
    <2> QED BY <1>1, <2>1 DEF WritingInv, WritesAreNamed
  <1> QED BY <1>5, <1>6

\* A review delivers all that is on the disk, or has a fresh attempt begin.
LEMMA ReviewDelivers ==
    ASSUME IInv, WritingInv, ReviewerApproves \/ ReviewerRejects
    PROVE  WritingInv'
  <1>1. phase = "reviewer" /\ UNCHANGED <<written, disk>>
    BY DEF ReviewerApproves, ReviewerRejects, Answered
  <1>2. /\ disk = AllWritten /\ attempt \in Nat /\ result.reason = "none"
        /\ \A a \in Attempts : a > attempt => written[a] = {}
    BY <1>1, TeamAssumption DEF WritingInv, IInv, ReviewInv, TypeOK, Attempts, TeamAssumption
  <1>3. CASE \E reason : Deliver(reason)
    <2>1. phase' = "done" /\ result'.files = AllWritten
      BY <1>3 DEF Deliver
    <2> QED BY <1>1, <1>2, <2>1 DEF WritingInv, WritesAreNamed
  <1>4. CASE attempt' = attempt + 1 /\ phase' = "worker" /\ result' = result
    <2>1. \A a \in Attempts : a >= attempt' => written'[a] = {}
      BY <1>1, <1>2, <1>4, TeamAssumption DEF Attempts, TeamAssumption
    <2>2. disk' = AllWritten'
      BY <1>1, <1>2 DEF AllWritten
    <2> QED BY <1>2, <1>4, <2>1, <2>2 DEF WritingInv, WritesAreNamed
  <1> QED BY <1>3, <1>4 DEF ReviewerApproves, ReviewerRejects

\* An answer names all that autowrite put on the disk for its prompt and nothing
\* else, whatever attempts were refused on the way.
THEOREM NamedIsWritten == Spec => []WritesAreNamed
  <1>1. Init => WritingInv
    BY DEF Init, NoResult, WritingInv, WritesAreNamed
  <1>2. ASSUME IInv, WritingInv, [Next]_vars
        PROVE  WritingInv'
    <2>1. CASE UNCHANGED <<written, disk, result, attempt>> /\ (phase' = phase \/ phase' = "failed")
      BY <1>2, <2>1 DEF WritingInv, WritesAreNamed, AllWritten
    <2>2. CASE Block
      BY <1>2, <2>2 DEF Block, WritingInv, WritesAreNamed
    <2>3. CASE AnswerAlone \/ EngageTeam
      BY <1>2, <2>3 DEF AnswerAlone, EngageTeam, WritingInv, WritesAreNamed
    <2>4. CASE PlannerReturns
      <3>1. /\ phase = "planner" /\ phase' = "worker" /\ UNCHANGED <<written, disk, result>>
        BY <2>4 DEF PlannerReturns, Answered
      <3>2. disk' = AllWritten'
        BY <1>2, <3>1 DEF WritingInv, AllWritten
      <3> QED BY <1>2, <3>1, <3>2 DEF WritingInv, WritesAreNamed
    <2>5. ASSUME NEW files \in SUBSET Paths, SoloReturns(files)
          PROVE  WritingInv'
      BY <1>2, <2>5 DEF SoloReturns, Answered, AutoWrites, WritingInv, WritesAreNamed
    <2>6. ASSUME NEW files \in SUBSET Paths, WorkerReturns(files) \/ WorkerAsks(files)
          PROVE  WritingInv'
      BY <1>2, <2>6, WorkerWrites
    <2>7. CASE ReviewerApproves \/ ReviewerRejects
      BY <1>2, <2>7, ReviewDelivers
    <2>8. CASE Loop \/ Ended \/ UNCHANGED vars
      BY <2>1, <2>8
         DEF Ended, vars, Loop, Turn, ClosingTurn, TurnFails, CallTool, RefuseCall, RequestTools, Delegate,
             SubagentReturns
    <2> QED
      BY <1>2, <2>2, <2>3, <2>4, <2>5, <2>6, <2>7, <2>8 DEF Next, Cycle
  <1>3. WritingInv => WritesAreNamed
    BY DEF WritingInv
  <1> QED BY Invariance, <1>1, <1>2, <1>3, PTL DEF Spec
----------------------------------------------------------------------------
(* AgentTeam implements ReviewedDelivery                                   *)

\* StageOf, one phase at a time.
LEMMA Stages ==
    /\ phase = "idle"     => StageOf = "idle"
    /\ phase = "solo"     => StageOf = "answering"
    /\ phase = "planner"  => StageOf = "planning"
    /\ phase = "worker"   => StageOf = "working"
    /\ phase = "reviewer" => StageOf = "reviewing"
    /\ phase = "done"     => StageOf = "done"
    /\ phase = "failed"   => StageOf = "failed"
  BY DEF StageOf

\* Inside a workflow the delivery stutters, or fails with it.
LEMMA LoopImplements ==
    ASSUME IInv, Loop
    PROVE  Delivery!Fail \/ UNCHANGED Delivery!vars
  <1>1. /\ phase' = phase \/ (phase' = "failed" /\ stack # <<>>)
        /\ UNCHANGED <<attempt, result>>
    BY DEF Loop, Turn, ClosingTurn, TurnFails, CallTool, RefuseCall, RequestTools, Delegate,
           SubagentReturns, Running
  <1>2. CASE phase' = phase
    BY <1>1, <1>2 DEF StageOf, Delivery!vars
  <1>3. CASE phase' = "failed" /\ stack # <<>>
    <2>1. phase \in Roles \cup {"solo"}
      BY <1>3 DEF IInv, TypeOK, StackInv
    <2>2. /\ StageOf \in {"answering", "planning", "working", "reviewing"}
          /\ StageOf' = "failed"
      BY <1>3, <2>1, Stages DEF StageOf
    <2> QED BY <1>1, <2>2 DEF Delivery!Fail
  <1> QED BY <1>1, <1>2, <1>3

\* A step of the team is a step of ReviewedDelivery or leaves its variables alone.
LEMMA StepImplements ==
    ASSUME IInv, [Next]_vars
    PROVE  [Delivery!Next]_Delivery!vars
  <1> USE DEF Delivery!Next, Delivery!Becomes, Delivery!End
  <1>1. CASE Block
    BY <1>1 DEF Block, StageOf, Delivery!Block
  <1>2. CASE AnswerAlone
    BY <1>2 DEF AnswerAlone, StageOf, Delivery!Answer
  <1>3. CASE EngageTeam
    BY <1>3 DEF EngageTeam, StageOf, Delivery!Engage
  <1>4. CASE Loop
    BY <1>4, LoopImplements
  <1>5. CASE PlannerReturns
    BY <1>5 DEF PlannerReturns, Answered, StageOf, Delivery!Plan
  <1>6. ASSUME NEW files \in SUBSET Paths, WorkerReturns(files) PROVE Delivery!Work
    BY <1>6 DEF WorkerReturns, Answered, StageOf, Delivery!Work
  <1>7. ASSUME NEW files \in SUBSET Paths, WorkerAsks(files) PROVE Delivery!Ask
    BY <1>7 DEF WorkerAsks, Answered, StageOf, Delivery!Ask
  <1>8. ASSUME NEW files \in SUBSET Paths, SoloReturns(files) PROVE Delivery!Reply
    BY <1>8 DEF SoloReturns, Answered, StageOf, Delivery!Reply
  <1>9. CASE ReviewerApproves
    BY <1>9 DEF ReviewerApproves, Deliver, Answered, StageOf, Delivery!Approve
  <1>10. CASE ReviewerRejects
    <2>1. attempt \in Nat /\ Retries \in Nat
      BY TeamAssumption DEF IInv, TypeOK
    <2>2. CASE attempt < Retries + 1 /\ phase' = "worker" /\ attempt' = attempt + 1 /\ result' = result
      <3>1. attempt <= Retries
        BY <2>1, <2>2
      <3> QED BY <1>10, <2>2, <3>1 DEF ReviewerRejects, Answered, StageOf, Delivery!Redo
    <2>3. CASE attempt = Retries + 1 /\ attempt' = attempt /\ Deliver("review_requires_changes")
      <3>1. attempt > Retries
        BY <2>1, <2>3
      <3> QED BY <1>10, <2>3, <3>1 DEF ReviewerRejects, Answered, Deliver, StageOf, Delivery!GiveUp
    <2> QED BY <1>10, <2>2, <2>3 DEF ReviewerRejects
  <1>11. CASE UNCHANGED vars
    BY <1>11 DEF vars, StageOf, Delivery!vars
  <1> QED BY <1>1, <1>2, <1>3, <1>4, <1>5, <1>6, <1>7, <1>8, <1>9, <1>10, <1>11
          DEF Next, Cycle, Ended

\* Every behaviour of the team, its fairness apart, is one of ReviewedDelivery:
\* the cycle keeps its promise for any number of retries.
THEOREM Implements == Spec => Delivery!Init /\ [][Delivery!Next]_Delivery!vars
  <1>1. Init => Delivery!Init
    BY DEF Init, NoResult, StageOf, Delivery!Init
  <1>2. IInv /\ [Next]_vars => [Delivery!Next]_Delivery!vars
    BY StepImplements
  <1> QED BY Invariance, <1>1, <1>2, PTL DEF Spec
=============================================================================
