--------------------------- MODULE AgentWorkflow ---------------------------
(***************************************************************************)
(* One run of the agentic loop of mcp_client: AgentWorkflow.run asks the   *)
(* model for a turn, executes the tool calls of the reply, appends their   *)
(* results to the conversation and asks again, at most MaxSteps times;     *)
(* then it asks once more without tools and closes.  Before each turn the  *)
(* conversation may be trimmed to fit the model's context window, and a    *)
(* final answer with code blocks may be written to files (autowrite).      *)
(*                                                                         *)
(* A message keeps what the loop looks at: its role, the tools an          *)
(* assistant message calls, the tool a result belongs to (the wire format  *)
(* has no call identifier: a result is matched to its call by position)    *)
(* and what kind of text it carries.                                       *)
(***************************************************************************)
EXTENDS Naturals, Sequences, FiniteSets, FiniteSetsExt, SequencesExt

CONSTANTS
    Tools,        \* tool names a model may call
    Visible,      \* those the runtime view offers it (list_ollama_tools)
    Paths,        \* spellings of a path argument of writefile
    NoPath,       \* the path of a call that is not a writefile with a path
    Norm,         \* [Paths -> Paths]: the spelling _duplicate_writefile_path compares
    MaxSteps,     \* config.max_steps
    MaxCalls,     \* bound: tool calls in one reply of the model
    AutoTrim,     \* config.context_auto_trim
    AutoWriting,  \* config.auto_write_code
    Threshold,    \* int(context_window_tokens * context_trim_ratio)
    Weight,       \* [Roles -> Nat]: the estimated tokens of a message
    MinTurns,     \* config.context_trim_min_turns
    Histories     \* the conversations a run may start from

Roles == {"user", "assistant", "tool"}
Texts == {"old", "prompt", "limit", "summary", "note", "reply", "result"}

\* A tool call of the model: a name (NoName when the model gave none) and,
\* for writefile, the path it names.
NoName == "nameless"
Writefile == "writefile"
Call == [name : Tools \cup {NoName}, path : Paths \cup {NoPath}]

\* A reply names a path only in its writefile calls.
WellFormed(c) == c.path = NoPath \/ c.name = Writefile

Message == [role : Roles, calls : Seq(Tools \cup {NoName}), tool : Tools \cup {NoName},
            text : Texts]

User(t)         == [role |-> "user", calls |-> <<>>, tool |-> NoName, text |-> t]
Assistant(t, c) == [role |-> "assistant", calls |-> c, tool |-> NoName, text |-> t]
ToolResult(t)   == [role |-> "tool", calls |-> <<>>, tool |-> t, text |-> "result"]

\* How many results the first k calls have: a call without a name gets none.
Results(cs, k) == Cardinality({m \in 1 .. k : cs[m] # NoName})

\* The calls of every assistant message are followed at once by their results,
\* all of them and in the order of the calls ...
Answered(ms) ==
    \A i \in DOMAIN ms : \A k \in DOMAIN ms[i].calls : ms[i].calls[k] # NoName =>
        LET at == i + Results(ms[i].calls, k)
        IN  at \in DOMAIN ms /\ ms[at].role = "tool" /\ ms[at].tool = ms[i].calls[k]

\* ... and every result stands, with others of its reply, behind a reply.
Attached(ms) ==
    \A i \in DOMAIN ms : ms[i].role = "tool" =>
        i > 1 /\ (ms[i - 1].role = "tool" \/ ms[i - 1].text = "reply")

\* A conversation a run may find, and leave: at its head stands a prompt, the
\* summary of /session compact or the note of a trim.
Conversation(ms) ==
    /\ ms \in Seq(Message)
    /\ Answered(ms) /\ Attached(ms)
    /\ ms # <<>> /\ Head(ms).role = "assistant" => Head(ms).calls = <<>>
    /\ ms # <<>> /\ Head(ms).text = "summary" => Head(ms).role = "assistant"

ASSUME WorkflowAssumption ==
    /\ MaxSteps \in Nat
    /\ MaxCalls \in Nat
    /\ MinTurns \in Nat \ {0}
    /\ Threshold \in Nat
    /\ AutoTrim \in BOOLEAN
    /\ AutoWriting \in BOOLEAN
    /\ Weight \in [Roles -> Nat]
    /\ Norm \in [Paths -> Paths]
    /\ Visible \subseteq Tools
    /\ NoName \notin Tools
    /\ IsFiniteSet(Paths)
    /\ NoPath \notin Paths
    /\ Writefile \in Tools
    /\ \A ms \in Histories : Conversation(ms)

VARIABLES
    memory,       \* ConversationMemory.messages
    stage,        \* AgentWorkflowState.stage; "looping" is the head of the for loop
    step,         \* AgentWorkflowState.current_step
    closing,      \* _finalize_after_tool_limit has been entered
    calls,        \* the calls of the last reply that are still to be executed
    seen,         \* ToolCallProcessor.process: writefile_paths
    wrote,        \* the writefile calls of the last reply handed to the runtime, by path
    autoWritten,  \* AgentRunResult.auto_written_files
    asksWrite     \* looks_like_write_request(prompt)

vars == <<memory, stage, step, closing, calls, seen, wrote, autoWritten,
          asksWrite>>

Stages == {"planning", "looping", "requesting", "executing", "auto_writing",
           "completed", "failed"}

----------------------------------------------------------------------------
(* trim_messages                                                           *)

\* estimate_tokens of a list of messages.
Tokens(ms) == FoldSeq(LAMBDA m, n : n + Weight[m.role], 0, ms)

UserTurns(ms) == {i \in DOMAIN ms : ms[i].role = "user"}

\* Mutation: any message may be cut at, a tool result among them.
Cuts_AnyMessage(ms) ==
    {i \in DOMAIN ms :
        /\ \E j \in UserTurns(ms) : j < i
        /\ Cardinality({j \in UserTurns(ms) : j >= i}) >= MinTurns}

\* Mutation: one turn fewer than MinTurns is kept.
Cuts_OneTurnShort(ms) ==
    {i \in UserTurns(ms) :
        /\ \E j \in UserTurns(ms) : j < i
        /\ Cardinality({j \in UserTurns(ms) : j >= i}) >= MinTurns - 1}

\* The positions the body may be cut at: a user turn that is not the first
\* one and leaves at least MinTurns turns.
Cuts(ms) ==
    {i \in UserTurns(ms) :
        /\ \E j \in UserTurns(ms) : j < i
        /\ Cardinality({j \in UserTurns(ms) : j >= i}) >= MinTurns}

\* Mutation: nothing is pinned.
Pinned_None(ms) == <<>>

\* A conversation that begins with an assistant message begins with the
\* summary /session compact left, which is kept out of the trim.
Pinned(ms) ==
    IF ms # <<>> /\ Head(ms).role = "assistant" THEN <<Head(ms)>> ELSE <<>>

Trim(ms) ==
    LET pinned == Pinned(ms)
        body   == SubSeq(ms, Len(pinned) + 1, Len(ms))
        from(i) == SubSeq(body, i, Len(body))
        fits   == {i \in Cuts(body) : Tokens(pinned \o from(i)) <= Threshold}
        keep   == IF fits # {} THEN Min(fits) ELSE Max(Cuts(body))
    IN  IF Tokens(ms) <= Threshold \/ Cuts(body) = {}
        THEN ms
        ELSE pinned \o <<Assistant("note", <<>>)>> \o from(keep)

----------------------------------------------------------------------------
Init ==
    /\ memory \in Histories
    /\ stage = "planning"
    /\ step = 0
    /\ closing = FALSE
    /\ calls = <<>>
    /\ seen = {}
    /\ wrote = <<>>
    /\ autoWritten = {}
    /\ asksWrite \in BOOLEAN

\* The prompt of the user is appended and the loop entered.
Start ==
    /\ stage = "planning"
    /\ memory' = Append(memory, User("prompt"))
    /\ stage' = "looping"
    /\ UNCHANGED <<step, closing, calls, seen, wrote, autoWritten, asksWrite>>

\* The head of the loop: the next step, with the conversation trimmed to the
\* context window when config.context_auto_trim is set.
NextStep ==
    /\ stage = "looping"
    /\ step < MaxSteps
    /\ step' = step + 1
    /\ memory' = IF AutoTrim THEN Trim(memory) ELSE memory
    /\ stage' = "requesting"
    /\ UNCHANGED <<closing, calls, seen, wrote, autoWritten, asksWrite>>

\* The loop is exhausted: the closing request, to a view without tools.
LimitReached ==
    /\ stage = "looping"
    /\ step = MaxSteps
    /\ memory' = Append(memory, User("limit"))
    /\ step' = MaxSteps + 1
    /\ closing' = TRUE
    /\ stage' = "requesting"
    /\ UNCHANGED <<calls, seen, wrote, autoWritten, asksWrite>>

\* strip_unavailable_tool_calls: with no tools on offer every call is dropped
\* from the reply, and its text (or a stock text) is what remains.
Stripped(cs) == IF closing \/ Visible = {} THEN <<>> ELSE cs

Names(cs) == [i \in DOMAIN cs |-> cs[i].name]

\* The model replies with the calls cs.
Reply(cs) ==
    /\ stage = "requesting"
    /\ memory' = Append(memory, Assistant("reply", Names(Stripped(cs))))
    /\ calls' = Stripped(cs)
    /\ seen' = {}
    /\ wrote' = <<>>
    /\ stage' = IF Stripped(cs) = <<>> THEN "auto_writing" ELSE "executing"
    /\ UNCHANGED <<step, closing, autoWritten, asksWrite>>

\* Mutation: a failed request is made again without counting as a step.
RequestFails_Retry ==
    /\ stage = "requesting"
    /\ IF closing THEN stage' = "failed" /\ step' = step
                   ELSE stage' = "looping" /\ step' = step - 1
    /\ UNCHANGED <<memory, closing, calls, seen, wrote, autoWritten, asksWrite>>

\* The request fails (server error, timeout, empty stream): RuntimeError.
RequestFails ==
    /\ stage = "requesting"
    /\ stage' = "failed"
    /\ UNCHANGED <<memory, step, closing, calls, seen, wrote, autoWritten,
                   asksWrite>>

\* The normalized path a call writes, if it is a writefile that names one.
PathOf(c) == IF c.path \in Paths THEN {Norm[c.path]} ELSE {}

\* ToolCallProcessor.process takes the next call.  A call without a name is
\* passed over; a second writefile of a path is answered with an error and
\* not executed; any other call goes to the runtime, and whatever happens
\* there (a result, an error, an exception) its result is appended.
ExecuteCall ==
    /\ stage = "executing"
    /\ calls # <<>>
    /\ LET c == Head(calls)
           duplicate == PathOf(c) \cap seen # {}
       IN  /\ memory' = IF c.name = NoName THEN memory ELSE Append(memory, ToolResult(c.name))
           /\ wrote'  = IF PathOf(c) # {} /\ ~duplicate THEN Append(wrote, c.path) ELSE wrote
           /\ seen'   = seen \cup PathOf(c)
    /\ calls' = Tail(calls)
    /\ stage' = IF Len(calls) = 1 THEN "looping" ELSE "executing"
    /\ UNCHANGED <<step, closing, autoWritten, asksWrite>>

\* Mutation: autowrite goes by the prompt of the run, not by the last user message.
LastUserAsksWrite_OfPrompt == asksWrite

\* ConversationMemory.last_user_prompt asks for files to be written.
LastUserAsksWrite ==
    /\ UserTurns(memory) # {}
    /\ memory[Max(UserTurns(memory))].text = "prompt"
    /\ asksWrite

\* AutoWriteService.write_from_assistant_message and the end of the run: the
\* code blocks of the answer name the files; each is written with writefile,
\* which may fail, and each success is reported and appended.
AutoWrite(written) ==
    /\ stage = "auto_writing"
    /\ written # {} => AutoWriting /\ LastUserAsksWrite /\ Writefile \in Visible
    /\ autoWritten' = written
    /\ memory' = memory \o [i \in 1 .. Cardinality(written) |-> ToolResult(Writefile)]
    /\ stage' = "completed"
    /\ UNCHANGED <<step, closing, calls, seen, wrote, asksWrite>>

\* The run has returned its result or raised its error.
Ended ==
    /\ stage \in {"completed", "failed"}
    /\ UNCHANGED vars

Replies == {cs \in SeqOf(Call, MaxCalls) : \A i \in DOMAIN cs : WellFormed(cs[i])}

Next ==
    \/ Start
    \/ NextStep
    \/ LimitReached
    \/ \E cs \in Replies : Reply(cs)
    \/ RequestFails
    \/ ExecuteCall
    \/ \E written \in SUBSET Paths : AutoWrite(written)
    \/ Ended

\* The loop runs on one thread, the request has a timeout and every tool call
\* returns or raises, so a step that can be taken is taken.
Spec == Init /\ [][Next]_vars /\ WF_vars(Next)

----------------------------------------------------------------------------
(* Properties                                                              *)

\* The values the state of a run may take; only the closing request is beyond MaxSteps.
TypeOK ==
    /\ memory \in Seq(Message)
    /\ stage \in Stages
    /\ step \in 0 .. MaxSteps + 1 /\ (step > MaxSteps => closing)
    /\ closing \in BOOLEAN
    /\ calls \in Seq(Call)
    /\ seen \subseteq Paths
    /\ wrote \in Seq(Paths)
    /\ autoWritten \subseteq Paths
    /\ asksWrite \in BOOLEAN

\* Whenever the model is asked for a turn, the conversation it is sent holds
\* the result of every call in it, in call order, and no result without the
\* reply it came of: no call is skipped by process, whatever became of it, and
\* no trim cuts between a reply and its results (the guarantee in the docstring
\* of trim_messages).
AnsweredBeforeRequest ==
    stage = "requesting" => Answered(memory) /\ Attached(memory)

\* Trimming for the context window keeps the MinTurns latest turns, the prompt
\* being worked on among them, message by message.
LatestTurns(ms) ==
    LET starts == {i \in UserTurns(ms) :
                     Cardinality({j \in UserTurns(ms) : j >= i}) = MinTurns}
    IN  IF starts = {} THEN ms ELSE SubSeq(ms, Max(starts), Len(ms))
LatestTurnsKept ==
    [][stage = "looping" /\ ~closing' => IsSuffix(LatestTurns(memory), memory')]_vars

\* A summary left by session compaction at the head of the conversation stays
\* at its head through every trim.
SummaryKept ==
    [][memory # <<>> /\ Head(memory).text = "summary" => Head(memory') = Head(memory)]_vars

\* After the step limit nothing is written any more: the closing reply runs no
\* tool, and autowrite, which looks at the last user message, finds there the
\* instruction to close and not the request to write.
NoEffectAfterLimit ==
    closing /\ stage \in {"auto_writing", "completed"} =>
        calls = <<>> /\ wrote = <<>> /\ autoWritten = {}

\* Every run ends, with an answer or with an error.
RunEnds == <>(stage \in {"completed", "failed"})
=============================================================================
