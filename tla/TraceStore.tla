----------------------------- MODULE TraceStore -----------------------------
(***************************************************************************)
(* The trace of the runs of the client in SQLite: what                     *)
(* TracePersistenceHook, WorkflowTraceService and TeamTraceLifecycle write *)
(* while a workflow runs.  Every statement is a transaction of its own and *)
(* is written from inside the run: between two of them the process may     *)
(* end, and what raises anywhere in the run, the store itself included,    *)
(* ends the run without another word to the hooks.                         *)
(*                                                                         *)
(* Of the workflow only what calls the hooks is here; AgentWorkflow and    *)
(* AgentTeam model the rest.  A text is the set of what is to be found in  *)
(* it: its words, and secrets of three kinds (see below).                  *)
(***************************************************************************)
EXTENDS Integers, Sequences, SequencesExt, FiniteSets

CONSTANTS
    MaxRuns,     \* bound: runs
    Captures,    \* trace_capture: subset of {"off", "metadata", "full"}
    Thinkings,   \* trace_thinking: subset of {"off", "summary", "raw"}
    Modes,       \* how a prompt is run: subset of {"single", "direct", "routed team", "team"}
    Files,       \* files autowrite may write
    MaxSteps,    \* max_steps of a workflow
    MaxCalls,    \* bound: tool calls of one reply
    Failing,     \* bound: which of them fail
    Thoughts,    \* bound: the texts the model thinks
    MaxAttempts  \* bound: attempts of the team

\* Secrets: "named" are those redact_text knows, name = value and private keys;
\* "quoted" stand under a quoted key, as in the text of a JSON file; "keyed" under
\* a key of the structure a tool returns, whose text the conversation keeps.
Texts == SUBSET {"words", "named", "quoted", "keyed"}

\* All that a person or a model may write, and all that a tool may return.
Written  == {"words", "named", "quoted"}
Returned == Written \cup {"keyed"}

ASSUME TraceStoreAssumption ==
    /\ MaxSteps \in Nat \ {0} /\ MaxCalls \in Nat \ {0} /\ MaxAttempts \in Nat \ {0}
    /\ MaxRuns \in Nat
    /\ Modes \subseteq {"single", "direct", "routed team", "team"}
    /\ Thoughts \subseteq SUBSET Written

VARIABLES
    capture, thinking,  \* TraceStoreSettings
    runs,      \* table: [id -> [mode, status, prompt, answer, note]], note: its metadata
    phases,    \* table: [id -> [run, role, attempt, status, replied]]
    events,    \* table: records [run, phase, type, detail, thought, note], the parts of
               \* the payload: what full capture adds, and what it holds with either
    messages,  \* table: [phase id -> rows in the order of sequence]
    artifacts, \* table: records [phase, path]
    examples,  \* table, in the order of created_at
    exported,  \* the rows of the last export
    work,      \* the run under way
    ran        \* history: [phase id -> the places in its conversation of the results of
               \* the tool calls that were carried out in it]

tables == <<runs, phases, events, messages, artifacts, examples>>
traceVars == <<capture, thinking, tables, exported, work, ran>>

Runs     == 1 .. MaxRuns
NoPhase  == <<0, 0>>
PhaseIds == Runs \X (0 .. 2 * MaxAttempts)
NoRun    == [at |-> "idle", run |-> 0]
full     == capture = "full"

----------------------------------------------------------------------------
(* What is stored of a text.                                               *)

\* redact_text: names and values, and private keys, in the text.
RedactText(text) == text \ {"named"}

\* redact_payload: what stands under a key of the structure, and redact_text of
\* every text in it.
RedactPayload(text) == RedactText(text) \ {"keyed"}

\* Mutation: the setting is not asked.
Captured_Always(text) == RedactText(text)

\* _captured_content, and the conditions on capture of the other fields.
Captured(text) == IF full THEN RedactText(text) ELSE {}

\* _captured_thinking: the marker of "summary" is words.
CapturedThinking(text) ==
    CASE text = {} \/ thinking = "off" -> {}
      [] thinking = "raw"              -> RedactText(text)
      [] OTHER                         -> {"words"}

\* A message of the conversation, known by its place in it; ok is of tool results,
\* whose text is that of the JSON of what the tool returned.
Message(id, role, text, thought) ==
    [id |-> id, role |-> role, text |-> text, thought |-> thought, ok |-> TRUE]
Result(id, ok) == [Message(id, "tool", Returned, {}) EXCEPT !.ok = ok]

\* _training_message_payload
Training(m) == [m EXCEPT !.text = RedactText(@), !.thought = CapturedThinking(@)]

\* redact_payload of a message in the form it is sent in, which has its thought.
Redacted(m) == [m EXCEPT !.text = RedactText(@), !.thought = RedactText(@)]

----------------------------------------------------------------------------
(* Statements.  Each is [table, ...]; a hook method is a sequence of them. *)

\* create_run and complete_run, which replaces the metadata.
CreateRun(run, mode, prompt, note) ==
    [table |-> "runs", id |-> run, mode |-> mode, prompt |-> Captured(prompt),
     note |-> RedactText(note)]
CompleteRun(run, answer, note) ==
    [table |-> "run done", id |-> run, answer |-> Captured(answer), note |-> Captured(note)]
CreatePhase(w) == [table |-> "phases", id |-> w.phase, role |-> w.role, attempt |-> w.attempt]
CompletePhaseRow(w) == [table |-> "phase done", id |-> w.phase]
Event(run, phase, type, detail, thought, note) ==
    [table |-> "events",
     row |-> [run |-> run, phase |-> phase, type |-> type, detail |-> RedactPayload(detail),
              thought |-> RedactText(thought), note |-> RedactText(note)]]
Row(phase, source, message) ==
    [table |-> "messages", phase |-> phase,
     row |-> [id |-> message.id, role |-> message.role, source |-> source,
              text |-> Captured(message.text), thought |-> CapturedThinking(message.thought)]]
Artifact(phase, path) == [table |-> "artifacts", row |-> [phase |-> phase, path |-> path]]
Example(run, phase, type, input, output) ==
    [table |-> "examples",
     row |-> [run |-> run, phase |-> phase, type |-> type, input |-> input, output |-> output]]

ForEach(list, Statement(_)) == [i \in DOMAIN list |-> Statement(list[i])]

\* Why the router took a way: the words of the model that was asked, or those of
\* the exception; run_metadata has them too where there is no team.
RunNote(w) == IF w.mode = "direct" THEN Written ELSE {}

\* Mutation: the phase is written before its run.
OnStarted_PhaseFirst(w) ==
    <<CreatePhase(w), CreateRun(w.run, w.mode, Last(w.memory).text, RunNote(w))>>

\* on_workflow_started with _record_input_messages
OnStarted(w) ==
    <<CreateRun(w.run, w.mode, Last(w.memory).text, RunNote(w)),
      CreatePhase(w),
      Event(w.run, w.phase, "workflow_started", {}, {}, {})>>
    \o ForEach(w.memory, LAMBDA m : Row(w.phase, "input_context", m))

OnStage(w) == <<Event(w.run, w.phase, "stage_changed", {}, {}, {})>>

\* on_assistant_response: the event holds the message itself in full capture.
OnAssistant(w, message) ==
    <<Event(w.run, w.phase, "assistant_response", Captured(message.text),
            IF full THEN CapturedThinking(message.thought) ELSE {}, {}),
      Row(w.phase, "assistant_response", message)>>

\* tool_effective_error: what the tool or its command wrote when it failed.
Error(m) == IF m.ok THEN {} ELSE Written

\* The event of an outcome, with its error in either capture, and its row; both
\* redact what the tool returned, not the text of it that the conversation keeps.
Outcome(w, m) ==
    Event(w.run, w.phase, "tool_outcome", IF full THEN RedactPayload(m.text) ELSE {}, {}, Error(m))
ResultRow(w, m) == Row(w.phase, "tool_result", [m EXCEPT !.text = RedactPayload(@)])

\* Mutation: a tool that failed has no result to store.
OnTools_Successes(w, results) ==
    FlattenSeq([i \in DOMAIN results |->
        <<Outcome(w, results[i])>>
            \o IF results[i].ok THEN <<ResultRow(w, results[i])>> ELSE <<>>])

\* on_tool_outcome, for the outcomes of one reply in their order: of each first
\* the event, with either capture also of a tool that failed, and then the row.
OnTools(w, results) ==
    [i \in 1 .. 2 * Len(results) |->
        IF i % 2 = 1 THEN Outcome(w, results[(i + 1) \div 2]) ELSE ResultRow(w, results[i \div 2])]

\* on_auto_write
OnAutoWrite(w, paths) ==
    <<Event(w.run, w.phase, "auto_write", {}, {}, {})>>
    \o ForEach(paths, LAMBDA p : Artifact(w.phase, p))

\* Mutation: the conversation is an example whatever it ends with.
SftExample_Any(w) ==
    IF full
    THEN <<Example(w.run, w.phase, "sft_conversation", ForEach(Front(w.memory), Training),
                   Training(Last(w.memory)))>>
    ELSE <<>>

\* _record_dataset_example
SftExample(w) ==
    IF full /\ w.memory # <<>> /\ Last(w.memory).role = "assistant"
    THEN <<Example(w.run, w.phase, "sft_conversation", ForEach(Front(w.memory), Training),
                   Training(Last(w.memory)))>>
    ELSE <<>>

\* Mutation: the run is closed first.
OnCompleted_RunFirst(w) ==
    (IF w.completes THEN <<CompleteRun(w.run, Written, {})>> ELSE <<>>)
    \o <<CompletePhaseRow(w)>> \o SftExample(w)

\* on_workflow_completed
OnCompleted(w) ==
    <<CompletePhaseRow(w)>>
    \o (IF w.completes THEN <<CompleteRun(w.run, Written, {})>> ELSE <<>>)
    \o SftExample(w)

\* The conversation a workflow starts with: what came before, of which the client
\* keeps the thoughts, and the prompt.
Conversation ==
    <<Message(1, "assistant", Written, Written), Result(2, TRUE), Message(3, "user", Written, {})>>

\* TeamTraceLifecycle.complete_run: the review is in the metadata; the example is
\* of the messages before the prompt as they are sent, the prompt and the plan, and
\* of the answer and the review.
TeamCompleted(w) ==
    LET said == Message(0, "assistant", Written, {})
    IN  <<CompleteRun(w.run, Written, Written)>>
        \o IF full
           THEN <<Example(w.run, NoPhase, "team_final",
                          ForEach(Append(Conversation, said), Redacted), Redacted(said))>>
           ELSE <<>>

----------------------------------------------------------------------------
(* One statement: the row exists afterwards, unless an "OR IGNORE" finds   *)
(* the id, and its foreign keys must exist.                                *)

Parents(s) ==
    CASE s.table = "phases"             -> s.id[1] \in DOMAIN runs
      [] s.table = "messages"           -> s.phase \in DOMAIN phases
      [] s.table = "artifacts"          -> s.row.phase \in DOMAIN phases
      [] s.table \in {"events", "examples"} ->
            s.row.run \in DOMAIN runs /\ s.row.phase \in DOMAIN phases \cup {NoPhase}
      [] OTHER                          -> TRUE

Inserted(f, id, row) == [i \in DOMAIN f \cup {id} |-> IF i = id THEN row ELSE f[i]]

Execute ==
    /\ work.at # "idle" /\ work.todo # <<>>
    /\ LET s == Head(work.todo)
       IN  /\ Parents(s)
           /\ work' = [work EXCEPT !.todo = Tail(@)]
           /\ runs' =
                CASE s.table = "runs" /\ s.id \notin DOMAIN runs ->
                       Inserted(runs, s.id, [mode |-> s.mode, status |-> "running",
                                             prompt |-> s.prompt, answer |-> {}, note |-> s.note])
                  [] s.table = "run done" /\ s.id \in DOMAIN runs ->
                       [runs EXCEPT ![s.id] = [@ EXCEPT !.status = "completed",
                                                        !.answer = s.answer, !.note = s.note]]
                  [] OTHER -> runs
           /\ phases' =
                CASE s.table = "phases" ->
                       Inserted(phases, s.id, [run |-> s.id[1], role |-> s.role,
                                               attempt |-> s.attempt, status |-> "running"])
                  [] s.table = "phase done" -> [phases EXCEPT ![s.id].status = "completed"]
                  [] OTHER -> phases
           /\ events' = IF s.table = "events" THEN events \cup {s.row} ELSE events
           /\ messages' = IF s.table = "messages"
                          THEN [messages EXCEPT ![s.phase] = Append(@, s.row)] ELSE messages
           /\ artifacts' = IF s.table = "artifacts" THEN artifacts \cup {s.row} ELSE artifacts
           /\ examples' = IF s.table = "examples" THEN Append(examples, s.row) ELSE examples
    /\ UNCHANGED <<capture, thinking, exported, ran>>

----------------------------------------------------------------------------
(* The run.                                                                *)

Ready(at) == work.at = at /\ work.todo = <<>>
Rest == UNCHANGED <<capture, thinking, tables, exported>>

\* Without capture no hook is installed and nothing is stored.
Write(statements) == IF capture = "off" THEN <<>> ELSE statements

\* create_routed_run and TeamTraceLifecycle.create_run, each its run row.
Opening(run, mode) ==
    LET route == <<CreateRun(run, mode, Written, Written),
                   Event(run, NoPhase, "route_decision", {}, {}, Written)>>
        team  == <<CreateRun(run, "team_orchestrator", Written, {})>>
    IN  CASE mode = "single"      -> <<>>
          [] mode = "direct"      -> route
          [] mode = "team"        -> team
          [] mode = "routed team" -> route \o team

\* The workflow of one phase, with a hook of its own.
Phase(run, k, mode, role, attempt) ==
    [at |-> "starting", run |-> run, phase |-> <<run, k>>, mode |-> mode, role |-> role,
     attempt |-> attempt, completes |-> mode \in {"single", "direct"}, step |-> 0, calls |-> 0,
     memory |-> Conversation, todo |-> <<>>]

\* WorkflowRegistry.run
Begin(mode) ==
    /\ work.at = "idle" /\ work.run + 1 \in Runs
    /\ LET run == work.run + 1
           role == IF mode = "single" THEN "single" ELSE IF mode = "direct" THEN "direct_answer"
                   ELSE "planner"
       IN  work' = [Phase(run, 0, mode, role, 1) EXCEPT !.todo = Write(Opening(run, mode))]
    /\ UNCHANGED ran /\ Rest

StartPhase ==
    /\ Ready("starting")
    /\ work' = [work EXCEPT !.at = "turn", !.todo = Write(OnStarted(work))]
    /\ UNCHANGED ran /\ Rest

\* The next turn, or past the limit of steps the closing one, with its directive.
RequestTurn ==
    /\ Ready("turn")
    /\ LET closing == work.step = MaxSteps
           directive == Message(Len(work.memory) + 1, "user", {"words"}, {})
       IN  work' = [work EXCEPT !.at = IF closing THEN "closing" ELSE "asking",
                                !.step = @ + 1,
                                !.memory = IF closing THEN Append(@, directive) ELSE @,
                                !.todo = Write(OnStage(work))]
    /\ UNCHANGED ran /\ Rest

Reply ==
    /\ Ready("asking") \/ Ready("closing")
    /\ \E thought \in Thoughts, calls \in 0 .. IF work.at = "closing" THEN 0 ELSE MaxCalls :
          LET message == Message(Len(work.memory) + 1, "assistant", Written, thought)
          IN  work' = [work EXCEPT !.at = IF calls = 0 THEN "finalizing" ELSE "executing",
                                   !.calls = calls,
                                   !.memory = Append(@, message),
                                   !.todo = Write(OnAssistant(work, message) \o OnStage(work))]
    /\ UNCHANGED ran /\ Rest

\* All the calls of a reply are carried out before the hooks hear of the first.
CarryOutTools ==
    /\ Ready("executing")
    /\ LET results == [i \in 1 .. work.calls |-> Result(Len(work.memory) + i, i \notin Failing)]
       IN  /\ work' = [work EXCEPT !.at = "turn", !.memory = @ \o results,
                                   !.todo = Write(OnTools(work, results))]
           /\ ran' = [ran EXCEPT ![work.phase] = @ \cup {results[i].id : i \in DOMAIN results}]
    /\ Rest

\* Autowrite puts the result of each file it writes behind the answer.
AutoWrite ==
    /\ Ready("finalizing")
    /\ \E paths \in {<<>>} \cup {<<f>> : f \in IF work.role \in {"single", "worker"} THEN Files ELSE {}} :
          LET written == [i \in DOMAIN paths |-> Message(Len(work.memory) + i, "tool", {"words"}, {})]
          IN  work' = [work EXCEPT !.at = "completing", !.memory = @ \o written,
                                   !.todo = Write(OnAutoWrite(work, paths))]
    /\ UNCHANGED ran /\ Rest

CompletePhase ==
    /\ Ready("completing")
    /\ work' = [work EXCEPT !.at = "completed", !.todo = Write(OnCompleted(work))]
    /\ UNCHANGED ran /\ Rest

\* The run of one workflow returns; the team goes on with its next role, or ends
\* after a review or with a question of the worker.
Return ==
    /\ (Ready("completed") /\ work.completes) \/ Ready("returning")
    /\ work' = [NoRun EXCEPT !.run = work.run]
    /\ UNCHANGED ran /\ Rest
NextRole ==
    /\ Ready("completed") /\ ~work.completes
    /\ LET next(role, attempt) == Phase(work.run, work.phase[2] + 1, work.mode, role, attempt)
       IN  \/ work.role = "planner" /\ work' = next("worker", 1)
           \/ work.role = "worker" /\ work' = next("reviewer", work.attempt)
           \/ /\ work.role = "reviewer" /\ work.attempt < MaxAttempts
              /\ work' = next("worker", work.attempt + 1)
           \/ /\ work.role \in {"worker", "reviewer"}
              /\ work' = [work EXCEPT !.at = "returning", !.todo = Write(TeamCompleted(work))]
    /\ UNCHANGED ran /\ Rest

\* The model, a tool or the store raises, or the process ends.
Stop ==
    /\ work.at # "idle"
    /\ work' = [NoRun EXCEPT !.run = work.run]
    /\ UNCHANGED ran /\ Rest

\* The rows of the type, the first ones in the order of created_at if there is a
\* limit; 0 stands for none.
Wanted(type) == {i \in DOMAIN examples : examples[i].type = type}
FirstExamples(type, limit) ==
    {examples[i] : i \in {j \in Wanted(type) :
        limit = 0 \/ Cardinality({k \in Wanted(type) : k < j}) < limit}}

\* export_dataset_jsonl, by another process at any time; a limit that cuts nothing
\* off is as none, and an export without a row is left out.
Export(type, limit) ==
    /\ limit < Cardinality(Wanted(type))
    /\ exported' = FirstExamples(type, limit)
    /\ exported' # exported
    /\ UNCHANGED <<capture, thinking, tables, work, ran>>

TraceInit ==
    /\ capture \in Captures /\ thinking \in Thinkings
    /\ runs = <<>> /\ phases = <<>> /\ events = {} /\ artifacts = {}
    /\ messages = [p \in PhaseIds |-> <<>>]
    /\ examples = <<>> /\ exported = {}
    /\ work = NoRun
    /\ ran = [p \in PhaseIds |-> {}]

TraceNext ==
    \/ \E mode \in Modes : Begin(mode)
    \/ StartPhase \/ RequestTurn \/ Reply \/ CarryOutTools \/ AutoWrite \/ CompletePhase
    \/ Return \/ NextRole \/ Execute \/ Stop
    \/ \E type \in {"sft_conversation", "team_final"}, limit \in {0, 1} : Export(type, limit)

TraceSpec == TraceInit /\ [][TraceNext]_traceVars

----------------------------------------------------------------------------
(* Properties.                                                             *)

\* No statement of a run is ever refused for want of its run or its phase: the
\* foreign keys would raise inside the hook and end the run (hooks.py,
\* on_workflow_started; workflows/tracing.py, create_routed_run).
NothingRefused ==
    work.at # "idle" /\ work.todo # <<>> => Parents(Head(work.todo))

\* A run is stored as completed only when every phase of it is, wherever the
\* process ends or the store fails (hooks.py, on_workflow_completed;
\* team/tracing.py, complete_run).
CompletedIsWhole ==
    \A p \in DOMAIN phases :
        runs[phases[p].run].status = "completed" => phases[p].status = "completed"

\* The stored messages of a phase that are from a source, and their places in
\* the conversation.
RowsFrom(p, source) == {i \in DOMAIN messages[p] : messages[p][i].source = source}
Told(p, source) == {messages[p][i].id : i \in RowsFrom(p, source)}

IsTold(p) ==
    LET told == Told(p, "tool_result")
        rows == RowsFrom(p, "tool_result")
    IN  /\ told \subseteq ran[p]
        /\ phases[p].status = "completed" => told = ran[p]
        /\ \A id \in told, earlier \in ran[p] : earlier < id => earlier \in told
        /\ \A i, j \in rows : i < j => messages[p][i].id < messages[p][j].id

\* The result of every tool that a completed phase ran is stored; of any other
\* phase no result is stored without those that came earlier; and results are
\* stored in the order in which the tools ran (hooks.py, on_tool_outcome;
\* workflow.py, run).
ToolsTold == \A p \in DOMAIN phases : IsTold(p)

IsAnswer(e) ==
    LET answers == Told(e.phase, "assistant_response")
    IN  /\ e.phase \in DOMAIN phases /\ phases[e.phase].status = "completed"
        /\ e.output.id \in answers /\ \A id \in answers : id <= e.output.id

\* An example of the dataset is of a phase that ended well, and what it wants for
\* an output is the answer stored of that phase that came last (hooks.py,
\* _record_dataset_example; docs/trazabilidad_dataset_sqlite.md).
ExamplesAreAnswers ==
    /\ \A i \in DOMAIN examples : examples[i].type = "sft_conversation" => IsAnswer(examples[i])
    /\ \A e \in exported : e.type = "sft_conversation" => IsAnswer(e)

\* What redaction leaves of a text, what capture lets be stored of it, and what
\* the other setting lets be stored of a thought.
Left  == {"words", "quoted"}
Asked == IF full THEN Left ELSE {}
AskedThoughts ==
    CASE thinking = "off" -> {} [] thinking = "summary" -> {"words"} [] OTHER -> Left

RunAsks(run) ==
    /\ run.prompt \subseteq Asked /\ run.answer \subseteq Asked
    /\ run.note \subseteq IF run.status = "completed" THEN Asked ELSE Left

EventAsks(e) ==
    /\ e.detail \subseteq Asked /\ e.note \subseteq Left
    /\ e.thought \subseteq IF full THEN AskedThoughts ELSE {}

MessageAsks(row) ==
    /\ row.text \subseteq Asked \cup IF full /\ row.source = "input_context" THEN {"keyed"} ELSE {}
    /\ row.thought \subseteq AskedThoughts

ExampleAsks(e) ==
    LET thoughts == IF e.type = "team_final" THEN Left ELSE AskedThoughts
    IN  /\ full
        /\ \A i \in DOMAIN e.input :
              /\ e.input[i].text \subseteq Left \cup {"keyed"}
              /\ e.input[i].thought \subseteq thoughts
        /\ e.output.text \subseteq Left /\ e.output.thought \subseteq thoughts

\* No secret that redact_text knows is in any table, and with capture metadata no
\* prompt, answer, message or result: of texts the errors of tools are there and,
\* until the run is completed, why it was routed.  A secret under a key that a
\* tool returned is in no row of its result, but is in the messages of later runs
\* and in examples.  Thoughts are as their own setting says, whatever capture is,
\* but for those of earlier messages in the examples of a team (redaction.py;
\* hooks.py, on_tool_outcome; workflows/tracing.py, create_routed_run).
OnlyWhatIsAsked ==
    /\ \A r \in DOMAIN runs : RunAsks(runs[r])
    /\ \A e \in events : EventAsks(e)
    /\ \A p \in PhaseIds : \A i \in DOMAIN messages[p] : MessageAsks(messages[p][i])
    /\ \A i \in DOMAIN examples : ExampleAsks(examples[i])
=============================================================================
