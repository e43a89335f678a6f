------------------------------ MODULE Sessions ------------------------------
(***************************************************************************)
(* The conversations stored in one session file, and the clients that load *)
(* and replace them: "ask" runs one prompt in a session, "repl" keeps a    *)
(* conversation in memory and stores it when a prompt ends or a slash      *)
(* command says so.  A client reads a session once and writes it minutes   *)
(* later; its process may end at any point between.                        *)
(***************************************************************************)
EXTENDS Naturals, Sequences, SequencesExt

CONSTANTS
    Clients,        \* processes of the client
    SessionIds,     \* bound: sessions ever created
    NoSession,      \* no current_session_id
    Before,         \* answered prompts in a session there is already
    MaxPrompts      \* bound: prompts given, those included

ASSUME SessionsAssumption ==
    /\ NoSession \notin SessionIds
    /\ MaxPrompts \in Nat
    /\ Before \in 0 .. MaxPrompts

VARIABLES
    rows,       \* session_messages, in the order of sequence
    sessions,   \* the sessions there are; their titles, times and status are left out
    prompts,    \* prompts given so far
    client,     \* what each client is doing, and its locals
    misled      \* a /resume has failed after it changed the current session

vars == <<rows, sessions, prompts, client, misled>>

\* A prompt with its answer, or without one when its run failed.  Prompt 0
\* stands for the earlier turns that a summary or the note of a trim replaces.
Turn == [prompt : 0 .. MaxPrompts, answered : BOOLEAN]
Digest == [prompt |-> 0, answered |-> TRUE]

PromptsIn(messages) == {turn.prompt : turn \in ToSet(messages)} \ {0}

\* stale: the rows of the current session are no longer those this client last
\* read or wrote; unsaved: its memory has since been changed by more than a new
\* turn.  Neither is in the code; the properties speak of them.
Process ==
    [at : {"off", "opened", "running", "failed", "saving", "idle", "storing"},
     kind : {"none", "ask", "repl"}, current : SessionIds \cup {NoSession},
     memory : Seq(Turn), prompt : 0 .. MaxPrompts, stale : BOOLEAN, unsaved : BOOLEAN]

Off == [at |-> "off", kind |-> "none", current |-> NoSession, memory |-> <<>>,
        prompt |-> 0, stale |-> FALSE, unsaved |-> FALSE]

Init ==
    /\ \E s \in SessionIds :
           /\ sessions = {s}
           /\ rows = [t \in SessionIds |-> IF t # s THEN <<>> ELSE
                         [i \in 1 .. Before |-> [prompt |-> i, answered |-> TRUE]]]
    /\ prompts = Before
    /\ client = [c \in Clients |-> Off]
    /\ misled = FALSE

----------------------------------------------------------------------------
(* SQLiteSessionStore: each operation is one transaction                   *)

\* create_session.
Create(s) ==
    /\ s \notin sessions
    /\ sessions' = sessions \cup {s}
    /\ UNCHANGED rows

\* replace_messages: the rows are deleted and inserted anew in one transaction.
\* The client goes on with the given locals; others in the session are outdated.
Replace(c, record) ==
    LET s == client[c].current
        others == [d \in Clients |-> [client[d] EXCEPT !.stale = @ \/ client[d].current = s]]
    IN  /\ rows' = [rows EXCEPT ![s] = client[c].memory]
        /\ client' = [others EXCEPT ![c] = record]
        /\ UNCHANGED sessions

\* The locals of a client that has loaded the session.
Loaded(record, s) ==
    [record EXCEPT !.current = s, !.memory = rows[s], !.stale = FALSE, !.unsaved = FALSE]

Saved(record) == [record EXCEPT !.at = "idle", !.stale = FALSE, !.unsaved = FALSE]

----------------------------------------------------------------------------
(* ask                                                                     *)

NewPrompt(c, record) ==
    /\ prompts < MaxPrompts
    /\ prompts' = prompts + 1
    /\ client' = [client EXCEPT ![c] = [record EXCEPT !.at = "running", !.prompt = prompts + 1]]

\* ask --new-session: the session is created, its conversation loaded later.
AskNew(c, s) ==
    /\ client[c].at = "off"
    /\ Create(s)
    /\ client' = [client EXCEPT ![c] = [Off EXCEPT !.at = "opened", !.kind = "ask", !.current = s]]
    /\ UNCHANGED <<prompts, misled>>

\* Mutation: the conversation of the session is not loaded.
AskLoads_Nothing(c, s) ==
    /\ \/ client[c].at = "off" /\ s \in sessions
       \/ client[c].at = "opened" /\ client[c].current = s
    /\ NewPrompt(c, [Loaded([Off EXCEPT !.kind = "ask"], s) EXCEPT !.memory = <<>>])
    /\ UNCHANGED <<rows, sessions, misled>>

\* load_messages, of a session that has to exist, and the run begins.
AskLoads(c, s) ==
    /\ \/ client[c].at = "off" /\ s \in sessions
       \/ client[c].at = "opened" /\ client[c].current = s
    /\ NewPrompt(c, Loaded([Off EXCEPT !.kind = "ask"], s))
    /\ UNCHANGED <<rows, sessions, misled>>

\* The run of an ask raises: the prompt is stored without an answer, and
\* record_error adds the error to the metadata of the session.
AskFails(c) ==
    /\ client[c].at = "running"
    /\ client[c].kind = "ask"
    /\ LET turn == [prompt |-> client[c].prompt, answered |-> FALSE]
       IN  client' = [client EXCEPT ![c] =
               [@ EXCEPT !.memory = Append(client[c].memory, turn), !.prompt = 0, !.at = "saving"]]
    /\ UNCHANGED <<rows, sessions, prompts, misled>>

----------------------------------------------------------------------------
(* The run of a prompt, for both                                           *)

\* What trim_messages may leave of a conversation, turns being the unit: all of
\* it, or a note and the latest turns.
Trims(messages) ==
    {messages} \cup
    {<<Digest>> \o SubSeq(messages, i, Len(messages)) : i \in 2 .. Len(messages)}

\* Mutation: the answer is not stored before the next prompt is read.
RunAnswers_NotStored(c) ==
    /\ client[c].at = "running"
    /\ \E kept \in Trims(client[c].memory) :
           LET memory == Append(kept, [prompt |-> client[c].prompt, answered |-> TRUE])
           IN  client' = [client EXCEPT ![c] =
                   [@ EXCEPT !.memory = memory, !.prompt = 0, !.at = "idle",
                             !.unsaved = client[c].unsaved \/ kept # client[c].memory]]
    /\ UNCHANGED <<rows, sessions, prompts, misled>>

\* The run returns, with the conversation and its answer.
RunAnswers(c) ==
    /\ client[c].at = "running"
    /\ \E kept \in Trims(client[c].memory) :
           LET memory == Append(kept, [prompt |-> client[c].prompt, answered |-> TRUE])
           IN  client' = [client EXCEPT ![c] =
                   [@ EXCEPT !.memory = memory, !.prompt = 0,
                             !.at = IF client[c].current = NoSession THEN "idle" ELSE "saving",
                             !.unsaved = client[c].unsaved \/ kept # client[c].memory]]
    /\ UNCHANGED <<rows, sessions, prompts, misled>>

\* The conversation is stored: by ask, which ends, or by the REPL.
Store(c) ==
    /\ client[c].at = "saving"
    /\ Replace(c, IF client[c].kind = "ask" THEN Off ELSE Saved(client[c]))
    /\ UNCHANGED <<prompts, misled>>

----------------------------------------------------------------------------
(* The REPL                                                                *)

Idle(c) == client[c].at = "idle"
Repl == [Off EXCEPT !.at = "idle", !.kind = "repl"]

\* repl, alone, with --session, or with --continue, which opens the one that
\* changed last among those not closed: some session, or none.
ReplStarts(c) ==
    /\ client[c].at = "off"
    /\ \E record \in {Repl} \cup {Loaded(Repl, s) : s \in sessions} :
               client' = [client EXCEPT ![c] = record]
    /\ UNCHANGED <<rows, sessions, prompts, misled>>

\* A prompt, or the answer to a question of the agent.
ReplPrompts(c) ==
    /\ Idle(c)
    /\ NewPrompt(c, client[c])
    /\ UNCHANGED <<rows, sessions, misled>>

\* The run raises: nothing is kept of the prompt, in memory or in the session ...
ReplFails(c) ==
    /\ client[c].at = "running"
    /\ client[c].kind = "repl"
    /\ client' = [client EXCEPT ![c].at = "failed"]
    /\ UNCHANGED <<rows, sessions, prompts, misled>>

\* ... and run_prompt_until_complete prints the error and returns.
ReplReports(c) ==
    /\ client[c].at = "failed"
    /\ client' = [client EXCEPT ![c] = [@ EXCEPT !.at = "idle", !.prompt = 0]]
    /\ UNCHANGED <<rows, sessions, prompts, misled>>

\* /clear.
Clear(c) ==
    /\ Idle(c)
    /\ client' = [client EXCEPT ![c] = [@ EXCEPT !.memory = <<>>, !.unsaved = TRUE]]
    /\ UNCHANGED <<rows, sessions, prompts, misled>>

\* Mutation: the new session keeps the conversation of the one before.
New_KeepsMemory(c, s) ==
    /\ Idle(c)
    /\ Create(s)
    /\ client' = [client EXCEPT ![c] =
           [@ EXCEPT !.current = s, !.stale = FALSE, !.unsaved = FALSE]]
    /\ UNCHANGED <<prompts, misled>>

\* /new.
New(c, s) ==
    /\ Idle(c)
    /\ Create(s)
    /\ client' = [client EXCEPT ![c] = [Repl EXCEPT !.current = s]]
    /\ UNCHANGED <<prompts, misled>>

\* /save of a conversation without a session creates one first.
SaveNew(c, s) ==
    /\ Idle(c)
    /\ client[c].current = NoSession
    /\ Create(s)
    /\ client' = [client EXCEPT ![c] =
           [@ EXCEPT !.current = s, !.at = "storing", !.unsaved = TRUE]]
    /\ UNCHANGED <<prompts, misled>>

\* /save of the current session, with or without a new title.
Save(c) ==
    /\ Idle(c)
    /\ client[c].current # NoSession
    /\ client' = [client EXCEPT ![c].at = "storing"]
    /\ UNCHANGED <<rows, sessions, prompts, misled>>

\* /compact, when the model answers with a summary.
Compact(c) ==
    /\ Idle(c)
    /\ client[c].memory # <<>>
    /\ client' = [client EXCEPT ![c] =
           [@ EXCEPT !.memory = <<Digest>>, !.unsaved = TRUE,
                     !.at = IF client[c].current = NoSession THEN "idle" ELSE "storing"]]
    /\ UNCHANGED <<rows, sessions, prompts, misled>>

\* The replace_messages of /save and /compact.
SlashStores(c) ==
    /\ client[c].at = "storing"
    /\ Replace(c, Saved(client[c]))
    /\ UNCHANGED <<prompts, misled>>

\* It raises (the file is locked): the command prints the error and that is all.
SlashStoreFails(c) ==
    /\ client[c].at = "storing"
    /\ client' = [client EXCEPT ![c] = [@ EXCEPT !.at = "idle", !.unsaved = TRUE]]
    /\ UNCHANGED <<rows, sessions, prompts, misled>>

\* /resume.
Resume(c, s) ==
    /\ Idle(c)
    /\ s \in sessions
    /\ client' = [client EXCEPT ![c] = Loaded(@, s)]
    /\ UNCHANGED <<rows, sessions, prompts, misled>>

\* load_messages raises after the current session has been set.
ResumeFails(c, s) ==
    /\ Idle(c)
    /\ s \in sessions
    /\ client' = [client EXCEPT ![c] = [@ EXCEPT !.current = s, !.stale = TRUE]]
    /\ misled' = TRUE
    /\ UNCHANGED <<rows, sessions, prompts>>

\* The process of a client ends: it is done, killed or interrupted, or main
\* reports an exception, as when the file is locked while it stores.
Leave(c) ==
    /\ client[c].at # "off"
    /\ client' = [client EXCEPT ![c] = Off]
    /\ UNCHANGED <<rows, sessions, prompts, misled>>

Next ==
    \E c \in Clients :
           \/ AskFails(c) \/ RunAnswers(c) \/ Store(c)
           \/ ReplStarts(c) \/ ReplPrompts(c) \/ ReplFails(c) \/ ReplReports(c)
           \/ Clear(c) \/ Save(c) \/ Compact(c)
           \/ SlashStores(c) \/ SlashStoreFails(c) \/ Leave(c)
           \/ \E s \in SessionIds :
                  \/ AskNew(c, s) \/ AskLoads(c, s)
                  \/ New(c, s) \/ SaveNew(c, s) \/ Resume(c, s) \/ ResumeFails(c, s)

Spec == Init /\ [][Next]_vars

----------------------------------------------------------------------------
(* Properties                                                              *)

\* The values the tables and locals may take.  What is stored, or about to be,
\* has a session that exists.
TypeOK ==
    /\ rows \in [SessionIds -> Seq(Turn)]
    /\ sessions \subseteq SessionIds
    /\ prompts \in 0 .. MaxPrompts
    /\ misled \in BOOLEAN
    /\ client \in [Clients -> Process]
    /\ \A c \in Clients :
           client[c].at \in {"saving", "storing"} => client[c].current \in sessions

Loses(s) == ~(PromptsIn(rows[s]) \subseteq PromptsIn(rows'[s]))

\* A prompt disappears from a stored conversation only when the client that
\* stores has not seen what it replaces (another stored in between), or its user
\* or a trim has cut the conversation since: a client that is alone with its
\* session, whatever fails and whenever it ends, loses none.
NothingLost ==
    [][\A s \in SessionIds : Loses(s) =>
           \E c \in Clients :
               /\ client[c].current = s
               /\ client'[c].at # client[c].at
               /\ client[c].stale \/ client[c].unsaved]_vars

\* A prompt is stored in one session: no sequence of commands writes the
\* conversation of one session over another.  The exception is a /resume that
\* fails between the two assignments of handle_resume, after which the memory of
\* the earlier session is stored under the new one.
OneHome ==
    misled \/ \A s, t \in SessionIds :
        s # t => PromptsIn(rows[s]) \cap PromptsIn(rows[t]) = {}

\* What the REPL has in memory when it reads the next prompt is what its session
\* holds, unless another client has stored there, or the user cleared it or a
\* slash command failed to store it.
InStep ==
    \A c \in Clients :
        LET me == client[c]
        IN  Idle(c) /\ me.current # NoSession /\ ~me.unsaved /\ ~me.stale
                => me.memory = rows[me.current]
=============================================================================
