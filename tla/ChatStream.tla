----------------------------- MODULE ChatStream -----------------------------
(***************************************************************************)
(* One streamed turn of the model, from the Ollama node to the client:     *)
(* a worker thread of the orchestrator reads the chunks of the node and    *)
(* puts them on a queue; the thread that handles the HTTP request takes    *)
(* them and writes one NDJSON line for each, with heartbeats while there   *)
(* is nothing to write; the client reads lines until the connection is     *)
(* closed.  A remote node that fails before its first chunk is replaced by *)
(* the local one.                                                          *)
(***************************************************************************)
EXTENDS Naturals, Sequences, SequencesExt

CONSTANTS
    Chunks,         \* the chunks of a complete reply of a node
    AllowFallback,  \* registry.allow_local_fallback
    MaxBeats        \* bound: heartbeats of one stream

Nodes == {"remote", "local"}

ASSUME StreamAssumption ==
    /\ Chunks \in Nat \ {0}
    /\ AllowFallback \in BOOLEAN
    /\ MaxBeats \in Nat

VARIABLES
    valid,      \* the body is a ChatRequest
    wire,       \* the lines written to the connection so far, the HTTP heads among them
    connected,  \* the client still listens
    handler,    \* do_POST: "accepted", "open", "starting", "waiting", "ended"
    beats,      \* heartbeats written while waiting
    queue,      \* chat_stream's queue
    worker,     \* the thread: where it is, its node, chunks so far and its error
    client,     \* request_streamed_assistant_message: lines read, chunks, outcome
    died        \* the process of the server has ended

vars == <<valid, wire, connected, handler, beats, queue, worker, client, died>>

\* A line of the connection or an event of the queue.
Kinds == {"head", "beat", "chunk", "error", "api", "broken", "done"}
Line == [kind : Kinds, node : Nodes \cup {"none"}, n : Nat]

Plain(kind) == [kind |-> kind, node |-> "none", n |-> 0]
Chunk(node, n) == [kind |-> "chunk", node |-> node, n |-> n]

----------------------------------------------------------------------------
Init ==
    /\ valid \in BOOLEAN
    /\ wire = <<>>
    /\ connected = TRUE
    /\ handler = "accepted"
    /\ beats = 0
    /\ queue = <<>>
    /\ worker = [at |-> "unborn", node |-> "none", got |-> 0, error |-> "none"]
    /\ client = [read |-> 0, got |-> <<>>, outcome |-> "waiting"]
    /\ died = FALSE

\* Lines written to a client that has gone are lost, or the write fails and the
\* handler gives up (BrokenPipeError).
Writes(line, next) ==
    \/ /\ connected
       /\ wire' = Append(wire, line)
       /\ handler' = next
    \/ /\ ~connected
       /\ handler' \in {next, "ended"}
       /\ UNCHANGED wire

\* _send_ndjson: the head of the response, before anything of the stream is
\* asked for.
SendHead ==
    /\ handler = "accepted"
    /\ Writes(Plain("head"), "open")
    /\ UNCHANGED <<valid, connected, beats, queue, worker, client, died>>

\* The stream begins: the body is validated, and a valid one is answered with a
\* first heartbeat.  The error of an invalid one reaches do_POST, which sends
\* its response after the head that is already out.
Validate ==
    /\ handler = "open"
    /\ IF valid THEN Writes(Plain("beat"), "starting")
                ELSE Writes(Plain("head"), "ended")
    /\ UNCHANGED <<valid, connected, beats, queue, worker, client, died>>

\* The worker thread is started, and registry.resolve gives it a node.
StartWorker ==
    /\ handler = "starting"
    /\ handler' = "waiting"
    /\ \E node \in Nodes :
           worker' = [worker EXCEPT !.at = "reading", !.node = node]
    /\ UNCHANGED <<valid, wire, connected, beats, queue, client, died>>

\* Nothing came for a while.
Heartbeat ==
    /\ handler = "waiting"
    /\ queue = <<>>
    /\ beats < MaxBeats
    /\ beats' = beats + 1
    /\ Writes(Plain("beat"), "waiting")
    /\ UNCHANGED <<valid, connected, queue, worker, client, died>>

\* The next event: a chunk becomes a line, an OllamaAPIError the last line; any
\* other error makes do_POST send a response of its own into the body.
TakeEvent ==
    /\ handler = "waiting"
    /\ queue # <<>>
    /\ queue' = Tail(queue)
    /\ LET event == Head(queue)
       IN  CASE event.kind = "chunk"  -> Writes(event, "waiting")
             [] event.kind = "api"    -> Writes(Plain("error"), "ended")
             [] event.kind = "broken" -> Writes(Plain("head"), "ended")
             [] event.kind = "done"   -> handler' = "ended" /\ UNCHANGED wire
    /\ UNCHANGED <<valid, connected, beats, worker, client, died>>

----------------------------------------------------------------------------
(* The worker thread                                                       *)

Put(event) == queue' = Append(queue, event)

NodeChunk ==
    /\ worker.at = "reading"
    /\ worker.got < Chunks
    /\ worker' = [worker EXCEPT !.got = @ + 1]
    /\ Put(Chunk(worker.node, worker.got + 1))
    /\ UNCHANGED <<valid, wire, connected, handler, beats, client, died>>

\* Mutation: the worker ends without telling the handler.
NodeDone_Silent ==
    /\ worker.at = "reading"
    /\ worker.got = Chunks
    /\ worker' = [worker EXCEPT !.at = "ended"]
    /\ UNCHANGED <<valid, wire, connected, handler, beats, queue, client, died>>

NodeDone ==
    /\ worker.at = "reading"
    /\ worker.got = Chunks
    /\ worker' = [worker EXCEPT !.at = "finally"]
    /\ UNCHANGED <<valid, wire, connected, handler, beats, queue, client, died>>

\* Mutation: the fallback is taken even when chunks have been sent.
FallsBack_Late(error) == error = "unreachable" /\ worker.node = "remote" /\ AllowFallback

\* chat_stream of the Ollama client and _fallback_selection: only a retryable
\* failure of a remote node, before its first chunk, is tried again locally.
FallsBack(error) ==
    /\ error = "unreachable"
    /\ worker.node = "remote"
    /\ worker.got = 0
    /\ AllowFallback

\* Mutation: a failure ends the stream as if it were complete.
NodeFails_Silent(error) ==
    /\ worker.at = "reading"
    /\ error = "refused" => worker.got = 0
    /\ IF FallsBack(error)
       THEN /\ worker' = [worker EXCEPT !.node = "local", !.got = 0]
            /\ UNCHANGED queue
       ELSE /\ worker' = [worker EXCEPT !.at = "finally", !.error = error]
            /\ UNCHANGED queue
    /\ UNCHANGED <<valid, wire, connected, handler, beats, client, died>>

\* The node fails: "refused" is an HTTP error status in place of the stream,
\* "unreachable" no connection or a timeout, at any chunk, "broken" a dropped
\* connection or a line that is no chunk, which raise no OllamaAPIError.
NodeFails(error) ==
    /\ worker.at = "reading"
    /\ error = "refused" => worker.got = 0
    /\ IF FallsBack(error)
       THEN /\ worker' = [worker EXCEPT !.node = "local", !.got = 0]
            /\ UNCHANGED queue
       ELSE /\ worker' = [worker EXCEPT !.at = "finally", !.error = error]
            /\ Put(Plain(IF error = "broken" THEN "broken" ELSE "api"))
    /\ UNCHANGED <<valid, wire, connected, handler, beats, client, died>>

\* The node ends its body before the reply is whole, without breaking the
\* protocol: nothing is raised, and the loop over its lines just ends.
NodeStopsShort ==
    /\ worker.at = "reading"
    /\ worker.got < Chunks
    /\ worker' = [worker EXCEPT !.at = "finally", !.error = "short"]
    /\ UNCHANGED <<valid, wire, connected, handler, beats, queue, client, died>>

\* Ollama fails after its response of status 200 has begun, and says so in an object
\* {"error": ...} of the stream, its last.  from_ollama does not look at that key: the
\* object becomes a chunk like any other, ok and done, without text; being a chunk, it
\* also rules out the local node.
NodeErrorLine ==
    /\ worker.at = "reading"
    /\ worker.got < Chunks
    /\ worker' = [worker EXCEPT !.got = @ + 1, !.at = "finally", !.error = "line"]
    /\ Put(Chunk(worker.node, worker.got + 1))
    /\ UNCHANGED <<valid, wire, connected, handler, beats, client, died>>

\* finally: the handler is told that nothing more comes.
WorkerEnds ==
    /\ worker.at = "finally"
    /\ worker' = [worker EXCEPT !.at = "ended"]
    /\ Put(Plain("done"))
    /\ UNCHANGED <<valid, wire, connected, handler, beats, client, died>>

----------------------------------------------------------------------------
(* The client                                                              *)

Unread == SubSeq(wire, client.read + 1, Len(wire))

\* The next line.  A heartbeat is skipped; a line ok: false, or one that is no
\* JSON such as the head of a second response, raises and closes the connection.
ReadLine ==
    /\ client.outcome = "waiting"
    /\ Unread # <<>>
    /\ LET line == Head(Unread)
           fails == line.kind = "error" \/ (line.kind = "head" /\ client.read > 0)
       IN  /\ client' = [read |-> client.read + 1,
                         got |-> IF line.kind = "chunk" THEN Append(client.got, line) ELSE client.got,
                         outcome |-> IF fails THEN "failed" ELSE "waiting"]
           /\ connected' = ~fails
    /\ UNCHANGED <<valid, wire, handler, beats, queue, worker, died>>

\* The end of the body, which nothing but the closing of the connection marks:
\* what came is the answer, unless nothing came.
ReadEnd ==
    /\ client.outcome = "waiting"
    /\ Unread = <<>>
    /\ handler = "ended"
    /\ client' = [client EXCEPT !.outcome = IF client.got = <<>> THEN "failed" ELSE "answered"]
    /\ connected' = FALSE
    /\ UNCHANGED <<valid, wire, handler, beats, queue, worker, died>>

\* The client times out, is interrupted or ends.
Leave ==
    /\ client.outcome = "waiting"
    /\ client' = [client EXCEPT !.outcome = "failed"]
    /\ connected' = FALSE
    /\ UNCHANGED <<valid, wire, handler, beats, queue, worker, died>>

\* The process of the server ends, and its threads with it.
ServerDies ==
    /\ ~died
    /\ died' = TRUE
    /\ handler' = "ended"
    /\ worker' = [worker EXCEPT !.at = "ended"]
    /\ UNCHANGED <<valid, wire, connected, beats, queue, client>>

Failures == {"refused", "unreachable", "broken"}

Handler == SendHead \/ Validate \/ StartWorker \/ Heartbeat \/ TakeEvent
Worker ==
    \/ NodeChunk \/ NodeDone \/ NodeStopsShort \/ NodeErrorLine \/ WorkerEnds
    \/ \E error \in Failures : NodeFails(error)
Reads == ReadLine \/ ReadEnd

WorkerOver == worker.at \in {"unborn", "ended"}
Over == handler = "ended" /\ WorkerOver /\ client.outcome # "waiting"

Ended == Over /\ UNCHANGED vars

Next == Handler \/ Worker \/ Reads \/ Leave \/ ServerDies \/ Ended

\* Both threads of the server run, the worker's reads have a timeout
\* (request_timeout of the transport), and the client reads what has come.
Spec == Init /\ [][Next]_vars /\ WF_vars(Handler) /\ WF_vars(Worker) /\ WF_vars(Reads)

----------------------------------------------------------------------------
(* Properties                                                              *)

\* The values the threads' state may take; a reader is never ahead of the lines.
TypeOK ==
    /\ valid \in BOOLEAN /\ connected \in BOOLEAN /\ died \in BOOLEAN
    /\ wire \in Seq(Line)
    /\ handler \in {"accepted", "open", "starting", "waiting", "ended"}
    /\ beats \in 0 .. MaxBeats
    /\ queue \in Seq(Line)
    /\ worker \in [at : {"unborn", "reading", "finally", "ended"}, node : Nodes \cup {"none"},
                   got : 0 .. Chunks, error : Failures \cup {"none", "short", "line"}]
    /\ client \in [read : 0 .. Len(wire), got : Seq(Line),
                   outcome : {"waiting", "answered", "failed"}]

\* What the client has is the beginning of the reply of one node: no chunk is
\* lost, repeated or out of order, and a fallback never goes on where, or
\* starts again after, another node has spoken.
OneReply == \A i \in DOMAIN client.got : client.got[i] = Chunk(client.got[1].node, i)

\* An answer the client goes on with is all the worker has read, and no failure that
\* raises in the worker is taken for its end.  Neither side looks at done, so three
\* ways are left to take a part of a reply for an answer: the process of the server
\* ends, or the node ends its body early, with an object that tells an error or
\* without a word.
WholeAnswer ==
    client.outcome = "answered" /\ ~died =>
        /\ worker.error \notin Failures
        /\ Len(client.got) = worker.got
        /\ worker.error = "none" => worker.got = Chunks

\* Whatever fails, and whoever goes away, the client learns how it ended, and
\* neither the request nor the thread that serves it is left hanging.
StreamEnds == <>Over
=============================================================================
