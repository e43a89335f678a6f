--------------------------- MODULE Stores_proofs ---------------------------
(***************************************************************************)
(* Proofs about the two stores of the client.                              *)
(*                                                                         *)
(* Sessions, for any number of clients, sessions and prompts: types, that a *)
(* client alone with its session loses nothing stored (NothingLost), that  *)
(* prompts stay in the session they were given in (OneHome), and that the  *)
(* memory of the REPL is its session (InStep).                             *)
(*                                                                         *)
(* TraceStore, for any number of runs, steps, calls and attempts and any   *)
(* settings: that no statement is refused (NothingRefused), that a run is  *)
(* completed after its phases (CompletedIsWhole), that a phase tells of its *)
(* tools in order and in full (ToolsTold), that an example is of the last  *)
(* answer of a completed phase (ExamplesAreAnswers), and that nothing is   *)
(* stored that is not asked for (OnlyWhatIsAsked).  They follow from       *)
(* TraceInv, of which the queue of statements still to be written is one   *)
(* half and what the tables hold the other.                                *)
(***************************************************************************)
EXTENDS Sessions, TraceStore, SequenceTheorems, TLAPS

\* The prompts a client would store.
Held(me) == PromptsIn(me.memory) \cup ({me.prompt} \ {0})

\* A client is in a session there is, and in one whenever it is about to store.
\* A prompt is in hand only while its run lasts.
PlacedAt(me) ==
    /\ me.current # NoSession => me.current \in sessions
    /\ me.at \in {"saving", "storing"} => me.current # NoSession
    /\ me.kind = "ask" /\ me.at # "off" => me.current # NoSession
    /\ me.at \notin {"running", "failed"} => me.prompt = 0
Placed == \A c \in Clients : PlacedAt(client[c])

\* A session that will be created has no rows yet.
Fresh == \A s \in SessionIds : s \notin sessions => rows[s] = <<>>

\* A client whose memory is neither stale nor unsaved has in memory what its
\* session holds, and the new turn while that is being stored.
SyncedAt(me) ==
    me.current # NoSession /\ ~me.stale /\ ~me.unsaved =>
        IF me.at = "saving"
        THEN PromptsIn(rows[me.current]) \subseteq PromptsIn(me.memory)
        ELSE me.memory = rows[me.current]
Synced == \A c \in Clients : SyncedAt(client[c])

\* Two clients that may come to store in different sessions.
Away(me, other) == me.current # other.current \/ me.current = NoSession

\* Prompts that were given are in one conversation: stored in one session, or
\* held by clients of one session, or by a client without one.
Apart ==
    /\ \A c \in Clients : Held(client[c]) \subseteq 1 .. prompts
    /\ \A s \in SessionIds : PromptsIn(rows[s]) \subseteq 1 .. prompts
    /\ \A c \in Clients, t \in SessionIds :
           t # client[c].current => Held(client[c]) \cap PromptsIn(rows[t]) = {}
    /\ \A c, d \in Clients :
           c # d /\ Away(client[c], client[d]) => Held(client[c]) \cap Held(client[d]) = {}
    /\ \A s, t \in SessionIds : s # t => PromptsIn(rows[s]) \cap PromptsIn(rows[t]) = {}

\* TypeOK without its last conjunct, which follows from Placed.
Typed ==
    /\ rows \in [SessionIds -> Seq(Turn)]
    /\ sessions \subseteq SessionIds
    /\ prompts \in 0 .. MaxPrompts
    /\ misled \in BOOLEAN
    /\ client \in [Clients -> Process]

IInv == Typed /\ Placed /\ Fresh /\ Synced /\ (misled \/ Apart)

----------------------------------------------------------------------------
(* The prompts of a conversation                                           *)

\* What PromptsIn means, position by position.
LEMMA PromptsInSeq ==
    ASSUME NEW m \in Seq(Turn)
    PROVE  PromptsIn(m) = {m[i].prompt : i \in 1 .. Len(m)} \ {0}
  BY DEF PromptsIn, ToSet

\* A conversation that is empty or a summary holds no prompt.
LEMMA PromptsOfNone ==
    /\ <<>> \in Seq(Turn)
    /\ PromptsIn(<<>>) = {}
    /\ <<Digest>> \in Seq(Turn)
    /\ PromptsIn(<<Digest>>) = {}
  <1>1. Digest \in Turn /\ Digest.prompt = 0
    BY SessionsAssumption DEF Digest, Turn
  <1>2. <<>> \in Seq(Turn) /\ <<Digest>> \in Seq(Turn)
    BY <1>1
  <1>3. PromptsIn(<<>>) = {}
    BY DEF PromptsIn, ToSet
  <1>4. PromptsIn(<<Digest>>) = {}
    <2> DEFINE m == <<Digest>>
    <2>1. \A i \in 1 .. Len(m) : m[i].prompt = 0
      BY <1>1
    <2> HIDE DEF m
    <2>2. m \in Seq(Turn)
      BY <1>2 DEF m
    <2>3. PromptsIn(m) = {}
      BY <2>1, <2>2, PromptsInSeq
    <2> QED BY <2>3 DEF m
  <1> QED BY <1>2, <1>3, <1>4

\* A turn more is its prompt more.
LEMMA PromptsAppend ==
    ASSUME NEW m \in Seq(Turn), NEW turn \in Turn
    PROVE  /\ Append(m, turn) \in Seq(Turn)
           /\ PromptsIn(Append(m, turn)) = PromptsIn(m) \cup ({turn.prompt} \ {0})
  <1> DEFINE n == Append(m, turn)
  <1>1. n \in Seq(Turn) /\ Len(m) \in Nat /\ Len(n) = Len(m) + 1
    OBVIOUS
  <1>2. \A i \in 1 .. Len(n) : n[i] = IF i = Len(m) + 1 THEN turn ELSE m[i]
    OBVIOUS
  <1>3. {n[i].prompt : i \in 1 .. Len(n)} = {m[i].prompt : i \in 1 .. Len(m)} \cup {turn.prompt}
    <2> HIDE DEF n
    <2>1. ASSUME NEW i \in 1 .. Len(n)
          PROVE  n[i].prompt \in {m[j].prompt : j \in 1 .. Len(m)} \cup {turn.prompt}
      BY <1>1, <1>2
    <2>2. ASSUME NEW i \in 1 .. Len(m)
          PROVE  m[i].prompt \in {n[j].prompt : j \in 1 .. Len(n)}
      <3>1. i \in 1 .. Len(n) /\ n[i] = m[i]
        BY <1>1, <1>2
      <3> QED BY <3>1
    <2>3. turn.prompt \in {n[j].prompt : j \in 1 .. Len(n)}
      <3>1. Len(m) + 1 \in 1 .. Len(n) /\ n[Len(m) + 1] = turn
        BY <1>1, <1>2
      <3> QED BY <3>1
    <2> QED BY <2>1, <2>2, <2>3
  <1> QED BY <1>1, <1>3, PromptsInSeq

\* A trim adds no prompt.
LEMMA PromptsTrim ==
    ASSUME NEW m \in Seq(Turn), NEW kept \in Trims(m)
    PROVE  kept \in Seq(Turn) /\ PromptsIn(kept) \subseteq PromptsIn(m)
  <1>1. CASE kept = m
    BY <1>1
  <1>2. ASSUME NEW i \in 2 .. Len(m), kept = <<Digest>> \o SubSeq(m, i, Len(m))
        PROVE  kept \in Seq(Turn) /\ PromptsIn(kept) \subseteq PromptsIn(m)
    <2> DEFINE tail == SubSeq(m, i, Len(m))
    <2>1. Len(m) \in Nat /\ \A j \in 1 .. Len(m) : m[j] \in Turn
      BY LenProperties, ElementOfSeq
    <2>2. /\ tail \in Seq(Turn)
          /\ Len(tail) = Len(m) - i + 1
          /\ \A j \in 1 .. Len(m) - i + 1 : tail[j] = m[i + j - 1]
      <3>1. \A j \in i .. Len(m) : m[j] \in Turn
        BY <2>1
      <3> QED BY <2>1, <3>1, SubSeqProperties
    <2>3. <<Digest>> \in Seq(Turn) /\ Len(<<Digest>>) = 1 /\ <<Digest>>[1] = Digest
      BY PromptsOfNone
    <2> HIDE DEF tail
    <2>4. /\ kept \in Seq(Turn)
          /\ Len(kept) = 1 + Len(tail)
          /\ \A j \in 1 .. 1 + Len(tail) :
                 kept[j] = IF j <= 1 THEN <<Digest>>[j] ELSE tail[j - 1]
      BY <1>2, <2>2, <2>3, ConcatProperties DEF tail
    <2>5. Digest.prompt = 0
      BY DEF Digest
    <2>6. ASSUME NEW j \in 1 .. Len(kept), kept[j].prompt # 0
          PROVE  kept[j].prompt \in {m[h].prompt : h \in 1 .. Len(m)}
      <3>1. j # 1
        BY <2>3, <2>4, <2>5, <2>6
      <3>2. j - 1 \in 1 .. Len(tail) /\ kept[j] = tail[j - 1]
        BY <2>1, <2>2, <2>4, <3>1
      <3>3. i + j - 2 \in 1 .. Len(m) /\ kept[j] = m[i + j - 2]
        BY <2>1, <2>2, <3>2
      <3> QED BY <3>3
    <2>7. /\ PromptsIn(kept) = {kept[j].prompt : j \in 1 .. Len(kept)} \ {0}
          /\ PromptsIn(m) = {m[j].prompt : j \in 1 .. Len(m)} \ {0}
      BY <2>4, PromptsInSeq
    <2> QED BY <2>4, <2>6, <2>7
  <1> QED BY <1>1, <1>2 DEF Trims

----------------------------------------------------------------------------
(* Types and the places of the clients                                     *)

\* The locals a client starts with.
LEMMA OffIsProcess ==
    /\ Off \in Process /\ Repl \in Process
    /\ Off.at = "off" /\ Off.kind = "none" /\ Off.current = NoSession
    /\ Off.memory = <<>> /\ Off.prompt = 0 /\ ~Off.stale /\ ~Off.unsaved
    /\ Repl.at = "idle" /\ Repl.kind = "repl" /\ Repl.current = NoSession
    /\ Repl.memory = <<>> /\ Repl.prompt = 0 /\ ~Repl.stale /\ ~Repl.unsaved
  <1>1. 0 \in 0 .. MaxPrompts /\ <<>> \in Seq(Turn)
    BY SessionsAssumption, PromptsOfNone
  <1>2. Off \in Process
    BY <1>1 DEF Off, Process
  <1>3. Repl \in Process
    BY <1>2 DEF Repl, Process
  <1>4. /\ Off.at = "off" /\ Off.kind = "none" /\ Off.current = NoSession
        /\ Off.memory = <<>> /\ Off.prompt = 0 /\ ~Off.stale /\ ~Off.unsaved
    BY DEF Off
  <1>5. /\ Repl.at = "idle" /\ Repl.kind = "repl" /\ Repl.current = NoSession
        /\ Repl.memory = <<>> /\ Repl.prompt = 0 /\ ~Repl.stale /\ ~Repl.unsaved
    BY DEF Repl, Off
  <1> QED BY <1>2, <1>3, <1>4, <1>5

\* A client that loads a session goes on with its rows.
LEMMA LoadedRecord ==
    ASSUME Typed, NEW r \in Process, NEW s \in SessionIds
    PROVE  /\ Loaded(r, s) \in Process
           /\ Loaded(r, s).at = r.at /\ Loaded(r, s).kind = r.kind
           /\ Loaded(r, s).prompt = r.prompt /\ Loaded(r, s).current = s
           /\ Loaded(r, s).memory = rows[s]
           /\ ~Loaded(r, s).stale /\ ~Loaded(r, s).unsaved
  BY DEF Typed, Process, Loaded

\* replace_messages writes the rows of one session and marks the other clients
\* of it; their other locals stay.
LEMMA ReplaceStep ==
    ASSUME Typed, NEW c \in Clients, client[c].current \in SessionIds,
           NEW record \in Process, Replace(c, record)
    PROVE  /\ rows' \in [SessionIds -> Seq(Turn)]
           /\ rows'[client[c].current] = client[c].memory
           /\ \A t \in SessionIds \ {client[c].current} : rows'[t] = rows[t]
           /\ client' \in [Clients -> Process]
           /\ client'[c] = record
           /\ \A d \in Clients \ {c} :
                  client'[d] = [client[d] EXCEPT !.stale = client[d].stale
                                                    \/ client[d].current = client[c].current]
           /\ sessions' = sessions
  <1> DEFINE mine == client[c].current
             others == [d \in Clients |-> [client[d] EXCEPT !.stale = @ \/ client[d].current = mine]]
  <1>1. client[c].memory \in Seq(Turn)
    BY DEF Typed, Process
  <1>2. others \in [Clients -> Process]
    <2>1. ASSUME NEW d \in Clients
          PROVE  [client[d] EXCEPT !.stale = client[d].stale \/ client[d].current = mine] \in Process
      <3>1. client[d] \in Process
        BY DEF Typed
      <3> QED BY <3>1 DEF Process
    <2> QED BY <2>1
  <1>3. client' = [others EXCEPT ![c] = record]
    BY DEF Replace
  <1>4. rows' = [rows EXCEPT ![mine] = client[c].memory] /\ sessions' = sessions
    BY DEF Replace
  <1>5. \A d \in Clients \ {c} :
            others[d] = [client[d] EXCEPT !.stale = client[d].stale \/ client[d].current = mine]
    OBVIOUS
  <1>6. /\ client' \in [Clients -> Process] /\ client'[c] = record
        /\ \A d \in Clients \ {c} : client'[d] = others[d]
    <2> HIDE DEF others
    <2> QED BY <1>2, <1>3
  <1> QED BY <1>1, <1>4, <1>5, <1>6 DEF Typed

----------------------------------------------------------------------------
(* Steps of one client that leave the rows alone                           *)

\* Only the locals of c change ...
Moves(c) ==
    /\ client' \in [Clients -> Process]
    /\ \A d \in Clients \ {c} : client'[d] = client[d]

\* ... and no rows; there may be a session or a prompt more.
RowsStay ==
    /\ rows' = rows
    /\ sessions \subseteq sessions'
    /\ sessions' \subseteq SessionIds
    /\ prompts' \in prompts .. MaxPrompts

\* A client goes on with the given locals.
LEMMA ChangeOne ==
    ASSUME Typed, NEW c \in Clients, NEW r \in Process, client' = [client EXCEPT ![c] = r]
    PROVE  Moves(c) /\ client'[c] = r
  BY DEF Typed, Moves

\* The parts of the invariant that speak of other clients and of rows stay.
LEMMA MovesKeep ==
    ASSUME IInv, NEW c \in Clients, Moves(c), RowsStay,
           PlacedAt(client[c])', SyncedAt(client[c])',
           misled' = TRUE \/ (misled' = misled /\ (Apart => Apart'))
    PROVE  IInv'
  <1>1. Typed'
    <2>1. misled' \in BOOLEAN
      BY DEF IInv, Typed
    <2> QED BY <2>1, SessionsAssumption DEF IInv, Typed, Moves, RowsStay
  <1>2. Placed'
    <2> SUFFICES ASSUME NEW d \in Clients PROVE PlacedAt(client[d])'
      BY DEF Placed
    <2>1. CASE d = c
      BY <2>1
    <2>2. CASE d # c
      <3>1. PlacedAt(client[d]) /\ client'[d] = client[d] /\ sessions \subseteq sessions'
        BY <2>2 DEF IInv, Placed, Moves, RowsStay
      <3> QED BY <3>1 DEF PlacedAt
    <2> QED BY <2>1, <2>2
  <1>3. Fresh'
    BY DEF IInv, Fresh, Moves, RowsStay
  <1>4. Synced'
    <2> SUFFICES ASSUME NEW d \in Clients PROVE SyncedAt(client[d])'
      BY DEF Synced
    <2>1. CASE d = c
      BY <2>1
    <2>2. CASE d # c
      <3>1. SyncedAt(client[d]) /\ client'[d] = client[d] /\ rows' = rows
        BY <2>2 DEF IInv, Synced, Moves, RowsStay
      <3> QED BY <3>1 DEF SyncedAt
    <2> QED BY <2>1, <2>2
  <1> QED BY <1>1, <1>2, <1>3, <1>4 DEF IInv

\* Prompts stay apart if those of the client that moves do.
LEMMA ApartMoves ==
    ASSUME IInv, Apart, NEW c \in Clients, Moves(c), RowsStay,
           Held(client'[c]) \subseteq 1 .. prompts',
           \A t \in SessionIds :
               t # client'[c].current => Held(client'[c]) \cap PromptsIn(rows[t]) = {},
           \A d \in Clients \ {c} :
               Away(client'[c], client[d]) \/ Away(client[d], client'[c])
                   => Held(client'[c]) \cap Held(client[d]) = {}
    PROVE  Apart'
  <1>1. prompts \in Nat /\ prompts' \in Nat /\ prompts <= prompts'
    BY SessionsAssumption DEF IInv, Typed, Moves, RowsStay
  <1>2. ASSUME NEW d \in Clients PROVE Held(client'[d]) \subseteq 1 .. prompts'
    BY <1>1 DEF Apart, Moves, RowsStay
  <1>3. ASSUME NEW t \in SessionIds PROVE PromptsIn(rows'[t]) \subseteq 1 .. prompts'
    BY <1>1 DEF Apart, Moves, RowsStay
  <1>4. ASSUME NEW d \in Clients, NEW t \in SessionIds, t # client'[d].current
        PROVE  Held(client'[d]) \cap PromptsIn(rows'[t]) = {}
    BY <1>4 DEF Apart, Moves, RowsStay
  <1>5. ASSUME NEW d \in Clients, NEW e \in Clients, d # e, Away(client'[d], client'[e])
        PROVE  Held(client'[d]) \cap Held(client'[e]) = {}
    <2>1. CASE d = c \/ e = c
      BY <1>5, <2>1 DEF Moves, RowsStay
    <2>2. CASE d # c /\ e # c
      <3>1. client'[d] = client[d] /\ client'[e] = client[e]
        BY <2>2 DEF Moves, RowsStay
      <3> QED BY <1>5, <3>1 DEF Apart
    <2> QED BY <2>1, <2>2
  <1> QED BY <1>2, <1>3, <1>4, <1>5 DEF Apart, Moves, RowsStay

\* They do when it holds no more than before and a prompt given now, and stays
\* where it is or enters a session just created, ...
LEMMA ApartStays ==
    ASSUME IInv, Apart, NEW c \in Clients, Moves(c), RowsStay,
           Held(client'[c]) \subseteq Held(client[c]) \cup (prompts + 1 .. prompts'),
           \/ client'[c].current = client[c].current
           \/ client[c].current = NoSession /\ client'[c].current \in SessionIds \ sessions
    PROVE  Apart'
  <1>1. prompts \in Nat /\ prompts' \in Nat /\ prompts <= prompts'
    BY SessionsAssumption DEF IInv, Typed, Moves, RowsStay
  <1>2. Held(client'[c]) \subseteq 1 .. prompts'
    BY <1>1 DEF Apart
  <1>3. ASSUME NEW t \in SessionIds, t # client'[c].current
        PROVE  Held(client'[c]) \cap PromptsIn(rows[t]) = {}
    <2>1. t # client[c].current
      BY <1>3, SessionsAssumption
    <2>2. Held(client[c]) \cap PromptsIn(rows[t]) = {} /\ PromptsIn(rows[t]) \subseteq 1 .. prompts
      BY <2>1 DEF Apart
    <2> QED BY <1>1, <2>2
  <1>4. ASSUME NEW d \in Clients \ {c},
               Away(client'[c], client[d]) \/ Away(client[d], client'[c])
        PROVE  Held(client'[c]) \cap Held(client[d]) = {}
    <2>1. client[d].current # NoSession => client[d].current \in sessions
      BY DEF IInv, Placed, PlacedAt
    <2>2. Away(client[c], client[d]) \/ Away(client[d], client[c])
      BY <1>4, <2>1, SessionsAssumption DEF Away
    <2>3. Held(client[c]) \cap Held(client[d]) = {} /\ Held(client[d]) \subseteq 1 .. prompts
      BY <2>2 DEF Apart
    <2> QED BY <1>1, <2>3
  <1> QED BY <1>2, <1>3, <1>4, ApartMoves

\* ... when it holds what its session has, and a prompt given now, ...
LEMMA ApartLoads ==
    ASSUME IInv, Apart, NEW c \in Clients, Moves(c), RowsStay, NEW s \in SessionIds,
           client'[c].current = s,
           Held(client'[c]) \subseteq PromptsIn(rows[s]) \cup (prompts + 1 .. prompts')
    PROVE  Apart'
  <1>1. prompts \in Nat /\ prompts' \in Nat /\ prompts <= prompts'
    BY SessionsAssumption DEF IInv, Typed, Moves, RowsStay
  <1>2. Held(client'[c]) \subseteq 1 .. prompts'
    BY <1>1 DEF Apart
  <1>3. ASSUME NEW t \in SessionIds, t # client'[c].current
        PROVE  Held(client'[c]) \cap PromptsIn(rows[t]) = {}
    <2>1. PromptsIn(rows[s]) \cap PromptsIn(rows[t]) = {} /\ PromptsIn(rows[t]) \subseteq 1 .. prompts
      BY <1>3 DEF Apart
    <2> QED BY <1>1, <2>1
  <1>4. ASSUME NEW d \in Clients \ {c},
               Away(client'[c], client[d]) \/ Away(client[d], client'[c])
        PROVE  Held(client'[c]) \cap Held(client[d]) = {}
    <2>1. s # client[d].current
      BY <1>4, SessionsAssumption DEF Away
    <2>2. Held(client[d]) \cap PromptsIn(rows[s]) = {} /\ Held(client[d]) \subseteq 1 .. prompts
      BY <2>1 DEF Apart
    <2> QED BY <1>1, <2>2
  <1> QED BY <1>2, <1>3, <1>4, ApartMoves

\* ... and when it holds nothing.
LEMMA ApartEmpty ==
    ASSUME IInv, Apart, NEW c \in Clients, Moves(c), RowsStay, Held(client'[c]) = {}
    PROVE  Apart'
  BY ApartMoves

----------------------------------------------------------------------------
(* Steps that replace the rows of a session                                *)

\* Replacing the rows of the current session keeps the invariant, if the client goes
\* on with the conversation it stored, or without a session and with nothing.
LEMMA ReplaceKeeps ==
    ASSUME IInv, NEW c \in Clients, client[c].current \in SessionIds,
           NEW record \in Process, Replace(c, record), UNCHANGED <<prompts, misled>>,
           PlacedAt(record), Held(record) \subseteq Held(client[c]),
           \/ /\ record.current = client[c].current
              /\ record.memory = client[c].memory
              /\ record.at # "saving"
           \/ record.current = NoSession /\ Held(record) = {}
    PROVE  IInv'
  <1> DEFINE s == client[c].current
  <1>1. /\ rows' \in [SessionIds -> Seq(Turn)]
        /\ rows'[s] = client[c].memory
        /\ \A t \in SessionIds \ {s} : rows'[t] = rows[t]
        /\ client' \in [Clients -> Process]
        /\ client'[c] = record
        /\ \A d \in Clients \ {c} :
               client'[d] = [client[d] EXCEPT !.stale = client[d].stale \/ client[d].current = s]
        /\ sessions' = sessions
    BY ReplaceStep DEF IInv
  <1>2. s \in sessions
    BY SessionsAssumption DEF IInv, Placed, PlacedAt
  <1>3. ASSUME NEW d \in Clients \ {c}
        PROVE  /\ client'[d].at = client[d].at /\ client'[d].kind = client[d].kind
               /\ client'[d].current = client[d].current
               /\ client'[d].memory = client[d].memory
               /\ client'[d].prompt = client[d].prompt
               /\ client'[d].unsaved = client[d].unsaved
               /\ client'[d].stale <=> client[d].stale \/ client[d].current = s
    BY <1>1 DEF IInv, Typed, Process
  <1> HIDE DEF s
  <1>4. Typed'
    BY <1>1 DEF IInv, Typed
  <1>5. Placed'
    <2> SUFFICES ASSUME NEW d \in Clients PROVE PlacedAt(client[d])'
      BY DEF Placed
    <2>1. CASE d = c
      BY <1>1, <2>1 DEF PlacedAt
    <2>2. CASE d # c
      BY <1>1, <1>3, <2>2 DEF IInv, Placed, PlacedAt
    <2> QED BY <2>1, <2>2
  <1>6. Fresh'
    BY <1>1, <1>2 DEF IInv, Fresh
  <1>7. Synced'
    <2> SUFFICES ASSUME NEW d \in Clients PROVE SyncedAt(client[d])'
      BY DEF Synced
    <2>1. CASE d = c
      BY <1>1, <2>1 DEF SyncedAt, s
    <2>2. CASE d # c
      <3>1. SyncedAt(client[d]) /\ client[d].current \in SessionIds \cup {NoSession}
        BY DEF IInv, Synced, Typed, Process
      <3> QED BY <1>1, <1>3, <2>2, <3>1 DEF SyncedAt
    <2> QED BY <2>1, <2>2
  <1>8. ASSUME Apart PROVE Apart'
    <2>1. \A d \in Clients : Held(client'[d]) \subseteq Held(client[d])
      BY <1>1, <1>3 DEF Held
    <2>2. PromptsIn(client[c].memory) \subseteq Held(client[c])
      BY DEF Held
    <2>3. ASSUME NEW d \in Clients PROVE Held(client'[d]) \subseteq 1 .. prompts'
      BY <1>8, <2>1 DEF Apart
    <2>4. ASSUME NEW t \in SessionIds PROVE PromptsIn(rows'[t]) \subseteq 1 .. prompts'
      BY <1>1, <1>8, <2>2 DEF Apart
    <2>5. ASSUME NEW d \in Clients, NEW t \in SessionIds, t # client'[d].current
          PROVE  Held(client'[d]) \cap PromptsIn(rows'[t]) = {}
      <3>1. CASE d = c /\ record.current = NoSession
        BY <1>1, <3>1, SessionsAssumption DEF s
      <3>2. CASE d = c /\ record.current = s
        <4>1. t # s /\ rows'[t] = rows[t]
          BY <1>1, <2>5, <3>2
        <4>2. Held(client[c]) \cap PromptsIn(rows[t]) = {}
          BY <1>8, <4>1 DEF Apart, s
        <4> QED BY <2>1, <3>2, <4>1, <4>2
      <3>3. CASE d # c /\ t = s
        <4>1. Away(client[c], client[d])
          BY <1>3, <2>5, <3>3 DEF Away, s
        <4>2. Held(client[c]) \cap Held(client[d]) = {}
          BY <1>8, <3>3, <4>1 DEF Apart
        <4> QED BY <1>1, <2>1, <2>2, <3>3, <4>2
      <3>4. CASE d # c /\ t # s
        <4>1. t # client[d].current /\ rows'[t] = rows[t]
          BY <1>1, <1>3, <2>5, <3>4
        <4>2. Held(client[d]) \cap PromptsIn(rows[t]) = {}
          BY <1>8, <4>1 DEF Apart
        <4> QED BY <2>1, <4>1, <4>2
      <3> QED BY <3>1, <3>2, <3>3, <3>4 DEF s
    <2>6. ASSUME NEW d \in Clients, NEW e \in Clients, d # e, Away(client'[d], client'[e])
          PROVE  Held(client'[d]) \cap Held(client'[e]) = {}
      <3>1. CASE record.current = NoSession /\ (d = c \/ e = c)
        BY <1>1, <3>1, SessionsAssumption DEF s
      <3>2. CASE record.current = s \/ (d # c /\ e # c)
        <4>1. client'[d].current = client[d].current /\ client'[e].current = client[e].current
          BY <1>1, <1>3, <3>2 DEF s
        <4>2. Held(client[d]) \cap Held(client[e]) = {}
          BY <1>8, <2>6, <4>1 DEF Apart, Away
        <4> QED BY <2>1, <4>2
      <3> QED BY <3>1, <3>2 DEF s
    <2>7. ASSUME NEW t \in SessionIds, NEW u \in SessionIds, t # u
          PROVE  PromptsIn(rows'[t]) \cap PromptsIn(rows'[u]) = {}
      <3>1. \A v \in SessionIds \ {s} : PromptsIn(client[c].memory) \cap PromptsIn(rows[v]) = {}
        BY <1>8, <2>2 DEF Apart, s
      <3>2. CASE t = s
        BY <1>1, <2>7, <3>1, <3>2
      <3>3. CASE u = s
        BY <1>1, <2>7, <3>1, <3>3
      <3>4. CASE t # s /\ u # s
        <4>1. rows'[t] = rows[t] /\ rows'[u] = rows[u]
          BY <1>1, <3>4
        <4> QED BY <1>8, <2>7, <4>1 DEF Apart
      <3> QED BY <3>2, <3>3, <3>4
    <2> QED BY <2>3, <2>4, <2>5, <2>6, <2>7 DEF Apart
  <1> QED BY <1>4, <1>5, <1>6, <1>7, <1>8 DEF IInv

----------------------------------------------------------------------------
(* Each action keeps the invariant                                         *)

\* The session was fresh, so nothing is missing in the empty memory.
LEMMA AskNewKeeps ==
    ASSUME IInv, NEW c \in Clients, NEW s \in SessionIds, AskNew(c, s)
    PROVE  IInv'
  <1> DEFINE r == [Off EXCEPT !.at = "opened", !.kind = "ask", !.current = s]
  <1>1. client' = [client EXCEPT ![c] = r]
    BY DEF AskNew, Create
  <1>2. /\ r \in Process
        /\ r.at = "opened" /\ r.kind = "ask"
        /\ r.current = s /\ r.memory = <<>>
        /\ r.prompt = 0 /\ ~r.stale
        /\ ~r.unsaved
    BY OffIsProcess DEF Process
  <1> HIDE DEF r
  <1>3. Moves(c) /\ client'[c] = r
    BY <1>1, <1>2, ChangeOne DEF IInv
  <1>4. /\ RowsStay
        /\ s \in sessions' /\ rows[s] = <<>>
    BY SessionsAssumption DEF IInv, Typed, RowsStay, AskNew, Create, Fresh
  <1>5. PlacedAt(client[c])'
    BY <1>2, <1>3, <1>4, SessionsAssumption DEF IInv, Placed, PlacedAt, RowsStay
  <1>6. SyncedAt(client[c])'
    BY <1>2, <1>3, <1>4 DEF IInv, Synced, SyncedAt, RowsStay
  <1>7. Held(r) = {}
    BY <1>2, PromptsOfNone DEF Held
  <1>8. Apart => Apart'
    BY <1>2, <1>3, <1>4, <1>7, ApartEmpty
  <1>9. misled' = misled
    BY DEF AskNew
  <1> QED BY <1>3, <1>4, <1>5, <1>6, <1>8, <1>9, MovesKeep

\* The client holds what its session does, and the new prompt.
LEMMA AskLoadsKeeps ==
    ASSUME IInv, NEW c \in Clients, NEW s \in SessionIds, AskLoads(c, s)
    PROVE  IInv'
  <1> DEFINE asking == [Off EXCEPT !.kind = "ask"]
  <1>0. /\ prompts + 1 \in 0 .. MaxPrompts
        /\ Loaded(asking, s) \in Process
        /\ Loaded(asking, s).kind = "ask" /\ Loaded(asking, s).current = s
        /\ Loaded(asking, s).memory = rows[s]
        /\ ~Loaded(asking, s).stale /\ ~Loaded(asking, s).unsaved
    <2>1. prompts + 1 \in 0 .. MaxPrompts
      BY SessionsAssumption DEF IInv, Typed, AskLoads, NewPrompt
    <2>2. asking \in Process /\ asking.kind = "ask"
      BY OffIsProcess DEF Process, Off
    <2> HIDE DEF asking
    <2> QED BY <2>1, <2>2, LoadedRecord DEF IInv
  <1> DEFINE r == [Loaded(asking, s) EXCEPT !.at = "running", !.prompt = prompts + 1]
  <1>1. client' = [client EXCEPT ![c] = r]
    BY DEF AskLoads, NewPrompt
  <1>2. /\ r \in Process
        /\ r.at = "running" /\ r.kind = "ask"
        /\ r.current = s /\ r.memory = rows[s]
        /\ r.prompt = prompts + 1 /\ ~r.stale
        /\ ~r.unsaved
    <2>1. client[c] \in Process
      BY DEF IInv, Typed
    <2> QED BY <2>1, <1>0 DEF Process
  <1> HIDE DEF r
  <1>3. Moves(c) /\ client'[c] = r
    BY <1>1, <1>2, ChangeOne DEF IInv
  <1>4. /\ RowsStay
        /\ s \in sessions' /\ prompts' = prompts + 1
    BY SessionsAssumption DEF IInv, Typed, RowsStay, AskLoads, NewPrompt, Placed, PlacedAt
  <1>5. PlacedAt(client[c])'
    BY <1>2, <1>3, <1>4, SessionsAssumption DEF IInv, Placed, PlacedAt, RowsStay
  <1>6. SyncedAt(client[c])'
    BY <1>2, <1>3, <1>4 DEF IInv, Synced, SyncedAt, RowsStay
  <1>7. Held(r) \subseteq PromptsIn(rows[s]) \cup (prompts + 1 .. prompts')
    <2>1. prompts \in Nat
      BY SessionsAssumption DEF IInv, Typed
    <2> QED BY <1>2, <1>4, <2>1 DEF Held
  <1>8. Apart => Apart'
    BY <1>2, <1>3, <1>4, <1>7, ApartLoads
  <1>9. misled' = misled
    BY DEF AskLoads
  <1> QED BY <1>3, <1>4, <1>5, <1>6, <1>8, <1>9, MovesKeep

\* The prompt in hand becomes a turn of the memory.
LEMMA AskFailsKeeps ==
    ASSUME IInv, NEW c \in Clients, AskFails(c)
    PROVE  IInv'
  <1> DEFINE turn == [prompt |-> client[c].prompt, answered |-> FALSE]
  <1>0. /\ Append(client[c].memory, turn) \in Seq(Turn)
        /\ PromptsIn(Append(client[c].memory, turn))
               = PromptsIn(client[c].memory) \cup ({client[c].prompt} \ {0})
        /\ 0 \in 0 .. MaxPrompts
    <2>1. turn \in Turn /\ client[c].memory \in Seq(Turn) /\ turn.prompt = client[c].prompt
      BY DEF IInv, Typed, Process, Turn
    <2> HIDE DEF turn
    <2> QED BY <2>1, PromptsAppend, SessionsAssumption
  <1> DEFINE r == [client[c] EXCEPT !.memory = Append(client[c].memory, turn),
                                   !.prompt = 0, !.at = "saving"]
  <1>1. client' = [client EXCEPT ![c] = r]
    BY DEF AskFails
  <1>2. /\ r \in Process
        /\ r.at = "saving" /\ r.kind = client[c].kind
        /\ r.current = client[c].current /\ r.memory = Append(client[c].memory, turn)
        /\ r.prompt = 0 /\ r.stale = client[c].stale
        /\ r.unsaved = client[c].unsaved
    <2>1. client[c] \in Process
      BY DEF IInv, Typed
    <2> QED BY <2>1, <1>0 DEF Process
  <1> HIDE DEF r
  <1>3. Moves(c) /\ client'[c] = r
    BY <1>1, <1>2, ChangeOne DEF IInv
  <1>4. /\ RowsStay
        /\ client[c].kind = "ask" /\ client[c].at = "running"
    BY SessionsAssumption DEF IInv, Typed, RowsStay, AskFails
  <1>5. PlacedAt(client[c])'
    BY <1>2, <1>3, <1>4, SessionsAssumption DEF IInv, Placed, PlacedAt, RowsStay
  <1>6. SyncedAt(client[c])'
    BY <1>2, <1>3, <1>4, <1>0 DEF IInv, Synced, SyncedAt, RowsStay
  <1>7. Held(r) \subseteq Held(client[c]) \cup (prompts + 1 .. prompts')
    BY <1>2, <1>0 DEF Held
  <1>8. Apart => Apart'
    BY <1>2, <1>3, <1>4, <1>7, ApartStays
  <1>9. misled' = misled
    BY DEF AskFails
  <1> QED BY <1>3, <1>4, <1>5, <1>6, <1>8, <1>9, MovesKeep

\* The prompt is new, so nobody else holds it.
LEMMA ReplPromptsKeeps ==
    ASSUME IInv, NEW c \in Clients, ReplPrompts(c)
    PROVE  IInv'
  <1>0. prompts + 1 \in 0 .. MaxPrompts
    BY SessionsAssumption DEF IInv, Typed, ReplPrompts, NewPrompt
  <1> DEFINE r == [client[c] EXCEPT !.at = "running", !.prompt = prompts + 1]
  <1>1. client' = [client EXCEPT ![c] = r]
    BY DEF ReplPrompts, NewPrompt
  <1>2. /\ r \in Process
        /\ r.at = "running" /\ r.kind = client[c].kind
        /\ r.current = client[c].current /\ r.memory = client[c].memory
        /\ r.prompt = prompts + 1 /\ r.stale = client[c].stale
        /\ r.unsaved = client[c].unsaved
    <2>1. client[c] \in Process
      BY DEF IInv, Typed
    <2> QED BY <2>1, <1>0 DEF Process
  <1> HIDE DEF r
  <1>3. Moves(c) /\ client'[c] = r
    BY <1>1, <1>2, ChangeOne DEF IInv
  <1>4. /\ RowsStay
        /\ prompts' = prompts + 1 /\ client[c].at = "idle"
    BY SessionsAssumption DEF IInv, Typed, RowsStay, ReplPrompts, NewPrompt, Idle
  <1>5. PlacedAt(client[c])'
    BY <1>2, <1>3, <1>4, SessionsAssumption DEF IInv, Placed, PlacedAt, RowsStay
  <1>6. SyncedAt(client[c])'
    BY <1>2, <1>3, <1>4 DEF IInv, Synced, SyncedAt, RowsStay
  <1>7. Held(r) \subseteq Held(client[c]) \cup (prompts + 1 .. prompts')
    <2>1. prompts \in Nat
      BY SessionsAssumption DEF IInv, Typed
    <2> QED BY <1>2, <1>4, <2>1 DEF Held
  <1>8. Apart => Apart'
    BY <1>2, <1>3, <1>4, <1>7, ApartStays
  <1>9. misled' = misled
    BY DEF ReplPrompts
  <1> QED BY <1>3, <1>4, <1>5, <1>6, <1>8, <1>9, MovesKeep

\* Only the place in the loop changes.
LEMMA ReplFailsKeeps ==
    ASSUME IInv, NEW c \in Clients, ReplFails(c)
    PROVE  IInv'
  <1> DEFINE r == [client[c] EXCEPT !.at = "failed"]
  <1>1. client' = [client EXCEPT ![c] = r]
    BY DEF ReplFails
  <1>2. /\ r \in Process
        /\ r.at = "failed" /\ r.kind = client[c].kind
        /\ r.current = client[c].current /\ r.memory = client[c].memory
        /\ r.prompt = client[c].prompt /\ r.stale = client[c].stale
        /\ r.unsaved = client[c].unsaved
    <2>1. client[c] \in Process
      BY DEF IInv, Typed
    <2> QED BY <2>1 DEF Process
  <1> HIDE DEF r
  <1>3. Moves(c) /\ client'[c] = r
    BY <1>1, <1>2, ChangeOne DEF IInv
  <1>4. /\ RowsStay
        /\ client[c].at = "running"
    BY SessionsAssumption DEF IInv, Typed, RowsStay, ReplFails
  <1>5. PlacedAt(client[c])'
    BY <1>2, <1>3, <1>4, SessionsAssumption DEF IInv, Placed, PlacedAt, RowsStay
  <1>6. SyncedAt(client[c])'
    BY <1>2, <1>3, <1>4 DEF IInv, Synced, SyncedAt, RowsStay
  <1>7. Held(r) \subseteq Held(client[c]) \cup (prompts + 1 .. prompts')
    BY <1>2 DEF Held
  <1>8. Apart => Apart'
    BY <1>2, <1>3, <1>4, <1>7, ApartStays
  <1>9. misled' = misled
    BY DEF ReplFails
  <1> QED BY <1>3, <1>4, <1>5, <1>6, <1>8, <1>9, MovesKeep

\* The prompt in hand is dropped.
LEMMA ReplReportsKeeps ==
    ASSUME IInv, NEW c \in Clients, ReplReports(c)
    PROVE  IInv'
  <1>0. 0 \in 0 .. MaxPrompts
    BY SessionsAssumption
  <1> DEFINE r == [client[c] EXCEPT !.at = "idle", !.prompt = 0]
  <1>1. client' = [client EXCEPT ![c] = r]
    BY DEF ReplReports
  <1>2. /\ r \in Process
        /\ r.at = "idle" /\ r.kind = client[c].kind
        /\ r.current = client[c].current /\ r.memory = client[c].memory
        /\ r.prompt = 0 /\ r.stale = client[c].stale
        /\ r.unsaved = client[c].unsaved
    <2>1. client[c] \in Process
      BY DEF IInv, Typed
    <2> QED BY <2>1, <1>0 DEF Process
  <1> HIDE DEF r
  <1>3. Moves(c) /\ client'[c] = r
    BY <1>1, <1>2, ChangeOne DEF IInv
  <1>4. /\ RowsStay
        /\ client[c].at = "failed"
    BY SessionsAssumption DEF IInv, Typed, RowsStay, ReplReports
  <1>5. PlacedAt(client[c])'
    BY <1>2, <1>3, <1>4, SessionsAssumption DEF IInv, Placed, PlacedAt, RowsStay
  <1>6. SyncedAt(client[c])'
    BY <1>2, <1>3, <1>4 DEF IInv, Synced, SyncedAt, RowsStay
  <1>7. Held(r) \subseteq Held(client[c]) \cup (prompts + 1 .. prompts')
    BY <1>2 DEF Held
  <1>8. Apart => Apart'
    BY <1>2, <1>3, <1>4, <1>7, ApartStays
  <1>9. misled' = misled
    BY DEF ReplReports
  <1> QED BY <1>3, <1>4, <1>5, <1>6, <1>8, <1>9, MovesKeep

\* What the client holds shrinks.
LEMMA ClearKeeps ==
    ASSUME IInv, NEW c \in Clients, Clear(c)
    PROVE  IInv'
  <1> DEFINE r == [client[c] EXCEPT !.memory = <<>>, !.unsaved = TRUE]
  <1>1. client' = [client EXCEPT ![c] = r]
    BY DEF Clear
  <1>2. /\ r \in Process
        /\ r.at = client[c].at /\ r.kind = client[c].kind
        /\ r.current = client[c].current /\ r.memory = <<>>
        /\ r.prompt = client[c].prompt /\ r.stale = client[c].stale
        /\ r.unsaved
    <2>1. client[c] \in Process
      BY DEF IInv, Typed
    <2> QED BY <2>1, PromptsOfNone DEF Process
  <1> HIDE DEF r
  <1>3. Moves(c) /\ client'[c] = r
    BY <1>1, <1>2, ChangeOne DEF IInv
  <1>4. /\ RowsStay
        /\ client[c].at = "idle"
    BY SessionsAssumption DEF IInv, Typed, RowsStay, Clear, Idle
  <1>5. PlacedAt(client[c])'
    BY <1>2, <1>3, <1>4, SessionsAssumption DEF IInv, Placed, PlacedAt, RowsStay
  <1>6. SyncedAt(client[c])'
    BY <1>2, <1>3, <1>4 DEF IInv, Synced, SyncedAt, RowsStay
  <1>7. Held(r) \subseteq Held(client[c]) \cup (prompts + 1 .. prompts')
    BY <1>2, PromptsOfNone DEF Held
  <1>8. Apart => Apart'
    BY <1>2, <1>3, <1>4, <1>7, ApartStays
  <1>9. misled' = misled
    BY DEF Clear
  <1> QED BY <1>3, <1>4, <1>5, <1>6, <1>8, <1>9, MovesKeep

\* The session was fresh, and the memory is emptied.
LEMMA NewKeeps ==
    ASSUME IInv, NEW c \in Clients, NEW s \in SessionIds, New(c, s)
    PROVE  IInv'
  <1> DEFINE r == [Repl EXCEPT !.current = s]
  <1>1. client' = [client EXCEPT ![c] = r]
    BY DEF New, Create
  <1>2. /\ r \in Process
        /\ r.at = "idle" /\ r.kind = "repl"
        /\ r.current = s /\ r.memory = <<>>
        /\ r.prompt = 0 /\ ~r.stale
        /\ ~r.unsaved
    BY OffIsProcess DEF Process
  <1> HIDE DEF r
  <1>3. Moves(c) /\ client'[c] = r
    BY <1>1, <1>2, ChangeOne DEF IInv
  <1>4. /\ RowsStay
        /\ s \in sessions' /\ rows[s] = <<>>
    BY SessionsAssumption DEF IInv, Typed, RowsStay, New, Create, Fresh
  <1>5. PlacedAt(client[c])'
    BY <1>2, <1>3, <1>4, SessionsAssumption DEF IInv, Placed, PlacedAt, RowsStay
  <1>6. SyncedAt(client[c])'
    BY <1>2, <1>3, <1>4 DEF IInv, Synced, SyncedAt, RowsStay
  <1>7. Held(r) = {}
    BY <1>2, PromptsOfNone DEF Held
  <1>8. Apart => Apart'
    BY <1>2, <1>3, <1>4, <1>7, ApartEmpty
  <1>9. misled' = misled
    BY DEF New
  <1> QED BY <1>3, <1>4, <1>5, <1>6, <1>8, <1>9, MovesKeep

\* What a client without a session holds is in no session: it may enter a new one.
LEMMA SaveNewKeeps ==
    ASSUME IInv, NEW c \in Clients, NEW s \in SessionIds, SaveNew(c, s)
    PROVE  IInv'
  <1> DEFINE r == [client[c] EXCEPT !.current = s, !.at = "storing", !.unsaved = TRUE]
  <1>1. client' = [client EXCEPT ![c] = r]
    BY DEF SaveNew, Create
  <1>2. /\ r \in Process
        /\ r.at = "storing" /\ r.kind = client[c].kind
        /\ r.current = s /\ r.memory = client[c].memory
        /\ r.prompt = client[c].prompt /\ r.stale = client[c].stale
        /\ r.unsaved
    <2>1. client[c] \in Process
      BY DEF IInv, Typed
    <2> QED BY <2>1 DEF Process
  <1> HIDE DEF r
  <1>3. Moves(c) /\ client'[c] = r
    BY <1>1, <1>2, ChangeOne DEF IInv
  <1>4. /\ RowsStay
        /\ client[c].at = "idle" /\ client[c].current = NoSession
        /\ s \in sessions' \ sessions
    BY SessionsAssumption DEF IInv, Typed, RowsStay, SaveNew, Create, Idle
  <1>5. PlacedAt(client[c])'
    BY <1>2, <1>3, <1>4, SessionsAssumption DEF IInv, Placed, PlacedAt, RowsStay
  <1>6. SyncedAt(client[c])'
    BY <1>2, <1>3, <1>4 DEF IInv, Synced, SyncedAt, RowsStay
  <1>7. Held(r) \subseteq Held(client[c]) \cup (prompts + 1 .. prompts')
    BY <1>2 DEF Held
  <1>8. Apart => Apart'
    BY <1>2, <1>3, <1>4, <1>7, ApartStays
  <1>9. misled' = misled
    BY DEF SaveNew
  <1> QED BY <1>3, <1>4, <1>5, <1>6, <1>8, <1>9, MovesKeep

\* Only the place in the loop changes.
LEMMA SaveKeeps ==
    ASSUME IInv, NEW c \in Clients, Save(c)
    PROVE  IInv'
  <1> DEFINE r == [client[c] EXCEPT !.at = "storing"]
  <1>1. client' = [client EXCEPT ![c] = r]
    BY DEF Save
  <1>2. /\ r \in Process
        /\ r.at = "storing" /\ r.kind = client[c].kind
        /\ r.current = client[c].current /\ r.memory = client[c].memory
        /\ r.prompt = client[c].prompt /\ r.stale = client[c].stale
        /\ r.unsaved = client[c].unsaved
    <2>1. client[c] \in Process
      BY DEF IInv, Typed
    <2> QED BY <2>1 DEF Process
  <1> HIDE DEF r
  <1>3. Moves(c) /\ client'[c] = r
    BY <1>1, <1>2, ChangeOne DEF IInv
  <1>4. /\ RowsStay
        /\ client[c].at = "idle" /\ client[c].current # NoSession
    BY SessionsAssumption DEF IInv, Typed, RowsStay, Save, Idle
  <1>5. PlacedAt(client[c])'
    BY <1>2, <1>3, <1>4, SessionsAssumption DEF IInv, Placed, PlacedAt, RowsStay
  <1>6. SyncedAt(client[c])'
    BY <1>2, <1>3, <1>4 DEF IInv, Synced, SyncedAt, RowsStay
  <1>7. Held(r) \subseteq Held(client[c]) \cup (prompts + 1 .. prompts')
    BY <1>2 DEF Held
  <1>8. Apart => Apart'
    BY <1>2, <1>3, <1>4, <1>7, ApartStays
  <1>9. misled' = misled
    BY DEF Save
  <1> QED BY <1>3, <1>4, <1>5, <1>6, <1>8, <1>9, MovesKeep

\* The memory counts as unsaved from now on.
LEMMA SlashStoreFailsKeeps ==
    ASSUME IInv, NEW c \in Clients, SlashStoreFails(c)
    PROVE  IInv'
  <1> DEFINE r == [client[c] EXCEPT !.at = "idle", !.unsaved = TRUE]
  <1>1. client' = [client EXCEPT ![c] = r]
    BY DEF SlashStoreFails
  <1>2. /\ r \in Process
        /\ r.at = "idle" /\ r.kind = client[c].kind
        /\ r.current = client[c].current /\ r.memory = client[c].memory
        /\ r.prompt = client[c].prompt /\ r.stale = client[c].stale
        /\ r.unsaved
    <2>1. client[c] \in Process
      BY DEF IInv, Typed
    <2> QED BY <2>1 DEF Process
  <1> HIDE DEF r
  <1>3. Moves(c) /\ client'[c] = r
    BY <1>1, <1>2, ChangeOne DEF IInv
  <1>4. /\ RowsStay
        /\ client[c].at = "storing"
    BY SessionsAssumption DEF IInv, Typed, RowsStay, SlashStoreFails
  <1>5. PlacedAt(client[c])'
    BY <1>2, <1>3, <1>4, SessionsAssumption DEF IInv, Placed, PlacedAt, RowsStay
  <1>6. SyncedAt(client[c])'
    BY <1>2, <1>3, <1>4 DEF IInv, Synced, SyncedAt, RowsStay
  <1>7. Held(r) \subseteq Held(client[c]) \cup (prompts + 1 .. prompts')
    BY <1>2 DEF Held
  <1>8. Apart => Apart'
    BY <1>2, <1>3, <1>4, <1>7, ApartStays
  <1>9. misled' = misled
    BY DEF SlashStoreFails
  <1> QED BY <1>3, <1>4, <1>5, <1>6, <1>8, <1>9, MovesKeep

\* The client holds what its new session does.
LEMMA ResumeKeeps ==
    ASSUME IInv, NEW c \in Clients, NEW s \in SessionIds, Resume(c, s)
    PROVE  IInv'
  <1> DEFINE r == Loaded(client[c], s)
  <1>1. client' = [client EXCEPT ![c] = r]
    BY DEF Resume
  <1>2. /\ r \in Process
        /\ r.at = client[c].at /\ r.kind = client[c].kind
        /\ r.current = s /\ r.memory = rows[s]
        /\ r.prompt = client[c].prompt /\ ~r.stale
        /\ ~r.unsaved
    <2>1. client[c] \in Process
      BY DEF IInv, Typed
    <2> QED BY <2>1, LoadedRecord DEF Process, IInv
  <1> HIDE DEF r
  <1>3. Moves(c) /\ client'[c] = r
    BY <1>1, <1>2, ChangeOne DEF IInv
  <1>4. /\ RowsStay
        /\ s \in sessions' /\ client[c].at = "idle"
        /\ client[c].prompt = 0
    BY SessionsAssumption DEF IInv, Typed, RowsStay, Resume, Idle, Placed, PlacedAt
  <1>5. PlacedAt(client[c])'
    BY <1>2, <1>3, <1>4, SessionsAssumption DEF IInv, Placed, PlacedAt, RowsStay
  <1>6. SyncedAt(client[c])'
    BY <1>2, <1>3, <1>4 DEF IInv, Synced, SyncedAt, RowsStay
  <1>7. Held(r) \subseteq PromptsIn(rows[s]) \cup (prompts + 1 .. prompts')
    BY <1>2, <1>4 DEF Held
  <1>8. Apart => Apart'
    BY <1>2, <1>3, <1>4, <1>7, ApartLoads
  <1>9. misled' = misled
    BY DEF Resume
  <1> QED BY <1>3, <1>4, <1>5, <1>6, <1>8, <1>9, MovesKeep

\* The step that may mix conversations; misled records it.
LEMMA ResumeFailsKeeps ==
    ASSUME IInv, NEW c \in Clients, NEW s \in SessionIds, ResumeFails(c, s)
    PROVE  IInv'
  <1> DEFINE r == [client[c] EXCEPT !.current = s, !.stale = TRUE]
  <1>1. client' = [client EXCEPT ![c] = r]
    BY DEF ResumeFails
  <1>2. /\ r \in Process
        /\ r.at = client[c].at /\ r.kind = client[c].kind
        /\ r.current = s /\ r.memory = client[c].memory
        /\ r.prompt = client[c].prompt /\ r.stale
        /\ r.unsaved = client[c].unsaved
    <2>1. client[c] \in Process
      BY DEF IInv, Typed
    <2> QED BY <2>1 DEF Process
  <1> HIDE DEF r
  <1>3. Moves(c) /\ client'[c] = r
    BY <1>1, <1>2, ChangeOne DEF IInv
  <1>4. /\ RowsStay
        /\ s \in sessions' /\ client[c].at = "idle"
    BY SessionsAssumption DEF IInv, Typed, RowsStay, ResumeFails, Idle
  <1>5. PlacedAt(client[c])'
    BY <1>2, <1>3, <1>4, SessionsAssumption DEF IInv, Placed, PlacedAt, RowsStay
  <1>6. SyncedAt(client[c])'
    BY <1>2, <1>3, <1>4 DEF IInv, Synced, SyncedAt, RowsStay
  <1>7. misled' = TRUE \/ (misled' = misled /\ (Apart => Apart'))
    <2>1. misled' = TRUE
      BY DEF ResumeFails
    <2> QED BY <2>1
  <1> QED BY <1>3, <1>4, <1>5, <1>6, <1>7, MovesKeep

\* A client that ends holds nothing.
LEMMA LeaveKeeps ==
    ASSUME IInv, NEW c \in Clients, Leave(c)
    PROVE  IInv'
  <1> DEFINE r == Off
  <1>1. client' = [client EXCEPT ![c] = r]
    BY DEF Leave
  <1>2. /\ r \in Process
        /\ r.at = "off" /\ r.kind = "none"
        /\ r.current = NoSession /\ r.memory = <<>>
        /\ r.prompt = 0 /\ ~r.stale
        /\ ~r.unsaved
    BY OffIsProcess DEF Process
  <1> HIDE DEF r
  <1>3. Moves(c) /\ client'[c] = r
    BY <1>1, <1>2, ChangeOne DEF IInv
  <1>4. RowsStay
    BY SessionsAssumption DEF IInv, Typed, RowsStay, Leave
  <1>5. PlacedAt(client[c])'
    BY <1>2, <1>3, <1>4, SessionsAssumption DEF IInv, Placed, PlacedAt, RowsStay
  <1>6. SyncedAt(client[c])'
    BY <1>2, <1>3, <1>4 DEF IInv, Synced, SyncedAt, RowsStay
  <1>7. Held(r) = {}
    BY <1>2, PromptsOfNone DEF Held
  <1>8. Apart => Apart'
    BY <1>2, <1>3, <1>4, <1>7, ApartEmpty
  <1>9. misled' = misled
    BY DEF Leave
  <1> QED BY <1>3, <1>4, <1>5, <1>6, <1>8, <1>9, MovesKeep

\* The conversation kept and the prompt in hand were both held before.
LEMMA RunAnswersKeeps ==
    ASSUME IInv, NEW c \in Clients, RunAnswers(c)
    PROVE  IInv'
  <1> DEFINE turn == [prompt |-> client[c].prompt, answered |-> TRUE]
             at == IF client[c].current = NoSession THEN "idle" ELSE "saving"
  <1>1. PICK kept \in Trims(client[c].memory) :
            client' = [client EXCEPT ![c] =
                [@ EXCEPT !.memory = Append(kept, turn), !.prompt = 0, !.at = at,
                          !.unsaved = client[c].unsaved \/ kept # client[c].memory]]
    BY DEF RunAnswers
  <1> DEFINE unsaved == client[c].unsaved \/ kept # client[c].memory
             r == [client[c] EXCEPT !.memory = Append(kept, turn), !.prompt = 0, !.at = at,
                                    !.unsaved = unsaved]
  <1>2. client' = [client EXCEPT ![c] = r]
    BY <1>1
  <1>3. at \in {"idle", "saving"} /\ unsaved \in BOOLEAN
    OBVIOUS
  <1>4. turn \in Turn /\ client[c].memory \in Seq(Turn) /\ turn.prompt = client[c].prompt
    BY DEF IInv, Typed, Process, Turn
  <1> HIDE DEF turn, at, unsaved
  <1>5. kept \in Seq(Turn) /\ PromptsIn(kept) \subseteq PromptsIn(client[c].memory)
    BY <1>4, PromptsTrim
  <1>6. /\ Append(kept, turn) \in Seq(Turn)
        /\ PromptsIn(Append(kept, turn)) = PromptsIn(kept) \cup ({client[c].prompt} \ {0})
        /\ 0 \in 0 .. MaxPrompts
    BY <1>4, <1>5, PromptsAppend, SessionsAssumption
  <1>7. /\ r \in Process
        /\ r.at = at /\ r.kind = client[c].kind /\ r.current = client[c].current
        /\ r.memory = Append(kept, turn) /\ r.prompt = 0
        /\ r.stale = client[c].stale /\ r.unsaved = unsaved
    <2>1. client[c] \in Process
      BY DEF IInv, Typed
    <2> QED BY <1>3, <1>6, <2>1 DEF Process
  <1> HIDE DEF r
  <1>8. Moves(c) /\ client'[c] = r
    BY <1>2, <1>7, ChangeOne DEF IInv
  <1>9. RowsStay /\ client[c].at = "running" /\ misled' = misled
    BY SessionsAssumption DEF IInv, Typed, RowsStay, RunAnswers
  <1>10. PlacedAt(client[c])'
    BY <1>7, <1>8, <1>9 DEF IInv, Placed, PlacedAt, RowsStay, at
  <1>11. SyncedAt(client[c])'
    BY <1>6, <1>7, <1>8, <1>9 DEF IInv, Synced, SyncedAt, RowsStay, at, unsaved
  <1>12. Held(r) \subseteq Held(client[c]) \cup (prompts + 1 .. prompts')
    BY <1>5, <1>6, <1>7 DEF Held
  <1>13. Apart => Apart'
    BY <1>7, <1>8, <1>9, <1>12, ApartStays
  <1> QED BY <1>8, <1>9, <1>10, <1>11, <1>13, MovesKeep

\* Without a session nothing is held; with one, what it has.
LEMMA ReplStartsKeeps ==
    ASSUME IInv, NEW c \in Clients, ReplStarts(c)
    PROVE  IInv'
  <1>1. RowsStay /\ misled' = misled
    BY SessionsAssumption DEF IInv, Typed, RowsStay, ReplStarts
  <1>2. CASE client' = [client EXCEPT ![c] = Repl]
    <2>1. /\ Moves(c)
          /\ client'[c].at = "idle" /\ client'[c].kind = "repl" /\ client'[c].current = NoSession
          /\ client'[c].memory = <<>> /\ client'[c].prompt = 0
      BY <1>2, OffIsProcess DEF IInv, Typed, Process, Moves, Repl, Off
    <2>2. PlacedAt(client[c])' /\ SyncedAt(client[c])'
      BY <2>1 DEF PlacedAt, SyncedAt
    <2>3. Held(client'[c]) = {}
      BY <2>1, PromptsOfNone DEF Held
    <2>4. Apart => Apart'
      BY <1>1, <2>1, <2>3, ApartEmpty
    <2> QED BY <1>1, <2>1, <2>2, <2>4, MovesKeep
  <1>3. ASSUME NEW s \in sessions, client' = [client EXCEPT ![c] = Loaded(Repl, s)]
        PROVE  IInv'
    <2>1. s \in SessionIds /\ s # NoSession
      BY SessionsAssumption DEF IInv, Typed
    <2>2. /\ Loaded(Repl, s) \in Process
          /\ Loaded(Repl, s).at = "idle" /\ Loaded(Repl, s).kind = "repl"
          /\ Loaded(Repl, s).current = s /\ Loaded(Repl, s).memory = rows[s]
          /\ Loaded(Repl, s).prompt = 0
      BY <2>1, OffIsProcess, LoadedRecord DEF IInv
    <2>3. Moves(c) /\ client'[c] = Loaded(Repl, s)
      BY <1>3, <2>2 DEF IInv, Typed, Moves
    <2>4. PlacedAt(client[c])' /\ SyncedAt(client[c])'
      BY <1>1, <2>1, <2>2, <2>3 DEF PlacedAt, SyncedAt, RowsStay
    <2>5. Held(client'[c]) \subseteq PromptsIn(rows[s]) \cup (prompts + 1 .. prompts')
      BY <2>2, <2>3 DEF Held
    <2>6. Apart => Apart'
      BY <1>1, <2>1, <2>2, <2>3, <2>5, ApartLoads
    <2> QED BY <1>1, <2>3, <2>4, <2>6, MovesKeep
  <1> QED BY <1>2, <1>3 DEF ReplStarts

\* What the client holds shrinks to a summary.
LEMMA CompactKeeps ==
    ASSUME IInv, NEW c \in Clients, Compact(c)
    PROVE  IInv'
  <1> DEFINE at == IF client[c].current = NoSession THEN "idle" ELSE "storing"
             r == [client[c] EXCEPT !.memory = <<Digest>>, !.unsaved = TRUE, !.at = at]
  <1>1. client' = [client EXCEPT ![c] = r] /\ at \in {"idle", "storing"}
    BY DEF Compact
  <1> HIDE DEF at
  <1>2. /\ r \in Process
        /\ r.at = at /\ r.kind = client[c].kind /\ r.current = client[c].current
        /\ r.memory = <<Digest>> /\ r.prompt = client[c].prompt /\ r.unsaved
    <2>1. client[c] \in Process
      BY DEF IInv, Typed
    <2> QED BY <1>1, <2>1, PromptsOfNone DEF Process
  <1> HIDE DEF r
  <1>3. Moves(c) /\ client'[c] = r
    BY <1>1, <1>2, ChangeOne DEF IInv
  <1>4. RowsStay /\ client[c].at = "idle" /\ misled' = misled
    BY SessionsAssumption DEF IInv, Typed, RowsStay, Compact, Idle
  <1>5. PlacedAt(client[c])'
    BY <1>2, <1>3, <1>4 DEF IInv, Placed, PlacedAt, RowsStay, at
  <1>6. SyncedAt(client[c])'
    BY <1>2, <1>3 DEF SyncedAt
  <1>7. Held(r) \subseteq Held(client[c]) \cup (prompts + 1 .. prompts')
    BY <1>2, PromptsOfNone DEF Held
  <1>8. Apart => Apart'
    BY <1>2, <1>3, <1>4, <1>7, ApartStays
  <1> QED BY <1>3, <1>4, <1>5, <1>6, <1>8, MovesKeep

\* The locals of a client that has stored its conversation and goes on.
LEMMA SavedRecord ==
    ASSUME NEW r \in Process
    PROVE  /\ Saved(r) \in Process
           /\ Saved(r).at = "idle" /\ Saved(r).kind = r.kind /\ Saved(r).current = r.current
           /\ Saved(r).memory = r.memory /\ Saved(r).prompt = r.prompt
  BY DEF Process, Saved

\* Where both replacements start from.
LEMMA StoringClient ==
    ASSUME IInv, NEW c \in Clients, client[c].at \in {"saving", "storing"}
    PROVE  /\ client[c] \in Process /\ client[c].current \in SessionIds
           /\ client[c].current # NoSession /\ client[c].prompt = 0
           /\ client[c].current \in sessions
  BY DEF IInv, Typed, Process, Placed, PlacedAt

\* Replacing the rows by the memory of a client that goes on keeps the invariant.
LEMMA SavedKeeps ==
    ASSUME IInv, NEW c \in Clients, client[c].at \in {"saving", "storing"},
           client[c].kind # "ask" \/ client[c].at = "storing",
           Replace(c, Saved(client[c])), UNCHANGED <<prompts, misled>>
    PROVE  IInv'
  <1> DEFINE record == Saved(client[c])
  <1>1. /\ client[c] \in Process /\ client[c].current \in SessionIds
        /\ client[c].current # NoSession /\ client[c].prompt = 0
        /\ client[c].current \in sessions
    BY StoringClient
  <1>2. /\ record \in Process
        /\ record.at = "idle" /\ record.kind = client[c].kind
        /\ record.current = client[c].current
        /\ record.memory = client[c].memory /\ record.prompt = client[c].prompt
    BY <1>1, SavedRecord
  <1> HIDE DEF record
  <1>3. PlacedAt(record)
    BY <1>1, <1>2 DEF PlacedAt
  <1>4. Held(record) \subseteq Held(client[c])
    BY <1>2 DEF Held
  <1> QED BY <1>1, <1>2, <1>3, <1>4, ReplaceKeeps DEF record

\* An ask ends, or the REPL goes on with what it stored.
LEMMA StoreKeeps ==
    ASSUME IInv, NEW c \in Clients, Store(c)
    PROVE  IInv'
  <1>1. CASE client[c].kind = "ask"
    <2>1. Replace(c, Off) /\ client[c].at = "saving" /\ UNCHANGED <<prompts, misled>>
      BY <1>1 DEF Store
    <2>2. PlacedAt(Off) /\ Held(Off) = {} /\ Off.current = NoSession
      BY PromptsOfNone DEF PlacedAt, Held, Off
    <2> QED BY <2>1, <2>2, OffIsProcess, StoringClient, ReplaceKeeps
  <1>2. CASE client[c].kind # "ask"
    BY <1>2, SavedKeeps DEF Store
  <1> QED BY <1>1, <1>2

\* The REPL goes on with what it stored.
LEMMA SlashStoresKeeps ==
    ASSUME IInv, NEW c \in Clients, SlashStores(c)
    PROVE  IInv'
  BY SavedKeeps DEF SlashStores

----------------------------------------------------------------------------
(* The invariant                                                           *)

\* The invariant holds in the stored conversation the clients start from.
LEMMA InitInvariant ==
    ASSUME Init
    PROVE  IInv
  <1> DEFINE old == [i \in 1 .. Before |-> [prompt |-> i, answered |-> TRUE]]
  <1>1. PICK s \in SessionIds :
            /\ sessions = {s}
            /\ rows = [t \in SessionIds |-> IF t # s THEN <<>> ELSE old]
    BY DEF Init
  <1>2. prompts = Before /\ client = [c \in Clients |-> Off] /\ misled = FALSE
    BY DEF Init
  <1>3. Before \in Nat /\ MaxPrompts \in Nat /\ Before <= MaxPrompts
    BY SessionsAssumption
  <1>4. old \in Seq(Turn) /\ Len(old) = Before
    <2>1. \A i \in 1 .. Before : [prompt |-> i, answered |-> TRUE] \in Turn
      BY <1>3 DEF Turn
    <2> QED BY <1>3, <2>1
  <1>5. \A i \in 1 .. Before : old[i].prompt = i
    OBVIOUS
  <1> HIDE DEF old
  <1>6. PromptsIn(old) \subseteq 1 .. Before
    BY <1>3, <1>4, <1>5, PromptsInSeq
  <1>7. /\ Off.at = "off" /\ Off.kind = "none" /\ Off.current = NoSession
        /\ Off.memory = <<>> /\ Off.prompt = 0
    BY DEF Off
  <1>8. Typed
    <2>1. rows \in [SessionIds -> Seq(Turn)]
      BY <1>1, <1>4, PromptsOfNone
    <2>2. client \in [Clients -> Process]
      BY <1>2, OffIsProcess
    <2>3. sessions \subseteq SessionIds
      BY <1>1
    <2>4. prompts \in 0 .. MaxPrompts
      BY <1>2, <1>3
    <2>5. misled \in BOOLEAN
      BY <1>2
    <2> QED BY <2>1, <2>2, <2>3, <2>4, <2>5 DEF Typed
  <1>9. Placed
    BY <1>2, <1>7 DEF Placed, PlacedAt
  <1>10. Fresh
    BY <1>1 DEF Fresh
  <1>11. Synced
    BY <1>2, <1>7 DEF Synced, SyncedAt
  <1>12. Apart
    <2>1. \A c \in Clients : Held(client[c]) = {}
      BY <1>2, <1>7, PromptsOfNone DEF Held
    <2>2. \A t \in SessionIds : PromptsIn(rows[t]) = IF t # s THEN {} ELSE PromptsIn(old)
      BY <1>1, PromptsOfNone
    <2> QED BY <1>2, <1>6, <2>1, <2>2 DEF Apart
  <1> QED BY <1>8, <1>9, <1>10, <1>11, <1>12 DEF IInv

\* And every step keeps it.
LEMMA NextInvariant ==
    ASSUME IInv, [Next]_vars
    PROVE  IInv'
  <1>1. CASE Next
    <2> SUFFICES ASSUME NEW c \in Clients,
                        \/ AskFails(c) \/ RunAnswers(c) \/ Store(c)
                        \/ ReplStarts(c) \/ ReplPrompts(c) \/ ReplFails(c) \/ ReplReports(c)
                        \/ Clear(c) \/ Save(c) \/ Compact(c)
                        \/ SlashStores(c) \/ SlashStoreFails(c) \/ Leave(c)
                        \/ \E s \in SessionIds :
                               \/ AskNew(c, s) \/ AskLoads(c, s)
                               \/ New(c, s) \/ SaveNew(c, s) \/ Resume(c, s) \/ ResumeFails(c, s)
                 PROVE  IInv'
      BY <1>1 DEF Next
    <2> QED
      BY AskFailsKeeps, RunAnswersKeeps, StoreKeeps, ReplStartsKeeps, ReplPromptsKeeps,
         ReplFailsKeeps, ReplReportsKeeps, ClearKeeps, SaveKeeps, CompactKeeps,
         SlashStoresKeeps, SlashStoreFailsKeeps, LeaveKeeps, AskNewKeeps, AskLoadsKeeps,
         NewKeeps, SaveNewKeeps, ResumeKeeps, ResumeFailsKeeps
  <1>2. CASE UNCHANGED vars
    BY <1>2 DEF vars, IInv, Typed, Placed, PlacedAt, Fresh, Synced, SyncedAt, Apart, Away
  <1> QED BY <1>1, <1>2

\* The inductive invariant of Sessions.
THEOREM Invariance == Spec => []IInv
  <1>1. Init => IInv
    BY InitInvariant
  <1>2. IInv /\ [Next]_vars => IInv'
    BY NextInvariant
  <1> QED BY <1>1, <1>2, PTL DEF Spec

\* The tables and the locals of the clients keep their types, and whoever is about
\* to store has a session that exists.
THEOREM TypeCorrect == Spec => []TypeOK
  <1>1. IInv => TypeOK
    <2> SUFFICES ASSUME IInv PROVE TypeOK
      OBVIOUS
    <2>1. \A c \in Clients :
              client[c].at \in {"saving", "storing"} => client[c].current \in sessions
      BY StoringClient
    <2> QED BY <2>1 DEF IInv, Typed, TypeOK
  <1> QED BY <1>1, Invariance, PTL

\* OneHome: a prompt is stored in one session, but for a /resume that failed halfway.
THEOREM PromptsStayHome == Spec => []OneHome
  <1>1. IInv => OneHome
    BY DEF IInv, Apart, OneHome
  <1> QED BY <1>1, Invariance, PTL

\* InStep: the memory of an idle REPL is its session, unless another client has
\* stored there or its user or a failed store made them differ.
THEOREM MemoryInStep == Spec => []InStep
  <1>1. IInv => InStep
    BY DEF IInv, Synced, SyncedAt, InStep, Idle
  <1> QED BY <1>1, Invariance, PTL

\* Only a client that is about to store changes rows, and those of its session.
LEMMA RowsChange ==
    ASSUME IInv, [Next]_vars, rows' # rows
    PROVE  \E c \in Clients :
               /\ client[c].at \in {"saving", "storing"}
               /\ client[c].current \in SessionIds
               /\ client'[c].at # client[c].at
               /\ rows'[client[c].current] = client[c].memory
               /\ \A t \in SessionIds \ {client[c].current} : rows'[t] = rows[t]
  <1>1. PICK c \in Clients : Store(c) \/ SlashStores(c)
    <2>1. ASSUME NEW c \in Clients,
                 \/ AskFails(c) \/ RunAnswers(c) \/ ReplStarts(c) \/ ReplPrompts(c)
                 \/ ReplFails(c) \/ ReplReports(c) \/ Clear(c) \/ Save(c) \/ Compact(c)
                 \/ SlashStoreFails(c) \/ Leave(c)
          PROVE  rows' = rows
      BY <2>1 DEF AskFails, RunAnswers, ReplStarts, ReplPrompts, ReplFails, ReplReports,
         Clear, Save, Compact, SlashStoreFails, Leave
    <2>2. ASSUME NEW c \in Clients, NEW s \in SessionIds,
                 \/ AskNew(c, s) \/ AskLoads(c, s) \/ New(c, s) \/ SaveNew(c, s)
                 \/ Resume(c, s) \/ ResumeFails(c, s)
          PROVE  rows' = rows
      BY <2>2 DEF AskNew, AskLoads, New, SaveNew, Resume, ResumeFails, Create
    <2> QED BY <2>1, <2>2 DEF Next, vars
  <1>2. client[c].at \in {"saving", "storing"}
    BY <1>1 DEF Store, SlashStores
  <1>3. client[c] \in Process /\ client[c].current \in SessionIds
    BY <1>2, StoringClient
  <1>4. PICK record \in {Off, Saved(client[c])} : Replace(c, record)
    BY <1>1 DEF Store, SlashStores
  <1>5. record \in Process /\ record.at \in {"off", "idle"}
    <2>1. Off \in Process /\ Off.at = "off"
      BY OffIsProcess DEF Off
    <2>2. Saved(client[c]) \in Process /\ Saved(client[c]).at = "idle"
      BY <1>3, SavedRecord
    <2> QED BY <1>4, <2>1, <2>2
  <1> QED BY <1>2, <1>3, <1>4, <1>5, ReplaceStep DEF IInv

\* NothingLost: a prompt disappears from a stored conversation only if another
\* client stored there meanwhile, or its user, a trim or a failure cut it.
THEOREM NothingIsLost == Spec => NothingLost
  <1>1. ASSUME IInv, [Next]_vars, NEW s \in SessionIds, Loses(s)
        PROVE  \E c \in Clients :
                   /\ client[c].current = s
                   /\ client'[c].at # client[c].at
                   /\ client[c].stale \/ client[c].unsaved
    <2>1. rows' # rows
      BY <1>1 DEF Loses
    <2>2. PICK c \in Clients :
              /\ client[c].at \in {"saving", "storing"}
              /\ client[c].current \in SessionIds
              /\ client'[c].at # client[c].at
              /\ rows'[client[c].current] = client[c].memory
              /\ \A t \in SessionIds \ {client[c].current} : rows'[t] = rows[t]
      BY <1>1, <2>1, RowsChange
    <2>3. client[c].current = s
      BY <1>1, <2>2 DEF Loses
    <2>4. CASE ~client[c].stale /\ ~client[c].unsaved
      <3>1. PromptsIn(rows[s]) \subseteq PromptsIn(client[c].memory)
        BY <1>1, <2>2, <2>3, <2>4, SessionsAssumption DEF IInv, Synced, SyncedAt
      <3> QED BY <1>1, <2>2, <2>3, <3>1 DEF Loses
    <2> QED BY <2>2, <2>3, <2>4
  <1>2. IInv /\ [Next]_vars =>
            [\A s \in SessionIds : Loses(s) =>
                \E c \in Clients :
                    /\ client[c].current = s
                    /\ client'[c].at # client[c].at
                    /\ client[c].stale \/ client[c].unsaved]_vars
    BY <1>1
  <1> QED BY <1>2, Invariance, PTL DEF Spec, NothingLost

----------------------------------------------------------------------------
(* TraceStore: types.                                                      *)

\* What may be stored of a text and of a thought with the settings of the run.
Storable == SUBSET Asked
StorableThoughts == SUBSET AskedThoughts

Parts    == {"single", "direct_answer", "planner", "worker", "reviewer"}
RunModes == {"single", "direct", "routed team", "team", "team_orchestrator"}
Speakers == {"system", "user", "assistant", "tool"}
Sources  == {"input_context", "assistant_response", "tool_result"}
EventTypes == {"route_decision", "workflow_started", "stage_changed", "assistant_response",
               "tool_outcome", "auto_write"}
ExampleTypes == {"sft_conversation", "team_final"}

\* Only the results of tools hold what stands under a key of a structure.
Said == {m \in [id : Nat, role : Speakers, text : Texts, thought : SUBSET Written, ok : BOOLEAN] :
            "keyed" \in m.text => m.role = "tool"}
Trained ==
    [id : Nat, role : Speakers, text : SUBSET (Left \cup {"keyed"}), thought : SUBSET Left, ok : BOOLEAN]

RunRow   == {r \in [mode : RunModes, status : {"running", "completed"}, prompt : Texts,
                    answer : Texts, note : Texts] : RunAsks(r)}
PhaseRow == [run : Runs, role : Parts, attempt : Nat, status : {"running", "completed"}]
EventRow == {e \in [run : Runs, phase : PhaseIds \cup {NoPhase}, type : EventTypes,
                    detail : Texts, thought : Texts, note : Texts] : EventAsks(e)}
MessageRow  == {r \in [id : Nat, role : Speakers, source : Sources, text : Texts, thought : Texts] :
                   MessageAsks(r)}
ArtifactRow == [phase : PhaseIds, path : Files]
ExampleRow  == {e \in [run : Runs, phase : PhaseIds \cup {NoPhase}, type : ExampleTypes,
                       input : Seq(Trained), output : Trained] : ExampleAsks(e)}

Statement ==
    [table : {"runs"}, id : Runs, mode : RunModes, prompt : Storable, note : SUBSET Left]
    \cup [table : {"run done"}, id : Runs, answer : Storable, note : Storable]
    \cup [table : {"phases"}, id : PhaseIds, role : Parts, attempt : Nat]
    \cup [table : {"phase done"}, id : PhaseIds]
    \cup [table : {"events"}, row : EventRow]
    \cup [table : {"messages"}, phase : PhaseIds, row : MessageRow]
    \cup [table : {"artifacts"}, row : ArtifactRow]
    \cup [table : {"examples"}, row : ExampleRow]

Stages == {"starting", "turn", "asking", "closing", "executing", "finalizing", "completing",
           "completed", "returning"}
Working ==
    [at : Stages, run : Runs, phase : PhaseIds, mode : Modes, role : Parts,
     attempt : 1 .. MaxAttempts, completes : BOOLEAN, step : Nat, calls : Nat,
     memory : Seq(Said), todo : Seq(Statement)]

\* The phase a role has in an attempt of the team.
Place(role, attempt) ==
    IF role = "worker" THEN 2 * attempt - 1 ELSE IF role = "reviewer" THEN 2 * attempt ELSE 0

WorkTyped(w) ==
    \/ w \in [at : {"idle"}, run : 0 .. MaxRuns]
    \/ /\ w \in Working
       /\ w.phase = <<w.run, Place(w.role, w.attempt)>>
       /\ \A i \in DOMAIN w.memory : w.memory[i].id = i
       /\ w.at = "starting" => w.memory = Conversation

TablesOK ==
    /\ DOMAIN runs \subseteq Runs /\ \A r \in DOMAIN runs : runs[r] \in RunRow
    /\ DOMAIN phases \subseteq PhaseIds
    /\ \A p \in DOMAIN phases : phases[p] \in PhaseRow /\ phases[p].run = p[1] /\ p[1] \in DOMAIN runs
    /\ events \subseteq EventRow
    /\ messages \in [PhaseIds -> Seq(MessageRow)]
    /\ examples \in Seq(ExampleRow)
    /\ \A e \in exported : \E i \in DOMAIN examples : e = examples[i]
    /\ capture = "off" => DOMAIN phases = {}

----------------------------------------------------------------------------
(* TraceStore: what is still to be written.                                *)

\* The tables a stage of the run writes to.
May(at) ==
    CASE at = "starting"                   -> {"runs", "events"}
      [] at = "turn"                       -> {"runs", "phases", "events", "messages"}
      [] at \in {"asking", "closing"}      -> {"events"}
      [] at \in {"executing", "finalizing"} -> {"events", "messages"}
      [] at = "completing"                 -> {"events", "artifacts"}
      [] at = "completed"                  -> {"phase done", "run done", "examples"}
      [] at = "returning"                  -> {"run done", "examples"}

\* A statement is about the run and the phase it is written from.
Concerns(w, s) ==
    /\ s.table \in {"runs", "run done"} => s.id = w.run
    /\ s.table \in {"phases", "phase done"} => s.id = w.phase
    /\ s.table = "messages" => s.phase = w.phase
    /\ s.table = "artifacts" => s.row.phase = w.phase
    /\ s.table \in {"events", "examples"} => s.row.run = w.run /\ s.row.phase \in {w.phase, NoPhase}
    /\ s.table = "examples" /\ s.row.type = "sft_conversation" => s.row.phase = w.phase

Queued(w) ==
    /\ \A i \in DOMAIN w.todo : w.todo[i].table \in May(w.at) /\ Concerns(w, w.todo[i])
    /\ capture = "off" => w.todo = <<>>

\* Before the i-th statement the run, or the phase, is there.
RunBefore(w, i)   == w.run \in DOMAIN runs \/ \E j \in DOMAIN w.todo : j < i /\ w.todo[j].table = "runs"
PhaseBefore(w, i) ==
    w.phase \in DOMAIN phases \/ \E j \in DOMAIN w.todo : j < i /\ w.todo[j].table = "phases"

Founded(w) ==
    /\ \A i \in DOMAIN w.todo :
          LET s == w.todo[i]
          IN  /\ s.table \in {"phases", "events", "examples"} => RunBefore(w, i)
              /\ s.table \in {"messages", "artifacts"} => PhaseBefore(w, i)
              /\ s.table \in {"events", "examples"} /\ s.row.phase # NoPhase => PhaseBefore(w, i)
    /\ capture # "off" /\ w.at # "starting" =>
          RunBefore(w, Len(w.todo) + 1) /\ PhaseBefore(w, Len(w.todo) + 1)

----------------------------------------------------------------------------
(* TraceStore: what the tables hold.                                       *)

Ended(w) == w.at \in {"completed", "returning"}

\* Phases are completed one after the other, and the run after its last one.
Closing(w) ==
    /\ \A p \in DOMAIN phases : p[1] = w.run =>
          p[2] <= w.phase[2] /\ (p # w.phase => phases[p].status = "completed")
    /\ ~Ended(w) /\ w.phase \in DOMAIN phases => phases[w.phase].status = "running"
    /\ ~Ended(w) \/ (w.at = "completed" /\ ~w.completes) =>
          /\ \A i \in DOMAIN w.todo : w.todo[i].table # "run done"
          /\ w.run \in DOMAIN runs => runs[w.run].status = "running"
    /\ w.at = "completed" /\ capture # "off" =>
          \/ phases[w.phase].status = "completed"
          \/ w.todo # <<>> /\ w.todo[1].table = "phase done"
    /\ w.at = "returning" /\ capture # "off" => phases[w.phase].status = "completed"

\* The statements still to come that store a message from a source.
Coming(w, source) ==
    {i \in DOMAIN w.todo : w.todo[i].table = "messages" /\ w.todo[i].row.source = source}
ComingIds(w, source) == {w.todo[i].row.id : i \in Coming(w, source)}

\* The results of the phase under way are stored or still to come, in order.
Telling(w, carried) ==
    /\ \A id \in carried[w.phase] : id <= Len(w.memory)
    /\ capture # "off" =>
          /\ carried[w.phase] = Told(w.phase, "tool_result") \cup ComingIds(w, "tool_result")
          /\ \A i, j \in Coming(w, "tool_result") : i < j => w.todo[i].row.id < w.todo[j].row.id
          /\ \A id \in Told(w.phase, "tool_result"), next \in ComingIds(w, "tool_result") : id < next

\* Its answers likewise; the last message, if it is an answer, is the last of them.
Answering(w) == capture # "off" =>
    LET answers == Told(w.phase, "assistant_response") \cup ComingIds(w, "assistant_response")
    IN  /\ \A id \in answers : id <= Len(w.memory)
        /\ /\ w.at \in {"finalizing", "completing"} /\ w.memory # <<>>
           /\ Last(w.memory).role = "assistant"
           => Len(w.memory) \in answers
        /\ \A i \in DOMAIN w.todo :
              w.todo[i].table = "examples" /\ w.todo[i].row.type = "sft_conversation" =>
                  LET id == w.todo[i].row.output.id
                  IN  id \in answers /\ \A other \in answers : other <= id

InOrder(p) ==
    \A i, j \in RowsFrom(p, "tool_result") : i < j => messages[p][i].id < messages[p][j].id

\* A phase nothing has been done in.
Untouched(w, p) ==
    \/ p[1] > w.run
    \/ w.at # "idle" /\ p[1] = w.run /\ p[2] > w.phase[2]
    \/ w.at = "starting" /\ p = w.phase

\* What holds of the phases other than the one under way.
Past(w, carried) ==
    /\ carried \in [PhaseIds -> SUBSET Nat]
    /\ \A r \in DOMAIN runs : r <= w.run
    /\ \A p \in PhaseIds : InOrder(p)
    /\ \A p \in PhaseIds : Untouched(w, p) => messages[p] = <<>> /\ carried[p] = {}
    /\ \A p \in DOMAIN phases : w.at = "idle" \/ p # w.phase => IsTold(p)
    /\ CompletedIsWhole
    /\ \A i \in DOMAIN examples : examples[i].type = "sft_conversation" => IsAnswer(examples[i])

Underway(w, carried) ==
    w.at # "idle" => Queued(w) /\ Founded(w) /\ Closing(w) /\ Telling(w, carried) /\ Answering(w)

TraceInv == TablesOK /\ WorkTyped(work) /\ Past(work, ran) /\ Underway(work, ran)

----------------------------------------------------------------------------
(* TraceStore: statements.                                                 *)

\* What redaction and the settings leave of a text may be stored.
LEMMA Allowed ==
    ASSUME NEW text \in SUBSET Written
    PROVE  /\ Captured(text) \in Storable /\ RedactPayload(Captured(text)) \in Storable
           /\ RedactText(text) \in SUBSET Left /\ {} \in SUBSET Left
           /\ CapturedThinking(text) \in StorableThoughts
           /\ RedactText(CapturedThinking(text)) \in StorableThoughts
           /\ (IF full THEN CapturedThinking(text) ELSE {}) \in SUBSET Written
  <1>1. /\ Captured(text) \in Storable /\ RedactPayload(Captured(text)) \in Storable
        /\ RedactText(text) \in SUBSET Left /\ {} \in SUBSET Left
    BY DEF Written, Captured, RedactText, RedactPayload, Storable, Asked, Left
  <1>2. CASE text = {} \/ thinking = "off"
    <2>1. CapturedThinking(text) = {}
      <3>1. CASE thinking = "raw"
        <4>1. text = {} /\ RedactText(text) = {}
          BY <1>2, <3>1 DEF RedactText
        <4> QED BY <3>1, <4>1 DEF CapturedThinking
      <3>2. CASE thinking # "raw"
        BY <1>2, <3>2 DEF CapturedThinking
      <3> QED BY <3>1, <3>2
    <2> QED BY <1>1, <2>1 DEF StorableThoughts, RedactText
  <1>3. CASE text # {} /\ thinking = "raw"
    <2>1. CapturedThinking(text) = RedactText(text) /\ AskedThoughts = Left
      BY <1>3 DEF CapturedThinking, AskedThoughts
    <2> QED BY <1>1, <2>1 DEF StorableThoughts, RedactText, Left, Written
  <1>4. CASE text # {} /\ thinking # "raw" /\ thinking # "off"
    <2>1. CapturedThinking(text) = {"words"} /\ AskedThoughts \in {{"words"}, Left}
      BY <1>4 DEF CapturedThinking, AskedThoughts
    <2> QED BY <1>1, <2>1 DEF StorableThoughts, RedactText, Left, Written
  <1> QED BY <1>2, <1>3, <1>4

\* What the settings let be stored is text without what redaction takes out.
LEMMA AskedIs ==
    /\ Asked \subseteq Left /\ AskedThoughts \subseteq Left /\ Left \in Texts
    /\ Storable \subseteq Texts /\ StorableThoughts \subseteq Texts
    /\ SUBSET Written \subseteq Texts /\ Written \in SUBSET Written /\ {} \in SUBSET Written
    /\ {"words"} \in SUBSET Written /\ Returned \in Texts
  BY DEF Asked, AskedThoughts, Left, Texts, Storable, StorableThoughts, Written, Returned

\* What a statement holds, by its table.
LEMMA StatementFields ==
    ASSUME NEW s \in Statement
    PROVE  /\ s.table \in {"runs", "run done", "phases", "phase done", "events", "messages",
                           "artifacts", "examples"}
           /\ s.table = "runs" => /\ s.id \in Runs /\ s.mode \in RunModes
                                 /\ s.prompt \in Storable /\ s.note \in SUBSET Left
           /\ s.table = "run done" => s.id \in Runs /\ s.answer \in Storable /\ s.note \in Storable
           /\ s.table = "phases" => s.id \in PhaseIds /\ s.role \in Parts /\ s.attempt \in Nat
           /\ s.table = "phase done" => s.id \in PhaseIds
           /\ s.table = "events" => s.row \in EventRow
           /\ s.table = "messages" => s.phase \in PhaseIds /\ s.row \in MessageRow
           /\ s.table = "artifacts" => s.row \in ArtifactRow
           /\ s.table = "examples" => s.row \in ExampleRow
  BY DEF Statement

\* create_run and complete_run.
LEMMA RunStatements ==
    ASSUME NEW run \in Runs, NEW mode \in RunModes, NEW text \in SUBSET Written, NEW note \in SUBSET Written
    PROVE  /\ CreateRun(run, mode, text, note) \in Statement
           /\ CompleteRun(run, text, note) \in Statement
  <1>1. Captured(text) \in Storable
    BY Allowed
  <1>2. RedactText(note) \in SUBSET Left /\ Captured(note) \in Storable
    BY Allowed
  <1> QED BY <1>1, <1>2 DEF Statement, CreateRun, CompleteRun

\* What a run under way is made of.
LEMMA WorkingFields ==
    ASSUME NEW w \in Working
    PROVE  /\ w.at \in Stages /\ w.run \in Runs /\ w.phase \in PhaseIds /\ w.mode \in RunModes
           /\ w.mode \in Modes /\ w.role \in Parts /\ w.attempt \in 1 .. MaxAttempts
           /\ w.attempt \in Nat /\ w.completes \in BOOLEAN /\ w.step \in Nat /\ w.calls \in Nat
           /\ w.memory \in Seq(Said) /\ w.todo \in Seq(Statement)
  <1>1. /\ w.at \in Stages /\ w.run \in Runs /\ w.phase \in PhaseIds
        /\ w.mode \in Modes /\ w.role \in Parts /\ w.attempt \in 1 .. MaxAttempts
        /\ w.completes \in BOOLEAN /\ w.step \in Nat /\ w.calls \in Nat
        /\ w.memory \in Seq(Said) /\ w.todo \in Seq(Statement)
    BY DEF Working
  <1>2. w.mode \in RunModes
    BY <1>1, TraceStoreAssumption DEF RunModes
  <1>3. \A n \in 1 .. MaxAttempts : n \in Nat
    OBVIOUS
  <1>4. w.attempt \in Nat
    BY <1>1, <1>3
  <1> QED BY <1>1, <1>2, <1>4

\* create_phase and complete_phase.
LEMMA PhaseStatements ==
    ASSUME NEW w \in Working
    PROVE  CreatePhase(w) \in Statement /\ CompletePhaseRow(w) \in Statement
  <1>1. w.phase \in PhaseIds /\ w.role \in Parts /\ w.attempt \in Nat
    BY WorkingFields
  <1> QED BY <1>1 DEF Statement, CreatePhase, CompletePhaseRow

\* record_event.
LEMMA EventStatement ==
    ASSUME NEW run \in Runs, NEW phase \in PhaseIds \cup {NoPhase}, NEW type \in EventTypes,
           NEW detail, RedactPayload(detail) \in Storable,
           NEW thought, (full /\ RedactText(thought) \in StorableThoughts) \/ thought = {},
           NEW note \in SUBSET Written
    PROVE  Event(run, phase, type, detail, thought, note) \in Statement
  <1>1. RedactText(note) \in SUBSET Left
    BY Allowed
  <1>2. RedactText(thought) \in SUBSET IF full THEN AskedThoughts ELSE {}
    BY DEF StorableThoughts, RedactText
  <1>3. /\ RedactPayload(detail) \in Texts /\ RedactText(thought) \in Texts /\ RedactText(note) \in Texts
        /\ RedactPayload(detail) \in SUBSET Asked
    BY <1>1, <1>2, AskedIs DEF Storable, Texts
  <1> PICK row : row = [run |-> run, phase |-> phase, type |-> type, detail |-> RedactPayload(detail),
                        thought |-> RedactText(thought), note |-> RedactText(note)]
    OBVIOUS
  <1>4. EventAsks(row)
    BY <1>1, <1>2, <1>3 DEF EventAsks
  <1>5. row \in EventRow
    BY <1>3, <1>4 DEF EventRow
  <1> QED BY <1>5 DEF Statement, Event

\* An event of no text.
LEMMA PlainEvent ==
    ASSUME NEW run \in Runs, NEW phase \in PhaseIds \cup {NoPhase}, NEW type \in EventTypes,
           NEW note \in SUBSET Written
    PROVE  Event(run, phase, type, {}, {}, note) \in Statement
  <1>1. RedactPayload({}) \in Storable
    BY DEF RedactPayload, RedactText, Storable
  <1> QED BY <1>1, EventStatement

\* record_message of what is kept of a message, from the conversation with its
\* secrets under keys.
LEMMA MessageStatement ==
    ASSUME NEW phase \in PhaseIds, NEW source \in Sources, NEW m \in Said,
           source = "input_context" \/ "keyed" \notin m.text
    PROVE  Row(phase, source, m) \in Statement
  <1>1. m.text \in Texts /\ m.thought \in SUBSET Written /\ m.id \in Nat /\ m.role \in Speakers
    BY DEF Said
  <1>2. CapturedThinking(m.thought) \in StorableThoughts
    BY <1>1, Allowed
  <1>3. CapturedThinking(m.thought) \in Texts
    BY <1>2, AskedIs
  <1>4. /\ Captured(m.text) \in Texts
        /\ Captured(m.text) \subseteq
              Asked \cup IF full /\ source = "input_context" THEN {"keyed"} ELSE {}
    BY <1>1 DEF Captured, RedactText, Asked, Left, Texts
  <1> PICK row : row = [id |-> m.id, role |-> m.role, source |-> source,
                        text |-> Captured(m.text), thought |-> CapturedThinking(m.thought)]
    OBVIOUS
  <1>5. MessageAsks(row)
    BY <1>2, <1>4 DEF MessageAsks, StorableThoughts
  <1>6. row \in MessageRow
    BY <1>1, <1>3, <1>4, <1>5 DEF MessageRow
  <1> QED BY <1>6 DEF Statement, Row

\* The messages of an example and what it wants for an output are as asked.
ExampleFits(type, input, output) ==
    LET thoughts == IF type = "team_final" THEN Left ELSE AskedThoughts
    IN  /\ full /\ input \in Seq(Trained) /\ output \in Trained
        /\ \A i \in DOMAIN input : input[i].thought \subseteq thoughts
        /\ output.text \subseteq Left /\ output.thought \subseteq thoughts

\* record_dataset_example, which is called with full capture only.
LEMMA ExampleStatement ==
    ASSUME NEW run \in Runs, NEW phase \in PhaseIds \cup {NoPhase}, NEW type \in ExampleTypes,
           NEW input, NEW output, ExampleFits(type, input, output)
    PROVE  Example(run, phase, type, input, output) \in Statement
  <1>1. /\ full /\ input \in Seq(Trained) /\ output \in Trained
        /\ \A i \in DOMAIN input :
              input[i].thought \subseteq IF type = "team_final" THEN Left ELSE AskedThoughts
        /\ output.text \subseteq Left
        /\ output.thought \subseteq IF type = "team_final" THEN Left ELSE AskedThoughts
    BY DEF ExampleFits
  <1>2. \A i \in DOMAIN input : input[i].text \subseteq Left \cup {"keyed"}
    <2>1. \A i \in DOMAIN input : input[i] \in Trained
      BY <1>1
    <2> QED BY <2>1 DEF Trained
  <1> PICK row : row = [run |-> run, phase |-> phase, type |-> type, input |-> input, output |-> output]
    OBVIOUS
  <1>3. ExampleAsks(row)
    BY <1>1, <1>2 DEF ExampleAsks
  <1>4. row \in ExampleRow
    BY <1>1, <1>3 DEF ExampleRow
  <1> QED BY <1>4 DEF Statement, Example

\* record_artifact.
LEMMA ArtifactStatement ==
    ASSUME NEW phase \in PhaseIds, NEW path \in Files
    PROVE  Artifact(phase, path) \in Statement
  BY DEF Statement, Artifact, ArtifactRow

\* The payload of a message in an example, and its place in the conversation.
LEMMA TrainingIs ==
    ASSUME full, NEW m \in Said
    PROVE  /\ Training(m) \in Trained /\ Training(m).id = m.id
           /\ Training(m).thought \subseteq AskedThoughts
           /\ m.role # "tool" => Training(m).text \subseteq Left
  <1>1. /\ m.id \in Nat /\ m.role \in Speakers /\ m.text \in Texts /\ m.thought \in SUBSET Written
        /\ m.ok \in BOOLEAN /\ ("keyed" \in m.text => m.role = "tool")
    BY DEF Said
  <1>2. /\ RedactText(m.text) \subseteq Left \cup {"keyed"}
        /\ m.role # "tool" => RedactText(m.text) \subseteq Left
    BY <1>1 DEF RedactText, Texts, Left
  <1>3. CapturedThinking(m.thought) \subseteq AskedThoughts
    BY <1>1, Allowed DEF StorableThoughts
  <1>4. CapturedThinking(m.thought) \subseteq Left
    BY <1>3, AskedIs
  <1>5. Training(m) = [id |-> m.id, role |-> m.role, text |-> RedactText(m.text),
                       thought |-> CapturedThinking(m.thought), ok |-> m.ok]
    <2>1. m \in [id : Nat, role : Speakers, text : Texts, thought : SUBSET Written, ok : BOOLEAN]
      BY DEF Said
    <2>2. PICK text, thought : text = RedactText(m.text) /\ thought = CapturedThinking(m.thought)
      OBVIOUS
    <2>3. Training(m) = [m EXCEPT !.text = text, !.thought = thought]
      BY <2>2 DEF Training
    <2> QED BY <2>1, <2>2, <2>3
  <1> QED BY <1>1, <1>2, <1>3, <1>4, <1>5 DEF Trained

\* A message as it is sent, redacted.
LEMMA RedactedIs ==
    ASSUME NEW m \in Said
    PROVE  /\ Redacted(m) \in Trained
           /\ m.role # "tool" => Redacted(m).text \subseteq Left
  <1>1. /\ m.id \in Nat /\ m.role \in Speakers /\ m.text \in Texts /\ m.thought \in SUBSET Written
        /\ m.ok \in BOOLEAN /\ ("keyed" \in m.text => m.role = "tool")
    BY DEF Said
  <1>2. /\ RedactText(m.text) \subseteq Left \cup {"keyed"} /\ RedactText(m.thought) \subseteq Left
        /\ m.role # "tool" => RedactText(m.text) \subseteq Left
    BY <1>1 DEF RedactText, Texts, Left, Written
  <1>3. Redacted(m) = [id |-> m.id, role |-> m.role, text |-> RedactText(m.text),
                       thought |-> RedactText(m.thought), ok |-> m.ok]
    <2>1. m \in [id : Nat, role : Speakers, text : Texts, thought : SUBSET Written, ok : BOOLEAN]
      BY DEF Said
    <2>2. PICK text, thought : text = RedactText(m.text) /\ thought = RedactText(m.thought)
      OBVIOUS
    <2>3. Redacted(m) = [m EXCEPT !.text = text, !.thought = thought]
      BY <2>2 DEF Redacted
    <2> QED BY <2>1, <2>2, <2>3
  <1> QED BY <1>1, <1>2, <1>3 DEF Trained

\* A message somebody writes is typed.
LEMMA MessageIsSaid ==
    ASSUME NEW id \in Nat, NEW role \in Speakers, NEW text \in SUBSET Written, NEW thought \in SUBSET Written
    PROVE  /\ Message(id, role, text, thought) \in Said
           /\ Message(id, role, text, thought).id = id
           /\ Message(id, role, text, thought).role = role
           /\ Message(id, role, text, thought).text = text
  <1>1. text \in Texts /\ "keyed" \notin text
    BY DEF Written, Texts
  <1> QED BY <1>1 DEF Message, Said

\* So is the result of a tool.
LEMMA ResultIsSaid ==
    ASSUME NEW id \in Nat, NEW ok \in BOOLEAN
    PROVE  Result(id, ok) \in Said /\ Result(id, ok).id = id /\ Result(id, ok).role = "tool"
  <1>1. Result(id, ok) = [id |-> id, role |-> "tool", text |-> Returned, thought |-> {}, ok |-> ok]
    BY DEF Result, Message
  <1>2. Returned \in Texts /\ {} \in SUBSET Written
    BY AskedIs
  <1> QED BY <1>1, <1>2 DEF Said, Speakers

\* The conversation a phase begins with: what came before, and the prompt.
LEMMA ConversationIs ==
    \E a, b, c \in Said :
        /\ Conversation = <<a, b, c>> /\ a.id = 1 /\ b.id = 2 /\ c.id = 3
        /\ c.role = "user" /\ c.text = Written
  <1>1. Written \in SUBSET Written /\ {} \in SUBSET Written
    BY AskedIs
  <1>2. PICK a \in Said : a = Message(1, "assistant", Written, Written) /\ a.id = 1
    <2>1. 1 \in Nat /\ "assistant" \in Speakers
      BY DEF Speakers
    <2>2. /\ Message(1, "assistant", Written, Written) \in Said
          /\ Message(1, "assistant", Written, Written).id = 1
      BY <1>1, <2>1, MessageIsSaid
    <2> QED BY <2>2
  <1>3. PICK b \in Said : b = Result(2, TRUE) /\ b.id = 2
    <2>1. Result(2, TRUE) \in Said /\ Result(2, TRUE).id = 2
      BY ResultIsSaid
    <2> QED BY <2>1
  <1>4. PICK c \in Said :
            c = Message(3, "user", Written, {}) /\ c.id = 3 /\ c.role = "user" /\ c.text = Written
    <2>1. 3 \in Nat /\ "user" \in Speakers
      BY DEF Speakers
    <2>2. /\ Message(3, "user", Written, {}) \in Said
          /\ Message(3, "user", Written, {}).id = 3 /\ Message(3, "user", Written, {}).role = "user"
          /\ Message(3, "user", Written, {}).text = Written
      BY <1>1, <2>1, MessageIsSaid
    <2> QED BY <2>2
  <1>5. Conversation = <<a, b, c>>
    BY <1>2, <1>3, <1>4 DEF Conversation
  <1> QED BY <1>2, <1>3, <1>4, <1>5

\* The places of its messages.
LEMMA ConversationPlaces ==
    /\ Conversation \in Seq(Said) /\ Len(Conversation) = 3
    /\ \A i \in DOMAIN Conversation : Conversation[i].id = i
  <1>1. PICK a, b, c \in Said :
            Conversation = <<a, b, c>> /\ a.id = 1 /\ b.id = 2 /\ c.id = 3
    BY ConversationIs
  <1> QED BY <1>1

----------------------------------------------------------------------------
(* TraceStore: what the hooks write.                                       *)

\* Short sequences written one after the other.
LEMMA Joined ==
    ASSUME NEW a, NEW b, NEW c
    PROVE  /\ <<a>> \o <<>> = <<a>> /\ <<a, b>> \o <<>> = <<a, b>>
           /\ <<a>> \o <<b>> = <<a, b>>
           /\ <<a, b>> \o <<c>> = <<a, b, c>>
  <1> PICK S : S = {a, b, c}
    OBVIOUS
  <1>1. /\ <<a>> \in Seq(S) /\ <<b>> \in Seq(S) /\ <<a, b>> \in Seq(S)
        /\ <<c>> \in Seq(S) /\ <<a, b, c>> \in Seq(S) /\ Len(<<a, b, c>>) = 3
    OBVIOUS
  <1>2. <<a, b>> \o <<c>> = <<a, b, c>>
    <2> DEFINE s == <<a, b>> \o <<c>>
    <2>1. s \in Seq(S) /\ Len(s) = 3 /\ s[1] = a /\ s[2] = b /\ s[3] = c
      BY <1>1, ConcatProperties
    <2> HIDE DEF s
    <2>2. \A i \in 1 .. Len(s) : s[i] = <<a, b, c>>[i]
      BY <2>1
    <2>3. s = <<a, b, c>>
      BY <1>1, <2>1, <2>2, SeqEqual
    <2> QED BY <2>3 DEF s
  <1>3. <<a>> \o <<b>> = <<a, b>>
    <2> DEFINE s == <<a>> \o <<b>>
    <2>1. s \in Seq(S) /\ Len(s) = 2 /\ s[1] = a /\ s[2] = b
      BY <1>1, ConcatProperties
    <2> HIDE DEF s
    <2>2. \A i \in 1 .. Len(s) : s[i] = <<a, b>>[i]
      BY <2>1
    <2>3. s = <<a, b>>
      BY <1>1, <2>1, <2>2, SeqEqual
    <2> QED BY <2>3 DEF s
  <1>4. <<a>> \o <<>> = <<a>> /\ <<a, b>> \o <<>> = <<a, b>>
    BY <1>1, ConcatEmptySeq
  <1> QED BY <1>2, <1>3, <1>4

\* The statements a run opens with: nothing comes before its row.
OpensRun(run, list) ==
    /\ \A i \in DOMAIN list :
          /\ list[i].table \in {"runs", "events"}
          /\ list[i].table = "runs" => list[i].id = run
          /\ list[i].table = "events" =>
                i > 1 /\ list[i].row.run = run /\ list[i].row.phase = NoPhase
    /\ list # <<>> => list[1].table = "runs"

\* create_routed_run, and create_run of the team.
LEMMA OpeningIs ==
    ASSUME NEW run \in Runs, NEW mode \in Modes
    PROVE  Opening(run, mode) \in Seq(Statement) /\ OpensRun(run, Opening(run, mode))
  <1> DEFINE a == CreateRun(run, mode, Written, Written)
             b == Event(run, NoPhase, "route_decision", {}, {}, Written)
             d == CreateRun(run, "team_orchestrator", Written, {})
  <1>1. a \in Statement /\ b \in Statement /\ d \in Statement
    <2>1. mode \in RunModes /\ "team_orchestrator" \in RunModes
      BY TraceStoreAssumption DEF RunModes
    <2>2. Written \in SUBSET Written /\ {} \in SUBSET Written
      BY AskedIs
    <2>3. a \in Statement
      BY <2>1, <2>2, RunStatements
    <2>4. d \in Statement
      BY <2>1, <2>2, RunStatements
    <2>5. b \in Statement
      BY <2>2, PlainEvent DEF EventTypes
    <2> QED BY <2>3, <2>4, <2>5
  <1>2. /\ a.table = "runs" /\ a.id = run /\ d.table = "runs" /\ d.id = run
        /\ b.table = "events" /\ b.row.run = run /\ b.row.phase = NoPhase
    BY DEF CreateRun, Event
  <1>3. Opening(run, mode) \in {<<>>, <<a, b>>, <<d>>, <<a, b>> \o <<d>>}
    BY TraceStoreAssumption DEF Opening
  <1> HIDE DEF a, b, d
  <1>4. <<a, b>> \o <<d>> = <<a, b, d>>
    BY Joined
  <1>5. PICK list : list = Opening(run, mode)
    OBVIOUS
  <1> SUFFICES list \in Seq(Statement) /\ OpensRun(run, list)
    BY <1>5
  <1>6. CASE list = <<>>
    BY <1>6 DEF OpensRun
  <1>7. CASE list = <<d>>
    BY <1>1, <1>2, <1>7 DEF OpensRun
  <1>8. CASE list = <<a, b>>
    BY <1>1, <1>2, <1>8 DEF OpensRun
  <1>9. CASE list = <<a, b, d>>
    BY <1>1, <1>2, <1>9 DEF OpensRun
  <1> QED BY <1>3, <1>4, <1>5, <1>6, <1>7, <1>8, <1>9

\* on_workflow_started, with the messages the conversation starts with.
LEMMA OnStartedIs ==
    ASSUME NEW w \in Working, w.memory = Conversation
    PROVE  LET list == OnStarted(w)
           IN  /\ list \in Seq(Statement)
               /\ \A i \in DOMAIN list :
                     /\ list[i].table \in {"runs", "phases", "events", "messages"}
                     /\ Concerns(w, list[i])
                     /\ list[i].table # "runs" => i > 1
                     /\ list[i].table \in {"events", "messages"} => i > 2
                     /\ list[i].table = "messages" => list[i].row.source = "input_context"
               /\ Len(list) = 6 /\ list[1].table = "runs" /\ list[2].table = "phases"
  <1>w. w.run \in Runs /\ w.phase \in PhaseIds /\ w.mode \in RunModes
    BY WorkingFields
  <1>1. PICK m1, m2, m3 \in Said : Conversation = <<m1, m2, m3>> /\ m3.text = Written
    BY ConversationIs
  <1> DEFINE a == CreateRun(w.run, w.mode, m3.text, RunNote(w))
             b == CreatePhase(w)
             d == Event(w.run, w.phase, "workflow_started", {}, {}, {})
             e == Row(w.phase, "input_context", m1)
             f == Row(w.phase, "input_context", m2)
             g == Row(w.phase, "input_context", m3)
  <1>2. /\ a \in Statement /\ b \in Statement /\ d \in Statement
        /\ e \in Statement /\ f \in Statement /\ g \in Statement
    <2>1. Written \in SUBSET Written /\ {} \in SUBSET Written /\ RunNote(w) \in SUBSET Written
      BY AskedIs DEF RunNote
    <2>2. a \in Statement
      BY <1>w, <1>1, <2>1, RunStatements
    <2>3. b \in Statement
      BY PhaseStatements
    <2>4. d \in Statement
      BY <1>w, <2>1, PlainEvent DEF EventTypes
    <2>5. e \in Statement
      BY <1>w, <1>1, MessageStatement DEF Sources
    <2>6. f \in Statement
      BY <1>w, <1>1, MessageStatement DEF Sources
    <2>7. g \in Statement
      BY <1>w, <1>1, MessageStatement DEF Sources
    <2> QED BY <2>2, <2>3, <2>4, <2>5, <2>6, <2>7
  <1>3. OnStarted(w) = <<a, b, d>> \o <<e, f, g>>
    <2>1. w.memory = <<m1, m2, m3>> /\ Last(w.memory) = m3
      BY <1>1 DEF Last
    <2>2. ForEach(w.memory, LAMBDA m : Row(w.phase, "input_context", m)) = <<e, f, g>>
      BY <2>1 DEF ForEach
    <2> QED BY <2>1, <2>2 DEF OnStarted
  <1>4. /\ a.table = "runs" /\ b.table = "phases" /\ d.table = "events"
        /\ e.table = "messages" /\ f.table = "messages" /\ g.table = "messages"
        /\ e.row.source = "input_context" /\ f.row.source = "input_context"
        /\ g.row.source = "input_context"
        /\ Concerns(w, a) /\ Concerns(w, b) /\ Concerns(w, d)
        /\ Concerns(w, e) /\ Concerns(w, f) /\ Concerns(w, g)
    BY DEF CreateRun, CreatePhase, Event, Row, Concerns
  <1> HIDE DEF a, b, d, e, f, g
  <1>5. <<a, b, d>> \o <<e, f, g>> = <<a, b, d, e, f, g>>
    <2> PICK S : S = {a, b, d, e, f, g}
      OBVIOUS
    <2> DEFINE s == <<a, b, d>> \o <<e, f, g>>
    <2>1. /\ <<a, b, d>> \in Seq(S) /\ <<e, f, g>> \in Seq(S) /\ <<a, b, d, e, f, g>> \in Seq(S)
          /\ Len(<<a, b, d, e, f, g>>) = 6
      OBVIOUS
    <2>2. /\ s \in Seq(S) /\ Len(s) = 6
          /\ s[1] = a /\ s[2] = b /\ s[3] = d /\ s[4] = e /\ s[5] = f /\ s[6] = g
      BY <2>1, ConcatProperties
    <2> HIDE DEF s
    <2>3. \A i \in 1 .. Len(s) : s[i] = <<a, b, d, e, f, g>>[i]
      BY <2>2
    <2>4. s = <<a, b, d, e, f, g>>
      BY <2>1, <2>2, <2>3, SeqEqual
    <2> QED BY <2>4 DEF s
  <1> QED BY <1>2, <1>3, <1>4, <1>5

\* on_stage_changed.
LEMMA OnStageIs ==
    ASSUME NEW w \in Working
    PROVE  \E s \in Statement :
               OnStage(w) = <<s>> /\ s.table = "events" /\ Concerns(w, s)
  <1> DEFINE s == Event(w.run, w.phase, "stage_changed", {}, {}, {})
  <1>1. w.run \in Runs /\ w.phase \in PhaseIds /\ {} \in SUBSET Written
    BY WorkingFields, AskedIs
  <1>2. s \in Statement
    BY <1>1, PlainEvent DEF EventTypes
  <1>3. OnStage(w) = <<s>> /\ s.table = "events" /\ Concerns(w, s)
    BY DEF OnStage, Event, Concerns
  <1> QED BY <1>2, <1>3

\* on_assistant_response, and the change of stage after it.
LEMMA OnAssistantIs ==
    ASSUME NEW w \in Working, NEW m \in Said, m.role = "assistant"
    PROVE  \E a, b, d \in Statement :
               /\ OnAssistant(w, m) \o OnStage(w) = <<a, b, d>>
               /\ a.table = "events" /\ b.table = "messages" /\ d.table = "events"
               /\ Concerns(w, a) /\ Concerns(w, b) /\ Concerns(w, d)
               /\ b.row.source = "assistant_response" /\ b.row.id = m.id
  <1>w. w.run \in Runs /\ w.phase \in PhaseIds
    BY WorkingFields
  <1>m. m.text \in SUBSET Written /\ m.thought \in SUBSET Written /\ "keyed" \notin m.text
    BY DEF Said, Texts, Written
  <1> DEFINE thought == IF full THEN CapturedThinking(m.thought) ELSE {}
             a == Event(w.run, w.phase, "assistant_response", Captured(m.text), thought, {})
             b == Row(w.phase, "assistant_response", m)
  <1>1. PICK d \in Statement : OnStage(w) = <<d>> /\ d.table = "events" /\ Concerns(w, d)
    BY OnStageIs
  <1>2. a \in Statement /\ b \in Statement
    <2>1. RedactPayload(Captured(m.text)) \in Storable /\ {} \in SUBSET Written
      BY <1>m, Allowed, AskedIs
    <2>2. (full /\ RedactText(thought) \in StorableThoughts) \/ thought = {}
      BY <1>m, Allowed
    <2> HIDE DEF thought
    <2>3. a \in Statement
      BY <1>w, <2>1, <2>2, EventStatement DEF EventTypes
    <2>4. b \in Statement
      BY <1>w, <1>m, MessageStatement DEF Sources
    <2> QED BY <2>3, <2>4
  <1>3. /\ a.table = "events" /\ b.table = "messages" /\ Concerns(w, a) /\ Concerns(w, b)
        /\ b.row.source = "assistant_response" /\ b.row.id = m.id
    BY DEF Event, Row, Concerns
  <1>4. OnAssistant(w, m) = <<a, b>>
    BY DEF OnAssistant
  <1> HIDE DEF a, b
  <1>5. <<a, b>> \o <<d>> = <<a, b, d>>
    BY Joined
  <1> QED BY <1>1, <1>2, <1>3, <1>4, <1>5

\* The statements of the results of tools: the rows in the order of the results,
\* each after its event.
TellsOf(w, results, list) ==
    /\ \A i \in DOMAIN list :
          /\ list[i].table \in {"events", "messages"} /\ Concerns(w, list[i])
          /\ list[i].table = "messages" =>
                /\ list[i].row.source = "tool_result"
                /\ \E k \in DOMAIN results : i = 2 * k /\ list[i].row.id = results[k].id
    /\ \A k \in DOMAIN results :
          /\ 2 * k \in DOMAIN list /\ list[2 * k].table = "messages"
          /\ list[2 * k].row.id = results[k].id

\* on_tool_outcome of each result.
LEMMA OnToolsIs ==
    ASSUME NEW w \in Working, NEW results \in Seq(Said)
    PROVE  OnTools(w, results) \in Seq(Statement) /\ TellsOf(w, results, OnTools(w, results))
  <1> PICK list : list = OnTools(w, results)
    OBVIOUS
  <1> PICK n \in Nat : n = Len(results)
    OBVIOUS
  <1>1. list = [i \in 1 .. 2 * n |->
                   IF i % 2 = 1 THEN Outcome(w, results[(i + 1) \div 2])
                                ELSE ResultRow(w, results[i \div 2])]
    BY DEF OnTools
  <1>2. ASSUME NEW k \in 1 .. n
        PROVE  /\ Outcome(w, results[k]) \in Statement /\ Concerns(w, Outcome(w, results[k]))
               /\ Outcome(w, results[k]).table = "events"
               /\ ResultRow(w, results[k]) \in Statement /\ Concerns(w, ResultRow(w, results[k]))
               /\ ResultRow(w, results[k]).table = "messages"
               /\ ResultRow(w, results[k]).row.source = "tool_result"
               /\ ResultRow(w, results[k]).row.id = results[k].id
    <2>1. PICK m \in Said : m = results[k]
      OBVIOUS
    <2>2. /\ m.text \in Texts /\ m.thought \in SUBSET Written /\ m.id \in Nat /\ m.role \in Speakers
          /\ m.ok \in BOOLEAN /\ w.run \in Runs /\ w.phase \in PhaseIds
      BY WorkingFields DEF Said
    <2>3. /\ RedactPayload(IF full THEN RedactPayload(m.text) ELSE {}) \in Storable
          /\ Error(m) \in SUBSET Written /\ RedactPayload(m.text) \in SUBSET Written
      BY <2>2 DEF RedactPayload, RedactText, Texts, Storable, Asked, Left, Written, Error
    <2>4. Outcome(w, m) \in Statement
      <3>1. PICK detail : detail = IF full THEN RedactPayload(m.text) ELSE {}
        OBVIOUS
      <3>2. Event(w.run, w.phase, "tool_outcome", detail, {}, Error(m)) \in Statement
        BY <2>2, <2>3, <3>1, EventStatement DEF EventTypes
      <3> QED BY <3>1, <3>2 DEF Outcome
    <2>5. ResultRow(w, m) \in Statement
      <3>1. PICK r : r = [m EXCEPT !.text = RedactPayload(@)]
        OBVIOUS
      <3>2. r = [id |-> m.id, role |-> m.role, text |-> RedactPayload(m.text), thought |-> m.thought, ok |-> m.ok]
        BY <3>1 DEF Said
      <3>3. r \in Said /\ "keyed" \notin r.text
        BY <2>2, <2>3, <3>2 DEF Said, Texts, Written
      <3>4. Row(w.phase, "tool_result", r) \in Statement
        BY <2>2, <3>3, MessageStatement DEF Sources
      <3> QED BY <3>1, <3>4 DEF ResultRow
    <2>6. /\ Outcome(w, m).table = "events" /\ Concerns(w, Outcome(w, m))
          /\ ResultRow(w, m).table = "messages" /\ Concerns(w, ResultRow(w, m))
          /\ ResultRow(w, m).row.source = "tool_result" /\ ResultRow(w, m).row.id = m.id
      BY DEF Outcome, ResultRow, Event, Row, Concerns, Said
    <2> QED BY <2>1, <2>4, <2>5, <2>6
  <1>3. ASSUME NEW i \in 1 .. 2 * n, i % 2 = 1
        PROVE  \E k \in 1 .. n : i = 2 * k - 1 /\ list[i] = Outcome(w, results[k])
    <2>1. (i + 1) \div 2 \in 1 .. n /\ i = 2 * ((i + 1) \div 2) - 1
      BY <1>3
    <2>2. list[i] = Outcome(w, results[(i + 1) \div 2])
      BY <1>1, <1>3
    <2> QED BY <2>1, <2>2
  <1>4. ASSUME NEW i \in 1 .. 2 * n, i % 2 # 1
        PROVE  \E k \in 1 .. n : i = 2 * k /\ list[i] = ResultRow(w, results[k])
    <2>1. i \div 2 \in 1 .. n /\ i = 2 * (i \div 2)
      BY <1>4
    <2>2. list[i] = ResultRow(w, results[i \div 2])
      BY <1>1, <1>4
    <2> QED BY <2>1, <2>2
  <1>5. DOMAIN list = 1 .. 2 * n /\ DOMAIN results = 1 .. n
    BY <1>1
  <1>6. ASSUME NEW i \in DOMAIN list
        PROVE  /\ list[i] \in Statement /\ list[i].table \in {"events", "messages"}
               /\ Concerns(w, list[i])
               /\ list[i].table = "messages" =>
                     /\ list[i].row.source = "tool_result"
                     /\ \E k \in DOMAIN results : i = 2 * k /\ list[i].row.id = results[k].id
    <2>1. CASE i % 2 = 1
      <3>1. PICK k \in 1 .. n : list[i] = Outcome(w, results[k])
        BY <1>3, <1>5, <2>1
      <3> QED BY <1>2, <3>1
    <2>2. CASE i % 2 # 1
      <3>1. PICK k \in 1 .. n : i = 2 * k /\ list[i] = ResultRow(w, results[k])
        BY <1>4, <1>5, <2>2
      <3> QED BY <1>2, <1>5, <3>1
    <2> QED BY <2>1, <2>2
  <1>7. ASSUME NEW k \in 1 .. n
        PROVE  2 * k \in DOMAIN list /\ list[2 * k] = ResultRow(w, results[k])
    <2>1. 2 * k \in 1 .. 2 * n /\ (2 * k) % 2 # 1 /\ (2 * k) \div 2 = k
      OBVIOUS
    <2> QED BY <1>1, <2>1
  <1>8. list \in Seq(Statement) /\ Len(list) = 2 * n
    <2>1. list = [i \in 1 .. 2 * n |-> list[i]] /\ \A i \in 1 .. 2 * n : list[i] \in Statement
      BY <1>1, <1>5, <1>6
    <2>2. 2 * n \in Nat
      OBVIOUS
    <2> QED BY <1>5, <2>1, <2>2
  <1>9. TellsOf(w, results, list)
    BY <1>2, <1>5, <1>6, <1>7 DEF TellsOf
  <1> QED BY <1>8, <1>9

\* on_auto_write of one file, or of none.
LEMMA OnAutoWriteIs ==
    ASSUME NEW w \in Working, NEW paths, paths = <<>> \/ \E f \in Files : paths = <<f>>
    PROVE  LET list == OnAutoWrite(w, paths)
           IN  /\ list \in Seq(Statement)
               /\ \A i \in DOMAIN list :
                     list[i].table \in {"events", "artifacts"} /\ Concerns(w, list[i])
  <1> DEFINE a == Event(w.run, w.phase, "auto_write", {}, {}, {})
  <1>1. a \in Statement /\ a.table = "events" /\ Concerns(w, a)
    <2>1. w.run \in Runs /\ w.phase \in PhaseIds /\ {} \in SUBSET Written
      BY WorkingFields, AskedIs
    <2>2. a \in Statement
      BY <2>1, PlainEvent DEF EventTypes
    <2> QED BY <2>2 DEF Event, Concerns
  <1>2. CASE paths = <<>>
    <2>1. ForEach(paths, LAMBDA p : Artifact(w.phase, p)) = <<>>
      BY <1>2 DEF ForEach
    <2>2. OnAutoWrite(w, paths) = <<a>>
      BY <2>1, Joined DEF OnAutoWrite
    <2> HIDE DEF a
    <2> QED BY <1>1, <2>2
  <1>3. ASSUME NEW f \in Files, paths = <<f>>
        PROVE  LET list == OnAutoWrite(w, paths)
               IN  /\ list \in Seq(Statement)
                   /\ \A i \in DOMAIN list :
                         list[i].table \in {"events", "artifacts"} /\ Concerns(w, list[i])
    <2> DEFINE b == Artifact(w.phase, f)
    <2>1. ForEach(paths, LAMBDA p : Artifact(w.phase, p)) = <<b>>
      BY <1>3 DEF ForEach
    <2>2. OnAutoWrite(w, paths) = <<a, b>>
      BY <2>1, Joined DEF OnAutoWrite
    <2>3. b \in Statement /\ b.table = "artifacts" /\ Concerns(w, b)
      <3>1. b \in Statement
        BY WorkingFields, ArtifactStatement
      <3> QED BY <3>1 DEF Artifact, Concerns
    <2> HIDE DEF a, b
    <2> QED BY <1>1, <2>2, <2>3
  <1> QED BY <1>2, <1>3

\* _record_dataset_example: the example is of the last message, an answer.
LEMMA SftExampleIs ==
    ASSUME NEW w \in Working, SftExample(w) # <<>>
    PROVE  \E s \in Statement :
               /\ SftExample(w) = <<s>> /\ s.table = "examples" /\ Concerns(w, s)
               /\ w.memory # <<>> /\ Last(w.memory).role = "assistant"
               /\ s.row.output.id = Last(w.memory).id
  <1>1. full /\ w.memory # <<>> /\ Last(w.memory).role = "assistant"
    BY DEF SftExample
  <1>2. w.memory \in Seq(Said)
    BY WorkingFields
  <1>3. Last(w.memory) \in Said
    BY <1>1, <1>2 DEF Last
  <1>4. Front(w.memory) \in Seq(Said)
    BY <1>1, <1>2 DEF Front
  <1> DEFINE input == ForEach(Front(w.memory), Training)
             s == Example(w.run, w.phase, "sft_conversation", input, Training(Last(w.memory)))
  <1>5. input \in Seq(Trained) /\ \A i \in DOMAIN input : input[i].thought \subseteq AskedThoughts
    <2> PICK front \in Seq(Said) : front = Front(w.memory)
      BY <1>4
    <2>1. input = [i \in DOMAIN front |-> Training(front[i])]
      BY DEF ForEach
    <2>2. \A i \in 1 .. Len(front) :
              Training(front[i]) \in Trained /\ Training(front[i]).thought \subseteq AskedThoughts
      BY <1>1, TrainingIs
    <2> HIDE DEF input
    <2> QED BY <2>1, <2>2
  <1>6. /\ Training(Last(w.memory)) \in Trained /\ Training(Last(w.memory)).id = Last(w.memory).id
        /\ Training(Last(w.memory)).thought \subseteq AskedThoughts
        /\ Training(Last(w.memory)).text \subseteq Left
    BY <1>1, <1>3, TrainingIs
  <1>7. s \in Statement
    <2> HIDE DEF input
    <2>1. ExampleFits("sft_conversation", input, Training(Last(w.memory)))
      BY <1>1, <1>5, <1>6 DEF ExampleFits
    <2>2. w.run \in Runs /\ w.phase \in PhaseIds
      BY WorkingFields
    <2> QED BY <2>1, <2>2, ExampleStatement DEF ExampleTypes
  <1>8. s.table = "examples" /\ Concerns(w, s) /\ s.row.output.id = Last(w.memory).id
    BY <1>6 DEF Example, Concerns
  <1>9. SftExample(w) = <<s>>
    BY <1>1 DEF SftExample
  <1> QED BY <1>1, <1>7, <1>8, <1>9

\* The statements that end a phase: the phase is completed first, the run if it is
\* its own, and an example is of the last message, an answer.
EndsPhase(w, list) ==
    /\ list # <<>> /\ list[1].table = "phase done"
    /\ \A i \in DOMAIN list :
          /\ list[i].table \in {"phase done", "run done", "examples"}
          /\ Concerns(w, list[i])
          /\ list[i].table = "run done" => w.completes
          /\ list[i].table = "examples" =>
                /\ w.memory # <<>> /\ Last(w.memory).role = "assistant"
                /\ list[i].row.output.id = Last(w.memory).id

\* The statements that end the run of a team.
EndsRun(w, list) ==
    \A i \in DOMAIN list :
        /\ list[i].table \in {"run done", "examples"} /\ Concerns(w, list[i])
        /\ list[i].table = "examples" =>
              list[i].row.phase = NoPhase /\ list[i].row.type = "team_final"

\* on_workflow_completed.
LEMMA OnCompletedIs ==
    ASSUME NEW w \in Working
    PROVE  OnCompleted(w) \in Seq(Statement) /\ EndsPhase(w, OnCompleted(w))
  <1> PICK list : list = OnCompleted(w)
    OBVIOUS
  <1>1. PICK a \in Statement :
            a = CompletePhaseRow(w) /\ a.table = "phase done" /\ Concerns(w, a)
    <2>1. CompletePhaseRow(w) \in Statement
      BY PhaseStatements
    <2> QED BY <2>1 DEF CompletePhaseRow, Concerns
  <1>2. PICK b \in Statement :
            b = CompleteRun(w.run, Written, {}) /\ b.table = "run done" /\ Concerns(w, b)
    <2>1. CompleteRun(w.run, Written, {}) \in Statement
      BY WorkingFields, RunStatements, AskedIs
    <2> QED BY <2>1 DEF CompleteRun, Concerns
  <1>3. list = (<<a>> \o IF w.completes THEN <<b>> ELSE <<>>) \o SftExample(w)
    BY <1>1, <1>2 DEF OnCompleted
  <1> DEFINE Fits(x) == /\ x.table \in {"phase done", "run done", "examples"}
                        /\ Concerns(w, x)
                        /\ x.table = "run done" => w.completes
                        /\ x.table = "examples" =>
                              /\ w.memory # <<>> /\ Last(w.memory).role = "assistant"
                              /\ x.row.output.id = Last(w.memory).id
  <1>4. Fits(a) /\ (w.completes => Fits(b))
    BY <1>1, <1>2
  <1>5. a.table = "phase done"
    BY <1>1
  <1>6. ASSUME NEW s \in Statement, SftExample(w) = <<s>>
        PROVE  Fits(s)
    <2>1. SftExample(w) # <<>>
      BY <1>6
    <2>2. PICK d \in Statement :
              /\ SftExample(w) = <<d>> /\ d.table = "examples" /\ Concerns(w, d)
              /\ w.memory # <<>> /\ Last(w.memory).role = "assistant"
              /\ d.row.output.id = Last(w.memory).id
      BY <2>1, SftExampleIs
    <2>3. d = s
      BY <1>6, <2>2
    <2> QED BY <2>2, <2>3
  <1>7. SftExample(w) = <<>> \/ \E s \in Statement : SftExample(w) = <<s>>
    BY SftExampleIs
  <1> HIDE DEF Fits
  <1>8. list \in Seq(Statement) /\ list # <<>> /\ list[1] = a /\ \A i \in DOMAIN list : Fits(list[i])
    <2>1. CASE SftExample(w) = <<>> /\ w.completes
      <3>1. list = <<a, b>>
        BY <1>3, <2>1, Joined
      <3> QED BY <1>4, <2>1, <3>1
    <2>2. CASE SftExample(w) = <<>> /\ ~w.completes
      <3>1. list = <<a>>
        BY <1>3, <2>2, Joined
      <3> QED BY <1>4, <3>1
    <2>3. ASSUME NEW s \in Statement, SftExample(w) = <<s>>, w.completes
          PROVE  /\ list \in Seq(Statement) /\ list # <<>> /\ list[1] = a
                 /\ \A i \in DOMAIN list : Fits(list[i])
      <3>1. list = <<a, b, s>>
        BY <1>3, <2>3, Joined
      <3>2. Fits(s)
        BY <1>6, <2>3
      <3> QED BY <1>4, <2>3, <3>1, <3>2
    <2>4. ASSUME NEW s \in Statement, SftExample(w) = <<s>>, ~w.completes
          PROVE  /\ list \in Seq(Statement) /\ list # <<>> /\ list[1] = a
                 /\ \A i \in DOMAIN list : Fits(list[i])
      <3>1. list = <<a, s>>
        BY <1>3, <2>4, Joined
      <3>2. Fits(s)
        BY <1>6, <2>4
      <3> QED BY <1>4, <3>1, <3>2
    <2> QED BY <1>7, <2>1, <2>2, <2>3, <2>4
  <1>9. EndsPhase(w, list)
    BY <1>5, <1>8 DEF Fits, EndsPhase
  <1> QED BY <1>8, <1>9

\* complete_run of the team.
LEMMA TeamCompletedIs ==
    ASSUME NEW w \in Working
    PROVE  TeamCompleted(w) \in Seq(Statement) /\ EndsRun(w, TeamCompleted(w))
  <1> PICK list : list = TeamCompleted(w)
    OBVIOUS
  <1>1. PICK a \in Statement :
            a = CompleteRun(w.run, Written, Written) /\ a.table = "run done" /\ Concerns(w, a)
    <2>1. CompleteRun(w.run, Written, Written) \in Statement
      BY WorkingFields, RunStatements, AskedIs
    <2> QED BY <2>1 DEF CompleteRun, Concerns
  <1> PICK m : m = Message(0, "assistant", Written, {})
    OBVIOUS
  <1>m. m \in Said /\ m.role = "assistant"
    <2>1. Written \in SUBSET Written /\ {} \in SUBSET Written /\ 0 \in Nat /\ "assistant" \in Speakers
      BY AskedIs DEF Speakers
    <2> QED BY <2>1, MessageIsSaid
  <1> PICK input : input = ForEach(Append(Conversation, m), Redacted)
    OBVIOUS
  <1>i. input \in Seq(Trained)
    <2>1. Append(Conversation, m) \in Seq(Said)
      BY <1>m, ConversationPlaces
    <2> PICK before \in Seq(Said) : before = Append(Conversation, m)
      BY <2>1
    <2>2. input = [i \in DOMAIN before |-> Redacted(before[i])]
      BY DEF ForEach
    <2>3. \A i \in 1 .. Len(before) : Redacted(before[i]) \in Trained
      BY RedactedIs
    <2>4. DOMAIN before = 1 .. Len(before) /\ Len(before) \in Nat
      OBVIOUS
    <2>5. input = [i \in 1 .. Len(before) |-> input[i]] /\ \A i \in 1 .. Len(before) : input[i] \in Trained
      BY <2>2, <2>3, <2>4
    <2> QED BY <2>4, <2>5
  <1>2. PICK b : b = Example(w.run, NoPhase, "team_final", input, Redacted(m))
    OBVIOUS
  <1>3. ASSUME full
        PROVE  /\ b \in Statement /\ b.table = "examples" /\ Concerns(w, b)
               /\ b.row.phase = NoPhase /\ b.row.type = "team_final"
    <2>1. Redacted(m) \in Trained /\ Redacted(m).text \subseteq Left
      BY <1>m, RedactedIs
    <2>2. \A t \in Trained : t.thought \subseteq Left
      BY DEF Trained
    <2>3. \A i \in DOMAIN input : input[i] \in Trained
      BY <1>i
    <2>4. ExampleFits("team_final", input, Redacted(m))
      BY <1>3, <1>i, <2>1, <2>2, <2>3 DEF ExampleFits
    <2>5. b \in Statement
      BY <1>2, <2>4, WorkingFields, ExampleStatement DEF ExampleTypes
    <2> QED BY <1>2, <2>5 DEF Example, Concerns
  <1>6. list = <<a>> \o IF full THEN <<b>> ELSE <<>>
    BY <1>1, <1>2 DEF TeamCompleted
  <1> DEFINE Fits(x) == /\ x.table \in {"run done", "examples"} /\ Concerns(w, x)
                        /\ x.table = "examples" => x.row.phase = NoPhase /\ x.row.type = "team_final"
  <1>7. Fits(a) /\ (full => Fits(b) /\ b \in Statement)
    BY <1>1, <1>3
  <1> HIDE DEF Fits
  <1>8. list \in Seq(Statement) /\ \A i \in DOMAIN list : Fits(list[i])
    <2>1. CASE full
      <3>1. list = <<a, b>>
        BY <1>6, <2>1, Joined
      <3> QED BY <1>7, <2>1, <3>1
    <2>2. CASE ~full
      <3>1. list = <<a>>
        BY <1>6, <2>2, Joined
      <3> QED BY <1>7, <3>1
    <2> QED BY <2>1, <2>2
  <1>9. EndsRun(w, list)
    BY <1>8 DEF Fits, EndsRun
  <1> QED BY <1>8, <1>9

----------------------------------------------------------------------------
(* TraceStore: the invariant, where the tables stay as they are.           *)

\* The settings of the trace never change, and neither does what they let be stored.
LEMMA Settings ==
    ASSUME UNCHANGED <<capture, thinking>>
    PROVE  /\ Storable' = Storable /\ StorableThoughts' = StorableThoughts /\ (full <=> full')
           /\ RunRow' = RunRow /\ PhaseRow' = PhaseRow /\ EventRow' = EventRow
           /\ MessageRow' = MessageRow /\ ArtifactRow' = ArtifactRow /\ ExampleRow' = ExampleRow
           /\ Statement' = Statement /\ Working' = Working
  <1>1. Storable' = Storable /\ StorableThoughts' = StorableThoughts /\ (full <=> full')
    BY DEF Storable, StorableThoughts, Asked, AskedThoughts, full
  <1>2. Asked' = Asked /\ AskedThoughts' = AskedThoughts /\ (full <=> full')
    BY DEF Asked, AskedThoughts, full
  <1>3. RunRow' = RunRow /\ PhaseRow' = PhaseRow
    BY <1>2 DEF RunRow, PhaseRow, RunAsks
  <1>4. EventRow' = EventRow /\ ArtifactRow' = ArtifactRow
    BY <1>2 DEF EventRow, ArtifactRow, EventAsks
  <1>5. MessageRow' = MessageRow
    BY <1>2 DEF MessageRow, MessageAsks
  <1>6. ExampleRow' = ExampleRow
    BY <1>2 DEF ExampleRow, ExampleAsks
  <1>7. Statement' = Statement
    BY <1>1, <1>3, <1>4, <1>5, <1>6 DEF Statement
  <1>8. Working' = Working
    BY <1>7 DEF Working
  <1> QED BY <1>1, <1>3, <1>4, <1>5, <1>6, <1>7, <1>8

\* What is typed stays typed.
LEMMA StaysTyped ==
    ASSUME UNCHANGED <<capture, thinking>>, NEW w, WorkTyped(w)
    PROVE  WorkTyped(w)'
  <1>1. Working' = Working
    BY Settings
  <1> QED BY <1>1 DEF WorkTyped

\* What is stored of a phase is what its messages hold.
LEMMA SameMessages ==
    ASSUME NEW p, messages'[p] = messages[p]
    PROVE  \A source : Told(p, source)' = Told(p, source) /\ RowsFrom(p, source)' = RowsFrom(p, source)
  BY DEF Told, RowsFrom

\* A step of the run that writes nothing keeps the invariant if what it makes of
\* the run fits the tables as they are.
LEMMA Unmoved ==
    ASSUME UNCHANGED <<capture, thinking, tables, exported>>,
           NEW w, w = work', NEW carried, carried = ran',
           TablesOK, WorkTyped(w), Past(w, carried), Underway(w, carried),
           \A p \in PhaseIds : w.at = "idle" \/ p # w.phase => carried[p] = ran[p]
    PROVE  TraceInv'
  <1>1. /\ UNCHANGED <<capture, thinking>> /\ runs' = runs /\ phases' = phases /\ events' = events
        /\ messages' = messages /\ artifacts' = artifacts /\ examples' = examples
        /\ exported' = exported
    BY DEF tables
  <1>2. TablesOK'
    <2>1. /\ RunRow' = RunRow /\ PhaseRow' = PhaseRow /\ EventRow' = EventRow
          /\ MessageRow' = MessageRow /\ ExampleRow' = ExampleRow
      BY <1>1, Settings
    <2> QED BY <1>1, <2>1 DEF TablesOK
  <1>3. WorkTyped(w)'
    BY <1>1, StaysTyped
  <1>4. \A p, source : Told(p, source)' = Told(p, source) /\ RowsFrom(p, source)' = RowsFrom(p, source)
    BY <1>1, SameMessages
  <1>5. Past(w, carried)'
    <2>1. ASSUME NEW p \in DOMAIN phases, w.at = "idle" \/ p # w.phase
          PROVE  IsTold(p)'
      <3>1. IsTold(p) /\ p \in PhaseIds
        BY <2>1 DEF Past, TablesOK
      <3>2. ran'[p] = ran[p]
        BY <2>1, <3>1
      <3> QED BY <1>1, <1>4, <3>1, <3>2 DEF IsTold
    <2>2. \A p : InOrder(p)' <=> InOrder(p)
      BY <1>1, <1>4 DEF InOrder
    <2>3. \A e : IsAnswer(e)' <=> IsAnswer(e)
      BY <1>1, <1>4 DEF IsAnswer
    <2>4. CompletedIsWhole'
      BY <1>1 DEF Past, CompletedIsWhole
    <2>5. \A p : Untouched(w, p)' <=> Untouched(w, p)
      BY DEF Untouched
    <2> QED BY <1>1, <2>1, <2>2, <2>3, <2>4, <2>5 DEF Past
  <1>6. Underway(w, carried)'
    <2>1. ASSUME w.at # "idle"
          PROVE  Queued(w)' /\ Founded(w)' /\ Closing(w)' /\ Telling(w, carried)' /\ Answering(w)'
      <3>1. Queued(w) /\ Founded(w) /\ Closing(w) /\ Telling(w, carried) /\ Answering(w)
        BY <2>1 DEF Underway
      <3>2. Queued(w)'
        BY <1>1, <3>1 DEF Queued
      <3>3. Founded(w)'
        BY <1>1, <3>1 DEF Founded, RunBefore, PhaseBefore
      <3>4. Closing(w)'
        BY <1>1, <3>1 DEF Closing
      <3>5. Telling(w, carried)'
        BY <1>1, <1>4, <3>1 DEF Telling
      <3>6. Answering(w)'
        BY <1>1, <1>4, <3>1 DEF Answering
      <3> QED BY <3>2, <3>3, <3>4, <3>5, <3>6
    <2> QED BY <2>1 DEF Underway
  <1> QED BY <1>2, <1>3, <1>5, <1>6 DEF TraceInv

\* The run goes on in the phase it is in: what is said of the other phases holds
\* as it did.
LEMMA PastStays ==
    ASSUME NEW u, NEW w, NEW carried, Past(u, carried),
           u.at # "idle", w.at # "idle", w.at # "starting", w.run = u.run, w.phase = u.phase
    PROVE  Past(w, carried)
  <1>1. \A p \in PhaseIds : Untouched(w, p) => Untouched(u, p)
    BY DEF Untouched
  <1> QED BY <1>1 DEF Past

\* With nothing left to write and the phase begun, whatever comes next is founded.
LEMMA FoundedStays ==
    ASSUME NEW u, NEW w, Founded(u), u.todo = <<>>, u.at # "starting",
           w.run = u.run, w.phase = u.phase,
           capture = "off" => w.todo = <<>>
    PROVE  Founded(w)
  <1>1. CASE capture = "off"
    BY <1>1 DEF Founded
  <1>2. CASE capture # "off"
    <2>1. u.run \in DOMAIN runs /\ u.phase \in DOMAIN phases
      BY <1>2 DEF Founded, RunBefore, PhaseBefore
    <2> QED BY <2>1 DEF Founded, RunBefore, PhaseBefore
  <1> QED BY <1>1, <1>2

\* Until its end a phase, and the run with it, stays open.
LEMMA ClosingStays ==
    ASSUME NEW u, NEW w, Closing(u), ~Ended(u), ~Ended(w),
           w.run = u.run, w.phase = u.phase,
           \A i \in DOMAIN w.todo : w.todo[i].table # "run done"
    PROVE  Closing(w)
  BY DEF Closing, Ended

\* No result of a tool is to be written, and none is carried out.
LEMMA TellingStays ==
    ASSUME NEW u \in Working, NEW w \in Working, NEW carried \in [PhaseIds -> SUBSET Nat],
           Telling(u, carried), u.todo = <<>>,
           w.phase = u.phase, Len(u.memory) <= Len(w.memory),
           \A i \in DOMAIN w.todo : w.todo[i].table = "messages" => w.todo[i].row.source # "tool_result"
    PROVE  Telling(w, carried)
  <1>1. Coming(w, "tool_result") = {} /\ Coming(u, "tool_result") = {}
    BY DEF Coming
  <1>2. ComingIds(w, "tool_result") = {} /\ ComingIds(u, "tool_result") = {}
    BY <1>1 DEF ComingIds
  <1>3. \A id \in carried[w.phase] : id <= Len(w.memory)
    <2>1. u.memory \in Seq(Said) /\ w.memory \in Seq(Said) /\ w.phase \in PhaseIds
      BY WorkingFields
    <2>2. Len(u.memory) \in Nat /\ Len(w.memory) \in Nat
      BY <2>1
    <2>3. ASSUME NEW id \in carried[w.phase]
          PROVE  id <= Len(w.memory)
      <3>1. id \in Nat
        BY <2>1, <2>3
      <3>2. id <= Len(u.memory)
        BY <2>3 DEF Telling
      <3> QED BY <2>2, <3>1, <3>2
    <2> QED BY <2>3
  <1> QED BY <1>1, <1>2, <1>3 DEF Telling

\* The places of the answers that are stored are natural numbers.
LEMMA ToldIsNat ==
    ASSUME TablesOK, NEW p \in PhaseIds, NEW source
    PROVE  Told(p, source) \subseteq Nat
  <1>1. messages[p] \in Seq(MessageRow)
    BY DEF TablesOK
  <1>2. \A i \in DOMAIN messages[p] : messages[p][i] \in MessageRow
    BY <1>1
  <1>3. \A row \in MessageRow : row.id \in Nat
    BY DEF MessageRow
  <1> QED BY <1>2, <1>3 DEF Told, RowsFrom

\* No answer is to be written, and no example of one.
LEMMA AnsweringStays ==
    ASSUME TablesOK, NEW u \in Working, NEW w \in Working, Answering(u), u.todo = <<>>,
           w.phase = u.phase, Len(u.memory) <= Len(w.memory),
           \A i \in DOMAIN w.todo :
               /\ w.todo[i].table # "examples"
               /\ w.todo[i].table = "messages" => w.todo[i].row.source # "assistant_response",
           w.at \in {"finalizing", "completing"} /\ w.memory # <<>> /\ Last(w.memory).role = "assistant" =>
               u.at \in {"finalizing", "completing"} /\ w.memory = u.memory
    PROVE  Answering(w)
  <1>1. Coming(w, "assistant_response") = {} /\ Coming(u, "assistant_response") = {}
    BY DEF Coming
  <1>2. ComingIds(w, "assistant_response") = {} /\ ComingIds(u, "assistant_response") = {}
    BY <1>1 DEF ComingIds
  <1>3. w.phase \in PhaseIds /\ Len(u.memory) \in Nat /\ Len(w.memory) \in Nat
    BY WorkingFields
  <1>4. Told(w.phase, "assistant_response") \subseteq Nat
    BY <1>3, ToldIsNat
  <1>5. ASSUME capture # "off", NEW id \in Told(w.phase, "assistant_response")
        PROVE  id <= Len(w.memory)
    <2>1. id <= Len(u.memory)
      BY <1>5 DEF Answering
    <2> QED BY <1>3, <1>4, <2>1
  <1> QED BY <1>2, <1>5 DEF Answering

\* The bounds, and the runs, are numbers.
LEMMA Numbers ==
    /\ MaxAttempts \in Nat /\ MaxRuns \in Nat /\ 1 \in 1 .. MaxAttempts
    /\ \A r \in Runs : r \in Nat /\ r \in 0 .. MaxRuns
  <1>1. MaxAttempts \in Nat \ {0} /\ MaxRuns \in Nat
    BY TraceStoreAssumption
  <1>2. 1 \in 1 .. MaxAttempts
    BY <1>1
  <1>3. \A r \in Runs : r \in Nat /\ r \in 0 .. MaxRuns
    BY <1>1 DEF Runs
  <1> QED BY <1>1, <1>2, <1>3

\* The parts of the id of a phase.
LEMMA PhaseIdParts ==
    ASSUME NEW p \in PhaseIds
    PROVE  p[1] \in Runs /\ p[1] \in Nat /\ p[2] \in Nat /\ p = <<p[1], p[2]>>
  <1>0. MaxAttempts \in Nat /\ MaxRuns \in Nat
    BY TraceStoreAssumption
  <1>1. 2 * MaxAttempts \in Nat
    BY <1>0
  <1>2. PICK n \in Nat : n = 2 * MaxAttempts
    BY <1>1
  <1>3. p \in Runs \X (0 .. n)
    BY <1>2 DEF PhaseIds
  <1>4. \A r \in Runs : r \in Nat
    BY <1>0 DEF Runs
  <1> QED BY <1>3, <1>4

\* A step of the run within its phase keeps the invariant if what it leaves to be
\* written fits the tables as they are.
LEMMA GoesOn ==
    ASSUME TraceInv, UNCHANGED <<capture, thinking, tables, exported>>,
           NEW u \in Working, u = work, u.at # "idle",
           NEW w \in Working, w = work', w.at # "idle", w.at # "starting",
           NEW carried \in [PhaseIds -> SUBSET Nat], carried = ran',
           w.run = u.run, w.phase = u.phase, w.role = u.role, w.attempt = u.attempt,
           \A i \in DOMAIN w.memory : w.memory[i].id = i,
           Queued(w), Founded(w), Closing(w), Telling(w, carried), Answering(w),
           \A p \in PhaseIds : p # u.phase => carried[p] = ran[p]
    PROVE  TraceInv'
  <1>1. TablesOK /\ WorkTyped(u) /\ Past(u, ran)
    BY DEF TraceInv
  <1>2. WorkTyped(w)
    BY <1>1 DEF WorkTyped
  <1>3. Past(w, carried)
    <2>1. Past(w, ran)
      <3>1. PICK c : c = ran
        OBVIOUS
      <3>2. Past(w, c)
        BY <1>1, <3>1, PastStays
      <3> QED BY <3>1, <3>2
    <2>2. ~Untouched(w, w.phase)
      <3>1. w.phase \in PhaseIds
        BY WorkingFields
      <3>2. w.phase[2] \in Nat /\ w.phase[1] \in Nat
        BY <3>1, PhaseIdParts
      <3>3. w.phase = <<w.run, Place(w.role, w.attempt)>>
        BY <1>2 DEF WorkTyped
      <3>4. w.phase[1] = w.run
        BY <3>3
      <3> QED BY <3>2, <3>4 DEF Untouched
    <2> QED BY <2>1, <2>2 DEF Past
  <1>4. Underway(w, carried)
    BY DEF Underway
  <1> QED BY <1>1, <1>2, <1>3, <1>4, Unmoved

\* The statements of a stage of the run.
LEMMA Stages_May ==
    ASSUME NEW at
    PROVE  /\ at \in {"asking", "closing"} => May(at) = {"events"}
           /\ at \in {"executing", "finalizing"} => May(at) = {"events", "messages"}
           /\ at = "turn" => May(at) = {"runs", "phases", "events", "messages"}
           /\ at = "completing" => May(at) = {"events", "artifacts"}
           /\ at = "completed" => May(at) = {"phase done", "run done", "examples"}
           /\ at = "returning" => May(at) = {"run done", "examples"}
           /\ at = "starting" => May(at) = {"runs", "events"}
           /\ at \in {"turn", "asking", "closing", "completing"} =>
                 May(at) \subseteq {"runs", "phases", "events", "messages", "artifacts"}
  BY DEF May

\* Until its end a phase writes neither the end of itself or of the run nor an
\* example.
LEMMA StageWrites ==
    ASSUME NEW u, u.at \in Stages, ~Ended(u)
    PROVE  May(u.at) \subseteq {"runs", "phases", "events", "messages", "artifacts"}
  <1>1. CASE u.at \in {"turn", "asking", "closing", "completing"}
    BY <1>1, Stages_May
  <1>2. CASE u.at \in {"executing", "finalizing"}
    <2>1. May(u.at) = {"events", "messages"}
      BY <1>2, Stages_May
    <2> QED BY <2>1
  <1>3. CASE u.at = "starting"
    <2>1. May(u.at) = {"runs", "events"}
      BY <1>3, Stages_May
    <2> QED BY <2>1
  <1> QED BY <1>1, <1>2, <1>3 DEF Stages, Ended

\* A stage of a phase that neither carries out tools nor answers, and writes of
\* what it does not more than a stage may.
LEMMA GoesOnQuietly ==
    ASSUME TraceInv, UNCHANGED <<capture, thinking, tables, exported, ran>>,
           NEW u \in Working, u = work, u.todo = <<>>, ~Ended(u),
           NEW w \in Working, w = work', w.at \in {"turn", "asking", "closing", "completing"},
           w.run = u.run, w.phase = u.phase, w.role = u.role, w.attempt = u.attempt,
           Len(u.memory) <= Len(w.memory),
           \A i \in DOMAIN w.memory : w.memory[i].id = i,
           capture = "off" => w.todo = <<>>,
           \A i \in DOMAIN w.todo :
               /\ w.todo[i].table \in May(w.at) /\ Concerns(w, w.todo[i])
               /\ w.todo[i].table = "messages" => w.todo[i].row.source = "input_context",
           Founded(w),
           w.at = "completing" /\ w.memory # <<>> /\ Last(w.memory).role = "assistant" =>
               u.at = "finalizing" /\ w.memory = u.memory
    PROVE  TraceInv'
  <1>1. u.at # "idle"
    BY WorkingFields DEF Stages
  <1> PICK carried : carried = ran'
    OBVIOUS
  <1>2. /\ TablesOK /\ WorkTyped(u) /\ Past(u, carried) /\ carried \in [PhaseIds -> SUBSET Nat]
        /\ Founded(u) /\ Closing(u) /\ Telling(u, carried) /\ Answering(u)
    BY <1>1 DEF TraceInv, Past, Underway
  <1>3. \A i \in DOMAIN w.todo :
            /\ w.todo[i].table \in {"runs", "phases", "events", "messages", "artifacts"}
            /\ w.todo[i].table # "run done" /\ w.todo[i].table # "examples"
    <2>1. May(w.at) \subseteq {"runs", "phases", "events", "messages", "artifacts"}
      BY Stages_May
    <2> QED BY <2>1
  <1>4. Queued(w)
    BY DEF Queued
  <1>5. ~Ended(w) /\ w.at # "starting" /\ w.at # "idle"
    BY DEF Ended
  <1>6. Closing(w)
    BY <1>2, <1>3, <1>5, ClosingStays
  <1>7. Telling(w, carried)
    BY <1>2, TellingStays
  <1>8. Answering(w)
    BY <1>2, <1>3, AnsweringStays
  <1>9. \A p \in PhaseIds : p # u.phase => carried[p] = ran[p]
    OBVIOUS
  <1> QED BY <1>1, <1>2, <1>4, <1>5, <1>6, <1>7, <1>8, <1>9, GoesOn

\* What is written with the trace off.
LEMMA WriteIs ==
    ASSUME NEW list \in Seq(Statement)
    PROVE  /\ Write(list) \in Seq(Statement)
           /\ capture = "off" => Write(list) = <<>>
           /\ capture # "off" => Write(list) = list
           /\ \A i \in DOMAIN Write(list) : i \in DOMAIN list /\ Write(list)[i] = list[i]
  BY DEF Write

\* A statement stays about the same run and phase.
LEMMA SameConcerns ==
    ASSUME NEW u, NEW w, w.run = u.run, w.phase = u.phase
    PROVE  \A s : Concerns(u, s) => Concerns(w, s)
  BY DEF Concerns

\* The run under way, when there is one.
LEMMA UnderWay ==
    ASSUME TraceInv, work.at # "idle"
    PROVE  /\ work \in Working /\ work.phase = <<work.run, Place(work.role, work.attempt)>>
           /\ \A i \in DOMAIN work.memory : work.memory[i].id = i
           /\ work.at = "starting" => work.memory = Conversation
           /\ work.phase \in PhaseIds /\ work.memory \in Seq(Said) /\ Len(work.memory) \in Nat
           /\ ran \in [PhaseIds -> SUBSET Nat]
           /\ Queued(work) /\ Founded(work) /\ Closing(work) /\ Telling(work, ran) /\ Answering(work)
  <1>1. WorkTyped(work) /\ Underway(work, ran)
    BY DEF TraceInv
  <1>2. /\ work \in Working /\ work.phase = <<work.run, Place(work.role, work.attempt)>>
        /\ \A i \in DOMAIN work.memory : work.memory[i].id = i
        /\ work.at = "starting" => work.memory = Conversation
    BY <1>1 DEF WorkTyped
  <1>3. work.phase \in PhaseIds /\ work.memory \in Seq(Said)
    BY <1>2, WorkingFields
  <1>4. Len(work.memory) \in Nat
    BY <1>3
  <1>5. ran \in [PhaseIds -> SUBSET Nat]
    BY DEF TraceInv, Past
  <1> QED BY <1>1, <1>2, <1>3, <1>4, <1>5 DEF Underway

\* A message put behind a conversation.
LEMMA Extended ==
    ASSUME NEW memory \in Seq(Said), NEW m \in Said, m.id = Len(memory) + 1,
           \A i \in DOMAIN memory : memory[i].id = i
    PROVE  LET longer == Append(memory, m)
           IN  /\ longer \in Seq(Said) /\ Len(longer) = Len(memory) + 1 /\ longer # <<>>
               /\ Last(longer) = m /\ \A i \in DOMAIN longer : longer[i].id = i
  <1> PICK longer : longer = Append(memory, m)
    OBVIOUS
  <1> PICK n \in Nat : n = Len(memory)
    OBVIOUS
  <1>1. /\ longer \in Seq(Said) /\ Len(longer) = n + 1
        /\ \A i \in 1 .. n : longer[i] = memory[i]
        /\ longer[n + 1] = m
    BY AppendProperties
  <1>2. DOMAIN longer = 1 .. n + 1 /\ DOMAIN memory = 1 .. n
    BY <1>1
  <1>3. longer # <<>> /\ Last(longer) = m
    BY <1>1 DEF Last
  <1>4. \A i \in DOMAIN longer : longer[i].id = i
    BY <1>1, <1>2
  <1> QED BY <1>1, <1>3, <1>4

\* The workflow of a phase starts.
LEMMA StartPhaseKeeps ==
    ASSUME TraceInv, StartPhase
    PROVE  TraceInv'
  <1>1. /\ work.at = "starting" /\ work.todo = <<>>
        /\ work' = [work EXCEPT !.at = "turn", !.todo = Write(OnStarted(work))]
        /\ UNCHANGED <<capture, thinking, tables, exported, ran>>
    BY DEF StartPhase, Ready, Rest
  <1> PICK u : u = work
    OBVIOUS
  <1>2. /\ u \in Working /\ u.memory = Conversation /\ u.memory \in Seq(Said)
        /\ \A i \in DOMAIN u.memory : u.memory[i].id = i
    BY <1>1, UnderWay
  <1> PICK list : list = OnStarted(u)
    OBVIOUS
  <1>3. /\ list \in Seq(Statement) /\ Len(list) = 6 /\ list[1].table = "runs" /\ list[2].table = "phases"
        /\ \A i \in DOMAIN list :
              /\ list[i].table \in {"runs", "phases", "events", "messages"} /\ Concerns(u, list[i])
              /\ list[i].table # "runs" => i > 1
              /\ list[i].table \in {"events", "messages"} => i > 2
              /\ list[i].table = "messages" => list[i].row.source = "input_context"
    BY <1>2, OnStartedIs
  <1> PICK todo : todo = Write(list)
    OBVIOUS
  <1>4. /\ todo \in Seq(Statement) /\ (capture = "off" => todo = <<>>)
        /\ capture # "off" => todo = list
        /\ \A i \in DOMAIN todo : i \in DOMAIN list /\ todo[i] = list[i]
    BY <1>3, WriteIs
  <1> PICK w : w = [u EXCEPT !.at = "turn", !.todo = todo]
    OBVIOUS
  <1>5. /\ w \in Working /\ w = work' /\ w.at = "turn" /\ w.todo = todo
        /\ w.run = u.run /\ w.phase = u.phase /\ w.role = u.role /\ w.attempt = u.attempt
        /\ w.memory = u.memory
    BY <1>1, <1>2, <1>4 DEF Working, Stages
  <1>6. \A s : Concerns(u, s) => Concerns(w, s)
    BY <1>5, SameConcerns
  <1>7. \A i \in DOMAIN w.todo :
            /\ w.todo[i].table \in May(w.at) /\ Concerns(w, w.todo[i])
            /\ w.todo[i].table = "messages" => w.todo[i].row.source = "input_context"
    <2>1. May(w.at) = {"runs", "phases", "events", "messages"}
      BY <1>5, Stages_May
    <2> QED BY <1>3, <1>4, <1>5, <1>6, <2>1
  <1>8. Founded(w)
    <2>1. CASE capture = "off"
      BY <1>4, <1>5, <2>1 DEF Founded
    <2>2. CASE capture # "off"
      <3>1. w.todo = list /\ DOMAIN list = 1 .. 6 /\ Len(list) = 6
        BY <1>3, <1>4, <1>5, <2>2
      <3>2. \A i \in 2 .. 7 : RunBefore(w, i)
        BY <1>3, <3>1 DEF RunBefore
      <3>3. \A i \in 3 .. 7 : PhaseBefore(w, i)
        BY <1>3, <3>1 DEF PhaseBefore
      <3>4. \A i \in DOMAIN list :
                /\ list[i].table \in {"phases", "events", "examples"} => i \in 2 .. 7
                /\ list[i].table \in {"messages", "artifacts", "events", "examples"} => i \in 3 .. 7
        BY <1>3, <3>1
      <3>5. \A i \in DOMAIN w.todo :
                /\ w.todo[i].table \in {"phases", "events", "examples"} => RunBefore(w, i)
                /\ w.todo[i].table \in {"messages", "artifacts", "events", "examples"} => PhaseBefore(w, i)
        BY <3>1, <3>2, <3>3, <3>4
      <3>6. RunBefore(w, Len(w.todo) + 1) /\ PhaseBefore(w, Len(w.todo) + 1)
        <4>1. Len(w.todo) = 6
          BY <3>1
        <4>2. Len(w.todo) + 1 = 7
          <5>1. \A n : n = 6 => n + 1 = 7
            OBVIOUS
          <5> QED BY ONLY <4>1, <5>1
        <4>3. 7 \in 2 .. 7 /\ 7 \in 3 .. 7
          OBVIOUS
        <4> QED BY <3>2, <3>3, <4>2, <4>3
      <3> QED BY <3>5, <3>6 DEF Founded
    <2> QED BY <2>1, <2>2
  <1>9. ~Ended(u)
    BY <1>1 DEF Ended
  <1>10. /\ Len(u.memory) <= Len(w.memory) /\ \A i \in DOMAIN w.memory : w.memory[i].id = i
         /\ capture = "off" => w.todo = <<>>
    BY <1>2, <1>4, <1>5
  <1> QED BY <1>1, <1>2, <1>5, <1>7, <1>8, <1>9, <1>10, GoesOnQuietly

\* The next turn is asked for.
LEMMA RequestTurnKeeps ==
    ASSUME TraceInv, RequestTurn
    PROVE  TraceInv'
  <1>u. PICK u : u = work
    OBVIOUS
  <1>c. PICK closing \in BOOLEAN : closing = (work.step = MaxSteps)
    OBVIOUS
  <1>d. PICK directive : directive = Message(Len(u.memory) + 1, "user", {"words"}, {})
    OBVIOUS
  <1>m. PICK memory : memory = IF closing THEN Append(u.memory, directive) ELSE u.memory
    OBVIOUS
  <1>a. PICK at : at = IF closing THEN "closing" ELSE "asking"
    OBVIOUS
  <1>t. PICK todo : todo = Write(OnStage(u))
    OBVIOUS
  <1>1. /\ u.at = "turn" /\ u.todo = <<>>
        /\ work' = [u EXCEPT !.at = at, !.step = @ + 1, !.memory = memory, !.todo = todo]
        /\ UNCHANGED <<capture, thinking, tables, exported, ran>>
    BY <1>u, <1>c, <1>d, <1>m, <1>a, <1>t DEF RequestTurn, Ready, Rest
  <1>2. /\ u \in Working /\ u.memory \in Seq(Said) /\ Len(u.memory) \in Nat /\ u.step \in Nat
        /\ \A i \in DOMAIN u.memory : u.memory[i].id = i
        /\ Founded(u)
    BY <1>u, <1>1, UnderWay, WorkingFields
  <1>3. /\ memory \in Seq(Said) /\ Len(u.memory) <= Len(memory)
        /\ \A i \in DOMAIN memory : memory[i].id = i
    <2>1. directive \in Said /\ directive.id = Len(u.memory) + 1
      BY <1>d, <1>2, MessageIsSaid, AskedIs DEF Speakers
    <2>2. CASE closing
      <3>1. memory = Append(u.memory, directive)
        BY <1>m, <2>2
      <3> QED BY <1>2, <2>1, <3>1, Extended
    <2>3. CASE ~closing
      BY <1>m, <1>2, <2>3
    <2> QED BY <2>2, <2>3
  <1>4. PICK s \in Statement : OnStage(u) = <<s>> /\ s.table = "events" /\ Concerns(u, s)
    BY <1>2, OnStageIs
  <1>5. /\ todo \in Seq(Statement) /\ (capture = "off" => todo = <<>>)
        /\ \A i \in DOMAIN todo : todo[i] = s
    <2>1. PICK list \in Seq(Statement) : list = OnStage(u) /\ \A i \in DOMAIN list : list[i] = s
      BY <1>4
    <2>2. todo = Write(list)
      BY <1>t, <2>1
    <2> QED BY <2>1, <2>2, WriteIs
  <1>w. PICK w : w = [u EXCEPT !.at = at, !.step = @ + 1, !.memory = memory, !.todo = todo]
    OBVIOUS
  <1>6. /\ w \in Working /\ w = work' /\ w.at \in {"asking", "closing"} /\ w.todo = todo
        /\ w.run = u.run /\ w.phase = u.phase /\ w.role = u.role /\ w.attempt = u.attempt
        /\ w.memory = memory
    <2>1. at \in {"asking", "closing"} /\ u.step + 1 \in Nat
      BY <1>a, <1>2
    <2> QED BY <1>w, <1>1, <1>2, <1>3, <1>5, <2>1 DEF Working, Stages
  <1>7. \A i \in DOMAIN w.todo :
            /\ w.todo[i].table \in May(w.at) /\ Concerns(w, w.todo[i])
            /\ w.todo[i].table = "messages" => w.todo[i].row.source = "input_context"
    <2>1. May(w.at) = {"events"}
      BY <1>6, Stages_May
    <2>2. Concerns(w, s)
      BY <1>4, <1>6, SameConcerns
    <2> QED BY <1>4, <1>5, <1>6, <2>1, <2>2
  <1>8. Founded(w)
    <2>1. u.at # "starting" /\ (capture = "off" => w.todo = <<>>)
      BY <1>1, <1>5, <1>6
    <2> QED BY <1>1, <1>2, <1>6, <2>1, FoundedStays
  <1>9. ~Ended(u)
    BY <1>1 DEF Ended
  <1>10. w.at \in {"turn", "asking", "closing", "completing"} /\ w.at # "completing"
    BY <1>6
  <1>11. /\ Len(u.memory) <= Len(w.memory) /\ \A i \in DOMAIN w.memory : w.memory[i].id = i
         /\ capture = "off" => w.todo = <<>>
    BY <1>3, <1>5, <1>6
  <1>12. UNCHANGED <<capture, thinking, tables, exported, ran>> /\ u.todo = <<>>
    BY <1>1
  <1> QED BY <1>u, <1>2, <1>6, <1>7, <1>8, <1>9, <1>10, <1>11, <1>12, GoesOnQuietly

\* Autowrite writes a file, or none.
LEMMA AutoWriteKeeps ==
    ASSUME TraceInv, AutoWrite
    PROVE  TraceInv'
  <1>u. PICK u : u = work
    OBVIOUS
  <1>1. PICK paths : /\ paths = <<>> \/ \E f \in Files : paths = <<f>>
                     /\ LET written == [i \in DOMAIN paths |-> Message(Len(u.memory) + i, "tool", {"words"}, {})]
                        IN  work' = [u EXCEPT !.at = "completing", !.memory = @ \o written,
                                              !.todo = Write(OnAutoWrite(u, paths))]
    BY <1>u DEF AutoWrite
  <1>2. /\ u.at = "finalizing" /\ u.todo = <<>>
        /\ UNCHANGED <<capture, thinking, tables, exported, ran>>
    BY <1>u DEF AutoWrite, Ready, Rest
  <1>3. /\ u \in Working /\ u.memory \in Seq(Said) /\ Len(u.memory) \in Nat
        /\ \A i \in DOMAIN u.memory : u.memory[i].id = i
        /\ Founded(u)
    BY <1>u, <1>2, UnderWay
  <1>m. PICK m : m = Message(Len(u.memory) + 1, "tool", {"words"}, {})
    OBVIOUS
  <1>n. PICK memory :
          memory = u.memory \o [i \in DOMAIN paths |-> Message(Len(u.memory) + i, "tool", {"words"}, {})]
    OBVIOUS
  <1>4. memory = u.memory \/ memory = Append(u.memory, m)
    <2>1. CASE paths = <<>>
      <3>1. memory = u.memory \o <<>>
        BY <1>n, <2>1
      <3> QED BY <1>3, <3>1, ConcatEmptySeq
    <2>2. ASSUME NEW f \in Files, paths = <<f>>
          PROVE  memory = Append(u.memory, m)
      <3>1. DOMAIN paths = 1 .. 1
        BY <2>2
      <3>2. [i \in DOMAIN paths |-> Message(Len(u.memory) + i, "tool", {"words"}, {})] = <<m>>
        BY <1>m, <3>1
      <3>3. memory = u.memory \o <<m>>
        BY <1>n, <3>2
      <3>4. m \in Said
        BY <1>m, <1>3, MessageIsSaid, AskedIs DEF Speakers
      <3> QED BY <1>3, <3>3, <3>4, AppendIsConcat
    <2> QED BY <1>1, <2>1, <2>2
  <1>5. /\ memory \in Seq(Said) /\ Len(u.memory) <= Len(memory)
        /\ \A i \in DOMAIN memory : memory[i].id = i
        /\ memory # <<>> /\ Last(memory).role = "assistant" => memory = u.memory
    <2>1. m \in Said /\ m.id = Len(u.memory) + 1 /\ m.role = "tool"
      <3>1. /\ Len(u.memory) + 1 \in Nat /\ "tool" \in Speakers
            /\ {"words"} \in SUBSET Written /\ {} \in SUBSET Written
        BY <1>3, AskedIs DEF Speakers
      <3> QED BY <1>m, <3>1, MessageIsSaid
    <2>2. CASE memory = Append(u.memory, m)
      <3>1. /\ memory \in Seq(Said) /\ Len(memory) = Len(u.memory) + 1 /\ Last(memory) = m
            /\ \A i \in DOMAIN memory : memory[i].id = i
        BY <1>3, <2>1, <2>2, Extended
      <3> QED BY <1>3, <2>1, <3>1
    <2>3. CASE memory = u.memory
      BY <1>3, <2>3
    <2> QED BY <1>4, <2>2, <2>3
  <1>l. PICK list : list = OnAutoWrite(u, paths)
    OBVIOUS
  <1>6. /\ list \in Seq(Statement)
        /\ \A i \in DOMAIN list : list[i].table \in {"events", "artifacts"} /\ Concerns(u, list[i])
    BY <1>l, <1>1, <1>3, OnAutoWriteIs
  <1>t. PICK todo : todo = Write(list)
    OBVIOUS
  <1>7. /\ todo \in Seq(Statement) /\ (capture = "off" => todo = <<>>)
        /\ \A i \in DOMAIN todo : i \in DOMAIN list /\ todo[i] = list[i]
    BY <1>t, <1>6, WriteIs
  <1>w. PICK w : w = [u EXCEPT !.at = "completing", !.memory = memory, !.todo = todo]
    OBVIOUS
  <1>8. w = work'
    BY <1>w, <1>n, <1>l, <1>t, <1>1
  <1>9. /\ w \in Working /\ w.at = "completing" /\ w.todo = todo
        /\ w.run = u.run /\ w.phase = u.phase /\ w.role = u.role /\ w.attempt = u.attempt
        /\ w.memory = memory
    BY <1>w, <1>3, <1>5, <1>7 DEF Working, Stages
  <1>10. \A i \in DOMAIN w.todo :
            /\ w.todo[i].table \in May(w.at) /\ Concerns(w, w.todo[i])
            /\ w.todo[i].table = "messages" => w.todo[i].row.source = "input_context"
    <2>1. May(w.at) = {"events", "artifacts"}
      BY <1>9, Stages_May
    <2>2. \A s : Concerns(u, s) => Concerns(w, s)
      BY <1>9, SameConcerns
    <2> QED BY <1>6, <1>7, <1>9, <2>1, <2>2
  <1>11. Founded(w)
    <2>1. u.at # "starting" /\ (capture = "off" => w.todo = <<>>)
      BY <1>2, <1>7, <1>9
    <2> QED BY <1>2, <1>3, <1>9, <2>1, FoundedStays
  <1>12. ~Ended(u)
    BY <1>2 DEF Ended
  <1> QED BY <1>u, <1>2, <1>3, <1>5, <1>7, <1>8, <1>9, <1>10, <1>11, <1>12, GoesOnQuietly

\* The model replies, with calls of tools or with its answer.
LEMMA ReplyKeeps ==
    ASSUME TraceInv, Reply
    PROVE  TraceInv'
  <1>u. PICK u : u = work
    OBVIOUS
  <1>1. PICK thought \in Thoughts, calls \in 0 .. IF u.at = "closing" THEN 0 ELSE MaxCalls :
            LET message == Message(Len(u.memory) + 1, "assistant", Written, thought)
            IN  work' = [u EXCEPT !.at = IF calls = 0 THEN "finalizing" ELSE "executing",
                                  !.calls = calls,
                                  !.memory = Append(@, message),
                                  !.todo = Write(OnAssistant(u, message) \o OnStage(u))]
    BY <1>u DEF Reply
  <1>2. /\ u.at \in {"asking", "closing"} /\ u.todo = <<>>
        /\ UNCHANGED <<capture, thinking, tables, exported, ran>>
    BY <1>u DEF Reply, Ready, Rest
  <1>3. /\ u \in Working /\ u.memory \in Seq(Said) /\ Len(u.memory) \in Nat /\ u.phase \in PhaseIds
        /\ \A i \in DOMAIN u.memory : u.memory[i].id = i
        /\ TablesOK /\ ran \in [PhaseIds -> SUBSET Nat]
        /\ Founded(u) /\ Closing(u) /\ Telling(u, ran) /\ Answering(u)
    <2>1. work.at # "idle"
      BY <1>u, <1>2
    <2> QED BY <1>u, <2>1, UnderWay DEF TraceInv
  <1>m. PICK m : m = Message(Len(u.memory) + 1, "assistant", Written, thought)
    OBVIOUS
  <1>4. m \in Said /\ m.id = Len(u.memory) + 1 /\ m.role = "assistant"
    <2>1. thought \in SUBSET Written
      BY <1>1, TraceStoreAssumption
    <2> QED BY <1>m, <1>3, <2>1, MessageIsSaid, AskedIs DEF Speakers
  <1>n. PICK memory : memory = Append(u.memory, m)
    OBVIOUS
  <1>5. /\ memory \in Seq(Said) /\ Len(memory) = Len(u.memory) + 1 /\ Last(memory) = m
        /\ \A i \in DOMAIN memory : memory[i].id = i
    BY <1>n, <1>3, <1>4, Extended
  <1>6. PICK a \in Statement, b \in Statement, d \in Statement :
            /\ OnAssistant(u, m) \o OnStage(u) = <<a, b, d>>
            /\ a.table = "events" /\ b.table = "messages" /\ d.table = "events"
            /\ Concerns(u, a) /\ Concerns(u, b) /\ Concerns(u, d)
            /\ b.row.source = "assistant_response" /\ b.row.id = m.id
    BY <1>3, <1>4, OnAssistantIs
  <1>7. PICK list \in Seq(Statement) :
            /\ list = OnAssistant(u, m) \o OnStage(u)
            /\ DOMAIN list = 1 .. 3 /\ list[1] = a /\ list[2] = b /\ list[3] = d
    <2>1. /\ <<a, b, d>> \in Seq(Statement) /\ DOMAIN <<a, b, d>> = 1 .. 3
          /\ <<a, b, d>>[1] = a /\ <<a, b, d>>[2] = b /\ <<a, b, d>>[3] = d
      OBVIOUS
    <2> QED BY <1>6, <2>1
  <1>t. PICK todo : todo = Write(list)
    OBVIOUS
  <1>8. /\ todo \in Seq(Statement)
        /\ capture = "off" => todo = <<>>
        /\ capture # "off" => todo = list
        /\ \A i \in DOMAIN todo : i \in DOMAIN list /\ todo[i] = list[i]
    BY <1>t, WriteIs
  <1>a. PICK at : at = IF calls = 0 THEN "finalizing" ELSE "executing"
    OBVIOUS
  <1>w. PICK w : w = [u EXCEPT !.at = at, !.calls = calls, !.memory = memory, !.todo = todo]
    OBVIOUS
  <1>9. w = work'
    BY <1>1, <1>m, <1>n, <1>7, <1>t, <1>a, <1>w
  <1>10. /\ w \in Working /\ w.at \in {"finalizing", "executing"} /\ w.todo = todo
         /\ w.run = u.run /\ w.phase = u.phase /\ w.role = u.role /\ w.attempt = u.attempt
         /\ w.memory = memory
    <2>1. at \in {"finalizing", "executing"}
      BY <1>a
    <2>2. calls \in Nat
      <3>1. \A k, n : n \in 0 .. k => n \in Nat
        OBVIOUS
      <3>2. calls \in 0 .. IF u.at = "closing" THEN 0 ELSE MaxCalls
        OBVIOUS
      <3> QED BY ONLY <3>1, <3>2
    <2> QED BY <1>w, <1>3, <1>5, <1>8, <2>1, <2>2 DEF Working, Stages
  <1>11. /\ w.at # "idle" /\ w.at # "starting" /\ ~Ended(w) /\ ~Ended(u) /\ u.at # "starting" /\ u.at # "idle"
         /\ \A i \in DOMAIN w.memory : w.memory[i].id = i
         /\ Len(u.memory) <= Len(w.memory)
    BY <1>2, <1>3, <1>5, <1>10 DEF Ended
  <1>12. \A i \in DOMAIN todo :
             /\ todo[i].table \in {"events", "messages"} /\ Concerns(u, todo[i])
             /\ todo[i].table = "messages" =>
                   todo[i].row.source = "assistant_response" /\ todo[i].row.id = Len(memory)
    BY <1>4, <1>5, <1>6, <1>7, <1>8
  <1>13. Queued(w)
    <2>1. May(w.at) = {"events", "messages"}
      BY <1>10, Stages_May
    <2>2. \A s : Concerns(u, s) => Concerns(w, s)
      BY <1>10, SameConcerns
    <2> QED BY <1>8, <1>10, <1>12, <2>1, <2>2 DEF Queued
  <1>14. Founded(w)
    <2>1. capture = "off" => w.todo = <<>>
      BY <1>8, <1>10
    <2> QED BY <1>2, <1>3, <1>10, <1>11, <2>1, FoundedStays
  <1>15. Closing(w)
    <2>1. \A i \in DOMAIN w.todo : w.todo[i].table # "run done"
      BY <1>10, <1>12
    <2> QED BY <1>3, <1>10, <1>11, <2>1, ClosingStays
  <1>c. PICK carried : carried = ran
    OBVIOUS
  <1>16. Telling(w, carried)
    <2>1. \A i \in DOMAIN w.todo : w.todo[i].table = "messages" => w.todo[i].row.source # "tool_result"
      BY <1>10, <1>12
    <2> QED BY <1>c, <1>2, <1>3, <1>10, <1>11, <2>1, TellingStays
  <1>17. Answering(w)
    <2> PICK old : old = Told(w.phase, "assistant_response")
      OBVIOUS
    <2> PICK coming : coming = ComingIds(w, "assistant_response")
      OBVIOUS
    <2>1. ASSUME capture # "off"
          PROVE  coming = {Len(memory)}
      <3>1. w.todo = list
        BY <1>8, <1>10, <2>1
      <3>2. Coming(w, "assistant_response") = {2}
        BY <1>6, <1>7, <3>1 DEF Coming
      <3> QED BY <1>4, <1>5, <1>6, <1>7, <3>1, <3>2 DEF ComingIds
    <2>2. old \subseteq Nat
      BY <1>3, <1>10, ToldIsNat
    <2>3. ASSUME capture # "off", NEW id \in old
          PROVE  id <= Len(memory)
      <3>1. id <= Len(u.memory)
        BY <1>3, <1>10, <2>3 DEF Answering
      <3>2. id \in Nat
        BY <2>2
      <3> QED BY <1>3, <1>5, <3>1, <3>2
    <2>4. Len(memory) <= Len(memory)
      BY <1>5
    <2>5. \A i \in DOMAIN w.todo : w.todo[i].table # "examples"
      BY <1>10, <1>12
    <2> QED BY <1>10, <2>1, <2>3, <2>4, <2>5 DEF Answering
  <1>18. carried = ran' /\ carried \in [PhaseIds -> SUBSET Nat] /\ \A p \in PhaseIds : p # u.phase => carried[p] = ran[p]
    BY <1>2, <1>3, <1>c
  <1> QED BY <1>u, <1>2, <1>3, <1>9, <1>10, <1>11, <1>13, <1>14, <1>15, <1>16, <1>17, <1>18, GoesOn

\* The results of the calls of a reply, and the conversation with them.
Results(memory, calls) == [i \in 1 .. calls |-> Result(Len(memory) + i, i \notin Failing)]

GrowsBy(memory, calls, results, longer) ==
    /\ results \in Seq(Said) /\ Len(results) = calls /\ DOMAIN results = 1 .. calls
    /\ \A i \in 1 .. calls : results[i].id = Len(memory) + i
    /\ longer \in Seq(Said) /\ Len(longer) = Len(memory) + calls
    /\ \A i \in DOMAIN longer : longer[i].id = i

\* The results of the calls of a reply are put behind the conversation.
LEMMA ResultsAre ==
    ASSUME NEW memory \in Seq(Said), NEW calls \in Nat, \A i \in DOMAIN memory : memory[i].id = i
    PROVE  GrowsBy(memory, calls, Results(memory, calls), memory \o Results(memory, calls))
  <1> PICK results : results = [i \in 1 .. calls |-> Result(Len(memory) + i, i \notin Failing)]
    OBVIOUS
  <1> PICK longer : longer = memory \o results
    OBVIOUS
  <1> PICK n \in Nat : n = Len(memory)
    OBVIOUS
  <1>1. ASSUME NEW i \in 1 .. calls
        PROVE  results[i] \in Said /\ results[i].id = n + i
    <2>1. results[i] = Result(n + i, i \notin Failing)
      OBVIOUS
    <2>2. n + i \in Nat
      OBVIOUS
    <2>4. PICK ok \in BOOLEAN : ok = (i \notin Failing)
      OBVIOUS
    <2>5. Result(n + i, ok) \in Said /\ Result(n + i, ok).id = n + i
      BY <2>2, ResultIsSaid
    <2> QED BY <2>1, <2>4, <2>5
  <1>2. results \in Seq(Said) /\ Len(results) = calls /\ DOMAIN results = 1 .. calls
    <2>1. results = [i \in 1 .. calls |-> results[i]]
      OBVIOUS
    <2>2. \A i \in 1 .. calls : results[i] \in Said
      BY <1>1
    <2>3. DOMAIN results = 1 .. calls
      OBVIOUS
    <2> QED BY <2>1, <2>2, <2>3
  <1>4. /\ longer \in Seq(Said) /\ Len(longer) = n + calls
        /\ \A i \in 1 .. n + calls : longer[i] = IF i <= n THEN memory[i] ELSE results[i - n]
    BY <1>2, ConcatProperties
  <1>5. ASSUME NEW i \in 1 .. n + calls
        PROVE  longer[i].id = i
    <2>1. CASE i <= n
      <3>1. longer[i] = memory[i] /\ i \in DOMAIN memory
        BY <1>4, <2>1
      <3> QED BY <3>1
    <2>2. CASE ~(i <= n)
      <3>1. longer[i] = results[i - n] /\ i - n \in 1 .. calls /\ n + (i - n) = i
        BY <1>4, <2>2
      <3> QED BY <1>1, <3>1
    <2> QED BY <2>1, <2>2
  <1>6. DOMAIN longer = 1 .. n + calls
    BY <1>4
  <1>7. GrowsBy(memory, calls, results, longer)
    BY <1>1, <1>2, <1>4, <1>5, <1>6 DEF GrowsBy
  <1> QED BY <1>7 DEF Results

\* The tools of a reply are carried out, and then the hooks hear of them.
LEMMA CarryOutToolsKeeps ==
    ASSUME TraceInv, CarryOutTools
    PROVE  TraceInv'
  <1>u. PICK u : u = work
    OBVIOUS
  <1>r. PICK results : results = [i \in 1 .. u.calls |-> Result(Len(u.memory) + i, i \notin Failing)]
    OBVIOUS
  <1>1. /\ u.at = "executing" /\ u.todo = <<>>
        /\ UNCHANGED <<capture, thinking, tables, exported>>
        /\ work' = [u EXCEPT !.at = "turn", !.memory = @ \o results, !.todo = Write(OnTools(u, results))]
        /\ ran' = [ran EXCEPT ![u.phase] = @ \cup {results[i].id : i \in DOMAIN results}]
    BY <1>u, <1>r DEF CarryOutTools, Ready, Rest
  <1>2. /\ u \in Working /\ u.memory \in Seq(Said) /\ Len(u.memory) \in Nat /\ u.phase \in PhaseIds
        /\ u.calls \in Nat
        /\ \A i \in DOMAIN u.memory : u.memory[i].id = i
        /\ TablesOK /\ ran \in [PhaseIds -> SUBSET Nat]
        /\ Founded(u) /\ Closing(u) /\ Telling(u, ran) /\ Answering(u)
    <2>1. work.at # "idle"
      BY <1>u, <1>1
    <2> QED BY <1>u, <2>1, UnderWay, WorkingFields DEF TraceInv
  <1>n. PICK memory : memory = u.memory \o results
    OBVIOUS
  <1>3. /\ results \in Seq(Said) /\ Len(results) = u.calls /\ DOMAIN results = 1 .. u.calls
        /\ \A i \in 1 .. u.calls : results[i].id = Len(u.memory) + i
        /\ memory \in Seq(Said) /\ Len(memory) = Len(u.memory) + u.calls
        /\ \A i \in DOMAIN memory : memory[i].id = i
    <2>1. results = Results(u.memory, u.calls)
      BY <1>r DEF Results
    <2>2. GrowsBy(u.memory, u.calls, results, memory)
      BY <1>n, <1>2, <2>1, ResultsAre
    <2> QED BY <2>2 DEF GrowsBy
  <1>l. PICK list : list = OnTools(u, results)
    OBVIOUS
  <1>4. /\ list \in Seq(Statement)
        /\ \A i \in DOMAIN list :
              /\ list[i].table \in {"events", "messages"} /\ Concerns(u, list[i])
              /\ list[i].table = "messages" =>
                    /\ list[i].row.source = "tool_result"
                    /\ \E k \in DOMAIN results : i = 2 * k /\ list[i].row.id = results[k].id
        /\ \A k \in DOMAIN results :
              /\ 2 * k \in DOMAIN list /\ list[2 * k].table = "messages"
              /\ list[2 * k].row.id = results[k].id
    <2>1. results \in Seq(Said) /\ u \in Working
      BY <1>2, <1>3
    <2>2. list \in Seq(Statement) /\ TellsOf(u, results, list)
      BY <1>l, <2>1, OnToolsIs
    <2> QED BY <2>2 DEF TellsOf
  <1>t. PICK todo : todo = Write(list)
    OBVIOUS
  <1>5. /\ todo \in Seq(Statement)
        /\ capture = "off" => todo = <<>>
        /\ capture # "off" => todo = list
        /\ \A i \in DOMAIN todo : i \in DOMAIN list /\ todo[i] = list[i]
    BY <1>t, <1>4, WriteIs
  <1>w. PICK w : w = [u EXCEPT !.at = "turn", !.memory = memory, !.todo = todo]
    OBVIOUS
  <1>6. w = work'
    BY <1>1, <1>n, <1>l, <1>t, <1>w
  <1>7. /\ w \in Working /\ w.at = "turn" /\ w.todo = todo
        /\ w.run = u.run /\ w.phase = u.phase /\ w.role = u.role /\ w.attempt = u.attempt
        /\ w.memory = memory
    BY <1>w, <1>2, <1>3, <1>5 DEF Working, Stages
  <1>8. /\ w.at # "idle" /\ w.at # "starting" /\ ~Ended(w) /\ ~Ended(u) /\ u.at # "starting" /\ u.at # "idle"
        /\ \A i \in DOMAIN w.memory : w.memory[i].id = i
        /\ Len(u.memory) <= Len(w.memory)
    BY <1>1, <1>2, <1>3, <1>7 DEF Ended
  <1>9. Queued(w)
    <2>1. May(w.at) = {"runs", "phases", "events", "messages"}
      BY <1>7, Stages_May
    <2>2. \A s : Concerns(u, s) => Concerns(w, s)
      BY <1>7, SameConcerns
    <2> QED BY <1>4, <1>5, <1>7, <2>1, <2>2 DEF Queued
  <1>10. Founded(w)
    <2>1. capture = "off" => w.todo = <<>>
      BY <1>5, <1>7
    <2> QED BY <1>1, <1>2, <1>7, <1>8, <2>1, FoundedStays
  <1>11. Closing(w)
    <2>1. \A i \in DOMAIN w.todo : w.todo[i].table # "run done"
      BY <1>4, <1>5, <1>7
    <2> QED BY <1>2, <1>7, <1>8, <2>1, ClosingStays
  <1>12. Answering(w)
    <2>1. \A i \in DOMAIN w.todo :
              /\ w.todo[i].table # "examples"
              /\ w.todo[i].table = "messages" => w.todo[i].row.source # "assistant_response"
      BY <1>4, <1>5, <1>7
    <2>2. w.at \notin {"finalizing", "completing"}
      BY <1>7
    <2> QED BY <1>1, <1>2, <1>7, <1>8, <2>1, <2>2, AnsweringStays
  <1>c. PICK carried : carried = ran'
    OBVIOUS
  <1>i. PICK ids : ids = {results[i].id : i \in DOMAIN results}
    OBVIOUS
  <1>13. \A id : id \in ids <=> \E k \in 1 .. u.calls : id = Len(u.memory) + k
    BY <1>i, <1>3
  <1>14. /\ carried \in [PhaseIds -> SUBSET Nat]
         /\ carried[u.phase] = ran[u.phase] \cup ids
         /\ \A p \in PhaseIds : p # u.phase => carried[p] = ran[p]
    <2>1. ids \subseteq Nat
      BY <1>2, <1>13
    <2> QED BY <1>c, <1>i, <1>1, <1>2, <2>1
  <1>15. Telling(w, carried)
    <2>n. PICK n \in Nat : n = Len(u.memory)
      BY <1>2
    <2>c. PICK calls \in Nat : calls = u.calls
      BY <1>2
    <2>1. ASSUME NEW id \in carried[w.phase]
          PROVE  id <= Len(w.memory)
      <3>0. Len(w.memory) = n + calls
        BY <1>3, <1>7, <2>n, <2>c
      <3>1. CASE id \in ids
        <4>1. PICK k \in 1 .. calls : id = n + k
          BY <1>13, <2>n, <2>c, <3>1
        <4> QED BY <3>0, <4>1
      <3>2. CASE id \in ran[u.phase]
        <4>1. id \in Nat /\ id <= n
          BY <1>2, <2>n, <3>2 DEF Telling
        <4> QED BY <3>0, <4>1
      <3> QED BY <1>7, <1>14, <2>1, <3>1, <3>2
    <2>2. ASSUME capture # "off"
          PROVE  /\ carried[w.phase] = Told(w.phase, "tool_result") \cup ComingIds(w, "tool_result")
                 /\ \A i, j \in Coming(w, "tool_result") : i < j => w.todo[i].row.id < w.todo[j].row.id
                 /\ \A id \in Told(w.phase, "tool_result"), next \in ComingIds(w, "tool_result") : id < next
      <3>1. w.todo = list
        BY <1>5, <1>7, <2>2
      <3>2. \A i : i \in Coming(w, "tool_result") <=> i \in DOMAIN list /\ list[i].table = "messages"
        BY <1>4, <3>1 DEF Coming
      <3>3. ASSUME NEW i \in Coming(w, "tool_result")
            PROVE  \E k \in 1 .. calls : i = 2 * k /\ w.todo[i].row.id = n + k
        <4>1. i \in DOMAIN list /\ list[i].table = "messages"
          BY <3>2
        <4>2. PICK k \in DOMAIN results : i = 2 * k /\ list[i].row.id = results[k].id
          BY <1>4, <4>1
        <4> QED BY <1>3, <2>n, <2>c, <3>1, <4>2
      <3>4. ASSUME NEW k \in 1 .. calls
            PROVE  2 * k \in Coming(w, "tool_result") /\ w.todo[2 * k].row.id = n + k
        <4>1. k \in DOMAIN results /\ results[k].id = n + k
          BY <1>3, <2>n, <2>c
        <4>2. 2 * k \in DOMAIN list /\ list[2 * k].table = "messages" /\ list[2 * k].row.id = results[k].id
          BY <1>4, <4>1
        <4> QED BY <3>1, <3>2, <4>1, <4>2
      <3>5. ComingIds(w, "tool_result") = ids
        <4>1. \A id : id \in ids <=> \E k \in 1 .. calls : id = n + k
          BY <1>13, <2>n, <2>c
        <4>2. \A id : id \in ComingIds(w, "tool_result") <=>
                  \E i \in Coming(w, "tool_result") : id = w.todo[i].row.id
          BY DEF ComingIds
        <4>3. ASSUME NEW id \in ComingIds(w, "tool_result")
              PROVE  id \in ids
          <5>1. PICK i \in Coming(w, "tool_result") : id = w.todo[i].row.id
            BY <4>2
          <5>2. PICK k \in 1 .. calls : w.todo[i].row.id = n + k
            BY <3>3
          <5> QED BY <4>1, <5>1, <5>2
        <4>4. \A id : id \in ids => id \in ComingIds(w, "tool_result")
          BY <3>4, <4>1, <4>2
        <4> QED BY <4>3, <4>4
      <3>6. ran[u.phase] = Told(u.phase, "tool_result")
        <4>1. Coming(u, "tool_result") = {}
          BY <1>1 DEF Coming
        <4>2. ComingIds(u, "tool_result") = {}
          BY <4>1 DEF ComingIds
        <4> QED BY <1>2, <2>2, <4>2 DEF Telling
      <3>7. ASSUME NEW i \in Coming(w, "tool_result"), NEW j \in Coming(w, "tool_result"), i < j
            PROVE  w.todo[i].row.id < w.todo[j].row.id
        <4>1. PICK k \in 1 .. calls : i = 2 * k /\ w.todo[i].row.id = n + k
          BY <3>3
        <4>2. PICK l \in 1 .. calls : j = 2 * l /\ w.todo[j].row.id = n + l
          BY <3>3
        <4>3. k < l
          BY <3>7, <4>1, <4>2
        <4> QED BY <4>1, <4>2, <4>3
      <3>8. ASSUME NEW id \in Told(w.phase, "tool_result"), NEW next \in ComingIds(w, "tool_result")
            PROVE  id < next
        <4>1. PICK k \in 1 .. calls : next = n + k
          BY <1>13, <2>n, <2>c, <3>5
        <4>2. id \in ran[u.phase]
          BY <1>7, <3>6
        <4>3. id \in Nat /\ id <= n
          BY <1>2, <2>n, <4>2 DEF Telling
        <4> QED BY <4>1, <4>3
      <3>9. carried[w.phase] = Told(w.phase, "tool_result") \cup ComingIds(w, "tool_result")
        BY <1>7, <1>14, <3>5, <3>6
      <3> QED BY <3>7, <3>8, <3>9
    <2> QED BY <2>1, <2>2 DEF Telling
  <1>16. UNCHANGED <<capture, thinking, tables, exported>> /\ u \in Working
    BY <1>1, <1>2
  <1>17. carried \in [PhaseIds -> SUBSET Nat] /\ \A p \in PhaseIds : p # u.phase => carried[p] = ran[p]
    BY <1>14
  <1> QED BY <1>u, <1>c, <1>6, <1>7, <1>8, <1>9, <1>10, <1>11, <1>12, <1>15, <1>16, <1>17, GoesOn

\* The workflow of a phase ends well.
LEMMA CompletePhaseKeeps ==
    ASSUME TraceInv, CompletePhase
    PROVE  TraceInv'
  <1>u. PICK u : u = work
    OBVIOUS
  <1>l. PICK list : list = OnCompleted(u)
    OBVIOUS
  <1>t. PICK todo : todo = Write(list)
    OBVIOUS
  <1>w. PICK w : w = [u EXCEPT !.at = "completed", !.todo = todo]
    OBVIOUS
  <1>1. /\ u.at = "completing" /\ u.todo = <<>> /\ w = work'
        /\ UNCHANGED <<capture, thinking, tables, exported, ran>>
    BY <1>u, <1>l, <1>t, <1>w DEF CompletePhase, Ready, Rest
  <1>2. /\ u \in Working /\ u.memory \in Seq(Said) /\ Len(u.memory) \in Nat /\ u.phase \in PhaseIds
        /\ \A i \in DOMAIN u.memory : u.memory[i].id = i
        /\ TablesOK /\ ran \in [PhaseIds -> SUBSET Nat]
        /\ Founded(u) /\ Closing(u) /\ Telling(u, ran) /\ Answering(u)
    <2>1. work.at # "idle"
      BY <1>u, <1>1
    <2> QED BY <1>u, <2>1, UnderWay DEF TraceInv
  <1>3. list \in Seq(Statement) /\ EndsPhase(u, list)
    BY <1>l, <1>2, OnCompletedIs
  <1>4. /\ todo \in Seq(Statement)
        /\ capture = "off" => todo = <<>>
        /\ capture # "off" => todo = list
        /\ \A i \in DOMAIN todo : i \in DOMAIN list /\ todo[i] = list[i]
    BY <1>t, <1>3, WriteIs
  <1>5. /\ w \in Working /\ w.at = "completed" /\ w.todo = todo
        /\ w.run = u.run /\ w.phase = u.phase /\ w.role = u.role /\ w.attempt = u.attempt
        /\ w.memory = u.memory /\ w.completes = u.completes
    BY <1>w, <1>2, <1>4 DEF Working, Stages
  <1>6. /\ w.at # "idle" /\ w.at # "starting" /\ ~Ended(u) /\ u.at # "starting" /\ u.at # "idle"
        /\ \A i \in DOMAIN w.memory : w.memory[i].id = i
        /\ Len(u.memory) <= Len(w.memory)
    BY <1>1, <1>2, <1>5 DEF Ended
  <1>7. \A i \in DOMAIN todo :
            /\ todo[i].table \in {"phase done", "run done", "examples"} /\ Concerns(u, todo[i])
            /\ todo[i].table = "run done" => u.completes
            /\ todo[i].table = "examples" =>
                  /\ u.memory # <<>> /\ Last(u.memory).role = "assistant"
                  /\ todo[i].row.output.id = Last(u.memory).id
    BY <1>3, <1>4 DEF EndsPhase
  <1>8. Queued(w)
    <2>1. May(w.at) = {"phase done", "run done", "examples"}
      BY <1>5, Stages_May
    <2>2. \A s : Concerns(u, s) => Concerns(w, s)
      BY <1>5, SameConcerns
    <2> QED BY <1>4, <1>5, <1>7, <2>1, <2>2 DEF Queued
  <1>9. Founded(w)
    <2>1. capture = "off" => w.todo = <<>>
      BY <1>4, <1>5
    <2> QED BY <1>1, <1>2, <1>5, <1>6, <2>1, FoundedStays
  <1>10. Closing(w)
    <2>1. ~w.completes => \A i \in DOMAIN w.todo : w.todo[i].table # "run done"
      BY <1>5, <1>7
    <2>2. w.run \in DOMAIN runs => runs[w.run].status = "running"
      BY <1>2, <1>5, <1>6 DEF Closing
    <2>3. capture # "off" => w.todo # <<>> /\ w.todo[1].table = "phase done"
      BY <1>3, <1>4, <1>5 DEF EndsPhase
    <2>4. \A p \in DOMAIN phases : p[1] = w.run =>
              p[2] <= w.phase[2] /\ (p # w.phase => phases[p].status = "completed")
      BY <1>2, <1>5 DEF Closing
    <2>5. Ended(w) /\ w.at # "returning"
      BY <1>5 DEF Ended
    <2> QED BY <2>1, <2>2, <2>3, <2>4, <2>5 DEF Closing
  <1>c. PICK carried : carried = ran
    OBVIOUS
  <1>11. Telling(w, carried)
    <2>1. \A i \in DOMAIN w.todo : w.todo[i].table = "messages" => w.todo[i].row.source # "tool_result"
      BY <1>5, <1>7
    <2> QED BY <1>c, <1>1, <1>2, <1>5, <1>6, <2>1, TellingStays
  <1>12. Answering(w)
    <2>1. Coming(w, "assistant_response") = {} /\ Coming(u, "assistant_response") = {}
      <3>1. \A i \in DOMAIN w.todo : w.todo[i].table # "messages"
        BY <1>5, <1>7
      <3>2. Coming(w, "assistant_response") = {}
        BY <3>1 DEF Coming
      <3>3. Coming(u, "assistant_response") = {}
        BY <1>1 DEF Coming
      <3> QED BY <3>2, <3>3
    <2>2. ComingIds(w, "assistant_response") = {} /\ ComingIds(u, "assistant_response") = {}
      BY <2>1 DEF ComingIds
    <2>a. PICK answers : answers = Told(w.phase, "assistant_response")
      OBVIOUS
    <2>3. ASSUME capture # "off"
          PROVE  /\ \A id \in answers : id <= Len(w.memory)
                 /\ \A i \in DOMAIN w.todo :
                       w.todo[i].table = "examples" =>
                           /\ w.todo[i].row.output.id \in answers
                           /\ \A other \in answers : other <= w.todo[i].row.output.id
      <3>1. \A id \in answers : id <= Len(w.memory)
        BY <1>2, <1>5, <2>2, <2>3, <2>a DEF Answering
      <3>2. ASSUME NEW i \in DOMAIN w.todo, w.todo[i].table = "examples"
            PROVE  w.todo[i].row.output.id = Len(w.memory) /\ Len(w.memory) \in answers
        <4>1. /\ w.memory # <<>> /\ Last(w.memory).role = "assistant"
              /\ w.todo[i].row.output.id = Last(w.memory).id
          BY <1>5, <1>7, <3>2
        <4>2. Last(w.memory).id = Len(w.memory)
          <5>1. PICK memory \in Seq(Said) : memory = w.memory
            BY <1>2, <1>5
          <5>2. memory # <<>> /\ \A j \in DOMAIN memory : memory[j].id = j
            BY <1>6, <4>1, <5>1
          <5>3. Len(memory) \in DOMAIN memory /\ Last(memory) = memory[Len(memory)]
            BY <5>2 DEF Last
          <5> QED BY <5>1, <5>2, <5>3
        <4>3. Len(w.memory) \in answers
          BY <1>1, <1>2, <1>5, <2>2, <2>3, <2>a, <4>1 DEF Answering
        <4> QED BY <4>1, <4>2, <4>3
      <3> QED BY <3>1, <3>2
    <2> QED BY <1>5, <2>2, <2>3, <2>a DEF Answering
  <1>13. carried = ran' /\ carried \in [PhaseIds -> SUBSET Nat] /\ \A p \in PhaseIds : p # u.phase => carried[p] = ran[p]
    BY <1>1, <1>2, <1>c
  <1> QED BY <1>u, <1>1, <1>2, <1>5, <1>6, <1>8, <1>9, <1>10, <1>11, <1>12, <1>13, GoesOn

----------------------------------------------------------------------------
(* TraceStore: the invariant, where the run leaves a phase.                *)

\* A phase that is left has told all that it will: what is stored of it is the
\* beginning of what it did, and all of it if it is completed.
LEMMA LeftIsTold ==
    ASSUME TraceInv, work.at # "idle", work.phase \in DOMAIN phases
    PROVE  IsTold(work.phase)
  <1>u. PICK u : u = work
    OBVIOUS
  <1>p. PICK p : p = u.phase
    OBVIOUS
  <1>1. /\ u \in Working /\ p \in PhaseIds /\ Queued(u) /\ Closing(u) /\ Telling(u, ran)
    BY <1>u, <1>p, UnderWay
  <1>2. /\ TablesOK /\ InOrder(p) /\ ran \in [PhaseIds -> SUBSET Nat] /\ p \in DOMAIN phases
    BY <1>u, <1>p, <1>1 DEF TraceInv, Past
  <1>3. capture # "off"
    BY <1>2 DEF TablesOK
  <1>t. PICK told : told = Told(p, "tool_result")
    OBVIOUS
  <1>c. PICK coming : coming = ComingIds(u, "tool_result")
    OBVIOUS
  <1>4. /\ ran[p] = told \cup coming
        /\ \A id \in told, next \in coming : id < next
    BY <1>p, <1>t, <1>c, <1>1, <1>3 DEF Telling
  <1>5. told \subseteq Nat /\ coming \subseteq Nat
    BY <1>1, <1>2, <1>4
  <1>6. phases[p].status = "completed" => coming = {}
    <2>1. ASSUME phases[p].status = "completed"
          PROVE  coming = {}
      <3>1. Ended(u)
        BY <1>p, <1>1, <1>2, <2>1 DEF Closing
      <3>2. May(u.at) \subseteq {"phase done", "run done", "examples"}
        BY <3>1, Stages_May DEF Ended
      <3>3. \A i \in DOMAIN u.todo : u.todo[i].table # "messages"
        BY <1>1, <3>2 DEF Queued
      <3>4. Coming(u, "tool_result") = {}
        BY <3>3 DEF Coming
      <3> QED BY <1>c, <3>4 DEF ComingIds
    <2> QED BY <2>1
  <1>7. ASSUME NEW id \in told, NEW earlier \in ran[p], earlier < id
        PROVE  earlier \in told
    <2>1. CASE earlier \in coming
      <3>1. id < earlier /\ id \in Nat /\ earlier \in Nat
        BY <1>4, <1>5, <2>1
      <3> QED BY <1>7, <3>1
    <2> QED BY <1>4, <2>1
  <1>8. /\ told \subseteq ran[p]
        /\ phases[p].status = "completed" => told = ran[p]
    BY <1>4, <1>6
  <1>9. IsTold(p)
    BY <1>2, <1>t, <1>7, <1>8 DEF IsTold, InOrder
  <1> QED BY <1>u, <1>p, <1>9

\* Every phase is told when none is under way.
LEMMA AllTold ==
    ASSUME TraceInv
    PROVE  \A p \in DOMAIN phases : IsTold(p)
  <1>1. \A p \in DOMAIN phases : work.at = "idle" \/ p # work.phase => IsTold(p)
    BY DEF TraceInv, Past
  <1> QED BY <1>1, LeftIsTold

\* The run is over, or is stopped.
LEMMA LeavingKeeps ==
    ASSUME TraceInv, work.at # "idle", work' = [NoRun EXCEPT !.run = work.run],
           UNCHANGED <<capture, thinking, tables, exported, ran>>
    PROVE  TraceInv'
  <1>u. PICK u : u = work
    OBVIOUS
  <1>w. PICK w : w = [NoRun EXCEPT !.run = u.run]
    OBVIOUS
  <1>c. PICK carried : carried = ran
    OBVIOUS
  <1>1. /\ u \in Working /\ TablesOK /\ Past(u, carried) /\ u.at # "idle"
    BY <1>u, <1>c, UnderWay DEF TraceInv
  <1>2. w.at = "idle" /\ w.run = u.run /\ w = [at |-> "idle", run |-> u.run]
    BY <1>w DEF NoRun
  <1>3. WorkTyped(w)
    <2>1. u.run \in Runs
      BY <1>1, WorkingFields
    <2>2. u.run \in 0 .. MaxRuns
      BY <2>1, Numbers
    <2> QED BY <1>2, <2>2 DEF WorkTyped
  <1>4. \A p \in PhaseIds : Untouched(w, p) => Untouched(u, p)
    BY <1>2 DEF Untouched
  <1>5. \A p \in DOMAIN phases : IsTold(p)
    BY AllTold
  <1>6. Past(w, carried)
    BY <1>1, <1>2, <1>4, <1>5 DEF Past
  <1>7. Underway(w, carried)
    BY <1>2 DEF Underway
  <1>8. w = work' /\ carried = ran' /\ \A p \in PhaseIds : carried[p] = ran[p]
    BY <1>u, <1>w, <1>c
  <1> QED BY <1>1, <1>3, <1>6, <1>7, <1>8, Unmoved

\* The workflow of a phase, before it starts.
StartsPhase(w, run, k, todo) ==
    /\ w \in Working /\ WorkTyped(w) /\ w.at = "starting" /\ w.run = run /\ w.phase = <<run, k>>
    /\ w.todo = todo

\* A phase starts with its conversation, and with the opening of the run if it is
\* the first.
LEMMA PhaseIs ==
    ASSUME NEW run \in Runs, NEW k \in Nat, NEW mode \in Modes, NEW role \in Parts,
           NEW attempt \in 1 .. MaxAttempts, NEW todo \in Seq(Statement), k = Place(role, attempt)
    PROVE  StartsPhase([Phase(run, k, mode, role, attempt) EXCEPT !.todo = todo], run, k, todo)
  <1> PICK w : w = [Phase(run, k, mode, role, attempt) EXCEPT !.todo = todo]
    OBVIOUS
  <1>1. k \in 0 .. 2 * MaxAttempts
    <2>1. MaxAttempts \in Nat
      BY TraceStoreAssumption
    <2> QED BY <2>1 DEF Place
  <1>2. <<run, k>> \in PhaseIds
    BY <1>1 DEF PhaseIds
  <1>3. /\ Conversation \in Seq(Said) /\ Len(Conversation) = 3
        /\ \A i \in DOMAIN Conversation : Conversation[i].id = i
    BY ConversationPlaces
  <1>4. PICK completes \in BOOLEAN : completes = (mode \in {"single", "direct"})
    <2>1. CASE mode \in {"single", "direct"}
      <3>1. TRUE = (mode \in {"single", "direct"}) /\ TRUE \in BOOLEAN
        BY ONLY <2>1
      <3> QED BY ONLY <3>1
    <2>2. CASE mode \notin {"single", "direct"}
      <3>1. FALSE = (mode \in {"single", "direct"}) /\ FALSE \in BOOLEAN
        BY ONLY <2>2
      <3> QED BY ONLY <3>1
    <2> QED BY ONLY <2>1, <2>2
  <1> PICK memory : memory = Conversation
    OBVIOUS
  <1>5. w = [at |-> "starting", run |-> run, phase |-> <<run, k>>, mode |-> mode, role |-> role,
             attempt |-> attempt, completes |-> completes, step |-> 0, calls |-> 0,
             memory |-> memory, todo |-> todo]
    BY <1>4 DEF Phase
  <1>6. /\ w \in Working /\ w.at = "starting" /\ w.run = run /\ w.phase = <<run, k>>
        /\ w.todo = todo /\ w.memory = memory /\ w.role = role /\ w.attempt = attempt
    <2>1. memory \in Seq(Said)
      BY <1>3
    <2>2. PICK phase \in PhaseIds : phase = <<run, k>>
      BY <1>2
    <2>3. w = [at |-> "starting", run |-> run, phase |-> phase, mode |-> mode, role |-> role,
               attempt |-> attempt, completes |-> completes, step |-> 0, calls |-> 0,
               memory |-> memory, todo |-> todo]
      BY <1>5, <2>2
    <2>4. /\ run \in Runs /\ mode \in Modes /\ role \in Parts /\ attempt \in 1 .. MaxAttempts
          /\ completes \in BOOLEAN /\ todo \in Seq(Statement) /\ phase \in PhaseIds
          /\ "starting" \in Stages /\ 0 \in Nat
      BY DEF Stages
    <2>5. w \in Working
      BY ONLY <2>1, <2>3, <2>4 DEF Working
    <2>6. /\ w.at = "starting" /\ w.run = run /\ w.phase = phase
          /\ w.todo = todo /\ w.memory = memory /\ w.role = role /\ w.attempt = attempt
      BY ONLY <2>3
    <2> QED BY <2>2, <2>5, <2>6
  <1>7. WorkTyped(w)
    BY <1>3, <1>6 DEF WorkTyped
  <1>8. StartsPhase(w, run, k, todo)
    BY <1>6, <1>7 DEF StartsPhase
  <1> QED BY <1>8

\* Nothing has been done in the phase that is about to start, and no message of it
\* is to be written.
LEMMA NothingTold ==
    ASSUME NEW w, NEW carried, messages[w.phase] = <<>>, carried[w.phase] = {},
           w.at = "starting",
           \A i \in DOMAIN w.todo : w.todo[i].table \in {"runs", "events"}
    PROVE  Telling(w, carried) /\ Answering(w)
  <1>1. \A source : Told(w.phase, source) = {}
    <2>1. \A source : RowsFrom(w.phase, source) = {}
      BY DEF RowsFrom
    <2> QED BY <2>1 DEF Told
  <1>2. \A source : Coming(w, source) = {}
    BY DEF Coming
  <1>3. \A source : ComingIds(w, source) = {}
    BY <1>2 DEF ComingIds
  <1>4. Telling(w, carried)
    BY <1>1, <1>2, <1>3 DEF Telling
  <1>5. \A i \in DOMAIN w.todo : w.todo[i].table # "examples"
    OBVIOUS
  <1>6. Answering(w)
    BY <1>1, <1>3, <1>5 DEF Answering
  <1> QED BY <1>4, <1>6

\* A prompt is run.
LEMMA BeginKeeps ==
    ASSUME TraceInv, NEW mode \in Modes, Begin(mode)
    PROVE  TraceInv'
  <1>u. PICK u : u = work
    OBVIOUS
  <1>r. PICK run : run = u.run + 1
    OBVIOUS
  <1>l. PICK list : list = Opening(run, mode)
    OBVIOUS
  <1>t. PICK todo : todo = Write(list)
    OBVIOUS
  <1>o. PICK role : role = IF mode = "single" THEN "single" ELSE IF mode = "direct" THEN "direct_answer"
                           ELSE "planner"
    OBVIOUS
  <1>w. PICK w : w = [Phase(run, 0, mode, role, 1) EXCEPT !.todo = todo]
    OBVIOUS
  <1>c. PICK carried : carried = ran
    OBVIOUS
  <1>1. /\ u.at = "idle" /\ run \in Runs /\ w = work' /\ carried = ran'
        /\ UNCHANGED <<capture, thinking, tables, exported>>
    BY <1>u, <1>r, <1>l, <1>t, <1>o, <1>w, <1>c DEF Begin, Rest
  <1>2. TablesOK /\ WorkTyped(u) /\ Past(u, carried)
    BY <1>u, <1>c DEF TraceInv
  <1>3. u.run \in Nat /\ run \in Nat /\ run > u.run
    <2>1. u \in [at : {"idle"}, run : 0 .. MaxRuns]
      <3>1. \A v \in Working : v.at # "idle"
        BY WorkingFields DEF Stages
      <3> QED BY <1>1, <1>2, <3>1 DEF WorkTyped
    <2>2. \A r : r \in 0 .. MaxRuns => r \in Nat
      OBVIOUS
    <2>3. u.run \in Nat
      BY <2>1, <2>2
    <2> QED BY <1>r, <2>3
  <1>4. list \in Seq(Statement) /\ OpensRun(run, list)
    BY <1>l, <1>1, OpeningIs
  <1>5. /\ todo \in Seq(Statement)
        /\ capture = "off" => todo = <<>>
        /\ capture # "off" => todo = list
        /\ \A i \in DOMAIN todo : i \in DOMAIN list /\ todo[i] = list[i]
    BY <1>t, <1>4, WriteIs
  <1>6. /\ w \in Working /\ WorkTyped(w) /\ w.at = "starting" /\ w.run = run /\ w.phase = <<run, 0>>
        /\ w.todo = todo
    <2>1. role \in Parts /\ role # "worker" /\ role # "reviewer"
      BY <1>o DEF Parts
    <2>2. 0 = Place(role, 1)
      BY <2>1 DEF Place
    <2>3. 1 \in 1 .. MaxAttempts
      BY Numbers
    <2>4. 0 \in Nat
      OBVIOUS
    <2>5. StartsPhase(w, run, 0, todo)
      BY <1>w, <1>1, <1>5, <2>1, <2>2, <2>3, <2>4, PhaseIs
    <2> QED BY <2>5 DEF StartsPhase
  <1>7. w.phase \in PhaseIds /\ w.phase[1] = run /\ w.phase[2] = 0
    BY <1>6, WorkingFields
  <1>8. \A p \in PhaseIds : Untouched(w, p) => Untouched(u, p)
    <2>1. ASSUME NEW p \in PhaseIds, Untouched(w, p)
          PROVE  Untouched(u, p)
      <3>1. p[1] \in Nat
        BY PhaseIdParts
      <3>2. p[1] >= run
        BY <1>3, <1>6, <1>7, <2>1, <3>1 DEF Untouched
      <3>3. p[1] > u.run
        BY <1>3, <3>1, <3>2
      <3> QED BY <3>3 DEF Untouched
    <2> QED BY <2>1
  <1>9. \A r \in DOMAIN runs : r < run
    <2>1. \A r \in DOMAIN runs : r <= u.run /\ r \in Runs
      BY <1>2 DEF Past, TablesOK
    <2>2. \A r \in Runs : r \in Nat
      BY Numbers
    <2>3. ASSUME NEW r \in DOMAIN runs
          PROVE  r < run
      <3>1. r \in Nat /\ r <= u.run
        BY <2>1, <2>2
      <3> QED BY <1>3, <3>1
    <2> QED BY <2>3
  <1>10. /\ \A p \in DOMAIN phases : p[1] # run
         /\ run \notin DOMAIN runs
         /\ w.phase \notin DOMAIN phases
    <2>1. \A p \in DOMAIN phases : p[1] \in DOMAIN runs
      BY <1>2 DEF TablesOK
    <2>2. run \notin DOMAIN runs
      BY <1>3, <1>9
    <2>3. \A p \in DOMAIN phases : p[1] # run
      BY <2>1, <2>2
    <2> QED BY <1>7, <2>2, <2>3
  <1>11. Past(w, carried)
    <2>1. \A r \in DOMAIN runs : r <= w.run
      <3>1. ASSUME NEW r \in DOMAIN runs
            PROVE  r <= run
        <4>1. r \in Runs /\ r < run
          BY <1>2, <1>9 DEF TablesOK
        <4>2. r \in Nat
          BY <4>1, Numbers
        <4> QED BY <1>3, <4>1, <4>2
      <3> QED BY <1>6, <3>1
    <2> QED BY <1>1, <1>2, <1>8, <2>1 DEF Past
  <1>12. \A i \in DOMAIN w.todo :
             /\ w.todo[i].table \in {"runs", "events"}
             /\ w.todo[i].table = "runs" => w.todo[i].id = run
             /\ w.todo[i].table = "events" =>
                   i > 1 /\ w.todo[i].row.run = run /\ w.todo[i].row.phase = NoPhase
    BY <1>4, <1>5, <1>6 DEF OpensRun
  <1>13. Queued(w)
    <2>1. May(w.at) = {"runs", "events"}
      BY <1>6, Stages_May
    <2>2. \A i \in DOMAIN w.todo : Concerns(w, w.todo[i])
      BY <1>6, <1>12 DEF Concerns
    <2> QED BY <1>5, <1>6, <1>12, <2>1, <2>2 DEF Queued
  <1>14. Founded(w)
    <2>1. ASSUME NEW i \in DOMAIN w.todo, w.todo[i].table = "events"
          PROVE  RunBefore(w, i)
      <3>1. w.todo \in Seq(Statement) /\ w.todo # <<>>
        BY <1>5, <1>6, <2>1
      <3>2. 1 \in DOMAIN w.todo
        BY <3>1
      <3>3. w.todo[1].table = "runs" /\ i > 1
        BY <1>4, <1>5, <1>6, <1>12, <2>1, <3>1 DEF OpensRun
      <3> QED BY <3>2, <3>3 DEF RunBefore
    <2> QED BY <1>6, <1>12, <2>1 DEF Founded
  <1>15. Closing(w)
    <2>1. ~Ended(w)
      BY <1>6 DEF Ended
    <2>2. \A i \in DOMAIN w.todo : w.todo[i].table # "run done"
      BY <1>12
    <2> QED BY <1>6, <1>10, <2>1, <2>2 DEF Closing, Ended
  <1>16. Telling(w, carried) /\ Answering(w)
    <2>1. Untouched(w, w.phase)
      BY <1>6, <1>7 DEF Untouched
    <2>2. messages[w.phase] = <<>> /\ carried[w.phase] = {}
      BY <1>7, <1>11, <2>1 DEF Past
    <2>3. \A i \in DOMAIN w.todo : w.todo[i].table \in {"runs", "events"}
      BY <1>12
    <2> QED BY <1>6, <2>2, <2>3, NothingTold
  <1>17. Underway(w, carried)
    BY <1>13, <1>14, <1>15, <1>16 DEF Underway
  <1>18. \A p \in PhaseIds : carried[p] = ran[p]
    BY <1>c
  <1> QED BY <1>1, <1>2, <1>6, <1>11, <1>17, <1>18, Unmoved

\* The next phase of the team follows one that is completed.
LEMMA NextPhaseKeeps ==
    ASSUME TraceInv, work.at = "completed", work.todo = <<>>, ~work.completes,
           UNCHANGED <<capture, thinking, tables, exported, ran>>,
           NEW k \in Nat, k = work.phase[2] + 1,
           NEW role \in Parts, NEW attempt \in 1 .. MaxAttempts, k = Place(role, attempt),
           work' = Phase(work.run, k, work.mode, role, attempt)
    PROVE  TraceInv'
  <1>u. PICK u : u = work
    OBVIOUS
  <1>c. PICK carried : carried = ran
    OBVIOUS
  <1>w. PICK w : w = Phase(u.run, k, u.mode, role, attempt)
    OBVIOUS
  <1>1. /\ u \in Working /\ u.run \in Runs /\ u.mode \in Modes /\ u.phase \in PhaseIds
        /\ TablesOK /\ Past(u, carried) /\ Closing(u)
        /\ u.phase = <<u.run, Place(u.role, u.attempt)>>
    <2>1. work.at # "idle"
      OBVIOUS
    <2>2. u \in Working /\ Closing(u) /\ u.phase = <<u.run, Place(u.role, u.attempt)>> /\ Past(u, carried)
      BY <1>u, <1>c, <2>1, UnderWay DEF TraceInv
    <2> QED BY <2>2, WorkingFields DEF TraceInv
  <1>2. /\ w \in Working /\ WorkTyped(w) /\ w.at = "starting" /\ w.run = u.run /\ w.phase = <<u.run, k>>
        /\ w.todo = <<>>
    <2>1. w = [Phase(u.run, k, u.mode, role, attempt) EXCEPT !.todo = <<>>]
      BY <1>w DEF Phase
    <2>2. <<>> \in Seq(Statement)
      OBVIOUS
    <2>3. StartsPhase(w, u.run, k, <<>>)
      BY <1>1, <2>1, <2>2, PhaseIs
    <2> QED BY <2>3 DEF StartsPhase
  <1>3. /\ w.phase \in PhaseIds /\ w.phase[1] = u.run /\ w.phase[2] = k
        /\ u.phase[1] = u.run /\ u.phase[2] \in Nat /\ k > u.phase[2] /\ u.phase # w.phase
    <2>0. w.phase \in PhaseIds
      BY <1>2, WorkingFields
    <2>1. u.phase[1] = u.run
      BY <1>1
    <2>2. u.phase[2] \in Nat
      BY <1>1, PhaseIdParts
    <2>3. w.phase[1] = u.run /\ w.phase[2] = k
      BY <1>2
    <2>4. k > u.phase[2]
      BY <1>u, <2>2
    <2>5. u.phase # w.phase
      BY <2>2, <2>3, <2>4
    <2> QED BY <2>0, <2>1, <2>2, <2>3, <2>4, <2>5
  <1>4. \A p \in PhaseIds : Untouched(w, p) => Untouched(u, p)
    <2>1. ASSUME NEW p \in PhaseIds, Untouched(w, p)
          PROVE  Untouched(u, p)
      <3>1. p[2] \in Nat
        BY PhaseIdParts
      <3>2. p[1] > u.run \/ (p[1] = u.run /\ p[2] >= k)
        BY <1>2, <1>3, <2>1, <3>1 DEF Untouched
      <3>3. p[1] > u.run \/ (p[1] = u.run /\ p[2] > u.phase[2])
        BY <1>3, <3>1, <3>2
      <3>4. u.at # "idle"
        BY <1>u
      <3> QED BY <3>3, <3>4 DEF Untouched
    <2> QED BY <2>1
  <1>5. \A p \in DOMAIN phases : IsTold(p)
    BY AllTold
  <1>6. Past(w, carried)
    BY <1>1, <1>2, <1>4, <1>5 DEF Past
  <1>7. \A p \in DOMAIN phases : p[1] = u.run => p[2] <= u.phase[2] /\ phases[p].status = "completed"
    <2>1. ASSUME NEW p \in DOMAIN phases, p[1] = u.run
          PROVE  p[2] <= u.phase[2] /\ phases[p].status = "completed"
      <3>1. p[2] <= u.phase[2] /\ (p # u.phase => phases[p].status = "completed")
        BY <1>1, <2>1 DEF Closing
      <3>2. capture # "off"
        BY <1>1, <2>1 DEF TablesOK
      <3>3. phases[u.phase].status = "completed"
        BY <1>u, <1>1, <3>2 DEF Closing
      <3> QED BY <3>1, <3>3
    <2> QED BY <2>1
  <1>8. w.phase \notin DOMAIN phases
    BY <1>3, <1>7
  <1>9. Closing(w)
    <2>1. ~Ended(w)
      BY <1>2 DEF Ended
    <2>2. u.run \in DOMAIN runs => runs[u.run].status = "running"
      BY <1>u, <1>1 DEF Closing
    <2>3. ASSUME NEW p \in DOMAIN phases, p[1] = w.run
          PROVE  p[2] <= w.phase[2] /\ phases[p].status = "completed"
      <3>1. p[2] <= u.phase[2] /\ phases[p].status = "completed"
        BY <1>2, <1>7, <2>3
      <3>2. p[2] \in Nat
        BY <1>1, PhaseIdParts DEF TablesOK
      <3> QED BY <1>3, <3>1, <3>2
    <2> QED BY <1>2, <1>8, <2>1, <2>2, <2>3 DEF Closing, Ended
  <1>10. Queued(w) /\ Founded(w)
    BY <1>2 DEF Queued, Founded
  <1>11. Telling(w, carried) /\ Answering(w)
    <2>1. Untouched(w, w.phase)
      BY <1>2, <1>3 DEF Untouched
    <2>2. messages[w.phase] = <<>> /\ carried[w.phase] = {}
      BY <1>3, <1>6, <2>1 DEF Past
    <2>3. \A i \in DOMAIN w.todo : w.todo[i].table \in {"runs", "events"}
      BY <1>2
    <2> QED BY <1>2, <2>2, <2>3, NothingTold
  <1>12. Underway(w, carried)
    BY <1>9, <1>10, <1>11 DEF Underway
  <1>13. w = work' /\ carried = ran' /\ \A p \in PhaseIds : carried[p] = ran[p]
    BY <1>u, <1>w, <1>c
  <1> QED BY <1>1, <1>2, <1>6, <1>12, <1>13, Unmoved

\* The team has done its last phase.
LEMMA TeamEndsKeeps ==
    ASSUME TraceInv, work.at = "completed", work.todo = <<>>,
           UNCHANGED <<capture, thinking, tables, exported, ran>>,
           work' = [work EXCEPT !.at = "returning", !.todo = Write(TeamCompleted(work))]
    PROVE  TraceInv'
  <1>u. PICK u : u = work
    OBVIOUS
  <1>l. PICK list : list = TeamCompleted(u)
    OBVIOUS
  <1>t. PICK todo : todo = Write(list)
    OBVIOUS
  <1>w. PICK w : w = [u EXCEPT !.at = "returning", !.todo = todo]
    OBVIOUS
  <1>1. /\ u.at = "completed" /\ u.todo = <<>> /\ w = work'
        /\ UNCHANGED <<capture, thinking, tables, exported, ran>>
    BY <1>u, <1>l, <1>t, <1>w
  <1>2. /\ u \in Working /\ u.memory \in Seq(Said) /\ Len(u.memory) \in Nat /\ u.phase \in PhaseIds
        /\ \A i \in DOMAIN u.memory : u.memory[i].id = i
        /\ TablesOK /\ ran \in [PhaseIds -> SUBSET Nat]
        /\ Founded(u) /\ Closing(u) /\ Telling(u, ran) /\ Answering(u)
    <2>1. work.at # "idle"
      BY <1>u, <1>1
    <2> QED BY <1>u, <2>1, UnderWay DEF TraceInv
  <1>3. list \in Seq(Statement) /\ EndsRun(u, list)
    BY <1>l, <1>2, TeamCompletedIs
  <1>4. /\ todo \in Seq(Statement)
        /\ capture = "off" => todo = <<>>
        /\ capture # "off" => todo = list
        /\ \A i \in DOMAIN todo : i \in DOMAIN list /\ todo[i] = list[i]
    BY <1>t, <1>3, WriteIs
  <1>5. /\ w \in Working /\ w.at = "returning" /\ w.todo = todo
        /\ w.run = u.run /\ w.phase = u.phase /\ w.role = u.role /\ w.attempt = u.attempt
        /\ w.memory = u.memory
    BY <1>w, <1>2, <1>4 DEF Working, Stages
  <1>6. /\ w.at # "idle" /\ w.at # "starting" /\ u.at # "starting" /\ u.at # "idle"
        /\ \A i \in DOMAIN w.memory : w.memory[i].id = i
        /\ Len(u.memory) <= Len(w.memory)
    BY <1>1, <1>2, <1>5
  <1>7. \A i \in DOMAIN todo :
            /\ todo[i].table \in {"run done", "examples"} /\ Concerns(u, todo[i])
            /\ todo[i].table = "examples" =>
                  todo[i].row.phase = NoPhase /\ todo[i].row.type = "team_final"
    BY <1>3, <1>4 DEF EndsRun
  <1>8. Queued(w)
    <2>1. May(w.at) = {"run done", "examples"}
      BY <1>5, Stages_May
    <2>2. \A s : Concerns(u, s) => Concerns(w, s)
      BY <1>5, SameConcerns
    <2> QED BY <1>4, <1>5, <1>7, <2>1, <2>2 DEF Queued
  <1>9. Founded(w)
    <2>1. capture = "off" => w.todo = <<>>
      BY <1>4, <1>5
    <2> QED BY <1>1, <1>2, <1>5, <1>6, <2>1, FoundedStays
  <1>10. Closing(w)
    <2>1. \A p \in DOMAIN phases : p[1] = w.run =>
              p[2] <= w.phase[2] /\ (p # w.phase => phases[p].status = "completed")
      BY <1>2, <1>5 DEF Closing
    <2>2. capture # "off" => phases[w.phase].status = "completed"
      BY <1>1, <1>2, <1>5 DEF Closing
    <2>3. Ended(w) /\ w.at # "completed"
      BY <1>5 DEF Ended
    <2> QED BY <2>1, <2>2, <2>3 DEF Closing
  <1>c. PICK carried : carried = ran
    OBVIOUS
  <1>11. Telling(w, carried)
    <2>1. \A i \in DOMAIN w.todo : w.todo[i].table = "messages" => w.todo[i].row.source # "tool_result"
      BY <1>5, <1>7
    <2> QED BY <1>c, <1>1, <1>2, <1>5, <1>6, <2>1, TellingStays
  <1>12. Answering(w)
    <2>1. Coming(w, "assistant_response") = {} /\ Coming(u, "assistant_response") = {}
      <3>1. \A i \in DOMAIN w.todo : w.todo[i].table # "messages"
        BY <1>5, <1>7
      <3>2. Coming(w, "assistant_response") = {}
        BY <3>1 DEF Coming
      <3>3. Coming(u, "assistant_response") = {}
        BY <1>1 DEF Coming
      <3> QED BY <3>2, <3>3
    <2>2. ComingIds(w, "assistant_response") = {} /\ ComingIds(u, "assistant_response") = {}
      BY <2>1 DEF ComingIds
    <2>3. capture # "off" => \A id \in Told(w.phase, "assistant_response") : id <= Len(w.memory)
      BY <1>2, <1>5, <2>2 DEF Answering
    <2>4. \A i \in DOMAIN w.todo :
              ~(w.todo[i].table = "examples" /\ w.todo[i].row.type = "sft_conversation")
      BY <1>5, <1>7
    <2> QED BY <1>5, <2>2, <2>3, <2>4 DEF Answering
  <1>13. carried = ran' /\ carried \in [PhaseIds -> SUBSET Nat] /\ \A p \in PhaseIds : p # u.phase => carried[p] = ran[p]
    BY <1>1, <1>2, <1>c
  <1> QED BY <1>u, <1>1, <1>2, <1>5, <1>6, <1>8, <1>9, <1>10, <1>11, <1>12, <1>13, GoesOn

\* The team goes on with its next role, or ends.
LEMMA NextRoleKeeps ==
    ASSUME TraceInv, NextRole
    PROVE  TraceInv'
  <1>1. /\ work.at = "completed" /\ work.todo = <<>> /\ ~work.completes
        /\ UNCHANGED <<capture, thinking, tables, exported, ran>>
    BY DEF NextRole, Ready, Rest
  <1>2. /\ work \in Working /\ work.phase = <<work.run, Place(work.role, work.attempt)>>
        /\ work.attempt \in 1 .. MaxAttempts
    <2>1. work.at # "idle"
      BY <1>1
    <2>2. work \in Working /\ work.phase = <<work.run, Place(work.role, work.attempt)>>
      BY <2>1, UnderWay
    <2> QED BY <2>2, WorkingFields
  <1>n. PICK n \in 1 .. MaxAttempts : n = work.attempt
    BY <1>2
  <1>k. PICK k : k = work.phase[2] + 1
    OBVIOUS
  <1>3. work.phase[2] = Place(work.role, n)
    BY <1>2, <1>n
  <1>4. CASE work.role = "planner" /\ work' = Phase(work.run, k, work.mode, "worker", 1)
    <2>1. k = 1
      BY <1>3, <1>4, <1>k DEF Place
    <2>2. k \in Nat /\ k = Place("worker", 1) /\ "worker" \in Parts /\ 1 \in 1 .. MaxAttempts
      BY <2>1, Numbers DEF Place, Parts
    <2> QED BY <1>1, <1>4, <1>k, <2>2, NextPhaseKeeps
  <1>5. CASE work.role = "worker" /\ work' = Phase(work.run, k, work.mode, "reviewer", n)
    <2>1. k = 2 * n
      BY <1>3, <1>5, <1>k DEF Place
    <2>2. k \in Nat /\ k = Place("reviewer", n) /\ "reviewer" \in Parts
      BY <2>1 DEF Place, Parts
    <2> QED BY <1>1, <1>5, <1>k, <2>2, NextPhaseKeeps
  <1>6. CASE /\ work.role = "reviewer" /\ n < MaxAttempts
             /\ work' = Phase(work.run, k, work.mode, "worker", n + 1)
    <2>1. k = 2 * n + 1
      BY <1>3, <1>6, <1>k DEF Place
    <2>2. n + 1 \in 1 .. MaxAttempts
      BY <1>6, Numbers
    <2>3. k \in Nat /\ k = Place("worker", n + 1) /\ "worker" \in Parts
      BY <2>1 DEF Place, Parts
    <2> QED BY <1>1, <1>6, <1>k, <2>2, <2>3, NextPhaseKeeps
  <1>7. CASE work' = [work EXCEPT !.at = "returning", !.todo = Write(TeamCompleted(work))]
    BY <1>1, <1>7, TeamEndsKeeps
  <1> QED BY <1>4, <1>5, <1>6, <1>7, <1>n, <1>k DEF NextRole

----------------------------------------------------------------------------
(* TraceStore: the invariant, where a statement is executed.               *)

\* The first statement is taken from those that are left.
Pops(u, s, w) ==
    /\ w.at = u.at /\ w.run = u.run /\ w.phase = u.phase /\ w.role = u.role /\ w.attempt = u.attempt
    /\ w.completes = u.completes /\ w.memory = u.memory
    /\ u.todo # <<>> /\ s = u.todo[1] /\ 1 \in DOMAIN u.todo
    /\ Len(u.todo) = Len(w.todo) + 1 /\ Len(w.todo) \in Nat
    /\ \A i \in DOMAIN w.todo : i \in Nat /\ i >= 1 /\ i + 1 \in DOMAIN u.todo /\ w.todo[i] = u.todo[i + 1]
    /\ \A i \in DOMAIN u.todo : i \in Nat /\ i >= 1 /\ (i # 1 => i - 1 \in DOMAIN w.todo)

\* A statement that is executed is the first one, and the others move up.
LEMMA Popped ==
    ASSUME NEW u \in Working, u.todo # <<>>
    PROVE  LET w == [u EXCEPT !.todo = Tail(@)]
           IN  w \in Working /\ u.todo[1] \in Statement /\ Pops(u, u.todo[1], w)
  <1>1. PICK todo \in Seq(Statement) : todo = u.todo
    BY WorkingFields
  <1>2. PICK rest : rest = Tail(todo)
    OBVIOUS
  <1>3. PICK n \in Nat : n = Len(todo)
    BY <1>1
  <1>4. /\ rest \in Seq(Statement) /\ Len(rest) = n - 1 /\ n >= 1
        /\ \A i \in 1 .. n - 1 : rest[i] = todo[i + 1]
    BY <1>1, <1>2, <1>3
  <1>5. DOMAIN todo = 1 .. n /\ DOMAIN rest = 1 .. n - 1
    BY <1>1, <1>3, <1>4
  <1>6. /\ \A i \in DOMAIN rest : i \in Nat /\ i >= 1 /\ i + 1 \in DOMAIN todo /\ rest[i] = todo[i + 1]
        /\ \A i \in DOMAIN todo : i \in Nat /\ i >= 1 /\ (i # 1 => i - 1 \in DOMAIN rest)
        /\ 1 \in DOMAIN todo /\ todo[1] \in Statement
        /\ Len(todo) = Len(rest) + 1 /\ Len(rest) \in Nat
    BY <1>1, <1>3, <1>4, <1>5
  <1>7. PICK w : w = [u EXCEPT !.todo = rest]
    OBVIOUS
  <1>8. /\ w \in Working /\ w.todo = rest
        /\ w.at = u.at /\ w.run = u.run /\ w.phase = u.phase /\ w.role = u.role
        /\ w.attempt = u.attempt /\ w.completes = u.completes /\ w.memory = u.memory
    BY <1>4, <1>7 DEF Working
  <1>9. Pops(u, todo[1], w)
    BY <1>1, <1>6, <1>8 DEF Pops
  <1>10. w = [u EXCEPT !.todo = Tail(@)]
    BY <1>1, <1>2, <1>7
  <1> QED BY <1>1, <1>6, <1>8, <1>9, <1>10

\* What a statement does to the tables.
Executed(s) ==
    /\ DOMAIN runs' = DOMAIN runs \cup IF s.table = "runs" THEN {s.id} ELSE {}
    /\ \A r \in DOMAIN runs : s.table # "run done" \/ r # s.id => runs'[r] = runs[r]
    /\ s.table = "runs" /\ s.id \notin DOMAIN runs =>
          runs'[s.id] = [mode |-> s.mode, status |-> "running", prompt |-> s.prompt, answer |-> {}, note |-> s.note]
    /\ s.table = "run done" /\ s.id \in DOMAIN runs =>
          runs'[s.id] = [runs[s.id] EXCEPT !.status = "completed", !.answer = s.answer, !.note = s.note]
    /\ DOMAIN phases' = DOMAIN phases \cup IF s.table = "phases" THEN {s.id} ELSE {}
    /\ \A p \in DOMAIN phases : s.table \notin {"phases", "phase done"} \/ p # s.id => phases'[p] = phases[p]
    /\ s.table = "phases" =>
          phases'[s.id] = [run |-> s.id[1], role |-> s.role, attempt |-> s.attempt, status |-> "running"]
    /\ s.table = "phase done" /\ s.id \in DOMAIN phases =>
          phases'[s.id] = [phases[s.id] EXCEPT !.status = "completed"]
    /\ events' = IF s.table = "events" THEN events \cup {s.row} ELSE events
    /\ messages' = IF s.table = "messages"
                   THEN [messages EXCEPT ![s.phase] = Append(@, s.row)] ELSE messages
    /\ examples' = IF s.table = "examples" THEN Append(examples, s.row) ELSE examples

\* A statement is executed with its parents there.
LEMMA ExecuteIs ==
    ASSUME Execute
    PROVE  /\ work.at # "idle" /\ work.todo # <<>> /\ work' = [work EXCEPT !.todo = Tail(@)]
           /\ Parents(Head(work.todo)) /\ Executed(Head(work.todo))
           /\ UNCHANGED <<capture, thinking, exported, ran>>
  <1>s. PICK s : s = Head(work.todo)
    OBVIOUS
  <1>1. /\ work.at # "idle" /\ work.todo # <<>> /\ work' = [work EXCEPT !.todo = Tail(@)]
        /\ Parents(s) /\ UNCHANGED <<capture, thinking, exported, ran>>
    BY <1>s DEF Execute
  <1>2. runs' =
            CASE s.table = "runs" /\ s.id \notin DOMAIN runs ->
                   Inserted(runs, s.id, [mode |-> s.mode, status |-> "running",
                                         prompt |-> s.prompt, answer |-> {}, note |-> s.note])
              [] s.table = "run done" /\ s.id \in DOMAIN runs ->
                   [runs EXCEPT ![s.id] = [@ EXCEPT !.status = "completed",
                                                    !.answer = s.answer, !.note = s.note]]
              [] OTHER -> runs
    BY <1>s DEF Execute
  <1>3. phases' =
            CASE s.table = "phases" ->
                   Inserted(phases, s.id, [run |-> s.id[1], role |-> s.role,
                                           attempt |-> s.attempt, status |-> "running"])
              [] s.table = "phase done" -> [phases EXCEPT ![s.id].status = "completed"]
              [] OTHER -> phases
    BY <1>s DEF Execute
  <1>4. /\ events' = IF s.table = "events" THEN events \cup {s.row} ELSE events
        /\ messages' = IF s.table = "messages"
                       THEN [messages EXCEPT ![s.phase] = Append(@, s.row)] ELSE messages
        /\ examples' = IF s.table = "examples" THEN Append(examples, s.row) ELSE examples
    BY <1>s DEF Execute
  <1>5. /\ DOMAIN runs' = DOMAIN runs \cup IF s.table = "runs" THEN {s.id} ELSE {}
        /\ \A r \in DOMAIN runs : s.table # "run done" \/ r # s.id => runs'[r] = runs[r]
        /\ s.table = "runs" /\ s.id \notin DOMAIN runs =>
              runs'[s.id] = [mode |-> s.mode, status |-> "running", prompt |-> s.prompt, answer |-> {}, note |-> s.note]
        /\ s.table = "run done" /\ s.id \in DOMAIN runs =>
              runs'[s.id] = [runs[s.id] EXCEPT !.status = "completed", !.answer = s.answer, !.note = s.note]
    <2>1. CASE s.table = "runs" /\ s.id \notin DOMAIN runs
      BY <1>2, <2>1 DEF Inserted
    <2>2. CASE s.table = "run done" /\ s.id \in DOMAIN runs
      BY <1>2, <2>2
    <2>3. CASE ~(s.table = "runs" /\ s.id \notin DOMAIN runs) /\ ~(s.table = "run done" /\ s.id \in DOMAIN runs)
      BY <1>2, <2>3
    <2> QED BY <2>1, <2>2, <2>3
  <1>6. /\ DOMAIN phases' = DOMAIN phases \cup IF s.table = "phases" THEN {s.id} ELSE {}
        /\ \A p \in DOMAIN phases : s.table \notin {"phases", "phase done"} \/ p # s.id => phases'[p] = phases[p]
        /\ s.table = "phases" =>
              phases'[s.id] = [run |-> s.id[1], role |-> s.role, attempt |-> s.attempt, status |-> "running"]
        /\ s.table = "phase done" /\ s.id \in DOMAIN phases =>
              phases'[s.id] = [phases[s.id] EXCEPT !.status = "completed"]
    <2>1. CASE s.table = "phases"
      BY <1>3, <2>1 DEF Inserted
    <2>2. CASE s.table = "phase done"
      BY <1>3, <2>2
    <2>3. CASE s.table # "phases" /\ s.table # "phase done"
      BY <1>3, <2>3
    <2> QED BY <2>1, <2>2, <2>3
  <1>7. Executed(s)
    BY <1>4, <1>5, <1>6 DEF Executed
  <1> QED BY <1>s, <1>1, <1>7

\* The tables stay typed, and every phase keeps its run.
LEMMA TablesStep ==
    ASSUME UNCHANGED <<capture, thinking, exported>>, TablesOK, capture # "off",
           NEW s \in Statement, Parents(s), Executed(s)
    PROVE  TablesOK'
  <1>1. /\ RunRow' = RunRow /\ PhaseRow' = PhaseRow /\ EventRow' = EventRow
        /\ MessageRow' = MessageRow /\ ExampleRow' = ExampleRow
    BY Settings
  <1>2. DOMAIN runs' \subseteq Runs /\ \A r \in DOMAIN runs' : runs'[r] \in RunRow
    <2>1. DOMAIN runs \subseteq Runs /\ \A r \in DOMAIN runs : runs[r] \in RunRow
      BY DEF TablesOK
    <2>2. /\ DOMAIN runs' = DOMAIN runs \cup IF s.table = "runs" THEN {s.id} ELSE {}
          /\ \A r \in DOMAIN runs : s.table # "run done" \/ r # s.id => runs'[r] = runs[r]
      BY DEF Executed
    <2>3. CASE s.table = "runs" /\ s.id \notin DOMAIN runs
      <3>1. s.id \in Runs /\ s.mode \in RunModes /\ s.prompt \in Storable /\ s.note \in SUBSET Left
        BY <2>3, StatementFields
      <3>2. runs'[s.id] = [mode |-> s.mode, status |-> "running", prompt |-> s.prompt, answer |-> {}, note |-> s.note]
        BY <2>3 DEF Executed
      <3>3. s.prompt \in Texts /\ s.note \in Texts /\ {} \in Texts /\ {} \subseteq Asked
        BY <3>1, AskedIs DEF Texts
      <3>4. runs'[s.id] \in RunRow
        BY <3>1, <3>2, <3>3 DEF RunRow, RunAsks, Storable
      <3> QED BY <2>1, <2>2, <2>3, <3>1, <3>4
    <2>4. CASE s.table = "run done" /\ s.id \in DOMAIN runs
      <3>1. s.answer \in Storable /\ s.note \in Storable /\ s.answer \in Texts /\ s.note \in Texts
        BY <2>4, StatementFields, AskedIs
      <3>2. runs'[s.id] = [runs[s.id] EXCEPT !.status = "completed", !.answer = s.answer, !.note = s.note]
        BY <2>4 DEF Executed
      <3>3. PICK row \in RunRow : row = runs[s.id]
        BY <2>1, <2>4
      <3>4. runs'[s.id] \in RunRow
        BY <3>1, <3>2, <3>3 DEF RunRow, RunAsks, Storable
      <3> QED BY <2>1, <2>2, <2>4, <3>4
    <2>5. CASE ~(s.table = "runs" /\ s.id \notin DOMAIN runs) /\ ~(s.table = "run done" /\ s.id \in DOMAIN runs)
      BY <2>1, <2>2, <2>5
    <2> QED BY <2>3, <2>4, <2>5
  <1>3. /\ DOMAIN phases' \subseteq PhaseIds
        /\ \A p \in DOMAIN phases' : phases'[p] \in PhaseRow /\ phases'[p].run = p[1] /\ p[1] \in DOMAIN runs'
    <2>1. /\ DOMAIN phases \subseteq PhaseIds
          /\ \A p \in DOMAIN phases : phases[p] \in PhaseRow /\ phases[p].run = p[1] /\ p[1] \in DOMAIN runs
      BY DEF TablesOK
    <2>2. /\ DOMAIN phases' = DOMAIN phases \cup IF s.table = "phases" THEN {s.id} ELSE {}
          /\ \A p \in DOMAIN phases : s.table \notin {"phases", "phase done"} \/ p # s.id => phases'[p] = phases[p]
          /\ DOMAIN runs \subseteq DOMAIN runs'
      BY DEF Executed
    <2>3. CASE s.table = "phases"
      <3>1. s.id \in PhaseIds /\ s.role \in Parts /\ s.attempt \in Nat
        BY <2>3, StatementFields
      <3>2. phases'[s.id] = [run |-> s.id[1], role |-> s.role, attempt |-> s.attempt, status |-> "running"]
        BY <2>3 DEF Executed
      <3>3. s.id[1] \in Runs /\ s.id[1] \in DOMAIN runs
        BY <2>3, <3>1, PhaseIdParts DEF Parents
      <3>4. phases'[s.id] \in PhaseRow /\ phases'[s.id].run = s.id[1]
        BY <3>1, <3>2, <3>3 DEF PhaseRow
      <3> QED BY <2>1, <2>2, <2>3, <3>1, <3>3, <3>4
    <2>4. CASE s.table = "phase done" /\ s.id \in DOMAIN phases
      <3>1. phases'[s.id] = [phases[s.id] EXCEPT !.status = "completed"]
        BY <2>4 DEF Executed
      <3>2. PICK row \in PhaseRow : row = phases[s.id]
        BY <2>1, <2>4
      <3>3. phases'[s.id] \in PhaseRow /\ phases'[s.id].run = row.run
        BY <3>1, <3>2 DEF PhaseRow
      <3> QED BY <2>1, <2>2, <2>4, <3>2, <3>3
    <2>5. CASE s.table # "phases" /\ ~(s.table = "phase done" /\ s.id \in DOMAIN phases)
      BY <2>1, <2>2, <2>5
    <2> QED BY <2>3, <2>4, <2>5
  <1>4. events' \subseteq EventRow
    <2>1. s.table = "events" => s.row \in EventRow
      BY StatementFields
    <2>2. events' = IF s.table = "events" THEN events \cup {s.row} ELSE events
      BY DEF Executed
    <2> QED BY <2>1, <2>2 DEF TablesOK
  <1>5. messages' \in [PhaseIds -> Seq(MessageRow)]
    <2>1. messages \in [PhaseIds -> Seq(MessageRow)]
      BY DEF TablesOK
    <2>2. CASE s.table = "messages"
      <3>1. s.phase \in PhaseIds /\ s.row \in MessageRow
        BY <2>2, StatementFields
      <3>2. Append(messages[s.phase], s.row) \in Seq(MessageRow)
        BY <2>1, <3>1
      <3>3. messages' = [messages EXCEPT ![s.phase] = Append(messages[s.phase], s.row)]
        BY <2>2 DEF Executed
      <3> QED BY <2>1, <3>2, <3>3
    <2>3. CASE s.table # "messages"
      BY <2>1, <2>3 DEF Executed
    <2> QED BY <2>2, <2>3
  <1>6. /\ examples' \in Seq(ExampleRow)
        /\ \A e \in exported' : \E i \in DOMAIN examples' : e = examples'[i]
    <2>1. examples \in Seq(ExampleRow) /\ \A e \in exported : \E i \in DOMAIN examples : e = examples[i]
      BY DEF TablesOK
    <2>2. CASE s.table = "examples"
      <3>1. s.row \in ExampleRow
        BY <2>2, StatementFields
      <3>2. examples' = Append(examples, s.row)
        BY <2>2 DEF Executed
      <3>3. /\ Append(examples, s.row) \in Seq(ExampleRow)
            /\ \A i \in DOMAIN examples : i \in DOMAIN Append(examples, s.row) /\ Append(examples, s.row)[i] = examples[i]
        BY <2>1, <3>1
      <3> QED BY <2>1, <3>2, <3>3
    <2>3. CASE s.table # "examples"
      <3>1. examples' = examples /\ exported' = exported
        BY <2>3 DEF Executed
      <3> QED BY ONLY <2>1, <3>1
    <2> QED BY <2>2, <2>3
  <1> QED BY <1>1, <1>2, <1>3, <1>4, <1>5, <1>6 DEF TablesOK

\* What is left to be written is of the stage as before.
LEMMA QueuedStep ==
    ASSUME capture' = capture, NEW u, NEW s, NEW w, Queued(u), Pops(u, s, w)
    PROVE  Queued(w)'
  <1>1. capture # "off"
    BY DEF Queued, Pops
  <1>2. \A x : Concerns(u, x) => Concerns(w, x)
    BY SameConcerns DEF Pops
  <1>3. \A i \in DOMAIN w.todo : w.todo[i].table \in May(w.at) /\ Concerns(w, w.todo[i])
    BY <1>2 DEF Queued, Pops
  <1> QED BY <1>1, <1>3 DEF Queued

\* A statement that a later one rests on is executed before it.
LEMMA FoundedStep ==
    ASSUME capture' = capture, NEW u, NEW s, NEW w, Queued(u), Founded(u), Pops(u, s, w), Executed(s)
    PROVE  Founded(w)'
  <1>1. /\ DOMAIN runs \subseteq DOMAIN runs' /\ DOMAIN phases \subseteq DOMAIN phases'
        /\ s.table = "runs" => w.run \in DOMAIN runs'
        /\ s.table = "phases" => w.phase \in DOMAIN phases'
    <2>1. Concerns(u, s)
      BY DEF Queued, Pops
    <2> QED BY <2>1 DEF Concerns, Executed, Pops
  <1>2. ASSUME NEW i \in Nat, RunBefore(u, i + 1)
        PROVE  RunBefore(w, i)'
    <2>1. CASE u.run \in DOMAIN runs
      BY <1>1, <2>1 DEF RunBefore, Pops
    <2>2. ASSUME NEW j \in DOMAIN u.todo, j < i + 1, u.todo[j].table = "runs"
          PROVE  RunBefore(w, i)'
      <3>1. CASE j = 1
        BY <1>1, <2>2, <3>1 DEF RunBefore, Pops
      <3>2. CASE j # 1
        <4>1. j \in Nat /\ j - 1 \in DOMAIN w.todo /\ w.todo[j - 1] = u.todo[(j - 1) + 1] /\ (j - 1) + 1 = j
          BY <2>2, <3>2 DEF Pops
        <4>2. j - 1 < i
          BY <2>2, <4>1
        <4>3. w.todo[j - 1].table = "runs"
          BY <2>2, <4>1
        <4> QED BY <4>1, <4>2, <4>3 DEF RunBefore
      <3> QED BY <3>1, <3>2
    <2> QED BY <1>2, <2>1, <2>2 DEF RunBefore
  <1>3. ASSUME NEW i \in Nat, PhaseBefore(u, i + 1)
        PROVE  PhaseBefore(w, i)'
    <2>1. CASE u.phase \in DOMAIN phases
      BY <1>1, <2>1 DEF PhaseBefore, Pops
    <2>2. ASSUME NEW j \in DOMAIN u.todo, j < i + 1, u.todo[j].table = "phases"
          PROVE  PhaseBefore(w, i)'
      <3>1. CASE j = 1
        BY <1>1, <2>2, <3>1 DEF PhaseBefore, Pops
      <3>2. CASE j # 1
        <4>1. j \in Nat /\ j - 1 \in DOMAIN w.todo /\ w.todo[j - 1] = u.todo[(j - 1) + 1] /\ (j - 1) + 1 = j
          BY <2>2, <3>2 DEF Pops
        <4>2. j - 1 < i
          BY <2>2, <4>1
        <4>3. w.todo[j - 1].table = "phases"
          BY <2>2, <4>1
        <4> QED BY <4>1, <4>2, <4>3 DEF PhaseBefore
      <3> QED BY <3>1, <3>2
    <2> QED BY <1>3, <2>1, <2>2 DEF PhaseBefore
  <1>4. ASSUME NEW i \in DOMAIN w.todo
        PROVE  /\ w.todo[i].table \in {"phases", "events", "examples"} => RunBefore(w, i)'
               /\ w.todo[i].table \in {"messages", "artifacts"} => PhaseBefore(w, i)'
               /\ w.todo[i].table \in {"events", "examples"} /\ w.todo[i].row.phase # NoPhase => PhaseBefore(w, i)'
    <2>1. i \in Nat /\ i + 1 \in DOMAIN u.todo /\ w.todo[i] = u.todo[i + 1]
      BY DEF Pops
    <2>2. /\ w.todo[i].table \in {"phases", "events", "examples"} => RunBefore(u, i + 1)
          /\ w.todo[i].table \in {"messages", "artifacts"} => PhaseBefore(u, i + 1)
          /\ w.todo[i].table \in {"events", "examples"} /\ w.todo[i].row.phase # NoPhase => PhaseBefore(u, i + 1)
      BY <2>1 DEF Founded
    <2> QED BY <1>2, <1>3, <2>1, <2>2
  <1>5. capture # "off" /\ w.at # "starting" =>
            RunBefore(w, Len(w.todo) + 1)' /\ PhaseBefore(w, Len(w.todo) + 1)'
    <2>1. PICK n : n = Len(w.todo) + 1
      OBVIOUS
    <2>2. n \in Nat /\ Len(u.todo) + 1 = n + 1
      BY <2>1 DEF Pops
    <2>3. capture # "off" /\ w.at # "starting" => RunBefore(u, n + 1) /\ PhaseBefore(u, n + 1)
      BY <2>2 DEF Founded, Pops
    <2> QED BY <1>2, <1>3, <2>1, <2>2, <2>3
  <1> QED BY <1>4, <1>5 DEF Founded

\* A row is put behind the messages of its phase.
LEMMA MessagesGrow ==
    ASSUME TablesOK, NEW s \in Statement, Executed(s), NEW p \in PhaseIds
    PROVE  /\ messages[p] \in Seq(MessageRow) /\ Len(messages[p]) \in Nat
           /\ s.table # "messages" \/ s.phase # p => messages'[p] = messages[p]
           /\ s.table = "messages" /\ s.phase = p =>
                 /\ messages'[p] = Append(messages[p], s.row)
                 /\ DOMAIN messages'[p] = DOMAIN messages[p] \cup {Len(messages[p]) + 1}
                 /\ DOMAIN messages[p] = 1 .. Len(messages[p])
                 /\ \A i \in DOMAIN messages[p] : messages'[p][i] = messages[p][i]
                 /\ messages'[p][Len(messages[p]) + 1] = s.row
  <1>1. messages \in [PhaseIds -> Seq(MessageRow)]
    BY DEF TablesOK
  <1>2. messages[p] \in Seq(MessageRow) /\ Len(messages[p]) \in Nat
    BY <1>1
  <1>3. messages' = IF s.table = "messages"
                    THEN [messages EXCEPT ![s.phase] = Append(messages[s.phase], s.row)] ELSE messages
    BY DEF Executed
  <1>4. s.table # "messages" \/ s.phase # p => messages'[p] = messages[p]
    BY <1>1, <1>3
  <1>5. ASSUME s.table = "messages", s.phase = p
        PROVE  /\ messages'[p] = Append(messages[p], s.row)
               /\ DOMAIN messages'[p] = DOMAIN messages[p] \cup {Len(messages[p]) + 1}
               /\ DOMAIN messages[p] = 1 .. Len(messages[p])
               /\ \A i \in DOMAIN messages[p] : messages'[p][i] = messages[p][i]
               /\ messages'[p][Len(messages[p]) + 1] = s.row
    <2>1. messages'[p] = Append(messages[p], s.row)
      BY <1>1, <1>3, <1>5
    <2>2. s.row \in MessageRow
      BY <1>5, StatementFields
    <2>3. PICK stored \in Seq(MessageRow) : stored = messages[p]
      BY <1>2
    <2>4. PICK n \in Nat : n = Len(stored)
      BY <2>3
    <2>5. PICK longer : longer = Append(stored, s.row)
      OBVIOUS
    <2>6. /\ Len(longer) = n + 1 /\ longer \in Seq(MessageRow)
          /\ \A i \in 1 .. n : longer[i] = stored[i]
          /\ longer[n + 1] = s.row
      BY <2>2, <2>4, <2>5, AppendProperties
    <2>7. DOMAIN stored = 1 .. n /\ DOMAIN longer = 1 .. n + 1
      BY <2>4, <2>6
    <2>8. DOMAIN longer = DOMAIN stored \cup {n + 1}
      BY <2>7
    <2> QED BY <2>1, <2>3, <2>4, <2>5, <2>6, <2>7, <2>8
  <1> QED BY <1>2, <1>4, <1>5

\* What is told of a phase grows by the row that is written.
LEMMA ToldGrows ==
    ASSUME TablesOK, NEW s \in Statement, Executed(s), NEW p \in PhaseIds, NEW source
    PROVE  Told(p, source)' =
               Told(p, source) \cup IF s.table = "messages" /\ s.phase = p /\ s.row.source = source
                                    THEN {s.row.id} ELSE {}
  <1>1. CASE s.table # "messages" \/ s.phase # p
    <2>1. messages'[p] = messages[p]
      BY <1>1, MessagesGrow
    <2>2. Told(p, source)' = Told(p, source)
      BY <2>1, SameMessages
    <2> QED BY <1>1, <2>2
  <1>2. CASE s.table = "messages" /\ s.phase = p
    <2>n. PICK n : n = Len(messages[p]) + 1
      OBVIOUS
    <2>1. /\ DOMAIN messages'[p] = DOMAIN messages[p] \cup {n}
          /\ \A i \in DOMAIN messages[p] : messages'[p][i] = messages[p][i]
          /\ messages'[p][n] = s.row
      BY <1>2, <2>n, MessagesGrow
    <2>2. RowsFrom(p, source)' = RowsFrom(p, source) \cup IF s.row.source = source THEN {n} ELSE {}
      <3>1. \A i : i \in RowsFrom(p, source)' <=> i \in DOMAIN messages'[p] /\ messages'[p][i].source = source
        BY DEF RowsFrom
      <3>2. \A i : i \in RowsFrom(p, source) <=> i \in DOMAIN messages[p] /\ messages[p][i].source = source
        BY DEF RowsFrom
      <3>3. n \notin DOMAIN messages[p]
        <4>1. DOMAIN messages[p] = 1 .. Len(messages[p]) /\ Len(messages[p]) \in Nat
          BY <1>2, MessagesGrow
        <4> QED BY <2>n, <4>1
      <3> QED BY <2>1, <3>1, <3>2, <3>3
    <2>3. \A i \in RowsFrom(p, source) : i \in DOMAIN messages[p]
      BY DEF RowsFrom
    <2>4. \A id : id \in Told(p, source)' <=> \E i \in RowsFrom(p, source)' : id = messages'[p][i].id
      BY DEF Told
    <2>5. \A id : id \in Told(p, source) <=> \E i \in RowsFrom(p, source) : id = messages[p][i].id
      BY DEF Told
    <2> QED BY <1>2, <2>1, <2>2, <2>3, <2>4, <2>5
  <1> QED BY <1>1, <1>2

\* What is told and what is to come stay the same together.
LEMMA ComingShrinks ==
    ASSUME NEW u, NEW s, NEW w, Pops(u, s, w), NEW source
    PROVE  /\ ComingIds(u, source) =
                  ComingIds(w, source) \cup IF s.table = "messages" /\ s.row.source = source THEN {s.row.id} ELSE {}
           /\ \A i \in Coming(w, source) :
                 i \in Nat /\ i >= 1 /\ i + 1 \in Coming(u, source) /\ w.todo[i] = u.todo[i + 1]
           /\ s.table = "messages" /\ s.row.source = source => 1 \in Coming(u, source)
  <1>1. \A i \in Coming(w, source) :
            i \in Nat /\ i >= 1 /\ i + 1 \in Coming(u, source) /\ w.todo[i] = u.todo[i + 1]
    BY DEF Coming, Pops
  <1>2. s.table = "messages" /\ s.row.source = source <=> 1 \in Coming(u, source)
    BY DEF Coming, Pops
  <1>3. ASSUME NEW i \in Coming(u, source), i # 1
        PROVE  i - 1 \in Coming(w, source) /\ w.todo[i - 1] = u.todo[i]
    <2>1. i \in DOMAIN u.todo /\ u.todo[i].table = "messages" /\ u.todo[i].row.source = source
      BY DEF Coming
    <2>2. i \in Nat /\ i - 1 \in DOMAIN w.todo
      BY <1>3, <2>1 DEF Pops
    <2>3. w.todo[i - 1] = u.todo[(i - 1) + 1] /\ (i - 1) + 1 = i
      BY <2>2 DEF Pops
    <2> QED BY <2>1, <2>2, <2>3 DEF Coming
  <1>4. \A id : id \in ComingIds(u, source) <=> \E i \in Coming(u, source) : id = u.todo[i].row.id
    BY DEF ComingIds
  <1>5. \A id : id \in ComingIds(w, source) <=> \E i \in Coming(w, source) : id = w.todo[i].row.id
    BY DEF ComingIds
  <1>6. s = u.todo[1]
    BY DEF Pops
  <1>7. ASSUME NEW id \in ComingIds(u, source)
        PROVE  id \in ComingIds(w, source) \/ (s.table = "messages" /\ s.row.source = source /\ id = s.row.id)
    <2>1. PICK i \in Coming(u, source) : id = u.todo[i].row.id
      BY <1>4
    <2>2. CASE i = 1
      BY <1>2, <1>6, <2>1, <2>2
    <2>3. CASE i # 1
      BY <1>3, <1>5, <2>1, <2>3
    <2> QED BY <2>2, <2>3
  <1>8. ASSUME NEW id \in ComingIds(w, source)
        PROVE  id \in ComingIds(u, source)
    BY <1>1, <1>4, <1>5
  <1>9. s.table = "messages" /\ s.row.source = source => s.row.id \in ComingIds(u, source)
    BY <1>2, <1>4, <1>6
  <1>10. ComingIds(u, source) =
             ComingIds(w, source) \cup IF s.table = "messages" /\ s.row.source = source THEN {s.row.id} ELSE {}
    BY <1>7, <1>8, <1>9
  <1> QED BY <1>1, <1>2, <1>10

\* The results of the phase under way are stored in their order.
LEMMA TellingStep ==
    ASSUME capture' = capture, TablesOK, NEW u, NEW s \in Statement, NEW w, NEW carried,
           u.phase \in PhaseIds, Queued(u), Telling(u, carried), Pops(u, s, w), Executed(s)
    PROVE  Telling(w, carried)'
  <1>1. capture # "off" /\ w.phase = u.phase /\ w.memory = u.memory
    BY DEF Queued, Pops
  <1>x. PICK x : x = IF s.table = "messages" /\ s.row.source = "tool_result" THEN {s.row.id} ELSE {}
    OBVIOUS
  <1>2. Told(w.phase, "tool_result")' = Told(u.phase, "tool_result") \cup x
    <2>1. s.table = "messages" => s.phase = u.phase
      BY DEF Queued, Pops, Concerns
    <2>2. Told(u.phase, "tool_result")' =
              Told(u.phase, "tool_result")
                  \cup IF s.table = "messages" /\ s.phase = u.phase /\ s.row.source = "tool_result"
                       THEN {s.row.id} ELSE {}
      BY ToldGrows
    <2> QED BY <1>1, <1>x, <2>1, <2>2
  <1>3. /\ ComingIds(u, "tool_result") = ComingIds(w, "tool_result") \cup x
        /\ \A i \in Coming(w, "tool_result") :
              i \in Nat /\ i >= 1 /\ i + 1 \in Coming(u, "tool_result") /\ w.todo[i] = u.todo[i + 1]
        /\ s.table = "messages" /\ s.row.source = "tool_result" => 1 \in Coming(u, "tool_result")
    BY <1>x, ComingShrinks
  <1>4. /\ \A id \in carried[u.phase] : id <= Len(u.memory)
        /\ carried[u.phase] = Told(u.phase, "tool_result") \cup ComingIds(u, "tool_result")
        /\ \A i, j \in Coming(u, "tool_result") : i < j => u.todo[i].row.id < u.todo[j].row.id
        /\ \A id \in Told(u.phase, "tool_result"), next \in ComingIds(u, "tool_result") : id < next
    BY <1>1 DEF Telling
  <1>5. \A id \in carried[w.phase] : id <= Len(w.memory)
    BY <1>1, <1>4
  <1>6. carried[w.phase] = Told(w.phase, "tool_result")' \cup ComingIds(w, "tool_result")
    BY <1>1, <1>2, <1>3, <1>4
  <1>7. ASSUME NEW i \in Coming(w, "tool_result"), NEW j \in Coming(w, "tool_result"), i < j
        PROVE  w.todo[i].row.id < w.todo[j].row.id
    <2>1. i \in Nat /\ j \in Nat /\ i + 1 < j + 1
      BY <1>3, <1>7
    <2>2. u.todo[i + 1].row.id < u.todo[j + 1].row.id
      BY <1>3, <1>4, <2>1
    <2> QED BY <1>3, <2>2
  <1>8. ASSUME NEW id \in Told(w.phase, "tool_result")', NEW next \in ComingIds(w, "tool_result")
        PROVE  id < next
    <2>1. CASE id \in Told(u.phase, "tool_result")
      BY <1>3, <1>4, <2>1
    <2>2. CASE id \in x
      <3>1. id = s.row.id /\ 1 \in Coming(u, "tool_result") /\ s = u.todo[1]
        BY <1>x, <1>3, <2>2 DEF Pops
      <3>2. PICK i \in Coming(w, "tool_result") : next = w.todo[i].row.id
        BY DEF ComingIds
      <3>3. i + 1 \in Coming(u, "tool_result") /\ next = u.todo[i + 1].row.id /\ 1 < i + 1
        BY <1>3, <3>2
      <3> QED BY <1>4, <3>1, <3>3
    <2> QED BY <1>2, <2>1, <2>2
  <1>9. Coming(w, "tool_result")' = Coming(w, "tool_result") /\ ComingIds(w, "tool_result")' = ComingIds(w, "tool_result")
    BY DEF Coming, ComingIds
  <1> QED BY <1>5, <1>6, <1>7, <1>8, <1>9 DEF Telling

\* The answers of the phase under way are stored.
LEMMA AnsweringStep ==
    ASSUME capture' = capture, TablesOK, NEW u, NEW s \in Statement, NEW w,
           u.phase \in PhaseIds, Queued(u), Answering(u), Pops(u, s, w), Executed(s)
    PROVE  Answering(w)'
  <1>1. capture # "off" /\ w.phase = u.phase /\ w.memory = u.memory /\ w.at = u.at
    BY DEF Queued, Pops
  <1>x. PICK x : x = IF s.table = "messages" /\ s.row.source = "assistant_response" THEN {s.row.id} ELSE {}
    OBVIOUS
  <1>2. Told(w.phase, "assistant_response")' = Told(u.phase, "assistant_response") \cup x
    <2>1. s.table = "messages" => s.phase = u.phase
      BY DEF Queued, Pops, Concerns
    <2>2. Told(u.phase, "assistant_response")' =
              Told(u.phase, "assistant_response")
                  \cup IF s.table = "messages" /\ s.phase = u.phase /\ s.row.source = "assistant_response"
                       THEN {s.row.id} ELSE {}
      BY ToldGrows
    <2> QED BY <1>1, <1>x, <2>1, <2>2
  <1>3. ComingIds(u, "assistant_response") = ComingIds(w, "assistant_response") \cup x
    BY <1>x, ComingShrinks
  <1>a. PICK answers : answers = Told(u.phase, "assistant_response") \cup ComingIds(u, "assistant_response")
    OBVIOUS
  <1>4. answers = Told(w.phase, "assistant_response")' \cup ComingIds(w, "assistant_response")'
    <2>1. ComingIds(w, "assistant_response")' = ComingIds(w, "assistant_response")
      BY DEF Coming, ComingIds
    <2> QED BY <1>2, <1>3, <1>a, <2>1
  <1>5. /\ \A id \in answers : id <= Len(u.memory)
        /\ /\ u.at \in {"finalizing", "completing"} /\ u.memory # <<>>
           /\ Last(u.memory).role = "assistant"
           => Len(u.memory) \in answers
        /\ \A i \in DOMAIN u.todo :
              u.todo[i].table = "examples" /\ u.todo[i].row.type = "sft_conversation" =>
                  /\ u.todo[i].row.output.id \in answers
                  /\ \A other \in answers : other <= u.todo[i].row.output.id
    BY <1>1, <1>a DEF Answering
  <1>6. \A i \in DOMAIN w.todo :
            w.todo[i].table = "examples" /\ w.todo[i].row.type = "sft_conversation" =>
                /\ w.todo[i].row.output.id \in answers
                /\ \A other \in answers : other <= w.todo[i].row.output.id
    <2>1. \A i \in DOMAIN w.todo : i + 1 \in DOMAIN u.todo /\ w.todo[i] = u.todo[i + 1]
      BY DEF Pops
    <2> QED BY <1>5, <2>1
  <1> QED BY <1>1, <1>4, <1>5, <1>6 DEF Answering

\* The run and its phases are closed in their order.
LEMMA ClosingStep ==
    ASSUME capture' = capture, TablesOK, NEW u, NEW s \in Statement, NEW w,
           u.at \in Stages, u.phase \in PhaseIds, u.phase[1] = u.run,
           Queued(u), Founded(u), Closing(u), Pops(u, s, w), Executed(s)
    PROVE  Closing(w)'
  <1>1. /\ capture # "off" /\ w.at = u.at /\ w.run = u.run /\ w.phase = u.phase /\ w.completes = u.completes
        /\ s = u.todo[1] /\ s.table \in May(u.at) /\ Concerns(u, s) /\ 1 \in DOMAIN u.todo
    BY DEF Queued, Pops
  <1>2. /\ s.table \in {"runs", "run done"} => s.id = u.run
        /\ s.table \in {"phases", "phase done"} => s.id = u.phase
    BY <1>1 DEF Concerns
  <1>3. Ended(w) <=> Ended(u)
    BY <1>1 DEF Ended
  <1>4. /\ ~Ended(u) => s.table # "phase done" /\ s.table # "run done"
        /\ u.at = "completed" => s.table \in {"phase done", "run done", "examples"}
        /\ u.at = "returning" => s.table \in {"run done", "examples"}
    <2>1. u.at = "completed" => s.table \in {"phase done", "run done", "examples"}
      BY <1>1, Stages_May
    <2>2. u.at = "returning" => s.table \in {"run done", "examples"}
      BY <1>1, Stages_May
    <2>3. ASSUME ~Ended(u)
          PROVE  s.table \in {"runs", "phases", "events", "messages", "artifacts"}
      BY <1>1, <2>3, StageWrites
    <2> QED BY <2>1, <2>2, <2>3
  <1>5. ASSUME NEW p \in DOMAIN phases', p[1] = w.run
        PROVE  p[2] <= w.phase[2] /\ (p # w.phase => phases'[p].status = "completed")
    <2>1. CASE p = u.phase
      <3>1. p[2] \in Nat
        BY <2>1, PhaseIdParts
      <3> QED BY <1>1, <2>1, <3>1
    <2>2. CASE p # u.phase
      <3>1. p \in DOMAIN phases /\ phases'[p] = phases[p]
        BY <1>2, <2>2 DEF Executed
      <3>2. p[2] <= u.phase[2] /\ phases[p].status = "completed"
        BY <1>1, <1>5, <2>2, <3>1 DEF Closing
      <3> QED BY <1>1, <3>1, <3>2
    <2> QED BY <2>1, <2>2
  <1>6. ASSUME ~Ended(u), u.phase \in DOMAIN phases'
        PROVE  phases'[u.phase].status = "running"
    <2>1. CASE s.table = "phases"
      BY <1>2, <2>1 DEF Executed
    <2>2. CASE s.table # "phases"
      <3>1. u.phase \in DOMAIN phases /\ phases'[u.phase] = phases[u.phase]
        BY <1>4, <1>6, <2>2 DEF Executed
      <3> QED BY <1>6, <3>1 DEF Closing
    <2> QED BY <2>1, <2>2
  <1>7. ASSUME ~Ended(u) \/ (u.at = "completed" /\ ~u.completes)
        PROVE  /\ \A i \in DOMAIN w.todo : w.todo[i].table # "run done"
               /\ u.run \in DOMAIN runs' => runs'[u.run].status = "running"
    <2>1. /\ \A i \in DOMAIN u.todo : u.todo[i].table # "run done"
          /\ u.run \in DOMAIN runs => runs[u.run].status = "running"
      BY <1>7 DEF Closing
    <2>2. \A i \in DOMAIN w.todo : w.todo[i].table # "run done"
      BY <2>1 DEF Pops
    <2>3. s.table # "run done"
      BY <1>1, <2>1
    <2>4. CASE u.run \in DOMAIN runs
      <3>1. runs'[u.run] = runs[u.run]
        BY <2>3, <2>4 DEF Executed
      <3> QED BY <2>1, <2>2, <2>4, <3>1
    <2>5. CASE u.run \notin DOMAIN runs
      <3>1. u.run \in DOMAIN runs' => s.table = "runs" /\ s.id = u.run
        BY <2>5 DEF Executed
      <3>2. s.table = "runs" /\ s.id = u.run => runs'[u.run].status = "running"
        BY <2>5 DEF Executed
      <3> QED BY <2>2, <3>1, <3>2
    <2> QED BY <2>4, <2>5
  <1>8. ASSUME u.at = "completed"
        PROVE  phases'[u.phase].status = "completed"
    <2>1. u.phase \in DOMAIN phases
      <3>1. PhaseBefore(u, Len(u.todo) + 1)
        BY <1>1, <1>8 DEF Founded
      <3>2. \A j \in DOMAIN u.todo : u.todo[j].table # "phases"
        <4>1. May(u.at) = {"phase done", "run done", "examples"}
          BY <1>8, Stages_May
        <4> QED BY <4>1 DEF Queued
      <3> QED BY <3>1, <3>2 DEF PhaseBefore
    <2>2. CASE s.table = "phase done"
      <3>1. phases'[u.phase] = [phases[u.phase] EXCEPT !.status = "completed"]
        BY <1>2, <2>1, <2>2 DEF Executed
      <3>2. phases[u.phase] \in PhaseRow
        BY <2>1 DEF TablesOK
      <3>3. PICK row \in PhaseRow : row = phases[u.phase]
        BY <3>2
      <3> QED BY <3>1, <3>3 DEF PhaseRow
    <2>3. CASE s.table # "phase done"
      <3>1. phases[u.phase].status = "completed"
        BY <1>1, <1>8, <2>3 DEF Closing
      <3>2. phases'[u.phase] = phases[u.phase]
        BY <1>4, <1>8, <2>1, <2>3 DEF Executed
      <3> QED BY <3>1, <3>2
    <2> QED BY <2>2, <2>3
  <1>9. ASSUME u.at = "returning"
        PROVE  phases'[u.phase].status = "completed"
    <2>1. u.phase \in DOMAIN phases
      <3>1. PhaseBefore(u, Len(u.todo) + 1)
        BY <1>1, <1>9 DEF Founded
      <3>2. \A j \in DOMAIN u.todo : u.todo[j].table # "phases"
        <4>1. May(u.at) = {"run done", "examples"}
          BY <1>9, Stages_May
        <4> QED BY <4>1 DEF Queued
      <3> QED BY <3>1, <3>2 DEF PhaseBefore
    <2>2. phases'[u.phase] = phases[u.phase]
      BY <1>4, <1>9, <2>1 DEF Executed
    <2>3. phases[u.phase].status = "completed"
      BY <1>1, <1>9 DEF Closing
    <2> QED BY <2>2, <2>3
  <1> QED BY <1>1, <1>3, <1>5, <1>6, <1>7, <1>8, <1>9 DEF Closing

\* A phase that is being completed is there.
LEMMA EndedIsThere ==
    ASSUME NEW u, Ended(u), capture # "off", Queued(u), Founded(u)
    PROVE  u.phase \in DOMAIN phases
  <1>1. u.at = "completed" \/ u.at = "returning"
    BY DEF Ended
  <1>2. PhaseBefore(u, Len(u.todo) + 1)
    BY <1>1 DEF Founded
  <1>3. May(u.at) \subseteq {"phase done", "run done", "examples"}
    BY <1>1, Stages_May
  <1>4. \A j \in DOMAIN u.todo : u.todo[j].table # "phases"
    BY <1>3 DEF Queued
  <1> QED BY <1>2, <1>4 DEF PhaseBefore

\* The rows of the tool results of a phase stay in order.
LEMMA InOrderStep ==
    ASSUME TablesOK, capture # "off", NEW u, NEW s \in Statement, NEW w, NEW carried,
           Queued(u), Telling(u, carried), Pops(u, s, w), Executed(s),
           NEW p \in PhaseIds, InOrder(p)
    PROVE  InOrder(p)'
  <1>1. CASE s.table # "messages" \/ s.phase # p
    <2>1. messages'[p] = messages[p]
      BY <1>1, MessagesGrow
    <2>2. RowsFrom(p, "tool_result")' = RowsFrom(p, "tool_result")
      BY <2>1, SameMessages
    <2> QED BY <2>1, <2>2 DEF InOrder
  <1>2. CASE s.table = "messages" /\ s.phase = p
    <2>n. PICK n : n = Len(messages[p]) + 1
      OBVIOUS
    <2>1. /\ DOMAIN messages'[p] = DOMAIN messages[p] \cup {n}
          /\ \A i \in DOMAIN messages[p] : messages'[p][i] = messages[p][i]
          /\ messages'[p][n] = s.row
          /\ DOMAIN messages[p] = 1 .. Len(messages[p]) /\ Len(messages[p]) \in Nat
      BY <1>2, <2>n, MessagesGrow
    <2>2. \A i \in DOMAIN messages[p] : i \in Nat /\ i < n
      BY <2>n, <2>1
    <2>3. p = u.phase
      BY <1>2 DEF Queued, Pops, Concerns
    <2>4. ASSUME NEW i \in RowsFrom(p, "tool_result")', NEW j \in RowsFrom(p, "tool_result")', i < j
          PROVE  messages'[p][i].id < messages'[p][j].id
      <3>1. /\ i \in DOMAIN messages'[p] /\ messages'[p][i].source = "tool_result"
            /\ j \in DOMAIN messages'[p] /\ messages'[p][j].source = "tool_result"
        BY DEF RowsFrom
      <3>2. i \in DOMAIN messages[p]
        <4>1. n \in Nat
          BY <2>n, <2>1
        <4>2. j \in Nat /\ j <= n
          BY <2>1, <2>2, <3>1, <4>1
        <4>3. i # n
          BY <2>4, <4>1, <4>2
        <4> QED BY <2>1, <3>1, <4>3
      <3>3. i \in RowsFrom(p, "tool_result") /\ messages'[p][i] = messages[p][i]
        BY <2>1, <3>1, <3>2 DEF RowsFrom
      <3>4. CASE j \in DOMAIN messages[p]
        <4>1. j \in RowsFrom(p, "tool_result") /\ messages'[p][j] = messages[p][j]
          BY <2>1, <3>1, <3>4 DEF RowsFrom
        <4> QED BY <2>4, <3>3, <4>1 DEF InOrder
      <3>5. CASE j = n
        <4>1. s.row.source = "tool_result"
          BY <2>1, <3>1, <3>5
        <4>2. s.row.id \in ComingIds(u, "tool_result")
          BY <1>2, <4>1, ComingShrinks
        <4>3. messages[p][i].id \in Told(p, "tool_result")
          BY <3>3 DEF Told
        <4>4. messages[p][i].id < s.row.id
          BY <2>3, <4>2, <4>3 DEF Telling
        <4> QED BY <2>1, <3>3, <3>5, <4>4
      <3> QED BY <2>1, <3>1, <3>4, <3>5
    <2> QED BY <2>4 DEF InOrder
  <1> QED BY <1>1, <1>2

\* Nothing is stored of a phase that has not begun.
LEMMA UntouchedStep ==
    ASSUME TablesOK, NEW u, NEW s \in Statement, NEW w, u.phase \in PhaseIds, u.phase[1] = u.run,
           Queued(u), Pops(u, s, w), Executed(s),
           NEW p \in PhaseIds, Untouched(w, p), messages[p] = <<>>
    PROVE  messages'[p] = <<>>
  <1>1. CASE s.table # "messages" \/ s.phase # p
    <2>1. messages'[p] = messages[p]
      BY <1>1, MessagesGrow
    <2> QED BY <2>1
  <1>2. CASE s.table = "messages" /\ s.phase = p
    <2>1. p = u.phase
      BY <1>2 DEF Queued, Pops, Concerns
    <2>2. u.at # "starting"
      <3>1. s.table \in May(u.at)
        BY DEF Queued, Pops
      <3>2. u.at = "starting" => May(u.at) = {"runs", "events"}
        BY Stages_May
      <3> QED BY <1>2, <3>1, <3>2
    <2>3. p[1] \in Nat /\ p[2] \in Nat
      BY PhaseIdParts
    <2>4. w.at = u.at /\ w.run = u.run /\ w.phase = u.phase
      BY DEF Pops
    <2>5. ~Untouched(w, p)
      BY <2>1, <2>2, <2>3, <2>4 DEF Untouched
    <2> QED BY <2>5
  <1> QED BY <1>1, <1>2

\* What is stored of the other phases stays as it is.
LEMMA OthersStep ==
    ASSUME TablesOK, UNCHANGED ran, NEW u, NEW s \in Statement, NEW w,
           Queued(u), Pops(u, s, w), Executed(s),
           NEW p \in DOMAIN phases', p # u.phase
    PROVE  /\ p \in DOMAIN phases /\ phases'[p] = phases[p] /\ messages'[p] = messages[p]
           /\ IsTold(p) => IsTold(p)'
  <1>1. Concerns(u, s)
    BY DEF Queued, Pops
  <1>2. p \in DOMAIN phases /\ phases'[p] = phases[p]
    BY <1>1 DEF Concerns, Executed
  <1>3. messages'[p] = messages[p]
    <2>1. p \in PhaseIds
      BY <1>2 DEF TablesOK
    <2>2. s.table # "messages" \/ s.phase # p
      BY <1>1 DEF Concerns
    <2> QED BY <2>1, <2>2, MessagesGrow
  <1>4. \A source : Told(p, source)' = Told(p, source) /\ RowsFrom(p, source)' = RowsFrom(p, source)
    BY <1>3, SameMessages
  <1>5. IsTold(p) => IsTold(p)'
    BY <1>2, <1>3, <1>4 DEF IsTold
  <1> QED BY <1>2, <1>3, <1>5

\* A run is completed after its phases.
LEMMA WholeStep ==
    ASSUME TablesOK, TablesOK', capture # "off", NEW u, NEW s \in Statement, NEW w,
           u.at \in Stages, u.phase \in PhaseIds, u.phase[1] = u.run,
           Queued(u), Closing(u), Pops(u, s, w), Executed(s), CompletedIsWhole
    PROVE  CompletedIsWhole'
  <1>1. s = u.todo[1] /\ s.table \in May(u.at) /\ Concerns(u, s) /\ 1 \in DOMAIN u.todo /\ u.todo # <<>>
    BY DEF Queued, Pops
  <1>2. /\ s.table \in {"runs", "run done"} => s.id = u.run
        /\ s.table \in {"phases", "phase done"} => s.id = u.phase
    BY <1>1 DEF Concerns
  <1>3. ASSUME NEW p \in DOMAIN phases', runs'[phases'[p].run].status = "completed"
        PROVE  phases'[p].status = "completed"
    <2>1. /\ phases'[p].run = p[1] /\ p[1] \in DOMAIN runs'
          /\ p \in DOMAIN phases => phases[p].run = p[1] /\ p[1] \in DOMAIN runs
      BY <1>3 DEF TablesOK
    <2>r. PICK r : r = p[1]
      OBVIOUS
    <2>2. runs'[r].status = "completed" /\ r \in DOMAIN runs'
      BY <1>3, <2>1, <2>r
    <2>3. ASSUME p \in DOMAIN phases, runs'[r] = runs[r]
          PROVE  phases[p].status = "completed"
      BY <2>1, <2>2, <2>3, <2>r DEF CompletedIsWhole
    <2>4. CASE s.table = "phases"
      <3>1. \A q \in DOMAIN runs : runs'[q] = runs[q]
        BY <2>4 DEF Executed
      <3>2. DOMAIN runs' = DOMAIN runs
        BY <2>4 DEF Executed
      <3>3. CASE p = u.phase
        <4>1. ~Ended(u)
          <5>1. Ended(u) => May(u.at) \subseteq {"phase done", "run done", "examples"}
            BY Stages_May DEF Ended
          <5> QED BY <1>1, <2>4, <5>1
        <4>2. r = u.run /\ u.run \in DOMAIN runs
          BY <2>2, <2>r, <3>2, <3>3
        <4>3. runs[u.run].status = "running"
          BY <4>1, <4>2 DEF Closing
        <4> QED BY <2>2, <3>1, <4>2, <4>3
      <3>4. CASE p # u.phase
        <4>1. p \in DOMAIN phases /\ phases'[p] = phases[p]
          BY <1>2, <2>4, <3>4 DEF Executed
        <4>2. runs'[r] = runs[r]
          BY <2>2, <3>1, <3>2
        <4> QED BY <2>3, <4>1, <4>2
      <3> QED BY <3>3, <3>4
    <2>5. CASE s.table = "run done"
      <3>1. p \in DOMAIN phases /\ phases'[p] = phases[p]
        BY <2>5 DEF Executed
      <3>2. CASE r = u.run
        <4>1. Ended(u) /\ ~(u.at = "completed" /\ ~u.completes)
          BY <1>1, <2>5 DEF Closing
        <4>2. CASE p = u.phase
          <5>1. u.at = "completed" \/ u.at = "returning"
            BY <4>1 DEF Ended
          <5>2. phases[u.phase].status = "completed"
            BY <1>1, <2>5, <5>1 DEF Closing
          <5> QED BY <3>1, <4>2, <5>2
        <4>3. CASE p # u.phase
          <5>1. phases[p].status = "completed"
            BY <2>r, <3>1, <3>2, <4>3 DEF Closing
          <5> QED BY <3>1, <5>1
        <4> QED BY <4>2, <4>3
      <3>3. CASE r # u.run
        <4>1. r \in DOMAIN runs
          BY <2>1, <2>r, <3>1
        <4>2. runs'[r] = runs[r]
          BY <1>2, <2>5, <3>3, <4>1 DEF Executed
        <4> QED BY <2>3, <3>1, <4>2
      <3> QED BY <3>2, <3>3
    <2>6. CASE s.table # "phases" /\ s.table # "run done"
      <3>1. p \in DOMAIN phases
        BY <2>6 DEF Executed
      <3>2. r \in DOMAIN runs
        BY <2>1, <2>r, <3>1
      <3>3. runs'[r] = runs[r]
        BY <2>6, <3>2 DEF Executed
      <3>4. phases[p].status = "completed"
        BY <2>3, <3>1, <3>3
      <3>5. CASE s.table = "phase done" /\ p = s.id
        <4>1. phases'[p] = [phases[p] EXCEPT !.status = "completed"]
          BY <3>1, <3>5 DEF Executed
        <4>2. PICK row \in PhaseRow : row = phases[p]
          BY <3>1 DEF TablesOK
        <4> QED BY <4>1, <4>2 DEF PhaseRow
      <3>6. CASE ~(s.table = "phase done" /\ p = s.id)
        <4>1. phases'[p] = phases[p]
          BY <2>6, <3>1, <3>6 DEF Executed
        <4> QED BY <3>4, <4>1
      <3> QED BY <3>5, <3>6
    <2> QED BY <2>4, <2>5, <2>6
  <1> QED BY <1>3 DEF CompletedIsWhole

\* An example that is stored is of a phase that is told and completed, and stays so.
LEMMA AnswersStep ==
    ASSUME TablesOK, capture # "off", UNCHANGED ran, NEW u, NEW s \in Statement, NEW w,
           u.at \in Stages, u.phase \in PhaseIds,
           Queued(u), Founded(u), Closing(u), Answering(u), Pops(u, s, w), Executed(s),
           \A i \in DOMAIN examples : examples[i].type = "sft_conversation" => IsAnswer(examples[i])
    PROVE  (\A i \in DOMAIN examples : examples[i].type = "sft_conversation" => IsAnswer(examples[i]))'
  <1>1. s = u.todo[1] /\ s.table \in May(u.at) /\ Concerns(u, s) /\ 1 \in DOMAIN u.todo /\ u.todo # <<>>
    BY DEF Queued, Pops
  <1>2. ASSUME NEW e, IsAnswer(e)
        PROVE  IsAnswer(e)'
    <2>1. e.phase \in DOMAIN phases /\ phases[e.phase].status = "completed" /\ e.phase \in DOMAIN phases'
      BY <1>2 DEF IsAnswer, Executed
    <2>2. CASE e.phase # u.phase
      <3>1. phases'[e.phase] = phases[e.phase] /\ messages'[e.phase] = messages[e.phase]
        BY <2>1, <2>2, OthersStep
      <3>2. Told(e.phase, "assistant_response")' = Told(e.phase, "assistant_response")
        BY <3>1, SameMessages
      <3> QED BY <1>2, <2>1, <3>1, <3>2 DEF IsAnswer
    <2>3. CASE e.phase = u.phase
      <3>1. Ended(u)
        BY <2>1, <2>3 DEF Closing
      <3>2. s.table \in {"phase done", "run done", "examples"}
        BY <1>1, <3>1, Stages_May DEF Ended
      <3>3. messages' = messages
        BY <3>2 DEF Executed
      <3>4. Told(e.phase, "assistant_response")' = Told(e.phase, "assistant_response")
        BY <3>3, SameMessages
      <3>5. phases'[e.phase].status = "completed"
        <4>1. PICK row \in PhaseRow : row = phases[e.phase]
          BY <2>1 DEF TablesOK
        <4>2. row.status = "completed"
          BY <2>1, <4>1
        <4>3. phases'[e.phase] = row \/ phases'[e.phase] = [row EXCEPT !.status = "completed"]
          BY <2>1, <3>2, <4>1 DEF Executed
        <4> QED BY <4>1, <4>2, <4>3 DEF PhaseRow
      <3> QED BY <1>2, <2>1, <3>4, <3>5 DEF IsAnswer
    <2> QED BY <2>2, <2>3
  <1>3. ASSUME s.table = "examples", s.row.type = "sft_conversation"
        PROVE  IsAnswer(s.row)'
    <2>1. Ended(u) /\ s.row.phase = u.phase
      <3>1. s.row.phase = u.phase
        BY <1>1, <1>3 DEF Concerns
      <3>2. Ended(u)
        <4>1. ~Ended(u) => s.table # "examples"
          BY <1>1, StageWrites
        <4> QED BY <1>3, <4>1
      <3> QED BY <3>1, <3>2
    <2>2. u.phase \in DOMAIN phases
      BY <2>1, EndedIsThere
    <2>3. phases' = phases \/ phases'[u.phase] = phases[u.phase]
      BY <1>3, <2>2 DEF Executed
    <2>4. phases[u.phase].status = "completed"
      <3>1. u.at = "completed" \/ u.at = "returning"
        BY <2>1 DEF Ended
      <3> QED BY <1>1, <1>3, <3>1 DEF Closing
    <2>5. messages' = messages
      BY <1>3 DEF Executed
    <2>6. Told(u.phase, "assistant_response")' = Told(u.phase, "assistant_response")
      BY <2>5, SameMessages
    <2>7. ComingIds(u, "assistant_response") = {}
      <3>1. May(u.at) \subseteq {"phase done", "run done", "examples"}
        BY <2>1, Stages_May DEF Ended
      <3>2. Coming(u, "assistant_response") = {}
        BY <3>1 DEF Coming, Queued
      <3> QED BY <3>2 DEF ComingIds
    <2>8. /\ s.row.output.id \in Told(u.phase, "assistant_response")
          /\ \A other \in Told(u.phase, "assistant_response") : other <= s.row.output.id
      BY <1>1, <1>3, <2>7 DEF Answering
    <2>9. u.phase \in DOMAIN phases' /\ phases'[u.phase].status = "completed"
      BY <1>3, <2>2, <2>4 DEF Executed
    <2> QED BY <2>1, <2>6, <2>8, <2>9 DEF IsAnswer
  <1>4. ASSUME s.table = "examples"
        PROVE  \A i \in DOMAIN examples' : examples'[i] = s.row \/ (i \in DOMAIN examples /\ examples'[i] = examples[i])
    <2>1. examples' = Append(examples, s.row)
      BY <1>4 DEF Executed
    <2>2. examples \in Seq(ExampleRow)
      BY DEF TablesOK
    <2>3. s.row \in ExampleRow
      BY <1>4, StatementFields
    <2> QED BY ONLY <2>1, <2>2, <2>3
  <1>5. s.table # "examples" => examples' = examples
    BY DEF Executed
  <1>6. ASSUME NEW i \in DOMAIN examples', examples'[i].type = "sft_conversation"
        PROVE  IsAnswer(examples[i])'
    <2>1. PICK e : e = examples'[i]
      OBVIOUS
    <2>2. (e = s.row /\ s.table = "examples") \/ (i \in DOMAIN examples /\ e = examples[i])
      BY <1>4, <1>5, <2>1
    <2>3. IsAnswer(e)'
      BY <1>2, <1>3, <1>6, <2>1, <2>2
    <2> QED BY <2>1, <2>3 DEF IsAnswer
  <1> QED BY <1>6

\* What holds of the phases that are over holds when a statement is executed.
LEMMA PastStep ==
    ASSUME TablesOK, TablesOK', capture # "off", UNCHANGED ran,
           NEW u, NEW s \in Statement, NEW w, NEW carried, carried = ran,
           u.at \in Stages, u.phase \in PhaseIds, u.phase[1] = u.run, u.run \in Nat,
           Queued(u), Founded(u), Closing(u), Telling(u, carried), Answering(u),
           Pops(u, s, w), Executed(s), Past(u, carried)
    PROVE  Past(w, carried)'
  <1>1. w.at = u.at /\ w.run = u.run /\ w.phase = u.phase /\ Concerns(u, s)
    BY DEF Queued, Pops
  <1>2. \A r \in DOMAIN runs' : r <= w.run
    <2>1. \A r \in DOMAIN runs : r <= u.run
      BY DEF Past
    <2>2. s.table = "runs" => s.id = u.run
      BY <1>1 DEF Concerns
    <2>3. DOMAIN runs' = DOMAIN runs \cup IF s.table = "runs" THEN {s.id} ELSE {}
      BY DEF Executed
    <2> QED BY <1>1, <2>1, <2>2, <2>3
  <1>3. ASSUME NEW p \in PhaseIds
        PROVE  InOrder(p)'
    <2>1. InOrder(p)
      BY DEF Past
    <2> QED BY <2>1, InOrderStep
  <1>4. ASSUME NEW p \in PhaseIds, Untouched(w, p)
        PROVE  messages'[p] = <<>> /\ carried[p] = {}
    <2>1. Untouched(u, p)
      BY <1>1, <1>4 DEF Untouched
    <2>2. messages[p] = <<>> /\ carried[p] = {}
      BY <2>1 DEF Past
    <2> QED BY <1>4, <2>2, UntouchedStep
  <1>5. ASSUME NEW p \in DOMAIN phases', w.at = "idle" \/ p # w.phase
        PROVE  IsTold(p)'
    <2>1. p # u.phase
      <3>1. u.at # "idle"
        BY DEF Stages
      <3> QED BY <1>1, <1>5, <3>1
    <2>2. p \in DOMAIN phases /\ (IsTold(p) => IsTold(p)')
      BY <2>1, OthersStep
    <2>3. IsTold(p)
      BY <2>1, <2>2 DEF Past
    <2> QED BY <2>2, <2>3
  <1>6. CompletedIsWhole'
    <2>1. CompletedIsWhole
      BY DEF Past
    <2> QED BY <2>1, WholeStep
  <1>7. (\A i \in DOMAIN examples : examples[i].type = "sft_conversation" => IsAnswer(examples[i]))'
    <2>1. \A i \in DOMAIN examples : examples[i].type = "sft_conversation" => IsAnswer(examples[i])
      BY DEF Past
    <2> QED BY <2>1, AnswersStep
  <1>8. carried \in [PhaseIds -> SUBSET Nat]
    BY DEF Past
  <1>9. \A p : Untouched(w, p)' <=> Untouched(w, p)
    BY DEF Untouched
  <1> QED BY <1>2, <1>3, <1>4, <1>5, <1>6, <1>7, <1>8, <1>9 DEF Past

\* A statement of a run is executed.
LEMMA ExecuteKeeps ==
    ASSUME TraceInv, Execute
    PROVE  TraceInv'
  <1>u. PICK u : u = work
    OBVIOUS
  <1>w. PICK w : w = [u EXCEPT !.todo = Tail(@)]
    OBVIOUS
  <1>s. PICK s : s = Head(u.todo)
    OBVIOUS
  <1>c. PICK carried : carried = ran
    OBVIOUS
  <1>1. /\ u.at # "idle" /\ u.todo # <<>> /\ work' = w /\ Parents(s) /\ Executed(s)
        /\ UNCHANGED <<capture, thinking, exported, ran>>
    BY <1>u, <1>w, <1>s, ExecuteIs
  <1>2. /\ u \in Working /\ u.phase = <<u.run, Place(u.role, u.attempt)>> /\ u.phase \in PhaseIds
        /\ Queued(u) /\ Founded(u) /\ Closing(u) /\ Telling(u, carried) /\ Answering(u)
    BY <1>u, <1>c, <1>1, UnderWay
  <1>3. TablesOK /\ WorkTyped(u) /\ Past(u, carried)
    BY <1>u, <1>c DEF TraceInv
  <1>4. s = u.todo[1]
    BY <1>s
  <1>5. w \in Working /\ s \in Statement /\ Pops(u, s, w)
    BY <1>1, <1>2, <1>4, <1>w, Popped
  <1>6. capture # "off"
    BY <1>1, <1>2 DEF Queued
  <1>7. u.at \in Stages /\ u.run \in Runs /\ u.run \in Nat /\ u.phase[1] = u.run
    BY <1>2, WorkingFields, Numbers
  <1>8. TablesOK'
    BY <1>1, <1>3, <1>5, <1>6, TablesStep
  <1>9. WorkTyped(w)'
    <2>1. WorkTyped(w)
      BY <1>3, <1>5, <1>2, <1>7 DEF WorkTyped, Pops, Stages
    <2> QED BY <1>1, <2>1, StaysTyped
  <1>10. Past(w, carried)'
    BY <1>1, <1>2, <1>3, <1>5, <1>6, <1>7, <1>8, <1>c, PastStep
  <1>11. Queued(w)'
    BY <1>1, <1>2, <1>5, QueuedStep
  <1>12. Founded(w)'
    BY <1>1, <1>2, <1>5, FoundedStep
  <1>13. Closing(w)'
    BY <1>1, <1>2, <1>3, <1>5, <1>7, ClosingStep
  <1>14. Telling(w, carried)'
    BY <1>1, <1>2, <1>3, <1>5, TellingStep
  <1>15. Answering(w)'
    BY <1>1, <1>2, <1>3, <1>5, AnsweringStep
  <1>16. Underway(w, carried)'
    BY <1>11, <1>12, <1>13, <1>14, <1>15 DEF Underway
  <1>17. w = work' /\ carried = ran'
    BY <1>1, <1>c
  <1> QED BY <1>8, <1>9, <1>10, <1>16, <1>17 DEF TraceInv

----------------------------------------------------------------------------
(* TraceStore: the invariant, and what it gives.                           *)

\* The rows of an export are rows of the table.
LEMMA ExportKeeps ==
    ASSUME TraceInv, NEW type, NEW limit, Export(type, limit)
    PROVE  TraceInv'
  <1>1. exported' = FirstExamples(type, limit) /\ UNCHANGED <<capture, thinking, tables, work, ran>>
    BY DEF Export
  <1>2. /\ runs' = runs /\ phases' = phases /\ events' = events /\ messages' = messages
        /\ artifacts' = artifacts /\ examples' = examples /\ work' = work /\ ran' = ran
        /\ UNCHANGED <<capture, thinking>>
    BY <1>1 DEF tables
  <1>3. \A e \in FirstExamples(type, limit) : \E i \in DOMAIN examples : e = examples[i]
    BY DEF FirstExamples, Wanted
  <1>4. TablesOK'
    <2>1. /\ RunRow' = RunRow /\ PhaseRow' = PhaseRow /\ EventRow' = EventRow
          /\ MessageRow' = MessageRow /\ ExampleRow' = ExampleRow
      BY <1>2, Settings
    <2>2. \A e \in exported' : \E i \in DOMAIN examples' : e = examples'[i]
      BY <1>1, <1>2, <1>3
    <2>3. TablesOK
      BY DEF TraceInv
    <2> QED BY <1>2, <2>1, <2>2, <2>3 DEF TablesOK
  <1>5. WorkTyped(work)'
    <2>1. Working' = Working
      BY <1>2, Settings
    <2>2. WorkTyped(work)
      BY DEF TraceInv
    <2> QED BY <1>2, <2>1, <2>2 DEF WorkTyped
  <1>6. \A p, source : Told(p, source)' = Told(p, source) /\ RowsFrom(p, source)' = RowsFrom(p, source)
    BY <1>2, SameMessages
  <1>7. Past(work, ran)'
    <2>1. Past(work, ran)
      BY DEF TraceInv
    <2>2. \A p : (InOrder(p)' <=> InOrder(p)) /\ (IsTold(p)' <=> IsTold(p))
      BY <1>2, <1>6 DEF InOrder, IsTold
    <2>3. \A e : IsAnswer(e)' <=> IsAnswer(e)
      BY <1>2, <1>6 DEF IsAnswer
    <2>4. CompletedIsWhole' <=> CompletedIsWhole
      BY <1>2 DEF CompletedIsWhole
    <2>5. \A p : Untouched(work, p)' <=> Untouched(work, p)
      BY <1>2 DEF Untouched
    <2> QED BY <1>2, <2>1, <2>2, <2>3, <2>4, <2>5 DEF Past
  <1>8. Underway(work, ran)'
    <2>1. Underway(work, ran)
      BY DEF TraceInv
    <2>2. Queued(work)' <=> Queued(work)
      BY <1>2 DEF Queued
    <2>3. Founded(work)' <=> Founded(work)
      BY <1>2 DEF Founded, RunBefore, PhaseBefore
    <2>4. Closing(work)' <=> Closing(work)
      BY <1>2 DEF Closing
    <2>5. \A source : Coming(work, source)' = Coming(work, source) /\ ComingIds(work, source)' = ComingIds(work, source)
      BY <1>2 DEF Coming, ComingIds
    <2>6. Told(work.phase, "tool_result")' = Told(work.phase, "tool_result")
      BY <1>2, <1>6
    <2>7. Told(work.phase, "assistant_response")' = Told(work.phase, "assistant_response")
      BY <1>2, <1>6
    <2>8. Telling(work, ran)' <=> Telling(work, ran)
      BY <1>2, <2>5, <2>6 DEF Telling
    <2>9. Answering(work)' <=> Answering(work)
      BY <1>2, <2>5, <2>7 DEF Answering
    <2> QED BY <1>2, <2>1, <2>2, <2>3, <2>4, <2>8, <2>9 DEF Underway
  <1> QED BY <1>4, <1>5, <1>7, <1>8 DEF TraceInv

\* Nothing is stored at first.
LEMMA InitTrace == TraceInit => TraceInv
  <1> SUFFICES ASSUME TraceInit PROVE TraceInv
    OBVIOUS
  <1>1. /\ runs = <<>> /\ phases = <<>> /\ events = {} /\ examples = <<>> /\ exported = {}
        /\ messages = [p \in PhaseIds |-> <<>>] /\ work = NoRun /\ ran = [p \in PhaseIds |-> {}]
    BY DEF TraceInit
  <1>2. DOMAIN runs = {} /\ DOMAIN phases = {} /\ DOMAIN examples = {}
    BY <1>1
  <1>3. TablesOK
    <2>1. messages \in [PhaseIds -> Seq(MessageRow)]
      BY <1>1
    <2>2. examples \in Seq(ExampleRow)
      BY <1>1
    <2> QED BY <1>1, <1>2, <2>1, <2>2 DEF TablesOK
  <1>4. WorkTyped(work)
    <2>1. 0 \in 0 .. MaxRuns
      BY Numbers
    <2> QED BY <1>1, <2>1 DEF WorkTyped, NoRun
  <1>5. Past(work, ran)
    <2>1. \A p \in PhaseIds : messages[p] = <<>> /\ ran[p] = {}
      BY <1>1
    <2>2. \A p \in PhaseIds : InOrder(p)
      BY <2>1 DEF InOrder, RowsFrom
    <2>3. ran \in [PhaseIds -> SUBSET Nat]
      BY <1>1
    <2> QED BY <1>2, <2>1, <2>2, <2>3 DEF Past, CompletedIsWhole
  <1>6. Underway(work, ran)
    BY <1>1 DEF Underway, NoRun
  <1> QED BY <1>3, <1>4, <1>5, <1>6 DEF TraceInv

\* The run returns.
LEMMA ReturnKeeps ==
    ASSUME TraceInv, Return
    PROVE  TraceInv'
  <1>1. work.at # "idle"
    BY DEF Return, Ready
  <1>2. work' = [NoRun EXCEPT !.run = work.run] /\ UNCHANGED <<capture, thinking, tables, exported, ran>>
    BY DEF Return, Rest
  <1> QED BY <1>1, <1>2, LeavingKeeps

\* The run stops where it is.
LEMMA StopKeeps ==
    ASSUME TraceInv, Stop
    PROVE  TraceInv'
  <1>1. work.at # "idle"
    BY DEF Stop
  <1>2. work' = [NoRun EXCEPT !.run = work.run] /\ UNCHANGED <<capture, thinking, tables, exported, ran>>
    BY DEF Stop, Rest
  <1> QED BY <1>1, <1>2, LeavingKeeps

\* TraceInv is an invariant: every handler of the hooks leaves statements that fit
\* the tables as they are, and every statement brings the tables on as it says.
THEOREM TraceInvariance == TraceSpec => []TraceInv
  <1>1. TraceInit => TraceInv
    BY InitTrace
  <1>2. TraceInv /\ [TraceNext]_traceVars => TraceInv'
    <2> SUFFICES ASSUME TraceInv, [TraceNext]_traceVars
                 PROVE  TraceInv'
      OBVIOUS
    <2>1. ASSUME NEW mode \in Modes, Begin(mode)
          PROVE  TraceInv'
      BY <2>1, BeginKeeps
    <2>2. CASE StartPhase
      BY <2>2, StartPhaseKeeps
    <2>3. CASE RequestTurn
      BY <2>3, RequestTurnKeeps
    <2>4. CASE Reply
      BY <2>4, ReplyKeeps
    <2>5. CASE CarryOutTools
      BY <2>5, CarryOutToolsKeeps
    <2>6. CASE AutoWrite
      BY <2>6, AutoWriteKeeps
    <2>7. CASE CompletePhase
      BY <2>7, CompletePhaseKeeps
    <2>8. CASE Return
      BY <2>8, ReturnKeeps
    <2>9. CASE NextRole
      BY <2>9, NextRoleKeeps
    <2>10. CASE Execute
      BY <2>10, ExecuteKeeps
    <2>11. CASE Stop
      BY <2>11, StopKeeps
    <2>12. ASSUME NEW type \in {"sft_conversation", "team_final"}, NEW limit \in {0, 1},
                  Export(type, limit)
           PROVE  TraceInv'
      BY <2>12, ExportKeeps
    <2>13. CASE UNCHANGED traceVars
      <3>1. UNCHANGED <<capture, thinking, tables, exported>> /\ work' = work /\ ran' = ran
        BY <2>13 DEF traceVars
      <3>w. PICK w : w = work
        OBVIOUS
      <3>c. PICK carried : carried = ran
        OBVIOUS
      <3>2. TablesOK /\ WorkTyped(w) /\ Past(w, carried) /\ Underway(w, carried)
        BY <3>w, <3>c DEF TraceInv
      <3> QED BY <3>1, <3>2, <3>w, <3>c, Unmoved
    <2> QED BY <2>1, <2>2, <2>3, <2>4, <2>5, <2>6, <2>7, <2>8, <2>9, <2>10, <2>11, <2>12, <2>13
            DEF TraceNext
  <1> QED BY <1>1, <1>2, PTL DEF TraceSpec

\* No statement of a run is ever refused for want of its run or its phase.
THEOREM StatementsHaveParents == TraceSpec => []NothingRefused
  <1>1. TraceInv => NothingRefused
    <2> SUFFICES ASSUME TraceInv, work.at # "idle", work.todo # <<>>
                 PROVE  Parents(Head(work.todo))
      BY DEF NothingRefused
    <2>u. PICK u : u = work
      OBVIOUS
    <2>s. PICK s : s = Head(u.todo)
      OBVIOUS
    <2>1. /\ u \in Working /\ u.phase = <<u.run, Place(u.role, u.attempt)>>
          /\ Queued(u) /\ Founded(u)
      BY <2>u, UnderWay
    <2>2. s = u.todo[1] /\ 1 \in DOMAIN u.todo /\ \A i \in DOMAIN u.todo : ~(i < 1)
      <3>1. PICK todo \in Seq(Statement) : todo = u.todo
        BY <2>1, WorkingFields
      <3>2. PICK n \in Nat : n = Len(todo)
        BY <3>1
      <3>3. DOMAIN todo = 1 .. n /\ n # 0
        BY <2>u, <3>1, <3>2
      <3>4. 1 \in DOMAIN todo /\ \A i \in DOMAIN todo : ~(i < 1)
        BY <3>3
      <3> QED BY <2>s, <3>1, <3>4
    <2>3. Concerns(u, s) /\ u.phase[1] = u.run
      BY <2>1, <2>2 DEF Queued
    <2>4. RunBefore(u, 1) => u.run \in DOMAIN runs
      BY <2>2 DEF RunBefore
    <2>5. PhaseBefore(u, 1) => u.phase \in DOMAIN phases
      BY <2>2 DEF PhaseBefore
    <2>6. /\ s.table \in {"phases", "events", "examples"} => u.run \in DOMAIN runs
          /\ s.table \in {"messages", "artifacts"} => u.phase \in DOMAIN phases
          /\ s.table \in {"events", "examples"} /\ s.row.phase # NoPhase => u.phase \in DOMAIN phases
      BY <2>1, <2>2, <2>4, <2>5 DEF Founded
    <2>7. Parents(s)
      BY <2>3, <2>6 DEF Parents, Concerns
    <2> QED BY <2>u, <2>s, <2>7
  <1> QED BY <1>1, TraceInvariance, PTL

\* A run is stored as completed only when every phase of it is.
THEOREM RunsAreWhole == TraceSpec => []CompletedIsWhole
  <1>1. TraceInv => CompletedIsWhole
    BY DEF TraceInv, Past
  <1> QED BY <1>1, TraceInvariance, PTL

\* The results of the tools of a phase are stored in their order, none without
\* those that came earlier, and all of them when the phase is completed.
THEOREM ResultsAreTold == TraceSpec => []ToolsTold
  <1>1. TraceInv => ToolsTold
    BY AllTold DEF ToolsTold
  <1> QED BY <1>1, TraceInvariance, PTL

\* What an example of a conversation wants for an output is the last answer stored
\* of a phase that is completed, in the table and in every export.
THEOREM ExamplesAreLastAnswers == TraceSpec => []ExamplesAreAnswers
  <1>1. TraceInv => ExamplesAreAnswers
    <2> SUFFICES ASSUME TraceInv
                 PROVE  ExamplesAreAnswers
      OBVIOUS
    <2>1. \A i \in DOMAIN examples : examples[i].type = "sft_conversation" => IsAnswer(examples[i])
      BY DEF TraceInv, Past
    <2>2. \A e \in exported : \E i \in DOMAIN examples : e = examples[i]
      BY DEF TraceInv, TablesOK
    <2> QED BY <2>1, <2>2 DEF ExamplesAreAnswers
  <1> QED BY <1>1, TraceInvariance, PTL

\* Of texts, no table holds a secret that redact_text knows, and with capture
\* metadata none but the errors of tools and the reasons of routes.
THEOREM NothingElseIsStored == TraceSpec => []OnlyWhatIsAsked
  <1>1. TraceInv => OnlyWhatIsAsked
    <2> SUFFICES ASSUME TraceInv
                 PROVE  OnlyWhatIsAsked
      OBVIOUS
    <2>1. TablesOK
      BY DEF TraceInv
    <2>2. \A r \in DOMAIN runs : RunAsks(runs[r])
      BY <2>1 DEF TablesOK, RunRow
    <2>3. \A e \in events : EventAsks(e)
      BY <2>1 DEF TablesOK, EventRow
    <2>4. ASSUME NEW p \in PhaseIds, NEW i \in DOMAIN messages[p]
          PROVE  MessageAsks(messages[p][i])
      <3>1. messages[p] \in Seq(MessageRow)
        BY <2>1 DEF TablesOK
      <3>2. messages[p][i] \in MessageRow
        BY <2>4, <3>1
      <3> QED BY <3>2 DEF MessageRow
    <2>5. ASSUME NEW i \in DOMAIN examples
          PROVE  ExampleAsks(examples[i])
      <3>1. examples \in Seq(ExampleRow)
        BY <2>1 DEF TablesOK
      <3>2. examples[i] \in ExampleRow
        BY <2>5, <3>1
      <3> QED BY <3>2 DEF ExampleRow
    <2> QED BY <2>2, <2>3, <2>4, <2>5 DEF OnlyWhatIsAsked
  <1> QED BY <1>1, TraceInvariance, PTL
=============================================================================
