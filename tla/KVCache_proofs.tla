--------------------------- MODULE KVCache_proofs ---------------------------
(***************************************************************************)
(* Proofs about KVCache for any number of clients, keys and ticks: its     *)
(* types, and that clear never removes a live entry; and for one client on *)
(* the file that evicting takes nothing alive, that the store is a map     *)
(* whose values lapse (LiveMap), and, with embeddings enabled, that no     *)
(* vector outlives its entry.                                              *)
(***************************************************************************)
EXTENDS KVCache, TLAPS

\* A clear in progress read a clock that has only advanced since.
ClearInv == \A c \in Clients : op[c].kind = "clear" => op[c].now <= clock

IInv == TypeOK /\ ClearInv

\* What a read is left with is an operation, neither a clear nor an embedding.
LEMMA ReadingOp ==
    ASSUME NEW todo \in SUBSET Names, NEW rows \in SUBSET Row, NEW evict \in SUBSET Keys
    PROVE  /\ Reading(todo, rows, evict) \in Op
           /\ Reading(todo, rows, evict).kind # "clear"
           /\ Reading(todo, rows, evict).kind # "embed"
  <1>1. CASE todo = {} /\ rows = {} /\ evict = {}
    BY <1>1 DEF Reading, Op, Idle
  <1>2. CASE ~(todo = {} /\ rows = {} /\ evict = {})
    <2> DEFINE r == [kind |-> "read", todo |-> todo, rows |-> rows, evict |-> evict]
    <2>1. r \in [kind : {"read"}, todo : SUBSET Names, rows : SUBSET Row, evict : SUBSET Keys]
      OBVIOUS
    <2>2. r.todo # {} \/ r.rows # {} \/ r.evict # {}
      BY <1>2
    <2>3. Reading(todo, rows, evict) = r
      BY <1>2 DEF Reading
    <2>4. r.kind = "read"
      OBVIOUS
    <2> HIDE DEF r
    <2> QED BY <2>1, <2>2, <2>3, <2>4 DEF Op
  <1> QED BY <1>1, <1>2

\* What an operation in progress holds, by its kind.
LEMMA OpFields ==
    ASSUME NEW o \in Op
    PROVE  /\ o.kind = "set" => o.name \in Names /\ o.value \in Values /\ o.expires \in Times
           /\ o.kind = "embed" => o.name \in Names /\ o.value \in Values
           /\ o.kind = "clear" => o.scope \in SUBSET Names /\ o.now \in Nat
           /\ o.kind = "read" => /\ o.todo \in SUBSET Names /\ o.rows \in SUBSET Row
                                 /\ o.evict \in SUBSET Keys
  BY DEF Op, Idle

\* _entry_from_row of a stored key is a row.
LEMMA StoredRow ==
    ASSUME TypeOK, NEW k \in Stored
    PROVE  RowOf(k) \in Row
  BY DEF TypeOK, Stored, RowOf, Row, Entry

\* A DELETE of the keys of S empties those and leaves the others.
LEMMA WithoutTable ==
    ASSUME NEW S, NEW T, NEW I, NEW table \in [I -> T \cup {None}]
    PROVE  /\ Without(table, S) \in [I -> T \cup {None}]
           /\ \A k \in I : Without(table, S)[k] = IF k \in S THEN None ELSE table[k]
  BY DEF Without

\* The transaction of delete, clear and evictions keeps the types of both tables.
LEMMA RemoveTables ==
    ASSUME TypeOK, NEW c, NEW S, Remove(c, S)
    PROVE  entries' \in [Keys -> Entry \cup {None}] /\ embeddings' \in [Names -> Values \cup {None}]
  BY WithoutTable DEF Remove, TypeOK

\* A client goes on to an operation that is not a clear.
LEMMA GoesOn ==
    ASSUME IInv, NEW c \in Clients, NEW next \in Op, next.kind # "clear", Goes(c, next),
           clock' = clock
    PROVE  op' \in [Clients -> Op] /\ ClearInv'
  BY DEF IInv, TypeOK, ClearInv, Goes

\* The invariant holds of the empty file.
LEMMA InitInv == Init => IInv
  <1> SUFFICES ASSUME Init PROVE IInv
    OBVIOUS
  <1>1. Idle \in Op /\ Idle.kind # "clear"
    BY DEF Op, Idle
  <1> QED BY <1>1, KVAssumption DEF Init, IInv, TypeOK, ClearInv

\* Every step of a writing operation keeps the invariant.
LEMMA WriteSteps ==
    ASSUME IInv, NEW c \in Clients, Write(c)
    PROVE  IInv'
  <1>t. TypeOK /\ op[c] \in Op /\ clock \in Nat
    BY KVAssumption DEF IInv, TypeOK
  <1>i. Idle \in Op /\ Idle.kind # "clear"
    BY DEF Op, Idle
  <1>1. ASSUME NEW n \in Names, NEW ttl \in TTLs, SetBegin(c, n, ttl) PROVE IInv'
    <2> DEFINE e == IF ttl = Never THEN Never ELSE clock + ttl
               next == Setting(n, writes + 1, e)
    <2>1. e \in Times
      BY <1>t, KVAssumption DEF Times
    <2>2. writes + 1 \in Values /\ writes' \in 0 .. MaxWrites
      BY <1>1, <1>t, KVAssumption DEF SetBegin, TypeOK, Values
    <2>3. Goes(c, next)
      BY <1>1 DEF SetBegin
    <2> HIDE DEF e
    <2>4. next \in Op /\ next.kind # "clear"
      BY <2>1, <2>2 DEF Setting, Op
    <2> HIDE DEF next
    <2>5. op' \in [Clients -> Op] /\ ClearInv'
      BY <1>1, <2>3, <2>4, GoesOn DEF SetBegin
    <2> QED BY <1>1, <1>t, <2>2, <2>5 DEF SetBegin, IInv, TypeOK
  <1>2. ASSUME SetCommit(c) PROVE IInv'
    <2> DEFINE o == op[c]
               row == [value |-> o.value, expires |-> o.expires]
               next == IF c \in Embedders THEN Embedding(o.name, o.value) ELSE Idle
    <2>1. o.name \in Names /\ Clean[o.name] \in Keys /\ o.value \in Values /\ o.expires \in Times
      BY <1>2, <1>t, OpFields, KVAssumption DEF SetCommit
    <2>2. row \in Entry
      BY <2>1 DEF Entry
    <2>3. next \in Op /\ next.kind # "clear"
      BY <2>1, <1>i DEF Embedding, Op
    <2>4. Goes(c, next) /\ entries' = [entries EXCEPT ![Clean[o.name]] = row]
      BY <1>2 DEF SetCommit
    <2> HIDE DEF next, row
    <2>5. op' \in [Clients -> Op] /\ ClearInv'
      BY <1>2, <2>3, <2>4, GoesOn DEF SetCommit
    <2>6. entries' \in [Keys -> Entry \cup {None}]
      BY <1>t, <2>1, <2>2, <2>4 DEF TypeOK
    <2> QED BY <1>2, <1>t, <2>5, <2>6 DEF SetCommit, IInv, TypeOK
  <1>3. ASSUME SetEmbedding(c) PROVE IInv'
    <2>1. op[c].name \in Names /\ op[c].value \in Values
      BY <1>3, <1>t, OpFields DEF SetEmbedding
    <2>2. op' \in [Clients -> Op] /\ ClearInv'
      BY <1>3, <1>i, GoesOn DEF SetEmbedding
    <2>3. embeddings' \in [Names -> Values \cup {None}]
      BY <1>3, <1>t, <2>1 DEF SetEmbedding, TypeOK
    <2> QED BY <1>3, <1>t, <2>2, <2>3 DEF SetEmbedding, IInv, TypeOK
  <1>4. ASSUME EmbeddingFails(c) PROVE IInv'
    <2>1. op' \in [Clients -> Op] /\ ClearInv'
      BY <1>4, <1>i, GoesOn DEF EmbeddingFails
    <2> QED BY <1>4, <1>t, <2>1 DEF EmbeddingFails, IInv, TypeOK
  <1>5. ASSUME NEW S, Remove(c, S), UNCHANGED <<clock, writes, op, answer>> PROVE IInv'
    <2>1. entries' \in [Keys -> Entry \cup {None}] /\ embeddings' \in [Names -> Values \cup {None}]
      BY <1>5, <1>t, RemoveTables
    <2> QED BY <1>5, <1>t, <2>1 DEF IInv, TypeOK, ClearInv
  <1>6. ASSUME NEW scope \in Scopes, ClearBegin(c, scope) PROVE IInv'
    <2>1. Clearing(scope, clock) \in Op /\ Clearing(scope, clock).now = clock
      BY <1>t, KVAssumption DEF Clearing, Op
    <2>2. op' \in [Clients -> Op] /\ ClearInv'
      BY <1>6, <1>t, <2>1 DEF ClearBegin, Goes, IInv, TypeOK, ClearInv
    <2> QED BY <1>6, <1>t, <2>2 DEF ClearBegin, IInv, TypeOK
  <1>7. ASSUME ClearCommit(c) PROVE IInv'
    <2>1. op' \in [Clients -> Op] /\ ClearInv'
      BY <1>7, <1>i, GoesOn DEF ClearCommit
    <2>2. entries' \in [Keys -> Entry \cup {None}] /\ embeddings' \in [Names -> Values \cup {None}]
      <3>1. entries \in [Keys -> Entry \cup {None}] /\ embeddings \in [Names -> Values \cup {None}]
        BY <1>t DEF TypeOK
      <3>2. PICK later \in op[c].now .. clock :
              embeddings' = IF c \in Embedders
                            THEN Without(embeddings, ExpiredIn(op[c].scope, later))
                            ELSE embeddings
        BY <1>7 DEF ClearCommit
      <3>3. embeddings' \in [Names -> Values \cup {None}]
        BY <3>1, <3>2 DEF Without
      <3>4. entries' = Without(entries, ExpiredIn(op[c].scope, op[c].now))
        BY <1>7 DEF ClearCommit
      <3> QED BY <3>1, <3>3, <3>4 DEF Without
    <2> QED BY <1>7, <1>t, <2>1, <2>2 DEF ClearCommit, IInv, TypeOK
  <1> QED BY <1>1, <1>2, <1>3, <1>4, <1>5, <1>6, <1>7 DEF Write, Delete, ClearAll

\* Every step of a reading operation keeps the invariant.
LEMMA ReadSteps ==
    ASSUME IInv, NEW c \in Clients, Read(c)
    PROVE  IInv'
  <1>t. TypeOK /\ op[c] \in Op
    BY DEF IInv, TypeOK
  <1>1. ASSUME NEW todo \in SUBSET Names, NEW rows \in SUBSET Row, NEW evict \in SUBSET Keys,
               Goes(c, Reading(todo, rows, evict)), clock' = clock
        PROVE  op' \in [Clients -> Op] /\ ClearInv'
    BY <1>1, ReadingOp, GoesOn
  <1>2. ASSUME NEW k \in Keys, GetBegin(c, k) PROVE IInv'
    <2>1. op' \in [Clients -> Op] /\ ClearInv'
      BY <1>1, <1>2, KVAssumption DEF GetBegin
    <2> QED BY <1>2, <1>t, <2>1 DEF GetBegin, IInv, TypeOK
  <1>3. ASSUME NEW best \in SUBSET Names, SearchBegin(c, best) PROVE IInv'
    <2>1. op' \in [Clients -> Op] /\ ClearInv'
      BY <1>1, <1>3 DEF SearchBegin
    <2> QED BY <1>3, <1>t, <2>1 DEF SearchBegin, IInv, TypeOK
  <1>4. ASSUME NEW scope \in Scopes, NEW limit \in Limits, ListBegin(c, scope, limit) PROVE IInv'
    <2> DEFINE rows == {RowOf(k) : k \in FirstRows(scope, limit)}
    <2>1. rows \in SUBSET Row
      BY <1>t, StoredRow DEF FirstRows
    <2>2. Goes(c, Reading({}, rows, {}))
      BY <1>4 DEF ListBegin
    <2> HIDE DEF rows
    <2>3. op' \in [Clients -> Op] /\ ClearInv'
      BY <1>1, <1>4, <2>1, <2>2 DEF ListBegin
    <2> QED BY <1>4, <1>t, <2>3 DEF ListBegin, IInv, TypeOK
  <1>5. ASSUME NEW n \in Names, GetRow(c, n) PROVE IInv'
    <2> DEFINE left == op[c].todo \ {n}
    <2>1. left \in SUBSET Names /\ Clean[n] \in Keys
      BY <1>5, <1>t, OpFields, KVAssumption DEF GetRow
    <2>2. CASE Clean[n] \in Stored /\ Goes(c, Reading(left, {RowOf(Clean[n])}, {})) /\ answer' = answer
      <3>1. {RowOf(Clean[n])} \in SUBSET Row
        BY <1>t, <2>2, StoredRow
      <3>2. op' \in [Clients -> Op] /\ ClearInv'
        BY <1>1, <1>5, <2>1, <2>2, <3>1 DEF GetRow
      <3> QED BY <1>5, <1>t, <2>2, <3>2 DEF GetRow, IInv, TypeOK
    <2>3. CASE Goes(c, Reading(left, {}, {})) /\ answer' = [key |-> Clean[n], value |-> None]
      <3>1. op' \in [Clients -> Op] /\ ClearInv'
        BY <1>1, <1>5, <2>1, <2>3 DEF GetRow
      <3> QED BY <1>5, <1>t, <2>1, <2>3, <3>1 DEF GetRow, IInv, TypeOK
    <2> QED BY <1>5, <2>2, <2>3 DEF GetRow
  <1>6. ASSUME op[c].kind = "read", NEW row \in op[c].rows, CheckRow(c, row) PROVE IInv'
    <2> DEFINE o == op[c]
               evict == IF Expired(row, clock) THEN o.evict \cup {row.key} ELSE o.evict
               value == IF Expired(row, clock) THEN None ELSE row.value
    <2>1. o.todo \in SUBSET Names /\ o.rows \in SUBSET Row /\ o.evict \in SUBSET Keys
      BY <1>6, <1>t, OpFields
    <2>2. row.key \in Keys /\ row.value \in Values
      BY <2>1 DEF Row
    <2>3. evict \in SUBSET Keys /\ value \in Values \cup {None}
      BY <2>1, <2>2
    <2>4. Goes(c, Reading(o.todo, o.rows \ {row}, evict)) /\ answer' = [key |-> row.key, value |-> value]
      BY <1>6 DEF CheckRow
    <2> HIDE DEF evict, value
    <2>5. op' \in [Clients -> Op] /\ ClearInv'
      BY <1>1, <1>6, <2>1, <2>3, <2>4 DEF CheckRow
    <2>6. answer' \in [key : Keys, value : Values \cup {None}]
      BY <2>2, <2>3, <2>4
    <2> QED BY <1>6, <1>t, <2>5, <2>6 DEF CheckRow, IInv, TypeOK
  <1>7. ASSUME NEW k \in Keys, Evict(c, k) PROVE IInv'
    <2>1. op[c].todo \in SUBSET Names /\ op[c].evict \ {k} \in SUBSET Keys
      BY <1>7, <1>t, OpFields DEF Evict
    <2>2. op' \in [Clients -> Op] /\ ClearInv'
      BY <1>1, <1>7, <2>1 DEF Evict
    <2>3. entries' \in [Keys -> Entry \cup {None}] /\ embeddings' \in [Names -> Values \cup {None}]
      BY <1>7, <1>t, RemoveTables DEF Evict
    <2> QED BY <1>7, <1>t, <2>2, <2>3 DEF Evict, IInv, TypeOK
  <1> QED BY <1>2, <1>3, <1>4, <1>5, <1>6, <1>7 DEF Read

\* The invariant is inductive.
LEMMA NextInv == IInv /\ [Next]_vars => IInv'
  <1> SUFFICES ASSUME IInv, [Next]_vars PROVE IInv'
    OBVIOUS
  <1>t. TypeOK
    BY DEF IInv
  <1>1. CASE Tick
    BY <1>1, <1>t, KVAssumption, OpFields DEF Tick, IInv, TypeOK, ClearInv
  <1>2. ASSUME NEW c \in Clients, Crash(c) PROVE IInv'
    <2>1. Idle \in Op /\ Idle.kind # "clear"
      BY DEF Op, Idle
    <2>2. op' \in [Clients -> Op] /\ ClearInv'
      BY <1>2, <2>1, GoesOn DEF Crash
    <2> QED BY <1>2, <1>t, <2>2 DEF Crash, IInv, TypeOK
  <1>3. CASE UNCHANGED vars
    BY <1>3, <1>t DEF vars, IInv, TypeOK, ClearInv
  <1> QED BY <1>1, <1>2, <1>3, WriteSteps, ReadSteps DEF Next

\* What the theorems below rest on: types, and clocks read in the past.
THEOREM Invariance == Spec => []IInv
  BY InitInv, NextInv, PTL DEF Spec

\* Whatever the clients interleave, the tables, the methods in progress and the
\* answers keep their types.
THEOREM TypeCorrect == Spec => []TypeOK
  <1>1. IInv => TypeOK
    BY DEF IInv
  <1> QED BY Invariance, <1>1, PTL

\* clear with expired_only removes no live entry, for any number of clients and
\* however long its transaction comes after it read the clock.
THEOREM ClearSpares == Spec => ClearKeepsLive
  <1>1. IInv /\ [Next]_vars =>
            [\A c \in Clients : ClearCommit(c) => LiveValues' = LiveValues]_vars
    <2> SUFFICES ASSUME IInv, NEW c \in Clients, ClearCommit(c)
                 PROVE  LiveValues' = LiveValues
      OBVIOUS
    <2> DEFINE gone == ExpiredIn(op[c].scope, op[c].now)
    <2>1. /\ entries' = Without(entries, gone) /\ clock' = clock
          /\ entries \in [Keys -> Entry \cup {None}] /\ clock \in Nat
          /\ op[c].now \in Nat /\ op[c].now <= clock
      BY KVAssumption, OpFields DEF ClearCommit, IInv, TypeOK, ClearInv
    <2>2. ASSUME NEW k \in Keys
          PROVE  /\ entries'[k] = IF k \in gone THEN None ELSE entries[k]
                 /\ k \in gone => ~Live(k)
      <3>1. entries'[k] = IF k \in gone THEN None ELSE entries[k]
        BY <2>1 DEF Without
      <3>2. ASSUME k \in gone PROVE ~Live(k)
        <4>1. /\ entries[k] # None /\ entries[k].expires # Never
              /\ entries[k].expires <= op[c].now
          BY <3>2 DEF ExpiredIn, Expired, Stored
        <4>2. entries[k].expires \in Int
          BY <2>1, <4>1 DEF Entry, Times
        <4>3. ~(entries[k].expires > clock)
          BY <2>1, <4>1, <4>2
        <4> QED BY <4>1, <4>3 DEF Live
      <3> QED BY <3>1, <3>2
    <2> HIDE DEF gone
    <2> QED BY <2>1, <2>2 DEF LiveValues, Live
  <1> QED BY Invariance, <1>1, PTL DEF Spec, ClearKeepsLive

\* A transaction of an embedder deletes with each entry its vector.
LEMMA RemovalOrphansNothing ==
    ASSUME TypeOK, NEW S, NEW T, S \subseteq T,
           entries' = Without(entries, S), embeddings' = Without(embeddings, T)
    PROVE  Orphans' \subseteq Orphans
  BY DEF TypeOK, Orphans, Without

\* A store with embeddings enabled deletes, evicts and clears vectors together
\* with their entries, and its set gives a vector its entry back.
LEMMA EmbedderStep ==
    ASSUME IInv, NEW c \in Embedders, Write(c) \/ Read(c) \/ Crash(c), op[c].kind # "embed"
    PROVE  Orphans' \subseteq Orphans
  <1>t. TypeOK /\ c \in Clients
    BY KVAssumption DEF IInv
  <1>2. CASE UNCHANGED <<entries, embeddings>>
    BY <1>2 DEF Orphans
  <1>3. ASSUME NEW S, Remove(c, S) PROVE Orphans' \subseteq Orphans
    BY <1>3, <1>t, RemovalOrphansNothing DEF Remove
  <1>4. CASE SetCommit(c)
    <2> DEFINE row == [value |-> op[c].value, expires |-> op[c].expires]
    <2>1. entries' = [entries EXCEPT ![Clean[op[c].name]] = row] /\ embeddings' = embeddings
      BY <1>4 DEF SetCommit
    <2>2. row \in Entry
      BY <1>4, <1>t, OpFields DEF SetCommit, TypeOK, Entry
    <2> HIDE DEF row
    <2> QED BY <2>1, <2>2, <1>t, KVAssumption DEF Orphans, TypeOK
  <1>5. CASE ClearCommit(c)
    <2> DEFINE scope == op[c].scope
               now == op[c].now
    <2>1. PICK later \in now .. clock : embeddings' = Without(embeddings, ExpiredIn(scope, later))
      BY <1>5 DEF ClearCommit
    <2>2. now \in Nat /\ entries' = Without(entries, ExpiredIn(scope, now))
      BY <1>5, <1>t, OpFields DEF ClearCommit, TypeOK
    <2>3. ASSUME NEW k \in ExpiredIn(scope, now) PROVE k \in ExpiredIn(scope, later)
      <3>1. /\ k \in scope \cap Stored /\ entries[k].expires # Never
            /\ entries[k].expires <= now
        BY DEF ExpiredIn, Expired
      <3>2. entries[k].expires \in Int
        BY <1>t, <3>1 DEF TypeOK, Stored, Entry, Times
      <3>3. now <= later /\ later \in Int
        BY <2>2
      <3>4. entries[k].expires <= later
        BY <2>2, <3>1, <3>2, <3>3
      <3> QED BY <3>1, <3>4 DEF ExpiredIn, Expired
    <2>4. ExpiredIn(scope, now) \subseteq ExpiredIn(scope, later)
      BY <2>3
    <2> QED BY <2>1, <2>2, <2>4, <1>t, RemovalOrphansNothing
  <1>6. CASE Write(c)
    BY <1>2, <1>3, <1>4, <1>5, <1>6
       DEF Write, SetBegin, SetEmbedding, EmbeddingFails, Delete, ClearAll, ClearBegin
  <1>7. CASE Read(c)
    BY <1>2, <1>3, <1>7 DEF Read, GetBegin, SearchBegin, ListBegin, GetRow, CheckRow, Evict
  <1>8. CASE Crash(c)
    BY <1>2, <1>8 DEF Crash
  <1> QED BY <1>6, <1>7, <1>8

\* Where a store with embeddings enabled deletes an entry, evicts one, or clears, all
\* of a namespace or what has expired, it leaves no vector behind that had its entry,
\* whatever the stores beside it do and whenever clear reads the clock.
THEOREM EmbedderCleans == Spec => EmbedderOrphansNothing
  <1>1. IInv /\ [Next]_vars =>
            [\A c \in Embedders : Removes(c) => Orphans' \subseteq Orphans]_vars
    <2> SUFFICES ASSUME IInv, NEW c \in Embedders, Removes(c)
                 PROVE  Orphans' \subseteq Orphans
      OBVIOUS
    <2>1. Write(c) \/ Read(c)
      BY DEF Removes, Write, Read
    <2>2. op[c].kind # "embed"
      <3>1. op[c] = Idle => op[c].kind # "embed"
        BY DEF Idle
      <3> QED BY <3>1 DEF Removes, Delete, Evict, ClearAll, ClearCommit
    <2> QED BY <2>1, <2>2, EmbedderStep
  <1> QED BY Invariance, <1>1, PTL DEF Spec, EmbedderOrphansNothing

\* The entry a vector is being computed for is there, under the stripped name.
EntryWaits == \A c \in Clients : op[c].kind = "embed" => Clean[op[c].name] \in Stored

\* While an embedding is computed in the one store, its entry stays.
LEMMA EntryWaitsStep ==
    ASSUME IInv, EntryWaits, [Next]_vars, \A c, d \in Clients : c = d
    PROVE  EntryWaits'
  <1>t. TypeOK
    BY DEF IInv
  <1> SUFFICES ASSUME NEW c \in Clients, op'[c].kind = "embed"
               PROVE  Clean[op'[c].name] \in Stored'
    BY DEF EntryWaits
  <1>1. CASE op'[c] = op[c] /\ entries' = entries
    BY <1>1 DEF EntryWaits, Stored
  <1>2. CASE SetCommit(c)
    <2> DEFINE o == op[c]
               row == [value |-> o.value, expires |-> o.expires]
    <2>1. entries' = [entries EXCEPT ![Clean[o.name]] = row] /\ Clean[o.name] \in Keys
      BY <1>2, <1>t, OpFields, KVAssumption DEF SetCommit, TypeOK
    <2>2. row \in Entry
      BY <1>2, <1>t, OpFields DEF SetCommit, TypeOK, Entry
    <2>3. op'[c] = Embedding(o.name, o.value) \/ op'[c] = Idle
      BY <1>2, <1>t DEF SetCommit, Goes, TypeOK
    <2>4. op'[c].name = o.name
      BY <2>3 DEF Embedding, Idle
    <2> HIDE DEF row
    <2> QED BY <2>1, <2>2, <2>4, <1>t, KVAssumption DEF Stored, TypeOK
  <1>3. CASE op'[c].kind # "embed"
    BY <1>3
  <1>4. ASSUME op[c] = Idle, op' = op PROVE FALSE
    BY <1>4 DEF Idle
  <1>5. ASSUME NEW next, Goes(c, next), next.kind # "embed" PROVE FALSE
    BY <1>5, <1>t DEF Goes, TypeOK
  <1>6. ASSUME Goes(c, Idle) PROVE FALSE
    BY <1>5, <1>6 DEF Idle
  <1>7. ASSUME NEW todo, NEW rows, NEW evict, Goes(c, Reading(todo, rows, evict)) PROVE FALSE
    <2>1. Reading(todo, rows, evict).kind # "embed"
      BY DEF Reading, Idle
    <2> QED BY <1>5, <1>7, <2>1
  <1>8. ASSUME Write(c) PROVE Clean[op'[c].name] \in Stored'
    <2>1. ASSUME NEW n \in Names, NEW ttl \in TTLs, SetBegin(c, n, ttl) PROVE FALSE
      BY <1>5, <2>1 DEF SetBegin, Setting
    <2>2. ASSUME NEW scope \in Scopes, ClearBegin(c, scope) PROVE FALSE
      BY <1>5, <2>2 DEF ClearBegin, Clearing
    <2> QED BY <1>2, <1>4, <1>6, <1>8, <2>1, <2>2
            DEF Write, SetEmbedding, EmbeddingFails, Delete, ClearAll, ClearCommit
  <1>9. ASSUME Read(c) PROVE Clean[op'[c].name] \in Stored'
    <2>1. ASSUME NEW k, GetBegin(c, k) \/ GetRow(c, k) \/ Evict(c, k) PROVE FALSE
      BY <1>7, <2>1 DEF GetBegin, GetRow, Evict
    <2>2. ASSUME NEW best \in SUBSET Names, SearchBegin(c, best)
          PROVE  FALSE
      BY <1>7, <2>2 DEF SearchBegin
    <2>3. ASSUME NEW scope \in Scopes, NEW limit \in Limits, ListBegin(c, scope, limit)
          PROVE  FALSE
      BY <1>7, <2>3 DEF ListBegin
    <2>4. ASSUME NEW row \in op[c].rows, CheckRow(c, row) PROVE FALSE
      BY <1>7, <2>4 DEF CheckRow
    <2> QED BY <1>9, <2>1, <2>2, <2>3, <2>4 DEF Read
  <1>10. CASE Crash(c)
    BY <1>6, <1>10 DEF Crash
  <1>11. CASE Tick \/ UNCHANGED vars
    BY <1>1, <1>11 DEF Tick, vars
  <1>12. ASSUME NEW d \in Clients, Write(d) \/ Read(d) \/ Crash(d) PROVE Clean[op'[c].name] \in Stored'
    BY <1>8, <1>9, <1>10, <1>12
  <1> QED BY <1>11, <1>12 DEF Next

\* With one store on the file, its embeddings enabled, every vector that was stored
\* under a stripped name has its entry at every moment, crashes and racing expiries
\* included.
THEOREM OneStoreKeepsKey ==
    ASSUME Embedders = Clients, \A c, d \in Clients : c = d
    PROVE  Spec => []NoOrphans
  <1>1. Init => NoOrphans /\ EntryWaits
    BY DEF Init, NoOrphans, Orphans, EntryWaits, Idle
  <1>2. IInv /\ NoOrphans /\ EntryWaits /\ [Next]_vars => NoOrphans' /\ EntryWaits'
    <2> SUFFICES ASSUME IInv, NoOrphans, EntryWaits, [Next]_vars
                 PROVE  NoOrphans'
      BY EntryWaitsStep
    <2>1. CASE Tick \/ UNCHANGED vars
      BY <2>1 DEF Tick, vars, NoOrphans, Orphans
    <2>2. ASSUME NEW c \in Clients, Write(c) \/ Read(c) \/ Crash(c), op[c].kind # "embed"
          PROVE  NoOrphans'
      BY <2>2, EmbedderStep DEF NoOrphans
    <2>3. ASSUME NEW c \in Clients, SetEmbedding(c) PROVE NoOrphans'
      <3>1. op[c].name \in Keys => entries[op[c].name] # None
        BY <2>3, KVAssumption DEF SetEmbedding, EntryWaits, Stored
      <3> QED BY <2>3, <3>1 DEF SetEmbedding, NoOrphans, Orphans, IInv, TypeOK
    <2>4. ASSUME NEW c \in Clients, Write(c) \/ Read(c) \/ Crash(c), op[c].kind = "embed",
                 ~SetEmbedding(c)
          PROVE  NoOrphans'
      <3>1. op[c] # Idle
        BY <2>4 DEF Idle
      <3> QED BY <2>4, <3>1 DEF Write, Read, Crash, SetBegin, SetCommit, EmbeddingFails, Delete,
              ClearAll, ClearBegin, ClearCommit, GetBegin, SearchBegin, ListBegin, GetRow, CheckRow,
              Evict, NoOrphans, Orphans
    <2> QED BY <2>1, <2>2, <2>3, <2>4 DEF Next
  <1> QED BY Invariance, <1>1, <1>2, PTL DEF Spec

----------------------------------------------------------------------------
(* One store on the file.                                                  *)

\* With nobody else writing, the rows a read holds are the rows stored, and the
\* keys it is about to delete are of rows that have expired.
Held ==
    \A c \in Clients : op[c].kind = "read" =>
        /\ \A row \in op[c].rows : row.key \in Stored /\ row = RowOf(row.key)
        /\ \A k \in op[c].evict : k \in Stored /\ Expired(entries[k], clock)

\* The fields of a read that goes on, or that has ended.
LEMMA ReadingFields ==
    ASSUME NEW todo, NEW rows, NEW evict, Reading(todo, rows, evict).kind = "read"
    PROVE  /\ Reading(todo, rows, evict).rows = rows
           /\ Reading(todo, rows, evict).evict = evict
  BY DEF Reading, Idle

\* An expiry that has passed has passed for good.
LEMMA ExpiredStays ==
    ASSUME TypeOK, [Next]_vars, NEW k \in Stored, Expired(entries[k], clock), entries' = entries
    PROVE  Expired(entries[k], clock')
  <1>1. entries[k].expires \in Int /\ clock \in Nat
    BY KVAssumption DEF TypeOK, Stored, Entry, Times, Expired
  <1>2. clock' = clock \/ clock' = clock + 1
    BY DEF Next, vars, Tick, Write, Read, Crash, SetBegin, SetCommit, SetEmbedding, EmbeddingFails,
           Delete, ClearAll, ClearBegin, ClearCommit, GetBegin, SearchBegin, ListBegin, GetRow,
           CheckRow, Evict
  <1> QED BY <1>1, <1>2 DEF Expired

\* What a read of the one store holds agrees with the table after any step of it.
LEMMA HeldStep ==
    ASSUME IInv, Held, [Next]_vars, \A c, d \in Clients : c = d
    PROVE  Held'
  <1>t. TypeOK /\ op \in [Clients -> Op]
    BY DEF IInv, TypeOK
  <1> SUFFICES ASSUME NEW c \in Clients, op'[c].kind = "read"
               PROVE  /\ \A row \in op'[c].rows : row.key \in Stored' /\ row = RowOf(row.key)'
                      /\ \A k \in op'[c].evict : k \in Stored' /\ Expired(entries'[k], clock')
    BY DEF Held
  <1>1. ASSUME NEW next, Goes(c, next), next.kind # "read" PROVE FALSE
    BY <1>1, <1>t DEF Goes
  <1>2. ASSUME Goes(c, Idle) PROVE FALSE
    BY <1>1, <1>2 DEF Idle
  <1>3. ASSUME NEW todo, NEW rows, NEW evict, Goes(c, Reading(todo, rows, evict)), entries' = entries,
               \A row \in rows : row.key \in Stored /\ row = RowOf(row.key),
               \A k \in evict : k \in Stored /\ Expired(entries[k], clock)
        PROVE  /\ \A row \in op'[c].rows : row.key \in Stored' /\ row = RowOf(row.key)'
               /\ \A k \in op'[c].evict : k \in Stored' /\ Expired(entries'[k], clock')
    <2>1. op'[c] = Reading(todo, rows, evict)
      BY <1>3, <1>t DEF Goes
    <2>2. op'[c].rows = rows /\ op'[c].evict = evict
      BY <2>1, ReadingFields
    <2>3. Stored' = Stored /\ \A k : RowOf(k)' = RowOf(k)
      BY <1>3 DEF Stored, RowOf
    <2>4. \A k \in evict : Expired(entries'[k], clock')
      BY <1>3, <1>t, ExpiredStays
    <2> QED BY <1>3, <2>2, <2>3, <2>4
  <1>4. CASE op' = op /\ entries' = entries
    <2>1. Stored' = Stored /\ \A k : RowOf(k)' = RowOf(k)
      BY <1>4 DEF Stored, RowOf
    <2> QED BY <1>4, <1>t, <2>1, ExpiredStays DEF Held
  <1>5. ASSUME op[c] = Idle, op' = op PROVE FALSE
    BY <1>5 DEF Idle
  <1>6. ASSUME Write(c) PROVE FALSE
    <2>1. ASSUME NEW n \in Names, NEW ttl \in TTLs, SetBegin(c, n, ttl) PROVE FALSE
      BY <1>1, <2>1 DEF SetBegin, Setting
    <2>2. ASSUME SetCommit(c) PROVE FALSE
      <3> DEFINE next == IF c \in Embedders THEN Embedding(op[c].name, op[c].value) ELSE Idle
      <3>1. Goes(c, next) /\ next.kind # "read"
        BY <2>2 DEF SetCommit, Embedding, Idle
      <3> QED BY <1>1, <3>1
    <2>3. ASSUME NEW scope \in Scopes, ClearBegin(c, scope) PROVE FALSE
      BY <1>1, <2>3 DEF ClearBegin, Clearing
    <2> QED BY <1>2, <1>5, <1>6, <2>1, <2>2, <2>3
            DEF Write, SetEmbedding, EmbeddingFails, Delete, ClearAll, ClearCommit
  <1>7. ASSUME NEW k \in Keys, GetBegin(c, k)
        PROVE  /\ \A row \in op'[c].rows : row.key \in Stored' /\ row = RowOf(row.key)'
               /\ \A i \in op'[c].evict : i \in Stored' /\ Expired(entries'[i], clock')
    BY <1>3, <1>7 DEF GetBegin
  <1>8. ASSUME NEW best \in SUBSET Names, SearchBegin(c, best)
        PROVE  /\ \A row \in op'[c].rows : row.key \in Stored' /\ row = RowOf(row.key)'
               /\ \A i \in op'[c].evict : i \in Stored' /\ Expired(entries'[i], clock')
    BY <1>3, <1>8 DEF SearchBegin
  <1>9. ASSUME NEW scope \in Scopes, NEW limit \in Limits, ListBegin(c, scope, limit)
        PROVE  /\ \A row \in op'[c].rows : row.key \in Stored' /\ row = RowOf(row.key)'
               /\ \A i \in op'[c].evict : i \in Stored' /\ Expired(entries'[i], clock')
    <2> DEFINE rows == {RowOf(k) : k \in FirstRows(scope, limit)}
    <2>1. ASSUME NEW row \in rows PROVE row.key \in Stored /\ row = RowOf(row.key)
      <3>1. PICK k \in Stored : row = RowOf(k)
        BY DEF FirstRows
      <3>2. row.key = k
        BY <3>1 DEF RowOf
      <3> QED BY <3>1, <3>2
    <2>2. Goes(c, Reading({}, rows, {})) /\ entries' = entries
      BY <1>9 DEF ListBegin
    <2> HIDE DEF rows
    <2> QED BY <1>3, <2>1, <2>2
  <1>10. ASSUME NEW n \in Names, GetRow(c, n)
         PROVE  /\ \A row \in op'[c].rows : row.key \in Stored' /\ row = RowOf(row.key)'
                /\ \A i \in op'[c].evict : i \in Stored' /\ Expired(entries'[i], clock')
    <2>1. entries' = entries
      BY <1>10 DEF GetRow
    <2>2. CASE Clean[n] \in Stored /\ Goes(c, Reading(op[c].todo \ {n}, {RowOf(Clean[n])}, {}))
      <3>1. RowOf(Clean[n]).key = Clean[n]
        BY DEF RowOf
      <3> QED BY <1>3, <2>1, <2>2, <3>1
    <2>3. CASE Goes(c, Reading(op[c].todo \ {n}, {}, {}))
      BY <1>3, <2>1, <2>3
    <2> QED BY <1>10, <2>2, <2>3 DEF GetRow
  <1>11. ASSUME NEW row \in op[c].rows, CheckRow(c, row)
         PROVE  /\ \A r \in op'[c].rows : r.key \in Stored' /\ r = RowOf(r.key)'
                /\ \A i \in op'[c].evict : i \in Stored' /\ Expired(entries'[i], clock')
    <2> DEFINE o == op[c]
               evict == IF Expired(row, clock) THEN o.evict \cup {row.key} ELSE o.evict
    <2>1. o.kind = "read" /\ Goes(c, Reading(o.todo, o.rows \ {row}, evict)) /\ entries' = entries
      BY <1>11 DEF CheckRow
    <2>2. /\ \A r \in o.rows : r.key \in Stored /\ r = RowOf(r.key)
          /\ \A i \in o.evict : i \in Stored /\ Expired(entries[i], clock)
      BY <2>1 DEF Held
    <2>3. Expired(row, clock) => Expired(entries[row.key], clock)
      BY <2>2 DEF RowOf, Expired
    <2>4. \A i \in evict : i \in Stored /\ Expired(entries[i], clock)
      BY <2>2, <2>3
    <2> HIDE DEF evict
    <2> QED BY <1>3, <2>1, <2>2, <2>4
  <1>12. ASSUME NEW k \in Keys, Evict(c, k)
         PROVE  /\ \A row \in op'[c].rows : row.key \in Stored' /\ row = RowOf(row.key)'
                /\ \A i \in op'[c].evict : i \in Stored' /\ Expired(entries'[i], clock')
    <2>1. /\ op[c].kind = "read" /\ entries' = Without(entries, {k}) /\ clock' = clock
          /\ op'[c] = Reading(op[c].todo, {}, op[c].evict \ {k})
      BY <1>12, <1>t DEF Evict, Remove, Goes
    <2>2. op'[c].rows = {} /\ op'[c].evict = op[c].evict \ {k}
      <3>1. PICK todo, evict : todo = op[c].todo /\ evict = op[c].evict \ {k}
        OBVIOUS
      <3>2. op'[c] = Reading(todo, {}, evict) /\ Reading(todo, {}, evict).kind = "read"
        BY <2>1, <3>1
      <3>3. Reading(todo, {}, evict).rows = {} /\ Reading(todo, {}, evict).evict = evict
        BY <3>2, ReadingFields
      <3> QED BY <3>1, <3>2, <3>3
    <2>3. ASSUME NEW i \in Keys, i # k PROVE entries'[i] = entries[i]
      BY <1>t, <2>1, <2>3 DEF Without, IInv, TypeOK
    <2>4. \A i \in op[c].evict : i \in Stored /\ Expired(entries[i], clock)
      BY <2>1 DEF Held
    <2> QED BY <2>1, <2>2, <2>3, <2>4 DEF Stored
  <1>13. ASSUME NEW d \in Clients, Write(d) \/ Read(d) \/ Crash(d)
         PROVE  /\ \A row \in op'[c].rows : row.key \in Stored' /\ row = RowOf(row.key)'
                /\ \A i \in op'[c].evict : i \in Stored' /\ Expired(entries'[i], clock')
    BY <1>2, <1>6, <1>7, <1>8, <1>9, <1>10, <1>11, <1>12, <1>13 DEF Read, Crash
  <1>14. CASE Tick \/ UNCHANGED vars
    BY <1>4, <1>14 DEF Tick, vars
  <1> QED BY <1>13, <1>14 DEF Next

\* With one store on the file, Held goes with the invariant.
LEMMA OneStoreHolds ==
    ASSUME \A c, d \in Clients : c = d
    PROVE  Spec => [](IInv /\ Held)
  <1>1. Init => Held
    BY DEF Init, Held, Idle
  <1>2. IInv /\ Held /\ [Next]_vars => Held'
    BY HeldStep
  <1> QED BY InitInv, NextInv, <1>1, <1>2, PTL DEF Spec

\* A row that has expired is not in the map.
LEMMA ExpiredIsNotLive ==
    ASSUME TypeOK, NEW k \in Stored
    PROVE  Live(k) <=> ~Expired(entries[k], clock)
  <1>0. entries[k] \in Entry /\ entries[k] # None /\ clock \in Nat
    BY KVAssumption DEF TypeOK, Stored
  <1>1. entries[k] # None /\ entries[k].expires \in Times /\ clock \in Nat
    BY <1>0 DEF Entry
  <1>2. CASE entries[k].expires = Never
    BY <1>1, <1>2 DEF Live, Expired
  <1>3. CASE entries[k].expires \in Int
    BY <1>1, <1>3 DEF Live, Expired
  <1> QED BY <1>1, <1>2, <1>3 DEF Times

\* The eviction of an expired row takes nothing alive with it when one store is
\* alone on the file: the row is the one it read, whatever time has passed.
THEOREM OneStoreEvicts ==
    ASSUME \A c, d \in Clients : c = d
    PROVE  Spec => EvictsOnlyExpired
  <1>1. IInv /\ Held /\ [Next]_vars =>
            [\A c \in Clients, k \in Keys : Evict(c, k) => LiveValues' = LiveValues]_vars
    <2> SUFFICES ASSUME IInv, Held, NEW c \in Clients, NEW k \in Keys, Evict(c, k)
                 PROVE  LiveValues' = LiveValues
      OBVIOUS
    <2>1. TypeOK /\ k \in Stored /\ Expired(entries[k], clock)
      BY DEF IInv, Held, Evict
    <2>2. ~Live(k)
      BY <2>1, ExpiredIsNotLive
    <2>3. entries' = Without(entries, {k}) /\ clock' = clock
      BY DEF Evict, Remove
    <2>4. ASSUME NEW i \in Keys
          PROVE  entries'[i] = IF i = k THEN None ELSE entries[i]
      BY <2>1, <2>3 DEF Without, TypeOK
    <2>5. ASSUME NEW i \in Keys
          PROVE  LiveValues'[i] = LiveValues[i]
      BY <2>2, <2>3, <2>4 DEF LiveValues, Live
    <2> QED BY <2>5 DEF LiveValues
  <1>2. Spec => [](IInv /\ Held)
    BY OneStoreHolds
  <1> QED BY <1>1, <1>2, PTL DEF Spec, EvictsOnlyExpired

\* While the table and the clock stay, so does the map.
LEMMA LiveStays ==
    ASSUME entries' = entries, clock' = clock
    PROVE  LiveValues' = LiveValues
  BY DEF LiveValues, Live

\* A DELETE makes the keys it names lapse.
LEMMA RemovalLapses ==
    ASSUME TypeOK, NEW S, entries' = Without(entries, S), clock' = clock, answer' = answer
    PROVE  Map!Next
  <1> DEFINE T == S \cap Keys
  <1>1. ASSUME NEW k \in Keys
        PROVE  LiveValues'[k] = IF k \in T THEN None ELSE LiveValues[k]
    BY DEF LiveValues, Live, Without, TypeOK
  <1>2. LiveValues' = [k \in Keys |-> IF k \in T THEN None ELSE LiveValues[k]]
    BY <1>1 DEF LiveValues
  <1>3. T \in SUBSET Keys /\ Map!Lapse(T)
    BY <1>2 DEF Map!Lapse
  <1> QED BY <1>3 DEF Map!Next

\* A tick lets the values lapse whose time has come.
LEMMA TickLapses ==
    ASSUME TypeOK, Tick
    PROVE  Map!Next
  <1> DEFINE S == {k \in Keys : ~(Live(k)')}
  <1>1. ASSUME NEW k \in Keys, Live(k)' PROVE Live(k)
    <2>1. entries' = entries /\ clock' = clock + 1 /\ clock \in Nat
      BY KVAssumption DEF Tick, TypeOK
    <2>2. CASE entries[k].expires = Never
      BY <1>1, <2>1, <2>2 DEF Live
    <2>3. CASE entries[k].expires # Never
      <3>1. entries[k] \in Entry
        BY <1>1, <2>1 DEF Live, TypeOK
      <3>2. entries[k].expires \in Int
        BY <2>3, <3>1 DEF Entry, Times
      <3>3. entries[k].expires > clock + 1
        BY <1>1, <2>1, <2>3 DEF Live
      <3>4. entries[k].expires > clock
        BY <2>1, <3>2, <3>3
      <3> QED BY <1>1, <2>1, <3>4 DEF Live
    <2> QED BY <2>2, <2>3
  <1>2. ASSUME NEW k \in Keys
        PROVE  LiveValues'[k] = IF k \in S THEN None ELSE LiveValues[k]
    BY <1>1 DEF LiveValues, Tick
  <1>3. LiveValues' = [k \in Keys |-> IF k \in S THEN None ELSE LiveValues[k]]
    BY <1>2 DEF LiveValues
  <1>4. S \in SUBSET Keys /\ Map!Lapse(S)
    BY <1>3 DEF Map!Lapse, Tick
  <1> QED BY <1>4 DEF Map!Next

\* The upsert of set puts its value, or nothing if its time has come already.
LEMMA CommitPuts ==
    ASSUME TypeOK, NEW c \in Clients, SetCommit(c)
    PROVE  Map!Next
  <1>1. PICK o \in Op : o = op[c] /\ o.kind = "set"
    BY DEF TypeOK, SetCommit
  <1>2. PICK k \in Keys : k = Clean[o.name]
    BY <1>1, OpFields, KVAssumption
  <1>0. o.value \in Values /\ o.expires \in Times
    BY <1>1, OpFields
  <1>3. PICK row \in Entry : row = [value |-> o.value, expires |-> o.expires]
    BY <1>0 DEF Entry
  <1>4. /\ entries' = [entries EXCEPT ![k] = row] /\ entries \in [Keys -> Entry \cup {None}]
        /\ clock' = clock /\ answer' = answer
    BY <1>1, <1>2, <1>3 DEF SetCommit, TypeOK
  <1>5. ASSUME NEW i \in Keys, i # k PROVE LiveValues'[i] = LiveValues[i]
    BY <1>4, <1>5 DEF LiveValues, Live
  <1>6. /\ LiveValues \in [Keys -> Values \cup {None}]
        /\ LiveValues' = [i \in Keys |-> LiveValues'[i]]
    BY <1>4 DEF LiveValues, Live, Entry
  <1>7. CASE Live(k)'
    <2>1. LiveValues'[k] = o.value
      BY <1>0, <1>2, <1>3, <1>4, <1>7 DEF LiveValues
    <2>2. LiveValues' = [LiveValues EXCEPT ![k] = o.value]
      BY <1>5, <1>6, <2>1
    <2> QED BY <1>0, <1>2, <1>4, <2>2 DEF Map!Next, Map!Put
  <1>8. CASE ~(Live(k)')
    <2>1. LiveValues'[k] = None
      BY <1>2, <1>8 DEF LiveValues
    <2>2. LiveValues' = [i \in Keys |-> IF i \in {k} THEN None ELSE LiveValues[i]]
      BY <1>5, <1>6, <2>1
    <2>3. Map!Lapse({k}) /\ {k} \in SUBSET Keys
      BY <1>2, <1>4, <2>2 DEF Map!Lapse
    <2> QED BY <2>3 DEF Map!Next
  <1> QED BY <1>7, <1>8

\* Every step of the one store is a step of the map, or one that its user cannot see.
LEMMA StepIsOfMap ==
    ASSUME IInv, Held, [Next]_vars
    PROVE  [Map!Next]_(Map!vars)
  <1>t. TypeOK
    BY DEF IInv
  <1>1. CASE entries' = entries /\ clock' = clock /\ answer' = answer
    BY <1>1, LiveStays DEF Map!vars
  <1>2. ASSUME NEW c, NEW S, Remove(c, S), clock' = clock, answer' = answer PROVE Map!Next
    BY <1>t, <1>2, RemovalLapses DEF Remove
  <1>3. ASSUME NEW k \in Keys, answer' = [key |-> k, value |-> LiveValues[k]],
               entries' = entries, clock' = clock
        PROVE  Map!Next
    BY <1>3, LiveStays DEF Map!Next, Map!Read
  <1>4. ASSUME NEW c \in Clients, ClearCommit(c) PROVE Map!Next
    BY <1>t, <1>4, RemovalLapses DEF ClearCommit
  <1>5. ASSUME NEW c \in Clients, NEW n \in Names, GetRow(c, n) PROVE [Map!Next]_(Map!vars)
    <2>1. PICK k \in Keys : k = Clean[n]
      BY KVAssumption
    <2>2. CASE answer' = answer
      BY <1>1, <1>5, <2>2 DEF GetRow
    <2>3. CASE k \notin Stored /\ answer' = [key |-> k, value |-> None]
      <3>1. LiveValues[k] = None
        BY <2>3 DEF LiveValues, Live, Stored
      <3> QED BY <1>3, <1>5, <2>3, <3>1 DEF GetRow
    <2> QED BY <1>5, <2>1, <2>2, <2>3 DEF GetRow
  <1>6. ASSUME NEW c \in Clients, NEW row \in op[c].rows, CheckRow(c, row) PROVE Map!Next
    <2>1. row.key \in Stored /\ row = RowOf(row.key) /\ row.key \in Keys
      BY <1>6 DEF CheckRow, Held, Stored
    <2>2. PICK k \in Keys : k = row.key
      BY <2>1
    <2>3. row.value = entries[k].value /\ row.expires = entries[k].expires
      BY <2>1, <2>2 DEF RowOf
    <2>4. Expired(row, clock) <=> Expired(entries[k], clock)
      BY <2>3 DEF Expired
    <2>5. LiveValues[k] = IF Expired(row, clock) THEN None ELSE row.value
      BY <1>t, <2>1, <2>2, <2>3, <2>4, ExpiredIsNotLive DEF LiveValues
    <2>6. answer' = [key |-> k, value |-> LiveValues[k]] /\ entries' = entries /\ clock' = clock
      BY <1>6, <2>2, <2>5 DEF CheckRow
    <2> QED BY <1>3, <2>6
  <1>7. ASSUME NEW c \in Clients, Write(c) PROVE [Map!Next]_(Map!vars)
    BY <1>t, <1>1, <1>2, <1>4, <1>7, CommitPuts
       DEF Write, SetBegin, SetEmbedding, EmbeddingFails, Delete, ClearAll, ClearBegin
  <1>8. ASSUME NEW c \in Clients, Read(c) PROVE [Map!Next]_(Map!vars)
    BY <1>1, <1>2, <1>5, <1>6, <1>8 DEF Read, GetBegin, Evict, SearchBegin, ListBegin
  <1>9. ASSUME NEW c \in Clients, Crash(c) PROVE [Map!Next]_(Map!vars)
    BY <1>1, <1>9 DEF Crash
  <1>10. CASE UNCHANGED vars
    BY <1>1, <1>10 DEF vars
  <1> QED BY <1>t, <1>7, <1>8, <1>9, <1>10, TickLapses DEF Next

\* One store is a map whose values lapse: its lazy deletion, the clock it reads
\* before its transactions, and a process that ends are not seen by who reads it.
THEOREM OneStoreIsAMap ==
    ASSUME \A c, d \in Clients : c = d
    PROVE  Spec => AnswersFromMap
  <1>1. Init => Map!Init
    BY DEF Init, Map!Init, LiveValues, Live
  <1>2. IInv /\ Held /\ [Next]_vars => [Map!Next]_(Map!vars)
    BY StepIsOfMap
  <1> QED BY OneStoreHolds, <1>1, <1>2, PTL DEF Spec, AnswersFromMap, Map!Spec
=============================================================================
