------------------------------ MODULE KVCache ------------------------------
(***************************************************************************)
(* SQLiteKVCacheStore: key-value entries with an optional time to live and *)
(* the embedding of each entry, in one SQLite file.  The CLI, the REPL and *)
(* the kv_* tools open stores of their own on the same file, also from     *)
(* several processes, and only the tools' store may have embeddings        *)
(* enabled.  A transaction is atomic; what a method does between two       *)
(* transactions, or between reading the clock and a transaction, is not.   *)
(*                                                                         *)
(* A namespaced key as it is written is a member of Names; set, get, list, *)
(* delete and clear strip it to one of Keys, numbered in the order list    *)
(* sorts them.  Vectors are stored under the name as it is written.        *)
(* Each value ever set is a number of its own.                             *)
(***************************************************************************)
EXTENDS Integers, FiniteSets

CONSTANTS
    Clients,    \* the stores opened on the file
    Embedders,  \* those with embedding_enabled
    Names,      \* (namespace, key) pairs as they are written
    Keys,       \* those without blanks around them, numbered in the order of the index
    Clean,      \* [Names -> Keys]: _clean_namespace and _clean_key
    Scopes,     \* the sets of names a namespace and a prefix select
    Limits,     \* limit arguments of list
    TTLs,       \* ttl_seconds arguments of set, Never among them
    Never,      \* no ttl: expires_at is NULL
    None,       \* no row
    MaxTime,    \* bound: ticks of the clock
    MaxWrites   \* bound: values set

Values == 1 .. MaxWrites
Times  == Int \cup {Never}

\* A row of kv_entries (its key apart), and a row as a reader holds it.
Entry == [value : Values, expires : Times]
Row   == [key : Keys, value : Values, expires : Times]

ASSUME KVAssumption ==
    /\ Embedders \subseteq Clients
    /\ Keys \subseteq Nat /\ Keys \subseteq Names
    /\ Clean \in [Names -> Keys] /\ \A k \in Keys : Clean[k] = k
    /\ Scopes \subseteq SUBSET Names
    /\ TTLs \subseteq (Nat \ {0}) \cup {Never}
    /\ Never \notin Int
    /\ None \notin Int /\ None \notin Entry
    /\ MaxTime \in Nat /\ MaxWrites \in Nat

VARIABLES
    entries,     \* kv_entries
    embeddings,  \* kv_embeddings: the value each vector was computed from
    clock,
    writes,      \* values set so far
    op,          \* the method each client is in, with its local variables
    answer       \* the last key a reader answered for, and its answer

vars == <<entries, embeddings, clock, writes, op, answer>>

Idle == [kind |-> "idle"]

Setting(n, v, e) == [kind |-> "set", name |-> n, value |-> v, expires |-> e]
Embedding(n, v)  == [kind |-> "embed", name |-> n, value |-> v]
Clearing(s, now) == [kind |-> "clear", scope |-> s, now |-> now]

\* get, list and the gets of a search: names still to get, rows still to check,
\* and the expired ones still to delete.
Reading(todo, rows, evict) ==
    IF todo = {} /\ rows = {} /\ evict = {}
    THEN Idle
    ELSE [kind |-> "read", todo |-> todo, rows |-> rows, evict |-> evict]

\* Mutation: an entry expires a tick early.
Expired_Early(row, now) == row.expires # Never /\ row.expires <= now + 1

\* _is_expired, and the condition of clear
Expired(row, now) == row.expires # Never /\ row.expires <= now

Stored == {k \in Keys : entries[k] # None}
RowOf(k) == [key |-> k, value |-> entries[k].value, expires |-> entries[k].expires]

Without(table, S) == [k \in DOMAIN table |-> IF k \in S THEN None ELSE table[k]]

Goes(c, next) == op' = [op EXCEPT ![c] = next]

----------------------------------------------------------------------------
Init ==
    /\ entries = [k \in Keys |-> None]
    /\ embeddings = [n \in Names |-> None]
    /\ clock = 0
    /\ writes = 0
    /\ op = [c \in Clients |-> Idle]
    /\ answer = None

Tick ==
    /\ clock < MaxTime
    /\ clock' = clock + 1
    /\ UNCHANGED <<entries, embeddings, writes, op, answer>>

\* set, up to its transaction: the expiry is computed from the clock now.
SetBegin(c, n, ttl) ==
    /\ op[c] = Idle
    /\ writes < MaxWrites
    /\ writes' = writes + 1
    /\ Goes(c, Setting(n, writes + 1, IF ttl = Never THEN Never ELSE clock + ttl))
    /\ UNCHANGED <<entries, embeddings, clock, answer>>

\* The upsert of set, at the stripped key.  It leaves the embedding alone; kv_set
\* goes on to compute one when its store has embeddings enabled.
SetCommit(c) ==
    /\ op[c].kind = "set"
    /\ LET o == op[c]
       IN  /\ entries' = [entries EXCEPT ![Clean[o.name]] = [value |-> o.value, expires |-> o.expires]]
           /\ Goes(c, IF c \in Embedders THEN Embedding(o.name, o.value) ELSE Idle)
    /\ UNCHANGED <<embeddings, clock, writes, answer>>

\* kv_set: the vector has come and set_embedding stores it, under the namespace
\* and key kv_set was given, which nothing strips here.
SetEmbedding(c) ==
    /\ op[c].kind = "embed"
    /\ embeddings' = [embeddings EXCEPT ![op[c].name] = op[c].value]
    /\ Goes(c, Idle)
    /\ UNCHANGED <<entries, clock, writes, answer>>

\* kv_set: no vector came or it could not be stored; kv_set reports it and ends.
EmbeddingFails(c) ==
    /\ op[c].kind = "embed"
    /\ Goes(c, Idle)
    /\ UNCHANGED <<entries, embeddings, clock, writes, answer>>

\* Mutation: the transaction of delete removes the entry only.
Remove_EntryOnly(c, S) ==
    /\ entries' = Without(entries, S)
    /\ UNCHANGED embeddings

\* One transaction that deletes the rows of S from both tables, each where its own
\* name is in S; the embeddings only from a store that has them enabled.  (The
\* cascade the schema declares needs PRAGMA foreign_keys, which these connections
\* do not set.)
Remove(c, S) ==
    /\ entries' = Without(entries, S)
    /\ embeddings' = IF c \in Embedders THEN Without(embeddings, S) ELSE embeddings

Delete(c, k) ==
    /\ op[c] = Idle
    /\ Remove(c, {k})
    /\ UNCHANGED <<clock, writes, op, answer>>

\* clear of a scope, expired or not.
ClearAll(c, scope) ==
    /\ op[c] = Idle
    /\ Remove(c, scope)
    /\ UNCHANGED <<clock, writes, op, answer>>

\* clear with expired_only, up to its transaction: what has expired by now.
ClearBegin(c, scope) ==
    /\ op[c] = Idle
    /\ Goes(c, Clearing(scope, clock))
    /\ UNCHANGED <<entries, embeddings, clock, writes, answer>>

ExpiredIn(scope, now) == {k \in scope \cap Stored : Expired(entries[k], now)}

\* Mutation: the embeddings go by the older of the two times.
ClearCommit_OlderEmbeddings(c) ==
    /\ op[c].kind = "clear"
    /\ \E later \in op[c].now .. clock :
           /\ embeddings' = IF c \in Embedders
                            THEN Without(embeddings, ExpiredIn(op[c].scope, op[c].now))
                            ELSE embeddings
           /\ entries' = Without(entries, ExpiredIn(op[c].scope, later))
    /\ Goes(c, Idle)
    /\ UNCHANGED <<clock, writes, answer>>

\* The transaction of clear with expired_only.  Which embeddings go is decided
\* with a time read later than the one that decides which entries do.
ClearCommit(c) ==
    /\ op[c].kind = "clear"
    /\ \E later \in op[c].now .. clock :
           /\ embeddings' = IF c \in Embedders
                            THEN Without(embeddings, ExpiredIn(op[c].scope, later))
                            ELSE embeddings
           /\ entries' = Without(entries, ExpiredIn(op[c].scope, op[c].now))
    /\ Goes(c, Idle)
    /\ UNCHANGED <<clock, writes, answer>>

----------------------------------------------------------------------------
(* Reads                                                                   *)

GetBegin(c, k) ==
    /\ op[c] = Idle
    /\ Goes(c, Reading({k}, {}, {}))
    /\ UNCHANGED <<entries, embeddings, clock, writes, answer>>

\* search_by_embedding: some of the names that have a vector, by their namespace
\* as it is written and their scores, are looked up with get.
SearchBegin(c, best) ==
    /\ op[c] = Idle
    /\ best # {} /\ \A n \in best : embeddings[n] # None
    /\ Goes(c, Reading(best, {}, {}))
    /\ UNCHANGED <<entries, embeddings, clock, writes, answer>>

FirstRows(scope, limit) ==
    {k \in scope \cap Stored :
        Cardinality({i \in scope \cap Stored : i < k}) < limit}

\* list: one query, whose LIMIT counts the expired rows too.
ListBegin(c, scope, limit) ==
    /\ op[c] = Idle
    /\ Goes(c, Reading({}, {RowOf(k) : k \in FirstRows(scope, limit)}, {}))
    /\ UNCHANGED <<entries, embeddings, clock, writes, answer>>

\* get reads the row of the stripped key, if there is one.
GetRow(c, n) ==
    /\ op[c].kind = "read"
    /\ op[c].rows = {} /\ op[c].evict = {}
    /\ n \in op[c].todo
    /\ LET k    == Clean[n]
           left == op[c].todo \ {n}
       IN  \/ k \in Stored /\ Goes(c, Reading(left, {RowOf(k)}, {})) /\ UNCHANGED answer
           \/ k \notin Stored /\ Goes(c, Reading(left, {}, {})) /\ answer' = [key |-> k, value |-> None]
    /\ UNCHANGED <<entries, embeddings, clock, writes>>

\* Mutation: an expired row is answered as a hit before it is deleted.
CheckRow_HitsExpired(c, row) ==
    /\ op[c].kind = "read"
    /\ row \in op[c].rows
    /\ LET o == op[c]
       IN  Goes(c, Reading(o.todo, o.rows \ {row},
                           IF Expired(row, clock) THEN o.evict \cup {row.key} ELSE o.evict))
    /\ answer' = [key |-> row.key, value |-> row.value]
    /\ UNCHANGED <<entries, embeddings, clock, writes>>

\* A row that was read is answered, or found to have expired meanwhile.
CheckRow(c, row) ==
    /\ op[c].kind = "read"
    /\ row \in op[c].rows
    /\ LET o == op[c]
       IN  Goes(c, Reading(o.todo, o.rows \ {row},
                           IF Expired(row, clock) THEN o.evict \cup {row.key} ELSE o.evict))
    /\ answer' = [key |-> row.key, value |-> IF Expired(row, clock) THEN None ELSE row.value]
    /\ UNCHANGED <<entries, embeddings, clock, writes>>

\* The delete of an expired key, in a transaction of its own.
Evict(c, k) ==
    /\ op[c].kind = "read"
    /\ op[c].rows = {} /\ k \in op[c].evict
    /\ Remove(c, {k})
    /\ Goes(c, Reading(op[c].todo, {}, op[c].evict \ {k}))
    /\ UNCHANGED <<clock, writes, answer>>

\* The process of a client ends, whatever it was doing.
Crash(c) ==
    /\ op[c] # Idle
    /\ Goes(c, Idle)
    /\ UNCHANGED <<entries, embeddings, clock, writes, answer>>

Write(c) ==
    \/ \E n \in Names, ttl \in TTLs : SetBegin(c, n, ttl)
    \/ SetCommit(c) \/ SetEmbedding(c) \/ EmbeddingFails(c)
    \/ \E k \in Keys : Delete(c, k)
    \/ \E scope \in Scopes : ClearAll(c, scope) \/ ClearBegin(c, scope)
    \/ ClearCommit(c)

Read(c) ==
    \/ \E k \in Keys : GetBegin(c, k) \/ Evict(c, k)
    \/ \E n \in Names : GetRow(c, n)
    \/ \E best \in SUBSET Names : SearchBegin(c, best)
    \/ \E scope \in Scopes, limit \in Limits : ListBegin(c, scope, limit)
    \/ op[c].kind = "read" /\ \E row \in op[c].rows : CheckRow(c, row)

Next == Tick \/ \E c \in Clients : Write(c) \/ Read(c) \/ Crash(c)

Spec == Init /\ [][Next]_vars

----------------------------------------------------------------------------
(* Properties                                                              *)

Op == {Idle}
      \cup [kind : {"set"}, name : Names, value : Values, expires : Times]
      \cup [kind : {"embed"}, name : Names, value : Values]
      \cup [kind : {"clear"}, scope : SUBSET Names, now : Nat]
      \cup {r \in [kind : {"read"}, todo : SUBSET Names, rows : SUBSET Row, evict : SUBSET Keys] :
                r.todo # {} \/ r.rows # {} \/ r.evict # {}}

\* The values the tables, the clock and the local variables of a method may take.
TypeOK ==
    /\ entries \in [Keys -> Entry \cup {None}]
    /\ embeddings \in [Names -> Values \cup {None}]
    /\ clock \in 0 .. MaxTime
    /\ writes \in 0 .. MaxWrites
    /\ op \in [Clients -> Op]
    /\ answer \in [key : Keys, value : Values \cup {None}] \cup {None}

\* What the map holds now: the entries whose time has not come.
Live(k) == entries[k] # None /\ (entries[k].expires = Never \/ entries[k].expires > clock)
LiveValues == [k \in Keys |-> IF Live(k) THEN entries[k].value ELSE None]

\* The names of vectors that no entry has: its entry is gone, or the name is not
\* stripped and never had one.
Orphans == {n \in Names : embeddings[n] # None /\ ~(n \in Keys /\ entries[n] # None)}

\* The transactions that delete entries.
Removes(c) ==
    \/ \E k \in Keys : Delete(c, k) \/ Evict(c, k)
    \/ \E scope \in Scopes : ClearAll(c, scope)
    \/ ClearCommit(c)

\* clear with expired_only removes nothing that is alive when its transaction
\* runs, though it read the clock before and other clients set in between.
ClearKeepsLive == [][\A c \in Clients : ClearCommit(c) => LiveValues' = LiveValues]_vars

\* Where a store with embeddings enabled deletes, evicts or clears, no vector is
\* left that had its entry before, although clear reads the clock once for each of
\* the two tables and other stores write in between.
EmbedderOrphansNothing ==
    [][\A c \in Embedders : Removes(c) => Orphans' \subseteq Orphans]_vars

\* Every vector belongs to an entry, as the foreign key of kv_embeddings declares,
\* except those kv_set was given an unstripped name for: they have none from the
\* moment they are stored.
NoOrphans == Orphans \cap Keys = {}

\* Entries are cleaned up lazily once they have expired, and only then: the
\* delete of an expired row takes no other row with it.
EvictsOnlyExpired ==
    [][\A c \in Clients, k \in Keys : Evict(c, k) => LiveValues' = LiveValues]_vars

\* For one client the table, its lazy evictions and its racing clock are a map
\* whose values lapse, and every read answers with what the map holds.
Map == INSTANCE LiveMap WITH live <- LiveValues
AnswersFromMap == Map!Spec
=============================================================================
