--------------------------- MODULE ChatStream_proofs ---------------------------
(***************************************************************************)
(* What is proved of ChatStream for every number of chunks and heartbeats, *)
(* with and without the local fallback: its type invariant, that a client  *)
(* has read the beginning of one reply, and that it takes no failure of a  *)
(* node for the end of its reply.                                          *)
(***************************************************************************)
EXTENDS ChatStream, FiniteSetTheorems, SequenceTheorems, TLAPS

----------------------------------------------------------------------------
(* Counting chunks                                                         *)

\* The chunks among the first k lines or events of s.
ChunksIn(s, k) == Cardinality({i \in 1 .. k : s[i].kind = "chunk"})

\* Chunks are counted one line at a time.
LEMMA CountIs ==
    ASSUME NEW s, NEW k \in Nat
    PROVE  /\ ChunksIn(s, k) \in 0 .. k
           /\ ChunksIn(s, 0) = 0
           /\ ChunksIn(s, k + 1) = ChunksIn(s, k) + IF s[k + 1].kind = "chunk" THEN 1 ELSE 0
           /\ \A j \in 0 .. k : ChunksIn(s, j) <= ChunksIn(s, k)
<1> DEFINE Those(j) == {i \in 1 .. j : s[i].kind = "chunk"}
<1>1. ASSUME NEW j \in Nat
      PROVE  IsFiniteSet(Those(j)) /\ Cardinality(Those(j)) \in 0 .. j
  <2>1. IsFiniteSet(1 .. j) /\ Cardinality(1 .. j) = j
    BY FS_Interval
  <2> QED
    BY <2>1, FS_Subset, FS_CardinalityType
<1>2. ChunksIn(s, 0) = 0
  BY FS_EmptySet DEF ChunksIn
<1>3. ChunksIn(s, k + 1) = ChunksIn(s, k) + IF s[k + 1].kind = "chunk" THEN 1 ELSE 0
  <2>1. CASE s[k + 1].kind = "chunk"
    <3>1. Those(k + 1) = Those(k) \cup {k + 1} /\ k + 1 \notin Those(k)
      BY <2>1
    <3>2. Cardinality(Those(k + 1)) = Cardinality(Those(k)) + 1
      BY <1>1, <3>1, FS_AddElement
    <3> QED
      BY <2>1, <3>2 DEF ChunksIn
  <2>2. CASE s[k + 1].kind # "chunk"
    <3>1. Those(k + 1) = Those(k)
      BY <2>2
    <3>2. Cardinality(Those(k)) \in Nat
      BY <1>1
    <3>3. ChunksIn(s, k + 1) = Cardinality(Those(k)) /\ ChunksIn(s, k) = Cardinality(Those(k))
      BY <3>1 DEF ChunksIn
    <3> QED
      BY <2>2, <3>2, <3>3
  <2> QED
    BY <2>1, <2>2
<1>4. ASSUME NEW j \in 0 .. k
      PROVE  ChunksIn(s, j) <= ChunksIn(s, k)
  <2>1. Those(j) \in SUBSET Those(k)
    OBVIOUS
  <2> QED
    BY <1>1, <2>1, FS_Subset DEF ChunksIn
<1> QED
  BY <1>1, <1>2, <1>3, <1>4 DEF ChunksIn

\* The count depends on the kinds of the lines alone.
LEMMA CountSame ==
    ASSUME NEW s, NEW u, NEW k, \A i \in 1 .. k : s[i].kind = u[i].kind
    PROVE  ChunksIn(s, k) = ChunksIn(u, k)
  BY DEF ChunksIn

\* Without its head a queue has the chunks it had, less the head.
LEMMA CountTail ==
    ASSUME NEW s \in Seq(Line), s # <<>>, NEW k \in Nat, k < Len(s)
    PROVE  ChunksIn(s, k + 1) =
               ChunksIn(Tail(s), k) + IF Head(s).kind = "chunk" THEN 1 ELSE 0
<1>0. PICK u : u = Tail(s)
  OBVIOUS
<1>1. Len(s) \in Nat /\ Head(s) = s[1] /\ \A i \in 1 .. k : u[i] = s[i + 1]
  BY <1>0
<1> DEFINE A == {i \in 1 .. k : u[i].kind = "chunk"}
           B == {i \in 1 .. k + 1 : s[i].kind = "chunk"}
           C == B \ {1}
           f == [i \in A |-> i + 1]
<1>2. f \in [A -> C]
  <2>1. ASSUME NEW i \in A
        PROVE  i + 1 \in C
    BY <1>1
  <2> QED
    BY <2>1
<1>3. \A x, y \in A : f[x] = f[y] => x = y
  OBVIOUS
<1>4. ASSUME NEW y \in C
      PROVE  \E x \in A : f[x] = y
  <2>1. y \in 2 .. k + 1 /\ s[y].kind = "chunk"
    OBVIOUS
  <2>2. y - 1 \in 1 .. k /\ (y - 1) + 1 = y
    BY <2>1
  <2>3. y - 1 \in A
    BY <1>1, <2>1, <2>2
  <2> QED
    BY <2>2, <2>3
<1>5. f \in Bijection(A, C)
  BY <1>2, <1>3, <1>4 DEF Bijection, Injection, Surjection, IsInjective
<1>6. IsFiniteSet(A) /\ IsFiniteSet(B) /\ Cardinality(A) \in Nat /\ Cardinality(B) \in Nat
  <2>1. IsFiniteSet(1 .. k) /\ IsFiniteSet(1 .. k + 1)
    BY FS_Interval
  <2>2. A \in SUBSET (1 .. k) /\ B \in SUBSET (1 .. k + 1)
    OBVIOUS
  <2> HIDE DEF A, B
  <2> QED
    BY <2>1, <2>2, FS_Subset, FS_CardinalityType
<1>7. Cardinality(C) = Cardinality(A)
  BY <1>5, <1>6, FS_Bijection DEF ExistsBijection
<1>8. Cardinality(C) = IF 1 \in B THEN Cardinality(B) - 1 ELSE Cardinality(B)
  BY <1>6, FS_RemoveElement
<1>9. 1 \in B <=> Head(s).kind = "chunk"
  BY <1>1
<1>10. ChunksIn(s, k + 1) = Cardinality(B) /\ ChunksIn(u, k) = Cardinality(A)
  BY DEF ChunksIn
<1> HIDE DEF A, B, C, f
<1> QED
  BY <1>0, <1>6, <1>7, <1>8, <1>9, <1>10

----------------------------------------------------------------------------
(* Chunks in order                                                         *)

\* The chunks of s go on from the from-th chunk of the reply of node.
InOrder(s, node, from) ==
    \A j \in DOMAIN s : s[j].kind = "chunk" => s[j] = Chunk(node, from + ChunksIn(s, j))

All(s) == ChunksIn(s, Len(s))

\* The lines a node or a handler writes.
LEMMA LinesAre ==
    /\ \A kind \in Kinds : Plain(kind) \in Line /\ Plain(kind).kind = kind
    /\ \A node \in Nodes \cup {"none"}, n \in Nat :
           Chunk(node, n) \in Line /\ Chunk(node, n).kind = "chunk"
  BY DEF Plain, Chunk, Line, Kinds

\* A line added at the end adds to the count what it is.
LEMMA AppendCounts ==
    ASSUME NEW s \in Seq(Line), NEW x \in Line
    PROVE  /\ Append(s, x) \in Seq(Line) /\ Len(Append(s, x)) = Len(s) + 1
           /\ DOMAIN Append(s, x) = 1 .. Len(s) + 1 /\ DOMAIN s = 1 .. Len(s) /\ Len(s) \in Nat
           /\ \A i \in 1 .. Len(s) : Append(s, x)[i] = s[i]
           /\ Append(s, x)[Len(s) + 1] = x
           /\ \A k \in 0 .. Len(s) : ChunksIn(Append(s, x), k) = ChunksIn(s, k)
           /\ All(s) \in Nat
           /\ All(Append(s, x)) = All(s) + IF x.kind = "chunk" THEN 1 ELSE 0
<1>0. PICK u : u = Append(s, x)
  OBVIOUS
<1>1. /\ u \in Seq(Line) /\ Len(u) = Len(s) + 1 /\ DOMAIN u = 1 .. Len(s) + 1
      /\ DOMAIN s = 1 .. Len(s) /\ Len(s) \in Nat
      /\ \A i \in 1 .. Len(s) : u[i] = s[i]
      /\ u[Len(s) + 1] = x
  BY <1>0
<1>2. \A k \in 0 .. Len(s) : ChunksIn(u, k) = ChunksIn(s, k)
  <2>1. ASSUME NEW k \in 0 .. Len(s)
        PROVE  ChunksIn(u, k) = ChunksIn(s, k)
    <3>1. \A i \in 1 .. k : u[i].kind = s[i].kind
      BY <1>1
    <3> QED
      BY <3>1, CountSame
  <2> QED
    BY <2>1
<1>3. ChunksIn(u, Len(s) + 1) = ChunksIn(u, Len(s)) + IF u[Len(s) + 1].kind = "chunk" THEN 1 ELSE 0
  BY <1>1, CountIs
<1>4. ChunksIn(s, Len(s)) \in Nat
  BY <1>1, CountIs
<1>5. ChunksIn(u, Len(s)) = ChunksIn(s, Len(s))
  BY <1>1, <1>2
<1> QED
  BY <1>0, <1>1, <1>2, <1>3, <1>4, <1>5 DEF All

\* The next chunk in order goes at the end.
LEMMA AppendOrdered ==
    ASSUME NEW s \in Seq(Line), NEW x \in Line, NEW node, NEW from \in Nat, InOrder(s, node, from),
           x.kind = "chunk" => x = Chunk(node, from + All(s) + 1)
    PROVE  InOrder(Append(s, x), node, from)
<1>0. PICK u : u = Append(s, x)
  OBVIOUS
<1>1. /\ Len(u) = Len(s) + 1 /\ DOMAIN u = 1 .. Len(s) + 1 /\ DOMAIN s = 1 .. Len(s) /\ Len(s) \in Nat
      /\ \A i \in 1 .. Len(s) : u[i] = s[i]
      /\ u[Len(s) + 1] = x
      /\ \A k \in 0 .. Len(s) : ChunksIn(u, k) = ChunksIn(s, k)
      /\ All(s) \in Nat /\ All(u) = All(s) + IF x.kind = "chunk" THEN 1 ELSE 0
  BY <1>0, AppendCounts
<1>2. ASSUME NEW j \in DOMAIN u, u[j].kind = "chunk"
      PROVE  u[j] = Chunk(node, from + ChunksIn(u, j))
  <2>1. CASE j \in 1 .. Len(s)
    <3>1. u[j] = s[j] /\ ChunksIn(u, j) = ChunksIn(s, j) /\ j \in DOMAIN s
      BY <1>1, <2>1
    <3> QED
      BY <1>2, <3>1 DEF InOrder
  <2>2. CASE j = Len(s) + 1
    <3>1. x.kind = "chunk" /\ ChunksIn(u, j) = All(s) + 1
      BY <1>1, <1>2, <2>2 DEF All
    <3>2. from + All(s) + 1 = from + (All(s) + 1)
      BY <1>1
    <3> QED
      BY <1>1, <2>2, <3>1, <3>2
  <2> QED
    BY <1>1, <2>1, <2>2
<1> QED
  BY <1>0, <1>2 DEF InOrder

\* What is left after the first line goes on from it.
LEMMA TailOrdered ==
    ASSUME NEW s \in Seq(Line), s # <<>>, NEW node, NEW from \in Nat, InOrder(s, node, from)
    PROVE  LET one == IF Head(s).kind = "chunk" THEN 1 ELSE 0
           IN  /\ InOrder(Tail(s), node, from + one)
               /\ All(s) = All(Tail(s)) + one /\ All(Tail(s)) \in Nat
               /\ Head(s).kind = "chunk" => Head(s) = Chunk(node, from + 1)
<1>0. PICK u, one : u = Tail(s) /\ one = IF Head(s).kind = "chunk" THEN 1 ELSE 0
  OBVIOUS
<1>1. /\ u \in Seq(Line) /\ Len(s) \in Nat \ {0} /\ Len(u) = Len(s) - 1 /\ DOMAIN u = 1 .. Len(u)
      /\ \A i \in 1 .. Len(u) : u[i] = s[i + 1] /\ i + 1 \in DOMAIN s
      /\ Head(s) = s[1] /\ 1 \in DOMAIN s
  BY <1>0
<1>2. one \in {0, 1} /\ (Head(s).kind = "chunk" <=> one = 1)
  BY <1>0
<1>3. ASSUME NEW k \in 0 .. Len(u)
      PROVE  ChunksIn(s, k + 1) = ChunksIn(u, k) + one /\ ChunksIn(u, k) \in Nat
  <2>1. k \in Nat /\ k < Len(s)
    BY <1>1
  <2>2. ChunksIn(s, k + 1) = ChunksIn(Tail(s), k) + IF Head(s).kind = "chunk" THEN 1 ELSE 0
    BY <2>1, CountTail
  <2>3. ChunksIn(u, k) \in Nat
    BY <2>1, CountIs
  <2> QED
    BY <1>0, <2>2, <2>3
<1>4. ASSUME NEW j \in DOMAIN u, u[j].kind = "chunk"
      PROVE  u[j] = Chunk(node, (from + one) + ChunksIn(u, j))
  <2>1. s[j + 1] = Chunk(node, from + ChunksIn(s, j + 1)) /\ u[j] = s[j + 1]
    BY <1>1, <1>4 DEF InOrder
  <2>2. ChunksIn(s, j + 1) = ChunksIn(u, j) + one /\ ChunksIn(u, j) \in Nat
    BY <1>1, <1>3
  <2>3. from + ChunksIn(s, j + 1) = (from + one) + ChunksIn(u, j)
    BY <1>2, <2>2
  <2> QED
    BY <2>1, <2>3
<1>5. All(s) = All(u) + one /\ All(u) \in Nat
  <2>1. Len(u) \in 0 .. Len(u) /\ Len(u) + 1 = Len(s)
    BY <1>1
  <2> QED
    BY <1>3, <2>1 DEF All
<1>6. Head(s).kind = "chunk" => Head(s) = Chunk(node, from + 1)
  <2>1. ChunksIn(s, 0 + 1) = ChunksIn(u, 0) + one /\ ChunksIn(u, 0) = 0
    BY <1>1, <1>3, CountIs
  <2>2. Head(s).kind = "chunk" => ChunksIn(s, 1) = 1
    BY <1>2, <2>1
  <2> QED
    BY <1>1, <2>2 DEF InOrder
<1> QED
  BY <1>0, <1>4, <1>5, <1>6 DEF InOrder

----------------------------------------------------------------------------
(* The inductive invariant                                                 *)

\* The lines of the connection and the events of the queue go on from each
\* other, up to the last chunk the worker has read.
Ordered ==
    /\ InOrder(wire, worker.node, 0) /\ All(wire) <= worker.got
    /\ connected /\ handler # "ended" =>
          InOrder(queue, worker.node, All(wire)) /\ All(wire) + All(queue) = worker.got
    /\ handler \in {"accepted", "open", "starting"} =>
          worker.at = "unborn" /\ queue = <<>> /\ worker.got = 0
    /\ \A j \in DOMAIN queue : queue[j].kind \in {"chunk", "api", "broken", "done"}

\* A client that waits is connected and has read no line that ends its turn;
\* what it has are the chunks of the lines it has read.
Reading ==
    /\ connected <=> client.outcome = "waiting"
    /\ Len(client.got) = ChunksIn(wire, client.read)
    /\ \A i \in DOMAIN client.got : client.got[i] = Chunk(worker.node, i)
    /\ connected => \A j \in 1 .. client.read :
                        wire[j].kind # "error" /\ (wire[j].kind = "head" => j = 1)

\* The last line tells that the reply is not whole ...
Spoilt == /\ wire # <<>>
          /\ \/ wire[Len(wire)].kind = "error"
             \/ wire[Len(wire)].kind = "head" /\ Len(wire) > 1

\* ... or all the worker read is on the wire.
Complete == /\ worker.at = "ended" /\ worker.error \notin Failures
            /\ All(wire) = worker.got

Ending ==
    /\ handler = "waiting" => worker.at # "unborn"
    /\ worker.at \in {"unborn", "reading"} => worker.error = "none"
    /\ worker.at \in {"finally", "ended"} /\ worker.error = "none" /\ ~died => worker.got = Chunks
    /\ died => handler = "ended" /\ worker.at = "ended"
    /\ client.outcome = "answered" /\ ~died => worker.at = "ended"
    /\ connected /\ handler = "waiting" =>
          /\ worker.error \in Failures => \E j \in DOMAIN queue : queue[j].kind \in {"api", "broken"}
          /\ \A j \in DOMAIN queue : queue[j].kind = "done" => j = Len(queue) /\ worker.at = "ended"
    /\ connected /\ handler # "accepted" /\ ~died => wire # <<>>
    /\ connected /\ handler = "ended" /\ ~died => Spoilt \/ Complete

IInv == TypeOK /\ Ordered /\ Reading /\ Ending /\ WholeAnswer

\* At first nothing was sent or read.
LEMMA InvInit == Init => IInv
<1> SUFFICES ASSUME Init
             PROVE  IInv
  OBVIOUS
<1>1. TypeOK
  <2>1. wire \in Seq(Line) /\ queue \in Seq(Line) /\ client.got \in Seq(Line) /\ Len(wire) = 0
    BY DEF Init
  <2>2. 0 \in 0 .. Chunks /\ 0 \in 0 .. MaxBeats /\ 0 \in 0 .. 0
    BY StreamAssumption
  <2> QED
    BY <2>1, <2>2 DEF Init, TypeOK, Nodes, Failures
<1>2. All(<<>>) = 0 /\ ChunksIn(wire, 0) = 0 /\ Len(<<>>) = 0
  BY CountIs DEF All
<1>3. Ordered
  BY <1>2 DEF Init, Ordered, InOrder
<1>4. Reading
  BY <1>2 DEF Init, Reading
<1>5. Ending /\ WholeAnswer
  BY DEF Init, Ending, WholeAnswer, Failures
<1> QED
  BY <1>1, <1>3, <1>4, <1>5 DEF IInv

\* The types the steps go by.
LEMMA TypesAre ==
    ASSUME TypeOK
    PROVE  /\ wire \in Seq(Line) /\ queue \in Seq(Line) /\ Len(wire) \in Nat /\ DOMAIN wire = 1 .. Len(wire)
           /\ worker.got \in Nat /\ client.read \in 0 .. Len(wire) /\ client.got \in Seq(Line)
           /\ DOMAIN queue = 1 .. Len(queue) /\ Len(queue) \in Nat
           /\ worker.node \in Nodes \cup {"none"}
  BY StreamAssumption DEF TypeOK

\* A line, the next chunk of the reply if it is one, is put on the wire or lost.
LEMMA WireGrows ==
    ASSUME IInv, NEW line \in Line,
           connected /\ line.kind = "chunk" => line = Chunk(worker.node, All(wire) + 1),
           ~connected => wire' = wire,
           wire' = wire \/ wire' = Append(wire, line), UNCHANGED <<worker, client, connected>>
    PROVE  /\ (wire \in Seq(Line))' /\ (client.read \in 0 .. Len(wire))'
           /\ InOrder(wire', worker.node, 0)
           /\ wire' = wire \/ line.kind # "chunk" => All(wire') = All(wire)
           /\ wire' = Append(wire, line) /\ line.kind = "chunk" => All(wire') = All(wire) + 1
           /\ Reading' /\ (wire # <<>> => wire' # <<>>)
<1>1. TypeOK /\ Ordered /\ Reading
  BY DEF IInv
<1>2. /\ wire \in Seq(Line) /\ client.read \in 0 .. Len(wire) /\ Len(wire) \in Nat
  BY <1>1, TypesAre
<1>3. CASE wire' = Append(wire, line) /\ connected
  <2>2. /\ wire' \in Seq(Line) /\ Len(wire') = Len(wire) + 1
        /\ \A i \in 1 .. Len(wire) : wire'[i] = wire[i]
        /\ \A k \in 0 .. Len(wire) : ChunksIn(wire', k) = ChunksIn(wire, k)
        /\ All(wire) \in Nat /\ All(wire') = All(wire) + IF line.kind = "chunk" THEN 1 ELSE 0
    BY <1>2, <1>3, AppendCounts
  <2>3. InOrder(wire', worker.node, 0)
    <3>1. line.kind = "chunk" => line = Chunk(worker.node, 0 + All(wire) + 1)
      BY <1>3, <2>2
    <3> QED
      BY <1>1, <1>2, <1>3, <3>1, AppendOrdered DEF Ordered
  <2>4. client.read \in 0 .. Len(wire') /\ ChunksIn(wire', client.read) = ChunksIn(wire, client.read)
    BY <1>2, <2>2
  <2>5. \A j \in 1 .. client.read : wire'[j] = wire[j]
    BY <1>2, <2>2
  <2>6. Reading'
    BY <1>1, <2>4, <2>5 DEF Reading
  <2>7. wire' # <<>>
    BY <1>2, <2>2
  <2>8. wire' # wire
    BY <1>2, <2>2
  <2> QED
    BY <2>2, <2>3, <2>4, <2>6, <2>7, <2>8
<1>4. CASE wire' = wire
  <2>1. wire # Append(wire, line)
    BY <1>2, AppendCounts
  <2> QED
    BY <1>1, <1>2, <1>4, <2>1 DEF Ordered, Reading
<1> QED
  BY <1>3, <1>4

\* A line reaches a client that is there, and is lost on one that is not.
LEMMA WritesIs ==
    ASSUME NEW line, NEW next, Writes(line, next)
    PROVE  /\ wire' = wire \/ wire' = Append(wire, line)
           /\ connected => wire' = Append(wire, line) /\ handler' = next
           /\ ~connected => wire' = wire
           /\ handler' \in {next, "ended"}
  BY DEF Writes

\* The head of the answer is no chunk.
LEMMA SendHeadKeeps == ASSUME IInv, SendHead PROVE IInv'
<1>1. TypeOK /\ Ordered /\ Reading /\ Ending /\ WholeAnswer
  BY DEF IInv
<1>2. PICK line \in Line : line = Plain("head") /\ line.kind = "head"
  BY LinesAre DEF Kinds
<1>3. /\ handler = "accepted" /\ UNCHANGED <<valid, connected, beats, queue, worker, client, died>>
      /\ wire' = wire \/ wire' = Append(wire, line)
      /\ connected => wire' = Append(wire, line) /\ handler' = "open"
      /\ ~connected => wire' = wire
      /\ handler' \in {"open", "ended"}
  BY <1>2, WritesIs DEF SendHead
<1>4. /\ (wire \in Seq(Line))' /\ (client.read \in 0 .. Len(wire))'
      /\ InOrder(wire', worker.node, 0) /\ All(wire') = All(wire)
      /\ Reading' /\ (wire # <<>> => wire' # <<>>)
  BY <1>2, <1>3, WireGrows
<1>5. TypeOK'
  BY <1>1, <1>3, <1>4 DEF TypeOK
<1>6. Ordered'
  BY <1>1, <1>3, <1>4 DEF Ordered
<1>7. connected => wire' # <<>>
  BY <1>1, <1>3, TypesAre
<1>8. Ending' /\ WholeAnswer'
  BY <1>1, <1>3, <1>7 DEF Ordered, Ending, WholeAnswer
<1> QED
  BY <1>4, <1>5, <1>6, <1>8 DEF IInv

\* What is written before the worker starts is no chunk.
LEMMA ValidateKeeps == ASSUME IInv, Validate PROVE IInv'
<1>1. TypeOK /\ Ordered /\ Reading /\ Ending /\ WholeAnswer
  BY DEF IInv
<1>2. PICK line \in Line : /\ line.kind \in {"head", "beat"} /\ line.kind # "chunk"
                           /\ line.kind = "head" <=> ~valid
                           /\ Writes(line, IF valid THEN "starting" ELSE "ended")
  BY <1>1, LinesAre DEF Kinds, Validate, TypeOK
<1>3. /\ handler = "open" /\ UNCHANGED <<valid, connected, beats, queue, worker, client, died>>
      /\ wire' = wire \/ wire' = Append(wire, line)
      /\ connected => wire' = Append(wire, line) /\ handler' = IF valid THEN "starting" ELSE "ended"
      /\ ~connected => wire' = wire
      /\ handler' \in {"starting", "ended"}
  BY <1>2, WritesIs DEF Validate
<1>4. /\ (wire \in Seq(Line))' /\ (client.read \in 0 .. Len(wire))'
      /\ InOrder(wire', worker.node, 0) /\ All(wire') = All(wire)
      /\ Reading' /\ (wire # <<>> => wire' # <<>>)
  BY <1>2, <1>3, WireGrows
<1>5. TypeOK'
  BY <1>1, <1>3, <1>4 DEF TypeOK
<1>6. Ordered'
  BY <1>1, <1>3, <1>4 DEF Ordered
<1>7. connected /\ ~valid => Spoilt'
  <2>1. SUFFICES ASSUME connected, ~valid
                 PROVE  Spoilt'
    OBVIOUS
  <2>2. ~died /\ wire # <<>> /\ wire' = Append(wire, line) /\ line.kind = "head"
    BY <1>1, <1>2, <1>3, <2>1 DEF Ending
  <2>3. Len(wire') = Len(wire) + 1 /\ wire'[Len(wire) + 1] = line /\ Len(wire) \in Nat \ {0}
    BY <1>1, <2>2, TypesAre
  <2> QED
    BY <1>4, <2>2, <2>3 DEF Spoilt
<1>8. Ending' /\ WholeAnswer'
  BY <1>1, <1>3, <1>4, <1>7 DEF Ordered, Ending, WholeAnswer
<1> QED
  BY <1>4, <1>5, <1>6, <1>8 DEF IInv

\* A worker that has read nothing has nothing on the wire, and the client nothing.
LEMMA NothingYet ==
    ASSUME IInv, worker.got = 0
    PROVE  /\ All(wire) = 0 /\ \A j \in DOMAIN wire : wire[j].kind # "chunk"
           /\ client.got = <<>>
<1>1. TypeOK /\ Ordered /\ Reading
  BY DEF IInv
<1>2. wire \in Seq(Line) /\ DOMAIN wire = 1 .. Len(wire) /\ Len(wire) \in Nat
  BY <1>1, TypesAre
<1>3. All(wire) \in Nat /\ \A j \in 0 .. Len(wire) : ChunksIn(wire, j) <= All(wire)
  BY <1>2, CountIs DEF All
<1>4. All(wire) = 0
  BY <1>1, <1>3 DEF Ordered
<1>5. ASSUME NEW j \in DOMAIN wire, wire[j].kind = "chunk"
      PROVE  FALSE
  <2>1. j - 1 \in Nat /\ (j - 1) + 1 = j /\ j \in 0 .. Len(wire)
    BY <1>2
  <2>2. ChunksIn(wire, (j - 1) + 1)
            = ChunksIn(wire, j - 1) + IF wire[(j - 1) + 1].kind = "chunk" THEN 1 ELSE 0
    BY <2>1, CountIs
  <2>3. ChunksIn(wire, j - 1) \in Nat
    BY <2>1, CountIs
  <2>4. ChunksIn(wire, j) <= 0
    BY <1>3, <1>4, <2>1
  <2> QED
    BY <1>5, <2>1, <2>2, <2>3, <2>4
<1>6. client.got = <<>>
  <2>1. ChunksIn(wire, client.read) <= All(wire) /\ ChunksIn(wire, client.read) \in Nat
    BY <1>1, TypesAre, CountIs DEF All
  <2>2. Len(client.got) = 0
    BY <1>1, <1>4, <2>1 DEF Reading
  <2> QED
    BY <1>1, <2>2, TypesAre, EmptySeq
<1> QED
  BY <1>4, <1>5, <1>6

\* A worker starts with nothing got.
LEMMA StartWorkerKeeps == ASSUME IInv, StartWorker PROVE IInv'
<1>1. TypeOK /\ Ordered /\ Reading /\ Ending /\ WholeAnswer
  BY DEF IInv
<1>2. PICK node \in Nodes : worker' = [worker EXCEPT !.at = "reading", !.node = node]
  BY DEF StartWorker
<1>3. /\ handler = "starting" /\ handler' = "waiting"
      /\ UNCHANGED <<valid, wire, connected, beats, queue, client, died>>
  BY DEF StartWorker
<1>4. /\ worker'.at = "reading" /\ worker'.node = node /\ worker'.got = worker.got
      /\ worker'.error = worker.error
  BY <1>1, <1>2 DEF TypeOK
<1>5. worker.at = "unborn" /\ queue = <<>> /\ worker.got = 0 /\ worker.error = "none"
  BY <1>1, <1>3 DEF Ordered, Ending
<1>6. All(wire) = 0 /\ (\A j \in DOMAIN wire : wire[j].kind # "chunk") /\ client.got = <<>>
  BY <1>5, NothingYet
<1>7. TypeOK'
  BY <1>1, <1>2, <1>3 DEF TypeOK
<1>8. Ordered'
  <2>1. All(queue) = 0
    <3>1. Len(<<>>) = 0
      OBVIOUS
    <3> QED
      BY <1>5, <3>1, CountIs DEF All
  <2> QED
    BY <1>3, <1>4, <1>5, <1>6, <2>1 DEF Ordered, InOrder
<1>9. Reading'
  <2>1. DOMAIN client.got = {}
    BY <1>6
  <2> QED
    BY <1>1, <1>3, <2>1 DEF Reading
<1>10. Ending'
  BY <1>1, <1>3, <1>4, <1>5 DEF Ending, Failures
<1>11. WholeAnswer'
  BY <1>1, <1>3, <1>4 DEF WholeAnswer
<1> QED
  BY <1>7, <1>8, <1>9, <1>10, <1>11 DEF IInv

\* A heartbeat is no chunk.
LEMMA HeartbeatKeeps == ASSUME IInv, Heartbeat PROVE IInv'
<1>1. TypeOK /\ Ordered /\ Reading /\ Ending /\ WholeAnswer
  BY DEF IInv
<1>2. PICK line \in Line : line = Plain("beat") /\ line.kind = "beat"
  BY LinesAre DEF Kinds
<1>3. /\ handler = "waiting" /\ UNCHANGED <<valid, connected, queue, worker, client, died>>
      /\ wire' = wire \/ wire' = Append(wire, line)
      /\ connected => handler' = "waiting"
      /\ ~connected => wire' = wire
      /\ handler' \in {"waiting", "ended"}
  BY <1>2, WritesIs DEF Heartbeat
<1>4. /\ (wire \in Seq(Line))' /\ (client.read \in 0 .. Len(wire))'
      /\ InOrder(wire', worker.node, 0) /\ All(wire') = All(wire)
      /\ Reading' /\ (wire # <<>> => wire' # <<>>)
  BY <1>2, <1>3, WireGrows
<1>5. TypeOK'
  <2>1. beats' \in 0 .. MaxBeats
    BY <1>1, StreamAssumption DEF TypeOK, Heartbeat
  <2> QED
    BY <1>1, <1>3, <1>4, <2>1 DEF TypeOK
<1>6. Ordered'
  BY <1>1, <1>3, <1>4 DEF Ordered
<1>7. Ending' /\ WholeAnswer'
  BY <1>1, <1>3, <1>4 DEF Ending, WholeAnswer
<1> QED
  BY <1>4, <1>5, <1>6, <1>7 DEF IInv

\* An event goes from the queue to the wire, or ends the handler.
LEMMA TakeEventKeeps == ASSUME IInv, TakeEvent PROVE IInv'
<1>1. TypeOK /\ Ordered /\ Reading /\ Ending /\ WholeAnswer
  BY DEF IInv
<1>2. PICK event, rest, one : /\ event = Head(queue) /\ rest = Tail(queue)
                             /\ one = IF event.kind = "chunk" THEN 1 ELSE 0
  OBVIOUS
<1>3. /\ handler = "waiting" /\ queue # <<>> /\ queue' = rest
      /\ UNCHANGED <<valid, connected, beats, worker, client, died>>
  BY <1>2 DEF TakeEvent
<1>4. /\ queue \in Seq(Line) /\ event \in Line /\ rest \in Seq(Line) /\ event = queue[1]
      /\ Len(queue) \in Nat \ {0} /\ Len(rest) = Len(queue) - 1 /\ 1 \in DOMAIN queue
      /\ DOMAIN queue = 1 .. Len(queue) /\ DOMAIN rest = 1 .. Len(rest)
      /\ \A j \in DOMAIN rest : rest[j] = queue[j + 1] /\ j + 1 \in DOMAIN queue
      /\ \A j \in DOMAIN queue : j # 1 => j - 1 \in DOMAIN rest /\ rest[j - 1] = queue[j]
  <2>1. queue \in Seq(Line) /\ queue # <<>>
    BY <1>1, <1>3, TypesAre
  <2>2. /\ event \in Line /\ rest \in Seq(Line) /\ event = queue[1]
        /\ Len(queue) \in Nat \ {0} /\ Len(rest) = Len(queue) - 1
        /\ DOMAIN queue = 1 .. Len(queue) /\ DOMAIN rest = 1 .. Len(rest)
        /\ \A j \in 1 .. Len(rest) : rest[j] = queue[j + 1]
    BY <1>2, <2>1
  <2>3. ASSUME NEW j \in DOMAIN queue, j # 1
        PROVE  j - 1 \in DOMAIN rest /\ rest[j - 1] = queue[j]
    <3>1. j - 1 \in 1 .. Len(rest) /\ (j - 1) + 1 = j
      BY <2>2, <2>3
    <3> QED
      BY <2>2, <3>1
  <2>4. \A j \in DOMAIN rest : j + 1 \in DOMAIN queue
    BY <2>2
  <2>5. 1 \in DOMAIN queue
    BY <2>2
  <2> QED
    BY <2>1, <2>2, <2>3, <2>4, <2>5
<1>5. /\ event.kind \in {"chunk", "api", "broken", "done"}
      /\ \A j \in DOMAIN rest : rest[j].kind \in {"chunk", "api", "broken", "done"}
  BY <1>1, <1>4 DEF Ordered
<1>6. All(wire) \in Nat /\ one \in {0, 1} /\ (event.kind = "chunk" <=> one = 1)
  BY <1>1, <1>2, TypesAre, CountIs DEF All
<1>7. connected => /\ InOrder(rest, worker.node, All(wire) + one)
                   /\ All(queue) = All(rest) + one /\ All(rest) \in Nat
                   /\ event.kind = "chunk" => event = Chunk(worker.node, All(wire) + 1)
  BY <1>1, <1>2, <1>3, <1>4, <1>6, TailOrdered DEF Ordered
<1>8. PICK line \in Line, next \in {"waiting", "ended"} :
         /\ next = "waiting" <=> event.kind = "chunk"
         /\ event.kind = "chunk" => line = event
         /\ event.kind # "chunk" => line.kind \in {"error", "head"}
         /\ event.kind # "done" => Writes(line, next)
         /\ event.kind = "done" => handler' = next /\ wire' = wire
  <2>1. CASE event.kind = "chunk"
    BY <1>2, <1>4, <2>1 DEF TakeEvent
  <2>2. CASE event.kind = "api"
    <3>1. Plain("error") \in Line /\ Plain("error").kind = "error"
      BY LinesAre DEF Kinds
    <3> QED
      BY <1>2, <2>2, <3>1 DEF TakeEvent
  <2>3. CASE event.kind = "broken"
    <3>1. Plain("head") \in Line /\ Plain("head").kind = "head"
      BY LinesAre DEF Kinds
    <3> QED
      BY <1>2, <2>3, <3>1 DEF TakeEvent
  <2>4. CASE event.kind = "done"
    <3>1. Plain("head") \in Line /\ Plain("head").kind = "head"
      BY LinesAre DEF Kinds
    <3> QED
      BY <1>2, <2>4, <3>1 DEF TakeEvent
  <2> QED
    BY <1>5, <2>1, <2>2, <2>3, <2>4
<1>9. /\ wire' = wire \/ wire' = Append(wire, line)
      /\ connected /\ event.kind # "done" => wire' = Append(wire, line)
      /\ event.kind = "done" => wire' = wire
      /\ connected => handler' = next
      /\ ~connected => wire' = wire
      /\ handler' \in {"waiting", "ended"}
      /\ handler' = "waiting" => next = "waiting"
  BY <1>8, WritesIs
<1>10. connected /\ line.kind = "chunk" => line = Chunk(worker.node, All(wire) + 1)
  BY <1>7, <1>8
<1>11. /\ (wire \in Seq(Line))' /\ (client.read \in 0 .. Len(wire))'
       /\ InOrder(wire', worker.node, 0)
       /\ wire' = wire \/ line.kind # "chunk" => All(wire') = All(wire)
       /\ wire' = Append(wire, line) /\ line.kind = "chunk" => All(wire') = All(wire) + 1
       /\ Reading' /\ (wire # <<>> => wire' # <<>>)
  BY <1>3, <1>9, <1>10, WireGrows
<1>12. connected => All(wire') = All(wire) + one
  BY <1>6, <1>8, <1>9, <1>11
<1>13. TypeOK'
  BY <1>1, <1>3, <1>4, <1>9, <1>11 DEF TypeOK
<1>14. Ordered'
  <2>1. All(wire') <= worker.got
    <3>1. CASE connected
      BY <1>1, <1>3, <1>6, <1>7, <1>12, <3>1, TypesAre DEF Ordered
    <3>2. CASE ~connected
      BY <1>1, <1>9, <1>11, <3>2 DEF Ordered
    <3> QED
      BY <3>1, <3>2
  <2>2. connected => InOrder(rest, worker.node, All(wire')) /\ All(wire') + All(rest) = worker.got
    BY <1>1, <1>3, <1>6, <1>7, <1>12, TypesAre DEF Ordered
  <2> QED
    BY <1>3, <1>5, <1>9, <1>11, <2>1, <2>2 DEF Ordered
<1>15. connected /\ event.kind \in {"api", "broken"} => Spoilt'
  <2>1. SUFFICES ASSUME connected, event.kind \in {"api", "broken"}
                 PROVE  Spoilt'
    OBVIOUS
  <2>2. ~died /\ wire # <<>> /\ wire' = Append(wire, line) /\ line.kind \in {"head", "error"}
    BY <1>1, <1>3, <1>8, <1>9, <2>1 DEF Ending
  <2>3. Len(wire') = Len(wire) + 1 /\ wire'[Len(wire) + 1] = line /\ Len(wire) \in Nat \ {0}
    BY <1>1, <2>2, TypesAre
  <2> QED
    BY <1>11, <2>2, <2>3 DEF Spoilt
<1>16. connected /\ event.kind = "done" => Complete'
  <2>1. SUFFICES ASSUME connected, event.kind = "done"
                 PROVE  Complete'
    OBVIOUS
  <2>2. Len(queue) = 1 /\ worker.at = "ended"
    BY <1>1, <1>3, <1>4, <2>1 DEF Ending
  <2>3. \A j \in DOMAIN queue : queue[j].kind = "done"
    BY <1>4, <2>1, <2>2
  <2>4. worker.error \notin Failures
    BY <1>1, <1>3, <2>1, <2>3 DEF Ending
  <2>6. Len(rest) = 0 /\ All(rest) = 0
    BY <1>4, <2>2, CountIs DEF All
  <2>7. All(wire') = worker.got
    BY <1>1, <1>3, <1>6, <1>7, <1>12, <2>1, <2>6, TypesAre DEF Ordered
  <2> QED
    BY <1>3, <2>2, <2>4, <2>7 DEF Complete
<1>17. connected /\ handler' = "waiting" =>
          /\ worker.error \in Failures => \E j \in DOMAIN rest : rest[j].kind \in {"api", "broken"}
          /\ \A j \in DOMAIN rest : rest[j].kind = "done" => j = Len(rest) /\ worker.at = "ended"
  <2>1. SUFFICES ASSUME connected, handler' = "waiting"
                 PROVE  /\ worker.error \in Failures =>
                              \E j \in DOMAIN rest : rest[j].kind \in {"api", "broken"}
                        /\ \A j \in DOMAIN rest :
                              rest[j].kind = "done" => j = Len(rest) /\ worker.at = "ended"
    OBVIOUS
  <2>2. event.kind = "chunk"
    BY <1>8, <1>9, <2>1
  <2>3. ASSUME worker.error \in Failures
        PROVE  \E j \in DOMAIN rest : rest[j].kind \in {"api", "broken"}
    <3>1. PICK j \in DOMAIN queue : queue[j].kind \in {"api", "broken"}
      BY <1>1, <1>3, <2>1, <2>3 DEF Ending
    <3>2. j # 1
      BY <1>4, <2>2, <3>1
    <3> QED
      BY <1>4, <3>1, <3>2
  <2>4. ASSUME NEW j \in DOMAIN rest, rest[j].kind = "done"
        PROVE  j = Len(rest) /\ worker.at = "ended"
    <3>1. j + 1 = Len(queue) /\ worker.at = "ended"
      BY <1>1, <1>3, <1>4, <2>1, <2>4 DEF Ending
    <3> QED
      BY <1>4, <3>1
  <2> QED
    BY <2>3, <2>4
<1>18. connected /\ handler' = "ended" => Spoilt' \/ Complete'
  BY <1>5, <1>8, <1>9, <1>15, <1>16
<1>19. Ending'
  BY <1>1, <1>3, <1>9, <1>11, <1>17, <1>18 DEF Ending
<1>20. WholeAnswer'
  BY <1>1, <1>3 DEF WholeAnswer
<1> QED
  BY <1>11, <1>13, <1>14, <1>19, <1>20 DEF IInv

\* The worker puts an event on the queue.
LEMMA PutKeeps ==
    ASSUME IInv, NEW event \in Line, event.kind \in {"chunk", "api", "broken", "done"},
           queue' = Append(queue, event),
           event.kind = "chunk" => event = Chunk(worker.node, worker.got + 1)
    PROVE  /\ queue' \in Seq(Line)
           /\ connected /\ handler # "ended" =>
                 /\ InOrder(queue', worker.node, All(wire))
                 /\ All(wire) + All(queue') = worker.got + IF event.kind = "chunk" THEN 1 ELSE 0
           /\ \A j \in DOMAIN queue' : queue'[j].kind \in {"chunk", "api", "broken", "done"}
           /\ \A j \in DOMAIN queue : j \in DOMAIN queue' /\ queue'[j] = queue[j]
           /\ Len(queue') \in DOMAIN queue' /\ queue'[Len(queue')] = event
           /\ \A j \in DOMAIN queue' : j = Len(queue') \/ j \in DOMAIN queue
<1>1. TypeOK /\ Ordered
  BY DEF IInv
<1>2. queue \in Seq(Line) /\ All(wire) \in Nat /\ worker.got \in Nat
  BY <1>1, TypesAre, CountIs DEF All
<1>3. /\ queue' \in Seq(Line) /\ Len(queue') = Len(queue) + 1
      /\ DOMAIN queue' = 1 .. Len(queue) + 1 /\ DOMAIN queue = 1 .. Len(queue) /\ Len(queue) \in Nat
      /\ \A i \in 1 .. Len(queue) : queue'[i] = queue[i]
      /\ queue'[Len(queue) + 1] = event
      /\ All(queue) \in Nat /\ All(queue') = All(queue) + IF event.kind = "chunk" THEN 1 ELSE 0
  BY <1>2, AppendCounts
<1>4. ASSUME connected, handler # "ended"
      PROVE  /\ InOrder(queue', worker.node, All(wire))
             /\ All(wire) + All(queue') = worker.got + IF event.kind = "chunk" THEN 1 ELSE 0
  <2>1. InOrder(queue, worker.node, All(wire)) /\ All(wire) + All(queue) = worker.got
    BY <1>1, <1>4 DEF Ordered
  <2>2. event.kind = "chunk" => event = Chunk(worker.node, All(wire) + All(queue) + 1)
    BY <2>1
  <2>3. InOrder(Append(queue, event), worker.node, All(wire))
    BY <1>2, <2>1, <2>2, AppendOrdered
  <2>4. All(wire) + All(queue') = worker.got + IF event.kind = "chunk" THEN 1 ELSE 0
    BY <1>2, <1>3, <2>1
  <2> QED
    BY <2>3, <2>4
<1>5. \A j \in DOMAIN queue' : j = Len(queue') \/ j \in DOMAIN queue
  BY <1>3
<1>6. \A j \in DOMAIN queue' : queue'[j].kind \in {"chunk", "api", "broken", "done"}
  BY <1>1, <1>3, <1>5 DEF Ordered
<1> QED
  BY <1>3, <1>4, <1>5, <1>6

\* So has its queue, as long as somebody takes the events of it.
LEMMA NothingQueued ==
    ASSUME IInv, worker.got = 0, connected, handler # "ended"
    PROVE  All(queue) = 0 /\ \A j \in DOMAIN queue : queue[j].kind # "chunk"
<1>1. TypeOK /\ Ordered
  BY DEF IInv
<1>2. queue \in Seq(Line) /\ DOMAIN queue = 1 .. Len(queue) /\ Len(queue) \in Nat
  BY <1>1, TypesAre
<1>3. All(queue) \in Nat /\ \A j \in 0 .. Len(queue) : ChunksIn(queue, j) <= All(queue)
  BY <1>2, CountIs DEF All
<1>4. All(queue) = 0
  BY <1>1, <1>3, NothingYet DEF Ordered
<1>5. ASSUME NEW j \in DOMAIN queue, queue[j].kind = "chunk"
      PROVE  FALSE
  <2>1. j - 1 \in Nat /\ (j - 1) + 1 = j /\ j \in 0 .. Len(queue)
    BY <1>2
  <2>2. ChunksIn(queue, (j - 1) + 1)
            = ChunksIn(queue, j - 1) + IF queue[(j - 1) + 1].kind = "chunk" THEN 1 ELSE 0
    BY <2>1, CountIs
  <2>3. ChunksIn(queue, j - 1) \in Nat
    BY <2>1, CountIs
  <2>4. ChunksIn(queue, j) <= 0
    BY <1>3, <1>4, <2>1
  <2> QED
    BY <1>5, <2>1, <2>2, <2>3, <2>4
<1> QED
  BY <1>4, <1>5

\* An object of the stream is the next chunk of its node, whether the worker reads on
\* or the object was the last and told an error.
LEMMA ChunkKeeps ==
    ASSUME IInv, worker.at = "reading", worker.got < Chunks,
           NEW at, NEW error,
           (at = "reading" /\ error = "none") \/ (at = "finally" /\ error = "line"),
           worker' = [worker EXCEPT !.got = worker.got + 1, !.at = at, !.error = error],
           Put(Chunk(worker.node, worker.got + 1)),
           UNCHANGED <<valid, wire, connected, handler, beats, client, died>>
    PROVE  IInv'
<1>1. TypeOK /\ Ordered /\ Reading /\ Ending /\ WholeAnswer
  BY DEF IInv
<1>2. PICK event \in Line : event = Chunk(worker.node, worker.got + 1) /\ event.kind = "chunk"
  <2>1. worker.got + 1 \in Nat /\ worker.node \in Nodes \cup {"none"}
    BY <1>1, TypesAre
  <2> QED
    BY <2>1, LinesAre
<1>3. /\ worker.at = "reading" /\ worker.got < Chunks
      /\ worker'.at = at /\ worker'.node = worker.node /\ worker'.got = worker.got + 1
      /\ worker'.error = error
      /\ (at = "reading" /\ error = "none") \/ (at = "finally" /\ error = "line")
      /\ UNCHANGED <<valid, wire, connected, handler, beats, client, died>>
  BY <1>1 DEF TypeOK
<1>4. queue' = Append(queue, event)
  BY <1>2 DEF Put
<1>5. /\ queue' \in Seq(Line)
      /\ connected /\ handler # "ended" =>
            /\ InOrder(queue', worker.node, All(wire))
            /\ All(wire) + All(queue') = worker.got + 1
      /\ \A j \in DOMAIN queue' : queue'[j].kind \in {"chunk", "api", "broken", "done"}
      /\ Len(queue') \in DOMAIN queue' /\ queue'[Len(queue')] = event
      /\ \A j \in DOMAIN queue' : j = Len(queue') \/ (j \in DOMAIN queue /\ queue'[j] = queue[j])
  BY <1>2, <1>4, PutKeeps
<1>6. TypeOK'
  <2>1. worker.got + 1 \in 0 .. Chunks
    BY <1>1, <1>3, StreamAssumption DEF TypeOK
  <2> QED
    BY <1>1, <1>3, <1>5, <2>1 DEF TypeOK
<1>7. Ordered'
  <2>1. All(wire) <= worker.got + 1
    BY <1>1, TypesAre, CountIs DEF Ordered, All
  <2> QED
    BY <1>1, <1>3, <1>5, <2>1 DEF Ordered
<1>8. Reading'
  BY <1>1, <1>3 DEF Reading
<1>9. Ending'
  <2>1. connected /\ handler = "ended" /\ ~died => Spoilt'
    BY <1>1, <1>3 DEF Ending, Complete, Spoilt
  <2>2. worker.error = "none"
    BY <1>1, <1>3 DEF Ending
  <2>3. connected /\ handler = "waiting" => \A j \in DOMAIN queue' : queue'[j].kind # "done"
    BY <1>1, <1>2, <1>3, <1>5 DEF Ending
  <2> QED
    BY <1>1, <1>3, <2>1, <2>2, <2>3 DEF Ending, Failures
<1>10. WholeAnswer'
  BY <1>1, <1>3 DEF WholeAnswer, Ending
<1> QED
  BY <1>6, <1>7, <1>8, <1>9, <1>10 DEF IInv

\* The chunk a worker gets is the next of its node.
LEMMA NodeChunkKeeps == ASSUME IInv, NodeChunk PROVE IInv'
<1>1. TypeOK /\ worker.error = "none" /\ worker.at = "reading"
  BY DEF IInv, Ending, NodeChunk
<1>2. worker' = [worker EXCEPT !.got = worker.got + 1, !.at = "reading", !.error = "none"]
  BY <1>1 DEF NodeChunk, TypeOK
<1> QED
  BY <1>1, <1>2, ChunkKeeps DEF NodeChunk

\* So is the object with which a node tells an error.
LEMMA NodeErrorLineKeeps == ASSUME IInv, NodeErrorLine PROVE IInv'
<1>1. worker' = [worker EXCEPT !.got = worker.got + 1, !.at = "finally", !.error = "line"]
  BY DEF NodeErrorLine, IInv, TypeOK
<1> QED
  BY <1>1, ChunkKeeps DEF NodeErrorLine

\* The worker stops reading, at the end of the body, whole or not.
LEMMA StopKeeps ==
    ASSUME IInv, worker.at = "reading", NEW error \in {"none", "short"},
           error = "none" => worker.got = Chunks,
           worker' = [worker EXCEPT !.at = "finally", !.error = error],
           UNCHANGED <<valid, wire, connected, handler, beats, queue, client, died>>
    PROVE  IInv'
<1>1. TypeOK /\ Ordered /\ Reading /\ Ending /\ WholeAnswer
  BY DEF IInv
<1>2. /\ worker'.at = "finally" /\ worker'.node = worker.node /\ worker'.got = worker.got
      /\ worker'.error = error
  BY <1>1 DEF TypeOK
<1>3. TypeOK'
  BY <1>1, <1>2 DEF TypeOK
<1>4. Ordered' /\ Reading'
  BY <1>1, <1>2 DEF Ordered, Reading
<1>5. Ending'
  <2>1. connected /\ handler = "ended" /\ ~died => Spoilt'
    BY <1>1, <1>2 DEF Ending, Complete, Spoilt
  <2> QED
    BY <1>1, <1>2, <2>1 DEF Ending, Failures
<1>6. WholeAnswer'
  BY <1>1, <1>2 DEF Ending, WholeAnswer
<1> QED
  BY <1>3, <1>4, <1>5, <1>6 DEF IInv

\* A node that is done has sent all of its answer.
LEMMA NodeDoneKeeps == ASSUME IInv, NodeDone PROVE IInv'
<1>1. TypeOK /\ Ending /\ worker.at = "reading" /\ worker.got = Chunks
  BY DEF IInv, NodeDone
<1>2. worker.error = "none"
  BY <1>1 DEF Ending
<1>3. worker' = [worker EXCEPT !.at = "finally", !.error = "none"]
  BY <1>1, <1>2 DEF NodeDone, TypeOK
<1> QED
  BY <1>1, <1>3, StopKeeps DEF NodeDone

\* A node that stops short raises nothing: the worker goes to its end.
LEMMA NodeStopsShortKeeps == ASSUME IInv, NodeStopsShort PROVE IInv'
  BY StopKeeps DEF NodeStopsShort

\* Another node is tried only before the first chunk; else the error goes behind all.
LEMMA NodeFailsKeeps == ASSUME IInv, NEW error \in Failures, NodeFails(error) PROVE IInv'
<1>1. TypeOK /\ Ordered /\ Reading /\ Ending /\ WholeAnswer
  BY DEF IInv
<1>2. /\ worker.at = "reading"
      /\ UNCHANGED <<valid, wire, connected, handler, beats, client, died>>
  BY DEF NodeFails
<1>3. worker.error = "none" /\ (connected /\ handler = "ended" /\ ~died => Spoilt')
  BY <1>1, <1>2 DEF Ending, Complete, Spoilt
<1>4. CASE FallsBack(error)
  <2>1. /\ worker'.at = "reading" /\ worker'.node = "local" /\ worker'.got = 0
        /\ worker'.error = "none" /\ worker.got = 0 /\ queue' = queue
        /\ worker' = [worker EXCEPT !.node = "local", !.got = 0]
    BY <1>1, <1>2, <1>3, <1>4 DEF NodeFails, FallsBack, TypeOK
  <2>2. All(wire) = 0 /\ (\A j \in DOMAIN wire : wire[j].kind # "chunk") /\ client.got = <<>>
    BY <2>1, NothingYet
  <2>3. TypeOK'
    <3>1. 0 \in 0 .. Chunks
      BY StreamAssumption
    <3> QED
      BY <1>1, <1>2, <2>1, <3>1 DEF TypeOK, Nodes
  <2>4. Ordered'
    <3>1. connected /\ handler # "ended" =>
              All(queue) = 0 /\ \A j \in DOMAIN queue : queue[j].kind # "chunk"
      BY <2>1, NothingQueued
    <3> QED
      BY <1>1, <1>2, <2>1, <2>2, <3>1 DEF Ordered, InOrder
  <2>5. Reading'
    <3>1. DOMAIN client.got = {}
      BY <2>2
    <3> QED
      BY <1>1, <1>2, <3>1 DEF Reading
  <2>6. Ending' /\ WholeAnswer'
    BY <1>1, <1>2, <1>3, <2>1 DEF Ending, WholeAnswer, Failures
  <2> QED
    BY <2>3, <2>4, <2>5, <2>6 DEF IInv
<1>5. CASE ~FallsBack(error)
  <2>1. /\ worker'.at = "finally" /\ worker'.node = worker.node /\ worker'.got = worker.got
        /\ worker'.error = error
        /\ worker' = [worker EXCEPT !.at = "finally", !.error = error]
    BY <1>1, <1>2, <1>5 DEF NodeFails, TypeOK
  <2>2. PICK event \in Line : event.kind \in {"api", "broken"} /\ queue' = Append(queue, event)
    <3>1. /\ Plain("broken") \in Line /\ Plain("broken").kind = "broken"
          /\ Plain("api") \in Line /\ Plain("api").kind = "api"
      BY LinesAre DEF Kinds
    <3> QED
      BY <1>5, <3>1 DEF NodeFails, Put
  <2>3. /\ queue' \in Seq(Line)
        /\ connected /\ handler # "ended" =>
              InOrder(queue', worker.node, All(wire)) /\ All(wire) + All(queue') = worker.got + 0
        /\ \A j \in DOMAIN queue' : queue'[j].kind \in {"chunk", "api", "broken", "done"}
        /\ Len(queue') \in DOMAIN queue' /\ queue'[Len(queue')] = event
        /\ \A j \in DOMAIN queue' : j = Len(queue') \/ (j \in DOMAIN queue /\ queue'[j] = queue[j])
    BY <2>2, PutKeeps
  <2>4. TypeOK'
    BY <1>1, <1>2, <2>1, <2>3 DEF TypeOK
  <2>5. Ordered'
    <3>1. worker.got + 0 = worker.got
      BY <1>1, TypesAre
    <3> QED
      BY <1>1, <1>2, <2>1, <2>3, <3>1 DEF Ordered
  <2>6. Reading'
    BY <1>1, <1>2, <2>1 DEF Reading
  <2>7. Ending'
    <3>1. connected /\ handler = "waiting" => \A j \in DOMAIN queue' : queue'[j].kind # "done"
      BY <1>1, <1>2, <2>2, <2>3 DEF Ending
    <3>2. \E j \in DOMAIN queue' : queue'[j].kind \in {"api", "broken"}
      BY <2>2, <2>3
    <3> QED
      BY <1>1, <1>2, <1>3, <2>1, <3>1, <3>2 DEF Ending, Failures
  <2>8. WholeAnswer'
    BY <1>1, <1>2, <1>3, <2>1 DEF WholeAnswer, Ending
  <2> QED
    BY <2>4, <2>5, <2>6, <2>7, <2>8 DEF IInv
<1> QED
  BY <1>4, <1>5

\* The end goes into the queue behind all chunks.
LEMMA WorkerEndsKeeps == ASSUME IInv, WorkerEnds PROVE IInv'
<1>1. TypeOK /\ Ordered /\ Reading /\ Ending /\ WholeAnswer
  BY DEF IInv
<1>2. /\ worker.at = "finally"
      /\ worker'.at = "ended" /\ worker'.node = worker.node /\ worker'.got = worker.got
      /\ worker'.error = worker.error
      /\ UNCHANGED <<valid, wire, connected, handler, beats, client, died>>
  BY <1>1 DEF WorkerEnds, TypeOK
<1>3. PICK event \in Line : event.kind = "done" /\ queue' = Append(queue, event)
  BY LinesAre DEF WorkerEnds, Put, Kinds
<1>4. /\ queue' \in Seq(Line)
      /\ connected /\ handler # "ended" =>
            InOrder(queue', worker.node, All(wire)) /\ All(wire) + All(queue') = worker.got + 0
      /\ \A j \in DOMAIN queue' : queue'[j].kind \in {"chunk", "api", "broken", "done"}
      /\ \A j \in DOMAIN queue : j \in DOMAIN queue' /\ queue'[j] = queue[j]
      /\ \A j \in DOMAIN queue' : j = Len(queue') \/ (j \in DOMAIN queue /\ queue'[j] = queue[j])
  BY <1>3, PutKeeps
<1>5. TypeOK'
  BY <1>1, <1>2, <1>4 DEF TypeOK, WorkerEnds
<1>6. Ordered'
  <2>1. worker.got + 0 = worker.got
    BY <1>1, TypesAre
  <2> QED
    BY <1>1, <1>2, <1>4, <2>1 DEF Ordered
<1>7. Reading'
  BY <1>1, <1>2 DEF Reading
<1>8. Ending'
  <2>1. connected /\ handler = "ended" /\ ~died => Spoilt'
    BY <1>1, <1>2 DEF Ending, Complete, Spoilt
  <2>2. connected /\ handler = "waiting" =>
            \A j \in DOMAIN queue' : queue'[j].kind = "done" => j = Len(queue')
    BY <1>1, <1>2, <1>4 DEF Ending
  <2>3. connected /\ handler = "waiting" /\ worker.error \in Failures =>
            \E j \in DOMAIN queue' : queue'[j].kind \in {"api", "broken"}
    BY <1>1, <1>4 DEF Ending
  <2>4. /\ handler' = "waiting" => worker'.at # "unborn"
        /\ worker'.at \in {"unborn", "reading"} => worker'.error = "none"
        /\ worker'.error = "none" /\ ~died' => worker'.got = Chunks
        /\ died' => handler' = "ended" /\ worker'.at = "ended"
        /\ connected' /\ handler' # "accepted" /\ ~died' => wire' # <<>>
    BY <1>1, <1>2 DEF Ending
  <2> QED
    BY <1>2, <2>1, <2>2, <2>3, <2>4 DEF Ending
<1>9. WholeAnswer'
  BY <1>1, <1>2 DEF WholeAnswer
<1> QED
  BY <1>5, <1>6, <1>7, <1>8, <1>9 DEF IInv

\* The client joins the lines in the order of the wire.
LEMMA ReadLineKeeps == ASSUME IInv, ReadLine PROVE IInv'
<1>1. TypeOK /\ Ordered /\ Reading /\ Ending /\ WholeAnswer
  BY DEF IInv
<1>2. /\ wire \in Seq(Line) /\ Len(wire) \in Nat /\ DOMAIN wire = 1 .. Len(wire)
      /\ client.read \in 0 .. Len(wire) /\ client.got \in Seq(Line)
  BY <1>1, TypesAre
<1>3. PICK k, line : k = client.read + 1 /\ line = Head(Unread)
  OBVIOUS
<1>4. k \in 1 .. Len(wire) /\ line = wire[k] /\ line \in Line
  <2>1. Unread # <<>>
    BY DEF ReadLine
  <2>2. k \in Nat \ {0} /\ (k <= Len(wire) \/ Unread = <<>>)
    BY <1>2, <1>3 DEF Unread
  <2>3. k \in 1 .. Len(wire)
    BY <1>2, <2>1, <2>2
  <2>4. line = wire[k]
    BY <1>2, <1>3, <2>3 DEF Unread
  <2> QED
    BY <1>2, <2>3, <2>4
<1>5. PICK fails \in BOOLEAN :
         /\ fails <=> line.kind = "error" \/ (line.kind = "head" /\ client.read > 0)
         /\ client' = [read |-> k,
                       got |-> IF line.kind = "chunk" THEN Append(client.got, line) ELSE client.got,
                       outcome |-> IF fails THEN "failed" ELSE "waiting"]
         /\ connected' = ~fails
  BY <1>3 DEF ReadLine
<1>6. /\ client.outcome = "waiting" /\ connected /\ client'.read = k
      /\ client'.got = IF line.kind = "chunk" THEN Append(client.got, line) ELSE client.got
      /\ client'.outcome \in {"failed", "waiting"} /\ (client'.outcome = "waiting" <=> ~fails)
      /\ (connected' <=> ~fails)
      /\ UNCHANGED <<valid, wire, handler, beats, queue, worker, died>>
  <2>1. client.outcome = "waiting" /\ UNCHANGED <<valid, wire, handler, beats, queue, worker, died>>
    BY DEF ReadLine
  <2>2. connected
    BY <1>1, <2>1 DEF Reading
  <2>3. /\ client'.read = k
        /\ client'.got = IF line.kind = "chunk" THEN Append(client.got, line) ELSE client.got
        /\ client'.outcome = IF fails THEN "failed" ELSE "waiting"
    BY <1>5
  <2>4. client'.outcome \in {"failed", "waiting"} /\ (client'.outcome = "waiting" <=> ~fails)
    BY <2>3
  <2> QED
    BY <1>5, <2>1, <2>2, <2>3, <2>4
<1>7. TypeOK'
  <2>1. client'.got \in Seq(Line)
    BY <1>2, <1>4, <1>6
  <2>2. k \in 0 .. Len(wire)
    BY <1>4
  <2>3. client' \in [read : 0 .. Len(wire), got : Seq(Line), outcome : {"waiting", "answered", "failed"}]
    BY <1>5, <1>6, <2>1, <2>2
  <2>4. connected' \in BOOLEAN
    BY <1>5
  <2> QED
    BY <1>1, <1>6, <2>3, <2>4 DEF TypeOK
<1>8. Ordered'
  BY <1>1, <1>6 DEF Ordered
<1>9. /\ Len(client.got) \in Nat /\ Len(client.got) = ChunksIn(wire, client.read)
      /\ ChunksIn(wire, k) = ChunksIn(wire, client.read) + IF line.kind = "chunk" THEN 1 ELSE 0
  <2>1. client.read \in Nat
    BY <1>2
  <2>2. ChunksIn(wire, client.read + 1)
            = ChunksIn(wire, client.read) + IF wire[client.read + 1].kind = "chunk" THEN 1 ELSE 0
    BY <2>1, CountIs
  <2> QED
    BY <1>1, <1>2, <1>3, <1>4, <2>2 DEF Reading
<1>10. Len(client'.got) = ChunksIn(wire, k) /\ \A i \in DOMAIN client'.got : client'.got[i] = Chunk(worker.node, i)
  <2>1. CASE line.kind = "chunk"
    <3>1. line = Chunk(worker.node, 0 + ChunksIn(wire, k))
      BY <1>1, <1>2, <1>4, <2>1 DEF Ordered, InOrder
    <3>2. line = Chunk(worker.node, Len(client.got) + 1)
      <4>1. 0 + ChunksIn(wire, k) = Len(client.got) + 1
        BY <1>9, <2>1
      <4> QED
        BY <3>1, <4>1
    <3>3. PICK got : got = client'.got /\ got = Append(client.got, line)
      BY <1>6, <2>1
    <3>4. /\ Len(got) = Len(client.got) + 1 /\ DOMAIN got = 1 .. Len(client.got) + 1
          /\ got[Len(client.got) + 1] = line
          /\ \A i \in 1 .. Len(client.got) : got[i] = client.got[i]
          /\ DOMAIN client.got = 1 .. Len(client.got)
      BY <1>2, <3>3
    <3>5. \A i \in 1 .. Len(client.got) : got[i] = Chunk(worker.node, i)
      BY <1>1, <3>4 DEF Reading
    <3>6. \A i \in DOMAIN got : got[i] = Chunk(worker.node, i)
      BY <1>9, <3>2, <3>4, <3>5
    <3> QED
      BY <1>9, <2>1, <3>3, <3>4, <3>6
  <2>2. CASE line.kind # "chunk"
    BY <1>1, <1>6, <1>9, <2>2 DEF Reading
  <2> QED
    BY <2>1, <2>2
<1>11. ~fails => \A j \in 1 .. k : wire[j].kind # "error" /\ (wire[j].kind = "head" => j = 1)
  <2>1. ASSUME ~fails, NEW j \in 1 .. k
        PROVE  wire[j].kind # "error" /\ (wire[j].kind = "head" => j = 1)
    <3>1. CASE j = k
      BY <1>2, <1>3, <1>4, <1>5, <2>1, <3>1
    <3>2. CASE j # k
      <4>1. j \in 1 .. client.read
        BY <1>2, <1>3, <3>2
      <4> QED
        BY <1>1, <1>6, <4>1 DEF Reading
    <3> QED
      BY <3>1, <3>2
  <2> QED
    BY <2>1
<1>12. Reading'
  BY <1>6, <1>10, <1>11 DEF Reading
<1>13. Ending'
  BY <1>1, <1>6 DEF Ending, Spoilt, Complete
<1>14. WholeAnswer'
  BY <1>6 DEF WholeAnswer
<1> QED
  BY <1>7, <1>8, <1>12, <1>13, <1>14 DEF IInv

\* The client stops at the end of the wire.
LEMMA ReadEndKeeps == ASSUME IInv, ReadEnd PROVE IInv'
<1>1. TypeOK /\ Ordered /\ Reading /\ Ending /\ WholeAnswer
  BY DEF IInv
<1>2. /\ wire \in Seq(Line) /\ Len(wire) \in Nat /\ client.read \in 0 .. Len(wire)
      /\ client.got \in Seq(Line)
  BY <1>1, TypesAre
<1>3. /\ client.outcome = "waiting" /\ connected /\ Unread = <<>> /\ handler = "ended"
      /\ client'.read = client.read /\ client'.got = client.got
      /\ client'.outcome \in {"failed", "answered"}
      /\ ~connected' /\ UNCHANGED <<valid, wire, handler, beats, queue, worker, died>>
  BY <1>1 DEF ReadEnd, Reading, TypeOK
<1>4. client.read = Len(wire)
  <2>1. client.read + 1 \in Nat /\ (client.read < Len(wire) => Len(Unread) # 0)
    BY <1>2 DEF Unread
  <2> QED
    BY <1>2, <1>3, <2>1
<1>5. TypeOK'
  BY <1>1, <1>3 DEF TypeOK, ReadEnd
<1>6. Ordered' /\ Reading'
  BY <1>1, <1>3 DEF Ordered, Reading
<1>7. WholeAnswer' /\ Ending'
  <2>1. SUFFICES ASSUME ~died
                 PROVE  /\ worker.at = "ended" /\ worker.error \notin Failures
                        /\ Len(client.got) = worker.got
                        /\ worker.error = "none" => worker.got = Chunks
    BY <1>1, <1>3 DEF WholeAnswer, Ending
  <2>2. ~Spoilt
    <3>1. wire # <<>> => Len(wire) \in 1 .. client.read
      BY <1>2, <1>4
    <3> QED
      BY <1>1, <1>2, <1>3, <3>1 DEF Reading, Spoilt
  <2>3. Complete
    BY <1>1, <1>3, <2>1, <2>2 DEF Ending
  <2>4. Len(client.got) = worker.got
    BY <1>1, <1>4, <2>3 DEF Reading, All, Complete
  <2> QED
    BY <1>1, <2>1, <2>3, <2>4 DEF Ending, Complete
<1> QED
  BY <1>5, <1>6, <1>7 DEF IInv

\* A client that left is told nothing more.
LEMMA LeaveKeeps == ASSUME IInv, Leave PROVE IInv'
<1>1. TypeOK /\ Ordered /\ Reading /\ Ending /\ WholeAnswer
  BY DEF IInv
<1>2. /\ client'.read = client.read /\ client'.got = client.got /\ client'.outcome = "failed"
      /\ ~connected' /\ UNCHANGED <<valid, wire, handler, beats, queue, worker, died>>
  BY <1>1 DEF Leave, TypeOK
<1>3. TypeOK'
  BY <1>1, <1>2 DEF TypeOK, Leave
<1>4. Ordered' /\ Reading' /\ Ending' /\ WholeAnswer'
  BY <1>1, <1>2 DEF Ordered, Reading, Ending, WholeAnswer
<1> QED
  BY <1>3, <1>4 DEF IInv

\* A server that dies writes nothing more.
LEMMA ServerDiesKeeps == ASSUME IInv, ServerDies PROVE IInv'
<1>1. TypeOK /\ Ordered /\ Reading /\ Ending /\ WholeAnswer
  BY DEF IInv
<1>2. /\ died' /\ handler' = "ended" /\ worker'.at = "ended" /\ worker'.node = worker.node
      /\ worker'.got = worker.got /\ worker'.error = worker.error
      /\ UNCHANGED <<valid, wire, connected, beats, queue, client>>
  BY <1>1 DEF ServerDies, TypeOK
<1>3. TypeOK'
  BY <1>1, <1>2 DEF TypeOK, ServerDies
<1>4. Ordered' /\ Reading' /\ Ending' /\ WholeAnswer'
  BY <1>1, <1>2 DEF Ordered, Reading, Ending, WholeAnswer
<1> QED
  BY <1>3, <1>4 DEF IInv

\* Every step keeps the invariant.
LEMMA Inductive == IInv /\ [Next]_vars => IInv'
<1> SUFFICES ASSUME IInv, [Next]_vars
             PROVE  IInv'
  OBVIOUS
<1>1. CASE Handler
  BY <1>1, SendHeadKeeps, ValidateKeeps, StartWorkerKeeps, HeartbeatKeeps, TakeEventKeeps DEF Handler
<1>2. CASE Worker
  BY <1>2, NodeChunkKeeps, NodeDoneKeeps, NodeStopsShortKeeps, NodeErrorLineKeeps,
     NodeFailsKeeps, WorkerEndsKeeps
     DEF Worker
<1>3. CASE Reads
  BY <1>3, ReadLineKeeps, ReadEndKeeps DEF Reads
<1>4. CASE Leave
  BY <1>4, LeaveKeeps
<1>5. CASE ServerDies
  BY <1>5, ServerDiesKeeps
<1>6. CASE UNCHANGED vars
  BY <1>6 DEF vars, IInv, TypeOK, Ordered, Reading, Ending, WholeAnswer, Spoilt, Complete
<1> QED
  BY <1>1, <1>2, <1>3, <1>4, <1>5, <1>6 DEF Next, Ended

----------------------------------------------------------------------------
(* The theorems                                                            *)

\* The invariant holds throughout.
LEMMA Invariant == Spec => []IInv
  BY InvInit, Inductive, PTL DEF Spec

\* The handler, the worker and the client only ever hold the values of TypeOK.
THEOREM TypeCorrect == Spec => []TypeOK
<1>1. IInv => TypeOK
  BY DEF IInv
<1> QED
  BY <1>1, Invariant, PTL

\* A client has the beginning of one node's reply, however many chunks it has,
\* wherever the node fails and whatever the local one takes over.
THEOREM ReadsOneReply == Spec => []OneReply
<1>1. IInv => OneReply
  <2>1. SUFFICES ASSUME IInv, NEW i \in DOMAIN client.got
                 PROVE  client.got[i] = Chunk(client.got[1].node, i)
    BY DEF OneReply
  <2>2. TypeOK /\ Reading
    BY <2>1 DEF IInv
  <2>3. 1 \in DOMAIN client.got
    BY <2>1, <2>2, TypesAre
  <2>4. client.got[i] = Chunk(worker.node, i) /\ client.got[1] = Chunk(worker.node, 1)
    BY <2>1, <2>2, <2>3 DEF Reading
  <2> QED
    BY <2>4 DEF Chunk
<1> QED
  BY <1>1, Invariant, PTL

\* What a client goes on with is all the worker has read, however long the reply and
\* whatever raises on the way: only a server that died, and a node that ended its body
\* itself, by an object that tells an error or without one, leave a part as the answer.
THEOREM AnswersAreWhole == Spec => []WholeAnswer
<1>1. IInv => WholeAnswer
  BY DEF IInv
<1> QED
  BY <1>1, Invariant, PTL
=============================================================================
