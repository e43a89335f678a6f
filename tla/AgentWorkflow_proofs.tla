------------------------- MODULE AgentWorkflow_proofs -------------------------
(***************************************************************************)
(* What is proved of AgentWorkflow for every value of its constants: its   *)
(* type invariant, that no request is made of the model with a call left   *)
(* unanswered and every run leaves a conversation the next one can find,   *)
(* that nothing is written after the step limit, and what a trim keeps.    *)
(***************************************************************************)
EXTENDS AgentWorkflow, FiniteSetTheorems, SequenceTheorems, WellFoundedInduction, TLAPS

----------------------------------------------------------------------------
(* Least and greatest elements                                             *)

\* Min is what its name says on the natural numbers.
LEMMA MinIsLeast ==
    ASSUME NEW S \in SUBSET Nat, S # {}
    PROVE  Min(S) \in S /\ \A y \in S : Min(S) <= y
<1> DEFINE R == StrictSubsetOrdering(Nat)
           F == FiniteSubsetsOf(Nat)
           T == {0 .. x : x \in S}
<1>1. IsWellFoundedOn(R, F)
  BY FS_StrictSubsetOrderingWellFounded
<1>2. T \subseteq F /\ T # {}
  <2>1. ASSUME NEW x \in S
        PROVE  0 .. x \in F
    <3>1. IsFiniteSet(0 .. x) /\ 0 .. x \in SUBSET Nat
      BY FS_Interval
    <3> QED
      BY <3>1 DEF FiniteSubsetsOf
  <2> QED
    BY <2>1
<1>3. PICK t \in T : \A u \in T : <<u, t>> \notin R
  <2> HIDE DEF R, F, T
  <2> QED
    BY <1>1, <1>2, WFMin
<1>4. PICK x \in S : t = 0 .. x
  OBVIOUS
<1>5. ASSUME NEW y \in S
      PROVE  x <= y
  <2>1. SUFFICES ASSUME y < x
                 PROVE  FALSE
    OBVIOUS
  <2>2. 0 .. y \in T /\ 0 .. y \subseteq 0 .. x /\ 0 .. x \in SUBSET Nat /\ 0 .. y \in SUBSET Nat
    BY <2>1
  <2>3. x \in 0 .. x /\ x \notin 0 .. y
    BY <2>1
  <2>4. <<0 .. y, 0 .. x>> \in R
    BY <2>2, <2>3 DEF StrictSubsetOrdering
  <2> QED
    BY <1>3, <1>4, <2>2, <2>4
<1> QED
  BY <1>5 DEF Min

\* Max is what its name says on a bounded set of numbers.
LEMMA MaxIsGreatest ==
    ASSUME NEW n \in Nat, NEW S \in SUBSET (1 .. n), S # {}
    PROVE  Max(S) \in S /\ \A y \in S : y <= Max(S)
<1> DEFINE T == {m \in 0 .. n : n - m \in S}
<1>1. T # {} /\ T \in SUBSET Nat
  <2>1. PICK y \in 1 .. n : y \in S
    OBVIOUS
  <2>2. n - y \in 0 .. n /\ n - (n - y) = y
    BY <2>1
  <2>3. n - y \in T
    BY <2>1, <2>2
  <2>4. T \in SUBSET Nat
    OBVIOUS
  <2> HIDE DEF T
  <2> QED
    BY <2>3, <2>4
<1>2. PICK m \in T : \A k \in T : m <= k
  BY <1>1, MinIsLeast
<1>3. \A y \in S : y <= n - m
  <2>1. ASSUME NEW y \in S
        PROVE  y <= n - m
    <3>1. n - y \in 0 .. n /\ n - (n - y) = y
      OBVIOUS
    <3>2. m <= n - y
      BY <1>2, <3>1
    <3> QED
      BY <3>2
  <2> QED
    BY <2>1
<1>4. \E x \in S : \A y \in S : x >= y
  BY <1>2, <1>3
<1> QED
  BY <1>4 DEF Max

----------------------------------------------------------------------------
(* Results                                                                 *)

\* Where the results of a reply's calls stand: one more for each call with a
\* name, none for one without.
LEMMA ResultsAre ==
    ASSUME NEW cs, NEW k \in Nat
    PROVE  /\ Results(cs, k) \in 0 .. k
           /\ Results(cs, 0) = 0
           /\ Results(cs, k + 1) = Results(cs, k) + IF cs[k + 1] # NoName THEN 1 ELSE 0
           /\ \A j \in 0 .. k : Results(cs, j) <= Results(cs, k)
<1> DEFINE Named(j) == {m \in 1 .. j : cs[m] # NoName}
<1>1. ASSUME NEW j \in Nat
      PROVE  IsFiniteSet(Named(j)) /\ Cardinality(Named(j)) \in 0 .. j
  <2>1. IsFiniteSet(1 .. j) /\ Cardinality(1 .. j) = j
    BY FS_Interval
  <2> QED
    BY <2>1, FS_Subset, FS_CardinalityType
<1>2. Results(cs, 0) = 0
  BY FS_EmptySet DEF Results
<1>3. Results(cs, k + 1) = Results(cs, k) + IF cs[k + 1] # NoName THEN 1 ELSE 0
  <2>1. CASE cs[k + 1] # NoName
    <3>1. Named(k + 1) = Named(k) \cup {k + 1} /\ k + 1 \notin Named(k)
      BY <2>1
    <3>2. Cardinality(Named(k + 1)) = Cardinality(Named(k)) + 1
      BY <1>1, <3>1, FS_AddElement
    <3> QED
      BY <2>1, <3>2 DEF Results
  <2>2. CASE cs[k + 1] = NoName
    <3>1. Named(k + 1) = Named(k)
      BY <2>2
    <3> QED
      BY <1>1, <2>2, <3>1 DEF Results
  <2> QED
    BY <2>1, <2>2
<1>4. ASSUME NEW j \in 0 .. k
      PROVE  Results(cs, j) <= Results(cs, k)
  <2>1. Named(j) \in SUBSET Named(k)
    OBVIOUS
  <2> QED
    BY <1>1, <2>1, FS_Subset DEF Results
<1> QED
  BY <1>1, <1>2, <1>3, <1>4 DEF Results

----------------------------------------------------------------------------
(* Conversations                                                           *)

\* The calls of the i-th message have their results.
AnswersAt(ms, i) ==
    \A k \in DOMAIN ms[i].calls : ms[i].calls[k] # NoName =>
        LET at == i + Results(ms[i].calls, k)
        IN  at \in DOMAIN ms /\ ms[at].role = "tool" /\ ms[at].tool = ms[i].calls[k]

\* What is asked of the head of a conversation.
GoodHead(ms) ==
    /\ ms # <<>> /\ Head(ms).role = "assistant" => Head(ms).calls = <<>>
    /\ ms # <<>> /\ Head(ms).text = "summary" => Head(ms).role = "assistant"

\* A conversation, message by message.
LEMMA ConversationIs ==
    ASSUME NEW ms
    PROVE  Conversation(ms) <=> /\ ms \in Seq(Message) /\ Attached(ms) /\ GoodHead(ms)
                                /\ \A i \in DOMAIN ms : AnswersAt(ms, i)
  BY DEF Conversation, Answered, AnswersAt, GoodHead

\* What the code appends are messages.
LEMMA MessagesAre ==
    /\ \A t \in Texts : User(t) \in Message
    /\ \A t \in Texts, c \in Seq(Tools \cup {NoName}) : Assistant(t, c) \in Message
    /\ \A n \in Tools \cup {NoName} : ToolResult(n) \in Message
<1>1. <<>> \in Seq(Tools \cup {NoName})
  OBVIOUS
<1> QED
  BY <1>1 DEF Message, User, Assistant, ToolResult, Roles, Texts

\* Where the messages of a longer conversation are.
LEMMA JoinIs ==
    ASSUME NEW ms \in Seq(Message), NEW rs \in Seq(Message)
    PROVE  /\ ms \o rs \in Seq(Message) /\ Len(ms \o rs) = Len(ms) + Len(rs)
           /\ DOMAIN (ms \o rs) = 1 .. Len(ms) + Len(rs)
           /\ \A i \in 1 .. Len(ms) : (ms \o rs)[i] = ms[i]
           /\ \A i \in 1 .. Len(rs) : (ms \o rs)[Len(ms) + i] = rs[i]
           /\ \A i \in Len(ms) + 1 .. Len(ms) + Len(rs) : (ms \o rs)[i] = rs[i - Len(ms)]
           /\ ms # <<>> => Head(ms \o rs) = Head(ms)
           /\ ms = <<>> /\ rs # <<>> => Head(ms \o rs) = Head(rs)
  OBVIOUS

\* One message behind another, or behind none.
LEMMA PairIs ==
    ASSUME NEW S, NEW x \in S, NEW y \in S
    PROVE  /\ LET s == <<x>> \o <<y>>
              IN  /\ s \in Seq(S) /\ s # <<>> /\ Head(s) = x
                  /\ DOMAIN s = 1 .. 2 /\ s[1] = x /\ s[2] = y
           /\ LET s == <<>> \o <<y>>
              IN  /\ s \in Seq(S) /\ s # <<>> /\ Head(s) = y
                  /\ DOMAIN s = 1 .. 1 /\ s[1] = y
<1> PICK a : a = <<x>>
  OBVIOUS
<1> PICK b : b = <<y>>
  OBVIOUS
<1>1. a \in Seq(S) /\ b \in Seq(S) /\ Len(a) = 1 /\ Len(b) = 1 /\ a[1] = x /\ b[1] = y
  OBVIOUS
<1>2. a \o b \in Seq(S) /\ Len(a \o b) = 2 /\ (a \o b)[1] = x /\ (a \o b)[2] = y
  BY <1>1
<1>3. Head(a \o b) = x /\ a \o b # <<>> /\ DOMAIN (a \o b) = 1 .. 2
  BY <1>2
<1>4. <<>> \o b = b
  BY <1>1, ConcatEmptySeq
<1> QED
  BY <1>1, <1>2, <1>3, <1>4

\* Messages without calls can follow a conversation, and results among them
\* when a reply or a result goes before.
LEMMA JoinKeeps ==
    ASSUME NEW ms, Conversation(ms), NEW rs \in Seq(Message),
           \A i \in DOMAIN rs : rs[i].calls = <<>> /\ rs[i].text # "summary",
           \A i \in DOMAIN rs : rs[i].role = "tool" =>
               IF i = 1 THEN ms # <<>> /\ (ms[Len(ms)].role = "tool" \/ ms[Len(ms)].text = "reply")
                        ELSE rs[i - 1].role = "tool" \/ rs[i - 1].text = "reply"
    PROVE  Conversation(ms \o rs)
<1> DEFINE all == ms \o rs
<1>1. ms \in Seq(Message) /\ Attached(ms) /\ GoodHead(ms) /\ \A i \in DOMAIN ms : AnswersAt(ms, i)
  BY ConversationIs
<1>2. /\ all \in Seq(Message) /\ DOMAIN all = 1 .. Len(ms) + Len(rs)
      /\ \A i \in 1 .. Len(ms) : all[i] = ms[i]
      /\ \A i \in Len(ms) + 1 .. Len(ms) + Len(rs) : all[i] = rs[i - Len(ms)]
      /\ ms # <<>> => Head(all) = Head(ms)
      /\ ms = <<>> /\ rs # <<>> => Head(all) = Head(rs)
  BY <1>1, JoinIs
<1>3. DOMAIN ms = 1 .. Len(ms) /\ DOMAIN rs = 1 .. Len(rs) /\ Len(ms) \in Nat /\ Len(rs) \in Nat
  BY <1>1
<1> HIDE DEF all
<1>4. ASSUME NEW i \in DOMAIN all
      PROVE  AnswersAt(all, i)
  <2>1. CASE i \in 1 .. Len(ms)
    BY <1>1, <1>2, <1>3, <2>1 DEF AnswersAt
  <2>2. CASE i \in Len(ms) + 1 .. Len(ms) + Len(rs)
    <3>1. i - Len(ms) \in DOMAIN rs
      BY <1>3, <2>2
    <3>2. all[i].calls = <<>>
      BY <1>2, <2>2, <3>1
    <3> QED
      BY <3>2 DEF AnswersAt
  <2> QED
    BY <1>2, <1>3, <2>1, <2>2
<1>5. Attached(all)
  <2>1. SUFFICES ASSUME NEW i \in DOMAIN all, all[i].role = "tool"
                 PROVE  i > 1 /\ (all[i - 1].role = "tool" \/ all[i - 1].text = "reply")
    BY DEF Attached
  <2>2. CASE i \in 1 .. Len(ms)
    <3>1. i > 1 /\ (ms[i - 1].role = "tool" \/ ms[i - 1].text = "reply")
      BY <1>1, <1>2, <1>3, <2>1, <2>2 DEF Attached
    <3> QED
      BY <1>2, <1>3, <2>2, <3>1
  <2>3. CASE i = Len(ms) + 1
    <3>1. 1 \in DOMAIN rs /\ rs[1].role = "tool"
      BY <1>2, <1>3, <2>1, <2>3
    <3>2. ms # <<>> /\ (ms[Len(ms)].role = "tool" \/ ms[Len(ms)].text = "reply")
      BY <3>1
    <3>3. Len(ms) \in 1 .. Len(ms)
      BY <1>1, <3>2
    <3> QED
      BY <1>2, <1>3, <2>3, <3>2, <3>3
  <2>4. CASE i \in Len(ms) + 2 .. Len(ms) + Len(rs)
    <3>1. /\ i - Len(ms) \in DOMAIN rs /\ i - Len(ms) # 1
          /\ i \in Len(ms) + 1 .. Len(ms) + Len(rs) /\ i - 1 \in Len(ms) + 1 .. Len(ms) + Len(rs)
          /\ i > 1 /\ (i - 1) - Len(ms) = (i - Len(ms)) - 1
      BY <1>3, <2>4
    <3>2. rs[i - Len(ms)].role = "tool"
      BY <1>2, <2>1, <3>1
    <3>3. rs[(i - Len(ms)) - 1].role = "tool" \/ rs[(i - Len(ms)) - 1].text = "reply"
      BY <3>1, <3>2
    <3> QED
      BY <1>2, <3>1, <3>3
  <2> QED
    BY <1>2, <1>3, <2>2, <2>3, <2>4
<1>6. GoodHead(all)
  <2>1. CASE ms # <<>>
    <3>1. all # <<>>
      BY <1>1, <1>2, <1>3, <2>1
    <3> QED
      BY <1>1, <1>2, <2>1, <3>1 DEF GoodHead
  <2>2. CASE ms = <<>> /\ rs # <<>>
    <3>1. Head(rs) = rs[1] /\ 1 \in DOMAIN rs
      BY <2>2
    <3>2. Head(all).calls = <<>> /\ Head(all).text # "summary"
      BY <1>2, <2>2, <3>1
    <3> QED
      BY <3>2 DEF GoodHead
  <2>3. CASE ms = <<>> /\ rs = <<>>
    <3>1. all = <<>>
      BY <1>2, <2>3
    <3> QED
      BY <3>1 DEF GoodHead
  <2> QED
    BY <2>1, <2>2, <2>3
<1>7. Conversation(all)
  BY <1>2, <1>4, <1>5, <1>6, ConversationIs
<1> QED
  BY <1>7 DEF all

\* The same for one message.
LEMMA AppendKeeps ==
    ASSUME NEW ms, Conversation(ms), NEW m \in Message, m.calls = <<>>, m.text # "summary",
           m.role # "tool"
    PROVE  Conversation(Append(ms, m))
<1>1. ms \in Seq(Message)
  BY ConversationIs
<1>2. Append(ms, m) = ms \o <<m>>
  BY <1>1
<1>3. <<m>> \in Seq(Message) /\ DOMAIN <<m>> = {1} /\ <<m>>[1] = m
  OBVIOUS
<1>4. Conversation(ms \o <<m>>)
  BY <1>3, JoinKeeps
<1> QED
  BY <1>2, <1>4

----------------------------------------------------------------------------
(* Trimming                                                                *)

\* Behind messages without calls a conversation can go on from any prompt of
\* another: no reply is cut off from its results.
LEMMA CutKeeps ==
    ASSUME NEW ms, Conversation(ms), NEW k \in UserTurns(ms),
           NEW front \in Seq(Message), front # <<>>, GoodHead(front),
           \A i \in DOMAIN front : front[i].calls = <<>> /\ front[i].role # "tool"
    PROVE  Conversation(front \o SubSeq(ms, k, Len(ms)))
<1> DEFINE rest == SubSeq(ms, k, Len(ms))
           all  == front \o rest
           off  == k - 1 - Len(front)
<1>1. ms \in Seq(Message) /\ Attached(ms) /\ \A i \in DOMAIN ms : AnswersAt(ms, i)
  BY ConversationIs
<1>2. k \in 1 .. Len(ms) /\ ms[k].role = "user" /\ DOMAIN ms = 1 .. Len(ms) /\ Len(ms) \in Nat
  BY <1>1 DEF UserTurns
<1>3. /\ rest \in Seq(Message) /\ Len(rest) = Len(ms) - k + 1
      /\ \A i \in 1 .. Len(ms) - k + 1 : rest[i] = ms[k + i - 1]
  BY <1>1, <1>2, SubSeqProperties
<1>4. /\ all \in Seq(Message) /\ DOMAIN all = 1 .. Len(front) + Len(rest)
      /\ \A i \in 1 .. Len(front) : all[i] = front[i]
      /\ \A i \in Len(front) + 1 .. Len(front) + Len(rest) : all[i] = rest[i - Len(front)]
      /\ Head(all) = Head(front)
  BY <1>3, JoinIs
<1>5. DOMAIN front = 1 .. Len(front) /\ Len(front) \in Nat
  OBVIOUS
<1> HIDE DEF rest, all
<1>6. /\ DOMAIN all = 1 .. Len(ms) - off
      /\ \A i \in Len(front) + 1 .. Len(ms) - off : i + off \in k .. Len(ms) /\ all[i] = ms[i + off]
  <2>1. Len(front) + Len(rest) = Len(ms) - off
    BY <1>2, <1>3, <1>5
  <2>2. ASSUME NEW i \in Len(front) + 1 .. Len(ms) - off
        PROVE  i + off \in k .. Len(ms) /\ all[i] = ms[i + off]
    <3>1. i - Len(front) \in 1 .. Len(ms) - k + 1 /\ k + (i - Len(front)) - 1 = i + off
      BY <1>2, <1>5
    <3>2. all[i] = rest[i - Len(front)]
      BY <1>4, <2>1
    <3>3. rest[i - Len(front)] = ms[i + off]
      BY <1>3, <3>1
    <3>4. i + off \in k .. Len(ms)
      BY <1>2, <1>5
    <3> QED
      BY <3>2, <3>3, <3>4
  <2> QED
    BY <1>4, <2>1, <2>2
<1>7. ASSUME NEW i \in DOMAIN all
      PROVE  AnswersAt(all, i)
  <2>1. CASE i \in 1 .. Len(front)
    BY <1>4, <1>5, <2>1 DEF AnswersAt
  <2>2. CASE i \in Len(front) + 1 .. Len(ms) - off
    <3> DEFINE cs == ms[i + off].calls
    <3>1. all[i].calls = cs /\ i + off \in DOMAIN ms
      BY <1>2, <1>6, <2>2
    <3>2. AnswersAt(ms, i + off)
      BY <1>1, <3>1
    <3>3. SUFFICES ASSUME NEW n \in DOMAIN cs, cs[n] # NoName
                   PROVE  LET at == i + Results(cs, n)
                          IN  at \in DOMAIN all /\ all[at].role = "tool" /\ all[at].tool = cs[n]
      BY <3>1 DEF AnswersAt
    <3>4. cs \in Seq(Tools \cup {NoName})
      <4>1. ms[i + off] \in Message
        BY <1>1, <3>1
      <4> QED
        BY <4>1 DEF Message
    <3>5. n \in Nat
      BY <3>4
    <3>6. Results(cs, n) \in Nat
      BY <3>5, ResultsAre
    <3>7. /\ i + off + Results(cs, n) \in DOMAIN ms
          /\ ms[i + off + Results(cs, n)].role = "tool"
          /\ ms[i + off + Results(cs, n)].tool = cs[n]
      BY <3>2, <3>3 DEF AnswersAt
    <3> HIDE DEF cs
    <3>8. /\ i + Results(cs, n) \in Len(front) + 1 .. Len(ms) - off
          /\ i + Results(cs, n) + off = i + off + Results(cs, n)
      BY <1>2, <1>5, <2>2, <3>6, <3>7
    <3>9. i + Results(cs, n) \in DOMAIN all
      BY <1>2, <1>5, <1>6, <3>8
    <3> QED
      BY <1>6, <3>7, <3>8, <3>9
  <2> QED
    BY <1>2, <1>5, <1>6, <2>1, <2>2
<1>8. Attached(all)
  <2>1. SUFFICES ASSUME NEW i \in DOMAIN all, all[i].role = "tool"
                 PROVE  i > 1 /\ (all[i - 1].role = "tool" \/ all[i - 1].text = "reply")
    BY DEF Attached
  <2>2. i \in Len(front) + 1 .. Len(ms) - off
    BY <1>2, <1>4, <1>5, <1>6, <2>1
  <2>3. i + off \in k .. Len(ms) /\ ms[i + off].role = "tool"
    BY <1>6, <2>1, <2>2
  <2>4. i + off > k
    BY <1>2, <2>3
  <2>5. i - 1 \in Len(front) + 1 .. Len(ms) - off /\ (i - 1) + off = (i + off) - 1 /\ i > 1
    BY <1>2, <1>5, <2>2, <2>4
  <2>6. ms[(i + off) - 1].role = "tool" \/ ms[(i + off) - 1].text = "reply"
    BY <1>1, <1>2, <2>3 DEF Attached
  <2> QED
    BY <1>6, <2>5, <2>6
<1>9. GoodHead(all)
  <2>1. all # <<>>
    BY <1>4, <1>5
  <2> QED
    BY <1>4, <2>1 DEF GoodHead
<1>10. Conversation(all)
  BY <1>4, <1>7, <1>8, <1>9, ConversationIs
<1> QED
  BY <1>10 DEF all, rest

\* The turns of a conversation from a position on.
TurnsFrom(ms, i) == {j \in UserTurns(ms) : j >= i}

\* The turns after a place are finitely many.
LEMMA TurnsAreFinite ==
    ASSUME NEW ms \in Seq(Message), NEW i \in Nat
    PROVE  /\ TurnsFrom(ms, i) \subseteq 1 .. Len(ms) /\ IsFiniteSet(TurnsFrom(ms, i))
           /\ Cardinality(TurnsFrom(ms, i)) \in Nat
<1>1. IsFiniteSet(1 .. Len(ms)) /\ TurnsFrom(ms, i) \subseteq 1 .. Len(ms)
  BY FS_Interval DEF TurnsFrom, UserTurns
<1> QED
  BY <1>1, FS_Subset, FS_CardinalityType

\* The pinned head is no turn: the turns of the rest are those of the whole.
LEMMA BodyTurns ==
    ASSUME NEW ms \in Seq(Message), NEW p \in 0 .. 1, p <= Len(ms),
           p = 1 => ms[1].role # "user", NEW i \in Nat, i > 0
    PROVE  LET body == SubSeq(ms, p + 1, Len(ms))
           IN  /\ body \in Seq(Message) /\ Len(body) = Len(ms) - p
               /\ UserTurns(body) = {j \in 1 .. Len(ms) - p : j + p \in UserTurns(ms)}
               /\ Cardinality(TurnsFrom(body, i)) = Cardinality(TurnsFrom(ms, i + p))
<1> DEFINE body == SubSeq(ms, p + 1, Len(ms))
           A == TurnsFrom(body, i)
           B == TurnsFrom(ms, i + p)
           f == [j \in A |-> j + p]
<1>1. /\ body \in Seq(Message) /\ Len(body) = Len(ms) - p
      /\ \A j \in 1 .. Len(ms) - p : body[j] = ms[j + p]
  OBVIOUS
<1> HIDE DEF body
<1>2. UserTurns(body) = {j \in 1 .. Len(ms) - p : j + p \in UserTurns(ms)}
  <2>1. DOMAIN body = 1 .. Len(ms) - p /\ DOMAIN ms = 1 .. Len(ms) /\ Len(ms) \in Nat
    BY <1>1
  <2>2. \A j \in 1 .. Len(ms) - p : j + p \in 1 .. Len(ms)
    BY <2>1
  <2> QED
    BY <1>1, <2>1, <2>2 DEF UserTurns
<1>3. A = {j \in 1 .. Len(ms) - p : j + p \in UserTurns(ms) /\ j >= i}
  BY <1>2 DEF TurnsFrom
<1>4. f \in [A -> B]
  <2>1. ASSUME NEW j \in A
        PROVE  j + p \in B
    BY <1>3 DEF TurnsFrom
  <2> QED
    BY <2>1
<1>5. \A x, y \in A : f[x] = f[y] => x = y
  <2>1. A \subseteq Int
    BY <1>3
  <2> QED
    BY <2>1
<1>6. ASSUME NEW y \in B
      PROVE  \E x \in A : f[x] = y
  <2>1. y \in 1 .. Len(ms) /\ y \in UserTurns(ms) /\ y >= i + p
    BY DEF TurnsFrom, UserTurns
  <2>2. y - p \in 1 .. Len(ms) - p /\ (y - p) + p = y /\ y - p >= i
    BY <2>1
  <2>3. y - p \in A
    BY <1>3, <2>1, <2>2
  <2> QED
    BY <2>2, <2>3
<1>7. f \in Bijection(A, B)
  BY <1>4, <1>5, <1>6 DEF Bijection, Injection, Surjection, IsInjective
<1>8. IsFiniteSet(A) /\ ExistsBijection(A, B)
  BY <1>1, <1>7, TurnsAreFinite DEF ExistsBijection
<1>9. Cardinality(B) = Cardinality(A)
  BY <1>8, FS_Bijection
<1> QED
  BY <1>1, <1>2, <1>9 DEF body

Note == Assistant("note", <<>>)

\* The end of an end is an end.
LEMMA EndOfEnd ==
    ASSUME NEW S, NEW ms \in Seq(S), NEW p \in Nat, NEW k \in 1 .. Len(ms) - p
    PROVE  SubSeq(SubSeq(ms, p + 1, Len(ms)), k, Len(ms) - p) = SubSeq(ms, k + p, Len(ms))
<1>1. Len(ms) \in Nat
  BY LenProperties
<1> DEFINE n == Len(ms)
<1> HIDE DEF n
<1>2. n \in Nat
  BY <1>1 DEF n
<1>3. PICK i : i = p + 1
  OBVIOUS
<1>4. /\ i \in 1 .. Len(ms) /\ n \in 1 .. Len(ms)
      /\ k \in 1 .. n - i + 1 /\ n - p \in 1 .. n - i + 1
  BY <1>1, <1>3 DEF n
<1>5. SubSeq(SubSeq(ms, i, n), k, n - p) = SubSeq(ms, i + k - 1, i + (n - p) - 1)
  BY <1>4, SubSeqOfSubSeq
<1>6. i + k - 1 = k + p /\ i + (n - p) - 1 = n
  BY <1>2, <1>3
<1> QED
  BY <1>3, <1>5, <1>6 DEF n

\* A trim keeps everything, or the pinned head, the note and all from a turn
\* with at least MinTurns turns left.
LEMMA TrimIs ==
    ASSUME NEW ms, Conversation(ms), Trim(ms) # ms
    PROVE  \E k \in UserTurns(ms) :
               /\ Trim(ms) = Pinned(ms) \o <<Note>> \o SubSeq(ms, k, Len(ms))
               /\ Cardinality(TurnsFrom(ms, k)) >= MinTurns
<1> DEFINE P == Pinned(ms)
           p == Len(P)
           body == SubSeq(ms, p + 1, Len(ms))
           from(i) == SubSeq(body, i, Len(body))
           fits == {i \in Cuts(body) : Tokens(P \o from(i)) <= Threshold}
           keep == IF fits # {} THEN Min(fits) ELSE Max(Cuts(body))
<1>1. ms \in Seq(Message)
  BY ConversationIs
<1>2. p \in 0 .. 1 /\ p <= Len(ms) /\ (p = 1 => ms[1].role # "user")
  <2>1. CASE ms # <<>> /\ Head(ms).role = "assistant"
    <3>1. P = <<Head(ms)>> /\ Len(ms) >= 1 /\ Head(ms) = ms[1]
      BY <1>1, <2>1 DEF Pinned
    <3> QED
      BY <2>1, <3>1
  <2>2. CASE ~(ms # <<>> /\ Head(ms).role = "assistant")
    <3>1. P = <<>>
      BY <2>2 DEF Pinned
    <3> QED
      BY <1>1, <3>1
  <2> QED
    BY <2>1, <2>2
<1>3. /\ body \in Seq(Message) /\ Len(body) = Len(ms) - p
      /\ UserTurns(body) = {j \in 1 .. Len(ms) - p : j + p \in UserTurns(ms)}
      /\ \A i \in Nat \ {0} : Cardinality(TurnsFrom(body, i)) = Cardinality(TurnsFrom(ms, i + p))
  <2> HIDE DEF P
  <2>1. ASSUME NEW i \in Nat \ {0}
        PROVE  /\ body \in Seq(Message) /\ Len(body) = Len(ms) - p
               /\ UserTurns(body) = {j \in 1 .. Len(ms) - p : j + p \in UserTurns(ms)}
               /\ Cardinality(TurnsFrom(body, i)) = Cardinality(TurnsFrom(ms, i + p))
    <3>1. i \in Nat /\ i > 0
      OBVIOUS
    <3> HIDE DEF p
    <3> QED
      BY <1>1, <1>2, <3>1, BodyTurns
  <2>2. 1 \in Nat \ {0}
    OBVIOUS
  <2> QED
    BY <2>1, <2>2
<1>4. Cuts(body) # {} /\ Trim(ms) = P \o <<Note>> \o from(keep)
  BY DEF Trim, Note
<1>5. Cuts(body) \subseteq 1 .. Len(body) /\ Len(body) \in Nat
  BY <1>3 DEF Cuts, UserTurns
<1>6. keep \in Cuts(body)
  <2>1. CASE fits # {}
    <3>1. fits \in SUBSET Nat /\ fits \subseteq Cuts(body)
      BY <1>5
    <3> HIDE DEF fits
    <3>2. Min(fits) \in fits
      BY <2>1, <3>1, MinIsLeast
    <3> QED
      BY <2>1, <3>1, <3>2
  <2>2. CASE fits = {}
    <3> HIDE DEF fits, body
    <3>1. Max(Cuts(body)) \in Cuts(body)
      BY <1>4, <1>5, MaxIsGreatest
    <3> QED
      BY <2>2, <3>1
  <2> QED
    BY <2>1, <2>2
<1> HIDE DEF keep, body, P
<1>7. /\ keep \in UserTurns(body) /\ keep \in 1 .. Len(ms) - p
      /\ Cardinality(TurnsFrom(body, keep)) >= MinTurns
  BY <1>3, <1>5, <1>6 DEF Cuts, TurnsFrom
<1>8. keep + p \in UserTurns(ms)
  BY <1>3, <1>7
<1>9. Cardinality(TurnsFrom(ms, keep + p)) >= MinTurns
  BY <1>1, <1>2, <1>3, <1>7
<1>10. from(keep) = SubSeq(ms, keep + p, Len(ms))
  <2>1. /\ p + 1 \in 1 .. Len(ms) + 1 /\ keep \in Int /\ Len(ms) \in Nat
        /\ from(keep) = SubSeq(body, keep, Len(ms) - p)
    <3>1. Len(ms) \in Nat /\ p \in Nat
      BY <1>1, <1>2
    <3>2. Len(body) = Len(ms) - p
      BY <1>3
    <3> HIDE DEF p, body
    <3>3. from(keep) = SubSeq(body, keep, Len(ms) - p)
      BY <3>2
    <3>4. p + 1 \in 1 .. Len(ms) + 1 /\ keep \in Int
      <4>1. p <= Len(ms)
        BY <1>7, <3>1
      <4> QED
        BY <1>7, <3>1, <4>1
    <3> QED
      BY <3>1, <3>3, <3>4
  <2>2. SubSeq(body, keep, Len(ms) - p) = SubSeq(ms, keep + p, Len(ms))
    <3>1. ms \in Seq(Message) /\ p \in Nat
      BY <1>1, <1>2
    <3> HIDE DEF p
    <3>2. SubSeq(SubSeq(ms, p + 1, Len(ms)), keep, Len(ms) - p) = SubSeq(ms, keep + p, Len(ms))
      BY <1>7, <3>1, EndOfEnd
    <3> QED
      BY <3>2 DEF body
  <2> QED
    BY <2>1, <2>2
<1> QED
  BY <1>4, <1>8, <1>9, <1>10 DEF P

\* The note of what was trimmed calls nothing.
LEMMA NoteIs == /\ Note \in Message /\ Note.calls = <<>>
                /\ Note.role = "assistant" /\ Note.text = "note"
<1>1. "note" \in Texts /\ <<>> \in Seq(Tools \cup {NoName})
  BY DEF Texts
<1> QED
  BY <1>1, MessagesAre DEF Note, Assistant

\* What a trim puts in front: the pinned head, if there is one, and the note.
LEMMA FrontIs ==
    ASSUME NEW ms \in Seq(Message), GoodHead(ms)
    PROVE  LET front == Pinned(ms) \o <<Note>>
           IN  /\ front \in Seq(Message) /\ front # <<>> /\ GoodHead(front)
               /\ \A i \in DOMAIN front : front[i].calls = <<>> /\ front[i].role # "tool"
               /\ ms # <<>> /\ Head(ms).role = "assistant" => Head(front) = Head(ms)
<1> PICK n \in Message : n = Note
  BY NoteIs
<1>1. n.calls = <<>> /\ n.role = "assistant" /\ n.text = "note"
  BY NoteIs
<1>2. ASSUME NEW h \in Message, h = Head(ms), ms # <<>>, h.role = "assistant",
             NEW front, front = <<h>> \o <<n>>
      PROVE  /\ front \in Seq(Message) /\ front # <<>> /\ GoodHead(front) /\ Head(front) = h
             /\ \A i \in DOMAIN front : front[i].calls = <<>> /\ front[i].role # "tool"
  <2>1. h.calls = <<>>
    BY <1>2 DEF GoodHead
  <2>2. /\ front \in Seq(Message) /\ front # <<>> /\ Head(front) = h
        /\ DOMAIN front = 1 .. 2 /\ front[1] = h /\ front[2] = n
    BY <1>2, PairIs
  <2> QED
    BY <1>1, <1>2, <2>1, <2>2 DEF GoodHead
<1>3. ASSUME NEW front, front = <<>> \o <<n>>
      PROVE  /\ front \in Seq(Message) /\ front # <<>> /\ GoodHead(front)
             /\ \A i \in DOMAIN front : front[i].calls = <<>> /\ front[i].role # "tool"
  <2>1. /\ front \in Seq(Message) /\ front # <<>> /\ Head(front) = n
        /\ DOMAIN front = 1 .. 1 /\ front[1] = n
    BY <1>3, PairIs
  <2> QED
    BY <1>1, <2>1 DEF GoodHead
<1>4. CASE ms # <<>> /\ Head(ms).role = "assistant"
  <2>1. PICK h \in Message : h = Head(ms)
    BY <1>4
  <2>2. Pinned(ms) = <<h>>
    BY <1>4, <2>1 DEF Pinned
  <2> QED
    BY <1>2, <1>4, <2>1, <2>2
<1>5. CASE ~(ms # <<>> /\ Head(ms).role = "assistant")
  <2>1. Pinned(ms) = <<>>
    BY <1>5 DEF Pinned
  <2> QED
    BY <1>3, <1>5, <2>1
<1> QED
  BY <1>4, <1>5

\* What a trim leaves is a conversation still.
LEMMA TrimKeeps ==
    ASSUME NEW ms, Conversation(ms)
    PROVE  Conversation(Trim(ms)) /\ (ms # <<>> => Trim(ms) # <<>>)
<1>1. CASE Trim(ms) = ms
  BY <1>1
<1>2. CASE Trim(ms) # ms
  <2> DEFINE front == Pinned(ms) \o <<Note>>
  <2>1. PICK k \in UserTurns(ms) : Trim(ms) = front \o SubSeq(ms, k, Len(ms))
    BY <1>2, TrimIs
  <2>2. ms \in Seq(Message) /\ GoodHead(ms)
    BY ConversationIs
  <2>4. /\ front \in Seq(Message) /\ front # <<>> /\ GoodHead(front)
        /\ \A i \in DOMAIN front : front[i].calls = <<>> /\ front[i].role # "tool"
    BY <2>2, FrontIs
  <2> HIDE DEF front
  <2>5. Conversation(front \o SubSeq(ms, k, Len(ms)))
    BY <2>4, CutKeeps
  <2>6. front \o SubSeq(ms, k, Len(ms)) # <<>>
    <3>1. SubSeq(ms, k, Len(ms)) \in Seq(Message)
      BY <2>2 DEF UserTurns
    <3> QED
      BY <2>4, <3>1
  <2> QED
    BY <2>1, <2>5, <2>6
<1> QED
  BY <1>1, <1>2

----------------------------------------------------------------------------
(* The inductive invariant                                                 *)

\* The conversation while the calls cs are still to be executed: those before
\* them of the reply at r have their results, which are all that follows r.
Serving(ms, cs, r) ==
    LET named == ms[r].calls
        done  == Len(named) - Len(cs)
    IN  /\ ms \in Seq(Message) /\ r \in DOMAIN ms /\ ms[r].text = "reply"
        /\ Attached(ms) /\ GoodHead(ms)
        /\ \A i \in DOMAIN ms \ {r} : AnswersAt(ms, i)
        /\ done \in 0 .. Len(named)
        /\ \A i \in DOMAIN cs : named[done + i] = cs[i].name
        /\ Len(ms) = r + Results(named, done)
        /\ \A j \in r + 1 .. Len(ms) : ms[j].role = "tool"
        /\ \A k \in 1 .. done : named[k] # NoName => ms[r + Results(named, k)].tool = named[k]

\* The last message of the user has the text t.
LastAsks(ms, t) ==
    \E i \in UserTurns(ms) : ms[i].text = t /\ \A j \in UserTurns(ms) : j <= i

IInv ==
    /\ TypeOK
    /\ stage = "executing" => calls # <<>> /\ \E r \in Nat : Serving(memory, calls, r)
    /\ stage # "executing" => Conversation(memory)
    /\ stage # "planning" => memory # <<>>
    /\ stage = "auto_writing" =>
          calls = <<>> /\ wrote = <<>> /\ memory[Len(memory)].text = "reply"
    /\ stage # "completed" => autoWritten = {}
    /\ closing => /\ stage \in {"requesting", "auto_writing", "completed", "failed"}
                  /\ stage # "completed" => LastAsks(memory, "limit")
    /\ closing /\ stage = "completed" => calls = <<>> /\ wrote = <<>> /\ autoWritten = {}

\* A reply with calls begins to be served.
LEMMA ReplyServes ==
    ASSUME NEW ms, Conversation(ms), ms # <<>>, NEW cs \in Seq(Call)
    PROVE  LET r == Len(ms) + 1
           IN  Serving(Append(ms, Assistant("reply", Names(cs))), cs, r)
<1> PICK r : r = Len(ms) + 1
  OBVIOUS
<1> PICK m : m = Assistant("reply", Names(cs))
  OBVIOUS
<1> PICK all : all = Append(ms, m)
  OBVIOUS
<1>1. ms \in Seq(Message) /\ Attached(ms) /\ GoodHead(ms) /\ \A i \in DOMAIN ms : AnswersAt(ms, i)
  BY ConversationIs
<1>2. /\ Names(cs) \in Seq(Tools \cup {NoName}) /\ Len(Names(cs)) = Len(cs)
      /\ \A i \in DOMAIN cs : Names(cs)[i] = cs[i].name
  <2>1. \A i \in DOMAIN cs : cs[i].name \in Tools \cup {NoName}
    <3>1. \A i \in DOMAIN cs : cs[i] \in Call
      OBVIOUS
    <3> QED
      BY <3>1 DEF Call
  <2>2. DOMAIN cs = 1 .. Len(cs) /\ Len(cs) \in Nat
    OBVIOUS
  <2>3. Names(cs) = [i \in 1 .. Len(cs) |-> cs[i].name]
    BY <2>2 DEF Names
  <2> QED
    BY <2>1, <2>2, <2>3
<1>3. /\ m \in Message /\ m.text = "reply" /\ m.role = "assistant" /\ m.calls = Names(cs)
  <2>1. "reply" \in Texts
    BY DEF Texts
  <2> QED
    BY <1>2, <2>1, MessagesAre DEF Assistant
<1>4. /\ all \in Seq(Message) /\ DOMAIN all = 1 .. r /\ Len(all) = r /\ r \in Nat /\ r > 1
      /\ DOMAIN ms = 1 .. r - 1 /\ \A i \in 1 .. r - 1 : all[i] = ms[i]
      /\ all[r] = m /\ Head(all) = Head(ms) /\ all # <<>>
  BY <1>1, <1>3
<1>5. \A i \in DOMAIN all \ {r} : AnswersAt(all, i)
  <2>1. DOMAIN all \ {r} = DOMAIN ms /\ DOMAIN ms \subseteq DOMAIN all
    BY <1>4
  <2> QED
    BY <1>1, <1>4, <2>1 DEF AnswersAt
<1>6. Attached(all)
  <2>1. ASSUME NEW i \in DOMAIN all, all[i].role = "tool"
        PROVE  i > 1 /\ (all[i - 1].role = "tool" \/ all[i - 1].text = "reply")
    <3>1. i \in 1 .. r - 1
      BY <1>3, <1>4, <2>1
    <3>2. i > 1 /\ (ms[i - 1].role = "tool" \/ ms[i - 1].text = "reply")
      BY <1>1, <1>4, <2>1, <3>1 DEF Attached
    <3> QED
      BY <1>4, <3>1, <3>2
  <2> QED
    BY <2>1 DEF Attached
<1>7. GoodHead(all)
  BY <1>1, <1>4 DEF GoodHead
<1> PICK named : named = Names(cs)
  OBVIOUS
<1>8. /\ all[r].calls = named /\ Len(named) - Len(cs) = 0 /\ Len(named) \in Nat
      /\ \A i \in DOMAIN cs : named[i] = cs[i].name
  BY <1>2, <1>3, <1>4
<1>9. Results(named, 0) = 0
  BY ResultsAre
<1>10. /\ r + Results(named, 0) = Len(all) /\ 0 \in 0 .. Len(named)
       /\ r + 1 .. Len(all) = {} /\ 1 .. 0 = {}
  BY <1>4, <1>8, <1>9
<1>11. \A i \in DOMAIN cs : named[0 + i] = cs[i].name
  <2>1. \A i \in DOMAIN cs : 0 + i = i
    OBVIOUS
  <2> QED
    BY <1>8, <2>1
<1>12. Serving(all, cs, r)
  BY <1>3, <1>4, <1>5, <1>6, <1>7, <1>8, <1>10, <1>11 DEF Serving
<1> QED
  BY <1>12

\* A call with a name gets its result at the end of the conversation.
LEMMA ResultServes ==
    ASSUME NEW ms, NEW cs \in Seq(Call), cs # <<>>, NEW r \in Nat, Serving(ms, cs, r),
           Head(cs).name # NoName
    PROVE  Serving(Append(ms, ToolResult(Head(cs).name)), Tail(cs), r)
<1>0. PICK named, done, rest, name, m, all :
          /\ named = ms[r].calls /\ done = Len(named) - Len(cs) /\ rest = Tail(cs)
          /\ name = Head(cs).name /\ m = ToolResult(name) /\ all = Append(ms, m)
  OBVIOUS
<1>1. /\ ms \in Seq(Message) /\ r \in DOMAIN ms /\ ms[r].text = "reply"
      /\ Attached(ms) /\ GoodHead(ms)
      /\ \A i \in DOMAIN ms \ {r} : AnswersAt(ms, i)
      /\ done \in 0 .. Len(named)
      /\ \A i \in DOMAIN cs : named[done + i] = cs[i].name
      /\ Len(ms) = r + Results(named, done)
      /\ \A j \in r + 1 .. Len(ms) : ms[j].role = "tool"
      /\ \A k \in 1 .. done : named[k] # NoName => ms[r + Results(named, k)].tool = named[k]
  BY <1>0 DEF Serving
<1>2. /\ rest \in Seq(Call) /\ Len(rest) = Len(cs) - 1 /\ Len(cs) \in Nat \ {0} /\ cs[1] = Head(cs)
      /\ \A i \in DOMAIN rest : i \in Nat /\ i + 1 \in DOMAIN cs /\ rest[i] = cs[i + 1]
  BY <1>0
<1>3. named[done + 1] = name /\ name # NoName /\ name \in Tools \cup {NoName}
  <2>1. Head(cs) \in Call
    OBVIOUS
  <2>2. name \in Tools \cup {NoName}
    BY <1>0, <2>1 DEF Call
  <2>3. 1 \in DOMAIN cs /\ cs[1].name = name /\ name # NoName
    BY <1>0, <1>2
  <2> QED
    BY <1>1, <2>2, <2>3
<1>4. Len(named) \in Nat
  <2>1. ms[r] \in Message
    BY <1>1
  <2>2. named \in Seq(Tools \cup {NoName})
    BY <1>0, <2>1 DEF Message
  <2> QED
    BY <2>2
<1>5. done + 1 = Len(named) - Len(rest) /\ done + 1 \in 0 .. Len(named) /\ done \in Nat
  BY <1>0, <1>1, <1>2, <1>4
<1>6. m \in Message /\ m.role = "tool" /\ m.tool = name /\ m.calls = <<>>
  BY <1>0, <1>3, MessagesAre DEF ToolResult
<1>7. /\ all \in Seq(Message) /\ Len(all) = Len(ms) + 1 /\ DOMAIN all = 1 .. Len(ms) + 1
      /\ DOMAIN ms = 1 .. Len(ms) /\ Len(ms) \in Nat /\ r \in 1 .. Len(ms)
      /\ \A i \in 1 .. Len(ms) : all[i] = ms[i]
      /\ all[Len(ms) + 1] = m /\ Head(all) = Head(ms) /\ all # <<>> /\ ms # <<>>
  <2>1. ms \in Seq(Message) /\ r \in DOMAIN ms /\ m \in Message /\ all = Append(ms, m)
    BY <1>0, <1>1, <1>6
  <2>2. DOMAIN ms = 1 .. Len(ms) /\ Len(ms) \in Nat /\ r \in 1 .. Len(ms) /\ ms # <<>>
    BY <2>1
  <2>3. /\ all \in Seq(Message) /\ Len(all) = Len(ms) + 1 /\ DOMAIN all = 1 .. Len(ms) + 1
        /\ \A i \in 1 .. Len(ms) : all[i] = ms[i]
        /\ all[Len(ms) + 1] = m /\ all # <<>>
    BY <2>1
  <2>4. Head(all) = Head(ms)
    BY <2>1, <2>2, <2>3
  <2> QED
    BY <2>2, <2>3, <2>4
<1>8. Results(named, done) \in Nat /\ Results(named, done + 1) = Results(named, done) + 1
  <2>1. Results(named, done + 1)
            = Results(named, done) + IF named[done + 1] # NoName THEN 1 ELSE 0
    BY <1>5, ResultsAre
  <2>2. Results(named, done) \in Nat
    BY <1>5, ResultsAre
  <2> QED
    BY <1>3, <2>1, <2>2
<1>9. Len(all) = r + Results(named, done + 1)
  BY <1>1, <1>7, <1>8
<1>10. \A i \in DOMAIN rest : named[(done + 1) + i] = rest[i].name
  <2>1. ASSUME NEW i \in DOMAIN rest
        PROVE  named[(done + 1) + i] = rest[i].name
    <3>1. (done + 1) + i = done + (i + 1)
      BY <1>2, <1>5
    <3> QED
      BY <1>1, <1>2, <3>1
  <2> QED
    BY <2>1
<1>11. ASSUME NEW k \in 1 .. done + 1, named[k] # NoName
       PROVE  all[r + Results(named, k)].tool = named[k]
  <2>1. CASE k \in 1 .. done
    <3>1. Results(named, k) \in Nat
      BY <2>1, ResultsAre
    <3>2. Results(named, k) <= Results(named, done)
      <4>1. k \in 0 .. done
        BY <1>5, <2>1
      <4> QED
        BY <1>5, <4>1, ResultsAre
    <3>3. r + Results(named, k) \in 1 .. Len(ms)
      BY <1>1, <1>7, <1>8, <3>1, <3>2
    <3>4. ms[r + Results(named, k)].tool = named[k]
      BY <1>1, <1>11, <2>1
    <3> QED
      BY <1>7, <3>3, <3>4
  <2>2. CASE k = done + 1
    <3>1. r + Results(named, k) = Len(ms) + 1
      BY <1>7, <1>9, <2>2
    <3> QED
      BY <1>3, <1>6, <1>7, <2>2, <3>1
  <2> QED
    BY <1>5, <2>1, <2>2
<1>12. \A j \in r + 1 .. Len(all) : all[j].role = "tool"
  <2>1. ASSUME NEW j \in r + 1 .. Len(all)
        PROVE  all[j].role = "tool"
    <3>1. (j \in r + 1 .. Len(ms) /\ j \in 1 .. Len(ms)) \/ j = Len(ms) + 1
      BY <1>7
    <3> QED
      BY <1>1, <1>6, <1>7, <3>1
  <2> QED
    BY <2>1
<1>13. \A i \in DOMAIN all \ {r} : AnswersAt(all, i)
  <2>1. ASSUME NEW i \in DOMAIN all \ {r}
        PROVE  AnswersAt(all, i)
    <3>1. CASE i \in 1 .. Len(ms)
      <4>1. AnswersAt(ms, i) /\ all[i] = ms[i]
        BY <1>1, <1>7, <2>1, <3>1
      <4> QED
        BY <1>7, <4>1 DEF AnswersAt
    <3>2. CASE i = Len(ms) + 1
      <4>1. all[i].calls = <<>>
        BY <1>6, <1>7, <3>2
      <4> QED
        BY <4>1 DEF AnswersAt
    <3> QED
      BY <1>7, <3>1, <3>2
  <2> QED
    BY <2>1
<1>14. Attached(all)
  <2>1. ASSUME NEW i \in DOMAIN all, all[i].role = "tool"
        PROVE  i > 1 /\ (all[i - 1].role = "tool" \/ all[i - 1].text = "reply")
    <3>1. CASE i \in 1 .. Len(ms)
      <4>1. i > 1 /\ (ms[i - 1].role = "tool" \/ ms[i - 1].text = "reply")
        BY <1>1, <1>7, <2>1, <3>1 DEF Attached
      <4> QED
        BY <1>7, <3>1, <4>1
    <3>2. CASE i = Len(ms) + 1
      <4>1. i > 1 /\ i - 1 = Len(ms) /\ all[i - 1] = ms[Len(ms)]
        BY <1>7, <3>2
      <4>2. ms[Len(ms)].role = "tool" \/ ms[Len(ms)].text = "reply"
        <5>1. Len(ms) = r \/ Len(ms) \in r + 1 .. Len(ms)
          <6>1. r \in Nat /\ Len(ms) \in Nat /\ r <= Len(ms)
            BY <1>7
          <6> QED
            BY <6>1
        <5> QED
          BY <1>1, <5>1
      <4> QED
        BY <4>1, <4>2
    <3>3. i \in 1 .. Len(ms) + 1 /\ Len(ms) \in Nat
      BY <1>7, <2>1
    <3>4. i \in 1 .. Len(ms) \/ i = Len(ms) + 1
      BY <3>3
    <3> QED
      BY <3>1, <3>2, <3>4
  <2> QED
    BY <2>1 DEF Attached
<1>15. GoodHead(all)
  BY <1>1, <1>7 DEF GoodHead
<1>16. all[r] = ms[r] /\ all[r].calls = named /\ r \in DOMAIN all /\ all[r].text = "reply"
  BY <1>0, <1>1, <1>7
<1>17. Serving(all, rest, r)
  BY <1>5, <1>7, <1>9, <1>10, <1>11, <1>12, <1>13, <1>14, <1>15, <1>16 DEF Serving
<1> QED
  BY <1>0, <1>17

\* When no call is left, the conversation is whole.
LEMMA Served ==
    ASSUME NEW ms, NEW r \in Nat, Serving(ms, <<>>, r)
    PROVE  Conversation(ms)
<1> PICK named : named = ms[r].calls
  OBVIOUS
<1>1. /\ ms \in Seq(Message) /\ r \in DOMAIN ms /\ Attached(ms) /\ GoodHead(ms)
      /\ \A i \in DOMAIN ms \ {r} : AnswersAt(ms, i)
  BY DEF Serving
<1>2. named \in Seq(Tools \cup {NoName}) /\ Len(named) \in Nat /\ DOMAIN named = 1 .. Len(named)
  <2>1. ms[r] \in Message
    BY <1>1
  <2>2. named \in Seq(Tools \cup {NoName})
    BY <2>1 DEF Message
  <2> QED
    BY <2>2
<1>3. Len(named) - Len(<<>>) = Len(named)
  BY <1>2
<1>4. /\ Len(ms) = r + Results(named, Len(named))
      /\ \A j \in r + 1 .. Len(ms) : ms[j].role = "tool"
      /\ \A k \in 1 .. Len(named) : named[k] # NoName => ms[r + Results(named, k)].tool = named[k]
  BY <1>3 DEF Serving
<1>5. ASSUME NEW k \in DOMAIN named, named[k] # NoName
      PROVE  LET at == r + Results(named, k)
             IN  at \in DOMAIN ms /\ ms[at].role = "tool" /\ ms[at].tool = named[k]
  <2>1. k \in 1 .. Len(named) /\ k \in 0 .. Len(named) /\ k - 1 \in Nat /\ (k - 1) + 1 = k
    BY <1>2
  <2>2. Results(named, k - 1) \in Nat
    BY <2>1, ResultsAre
  <2>3. Results(named, (k - 1) + 1)
            = Results(named, k - 1) + IF named[(k - 1) + 1] # NoName THEN 1 ELSE 0
    BY <2>1, ResultsAre
  <2>4. Results(named, k) = Results(named, k - 1) + 1
    BY <1>5, <2>1, <2>3
  <2>5. Results(named, k) <= Results(named, Len(named)) /\ Results(named, Len(named)) \in Nat
    BY <1>2, <2>1, ResultsAre
  <2>6. r + Results(named, k) \in r + 1 .. Len(ms) /\ r + Results(named, k) \in DOMAIN ms
    BY <1>1, <1>4, <2>2, <2>4, <2>5
  <2> QED
    BY <1>4, <1>5, <2>1, <2>6
<1>6. AnswersAt(ms, r)
  BY <1>5 DEF AnswersAt
<1> QED
  BY <1>1, <1>6, ConversationIs

\* A call without a name is passed over.
LEMMA NamelessServes ==
    ASSUME NEW ms, NEW cs \in Seq(Call), cs # <<>>, NEW r \in Nat, Serving(ms, cs, r),
           Head(cs).name = NoName
    PROVE  Serving(ms, Tail(cs), r)
<1>0. PICK named, done, rest :
          named = ms[r].calls /\ done = Len(named) - Len(cs) /\ rest = Tail(cs)
  OBVIOUS
<1>1. /\ ms \in Seq(Message) /\ r \in DOMAIN ms /\ ms[r].text = "reply"
      /\ Attached(ms) /\ GoodHead(ms)
      /\ \A i \in DOMAIN ms \ {r} : AnswersAt(ms, i)
      /\ done \in 0 .. Len(named)
      /\ \A i \in DOMAIN cs : named[done + i] = cs[i].name
      /\ Len(ms) = r + Results(named, done)
      /\ \A j \in r + 1 .. Len(ms) : ms[j].role = "tool"
      /\ \A k \in 1 .. done : named[k] # NoName => ms[r + Results(named, k)].tool = named[k]
  BY <1>0 DEF Serving
<1>2. /\ rest \in Seq(Call) /\ Len(rest) = Len(cs) - 1 /\ Len(cs) \in Nat \ {0} /\ cs[1] = Head(cs)
      /\ \A i \in DOMAIN rest : i \in Nat /\ i + 1 \in DOMAIN cs /\ rest[i] = cs[i + 1]
  BY <1>0
<1>3. named[done + 1] = NoName
  <2>1. 1 \in DOMAIN cs
    BY <1>2
  <2> QED
    BY <1>1, <1>2, <2>1
<1>4. Len(named) \in Nat
  <2>1. ms[r] \in Message
    BY <1>1
  <2>2. named \in Seq(Tools \cup {NoName})
    BY <1>0, <2>1 DEF Message
  <2> QED
    BY <2>2
<1>5. done + 1 = Len(named) - Len(rest) /\ done + 1 \in 0 .. Len(named) /\ done \in Nat
  BY <1>0, <1>1, <1>2, <1>4
<1>6. Results(named, done + 1) = Results(named, done)
  <2>1. Results(named, done) \in Nat
    BY <1>5, ResultsAre
  <2>2. Results(named, done + 1)
            = Results(named, done) + IF named[done + 1] # NoName THEN 1 ELSE 0
    BY <1>5, ResultsAre
  <2> QED
    BY <1>3, <2>1, <2>2
<1>7. \A i \in DOMAIN rest : named[(done + 1) + i] = rest[i].name
  <2>1. ASSUME NEW i \in DOMAIN rest
        PROVE  named[(done + 1) + i] = rest[i].name
    <3>1. (done + 1) + i = done + (i + 1)
      BY <1>2, <1>5
    <3> QED
      BY <1>1, <1>2, <3>1
  <2> QED
    BY <2>1
<1>8. \A k \in 1 .. done + 1 : named[k] # NoName => ms[r + Results(named, k)].tool = named[k]
  <2>1. \A k \in 1 .. done + 1 : k \in 1 .. done \/ k = done + 1
    BY <1>5
  <2> QED
    BY <1>1, <1>3, <2>1
<1> QED
  BY <1>0, <1>1, <1>5, <1>6, <1>7, <1>8 DEF Serving

\* What holds of a memory that is a conversation and not empty.
LEMMA MemoryIs ==
    ASSUME NEW ms, Conversation(ms), ms # <<>>
    PROVE  /\ ms \in Seq(Message) /\ Len(ms) \in Nat \ {0} /\ DOMAIN ms = 1 .. Len(ms)
           /\ UserTurns(ms) \subseteq 1 .. Len(ms)
<1>1. ms \in Seq(Message)
  BY ConversationIs
<1> QED
  BY <1>1 DEF UserTurns

\* A workflow starts with a conversation.
LEMMA InvInit == Init => IInv
<1> SUFFICES ASSUME Init
             PROVE  IInv
  OBVIOUS
<1>1. Conversation(memory) /\ memory \in Seq(Message)
  BY WorkflowAssumption, ConversationIs DEF Init
<1>2. step \in 0 .. MaxSteps + 1 /\ ~(step > MaxSteps)
  BY WorkflowAssumption DEF Init
<1>3. calls \in Seq(Call) /\ wrote \in Seq(Paths)
  BY DEF Init
<1>4. TypeOK
  BY <1>1, <1>2, <1>3 DEF Init, TypeOK, Stages
<1> QED
  BY <1>1, <1>4 DEF Init, IInv

\* The prompt goes behind the conversation there was.
LEMMA StartKeeps == ASSUME IInv, Start PROVE IInv'
<1>1. PICK m \in Message : m = User("prompt")
  BY MessagesAre DEF Texts
<1>2. m.calls = <<>> /\ m.text # "summary" /\ m.role # "tool"
  BY <1>1 DEF User
<1>3. Conversation(memory)
  BY DEF IInv, Start
<1>4. Conversation(memory') /\ memory' \in Seq(Message) /\ memory' # <<>>
  <2>1. memory' = Append(memory, m)
    BY <1>1 DEF Start
  <2>2. Conversation(Append(memory, m))
    BY <1>2, <1>3, AppendKeeps
  <2>3. Append(memory, m) # <<>> /\ Append(memory, m) \in Seq(Message)
    BY <1>3, ConversationIs
  <2> QED
    BY <2>1, <2>2, <2>3
<1>5. TypeOK'
  BY <1>4 DEF IInv, TypeOK, Start, Stages
<1> QED
  BY <1>4, <1>5 DEF IInv, Start

\* What the trim before a step leaves is a conversation.
LEMMA NextStepKeeps == ASSUME IInv, NextStep PROVE IInv'
<1>1. Conversation(memory) /\ memory # <<>>
  BY DEF IInv, NextStep
<1>2. Conversation(memory') /\ memory' # <<>>
  BY <1>1, TrimKeeps DEF NextStep
<1>3. memory' \in Seq(Message)
  BY <1>2, ConversationIs
<1>4. (step \in 0 .. MaxSteps + 1)' /\ (step <= MaxSteps)'
  BY WorkflowAssumption DEF IInv, TypeOK, NextStep
<1>5. TypeOK'
  BY <1>3, <1>4, WorkflowAssumption DEF IInv, TypeOK, NextStep, Stages
<1> QED
  BY <1>2, <1>5 DEF IInv, NextStep

\* The closing instruction is a message of the user.
LEMMA LimitKeeps == ASSUME IInv, LimitReached PROVE IInv'
<1>1. PICK m \in Message : m = User("limit")
  BY MessagesAre DEF Texts
<1>2. m.calls = <<>> /\ m.text = "limit" /\ m.role = "user"
  BY <1>1 DEF User
<1>3. Conversation(memory) /\ memory # <<>>
  BY DEF IInv, LimitReached
<1>4. memory' = Append(memory, m)
  BY <1>1 DEF LimitReached
<1>5. Conversation(memory')
  BY <1>2, <1>3, <1>4, AppendKeeps
<1>6. /\ memory' \in Seq(Message) /\ memory' # <<>> /\ Len(memory') \in Nat
      /\ memory'[Len(memory')] = m /\ DOMAIN memory' = 1 .. Len(memory') /\ Len(memory') >= 1
  BY <1>3, <1>4, ConversationIs
<1>7. LastAsks(memory', "limit")
  BY <1>2, <1>6 DEF LastAsks, UserTurns
<1>8. TypeOK'
  BY <1>6, WorkflowAssumption DEF IInv, TypeOK, LimitReached, Stages
<1> QED
  BY <1>5, <1>6, <1>7, <1>8 DEF IInv, LimitReached

\* What is appended to a conversation, if not by the user, leaves the last word
\* of the user what it was.
LEMMA LastAsksStays ==
    ASSUME NEW ms \in Seq(Message), NEW m \in Message, m.role # "user", NEW t,
           LastAsks(ms, t)
    PROVE  LastAsks(Append(ms, m), t)
<1>1. UserTurns(Append(ms, m)) = UserTurns(ms)
  BY DEF UserTurns
<1>2. \A i \in UserTurns(ms) : Append(ms, m)[i] = ms[i]
  BY DEF UserTurns
<1> QED
  BY <1>1, <1>2 DEF LastAsks

\* A reply opens its calls, and only the last message has open ones.
LEMMA ReplyKeeps == ASSUME IInv, NEW cs \in Replies, Reply(cs) PROVE IInv'
<1>1. PICK kept : kept = Stripped(cs)
  OBVIOUS
<1>2. kept \in Seq(Call) /\ (closing => kept = <<>>)
  <2>1. cs \in Seq(Call)
    BY DEF Replies, SeqOf
  <2> QED
    BY <1>1, <2>1 DEF Stripped
<1>3. Conversation(memory) /\ memory # <<>>
  BY DEF IInv, Reply
<1>4. PICK m : m = Assistant("reply", Names(kept))
  OBVIOUS
<1>5. memory' = Append(memory, m) /\ calls' = kept
  BY <1>1, <1>4 DEF Reply
<1>6. m \in Message /\ m.role = "assistant" /\ m.text = "reply" /\ m.calls = Names(kept)
  <2>1. Names(kept) \in Seq(Tools \cup {NoName})
    <3>1. \A i \in DOMAIN kept : kept[i] \in Call
      BY <1>2
    <3>2. \A i \in DOMAIN kept : kept[i].name \in Tools \cup {NoName}
      BY <3>1 DEF Call
    <3>3. DOMAIN kept = 1 .. Len(kept) /\ Len(kept) \in Nat
      BY <1>2
    <3>4. Names(kept) = [i \in 1 .. Len(kept) |-> kept[i].name]
      BY <3>3 DEF Names
    <3> QED
      BY <3>2, <3>3, <3>4
  <2>2. "reply" \in Texts
    BY DEF Texts
  <2>3. Assistant("reply", Names(kept)) \in Message
    BY <2>1, <2>2, MessagesAre
  <2> QED
    BY <1>4, <2>3 DEF Assistant
<1>7. /\ memory' \in Seq(Message) /\ memory' # <<>> /\ memory'[Len(memory')] = m
      /\ Len(memory) + 1 \in Nat
  BY <1>3, <1>5, <1>6, ConversationIs
<1>8. TypeOK'
  BY <1>2, <1>5, <1>7 DEF IInv, TypeOK, Reply, Stages
<1>9. closing => LastAsks(memory', "limit")
  BY <1>3, <1>5, <1>6, LastAsksStays, ConversationIs DEF IInv, Reply
<1>10. CASE kept = <<>>
  <2>1. m.calls = <<>>
    BY <1>6, <1>10 DEF Names
  <2>2. Conversation(memory')
    BY <1>3, <1>5, <1>6, <2>1, AppendKeeps
  <2>3. stage' = "auto_writing"
    BY <1>1, <1>10 DEF Reply
  <2> QED
    BY <1>5, <1>6, <1>7, <1>8, <1>9, <1>10, <2>2, <2>3 DEF IInv, Reply
<1>11. CASE kept # <<>>
  <2>1. Serving(memory', kept, Len(memory) + 1)
    BY <1>2, <1>3, <1>4, <1>5, ReplyServes
  <2>2. stage' = "executing" /\ ~closing
    BY <1>1, <1>2, <1>11 DEF Reply
  <2>3. \E r \in Nat : Serving(memory', calls', r)
    BY <1>5, <1>7, <2>1
  <2> QED
    BY <1>5, <1>7, <1>8, <1>11, <2>2, <2>3 DEF IInv, Reply
<1> QED
  BY <1>10, <1>11

\* A failed request leaves the conversation as it was.
LEMMA FailsKeeps == ASSUME IInv, RequestFails PROVE IInv'
<1>1. TypeOK'
  BY DEF IInv, TypeOK, RequestFails, Stages
<1> QED
  BY <1>1 DEF IInv, RequestFails

\* A call that is executed is answered next in line.
LEMMA ExecuteKeeps == ASSUME IInv, ExecuteCall PROVE IInv'
<1>1. PICK c, rest : c = Head(calls) /\ rest = Tail(calls)
  OBVIOUS
<1>2. /\ calls \in Seq(Call) /\ calls # <<>> /\ c \in Call /\ rest \in Seq(Call)
      /\ (Len(calls) = 1 <=> rest = <<>>)
  <2>1. calls \in Seq(Call) /\ calls # <<>>
    BY DEF IInv, TypeOK, ExecuteCall
  <2>2. /\ Head(calls) \in Call /\ Tail(calls) \in Seq(Call) /\ Len(calls) \in Nat \ {0}
        /\ Len(Tail(calls)) = Len(calls) - 1
    BY <2>1
  <2>3. Len(Tail(calls)) = 0 <=> Tail(calls) = <<>>
    BY <2>2, EmptySeq
  <2> QED
    BY <1>1, <2>1, <2>2, <2>3
<1>3. PICK r \in Nat : Serving(memory, calls, r)
  BY DEF IInv, ExecuteCall
<1>4. Serving(memory', rest, r)
  <2>1. CASE c.name = NoName
    <3>1. memory' = memory
      BY <1>1, <2>1 DEF ExecuteCall
    <3> QED
      BY <1>1, <1>2, <1>3, <2>1, <3>1, NamelessServes
  <2>2. CASE c.name # NoName
    <3>1. memory' = Append(memory, ToolResult(c.name))
      BY <1>1, <2>2 DEF ExecuteCall
    <3> QED
      BY <1>1, <1>2, <1>3, <2>2, <3>1, ResultServes
  <2> QED
    BY <2>1, <2>2
<1>5. calls' = rest /\ stage' = (IF rest = <<>> THEN "looping" ELSE "executing")
  BY <1>1, <1>2 DEF ExecuteCall
<1>6. memory' \in Seq(Message) /\ memory' # <<>>
  BY <1>4 DEF Serving
<1>7. PathOf(c) \subseteq Paths /\ (PathOf(c) # {} => c.path \in Paths)
  BY WorkflowAssumption DEF PathOf
<1>8. TypeOK'
  <2>1. (seen \subseteq Paths)'
    BY <1>1, <1>7 DEF IInv, TypeOK, ExecuteCall
  <2>2. (wrote \in Seq(Paths))'
    BY <1>1, <1>7 DEF IInv, TypeOK, ExecuteCall
  <2> QED
    BY <1>2, <1>5, <1>6, <2>1, <2>2 DEF IInv, TypeOK, ExecuteCall, Stages
<1>9. ~closing /\ ~closing'
  BY DEF IInv, ExecuteCall
<1>10. stage' # "executing" => Conversation(memory')
  BY <1>4, <1>5, Served
<1>11. stage' = "executing" => calls' # <<>> /\ \E q \in Nat : Serving(memory', calls', q)
  BY <1>4, <1>5
<1>12. autoWritten' = {} /\ stage' \in {"looping", "executing"}
  BY <1>5 DEF IInv, ExecuteCall
<1> QED
  BY <1>6, <1>8, <1>9, <1>10, <1>11, <1>12 DEF IInv

\* The results of what is written at the end go behind all others.
LEMMA AutoWriteKeeps == ASSUME IInv, NEW written \in SUBSET Paths, AutoWrite(written) PROVE IInv'
<1>1. Conversation(memory) /\ memory # <<>> /\ memory[Len(memory)].text = "reply"
  BY DEF IInv, AutoWrite
<1>2. PICK n \in Nat : n = Cardinality(written)
  BY WorkflowAssumption, FS_Subset, FS_CardinalityType
<1>3. PICK rs : rs = [i \in 1 .. n |-> ToolResult(Writefile)]
  OBVIOUS
<1>4. /\ rs \in Seq(Message) /\ DOMAIN rs = 1 .. n
      /\ \A i \in DOMAIN rs : rs[i].calls = <<>> /\ rs[i].text = "result" /\ rs[i].role = "tool"
  <2>1. ToolResult(Writefile) \in Message
    BY WorkflowAssumption, MessagesAre
  <2> QED
    BY <1>3, <2>1 DEF ToolResult
<1>5. memory' = memory \o rs
  BY <1>2, <1>3 DEF AutoWrite
<1>6. Conversation(memory')
  <2>1. \A i \in DOMAIN rs : i # 1 => rs[i - 1].role = "tool"
    <3>1. \A i \in 1 .. n : i # 1 => i - 1 \in 1 .. n
      OBVIOUS
    <3> QED
      BY <1>4, <3>1
  <2>2. Conversation(memory \o rs)
    BY <1>1, <1>4, <2>1, JoinKeeps
  <2> QED
    BY <1>5, <2>2
<1>7. memory' \in Seq(Message) /\ memory' # <<>>
  <2>1. memory \in Seq(Message) /\ Len(memory) # 0
    BY <1>1, MemoryIs
  <2>2. Len(memory \o rs) = Len(memory) + Len(rs) /\ Len(rs) \in Nat /\ Len(memory) \in Nat
    BY <1>4, <2>1
  <2>3. Len(memory') # 0
    BY <1>5, <2>1, <2>2
  <2> QED
    BY <1>6, <2>3, ConversationIs
<1>8. closing => written = {}
  <2>1. SUFFICES ASSUME closing, LastUserAsksWrite
                 PROVE  FALSE
    BY DEF AutoWrite
  <2>2. PICK i \in UserTurns(memory) :
            memory[i].text = "limit" /\ \A j \in UserTurns(memory) : j <= i
    BY <2>1 DEF IInv, AutoWrite, LastAsks
  <2>3. /\ UserTurns(memory) \subseteq 1 .. Len(memory) /\ Len(memory) \in Nat
    BY <1>1, MemoryIs
  <2>4. Max(UserTurns(memory)) \in UserTurns(memory) /\ i <= Max(UserTurns(memory))
    BY <2>2, <2>3, MaxIsGreatest
  <2>5. Max(UserTurns(memory)) = i
    BY <2>2, <2>3, <2>4
  <2> QED
    BY <2>1, <2>2, <2>5 DEF LastUserAsksWrite
<1>9. TypeOK'
  BY <1>7 DEF IInv, TypeOK, AutoWrite, Stages
<1> QED
  BY <1>6, <1>7, <1>8, <1>9 DEF IInv, AutoWrite

\* Every step of the loop keeps the invariant.
LEMMA Inductive == IInv /\ [Next]_vars => IInv'
<1> SUFFICES ASSUME IInv, [Next]_vars
             PROVE  IInv'
  OBVIOUS
<1>1. CASE Start
  BY <1>1, StartKeeps
<1>2. CASE NextStep
  BY <1>2, NextStepKeeps
<1>3. CASE LimitReached
  BY <1>3, LimitKeeps
<1>4. ASSUME NEW cs \in Replies, Reply(cs)
      PROVE  IInv'
  BY <1>4, ReplyKeeps
<1>5. CASE RequestFails
  BY <1>5, FailsKeeps
<1>6. CASE ExecuteCall
  BY <1>6, ExecuteKeeps
<1>7. ASSUME NEW written \in SUBSET Paths, AutoWrite(written)
      PROVE  IInv'
  BY <1>7, AutoWriteKeeps
<1>8. CASE UNCHANGED vars
  BY <1>8 DEF IInv, TypeOK, vars
<1> QED
  BY <1>1, <1>2, <1>3, <1>4, <1>5, <1>6, <1>7, <1>8 DEF Next, Ended

----------------------------------------------------------------------------
(* The theorems                                                            *)

\* Every value of the state of a run has its type, and a step beyond MaxSteps
\* is the closing request.
THEOREM TypeCorrect == Spec => []TypeOK
<1>1. IInv => TypeOK
  BY DEF IInv
<1> QED
  BY <1>1, InvInit, Inductive, PTL DEF Spec

\* AgentWorkflow.run: the conversation of every request holds the result of
\* every named call, in call order, and no result without its reply, whatever
\* the model replies, the tools do and the trim cuts.
THEOREM EveryCallAnswered == Spec => []AnsweredBeforeRequest
<1>1. IInv => AnsweredBeforeRequest
  BY DEF IInv, AnsweredBeforeRequest, Conversation
<1> QED
  BY <1>1, InvInit, Inductive, PTL DEF Spec

\* Whatever a run ends with, an answer or an error, it leaves a conversation the
\* next run may find: what is assumed of Histories is kept by the code.
LeavesConversation == stage \in {"completed", "failed"} => Conversation(memory)

THEOREM RunsLeaveConversations == Spec => []LeavesConversation
<1>1. IInv => LeavesConversation
  BY DEF IInv, LeavesConversation
<1> QED
  BY <1>1, InvInit, Inductive, PTL DEF Spec

\* _finalize_after_tool_limit: no tool is run and no file written for the reply
\* to the closing request.
THEOREM EffectlessAfterLimit == Spec => []NoEffectAfterLimit
<1>1. IInv => NoEffectAfterLimit
  BY DEF IInv, NoEffectAfterLimit
<1> QED
  BY <1>1, InvInit, Inductive, PTL DEF Spec

----------------------------------------------------------------------------
(* What a trim keeps                                                       *)

\* A pinned head stays at the head.
LEMMA TrimKeepsHead ==
    ASSUME NEW ms, Conversation(ms), ms # <<>>, Head(ms).role = "assistant"
    PROVE  Head(Trim(ms)) = Head(ms)
<1>1. CASE Trim(ms) = ms
  BY <1>1
<1>2. CASE Trim(ms) # ms
  <2>1. PICK front : front = Pinned(ms) \o <<Note>>
    OBVIOUS
  <2>2. ms \in Seq(Message) /\ GoodHead(ms)
    BY ConversationIs
  <2>3. front \in Seq(Message) /\ front # <<>> /\ Head(front) = Head(ms)
    BY <2>1, <2>2, FrontIs
  <2>4. PICK k \in UserTurns(ms) : Trim(ms) = front \o SubSeq(ms, k, Len(ms))
    BY <1>2, <2>1, TrimIs
  <2>5. SubSeq(ms, k, Len(ms)) \in Seq(Message)
    BY <2>2 DEF UserTurns
  <2>6. Head(front \o SubSeq(ms, k, Len(ms))) = Head(front)
    BY <2>3, <2>5, JoinIs
  <2> QED
    BY <2>3, <2>4, <2>6
<1> QED
  BY <1>1, <1>2

\* trim_messages: the summary a /session compact left at the head is never
\* trimmed away, and nothing else displaces it.
THEOREM SummaryStays == Spec => SummaryKept
<1> DEFINE Kept == memory # <<>> /\ Head(memory).text = "summary" => Head(memory') = Head(memory)
<1>1. ASSUME IInv, [Next]_vars
      PROVE  [Kept]_vars
  <2>1. SUFFICES ASSUME memory # <<>>, Head(memory).text = "summary", Next
                 PROVE  Head(memory') = Head(memory)
    BY <1>1
  <2>2. memory \in Seq(Message)
    BY <1>1 DEF IInv, TypeOK
  <2>3. ASSUME NEW rs \in Seq(Message)
        PROVE  Head(memory \o rs) = Head(memory)
    BY <2>1, <2>2, JoinIs
  <2>4. ASSUME NEW m
        PROVE  Head(Append(memory, m)) = Head(memory)
    BY <2>1, <2>2
  <2>5. CASE Start
    BY <2>4, <2>5 DEF Start
  <2>6. CASE NextStep
    <3>1. Conversation(memory)
      BY <1>1, <2>6 DEF IInv, NextStep
    <3>2. GoodHead(memory)
      BY <3>1, ConversationIs
    <3>3. Head(memory).role = "assistant"
      BY <2>1, <3>2 DEF GoodHead
    <3>4. Head(Trim(memory)) = Head(memory)
      BY <2>1, <3>1, <3>3, TrimKeepsHead
    <3> QED
      BY <2>6, <3>4 DEF NextStep
  <2>7. CASE LimitReached
    BY <2>4, <2>7 DEF LimitReached
  <2>8. ASSUME NEW cs \in Replies, Reply(cs)
        PROVE  Head(memory') = Head(memory)
    BY <2>4, <2>8 DEF Reply
  <2>9. CASE RequestFails
    BY <2>9 DEF RequestFails
  <2>10. CASE ExecuteCall
    <3>1. memory' = memory \/ \E m : memory' = Append(memory, m)
      BY <2>10 DEF ExecuteCall
    <3> QED
      BY <2>4, <3>1
  <2>11. ASSUME NEW written \in SUBSET Paths, AutoWrite(written)
         PROVE  Head(memory') = Head(memory)
    <3>1. PICK n \in Nat : n = Cardinality(written)
      BY WorkflowAssumption, FS_Subset, FS_CardinalityType
    <3>2. ToolResult(Writefile) \in Message
      BY WorkflowAssumption, MessagesAre
    <3>3. [i \in 1 .. n |-> ToolResult(Writefile)] \in Seq(Message)
      BY <3>2
    <3>4. Head(memory \o [i \in 1 .. n |-> ToolResult(Writefile)]) = Head(memory)
      BY <2>3, <3>3
    <3> QED
      BY <2>11, <3>1, <3>4 DEF AutoWrite
  <2>12. CASE Ended
    BY <2>12 DEF Ended, vars
  <2> QED
    BY <2>1, <2>5, <2>6, <2>7, <2>8, <2>9, <2>10, <2>11, <2>12 DEF Next
<1>2. Spec => [][Kept]_vars
  BY <1>1, InvInit, Inductive, PTL DEF Spec
<1> QED
  BY <1>2 DEF SummaryKept

\* A suffix, element by element.
LEMMA SuffixIs ==
    ASSUME NEW S, NEW s \in Seq(S), NEW u \in Seq(S), Len(s) <= Len(u),
           \A i \in 1 .. Len(s) : s[i] = u[(Len(u) - Len(s)) + i]
    PROVE  IsSuffix(s, u)
<1>1. PICK a, b : a = Reverse(s) /\ b = Reverse(u)
  OBVIOUS
<1>2. /\ a \in Seq(S) /\ Len(a) = Len(s) /\ \A i \in 1 .. Len(s) : a[i] = s[(Len(s) - i) + 1]
  BY <1>1 DEF Reverse
<1>3. /\ b \in Seq(S) /\ Len(b) = Len(u) /\ \A i \in 1 .. Len(u) : b[i] = u[(Len(u) - i) + 1]
  BY <1>1 DEF Reverse
<1>4. Len(s) \in Nat /\ Len(u) \in Nat
  OBVIOUS
<1>5. ASSUME NEW i \in 1 .. Len(s)
      PROVE  a[i] = b[i]
  <2>1. (Len(s) - i) + 1 \in 1 .. Len(s) /\ i \in 1 .. Len(u)
    BY <1>4
  <2>2. (Len(u) - Len(s)) + ((Len(s) - i) + 1) = (Len(u) - i) + 1
    BY <1>4
  <2> QED
    BY <1>2, <1>3, <2>1, <2>2
<1>6. SubSeq(a, 1, Len(a)) = SubSeq(b, 1, Len(a))
  BY <1>2, <1>3, <1>4, <1>5
<1> QED
  BY <1>1, <1>2, <1>3, <1>6 DEF IsSuffix, IsPrefix

\* The MinTurns latest turns begin no earlier than a turn that has at least as
\* many from it on.
LEMMA LatestBegin ==
    ASSUME NEW ms \in Seq(Message), NEW k \in UserTurns(ms),
           Cardinality(TurnsFrom(ms, k)) >= MinTurns
    PROVE  LET starts == {i \in UserTurns(ms) : Cardinality(TurnsFrom(ms, i)) = MinTurns}
           IN  starts # {} /\ Max(starts) \in UserTurns(ms) /\ k <= Max(starts)
<1> DEFINE starts == {i \in UserTurns(ms) : Cardinality(TurnsFrom(ms, i)) = MinTurns}
           G == {i \in UserTurns(ms) : Cardinality(TurnsFrom(ms, i)) >= MinTurns}
<1>1. UserTurns(ms) \subseteq 1 .. Len(ms) /\ Len(ms) \in Nat
  BY DEF UserTurns
<1>2. G \in SUBSET (1 .. Len(ms)) /\ k \in G
  BY <1>1
<1>3. PICK g \in G : \A y \in G : y <= g
  <2> HIDE DEF G
  <2> QED
    BY <1>1, <1>2, MaxIsGreatest
<1>4. g \in UserTurns(ms) /\ g \in 1 .. Len(ms) /\ g \in Nat
  BY <1>1
<1>5. IsFiniteSet(TurnsFrom(ms, g)) /\ Cardinality(TurnsFrom(ms, g)) \in Nat
  BY <1>4, TurnsAreFinite
<1>6. Cardinality(TurnsFrom(ms, g)) = MinTurns
  <2>1. SUFFICES ASSUME Cardinality(TurnsFrom(ms, g)) > MinTurns
                 PROVE  FALSE
    BY <1>5, WorkflowAssumption
  <2> DEFINE later == TurnsFrom(ms, g) \ {g}
  <2>2. g \in TurnsFrom(ms, g)
    BY <1>4 DEF TurnsFrom
  <2>3. IsFiniteSet(later) /\ Cardinality(later) = Cardinality(TurnsFrom(ms, g)) - 1
    BY <1>5, <2>2, FS_RemoveElement
  <2>4. Cardinality(later) >= MinTurns /\ Cardinality(later) # 0
    BY <1>5, <2>1, <2>3, WorkflowAssumption
  <2>5. later # {}
    BY <2>4, FS_EmptySet
  <2>6. later \in SUBSET Nat
    BY <1>1 DEF TurnsFrom
  <2>7. PICK h \in later : \A y \in later : h <= y
    <3> HIDE DEF later
    <3> QED
      BY <2>5, <2>6, MinIsLeast
  <2>8. h \in UserTurns(ms) /\ h > g /\ h \in Nat
    BY <1>1, <1>4 DEF TurnsFrom
  <2>9. TurnsFrom(ms, h) = later
    <3>1. \A y \in UserTurns(ms) : y \in Nat
      BY <1>1
    <3>2. \A y \in UserTurns(ms) : y >= h => y >= g /\ y # g
      BY <1>4, <2>8, <3>1
    <3>3. \A y \in later : y >= h /\ y \in UserTurns(ms)
      BY <2>6, <2>7, <2>8 DEF TurnsFrom
    <3>4. TurnsFrom(ms, h) \subseteq later
      BY <3>2 DEF TurnsFrom
    <3>5. later \subseteq TurnsFrom(ms, h)
      <4> HIDE DEF later
      <4> QED
        BY <3>3 DEF TurnsFrom
    <3> QED
      BY <3>4, <3>5
  <2>10. h \in G
    BY <2>4, <2>8, <2>9
  <2> QED
    BY <1>3, <1>4, <2>8, <2>10
<1>7. g \in starts /\ starts \in SUBSET (1 .. Len(ms)) /\ starts \subseteq UserTurns(ms)
  BY <1>1, <1>4, <1>6
<1>8. starts # {} /\ Max(starts) \in starts /\ g <= Max(starts)
  <2> HIDE DEF starts
  <2> QED
    BY <1>1, <1>7, MaxIsGreatest
<1>9. k <= g /\ k \in Nat
  BY <1>1, <1>2, <1>3
<1>10. Max(starts) \in Nat /\ Max(starts) \in UserTurns(ms) /\ k <= Max(starts)
  BY <1>1, <1>4, <1>7, <1>8, <1>9
<1> QED
  BY <1>8, <1>10

\* The latest turns are at the end of every trim.
LEMMA TrimKeepsLatest ==
    ASSUME NEW ms, Conversation(ms)
    PROVE  IsSuffix(LatestTurns(ms), ms) /\ IsSuffix(LatestTurns(ms), Trim(ms))
<1> DEFINE starts == {i \in UserTurns(ms) : Cardinality(TurnsFrom(ms, i)) = MinTurns}
<1>1. ms \in Seq(Message) /\ Len(ms) \in Nat /\ UserTurns(ms) \subseteq 1 .. Len(ms)
  BY ConversationIs DEF UserTurns
<1>2. LatestTurns(ms) = IF starts = {} THEN ms ELSE SubSeq(ms, Max(starts), Len(ms))
  BY DEF LatestTurns, TurnsFrom
<1>3. starts # {} => Max(starts) \in UserTurns(ms)
  <2>1. starts \in SUBSET (1 .. Len(ms)) /\ starts \subseteq UserTurns(ms)
    BY <1>1
  <2> HIDE DEF starts
  <2> QED
    BY <1>1, <2>1, MaxIsGreatest
<1>4. ASSUME NEW k \in 1 .. Len(ms), NEW l \in k .. Len(ms), NEW front \in Seq(Message)
      PROVE  IsSuffix(SubSeq(ms, l, Len(ms)), front \o SubSeq(ms, k, Len(ms)))
  <2>1. PICK s, q, u : s = SubSeq(ms, l, Len(ms)) /\ q = SubSeq(ms, k, Len(ms)) /\ u = front \o q
    OBVIOUS
  <2>2. /\ s \in Seq(Message) /\ Len(s) = Len(ms) - l + 1
        /\ \A i \in 1 .. Len(ms) - l + 1 : s[i] = ms[l + i - 1]
    BY <1>1, <2>1
  <2>3. /\ q \in Seq(Message) /\ Len(q) = Len(ms) - k + 1
        /\ \A i \in 1 .. Len(ms) - k + 1 : q[i] = ms[k + i - 1]
    BY <1>1, <2>1
  <2>4. /\ u \in Seq(Message) /\ Len(u) = Len(front) + Len(q)
        /\ \A i \in 1 .. Len(q) : u[Len(front) + i] = q[i]
    BY <2>1, <2>3, JoinIs
  <2>5. Len(front) \in Nat /\ Len(s) <= Len(u)
    BY <1>1, <2>2, <2>3, <2>4
  <2>6. ASSUME NEW i \in 1 .. Len(s)
        PROVE  s[i] = u[(Len(u) - Len(s)) + i]
    <3>1. (Len(u) - Len(s)) + i = Len(front) + (l - k + i) /\ l - k + i \in 1 .. Len(q)
      BY <1>1, <2>2, <2>3, <2>4, <2>5
    <3>2. u[Len(front) + (l - k + i)] = q[l - k + i]
      BY <2>4, <3>1
    <3>3. q[l - k + i] = ms[k + (l - k + i) - 1] /\ k + (l - k + i) - 1 = l + i - 1
      BY <1>1, <2>2, <2>3, <3>1
    <3> QED
      BY <2>2, <3>1, <3>2, <3>3
  <2>7. IsSuffix(s, u)
    BY <2>2, <2>4, <2>5, <2>6, SuffixIs
  <2> QED
    BY <2>1, <2>7
<1>5. IsSuffix(LatestTurns(ms), ms)
  <2>1. CASE starts = {}
    <3>1. \A i \in 1 .. Len(ms) : ms[i] = ms[(Len(ms) - Len(ms)) + i]
      BY <1>1
    <3>2. IsSuffix(ms, ms)
      BY <1>1, <3>1, SuffixIs
    <3> QED
      BY <1>2, <2>1, <3>2
  <2>2. CASE starts # {}
    <3>1. Max(starts) \in 1 .. Len(ms) /\ 1 \in 1 .. Len(ms)
      BY <1>1, <1>3, <2>2
    <3>2. <<>> \in Seq(Message) /\ <<>> \o SubSeq(ms, 1, Len(ms)) = ms
      BY <1>1, ConcatEmptySeq, SubSeqFull
    <3>3. IsSuffix(SubSeq(ms, Max(starts), Len(ms)), <<>> \o SubSeq(ms, 1, Len(ms)))
      <4> HIDE DEF starts
      <4> QED
        BY <1>4, <3>1, <3>2
    <3> QED
      BY <1>2, <2>2, <3>2, <3>3
  <2> QED
    BY <2>1, <2>2
<1>6. CASE Trim(ms) = ms
  BY <1>5, <1>6
<1>7. CASE Trim(ms) # ms
  <2>1. PICK front : front = Pinned(ms) \o <<Note>>
    OBVIOUS
  <2>2. front \in Seq(Message)
    BY <1>1, <2>1, FrontIs, ConversationIs
  <2>3. PICK k \in UserTurns(ms) : /\ Trim(ms) = front \o SubSeq(ms, k, Len(ms))
                                 /\ Cardinality(TurnsFrom(ms, k)) >= MinTurns
    BY <1>7, <2>1, TrimIs
  <2>4. starts # {} /\ Max(starts) \in UserTurns(ms) /\ k <= Max(starts)
    BY <1>1, <2>3, LatestBegin
  <2>5. k \in 1 .. Len(ms) /\ Max(starts) \in k .. Len(ms)
    <3> HIDE DEF starts
    <3> QED
      BY <1>1, <2>4
  <2>6. IsSuffix(SubSeq(ms, Max(starts), Len(ms)), front \o SubSeq(ms, k, Len(ms)))
    <3> HIDE DEF starts
    <3> QED
      BY <1>4, <2>2, <2>5
  <2> QED
    BY <1>2, <1>5, <2>3, <2>4, <2>6
<1> QED
  BY <1>5, <1>6, <1>7

\* trim_messages: the MinTurns latest turns, the one being worked on among them,
\* go into the next request message by message.
THEOREM TurnsStay == Spec => LatestTurnsKept
<1> DEFINE Kept == stage = "looping" /\ ~closing' => IsSuffix(LatestTurns(memory), memory')
<1>1. ASSUME IInv, [Next]_vars
      PROVE  [Kept]_vars
  <2>1. SUFFICES ASSUME stage = "looping", ~closing', Next
                 PROVE  IsSuffix(LatestTurns(memory), memory')
    BY <1>1
  <2>2. NextStep
    BY <2>1 DEF Next, Start, LimitReached, Reply, RequestFails, ExecuteCall, AutoWrite, Ended
  <2>3. Conversation(memory)
    BY <1>1, <2>1 DEF IInv
  <2>4. IsSuffix(LatestTurns(memory), memory) /\ IsSuffix(LatestTurns(memory), Trim(memory))
    BY <2>3, TrimKeepsLatest
  <2> QED
    BY <2>2, <2>4 DEF NextStep
<1>2. Spec => [][Kept]_vars
  BY <1>1, InvInit, Inductive, PTL DEF Spec
<1> QED
  BY <1>2 DEF LatestTurnsKept
=============================================================================
