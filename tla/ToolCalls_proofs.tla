-------------------------- MODULE ToolCalls_proofs --------------------------
(***************************************************************************)
(* What is proved of ToolCalls for any paths, trees, policies, tools asked *)
(* for and changes by other programs: the base directory stays and the     *)
(* tree hangs together, protected files are not changed, and are shown     *)
(* only by listings that judge them from another directory.                *)
(***************************************************************************)
EXTENDS ToolCalls, SequenceTheorems, TLAPS

----------------------------------------------------------------------------
(* Paths                                                                   *)

Path == Seq(DOMAIN Fold)

\* The base directory is the empty path.
LEMMA BaseIs == Base \in Path /\ Len(Base) = 0
  BY EmptySeq DEF Base, Path

\* A prefix, name by name.
LEMMA PrefixIs ==
    ASSUME NEW p \in Path, NEW q \in Path
    PROVE  IsPrefix(p, q) <=> Len(p) <= Len(q) /\ \A i \in 1 .. Len(p) : p[i] = q[i]
<1>1. Len(p) \in Nat /\ Len(q) \in Nat /\ SubSeq(p, 1, Len(p)) = p
  BY LenProperties, SubSeqFull DEF Path
<1>2. CASE Len(p) <= Len(q)
  <2>1. \A i \in 1 .. Len(p) : q[i] \in DOMAIN Fold
    BY <1>1, <1>2, ElementOfSeq DEF Path
  <2>2. PICK r, n : r = SubSeq(q, 1, n) /\ n = Len(p)
    OBVIOUS
  <2>3. 1 \in Int /\ n \in Int /\ \A i \in 1 .. n : q[i] \in DOMAIN Fold
    BY <1>1, <2>1, <2>2
  <2>4. /\ SubSeq(q, 1, n) \in Path
        /\ Len(SubSeq(q, 1, n)) = IF 1 <= n THEN n - 1 + 1 ELSE 0
        /\ \A i \in 1 .. n - 1 + 1 : SubSeq(q, 1, n)[i] = q[1 + i - 1]
    BY <2>3, SubSeqProperties DEF Path
  <2>5. r \in Path /\ Len(r) = n /\ \A i \in 1 .. n : r[i] = q[i]
    BY <1>1, <2>2, <2>4
  <2>6. p = r <=> \A i \in 1 .. Len(p) : p[i] = r[i]
    BY <2>2, <2>5, SeqEqual DEF Path
  <2> QED
    BY <1>1, <1>2, <2>2, <2>5, <2>6 DEF IsPrefix
<1>3. CASE ~(Len(p) <= Len(q))
  BY <1>3 DEF IsPrefix
<1> QED
  BY <1>2, <1>3

\* Prefixes are ordered, and those of one path linearly.
LEMMA PrefixOrder ==
    ASSUME NEW p \in Path, NEW q \in Path, NEW r \in Path
    PROVE  /\ IsPrefix(p, p) /\ IsPrefix(Base, p)
           /\ IsPrefix(p, Base) => p = Base
           /\ IsPrefix(p, q) /\ IsPrefix(q, r) => IsPrefix(p, r)
           /\ IsPrefix(p, q) /\ IsPrefix(q, p) => p = q
           /\ IsPrefix(p, r) /\ IsPrefix(q, r) => IsPrefix(p, q) \/ IsPrefix(q, p)
<1>1. Len(p) \in Nat /\ Len(q) \in Nat /\ Len(r) \in Nat
  BY LenProperties DEF Path
<1>2. IsPrefix(p, p) /\ IsPrefix(Base, p)
  BY <1>1, BaseIs, PrefixIs
<1>3. IsPrefix(p, Base) => p = Base
  <2>1. IsPrefix(p, Base) => Len(p) = 0
    BY <1>1, BaseIs, PrefixIs
  <2> QED
    BY <2>1, EmptySeq DEF Base, Path
<1>4. IsPrefix(p, q) /\ IsPrefix(q, r) => IsPrefix(p, r)
  <2>1. SUFFICES ASSUME Len(p) <= Len(q), \A i \in 1 .. Len(p) : p[i] = q[i],
                        Len(q) <= Len(r), \A i \in 1 .. Len(q) : q[i] = r[i]
                 PROVE  Len(p) <= Len(r) /\ \A i \in 1 .. Len(p) : p[i] = r[i]
    BY PrefixIs
  <2>2. ASSUME NEW i \in 1 .. Len(p)
        PROVE  p[i] = r[i]
    <3>1. i \in 1 .. Len(q)
      BY <1>1, <2>1
    <3> QED
      BY <2>1, <3>1
  <2> QED
    BY <1>1, <2>1, <2>2
<1>5. IsPrefix(p, q) /\ IsPrefix(q, p) => p = q
  <2>1. IsPrefix(p, q) /\ IsPrefix(q, p) => Len(p) = Len(q) /\ \A i \in 1 .. Len(p) : p[i] = q[i]
    BY <1>1, PrefixIs
  <2> QED
    BY <2>1, SeqEqual DEF Path
<1>6. IsPrefix(p, r) /\ IsPrefix(q, r) => IsPrefix(p, q) \/ IsPrefix(q, p)
  <2>1. SUFFICES ASSUME Len(p) <= Len(r), \A i \in 1 .. Len(p) : p[i] = r[i],
                        Len(q) <= Len(r), \A i \in 1 .. Len(q) : q[i] = r[i]
                 PROVE  IsPrefix(p, q) \/ IsPrefix(q, p)
    BY PrefixIs
  <2>2. CASE Len(p) <= Len(q)
    <3>1. \A i \in 1 .. Len(p) : p[i] = q[i]
      BY <1>1, <2>1, <2>2
    <3> QED
      BY <2>2, <3>1, PrefixIs
  <2>3. CASE Len(q) <= Len(p)
    <3>1. \A i \in 1 .. Len(q) : q[i] = p[i]
      BY <1>1, <2>1, <2>3
    <3> QED
      BY <2>3, <3>1, PrefixIs
  <2> QED
    BY <1>1, <2>2, <2>3
<1> QED
  BY <1>2, <1>3, <1>4, <1>5, <1>6

\* The parent of a path, and the path of an entry of a directory.
LEMMA ParentIs ==
    ASSUME NEW q \in Path, q # Base, NEW r \in Path
    PROVE  /\ Front(q) \in Path /\ Front(q) # q /\ IsPrefix(Front(q), q)
           /\ Len(Front(q)) = Len(q) - 1 /\ Last(q) \in DOMAIN Fold
           /\ IsPrefix(r, q) /\ r # q => IsPrefix(r, Front(q))
<1>1. Len(q) \in Nat \ {0} /\ Len(r) \in Nat
  BY LenProperties, EmptySeq DEF Base, Path
<1>2. \A i \in 1 .. Len(q) : q[i] \in DOMAIN Fold
  BY ElementOfSeq DEF Path
<1>3. PICK f, n : f = Front(q) /\ n = Len(q) - 1 /\ n \in Nat
  BY <1>1
<1>4. f \in Path /\ Len(f) = n /\ \A i \in 1 .. n : f[i] = q[i]
  <2>1. 1 \in Int /\ n \in Int /\ \A i \in 1 .. n : q[i] \in DOMAIN Fold
    BY <1>1, <1>2, <1>3
  <2>2. /\ SubSeq(q, 1, n) \in Path
        /\ Len(SubSeq(q, 1, n)) = IF 1 <= n THEN n - 1 + 1 ELSE 0
        /\ \A i \in 1 .. n - 1 + 1 : SubSeq(q, 1, n)[i] = q[1 + i - 1]
    BY <2>1, SubSeqProperties DEF Path
  <2>3. f = SubSeq(q, 1, n)
    BY <1>3 DEF Front
  <2> QED
    BY <1>3, <2>2, <2>3
<1>5. IsPrefix(f, q) /\ f # q
  BY <1>1, <1>3, <1>4, PrefixIs
<1>6. Last(q) \in DOMAIN Fold
  BY <1>1, <1>2 DEF Last
<1>7. IsPrefix(r, q) /\ r # q => IsPrefix(r, f)
  <2>1. SUFFICES ASSUME IsPrefix(r, q), r # q
                 PROVE  IsPrefix(r, f)
    OBVIOUS
  <2>2. Len(r) <= Len(q) /\ \A i \in 1 .. Len(r) : r[i] = q[i]
    BY <2>1, PrefixIs
  <2>3. Len(r) # Len(q)
    BY <2>1, <2>2, SeqEqual DEF Path
  <2>4. Len(r) <= Len(f) /\ \A i \in 1 .. Len(r) : r[i] = f[i]
    BY <1>1, <1>3, <1>4, <2>2, <2>3
  <2> QED
    BY <1>4, <2>4, PrefixIs
<1> QED
  BY <1>3, <1>4, <1>5, <1>6, <1>7

\* The ancestors of a path are its prefixes, and there is one of each length.
LEMMA AncestorsAre ==
    ASSUME NEW p \in Path
    PROVE  /\ Ancestors(p) = {r \in Path : IsPrefix(r, p)}
           /\ \A r \in Path : IsPrefix(r, p) /\ r # p =>
                 \E i \in 0 .. Len(p) - 1 : r = SubSeq(p, 1, i)
<1>1. Len(p) \in Nat /\ \A i \in 1 .. Len(p) : p[i] \in DOMAIN Fold
  BY LenProperties, ElementOfSeq DEF Path
<1>2. ASSUME NEW n \in 0 .. Len(p)
      PROVE  /\ SubSeq(p, 1, n) \in Path /\ Len(SubSeq(p, 1, n)) = n
             /\ \A i \in 1 .. n : SubSeq(p, 1, n)[i] = p[i]
  <2>1. 1 \in Int /\ n \in Int /\ n \in Nat /\ \A i \in 1 .. n : p[i] \in DOMAIN Fold
    BY <1>1
  <2>2. /\ SubSeq(p, 1, n) \in Path
        /\ Len(SubSeq(p, 1, n)) = IF 1 <= n THEN n - 1 + 1 ELSE 0
        /\ \A i \in 1 .. n - 1 + 1 : SubSeq(p, 1, n)[i] = p[1 + i - 1]
    BY <2>1, SubSeqProperties DEF Path
  <2> QED
    BY <2>1, <2>2
<1>3. ASSUME NEW n \in 0 .. Len(p)
      PROVE  IsPrefix(SubSeq(p, 1, n), p)
  <2>1. PICK r : r = SubSeq(p, 1, n)
    OBVIOUS
  <2>2. r \in Path /\ Len(r) = n /\ \A i \in 1 .. n : r[i] = p[i]
    BY <1>2, <2>1
  <2>3. Len(r) <= Len(p)
    BY <1>1, <2>2
  <2> QED
    BY <2>1, <2>2, <2>3, PrefixIs
<1>4. ASSUME NEW r \in Path, IsPrefix(r, p)
      PROVE  Len(r) \in 0 .. Len(p) /\ r = SubSeq(p, 1, Len(r)) /\ (r # p => Len(r) # Len(p))
  <2>1. Len(r) \in Nat /\ Len(r) <= Len(p) /\ \A i \in 1 .. Len(r) : r[i] = p[i]
    BY <1>4, PrefixIs, LenProperties DEF Path
  <2>2. Len(r) \in 0 .. Len(p)
    BY <1>1, <2>1
  <2>3. PICK u : u = SubSeq(p, 1, Len(r))
    OBVIOUS
  <2>4. u \in Path /\ Len(u) = Len(r) /\ \A i \in 1 .. Len(r) : r[i] = u[i]
    BY <1>2, <2>1, <2>2, <2>3
  <2>5. r = u
    BY <2>4, SeqEqual DEF Path
  <2>6. r # p => Len(r) # Len(p)
    BY <2>1, SeqEqual DEF Path
  <2> QED
    BY <2>2, <2>3, <2>5, <2>6
<1>5. Ancestors(p) = {r \in Path : IsPrefix(r, p)}
  BY <1>2, <1>3, <1>4 DEF Ancestors
<1>6. ASSUME NEW r \in Path, IsPrefix(r, p), r # p
      PROVE  \E i \in 0 .. Len(p) - 1 : r = SubSeq(p, 1, i)
  <2>1. PICK n : n = Len(r)
    OBVIOUS
  <2>2. n \in 0 .. Len(p) - 1 /\ r = SubSeq(p, 1, n)
    BY <1>1, <1>4, <1>6, <2>1
  <2> QED
    BY <2>2
<1> QED
  BY <1>5, <1>6

\* What a path is extended by.
LEMMA JoinIs ==
    ASSUME NEW p \in Path, NEW v \in Path, NEW w \in Path
    PROVE  /\ p \o w \in Path /\ IsPrefix(p, p \o w) /\ Below(p \o w, p) = w
           /\ IsPrefix(p \o v, p \o w) <=> IsPrefix(v, w)
           /\ p \o v = p \o w => v = w
<1>1. Len(p) \in Nat /\ Len(v) \in Nat /\ Len(w) \in Nat
  BY LenProperties DEF Path
<1>2. PICK a, b : a = p \o v /\ b = p \o w
  OBVIOUS
<1>3. /\ a \in Path /\ b \in Path /\ Len(a) = Len(p) + Len(v) /\ Len(b) = Len(p) + Len(w)
      /\ \A i \in 1 .. Len(p) + Len(v) : a[i] = IF i <= Len(p) THEN p[i] ELSE v[i - Len(p)]
      /\ \A i \in 1 .. Len(p) + Len(w) : b[i] = IF i <= Len(p) THEN p[i] ELSE w[i - Len(p)]
  BY <1>2, ConcatProperties DEF Path
<1>4. IsPrefix(p, b)
  <2>1. Len(p) <= Len(b) /\ \A i \in 1 .. Len(p) : p[i] = b[i]
    BY <1>1, <1>3
  <2> QED
    BY <1>3, <2>1, PrefixIs
<1>5. Below(b, p) = w
  <2>1. PICK m, n, u : m = Len(p) + 1 /\ n = Len(b) /\ u = SubSeq(b, m, n)
    OBVIOUS
  <2>2. m \in Int /\ n \in Int /\ \A i \in m .. n : b[i] \in DOMAIN Fold
    <3>1. ASSUME NEW i \in m .. n
          PROVE  b[i] \in DOMAIN Fold
      <4>1. i \in 1 .. Len(b)
        BY <1>1, <1>3, <2>1
      <4> QED
        BY <1>3, <4>1, ElementOfSeq DEF Path
    <3> QED
      BY <1>1, <1>3, <2>1, <3>1
  <2>3. /\ SubSeq(b, m, n) \in Path
        /\ Len(SubSeq(b, m, n)) = IF m <= n THEN n - m + 1 ELSE 0
        /\ \A i \in 1 .. n - m + 1 : SubSeq(b, m, n)[i] = b[m + i - 1]
    BY <2>2, SubSeqProperties DEF Path
  <2>4. u \in Path /\ Len(u) = Len(w)
    BY <1>1, <1>3, <2>1, <2>3
  <2>5. ASSUME NEW i \in 1 .. Len(w)
        PROVE  u[i] = w[i]
    <3>1. i \in 1 .. n - m + 1 /\ m + i - 1 = Len(p) + i /\ Len(p) + i \in 1 .. Len(p) + Len(w)
          /\ ~(Len(p) + i <= Len(p)) /\ Len(p) + i - Len(p) = i
      BY <1>1, <1>3, <2>1
    <3>2. u[i] = b[Len(p) + i]
      BY <2>1, <2>3, <3>1
    <3> QED
      BY <1>3, <3>1, <3>2
  <2>6. u = w
    BY <2>4, <2>5, SeqEqual DEF Path
  <2> QED
    BY <2>1, <2>6 DEF Below
<1>6. IsPrefix(a, b) <=> IsPrefix(v, w)
  <2>1. IsPrefix(a, b) <=> Len(a) <= Len(b) /\ \A i \in 1 .. Len(a) : a[i] = b[i]
    BY <1>3, PrefixIs
  <2>2. IsPrefix(v, w) <=> Len(v) <= Len(w) /\ \A i \in 1 .. Len(v) : v[i] = w[i]
    BY PrefixIs
  <2>3. Len(a) <= Len(b) <=> Len(v) <= Len(w)
    BY <1>1, <1>3
  <2>4. ASSUME Len(v) <= Len(w), \A i \in 1 .. Len(a) : a[i] = b[i], NEW i \in 1 .. Len(v)
        PROVE  v[i] = w[i]
    <3>1. /\ Len(p) + i \in 1 .. Len(p) + Len(v) /\ Len(p) + i \in 1 .. Len(p) + Len(w)
          /\ ~(Len(p) + i <= Len(p)) /\ Len(p) + i - Len(p) = i
      BY <1>1, <2>4
    <3>2. a[Len(p) + i] = v[i] /\ b[Len(p) + i] = w[i] /\ Len(p) + i \in 1 .. Len(a)
      BY <1>3, <3>1
    <3> QED
      BY <2>4, <3>2
  <2>5. ASSUME Len(v) <= Len(w), \A i \in 1 .. Len(v) : v[i] = w[i], NEW i \in 1 .. Len(a)
        PROVE  a[i] = b[i]
    <3>1. i \in 1 .. Len(p) + Len(v) /\ i \in 1 .. Len(p) + Len(w)
      BY <1>1, <1>3, <2>5
    <3>2. ~(i <= Len(p)) => i - Len(p) \in 1 .. Len(v)
      BY <1>1, <3>1
    <3> QED
      BY <1>3, <2>5, <3>1, <3>2
  <2> QED
    BY <2>1, <2>2, <2>3, <2>4, <2>5
<1>7. a = b => v = w
  <2>1. Len(p) + Len(v) = Len(p) + Len(w) => Len(v) = Len(w)
    BY <1>1
  <2>2. a = b => IsPrefix(a, b)
    BY <1>3, PrefixOrder
  <2>3. IsPrefix(v, w) /\ Len(v) = Len(w) => v = w
    BY PrefixIs, SeqEqual DEF Path
  <2> QED
    BY <1>3, <1>6, <2>1, <2>2, <2>3
<1> QED
  BY <1>2, <1>3, <1>4, <1>5, <1>6, <1>7

\* A path is what it is below, extended.
LEMMA BelowIs ==
    ASSUME NEW p \in Path, NEW q \in Path, IsPrefix(p, q)
    PROVE  Below(q, p) \in Path /\ p \o Below(q, p) = q
<1>1. /\ Len(p) \in Nat /\ Len(q) \in Nat /\ Len(p) <= Len(q)
      /\ \A i \in 1 .. Len(p) : p[i] = q[i]
  BY PrefixIs, LenProperties DEF Path
<1>2. PICK m, n, u : m = Len(p) + 1 /\ n = Len(q) /\ u = SubSeq(q, m, n)
  OBVIOUS
<1>3. m \in Int /\ n \in Int /\ \A i \in m .. n : q[i] \in DOMAIN Fold
  <2>1. ASSUME NEW i \in m .. n
        PROVE  q[i] \in DOMAIN Fold
    <3>1. i \in 1 .. Len(q)
      BY <1>1, <1>2
    <3> QED
      BY <3>1, ElementOfSeq DEF Path
  <2> QED
    BY <1>1, <1>2, <2>1
<1>4. /\ SubSeq(q, m, n) \in Path
      /\ Len(SubSeq(q, m, n)) = IF m <= n THEN n - m + 1 ELSE 0
      /\ \A i \in 1 .. n - m + 1 : SubSeq(q, m, n)[i] = q[m + i - 1]
  BY <1>3, SubSeqProperties DEF Path
<1>5. u \in Path /\ Len(u) = Len(q) - Len(p)
  BY <1>1, <1>2, <1>4
<1>6. PICK b : b = p \o u
  OBVIOUS
<1>7. /\ b \in Path /\ Len(b) = Len(p) + Len(u)
      /\ \A i \in 1 .. Len(p) + Len(u) : b[i] = IF i <= Len(p) THEN p[i] ELSE u[i - Len(p)]
  BY <1>5, <1>6, ConcatProperties DEF Path
<1>8. ASSUME NEW i \in 1 .. Len(q)
      PROVE  b[i] = q[i]
  <2>1. i \in 1 .. Len(p) + Len(u)
    BY <1>1, <1>5
  <2>2. CASE i <= Len(p)
    <3>1. i \in 1 .. Len(p)
      BY <1>1, <2>2
    <3> QED
      BY <1>1, <1>7, <2>1, <2>2, <3>1
  <2>3. CASE ~(i <= Len(p))
    <3>1. i - Len(p) \in 1 .. n - m + 1 /\ m + (i - Len(p)) - 1 = i
      BY <1>1, <1>2, <2>3
    <3>2. u[i - Len(p)] = q[i]
      BY <1>2, <1>4, <3>1
    <3> QED
      BY <1>7, <2>1, <2>3, <3>2
  <2> QED
    BY <2>2, <2>3
<1>9. b = q
  <2>1. Len(b) = Len(q)
    BY <1>1, <1>5, <1>7
  <2> QED
    BY <1>7, <1>8, <2>1, SeqEqual DEF Path
<1> QED
  BY <1>2, <1>5, <1>6, <1>9 DEF Below

\* An entry of a directory.
LEMMA EntryIs ==
    ASSUME NEW d \in Path, NEW e \in DOMAIN Fold
    PROVE  /\ Append(d, e) \in Path /\ Append(d, e) # Base /\ Append(d, e) # d
           /\ Front(Append(d, e)) = d /\ IsPrefix(d, Append(d, e))
<1>1. PICK q : q = Append(d, e)
  OBVIOUS
<1>2. Len(d) \in Nat
  BY LenProperties DEF Path
<1>3. /\ q \in Path /\ q # Base /\ Len(q) = Len(d) + 1
      /\ \A i \in 1 .. Len(d) : q[i] = d[i]
  BY <1>1, AppendProperties DEF Path, Base
<1>4. IsPrefix(d, q)
  <2>1. Len(d) <= Len(q) /\ \A i \in 1 .. Len(d) : d[i] = q[i]
    BY <1>2, <1>3
  <2> QED
    BY <1>3, <2>1, PrefixIs
<1>5. d # q
  BY <1>2, <1>3
<1>6. IsPrefix(d, Front(q)) /\ Front(q) \in Path /\ Len(Front(q)) = Len(d)
  BY <1>2, <1>3, <1>4, <1>5, ParentIs
<1>7. Front(q) = d
  BY <1>6, PrefixIs, SeqEqual DEF Path
<1> QED
  BY <1>1, <1>3, <1>4, <1>5, <1>7

\* What is above a path that has moved from below p to below to.
LEMMA MovedIs ==
    ASSUME NEW p \in Path, NEW to \in Path, NEW s \in Path, IsPrefix(p, s),
           NEW r \in Path, IsPrefix(r, to \o Below(s, p)), r # to \o Below(s, p)
    PROVE  \/ IsPrefix(r, to) /\ r # to
           \/ \E u \in Path : /\ IsPrefix(p, u) /\ IsPrefix(u, s) /\ u # s
                              /\ r = to \o Below(u, p)
<1>1. Below(s, p) \in Path /\ p \o Below(s, p) = s
  BY BelowIs
<1>2. to \o Below(s, p) \in Path /\ IsPrefix(to, to \o Below(s, p))
  BY <1>1, JoinIs
<1>3. IsPrefix(r, to) \/ IsPrefix(to, r)
  BY <1>2, PrefixOrder
<1>4. CASE IsPrefix(r, to) /\ r # to
  BY <1>4
<1>5. CASE IsPrefix(to, r)
  <2>1. Below(r, to) \in Path /\ to \o Below(r, to) = r
    BY <1>5, BelowIs
  <2>2. PICK v, w, u : v = Below(r, to) /\ w = Below(s, p) /\ u = p \o v
    OBVIOUS
  <2>3. u \in Path /\ IsPrefix(p, u) /\ Below(u, p) = v
    BY <2>1, <2>2, JoinIs
  <2>4. v \in Path /\ w \in Path /\ to \o v = r /\ p \o w = s /\ p \o v = u
    BY <1>1, <2>1, <2>2
  <2>5. IsPrefix(to \o v, to \o w) /\ to \o v # to \o w
    BY <2>2, <2>4
  <2>6. IsPrefix(v, w) /\ v # w
    <3>1. IsPrefix(to \o v, to \o w) <=> IsPrefix(v, w)
      BY <2>4, JoinIs
    <3> QED
      BY <2>5, <3>1
  <2>7. IsPrefix(u, s)
    <3>1. IsPrefix(p \o v, p \o w) <=> IsPrefix(v, w)
      BY <2>4, JoinIs
    <3> QED
      BY <2>4, <2>6, <3>1
  <2>8. u # s
    <3>1. p \o v = p \o w => v = w
      BY <2>4, JoinIs
    <3> QED
      BY <2>4, <2>6, <3>1
  <2> QED
    BY <2>1, <2>2, <2>3, <2>7, <2>8
<1>6. IsPrefix(to, to)
  BY PrefixOrder
<1> QED
  BY <1>3, <1>4, <1>5, <1>6

----------------------------------------------------------------------------
(* Trees                                                                   *)

\* Whatever is above a path of the tree is a directory of it.
Whole(t) ==
    /\ DOMAIN t \subseteq Path /\ IsDir(t, Base)
    /\ \A q \in DOMAIN t, r \in Path : IsPrefix(r, q) /\ r # q => IsDir(t, r)

\* A whole tree has the base directory and the parent of every path.
LEMMA WholeKeepsBase ==
    ASSUME NEW t, Whole(t)
    PROVE  IsDir(t, Base) /\ \A p \in DOMAIN t \ {Base} : IsDir(t, Front(p))
<1>1. ASSUME NEW p \in DOMAIN t \ {Base}
      PROVE  IsDir(t, Front(p))
  <2>1. p \in Path /\ p # Base
    BY DEF Whole
  <2>2. Front(p) \in Path /\ IsPrefix(Front(p), p) /\ Front(p) # p
    BY <2>1, ParentIs
  <2> QED
    BY <2>2 DEF Whole
<1> QED
  BY <1>1 DEF Whole

\* What is taken out takes along what is below it.
LEMMA WithoutWhole ==
    ASSUME NEW t, Whole(t), NEW ps, Base \notin ps,
           \A q \in DOMAIN t \ ps, r \in ps : r \in Path => ~IsPrefix(r, q)
    PROVE  Whole(Without(t, ps))
<1>1. DOMAIN Without(t, ps) = DOMAIN t \ ps /\ \A q \in DOMAIN t \ ps : Without(t, ps)[q] = t[q]
  BY DEF Without
<1>2. IsDir(Without(t, ps), Base)
  BY <1>1 DEF Whole, IsDir
<1>3. ASSUME NEW q \in DOMAIN t \ ps, NEW r \in Path, IsPrefix(r, q), r # q
      PROVE  IsDir(Without(t, ps), r)
  <2>1. IsDir(t, r) /\ r \notin ps
    BY <1>3 DEF Whole
  <2> QED
    BY <1>1, <2>1 DEF IsDir
<1> QED
  BY <1>1, <1>2, <1>3 DEF Whole

\* A node is put where its parent is a directory, and a file in no directory's place.
LEMMA WithNodeWhole ==
    ASSUME NEW t, Whole(t), NEW p \in Path, p # Base, IsDir(t, Front(p)), NEW node,
           node = "dir" \/ \A q \in DOMAIN t : IsPrefix(p, q) => q = p
    PROVE  Whole(WithNode(t, p, node))
<1>1. PICK u : u = WithNode(t, p, node)
  OBVIOUS
<1>2. /\ DOMAIN u = DOMAIN t \cup {p}
      /\ \A q \in DOMAIN u : u[q] = IF q = p THEN node ELSE t[q]
  BY <1>1 DEF WithNode
<1>3. IsDir(u, Base)
  BY <1>2 DEF Whole, IsDir
<1>4. Front(p) \in Path /\ Front(p) \in DOMAIN t
  BY ParentIs DEF IsDir
<1>5. ASSUME NEW q \in DOMAIN u, NEW r \in Path, IsPrefix(r, q), r # q
      PROVE  IsDir(u, r)
  <2>1. IsDir(t, r)
    <3>1. CASE q = p
      <4>1. IsPrefix(r, Front(p))
        BY <1>5, <3>1, ParentIs
      <4> QED
        BY <1>4, <4>1 DEF Whole
    <3>2. CASE q \in DOMAIN t
      BY <1>5, <3>2 DEF Whole
    <3> QED
      BY <1>2, <3>1, <3>2
  <2>2. CASE r = p
    <3>1. q \in DOMAIN t
      BY <1>2, <1>5, <2>2
    <3> QED
      BY <1>2, <1>5, <2>2, <3>1 DEF IsDir
  <2>3. CASE r # p
    BY <1>2, <2>1, <2>3 DEF IsDir
  <2> QED
    BY <2>2, <2>3
<1> QED
  BY <1>1, <1>2, <1>3, <1>5 DEF Whole

\* mkdir with parents adds directories and changes nothing.
LEMMA MadeWhole ==
    ASSUME NEW t, Whole(t), NEW p \in Path, CanMake(t, p)
    PROVE  /\ Whole(Made(t, p)) /\ DOMAIN t \subseteq DOMAIN Made(t, p) /\ IsDir(Made(t, p), p)
           /\ \A q \in DOMAIN t : Made(t, p)[q] = t[q]
           /\ \A q \in DOMAIN Made(t, p) \ DOMAIN t : Made(t, p)[q] = "dir"
<1>1. PICK u : u = Made(t, p)
  OBVIOUS
<1>2. Ancestors(p) = {r \in Path : IsPrefix(r, p)}
  BY AncestorsAre
<1>3. /\ DOMAIN u = DOMAIN t \cup Ancestors(p)
      /\ \A q \in DOMAIN u : u[q] = IF q \in DOMAIN t THEN t[q] ELSE "dir"
  BY <1>1 DEF Made
<1>4. \A r \in Ancestors(p) : IsDir(u, r)
  BY <1>3 DEF CanMake, IsDir
<1>5. IsDir(u, Base)
  BY <1>3 DEF Whole, IsDir
<1>6. ASSUME NEW q \in DOMAIN u, NEW r \in Path, IsPrefix(r, q), r # q
      PROVE  IsDir(u, r)
  <2>1. CASE q \in DOMAIN t
    <3>1. IsDir(t, r)
      BY <1>6, <2>1 DEF Whole
    <3> QED
      BY <1>3, <3>1 DEF IsDir
  <2>2. CASE q \in Ancestors(p)
    <3>1. r \in Ancestors(p)
      BY <1>2, <1>6, <2>2, PrefixOrder
    <3> QED
      BY <1>4, <3>1
  <2> QED
    BY <1>3, <2>1, <2>2
<1>7. p \in Ancestors(p)
  BY <1>2, PrefixOrder
<1> QED
  BY <1>1, <1>2, <1>3, <1>4, <1>5, <1>6, <1>7 DEF Whole

\* What is moved takes along what is below it; where it goes there is no directory.
LEMMA RenamedWhole ==
    ASSUME NEW t, Whole(t), NEW p \in DOMAIN t, NEW to \in Path, to # Base,
           ~IsPrefix(p, to), IsDir(t, Front(to)), ~IsDir(t, to)
    PROVE  /\ Whole(Renamed(t, p, to))
           /\ \A q \in DOMAIN t : ~IsPrefix(p, q) /\ q # to =>
                 q \in DOMAIN Renamed(t, p, to) /\ Renamed(t, p, to)[q] = t[q]
<1>1. PICK u : u = Renamed(t, p, to)
  OBVIOUS
<1> DEFINE Moved == {to \o Below(s, p) : s \in Subtree(t, p)}
<1>2. /\ DOMAIN u = (DOMAIN t \ Subtree(t, p)) \cup Moved
      /\ \A q \in DOMAIN u : u[q] = IF IsPrefix(to, q) THEN t[p \o Below(q, to)] ELSE t[q]
  BY <1>1 DEF Renamed
<1>3. p \in Path /\ \A s \in Subtree(t, p) : s \in DOMAIN t /\ s \in Path /\ IsPrefix(p, s)
  BY DEF Whole, Subtree
<1>4. \A q \in DOMAIN t : IsPrefix(to, q) => q = to
  BY DEF Whole
<1>5. ASSUME NEW s \in Subtree(t, p)
      PROVE  /\ to \o Below(s, p) \in Path /\ IsPrefix(to, to \o Below(s, p))
             /\ u[to \o Below(s, p)] = t[s] /\ to \o Below(s, p) \in DOMAIN u
  <2>1. PICK w : w = Below(s, p)
    OBVIOUS
  <2>2. w \in Path /\ p \o w = s
    BY <1>3, <2>1, BelowIs
  <2>3. to \o w \in Path /\ IsPrefix(to, to \o w) /\ Below(to \o w, to) = w
    BY <2>2, JoinIs
  <2>4. to \o w \in DOMAIN u
    BY <1>2, <2>1
  <2>5. u[to \o w] = t[s]
    BY <1>2, <2>2, <2>3, <2>4
  <2> QED
    BY <2>1, <2>3, <2>4, <2>5
<1>6. ASSUME NEW q \in DOMAIN t, ~IsPrefix(p, q), q # to
      PROVE  q \in DOMAIN u /\ u[q] = t[q]
  BY <1>2, <1>4, <1>6 DEF Subtree
<1>7. IsDir(u, Base)
  <2>1. Base \in DOMAIN t /\ t[Base] = "dir"
    BY DEF Whole, IsDir
  <2>2. ~IsPrefix(p, Base)
    BY <1>3, PrefixOrder
  <2> QED
    BY <1>6, <2>1, <2>2 DEF IsDir
<1>8. ASSUME NEW r \in Path, IsPrefix(r, to), r # to
      PROVE  IsDir(u, r)
  <2>1. IsPrefix(r, Front(to)) /\ Front(to) \in Path /\ Front(to) \in DOMAIN t
    BY <1>8, ParentIs DEF IsDir
  <2>2. IsDir(t, r)
    BY <2>1 DEF Whole
  <2>3. ~IsPrefix(p, r)
    BY <1>3, <1>8, PrefixOrder
  <2> QED
    BY <1>6, <1>8, <2>2, <2>3 DEF IsDir
<1>9. ASSUME NEW q \in DOMAIN u, NEW r \in Path, IsPrefix(r, q), r # q
      PROVE  IsDir(u, r)
  <2>1. CASE q \in Moved
    <3>1. PICK s \in Subtree(t, p) : q = to \o Below(s, p)
      BY <2>1
    <3>2. s \in Path /\ IsPrefix(p, s) /\ s \in DOMAIN t
      BY <1>3
    <3>3. CASE IsPrefix(r, to) /\ r # to
      BY <1>8, <3>3
    <3>4. CASE \E v \in Path : IsPrefix(p, v) /\ IsPrefix(v, s) /\ v # s /\ r = to \o Below(v, p)
      <4>1. PICK v \in Path : IsPrefix(p, v) /\ IsPrefix(v, s) /\ v # s /\ r = to \o Below(v, p)
        BY <3>4
      <4>2. IsDir(t, v)
        BY <3>2, <4>1 DEF Whole
      <4>3. v \in Subtree(t, p)
        BY <4>1, <4>2 DEF Subtree, IsDir
      <4> QED
        BY <1>5, <4>1, <4>2, <4>3 DEF IsDir
    <3>5. \/ IsPrefix(r, to) /\ r # to
          \/ \E v \in Path : IsPrefix(p, v) /\ IsPrefix(v, s) /\ v # s /\ r = to \o Below(v, p)
      <4>1. IsPrefix(r, to \o Below(s, p)) /\ r # to \o Below(s, p)
        BY <1>9, <3>1
      <4> HIDE DEF Moved
      <4> QED
        BY <1>3, <1>9, <3>2, <4>1, MovedIs
    <3> QED
      BY <3>3, <3>4, <3>5
  <2>2. CASE q \in DOMAIN t \ Subtree(t, p)
    <3>1. q \in Path /\ ~IsPrefix(p, q) /\ IsDir(t, r)
      BY <1>9, <2>2 DEF Whole, Subtree
    <3>2. ~IsPrefix(p, r)
      BY <1>3, <1>9, <3>1, PrefixOrder
    <3>3. r # to
      BY <3>1
    <3> QED
      BY <1>6, <3>1, <3>2, <3>3 DEF IsDir
  <2> QED
    BY <1>2, <2>1, <2>2
<1>10. DOMAIN u \subseteq Path
  <2>1. Moved \subseteq Path
    BY <1>5
  <2> QED
    BY <1>2, <2>1 DEF Whole
<1> QED
  BY <1>1, <1>6, <1>7, <1>9, <1>10 DEF Whole

----------------------------------------------------------------------------
(* The table of tools                                                      *)

\* Row by row, the names a table holds.
LEMMA NamesAre ==
    /\ Names(SystemTools) = {"readfile", "exists", "fileinfo", "listdir", "writefile", "appendfile",
                             "mkdir", "movefile", "deletefile", "deletedir"}
    /\ Names(ReadWriteTools) = {"search_code", "find_files", "list_tree", "find_definition",
                                "find_references", "read_lines", "get_python_symbols",
                                "extract_imports", "replace_in_file", "replace_lines"}
    /\ Names(PythonTools) = {"syntax_check_python", "python_compile_check", "run_python_file",
                             "python", "python_interpreter", "run_module", "run_tests",
                             "lint_python", "format_python"}
    /\ Names(NodeTools) = {"node_syntax_check", "node_run_script", "node_test", "node_lint",
                           "node_format", "ts_typecheck"}
    /\ Names(DotnetTools) = {"dotnet_restore", "dotnet_build", "dotnet_test", "dotnet_run"}
    /\ Names(GitTools) = {"git_status", "git_diff", "git_log", "git_show", "git_branches",
                          "git_ls_files", "git_blame"}
    /\ Names(KVTools) = {"kv_get", "kv_list", "kv_set", "kv_delete", "kv_clear_expired"}
    /\ Names(KVSearchTools) = {"kv_search"}
    /\ Names(HardwareTools) = {"serial_list_ports", "serial_send", "image_describe"}
    /\ Names(WebTools) = {"web_search", "web_fetch", "sandbox_run"}
    /\ Names(DataTools) = {"determinar_tipo_dato", "generar_grafico_barras"}
<1>1. Names(SystemTools) = {"readfile", "exists", "fileinfo", "listdir", "writefile", "appendfile",
                             "mkdir", "movefile", "deletefile", "deletedir"}
  BY DEF Names, SystemTools, Row
<1>2. Names(ReadWriteTools) = {"search_code", "find_files", "list_tree", "find_definition",
                                "find_references", "read_lines", "get_python_symbols",
                                "extract_imports", "replace_in_file", "replace_lines"}
  BY DEF Names, ReadWriteTools, Row
<1>3. Names(PythonTools) = {"syntax_check_python", "python_compile_check", "run_python_file",
                             "python", "python_interpreter", "run_module", "run_tests",
                             "lint_python", "format_python"}
  BY DEF Names, PythonTools, Row
<1>4. Names(NodeTools) = {"node_syntax_check", "node_run_script", "node_test", "node_lint",
                           "node_format", "ts_typecheck"}
  BY DEF Names, NodeTools, Row
<1>5. Names(DotnetTools) = {"dotnet_restore", "dotnet_build", "dotnet_test", "dotnet_run"}
  BY DEF Names, DotnetTools, Row
<1>6. Names(GitTools) = {"git_status", "git_diff", "git_log", "git_show", "git_branches",
                          "git_ls_files", "git_blame"}
  BY DEF Names, GitTools, Row
<1>7. /\ Names(KVTools) = {"kv_get", "kv_list", "kv_set", "kv_delete", "kv_clear_expired"}
      /\ Names(KVSearchTools) = {"kv_search"}
  BY DEF Names, KVTools, KVSearchTools, Row
<1>8. /\ Names(HardwareTools) = {"serial_list_ports", "serial_send", "image_describe"}
      /\ Names(WebTools) = {"web_search", "web_fetch", "sandbox_run"}
  BY DEF Names, HardwareTools, WebTools, Row
<1>9. Names(DataTools) = {"determinar_tipo_dato", "generar_grafico_barras"}
  BY DEF Names, DataTools, Row
<1> QED
  BY <1>1, <1>2, <1>3, <1>4, <1>5, <1>6, <1>7, <1>8, <1>9

\* In one table no tool is registered twice.
Apart(rows) == \A r, q \in rows : r.names \cap q.names # {} => r = q

\* Table by table, the tools are registered once.
LEMMA TablesApart ==
    /\ Apart(SystemTools) /\ Apart(ReadWriteTools) /\ Apart(PythonTools) /\ Apart(NodeTools)
    /\ Apart(DotnetTools) /\ Apart(GitTools) /\ Apart(KVTools) /\ Apart(KVSearchTools)
    /\ Apart(HardwareTools) /\ Apart(WebTools) /\ Apart(DataTools)
<1>1. Apart(SystemTools)
  BY DEF Apart, SystemTools, Row
<1>2. Apart(ReadWriteTools)
  BY DEF Apart, ReadWriteTools, Row
<1>3. Apart(PythonTools)
  BY DEF Apart, PythonTools, Row
<1>4. Apart(NodeTools) /\ Apart(DotnetTools) /\ Apart(GitTools)
  BY DEF Apart, NodeTools, DotnetTools, GitTools, Row
<1>5. Apart(KVTools) /\ Apart(KVSearchTools) /\ Apart(HardwareTools)
  BY DEF Apart, KVTools, KVSearchTools, HardwareTools, Row
<1>6. Apart(WebTools) /\ Apart(DataTools)
  BY DEF Apart, WebTools, DataTools, Row
<1> QED
  BY <1>1, <1>2, <1>3, <1>4, <1>5, <1>6

\* Two tables with no tool in common.
LEMMA ApartJoin ==
    ASSUME NEW A, NEW B, Apart(A), Apart(B), Names(A) \cap Names(B) = {}
    PROVE  Apart(A \cup B) /\ Names(A \cup B) = Names(A) \cup Names(B)
<1>1. Names(A \cup B) = Names(A) \cup Names(B)
  BY DEF Names
<1>2. ASSUME NEW r \in A \cup B, NEW q \in A \cup B, r.names \cap q.names # {}
      PROVE  r = q
  <2>1. PICK t : t \in r.names /\ t \in q.names
    BY <1>2
  <2>2. \A s \in A : t \in s.names => t \in Names(A)
    BY DEF Names
  <2>3. \A s \in B : t \in s.names => t \in Names(B)
    BY DEF Names
  <2>4. ~(t \in Names(A) /\ t \in Names(B))
    OBVIOUS
  <2>5. CASE r \in A /\ q \in A
    BY <1>2, <2>5 DEF Apart
  <2>6. CASE r \in B /\ q \in B
    BY <1>2, <2>6 DEF Apart
  <2> QED
    BY <2>1, <2>2, <2>3, <2>4, <2>5, <2>6
<1> QED
  BY <1>1, <1>2 DEF Apart

\* Nor in two of them.
LEMMA RowsApart == Apart(AllRows)
<1>1. PICK p : p = {Row({"pwd"}, "meta", {}, {})}
  OBVIOUS
<1>2. Apart(p) /\ Names(p) = {"pwd"}
  BY <1>1 DEF Apart, Names, Row
<1>3. PICK a : a = p \cup SystemTools
  OBVIOUS
<1>4. Apart(a) /\ Names(a) = Names(p) \cup Names(SystemTools)
  <2>1. Apart(SystemTools)
    BY TablesApart
  <2>2. Names(p) \cap Names(SystemTools) = {}
    BY <1>2, NamesAre
  <2> QED
    BY <1>3, <1>2, <2>1, <2>2, ApartJoin
<1>5. PICK b : b = a \cup ReadWriteTools
  OBVIOUS
<1>6. Apart(b) /\ Names(b) = Names(a) \cup Names(ReadWriteTools)
  <2>1. Apart(ReadWriteTools)
    BY TablesApart
  <2>2. Names(a) \cap Names(ReadWriteTools) = {}
    BY <1>2, <1>4, NamesAre
  <2> QED
    BY <1>5, <1>4, <2>1, <2>2, ApartJoin
<1>7. PICK c : c = b \cup PythonTools
  OBVIOUS
<1>8. Apart(c) /\ Names(c) = Names(b) \cup Names(PythonTools)
  <2>1. Apart(PythonTools)
    BY TablesApart
  <2>2. Names(b) \cap Names(PythonTools) = {}
    BY <1>2, <1>4, <1>6, NamesAre
  <2> QED
    BY <1>7, <1>6, <2>1, <2>2, ApartJoin
<1>9. PICK d : d = c \cup NodeTools
  OBVIOUS
<1>10. Apart(d) /\ Names(d) = Names(c) \cup Names(NodeTools)
  <2>1. Apart(NodeTools)
    BY TablesApart
  <2>2. Names(c) \cap Names(NodeTools) = {}
    BY <1>2, <1>4, <1>6, <1>8, NamesAre
  <2> QED
    BY <1>9, <1>8, <2>1, <2>2, ApartJoin
<1>11. PICK e : e = d \cup DotnetTools
  OBVIOUS
<1>12. Apart(e) /\ Names(e) = Names(d) \cup Names(DotnetTools)
  <2>1. Apart(DotnetTools)
    BY TablesApart
  <2>2. Names(d) \cap Names(DotnetTools) = {}
    BY <1>2, <1>4, <1>6, <1>8, <1>10, NamesAre
  <2> QED
    BY <1>11, <1>10, <2>1, <2>2, ApartJoin
<1>13. PICK f : f = e \cup GitTools
  OBVIOUS
<1>14. Apart(f) /\ Names(f) = Names(e) \cup Names(GitTools)
  <2>1. Apart(GitTools)
    BY TablesApart
  <2>2. Names(e) \cap Names(GitTools) = {}
    BY <1>2, <1>4, <1>6, <1>8, <1>10, <1>12, NamesAre
  <2> QED
    BY <1>13, <1>12, <2>1, <2>2, ApartJoin
<1>15. PICK g : g = f \cup KVTools
  OBVIOUS
<1>16. Apart(g) /\ Names(g) = Names(f) \cup Names(KVTools)
  <2>1. Apart(KVTools)
    BY TablesApart
  <2>2. Names(f) \cap Names(KVTools) = {}
    BY <1>2, <1>4, <1>6, <1>8, <1>10, <1>12, <1>14, NamesAre
  <2> QED
    BY <1>15, <1>14, <2>1, <2>2, ApartJoin
<1>17. PICK h : h = g \cup KVSearchTools
  OBVIOUS
<1>18. Apart(h) /\ Names(h) = Names(g) \cup Names(KVSearchTools)
  <2>1. Apart(KVSearchTools)
    BY TablesApart
  <2>2. Names(g) \cap Names(KVSearchTools) = {}
    BY <1>2, <1>4, <1>6, <1>8, <1>10, <1>12, <1>14, <1>16, NamesAre
  <2> QED
    BY <1>17, <1>16, <2>1, <2>2, ApartJoin
<1>19. PICK i : i = h \cup HardwareTools
  OBVIOUS
<1>20. Apart(i) /\ Names(i) = Names(h) \cup Names(HardwareTools)
  <2>1. Apart(HardwareTools)
    BY TablesApart
  <2>2. Names(h) \cap Names(HardwareTools) = {}
    BY <1>2, <1>4, <1>6, <1>8, <1>10, <1>12, <1>14, <1>16, <1>18, NamesAre
  <2> QED
    BY <1>19, <1>18, <2>1, <2>2, ApartJoin
<1>21. PICK j : j = i \cup WebTools
  OBVIOUS
<1>22. Apart(j) /\ Names(j) = Names(i) \cup Names(WebTools)
  <2>1. Apart(WebTools)
    BY TablesApart
  <2>2. Names(i) \cap Names(WebTools) = {}
    BY <1>2, <1>4, <1>6, <1>8, <1>10, <1>12, <1>14, <1>16, <1>18, <1>20, NamesAre
  <2> QED
    BY <1>21, <1>20, <2>1, <2>2, ApartJoin
<1>23. PICK k : k = j \cup DataTools
  OBVIOUS
<1>24. Apart(k) /\ Names(k) = Names(j) \cup Names(DataTools)
  <2>1. Apart(DataTools)
    BY TablesApart
  <2>2. Names(j) \cap Names(DataTools) = {}
    BY <1>2, <1>4, <1>6, <1>8, <1>10, <1>12, <1>14, <1>16, <1>18, <1>20, <1>22, NamesAre
  <2> QED
    BY <1>23, <1>22, <2>1, <2>2, ApartJoin
<1> QED
  BY <1>1, <1>3, <1>5, <1>7, <1>9, <1>11, <1>13, <1>15, <1>17, <1>19, <1>21, <1>23, <1>24 DEF AllRows

\* So a tool is what its row says.
LEMMA ToolIs ==
    ASSUME NEW r \in AllRows, NEW t \in r.names
    PROVE  t \in DOMAIN Tools /\ Tools[t] = r.tool
<1>1. t \in Names(AllRows)
  BY DEF Names
<1>2. PICK q : q = CHOOSE s \in AllRows : t \in s.names
  OBVIOUS
<1>3. q \in AllRows /\ t \in q.names
  BY <1>2
<1>4. q = r
  BY <1>3, RowsApart DEF Apart
<1> QED
  BY <1>1, <1>2, <1>4 DEF Tools, AllTools


Readers == {"readfile", "exists", "fileinfo", "read_lines", "get_python_symbols",
            "extract_imports", "syntax_check_python", "python_compile_check",
            "determinar_tipo_dato"}
Writers == {"writefile", "appendfile", "mkdir", "replace_in_file", "replace_lines",
            "deletefile", "deletedir"}

\* The tables the proofs look into.
LEMMA TablesIn ==
    /\ SystemTools \subseteq AllRows /\ ReadWriteTools \subseteq AllRows
    /\ PythonTools \subseteq AllRows /\ NodeTools \subseteq AllRows
    /\ DotnetTools \subseteq AllRows /\ HardwareTools \subseteq AllRows
    /\ DataTools \subseteq AllRows
  BY DEF AllRows

\* The rows of system_tools.py.
LEMMA SystemRows ==
    /\ \A t \in {"readfile", "exists", "fileinfo"} : Tools[t].category = "read" /\ Tools[t].required = {"path"}
    /\ Tools["listdir"].category = "read"
    /\ \A t \in {"writefile", "appendfile", "mkdir"} :
          Tools[t].category = "write" /\ Tools[t].required = {"path"}
    /\ Tools["movefile"].category = "write" /\ Tools["movefile"].required = {"path", "target_path"}
    /\ \A t \in {"deletefile", "deletedir"} :
          Tools[t].category = "delete" /\ Tools[t].required = {"path"}
<1>1. PICK rows : rows = SystemTools /\ rows \subseteq AllRows
  BY TablesIn
<1>2. \A r \in rows : \A t \in r.names : Tools[t] = r.tool
  BY <1>1, ToolIs
<1>3. \A names, category, required, optional :
          Row(names, category, required, optional) \in rows =>
             \A t \in names : Tools[t].category = category /\ Tools[t].required = required
  BY <1>2 DEF Row
<1>4. /\ Row({"readfile", "exists", "fileinfo"}, "read", {"path"}, {}) \in rows
      /\ Row({"listdir"}, "read", {}, {"path"}) \in rows
      /\ Row({"writefile", "appendfile", "mkdir"}, "write", {"path"}, {}) \in rows
      /\ Row({"movefile"}, "write", {"path", "target_path"}, {}) \in rows
      /\ Row({"deletefile", "deletedir"}, "delete", {"path"}, {}) \in rows
  BY <1>1 DEF SystemTools
<1> QED
  BY <1>3, <1>4

\* The rows of the other tables that touch files.
LEMMA OtherRows ==
    /\ \A t \in {"search_code", "find_files", "list_tree", "find_definition", "find_references"} :
          Tools[t].category = "read"
    /\ \A t \in {"read_lines", "get_python_symbols", "extract_imports", "syntax_check_python",
                 "python_compile_check", "determinar_tipo_dato"} :
          Tools[t].category = "read" /\ Tools[t].required = {"path"}
    /\ \A t \in {"replace_in_file", "replace_lines"} :
          Tools[t].category = "write" /\ Tools[t].required = {"path"}
    /\ Tools["image_describe"].category = "media_input"
    /\ Tools["generar_grafico_barras"].category = "execute"
    /\ Tools["generar_grafico_barras"].required = {"path"}
<1>1. PICK rows : /\ rows = ReadWriteTools \cup PythonTools \cup HardwareTools \cup DataTools
                  /\ rows \subseteq AllRows
  BY TablesIn
<1>2. \A r \in rows : \A t \in r.names : Tools[t] = r.tool
  BY <1>1, ToolIs
<1>3. \A names, category, required, optional :
          Row(names, category, required, optional) \in rows =>
             \A t \in names : Tools[t].category = category /\ Tools[t].required = required
  BY <1>2 DEF Row
<1>4. /\ Row({"search_code", "find_files", "list_tree", "find_definition", "find_references"},
             "read", {}, {"path"}) \in rows
      /\ Row({"read_lines", "get_python_symbols", "extract_imports"}, "read", {"path"}, {}) \in rows
      /\ Row({"replace_in_file", "replace_lines"}, "write", {"path"}, {}) \in rows
  BY <1>1 DEF ReadWriteTools
<1>5. /\ Row({"syntax_check_python", "python_compile_check"}, "read", {"path"}, {}) \in rows
      /\ Row({"image_describe"}, "media_input", {"source"}, {"save_frame_path"}) \in rows
      /\ Row({"determinar_tipo_dato"}, "read", {"path"}, {}) \in rows
      /\ Row({"generar_grafico_barras"}, "execute", {"path"}, {}) \in rows
  BY <1>1 DEF PythonTools, HardwareTools, DataTools
<1>6. \A t \in {"search_code", "find_files", "list_tree", "find_definition", "find_references"} :
          Tools[t].category = "read"
  BY <1>3, <1>4
<1>7. \A t \in {"read_lines", "get_python_symbols", "extract_imports"} :
          Tools[t].category = "read" /\ Tools[t].required = {"path"}
  BY <1>3, <1>4
<1>8. \A t \in {"replace_in_file", "replace_lines"} :
          Tools[t].category = "write" /\ Tools[t].required = {"path"}
  BY <1>3, <1>4
<1>9. \A t \in {"syntax_check_python", "python_compile_check", "determinar_tipo_dato"} :
          Tools[t].category = "read" /\ Tools[t].required = {"path"}
  BY <1>3, <1>5
<1>10. /\ Tools["image_describe"].category = "media_input"
       /\ Tools["generar_grafico_barras"].category = "execute"
       /\ Tools["generar_grafico_barras"].required = {"path"}
  BY <1>3, <1>5
<1> QED
  BY <1>6, <1>7, <1>8, <1>9, <1>10

\* A tool taken from the rows of category "execute" is one of that category.
LEMMA ExecuteRows ==
    ASSUME NEW rows, rows \subseteq AllRows,
           NEW t \in Names({r \in rows : r.tool.category = "execute"})
    PROVE  Tools[t].category = "execute"
<1>1. PICK r \in rows : r.tool.category = "execute" /\ t \in r.names
  BY DEF Names
<1> QED
  BY <1>1, ToolIs

----------------------------------------------------------------------------
(* The call under way                                                      *)

\* What call_tool has found out by the time a function runs.
Underway ==
    call = Idle \/
    /\ call.at # "idle" /\ DOMAIN call = {"at", "tool", "args", "given"}
    /\ \A k \in DOMAIN call.args : call.args[k] \in Path
    /\ call.at = "granted" \/ Tools[call.tool].required \subseteq DOMAIN call.args
    /\ call.tool \in DefaultPathTools => "path" \in DOMAIN call.args
    /\ ~ErasesBase(call.tool, call.args)
    /\ ~Protected(call.tool, call.args)

\* What a call may show of what the policy refuses.
MayShow(p) ==
    MatchesProtected(p, policy.unreadable, Base) =>
       /\ call.tool \in Walkers
       /\ <<Last(p)>> \notin UNION policy.unreadable
       /\ call.args.path # Base \/ call.tool = "list_tree"
       /\ ~Sealing(policy.unreadable)

\* A step of a call: the answer it gives, and the files it spares.
Readable(seen) == \A p \in seen : MayShow(p)
Ends == \E ok, seen : Finish(ok, seen) /\ Readable(seen)
GoesOn == \E at : at # "idle" /\ Goto(at) /\ Tools[call.tool].required \subseteq DOMAIN call.args
Spared ==
    Tools[call.tool].category \in {"write", "delete", "media_input"} =>
       \A p \in DOMAIN tree :
          MatchesProtected(p, policy.unwritable, Base) =>
             \/ p \in DOMAIN tree' /\ tree'[p] = tree[p]
             \/ /\ call.tool \in {"deletedir", "movefile"}
                /\ IsStrictPrefix(call.args.path, p)
Advances == call # Idle /\ policy' = policy /\ (Ends \/ GoesOn) /\ Whole(tree') /\ Spared

\* A call that is not idle was looked at.
LEMMA BusyIs ==
    ASSUME Underway, NEW at, at # "idle", call.at = at
    PROVE  /\ call # Idle /\ call.at # "idle" /\ DOMAIN call = {"at", "tool", "args", "given"}
           /\ \A k \in DOMAIN call.args : call.args[k] \in Path
           /\ at = "granted" \/ Tools[call.tool].required \subseteq DOMAIN call.args
           /\ call.tool \in DefaultPathTools => "path" \in DOMAIN call.args
           /\ ~ErasesBase(call.tool, call.args)
           /\ ~Protected(call.tool, call.args)
  BY DEF Underway, Idle

\* A call that ends or goes on stays one whose arguments were looked at.
LEMMA AdvancesUnderway ==
    ASSUME Underway, Advances
    PROVE  Underway'
<1>1. CASE Ends
  BY <1>1 DEF Ends, Finish, Underway
<1>2. CASE GoesOn
  <2>1. PICK at : /\ at # "idle" /\ call' = [call EXCEPT !.at = at]
                  /\ Tools[call.tool].required \subseteq DOMAIN call.args
    BY <1>2 DEF GoesOn, Goto
  <2>2. call # Idle /\ policy' = policy
    BY DEF Advances
  <2>3. /\ call'.at = at /\ call'.tool = call.tool /\ call'.args = call.args
        /\ DOMAIN call' = DOMAIN call
    BY <2>1, <2>2 DEF Underway
  <2>4. ~Protected(call.tool, call.args)'
    BY <2>2, <2>3 DEF Underway, Protected
  <2>5. ErasesBase(call.tool, call.args)' <=> ErasesBase(call.tool, call.args)
    BY <2>3 DEF ErasesBase
  <2> QED
    BY <2>1, <2>2, <2>3, <2>4, <2>5 DEF Underway
<1> QED
  BY <1>1, <1>2 DEF Advances

\* Nothing protected is among the paths of a call.
LEMMA NoneProtected ==
    ASSUME NEW tool, NEW args, ~Protected(tool, args)
    PROVE  /\ Tools[tool].category = "read" /\ "path" \in DOMAIN args =>
                 ~MatchesProtected(args.path, policy.unreadable, Base)
           /\ Tools[tool].category \in {"write", "delete"} /\ "path" \in DOMAIN args =>
                 ~MatchesProtected(args.path, policy.unwritable, Base)
           /\ Tools[tool].category \in {"write", "delete"} /\ "target_path" \in DOMAIN args =>
                 ~MatchesProtected(args.target_path, policy.unwritable, Base)
           /\ Tools[tool].category = "media_input" /\ "save_frame_path" \in DOMAIN args =>
                 ~MatchesProtected(args.save_frame_path, policy.unwritable, Base)
<1>1. \A k \in {"path", "target_path"} : k \in DOMAIN args => args[k] \in CandidatePaths(args)
  BY DEF CandidatePaths
<1>2. Tools[tool].category = "read" /\ "path" \in DOMAIN args =>
         ~MatchesProtected(args.path, policy.unreadable, Base)
  BY <1>1 DEF Protected
<1>3. ASSUME Tools[tool].category \in {"write", "delete"}, NEW k \in {"path", "target_path"},
             k \in DOMAIN args
      PROVE  ~MatchesProtected(args[k], policy.unwritable, Base)
  BY <1>1, <1>3 DEF Protected
<1>4. Tools[tool].category = "media_input" /\ "save_frame_path" \in DOMAIN args =>
         ~MatchesProtected(args.save_frame_path, policy.unwritable, Base)
  BY DEF Protected
<1> QED
  BY <1>2, <1>3, <1>4

\* A step that leaves the files alone.
LEMMA QuietAdvances ==
    ASSUME Underway, Whole(tree), NEW at, at # "idle", call.at = at,
           UNCHANGED tree, Rest, Ends \/ GoesOn
    PROVE  Advances
<1>1. call # Idle
  BY BusyIs
<1>2. Whole(tree') /\ Spared
  BY DEF Spared
<1> QED
  BY <1>1, <1>2 DEF Advances, Rest

\* An answer that may be shown.
LEMMA EndsIs ==
    ASSUME NEW ok, NEW seen, Finish(ok, seen), Readable(seen)
    PROVE  Ends
  BY DEF Ends

\* An answer that shows nothing may be shown.
LEMMA EndsEmpty ==
    ASSUME NEW ok, Finish(ok, {})
    PROVE  Ends
  BY DEF Ends, Readable

----------------------------------------------------------------------------
(* Reading                                                                 *)

\* From the base directory a path is what it is.
LEMMA BelowBase ==
    ASSUME NEW q \in Path
    PROVE  Below(q, Base) = q
  BY BaseIs, SubSeqFull DEF Below, Path

\* The parts of a path.
LEMMA PartIs ==
    ASSUME NEW q \in Path, NEW i \in 1 .. Len(q)
    PROVE  /\ SubSeq(q, 1, i) \in Path /\ Len(SubSeq(q, 1, i)) = i
           /\ \A j \in 1 .. i : SubSeq(q, 1, i)[j] = q[j]
           /\ SubSeq(q, 1, i) # Base /\ Last(SubSeq(q, 1, i)) = q[i]
<1>1. Len(q) \in Nat /\ i \in Nat /\ i > 0 /\ i <= Len(q)
  BY LenProperties DEF Path
<1>2. \A j \in 1 .. i : q[j] \in DOMAIN Fold
  BY <1>1, ElementOfSeq DEF Path
<1>3. PICK s : s = SubSeq(q, 1, i)
  OBVIOUS
<1>4. s \in Path /\ Len(s) = i /\ \A j \in 1 .. i : s[j] = q[j]
  BY <1>1, <1>2, <1>3, SubSeqProperties DEF Path
<1>5. s # Base /\ Last(s) = q[i]
  BY <1>1, <1>4, BaseIs DEF Last
<1> QED
  BY <1>3, <1>4, <1>5

\* What is shown below a directory the policy lets through, every name on the way
\* judged, the policy refuses by its path alone, and by patterns that seal nothing.
LEMMA ShownByPath ==
    ASSUME NEW root \in Path, NEW q \in Path, IsPrefix(root, q), q # root,
           ~MatchesProtected(root, policy.unreadable, Base),
           \A i \in Len(root) + 1 .. Len(q) :
              \E b : ~MatchesProtected(SubSeq(q, 1, i), ReadPatterns, b),
           MatchesProtected(q, policy.unreadable, Base)
    PROVE  <<Last(q)>> \notin UNION policy.unreadable /\ ~Sealing(policy.unreadable)
<1>1. /\ Len(root) \in Nat /\ Len(q) \in Nat /\ Len(root) <= Len(q)
      /\ \A i \in 1 .. Len(root) : root[i] = q[i]
  BY PrefixIs, LenProperties DEF Path
<1>2. Len(root) < Len(q)
  BY <1>1, SeqEqual DEF Path
<1>3. ReadPatterns = policy.unreadable
  BY DEF MatchesProtected, ReadPatterns
<1>4. ASSUME NEW i \in Len(root) + 1 .. Len(q)
      PROVE  <<q[i]>> \notin UNION policy.unreadable
  <2>1. i \in 1 .. Len(q)
    BY <1>1
  <2>2. PICK s : s = SubSeq(q, 1, i)
    OBVIOUS
  <2>3. s # Base /\ Last(s) = q[i]
    BY <2>1, <2>2, PartIs
  <2>4. PICK b : ~MatchesProtected(s, policy.unreadable, b)
    BY <1>3, <2>2
  <2> QED
    BY <2>3, <2>4 DEF MatchesProtected
<1>5. Len(q) \in Len(root) + 1 .. Len(q) /\ Last(q) = q[Len(q)]
  BY <1>1, <1>2 DEF Last
<1>6. <<Last(q)>> \notin UNION policy.unreadable
  BY <1>4, <1>5
<1>7. q \in UNION policy.unreadable
  BY <1>6, BelowBase DEF MatchesProtected
<1>8. ASSUME NEW i \in DOMAIN q, <<q[i]>> \in UNION policy.unreadable
      PROVE  \E j \in i + 1 .. Len(q) : SubSeq(q, 1, j) \notin UNION policy.unreadable
  <2>1. i \in 1 .. Len(q)
    BY LenProperties DEF Path
  <2>2. i \in 1 .. Len(root) /\ 1 <= Len(root) /\ Len(root) \in 1 .. Len(q)
    BY <1>1, <1>2, <1>4, <1>8, <2>1
  <2>3. PICK s : s = SubSeq(q, 1, Len(root))
    OBVIOUS
  <2>4. s = root
    <3>1. s \in Path /\ Len(s) = Len(root) /\ \A j \in 1 .. Len(root) : s[j] = q[j]
      BY <2>2, <2>3, PartIs
    <3>2. \A j \in 1 .. Len(root) : s[j] = root[j]
      BY <1>1, <3>1
    <3> QED
      BY <3>1, <3>2, SeqEqual DEF Path
  <2>5. root # Base /\ Below(root, Base) = root
    BY <2>2, BaseIs, BelowBase
  <2>6. root \notin UNION policy.unreadable /\ <<Last(root)>> \notin UNION policy.unreadable
    BY <2>5 DEF MatchesProtected
  <2>7. i # Len(root)
    <3>1. i = Len(root) => Last(root) = q[i]
      BY <1>1, <2>2 DEF Last
    <3> QED
      BY <1>8, <2>6, <3>1
  <2>8. Len(root) \in i + 1 .. Len(q)
    BY <1>1, <2>2, <2>7
  <2> QED
    BY <2>3, <2>4, <2>6, <2>8
<1>9. ~Sealing(policy.unreadable)
  BY <1>7, <1>8 DEF Sealing
<1> QED
  BY <1>6, <1>9

\* What a walk shows.
LEMMA WalkShows ==
    ASSUME Whole(tree), NEW root \in Path, ~MatchesProtected(root, policy.unreadable, Base),
           NEW q \in Walk(root), MatchesProtected(q, policy.unreadable, Base)
    PROVE  /\ <<Last(q)>> \notin UNION policy.unreadable /\ ~Sealing(policy.unreadable)
           /\ root # Base
<1>1. ~IsFile(tree, root)
  BY DEF Walk
<1>2. /\ q \in DOMAIN tree /\ IsPrefix(root, q) /\ IsFile(tree, q)
      /\ \A i \in Len(root) + 1 .. Len(q) : ~MatchesProtected(SubSeq(q, 1, i), ReadPatterns, root)
  BY <1>1 DEF Walk, Subtree
<1>3. q \in Path /\ q # root
  BY <1>1, <1>2 DEF Whole
<1>4. ASSUME root = Base
      PROVE  FALSE
  <2>1. Len(q) \in Nat /\ Len(q) # 0 /\ Len(root) = 0 /\ SubSeq(q, 1, Len(q)) = q
    BY <1>3, <1>4, BaseIs, LenProperties, EmptySeq, SubSeqFull DEF Path, Base
  <2>2. Len(q) \in Len(root) + 1 .. Len(q)
    BY <2>1
  <2>3. ~MatchesProtected(q, ReadPatterns, Base)
    BY <1>2, <1>4, <2>1, <2>2
  <2>4. ReadPatterns = policy.unreadable
    BY DEF MatchesProtected, ReadPatterns
  <2> QED
    BY <2>3, <2>4
<1> QED
  BY <1>2, <1>3, <1>4, ShownByPath

\* What a listing shows.
LEMMA ListedShows ==
    ASSUME Whole(tree), NEW root \in Path, ~MatchesProtected(root, policy.unreadable, Base),
           NEW skip, NEW q \in Listed(root, skip), MatchesProtected(q, policy.unreadable, Base)
    PROVE  /\ <<Last(q)>> \notin UNION policy.unreadable /\ ~Sealing(policy.unreadable)
           /\ q \in Children(tree, root) => root # Base
<1>1. /\ q \in DOMAIN tree /\ IsPrefix(root, q) /\ q # root
      /\ \A i \in Len(root) + 1 .. Len(q) :
            ~MatchesProtected(SubSeq(q, 1, i), ReadPatterns, SubSeq(q, 1, i - 1))
  BY DEF Listed, Subtree
<1>2. q \in Path
  BY <1>1 DEF Whole
<1>3. ASSUME root = Base, q \in Children(tree, root)
      PROVE  FALSE
  <2>1. Len(q) = 1 /\ Len(root) = 0 /\ SubSeq(q, 1, Len(q)) = q
    <3>1. Len(q) = Len(root) + 1
      BY <1>3 DEF Children
    <3>2. Len(root) = 0
      BY <1>3, BaseIs
    <3>3. SubSeq(q, 1, Len(q)) = q
      BY <1>2, SubSeqFull DEF Path
    <3> QED
      BY <3>1, <3>2, <3>3
  <2>2. ~MatchesProtected(SubSeq(q, 1, 1), ReadPatterns, SubSeq(q, 1, 0))
    BY <1>1, <2>1
  <2>3. SubSeq(q, 1, 0) = Base
    BY <1>2, SubSeqEmpty DEF Path, Base
  <2>4. ReadPatterns = policy.unreadable
    BY DEF MatchesProtected, ReadPatterns
  <2> QED
    BY <2>1, <2>2, <2>3, <2>4
<1> QED
  BY <1>1, <1>2, <1>3, ShownByPath

\* What reads one path shows a path that the policy let through.
LEMMA ReaderAdvances ==
    ASSUME Underway, Whole(tree), ReadFile \/ ReadLines \/ ReadSource \/ CheckSource \/ ReadTable
    PROVE  Advances
<1>1. /\ call.tool \in Readers /\ call.at = "granted" /\ UNCHANGED tree /\ Rest
      /\ Tools[call.tool].required \subseteq DOMAIN call.args
      /\ Finish(TRUE, {call.args.path}) \/ Finish(FALSE, {})
  BY DEF ReadFile, ReadLines, ReadSource, CheckSource, ReadTable, ReadsOne, Complete, Running,
         Readers
<1>2. Tools[call.tool].category = "read" /\ Tools[call.tool].required = {"path"}
  BY <1>1, SystemRows, OtherRows DEF Readers
<1>3. "granted" # "idle" /\ ~Protected(call.tool, call.args)
  BY <1>1, BusyIs
<1>4. Readable({call.args.path})
  BY <1>1, <1>2, <1>3, NoneProtected DEF Readable, MayShow
<1>5. Ends
  BY <1>1, <1>4, EndsIs, EndsEmpty
<1> QED
  BY <1>1, <1>5, QuietAdvances

\* What walks starts from a directory that the policy let through.
LEMMA WalkerAdvances ==
    ASSUME Underway, Whole(tree), ListDir \/ ListTree \/ Search
    PROVE  Advances
<1>1. PICK root : root = call.args.path
  OBVIOUS
<1>2. /\ call.tool \in Walkers /\ call.at = "granted" /\ UNCHANGED tree /\ Rest
      /\ \/ Finish(FALSE, {}) \/ Finish(TRUE, {})
         \/ Finish(TRUE, Walk(root))
         \/ \E skip, some : /\ some \subseteq Listed(root, skip)
                            /\ call.tool = "list_tree" \/ some \subseteq Children(tree, root)
                            /\ Finish(TRUE, some)
  <2>1. CASE ListDir
    <3>1. PICK some : /\ some = Listed(root, {}) \cap Children(tree, root)
                      /\ Finish(TRUE, some) \/ Finish(FALSE, {})
      BY <1>1, <2>1 DEF ListDir
    <3>2. some \subseteq Listed(root, {}) /\ some \subseteq Children(tree, root)
      BY <3>1
    <3> QED
      BY <2>1, <3>1, <3>2 DEF ListDir, Complete, Running, Walkers
  <2>2. CASE ListTree
    <3>1. \/ \E depth \in 0 .. 2 :
                Finish(TRUE, {q \in Listed(root, SkipDirs) : Len(q) <= Len(root) + depth})
          \/ Finish(FALSE, {})
      BY <1>1, <2>2 DEF ListTree
    <3>2. \/ Finish(FALSE, {})
          \/ \E some : some \subseteq Listed(root, SkipDirs) /\ Finish(TRUE, some)
      BY <3>1
    <3>3. call.tool = "list_tree" /\ call.at = "granted" /\ UNCHANGED tree /\ Rest
      BY <2>2 DEF ListTree, Complete, Running
    <3> QED
      BY <3>2, <3>3 DEF Walkers
  <2>3. CASE Search
    BY <1>1, <2>3 DEF Search, Complete, Running, Walkers
  <2> QED
    BY <2>1, <2>2, <2>3
<1>3. Tools[call.tool].category = "read" /\ call.tool \in DefaultPathTools
  BY <1>2, SystemRows, OtherRows DEF Walkers, DefaultPathTools
<1>4. "path" \in DOMAIN call.args /\ call.args.path \in Path /\ ~Protected(call.tool, call.args)
  BY <1>2, <1>3, BusyIs
<1>5. root \in Path /\ ~MatchesProtected(root, policy.unreadable, Base)
  BY <1>1, <1>3, <1>4, NoneProtected
<1>6. ASSUME NEW skip, NEW some, some \subseteq Listed(root, skip), Finish(TRUE, some),
             call.tool = "list_tree" \/ some \subseteq Children(tree, root)
      PROVE  Ends
  <2>1. ASSUME NEW p \in some, MatchesProtected(p, policy.unreadable, Base)
        PROVE  /\ <<Last(p)>> \notin UNION policy.unreadable /\ ~Sealing(policy.unreadable)
               /\ p \in Children(tree, root) => root # Base
    <3>1. p \in Listed(root, skip)
      BY <1>6
    <3> QED
      BY <1>5, <2>1, <3>1, ListedShows
  <2>2. Readable(some)
    BY <1>1, <1>2, <1>6, <2>1 DEF Readable, MayShow
  <2> QED
    BY <1>6, <2>2, EndsIs
<1>7. ASSUME Finish(TRUE, Walk(root))
      PROVE  Ends
  <2>1. Readable(Walk(root))
    BY <1>1, <1>2, <1>5, WalkShows DEF Readable, MayShow
  <2> QED
    BY <1>7, <2>1, EndsIs
<1>8. Ends
  BY <1>2, <1>6, <1>7, EndsEmpty
<1> QED
  BY <1>2, <1>8, QuietAdvances

\* Steps that show no path and leave the files alone.
LEMMA QuietStepAdvances ==
    ASSUME Underway, Whole(tree),
           \/ Incomplete \/ QueryGit \/ UseSerial \/ RunElsewhere \/ CheckMissing \/ ReadBack
           \/ ReadToReplace \/ CheckMove \/ LoadFrame \/ ChooseModel \/ Describe
    PROVE  Advances
<1>1. ASSUME Incomplete \/ QueryGit \/ UseSerial \/ RunElsewhere \/ ReadBack \/ Describe
      PROVE  Advances
  <2>1. PICK at : at # "idle" /\ call.at = at
    BY <1>1 DEF Incomplete, QueryGit, UseSerial, RunElsewhere, ReadBack, Describe, Complete, Running
  <2>2. UNCHANGED tree /\ Rest /\ \E ok : Finish(ok, {})
    BY <1>1 DEF Incomplete, QueryGit, UseSerial, RunElsewhere, ReadBack, Describe
  <2>3. Ends
    BY <2>2, EndsEmpty
  <2> QED
    BY <2>1, <2>2, <2>3, QuietAdvances
<1>2. ASSUME CheckMissing \/ ReadToReplace \/ CheckMove \/ LoadFrame \/ ChooseModel
      PROVE  Advances
  <2>1. /\ call.at \in {"granted", "choosing"} /\ UNCHANGED tree /\ Rest
        /\ call.at = "granted" => Tools[call.tool].required \subseteq DOMAIN call.args
        /\ \/ Finish(FALSE, {})
           \/ \E at \in {"opening", "replacing", "moving", "saving", "describing"} : Goto(at)
    BY <1>2 DEF CheckMissing, ReadToReplace, CheckMove, LoadFrame, ChooseModel, Complete, Running
  <2>2. Tools[call.tool].required \subseteq DOMAIN call.args
    BY <2>1, BusyIs
  <2>3. Ends \/ GoesOn
    BY <2>1, <2>2, EndsEmpty DEF GoesOn
  <2>4. PICK at : at # "idle" /\ call.at = at
    BY <2>1
  <2> QED
    BY <2>1, <2>3, <2>4, QuietAdvances
<1> QED
  BY <1>1, <1>2

----------------------------------------------------------------------------
(* Changing files                                                          *)

\* Above every path of the tree but the lowest ones there is a child.
LEMMA ChildlessIs ==
    ASSUME NEW t, Whole(t), NEW p \in Path, Children(t, p) = {}, NEW q \in DOMAIN t, IsPrefix(p, q)
    PROVE  q = p
<1> SUFFICES ASSUME q # p
             PROVE  FALSE
  OBVIOUS
<1>1. q \in Path
  BY DEF Whole
<1>2. /\ Len(p) \in Nat /\ Len(q) \in Nat /\ Len(p) <= Len(q)
      /\ \A i \in 1 .. Len(p) : p[i] = q[i]
  BY <1>1, PrefixIs, LenProperties DEF Path
<1>3. Len(p) # Len(q)
  BY <1>1, <1>2, SeqEqual DEF Path
<1>4. PICK c, n : n = Len(p) + 1 /\ c = SubSeq(q, 1, n)
  OBVIOUS
<1>5. \A i \in 1 .. n : i \in 1 .. Len(q) /\ q[i] \in DOMAIN Fold
  BY <1>1, <1>2, <1>3, <1>4, ElementOfSeq DEF Path
<1>6. c \in Path /\ Len(c) = n /\ \A i \in 1 .. n : c[i] = q[i]
  <2>1. 1 \in Int /\ n \in Int /\ \A i \in 1 .. n : q[i] \in DOMAIN Fold
    BY <1>2, <1>4, <1>5
  <2>2. /\ SubSeq(q, 1, n) \in Path
        /\ Len(SubSeq(q, 1, n)) = IF 1 <= n THEN n - 1 + 1 ELSE 0
        /\ \A i \in 1 .. n - 1 + 1 : SubSeq(q, 1, n)[i] = q[1 + i - 1]
    BY <2>1, SubSeqProperties DEF Path
  <2> QED
    BY <1>2, <1>4, <2>2
<1>7. IsPrefix(c, q) /\ IsPrefix(p, c)
  <2>1. IsPrefix(c, q) <=> Len(c) <= Len(q) /\ \A i \in 1 .. Len(c) : c[i] = q[i]
    BY <1>1, <1>6, PrefixIs
  <2>2. IsPrefix(p, c) <=> Len(p) <= Len(c) /\ \A i \in 1 .. Len(p) : p[i] = c[i]
    BY <1>6, PrefixIs
  <2>3. Len(c) <= Len(q) /\ Len(p) <= Len(c)
    BY <1>2, <1>3, <1>4, <1>6
  <2>4. \A i \in 1 .. Len(p) : i \in 1 .. n
    BY <1>2, <1>4
  <2>5. \A i \in 1 .. Len(p) : p[i] = c[i]
    BY <1>2, <1>6, <2>4
  <2> QED
    BY <1>6, <2>1, <2>2, <2>3, <2>5
<1>8. c \in DOMAIN t
  BY <1>6, <1>7 DEF Whole, IsDir
<1> QED
  BY <1>4, <1>6, <1>7, <1>8 DEF Children, Subtree

\* One file changed by a program, or an empty directory made or removed.
LEMMA SomeChangeWhole ==
    ASSUME Whole(tree), SomeChange
    PROVE  Whole(tree')
<1>1. PICK p \in Paths \ {Base}, node \in {"old", "dir", "none"} :
        /\ IsDir(tree, Front(p)) /\ Children(tree, p) = {}
        /\ tree' = IF node = "none" THEN Without(tree, {p}) ELSE WithNode(tree, p, node)
  BY DEF SomeChange
<1>2. p \in Path /\ p # Base
  BY ToolCallsAssumption DEF Path
<1>3. \A q \in DOMAIN tree : IsPrefix(p, q) => q = p
  BY <1>1, <1>2, ChildlessIs
<1>4. CASE node = "none"
  <2>1. Whole(Without(tree, {p}))
    BY <1>2, <1>3, WithoutWhole
  <2> QED
    BY <1>1, <1>4, <2>1
<1>5. CASE node # "none"
  <2>1. Whole(WithNode(tree, p, node))
    BY <1>1, <1>2, <1>3, WithNodeWhole
  <2> QED
    BY <1>1, <1>5, <2>1
<1> QED
  BY <1>4, <1>5

\* What a command does to protected files is not looked at.
LEMMA CommandAdvances ==
    ASSUME Underway, Whole(tree), RunPython \/ RunNode \/ RunDotnet
    PROVE  Advances
<1>1. PICK rows : /\ rows \subseteq AllRows /\ Executes(rows) /\ Rest
                  /\ \E starts : CommandOrNone(starts)
  BY TablesIn DEF RunPython, RunNode, RunDotnet
<1>2. call.at = "granted" /\ call.tool \in Names({r \in rows : r.tool.category = "execute"})
  BY <1>1 DEF Executes, Complete, Running
<1>3. Tools[call.tool].category = "execute"
  BY <1>1, <1>2, ExecuteRows
<1>4. Spared
  BY <1>3 DEF Spared
<1>5. /\ \E ok : Finish(ok, {})
      /\ SomeChange \/ UNCHANGED tree
  BY <1>1 DEF CommandOrNone, Command
<1>6. Whole(tree')
  BY <1>5, SomeChangeWhole
<1>7. Ends
  BY <1>5, EndsEmpty
<1>8. call # Idle
  BY <1>2, BusyIs
<1> QED
  BY <1>1, <1>4, <1>6, <1>7, <1>8 DEF Advances, Rest

\* A file written where it may be: only it changes.
LEMMA WrittenIs ==
    ASSUME Whole(tree), NEW p \in Path, Writable(tree, p), NEW node, tree' = WithNode(tree, p, node)
    PROVE  Whole(tree') /\ \A q \in DOMAIN tree : q # p => q \in DOMAIN tree' /\ tree'[q] = tree[q]
<1>1. p # Base /\ IsDir(tree, Front(p)) /\ ~IsDir(tree, p)
  BY DEF Writable
<1>2. \A q \in DOMAIN tree : IsPrefix(p, q) => q = p
  BY <1>1 DEF Whole
<1>3. Whole(WithNode(tree, p, node))
  BY <1>1, <1>2, WithNodeWhole
<1> QED
  BY <1>3 DEF WithNode

\* The chart is a file in a directory that exists.
LEMMA SaveChartAdvances ==
    ASSUME Underway, Whole(tree), SaveChart
    PROVE  Advances
<1>1. /\ call.at = "granted" /\ call.tool = "generar_grafico_barras" /\ Rest
      /\ Tools[call.tool].required \subseteq DOMAIN call.args
      /\ \/ Writable(tree, call.args.path) /\ tree' = WithNode(tree, call.args.path, "bin")
         \/ UNCHANGED tree
      /\ \E ok : Finish(ok, {})
  BY DEF SaveChart, Complete, Running
<1>2. Tools[call.tool].category = "execute" /\ "path" \in DOMAIN call.args
  BY <1>1, OtherRows
<1>3. call.args.path \in Path /\ call # Idle
  BY <1>1, <1>2, BusyIs
<1>4. Whole(tree')
  BY <1>1, <1>3, WrittenIs
<1>5. Spared
  BY <1>2 DEF Spared
<1>6. Ends
  BY <1>1, EndsEmpty
<1> QED
  BY <1>1, <1>3, <1>4, <1>5, <1>6 DEF Advances, Rest

\* What holds of a call of one of these tools, whatever its step.
LEMMA WriterIs ==
    ASSUME Underway, NEW at, at # "idle", call.at = at, call.tool \in Writers,
           at = "granted" => Tools[call.tool].required \subseteq DOMAIN call.args
    PROVE  /\ call # Idle /\ Tools[call.tool].required \subseteq DOMAIN call.args
           /\ call.args.path \in Path
           /\ ~MatchesProtected(call.args.path, policy.unwritable, Base)
<1>1. Tools[call.tool].category \in {"write", "delete"} /\ Tools[call.tool].required = {"path"}
  BY SystemRows, OtherRows DEF Writers
<1>2. /\ call # Idle /\ Tools[call.tool].required \subseteq DOMAIN call.args
      /\ \A k \in DOMAIN call.args : call.args[k] \in Path
      /\ ~Protected(call.tool, call.args)
  BY BusyIs
<1>3. "path" \in DOMAIN call.args
  BY <1>1, <1>2
<1> QED
  BY <1>1, <1>2, <1>3, NoneProtected

\* A file is written at the path that was looked at.
LEMMA WriterAdvances ==
    ASSUME Underway, Whole(tree), CreateFile \/ WriteFile \/ Replace
    PROVE  Advances
<1>1. /\ call.at \in {"granted", "opening", "replacing"} /\ call.tool \in Writers /\ Rest
      /\ call.at = "granted" => Tools[call.tool].required \subseteq DOMAIN call.args
      /\ \/ /\ Writable(tree, call.args.path)
            /\ \E node : tree' = WithNode(tree, call.args.path, node)
         \/ UNCHANGED tree
      /\ \/ \E ok : Finish(ok, {})
         \/ Goto("reading back")
  <2>1. CASE CreateFile
    BY <2>1 DEF CreateFile, Creates, Running, Writers
  <2>2. CASE WriteFile
    BY <2>2 DEF WriteFile, Complete, Running, Writers
  <2>3. CASE Replace
    BY <2>3 DEF Replace, Running, Writers
  <2> QED
    BY <2>1, <2>2, <2>3
<1>2. PICK at : at # "idle" /\ call.at = at
  BY <1>1
<1>3. /\ call # Idle /\ Tools[call.tool].required \subseteq DOMAIN call.args
      /\ call.args.path \in Path
      /\ ~MatchesProtected(call.args.path, policy.unwritable, Base)
  BY <1>1, <1>2, WriterIs
<1>4. Ends \/ GoesOn
  BY <1>1, <1>3, EndsEmpty DEF GoesOn
<1>5. PICK p : p = call.args.path
  OBVIOUS
<1>6. Whole(tree') /\ \A q \in DOMAIN tree : q # p => q \in DOMAIN tree' /\ tree'[q] = tree[q]
  BY <1>1, <1>3, <1>5, WrittenIs
<1>7. Spared
  BY <1>3, <1>5, <1>6 DEF Spared
<1> QED
  BY <1>1, <1>3, <1>4, <1>6, <1>7 DEF Advances, Rest

\* The frame is saved at the path that was looked at.
LEMMA SaveFrameAdvances ==
    ASSUME Underway, Whole(tree), SaveFrame
    PROVE  Advances
<1>1. /\ call.at = "saving" /\ call.tool = "image_describe" /\ Rest
      /\ \/ /\ "save_frame_path" \in DOMAIN call.args
            /\ Writable(tree, call.args.save_frame_path)
            /\ tree' = WithNode(tree, call.args.save_frame_path, "bin")
         \/ UNCHANGED tree
      /\ Finish(FALSE, {}) \/ Goto("choosing")
  BY DEF SaveFrame, Running
<1>2. Tools[call.tool].category = "media_input"
  BY <1>1, OtherRows
<1>3. /\ call # Idle /\ Tools[call.tool].required \subseteq DOMAIN call.args
      /\ \A k \in DOMAIN call.args : call.args[k] \in Path
      /\ ~Protected(call.tool, call.args)
  BY <1>1, BusyIs
<1>4. Ends \/ GoesOn
  BY <1>1, <1>3, EndsEmpty DEF GoesOn
<1>5. Whole(tree') /\ Spared
  <2>1. CASE UNCHANGED tree
    BY <2>1 DEF Spared
  <2>2. CASE ~UNCHANGED tree
    <3>1. PICK p : p = call.args.save_frame_path
      OBVIOUS
    <3>2. p \in Path /\ ~MatchesProtected(p, policy.unwritable, Base)
      BY <1>1, <1>2, <1>3, <2>2, <3>1, NoneProtected
    <3>3. Whole(tree') /\ \A q \in DOMAIN tree : q # p => q \in DOMAIN tree' /\ tree'[q] = tree[q]
      BY <1>1, <2>2, <3>1, <3>2, WrittenIs
    <3> QED
      BY <3>2, <3>3 DEF Spared
  <2> QED
    BY <2>1, <2>2
<1> QED
  BY <1>1, <1>3, <1>4, <1>5 DEF Advances, Rest

\* Directories are made, no file is changed.
LEMMA MakeDirAdvances ==
    ASSUME Underway, Whole(tree), MakeDir
    PROVE  Advances
<1>1. /\ call.at = "granted" /\ call.tool \in Writers /\ Rest
      /\ Tools[call.tool].required \subseteq DOMAIN call.args
      /\ \/ CanMake(tree, call.args.path) /\ tree' = Made(tree, call.args.path)
         \/ UNCHANGED tree
      /\ \E ok : Finish(ok, {})
  BY DEF MakeDir, Complete, Running, Writers
<1>2. call # Idle /\ call.args.path \in Path
  BY <1>1, WriterIs
<1>3. PICK p : p = call.args.path
  OBVIOUS
<1>4. Whole(tree') /\ \A q \in DOMAIN tree : q \in DOMAIN tree' /\ tree'[q] = tree[q]
  BY <1>1, <1>2, <1>3, MadeWhole
<1>5. Spared
  BY <1>4 DEF Spared
<1>6. Ends
  BY <1>1, EndsEmpty
<1> QED
  BY <1>1, <1>2, <1>4, <1>5, <1>6 DEF Advances, Rest

\* Files taken out along with all that is below them.
LEMMA TakenIs ==
    ASSUME Whole(tree), NEW gone, Base \notin gone, \A r \in gone : Subtree(tree, r) \subseteq gone,
           tree' = Without(tree, gone)
    PROVE  Whole(tree') /\ \A q \in DOMAIN tree \ gone : q \in DOMAIN tree' /\ tree'[q] = tree[q]
<1>1. ASSUME NEW q \in DOMAIN tree \ gone, NEW r \in gone
      PROVE  ~IsPrefix(r, q)
  BY DEF Subtree
<1>2. Whole(Without(tree, gone))
  BY <1>1, WithoutWhole
<1> QED
  BY <1>2 DEF Without

\* A file has nothing below it.
LEMMA DeleteFileAdvances ==
    ASSUME Underway, Whole(tree), DeleteFile
    PROVE  Advances
<1>1. /\ call.at = "granted" /\ call.tool \in Writers /\ Rest
      /\ Tools[call.tool].required \subseteq DOMAIN call.args
      /\ \/ IsFile(tree, call.args.path) /\ tree' = Without(tree, {call.args.path})
         \/ UNCHANGED tree
      /\ \E ok : Finish(ok, {})
  BY DEF DeleteFile, Complete, Running, Writers
<1>2. /\ call # Idle /\ call.args.path \in Path
      /\ ~MatchesProtected(call.args.path, policy.unwritable, Base)
  BY <1>1, WriterIs
<1>3. PICK p : p = call.args.path
  OBVIOUS
<1>4. Whole(tree') /\ Spared
  <2>1. CASE IsFile(tree, p) /\ tree' = Without(tree, {p})
    <3>1. Base # p /\ Subtree(tree, p) \subseteq {p}
      BY <1>2, <1>3, <2>1 DEF Whole, IsDir, IsFile, Subtree
    <3>2. Whole(tree') /\ \A q \in DOMAIN tree \ {p} : q \in DOMAIN tree' /\ tree'[q] = tree[q]
      BY <2>1, <3>1, TakenIs
    <3> QED
      BY <1>2, <1>3, <3>2 DEF Spared
  <2>2. CASE UNCHANGED tree
    BY <2>2 DEF Spared
  <2> QED
    BY <1>1, <1>3, <2>1, <2>2
<1>5. Ends
  BY <1>1, EndsEmpty
<1> QED
  BY <1>1, <1>2, <1>4, <1>5 DEF Advances, Rest

\* Whatever of a directory is gone lies below it, and it is not the base.
LEMMA DeleteDirAdvances ==
    ASSUME Underway, Whole(tree), DeleteDir
    PROVE  Advances
<1>1. /\ call.at = "granted" /\ call.tool = "deletedir" /\ Rest
      /\ Tools[call.tool].required \subseteq DOMAIN call.args
      /\ \E ok : Finish(ok, {})
  BY DEF DeleteDir, Complete, Running
<1>2. call.tool \in Writers
  BY <1>1 DEF Writers
<1>3. /\ call # Idle /\ call.args.path \in Path
      /\ ~MatchesProtected(call.args.path, policy.unwritable, Base)
  BY <1>1, <1>2, WriterIs
<1>4. call.args.path # Base
  BY <1>1, BusyIs DEF ErasesBase
<1>5. PICK p : p = call.args.path
  OBVIOUS
<1>6. ASSUME NEW gone \in SUBSET Subtree(tree, p), \A q \in gone : Subtree(tree, q) \subseteq gone,
             tree' = Without(tree, gone)
      PROVE  Whole(tree') /\ Spared
  <2>1. Base \in Path /\ ~IsPrefix(p, Base)
    BY <1>3, <1>4, <1>5, BaseIs, PrefixOrder
  <2>2. Base \notin gone
    BY <2>1 DEF Subtree
  <2>3. Whole(tree') /\ \A q \in DOMAIN tree \ gone : q \in DOMAIN tree' /\ tree'[q] = tree[q]
    BY <1>6, <2>2, TakenIs
  <2>4. \A q \in gone : IsPrefix(p, q)
    BY DEF Subtree
  <2> QED
    BY <1>1, <1>3, <1>5, <2>3, <2>4 DEF Spared, IsStrictPrefix
<1>7. \A q \in Subtree(tree, p) : Subtree(tree, q) \subseteq Subtree(tree, p)
  <2>1. ASSUME NEW q \in Subtree(tree, p), NEW r \in Subtree(tree, q)
        PROVE  r \in Subtree(tree, p)
    <3>1. q \in Path /\ r \in Path /\ r \in DOMAIN tree /\ IsPrefix(p, q) /\ IsPrefix(q, r)
      BY DEF Subtree, Whole
    <3>2. IsPrefix(p, r)
      BY <1>3, <1>5, <3>1, PrefixOrder
    <3> QED
      BY <3>1, <3>2 DEF Subtree
  <2> QED
    BY <2>1
<1>8. Whole(tree') /\ Spared
  <2>1. \/ UNCHANGED tree
        \/ tree' = Without(tree, Subtree(tree, p))
        \/ \E gone \in SUBSET (Subtree(tree, p) \ {p}) :
              /\ \A q \in gone : Subtree(tree, q) \subseteq gone
              /\ tree' = Without(tree, gone)
    BY <1>5 DEF DeleteDir
  <2>2. CASE UNCHANGED tree
    BY <2>2 DEF Spared
  <2>3. CASE tree' = Without(tree, Subtree(tree, p))
    BY <1>6, <1>7, <2>3
  <2>4. CASE \E gone \in SUBSET (Subtree(tree, p) \ {p}) :
                /\ \A q \in gone : Subtree(tree, q) \subseteq gone
                /\ tree' = Without(tree, gone)
    <3>1. PICK gone \in SUBSET (Subtree(tree, p) \ {p}) :
                /\ \A q \in gone : Subtree(tree, q) \subseteq gone
                /\ tree' = Without(tree, gone)
      BY <2>4
    <3>2. gone \in SUBSET Subtree(tree, p)
      OBVIOUS
    <3> QED
      BY <1>6, <3>1, <3>2
  <2> QED
    BY <2>1, <2>2, <2>3, <2>4
<1>9. Ends
  BY <1>1, EndsEmpty
<1> QED
  BY <1>1, <1>3, <1>8, <1>9 DEF Advances, Rest

\* movefile: whatever it makes and moves, it replaces at most its target.
LEMMA MoveIs ==
    ASSUME Whole(tree), NEW p \in Path, NEW target \in Path, NEW made, Whole(made),
           \A q \in DOMAIN tree : q \in DOMAIN made /\ made[q] = tree[q],
           NEW real,
           real = IF IsDir(made, target) /\ p # Base /\ p # target
                  THEN Append(target, Last(p)) ELSE target,
           p \in DOMAIN made, real # Base, ~IsPrefix(p, real), IsDir(made, Front(real)),
           real # target => real \notin DOMAIN made,
           tree' = Renamed(made, p, real)
    PROVE  /\ Whole(tree')
           /\ \A q \in DOMAIN tree : ~IsPrefix(p, q) /\ q # target =>
                 q \in DOMAIN tree' /\ tree'[q] = tree[q]
<1>1. p # Base
  <2>1. target \in Path /\ IsPrefix(Base, target)
    BY PrefixOrder
  <2> QED
    BY <2>1
<1>2. Last(p) \in DOMAIN Fold
  BY <1>1, ParentIs
<1>3. Append(target, Last(p)) \in Path /\ Append(target, Last(p)) # target
  BY <1>2, EntryIs
<1>4. real \in Path
  BY <1>3
<1>5. p # target \/ real # target
  BY PrefixOrder
<1>6. ~IsDir(made, real)
  BY <1>1, <1>3, <1>5 DEF IsDir
<1>7. /\ Whole(Renamed(made, p, real))
      /\ \A q \in DOMAIN made : ~IsPrefix(p, q) /\ q # real =>
            q \in DOMAIN Renamed(made, p, real) /\ Renamed(made, p, real)[q] = made[q]
  BY <1>4, <1>6, RenamedWhole
<1>8. \A q \in DOMAIN tree : q # target => q # real
  OBVIOUS
<1> QED
  BY <1>7, <1>8

\* A move replaces its target at most and takes along what is below its path.
LEMMA MoveAdvances ==
    ASSUME Underway, Whole(tree), Move
    PROVE  Advances
<1>1. call.at = "moving" /\ call.tool = "movefile" /\ Rest
  BY DEF Move, Running
<1>2. /\ Tools[call.tool].category = "write"
      /\ Tools[call.tool].required = {"path", "target_path"}
  BY <1>1, SystemRows
<1>3. /\ call # Idle /\ Tools[call.tool].required \subseteq DOMAIN call.args
      /\ \A k \in DOMAIN call.args : call.args[k] \in Path
      /\ ~Protected(call.tool, call.args)
  BY <1>1, BusyIs
<1>4. PICK p, target : p = call.args.path /\ target = call.args.target_path
  OBVIOUS
<1>5. /\ p \in Path /\ target \in Path
      /\ ~MatchesProtected(p, policy.unwritable, Base)
      /\ ~MatchesProtected(target, policy.unwritable, Base)
  BY <1>2, <1>3, <1>4, NoneProtected
<1>6. PICK parent : parent = IF target = Base THEN Base ELSE Front(target)
  OBVIOUS
<1>7. parent \in Path
  BY <1>5, <1>6, BaseIs, ParentIs
<1>8. PICK made : made = Made(tree, parent)
  OBVIOUS
<1>9. PICK real : real = IF IsDir(made, target) /\ p # Base /\ p # target
                         THEN Append(target, Last(p)) ELSE target
  OBVIOUS
<1>10. /\ \E ok : Finish(ok, {})
       /\ \/ UNCHANGED tree
          \/ /\ CanMake(tree, parent)
             /\ \/ tree' = made
                \/ /\ p \in DOMAIN made /\ real # Base /\ ~IsPrefix(p, real)
                   /\ IsDir(made, Front(real))
                   /\ real # target => real \notin DOMAIN made
                   /\ tree' = Renamed(made, p, real)
  <2>1. CASE ~CanMake(tree, parent)
    BY <1>4, <1>6, <1>8, <1>9, <2>1 DEF Move
  <2>2. CASE CanMake(tree, parent) /\ p = target /\ p \in DOMAIN made
    BY <1>4, <1>6, <1>8, <1>9, <2>2 DEF Move
  <2>3. CASE CanMake(tree, parent) /\ ~(p = target /\ p \in DOMAIN made)
    BY <1>4, <1>6, <1>8, <1>9, <2>3 DEF Move
  <2> QED
    BY <2>1, <2>2, <2>3
<1>11. Whole(tree') /\ \A q \in DOMAIN tree : ~IsPrefix(p, q) /\ q # target =>
                          q \in DOMAIN tree' /\ tree'[q] = tree[q]
  <2>1. CASE UNCHANGED tree
    BY <2>1
  <2>2. CASE CanMake(tree, parent)
    <3>1. Whole(made) /\ \A q \in DOMAIN tree : q \in DOMAIN made /\ made[q] = tree[q]
      BY <1>7, <1>8, <2>2, MadeWhole
    <3> QED
      BY <1>5, <1>9, <1>10, <3>1, MoveIs
  <2> QED
    BY <1>10, <2>1, <2>2
<1>12. Spared
  BY <1>1, <1>4, <1>5, <1>11 DEF Spared, IsStrictPrefix
<1>13. Ends
  BY <1>10, EndsEmpty
<1> QED
  BY <1>1, <1>3, <1>11, <1>12, <1>13 DEF Advances, Rest

----------------------------------------------------------------------------
(* The start of a call                                                     *)

\* A path that is not refused is the one given, or that of the only match.
LEMMA ResolvedIs ==
    ASSUME Whole(tree), NEW tool, NEW key, NEW given \in Givens, NEW p \in Resolved(tool, key, given)
    PROVE  /\ p \in Path
           /\ \/ p = given.path
              \/ /\ tool \in DiscoverableTools /\ given.path \notin DOMAIN tree
                 /\ Matches(given.path) = {p}
<1>1. given.path # Outside
  BY DEF Resolved
<1>2. given.path \in Path
  BY <1>1, ToolCallsAssumption DEF Path
<1>3. \/ p = given.path
      \/ /\ tool \in DiscoverableTools /\ given.path \notin DOMAIN tree
         /\ Matches(given.path) = {p}
  BY <1>1 DEF Resolved
<1>4. Walk(Base) \subseteq Path
  BY BaseIs DEF Walk, Whole, Subtree
<1>5. Matches(given.path) \subseteq Path
  BY <1>4 DEF Matches
<1> QED
  BY <1>2, <1>3, <1>5

\* What call_tool does before the function runs.
LEMMA AskIs ==
    ASSUME Whole(tree), NEW tool, Ask(tool)
    PROVE  /\ call = Idle /\ UNCHANGED <<tree, policy>>
           /\ answer'.seen = {}
           /\ \/ UNCHANGED call
              \/ \E given \in ArgumentSets(tool) : \E args :
                    /\ call' = [at |-> "granted", tool |-> tool, args |-> args, given |-> given]
                    /\ \A k \in DOMAIN given :
                          k \in DOMAIN args /\ args[k] \in Resolved(tool, k, given[k])
                    /\ \A k \in DOMAIN args : k \in DOMAIN given \/ args[k] = Base
                    /\ tool \in DefaultPathTools => "path" \in DOMAIN args
                    /\ ~ErasesBase(tool, args) /\ ~Protected(tool, args)
<1>1. call = Idle /\ UNCHANGED <<tree, policy>>
  BY DEF Ask
<1>2. CASE RefuseEarly
  BY <1>1, <1>2 DEF RefuseEarly, Answered
<1>3. CASE ~RefuseEarly
  <2>1. PICK given, found :
          /\ given \in ArgumentSets(tool)
          /\ found = [k \in DOMAIN given |-> Resolved(tool, k, given[k])]
          /\ \A k \in DOMAIN given : found[k] # {}
          /\ LET args == WithDefault(tool, [k \in DOMAIN given |-> CHOOSE p \in found[k] : TRUE])
             IN  IF ErasesBase(tool, args)
                 THEN RefuseEarly
                 ELSE IF ~Allowed(tool) \/ NeedsApproval(tool) \/ Protected(tool, args)
                 THEN Answered(FALSE, {}) /\ Audited(FALSE) /\ UNCHANGED call
                 ELSE /\ call' = [at |-> "granted", tool |-> tool, args |-> args, given |-> given]
                      /\ answer' = None /\ UNCHANGED audit
    BY <1>3 DEF Ask
  <2>2. PICK chosen : chosen = [k \in DOMAIN given |-> CHOOSE p \in found[k] : TRUE]
    OBVIOUS
  <2>3. PICK args : args = WithDefault(tool, chosen)
    OBVIOUS
  <2>4. \A k \in DOMAIN given : chosen[k] \in Resolved(tool, k, given[k])
    BY <2>1, <2>2
  <2>5. /\ \A k \in DOMAIN given : k \in DOMAIN args /\ args[k] = chosen[k]
        /\ \A k \in DOMAIN args : k \in DOMAIN given \/ args[k] = Base
        /\ tool \in DefaultPathTools => "path" \in DOMAIN args
    BY <2>2, <2>3 DEF WithDefault
  <2>6. \/ Answered(FALSE, {}) /\ UNCHANGED call
        \/ /\ ~ErasesBase(tool, args) /\ ~Protected(tool, args) /\ answer' = None
           /\ call' = [at |-> "granted", tool |-> tool, args |-> args, given |-> given]
    BY <1>3, <2>1, <2>2, <2>3
  <2>7. answer'.seen = {}
    BY <2>6 DEF Answered, None
  <2>8. \/ UNCHANGED call
        \/ /\ call' = [at |-> "granted", tool |-> tool, args |-> args, given |-> given]
           /\ \A k \in DOMAIN given :
                 k \in DOMAIN args /\ args[k] \in Resolved(tool, k, given[k])
           /\ \A k \in DOMAIN args : k \in DOMAIN given \/ args[k] = Base
           /\ tool \in DefaultPathTools => "path" \in DOMAIN args
           /\ ~ErasesBase(tool, args) /\ ~Protected(tool, args)
    BY <2>4, <2>5, <2>6
  <2> QED
    BY <1>1, <2>1, <2>7, <2>8
<1> QED
  BY <1>2, <1>3

\* A call that is let through was looked at.
LEMMA AskUnderway ==
    ASSUME Whole(tree), Underway, NEW tool, Ask(tool)
    PROVE  Underway'
<1>1. CASE UNCHANGED call
  BY <1>1, AskIs DEF Underway
<1>2. CASE ~UNCHANGED call
  <2>1. PICK given, args :
           /\ given \in ArgumentSets(tool)
           /\ call' = [at |-> "granted", tool |-> tool, args |-> args, given |-> given]
           /\ \A k \in DOMAIN given :
                 k \in DOMAIN args /\ args[k] \in Resolved(tool, k, given[k])
           /\ \A k \in DOMAIN args : k \in DOMAIN given \/ args[k] = Base
           /\ tool \in DefaultPathTools => "path" \in DOMAIN args
           /\ ~ErasesBase(tool, args) /\ ~Protected(tool, args)
    BY <1>2, AskIs
  <2>2. \A k \in DOMAIN given : given[k] \in Givens
    BY <2>1 DEF ArgumentSets
  <2>3. ASSUME NEW k \in DOMAIN args
        PROVE  args[k] \in Path
    BY <2>1, <2>2, ResolvedIs, BaseIs
  <2>4. policy' = policy
    BY AskIs
  <2>5. /\ call'.at = "granted" /\ call'.tool = tool /\ call'.args = args
        /\ DOMAIN call' = {"at", "tool", "args", "given"}
    BY <2>1
  <2>6. ~Protected(call.tool, call.args)' /\ ~ErasesBase(call.tool, call.args)'
    BY <2>1, <2>4, <2>5 DEF Protected, ErasesBase
  <2> QED
    BY <2>1, <2>3, <2>5, <2>6 DEF Underway
<1> QED
  BY <1>1, <1>2

----------------------------------------------------------------------------
(* The whole                                                               *)

IInv == Whole(tree) /\ Underway

\* A step asks, is another program's, or takes the call under way further.
LEMMA StepIs ==
    ASSUME Underway, Whole(tree), Step
    PROVE  (\E tool : Ask(tool)) \/ OtherProgram \/ Advances
<1>1. CASE \E tool \in Asked : Ask(tool)
  BY <1>1
<1>2. CASE \/ Incomplete \/ QueryGit \/ UseSerial \/ RunElsewhere \/ CheckMissing \/ ReadBack
           \/ ReadToReplace \/ CheckMove \/ LoadFrame \/ ChooseModel \/ Describe
  BY <1>2, QuietStepAdvances
<1>3. CASE ReadFile \/ ReadLines \/ ReadSource \/ CheckSource \/ ReadTable
  BY <1>3, ReaderAdvances
<1>4. CASE ListDir \/ ListTree \/ Search
  BY <1>4, WalkerAdvances
<1>5. CASE RunPython \/ RunNode \/ RunDotnet
  BY <1>5, CommandAdvances
<1>6. CASE CreateFile \/ WriteFile \/ Replace
  BY <1>6, WriterAdvances
<1>7. CASE SaveChart \/ SaveFrame \/ MakeDir
  BY <1>7, SaveChartAdvances, SaveFrameAdvances, MakeDirAdvances
<1>8. CASE DeleteFile \/ DeleteDir \/ Move
  BY <1>8, DeleteFileAdvances, DeleteDirAdvances, MoveAdvances
<1>9. CASE OtherProgram
  BY <1>9
<1> QED
  BY <1>1, <1>2, <1>3, <1>4, <1>5, <1>6, <1>7, <1>8, <1>9 DEF Step

\* The trees a runtime starts on are whole.
LEMMA InitInv == Init => IInv
<1> SUFFICES ASSUME Init
             PROVE  IInv
  OBVIOUS
<1>1. PICK t \in Trees : tree = t
  BY DEF Init
<1>2. /\ Base \in DOMAIN t /\ t[Base] = "dir" /\ DOMAIN t \subseteq Path
      /\ \A p \in DOMAIN t : \A i \in 0 .. Len(p) - 1 :
            SubSeq(p, 1, i) \in DOMAIN t /\ t[SubSeq(p, 1, i)] = "dir"
  BY ToolCallsAssumption DEF Path
<1>3. ASSUME NEW q \in DOMAIN t, NEW r \in Path, IsPrefix(r, q), r # q
      PROVE  IsDir(t, r)
  <2>1. q \in Path
    BY <1>2
  <2>2. PICK i \in 0 .. Len(q) - 1 : r = SubSeq(q, 1, i)
    BY <1>3, <2>1, AncestorsAre
  <2> QED
    BY <1>2, <2>2 DEF IsDir
<1>4. Whole(tree)
  BY <1>1, <1>2, <1>3 DEF Whole, IsDir
<1>5. Underway
  BY DEF Init, Underway
<1> QED
  BY <1>4, <1>5 DEF IInv

\* Every step keeps the invariant.
LEMMA NextInv == IInv /\ [Next]_vars => IInv'
<1> SUFFICES ASSUME IInv, [Next]_vars
             PROVE  IInv'
  OBVIOUS
<1>1. CASE UNCHANGED vars
  BY <1>1 DEF vars, IInv, Whole, Underway, IsDir, Protected, MatchesProtected, CandidatePaths,
              ErasesBase
<1>2. CASE \E tool : Ask(tool)
  <2>1. PICK tool : Ask(tool)
    BY <1>2
  <2>2. tree' = tree /\ policy' = policy
    BY <2>1, AskIs DEF IInv
  <2>3. Underway'
    BY <2>1, AskUnderway DEF IInv
  <2>4. Whole(tree)'
    BY <2>2 DEF IInv
  <2> QED
    BY <2>3, <2>4 DEF IInv
<1>3. CASE OtherProgram
  <2>1. SomeChange /\ UNCHANGED <<policy, call>>
    BY <1>3 DEF OtherProgram
  <2>2. Whole(tree')
    BY <2>1, SomeChangeWhole DEF IInv
  <2>3. Underway'
    BY <2>1 DEF IInv, Underway, Protected, MatchesProtected, CandidatePaths, ErasesBase
  <2> QED
    BY <2>2, <2>3 DEF IInv
<1>4. CASE Advances
  <2>1. Underway' /\ Whole(tree')
    BY <1>4, AdvancesUnderway DEF IInv, Advances
  <2> QED
    BY <2>1 DEF IInv
<1> QED
  BY <1>1, <1>2, <1>3, <1>4, StepIs DEF Next, IInv

\* The invariant holds throughout.
LEMMA Invariant == Spec => []IInv
  BY InitInv, NextInv, PTL DEF Spec

\* BASE_DIR is a directory throughout and every file of the tree lies in a
\* directory of it, whatever the tools are given and other programs change.
THEOREM BaseIsKept == Spec => []BaseKept
<1>1. IInv => BaseKept
  BY WholeKeepsBase DEF IInv, BaseKept
<1> QED
  BY <1>1, Invariant, PTL

\* What the policy refuses is shown by no tool that reads one path, and by a listing
\* or search only for its path, from a directory below the base or by list_tree, and
\* never with patterns that seal what they protect, as the default ones do.
THEOREM RefusedAreShownByPath == Spec => RefusedShownByPath
<1> DEFINE A == (call # Idle /\ call' = Idle) =>
                   \A p \in answer'.seen :
                      MatchesProtected(p, policy.unreadable, Base) =>
                         /\ call.tool \in Walkers
                         /\ <<Last(p)>> \notin UNION policy.unreadable
                         /\ call.args.path # Base \/ call.tool = "list_tree"
                         /\ ~Sealing(policy.unreadable)
<1>1. IInv /\ [Next]_vars => [A]_vars
  <2> SUFFICES ASSUME IInv, Next, call # Idle, call' = Idle
               PROVE  A
    OBVIOUS
  <2>1. Advances
    BY StepIs DEF Next, IInv, OtherProgram, Ask
  <2>2. CASE Ends
    <3>1. PICK ok, seen : Finish(ok, seen) /\ Readable(seen)
      BY <2>2 DEF Ends
    <3>2. answer'.seen = seen
      BY <3>1 DEF Finish, Answered
    <3> QED
      BY <3>1, <3>2 DEF Readable, MayShow
  <2>3. CASE GoesOn
    <3>1. PICK at : at # "idle" /\ call' = [call EXCEPT !.at = at]
      BY <2>3 DEF GoesOn, Goto
    <3>2. call'.at = at
      BY <3>1 DEF IInv, Underway
    <3> QED
      BY <3>1, <3>2 DEF Idle
  <2> QED
    BY <2>1, <2>2, <2>3 DEF Advances
<1> HIDE DEF A
<1>2. Spec => [][A]_vars
  BY <1>1, Invariant, PTL DEF Spec
<1> QED
  BY <1>2 DEF A, RefusedShownByPath

\* A writing tool changes no protected file, by whichever argument it is given,
\* except along with a directory above it that it deletes or moves.
THEOREM ProtectedIsKept == Spec => ProtectedKept
<1> DEFINE A == (/\ call # Idle /\ call' # call
                 /\ Tools[call.tool].category \in {"write", "delete", "media_input"}) =>
                   \A p \in DOMAIN tree :
                      MatchesProtected(p, policy.unwritable, Base) =>
                         \/ p \in DOMAIN tree' /\ tree'[p] = tree[p]
                         \/ /\ call.tool \in {"deletedir", "movefile"}
                            /\ IsStrictPrefix(call.args.path, p)
<1>1. IInv /\ [Next]_vars => [A]_vars
  <2> SUFFICES ASSUME IInv, Next
               PROVE  A
    OBVIOUS
  <2>1. (\E tool : Ask(tool)) \/ OtherProgram \/ Advances
    BY StepIs DEF Next, IInv
  <2>2. CASE \E tool : Ask(tool)
    BY <2>2 DEF Ask
  <2>3. CASE OtherProgram
    BY <2>3 DEF OtherProgram
  <2>4. CASE Advances
    BY <2>4 DEF Advances, Spared
  <2> QED
    BY <2>1, <2>2, <2>3, <2>4
<1> HIDE DEF A
<1>2. Spec => [][A]_vars
  BY <1>1, Invariant, PTL DEF Spec
<1> QED
  BY <1>2 DEF A, ProtectedKept
=============================================================================
