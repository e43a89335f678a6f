------------------------ MODULE NodeRegistry_proofs ------------------------
(***************************************************************************)
(* Proofs about NodeRegistry for any number of threads, hosts and nodes,   *)
(* any time to live and any bound on the length of a resolve: results      *)
(* taken for fresh are (FreshResults), hosts that have gone are left       *)
(* (GoneHostsLeave), turns are taken (TakesTurns) and the best models are  *)
(* promoted (PromotesBest).                                                *)
(***************************************************************************)
EXTENDS NodeRegistry, FiniteSetTheorems, TLAPS

Fields == DOMAIN Idle

\* Host u is up, or was at the given time or later.
Heard(u, time) == host[u].up \/ host[u].since >= time

\* A node a thread that looked at the given time may choose.
Reached(node, now) ==
    (~node.is_local /\ node.url \in Urls) => Heard(node.url, now - TTL - MaxResolve + 1)

\* The clock, and the hosts, which went silent in the past.
Timed ==
    /\ clock \in Nat
    /\ DOMAIN host = Urls
    /\ \A u \in Urls : host[u].since \in Nat /\ host[u].since <= clock

\* The cache was stored no earlier than the time it carries, by a refresh that
\* took MaxResolve at most.
Dated ==
    /\ filled \in Nat /\ filled <= clock
    /\ last \in Int /\ last <= filled
    /\ last # Never => DOMAIN cache = Urls
    /\ DOMAIN cache \subseteq Urls
    /\ \A u \in DOMAIN cache : cache[u].reachable => Heard(u, filled - MaxResolve)

\* What the local variables of a thread say of the hosts and the cache.
Proceeds(r) ==
    /\ r.now \in Nat /\ r.now <= clock
    /\ r.at \in Resolving => clock <= r.now + MaxResolve
    /\ r.at \notin {"probe", "dead"} => r.found = <<>>
    /\ DOMAIN r.found \subseteq Urls
    /\ \A u \in DOMAIN r.found : r.found[u].reachable => Heard(u, r.now)
    /\ r.at = "stamp" => DOMAIN cache = Urls /\ r.now <= filled
    /\ r.at \in Choosing => DOMAIN cache = Urls /\ r.now - filled < TTL
    /\ \A node \in r.kept : Reached(node, r.now)
    /\ IsFiniteSet(r.kept)
    /\ r.at = "chosen" => Reached(r.choice, r.now)

Shaped == DOMAIN req = Requesters /\ \A t \in Requesters : DOMAIN req[t] = Fields
Proceeding == \A t \in Requesters : Proceeds(req[t])

\* An index is the position after that of the node last chosen.
Turned ==
    \A role \in DOMAIN prior :
        /\ role \in DOMAIN indices
        /\ IsFiniteSet(prior[role].kept)
        /\ indices[role] = Position(prior[role].node, prior[role].kept) + 1

IInv == Timed /\ Dated /\ Shaped /\ Proceeding /\ Turned

----------------------------------------------------------------------------
(* Lemmas                                                                   *)

\* The times of the registry, from the assumption.
LEMMA Bounds == TTL \in Nat /\ TTL > 0 /\ MaxResolve \in Nat /\ Changing \subseteq Urls
BY RegistryAssumption DEF RegistryAssumption

\* A step of one thread changes its record alone.
LEMMA OneThread ==
    ASSUME Shaped, NEW t \in Requesters, NEW r, DOMAIN r = Fields, req' = [req EXCEPT ![t] = r]
    PROVE  /\ Shaped'
           /\ req'[t] = r
           /\ \A s \in Requesters \ {t} : req'[s] = req[s]
BY DEF Shaped

\* A step of one thread that leaves the rest alone keeps the invariant when its
\* new record is right.
LEMMA OneProceeds ==
    ASSUME IInv, NEW t \in Requesters, NEW r, DOMAIN r = Fields, Proceeds(r),
           req' = [req EXCEPT ![t] = r],
           UNCHANGED <<clock, host, cache, last, indices, filled, prior>>
    PROVE  IInv'
<1>1. Shaped' /\ \A s \in Requesters : req'[s] = IF s = t THEN r ELSE req[s]
  BY OneThread DEF IInv
<1>2. \A s \in Requesters : Proceeds(req[s])' 
  <2> TAKE s \in Requesters
  <2>1. Proceeds(req'[s])
    BY <1>1 DEF IInv, Proceeding
  <2> QED
    BY <2>1 DEF Proceeds, Reached, Heard
<1>3. Timed' /\ Dated' /\ Turned'
  BY DEF IInv, Timed, Dated, Turned, Heard, Position
<1> QED
  BY <1>1, <1>2, <1>3 DEF IInv, Proceeding

\* The idle record, and one that has just read the clock.
LEMMA IdleProceeds == Timed => DOMAIN Idle = Fields /\ Proceeds(Idle)
<1>1. IsFiniteSet({})
  BY FS_EmptySet
<1>2. DOMAIN <<>> = {}
  OBVIOUS
<1> QED
  BY <1>1, <1>2, Bounds DEF Proceeds, Idle, Fields, Timed, Resolving, Choosing

\* A thread that has just read the clock knows of no host yet.
LEMMA ReadyProceeds ==
    ASSUME Timed, NEW r, r.at = "compare", r.now = clock, r.found = <<>>, r.kept = {}
    PROVE  Proceeds(r)
<1>1. IsFiniteSet({})
  BY FS_EmptySet
<1>2. DOMAIN <<>> = {}
  OBVIOUS
<1> QED
  BY <1>1, <1>2, Bounds DEF Proceeds, Timed, Resolving, Choosing

\* Where a thread goes with the hosts it has resolved.
LEMMA AfterIn == \A r : After(r) \in {"listing", "byId", "byRole"}
BY DEF After

\* A node found available is one that may be chosen, by a thread whose results
\* are fresh.
LEMMA AvailableReached ==
    ASSUME Timed, Dated, NEW node, IsAvailable(node, cache), NEW now \in Nat,
           DOMAIN cache = Urls, now - filled < TTL
    PROVE  Reached(node, now)
<1> SUFFICES ASSUME ~node.is_local, node.url \in Urls, ~host[node.url].up
             PROVE  host[node.url].since >= now - TTL - MaxResolve + 1
  BY DEF Reached, Heard
<1> DEFINE since == host[node.url].since
<1>1. cache[node.url].reachable
  BY DEF IsAvailable
<1>2. since >= filled - MaxResolve /\ since \in Nat
  BY <1>1 DEF Dated, Timed, Heard
<1>3. filled \in Nat
  BY DEF Dated
<1> HIDE DEF since
<1>4. since >= now - TTL - MaxResolve + 1
  BY <1>2, <1>3, Bounds
<1> QED
  BY <1>4 DEF since

\* The local node needs no host.
LEMMA LocalReached == \A now : Reached(LocalNode, now)
BY DEF Reached, LocalNode

----------------------------------------------------------------------------
(* The steps                                                                *)

\* At first there is no cache and no thread under way.
LEMMA InitHolds == Init => IInv
<1> SUFFICES ASSUME Init PROVE IInv
  OBVIOUS
<1> USE Bounds
<1>1. Timed
  BY DEF Init, Timed, Up, Silent
<1>2. DOMAIN <<>> = {}
  OBVIOUS
<1>3. Dated
  BY <1>2 DEF Init, Dated, Never
<1>4. Shaped
  BY DEF Init, Shaped, Starting, Fields, Idle
<1>5. Proceeding
  <2> SUFFICES ASSUME NEW t \in Requesters PROVE Proceeds(req[t])
    BY DEF Proceeding
  <2>1. CASE t = Main
    <3>1. req[t] = Starting
      BY <2>1 DEF Init
    <3>2. Starting.at = "compare" /\ Starting.now = 0 /\ Starting.found = <<>> /\ Starting.kept = {}
      BY DEF Starting, Idle
    <3> QED
      BY <1>1, <3>1, <3>2, ReadyProceeds DEF Init
  <2>2. CASE t # Main
    BY <2>2, <1>1, IdleProceeds DEF Init
  <2> QED
    BY <2>1, <2>2
<1>6. Turned
  BY <1>2 DEF Init, Turned
<1> QED
  BY <1>1, <1>3, <1>4, <1>5, <1>6 DEF IInv

\* What a thread found of a host was so when it found it.
LEMMA HostChangesKeeps == ASSUME IInv, NEW u \in Urls, HostChanges(u) PROVE IInv'
<1> USE Bounds
<1>1. /\ DOMAIN host' = Urls
      /\ \A v \in Urls \ {u} : host'[v] = host[v]
      /\ host'[u].since \in Nat /\ host'[u].since <= clock
      /\ host'[u].up \/ host'[u].since = clock
  <2>0. DOMAIN host = Urls /\ clock \in Nat
    BY DEF IInv, Timed
  <2>1. CASE \E models \in HostModels[u] : host' = [host EXCEPT ![u] = Up(models)]
    <3>1. PICK models : host' = [host EXCEPT ![u] = Up(models)]
      BY <2>1
    <3>2. Up(models).since = 0 /\ Up(models).up
      BY DEF Up
    <3> QED
      BY <2>0, <3>1, <3>2
  <2>2. CASE host' = [host EXCEPT ![u] = Silent(clock)]
    <3>1. Silent(clock).since = clock
      BY DEF Silent
    <3> QED
      BY <2>0, <2>2, <3>1
  <2> QED
    BY <2>1, <2>2 DEF HostChanges
<1>2. Timed'
  BY <1>1 DEF IInv, Timed, HostChanges
<1>3. ASSUME NEW v \in Urls, NEW time \in Int, time <= clock, Heard(v, time)
      PROVE  Heard(v, time)'
  BY <1>1, <1>3 DEF IInv, Timed, Heard
<1>4. Dated'
  <2>1. ASSUME NEW v \in DOMAIN cache, cache[v].reachable
        PROVE  Heard(v, filled - MaxResolve)'
    <3>1. Heard(v, filled - MaxResolve) /\ v \in Urls
      BY <2>1 DEF IInv, Dated
    <3>2. filled - MaxResolve \in Int /\ filled - MaxResolve <= clock
      BY DEF IInv, Dated, Timed
    <3>3. (Heard(v, filled - MaxResolve))'
      BY <1>3, <3>1, <3>2 DEF HostChanges
    <3> QED
      BY <3>3
  <2> QED
    BY <2>1 DEF IInv, Dated, Timed, HostChanges
<1>5. ASSUME NEW r, Proceeds(r) PROVE Proceeds(r)'
  <2>0. r.now \in Nat /\ r.now <= clock /\ clock \in Nat
    BY <1>5 DEF Proceeds, IInv, Timed
  <2>1. ASSUME NEW v \in DOMAIN r.found, r.found[v].reachable PROVE Heard(v, r.now)'
    BY <2>0, <2>1, <1>3, <1>5 DEF Proceeds
  <2>2. ASSUME NEW node, Reached(node, r.now) PROVE Reached(node, r.now)'
    <3>1. r.now - TTL - MaxResolve + 1 \in Int /\ r.now - TTL - MaxResolve + 1 <= clock
      BY <2>0
    <3> QED
      BY <2>2, <3>1, <1>3 DEF Reached
  <2> QED
    BY <1>5, <2>1, <2>2 DEF Proceeds, HostChanges
<1>6. Proceeding'
  BY <1>5 DEF IInv, Proceeding, HostChanges
<1> QED
  BY <1>2, <1>4, <1>6 DEF IInv, Shaped, Turned, Position, HostChanges

\* Time passes by at most what the threads under way allow.
LEMMA TickKeeps == ASSUME IInv, Tick PROVE IInv'
<1> USE Bounds
<1>1. Timed' /\ Dated'
  BY DEF IInv, Timed, Dated, Heard, Tick
<1>2. Proceeding'
  <2> SUFFICES ASSUME NEW t \in Requesters PROVE Proceeds(req[t])'
    BY DEF Proceeding
  <2>1. Proceeds(req[t])
    BY DEF IInv, Proceeding
  <2>2. req[t].at \in Resolving => clock < req[t].now + MaxResolve
    BY DEF Tick
  <2> QED
    BY <2>1, <2>2 DEF Proceeds, Reached, Heard, Tick, IInv, Timed
<1> QED
  BY <1>1, <1>2 DEF IInv, Shaped, Turned, Position, Tick

\* The fields of a thread's record, and what is known of it before a step.
LEMMA Known ==
    ASSUME IInv, NEW t \in Requesters
    PROVE  /\ DOMAIN req[t] = Fields /\ Proceeds(req[t])
           /\ Fields = {"at", "want", "node", "role", "force", "now", "found", "left",
                        "kept", "index", "choice"}
           /\ clock \in Nat
BY DEF IInv, Shaped, Proceeding, Timed, Fields, Idle

\* A thread that ends.
LEMMA EndsKeeps ==
    ASSUME IInv, NEW t \in Requesters, Ends(t),
           UNCHANGED <<clock, host, cache, last, indices, filled, prior>>
    PROVE  IInv'
BY IdleProceeds, OneProceeds DEF Ends, IInv

\* A thread that goes on to another step with the local variables it has.
LEMMA GoesKeeps ==
    ASSUME IInv, NEW t \in Requesters, NEW at, Goes(t, at),
           at \in Resolving => req[t].at \in Resolving,
           at \in {"probe", "dead"} \/ req[t].found = <<>>,
           at # "stamp", at # "chosen",
           at \in Choosing => DOMAIN cache = Urls /\ req[t].now - filled < TTL,
           UNCHANGED <<clock, host, cache, last, indices, filled, prior>>
    PROVE  IInv'
<1> DEFINE r == [req[t] EXCEPT !.at = at]
<1>1. req' = [req EXCEPT ![t] = r]
  BY DEF Goes
<1>2. DOMAIN r = Fields /\ r.at = at /\ \A f \in Fields \ {"at"} : r[f] = req[t][f]
  BY Known
<1>3. r.now = req[t].now /\ r.found = req[t].found /\ r.kept = req[t].kept
  BY <1>2, Known
<1>4. Proceeds(r)
  <2> HIDE DEF r
  <2>1. Proceeds(req[t])
    BY Known
  <2> QED
    BY <1>2, <1>3, <2>1 DEF Proceeds
<1> HIDE DEF r
<1> QED
  BY <1>1, <1>2, <1>4, OneProceeds

\* A request starts from nothing.
LEMMA AskKeeps == ASSUME IInv, NEW t \in Requesters, Ask(t) PROVE IInv'
<1>1. PICK c \in Contexts :
          req' = [req EXCEPT ![t] = [Idle EXCEPT !.at = "compare", !.now = clock,
                     !.want = c.want, !.node = c.node, !.role = c.role]]
  BY DEF Ask
<1> DEFINE r == [Idle EXCEPT !.at = "compare", !.now = clock,
                     !.want = c.want, !.node = c.node, !.role = c.role]
<1>2. DOMAIN r = Fields /\ r.at = "compare" /\ r.now = clock /\ r.found = <<>> /\ r.kept = {}
  BY DEF Fields, Idle
<1>3. req' = [req EXCEPT ![t] = r]
  BY <1>1
<1> HIDE DEF r
<1>4. Proceeds(r)
  BY <1>2, ReadyProceeds DEF IInv
<1> QED
  BY <1>2, <1>3, <1>4, OneProceeds DEF Ask

\* The cache is fresh by the time the thread read.
LEMMA CompareKeeps == ASSUME IInv, NEW t \in Requesters, Compare(t) PROVE IInv'
<1>1. req[t].found = <<>> /\ req[t].at = "compare" /\ req[t].now \in Nat
  BY Known DEF Compare, Proceeds
<1>2. "compare" \in Resolving
  BY DEF Resolving
<1>3. CASE IsFresh(t)
  <2>1. Goes(t, After(req[t])) /\ After(req[t]) \in {"listing", "byId", "byRole"}
    BY <1>3, AfterIn DEF Compare
  <2>2. DOMAIN cache = Urls /\ req[t].now - filled < TTL
    BY <1>1, <1>3, Bounds DEF IsFresh, IInv, Dated
  <2> QED
    BY <1>1, <1>2, <2>1, <2>2, GoesKeeps DEF Compare
<1>4. CASE ~IsFresh(t)
  BY <1>1, <1>2, <1>4, GoesKeeps DEF Compare, Choosing
<1> QED
  BY <1>3, <1>4

\* A probe that raises ends the resolve without a result.
LEMMA ProbeRaisesKeeps ==
    ASSUME IInv, NEW t \in Requesters, NEW u \in Urls, ProbeRaises(t, u) PROVE IInv'
BY GoesKeeps, EndsKeeps DEF ProbeRaises, Resolving, Choosing

\* A list resolves the hosts once more, or ends.
LEMMA ListKeeps == ASSUME IInv, NEW t \in Requesters, List(t) PROVE IInv'
<1>1. CASE Ends(t)
  BY <1>1, EndsKeeps DEF List
<1>2. CASE ~Ends(t)
  <2> DEFINE r == [Idle EXCEPT !.at = "compare", !.want = "nodes", !.now = clock]
  <2>1. req' = [req EXCEPT ![t] = r]
    BY <1>2 DEF List
  <2>2. DOMAIN r = Fields /\ r.at = "compare" /\ r.now = clock /\ r.found = <<>> /\ r.kept = {}
    BY DEF Fields, Idle
  <2> HIDE DEF r
  <2>3. Proceeds(r)
    BY <2>2, ReadyProceeds DEF IInv
  <2> QED
    BY <2>1, <2>2, <2>3, OneProceeds DEF List
<1> QED
  BY <1>1, <1>2

\* A thread that returns keeps nothing.
LEMMA ReturnKeeps == ASSUME IInv, NEW t \in Requesters, Return(t) PROVE IInv'
BY EndsKeeps DEF Return

\* One probe: a host that answers is up.
LEMMA ProbeKeeps == ASSUME IInv, NEW t \in Requesters, NEW u \in Urls, Probe(t, u) PROVE IInv'
<1> DEFINE found == With(req[t].found, u, Result(host[u].up, host[u].models))
           r == [req[t] EXCEPT !.found = found]
<1>1. req' = [req EXCEPT ![t] = r] /\ req[t].at = "probe" /\ u \notin DOMAIN req[t].found
  BY DEF Probe
<1>2. /\ DOMAIN found = DOMAIN req[t].found \cup {u}
      /\ found[u].reachable = host[u].up
      /\ \A v \in DOMAIN req[t].found : found[v] = req[t].found[v]
  BY <1>1 DEF Result, With
<1> HIDE DEF found
<1>3. DOMAIN r = Fields /\ r.found = found /\ \A f \in Fields \ {"found"} : r[f] = req[t][f]
  BY Known
<1>4. r.at = "probe" /\ r.now = req[t].now /\ r.kept = req[t].kept
  BY <1>1, <1>3, Known
<1> HIDE DEF r
<1>5. Proceeds(r)
  BY <1>1, <1>2, <1>3, <1>4, Known DEF Proceeds, Heard, Choosing
<1> QED
  BY <1>1, <1>3, <1>5, OneProceeds DEF Probe

\* The results are stored: a host found up was so when the resolve began, or
\* later.
LEMMA StoreCacheKeeps == ASSUME IInv, NEW t \in Requesters, StoreCache(t) PROVE IInv'
<1> USE Bounds
<1> DEFINE r == [req[t] EXCEPT !.at = "stamp", !.found = <<>>]
<1>1. /\ req' = [req EXCEPT ![t] = r] /\ req[t].at = "probe" /\ DOMAIN req[t].found = Urls
      /\ cache' = req[t].found /\ filled' = clock
      /\ UNCHANGED <<clock, host, last, indices, prior>>
  BY DEF StoreCache
<1>2. /\ DOMAIN r = Fields /\ r.at = "stamp" /\ r.found = <<>> /\ r.now = req[t].now
      /\ r.kept = req[t].kept
  BY Known
<1> HIDE DEF r
<1>3. Shaped' /\ \A s \in Requesters : req'[s] = IF s = t THEN r ELSE req[s]
  BY <1>1, <1>2, OneThread DEF IInv
<1>4. req[t].now \in Nat /\ req[t].now <= clock /\ clock <= req[t].now + MaxResolve /\ clock \in Nat
  BY <1>1, Known DEF Proceeds, Resolving
<1>5. Timed'
  BY <1>1 DEF IInv, Timed
<1>6. Dated'
  <2>1. ASSUME NEW u \in Urls, Heard(u, req[t].now) PROVE Heard(u, clock - MaxResolve)
    <3>1. host[u].since \in Nat
      BY DEF IInv, Timed
    <3> QED
      BY <2>1, <3>1, <1>4 DEF Heard
  <2>2. ASSUME NEW u \in Urls, req[t].found[u].reachable PROVE Heard(u, clock - MaxResolve)
    BY <2>1, <2>2, <1>1, Known DEF Proceeds
  <2>3. (\A u \in DOMAIN cache : cache[u].reachable => Heard(u, filled - MaxResolve))'
    BY <2>2, <1>1 DEF Heard
  <2> QED
    BY <2>3, <1>1, <1>4 DEF IInv, Dated
<1>7. Proceeding'
  <2> SUFFICES ASSUME NEW s \in Requesters PROVE Proceeds(req[s])'
    BY DEF Proceeding
  <2>1. CASE s = t
    <3>1. req'[s] = r
      BY <2>1, <1>3
    <3>2. /\ r.at \notin Choosing
          /\ \A node \in r.kept : Reached(node, r.now)
          /\ IsFiniteSet(r.kept)
      BY <1>2, Known DEF Proceeds, Choosing
    <3>3. DOMAIN r.found = {}
      BY <1>2
    <3> QED
      BY <3>1, <3>2, <3>3, <1>1, <1>2, <1>4 DEF Proceeds, Reached, Heard, Resolving
  <2>2. CASE s # t
    <3>1. req'[s] = req[s] /\ Proceeds(req[s])
      BY <2>2, <1>3, Known
    <3> QED
      BY <3>1, <1>1, <1>4 DEF Proceeds, Reached, Heard
  <2> QED
    BY <2>1, <2>2
<1> QED
  BY <1>1, <1>3, <1>5, <1>6, <1>7 DEF IInv, Turned, Position

\* The results get the time of the resolve that asked for them, or of a later
\* store: never one past the store.
LEMMA StoreTimeKeeps == ASSUME IInv, NEW t \in Requesters, StoreTime(t) PROVE IInv'
<1> USE Bounds
<1> DEFINE r == [req[t] EXCEPT !.at = After(req[t])]
<1>1. /\ req' = [req EXCEPT ![t] = r] /\ req[t].at = "stamp" /\ last' = req[t].now
      /\ UNCHANGED <<clock, host, cache, indices, filled, prior>>
  BY DEF StoreTime, Goes
<1>2. /\ DOMAIN r = Fields /\ r.at = After(req[t]) /\ r.found = req[t].found
      /\ r.now = req[t].now /\ r.kept = req[t].kept
  BY Known
<1> HIDE DEF r
<1>3. Shaped' /\ \A s \in Requesters : req'[s] = IF s = t THEN r ELSE req[s]
  <2>1. Shaped /\ DOMAIN r = Fields /\ req' = [req EXCEPT ![t] = r]
    BY <1>1, <1>2 DEF IInv
  <2> QED
    BY <2>1, OneThread, Zenon DEF Shaped
<1>4. DOMAIN cache = Urls /\ req[t].now <= filled /\ req[t].now \in Nat
  BY <1>1, Known DEF Proceeds
<1>5. Timed' /\ Dated'
  BY <1>1, <1>4 DEF IInv, Timed, Dated, Heard
<1>6. Proceeds(r)
  <2>1. Proceeds(req[t]) /\ filled \in Nat
    BY Known DEF IInv, Dated
  <2>2. r.at \in {"listing", "byId", "byRole"}
    BY <1>2, AfterIn
  <2>3. req[t].at \in Resolving
    BY <1>1 DEF Resolving
  <2>4. r.now - filled < TTL
    BY <1>2, <1>4, <2>1
  <2> QED
    BY <1>1, <1>2, <1>4, <2>1, <2>2, <2>3, <2>4 DEF Proceeds
<1>7. Proceeding'
  <2> SUFFICES ASSUME NEW s \in Requesters PROVE Proceeds(req[s])'
    BY DEF Proceeding
  <2>1. Proceeds(req'[s])
    BY <1>3, <1>6, Known
  <2> QED
    BY <2>1, <1>1 DEF Proceeds, Reached, Heard
<1> QED
  BY <1>1, <1>3, <1>5, <1>7 DEF IInv, Turned, Position

\* A thread that has chosen.
LEMMA ChoosesProceeds ==
    ASSUME IInv, NEW t \in Requesters, req[t].at \in Choosing, NEW node,
           Reached(node, req[t].now), NEW r,
           r = [req[t] EXCEPT !.at = "chosen", !.choice = node,
                              !.left = <<>>, !.kept = {}, !.index = 0]
    PROVE  DOMAIN r = Fields /\ Proceeds(r)
<1>1. /\ DOMAIN r = Fields /\ r.at = "chosen" /\ r.choice = node /\ r.kept = {}
      /\ r.found = req[t].found /\ r.now = req[t].now
  BY Known
<1>2. req[t].at \in Resolving /\ req[t].at \notin {"probe", "dead"}
  BY DEF Choosing, Resolving
<1>3. IsFiniteSet({})
  BY FS_EmptySet
<1> QED
  BY <1>1, <1>2, <1>3, Known DEF Proceeds, Choosing

\* A thread may choose a node it has reached.
LEMMA ChoosesKeeps ==
    ASSUME IInv, NEW t \in Requesters, req[t].at \in Choosing, NEW node,
           Reached(node, req[t].now), Chooses(t, node),
           UNCHANGED <<clock, host, cache, last, indices, filled, prior>>
    PROVE  IInv'
<1> DEFINE r == [req[t] EXCEPT !.at = "chosen", !.choice = node,
                              !.left = <<>>, !.kept = {}, !.index = 0]
<1>1. req' = [req EXCEPT ![t] = r]
  BY DEF Chooses
<1>2. DOMAIN r = Fields /\ Proceeds(r)
  BY ChoosesProceeds
<1> HIDE DEF r
<1> QED
  BY <1>1, <1>2, OneProceeds

\* A thread that goes on choosing, with candidates that are there.
LEMMA GoesOnKeeps ==
    ASSUME IInv, NEW t \in Requesters, req[t].at \in Choosing, NEW r, DOMAIN r = Fields,
           r.at \in Choosing, r.found = req[t].found, r.now = req[t].now,
           \A node \in r.kept : Reached(node, r.now), IsFiniteSet(r.kept),
           req' = [req EXCEPT ![t] = r],
           UNCHANGED <<clock, host, cache, last, indices, filled, prior>>
    PROVE  IInv'
<1>1. /\ req[t].at \in Resolving /\ r.at \notin {"stamp", "chosen"}
      /\ req[t].at \notin {"probe", "dead"}
  BY DEF Choosing, Resolving
<1>2. Proceeds(r)
  BY <1>1, Known DEF Proceeds
<1> QED
  BY <1>2, OneProceeds

\* The nodes of a name are only put in line.
LEMMA SelectByIdKeeps == ASSUME IInv, NEW t \in Requesters, SelectById(t) PROVE IInv'
<1> DEFINE left == SelectSeq(ActiveNodes(cache),
                       LAMBDA node : node.id = req[t].node /\ node.enabled)
           r == [req[t] EXCEPT !.at = "tryId", !.left = left]
<1>1. req' = [req EXCEPT ![t] = r] /\ req[t].at = "byId"
  BY DEF SelectById
<1> HIDE DEF left
<1>2. /\ DOMAIN r = Fields /\ r.at = "tryId" /\ r.found = req[t].found
      /\ r.now = req[t].now /\ r.kept = req[t].kept
  BY Known
<1> HIDE DEF r
<1>3. req[t].at \in Choosing /\ "tryId" \in Choosing
  BY <1>1 DEF Choosing
<1>4. (\A node \in r.kept : Reached(node, r.now)) /\ IsFiniteSet(r.kept)
  BY <1>2, Known DEF Proceeds
<1> QED
  BY <1>1, <1>2, <1>3, <1>4, GoesOnKeeps DEF SelectById

\* What the thread knows of the results when it has a node found available.
LEMMA AbleReached ==
    ASSUME IInv, NEW t \in Requesters, req[t].at \in Choosing, NEW node, IsAvailable(node, cache)
    PROVE  Reached(node, req[t].now)
BY Known, AvailableReached DEF IInv, Proceeds

\* A node tried for its name is one the cache has as available.
LEMMA TryIdKeeps == ASSUME IInv, NEW t \in Requesters, TryId(t) PROVE IInv'
<1>0. /\ req[t].at = "tryId" /\ req[t].at \in Choosing /\ req[t].at \in Resolving
      /\ req[t].found = <<>> /\ DOMAIN cache = Urls /\ req[t].now - filled < TTL
      /\ UNCHANGED <<clock, host, cache, last, indices, filled, prior>>
  BY Known DEF TryId, Choosing, Resolving, Proceeds
<1>1. CASE Goes(t, "byRole")
  BY <1>0, <1>1, GoesKeeps
<1>2. CASE IsAvailable(Head(req[t].left), cache) /\ Chooses(t, Head(req[t].left))
  BY <1>0, <1>2, AbleReached, ChoosesKeeps
<1>3. CASE req' = [req EXCEPT ![t] = [req[t] EXCEPT !.left = Tail(req[t].left)]]
  <2> DEFINE r == [req[t] EXCEPT !.left = Tail(req[t].left)]
  <2>1. /\ DOMAIN r = Fields /\ r.at = "tryId" /\ r.found = req[t].found
        /\ r.now = req[t].now /\ r.kept = req[t].kept
    BY <1>0, Known
  <2>2. req' = [req EXCEPT ![t] = r]
    BY <1>3
  <2> HIDE DEF r
  <2>3. (\A node \in r.kept : Reached(node, r.now)) /\ IsFiniteSet(r.kept)
    BY <2>1, Known DEF Proceeds
  <2> QED
    BY <1>0, <2>1, <2>2, <2>3, GoesOnKeeps
<1> QED
  BY <1>1, <1>2, <1>3 DEF TryId

\* The nodes of a role are only put in line.
LEMMA SelectByRoleKeeps == ASSUME IInv, NEW t \in Requesters, SelectByRole(t) PROVE IInv'
<1>0. /\ req[t].at = "byRole" /\ req[t].at \in Choosing /\ "filter" \in Choosing
      /\ UNCHANGED <<clock, host, cache, last, indices, filled, prior>>
  BY DEF SelectByRole, Choosing
<1>1. CASE req[t].role = NoRole
  <2>1. Chooses(t, LocalNode)
    BY <1>1 DEF SelectByRole
  <2> QED
    BY <1>0, <2>1, LocalReached, ChoosesKeeps
<1>2. CASE req[t].role # NoRole
  <2> DEFINE left == SelectSeq(ActiveNodes(cache),
                         LAMBDA node : /\ node.enabled /\ ~node.is_local
                                       /\ HandlesRole(node, req[t].role))
             r == [req[t] EXCEPT !.at = "filter", !.left = left]
  <2>1. req' = [req EXCEPT ![t] = r]
    BY <1>2 DEF SelectByRole
  <2> HIDE DEF left
  <2>2. /\ DOMAIN r = Fields /\ r.at = "filter" /\ r.found = req[t].found
        /\ r.now = req[t].now /\ r.kept = req[t].kept
    BY Known
  <2> HIDE DEF r
  <2>3. (\A node \in r.kept : Reached(node, r.now)) /\ IsFiniteSet(r.kept)
    BY <2>2, Known DEF Proceeds
  <2> QED
    BY <1>0, <2>1, <2>2, <2>3, GoesOnKeeps
<1> QED
  BY <1>1, <1>2

\* A node is kept when the cache has it as available.
LEMMA FilterKeeps == ASSUME IInv, NEW t \in Requesters, Filter(t) PROVE IInv'
<1> DEFINE able == {n \in {Head(req[t].left)} : IsAvailable(n, cache)}
           r == [req[t] EXCEPT !.left = Tail(req[t].left), !.kept = req[t].kept \cup able]
<1>1. req' = [req EXCEPT ![t] = r] /\ req[t].at = "filter" /\ req[t].at \in Choosing
  BY DEF Filter, Choosing
<1>2. IsFiniteSet(able)
  <2>1. IsFiniteSet({Head(req[t].left)}) /\ able \subseteq {Head(req[t].left)}
    BY FS_Singleton
  <2> QED
    BY <2>1, FS_Subset
<1>3. \A node \in able : Reached(node, req[t].now)
  BY <1>1, AbleReached
<1> HIDE DEF able
<1>4. /\ DOMAIN r = Fields /\ r.at = "filter" /\ r.found = req[t].found
      /\ r.now = req[t].now /\ r.kept = req[t].kept \cup able
  BY <1>1, Known
<1> HIDE DEF r
<1>5. (\A node \in r.kept : Reached(node, r.now)) /\ IsFiniteSet(r.kept)
  <2>1. IsFiniteSet(req[t].kept) /\ \A node \in req[t].kept : Reached(node, req[t].now)
    BY Known DEF Proceeds
  <2>2. IsFiniteSet(req[t].kept \cup able)
    BY <1>2, <2>1, FS_Union
  <2> QED
    BY <1>3, <1>4, <2>1, <2>2
<1> QED
  BY <1>1, <1>4, <1>5, GoesOnKeeps DEF Filter

\* The index is read for the nodes kept; without any the local node is chosen.
LEMMA ReadTurnKeeps == ASSUME IInv, NEW t \in Requesters, ReadTurn(t) PROVE IInv'
<1>0. /\ req[t].at = "filter" /\ req[t].at \in Choosing /\ "turn" \in Choosing
      /\ UNCHANGED <<clock, host, cache, last, indices, filled, prior>>
  BY DEF ReadTurn, Choosing
<1>1. CASE req[t].kept = {}
  <2>1. Chooses(t, LocalNode)
    BY <1>1 DEF ReadTurn
  <2> QED
    BY <1>0, <2>1, LocalReached, ChoosesKeeps
<1>2. CASE req[t].kept # {}
  <2> DEFINE index == IndexOf(req[t].role) % Cardinality(req[t].kept)
             r == [req[t] EXCEPT !.at = "turn", !.index = index]
  <2>1. req' = [req EXCEPT ![t] = r]
    BY <1>2 DEF ReadTurn
  <2> HIDE DEF index
  <2>2. /\ DOMAIN r = Fields /\ r.at = "turn" /\ r.found = req[t].found
        /\ r.now = req[t].now /\ r.kept = req[t].kept
    BY Known
  <2> HIDE DEF r
  <2>3. (\A node \in r.kept : Reached(node, r.now)) /\ IsFiniteSet(r.kept)
    BY <2>2, Known DEF Proceeds
  <2> QED
    BY <1>0, <2>1, <2>2, <2>3, GoesOnKeeps
<1> QED
  BY <1>1, <1>2

\* A turn taken leaves the position after it for the next one.
LEMMA WriteTurnKeeps == ASSUME IInv, NEW t \in Requesters, WriteTurn(t) PROVE IInv'
<1> DEFINE role == req[t].role
           kept == req[t].kept
<1>1. PICK node \in kept :
          /\ Position(node, kept) = req[t].index
          /\ indices' = With(indices, role, req[t].index + 1)
          /\ prior' = With(prior, role, [kept |-> kept, node |-> node])
          /\ Chooses(t, node)
  BY DEF WriteTurn, Takes
<1>2. req[t].at \in Choosing /\ UNCHANGED <<clock, host, cache, last, filled>>
  BY DEF WriteTurn, Takes, Choosing
<1> DEFINE r == [req[t] EXCEPT !.at = "chosen", !.choice = node,
                              !.left = <<>>, !.kept = {}, !.index = 0]
<1>3. req' = [req EXCEPT ![t] = r]
  BY <1>1 DEF Chooses
<1>4. DOMAIN r = Fields /\ Proceeds(r)
  <2>1. Reached(node, req[t].now)
    BY <1>1, Known DEF Proceeds
  <2> QED
    BY <2>1, <1>2, ChoosesProceeds
<1> HIDE DEF r
<1>5. Shaped' /\ \A s \in Requesters : req'[s] = IF s = t THEN r ELSE req[s]
  BY <1>3, <1>4, OneThread DEF IInv
<1>6. Proceeding'
  <2> SUFFICES ASSUME NEW s \in Requesters PROVE Proceeds(req[s])'
    BY DEF Proceeding
  <2>1. Proceeds(req'[s])
    BY <1>4, <1>5, Known
  <2> QED
    BY <2>1, <1>2 DEF Proceeds, Reached, Heard
<1>7. Timed' /\ Dated'
  BY <1>2 DEF IInv, Timed, Dated, Heard
<1>8. Turned'
  <2>1. IsFiniteSet(kept)
    BY Known DEF Proceeds
  <2>2. /\ DOMAIN prior' = DOMAIN prior \cup {role} /\ DOMAIN indices' = DOMAIN indices \cup {role}
        /\ prior'[role].kept = kept /\ prior'[role].node = node
        /\ indices'[role] = req[t].index + 1
        /\ \A other \in DOMAIN prior \ {role} : prior'[other] = prior[other]
        /\ \A other \in DOMAIN indices \ {role} : indices'[other] = indices[other]
    BY <1>1 DEF With
  <2> SUFFICES ASSUME NEW other \in DOMAIN prior'
               PROVE  /\ other \in DOMAIN indices'
                      /\ IsFiniteSet(prior'[other].kept)
                      /\ indices'[other] = Position(prior'[other].node, prior'[other].kept) + 1
    BY DEF Turned, Position
  <2>3. CASE other = role
    BY <1>1, <2>1, <2>2, <2>3
  <2>4. CASE other # role
    <3>1. /\ other \in DOMAIN prior /\ other \in DOMAIN indices
          /\ prior'[other] = prior[other] /\ indices'[other] = indices[other]
      BY <2>2, <2>4 DEF IInv, Turned
    <3> QED
      BY <2>2, <3>1 DEF IInv, Turned
  <2> QED
    BY <2>3, <2>4
<1> QED
  BY <1>5, <1>6, <1>7, <1>8 DEF IInv

\* Every step of a thread keeps the invariant.
LEMMA StepKeeps == ASSUME IInv, NEW t \in Requesters, Step(t) PROVE IInv'
BY CompareKeeps, ProbeKeeps, ProbeRaisesKeeps, StoreCacheKeeps, StoreTimeKeeps, ListKeeps,
   SelectByIdKeeps, TryIdKeeps, SelectByRoleKeeps, FilterKeeps, ReadTurnKeeps, WriteTurnKeeps,
   ReturnKeeps DEF Step

\* Every step keeps the invariant.
LEMMA NextKeeps == ASSUME IInv, [Next]_vars PROVE IInv'
<1>1. CASE Tick
  BY <1>1, TickKeeps
<1>2. CASE \E u \in Changing : HostChanges(u)
  BY <1>2, Bounds, HostChangesKeeps
<1>3. CASE \E t \in Threads : Ask(t)
  BY <1>3, AskKeeps DEF Requesters
<1>4. CASE \E t \in Requesters : Step(t)
  BY <1>4, StepKeeps
<1>5. CASE UNCHANGED vars
  BY <1>5 DEF vars, IInv, Timed, Dated, Shaped, Proceeding, Proceeds, Reached, Heard, Turned, Position
<1> QED
  BY <1>1, <1>2, <1>3, <1>4, <1>5 DEF Next

----------------------------------------------------------------------------
(* The theorems                                                             *)

\* The invariant holds in every state of every run.
THEOREM Invariance == Spec => []IInv
<1>1. Init => IInv
  BY InitHolds
<1>2. IInv /\ [Next]_vars => IInv'
  BY NextKeeps
<1> QED
  BY <1>1, <1>2, PTL DEF Spec

\* Whoever takes the results of a discovery for fresh finds those of every
\* candidate host, stored less than the time to live before it looked, however
\* the refreshes of the threads overlap.
THEOREM ResultsAreFresh == Spec => []FreshResults
<1>1. IInv => FreshResults
  BY DEF IInv, Proceeding, Proceeds, FreshResults
<1> QED
  BY <1>1, Invariance, PTL

\* No turn is sent to a host that has been silent for the time to live and two
\* resolves.
THEOREM GoneHostsAreLeft == Spec => []GoneHostsLeave
<1>1. IInv => GoneHostsLeave
  <2> SUFFICES ASSUME IInv, NEW t \in Requesters, req[t].at = "chosen",
                      ~req[t].choice.is_local, req[t].choice.url \in Urls,
                      ~host[req[t].choice.url].up
               PROVE  clock - host[req[t].choice.url].since < TTL + 2 * MaxResolve
    BY DEF GoneHostsLeave
  <2> DEFINE since == host[req[t].choice.url].since
             now == req[t].now
  <2>1. since \in Nat /\ since >= now - TTL - MaxResolve + 1
    BY Known DEF Proceeds, Reached, Heard, IInv, Timed
  <2>2. now \in Nat /\ clock \in Nat /\ clock <= now + MaxResolve
    BY Known DEF Proceeds, Resolving
  <2> HIDE DEF since, now
  <2>3. clock - since < TTL + 2 * MaxResolve
    BY <2>1, <2>2, Bounds
  <2> QED
    BY <2>3 DEF since
<1> QED
  BY <1>1, Invariance, PTL

\* The next position is another one.
LEMMA NextTurn ==
    ASSUME NEW p \in Nat, NEW n \in Nat, n > 1
    PROVE  (p + 1) % n # p
<1>1. CASE p + 1 < n
  BY <1>1
<1>2. CASE p + 1 = n
  BY <1>2
<1>3. CASE p + 1 > n
  <2>1. (p + 1) % n < n
    OBVIOUS
  <2> QED
    BY <1>3, <2>1
<1> QED
  BY <1>1, <1>2, <1>3

\* A position and a count are numbers.
LEMMA PositionType ==
    ASSUME NEW kept, IsFiniteSet(kept), NEW node
    PROVE  Position(node, kept) \in Nat /\ Cardinality(kept) \in Nat
<1>1. IsFiniteSet({n \in kept : Earlier(n, node)})
  BY FS_Subset
<1> QED
  BY <1>1, FS_CardinalityType DEF Position

\* A step of one thread leaves the records of the others alone.
LEMMA OthersStay ==
    ASSUME Shaped, NEW s \in Requesters, NEW t \in Requesters \ {s}, Ask(s) \/ Step(s)
    PROVE  req'[t] = req[t]
<1>1. t \in DOMAIN req
  BY DEF Shaped
<1>2. CASE Ask(s) \/ Compare(s) \/ StoreCache(s) \/ StoreTime(s) \/ List(s)
  BY <1>1, <1>2 DEF Ask, Compare, StoreCache, StoreTime, List, Goes, Ends
<1>3. CASE \E u \in Urls : Probe(s, u) \/ ProbeRaises(s, u)
  BY <1>1, <1>3 DEF Probe, ProbeRaises, Goes, Ends
<1>4. CASE SelectById(s)
  BY <1>1, <1>4 DEF SelectById
<1>5. CASE TryId(s)
  BY <1>1, <1>5 DEF TryId, Goes, Chooses
<1>6. CASE SelectByRole(s)
  BY <1>1, <1>6 DEF SelectByRole, Chooses
<1>7. CASE Filter(s) \/ ReadTurn(s)
  BY <1>1, <1>7 DEF Filter, ReadTurn, Chooses
<1>8. CASE WriteTurn(s) \/ Return(s)
  BY <1>1, <1>8 DEF WriteTurn, Takes, Return, Chooses, Ends
<1> QED
  BY <1>2, <1>3, <1>4, <1>5, <1>6, <1>7, <1>8 DEF Step

\* An index is only computed by a thread that reads it.
LEMMA OnlyReaders ==
    ASSUME IInv, NEW t \in Requesters, [Next]_vars,
           req[t].at = "filter", req'[t].at = "turn"
    PROVE  ReadTurn(t) /\ req[t].kept # {}
<1>1. PICK s \in Requesters : Ask(s) \/ Step(s)
  BY DEF Next, vars, Tick, HostChanges, Requesters
<1>2. s = t
  BY <1>1, OthersStay DEF IInv
<1>3. ~Filter(t)
  <2> SUFFICES ASSUME Filter(t) PROVE FALSE
    OBVIOUS
  <2> DEFINE able == {n \in {Head(req[t].left)} : IsAvailable(n, cache)}
  <2>1. req' = [req EXCEPT ![t] = [req[t] EXCEPT !.left = Tail(req[t].left),
                                                 !.kept = req[t].kept \cup able]]
    BY DEF Filter
  <2> HIDE DEF able
  <2>2. req'[t].at = req[t].at
    BY <2>1, Known DEF IInv, Shaped
  <2> QED
    BY <2>2
<1>4. ReadTurn(t)
  BY <1>1, <1>2, <1>3 DEF Step, Ask, Compare, Probe, ProbeRaises, StoreCache, StoreTime, List,
                          SelectById, TryId, SelectByRole, WriteTurn, Takes, Return
<1>5. req[t].kept # {}
  <2> SUFFICES ASSUME req[t].kept = {} PROVE FALSE
    OBVIOUS
  <2>1. Chooses(t, LocalNode)
    BY <1>4 DEF ReadTurn
  <2>2. req'[t].at = "chosen"
    BY <2>1, Known DEF Chooses, IInv, Shaped
  <2> QED
    BY <2>2
<1> QED
  BY <1>4, <1>5

\* Whoever reads the index after another thread has written it and has the same
\* candidates, two or more, chooses another node than that thread did.
THEOREM TurnsAreTaken == Spec => TakesTurns
<1>1. ASSUME IInv, [Next]_vars, NEW t \in Threads, req[t].at = "filter", req'[t].at = "turn",
             req[t].role \in DOMAIN prior, prior[req[t].role].kept = req'[t].kept,
             Cardinality(req'[t].kept) > 1
      PROVE  Position(prior[req[t].role].node, req'[t].kept) # req'[t].index
  <2> DEFINE role == req[t].role
             p == Position(prior[role].node, prior[role].kept)
             n == Cardinality(req[t].kept)
  <2>1. t \in Requesters
    BY DEF Requesters
  <2>2. ReadTurn(t) /\ req[t].kept # {}
    BY <1>1, <2>1, OnlyReaders
  <2>3. req' = [req EXCEPT ![t] = [req[t] EXCEPT !.at = "turn", !.index = IndexOf(role) % n]]
    BY <2>2 DEF ReadTurn
  <2>4. req'[t].index = IndexOf(role) % n /\ req'[t].kept = req[t].kept
    <3> HIDE DEF n, role
    <3> QED
      BY <1>1, <2>1, <2>3, Known DEF IInv, Shaped
  <2>5. IndexOf(role) = p + 1 /\ IsFiniteSet(prior[role].kept)
    BY <1>1 DEF IInv, Turned, IndexOf
  <2>6. p \in Nat /\ n \in Nat /\ n > 1
    BY <1>1, <2>4, <2>5, PositionType
  <2>7. (p + 1) % n # p
    <3> HIDE DEF p, n
    <3> QED
      BY <2>6, NextTurn
  <2> QED
    BY <1>1, <2>4, <2>5, <2>7
<1>2. IInv /\ [Next]_vars =>
          [\A t \in Threads :
              LET role == req[t].role
                  kept == req'[t].kept
              IN  (/\ req[t].at = "filter" /\ req'[t].at = "turn"
                   /\ role \in DOMAIN prior /\ prior[role].kept = kept
                   /\ Cardinality(kept) > 1)
                      => Position(prior[role].node, kept) # req'[t].index]_vars
  BY <1>1
<1> QED
  BY <1>2, Invariance, PTL DEF Spec, TakesTurns

----------------------------------------------------------------------------
(* Sorting                                                                  *)

\* R puts the elements of S in a row.
StrictOrder(S, R) ==
    /\ \A m \in S : <<m, m>> \notin R
    /\ \A m, n, o \in S : <<m, n>> \in R /\ <<n, o>> \in R => <<m, o>> \in R
    /\ \A m, n \in S : m = n \/ <<m, n>> \in R \/ <<n, m>> \in R

Ahead(S, R, m) == {n \in S : <<n, m>> \in R}

\* Fewer are ahead of what is ahead.
LEMMA AheadGrows ==
    ASSUME NEW S, IsFiniteSet(S), NEW R, StrictOrder(S, R), NEW m \in S, NEW n \in S, <<m, n>> \in R
    PROVE  Cardinality(Ahead(S, R, m)) < Cardinality(Ahead(S, R, n))
<1>1. IsFiniteSet(Ahead(S, R, n)) /\ Cardinality(Ahead(S, R, n)) \in Nat
  BY FS_Subset, FS_CardinalityType DEF Ahead
<1>2. Ahead(S, R, m) \subseteq Ahead(S, R, n) /\ m \in Ahead(S, R, n) /\ m \notin Ahead(S, R, m)
  BY DEF StrictOrder, Ahead
<1>3. IsFiniteSet(Ahead(S, R, m)) /\ Cardinality(Ahead(S, R, m)) \in Nat
  BY <1>1, <1>2, FS_Subset, FS_CardinalityType
<1>4. /\ Cardinality(Ahead(S, R, m)) <= Cardinality(Ahead(S, R, n))
      /\ Cardinality(Ahead(S, R, m)) # Cardinality(Ahead(S, R, n))
  BY <1>1, <1>2, FS_Subset
<1> QED
  BY <1>1, <1>3, <1>4

\* Fewer are ahead of an element than there are.
LEMMA AheadType ==
    ASSUME NEW S, IsFiniteSet(S), NEW R, StrictOrder(S, R), NEW m \in S
    PROVE  /\ Cardinality(S) \in Nat
           /\ Cardinality(Ahead(S, R, m)) \in 0 .. Cardinality(S) - 1
<1>1. Ahead(S, R, m) \subseteq S /\ m \notin Ahead(S, R, m)
  BY DEF StrictOrder, Ahead
<1>2. Cardinality(S) \in Nat /\ Cardinality(Ahead(S, R, m)) \in Nat
  BY <1>1, FS_Subset, FS_CardinalityType
<1>3. Cardinality(Ahead(S, R, m)) <= Cardinality(S) /\ Cardinality(Ahead(S, R, m)) # Cardinality(S)
  BY <1>1, FS_Subset
<1> QED
  BY <1>2, <1>3

\* Each element has one place: it is behind as many as are ahead of it.
LEMMA OrderedSorts ==
    ASSUME NEW S, IsFiniteSet(S), NEW R, StrictOrder(S, R)
    PROVE  /\ Cardinality(S) \in Nat
           /\ Ordered(S, R) \in [1 .. Cardinality(S) -> S]
           /\ \A k \in 1 .. Cardinality(S) : Cardinality(Ahead(S, R, Ordered(S, R)[k])) = k - 1
           /\ \A m \in S : \E k \in 1 .. Cardinality(S) : Ordered(S, R)[k] = m
<1> DEFINE N == Cardinality(S)
           place == [m \in S |-> Cardinality(Ahead(S, R, m)) + 1]
<1>1. N \in Nat
  BY FS_CardinalityType
<1>2. \A m \in S : place[m] \in 1 .. N /\ Cardinality(Ahead(S, R, m)) = place[m] - 1
  BY AheadType, <1>1
<1>3. ASSUME NEW m \in S, NEW n \in S, place[m] = place[n] PROVE m = n
  <2>1. CASE <<m, n>> \in R
    <3>1. Cardinality(Ahead(S, R, m)) < Cardinality(Ahead(S, R, n))
      BY <2>1, AheadGrows
    <3> QED
      BY <1>3, <3>1, <1>2
  <2>2. CASE <<n, m>> \in R
    <3>1. Cardinality(Ahead(S, R, n)) < Cardinality(Ahead(S, R, m))
      BY <2>2, AheadGrows
    <3> QED
      BY <1>3, <3>1, <1>2
  <2> QED
    BY <2>1, <2>2 DEF StrictOrder
<1>4. place \in Injection(S, 1 .. N)
  <2>1. place \in [S -> 1 .. N]
    BY <1>2
  <2> HIDE DEF place
  <2> QED
    BY <2>1, <1>3 DEF Injection, IsInjective
<1>5. place \in Surjection(S, 1 .. N)
  <2>1. IsFiniteSet(1 .. N) /\ Cardinality(1 .. N) = N
    <3>1. Cardinality(1 .. N) = IF 1 > N THEN 0 ELSE N - 1 + 1
      BY <1>1, FS_Interval
    <3>2. IsFiniteSet(1 .. N)
      BY <1>1, FS_Interval
    <3> HIDE DEF N
    <3> QED
      BY <1>1, <3>1, <3>2
  <2> HIDE DEF place
  <2> QED
    BY <1>4, <2>1, FS_Injection
<1>6. \A k \in 1 .. N : \E m \in S : place[m] = k
  <2> HIDE DEF place
  <2> QED
    BY <1>5 DEF Surjection
<1>7. \A k \in 1 .. N : \E m \in S : Cardinality(Ahead(S, R, m)) = k - 1
  <2> HIDE DEF place, N
  <2> QED
    BY <1>2, <1>6
<1>8. DOMAIN Ordered(S, R) = 1 .. N
  BY DEF Ordered
<1>9. \A k \in 1 .. N : Ordered(S, R)[k] \in S /\ Cardinality(Ahead(S, R, Ordered(S, R)[k])) = k - 1
  <2> SUFFICES ASSUME NEW k \in 1 .. N
               PROVE  Ordered(S, R)[k] \in S /\ Cardinality(Ahead(S, R, Ordered(S, R)[k])) = k - 1
    OBVIOUS
  <2>1. Ordered(S, R)[k] = CHOOSE m \in S : Cardinality(Ahead(S, R, m)) = k - 1
    BY DEF Ordered, Ahead
  <2> QED
    BY <2>1, <1>7
<1>10. Ordered(S, R) \in [1 .. N -> S]
  BY <1>8, <1>9 DEF Ordered
<1>11. ASSUME NEW m \in S PROVE \E k \in 1 .. N : Ordered(S, R)[k] = m
  <2>1. PICK k \in 1 .. N : k = place[m]
    BY <1>2
  <2>2. PICK n \in S : n = Ordered(S, R)[k]
    BY <1>9
  <2>3. place[n] = k
    <3>1. Cardinality(Ahead(S, R, n)) = k - 1
      BY <1>9, <2>2
    <3> HIDE DEF N
    <3> QED
      BY <3>1
  <2> QED
    BY <1>3, <2>1, <2>2, <2>3
<1> QED
  BY <1>1, <1>9, <1>10, <1>11

\* A row that is not empty has a first element.
LEMMA FirstOf ==
    ASSUME NEW S, IsFiniteSet(S), S # {}, NEW R, StrictOrder(S, R)
    PROVE  \E m \in S : \A n \in S \ {m} : <<m, n>> \in R
<1>1. Cardinality(S) \in Nat /\ Cardinality(S) # 0
  BY FS_CardinalityType, FS_EmptySet
<1>2. PICK m \in S : Cardinality(Ahead(S, R, m)) = 0
  BY <1>1, OrderedSorts
<1>3. Ahead(S, R, m) = {}
  <2>1. IsFiniteSet(Ahead(S, R, m))
    BY FS_Subset DEF Ahead
  <2> QED
    BY <1>2, <2>1, FS_EmptySet
<1> QED
  BY <1>3 DEF Ahead, StrictOrder

----------------------------------------------------------------------------
(* Promotion                                                                *)

\* What a host may offer: a finite set of models of the catalogue.
Offer(models) == models \subseteq DOMAIN Catalogue /\ IsFiniteSet(models)

\* A score is a number, and an embedding model has none.
LEMMA ScoreType ==
    ASSUME NEW m \in DOMAIN Catalogue, NEW role
    PROVE  /\ Score(m, role) \in Int
           /\ "embedding" \in Catalogue[m].words => Score(m, role) = -1
<1> DEFINE size == Catalogue[m].size
<1>1. size \in Nat
  BY RegistryAssumption DEF RegistryAssumption
<1>2. Smaller(size, 40) \in Int
  BY <1>1 DEF Smaller
<1> QED
  BY <1>2 DEF Score, AtLeast

\* A role has one best model at most.
LEMMA BestIsOne ==
    ASSUME NEW models, Offer(models), NEW role, NEW m \in BestFor(models, role),
           NEW n \in BestFor(models, role)
    PROVE  m = n
<1>1. m \in Nat /\ n \in Nat /\ m \in models /\ n \in models
  BY RegistryAssumption DEF RegistryAssumption, Offer, BestFor
<1>2. Score(m, role) \in Int /\ Score(n, role) \in Int
  BY <1>1, ScoreType DEF Offer
<1>3. /\ Score(n, role) < Score(m, role) \/ (Score(n, role) = Score(m, role) /\ m <= n)
      /\ Score(m, role) < Score(n, role) \/ (Score(m, role) = Score(n, role) /\ n <= m)
  BY <1>1 DEF BestFor
<1> QED
  BY <1>1, <1>2, <1>3

\* A role that some model will do for has a best one.
LEMMA BestExists ==
    ASSUME NEW models, Offer(models), NEW role, NEW fit \in models, Score(fit, role) >= 0
    PROVE  \E m \in models : m \in BestFor(models, role)
<1> DEFINE R == {p \in models \X models :
                    Score(p[2], role) < Score(p[1], role)
                    \/ (Score(p[2], role) = Score(p[1], role) /\ p[1] < p[2])}
<1>1. \A m \in models : m \in Nat /\ Score(m, role) \in Int
  BY RegistryAssumption, ScoreType DEF RegistryAssumption, Offer
<1>2. \A m, n \in models : <<m, n>> \in R <=>
          Score(n, role) < Score(m, role) \/ (Score(n, role) = Score(m, role) /\ m < n)
  OBVIOUS
<1> HIDE DEF R
<1>3. StrictOrder(models, R)
  BY <1>1, <1>2 DEF StrictOrder
<1>4. PICK m \in models : \A n \in models \ {m} : <<m, n>> \in R
  BY <1>3, FirstOf DEF Offer
<1>5. \A n \in models : Score(n, role) < Score(m, role) \/ (Score(n, role) = Score(m, role) /\ m <= n)
  <2> SUFFICES ASSUME NEW n \in models
               PROVE  Score(n, role) < Score(m, role) \/ (Score(n, role) = Score(m, role) /\ m <= n)
    OBVIOUS
  <2>1. CASE n = m
    BY <1>1, <2>1
  <2>2. CASE n # m
    <3>1. <<m, n>> \in R
      BY <1>4, <2>2
    <3>2. Score(n, role) < Score(m, role) \/ (Score(n, role) = Score(m, role) /\ m < n)
      BY <1>2, <3>1
    <3> QED
      BY <1>1, <3>2
  <2> QED
    BY <2>1, <2>2
<1>6. Score(m, role) >= 0
  BY <1>1, <1>5
<1> QED
  BY <1>5, <1>6 DEF BestFor

\* The rank of a model that is promoted is its best score.
LEMMA RankType ==
    ASSUME NEW models, Offer(models), NEW m \in Chosen(models)
    PROVE  Rank(models, m) \in Int
<1> DEFINE served == Serves(models, m)
           score == [r \in served |-> Score(m, r)]
           scores == {Score(m, r) : r \in served}
           R == {p \in scores \X scores : p[1] > p[2]}
<1>1. served # {} /\ IsFiniteSet(served) /\ m \in DOMAIN Catalogue
  BY RegistryAssumption, FS_Subset DEF RegistryAssumption, Chosen, Serves, Offer
<1>2. scores \subseteq Int /\ scores # {}
  BY <1>1, ScoreType
<1>3. IsFiniteSet(scores)
  <2>1. score \in Surjection(served, scores)
    BY DEF Surjection
  <2> HIDE DEF score, scores, served
  <2> QED
    BY <1>1, <2>1, FS_Surjection
<1>4. \A a, b \in scores : <<a, b>> \in R <=> a > b
  OBVIOUS
<1>5. \E s \in scores : \A t \in scores : t <= s
  <2> HIDE DEF R, scores
  <2>1. StrictOrder(scores, R)
    BY <1>2, <1>4 DEF StrictOrder
  <2>2. PICK s \in scores : \A t \in scores \ {s} : <<s, t>> \in R
    BY <1>2, <1>3, <2>1, FirstOf
  <2>3. ASSUME NEW t \in scores PROVE t <= s
    <3>1. CASE t = s
      BY <1>2, <3>1
    <3>2. CASE t # s
      <4>1. s > t
        BY <1>4, <2>2, <3>2
      <4> QED
        BY <1>2, <4>1
    <3> QED
      BY <3>1, <3>2
  <2> QED
    BY <2>3
<1>6. \E s \in scores : \A r \in served : Score(m, r) <= s
  BY <1>5
<1>7. Rank(models, m) \in scores
  BY <1>6 DEF Rank
<1> QED
  BY <1>2, <1>7

\* The models promoted are put in a row.
LEMMA RankingOrders ==
    ASSUME NEW models, Offer(models)
    PROVE  IsFiniteSet(Chosen(models)) /\ StrictOrder(Chosen(models), Ranking(models))
<1>1. IsFiniteSet(Chosen(models))
  BY FS_Subset DEF Chosen, Offer
<1>2. \A m \in Chosen(models) : m \in Nat /\ Rank(models, m) \in Int
  BY RankType, RegistryAssumption DEF RegistryAssumption, Chosen, Offer
<1>3. \A m, n \in Chosen(models) : <<m, n>> \in Ranking(models) <=>
          Rank(models, m) > Rank(models, n) \/ (Rank(models, m) = Rank(models, n) /\ m < n)
  BY DEF Ranking
<1>4. StrictOrder(Chosen(models), Ranking(models))
  BY <1>2, <1>3 DEF StrictOrder
<1> QED
  BY <1>1, <1>4

\* A host is given one node for each model that is the best for some role.
LEMMA PromotionsAre ==
    ASSUME NEW u, NEW models, Offer(models)
    PROVE  \E n \in Nat :
              /\ DOMAIN Promotions(u, models) = 1 .. n
              /\ \A k \in 1 .. n :
                     LET node == Promotions(u, models)[k]
                     IN  /\ node.url = u /\ node.model \in Chosen(models)
                         /\ node.roles = Serves(models, node.model)
              /\ \A k, l \in 1 .. n :
                     Promotions(u, models)[k].model = Promotions(u, models)[l].model => k = l
              /\ \A m \in Chosen(models) : \E k \in 1 .. n : Promotions(u, models)[k].model = m
<1> DEFINE S == Chosen(models)
           ranked == Ordered(S, Ranking(models))
           n == Cardinality(S)
<1>1. IsFiniteSet(S) /\ StrictOrder(S, Ranking(models))
  BY RankingOrders
<1>2. /\ n \in Nat /\ ranked \in [1 .. n -> S]
      /\ \A k \in 1 .. n : Cardinality(Ahead(S, Ranking(models), ranked[k])) = k - 1
      /\ \A m \in S : \E k \in 1 .. n : ranked[k] = m
  <2> HIDE DEF S
  <2> QED
    BY <1>1, OrderedSorts
<1>3. \A k, l \in 1 .. n : ranked[k] = ranked[l] => k = l
  <2> HIDE DEF S, ranked, n
  <2> SUFFICES ASSUME NEW k \in 1 .. n, NEW l \in 1 .. n, ranked[k] = ranked[l] PROVE k = l
    OBVIOUS
  <2>1. k - 1 = l - 1
    BY <1>2
  <2> QED
    BY <2>1, <1>2
<1>4. DOMAIN Promotions(u, models) = 1 .. n
  <2>1. DOMAIN ranked = 1 .. n
    <3> HIDE DEF ranked, n, S
    <3> QED
      BY <1>2
  <2> QED
    BY <2>1 DEF Promotions
<1>5. \A k \in 1 .. n : /\ Promotions(u, models)[k].url = u
                        /\ Promotions(u, models)[k].model = ranked[k]
                        /\ Promotions(u, models)[k].roles = Serves(models, ranked[k])
  BY <1>4 DEF Promotions
<1> HIDE DEF ranked, n
<1>6. \A k \in 1 .. n :
          LET node == Promotions(u, models)[k]
          IN  /\ node.url = u /\ node.model \in Chosen(models)
              /\ node.roles = Serves(models, node.model)
  BY <1>2, <1>5
<1>7. \A k, l \in 1 .. n :
          Promotions(u, models)[k].model = Promotions(u, models)[l].model => k = l
  BY <1>3, <1>5
<1>8. \A m \in Chosen(models) : \E k \in 1 .. n : Promotions(u, models)[k].model = m
  BY <1>2, <1>5
<1> QED
  BY <1>2, <1>4, <1>6, <1>7, <1>8

\* Results that hosts may give.
Offered(found) ==
    /\ DOMAIN found \subseteq Urls
    /\ \A u \in DOMAIN found : found[u].models = {} \/ found[u].models \in HostModels[u]

\* An eligible host has models, and nodes of its own.
LEMMA EligibleOffers ==
    ASSUME NEW found, Offered(found), NEW u \in Eligible(found)
    PROVE  /\ u \in Urls /\ u \in Nat /\ u \in DOMAIN found /\ Offer(found[u].models)
           /\ PromotedBy(found, u) = Promotions(u, found[u].models)
<1>1. u \in DOMAIN found /\ found[u].models # {}
  BY DEF Eligible
<1>2. u \in Urls /\ found[u].models \in HostModels[u]
  BY <1>1 DEF Offered
<1> QED
  BY <1>1, <1>2, RegistryAssumption DEF RegistryAssumption, Offer, PromotedBy, PromotionsOf

\* The nodes of the eligible hosts, host after host, are in a row.
LEMMA PlacesOrder ==
    ASSUME NEW found, Offered(found)
    PROVE  IsFiniteSet(Places(found)) /\ StrictOrder(Places(found), InTurn(Places(found)))
<1> DEFINE of == [u \in Eligible(found) |-> {u} \X DOMAIN PromotedBy(found, u)]
           all == {{u} \X DOMAIN PromotedBy(found, u) : u \in Eligible(found)}
<1>1. \A u \in Eligible(found) : \E n \in Nat : DOMAIN PromotedBy(found, u) = 1 .. n
  <2> TAKE u \in Eligible(found)
  <2>1. Offer(found[u].models) /\ PromotedBy(found, u) = Promotions(u, found[u].models)
    BY EligibleOffers
  <2> QED
    BY <2>1, PromotionsAre
<1>2. \A u \in Eligible(found) : IsFiniteSet({u} \X DOMAIN PromotedBy(found, u))
  <2> TAKE u \in Eligible(found)
  <2>1. PICK n \in Nat : DOMAIN PromotedBy(found, u) = 1 .. n
    BY <1>1
  <2>2. IsFiniteSet(1 .. n)
    BY FS_Interval
  <2>3. IsFiniteSet({u})
    BY FS_Singleton
  <2> QED
    BY <2>1, <2>2, <2>3, FS_Product
<1>3. IsFiniteSet(Eligible(found))
  <2>1. IsFiniteSet(Urls) /\ Eligible(found) \subseteq Urls
    BY RegistryAssumption DEF RegistryAssumption, Eligible, Offered
  <2> QED
    BY <2>1, FS_Subset
<1>4. of \in Surjection(Eligible(found), all)
  BY DEF Surjection
<1>5. IsFiniteSet(all)
  <2> HIDE DEF of, all
  <2> QED
    BY <1>3, <1>4, FS_Surjection
<1>6. IsFiniteSet(UNION all)
  <2>1. \A T \in all : IsFiniteSet(T)
    BY <1>2
  <2> HIDE DEF all
  <2> QED
    BY <1>5, <2>1, FS_UNION
<1>7. \A p \in Places(found) : p[1] \in Nat /\ p[2] \in Nat /\ p = <<p[1], p[2]>>
  BY <1>1, EligibleOffers DEF Places
<1>8. \A p, q \in Places(found) : <<p, q>> \in InTurn(Places(found)) <=>
          p[1] < q[1] \/ (p[1] = q[1] /\ p[2] < q[2])
  BY DEF InTurn
<1>9. StrictOrder(Places(found), InTurn(Places(found)))
  <2> DEFINE S == Places(found)
             R == InTurn(S)
  <2> HIDE DEF S, R
  <2>1. \A p \in S : <<p, p>> \notin R
    BY <1>7, <1>8 DEF S, R
  <2>2. ASSUME NEW p \in S, NEW q \in S, NEW r \in S, <<p, q>> \in R, <<q, r>> \in R
        PROVE  <<p, r>> \in R
    BY <1>7, <1>8, <2>2 DEF S, R
  <2>3. ASSUME NEW p \in S, NEW q \in S
        PROVE  p = q \/ <<p, q>> \in R \/ <<q, p>> \in R
    BY <1>7, <1>8 DEF S, R
  <2> QED
    BY <2>1, <2>2, <2>3 DEF StrictOrder, S, R
<1> QED
  BY <1>6, <1>9 DEF Places

\* What a node of the row is.
IsNodeOf(node, found) ==
    /\ node.url \in Eligible(found)
    /\ node.model \in Chosen(found[node.url].models)
    /\ node.roles = Serves(found[node.url].models, node.model)

\* What is promoted is one node for each model of an eligible host that is the
\* best for some role, as far as max_nodes allows.
LEMMA PromotedAre ==
    ASSUME NEW found, Offered(found)
    PROVE  \E n \in Nat :
              /\ n <= MaxNodes /\ DOMAIN AutoPromoted(found) = 1 .. n
              /\ Len(AutoPromoted(found)) = n
              /\ \A i \in 1 .. n : IsNodeOf(AutoPromoted(found)[i], found)
              /\ \A i, j \in 1 .. n :
                     /\ AutoPromoted(found)[i].url = AutoPromoted(found)[j].url
                     /\ AutoPromoted(found)[i].model = AutoPromoted(found)[j].model
                     => i = j
              /\ n < MaxNodes =>
                     \A u \in Eligible(found) : \A m \in Chosen(found[u].models) :
                         \E i \in 1 .. n : /\ AutoPromoted(found)[i].url = u
                                           /\ AutoPromoted(found)[i].model = m
<1> DEFINE S == Places(found)
           all == Ordered(S, InTurn(S))
           c == Cardinality(S)
           n == Smaller(c, MaxNodes)
           node(p) == PromotedBy(found, p[1])[p[2]]
           nodes == AutoPromoted(found)
<1>1. IsFiniteSet(S) /\ StrictOrder(S, InTurn(S))
  BY PlacesOrder
<1>2. /\ c \in Nat /\ all \in [1 .. c -> S]
      /\ \A k \in 1 .. c : Cardinality(Ahead(S, InTurn(S), all[k])) = k - 1
      /\ \A p \in S : \E k \in 1 .. c : all[k] = p
  <2> HIDE DEF S
  <2> QED
    BY <1>1, OrderedSorts
<1>3. \A k, l \in 1 .. c : all[k] = all[l] => k = l
  <2> HIDE DEF S, all, c
  <2> SUFFICES ASSUME NEW k \in 1 .. c, NEW l \in 1 .. c, all[k] = all[l] PROVE k = l
    OBVIOUS
  <2>1. k - 1 = l - 1
    BY <1>2
  <2> QED
    BY <2>1, <1>2
<1>4. n \in Nat /\ n <= MaxNodes /\ n <= c /\ (n < MaxNodes => n = c)
  <2> HIDE DEF c
  <2> QED
    BY <1>2, RegistryAssumption DEF RegistryAssumption, Smaller
<1>5. nodes = [i \in 1 .. n |-> node(all[i])]
  BY DEF AutoPromoted
<1>6. DOMAIN nodes = 1 .. n /\ Len(nodes) = n
  <2> HIDE DEF n, node, all
  <2> QED
    BY <1>4, <1>5
<1>7. ASSUME NEW p \in S
      PROVE  /\ IsNodeOf(node(p), found) /\ node(p).url = p[1]
             /\ p[1] \in Eligible(found) /\ p[2] \in DOMAIN PromotedBy(found, p[1])
             /\ p = <<p[1], p[2]>>
  <2>1. PICK u \in Eligible(found) : p \in {u} \X DOMAIN PromotedBy(found, u)
    BY DEF Places
  <2>2. p = <<u, p[2]>> /\ p[1] = u /\ p[2] \in DOMAIN PromotedBy(found, u)
    BY <2>1
  <2>3. Offer(found[u].models) /\ PromotedBy(found, u) = Promotions(u, found[u].models)
    BY EligibleOffers
  <2>4. /\ node(p).url = u /\ node(p).model \in Chosen(found[u].models)
        /\ node(p).roles = Serves(found[u].models, node(p).model)
    BY <2>2, <2>3, PromotionsAre
  <2> HIDE DEF node
  <2> QED
    BY <2>1, <2>2, <2>4 DEF IsNodeOf
<1>8. ASSUME NEW p \in S, NEW q \in S, node(p).url = node(q).url, node(p).model = node(q).model
      PROVE  p = q
  <2>1. PICK u \in Eligible(found) : u = p[1]
    BY <1>7
  <2>2. q[1] = u /\ p = <<u, p[2]>> /\ q = <<u, q[2]>>
    BY <1>7, <1>8, <2>1
  <2>3. p[2] \in DOMAIN PromotedBy(found, u) /\ q[2] \in DOMAIN PromotedBy(found, u)
    BY <1>7, <2>1, <2>2
  <2>4. Offer(found[u].models) /\ PromotedBy(found, u) = Promotions(u, found[u].models)
    BY EligibleOffers
  <2>5. Promotions(u, found[u].models)[p[2]].model = Promotions(u, found[u].models)[q[2]].model
    BY <1>8, <2>1, <2>2, <2>4
  <2>6. p[2] = q[2]
    BY <2>3, <2>4, <2>5, PromotionsAre
  <2> QED
    BY <2>2, <2>6
<1>9. ASSUME NEW u \in Eligible(found), NEW m \in Chosen(found[u].models)
      PROVE  \E p \in S : node(p).url = u /\ node(p).model = m
  <2>1. Offer(found[u].models) /\ PromotedBy(found, u) = Promotions(u, found[u].models)
    BY EligibleOffers
  <2>2. PICK k \in DOMAIN PromotedBy(found, u) : PromotedBy(found, u)[k].model = m
    BY <2>1, PromotionsAre
  <2>3. <<u, k>> \in {u} \X DOMAIN PromotedBy(found, u)
    OBVIOUS
  <2>4. PICK p \in S : p = <<u, k>>
    BY <2>3 DEF Places
  <2>5. node(p).model = m /\ p[1] = u
    BY <2>2, <2>4
  <2> HIDE DEF node, S
  <2> QED
    BY <1>7, <2>5
<1> HIDE DEF S, all, c, n, node, nodes
<1>10. \A i \in 1 .. n : i \in 1 .. c /\ nodes[i] = node(all[i]) /\ all[i] \in S
  BY <1>2, <1>4, <1>5
<1>11. \A i \in 1 .. n : IsNodeOf(nodes[i], found)
  BY <1>7, <1>10
<1>12. ASSUME NEW i \in 1 .. n, NEW j \in 1 .. n,
              nodes[i].url = nodes[j].url, nodes[i].model = nodes[j].model
       PROVE  i = j
  <2>1. all[i] = all[j]
    BY <1>8, <1>10, <1>12
  <2> QED
    BY <1>3, <1>10, <2>1
<1>13. ASSUME n < MaxNodes, NEW u \in Eligible(found), NEW m \in Chosen(found[u].models)
       PROVE  \E i \in 1 .. n : nodes[i].url = u /\ nodes[i].model = m
  <2>1. PICK p \in S : node(p).url = u /\ node(p).model = m
    BY <1>9
  <2>2. PICK k \in 1 .. c : all[k] = p
    BY <1>2
  <2>3. k \in 1 .. n
    BY <1>4, <1>13
  <2> QED
    BY <1>10, <2>1, <2>2, <2>3
<1> QED
  BY <1>4, <1>6, <1>11, <1>12, <1>13 DEF nodes

\* What is promoted is promoted well.
LEMMA PromotedWell ==
    ASSUME NEW found, Offered(found)
    PROVE  WellPromoted(AutoPromoted(found), found)
<1> DEFINE nodes == AutoPromoted(found)
<1>1. PICK n \in Nat :
          /\ n <= MaxNodes /\ DOMAIN nodes = 1 .. n /\ Len(nodes) = n
          /\ \A i \in 1 .. n : IsNodeOf(nodes[i], found)
          /\ \A i, j \in 1 .. n :
                 nodes[i].url = nodes[j].url /\ nodes[i].model = nodes[j].model => i = j
  BY PromotedAre
<1> HIDE DEF nodes
<1>2. ASSUME NEW i \in DOMAIN nodes
      PROVE  LET u == nodes[i].url
                 m == nodes[i].model
             IN  /\ \A c \in DOMAIN Configured : Configured[c].url # u
                 /\ found[u].reachable /\ m \in found[u].models
                 /\ "embedding" \notin Catalogue[m].words
                 /\ \A r \in nodes[i].roles, other \in found[u].models :
                        Score(other, r) <= Score(m, r)
  <2>1. PICK u \in Eligible(found) : u = nodes[i].url
    BY <1>1 DEF IsNodeOf
  <2>2. PICK m \in Chosen(found[u].models) : m = nodes[i].model
    BY <1>1, <2>1 DEF IsNodeOf
  <2>3. nodes[i].roles = Serves(found[u].models, m)
    BY <1>1, <2>1, <2>2 DEF IsNodeOf
  <2>4. Offer(found[u].models)
    BY EligibleOffers
  <2>5. m \in found[u].models /\ m \in DOMAIN Catalogue /\ Serves(found[u].models, m) # {}
    BY <2>4 DEF Chosen, Offer
  <2>6. ASSUME NEW r \in Serves(found[u].models, m)
        PROVE  /\ Score(m, r) >= 0
               /\ \A other \in found[u].models : Score(other, r) <= Score(m, r)
    <3>1. m \in BestFor(found[u].models, r)
      BY <2>6 DEF Serves
    <3>2. \A other \in found[u].models : Score(other, r) \in Int
      BY <2>4, ScoreType DEF Offer
    <3> QED
      BY <3>1, <3>2, <2>5 DEF BestFor
  <2>7. "embedding" \notin Catalogue[m].words
    BY <2>5, <2>6, ScoreType
  <2>8. found[u].reachable /\ \A c \in DOMAIN Configured : Configured[c].url # u
    BY DEF Eligible
  <2> QED
    BY <2>1, <2>2, <2>3, <2>5, <2>6, <2>7, <2>8
<1> QED
  BY <1>1, <1>2 DEF WellPromoted, nodes

\* Each role a host can serve is served by one node of it.
LEMMA PromotedServe ==
    ASSUME NEW found, Offered(found)
    PROVE  RolesServed(AutoPromoted(found), found)
<1> DEFINE nodes == AutoPromoted(found)
<1>1. PICK n \in Nat :
          /\ n <= MaxNodes /\ DOMAIN nodes = 1 .. n /\ Len(nodes) = n
          /\ \A i \in 1 .. n : IsNodeOf(nodes[i], found)
          /\ \A i, j \in 1 .. n :
                 nodes[i].url = nodes[j].url /\ nodes[i].model = nodes[j].model => i = j
          /\ n < MaxNodes =>
                 \A u \in Eligible(found) : \A m \in Chosen(found[u].models) :
                     \E i \in 1 .. n : nodes[i].url = u /\ nodes[i].model = m
  BY PromotedAre
<1> HIDE DEF nodes
<1>2. ASSUME NEW u \in DOMAIN found \ {Configured[c].url : c \in DOMAIN Configured},
             NEW r \in PromoteRoles
      PROVE  LET serving == {i \in DOMAIN nodes : nodes[i].url = u /\ r \in nodes[i].roles}
                 fit == {m \in found[u].models : Score(m, r) >= 0}
             IN  /\ Cardinality(serving) <= 1
                 /\ (fit # {} /\ found[u].reachable /\ Len(nodes) < MaxNodes) => serving # {}
  <2> DEFINE serving == {i \in DOMAIN nodes : nodes[i].url = u /\ r \in nodes[i].roles}
             fit == {m \in found[u].models : Score(m, r) >= 0}
  <2>1. ASSUME NEW i \in serving, NEW j \in serving PROVE i = j
    <3>1. /\ IsNodeOf(nodes[i], found) /\ nodes[i].url = u /\ r \in nodes[i].roles
          /\ IsNodeOf(nodes[j], found) /\ nodes[j].url = u /\ r \in nodes[j].roles
      BY <1>1
    <3>2. /\ nodes[i].model \in BestFor(found[u].models, r)
          /\ nodes[j].model \in BestFor(found[u].models, r)
      BY <3>1 DEF IsNodeOf, Serves
    <3>3. Offer(found[u].models)
      BY <3>1, EligibleOffers DEF IsNodeOf
    <3>4. nodes[i].model = nodes[j].model
      BY <3>2, <3>3, BestIsOne
    <3> QED
      BY <1>1, <3>1, <3>4
  <2>2. Cardinality(serving) <= 1
    <3>1. CASE serving = {}
      BY <3>1, FS_EmptySet
    <3>2. CASE serving # {}
      <4>1. PICK i : serving = {i}
        BY <2>1, <3>2
      <4> HIDE DEF serving
      <4> QED
        BY <4>1, FS_Singleton
    <3> QED
      BY <3>1, <3>2
  <2>3. ASSUME fit # {}, found[u].reachable, Len(nodes) < MaxNodes PROVE serving # {}
    <3>1. u \in Eligible(found)
      BY <2>3, RegistryAssumption DEF Eligible, RegistryAssumption, LocalNode, Offered
    <3>2. PICK m \in found[u].models : m \in BestFor(found[u].models, r)
      BY <2>3, <3>1, EligibleOffers, BestExists
    <3>3. m \in Chosen(found[u].models) /\ r \in Serves(found[u].models, m)
      BY <3>2 DEF Chosen, Serves
    <3>4. PICK i \in 1 .. n : nodes[i].url = u /\ nodes[i].model = m
      BY <1>1, <2>3, <3>1, <3>3
    <3>5. r \in nodes[i].roles
      BY <1>1, <3>3, <3>4 DEF IsNodeOf
    <3> QED
      BY <1>1, <3>4, <3>5
  <2> QED
    BY <2>2, <2>3
<1> QED
  BY <1>2 DEF RolesServed, nodes

----------------------------------------------------------------------------
(* What is promoted                                                         *)

\* Hosts offer what they may, and what the threads found is what hosts offer.
Offering ==
    /\ \A u \in Urls : host[u].models = {} \/ host[u].models \in HostModels[u]
    /\ \A t \in Requesters : Offered(req[t].found)

\* Nothing found is nothing wrong.
LEMMA NothingFound == Offered(<<>>) /\ Idle.found = <<>> /\ Starting.found = <<>>
<1>1. DOMAIN <<>> = {}
  OBVIOUS
<1> QED
  BY <1>1 DEF Offered, Idle, Starting

\* At first nothing is found.
LEMMA InitOffers == ASSUME Init PROVE Offering
<1>1. ASSUME NEW u \in Urls PROVE host[u].models = {} \/ host[u].models \in HostModels[u]
  BY DEF Init, Up, Silent
<1>2. ASSUME NEW t \in Requesters PROVE Offered(req[t].found)
  <2>1. req[t] = Starting \/ req[t] = Idle
    BY DEF Init
  <2> QED
    BY <2>1, NothingFound
<1> QED
  BY <1>1, <1>2 DEF Offering

\* A thread keeps what it found, or forgets it.
LEMMA GoesFound ==
    ASSUME Shaped, NEW t \in Requesters, NEW at, Goes(t, at)
    PROVE  req'[t].found = req[t].found
BY DEF Goes, Shaped, Fields, Idle

\* A thread that ends has found nothing.
LEMMA EndsFound == ASSUME Shaped, NEW t \in Requesters, Ends(t) PROVE req'[t].found = <<>>
BY NothingFound DEF Ends, Shaped

\* A thread that chooses keeps what it found.
LEMMA ChoosesFound ==
    ASSUME Shaped, NEW t \in Requesters, NEW node, Chooses(t, node)
    PROVE  req'[t].found = req[t].found
BY DEF Chooses, Shaped, Fields, Idle

\* Only a probe adds to what a thread has found.
LEMMA StepFound ==
    ASSUME Shaped, NEW t \in Requesters, Ask(t) \/ Step(t)
    PROVE  \/ req'[t].found = req[t].found \/ req'[t].found = <<>>
           \/ \E u \in Urls : /\ u \notin DOMAIN req[t].found
                              /\ req'[t].found = With(req[t].found, u,
                                                      Result(host[u].up, host[u].models))
<1>0. t \in DOMAIN req /\ DOMAIN req[t] = Fields /\ "found" \in Fields
  BY DEF Shaped, Fields, Idle
<1>1. CASE Ask(t)
  BY <1>0, <1>1, NothingFound DEF Ask, Idle
<1>2. CASE Compare(t) \/ StoreTime(t)
  BY <1>2, GoesFound DEF Compare, StoreTime
<1>3. CASE StoreCache(t)
  BY <1>0, <1>3 DEF StoreCache
<1>4. CASE List(t)
  BY <1>0, <1>4, EndsFound, NothingFound DEF List, Idle
<1>5. ASSUME NEW u \in Urls, Probe(t, u)
      PROVE  /\ u \notin DOMAIN req[t].found
             /\ req'[t].found = With(req[t].found, u, Result(host[u].up, host[u].models))
  <2> DEFINE more == With(req[t].found, u, Result(host[u].up, host[u].models))
  <2>1. req' = [req EXCEPT ![t] = [req[t] EXCEPT !.found = more]] /\ u \notin DOMAIN req[t].found
    BY <1>5 DEF Probe
  <2> HIDE DEF more
  <2>2. req'[t].found = more
    BY <1>0, <2>1
  <2> QED
    BY <2>1, <2>2 DEF more
<1>6. ASSUME NEW u \in Urls, ProbeRaises(t, u)
      PROVE  req'[t].found = req[t].found \/ req'[t].found = <<>>
  BY <1>6, GoesFound, EndsFound DEF ProbeRaises
<1>7. CASE SelectById(t)
  <2>1. PICK left : req' = [req EXCEPT ![t] = [req[t] EXCEPT !.at = "tryId", !.left = left]]
    BY <1>7 DEF SelectById
  <2> QED
    BY <1>0, <2>1
<1>8. CASE TryId(t)
  <2>1. CASE req' = [req EXCEPT ![t] = [req[t] EXCEPT !.left = Tail(req[t].left)]]
    BY <1>0, <2>1
  <2> QED
    BY <1>8, <2>1, GoesFound, ChoosesFound DEF TryId
<1>9. CASE SelectByRole(t)
  <2>1. CASE Chooses(t, LocalNode)
    BY <2>1, ChoosesFound
  <2>2. CASE ~Chooses(t, LocalNode)
    <3>1. PICK left : req' = [req EXCEPT ![t] = [req[t] EXCEPT !.at = "filter", !.left = left]]
      BY <1>9, <2>2 DEF SelectByRole
    <3> QED
      BY <1>0, <3>1
  <2> QED
    BY <2>1, <2>2
<1>10. CASE Filter(t)
  <2>1. PICK able : req' = [req EXCEPT ![t] = [req[t] EXCEPT !.left = Tail(req[t].left),
                                                   !.kept = req[t].kept \cup able]]
    BY <1>10 DEF Filter
  <2> QED
    BY <1>0, <2>1
<1>11. CASE ReadTurn(t)
  <2>1. CASE Chooses(t, LocalNode)
    BY <2>1, ChoosesFound
  <2>2. CASE ~Chooses(t, LocalNode)
    <3>1. PICK index : req' = [req EXCEPT ![t] = [req[t] EXCEPT !.at = "turn", !.index = index]]
      BY <1>11, <2>2 DEF ReadTurn
    <3> QED
      BY <1>0, <3>1
  <2> QED
    BY <2>1, <2>2
<1>12. CASE WriteTurn(t)
  BY <1>12, ChoosesFound DEF WriteTurn, Takes
<1>13. CASE Return(t)
  BY <1>13, EndsFound DEF Return
<1> QED
  BY <1>1, <1>2, <1>3, <1>4, <1>5, <1>6, <1>7, <1>8, <1>9, <1>10, <1>11, <1>12, <1>13 DEF Step

\* The threads find what the hosts offer.
LEMMA ThreadOffers ==
    ASSUME IInv, Offering, NEW t \in Requesters, Ask(t) \/ Step(t), UNCHANGED host
    PROVE  Offering'
<1>0. Shaped
  BY DEF IInv
<1>1. Offered(req'[t].found)
  <2>1. CASE req'[t].found = req[t].found \/ req'[t].found = <<>>
    BY <2>1, NothingFound DEF Offering
  <2>2. ASSUME NEW u \in Urls, u \notin DOMAIN req[t].found,
               req'[t].found = With(req[t].found, u, Result(host[u].up, host[u].models))
        PROVE  Offered(req'[t].found)
    <3>1. Offered(req[t].found) /\ (host[u].models = {} \/ host[u].models \in HostModels[u])
      BY DEF Offering
    <3>2. Result(host[u].up, host[u].models).models = host[u].models
      BY DEF Result
    <3> QED
      BY <2>2, <3>1, <3>2 DEF Offered, With
  <2> QED
    BY <1>0, <2>1, <2>2, StepFound
<1>2. ASSUME NEW s \in Requesters PROVE Offered(req'[s].found)
  <2>1. CASE s = t
    BY <1>1, <2>1
  <2>2. CASE s # t
    <3>1. req'[s] = req[s]
      BY <1>0, <2>2, OthersStay
    <3> QED
      BY <3>1 DEF Offering
  <2> QED
    BY <2>1, <2>2
<1>3. \A s \in Requesters : (Offered(req[s].found))'
  BY <1>2 DEF Offered
<1> QED
  BY <1>3 DEF Offering

\* A step of a thread leaves the hosts alone, and the cache unless it stores it.
LEMMA StepLeaves ==
    ASSUME NEW t \in Requesters, Ask(t) \/ Step(t)
    PROVE  UNCHANGED host /\ (UNCHANGED cache \/ StoreCache(t))
BY DEF Step, Ask, Compare, Probe, ProbeRaises, StoreCache, StoreTime, List, SelectById, TryId,
       SelectByRole, Filter, ReadTurn, WriteTurn, Takes, Return

\* Every step keeps to what the hosts may offer.
LEMMA NextOffers == ASSUME IInv, Offering, [Next]_vars PROVE Offering'
<1>1. CASE Tick \/ UNCHANGED vars
  BY <1>1 DEF Tick, vars, Offering, Offered
<1>2. ASSUME NEW u \in Changing, HostChanges(u) PROVE Offering'
  <2>1. u \in Urls /\ DOMAIN host = Urls
    BY Bounds DEF IInv, Timed
  <2>2. host'[u].models = {} \/ host'[u].models \in HostModels[u]
    <3>1. CASE host' = [host EXCEPT ![u] = Silent(clock)]
      BY <2>1, <3>1 DEF Silent
    <3>2. ASSUME NEW models \in HostModels[u], host' = [host EXCEPT ![u] = Up(models)]
          PROVE  host'[u].models \in HostModels[u]
      BY <2>1, <3>2 DEF Up
    <3> QED
      BY <1>2, <3>1, <3>2 DEF HostChanges
  <2>3. \A v \in Urls \ {u} : host'[v] = host[v]
    BY <1>2, <2>1 DEF HostChanges
  <2>4. UNCHANGED req
    BY <1>2 DEF HostChanges
  <2> QED
    BY <2>2, <2>3, <2>4 DEF Offering, Offered
<1>3. ASSUME NEW t \in Threads, Ask(t) PROVE Offering'
  BY <1>3, StepLeaves, ThreadOffers DEF Requesters
<1>4. ASSUME NEW t \in Requesters, Step(t) PROVE Offering'
  BY <1>4, StepLeaves, ThreadOffers
<1> QED
  BY <1>1, <1>2, <1>3, <1>4 DEF Next

\* Whatever the hosts answer and however the refreshes overlap, what a discovery
\* promotes is what the documentation promises: nodes of reachable hosts without a
\* configured one, for each role the best model of the host and one node, never
\* an embedding model, up to max_nodes.
THEOREM PromotionsAreBest == Spec => PromotesBest
<1>1. Init => Offering
  BY InitOffers
<1>2. IInv /\ Offering /\ [Next]_vars => Offering'
  BY NextOffers
<1>3. ASSUME IInv, Offering, [Next]_vars, cache' # cache
      PROVE  /\ WellPromoted(AutoPromoted(cache'), cache')
             /\ RolesServed(AutoPromoted(cache'), cache')
  <2>1. PICK t \in Requesters : StoreCache(t)
    BY <1>3, StepLeaves DEF Next, vars, Tick, HostChanges, Requesters
  <2>2. PICK found : found = cache' /\ found = req[t].found
    BY <2>1 DEF StoreCache
  <2>3. Offered(found)
    BY <1>3, <2>2 DEF Offering
  <2>4. WellPromoted(AutoPromoted(found), found) /\ RolesServed(AutoPromoted(found), found)
    BY <2>3, PromotedWell, PromotedServe
  <2> QED
    BY <2>2, <2>4
<1>4. IInv /\ Offering /\ [Next]_vars =>
          [cache' # cache =>
              LET nodes == AutoPromoted(cache')
              IN  WellPromoted(nodes, cache') /\ RolesServed(nodes, cache')]_vars
  BY <1>3
<1> QED
  BY <1>1, <1>2, <1>4, Invariance, PTL DEF Spec, PromotesBest

=============================================================================
