--------------------------- MODULE Sandbox_proofs ---------------------------
(***************************************************************************)
(* Proofs about Sandbox for any hosts, sites, policies and number of       *)
(* calls: what a search adds to an allowlist, what a call leaves in docker *)
(* (NothingLeft), the hosts a worker can ask (WorkerConfined), and the     *)
(* pages that web_fetch shows (ShownAllowed).                              *)
(***************************************************************************)
EXTENDS Sandbox, TLAPS

----------------------------------------------------------------------------
(* The lists of a policy.                                                  *)

\* A search is admitted by the policy it is made with unless its host is denied,
\* and the wider allowlist admits no other host than before
\* (manager.py, _policy_with_search_host).
THEOREM SearchWidensByItsHost ==
    ASSUME NEW policy_ \in NetworkPolicy
    PROVE  LET used == PolicyWithSearchHost(policy_, SearchHost)
           IN  /\ ~HostMatchesAny(SearchHost, policy_.denied) => ListsAdmit(SearchHost, used)
               /\ \A host : ListsAdmit(host, used) => host = SearchHost \/ ListsAdmit(host, policy_)
<1> DEFINE used == PolicyWithSearchHost(policy_, SearchHost)
           own  == Pattern(FALSE, SearchHost)
<1>1. CASE policy_.allowed = {} \/ HostMatchesAny(SearchHost, policy_.allowed)
  BY <1>1 DEF PolicyWithSearchHost, ListsAdmit
<1>2. CASE ~(policy_.allowed = {} \/ HostMatchesAny(SearchHost, policy_.allowed))
  <2>1. used.denied = policy_.denied /\ used.allowed = policy_.allowed \cup {own}
    BY <1>2 DEF PolicyWithSearchHost, NetworkPolicy
  <2>2. \A host : DomainMatches(host, own) <=> host = SearchHost
    BY DEF DomainMatches, Pattern
  <2>3. \A host : HostMatchesAny(host, used.allowed)
                    <=> host = SearchHost \/ HostMatchesAny(host, policy_.allowed)
    <3> HIDE DEF used, own
    <3> QED
      BY <2>1, <2>2 DEF HostMatchesAny
  <2>4. used.allowed # {}
    <3> HIDE DEF used, own
    <3> QED
      BY <2>1
  <2> HIDE DEF used
  <2>5. QED
    BY <1>2, <2>1, <2>3, <2>4 DEF ListsAdmit, used
<1> QED
  BY <1>1, <1>2

----------------------------------------------------------------------------
(* What docker holds.                                                      *)

CallFields    == {"at", "n", "response"}
Before        == {"local", "info", "image", "request"}
SetUpStages   == {"egress", "internal", "proxy", "link", "worker"}
CleanUpStages == {"rm_proxy", "rm_internal", "rm_egress"}
Stages        == Before \cup SetUpStages \cup {"running", "collect"} \cup CleanUpStages

\* The call under way is the one after the last answer.
Calling ==
    /\ answer.n \in Nat
    /\ \/ call = Idle
       \/ /\ call.at \in Stages /\ DOMAIN call = CallFields
          /\ call.n = answer.n + 1 /\ call.n \in Sessions

Current(n) == call.at # "idle" /\ n = call.n

\* Docker holds things of sessions; what it may still do has timed out, and the
\* set-up stops at its first timeout.
Tracked ==
    /\ DOMAIN slips = Sessions /\ DOMAIN refused = Sessions
    /\ docker \subseteq Sessions \X SetUpStages
    /\ late \subseteq Sessions \X (SetUpStages \cup CleanUpStages)
    /\ \A e \in late : e[2] \in slips[e[1]]
    /\ \A n \in Sessions : ~({"proxy", "link"} \subseteq slips[n])

Untouched(n) == slips[n] = {} /\ \A kind : <<n, kind>> \notin docker

\* What NothingLeft says of one thing, and of a session that is over.
Owed(n, kind) == <<n, kind>> \in docker => Excused(n, kind)
Clean(n) == \A kind \in SetUpStages : Owed(n, kind)

\* The things that are dealt with when the call reaches a stage.
DealtWith(at) ==
    CASE at = "running"     -> {}
      [] at = "rm_internal" -> {"worker", "proxy", "link"}
      [] at = "rm_egress"   -> {"worker", "proxy", "link", "internal"}
      [] OTHER              -> {"worker"}

\* What holds of the session of the call under way.
Going(n) ==
    /\ call.at \in Before => Untouched(n)
    /\ call.at \notin CleanUpStages => slips[n] = {}
    /\ \A kind \in DealtWith(call.at) : Owed(n, kind)

DockerInv ==
    /\ Calling /\ Tracked
    /\ \A n \in Sessions :
          /\ n <= answer.n => Clean(n)
          /\ Current(n) => Going(n)
          /\ n > answer.n /\ ~Current(n) => Untouched(n)

\* Sessions are numbered.
LEMMA SessionsAreNumbers == Sessions \subseteq Nat
BY SandboxAssumption DEF SandboxAssumption, Sessions

\* The excuses of each thing, one by one.
LEMMA Excuses ==
    ASSUME NEW out, NEW ref
    PROVE  LET excuse(kind) == out \cap Outlived(kind) # {} \/ ref \cap Unremoved(kind) # {}
           IN  /\ excuse("proxy")    <=> {"proxy", "rm_proxy"} \cap out # {} \/ "rm_proxy" \in ref
               /\ excuse("link")     <=> "rm_proxy" \in out \/ "rm_proxy" \in ref
               /\ excuse("worker")   <=> "worker" \in out
               /\ excuse("internal") <=> \/ {"internal", "worker", "rm_proxy", "rm_internal"} \cap out # {}
                                        \/ {"rm_proxy", "rm_internal"} \cap ref # {}
               /\ excuse("egress")   <=> \/ {"egress", "proxy", "rm_proxy", "rm_internal", "rm_egress"} \cap out # {}
                                        \/ {"rm_proxy", "rm_egress"} \cap ref # {}
BY DEF Outlived, Unremoved

\* An excuse stays one.
LEMMA OwedKeeps ==
    ASSUME NEW n, NEW kind, Owed(n, kind), slips[n] \subseteq slips'[n], refused[n] \subseteq refused'[n],
           <<n, kind>> \in docker' => <<n, kind>> \in docker
    PROVE  Owed(n, kind)'
BY DEF Owed, Excused

\* What comes after an element that occurs once.
LEMMA Position ==
    ASSUME NEW s, NEW i \in DOMAIN s, \A j \in DOMAIN s : s[j] = s[i] => j = i
    PROVE  After(s, s[i]) = s[1 + i]
<1> DEFINE k == CHOOSE j \in DOMAIN s : s[j] = s[i]
<1>1. k \in DOMAIN s /\ s[k] = s[i]
  OBVIOUS
<1>2. k = i
  BY <1>1
<1> QED
  BY <1>2 DEF After

\* The order of the commands that set up and of those that clean up.
LEMMA Orders ==
    /\ CleanUp[1] = "rm_proxy" /\ SetUp[1] = "egress"
    /\ After(CleanUp, "rm_proxy") = "rm_internal" /\ After(CleanUp, "rm_internal") = "rm_egress"
    /\ ~IsLast(CleanUp, "rm_proxy") /\ ~IsLast(CleanUp, "rm_internal") /\ IsLast(CleanUp, "rm_egress")
    /\ \A s \in SetUpStages \ {"worker"} : After(SetUp, s) \in SetUpStages
    /\ \A i \in DOMAIN SetUp : SetUp[i] \in SetUpStages
    /\ \A i \in DOMAIN CleanUp : CleanUp[i] \in CleanUpStages
<1>1. /\ DOMAIN CleanUp = {1, 2, 3} /\ DOMAIN SetUp = {1, 2, 3, 4, 5}
      /\ CleanUp[1] = "rm_proxy" /\ CleanUp[2] = "rm_internal" /\ CleanUp[3] = "rm_egress"
      /\ SetUp[1] = "egress" /\ SetUp[2] = "internal" /\ SetUp[3] = "proxy" /\ SetUp[4] = "link"
      /\ SetUp[5] = "worker" /\ Len(CleanUp) = 3
  BY DEF CleanUp, SetUp
<1>2. \A i \in DOMAIN CleanUp : After(CleanUp, CleanUp[i]) = CleanUp[1 + i]
  <2> TAKE i \in DOMAIN CleanUp
  <2>1. \A j \in DOMAIN CleanUp : CleanUp[j] = CleanUp[i] => j = i
    BY DEF CleanUp
  <2> QED
    BY <2>1, Position
<1>3. \A i \in DOMAIN SetUp : After(SetUp, SetUp[i]) = SetUp[1 + i]
  <2> TAKE i \in DOMAIN SetUp
  <2>1. \A j \in DOMAIN SetUp : SetUp[j] = SetUp[i] => j = i
    BY DEF SetUp
  <2> QED
    BY <2>1, Position
<1>4. \A s \in SetUpStages \ {"worker"} : After(SetUp, s) \in SetUpStages
  <2>1. After(SetUp, SetUp[1]) = SetUp[2] /\ After(SetUp, SetUp[2]) = SetUp[3]
    BY <1>1, <1>3
  <2>2. After(SetUp, SetUp[3]) = SetUp[4] /\ After(SetUp, SetUp[4]) = SetUp[5]
    BY <1>1, <1>3
  <2> QED
    BY <1>1, <2>1, <2>2 DEF SetUpStages
<1>5. After(CleanUp, "rm_proxy") = "rm_internal" /\ After(CleanUp, "rm_internal") = "rm_egress"
  BY <1>1, <1>2
<1>6. Last(CleanUp) = "rm_egress"
  BY DEF Last, CleanUp
<1>7. \A i \in DOMAIN CleanUp : CleanUp[i] \in CleanUpStages
  BY <1>1 DEF CleanUpStages
<1>8. \A i \in DOMAIN SetUp : SetUp[i] \in SetUpStages
  BY <1>1 DEF SetUpStages
<1> QED
  BY <1>1, <1>4, <1>5, <1>6, <1>7, <1>8 DEF IsLast
\* A step of the call under way that touches its own session alone.
LEMMA OwnStep ==
    ASSUME DockerInv, call.at # "idle", NEW n, n = call.n, Calling', Tracked',
           \A m \in Sessions \ {n} :
               /\ slips'[m] = slips[m] /\ refused'[m] = refused[m]
               /\ \A x : <<m, x>> \in docker' <=> <<m, x>> \in docker,
           \/ call'.at # "idle" /\ answer'.n = answer.n /\ Going(n)'
           \/ call' = Idle /\ answer'.n = n /\ Clean(n)'
    PROVE  DockerInv'
<1>1. n = answer.n + 1 /\ n \in Sessions /\ answer.n \in Nat
  BY DEF DockerInv, Calling, Idle
<1>2. Idle.at = "idle"
  BY DEF Idle
<1>3. call'.at # "idle" => call'.n = answer'.n + 1
  BY <1>2 DEF Calling
<1> SUFFICES ASSUME NEW m \in Sessions
             PROVE  /\ m <= answer'.n => Clean(m)'
                    /\ Current(m)' => Going(m)'
                    /\ m > answer'.n /\ ~Current(m)' => Untouched(m)'
  BY DEF DockerInv
<1>4. m \in Nat
  BY SessionsAreNumbers
<1>5. CASE m = n
  <2>1. CASE call'.at # "idle" /\ answer'.n = answer.n /\ Going(n)'
    BY <1>1, <1>3, <1>4, <1>5, <2>1 DEF Current
  <2>2. CASE call' = Idle /\ answer'.n = n /\ Clean(n)'
    BY <1>1, <1>2, <1>4, <1>5, <2>2 DEF Current
  <2> QED
    BY <2>1, <2>2
<1>6. CASE m # n
  <2>1. (Clean(m) => Clean(m)') /\ (Untouched(m) => Untouched(m)')
    <3>1. /\ slips'[m] = slips[m] /\ refused'[m] = refused[m]
          /\ \A x : <<m, x>> \in docker' <=> <<m, x>> \in docker
      BY <1>6
    <3> QED
      BY <3>1 DEF Clean, Owed, Excused, Untouched
  <2>2. (m <= answer.n => Clean(m)) /\ (m > answer.n => Untouched(m))
    BY <1>6 DEF DockerInv, Current
  <2>3. ~Current(m)'
    BY <1>1, <1>2, <1>3, <1>4, <1>6 DEF Current
  <2> QED
    BY <1>1, <1>4, <1>6, <2>1, <2>2, <2>3
<1> QED
  BY <1>5, <1>6

\* What the three ways to go on leave of the call.
LEMMA GoesOn ==
    ASSUME DockerInv, call.at # "idle", NEW s \in Stages,
           \/ Goto(s)
           \/ s = "rm_proxy" /\ \E result : Respond(result)
    PROVE  Calling' /\ call'.at = s /\ call'.n = call.n /\ answer' = answer
<1>1. call.at \in Stages /\ DOMAIN call = CallFields /\ call.n = answer.n + 1 /\ call.n \in Sessions
  BY DEF DockerInv, Calling, Idle
<1>2. CASE Goto(s)
  BY <1>1, <1>2 DEF Goto, Calling, CallFields, DockerInv, Sessions
<1>3. CASE s = "rm_proxy" /\ \E result : Respond(result)
  <2>1. PICK result : Respond(result)
    BY <1>3
  <2>2. call' = [call EXCEPT !.at = "rm_proxy", !.response = result] /\ answer' = answer
    BY <2>1, Orders DEF Respond
  <2> QED
    BY <1>1, <1>3, <2>2 DEF Calling, CallFields, DockerInv, Sessions
<1> QED
  BY <1>2, <1>3

\* A call that ends is answered.
LEMMA Ends ==
    ASSUME DockerInv, call.at # "idle", NEW result, End(result)
    PROVE  Calling' /\ call' = Idle /\ answer'.n = call.n
<1>1. call.n = answer.n + 1 /\ answer.n \in Nat
  BY DEF DockerInv, Calling, Idle
<1> QED
  BY <1>1 DEF End, Calling

\* What the commands of docker change.
LEMMA EffectIs ==
    ASSUME NEW d, d \subseteq Sessions \X SetUpStages, NEW n \in Sessions,
           NEW s \in SetUpStages \cup CleanUpStages
    PROVE  /\ Effect(d, s, n) \subseteq Sessions \X SetUpStages
           /\ \A m : m # n => \A x : <<m, x>> \in Effect(d, s, n) <=> <<m, x>> \in d
           /\ s \in SetUpStages => Effect(d, s, n) = d \cup {<<n, s>>}
           /\ s \in CleanUpStages => Effect(d, s, n) \subseteq d
<1>1. CASE s \in SetUpStages
  <2>1. Effect(d, s, n) = d \cup {<<n, s>>}
    BY <1>1 DEF Effect, SetUpStages
  <2> QED
    BY <1>1, <2>1 DEF SetUpStages, CleanUpStages
<1>2. CASE s = "rm_proxy"
  BY <1>2 DEF Effect, SetUpStages
<1>3. CASE s = "rm_internal"
  BY <1>3 DEF Effect, SetUpStages
<1>4. CASE s = "rm_egress"
  BY <1>4 DEF Effect, SetUpStages
<1> QED
  BY <1>1, <1>2, <1>3, <1>4 DEF CleanUpStages
\* What is known of the session of a call under way.
LEMMA Underway ==
    ASSUME DockerInv, call.at # "idle"
    PROVE  /\ call.at \in Stages /\ call.n = answer.n + 1 /\ call.n \in Sessions
           /\ Going(call.n)
BY DEF DockerInv, Calling, Current, Idle

\* A command that timed out may have been carried out or may be later.
LEMMA TimesOutIs ==
    ASSUME DockerInv, NEW n \in Sessions, NEW s \in SetUpStages \cup CleanUpStages, TimesOut(s, n),
           s \in SetUpStages => slips[n] = {}
    PROVE  /\ Tracked' /\ slips'[n] = slips[n] \cup {s} /\ refused' = refused
           /\ \A m \in Sessions \ {n} :
                 slips'[m] = slips[m] /\ \A x : <<m, x>> \in docker' <=> <<m, x>> \in docker
           /\ docker' \subseteq docker \cup {<<n, s>>}
           /\ s \in CleanUpStages => docker' \subseteq docker
<1>1. Tracked
  BY DEF DockerInv
<1>2. slips' = [slips EXCEPT ![n] = slips[n] \cup {s}] /\ refused' = refused
  BY DEF TimesOut
<1>3. /\ DOMAIN slips' = Sessions /\ slips'[n] = slips[n] \cup {s}
      /\ \A m \in Sessions \ {n} : slips'[m] = slips[m]
  BY <1>1, <1>2 DEF Tracked
<1>4. docker \subseteq Sessions \X SetUpStages
  BY <1>1 DEF Tracked
<1>5. docker' = docker \/ docker' = Effect(docker, s, n)
  BY DEF TimesOut
<1>6. /\ docker' \subseteq Sessions \X SetUpStages
      /\ \A m \in Sessions \ {n} : \A x : <<m, x>> \in docker' <=> <<m, x>> \in docker
      /\ docker' \subseteq docker \cup {<<n, s>>}
      /\ s \in CleanUpStages => docker' \subseteq docker
  <2>1. CASE docker' = docker
    BY <1>4, <2>1
  <2>2. CASE docker' = Effect(docker, s, n)
    <3>1. /\ Effect(docker, s, n) \subseteq Sessions \X SetUpStages
          /\ \A m : m # n => \A x : <<m, x>> \in Effect(docker, s, n) <=> <<m, x>> \in docker
          /\ s \in SetUpStages => Effect(docker, s, n) = docker \cup {<<n, s>>}
          /\ s \in CleanUpStages => Effect(docker, s, n) \subseteq docker
      BY <1>4, EffectIs
    <3> QED
      BY <2>2, <3>1
  <2> QED
    BY <1>5, <2>1, <2>2
<1>7. late' \subseteq late \cup {<<n, s>>}
  BY DEF TimesOut
<1>8. /\ late' \subseteq Sessions \X (SetUpStages \cup CleanUpStages)
      /\ \A e \in late' : e[2] \in slips'[e[1]]
  <2>1. \A e \in late : e[1] \in Sessions /\ e[2] \in slips[e[1]]
    BY <1>1 DEF Tracked
  <2>2. \A m \in Sessions : slips[m] \subseteq slips'[m]
    BY <1>3
  <2>3. \A e \in late' : e[2] \in slips'[e[1]]
    BY <1>3, <1>7, <2>1, <2>2
  <2> QED
    BY <1>1, <1>7, <2>3 DEF Tracked
<1>9. \A m \in Sessions : ~({"proxy", "link"} \subseteq slips'[m])
  <2>1. ~({"proxy", "link"} \subseteq slips'[n])
    <3>1. CASE s \in SetUpStages
      BY <1>3, <3>1
    <3>2. CASE s \in CleanUpStages
      BY <1>1, <1>3, <3>2 DEF Tracked, CleanUpStages
    <3> QED
      BY <3>1, <3>2
  <2> QED
    BY <1>1, <1>3, <2>1 DEF Tracked
<1> QED
  BY <1>1, <1>2, <1>3, <1>6, <1>8, <1>9 DEF Tracked

\* A step that changes the call alone.
LEMMA CallAlone ==
    ASSUME DockerInv, NEW n, n = call.n, call.at # "idle", UNCHANGED daemon, Calling',
           \/ call'.at # "idle" /\ answer'.n = answer.n /\ Going(n)'
           \/ call' = Idle /\ answer'.n = n /\ Clean(n)'
    PROVE  DockerInv'
<1>1. Tracked'
  BY DEF DockerInv, Tracked, daemon
<1> QED
  BY <1>1, OwnStep DEF daemon

\* Nothing is owed where nothing is.
LEMMA UntouchedIs == \A n : Untouched(n) => Clean(n) /\ \A kind : Owed(n, kind)
BY DEF Untouched, Clean, Owed

\* A call takes a session nothing was made for.
LEMMA BeginKeeps == ASSUME DockerInv, Begin PROVE DockerInv'
<1> PICK n : n = answer.n + 1
  OBVIOUS
<1>1. /\ call.at = "idle" /\ n \in Sessions /\ answer' = answer /\ UNCHANGED daemon
      /\ call'.at \in {"info", "local"} /\ call'.n = n /\ DOMAIN call' = CallFields
  <2>1. PICK asked : call' = [at |-> IF backend = "docker" THEN "info" ELSE "local", n |-> answer.n + 1,
                              response |-> Failure]
    BY DEF Begin
  <2>2. answer.n \in Nat /\ answer.n < MaxCalls /\ MaxCalls \in Nat
    BY SandboxAssumption DEF Begin, DockerInv, Calling, SandboxAssumption
  <2> QED
    BY <2>1, <2>2 DEF Begin, CallFields, Sessions
<1>2. Calling' /\ Tracked'
  BY <1>1 DEF DockerInv, Calling, Tracked, Stages, Before, daemon
<1>3. Untouched(n)' /\ \A m \in Sessions : (Clean(m) => Clean(m)') /\ (Untouched(m) => Untouched(m)')
  <2>1. Untouched(n)
    BY <1>1 DEF DockerInv, Calling, Current
  <2> QED
    BY <1>1, <2>1 DEF daemon, Untouched, Clean, Owed, Excused
<1>4. Going(n)'
  BY <1>1, <1>3 DEF Going, Before, CleanUpStages, Untouched, Owed
<1>5. \A m \in Sessions : Current(m)' <=> m = n
  BY <1>1 DEF Current
<1>6. ASSUME NEW m \in Sessions
      PROVE  /\ m <= answer'.n => Clean(m)'
             /\ Current(m)' => Going(m)'
             /\ m > answer'.n /\ ~Current(m)' => Untouched(m)'
  <2>1. (m <= answer.n => Clean(m)) /\ (m > answer.n => Untouched(m))
    BY <1>1 DEF DockerInv, Current
  <2> QED
    BY <1>1, <1>3, <1>4, <1>5, <2>1
<1> QED
  BY <1>2, <1>6 DEF DockerInv

\* Nothing is made before the set-up.
LEMMA CheckKeeps == ASSUME DockerInv, Check \/ WriteRequest PROVE DockerInv'
<1> PICK n : n = call.n
  OBVIOUS
<1>1. call.at \in {"info", "image", "request"} /\ UNCHANGED daemon
  BY DEF Check, WriteRequest
<1>2. call.at # "idle" /\ n \in Sessions /\ Untouched(n)
  BY <1>1, Underway DEF Going, Before
<1>3. Untouched(n)'
  BY <1>1, <1>2 DEF Untouched, daemon
<1>4. CASE \E s \in {"image", "request", "egress"} : Goto(s)
  <2>1. PICK s \in {"image", "request", "egress"} : Goto(s)
    BY <1>4
  <2>2. s \in Stages
    BY DEF Stages, Before, SetUpStages
  <2>3. Calling' /\ call'.at = s /\ answer' = answer
    BY <1>2, <2>1, <2>2, GoesOn
  <2>4. Going(n)'
    BY <1>3, <2>3 DEF Going, Before, CleanUpStages, Untouched, Owed
  <2> QED
    BY <1>1, <1>2, <2>3, <2>4, CallAlone
<1>5. CASE End(Failure)
  <2>1. Calling' /\ call' = Idle /\ answer'.n = n
    BY <1>2, <1>5, Ends
  <2>2. Clean(n)'
    BY <1>3 DEF Clean, Untouched, Owed
  <2> QED
    BY <1>1, <1>2, <2>1, <2>2, CallAlone
<1> QED
  BY <1>4, <1>5, Orders DEF Check, WriteRequest

\* No worker is left of a set-up that has not come to it.
LEMMA NoWorker ==
    ASSUME NEW n, Going(n), slips[n] = {}, "worker" \in DealtWith(call.at)
    PROVE  <<n, "worker">> \notin docker
<1>1. Owed(n, "worker")
  BY DEF Going
<1> QED
  BY <1>1, Excuses DEF Owed, Excused

\* A command of the set-up makes its own thing, or the cleaning begins.
LEMMA SetUpKeeps == ASSUME DockerInv, NEW s \in SetUpStages, SetUpStep(s) PROVE DockerInv'
<1> PICK n : n = call.n
  OBVIOUS
<1>1. call.at = s /\ s # "worker" /\ call.at # "idle"
  BY DEF SetUpStep, SetUpStages
<1>2. n \in Sessions /\ slips[n] = {} /\ Going(n)
  BY <1>1, Underway DEF Going, SetUpStages, CleanUpStages
<1>3. docker \subseteq Sessions \X SetUpStages
  BY DEF DockerInv, Tracked
<1>4. <<n, "worker">> \notin docker
  BY <1>1, <1>2, NoWorker DEF DealtWith, SetUpStages
<1>5. CASE /\ docker' = Effect(docker, s, n) /\ UNCHANGED <<late, slips, refused>>
           /\ Goto(After(SetUp, s))
  <2>1. /\ docker' \subseteq Sessions \X SetUpStages
        /\ \A m \in Sessions \ {n} : \A x : <<m, x>> \in docker' <=> <<m, x>> \in docker
        /\ docker' = docker \cup {<<n, s>>}
    BY <1>2, <1>3, <1>5, EffectIs
  <2>2. Tracked'
    BY <1>5, <2>1 DEF DockerInv, Tracked
  <2>3. After(SetUp, s) \in SetUpStages
    BY <1>1, Orders
  <2>4. Calling' /\ call'.at \in SetUpStages /\ answer' = answer
    BY <1>1, <1>5, <2>3, GoesOn DEF Stages
  <2>5. DealtWith(call'.at) = {"worker"} /\ Owed(n, "worker")'
    BY <1>1, <1>4, <2>1, <2>4 DEF DealtWith, SetUpStages, Owed
  <2>6. Going(n)'
    BY <1>1, <1>2, <1>5, <2>4, <2>5 DEF Going, SetUpStages, Before, CleanUpStages
  <2>7. call'.at # "idle"
    BY <2>4 DEF SetUpStages
  <2> QED
    BY <1>1, <1>5, <2>1, <2>2, <2>4, <2>6, <2>7, OwnStep
<1>6. CASE Respond(Failure) /\ (UNCHANGED daemon \/ TimesOut(s, n))
  <2>1. Calling' /\ call'.at = "rm_proxy" /\ answer' = answer
    BY <1>1, <1>6, GoesOn DEF Stages, CleanUpStages
  <2>2. DealtWith(call'.at) = {"worker"}
    BY <2>1 DEF DealtWith
  <2>3. CASE UNCHANGED daemon
    <3>1. Going(n)'
      BY <1>4, <2>1, <2>2, <2>3 DEF Going, Owed, daemon, Before, CleanUpStages
    <3> QED
      BY <1>1, <2>1, <2>3, <3>1, CallAlone
  <2>4. CASE TimesOut(s, n)
    <3>1. /\ Tracked' /\ slips'[n] = slips[n] \cup {s} /\ refused' = refused
          /\ \A m \in Sessions \ {n} :
                slips'[m] = slips[m] /\ \A x : <<m, x>> \in docker' <=> <<m, x>> \in docker
          /\ docker' \subseteq docker \cup {<<n, s>>}
      BY <1>2, <2>4, TimesOutIs
    <3>2. Owed(n, "worker")'
      BY <1>1, <1>4, <3>1 DEF Owed
    <3>3. Going(n)'
      BY <2>1, <2>2, <3>2 DEF Going, Before, CleanUpStages
    <3> QED
      BY <1>1, <2>1, <3>1, <3>3, OwnStep
  <2> QED
    BY <1>6, <2>3, <2>4
<1> QED
  BY <1>5, <1>6 DEF SetUpStep

\* However the worker ends, the cleaning begins with the proxy.
LEMMA WorkerKeeps ==
    ASSUME DockerInv, StartWorker \/ WorkerReturns \/ WorkerTimesOut \/ Collect
    PROVE  DockerInv'
<1> PICK n : n = call.n
  OBVIOUS
<1>1. call.at \in {"worker", "running", "collect"} /\ call.at # "idle"
  BY DEF StartWorker, WorkerReturns, WorkerTimesOut, Collect
<1>2. n \in Sessions /\ slips[n] = {} /\ (call.at # "running" => <<n, "worker">> \notin docker)
  <2>1. n \in Sessions /\ slips[n] = {} /\ Going(n)
    BY <1>1, Underway DEF Going, CleanUpStages
  <2>2. call.at # "running" => "worker" \in DealtWith(call.at)
    BY <1>1 DEF DealtWith
  <2> QED
    BY <2>1, <2>2, NoWorker
<1>3. docker \subseteq Sessions \X SetUpStages
  BY DEF DockerInv, Tracked
<1>4. /\ "worker" \in SetUpStages /\ {"running", "collect", "rm_proxy"} \subseteq Stages
      /\ DealtWith("collect") = {"worker"} /\ DealtWith("rm_proxy") = {"worker"}
      /\ DealtWith("running") = {}
  BY DEF SetUpStages, Stages, CleanUpStages, DealtWith
<1>5. CASE UNCHANGED daemon /\ <<n, "worker">> \notin docker
           /\ (Goto("collect") \/ \E result : Respond(result))
  <2>1. Calling' /\ call'.at \in {"collect", "rm_proxy"} /\ answer' = answer
    BY <1>1, <1>4, <1>5, GoesOn
  <2>2. DealtWith(call'.at) = {"worker"} /\ Owed(n, "worker")'
    BY <1>4, <1>5, <2>1 DEF Owed, daemon
  <2>3. Going(n)'
    BY <1>2, <1>5, <2>1, <2>2 DEF Going, daemon, Before, CleanUpStages
  <2> QED
    BY <1>1, <1>5, <2>1, <2>3, CallAlone
<1>6. CASE docker' = Effect(docker, "worker", n) /\ UNCHANGED <<late, slips, refused>> /\ Goto("running")
  <2>1. /\ docker' \subseteq Sessions \X SetUpStages
        /\ \A m \in Sessions \ {n} : \A x : <<m, x>> \in docker' <=> <<m, x>> \in docker
    <3>1. docker' = docker \cup {<<n, "worker">>}
      BY <1>6 DEF Effect
    <3> QED
      BY <1>2, <1>3, <1>4, <3>1
  <2>2. Tracked'
    BY <1>6, <2>1 DEF DockerInv, Tracked
  <2>3. Calling' /\ call'.at = "running" /\ answer' = answer
    BY <1>1, <1>4, <1>6, GoesOn
  <2>4. Going(n)'
    BY <1>2, <1>4, <1>6, <2>3 DEF Going, Before, CleanUpStages
  <2> QED
    BY <1>1, <1>6, <2>1, <2>2, <2>3, <2>4, OwnStep
<1>7. CASE /\ late' \subseteq late \cup {<<n, "worker">>}
           /\ slips' = [slips EXCEPT ![n] = slips[n] \cup {"worker"}]
           /\ UNCHANGED <<docker, refused>> /\ Respond(Failure)
  <2>1. Calling' /\ call'.at = "rm_proxy" /\ answer' = answer
    BY <1>1, <1>4, <1>7, GoesOn
  <2>2. /\ DOMAIN slips' = Sessions /\ slips'[n] = {"worker"}
        /\ \A m \in Sessions \ {n} : slips'[m] = slips[m]
    BY <1>2, <1>7 DEF DockerInv, Tracked
  <2>3. \A e \in late' : e[2] \in slips'[e[1]]
    <3>1. \A e \in late : e[1] \in Sessions /\ e[2] \in slips[e[1]]
      BY DEF DockerInv, Tracked
    <3> QED
      BY <1>2, <1>7, <2>2, <3>1
  <2>4. \A m \in Sessions : ~({"proxy", "link"} \subseteq slips'[m])
    BY <2>2 DEF DockerInv, Tracked
  <2>5. Tracked'
    BY <1>2, <1>3, <1>4, <1>7, <2>2, <2>3, <2>4 DEF DockerInv, Tracked
  <2>6. Owed(n, "worker")'
    <3>1. "worker" \in slips'[n]
      BY <2>2
    <3> QED
      BY <3>1, Excuses DEF Owed, Excused
  <2>7. DealtWith(call'.at) = {"worker"}
    BY <1>4, <2>1
  <2>8. Going(n)'
    BY <2>1, <2>6, <2>7 DEF Going, Before, CleanUpStages
  <2> QED
    BY <1>1, <1>7, <2>1, <2>2, <2>5, <2>8, OwnStep
<1>8. CASE StartWorker
  BY <1>2, <1>5, <1>6, <1>7, <1>8 DEF StartWorker
<1>9. CASE WorkerReturns \/ Collect
  BY <1>2, <1>5, <1>9 DEF WorkerReturns, Collect
<1>10. CASE WorkerTimesOut
  BY <1>7, <1>10 DEF WorkerTimesOut
<1> QED
  BY <1>8, <1>9, <1>10

\* A command of the cleaning that docker carried out or refused: what it was to
\* remove is gone, or there is an excuse.
LEMMA Removal ==
    ASSUME DockerInv, NEW n \in Sessions, NEW s \in CleanUpStages, Going(n), call.at = s,
           slips' = slips,
           \/ /\ docker' = IF Possible(docker, s, n) THEN Effect(docker, s, n) ELSE docker
              /\ refused' = refused
           \/ docker' = docker /\ refused' = [refused EXCEPT ![n] = refused[n] \cup {s}]
    PROVE  /\ Owed(n, "worker")' /\ Owed(n, "proxy")' /\ Owed(n, "link")'
           /\ s # "rm_proxy" => Owed(n, "internal")'
           /\ s = "rm_egress" => Owed(n, "egress")'
<1> DEFINE dealt == {"worker"} \cup (IF s = "rm_proxy" THEN {} ELSE {"proxy", "link"})
                       \cup (IF s = "rm_egress" THEN {"internal"} ELSE {})
<1>1. docker' \subseteq docker /\ slips[n] \subseteq slips'[n] /\ refused[n] \subseteq refused'[n]
  <2>1. docker \subseteq Sessions \X SetUpStages /\ DOMAIN refused = Sessions
    BY DEF DockerInv, Tracked
  <2>2. Effect(docker, s, n) \subseteq docker
    BY <2>1, EffectIs
  <2> QED
    BY <2>1, <2>2
<1>2. \A kind \in dealt : Owed(n, kind) /\ Owed(n, kind)'
  <2>1. \A kind \in dealt : Owed(n, kind)
    BY DEF Going, DealtWith, CleanUpStages
  <2> HIDE DEF dealt
  <2> QED
    BY <1>1, <2>1, OwedKeeps
<1>3. CASE refused' = [refused EXCEPT ![n] = refused[n] \cup {s}]
  <2>1. s \in refused'[n]
    BY <1>3 DEF DockerInv, Tracked
  <2>2. s = "rm_proxy" => Owed(n, "proxy")' /\ Owed(n, "link")'
    BY <2>1, Excuses DEF Owed, Excused
  <2>3. s = "rm_internal" => Owed(n, "internal")'
    BY <2>1, Excuses DEF Owed, Excused
  <2>4. s = "rm_egress" => Owed(n, "egress")'
    BY <2>1, Excuses DEF Owed, Excused
  <2> QED
    BY <1>2, <2>2, <2>3, <2>4 DEF CleanUpStages
<1>4. CASE /\ docker' = IF Possible(docker, s, n) THEN Effect(docker, s, n) ELSE docker
           /\ refused' = refused
  <2>1. CASE s = "rm_proxy"
    <3>1. docker' = docker \ {<<n, "proxy">>, <<n, "link">>}
      BY <1>4, <2>1 DEF Possible, Effect
    <3> QED
      BY <1>2, <2>1, <3>1 DEF Owed
  <2>2. CASE s = "rm_internal"
    <3>1. docker' = IF {<<n, "link">>, <<n, "worker">>} \cap docker = {}
                    THEN docker \ {<<n, "internal">>} ELSE docker
      BY <1>4, <2>2 DEF Possible, Effect
    <3>2. CASE <<n, "link">> \in docker \/ <<n, "worker">> \in docker
      <4>1. Excused(n, "link") \/ Excused(n, "worker")
        BY <1>2, <2>2, <3>2 DEF Owed
      <4>2. Excused(n, "internal")
        BY <4>1, Excuses DEF Excused
      <4> QED
        BY <1>2, <1>4, <2>2, <4>2 DEF Owed, Excused
    <3>3. CASE ~(<<n, "link">> \in docker \/ <<n, "worker">> \in docker)
      BY <1>2, <2>2, <3>1, <3>3 DEF Owed
    <3> QED
      BY <3>2, <3>3
  <2>3. CASE s = "rm_egress"
    <3>1. docker' = IF <<n, "proxy">> \notin docker THEN docker \ {<<n, "egress">>} ELSE docker
      BY <1>4, <2>3 DEF Possible, Effect
    <3>2. CASE <<n, "proxy">> \in docker
      <4>1. Excused(n, "proxy")
        BY <1>2, <2>3, <3>2 DEF Owed
      <4>2. Excused(n, "egress")
        BY <4>1, Excuses DEF Excused
      <4> QED
        BY <1>2, <1>4, <2>3, <4>2 DEF Owed, Excused
    <3>3. CASE <<n, "proxy">> \notin docker
      BY <1>2, <2>3, <3>1, <3>3 DEF Owed
    <3> QED
      BY <3>2, <3>3
  <2> QED
    BY <2>1, <2>2, <2>3 DEF CleanUpStages
<1> QED
  BY <1>3, <1>4

\* A command of the cleaning removes what the next one needs gone, or has an excuse.
LEMMA CleanUpKeeps == ASSUME DockerInv, NEW s \in CleanUpStages, CleanUpStep(s) PROVE DockerInv'
<1> PICK n : n = call.n
  OBVIOUS
<1>1. call.at = s /\ call.at # "idle"
  BY DEF CleanUpStep, CleanUpStages
<1>2. n \in Sessions /\ Going(n)
  BY <1>1, Underway
<1>3. docker \subseteq Sessions \X SetUpStages
  BY DEF DockerInv, Tracked
<1>4. CASE /\ \/ /\ docker' = IF Possible(docker, s, n) THEN Effect(docker, s, n) ELSE docker
                 /\ refused' = refused
              \/ docker' = docker /\ refused' = [refused EXCEPT ![n] = refused[n] \cup {s}]
           /\ IF IsLast(CleanUp, s) THEN End(call.response) ELSE Goto(After(CleanUp, s))
           /\ UNCHANGED <<late, slips>>
  <2>1. /\ docker' \subseteq docker
        /\ \A m \in Sessions \ {n} : \A x : <<m, x>> \in docker' <=> <<m, x>> \in docker
    <3>1. /\ \A m : m # n => \A x : <<m, x>> \in Effect(docker, s, n) <=> <<m, x>> \in docker
          /\ Effect(docker, s, n) \subseteq docker
      BY <1>2, <1>3, EffectIs
    <3> QED
      BY <1>4, <3>1
  <2>2. DOMAIN refused' = Sessions /\ \A m \in Sessions \ {n} : refused'[m] = refused[m]
    BY <1>4 DEF DockerInv, Tracked
  <2>3. Tracked'
    BY <1>4, <2>1, <2>2 DEF DockerInv, Tracked
  <2>4. /\ Owed(n, "worker")' /\ Owed(n, "proxy")' /\ Owed(n, "link")'
        /\ s # "rm_proxy" => Owed(n, "internal")'
        /\ s = "rm_egress" => Owed(n, "egress")'
    <3>1. slips' = slips
      BY <1>4
    <3>2. \/ /\ docker' = IF Possible(docker, s, n) THEN Effect(docker, s, n) ELSE docker
             /\ refused' = refused
          \/ docker' = docker /\ refused' = [refused EXCEPT ![n] = refused[n] \cup {s}]
      BY <1>4
    <3> QED
      BY <1>1, <1>2, <3>1, <3>2, Removal
  <2>5. CASE s = "rm_proxy"
    <3>1. Goto("rm_internal")
      BY <1>4, <2>5, Orders
    <3>2. Calling' /\ call'.at = "rm_internal" /\ answer' = answer
      BY <1>1, <3>1, GoesOn DEF Stages, CleanUpStages
    <3>3. DealtWith(call'.at) = {"worker", "proxy", "link"}
      BY <3>2 DEF DealtWith
    <3>4. Going(n)'
      BY <2>4, <3>2, <3>3 DEF Going, Before, CleanUpStages
    <3> QED
      BY <1>1, <1>4, <2>1, <2>2, <2>3, <3>2, <3>4, OwnStep
  <2>6. CASE s = "rm_internal"
    <3>1. Goto("rm_egress")
      BY <1>4, <2>6, Orders
    <3>2. Calling' /\ call'.at = "rm_egress" /\ answer' = answer
      BY <1>1, <3>1, GoesOn DEF Stages, CleanUpStages
    <3>3. DealtWith(call'.at) = {"worker", "proxy", "link", "internal"}
      BY <3>2 DEF DealtWith
    <3>4. Going(n)'
      BY <2>4, <2>6, <3>2, <3>3 DEF Going, Before, CleanUpStages
    <3> QED
      BY <1>1, <1>4, <2>1, <2>2, <2>3, <3>2, <3>4, OwnStep
  <2>7. CASE s = "rm_egress"
    <3>1. End(call.response)
      BY <1>4, <2>7, Orders
    <3>2. Calling' /\ call' = Idle /\ answer'.n = n
      BY <1>1, <3>1, Ends
    <3>3. Clean(n)'
      BY <2>4, <2>7 DEF Clean, SetUpStages
    <3> QED
      BY <1>1, <1>4, <2>1, <2>2, <2>3, <3>2, <3>3, OwnStep
  <2> QED
    BY <2>5, <2>6, <2>7 DEF CleanUpStages
<1>5. CASE TimesOut(s, n) /\ End(Failure)
  <2>1. Calling' /\ call' = Idle /\ answer'.n = n
    BY <1>1, <1>5, Ends
  <2>2. s \notin SetUpStages
    BY DEF SetUpStages, CleanUpStages
  <2>3. /\ Tracked' /\ slips'[n] = slips[n] \cup {s} /\ refused' = refused
        /\ \A m \in Sessions \ {n} :
              slips'[m] = slips[m] /\ \A x : <<m, x>> \in docker' <=> <<m, x>> \in docker
        /\ docker' \subseteq docker
    BY <1>2, <1>5, <2>2, TimesOutIs
  <2>4. /\ Owed(n, "worker") /\ (s # "rm_proxy" => Owed(n, "proxy") /\ Owed(n, "link"))
        /\ s = "rm_egress" => Owed(n, "internal")
    BY <1>1, <1>2 DEF Going, DealtWith, CleanUpStages
  <2>5. \A kind : Owed(n, kind) => Owed(n, kind)'
    BY <2>3, OwedKeeps
  <2>6. s \in slips'[n]
    BY <2>3
  <2>7. Clean(n)'
    <3>1. CASE s = "rm_proxy"
      <4>1. Owed(n, "proxy")' /\ Owed(n, "link")' /\ Owed(n, "internal")' /\ Owed(n, "egress")'
        BY <2>6, <3>1, Excuses DEF Owed, Excused
      <4> QED
        BY <2>4, <2>5, <4>1 DEF Clean, SetUpStages
    <3>2. CASE s = "rm_internal"
      <4>1. Owed(n, "internal")' /\ Owed(n, "egress")'
        BY <2>6, <3>2, Excuses DEF Owed, Excused
      <4> QED
        BY <2>4, <2>5, <3>2, <4>1 DEF Clean, SetUpStages
    <3>3. CASE s = "rm_egress"
      <4>1. Owed(n, "egress")'
        BY <2>6, <3>3, Excuses DEF Owed, Excused
      <4> QED
        BY <2>4, <2>5, <3>3, <4>1 DEF Clean, SetUpStages
    <3> QED
      BY <3>1, <3>2, <3>3 DEF CleanUpStages
  <2> QED
    BY <1>1, <2>1, <2>3, <2>7, OwnStep
<1> QED
  BY <1>4, <1>5 DEF CleanUpStep

\* Steps that leave the call alone, and of docker take a worker away at most.
LEMMA ShrinkKeeps ==
    ASSUME DockerInv, UNCHANGED <<call, answer, late, slips, refused>>, docker' \subseteq docker
    PROVE  DockerInv'
<1>1. Calling' /\ Tracked'
  BY DEF DockerInv, Calling, Tracked
<1>2. ASSUME NEW m \in Sessions
      PROVE  /\ (Clean(m) => Clean(m)') /\ (Untouched(m) => Untouched(m)')
             /\ (Going(m) => Going(m)')
  <2>1. \A kind : Owed(m, kind) => Owed(m, kind)'
    BY OwedKeeps
  <2>2. (Clean(m) => Clean(m)') /\ (Untouched(m) => Untouched(m)')
    BY <2>1 DEF Clean, Untouched
  <2> QED
    BY <2>1, <2>2 DEF Going
<1> QED
  BY <1>1, <1>2 DEF DockerInv, Current

\* What is carried out late is one of the commands that timed out.
LEMMA CatchUpKeeps == ASSUME DockerInv, CatchUp PROVE DockerInv'
<1>1. PICK e \in late :
         /\ late' = late \ {e} /\ UNCHANGED <<client, slips, refused>>
         /\ docker' = IF Possible(docker, e[2], e[1]) THEN Effect(docker, e[2], e[1]) ELSE docker
  BY DEF CatchUp
<1>2. CASE docker' = docker
  <2>1. Calling' /\ Tracked'
    BY <1>1, <1>2 DEF DockerInv, Calling, Tracked, client
  <2> QED
    BY <1>1, <1>2, <2>1 DEF DockerInv, Current, client, Clean, Untouched, Going, Owed, Excused
<1>3. CASE docker' = Effect(docker, e[2], e[1]) /\ Possible(docker, e[2], e[1])
  <2> PICK n, s : n = e[1] /\ s = e[2]
    OBVIOUS
  <2>1. /\ n \in Sessions /\ s \in SetUpStages \cup CleanUpStages /\ s \in slips[n]
        /\ ~({"proxy", "link"} \subseteq slips[n])
    BY <1>1 DEF DockerInv, Tracked
  <2>2. docker \subseteq Sessions \X SetUpStages
    BY DEF DockerInv, Tracked
  <2>3. /\ docker' \subseteq Sessions \X SetUpStages
        /\ \A m : m # n => \A x : <<m, x>> \in docker' <=> <<m, x>> \in docker
        /\ s \in SetUpStages => docker' = docker \cup {<<n, s>>}
        /\ s \in CleanUpStages => docker' \subseteq docker
    <3>1. docker' = Effect(docker, s, n)
      BY <1>3
    <3>2. ASSUME NEW k \in Sessions, NEW t \in SetUpStages \cup CleanUpStages
          PROVE  /\ Effect(docker, t, k) \subseteq Sessions \X SetUpStages
                 /\ \A m : m # k => \A x : <<m, x>> \in Effect(docker, t, k) <=> <<m, x>> \in docker
                 /\ t \in SetUpStages => Effect(docker, t, k) = docker \cup {<<k, t>>}
                 /\ t \in CleanUpStages => Effect(docker, t, k) \subseteq docker
      <4> HIDE <1>1
      <4> QED
        BY <2>2, EffectIs
    <3> QED
      BY <2>1, <3>1, <3>2
  <2>4. Calling' /\ Tracked'
    BY <1>1, <2>3 DEF DockerInv, Calling, Tracked, client
  <2>5. UNCHANGED <<call, answer, slips, refused>>
    BY <1>1 DEF client
  <2>6. s = "link" => <<n, "proxy">> \in docker
    BY <1>3 DEF Possible
  <2>7. ASSUME NEW m \in Sessions, NEW kind, Owed(m, kind), m = n /\ kind = "link" => Owed(m, "proxy")
        PROVE  Owed(m, kind)'
    <3>1. CASE m # n \/ s \notin SetUpStages \/ kind # s
      <4>1. <<m, kind>> \in docker' => <<m, kind>> \in docker
        BY <2>1, <2>3, <3>1
      <4> QED
        BY <2>5, <2>7, <4>1, OwedKeeps
    <3>2. CASE m = n /\ s \in SetUpStages /\ kind = s
      <4>1. CASE s = "link"
        <5>1. Excused(n, "proxy") /\ "proxy" \notin slips[n]
          BY <2>1, <2>6, <2>7, <3>2, <4>1 DEF Owed
        <5>2. "rm_proxy" \in slips[n] \/ "rm_proxy" \in refused[n]
          <6>1. {"proxy", "rm_proxy"} \cap slips[n] # {} \/ "rm_proxy" \in refused[n]
            BY <5>1, Excuses DEF Excused
          <6> QED
            BY <5>1, <6>1
        <5>3. Excused(n, "link")
          BY <5>2, Excuses DEF Excused
        <5> QED
          BY <2>5, <3>2, <4>1, <5>3 DEF Owed, Excused
      <4>2. CASE s \in {"proxy", "worker", "internal", "egress"}
        <5>1. Excused(n, s)
          BY <2>1, <4>2, Excuses DEF Excused
        <5> QED
          BY <2>5, <3>2, <5>1 DEF Owed, Excused
      <4> QED
        BY <3>2, <4>1, <4>2 DEF SetUpStages
    <3> QED
      BY <3>1, <3>2
  <2>8. ASSUME NEW m \in Sessions
        PROVE  /\ (Clean(m) => Clean(m)') /\ (Untouched(m) => Untouched(m)')
               /\ (Going(m) => Going(m)')
    <3>1. Clean(m) => Clean(m)'
      BY <2>7 DEF Clean, SetUpStages
    <3>2. Untouched(m) => Untouched(m)'
      <4>1. Untouched(m) => m # n
        BY <2>1 DEF Untouched
      <4> QED
        BY <2>3, <2>5, <4>1 DEF Untouched
    <3>3. Going(m) => \A kind \in DealtWith(call.at) : Owed(m, kind)'
      <4> SUFFICES ASSUME Going(m), NEW kind \in DealtWith(call.at) PROVE Owed(m, kind)'
        OBVIOUS
      <4>1. kind = "link" => "proxy" \in DealtWith(call.at)
        BY DEF DealtWith
      <4> QED
        BY <2>7, <4>1 DEF Going
    <3> QED
      BY <2>5, <3>1, <3>2, <3>3 DEF Going
  <2> QED
    BY <2>4, <2>5, <2>8 DEF DockerInv, Current
<1> QED
  BY <1>1, <1>2, <1>3

\* With the local backend the operation at work is that of the call.
LocalInv ==
    /\ DOMAIN fetch = Sessions
    /\ backend = "local" =>
          /\ call.at \in {"idle", "local"} /\ late = {} /\ docker = {}
          /\ \A n \in Sessions : fetch[n].at # "off" => Current(n)

\* The local backend makes nothing in docker.
LEMMA ReturnKeeps ==
    ASSUME DockerInv, LocalInv, NEW n \in Sessions, ReturnLocal(n)
    PROVE  DockerInv'
<1>1. n = call.n /\ call.at = "local" /\ call.at # "idle" /\ UNCHANGED daemon
  BY DEF ReturnLocal, Working, LocalInv, Current
<1>2. Untouched(n)
  BY <1>1, Underway DEF Going, Before
<1>3. Clean(n)'
  BY <1>1, <1>2 DEF Clean, Owed, Untouched, daemon
<1>4. Calling' /\ call' = Idle /\ answer'.n = n
  BY <1>1, Ends DEF ReturnLocal
<1> QED
  BY <1>1, <1>3, <1>4, CallAlone

\* At first there is nothing in docker.
LEMMA DockerInit == Init => DockerInv /\ LocalInv
<1> SUFFICES ASSUME Init PROVE DockerInv /\ LocalInv
  OBVIOUS
<1>1. call.at = "idle" /\ answer.n = 0 /\ \A n \in Sessions : fetch[n].at = "off"
  BY DEF Init, Idle, Asleep
<1>2. Calling /\ Tracked
  BY <1>1 DEF Init, Calling, Tracked
<1>3. \A n \in Sessions : Untouched(n) /\ ~Current(n) /\ ~(n <= answer.n)
  BY <1>1 DEF Init, Untouched, Current, Sessions
<1> QED
  BY <1>1, <1>2, <1>3 DEF Init, DockerInv, LocalInv

\* Every step keeps what is known of docker.
LEMMA DockerKeeps == ASSUME DockerInv, LocalInv, [Next]_vars PROVE DockerInv'
<1>1. CASE Begin
  BY <1>1, BeginKeeps
<1>2. CASE Client
  <2>1. CASE \E i \in DOMAIN SetUp : SetUpStep(SetUp[i])
    BY <2>1, Orders, SetUpKeeps
  <2>2. CASE \E i \in DOMAIN CleanUp : CleanUpStep(CleanUp[i])
    BY <2>2, Orders, CleanUpKeeps
  <2> QED
    BY <1>2, <2>1, <2>2, CheckKeeps, WorkerKeeps DEF Client
<1>3. CASE CatchUp
  BY <1>3, CatchUpKeeps
<1>4. ASSUME NEW n \in Sessions, Operation(n) \/ WorkerDies(n)
      PROVE  DockerInv'
  <2>1. CASE ReturnLocal(n)
    BY <2>1, ReturnKeeps
  <2>2. CASE ReadRequest(n) \/ CheckUrl(n) \/ Ask(n) \/ Read(n) \/ WriteResponse(n) \/ WorkerDies(n)
    BY <2>2, ShrinkKeeps
       DEF ReadRequest, CheckUrl, Ask, Read, WriteResponse, WorkerDies, client, daemon
  <2> QED
    BY <1>4, <2>1, <2>2 DEF Operation
<1>5. CASE UNCHANGED vars
  BY <1>5, ShrinkKeeps DEF vars, client, daemon
<1> QED
  BY <1>1, <1>2, <1>3, <1>4, <1>5 DEF Next

\* Every step keeps what is known of the local backend.
LEMMA LocalKeeps == ASSUME DockerInv, LocalInv, [Next]_vars PROVE LocalInv'
<1>1. DOMAIN fetch' = Sessions
  BY DEF LocalInv, Next, vars, client, daemon, Begin, Client, CatchUp, Check, WriteRequest, SetUpStep,
         StartWorker, WorkerReturns, WorkerTimesOut, Collect, CleanUpStep, Operation, ReadRequest,
         CheckUrl, Ask, Read, Done, WriteResponse, ReturnLocal, WorkerDies
<1>2. backend' = backend
  BY DEF Next, vars, client, Begin, Client, CatchUp, Check, WriteRequest, SetUpStep,
         StartWorker, WorkerReturns, WorkerTimesOut, Collect, CleanUpStep, Operation, ReadRequest,
         CheckUrl, Ask, Read, Done, WriteResponse, ReturnLocal, WorkerDies, End, Goto, Respond
<1> SUFFICES ASSUME backend = "local"
             PROVE  /\ call'.at \in {"idle", "local"} /\ late' = {} /\ docker' = {}
                    /\ \A n \in Sessions : fetch'[n].at # "off" => Current(n)'
  BY <1>1, <1>2 DEF LocalInv
<1>3. /\ call.at \in {"idle", "local"} /\ late = {} /\ docker = {}
      /\ \A n \in Sessions : fetch[n].at # "off" => Current(n)
  BY DEF LocalInv
<1>4. CASE Begin
  <2>1. PICK asked : /\ call' = [at |-> "local", n |-> answer.n + 1, response |-> Failure]
                     /\ fetch' = [fetch EXCEPT ![answer.n + 1] =
                                     [at |-> "checking", host |-> asked.host, hops |-> 0]]
                     /\ call.at = "idle" /\ UNCHANGED daemon
    BY <1>4 DEF Begin
  <2>2. call'.at = "local" /\ call'.n = answer.n + 1
    BY <2>1
  <2>3. \A n \in Sessions : fetch'[n].at # "off" => n = answer.n + 1
    BY <1>3, <2>1 DEF Current, LocalInv
  <2> QED
    BY <1>3, <2>1, <2>2, <2>3 DEF Current, daemon
<1>5. CASE Client \/ CatchUp
  BY <1>3, <1>5, Orders
     DEF Client, CatchUp, Check, WriteRequest, SetUpStep, StartWorker, WorkerReturns,
         WorkerTimesOut, Collect, CleanUpStep, SetUpStages, CleanUpStages
<1>6. ASSUME NEW n \in Sessions, ReturnLocal(n)
      PROVE  /\ call'.at \in {"idle", "local"} /\ late' = {} /\ docker' = {}
             /\ \A m \in Sessions : fetch'[m].at # "off" => Current(m)'
  <2>1. fetch' = [fetch EXCEPT ![n] = Asleep] /\ call' = Idle /\ UNCHANGED daemon /\ fetch[n].at # "off"
    BY <1>6 DEF ReturnLocal, End, Working
  <2>2. \A m \in Sessions : fetch'[m].at = "off"
    BY <1>3, <2>1 DEF Current, Asleep, LocalInv
  <2> QED
    BY <1>3, <2>1, <2>2 DEF Idle, daemon
<1>7. ASSUME NEW n \in Sessions,
             ReadRequest(n) \/ CheckUrl(n) \/ Ask(n) \/ Read(n) \/ WriteResponse(n) \/ WorkerDies(n)
      PROVE  /\ call'.at \in {"idle", "local"} /\ late' = {} /\ docker' = {}
             /\ \A m \in Sessions : fetch'[m].at # "off" => Current(m)'
  <2>1. ~WriteResponse(n) /\ ~WorkerDies(n)
    BY <1>3 DEF WriteResponse, WorkerDies
  <2>2. /\ UNCHANGED <<client, daemon>> /\ fetch[n].at # "off"
        /\ \A m \in Sessions \ {n} : fetch'[m] = fetch[m]
    BY <1>7, <2>1 DEF ReadRequest, CheckUrl, Ask, Read, Done, Working, LocalInv
  <2> QED
    BY <1>3, <2>2 DEF client, daemon, Current
<1>8. CASE UNCHANGED vars
  BY <1>3, <1>8 DEF vars, client, daemon, Current
<1> QED
  BY <1>4, <1>5, <1>6, <1>7, <1>8 DEF Next, Operation

\* A session that is not the one of the call under way and left something in docker
\* is over.
LEMMA LeftIsOver ==
    ASSUME DockerInv, NEW n \in Sessions, NEW kind \in SetUpStages, <<n, kind>> \in docker, n # call.n
    PROVE  Excused(n, kind)
<1>1. ~Untouched(n) /\ ~Current(n)
  BY DEF Untouched, Current
<1>2. n \in Nat /\ answer.n \in Nat
  BY SessionsAreNumbers DEF DockerInv, Calling
<1>3. Clean(n)
  BY <1>1, <1>2 DEF DockerInv
<1> QED
  BY <1>3 DEF Clean, Owed

\* Whatever command of a call fails, the call leaves nothing but what a timeout or a
\* refused removal accounts for.
THEOREM NothingIsLeft == Spec => []NothingLeft
<1>1. Init => DockerInv /\ LocalInv
  BY DockerInit
<1>2. DockerInv /\ LocalInv /\ [Next]_vars => (DockerInv /\ LocalInv)'
  BY DockerKeeps, LocalKeeps
<1>3. DockerInv => NothingLeft
  <2> SUFFICES ASSUME DockerInv, NEW thing \in docker, thing[1] # call.n
               PROVE  Excused(thing[1], thing[2])
    BY DEF NothingLeft
  <2>1. PICK n \in Sessions, x \in SetUpStages : thing = <<n, x>>
    BY DEF DockerInv, Tracked
  <2>2. Excused(n, x)
    BY <2>1, LeftIsOver
  <2> QED
    BY <2>1, <2>2
<1> QED
  BY <1>1, <1>2, <1>3, PTL DEF Spec

----------------------------------------------------------------------------
(* The hosts a worker can ask.                                             *)

\* A call runs under the policy of the configuration, a search under that policy
\* and its own host.
Asked ==
    /\ policy \in NetworkPolicy
    /\ DOMAIN request = Sessions
    /\ \A n \in Sessions :
          \/ request[n].policy = policy
          \/ request[n].op = "web_search" /\ request[n].policy = PolicyWithSearchHost(policy, SearchHost)

\* At first no call has been asked for.
LEMMA AskedInit == Init => Asked
BY SandboxAssumption DEF Init, Asked, SandboxAssumption, Request

\* Every step keeps the policies of the calls.
LEMMA AskedKeeps == ASSUME Asked, [Next]_vars PROVE Asked'
<1>1. CASE Begin
  <2> PICK n : n = answer.n + 1
    OBVIOUS
  <2>1. PICK asked \in Requests(policy) : request' = [request EXCEPT ![n] = asked] /\ policy' = policy
    BY <1>1 DEF Begin
  <2>2. \/ asked.policy = policy
        \/ asked.op = "web_search" /\ asked.policy = PolicyWithSearchHost(policy, SearchHost)
    BY DEF Requests, Request
  <2> QED
    BY <2>1, <2>2 DEF Asked
<1>2. CASE UNCHANGED <<policy, request>>
  BY <1>2 DEF Asked
<1>3. Begin \/ UNCHANGED <<policy, request>>
  BY DEF Next, vars, client, Client, CatchUp, Check, WriteRequest, SetUpStep, StartWorker,
         WorkerReturns, WorkerTimesOut, Collect, CleanUpStep, Operation, ReadRequest, CheckUrl, Ask,
         Read, WriteResponse, ReturnLocal, WorkerDies, End, Goto, Respond
<1> QED
  BY <1>1, <1>2, <1>3

\* Only hosts of the configuration, or the search host for a search, are asked from
\* docker, and none by a worker that outlived its call and the proxy.
THEOREM WorkersAreConfined == Spec => WorkerConfined
<1> DEFINE confined(c) ==
        backend = "docker" =>
            /\ \/ ListsAdmit(c[2], policy)
               \/ /\ request[c[1]].op = "web_search" /\ c[2] = SearchHost
                  /\ ~HostMatchesAny(SearchHost, policy.denied)
            /\ c[1] = call.n \/ Excused(c[1], "link")
<1>1. Init => DockerInv /\ LocalInv /\ Asked
  BY DockerInit, AskedInit
<1>2. DockerInv /\ LocalInv /\ Asked /\ [Next]_vars => (DockerInv /\ LocalInv /\ Asked)'
  BY DockerKeeps, LocalKeeps, AskedKeeps
<1>3. ASSUME DockerInv, Asked, [Next]_vars, NEW c \in contacted' \ contacted, backend = "docker"
      PROVE  /\ \/ ListsAdmit(c[2], policy)
                \/ /\ request[c[1]].op = "web_search" /\ c[2] = SearchHost
                   /\ ~HostMatchesAny(SearchHost, policy.denied)
             /\ c[1] = call.n \/ Excused(c[1], "link")
  <2>1. PICK n \in Sessions : Ask(n)
    BY <1>3 DEF Next, vars, client, daemon, Begin, Client, CatchUp, Check, WriteRequest, SetUpStep, StartWorker,
                WorkerReturns, WorkerTimesOut, Collect, CleanUpStep, Operation, ReadRequest, CheckUrl,
                Read, WriteResponse, ReturnLocal, WorkerDies
  <2>2. PICK host : host = fetch[n].host
    OBVIOUS
  <2>3. contacted' = contacted \cup {<<n, host>>} /\ ProxyAdmits(n, host)
    BY <1>3, <2>1, <2>2 DEF Ask
  <2>4. c = <<n, host>>
    BY <1>3, <2>3
  <2>5. ListsAdmit(host, request[n].policy) /\ <<n, "link">> \in docker
    BY <2>3 DEF ProxyAdmits, ProxyServes, HostAllowed
  <2>6. n = call.n \/ Excused(n, "link")
    BY <1>3, <2>5, LeftIsOver DEF SetUpStages
  <2>7. \/ ListsAdmit(host, policy)
        \/ /\ request[n].op = "web_search" /\ host = SearchHost
           /\ ~HostMatchesAny(SearchHost, policy.denied)
    <3>1. CASE request[n].policy = policy
      BY <2>5, <3>1
    <3>2. CASE request[n].op = "web_search" /\ request[n].policy = PolicyWithSearchHost(policy, SearchHost)
      <4>1. policy \in NetworkPolicy
        BY <1>3 DEF Asked
      <4>2. host = SearchHost \/ ListsAdmit(host, policy)
        BY <2>5, <3>2, <4>1, SearchWidensByItsHost
      <4>3. ListsAdmit(SearchHost, PolicyWithSearchHost(policy, SearchHost)) =>
                ~HostMatchesAny(SearchHost, policy.denied)
        BY <4>1 DEF ListsAdmit, PolicyWithSearchHost, NetworkPolicy
      <4> QED
        BY <2>5, <3>2, <4>2, <4>3
    <3> QED
      BY <1>3, <3>1, <3>2 DEF Asked
  <2> QED
    BY <2>4, <2>6, <2>7
<1>4. DockerInv /\ Asked /\ [Next]_vars => [\A c \in contacted' \ contacted : confined(c)]_vars
  BY <1>3
<1> QED
  BY <1>1, <1>2, <1>4, PTL DEF Spec, WorkerConfined

----------------------------------------------------------------------------
(* What web_fetch shows.                                                   *)

\* A result of session n is a failure, or that of a page the policy admits.
Admitted(result, n) ==
    result.ok /\ request[n].op = "web_fetch" => HostAllowed(result.from, policy)

\* A session that has not begun runs nothing and has no response.
Fresh == \A n \in Sessions :
    n > answer.n /\ ~Current(n) => fetch[n].at = "off" /\ response[n].at = "absent"

\* Wherever the result of a fetch is on its way, it is one that may be shown.
Results ==
    /\ DOMAIN request = Sessions /\ DOMAIN response = Sessions
    /\ \A n \in Sessions :
          /\ request[n].op = "web_fetch" => request[n].policy = policy
          /\ "at" \in DOMAIN fetch[n]
          /\ fetch[n].at = "result" => Admitted(fetch[n].result, n)
          /\ response[n].at = "written" => Admitted(response[n].result, n)
    /\ call.at # "idle" => Admitted(call.response, call.n)
    /\ Admitted(answer.result, answer.n)

ShownInv == Fresh /\ Results

\* A failure shows no page.
LEMMA FailureIsAdmitted == \A n : Admitted(Failure, n)
BY DEF Admitted, Failure

\* At first nothing is shown.
LEMMA ShownInit == Init => ShownInv
<1> SUFFICES ASSUME Init PROVE ShownInv
  OBVIOUS
<1>1. /\ DOMAIN request = Sessions /\ DOMAIN response = Sessions /\ call.at = "idle"
      /\ \A n \in Sessions : /\ request[n].policy = policy /\ fetch[n] = Asleep
                             /\ response[n].at = "absent"
      /\ answer.result = Failure
  BY DEF Init, Request, Idle
<1> QED
  BY <1>1, FailureIsAdmitted DEF ShownInv, Fresh, Results, Asleep

\* A step of the operation of session n, or the end of its worker.
LEMMA WorkShows ==
    ASSUME DockerInv, LocalInv, ShownInv, NEW n \in Sessions,
           UNCHANGED client, ~(n > answer.n /\ ~Current(n)),
           DOMAIN response' = Sessions,
           \A m \in Sessions \ {n} : fetch'[m] = fetch[m] /\ response'[m] = response[m],
           "at" \in DOMAIN fetch'[n],
           fetch'[n].at = "result" => Admitted(fetch'[n].result, n),
           response'[n].at = "written" => Admitted(response'[n].result, n)
    PROVE  ShownInv'
<1>1. UNCHANGED <<policy, call, answer, request>>
  BY DEF client
<1>2. Fresh'
  <2>1. ASSUME NEW m \in Sessions, m > answer.n, ~Current(m)
        PROVE  fetch'[m].at = "off" /\ response'[m].at = "absent"
    <3>1. m # n
      BY <2>1
    <3> QED
      BY <2>1, <3>1 DEF ShownInv, Fresh
  <2> QED
    BY <1>1, <2>1 DEF Fresh, Current
<1>3. Results'
  <2>1. ASSUME NEW m \in Sessions
        PROVE  /\ "at" \in DOMAIN fetch'[m]
               /\ fetch'[m].at = "result" => Admitted(fetch'[m].result, m)
               /\ response'[m].at = "written" => Admitted(response'[m].result, m)
    BY DEF ShownInv, Results
  <2>2. /\ DOMAIN request = Sessions
        /\ \A m \in Sessions : request[m].op = "web_fetch" => request[m].policy = policy
        /\ call.at # "idle" => Admitted(call.response, call.n)
        /\ Admitted(answer.result, answer.n)
    BY DEF ShownInv, Results
  <2> QED
    BY <1>1, <2>1, <2>2 DEF Results, Admitted
<1> QED
  BY <1>2, <1>3 DEF ShownInv

\* A worker writes only what came from a host that was admitted.
LEMMA OperationShows ==
    ASSUME DockerInv, LocalInv, ShownInv, NEW n \in Sessions,
           \/ ReadRequest(n) \/ CheckUrl(n) \/ Ask(n) \/ Read(n)
           \/ WriteResponse(n) \/ WorkerDies(n)
    PROVE  ShownInv'
<1>1. /\ DOMAIN fetch = Sessions /\ DOMAIN response = Sessions /\ "at" \in DOMAIN fetch[n]
      /\ request[n].op = "web_fetch" => request[n].policy = policy
      /\ fetch[n].at = "result" => Admitted(fetch[n].result, n)
      /\ response[n].at = "written" => Admitted(response[n].result, n)
  BY DEF LocalInv, ShownInv, Results
<1>2. /\ UNCHANGED client
      /\ \A m \in Sessions \ {n} : fetch'[m] = fetch[m] /\ response'[m] = response[m]
      /\ DOMAIN response' = Sessions
  BY <1>1 DEF ReadRequest, CheckUrl, Ask, Read, Done, WriteResponse, WorkerDies, client
<1>3. ~(n > answer.n /\ ~Current(n))
  <2>1. fetch[n].at # "off" \/ <<n, "worker">> \in docker
    BY DEF ReadRequest, CheckUrl, Ask, Read, WriteResponse, WorkerDies, Working
  <2>2. n > answer.n /\ ~Current(n) => fetch[n].at = "off" /\ Untouched(n)
    BY DEF ShownInv, Fresh, DockerInv
  <2> QED
    BY <2>1, <2>2 DEF Untouched
<1>4. ASSUME NEW result, Done(n, result), Admitted(result, n)
      PROVE  "at" \in DOMAIN fetch'[n] /\ (fetch'[n].at = "result" => Admitted(fetch'[n].result, n))
  BY <1>1, <1>4 DEF Done
<1>5. Admitted(Failure, n) /\ (request[n].op # "web_fetch" => \A result : Admitted(result, n))
  BY FailureIsAdmitted DEF Admitted
<1>6. "at" \in DOMAIN fetch'[n] /\ (fetch'[n].at = "result" => Admitted(fetch'[n].result, n))
  <2>1. CASE ReadRequest(n)
    <3>1. CASE Done(n, Failure)
      BY <1>4, <1>5, <3>1
    <3>2. CASE fetch' = [fetch EXCEPT ![n] = [at |-> "checking", host |-> request[n].host, hops |-> 0]]
      BY <1>1, <3>2
    <3> QED
      BY <2>1, <3>1, <3>2 DEF ReadRequest
  <2>2. CASE CheckUrl(n)
    <3>1. CASE Done(n, Failure)
      BY <1>4, <1>5, <3>1
    <3>2. CASE request[n].op = "sandbox_run" /\ Done(n, Ran)
      BY <1>4, <1>5, <3>2
    <3>3. CASE \E host \in Hosts : fetch' = [fetch EXCEPT ![n].at = "asking", ![n].host = host]
      BY <1>1, <3>3
    <3>4. CASE fetch' = [fetch EXCEPT ![n].at = "asking"]
      BY <1>1, <3>4
    <3> QED
      BY <2>2, <3>1, <3>2, <3>3, <3>4 DEF CheckUrl
  <2>3. CASE Ask(n)
    <3>1. fetch[n].at = "asking"
      BY <2>3 DEF Ask, Working
    <3>2. CASE Done(n, Failure)
      BY <1>4, <1>5, <3>2
    <3>3. CASE fetch' = [fetch EXCEPT ![n].at = "arrived"]
      BY <1>1, <3>3
    <3>4. CASE fetch' = [fetch EXCEPT ![n].host = Sites[fetch[n].host].to, ![n].hops = @ + 1]
      BY <1>1, <3>1, <3>4
    <3> QED
      BY <2>3, <3>2, <3>3, <3>4 DEF Ask
  <2>4. CASE Read(n)
    <3> DEFINE host == fetch[n].host
               arriving == Arriving(n, Sites[host])
               limit == ByteLimit(n)
               page == [ok |-> TRUE, from |-> host,
                        bytes |-> IF arriving > limit THEN limit ELSE arriving,
                        truncated |-> arriving > limit]
    <3>1. page.from = host
      OBVIOUS
    <3> HIDE DEF page
    <3>2. CASE Done(n, Failure)
      BY <1>4, <1>5, <3>2
    <3>3. CASE request[n].op = "web_fetch" /\ FinalAllowed(n, host) /\ Done(n, page)
      <4>1. HostAllowed(page.from, policy)
        BY <1>1, <3>1, <3>3 DEF FinalAllowed
      <4>2. Admitted(page, n)
        BY <4>1 DEF Admitted
      <4> QED
        BY <1>4, <3>3, <4>2
    <3>4. CASE request[n].op = "web_search" /\ Done(n, page)
      BY <1>4, <1>5, <3>4
    <3>5. CASE request[n].op = "sandbox_run" /\ Done(n, Ran)
      BY <1>4, <1>5, <3>5
    <3> QED
      BY <2>4, <3>2, <3>3, <3>4, <3>5 DEF Read, page
  <2>5. CASE WriteResponse(n)
    <3>1. CASE fetch' = fetch
      BY <1>1, <3>1
    <3>2. CASE fetch' = [fetch EXCEPT ![n] = Asleep]
      BY <1>1, <3>2 DEF Asleep
    <3> QED
      BY <2>5, <3>1, <3>2 DEF WriteResponse
  <2>6. CASE WorkerDies(n)
    BY <1>1, <2>6 DEF WorkerDies, Asleep
  <2> QED
    BY <2>1, <2>2, <2>3, <2>4, <2>5, <2>6
<1>7. response'[n].at = "written" => Admitted(response'[n].result, n)
  <2>1. CASE WriteResponse(n)
    <3>1. fetch[n].at = "result" /\ Admitted(fetch[n].result, n)
      BY <1>1, <2>1 DEF WriteResponse, Working
    <3>2. CASE response' = [response EXCEPT ![n] = [at |-> "begun"]]
      BY <1>1, <3>2
    <3>3. CASE response' = [response EXCEPT ![n] = [at |-> "written", result |-> fetch[n].result]]
      BY <1>1, <3>1, <3>3
    <3> QED
      BY <2>1, <3>2, <3>3 DEF WriteResponse
  <2>2. CASE response' = response
    BY <1>1, <2>2
  <2> QED
    BY <2>1, <2>2 DEF ReadRequest, CheckUrl, Ask, Read, WorkerDies, client
<1> QED
  BY <1>2, <1>3, <1>6, <1>7, WorkShows

\* A late command shows nothing.
LEMMA CatchUpShows == ASSUME DockerInv, LocalInv, ShownInv, CatchUp PROVE ShownInv'
<1>1. PICK e \in late : /\ UNCHANGED <<client, response>>
                        /\ \/ fetch' = fetch
                           \/ /\ e[2] = "worker"
                              /\ fetch' = [fetch EXCEPT ![e[1]] = [at |-> "reading"]]
  BY DEF CatchUp
<1>2. e[1] \in Sessions /\ slips[e[1]] # {} /\ DOMAIN fetch = Sessions
  BY DEF DockerInv, Tracked, LocalInv
<1>3. ~(e[1] > answer.n /\ ~Current(e[1]))
  BY <1>2 DEF DockerInv, Untouched
<1>4. /\ DOMAIN response = Sessions
      /\ "at" \in DOMAIN fetch[e[1]]
      /\ fetch[e[1]].at = "result" => Admitted(fetch[e[1]].result, e[1])
      /\ response[e[1]].at = "written" => Admitted(response[e[1]].result, e[1])
  BY <1>2 DEF ShownInv, Results
<1>5. /\ \A m \in Sessions \ {e[1]} : fetch'[m] = fetch[m]
      /\ "at" \in DOMAIN fetch'[e[1]]
      /\ fetch'[e[1]].at = "result" => Admitted(fetch'[e[1]].result, e[1])
  BY <1>1, <1>2, <1>4
<1> QED
  BY <1>1, <1>2, <1>3, <1>4, <1>5, WorkShows

\* A step of the client in the call under way.
LEMMA CallShows ==
    ASSUME DockerInv, LocalInv, ShownInv, call.at # "idle",
           UNCHANGED <<policy, request, response>>,
           \/ fetch' = fetch
           \/ \E value : "at" \in DOMAIN value /\ value.at # "result"
                            /\ fetch' = [fetch EXCEPT ![call.n] = value],
           NEW result, Admitted(result, call.n),
           \/ \E s : call' = [call EXCEPT !.at = s] /\ s \in Stages /\ answer' = answer
           \/ call' = [call EXCEPT !.at = "rm_proxy", !.response = result] /\ answer' = answer
           \/ answer' = [n |-> call.n, result |-> result] /\ call' = Idle
    PROVE  ShownInv'
<1>1. /\ call.n = answer.n + 1 /\ call.n \in Sessions /\ DOMAIN call = CallFields
      /\ answer.n \in Nat /\ DOMAIN fetch = Sessions
  BY DEF DockerInv, Calling, Idle, LocalInv
<1>2. /\ DOMAIN request = Sessions /\ DOMAIN response = Sessions
      /\ \A m \in Sessions :
            /\ request[m].op = "web_fetch" => request[m].policy = policy
            /\ "at" \in DOMAIN fetch[m]
            /\ fetch[m].at = "result" => Admitted(fetch[m].result, m)
            /\ response[m].at = "written" => Admitted(response[m].result, m)
      /\ Admitted(call.response, call.n) /\ Admitted(answer.result, answer.n)
  BY DEF ShownInv, Results
<1>3. \A m \in Sessions : /\ "at" \in DOMAIN fetch'[m]
                          /\ fetch'[m].at = "result" => Admitted(fetch'[m].result, m)
                          /\ m # call.n => fetch'[m] = fetch[m]
  BY <1>1, <1>2
<1>4. /\ call'.at # "idle" => /\ call'.n = call.n /\ Admitted(call'.response, call.n)
                              /\ answer' = answer
      /\ call'.at = "idle" => answer'.n = call.n /\ Admitted(answer'.result, call.n)
      /\ call'.at # "idle" \/ answer'.n = call.n
  <2>1. ASSUME NEW s \in Stages, call' = [call EXCEPT !.at = s], answer' = answer
        PROVE  call'.at = s /\ s # "idle" /\ call'.n = call.n /\ call'.response = call.response
    BY <1>1, <2>1 DEF CallFields, Stages, Before, SetUpStages, CleanUpStages
  <2>2. CASE call' = [call EXCEPT !.at = "rm_proxy", !.response = result] /\ answer' = answer
    BY <1>1, <2>2 DEF CallFields
  <2>3. CASE answer' = [n |-> call.n, result |-> result] /\ call' = Idle
    BY <2>3 DEF Idle
  <2> QED
    BY <1>2, <2>1, <2>2, <2>3
<1>5. Fresh'
  <2>1. ASSUME NEW m \in Sessions, m > answer'.n, ~(call'.at # "idle" /\ m = call'.n)
        PROVE  m # call.n /\ m > answer.n
    <3>1. m \in Nat
      BY SessionsAreNumbers
    <3> QED
      BY <1>1, <1>4, <2>1, <3>1
  <2> QED
    BY <1>3, <2>1 DEF ShownInv, Fresh, Current
<1>6. Results'
  <2>1. Admitted(answer'.result, answer'.n)
    BY <1>2, <1>4
  <2>2. call'.at # "idle" => Admitted(call'.response, call'.n)
    BY <1>4
  <2> QED
    BY <1>2, <1>3, <2>1, <2>2 DEF Results, Admitted
<1> QED
  BY <1>5, <1>6 DEF ShownInv

\* The client shows what the response of its own session holds.
LEMMA ClientShows == ASSUME DockerInv, LocalInv, ShownInv, Client PROVE ShownInv'
<1>1. call.at # "idle" /\ UNCHANGED <<policy, request, response>> /\ call.n \in Sessions
  <2>1. call.at # "idle"
    BY Orders DEF Client, Check, WriteRequest, StartWorker, WorkerReturns, WorkerTimesOut, Collect,
                  SetUpStep, CleanUpStep, SetUpStages, CleanUpStages
  <2>2. UNCHANGED <<policy, request, response>>
    BY DEF Client, Check, WriteRequest, StartWorker, WorkerReturns, WorkerTimesOut, Collect,
           SetUpStep, CleanUpStep, End, Goto, Respond
  <2> QED
    BY <2>1, <2>2, Underway
<1>2. \/ fetch' = fetch
      \/ fetch' = [fetch EXCEPT ![call.n] = [at |-> "reading"]]
  BY DEF Client, Check, WriteRequest, StartWorker, WorkerReturns, WorkerTimesOut, Collect,
         SetUpStep, CleanUpStep
<1>3. \/ fetch' = fetch
      \/ \E value : "at" \in DOMAIN value /\ value.at # "result"
                       /\ fetch' = [fetch EXCEPT ![call.n] = value]
  <2>1. "at" \in DOMAIN [at |-> "reading"] /\ [at |-> "reading"].at # "result"
    OBVIOUS
  <2> QED
    BY <1>2, <2>1
<1>4. /\ Admitted(Failure, call.n) /\ Admitted(call.response, call.n)
      /\ response[call.n].at = "written" => Admitted(response[call.n].result, call.n)
  BY <1>1, FailureIsAdmitted DEF ShownInv, Results
<1>5. PICK result : /\ Admitted(result, call.n)
                    /\ \/ \E s \in Stages : Goto(s)
                       \/ Respond(result) \/ End(result)
  <2>1. CASE Check \/ WriteRequest
    BY <1>4, <2>1, Orders DEF Check, WriteRequest, Stages, Before, SetUpStages
  <2>2. CASE StartWorker \/ WorkerReturns \/ WorkerTimesOut
    BY <1>4, <2>2 DEF StartWorker, WorkerReturns, WorkerTimesOut, Stages
  <2>3. CASE Collect
    BY <1>4, <2>3 DEF Collect
  <2>4. ASSUME NEW s \in SetUpStages, SetUpStep(s)
        PROVE  (\E t \in Stages : Goto(t)) \/ Respond(Failure)
    BY <2>4, Orders DEF SetUpStep, Stages
  <2>5. ASSUME NEW s \in CleanUpStages, CleanUpStep(s)
        PROVE  (\E t \in Stages : Goto(t)) \/ End(call.response) \/ End(Failure)
    BY <2>5, Orders DEF CleanUpStep, Stages, CleanUpStages
  <2> QED
    BY <1>4, <2>1, <2>2, <2>3, <2>4, <2>5, Orders DEF Client
<1>6. \/ \E s : call' = [call EXCEPT !.at = s] /\ s \in Stages /\ answer' = answer
      \/ call' = [call EXCEPT !.at = "rm_proxy", !.response = result] /\ answer' = answer
      \/ answer' = [n |-> call.n, result |-> result] /\ call' = Idle
  BY <1>5, Orders DEF Goto, Respond, End
<1> QED
  BY <1>1, <1>3, <1>5, <1>6, CallShows

\* A call starts with no response.
LEMMA BeginShows == ASSUME DockerInv, LocalInv, ShownInv, Begin PROVE ShownInv'
<1>0. PICK n : n = answer.n + 1
  OBVIOUS
<1>1. PICK asked \in Requests(policy) :
         /\ n = answer.n + 1 /\ call.at = "idle" /\ answer.n < MaxCalls
         /\ request' = [request EXCEPT ![n] = asked]
         /\ call' = [at |-> IF backend = "docker" THEN "info" ELSE "local", n |-> n,
                     response |-> Failure]
         /\ fetch' = IF backend = "docker" THEN fetch
                     ELSE [fetch EXCEPT ![n] = [at |-> "checking", host |-> asked.host, hops |-> 0]]
         /\ UNCHANGED <<policy, answer, response>>
  BY <1>0 DEF Begin
<1>2. answer.n \in Nat /\ n \in Sessions /\ n > answer.n /\ ~Current(n) /\ answer.n # n
  BY <1>1, SandboxAssumption DEF DockerInv, Calling, Sessions, Current
<1>3. asked.op = "web_fetch" => asked.policy = policy
  BY DEF Requests, Request
<1>4. /\ DOMAIN request = Sessions /\ DOMAIN response = Sessions /\ DOMAIN fetch = Sessions
      /\ \A m \in Sessions :
            /\ request[m].op = "web_fetch" => request[m].policy = policy
            /\ "at" \in DOMAIN fetch[m]
            /\ fetch[m].at = "result" => Admitted(fetch[m].result, m)
            /\ response[m].at = "written" => Admitted(response[m].result, m)
      /\ Admitted(answer.result, answer.n)
  BY DEF ShownInv, Results, LocalInv
<1>5. fetch[n].at = "off" /\ response[n].at = "absent"
  BY <1>2 DEF ShownInv, Fresh
<1>6. /\ call'.at # "idle" /\ call'.n = n /\ call'.response = Failure
      /\ request'[n] = asked /\ DOMAIN request' = Sessions
      /\ \A m : m # n => request'[m] = request[m]
  BY <1>1, <1>2, <1>4
<1>7. \A m \in Sessions : /\ "at" \in DOMAIN fetch'[m] /\ (m # n => fetch'[m] = fetch[m])
                          /\ m = n => fetch'[m].at # "result"
  BY <1>1, <1>2, <1>4, <1>5
<1>8. Fresh'
  BY <1>1, <1>2, <1>6, <1>7 DEF ShownInv, Fresh, Current
<1>9. Results'
  <2>1. ASSUME NEW m \in Sessions
        PROVE  /\ request'[m].op = "web_fetch" => request'[m].policy = policy
               /\ fetch'[m].at = "result" /\ request'[m].op = "web_fetch" /\ fetch'[m].result.ok =>
                      HostAllowed(fetch'[m].result.from, policy)
               /\ response[m].at = "written" /\ request'[m].op = "web_fetch" /\ response[m].result.ok =>
                      HostAllowed(response[m].result.from, policy)
    <3>1. CASE m = n
      BY <1>3, <1>5, <1>6, <1>7, <3>1
    <3>2. CASE m # n
      BY <1>4, <1>6, <1>7, <2>1, <3>2 DEF Admitted
    <3> QED
      BY <3>1, <3>2
  <2>2. answer.result.ok /\ request'[answer.n].op = "web_fetch" => HostAllowed(answer.result.from, policy)
    BY <1>2, <1>4, <1>6 DEF Admitted
  <2>3. call'.response.ok = FALSE
    BY <1>6 DEF Failure
  <2> QED
    BY <1>1, <1>4, <1>6, <1>7, <2>1, <2>2, <2>3 DEF Results, Admitted
<1> QED
  BY <1>8, <1>9 DEF ShownInv

\* The local backend answers what its own operation has read.
LEMMA ReturnShows ==
    ASSUME DockerInv, LocalInv, ShownInv, NEW n \in Sessions, ReturnLocal(n)
    PROVE  ShownInv'
<1>1. n = call.n /\ call.at # "idle" /\ fetch[n].at = "result"
  BY DEF ReturnLocal, Working, LocalInv, Current
<1>2. Admitted(fetch[n].result, n)
  BY <1>1 DEF ShownInv, Results
<1>3. /\ UNCHANGED <<policy, request, response>>
      /\ answer' = [n |-> call.n, result |-> fetch[n].result] /\ call' = Idle
      /\ fetch' = [fetch EXCEPT ![n] = Asleep]
  BY DEF ReturnLocal, End
<1>4. "at" \in DOMAIN Asleep /\ Asleep.at # "result"
  BY DEF Asleep
<1> QED
  BY <1>1, <1>2, <1>3, <1>4, CallShows

\* Every step keeps what is known of results.
LEMMA ShownKeeps == ASSUME DockerInv, LocalInv, ShownInv, [Next]_vars PROVE ShownInv'
<1>1. ASSUME NEW n \in Sessions, Operation(n) \/ WorkerDies(n)
      PROVE  ShownInv'
  BY <1>1, OperationShows, ReturnShows DEF Operation
<1>2. CASE UNCHANGED vars
  <2>1. UNCHANGED <<policy, call, answer, request, fetch, response>>
    BY <1>2 DEF vars, client
  <2> QED
    BY <2>1 DEF ShownInv, Fresh, Results, Admitted, Current
<1> QED
  BY <1>1, <1>2, BeginShows, ClientShows, CatchUpShows DEF Next

\* A page that web_fetch shows comes from a host the policy of the configuration
\* admits, through either backend and whichever way redirections led.
THEOREM ShownIsAllowed == Spec => []ShownAllowed
<1>1. Init => DockerInv /\ LocalInv /\ ShownInv
  BY DockerInit, ShownInit
<1>2. DockerInv /\ LocalInv /\ ShownInv /\ [Next]_vars => (DockerInv /\ LocalInv /\ ShownInv)'
  BY DockerKeeps, LocalKeeps, ShownKeeps
<1>3. ShownInv => ShownAllowed
  BY DEF ShownInv, Results, Admitted, ShownAllowed, Shown
<1> QED
  BY <1>1, <1>2, <1>3, PTL DEF Spec
=============================================================================
