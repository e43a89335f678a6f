------------------------------ MODULE Sandbox ------------------------------
(***************************************************************************)
(* The sandbox of the web tools.  SandboxManager hands each call to one of *)
(* two backends.  "local" runs the operation in the client itself.         *)
(* "docker" makes, for every call anew, two networks, a filtering proxy on *)
(* both and a worker on the internal one, and takes them down again; each  *)
(* docker command is a process with a timeout of its own, after which the  *)
(* daemon may still do what it was asked.                                  *)
(*                                                                         *)
(* What docker holds of session n is a set of pairs <<n, thing>>: the two  *)
(* networks, the containers, and "link", the proxy on the internal network.*)
(***************************************************************************)
EXTENDS NetPolicy

CONSTANTS
    Sites,       \* [Hosts -> [to, https, size]]: where a host redirects to and what it serves
    NoHost,      \* no redirection
    SearchHost,  \* the host of web_search_base_url
    Policies,    \* of the configuration, members of NetworkPolicy
    Backends,    \* subset of {"local", "docker"}
    MaxBytes,    \* max_bytes of web_fetch, NoLimit when it is not given
    NoLimit,
    MaxHops,     \* bound: redirections urllib follows (10 in the library)
    MaxCalls     \* bound: calls

ASSUME SandboxAssumption ==
    /\ SearchHost \in Hosts /\ NoHost \notin Hosts
    /\ Policies \subseteq NetworkPolicy /\ Backends \subseteq {"local", "docker"}
    /\ Sites \in [Hosts -> [to : Hosts \cup {NoHost}, https : BOOLEAN, size : Nat]]
    /\ MaxHops \in Nat /\ MaxCalls \in Nat

VARIABLES
    backend, policy,  \* of the SandboxManager
    call,      \* the call under way: stage, session and the response so far
    answer,    \* the SandboxResponse, or the exception, the last call ended with
    request,   \* [session -> what is asked], request.json in docker
    docker,    \* what the daemon holds
    late,      \* commands the daemon may still carry out after their timeout
    slips,     \* history: [session -> its commands that ran into their timeout]
    refused,   \* history: [session -> its removals docker refused for reasons of its own]
    fetch,     \* [session -> the operation at work, in the worker or the client]
    response,  \* [session -> response.json]
    contacted  \* history: <<session, host>> of every request that left for a host

client == <<backend, policy, call, answer, request>>
daemon == <<docker, late, slips, refused>>
vars   == <<client, daemon, fetch, response, contacted>>

Sessions == 1 .. MaxCalls
Failure  == [ok |-> FALSE]
Idle     == [at |-> "idle", n |-> 0]
Asleep   == [at |-> "off"]

----------------------------------------------------------------------------
(* The docker daemon.                                                      *)

\* What each command of DockerSandboxBackend.run needs and leaves.
Possible(d, stage, n) ==
    CASE stage = "proxy"       -> <<n, "egress">> \in d
      [] stage = "link"        -> {<<n, "proxy">>, <<n, "internal">>} \subseteq d
      [] stage = "worker"      -> <<n, "internal">> \in d
      [] stage = "rm_internal" -> {<<n, "link">>, <<n, "worker">>} \cap d = {}
      [] stage = "rm_egress"   -> <<n, "proxy">> \notin d
      [] OTHER                 -> TRUE
Effect(d, stage, n) ==
    CASE stage = "rm_proxy"    -> d \ {<<n, "proxy">>, <<n, "link">>}
      [] stage = "rm_internal" -> d \ {<<n, "internal">>}
      [] stage = "rm_egress"   -> d \ {<<n, "egress">>}
      [] OTHER                 -> d \cup {<<n, stage>>}

\* The proxy serves once its container runs with a policy it can read.
ProxyServes(n) == {<<n, "proxy">>, <<n, "link">>} \subseteq docker /\ PolicyParses(request[n].policy)

SetUp == <<"egress", "internal", "proxy", "link", "worker">>

\* Mutation: the networks are removed while the proxy is still on them.
CleanUp_NetworksFirst == <<"rm_internal", "rm_egress", "rm_proxy">>

\* The finally of run().
CleanUp == <<"rm_proxy", "rm_internal", "rm_egress">>

After(stages, stage) == stages[1 + CHOOSE i \in DOMAIN stages : stages[i] = stage]
IsLast(stages, stage) == stage = Last(stages)

\* _run_docker gives up waiting; what it asked for happens now, later or never.
TimesOut(stage, n) ==
    /\ slips' = [slips EXCEPT ![n] = @ \cup {stage}] /\ UNCHANGED refused
    /\ \/ Possible(docker, stage, n) /\ docker' = Effect(docker, stage, n) /\ UNCHANGED late
       \/ late' = late \cup {<<n, stage>>} /\ UNCHANGED docker

\* The daemon gets round to a command nobody waits for any more.
CatchUp ==
    \E e \in late :
        /\ late' = late \ {e}
        /\ docker' = IF Possible(docker, e[2], e[1]) THEN Effect(docker, e[2], e[1]) ELSE docker
        /\ fetch' = IF e[2] = "worker" /\ <<e[1], "worker">> \in docker' \ docker
                    THEN [fetch EXCEPT ![e[1]] = [at |-> "reading"]] ELSE fetch
        /\ UNCHANGED <<client, slips, refused, response, contacted>>

----------------------------------------------------------------------------
(* The client.                                                             *)

Request(op, host, max, used) == [op |-> op, host |-> host, max |-> max, policy |-> used]
Requests(used) ==
    {Request("web_fetch", h, m, used) : h \in Hosts, m \in MaxBytes}
        \cup {Request("web_search", SearchHost, NoLimit, PolicyWithSearchHost(used, SearchHost)),
              Request("sandbox_run", NoHost, NoLimit, used)}

\* SandboxManager.web_fetch, web_search and sandbox_run.
Begin ==
    /\ call.at = "idle" /\ answer.n < MaxCalls
    /\ \E asked \in Requests(policy) :
        LET n == answer.n + 1
        IN  /\ request' = [request EXCEPT ![n] = asked]
            /\ call' = [at |-> IF backend = "docker" THEN "info" ELSE "local", n |-> n,
                        response |-> Failure]
            /\ fetch' = IF backend = "docker" THEN fetch
                        ELSE [fetch EXCEPT ![n] = [at |-> "checking", host |-> asked.host, hops |-> 0]]
    /\ UNCHANGED <<backend, policy, answer, daemon, response, contacted>>

End(result) ==
    /\ answer' = [n |-> call.n, result |-> result]
    /\ call' = Idle
    /\ UNCHANGED <<backend, policy, request>>
Goto(stage) == call' = [call EXCEPT !.at = stage] /\ UNCHANGED <<backend, policy, answer, request>>
Respond(result) ==
    /\ call' = [call EXCEPT !.at = CleanUp[1], !.response = result]
    /\ UNCHANGED <<backend, policy, answer, request>>

\* No docker, no daemon, no image: nothing is made.  A command that outlives its
\* timeout raises here, before the try.
Check ==
    /\ call.at \in {"info", "image"}
    /\ \/ Goto(IF call.at = "info" THEN "image" ELSE "request")
       \/ End(Failure)
    /\ UNCHANGED <<daemon, fetch, response, contacted>>

\* The directory of the session and request.json, still before the try.
WriteRequest ==
    /\ call.at = "request"
    /\ Goto(SetUp[1]) \/ End(Failure)
    /\ UNCHANGED <<daemon, fetch, response, contacted>>

SetUpStep(stage) ==
    /\ call.at = stage /\ stage # "worker"
    /\ \/ /\ Possible(docker, stage, call.n)
          /\ docker' = Effect(docker, stage, call.n)
          /\ UNCHANGED <<late, slips, refused>>
          /\ Goto(After(SetUp, stage))
       \/ Respond(Failure) /\ UNCHANGED daemon
       \/ TimesOut(stage, call.n) /\ Respond(Failure)
    /\ UNCHANGED <<fetch, response, contacted>>

\* docker run of the worker, in the foreground and unchecked.
StartWorker ==
    /\ call.at = "worker"
    /\ \/ /\ Possible(docker, "worker", call.n)
          /\ docker' = Effect(docker, "worker", call.n)
          /\ fetch' = [fetch EXCEPT ![call.n] = [at |-> "reading"]]
          /\ UNCHANGED <<late, slips, refused>> /\ Goto("running")
       \/ UNCHANGED <<daemon, fetch>> /\ Goto("collect")
       \/ /\ late' = late \cup {<<call.n, "worker">>}
          /\ slips' = [slips EXCEPT ![call.n] = @ \cup {"worker"}]
          /\ UNCHANGED <<docker, refused, fetch>> /\ Respond(Failure)
    /\ UNCHANGED <<response, contacted>>

WorkerReturns ==
    /\ call.at = "running" /\ <<call.n, "worker">> \notin docker
    /\ Goto("collect")
    /\ UNCHANGED <<daemon, fetch, response, contacted>>

\* Mutation: the command that runs the worker is waited for without limit.
HasTimeout_NotWorker(stage) == stage # "running"

\* Every command of _run_docker has a timeout.
HasTimeout(stage) == TRUE

\* Mutation: the finally is forgotten when the worker runs into its timeout.
WorkerTimesOut_NoFinally ==
    /\ call.at = "running"
    /\ slips' = [slips EXCEPT ![call.n] = @ \cup {"worker"}]
    /\ End(Failure)
    /\ UNCHANGED <<docker, late, refused, fetch, response, contacted>>

\* The timeout ends the docker command, not the container.
WorkerTimesOut ==
    /\ call.at = "running" /\ HasTimeout("running")
    /\ slips' = [slips EXCEPT ![call.n] = @ \cup {"worker"}]
    /\ Respond(Failure)
    /\ UNCHANGED <<docker, late, refused, fetch, response, contacted>>

\* response.json is read when it is there and is JSON.
Collect ==
    /\ call.at = "collect"
    /\ Respond(IF response[call.n].at = "written" THEN response[call.n].result ELSE Failure)
    /\ UNCHANGED <<daemon, fetch, response, contacted>>

\* One command of the finally, unchecked.  docker carries it out, or refuses it
\* because of what is in its way or for a reason of its own, and either way the
\* next one follows; only a timeout raises and leaves the rest undone.
CleanUpStep(stage) ==
    /\ call.at = stage
    /\ \/ /\ \/ /\ docker' = IF Possible(docker, stage, call.n)
                              THEN Effect(docker, stage, call.n) ELSE docker
                /\ UNCHANGED refused
             \/ /\ refused' = [refused EXCEPT ![call.n] = @ \cup {stage}]
                /\ UNCHANGED docker
          /\ UNCHANGED <<late, slips>>
          /\ IF IsLast(CleanUp, stage) THEN End(call.response) ELSE Goto(After(CleanUp, stage))
       \/ TimesOut(stage, call.n) /\ End(Failure)
    /\ UNCHANGED <<fetch, response, contacted>>

----------------------------------------------------------------------------
(* The operation: run_operation, in the worker of session n or, with the   *)
(* local backend, in the client.                                           *)

Working(n, at) == fetch[n].at = at
Ran == [ok |-> TRUE, from |-> NoHost, bytes |-> 0, truncated |-> FALSE]
Done(n, result) == fetch' = [fetch EXCEPT ![n] = [at |-> "result", result |-> result]]

\* run_request parses the request and the policy in it.
ReadRequest(n) ==
    /\ Working(n, "reading")
    /\ IF PolicyParses(request[n].policy)
       THEN fetch' = [fetch EXCEPT ![n] = [at |-> "checking", host |-> request[n].host, hops |-> 0]]
       ELSE Done(n, Failure)
    /\ UNCHANGED <<client, daemon, response, contacted>>

\* The first check of web_fetch and the check of web_search.  sandbox_run has
\* none: its command asks for what it likes.  In the worker a name may not resolve.
CheckUrl(n) ==
    /\ Working(n, "checking")
    /\ \/ request[n].op = "sandbox_run" /\ Done(n, Ran)
       \/ /\ request[n].op = "sandbox_run" /\ backend = "docker"
          /\ \E host \in Hosts : fetch' = [fetch EXCEPT ![n].at = "asking", ![n].host = host]
       \/ /\ request[n].op # "sandbox_run"
          /\ HostAllowed(fetch[n].host, request[n].policy)
          /\ fetch' = [fetch EXCEPT ![n].at = "asking"]
       \/ Done(n, Failure)
    /\ UNCHANGED <<client, daemon, response, contacted>>

\* Mutation: the proxy forwards whatever it is asked for.
ProxyAdmits_Any(n, host) == ProxyServes(n)

\* do_CONNECT and _forward_http
ProxyAdmits(n, host) == ProxyServes(n) /\ HostAllowed(host, request[n].policy)

\* One request of urlopen: through the proxy, or straight from the client.
\* Redirections are followed without asking the policy again.
Ask(n) ==
    /\ Working(n, "asking")
    /\ LET host == fetch[n].host
           site == Sites[host]
           reached == IF backend = "docker" THEN host # Localhost /\ ProxyAdmits(n, host)
                      ELSE Resolves(host)
       IN  \/ /\ reached
              /\ contacted' = contacted \cup {<<n, host>>}
              /\ \/ site.to = NoHost /\ fetch' = [fetch EXCEPT ![n].at = "arrived"]
                 \/ /\ site.to # NoHost /\ fetch[n].hops < MaxHops
                    /\ fetch' = [fetch EXCEPT ![n].host = site.to, ![n].hops = @ + 1]
                 \/ Done(n, Failure)
           \/ UNCHANGED contacted /\ Done(n, Failure)
    /\ UNCHANGED <<client, daemon, response>>

\* _effective_byte_limit
ByteLimit(n) ==
    LET policy_limit == request[n].policy.max_bytes
        given == request[n].max
        least == IF given = NoLimit \/ given > policy_limit THEN policy_limit ELSE given
    IN  IF least < 1 THEN 1 ELSE least

\* The bytes that arrive: the proxy forwards so many of a plain response and
\* any number through a tunnel.
Arriving(n, site) ==
    IF backend = "docker" /\ ~site.https /\ site.size > request[n].policy.max_bytes
    THEN request[n].policy.max_bytes ELSE site.size

\* Mutation: web_fetch shows whatever it was redirected to.
FinalAllowed_Any(n, host) == TRUE

\* web_fetch looks at the URL it ended at.
FinalAllowed(n, host) == HostAllowed(host, request[n].policy)

Read(n) ==
    /\ Working(n, "arrived")
    /\ LET host == fetch[n].host
           arriving == Arriving(n, Sites[host])
           limit == ByteLimit(n)
           page == [ok |-> TRUE, from |-> host, bytes |-> IF arriving > limit THEN limit ELSE arriving,
                    truncated |-> arriving > limit]
       IN  \/ /\ request[n].op = "web_fetch" /\ FinalAllowed(n, host)
              /\ Done(n, page)
           \/ /\ request[n].op = "web_search" /\ Sites[host].size <= request[n].policy.max_bytes
              /\ Done(n, page)
           \/ request[n].op = "sandbox_run" /\ Done(n, Ran)
           \/ Done(n, Failure)
    /\ UNCHANGED <<client, daemon, response, contacted>>

\* The worker writes response.json, not at once, and ends; the local backend
\* returns.
WriteResponse(n) ==
    /\ Working(n, "result") /\ backend = "docker"
    /\ IF response[n].at = "absent"
       THEN response' = [response EXCEPT ![n] = [at |-> "begun"]] /\ UNCHANGED <<docker, fetch>>
       ELSE /\ response' = [response EXCEPT ![n] = [at |-> "written", result |-> fetch[n].result]]
            /\ fetch' = [fetch EXCEPT ![n] = Asleep]
            /\ docker' = docker \ {<<n, "worker">>}
    /\ UNCHANGED <<client, late, slips, refused, contacted>>
ReturnLocal(n) ==
    /\ Working(n, "result") /\ backend = "local"
    /\ fetch' = [fetch EXCEPT ![n] = Asleep]
    /\ End(fetch[n].result)
    /\ UNCHANGED <<daemon, response, contacted>>

\* The container dies: memory, the image, the daemon.
WorkerDies(n) ==
    /\ <<n, "worker">> \in docker
    /\ docker' = docker \ {<<n, "worker">>}
    /\ fetch' = [fetch EXCEPT ![n] = Asleep]
    /\ UNCHANGED <<client, late, slips, refused, response, contacted>>

----------------------------------------------------------------------------
Init ==
    /\ backend \in Backends /\ policy \in Policies
    /\ call = Idle
    /\ answer = [n |-> 0, result |-> Failure]
    /\ request = [n \in Sessions |-> Request("none", NoHost, NoLimit, policy)]
    /\ docker = {} /\ late = {}
    /\ slips = [n \in Sessions |-> {}] /\ refused = [n \in Sessions |-> {}]
    /\ fetch = [n \in Sessions |-> Asleep]
    /\ response = [n \in Sessions |-> [at |-> "absent"]]
    /\ contacted = {}

Client ==
    \/ Check \/ WriteRequest \/ StartWorker \/ WorkerReturns \/ WorkerTimesOut \/ Collect
    \/ \E i \in DOMAIN SetUp : SetUpStep(SetUp[i])
    \/ \E i \in DOMAIN CleanUp : CleanUpStep(CleanUp[i])

Operation(n) ==
    \/ ReadRequest(n) \/ CheckUrl(n) \/ Ask(n) \/ Read(n)
    \/ WriteResponse(n) \/ ReturnLocal(n)

Next ==
    \/ Begin \/ Client \/ CatchUp
    \/ \E n \in Sessions : Operation(n) \/ WorkerDies(n)

\* A docker command ends, if only by its timeout, and so does an operation of the
\* local backend, whose urlopen has one; a worker may hang for ever.
Fairness ==
    /\ WF_vars(Client)
    /\ \A n \in Sessions : WF_vars(backend = "local" /\ Operation(n))

Spec == Init /\ [][Next]_vars /\ Fairness

----------------------------------------------------------------------------
(* Properties.                                                             *)

\* What can keep a thing in docker after its call: commands that ran into their
\* timeout, and removals that docker refused.
Outlived(kind) ==
    CASE kind = "proxy"    -> {"proxy", "rm_proxy"}
      [] kind = "link"     -> {"rm_proxy"}
      [] kind = "worker"   -> {"worker"}
      [] kind = "internal" -> {"internal", "worker", "rm_proxy", "rm_internal"}
      [] kind = "egress"   -> {"egress", "proxy", "rm_proxy", "rm_internal", "rm_egress"}
Unremoved(kind) ==
    CASE kind \in {"proxy", "link"} -> {"rm_proxy"}
      [] kind = "worker"   -> {}
      [] kind = "internal" -> {"rm_proxy", "rm_internal"}
      [] kind = "egress"   -> {"rm_proxy", "rm_egress"}
Excused(n, kind) ==
    slips[n] \cap Outlived(kind) # {} \/ refused[n] \cap Unremoved(kind) # {}

\* Whatever command of a call fails, and however late docker gets round to it, the
\* call leaves nothing but what a timeout or a refused removal accounts for: one
\* that is refused keeps only what it was to remove or what stands on it, while a
\* timeout in the finally keeps what was still to come (docker_backend.py, run).
NothingLeft == \A thing \in docker : thing[1] = call.n \/ Excused(thing[1], thing[2])

\* A host that is asked for anything from docker is one the lists of the
\* configuration admit, or the search host, not denied, for a search; and once its
\* call is over a worker that outlived it reaches no host at all, unless the
\* removal of its proxy timed out or was refused (docker_backend.py, run; proxy.py,
\* do_CONNECT; manager.py, _policy_with_search_host).
WorkerConfined ==
    [][\A c \in contacted' \ contacted :
          backend = "docker" =>
              /\ \/ ListsAdmit(c[2], policy)
                 \/ /\ request[c[1]].op = "web_search" /\ c[2] = SearchHost
                    /\ ~HostMatchesAny(SearchHost, policy.denied)
              /\ c[1] = call.n \/ Excused(c[1], "link")]_vars

Shown == answer.result.ok /\ request[answer.n].op = "web_fetch"

\* With either backend a page that web_fetch shows comes from a host the policy
\* admits, also after redirections (operations.py, web_fetch).
ShownAllowed ==
    Shown => HostAllowed(answer.result.from, policy)

\* Every call comes to its end, though the worker hangs or the daemon does not
\* answer (docker_backend.py, _run_docker).
CallEnds == call.at # "idle" ~> call.at = "idle"
=============================================================================
