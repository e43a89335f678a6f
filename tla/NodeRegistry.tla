---------------------------- MODULE NodeRegistry ----------------------------
(***************************************************************************)
(* The orchestrator's choice of a node for each turn of the model.  Every  *)
(* HTTP request is a thread; the threads share, without a lock, the        *)
(* results of the last discovery, the time it carries and the round robin  *)
(* index of each role.  A request first makes sure the discovery is not    *)
(* older than its time to live, and probes every candidate host when it    *)
(* is; then it chooses by the node asked for, by the role, or the local    *)
(* node.  Discovered hosts become nodes of their own (auto promotion).     *)
(*                                                                         *)
(* Hosts, models and the tags of models are numbered in the order in which *)
(* the code sorts them; the identifier of a discovered node is its host    *)
(* and the tag of its model.  Discovery is enabled throughout: without it the   *)
(* configured nodes are always available and only the indices are shared.  *)
(***************************************************************************)
EXTENDS Integers, FiniteSets, Sequences, SequencesExt

CONSTANTS
    Threads,        \* threads of ThreadingHTTPServer
    Main,           \* the thread that starts the server
    Urls,           \* discovery candidates
    HostModels,     \* HostModels[u]: the sets of models host u may offer
    Changing,       \* bound: the hosts that change while the server runs
    Catalogue,      \* Catalogue[m]: keywords in the name of model m, its size and its tag
    Configured,     \* the nodes of nodes-config, a sequence
    PromoteRoles,   \* auto_promotion_settings.roles, normalized
    BasePriority, MaxNodes,   \* auto_promotion_settings.priority, max_nodes
    Contexts,       \* what requests ask for
    TTL,            \* discovery_settings.ttl_seconds
    MaxResolve,     \* bound: how long a resolve may take, its probes included
    MaxTime         \* bound: the clock

NoRole == "none"
NoId == <<-1, 0>>
LocalNode == [id |-> <<0, 0>>, url |-> 0, model |-> 0, roles |-> {"worker"}, priority |-> 1000,
              enabled |-> TRUE, is_local |-> TRUE, place |-> 0]
Never == -1

ASSUME RegistryAssumption ==
    /\ Main \notin Threads
    /\ Urls \in SUBSET (Nat \ {0}) /\ IsFiniteSet(Urls)
    /\ DOMAIN Catalogue \subseteq Nat
    /\ \A m \in DOMAIN Catalogue : Catalogue[m].size \in Nat
    /\ \A u \in Urls : \A models \in HostModels[u] :
           models \subseteq DOMAIN Catalogue /\ IsFiniteSet(models)
    /\ IsFiniteSet(PromoteRoles)
    /\ Changing \subseteq Urls
    /\ TTL \in Nat \ {0}
    /\ MaxResolve \in Nat
    /\ MaxNodes \in Nat
    /\ \A i \in DOMAIN Configured : ~Configured[i].is_local /\ Configured[i].place = i

Requesters == Threads \cup {Main}

VARIABLES
    clock,          \* monotonic()
    host,           \* what each candidate host is, and since when it does not answer
    cache,          \* discovery._probe_cache
    last,           \* discovery._last_discovery_at
    indices,        \* registry._round_robin_indices
    req,            \* the local variables of each thread
    filled,         \* history: when the cache was stored
    prior           \* history: for each role, the candidates and choice of the last turn taken

vars == <<clock, host, cache, last, indices, req, filled, prior>>

\* A dictionary with one more entry, or a new one at its key.
With(dict, key, value) ==
    [k \in DOMAIN dict \cup {key} |-> IF k = key THEN value ELSE dict[k]]

----------------------------------------------------------------------------
(* Auto promotion: the models of a host that serve a role best.            *)

AtLeast(score, least) == IF score >= least THEN score ELSE -1

Smaller(m, n) == IF m < n THEN m ELSE n
Larger(m, n) == IF m > n THEN m ELSE n

\* _score_model_for_role, from the keywords of the name.
Score(model, role) ==
    LET is(word) == word \in Catalogue[model].words
        known == is("reasoning") \/ is("general")
        base == 5 + Smaller(Catalogue[model].size, 40)
        thinks == IF is("reasoning") THEN 75 ELSE 45
        spoils == (IF is("code") THEN 60 ELSE 0) + (IF is("vision") THEN 40 ELSE 0)
    IN  IF is("embedding") THEN -1
        ELSE IF role = "worker" THEN
            IF is("code") THEN base + 90 ELSE IF known THEN base + 35 ELSE -1
        ELSE IF role \in {"planner", "reviewer"} THEN
            IF known THEN AtLeast(base + thinks - spoils, 25) ELSE -1
        ELSE IF role = "vision" THEN
            IF is("vision") THEN base + 95 ELSE -1
        ELSE IF is("code") \/ known THEN base + 20 ELSE -1

\* Mutation: the first name that will do, whatever its score.
BestFor_First(models, role) ==
    {m \in models : /\ Score(m, role) >= 0
                    /\ \A other \in models : Score(other, role) >= 0 => m <= other}

\* _best_model_for_role: the highest score, then the first name.
BestFor(models, role) ==
    {m \in models : /\ Score(m, role) >= 0
                    /\ \A other \in models :
                           \/ Score(other, role) < Score(m, role)
                           \/ Score(other, role) = Score(m, role) /\ m <= other}

\* sorted: the elements of a finite set, each behind those that R puts before it.
Ordered(S, R) ==
    [k \in 1 .. Cardinality(S) |->
        CHOOSE m \in S : Cardinality({n \in S : <<n, m>> \in R}) = k - 1]

Serves(models, m) == {r \in PromoteRoles : m \in BestFor(models, r)}

Rank(models, m) ==
    CHOOSE s \in {Score(m, r) : r \in Serves(models, m)} :
        \A r \in Serves(models, m) : Score(m, r) <= s

Chosen(models) == {m \in models : Serves(models, m) # {}}

\* The highest score first, then the first name.
Ranking(models) ==
    {p \in Chosen(models) \X Chosen(models) :
        \/ Rank(models, p[1]) > Rank(models, p[2])
        \/ Rank(models, p[1]) = Rank(models, p[2]) /\ p[1] < p[2]}

\* _infer_auto_promoted_nodes, without its limit: a node for each model that is
\* the best one for some role.  Models of one tag give one identifier.
Promotions(url, models) ==
    LET ranked == Ordered(Chosen(models), Ranking(models))
        node(m, i) ==
            [id |-> <<url, Catalogue[m].tag>>, url |-> url, model |-> m,
             roles |-> Serves(models, m),
             priority |-> Larger(1, BasePriority - Smaller(Rank(models, m), 120)),
             enabled |-> TRUE, is_local |-> FALSE, place |-> Len(Configured) + i]
    IN  [i \in DOMAIN ranked |-> node(ranked[i], i)]

PromotionsOf == [u \in Urls |-> [models \in HostModels[u] |-> Promotions(u, models)]]

PromotedBy(found, u) == PromotionsOf[u][found[u].models]

\* The reachable hosts with models that no configured node has.
Eligible(found) ==
    {u \in DOMAIN found :
        /\ u # LocalNode.url
        /\ \A i \in DOMAIN Configured : u # Configured[i].url
        /\ found[u].reachable
        /\ found[u].models # {}}

Places(found) == UNION {{u} \X DOMAIN PromotedBy(found, u) : u \in Eligible(found)}

InTurn(places) ==
    {p \in places \X places :
        p[1][1] < p[2][1] \/ (p[1][1] = p[2][1] /\ p[1][2] < p[2][2])}

\* auto_promoted_nodes: the nodes of the hosts in their order, cut at max_nodes.
AutoPromoted(found) ==
    LET all == Ordered(Places(found), InTurn(Places(found)))
    IN  [i \in 1 .. Smaller(Cardinality(Places(found)), MaxNodes) |->
            PromotedBy(found, all[i][1])[all[i][2]]]

ActiveNodes(found) == <<LocalNode>> \o Configured \o AutoPromoted(found)

\* A host without a result is taken to be reachable.
IsAvailable(node, found) ==
    node.is_local \/ (node.url \in DOMAIN found => found[node.url].reachable)

HandlesRole(node, role) == role \in node.roles \/ "*" \in node.roles

\* Candidates are sorted by priority and identifier, and stay as they are listed
\* where these are the same: the sort is stable.
Earlier(n, m) ==
    \/ n.priority < m.priority
    \/ n.priority = m.priority /\ n.id[1] < m.id[1]
    \/ n.priority = m.priority /\ n.id[1] = m.id[1] /\ n.id[2] < m.id[2]
    \/ n.priority = m.priority /\ n.id = m.id /\ n.place < m.place

Position(node, candidates) == Cardinality({n \in candidates : Earlier(n, node)})

----------------------------------------------------------------------------
(* Hosts and time.  A host that is up answers the probe with its models.   *)
(* One that is not is found unreachable, or makes the probe raise: it      *)
(* closes the connection, or answers with JSON that is no object.          *)

Up(models) == [up |-> TRUE, models |-> models, since |-> 0]
Silent(since) == [up |-> FALSE, models |-> {}, since |-> since]
Result(reachable, models) == [reachable |-> reachable, models |-> models]

Idle == [at |-> "idle", want |-> "none", node |-> NoId, role |-> NoRole, force |-> FALSE,
         now |-> 0, found |-> <<>>, left |-> <<>>, kept |-> {}, index |-> 0,
         choice |-> LocalNode]

Starting == [Idle EXCEPT !.at = "compare", !.want = "nodes", !.force = TRUE]

Init ==
    /\ clock = 0
    /\ \E models \in [Urls -> UNION {HostModels[u] : u \in Urls}], up \in SUBSET Urls :
           /\ \A u \in Urls : models[u] \in HostModels[u]
           /\ host = [u \in Urls |-> IF u \in up THEN Up(models[u]) ELSE Silent(0)]
    /\ cache = <<>>
    /\ last = Never
    /\ indices = <<>>
    /\ req = [t \in Requesters |-> IF t = Main THEN Starting ELSE Idle]
    /\ filled = 0
    /\ prior = <<>>

\* A host comes up or changes its models, or stops to answer.
HostChanges(u) ==
    /\ \/ \E models \in HostModels[u] : host' = [host EXCEPT ![u] = Up(models)]
       \/ host[u].up /\ host' = [host EXCEPT ![u] = Silent(clock)]
    /\ UNCHANGED <<clock, cache, last, indices, req, filled, prior>>

Resolving == {"compare", "probe", "stamp", "byId", "tryId", "byRole", "filter", "turn", "chosen"}

\* Time passes; no resolve takes longer than MaxResolve.
Tick ==
    /\ clock < MaxTime
    /\ \A t \in Requesters : req[t].at \in Resolving => clock < req[t].now + MaxResolve
    /\ clock' = clock + 1
    /\ UNCHANGED <<host, cache, last, indices, req, filled, prior>>

----------------------------------------------------------------------------
(* NodeDiscoveryCache.refresh, by each thread on its own.                   *)

Goes(t, at) == req' = [req EXCEPT ![t] = [@ EXCEPT !.at = at]]
Ends(t) == req' = [req EXCEPT ![t] = Idle]

\* What follows ensure: the choice of a node, or the list of them.
After(r) == CASE r.want = "nodes" -> "listing" [] r.node # NoId -> "byId" [] OTHER -> "byRole"

Serving == req[Main].at = "idle"

\* A request arrives, for a turn or the list of nodes, and ensure reads the clock.
Ask(t) ==
    /\ Serving
    /\ req[t].at = "idle"
    /\ \E c \in Contexts :
           req' = [req EXCEPT ![t] = [Idle EXCEPT !.at = "compare", !.now = clock,
                                         !.want = c.want, !.node = c.node, !.role = c.role]]
    /\ UNCHANGED <<clock, host, cache, last, indices, filled, prior>>

\* Mutation: a discovery is looked at once and kept.
IsFresh_Once(t) == ~req[t].force /\ last # Never

IsFresh(t) == ~req[t].force /\ last # Never /\ req[t].now - last < TTL

Compare(t) ==
    /\ req[t].at = "compare"
    /\ Goes(t, IF IsFresh(t) THEN After(req[t]) ELSE "probe")
    /\ UNCHANGED <<clock, host, cache, last, indices, filled, prior>>

\* One probe of the pool, in any order.
Probe(t, u) ==
    /\ req[t].at = "probe"
    /\ u \notin DOMAIN req[t].found
    /\ req' = [req EXCEPT ![t] = [@ EXCEPT
                  !.found = With(req[t].found, u, Result(host[u].up, host[u].models))]]
    /\ UNCHANGED <<clock, host, cache, last, indices, filled, prior>>

\* The probe raises: nothing handles it, and the request, or the start of the
\* server, fails with the cache and its time as they were.
ProbeRaises(t, u) ==
    /\ req[t].at = "probe"
    /\ u \notin DOMAIN req[t].found
    /\ ~host[u].up
    /\ IF t = Main THEN Goes(t, "dead") ELSE Ends(t)
    /\ UNCHANGED <<clock, host, cache, last, indices, filled, prior>>

StoreCache(t) ==
    /\ req[t].at = "probe"
    /\ DOMAIN req[t].found = Urls
    /\ cache' = req[t].found
    /\ filled' = clock
    /\ req' = [req EXCEPT ![t] = [@ EXCEPT !.at = "stamp", !.found = <<>>]]
    /\ UNCHANGED <<clock, host, last, indices, prior>>

\* Mutation: the results are dated when they are stored away, not when they
\* were asked for.
StoreTime_Late(t) ==
    /\ req[t].at = "stamp"
    /\ last' = clock
    /\ Goes(t, After(req[t]))
    /\ UNCHANGED <<clock, host, cache, indices, filled, prior>>

StoreTime(t) ==
    /\ req[t].at = "stamp"
    /\ last' = req[t].now
    /\ Goes(t, After(req[t]))
    /\ UNCHANGED <<clock, host, cache, indices, filled, prior>>

\* list_nodes and summary, which make sure of the discovery several times over.
\* The start of the server ends with a summary.
List(t) ==
    /\ req[t].at = "listing"
    /\ \/ req' = [req EXCEPT ![t] = [Idle EXCEPT !.at = "compare", !.want = "nodes",
                                            !.now = clock]]
       \/ Ends(t)
    /\ UNCHANGED <<clock, host, cache, last, indices, filled, prior>>

----------------------------------------------------------------------------
(* OllamaNodeRegistry.resolve, and the request to the node.  Each test of   *)
(* availability reads the cache anew.                                       *)

Chooses(t, node) == req' = [req EXCEPT ![t] = [@ EXCEPT !.at = "chosen", !.choice = node,
                                                     !.left = <<>>, !.kept = {}, !.index = 0]]

SelectById(t) ==
    /\ req[t].at = "byId"
    /\ req' = [req EXCEPT ![t] = [@ EXCEPT !.at = "tryId",
                  !.left = SelectSeq(ActiveNodes(cache),
                               LAMBDA node : node.id = req[t].node /\ node.enabled)]]
    /\ UNCHANGED <<clock, host, cache, last, indices, filled, prior>>

TryId(t) ==
    /\ req[t].at = "tryId"
    /\ LET left == req[t].left
       IN  IF left = <<>> THEN Goes(t, "byRole")
           ELSE IF IsAvailable(Head(left), cache) THEN Chooses(t, Head(left))
           ELSE req' = [req EXCEPT ![t] = [@ EXCEPT !.left = Tail(left)]]
    /\ UNCHANGED <<clock, host, cache, last, indices, filled, prior>>

SelectByRole(t) ==
    /\ req[t].at = "byRole"
    /\ IF req[t].role = NoRole THEN Chooses(t, LocalNode)
       ELSE req' = [req EXCEPT ![t] = [@ EXCEPT !.at = "filter",
                      !.left = SelectSeq(ActiveNodes(cache),
                                   LAMBDA node : /\ node.enabled /\ ~node.is_local
                                                 /\ HandlesRole(node, req[t].role))]]
    /\ UNCHANGED <<clock, host, cache, last, indices, filled, prior>>

Filter(t) ==
    /\ req[t].at = "filter"
    /\ req[t].left # <<>>
    /\ LET node == Head(req[t].left)
           able == {n \in {node} : IsAvailable(n, cache)}
       IN  req' = [req EXCEPT ![t] = [@ EXCEPT !.left = Tail(req[t].left),
                                              !.kept = req[t].kept \cup able]]
    /\ UNCHANGED <<clock, host, cache, last, indices, filled, prior>>

IndexOf(role) == IF role \in DOMAIN indices THEN indices[role] ELSE 0

\* The index is read and taken modulo the number of candidates; without any the
\* local node is the choice.
ReadTurn(t) ==
    /\ req[t].at = "filter"
    /\ req[t].left = <<>>
    /\ IF req[t].kept = {} THEN Chooses(t, LocalNode)
       ELSE req' = [req EXCEPT ![t] = [@ EXCEPT !.at = "turn",
                      !.index = IndexOf(req[t].role) % Cardinality(req[t].kept)]]
    /\ UNCHANGED <<clock, host, cache, last, indices, filled, prior>>

\* Thread t takes its turn and leaves the index to the next one.
Takes(t, index) ==
    /\ req[t].at = "turn"
    /\ \E node \in req[t].kept :
           /\ Position(node, req[t].kept) = req[t].index
           /\ indices' = With(indices, req[t].role, index)
           /\ prior' = With(prior, req[t].role, [kept |-> req[t].kept, node |-> node])
           /\ Chooses(t, node)
    /\ UNCHANGED <<clock, host, cache, last, filled>>

\* Mutation: the position taken is kept, not the next one.
WriteTurn_Stays(t) == Takes(t, req[t].index)

WriteTurn(t) == Takes(t, req[t].index + 1)

\* The selection is returned; the request to the node changes nothing here.
Return(t) ==
    /\ req[t].at = "chosen"
    /\ Ends(t)
    /\ UNCHANGED <<clock, host, cache, last, indices, filled, prior>>

Step(t) ==
    \/ Compare(t) \/ StoreCache(t) \/ StoreTime(t) \/ List(t)
    \/ \E u \in Urls : Probe(t, u) \/ ProbeRaises(t, u)
    \/ SelectById(t) \/ TryId(t) \/ SelectByRole(t) \/ Filter(t)
    \/ ReadTurn(t) \/ WriteTurn(t) \/ Return(t)

Next ==
    \/ Tick
    \/ \E u \in Changing : HostChanges(u)
    \/ \E t \in Threads : Ask(t)
    \/ \E t \in Requesters : Step(t)

Spec == Init /\ [][Next]_vars

----------------------------------------------------------------------------
(* Properties.                                                              *)

Choosing == {"byId", "tryId", "byRole", "filter", "turn"}

\* The time to live is respected although refreshes of several threads overlap
\* and the slower one stores older results under an older time: whoever takes
\* the results for fresh finds those of every candidate host, stored less than
\* the time to live before it looked (discovery.py, refresh).
FreshResults ==
    \A t \in Requesters : req[t].at \in Choosing =>
        DOMAIN cache = Urls /\ req[t].now - filled < TTL

\* A host that has gone is left out in time: no turn is sent to a host that has
\* not answered for the time to live and the length of two resolves, the one
\* that probed it and the one that chooses it, whichever threads did that
\* (registry.py, _select_by_id and _select_by_role).
GoneHostsLeave ==
    \A t \in Requesters :
        LET url == req[t].choice.url
        IN  (req[t].at = "chosen" /\ ~req[t].choice.is_local /\ url \in Urls /\ ~host[url].up) =>
                clock - host[url].since < TTL + 2 * MaxResolve

\* Turns are taken: whoever reads the index after another thread has written it
\* and has the same candidates, two or more, chooses another node than that
\* thread did, whatever other roles do in between (registry.py, _select_by_role).
TakesTurns ==
    [][\A t \in Threads :
          LET role == req[t].role
              kept == req'[t].kept
          IN  (/\ req[t].at = "filter" /\ req'[t].at = "turn"
               /\ role \in DOMAIN prior /\ prior[role].kept = kept
               /\ Cardinality(kept) > 1)
                  => Position(prior[role].node, kept) # req'[t].index]_vars

\* The nodes promoted from results: of hosts without a configured node that
\* answer and have models, no embedding model, in each role a model that no other
\* of its host beats, and no two of one model of one host.  (They may be of one
\* identifier.)
WellPromoted(nodes, found) ==
    /\ Len(nodes) <= MaxNodes
    /\ \A i, j \in DOMAIN nodes :
           nodes[i].url = nodes[j].url /\ nodes[i].model = nodes[j].model => i = j
    /\ \A i \in DOMAIN nodes :
           LET u == nodes[i].url
               m == nodes[i].model
           IN  /\ \A c \in DOMAIN Configured : Configured[c].url # u
               /\ found[u].reachable /\ m \in found[u].models
               /\ "embedding" \notin Catalogue[m].words
               /\ \A r \in nodes[i].roles, other \in found[u].models :
                      Score(other, r) <= Score(m, r)

\* Each role a host has a model for is served there by one node, unless
\* max_nodes is reached.
RolesServed(nodes, found) ==
    \A u \in DOMAIN found \ {Configured[c].url : c \in DOMAIN Configured}, r \in PromoteRoles :
        LET serving == {i \in DOMAIN nodes : nodes[i].url = u /\ r \in nodes[i].roles}
            fit == {m \in found[u].models : Score(m, r) >= 0}
        IN  /\ Cardinality(serving) <= 1
            /\ (fit # {} /\ found[u].reachable /\ Len(nodes) < MaxNodes) => serving # {}

\* Whatever a discovery finds, what it promotes is what the documentation
\* promises, and nothing is missing (discovery.py, auto_promoted_nodes;
\* selection.py).
PromotesBest ==
    [][cache' # cache =>
          LET nodes == AutoPromoted(cache')
          IN  WellPromoted(nodes, cache') /\ RolesServed(nodes, cache')]_vars

\* The server starts whatever the hosts of the network answer to the probes:
\* "Discovery no debe impedir arranque si no hay nodos alcanzables y el fallback
\* local aplica" (mcp_server.sdd.md:163), and the local node is always there.
DiscoveryLetsStart == req[Main].at # "dead"

=============================================================================
