-------------------------- MODULE MCNodeRegistry --------------------------
(***************************************************************************)
(* An instance of NodeRegistry for TLC.  Host 1 has a configured node,     *)
(* host 2 is discovered: with two models it becomes one node for two       *)
(* roles, with four it would become three of one identifier, of which one  *)
(* is cut.                                                                 *)
(***************************************************************************)
EXTENDS NodeRegistry

CONSTANTS t1, t2, main

MCHostModels == [u \in Urls |-> IF u = 1 THEN {{2}} ELSE {{1, 4}, {1, 2, 3, 4}}]

MCCatalogue == <<[words |-> {"reasoning"}, size |-> 8, tag |-> 1],
                 [words |-> {"code", "general"}, size |-> 7, tag |-> 1],
                 [words |-> {"vision", "general"}, size |-> 3, tag |-> 1],
                 [words |-> {"embedding"}, size |-> 0, tag |-> 2]>>

MCConfigured == <<[id |-> <<0, 1>>, url |-> 1, model |-> 2, roles |-> {"worker", "planner"},
                   priority |-> 100, enabled |-> TRUE, is_local |-> FALSE, place |-> 1]>>

MCPromoteRoles == {"worker", "planner", "vision"}

Chat(node, role) == [want |-> "chat", node |-> node, role |-> role]

MCContexts == {Chat(<<2, 1>>, "worker")}

MCSymmetry == Permutations({t1, t2})
=============================================================================
