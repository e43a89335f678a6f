----------------------------- MODULE MCSandbox -----------------------------
(* An instance of Sandbox for TLC: a public site, one that redirects to a    *)
(* denied site, one that redirects to the search service, and the service,   *)
(* whose name also stands for a private address.                             *)
EXTENDS Sandbox

docs   == <<"docs", "org">>
moved  == <<"a", "docs", "org">>
denied == <<"b", "bad", "org">>
lured  == <<"lured", "org">>
search == <<"search", "net">>

MCHosts == {docs, moved, denied, lured, search}
MCAddresses == [h \in MCHosts |-> IF h = search THEN {"public", "private"} ELSE {"public"}]
Site(to, https, size) == [to |-> to, https |-> https, size |-> size]
MCSites ==
    [h \in MCHosts |->
        CASE h = docs   -> Site(NoHost, FALSE, 3)
          [] h = moved  -> Site(denied, TRUE, 1)
          [] h = denied -> Site(NoHost, FALSE, 1)
          [] h = lured  -> Site(search, FALSE, 1)
          [] h = search -> Site(NoHost, TRUE, 2)]

MCPolicies ==
    {[allowed |-> {}, denied |-> {Pattern(TRUE, <<"bad", "org">>)},
      block_private |-> TRUE, max_bytes |-> 2],
     [allowed |-> {Pattern(FALSE, docs), Pattern(TRUE, docs)}, denied |-> {},
      block_private |-> FALSE, max_bytes |-> 2],
     [allowed |-> {Pattern(FALSE, <<"org">>)}, denied |-> {},
      block_private |-> FALSE, max_bytes |-> 2]}
MCMaxBytes == {0, NoLimit}
=============================================================================
