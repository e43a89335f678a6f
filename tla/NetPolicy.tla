----------------------------- MODULE NetPolicy -----------------------------
(***************************************************************************)
(* The network policy of the sandbox: domain patterns, the lists of a      *)
(* policy and the addresses a host resolves to.  A host is the sequence of *)
(* its labels; case, a final dot and the brackets of an address are gone.  *)
(***************************************************************************)
EXTENDS Integers, SequencesExt, FiniteSets

CONSTANTS
    Hosts,      \* hosts that exist in URLs, each a sequence of labels
    Addresses   \* [Hosts -> SUBSET {"public", "private"}], {} when it does not resolve

Localhost == <<"localhost">>

ASSUME NetPolicyAssumption ==
    /\ Hosts \subseteq Seq(STRING)
    /\ Addresses \in [Hosts -> SUBSET {"public", "private"}]

Pattern(wild, domain) == [wild |-> wild, domain |-> domain]
Patterns == [wild : BOOLEAN, domain : Seq(STRING)]

NetworkPolicy ==
    [allowed : SUBSET Patterns, denied : SUBSET Patterns, block_private : BOOLEAN, max_bytes : Nat]

\* normalize_domain_pattern: localhost, or a domain of two labels or more,
\* which "*." may precede.
ValidPattern(p) == Len(p.domain) >= 2 \/ p = Pattern(FALSE, Localhost)

\* domain_matches
DomainMatches(host, p) ==
    IF p.wild THEN IsStrictSuffix(p.domain, host) ELSE host = p.domain

HostMatchesAny(host, patterns) == \E p \in patterns : DomainMatches(host, p)

\* Any address of a host that is private makes it private (is_private_ip).
ResolvesPrivate(host) == "private" \in Addresses[host]
Resolves(host) == Addresses[host] # {}

\* normalize_domain_patterns raises for the whole list.
PolicyParses(policy) == \A p \in policy.allowed \cup policy.denied : ValidPattern(p)

\* The lists of assert_host_allowed, without the private networks.
ListsAdmit(host, policy) ==
    /\ ~HostMatchesAny(host, policy.denied)
    /\ policy.allowed = {} \/ HostMatchesAny(host, policy.allowed)

\* assert_host_allowed
HostAllowed(host, policy) ==
    /\ PolicyParses(policy)
    /\ ListsAdmit(host, policy)
    /\ policy.block_private => Resolves(host) /\ ~ResolvesPrivate(host)

\* _policy_with_search_host: an allowlist is widened by the search service.
PolicyWithSearchHost(policy, host) ==
    IF policy.allowed = {} \/ HostMatchesAny(host, policy.allowed)
    THEN policy
    ELSE [policy EXCEPT !.allowed = @ \cup {Pattern(FALSE, host)}]
=============================================================================
