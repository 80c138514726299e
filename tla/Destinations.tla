---------------------------- MODULE Destinations ----------------------------
(***************************************************************************)
(* Addresses: which packets a firewall rule redirects, and which entry of  *)
(* the snapshot the agent then takes the connection to be for.  The kernel *)
(* and allocation_matches each have their own idea of a wildcard.          *)
(*                                                                         *)
(* An entry of a snapshot is [ip, port, running], an ip [family, host],    *)
(* a destination [ip, port]; host "any" is 0.0.0.0 or [::].                *)
(***************************************************************************)
EXTENDS Naturals, Sequences, FiniteSetsExt

CONSTANT ListenPort   \* the agent's own

Unspecified(ip) == ip.host = "any"

\* desired_allocations, by position in the snapshot.
DesiredEntries(sn) ==
    {i \in 1..Len(sn) : sn[i].port # ListenPort /\ ~sn[i].running}

\* Mutant: a wildcard's rule is rendered for no family in particular.
RuleOfAnyFamily(entry, destination) ==
    /\ entry.port = destination.port
    /\ Unspecified(entry.ip) \/ entry.ip = destination.ip

\* A rule of render_nftables, or of the family's iptables chain.
RuleRedirects(entry, destination) ==
    /\ entry.port = destination.port
    /\ entry.ip.family = destination.ip.family
    /\ Unspecified(entry.ip) \/ entry.ip = destination.ip

Redirected(sn, destination) ==
    \E i \in DesiredEntries(sn) : RuleRedirects(sn[i], destination)

\* Mutant: the wildcard is compared like any address.
MatchesExactly(destination, entry) ==
    entry.port = destination.port /\ entry.ip = destination.ip

\* allocation_matches.
AllocationMatches(destination, entry) ==
    /\ entry.port = destination.port
    /\ Unspecified(entry.ip) \/ entry.ip = destination.ip

\* handle_connection's find: the first entry that matches, or 0.
Lookup(sn, destination) ==
    LET found == {i \in 1..Len(sn) : AllocationMatches(destination, sn[i])}
    IN  IF found = {} THEN 0 ELSE Min(found)
=============================================================================
