---------------------------- MODULE PrefixPlan ----------------------------
(***************************************************************************)
(* prefixes.py: the routes that would outrank the tunnel's.                *)
(*                                                                         *)
(* An address is a sequence of W bits, and a network the sequence of the   *)
(* bits its addresses share: its prefix length is its length, subnet_of is *)
(* IsPrefix, and the host route to an address is the address itself.       *)
(***************************************************************************)
EXTENDS Integers, SequencesExt

CONSTANTS
    W,                \* bits of an address (32)
    MAX_SPLIT_ROUTES, \* beyond this many routes, host routes take over
    NoLength          \* no competing prefix length is known

ASSUME PrefixAssumption ==
    /\ W \in Nat
    /\ MAX_SPLIT_ROUTES \in Nat
    /\ NoLength \notin Nat

Bit == {0, 1}
Address == [1..W -> Bit]
Network == BoundedSeq(Bit, W)
Strategy == {"split", "host"}

\* The addresses of a network.
Hosts(net) == {a \in Address : IsPrefix(net, a)}

\* Two networks have an address in common.
Overlap(n1, n2) == IsPrefix(n1, n2) \/ IsPrefix(n2, n1)

----------------------------------------------------------------------------
\* Mutant: one bit short of the network.
subnets_of_parent(net, length) ==
    {p \in Network : Len(p) = length /\ IsPrefix(SubSeq(net, 1, Len(net) - 1), p)}

subnets(net, length) == {p \in Network : Len(p) = length /\ IsPrefix(net, p)}

host_prefixes(net, hosts) == {h \in hosts : IsPrefix(net, h)}

\* Mutant: as long as the competitor, no longer.
TargetTies(net, competing) ==
    IF competing = NoLength \/ competing < Len(net) THEN Len(net) ELSE competing

\* The length that beats the competitor and splits the subnet.
Target(net, competing) ==
    IF competing = NoLength \/ competing < Len(net)
    THEN Len(net) + 1
    ELSE competing + 1

\* Host routes take over when there is nothing to split or too much of it.
Splits(net, competing, strategy) ==
    /\ strategy = "split"
    /\ Target(net, competing) <= W
    /\ 2 ^ (Target(net, competing) - Len(net)) <= MAX_SPLIT_ROUTES

plan_reclaim(net, hosts, competing, strategy) ==
    IF Splits(net, competing, strategy)
    THEN subnets(net, Target(net, competing))
    ELSE host_prefixes(net, hosts)

\* A longer prefix wins the lookup of what both cover; an equal one does not.
outranks(candidate, competitor) ==
    /\ Overlap(candidate, competitor)
    /\ Len(candidate) > Len(competitor)
===========================================================================
