----------------------------- MODULE Discovery -----------------------------
(***************************************************************************)
(* discovery.py and dockerdisc.py: the scopes of a host, from what its     *)
(* interfaces and Docker say.                                              *)
(*                                                                         *)
(* An interface address is [ifname, address, length], a Docker network     *)
(* [id, name, option, subnets, containers]: its id is named by the bridge  *)
(* name derived from it, option is the bridge name its options give, and a *)
(* subnet is [network, gateway].                                           *)
(***************************************************************************)
EXTENDS PrefixPlan, FiniteSets

CONSTANTS
    SYNTHETIC_PROBE_SEARCH, \* usable addresses tried for the low probe
    MAX_LIVE_PROBES,        \* containers of a network that are probed
    MinClaimPrefixlen,      \* Config.min_claim_prefixlen
    AllowWideClaims,        \* Config.allow_wide_claims
    LibvirtLinks,           \* interfaces named virbr*
    NeverScope,             \* interfaces that are no scope: lo*, cscotun*
    NoDevice,               \* no bridge name
    NoAddress               \* no gateway

ASSUME DiscoveryAssumption ==
    /\ SYNTHETIC_PROBE_SEARCH \in Nat
    /\ MAX_LIVE_PROBES \in Nat
    /\ MinClaimPrefixlen \in Nat
    /\ NoAddress \notin Address

Kind == {"docker", "libvirt", "lan"}
ScopeState == {"healthy", "captured", "misrouted", "no_probe", "error"}

\* The network of an interface address.
NetOf(a) == SubSeq(a.address, 1, a.length)

Before(a, b) ==
    \E i \in 1..W : a[i] < b[i] /\ \A j \in 1..i - 1 : a[j] = b[j]

\* The k lowest addresses of a set.
Lowest(k, S) == {a \in S : Cardinality({b \in S : Before(b, a)}) < k}

\* The address of a network whose remaining bits are f of their position.
Fill(net, f(_)) == [i \in 1..W |-> IF i <= Len(net) THEN net[i] ELSE f(i)]

First(net) == Fill(net, LAMBDA i : 0)
Broadcast(net) == Fill(net, LAMBDA i : 1)
Midpoint(net) == Fill(net, LAMBDA i : IF i = Len(net) + 1 THEN 1 ELSE 0)

\* IPv4Network.hosts(): a /31 and a /32 have no address to spare.
Usable(net) ==
    IF Len(net) >= W - 1 THEN Hosts(net)
    ELSE Hosts(net) \ {First(net), Broadcast(net)}

----------------------------------------------------------------------------
(* Probe addresses.                                                        *)

\* The first usable address, within reach of the search, that is not excluded.
synthetic_probe(net, exclude) ==
    Lowest(1, Lowest(SYNTHETIC_PROBE_SEARCH, Usable(net)) \ exclude)

\* Mutant: only at the bottom of the range.
synthetic_probes_low(net, exclude) == synthetic_probe(net, exclude)

\* ... and the midpoint, past the carve-outs at the bottom of a subnet.
synthetic_probes(net, exclude) ==
    synthetic_probe(net, exclude)
       \cup (IF Len(net) <= W - 2 THEN {Midpoint(net)} \ exclude ELSE {})

NetworksOf(network) == {s.network : s \in network.subnets}
GatewaysOf(network) == {s.gateway : s \in network.subnets} \ {NoAddress}

\* The containers that can be probed and routed.
live_hosts(network, host_addrs) ==
    network.containers \ (host_addrs \cup GatewaysOf(network))

probes_for_docker(network, host_addrs) ==
    IF live_hosts(network, host_addrs) # {}
    THEN Lowest(MAX_LIVE_PROBES, live_hosts(network, host_addrs))
    ELSE UNION {synthetic_probes(net, host_addrs \cup GatewaysOf(network)) :
                   net \in NetworksOf(network)}

----------------------------------------------------------------------------
(* The bridge of a Docker network.                                         *)

\* The interfaces that hold the gateway of one of the network's subnets.
Owners(network, addrs) ==
    {a.ifname : a \in {a \in addrs : a.address \in GatewaysOf(network)}}

\* The names the bridge should have, the better first.
Candidates(network) ==
    IF network.option = NoDevice THEN <<network.id>>
    ELSE <<network.option, network.id>>

FirstIn(names, S) ==
    IF \E i \in DOMAIN names : names[i] \in S
    THEN {names[CHOOSE i \in DOMAIN names :
                   names[i] \in S /\ \A j \in 1..i - 1 : names[j] \notin S]}
    ELSE {}

\* A candidate that holds a gateway, else an interface that does, else a
\* candidate that exists; the choice among several owners is the hash's.
resolve_bridge(network, links, addrs) ==
    LET verified == FirstIn(Candidates(network), links \cap Owners(network, addrs))
        unverified == FirstIn(Candidates(network), links)
    IN  CASE verified # {}                -> verified
          [] verified = {} /\ Owners(network, addrs) # {}
                                          -> Owners(network, addrs)
          [] verified = {} /\ Owners(network, addrs) = {} /\ unverified # {}
                                          -> unverified
          [] OTHER                        -> {NoDevice}

----------------------------------------------------------------------------
(* Scopes.  bridges[n] is the bridge resolved for the network n.           *)

docker_scopes(bridges, host_addrs) ==
    {[name    |-> <<"docker", n.name>>,
      kind    |-> "docker",
      device  |-> bridges[n],
      nets    |-> NetworksOf(n),
      probes  |-> probes_for_docker(n, host_addrs),
      hosts   |-> live_hosts(n, host_addrs),
      enabled |-> TRUE] :
        n \in {n \in DOMAIN bridges : bridges[n] # NoDevice}}

width_refusal(net) == net \notin AllowWideClaims /\ Len(net) < MinClaimPrefixlen

\* The networks of an interface that are not too wide to claim.
Offered(ifname, addrs) ==
    {net \in {NetOf(a) : a \in {a \in addrs : a.ifname = ifname}} :
        ~width_refusal(net)}

host_scopes(addrs, kind, host_addrs) ==
    {[name    |-> <<kind, ifname>>,
      kind    |-> kind,
      device  |-> ifname,
      nets    |-> Offered(ifname, addrs),
      probes  |-> UNION {synthetic_probes(net, host_addrs) :
                            net \in Offered(ifname, addrs)},
      hosts   |-> {},
      enabled |-> FALSE] :
        ifname \in {i \in {a.ifname : a \in addrs} : Offered(i, addrs) # {}}}

\* An interface is a scope of one kind only.
discover_scopes(bridges, addrs) ==
    LET host_addrs == {a.address : a \in addrs}
        docker     == docker_scopes(bridges, host_addrs)
        libvirt    == {a \in addrs : a.ifname \in LibvirtLinks}
        lan        == {a \in addrs : a.ifname \notin
                         LibvirtLinks \cup NeverScope \cup {s.device : s \in docker}}
    IN  docker
           \cup host_scopes(libvirt, "libvirt", host_addrs)
           \cup host_scopes(lan, "lan", host_addrs)
===========================================================================
