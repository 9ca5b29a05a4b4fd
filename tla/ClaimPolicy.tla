---------------------------- MODULE ClaimPolicy ----------------------------
(***************************************************************************)
(* What ciscomvent decides, as pure operators: which scopes the config     *)
(* enables and gates (config.py), which networks the claim guard refuses,  *)
(* what should be claimed and the delta against what is (reconcile.py),    *)
(* and which scopes count as having their accepts (apply.py).              *)
(*                                                                         *)
(* A config file is a record with the fields of config.Config that decide  *)
(* something here; the lists are sets, since only membership is ever asked.*)
(* A tunnel is named by its addresses (VpnState.addresses), NoTunnel when  *)
(* no VPN device exists.                                                   *)
(***************************************************************************)
EXTENDS Integers

CONSTANTS
    Scopes,           \* names of the scopes discovery can offer
    DockerScopes,     \* those of them that come from the Docker daemon
    EnabledByDefault, \* Scope.enabled_by_default
    Subnets,          \* Subnets[s]: the networks of scope s
    Rank,             \* Rank[s]: the place of s in the order of discovery
    Nets,             \* the networks
    PrefixLen,        \* PrefixLen[n]: the prefix length of n
    Prefixes,         \* the prefixes a tunnel may capture
    Inside,           \* Inside[n]: the prefixes strictly inside n
    Addresses,        \* the addresses a tunnel may have
    Captured,         \* Captured[a]: what the tunnel with address a captures
    Devices,          \* the devices scopes live on
    NoTunnel,         \* VpnState.connected is false
    NoDevice          \* a device that is absent or down; "" in a Claim

ASSUME ScopeAssumption ==
    /\ DockerScopes \subseteq Scopes
    /\ EnabledByDefault \subseteq Scopes
    /\ Subnets \in [Scopes -> SUBSET Nets]
    /\ Rank \in [Scopes -> Nat]
    /\ \A s1, s2 \in Scopes : Rank[s1] = Rank[s2] => s1 = s2

ASSUME NetAssumption ==
    /\ PrefixLen \in [Nets -> 0..32]
    /\ Inside \in [Nets -> SUBSET Prefixes]
    /\ Captured \in [Addresses -> SUBSET Prefixes]

ASSUME NullAssumption ==
    /\ NoTunnel \notin Addresses
    /\ NoDevice \notin Devices

Vpn == Addresses \cup {NoTunnel}
Device == Devices \cup {NoDevice}

Config == [automation          : {"confirm", "auto"},
           firewall            : BOOLEAN,
           enabled_scopes      : SUBSET Scopes,
           disabled_scopes     : SUBSET Scopes,
           always_allow        : SUBSET Scopes,
           min_claim_prefixlen : 0..32,
           allow_wide_claims   : SUBSET Nets]

\* A scope as a pass carries it: possibly narrowed to the networks the guard
\* lets through, with the device discovery saw.
Scope == [name : Scopes, device : Devices, nets : SUBSET Nets]

\* A claim to drop; the device is NoDevice when only half of it is there.
Claim == [net : Nets, device : Device]

Chains == {"OUTPUT", "INPUT"}

\* An iptables accept of ours: its comment names the scope.
Accept == [scope : Scopes, net : Nets, device : Devices, chain : Chains]

----------------------------------------------------------------------------
(* config.py *)

scope_enabled(s, cfg) ==
    /\ s \notin cfg.disabled_scopes
    /\ s \in cfg.enabled_scopes \cup EnabledByDefault

needs_approval(s, cfg) ==
    /\ cfg.automation = "confirm"
    /\ s \notin cfg.always_allow

width_refusal(n, cfg) ==
    /\ n \notin cfg.allow_wide_claims
    /\ PrefixLen[n] < cfg.min_claim_prefixlen

----------------------------------------------------------------------------
(* reconcile.py; v is a tunnel, cfg a config, dev the device of each scope *)
(* as discovery reports it (NoDevice: not offered, or its link is down).   *)

claim_refusal(n, v, cfg) ==
    /\ n \notin cfg.allow_wide_claims
    /\ \/ width_refusal(n, cfg)
       \/ Captured[v] \cap Inside[n] # {}

keep(s, v, cfg) == {n \in Subnets[s] : ~claim_refusal(n, v, cfg)}

\* Mutant: a scope whose device is down is not passed over.
ClaimantsDown(v, cfg, dev) ==
    {s \in Scopes : /\ v # NoTunnel
                    /\ scope_enabled(s, cfg)
                    /\ keep(s, v, cfg) # {}}

\* The scopes that put at least one network into the dictionary of claims.
Claimants(v, cfg, dev) ==
    {s \in Scopes : /\ v # NoTunnel
                    /\ scope_enabled(s, cfg)
                    /\ dev[s] # NoDevice
                    /\ keep(s, v, cfg) # {}}

desired_nets(v, cfg, dev) ==
    UNION {keep(s, v, cfg) : s \in Claimants(v, cfg, dev)}

\* Mutant: every scope on a network counts as the one that owns it.
OwnsAll(s, n, v, cfg, dev) ==
    s \in Claimants(v, cfg, dev) /\ n \in keep(s, v, cfg)

\* Two scopes on one network: the last one discovered overwrites the first.
Owns(s, n, v, cfg, dev) ==
    /\ s \in Claimants(v, cfg, dev)
    /\ n \in keep(s, v, cfg)
    /\ \A other \in Claimants(v, cfg, dev) :
          n \in keep(other, v, cfg) => Rank[other] <= Rank[s]

desired_scopes(v, cfg, dev) ==
    {s \in Scopes : \E n \in Nets : Owns(s, n, v, cfg, dev)}

\* Mutant: the scope itself is not narrowed.
Whole(s, v, cfg, dev) ==
    [name |-> s, device |-> dev[s], nets |-> Subnets[s]]

Narrowed(s, v, cfg, dev) ==
    [name |-> s, device |-> dev[s], nets |-> keep(s, v, cfg)]

\* Mutant: a rule and its accepts are enough, whatever the route.
to_add_ruled(v, cfg, dev, ruled, routed, accepted) ==
    {Narrowed(s, v, cfg, dev) : s \in
        {s \in Scopes : \E n \in Nets :
            /\ Owns(s, n, v, cfg, dev)
            /\ ~(n \in ruled /\ s \in accepted)}}

\* Mutant: missing accepts are not noticed.
to_add_routed(v, cfg, dev, ruled, routed, accepted) ==
    {Narrowed(s, v, cfg, dev) : s \in
        {s \in Scopes : \E n \in Nets :
            /\ Owns(s, n, v, cfg, dev)
            /\ ~(n \in ruled /\ routed[n] = dev[s])}}

\* Mutant: what is in place is applied again.
to_add_always(v, cfg, dev, ruled, routed, accepted) ==
    {Narrowed(s, v, cfg, dev) : s \in desired_scopes(v, cfg, dev)}

\* ruled, routed: what the listings of the ip rules and of table 150 say;
\* scopes with both accepts, or every scope when that cannot be known or does
\* not matter (reconcile's `firewall is None`).
to_add(v, cfg, dev, ruled, routed, accepted) ==
    {Narrowed(s, v, cfg, dev) : s \in
        {s \in Scopes : \E n \in Nets :
            /\ Owns(s, n, v, cfg, dev)
            /\ ~(n \in ruled /\ routed[n] = dev[s] /\ s \in accepted)}}

\* Mutant: only complete claims are looked at.
to_remove_complete(v, cfg, dev, ruled, routed) ==
    {[net |-> n, device |-> routed[n]] : n \in
        {n \in Nets : /\ n \in ruled /\ routed[n] # NoDevice
                      /\ n \notin desired_nets(v, cfg, dev)}}

to_remove(v, cfg, dev, ruled, routed) ==
    {[net    |-> n,
      device |-> IF n \in ruled THEN routed[n] ELSE NoDevice] : n \in
        {n \in Nets : /\ n \in ruled \/ routed[n] # NoDevice
                      /\ n \notin desired_nets(v, cfg, dev)}}

----------------------------------------------------------------------------
(* apply.py *)

installed_firewall_scopes(accepts) ==
    {s \in Scopes : \A c \in Chains :
        \E a \in accepts : a.scope = s /\ a.chain = c}

============================================================================
