--------------------------- MODULE ReclaimProofs ---------------------------
(***************************************************************************)
(* Proofs about PrefixPlan and Reclaim, for addresses of any number of     *)
(* bits and any host: that a plan covers its subnet, stays inside it and   *)
(* outranks what it was made to beat; the types; that no address is        *)
(* rerouted but those of the subnets a command was offered; that a planned *)
(* route wins; and that a captured scope is never called healthy.          *)
(***************************************************************************)
EXTENDS Reclaim, WellFoundedInduction, TLAPS

----------------------------------------------------------------------------
(* Plans (PrefixPlan).                                                     *)

LEMMA NetworkIsSeq ==
    ASSUME NEW n \in Network
    PROVE  /\ Len(n) \in 0..W
           /\ n \in [1..Len(n) -> Bit]
<1>1. PICK k \in 0..W : n \in [1..k -> Bit]
  BY DEF Network, BoundedSeq, SeqOf
<1>2. k \in Nat /\ Len(n) = k
  BY <1>1, PrefixAssumption
<1> QED BY <1>1, <1>2

LEMMA AddressIsNetwork ==
    ASSUME NEW a \in Address
    PROVE  a \in Network /\ Len(a) = W
<1>1. W \in 0..W
  BY PrefixAssumption
<1> QED BY <1>1, PrefixAssumption DEF Network, BoundedSeq, SeqOf, Address

LEMMA PrefixPointwise ==
    ASSUME NEW s \in Network, NEW t \in Network
    PROVE  IsPrefix(s, t) <=> /\ Len(s) <= Len(t)
                              /\ \A i \in 1..Len(s) : s[i] = t[i]
<1>1. /\ Len(s) \in Nat /\ s \in [1..Len(s) -> Bit]
      /\ Len(t) \in Nat /\ t \in [1..Len(t) -> Bit]
  BY NetworkIsSeq, PrefixAssumption
<1>2. s \in Seq(Bit) /\ t \in Seq(Bit)
  BY <1>1
<1>3. SubSeq(s, 1, Len(s)) = [i \in 1..Len(s) |-> s[i]]
  BY <1>1, <1>2
<1>4. ASSUME Len(s) <= Len(t)
      PROVE  SubSeq(t, 1, Len(s)) = [i \in 1..Len(s) |-> t[i]]
  BY <1>1, <1>2, <1>4
<1> QED BY <1>1, <1>3, <1>4 DEF IsPrefix

\* Splitting covers a subnet: each of its addresses is in exactly one of the
\* networks of a given length.
LEMMA SubnetsPartition ==
    ASSUME NEW net \in Network, NEW k \in Nat, Len(net) <= k, k <= W,
           NEW a \in Address
    PROVE  /\ IsPrefix(net, a) => \E p \in subnets(net, k) : IsPrefix(p, a)
           /\ \A p, q \in subnets(net, k) :
                 IsPrefix(p, a) /\ IsPrefix(q, a) => p = q
           /\ \A p \in subnets(net, k) : IsPrefix(p, a) => IsPrefix(net, a)
<1>1. a \in Network /\ Len(a) = W /\ a \in [1..W -> Bit]
  BY AddressIsNetwork DEF Address
<1>2. ASSUME NEW p \in subnets(net, k)
      PROVE  /\ p \in Network /\ Len(p) = k /\ p \in [1..k -> Bit]
             /\ IsPrefix(net, p)
  BY <1>2, NetworkIsSeq DEF subnets
<1>3. ASSUME IsPrefix(net, a)
      PROVE  \E p \in subnets(net, k) : IsPrefix(p, a)
  <2> DEFINE p == [i \in 1..k |-> a[i]]
  <2>1. p \in [1..k -> Bit] /\ Len(p) = k
    BY <1>1, PrefixAssumption
  <2>2. p \in Network
    BY <2>1, PrefixAssumption DEF Network, BoundedSeq, SeqOf
  <2>3. IsPrefix(net, p)
    <3>1. \A i \in 1..Len(net) : net[i] = a[i]
      BY <1>1, <1>3, PrefixPointwise
    <3>2. Len(net) \in Nat
      BY NetworkIsSeq, PrefixAssumption
    <3>3. \A i \in 1..Len(net) : net[i] = p[i]
      BY <3>1, <3>2
    <3> QED BY <2>1, <2>2, <3>3, PrefixPointwise
  <2>4. IsPrefix(p, a)
    BY <1>1, <2>1, <2>2, PrefixPointwise
  <2> QED BY <2>1, <2>2, <2>3, <2>4 DEF subnets
<1>4. ASSUME NEW p \in subnets(net, k), NEW q \in subnets(net, k),
             IsPrefix(p, a), IsPrefix(q, a)
      PROVE  p = q
  <2>1. /\ p \in [1..k -> Bit] /\ q \in [1..k -> Bit]
        /\ p \in Network /\ Len(p) = k /\ q \in Network /\ Len(q) = k
    BY <1>2
  <2>2. \A i \in 1..k : p[i] = a[i] /\ q[i] = a[i]
    BY <1>1, <1>4, <2>1, PrefixPointwise
  <2> QED BY <2>1, <2>2
<1>5. ASSUME NEW p \in subnets(net, k), IsPrefix(p, a)
      PROVE  IsPrefix(net, a)
  <2>1. p \in Network /\ Len(p) = k /\ IsPrefix(net, p)
    BY <1>2
  <2>2. /\ \A i \in 1..Len(net) : net[i] = p[i]
        /\ \A i \in 1..k : p[i] = a[i]
    BY <1>1, <1>5, <2>1, PrefixPointwise
  <2>3. Len(net) \in Nat
    BY NetworkIsSeq, PrefixAssumption
  <2>4. \A i \in 1..Len(net) : net[i] = a[i]
    BY <2>2, <2>3
  <2> QED BY <1>1, <2>4, PrefixPointwise
<1> QED BY <1>3, <1>4, <1>5

----------------------------------------------------------------------------
LEMMA TargetBeats ==
    ASSUME NEW net \in Network, NEW c \in Nat \cup {NoLength}
    PROVE  /\ Target(net, c) \in Nat
           /\ Target(net, c) > Len(net)
           /\ c \in Nat => Target(net, c) > c
<1>1. Len(net) \in Nat
  BY NetworkIsSeq, PrefixAssumption
<1> QED BY <1>1, PrefixAssumption DEF Target

\* Splitting a subnet covers all of it and nothing else, and no address twice.
\* This is what makes the split the default: no address of the subnet is left
\* to the tunnel, and no address outside it is taken from the tunnel.
THEOREM SplitCovers ==
    ASSUME NEW net \in Network, NEW hosts \in SUBSET Address,
           NEW c \in Nat \cup {NoLength}, NEW how \in Strategy,
           Splits(net, c, how), NEW a \in Address
    PROVE  /\ IsPrefix(net, a) <=>
                 \E p \in plan_reclaim(net, hosts, c, how) : IsPrefix(p, a)
           /\ \A p, q \in plan_reclaim(net, hosts, c, how) :
                 IsPrefix(p, a) /\ IsPrefix(q, a) => p = q
<1> DEFINE k == Target(net, c)
<1>1. /\ k \in Nat /\ Len(net) <= k /\ k <= W
      /\ plan_reclaim(net, hosts, c, how) = subnets(net, k)
  <2>1. k <= W
    BY DEF Splits
  <2>2. plan_reclaim(net, hosts, c, how) = subnets(net, k)
    BY DEF plan_reclaim
  <2>3. k \in Nat /\ k > Len(net) /\ Len(net) \in Nat
    BY TargetBeats, NetworkIsSeq, PrefixAssumption
  <2> QED BY <2>1, <2>2, <2>3
<1> HIDE DEF k
<1>2. /\ IsPrefix(net, a) => \E p \in subnets(net, k) : IsPrefix(p, a)
      /\ \A p, q \in subnets(net, k) : IsPrefix(p, a) /\ IsPrefix(q, a) => p = q
      /\ \A p \in subnets(net, k) : IsPrefix(p, a) => IsPrefix(net, a)
  BY <1>1, SubnetsPartition
<1>3. (\E p \in subnets(net, k) : IsPrefix(p, a)) => IsPrefix(net, a)
  BY <1>2, Zenon
<1> QED BY <1>1, <1>2, <1>3, Zenon

\* Every planned route lies inside the subnet it is planned for, whatever
\* addresses the caller passes: a container of another network of the same
\* stack is never routed into this one's bridge.
THEOREM PlanInside ==
    ASSUME NEW net \in Network, NEW hosts \in SUBSET Address,
           NEW c \in Nat \cup {NoLength}, NEW how \in Strategy,
           NEW p \in plan_reclaim(net, hosts, c, how)
    PROVE  /\ p \in Network
           /\ IsPrefix(net, p)
           /\ p \in hosts \/ Len(p) = Target(net, c)
<1>1. CASE Splits(net, c, how)
  <2>1. p \in subnets(net, Target(net, c))
    BY <1>1 DEF plan_reclaim
  <2> QED BY <2>1 DEF subnets
<1>2. CASE ~Splits(net, c, how)
  <2>1. p \in host_prefixes(net, hosts)
    BY <1>2 DEF plan_reclaim
  <2>2. p \in hosts /\ IsPrefix(net, p)
    BY <2>1 DEF host_prefixes
  <2> QED BY <2>2, AddressIsNetwork
<1> QED BY <1>1, <1>2

\* A planned route outranks whatever route shadows the subnet, provided it was
\* the shadowing route's length the plan was made for, or a shorter one: the
\* "strictly longer" of the whole repair. A host route beats everything but
\* another host route.
THEOREM PlanOutranks ==
    ASSUME NEW net \in Network, NEW hosts \in SUBSET Address,
           NEW c \in Nat \cup {NoLength}, NEW how \in Strategy,
           NEW p \in plan_reclaim(net, hosts, c, how),
           NEW rival \in Network, Overlap(p, rival), Len(rival) < W,
           Len(rival) <= Len(net) \/ (c \in Nat /\ Len(rival) <= c)
    PROVE  outranks(p, rival)
<1>1. /\ p \in Network
      /\ p \in hosts \/ Len(p) = Target(net, c)
  BY PlanInside
<1>2. Len(rival) \in Nat /\ Len(net) \in Nat
  BY NetworkIsSeq, PrefixAssumption
<1>3. CASE p \in hosts
  BY <1>2, <1>3, AddressIsNetwork, PrefixAssumption DEF outranks
<1>4. CASE Len(p) = Target(net, c)
  <2>1. /\ Target(net, c) \in Nat /\ Target(net, c) > Len(net)
        /\ c \in Nat => Target(net, c) > c
    BY TargetBeats
  <2>2. Len(p) > Len(rival)
    BY <1>2, <1>4, <2>1
  <2> QED BY <2>2 DEF outranks
<1> QED BY <1>1, <1>3, <1>4

----------------------------------------------------------------------------
(* Operators.                                                              *)

LEMMA NetOfType ==
    ASSUME NEW a, a.address \in Address, a.length \in 0..W
    PROVE  NetOf(a) \in Network
<1>1. a.address \in [1..W -> Bit] /\ W \in Nat
  BY PrefixAssumption DEF Address
<1>2. NetOf(a) = [i \in 1..a.length |-> a.address[i]]
  BY <1>1 DEF NetOf
<1>3. NetOf(a) \in [1..a.length -> Bit]
  BY <1>1, <1>2
<1> QED BY <1>3 DEF Network, BoundedSeq, SeqOf

LEMMA KnownType ==
    ASSUME NEW n \in Known
    PROVE  /\ NetworksOf(n) \subseteq Network
           /\ n.containers \subseteq Address
           /\ GatewaysOf(n) \subseteq Address
  BY HostAssumption DEF Known

\* Scopes are made of the networks and addresses that were read.
LEMMA ScopesType ==
    ASSUME NEW B, DOMAIN B \subseteq Known, NEW A,
           \A a \in A : a.address \in Address /\ a.length \in 0..W,
           NEW s \in discover_scopes(B, A)
    PROVE  ScopeType(s)
<1>1. ASSUME NEW H, s \in docker_scopes(B, H)
      PROVE  ScopeType(s)
  <2>1. PICK n \in Known : s.nets = NetworksOf(n) /\ s.hosts = live_hosts(n, H)
    BY <1>1 DEF docker_scopes
  <2> QED BY <2>1, KnownType DEF ScopeType, live_hosts
<1>2. ASSUME NEW kind, NEW H, NEW A2 \in SUBSET A, s \in host_scopes(A2, kind, H)
      PROVE  ScopeType(s)
  <2>1. PICK i : s.nets = Offered(i, A2) /\ s.hosts = {}
    BY <1>2 DEF host_scopes
  <2>2. Offered(i, A2) \subseteq Network
    BY NetOfType DEF Offered
  <2> QED BY <2>1, <2>2 DEF ScopeType
<1> QED BY <1>1, <1>2, Zenon DEF discover_scopes

\* A planned route lies in a network of its scope and goes to its device.
LEMMA PlanType ==
    ASSUME NEW s, ScopeType(s), NEW how \in Strategy,
           NEW beat, \A net \in s.nets : beat[net] \in Nat \cup {NoLength},
           NEW r \in route_actions(s, beat, how)
    PROVE  /\ r.prefix \in Network
           /\ r.device = s.device
           /\ \E net \in s.nets : IsPrefix(net, r.prefix)
<1>1. PICK net \in s.nets : 
         \E p \in plan_reclaim(net, s.hosts, beat[net], how) :
            r = [prefix |-> p, device |-> s.device]
  BY DEF route_actions, planned
<1>2. PICK p \in plan_reclaim(net, s.hosts, beat[net], how) :
         r = [prefix |-> p, device |-> s.device]
  BY <1>1
<1>3. net \in Network /\ s.hosts \in SUBSET Address /\ beat[net] \in Nat \cup {NoLength}
  BY DEF ScopeType
<1>4. p \in Network /\ IsPrefix(net, p)
  BY <1>3, PlanInside
<1> QED BY <1>2, <1>4

LEMMA ShadowsType ==
    ASSUME NEW net, vpn \subseteq Network, NEW c \in shadows(net), c # NoLength
    PROVE  c \in Nat
  BY NetworkIsSeq, PrefixAssumption DEF shadows, Shadows

----------------------------------------------------------------------------
(* Types.                                                                  *)

LEMMA AddrsType ==
    ASSUME networks \in Docks, NEW a \in Addrs
    PROVE  a.address \in Address /\ a.length \in 0..W
<1>1. CASE a \in HostAddrs
  BY <1>1, HostAssumption
<1>2. CASE a \notin HostAddrs
  <2>1. PICK n \in networks : \E s \in n.subnets :
           /\ s.gateway # NoAddress
           /\ a.address = s.gateway /\ a.length = Len(s.network)
    BY <1>2 DEF Addrs
  <2>2. PICK s \in n.subnets :
           /\ s.gateway # NoAddress
           /\ a.address = s.gateway /\ a.length = Len(s.network)
    BY <2>1
  <2>3. s.gateway \in GatewaysOf(n) /\ s.network \in NetworksOf(n)
    BY <2>2 DEF GatewaysOf, NetworksOf
  <2> QED BY <2>2, <2>3, HostAssumption, NetworkIsSeq
<1> QED BY <1>1, <1>2

LEMMA RoutesType ==
    ASSUME TypeOK, NEW r \in MainRoutes(ours)
    PROVE  r.prefix \in Network
<1>1. networks \in Docks /\ captured \subseteq Network
  BY DEF TypeOK
<1>2. ASSUME NEW p \in captured, r = [prefix |-> p, device |-> Tunnel]
      PROVE  r.prefix \in Network
  BY <1>1, <1>2
<1>3. ASSUME NEW i \in Addrs, r = [prefix |-> NetOf(i), device |-> i.ifname]
      PROVE  r.prefix \in Network
  <2>1. i.address \in Address /\ i.length \in 0..W
    BY <1>1, AddrsType
  <2>2. NetOf(i) \in Network
    BY <2>1, NetOfType
  <2> QED BY <1>3, <2>2
<1>4. CASE r \in Foreign
  BY <1>4, HostAssumption
<1>5. CASE r \in ours
  BY <1>5 DEF TypeOK
<1> QED BY <1>2, <1>3, <1>4, <1>5 DEF MainRoutes

LEMMA InitType == Init => TypeOK
<1> SUFFICES ASSUME Init PROVE TypeOK
  OBVIOUS
<1>1. captured \subseteq Network
  BY HostAssumption DEF Init
<1>2. spent \in [Kinds -> Nat]
  BY DEF Init
<1>3. DOMAIN bridges \subseteq Known
  BY DEF Init, Nothing
<1> QED BY <1>1, <1>2, <1>3 DEF Init, TypeOK, PCs, Strategy

LEMMA SpendType ==
    ASSUME spent \in [Kinds -> Nat], NEW k \in Kinds, Spend(k)
    PROVE  spent' \in [Kinds -> Nat]
  BY DEF Spend

LEMMA ClassifyType ==
    ASSUME NEW scope, NEW bad PROVE classify(scope, bad) \in ScopeState
  BY DEF classify, ScopeState

LEMMA TypeStep ==
    ASSUME TypeOK, [Next]_vars
    PROVE  TypeOK'
<1> USE DEF TypeOK, PCs, Strategy
<1>0. "move" \in Kinds /\ "fault" \in Kinds /\ "command" \in Kinds
  BY DEF Kinds
<1>1. CASE TunnelMoves
  <2>1. captured' \subseteq Network
    BY <1>1, HostAssumption DEF TunnelMoves
  <2>2. spent' \in [Kinds -> Nat]
    BY <1>0, <1>1, SpendType DEF TunnelMoves
  <2> QED BY <1>1, <2>1, <2>2 DEF TunnelMoves, installed, reading, acting
<1>2. CASE DockerMoves
  <2>1. networks' \in Docks /\ ours' \subseteq ours
    BY <1>2 DEF DockerMoves
  <2>2. spent' \in [Kinds -> Nat]
    BY <1>0, <1>2, SpendType DEF DockerMoves
  <2> QED BY <1>2, <2>1, <2>2 DEF DockerMoves, reading, acting
<1>3. CASE Begin
  <2>1. spent' \in [Kinds -> Nat]
    BY <1>0, <1>3, SpendType DEF Begin
  <2> QED BY <1>3, <2>1 DEF Begin, world, installed, reading, acting
<1>4. CASE Look
  BY <1>4 DEF Look, world, installed, acting
<1>5. CASE ReadAddresses
  <2>1. \A a \in addrs' : a.address \in Address /\ a.length \in 0..W
    BY <1>5, AddrsType DEF ReadAddresses
  <2> QED BY <1>5, <2>1 DEF ReadAddresses, world, installed, acting
<1>6. CASE ListNetworks
  <2>1. listed' \subseteq {n.id : n \in Known}
    BY <1>6 DEF ListNetworks, Known
  <2>2. spent' \in [Kinds -> Nat]
    BY <1>0, <1>6, SpendType DEF ListNetworks
  <2> QED BY <1>6, <2>1, <2>2 DEF ListNetworks, world, installed, acting
<1>7. CASE Inspect
  <2>1. inspected' \subseteq Known
    BY <1>7 DEF Inspect, Known
  <2> QED BY <1>7, <2>1 DEF Inspect, world, installed, acting
<1>8. CASE ResolveBridges
  <2>1. DOMAIN bridges' \subseteq Known
    BY <1>8 DEF ResolveBridges
  <2> QED BY <1>8, <2>1 DEF ResolveBridges, world, installed, acting
<1>9. CASE Diagnose
  <2>1. \A s \in discover_scopes(bridges, addrs) : ScopeType(s)
    BY ScopesType
  <2>2. \A d \in diagnoses' : ScopeType(d.scope) /\ d.state \in ScopeState
    <3> SUFFICES ASSUME NEW d \in diagnoses'
                 PROVE  ScopeType(d.scope) /\ d.state \in ScopeState
      OBVIOUS
    <3>1. PICK s \in discover_scopes(bridges, addrs) : \E bad :
             d = [scope |-> s, state |-> classify(s, bad)]
      BY <1>9 DEF Diagnose
    <3> QED BY <2>1, <3>1, ClassifyType
  <2>3. \A o \in offered' : o.net \in Network
    BY <1>9, <2>1 DEF Diagnose, ScopeType
  <2>4. spent' \in [Kinds -> Nat] /\ still' \in BOOLEAN
    BY <1>0, <1>9, SpendType DEF Diagnose
  <2>5. DOMAIN bridges' \subseteq Known
    BY <1>9 DEF Diagnose, Nothing
  <2> QED BY <1>9, <2>2, <2>3, <2>4, <2>5 DEF Diagnose, world, installed, acting
<1>10. CASE Status
  <2>1. code' \in {"ok", "needs_fix", "error"}
    BY <1>10 DEF Status, exit_code
  <2> QED BY <1>10, <2>1 DEF Status, Ends, world, installed
<1>11. CASE Verify
  <2>1. code' \in {"ok", "needs_fix", "error"}
    BY <1>11 DEF Verify
  <2> QED BY <1>11, <2>1 DEF Verify, Ends, world, installed
<1>12. CASE Select
  <2>1. strategy' \in Strategy
    BY <1>12 DEF Select
  <2>2. \A s \in targets' : ScopeType(s)
    BY <1>12 DEF Select, Shown
  <2>3. \A s \in targets' : \A net \in s.nets : against'[net] \in Nat \cup {NoLength}
    BY <1>12, PrefixAssumption DEF Select
  <2>4. \A r \in todo' : r.prefix \in Network
    <3> SUFFICES ASSUME NEW r \in todo' PROVE r.prefix \in Network
      OBVIOUS
    <3>1. PICK s \in targets' : r \in route_actions(s, against', strategy')
      BY <1>12 DEF Select
    <3> QED BY <2>1, <2>2, <2>3, <3>1, PlanType
  <2> QED BY <1>12, <2>1, <2>2, <2>4 DEF Select, world, installed
<1>13. CASE SelectNone
  BY <1>13 DEF SelectNone, Ends, world, installed
<1>14. CASE AddRoute
  <2>1. ours' \subseteq ours \cup todo /\ todo' \subseteq todo
    BY <1>14 DEF AddRoute
  <2>2. code' \in {"ok", "needs_fix", "error"}
    BY <1>14 DEF AddRoute
  <2>3. spent' \in [Kinds -> Nat]
    BY <1>0, <1>14, SpendType DEF AddRoute
  <2> QED BY <1>14, <2>1, <2>2, <2>3 DEF AddRoute, world, reading
<1>15. CASE Finish
  <2>1. code' \in {"ok", "needs_fix", "error"}
    BY <1>15 DEF Finish
  <2> QED BY <1>15, <2>1 DEF Finish, Ends, world
<1>16. CASE Die
  <2>1. spent' \in [Kinds -> Nat]
    BY <1>0, <1>16, SpendType DEF Die
  <2> QED BY <1>16, <2>1 DEF Die, Ends, world, installed
<1>17. CASE Revert
  <2>1. ours' \subseteq ours
    BY <1>17 DEF Revert
  <2>2. spent' \in [Kinds -> Nat]
    BY <1>0, <1>17, SpendType DEF Revert
  <2> QED BY <1>17, <2>1, <2>2 DEF Revert, world, reading, acting
<1>18. CASE UNCHANGED vars
  BY <1>18 DEF vars, world, installed, reading, acting
<1> QED
  BY <1>1, <1>2, <1>3, <1>4, <1>5, <1>6, <1>7, <1>8, <1>9, <1>10, <1>11,
     <1>12, <1>13, <1>14, <1>15, <1>16, <1>17, <1>18 DEF Next, CommandStep

\* The types of Reclaim (TypeOK): what is read of a host, planned for it and
\* installed on it are networks and addresses throughout.
THEOREM TypeCorrect == Spec => []TypeOK
<1> QED BY InitType, TypeStep, PTL DEF Spec

----------------------------------------------------------------------------
(* No address is rerouted but those of the subnets that were offered.      *)

LEMMA PrefixTransitive ==
    ASSUME NEW s \in Network, NEW t \in Network, NEW u \in Network,
           IsPrefix(s, t), IsPrefix(t, u)
    PROVE  IsPrefix(s, u)
<1>1. Len(s) \in Nat /\ Len(t) \in Nat /\ Len(u) \in Nat
  BY NetworkIsSeq, PrefixAssumption
<1>2. Len(s) <= Len(t) /\ \A i \in 1..Len(s) : s[i] = t[i]
  BY PrefixPointwise
<1>3. Len(t) <= Len(u) /\ \A i \in 1..Len(t) : t[i] = u[i]
  BY PrefixPointwise
<1>4. Len(s) <= Len(u) /\ \A i \in 1..Len(s) : s[i] = u[i]
  BY <1>1, <1>2, <1>3
<1> QED BY <1>4, PrefixPointwise

\* A set of numbers that is not empty has a least one.
LEMMA Least ==
    ASSUME NEW S \in SUBSET Nat, S # {}
    PROVE  \E m \in S : \A k \in S : m <= k
<1> DEFINE R == OpToRel(<, Nat)
<1>1. IsWellFoundedOn(R, Nat)
  BY NatLessThanWellFounded
<1>2. \A x, y \in Nat : x < y => <<x, y>> \in R
  BY DEF OpToRel
<1> HIDE DEF R
<1>3. PICK x \in S : \A y \in S : ~(<<y, x>> \in R)
  BY <1>1, WFMin
<1>4. ASSUME NEW y \in S PROVE x <= y
  <2>1. x \in Nat /\ y \in Nat
    OBVIOUS
  <2>2. ~(<<y, x>> \in R)
    BY <1>3
  <2>3. ~(y < x)
    BY <1>2, <2>1, <2>2, Zenon
  <2> QED BY <2>1, <2>3
<1> QED BY <1>4

\* Among the routes that cover an address one is the longest.
LEMMA LongestExists ==
    ASSUME NEW a, NEW routes, \A r \in routes : r.prefix \in Network,
           Fits(a, routes) # {}
    PROVE  Longest(a, routes) # {}
<1> DEFINE S == {W - Len(r.prefix) : r \in Fits(a, routes)}
<1>1. \A r \in Fits(a, routes) : Len(r.prefix) \in 0..W
  BY NetworkIsSeq DEF Fits
<1>2. S \in SUBSET Nat /\ S # {}
  BY <1>1, PrefixAssumption
<1>3. PICK m \in S : \A k \in S : m <= k
  BY <1>2, Least
<1>4. PICK r \in Fits(a, routes) : m = W - Len(r.prefix)
  BY <1>3
<1>5. ASSUME NEW q \in Fits(a, routes) PROVE Len(q.prefix) <= Len(r.prefix)
  <2>1. W - Len(r.prefix) <= W - Len(q.prefix)
    BY <1>3, <1>4
  <2> QED BY <1>1, <2>1, PrefixAssumption
<1> QED BY <1>4, <1>5 DEF Longest

\* Routes that are never the longest do not matter.
LEMMA OnlyLongestMatters ==
    ASSUME NEW a, NEW base, NEW mine,
           \A r \in base \cup mine : r.prefix \in Network,
           \A r \in mine : r \notin Longest(a, base \cup mine)
    PROVE  Longest(a, base \cup mine) = Longest(a, base)
<1> DEFINE all == base \cup mine
<1>1. Fits(a, base) \subseteq Fits(a, all)
  BY DEF Fits
<1>2. Longest(a, all) \subseteq Fits(a, base)
  BY DEF Longest, Fits
<1>3. Longest(a, all) \subseteq Longest(a, base)
  BY <1>1, <1>2 DEF Longest
<1>4. ASSUME NEW q \in Longest(a, base) PROVE q \in Longest(a, all)
  <2>1. q \in Fits(a, all)
    BY <1>1 DEF Longest
  <2>2. PICK m \in Longest(a, all) : TRUE
    BY <2>1, LongestExists
  <2>3. Len(m.prefix) <= Len(q.prefix)
    BY <1>2, <2>2 DEF Longest
  <2>4. ASSUME NEW p \in Fits(a, all) PROVE Len(p.prefix) <= Len(q.prefix)
    <3>1. Len(p.prefix) <= Len(m.prefix)
      BY <2>2 DEF Longest
    <3>2. p.prefix \in Network /\ m.prefix \in Network /\ q.prefix \in Network
      BY <2>1, <2>2 DEF Longest, Fits
    <3>3. Len(p.prefix) \in Nat /\ Len(m.prefix) \in Nat /\ Len(q.prefix) \in Nat
      BY <3>2, NetworkIsSeq, PrefixAssumption
    <3> QED BY <2>3, <3>1, <3>3
  <2> QED BY <2>1, <2>4 DEF Longest
<1> QED BY <1>3, <1>4

\* Every scope that is diagnosed was offered, and every route that is planned
\* or installed lies in the network of one that was, on its device.
OfferInv ==
    /\ \A d \in diagnoses : \A net \in d.scope.nets :
          [net |-> net, device |-> d.scope.device] \in offered
    /\ \A r \in todo \cup ours :
          \E o \in offered : o.device = r.device /\ IsPrefix(o.net, r.prefix)

LEMMA OfferStep ==
    ASSUME TypeOK, OfferInv, [Next]_vars
    PROVE  OfferInv'
<1> USE DEF OfferInv
<1>1. CASE Diagnose
  <2>1. offered \subseteq offered'
    BY <1>1 DEF Diagnose
  <2>2. ASSUME NEW d \in diagnoses', NEW net \in d.scope.nets
        PROVE  [net |-> net, device |-> d.scope.device] \in offered'
    <3>0. PICK it \in discover_scopes(bridges, addrs) : \E bad :
             d = [scope |-> it, state |-> classify(it, bad)]
      BY <1>1, <2>2 DEF Diagnose
    <3>1. d.scope \in discover_scopes(bridges, addrs)
      BY <3>0
    <3>2. [net |-> net, device |-> d.scope.device] \in
             UNION {{[net |-> n, device |-> s.device] : n \in s.nets} :
                       s \in discover_scopes(bridges, addrs)}
      BY <2>2, <3>1
    <3> QED BY <1>1, <3>2 DEF Diagnose
  <2>3. todo' \cup ours' = todo \cup ours
    BY <1>1 DEF Diagnose, installed, acting
  <2> QED BY <2>1, <2>2, <2>3
<1>2. CASE Select
  <2>1. offered' = offered /\ diagnoses' = {} /\ ours' = ours
    BY <1>2 DEF Select, installed
  <2>2. ASSUME NEW r \in todo'
        PROVE  \E o \in offered : o.device = r.device /\ IsPrefix(o.net, r.prefix)
    <3>1. PICK s \in targets' : r \in route_actions(s, against', strategy')
      BY <1>2, <2>2 DEF Select
    <3>2. PICK d \in diagnoses : s = d.scope
      BY <1>2, <3>1 DEF Select, Shown
    <3>3. ScopeType(s) /\ strategy' \in Strategy
      BY <1>2, <3>2 DEF TypeOK, Select
    <3>4. \A net \in s.nets : against'[net] \in Nat \cup {NoLength}
      BY <1>2, <3>1, PrefixAssumption DEF Select
    <3>5. /\ r.device = s.device
          /\ \E net \in s.nets : IsPrefix(net, r.prefix)
      BY <3>1, <3>3, <3>4, PlanType
    <3>6. PICK net \in s.nets : IsPrefix(net, r.prefix)
      BY <3>5
    <3>7. [net |-> net, device |-> s.device] \in offered
      BY <3>2, <3>6
    <3> QED BY <3>5, <3>6, <3>7
  <2> QED BY <2>1, <2>2
<1>3. CASE AddRoute
  <2>1. ours' \subseteq ours \cup todo /\ todo' \subseteq todo
    BY <1>3 DEF AddRoute
  <2>2. offered' = offered /\ diagnoses' = diagnoses
    BY <1>3 DEF AddRoute
  <2> QED BY <2>1, <2>2
<1>4. CASE TunnelMoves \/ DockerMoves \/ Begin \/ Look \/ ReadAddresses
              \/ ListNetworks \/ Inspect \/ ResolveBridges \/ Revert \/ UNCHANGED vars
  <2>1. offered' = offered /\ diagnoses' = diagnoses /\ todo' = todo
    BY <1>4 DEF TunnelMoves, DockerMoves, Begin, Look, ReadAddresses,
         ListNetworks, Inspect, ResolveBridges, Revert, vars, acting
  <2>2. ours' \subseteq ours
    BY <1>4 DEF TunnelMoves, DockerMoves, Begin, Look, ReadAddresses,
         ListNetworks, Inspect, ResolveBridges, Revert, vars, installed
  <2> QED BY <2>1, <2>2
<1>5. CASE Status \/ Verify \/ SelectNone \/ Finish \/ Die
  <2>1. offered' = offered /\ diagnoses' = {} /\ ours' = ours
    BY <1>5 DEF Status, Verify, SelectNone, Finish, Die, Ends, installed
  <2>2. todo' \subseteq todo
    BY <1>5 DEF Status, Verify, SelectNone, Finish, Die
  <2> QED BY <2>1, <2>2
<1> QED
  BY <1>1, <1>2, <1>3, <1>4, <1>5 DEF Next, CommandStep

LEMMA OfferedOnly ==
    ASSUME TypeOK, OfferInv
    PROVE  OnlyOffered
<1> DEFINE base == MainRoutes({})
<1>1. MainRoutes(ours) = base \cup ours
  BY DEF MainRoutes
<1> SUFFICES ASSUME NEW a \in Address,
                    Via(a, base \cup ours) # Via(a, base)
             PROVE  \E o \in offered :
                       IsPrefix(o.net, a) /\ o.device \in Best(a, base \cup ours)
  BY <1>1 DEF OnlyOffered
<1>2. \A r \in base \cup ours : r.prefix \in Network
  BY <1>1, RoutesType
<1> HIDE DEF base
<1>3. Longest(a, base \cup ours) # Longest(a, base)
  BY DEF Via, Best
<1>4. PICK r \in ours : r \in Longest(a, base \cup ours)
  BY <1>2, <1>3, OnlyLongestMatters
<1>5. IsPrefix(r.prefix, a) /\ r.device \in Best(a, base \cup ours)
  BY <1>4 DEF Longest, Fits, Best
<1>6. PICK o \in offered : o.device = r.device /\ IsPrefix(o.net, r.prefix)
  BY DEF OfferInv
<1>7. o.net \in Network /\ r.prefix \in Network /\ a \in Network
  BY AddressIsNetwork DEF TypeOK
<1>8. IsPrefix(o.net, a)
  BY <1>5, <1>6, <1>7, PrefixTransitive
<1> QED BY <1>5, <1>6, <1>8

\* The routes of apply reroute the addresses of the subnets a command was
\* offered and no other (OnlyOffered): whatever moves while the commands look
\* and act, whichever of their commands fail, and at whatever point they stop.
THEOREM OfferedOnlyAlways == Spec => []OnlyOffered
<1>1. Init => OfferInv
  BY DEF Init, OfferInv
<1>2. TypeOK /\ OfferInv /\ [Next]_vars => OfferInv'
  BY OfferStep
<1>3. TypeOK /\ OfferInv => OnlyOffered
  BY OfferedOnly
<1> QED BY <1>1, <1>2, <1>3, TypeCorrect, PTL DEF Spec

----------------------------------------------------------------------------
(* The planned routes win.                                                 *)

\* Two prefixes of one address overlap.
LEMMA PrefixesCompare ==
    ASSUME NEW s \in Network, NEW t \in Network, NEW u \in Network,
           IsPrefix(s, u), IsPrefix(t, u)
    PROVE  Overlap(s, t)
<1>1. Len(s) \in Nat /\ Len(t) \in Nat /\ Len(u) \in Nat
  BY NetworkIsSeq, PrefixAssumption
<1>2. /\ \A i \in 1..Len(s) : s[i] = u[i]
      /\ \A i \in 1..Len(t) : t[i] = u[i]
  BY PrefixPointwise
<1>3. CASE Len(s) <= Len(t)
  <2>1. \A i \in 1..Len(s) : s[i] = t[i]
    BY <1>1, <1>2, <1>3
  <2> QED BY <1>3, <2>1, PrefixPointwise DEF Overlap
<1>4. CASE Len(t) <= Len(s)
  <2>1. \A i \in 1..Len(t) : t[i] = s[i]
    BY <1>1, <1>2, <1>4
  <2> QED BY <1>4, <2>1, PrefixPointwise DEF Overlap
<1> QED BY <1>1, <1>3, <1>4

\* A route that nothing else comes near decides.
LEMMA OnlyDevice ==
    ASSUME NEW a, NEW routes, \A r \in routes : r.prefix \in Network,
           NEW q \in Fits(a, routes), NEW device,
           \A r \in Fits(a, routes) :
              r.device # device => Len(r.prefix) < Len(q.prefix)
    PROVE  Via(a, routes) = device
<1>1. \A r \in Fits(a, routes) : Len(r.prefix) \in Nat
  BY NetworkIsSeq, PrefixAssumption DEF Fits
<1>2. \A r \in Longest(a, routes) : r.device = device
  BY <1>1 DEF Longest
<1>3. Longest(a, routes) # {}
  BY LongestExists
<1>4. Best(a, routes) = {device}
  BY <1>2, <1>3 DEF Best
<1> QED BY <1>4 DEF Via

\* While apply adds its routes and nothing moves, its targets are up, what it
\* still has to add is planned for them, and the rest of the plan is in the
\* table unless a command failed.
WinInv ==
    pc = "add" /\ still =>
       /\ \A s \in targets : Up(s.device)
       /\ \A s \in targets : \A net \in s.nets : against[net] \in Nat \cup {NoLength}
       /\ \A r \in todo : \E s \in targets : r \in route_actions(s, against, strategy)
       /\ code = "ok" =>
             \A s \in targets : \A r \in route_actions(s, against, strategy) :
                r \in todo \/ \E q \in MainRoutes(ours) : q.prefix = r.prefix

\* Adding a route keeps WinInv: it goes into the table, or the command is no
\* longer a success.
LEMMA AddRouteWin ==
    ASSUME TypeOK, WinInv, AddRoute
    PROVE  WinInv'
<1>1. /\ UNCHANGED <<world, strategy, targets, against, still, pc>>
      /\ networks' = networks /\ captured' = captured
  BY DEF AddRoute, world
<1> SUFFICES ASSUME still PROVE WinInv'
  BY <1>1 DEF WinInv
<1>2. pc = "add"
  BY DEF AddRoute
<1>3. PICK r \in todo :
         /\ todo' = todo \ {r}
         /\ \/ /\ \E q \in MainRoutes(ours) : q.prefix = r.prefix
               /\ UNCHANGED <<ours, code, spent>>
            \/ /\ \A q \in MainRoutes(ours) : q.prefix # r.prefix
               /\ r.device \in Links(networks)
               /\ ours' = IF Up(r.device) THEN ours \cup {r} ELSE ours
               /\ UNCHANGED <<code, spent>>
            \/ code' = "error"
  BY DEF AddRoute
<1>4. PICK s \in targets : r \in route_actions(s, against, strategy)
  BY <1>2 DEF WinInv
<1>5. Up(r.device)
  <2>1. r.device = s.device
    BY <1>2, <1>4, PlanType DEF TypeOK, WinInv
  <2> QED BY <1>2, <2>1 DEF WinInv
<1>6. ours \subseteq ours'
  BY DEF AddRoute
<1>7. MainRoutes(ours) \subseteq MainRoutes(ours)'
  BY <1>1, <1>6 DEF MainRoutes, Addrs
<1>8. ASSUME code' = "ok"
      PROVE  code = "ok" /\ \E q \in MainRoutes(ours)' : q.prefix = r.prefix
  <2>1. CASE (\E q \in MainRoutes(ours) : q.prefix = r.prefix) /\ UNCHANGED code
    BY <1>7, <1>8, <2>1
  <2>2. CASE ours' = (IF Up(r.device) THEN ours \cup {r} ELSE ours) /\ UNCHANGED code
    <3>1. r \in ours'
      BY <1>5, <2>2
    <3>2. r \in MainRoutes(ours)'
      BY <3>1 DEF MainRoutes
    <3> QED BY <1>8, <2>2, <3>2
  <2> QED BY <1>3, <1>8, <2>1, <2>2
<1>9. ASSUME code' = "ok", NEW x \in targets,
             NEW q \in route_actions(x, against, strategy)
      PROVE  q \in todo' \/ \E m \in MainRoutes(ours)' : m.prefix = q.prefix
  <2>1. q \in todo \/ \E m \in MainRoutes(ours) : m.prefix = q.prefix
    BY <1>2, <1>8, <1>9 DEF WinInv
  <2>2. q \in todo' \/ q = r \/ \E m \in MainRoutes(ours)' : m.prefix = q.prefix
    BY <1>3, <1>7, <2>1
  <2> QED BY <1>8, <1>9, <2>2
<1>10. \A x \in targets : Up(x.device)'
  BY <1>1, <1>2 DEF WinInv, Up
<1>11. \A q \in todo' : \E x \in targets : q \in route_actions(x, against, strategy)
  BY <1>2, <1>3 DEF WinInv
<1>12. \A x \in targets : \A net \in x.nets : against[net] \in Nat \cup {NoLength}
  BY <1>2 DEF WinInv
<1> QED BY <1>1, <1>9, <1>10, <1>11, <1>12 DEF WinInv

\* What Select plans is planned for scopes that are up.
LEMMA SelectWin ==
    ASSUME Select
    PROVE  WinInv'
<1>1. \A s \in targets' : Up(s.device)'
  BY DEF Select, Up, world
<1>2. \A s \in targets' : \A net \in s.nets : against'[net] \in Nat \cup {NoLength}
  BY PrefixAssumption DEF Select
<1>3. todo' = UNION {route_actions(s, against', strategy') : s \in targets'}
  BY DEF Select
<1> QED BY <1>1, <1>2, <1>3 DEF WinInv

LEMMA WinStep ==
    ASSUME TypeOK, WinInv, [Next]_vars
    PROVE  WinInv'
<1>1. CASE TunnelMoves
  <2>1. pc' = "add" => ~still'
    BY <1>1 DEF TunnelMoves
  <2> QED BY <2>1 DEF WinInv
<1>2. CASE DockerMoves
  <2>1. pc' = "add" => ~still'
    BY <1>2 DEF DockerMoves
  <2> QED BY <2>1 DEF WinInv
<1>3. CASE Begin \/ Look \/ ReadAddresses \/ ListNetworks \/ Inspect
              \/ ResolveBridges \/ Diagnose
  <2>1. pc' # "add"
    BY <1>3 DEF Begin, Look, ReadAddresses, ListNetworks, Inspect,
         ResolveBridges, Diagnose
  <2> QED BY <2>1 DEF WinInv
<1>4. CASE Status \/ Verify \/ SelectNone \/ Finish \/ Die \/ Revert
  <2>1. pc' # "add"
    BY <1>4 DEF Status, Verify, SelectNone, Finish, Die, Revert, Ends
  <2> QED BY <2>1 DEF WinInv
<1>5. CASE Select
  BY <1>5, SelectWin
<1>6. CASE AddRoute
  BY <1>6, AddRouteWin
<1>7. CASE UNCHANGED vars
  <2>1. /\ UNCHANGED <<pc, still, targets, against, todo, strategy, code, ours>>
        /\ networks' = networks /\ captured' = captured
    BY <1>7 DEF vars, world, installed, acting
  <2>2. /\ \A s \in targets : Up(s.device)' <=> Up(s.device)
        /\ MainRoutes(ours)' = MainRoutes(ours)
    BY <2>1 DEF Up, MainRoutes, Addrs
  <2> QED BY <2>1, <2>2 DEF WinInv
<1> QED
  BY <1>1, <1>2, <1>3, <1>4, <1>5, <1>6, <1>7 DEF Next, CommandStep

\* A planned prefix is longer than every rival it overlaps (PlanOutranks), and
\* the longest prefix decides.
LEMMA WinInvWins ==
    ASSUME TypeOK, WinInv
    PROVE  PlannedWins
<1> SUFFICES ASSUME pc = "add", todo = {}, code = "ok", still,
                    NEW s \in targets, NEW net \in s.nets,
                    \A q \in MainRoutes(ours) :
                       Overlap(q.prefix, net) /\ q.device # s.device
                          => Beatable(q.prefix, net),
                    NEW r \in planned(net, s, against, strategy),
                    NEW a \in Hosts(r.prefix)
             PROVE  RouteDevice(a) \in {s.device, Loopback}
  BY DEF PlannedWins
<1> DEFINE routes == MainRoutes(ours)
           p == r.prefix
<1>1. /\ s.hosts \in SUBSET Address /\ net \in Network
      /\ strategy \in Strategy /\ against[net] \in Nat \cup {NoLength}
  BY DEF TypeOK, ScopeType, WinInv
<1>2. p \in plan_reclaim(net, s.hosts, against[net], strategy)
  BY DEF planned
<1>3. p \in Network /\ IsPrefix(net, p)
  BY <1>1, <1>2, PlanInside
<1>4. \A q \in routes : q.prefix \in Network
  BY RoutesType
<1>5. ASSUME NEW q \in routes, q.device # s.device,
             Overlap(q.prefix, net), Overlap(p, q.prefix)
      PROVE  Len(p) > Len(q.prefix)
  <2>1. Beatable(q.prefix, net)
    BY <1>5
  <2>2. outranks(p, q.prefix)
    <3>1. /\ Len(q.prefix) < W
          /\ \/ Len(q.prefix) <= Len(net)
             \/ against[net] \in Nat /\ Len(q.prefix) <= against[net]
      BY <1>1, <2>1 DEF Beatable
    <3> QED BY <1>1, <1>2, <1>4, <1>5, <3>1, PlanOutranks
  <2> QED BY <2>2 DEF outranks
<1>6. r \in route_actions(s, against, strategy)
  BY DEF route_actions
<1>7. PICK q \in routes : q.prefix = p
  BY <1>6 DEF WinInv
<1>8. a \in Address /\ IsPrefix(p, a)
  BY DEF Hosts
<1>9. q \in Fits(a, routes)
  BY <1>7, <1>8 DEF Fits
<1>10. ASSUME NEW m \in Fits(a, routes), m.device # s.device
       PROVE  Len(m.prefix) < Len(q.prefix)
  <2>1. m \in routes /\ IsPrefix(m.prefix, a)
    BY DEF Fits
  <2>2. a \in Network
    BY <1>8, AddressIsNetwork
  <2>3. IsPrefix(net, a)
    BY <1>1, <1>3, <1>8, <2>2, PrefixTransitive
  <2>4. Overlap(m.prefix, net) /\ Overlap(p, m.prefix)
    BY <1>1, <1>3, <1>4, <1>8, <2>1, <2>2, <2>3, PrefixesCompare
  <2> QED BY <1>5, <1>7, <1>10, <2>1, <2>4
<1>11. Via(a, routes) = s.device
  BY <1>4, <1>9, <1>10, OnlyDevice
<1> QED BY <1>11 DEF RouteDevice

\* The routes of apply carry every address they cover to the device of its
\* scope (PlannedWins), on any host and whatever the tunnel captures, where
\* every rival is one that the plan was made to beat.
THEOREM PlannedAlwaysWins == Spec => []PlannedWins
<1>1. Init => WinInv
  BY DEF Init, WinInv
<1>2. TypeOK /\ WinInv /\ [Next]_vars => WinInv'
  BY WinStep
<1>3. TypeOK /\ WinInv => PlannedWins
  BY WinInvWins
<1> QED BY <1>1, <1>2, <1>3, TypeCorrect, PTL DEF Spec

----------------------------------------------------------------------------
(* A whole capture is seen.                                                *)

\* The midpoint of a network that has room for one is an address of it.
LEMMA MidpointInside ==
    ASSUME NEW net \in Network, Len(net) <= W - 2
    PROVE  Midpoint(net) \in Address /\ IsPrefix(net, Midpoint(net))
<1>1. Len(net) \in Nat /\ net \in [1..Len(net) -> Bit]
  BY NetworkIsSeq, PrefixAssumption
<1>2. Midpoint(net) = [i \in 1..W |-> IF i <= Len(net) THEN net[i]
                                      ELSE IF i = Len(net) + 1 THEN 1 ELSE 0]
  BY DEF Midpoint, Fill
<1>3. Midpoint(net) \in Address
  BY <1>1, <1>2 DEF Address, Bit
<1>4. Midpoint(net) \in Network /\ Len(Midpoint(net)) = W
  BY <1>3, AddressIsNetwork
<1>5. \A i \in 1..Len(net) : net[i] = Midpoint(net)[i]
  BY <1>1, <1>2, PrefixAssumption
<1> QED BY <1>1, <1>3, <1>4, <1>5, PrefixAssumption, PrefixPointwise

\* An address of a captured network that nothing carves out goes to the tunnel.
LEMMA TunnelHolds ==
    ASSUME TypeOK, NEW net \in captured, NEW a \in Address,
           IsPrefix(net, a), Clear(net, a)
    PROVE  RouteDevice(a) = Tunnel
<1> DEFINE routes == MainRoutes(ours)
           t == [prefix |-> net, device |-> Tunnel]
<1>1. \A r \in routes : r.prefix \in Network
  BY RoutesType
<1>2. t \in routes
  BY DEF MainRoutes
<1>3. t \in Fits(a, routes)
  BY <1>2 DEF Fits
<1>4. PICK m \in Longest(a, routes) : TRUE
  BY <1>1, <1>3, LongestExists
<1>5. /\ m \in routes /\ IsPrefix(m.prefix, a)
      /\ \A q \in Fits(a, routes) : Len(q.prefix) <= Len(m.prefix)
  BY <1>4 DEF Longest, Fits
<1>6. ASSUME m.device # Tunnel
      PROVE  t \in Longest(a, routes)
  <2>1. Len(m.prefix) <= Len(net) /\ Len(net) <= Len(m.prefix)
    BY <1>3, <1>5, <1>6 DEF Clear
  <2>2. Len(m.prefix) \in Nat /\ Len(net) \in Nat
    BY <1>1, <1>5, NetworkIsSeq, PrefixAssumption DEF TypeOK
  <2> QED BY <1>3, <1>5, <2>1, <2>2 DEF Longest
<1>7. Tunnel \in Best(a, routes)
  BY <1>4, <1>6 DEF Best
<1>8. Via(a, routes) = Tunnel
  BY <1>7 DEF Via
<1> QED BY <1>8 DEF RouteDevice, Clear

\* The probes of a scope are live containers, or reach past the bottom of each
\* of its subnets.
LEMMA ProbesReach ==
    ASSUME NEW B, DOMAIN B \subseteq networks,
           NEW s \in discover_scopes(B, Addrs)
    PROVE  /\ s.hosts # {} => s.probes \subseteq s.hosts
           /\ s.hosts = {} => \A net \in s.nets :
                 Len(net) <= W - 2 /\ Midpoint(net) \notin Owned
                    => Midpoint(net) \in s.probes
<1>1. ASSUME NEW n \in networks, s.nets = NetworksOf(n),
             s.probes = probes_for_docker(n, Owned), s.hosts = live_hosts(n, Owned)
      PROVE  /\ s.hosts # {} => s.probes \subseteq s.hosts
             /\ s.hosts = {} => \A net \in s.nets :
                   Len(net) <= W - 2 /\ Midpoint(net) \notin Owned
                      => Midpoint(net) \in s.probes
  <2>1. CASE s.hosts # {}
    BY <1>1, <2>1 DEF probes_for_docker, Lowest
  <2>2. ASSUME s.hosts = {}, NEW net \in s.nets,
               Len(net) <= W - 2, Midpoint(net) \notin Owned
        PROVE  Midpoint(net) \in s.probes
    <3>1. GatewaysOf(n) \subseteq Owned
      <4> SUFFICES ASSUME NEW x \in n.subnets, x.gateway # NoAddress
                   PROVE  x.gateway \in Owned
        BY DEF GatewaysOf
      <4>1. [ifname |-> BridgeOf(n), address |-> x.gateway,
             length |-> Len(x.network)] \in
               {[ifname |-> BridgeOf(n), address |-> y.gateway,
                 length |-> Len(y.network)] :
                    y \in {y \in n.subnets : y.gateway # NoAddress}}
        OBVIOUS
      <4> QED BY <1>1, <4>1 DEF Addrs, Owned
    <3>2. Midpoint(net) \in synthetic_probes(net, Owned \cup GatewaysOf(n))
      BY <2>2, <3>1 DEF synthetic_probes
    <3>3. s.probes = UNION {synthetic_probes(x, Owned \cup GatewaysOf(n)) :
                               x \in NetworksOf(n)}
      BY <1>1, <2>2 DEF probes_for_docker
    <3> QED BY <1>1, <2>2, <3>2, <3>3
  <2> QED BY <2>1, <2>2
<1>2. ASSUME NEW A, NEW i, s.hosts = {}, s.nets = Offered(i, A),
             s.probes = UNION {synthetic_probes(net, Owned) : net \in Offered(i, A)}
      PROVE  \A net \in s.nets :
                Len(net) <= W - 2 /\ Midpoint(net) \notin Owned
                   => Midpoint(net) \in s.probes
  BY <1>2 DEF synthetic_probes
<1>3. ASSUME s \in docker_scopes(B, Owned)
      PROVE  \E n \in networks :
                /\ s.nets = NetworksOf(n)
                /\ s.probes = probes_for_docker(n, Owned)
                /\ s.hosts = live_hosts(n, Owned)
  BY <1>3 DEF docker_scopes
<1>4. ASSUME NEW A, NEW kind, s \in host_scopes(A, kind, Owned)
      PROVE  /\ s.hosts = {}
             /\ \E i : /\ s.nets = Offered(i, A)
                       /\ s.probes = UNION {synthetic_probes(net, Owned) :
                                               net \in Offered(i, A)}
  BY <1>4 DEF host_scopes
<1>5. \/ s \in docker_scopes(B, Owned)
      \/ \E A, kind : s \in host_scopes(A, kind, Owned)
  BY DEF discover_scopes, Owned
<1> QED BY <1>1, <1>2, <1>3, <1>4, <1>5

\* A probe that goes to the tunnel is not overlooked.
LEMMA CaptureClassified ==
    ASSUME vpn # {}, NEW s,
           \/ \E p \in s.probes : RouteDevice(p) = Tunnel
           \/ \A p \in s.probes : RouteDevice(p) = Tunnel
    PROVE  classify(s, {}) # "healthy"
<1> DEFINE got == {RouteDevice(p) : p \in s.probes \ {}}
           usable == got \ {Loopback, Nowhere}
           errored == {} \cap s.probes # {} \/ Nowhere \in got
           taken == Tunnel \in usable /\ vpn # {}
<1>1. usable = {} \/ taken
  <2>1. Tunnel \in got => Tunnel \in usable
    BY HostAssumption
  <2>2. got \subseteq {Tunnel} \/ Tunnel \in got
    OBVIOUS
  <2> QED BY <2>1, <2>2
<1>2. classify(s, {}) =
         CASE usable = {} /\ errored /\ Loopback \notin got -> "error"
           [] usable = {} /\ (~errored \/ Loopback \in got) -> "no_probe"
           [] taken                                         -> "captured"
           [] usable = {s.device} /\ ~taken                 -> "healthy"
           [] OTHER                                         -> "misrouted"
  BY DEF classify
<1> HIDE DEF got, usable, errored, taken
<1>3. usable = {} => usable # {s.device}
  OBVIOUS
<1> QED BY <1>1, <1>2, <1>3

\* While nothing moves, what a command has read is how things are.
ReadInv ==
    /\ pc # "links" => inspected = {}
    /\ pc # "diagnose" => DOMAIN bridges = {}
    /\ pc # "act" => diagnoses = {}
    /\ still =>
          /\ pc \in {"addresses", "ls", "inspect", "links", "diagnose", "act"}
                => vpn = captured
          /\ pc \in {"ls", "inspect", "links", "diagnose"} => addrs = Addrs
          /\ inspected \subseteq networks
          /\ DOMAIN bridges \subseteq networks

\* What was read is forgotten when it is used, and `still` when it is stale.
LEMMA ReadStep ==
    ASSUME ReadInv, [Next]_vars
    PROVE  ReadInv'
<1> USE DEF ReadInv
<1>1. CASE TunnelMoves
  BY <1>1 DEF TunnelMoves, reading
<1>2. CASE DockerMoves
  BY <1>2 DEF DockerMoves, reading
<1>3. CASE Begin
  BY <1>3 DEF Begin, reading, world
<1>4. CASE Look
  BY <1>4 DEF Look, world
<1>5. CASE ReadAddresses
  BY <1>5 DEF ReadAddresses, world, Addrs
<1>6. CASE ListNetworks
  BY <1>6 DEF ListNetworks, world, Addrs
<1>7. CASE Inspect
  BY <1>7 DEF Inspect, world, Addrs
<1>8. CASE ResolveBridges
  BY <1>8 DEF ResolveBridges, world, Addrs
<1>9. CASE Diagnose
  BY <1>9 DEF Diagnose, world, Nothing
<1>10. CASE Status \/ Verify \/ SelectNone \/ Finish \/ Die
  BY <1>10 DEF Status, Verify, SelectNone, Finish, Die, Ends, world
<1>11. CASE Select
  BY <1>11 DEF Select, world
<1>12. CASE AddRoute
  BY <1>12 DEF AddRoute, reading, world
<1>13. CASE Revert
  BY <1>13 DEF Revert, reading, world
<1>14. CASE UNCHANGED vars
  BY <1>14 DEF vars, reading, world, Addrs
<1> QED
  BY <1>1, <1>2, <1>3, <1>4, <1>5, <1>6, <1>7, <1>8, <1>9, <1>10, <1>11,
     <1>12, <1>13, <1>14 DEF Next, CommandStep

\* The scopes and their states are those of the moment.
LEMMA DiagnosedCapture ==
    ASSUME TypeOK, ReadInv, still, pc = "diagnose",
           NEW s \in discover_scopes(bridges, addrs),
           NEW net \in s.nets \cap captured,
           s.hosts = {} => Len(net) <= W - 2 /\ Clear(net, Midpoint(net)),
           \A h \in s.hosts : IsPrefix(net, h) /\ Clear(net, h)
    PROVE  classify(s, {}) # "healthy"
<1>1. addrs = Addrs /\ DOMAIN bridges \subseteq networks /\ vpn = captured
  BY DEF ReadInv
<1>2. ScopeType(s) /\ net \in Network
  BY ScopesType DEF TypeOK
<1>3. CASE s.hosts = {}
  <2>1. Midpoint(net) \in s.probes
    BY <1>1, <1>3, ProbesReach DEF Clear
  <2>2. RouteDevice(Midpoint(net)) = Tunnel
    BY <1>2, <1>3, MidpointInside, TunnelHolds
  <2> QED BY <1>1, <2>1, <2>2, CaptureClassified
<1>4. CASE s.hosts # {}
  <2>1. s.probes \subseteq s.hosts
    BY <1>1, <1>4, ProbesReach
  <2>2. \A p \in s.probes : RouteDevice(p) = Tunnel
    BY <1>2, <2>1, TunnelHolds DEF ScopeType
  <2> QED BY <1>1, <2>2, CaptureClassified
<1> QED BY <1>3, <1>4

\* A step that moves nothing and diagnoses nothing new.
LEMMA CaptureKept ==
    ASSUME CaptureIsSeen, diagnoses' \subseteq diagnoses, still' => still,
           networks' = networks, captured' = captured, ours' = ours
    PROVE  CaptureIsSeen'
<1>1. \A net, a : Clear(net, a)' <=> Clear(net, a)
  BY DEF Clear, Owned, MainRoutes, Addrs
<1> QED BY <1>1 DEF CaptureIsSeen

LEMMA CaptureStep ==
    ASSUME TypeOK, ReadInv, CaptureIsSeen, [Next]_vars
    PROVE  CaptureIsSeen'
<1>1. ReadInv'
  BY ReadStep
<1>2. CASE diagnoses' = {} \/ ~still'
  BY <1>2 DEF CaptureIsSeen
<1>3. CASE Diagnose /\ still'
  <2>1. /\ pc = "diagnose" /\ still
        /\ networks' = networks /\ captured' = captured /\ ours' = ours
        /\ diagnoses' = {[scope |-> s, state |-> classify(s, {})] :
                            s \in discover_scopes(bridges, addrs)}
    BY <1>3 DEF Diagnose, world, installed
  <2>2. \A net, a : Clear(net, a)' <=> Clear(net, a)
    BY <2>1 DEF Clear, Owned, MainRoutes, Addrs
  <2>3. \A d \in diagnoses' : \A net \in d.scope.nets \cap captured :
          /\ d.scope.hosts = {} => Len(net) <= W - 2 /\ Clear(net, Midpoint(net))
          /\ \A h \in d.scope.hosts : IsPrefix(net, h) /\ Clear(net, h)
          => d.state # "healthy"
    BY <2>1, DiagnosedCapture
  <2> QED BY <2>1, <2>2, <2>3 DEF CaptureIsSeen
<1>4. CASE UNCHANGED vars
  BY <1>4, CaptureKept DEF vars, world, installed
<1>5. CASE TunnelMoves \/ DockerMoves
  <2>1. pc' = pc /\ (still' => pc = "idle")
    BY <1>5 DEF TunnelMoves, DockerMoves
  <2> QED BY <1>1, <1>2, <2>1 DEF ReadInv
<1>6. CASE Begin \/ Look \/ ReadAddresses \/ ListNetworks \/ Inspect
              \/ ResolveBridges \/ Select
  <2>1. pc' # "act"
    BY <1>6 DEF Begin, Look, ReadAddresses, ListNetworks, Inspect,
         ResolveBridges, Select
  <2> QED BY <1>1, <1>2, <2>1 DEF ReadInv
<1>7. CASE Status \/ Verify \/ SelectNone \/ AddRoute \/ Finish \/ Die \/ Revert
  <2>1. pc' # "act"
    BY <1>7 DEF Status, Verify, SelectNone, AddRoute, Finish, Die, Revert, Ends
  <2> QED BY <1>1, <1>2, <2>1 DEF ReadInv
<1> QED
  BY <1>2, <1>3, <1>4, <1>5, <1>6, <1>7 DEF Next, CommandStep

\* No scope that the tunnel has taken whole is taken for healthy
\* (CaptureIsSeen): on any host, with any carve-outs that leave the midpoint or
\* the containers to the tunnel.
THEOREM CaptureIsAlwaysSeen == Spec => []CaptureIsSeen
<1>1. Init => ReadInv /\ CaptureIsSeen
  BY DEF Init, ReadInv, CaptureIsSeen, Nothing
<1>2. TypeOK /\ ReadInv /\ CaptureIsSeen /\ [Next]_vars
         => ReadInv' /\ CaptureIsSeen'
  BY ReadStep, CaptureStep
<1> QED BY <1>1, <1>2, TypeCorrect, PTL DEF Spec
============================================================================
