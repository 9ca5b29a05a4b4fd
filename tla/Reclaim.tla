------------------------------ MODULE Reclaim ------------------------------
(***************************************************************************)
(* The one-shot commands of cli.py that look at a host, diagnose it and    *)
(* reclaim with more-specific routes in the main table: status, verify,    *)
(* apply --mechanism specific, revert.                                     *)
(*                                                                         *)
(* All but revert begin alike, so a command is chosen once it has looked.  *)
(* It is a sequence of readings and commands; the tunnel and Docker may    *)
(* move between any two.  A route is [prefix, device]; the empty prefix is *)
(* the default route.                                                      *)
(***************************************************************************)
EXTENDS Discovery

CONSTANTS
    Docks,      \* the sets of Docker networks there may be
    HostAddrs,  \* the addresses of the interfaces that are not Docker's
    Foreign,    \* main routes of others: the default, the tunnel's carve-outs
    Captures,   \* the prefixes the tunnel may capture
    Tunnel,     \* the tunnel's device
    Loopback,   \* the device of the addresses the host owns
    Nowhere,    \* the device of an address without a route
    Limit       \* Limit[k]: bound on the events of kind k

Kinds == {"move", "fault", "command"}
Default == << >>

ASSUME HostAssumption ==
    /\ IsFiniteSet(Docks)
    /\ \A dock \in Docks : \A n \in dock :
          /\ NetworksOf(n) \subseteq Network
          /\ n.containers \subseteq Address
          /\ GatewaysOf(n) \subseteq Address
    /\ \A a \in HostAddrs : a.address \in Address /\ a.length \in 0..W
    /\ \A r \in Foreign : r.prefix \in Network
    /\ Captures \subseteq Network
    /\ Tunnel \notin {Loopback, Nowhere}
    /\ Limit \in [Kinds -> Nat]

VARIABLES
    networks,   \* Docker's networks as they are
    captured,   \* the prefixes of the tunnel's routes
    ours,       \* our routes
    accepts,    \* names of the scopes our iptables accepts are for
    pc,         \* where the command is
    vpn,        \* the prefixes its vpn_state() saw
    addrs,      \* the addresses it read
    listed,     \* ids that docker network ls named
    inspected,  \* networks that docker network inspect described
    bridges,    \* bridges[n]: the bridge resolved for the network n
    diagnoses,  \* what it diagnosed: [scope, state]
    strategy,   \* its --strategy
    targets,    \* the scopes it acts on
    todo,       \* the routes it still has to add
    against,    \* against[net]: the length its plan for net is to beat
    code,       \* its exit code
    spent,      \* spent[k]: events of kind k so far
    offered,    \* history: [net, device] of the scopes ever diagnosed
    still       \* history: since the command began, nothing moved and no
                \* lookup of a route failed

world == <<networks, captured>>
installed == <<ours, accepts>>
reading == <<vpn, addrs, listed, inspected, bridges>>
acting == <<strategy, targets, todo, against>>
vars == <<world, installed, pc, reading, diagnoses, acting, code,
          spent, offered, still>>

PCs == {"idle", "look", "addresses", "ls", "inspect", "links", "diagnose",
        "act", "add"}

----------------------------------------------------------------------------
(* The host.                                                               *)

\* The bridge Docker makes for a network.
BridgeOf(n) == IF n.option = NoDevice THEN n.id ELSE n.option

Addrs ==
    HostAddrs \cup
    UNION {{[ifname |-> BridgeOf(n), address |-> s.gateway,
             length |-> Len(s.network)] :
               s \in {s \in n.subnets : s.gateway # NoAddress}} : n \in networks}

Links(nets) == {BridgeOf(n) : n \in nets} \cup {a.ifname : a \in HostAddrs}

\* A bridge without containers is DOWN.
Up(device) ==
    \/ \E n \in networks : BridgeOf(n) = device /\ n.containers # {}
    \/ \E a \in HostAddrs : a.ifname = device

MainRoutes(mine) ==
    {[prefix |-> p, device |-> Tunnel] : p \in captured}
       \cup {[prefix |-> NetOf(a), device |-> a.ifname] : a \in Addrs}
       \cup Foreign
       \cup mine

\* The kernel's choice: its own addresses first, then the longest prefix; the
\* tunnel wins a tie.
Fits(a, routes) == {r \in routes : IsPrefix(r.prefix, a)}
Longest(a, routes) ==
    LET fits == Fits(a, routes)
    IN  {r \in fits : \A q \in fits : Len(q.prefix) <= Len(r.prefix)}
Best(a, routes) == {r.device : r \in Longest(a, routes)}
Via(a, routes) ==
    LET best == Best(a, routes)
    IN  CASE best = {}       -> Nowhere
          [] Tunnel \in best -> Tunnel
          [] OTHER           -> CHOOSE d \in best : TRUE

Owned == {i.address : i \in Addrs}
RouteDevice(a) == IF a \in Owned THEN Loopback ELSE Via(a, MainRoutes(ours))

----------------------------------------------------------------------------
(* What the commands compute.                                              *)

\* bad are the addresses whose lookup failed.  A tunnel that vpn_state() did
\* not see is a wrong device like any other.
classify(scope, bad) ==
    LET got     == {RouteDevice(p) : p \in scope.probes \ bad}
        usable  == got \ {Loopback, Nowhere}
        errored == bad \cap scope.probes # {} \/ Nowhere \in got
        taken   == Tunnel \in usable /\ vpn # {}
    IN  CASE usable = {} /\ errored /\ Loopback \notin got -> "error"
          [] usable = {} /\ (~errored \/ Loopback \in got) -> "no_probe"
          [] taken                                         -> "captured"
          [] usable = {scope.device} /\ ~taken             -> "healthy"
          [] OTHER                                         -> "misrouted"

needs_fix(d) == d.state \in {"captured", "misrouted"}

exit_code(D) ==
    LET relevant == {d \in D : d.scope.enabled}
    IN  CASE \E d \in relevant : d.state = "error" -> "error"
          [] \A d \in relevant : d.state # "error" /\ ~needs_fix(d) -> "ok"
          [] OTHER -> "needs_fix"

\* With --all, or without.
Shown(all) == {d.scope : d \in {d \in diagnoses : all \/ d.scope.enabled}}

routing_ok(scope) == \A p \in scope.probes : RouteDevice(p) = scope.device

\* VpnState.shadows: whichever comes first in the listing.
Shadows(net) == {Len(p) : p \in {p \in vpn \ {Default} : Overlap(p, net)}}
shadows(net) == IF Shadows(net) = {} THEN {NoLength} ELSE Shadows(net)

\* The routes of the plan for a network of a scope, and of those for all;
\* beat[net] is the length that the one for net is to beat.
planned(net, scope, beat, how) ==
    {[prefix |-> p, device |-> scope.device] :
        p \in plan_reclaim(net, scope.hosts, beat[net], how)}

route_actions(scope, beat, how) ==
    UNION {planned(net, scope, beat, how) : net \in scope.nets}

----------------------------------------------------------------------------
Spend(k) ==
    /\ spent[k] < Limit[k]
    /\ spent' = [spent EXCEPT ![k] = @ + 1]

Nothing == << >>

Init ==
    /\ networks \in Docks
    /\ captured \in SUBSET Captures
    /\ ours = {}
    /\ accepts = {}
    /\ pc = "idle"
    /\ strategy = "split"
    /\ vpn = {}
    /\ addrs = {}
    /\ listed = {}
    /\ inspected = {}
    /\ bridges = Nothing
    /\ diagnoses = {}
    /\ targets = {}
    /\ todo = {}
    /\ against = Nothing
    /\ code = "ok"
    /\ spent = [k \in Kinds |-> 0]
    /\ offered = {}
    /\ still = TRUE

\* The tunnel goes, captures more, or mirrors a route of ours.
TunnelMoves ==
    /\ Spend("move")
    /\ \/ captured # {} /\ captured' = {}
       \/ \E p \in (Captures \cup {r.prefix : r \in ours}) \ captured :
             captured' = captured \cup {p}
    /\ still' = (pc = "idle")
    /\ UNCHANGED <<networks, installed, pc, reading, diagnoses, acting,
                   code, offered>>

\* Networks and containers come and go.  Routes do not outlive their device,
\* nor last on one that is down.
DockerMoves ==
    /\ Spend("move")
    /\ networks' \in Docks \ {networks}
    /\ ours' = {r \in ours :
                  \/ \E a \in HostAddrs : a.ifname = r.device
                  \/ \E n \in networks, m \in networks' :
                        /\ n.id = m.id /\ BridgeOf(m) = r.device
                        /\ m.containers # {}}
    /\ still' = (pc = "idle")
    /\ UNCHANGED <<captured, accepts, pc, reading, diagnoses, acting,
                   code, offered>>

----------------------------------------------------------------------------
(* Looking: _gather.                                                       *)

Begin ==
    /\ pc = "idle"
    /\ Spend("command")
    /\ pc' = "look"
    /\ code' = "ok"
    /\ UNCHANGED <<world, installed, reading, diagnoses, acting, offered, still>>

\* vpn_state()
Look ==
    /\ pc = "look"
    /\ vpn' = captured
    /\ pc' = "addresses"
    /\ UNCHANGED <<world, installed, addrs, listed, inspected, bridges,
                   diagnoses, acting, code, spent, offered, still>>

ReadAddresses ==
    /\ pc = "addresses"
    /\ addrs' = Addrs
    /\ pc' = "ls"
    /\ UNCHANGED <<world, installed, vpn, listed, inspected, bridges,
                   diagnoses, acting, code, spent, offered, still>>

\* Mutant: by name.
ListNames ==
    /\ pc = "ls"
    /\ listed' = {n.name : n \in networks}
    /\ pc' = "inspect"
    /\ UNCHANGED <<world, installed, vpn, addrs, inspected, bridges,
                   diagnoses, acting, code, spent, offered, still>>

\* docker version, docker network ls: without an answer there are no networks.
ListNetworks ==
    /\ pc = "ls"
    /\ \/ listed' = {n.id : n \in networks} /\ pc' = "inspect" /\ UNCHANGED spent
       \/ Spend("fault") /\ pc' = "diagnose" /\ UNCHANGED listed
    /\ UNCHANGED <<world, installed, vpn, addrs, inspected, bridges,
                   diagnoses, acting, code, offered, still>>

\* docker network inspect fails as a whole if any of the networks is gone.
Inspect ==
    /\ pc = "inspect"
    /\ LET known == {n \in networks : n.id \in listed}
       IN  IF listed = {n.id : n \in known}
           THEN inspected' = {n \in known : n.subnets # {}} /\ pc' = "links"
           ELSE UNCHANGED inspected /\ pc' = "diagnose"
    /\ listed' = {}
    /\ UNCHANGED <<world, installed, vpn, addrs, bridges, diagnoses,
                   acting, code, spent, offered, still>>

\* resolve_bridge for each network
ResolveBridges ==
    /\ pc = "links"
    /\ bridges' \in {f \in [inspected -> Links(networks) \cup {NoDevice}] :
                        \A n \in inspected :
                           f[n] \in resolve_bridge(n, Links(networks), Addrs)}
    /\ inspected' = {}
    /\ pc' = "diagnose"
    /\ UNCHANGED <<world, installed, vpn, addrs, listed, diagnoses,
                   acting, code, spent, offered, still>>

\* diagnose_all
Diagnose ==
    /\ pc = "diagnose"
    /\ LET scopes == discover_scopes(bridges, addrs)
       IN  /\ \/ /\ diagnoses' = {[scope |-> s, state |-> classify(s, {})] : s \in scopes}
                 /\ UNCHANGED <<spent, still>>
              \/ /\ Spend("fault")
                 /\ \E p \in UNION {s.probes : s \in scopes} :
                       diagnoses' = {[scope |-> s, state |-> classify(s, {p})] : s \in scopes}
                 /\ still' = FALSE
           /\ offered' = offered \cup
                 UNION {{[net |-> n, device |-> s.device] : n \in s.nets} : s \in scopes}
    /\ addrs' = {}
    /\ bridges' = Nothing
    /\ pc' = "act"
    /\ UNCHANGED <<world, installed, vpn, listed, inspected, acting, code>>

----------------------------------------------------------------------------
(* Acting.                                                                 *)

\* A command that has done its work.
Ends ==
    /\ pc' = "idle"
    /\ vpn' = {}
    /\ diagnoses' = {}
    /\ strategy' = "split"
    /\ targets' = {}
    /\ against' = Nothing
    /\ still' = TRUE

Status ==
    /\ pc = "act"
    /\ code' = exit_code(diagnoses)
    /\ Ends
    /\ UNCHANGED <<world, installed, addrs, listed, inspected, bridges, todo,
                   spent, offered>>

\* What answers a probe of cmd_verify's is not the code's to say.
Verify ==
    /\ pc = "act"
    /\ \E all \in BOOLEAN :
       LET live == {s \in Shown(all) : Up(s.device)}
       IN  \E reachable \in SUBSET live :
              code' = IF \A s \in live : routing_ok(s) /\ s \in reachable
                      THEN "ok" ELSE "needs_fix"
    /\ Ends
    /\ UNCHANGED <<world, installed, addrs, listed, inspected, bridges, todo,
                   spent, offered>>

\* cmd_apply up to its actions: _select (what needs a fix, what --force or a
\* failed probe adds, what --scope leaves), the links that are up, the plans.
Select ==
    /\ pc = "act"
    /\ strategy' \in Strategy
    /\ \E all \in BOOLEAN : \E chosen \in SUBSET Shown(all) :
          /\ targets' = {s \in chosen : Up(s.device)}
          /\ targets' # {}
    /\ LET nets == UNION {s.nets : s \in targets'}
       IN  against' \in {f \in [nets -> 0..W \cup {NoLength}] :
                           \A net \in nets : f[net] \in shadows(net)}
    /\ todo' = UNION {route_actions(s, against', strategy') : s \in targets'}
    /\ vpn' = {}
    /\ diagnoses' = {}
    /\ pc' = "add"
    /\ UNCHANGED <<world, installed, addrs, listed, inspected, bridges, code,
                   spent, offered, still>>

\* Nothing to apply, or no scope has a live device.
SelectNone ==
    /\ pc = "act"
    /\ Ends
    /\ UNCHANGED <<world, installed, addrs, listed, inspected, bridges, todo,
                   code, spent, offered>>

\* ip route add, in the order of the prefixes.  A route to the prefix that is
\* there already counts as ours; a device that is gone is a failure; on one
\* that is down the route is taken and does not last.
AddRoute ==
    /\ pc = "add"
    /\ \E r \in todo :
          /\ \A q \in todo : ~Before(First(q.prefix), First(r.prefix))
          /\ todo' = todo \ {r}
          /\ \/ \E q \in MainRoutes(ours) : q.prefix = r.prefix
                /\ UNCHANGED <<ours, code, spent>>
             \/ /\ \A q \in MainRoutes(ours) : q.prefix # r.prefix
                /\ r.device \in Links(networks)
                /\ ours' = IF Up(r.device) THEN ours \cup {r} ELSE ours
                /\ UNCHANGED <<code, spent>>
             \/ /\ r.device \notin Links(networks)
                /\ code' = "error"
                /\ UNCHANGED <<ours, spent>>
             \/ Spend("fault") /\ code' = "error" /\ UNCHANGED ours
    /\ UNCHANGED <<world, accepts, pc, reading, diagnoses, strategy, targets,
                   against, offered, still>>

\* The rest of cmd_apply.  Layer 2 is for the scopes that are routed and still
\* do not answer.
Finish ==
    /\ pc = "add" /\ todo = {}
    /\ \E second \in BOOLEAN :
       LET routed == {s \in targets : routing_ok(s)}
       IN  \E reachable, recovered \in SUBSET routed :
           LET failing == routed \ reachable
           IN  /\ second => code # "error" /\ failing # {}
               /\ recovered \subseteq (IF second THEN failing ELSE {})
               /\ code' = CASE code = "error"                      -> "error"
                            [] code # "error" /\ recovered # {}    -> "ok"
                            [] code # "error" /\ reachable = targets -> "ok"
                            [] OTHER                               -> "needs_fix"
               /\ accepts' = accepts \cup {s.name : s \in IF second THEN failing ELSE {}}
    /\ Ends
    /\ UNCHANGED <<world, ours, addrs, listed, inspected, bridges, todo, spent,
                   offered>>

\* Interrupted, or one of its commands outlived its timeout.
Die ==
    /\ pc = "add"
    /\ Spend("fault")
    /\ todo' = {}
    /\ Ends
    /\ UNCHANGED <<world, installed, addrs, listed, inspected, bridges, code, offered>>

\* cmd_revert, which looks at nothing but what it removes.
Revert ==
    /\ pc = "idle"
    /\ Spend("command")
    /\ \E layers \in {{1}, {2}, {1, 2}} :
          /\ ours' = IF 1 \in layers THEN {} ELSE ours
          /\ accepts' = IF 2 \in layers THEN {} ELSE accepts
    /\ code' = "ok"
    /\ UNCHANGED <<world, pc, reading, diagnoses, acting, offered, still>>

CommandStep ==
    \/ Begin \/ Look \/ ReadAddresses \/ ListNetworks \/ Inspect
    \/ ResolveBridges \/ Diagnose \/ Status \/ Verify \/ Select \/ SelectNone
    \/ AddRoute \/ Finish \/ Die \/ Revert

Next == TunnelMoves \/ DockerMoves \/ CommandStep

Spec == Init /\ [][Next]_vars
----------------------------------------------------------------------------
(* Safety.                                                                 *)

Known == UNION Docks
ScopeType(s) == s.nets \subseteq Network /\ s.hosts \subseteq Address

\* Types.
TypeOK ==
    /\ networks \in Docks
    /\ captured \subseteq Network
    /\ pc \in PCs
    /\ strategy \in Strategy
    /\ vpn \subseteq Network
    /\ \A a \in addrs : a.address \in Address /\ a.length \in 0..W
    /\ listed \subseteq {n.id : n \in Known}
    /\ inspected \subseteq Known
    /\ DOMAIN bridges \subseteq Known
    /\ \A d \in diagnoses : ScopeType(d.scope) /\ d.state \in ScopeState
    /\ \A s \in targets : ScopeType(s)
    /\ \A r \in ours \cup todo : r.prefix \in Network
    /\ \A o \in offered : o.net \in Network
    /\ code \in {"ok", "needs_fix", "error"}
    /\ spent \in [Kinds -> Nat]
    /\ still \in BOOLEAN

\* Nothing but the tunnel is more specific than net at an address: no carve-out,
\* no other interface, no route of ours, and the host itself does not have it.
Clear(net, a) ==
    /\ a \notin Owned
    /\ \A r \in MainRoutes(ours) :
          IsPrefix(r.prefix, a) /\ r.device # Tunnel => Len(r.prefix) <= Len(net)

\* A scope diagnosed as healthy, while nothing moved, is not one that the
\* tunnel has captured whole: the carve-out of a gateway at the bottom of the
\* subnet does not hide the capture, as it did when only the lowest address
\* was probed.  It takes a midpoint, or live containers, past the carve-outs;
\* the containers of a network with two subnets may all be in the other.
CaptureIsSeen ==
    still => \A d \in diagnoses : \A net \in d.scope.nets \cap captured :
          /\ d.scope.hosts = {} => Len(net) <= W - 2 /\ Clear(net, Midpoint(net))
          /\ \A h \in d.scope.hosts : IsPrefix(net, h) /\ Clear(net, h)
          => d.state # "healthy"

\* The plan for net was made to beat a route to q: the one of the tunnel that
\* the code knows of (VpnState.shadows), or one no longer than net is itself.
Beatable(q, net) ==
    /\ Len(q) < W
    /\ \/ Len(q) <= Len(net)
       \/ against[net] # NoLength /\ Len(q) <= against[net]

\* Once apply has added its routes without a failure, while nothing moved,
\* every address they cover reaches the device of its scope, provided every
\* route there that goes elsewhere, the tunnel's or not, is one that the plan
\* was made to beat.
PlannedWins ==
    pc = "add" /\ todo = {} /\ code = "ok" /\ still =>
       \A s \in targets : \A net \in s.nets :
          (\A q \in MainRoutes(ours) :
              Overlap(q.prefix, net) /\ q.device # s.device => Beatable(q.prefix, net))
          => \A r \in planned(net, s, against, strategy) :
                \A a \in Hosts(r.prefix) :
                   RouteDevice(a) \in {s.device, Loopback}

\* No address changes its device because of us but those of a subnet that some
\* command was offered, and they only to the device it was offered on: a plan
\* never spills over its subnet, whatever its strategy and whatever containers
\* it is told of.
OnlyOffered ==
    LET with    == MainRoutes(ours)
        without == MainRoutes({})
    IN  \A a \in Address :
           Via(a, with) # Via(a, without) =>
              \E o \in offered : IsPrefix(o.net, a) /\ o.device \in Best(a, with)

\* What a comment says of ip route add: when another device has a route to the
\* very prefix, adding ours fails loudly, so that apply ends in an error.
TakenPrefixFails ==
    [][\A r \in todo \ todo' :
          pc = "add" /\ pc' = "add"
          /\ (\E q \in MainRoutes(ours) : q.prefix = r.prefix /\ q.device # r.device)
          => code' = "error"]_vars

\* What the strategy promises when Secure Client mirrors a route of ours: the
\* next apply goes deeper than every route of the tunnel in the subnet.
MirrorIsBeaten ==
    pc = "add" /\ todo = {} /\ code = "ok" /\ still /\ strategy = "split" =>
       \A s \in targets : \A p \in s.probes :
          RouteDevice(p) \in {s.device, Loopback}
============================================================================
