---------------------------- MODULE Reconciler ----------------------------
(***************************************************************************)
(* The ciscomvent daemon at work: reconcile passes (Daemon.reconcile_once) *)
(* run by the main loop and, on a thread of its own each, by the control   *)
(* commands; the kernel state they read and write; and the world that      *)
(* moves meanwhile: the tunnel, the bridges, an operator at the config     *)
(* file, commands that fail, a process that is killed and started again.   *)
(*                                                                         *)
(* Nothing serialises the passes (Daemon._lock covers two assignments      *)
(* only), so each pass is a process: a control point, what it read, and    *)
(* the commands it still has to run.  One step is one read or one command. *)
(***************************************************************************)
EXTENDS ClaimPolicy, FiniteSets

CONSTANTS
    Main,         \* the thread of Daemon.run
    Handlers,     \* the threads of the control server
    Files,        \* the contents the config file may start with
    Edits,        \* the contents an operator may give it
    Leases,       \* Leases[k]: addresses the k-th change of the tunnel offers
    Limit,        \* Limit[k]: bound on the events of kind k
    NoNet,        \* a thread with no network in hand
    NoScope       \* a thread with no scope in hand

Threads == Handlers \cup {Main}
Kinds == {"tunnel", "bridge", "edit", "command", "fault", "restart"}

ASSUME ThreadAssumption == Main \notin Handlers

ASSUME WorldAssumption ==
    /\ Files \subseteq Config
    /\ Edits \subseteq Config
    /\ Limit \in [Kinds -> Nat]
    /\ Leases \in [0..Limit["tunnel"] -> SUBSET Addresses]

ASSUME NoneAssumption ==
    /\ NoNet \notin Nets
    /\ NoScope \notin Scope

VARIABLES
    tunnel,     \* the tunnel as it is
    bridge,     \* bridge[s]: the live device of s, or NoDevice
    file,       \* /etc/ciscomvent/config.json
    rules,      \* rules[n]: copies of the ip rule to n at priority 100
    routes,     \* routes[n]: device of the route to n in table 150
    accepts,    \* our rules in iptables' OUTPUT and INPUT
    config,     \* Daemon.config
    session,    \* SessionGrants.session_key
    granted,    \* SessionGrants.granted
    dismissed,  \* SessionGrants.dismissed
    pending,    \* Daemon.pending_approval
    pc,         \* pc[t]: where thread t is
    seen,       \* seen[t]: the tunnel its vpn_state() returned
    adding,     \* adding[t]: scopes still to claim
    dropping,   \* dropping[t]: claims still to remove
    desired,    \* desired[t]: plan.desired_scopes
    blocked,    \* blocked[t]: scopes its gate held back
    scope,      \* scope[t]: the scope being claimed
    todo,       \* todo[t]: its networks still to route and rule
    at,         \* at[t]: the network in hand
    lines,      \* lines[t]: iptables rules still to delete or to insert
    spent,      \* spent[k]: events of kind k so far
    widths,     \* history: networks some config file let through by width
    consented,  \* history: scopes approved by anyone, in any way
    fresh       \* history: scopes approved since the tunnel last changed

world == <<tunnel, bridge, file>>
kernel == <<rules, routes, accepts>>
grants == <<session, granted, dismissed>>
work == <<adding, dropping, desired, blocked, scope, todo, at, lines>>
history == <<widths, consented, fresh>>
vars == <<world, kernel, config, grants, pending, pc, seen, work, spent,
          history>>

PCs == {"idle", "load", "look", "sync", "plan", "remove", "removeRoute",
        "unclaim", "claim", "route", "unrule", "rule", "accept"}

TypeOK ==
    /\ tunnel \in Vpn
    /\ bridge \in [Scopes -> Device]
    /\ file \in Config
    /\ rules \in [Nets -> Nat]
    /\ routes \in [Nets -> Device]
    /\ accepts \subseteq Accept
    /\ config \in Config
    /\ session \in Vpn
    /\ granted \subseteq Scopes
    /\ dismissed \subseteq Scopes
    /\ pending \subseteq Scopes
    /\ pc \in [Threads -> PCs]
    /\ seen \in [Threads -> Vpn]
    /\ adding \in [Threads -> SUBSET Scope]
    /\ dropping \in [Threads -> SUBSET Claim]
    /\ desired \in [Threads -> SUBSET Scopes]
    /\ blocked \in [Threads -> SUBSET Scopes]
    /\ scope \in [Threads -> Scope \cup {NoScope}]
    /\ todo \in [Threads -> SUBSET Nets]
    /\ at \in [Threads -> Nets \cup {NoNet}]
    /\ lines \in [Threads -> SUBSET Accept]
    /\ spent \in [Kinds -> Nat]
    /\ widths \subseteq Nets
    /\ consented \subseteq Scopes
    /\ fresh \subseteq Scopes

----------------------------------------------------------------------------
Goto(t, where) == pc' = [pc EXCEPT ![t] = where]

\* One more event of kind k, while its bound allows.
Spend(k) ==
    /\ spent[k] < Limit[k]
    /\ spent' = [spent EXCEPT ![k] = @ + 1]

\* A command that gives the kernel's v the value new, or fails (apply.execute
\* notes the failure and goes on with the next action).
Run(v, new) ==
    \/ v' = new /\ UNCHANGED spent
    \/ v' = v /\ Spend("fault")

WidthAllowed(cfg) == {n \in Nets : ~width_refusal(n, cfg)}
Ungated(cfg) == {s \in Scopes : ~needs_approval(s, cfg)}

\* What approving s, or a config file with content cfg, permits from now on.
Permit(cfg, S) ==
    /\ widths' = widths \cup WidthAllowed(cfg)
    /\ consented' = consented \cup Ungated(cfg) \cup S
    /\ fresh' = fresh \cup S

Live(d) == \E s \in Scopes : bridge[s] = d

Init ==
    /\ tunnel = NoTunnel
    /\ bridge \in [Scopes -> Device]
    /\ \A s1, s2 \in Scopes :
          bridge[s1] = bridge[s2] => s1 = s2 \/ bridge[s1] = NoDevice
    /\ file \in Files
    /\ rules = [n \in Nets |-> 0]
    /\ routes = [n \in Nets |-> NoDevice]
    /\ accepts = {}
    /\ config = file
    /\ session = NoTunnel
    /\ granted = {}
    /\ dismissed = {}
    /\ pending = {}
    /\ pc = [t \in Threads |-> IF t = Main THEN "load" ELSE "idle"]
    /\ seen = [t \in Threads |-> NoTunnel]
    /\ adding = [t \in Threads |-> {}]
    /\ dropping = [t \in Threads |-> {}]
    /\ desired = [t \in Threads |-> {}]
    /\ blocked = [t \in Threads |-> {}]
    /\ scope = [t \in Threads |-> NoScope]
    /\ todo = [t \in Threads |-> {}]
    /\ at = [t \in Threads |-> NoNet]
    /\ lines = [t \in Threads |-> {}]
    /\ spent = [k \in Kinds |-> 0]
    /\ widths = WidthAllowed(file)
    /\ consented = Ungated(file)
    /\ fresh = {}

----------------------------------------------------------------------------
(* The world.                                                              *)

\* The tunnel comes up, or changes address.  Secure Client rebuilds its
\* firewall chains when it connects, which may take our accepts with it.
Connect(a) ==
    /\ a \in Leases[spent["tunnel"]] \ {tunnel}
    /\ Spend("tunnel")
    /\ tunnel' = a
    /\ accepts' \in {accepts, {}}
    /\ fresh' = {}
    /\ UNCHANGED <<bridge, file, rules, routes, config, grants, pending, pc,
                   seen, work, widths, consented>>

Disconnect ==
    /\ tunnel # NoTunnel
    /\ Spend("tunnel")
    /\ tunnel' = NoTunnel
    /\ fresh' = {}
    /\ UNCHANGED <<bridge, file, kernel, config, grants, pending, pc, seen,
                   work, widths, consented>>

\* A bridge goes down, is removed, or comes back, possibly under a new name.
\* The kernel drops the routes of a device that goes.
BridgeChanges(s, d) ==
    /\ d # bridge[s]
    /\ bridge[s] # NoDevice => d = NoDevice
    /\ ~Live(d) \/ d = NoDevice
    /\ Spend("bridge")
    /\ bridge' = [bridge EXCEPT ![s] = d]
    /\ routes' = [n \in Nets |->
                    IF routes[n] = bridge[s] THEN NoDevice ELSE routes[n]]
    /\ UNCHANGED <<tunnel, file, rules, accepts, config, grants, pending, pc,
                   seen, work, history>>

\* Root edits the file, or runs a ciscomvent command that writes it.
OperatorEdits(cfg) ==
    /\ cfg # file
    /\ Spend("edit")
    /\ file' = cfg
    /\ Permit(cfg, {})
    /\ UNCHANGED <<tunnel, bridge, kernel, config, grants, pending, pc, seen,
                   work>>

----------------------------------------------------------------------------
(* The control commands (Daemon.dispatch).  Each runs on its own thread    *)
(* and, but for dismiss, ends in a reconcile pass of that thread.          *)

Command(t) == t \in Handlers /\ pc[t] = "idle" /\ Spend("command")

Reconcile(t) ==
    /\ Command(t)
    /\ Goto(t, "load")
    /\ UNCHANGED <<world, kernel, config, grants, pending, seen, work,
                   history>>

Approve(t, s) ==
    /\ Command(t)
    /\ granted' = granted \cup {s}
    /\ dismissed' = dismissed \ {s}
    /\ Permit(file, {s})
    /\ Goto(t, "load")
    /\ UNCHANGED <<world, kernel, config, session, pending, seen, work>>

ApproveAlways(t, s) ==
    /\ Command(t)
    /\ granted' = granted \cup {s}
    /\ dismissed' = dismissed \ {s}
    /\ file' = [file EXCEPT !.always_allow = @ \cup {s}]
    /\ Permit(file, {s})
    /\ Goto(t, "load")
    /\ UNCHANGED <<tunnel, bridge, kernel, config, session, pending, seen,
                   work>>

Dismiss(t, s) ==
    /\ Command(t)
    /\ dismissed' = dismissed \cup {s}
    /\ UNCHANGED <<world, kernel, config, session, granted, pending, pc, seen,
                   work, history>>

SetScope(t, s, enabled) ==
    /\ Command(t)
    /\ file' = [file EXCEPT
          !.enabled_scopes = IF enabled THEN @ \cup {s} ELSE @ \ {s},
          !.disabled_scopes = IF enabled THEN @ \ {s} ELSE @ \cup {s}]
    /\ config' = file'
    /\ Goto(t, "load")
    /\ UNCHANGED <<tunnel, bridge, kernel, grants, pending, seen, work,
                   history>>

SetAutomation(t, mode) ==
    /\ Command(t)
    /\ file' = [file EXCEPT !.automation = mode]
    /\ config' = file'
    /\ Permit(file', {})
    /\ Goto(t, "load")
    /\ UNCHANGED <<tunnel, bridge, kernel, grants, pending, seen, work>>

----------------------------------------------------------------------------
(* A pass (Daemon.reconcile_once).                                         *)

\* The main loop: a debounced burst, or RESYNC_SECONDS since the last pass.
Tick ==
    /\ pc[Main] = "idle"
    /\ Goto(Main, "load")
    /\ UNCHANGED <<world, kernel, config, grants, pending, seen, work, spent,
                   history>>

Load(t) ==
    /\ pc[t] = "load"
    /\ config' = file
    /\ Goto(t, "look")
    /\ UNCHANGED <<world, kernel, grants, pending, seen, work, spent, history>>

\* vpn_state()
Look(t) ==
    /\ pc[t] = "look"
    /\ seen' = [seen EXCEPT ![t] = tunnel]
    /\ Goto(t, "sync")
    /\ UNCHANGED <<world, kernel, config, grants, pending, work, spent,
                   history>>

\* Mutant: the key is noted and the grants are kept.
SyncKeeps(t) ==
    /\ pc[t] = "sync"
    /\ session' = seen[t]
    /\ Goto(t, "plan")
    /\ UNCHANGED <<world, kernel, config, granted, dismissed, pending, seen,
                   work, spent, history>>

\* SessionGrants.sync: a new key empties both sets.
Sync(t) ==
    /\ pc[t] = "sync"
    /\ session' = seen[t]
    /\ granted' = IF seen[t] = session THEN granted ELSE {}
    /\ dismissed' = IF seen[t] = session THEN dismissed ELSE {}
    /\ Goto(t, "plan")
    /\ UNCHANGED <<world, kernel, config, pending, seen, work, spent, history>>

\* What a pass reads; any of the readings may fail, and a failed one reads as
\* empty -- except iptables', which reads as None, as when the firewall is off.
Readings == {"docker", "rules", "routes", "iptables"}

discover_scopes(failed) ==
    [s \in Scopes |-> IF "docker" \in failed /\ s \in DockerScopes
                      THEN NoDevice ELSE bridge[s]]

ruled_networks(failed) ==
    IF "rules" \in failed THEN {} ELSE {n \in Nets : rules[n] > 0}

table_routes(failed) ==
    IF "routes" \in failed THEN [n \in Nets |-> NoDevice] ELSE routes

accepted_scopes(failed) ==
    IF config.firewall /\ "iptables" \notin failed
    THEN installed_firewall_scopes(accepts) ELSE Scopes

Additions(t, failed) ==
    to_add(seen[t], config, discover_scopes(failed), ruled_networks(failed),
           table_routes(failed), accepted_scopes(failed))

Removals(t, failed) ==
    to_remove(seen[t], config, discover_scopes(failed),
              ruled_networks(failed), table_routes(failed))

\* reconcile(), and the early return when its plan is a no-op.
Plan(t) ==
    /\ pc[t] = "plan"
    /\ \E failed \in SUBSET Readings :
       /\ IF failed = {} THEN UNCHANGED spent ELSE Spend("fault")
       /\ \/ /\ Additions(t, failed) = {} /\ Removals(t, failed) = {}
             /\ Goto(t, "idle")
             /\ UNCHANGED <<adding, dropping, desired>>
          \/ /\ Additions(t, failed) # {} \/ Removals(t, failed) # {}
             /\ Goto(t, "remove")
             /\ adding' = [adding EXCEPT ![t] = Additions(t, failed)]
             /\ dropping' = [dropping EXCEPT ![t] = Removals(t, failed)]
             /\ desired' = [desired EXCEPT ![t] =
                   desired_scopes(seen[t], config, discover_scopes(failed))]
    /\ seen' = [seen EXCEPT ![t] = NoTunnel]
    /\ UNCHANGED <<world, kernel, config, grants, pending, blocked, scope,
                   todo, at, lines, history>>

\* removal_actions: one copy of the rule, then the route.
RemoveRule(t) ==
    /\ pc[t] = "remove"
    /\ \E c \in dropping[t] :
          /\ at' = [at EXCEPT ![t] = c.net]
          /\ Run(rules, [rules EXCEPT ![c.net] = IF @ > 0 THEN @ - 1 ELSE 0])
    /\ Goto(t, "removeRoute")
    /\ UNCHANGED <<world, routes, accepts, config, grants, pending, seen,
                   adding, dropping, desired, blocked, scope, todo, lines,
                   history>>

\* With a device the route is deleted only if it goes through that device.
RemoveRoute(t) ==
    /\ pc[t] = "removeRoute"
    /\ \E c \in dropping[t] :
          /\ c.net = at[t]
          /\ dropping' = [dropping EXCEPT ![t] = @ \ {c}]
          /\ Run(routes, [routes EXCEPT ![c.net] =
                   IF c.device \in {NoDevice, @} THEN NoDevice ELSE @])
    /\ at' = [at EXCEPT ![t] = NoNet]
    /\ Goto(t, "remove")
    /\ UNCHANGED <<world, rules, accepts, config, grants, pending, seen,
                   adding, desired, blocked, scope, todo, lines, history>>

\* Mutant: the prune is forgotten.
NoneOutlived(t) == {}

\* The accepts that have outlived the claims of their scope.
Outlived(t) ==
    {a \in accepts :
        a.scope \in installed_firewall_scopes(accepts) \ desired[t]}

\* An unreadable table reads as one with nothing of ours in it.
Prune(t) ==
    /\ pc[t] = "remove" /\ dropping[t] = {}
    /\ \/ /\ lines' = [lines EXCEPT ![t] =
                          IF config.firewall THEN Outlived(t) ELSE {}]
          /\ UNCHANGED spent
       \/ config.firewall /\ Spend("fault") /\ UNCHANGED lines
    /\ desired' = [desired EXCEPT ![t] = {}]
    /\ Goto(t, "unclaim")
    /\ UNCHANGED <<world, kernel, config, grants, pending, seen, adding,
                   dropping, blocked, scope, todo, at, history>>

\* firewall_removal_actions: OUTPUT before INPUT.
Unclaim(t) ==
    /\ pc[t] = "unclaim"
    /\ \E a \in lines[t] :
          /\ a.chain = "INPUT" => \A b \in lines[t] :
                                     b.scope = a.scope => b.chain = "INPUT"
          /\ lines' = [lines EXCEPT ![t] = @ \ {a}]
          /\ Run(accepts, accepts \ {a})
    /\ UNCHANGED <<world, rules, routes, config, grants, pending, pc, seen,
                   adding, dropping, desired, blocked, scope, todo, at,
                   history>>

\* Mutant: dismissing a scope answers for it.
allows_dismissed(s) == needs_approval(s, config) => s \in granted \cup dismissed

\* SessionGrants.allows
allows(s) == needs_approval(s, config) => s \in granted

Gate(t) ==
    /\ pc[t] = "unclaim" /\ lines[t] = {}
    /\ adding' = [adding EXCEPT ![t] = {c \in @ : allows(c.name)}]
    /\ blocked' = [blocked EXCEPT ![t] =
                     {c.name : c \in {c \in adding[t] : ~allows(c.name)}}]
    /\ Goto(t, "claim")
    /\ UNCHANGED <<world, kernel, config, grants, pending, seen, dropping,
                   desired, scope, todo, at, lines, spent, history>>

\* The accepts of firewall_actions: two for every network.
firewall_lines(c) ==
    {[scope |-> c.name, net |-> n, device |-> c.device, chain |-> chain] :
        n \in c.nets, chain \in Chains}

\* policy_actions and, with the firewall on, firewall_actions of a scope.
ClaimScope(t) ==
    /\ pc[t] = "claim"
    /\ \E c \in adding[t] :
          /\ adding' = [adding EXCEPT ![t] = @ \ {c}]
          /\ scope' = [scope EXCEPT ![t] = c]
          /\ todo' = [todo EXCEPT ![t] = c.nets]
          /\ lines' = [lines EXCEPT ![t] =
                         IF config.firewall THEN firewall_lines(c) ELSE {}]
    /\ Goto(t, "route")
    /\ UNCHANGED <<world, kernel, config, grants, pending, seen, dropping,
                   desired, blocked, at, spent, history>>

\* ip route replace: fails, or does not last, when the device is gone.
ReplaceRoute(t) ==
    /\ pc[t] = "route"
    /\ \E n \in todo[t] :
          /\ at' = [at EXCEPT ![t] = n]
          /\ Run(routes, [routes EXCEPT ![n] =
                   IF Live(scope[t].device) THEN scope[t].device ELSE @])
    /\ Goto(t, "unrule")
    /\ UNCHANGED <<world, rules, accepts, config, grants, pending, seen,
                   adding, dropping, desired, blocked, scope, todo, lines,
                   history>>

\* Mutant: no pre_argv.
ClearNothing(t) ==
    /\ pc[t] = "unrule"
    /\ Goto(t, "rule")
    /\ UNCHANGED <<world, kernel, config, grants, pending, seen, work, spent,
                   history>>

\* The rule action's pre_argv: clear a copy left by an earlier pass.
ClearRule(t) ==
    /\ pc[t] = "unrule"
    /\ Run(rules, [rules EXCEPT ![at[t]] = IF @ > 0 THEN @ - 1 ELSE 0])
    /\ Goto(t, "rule")
    /\ UNCHANGED <<world, routes, accepts, config, grants, pending, seen, work,
                   history>>

AddRule(t) ==
    /\ pc[t] = "rule"
    /\ Run(rules, [rules EXCEPT ![at[t]] = @ + 1])
    /\ todo' = [todo EXCEPT ![t] = @ \ {at[t]}]
    /\ at' = [at EXCEPT ![t] = NoNet]
    /\ Goto(t, IF todo[t] = {at[t]} THEN "accept" ELSE "route")
    /\ UNCHANGED <<world, routes, accepts, config, grants, pending, seen,
                   adding, dropping, desired, blocked, scope, lines, history>>

\* iptables -C, then -I: OUTPUT before INPUT for each network.
InsertAccept(t) ==
    /\ pc[t] = "accept"
    /\ \E a \in lines[t] :
          /\ a.chain = "INPUT" => [a EXCEPT !.chain = "OUTPUT"] \notin lines[t]
          /\ lines' = [lines EXCEPT ![t] = @ \ {a}]
          /\ Run(accepts, accepts \cup {a})
    /\ UNCHANGED <<world, rules, routes, config, grants, pending, pc, seen,
                   adding, dropping, desired, blocked, scope, todo, at,
                   history>>

ScopeClaimed(t) ==
    /\ pc[t] = "accept" /\ lines[t] = {}
    /\ scope' = [scope EXCEPT ![t] = NoScope]
    /\ Goto(t, "claim")
    /\ UNCHANGED <<world, kernel, config, grants, pending, seen, adding,
                   dropping, desired, blocked, todo, at, lines, spent, history>>

\* The end of a pass that was not a no-op.
Publish(t) ==
    /\ pc[t] = "claim" /\ adding[t] = {}
    /\ pending' = blocked[t]
    /\ blocked' = [blocked EXCEPT ![t] = {}]
    /\ Goto(t, "idle")
    /\ UNCHANGED <<world, kernel, config, grants, seen, adding, dropping,
                   desired, scope, todo, at, lines, spent, history>>

PassStep(t) ==
    \/ Load(t) \/ Look(t) \/ Sync(t) \/ Plan(t)
    \/ RemoveRule(t) \/ RemoveRoute(t) \/ Prune(t) \/ Unclaim(t)
    \/ Gate(t) \/ ClaimScope(t) \/ ReplaceRoute(t) \/ ClearRule(t)
    \/ AddRule(t) \/ InsertAccept(t) \/ ScopeClaimed(t) \/ Publish(t)

----------------------------------------------------------------------------
(* Passes that end early.                                                  *)

\* A handler's pass dies of an exception (a command that times out, a listing
\* that cannot be had); the handler answers with the error.
Abort(t) ==
    /\ t \in Handlers /\ pc[t] # "idle"
    /\ Spend("fault")
    /\ Goto(t, "idle")
    /\ seen' = [seen EXCEPT ![t] = NoTunnel]
    /\ adding' = [adding EXCEPT ![t] = {}]
    /\ dropping' = [dropping EXCEPT ![t] = {}]
    /\ desired' = [desired EXCEPT ![t] = {}]
    /\ blocked' = [blocked EXCEPT ![t] = {}]
    /\ scope' = [scope EXCEPT ![t] = NoScope]
    /\ todo' = [todo EXCEPT ![t] = {}]
    /\ at' = [at EXCEPT ![t] = NoNet]
    /\ lines' = [lines EXCEPT ![t] = {}]
    /\ UNCHANGED <<world, kernel, config, grants, pending, history>>

\* The process ends -- the restart command, a kill, an exception on the main
\* thread -- and systemd starts it again.  Claims are left in place.
Restart ==
    /\ Spend("restart")
    /\ config' = file
    /\ session' = NoTunnel
    /\ granted' = {}
    /\ dismissed' = {}
    /\ pending' = {}
    /\ pc' = [t \in Threads |-> IF t = Main THEN "load" ELSE "idle"]
    /\ seen' = [t \in Threads |-> NoTunnel]
    /\ adding' = [t \in Threads |-> {}]
    /\ dropping' = [t \in Threads |-> {}]
    /\ desired' = [t \in Threads |-> {}]
    /\ blocked' = [t \in Threads |-> {}]
    /\ scope' = [t \in Threads |-> NoScope]
    /\ todo' = [t \in Threads |-> {}]
    /\ at' = [t \in Threads |-> NoNet]
    /\ lines' = [t \in Threads |-> {}]
    /\ UNCHANGED <<world, kernel, history>>

----------------------------------------------------------------------------
WorldStep ==
    \/ \E a \in Addresses : Connect(a)
    \/ Disconnect
    \/ \E s \in Scopes, d \in Device : BridgeChanges(s, d)
    \/ \E cfg \in Edits : OperatorEdits(cfg)

CommandStep(t) ==
    \/ Reconcile(t)
    \/ \E s \in Scopes : \/ Approve(t, s) \/ ApproveAlways(t, s)
                         \/ Dismiss(t, s)
                         \/ \E enabled \in BOOLEAN : SetScope(t, s, enabled)
    \/ \E mode \in {"confirm", "auto"} : SetAutomation(t, mode)

Next ==
    \/ WorldStep
    \/ Tick
    \/ Restart
    \/ \E t \in Threads : PassStep(t) \/ CommandStep(t) \/ Abort(t)

\* The main loop never stops polling, and a pass that has begun goes on.
Fairness ==
    /\ WF_vars(Tick \/ PassStep(Main))
    /\ \A t \in Handlers : WF_vars(PassStep(t))

Spec == Init /\ [][Next]_vars

FairSpec == Spec /\ Fairness
----------------------------------------------------------------------------
(* Safety.                                                                 *)

Claimed(n) == rules[n] > 0 \/ routes[n] # NoDevice

\* However passes overlap, fail or die, a network has a rule or a route of
\* ours only if a config file let its width through: the guard of
\* reconcile.claim_refusal cannot be got round by a scope that is narrowed,
\* re-applied or carried by a stale plan.
RefusedNeverClaimed == \A n \in Nets : Claimed(n) => n \in widths

\* Nothing is claimed and nothing admitted for a scope nobody ever approved
\* (Daemon.reconcile_once's gate): not by a command of another scope's, nor by
\* a re-application, nor after a restart.
ConsentBeforeClaim ==
    /\ \A n \in Nets :
          Claimed(n) => \E s \in consented : n \in Subnets[s]
    /\ \A a \in accepts : a.scope \in consented

\* While the session the daemon knows is the one that is up, its grants were
\* all given in it: "session approval ... cleared on disconnect".
GrantsAreThisSessions ==
    tunnel # NoTunnel /\ session = tunnel => granted \subseteq fresh

\* A rule action clears the rule before adding it, so copies never stack.
NoStackedRules == \A n \in Nets : rules[n] <= 1

\* The threads between the clearing and the adding of a rule to n.
Adders(n) == {t \in Threads : pc[t] = "rule" /\ at[t] = n}

\* With passes that overlap they may, but a network never has more copies of
\* its rule, present or about to be added, than there are threads, but for the
\* commands that failed: every action of execute clears one before it adds one.
RuleCopiesBounded ==
    \A n \in Nets :
       rules[n] + Cardinality(Adders(n)) <= Cardinality(Threads) + spent["fault"]

\* A grant, once given, stays until the tunnel changes or the daemon
\* restarts: "confirm once after connect and the daemon maintains that scope
\* until the tunnel drops".
GrantKept ==
    [][\A s \in granted : s \in granted' \/ s \notin fresh \/ Restart]_vars

----------------------------------------------------------------------------
(* Liveness.  The events of the world, the commands and the failures are   *)
(* bounded, so each says what the daemon has brought about once they cease.*)

Desired(s, n) == Owns(s, n, tunnel, file, bridge)
Approved(s) == needs_approval(s, file) => s \in granted

\* Every network an approved scope should have is ruled, routed to that
\* scope's device and, with the firewall on, admitted.
ClaimsConverge ==
    <>[](\A s \in Scopes, n \in Nets :
            Desired(s, n) /\ Approved(s) =>
               /\ rules[n] > 0
               /\ routes[n] = bridge[s]
               /\ file.firewall => s \in installed_firewall_scopes(accepts))

\* Every rule and route that should no longer be there is gone -- all of them
\* once the tunnel is down, however many copies of a rule there were.
ClaimsReleased ==
    <>[](\A n \in Nets : Claimed(n) => n \in desired_nets(tunnel, file, bridge))

\* The daemon does not tear down and reinstall its own claims for ever.
KernelSettles == <>[][UNCHANGED kernel]_kernel

\* Accepts of a scope that is no longer claimed go too.
AcceptsPruned ==
    <>[](file.firewall =>
            \A a \in accepts : a.scope \in desired_scopes(tunnel, file, bridge))

\* The same of the scopes that have both their accepts.
PairsPruned ==
    <>[](file.firewall =>
            installed_firewall_scopes(accepts)
               \subseteq desired_scopes(tunnel, file, bridge))

\* No accept outlives the routing of its own network and device.
AcceptsMatchClaims ==
    <>[](file.firewall =>
            \A a \in accepts :
               Desired(a.scope, a.net) /\ a.device = bridge[a.scope])

\* A scope is listed as awaiting approval only while approving it would claim
\* something.
PendingIsCurrent ==
    <>[](\A s \in pending : ~Approved(s) /\ \E n \in Nets : Desired(s, n))

============================================================================
