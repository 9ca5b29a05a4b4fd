------------------------------- MODULE Applet -------------------------------
(***************************************************************************)
(* The tray applet (gui/app.py) beside the daemon: a window and a menu     *)
(* drawn from the last snapshot, a dialog whose own event loop lets the    *)
(* timer go on drawing, commands sent by name, and one slot for pkexec.    *)
(*                                                                         *)
(* The daemon is in confirm mode and is reduced to what the applet can     *)
(* see: a command or a pass is one step (Reconciler has them in detail),   *)
(* while the parts of a snapshot are read one after the other.             *)
(***************************************************************************)
EXTENDS TrayState, Integers, FiniteSets

CONSTANTS
    Scopes,
    Nets,
    First,      \* the network that a bridge has at first
    None,       \* no network
    Upsets,     \* bound on moves of the world, restarts and readings that fail
    Clicks      \* bound on what the user asks for

ASSUME NetsAssumption == First \in Nets
ASSUME BoundAssumption == Upsets \in Nat /\ Clicks \in Nat

VARIABLES
    connected,  \* the tunnel is up
    net,        \* the network of a scope's bridge
    up,         \* the scopes whose bridge is up
    path,       \* what the kernel does with a scope's addresses without our claim
    enabled,    \* the scopes the config enables
    claimed,    \* the network of a scope that our routes divert, or None
    granted, dismissed,
    pending,    \* Daemon.pending_claims
    session,    \* what session_key names: "none", the tunnel's session ("now"),
                \* or one that is over ("old")
    phase,      \* what the daemon reads next for a snapshot, or "idle"
    reading,    \* the parts it has read
    shown,      \* Window._summary, of the last snapshot
    dialog,     \* the question that is open
    slot,       \* Window._escalation is set
    runs,       \* the runs of pkexec in flight,
    acted,      \* and those of them that have done what they are for
    upsets, clicks

world == <<connected, net, up, path>>
daemon == <<enabled, claimed, granted, dismissed, pending, session>>
snapshot == <<phase, reading>>
window == <<shown, dialog, slot>>
escalation == <<runs, acted>>
spent == <<upsets, clicks>>
vars == <<world, daemon, snapshot, window, escalation, spent>>

Claim == [scope : Scopes, net : Nets]
Toggle == [kind : {"toggle"}, scope : Scopes, on : BOOLEAN]
Escalated == Toggle \cup {[kind |-> "revert"]}
NoDialog == [kind |-> "none"]
Dialog == {NoDialog, [kind |-> "revert"]} \cup [kind : {"approve"}, claim : Claim]
Snapshot ==
    [connected : BOOLEAN, needs_fix : SUBSET Scopes, up : SUBSET Scopes,
     enabled : SUBSET Scopes, pending : SUBSET Claim, dismissed : SUBSET Scopes,
     routes : BOOLEAN]
Blank ==
    [connected |-> FALSE, needs_fix |-> {}, up |-> {}, enabled |-> {},
     pending |-> {}, dismissed |-> {}, routes |-> FALSE]
Summary ==
    [health : Healths, enabled : SUBSET Scopes, pending : SUBSET Claim,
     awaiting : SUBSET Claim]

\* Not captured by the tunnel's routes, captured, sent elsewhere by something that
\* outranks our rules as well, or not to be found out: no probe, a failed lookup.
Paths == {"direct", "captured", "outranked", "unknown"}

TypeOK ==
    /\ connected \in BOOLEAN
    /\ net \in [Scopes -> Nets]
    /\ up \subseteq Scopes
    /\ path \in [Scopes -> Paths]
    /\ enabled \subseteq Scopes
    /\ claimed \in [Scopes -> Nets \cup {None}]
    /\ granted \subseteq Scopes
    /\ dismissed \subseteq Scopes
    /\ pending \subseteq Claim
    /\ session \in {"none", "now", "old"}
    /\ phase \in {"idle", "vpn", "diagnose", "links", "pending", "memory", "routes"}
    /\ reading \in Snapshot
    /\ shown \in Summary
    /\ dialog \in Dialog
    /\ slot \in BOOLEAN
    /\ runs \subseteq Escalated
    /\ acted \subseteq Escalated
    /\ upsets \in 0..Upsets
    /\ clicks \in 0..Clicks

\* The tunnel is up, and every scope would be captured by it.
Init ==
    /\ connected = TRUE
    /\ net = [s \in Scopes |-> First]
    /\ up = Scopes
    /\ path = [s \in Scopes |-> "captured"]
    /\ enabled = Scopes
    /\ claimed = [s \in Scopes |-> None]
    /\ granted = {}
    /\ dismissed = {}
    /\ pending = {}
    /\ session = "none"
    /\ phase = "vpn"
    /\ reading = Blank
    /\ shown = summarize(NoSnapshot)
    /\ dialog = NoDialog
    /\ slot = FALSE
    /\ runs = {}
    /\ acted = {}
    /\ upsets = 0
    /\ clicks = 0

----------------------------------------------------------------------------
\* Something happens that is bounded.
Upset ==
    /\ upsets < Upsets
    /\ upsets' = upsets + 1
    /\ UNCHANGED clicks

----------------------------------------------------------------------------
(* The world moves.                                                        *)

Move ==
    /\ Upset
    /\ UNCHANGED <<enabled, claimed, granted, dismissed, pending, snapshot, window,
                   escalation>>

\* The tunnel goes, or connects, with another address than the last or the same.
Tunnel ==
    /\ Move
    /\ connected' = ~connected
    /\ session' \in CASE session = "none" -> {"none"}
                      [] session = "now" -> {"old"}
                      [] session = "old" -> IF connected THEN {"old"} ELSE {"old", "now"}
    /\ UNCHANGED <<net, up, path>>

\* It goes and comes back with another address between two passes.
Reconnect ==
    /\ Move
    /\ connected /\ session = "now"
    /\ session' = "old"
    /\ UNCHANGED world

\* A network is made anew under its old name.
Renumber(s, n) ==
    /\ Move
    /\ n # net[s]
    /\ net' = [net EXCEPT ![s] = n]
    /\ UNCHANGED <<connected, up, path, session>>

\* Containers come and go.
UpDown(s) ==
    /\ Move
    /\ up' = IF s \in up THEN up \ {s} ELSE up \cup {s}
    /\ UNCHANGED <<connected, net, path, session>>

\* Others change routes and rules, or a lookup comes to fail.
Reroute(s, p) ==
    /\ Move
    /\ p # path[s]
    /\ path' = [path EXCEPT ![s] = p]
    /\ UNCHANGED <<connected, net, up, session>>

----------------------------------------------------------------------------
(* The daemon.                                                             *)

\* SessionGrants.sync: the tunnel is not the one that the key names.
Ended == session # IF connected THEN "now" ELSE "none"

Desired(e) == IF connected THEN e \cap up ELSE {}
ToAdd(e) == {s \in Desired(e) : claimed[s] # net[s]}
ToRemove(e) ==
    {s \in Scopes : claimed[s] # None /\ (s \notin Desired(e) \/ claimed[s] # net[s])}


\* One pass of reconcile_once with the grants g, dismissals d and enabled scopes
\* e.  A new session clears both; a pass with nothing to do leaves pending alone.
PassWith(g, d, e) ==
    LET kept == IF Ended THEN {} ELSE g IN
    /\ granted' = kept
    /\ dismissed' = IF Ended THEN {} ELSE d
    /\ enabled' = e
    /\ session' = IF connected THEN "now" ELSE "none"
    /\ IF ToAdd(e) \cup ToRemove(e) = {} THEN UNCHANGED <<claimed, pending>>
       ELSE /\ claimed' = [s \in Scopes |->
                             IF s \in ToAdd(e) \cap kept THEN net[s]
                             ELSE IF s \in ToRemove(e) THEN None ELSE claimed[s]]
            /\ pending' = {[scope |-> s, net |-> net[s]] : s \in ToAdd(e) \ kept}

\* Mutant: each pass takes the dismissals for answered.
PassForgets ==
    /\ PassWith(granted, {}, enabled)
    /\ UNCHANGED <<world, snapshot, window, escalation, spent>>

Pass ==
    /\ PassWith(granted, dismissed, enabled)
    /\ UNCHANGED <<world, snapshot, window, escalation, spent>>

\* dispatch: approve.  Its own pass follows, so a grant given to a session that
\* has ended is cleared.
Approved(s) == PassWith(granted \cup {s}, dismissed \ {s}, enabled)

\* dispatch: dismiss, without a pass.
Dismissed(s) ==
    /\ dismissed' = dismissed \cup {s}
    /\ UNCHANGED <<enabled, claimed, granted, pending, session>>

\* The daemon ends - by the restart command of the tray, of the window or of
\* another client, or by a crash - and systemd starts it again, without what it
\* had in memory.  A snapshot it was reading does not come.
Restart ==
    /\ Upset
    /\ granted' = {} /\ dismissed' = {} /\ pending' = {}
    /\ session' = "none"
    /\ phase' = "idle"
    /\ reading' = Blank
    /\ shown' = IF phase = "idle" THEN shown ELSE summarize(NoSnapshot)
    /\ UNCHANGED <<world, enabled, claimed, dialog, slot, escalation>>

----------------------------------------------------------------------------
(* A snapshot: the applet waits while the daemon reads its parts one after *)
(* the other (Daemon.snapshot).                                            *)

\* refresh, by the timer, in whatever event loop runs.
Refresh ==
    /\ phase = "idle"
    /\ phase' = "vpn"
    /\ UNCHANGED <<world, daemon, reading, window, escalation, spent>>

Reads(from, to) ==
    /\ phase = from
    /\ phase' = to
    /\ UNCHANGED <<world, daemon, window, escalation, spent>>

ReadVpn ==
    /\ Reads("vpn", "diagnose")
    /\ reading' = [reading EXCEPT !.connected = connected]

\* diagnose_all asks the kernel where the addresses of a scope go: CAPTURED or
\* MISROUTED.  Our claim helps against the tunnel's routes, for the network it is of.
NeedsFix(s) ==
    \/ path[s] = "outranked"
    \/ path[s] = "captured" /\ connected /\ claimed[s] # net[s]

Diagnose ==
    /\ Reads("diagnose", "links")
    /\ reading' = [reading EXCEPT !.needs_fix = {s \in Scopes : NeedsFix(s)}]

ReadLinks ==
    /\ Reads("links", "pending")
    /\ reading' = [reading EXCEPT !.up = up]

ReadPending ==
    /\ Reads("pending", "memory")
    /\ reading' = [reading EXCEPT !.pending = pending]

ReadMemory ==
    /\ Reads("memory", "routes")
    /\ reading' = [reading EXCEPT !.enabled = enabled, !.dismissed = dismissed]

Draw(summary) ==
    /\ phase' = "idle"
    /\ reading' = Blank
    /\ shown' = summary
    /\ UNCHANGED <<world, daemon, dialog, slot, escalation>>

\* The routes come last; then the applet is drawn.  A listing that fails reads as
\* empty.
ReadRoutes ==
    /\ phase = "routes"
    /\ \/ /\ Draw(summarize([reading EXCEPT !.routes = \E s \in Scopes : claimed[s] # None]))
          /\ UNCHANGED spent
       \/ /\ Upset
          /\ Draw(summarize(reading))

\* The daemon does not answer, or not in time.
ReadFails ==
    /\ phase # "idle"
    /\ Upset
    /\ Draw(summarize(NoSnapshot))

ReadStep ==
    ReadVpn \/ Diagnose \/ ReadLinks \/ ReadPending \/ ReadMemory \/ ReadRoutes

----------------------------------------------------------------------------
(* The applet.  It is one thread, which does nothing else while it waits.  *)

\* The user turns to the applet.
Asks ==
    /\ phase = "idle" /\ clicks < Clicks
    /\ clicks' = clicks + 1
    /\ UNCHANGED upsets

\* DaemonLink.send, which may come back with an error whether or not the daemon
\* has done it.
Sent(command) == command \/ UNCHANGED daemon

\* Window._after: a refresh follows.
After == phase' = "vpn" /\ UNCHANGED reading

\* A row of the window, when no question is open and a button is live.
Selectable(s) == Asks /\ shown.health # "unknown" /\ dialog = NoDialog

\* approve_selected: a claim that the snapshot lists is named with its network.
ClickApprove(s) ==
    /\ Selectable(s) /\ shown.pending # {}
    /\ UNCHANGED <<world, shown, slot, escalation>>
    /\ IF \E c \in shown.pending : c.scope = s
       THEN /\ \E c \in shown.pending :
                  c.scope = s /\ dialog' = [kind |-> "approve", claim |-> c]
            /\ UNCHANGED <<daemon, snapshot>>
       ELSE /\ Sent(Approved(s))
            /\ After
            /\ UNCHANGED dialog

Yes ==
    /\ phase = "idle" /\ dialog.kind = "approve"
    /\ dialog' = NoDialog
    /\ Sent(Approved(dialog.claim.scope))
    /\ After
    /\ UNCHANGED <<world, shown, slot, escalation, spent>>

No ==
    /\ phase = "idle" /\ dialog # NoDialog
    /\ dialog' = NoDialog
    /\ UNCHANGED <<world, daemon, snapshot, shown, slot, escalation, spent>>

\* An entry of the tray's menu, labelled with the network it was drawn with.  No
\* refresh follows.
TrayApprove(c) ==
    /\ Asks /\ c \in shown.pending
    /\ Sent(Approved(c.scope))
    /\ UNCHANGED <<world, snapshot, window, escalation>>

ClickDismiss(s) ==
    /\ Selectable(s) /\ shown.awaiting # {}
    /\ Sent(Dismissed(s))
    /\ After
    /\ UNCHANGED <<world, window, escalation>>

----------------------------------------------------------------------------
(* What needs root: one run of pkexec at a time.                           *)

\* Mutant: the slot is taken when the run has been authenticated.
RunEscalatedLate(task) ==
    /\ runs' = runs \cup {task}
    /\ UNCHANGED <<acted, slot>>

\* _run_escalated: the slot is taken, and the process starts or does not.
RunEscalated(task) ==
    /\ slot' = TRUE
    /\ runs' \in {runs \cup {task}, runs}
    /\ UNCHANGED acted

\* toggle_selected, by what the row says now.
ClickToggle(s) ==
    /\ Selectable(s)
    /\ ~slot
    /\ RunEscalated([kind |-> "toggle", scope |-> s, on |-> s \notin shown.enabled])
    /\ UNCHANGED <<world, daemon, snapshot, shown, dialog>>

\* revert asks first.
ClickRevert ==
    /\ Asks /\ dialog = NoDialog /\ ~slot
    /\ dialog' = [kind |-> "revert"]
    /\ UNCHANGED <<world, daemon, snapshot, shown, slot, escalation>>

YesRevert ==
    /\ phase = "idle" /\ dialog.kind = "revert"
    /\ dialog' = NoDialog
    /\ RunEscalated([kind |-> "revert"])
    /\ UNCHANGED <<world, daemon, snapshot, shown, spent>>

\* What the CLI does as root, at any time after the user has authenticated.
Effect(task) ==
    IF task.kind = "revert"
    THEN /\ claimed' = [s \in Scopes |-> None]
         /\ UNCHANGED <<enabled, granted, dismissed, pending, session>>
    ELSE PassWith(granted, dismissed,
                  IF task.on THEN enabled \cup {task.scope} ELSE enabled \ {task.scope})

RunActs(task) ==
    /\ task \in runs \ acted
    /\ acted' = acted \cup {task}
    /\ Effect(task)
    /\ UNCHANGED <<world, snapshot, window, runs, spent>>

\* _escalation_done, with or without an effect: the slot is free, and a refresh
\* follows.
RunEnds(task) ==
    /\ phase = "idle" /\ task \in runs
    /\ runs' = runs \ {task}
    /\ acted' = acted \ {task}
    /\ slot' = FALSE
    /\ After
    /\ UNCHANGED <<world, daemon, shown, dialog, spent>>

MoveOf(s) ==
    \/ UpDown(s)
    \/ \E n \in Nets : Renumber(s, n)
    \/ \E p \in Paths : Reroute(s, p)
Click(s) == ClickApprove(s) \/ ClickDismiss(s) \/ ClickToggle(s)

\* All but the steps in which the user accepts a claim that is named.
OtherStep ==
    \/ Tunnel \/ Reconnect \/ Pass \/ Restart
    \/ Refresh \/ ReadStep \/ ReadFails
    \/ \E s \in Scopes : MoveOf(s) \/ Click(s)
    \/ No \/ ClickRevert \/ YesRevert
    \/ \E task \in Escalated : RunActs(task) \/ RunEnds(task)

Next == OtherStep \/ Yes \/ \E c \in Claim : TrayApprove(c)

\* The timer fires, the daemon goes on reading a snapshot once asked, and it
\* makes its passes.  Of the user and the world nothing is assumed.
Fairness == WF_vars(Refresh) /\ WF_vars(ReadStep) /\ WF_vars(Pass)

Spec == Init /\ [][Next]_vars
FairSpec == Spec /\ Fairness
----------------------------------------------------------------------------
\* "a second click cannot stack a second password prompt" (Window._escalation),
\* whichever control it is on.
OnePrompt == Cardinality(runs) <= 1

Counts(s) == s \in enabled \cap up

\* Dismissal is "what stops one permanently-declined scope pinning the tray amber
\* and masking a scope that is claimed and genuinely failing" (SessionGrants): once
\* all that is pending has been put off, such a scope comes to show, though no
\* snapshot is of one moment.
FailureComesToShow ==
    \A s \in Scopes :
       <>[](/\ connected /\ Counts(s) /\ path[s] = "outranked" /\ claimed[s] = net[s]
            /\ \A c \in pending : c.scope \in dismissed)
          => <>[](shown.health = "failing")

\* A scope that counts and that the tunnel has is not shown healthy for ever,
\* put off or not (summarize).
GreenInTheEnd ==
    \A s \in Scopes :
       <>[](connected /\ Counts(s) /\ NeedsFix(s)) => <>[](shown.health # "healthy")


\* While the daemon runs, a scope that was put off does not ask again before the
\* tunnel is another or the user approves it (Daemon.dismiss, SessionGrants).
PutOffWhileItRuns ==
    [][\A s \in dismissed \ dismissed' : Ended \/ s \in granted' \/ Restart]_vars

\* "Put a pending scope off for this VPN session ... cleared on the next connect"
\* (dismiss_selected)
PutOffForTheSession ==
    [][\A s \in dismissed \ dismissed' : Ended \/ s \in granted']_vars

\* "The pkexec run in flight, if any" (Window._escalation)
SlotIsARun == slot => runs # {}

\* "cannot hold the tray amber": what the user has put off alone does not ask
\* for attention (README, Not now).
PutOffIsQuiet ==
    [][shown' # shown /\ phase = "routes"
          /\ Broken(reading) \subseteq reading.dismissed /\ Awaiting(reading) = {}
       => ~NeedsAttention(shown')]_vars

\* "Claimed already but still failing is a different problem from simply not having
\* claimed it yet" (summarize): one of the scopes that are broken is claimed.
FailingIsClaimed ==
    [][shown' # shown /\ shown'.health = "failing"
       => \E s \in Broken(reading) : claimed[s] # None]_vars
============================================================================
