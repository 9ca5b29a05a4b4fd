------------------------------ MODULE TrayState ------------------------------
(***************************************************************************)
(* How the applet reduces a snapshot of the daemon to what it shows        *)
(* (gui/state.py: ScopeRow, Summary, summarize).                           *)
(*                                                                         *)
(* A snapshot has connected, the scopes that are enabled, up and need a    *)
(* fix, pending (the claims that wait for approval), dismissed (names) and *)
(* routes (some route is ours).                                            *)
(***************************************************************************)

CONSTANT NoSnapshot     \* the daemon could not be reached

Healths == {"unknown", "offline", "healthy", "pending", "captured", "failing"}

\* A disabled scope is not our business, and behind a bridge that is down is
\* nothing to reach.
CountTowardHealth(sn) == sn.enabled \cap sn.up

Broken(sn) == CountTowardHealth(sn) \cap sn.needs_fix

\* Mutant: a dismissed claim goes on asking.
AwaitingAll(sn) == sn.pending

Awaiting(sn) == {c \in sn.pending : c.scope \notin sn.dismissed}

\* Mutant: only what waits for the user, or is claimed and broken, shows.
HealthQuiet(sn) ==
    IF sn = NoSnapshot THEN "unknown"
    ELSE IF ~sn.connected THEN "offline"
    ELSE IF Awaiting(sn) # {} THEN "pending"
    ELSE IF Broken(sn) # {} /\ sn.routes THEN "failing"
    ELSE "healthy"

Health(sn) ==
    IF sn = NoSnapshot THEN "unknown"
    ELSE IF ~sn.connected THEN "offline"
    ELSE IF Awaiting(sn) # {} THEN "pending"
    ELSE IF Broken(sn) = {} THEN "healthy"
    ELSE IF sn.routes THEN "failing"
    ELSE "captured"

\* The Summary, as far as the controls read it.
summarize(sn) ==
    [health |-> Health(sn),
     enabled |-> IF sn = NoSnapshot THEN {} ELSE sn.enabled,
     pending |-> IF sn = NoSnapshot THEN {} ELSE sn.pending,
     awaiting |-> IF sn = NoSnapshot THEN {} ELSE Awaiting(sn)]

NeedsAttention(summary) == summary.health \in {"pending", "captured", "failing"}
============================================================================
