---------------------------- MODULE AtomicConfig ----------------------------
(***************************************************************************)
(* What config.save promises a command: the settings that it names, and no *)
(* others, become what it says, all in one step and once, before it is     *)
(* acknowledged.  A command that fails or dies has set all of them or none.*)
(***************************************************************************)
CONSTANTS Writers, Settings, Values, Unset

Config == [Settings -> Values \cup {Unset}]

VARIABLES
    config,
    phase,      \* where the command of each writer is
    settings,   \* what it names,
    value       \* and what that is to be

vars == <<config, phase, settings, value>>

Init ==
    /\ config \in Config
    /\ phase = [w \in Writers |-> "idle"]
    /\ settings = [w \in Writers |-> {}]
    /\ value \in [Writers -> Values]

Ask(w, S, v) ==
    /\ phase[w] = "idle"
    /\ phase' = [phase EXCEPT ![w] = "asked"]
    /\ settings' = [settings EXCEPT ![w] = S]
    /\ value' = [value EXCEPT ![w] = v]
    /\ UNCHANGED config

Set(w) ==
    /\ phase[w] = "asked"
    /\ phase' = [phase EXCEPT ![w] = "done"]
    /\ config' = [s \in Settings |-> IF s \in settings[w] THEN value[w] ELSE config[s]]
    /\ UNCHANGED <<settings, value>>

Acknowledge(w) ==
    /\ phase[w] = "done"
    /\ phase' = [phase EXCEPT ![w] = "idle"]
    /\ UNCHANGED <<config, settings, value>>

\* The commands of W fail, or die with their process.
Fail(W) ==
    /\ phase' = [w \in Writers |-> IF w \in W THEN "idle" ELSE phase[w]]
    /\ UNCHANGED <<config, settings, value>>

Next ==
    \/ \E w \in Writers :
          \/ \E S \in SUBSET Settings, v \in Values : Ask(w, S, v)
          \/ Set(w) \/ Acknowledge(w)
    \/ \E W \in SUBSET Writers : Fail(W)

Spec == Init /\ [][Next]_vars
============================================================================
