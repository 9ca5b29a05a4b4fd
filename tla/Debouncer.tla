----------------------------- MODULE Debouncer -----------------------------
(***************************************************************************)
(* How a change of the kernel becomes a reconcile pass: the watcher thread *)
(* that reads `ip monitor`, the Debouncer it records events in, and the    *)
(* main loop that polls the Debouncer and resyncs from time to time        *)
(* (monitor.py; Daemon.run and Daemon._watch_loop).                        *)
(*                                                                         *)
(* Time is discrete and kept as ages: how many ticks ago something was,    *)
(* Never if it was not.  The threads' own steps take no time; a wait lasts *)
(* Poll ticks and a pass at most PassTime.                                 *)
(***************************************************************************)
EXTENDS Integers

CONSTANTS
    Quiet,      \* DEBOUNCE_SECONDS
    Maximum,    \* MAX_DEBOUNCE_SECONDS
    Poll,       \* POLL_INTERVAL
    Resync,     \* RESYNC_SECONDS
    Backoff,    \* the wait after the monitor died
    PassTime,   \* bound on how long a pass takes
    Changes,    \* bound on the changes of the world
    Deaths,     \* bound on the deaths of the monitor
    Never

ASSUME TimeAssumption ==
    /\ Quiet \in Nat \ {0}
    /\ Maximum \in Nat \ {0}
    /\ Poll \in Nat \ {0}
    /\ Resync \in Nat \ {0}
    /\ Backoff \in Nat \ {0}
    /\ PassTime \in Nat
    /\ Quiet <= Maximum
    /\ Never \notin Nat

ASSUME BoundAssumption == Changes \in Nat /\ Deaths \in Nat

VARIABLES
    first,      \* age of Debouncer._first
    last,       \* age of Debouncer._last
    lines,      \* lines of the monitor that await record()
    watcher,    \* ticks until the monitor runs again; 0 when it runs
    at,         \* where the main loop is
    waited,     \* ticks spent in this wait or pass
    resynced,   \* age of last_resync
    change,     \* history: age of the oldest change no pass has read
    heard,      \* history: age of the oldest of those the watcher saw
    fired,      \* history: age of the last burst taken
    changes,    \* changes so far
    deaths      \* deaths so far

debouncer == <<first, last>>
loop == <<at, waited, resynced>>
ages == <<change, heard, fired>>
spent == <<changes, deaths>>
vars == <<debouncer, lines, watcher, loop, ages, spent>>

Age == Nat \cup {Never}

\* The types of the variables; there is a burst or there is none.
TypeOK ==
    /\ first \in Age
    /\ last \in Age
    /\ (first = Never) <=> (last = Never)
    /\ lines \in Nat
    /\ watcher \in 0..Backoff
    /\ at \in {"check", "take", "pass", "apply", "noop", "wait"}
    /\ waited \in Nat
    /\ resynced \in Nat
    /\ change \in Age
    /\ heard \in Age
    /\ fired \in Age
    /\ changes \in 0..Changes
    /\ deaths \in 0..Deaths

Older(age) == IF age = Never THEN Never ELSE age + 1
Oldest(age) == IF age = Never THEN 0 ELSE age

\* The history needs no more than "long ago".
Capped(age) == IF age = Never \/ age < Quiet THEN Older(age) ELSE age

\* The startup pass (run: the watcher is started first).
Init ==
    /\ first = Never
    /\ last = Never
    /\ lines = 0
    /\ watcher \in 0..Backoff
    /\ at = "pass"
    /\ waited = 0
    /\ resynced = 0
    /\ change = 0
    /\ heard = Never
    /\ fired = Never
    /\ changes = 0
    /\ deaths = 0

----------------------------------------------------------------------------
(* The world and the watcher.                                              *)

\* A route or a link changes; a monitor that runs prints a line.
Change ==
    /\ changes < Changes
    /\ changes' = changes + 1
    /\ change' = Oldest(change)
    /\ heard' = IF watcher = 0 THEN Oldest(heard) ELSE heard
    /\ lines' = IF watcher = 0 THEN lines + 1 ELSE lines
    /\ UNCHANGED <<debouncer, watcher, loop, fired, deaths>>

\* The monitor dies with what it had printed.  _watch_loop starts another, at
\* once where its output ended, later after an exception.  What changes
\* meanwhile is not seen.
MonitorDies ==
    /\ watcher = 0 /\ deaths < Deaths
    /\ deaths' = deaths + 1
    /\ watcher' \in 1..Backoff
    /\ lines' = 0
    /\ heard' = IF lines > 0 /\ heard = 0 THEN Never ELSE heard
    /\ UNCHANGED <<debouncer, loop, change, fired, changes>>

\* Debouncer.record
Record ==
    /\ lines > 0
    /\ lines' = lines - 1
    /\ first' = Oldest(first)
    /\ last' = 0
    /\ UNCHANGED <<watcher, loop, ages, spent>>

----------------------------------------------------------------------------
(* The main loop.                                                          *)

\* Mutant: a stream of events that does not pause is never due.
due_quiet == first # Never /\ last >= Quiet

due == first # Never /\ (last >= Quiet \/ first >= Maximum)

\* Mutant: every turn of the loop counts as a resync.
CheckResets ==
    /\ at = "check"
    /\ waited' = 0
    /\ resynced' = 0
    /\ at' = IF due THEN "take" ELSE IF resynced >= Resync THEN "pass" ELSE "wait"
    /\ UNCHANGED <<debouncer, lines, watcher, ages, spent>>

\* fire_if_due's question, then the resync's.
Check ==
    /\ at = "check"
    /\ waited' = 0
    /\ at' = IF due THEN "take" ELSE IF resynced >= Resync THEN "pass" ELSE "wait"
    /\ UNCHANGED <<debouncer, lines, watcher, resynced, ages, spent>>

\* Mutant: the burst is not forgotten.
TakeKeeps ==
    /\ at = "take"
    /\ fired' = 0
    /\ at' = "pass"
    /\ UNCHANGED <<debouncer, lines, watcher, waited, resynced,
                   change, heard, spent>>

\* Debouncer.take, which may take events recorded since due() looked.
Take ==
    /\ at = "take"
    /\ first' = Never
    /\ last' = Never
    /\ fired' = 0
    /\ at' = "pass"
    /\ UNCHANGED <<lines, watcher, waited, resynced, change, heard,
                   spent>>

\* A pass reads the kernel: whatever has changed until now is dealt with.
ReadKernel ==
    /\ at = "pass"
    /\ change' = Never
    /\ heard' = Never
    /\ at' = IF change = Never THEN "noop" ELSE "apply"
    /\ UNCHANGED <<debouncer, lines, watcher, waited, resynced, fired, spent>>

\* Mutant: a pass writes to the kernel even when all is in place.
FinishEchoes ==
    /\ at \in {"apply", "noop"}
    /\ resynced' = 0
    /\ waited' = 0
    /\ at' = "wait"
    /\ lines' = IF watcher = 0 THEN lines + 1 ELSE lines
    /\ UNCHANGED <<debouncer, watcher, ages, spent>>

\* What a pass that found something to do does to the kernel is an event too.
Finish ==
    /\ at \in {"apply", "noop"}
    /\ resynced' = 0
    /\ waited' = 0
    /\ at' = "wait"
    /\ \/ lines' = lines
       \/ at = "apply" /\ watcher = 0 /\ lines' = lines + 1
    /\ UNCHANGED <<debouncer, watcher, ages, spent>>

Wake ==
    /\ at = "wait" /\ waited >= Poll
    /\ at' = "check"
    /\ UNCHANGED <<debouncer, lines, watcher, waited, resynced, ages,
                   spent>>

----------------------------------------------------------------------------
\* A tick passes while the loop waits or a pass runs, and not before a line
\* that was printed is recorded.
Tick ==
    /\ \/ at = "wait" /\ waited < Poll
       \/ at \in {"pass", "apply", "noop"} /\ waited < PassTime
    /\ lines = 0
    /\ waited' = waited + 1
    /\ first' = Older(first)
    /\ last' = Older(last)
    /\ watcher' = IF watcher = 0 THEN 0 ELSE watcher - 1
    /\ resynced' = resynced + 1
    /\ change' = Older(change)
    /\ heard' = Older(heard)
    /\ fired' = Capped(fired)
    /\ UNCHANGED <<lines, at, spent>>

MainStep == Check \/ Take \/ ReadKernel \/ Finish \/ Wake

Next == Change \/ MonitorDies \/ Record \/ MainStep \/ Tick

\* Threads are scheduled and time passes.
Fairness == WF_vars(MainStep \/ Tick) /\ WF_vars(Record) /\ WF_vars(MainStep)

Spec == Init /\ [][Next]_vars

FairSpec == Spec /\ Fairness
----------------------------------------------------------------------------
Larger(a, b) == IF a >= b THEN a ELSE b

\* A change the watcher saw is read by a pass within the cap on a burst, one
\* poll and one pass, however the events keep coming and wherever the main
\* loop is when they come: "so a client that churns continuously cannot starve
\* reconciliation entirely" (monitor.Debouncer).
HeardInTime ==
    heard # Never => heard <= Larger(Maximum, PassTime) + Poll + PassTime

\* A change nobody saw is read within the resync interval: "so a missed
\* message or an out-of-band change cannot leave us wrong indefinitely"
\* (daemon.RESYNC_SECONDS).
ChangeInTime ==
    change # Never => change <= Resync + Poll + 2 * PassTime

\* A burst is one pass: two of them are at least Quiet apart.
Spaced == [][Take => fired = Never \/ fired >= Quiet]_vars

\* The events a pass causes do not cause passes for ever.
Rests == <>[](first = Never)

============================================================================
