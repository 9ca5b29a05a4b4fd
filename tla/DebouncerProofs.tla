-------------------------- MODULE DebouncerProofs --------------------------
(***************************************************************************)
(* What holds of Debouncer for any quiet period, cap, poll and resync      *)
(* intervals, and any number of changes and deaths of the monitor.         *)
(***************************************************************************)
EXTENDS Debouncer, TLAPS

\* The longest a change the watcher saw may be waited for.
Wait == Larger(Maximum, PassTime)

\* Where the clock of the main loop stands.
ClockInv ==
    /\ at = "wait" => waited <= Poll
    /\ at = "check" => waited = Poll
    /\ at = "take" => waited = 0
    /\ at \in {"pass", "apply", "noop"} => waited <= PassTime

\* A change the watcher saw is recorded, is about to be, or is in hand.
HeardInv ==
    /\ (heard # Never /\ at # "pass") =>
          \/ first # Never /\ heard <= first
          \/ lines > 0 /\ heard = 0
    /\ heard # Never =>
          /\ at = "wait" => heard <= Wait + waited
          /\ at \in {"check", "take"} => heard <= Wait + Poll
          /\ at = "pass" => heard <= Wait + Poll + waited
          /\ at \in {"apply", "noop"} => heard <= waited

\* What no pass has read is not much older than the last resync.
ChangeInv ==
    /\ at = "wait" => resynced <= Resync + waited
    /\ at \in {"check", "take"} => resynced <= Resync + Poll
    /\ change # Never =>
          /\ at \in {"wait", "check", "take"} => change <= resynced + PassTime
          /\ at = "pass" => change <= Resync + Poll + PassTime + waited
          /\ at \in {"apply", "noop"} => change <= waited

\* A burst begins after the last one was taken, and is taken once it is Quiet
\* old.
BurstInv ==
    /\ first # Never => last <= first
    /\ (first # Never /\ fired # Never) => (first <= fired \/ fired >= Quiet)
    /\ at = "take" => first # Never /\ first >= Quiet

TimeInv == TypeOK /\ ClockInv /\ HeardInv /\ ChangeInv /\ BurstInv

----------------------------------------------------------------------------
LEMMA InitTimeInv == Init => TimeInv
<1> SUFFICES ASSUME Init PROVE TimeInv
  OBVIOUS
<1> USE TimeAssumption, BoundAssumption DEF Init
<1>1. TypeOK
  BY DEF TypeOK, Age
<1>2. ClockInv /\ HeardInv /\ ChangeInv /\ BurstInv
  BY DEF ClockInv, HeardInv, ChangeInv, BurstInv, Wait, Larger
<1>3. QED
  BY <1>1, <1>2 DEF TimeInv

\* The world's steps and the watcher's disturb the history and the burst.
LEMMA WorldTimeInv ==
    ASSUME TimeInv, Change \/ MonitorDies \/ Record
    PROVE  TimeInv'
<1>0. TypeOK /\ ClockInv /\ HeardInv /\ ChangeInv /\ BurstInv
  BY DEF TimeInv
<1> USE TimeAssumption, BoundAssumption
    DEF Age, Oldest, Wait, Larger, debouncer, loop, ages,
        spent
<1>1. CASE Change
  <2>1. TypeOK' /\ ClockInv' /\ BurstInv'
    BY <1>0, <1>1 DEF Change, TypeOK, ClockInv, BurstInv
  <2>2. HeardInv'
    BY <1>0, <1>1 DEF Change, TypeOK, HeardInv, ClockInv
  <2>3. ChangeInv'
    BY <1>0, <1>1 DEF Change, TypeOK, ChangeInv, ClockInv
  <2>4. QED
    BY <2>1, <2>2, <2>3 DEF TimeInv
<1>2. CASE MonitorDies
  <2>1. TypeOK' /\ ClockInv' /\ BurstInv' /\ ChangeInv'
    BY <1>0, <1>2 DEF MonitorDies, TypeOK, ClockInv, BurstInv, ChangeInv
  <2>2. HeardInv'
    BY <1>0, <1>2 DEF MonitorDies, TypeOK, HeardInv, ClockInv
  <2>3. QED
    BY <2>1, <2>2 DEF TimeInv
<1>3. CASE Record
  <2>1. TypeOK' /\ ClockInv' /\ ChangeInv'
    BY <1>0, <1>3 DEF Record, TypeOK, ClockInv, ChangeInv
  <2>2. HeardInv'
    BY <1>0, <1>3 DEF Record, TypeOK, HeardInv, ClockInv
  <2>3. BurstInv'
    BY <1>0, <1>3 DEF Record, TypeOK, BurstInv
  <2>4. QED
    BY <2>1, <2>2, <2>3 DEF TimeInv
<1>4. QED
  BY <1>1, <1>2, <1>3

\* The main loop's steps take no time.
LEMMA MainTimeInv ==
    ASSUME TimeInv, MainStep
    PROVE  TimeInv'
<1>0. TypeOK /\ ClockInv /\ HeardInv /\ ChangeInv /\ BurstInv
  BY DEF TimeInv
<1> USE TimeAssumption, BoundAssumption
    DEF Age, Wait, Larger, debouncer, loop, ages,
        spent
<1>1. CASE Check
  <2>1. TypeOK' /\ ClockInv'
    BY <1>0, <1>1 DEF Check, TypeOK, ClockInv
  <2>2. HeardInv'
    BY <1>0, <1>1 DEF Check, TypeOK, HeardInv, due
  <2>3. ChangeInv'
    BY <1>0, <1>1 DEF Check, TypeOK, ChangeInv
  <2>4. BurstInv'
    BY <1>0, <1>1 DEF Check, TypeOK, BurstInv, due
  <2>5. QED
    BY <2>1, <2>2, <2>3, <2>4 DEF TimeInv
<1>2. CASE Take
  <2>1. TypeOK'
    BY <1>0, <1>2 DEF Take, TypeOK
  <2>2. ClockInv' /\ BurstInv'
    BY <1>0, <1>2 DEF Take, TypeOK, ClockInv, BurstInv
  <2>3. HeardInv'
    BY <1>0, <1>2 DEF Take, TypeOK, ClockInv, HeardInv
  <2>4. ChangeInv'
    BY <1>0, <1>2 DEF Take, TypeOK, ClockInv, ChangeInv
  <2>5. QED
    BY <2>1, <2>2, <2>3, <2>4 DEF TimeInv
<1>3. CASE ReadKernel
  <2>1. TypeOK'
    BY <1>0, <1>3 DEF ReadKernel, TypeOK
  <2>2. ClockInv' /\ BurstInv'
    BY <1>0, <1>3 DEF ReadKernel, TypeOK, ClockInv, BurstInv
  <2>3. HeardInv'
    BY <1>0, <1>3 DEF ReadKernel, TypeOK, ClockInv, HeardInv
  <2>4. ChangeInv'
    BY <1>0, <1>3 DEF ReadKernel, TypeOK, ClockInv, ChangeInv
  <2>5. QED
    BY <2>1, <2>2, <2>3, <2>4 DEF TimeInv
<1>4. CASE Finish
  <2>1. TypeOK'
    BY <1>0, <1>4 DEF Finish, TypeOK
  <2>2. ClockInv' /\ BurstInv'
    BY <1>0, <1>4 DEF Finish, TypeOK, ClockInv, BurstInv
  <2>3. HeardInv'
    BY <1>0, <1>4 DEF Finish, TypeOK, ClockInv, HeardInv
  <2>4. ChangeInv'
    BY <1>0, <1>4 DEF Finish, TypeOK, ClockInv, ChangeInv
  <2>5. QED
    BY <2>1, <2>2, <2>3, <2>4 DEF TimeInv
<1>5. CASE Wake
  <2>1. TypeOK'
    BY <1>0, <1>5 DEF Wake, TypeOK
  <2>2. ClockInv' /\ BurstInv'
    BY <1>0, <1>5 DEF Wake, TypeOK, ClockInv, BurstInv
  <2>3. HeardInv'
    BY <1>0, <1>5 DEF Wake, TypeOK, ClockInv, HeardInv
  <2>4. ChangeInv'
    BY <1>0, <1>5 DEF Wake, TypeOK, ClockInv, ChangeInv
  <2>5. QED
    BY <2>1, <2>2, <2>3, <2>4 DEF TimeInv
<1>6. QED
  BY <1>1, <1>2, <1>3, <1>4, <1>5, Zenon DEF MainStep

\* A tick ages everything by one, the wait or the pass in hand included.
LEMMA TickTimeInv ==
    ASSUME TimeInv, Tick
    PROVE  TimeInv'
<1>0. TypeOK /\ ClockInv /\ HeardInv /\ ChangeInv /\ BurstInv
  BY DEF TimeInv
<1> USE TimeAssumption, BoundAssumption
    DEF Age, Older, Tick, Wait, Larger
<1>1. TypeOK'
  <2>1. Older(first) \in Age /\ Older(last) \in Age
          /\ ((Older(first) = Never) <=> (Older(last) = Never))
    BY <1>0 DEF TypeOK
  <2>2. Older(change) \in Age /\ Older(heard) \in Age /\ Capped(fired) \in Age
    BY <1>0 DEF TypeOK, Capped
  <2>3. watcher' \in 0..Backoff /\ waited' \in Nat /\ resynced' \in Nat
    BY <1>0 DEF TypeOK
  <2>4. QED
    BY <1>0, <2>1, <2>2, <2>3, Zenon DEF TypeOK, spent
<1>2. ClockInv'
  BY <1>0 DEF TypeOK, ClockInv, HeardInv, ChangeInv
<1>3. HeardInv'
  BY <1>0 DEF TypeOK, ClockInv, HeardInv, ChangeInv
<1>4. ChangeInv'
  BY <1>0 DEF TypeOK, ClockInv, HeardInv, ChangeInv
<1>5. BurstInv'
  BY <1>0 DEF TypeOK, BurstInv, Capped
<1>6. QED
  BY <1>1, <1>2, <1>3, <1>4, <1>5 DEF TimeInv

LEMMA StutterTimeInv == TimeInv /\ UNCHANGED vars => TimeInv'
  BY DEF TimeInv, TypeOK, ClockInv, HeardInv, ChangeInv, BurstInv, vars,
         debouncer, loop, ages, spent

LEMMA AlwaysTimeInv == Spec => []TimeInv
<1>1. TimeInv /\ [Next]_vars => TimeInv'
  BY WorldTimeInv, MainTimeInv, TickTimeInv, StutterTimeInv DEF Next
<1>2. QED
  BY <1>1, InitTimeInv, PTL DEF Spec

----------------------------------------------------------------------------
\* Every variable keeps its type, and a burst has both its times or neither.
THEOREM TypeCorrect == Spec => []TypeOK
<1>1. TimeInv => TypeOK
  BY DEF TimeInv
<1>2. QED
  BY <1>1, AlwaysTimeInv, PTL

\* A change the watcher saw is read within the cap, a poll and a pass: no
\* stream of events starves the reconciler (monitor.Debouncer, Daemon.run).
THEOREM NoStarvation == Spec => []HeardInTime
<1>1. TimeInv => HeardInTime
  BY TimeAssumption
  DEF TimeInv, TypeOK, ClockInv, HeardInv, HeardInTime, Age, Wait, Larger
<1>2. QED
  BY <1>1, AlwaysTimeInv, PTL

\* A change nobody saw is read within the resync interval, a poll and the
\* passes at its ends (daemon.RESYNC_SECONDS, Daemon.run).
THEOREM NoLastingMiss == Spec => []ChangeInTime
<1>1. TimeInv => ChangeInTime
  BY TimeAssumption
  DEF TimeInv, TypeOK, ClockInv, ChangeInv, ChangeInTime, Age
<1>2. QED
  BY <1>1, AlwaysTimeInv, PTL

\* Bursts are taken at least the quiet period apart (Debouncer.take).
THEOREM BurstsAreSpaced == Spec => Spaced
<1>1. TimeInv /\ [Next]_vars => [Take => fired = Never \/ fired >= Quiet]_vars
  BY TimeAssumption DEF TimeInv, TypeOK, BurstInv, Age, Take
<1>2. QED
  BY <1>1, AlwaysTimeInv, PTL DEF Spec, Spaced

============================================================================
