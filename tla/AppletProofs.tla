---------------------------- MODULE AppletProofs ----------------------------
(***************************************************************************)
(* Proofs about Applet, for any scopes, networks and bounds: one prompt at *)
(* a time; and a scope that was put off stays so for its session while the *)
(* daemon runs.                                                            *)
(***************************************************************************)
EXTENDS Applet, FiniteSetTheorems, TLAPS

\* A run in flight holds the slot, and it is the only one; none is started
\* while revert asks.
SlotInv ==
    /\ runs # {} => slot
    /\ \A a, b \in runs : a = b
    /\ dialog.kind = "revert" => ~slot

----------------------------------------------------------------------------
(* Types, by the part of the state.                                        *)

WorldType ==
    /\ connected \in BOOLEAN
    /\ net \in [Scopes -> Nets]
    /\ up \subseteq Scopes
    /\ path \in [Scopes -> Paths]

DaemonType ==
    /\ enabled \subseteq Scopes
    /\ claimed \in [Scopes -> Nets \cup {None}]
    /\ granted \subseteq Scopes
    /\ dismissed \subseteq Scopes
    /\ pending \subseteq Claim
    /\ session \in {"none", "now", "old"}

SnapshotType ==
    /\ phase \in {"idle", "vpn", "diagnose", "links", "pending", "memory", "routes"}
    /\ reading \in Snapshot

WindowType ==
    /\ shown \in Summary
    /\ dialog \in Dialog
    /\ slot \in BOOLEAN

EscalationType == runs \subseteq Escalated /\ acted \subseteq Escalated

SpentType == upsets \in 0..Upsets /\ clicks \in 0..Clicks

\* Parts that keep their types make a state that does.
LEMMA TypeParts ==
  /\ WorldType' /\ DaemonType' /\ SnapshotType'
  /\ WindowType' /\ EscalationType' /\ SpentType'
  => TypeOK'
BY DEF TypeOK, WorldType, DaemonType, SnapshotType, WindowType, EscalationType, SpentType

LEMMA TypeUnchanged ==
  ASSUME TypeOK
  PROVE  /\ UNCHANGED world => WorldType'
         /\ UNCHANGED daemon => DaemonType'
         /\ UNCHANGED snapshot => SnapshotType'
         /\ UNCHANGED window => WindowType'
         /\ UNCHANGED escalation => EscalationType'
         /\ UNCHANGED spent => SpentType'
BY DEF TypeOK, WorldType, DaemonType, SnapshotType, WindowType, EscalationType,
       SpentType, world, daemon, snapshot, window, escalation, spent

\* What is counted stays within its bound.
LEMMA SpentTypes == TypeOK /\ (Upset \/ Asks) => SpentType'
BY BoundAssumption DEF TypeOK, SpentType, Upset, Asks

\* The summary of a snapshot is one.
LEMMA SummaryType ==
  ASSUME NEW sn, sn \in Snapshot \/ sn = NoSnapshot
  PROVE  summarize(sn) \in Summary
<1>1. Health(sn) \in Healths
  BY DEF Health, Healths
<1>2. CASE sn = NoSnapshot
  BY <1>1, <1>2 DEF summarize, Summary
<1>3. CASE sn # NoSnapshot
  <2>1. sn.enabled \subseteq Scopes /\ sn.pending \subseteq Claim
    BY <1>3 DEF Snapshot
  <2>2. Awaiting(sn) \subseteq Claim
    BY <2>1 DEF Awaiting
  <2> QED  BY <1>1, <1>3, <2>1, <2>2 DEF summarize, Summary
<1> QED  BY <1>2, <1>3

LEMMA BlankType == Blank \in Snapshot
BY DEF Blank, Snapshot

\* A pass keeps the daemon's types.
LEMMA PassType ==
  ASSUME TypeOK, NEW g \in SUBSET Scopes, NEW d \in SUBSET Scopes,
         NEW e \in SUBSET Scopes, PassWith(g, d, e)
  PROVE  DaemonType'
<1>1. /\ enabled' \subseteq Scopes /\ session' \in {"none", "now", "old"}
      /\ granted' \subseteq Scopes /\ dismissed' \subseteq Scopes
  BY DEF PassWith
<1>2. CASE UNCHANGED <<claimed, pending>>
  BY <1>1, <1>2 DEF TypeOK, DaemonType
<1>3. CASE ToAdd(e) \cup ToRemove(e) # {}
  <2>1. ToAdd(e) \subseteq Scopes
    BY DEF ToAdd, Desired
  <2>2. pending' \subseteq Claim
    BY <1>3, <2>1 DEF PassWith, TypeOK, Claim
  <2>3. claimed' \in [Scopes -> Nets \cup {None}]
    BY <1>3 DEF PassWith, TypeOK
  <2> QED  BY <1>1, <2>2, <2>3 DEF DaemonType
<1> QED  BY <1>2, <1>3 DEF PassWith

\* So does a command that reaches the daemon or does not.
LEMMA CommandType ==
  ASSUME TypeOK, NEW s \in Scopes, Sent(Approved(s)) \/ Sent(Dismissed(s))
  PROVE  DaemonType'
<1>1. CASE UNCHANGED daemon
  BY <1>1, TypeUnchanged
<1>2. CASE Approved(s)
  BY <1>2, PassType DEF Approved, TypeOK
<1>3. CASE Dismissed(s)
  BY <1>3 DEF Dismissed, TypeOK, DaemonType
<1> QED  BY <1>1, <1>2, <1>3 DEF Sent

LEMMA EffectType ==
  ASSUME TypeOK, NEW task \in Escalated, Effect(task)
  PROVE  DaemonType'
<1>1. CASE task.kind = "revert"
  BY <1>1 DEF Effect, DaemonType, TypeOK
<1>2. CASE task.kind # "revert"
  <2>1. task.scope \in Scopes
    BY <1>2 DEF Escalated, Toggle
  <2>2. PICK e \in SUBSET Scopes : PassWith(granted, dismissed, e)
    BY <1>2, <2>1 DEF Effect, TypeOK
  <2> QED  BY <2>2, PassType DEF TypeOK
<1> QED  BY <1>1, <1>2

\* A refresh may follow a click.
LEMMA AfterType == TypeOK /\ (After \/ UNCHANGED snapshot) => SnapshotType'
BY DEF After, snapshot, SnapshotType, TypeOK

----------------------------------------------------------------------------
(* Types, by the step.                                                     *)

LEMMA MoveType ==
  ASSUME TypeOK, Tunnel \/ Reconnect \/ \E s \in Scopes : MoveOf(s)
  PROVE  TypeOK'
<1>1. Move
  BY DEF Tunnel, Reconnect, MoveOf, UpDown, Renumber, Reroute
<1>2. WorldType' /\ session' \in {"none", "now", "old"}
  <2>1. CASE Tunnel
    <3>1. session' \in {"none", "now", "old"}
      BY <2>1 DEF Tunnel, TypeOK
    <3> QED  BY <2>1, <3>1 DEF Tunnel, TypeOK, WorldType
  <2>2. CASE Reconnect
    BY <2>2 DEF Reconnect, TypeOK, WorldType, world
  <2>3. ASSUME NEW s \in Scopes, MoveOf(s)
        PROVE  WorldType' /\ session' \in {"none", "now", "old"}
    BY <2>3 DEF MoveOf, UpDown, Renumber, Reroute, TypeOK, WorldType
  <2> QED  BY <2>1, <2>2, <2>3
<1>3. DaemonType'
  BY <1>1, <1>2 DEF Move, DaemonType, TypeOK
<1>4. SpentType'
  BY <1>1, SpentTypes DEF Move
<1> QED  BY <1>1, <1>2, <1>3, <1>4, TypeUnchanged, TypeParts DEF Move

LEMMA DaemonStepType == TypeOK /\ (Pass \/ Restart) => TypeOK'
<1> SUFFICES ASSUME TypeOK, Pass \/ Restart PROVE TypeOK'
  OBVIOUS
<1>1. CASE Pass
  <2>1. DaemonType'
    BY <1>1, PassType DEF Pass, TypeOK
  <2> QED  BY <1>1, <2>1, TypeUnchanged, TypeParts DEF Pass
<1>2. CASE Restart
  <2>1. DaemonType'
    BY <1>2 DEF Restart, DaemonType, TypeOK
  <2>2. SnapshotType'
    BY <1>2, BlankType DEF Restart, SnapshotType
  <2>3. WindowType'
    BY <1>2, SummaryType DEF Restart, WindowType, TypeOK
  <2>4. SpentType'
    BY <1>2, SpentTypes DEF Restart
  <2> QED  BY <1>2, <2>1, <2>2, <2>3, <2>4, TypeUnchanged, TypeParts DEF Restart
<1> QED  BY <1>1, <1>2

LEMMA ReadType == TypeOK /\ (Refresh \/ ReadStep \/ ReadFails) => TypeOK'
<1> SUFFICES ASSUME TypeOK, Refresh \/ ReadStep \/ ReadFails PROVE TypeOK'
  OBVIOUS
<1>1. CASE Refresh
  <2>1. SnapshotType'
    BY <1>1 DEF Refresh, SnapshotType, TypeOK
  <2> QED  BY <1>1, <2>1, TypeUnchanged, TypeParts DEF Refresh
<1>2. CASE ReadVpn \/ Diagnose \/ ReadLinks \/ ReadPending \/ ReadMemory
  <2>1. SnapshotType'
    <3>1. CASE ReadVpn
      BY <3>1 DEF ReadVpn, Reads, SnapshotType, TypeOK, Snapshot
    <3>2. CASE Diagnose
      BY <3>2 DEF Diagnose, Reads, SnapshotType, TypeOK, Snapshot
    <3>3. CASE ReadLinks
      BY <3>3 DEF ReadLinks, Reads, SnapshotType, TypeOK, Snapshot
    <3>4. CASE ReadPending
      BY <3>4 DEF ReadPending, Reads, SnapshotType, TypeOK, Snapshot
    <3>5. CASE ReadMemory
      BY <3>5 DEF ReadMemory, Reads, SnapshotType, TypeOK, Snapshot
    <3> QED  BY <1>2, <3>1, <3>2, <3>3, <3>4, <3>5
  <2> QED  BY <1>2, <2>1, TypeUnchanged, TypeParts
           DEF ReadVpn, Diagnose, ReadLinks, ReadPending, ReadMemory, Reads
<1>3. ASSUME NEW sn, sn \in Snapshot \/ sn = NoSnapshot,
             Draw(summarize(sn)), SpentType'
      PROVE  TypeOK'
  <2>1. SnapshotType'
    BY <1>3, BlankType DEF Draw, SnapshotType
  <2>2. WindowType'
    BY <1>3, SummaryType DEF Draw, WindowType, TypeOK
  <2> QED  BY <1>3, <2>1, <2>2, TypeUnchanged, TypeParts DEF Draw
<1>4. CASE ReadRoutes
  <2>1. SpentType'
    BY <1>4, SpentTypes, TypeUnchanged DEF ReadRoutes
  <2> DEFINE routes == \E s \in Scopes : claimed[s] # None
             sn == [reading EXCEPT !.routes = routes]
  <2>2. routes \in BOOLEAN
    BY Zenon
  <2>3. sn \in Snapshot /\ reading \in Snapshot
    <3> HIDE DEF routes
    <3> QED  BY <2>2 DEF TypeOK, Snapshot
  <2>4. Draw(summarize(sn)) \/ Draw(summarize(reading))
    BY <1>4 DEF ReadRoutes
  <2> HIDE DEF sn
  <2> QED  BY <1>3, <2>1, <2>3, <2>4
<1>5. CASE ReadFails
  BY <1>3, <1>5, SpentTypes DEF ReadFails
<1> QED  BY <1>1, <1>2, <1>4, <1>5 DEF ReadStep

LEMMA ClickType ==
  ASSUME TypeOK, NEW s \in Scopes, Click(s)
  PROVE  TypeOK'
<1>1. SpentType'
  BY SpentTypes DEF Click, ClickApprove, ClickDismiss, ClickToggle, Selectable
<1>2. CASE ClickApprove(s)
  <2>1. CASE \E c \in shown.pending : c.scope = s
    <3>1. PICK c \in shown.pending : dialog' = [kind |-> "approve", claim |-> c]
      BY <1>2, <2>1 DEF ClickApprove
    <3>2. c \in Claim
      BY <3>1 DEF TypeOK, Summary
    <3>3. dialog' \in Dialog
      BY <3>1, <3>2 DEF Dialog
    <3>4. WindowType'
      BY <1>2, <3>3 DEF ClickApprove, WindowType, TypeOK
    <3> QED  BY <1>1, <1>2, <2>1, <3>4, TypeUnchanged, TypeParts DEF ClickApprove
  <2>2. CASE ~\E c \in shown.pending : c.scope = s
    <3>1. Sent(Approved(s)) /\ After /\ UNCHANGED <<shown, dialog, slot>>
      BY <1>2, <2>2 DEF ClickApprove
    <3>2. DaemonType' /\ SnapshotType'
      BY <3>1, CommandType, AfterType
    <3> QED  BY <1>1, <1>2, <3>1, <3>2, TypeUnchanged, TypeParts DEF ClickApprove, window
  <2> QED  BY <2>1, <2>2
<1>3. CASE ClickDismiss(s)
  <2>1. DaemonType' /\ SnapshotType'
    BY <1>3, CommandType, AfterType DEF ClickDismiss
  <2> QED  BY <1>1, <1>3, <2>1, TypeUnchanged, TypeParts DEF ClickDismiss
<1>4. CASE ClickToggle(s)
  <2> DEFINE on == s \notin shown.enabled
             task == [kind |-> "toggle", scope |-> s, on |-> on]
  <2>1. on \in BOOLEAN
    BY Zenon
  <2>2. task \in Escalated
    BY <2>1 DEF Escalated, Toggle
  <2>3. RunEscalated(task)
    BY <1>4 DEF ClickToggle
  <2> HIDE DEF task
  <2>4. EscalationType' /\ slot' = TRUE
    BY <2>2, <2>3 DEF RunEscalated, EscalationType, TypeOK
  <2>5. WindowType'
    BY <1>4, <2>4 DEF ClickToggle, WindowType, TypeOK
  <2> QED  BY <1>1, <1>4, <2>4, <2>5, TypeUnchanged, TypeParts DEF ClickToggle
<1> QED  BY <1>2, <1>3, <1>4 DEF Click

LEMMA AnswerType ==
  ASSUME TypeOK,
         Yes \/ No \/ ClickRevert \/ YesRevert \/ \E c \in Claim : TrayApprove(c)
  PROVE  TypeOK'
<1>1. CASE Yes
  <2>1. dialog.claim \in Claim
    BY <1>1 DEF Yes, TypeOK, Dialog, NoDialog
  <2>2. dialog.claim.scope \in Scopes
    BY <2>1 DEF Claim
  <2>3. DaemonType' /\ SnapshotType'
    BY <1>1, <2>2, CommandType, AfterType DEF Yes
  <2>4. WindowType'
    BY <1>1 DEF Yes, WindowType, TypeOK, Dialog
  <2> QED  BY <1>1, <2>3, <2>4, TypeUnchanged, TypeParts DEF Yes
<1>2. CASE No
  <2>1. WindowType'
    BY <1>2 DEF No, WindowType, TypeOK, Dialog
  <2> QED  BY <1>2, <2>1, TypeUnchanged, TypeParts DEF No
<1>3. CASE ClickRevert
  <2>1. WindowType' /\ SpentType'
    BY <1>3, SpentTypes DEF ClickRevert, WindowType, TypeOK, Dialog
  <2> QED  BY <1>3, <2>1, TypeUnchanged, TypeParts DEF ClickRevert
<1>4. CASE YesRevert
  <2>1. WindowType' /\ EscalationType'
    BY <1>4 DEF YesRevert, RunEscalated, WindowType, EscalationType, TypeOK, Dialog,
                Escalated
  <2> QED  BY <1>4, <2>1, TypeUnchanged, TypeParts DEF YesRevert
<1>5. ASSUME NEW c \in Claim, TrayApprove(c) PROVE TypeOK'
  <2>1. DaemonType' /\ SpentType'
    BY <1>5, CommandType, SpentTypes DEF TrayApprove, Claim
  <2> QED  BY <1>5, <2>1, TypeUnchanged, TypeParts DEF TrayApprove
<1> QED  BY <1>1, <1>2, <1>3, <1>4, <1>5

LEMMA RunType ==
  ASSUME TypeOK, NEW task \in Escalated, RunActs(task) \/ RunEnds(task)
  PROVE  TypeOK'
<1>1. EscalationType'
  BY DEF RunActs, RunEnds, EscalationType, TypeOK
<1>2. CASE RunActs(task)
  <2>1. DaemonType'
    BY <1>2, EffectType DEF RunActs
  <2> QED  BY <1>1, <1>2, <2>1, TypeUnchanged, TypeParts DEF RunActs
<1>3. CASE RunEnds(task)
  <2>1. SnapshotType' /\ WindowType'
    BY <1>3, AfterType DEF RunEnds, WindowType, TypeOK
  <2> QED  BY <1>1, <1>3, <2>1, TypeUnchanged, TypeParts DEF RunEnds
<1> QED  BY <1>2, <1>3

LEMMA StepType == TypeOK /\ [Next]_vars => TypeOK'
<1> SUFFICES ASSUME TypeOK, [Next]_vars PROVE TypeOK'
  OBVIOUS
<1>1. CASE UNCHANGED vars
  BY <1>1, TypeUnchanged, TypeParts DEF vars
<1>2. CASE Next
  BY <1>2, MoveType, DaemonStepType, ReadType, ClickType, AnswerType, RunType
  DEF Next, OtherStep
<1> QED  BY <1>1, <1>2

\* Every variable keeps its type; so what a question asks is a claim, and what is
\* drawn the summary of a snapshot.
THEOREM TypeCorrect == Spec => []TypeOK
<1>1. Init => TypeOK
  <2> SUFFICES ASSUME Init PROVE TypeOK
    OBVIOUS
  <2>1. WindowType
    BY SummaryType DEF Init, WindowType, Dialog
  <2>2. WorldType /\ DaemonType
    BY NetsAssumption DEF Init, WorldType, DaemonType, Paths
  <2>3. SnapshotType /\ EscalationType
    BY BlankType DEF Init, SnapshotType, EscalationType
  <2>4. SpentType
    BY BoundAssumption DEF Init, SpentType
  <2> QED  BY <2>1, <2>2, <2>3, <2>4
           DEF TypeOK, WorldType, DaemonType, SnapshotType, WindowType, EscalationType,
               SpentType
<1> QED  BY <1>1, StepType, PTL DEF Spec

----------------------------------------------------------------------------
(* One prompt at a time.                                                   *)

\* Most steps leave the slot and the questions alone.
LEMMA SlotUntouched ==
  ASSUME \/ Tunnel \/ Reconnect \/ Pass \/ Restart
         \/ Refresh \/ ReadStep \/ ReadFails
         \/ \E s \in Scopes : MoveOf(s) \/ ClickDismiss(s)
         \/ \E c \in Claim : TrayApprove(c)
  PROVE  UNCHANGED <<dialog, slot, runs>>
BY DEF Tunnel, Reconnect, MoveOf, UpDown, Renumber, Reroute, Move, Pass, Restart,
       Refresh, ReadStep, ReadVpn, Diagnose, ReadLinks, ReadPending, ReadMemory,
       Reads, ReadRoutes, ReadFails, Draw, ClickDismiss, TrayApprove, window,
       escalation

LEMMA StepSlot == SlotInv /\ [Next]_vars => SlotInv'
<1> SUFFICES ASSUME SlotInv, [Next]_vars PROVE SlotInv'
  OBVIOUS
<1> USE DEF SlotInv, NoDialog
<1>1. CASE UNCHANGED <<dialog, slot, runs>>
  BY <1>1
<1>2. ASSUME NEW task, runs = {}, RunEscalated(task), dialog' = NoDialog
      PROVE  SlotInv'
  <2>1. slot' = TRUE /\ runs' \in {{task}, {}}
    BY <1>2 DEF RunEscalated
  <2> QED  BY <1>2, <2>1
<1>3. ASSUME NEW s \in Scopes, Click(s) PROVE SlotInv'
  <2>1. CASE ClickApprove(s)
    BY <2>1 DEF ClickApprove, escalation
  <2>2. CASE ClickDismiss(s)
    BY <1>1, <2>2, SlotUntouched
  <2>3. CASE ClickToggle(s)
    BY <1>2, <2>3 DEF ClickToggle, Selectable
  <2> QED  BY <1>3, <2>1, <2>2, <2>3 DEF Click
<1>4. CASE Yes \/ No \/ ClickRevert
  BY <1>4 DEF Yes, No, ClickRevert, escalation
<1>5. CASE YesRevert
  BY <1>2, <1>5 DEF YesRevert
<1>6. ASSUME NEW task \in Escalated, RunActs(task) PROVE SlotInv'
  BY <1>6 DEF RunActs, window
<1>7. ASSUME NEW task \in Escalated, RunEnds(task) PROVE SlotInv'
  BY <1>7 DEF RunEnds
<1>8. CASE UNCHANGED vars
  BY <1>1, <1>8 DEF vars, window, escalation
<1>9. CASE Next
  BY <1>9, <1>1, <1>3, <1>4, <1>5, <1>6, <1>7, SlotUntouched DEF Next, OtherStep
<1> QED  BY <1>8, <1>9

\* A run in flight is the only one, and holds the slot (Window._escalation).
THEOREM PromptsDoNotStack == Spec => []OnePrompt
<1>1. Init => SlotInv
  BY DEF Init, SlotInv, NoDialog
<1>2. SlotInv => OnePrompt
  <2> SUFFICES ASSUME SlotInv PROVE Cardinality(runs) <= 1
    BY DEF OnePrompt
  <2>1. CASE runs = {}  BY <2>1, FS_EmptySet
  <2>2. CASE runs # {}
    <3>1. PICK task \in runs : TRUE  BY <2>2
    <3>2. runs = {task}  BY <3>1 DEF SlotInv
    <3>3. Cardinality({task}) = 1  BY FS_Singleton
    <3> QED  BY <3>2, <3>3
  <2> QED  BY <2>1, <2>2
<1> QED  BY <1>1, <1>2, StepSlot, PTL DEF Spec

----------------------------------------------------------------------------
(* What was put off.                                                       *)

\* A pass clears the dismissals of a session that is over, and only those.
LEMMA PassKeepsDismissals ==
  ASSUME NEW g, NEW d, NEW e, PassWith(g, d, e), ~Ended
  PROVE  dismissed' = d /\ granted' = g
BY DEF PassWith

\* While the daemon runs, a step takes a scope out of dismissed only when the
\* session is over, or when it approves the scope.
LEMMA StepDismissed ==
  ASSUME [Next]_vars
  PROVE  \A s \in dismissed \ dismissed' : Ended \/ s \in granted' \/ Restart
<1> SUFFICES ASSUME ~Ended, ~Restart
             PROVE  \A s \in dismissed \ dismissed' : s \in granted'
  OBVIOUS
<1> DEFINE Kept == \A s \in dismissed \ dismissed' : s \in granted'
<1>1. CASE UNCHANGED <<granted, dismissed>>
  BY <1>1
<1>2. ASSUME NEW s \in Scopes, Sent(Approved(s)) PROVE Kept
  BY <1>2, PassKeepsDismissals DEF Sent, Approved, daemon
<1>3. CASE Pass
  BY <1>3, PassKeepsDismissals DEF Pass
<1>4. CASE Refresh \/ ReadStep \/ ReadFails \/ No \/ ClickRevert \/ YesRevert
  BY <1>1, <1>4
  DEF Refresh, ReadStep, ReadVpn, Diagnose, ReadLinks, ReadPending, ReadMemory,
      Reads, ReadRoutes, ReadFails, Draw, No, ClickRevert, YesRevert, daemon
<1>5. CASE Tunnel \/ Reconnect \/ \E s \in Scopes : MoveOf(s)
  BY <1>1, <1>5 DEF Tunnel, Reconnect, MoveOf, UpDown, Renumber, Reroute, Move
<1>6. ASSUME NEW s \in Scopes, Click(s) PROVE Kept
  <2>1. CASE ClickApprove(s)
    BY <1>1, <1>2, <2>1 DEF ClickApprove, daemon
  <2>2. CASE ClickDismiss(s)
    BY <2>2 DEF ClickDismiss, Sent, Dismissed, daemon
  <2>3. CASE ClickToggle(s)
    BY <1>1, <2>3 DEF ClickToggle, daemon
  <2> QED  BY <1>6, <2>1, <2>2, <2>3 DEF Click
<1>7. ASSUME NEW c \in Claim, TrayApprove(c) PROVE Kept
  BY <1>2, <1>7 DEF TrayApprove, Claim
<1>8. CASE Yes
  BY <1>1, <1>8, PassKeepsDismissals DEF Yes, Sent, Approved, daemon
<1>9. ASSUME NEW task \in Escalated, RunActs(task) PROVE Kept
  <2>1. dismissed' = dismissed
    BY <1>9, PassKeepsDismissals DEF RunActs, Effect
  <2> QED  BY <2>1
<1>10. ASSUME NEW task \in Escalated, RunEnds(task) PROVE Kept
  BY <1>1, <1>10 DEF RunEnds, daemon
<1>11. CASE UNCHANGED vars
  BY <1>1, <1>11 DEF vars, daemon
<1>12. CASE Next
  BY <1>12, <1>3, <1>4, <1>5, <1>6, <1>7, <1>8, <1>9, <1>10 DEF Next, OtherStep
<1> QED  BY <1>11, <1>12

\* While the daemon runs, what the user has put off asks again only when the tunnel
\* is another than the one it was put off under, or when the user approves it
\* (SessionGrants.sync, Daemon.approve).
THEOREM PutOffLasts == Spec => PutOffWhileItRuns
BY StepDismissed, PTL DEF Spec, PutOffWhileItRuns
============================================================================
