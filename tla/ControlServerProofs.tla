------------------------ MODULE ControlServerProofs ------------------------
(***************************************************************************)
(* Proofs about ControlServer, for any calls, slots and pieces: the slots  *)
(* of the server balance, and what a client was told was done, was done.   *)
(***************************************************************************)
EXTENDS ControlServer, FiniteSetTheorems, TLAPS

\* The connections that hold a slot.
Holders == {c \in Calls : conn[c] \in Held}

\* While the daemon is up, slots and holders add up; what a thread is about to
\* say was done, was done; a daemon that is down or deaf has no threads and no
\* timer.
SlotInv == daemon # "down" => free + Cardinality(Holders) = Slots
DeadInv == daemon \in {"down", "deaf"} => ~listening /\ ~timer /\ Holders = {}
NewInv == \A c \in Calls : call[c] = "new" => conn[c] = "none"
SayInv ==
    \A c \in Calls : conn[c] \in {"acting", "done"} \/ call[c] = "ok" => did[c]

ServerInv == TypeOK /\ SlotInv /\ DeadInv /\ NewInv /\ SayInv

----------------------------------------------------------------------------
(* How many hold a slot when one connection moves.                         *)

\* A connection that comes to hold a slot adds one holder.
LEMMA Joins ==
    ASSUME NEW c \in Calls, TypeOK, conn[c] \notin Held,
           NEW to \in Held, conn' = [conn EXCEPT ![c] = to]
    PROVE  Cardinality(Holders') = Cardinality(Holders) + 1
<1>1. IsFiniteSet(Holders)
  BY CallAssumption, FS_Subset DEF Holders
<1>2. Holders' = Holders \cup {c} /\ c \notin Holders
  BY DEF Holders, TypeOK
<1> QED  BY <1>1, <1>2, FS_AddElement

\* One that gives its slot back takes one away.
LEMMA Leaves ==
    ASSUME NEW c \in Calls, TypeOK, conn[c] \in Held,
           NEW to, to \notin Held, conn' = [conn EXCEPT ![c] = to]
    PROVE  Cardinality(Holders') = Cardinality(Holders) - 1
<1>1. IsFiniteSet(Holders)
  BY CallAssumption, FS_Subset DEF Holders
<1>2. Holders' = Holders \ {c} /\ c \in Holders
  BY DEF Holders, TypeOK
<1> QED  BY <1>1, <1>2, FS_RemoveElement

\* The holders are counted by a number.
LEMMA CountIsNat == Cardinality(Holders) \in Nat /\ (Holders = {} => Cardinality(Holders) = 0)
BY CallAssumption, FS_Subset, FS_CardinalityType, FS_EmptySet DEF Holders

----------------------------------------------------------------------------
(* Every step keeps ServerInv.                                             *)

LEMMA InitServer == Init => ServerInv
<1> SUFFICES ASSUME Init PROVE ServerInv
  OBVIOUS
<1>0. listening \in BOOLEAN /\ path \in BOOLEAN /\ timer \in BOOLEAN
  BY Zenon DEF Init
<1>1. TypeOK
  BY <1>0, BoundAssumption DEF Init, TypeOK, Held
<1>2. Holders = {}
  BY DEF Init, Holders, Held
<1> QED  BY <1>1, <1>2 DEF Init, ServerInv, SlotInv, DeadInv, NewInv, SayInv

LEMMA ClientServer ==
    ASSUME ServerInv, NEW c \in Calls, ClientStep(c)
    PROVE  ServerInv'
<1> USE DEF ServerInv, SlotInv, DeadInv, NewInv, SayInv, TypeOK, server, client
<1>1. CASE Connect(c)
  <2>1. Holders' = Holders
    BY <1>1 DEF Connect, Holders, Held
  <2> QED  BY <1>1, <2>1 DEF Connect, Held
<1>2. CASE CannotConnect(c)
  <2>1. Holders' = Holders
    BY <1>2 DEF CannotConnect, Holders
  <2> QED  BY <1>2, <2>1 DEF CannotConnect
<1>3. CASE Send(c)
  <2>1. Holders' = Holders
    BY <1>3 DEF Send, Holders
  <2>2. sent' \in [Calls -> 0..Chunks]
    BY <1>3, BoundAssumption DEF Send
  <2> QED  BY <1>3, <2>1, <2>2 DEF Send
<1>4. CASE GiveUp(c)
  <2>1. Holders' = Holders
    BY <1>4 DEF GiveUp, Holders
  <2> QED  BY <1>4, <2>1 DEF GiveUp
<1>5. CASE SeeClosed(c)
  <2>1. Holders' = Holders
    BY <1>5 DEF SeeClosed, Holders
  <2> QED  BY <1>5, <2>1 DEF SeeClosed
<1> QED  BY <1>1, <1>2, <1>3, <1>4, <1>5 DEF ClientStep

LEMMA LoopServer ==
    ASSUME ServerInv, NEW c \in Calls, LoopStep(c)
    PROVE  ServerInv'
<1> USE BoundAssumption
    DEF ServerInv, SlotInv, DeadInv, NewInv, SayInv, TypeOK, server, client
<1>1. CASE Accept(c)
  <2>1. Cardinality(Holders') = Cardinality(Holders) + 1
    BY <1>1, Joins DEF Accept, Held
  <2> QED  BY <1>1, <2>1, CountIsNat DEF Accept, Held
<1>2. CASE Drop(c) \/ ThreadFails(c)
  <2>1. Holders' = Holders
    BY <1>2 DEF Drop, ThreadFails, Holders, Held
  <2> QED  BY <1>2, <2>1 DEF Drop, ThreadFails
<1> QED  BY <1>1, <1>2 DEF LoopStep

LEMMA ThreadServer ==
    ASSUME ServerInv, NEW c \in Calls, ReadStep(c) \/ WorkStep(c)
    PROVE  ServerInv'
<1> USE DEF ServerInv, SlotInv, DeadInv, NewInv, SayInv, TypeOK, server, client, Goes
<1>1. CASE ReadFails(c) \/ Read(c)
  <2>1. Holders' = Holders
    BY <1>1 DEF ReadFails, Read, Holders, Held
  <2>2. conn[c] = "reading" /\ UNCHANGED <<server, free, client, did>>
    BY <1>1 DEF ReadFails, Read
  <2>3. \E to \in {"closing", "failed", "working"} : conn' = [conn EXCEPT ![c] = to]
    BY <1>1 DEF ReadFails, Read
  <2> QED  BY <2>1, <2>2, <2>3 DEF Held
<1>2. CASE Refuse(c) \/ Pass(c)
  <2>1. Holders' = Holders
    BY <1>2 DEF Refuse, Pass, Holders, Held
  <2> QED  BY <1>2, <2>1 DEF Refuse, Pass, Held
<1>3. CASE Act(c)
  <2>1. Holders' = Holders
    BY <1>3 DEF Act, Holders, Held
  <2>2. timer' \in BOOLEAN
    BY <1>3, Zenon DEF Act
  <2>3. conn[c] = "working" /\ c \in Holders /\ daemon \notin {"down", "deaf"}
    BY <1>3 DEF Act, Holders, Held
  <2>4. conn' = [conn EXCEPT ![c] = "acting"] /\ did' = [did EXCEPT ![c] = TRUE]
    BY <1>3 DEF Act
  <2>5. UNCHANGED <<daemon, listening, path, faults, free, client>>
    BY <1>3 DEF Act
  <2>6. TypeOK'
    BY <2>2, <2>4, <2>5 DEF Held
  <2>7. SayInv'
    BY <2>4, <2>5
  <2> QED  BY <2>1, <2>3, <2>4, <2>5, <2>6, <2>7
<1>4. CASE Reply(c)
  <2>1. Holders' = Holders
    BY <1>4 DEF Reply, Holders, Held
  <2> QED  BY <1>4, <2>1 DEF Reply, Held
<1>5. CASE Release(c)
  <2>1. Cardinality(Holders') = Cardinality(Holders) - 1
    BY <1>5, Leaves DEF Release, Held
  <2>2. c \in Holders
    BY <1>5 DEF Release, Holders, Held
  <2>3. daemon \notin {"down", "deaf"} /\ free' + Cardinality(Holders') = Slots
    BY <1>5, <2>1, <2>2, CountIsNat DEF Release
  <2>4. Cardinality(Holders') \in Nat
    BY CallAssumption, FS_Subset, FS_CardinalityType DEF Holders
  <2>5. free' \in 0..Slots
    BY <1>5, <2>3, <2>4, BoundAssumption DEF Release
  <2> QED  BY <1>5, <2>3, <2>5 DEF Release, Held
<1> QED  BY <1>1, <1>2, <1>3, <1>4, <1>5 DEF ReadStep, WorkStep

LEMMA DaemonServer == ServerInv /\ (DaemonStep \/ StartDeaf \/ Crash) => ServerInv'
<1> SUFFICES ASSUME ServerInv, DaemonStep \/ StartDeaf \/ Crash PROVE ServerInv'
  OBVIOUS
<1> USE BoundAssumption
    DEF ServerInv, SlotInv, DeadInv, NewInv, SayInv, TypeOK, server, client
<1>1. CASE Start \/ StartDeaf
  <2>1. Holders' = {} /\ Cardinality(Holders') = 0
    BY <1>1, FS_EmptySet DEF Start, StartDeaf, Holders
  <2>2. CASE Start
    BY <2>1, <2>2 DEF Start
  <2>3. CASE StartDeaf
    <3>1. path' \in BOOLEAN
      BY <2>3, Zenon DEF StartDeaf
    <3>2. faults' \in 0..Faults /\ daemon' = "deaf" /\ free' = Slots
      BY <2>3 DEF StartDeaf
    <3>3. ~listening /\ ~timer /\ UNCHANGED <<listening, timer, client, conn, did>>
      BY <2>3 DEF StartDeaf
    <3> QED  BY <2>1, <3>1, <3>2, <3>3
  <2> QED  BY <1>1, <2>2, <2>3
<1>2. CASE TimerFires
  <2>1. Holders' = Holders
    BY <1>2 DEF TimerFires, Holders
  <2>2. daemon # "down" \/ Holders = {}
    OBVIOUS
  <2> QED  BY <1>2, <2>1, <2>2 DEF TimerFires
<1>3. CASE StopServer
  <2>1. Holders' = Holders
    BY <1>3 DEF StopServer, Reset, Holders, Held
  <2> QED  BY <1>3, <2>1 DEF StopServer, Reset, Held
<1>4. CASE Exit \/ Crash
  <2>1. Holders' = {}
    BY <1>4 DEF Exit, Crash, Ends, Holders, Held
  <2>2. ~listening' /\ ~timer' /\ daemon' = "down" /\ UNCHANGED <<free, client, did>>
    BY <1>4 DEF Exit, Crash, Ends
  <2>3. listening' \in BOOLEAN /\ timer' \in BOOLEAN /\ path' \in BOOLEAN
    BY <1>4, Zenon DEF Exit, Crash, Ends
  <2>4. faults' \in 0..Faults
    BY <1>4 DEF Exit, Crash
  <2>5. conn' = [x \in Calls |-> IF conn[x] = "none" THEN "none" ELSE "over"]
    BY <1>4 DEF Exit, Crash, Ends
  <2> QED  BY <2>1, <2>2, <2>3, <2>4, <2>5
<1> QED  BY <1>1, <1>2, <1>3, <1>4 DEF DaemonStep

LEMMA StepServer == ServerInv /\ [Next]_vars => ServerInv'
<1> SUFFICES ASSUME ServerInv, [Next]_vars PROVE ServerInv'
  OBVIOUS
<1>1. CASE UNCHANGED vars
  BY <1>1 DEF ServerInv, SlotInv, DeadInv, NewInv, SayInv, TypeOK, Holders, vars,
              server, client
<1> QED  BY <1>1, ClientServer, LoopServer, ThreadServer, DaemonServer DEF Next

LEMMA AlwaysServer == Spec => []ServerInv
BY InitServer, StepServer, PTL DEF Spec

\* Every variable keeps its type: free never exceeds MAX_CONNECTIONS, which is
\* where BoundedSemaphore would raise.
THEOREM TypeCorrect == Spec => []TypeOK
<1>1. ServerInv => TypeOK
  BY DEF ServerInv
<1> QED  BY <1>1, AlwaysServer, PTL

\* Each connection in hand holds one slot, and no other does, on every path
\* through process_request and process_request_thread.
THEOREM SlotsAreKept == Spec => []SlotsBalance
<1>1. ServerInv => SlotsBalance
  BY CountIsNat, BoundAssumption
  DEF ServerInv, SlotInv, TypeOK, SlotsBalance, Holders
<1> QED  BY <1>1, AlwaysServer, PTL

\* An "ok" reply is only written after the command took effect (handle).
THEOREM OkIsTrue == Spec => []OkMeansDone
<1>1. ServerInv => OkMeansDone
  BY DEF ServerInv, SayInv, OkMeansDone
<1> QED  BY <1>1, AlwaysServer, PTL
============================================================================
