------------------------- MODULE InstallationProofs -------------------------
(***************************************************************************)
(* Proofs about Installation, for any number of edits and of faults: a     *)
(* package is only touched when a whole one stands beside it, a refused    *)
(* command writes nothing, and a command that says it succeeded has        *)
(* installed all it was to.                                                *)
(***************************************************************************)
EXTENDS Installation, TLAPS

\* Where a command can be.
PathInv ==
    /\ pc # "idle" =>
          pc \in CASE job.command = "uninstall" ->
                        {"stop", "disable", "drop", "reload", "done"}
                   [] job.command = "install" ->
                        {"vet", "clean", "copy", "fill", "remove", "rename",
                         "cli", "launcher", "done"}
                   [] job.command = "service" ->
                        {"vet", "clean", "copy", "fill", "remove", "rename",
                         "cli", "unit", "reload", "enable", "done"}
    /\ pc \notin {"idle", "vet", "done"} /\ job.command # "uninstall" => job.vetted
    /\ pc = "enable" => job.enable

\* The tree that is about to be renamed into place is whole; uninstall reads
\* the units again once its own is gone, even if a step failed.
StageInv ==
    /\ pc \in {"remove", "rename"} => staging = checkout
    /\ pc = "reload" /\ job.command = "uninstall" => unit = Absent

\* What a command of which nothing failed has done when it is at a step.
DoneInv ==
    pc # "idle" /\ ok =>
       CASE job.command = "uninstall" -> pc \in {"reload", "done"} => unit = Absent
         [] job.command = "install" ->
               /\ pc \in {"cli", "launcher", "done"} /\ job.from = "checkout"
                     => target = checkout
               /\ pc \in {"launcher", "done"} => wrapper = "whole"
               /\ pc = "done" => launcher = "whole"
         [] job.command = "service" ->
               /\ pc \in {"cli", "unit", "reload", "enable", "done"}
                     /\ job.from = "checkout" /\ ~job.in_place
                     => target = checkout
               /\ pc \in {"unit", "reload", "enable", "done"} => wrapper = "whole"
               /\ pc \in {"reload", "enable", "done"} => unit \in {"deployed", job.from}
               /\ pc \in {"enable", "done"} => loaded = unit
               /\ pc = "done" /\ job.enable => enabled

\* No tree is in copytree's way, and only faults and refusals fail a command.
FailInv ==
    /\ pc = "copy" => staging = Absent
    /\ pc # "idle" /\ ~ok => faulted \/ ~job.vetted

InstallInv == TypeOK /\ PathInv /\ StageInv /\ DoneInv /\ FailInv

----------------------------------------------------------------------------
(* Every variable keeps its type.                                          *)

LEMMA InitType == Init => TypeOK
<1> SUFFICES ASSUME Init PROVE TypeOK
  OBVIOUS
<1>1. 0 \in Versions /\ 0 \in 0..Faults
  BY BoundAssumption DEF Versions
<1>2. enabled \in BOOLEAN /\ ok \in BOOLEAN /\ deployed \in BOOLEAN /\ faulted \in BOOLEAN
  BY Zenon DEF Init
<1> QED  BY <1>1, <1>2 DEF Init, TypeOK, Package, File, Unit

LEMMA DeployType == TypeOK /\ DeployStep => TypeOK'
<1> SUFFICES ASSUME TypeOK, DeployStep PROVE TypeOK'
  OBVIOUS
<1> USE DEF TypeOK, Package, Steps, Does, After, root, files, systemd, history
<1>1. CASE Clean  BY <1>1 DEF Clean
<1>2. CASE Copy  BY <1>2 DEF Copy
<1>3. CASE Fill  BY <1>3 DEF Fill
<1>4. CASE Remove  BY <1>4 DEF Remove
<1>5. CASE Rename  BY <1>5 DEF Rename
<1> QED  BY <1>1, <1>2, <1>3, <1>4, <1>5 DEF DeployStep

LEMMA WriteType == TypeOK /\ WriteStep => TypeOK'
<1> SUFFICES ASSUME TypeOK, WriteStep PROVE TypeOK'
  OBVIOUS
<1> USE DEF TypeOK, File, Unit, Steps, Does, After, root, files, systemd, history
<1>1. CASE WriteCli  BY <1>1 DEF WriteCli
<1>2. CASE WriteLauncher  BY <1>2 DEF WriteLauncher
<1>3. CASE WriteUnit  BY <1>3 DEF WriteUnit, Job
<1> QED  BY <1>1, <1>2, <1>3 DEF WriteStep

LEMMA SystemctlType == TypeOK /\ (SystemctlStep \/ Drop) => TypeOK'
<1> SUFFICES ASSUME TypeOK, SystemctlStep \/ Drop PROVE TypeOK'
  OBVIOUS
<1> USE DEF TypeOK, Unit, Steps, Does, After, root, files, systemd, history
<1>1. CASE Reload  BY <1>1 DEF Reload
<1>2. CASE Enable  BY <1>2 DEF Enable
<1>3. CASE Stop  BY <1>3 DEF Stop
<1>4. CASE Disable  BY <1>4 DEF Disable
<1>5. CASE Drop  BY <1>5 DEF Drop
<1> QED  BY <1>1, <1>2, <1>3, <1>4, <1>5 DEF SystemctlStep

LEMMA FaultType == TypeOK /\ FaultStep => TypeOK'
<1> SUFFICES ASSUME TypeOK, FaultStep PROVE TypeOK'
  OBVIOUS
<1> USE BoundAssumption
    DEF TypeOK, Package, File, Unit, Steps, After, Fault, Fails, root, files, systemd, history
<1>0. faults < Faults => faults + 1 \in 0..Faults
  OBVIOUS
<1>1. CASE DeployFails
  <2>1. UNCHANGED <<target, files, checkout, systemd, running, job, deployed>>
    BY <1>1 DEF DeployFails
  <2>2. faulted' \in BOOLEAN /\ faults' \in 0..Faults
    BY <1>0, <1>1 DEF DeployFails
  <2>3. staging' \in Package /\ pc' \in Steps \cup {"idle", "done"}
    BY <1>1 DEF DeployFails
  <2>4. ok' \in BOOLEAN
    BY <1>1, Zenon DEF DeployFails
  <2> QED  BY <2>1, <2>2, <2>3, <2>4
<1>2. CASE WriteFails
  <2>1. UNCHANGED <<root, checkout, systemd, running, job, deployed>>
    BY <1>2 DEF WriteFails
  <2>2. faulted' \in BOOLEAN /\ faults' \in 0..Faults
    BY <1>0, <1>2 DEF WriteFails
  <2>3. wrapper' \in File /\ launcher' \in File /\ unit' \in Unit
    BY <1>2 DEF WriteFails
  <2>4. pc' \in Steps \cup {"idle", "done"}
    BY <1>2 DEF WriteFails
  <2>5. ok' \in BOOLEAN
    BY <1>2, Zenon DEF WriteFails
  <2> QED  BY <2>1, <2>2, <2>3, <2>4, <2>5
<1>3. CASE SystemctlFails
  <2>1. ok' \in BOOLEAN
    BY <1>3, Zenon DEF SystemctlFails
  <2> QED  BY <1>3, <2>1 DEF SystemctlFails
<1>4. CASE Kill  BY <1>4 DEF Kill
<1> QED  BY <1>1, <1>2, <1>3, <1>4 DEF FaultStep

LEMMA StepType == TypeOK /\ [Next]_vars => TypeOK'
<1> SUFFICES ASSUME TypeOK, [Next]_vars PROVE TypeOK'
  OBVIOUS
<1> USE DEF Steps, root, files, systemd, history
<1>1. ASSUME NEW j \in Job, Begin(j) PROVE TypeOK'
  BY <1>1 DEF TypeOK, Begin
<1>2. CASE Vet  BY <1>2 DEF TypeOK, Vet, Job
<1>3. CASE Finish  BY <1>3 DEF TypeOK, Finish
<1>4. CASE EditCheckout
  BY <1>4, BoundAssumption DEF TypeOK, EditCheckout, Versions
<1>5. CASE StartService  BY <1>5 DEF TypeOK, StartService, Code
<1>6. CASE ServiceEnds  BY <1>6 DEF TypeOK, ServiceEnds
<1>7. CASE UNCHANGED vars  BY <1>7 DEF TypeOK, vars
<1> QED
  BY <1>1, <1>2, <1>3, <1>4, <1>5, <1>6, <1>7,
     DeployType, WriteType, SystemctlType, FaultType DEF Next

\* Every variable keeps its type.
THEOREM TypeCorrect == Spec => []TypeOK
BY InitType, StepType, PTL DEF Spec
----------------------------------------------------------------------------
(* What the steps of a command build on.                                   *)

LEMMA InitInstall == Init => InstallInv
BY InitType DEF Init, InstallInv, PathInv, StageInv, DoneInv, FailInv

LEMMA DeployInstall == InstallInv /\ TypeOK' /\ DeployStep => InstallInv'
<1> SUFFICES ASSUME InstallInv, TypeOK', DeployStep PROVE InstallInv'
  OBVIOUS
<1> USE DEF InstallInv, PathInv, StageInv, DoneInv, FailInv, TypeOK, Job, Steps,
            Does, After, root, files, systemd, history
<1>1. CASE Clean  BY <1>1 DEF Clean
<1>2. CASE Copy  BY <1>2 DEF Copy
<1>3. CASE Fill  BY <1>3 DEF Fill
<1>4. CASE Remove  BY <1>4 DEF Remove
<1>5. CASE Rename  BY <1>5 DEF Rename
<1> QED  BY <1>1, <1>2, <1>3, <1>4, <1>5 DEF DeployStep

LEMMA WriteInstall == InstallInv /\ TypeOK' /\ WriteStep => InstallInv'
<1> SUFFICES ASSUME InstallInv, TypeOK', WriteStep PROVE InstallInv'
  OBVIOUS
<1> USE DEF InstallInv, PathInv, StageInv, DoneInv, FailInv, TypeOK, Job, Steps,
            Does, After, root, files, systemd, history
<1>1. CASE WriteCli
  <2>1. PathInv' /\ StageInv' /\ FailInv'
    BY <1>1 DEF WriteCli
  <2>2. CASE job.command = "install"
    BY <1>1, <2>1, <2>2 DEF WriteCli
  <2>3. CASE job.command = "service"
    BY <1>1, <2>1, <2>3 DEF WriteCli
  <2> QED  BY <1>1, <2>1, <2>2, <2>3 DEF WriteCli
<1>2. CASE WriteLauncher  BY <1>2 DEF WriteLauncher
<1>3. CASE WriteUnit
  <2>1. pc = "unit" /\ pc' = "reload" /\ job.command = "service"
    BY <1>3 DEF WriteUnit
  <2>2. unit' \in {"deployed", job.from}
    BY <1>3 DEF WriteUnit
  <2>3. UNCHANGED <<checkout, root, wrapper, launcher, systemd, job, ok, faulted>>
    BY <1>3 DEF WriteUnit
  <2> QED  BY <2>1, <2>2, <2>3
<1> QED  BY <1>1, <1>2, <1>3 DEF WriteStep

LEMMA SystemctlInstall ==
    InstallInv /\ TypeOK' /\ (SystemctlStep \/ Drop) => InstallInv'
<1> SUFFICES ASSUME InstallInv, TypeOK', SystemctlStep \/ Drop PROVE InstallInv'
  OBVIOUS
<1> USE DEF InstallInv, PathInv, StageInv, DoneInv, FailInv, TypeOK, Job, Steps,
            Does, After, root, files, systemd, history
<1>1. CASE Reload  BY <1>1 DEF Reload
<1>2. CASE Enable  BY <1>2 DEF Enable
<1>3. CASE Stop  BY <1>3 DEF Stop
<1>4. CASE Disable  BY <1>4 DEF Disable
<1>5. CASE Drop  BY <1>5 DEF Drop
<1> QED  BY <1>1, <1>2, <1>3, <1>4, <1>5 DEF SystemctlStep

LEMMA FaultInstall == InstallInv /\ TypeOK' /\ FaultStep => InstallInv'
<1> SUFFICES ASSUME InstallInv, TypeOK', FaultStep PROVE InstallInv'
  OBVIOUS
<1> USE DEF InstallInv, PathInv, StageInv, DoneInv, FailInv, TypeOK, Job, Steps,
            After, Fault, Fails, GivesUp, root, files, systemd, history
<1>1. CASE DeployFails  BY <1>1 DEF DeployFails
<1>2. CASE WriteFails  BY <1>2 DEF WriteFails
<1>3. CASE SystemctlFails
  <2>1. pc \in {"reload", "enable"} /\ pc' = "done" /\ faulted' = TRUE
    BY <1>3 DEF SystemctlFails
  <2>2. UNCHANGED <<checkout, root, files, systemd, job>>
    BY <1>3 DEF SystemctlFails
  <2>3. ok' <=> job.command = "uninstall"
    BY <1>3, Zenon DEF SystemctlFails
  <2> QED  BY <2>1, <2>2, <2>3
<1>4. CASE Kill  BY <1>4 DEF Kill
<1> QED  BY <1>1, <1>2, <1>3, <1>4 DEF FaultStep

LEMMA StepInstall == InstallInv /\ [Next]_vars => InstallInv'
<1> SUFFICES ASSUME InstallInv, [Next]_vars PROVE InstallInv'
  OBVIOUS
<1>0. TypeOK'
  BY StepType DEF InstallInv
<1> USE <1>0
    DEF InstallInv, PathInv, StageInv, DoneInv, FailInv, Steps, root, files, systemd,
        history
<1>1. ASSUME NEW j \in Job, Begin(j) PROVE InstallInv'
  BY <1>1 DEF Begin, Job
<1>2. CASE Vet  BY <1>2 DEF Vet, TypeOK, Job
<1>3. CASE Finish  BY <1>3 DEF Finish
<1>4. CASE EditCheckout  BY <1>4 DEF EditCheckout
<1>5. CASE StartService  BY <1>5 DEF StartService
<1>6. CASE ServiceEnds  BY <1>6 DEF ServiceEnds
<1>7. CASE UNCHANGED vars  BY <1>7 DEF vars
<1> QED
  BY <1>1, <1>2, <1>3, <1>4, <1>5, <1>6, <1>7,
     DeployInstall, WriteInstall, SystemctlInstall, FaultInstall DEF Next

LEMMA AlwaysInstall == Spec => []InstallInv
BY InitInstall, StepInstall, PTL DEF Spec

\* A command that says it succeeded has installed all of what it was to
\* (install_service, cmd_install, uninstall_service), whatever was killed or
\* failed before it.
THEOREM SuccessIsComplete == Spec => []OkMeansInstalled
<1>1. InstallInv => OkMeansInstalled
  BY DEF InstallInv, TypeOK, Job, DoneInv, OkMeansInstalled
<1> QED  BY <1>1, AlwaysInstall, PTL

\* What an earlier command left half done does not make a later one fail
\* (deploy_source).
THEOREM LeftoversDoNotFail == Spec => []FailsOnlyByFault
<1>1. InstallInv => FailsOnlyByFault
  BY DEF InstallInv, FailInv, FailsOnlyByFault
<1> QED  BY <1>1, AlwaysInstall, PTL

\* deploy_source takes the package away only when a whole one stands beside it.
THEOREM SwapIsLast == Spec => SwapOnly
<1>1. ASSUME InstallInv, [Next]_vars
      PROVE  [target' # target => staging \in Versions]_vars
  <2> USE <1>1 DEF InstallInv, StageInv, TypeOK, Does, root, files, systemd, history
  <2>1. ASSUME NEW j \in Job, Begin(j) PROVE target' = target
    BY <2>1 DEF Begin
  <2>2. CASE DeployStep
    BY <2>2 DEF DeployStep, Clean, Copy, Fill, Remove, Rename
  <2>3. CASE WriteStep \/ SystemctlStep \/ Drop
    BY <2>3 DEF WriteStep, WriteCli, WriteLauncher, WriteUnit, SystemctlStep, Reload,
                Enable, Stop, Disable, Drop
  <2>4. CASE FaultStep
    BY <2>4 DEF FaultStep, DeployFails, WriteFails, SystemctlFails, Kill
  <2>5. CASE Vet \/ Finish \/ EditCheckout \/ StartService \/ ServiceEnds
    BY <2>5 DEF Vet, Finish, EditCheckout, StartService, ServiceEnds
  <2> QED  BY <2>1, <2>2, <2>3, <2>4, <2>5 DEF Next, vars
<1> QED  BY <1>1, AlwaysInstall, PTL DEF Spec, SwapOnly
============================================================================
