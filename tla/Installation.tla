---------------------------- MODULE Installation ----------------------------
(***************************************************************************)
(* `install`, `daemon install` and `daemon uninstall` (service.py and the  *)
(* commands of cli.py), step by step on the file system, with steps that   *)
(* fail and an installer that is killed; and the service that systemd      *)
(* starts from what is there.                                              *)
(*                                                                         *)
(* A package or a file is Absent, Partial or whole.  A whole package is a  *)
(* version of the code.                                                    *)
(***************************************************************************)
EXTENDS Integers

CONSTANTS
    Edits,      \* bound on the edits of the checkout
    Faults,     \* bound on failing steps and on kills
    Absent, Partial

Versions == 0..Edits
Package == Versions \cup {Absent, Partial}
File == {Absent, Partial, "whole"}

\* What a unit puts on the daemon's path.
Unit == {Absent, Partial, "deployed", "checkout"}

ASSUME BoundAssumption == Edits \in Nat /\ Faults \in Nat

VARIABLES
    checkout,   \* the version of the code in the checkout
    staging,    \* INSTALL_ROOT/ciscomvent.new
    target,     \* INSTALL_ROOT/ciscomvent
    wrapper,    \* CLI_PATH
    launcher,   \* LAUNCHER_PATH
    unit,       \* SERVICE_PATH
    loaded,     \* the unit as systemd has read it
    enabled,
    running,    \* the version the daemon runs, Absent when it does not
    job,        \* the command in hand
    pc,         \* its next step
    ok,         \* none of its steps failed
    deployed,   \* history: some install was completed
    faulted,    \* history: a step of this command was made to fail
    faults      \* faults so far

root == <<staging, target>>
files == <<wrapper, launcher, unit>>
systemd == <<loaded, enabled>>
history == <<deployed, faulted, faults>>
vars == <<checkout, root, files, systemd, running, job, pc, ok, history>>

\* A command, where it is run from, whether the interpreter it runs with may
\* be named to root, and the flags of `daemon install`, which only it has.
Job == {j \in [command : {"install", "service", "uninstall"},
               from : {"checkout", "deployed"},
               vetted : BOOLEAN, in_place : BOOLEAN, enable : BOOLEAN] :
           j.command # "service" => ~j.in_place /\ ~j.enable}

Steps == {"vet", "clean", "copy", "fill", "remove", "rename", "cli", "launcher",
          "unit", "reload", "enable", "stop", "disable", "drop"}

TypeOK ==
    /\ checkout \in Versions
    /\ staging \in Package
    /\ target \in Package
    /\ wrapper \in File
    /\ launcher \in File
    /\ unit \in Unit
    /\ loaded \in Unit
    /\ enabled \in BOOLEAN
    /\ running \in Versions \cup {Absent}
    /\ job \in Job
    /\ pc \in Steps \cup {"idle", "done"}
    /\ ok \in BOOLEAN
    /\ deployed \in BOOLEAN
    /\ faulted \in BOOLEAN
    /\ faults \in 0..Faults

Init ==
    /\ checkout = 0
    /\ staging = Absent
    /\ target = Absent
    /\ wrapper = Absent
    /\ launcher = Absent
    /\ unit = Absent
    /\ loaded = Absent
    /\ enabled = FALSE
    /\ running = Absent
    /\ job \in Job
    /\ pc = "idle"
    /\ ok = TRUE
    /\ deployed = FALSE
    /\ faulted = FALSE
    /\ faults = 0

----------------------------------------------------------------------------
(* The steps of a command.                                                 *)

\* Where a command goes after a step that ended.
After(step) ==
    CASE step = "clean" -> "copy"
      [] step = "copy" -> "fill"
      [] step = "fill" -> "remove"
      [] step = "remove" -> "rename"
      [] step = "rename" -> "cli"
      [] step = "cli" -> IF job.command = "install" THEN "launcher" ELSE "unit"
      [] step = "unit" -> "reload"
      [] step = "reload" -> IF job.enable
                            THEN "enable" ELSE "done"
      [] step = "stop" -> "disable"
      [] step = "disable" -> "drop"
      [] step = "drop" -> "reload"
      [] step \in {"launcher", "enable"} -> "done"

Does(step) ==
    /\ pc = step
    /\ pc' = After(step)
    /\ UNCHANGED <<checkout, running, job, ok, history>>

\* The wrapper runs the deployed package, with an interpreter that was vetted.
Runnable(j) ==
    j.from = "deployed" => wrapper = "whole" /\ target \in Versions /\ j.vetted

Begin(j) ==
    /\ pc = "idle"
    /\ Runnable(j)
    /\ job' = j
    /\ pc' = IF j.command = "uninstall" THEN "stop" ELSE "vet"
    /\ ok' = TRUE
    /\ faulted' = FALSE
    /\ UNCHANGED <<checkout, root, files, systemd, running, deployed, faults>>

\* interpreter_for_root, before anything is written; then deploy_source, which
\* has nothing to copy when it runs from its own target.
Vet ==
    /\ pc = "vet"
    /\ ok' = job.vetted
    /\ pc' = IF ~job.vetted THEN "done"
             ELSE IF job.in_place THEN "cli"
             ELSE IF job.from = "deployed" THEN "cli"
             ELSE "clean"
    /\ UNCHANGED <<checkout, root, files, systemd, running, job, history>>

\* Mutant: what a killed install left is not removed.
CleanNothing ==
    /\ Does("clean")
    /\ UNCHANGED <<root, files, systemd>>

Clean ==
    /\ Does("clean")
    /\ staging' = Absent
    /\ UNCHANGED <<target, files, systemd>>

\* copytree, which does not copy into a directory that is there.
Copy ==
    /\ Does("copy")
    /\ staging = Absent
    /\ staging' = Partial
    /\ UNCHANGED <<target, files, systemd>>

\* Mutant: the old package makes room before the new one is complete.
FillEarly ==
    /\ Does("fill")
    /\ staging' = checkout
    /\ target' = Absent
    /\ UNCHANGED <<files, systemd>>

Fill ==
    /\ Does("fill")
    /\ staging' = checkout
    /\ UNCHANGED <<target, files, systemd>>

\* rmtree of the target, from its first unlink to its last.
Remove ==
    /\ Does("remove")
    /\ target' = IF target = Absent THEN Absent ELSE Partial
    /\ UNCHANGED <<staging, files, systemd>>

Rename ==
    /\ pc = "rename"
    /\ pc' = After("rename")
    /\ target' = staging
    /\ staging' = Absent
    /\ deployed' = TRUE
    /\ UNCHANGED <<checkout, files, systemd, running, job, ok, faulted, faults>>

WriteCli ==
    /\ Does("cli")
    /\ wrapper' = "whole"
    /\ UNCHANGED <<root, launcher, unit, systemd>>

WriteLauncher ==
    /\ Does("launcher")
    /\ launcher' = "whole"
    /\ UNCHANGED <<root, wrapper, unit, systemd>>

WriteUnit ==
    /\ Does("unit")
    /\ unit' = IF job.in_place THEN job.from ELSE "deployed"
    /\ UNCHANGED <<root, wrapper, launcher, systemd>>

\* systemd goes on with a unit it has read until it is told to read again.
Reload ==
    /\ Does("reload")
    /\ loaded' = unit
    /\ UNCHANGED <<root, files, enabled>>

Enable ==
    /\ Does("enable")
    /\ enabled' = TRUE
    /\ UNCHANGED <<root, files, loaded>>

\* uninstall_service does not look at how systemctl stop and disable ended.
Stop ==
    /\ pc = "stop"
    /\ pc' = After("stop")
    /\ running' \in {running, Absent}
    /\ UNCHANGED <<checkout, root, files, systemd, job, ok, history>>

Disable ==
    /\ Does("disable")
    /\ enabled' \in {enabled, FALSE}
    /\ UNCHANGED <<root, files, loaded>>

\* A unit that is not there ends the command: "not installed".
Drop ==
    /\ pc = "drop"
    /\ pc' = IF unit = Absent THEN "done" ELSE After("drop")
    /\ unit' = Absent
    /\ UNCHANGED <<checkout, root, wrapper, launcher, systemd, running, job, ok,
                   history>>

\* The command's exit status is read.
Finish ==
    /\ pc = "done"
    /\ pc' = "idle"
    /\ UNCHANGED <<checkout, root, files, systemd, running, job, ok, history>>

----------------------------------------------------------------------------
(* Faults.                                                                 *)

\* install runs its steps whether or not an earlier one failed; the others
\* end at the first failure.
GivesUp == job.command # "install"

\* Mutant: how a step ended is not looked at.
FailsUnnoticed == UNCHANGED <<ok, checkout, systemd, running, job, deployed>>

Fails ==
    /\ ok' = FALSE
    /\ UNCHANGED <<checkout, systemd, running, job, deployed>>

\* The file system or systemctl says no.
Fault ==
    /\ faults < Faults
    /\ faults' = faults + 1
    /\ faulted' = TRUE

\* deploy_source's handler removes the staging tree, if it can.  A tree that is
\* in the way of copytree needs no fault of the machine.
DeployFails ==
    /\ pc \in {"clean", "copy", "fill", "remove", "rename"}
    /\ IF pc = "copy" /\ staging # Absent
       THEN UNCHANGED <<faulted, faults>>
       ELSE Fault
    /\ Fails
    /\ staging' \in IF staging = Absent THEN {Absent}
                    ELSE {Absent, Partial, staging}
    /\ pc' = IF GivesUp THEN "done" ELSE "cli"
    /\ UNCHANGED <<target, files>>

\* A file that could not be written, or not to its end.
WriteFails ==
    /\ pc \in {"cli", "launcher", "unit", "drop"}
    /\ Fault
    /\ Fails
    /\ \/ UNCHANGED files
       \/ pc = "cli" /\ wrapper' = Partial /\ UNCHANGED <<launcher, unit>>
       \/ pc = "launcher" /\ launcher' = Partial /\ UNCHANGED <<wrapper, unit>>
       \/ pc = "unit" /\ unit' = Partial /\ UNCHANGED <<wrapper, launcher>>
    /\ pc' = IF GivesUp THEN "done" ELSE After(pc)
    /\ UNCHANGED root

\* uninstall does not look at how daemon-reload ended.
SystemctlFails ==
    /\ pc \in {"reload", "enable"}
    /\ Fault
    /\ ok' = (job.command = "uninstall")
    /\ pc' = "done"
    /\ UNCHANGED <<checkout, root, files, systemd, running, job, deployed>>

\* The installer is killed.
Kill ==
    /\ pc \notin {"idle", "done"}
    /\ Fault
    /\ pc' = "idle"
    /\ UNCHANGED <<checkout, root, files, systemd, running, job, ok, deployed>>

----------------------------------------------------------------------------
(* The rest of the machine.                                                *)

\* The checkout is not edited while it is copied.
EditCheckout ==
    /\ pc = "idle" /\ checkout < Edits
    /\ checkout' = checkout + 1
    /\ UNCHANGED <<root, files, systemd, running, job, pc, ok, history>>

\* The code a unit names; a package that is not whole does not start.
Code(u) ==
    CASE u = "deployed" -> IF target \in Versions THEN target ELSE Absent
      [] u = "checkout" -> checkout
      [] OTHER -> Absent

\* systemd starts the service, or starts it again (Restart=always).
StartService ==
    /\ running = Absent
    /\ Code(loaded) # Absent
    /\ running' = Code(loaded)
    /\ UNCHANGED <<checkout, root, files, systemd, job, pc, ok, history>>

ServiceEnds ==
    /\ running # Absent
    /\ running' = Absent
    /\ UNCHANGED <<checkout, root, files, systemd, job, pc, ok, history>>

DeployStep == Clean \/ Copy \/ Fill \/ Remove \/ Rename
WriteStep == WriteCli \/ WriteLauncher \/ WriteUnit
SystemctlStep == Reload \/ Enable \/ Stop \/ Disable
FaultStep == DeployFails \/ WriteFails \/ SystemctlFails \/ Kill

Next ==
    \/ \E j \in Job : Begin(j)
    \/ Vet \/ DeployStep \/ WriteStep \/ SystemctlStep \/ Drop \/ Finish
    \/ FaultStep
    \/ EditCheckout \/ StartService \/ ServiceEnds

Spec == Init /\ [][Next]_vars
----------------------------------------------------------------------------
\* The package is not touched before a whole one stands beside it (the swap of
\* deploy_source), whatever fails and whoever is killed.
SwapOnly == [][target' # target => staging \in Versions]_vars

\* A command that says it succeeded has installed all of what it was to.
OkMeansInstalled ==
    pc = "done" /\ ok =>
       CASE job.command = "uninstall" -> unit = Absent
         [] job.command = "install" ->
               /\ job.from = "checkout" => target = checkout
               /\ wrapper = "whole" /\ launcher = "whole"
         [] job.command = "service" ->
               /\ job.from = "checkout" /\ ~job.in_place => target = checkout
               /\ wrapper = "whole"
               /\ unit \in {"deployed", job.from} /\ loaded = unit
               /\ job.enable => enabled

\* What failed or was killed before does not make a later command fail.
FailsOnlyByFault ==
    pc = "done" /\ ~ok => faulted \/ ~job.vetted

\* "so a failure part-way through cannot leave INSTALL_ROOT without a usable
\* package" (deploy_source).
PackageKept == deployed /\ pc = "done" => target \in Versions

\* "so the CLI and the daemon are always the same code" (CLI_TEMPLATE).
SameCode ==
    pc = "idle" /\ wrapper = "whole" /\ target \in Versions
       => running \in {target, Absent}
============================================================================
