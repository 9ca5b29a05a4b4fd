--------------------------- MODULE MCConfigStore ---------------------------
(***************************************************************************)
(* Instances of ConfigStore: a control thread, a CLI process and a pass.   *)
(***************************************************************************)
EXTENDS ConfigStore

\* The daemon's threads die together; the CLI is a process of its own.
TheProcesses == {{"control", "pass"}, {"cli"}}
TheInodes == 1..6
============================================================================
