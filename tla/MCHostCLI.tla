----------------------------- MODULE MCHostCLI -----------------------------
(***************************************************************************)
(* A small instance of HostCLI: one scope, beside a daemon in auto mode.   *)
(***************************************************************************)
EXTENDS HostCLI, MCReconciler

CliBounds == Bounds(2, 0, 0, 0, 1, 0)
JustAuto == {Auto}
===========================================================================
