--------------------------- MODULE MCReconciler ---------------------------
(***************************************************************************)
(* Small instances of Reconciler.  Two scopes: "app", a Docker network on  *)
(* by default, and "lan", a host network that must be enabled by hand.     *)
(***************************************************************************)
EXTENDS Reconciler

None == "none"

Confirm == [automation          |-> "confirm",
            firewall            |-> TRUE,
            enabled_scopes      |-> {},
            disabled_scopes     |-> {},
            always_allow        |-> {},
            min_claim_prefixlen |-> 16,
            allow_wide_claims   |-> {}]
Auto == [Confirm EXCEPT !.automation = "auto"]
AppOff == [Auto EXCEPT !.disabled_scopes = {"app"}]
ConfirmAppOff == [Confirm EXCEPT !.disabled_scopes = {"app"}]
LanOn == [Auto EXCEPT !.enabled_scopes = {"lan"}]
WideOk == [Auto EXCEPT !.allow_wide_claims = {"wide"}]

\* One scope with one network.
OneSubnet == [s \in Scopes |-> {"net"}]

\* One scope with a network the guard passes and one it refuses.
WithWide == [s \in Scopes |-> {"net", "wide"}]

\* Two host scopes on one network; the second has a network of its own too.
Shared == [s \in Scopes |-> IF s = "app" THEN {"net"} ELSE {"net", "own"}]

Discovered == [s \in Scopes |-> IF s = "app" THEN 1 ELSE 2]

Lengths == [n \in Nets |-> IF n = "wide" THEN 8 ELSE 24]

\* The tunnel at "b" captures a prefix inside "wide" (and "own").
InsideOf == [n \in Nets |-> IF n \in {"wide", "own"} THEN {"corp"} ELSE {}]
CapturedBy == [a \in Addresses |-> IF a = "b" THEN {"corp"} ELSE {}]

\* Each connect gets an address of its own, or there is only one connect.
FreshLeases == [k \in 0..Limit["tunnel"] |-> CASE k = 0 -> {"a"}
                                              [] k = 1 -> {"b"}
                                              [] k = 2 -> {"c"}
                                              [] OTHER -> {}]
OneLease == [k \in 0..Limit["tunnel"] |-> IF k = 0 THEN {"a"} ELSE {}]

Bounds(tun, brg, edt, cmd, flt, rst) ==
    [k \in Kinds |-> CASE k = "tunnel" -> tun
                       [] k = "bridge" -> brg
                       [] k = "edit" -> edt
                       [] k = "command" -> cmd
                       [] k = "fault" -> flt
                       [] k = "restart" -> rst]

GuardBounds == Bounds(2, 0, 1, 1, 0, 0)
ThreadBounds == Bounds(2, 0, 0, 1, 1, 1)
SharedBounds == Bounds(2, 2, 2, 0, 0, 0)
AloneBounds == Bounds(3, 2, 2, 0, 0, 0)

JustConfirm == {Confirm}
EitherMode == {Confirm, Auto}
NoEdits == {}
ScopeEdits == {AppOff, ConfirmAppOff, Confirm, Auto}
LanEdits == {Auto, LanOn}
WideEdits == {Confirm, WideOk}
===========================================================================
