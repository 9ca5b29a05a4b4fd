------------------------------ MODULE MCApplet ------------------------------
(***************************************************************************)
(* Applet for TLC, with what the user has accepted: the claims that a      *)
(* question or an entry of the menu named.                                 *)
(***************************************************************************)
EXTENDS Applet, TLC

VARIABLE consented

Accept(c) == consented' = consented \cup {c}

ConfirmedInit == Init /\ consented = {}

ConfirmedNext ==
    \/ Yes /\ Accept(dialog.claim)
    \/ \E c \in Claim : TrayApprove(c) /\ Accept(c)
    \/ OtherStep /\ UNCHANGED consented

Confirmed == ConfirmedInit /\ [][ConfirmedNext]_<<vars, consented>>

\* "Confirming against the CIDR is the difference between approving a dev bridge and
\* approving a range that carries corporate traffic" (approve_selected): what is
\* claimed was named when the user said yes.
ClaimedAsConfirmed ==
    \A s \in Scopes : claimed[s] # None => [scope |-> s, net |-> claimed[s]] \in consented

Symmetry == Permutations(Scopes)
============================================================================
