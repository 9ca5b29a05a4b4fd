-------------------------- MODULE ReconcilerProofs --------------------------
(***************************************************************************)
(* What holds of Reconciler for any scopes, networks, devices, handlers    *)
(* and bounds: its type invariant, that a network whose width the config   *)
(* never let through is never claimed, and that nothing is claimed for a   *)
(* scope nobody approved.                                                  *)
(***************************************************************************)
EXTENDS Reconciler, FiniteSetTheorems, TLAPS

----------------------------------------------------------------------------
(* The operators of ClaimPolicy.                                           *)

\* What a pass may be told to claim: well-formed scopes, narrowed to networks
\* of theirs whose width the config lets through (reconcile.desired_claims).
LEMMA ToAddNarrowed ==
    ASSUME NEW v \in Vpn, NEW cfg \in Config, NEW dev \in [Scopes -> Device],
           NEW ruled, NEW routed, NEW accepted,
           NEW c \in to_add(v, cfg, dev, ruled, routed, accepted)
    PROVE  /\ c \in Scope
           /\ c.nets \subseteq Subnets[c.name]
           /\ c.nets \subseteq WidthAllowed(cfg)
<1>1. PICK s \in Scopes :
         /\ c = Narrowed(s, v, cfg, dev)
         /\ \E n \in Nets : Owns(s, n, v, cfg, dev)
  BY DEF to_add
<1>2. dev[s] \in Devices
  BY <1>1 DEF Owns, Claimants, Device
<1>3. keep(s, v, cfg) \subseteq Subnets[s] /\ Subnets[s] \subseteq Nets
  BY ScopeAssumption DEF keep
<1>4. keep(s, v, cfg) \subseteq WidthAllowed(cfg)
  BY <1>3 DEF keep, WidthAllowed, claim_refusal, width_refusal
<1>5. QED
  BY <1>1, <1>2, <1>3, <1>4 DEF Narrowed, Scope

\* What a pass may be told to drop is a claim (reconcile.reconcile).
LEMMA ToRemoveType ==
    ASSUME NEW v, NEW cfg, NEW dev, NEW ruled,
           NEW routed \in [Nets -> Device]
    PROVE  to_remove(v, cfg, dev, ruled, routed) \subseteq Claim
  BY DEF to_remove, Claim, Device

----------------------------------------------------------------------------
(* The type invariant.  TypeOK is inductive once it is known that a thread *)
(* running the commands of a scope has that scope in hand.                 *)

Claiming(t) == pc[t] \in {"route", "unrule", "rule"}

TypeInv ==
    /\ TypeOK
    /\ \A t \in Threads : Claiming(t) => scope[t] \in Scope

LEMMA InitTypeInv == Init => TypeInv
  BY WorldAssumption
  DEF Init, TypeInv, TypeOK, Claiming, Vpn, Device, Ungated, WidthAllowed, PCs

LEMMA SpendType ==
    ASSUME NEW k \in Kinds, spent \in [Kinds -> Nat], Spend(k)
    PROVE  spent' \in [Kinds -> Nat]
  BY DEF Spend

\* The sets the history keeps hold networks and scopes.
LEMMA PermitType ==
    ASSUME NEW cfg, NEW S \in SUBSET Scopes, TypeOK, Permit(cfg, S)
    PROVE  /\ widths' \subseteq Nets
           /\ consented' \subseteq Scopes
           /\ fresh' \subseteq Scopes
  BY DEF TypeOK, Permit, WidthAllowed, Ungated

\* What Plan hands to the rest of a pass.
LEMMA AdditionsNarrowed ==
    ASSUME TypeOK, NEW t \in Threads, NEW failed,
           NEW c \in Additions(t, failed)
    PROVE  /\ c \in Scope
           /\ c.nets \subseteq Subnets[c.name]
           /\ c.nets \subseteq WidthAllowed(config)
<1>1. discover_scopes(failed) \in [Scopes -> Device]
  BY DEF TypeOK, discover_scopes, Device
<1>2. seen[t] \in Vpn /\ config \in Config
  BY DEF TypeOK
<1>3. QED
  BY <1>1, <1>2, ToAddNarrowed DEF Additions

LEMMA RemovalsType ==
    ASSUME TypeOK, NEW t \in Threads, NEW failed
    PROVE  Removals(t, failed) \subseteq Claim
<1>1. table_routes(failed) \in [Nets -> Device]
  BY DEF TypeOK, table_routes, Device
<1>2. QED
  BY <1>1, ToRemoveType DEF Removals

\* The world's steps keep the types.
LEMMA WorldTypeInv == TypeInv /\ WorldStep => TypeInv'
<1> SUFFICES ASSUME TypeInv, WorldStep PROVE TypeInv'
  OBVIOUS
<1> USE DEF TypeInv, Claiming, Kinds
<1>1. ASSUME NEW a \in Addresses, Connect(a) PROVE TypeInv'
  <2> USE <1>1 DEF Connect
  <2>1. spent' \in [Kinds -> Nat]
    BY SpendType DEF TypeOK
  <2>2. tunnel' \in Vpn /\ accepts' \subseteq Accept
    BY DEF TypeOK, Vpn
  <2>3. QED
    BY <2>1, <2>2 DEF TypeOK, grants, work
<1>2. CASE Disconnect
  <2> USE <1>2 DEF Disconnect
  <2>1. spent' \in [Kinds -> Nat] /\ tunnel' \in Vpn
    BY SpendType DEF TypeOK, Vpn
  <2>2. QED
    BY <2>1 DEF TypeOK, kernel, grants, work
<1>3. ASSUME NEW s \in Scopes, NEW d \in Device, BridgeChanges(s, d)
      PROVE  TypeInv'
  <2> USE <1>3 DEF BridgeChanges
  <2>1. spent' \in [Kinds -> Nat]
    BY SpendType DEF TypeOK
  <2>2. bridge' \in [Scopes -> Device] /\ routes' \in [Nets -> Device]
    BY DEF TypeOK, Device
  <2>3. QED
    BY <2>1, <2>2 DEF TypeOK, grants, work, history
<1>4. ASSUME NEW cfg \in Edits, OperatorEdits(cfg) PROVE TypeInv'
  <2> USE <1>4 DEF OperatorEdits
  <2>1. spent' \in [Kinds -> Nat]
    BY SpendType DEF TypeOK
  <2>2. file' \in Config
    BY WorldAssumption
  <2>3. widths' \subseteq Nets /\ consented' \subseteq Scopes
          /\ fresh' \subseteq Scopes
    BY PermitType
  <2>4. QED
    BY <2>1, <2>2, <2>3 DEF TypeOK, kernel, grants, work
<1>5. QED
  BY <1>1, <1>2, <1>3, <1>4 DEF WorldStep

\* So do the control commands, which only start a pass.
LEMMA CommandTypeInv ==
    ASSUME NEW t \in Threads
    PROVE  TypeInv /\ CommandStep(t) => TypeInv'
<1> SUFFICES ASSUME TypeInv, CommandStep(t) PROVE TypeInv'
  OBVIOUS
<1> USE DEF TypeInv, Claiming, Kinds, Command, Goto, PCs
<1>1. CASE Reconcile(t)
  <2>1. spent' \in [Kinds -> Nat]
    BY <1>1, SpendType DEF Reconcile, TypeOK
  <2>2. QED
    BY <1>1, <2>1 DEF Reconcile, TypeOK, world, kernel, grants, work, history
<1>2. ASSUME NEW s \in Scopes, Approve(t, s) PROVE TypeInv'
  <2> USE <1>2 DEF Approve
  <2>1. spent' \in [Kinds -> Nat]
    BY SpendType DEF TypeOK
  <2>2. widths' \subseteq Nets /\ consented' \subseteq Scopes
          /\ fresh' \subseteq Scopes
    BY PermitType
  <2>3. QED
    BY <2>1, <2>2 DEF TypeOK, world, kernel, work
<1>3. ASSUME NEW s \in Scopes, ApproveAlways(t, s) PROVE TypeInv'
  <2> USE <1>3 DEF ApproveAlways
  <2>1. spent' \in [Kinds -> Nat]
    BY SpendType DEF TypeOK
  <2>2. widths' \subseteq Nets /\ consented' \subseteq Scopes
          /\ fresh' \subseteq Scopes
    BY PermitType
  <2>3. file' \in Config
    BY DEF TypeOK, Config
  <2>4. QED
    BY <2>1, <2>2, <2>3 DEF TypeOK, kernel, work
<1>4. ASSUME NEW s \in Scopes, Dismiss(t, s) PROVE TypeInv'
  <2>1. spent' \in [Kinds -> Nat]
    BY <1>4, SpendType DEF Dismiss, TypeOK
  <2>2. QED
    BY <1>4, <2>1 DEF Dismiss, TypeOK, world, kernel, work, history
<1>5. ASSUME NEW s \in Scopes, NEW enabled \in BOOLEAN,
             SetScope(t, s, enabled)
      PROVE  TypeInv'
  <2> USE <1>5 DEF SetScope
  <2>1. spent' \in [Kinds -> Nat]
    BY SpendType DEF TypeOK
  <2>2. file' \in Config
    BY DEF TypeOK, Config
  <2>3. QED
    BY <2>1, <2>2 DEF TypeOK, kernel, grants, work, history
<1>6. ASSUME NEW mode \in {"confirm", "auto"}, SetAutomation(t, mode)
      PROVE  TypeInv'
  <2> USE <1>6 DEF SetAutomation
  <2>1. spent' \in [Kinds -> Nat]
    BY SpendType DEF TypeOK
  <2>2. widths' \subseteq Nets /\ consented' \subseteq Scopes
          /\ fresh' \subseteq Scopes
    BY PermitType DEF TypeOK
  <2>3. file' \in Config
    BY DEF TypeOK, Config
  <2>4. QED
    BY <2>1, <2>2, <2>3 DEF TypeOK, kernel, grants, work
<1>7. QED
  BY <1>1, <1>2, <1>3, <1>4, <1>5, <1>6 DEF CommandStep

\* So do the steps of a pass; what Plan hands on is typed by the two lemmas
\* above.
LEMMA PassTypeInv ==
    ASSUME NEW t \in Threads
    PROVE  TypeInv /\ PassStep(t) => TypeInv'
<1> SUFFICES ASSUME TypeInv, PassStep(t) PROVE TypeInv'
  OBVIOUS
<1> USE DEF TypeInv, TypeOK, Claiming, Goto, Run, PCs, Spend, world,
            kernel, grants, work, history
<1>1. CASE Load(t)
  BY <1>1 DEF Load
<1>2. CASE Look(t)
  BY <1>2 DEF Look
<1>3. CASE Sync(t)
  BY <1>3 DEF Sync
<1>4. CASE Plan(t)
  <2> USE <1>4 DEF Plan
  <2>1. PICK failed \in SUBSET Readings :
           \/ /\ Goto(t, "idle")
              /\ UNCHANGED <<adding, dropping, desired>>
           \/ /\ Goto(t, "remove")
              /\ adding' = [adding EXCEPT ![t] = Additions(t, failed)]
              /\ dropping' = [dropping EXCEPT ![t] = Removals(t, failed)]
              /\ desired' = [desired EXCEPT ![t] =
                    desired_scopes(seen[t], config, discover_scopes(failed))]
    OBVIOUS
  <2>2. spent' \in [Kinds -> Nat]
    BY SpendType DEF Kinds
  <2>3. Additions(t, failed) \subseteq Scope
    BY AdditionsNarrowed
  <2>4. Removals(t, failed) \subseteq Claim
    BY RemovalsType
  <2>5. desired_scopes(seen[t], config, discover_scopes(failed))
           \subseteq Scopes
    BY DEF desired_scopes
  <2>6. seen' \in [Threads -> Vpn]
    BY DEF Vpn
  <2>7. pc' \in [Threads -> PCs]
    BY <2>1
  <2>8. /\ adding' \in [Threads -> SUBSET Scope]
        /\ dropping' \in [Threads -> SUBSET Claim]
        /\ desired' \in [Threads -> SUBSET Scopes]
    BY <2>1, <2>3, <2>4, <2>5
  <2>9. \A u \in Threads : Claiming(u)' => Claiming(u) /\ scope'[u] = scope[u]
    BY <2>1
  <2>10. QED
    BY <2>2, <2>6, <2>7, <2>8, <2>9
<1>5. CASE RemoveRule(t)
  BY <1>5 DEF RemoveRule, Claim
<1>6. CASE RemoveRoute(t)
  BY <1>6 DEF RemoveRoute, Claim, Device
<1>7. CASE Prune(t)
  BY <1>7 DEF Prune, Outlived
<1>8. CASE Unclaim(t)
  BY <1>8 DEF Unclaim
<1>9. CASE Gate(t)
  BY <1>9 DEF Gate, Scope
<1>10. CASE ClaimScope(t)
  BY <1>10 DEF ClaimScope, Scope, firewall_lines, Accept
<1>11. CASE ReplaceRoute(t)
  BY <1>11 DEF ReplaceRoute, Scope, Device
<1>12. CASE ClearRule(t)
  BY <1>12 DEF ClearRule
<1>13. CASE AddRule(t)
  BY <1>13 DEF AddRule
<1>14. CASE InsertAccept(t)
  BY <1>14 DEF InsertAccept
<1>15. CASE ScopeClaimed(t)
  BY <1>15 DEF ScopeClaimed
<1>16. CASE Publish(t)
  BY <1>16 DEF Publish
<1>17. QED
  BY <1>1, <1>2, <1>3, <1>4, <1>5, <1>6, <1>7, <1>8, <1>9, <1>10, <1>11,
     <1>12, <1>13, <1>14, <1>15, <1>16 DEF PassStep

\* So does everything else that may happen.
LEMMA NextTypeInv == TypeInv /\ [Next]_vars => TypeInv'
<1> SUFFICES ASSUME TypeInv, [Next]_vars PROVE TypeInv'
  OBVIOUS
<1> USE DEF TypeInv, Claiming, PCs, Kinds
<1>1. CASE WorldStep
  BY <1>1, WorldTypeInv
<1>2. CASE Tick
  BY <1>2
  DEF Tick, Goto, TypeOK, world, kernel, grants, work, history
<1>3. CASE Restart
  <2>1. spent' \in [Kinds -> Nat]
    BY <1>3, SpendType DEF Restart, TypeOK
  <2>2. QED
    BY <1>3, <2>1 DEF Restart, TypeOK, Vpn, world, kernel, history
<1>4. ASSUME NEW t \in Threads, PassStep(t) PROVE TypeInv'
  BY <1>4, PassTypeInv
<1>5. ASSUME NEW t \in Threads, CommandStep(t) PROVE TypeInv'
  BY <1>5, CommandTypeInv
<1>6. ASSUME NEW t \in Threads, Abort(t) PROVE TypeInv'
  <2> USE <1>6 DEF Abort
  <2>1. spent' \in [Kinds -> Nat]
    BY SpendType DEF TypeOK
  <2>2. seen' \in [Threads -> Vpn]
    BY DEF TypeOK, Vpn
  <2>3. QED
    BY <2>1, <2>2 DEF TypeOK, Goto, world, kernel, grants, history
<1>7. CASE UNCHANGED vars
  BY <1>7 DEF vars, TypeOK, world, kernel, grants, work, history
<1>8. QED
  BY <1>1, <1>2, <1>3, <1>4, <1>5, <1>6, <1>7 DEF Next

\* Every variable keeps its type, for any scopes, networks, handlers, bounds.
THEOREM TypeCorrect == Spec => []TypeOK
<1>1. TypeInv => TypeOK
  BY DEF TypeInv
<1>2. QED
  BY InitTypeInv, NextTypeInv, <1>1, PTL DEF Spec

----------------------------------------------------------------------------
(* Claims only of what was let through and approved.  Both properties      *)
(* follow from one invariant: whatever a pass still has in hand -- scopes  *)
(* to claim, networks to route and rule, accepts to insert -- was let      *)
(* through and, past the gate, approved.                                   *)

Permitted == {n \in widths : \E s \in consented : n \in Subnets[s]}

\* What the config and the grants permit now is in the history already.
ConfigInv ==
    /\ WidthAllowed(file) \subseteq widths
    /\ WidthAllowed(config) \subseteq widths
    /\ Ungated(file) \subseteq consented
    /\ Ungated(config) \subseteq consented
    /\ granted \subseteq consented

KernelInv ==
    /\ \A n \in Nets : rules[n] > 0 => n \in Permitted
    /\ \A n \in Nets : routes[n] # NoDevice => n \in Permitted
    /\ \A a \in accepts : a.scope \in consented

PastGate(t) == pc[t] \in {"claim", "route", "unrule", "rule", "accept"}

WorkInv(t) ==
    /\ \A c \in adding[t] :
          /\ c.nets \subseteq Subnets[c.name]
          /\ c.nets \subseteq widths
          /\ PastGate(t) => c.name \in consented
    /\ todo[t] \subseteq Permitted
    /\ pc[t] \in {"unrule", "rule"} => at[t] \in Permitted
    /\ \A a \in lines[t] : a.scope \in consented

ClaimInv == ConfigInv /\ KernelInv /\ \A t \in Threads : WorkInv(t)

LEMMA InitClaimInv == Init => ClaimInv
  BY DEF Init, ClaimInv, ConfigInv, KernelInv, WorkInv, PastGate

\* What is permitted stays permitted.
LEMMA PermitGrows ==
    ASSUME NEW cfg, NEW S, Permit(cfg, S)
    PROVE  /\ widths \subseteq widths'
           /\ consented \subseteq consented'
           /\ S \subseteq consented'
           /\ WidthAllowed(cfg) \subseteq widths'
           /\ Ungated(cfg) \subseteq consented'
           /\ Permitted \subseteq Permitted'
  BY DEF Permit, Permitted

\* A thread whose work is untouched, and which did not just pass the gate,
\* keeps its part of the invariant.
LEMMA WorkKept ==
    ASSUME NEW t \in Threads, WorkInv(t),
           widths \subseteq widths', consented \subseteq consented',
           adding'[t] = adding[t], todo'[t] = todo[t], lines'[t] = lines[t],
           \/ pc'[t] = pc[t] /\ at'[t] = at[t]
           \/ pc'[t] \notin {"claim", "route", "unrule", "rule", "accept"}
    PROVE  WorkInv(t)'
  BY DEF WorkInv, PastGate, Permitted

LEMMA WorldClaimInv == TypeInv /\ ClaimInv /\ WorldStep => ClaimInv'
<1> SUFFICES ASSUME TypeInv, ClaimInv, WorldStep PROVE ClaimInv'
  OBVIOUS
<1>1. ASSUME NEW a \in Addresses, Connect(a) PROVE ClaimInv'
  BY <1>1 DEF Connect, ClaimInv, ConfigInv, KernelInv, WorkInv, PastGate,
              Permitted, WidthAllowed, Ungated, grants, work
<1>2. CASE Disconnect
  BY <1>2 DEF Disconnect, ClaimInv, ConfigInv, KernelInv, WorkInv, PastGate,
              Permitted, WidthAllowed, Ungated, kernel, grants, work
<1>3. ASSUME NEW s \in Scopes, NEW d \in Device, BridgeChanges(s, d)
      PROVE  ClaimInv'
  <2> USE <1>3 DEF BridgeChanges, ClaimInv
  <2>1. ConfigInv'
    BY DEF ConfigInv, WidthAllowed, Ungated, grants, history
  <2>2. KernelInv'
    BY DEF KernelInv, Permitted, history
  <2>3. \A t \in Threads : WorkInv(t)'
    BY WorkKept DEF work, history
  <2>4. QED
    BY <2>1, <2>2, <2>3
<1>4. ASSUME NEW cfg \in Edits, OperatorEdits(cfg) PROVE ClaimInv'
  <2> USE <1>4 DEF OperatorEdits, ClaimInv
  <2>1. /\ widths \subseteq widths' /\ consented \subseteq consented'
        /\ Permitted \subseteq Permitted'
        /\ WidthAllowed(cfg) \subseteq widths'
        /\ Ungated(cfg) \subseteq consented'
    BY PermitGrows
  <2>2. ConfigInv'
    BY <2>1 DEF ConfigInv, WidthAllowed, Ungated, grants
  <2>3. KernelInv'
    BY <2>1 DEF KernelInv, kernel
  <2>4. \A t \in Threads : WorkInv(t)'
    BY <2>1, WorkKept DEF work
  <2>5. QED
    BY <2>2, <2>3, <2>4
<1>5. QED
  BY <1>1, <1>2, <1>3, <1>4 DEF WorldStep

LEMMA CommandClaimInv ==
    ASSUME NEW t \in Threads
    PROVE  TypeInv /\ ClaimInv /\ CommandStep(t) => ClaimInv'
<1> SUFFICES ASSUME TypeInv, ClaimInv, CommandStep(t) PROVE ClaimInv'
  OBVIOUS
<1>a. pc[t] = "idle" /\ pc \in [Threads -> PCs] /\ file \in Config
  BY DEF CommandStep, Reconcile, Approve, ApproveAlways, Dismiss, SetScope,
         SetAutomation, Command, TypeInv, TypeOK
<1> USE DEF ClaimInv, Goto
<1>1. CASE Reconcile(t)
  <2> USE <1>1 DEF Reconcile
  <2>1. ConfigInv' /\ KernelInv'
    BY DEF ConfigInv, KernelInv, Permitted, WidthAllowed, Ungated, world,
           kernel, grants, history
  <2>2. \A u \in Threads : WorkInv(u)'
    BY <1>a, WorkKept DEF work, history
  <2>3. QED
    BY <2>1, <2>2
<1>2. ASSUME NEW s \in Scopes, Approve(t, s) PROVE ClaimInv'
  <2> USE <1>2 DEF Approve
  <2>1. /\ widths \subseteq widths' /\ consented \subseteq consented'
        /\ Permitted \subseteq Permitted' /\ s \in consented'
    BY PermitGrows
  <2>2. ConfigInv' /\ KernelInv'
    BY <2>1 DEF ConfigInv, KernelInv, WidthAllowed, Ungated, world, kernel
  <2>3. \A u \in Threads : WorkInv(u)'
    BY <1>a, <2>1, WorkKept DEF work
  <2>4. QED
    BY <2>2, <2>3
<1>3. ASSUME NEW s \in Scopes, ApproveAlways(t, s) PROVE ClaimInv'
  <2> USE <1>3 DEF ApproveAlways
  <2>1. /\ widths \subseteq widths' /\ consented \subseteq consented'
        /\ Permitted \subseteq Permitted' /\ s \in consented'
    BY PermitGrows
  <2>2. /\ WidthAllowed(file)' = WidthAllowed(file)
        /\ Ungated(file)' \subseteq Ungated(file) \cup {s}
    BY <1>a DEF WidthAllowed, width_refusal, Ungated, needs_approval, Config
  <2>3. ConfigInv' /\ KernelInv'
    BY <2>1, <2>2 DEF ConfigInv, KernelInv, WidthAllowed, Ungated, kernel
  <2>4. \A u \in Threads : WorkInv(u)'
    BY <1>a, <2>1, WorkKept DEF work
  <2>5. QED
    BY <2>3, <2>4
<1>4. ASSUME NEW s \in Scopes, Dismiss(t, s) PROVE ClaimInv'
  <2> USE <1>4 DEF Dismiss
  <2>1. ConfigInv' /\ KernelInv'
    BY DEF ConfigInv, KernelInv, Permitted, WidthAllowed, Ungated, world,
           kernel, history
  <2>2. \A u \in Threads : WorkInv(u)'
    BY WorkKept DEF work, history
  <2>3. QED
    BY <2>1, <2>2
<1>5. ASSUME NEW s \in Scopes, NEW enabled \in BOOLEAN,
             SetScope(t, s, enabled)
      PROVE  ClaimInv'
  <2> USE <1>5 DEF SetScope
  <2>1. /\ WidthAllowed(file)' = WidthAllowed(file)
        /\ Ungated(file)' = Ungated(file)
        /\ WidthAllowed(config)' = WidthAllowed(file)
        /\ Ungated(config)' = Ungated(file)
    BY <1>a DEF WidthAllowed, width_refusal, Ungated, needs_approval, Config
  <2>2. ConfigInv' /\ KernelInv'
    BY <2>1 DEF ConfigInv, KernelInv, Permitted, kernel, grants, history
  <2>3. \A u \in Threads : WorkInv(u)'
    BY <1>a, WorkKept DEF work, history
  <2>4. QED
    BY <2>2, <2>3
<1>6. ASSUME NEW mode \in {"confirm", "auto"}, SetAutomation(t, mode)
      PROVE  ClaimInv'
  <2> USE <1>6 DEF SetAutomation
  <2>1. /\ widths \subseteq widths' /\ consented \subseteq consented'
        /\ Permitted \subseteq Permitted'
        /\ WidthAllowed(file') \subseteq widths'
        /\ Ungated(file') \subseteq consented'
    BY PermitGrows
  <2>2. ConfigInv' /\ KernelInv'
    BY <2>1 DEF ConfigInv, KernelInv, WidthAllowed, Ungated, kernel, grants
  <2>3. \A u \in Threads : WorkInv(u)'
    BY <1>a, <2>1, WorkKept DEF work
  <2>4. QED
    BY <2>2, <2>3
<1>7. QED
  BY <1>1, <1>2, <1>3, <1>4, <1>5, <1>6 DEF CommandStep

\* No step of a pass touches what it has been permitted, nor another thread's
\* work.
LEMMA OthersKept ==
    ASSUME ClaimInv, TypeInv, NEW t \in Threads, PassStep(t)
    PROVE  /\ UNCHANGED history
           /\ Permitted' = Permitted
           /\ \A u \in Threads \ {t} : WorkInv(u)'
<1>1. UNCHANGED history
  BY DEF PassStep, Load, Look, Sync, Plan, RemoveRule, RemoveRoute, Prune,
         Unclaim, Gate, ClaimScope, ReplaceRoute, ClearRule, AddRule,
         InsertAccept, ScopeClaimed, Publish
<1>2. \A u \in Threads \ {t} :
        /\ adding'[u] = adding[u] /\ todo'[u] = todo[u]
        /\ lines'[u] = lines[u] /\ at'[u] = at[u] /\ pc'[u] = pc[u]
  BY DEF PassStep, Load, Look, Sync, Plan, RemoveRule, RemoveRoute, Prune,
         Unclaim, Gate, ClaimScope, ReplaceRoute, ClearRule, AddRule,
         InsertAccept, ScopeClaimed, Publish, Goto, work, TypeInv, TypeOK
<1>3. QED
  BY <1>1, <1>2, WorkKept DEF ClaimInv, history, Permitted

LEMMA PassClaimInv ==
    ASSUME NEW t \in Threads
    PROVE  TypeInv /\ ClaimInv /\ PassStep(t) => ClaimInv'
<1> SUFFICES ASSUME TypeInv, ClaimInv, PassStep(t)
             PROVE  ConfigInv' /\ KernelInv' /\ WorkInv(t)'
  BY OthersKept DEF ClaimInv
<1>a. /\ UNCHANGED <<widths, consented, fresh>>
      /\ Permitted' = Permitted
  BY OthersKept DEF history
<1>b. /\ pc \in [Threads -> PCs]
      /\ adding \in [Threads -> SUBSET Scope]
      /\ todo \in [Threads -> SUBSET Nets]
      /\ at \in [Threads -> Nets \cup {NoNet}]
      /\ lines \in [Threads -> SUBSET Accept]
      /\ scope \in [Threads -> Scope \cup {NoScope}]
      /\ rules \in [Nets -> Nat]
      /\ routes \in [Nets -> Device]
      /\ accepts \subseteq Accept
  BY DEF TypeInv, TypeOK
<1>c. ConfigInv /\ KernelInv /\ WorkInv(t)
  BY DEF ClaimInv
<1> USE <1>a, <1>b, <1>c DEF Goto
<1>1. CASE Load(t)
  BY <1>1 DEF Load, ConfigInv, KernelInv, WorkInv, PastGate, WidthAllowed,
              Ungated, world, kernel, grants, work
<1>2. CASE Look(t)
  BY <1>2 DEF Look, ConfigInv, KernelInv, WorkInv, PastGate, WidthAllowed,
              Ungated, world, kernel, grants, work
<1>3. CASE Sync(t)
  BY <1>3 DEF Sync, ConfigInv, KernelInv, WorkInv, PastGate, WidthAllowed,
              Ungated, world, kernel, work
<1>4. CASE Plan(t)
  <2> USE <1>4 DEF Plan
  <2>1. ConfigInv' /\ KernelInv'
    BY DEF ConfigInv, KernelInv, WidthAllowed, Ungated, world, kernel, grants
  <2>2. PICK failed \in SUBSET Readings :
           /\ pc'[t] \in {"idle", "remove"}
           /\ adding'[t] \in {adding[t], Additions(t, failed)}
    OBVIOUS
  <2>3. \A c \in Additions(t, failed) :
           /\ c.nets \subseteq Subnets[c.name]
           /\ c.nets \subseteq widths
    BY AdditionsNarrowed DEF TypeInv, ConfigInv
  <2>4. WorkInv(t)'
    BY <2>2, <2>3 DEF WorkInv, PastGate
  <2>5. QED
    BY <2>1, <2>4
<1>5. CASE RemoveRule(t)
  <2> USE <1>5 DEF RemoveRule
  <2>1. \A n \in Nets : rules'[n] > 0 => rules[n] > 0
    BY DEF Run
  <2>2. QED
    BY <2>1 DEF ConfigInv, KernelInv, WorkInv, PastGate, WidthAllowed,
                Ungated, world, grants
<1>6. CASE RemoveRoute(t)
  <2> USE <1>6 DEF RemoveRoute
  <2>1. \A n \in Nets : routes'[n] # NoDevice => routes[n] # NoDevice
    BY DEF Run
  <2>2. QED
    BY <2>1 DEF ConfigInv, KernelInv, WorkInv, PastGate, WidthAllowed,
                Ungated, world, grants
<1>7. CASE Prune(t)
  <2> USE <1>7 DEF Prune
  <2>1. \A a \in lines'[t] : a \in lines[t] \/ a \in accepts
    BY DEF Outlived
  <2>2. QED
    BY <2>1 DEF ConfigInv, KernelInv, WorkInv, PastGate, WidthAllowed,
                Ungated, world, kernel, grants
<1>8. CASE Unclaim(t)
  <2> USE <1>8 DEF Unclaim
  <2>1. accepts' \subseteq accepts /\ lines'[t] \subseteq lines[t]
    BY DEF Run
  <2>2. QED
    BY <2>1 DEF ConfigInv, KernelInv, WorkInv, PastGate, WidthAllowed,
                Ungated, world, grants
<1>9. CASE Gate(t)
  <2> USE <1>9 DEF Gate
  <2>1. \A c \in adding'[t] : c \in adding[t] /\ allows(c.name)
    OBVIOUS
  <2>2. \A c \in adding[t] : allows(c.name) => c.name \in consented
    BY DEF allows, ConfigInv, Ungated, Scope
  <2>3. WorkInv(t)'
    BY <2>1, <2>2 DEF WorkInv, PastGate
  <2>4. QED
    BY <2>3 DEF ConfigInv, KernelInv, WidthAllowed, Ungated, world, kernel,
                grants
<1>10. CASE ClaimScope(t)
  <2> USE <1>10 DEF ClaimScope
  <2>1. PICK c \in adding[t] :
           /\ adding'[t] \subseteq adding[t]
           /\ todo'[t] = c.nets
           /\ \A a \in lines'[t] : a \in firewall_lines(c)
    OBVIOUS
  <2>2. /\ c.name \in consented
        /\ c.nets \subseteq Permitted
    BY NetAssumption DEF WorkInv, PastGate, Permitted, Scope
  <2>3. WorkInv(t)'
    BY <2>1, <2>2 DEF WorkInv, PastGate, firewall_lines
  <2>4. QED
    BY <2>3 DEF ConfigInv, KernelInv, WidthAllowed, Ungated, world, kernel,
                grants
<1>11. CASE ReplaceRoute(t)
  <2> USE <1>11 DEF ReplaceRoute
  <2>1. PICK n \in todo[t] :
           /\ at'[t] = n
           /\ \A m \in Nets \ {n} : routes'[m] = routes[m]
    BY DEF Run
  <2>2. n \in Permitted
    BY DEF WorkInv
  <2>3. KernelInv'
    BY <2>1, <2>2 DEF KernelInv
  <2>4. WorkInv(t)'
    BY <2>1, <2>2 DEF WorkInv, PastGate
  <2>5. QED
    BY <2>3, <2>4 DEF ConfigInv, WidthAllowed, Ungated, world, grants
<1>12. CASE ClearRule(t)
  <2> USE <1>12 DEF ClearRule
  <2>1. \A n \in Nets : rules'[n] > 0 => rules[n] > 0
    BY DEF Run
  <2>2. QED
    BY <2>1 DEF ConfigInv, KernelInv, WorkInv, PastGate, WidthAllowed,
                Ungated, world, grants, work
<1>13. CASE AddRule(t)
  <2> USE <1>13 DEF AddRule
  <2>1. \A n \in Nets : rules'[n] > 0 => rules[n] > 0 \/ n = at[t]
    BY DEF Run
  <2>2. at[t] \in Permitted
    BY DEF WorkInv
  <2>3. KernelInv'
    BY <2>1, <2>2 DEF KernelInv
  <2>4. WorkInv(t)'
    BY DEF WorkInv, PastGate
  <2>5. QED
    BY <2>3, <2>4 DEF ConfigInv, WidthAllowed, Ungated, world, grants
<1>14. CASE InsertAccept(t)
  <2> USE <1>14 DEF InsertAccept
  <2>1. PICK a \in lines[t] : accepts' \subseteq accepts \cup {a}
    BY DEF Run
  <2>2. lines'[t] \subseteq lines[t]
    OBVIOUS
  <2>3. KernelInv'
    BY <2>1 DEF KernelInv, WorkInv
  <2>4. WorkInv(t)'
    BY <2>2 DEF WorkInv, PastGate
  <2>5. QED
    BY <2>3, <2>4 DEF ConfigInv, WidthAllowed, Ungated, world, grants
<1>15. CASE ScopeClaimed(t)
  BY <1>15 DEF ScopeClaimed, ConfigInv, KernelInv, WorkInv, PastGate,
               WidthAllowed, Ungated, world, kernel, grants
<1>16. CASE Publish(t)
  BY <1>16 DEF Publish, ConfigInv, KernelInv, WorkInv, PastGate,
               WidthAllowed, Ungated, world, kernel, grants
<1>17. QED
  BY <1>1, <1>2, <1>3, <1>4, <1>5, <1>6, <1>7, <1>8, <1>9, <1>10, <1>11,
     <1>12, <1>13, <1>14, <1>15, <1>16 DEF PassStep

LEMMA NextClaimInv == TypeInv /\ ClaimInv /\ [Next]_vars => ClaimInv'
<1> SUFFICES ASSUME TypeInv, ClaimInv, [Next]_vars PROVE ClaimInv'
  OBVIOUS
<1>1. CASE WorldStep
  BY <1>1, WorldClaimInv
<1>2. CASE Tick
  <2> USE <1>2 DEF Tick, Goto, ClaimInv
  <2>1. ConfigInv' /\ KernelInv'
    BY DEF ConfigInv, KernelInv, Permitted, WidthAllowed, Ungated, world,
           kernel, grants, history
  <2>2. \A t \in Threads : WorkInv(t)'
    BY WorkKept DEF TypeInv, TypeOK, work, history
  <2>3. QED
    BY <2>1, <2>2
<1>3. CASE Restart
  <2> USE <1>3 DEF Restart, ClaimInv
  <2>1. ConfigInv' /\ KernelInv'
    BY DEF ConfigInv, KernelInv, Permitted, WidthAllowed, Ungated, world,
           kernel, history
  <2>2. \A t \in Threads : WorkInv(t)'
    BY DEF WorkInv, PastGate
  <2>3. QED
    BY <2>1, <2>2
<1>4. ASSUME NEW t \in Threads, PassStep(t) PROVE ClaimInv'
  BY <1>4, PassClaimInv
<1>5. ASSUME NEW t \in Threads, CommandStep(t) PROVE ClaimInv'
  BY <1>5, CommandClaimInv
<1>6. ASSUME NEW t \in Threads, Abort(t) PROVE ClaimInv'
  <2> USE <1>6 DEF Abort, Goto, ClaimInv
  <2>1. ConfigInv' /\ KernelInv'
    BY DEF ConfigInv, KernelInv, Permitted, WidthAllowed, Ungated, world,
           kernel, grants, history
  <2>2. WorkInv(t)'
    BY DEF WorkInv, PastGate, TypeInv, TypeOK
  <2>3. \A u \in Threads \ {t} : WorkInv(u)'
    BY WorkKept DEF TypeInv, TypeOK, history
  <2>4. QED
    BY <2>1, <2>2, <2>3
<1>7. CASE UNCHANGED vars
  BY <1>7 DEF vars, ClaimInv, ConfigInv, KernelInv, WorkInv, PastGate,
              Permitted, WidthAllowed, Ungated, world, kernel, grants, work,
              history
<1>8. QED
  BY <1>1, <1>2, <1>3, <1>4, <1>5, <1>6, <1>7 DEF Next

LEMMA ClaimInvHolds == Spec => [](TypeInv /\ ClaimInv)
  BY InitTypeInv, NextTypeInv, InitClaimInv, NextClaimInv, PTL DEF Spec

\* A network whose width no config file ever let through is never ruled or
\* routed, however passes overlap, fail or are restarted.
THEOREM RefusedAreSafe == Spec => []RefusedNeverClaimed
<1>1. TypeInv /\ ClaimInv => RefusedNeverClaimed
  BY DEF ClaimInv, KernelInv, Permitted, RefusedNeverClaimed, Claimed
<1>2. QED
  BY ClaimInvHolds, <1>1, PTL

\* Nothing is ruled, routed or admitted for a scope nobody ever approved.
THEOREM ConsentComesFirst == Spec => []ConsentBeforeClaim
<1>1. TypeInv /\ ClaimInv => ConsentBeforeClaim
  BY DEF ClaimInv, KernelInv, Permitted, ConsentBeforeClaim, Claimed
<1>2. QED
  BY ClaimInvHolds, <1>1, PTL

----------------------------------------------------------------------------
(* Rules do not stack while the main loop is the only one to run passes    *)
(* and no command fails: between a pass's clearing a rule and its adding   *)
(* it, there is none.                                                      *)

Solo == Handlers = {} /\ Limit["fault"] = 0

SoloInv ==
    /\ Solo
    /\ NoStackedRules
    /\ pc[Main] = "rule" => rules[at[Main]] = 0

LEMMA NextSoloInv == TypeInv /\ ClaimInv /\ SoloInv /\ [Next]_vars => SoloInv'
<1> SUFFICES ASSUME TypeInv, ClaimInv, SoloInv, [Next]_vars PROVE SoloInv'
  OBVIOUS
<1>a. Threads = {Main} /\ Handlers = {}
  BY DEF Threads, SoloInv, Solo
<1>b. /\ rules \in [Nets -> Nat] /\ pc \in [Threads -> PCs]
      /\ at \in [Threads -> Nets \cup {NoNet}]
  BY DEF TypeInv, TypeOK
<1>c. ~Spend("fault")
  BY DEF SoloInv, Solo, Spend, Kinds, TypeInv, TypeOK
<1>d. pc[Main] \in {"unrule", "rule"} => at[Main] \in Nets
  BY <1>a DEF ClaimInv, WorkInv, Permitted, TypeInv, TypeOK
<1> USE <1>a, <1>b, <1>c DEF SoloInv, NoStackedRules, Goto
<1>1. CASE WorldStep
  BY <1>1 DEF WorldStep, Connect, Disconnect, BridgeChanges, OperatorEdits,
              kernel, work
<1>2. CASE Tick
  BY <1>2 DEF Tick, kernel
<1>3. CASE Restart
  BY <1>3 DEF Restart, kernel
<1>4. CASE PassStep(Main)
  <2>1. CASE RemoveRule(Main)
    <3>1. PICK c \in dropping[Main] :
             rules' = [rules EXCEPT ![c.net] = IF @ > 0 THEN @ - 1 ELSE 0]
      BY <2>1 DEF RemoveRule, Run
    <3>2. QED
      BY <2>1, <3>1 DEF RemoveRule
  <2>2. CASE ClearRule(Main)
    <3>1. rules' = [rules EXCEPT ![at[Main]] = IF @ > 0 THEN @ - 1 ELSE 0]
      BY <2>2 DEF ClearRule, Run
    <3>2. at'[Main] = at[Main] /\ at[Main] \in Nets
      BY <2>2, <1>d DEF ClearRule, work
    <3>3. QED
      BY <3>1, <3>2
  <2>3. CASE AddRule(Main)
    <3>1. rules' = [rules EXCEPT ![at[Main]] = @ + 1]
      BY <2>3 DEF AddRule, Run
    <3>2. at[Main] \in Nets /\ rules[at[Main]] = 0 /\ pc'[Main] # "rule"
      BY <2>3, <1>d DEF AddRule
    <3>3. QED
      BY <3>1, <3>2
  <2>4. QED
    BY <1>4, <2>1, <2>2, <2>3
    DEF PassStep, Load, Look, Sync, Plan, RemoveRoute, Prune, Unclaim, Gate,
        ClaimScope, ReplaceRoute, InsertAccept, ScopeClaimed, Publish, kernel,
        work
<1>5. ~CommandStep(Main) /\ ~Abort(Main)
  BY DEF CommandStep, Reconcile, Approve, ApproveAlways, Dismiss, SetScope,
         SetAutomation, Command, Abort
<1>6. CASE UNCHANGED vars
  BY <1>6 DEF vars, kernel, work
<1>7. QED
  BY <1>1, <1>2, <1>3, <1>4, <1>5, <1>6 DEF Next

\* A daemon whose control socket nobody uses never leaves two copies of a
\* rule, wherever it is killed and restarted; concurrent passes do (the run
\* "stacked" of README.md).
THEOREM RulesNeverStackAlone == Solo /\ Spec => []NoStackedRules
<1>1. Solo /\ Init => SoloInv
  BY DEF Init, Solo, SoloInv, NoStackedRules, Threads
<1>2. TypeInv /\ ClaimInv /\ SoloInv /\ [Next]_vars => SoloInv'
  BY NextSoloInv
<1>3. SoloInv => NoStackedRules
  BY DEF SoloInv
<1>4. QED
  BY <1>1, <1>2, <1>3, ClaimInvHolds, PTL DEF Spec

----------------------------------------------------------------------------
(* With the passes of any number of threads, copies of a rule are bounded: *)
(* whoever adds one has cleared one, or found none.                        *)

LEMMA AddersFinite ==
    ASSUME IsFiniteSet(Handlers)
    PROVE  /\ Cardinality(Threads) \in Nat
           /\ \A S \in SUBSET Threads :
                 /\ IsFiniteSet(S)
                 /\ Cardinality(S) \in Nat
                 /\ Cardinality(S) <= Cardinality(Threads)
<1>1. IsFiniteSet(Threads)
  BY FS_AddElement DEF Threads
<1> QED BY <1>1, FS_Subset, FS_CardinalityType

\* A command of the socket touches no rule and no thread but its own.
LEMMA CommandFrame ==
    ASSUME NEW t \in Threads, CommandStep(t)
    PROVE  /\ rules' = rules /\ at' = at
           /\ Spend("command")
           /\ pc' = pc \/ pc' = [pc EXCEPT ![t] = "load"]
<1> USE DEF Command, Goto, kernel, work
<1>1. CASE Reconcile(t)
  BY <1>1, Zenon DEF Reconcile
<1>2. ASSUME NEW s \in Scopes, Approve(t, s) \/ ApproveAlways(t, s)
      PROVE  rules' = rules /\ at' = at /\ Spend("command") /\ pc' = [pc EXCEPT ![t] = "load"]
  BY <1>2, Zenon DEF Approve, ApproveAlways
<1>3. ASSUME NEW s \in Scopes, Dismiss(t, s)
      PROVE  rules' = rules /\ at' = at /\ Spend("command") /\ pc' = pc
  BY <1>3, Zenon DEF Dismiss
<1>4. ASSUME NEW s \in Scopes, NEW enabled \in BOOLEAN, SetScope(t, s, enabled)
      PROVE  rules' = rules /\ at' = at /\ Spend("command") /\ pc' = [pc EXCEPT ![t] = "load"]
  BY <1>4, Zenon DEF SetScope
<1>5. ASSUME NEW mode, SetAutomation(t, mode)
      PROVE  rules' = rules /\ at' = at /\ Spend("command") /\ pc' = [pc EXCEPT ![t] = "load"]
  BY <1>5, Zenon DEF SetAutomation
<1> QED BY <1>1, <1>2, <1>3, <1>4, <1>5, Zenon DEF CommandStep

\* Of the bounded events, a step spends at most one.
LEMMA NextSpends ==
    ASSUME [Next]_vars
    PROVE  UNCHANGED spent \/ \E k \in Kinds : Spend(k)
<1>1. CASE WorldStep
  BY <1>1
  DEF WorldStep, Connect, Disconnect, BridgeChanges, OperatorEdits, Kinds
<1>2. CASE Tick \/ Restart \/ UNCHANGED vars
  BY <1>2 DEF Tick, Restart, Kinds, vars
<1>3. ASSUME NEW t \in Threads, PassStep(t)
      PROVE  UNCHANGED spent \/ \E k \in Kinds : Spend(k)
  BY <1>3
  DEF PassStep, Load, Look, Sync, Plan, RemoveRule, RemoveRoute, Prune,
      Unclaim, Gate, ClaimScope, ReplaceRoute, ClearRule, AddRule,
      InsertAccept, ScopeClaimed, Publish, Run, Kinds
<1>4. ASSUME NEW t \in Threads, CommandStep(t) \/ Abort(t)
      PROVE  UNCHANGED spent \/ \E k \in Kinds : Spend(k)
  BY <1>4, CommandFrame DEF Abort, Kinds
<1>5. QED
  BY <1>1, <1>2, <1>3, <1>4 DEF Next

LEMMA FaultsGrow ==
    ASSUME TypeInv, [Next]_vars
    PROVE  /\ spent["fault"] \in Nat /\ spent'["fault"] \in Nat
           /\ spent'["fault"] >= spent["fault"]
<1>1. spent \in [Kinds -> Nat] /\ "fault" \in Kinds
  BY DEF TypeInv, TypeOK, Kinds
<1>2. ASSUME NEW k, Spend(k)
      PROVE  spent'["fault"] >= spent["fault"] /\ spent'["fault"] \in Nat
  BY <1>1, <1>2 DEF Spend
<1>3. QED
  BY <1>1, <1>2, NextSpends

\* What a step may do to a rule of which there are r copies, while the processes
\* of A are between clearing one and adding one, and f commands have failed: add
\* nothing and send nobody; clear one, or find none, or fail to, and be about to
\* add; add one, or fail to.
Counts(r, r2, A, A2, f, f2) ==
    /\ f <= f2
    /\ \/ r2 <= r /\ A2 \subseteq A
       \/ \E t : /\ t \notin A /\ A2 = A \cup {t}
                 /\ \/ r2 = 0
                    \/ r2 = r - 1
                    \/ r2 = r /\ f2 = f + 1
       \/ \E t \in A : A2 = A \ {t} /\ r2 \in {r, r + 1}

\* Such a step keeps the copies, present or about to be added, within the
\* number of the processes and of the failures.
LEMMA CountKept ==
    ASSUME NEW E, IsFiniteSet(E), NEW A \in SUBSET E, NEW A2 \in SUBSET E,
           NEW r \in Nat, NEW r2 \in Nat, NEW f \in Nat, NEW f2 \in Nat,
           Counts(r, r2, A, A2, f, f2),
           r + Cardinality(A) <= Cardinality(E) + f
    PROVE  r2 + Cardinality(A2) <= Cardinality(E) + f2
<1>1. /\ IsFiniteSet(A) /\ IsFiniteSet(A2)
      /\ Cardinality(A) \in Nat /\ Cardinality(A2) \in Nat
      /\ Cardinality(E) \in Nat /\ Cardinality(A2) <= Cardinality(E)
  BY FS_Subset, FS_CardinalityType
<1>2. CASE r2 <= r /\ A2 \subseteq A
  <2>1. Cardinality(A2) <= Cardinality(A)
    BY <1>1, <1>2, FS_Subset
  <2>2. QED
    BY <1>1, <1>2, <2>1 DEF Counts
<1>3. ASSUME NEW t, t \notin A, A2 = A \cup {t},
             r2 = 0 \/ r2 = r - 1 \/ (r2 = r /\ f2 = f + 1)
      PROVE  r2 + Cardinality(A2) <= Cardinality(E) + f2
  <2>1. Cardinality(A2) = Cardinality(A) + 1
    BY <1>1, <1>3, FS_AddElement
  <2>2. QED
    BY <1>1, <1>3, <2>1 DEF Counts
<1>4. ASSUME NEW t \in A, A2 = A \ {t}, r2 \in {r, r + 1}
      PROVE  r2 + Cardinality(A2) <= Cardinality(E) + f2
  <2>1. Cardinality(A2) = Cardinality(A) - 1
    BY <1>1, <1>4, FS_RemoveElement
  <2>2. QED
    BY <1>1, <1>4, <2>1 DEF Counts
<1>5. QED
  BY <1>2, <1>3, <1>4 DEF Counts

\* A process at the rule of a network has that network in hand.
HandInv == \A t \in Threads : pc[t] \in {"unrule", "rule"} => at[t] \in Nets

LEMMA NextHandInv == TypeInv /\ HandInv /\ [Next]_vars => HandInv'
<1> SUFFICES ASSUME TypeInv, HandInv, [Next]_vars PROVE HandInv'
  OBVIOUS
<1>a. /\ pc \in [Threads -> PCs] /\ at \in [Threads -> Nets \cup {NoNet}]
      /\ todo \in [Threads -> SUBSET Nets]
  BY DEF TypeInv, TypeOK
<1> USE <1>a DEF HandInv, Goto
<1>1. CASE WorldStep \/ Tick \/ UNCHANGED vars
  <2>1. at' = at
    BY <1>1 DEF WorldStep, Connect, Disconnect, BridgeChanges, OperatorEdits,
                Tick, vars, work
  <2>2. pc' = pc \/ pc' = [pc EXCEPT ![Main] = "load"]
    BY <1>1 DEF WorldStep, Connect, Disconnect, BridgeChanges, OperatorEdits,
                Tick, vars
  <2>3. QED
    BY <2>1, <2>2
<1>2. CASE Restart
  BY <1>2 DEF Restart
<1>3. ASSUME NEW t \in Threads, CommandStep(t) PROVE HandInv'
  <2>1. at' = at /\ (pc' = pc \/ pc' = [pc EXCEPT ![t] = "load"])
    BY <1>3, CommandFrame
  <2>2. QED
    BY <2>1
<1>4. ASSUME NEW t \in Threads, Abort(t) PROVE HandInv'
  BY <1>4 DEF Abort
<1>5. ASSUME NEW t \in Threads, PassStep(t) PROVE HandInv'
  <2>1. CASE ReplaceRoute(t)
    BY <2>1 DEF ReplaceRoute
  <2>2. CASE ClearRule(t)
    BY <2>2 DEF ClearRule, work
  <2>3. ASSUME ~ReplaceRoute(t), ~ClearRule(t)
        PROVE  HandInv'
    <3>1. \A u \in Threads : u # t => at'[u] = at[u]
      BY <1>5, <2>3
      DEF PassStep, Load, Look, Sync, Plan, RemoveRule, RemoveRoute, Prune,
          Unclaim, Gate, ClaimScope, AddRule, InsertAccept, ScopeClaimed,
          Publish, work
    <3>2. \A u \in Threads : pc'[u] \in {"unrule", "rule"} =>
             pc[u] \in {"unrule", "rule"} /\ u # t
      <4>1. \/ \E where \in PCs \ {"unrule", "rule"} :
                  pc' = [pc EXCEPT ![t] = where]
            \/ pc' = pc /\ pc[t] \in {"unclaim", "accept"}
        BY <1>5, <2>3
        DEF PassStep, Load, Look, Sync, Plan, RemoveRule, RemoveRoute, Prune,
            Unclaim, Gate, ClaimScope, AddRule, InsertAccept, ScopeClaimed,
            Publish, PCs
      <4>2. QED
        BY <4>1
    <3>3. QED
      BY <3>1, <3>2
  <2>4. QED
    BY <2>1, <2>2, <2>3
<1>6. QED
  BY <1>1, <1>2, <1>3, <1>4, <1>5 DEF Next

\* What a step of the daemon, or of the world, does to the copies of a rule.
LEMMA NextCounts ==
    ASSUME TypeInv, HandInv, [Next]_vars, NEW n \in Nets
    PROVE  Counts(rules[n], rules'[n], Adders(n), Adders(n)',
                  spent["fault"], spent'["fault"])
<1>1. /\ rules \in [Nets -> Nat] /\ rules' \in [Nets -> Nat]
      /\ pc \in [Threads -> PCs]
      /\ at \in [Threads -> Nets \cup {NoNet}] /\ n # NoNet
  BY NextTypeInv, NoneAssumption DEF TypeInv, TypeOK
<1>2. spent["fault"] <= spent'["fault"]
  BY FaultsGrow
<1>3. ASSUME rules'[n] <= rules[n], Adders(n)' \subseteq Adders(n)
      PROVE  Counts(rules[n], rules'[n], Adders(n), Adders(n)',
                    spent["fault"], spent'["fault"])
  BY <1>2, <1>3 DEF Counts
<1>4. ASSUME NEW t \in Threads, ClearRule(t)
      PROVE  Counts(rules[n], rules'[n], Adders(n), Adders(n)',
                    spent["fault"], spent'["fault"])
  <2>1. /\ at' = at /\ at[t] \in Nets
        /\ pc' = [pc EXCEPT ![t] = "rule"] /\ pc[t] = "unrule"
    BY <1>4 DEF ClearRule, Goto, work, HandInv
  <2>2. CASE n # at[t]
    <3>1. Adders(n)' \subseteq Adders(n)
      BY <1>1, <2>1, <2>2 DEF Adders
    <3>2. rules'[n] = rules[n]
      BY <1>1, <1>4, <2>1, <2>2 DEF ClearRule, Run
    <3>3. QED
      BY <1>1, <1>3, <3>1, <3>2
  <2>3. CASE n = at[t]
    <3>1. t \notin Adders(n) /\ Adders(n)' = Adders(n) \cup {t}
      BY <1>1, <2>1, <2>3 DEF Adders
    <3>2. \/ rules'[n] = 0
          \/ rules'[n] = rules[n] - 1
          \/ rules' = rules /\ Spend("fault")
      BY <1>1, <1>4, <2>3 DEF ClearRule, Run
    <3>3. Spend("fault") => spent'["fault"] = spent["fault"] + 1
      BY DEF Spend, TypeInv, TypeOK, Kinds
    <3>4. QED
      BY <1>2, <3>1, <3>2, <3>3 DEF Counts
  <2>4. QED
    BY <2>2, <2>3
<1>5. ASSUME NEW t \in Threads, AddRule(t)
      PROVE  Counts(rules[n], rules'[n], Adders(n), Adders(n)',
                    spent["fault"], spent'["fault"])
  <2>1. /\ pc[t] = "rule"
        /\ at' = [at EXCEPT ![t] = NoNet]
        /\ \E where \in {"accept", "route"} : pc' = [pc EXCEPT ![t] = where]
    BY <1>5 DEF AddRule, Goto
  <2>2. CASE n # at[t]
    <3>1. Adders(n)' \subseteq Adders(n)
      BY <1>1, <2>1, <2>2 DEF Adders
    <3>2. rules'[n] = rules[n]
      BY <1>1, <1>5, <2>2 DEF AddRule, Run
    <3>3. QED
      BY <1>1, <1>3, <3>1, <3>2
  <2>3. CASE n = at[t]
    <3>1. t \in Adders(n) /\ Adders(n)' = Adders(n) \ {t}
      BY <1>1, <2>1, <2>3 DEF Adders
    <3>2. rules'[n] \in {rules[n], rules[n] + 1}
      BY <1>1, <1>5, <2>3 DEF AddRule, Run
    <3>3. QED
      BY <1>2, <3>1, <3>2 DEF Counts
  <2>4. QED
    BY <2>2, <2>3
<1>6. CASE WorldStep \/ Tick \/ UNCHANGED vars
  <2>1. rules' = rules /\ at' = at
    BY <1>6 DEF WorldStep, Connect, Disconnect, BridgeChanges, OperatorEdits,
       Tick, vars, kernel, work
  <2>2. \A t \in Threads : pc'[t] = "rule" => pc[t] = "rule"
    BY <1>1, <1>6 DEF WorldStep, Connect, Disconnect, BridgeChanges,
       OperatorEdits, Tick, Goto, vars
  <2>3. QED
    BY <1>1, <1>3, <2>1, <2>2 DEF Adders
<1>7. CASE Restart
  <2>1. rules' = rules /\ \A t \in Threads : pc'[t] # "rule"
    BY <1>7 DEF Restart, kernel
  <2>2. QED
    BY <1>1, <1>3, <2>1 DEF Adders
<1>8. ASSUME NEW t \in Threads, CommandStep(t) \/ Abort(t)
      PROVE  Counts(rules[n], rules'[n], Adders(n), Adders(n)',
                    spent["fault"], spent'["fault"])
  <2>1. /\ rules' = rules
        /\ at' = at \/ at' = [at EXCEPT ![t] = NoNet]
        /\ \/ pc' = pc
           \/ \E where \in {"load", "idle"} : pc' = [pc EXCEPT ![t] = where]
    BY <1>8, CommandFrame DEF Abort, Goto, kernel
  <2>2. Adders(n)' \subseteq Adders(n)
    BY <1>1, <2>1 DEF Adders
  <2>3. QED
    BY <1>1, <1>3, <2>1, <2>2
<1>9. ASSUME NEW t \in Threads, PassStep(t), ~ClearRule(t), ~AddRule(t)
      PROVE  Counts(rules[n], rules'[n], Adders(n), Adders(n)',
                    spent["fault"], spent'["fault"])
  <2>1. rules'[n] <= rules[n]
    BY <1>1, <1>9 DEF PassStep, Load, Look, Sync, Plan, RemoveRule, RemoveRoute,
       Prune, Unclaim, Gate, ClaimScope, ReplaceRoute, InsertAccept,
       ScopeClaimed, Publish, Run, kernel
  <2>2. \A u \in Threads : pc'[u] = "rule" => pc[u] = "rule" /\ u # t
    <3>1. pc[t] # "rule"
      BY <1>9 DEF PassStep, Load, Look, Sync, Plan, RemoveRule, RemoveRoute,
         Prune, Unclaim, Gate, ClaimScope, ReplaceRoute, InsertAccept,
         ScopeClaimed, Publish
    <3>2. \E where \in PCs \ {"rule"} : pc' = [pc EXCEPT ![t] = where]
      BY <1>1, <1>9, <3>1 DEF PassStep, Load, Look, Sync, Plan, RemoveRule,
         RemoveRoute, Prune, Unclaim, Gate, ClaimScope, ReplaceRoute,
         InsertAccept, ScopeClaimed, Publish, Goto, PCs
    <3>3. QED
      BY <1>1, <3>2
  <2>3. \A u \in Threads : u # t => at'[u] = at[u]
    BY <1>1, <1>9 DEF PassStep, Load, Look, Sync, Plan, RemoveRule, RemoveRoute,
       Prune, Unclaim, Gate, ClaimScope, ReplaceRoute, InsertAccept,
       ScopeClaimed, Publish, work
  <2>4. Adders(n)' \subseteq Adders(n)
    BY <1>1, <2>2, <2>3 DEF Adders
  <2>5. QED
    BY <1>3, <2>1, <2>4
<1>10. QED
  BY <1>4, <1>5, <1>6, <1>7, <1>8, <1>9 DEF Next

CopiesInv == IsFiniteSet(Handlers) /\ HandInv /\ RuleCopiesBounded

LEMMA NextCopies == TypeInv /\ CopiesInv /\ [Next]_vars => CopiesInv'
<1> SUFFICES ASSUME TypeInv, CopiesInv, [Next]_vars PROVE CopiesInv'
  OBVIOUS
<1>1. IsFiniteSet(Threads)
  BY FS_AddElement DEF Threads, CopiesInv
<1>2. ASSUME NEW n \in Nets
      PROVE  rules'[n] + Cardinality(Adders(n)')
                <= Cardinality(Threads) + spent'["fault"]
  <2>1. rules[n] \in Nat /\ rules'[n] \in Nat
    BY NextTypeInv DEF TypeInv, TypeOK
  <2>2. spent["fault"] \in Nat /\ spent'["fault"] \in Nat
    BY FaultsGrow
  <2>3. Adders(n) \in SUBSET Threads /\ Adders(n)' \in SUBSET Threads
    BY DEF Adders
  <2>4. Counts(rules[n], rules'[n], Adders(n), Adders(n)',
               spent["fault"], spent'["fault"])
    BY NextCounts DEF CopiesInv
  <2>5. QED
    BY <1>1, <2>1, <2>2, <2>3, <2>4, CountKept
    DEF CopiesInv, RuleCopiesBounded
<1>3. HandInv'
  BY NextHandInv DEF CopiesInv
<1>4. QED
  BY <1>2, <1>3 DEF CopiesInv, RuleCopiesBounded

\* However many handlers there are, and however their passes overlap, fail or
\* are killed, a network has no more copies of its rule than there are threads,
\* but for the commands that failed (RuleCopiesBounded).
THEOREM RuleCopiesStayBounded ==
    IsFiniteSet(Handlers) /\ Spec => []RuleCopiesBounded
<1>1. IsFiniteSet(Handlers) /\ Init => CopiesInv
  <2> SUFFICES ASSUME IsFiniteSet(Handlers), Init PROVE CopiesInv
    OBVIOUS
  <2>1. ASSUME NEW n \in Nets
        PROVE  rules[n] + Cardinality(Adders(n))
                  <= Cardinality(Threads) + spent["fault"]
    <3>1. rules[n] = 0 /\ spent["fault"] = 0 /\ Adders(n) = {}
      BY DEF Init, Adders, Kinds
    <3>2. QED
      BY <3>1, AddersFinite, FS_EmptySet
  <2>2. HandInv
    BY DEF Init, HandInv
  <2>3. QED
    BY <2>1, <2>2 DEF CopiesInv, RuleCopiesBounded
<1>2. CopiesInv => RuleCopiesBounded
  BY DEF CopiesInv
<1>3. QED
  BY <1>1, <1>2, NextCopies, InitTypeInv, NextTypeInv, PTL DEF Spec

----------------------------------------------------------------------------
(* Session grants.  The daemon knows a session by the tunnel's addresses   *)
(* (SessionGrants.sync), so a grant can outlive its session - but only in  *)
(* one way, whatever addresses are leased again.                           *)

\* The tunnel comes back with the address the daemon has yet to see go.
ReturnsUnnoticed == tunnel' \notin {tunnel, NoTunnel} /\ tunnel' = session

LEMMA NextGrants ==
    ASSUME GrantsAreThisSessions, [Next]_vars, ~ReturnsUnnoticed
    PROVE  GrantsAreThisSessions'
<1> USE DEF GrantsAreThisSessions
<1>1. CASE UNCHANGED <<tunnel, session, granted, fresh>>
  BY <1>1
<1>2. ASSUME NEW a \in Addresses, Connect(a) PROVE GrantsAreThisSessions'
  <2>1. tunnel' # tunnel /\ UNCHANGED session
    BY <1>2 DEF Connect, grants
  <2>2. QED
    BY <2>1 DEF ReturnsUnnoticed
<1>3. CASE Disconnect
  BY <1>3 DEF Disconnect
<1>4. CASE Restart
  BY <1>4 DEF Restart
<1>5. ASSUME NEW t \in Threads, Sync(t) PROVE GrantsAreThisSessions'
  BY <1>5 DEF Sync, world, history
<1>6. ASSUME NEW t \in Threads, CommandStep(t) PROVE GrantsAreThisSessions'
  <2>1. UNCHANGED <<tunnel, session>>
    BY <1>6
    DEF CommandStep, Reconcile, Approve, ApproveAlways, Dismiss, SetScope,
        SetAutomation, Command, world, grants
  <2>2. \/ UNCHANGED <<granted, fresh>>
        \/ \E s \in Scopes : granted' = granted \cup {s}
                             /\ fresh' = fresh \cup {s}
    BY <1>6
    DEF CommandStep, Reconcile, Approve, ApproveAlways, Dismiss, SetScope,
        SetAutomation, Permit, grants, history
  <2>3. QED
    BY <2>1, <2>2
<1>7. ASSUME NEW t \in Threads, PassStep(t), ~Sync(t) PROVE GrantsAreThisSessions'
  BY <1>1, <1>7
  DEF PassStep, Load, Look, Plan, RemoveRule, RemoveRoute, Prune, Unclaim, Gate,
      ClaimScope, ReplaceRoute, ClearRule, AddRule, InsertAccept, ScopeClaimed,
      Publish, world, grants, history
<1>8. CASE Tick \/ \E t \in Threads : Abort(t)
  BY <1>1, <1>8 DEF Tick, Abort, world, grants, history
<1>9. ASSUME NEW s \in Scopes, NEW d \in Device, BridgeChanges(s, d)
      PROVE  GrantsAreThisSessions'
  BY <1>1, <1>9 DEF BridgeChanges, grants, history
<1>10. ASSUME NEW cfg \in Edits, OperatorEdits(cfg) PROVE GrantsAreThisSessions'
  BY <1>1, <1>10 DEF OperatorEdits, Permit, grants
<1>11. CASE UNCHANGED vars
  BY <1>1, <1>11 DEF vars, world, grants, history
<1>12. QED
  BY <1>2, <1>3, <1>4, <1>5, <1>6, <1>7, <1>8, <1>9, <1>10, <1>11
  DEF Next, WorldStep

\* Whatever addresses are leased again, however passes overlap and whenever a grant
\* is given, a grant is taken for one of a later session only when the tunnel comes
\* back with the address that the daemon still has for its key (SessionGrants.sync):
\* as long as it never does, the grants of the session that is up were all given
\* in it.
THEOREM GrantsStayInTheirSession ==
    Spec /\ [][~ReturnsUnnoticed]_vars => []GrantsAreThisSessions
<1>1. Init => GrantsAreThisSessions
  BY DEF Init, GrantsAreThisSessions
<1>2. GrantsAreThisSessions /\ [Next]_vars /\ [~ReturnsUnnoticed]_vars
         => GrantsAreThisSessions'
  <2>1. CASE UNCHANGED vars
    BY <2>1 DEF vars, world, grants, history, GrantsAreThisSessions
  <2>2. CASE ~ReturnsUnnoticed
    BY <2>2, NextGrants
  <2>3. QED
    BY <2>1, <2>2
<1>3. QED
  BY <1>1, <1>2, PTL DEF Spec

============================================================================
