--------------------------- MODULE HostCLIProofs ---------------------------
(***************************************************************************)
(* What holds of a daemon and the commands beside it, for any scopes,      *)
(* networks, devices, handlers and bounds: the types; that the copies of a *)
(* rule are bounded by the processes at work; and that a revert which      *)
(* reports success has removed what it was for.                            *)
(***************************************************************************)
EXTENDS HostCLI, ReconcilerProofs

----------------------------------------------------------------------------
(* The type invariant: the daemon's, and that the process of the command   *)
(* has a scope and a network in hand where its actions need them.          *)

MemoryInv ==
    /\ cconfig \in Config /\ csession \in Vpn /\ cpending \subseteq Scopes
    /\ cpc \in [{Cli} -> PCs]
    /\ cseen \in [{Cli} -> Vpn]
    /\ cadding \in [{Cli} -> SUBSET Scope]
    /\ cdropping \in [{Cli} -> SUBSET Claim]
    /\ cdesired \in [{Cli} -> SUBSET Scopes]
    /\ cblocked \in [{Cli} -> SUBSET Scopes]
    /\ cscope \in [{Cli} -> Scope \cup {NoScope}]
    /\ ctodo \in [{Cli} -> SUBSET Nets]
    /\ cat \in [{Cli} -> Nets \cup {NoNet}]
    /\ clines \in [{Cli} -> SUBSET Accept]
    /\ cpc[Cli] \in {"route", "unrule", "rule"} => cscope[Cli] \in Scope
    /\ cpc[Cli] \in {"unrule", "rule"} => cat[Cli] \in Nets

CommandInv ==
    /\ command \in Steps
    /\ layers \subseteq {1, 2}
    /\ targets \subseteq Scope
    /\ ok \in BOOLEAN /\ alone \in BOOLEAN
    /\ rounds \in 0..RevertRounds
    /\ ran \in 0..Commands

CliInv == TypeInv /\ HandInv /\ MemoryInv /\ CommandInv

----------------------------------------------------------------------------
(* The Pass of a command uses the operators of ClaimPolicy as the daemon's *)
(* does; what differs is who it is and where it remembers.                 *)

LEMMA PassConstants ==
    /\ Pass!Threads = {Cli} /\ Pass!Kinds = Kinds /\ Pass!PCs = PCs
    /\ Pass!Vpn = Vpn /\ Pass!Device = Device /\ Pass!Config = Config
    /\ Pass!Scope = Scope /\ Pass!Claim = Claim /\ Pass!Accept = Accept
  BY DEF Pass!Threads, Pass!Kinds, Kinds, Pass!PCs, PCs, Pass!Vpn, Vpn,
         Pass!Device, Device, Pass!Config, Config, Pass!Scope, Scope,
         Pass!Claim, Claim, Pass!Accept, Accept, Pass!Chains, Chains

\* What its Plan hands to the rest of it.
LEMMA PassAdditions ==
    ASSUME TypeOK, MemoryInv, NEW failed
    PROVE  Pass!Additions(Cli, failed) \subseteq Scope
<1>1. Pass!discover_scopes(failed) \in [Scopes -> Device]
  BY DEF TypeOK, Pass!discover_scopes, Device
<1>2. cseen[Cli] \in Vpn /\ cconfig \in Config
  BY DEF MemoryInv
<1>3. ASSUME NEW v, NEW cfg, NEW dev \in [Scopes -> Device],
             NEW ruled, NEW routed, NEW accepted,
             NEW c \in Pass!to_add(v, cfg, dev, ruled, routed, accepted)
      PROVE  c \in Scope
  <2>1. PICK s \in Scopes :
           c = Pass!Narrowed(s, v, cfg, dev) /\ dev[s] # NoDevice
    BY <1>3 DEF Pass!to_add, Pass!Owns, Pass!Claimants
  <2>2. Pass!keep(s, v, cfg) \subseteq Nets
    BY ScopeAssumption DEF Pass!keep
  <2>3. QED
    BY <2>1, <2>2 DEF Pass!Narrowed, Scope, Device
<1>4. QED
  BY <1>1, <1>2, <1>3 DEF Pass!Additions

LEMMA PassRemovals ==
    ASSUME TypeOK, NEW failed
    PROVE  Pass!Removals(Cli, failed) \subseteq Claim
<1>1. Pass!table_routes(failed) \in [Nets -> Device]
  BY DEF TypeOK, Pass!table_routes, Device
<1>2. QED
  BY <1>1 DEF Pass!Removals, Pass!to_remove, Claim, Device

\* What a command of any kind leaves well-formed of what it shares with the
\* daemon.
SharedOK ==
    /\ rules \in [Nets -> Nat] /\ routes \in [Nets -> Device]
    /\ accepts \subseteq Accept /\ spent \in [Kinds -> Nat]

LEMMA PassMemoryInv ==
    TypeOK /\ MemoryInv /\ Pass!PassStep(Cli) => MemoryInv' /\ SharedOK'
<1> SUFFICES ASSUME TypeOK, MemoryInv, Pass!PassStep(Cli)
             PROVE  MemoryInv' /\ SharedOK'
  OBVIOUS
<1> USE DEF MemoryInv, TypeOK, SharedOK, PCs, Kinds, Pass!Goto, Pass!Run,
            Pass!Spend, Pass!kernel, Pass!grants, Pass!work
<1>1. CASE Pass!Load(Cli)
  BY <1>1 DEF Pass!Load
<1>2. CASE Pass!Look(Cli)
  BY <1>2 DEF Pass!Look
<1>3. CASE Pass!Sync(Cli)
  BY <1>3 DEF Pass!Sync
<1>4. CASE Pass!Plan(Cli)
  <2> USE <1>4 DEF Pass!Plan
  <2>1. PICK failed \in SUBSET Pass!Readings :
           \/ /\ Pass!Goto(Cli, "idle")
              /\ UNCHANGED <<cadding, cdropping, cdesired>>
           \/ /\ Pass!Goto(Cli, "remove")
              /\ cadding' = [cadding EXCEPT ![Cli] = Pass!Additions(Cli, failed)]
              /\ cdropping' = [cdropping EXCEPT ![Cli] =
                                 Pass!Removals(Cli, failed)]
              /\ cdesired' = [cdesired EXCEPT ![Cli] =
                    Pass!desired_scopes(cseen[Cli], cconfig,
                                        Pass!discover_scopes(failed))]
    OBVIOUS
  <2>2. spent' \in [Kinds -> Nat]
    OBVIOUS
  <2>3. Pass!Additions(Cli, failed) \subseteq Scope
    BY PassAdditions
  <2>4. Pass!Removals(Cli, failed) \subseteq Claim
    BY PassRemovals
  <2>5. Pass!desired_scopes(cseen[Cli], cconfig, Pass!discover_scopes(failed))
           \subseteq Scopes
    BY DEF Pass!desired_scopes
  <2>6. /\ cadding' \in [{Cli} -> SUBSET Scope]
        /\ cdropping' \in [{Cli} -> SUBSET Claim]
        /\ cdesired' \in [{Cli} -> SUBSET Scopes]
    BY <2>1, <2>3, <2>4, <2>5
  <2>7. cpc' \in [{Cli} -> PCs] /\ cpc'[Cli] \in {"idle", "remove"}
    BY <2>1
  <2>8. cseen' \in [{Cli} -> Vpn]
    BY DEF Vpn
  <2>9. QED
    BY <2>2, <2>6, <2>7, <2>8
<1>5. CASE Pass!RemoveRule(Cli)
  BY <1>5 DEF Pass!RemoveRule, Claim
<1>6. CASE Pass!RemoveRoute(Cli)
  BY <1>6 DEF Pass!RemoveRoute, Claim, Device
<1>7. CASE Pass!Prune(Cli)
  BY <1>7 DEF Pass!Prune, Pass!Outlived
<1>8. CASE Pass!Unclaim(Cli)
  BY <1>8 DEF Pass!Unclaim
<1>9. CASE Pass!Gate(Cli)
  BY <1>9 DEF Pass!Gate, Scope
<1>10. CASE Pass!ClaimScope(Cli)
  BY <1>10 DEF Pass!ClaimScope, Scope, Pass!firewall_lines, Accept,
               Pass!Chains, Chains
<1>11. CASE Pass!ReplaceRoute(Cli)
  <2>1. cscope[Cli] \in Scope /\ cscope[Cli].device \in Device
    BY <1>11 DEF Pass!ReplaceRoute, Scope, Device
  <2>2. PICK n \in ctodo[Cli] :
           /\ cat' = [cat EXCEPT ![Cli] = n]
           /\ routes' \in {routes, [routes EXCEPT ![n] = cscope[Cli].device]}
    BY <1>11 DEF Pass!ReplaceRoute
  <2>3. n \in Nets /\ routes' \in [Nets -> Device]
    BY <2>1, <2>2
  <2>4. QED
    BY <1>11, <2>1, <2>2, <2>3 DEF Pass!ReplaceRoute
<1>12. CASE Pass!ClearRule(Cli)
  BY <1>12 DEF Pass!ClearRule
<1>13. CASE Pass!AddRule(Cli)
  BY <1>13 DEF Pass!AddRule
<1>14. CASE Pass!InsertAccept(Cli)
  BY <1>14 DEF Pass!InsertAccept
<1>15. CASE Pass!ScopeClaimed(Cli)
  BY <1>15 DEF Pass!ScopeClaimed
<1>16. CASE Pass!Publish(Cli)
  BY <1>16 DEF Pass!Publish
<1>17. QED
  BY <1>1, <1>2, <1>3, <1>4, <1>5, <1>6, <1>7, <1>8, <1>9, <1>10, <1>11,
     <1>12, <1>13, <1>14, <1>15, <1>16 DEF Pass!PassStep

----------------------------------------------------------------------------
(* The types, through every step.                                          *)

\* A step that leaves the daemon and the world alone keeps the daemon's part.
LEMMA DaemonKept ==
    ASSUME TypeInv, HandInv, UNCHANGED <<daemon, world>>, SharedOK',
           UNCHANGED <<widths, fresh>>, consented' \subseteq Scopes
    PROVE  TypeInv' /\ HandInv'
  BY DEF TypeInv, TypeOK, Claiming, HandInv, SharedOK, daemon, world, grants,
         work

LEMMA SharedNow == TypeInv => SharedOK
  BY DEF TypeInv, TypeOK, SharedOK

LEMMA GoneMemory == MemoryInv /\ Gone => MemoryInv'
  BY DEF MemoryInv, Gone, Blank, Own, Vpn, PCs

LEMMA GoneCommand == CommandInv /\ Gone /\ ran' \in 0..Commands
                        /\ alone' \in BOOLEAN => CommandInv'
  BY CliAssumption DEF CommandInv, Gone, Steps

\* What apply may pick from: scopes whose link is up.
LEMMA ApplyTargets ==
    ASSUME TypeInv, Apply
    PROVE  targets' \subseteq Scope /\ consented' \subseteq Scopes
<1>1. \A s \in Scopes : bridge[s] # NoDevice => bridge[s] \in Devices
  BY DEF TypeInv, TypeOK, Device
<1>2. \A s \in Scopes : Offered(s) \subseteq Nets
  BY ScopeAssumption DEF Offered
<1>3. targets' \subseteq Scope
  BY <1>1, <1>2 DEF Apply, Scope
<1>4. QED
  BY <1>3 DEF Apply, Scope, TypeInv, TypeOK

LEMMA CliStepInv == CliInv /\ CliStep => CliInv'
<1> SUFFICES ASSUME CliInv, CliStep PROVE CliInv'
  OBVIOUS
<1>a. TypeInv /\ HandInv /\ MemoryInv /\ CommandInv /\ SharedOK
  BY SharedNow DEF CliInv
<1>b. consented \subseteq Scopes
  BY <1>a DEF TypeInv, TypeOK
<1>c. ASSUME UNCHANGED <<daemon, world, history>>, SharedOK', MemoryInv',
             CommandInv'
      PROVE  CliInv'
  BY <1>a, <1>b, <1>c, DaemonKept DEF CliInv, history
<1>d. UNCHANGED <<kernel, spent>> => SharedOK'
  BY <1>a DEF SharedOK, kernel
<1>e. Spend("fault") => spent' \in [Kinds -> Nat]
  BY <1>a, SpendType DEF SharedOK, Kinds
<1>f. Begins => ran' \in 0..Commands /\ alone' \in BOOLEAN
  BY <1>a, CliAssumption DEF Begins, CommandInv
<1>1. CASE ReconcileOnce
  <2>1. MemoryInv'
    BY <1>a, <1>1 DEF ReconcileOnce, MemoryInv, memory, Own, PCs
  <2>2. CommandInv'
    BY <1>a, <1>1, <1>f DEF ReconcileOnce, CommandInv, progress, Steps
  <2>3. QED
    BY <1>1, <1>c, <1>d, <2>1, <2>2 DEF ReconcileOnce, vars, daemon
<1>2. CASE ReconcileStep
  <2>1. MemoryInv' /\ SharedOK'
    BY <1>a, <1>2, PassMemoryInv DEF ReconcileStep, TypeInv
  <2>2. CommandInv'
    BY <1>a, <1>2 DEF ReconcileStep, At, CommandInv, progress
  <2>3. QED
    BY <1>2, <1>c, <2>1, <2>2 DEF ReconcileStep, At
<1>3. CASE ReconcileEnds
  <2>1. CommandInv'
    BY <1>a, <1>3, GoneCommand DEF ReconcileEnds, At, CommandInv
  <2>2. QED
    BY <1>a, <1>3, <1>c, <1>d, <2>1, GoneMemory DEF ReconcileEnds, At
<1>4. CASE Apply
  <2>1. targets' \subseteq Scope /\ consented' \subseteq Scopes
    BY <1>a, <1>4, ApplyTargets
  <2>2. MemoryInv'
    BY <1>a, <1>4, <2>1 DEF Apply, MemoryInv, Blank, Own, Vpn, PCs
  <2>3. CommandInv'
    BY <1>a, <1>4, <1>f, <2>1 DEF Apply, CommandInv, Steps
  <2>4. SharedOK'
    BY <1>4, <1>d DEF Apply
  <2>5. TypeInv' /\ HandInv'
    BY <1>a, <1>4, <2>1, <2>4, DaemonKept DEF Apply
  <2>6. QED
    BY <2>2, <2>3, <2>5 DEF CliInv
<1>5. CASE ApplyScope
  <2>1. MemoryInv'
    BY <1>a, <1>5 DEF ApplyScope, MemoryInv, Own, PCs, Scope
  <2>2. CommandInv'
    BY <1>a, <1>5 DEF ApplyScope, At, CommandInv, progress
  <2>3. QED
    BY <1>5, <1>c, <1>d, <2>1, <2>2 DEF ApplyScope, At
<1>6. CASE ApplyStep
  <2>1. Pass!PassStep(Cli)
    BY <1>6 DEF ApplyStep, Pass!PassStep
  <2>2. MemoryInv' /\ SharedOK'
    BY <1>a, <2>1, PassMemoryInv DEF TypeInv
  <2>3. ok' \in BOOLEAN
    BY <1>a, <1>6 DEF ApplyStep, CommandInv
  <2>4. CommandInv'
    BY <1>a, <1>6, <2>3 DEF ApplyStep, At, CommandInv
  <2>5. QED
    BY <1>6, <1>c, <2>2, <2>4 DEF ApplyStep, At
<1>7. CASE SecondLayer
  <2>1. clines' \in [{Cli} -> SUBSET Accept]
    <3>1. PICK failing \in SUBSET targets :
             clines' = Own(UNION {Pass!firewall_lines(c) : c \in failing})
      BY <1>7 DEF SecondLayer
    <3>2. \A c \in Scope : Pass!firewall_lines(c) \subseteq Accept
      BY DEF Scope, Accept, Pass!firewall_lines, Pass!Chains, Chains
    <3>3. failing \subseteq Scope
      BY <1>a, <3>1 DEF CommandInv
    <3>4. UNION {Pass!firewall_lines(c) : c \in failing} \subseteq Accept
      BY <3>2, <3>3
    <3>5. QED
      BY <3>1, <3>4 DEF Own
  <2>2. MemoryInv'
    BY <1>a, <1>7, <2>1 DEF SecondLayer, MemoryInv, Own, PCs
  <2>3. CommandInv'
    BY <1>a, <1>7 DEF SecondLayer, At, CommandInv, Steps
  <2>4. QED
    BY <1>7, <1>c, <1>d, <2>2, <2>3 DEF SecondLayer, At
<1>8. CASE FirewallStep
  <2>1. CASE Pass!InsertAccept(Cli) /\ UNCHANGED <<command, progress>>
    <3>1. MemoryInv' /\ SharedOK'
      BY <1>a, <2>1, PassMemoryInv DEF TypeInv, Pass!PassStep
    <3>2. CommandInv'
      BY <1>a, <1>8, <2>1 DEF FirewallStep, At, CommandInv, progress
    <3>3. QED
      BY <1>8, <1>c, <3>1, <3>2 DEF FirewallStep, At
  <2>2. CASE Gone /\ UNCHANGED <<kernel, spent>>
    <3>1. CommandInv'
      BY <1>a, <1>8, <2>2, GoneCommand DEF FirewallStep, At, CommandInv
    <3>2. QED
      BY <1>a, <1>8, <1>c, <1>d, <2>2, <3>1, GoneMemory DEF FirewallStep, At
  <2>3. QED
    BY <1>8, <2>1, <2>2 DEF FirewallStep
<1>9. CASE Revert
  <2>1. MemoryInv'
    BY <1>a, <1>9 DEF Revert, MemoryInv, memory
  <2>2. CommandInv'
    BY <1>a, <1>9, <1>f DEF Revert, CommandInv, Steps
  <2>3. QED
    BY <1>9, <1>c, <1>d, <2>1, <2>2 DEF Revert, vars, daemon
<1>10. CASE RevertBlind
  <2>1. MemoryInv' /\ SharedOK'
    BY <1>a, <1>10, <1>e DEF RevertBlind, MemoryInv, memory, SharedOK, kernel
  <2>2. CommandInv'
    BY <1>a, <1>10, <1>f DEF RevertBlind, CommandInv, progress
  <2>3. QED
    BY <1>10, <1>c, <2>1, <2>2 DEF RevertBlind
<1>11. CASE FlushTable
  <2>1. MemoryInv'
    BY <1>a, <1>11 DEF FlushTable, MemoryInv, memory
  <2>2. SharedOK'
    BY <1>a, <1>11, <1>e DEF FlushTable, Run, SharedOK, Device
  <2>3. CommandInv'
    BY <1>a, <1>11 DEF FlushTable, At, CommandInv, Steps
  <2>4. QED
    BY <1>11, <1>c, <2>1, <2>2, <2>3 DEF FlushTable, At
<1>12. CASE DeleteRule
  <2>1. MemoryInv'
    BY <1>a, <1>12 DEF DeleteRule, MemoryInv, memory
  <2>2. SharedOK'
    BY <1>a, <1>12, <1>e DEF DeleteRule, SharedOK
  <2>3. CommandInv'
    <3>1. rounds' \in 0..RevertRounds
      BY <1>a, <1>12, CliAssumption DEF DeleteRule, CommandInv
    <3>2. command' \in Steps /\ ok' \in BOOLEAN
      BY <1>a, <1>12 DEF DeleteRule, At, CommandInv, Steps, AfterRules
    <3>3. QED
      BY <1>a, <1>12, <3>1, <3>2 DEF DeleteRule, At, CommandInv
  <2>4. QED
    BY <1>12, <1>c, <2>1, <2>2, <2>3 DEF DeleteRule, At
<1>13. CASE RulesDeleted
  <2>1. MemoryInv'
    BY <1>a, <1>13 DEF RulesDeleted, MemoryInv, memory
  <2>2. SharedOK'
    BY <1>a, <1>13, <1>e DEF RulesDeleted, SharedOK, kernel
  <2>3. CommandInv'
    BY <1>a, <1>13 DEF RulesDeleted, At, CommandInv, Steps, AfterRules, progress
  <2>4. QED
    BY <1>13, <1>c, <2>1, <2>2, <2>3 DEF RulesDeleted, At
<1>14. CASE ListAccepts
  <2>1. MemoryInv'
    BY <1>a, <1>14 DEF ListAccepts, MemoryInv, Own, SharedOK
  <2>2. CommandInv'
    BY <1>a, <1>14 DEF ListAccepts, At, CommandInv, Steps, progress
  <2>3. QED
    BY <1>14, <1>c, <1>d, <2>1, <2>2 DEF ListAccepts, At
<1>15. CASE DeleteAccept
  <2>1. MemoryInv'
    BY <1>a, <1>15 DEF DeleteAccept, MemoryInv, Own
  <2>2. SharedOK'
    BY <1>a, <1>15, <1>e DEF DeleteAccept, Run, SharedOK
  <2>3. ok' \in BOOLEAN
    BY <1>a, <1>15 DEF DeleteAccept, CommandInv
  <2>4. CommandInv'
    BY <1>a, <1>15, <2>3 DEF DeleteAccept, At, CommandInv
  <2>5. QED
    BY <1>15, <1>c, <2>1, <2>2, <2>4 DEF DeleteAccept, At
<1>16. CASE RevertEnds
  <2>1. CommandInv'
    BY <1>a, <1>16, GoneCommand DEF RevertEnds, At, CommandInv
  <2>2. QED
    BY <1>a, <1>16, <1>c, <1>d, <2>1, GoneMemory DEF RevertEnds, At
<1>17. CASE Dies
  <2>1. CommandInv'
    BY <1>a, <1>17, GoneCommand DEF Dies, CommandInv
  <2>2. SharedOK'
    BY <1>a, <1>17, <1>e DEF Dies, SharedOK, kernel
  <2>3. QED
    BY <1>a, <1>17, <1>c, <2>1, <2>2, GoneMemory DEF Dies
<1>18. QED
  BY <1>1, <1>2, <1>3, <1>4, <1>5, <1>6, <1>7, <1>8, <1>9, <1>10, <1>11,
     <1>12, <1>13, <1>14, <1>15, <1>16, <1>17 DEF CliStep

LEMMA NextCliInv == CliInv /\ [CliNext]_all => CliInv'
<1>1. ASSUME CliInv, OtherStep(Next) PROVE CliInv'
  <2>1. TypeInv' /\ HandInv'
    BY <1>1, NextTypeInv, NextHandInv DEF CliInv, OtherStep
  <2>2. MemoryInv' /\ CommandInv'
    BY <1>1 DEF CliInv, OtherStep, MemoryInv, CommandInv, memory, progress
  <2>3. QED
    BY <2>1, <2>2 DEF CliInv
<1>2. ASSUME CliInv, UNCHANGED all PROVE CliInv'
  <2>1. TypeInv' /\ HandInv'
    BY <1>2, NextTypeInv, NextHandInv DEF CliInv, all
  <2>2. MemoryInv' /\ CommandInv'
    BY <1>2
    DEF CliInv, all, cli, MemoryInv, CommandInv, memory, progress
  <2>3. QED
    BY <2>1, <2>2 DEF CliInv
<1>3. QED
  BY <1>1, <1>2, CliStepInv DEF CliNext

LEMMA InitCliInv == CliInit => CliInv
<1> SUFFICES ASSUME CliInit PROVE CliInv
  OBVIOUS
<1>1. TypeInv
  BY InitTypeInv DEF CliInit
<1>2. HandInv
  BY DEF CliInit, Init, HandInv
<1>3. MemoryInv
  BY <1>1 DEF CliInit, MemoryInv, TypeInv, TypeOK, Own, Vpn, PCs
<1>4. CommandInv
  <2>1. 0 \in 0..RevertRounds /\ 0 \in 0..Commands
    BY CliAssumption
  <2>2. QED
    BY <2>1, Zenon DEF CliInit, CommandInv, Steps
<1>5. QED
  BY <1>1, <1>2, <1>3, <1>4 DEF CliInv

LEMMA CliInvHolds == CliSpec => []CliInv
  BY InitCliInv, NextCliInv, PTL DEF CliSpec

\* A process that shares the kernel and the config file with the daemon, and
\* nothing else, leaves all of it well-formed: every variable of both keeps its
\* type, for any scopes, networks, handlers and bounds.
THEOREM CliTypeCorrect == CliSpec => []CliTypeOK
<1>1. CliInv => CliTypeOK
  <2> SUFFICES ASSUME CliInv PROVE CliTypeOK
    OBVIOUS
  <2>1. Pass!TypeOK
    BY PassConstants
    DEF CliInv, TypeInv, TypeOK, MemoryInv, Pass!TypeOK
  <2>2. QED
    BY <2>1 DEF CliInv, TypeInv, CommandInv, CliTypeOK
<1>2. QED
  BY <1>1, CliInvHolds, PTL

----------------------------------------------------------------------------
(* The copies of a rule.  The process of the command is one more of those  *)
(* that may be between clearing a rule and adding it.                      *)

Everyone == Threads \cup {Cli}

\* Those who are elsewhere make no difference to what a step counts.
LEMMA CountsBeside ==
    ASSUME NEW E, NEW A \in SUBSET E, NEW A2 \in SUBSET E,
           NEW B, B \cap E = {},
           NEW r, NEW r2, NEW f, NEW f2, Counts(r, r2, A, A2, f, f2)
    PROVE  /\ Counts(r, r2, A \cup B, A2 \cup B, f, f2)
           /\ Counts(r, r2, B \cup A, B \cup A2, f, f2)
<1>1. CASE r2 <= r /\ A2 \subseteq A
  BY <1>1 DEF Counts
<1>2. ASSUME NEW t, t \notin A, A2 = A \cup {t},
             r2 = 0 \/ r2 = r - 1 \/ (r2 = r /\ f2 = f + 1)
      PROVE  Counts(r, r2, A \cup B, A2 \cup B, f, f2)
  <2>1. t \notin A \cup B /\ A2 \cup B = (A \cup B) \cup {t}
    BY <1>2
  <2>2. QED
    BY <1>2, <2>1 DEF Counts
<1>3. ASSUME NEW t \in A, A2 = A \ {t}, r2 \in {r, r + 1}
      PROVE  Counts(r, r2, A \cup B, A2 \cup B, f, f2)
  <2>1. t \in A \cup B /\ A2 \cup B = (A \cup B) \ {t}
    BY <1>3
  <2>2. QED
    BY <1>3, <2>1 DEF Counts
<1>4. Counts(r, r2, A \cup B, A2 \cup B, f, f2)
  BY <1>1, <1>2, <1>3 DEF Counts
<1>5. A \cup B = B \cup A /\ A2 \cup B = B \cup A2
  OBVIOUS
<1>6. QED
  BY <1>4, <1>5

\* What a step of the pass does to the copies of a rule.
LEMMA PassCounts ==
    ASSUME TypeOK, MemoryInv, Pass!PassStep(Cli), NEW n \in Nets
    PROVE  Counts(rules[n], rules'[n], Pass!Adders(n), Pass!Adders(n)',
                  spent["fault"], spent'["fault"])
<1>1. /\ rules \in [Nets -> Nat] /\ spent \in [Kinds -> Nat]
      /\ cpc \in [{Cli} -> PCs] /\ cat \in [{Cli} -> Nets \cup {NoNet}]
      /\ n # NoNet /\ "fault" \in Kinds
  BY NoneAssumption DEF TypeOK, MemoryInv, Kinds
<1>2. Pass!Adders(n) = IF cpc[Cli] = "rule" /\ cat[Cli] = n THEN {Cli} ELSE {}
  BY PassConstants DEF Pass!Adders
<1>3. Pass!Adders(n)' =
         IF cpc'[Cli] = "rule" /\ cat'[Cli] = n THEN {Cli} ELSE {}
  BY PassConstants DEF Pass!Adders
<1>4. UNCHANGED spent \/ Pass!Spend("fault")
  BY DEF Pass!PassStep, Pass!Load, Pass!Look, Pass!Sync, Pass!Plan,
         Pass!RemoveRule, Pass!RemoveRoute, Pass!Prune, Pass!Unclaim,
         Pass!Gate, Pass!ClaimScope, Pass!ReplaceRoute, Pass!ClearRule,
         Pass!AddRule, Pass!InsertAccept, Pass!ScopeClaimed, Pass!Publish,
         Pass!Run
<1>5. Pass!Spend("fault") => spent'["fault"] = spent["fault"] + 1
  BY <1>1 DEF Pass!Spend
<1>6. spent["fault"] <= spent'["fault"]
  BY <1>1, <1>4, <1>5
<1>7. CASE Pass!ClearRule(Cli)
  <2>1. /\ cat' = cat /\ cat[Cli] \in Nets
        /\ cpc'[Cli] = "rule" /\ cpc[Cli] = "unrule"
    BY <1>1, <1>7 DEF Pass!ClearRule, Pass!Goto, Pass!work, MemoryInv
  <2>2. CASE n # cat[Cli]
    <3>1. rules'[n] = rules[n]
      BY <1>1, <1>7, <2>1, <2>2 DEF Pass!ClearRule, Pass!Run
    <3>2. QED
      BY <1>1, <1>2, <1>3, <1>6, <2>1, <2>2, <3>1 DEF Counts
  <2>3. CASE n = cat[Cli]
    <3>1. \/ rules'[n] = 0
          \/ rules'[n] = rules[n] - 1
          \/ rules'[n] = rules[n] /\ spent'["fault"] = spent["fault"] + 1
      BY <1>1, <1>5, <1>7, <2>3 DEF Pass!ClearRule, Pass!Run
    <3>2. Pass!Adders(n) = {} /\ Pass!Adders(n)' = {} \cup {Cli}
      BY <1>2, <1>3, <2>1, <2>3
    <3>3. QED
      BY <1>6, <3>1, <3>2 DEF Counts
  <2>4. QED
    BY <2>2, <2>3
<1>8. CASE Pass!AddRule(Cli)
  <2>1. cpc[Cli] = "rule" /\ cpc'[Cli] # "rule"
    BY <1>1, <1>8 DEF Pass!AddRule, Pass!Goto
  <2>2. CASE n # cat[Cli]
    <3>1. rules'[n] = rules[n]
      BY <1>1, <1>8, <2>2 DEF Pass!AddRule, Pass!Run
    <3>2. QED
      BY <1>1, <1>2, <1>3, <1>6, <2>1, <2>2, <3>1 DEF Counts
  <2>3. CASE n = cat[Cli]
    <3>1. rules'[n] \in {rules[n], rules[n] + 1}
      BY <1>1, <1>8, <2>3 DEF Pass!AddRule, Pass!Run
    <3>2. Pass!Adders(n) = {Cli} /\ Pass!Adders(n)' = {Cli} \ {Cli}
      BY <1>2, <1>3, <2>1, <2>3
    <3>3. QED
      BY <1>6, <3>1, <3>2 DEF Counts
  <2>4. QED
    BY <2>2, <2>3
<1>9. ASSUME ~Pass!ClearRule(Cli), ~Pass!AddRule(Cli)
      PROVE  Counts(rules[n], rules'[n], Pass!Adders(n), Pass!Adders(n)',
                    spent["fault"], spent'["fault"])
  <2>1. rules'[n] <= rules[n]
    BY <1>1, <1>9
    DEF Pass!PassStep, Pass!Load, Pass!Look, Pass!Sync, Pass!Plan,
        Pass!RemoveRule, Pass!RemoveRoute, Pass!Prune, Pass!Unclaim,
        Pass!Gate, Pass!ClaimScope, Pass!ReplaceRoute, Pass!InsertAccept,
        Pass!ScopeClaimed, Pass!Publish, Pass!Run, Pass!kernel
  <2>2. cpc'[Cli] # "rule"
    BY <1>1, <1>9
    DEF Pass!PassStep, Pass!Load, Pass!Look, Pass!Sync, Pass!Plan,
        Pass!RemoveRule, Pass!RemoveRoute, Pass!Prune, Pass!Unclaim,
        Pass!Gate, Pass!ClaimScope, Pass!ReplaceRoute, Pass!InsertAccept,
        Pass!ScopeClaimed, Pass!Publish, Pass!Goto
  <2>3. QED
    BY <1>3, <1>6, <2>1, <2>2 DEF Counts
<1>10. QED
  BY <1>7, <1>8, <1>9

\* No other step of a command adds a rule, or comes to add one.
LEMMA OtherCliSteps ==
    ASSUME CliInv, CliStep, ~Pass!PassStep(Cli), NEW n \in Nets
    PROVE  /\ rules'[n] <= rules[n]
           /\ cpc'[Cli] # "rule" \/ UNCHANGED <<cpc, cat>>
<1>1. rules \in [Nets -> Nat]
  BY DEF CliInv, TypeInv, TypeOK
<1> USE DEF kernel, vars, memory, Own, Gone
<1>2. CASE ReconcileOnce \/ ReconcileEnds \/ Apply \/ ApplyScope
  BY <1>1, <1>2 DEF ReconcileOnce, ReconcileEnds, Apply, ApplyScope
<1>3. CASE SecondLayer \/ FirewallStep
  BY <1>1, <1>3 DEF SecondLayer, FirewallStep, Pass!PassStep
<1>4. CASE Revert \/ RevertBlind \/ FlushTable \/ RulesDeleted
  BY <1>1, <1>4 DEF Revert, RevertBlind, FlushTable, RulesDeleted
<1>5. CASE DeleteRule
  BY <1>1, <1>5 DEF DeleteRule
<1>6. CASE ListAccepts \/ DeleteAccept \/ RevertEnds \/ Dies
  BY <1>1, <1>6 DEF ListAccepts, DeleteAccept, RevertEnds, Dies
<1>7. ~ReconcileStep /\ ~ApplyStep
  BY DEF ReconcileStep, ApplyStep, Pass!PassStep
<1>8. QED
  BY <1>2, <1>3, <1>4, <1>5, <1>6, <1>7 DEF CliStep

\* A step spends at most one of the events its kind allows.
LEMMA CliSpends ==
    ASSUME CliInv, CliStep
    PROVE  UNCHANGED spent \/ Spend("fault")
<1>1. ASSUME Pass!PassStep(Cli) PROVE UNCHANGED spent \/ Spend("fault")
  BY <1>1
  DEF Pass!PassStep, Pass!Load, Pass!Look, Pass!Sync, Pass!Plan,
      Pass!RemoveRule, Pass!RemoveRoute, Pass!Prune, Pass!Unclaim,
      Pass!Gate, Pass!ClaimScope, Pass!ReplaceRoute, Pass!ClearRule,
      Pass!AddRule, Pass!InsertAccept, Pass!ScopeClaimed, Pass!Publish,
      Pass!Run, Pass!Spend, Spend
<1>2. CASE ReconcileStep \/ ApplyStep \/ FirewallStep
  BY <1>1, <1>2 DEF ReconcileStep, ApplyStep, FirewallStep, Pass!PassStep
<1>3. CASE ReconcileOnce \/ ReconcileEnds \/ Apply \/ ApplyScope \/ SecondLayer
  BY <1>3 DEF ReconcileOnce, ReconcileEnds, Apply, ApplyScope, SecondLayer, vars
<1>4. CASE Revert \/ RevertBlind \/ FlushTable \/ DeleteRule \/ RulesDeleted
  BY <1>4 DEF Revert, RevertBlind, FlushTable, DeleteRule, RulesDeleted, Run,
              vars
<1>5. CASE ListAccepts \/ DeleteAccept \/ RevertEnds \/ Dies
  BY <1>5 DEF ListAccepts, DeleteAccept, RevertEnds, Dies, Run
<1>6. QED
  BY <1>2, <1>3, <1>4, <1>5 DEF CliStep

Workers(n) == Adders(n) \cup Pass!Adders(n)

\* What any step, of the daemon's or of the command's, does to the copies.
LEMMA CliCounts ==
    ASSUME CliInv, [CliNext]_all, NEW n \in Nets
    PROVE  Counts(rules[n], rules'[n], Workers(n), Workers(n)',
                  spent["fault"], spent'["fault"])
<1>1. /\ Adders(n) \in SUBSET Threads /\ Adders(n)' \in SUBSET Threads
      /\ Pass!Adders(n) \in SUBSET {Cli} /\ Pass!Adders(n)' \in SUBSET {Cli}
  BY PassConstants DEF Adders, Pass!Adders
<1>2. Threads \cap {Cli} = {}
  BY CliAssumption
<1>3. TypeInv /\ HandInv /\ MemoryInv /\ TypeOK
  BY DEF CliInv, TypeInv
<1>4. ASSUME [Next]_vars, UNCHANGED <<cpc, cat>>
      PROVE  Counts(rules[n], rules'[n], Workers(n), Workers(n)',
                    spent["fault"], spent'["fault"])
  <2>1. Counts(rules[n], rules'[n], Adders(n), Adders(n)',
               spent["fault"], spent'["fault"])
    BY <1>3, <1>4, NextCounts
  <2>2. Pass!Adders(n)' = Pass!Adders(n)
    BY <1>4 DEF Pass!Adders
  <2>3. Pass!Adders(n) \cap Threads = {}
    BY <1>1, <1>2
  <2>4. QED
    BY <1>1, <2>1, <2>2, <2>3, CountsBeside DEF Workers
<1>5. ASSUME CliStep
      PROVE  Counts(rules[n], rules'[n], Workers(n), Workers(n)',
                    spent["fault"], spent'["fault"])
  <2>1. Adders(n)' = Adders(n)
    BY <1>5
    DEF CliStep, ReconcileOnce, ReconcileStep, ReconcileEnds, Apply,
        ApplyScope, ApplyStep, SecondLayer, FirewallStep, Revert, RevertBlind,
        FlushTable, DeleteRule, RulesDeleted, ListAccepts, DeleteAccept,
        RevertEnds, Dies, At, vars, daemon, work, Adders
  <2>2. Counts(rules[n], rules'[n], Pass!Adders(n), Pass!Adders(n)',
               spent["fault"], spent'["fault"])
    <3>1. CASE Pass!PassStep(Cli)
      BY <1>3, <3>1, PassCounts
    <3>2. CASE ~Pass!PassStep(Cli)
      <4>1. rules'[n] <= rules[n]
        BY <1>5, <3>2, OtherCliSteps
      <4>2. Pass!Adders(n)' \subseteq Pass!Adders(n)
        BY <1>1, <1>5, <3>2, OtherCliSteps DEF Pass!Adders
      <4>3. spent["fault"] <= spent'["fault"]
        BY <1>3, <1>5, CliSpends DEF Spend, TypeOK, Kinds
      <4>4. QED
        BY <4>1, <4>2, <4>3 DEF Counts
    <3>3. QED
      BY <3>1, <3>2
  <2>3. Adders(n) \cap {Cli} = {}
    BY <1>1, <1>2
  <2>4. QED
    BY <1>1, <2>1, <2>2, <2>3, CountsBeside DEF Workers
<1>6. QED
  BY <1>4, <1>5 DEF CliNext, OtherStep, all, cli, memory

CliCopiesInv == IsFiniteSet(Handlers) /\ CopiesBounded

LEMMA EveryoneCounted ==
    ASSUME IsFiniteSet(Handlers)
    PROVE  /\ IsFiniteSet(Everyone)
           /\ Cardinality(Everyone) = Cardinality(Threads) + 1
           /\ Cardinality(Threads) \in Nat
<1>1. IsFiniteSet(Threads)
  BY FS_AddElement DEF Threads
<1>2. QED
  BY <1>1, CliAssumption, FS_AddElement, FS_CardinalityType DEF Everyone

LEMMA NextCliCopies == CliInv /\ CliCopiesInv /\ [CliNext]_all => CliCopiesInv'
<1> SUFFICES ASSUME CliInv, CliCopiesInv, [CliNext]_all PROVE CliCopiesInv'
  OBVIOUS
<1>1. CliInv'
  BY NextCliInv
<1>2. ASSUME NEW n \in Nets
      PROVE  rules'[n] + Cardinality(Workers(n)')
                <= Cardinality(Threads) + 1 + spent'["fault"]
  <2>1. /\ rules[n] \in Nat /\ rules'[n] \in Nat
        /\ spent["fault"] \in Nat /\ spent'["fault"] \in Nat
    BY <1>1 DEF CliInv, TypeInv, TypeOK, Kinds
  <2>2. Workers(n) \in SUBSET Everyone /\ Workers(n)' \in SUBSET Everyone
    BY PassConstants DEF Workers, Everyone, Adders, Pass!Adders
  <2>3. Counts(rules[n], rules'[n], Workers(n), Workers(n)',
               spent["fault"], spent'["fault"])
    BY CliCounts
  <2>4. rules[n] + Cardinality(Workers(n))
           <= Cardinality(Everyone) + spent["fault"]
    BY EveryoneCounted DEF CliCopiesInv, CopiesBounded, Workers
  <2>5. rules'[n] + Cardinality(Workers(n)')
           <= Cardinality(Everyone) + spent'["fault"]
    BY <2>1, <2>2, <2>3, <2>4, EveryoneCounted, CountKept DEF CliCopiesInv
  <2>6. QED
    BY <2>5, EveryoneCounted DEF CliCopiesInv
<1>3. QED
  BY <1>2 DEF CliCopiesInv, CopiesBounded, Workers

LEMMA InitCliCopies == IsFiniteSet(Handlers) /\ CliInit => CliCopiesInv
<1> SUFFICES ASSUME IsFiniteSet(Handlers), CliInit, NEW n \in Nets
             PROVE  rules[n] + Cardinality(Workers(n))
                       <= Cardinality(Threads) + 1 + spent["fault"]
  BY DEF CliCopiesInv, CopiesBounded, Workers
<1>1. rules[n] = 0 /\ spent["fault"] = 0 /\ Workers(n) = {}
  BY PassConstants
  DEF CliInit, Init, Workers, Adders, Pass!Adders, Own, Kinds
<1>2. QED
  BY <1>1, EveryoneCounted, FS_EmptySet

\* However the passes of the daemon and the commands interleave, fail or die,
\* a network has no more copies of its rule than there are processes, but for
\* the commands that failed (CopiesBounded): repeating apply beside the daemon
\* does not pile them up.
THEOREM CopiesStayBounded ==
    IsFiniteSet(Handlers) /\ CliSpec => []CopiesBounded
<1>1. CliCopiesInv => CopiesBounded
  BY DEF CliCopiesInv
<1>2. QED
  BY <1>1, InitCliCopies, NextCliCopies, InitCliInv, NextCliInv, PTL DEF CliSpec

----------------------------------------------------------------------------
(* A revert.  It deletes one copy of one rule at a time and stops after so *)
(* many rounds, saying nothing: that these are enough is an assumption of  *)
(* the theorem, and the copies there can be are the bound just proved.     *)

CopyBound == Cardinality(Threads) + 1 + Limit["fault"]

EnoughRounds ==
    /\ IsFiniteSet(Nets) /\ IsFiniteSet(Handlers)
    /\ Cardinality(Nets) * CopyBound <= RevertRounds

\* Every copy of every rule.
Copies == {p \in Nets \X (1..CopyBound) : p[2] <= rules[p[1]]}

\* How far a revert is: what is behind it stays empty as long as nobody else
\* writes and nothing of its own failed, and what is ahead fits in its rounds.
RevertInv ==
    /\ command \notin {"table", "rules", "list", "accepts"} => layers = {}
    /\ command \notin {"rules", "list", "accepts"} => rounds = 0
    /\ command \in {"table", "rules"} => 1 \in layers
    /\ command = "rules" /\ ok /\ alone =>
          /\ \A n \in Nets : routes[n] = NoDevice
          /\ rounds + Cardinality(Copies) <= Cardinality(Nets) * CopyBound
    /\ command \in {"list", "accepts"} /\ ok /\ alone /\ 1 \in layers =>
          \A n \in Nets : ~Claimed(n)
    /\ command = "accepts" /\ ok /\ alone /\ 2 \in layers =>
          accepts \subseteq clines[Cli]

ClearInv ==
    /\ EnoughRounds
    /\ CliInv
    /\ CopiesBounded
    /\ spent["fault"] <= Limit["fault"]
    /\ RevertInv

LEMMA BoundIsNat ==
    ASSUME EnoughRounds
    PROVE  /\ CopyBound \in Nat \ {0}
           /\ Cardinality(Nets) \in Nat
           /\ Cardinality(Nets) * CopyBound \in Nat
<1>1. Cardinality(Threads) \in Nat
  BY EveryoneCounted DEF EnoughRounds
<1>2. Limit["fault"] \in Nat
  BY WorldAssumption DEF Kinds
<1>3. Cardinality(Nets) \in Nat
  BY FS_CardinalityType DEF EnoughRounds
<1>4. CopyBound \in Nat \ {0}
  BY <1>1, <1>2 DEF CopyBound
<1>5. QED
  BY <1>3, <1>4

\* There are finitely many, and no rule has more than CopyBound.
LEMMA CopiesCounted ==
    ASSUME ClearInv
    PROVE  /\ \A n \in Nets : rules[n] <= CopyBound
           /\ IsFiniteSet(Copies)
           /\ Cardinality(Copies) \in Nat
           /\ Cardinality(Copies) <= Cardinality(Nets) * CopyBound
<1>1. ASSUME NEW n \in Nets PROVE rules[n] <= CopyBound
  <2>1. /\ rules[n] \in Nat /\ spent["fault"] \in Nat
        /\ Limit["fault"] \in Nat /\ spent["fault"] <= Limit["fault"]
    BY WorldAssumption DEF ClearInv, CliInv, TypeInv, TypeOK, Kinds
  <2>2. IsFiniteSet(Everyone) /\ Cardinality(Threads) \in Nat
    BY EveryoneCounted DEF ClearInv, EnoughRounds
  <2>3. Workers(n) \in SUBSET Everyone
    BY PassConstants DEF Workers, Everyone, Adders, Pass!Adders
  <2>4. Cardinality(Workers(n)) \in Nat
    BY <2>2, <2>3, FS_Subset, FS_CardinalityType
  <2>5. rules[n] + Cardinality(Workers(n))
           <= Cardinality(Threads) + 1 + spent["fault"]
    BY DEF ClearInv, CopiesBounded, Workers
  <2>6. QED
    BY <2>1, <2>2, <2>4, <2>5 DEF CopyBound
<1>2. CopyBound \in Nat
  BY BoundIsNat DEF ClearInv
<1>3. IsFiniteSet(1..CopyBound) /\ Cardinality(1..CopyBound) = CopyBound
  BY <1>2, FS_Interval
<1>4. /\ IsFiniteSet(Nets \X (1..CopyBound))
      /\ Cardinality(Nets \X (1..CopyBound)) = Cardinality(Nets) * CopyBound
  BY <1>3, FS_Product DEF ClearInv, EnoughRounds
<1>5. Copies \in SUBSET (Nets \X (1..CopyBound))
  BY DEF Copies
<1>6. QED
  BY <1>1, <1>4, <1>5, FS_Subset, FS_CardinalityType

\* No copy is left when they are counted to none.
LEMMA NoneCounted ==
    ASSUME ClearInv, Cardinality(Copies) = 0, NEW n \in Nets
    PROVE  rules[n] = 0
<1>1. Copies = {}
  BY CopiesCounted, FS_EmptySet
<1>2. CopyBound \in Nat \ {0} /\ rules[n] \in Nat
  BY BoundIsNat DEF ClearInv, CliInv, TypeInv, TypeOK
<1>3. rules[n] > 0 => <<n, 1>> \in Copies
  BY <1>2 DEF Copies
<1>4. QED
  BY <1>1, <1>2, <1>3

\* A deletion takes one of them.
LEMMA OneDeleted ==
    ASSUME ClearInv, NEW n \in Nets, rules[n] > 0,
           rules' = [rules EXCEPT ![n] = @ - 1]
    PROVE  Cardinality(Copies') = Cardinality(Copies) - 1
<1>1. /\ rules \in [Nets -> Nat] /\ CopyBound \in Nat
      /\ rules[n] <= CopyBound
  BY CopiesCounted, BoundIsNat DEF ClearInv, CliInv, TypeInv, TypeOK
<1>2. <<n, rules[n]>> \in Copies
  BY <1>1 DEF Copies
<1>3. Copies' = Copies \ {<<n, rules[n]>>}
  <2>1. ASSUME NEW p \in Nets \X (1..CopyBound)
        PROVE  p[2] <= rules'[p[1]]
                  <=> p[2] <= rules[p[1]] /\ p # <<n, rules[n]>>
    <3>1. PICK m \in Nets, i \in 1..CopyBound : p = <<m, i>>
      OBVIOUS
    <3>2. p[1] = m /\ p[2] = i /\ (p = <<n, rules[n]>> <=> m = n /\ i = rules[n])
      BY <3>1
    <3>3. CASE m = n
      BY <1>1, <3>1, <3>2, <3>3
    <3>4. CASE m # n
      BY <1>1, <3>1, <3>2, <3>4
    <3>5. QED
      BY <3>3, <3>4
  <2>2. Copies' = {p \in Nets \X (1..CopyBound) : p[2] <= rules'[p[1]]}
    BY DEF Copies, CopyBound, Threads
  <2>3. QED
    BY <2>1, <2>2, Zenon DEF Copies
<1>4. QED
  BY <1>2, <1>3, CopiesCounted, FS_RemoveElement

\* While a revert works, what others do leaves it alone or is noticed.
LEMMA OthersRevertInv ==
    ASSUME ClearInv, UNCHANGED <<command, progress, memory>>,
           alone' => alone /\ UNCHANGED kernel
    PROVE  RevertInv'
<1>1. alone' => alone /\ rules' = rules /\ routes' = routes /\ accepts' = accepts
  BY DEF kernel
<1>2. rules' = rules => Copies' = Copies
  BY DEF Copies, CopyBound, Threads
<1>3. QED
  BY <1>1, <1>2 DEF ClearInv, RevertInv, Claimed, progress, memory

\* Outside a revert there is nothing to it.
LEMMA NoRevert ==
    ASSUME RevertInv, command' \in {"none", "reconcile", "apply", "firewall"},
           \/ layers' = {} /\ rounds' = 0
           \/ /\ UNCHANGED <<layers, rounds>>
              /\ command \in {"none", "reconcile", "apply", "firewall"}
    PROVE  RevertInv'
  BY DEF RevertInv

\* What failed was an event.
LEMMA FaultIsSeen ==
    ASSUME TypeInv, Spend("fault")
    PROVE  spent' # spent
  BY DEF TypeInv, TypeOK, Spend, Kinds

LEMMA CliStepRevertInv == ClearInv /\ CliStep => RevertInv'
<1> SUFFICES ASSUME ClearInv, CliStep PROVE RevertInv'
  OBVIOUS
<1>a. RevertInv /\ TypeInv /\ rules \in [Nets -> Nat]
  BY DEF ClearInv, CliInv, TypeInv, TypeOK
<1>1. CASE ReconcileOnce \/ ReconcileStep \/ ReconcileEnds
  BY <1>a, <1>1, NoRevert
  DEF ReconcileOnce, ReconcileStep, ReconcileEnds, Begins, At, Gone, progress
<1>2. CASE Apply \/ ApplyScope \/ ApplyStep
  BY <1>a, <1>2, NoRevert
  DEF Apply, ApplyScope, ApplyStep, Begins, At, progress
<1>3. CASE SecondLayer \/ FirewallStep
  BY <1>a, <1>3, NoRevert DEF SecondLayer, FirewallStep, At, Gone, progress
<1>4. CASE RevertBlind \/ RevertEnds \/ Dies
  BY <1>a, <1>4, NoRevert
  DEF RevertBlind, RevertEnds, Dies, Begins, Gone, progress
<1>5. CASE Revert
  <2>1. /\ command = "none" /\ rounds' = rounds
        /\ command' = IF 1 \in layers' THEN "table" ELSE "list"
    BY <1>5 DEF Revert, Begins
  <2>2. QED
    BY <1>a, <2>1 DEF RevertInv
<1>6. CASE FlushTable
  <2>1. /\ command = "table" /\ command' = "rules"
        /\ rules' = rules /\ layers' = layers /\ rounds' = rounds
    BY <1>6 DEF FlushTable, At
  <2>2. ok' => \A n \in Nets : routes'[n] = NoDevice
    BY <1>a, <1>6, FaultIsSeen DEF FlushTable, Run
  <2>3. rounds = 0 /\ 1 \in layers
    BY <1>a, <2>1 DEF RevertInv
  <2>4. Copies' = Copies
    BY <2>1 DEF Copies, CopyBound, Threads
  <2>5. rounds' + Cardinality(Copies') <= Cardinality(Nets) * CopyBound
    BY <2>1, <2>3, <2>4, CopiesCounted
  <2>6. QED
    BY <2>1, <2>2, <2>3, <2>5 DEF RevertInv, CopyBound, Threads
<1>7. CASE DeleteRule
  <2>1. /\ command = "rules" /\ 1 \in layers
        /\ layers' = layers /\ routes' = routes /\ alone' = alone
    BY <1>a, <1>7 DEF DeleteRule, At, RevertInv
  <2>2. PICK n \in Nets :
           /\ rules[n] > 0
           /\ \/ /\ rules' = [rules EXCEPT ![n] = @ - 1]
                 /\ rounds' = rounds + 1 /\ ok' = ok /\ command' = command
              \/ ok' = FALSE /\ command' = AfterRules /\ rounds' = rounds
    BY <1>7 DEF DeleteRule
  <2>3. CASE /\ rules' = [rules EXCEPT ![n] = @ - 1]
             /\ rounds' = rounds + 1 /\ ok' = ok /\ command' = command
    <3>1. Cardinality(Copies') = Cardinality(Copies) - 1
      BY <2>2, <2>3, OneDeleted
    <3>2. rounds \in Nat /\ Cardinality(Copies) \in Nat
      BY CliAssumption, CopiesCounted DEF ClearInv, CliInv, CommandInv
    <3>3. rounds' + Cardinality(Copies') = rounds + Cardinality(Copies)
      BY <2>3, <3>1, <3>2
    <3>4. QED
      BY <1>a, <2>1, <2>3, <3>3 DEF RevertInv, CopyBound, Threads
  <2>4. CASE ok' = FALSE /\ command' = AfterRules /\ rounds' = rounds
    BY <1>a, <2>1, <2>4 DEF RevertInv, AfterRules
  <2>5. QED
    BY <2>2, <2>3, <2>4
<1>8. CASE RulesDeleted
  <2>1. /\ command = "rules" /\ 1 \in layers
        /\ layers' = layers /\ rules' = rules /\ routes' = routes
        /\ ok' = ok /\ rounds' = rounds /\ command' = AfterRules
    BY <1>a, <1>8 DEF RulesDeleted, At, RevertInv, kernel, progress
  <2>2. ASSUME ok', alone' PROVE \A n \in Nets : ~Claimed(n)'
    <3>1. /\ alone
          /\ rounds = RevertRounds \/ \A n \in Nets : rules[n] = 0
      BY <1>8, <2>2 DEF RulesDeleted
    <3>2. /\ \A n \in Nets : routes[n] = NoDevice
          /\ rounds + Cardinality(Copies) <= Cardinality(Nets) * CopyBound
      BY <1>a, <2>1, <2>2, <3>1 DEF RevertInv
    <3>3. \A n \in Nets : rules[n] = 0
      <4>1. CASE rounds = RevertRounds
        <5>1. /\ Cardinality(Nets) * CopyBound <= RevertRounds
              /\ Cardinality(Nets) * CopyBound \in Nat
              /\ Cardinality(Copies) \in Nat /\ RevertRounds \in Nat
          BY CliAssumption, CopiesCounted, BoundIsNat DEF ClearInv, EnoughRounds
        <5>2. Cardinality(Copies) = 0
          BY <3>2, <4>1, <5>1
        <5>3. QED
          BY <5>2, NoneCounted
      <4>2. QED
        BY <3>1, <4>1
    <3>4. QED
      BY <2>1, <3>2, <3>3 DEF Claimed
  <2>3. command' \in {"list", "accepts"} /\ (command' = "accepts" => 2 \notin layers')
    BY <2>1 DEF AfterRules
  <2>4. QED
    BY <2>2, <2>3 DEF RevertInv
<1>9. CASE ListAccepts
  <2>1. /\ command = "list" /\ command' = "accepts"
        /\ layers' = layers /\ rules' = rules /\ routes' = routes
        /\ accepts' = accepts /\ ok' = ok /\ alone' = alone
        /\ clines'[Cli] = accepts
    BY <1>9 DEF ListAccepts, At, kernel, progress, Own
  <2>2. QED
    BY <1>a, <2>1 DEF RevertInv, Claimed
<1>10. CASE DeleteAccept
  <2>1. /\ command = "accepts" /\ command' = "accepts"
        /\ layers' = layers /\ rules' = rules /\ routes' = routes
        /\ alone' = alone
    BY <1>10 DEF DeleteAccept, At
  <2>2. PICK a \in clines[Cli] :
           /\ clines' = Own(clines[Cli] \ {a})
           /\ Run(accepts, accepts \ {a})
           /\ ok' = (ok /\ UNCHANGED spent /\ a \in accepts)
    BY <1>10 DEF DeleteAccept
  <2>3. ok' => ok /\ accepts' = accepts \ {a}
    BY <1>a, <2>2, FaultIsSeen DEF Run
  <2>4. clines'[Cli] = clines[Cli] \ {a}
    BY <2>2 DEF Own
  <2>5. QED
    BY <1>a, <2>1, <2>3, <2>4 DEF RevertInv, Claimed
<1>11. QED
  BY <1>1, <1>2, <1>3, <1>4, <1>5, <1>6, <1>7, <1>8, <1>9, <1>10 DEF CliStep

LEMMA NextClearInv == ClearInv /\ [CliNext]_all => ClearInv'
<1> SUFFICES ASSUME ClearInv, [CliNext]_all PROVE ClearInv'
  OBVIOUS
<1>1. CliInv' /\ CopiesBounded'
  BY NextCliInv, NextCliCopies DEF ClearInv, CliCopiesInv, EnoughRounds
<1>2. EnoughRounds'
  BY DEF ClearInv, EnoughRounds, CopyBound, Threads
<1>3. spent'["fault"] <= Limit["fault"]
  <2>1. /\ spent \in [Kinds -> Nat] /\ Limit["fault"] \in Nat
        /\ "fault" \in Kinds /\ spent["fault"] <= Limit["fault"]
    BY WorldAssumption DEF ClearInv, CliInv, TypeInv, TypeOK, Kinds
  <2>2. ASSUME NEW k \in Kinds, Spend(k) PROVE spent'["fault"] <= Limit["fault"]
    BY <2>1, <2>2 DEF Spend
  <2>3. CASE CliStep
    BY <2>1, <2>2, <2>3, CliSpends DEF ClearInv
  <2>4. CASE [Next]_vars
    BY <2>1, <2>2, <2>4, NextSpends
  <2>5. QED
    BY <2>3, <2>4 DEF CliNext, OtherStep, all
<1>4. RevertInv'
  <2>1. CASE CliStep
    BY <2>1, CliStepRevertInv
  <2>2. CASE OtherStep(Next) \/ UNCHANGED all
    <3>1. UNCHANGED <<command, progress, memory>>
      BY <2>2 DEF OtherStep, all, cli
    <3>2. alone' => alone /\ UNCHANGED kernel
      BY <2>2, Zenon DEF OtherStep, all, cli, vars
    <3>3. QED
      BY <3>1, <3>2, OthersRevertInv
  <2>3. QED
    BY <2>1, <2>2 DEF CliNext
<1>5. QED
  BY <1>1, <1>2, <1>3, <1>4 DEF ClearInv

\* When a revert reports success, had every listing and nobody else wrote
\* meanwhile, the layers it was for are empty, however many networks there are
\* and copies of a rule there were (RevertClears) -- as long as the rounds it
\* gives itself cover the copies there can be.
THEOREM RevertsClear == EnoughRounds /\ CliSpec => RevertClears
<1>1. EnoughRounds /\ CliInit => ClearInv
  <2> SUFFICES ASSUME EnoughRounds, CliInit PROVE ClearInv
    OBVIOUS
  <2>1. CliInv
    BY InitCliInv
  <2>2. CopiesBounded
    <3>1. IsFiniteSet(Handlers)
      BY DEF EnoughRounds
    <3>2. QED
      BY <3>1, InitCliCopies DEF CliCopiesInv
  <2>3. spent["fault"] <= Limit["fault"]
    BY WorldAssumption DEF CliInit, Init, Kinds
  <2>4. RevertInv
    BY DEF CliInit, RevertInv
  <2>5. QED
    BY <2>1, <2>2, <2>3, <2>4 DEF ClearInv
<1>2. ClearInv /\ RevertEnds /\ ok /\ alone =>
         /\ 1 \in layers => \A n \in Nets : ~Claimed(n)
         /\ 2 \in layers => accepts = {}
  BY DEF ClearInv, RevertInv, RevertEnds, At
<1>3. QED
  BY <1>1, <1>2, NextClearInv, PTL DEF CliSpec, RevertClears
============================================================================
