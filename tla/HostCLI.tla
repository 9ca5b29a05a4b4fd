------------------------------ MODULE HostCLI ------------------------------
(***************************************************************************)
(* The commands of cli.py that change what the daemon looks after --       *)
(* apply --mechanism policy, revert, reconcile --apply -- run by root in a *)
(* process of their own beside the daemon of Reconciler.  They share the   *)
(* kernel and the config file with it, and nothing else.                   *)
(*                                                                         *)
(* reconcile --apply makes a Daemon of its own and runs one pass of it: it *)
(* is Reconciler once more, on variables of the command's.  apply runs the *)
(* same actions (apply.policy_actions, apply.execute) in its own order.    *)
(***************************************************************************)
EXTENDS Reconciler

CONSTANTS
    Cli,            \* the process of the command
    Commands,       \* bound on the commands run
    RevertRounds    \* rules a revert deletes at most (64)

ASSUME CliAssumption ==
    /\ Cli \notin Threads
    /\ Commands \in Nat
    /\ RevertRounds \in Nat

VARIABLES
    command,    \* what the process is at
    layers,     \* the layers of a revert
    targets,    \* the scopes of an apply
    ok,         \* no action of it was FAILED
    rounds,     \* rules the revert has deleted
    ran,        \* commands run so far
    alone,      \* history: since it began nobody else wrote to the kernel
                \* and every listing was had
    cconfig, csession, cpending, cpc, cseen, cadding, cdropping, cdesired,
    cblocked, cscope, ctodo, cat, clines    \* those of its own Daemon

Pass == INSTANCE Reconciler WITH
    Main <- Cli, Handlers <- {},
    config <- cconfig, session <- csession, granted <- {}, dismissed <- {},
    pending <- cpending, pc <- cpc, seen <- cseen, adding <- cadding,
    dropping <- cdropping, desired <- cdesired, blocked <- cblocked,
    scope <- cscope, todo <- ctodo, at <- cat, lines <- clines

daemon == <<config, grants, pending, pc, seen, work>>
progress == <<layers, targets, ok, rounds>>
memory == <<cconfig, csession, cpending, cseen, cadding, cdropping, cdesired,
            cblocked, cscope, ctodo, cat, clines>>
cli == <<command, progress, ran, alone, cpc, memory>>
all == <<vars, cli>>

Steps == {"none", "reconcile", "apply", "firewall", "table", "rules",
          "list", "accepts"}

Own(v) == [t \in {Cli} |-> v]

\* What a process has in memory when it starts, and no longer when it is gone.
Blank ==
    /\ csession' = NoTunnel /\ cpending' = {}
    /\ cseen' = Own(NoTunnel) /\ cdropping' = Own({}) /\ cdesired' = Own({})
    /\ cblocked' = Own({}) /\ cscope' = Own(NoScope) /\ ctodo' = Own({})
    /\ cat' = Own(NoNet) /\ clines' = Own({})

Gone ==
    /\ command' = "none"
    /\ layers' = {} /\ targets' = {} /\ ok' = TRUE /\ rounds' = 0
    /\ cpc' = Own("idle") /\ cadding' = Own({})
    /\ Blank /\ UNCHANGED cconfig

CliInit ==
    /\ Init
    /\ command = "none" /\ layers = {} /\ targets = {} /\ ok = TRUE
    /\ rounds = 0 /\ ran = 0 /\ alone = FALSE
    /\ cconfig = file /\ csession = NoTunnel /\ cpending = {}
    /\ cpc = Own("idle") /\ cseen = Own(NoTunnel) /\ cadding = Own({})
    /\ cdropping = Own({}) /\ cdesired = Own({}) /\ cblocked = Own({})
    /\ cscope = Own(NoScope) /\ ctodo = Own({}) /\ cat = Own(NoNet)
    /\ clines = Own({})

----------------------------------------------------------------------------
Begins ==
    /\ command = "none"
    /\ ran < Commands
    /\ ran' = ran + 1
    /\ alone' = TRUE

\* A step of the command, at what it is at.
At(where) == command = where /\ UNCHANGED <<daemon, world, history, ran>>

----------------------------------------------------------------------------
(* reconcile --apply                                                       *)

ReconcileOnce ==
    /\ Begins
    /\ command' = "reconcile"
    /\ cpc' = Own("load")
    /\ UNCHANGED <<vars, progress, memory>>

ReconcileStep ==
    /\ At("reconcile")
    /\ Pass!PassStep(Cli)
    /\ UNCHANGED <<command, progress, alone>>

ReconcileEnds ==
    /\ At("reconcile") /\ cpc[Cli] = "idle"
    /\ Gone
    /\ UNCHANGED <<kernel, spent, alone>>

----------------------------------------------------------------------------
(* apply: no guard but discovery's, for host scopes; no approval but the   *)
(* command itself.                                                         *)

Offered(s) == {n \in Subnets[s] : s \in DockerScopes \/ ~width_refusal(n, file)}

\* _gather, _select, and the links that are up.
Apply ==
    /\ Begins
    /\ command' = "apply"
    /\ targets' \in SUBSET
          {[name |-> s, device |-> bridge[s], nets |-> Offered(s)] :
              s \in {s \in Scopes : bridge[s] # NoDevice /\ Offered(s) # {}}}
    /\ targets' # {}
    /\ cadding' = Own(targets')
    /\ cpc' = Own("claim")
    /\ Blank
    /\ consented' = consented \cup {c.name : c \in targets'}
    /\ UNCHANGED <<world, kernel, daemon, spent, widths, fresh, layers, ok,
                   rounds, cconfig>>

ApplyScope ==
    /\ At("apply") /\ cpc[Cli] = "claim"
    /\ \E c \in cadding[Cli] :
          /\ cadding' = Own(cadding[Cli] \ {c})
          /\ cscope' = Own(c)
          /\ ctodo' = Own(c.nets)
    /\ cpc' = Own("route")
    /\ UNCHANGED <<kernel, spent, command, progress, alone, cconfig, csession,
                   cpending, cseen, cdropping, cdesired, cblocked, cat, clines>>

\* The actions of a scope.  What its pre_argv says is not asked.
ApplyStep ==
    /\ At("apply")
    /\ \/ Pass!ReplaceRoute(Cli)
          /\ ok' = (ok /\ UNCHANGED spent /\ Live(cscope[Cli].device))
       \/ Pass!ClearRule(Cli) /\ UNCHANGED ok
       \/ Pass!AddRule(Cli) /\ ok' = (ok /\ UNCHANGED spent)
       \/ Pass!ScopeClaimed(Cli) /\ UNCHANGED ok
    /\ UNCHANGED <<command, layers, targets, rounds, alone>>

\* Layer 2, for the scopes that still do not answer, if nothing FAILED.
SecondLayer ==
    /\ At("apply") /\ cpc[Cli] = "claim" /\ cadding[Cli] = {}
    /\ \E failing \in SUBSET targets :
          /\ ~ok => failing = {}
          /\ clines' = Own(UNION {Pass!firewall_lines(c) : c \in failing})
    /\ command' = "firewall"
    /\ targets' = {}
    /\ cpc' = Own("accept")
    /\ UNCHANGED <<kernel, spent, layers, ok, rounds, alone, cconfig, csession,
                   cpending, cseen, cadding, cdropping, cdesired, cblocked,
                   cscope, ctodo, cat>>

FirewallStep ==
    /\ At("firewall")
    /\ \/ /\ Pass!InsertAccept(Cli)
          /\ UNCHANGED <<command, progress>>
       \/ /\ clines[Cli] = {}
          /\ Gone
          /\ UNCHANGED <<kernel, spent>>
    /\ UNCHANGED alone

----------------------------------------------------------------------------
(* revert (apply.teardown_all)                                             *)

\* It stops at once when nothing of ours is listed -- as when no listing can
\* be had, which is what the fault is.
Revert ==
    /\ Begins
    /\ layers' \in {{1}, {2}, {1, 2}}
    /\ command' = IF 1 \in layers' THEN "table" ELSE "list"
    /\ \/ 1 \in layers' /\ \E n \in Nets : Claimed(n)
       \/ 2 \in layers' /\ accepts # {}
    /\ UNCHANGED <<vars, targets, ok, rounds, cpc, memory>>

RevertBlind ==
    /\ Begins
    /\ Spend("fault")
    /\ UNCHANGED <<world, kernel, daemon, history, command, progress, cpc,
                   memory>>

FlushTable ==
    /\ At("table")
    /\ Run(routes, [n \in Nets |-> NoDevice])
    /\ ok' = (ok /\ UNCHANGED spent)
    /\ command' = "rules"
    /\ UNCHANGED <<rules, accepts, layers, targets, rounds, alone, cpc, memory>>

AfterRules == IF 2 \in layers THEN "list" ELSE "accepts"

\* Mutant: one rule and on.
DeleteOneRule ==
    /\ At("rules")
    /\ \E n \in Nets : rules[n] > 0 /\ rules' = [rules EXCEPT ![n] = @ - 1]
    /\ command' = AfterRules
    /\ UNCHANGED <<routes, accepts, spent, progress, alone, cpc, memory>>

\* ip rule del, whichever comes first, while the listing names one; a deletion
\* that fails ends the loop.
DeleteRule ==
    /\ At("rules") /\ rounds < RevertRounds
    /\ \E n \in Nets :
          /\ rules[n] > 0
          /\ \/ /\ rules' = [rules EXCEPT ![n] = @ - 1]
                /\ rounds' = rounds + 1
                /\ UNCHANGED <<spent, ok, command>>
             \/ /\ Spend("fault")
                /\ ok' = FALSE
                /\ command' = AfterRules
                /\ UNCHANGED <<rules, rounds>>
    /\ UNCHANGED <<routes, accepts, layers, targets, alone, cpc, memory>>

\* None is listed, or none can be, or there were too many.
RulesDeleted ==
    /\ At("rules")
    /\ \/ /\ rounds = RevertRounds \/ \A n \in Nets : rules[n] = 0
          /\ UNCHANGED <<spent, alone>>
       \/ Spend("fault") /\ alone' = FALSE
    /\ command' = AfterRules
    /\ UNCHANGED <<kernel, progress, cpc, memory>>

\* owned_rules()
ListAccepts ==
    /\ At("list")
    /\ clines' = Own(accepts)
    /\ command' = "accepts"
    /\ UNCHANGED <<kernel, spent, progress, alone, cpc, cconfig, csession,
                   cpending, cseen, cadding, cdropping, cdesired, cblocked,
                   cscope, ctodo, cat>>

DeleteAccept ==
    /\ At("accepts")
    /\ \E a \in clines[Cli] :
          /\ a.chain = "INPUT" => \A b \in clines[Cli] : b.chain = "INPUT"
          /\ clines' = Own(clines[Cli] \ {a})
          /\ Run(accepts, accepts \ {a})
          /\ ok' = (ok /\ UNCHANGED spent /\ a \in accepts)
    /\ UNCHANGED <<rules, routes, command, layers, targets, rounds, alone, cpc,
                   cconfig, csession, cpending, cseen, cadding, cdropping,
                   cdesired, cblocked, cscope, ctodo, cat>>

RevertEnds ==
    /\ At("accepts") /\ clines[Cli] = {}
    /\ Gone
    /\ UNCHANGED <<kernel, spent, alone>>

----------------------------------------------------------------------------
\* The process is interrupted, or dies of an exception: a command that times
\* out, a table of accepts that cannot be read.
Dies ==
    /\ command # "none"
    /\ Spend("fault")
    /\ Gone
    /\ alone' = FALSE
    /\ UNCHANGED <<world, kernel, daemon, history, ran>>

CliStep ==
    \/ ReconcileOnce \/ ReconcileStep \/ ReconcileEnds
    \/ Apply \/ ApplyScope \/ ApplyStep \/ SecondLayer \/ FirewallStep
    \/ Revert \/ RevertBlind \/ FlushTable \/ DeleteRule \/ RulesDeleted
    \/ ListAccepts \/ DeleteAccept \/ RevertEnds \/ Dies

\* Everyone else: the daemon, and the world.
OtherStep(A) ==
    /\ A
    /\ alone' = (alone /\ UNCHANGED kernel)
    /\ UNCHANGED <<command, progress, ran, cpc, memory>>

CliNext == CliStep \/ OtherStep(Next)

\* The daemon is scheduled; a command need not end.
CliSpec ==
    /\ CliInit
    /\ [][CliNext]_all
    /\ WF_all(OtherStep(Tick \/ PassStep(Main)))
    /\ \A t \in Handlers : WF_all(OtherStep(PassStep(t)))
----------------------------------------------------------------------------
CliTypeOK ==
    /\ TypeOK
    /\ Pass!TypeOK
    /\ command \in Steps
    /\ layers \subseteq {1, 2}
    /\ targets \subseteq Scope
    /\ ok \in BOOLEAN /\ alone \in BOOLEAN
    /\ rounds \in 0..RevertRounds
    /\ ran \in 0..Commands

\* Each rule action clears one copy of its rule before it adds one, so however
\* the passes of the daemon and the commands interleave, a network has no more
\* copies than there are processes at it, but for the commands that failed:
\* repeating apply beside the daemon does not pile them up.
CopiesBounded ==
    \A n \in Nets :
       rules[n] + Cardinality(Adders(n) \cup Pass!Adders(n))
          <= Cardinality(Threads) + 1 + spent["fault"]

\* "Remove everything we own, leaving no trace": when a revert reports success,
\* had every listing and nobody else wrote meanwhile, the layers it was for
\* are empty, however many copies of a rule there were.
RevertClears ==
    [][RevertEnds /\ ok /\ alone =>
          /\ 1 \in layers => \A n \in Nets : ~Claimed(n)
          /\ 2 \in layers => accepts = {}]_all
============================================================================
