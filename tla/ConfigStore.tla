---------------------------- MODULE ConfigStore ----------------------------
(***************************************************************************)
(* /etc/ciscomvent/config.json on a file system: load and save of          *)
(* config.py, as the daemon's control threads, its passes and the CLI call *)
(* them.  save writes a temporary file beside the target, whose name is    *)
(* the same for every writer, and renames it into place.                   *)
(*                                                                         *)
(* A file is an inode: a writer that has opened one still writes to it     *)
(* after it was renamed.  A config is what each setting is set to.         *)
(***************************************************************************)
EXTENDS Integers

CONSTANTS
    Handlers,   \* control threads that change a setting
    Clis,       \* CLI processes that change settings
    Readers,    \* passes, which only load
    Processes,  \* sets of those that die together
    Inodes,
    Settings, Values, Unset,
    None, Empty, Torn,
    Serial,     \* whether commands come one after the other
    Commands,   \* bound on the commands
    Faults      \* bound on the crashes and failing writes

VARIABLES
    pc,         \* where each thread is
    targets,    \* the settings its command is about,
    value,      \* and what they are to be
    copy,       \* the config it loaded, then changed
    fd,         \* the inode it has open
    data,       \* what is in each inode
    path,       \* the inode named config.json
    tmp,        \* the inode named config.tmp
    may,        \* history: what each setting may be, by what was acknowledged
    commands,   \* commands so far
    faults      \* crashes and failing writes so far

Writers == Handlers \cup Clis
Threads == Writers \cup Readers

Config == [Settings -> Values \cup {Unset}]

Default == [s \in Settings |-> Unset]

ASSUME ThreadAssumption ==
    /\ Handlers \cap Clis = {}
    /\ Writers \cap Readers = {}
    /\ Processes \subseteq SUBSET Threads

ASSUME FileAssumption ==
    /\ None \notin Inodes
    /\ Empty \notin Config
    /\ Torn \notin Config

\* There is always an inode for a new file.
ASSUME InodeAssumption ==
    \A p, q \in Inodes \cup {None}, f \in [Threads -> Inodes \cup {None}] :
       \E i \in Inodes : i \notin {p, q} /\ \A t \in Threads : f[t] # i

ASSUME BoundAssumption == Serial \in BOOLEAN /\ Commands \in Nat /\ Faults \in Nat

names == <<path, tmp>>
asked == <<targets, value>>
spent == <<commands, faults>>
vars == <<pc, asked, copy, fd, data, names, may, spent>>

TypeOK ==
    /\ pc \in [Threads -> {"idle", "load", "read", "open", "write", "replace",
                           "reply"}]
    /\ targets \in [Writers -> SUBSET Settings]
    /\ value \in [Writers -> Values]
    /\ copy \in [Threads -> Config]
    /\ fd \in [Threads -> Inodes \cup {None}]
    /\ data \in [Inodes -> Config \cup {Empty, Torn}]
    /\ path \in Inodes \cup {None}
    /\ tmp \in Inodes \cup {None}
    /\ may \in [Settings -> SUBSET (Values \cup {Unset})]
    /\ commands \in 0..Commands
    /\ faults \in 0..Faults

\* load: what cannot be read or parsed is the defaults.
Parsed(i) == IF i # None /\ data[i] \in Config THEN data[i] ELSE Default

\* An inode for a new file: one that has no name and is not open.
Unused == CHOOSE i \in Inodes :
             i \notin {path, tmp} /\ \A t \in Threads : fd[t] # i

\* There is no config yet, or one that was set up by hand.
Init ==
    /\ pc = [t \in Threads |-> "idle"]
    /\ targets = [w \in Writers |-> {}]
    /\ value \in [Writers -> Values]
    /\ copy = [t \in Threads |-> Default]
    /\ fd = [t \in Threads |-> None]
    /\ \E old \in Config : data = [i \in Inodes |-> old]
    /\ path \in {None, CHOOSE i \in Inodes : TRUE}
    /\ tmp = None
    /\ may = [s \in Settings |-> {Parsed(path)[s]}]
    /\ commands = 0
    /\ faults = 0

----------------------------------------------------------------------------
\* A config after some of its settings were set.
Applied(c, S, v) == [s \in Settings |-> IF s \in S THEN v ELSE c[s]]

\* What one command may set: `approve` on the command line takes any number of
\* scopes, a request to the daemon names one.
Askable(w) == IF w \in Clis THEN SUBSET Settings ELSE {{s} : s \in Settings}

\* set-scope, set-automation, approve --always and their CLI counterparts.
Ask(w, S, v) ==
    /\ pc[w] = "idle" /\ commands < Commands
    /\ Serial => \A u \in Writers : pc[u] = "idle"
    /\ commands' = commands + 1
    /\ targets' = [targets EXCEPT ![w] = S]
    /\ value' = [value EXCEPT ![w] = v]
    /\ may' = [s \in Settings |-> IF s \in S THEN may[s] \cup {v} ELSE may[s]]
    /\ pc' = [pc EXCEPT ![w] = "load"]
    /\ UNCHANGED <<copy, fd, data, names, faults>>

\* load opens the file that has the name now ...
Load(t) ==
    /\ pc[t] = IF t \in Readers THEN "idle" ELSE "load"
    /\ fd' = [fd EXCEPT ![t] = path]
    /\ pc' = [pc EXCEPT ![t] = "read"]
    /\ UNCHANGED <<asked, copy, data, names, may, spent>>

\* Mutant: a writer starts from the config it has in memory.
ReadCached(t) ==
    /\ pc[t] = "read"
    /\ fd' = [fd EXCEPT ![t] = None]
    /\ IF t \in Readers
       THEN /\ copy' = [copy EXCEPT ![t] = Parsed(fd[t])]
            /\ pc' = [pc EXCEPT ![t] = "idle"]
       ELSE /\ copy' = [copy EXCEPT ![t] = Applied(@, targets[t], value[t])]
            /\ pc' = [pc EXCEPT ![t] = "open"]
    /\ UNCHANGED <<asked, data, names, may, spent>>

\* Mutant: a command about several settings saves one of them.
ReadOne(t) ==
    /\ pc[t] = "read"
    /\ fd' = [fd EXCEPT ![t] = None]
    /\ IF t \in Readers
       THEN /\ copy' = [copy EXCEPT ![t] = Parsed(fd[t])]
            /\ pc' = [pc EXCEPT ![t] = "idle"]
       ELSE /\ \E s \in targets[t] :
                  copy' = [copy EXCEPT ![t] = Applied(Parsed(fd[t]), {s}, value[t])]
            /\ pc' = [pc EXCEPT ![t] = "open"]
    /\ UNCHANGED <<asked, data, names, may, spent>>

\* ... and reads it.  approve does not save what is there already.
Read(t) ==
    /\ pc[t] = "read"
    /\ fd' = [fd EXCEPT ![t] = None]
    /\ IF t \in Readers
       THEN /\ copy' = [copy EXCEPT ![t] = Parsed(fd[t])]
            /\ pc' = [pc EXCEPT ![t] = "idle"]
       ELSE /\ copy' = [copy EXCEPT ![t] =
                          Applied(Parsed(fd[t]), targets[t], value[t])]
            /\ \/ pc' = [pc EXCEPT ![t] = "open"]
               \/ /\ copy'[t] = Parsed(fd[t])
                  /\ pc' = [pc EXCEPT ![t] = "reply"]
    /\ UNCHANGED <<asked, data, names, may, spent>>

\* Mutant: what a writer that died has left is not truncated.
OpenKeeps(w) ==
    /\ pc[w] = "open"
    /\ LET i == IF tmp = None THEN Unused ELSE tmp
       IN /\ fd' = [fd EXCEPT ![w] = i]
          /\ tmp' = i
          /\ data' = IF tmp = None THEN [data EXCEPT ![i] = Empty] ELSE data
    /\ pc' = [pc EXCEPT ![w] = "write"]
    /\ UNCHANGED <<asked, copy, path, may, spent>>

\* Mutant: the file is written in place; the rename comes to nothing.
OpenInPlace(w) ==
    /\ pc[w] = "open"
    /\ LET i == IF path = None THEN Unused ELSE path
       IN /\ fd' = [fd EXCEPT ![w] = i]
          /\ tmp' = i
          /\ data' = [data EXCEPT ![i] = Empty]
    /\ pc' = [pc EXCEPT ![w] = "write"]
    /\ UNCHANGED <<asked, copy, path, may, spent>>

\* save opens the temporary file: created, or truncated if it is there.
OpenTmp(w) ==
    /\ pc[w] = "open"
    /\ LET i == IF tmp = None THEN Unused ELSE tmp
       IN /\ fd' = [fd EXCEPT ![w] = i]
          /\ tmp' = i
          /\ data' = [data EXCEPT ![i] = Empty]
    /\ pc' = [pc EXCEPT ![w] = "write"]
    /\ UNCHANGED <<asked, copy, path, may, spent>>

\* What is in a file after a config was written at its start: a longer text
\* that was there keeps its end.
Over(old, new) == IF old \in {Empty, new} THEN {new} ELSE {new, Torn}

WriteTmp(w) ==
    /\ pc[w] = "write"
    /\ \E d \in Over(data[fd[w]], copy[w]) :
          data' = [data EXCEPT ![fd[w]] = d]
    /\ fd' = [fd EXCEPT ![w] = None]
    /\ pc' = [pc EXCEPT ![w] = "replace"]
    /\ UNCHANGED <<asked, copy, names, may, spent>>

\* The disk is full: some of it was written, and the command fails.
WriteFails(w) ==
    /\ pc[w] = "write" /\ faults < Faults
    /\ faults' = faults + 1
    /\ data' = [data EXCEPT ![fd[w]] = Torn]
    /\ fd' = [fd EXCEPT ![w] = None]
    /\ pc' = [pc EXCEPT ![w] = "idle"]
    /\ UNCHANGED <<asked, copy, names, may, commands>>

\* os.replace, which fails, and the command with it, if the name is gone.
Replace(w) ==
    /\ pc[w] = "replace"
    /\ IF tmp = None
       THEN /\ pc' = [pc EXCEPT ![w] = "idle"]
            /\ UNCHANGED names
       ELSE /\ pc' = [pc EXCEPT ![w] = "reply"]
            /\ path' = tmp
            /\ tmp' = None
    /\ UNCHANGED <<asked, copy, fd, data, may, spent>>

\* The command's caller is told that it is done.
Reply(w) ==
    /\ pc[w] = "reply"
    /\ pc' = [pc EXCEPT ![w] = "idle"]
    /\ may' = [s \in Settings |->
                 IF s \in targets[w] THEN {value[w]} ELSE may[s]]
    /\ UNCHANGED <<asked, copy, fd, data, names, spent>>

\* A process dies, with all its threads.
Crash(P) ==
    /\ faults < Faults
    /\ \E t \in P : pc[t] # "idle"
    /\ faults' = faults + 1
    /\ pc' = [t \in Threads |-> IF t \in P THEN "idle" ELSE pc[t]]
    /\ fd' = [t \in Threads |-> IF t \in P THEN None ELSE fd[t]]
    /\ copy' = [t \in Threads |-> IF t \in P THEN Default ELSE copy[t]]
    /\ UNCHANGED <<asked, data, names, may, commands>>

Save(w) == OpenTmp(w) \/ WriteTmp(w) \/ WriteFails(w) \/ Replace(w) \/ Reply(w)

Next ==
    \/ \E w \in Writers : \E S \in Askable(w), v \in Values : Ask(w, S, v)
    \/ \E t \in Threads : Load(t) \/ Read(t)
    \/ \E w \in Writers : Save(w)
    \/ \E P \in Processes : Crash(P)

Spec == Init /\ [][Next]_vars
----------------------------------------------------------------------------
\* The file is whole at any time, whatever dies between two steps of a save:
\* "atomic, so a crash cannot leave a half-written file" (config.save).
NeverHalfWritten == path # None => data[path] \in Config

\* So is what a reader has open, though it may have been replaced since.
ReadersSeeWhole ==
    \A t \in Threads :
       pc[t] = "read" /\ fd[t] # None => data[fd[t]] \in Config

\* A setting is what the last acknowledged command made it, or what a command
\* since then asked for: "The daemon picks this up on its next reconcile"
\* (cli.cmd_approve).
AckedKept == \A s \in Settings : Parsed(path)[s] \in may[s]

\* Where a command is, seen from outside of it.
Phase(w) ==
    IF pc[w] = "idle" THEN "idle" ELSE IF pc[w] = "reply" THEN "done" ELSE "asked"

\* A command that comes alone sets what it names, all at once, and nothing else,
\* before it is acknowledged, whatever dies or fails on the way (save and the
\* commands that call it).
Atomic == INSTANCE AtomicConfig
          WITH config <- Parsed(path), phase <- [w \in Writers |-> Phase(w)],
               settings <- targets
Refines == Atomic!Spec
============================================================================
