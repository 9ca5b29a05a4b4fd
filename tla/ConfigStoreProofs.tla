------------------------- MODULE ConfigStoreProofs -------------------------
(***************************************************************************)
(* When the commands come one after the other, save is atomic, for any     *)
(* threads, processes, settings and faults: crashes between two of its     *)
(* steps and failing writes included.                                      *)
(***************************************************************************)
EXTENDS ConfigStore, TLAPS

\* One command at a time.
OneWriter ==
    \A u, w \in Writers : pc[u] # "idle" /\ pc[w] # "idle" => u = w

\* Who has a file open.
OpenInv ==
    /\ \A t \in Threads : pc[t] \notin {"read", "write"} => fd[t] = None
    /\ \A r \in Readers : pc[r] \in {"idle", "read"}

\* The two names are two files, and what a reader has open is neither being
\* written nor about to be.
NameInv ==
    /\ path # None => path # tmp /\ data[path] \in Config
    /\ \A t \in Threads :
          pc[t] = "read" /\ fd[t] # None =>
             fd[t] # tmp /\ data[fd[t]] \in Config

\* What the writer has in hand is the file's config with its change.
CopyInv ==
    \A w \in Writers :
       /\ pc[w] = "read" => fd[w] = path
       /\ pc[w] \in {"open", "write", "replace"} =>
             copy[w] = Applied(Parsed(path), targets[w], value[w])
       /\ pc[w] = "write" => tmp # None /\ fd[w] = tmp /\ data[tmp] = Empty
       /\ pc[w] = "replace" => tmp # None /\ data[tmp] = copy[w]
       /\ pc[w] = "reply" => \A s \in targets[w] : Parsed(path)[s] = value[w]

MayInv ==
    /\ AckedKept
    /\ \A w \in Writers : pc[w] # "idle" => \A s \in targets[w] : value[w] \in may[s]

StoreInv == TypeOK /\ OneWriter /\ OpenInv /\ NameInv /\ CopyInv /\ MayInv

----------------------------------------------------------------------------
LEMMA ParsedType ==
    ASSUME TypeOK, NEW i \in Inodes \cup {None}
    PROVE  Parsed(i) \in Config
  BY DEF TypeOK, Parsed, Config, Default

LEMMA AppliedType ==
    ASSUME NEW c \in Config, NEW S \in SUBSET Settings, NEW v \in Values
    PROVE  /\ Applied(c, S, v) \in Config
           /\ \A s \in S : Applied(c, S, v)[s] = v
           /\ \A s \in Settings \ S : Applied(c, S, v)[s] = c[s]
  BY DEF Applied, Config

\* A step that leaves the named file alone leaves the settings alone.
LEMMA ParsedKept ==
    ASSUME path' = path, path # None => data'[path] = data[path]
    PROVE  Parsed(path)' = Parsed(path)
  BY DEF Parsed

LEMMA UnusedIsFree ==
    ASSUME TypeOK
    PROVE  /\ Unused \in Inodes
           /\ Unused \notin {path, tmp}
           /\ \A t \in Threads : fd[t] # Unused
<1>1. fd \in [Threads -> Inodes \cup {None}] /\ {path, tmp} \subseteq Inodes \cup {None}
  BY DEF TypeOK
<1>2. \E i \in Inodes : i \notin {path, tmp} /\ \A t \in Threads : fd[t] # i
  BY <1>1, InodeAssumption
<1>3. QED
  BY <1>2, Zenon DEF Unused

LEMMA InitStoreInv == Init => StoreInv
<1> SUFFICES ASSUME Init PROVE StoreInv
  OBVIOUS
<1> USE DEF Init, Threads
<1>1. PICK old \in Config : data = [i \in Inodes |-> old]
  OBVIOUS
<1>2. path \in Inodes \cup {None} /\ tmp \in Inodes \cup {None}
  <2>1. fd \in [Threads -> Inodes \cup {None}]
    OBVIOUS
  <2>2. \E i \in Inodes : TRUE
    BY <2>1, InodeAssumption DEF Threads
  <2>3. (CHOOSE i \in Inodes : TRUE) \in Inodes
    BY <2>2, Zenon
  <2>4. QED
    BY <2>3
<1>3. Default \in Config
  BY DEF Default, Config
<1>4. Parsed(path) \in Config
  BY <1>1, <1>2, <1>3 DEF Parsed
<1>5. may \in [Settings -> SUBSET (Values \cup {Unset})]
  BY <1>4 DEF Config
<1>6. TypeOK
  BY <1>1, <1>2, <1>3, <1>5, BoundAssumption DEF TypeOK
<1>7. OneWriter /\ OpenInv
  BY DEF OneWriter, OpenInv
<1>8. NameInv
  BY <1>1, <1>2 DEF NameInv
<1>9. CopyInv
  BY DEF CopyInv
<1>10. MayInv
  BY DEF MayInv, AckedKept
<1>11. QED
  BY <1>6, <1>7, <1>8, <1>9, <1>10 DEF StoreInv

\* The parts of the invariant that the reading of a config disturbs.
LEMMA AskStoreInv ==
    ASSUME Serial, StoreInv, NEW w \in Writers, NEW S \in Askable(w),
           NEW v \in Values, Ask(w, S, v)
    PROVE  StoreInv'
<1>0. TypeOK /\ OneWriter /\ OpenInv /\ NameInv /\ CopyInv /\ MayInv
  BY DEF StoreInv
<1>1. \A u \in Writers : pc[u] = "idle"
  BY DEF Ask
<1> USE ThreadAssumption DEF Ask, names, Threads
<1>2. Parsed(path)' = Parsed(path)
  BY ParsedKept
<1>3. TypeOK'
  <2>1. targets' \in [Writers -> SUBSET Settings]
    BY <1>0 DEF TypeOK, Askable
  <2>2. may' \in [Settings -> SUBSET (Values \cup {Unset})]
    BY <1>0 DEF TypeOK
  <2>3. QED
    BY <1>0, <2>1, <2>2, BoundAssumption DEF TypeOK
<1>4. OneWriter'
  BY <1>0, <1>1 DEF OneWriter, TypeOK
<1>5. OpenInv'
  BY <1>0, <1>1 DEF OpenInv, TypeOK
<1>6. NameInv'
  BY <1>0 DEF NameInv, TypeOK
<1>7. CopyInv'
  BY <1>0, <1>1, <1>2 DEF CopyInv, TypeOK
<1>8. MayInv'
  <2>1. S \subseteq Settings
    BY DEF Askable
  <2>2. \A s \in Settings : may[s] \subseteq may'[s]
    OBVIOUS
  <2>3. \A s \in S : v \in may'[s]
    BY <2>1
  <2>4. AckedKept'
    BY <1>0, <1>2, <2>2 DEF MayInv, AckedKept
  <2>5. \A u \in Writers : pc'[u] # "idle" => targets'[u] = S /\ value'[u] = v
    BY <1>0, <1>1 DEF TypeOK
  <2>6. QED
    BY <2>3, <2>4, <2>5 DEF MayInv
<1>9. QED
  BY <1>3, <1>4, <1>5, <1>6, <1>7, <1>8 DEF StoreInv

LEMMA LoadStoreInv ==
    ASSUME StoreInv, NEW t \in Threads, Load(t)
    PROVE  StoreInv'
<1>0. TypeOK /\ OneWriter /\ OpenInv /\ NameInv /\ CopyInv /\ MayInv
  BY DEF StoreInv
<1> USE ThreadAssumption DEF Load, names, asked, spent, Threads
<1>2. Parsed(path)' = Parsed(path)
  BY ParsedKept
<1>3. TypeOK'
  BY <1>0 DEF TypeOK
<1>4. OneWriter'
  BY <1>0 DEF OneWriter, TypeOK
<1>5. OpenInv'
  BY <1>0 DEF OpenInv, TypeOK
<1>6. NameInv'
  BY <1>0 DEF NameInv, TypeOK
<1>7. CopyInv'
  BY <1>0, <1>2 DEF CopyInv, TypeOK
<1>8. MayInv'
  BY <1>0, <1>2 DEF MayInv, AckedKept, TypeOK
<1>9. QED
  BY <1>3, <1>4, <1>5, <1>6, <1>7, <1>8 DEF StoreInv

LEMMA ReadStoreInv ==
    ASSUME StoreInv, NEW t \in Threads, Read(t)
    PROVE  StoreInv'
<1>0. TypeOK /\ OneWriter /\ OpenInv /\ NameInv /\ CopyInv /\ MayInv
  BY DEF StoreInv
<1>1. Parsed(fd[t]) \in Config
  BY <1>0, ParsedType DEF TypeOK
<1> USE ThreadAssumption DEF Read, names, asked, spent, Threads
<1>2. Parsed(path)' = Parsed(path)
  BY ParsedKept
<1>3. TypeOK'
  <2>1. copy' \in [Threads -> Config]
    <3>1. ASSUME t \in Writers
          PROVE  Applied(Parsed(fd[t]), targets[t], value[t]) \in Config
      <4>1. targets[t] \in SUBSET Settings /\ value[t] \in Values
        BY <1>0, <3>1 DEF TypeOK
      <4>2. QED
        BY <1>1, <4>1, AppliedType
    <3>2. QED
      BY <1>0, <1>1, <3>1 DEF TypeOK
  <2>2. QED
    BY <1>0, <2>1 DEF TypeOK
<1>4. OneWriter'
  BY <1>0 DEF OneWriter, TypeOK
<1>5. OpenInv'
  BY <1>0 DEF OpenInv, TypeOK
<1>6. NameInv'
  BY <1>0 DEF NameInv, TypeOK
<1>7. CopyInv'
  <2>1. \A u \in Writers : u # t =>
           /\ pc'[u] = pc[u] /\ copy'[u] = copy[u] /\ fd'[u] = fd[u]
    BY <1>0 DEF TypeOK
  <2>2. ASSUME t \in Writers
        PROVE  /\ pc'[t] \in {"open", "reply"}
               /\ copy'[t] = Applied(Parsed(path), targets[t], value[t])
               /\ pc'[t] = "reply" =>
                     \A s \in targets[t] : Parsed(path)[s] = value[t]
    <3>1. fd[t] = path /\ targets[t] \in SUBSET Settings /\ value[t] \in Values
      BY <1>0, <2>2 DEF CopyInv, TypeOK
    <3>2. copy'[t] = Applied(Parsed(path), targets[t], value[t])
      BY <1>0, <2>2, <3>1 DEF TypeOK
    <3>3. \A s \in targets[t] : copy'[t][s] = value[t]
      BY <1>1, <3>1, <3>2, AppliedType
    <3>4. /\ pc'[t] \in {"open", "reply"}
          /\ pc'[t] = "reply" => copy'[t] = Parsed(fd[t])
      BY <1>0, <2>2 DEF TypeOK
    <3>5. QED
      BY <3>1, <3>2, <3>3, <3>4
  <2>3. QED
    BY <1>0, <1>2, <2>1, <2>2 DEF CopyInv
<1>8. MayInv'
  BY <1>0, <1>2 DEF MayInv, AckedKept, TypeOK
<1>9. QED
  BY <1>3, <1>4, <1>5, <1>6, <1>7, <1>8 DEF StoreInv

\* A save under way is the only one, so nobody else is at "open" or later.
LEMMA OpenTmpStoreInv ==
    ASSUME StoreInv, NEW w \in Writers, OpenTmp(w)
    PROVE  StoreInv'
<1>0. TypeOK /\ OneWriter /\ OpenInv /\ NameInv /\ CopyInv /\ MayInv
  BY DEF StoreInv
<1>1. PICK i \in Inodes :
         /\ i # path
         /\ \A t \in Threads : pc[t] = "read" => fd[t] # i
         /\ fd' = [fd EXCEPT ![w] = i]
         /\ tmp' = i
         /\ data' = [data EXCEPT ![i] = Empty]
  <2>1. CASE tmp = None
    BY <1>0, <2>1, UnusedIsFree DEF OpenTmp
  <2>2. CASE tmp # None
    BY <1>0, <2>2 DEF OpenTmp, NameInv, TypeOK
  <2>3. QED
    BY <2>1, <2>2
<1> USE ThreadAssumption DEF OpenTmp, names, asked, spent, Threads
<1>2. Parsed(path)' = Parsed(path)
  BY <1>0, <1>1, ParsedKept DEF TypeOK
<1>3. TypeOK'
  BY <1>0, <1>1 DEF TypeOK
<1>4. OneWriter'
  BY <1>0 DEF OneWriter, TypeOK
<1>5. OpenInv'
  BY <1>0, <1>1 DEF OpenInv, TypeOK
<1>6. NameInv'
  BY <1>0, <1>1 DEF NameInv, TypeOK
<1>7. CopyInv'
  <2>1. \A u \in Writers : u # w => pc'[u] = "idle"
    BY <1>0 DEF OneWriter, TypeOK
  <2>2. pc'[w] = "write" /\ fd'[w] = i /\ data'[i] = Empty /\ i # None
    BY <1>0, <1>1, FileAssumption DEF TypeOK
  <2>3. copy'[w] = Applied(Parsed(path)', targets'[w], value'[w])
    BY <1>0, <1>2 DEF CopyInv
  <2>4. QED
    BY <1>1, <2>1, <2>2, <2>3 DEF CopyInv
<1>8. MayInv'
  BY <1>0, <1>2 DEF MayInv, AckedKept, TypeOK
<1>9. QED
  BY <1>3, <1>4, <1>5, <1>6, <1>7, <1>8 DEF StoreInv

LEMMA WriteStoreInv ==
    ASSUME StoreInv, NEW w \in Writers, WriteTmp(w) \/ WriteFails(w)
    PROVE  StoreInv'
<1>0. TypeOK /\ OneWriter /\ OpenInv /\ NameInv /\ CopyInv /\ MayInv
  BY DEF StoreInv
<1>1. /\ pc[w] = "write" /\ tmp # None /\ tmp \in Inodes /\ fd[w] = tmp
      /\ \/ /\ data' = [data EXCEPT ![tmp] = copy[w]]
            /\ pc' = [pc EXCEPT ![w] = "replace"]
            /\ UNCHANGED faults
         \/ /\ data' = [data EXCEPT ![tmp] = Torn]
            /\ pc' = [pc EXCEPT ![w] = "idle"]
            /\ faults' \in 0..Faults
      /\ fd' = [fd EXCEPT ![w] = None]
      /\ UNCHANGED <<targets, value, copy, path, tmp, may, commands>>
  BY <1>0, BoundAssumption
  DEF WriteTmp, WriteFails, Over, CopyInv, TypeOK, names, asked, spent, Threads
<1> USE ThreadAssumption DEF Threads
<1>2. Parsed(path)' = Parsed(path)
  BY <1>0, <1>1, ParsedKept DEF NameInv, TypeOK
<1>3. TypeOK'
  BY <1>0, <1>1 DEF TypeOK
<1>4. OneWriter'
  BY <1>0, <1>1 DEF OneWriter, TypeOK
<1>5. OpenInv'
  BY <1>0, <1>1 DEF OpenInv, TypeOK
<1>6. NameInv'
  BY <1>0, <1>1 DEF NameInv, TypeOK
<1>7. CopyInv'
  BY <1>0, <1>1, <1>2 DEF CopyInv, OneWriter, TypeOK
<1>8. MayInv'
  BY <1>0, <1>1, <1>2 DEF MayInv, AckedKept, TypeOK
<1>9. QED
  BY <1>3, <1>4, <1>5, <1>6, <1>7, <1>8 DEF StoreInv

\* The rename, at which the change happens.
LEMMA ReplaceStep ==
    ASSUME StoreInv, NEW w \in Writers, Replace(w)
    PROVE  /\ pc[w] = "replace" /\ tmp \in Inodes /\ data[tmp] = copy[w]
           /\ path' = tmp /\ tmp' = None /\ pc' = [pc EXCEPT ![w] = "reply"]
           /\ UNCHANGED <<targets, value, copy, fd, data, may, commands, faults>>
           /\ Parsed(path)' = Applied(Parsed(path), targets[w], value[w])
           /\ Parsed(path)' \in Config
<1>1. /\ pc[w] = "replace" /\ tmp # None /\ tmp \in Inodes
      /\ data[tmp] = copy[w] /\ copy[w] \in Config
      /\ copy[w] = Applied(Parsed(path), targets[w], value[w])
  BY DEF StoreInv, TypeOK, CopyInv, Replace, Threads
<1>2. /\ path' = tmp /\ tmp' = None /\ pc' = [pc EXCEPT ![w] = "reply"]
      /\ UNCHANGED <<targets, value, copy, fd, data, may, commands, faults>>
  BY <1>1 DEF Replace, asked, spent
<1>3. Parsed(path)' = copy[w]
  BY <1>1, <1>2 DEF Parsed
<1>4. QED
  BY <1>1, <1>2, <1>3

LEMMA ReplaceStoreInv ==
    ASSUME StoreInv, NEW w \in Writers, Replace(w)
    PROVE  StoreInv'
<1>0. TypeOK /\ OneWriter /\ OpenInv /\ NameInv /\ CopyInv /\ MayInv
  BY DEF StoreInv
<1>1. Parsed(path) \in Config /\ copy[w] \in Config
  BY <1>0, ParsedType DEF TypeOK, Threads
<1>2. targets[w] \in SUBSET Settings /\ value[w] \in Values
  BY <1>0 DEF TypeOK
<1> DEFINE new == Applied(Parsed(path), targets[w], value[w])
<1>10. /\ \A s \in targets[w] : new[s] = value[w]
       /\ \A s \in Settings \ targets[w] : new[s] = Parsed(path)[s]
  BY <1>2 DEF Applied
<1>11. Parsed(path)' = new /\ pc[w] = "replace"
  BY ReplaceStep
<1> HIDE DEF new
<1> USE ThreadAssumption, ReplaceStep DEF Threads
<1>3. TypeOK'
  BY <1>0 DEF TypeOK
<1>4. OneWriter'
  BY <1>0 DEF OneWriter, TypeOK
<1>5. OpenInv'
  BY <1>0 DEF OpenInv, TypeOK
<1>6. NameInv'
  BY <1>0, <1>1, FileAssumption DEF NameInv, TypeOK
<1>7. CopyInv'
  <2>1. \A s \in targets[w] : Parsed(path)'[s] = value[w]
    BY <1>10, <1>11
  <2>2. QED
    BY <1>0, <2>1 DEF CopyInv, OneWriter, TypeOK
<1>8. MayInv'
  <2>1. \A s \in Settings : Parsed(path)'[s] \in may[s]
    <3>1. \A s \in Settings : Parsed(path)[s] \in may[s]
      BY <1>0 DEF MayInv, AckedKept
    <3>2. \A s \in targets[w] : value[w] \in may[s]
      BY <1>0, <1>11 DEF MayInv
    <3>3. QED
      BY <1>10, <1>11, <3>1, <3>2
  <2>2. QED
    BY <1>0, <2>1 DEF MayInv, AckedKept, TypeOK
<1>9. QED
  BY <1>3, <1>4, <1>5, <1>6, <1>7, <1>8 DEF StoreInv

LEMMA ReplyStoreInv ==
    ASSUME StoreInv, NEW w \in Writers, Reply(w)
    PROVE  StoreInv'
<1>0. TypeOK /\ OneWriter /\ OpenInv /\ NameInv /\ CopyInv /\ MayInv
  BY DEF StoreInv
<1> USE ThreadAssumption DEF Reply, names, asked, spent, Threads
<1>2. Parsed(path)' = Parsed(path)
  BY ParsedKept
<1>3. TypeOK'
  BY <1>0 DEF TypeOK
<1>4. OneWriter'
  BY <1>0 DEF OneWriter, TypeOK
<1>5. OpenInv'
  BY <1>0 DEF OpenInv, TypeOK
<1>6. NameInv'
  BY <1>0 DEF NameInv, TypeOK
<1>7. CopyInv'
  BY <1>0, <1>2 DEF CopyInv, TypeOK
<1>8. MayInv'
  BY <1>0, <1>2 DEF MayInv, AckedKept, CopyInv, OneWriter, TypeOK
<1>9. QED
  BY <1>3, <1>4, <1>5, <1>6, <1>7, <1>8 DEF StoreInv

LEMMA CrashStoreInv ==
    ASSUME StoreInv, NEW P \in Processes, Crash(P)
    PROVE  StoreInv'
<1>0. TypeOK /\ OneWriter /\ OpenInv /\ NameInv /\ CopyInv /\ MayInv
  BY DEF StoreInv
<1> USE ThreadAssumption DEF Crash, names, asked, Threads
<1>1. Default \in Config
  BY DEF Default, Config
<1>2. Parsed(path)' = Parsed(path)
  BY ParsedKept
<1>3. TypeOK'
  BY <1>0, <1>1, BoundAssumption DEF TypeOK
<1>4. OneWriter'
  BY <1>0 DEF OneWriter, TypeOK
<1>5. OpenInv'
  BY <1>0 DEF OpenInv, TypeOK
<1>6. NameInv'
  BY <1>0 DEF NameInv, TypeOK
<1>7. CopyInv'
  BY <1>0, <1>2 DEF CopyInv, TypeOK
<1>8. MayInv'
  BY <1>0, <1>2 DEF MayInv, AckedKept, TypeOK
<1>9. QED
  BY <1>3, <1>4, <1>5, <1>6, <1>7, <1>8 DEF StoreInv

LEMMA StutterStoreInv == StoreInv /\ UNCHANGED vars => StoreInv'
<1> SUFFICES ASSUME StoreInv, UNCHANGED vars PROVE StoreInv'
  OBVIOUS
<1>1. Parsed(path)' = Parsed(path)
  BY ParsedKept DEF vars, names
<1>2. QED
  BY <1>1
  DEF StoreInv, TypeOK, OneWriter, OpenInv, NameInv, CopyInv, MayInv,
      AckedKept, vars, names, asked, spent

LEMMA AlwaysStoreInv == Serial /\ Spec => []StoreInv
<1>1. Serial /\ StoreInv /\ [Next]_vars => StoreInv'
  BY AskStoreInv, LoadStoreInv, ReadStoreInv, OpenTmpStoreInv, WriteStoreInv,
     ReplaceStoreInv, ReplyStoreInv, CrashStoreInv, StutterStoreInv
  DEF Next, Save
<1>2. CASE Serial
  BY <1>1, <1>2, InitStoreInv, PTL DEF Spec
<1>3. CASE ~Serial
  BY <1>3
<1>4. QED
  BY <1>2, <1>3

----------------------------------------------------------------------------
\* Every variable keeps its type.
THEOREM TypeCorrect == Serial /\ Spec => []TypeOK
<1>1. StoreInv => TypeOK
  BY DEF StoreInv
<1>2. QED
  BY <1>1, AlwaysStoreInv, PTL

\* The file is whole at any time (config.save).
THEOREM FileIsWhole == Serial /\ Spec => []NeverHalfWritten
<1>1. StoreInv => NeverHalfWritten
  BY DEF StoreInv, NameInv, NeverHalfWritten
<1>2. QED
  BY <1>1, AlwaysStoreInv, PTL

\* So is what a reader has open while it is replaced (config.load).
THEOREM ReadersAreSafe == Serial /\ Spec => []ReadersSeeWhole
<1>1. StoreInv => ReadersSeeWhole
  BY DEF StoreInv, NameInv, ReadersSeeWhole
<1>2. QED
  BY <1>1, AlwaysStoreInv, PTL

\* No acknowledged change is lost to a crash or to a command about another
\* setting (config.save and its callers).
THEOREM NothingIsLost == Serial /\ Spec => []AckedKept
<1>1. StoreInv => AckedKept
  BY DEF StoreInv, MayInv
<1>2. QED
  BY <1>1, AlwaysStoreInv, PTL

\* Reading the file as a config, a command that comes alone sets what it names,
\* all at once, and nothing else, before it is acknowledged (config.save).
THEOREM SaveIsAtomic == Serial /\ Spec => Refines
<1> DEFINE phase == [w \in Writers |-> Phase(w)]
           mapped == <<Parsed(path), phase, targets, value>>
<1>1. Init => Atomic!Init
  <2> SUFFICES ASSUME Init
               PROVE  /\ Parsed(path) \in Config
                      /\ phase = [w \in Writers |-> "idle"]
                      /\ targets = [w \in Writers |-> {}]
                      /\ value \in [Writers -> Values]
    BY DEF Atomic!Init, Atomic!Config, Config
  <2>1. Parsed(path) \in Config
    BY InitStoreInv, ParsedType DEF StoreInv, TypeOK
  <2>2. \A w \in Writers : Phase(w) = "idle"
    BY DEF Init, Phase, Threads
  <2>3. QED
    BY <2>1, <2>2 DEF Init
<1>2. StoreInv /\ [Next]_vars => [Atomic!Next]_mapped
  <2> SUFFICES ASSUME StoreInv, [Next]_vars
               PROVE  Atomic!Next \/ mapped' = mapped
    OBVIOUS
  <2> USE DEF Threads
  <2>0. TypeOK /\ CopyInv /\ OpenInv
    BY DEF StoreInv
  \* A step that moves one writer, from where it is to where it goes.
  <2>1. ASSUME NEW w \in Writers, NEW p, pc' = [pc EXCEPT ![w] = p]
        PROVE  phase' = [phase EXCEPT ![w] = Phase(w)']
    <3>1. \A u \in Writers : u # w => pc'[u] = pc[u]
      BY <2>0, <2>1 DEF TypeOK
    <3>2. QED
      BY <3>1 DEF Phase
  <2>2. ASSUME NEW t \in Readers, NEW p, pc' = [pc EXCEPT ![t] = p]
        PROVE  phase' = phase
    BY <2>0, <2>2, ThreadAssumption DEF TypeOK, Phase
  <2>3. ASSUME NEW w \in Writers, OpenTmp(w) \/ WriteTmp(w) \/ WriteFails(w)
        PROVE  Parsed(path)' = Parsed(path)
    <3>1. path' = path /\ (path # None => data'[path] = data[path])
      BY <2>3, UnusedIsFree
      DEF OpenTmp, WriteTmp, WriteFails, StoreInv, NameInv, CopyInv, TypeOK,
          names
    <3>2. QED
      BY <3>1, ParsedKept
  <2>4. path' = path /\ data' = data => Parsed(path)' = Parsed(path)
    BY ParsedKept
  <2>5. ASSUME NEW w \in Writers, NEW S \in Askable(w), NEW v \in Values, Ask(w, S, v)
        PROVE  Atomic!Next
    <3>1. Phase(w) = "idle" /\ Phase(w)' = "asked" /\ S \in SUBSET Settings
      BY <2>0, <2>5 DEF Ask, Phase, Askable, TypeOK
    <3>2. phase' = [phase EXCEPT ![w] = "asked"]
      BY <2>1, <2>5, <3>1 DEF Ask
    <3>3. Atomic!Ask(w, S, v)
      BY <2>4, <2>5, <3>1, <3>2 DEF Ask, Atomic!Ask, names
    <3>4. QED
      BY <3>1, <3>3 DEF Atomic!Next
  <2>6. ASSUME NEW w \in Writers, Load(w) \/ OpenTmp(w) \/ WriteTmp(w)
        PROVE  mapped' = mapped
    <3>1. Phase(w) = "asked" /\ Phase(w)' = "asked"
      BY <2>0, <2>6, ThreadAssumption
      DEF Load, OpenTmp, WriteTmp, Phase, TypeOK
    <3>2. phase' = [phase EXCEPT ![w] = "asked"]
      BY <2>1, <2>6, <3>1 DEF Load, OpenTmp, WriteTmp
    <3>3. phase' = phase
      BY <3>1, <3>2
    <3>4. QED
      BY <2>3, <2>4, <2>6, <3>3 DEF Load, OpenTmp, WriteTmp, asked, names
  <2>7. ASSUME NEW t \in Readers, Load(t) \/ Read(t)
        PROVE  mapped' = mapped
    <3>1. phase' = phase
      BY <2>2, <2>7 DEF Load, Read
    <3>2. QED
      BY <2>4, <2>7, <3>1 DEF Load, Read, asked, names
  <2>8. ASSUME NEW w \in Writers, Read(w)
        PROVE  Atomic!Next \/ mapped' = mapped
    <3>1. /\ pc[w] = "read" /\ fd[w] = path /\ w \notin Readers
          /\ Parsed(path)' = Parsed(path) /\ UNCHANGED <<targets, value>>
      BY <2>0, <2>4, <2>8, ThreadAssumption DEF Read, CopyInv, asked, names
    <3>2. Phase(w) = "asked"
      BY <3>1 DEF Phase
    <3>3. CASE pc' = [pc EXCEPT ![w] = "open"]
      <4>1. Phase(w)' = "asked"
        BY <2>0, <3>3 DEF Phase, TypeOK
      <4>2. phase' = phase
        BY <2>1, <3>2, <3>3, <4>1
      <4>3. QED
        BY <3>1, <4>2
    <3>4. CASE pc' = [pc EXCEPT ![w] = "reply"] /\ copy'[w] = Parsed(fd[w])
      <4>1. Phase(w)' = "done"
        BY <2>0, <3>4 DEF Phase, TypeOK
      <4>2. phase' = [phase EXCEPT ![w] = "done"]
        BY <2>1, <3>4, <4>1
      <4>3. copy'[w] = Applied(Parsed(path), targets[w], value[w])
        BY <2>0, <2>8, <3>1 DEF Read, TypeOK
      <4>4. Atomic!Set(w)
        BY <3>1, <3>2, <3>4, <4>2, <4>3 DEF Atomic!Set, Applied
      <4>5. QED
        BY <4>4 DEF Atomic!Next
    <3>5. QED
      BY <2>8, <3>1, <3>3, <3>4 DEF Read
  <2>9. ASSUME NEW w \in Writers, Replace(w) PROVE Atomic!Next
    <3>1. /\ Phase(w) = "asked" /\ Phase(w)' = "done"
      BY <2>0, <2>9, ReplaceStep DEF Phase, TypeOK
    <3>2. phase' = [phase EXCEPT ![w] = "done"]
      BY <2>1, <2>9, <3>1, ReplaceStep
    <3>3. Atomic!Set(w)
      BY <2>9, <3>1, <3>2, ReplaceStep DEF Atomic!Set, Applied
    <3>4. QED
      BY <3>3 DEF Atomic!Next
  <2>10. ASSUME NEW w \in Writers, Reply(w) PROVE Atomic!Next
    <3>1. Phase(w) = "done" /\ Phase(w)' = "idle"
      BY <2>0, <2>10 DEF Reply, Phase, TypeOK
    <3>2. phase' = [phase EXCEPT ![w] = "idle"]
      BY <2>1, <2>10, <3>1 DEF Reply
    <3>3. Atomic!Acknowledge(w)
      BY <2>4, <2>10, <3>1, <3>2 DEF Reply, Atomic!Acknowledge, asked, names
    <3>4. QED
      BY <3>3 DEF Atomic!Next
  <2>11. ASSUME NEW w \in Writers, WriteFails(w) PROVE Atomic!Next
    <3>1. Phase(w)' = "idle"
      BY <2>0, <2>11 DEF WriteFails, Phase, TypeOK
    <3>2. phase' = [u \in Writers |-> IF u \in {w} THEN "idle" ELSE phase[u]]
      BY <2>1, <2>11, <3>1 DEF WriteFails
    <3>3. Atomic!Fail({w})
      BY <2>3, <2>11, <3>2 DEF WriteFails, Atomic!Fail, asked
    <3>4. QED
      BY <3>3 DEF Atomic!Next
  <2>12. ASSUME NEW P \in Processes, Crash(P) PROVE Atomic!Next
    <3>1. phase' = [w \in Writers |-> IF w \in P \cap Writers THEN "idle" ELSE phase[w]]
      BY <2>0, <2>12 DEF Crash, Phase, TypeOK
    <3>2. Atomic!Fail(P \cap Writers)
      BY <2>4, <2>12, <3>1 DEF Crash, Atomic!Fail, asked, names
    <3>3. P \cap Writers \in SUBSET Writers
      OBVIOUS
    <3>4. QED
      BY <3>2, <3>3 DEF Atomic!Next
  <2>13. CASE UNCHANGED vars
    BY <2>4, <2>13 DEF vars, names, asked, Phase
  <2>14. QED
    BY <2>5, <2>6, <2>7, <2>8, <2>9, <2>10, <2>11, <2>12, <2>13 DEF Next, Save
<1>3. QED
  BY <1>1, <1>2, AlwaysStoreInv, PTL DEF Spec, Refines, Atomic!Spec, Atomic!vars

============================================================================
