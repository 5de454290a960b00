---------------------------- MODULE SettingsProofs ----------------------------
(***************************************************************************)
(* Proofs about Settings, for any patches and fields.  With one worker,    *)
(* saves do not overlap, and the inductive invariant IInv says what the    *)
(* temporary file is while one is under way: not config.toml, and at the   *)
(* rename a whole copy of the configuration in memory, which holds every   *)
(* patch that was answered.                                                *)
(***************************************************************************)
EXTENDS Settings, FiniteSetTheorems, TLAPS

(***************************************************************************)
(* Types, with any number of workers.                                      *)
(***************************************************************************)
\* A save that writes has a file open.
TypeInv ==
    /\ TypeOK
    /\ \A p \in Patch : pc[p] = "write" => fd[p] # NoInode

LEMMA ConfigTypes ==
    /\ FirstConfig \in Config /\ Defaults \in Config
    /\ \A config \in Config : WithOverrides(config) \in Config
    /\ \A config \in Config, p \in Patch :
         [f \in Field |-> IF f \in Sets[p] THEN p ELSE config[f]] \in Config
BY DEF FirstConfig, Defaults, Config, WithOverrides, Origin

\* Every step keeps the types.
LEMMA NextTypeInv == TypeInv /\ [Next]_vars => TypeInv'
<1> SUFFICES ASSUME TypeInv, [Next]_vars PROVE TypeInv'
  OBVIOUS
<1> USE DEF TypeInv, TypeOK
<1>1. ASSUME NEW p \in Patch, Reject(p) PROVE TypeInv'
  BY <1>1 DEF Reject, GoTo, Running
<1>2. ASSUME NEW p \in Patch, Apply(p) PROVE TypeInv'
  <2>1. Merge(p) \in Config
    BY ConfigTypes DEF Merge
  <2>2. merged' \in Seq(Patch)
    BY <1>2 DEF Apply
  <2> QED
    BY <1>2, <2>1, <2>2 DEF Apply, GoTo, Running
<1>3. ASSUME NEW p \in Patch, OpenTmp(p) PROVE TypeInv'
  <2>1. PICK inode \in Inode :
          /\ fd' = [fd EXCEPT ![p] = inode]
          /\ tmp' = inode
          /\ content' = [content EXCEPT ![inode].state = "empty"]
    BY <1>3 DEF OpenTmp, Inode
  <2>2. inode # NoInode
    BY PatchAssumption DEF Inode, File, NoInode
  <2>3. content' \in [Inode -> Content]
    BY <2>1 DEF Content
  <2> QED
    BY <1>3, <2>1, <2>2, <2>3 DEF OpenTmp, GoTo, Running
<1>4. ASSUME NEW p \in Patch, WriteTmp(p) PROVE TypeInv'
  <2>1. PICK state \in {"whole", "torn"} :
          content' = [content EXCEPT ![fd[p]] = [state |-> state, config |-> copy[p]]]
    BY <1>4 DEF WriteTmp
  <2>2. content' \in [Inode -> Content]
    BY <1>4, <2>1 DEF Content
  <2> QED
    BY <1>4, <2>2 DEF WriteTmp, GoTo, Running
<1>5. ASSUME NEW p \in Patch, RenameTmp(p) PROVE TypeInv'
  BY <1>5 DEF RenameTmp, GoTo, Running
<1>6. ASSUME NEW p \in Patch, SaveError(p) PROVE TypeInv'
  <2>1. content' \in [Inode -> Content]
    <3>1. CASE content' = content
      BY <3>1
    <3>2. CASE pc[p] = "write" /\ content' = [content EXCEPT ![fd[p]].state = "torn"]
      <4>1. fd[p] \in Inode
        BY <3>2
      <4> QED
        BY <3>2, <4>1 DEF Content
    <3> QED
      BY <1>6, <3>1, <3>2 DEF SaveError
  <2> QED
    BY <1>6, <2>1 DEF SaveError, GoTo, Running
<1>7. CASE Crash
  BY <1>7 DEF Crash, Running
<1>8. CASE Start
  <2>1. (IF content[path].state = "whole" THEN content[path].config ELSE Defaults) \in Config
    BY ConfigTypes DEF Content
  <2> QED
    BY <1>8, <2>1, ConfigTypes DEF Start
<1>9. CASE UNCHANGED vars
  BY <1>9 DEF vars
<1> QED
  BY <1>1, <1>2, <1>3, <1>4, <1>5, <1>6, <1>7, <1>8, <1>9 DEF Next

LEMMA InitTypeInv == Init => TypeInv
BY ConfigTypes DEF Init, TypeInv, TypeOK, Running, Inode, Content

\* Every variable stays in the states apply_settings_patch and save can reach,
\* however many requests overlap.
THEOREM TypeCorrect == Spec => []TypeOK
<1>1. TypeInv => TypeOK
  BY DEF TypeInv
<1> QED
  BY <1>1, InitTypeInv, NextTypeInv, PTL DEF Spec

(***************************************************************************)
(* One worker.                                                             *)
(***************************************************************************)
\* At most one save runs.
Alone == \A p, q \in Patch : pc[p] \in Running /\ pc[q] \in Running => p = q

\* A server that is down has no save under way and no answer it could not keep.
DownIsQuiet == ~up => \A p \in Patch : pc[p] \notin Running \cup {"failed"}

\* An inode is named after its save has opened it, and has one name.
NamesDiffer ==
    /\ tmp # path
    /\ \A p \in Patch : pc[p] \in {"idle", "rejected", "open"} => path # p /\ tmp # p

\* config.toml is whole, and the temporary file what its save made of it.
FilesWhole ==
    /\ content[path].state = "whole"
    /\ \A p \in Patch :
         /\ pc[p] \in {"write", "rename"} => tmp # NoInode /\ fd[p] = tmp
         /\ pc[p] = "write" => content[tmp].state = "empty"
         /\ pc[p] = "rename" => content[tmp] = [state |-> "whole", config |-> copy[p]]

\* What is saved, and what is in memory, holds every patch answered so far.
AnswersHeld ==
    \A p \in Patch :
        /\ pc[p] = "saved" => Holds(content[path].config, p)
        /\ up /\ pc[p] \in Running \cup {"saved", "failed"} => Holds(memory, p)
        /\ pc[p] \in Running => copy[p] = memory

IInv ==
    /\ TypeInv
    /\ Alone
    /\ DownIsQuiet
    /\ NamesDiffer
    /\ FilesWhole
    /\ AnswersHeld

\* Holds, of a list of merged patches.
HeldBy(list, config, p) ==
    \A f \in Sets[p] :
        \E i, j \in 1 .. Len(list) : i <= j /\ list[i] = p /\ list[j] = config[f]

MergeInto(config, q) == [f \in Field |-> IF f \in Sets[q] THEN q ELSE config[f]]

\* One more patch merged: it holds, and so does what held before.
LEMMA MergeHolds ==
    ASSUME NEW list \in Seq(Patch), NEW q \in Patch, NEW config
    PROVE  /\ HeldBy(Append(list, q), MergeInto(config, q), q)
           /\ \A p \in Patch : HeldBy(list, config, p) =>
                /\ HeldBy(Append(list, q), config, p)
                /\ HeldBy(Append(list, q), MergeInto(config, q), p)
<1> DEFINE longer == Append(list, q)
           n == Len(list)
<1>1. /\ n \in Nat /\ Len(longer) = n + 1 /\ longer[n + 1] = q
      /\ \A i \in 1 .. n : longer[i] = list[i]
  OBVIOUS
<1>2. \A p \in Patch : Sets[p] \subseteq Field
  BY SetsAssumption
<1> HIDE DEF longer, n
<1>3. HeldBy(longer, MergeInto(config, q), q)
  <2> SUFFICES ASSUME NEW f \in Sets[q]
               PROVE  \E i, j \in 1 .. Len(longer) :
                        i <= j /\ longer[i] = q /\ longer[j] = MergeInto(config, q)[f]
    BY DEF HeldBy
  <2>1. MergeInto(config, q)[f] = q
    BY <1>2 DEF MergeInto
  <2>2. n + 1 \in 1 .. Len(longer)
    BY <1>1
  <2> QED
    BY <1>1, <2>1, <2>2
<1>4. ASSUME NEW p \in Patch, HeldBy(list, config, p)
      PROVE  HeldBy(longer, config, p) /\ HeldBy(longer, MergeInto(config, q), p)
  <2> SUFFICES ASSUME NEW f \in Sets[p]
               PROVE  /\ \E i, j \in 1 .. Len(longer) :
                           i <= j /\ longer[i] = p /\ longer[j] = config[f]
                      /\ \E i, j \in 1 .. Len(longer) :
                           i <= j /\ longer[i] = p /\ longer[j] = MergeInto(config, q)[f]
    BY DEF HeldBy
  <2>1. PICK i \in 1 .. n, j \in 1 .. n : i <= j /\ list[i] = p /\ list[j] = config[f]
    BY <1>4 DEF HeldBy, n
  <2>2. i \in 1 .. Len(longer) /\ j \in 1 .. Len(longer) /\ n + 1 \in 1 .. Len(longer)
    BY <1>1
  <2>3. MergeInto(config, q)[f] = IF f \in Sets[q] THEN q ELSE config[f]
    BY <1>2 DEF MergeInto
  <2>4. longer[i] = p /\ longer[j] = config[f] /\ longer[n + 1] = q /\ i <= n + 1
    BY <1>1, <2>1
  <2> QED
    BY <2>1, <2>2, <2>3, <2>4
<1> QED
  BY <1>3, <1>4 DEF longer

LEMMA HoldsIsHeldBy ==
    ASSUME merged \in Seq(Patch), NEW config, NEW p
    PROVE  Holds(config, p) <=> HeldBy(merged, config, p)
BY DEF Holds, HeldBy

\* What a save holds of a patch is not in the fields the command line overrides.
LEMMA OverridesHold ==
    ASSUME NEW list, NEW p \in Patch, NEW config \in Config, HeldBy(list, config, p)
    PROVE  HeldBy(list, WithOverrides(config), p)
<1>1. \A f \in Sets[p] : WithOverrides(config)[f] = config[f]
  BY SetsAssumption DEF WithOverrides
<1> QED
  BY <1>1 DEF HeldBy

\* With one worker, a request waits until no save runs.
LEMMA NoneRuns ==
    ASSUME Workers = 1, Alone, Cardinality({q \in Patch : pc[q] \in Running}) < Workers
    PROVE  \A q \in Patch : pc[q] \notin Running
<1> DEFINE busy == {q \in Patch : pc[q] \in Running}
<1> SUFFICES ASSUME NEW q \in busy PROVE FALSE
  OBVIOUS
<1>1. busy = {q}
  BY DEF Alone
<1>2. Cardinality(busy) = 1
  BY <1>1, FS_Singleton
<1> QED
  BY <1>2

LEMMA InitIInv == Init => IInv
<1> SUFFICES ASSUME Init PROVE IInv
  OBVIOUS
<1>1. TypeInv
  BY InitTypeInv
<1>2. NamesDiffer
  BY PatchAssumption DEF Init, NamesDiffer, File, NoInode
<1> QED
  BY <1>1, <1>2 DEF Init, IInv, Alone, DownIsQuiet, FilesWhole, AnswersHeld, Running, Inode

\* AnswersHeld in terms of HeldBy, before and after a step.
LEMMA AnswersHeldNow ==
    ASSUME TypeOK, AnswersHeld, NEW p \in Patch
    PROVE  /\ pc[p] = "saved" => HeldBy(merged, content[path].config, p)
           /\ up /\ pc[p] \in Running \cup {"saved", "failed"} => HeldBy(merged, memory, p)
           /\ pc[p] \in Running => copy[p] = memory
BY HoldsIsHeldBy DEF AnswersHeld, TypeOK

LEMMA AnswersHeldNext ==
    ASSUME TypeOK',
           \A p \in Patch :
             /\ pc'[p] = "saved" => HeldBy(merged', content'[path'].config, p)
             /\ up' /\ pc'[p] \in Running \cup {"saved", "failed"} => HeldBy(merged', memory', p)
             /\ pc'[p] \in Running => copy'[p] = memory'
    PROVE  AnswersHeld'
<1>1. DOMAIN merged' = 1 .. Len(merged')
  BY DEF TypeOK
<1> QED
  BY <1>1 DEF AnswersHeld, Holds, HeldBy

\* A step that merges nothing and moves one request on leaves what holds as it is.
LEMMA AnswersStay ==
    ASSUME IInv, TypeOK', UNCHANGED <<up, memory, merged, copy>>, content'[path'] = content[path],
           \A p \in Patch :
             /\ pc'[p] = "saved" => pc[p] = "saved"
             /\ pc'[p] \in Running => pc[p] \in Running
             /\ pc'[p] = "failed" => pc[p] \in Running \cup {"failed"}
    PROVE  AnswersHeld'
BY AnswersHeldNow, AnswersHeldNext DEF IInv, TypeInv

\* Every step keeps the invariant.
LEMMA NextIInv == Workers = 1 /\ IInv /\ [Next]_vars => IInv'
<1> SUFFICES ASSUME Workers = 1, IInv, [Next]_vars PROVE IInv'
  OBVIOUS
<1>0. TypeInv /\ TypeOK /\ TypeInv' /\ TypeOK'
  BY NextTypeInv DEF IInv, TypeInv
<1> USE DEF Running
<1>1. ASSUME NEW p \in Patch, Reject(p) PROVE IInv'
  <2>1. /\ \A q \in Patch : pc'[q] = IF q = p THEN "rejected" ELSE pc[q]
        /\ UNCHANGED <<up, memory, merged, copy, fd, path, tmp, content>>
    BY <1>0, <1>1 DEF Reject, GoTo, TypeOK
  <2>2. AnswersHeld'
    BY <1>0, <2>1, AnswersStay
  <2> QED
    BY <1>0, <1>1, <2>1, <2>2
    DEF IInv, Reject, Alone, DownIsQuiet, NamesDiffer, FilesWhole
<1>2. ASSUME NEW p \in Patch, Apply(p) PROVE IInv'
  <2>1. /\ \A q \in Patch : pc'[q] = IF q = p THEN "open" ELSE pc[q]
        /\ copy'[p] = Merge(p) /\ memory' = Merge(p) /\ merged' = Append(merged, p)
        /\ up /\ pc[p] = "idle"
        /\ UNCHANGED <<up, fd, path, tmp, content>>
    BY <1>0, <1>2 DEF Apply, GoTo, TypeOK
  <2>2. \A q \in Patch : pc[q] \notin Running
    BY <1>2, NoneRuns DEF IInv, Apply
  <2>3. Merge(p) = MergeInto(memory, p)
    BY DEF Merge, MergeInto
  <2>4. /\ HeldBy(merged', memory', p)
        /\ \A q \in Patch : \A config : HeldBy(merged, config, q) => HeldBy(merged', config, q)
        /\ \A q \in Patch : HeldBy(merged, memory, q) => HeldBy(merged', memory', q)
    <3>1. merged \in Seq(Patch) /\ p \in Patch
      BY <1>0 DEF TypeOK
    <3>2. merged' = Append(merged, p) /\ memory' = MergeInto(memory, p)
      BY <2>1, <2>3
    <3>3. HeldBy(merged', memory', p)
      BY <3>1, <3>2, MergeHolds
    <3>4. \A q \in Patch : \A config : HeldBy(merged, config, q) => HeldBy(merged', config, q)
      BY <3>1, <3>2, MergeHolds
    <3>5. \A q \in Patch : HeldBy(merged, memory, q) => HeldBy(merged', memory', q)
      BY <3>1, <3>2, MergeHolds
    <3> QED
      BY <3>3, <3>4, <3>5
  <2>5. AnswersHeld'
    BY <1>0, <2>1, <2>2, <2>4, AnswersHeldNow, AnswersHeldNext DEF IInv
  <2>6. Alone' /\ DownIsQuiet' /\ NamesDiffer'
    BY <1>0, <2>1, <2>2 DEF IInv, Alone, DownIsQuiet, NamesDiffer
  <2>7. FilesWhole'
    BY <1>0, <2>1, <2>2 DEF IInv, FilesWhole
  <2> QED
    BY <1>0, <2>5, <2>6, <2>7 DEF IInv
<1>3. ASSUME NEW p \in Patch, OpenTmp(p) PROVE IInv'
  <2>1. PICK inode \in Inode :
          /\ inode = IF tmp = NoInode THEN p ELSE tmp
          /\ fd' = [fd EXCEPT ![p] = inode]
          /\ tmp' = inode
          /\ content' = [content EXCEPT ![inode].state = "empty"]
    BY <1>0, <1>3 DEF OpenTmp, Inode, TypeOK
  <2>2. /\ \A q \in Patch : pc'[q] = IF q = p THEN "write" ELSE pc[q]
        /\ pc[p] = "open" /\ fd'[p] = inode
        /\ UNCHANGED <<up, memory, merged, copy, path>>
    BY <1>0, <1>3, <2>1 DEF OpenTmp, GoTo, TypeOK
  <2>3. \A q \in Patch \ {p} : pc[q] \notin Running
    BY <2>2 DEF IInv, Alone
  <2>4. inode # path /\ inode # NoInode
    BY <2>1, <2>2, PatchAssumption DEF IInv, NamesDiffer, Inode, File, NoInode
  <2>5. content'[path] = content[path] /\ content'[inode].state = "empty"
    BY <1>0, <2>1, <2>4 DEF TypeOK, Content
  <2>6. AnswersHeld'
    BY <1>0, <2>2, <2>5, AnswersStay
  <2>7. NamesDiffer'
    BY <2>1, <2>2, <2>3, <2>4 DEF IInv, NamesDiffer
  <2>8. FilesWhole'
    BY <2>1, <2>2, <2>3, <2>4, <2>5 DEF IInv, FilesWhole
  <2> QED
    BY <1>0, <2>2, <2>3, <2>6, <2>7, <2>8 DEF IInv, Alone, DownIsQuiet
<1>4. ASSUME NEW p \in Patch, WriteTmp(p) PROVE IInv'
  <2>1. /\ \A q \in Patch : pc'[q] = IF q = p THEN "rename" ELSE pc[q]
        /\ pc[p] = "write"
        /\ UNCHANGED <<up, memory, merged, copy, fd, path, tmp>>
    BY <1>0, <1>4 DEF WriteTmp, GoTo, TypeOK
  <2>2. \A q \in Patch \ {p} : pc[q] \notin Running
    BY <2>1 DEF IInv, Alone
  <2>3. fd[p] = tmp /\ tmp # NoInode /\ tmp # path /\ content[tmp].state = "empty"
    BY <2>1 DEF IInv, FilesWhole, NamesDiffer
  <2>4. content' = [content EXCEPT ![tmp] = [state |-> "whole", config |-> copy[p]]]
    BY <1>4, <2>3 DEF WriteTmp
  <2>5. content'[path] = content[path] /\ content'[tmp] = [state |-> "whole", config |-> copy[p]]
    BY <1>0, <2>3, <2>4 DEF TypeOK
  <2>6. AnswersHeld'
    BY <1>0, <2>1, <2>5, AnswersStay
  <2>7. FilesWhole'
    BY <2>1, <2>2, <2>3, <2>5 DEF IInv, FilesWhole
  <2> QED
    BY <1>0, <2>1, <2>2, <2>6, <2>7 DEF IInv, Alone, DownIsQuiet, NamesDiffer
<1>5. ASSUME NEW p \in Patch, RenameTmp(p) PROVE IInv'
  <2>1. /\ pc[p] = "rename" /\ tmp # NoInode /\ tmp # path
        /\ content[tmp] = [state |-> "whole", config |-> copy[p]]
    BY <1>5 DEF IInv, FilesWhole, NamesDiffer, RenameTmp
  <2>2. /\ \A q \in Patch : pc'[q] = IF q = p THEN "saved" ELSE pc[q]
        /\ path' = tmp /\ tmp' = NoInode
        /\ UNCHANGED <<up, memory, merged, copy, fd, content>>
    BY <1>0, <1>5, <2>1 DEF RenameTmp, GoTo, TypeOK
  <2>3. \A q \in Patch \ {p} : pc[q] \notin Running
    BY <2>1 DEF IInv, Alone
  <2>4. up /\ copy[p] = memory
    BY <2>1 DEF IInv, DownIsQuiet, AnswersHeld
  <2>5. content'[path'].config = memory /\ content'[path'].state = "whole"
    BY <2>1, <2>2, <2>4
  <2>6. AnswersHeld'
    BY <1>0, <2>1, <2>2, <2>4, <2>5, AnswersHeldNow, AnswersHeldNext DEF IInv
  <2>7. NamesDiffer'
    BY <2>1, <2>2, <2>3, PatchAssumption DEF IInv, NamesDiffer, NoInode
  <2>8. FilesWhole'
    BY <2>2, <2>3, <2>5 DEF IInv, FilesWhole
  <2> QED
    BY <1>0, <2>2, <2>3, <2>4, <2>6, <2>7, <2>8 DEF IInv, Alone, DownIsQuiet
<1>6. ASSUME NEW p \in Patch, SaveError(p) PROVE IInv'
  <2>1. /\ \A q \in Patch : pc'[q] = IF q = p THEN "failed" ELSE pc[q]
        /\ pc[p] \in Running
        /\ UNCHANGED <<up, memory, merged, copy, fd, path, tmp>>
    BY <1>0, <1>6 DEF SaveError, GoTo, TypeOK
  <2>2. \A q \in Patch \ {p} : pc[q] \notin Running
    BY <2>1 DEF IInv, Alone
  <2>3. content'[path] = content[path]
    <3>1. CASE pc[p] = "write" /\ content' = [content EXCEPT ![fd[p]].state = "torn"]
      <4>1. fd[p] # path
        BY <3>1 DEF IInv, FilesWhole, NamesDiffer
      <4> QED
        BY <1>0, <3>1, <4>1 DEF TypeOK
    <3> QED
      BY <1>6, <3>1 DEF SaveError
  <2>4. AnswersHeld'
    BY <1>0, <2>1, <2>3, AnswersStay
  <2>5. FilesWhole'
    BY <2>1, <2>2, <2>3 DEF IInv, FilesWhole
  <2>6. DownIsQuiet'
    BY <2>1 DEF IInv, DownIsQuiet
  <2> QED
    BY <1>0, <2>1, <2>2, <2>4, <2>5, <2>6 DEF IInv, Alone, NamesDiffer
<1>7. CASE Crash
  <2>1. /\ \A q \in Patch : pc'[q] = IF pc[q] \in Running \cup {"failed"} THEN "lost" ELSE pc[q]
        /\ up' = FALSE
        /\ UNCHANGED <<memory, merged, copy, fd, path, tmp, content>>
    BY <1>0, <1>7 DEF Crash, TypeOK
  <2>2. AnswersHeld'
    BY <1>0, <2>1, AnswersHeldNow, AnswersHeldNext DEF IInv
  <2> QED
    BY <1>0, <2>1, <2>2 DEF IInv, Alone, DownIsQuiet, NamesDiffer, FilesWhole
<1>8. CASE Start
  <2>1. content[path].state = "whole" /\ content[path].config \in Config
    BY <1>0 DEF IInv, FilesWhole, TypeOK, Content
  <2>2. /\ ~up /\ memory' = WithOverrides(content[path].config)
        /\ UNCHANGED <<merged, pc, copy, fd, path, tmp, content>>
    BY <1>8, <2>1 DEF Start
  <2>3. \A q \in Patch : pc[q] \notin Running \cup {"failed"}
    BY <2>2 DEF IInv, DownIsQuiet
  <2>4. \A q \in Patch : HeldBy(merged, content[path].config, q) => HeldBy(merged', memory', q)
    BY <2>1, <2>2, OverridesHold
  <2>5. AnswersHeld'
    BY <1>0, <2>2, <2>3, <2>4, AnswersHeldNow, AnswersHeldNext DEF IInv
  <2> QED
    BY <1>0, <2>2, <2>3, <2>5 DEF IInv, Alone, DownIsQuiet, NamesDiffer, FilesWhole
<1>9. CASE UNCHANGED vars
  <2>1. AnswersHeld'
    BY <1>0, <1>9, AnswersStay DEF vars
  <2> QED
    BY <1>0, <1>9, <2>1 DEF vars, IInv, Alone, DownIsQuiet, NamesDiffer, FilesWhole
<1> QED
  BY <1>1, <1>2, <1>3, <1>4, <1>5, <1>6, <1>7, <1>8, <1>9 DEF Next

\* While saves do not overlap, the invariant holds in every reachable state.
LEMMA Invariance == ASSUME Workers = 1 PROVE Spec => []IInv
<1>1. IInv /\ [Next]_vars => IInv'
  BY NextIInv
<1> QED
  BY <1>1, InitIInv, PTL DEF Spec

\* While saves do not overlap, config.toml is whole whenever the process has
\* stopped: "a crash mid-write never leaves a truncated config.toml behind".
THEOREM FileStaysWhole == ASSUME Workers = 1 PROVE Spec => []ConfigFileWhole
<1>1. IInv => ConfigFileWhole
  BY DEF IInv, FilesWhole, ConfigFileWhole
<1> QED
  BY <1>1, Invariance, PTL

\* While saves do not overlap, what was answered as persisted survives failing
\* file operations, crashes and restarts.
THEOREM PersistedSurvives == ASSUME Workers = 1 PROVE Spec => []SavedSurvives
<1>1. IInv => SavedSurvives
  BY DEF IInv, FilesWhole, AnswersHeld, SavedSurvives
<1> QED
  BY <1>1, Invariance, PTL

\* While saves do not overlap, a running server has in effect every patch it
\* answered, and after a restart every patch it answered as persisted.
THEOREM AnswersInEffect == ASSUME Workers = 1 PROVE Spec => []AnsweredIsInEffect
<1>1. IInv => AnsweredIsInEffect
  BY DEF IInv, AnswersHeld, AnsweredIsInEffect
<1> QED
  BY <1>1, Invariance, PTL
=============================================================================
