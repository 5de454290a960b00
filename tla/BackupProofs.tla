---------------------------- MODULE BackupProofs ----------------------------
(***************************************************************************)
(* Proofs that IInv is an invariant of BackupService for every set of      *)
(* series, uploads and readers, both backends, with and without faults,    *)
(* that the safety properties follow from it, that BackupService           *)
(* implements VersionArchive, that an acknowledged upload stays listed,    *)
(* and that what ListBackups answers beside the uploads is complete and in *)
(* their order.                                                            *)
(***************************************************************************)
EXTENDS BackupInvariant, ListBackups, FiniteSetTheorems, SequenceTheorems, TLAPS

\* What the put of a new version's bytes does: the cell becomes the upload's
\* if the key was absent, and nothing else changes.
LEMMA DataWriteEffect ==
    ASSUME TypeOK, NEW u \in Upload, NextVersion(u) \in Versions, DataWrite(u)
    PROVE  /\ data' \in [Series -> [Versions -> DataCell]]
           /\ \A s \in Series : \A n \in Versions :
                data'[s][n] = IF s = target[u] /\ n = NextVersion(u)
                                 /\ ~Present(DataOf(u))
                              THEN [version |-> 1, value |-> u]
                              ELSE data[s][n]
<1>1. target[u] \in Series
  BY DEF TypeOK
<1>2. ASSUME NEW cell \in DataCell
      PROVE  Put(cell, FirstWrite, u) = IF ~Present(cell)
                                        THEN [version |-> 1, value |-> u]
                                        ELSE cell
  BY DEF Put, Accepts, FirstWrite, Unconditional, NewVersion, Present, DataCell
<1>3. DataOf(u) \in DataCell
  BY <1>1 DEF TypeOK, DataOf
<1>4. data' = [data EXCEPT ![target[u]][NextVersion(u)] =
                 IF ~Present(DataOf(u)) THEN [version |-> 1, value |-> u]
                                        ELSE DataOf(u)]
  BY <1>2, <1>3, <1>1 DEF DataWrite, DataOf, TypeOK
<1>5. [version |-> 1, value |-> u] \in DataCell
  BY DEF DataCell
<1>. QED
  BY <1>1, <1>3, <1>4, <1>5 DEF TypeOK, DataOf

\* What the put of the new manifest does when IInv holds: it is accepted, and
\* the series lists one more version, the upload's.
LEMMA ManifestWriteEffect ==
    ASSUME IInv, NEW u \in Upload, pc[u] \in {"putMeta", "lostMeta"},
           ManifestWrite(u)
    PROVE  /\ Accepts(meta[target[u]], base[u].version)
           /\ meta' \in [Series -> MetaCell]
           /\ \A s \in Series : s # target[u] => meta'[s] = meta[s]
           /\ meta'[target[u]].version = NextVersion(u)
           /\ meta'[target[u]].value = NewManifest(u)
           /\ NextVersion(u) = meta[target[u]].value.latest + 1
           /\ Len(meta'[target[u]].value.versions) = NextVersion(u)
           /\ DOMAIN meta'[target[u]].value.versions = 1 .. NextVersion(u)
           /\ \A n \in DOMAIN meta'[target[u]].value.versions :
                meta'[target[u]].value.versions[n] =
                  IF n = NextVersion(u) THEN [version |-> n, bytes |-> u]
                                        ELSE Listing(target[u])[n]
<1> DEFINE s == target[u]
           cell == [version |-> NextVersion(u), value |-> NewManifest(u)]
<1>1. /\ s \in Series
      /\ meta[s] \in MetaCell
      /\ base[u] = meta[s]
      /\ NextVersion(u) \in Versions
      /\ base[u].version = base[u].value.latest
      /\ Len(base[u].value.versions) = base[u].value.latest
  BY DEF IInv, TypeOK, HolderOwnsNext, Holder, BaseIsPast, Running, Lost,
         ManifestCounts, Listing
<1>2. /\ base[u].value.latest \in Nat
      /\ base[u].value.versions \in Seq(BackupVersion)
  BY <1>1, MaxVersionAssumption DEF MetaCell, BackupManifest
<1>3. Accepts(meta[s], base[u].version)
  BY <1>1 DEF Accepts
<1>4. NewVersion(base[u].version) = NextVersion(u)
  BY <1>1, <1>2 DEF NewVersion, Unconditional, NextVersion
<1>5. Put(meta[s], base[u].version, NewManifest(u)) = cell
  BY <1>3, <1>4 DEF Put
<1>6. [version |-> NextVersion(u), bytes |-> u] \in BackupVersion
  BY <1>1 DEF BackupVersion
<1>7. NewManifest(u) \in BackupManifest
  BY <1>1, <1>2, <1>6 DEF NewManifest, BackupManifest, Versions
<1>8. cell \in MetaCell
  BY <1>1, <1>7 DEF MetaCell, Versions
<1>9. meta' = [meta EXCEPT ![s] = cell]
  BY <1>1, <1>5 DEF ManifestWrite, IInv, TypeOK
<1>10. meta' \in [Series -> MetaCell] /\ meta'[s] = cell
       /\ \A t \in Series : t # s => meta'[t] = meta[t]
  BY <1>1, <1>8, <1>9 DEF IInv, TypeOK
<1>11. /\ Len(NewManifest(u).versions) = NextVersion(u)
       /\ DOMAIN NewManifest(u).versions = 1 .. NextVersion(u)
       /\ \A n \in DOMAIN NewManifest(u).versions :
            NewManifest(u).versions[n] =
              IF n = NextVersion(u) THEN [version |-> n, bytes |-> u]
                                    ELSE base[u].value.versions[n]
  BY <1>1, <1>2, <1>6 DEF NewManifest, NextVersion
<1>. QED
  BY <1>1, <1>3, <1>10, <1>11 DEF Listing, NextVersion

\* Where a running upload goes when it is abandoned.
LEMMA AbandonedStep ==
    ASSUME NEW step \in Running
    PROVE  /\ Abandoned(step) \in Step
           /\ Abandoned(step) \in {"failed", "lostData", "lostMeta"}
           /\ Abandoned(step) = "lostData" => step = "putData" /\ Backend = "vss"
           /\ Abandoned(step) = "lostMeta" => step = "putMeta" /\ Backend = "vss"
BY DEF Abandoned, Running, Step, Lost

\* The invariant holds when the server starts over an empty store.
THEOREM InitEstablishes == Init => IInv
<1> SUFFICES ASSUME Init PROVE IInv
  OBVIOUS
<1>0. NoManifest \in BackupManifest
  BY MaxVersionAssumption DEF NoManifest, BackupManifest
<1>1. TypeOK
  <2>1. NoChallenge \in Challenge
    BY MaxVersionAssumption DEF NoChallenge, Challenge, Latest
  <2>2. Absent(NoManifest) \in MetaCell /\ Absent(NoBytes) \in DataCell
    BY <1>0 DEF Absent, MetaCell, DataCell
  <2>. QED
    BY <2>1, <2>2 DEF Init, TypeOK, Step
<1>2. \A s \in Series : meta[s] = Absent(NoManifest) /\ Listing(s) = <<>>
  BY DEF Init, Absent, NoManifest, Listing
<1>3. ManifestCounts
  BY <1>2 DEF ManifestCounts, Absent, NoManifest
<1>4. VersionsIntact /\ ListedIsSeedable
  BY <1>2 DEF VersionsIntact, ListedIsSeedable
<1>5. DataOwned
  BY DEF Init, DataOwned, Present, Absent
<1>6. BaseIsPast /\ HolderOwnsNext /\ LostOnlyRemotely
  BY DEF Init, BaseIsPast, HolderOwnsNext, LostOnlyRemotely, Running, Lost, Holder
<1>7. ReaderHoldsStored
  BY DEF Init, ReaderHoldsStored, NoChallenge
<1>. QED
  BY <1>1, <1>3, <1>4, <1>5, <1>6, <1>7 DEF IInv

\* A listed version number is within the bound, and its key is present.
LEMMA ListedInRange ==
    ASSUME TypeOK, ManifestCounts, NEW s \in Series
    PROVE  DOMAIN Listing(s) = 1 .. meta[s].value.latest
           /\ \A n \in DOMAIN Listing(s) : n \in Versions
<1>1. meta[s] \in MetaCell /\ Len(Listing(s)) = meta[s].value.latest
  BY DEF TypeOK, ManifestCounts
<1>2. Listing(s) \in Seq(BackupVersion) /\ meta[s].value.latest \in 0 .. MaxVersion
  BY <1>1 DEF Listing, MetaCell, BackupManifest
<1>. QED
  BY <1>1, <1>2, MaxVersionAssumption DEF Versions

\* What a step that leaves the manifests alone, and the data keys that are
\* present, need not prove again.
LEMMA ListingsKept ==
    ASSUME IInv, TypeOK', UNCHANGED <<meta, target>>,
           \A s \in Series : \A n \in Versions :
             Present(data[s][n]) => data'[s][n] = data[s][n],
           \A s \in Series : \A n \in DOMAIN Listing(s) : seeds'[s][n] = seeds[s][n]
    PROVE  ManifestCounts' /\ VersionsIntact' /\ ListedIsSeedable'
<1>1. \A s \in Series : Listing(s)' = Listing(s)
  BY DEF Listing
<1>2. \A s \in Series : \A n \in DOMAIN Listing(s) : n \in Versions
  BY ListedInRange DEF IInv
<1>3. ManifestCounts'
  BY <1>1 DEF IInv, ManifestCounts
<1>4. VersionsIntact'
  BY <1>1, <1>2 DEF IInv, VersionsIntact, Present
<1>5. ListedIsSeedable'
  BY <1>1 DEF IInv, ListedIsSeedable
<1>. QED
  BY <1>3, <1>4, <1>5

\* A step that writes no data key keeps every key's owner, as long as an
\* upload that has written one goes neither back nor on to another version.
LEMMA OwnersKept ==
    ASSUME IInv, UNCHANGED <<data, target>>,
           \A w \in Upload : pc[w] \notin Unwritten =>
             base'[w] = base[w] /\ pc'[w] \notin Unwritten
    PROVE  DataOwned'
<1> SUFFICES ASSUME NEW s \in Series, NEW n \in Versions, Present(data[s][n])
             PROVE  LET w == data[s][n].value IN
                    /\ w \in Upload
                    /\ target[w] = s
                    /\ n = base'[w].value.latest + 1
                    /\ pc'[w] \notin Unwritten
  BY DEF DataOwned, NextVersion, Present, Unwritten
<1>. QED
  BY DEF IInv, DataOwned, NextVersion

(***************************************************************************)
(* One lemma per action.                                                   *)
(***************************************************************************)
LEMMA RejectTooLargeStep ==
    ASSUME IInv, NEW u \in Upload, RejectTooLarge(u)
    PROVE  IInv'
<1>1. TypeOK'
  BY DEF IInv, TypeOK, RejectTooLarge, GoTo, Step
<1>2. ManifestCounts' /\ VersionsIntact' /\ ListedIsSeedable'
  BY <1>1, ListingsKept DEF RejectTooLarge
<1>3. DataOwned'
  BY OwnersKept DEF IInv, TypeOK, RejectTooLarge, GoTo, Unwritten
<1>4. BaseIsPast' /\ LostOnlyRemotely'
  BY DEF IInv, TypeOK, RejectTooLarge, GoTo, BaseIsPast, LostOnlyRemotely,
         NextVersion, Running, Lost
<1>5. HolderOwnsNext'
  BY DEF IInv, TypeOK, RejectTooLarge, GoTo, HolderOwnsNext, NextVersion,
         DataOf, Holder
<1>6. ReaderHoldsStored'
  BY DEF IInv, RejectTooLarge, ReaderHoldsStored, Listing
<1>. QED
  BY <1>1, <1>2, <1>3, <1>4, <1>5, <1>6 DEF IInv

\* Reading the manifest (the first await of store_backup) preserves the invariant:
\* the base read is the present manifest.
LEMMA ReadManifestStep ==
    ASSUME IInv, NEW u \in Upload, ReadManifest(u)
    PROVE  IInv'
<1>0. /\ pc' = [pc EXCEPT ![u] = "putData"]
      /\ base' = [base EXCEPT ![u] = meta[target[u]]]
      /\ meta[target[u]] \in MetaCell
      /\ meta[target[u]].value.latest + 1 \in Versions
  BY MaxVersionAssumption
     DEF IInv, TypeOK, ReadManifest, GoTo, MetaCell, BackupManifest, Versions
<1>1. TypeOK'
  BY <1>0 DEF IInv, TypeOK, ReadManifest, Step, Running
<1>2. ManifestCounts' /\ VersionsIntact' /\ ListedIsSeedable'
  BY <1>1, ListingsKept DEF ReadManifest
<1>3. DataOwned'
  BY <1>0, OwnersKept DEF IInv, TypeOK, ReadManifest, Unwritten
<1>4. BaseIsPast' /\ LostOnlyRemotely'
  <2>1. /\ UNCHANGED <<meta, target>>
        /\ base'[u] = meta[target[u]] /\ pc'[u] = "putData"
        /\ \A w \in Upload \ {u} : base'[w] = base[w] /\ pc'[w] = pc[w]
    BY <1>0 DEF IInv, TypeOK, ReadManifest
  <2>2. meta[target[u]].value.latest \in Nat
    BY <1>0, MaxVersionAssumption DEF MetaCell, BackupManifest
  <2>3. BaseIsPast'
    BY <1>0, <2>1, <2>2 DEF IInv, BaseIsPast, NextVersion, Running, Lost
  <2>. QED
    BY <2>1, <2>3 DEF IInv, LostOnlyRemotely, Lost
<1>5. HolderOwnsNext'
  <2>1. \A w \in Upload : pc'[w] \in Holder =>
          pc[w] \in Holder /\ pc'[w] = pc[w] /\ base'[w] = base[w]
    BY <1>0 DEF IInv, TypeOK, Holder
  <2>2. UNCHANGED <<meta, data, seeds, target>>
    BY DEF ReadManifest
  <2>. QED
    BY <2>1, <2>2 DEF IInv, HolderOwnsNext, NextVersion, DataOf
<1>6. ReaderHoldsStored'
  BY DEF IInv, ReadManifest, ReaderHoldsStored, Listing
<1>. QED
  BY <1>1, <1>2, <1>3, <1>4, <1>5, <1>6 DEF IInv

\* The write of a data key, by a running request or by one that has ended.
LEMMA DataPutPreserves ==
    ASSUME IInv, NEW u \in Upload, pc[u] \in {"putData", "lostData"},
           DataWrite(u),
           NEW step \in {"seed", "conflict", "failed"}, GoTo(u, step),
           step = "seed" => ~Present(DataOf(u)),
           UNCHANGED <<meta, seeds, target, base, challenge>>
    PROVE  IInv'
<1>0. NextVersion(u) \in Versions /\ target[u] \in Series
  BY DEF IInv, TypeOK, BaseIsPast, Running, Lost
<1>1. /\ data' \in [Series -> [Versions -> DataCell]]
      /\ \A s \in Series : \A n \in Versions :
           data'[s][n] = IF s = target[u] /\ n = NextVersion(u)
                            /\ ~Present(DataOf(u))
                         THEN [version |-> 1, value |-> u]
                         ELSE data[s][n]
  BY <1>0, DataWriteEffect DEF IInv
<1>2. \A s \in Series : \A n \in Versions :
        Present(data[s][n]) => data'[s][n] = data[s][n]
  BY <1>1 DEF DataOf
<1>3. pc' = [pc EXCEPT ![u] = step]
  BY DEF GoTo
<1>4. TypeOK'
  BY <1>1, <1>3 DEF IInv, TypeOK, Step, Running
<1>5. ManifestCounts' /\ VersionsIntact' /\ ListedIsSeedable'
  BY <1>2, <1>4, ListingsKept
<1>6. DataOwned'
  <2> SUFFICES ASSUME NEW s \in Series, NEW n \in Versions, Present(data'[s][n])
               PROVE  LET w == data'[s][n].value IN
                      /\ w \in Upload
                      /\ target[w] = s
                      /\ n = NextVersion(w)
                      /\ pc'[w] \notin Unwritten
    BY DEF DataOwned, NextVersion, Present, Unwritten
  <2>1. CASE data'[s][n] = data[s][n]
    BY <2>1, <1>3 DEF IInv, TypeOK, DataOwned, Unwritten
  <2>2. CASE s = target[u] /\ n = NextVersion(u)
             /\ data'[s][n] = [version |-> 1, value |-> u]
    BY <2>2, <1>3 DEF IInv, TypeOK, Unwritten
  <2>. QED
    BY <2>1, <2>2, <1>1
<1>7. BaseIsPast'
  BY <1>3 DEF IInv, TypeOK, BaseIsPast, NextVersion, Running, Lost
<1>8. LostOnlyRemotely'
  BY <1>3 DEF IInv, TypeOK, LostOnlyRemotely, Lost
<1>9. HolderOwnsNext'
  <2> SUFFICES ASSUME NEW w \in Upload, pc'[w] \in Holder
               PROVE  /\ base[w] = meta[target[w]]
                      /\ Present(data'[target[w]][NextVersion(w)])
                      /\ data'[target[w]][NextVersion(w)].value = w
                      /\ pc'[w] # "seed" => seeds[target[w]][NextVersion(w)] = w
    BY DEF HolderOwnsNext, Holder, DataOf, NextVersion, Present
  <2>1. CASE w = u
    <3>1. step = "seed" /\ ~Present(DataOf(u))
      BY <2>1, <1>3 DEF IInv, TypeOK, Holder
    <3>2. meta[target[u]].value.latest = base[u].value.latest
      <4> DEFINE latest == meta[target[u]].value.latest
      <4>1. base[u].value.latest <= latest
        BY DEF IInv, BaseIsPast, Running, Lost
      <4>2. NextVersion(u) \notin DOMAIN Listing(target[u])
        BY <3>1, <1>0 DEF IInv, VersionsIntact, DataOf
      <4>3. DOMAIN Listing(target[u]) = 1 .. latest
        BY <1>0, ListedInRange DEF IInv
      <4>4. base[u].value.latest \in Nat /\ latest \in Nat
        BY <1>0, MaxVersionAssumption DEF IInv, TypeOK, MetaCell, BackupManifest
      <4>. QED
        BY <4>1, <4>2, <4>3, <4>4 DEF NextVersion
    <3>3. base[u] = meta[target[u]]
      BY <3>2 DEF IInv, BaseIsPast, Running, Lost
    <3>. QED
      BY <2>1, <3>1, <3>3, <1>0, <1>1, <1>3 DEF IInv, TypeOK, Present, Holder
  <2>2. CASE w # u
    <3>1. pc[w] \in Holder /\ pc'[w] = pc[w]
      BY <2>2, <1>3 DEF IInv, TypeOK
    <3>2. NextVersion(w) \in Versions /\ target[w] \in Series
      BY <3>1 DEF IInv, TypeOK, BaseIsPast, Holder, Running, Lost
    <3>. QED
      BY <3>1, <3>2, <1>2 DEF IInv, HolderOwnsNext, DataOf
  <2>. QED
    BY <2>1, <2>2
<1>10. ReaderHoldsStored'
  BY <1>2 DEF IInv, ReaderHoldsStored, Listing, Present
<1>. QED
  BY <1>4, <1>5, <1>6, <1>7, <1>8, <1>9, <1>10 DEF IInv

\* The conditional put of a data key preserves the invariant, accepted or refused.
LEMMA PutDataStep ==
    ASSUME IInv, NEW u \in Upload, PutData(u)
    PROVE  IInv'
<1>1. DataOf(u) \in DataCell
  BY DEF IInv, TypeOK, PutData, DataOf, BaseIsPast, Running
<1>2. Accepts(DataOf(u), FirstWrite) <=> ~Present(DataOf(u))
  BY <1>1 DEF DataCell, Accepts, FirstWrite, Unconditional, Present
<1>. QED
  BY <1>2, DataPutPreserves DEF PutData

\* So does a data put that the vss-server applies after its request has ended.
LEMMA LateDataStep ==
    ASSUME IInv, NEW u \in Upload, LateData(u)
    PROVE  IInv'
BY DataPutPreserves DEF LateData

\* The write of a manifest by its series' only holder.
LEMMA ManifestPutPreserves ==
    ASSUME IInv, NEW u \in Upload, pc[u] \in {"putMeta", "lostMeta"},
           ManifestWrite(u),
           NEW step \in {"created", "failed"}, GoTo(u, step),
           UNCHANGED <<data, seeds, target, base, challenge>>
    PROVE  IInv'
<1> DEFINE s0 == target[u]
           n0 == NextVersion(u)
<1>0. /\ s0 \in Series
      /\ n0 \in Versions
      /\ base[u] = meta[s0]
      /\ Present(data[s0][n0]) /\ data[s0][n0].value = u
      /\ seeds[s0][n0] = u
  BY DEF IInv, TypeOK, BaseIsPast, HolderOwnsNext, Holder, Running, Lost, DataOf
<1>1. /\ meta' \in [Series -> MetaCell]
      /\ \A s \in Series : s # s0 => meta'[s] = meta[s]
      /\ meta'[s0].version = n0
      /\ meta'[s0].value = NewManifest(u)
      /\ n0 = meta[s0].value.latest + 1
      /\ Len(meta'[s0].value.versions) = n0
      /\ DOMAIN meta'[s0].value.versions = 1 .. n0
      /\ \A n \in DOMAIN meta'[s0].value.versions :
           meta'[s0].value.versions[n] =
             IF n = n0 THEN [version |-> n, bytes |-> u] ELSE Listing(s0)[n]
  BY ManifestWriteEffect
<1>2. pc' = [pc EXCEPT ![u] = step]
  BY DEF GoTo
<1>3. TypeOK'
  BY <1>1, <1>2 DEF IInv, TypeOK, Step
<1> DEFINE list(s) == meta'[s].value.versions
<1>4. \A s \in Series : s # s0 => list(s) = Listing(s)
  BY <1>1 DEF Listing
<1>5. meta'[s0].value.latest = n0
  BY <1>1 DEF NewManifest
<1>6. ManifestCounts'
  BY <1>1, <1>5 DEF IInv, ManifestCounts, Listing
<1>7. DOMAIN list(s0) = 1 .. n0 /\ DOMAIN Listing(s0) = 1 .. n0 - 1
  <2>1. DOMAIN Listing(s0) = 1 .. meta[s0].value.latest
    BY <1>0, ListedInRange DEF IInv
  <2>2. meta[s0].value.latest = n0 - 1
    BY <1>0, <1>1, MaxVersionAssumption DEF IInv, TypeOK, MetaCell, BackupManifest
  <2>. QED
    BY <2>1, <2>2, <1>1
<1>8. \A n \in DOMAIN list(s0) :
        list(s0)[n] = IF n = n0 THEN [version |-> n, bytes |-> u]
                                ELSE Listing(s0)[n]
  BY <1>1
<1>17. list(s0)[n0] = [version |-> n0, bytes |-> u]
  BY <1>0, <1>7, <1>8 DEF Versions
<1>9. \A n \in DOMAIN list(s0) : n # n0 => n \in DOMAIN Listing(s0)
  BY <1>7, <1>0 DEF Versions
<1>10. VersionsIntact'
  <2> SUFFICES ASSUME NEW s \in Series, NEW n \in DOMAIN list(s)
               PROVE  /\ list(s)[n].version = n
                      /\ Present(data[s][n])
                      /\ data[s][n].value = list(s)[n].bytes
    BY DEF VersionsIntact, Present, Listing
  <2>1. CASE s # s0
    BY <2>1, <1>4 DEF IInv, VersionsIntact
  <2>2. CASE s = s0 /\ n = n0
    BY <2>2, <1>0, <1>17
  <2>3. CASE s = s0 /\ n # n0
    <3>1. n \in DOMAIN Listing(s0) /\ list(s0)[n] = Listing(s0)[n]
      BY <2>3, <1>8, <1>9
    <3>. QED
      BY <2>3, <3>1, <1>0 DEF IInv, VersionsIntact
  <2>. QED
    BY <2>1, <2>2, <2>3
<1>11. ListedIsSeedable'
  <2> SUFFICES ASSUME NEW s \in Series, NEW n \in DOMAIN list(s)
               PROVE  seeds[s][n] = list(s)[n].bytes
    BY DEF ListedIsSeedable, Listing
  <2>1. CASE s # s0
    BY <2>1, <1>4 DEF IInv, ListedIsSeedable
  <2>2. CASE s = s0 /\ n = n0
    BY <2>2, <1>0, <1>17
  <2>3. CASE s = s0 /\ n # n0
    BY <2>3, <1>0, <1>8, <1>9 DEF IInv, ListedIsSeedable
  <2>. QED
    BY <2>1, <2>2, <2>3
<1>12. DataOwned'
  BY <1>2, OwnersKept DEF IInv, TypeOK, Unwritten
<1>13. LostOnlyRemotely'
  BY <1>2 DEF IInv, TypeOK, LostOnlyRemotely, Lost
<1>14. BaseIsPast'
  <2> SUFFICES ASSUME NEW w \in Upload, pc'[w] \in Running \cup Lost
               PROVE  LET cell == meta'[target[w]] IN
                      /\ NextVersion(w) \in Versions
                      /\ base[w].value.latest <= cell.value.latest
                      /\ base[w].value.latest = cell.value.latest => base[w] = cell
    BY DEF BaseIsPast, NextVersion, Running, Lost
  <2>1. pc[w] \in Running \cup Lost
    BY <1>2 DEF IInv, TypeOK, Running, Lost
  <2>2. /\ base[w].value.latest \in Nat
        /\ target[w] \in Series
        /\ meta[target[w]].value.latest \in Nat
    BY MaxVersionAssumption DEF IInv, TypeOK, MetaCell, BackupManifest
  <2>3. CASE target[w] # s0
    BY <2>1, <2>2, <2>3, <1>1 DEF IInv, BaseIsPast
  <2>4. CASE target[w] = s0
    <3>1. base[w].value.latest <= meta[s0].value.latest
          /\ NextVersion(w) \in Versions
      BY <2>1, <2>4 DEF IInv, BaseIsPast
    <3>2. base[w].value.latest < meta'[s0].value.latest
      BY <3>1, <2>2, <2>4, <1>1, <1>5
    <3>. QED
      BY <3>1, <3>2, <2>2, <2>4, <1>0, <1>5 DEF Versions
  <2>. QED
    BY <2>3, <2>4
<1>15. HolderOwnsNext'
  <2> SUFFICES ASSUME NEW w \in Upload, pc'[w] \in Holder
               PROVE  /\ base[w] = meta'[target[w]]
                      /\ Present(data[target[w]][NextVersion(w)])
                      /\ data[target[w]][NextVersion(w)].value = w
                      /\ pc'[w] # "seed" => seeds[target[w]][NextVersion(w)] = w
    BY DEF HolderOwnsNext, Holder, DataOf, NextVersion, Present
  <2>1. w # u /\ pc[w] \in Holder /\ pc'[w] = pc[w] /\ target[w] \in Series
    BY <1>2 DEF IInv, TypeOK, Holder
  <2>2. /\ base[w] = meta[target[w]]
        /\ Present(data[target[w]][NextVersion(w)])
        /\ data[target[w]][NextVersion(w)].value = w
        /\ pc[w] # "seed" => seeds[target[w]][NextVersion(w)] = w
    BY <2>1 DEF IInv, HolderOwnsNext, DataOf
  <2>3. target[w] # s0
    <3>1. target[w] = s0 => NextVersion(w) = n0
      BY <2>2, <1>0 DEF NextVersion
    <3>. QED
      BY <2>1, <2>2, <3>1, <1>0
  <2>4. meta'[target[w]] = meta[target[w]]
    BY <2>1, <2>3, <1>1
  <2>. QED
    BY <2>1, <2>4, <2>2
<1>16. ReaderHoldsStored'
  <2>1. \A s \in Series : DOMAIN Listing(s) \subseteq DOMAIN list(s)
    BY <1>4, <1>7, <1>0 DEF Versions
  <2>. QED
    BY <2>1 DEF IInv, ReaderHoldsStored, Present, Listing
<1>. QED
  BY <1>3, <1>6, <1>10, <1>11, <1>12, <1>13, <1>14, <1>15, <1>16 DEF IInv

\* The conditional put of the manifest preserves the invariant.
LEMMA PutManifestStep ==
    ASSUME IInv, NEW u \in Upload, PutManifest(u)
    PROVE  IInv'
<1>1. Accepts(meta[target[u]], base[u].version)
  BY ManifestWriteEffect DEF PutManifest
<1>. QED
  BY <1>1, ManifestPutPreserves DEF PutManifest

\* So does a manifest put that is applied after its request has ended.
LEMMA LateManifestStep ==
    ASSUME IInv, NEW u \in Upload, LateManifest(u)
    PROVE  IInv'
BY ManifestPutPreserves DEF LateManifest

\* A write of the seed file of a version that is not listed yet, by its holder.
LEMMA SeedPutPreserves ==
    ASSUME IInv, NEW u \in Upload, pc[u] = "seed",
           NEW content \in Upload \cup {NoBytes}, SeedWrite(u, content),
           NEW step \in {"putMeta", "failed"}, GoTo(u, step),
           step = "putMeta" => content = u,
           UNCHANGED <<meta, data, target, base, challenge>>
    PROVE  IInv'
<1> DEFINE s0 == target[u]
           n0 == NextVersion(u)
<1>0. s0 \in Series /\ n0 \in Versions /\ n0 \notin DOMAIN Listing(s0)
  <2>1. s0 \in Series /\ n0 \in Versions /\ base[u] = meta[s0]
    BY DEF IInv, TypeOK, BaseIsPast, HolderOwnsNext, Holder, Running
  <2>2. DOMAIN Listing(s0) = 1 .. meta[s0].value.latest
    BY <2>1, ListedInRange DEF IInv
  <2>3. n0 = meta[s0].value.latest + 1 /\ meta[s0].value.latest \in Nat
    BY <2>1, MaxVersionAssumption
       DEF IInv, TypeOK, MetaCell, BackupManifest, NextVersion
  <2>. QED
    BY <2>1, <2>2, <2>3
<1>1. /\ seeds' \in [Series -> [Versions -> Upload \cup {NoBytes}]]
      /\ \A s \in Series : \A n \in Versions :
           seeds'[s][n] = IF s = s0 /\ n = n0 THEN content ELSE seeds[s][n]
  BY <1>0 DEF IInv, TypeOK, SeedWrite
<1>2. pc' = [pc EXCEPT ![u] = step]
  BY DEF GoTo
<1>3. TypeOK'
  BY <1>1, <1>2 DEF IInv, TypeOK, Step, Running
<1>4. \A s \in Series : \A n \in DOMAIN Listing(s) : seeds'[s][n] = seeds[s][n]
  BY <1>0, <1>1, ListedInRange DEF IInv
<1>5. ManifestCounts' /\ VersionsIntact' /\ ListedIsSeedable'
  BY <1>3, <1>4, ListingsKept
<1>6. DataOwned'
  BY <1>2, OwnersKept DEF IInv, TypeOK, Unwritten
<1>7. BaseIsPast' /\ LostOnlyRemotely'
  BY <1>2 DEF IInv, TypeOK, BaseIsPast, LostOnlyRemotely, NextVersion, Running, Lost
<1>8. HolderOwnsNext'
  <2> SUFFICES ASSUME NEW w \in Upload, pc'[w] \in Holder
               PROVE  /\ base[w] = meta[target[w]]
                      /\ Present(data[target[w]][NextVersion(w)])
                      /\ data[target[w]][NextVersion(w)].value = w
                      /\ pc'[w] # "seed" => seeds'[target[w]][NextVersion(w)] = w
    BY DEF HolderOwnsNext, Holder, DataOf, NextVersion, Present
  <2>1. pc[w] \in Holder /\ target[w] \in Series /\ NextVersion(w) \in Versions
    BY <1>2 DEF IInv, TypeOK, Holder, BaseIsPast, Running, Lost
  <2>2. /\ base[w] = meta[target[w]]
        /\ Present(data[target[w]][NextVersion(w)])
        /\ data[target[w]][NextVersion(w)].value = w
    BY <2>1 DEF IInv, HolderOwnsNext, DataOf
  <2>3. CASE w = u
    BY <2>1, <2>2, <2>3, <1>1, <1>2 DEF IInv, TypeOK, Holder
  <2>4. CASE w # u
    <3>1. ~ (target[w] = s0 /\ NextVersion(w) = n0)
      BY <2>2, <2>4 DEF IInv, HolderOwnsNext, DataOf, Holder
    <3>2. pc'[w] = pc[w]
      BY <2>4, <1>2 DEF IInv, TypeOK
    <3>. QED
      BY <2>1, <2>2, <3>1, <3>2, <1>1 DEF IInv, HolderOwnsNext
  <2>. QED
    BY <2>3, <2>4
<1>9. ReaderHoldsStored'
  BY DEF IInv, ReaderHoldsStored, Listing, Present
<1>. QED
  BY <1>3, <1>5, <1>6, <1>7, <1>8, <1>9 DEF IInv

\* Writing the seed file of a version preserves the invariant.
LEMMA MaterializeStep ==
    ASSUME IInv, NEW u \in Upload, Materialize(u)
    PROVE  IInv'
BY SeedPutPreserves DEF Materialize

\* Uploads that are abandoned where they stand, with nothing written.
LEMMA AbandonPreserves ==
    ASSUME IInv, TypeOK',
           \A w \in Upload : \/ pc'[w] = pc[w]
                             \/ pc[w] \in Running /\ pc'[w] = Abandoned(pc[w]),
           UNCHANGED <<meta, data, seeds, target, base>>
    PROVE  ManifestCounts' /\ VersionsIntact' /\ ListedIsSeedable'
           /\ DataOwned' /\ BaseIsPast' /\ HolderOwnsNext' /\ LostOnlyRemotely'
<1>1. \A w \in Upload :
        \/ pc'[w] = pc[w]
        \/ pc[w] \in Running /\ pc'[w] = "failed"
        \/ pc[w] = "putData" /\ pc'[w] = "lostData" /\ Backend = "vss"
        \/ pc[w] = "putMeta" /\ pc'[w] = "lostMeta" /\ Backend = "vss"
  BY AbandonedStep
<1>2. ManifestCounts' /\ VersionsIntact' /\ ListedIsSeedable'
  BY ListingsKept
<1>3. DataOwned'
  BY <1>1, OwnersKept DEF Unwritten
<1>4. BaseIsPast' /\ LostOnlyRemotely'
  BY <1>1 DEF IInv, BaseIsPast, LostOnlyRemotely, NextVersion, Running, Lost
<1>5. HolderOwnsNext'
  BY <1>1 DEF IInv, HolderOwnsNext, NextVersion, DataOf, Present, Holder
<1>. QED
  BY <1>2, <1>3, <1>4, <1>5

\* A request that ends at a `?`, or whose handler is dropped, preserves the
\* invariant, with its seed file untouched, incomplete or complete.
LEMMA FailStep ==
    ASSUME IInv, NEW u \in Upload, Fail(u)
    PROVE  IInv'
<1>1. pc[u] \in Running /\ pc' = [pc EXCEPT ![u] = Abandoned(pc[u])]
  BY DEF Fail, GoTo
<1>2. CASE UNCHANGED seeds
  <2>1. TypeOK'
    BY <1>1, <1>2, AbandonedStep DEF IInv, TypeOK, Fail
  <2>2. \A w \in Upload : \/ pc'[w] = pc[w]
                          \/ pc[w] \in Running /\ pc'[w] = Abandoned(pc[w])
    BY <1>1 DEF IInv, TypeOK
  <2>3. ReaderHoldsStored'
    BY DEF IInv, Fail, ReaderHoldsStored, Listing, Present
  <2>. QED
    BY <2>1, <2>2, <2>3, <1>2, AbandonPreserves DEF Fail, IInv
<1>3. CASE pc[u] = "seed" /\ \E content \in {NoBytes, u} : SeedWrite(u, content)
  <2>1. Abandoned("seed") = "failed"
    BY AbandonedStep DEF Running
  <2>2. PICK content \in {NoBytes, u} : SeedWrite(u, content)
    BY <1>3
  <2>. QED
    BY <1>3, <2>1, <2>2, SeedPutPreserves DEF Fail
<1>. QED
  BY <1>2, <1>3 DEF Fail

\* A restart preserves the invariant, for either backend.
LEMMA RestartStep ==
    ASSUME IInv, Restart
    PROVE  IInv'
<1>1. \A w \in Upload :
        pc'[w] = IF pc[w] \in Running THEN Abandoned(pc[w]) ELSE pc[w]
  BY DEF Restart
<1>2. pc' \in [Upload -> Step]
  BY AbandonedStep DEF IInv, TypeOK, Restart
<1>3. \A r \in Reader : challenge'[r] \in {NoChallenge, challenge[r]}
                         /\ challenge'[r].pc # "reading"
                         /\ (Backend = "memory" => challenge'[r] = NoChallenge)
  BY DEF Restart, NoChallenge
<1>4. challenge' \in [Reader -> Challenge]
  <2>1. NoChallenge \in Challenge
    BY MaxVersionAssumption DEF NoChallenge, Challenge, Latest
  <2>. QED
    BY <2>1 DEF IInv, TypeOK, Restart
<1>5. CASE Backend = "vss"
  <2>1. UNCHANGED <<meta, data, seeds, target, base>>
    BY <1>5 DEF Restart
  <2>2. TypeOK'
    BY <2>1, <1>2, <1>4 DEF IInv, TypeOK
  <2>3. \A w \in Upload : \/ pc'[w] = pc[w]
                          \/ pc[w] \in Running /\ pc'[w] = Abandoned(pc[w])
    BY <1>1
  <2>4. ReaderHoldsStored'
    BY <2>1, <1>3 DEF IInv, ReaderHoldsStored, NoChallenge, Listing, Present
  <2>. QED
    BY <2>1, <2>2, <2>3, <2>4, AbandonPreserves DEF IInv
<1>6. CASE Backend = "memory"
  <2>1. /\ meta' = [s \in Series |-> Absent(NoManifest)]
        /\ data' = [s \in Series |-> [n \in Versions |-> Absent(NoBytes)]]
        /\ UNCHANGED <<seeds, target, base>>
    BY <1>6 DEF Restart
  <2>2. Absent(NoManifest) \in MetaCell /\ Absent(NoBytes) \in DataCell
    BY MaxVersionAssumption
       DEF Absent, MetaCell, DataCell, BackupManifest, NoManifest
  <2>3. TypeOK'
    BY <2>1, <2>2, <1>2, <1>4 DEF IInv, TypeOK
  <2>4. \A s \in Series : /\ meta'[s].version = 0
                          /\ meta'[s].value.latest = 0
                          /\ meta'[s].value.versions = <<>>
    BY <2>1 DEF Absent, NoManifest
  <2>5. ManifestCounts' /\ VersionsIntact' /\ ListedIsSeedable'
    BY <2>4 DEF ManifestCounts, VersionsIntact, ListedIsSeedable, Listing
  <2>6. DataOwned'
    BY <2>1 DEF DataOwned, Present, Absent
  <2>7. \A w \in Upload : pc'[w] \notin Running \cup Lost
    BY <1>1, <1>6, AbandonedStep
       DEF IInv, TypeOK, LostOnlyRemotely, Step, Running, Lost
  <2>8. BaseIsPast' /\ HolderOwnsNext' /\ LostOnlyRemotely'
    <3>1. \A w \in Upload : pc'[w] \notin Holder
      BY <2>7, <1>1, <1>6, AbandonedStep DEF Holder, Running, Lost
    <3>. QED
      BY <2>7, <3>1 DEF BaseIsPast, HolderOwnsNext, LostOnlyRemotely,
                        Running, Lost, Holder
  <2>9. ReaderHoldsStored'
    BY <1>3, <1>6 DEF ReaderHoldsStored, NoChallenge
  <2>. QED
    BY <2>3, <2>5, <2>6, <2>8, <2>9 DEF IInv
<1>. QED
  BY <1>5, <1>6, BackendAssumption

\* Steps of a challenge touch nothing but the challenge.
LEMMA ReaderPreserves ==
    ASSUME IInv, TypeOK', ReaderHoldsStored',
           UNCHANGED <<meta, data, seeds, pc, target, base>>
    PROVE  IInv'
<1>1. ManifestCounts' /\ VersionsIntact' /\ ListedIsSeedable'
  BY ListingsKept
<1>2. DataOwned'
  BY OwnersKept
<1>3. BaseIsPast' /\ LostOnlyRemotely' /\ HolderOwnsNext'
  BY DEF IInv, BaseIsPast, LostOnlyRemotely, HolderOwnsNext, NextVersion, DataOf,
         Present
<1>. QED
  BY <1>1, <1>2, <1>3 DEF IInv

\* The manifest read of answer_challenge preserves the invariant.
LEMMA ChallengeManifestStep ==
    ASSUME IInv, NEW r \in Reader, NEW s \in Series, NEW asked \in 0 .. MaxVersion,
           ChallengeManifest(r, s, asked)
    PROVE  IInv'
<1> DEFINE want == IF asked = Latest THEN meta[s].value.latest ELSE asked
           new == [pc |-> IF Present(meta[s]) THEN "reading" ELSE "missing",
                   series |-> s, asked |-> asked, want |-> want, bytes |-> NoBytes]
<1>0. challenge' = [challenge EXCEPT ![r] = new]
  BY DEF ChallengeManifest
<1>1. meta[s].value.latest \in 0 .. MaxVersion /\ meta[s].version = meta[s].value.latest
  BY DEF IInv, TypeOK, MetaCell, BackupManifest, ManifestCounts
<1>2. new \in Challenge
  BY <1>1 DEF Challenge
<1>3. TypeOK'
  BY <1>0, <1>2 DEF IInv, TypeOK, ChallengeManifest
<1>4. /\ new.pc = "reading" => new.want \in Versions
      /\ new.pc = "reading" /\ asked = Latest => new.want \in DOMAIN Listing(s)
      /\ new.pc = "missing" /\ asked = Latest => new.want = 0
  BY <1>1, ListedInRange, MaxVersionAssumption DEF IInv, Present, Versions, Latest
<1>5. ReaderHoldsStored'
  BY <1>0, <1>4 DEF IInv, TypeOK, ChallengeManifest, ReaderHoldsStored, Listing, Present
<1>. QED
  BY <1>3, <1>5, ReaderPreserves DEF ChallengeManifest

\* The data read of answer_challenge preserves the invariant.
LEMMA ChallengeDataStep ==
    ASSUME IInv, NEW r \in Reader, ChallengeData(r)
    PROVE  IInv'
<1> DEFINE c == challenge[r]
           cell == data[c.series][c.want]
           new == [c EXCEPT !.pc = IF Present(cell) THEN "answered" ELSE "missing",
                            !.bytes = cell.value]
<1>0. challenge' = [challenge EXCEPT ![r] = new]
  BY DEF ChallengeData, IInv, TypeOK
<1>1. /\ c \in Challenge /\ c.series \in Series /\ c.want \in Versions
      /\ c.asked = Latest => c.want \in DOMAIN Listing(c.series)
  BY DEF IInv, TypeOK, ReaderHoldsStored, ChallengeData
<1>2. cell \in DataCell
  BY <1>1 DEF IInv, TypeOK
<1>3. /\ new \in Challenge
      /\ new.series = c.series /\ new.asked = c.asked /\ new.want = c.want
      /\ new.bytes = cell.value
      /\ new.pc = IF Present(cell) THEN "answered" ELSE "missing"
  BY <1>1, <1>2 DEF Challenge, DataCell
<1> HIDE DEF new
<1>4. TypeOK'
  <2>1. challenge' \in [Reader -> Challenge]
    BY <1>0, <1>3 DEF IInv, TypeOK
  <2>. QED
    BY <2>1 DEF IInv, TypeOK, ChallengeData
<1>5. c.asked = Latest => Present(cell)
  BY <1>1 DEF IInv, VersionsIntact
<1>6. ReaderHoldsStored'
  <2> SUFFICES ASSUME NEW q \in Reader
               PROVE  LET d == challenge'[q] IN
                      /\ d.pc # "idle" => d.series \in Series
                      /\ d.pc = "reading" =>
                           /\ d.want \in Versions
                           /\ d.asked = Latest => d.want \in DOMAIN Listing(d.series)
                      /\ d.pc = "answered" =>
                           /\ d.want \in Versions
                           /\ Present(data[d.series][d.want])
                           /\ data[d.series][d.want].value = d.bytes
                      /\ d.pc = "missing" /\ d.asked = Latest => d.want = 0
    BY DEF ChallengeData, ReaderHoldsStored, Listing, Present
  <2>1. CASE q = r
    BY <2>1, <1>0, <1>1, <1>3, <1>5 DEF IInv, TypeOK
  <2>2. CASE q # r
    BY <2>2, <1>0 DEF IInv, TypeOK, ReaderHoldsStored
  <2>. QED
    BY <2>1, <2>2
<1>. QED
  BY <1>4, <1>6, ReaderPreserves DEF ChallengeData

\* The invariant is inductive: every step of the service preserves it.
LEMMA NextPreserves == IInv /\ [Next]_vars => IInv'
<1> SUFFICES ASSUME IInv, [Next]_vars PROVE IInv'
  OBVIOUS
<1>1. CASE \E u \in Upload :
             \/ RejectTooLarge(u) \/ ReadManifest(u) \/ Handle(u)
             \/ Fail(u) \/ Late(u)
  BY <1>1, RejectTooLargeStep, ReadManifestStep, PutDataStep, MaterializeStep,
     PutManifestStep, FailStep, LateDataStep, LateManifestStep DEF Handle, Late
<1>2. CASE Restart
  BY <1>2, RestartStep
<1>3. CASE \E r \in Reader : \E s \in Series : \E asked \in 0 .. MaxVersion :
             ChallengeManifest(r, s, asked)
  BY <1>3, ChallengeManifestStep
<1>4. CASE \E r \in Reader : ChallengeData(r)
  BY <1>4, ChallengeDataStep
<1>5. CASE UNCHANGED vars
  <2>1. TypeOK' /\ ReaderHoldsStored'
    BY <1>5 DEF vars, IInv, TypeOK, ReaderHoldsStored, Listing, Present
  <2>. QED
    BY <1>5, <2>1, ReaderPreserves DEF vars
<1>. QED
  BY <1>1, <1>2, <1>3, <1>4, <1>5 DEF Next

(***************************************************************************)
(* Theorems.                                                               *)
(***************************************************************************)

\* In every reachable state of store_backup and answer_challenge, for any
\* number of uploads and challenges, the inductive invariant holds.
THEOREM Invariance == Spec => []IInv
BY InitEstablishes, NextPreserves, PTL DEF Spec

\* Type correctness of the store, the seed files and the requests.
THEOREM TypeCorrect == Spec => []TypeOK
<1>1. IInv => TypeOK
  BY DEF IInv
<1>. QED
  BY <1>1, Invariance, PTL

\* Every listed version has the bytes it lists, however uploads of its series
\* race, fail or have their puts applied late.
THEOREM ListedVersionsIntact == Spec => []VersionsIntact
<1>1. IInv => VersionsIntact
  BY DEF IInv
<1>. QED
  BY <1>1, Invariance, PTL

\* Every listed version has its complete seed file, of the bytes listed, also
\* after an upload was cut in the middle of writing one.
THEOREM ListedVersionsSeedable == Spec => []ListedIsSeedable
<1>1. IInv => ListedIsSeedable
  BY DEF IInv
<1>. QED
  BY <1>1, Invariance, PTL

\* The conditional put of the manifest is never refused: the first write of a
\* data key already decides which upload of a series goes on.
THEOREM ManifestNeverConflicts == Spec => []ManifestWriteNeverConflicts
<1>1. IInv => ManifestWriteNeverConflicts
  BY DEF IInv, HolderOwnsNext, Holder, ManifestWriteNeverConflicts, Accepts
<1>. QED
  BY <1>1, Invariance, PTL

\* A challenge is answered from the bytes listed under its version, and one of
\* the latest version of an existing backup is always answered.
THEOREM ChallengesAnswered ==
    Spec => [](ChallengeAnswersListedBytes /\ LatestIsAnswerable)
<1>1. IInv => ChallengeAnswersListedBytes
  BY DEF IInv, ReaderHoldsStored, VersionsIntact, ChallengeAnswersListedBytes
<1>2. IInv => LatestIsAnswerable
  BY DEF IInv, ReaderHoldsStored, LatestIsAnswerable
<1>. QED
  BY <1>1, <1>2, Invariance, PTL

\* A step that writes neither a data key nor a manifest keeps UnlistedIsHeld, if
\* an upload that holds its key, or failed, goes on to do so.
LEMMA HoldersKept ==
    ASSUME IInv, UnlistedIsHeld, UNCHANGED <<meta, data>>,
           \A w \in Upload : pc[w] \in Holder \cup {"failed"} =>
             pc'[w] \in Holder \cup {"failed"}
    PROVE  UnlistedIsHeld'
<1> SUFFICES ASSUME NEW s \in Series, NEW n \in Versions, Present(data[s][n]),
                    n \notin DOMAIN Listing(s)
             PROVE  pc'[data[s][n].value] \in Holder \cup {"failed"}
  BY DEF UnlistedIsHeld, Listing, Present, Holder
<1>1. data[s][n].value \in Upload /\ pc[data[s][n].value] \in Holder \cup {"failed"}
  BY DEF IInv, DataOwned, UnlistedIsHeld
<1>. QED
  BY <1>1

\* A new data key is of the upload that wrote it, which goes on, or has failed.
LEMMA DataPutHeld ==
    ASSUME IInv, UnlistedIsHeld, NEW u \in Upload, PutData(u) \/ LateData(u)
    PROVE  UnlistedIsHeld'
<1>1. /\ NextVersion(u) \in Versions /\ pc \in [Upload -> Step]
      /\ DataOf(u) \in DataCell
  BY DEF IInv, TypeOK, BaseIsPast, PutData, LateData, Running, Lost, DataOf
<1>2. \A s \in Series : \A n \in Versions :
        data'[s][n] = IF s = target[u] /\ n = NextVersion(u) /\ ~Present(DataOf(u))
                      THEN [version |-> 1, value |-> u] ELSE data[s][n]
  BY <1>1, DataWriteEffect DEF IInv, PutData, LateData
<1>3. /\ pc[u] \in {"putData", "lostData"} /\ meta' = meta
      /\ \A w \in Upload \ {u} : pc'[w] = pc[w]
      /\ ~Present(DataOf(u)) => pc'[u] \in Holder \cup {"failed"}
  BY <1>1 DEF PutData, LateData, GoTo, Accepts, FirstWrite, Unconditional, Present,
              DataCell, Holder
<1> SUFFICES ASSUME NEW s \in Series, NEW n \in Versions, Present(data'[s][n]),
                    n \notin DOMAIN Listing(s)
             PROVE  pc'[data'[s][n].value] \in Holder \cup {"failed"}
  BY <1>3 DEF UnlistedIsHeld, Listing, Present, Holder
<1>4. CASE s = target[u] /\ n = NextVersion(u) /\ ~Present(DataOf(u))
  BY <1>2, <1>3, <1>4
<1>5. CASE data'[s][n] = data[s][n]
  <2>1. data[s][n].value \in Upload /\ pc[data[s][n].value] \in Holder \cup {"failed"}
    BY <1>5 DEF IInv, DataOwned, UnlistedIsHeld
  <2>2. data[s][n].value # u
    BY <1>3, <2>1 DEF Holder
  <2>. QED
    BY <1>3, <1>5, <2>1, <2>2
<1>. QED
  BY <1>2, <1>4, <1>5

\* A holder that writes its manifest lists its key.
LEMMA ManifestPutHeld ==
    ASSUME IInv, UnlistedIsHeld, NEW u \in Upload, PutManifest(u) \/ LateManifest(u)
    PROVE  UnlistedIsHeld'
<1>1. /\ ManifestWrite(u) /\ pc[u] \in {"putMeta", "lostMeta"} /\ data' = data
      /\ \A w \in Upload \ {u} : pc'[w] = pc[w]
  BY DEF IInv, TypeOK, PutManifest, LateManifest, GoTo
<1>2. /\ \A s \in Series : s # target[u] => meta'[s] = meta[s]
      /\ DOMAIN meta'[target[u]].value.versions = 1 .. NextVersion(u)
      /\ NextVersion(u) = meta[target[u]].value.latest + 1
  BY <1>1, ManifestWriteEffect
<1>3. /\ DOMAIN Listing(target[u]) = 1 .. meta[target[u]].value.latest
      /\ meta[target[u]].value.latest \in Nat /\ target[u] \in Series
  <2>1. target[u] \in Series /\ meta[target[u]] \in MetaCell
    BY DEF IInv, TypeOK
  <2>2. meta[target[u]].value.latest \in Nat
    BY <2>1, MaxVersionAssumption DEF MetaCell, BackupManifest
  <2>. QED
    BY <2>1, <2>2, ListedInRange DEF IInv
<1> SUFFICES ASSUME NEW s \in Series, NEW n \in Versions, Present(data[s][n]),
                    n \notin DOMAIN meta'[s].value.versions
             PROVE  pc'[data[s][n].value] \in Holder \cup {"failed"}
  BY <1>1 DEF UnlistedIsHeld, Listing, Present, Holder
<1> DEFINE w == data[s][n].value
<1>4. w \in Upload /\ target[w] = s /\ n = NextVersion(w)
  BY DEF IInv, DataOwned
<1>5. w # u
  BY <1>2, <1>3, <1>4
<1>6. n \notin DOMAIN Listing(s)
  BY <1>2, <1>3 DEF Listing
<1>7. pc[w] \in Holder \cup {"failed"}
  BY <1>6 DEF UnlistedIsHeld
<1>. QED
  BY <1>1, <1>4, <1>5, <1>7

LEMMA UnlistedIsHeldNext == IInv /\ UnlistedIsHeld /\ [Next]_vars => UnlistedIsHeld'
<1> SUFFICES ASSUME IInv, UnlistedIsHeld, [Next]_vars PROVE UnlistedIsHeld'
  OBVIOUS
<1>1. pc \in [Upload -> Step]
  BY DEF IInv, TypeOK
<1>2. ASSUME NEW u \in Upload, RejectTooLarge(u) \/ ReadManifest(u) \/ Materialize(u)
      PROVE  UnlistedIsHeld'
  BY <1>1, <1>2, HoldersKept DEF RejectTooLarge, ReadManifest, Materialize, GoTo, Holder
<1>3. ASSUME NEW u \in Upload, Fail(u) PROVE UnlistedIsHeld'
  <2>1. pc[u] \in Running /\ pc' = [pc EXCEPT ![u] = Abandoned(pc[u])]
    BY <1>3 DEF Fail, GoTo
  <2>2. pc[u] \in Holder => pc'[u] \in Holder \cup {"failed"}
    BY <1>1, <2>1, AbandonedStep DEF Holder
  <2>. QED
    BY <1>1, <1>3, <2>1, <2>2, HoldersKept DEF Fail, Running
<1>4. CASE Restart
  <2>1. CASE Backend = "vss"
    <3>1. \A w \in Upload : pc'[w] = IF pc[w] \in Running THEN Abandoned(pc[w]) ELSE pc[w]
      BY <1>4 DEF Restart
    <3>2. \A w \in Upload : pc[w] \in Holder \cup {"failed"} => pc'[w] \in Holder \cup {"failed"}
      BY <3>1, AbandonedStep DEF Holder, Running
    <3>. QED
      BY <1>4, <2>1, <3>2, HoldersKept DEF Restart
  <2>2. CASE Backend = "memory"
    BY <1>4, <2>2 DEF Restart, UnlistedIsHeld, Present, Absent
  <2>. QED
    BY <2>1, <2>2, BackendAssumption
<1>5. ASSUME NEW r \in Reader, NEW s \in Series, NEW asked \in 0 .. MaxVersion,
             ChallengeManifest(r, s, asked) \/ ChallengeData(r)
      PROVE  UnlistedIsHeld'
  BY <1>5, HoldersKept DEF ChallengeManifest, ChallengeData
<1>6. ASSUME NEW r \in Reader, ChallengeData(r) PROVE UnlistedIsHeld'
  BY <1>6, HoldersKept DEF ChallengeData
<1>7. CASE UNCHANGED vars
  BY <1>7, HoldersKept DEF vars
<1>. QED
  BY <1>2, <1>3, <1>4, <1>5, <1>6, <1>7, DataPutHeld, ManifestPutHeld DEF Next, Handle, Late

\* A series none of whose uploads failed takes the next upload: the key of its
\* next version is free.
THEOREM QuiescentIsWritable == Spec => []QuiescentSeriesIsWritable
<1>1. Init => UnlistedIsHeld
  BY DEF Init, UnlistedIsHeld, Present, Absent
<1>2. Spec => []UnlistedIsHeld
  BY <1>1, Invariance, UnlistedIsHeldNext, PTL DEF Spec
<1>3. IInv /\ UnlistedIsHeld => QuiescentSeriesIsWritable
  <2> SUFFICES ASSUME IInv, UnlistedIsHeld, NEW s \in Series, ~FailedIn(s),
                      \A u \in Upload : target[u] = s => pc[u] \notin Running,
                      NEW n \in Versions, Present(data[s][n]), n \notin DOMAIN Listing(s)
               PROVE  FALSE
    BY DEF QuiescentSeriesIsWritable
  <2> DEFINE u == data[s][n].value
  <2>1. u \in Upload /\ target[u] = s /\ pc[u] \in Holder \cup {"failed"}
    BY DEF IInv, DataOwned, UnlistedIsHeld
  <2>. QED
    BY <2>1 DEF FailedIn, Holder, Running, Lost
<1>. QED
  BY <1>2, <1>3, Invariance, PTL

(***************************************************************************)
(* The refinement of VersionArchive.                                       *)
(***************************************************************************)
\* What a client downloads of series s, given the store.
LEMMA DownloadsOf ==
    ASSUME IInv
    PROVE  Downloads = [s \in Series |-> [n \in DOMAIN Listing(s) |->
                          Listing(s)[n].bytes]]
BY DEF IInv, VersionsIntact, Downloads

\* A series' downloads are the sequence of its listed uploads.
LEMMA DownloadsAreUploads ==
    ASSUME IInv, NEW s \in Series
    PROVE  /\ Downloads[s] \in Seq(Upload)
           /\ Len(Downloads[s]) = meta[s].value.latest
           /\ DOMAIN Downloads[s] = DOMAIN Listing(s)
           /\ \A n \in DOMAIN Listing(s) : Downloads[s][n] = Listing(s)[n].bytes
<1>1. Downloads[s] = [n \in DOMAIN Listing(s) |-> Listing(s)[n].bytes]
  BY DownloadsOf
<1>2. meta[s] \in MetaCell /\ Len(Listing(s)) = meta[s].value.latest
  BY DEF IInv, TypeOK, ManifestCounts
<1>3. Listing(s) \in Seq(BackupVersion) /\ meta[s].value.latest \in Nat
  BY <1>2, MaxVersionAssumption DEF Listing, MetaCell, BackupManifest
<1>4. \A n \in DOMAIN Listing(s) : Listing(s)[n].bytes \in Upload
  <2>1. \A n \in DOMAIN Listing(s) : Listing(s)[n] \in BackupVersion
    BY <1>3
  <2>. QED
    BY <2>1 DEF BackupVersion
<1>5. DOMAIN Listing(s) = 1 .. meta[s].value.latest
  BY <1>2, <1>3
<1>6. Downloads[s] \in [1 .. meta[s].value.latest -> Upload]
  BY <1>1, <1>4, <1>5
<1>7. Downloads[s] \in Seq(Upload)
  BY <1>3, <1>6
<1>8. Len(Downloads[s]) = meta[s].value.latest
  BY <1>3, <1>6, <1>7
<1>. QED
  BY <1>1, <1>5, <1>7, <1>8

\* A step that leaves the manifests and what they list alone.
LEMMA SameDownloads ==
    ASSUME IInv, IInv', UNCHANGED meta
    PROVE  Downloads' = Downloads
<1>1. Downloads' = [s \in Series |-> [n \in DOMAIN meta'[s].value.versions |->
                          meta'[s].value.versions[n].bytes]]
  <2>1. VersionsIntact'
    BY DEF IInv
  <2>. QED
    BY <2>1 DEF VersionsIntact, Downloads, Listing
<1>2. \A s \in Series : Listing(s) = meta'[s].value.versions
  BY DEF Listing
<1>. QED
  BY <1>1, <1>2, DownloadsOf

\* What a client has been told of an upload, by the step it is at.
LEMMA ReplyOf ==
    ASSUME NEW step \in Step
    PROVE  /\ step \in {"idle"} \cup Running => Reply(step) = "none"
           /\ step = "created" => Reply(step) = "created"
           /\ step \in {"conflict", "failed"} \cup Lost => Reply(step) = "error"
BY DEF Reply, Step, Running, Lost

\* A step that changes nothing a client can see is a stutter of the archive.
LEMMA Unseen ==
    ASSUME IInv, IInv', UNCHANGED <<meta, target>>,
           \A w \in Upload : Reply(pc'[w]) = Reply(pc[w])
    PROVE  UNCHANGED Archive!vars
<1>1. Downloads' = Downloads
  BY SameDownloads
<1>2. [w \in Upload |-> Reply(pc'[w])] = [w \in Upload |-> Reply(pc[w])]
  OBVIOUS
<1>. QED
  BY <1>1, <1>2 DEF Archive!vars, Reply

\* A step that ends requests with an error is a Reject of the archive.
LEMMA Refused ==
    ASSUME IInv, IInv', UNCHANGED <<meta, target>>, NEW U \in SUBSET Upload,
           \A w \in U : Reply(pc[w]) = "none",
           \A w \in Upload : Reply(pc'[w]) = IF w \in U THEN "error"
                                                        ELSE Reply(pc[w])
    PROVE  Archive!Reject
<1>1. Downloads' = Downloads
  BY SameDownloads
<1>2. Archive!Refuse(U)
  BY DEF Archive!Refuse, Reply
<1>. QED
  BY <1>1, <1>2 DEF Archive!Reject

\* An upload that may still write the manifest is not listed.
LEMMA HolderIsNotListed ==
    ASSUME IInv, NEW u \in Upload, pc[u] \in Holder
    PROVE  ~Archive!Listed(u)
<1> SUFFICES ASSUME NEW s \in Series, NEW n \in DOMAIN Downloads[s],
                    Downloads[s][n] = u
             PROVE  FALSE
  BY DEF Archive!Listed
<1>1. n \in DOMAIN Listing(s) /\ Listing(s)[n].bytes = u
  BY DownloadsAreUploads
<1>2. n \in Versions /\ DOMAIN Listing(s) = 1 .. meta[s].value.latest
  BY <1>1, ListedInRange DEF IInv
<1>3. target[u] = s /\ n = NextVersion(u)
  <2>1. Present(data[s][n]) /\ data[s][n].value = u
    BY <1>1 DEF IInv, VersionsIntact
  <2>. QED
    BY <2>1, <1>2 DEF IInv, DataOwned
<1>4. NextVersion(u) = meta[s].value.latest + 1
  BY <1>3 DEF IInv, HolderOwnsNext, NextVersion
<1>5. meta[s].value.latest \in Nat
  BY MaxVersionAssumption DEF IInv, TypeOK, MetaCell, BackupManifest
<1>. QED
  BY <1>1, <1>2, <1>3, <1>4, <1>5

\* A sequence with one element more, as a function.
LEMMA AppendIsFunction ==
    ASSUME NEW S, NEW q \in Seq(S), NEW x \in S, NEW k \in Nat \ {0}, Len(q) = k - 1
    PROVE  Append(q, x) = [n \in 1 .. k |-> IF n = k THEN x ELSE q[n]]
<1>1. Append(q, x) \in Seq(S) /\ Len(Append(q, x)) = k
  OBVIOUS
<1>2. DOMAIN Append(q, x) = 1 .. k
  BY <1>1
<1>3. \A n \in 1 .. k : Append(q, x)[n] = IF n = k THEN x ELSE q[n]
  OBVIOUS
<1>4. Append(q, x) \in [1 .. k -> S]
  BY <1>1, LenProperties
<1>. QED
  BY <1>3, <1>4

\* The put of the manifest appends the upload to its series' downloads.
LEMMA ManifestPutAppends ==
    ASSUME IInv, IInv', NEW u \in Upload, pc[u] \in {"putMeta", "lostMeta"},
           ManifestWrite(u), UNCHANGED target
    PROVE  Downloads' = [Downloads EXCEPT ![target[u]] = Append(@, u)]
<1> DEFINE s0 == target[u]
           n0 == NextVersion(u)
           list(s) == meta'[s].value.versions
<1>1. /\ \A s \in Series : s # s0 => meta'[s] = meta[s]
      /\ n0 = meta[s0].value.latest + 1
      /\ DOMAIN list(s0) = 1 .. n0
      /\ \A n \in DOMAIN list(s0) :
           list(s0)[n] = IF n = n0 THEN [version |-> n, bytes |-> u]
                                   ELSE Listing(s0)[n]
  BY ManifestWriteEffect
<1>2. s0 \in Series /\ meta[s0].value.latest \in Nat
  BY MaxVersionAssumption DEF IInv, TypeOK, MetaCell, BackupManifest
<1>3. Downloads' = [s \in Series |-> [n \in DOMAIN list(s) |-> list(s)[n].bytes]]
  <2>1. VersionsIntact'
    BY DEF IInv
  <2>. QED
    BY <2>1 DEF VersionsIntact, Downloads, Listing
<1>4. \A s \in Series : s # s0 => Downloads'[s] = Downloads[s]
  BY <1>1, <1>3, DownloadsOf DEF Listing
<1>5. Downloads'[s0] = Append(Downloads[s0], u)
  <2>1. /\ Downloads[s0] \in Seq(Upload)
        /\ Len(Downloads[s0]) = n0 - 1
        /\ DOMAIN Listing(s0) = 1 .. n0 - 1
        /\ \A n \in 1 .. n0 - 1 : Downloads[s0][n] = Listing(s0)[n].bytes
    <3>1. DOMAIN Listing(s0) = 1 .. n0 - 1
      BY <1>1, <1>2, ListedInRange DEF IInv
    <3>. QED
      BY <3>1, <1>1, <1>2, DownloadsAreUploads
  <2>2. Append(Downloads[s0], u) =
          [n \in 1 .. n0 |-> IF n = n0 THEN u ELSE Downloads[s0][n]]
    <3>1. n0 \in Nat \ {0}
      BY <1>1, <1>2
    <3>. QED
      BY <3>1, <2>1, AppendIsFunction
  <2>3. \A n \in 1 .. n0 : list(s0)[n].bytes =
          IF n = n0 THEN u ELSE Downloads[s0][n]
    <3> SUFFICES ASSUME NEW n \in 1 .. n0
                 PROVE  list(s0)[n].bytes = IF n = n0 THEN u ELSE Downloads[s0][n]
      OBVIOUS
    <3>1. CASE n = n0
      <4>1. list(s0)[n] = [version |-> n, bytes |-> u]
        BY <3>1, <1>1
      <4>. QED
        BY <3>1, <4>1
    <3>2. CASE n # n0
      <4>1. n \in 1 .. n0 - 1
        BY <3>2, <1>1, <1>2
      <4>. QED
        BY <3>2, <4>1, <1>1, <2>1
    <3>. QED
      BY <3>1, <3>2
  <2>4. Downloads'[s0] = [n \in 1 .. n0 |-> list(s0)[n].bytes]
    BY <1>1, <1>2, <1>3
  <2>. QED
    BY <2>2, <2>3, <2>4
<1>6. Downloads = [s \in Series |-> Downloads[s]]
  BY DEF Downloads
<1>7. Downloads' = [s \in Series |-> Downloads'[s]]
  BY <1>3
<1>. QED
  BY <1>2, <1>4, <1>5, <1>6, <1>7

\* The put of a manifest is an Add of the archive, acknowledged or not.
LEMMA Added ==
    ASSUME IInv, IInv', NEW u \in Upload, pc[u] \in {"putMeta", "lostMeta"},
           ManifestWrite(u), UNCHANGED target,
           GoTo(u, IF pc[u] = "putMeta" THEN "created" ELSE "failed")
    PROVE  Archive!Add(u)
<1>1. Downloads' = [Downloads EXCEPT ![target[u]] = Append(@, u)]
  BY ManifestPutAppends
<1>2. ~Archive!Listed(u)
  BY HolderIsNotListed DEF Holder
<1>3. pc \in [Upload -> Step]
  BY DEF IInv, TypeOK
<1> DEFINE old == [w \in Upload |-> Reply(pc[w])]
           new == [w \in Upload |-> Reply(pc'[w])]
<1>4. CASE pc[u] = "putMeta"
  <2>1. Reply(pc[u]) = "none" /\ Reply("created") = "created"
    BY <1>4, ReplyOf DEF Step, Running
  <2>2. new = [old EXCEPT ![u] = "created"]
    BY <2>1, <1>3, <1>4 DEF GoTo
  <2>. QED
    BY <2>1, <2>2, <1>1, <1>2 DEF Archive!Add, Reply
<1>5. CASE pc[u] = "lostMeta"
  <2>1. Reply(pc[u]) = "error" /\ Reply("failed") = "error"
    BY <1>5, ReplyOf DEF Step, Lost
  <2>2. new = old
    BY <2>1, <1>3, <1>5 DEF GoTo
  <2>. QED
    BY <2>1, <2>2, <1>1, <1>2 DEF Archive!Add, Reply
<1>. QED
  BY <1>4, <1>5

\* The empty store is the empty archive, now and after a step.
EmptyStore == \A s \in Series : meta[s] = Absent(NoManifest)

\* From an empty store a client downloads nothing.
LEMMA EmptyDownloads == IInv /\ EmptyStore => Downloads = [s \in Series |-> <<>>]
<1> SUFFICES ASSUME IInv, EmptyStore
             PROVE  Downloads = [s \in Series |-> <<>>]
  OBVIOUS
<1>1. \A s \in Series : Downloads[s] = <<>>
  BY DownloadsAreUploads, EmptySeq DEF EmptyStore, Absent, NoManifest
<1>. QED
  BY <1>1 DEF Downloads

\* The same after a step.
LEMMA EmptyDownloadsNext ==
    (IInv /\ EmptyStore => Downloads = [s \in Series |-> <<>>])'
BY EmptyDownloads, PTL

\* The service starts where the archive starts.
LEMMA InitMaps == Init => Archive!Init
<1> SUFFICES ASSUME Init PROVE Archive!Init
  OBVIOUS
<1>1. Downloads = [s \in Series |-> <<>>]
  BY InitEstablishes, EmptyDownloads DEF Init, EmptyStore
<1>2. \A u \in Upload : Reply(pc[u]) = "none"
  BY ReplyOf DEF Init, Step
<1>. QED
  BY <1>1, <1>2 DEF Init, Archive!Init

(***************************************************************************)
(* Every step of the service is a step of the archive or a stutter.        *)
(***************************************************************************)
\* Upload u goes from a step of which its client was told nothing to one of
\* which it was told an error; nothing is written that a client can see.
LEMMA OneRefused ==
    ASSUME IInv, IInv', UNCHANGED <<meta, target>>, NEW u \in Upload,
           pc[u] \in {"idle"} \cup Running,
           NEW step \in {"conflict", "failed"} \cup Lost, GoTo(u, step)
    PROVE  Archive!Reject
<1>1. pc \in [Upload -> Step] /\ pc' = [pc EXCEPT ![u] = step]
  BY DEF IInv, TypeOK, GoTo
<1>2. Reply(pc[u]) = "none" /\ Reply(step) = "error"
  BY <1>1, ReplyOf DEF Step
<1>3. \A w \in {u} : Reply(pc[w]) = "none"
  BY <1>2
<1>4. \A w \in Upload : Reply(pc'[w]) = IF w \in {u} THEN "error"
                                                     ELSE Reply(pc[w])
  BY <1>1, <1>2
<1>. QED
  BY <1>3, <1>4, Refused

\* Upload u goes from one step to another of which its client was told the same.
LEMMA OneUnseen ==
    ASSUME IInv, IInv', UNCHANGED <<meta, target>>, NEW u \in Upload,
           NEW step \in Step, GoTo(u, step), Reply(step) = Reply(pc[u])
    PROVE  UNCHANGED Archive!vars
<1>1. pc \in [Upload -> Step] /\ pc' = [pc EXCEPT ![u] = step]
  BY DEF IInv, TypeOK, GoTo
<1>2. \A w \in Upload : Reply(pc'[w]) = Reply(pc[w])
  BY <1>1
<1>. QED
  BY <1>2, Unseen

\* Every step of an upload, its failures and late puts included, adds it to the
\* archive, refuses it, or cannot be seen.
LEMMA UploadMaps ==
    ASSUME IInv, IInv', NEW u \in Upload,
           \/ RejectTooLarge(u) \/ ReadManifest(u) \/ Handle(u)
           \/ Fail(u) \/ Late(u)
    PROVE  [Archive!Next]_(Archive!vars)
<1>1. CASE RejectTooLarge(u)
  BY <1>1, OneRefused DEF RejectTooLarge, Archive!Next
<1>2. CASE ReadManifest(u)
  <2>1. Reply("putData") = Reply(pc[u])
    BY <1>2, ReplyOf DEF ReadManifest, Step, Running
  <2>. QED
    BY <1>2, <2>1, OneUnseen DEF ReadManifest, Step, Running
<1>3. CASE PutData(u)
  <2>1. CASE GoTo(u, "seed")
    <3>1. Reply("seed") = Reply(pc[u])
      BY <1>3, ReplyOf DEF PutData, Step, Running
    <3>. QED
      BY <1>3, <2>1, <3>1, OneUnseen DEF PutData, Step, Running
  <2>2. CASE GoTo(u, "conflict")
    BY <1>3, <2>2, OneRefused DEF PutData, Running, Archive!Next
  <2>. QED
    BY <1>3, <2>1, <2>2 DEF PutData
<1>4. CASE Materialize(u)
  <2>1. Reply("putMeta") = Reply(pc[u])
    BY <1>4, ReplyOf DEF Materialize, Step, Running
  <2>. QED
    BY <1>4, <2>1, OneUnseen DEF Materialize, Step, Running
<1>5. CASE PutManifest(u)
  <2>1. Accepts(meta[target[u]], base[u].version)
    BY <1>5, ManifestWriteEffect DEF PutManifest
  <2>. QED
    BY <1>5, <2>1, Added DEF PutManifest, Archive!Next
<1>6. CASE Fail(u)
  <2>1. Abandoned(pc[u]) \in {"failed"} \cup Lost
    BY <1>6, AbandonedStep DEF Fail, Lost
  <2>. QED
    BY <1>6, <2>1, OneRefused DEF Fail, Archive!Next
<1>7. CASE LateData(u)
  <2>1. Reply("failed") = Reply(pc[u])
    BY <1>7, ReplyOf DEF LateData, Step, Lost
  <2>. QED
    BY <1>7, <2>1, OneUnseen DEF LateData, Step
<1>8. CASE LateManifest(u)
  BY <1>8, Added DEF LateManifest, Archive!Next
<1>. QED
  BY <1>1, <1>2, <1>3, <1>4, <1>5, <1>6, <1>7, <1>8 DEF Handle, Late

\* A restart refuses every request under way and, with the in-memory store,
\* wipes the archive.
LEMMA RestartMaps ==
    ASSUME IInv, IInv', Restart
    PROVE  [Archive!Next]_(Archive!vars)
<1> DEFINE U == {w \in Upload : pc[w] \in Running}
<1>1. pc \in [Upload -> Step]
  BY DEF IInv, TypeOK
<1>2. \A w \in U : Reply(pc[w]) = "none"
  BY <1>1, ReplyOf
<1>3. \A w \in Upload : Reply(pc'[w]) = IF w \in U THEN "error"
                                                   ELSE Reply(pc[w])
  <2> SUFFICES ASSUME NEW w \in Upload
               PROVE  Reply(pc'[w]) = IF w \in U THEN "error" ELSE Reply(pc[w])
    OBVIOUS
  <2>1. CASE w \in U
    <3>1. pc'[w] = Abandoned(pc[w])
      BY <2>1 DEF Restart
    <3>. QED
      BY <2>1, <3>1, AbandonedStep, ReplyOf DEF Lost
  <2>2. CASE w \notin U
    BY <2>2 DEF Restart
  <2>. QED
    BY <2>1, <2>2
<1>4. CASE Backend = "vss"
  BY <1>2, <1>3, <1>4, Refused DEF Restart, Archive!Next
<1>5. CASE Backend = "memory"
  <2>1. Downloads' = [s \in Series |-> <<>>]
    <3>1. EmptyStore'
      BY <1>5 DEF Restart, EmptyStore, Absent, NoManifest
    <3>. QED
      BY <3>1, EmptyDownloadsNext
  <2>2. Archive!Refuse(U)
    BY <1>2, <1>3 DEF Archive!Refuse, Reply, Restart
  <2>. QED
    BY <1>5, <2>1, <2>2 DEF Archive!Wipe, Archive!Next
<1>. QED
  BY <1>4, <1>5, BackendAssumption

\* Every step of the service is a step of the archive or a stutter.
LEMMA StepMaps == IInv /\ IInv' /\ [Next]_vars => [Archive!Next]_(Archive!vars)
<1> SUFFICES ASSUME IInv, IInv', [Next]_vars
             PROVE  [Archive!Next]_(Archive!vars)
  OBVIOUS
<1>1. CASE \E u \in Upload :
             \/ RejectTooLarge(u) \/ ReadManifest(u) \/ Handle(u)
             \/ Fail(u) \/ Late(u)
  BY <1>1, UploadMaps
<1>2. CASE Restart
  BY <1>2, RestartMaps
<1>3. CASE UNCHANGED <<meta, pc, target>>
  BY <1>3, Unseen
<1>4. CASE \E r \in Reader :
             \/ \E s \in Series : \E asked \in 0 .. MaxVersion :
                  ChallengeManifest(r, s, asked)
             \/ ChallengeData(r)
  BY <1>3, <1>4 DEF ChallengeManifest, ChallengeData
<1>. QED
  BY <1>1, <1>2, <1>3, <1>4 DEF Next, vars

\* The upload and challenge handlers, with their races, failures, late puts and
\* restarts, implement the append-only archive.
THEOREM Implements == Spec => ImplementsArchive
<1>1. Spec => []IInv
  BY Invariance
<1>. QED
  BY <1>1, InitMaps, StepMaps, PTL DEF Spec, ImplementsArchive, Archive!Spec

(***************************************************************************)
(* What was acknowledged stays listed (vss backend).                       *)
(***************************************************************************)
\* What upload w's put of the manifest lists: all that was, and w.
LEMMA ManifestPutLists ==
    ASSUME IInv, NEW w \in Upload, pc[w] \in {"putMeta", "lostMeta"},
           ManifestWrite(w), UNCHANGED target
    PROVE  /\ Listed(w)'
           /\ \A u \in Upload : Listed(u) => Listed(u)'
<1> DEFINE s0 == target[w]
           n0 == NextVersion(w)
           list(s) == meta'[s].value.versions
<1>1. /\ \A s \in Series : s # s0 => meta'[s] = meta[s]
      /\ n0 = meta[s0].value.latest + 1
      /\ DOMAIN list(s0) = 1 .. n0
      /\ \A n \in DOMAIN list(s0) :
           list(s0)[n] = IF n = n0 THEN [version |-> n, bytes |-> w]
                                   ELSE Listing(s0)[n]
  BY ManifestWriteEffect
<1>2. s0 \in Series /\ meta[s0].value.latest \in Nat
  BY MaxVersionAssumption DEF IInv, TypeOK, MetaCell, BackupManifest
<1>3. DOMAIN Listing(s0) = 1 .. n0 - 1
  BY <1>1, <1>2, ListedInRange DEF IInv
<1>4. n0 \in DOMAIN list(s0) /\ list(s0)[n0].bytes = w
  <2>1. n0 \in DOMAIN list(s0)
    BY <1>1, <1>2
  <2>2. list(s0)[n0] = [version |-> n0, bytes |-> w]
    BY <2>1, <1>1
  <2>. QED
    BY <2>1, <2>2
<1>5. Listed(w)'
  BY <1>4 DEF Listed, Listing
<1>6. ASSUME NEW u \in Upload, Listed(u)
      PROVE  Listed(u)'
  <2>1. PICK n \in DOMAIN Listing(target[u]) : Listing(target[u])[n].bytes = u
    BY <1>6 DEF Listed
  <2>2. n \in DOMAIN list(target[u]) /\ list(target[u])[n] = Listing(target[u])[n]
    <3>1. CASE target[u] = s0
      <4>1. n \in 1 .. n0 - 1
        BY <2>1, <3>1, <1>3
      <4>2. n \in DOMAIN list(s0) /\ n # n0
        BY <4>1, <1>1, <1>2
      <4>. QED
        BY <4>2, <3>1, <1>1
    <3>2. CASE target[u] # s0
      <4>1. meta'[target[u]] = meta[target[u]]
        BY <3>2, <1>1 DEF IInv, TypeOK
      <4>. QED
        BY <2>1, <4>1 DEF Listing
    <3>. QED
      BY <3>1, <3>2
  <2>. QED
    BY <2>1, <2>2 DEF Listed, Listing
<1>. QED
  BY <1>5, <1>6

\* A step that writes no manifest and acknowledges nothing.
LEMMA NothingAcknowledged ==
    ASSUME AcknowledgedStaysListed, UNCHANGED <<meta, target>>,
           \A u \in Upload : pc'[u] = "created" => pc[u] = "created"
    PROVE  AcknowledgedStaysListed'
BY DEF AcknowledgedStaysListed, Listed, Listing

\* With a vss-server, every step keeps what was acknowledged listed.
LEMMA AcknowledgedStep ==
    ASSUME Backend = "vss", IInv, AcknowledgedStaysListed, [Next]_vars
    PROVE  AcknowledgedStaysListed'
<1>0. pc \in [Upload -> Step]
  BY DEF IInv, TypeOK
<1>1. ASSUME NEW w \in Upload,
             \/ RejectTooLarge(w) \/ ReadManifest(w) \/ PutData(w)
             \/ Materialize(w) \/ Fail(w) \/ LateData(w)
      PROVE  AcknowledgedStaysListed'
  <2>1. UNCHANGED <<meta, target>>
    BY <1>1 DEF RejectTooLarge, ReadManifest, PutData, Materialize, Fail, LateData
  <2>2. \E step \in Step \ {"created"} : GoTo(w, step)
    <3>1. CASE Fail(w)
      BY <3>1, AbandonedStep DEF Fail
    <3>2. CASE ~Fail(w)
      BY <1>1, <3>2 DEF RejectTooLarge, ReadManifest, PutData, Materialize,
                        LateData, Step, Running
    <3>. QED
      BY <3>1, <3>2
  <2>3. \A u \in Upload : pc'[u] = "created" => pc[u] = "created"
    BY <2>2, <1>0 DEF GoTo
  <2>. QED
    BY <2>1, <2>3, NothingAcknowledged
<1>2. ASSUME NEW w \in Upload, PutManifest(w) \/ LateManifest(w)
      PROVE  AcknowledgedStaysListed'
  <2>1. /\ pc[w] \in {"putMeta", "lostMeta"}
        /\ ManifestWrite(w)
        /\ UNCHANGED target
        /\ \E step \in Step : GoTo(w, step)
    BY <1>2 DEF PutManifest, LateManifest, Step
  <2>2. Listed(w)' /\ \A u \in Upload : Listed(u) => Listed(u)'
    BY <2>1, ManifestPutLists
  <2>3. \A u \in Upload : u # w => pc'[u] = pc[u]
    BY <2>1, <1>0 DEF GoTo
  <2>. QED
    BY <2>2, <2>3 DEF AcknowledgedStaysListed
<1>3. CASE Restart
  <2>1. \A u \in Upload : pc'[u] = "created" => pc[u] = "created"
    BY <1>3, AbandonedStep DEF Restart
  <2>. QED
    BY <1>3, <2>1, NothingAcknowledged DEF Restart
<1>4. CASE UNCHANGED <<meta, pc, target>>
  BY <1>4, NothingAcknowledged
<1>5. CASE \E r \in Reader :
             \/ \E s \in Series : \E asked \in 0 .. MaxVersion :
                  ChallengeManifest(r, s, asked)
             \/ ChallengeData(r)
  BY <1>4, <1>5 DEF ChallengeManifest, ChallengeData
<1>. QED
  BY <1>1, <1>2, <1>3, <1>4, <1>5 DEF Next, Handle, Late, vars

\* An upload whose client was answered 201 stays listed, through every later
\* upload, failure, late put and restart.
THEOREM Acknowledged ==
    ASSUME Backend = "vss"
    PROVE  Spec => []AcknowledgedStaysListed
<1>1. Init => AcknowledgedStaysListed
  BY DEF Init, AcknowledgedStaysListed
<1>2. IInv /\ AcknowledgedStaysListed /\ [Next]_vars => AcknowledgedStaysListed'
  BY AcknowledgedStep
<1>. QED
  BY <1>1, <1>2, Invariance, PTL DEF Spec

(***************************************************************************)
(* Listings (ListBackups).  A listing runs beside the uploads: what it has *)
(* found stays sound as lists and times grow, and its own steps keep it.   *)
(***************************************************************************)
\* Equal to IsPrefix on sequences, without SubSeq.
Begins(short, long) ==
    Len(short) <= Len(long) /\ \A n \in 1 .. Len(short) : short[n] = long[n]

Entry == [series : Series, versions : Seq(BackupVersion), updated : Nat]

Requests == [pc : {"idle", "list", "get", "done", "failed"}, token : Keys \cup {NoKey},
             keys : Seq(DOMAIN IdOrder), out : Seq(Entry), before : [Series -> Seq(BackupVersion)]]

ListTypeOK ==
    /\ clock \in Nat \ {NoTime}
    /\ now \in [Upload -> Nat]
    /\ updated \in [Series -> Nat]
    /\ ended \in [Upload -> Nat]
    /\ request \in [Lister -> Requests]

Lists == [s \in Series |-> Listing(s)]

\* An upload took the time before its manifest was put.
Timed(u, taken, put) == taken[u] # NoTime /\ taken[u] <= put[u]

\* A manifest has the time of its newest version.
TimesSound ==
    /\ \A u \in Upload : now[u] <= clock /\ (pc[u] # "idle" => now[u] # NoTime)
    /\ \A s \in Series : Listing(s) # <<>> =>
         /\ updated[s] = now[Last(Listing(s)).bytes]
         /\ Timed(Last(Listing(s)).bytes, now, ended)

\* Metas are met in the order of their ids, up to the token.
KeysSound(k) ==
    /\ \A i, j \in DOMAIN k.keys : i < j => k.keys[i] < k.keys[j]
    /\ k.pc = "list" => k.out = <<>> /\ \A i \in DOMAIN k.keys : k.keys[i] <= k.token[1]
    /\ k.pc = "done" => k.keys = <<>>

\* Series i is met, or came after the token.
IsMet(k, i) ==
    \/ \E j \in DOMAIN k.keys : k.keys[j] = i
    \/ \E j \in DOMAIN k.out : k.out[j].series = IdOrder[i]
    \/ k.pc = "list" /\ k.token[1] < i

\* Series that were there are met, and none twice.
MetOnce(k) ==
    /\ \A i \in DOMAIN IdOrder : k.before[IdOrder[i]] # <<>> => IsMet(k, i)
    /\ \A i, j \in DOMAIN k.out : k.out[i].series = k.out[j].series => i = j
    /\ \A i \in DOMAIN k.out, j \in DOMAIN k.keys : k.out[i].series # IdOrder[k.keys[j]]

\* An entry is a manifest the series had after the request began.
EntrySound(entry, before, lists, taken, put) ==
    LET u == Last(entry.versions).bytes
    IN  /\ entry.versions # <<>>
        /\ Begins(before[entry.series], entry.versions)
        /\ Begins(entry.versions, lists[entry.series])
        /\ entry.updated = taken[u] /\ Timed(u, taken, put)

OutSound(k, lists, taken, put) ==
    /\ \A s \in Series : Begins(k.before[s], lists[s])
    /\ \A i \in DOMAIN k.out : EntrySound(k.out[i], k.before, lists, taken, put)
    /\ k.pc = "done" => \A i, j \in DOMAIN k.out : i < j => k.out[i].updated >= k.out[j].updated

Sound(k, lists, taken, put) ==
    /\ k.pc = "idle" => k.token = NoKey /\ k.keys = <<>> /\ k.out = <<>>
    /\ k.pc \in {"list", "get", "done"} =>
         KeysSound(k) /\ MetOnce(k) /\ OutSound(k, lists, taken, put)

RequestsSound == \A r \in Lister : Sound(request[r], Lists, now, ended)

\* Inductive for ListSpec.
ListInv == IInv /\ ListTypeOK /\ TimesSound /\ RequestsSound

\* The last element of a sequence.
LEMMA LastIsElement ==
    ASSUME NEW S, NEW q \in Seq(S), q # <<>>
    PROVE  Last(q) \in S
<1>1. Len(q) \in Nat \ {0}
  BY EmptySeq
<1> QED
  BY <1>1 DEF Last

\* A manifest that is there lists a version; none that is not.
LEMMA PresentIsListed ==
    ASSUME IInv, NEW s \in Series
    PROVE  /\ Listing(s) \in Seq(BackupVersion)
           /\ Len(Listing(s)) \in Nat /\ Len(Listing(s)) = meta[s].value.latest
           /\ Present(meta[s]) <=> Listing(s) # <<>>
<1>1. meta[s] \in MetaCell /\ Len(Listing(s)) = meta[s].value.latest /\ meta[s].version = meta[s].value.latest
  BY DEF IInv, TypeOK, ManifestCounts
<1>2. Listing(s) \in Seq(BackupVersion)
  BY <1>1 DEF Listing, MetaCell, BackupManifest
<1>3. Listing(s) # <<>> <=> Len(Listing(s)) # 0
  BY <1>2, EmptySeq
<1> QED
  BY <1>1, <1>2, <1>3 DEF Present

\* A list begins with itself.
LEMMA BeginsItself == ASSUME NEW a, Len(a) \in Nat PROVE Begins(a, a)
BY DEF Begins

\* The steps of ListBackups are those of the service, or steps of a listing, and
\* keep the types.
LEMMA ListNextIsNext == ListNext => [Next]_vars
<1> SUFFICES ASSUME ListNext PROVE [Next]_vars
  OBVIOUS
<1>1. ASSUME NEW u \in Upload, UploadStep(u) \/ UploadStores(u) \/ UploadEnds(u) PROVE Next
  BY <1>1 DEF UploadStep, UploadStores, UploadEnds, Next, Handle, Late
<1>2. ASSUME Tick \/ \E u \in Upload : TakeTime(u) PROVE UNCHANGED vars
  BY <1>2 DEF Tick, TakeTime
<1>3. ASSUME NEW r \in Lister, BeginList(r) \/ List(r) \/ ListFails(r) PROVE UNCHANGED vars
  BY <1>3 DEF BeginList, List, ListFails, ReadPage, GetManifest, Answer
<1>4. ASSUME ListRestart PROVE Next
  BY <1>4 DEF ListRestart, Next
<1> QED
  BY <1>1, <1>2, <1>3, <1>4 DEF ListNext

\* With it, every theorem on the service holds of ListBackups.
THEOREM ListingsServe == ListSpec => Spec
<1>1. ListInit => Init
  BY DEF ListInit
<1>2. [ListNext]_allVars => [Next]_vars
  BY ListNextIsNext DEF allVars, vars
<1> QED
  BY <1>1, <1>2, PTL DEF ListSpec, Spec

\* The put of a manifest: its series lists the upload last, at the upload's time.
LEMMA UploadEndsEffect ==
    ASSUME IInv, ListTypeOK, NEW u \in Upload, UploadEnds(u)
    PROVE  LET t == target[u]
               n == Len(Listing(t))
           IN  /\ t \in Series /\ pc[u] # "idle"
               /\ \A s \in Series \ {t} : meta'[s] = meta[s] /\ updated'[s] = updated[s]
               /\ Len(meta'[t].value.versions) = n + 1
               /\ meta'[t].value.versions[n + 1].bytes = u
               /\ \A i \in 1 .. n : meta'[t].value.versions[i] = Listing(t)[i]
               /\ updated'[t] = now[u] /\ ended'[u] = clock
               /\ \A w \in Upload \ {u} : ended'[w] = ended[w]
               /\ updated' \in [Series -> Nat] /\ ended' \in [Upload -> Nat]
               /\ \A w \in Upload \ {u} : pc'[w] = pc[w]
<1> DEFINE t == target[u]
           n == Len(Listing(t))
<1>1. ManifestWrite(u) /\ pc[u] \in {"putMeta", "lostMeta"} /\ t \in Series
  BY DEF UploadEnds, PutManifest, LateManifest, IInv, TypeOK
<1>2. n \in Nat /\ n = meta[t].value.latest
  BY <1>1, PresentIsListed
<1>3. /\ Accepts(meta[t], base[u].version)
      /\ \A s \in Series \ {t} : meta'[s] = meta[s]
      /\ Len(meta'[t].value.versions) = n + 1
      /\ DOMAIN meta'[t].value.versions = 1 .. n + 1
      /\ \A i \in 1 .. n + 1 : meta'[t].value.versions[i] =
           IF i = n + 1 THEN [version |-> i, bytes |-> u] ELSE Listing(t)[i]
  BY <1>1, <1>2, ManifestWriteEffect
<1>4. /\ meta'[t].value.versions[n + 1].bytes = u
      /\ \A i \in 1 .. n : meta'[t].value.versions[i] = Listing(t)[i]
  <2> HIDE DEF n
  <2>1. meta'[t].value.versions[n + 1] = [version |-> n + 1, bytes |-> u]
    <3>1. n + 1 \in 1 .. n + 1
      BY <1>2
    <3> QED
      BY <1>3, <3>1
  <2>2. ASSUME NEW i \in 1 .. n PROVE meta'[t].value.versions[i] = Listing(t)[i]
    <3>1. i \in 1 .. n + 1 /\ i # n + 1
      BY <1>2
    <3> QED
      BY <1>3, <3>1
  <2> QED
    BY <2>1, <2>2
<1>5. updated' = [updated EXCEPT ![t] = now[u]] /\ ended' = [ended EXCEPT ![u] = clock]
  BY <1>3 DEF UploadEnds
<1>6. \A w \in Upload \ {u} : pc'[w] = pc[w]
  BY DEF UploadEnds, PutManifest, LateManifest, GoTo, IInv, TypeOK
<1>7. now[u] \in Nat /\ clock \in Nat /\ updated \in [Series -> Nat] /\ ended \in [Upload -> Nat]
  BY DEF ListTypeOK
<1> HIDE DEF n
<1> QED
  BY <1>1, <1>3, <1>4, <1>5, <1>6, <1>7 DEF n

\* A step that a listing does not make.
UploadsGoOn ==
    Tick \/ \E u \in Upload : TakeTime(u) \/ UploadStep(u) \/ UploadStores(u) \/ UploadEnds(u)

\* What such a step leaves, and adds, to the lists and the times.
LEMMA UploadsEffect ==
    ASSUME ListInv, UploadsGoOn
    PROVE  /\ request' = request
           /\ \A s \in Series : Begins(Listing(s), meta'[s].value.versions)
           /\ \A u \in Upload : Timed(u, now, ended) => Timed(u, now', ended') /\ now'[u] = now[u]
           /\ clock' \in Nat \ {NoTime} /\ now' \in [Upload -> Nat]
           /\ updated' \in [Series -> Nat] /\ ended' \in [Upload -> Nat]
           /\ TimesSound'
<1> DEFINE Goal == /\ request' = request
                   /\ \A s \in Series : Begins(Listing(s), meta'[s].value.versions)
                   /\ \A u \in Upload : Timed(u, now, ended) => Timed(u, now', ended') /\ now'[u] = now[u]
                   /\ clock' \in Nat \ {NoTime} /\ now' \in [Upload -> Nat]
                   /\ updated' \in [Series -> Nat] /\ ended' \in [Upload -> Nat]
                   /\ TimesSound'
<1>0. /\ clock \in Nat \ {NoTime} /\ now \in [Upload -> Nat]
      /\ updated \in [Series -> Nat] /\ ended \in [Upload -> Nat]
      /\ \A s \in Series : Listing(s) \in Seq(BackupVersion) /\ Len(Listing(s)) \in Nat
      /\ \A s \in Series : Listing(s) # <<>> => Last(Listing(s)).bytes \in Upload
  <2>1. \A s \in Series : Listing(s) \in Seq(BackupVersion) /\ Len(Listing(s)) \in Nat
    BY PresentIsListed DEF ListInv
  <2>2. ASSUME NEW s \in Series, Listing(s) # <<>> PROVE Last(Listing(s)).bytes \in Upload
    <3>1. Last(Listing(s)) \in BackupVersion
      BY <2>1, <2>2, LastIsElement
    <3> QED
      BY <3>1 DEF BackupVersion
  <2> QED
    BY <2>1, <2>2 DEF ListInv, ListTypeOK
<1>1. ASSUME meta' = meta, updated' = updated, ended' = ended, request' = request,
             now' = now, clock' \in {clock, clock + 1},
             \A u \in Upload : pc'[u] # "idle" => pc[u] # "idle" \/ now[u] # NoTime
      PROVE  Goal
  <2>1. \A s \in Series : Begins(Listing(s), meta'[s].value.versions)
    BY <1>0, <1>1 DEF Begins, Listing
  <2>2. TimesSound'
    BY <1>0, <1>1 DEF ListInv, TimesSound, Listing
  <2> QED
    BY <1>0, <1>1, <2>1, <2>2 DEF NoTime
<1>2. ASSUME Tick PROVE Goal
  BY <1>1, <1>2 DEF Tick, vars
<1>3. ASSUME NEW u \in Upload, TakeTime(u) PROVE Goal
  <2>1. /\ UNCHANGED <<meta, pc, clock, updated, ended, request>>
        /\ now[u] = NoTime /\ now'[u] = clock /\ now' \in [Upload -> Nat]
        /\ \A w \in Upload \ {u} : now'[w] = now[w]
    BY <1>0, <1>3 DEF TakeTime, vars
  <2>2. \A w \in Upload : Timed(w, now, ended) => w # u
    BY <2>1 DEF Timed
  <2>3. \A w \in Upload : Timed(w, now, ended) => Timed(w, now', ended') /\ now'[w] = now[w]
    BY <2>1, <2>2 DEF Timed
  <2>4. \A s \in Series : Begins(Listing(s), meta'[s].value.versions)
    BY <1>0, <2>1 DEF Begins, Listing
  <2>5. ASSUME NEW s \in Series, meta'[s].value.versions # <<>>
        PROVE  LET w == Last(meta'[s].value.versions).bytes IN
               updated'[s] = now'[w] /\ Timed(w, now', ended')
    BY <1>0, <2>1, <2>3, <2>5 DEF ListInv, TimesSound, Listing
  <2>6. ASSUME NEW w \in Upload
        PROVE  now'[w] <= clock' /\ (pc'[w] # "idle" => now'[w] # NoTime)
    <3>1. CASE w = u
      BY <1>0, <2>1, <3>1
    <3>2. CASE w # u
      BY <2>1, <3>2 DEF ListInv, TimesSound
    <3> QED
      BY <3>1, <3>2
  <2>7. TimesSound'
    BY <2>5, <2>6 DEF TimesSound, Listing, Timed
  <2> QED
    BY <1>0, <2>1, <2>3, <2>4, <2>7
<1>4. ASSUME NEW u \in Upload, UploadStep(u) PROVE Goal
  <2>1. /\ UNCHANGED <<meta, clock, now, updated, ended, request>>
        /\ pc[u] # "idle" \/ now[u] # NoTime
        /\ \A w \in Upload \ {u} : pc'[w] = pc[w]
    BY <1>4 DEF UploadStep, times, ReadManifest, Fail, LateData, GoTo, Running, ListInv, IInv, TypeOK
  <2> QED
    BY <1>1, <2>1
<1>5. ASSUME NEW u \in Upload, UploadStores(u) PROVE Goal
  <2>1. /\ UNCHANGED <<meta, clock, now, updated, ended, request>>
        /\ pc[u] # "idle"
        /\ \A w \in Upload \ {u} : pc'[w] = pc[w]
    BY <1>5 DEF UploadStores, times, PutData, Materialize, GoTo, ListInv, IInv, TypeOK
  <2> QED
    BY <1>1, <2>1
<1>6. ASSUME NEW u \in Upload, UploadEnds(u) PROVE Goal
  <2> DEFINE t == target[u]
             n == Len(Listing(t))
             list == meta'[t].value.versions
  <2>1. /\ t \in Series /\ pc[u] # "idle"
        /\ \A s \in Series \ {t} : meta'[s] = meta[s] /\ updated'[s] = updated[s]
        /\ Len(list) = n + 1 /\ list[n + 1].bytes = u
        /\ \A i \in 1 .. n : list[i] = Listing(t)[i]
        /\ updated'[t] = now[u] /\ ended'[u] = clock
        /\ \A w \in Upload \ {u} : ended'[w] = ended[w]
        /\ updated' \in [Series -> Nat] /\ ended' \in [Upload -> Nat]
        /\ \A w \in Upload \ {u} : pc'[w] = pc[w]
    BY <1>6, UploadEndsEffect DEF ListInv
  <2>2. UNCHANGED <<clock, now, request>>
    BY <1>6 DEF UploadEnds
  <2>3. now[u] # NoTime /\ now[u] <= clock
    BY <2>1 DEF ListInv, TimesSound
  <2>4. Timed(u, now', ended')
    BY <2>1, <2>2, <2>3 DEF Timed
  <2>5. \A w \in Upload : Timed(w, now, ended) => Timed(w, now', ended') /\ now'[w] = now[w]
    BY <2>1, <2>2, <2>4 DEF Timed
  <2>6. \A s \in Series : Begins(Listing(s), meta'[s].value.versions)
    <3>1. Begins(Listing(t), list)
      BY <1>0, <2>1 DEF Begins
    <3>2. ASSUME NEW s \in Series \ {t} PROVE Begins(Listing(s), meta'[s].value.versions)
      <4>1. meta'[s].value.versions = Listing(s)
        BY <2>1 DEF Listing
      <4> QED
        BY <1>0, <4>1, BeginsItself
    <3> QED
      BY <3>1, <3>2
  <2>7. ASSUME NEW s \in Series, meta'[s].value.versions # <<>>
        PROVE  LET w == Last(meta'[s].value.versions).bytes IN
               updated'[s] = now'[w] /\ Timed(w, now', ended')
    <3>1. CASE s = t
      <4>1. Last(list).bytes = u
        BY <2>1 DEF Last
      <4> QED
        BY <3>1, <4>1, <2>1, <2>2, <2>4
    <3>2. CASE s # t
      <4>1. meta'[s] = meta[s] /\ updated'[s] = updated[s]
        BY <3>2, <2>1
      <4>2. /\ updated[s] = now[Last(Listing(s)).bytes]
            /\ Timed(Last(Listing(s)).bytes, now, ended)
            /\ Last(Listing(s)).bytes \in Upload
        BY <1>0, <2>7, <4>1 DEF ListInv, TimesSound, Listing
      <4> QED
        BY <2>5, <4>1, <4>2 DEF Listing
    <3> QED
      BY <3>1, <3>2
  <2>8. \A w \in Upload : now'[w] <= clock' /\ (pc'[w] # "idle" => now'[w] # NoTime)
    BY <2>1, <2>2, <2>3 DEF ListInv, TimesSound
  <2>9. TimesSound'
    BY <2>7, <2>8 DEF TimesSound, Listing, Timed
  <2> QED
    BY <1>0, <2>1, <2>2, <2>5, <2>6, <2>9
<1> QED
  BY <1>2, <1>3, <1>4, <1>5, <1>6 DEF UploadsGoOn

\* Lists that only grow have grown from the first to the last.
LEMMA BeginsTransitive ==
    ASSUME NEW a, NEW b, NEW c, Len(a) \in Nat, Len(b) \in Nat, Len(c) \in Nat,
           Begins(a, b), Begins(b, c)
    PROVE  Begins(a, c)
BY DEF Begins

\* What a request has found stays sound as lists and times grow.
LEMMA SoundStays ==
    ASSUME NEW k \in Requests, NEW lists, NEW later, NEW taken, NEW taken2, NEW put, NEW put2,
           Sound(k, lists, taken, put),
           \A s \in Series : /\ Len(lists[s]) \in Nat /\ Len(later[s]) \in Nat
                             /\ Begins(lists[s], later[s]),
           \A u \in Upload : Timed(u, taken, put) => Timed(u, taken2, put2) /\ taken2[u] = taken[u]
    PROVE  Sound(k, later, taken2, put2)
<1> SUFFICES ASSUME k.pc \in {"list", "get", "done"}
             PROVE  OutSound(k, later, taken2, put2)
  BY DEF Sound
<1>0. k.out \in Seq(Entry) /\ k.before \in [Series -> Seq(BackupVersion)]
  BY DEF Requests
<1>1. OutSound(k, lists, taken, put)
  BY DEF Sound
<1>2. ASSUME NEW s \in Series PROVE Begins(k.before[s], later[s])
  <2>1. Len(k.before[s]) \in Nat
    BY <1>0
  <2> QED
    BY <1>1, <2>1, BeginsTransitive DEF OutSound
<1>3. ASSUME NEW i \in DOMAIN k.out PROVE EntrySound(k.out[i], k.before, later, taken2, put2)
  <2> DEFINE entry == k.out[i]
             u == Last(entry.versions).bytes
  <2>1. entry \in Entry
    BY <1>0
  <2>2. /\ entry.series \in Series /\ entry.versions \in Seq(BackupVersion)
        /\ Len(entry.versions) \in Nat
    BY <2>1 DEF Entry
  <2>3. EntrySound(entry, k.before, lists, taken, put)
    BY <1>1 DEF OutSound
  <2>4. Last(entry.versions) \in BackupVersion
    BY <2>2, <2>3, LastIsElement DEF EntrySound
  <2>5. u \in Upload
    BY <2>4 DEF BackupVersion
  <2>6. Begins(entry.versions, later[entry.series])
    BY <2>2, <2>3, BeginsTransitive DEF EntrySound
  <2> QED
    BY <2>3, <2>5, <2>6 DEF EntrySound
<1> QED
  BY <1>1, <1>2, <1>3 DEF OutSound

\* Soundness in the next state, of the manifests there.
LEMMA RequestsSoundNext ==
    ASSUME \A r \in Lister :
             Sound(request'[r], [s \in Series |-> meta'[s].value.versions], now', ended')
    PROVE  RequestsSound'
BY DEF RequestsSound, Lists, Listing, Sound, KeysSound, MetOnce, IsMet, OutSound, EntrySound,
       Timed, Begins, Last

\* After a step of the uploads every request is sound.
LEMMA UploadsStep ==
    ASSUME ListInv, IInv', UploadsGoOn
    PROVE  ListInv'
<1> DEFINE later == [s \in Series |-> meta'[s].value.versions]
<1>1. /\ request' = request
      /\ \A s \in Series : Begins(Listing(s), meta'[s].value.versions)
      /\ \A u \in Upload : Timed(u, now, ended) => Timed(u, now', ended') /\ now'[u] = now[u]
      /\ clock' \in Nat \ {NoTime} /\ now' \in [Upload -> Nat]
      /\ updated' \in [Series -> Nat] /\ ended' \in [Upload -> Nat]
      /\ TimesSound'
  BY UploadsEffect
<1>2. ASSUME NEW s \in Series PROVE Len(Listing(s)) \in Nat
  BY PresentIsListed DEF ListInv
<1>3. ASSUME NEW s \in Series PROVE Len(later[s]) \in Nat
  BY DEF IInv, ManifestCounts, TypeOK, MetaCell, BackupManifest, Listing
<1>4. ASSUME NEW r \in Lister PROVE Sound(request'[r], later, now', ended')
  <2>1. request[r] \in Requests /\ Sound(request[r], Lists, now, ended)
    BY DEF ListInv, ListTypeOK, RequestsSound
  <2>2. \A s \in Series : /\ Len(Lists[s]) \in Nat /\ Len(later[s]) \in Nat
                          /\ Begins(Lists[s], later[s])
    BY <1>1, <1>2, <1>3 DEF Lists
  <2> HIDE DEF later
  <2>3. Sound(request[r], later, now', ended')
    BY <1>1, <2>1, <2>2, SoundStays
  <2> QED
    BY <1>1, <2>3
<1>5. RequestsSound'
  BY <1>4, RequestsSoundNext
<1>6. ListTypeOK'
  BY <1>1 DEF ListInv, ListTypeOK
<1> QED
  BY <1>1, <1>5, <1>6 DEF ListInv

\* A step of one request, to k.
LEMMA RequestStep ==
    ASSUME ListInv, IInv', NEW r \in Lister, NEW k \in Requests,
           request' = [request EXCEPT ![r] = k], UNCHANGED <<vars, times>>,
           Sound(k, Lists, now, ended)
    PROVE  ListInv'
<1>1. UNCHANGED <<meta, pc, clock, now, updated, ended>>
  BY DEF vars, times
<1>2. \A q \in Lister : request'[q] \in Requests /\ Sound(request'[q], Lists, now, ended)
  BY DEF ListInv, ListTypeOK, RequestsSound
<1> DEFINE later == [s \in Series |-> meta'[s].value.versions]
<1>3. RequestsSound'
  <2>1. later = Lists
    BY <1>1 DEF Lists, Listing
  <2> HIDE DEF later
  <2>2. \A q \in Lister : Sound(request'[q], later, now', ended')
    BY <1>1, <1>2, <2>1
  <2> QED
    BY <2>2, RequestsSoundNext DEF later
<1>4. ListTypeOK'
  BY <1>1, <1>2 DEF ListInv, ListTypeOK
<1>5. TimesSound'
  BY <1>1 DEF ListInv, TimesSound, Listing, Timed, Last
<1> QED
  BY <1>3, <1>4, <1>5 DEF ListInv

\* A request begins with the lists of that state, and has met nothing.
LEMMA BeginListStep ==
    ASSUME ListInv, IInv', NEW r \in Lister, BeginList(r)
    PROVE  ListInv'
<1> DEFINE k == [request[r] EXCEPT !.pc = "list", !.before = Lists]
<1>1. request[r] \in Requests /\ Sound(request[r], Lists, now, ended) /\ request[r].pc = "idle"
  BY DEF ListInv, ListTypeOK, RequestsSound, BeginList
<1>2. ASSUME NEW s \in Series
      PROVE  Listing(s) \in Seq(BackupVersion) /\ Len(Listing(s)) \in Nat
  BY PresentIsListed DEF ListInv
<1>3. Lists \in [Series -> Seq(BackupVersion)]
  BY <1>2 DEF Lists
<1>4. k \in Requests
  BY <1>1, <1>3 DEF Requests
<1>5. request \in [Lister -> Requests]
  BY DEF ListInv, ListTypeOK
<1>6. request' = [request EXCEPT ![r] = k]
  BY <1>5 DEF BeginList, Lists
<1>7. k.pc = "list" /\ k.token = NoKey /\ k.keys = <<>> /\ k.out = <<>> /\ k.before = Lists
  BY <1>1 DEF Sound, Requests
<1> HIDE DEF k
<1>8. KeysSound(k)
  BY <1>7 DEF KeysSound
<1>9. MetOnce(k)
  <2>1. \A i \in DOMAIN IdOrder : 0 < i
    BY IdOrderAssumption
  <2> QED
    BY <1>7, <2>1 DEF MetOnce, IsMet, NoKey
<1>10. OutSound(k, Lists, now, ended)
  BY <1>2, <1>7 DEF OutSound, Begins, Lists
<1>11. Sound(k, Lists, now, ended)
  BY <1>7, <1>8, <1>9, <1>10 DEF Sound
<1>12. UNCHANGED <<vars, times>>
  BY DEF BeginList
<1> QED
  BY <1>4, <1>6, <1>11, <1>12, RequestStep

\* The keys left after a page are after the token it ends with.
LEMMA PageEnds ==
    ASSUME NEW token \in Keys \cup {NoKey}, NEW page \in Pages(token),
           NEW next \in NextTokens(token, page)
    PROVE  /\ page \subseteq Rest(token)
           /\ next \in Keys \cup {NoKey}
           /\ next # NoKey => Precedes(token, next) /\ \A k \in page : k[1] <= next[1]
           /\ \A k \in Rest(token) : k \in page \/ (next # NoKey /\ Precedes(next, k))
<1>1. page \subseteq Rest(token) /\ Rest(token) \subseteq Keys
  BY DEF Pages, PagesOf, Rest, StoredKeys
<1>2. \A k \in Keys : k[1] \in Nat /\ k[2] \in Nat /\ 0 < k[1]
  BY IdOrderAssumption, MaxVersionAssumption DEF Keys
<1>3. NoKey \notin Keys
  BY <1>2 DEF NoKey
<1>4. CASE next = NoKey
  BY <1>1, <1>3, <1>4 DEF NextTokens
<1>5. CASE next # NoKey
  <2>1. next \in page /\ Backend = "vss" /\ \A l \in page : ~Precedes(next, l)
    BY <1>5 DEF NextTokens
  <2>2. \A k \in page : k[1] <= next[1]
    <3> SUFFICES ASSUME NEW k \in page PROVE k[1] <= next[1]
      OBVIOUS
    <3>1. ~Precedes(next, k)
      BY <2>1
    <3>2. k[1] \in Nat /\ next[1] \in Nat
      BY <1>1, <1>2, <2>1
    <3> QED
      BY <3>1, <3>2 DEF Precedes
  <2>3. Precedes(token, next)
    BY <1>1, <2>1 DEF Rest
  <2>4. \A k \in Rest(token) \ page : Precedes(next, k)
    BY <2>1 DEF Pages, PagesOf
  <2> QED
    BY <1>1, <1>5, <2>1, <2>2, <2>3, <2>4
<1> QED
  BY <1>4, <1>5

\* Ordered sequences of a finite set.
LEMMA InOrderIsSeq ==
    ASSUME NEW S, IsFiniteSet(S), NEW q \in [1 .. Cardinality(S) -> S]
    PROVE  q \in Seq(S) /\ Len(q) \in Nat /\ DOMAIN q = 1 .. Len(q)
<1>1. Cardinality(S) \in Nat
  BY FS_CardinalityType
<1> QED
  BY <1>1

\* Concatenation of ascending sequences of which the second is above the first.
LEMMA AscendingConcat ==
    ASSUME NEW a \in Seq(Nat), NEW b \in Seq(Nat), NEW m \in Nat,
           \A i, j \in DOMAIN a : i < j => a[i] < a[j],
           \A i, j \in DOMAIN b : i < j => b[i] < b[j],
           \A i \in DOMAIN a : a[i] <= m, \A i \in DOMAIN b : m < b[i]
    PROVE  /\ \A i, j \in DOMAIN (a \o b) : i < j => (a \o b)[i] < (a \o b)[j]
           /\ \A i \in DOMAIN a : \E j \in DOMAIN (a \o b) : (a \o b)[j] = a[i]
           /\ \A i \in DOMAIN b : \E j \in DOMAIN (a \o b) : (a \o b)[j] = b[i]
           /\ \A j \in DOMAIN (a \o b) : \/ \E i \in DOMAIN a : (a \o b)[j] = a[i]
                                         \/ \E i \in DOMAIN b : (a \o b)[j] = b[i]
<1> DEFINE c == a \o b
<1>1. /\ c \in Seq(Nat) /\ Len(a) \in Nat /\ Len(b) \in Nat /\ Len(c) = Len(a) + Len(b)
      /\ DOMAIN c = 1 .. Len(a) + Len(b) /\ DOMAIN a = 1 .. Len(a) /\ DOMAIN b = 1 .. Len(b)
  BY ConcatProperties
<1>2. \A i \in DOMAIN c : c[i] = IF i <= Len(a) THEN a[i] ELSE b[i - Len(a)]
  BY <1>1, ConcatProperties
<1> HIDE DEF c
<1>3. ASSUME NEW j \in DOMAIN c
      PROVE  \/ j \in DOMAIN a /\ c[j] = a[j]
             \/ j > Len(a) /\ j - Len(a) \in DOMAIN b /\ c[j] = b[j - Len(a)]
  BY <1>1, <1>2
<1>4. \A i \in DOMAIN a : i \in DOMAIN c /\ c[i] = a[i]
  BY <1>1, <1>2
<1>5. ASSUME NEW i \in DOMAIN b PROVE i + Len(a) \in DOMAIN c /\ c[i + Len(a)] = b[i]
  <2>1. i + Len(a) \in DOMAIN c /\ ~(i + Len(a) <= Len(a)) /\ (i + Len(a)) - Len(a) = i
    BY <1>1
  <2> QED
    BY <1>2, <2>1
<1>6. ASSUME NEW i \in DOMAIN c, NEW j \in DOMAIN c, i < j PROVE c[i] < c[j]
  <2>1. CASE i \in DOMAIN a /\ c[i] = a[i] /\ j \in DOMAIN a /\ c[j] = a[j]
    BY <1>6, <2>1
  <2>2. CASE i \in DOMAIN a /\ c[i] = a[i] /\ j - Len(a) \in DOMAIN b /\ c[j] = b[j - Len(a)]
    <3>1. c[i] <= m /\ m < c[j]
      BY <2>2
    <3>2. c[i] \in Nat /\ c[j] \in Nat
      BY <1>1, ElementOfSeq
    <3> QED
      BY <3>1, <3>2
  <2>3. CASE i > Len(a) /\ i - Len(a) \in DOMAIN b /\ c[i] = b[i - Len(a)]
    <3>1. i \in Int /\ j \in Int /\ i < j /\ i > Len(a) /\ Len(a) \in Nat
      BY <1>1, <1>6, <2>3
    <3>2. j \notin DOMAIN a /\ i - Len(a) < j - Len(a)
      BY <1>1, <3>1
    <3>3. j - Len(a) \in DOMAIN b /\ c[j] = b[j - Len(a)]
      BY <1>3, <3>2
    <3> QED
      BY <2>3, <3>2, <3>3
  <2> QED
    BY <1>3, <2>1, <2>2, <2>3
<1> QED
  BY <1>3, <1>4, <1>5, <1>6 DEF c

\* The order of the ids, and of the keys of a store.
LEMMA IdOrderRange ==
    /\ DOMAIN IdOrder = 1 .. Len(IdOrder) /\ Len(IdOrder) \in Nat
    /\ IsFiniteSet(DOMAIN IdOrder)
    /\ \A i \in DOMAIN IdOrder : i \in Nat /\ 0 < i /\ IdOrder[i] \in Series
<1>1. DOMAIN IdOrder = 1 .. Len(IdOrder) /\ Len(IdOrder) \in Nat
  BY IdOrderAssumption
<1>2. IsFiniteSet(1 .. Len(IdOrder))
  BY <1>1, FS_Interval
<1> QED
  BY <1>1, <1>2, IdOrderAssumption

LEMMA KeyRange ==
    /\ \A k \in Keys : k[1] \in DOMAIN IdOrder /\ k[2] \in Nat /\ k = <<k[1], k[2]>>
    /\ \A k \in Keys \cup {NoKey} : k[1] \in Nat /\ k[2] \in Nat
    /\ \A i \in DOMAIN IdOrder : <<i, 0>> \in Keys
BY IdOrderRange, MaxVersionAssumption DEF Keys, NoKey

\* The metas taken from a page are those of the page.
LEMMA MetasOfPage ==
    ASSUME NEW page \in SUBSET Keys,
           NEW S, S = {k[1] : k \in {l \in page : IsMeta(l)}},
           NEW metas \in [1 .. Cardinality(S) -> S], ToSet(metas) = S
    PROVE  /\ metas \in Seq(DOMAIN IdOrder)
           /\ \A i \in DOMAIN metas : <<metas[i], 0>> \in page
           /\ \A i \in DOMAIN IdOrder : <<i, 0>> \in page => \E j \in DOMAIN metas : metas[j] = i
<1>1. S \subseteq DOMAIN IdOrder
  BY KeyRange
<1>2. IsFiniteSet(S)
  BY <1>1, IdOrderRange, FS_Subset
<1>3. metas \in Seq(S)
  BY <1>2, InOrderIsSeq
<1>4. metas \in Seq(DOMAIN IdOrder)
  BY <1>1, <1>3, SeqMonotonic
<1>5. ASSUME NEW i \in DOMAIN metas PROVE <<metas[i], 0>> \in page
  <2>1. metas[i] \in S
    OBVIOUS
  <2>2. PICK k \in page : IsMeta(k) /\ metas[i] = k[1]
    BY <2>1
  <2>3. k = <<k[1], k[2]>> /\ k[2] = 0
    BY <2>2, KeyRange DEF IsMeta
  <2> QED
    BY <2>2, <2>3
<1>6. ASSUME NEW i \in DOMAIN IdOrder, <<i, 0>> \in page
      PROVE  \E j \in DOMAIN metas : metas[j] = i
  <2>1. IsMeta(<<i, 0>>) /\ <<i, 0>>[1] = i
    BY DEF IsMeta
  <2>2. i \in S
    BY <1>6, <2>1
  <2> QED
    BY <2>2 DEF ToSet
<1> QED
  BY <1>4, <1>5, <1>6

\* A series that was there when the request began has its meta in the store.
LEMMA BeforeIsStored ==
    ASSUME ListInv, NEW k \in Requests, NEW i \in DOMAIN IdOrder, k.before[IdOrder[i]] # <<>>,
           \A s \in Series : Begins(k.before[s], Lists[s])
    PROVE  IdOrder[i] \in Series /\ Present(meta[IdOrder[i]]) /\ <<i, 0>> \in StoredKeys
<1>1. IdOrder[i] \in Series
  BY IdOrderAssumption
<1>2. k.before[IdOrder[i]] \in Seq(BackupVersion)
  BY <1>1 DEF Requests
<1>3. Len(k.before[IdOrder[i]]) \in Nat \ {0}
  BY <1>2, EmptySeq
<1>4. Listing(IdOrder[i]) \in Seq(BackupVersion) /\ Len(Listing(IdOrder[i])) \in Nat
  BY <1>1, PresentIsListed DEF ListInv
<1>5. Len(k.before[IdOrder[i]]) <= Len(Listing(IdOrder[i]))
  BY <1>1 DEF Begins, Lists
<1>6. Listing(IdOrder[i]) # <<>>
  BY <1>3, <1>4, <1>5, EmptySeq
<1>7. Present(meta[IdOrder[i]])
  BY <1>1, <1>6, PresentIsListed DEF ListInv
<1>8. <<i, 0>> \in Keys
  BY KeyRange
<1> QED
  BY <1>1, <1>7, <1>8 DEF StoredKeys, IsMeta

\* A page: its metas go on where the request stopped.
LEMMA ReadPageStep ==
    ASSUME ListInv, IInv', NEW r \in Lister, ReadPage(r)
    PROVE  ListInv'
<1> DEFINE old == request[r]
<1>1. old \in Requests /\ Sound(old, Lists, now, ended) /\ old.pc = "list"
  BY DEF ListInv, ListTypeOK, RequestsSound, ReadPage
<1>2. /\ old.token \in Keys \cup {NoKey} /\ old.keys \in Seq(DOMAIN IdOrder)
      /\ old.before \in [Series -> Seq(BackupVersion)]
      /\ KeysSound(old) /\ MetOnce(old) /\ OutSound(old, Lists, now, ended) /\ old.out = <<>>
  BY <1>1 DEF Requests, Sound, KeysSound
<1> DEFINE Metas(p) == {k[1] : k \in {l \in p : IsMeta(l)}}
<1>3. PICK page, token, metas :
        /\ page \in Pages(old.token) /\ token \in NextTokens(old.token, page)
        /\ metas \in [1 .. Cardinality(Metas(page)) -> Metas(page)] /\ ToSet(metas) = Metas(page)
        /\ \A i, j \in DOMAIN metas : i < j => metas[i] < metas[j]
        /\ request' = [request EXCEPT ![r].keys = @ \o metas, ![r].token = token,
                                      ![r].pc = IF token = NoKey THEN "get" ELSE "list"]
  <2> DEFINE To(token, metas) ==
               request' = [request EXCEPT ![r].keys = @ \o metas, ![r].token = token,
                                          ![r].pc = IF token = NoKey THEN "get" ELSE "list"]
  <2>1. \E page \in Pages(old.token) : \E token \in NextTokens(old.token, page) :
          \E metas \in {q \in [1 .. Cardinality(Metas(page)) -> Metas(page)] :
             ToSet(q) = Metas(page) /\ \A i, j \in DOMAIN q : i < j => q[i] < q[j]} :
           To(token, metas)
    BY Zenon DEF ReadPage, InOrder
  <2> HIDE DEF To, Metas
  <2>2. \E page, token, metas :
        /\ page \in Pages(old.token) /\ token \in NextTokens(old.token, page)
        /\ metas \in [1 .. Cardinality(Metas(page)) -> Metas(page)] /\ ToSet(metas) = Metas(page)
        /\ \A i, j \in DOMAIN metas : i < j => metas[i] < metas[j]
        /\ To(token, metas)
    BY <2>1
  <2> QED
    BY <2>2 DEF To
<1>6. /\ page \subseteq Rest(old.token) /\ token \in Keys \cup {NoKey}
      /\ token # NoKey => Precedes(old.token, token) /\ \A k \in page : k[1] <= token[1]
      /\ \A k \in Rest(old.token) : k \in page \/ (token # NoKey /\ Precedes(token, k))
  BY <1>2, <1>3, PageEnds
<1>7. page \in SUBSET Keys
  BY <1>6 DEF Rest, StoredKeys
<1>8. /\ metas \in Seq(DOMAIN IdOrder)
      /\ \A i, j \in DOMAIN metas : i < j => metas[i] < metas[j]
      /\ \A i \in DOMAIN metas : <<metas[i], 0>> \in page
      /\ \A i \in DOMAIN IdOrder : <<i, 0>> \in page => \E j \in DOMAIN metas : metas[j] = i
  BY <1>3, <1>7, MetasOfPage
<1> DEFINE keys == old.keys \o metas
           k == [old EXCEPT !.keys = keys, !.token = token,
                            !.pc = IF token = NoKey THEN "get" ELSE "list"]
<1>9. keys \in Seq(DOMAIN IdOrder)
  BY <1>2, <1>8, ConcatProperties
<1>10. k \in Requests
  BY <1>1, <1>6, <1>9 DEF Requests
<1>11. request' = [request EXCEPT ![r] = k]
  <2>1. request \in [Lister -> Requests]
    BY DEF ListInv, ListTypeOK
  <2> QED
    BY <1>3, <2>1
<1>12. /\ k.keys = keys /\ k.token = token /\ k.out = <<>> /\ k.before = old.before
       /\ k.pc = IF token = NoKey THEN "get" ELSE "list"
  BY <1>1, <1>2 DEF Requests
<1> HIDE DEF keys, k
<1>13. \A i \in DOMAIN IdOrder : i \in Nat /\ 0 < i
  BY IdOrderRange
<1>14. \A l \in Keys \cup {NoKey} : l[1] \in Nat /\ l[2] \in Nat
  BY KeyRange
<1>15. ASSUME NEW i \in DOMAIN metas PROVE old.token[1] < metas[i] /\ metas[i] \in Nat
  <2>1. metas[i] \in Nat /\ old.token[1] \in Nat /\ old.token[2] \in Nat
    BY <1>2, <1>8, <1>13, <1>14, ElementOfSeq
  <2>2. Precedes(old.token, <<metas[i], 0>>)
    BY <1>6, <1>8 DEF Rest
  <2> QED
    BY <2>1, <2>2 DEF Precedes
<1>16. /\ \A i, j \in DOMAIN keys : i < j => keys[i] < keys[j]
       /\ \A i \in DOMAIN old.keys : \E j \in DOMAIN keys : keys[j] = old.keys[i]
       /\ \A i \in DOMAIN metas : \E j \in DOMAIN keys : keys[j] = metas[i]
       /\ \A j \in DOMAIN keys : \/ \E i \in DOMAIN old.keys : keys[j] = old.keys[i]
                                 \/ \E i \in DOMAIN metas : keys[j] = metas[i]
  <2>1. old.keys \in Seq(Nat) /\ metas \in Seq(Nat)
    BY <1>2, <1>8, <1>13, SeqMonotonic
  <2>2. \A i, j \in DOMAIN old.keys : i < j => old.keys[i] < old.keys[j]
    BY <1>2 DEF KeysSound
  <2>3. \A i \in DOMAIN old.keys : old.keys[i] <= old.token[1]
    BY <1>1, <1>2 DEF KeysSound
  <2>4. old.token[1] \in Nat
    BY <1>2, <1>14
  <2> HIDE DEF old
  <2> QED
    BY <1>8, <1>15, <2>1, <2>2, <2>3, <2>4, AscendingConcat DEF keys
<1>17. KeysSound(k)
  <2>1. ASSUME token # NoKey, NEW j \in DOMAIN keys PROVE keys[j] <= token[1]
    <3>1. old.token[1] \in Nat /\ token[1] \in Nat /\ old.token[1] <= token[1]
      BY <1>2, <1>6, <1>14, <2>1 DEF Precedes
    <3>2. CASE \E i \in DOMAIN old.keys : keys[j] = old.keys[i]
      <4>1. PICK i \in DOMAIN old.keys : keys[j] = old.keys[i]
        BY <3>2
      <4>2. old.keys[i] <= old.token[1] /\ old.keys[i] \in Nat
        BY <1>1, <1>2, <1>13, ElementOfSeq DEF KeysSound
      <4> QED
        BY <3>1, <4>1, <4>2
    <3>3. CASE \E i \in DOMAIN metas : keys[j] = metas[i]
      <4>1. PICK i \in DOMAIN metas : keys[j] = metas[i]
        BY <3>3
      <4>2. <<metas[i], 0>> \in page
        BY <1>8
      <4> QED
        BY <1>6, <2>1, <4>1, <4>2
    <3> QED
      BY <1>16, <3>2, <3>3
  <2> QED
    BY <1>12, <1>16, <2>1 DEF KeysSound
<1>18. MetOnce(k)
  <2>1. ASSUME NEW i \in DOMAIN IdOrder, old.before[IdOrder[i]] # <<>> PROVE IsMet(k, i)
    <3>1. IsMet(old, i)
      BY <1>2, <2>1 DEF MetOnce
    <3>2. CASE \E j \in DOMAIN old.keys : old.keys[j] = i
      BY <1>12, <1>16, <3>2 DEF IsMet
    <3>3. CASE old.token[1] < i
      <4>1. <<i, 0>> \in StoredKeys
        BY <1>1, <1>2, <2>1, BeforeIsStored DEF OutSound
      <4>2. <<i, 0>> \in Rest(old.token)
        BY <3>3, <4>1 DEF Rest, Precedes
      <4>3. CASE <<i, 0>> \in page
        BY <1>8, <1>12, <1>16, <4>3 DEF IsMet
      <4>4. CASE token # NoKey /\ Precedes(token, <<i, 0>>)
        <5>1. token[1] < i
          BY <1>6, <1>14, <4>4 DEF Precedes
        <5> QED
          BY <1>12, <4>4, <5>1 DEF IsMet
      <4> QED
        BY <1>6, <4>2, <4>3, <4>4
    <3> QED
      BY <1>2, <3>1, <3>2, <3>3 DEF IsMet
  <2> QED
    BY <1>12, <2>1 DEF MetOnce
<1>19. OutSound(k, Lists, now, ended)
  BY <1>2, <1>12 DEF OutSound
<1>20. Sound(k, Lists, now, ended)
  BY <1>12, <1>17, <1>18, <1>19 DEF Sound
<1>21. UNCHANGED <<vars, times>>
  BY DEF ReadPage
<1> QED
  BY <1>10, <1>11, <1>20, <1>21, RequestStep

\* The head of an ascending sequence is below its tail, which ascends.
LEMMA AscendingTail ==
    ASSUME NEW S \in SUBSET Nat, NEW q \in Seq(S), q # <<>>,
           \A i, j \in DOMAIN q : i < j => q[i] < q[j]
    PROVE  /\ Head(q) \in S /\ Tail(q) \in Seq(S)
           /\ \E i \in DOMAIN q : q[i] = Head(q)
           /\ \A i, j \in DOMAIN Tail(q) : i < j => Tail(q)[i] < Tail(q)[j]
           /\ \A j \in DOMAIN Tail(q) : /\ Tail(q)[j] \in S /\ Head(q) # Tail(q)[j]
                                        /\ \E i \in DOMAIN q : q[i] = Tail(q)[j]
           /\ \A i \in DOMAIN q : q[i] = Head(q) \/ \E j \in DOMAIN Tail(q) : Tail(q)[j] = q[i]
<1> DEFINE n == Len(q)
           rest == Tail(q)
<1>1. n \in Nat \ {0} /\ DOMAIN q = 1 .. n
  BY EmptySeq
<1>2. /\ Head(q) = q[1] /\ rest \in Seq(S) /\ Len(rest) = n - 1
      /\ \A j \in 1 .. n - 1 : rest[j] = q[j + 1]
  BY <1>1, HeadTailProperties
<1>3. DOMAIN rest = 1 .. n - 1
  BY <1>1, <1>2
<1>4. \A i \in DOMAIN q : q[i] \in S /\ q[i] \in Nat
  BY <1>1, ElementOfSeq
<1> HIDE DEF n, rest
<1>5. ASSUME NEW j \in 1 .. n - 1
      PROVE  j + 1 \in 1 .. n /\ 1 < j + 1 /\ j \in Nat /\ rest[j] = q[j + 1]
  BY <1>1, <1>2
<1>6. ASSUME NEW i \in 1 .. n - 1, NEW j \in 1 .. n - 1, i < j PROVE rest[i] < rest[j]
  <2>1. i + 1 < j + 1
    BY <1>1, <1>6
  <2> QED
    BY <1>1, <1>5, <2>1
<1>7. ASSUME NEW j \in 1 .. n - 1
      PROVE  rest[j] \in S /\ Head(q) # rest[j] /\ \E i \in DOMAIN q : q[i] = rest[j]
  <2>1. j + 1 \in DOMAIN q /\ 1 \in DOMAIN q /\ 1 < j + 1 /\ rest[j] = q[j + 1]
    BY <1>1, <1>5
  <2>2. q[1] < q[j + 1]
    BY <2>1
  <2>3. q[1] \in Nat /\ q[j + 1] \in Nat /\ q[j + 1] \in S
    BY <1>4, <2>1
  <2> QED
    BY <1>2, <2>1, <2>2, <2>3
<1>8. ASSUME NEW i \in 1 .. n, i # 1 PROVE \E j \in 1 .. n - 1 : rest[j] = q[i]
  <2>1. i - 1 \in 1 .. n - 1 /\ (i - 1) + 1 = i
    BY <1>1, <1>8
  <2> QED
    BY <1>2, <2>1
<1>9. 1 \in DOMAIN q /\ Head(q) \in S
  BY <1>1, <1>2, <1>4
<1>10. ASSUME NEW i \in DOMAIN q PROVE q[i] = Head(q) \/ \E j \in DOMAIN rest : rest[j] = q[i]
  BY <1>1, <1>2, <1>3, <1>8
<1>11. \E i \in DOMAIN q : q[i] = Head(q)
  BY <1>2, <1>9
<1>12. /\ \A i, j \in DOMAIN rest : i < j => rest[i] < rest[j]
       /\ \A j \in DOMAIN rest : /\ rest[j] \in S /\ Head(q) # rest[j]
                                 /\ \E i \in DOMAIN q : q[i] = rest[j]
  BY <1>3, <1>6, <1>7
<1> QED
  BY <1>2, <1>9, <1>10, <1>11, <1>12 DEF rest

\* A sequence and one more element.
LEMMA OneMore ==
    ASSUME NEW S, NEW q \in Seq(S), NEW e \in S
    PROVE  /\ Append(q, e) \in Seq(S)
           /\ \A i \in DOMAIN q : i \in DOMAIN Append(q, e) /\ Append(q, e)[i] = q[i]
           /\ \E i \in DOMAIN Append(q, e) : Append(q, e)[i] = e
           /\ \A i \in DOMAIN Append(q, e) :
                \/ i \in DOMAIN q /\ Append(q, e)[i] = q[i]
                \/ i = Len(q) + 1 /\ Append(q, e)[i] = e
<1> DEFINE out == Append(q, e)
<1>1. Len(q) \in Nat /\ DOMAIN q = 1 .. Len(q)
  OBVIOUS
<1>2. /\ out \in Seq(S) /\ Len(out) = Len(q) + 1 /\ out[Len(q) + 1] = e
      /\ \A i \in 1 .. Len(q) : out[i] = q[i]
  BY AppendProperties
<1>3. DOMAIN out = 1 .. Len(q) + 1
  BY <1>1, <1>2
<1> HIDE DEF out
<1>4. \A i \in DOMAIN q : i \in DOMAIN out /\ out[i] = q[i]
  BY <1>1, <1>2, <1>3
<1>5. \E i \in DOMAIN out : out[i] = e
  BY <1>1, <1>2, <1>3
<1>6. ASSUME NEW i \in DOMAIN out
      PROVE  (i \in DOMAIN q /\ out[i] = q[i]) \/ (i = Len(q) + 1 /\ out[i] = e)
  BY <1>1, <1>2, <1>3
<1> QED
  BY <1>2, <1>4, <1>5, <1>6 DEF out

\* The manifest got is that of the first key left; it goes to the end of the list.
LEMMA GetManifestStep ==
    ASSUME ListInv, IInv', NEW r \in Lister, GetManifest(r)
    PROVE  ListInv'
<1> DEFINE old == request[r]
           h == Head(old.keys)
           rest == Tail(old.keys)
           s == IdOrder[h]
           entry == [series |-> s, versions |-> Listing(s), updated |-> updated[s]]
           found == IF Present(meta[s]) THEN <<entry>> ELSE <<>>
           out == old.out \o found
           k == [old EXCEPT !.keys = rest, !.out = out]
<1>1. old \in Requests /\ Sound(old, Lists, now, ended) /\ old.pc = "get" /\ old.keys # <<>>
  BY DEF ListInv, ListTypeOK, RequestsSound, GetManifest
<1>2. /\ old.keys \in Seq(DOMAIN IdOrder) /\ old.out \in Seq(Entry)
      /\ old.before \in [Series -> Seq(BackupVersion)]
      /\ KeysSound(old) /\ MetOnce(old) /\ OutSound(old, Lists, now, ended)
  BY <1>1 DEF Requests, Sound
<1>3. /\ h \in DOMAIN IdOrder /\ s \in Series
      /\ rest \in Seq(DOMAIN IdOrder)
      /\ \E i \in DOMAIN old.keys : old.keys[i] = h
      /\ \A i, j \in DOMAIN rest : i < j => rest[i] < rest[j]
      /\ \A j \in DOMAIN rest : /\ rest[j] \in DOMAIN IdOrder /\ h # rest[j]
                                /\ \E i \in DOMAIN old.keys : old.keys[i] = rest[j]
      /\ \A i \in DOMAIN old.keys : old.keys[i] = h \/ \E j \in DOMAIN rest : rest[j] = old.keys[i]
  <2>1. DOMAIN IdOrder \in SUBSET Nat /\ \A i \in DOMAIN IdOrder : IdOrder[i] \in Series
    BY IdOrderRange
  <2>2. \A i, j \in DOMAIN old.keys : i < j => old.keys[i] < old.keys[j]
    BY <1>2 DEF KeysSound
  <2> HIDE DEF old
  <2>3. /\ Head(old.keys) \in DOMAIN IdOrder /\ Tail(old.keys) \in Seq(DOMAIN IdOrder)
        /\ \E i \in DOMAIN old.keys : old.keys[i] = Head(old.keys)
        /\ \A i, j \in DOMAIN rest : i < j => rest[i] < rest[j]
        /\ \A j \in DOMAIN rest : /\ rest[j] \in DOMAIN IdOrder /\ h # rest[j]
                                  /\ \E i \in DOMAIN old.keys : old.keys[i] = rest[j]
        /\ \A i \in DOMAIN old.keys : old.keys[i] = h \/ \E j \in DOMAIN rest : rest[j] = old.keys[i]
    BY <1>1, <1>2, <2>1, <2>2, AscendingTail
  <2> QED
    BY <2>1, <2>3
<1>4. /\ Listing(s) \in Seq(BackupVersion) /\ Len(Listing(s)) \in Nat
      /\ Present(meta[s]) <=> Listing(s) # <<>>
  BY <1>3, PresentIsListed DEF ListInv
<1>5. updated \in [Series -> Nat] /\ entry \in Entry
  BY <1>3, <1>4 DEF ListInv, ListTypeOK, Entry
<1> HIDE DEF entry
<1>6. /\ out \in Seq(Entry)
      /\ \A i \in DOMAIN old.out : i \in DOMAIN out /\ out[i] = old.out[i]
      /\ Present(meta[s]) => \E i \in DOMAIN out : out[i] = entry
      /\ \A i \in DOMAIN out :
           \/ i \in DOMAIN old.out /\ out[i] = old.out[i]
           \/ i = Len(old.out) + 1 /\ Present(meta[s]) /\ out[i] = entry
  <2>1. CASE Present(meta[s])
    <3>1. out = Append(old.out, entry)
      BY <2>1
    <3> HIDE DEF old, out
    <3> QED
      BY <1>2, <1>5, <2>1, <3>1, OneMore
  <2>2. CASE ~Present(meta[s])
    <3>1. out = old.out
      BY <1>2, <2>2, ConcatEmptySeq
    <3> HIDE DEF old, out
    <3> QED
      BY <1>2, <2>2, <3>1
  <2> QED
    BY <2>1, <2>2
<1> HIDE DEF found, out
<1>7. k \in Requests
  BY <1>1, <1>3, <1>6 DEF Requests
<1>8. request' = [request EXCEPT ![r] = k]
  <2>1. request \in [Lister -> Requests]
    BY DEF ListInv, ListTypeOK
  <2> QED
    BY <2>1 DEF GetManifest, out, found, entry
<1>9. /\ k.keys = rest /\ k.token = old.token /\ k.out = out /\ k.before = old.before
      /\ k.pc = "get"
  BY <1>1 DEF Requests
<1>12. entry.series = s /\ entry.versions = Listing(s) /\ entry.updated = updated[s]
  BY DEF entry
<1> HIDE DEF k, rest
<1>13. KeysSound(k)
  BY <1>3, <1>9 DEF KeysSound
<1>14. ASSUME NEW j \in DOMAIN rest PROVE IdOrder[rest[j]] # s
  BY <1>3, IdOrderAssumption DEF IsInjective
<1>15. ASSUME NEW i \in DOMAIN old.out PROVE old.out[i].series # s
  <2>1. PICK j \in DOMAIN old.keys : old.keys[j] = h
    BY <1>3
  <2>2. old.out[i].series # IdOrder[old.keys[j]]
    BY <1>2 DEF MetOnce
  <2> QED
    BY <2>1, <2>2
<1>16. MetOnce(k)
  <2>1. ASSUME NEW i \in DOMAIN IdOrder, k.before[IdOrder[i]] # <<>> PROVE IsMet(k, i)
    <3>1. IsMet(old, i)
      BY <1>2, <1>9, <2>1 DEF MetOnce
    <3>2. CASE i = h
      <4>1. Present(meta[s])
        BY <1>1, <1>2, <1>9, <2>1, <3>2, BeforeIsStored DEF OutSound
      <4>2. \E i1 \in DOMAIN out : out[i1].series = s
        BY <1>6, <1>12, <4>1
      <4> QED
        BY <1>9, <3>2, <4>2 DEF IsMet
    <3>3. CASE i # h /\ \E j \in DOMAIN old.keys : old.keys[j] = i
      <4>1. PICK j \in DOMAIN old.keys : old.keys[j] = i
        BY <3>3
      <4>2. \E p \in DOMAIN rest : rest[p] = i
        BY <1>3, <3>3, <4>1
      <4> QED
        BY <1>9, <4>2 DEF IsMet
    <3>4. CASE \E j \in DOMAIN old.out : old.out[j].series = IdOrder[i]
      <4>1. PICK j \in DOMAIN old.out : old.out[j].series = IdOrder[i]
        BY <3>4
      <4>2. j \in DOMAIN out /\ out[j] = old.out[j]
        BY <1>6
      <4> QED
        BY <1>9, <4>1, <4>2 DEF IsMet
    <3> QED
      BY <1>1, <3>1, <3>2, <3>3, <3>4 DEF IsMet
  <2>2. ASSUME NEW i \in DOMAIN out, NEW j \in DOMAIN out, out[i].series = out[j].series
        PROVE  i = j
    <3>1. CASE i \in DOMAIN old.out /\ out[i] = old.out[i] /\ j \in DOMAIN old.out /\ out[j] = old.out[j]
      BY <1>2, <2>2, <3>1 DEF MetOnce
    <3> QED
      BY <1>6, <1>12, <1>15, <2>2, <3>1
  <2>3. ASSUME NEW i \in DOMAIN out, NEW j \in DOMAIN rest PROVE out[i].series # IdOrder[rest[j]]
    <3>1. CASE i \in DOMAIN old.out /\ out[i] = old.out[i]
      <4>1. PICK p \in DOMAIN old.keys : old.keys[p] = rest[j]
        BY <1>3
      <4>2. old.out[i].series # IdOrder[old.keys[p]]
        BY <1>2, <3>1 DEF MetOnce
      <4> QED
        BY <3>1, <4>1, <4>2
    <3>2. CASE out[i] = entry
      BY <1>12, <1>14, <3>2
    <3> QED
      BY <1>6, <3>1, <3>2
  <2> QED
    BY <1>9, <2>1, <2>2, <2>3 DEF MetOnce
<1>17. OutSound(k, Lists, now, ended)
  <2>1. ASSUME NEW i \in DOMAIN out PROVE EntrySound(out[i], old.before, Lists, now, ended)
    <3>1. CASE i \in DOMAIN old.out /\ out[i] = old.out[i]
      BY <1>2, <3>1 DEF OutSound
    <3>2. CASE Present(meta[s]) /\ out[i] = entry
      <4>1. Lists[s] = Listing(s)
        BY <1>3 DEF Lists
      <4>2. Begins(old.before[s], Listing(s)) /\ Begins(Listing(s), Listing(s))
        BY <1>2, <1>3, <1>4, <4>1, BeginsItself DEF OutSound
      <4>3. /\ Listing(s) # <<>> /\ updated[s] = now[Last(Listing(s)).bytes]
            /\ Timed(Last(Listing(s)).bytes, now, ended)
        BY <1>3, <1>4, <3>2 DEF ListInv, TimesSound
      <4> QED
        BY <1>12, <3>2, <4>1, <4>2, <4>3 DEF EntrySound
    <3> QED
      BY <1>6, <3>1, <3>2
  <2> QED
    BY <1>2, <1>9, <2>1 DEF OutSound
<1>18. Sound(k, Lists, now, ended)
  BY <1>9, <1>13, <1>16, <1>17 DEF Sound
<1>19. UNCHANGED <<vars, times>>
  BY DEF GetManifest
<1> QED
  BY <1>7, <1>8, <1>18, <1>19, RequestStep

\* A sorted list has the entries of the list, each once, newest first.
LEMMA SortedIsPermutation ==
    ASSUME NEW out \in Seq(Entry), NEW sorted \in Sorted(out)
    PROVE  /\ sorted \in Seq(Entry)
           /\ \A i \in DOMAIN sorted : \E j \in DOMAIN out : sorted[i] = out[j]
           /\ \A j \in DOMAIN out : \E i \in DOMAIN sorted : sorted[i] = out[j]
           /\ \A i, j \in DOMAIN sorted : i < j => sorted[i].updated >= sorted[j].updated
           /\ (\A i, j \in DOMAIN out : out[i].series = out[j].series => i = j) =>
                \A i, j \in DOMAIN sorted : sorted[i].series = sorted[j].series => i = j
<1> DEFINE D == DOMAIN out
           Before(i, j) == Newer(out[i], out[j]) \/ (~Newer(out[j], out[i]) /\ i < j)
<1>1. D = 1 .. Len(out) /\ Len(out) \in Nat /\ \A i \in D : out[i].updated \in Nat /\ i \in Nat
  <2>1. D = 1 .. Len(out) /\ Len(out) \in Nat /\ \A i \in D : i \in Nat
    OBVIOUS
  <2>2. \A i \in D : out[i] \in Entry
    OBVIOUS
  <2> QED
    BY <2>1, <2>2 DEF Entry
<1>2. Cardinality(D) = Len(out)
  <2> HIDE DEF D
  <2>1. Cardinality(1 .. Len(out)) = IF 1 > Len(out) THEN 0 ELSE Len(out) - 1 + 1
    BY <1>1, FS_Interval
  <2> QED
    BY <1>1, <2>1
<1>3. PICK order \in [1 .. Cardinality(D) -> D] :
        /\ ToSet(order) = D
        /\ \A i, j \in DOMAIN order : i < j => Before(order[i], order[j])
        /\ sorted = [i \in D |-> out[order[i]]]
  BY DEF Sorted, InOrder
<1>4. DOMAIN order = D /\ DOMAIN sorted = D
  BY <1>1, <1>2, <1>3
<1> HIDE DEF D
<1>5. \A i \in D : order[i] \in D /\ sorted[i] = out[order[i]]
  BY <1>1, <1>2, <1>3
<1>6. sorted \in Seq(Entry)
  <2>1. \A i \in D : out[i] \in Entry
    BY DEF D
  <2>2. sorted \in [1 .. Len(out) -> Entry]
    BY <1>1, <1>3, <1>5, <2>1
  <2> QED
    BY <1>1, <2>2
<1>7. \A j \in D : \E i \in D : order[i] = j
  BY <1>3, <1>4 DEF ToSet
<1>8. ASSUME NEW i \in D, NEW j \in D, i < j
      PROVE  order[i] # order[j] /\ sorted[i].updated >= sorted[j].updated
  <2>1. Before(order[i], order[j])
    BY <1>3, <1>4, <1>8
  <2>2. /\ out[order[i]].updated \in Nat /\ out[order[j]].updated \in Nat
        /\ order[i] \in Nat /\ order[j] \in Nat
    BY <1>1, <1>5
  <2>3. \/ out[order[i]].updated > out[order[j]].updated
        \/ ~(out[order[j]].updated > out[order[i]].updated) /\ order[i] < order[j]
    BY <2>1 DEF Newer
  <2>4. out[order[i]].updated >= out[order[j]].updated /\ order[i] # order[j]
    BY <2>2, <2>3
  <2> QED
    BY <1>5, <2>4
<1>9. ASSUME NEW i \in D, NEW j \in D, order[i] = order[j] PROVE i = j
  BY <1>1, <1>8, <1>9
<1>10. ASSUME \A i, j \in D : out[i].series = out[j].series => i = j,
              NEW i \in D, NEW j \in D, sorted[i].series = sorted[j].series
       PROVE  i = j
  <2>1. order[i] = order[j]
    BY <1>5, <1>10
  <2> QED
    BY <1>9, <2>1
<1>11. \A j \in D : \E i \in D : sorted[i] = out[j]
  BY <1>5, <1>7
<1> HIDE DEF Before
<1> QED
  BY <1>4, <1>5, <1>6, <1>8, <1>10, <1>11 DEF D

\* The answer lists what was found, sorted.
LEMMA AnswerStep ==
    ASSUME ListInv, IInv', NEW r \in Lister, Answer(r)
    PROVE  ListInv'
<1> DEFINE old == request[r]
<1>1. /\ old \in Requests /\ Sound(old, Lists, now, ended) /\ old.pc = "get" /\ old.keys = <<>>
      /\ UNCHANGED <<vars, times>>
  BY DEF ListInv, ListTypeOK, RequestsSound, Answer
<1>2. /\ old.out \in Seq(Entry) /\ KeysSound(old) /\ MetOnce(old) /\ OutSound(old, Lists, now, ended)
  BY <1>1 DEF Requests, Sound
<1>3. PICK sorted \in Sorted(old.out) :
        request' = [request EXCEPT ![r].pc = "done", ![r].out = sorted]
  BY DEF Answer
<1> DEFINE k == [old EXCEPT !.pc = "done", !.out = sorted]
<1>4. /\ sorted \in Seq(Entry)
      /\ \A i \in DOMAIN sorted : \E j \in DOMAIN old.out : sorted[i] = old.out[j]
      /\ \A j \in DOMAIN old.out : \E i \in DOMAIN sorted : sorted[i] = old.out[j]
      /\ \A i, j \in DOMAIN sorted : i < j => sorted[i].updated >= sorted[j].updated
      /\ (\A i, j \in DOMAIN old.out : old.out[i].series = old.out[j].series => i = j) =>
           \A i, j \in DOMAIN sorted : sorted[i].series = sorted[j].series => i = j
  BY <1>2, SortedIsPermutation
<1>5. k \in Requests
  BY <1>1, <1>4 DEF Requests
<1>6. request' = [request EXCEPT ![r] = k]
  <2>1. request \in [Lister -> Requests]
    BY DEF ListInv, ListTypeOK
  <2> QED
    BY <1>3, <2>1
<1>7. k.pc = "done" /\ k.keys = <<>> /\ k.out = sorted /\ k.before = old.before
  BY <1>1 DEF Requests
<1> HIDE DEF k
<1>8. KeysSound(k)
  BY <1>7 DEF KeysSound
<1>9. MetOnce(k)
  <2>1. ASSUME NEW i \in DOMAIN IdOrder, old.before[IdOrder[i]] # <<>>
        PROVE  \E j \in DOMAIN sorted : sorted[j].series = IdOrder[i]
    <3>1. PICK j \in DOMAIN old.out : old.out[j].series = IdOrder[i]
      BY <1>1, <1>2, <2>1 DEF MetOnce, IsMet
    <3>2. PICK p \in DOMAIN sorted : sorted[p] = old.out[j]
      BY <1>4
    <3> QED
      BY <3>1, <3>2
  <2>2. \A i, j \in DOMAIN sorted : sorted[i].series = sorted[j].series => i = j
    BY <1>2, <1>4 DEF MetOnce
  <2> QED
    BY <1>7, <2>1, <2>2 DEF MetOnce, IsMet
<1>10. OutSound(k, Lists, now, ended)
  BY <1>2, <1>4, <1>7 DEF OutSound
<1>11. Sound(k, Lists, now, ended)
  BY <1>7, <1>8, <1>9, <1>10 DEF Sound
<1> QED
  BY <1>1, <1>5, <1>6, <1>11, RequestStep

\* A failed listing answers nothing.
LEMMA ListFailsStep ==
    ASSUME ListInv, IInv', NEW r \in Lister, ListFails(r)
    PROVE  ListInv'
<1> DEFINE k == [request[r] EXCEPT !.pc = "failed"]
<1>1. request \in [Lister -> Requests] /\ request[r] \in Requests /\ UNCHANGED <<vars, times>>
  BY DEF ListInv, ListTypeOK, ListFails
<1>2. k \in Requests /\ k.pc = "failed" /\ request' = [request EXCEPT ![r] = k]
  BY <1>1 DEF Requests, ListFails
<1>3. Sound(k, Lists, now, ended)
  BY <1>2 DEF Sound
<1> HIDE DEF k
<1> QED
  BY <1>1, <1>2, <1>3, RequestStep

\* A restart ends the listings under way; the in-memory store is empty after it.
LEMMA ListRestartStep ==
    ASSUME ListInv, IInv', ListRestart
    PROVE  ListInv'
<1> DEFINE later == [s \in Series |-> meta'[s].value.versions]
<1>1. UNCHANGED <<clock, now, ended>> /\ \A u \in Upload : pc'[u] # "idle" => pc[u] # "idle"
  BY DEF ListRestart, Restart, ListInv, IInv, TypeOK, Running
<1>2. CASE Backend = "memory"
  <2>1. /\ request' = [r \in Lister |-> NoRequest] /\ updated' = [s \in Series |-> NoTime]
        /\ \A s \in Series : meta'[s].value.versions = <<>>
    BY <1>2 DEF ListRestart, Restart, Absent, NoManifest
  <2>2. NoRequest \in Requests
    BY DEF NoRequest, Requests
  <2>3. ListTypeOK'
    BY <1>1, <2>1, <2>2 DEF ListInv, ListTypeOK, NoTime
  <2>4. TimesSound'
    BY <1>1, <2>1 DEF ListInv, TimesSound, Listing
  <2> HIDE DEF later
  <2>5. ASSUME NEW r \in Lister PROVE Sound(request'[r], later, now', ended')
    BY <2>1 DEF Sound, NoRequest
  <2> QED
    BY <2>3, <2>4, <2>5, RequestsSoundNext DEF ListInv, later
<1>3. CASE Backend # "memory"
  <2>1. /\ request' = [r \in Lister |-> IF request[r].pc \in {"list", "get"}
                                      THEN [request[r] EXCEPT !.pc = "failed"] ELSE request[r]]
        /\ updated' = updated /\ meta' = meta
    BY <1>3 DEF ListRestart, Restart
  <2>2. ASSUME NEW r \in Lister
        PROVE  request'[r] \in Requests /\ Sound(request'[r], Lists, now, ended)
    <3>1. request[r] \in Requests /\ Sound(request[r], Lists, now, ended)
      BY DEF ListInv, ListTypeOK, RequestsSound
    <3>2. CASE request[r].pc \in {"list", "get"}
      <4>1. request'[r] \in Requests /\ request'[r].pc = "failed"
        BY <2>1, <3>1, <3>2 DEF Requests
      <4> QED
        BY <4>1 DEF Sound
    <3>3. CASE request[r].pc \notin {"list", "get"}
      BY <2>1, <3>1, <3>3
    <3> QED
      BY <3>2, <3>3
  <2>3. ListTypeOK'
    BY <1>1, <2>1, <2>2 DEF ListInv, ListTypeOK
  <2>4. TimesSound'
    BY <1>1, <2>1 DEF ListInv, TimesSound, Listing, Timed, Last
  <2>5. later = Lists
    BY <2>1 DEF Lists, Listing
  <2> HIDE DEF later
  <2>6. \A r \in Lister : Sound(request'[r], later, now', ended')
    BY <1>1, <2>2, <2>5
  <2> QED
    BY <2>3, <2>4, <2>6, RequestsSoundNext DEF ListInv, later
<1> QED
  BY <1>2, <1>3

\* The service starts with no requests and no manifests.
LEMMA ListInvInit == ListInit => ListInv
<1> SUFFICES ASSUME ListInit PROVE ListInv
  OBVIOUS
<1>1. IInv
  BY InitEstablishes DEF ListInit
<1>2. ListTypeOK
  BY DEF ListInit, ListTypeOK, NoRequest, Requests, NoTime
<1>3. TimesSound
  BY DEF ListInit, Init, TimesSound, Listing, Absent, NoManifest, NoTime
<1>4. ASSUME NEW r \in Lister PROVE Sound(request[r], Lists, now, ended)
  <2>1. request[r] = NoRequest
    BY DEF ListInit
  <2> QED
    BY <2>1 DEF Sound, NoRequest
<1> QED
  BY <1>1, <1>2, <1>3, <1>4 DEF ListInv, RequestsSound

\* Every step of an upload, of a listing and of the process keeps the invariant.
LEMMA ListInvNext == ListInv /\ [ListNext]_allVars => ListInv'
<1> SUFFICES ASSUME ListInv, [ListNext]_allVars PROVE ListInv'
  OBVIOUS
<1>1. IInv'
  BY NextPreserves, ListNextIsNext DEF ListInv, allVars, vars
<1>2. CASE UploadsGoOn
  BY <1>1, <1>2, UploadsStep
<1>3. ASSUME NEW r \in Lister, BeginList(r) PROVE ListInv'
  BY <1>1, <1>3, BeginListStep
<1>4. ASSUME NEW r \in Lister, ReadPage(r) PROVE ListInv'
  BY <1>1, <1>4, ReadPageStep
<1>5. ASSUME NEW r \in Lister, GetManifest(r) PROVE ListInv'
  BY <1>1, <1>5, GetManifestStep
<1>6. ASSUME NEW r \in Lister, Answer(r) PROVE ListInv'
  BY <1>1, <1>6, AnswerStep
<1>7. ASSUME NEW r \in Lister, ListFails(r) PROVE ListInv'
  BY <1>1, <1>7, ListFailsStep
<1>8. CASE ListRestart
  BY <1>1, <1>8, ListRestartStep
<1>9. CASE UNCHANGED allVars
  <2>1. UNCHANGED <<meta, pc, clock, now, updated, ended, request>>
    BY <1>9 DEF allVars, vars, times
  <2>2. ListTypeOK' /\ TimesSound'
    BY <2>1 DEF ListInv, ListTypeOK, TimesSound, Listing, Timed, Last
  <2> DEFINE later == [s \in Series |-> meta'[s].value.versions]
  <2>3. later = Lists
    BY <2>1 DEF Lists, Listing
  <2> HIDE DEF later
  <2>4. \A r \in Lister : Sound(request'[r], later, now', ended')
    BY <2>1, <2>3 DEF ListInv, RequestsSound
  <2> QED
    BY <1>1, <2>2, <2>4, RequestsSoundNext DEF ListInv, later
<1> QED
  BY <1>2, <1>3, <1>4, <1>5, <1>6, <1>7, <1>8, <1>9 DEF ListNext, List, UploadsGoOn

\* The invariant of uploads and listings together.
THEOREM ListInvariance == ListSpec => []ListInv
BY ListInvInit, ListInvNext, PTL DEF ListSpec

\* Begins is what IsPrefix says.
LEMMA BeginsIsPrefix ==
    ASSUME NEW S, NEW a \in Seq(S), NEW b \in Seq(S), Begins(a, b)
    PROVE  IsPrefix(a, b)
<1>1. Len(a) \in Nat /\ Len(b) \in Nat /\ Len(a) <= Len(b)
  BY DEF Begins
<1>2. /\ SubSeq(a, 1, Len(a)) = [i \in 1 .. Len(a) |-> a[i]]
      /\ SubSeq(b, 1, Len(a)) = [i \in 1 .. Len(a) |-> b[i]]
  BY <1>1
<1>3. [i \in 1 .. Len(a) |-> a[i]] = [i \in 1 .. Len(a) |-> b[i]]
  BY DEF Begins
<1> QED
  BY <1>1, <1>2, <1>3 DEF IsPrefix

\* What a listing answers is complete, whatever was uploaded, paged or restarted
\* in the meantime.
THEOREM ListingsComplete == ListSpec => []ListingIsComplete
<1>1. ListInv => ListingIsComplete
  <2> SUFFICES ASSUME ListInv, NEW r \in Lister, request[r].pc = "done"
               PROVE  LET out == request[r].out
                          before == request[r].before
                      IN  /\ \A s \in Series : before[s] # <<>> => \E i \in DOMAIN out : out[i].series = s
                          /\ \A i, j \in DOMAIN out : out[i].series = out[j].series => i = j
                          /\ \A i \in DOMAIN out :
                               /\ IsPrefix(before[out[i].series], out[i].versions)
                               /\ IsPrefix(out[i].versions, Listing(out[i].series))
    BY DEF ListingIsComplete
  <2> DEFINE k == request[r]
  <2>1. k \in Requests /\ KeysSound(k) /\ MetOnce(k) /\ OutSound(k, Lists, now, ended)
    BY DEF ListInv, ListTypeOK, RequestsSound, Sound
  <2>2. ASSUME NEW s \in Series, k.before[s] # <<>> PROVE \E i \in DOMAIN k.out : k.out[i].series = s
    <3>1. PICK i \in DOMAIN IdOrder : IdOrder[i] = s
      BY IdOrderAssumption DEF ToSet
    <3>2. k.keys = <<>>
      BY <2>1 DEF KeysSound
    <3> QED
      BY <2>1, <2>2, <3>1, <3>2 DEF MetOnce, IsMet
  <2>3. ASSUME NEW i \in DOMAIN k.out
        PROVE  /\ IsPrefix(k.before[k.out[i].series], k.out[i].versions)
               /\ IsPrefix(k.out[i].versions, Listing(k.out[i].series))
    <3>1. k.out[i] \in Entry /\ k.before \in [Series -> Seq(BackupVersion)]
      BY <2>1 DEF Requests
    <3>2. /\ k.out[i].series \in Series /\ k.out[i].versions \in Seq(BackupVersion)
          /\ k.before[k.out[i].series] \in Seq(BackupVersion)
      BY <3>1 DEF Entry
    <3>3. Listing(k.out[i].series) \in Seq(BackupVersion)
      BY <3>2, PresentIsListed DEF ListInv
    <3>4. /\ Begins(k.before[k.out[i].series], k.out[i].versions)
          /\ Begins(k.out[i].versions, Listing(k.out[i].series))
      BY <2>1, <3>2 DEF OutSound, EntrySound, Lists
    <3> QED
      BY <3>2, <3>3, <3>4, BeginsIsPrefix
  <2> QED
    BY <2>1, <2>2, <2>3 DEF MetOnce
<1> QED
  BY <1>1, ListInvariance, PTL

\* A listing answers the backups in the order of the times of the uploads that
\* put their manifests last; the times of older versions do not count.
THEOREM ListingsOrdered == ListSpec => []ListedByNewestUpload
<1>1. ListInv => ListedByNewestUpload
  <2> SUFFICES ASSUME ListInv, NEW r \in Lister, request[r].pc = "done",
                      NEW i \in DOMAIN request[r].out, NEW j \in DOMAIN request[r].out, i < j
               PROVE  ~(ended[Last(request[r].out[i].versions).bytes]
                          < now[Last(request[r].out[j].versions).bytes])
    BY DEF ListedByNewestUpload
  <2> DEFINE out == request[r].out
             u == Last(out[i].versions).bytes
             w == Last(out[j].versions).bytes
  <2>1. request[r] \in Requests /\ OutSound(request[r], Lists, now, ended)
    BY DEF ListInv, ListTypeOK, RequestsSound, Sound
  <2>2. /\ out[i].updated >= out[j].updated
        /\ out[i].updated = now[u] /\ Timed(u, now, ended) /\ out[j].updated = now[w]
        /\ out[i].versions # <<>>
    BY <2>1 DEF OutSound, EntrySound
  <2>3. out[i] \in Entry /\ out[j] \in Entry
    BY <2>1 DEF Requests
  <2>4. out[i].updated \in Nat /\ out[j].updated \in Nat /\ out[i].versions \in Seq(BackupVersion)
    BY <2>3 DEF Entry
  <2>5. u \in Upload
    <3>1. Last(out[i].versions) \in BackupVersion
      BY <2>2, <2>4, LastIsElement
    <3> QED
      BY <3>1 DEF BackupVersion
  <2>6. ended[u] \in Nat
    BY <2>5 DEF ListInv, ListTypeOK
  <2> HIDE DEF u, w
  <2>7. ~(ended[u] < now[w])
    BY <2>2, <2>4, <2>6 DEF Timed
  <2> QED
    BY <2>7 DEF u, w
<1> QED
  BY <1>1, ListInvariance, PTL
=============================================================================
