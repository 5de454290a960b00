---------------------------- MODULE BackupService ----------------------------
(***************************************************************************)
(* Uploads and storage challenges of pivss-server (state.rs), many at a    *)
(* time, over one versioned store.  A backup series has a manifest key     *)
(* (`backups/{id}/meta`) and one data key per version                      *)
(* (`backups/{id}/v{n}`).  `store_backup` reads the manifest, puts the     *)
(* bytes at the next version's key as a first write, writes the seed file  *)
(* and the torrent, and puts the manifest back on the version it read.     *)
(* Every await between these steps lets other requests run, and every `?`  *)
(* ends the request there with nothing undone.                             *)
(*                                                                         *)
(* The bytes of upload u are represented by u itself: uploads of equal     *)
(* bytes are told apart, which only makes the properties stronger.         *)
(***************************************************************************)
EXTENDS VersionedStore, Sequences

CONSTANTS Series,       \* backup ids, one per (file name, kind)
          Upload,       \* upload requests
          Reader,       \* challenge requests
          NoBytes,      \* content of an absent key or of an incomplete file
          MaxVersion,   \* bound on the versions of a series (a u64 in the code)
          Backend,      \* "memory" or "vss"
          Faults        \* may requests fail and may the server restart?

ASSUME NoBytesAssumption == NoBytes \notin Upload
ASSUME MaxVersionAssumption == MaxVersion \in Nat
ASSUME BackendAssumption == Backend \in {"memory", "vss"}
ASSUME FaultsAssumption == Faults \in BOOLEAN

VARIABLES meta,         \* meta[s]: the cell of the manifest of s
          data,         \* data[s][n]: the cell of the bytes of version n of s
          seeds,        \* seeds[s][n]: the complete seed file of version n of s
          pc,           \* the step each upload is at
          target,       \* the series each upload names
          base,         \* the manifest cell each upload read
          challenge     \* the challenge each reader has sent
vars == <<meta, data, seeds, pc, target, base, challenge>>

Versions == 1 .. MaxVersion

(***************************************************************************)
(* State.  `lostData` and `lostMeta` are requests that have ended while    *)
(* their put to the vss-server is still under way.                         *)
(***************************************************************************)
BackupVersion == [version : Versions, bytes : Upload]
BackupManifest == [latest : 0 .. MaxVersion, versions : Seq(BackupVersion)]
NoManifest == [latest |-> 0, versions |-> <<>>]

Running == {"putData", "seed", "putMeta"}
Lost == {"lostData", "lostMeta"}
Step == {"idle", "created", "conflict", "failed"} \cup Running \cup Lost

Latest == 0             \* a challenge that names no version
NoChallenge == [pc |-> "idle", series |-> NoBytes, asked |-> Latest,
                want |-> Latest, bytes |-> NoBytes]

MetaCell == [version : Nat, value : BackupManifest]
DataCell == [version : Nat, value : Upload \cup {NoBytes}]
Challenge == [pc : {"idle", "reading", "answered", "missing"},
              series : Series \cup {NoBytes},
              asked : 0 .. MaxVersion, want : 0 .. MaxVersion,
              bytes : Upload \cup {NoBytes}]

Init ==
    /\ meta = [s \in Series |-> Absent(NoManifest)]
    /\ data = [s \in Series |-> [n \in Versions |-> Absent(NoBytes)]]
    /\ seeds = [s \in Series |-> [n \in Versions |-> NoBytes]]
    /\ pc = [u \in Upload |-> "idle"]
    /\ target \in [Upload -> Series]
    /\ base = [u \in Upload |-> Absent(NoManifest)]
    /\ challenge = [r \in Reader |-> NoChallenge]

(***************************************************************************)
(* store_backup, from its first await to its answer.                       *)
(***************************************************************************)
NextVersion(u) == base[u].value.latest + 1

DataOf(u) == data[target[u]][NextVersion(u)]

GoTo(u, step) == pc' = [pc EXCEPT ![u] = step]

\* The size check against the configuration snapshot fails (TooLarge).
RejectTooLarge(u) ==
    /\ pc[u] = "idle"
    /\ GoTo(u, "failed")
    /\ UNCHANGED <<meta, data, seeds, target, base, challenge>>

ReadManifest(u) ==
    /\ pc[u] = "idle"
    /\ meta[target[u]].value.latest < MaxVersion
    /\ base' = [base EXCEPT ![u] = meta[target[u]]]
    /\ GoTo(u, "putData")
    /\ UNCHANGED <<meta, data, seeds, target, challenge>>

DataWrite(u) ==
    data' = [data EXCEPT ![target[u]][NextVersion(u)] = Put(@, FirstWrite, u)]

PutData(u) ==
    /\ pc[u] = "putData"
    /\ DataWrite(u)
    /\ GoTo(u, IF Accepts(DataOf(u), FirstWrite) THEN "seed" ELSE "conflict")
    /\ UNCHANGED <<meta, seeds, target, base, challenge>>

\* Bug: one seed directory per series.
SeedWrite_Fault(u, content) == seeds' = [seeds EXCEPT ![target[u]][1] = content]

SeedWrite(u, content) ==
    seeds' = [seeds EXCEPT ![target[u]][NextVersion(u)] = content]

\* Bug: the request is answered while the manifest is still to be written.
Materialize_EarlyReply(u) ==
    /\ pc[u] = "seed"
    /\ SeedWrite(u, u)
    /\ GoTo(u, "created")
    /\ UNCHANGED <<meta, data, target, base, challenge>>

Materialize(u) ==
    /\ pc[u] = "seed"
    /\ SeedWrite(u, u)
    /\ GoTo(u, "putMeta")
    /\ UNCHANGED <<meta, data, target, base, challenge>>

NewManifest(u) ==
    [latest |-> NextVersion(u),
     versions |-> Append(base[u].value.versions,
                         [version |-> NextVersion(u), bytes |-> u])]

ManifestWrite(u) ==
    meta' = [meta EXCEPT ![target[u]] = Put(@, base[u].version, NewManifest(u))]

PutManifest(u) ==
    /\ pc[u] = "putMeta"
    /\ ManifestWrite(u)
    /\ GoTo(u, IF Accepts(meta[target[u]], base[u].version)
               THEN "created" ELSE "conflict")
    /\ UNCHANGED <<data, seeds, target, base, challenge>>

(***************************************************************************)
(* Failures.  An upload ends at a `?` (a backend or file-system error) or  *)
(* because its handler is dropped with the client's connection.  A put     *)
(* already sent to the vss-server may still be applied, then or later; the *)
(* in-memory store has no such requests, and no read or put of it fails.   *)
(***************************************************************************)
Abandoned(step) ==
    CASE Backend = "vss" /\ step = "putData" -> "lostData"
      [] Backend = "vss" /\ step = "putMeta" -> "lostMeta"
      [] OTHER -> "failed"

Fail(u) ==
    /\ Faults
    /\ pc[u] \in Running
    /\ Backend = "memory" => pc[u] # "putData"
    /\ GoTo(u, Abandoned(pc[u]))
    /\ \/ UNCHANGED seeds
       \/ pc[u] = "seed" /\ \E content \in {NoBytes, u} : SeedWrite(u, content)
    /\ UNCHANGED <<meta, data, target, base, challenge>>

LateData(u) ==
    /\ pc[u] = "lostData"
    /\ DataWrite(u)
    /\ GoTo(u, "failed")
    /\ UNCHANGED <<meta, seeds, target, base, challenge>>

LateManifest(u) ==
    /\ pc[u] = "lostMeta"
    /\ ManifestWrite(u)
    /\ GoTo(u, "failed")
    /\ UNCHANGED <<data, seeds, target, base, challenge>>

\* The process stops and starts again: every request under way ends, and the
\* in-memory store is gone.  Seed files stay on disk.
Restart ==
    /\ Faults
    /\ pc' = [u \in Upload |->
                IF pc[u] \in Running THEN Abandoned(pc[u]) ELSE pc[u]]
    /\ challenge' = [r \in Reader |->
                       IF Backend = "memory" \/ challenge[r].pc = "reading"
                       THEN NoChallenge ELSE challenge[r]]
    /\ IF Backend = "memory"
       THEN /\ meta' = [s \in Series |-> Absent(NoManifest)]
            /\ data' = [s \in Series |-> [n \in Versions |-> Absent(NoBytes)]]
       ELSE UNCHANGED <<meta, data>>
    /\ UNCHANGED <<seeds, target, base>>

(***************************************************************************)
(* answer_challenge: the manifest first, then the data key of the version  *)
(* asked for, whether or not the manifest lists it.                        *)
(***************************************************************************)
ChallengeManifest(r, s, asked) ==
    /\ challenge[r].pc = "idle"
    /\ LET want == IF asked = Latest THEN meta[s].value.latest ELSE asked
       IN  challenge' = [challenge EXCEPT ![r] =
             [pc |-> IF Present(meta[s]) THEN "reading" ELSE "missing",
              series |-> s, asked |-> asked, want |-> want, bytes |-> NoBytes]]
    /\ UNCHANGED <<meta, data, seeds, pc, target, base>>

ChallengeData(r) ==
    /\ challenge[r].pc = "reading"
    /\ LET cell == data[challenge[r].series][challenge[r].want]
       IN  challenge' = [challenge EXCEPT
             ![r].pc = IF Present(cell) THEN "answered" ELSE "missing",
             ![r].bytes = cell.value]
    /\ UNCHANGED <<meta, data, seeds, pc, target, base>>

Handle(u) == PutData(u) \/ Materialize(u) \/ PutManifest(u)

Late(u) == LateData(u) \/ LateManifest(u)

Next ==
    \/ \E u \in Upload :
         RejectTooLarge(u) \/ ReadManifest(u) \/ Handle(u) \/ Fail(u) \/ Late(u)
    \/ Restart
    \/ \E r \in Reader :
         \/ \E s \in Series : \E asked \in 0 .. MaxVersion :
              ChallengeManifest(r, s, asked)
         \/ ChallengeData(r)

Spec == Init /\ [][Next]_vars

(***************************************************************************)
(* Properties.                                                             *)
(***************************************************************************)
Listing(s) == meta[s].value.versions

Listed(u) == \E v \in DOMAIN Listing(target[u]) :
               Listing(target[u])[v].bytes = u

\* Every variable stays in the states store_backup and answer_challenge can
\* put it in.
TypeOK ==
    /\ meta \in [Series -> MetaCell]
    /\ data \in [Series -> [Versions -> DataCell]]
    /\ seeds \in [Series -> [Versions -> Upload \cup {NoBytes}]]
    /\ pc \in [Upload -> Step]
    /\ target \in [Upload -> Series]
    /\ base \in [Upload -> MetaCell]
    /\ challenge \in [Reader -> Challenge]

\* The n-th entry of a manifest is version n, and the key of version n holds
\* the bytes whose hash that entry records (the restore and the challenge of
\* every listed version), whatever uploads of the series raced.
VersionsIntact ==
    \A s \in Series : \A n \in DOMAIN Listing(s) :
        /\ Listing(s)[n].version = n
        /\ Present(data[s][n])
        /\ data[s][n].value = Listing(s)[n].bytes

\* "Seeds every version" (lib.rs): a listed version has its complete seed file,
\* of the bytes listed, although seed paths are written without any lock.
ListedIsSeedable ==
    \A s \in Series : \A n \in DOMAIN Listing(s) :
        seeds[s][n] = Listing(s)[n].bytes

\* Whoever wrote the data key of the next version is alone in updating the
\* manifest: its conditional put cannot be refused, so no upload that got that
\* far is answered with a conflict after its bytes were stored.
ManifestWriteNeverConflicts ==
    \A u \in Upload : pc[u] \in {"putMeta", "lostMeta"} =>
        Accepts(meta[target[u]], base[u].version)

\* An upload answered 201 stays listed, through any later upload, lost put or
\* restart (vss backend).
AcknowledgedStaysListed ==
    \A u \in Upload : pc[u] = "created" => Listed(u)

\* A challenge that was answered for a listed version was answered from the
\* bytes the manifest lists, also when the version was not yet listed when its
\* key was read.
ChallengeAnswersListedBytes ==
    \A r \in Reader : LET c == challenge[r] IN
        c.pc = "answered" /\ c.want \in DOMAIN Listing(c.series) =>
            c.bytes = Listing(c.series)[c.want].bytes

\* A challenge of "the latest version" of an existing backup finds its bytes:
\* the manifest it read never points at a data key that is not there.
LatestIsAnswerable ==
    \A r \in Reader : LET c == challenge[r] IN
        c.pc = "missing" /\ c.asked = Latest => c.want = 0

FailedIn(s) == \E u \in Upload : target[u] = s /\ pc[u] \in {"failed"} \cup Lost

\* When the uploads of a series are over and none of them failed, the key of its
\* next version is free, so the next upload is not refused.
QuiescentSeriesIsWritable ==
    \A s \in Series :
        ~FailedIn(s) /\ (\A u \in Upload : target[u] = s => pc[u] \notin Running) =>
            \A n \in Versions : Present(data[s][n]) => n \in DOMAIN Listing(s)

\* "Re-uploading the same file name creates a new version" (README.md:32),
\* as far as it can be kept: a refused upload had a rival, which is listed as
\* the version both wanted or is still at work.
ConflictHasWinner ==
    \A u \in Upload : pc[u] = "conflict" =>
        \/ NextVersion(u) \in DOMAIN Listing(target[u])
        \/ \E w \in Upload : target[w] = target[u] /\ pc[w] \in Running \cup Lost

\* An upload refused with a conflict lost to another upload of its series,
\* which goes on to be listed as the version both wanted, unless one failed.
ConflictMeansAnotherWon ==
    \A u \in Upload : pc[u] = "conflict" ~>
        NextVersion(u) \in DOMAIN Listing(target[u]) \/ FailedIn(target[u])

(***************************************************************************)
(* Refinement: what a client downloads by following the listings is the    *)
(* archive of VersionArchive, and what it was answered is the reply.       *)
(***************************************************************************)
Downloads ==
    [s \in Series |-> [n \in DOMAIN Listing(s) |->
        data[s][Listing(s)[n].version].value]]

Reply(step) == CASE step \in {"idle"} \cup Running -> "none"
                 [] step = "created" -> "created"
                 [] OTHER -> "error"

Archive == INSTANCE VersionArchive
             WITH Durable <- Backend = "vss",
                  archive <- Downloads,
                  reply <- [u \in Upload |-> Reply(pc[u])]

\* Every step of the service is a step of the abstract archive.
ImplementsArchive == Archive!Spec
==============================================================================
