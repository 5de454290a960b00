--------------------------- MODULE BackupInvariant ---------------------------
(***************************************************************************)
(* The inductive invariant behind the safety properties of BackupService.  *)
(* None of them is inductive alone: they rest on who owns a data key and   *)
(* on how old the manifest an upload read can be.                          *)
(***************************************************************************)
EXTENDS BackupService

\* The uploads that wrote their data key and may still write the manifest.
Holder == {"seed", "putMeta", "lostMeta"}

\* Steps at which an upload has not written its data key.
Unwritten == {"idle", "putData", "lostData"}

\* The manifest counts its own writes: the cell's version, the latest version
\* and the length of the list are one number.
ManifestCounts ==
    \A s \in Series :
        /\ meta[s].version = meta[s].value.latest
        /\ Len(Listing(s)) = meta[s].value.latest

\* A data key holds the bytes of an upload of this series that wanted this
\* version and has got past its data write.
DataOwned ==
    \A s \in Series : \A n \in Versions :
        LET u == data[s][n].value IN
        Present(data[s][n]) =>
            /\ u \in Upload
            /\ target[u] = s
            /\ n = NextVersion(u)
            /\ pc[u] \notin Unwritten

\* The manifest an upload read is a past one, or the present one unchanged.
BaseIsPast ==
    \A u \in Upload : pc[u] \in Running \cup Lost =>
        LET cell == meta[target[u]] IN
        /\ NextVersion(u) \in Versions
        /\ base[u].value.latest <= cell.value.latest
        /\ base[u].value.latest = cell.value.latest => base[u] = cell

\* A holder's own bytes are at the key of the next version, which the manifest
\* does not list yet; past the seeding step its seed file is complete.
HolderOwnsNext ==
    \A u \in Upload : pc[u] \in Holder =>
        /\ base[u] = meta[target[u]]
        /\ Present(DataOf(u))
        /\ DataOf(u).value = u
        /\ pc[u] # "seed" => seeds[target[u]][NextVersion(u)] = u

\* Only a vss-server has puts that outlive their request.
LostOnlyRemotely == \A u \in Upload : pc[u] \in Lost => Backend = "vss"

\* A challenge of the latest version, once it has found the manifest, has a
\* version to read; an answered one holds what its key still holds.
ReaderHoldsStored ==
    \A r \in Reader : LET c == challenge[r] IN
        /\ c.pc # "idle" => c.series \in Series
        /\ c.pc = "reading" =>
             /\ c.want \in Versions
             /\ c.asked = Latest => c.want \in DOMAIN Listing(c.series)
        /\ c.pc = "answered" =>
             /\ c.want \in Versions
             /\ Present(data[c.series][c.want])
             /\ data[c.series][c.want].value = c.bytes
        /\ c.pc = "missing" /\ c.asked = Latest => c.want = 0

IInv ==
    /\ TypeOK
    /\ ManifestCounts
    /\ VersionsIntact
    /\ ListedIsSeedable
    /\ DataOwned
    /\ BaseIsPast
    /\ HolderOwnsNext
    /\ LostOnlyRemotely
    /\ ReaderHoldsStored

\* A data key that is not listed yet is of an upload that is still to list it, or
\* that failed; inductive together with IInv.
UnlistedIsHeld ==
    \A s \in Series : \A n \in Versions :
        Present(data[s][n]) =>
            n \in DOMAIN Listing(s) \/ pc[data[s][n].value] \in Holder \cup {"failed"}
==============================================================================
