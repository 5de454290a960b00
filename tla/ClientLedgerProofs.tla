-------------------------- MODULE ClientLedgerProofs --------------------------
(***************************************************************************)
(* Proofs about ClientLedger, for any finite set of commands, any files,   *)
(* backups and verifiers, and any number of commands at a time.  What the  *)
(* server lists only grows (Grows), so an entry goes on describing the     *)
(* upload it was made for; and a command that saw another one end was      *)
(* uploaded after it, with its entry in the copy it works on.              *)
(***************************************************************************)
EXTENDS ClientLedger, FiniteSetTheorems, TLAPS

(***************************************************************************)
(* The invariant.                                                          *)
(***************************************************************************)
\* Commands before their upload have sent nothing; what was sent is of the
\* command's file, under its nonce.
SentOnce ==
    \A c \in Command :
        /\ pc[c] \in {"idle", "send"} => sealed[c] = NoBytes
        /\ sealed[c] # NoBytes => sealed[c].file = FileOf[c] /\ sealed[c].nonce = NonceOf(c)

\* The server lists each upload at most once, in its own backup, and what was
\* answered created is listed.
ArchiveSound ==
    /\ \A c \in Command : target[c] = IdOf[FileOf[c]]
    /\ \A b \in Backup : \A i \in DOMAIN archive[b] :
         /\ target[archive[b][i]] = b
         /\ sealed[archive[b][i]] # NoBytes
         /\ \A j \in DOMAIN archive[b] : archive[b][i] = archive[b][j] => i = j
    /\ \A c \in Command : reply[c] = "created" => \E i \in DOMAIN archive[target[c]] :
                                                    archive[target[c]][i] = c

\* A check that has an entry, or a listing, has the backup it is of.
ChecksTyped ==
    \A w \in Verifier :
        /\ check[w].pc \in {"ready", "asked", "ok", "proofFailed"} =>
             check[w].id \in Backup /\ check[w].entry # NoEntry
        /\ check[w].pc \in {"asked", "ok", "proofFailed"} => check[w].local \in Bytes
        /\ check[w].pc \in {"listed", "restored"} => check[w].id \in Backup

Base ==
    /\ TypeOK
    /\ SentOnce
    /\ ArchiveSound
    /\ ChecksTyped

\* An entry describes an upload of backup b.
Describes(e, b) ==
    /\ e.version \in DOMAIN archive[b]
    /\ sealed[archive[b][e.version]].file = e.file
    /\ sealed[archive[b][e.version]].nonce = e.nonce

EntriesDescribe ==
    /\ \A b \in Backup : ledger.entries[b] # NoEntry => Describes(ledger.entries[b], b)
    /\ \A c \in Command, b \in Backup : copy[c][b] # NoEntry => Describes(copy[c][b], b)

\* A check has an entry that describes an upload, and what it made of the file;
\* a proof that failed is of other bytes; a restored file was uploaded.
Sound(k) ==
    /\ k.pc \in {"ready", "asked", "ok", "proofFailed"} =>
         k.id \in Backup /\ Describes(k.entry, k.id)
    /\ k.pc \in {"asked", "proofFailed"} =>
         k.local.file = k.entry.file /\ k.local.nonce = k.entry.nonce
    /\ k.pc = "proofFailed" =>
         /\ k.version \in DOMAIN archive[k.id]
         /\ sealed[archive[k.id][k.version]] # k.local
    /\ k.pc = "restored" =>
         /\ k.id \in Backup /\ k.version \in DOMAIN archive[k.id]
         /\ k.local = Open(archive[k.id][k.version])

ChecksSound == \A w \in Verifier : Sound(check[w])

\* Entries tell of upload c, or of a later one of its backup.
Tells(entries, c) ==
    /\ entries[target[c]] # NoEntry
    /\ \E i \in DOMAIN archive[target[c]] :
         archive[target[c]][i] = c /\ i <= entries[target[c]].version

\* Another command ended well, and each of the two had loaded the ledger before
\* the other had written it.
Overlapped(c) ==
    \E d \in Command \ {c} : pc[d] = "done" /\ c \notin seen[d] /\ d \notin seen[c]

\* Who saw another command end was uploaded after it.
SeenSound ==
    /\ \A c \in Command : pc[c] \in {"open", "write", "done"} => reply[c] = "created"
    /\ \A d \in Command : pc[d] = "idle" => seen[d] = {}
    /\ \A d \in Command : \A c \in seen[d] :
         /\ pc[c] = "done"
         /\ target[c] = target[d] =>
              \A i, j \in DOMAIN archive[target[c]] :
                archive[target[c]][i] = c /\ archive[target[c]][j] = d => i < j

\* A command's copy has the entries of the commands it saw end, and its own.
CopyTells ==
    \A d \in Command :
        /\ pc[d] \in Running => \A c \in seen[d] : Tells(copy[d], c) \/ Overlapped(c)
        /\ pc[d] \in {"open", "write"} => Tells(copy[d], d)

LedgerTells ==
    Readable => \A c \in Command : pc[c] = "done" => Tells(ledger.entries, c) \/ Overlapped(c)

IInv ==
    /\ Base
    /\ EntriesDescribe
    /\ ChecksSound
    /\ SeenSound
    /\ CopyTells
    /\ LedgerTells

(***************************************************************************)
(* Types, and what the server lists.                                       *)
(***************************************************************************)
LEMMA SealType ==
    ASSUME TypeOK, NEW f \in File, NEW nonce \in Nonce
    PROVE  /\ Seal(f, nonce) \in Bytes /\ Seal(f, nonce) # NoBytes
           /\ Seal(f, nonce).file = f /\ Seal(f, nonce).nonce = nonce
BY CommandAssumption DEF Seal, Bytes, TypeOK, NoBytes

LEMMA EntryTypes ==
    /\ NoEntries \in Ledger
    /\ NoEntry \notin LedgerEntry
    /\ NoBytes \notin Bytes
    /\ \A c \in Command : NonceOf(c) \in Nonce /\ FileOf[c] \in File /\ IdOf[FileOf[c]] \in Backup
BY CommandAssumption, IdAssumption
DEF NoEntries, Ledger, LedgerEntry, NoEntry, NoBytes, Bytes, NonceOf, Nonce

\* An upload that was acknowledged is listed at its stored version.
LEMMA StoredIsListed ==
    ASSUME Base, NEW c \in Command, reply[c] = "created"
    PROVE  /\ StoredVersion(c) \in DOMAIN archive[target[c]]
           /\ archive[target[c]][StoredVersion(c)] = c
           /\ StoredVersion(c) \in Nat
           /\ \A i \in DOMAIN archive[target[c]] :
                archive[target[c]][i] = c => i = StoredVersion(c)
<1>1. \E i \in DOMAIN archive[target[c]] : archive[target[c]][i] = c
  BY DEF Base, ArchiveSound
<1>2. /\ StoredVersion(c) \in DOMAIN archive[target[c]]
      /\ archive[target[c]][StoredVersion(c)] = c
  BY <1>1 DEF StoredVersion
<1>3. target[c] \in Backup /\ archive[target[c]] \in Seq(Command)
  BY DEF Base, TypeOK
<1>4. \A i \in DOMAIN archive[target[c]] : archive[target[c]][i] = c => i = StoredVersion(c)
  BY <1>2, <1>3 DEF Base, ArchiveSound
<1>5. StoredVersion(c) \in Nat
  BY <1>2, <1>3
<1> QED
  BY <1>2, <1>4, <1>5

LEMMA NewEntryType ==
    ASSUME Base, NEW c \in Command, reply[c] = "created"
    PROVE  /\ NewEntry(c) \in LedgerEntry /\ NewEntry(c) # NoEntry
           /\ NewEntry(c) = [file |-> FileOf[c], version |-> StoredVersion(c), nonce |-> NonceOf(c)]
BY StoredIsListed, EntryTypes DEF NewEntry, LedgerEntry

LEMMA InitBase == Init => Base
<1> SUFFICES ASSUME Init PROVE Base
  OBVIOUS
<1>1. /\ archive = [b \in Backup |-> <<>>] /\ reply = [c \in Command |-> "none"]
      /\ target = [c \in Command |-> IdOf[FileOf[c]]]
  BY DEF Init, Server!Init
<1>2. <<>> \in Seq(Command)
  OBVIOUS
<1>3. /\ archive \in [Backup -> Seq(Command)]
      /\ reply \in [Command -> {"none", "created", "error"}]
      /\ target \in [Command -> Backup]
  BY <1>1, <1>2, EntryTypes
<1>4. /\ seen \in [Command -> SUBSET Command]
      /\ edits \in [File -> 0 .. MaxEdits]
      /\ sealed \in [Command -> Bytes \cup {NoBytes}]
      /\ pc \in [Command -> Running \cup {"idle", "done", "failed", "killed"}]
      /\ copy \in [Command -> Ledger]
  BY EntryTypes, SlotsAssumption DEF Init
<1>5. ledger \in [state : {"absent", "empty", "torn", "whole"}, entries : Ledger]
  BY EntryTypes DEF Init
<1>6. NoCheck \in
        [pc : {"idle", "error", "ready", "asked", "ok", "proofFailed", "listed", "restored"},
         entry : LedgerEntry \cup {NoEntry}, id : Backup \cup {"none"},
         local : Bytes \cup {NoBytes}, version : Nat]
  BY DEF NoCheck
<1>7. TypeOK
  BY <1>3, <1>4, <1>5, <1>6 DEF Init, TypeOK
<1>8. SentOnce
  BY DEF Init, SentOnce
<1>9. ArchiveSound
  BY <1>1 DEF ArchiveSound
<1>10. ChecksTyped
  BY DEF Init, ChecksTyped, NoCheck
<1> QED
  BY <1>7, <1>8, <1>9, <1>10 DEF Base

\* An upload is added at the end of its backup's list, and was nowhere before.
LEMMA AddEffect ==
    ASSUME Base, NEW c \in Command, sealed[c] # NoBytes, Server!Add(c)
    PROVE  /\ archive' \in [Backup -> Seq(Command)]
           /\ \A b \in Backup \ {target[c]} : archive'[b] = archive[b]
           /\ Len(archive'[target[c]]) = Len(archive[target[c]]) + 1
           /\ archive'[target[c]][Len(archive[target[c]]) + 1] = c
           /\ \A i \in 1 .. Len(archive[target[c]]) :
                archive'[target[c]][i] = archive[target[c]][i]
           /\ \A b \in Backup : \A i \in 1 .. Len(archive[b]) : archive[b][i] # c
           /\ reply[c] # "created"
           /\ \A d \in Command : reply'[d] = "created" => reply[d] = "created" \/ d = c
           /\ \A d \in Command : reply[d] = "created" => reply'[d] = "created"
           /\ reply' \in [Command -> {"none", "created", "error"}]
           /\ target' = target
<1>1. archive \in [Backup -> Seq(Command)] /\ target[c] \in Backup
  BY DEF Base, TypeOK
<1>2. archive' = [archive EXCEPT ![target[c]] = Append(archive[target[c]], c)]
  BY DEF Server!Add
<1>3. /\ archive'[target[c]] = Append(archive[target[c]], c)
      /\ \A b \in Backup \ {target[c]} : archive'[b] = archive[b]
  BY <1>1, <1>2
<1>4. archive[target[c]] \in Seq(Command)
  BY <1>1
<1>5. /\ Append(archive[target[c]], c) \in Seq(Command)
      /\ Len(Append(archive[target[c]], c)) = Len(archive[target[c]]) + 1
      /\ Append(archive[target[c]], c)[Len(archive[target[c]]) + 1] = c
      /\ \A i \in 1 .. Len(archive[target[c]]) :
           Append(archive[target[c]], c)[i] = archive[target[c]][i]
  BY <1>4
<1>6. archive' \in [Backup -> Seq(Command)]
  BY <1>1, <1>2, <1>5
<1>7. \A b \in Backup : \A i \in 1 .. Len(archive[b]) : archive[b][i] # c
  BY <1>1 DEF Server!Add, Server!Listed
<1>8. reply \in [Command -> {"none", "created", "error"}]
  BY DEF Base, TypeOK
<1>9. reply' = reply \/ reply' = [reply EXCEPT ![c] = "created"]
  BY DEF Server!Add
<1>10. /\ \A d \in Command : reply'[d] = "created" => reply[d] = "created" \/ d = c
       /\ \A d \in Command : reply[d] = "created" => reply'[d] = "created"
       /\ reply' \in [Command -> {"none", "created", "error"}]
  BY <1>8, <1>9
<1>11. reply[c] # "created" /\ target' = target
  BY DEF Server!Add
<1> QED
  BY <1>3, <1>5, <1>6, <1>7, <1>10, <1>11

\* A refused request changes only what its command is told.
LEMMA RefuseEffect ==
    ASSUME Base, NEW c \in Command, Server!Refuse({c})
    PROVE  /\ reply' \in [Command -> {"none", "created", "error"}]
           /\ \A d \in Command : reply'[d] = "created" <=> reply[d] = "created"
           /\ target' = target
BY DEF Server!Refuse, Base, TypeOK

(***************************************************************************)
(* Base is inductive.                                                      *)
(***************************************************************************)
CheckRecord ==
    [pc : {"idle", "error", "ready", "asked", "ok", "proofFailed", "listed", "restored"},
     entry : LedgerEntry \cup {NoEntry}, id : Backup \cup {"none"},
     local : Bytes \cup {NoBytes}, version : Nat]

\* The steps of the verify, watch and restore commands.
VerifierStep(w) ==
    \/ \E b \in Backup : CheckLoad(w, b)
    \/ Reseal(w)
    \/ \E v \in 0 .. Cardinality(Command) : Challenge(w, v)
    \/ NextRound(w)
    \/ \E b \in Backup, v \in 0 .. Cardinality(Command) : RestoreList(w, b, v)
    \/ RestoreFetch(w)

LEMMA VerifierFrame ==
    ASSUME NEW w \in Verifier, VerifierStep(w)
    PROVE  UNCHANGED <<archive, reply, target, seen, edits, sealed, pc, copy, ledger>>
BY DEF VerifierStep, CheckLoad, Reseal, Challenge, NextRound, RestoreList, RestoreFetch, server

\* Every step is one of these.
LEMMA StepCases ==
    ASSUME [Next]_vars
    PROVE  \/ \E f \in File : Edit(f)
           \/ \E c \in Command : \/ Load(c) \/ Send(c) \/ ServerStep(c) \/ Receive(c)
                                 \/ OpenLedger(c) \/ WriteLedger(c) \/ Kill(c)
           \/ \E w \in Verifier : VerifierStep(w)
           \/ UNCHANGED vars
BY DEF Next, VerifierStep

\* The bytes of a listed upload, and what a passphrase makes of them.
LEMMA ListedBytes ==
    ASSUME Base, NEW b \in Backup, NEW i \in DOMAIN archive[b]
    PROVE  /\ archive[b][i] \in Command /\ sealed[archive[b][i]] \in Bytes
           /\ i \in 1 .. Len(archive[b]) /\ Len(archive[b]) \in Nat
           /\ Open(archive[b][i]) \in Bytes
           /\ Open(archive[b][i]).file = FileOf[archive[b][i]]
           /\ Open(archive[b][i]).edit = sealed[archive[b][i]].edit
<1>1. archive[b] \in Seq(Command)
  BY DEF Base, TypeOK
<1>2. archive[b][i] \in Command /\ i \in 1 .. Len(archive[b]) /\ Len(archive[b]) \in Nat
  BY <1>1
<1>3. sealed[archive[b][i]] \in Bytes /\ sealed[archive[b][i]].file = FileOf[archive[b][i]]
  BY <1>2 DEF Base, TypeOK, SentOnce, ArchiveSound
<1>4. NoNonce \in Nonce
  BY DEF Nonce
<1> QED
  BY <1>2, <1>3, <1>4 DEF Open, Bytes

LEMMA VerifierTyped ==
    ASSUME Base, NEW w \in Verifier, VerifierStep(w)
    PROVE  check' \in [Verifier -> CheckRecord] /\ ChecksTyped'
<1> DEFINE Typed(k) ==
      /\ k \in CheckRecord
      /\ k.pc \in {"ready", "asked", "ok", "proofFailed"} => k.id \in Backup /\ k.entry # NoEntry
      /\ k.pc \in {"asked", "ok", "proofFailed"} => k.local \in Bytes
      /\ k.pc \in {"listed", "restored"} => k.id \in Backup
<1>1. /\ check \in [Verifier -> CheckRecord]
      /\ \A x \in Verifier : Typed(check[x])
  BY DEF Base, TypeOK, ChecksTyped, CheckRecord
<1>2. ASSUME NEW k \in CheckRecord, Typed(k), check' = [check EXCEPT ![w] = k]
      PROVE  check' \in [Verifier -> CheckRecord] /\ ChecksTyped'
  <2>1. check' \in [Verifier -> CheckRecord]
    BY <1>1, <1>2
  <2>2. \A x \in Verifier : Typed(check'[x])
    BY <1>1, <1>2
  <2> QED
    BY <2>1, <2>2 DEF ChecksTyped
<1> DEFINE Moves == \E k \in CheckRecord : Typed(k) /\ check' = [check EXCEPT ![w] = k]
<1>3. NoCheck \in CheckRecord
  BY DEF NoCheck, CheckRecord
<1>4. ASSUME NEW b \in Backup, CheckLoad(w, b) PROVE Moves
  <2> DEFINE k == IF Readable /\ ledger.entries[b] # NoEntry
                  THEN [NoCheck EXCEPT !.pc = "ready", !.entry = ledger.entries[b], !.id = b]
                  ELSE [NoCheck EXCEPT !.pc = "error"]
  <2>1. ledger.entries[b] \in LedgerEntry \cup {NoEntry}
    BY DEF Base, TypeOK, Ledger
  <2>2. k \in CheckRecord /\ Typed(k)
    BY <2>1 DEF CheckRecord, NoCheck
  <2> QED
    BY <1>4, <2>2 DEF CheckLoad
<1>5. ASSUME Reseal(w) PROVE Moves
  <2> DEFINE k == [check[w] EXCEPT !.pc = "asked", !.local = Seal(check[w].entry.file, check[w].entry.nonce)]
  <2>1. check[w].pc = "ready" /\ check[w].entry \in LedgerEntry
    BY <1>1, <1>5 DEF Reseal, CheckRecord
  <2>2. Seal(check[w].entry.file, check[w].entry.nonce) \in Bytes
    BY <2>1, SealType DEF Base, LedgerEntry
  <2>3. k \in CheckRecord /\ Typed(k)
    BY <1>1, <2>1, <2>2 DEF CheckRecord
  <2>4. check' = [check EXCEPT ![w] = k]
    BY <1>1, <1>5 DEF Reseal, CheckRecord
  <2> QED
    BY <2>3, <2>4
<1>6. ASSUME NEW asked \in 0 .. Cardinality(Command), Challenge(w, asked) PROVE Moves
  <2> DEFINE v == IF asked = 0 THEN Len(archive[check[w].id]) ELSE asked
             k == [check[w] EXCEPT !.version = v,
                     !.pc = IF sealed[archive[check[w].id][v]] = check[w].local
                            THEN "ok" ELSE "proofFailed"]
  <2>1. check[w].pc = "asked" /\ check[w].id \in Backup
    BY <1>1, <1>6 DEF Challenge
  <2>2. archive[check[w].id] \in Seq(Command)
    BY <2>1 DEF Base, TypeOK
  <2>3. v \in Nat
    BY <1>6, <2>2 DEF Challenge
  <2>4. k \in CheckRecord /\ Typed(k)
    BY <1>1, <2>1, <2>3 DEF CheckRecord
  <2>5. check' = [check EXCEPT ![w] = k]
    BY <1>1, <1>6 DEF Challenge, CheckRecord
  <2> HIDE DEF k
  <2> QED
    BY <2>4, <2>5
<1>7. ASSUME NextRound(w) PROVE Moves
  <2> DEFINE k == [check[w] EXCEPT !.pc = "ready", !.local = NoBytes, !.version = 0]
  <2>1. k \in CheckRecord /\ Typed(k)
    BY <1>1, <1>7 DEF CheckRecord, NextRound
  <2>2. check' = [check EXCEPT ![w] = k]
    BY <1>1, <1>7 DEF NextRound, CheckRecord
  <2> QED
    BY <2>1, <2>2
<1>8. ASSUME NEW b \in Backup, NEW asked \in 0 .. Cardinality(Command), RestoreList(w, b, asked)
      PROVE  Moves
  <2> DEFINE k == IF Readable /\ archive[b] # <<>>
                  THEN [NoCheck EXCEPT !.pc = "listed", !.id = b,
                          !.version = IF asked = 0 THEN Len(archive[b]) ELSE asked]
                  ELSE [NoCheck EXCEPT !.pc = "error"]
  <2>1. archive[b] \in Seq(Command)
    BY DEF Base, TypeOK
  <2>2. (IF asked = 0 THEN Len(archive[b]) ELSE asked) \in Nat
    BY <2>1, CommandAssumption, FS_CardinalityType
  <2>3. k \in CheckRecord /\ Typed(k)
    BY <2>2 DEF CheckRecord, NoCheck
  <2> QED
    BY <1>8, <2>3 DEF RestoreList
<1>9. ASSUME RestoreFetch(w) PROVE Moves
  <2>1. check[w].pc = "listed" /\ check[w].id \in Backup
    BY <1>1, <1>9 DEF RestoreFetch
  <2>2. CASE check' = [check EXCEPT ![w].pc = "error"]
    <3> DEFINE k == [check[w] EXCEPT !.pc = "error"]
    <3>1. k \in CheckRecord /\ Typed(k)
      BY <1>1 DEF CheckRecord
    <3>2. check' = [check EXCEPT ![w] = k]
      BY <1>1, <2>2 DEF CheckRecord
    <3> QED
      BY <3>1, <3>2
  <2>3. CASE /\ check[w].version \in DOMAIN archive[check[w].id]
             /\ check' = [check EXCEPT ![w].pc = "restored",
                              ![w].local = Open(archive[check[w].id][check[w].version])]
    <3> DEFINE k == [check[w] EXCEPT !.pc = "restored",
                       !.local = Open(archive[check[w].id][check[w].version])]
    <3>1. Open(archive[check[w].id][check[w].version]) \in Bytes
      BY <2>1, <2>3, ListedBytes
    <3>2. k \in CheckRecord /\ Typed(k)
      BY <1>1, <2>1, <3>1 DEF CheckRecord
    <3>3. check' = [check EXCEPT ![w] = k]
      BY <1>1, <2>3 DEF CheckRecord
    <3> QED
      BY <3>2, <3>3
  <2> QED
    BY <1>9, <2>2, <2>3 DEF RestoreFetch
<1>10. Moves
  BY <1>4, <1>5, <1>6, <1>7, <1>8, <1>9 DEF VerifierStep
<1> QED
  BY <1>2, <1>10

\* What the server lists only grows, by one upload at a time, and so do the
\* bytes uploaded and the uploads acknowledged.
LEMMA Grows ==
    ASSUME Base, [Next]_vars
    PROVE  /\ target' = target
           /\ archive' \in [Backup -> Seq(Command)]
           /\ sealed' \in [Command -> Bytes \cup {NoBytes}]
           /\ reply' \in [Command -> {"none", "created", "error"}]
           /\ \A d \in Command : sealed[d] # NoBytes => sealed'[d] = sealed[d]
           /\ \A d \in Command : reply[d] = "created" => reply'[d] = "created"
           /\ \A d \in Command : reply'[d] = "created" =>
                \/ reply[d] = "created"
                \/ \E i \in DOMAIN archive'[target[d]] : archive'[target[d]][i] = d
           /\ \A b \in Backup : \A i \in DOMAIN archive[b] :
                i \in DOMAIN archive'[b] /\ archive'[b][i] = archive[b][i]
           /\ \A b \in Backup : \A i \in DOMAIN archive'[b] \ DOMAIN archive[b] :
                /\ archive'[b][i] \in Command /\ target[archive'[b][i]] = b
                /\ sealed[archive'[b][i]] # NoBytes
                /\ \A j \in DOMAIN archive[b] : j < i /\ archive[b][j] # archive'[b][i]
                /\ \A j \in DOMAIN archive'[b] \ DOMAIN archive[b] : i = j
<1>1. /\ archive \in [Backup -> Seq(Command)] /\ target \in [Command -> Backup]
      /\ sealed \in [Command -> Bytes \cup {NoBytes}]
      /\ reply \in [Command -> {"none", "created", "error"}]
  BY DEF Base, TypeOK
<1> USE <1>1
<1>2. CASE UNCHANGED <<server, sealed>>
  BY <1>2 DEF server
<1>3. ASSUME NEW c \in Command, Send(c)
      PROVE  /\ UNCHANGED server /\ sealed' \in [Command -> Bytes \cup {NoBytes}]
             /\ \A d \in Command : sealed[d] # NoBytes => sealed'[d] = sealed[d]
  <2>1. sealed[c] = NoBytes
    BY <1>3 DEF Send, Base, SentOnce
  <2>2. Seal(FileOf[c], NonceOf(c)) \in Bytes
    BY SealType, EntryTypes DEF Base
  <2> QED
    BY <1>3, <2>1, <2>2 DEF Send
<1>4. ASSUME NEW c \in Command, ServerStep(c), Server!Refuse({c}), UNCHANGED archive
      PROVE  /\ UNCHANGED <<archive, target, sealed>>
             /\ reply' \in [Command -> {"none", "created", "error"}]
             /\ \A d \in Command : reply'[d] = "created" <=> reply[d] = "created"
  BY <1>4, RefuseEffect DEF ServerStep
<1>5. ASSUME NEW c \in Command, ServerStep(c), Server!Add(c)
      PROVE  /\ UNCHANGED <<target, sealed>>
             /\ archive' \in [Backup -> Seq(Command)]
             /\ reply' \in [Command -> {"none", "created", "error"}]
             /\ \A d \in Command : reply[d] = "created" => reply'[d] = "created"
             /\ \A d \in Command : reply'[d] = "created" =>
                  \/ reply[d] = "created"
                  \/ \E i \in DOMAIN archive'[target[d]] : archive'[target[d]][i] = d
             /\ \A b \in Backup : \A i \in DOMAIN archive[b] :
                  i \in DOMAIN archive'[b] /\ archive'[b][i] = archive[b][i]
             /\ \A b \in Backup : \A i \in DOMAIN archive'[b] \ DOMAIN archive[b] :
                  /\ archive'[b][i] \in Command /\ target[archive'[b][i]] = b
                  /\ sealed[archive'[b][i]] # NoBytes
                  /\ \A j \in DOMAIN archive[b] : j < i /\ archive[b][j] # archive'[b][i]
                  /\ \A j \in DOMAIN archive'[b] \ DOMAIN archive[b] : i = j
  <2>1. sealed[c] # NoBytes /\ target[c] \in Backup
    BY <1>5 DEF ServerStep
  <2> DEFINE t == target[c]
             n == Len(archive[t])
  <2>2. /\ archive' \in [Backup -> Seq(Command)]
        /\ \A b \in Backup \ {t} : archive'[b] = archive[b]
        /\ Len(archive'[t]) = n + 1 /\ archive'[t][n + 1] = c
        /\ \A i \in 1 .. n : archive'[t][i] = archive[t][i]
        /\ \A b \in Backup : \A i \in 1 .. Len(archive[b]) : archive[b][i] # c
    BY <1>5, <2>1, AddEffect
  <2>3. n \in Nat /\ DOMAIN archive[t] = 1 .. n /\ DOMAIN archive'[t] = 1 .. n + 1
    BY <2>1, <2>2
  <2>4. n + 1 \in DOMAIN archive'[t]
    BY <2>3
  <2>5. \A d \in Command : reply'[d] = "created" =>
          \/ reply[d] = "created"
          \/ \E i \in DOMAIN archive'[target[d]] : archive'[target[d]][i] = d
    <3>1. \A d \in Command : reply'[d] = "created" => reply[d] = "created" \/ d = c
      BY <1>5, <2>1, AddEffect
    <3>2. \E i \in DOMAIN archive'[target[c]] : archive'[target[c]][i] = c
      BY <2>2, <2>4
    <3> QED
      BY <3>1, <3>2
  <2>6. \A b \in Backup : \A i \in DOMAIN archive[b] :
          i \in DOMAIN archive'[b] /\ archive'[b][i] = archive[b][i]
    <3>1. ASSUME NEW i \in DOMAIN archive[t]
          PROVE  i \in DOMAIN archive'[t] /\ archive'[t][i] = archive[t][i]
      <4> HIDE DEF n
      <4>1. i \in 1 .. n
        BY <2>3
      <4>2. i \in 1 .. n + 1
        BY <2>3, <4>1
      <4> QED
        BY <2>2, <2>3, <4>1, <4>2 DEF n
    <3> QED
      BY <2>2, <3>1
  <2>7. \A b \in Backup : \A i \in DOMAIN archive'[b] \ DOMAIN archive[b] : b = t /\ i = n + 1
    <3>1. \A b \in Backup : DOMAIN archive'[b] \ DOMAIN archive[b] # {} => b = t
      BY <2>2
    <3>2. \A i \in DOMAIN archive'[t] \ DOMAIN archive[t] : i = n + 1
      BY <2>3
    <3> QED
      BY <3>1, <3>2
  <2>8. \A j \in DOMAIN archive[t] : j < n + 1 /\ archive[t][j] # c
    BY <2>1, <2>2, <2>3
  <2> QED
    BY <1>5, <2>1, <2>2, <2>5, <2>6, <2>7, <2>8, AddEffect DEF ServerStep
<1>6. ASSUME NEW w \in Verifier, VerifierStep(w) PROVE UNCHANGED <<server, sealed>>
  BY <1>6, VerifierFrame DEF server
<1>7. ASSUME NEW f \in File, Edit(f) PROVE UNCHANGED <<server, sealed>>
  BY <1>7 DEF Edit
<1>8. ASSUME NEW c \in Command,
             Load(c) \/ Receive(c) \/ OpenLedger(c) \/ WriteLedger(c) \/ Kill(c)
      PROVE  UNCHANGED <<server, sealed>>
  BY <1>8 DEF Load, Receive, OpenLedger, WriteLedger, Kill
<1>9. \/ UNCHANGED <<server, sealed>>
       \/ \E c \in Command : Send(c) \/ ServerStep(c)
  BY StepCases, <1>6, <1>7, <1>8 DEF vars, server
<1>10. ASSUME NEW c \in Command, ServerStep(c)
       PROVE  Server!Add(c) \/ (Server!Refuse({c}) /\ UNCHANGED archive)
  BY <1>10 DEF ServerStep
<1>11. CASE \E c \in Command : Send(c)
  BY <1>3, <1>11 DEF server
<1>12. CASE \E c \in Command : ServerStep(c) /\ Server!Refuse({c}) /\ UNCHANGED archive
  BY <1>4, <1>12
<1>13. CASE \E c \in Command : ServerStep(c) /\ Server!Add(c)
  BY <1>5, <1>13
<1> QED
  BY <1>2, <1>9, <1>10, <1>11, <1>12, <1>13

LEMMA ArchiveSoundNext ==
    ASSUME Base, [Next]_vars
    PROVE  ArchiveSound'
<1>1. /\ archive \in [Backup -> Seq(Command)] /\ archive' \in [Backup -> Seq(Command)]
      /\ target \in [Command -> Backup] /\ target' = target
  BY Grows DEF Base, TypeOK
<1>2. \A c \in Command : target'[c] = IdOf[FileOf[c]]
  BY <1>1 DEF Base, ArchiveSound
<1>3. ASSUME NEW b \in Backup, NEW i \in DOMAIN archive'[b]
      PROVE  /\ target[archive'[b][i]] = b
             /\ sealed'[archive'[b][i]] # NoBytes
             /\ \A j \in DOMAIN archive'[b] : archive'[b][i] = archive'[b][j] => i = j
  <2>1. archive'[b][i] \in Command
    BY <1>1
  <2>2. target[archive'[b][i]] = b /\ sealed[archive'[b][i]] # NoBytes
    BY <1>3, Grows DEF Base, ArchiveSound
  <2>3. sealed'[archive'[b][i]] # NoBytes
    BY <2>1, <2>2, Grows
  <2>4. ASSUME NEW j \in DOMAIN archive'[b], archive'[b][i] = archive'[b][j] PROVE i = j
    <3>1. CASE i \in DOMAIN archive[b] /\ j \in DOMAIN archive[b]
      BY <2>4, <3>1, Grows DEF Base, ArchiveSound
    <3>2. CASE i \notin DOMAIN archive[b] \/ j \notin DOMAIN archive[b]
      BY <2>4, <3>2, Grows
    <3> QED
      BY <3>1, <3>2
  <2> QED
    BY <2>2, <2>3, <2>4
<1>4. ASSUME NEW c \in Command, reply'[c] = "created"
      PROVE  \E i \in DOMAIN archive'[target[c]] : archive'[target[c]][i] = c
  <2>1. target[c] \in Backup
    BY <1>1
  <2>2. CASE reply[c] = "created"
    BY <2>1, <2>2, Grows DEF Base, ArchiveSound
  <2> QED
    BY <1>4, <2>2, Grows
<1> QED
  BY <1>1, <1>2, <1>3, <1>4 DEF ArchiveSound

\* The steps of a backup command move that command only.
CommandStep(c) == Load(c) \/ Send(c) \/ Receive(c) \/ OpenLedger(c) \/ WriteLedger(c) \/ Kill(c)

Step == Running \cup {"idle", "done", "failed", "killed"}

LEMMA CommandEffect ==
    ASSUME Base, NEW c \in Command, CommandStep(c)
    PROVE  /\ pc' \in [Command -> Step] /\ pc'[c] # "idle"
           /\ \A d \in Command \ {c} : pc'[d] = pc[d]
           /\ \A d \in Command \ {c} : seen'[d] = seen[d] /\ copy'[d] = copy[d]
           /\ \A d \in Command \ {c} : sealed'[d] = sealed[d]
           /\ UNCHANGED <<server, edits, check>>
<1>1. /\ pc \in [Command -> Step] /\ seen \in [Command -> SUBSET Command]
      /\ copy \in [Command -> Ledger] /\ sealed \in [Command -> Bytes \cup {NoBytes}]
  BY DEF Base, TypeOK, Step
<1>2. \E s \in Step \ {"idle"} : pc' = [pc EXCEPT ![c] = s]
  BY DEF CommandStep, Load, Send, Receive, OpenLedger, WriteLedger, Kill, GoTo, Step, Running
<1>3. \A d \in Command \ {c} : seen'[d] = seen[d] /\ copy'[d] = copy[d] /\ sealed'[d] = sealed[d]
  BY <1>1 DEF CommandStep, Load, Send, Receive, OpenLedger, WriteLedger, Kill
<1>4. UNCHANGED <<server, edits, check>>
  BY DEF CommandStep, Load, Send, Receive, OpenLedger, WriteLedger, Kill
<1> QED
  BY <1>1, <1>2, <1>3, <1>4

LEMMA SentOnceNext ==
    ASSUME Base, [Next]_vars
    PROVE  SentOnce'
<1>1. CASE UNCHANGED <<pc, sealed>>
  BY <1>1 DEF Base, SentOnce
<1>2. ASSUME NEW c \in Command, CommandStep(c) PROVE SentOnce'
  <2>1. /\ pc'[c] \in {"idle", "send"} => sealed'[c] = NoBytes
        /\ sealed'[c] # NoBytes => sealed'[c].file = FileOf[c] /\ sealed'[c].nonce = NonceOf(c)
    <3>1. /\ pc \in [Command -> Step] /\ sealed \in [Command -> Bytes \cup {NoBytes}]
      BY DEF Base, TypeOK, Step
    <3>2. CASE Send(c)
      BY <3>1, <3>2, SealType, EntryTypes DEF Send, GoTo, Base
    <3>3. CASE Load(c)
      BY <3>1, <3>3 DEF Load, GoTo, Base, SentOnce
    <3>4. CASE Receive(c) \/ OpenLedger(c) \/ WriteLedger(c) \/ Kill(c)
      BY <3>1, <3>4 DEF Receive, OpenLedger, WriteLedger, Kill, GoTo, Base, SentOnce
    <3> QED
      BY <1>2, <3>2, <3>3, <3>4 DEF CommandStep
  <2>2. ASSUME NEW d \in Command \ {c}
        PROVE  /\ pc'[d] \in {"idle", "send"} => sealed'[d] = NoBytes
               /\ sealed'[d] # NoBytes => sealed'[d].file = FileOf[d] /\ sealed'[d].nonce = NonceOf(d)
    BY <1>2, CommandEffect DEF Base, SentOnce
  <2>3. \A d \in Command : NonceOf(d)' = NonceOf(d)
    BY DEF NonceOf
  <2> QED
    BY <2>1, <2>2, <2>3 DEF SentOnce
<1>3. ASSUME NEW c \in Command, ServerStep(c) PROVE UNCHANGED <<pc, sealed>>
  BY <1>3 DEF ServerStep
<1>4. ASSUME NEW f \in File, Edit(f) PROVE UNCHANGED <<pc, sealed>>
  BY <1>4 DEF Edit
<1>5. ASSUME NEW w \in Verifier, VerifierStep(w) PROVE UNCHANGED <<pc, sealed>>
  BY <1>5, VerifierFrame
<1> QED
  BY <1>1, <1>2, <1>3, <1>4, <1>5, StepCases DEF CommandStep, vars

LEMMA TypeNext ==
    ASSUME Base, [Next]_vars
    PROVE  TypeOK'
<1>1. /\ archive' \in [Backup -> Seq(Command)]
      /\ reply' \in [Command -> {"none", "created", "error"}]
      /\ target' \in [Command -> Backup]
      /\ sealed' \in [Command -> Bytes \cup {NoBytes}]
  BY Grows DEF Base, TypeOK
<1>2. check' \in [Verifier -> CheckRecord]
  <2>1. check \in [Verifier -> CheckRecord]
    BY DEF Base, TypeOK, CheckRecord
  <2>2. ASSUME NEW c \in Command, CommandStep(c) \/ ServerStep(c) PROVE check' = check
    BY <2>2, CommandEffect DEF ServerStep
  <2> QED
    BY <2>1, <2>2, StepCases, VerifierTyped DEF CommandStep, Edit, vars
<1>3. pc' \in [Command -> Step]
  <2>1. pc \in [Command -> Step]
    BY DEF Base, TypeOK, Step
  <2> QED
    BY <2>1, StepCases, CommandEffect, VerifierFrame DEF CommandStep, ServerStep, Edit, vars
<1>4. seen' \in [Command -> SUBSET Command]
  <2>1. seen \in [Command -> SUBSET Command]
    BY DEF Base, TypeOK
  <2>2. ASSUME NEW c \in Command, Load(c) PROVE seen' \in [Command -> SUBSET Command]
    BY <2>1, <2>2 DEF Load
  <2>3. ASSUME NEW c \in Command, Send(c) \/ ServerStep(c) \/ Receive(c) \/ OpenLedger(c)
                                 \/ WriteLedger(c) \/ Kill(c)
        PROVE seen' = seen
    BY <2>3 DEF Send, ServerStep, Receive, OpenLedger, WriteLedger, Kill
  <2> QED
    BY <2>1, <2>2, <2>3, StepCases, VerifierFrame DEF Edit, vars
<1>5. edits' \in [File -> 0 .. MaxEdits]
  <2>1. edits \in [File -> 0 .. MaxEdits] /\ MaxEdits \in Nat
    BY SlotsAssumption DEF Base, TypeOK
  <2>2. ASSUME NEW f \in File, Edit(f) PROVE edits' \in [File -> 0 .. MaxEdits]
    BY <2>1, <2>2 DEF Edit
  <2>3. ASSUME NEW c \in Command, CommandStep(c) \/ ServerStep(c) PROVE edits' = edits
    BY <2>3, CommandEffect DEF ServerStep
  <2> QED
    BY <2>1, <2>2, <2>3, StepCases, VerifierFrame DEF CommandStep, vars
<1>6. /\ copy' \in [Command -> Ledger]
      /\ ledger' \in [state : {"absent", "empty", "torn", "whole"}, entries : Ledger]
  <2>1. /\ copy \in [Command -> Ledger]
        /\ ledger \in [state : {"absent", "empty", "torn", "whole"}, entries : Ledger]
    BY DEF Base, TypeOK
  <2>2. ASSUME NEW c \in Command, Load(c) PROVE copy' \in [Command -> Ledger] /\ ledger' = ledger
    BY <2>1, <2>2 DEF Load
  <2>3. ASSUME NEW c \in Command, Receive(c) PROVE copy' \in [Command -> Ledger] /\ ledger' = ledger
    <3>1. CASE reply[c] = "created" /\ copy' = [copy EXCEPT ![c][target[c]] = NewEntry(c)]
      <4>1. [copy[c] EXCEPT ![target[c]] = NewEntry(c)] \in Ledger
        BY <2>1, <3>1, NewEntryType DEF Ledger
      <4> QED
        BY <2>1, <2>3, <3>1, <4>1 DEF Receive
    <3> QED
      BY <2>1, <2>3, <3>1 DEF Receive
  <2>4. ASSUME NEW c \in Command, OpenLedger(c) \/ WriteLedger(c)
        PROVE  /\ copy' = copy
               /\ ledger' \in [state : {"absent", "empty", "torn", "whole"}, entries : Ledger]
    BY <2>1, <2>4, EntryTypes DEF OpenLedger, WriteLedger
  <2>5. ASSUME NEW c \in Command, Send(c) \/ ServerStep(c) \/ Kill(c) PROVE UNCHANGED <<copy, ledger>>
    BY <2>5 DEF Send, ServerStep, Kill
  <2> QED
    BY <2>1, <2>2, <2>3, <2>4, <2>5, StepCases, VerifierFrame DEF Edit, vars
<1> QED
  BY <1>1, <1>2, <1>3, <1>4, <1>5, <1>6 DEF TypeOK, CheckRecord, Step

\* The types, what is sent and what is listed: an invariant by itself.
LEMMA BaseNext ==
    ASSUME Base, [Next]_vars
    PROVE  Base'
<1>1. ChecksTyped'
  <2>1. ASSUME NEW c \in Command, CommandStep(c) \/ ServerStep(c) PROVE check' = check
    BY <2>1, CommandEffect DEF ServerStep
  <2>2. CASE check' = check
    BY <2>2 DEF Base, ChecksTyped
  <2> QED
    BY <2>1, <2>2, StepCases, VerifierTyped DEF CommandStep, Edit, vars
<1> QED
  BY <1>1, TypeNext, SentOnceNext, ArchiveSoundNext DEF Base

(***************************************************************************)
(* What entries and checks describe.                                       *)
(***************************************************************************)
\* Describes and Sound in the next state, of an entry and a check that stay.
DescribesNext(e, b) ==
    /\ e.version \in DOMAIN archive'[b]
    /\ sealed'[archive'[b][e.version]].file = e.file
    /\ sealed'[archive'[b][e.version]].nonce = e.nonce

OpenNext(c) == [sealed'[c] EXCEPT !.nonce = NoNonce]

SoundNext(k) ==
    /\ k.pc \in {"ready", "asked", "ok", "proofFailed"} =>
         k.id \in Backup /\ DescribesNext(k.entry, k.id)
    /\ k.pc \in {"asked", "proofFailed"} =>
         k.local.file = k.entry.file /\ k.local.nonce = k.entry.nonce
    /\ k.pc = "proofFailed" =>
         /\ k.version \in DOMAIN archive'[k.id]
         /\ sealed'[archive'[k.id][k.version]] # k.local
    /\ k.pc = "restored" =>
         /\ k.id \in Backup /\ k.version \in DOMAIN archive'[k.id]
         /\ k.local = OpenNext(archive'[k.id][k.version])

\* What is listed stays, with its bytes.
LEMMA ListedStays ==
    ASSUME Base, [Next]_vars, NEW b \in Backup, NEW i \in DOMAIN archive[b]
    PROVE  /\ i \in DOMAIN archive'[b] /\ archive'[b][i] = archive[b][i]
           /\ sealed'[archive[b][i]] = sealed[archive[b][i]]
<1>1. archive[b][i] \in Command /\ sealed[archive[b][i]] # NoBytes
  BY ListedBytes DEF Base, ArchiveSound
<1> QED
  BY <1>1, Grows

LEMMA DescribesStays ==
    ASSUME Base, [Next]_vars, NEW b \in Backup, NEW e, Describes(e, b)
    PROVE  DescribesNext(e, b)
<1>1. e.version \in DOMAIN archive[b]
  BY DEF Describes
<1> QED
  BY <1>1, ListedStays DEF Describes, DescribesNext

LEMMA SoundStays ==
    ASSUME Base, [Next]_vars, NEW k, Sound(k)
    PROVE  SoundNext(k)
<1>1. k.pc \in {"ready", "asked", "ok", "proofFailed"} =>
        k.id \in Backup /\ DescribesNext(k.entry, k.id)
  BY DescribesStays DEF Sound
<1>2. ASSUME k.pc = "proofFailed"
      PROVE  /\ k.version \in DOMAIN archive'[k.id]
             /\ sealed'[archive'[k.id][k.version]] # k.local
  <2>1. k.id \in Backup /\ k.version \in DOMAIN archive[k.id]
    BY <1>2 DEF Sound
  <2> QED
    BY <1>2, <2>1, ListedStays DEF Sound
<1>3. ASSUME k.pc = "restored"
      PROVE  /\ k.id \in Backup /\ k.version \in DOMAIN archive'[k.id]
             /\ k.local = OpenNext(archive'[k.id][k.version])
  <2>1. /\ k.id \in Backup /\ k.version \in DOMAIN archive[k.id]
        /\ k.local = Open(archive[k.id][k.version])
    BY <1>3 DEF Sound
  <2> QED
    BY <2>1, ListedStays DEF Open, OpenNext
<1> QED
  BY <1>1, <1>2, <1>3 DEF Sound, SoundNext

\* An entry is what its place had, what ledger.json or a copy had, or new.
LEMMA EntrySources ==
    ASSUME Base, [Next]_vars
    PROVE  /\ \A b \in Backup : \/ ledger'.entries[b] \in {ledger.entries[b], NoEntry}
                               \/ \E c \in Command : ledger'.entries[b] = copy[c][b]
           /\ \A c \in Command, b \in Backup :
                \/ copy'[c][b] \in {copy[c][b], ledger.entries[b]}
                \/ reply[c] = "created" /\ b = target[c] /\ copy'[c][b] = NewEntry(c)
<1> DEFINE Sources ==
      /\ \A b \in Backup : \/ ledger'.entries[b] \in {ledger.entries[b], NoEntry}
                          \/ \E c \in Command : ledger'.entries[b] = copy[c][b]
      /\ \A c \in Command, b \in Backup :
           \/ copy'[c][b] \in {copy[c][b], ledger.entries[b]}
           \/ reply[c] = "created" /\ b = target[c] /\ copy'[c][b] = NewEntry(c)
<1>1. /\ copy \in [Command -> Ledger] /\ target \in [Command -> Backup]
      /\ ledger \in [state : {"absent", "empty", "torn", "whole"}, entries : Ledger]
  BY DEF Base, TypeOK
<1>2. CASE UNCHANGED <<copy, ledger>>
  BY <1>2
<1>3. ASSUME NEW c \in Command, Load(c) PROVE Sources
  <2>1. ledger' = ledger /\ copy' \in {copy, [copy EXCEPT ![c] = ledger.entries]}
    BY <1>3 DEF Load
  <2> QED
    BY <1>1, <2>1
<1>4. ASSUME NEW c \in Command, Receive(c) PROVE Sources
  <2>1. CASE reply[c] = "created" /\ copy' = [copy EXCEPT ![c][target[c]] = NewEntry(c)]
    <3>1. copy[c] \in [Backup -> LedgerEntry \cup {NoEntry}] /\ target[c] \in Backup
      BY <1>1 DEF Ledger
    <3>2. /\ \A d \in Command \ {c} : copy'[d] = copy[d]
          /\ copy'[c] = [copy[c] EXCEPT ![target[c]] = NewEntry(c)]
      BY <1>1, <2>1
    <3>3. \A b \in Backup : copy'[c][b] = IF b = target[c] THEN NewEntry(c) ELSE copy[c][b]
      BY <3>1, <3>2
    <3>4. ledger' = ledger
      BY <1>4 DEF Receive
    <3> QED
      BY <2>1, <3>2, <3>3, <3>4
  <2> QED
    BY <1>2, <1>4, <2>1 DEF Receive
<1>5. ASSUME NEW c \in Command, OpenLedger(c) PROVE Sources
  <2>1. \A b \in Backup : ledger'.entries[b] = NoEntry
    BY <1>5 DEF OpenLedger, NoEntries
  <2> QED
    BY <1>5, <2>1 DEF OpenLedger
<1>6. ASSUME NEW c \in Command, WriteLedger(c) PROVE Sources
  <2>1. copy' = copy /\ ledger'.entries = copy[c]
    BY <1>6 DEF WriteLedger
  <2> QED
    BY <2>1
<1>7. ASSUME NEW c \in Command, Send(c) \/ ServerStep(c) \/ Kill(c) PROVE UNCHANGED <<copy, ledger>>
  BY <1>7 DEF Send, ServerStep, Kill
<1> QED
  BY <1>2, <1>3, <1>4, <1>5, <1>6, <1>7, StepCases, VerifierFrame DEF Edit, vars

LEMMA NewEntryDescribes ==
    ASSUME Base, NEW c \in Command, reply[c] = "created"
    PROVE  Describes(NewEntry(c), target[c])
<1>1. /\ StoredVersion(c) \in DOMAIN archive[target[c]] /\ archive[target[c]][StoredVersion(c)] = c
      /\ target[c] \in Backup
  BY StoredIsListed DEF Base, TypeOK
<1>2. sealed[c].file = FileOf[c] /\ sealed[c].nonce = NonceOf(c)
  BY <1>1 DEF Base, ArchiveSound, SentOnce
<1> QED
  BY <1>1, <1>2 DEF Describes, NewEntry

LEMMA EntriesDescribeNext ==
    ASSUME Base, EntriesDescribe, [Next]_vars
    PROVE  EntriesDescribe'
<1>1. ASSUME NEW b \in Backup, ledger'.entries[b] # NoEntry
      PROVE  DescribesNext(ledger'.entries[b], b)
  <2>1. Describes(ledger'.entries[b], b)
    BY <1>1, EntrySources DEF EntriesDescribe
  <2> QED
    BY <2>1, DescribesStays
<1>2. ASSUME NEW c \in Command, NEW b \in Backup, copy'[c][b] # NoEntry
      PROVE  DescribesNext(copy'[c][b], b)
  <2>1. Describes(copy'[c][b], b)
    BY <1>2, EntrySources, NewEntryDescribes DEF EntriesDescribe
  <2> QED
    BY <2>1, DescribesStays
<1> QED
  BY <1>1, <1>2 DEF EntriesDescribe, Describes, DescribesNext

LEMMA VerifierSound ==
    ASSUME Base, EntriesDescribe, ChecksSound, NEW w \in Verifier, VerifierStep(w)
    PROVE  \A x \in Verifier : Sound(check'[x])
<1>1. check \in [Verifier -> CheckRecord] /\ Sound(check[w]) /\ check[w] \in CheckRecord
  BY DEF Base, TypeOK, CheckRecord, ChecksSound
<1>2. ASSUME NEW x \in Verifier \ {w} PROVE check'[x] = check[x]
  BY <1>1, <1>2
         DEF VerifierStep, CheckLoad, Reseal, Challenge, NextRound, RestoreList, RestoreFetch
<1>3. ASSUME NEW b \in Backup, CheckLoad(w, b) PROVE Sound(check'[w])
  <2>1. CASE Readable /\ ledger.entries[b] # NoEntry
    <3>1. check'[w].pc = "ready" /\ check'[w].entry = ledger.entries[b] /\ check'[w].id = b
      BY <1>1, <1>3, <2>1 DEF CheckLoad, NoCheck
    <3> QED
      BY <2>1, <3>1 DEF EntriesDescribe, Sound
  <2>2. CASE ~(Readable /\ ledger.entries[b] # NoEntry)
    <3>1. check'[w].pc = "error"
      BY <1>1, <1>3, <2>2 DEF CheckLoad, NoCheck
    <3> QED
      BY <3>1 DEF Sound
  <2> QED
    BY <2>1, <2>2
<1>4. ASSUME Reseal(w) PROVE Sound(check'[w])
  <2>1. check[w].pc = "ready" /\ check[w].entry \in LedgerEntry
    BY <1>1, <1>4 DEF Reseal, CheckRecord, Base, ChecksTyped
  <2>2. /\ Seal(check[w].entry.file, check[w].entry.nonce).file = check[w].entry.file
        /\ Seal(check[w].entry.file, check[w].entry.nonce).nonce = check[w].entry.nonce
    BY <2>1, SealType DEF Base, LedgerEntry
  <2>3. /\ check'[w].pc = "asked" /\ check'[w].entry = check[w].entry
        /\ check'[w].id = check[w].id
        /\ check'[w].local = Seal(check[w].entry.file, check[w].entry.nonce)
    BY <1>1, <1>4 DEF Reseal, CheckRecord
  <2> QED
    BY <1>1, <2>1, <2>2, <2>3 DEF Sound
<1>5. ASSUME NEW asked \in 0 .. Cardinality(Command), Challenge(w, asked) PROVE Sound(check'[w])
  <2> DEFINE listed == archive[check[w].id]
             v == IF asked = 0 THEN Len(listed) ELSE asked
  <2>1. /\ check[w].pc = "asked" /\ check[w].id \in Backup
        /\ Describes(check[w].entry, check[w].id)
    BY <1>1, <1>5 DEF Challenge, Sound
  <2>2. listed \in Seq(Command) /\ check[w].entry.version \in DOMAIN listed
    BY <2>1 DEF Base, TypeOK, Describes
  <2>3. Len(listed) \in DOMAIN listed
    BY <2>2
  <2>4. v \in DOMAIN listed
    BY <1>5, <2>3 DEF Challenge
  <2>5. /\ check'[w].version = v /\ check'[w].entry = check[w].entry
        /\ check'[w].id = check[w].id /\ check'[w].local = check[w].local
        /\ check'[w].pc = IF sealed[listed[v]] = check[w].local THEN "ok" ELSE "proofFailed"
    BY <1>1, <1>5 DEF Challenge, CheckRecord
  <2> HIDE DEF v
  <2> QED
    BY <1>1, <2>1, <2>4, <2>5 DEF Sound
<1>6. ASSUME NextRound(w) PROVE Sound(check'[w])
  <2>1. /\ check[w].pc \in {"ok", "proofFailed"} /\ check'[w].pc = "ready"
        /\ check'[w].entry = check[w].entry /\ check'[w].id = check[w].id
    BY <1>1, <1>6 DEF NextRound, CheckRecord
  <2> QED
    BY <1>1, <2>1 DEF Sound
<1>7. ASSUME NEW b \in Backup, NEW asked \in 0 .. Cardinality(Command), RestoreList(w, b, asked)
      PROVE  Sound(check'[w])
  <2>1. check'[w].pc \in {"listed", "error"}
    BY <1>1, <1>7 DEF RestoreList, NoCheck
  <2> QED
    BY <2>1 DEF Sound
<1>8. ASSUME RestoreFetch(w) PROVE Sound(check'[w])
  <2>1. CASE check' = [check EXCEPT ![w].pc = "error"]
    <3>1. check'[w].pc = "error"
      BY <1>1, <2>1 DEF CheckRecord
    <3> QED
      BY <3>1 DEF Sound
  <2>2. CASE /\ check[w].version \in DOMAIN archive[check[w].id]
             /\ check' = [check EXCEPT ![w].pc = "restored",
                              ![w].local = Open(archive[check[w].id][check[w].version])]
    <3>1. /\ check'[w].pc = "restored" /\ check'[w].id = check[w].id
          /\ check'[w].version = check[w].version
          /\ check'[w].local = Open(archive[check[w].id][check[w].version])
      BY <1>1, <2>2 DEF CheckRecord
    <3>2. check[w].id \in Backup
      BY <1>8 DEF RestoreFetch, Base, ChecksTyped
    <3> QED
      BY <2>2, <3>1, <3>2 DEF Sound
  <2> QED
    BY <1>8, <2>1, <2>2 DEF RestoreFetch
<1>9. Sound(check'[w])
  BY <1>3, <1>4, <1>5, <1>6, <1>7, <1>8 DEF VerifierStep
<1> QED
  BY <1>2, <1>9 DEF ChecksSound

LEMMA ChecksSoundNext ==
    ASSUME Base, EntriesDescribe, ChecksSound, [Next]_vars
    PROVE  ChecksSound'
<1>1. \A x \in Verifier : Sound(check'[x])
  <2>1. CASE check' = check
    BY <2>1 DEF ChecksSound
  <2>2. ASSUME NEW c \in Command, CommandStep(c) \/ ServerStep(c) PROVE check' = check
    BY <2>2, CommandEffect DEF ServerStep
  <2> QED
    BY <2>1, <2>2, StepCases, VerifierSound DEF CommandStep, Edit, vars
<1>2. \A x \in Verifier : SoundNext(check'[x])
  BY <1>1, SoundStays
<1> QED
  BY <1>2 DEF ChecksSound, Sound, SoundNext, Describes, DescribesNext, Open, OpenNext

(***************************************************************************)
(* What the ledger tells.                                                  *)
(***************************************************************************)
\* How commands come to their steps: a loaded ledger, an answer, an end.
LEMMA CommandMoves ==
    ASSUME Base, SeenSound, [Next]_vars, NEW d \in Command
    PROVE  /\ pc'[d] = "idle" => pc[d] = "idle"
           /\ pc'[d] = "done" => pc[d] = "done" \/ WriteLedger(d)
           /\ pc[d] = "done" => pc'[d] = "done"
           /\ pc'[d] \in Running => pc[d] \in Running \/ (Load(d) /\ Readable)
           /\ pc'[d] \in {"open", "write", "done"} =>
                pc[d] \in {"open", "write", "done"} \/ (Receive(d) /\ reply[d] = "created")
           /\ seen'[d] = seen[d] \/ Load(d)
           /\ copy'[d] = copy[d] \/ Load(d) \/ (Receive(d) /\ reply[d] = "created")
<1> DEFINE Moves(x) ==
             /\ pc'[x] = "idle" => pc[x] = "idle"
             /\ pc'[x] = "done" => pc[x] = "done" \/ WriteLedger(x)
             /\ pc[x] = "done" => pc'[x] = "done"
             /\ pc'[x] \in Running => pc[x] \in Running \/ (Load(x) /\ Readable)
             /\ pc'[x] \in {"open", "write", "done"} =>
                  pc[x] \in {"open", "write", "done"} \/ (Receive(x) /\ reply[x] = "created")
             /\ seen'[x] = seen[x] \/ Load(x)
             /\ copy'[x] = copy[x] \/ Load(x) \/ (Receive(x) /\ reply[x] = "created")
<1>1. /\ pc \in [Command -> Step] /\ seen \in [Command -> SUBSET Command]
      /\ copy \in [Command -> Ledger]
  BY DEF Base, TypeOK, Step
<1>2. CASE UNCHANGED <<pc, seen, copy>>
  BY <1>2
<1>3. ASSUME NEW c \in Command, CommandStep(c) PROVE Moves(d)
  <2>1. CASE d # c
    BY <1>3, <2>1, CommandEffect
  <2>2. CASE Load(d)
    BY <1>1, <2>2 DEF Load, GoTo, Running
  <2>3. CASE Receive(d)
    <3>1. pc[d] = "sent" /\ seen' = seen
      BY <2>3 DEF Receive
    <3>2. \/ reply[d] = "created" /\ pc'[d] = "open"
          \/ pc'[d] = "failed" /\ copy' = copy
      BY <1>1, <2>3 DEF Receive, GoTo
    <3> QED
      BY <2>3, <3>1, <3>2 DEF Running
  <2>4. CASE Send(d) \/ OpenLedger(d) \/ WriteLedger(d) \/ Kill(d)
    BY <1>1, <2>4 DEF Send, OpenLedger, WriteLedger, Kill, GoTo, Running
  <2> QED
    BY <1>3, <2>1, <2>2, <2>3, <2>4 DEF CommandStep
<1>4. ASSUME NEW c \in Command, ServerStep(c) PROVE UNCHANGED <<pc, seen, copy>>
  BY <1>4 DEF ServerStep
<1> QED
  BY <1>2, <1>3, <1>4, StepCases, VerifierFrame DEF CommandStep, Edit, vars

\* A command that loads the ledger sees those that have ended, and has sent nothing.
LEMMA LoadEffect ==
    ASSUME Base, NEW d \in Command, Load(d)
    PROVE  /\ seen'[d] = {c \in Command : pc[c] = "done"}
           /\ \A i \in DOMAIN archive[target[d]] : archive[target[d]][i] # d
           /\ Readable => copy'[d] = ledger.entries
           /\ pc[d] = "idle" /\ UNCHANGED server
<1>1. seen \in [Command -> SUBSET Command] /\ copy \in [Command -> Ledger] /\ target[d] \in Backup
  BY DEF Base, TypeOK
<1>2. sealed[d] = NoBytes
  BY DEF Load, Base, SentOnce
<1> QED
  BY <1>1, <1>2 DEF Load, Base, ArchiveSound

LEMMA SeenSoundNext ==
    ASSUME Base, SeenSound, [Next]_vars
    PROVE  SeenSound'
<1>1. /\ target \in [Command -> Backup] /\ target' = target
      /\ seen \in [Command -> SUBSET Command]
      /\ archive \in [Backup -> Seq(Command)] /\ archive' \in [Backup -> Seq(Command)]
  BY Grows DEF Base, TypeOK
<1>2. ASSUME NEW c \in Command, pc'[c] \in {"open", "write", "done"} PROVE reply'[c] = "created"
  BY <1>2, CommandMoves, Grows DEF SeenSound
<1>3. ASSUME NEW d \in Command, pc'[d] = "idle" PROVE seen'[d] = {}
  <2>1. ~Load(d)
    <3>1. Load(d) => pc'[d] # "idle"
      BY CommandEffect DEF CommandStep
    <3> QED
      BY <1>3, <3>1
  <2> QED
    BY <1>3, <2>1, CommandMoves DEF SeenSound
<1>4. ASSUME NEW d \in Command, NEW c \in seen'[d]
      PROVE  /\ c \in Command /\ pc'[c] = "done"
             /\ target[c] = target[d] =>
                  \A i, j \in DOMAIN archive'[target[c]] :
                    archive'[target[c]][i] = c /\ archive'[target[c]][j] = d => i < j
  <2>1. c \in Command /\ pc[c] = "done"
    BY <1>1, <1>4, CommandMoves, LoadEffect DEF SeenSound
  <2>2. pc'[c] = "done"
    BY <2>1, CommandMoves
  <2>3. PICK n \in DOMAIN archive[target[c]] : archive[target[c]][n] = c
    BY <2>1 DEF SeenSound, Base, ArchiveSound
  <2>4. ASSUME NEW i \in DOMAIN archive'[target[c]], NEW j \in DOMAIN archive'[target[c]],
               target[c] = target[d], archive'[target[c]][i] = c, archive'[target[c]][j] = d
        PROVE  i < j
    <3>1. target[c] \in Backup
      BY <1>1, <2>1
    <3>2. i \in DOMAIN archive[target[c]] /\ archive[target[c]][i] = c
      BY <2>3, <2>4, <3>1, Grows
    <3>3. CASE j \notin DOMAIN archive[target[c]]
      BY <3>1, <3>2, <3>3, Grows
    <3>4. CASE j \in DOMAIN archive[target[c]]
      <4>1. archive[target[c]][j] = d
        BY <2>4, <3>1, <3>4, Grows
      <4>2. ~Load(d)
        BY <2>4, <3>4, <4>1, LoadEffect
      <4>3. c \in seen[d]
        BY <1>4, <4>2, CommandMoves
      <4> QED
        BY <2>4, <3>2, <3>4, <4>1, <4>3 DEF SeenSound
    <3> QED
      BY <3>3, <3>4
  <2> QED
    BY <2>1, <2>2, <2>4
<1> QED
  BY <1>1, <1>2, <1>3, <1>4 DEF SeenSound

\* Tells in the next state, of entries that stay.
TellsNext(entries, c) ==
    /\ entries[target[c]] # NoEntry
    /\ \E i \in DOMAIN archive'[target[c]] :
         archive'[target[c]][i] = c /\ i <= entries[target[c]].version

OverlappedNext(c) ==
    \E d \in Command \ {c} : pc'[d] = "done" /\ c \notin seen'[d] /\ d \notin seen'[c]

LEMMA TellsStays ==
    ASSUME Base, [Next]_vars, NEW c \in Command, NEW entries, Tells(entries, c)
    PROVE  TellsNext(entries, c)
<1>1. target[c] \in Backup
  BY DEF Base, TypeOK
<1> QED
  BY <1>1, Grows DEF Tells, TellsNext

LEMMA OverlappedStays ==
    ASSUME Base, SeenSound, [Next]_vars, NEW c \in Command, pc[c] = "done", Overlapped(c)
    PROVE  OverlappedNext(c)
<1>1. PICK d \in Command \ {c} : pc[d] = "done" /\ c \notin seen[d] /\ d \notin seen[c]
  BY DEF Overlapped
<1>2. ~Load(d) /\ ~Load(c)
  BY <1>1 DEF Load
<1> QED
  BY <1>1, <1>2, CommandMoves DEF OverlappedNext

\* The answer to an upload puts its entry, of a later version than those of the
\* commands it saw end, into its copy.
LEMMA ReceiveEffect ==
    ASSUME Base, SeenSound, CopyTells, NEW d \in Command, Receive(d), reply[d] = "created"
    PROVE  /\ Tells(copy'[d], d)
           /\ \A c \in seen[d] : Tells(copy'[d], c) \/ Overlapped(c)
<1> DEFINE t == target[d]
<1>1. /\ copy \in [Command -> Ledger] /\ target \in [Command -> Backup]
      /\ seen \in [Command -> SUBSET Command]
  BY DEF Base, TypeOK
<1>2. /\ StoredVersion(d) \in DOMAIN archive[t] /\ archive[t][StoredVersion(d)] = d
      /\ StoredVersion(d) \in Nat
  BY StoredIsListed
<1>3. NewEntry(d) # NoEntry /\ NewEntry(d).version = StoredVersion(d)
  BY NewEntryType
<1>4. \A b \in Backup : copy'[d][b] = IF b = t THEN NewEntry(d) ELSE copy[d][b]
  <2>1. copy' = [copy EXCEPT ![d][t] = NewEntry(d)]
    BY DEF Receive
  <2>2. copy[d] \in [Backup -> LedgerEntry \cup {NoEntry}]
    BY <1>1 DEF Ledger
  <2>3. copy'[d] = [copy[d] EXCEPT ![t] = NewEntry(d)]
    BY <1>1, <2>1
  <2> QED
    BY <2>2, <2>3
<1>5. t \in Backup /\ copy'[d][t] = NewEntry(d)
  BY <1>1, <1>4
<1>6. Tells(copy'[d], d)
  BY <1>2, <1>3, <1>5 DEF Tells
<1>7. ASSUME NEW c \in seen[d] PROVE Tells(copy'[d], c) \/ Overlapped(c)
  <2>1. c \in Command /\ target[c] \in Backup
    BY <1>1
  <2>2. CASE target[c] # t
    <3>1. Tells(copy[d], c) \/ Overlapped(c)
      BY DEF Receive, CopyTells, Running
    <3>2. copy'[d][target[c]] = copy[d][target[c]]
      BY <1>4, <2>1, <2>2
    <3> QED
      BY <3>1, <3>2 DEF Tells
  <2>3. CASE target[c] = t
    <3>1. PICK i \in DOMAIN archive[t] : archive[t][i] = c
      BY <2>1, <2>3 DEF SeenSound, Base, ArchiveSound
    <3>2. i < StoredVersion(d)
      BY <1>2, <2>3, <3>1 DEF SeenSound
    <3>3. i \in Nat
      BY <1>5, <3>1 DEF Base, TypeOK
    <3>4. i <= copy'[d][t].version
      BY <1>2, <1>3, <1>5, <3>2, <3>3
    <3> QED
      BY <1>3, <1>5, <2>3, <3>1, <3>4 DEF Tells
  <2> QED
    BY <2>2, <2>3
<1> QED
  BY <1>6, <1>7

LEMMA CopyTellsNext ==
    ASSUME Base, SeenSound, CopyTells, LedgerTells, [Next]_vars
    PROVE  CopyTells'
<1>1. seen \in [Command -> SUBSET Command]
  BY DEF Base, TypeOK
<1>2. ASSUME NEW d \in Command, pc'[d] \in Running, NEW c \in seen'[d]
      PROVE  c \in Command /\ (TellsNext(copy'[d], c) \/ OverlappedNext(c))
  <2>1. Tells(copy'[d], c) \/ Overlapped(c)
    <3>1. CASE Load(d)
      <4>1. Readable
        BY <1>2, <3>1, CommandMoves DEF Load, Running
      <4>2. c \in Command /\ pc[c] = "done" /\ copy'[d] = ledger.entries
        BY <1>2, <3>1, <4>1, LoadEffect
      <4> QED
        BY <4>1, <4>2 DEF LedgerTells
    <3>2. CASE Receive(d) /\ reply[d] = "created"
      BY <1>2, <3>2, ReceiveEffect DEF Receive
    <3>3. CASE ~Load(d) /\ ~(Receive(d) /\ reply[d] = "created")
      BY <1>2, <3>3, CommandMoves DEF CopyTells
    <3> QED
      BY <3>1, <3>2, <3>3
  <2>2. c \in Command /\ pc[c] = "done"
    BY <1>1, <1>2, CommandMoves, LoadEffect DEF SeenSound
  <2> QED
    BY <2>1, <2>2, TellsStays, OverlappedStays
<1>3. ASSUME NEW d \in Command, pc'[d] \in {"open", "write"} PROVE TellsNext(copy'[d], d)
  <2>1. Tells(copy'[d], d)
    <3>1. CASE Receive(d) /\ reply[d] = "created"
      BY <3>1, ReceiveEffect
    <3>2. CASE ~(Receive(d) /\ reply[d] = "created")
      <4>1. pc[d] \in {"open", "write"}
        BY <1>3, <3>2, CommandMoves
      <4>2. ~Load(d)
        BY <4>1 DEF Load
      <4> QED
        BY <3>2, <4>1, <4>2, CommandMoves DEF CopyTells
    <3> QED
      BY <3>1, <3>2
  <2> QED
    BY <2>1, TellsStays
<1>4. target' = target
  BY Grows
<1> QED
  BY <1>2, <1>3, <1>4 DEF CopyTells, Tells, TellsNext, Overlapped, OverlappedNext

LEMMA LedgerTellsNext ==
    ASSUME Base, SeenSound, CopyTells, LedgerTells, [Next]_vars
    PROVE  LedgerTells'
<1>1. ASSUME Readable', NEW c \in Command, pc'[c] = "done"
      PROVE  TellsNext(ledger'.entries, c) \/ OverlappedNext(c)
  <2>1. ASSUME NEW d \in Command, WriteLedger(d)
        PROVE  TellsNext(ledger'.entries, c) \/ OverlappedNext(c)
    <3>1. /\ pc[d] = "write" /\ ledger'.entries = copy[d] /\ seen' = seen
          /\ pc' = [pc EXCEPT ![d] = "done"] /\ pc \in [Command -> Step]
      BY <2>1 DEF WriteLedger, GoTo, Base, TypeOK, Step
    <3>2. CASE c = d
      BY <3>1, <3>2, TellsStays DEF CopyTells
    <3>3. CASE c # d /\ c \notin seen[d]
      <4>1. d \notin seen[c]
        BY <3>1 DEF SeenSound
      <4> QED
        BY <3>1, <3>3, <4>1 DEF OverlappedNext
    <3>4. CASE c # d /\ c \in seen[d]
      <4>1. pc[c] = "done"
        BY <3>4 DEF SeenSound
      <4> QED
        BY <3>1, <3>4, <4>1, TellsStays, OverlappedStays DEF CopyTells, Running
    <3> QED
      BY <3>2, <3>3, <3>4
  <2>2. ASSUME NEW d \in Command, OpenLedger(d) PROVE FALSE
    BY <1>1, <2>2 DEF OpenLedger, Readable
  <2>3. CASE ledger' = ledger /\ \A d \in Command : ~WriteLedger(d)
    <3>1. Readable /\ pc[c] = "done"
      BY <1>1, <2>3, CommandMoves DEF Readable
    <3>2. Tells(ledger.entries, c) \/ Overlapped(c)
      BY <3>1 DEF LedgerTells
    <3> QED
      BY <2>3, <3>1, <3>2, TellsStays, OverlappedStays
  <2>4. ASSUME NEW d \in Command, Load(d) \/ Send(d) \/ ServerStep(d) \/ Receive(d) \/ Kill(d)
        PROVE  ledger' = ledger
    BY <2>4 DEF Load, Send, ServerStep, Receive, Kill
  <2>5. ledger' = ledger \/ \E d \in Command : OpenLedger(d) \/ WriteLedger(d)
    BY <2>4, StepCases, VerifierFrame DEF Edit, vars
  <2> QED
    BY <2>1, <2>2, <2>3, <2>5
<1>2. target' = target
  BY Grows
<1> QED
  BY <1>1, <1>2 DEF LedgerTells, Tells, TellsNext, Overlapped, OverlappedNext

(***************************************************************************)
(* The theorems.                                                           *)
(***************************************************************************)
LEMMA InitInv == Init => IInv
<1> SUFFICES ASSUME Init PROVE IInv
  OBVIOUS
<1>1. Base
  BY InitBase
<1>2. \A b \in Backup : NoEntries[b] = NoEntry
  BY DEF NoEntries
<1>3. ledger.entries = NoEntries /\ \A c \in Command : copy[c] = NoEntries
  BY DEF Init
<1>4. EntriesDescribe
  BY <1>2, <1>3 DEF EntriesDescribe
<1>5. \A w \in Verifier : check[w].pc = "idle"
  BY DEF Init, NoCheck
<1>6. ChecksSound
  BY <1>5 DEF ChecksSound, Sound
<1>7. \A c \in Command : pc[c] = "idle" /\ seen[c] = {}
  BY DEF Init
<1>8. SeenSound /\ CopyTells /\ LedgerTells
  BY <1>7 DEF SeenSound, CopyTells, LedgerTells, Running
<1> QED
  BY <1>1, <1>4, <1>6, <1>8 DEF IInv

LEMMA InvNext == IInv /\ [Next]_vars => IInv'
<1> SUFFICES ASSUME IInv, [Next]_vars PROVE IInv'
  OBVIOUS
<1> QED
  BY BaseNext, EntriesDescribeNext, ChecksSoundNext, SeenSoundNext, CopyTellsNext, LedgerTellsNext
     DEF IInv

LEMMA Invariance == Spec => []IInv
BY InitInv, InvNext, PTL DEF Spec

\* The commands keep every variable in its type (TypeOK).
THEOREM TypeCorrect == Spec => []TypeOK
<1>1. IInv => TypeOK
  BY DEF IInv, Base
<1> QED
  BY <1>1, Invariance, PTL

\* Every entry, in ledger.json and in every copy, describes an upload the server
\* lists at its version, whatever commands raced, failed or were killed.
THEOREM EntriesDescribeUploads == Spec => []EntryDescribesItsUpload
<1>1. IInv => EntryDescribesItsUpload
  BY DEF IInv, EntriesDescribe, Describes, EntryDescribesItsUpload
<1> QED
  BY <1>1, Invariance, PTL

\* The bytes of a file under a nonce are all there is to tell two seals apart.
LEMMA BytesEqual ==
    ASSUME NEW x \in Bytes, NEW y \in Bytes,
           x.file = y.file, x.edit = y.edit, x.nonce = y.nonce
    PROVE  x = y
BY DEF Bytes

\* A proof that fails has one of two causes: the entry is of another version, or
\* the file was edited since.
THEOREM FailuresHaveCauses == Spec => []FailureHasCause
<1>1. IInv => FailureHasCause
  <2> SUFFICES ASSUME IInv, NEW w \in Verifier, check[w].pc = "proofFailed",
                      check[w].version = check[w].entry.version,
                      check[w].local.edit = EditOf(archive[check[w].id][check[w].version])
               PROVE  FALSE
    BY DEF FailureHasCause
  <2> DEFINE stored == sealed[archive[check[w].id][check[w].version]]
  <2>1. /\ check[w].id \in Backup /\ check[w].version \in DOMAIN archive[check[w].id]
        /\ stored # check[w].local
        /\ stored.file = check[w].local.file /\ stored.nonce = check[w].local.nonce
    BY DEF IInv, ChecksSound, Sound, Describes
  <2>2. check[w].local \in Bytes /\ stored \in Bytes
    BY <2>1, ListedBytes DEF IInv, Base, ChecksTyped
  <2>3. check[w].local.edit = stored.edit
    BY DEF EditOf
  <2> HIDE DEF stored
  <2> QED
    BY <2>1, <2>2, <2>3, BytesEqual
<1> QED
  BY <1>1, Invariance, PTL

\* A restore gives back a version as it was uploaded, of the file its entry names.
THEOREM RestoresMatch == Spec => []RestoreMatchesLedger
<1>1. IInv => RestoreMatchesLedger
  <2> SUFFICES ASSUME IInv, NEW w \in Verifier, check[w].pc = "restored"
               PROVE  LET e == ledger.entries[check[w].id] IN
                      /\ e.version = check[w].version => check[w].local.file = e.file
                      /\ check[w].local.edit = EditOf(archive[check[w].id][check[w].version])
    BY DEF RestoreMatchesLedger
  <2> DEFINE b == check[w].id
             v == check[w].version
             e == ledger.entries[b]
  <2>1. b \in Backup /\ v \in DOMAIN archive[b] /\ check[w].local = Open(archive[b][v])
    BY DEF IInv, ChecksSound, Sound
  <2>2. /\ check[w].local.file = FileOf[archive[b][v]]
        /\ check[w].local.edit = EditOf(archive[b][v])
        /\ archive[b][v] \in Command /\ v \in 1 .. Len(archive[b]) /\ Len(archive[b]) \in Nat
    BY <2>1, ListedBytes DEF IInv, EditOf
  <2>3. sealed[archive[b][v]].file = FileOf[archive[b][v]]
    BY <2>1, <2>2 DEF IInv, Base, SentOnce, ArchiveSound
  <2>4. ASSUME e.version = v PROVE check[w].local.file = e.file
    <3>1. e # NoEntry
      BY <2>2, <2>4 DEF NoEntry
    <3>2. Describes(e, b)
      BY <2>1, <3>1 DEF IInv, EntriesDescribe
    <3> QED
      BY <2>2, <2>3, <2>4, <3>2 DEF Describes
  <2> QED
    BY <2>2, <2>4
<1> QED
  BY <1>1, Invariance, PTL

\* A command that ended well finds its upload, or a later one of its backup, in
\* ledger.json, unless another one ended well and each of the two had loaded the
\* ledger before the other had written it.
THEOREM OnlyOverlapLoses == Spec => []LostOnlyToOverlap
<1>1. IInv => LostOnlyToOverlap
  <2> SUFFICES ASSUME IInv, Readable, NEW c \in Command, pc[c] = "done", ~Overlapped(c)
               PROVE  /\ ledger.entries[target[c]] # NoEntry
                      /\ ledger.entries[target[c]].version >= StoredVersion(c)
    BY DEF LostOnlyToOverlap, Overlapped
  <2>1. Tells(ledger.entries, c)
    BY DEF IInv, LedgerTells
  <2>2. PICK i \in DOMAIN archive[target[c]] :
          archive[target[c]][i] = c /\ i <= ledger.entries[target[c]].version
    BY <2>1 DEF Tells
  <2>3. reply[c] = "created"
    BY DEF IInv, SeenSound
  <2>4. i = StoredVersion(c)
    BY <2>2, <2>3, StoredIsListed DEF IInv
  <2>5. ledger.entries[target[c]] \in LedgerEntry
    BY <2>1 DEF IInv, Base, TypeOK, Ledger, Tells
  <2>6. ledger.entries[target[c]].version \in Nat /\ StoredVersion(c) \in Nat
    BY <2>3, <2>5, StoredIsListed DEF LedgerEntry, IInv
  <2> QED
    BY <2>1, <2>2, <2>4, <2>6 DEF Tells
<1> QED
  BY <1>1, Invariance, PTL

\* What commands do to the server, started, killed and overlapping in any way
\* (client/main.rs), and whatever is asked of it meanwhile, is what
\* VersionArchive allows: the archive that BackupService implements.
THEOREM ServerIsArchive == Spec => Server!Spec
<1>1. Init => Server!Init
  BY DEF Init
<1>2. [Next]_vars => [Server!Next]_(Server!vars)
  <2> SUFFICES ASSUME [Next]_vars
               PROVE  Server!Next \/ UNCHANGED Server!vars
    OBVIOUS
  <2>1. ASSUME NEW c \in Command, ServerStep(c)
        PROVE  Server!Next
    <3>1. CASE Server!Add(c)
      BY <3>1 DEF Server!Next
    <3>2. CASE Server!Refuse({c}) /\ UNCHANGED archive
      <4>1. {c} \in SUBSET Command
        OBVIOUS
      <4> QED
        BY <3>2, <4>1 DEF Server!Next, Server!Reject
    <3> QED
      BY <2>1, <3>1, <3>2 DEF ServerStep
  <2>2. UNCHANGED server \/ UNCHANGED vars => UNCHANGED Server!vars
    BY DEF server, vars, Server!vars
  <2>3. ASSUME NEW f \in File, Edit(f)
        PROVE  UNCHANGED server
    BY <2>3 DEF Edit
  <2>4. ASSUME NEW c \in Command,
               Load(c) \/ Send(c) \/ Receive(c) \/ OpenLedger(c) \/ WriteLedger(c) \/ Kill(c)
        PROVE  UNCHANGED server
    BY <2>4 DEF Load, Send, Receive, OpenLedger, WriteLedger, Kill
  <2>5. ASSUME NEW w \in Verifier,
               \/ \E b \in Backup : CheckLoad(w, b)
               \/ Reseal(w)
               \/ \E v \in 0 .. Cardinality(Command) : Challenge(w, v)
               \/ NextRound(w)
               \/ \E b \in Backup, v \in 0 .. Cardinality(Command) : RestoreList(w, b, v)
               \/ RestoreFetch(w)
        PROVE  UNCHANGED server
    BY <2>5 DEF CheckLoad, Reseal, Challenge, NextRound, RestoreList, RestoreFetch
  <2> QED
    BY <2>1, <2>2, <2>3, <2>4, <2>5 DEF Next
<1> QED
  BY <1>1, <1>2, PTL DEF Spec, Server!Spec
=============================================================================
