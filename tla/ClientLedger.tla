----------------------------- MODULE ClientLedger -----------------------------
(***************************************************************************)
(* pivss-client: the `backup`, `verify`, `watch` and `restore` commands,   *)
(* each a process of its own over one state directory.  A backup command   *)
(* loads ledger.json, uploads the file, adds what it learnt to its copy of *)
(* the ledger and writes the whole copy over ledger.json.  A verify        *)
(* command loads the ledger, seals the local file again under the nonce    *)
(* its entry records, and compares the server's proof with that; a watch   *)
(* command does so in rounds, over the ledger it loaded once.  A restore   *)
(* takes nothing from the ledger, but must load it like every command.     *)
(*                                                                         *)
(* The server is VersionArchive, which BackupService implements: it never  *)
(* loses or changes what it lists.  The hashes of a proof are the bytes    *)
(* themselves: two proofs agree when the bytes do.                         *)
(***************************************************************************)
EXTENDS Naturals, Sequences, FiniteSets

CONSTANTS Backup,       \* backup ids
          File,         \* paths of local files
          Command,      \* backup commands
          FileOf,       \* FileOf[c]: the file command c uploads
          IdOf,         \* IdOf[f]: the backup id of f (its file name and kind)
          Opaque,       \* commands run without a passphrase
          Verifier,     \* verify, watch and restore commands
          MaxEdits,     \* bound on the edits of a file
          Slots,        \* backup commands that may run at a time
          Kills         \* may a command be killed?

ASSUME IdAssumption == IdOf \in [File -> Backup] /\ FileOf \in [Command -> File]
ASSUME CommandAssumption == IsFiniteSet(Command) /\ "none" \notin File
ASSUME OpaqueAssumption == Opaque \subseteq Command
ASSUME SlotsAssumption == Slots \in Nat \ {0} /\ MaxEdits \in Nat
ASSUME KillsAssumption == Kills \in BOOLEAN

VARIABLES archive, reply, target,       \* the server, see VersionArchive
          seen,         \* seen[c]: the commands that had ended well when c
                        \* loaded the ledger (history)
          edits,        \* edits[f]: how often file f was changed
          sealed,       \* sealed[c]: the bytes command c uploads
          pc,           \* the step each backup command is at
          copy,         \* the ledger each backup command works on
          ledger,       \* ledger.json
          check         \* the verify, watch and restore commands
server == <<archive, reply, target>>
vars == <<archive, reply, target, seen, edits, sealed, pc, copy, ledger, check>>

Server == INSTANCE VersionArchive
            WITH Series <- Backup, Upload <- Command, Durable <- TRUE

NoNonce == "none"
NoEntry == [file |-> "none", version |-> 0, nonce |-> NoNonce]
NoEntries == [b \in Backup |-> NoEntry]
NoBytes == [file |-> "none", edit |-> 0, nonce |-> NoNonce]

Nonce == Command \cup {NoNonce}         \* each command draws its own
Bytes == [file : File, edit : 0 .. MaxEdits, nonce : Nonce]
LedgerEntry == [file : File, version : Nat, nonce : Nonce]
Ledger == [Backup -> LedgerEntry \cup {NoEntry}]

Running == {"send", "sent", "open", "write"}

NoCheck == [pc |-> "idle", entry |-> NoEntry, id |-> "none",
            local |-> NoBytes, version |-> 0]

Init ==
    /\ Server!Init
    /\ target = [c \in Command |-> IdOf[FileOf[c]]]
    /\ seen = [c \in Command |-> {}]
    /\ edits = [f \in File |-> 0]
    /\ sealed = [c \in Command |-> NoBytes]
    /\ pc = [c \in Command |-> "idle"]
    /\ copy = [c \in Command |-> NoEntries]
    /\ ledger = [state |-> "absent", entries |-> NoEntries]
    /\ check = [w \in Verifier |-> NoCheck]

GoTo(c, step) == pc' = [pc EXCEPT ![c] = step]

\* The user changes a file.
Edit(f) ==
    /\ edits[f] < MaxEdits
    /\ edits' = [edits EXCEPT ![f] = @ + 1]
    /\ UNCHANGED <<server, seen, sealed, pc, copy, ledger, check>>

(***************************************************************************)
(* Ledger::load: an absent file is an empty ledger, a file that does not   *)
(* parse (an empty one does not) ends the command.                         *)
(***************************************************************************)
Readable == ledger.state \in {"absent", "whole"}

\* Bug: a file that is there is not read.
Load_Fault(c) ==
    /\ pc[c] = "idle"
    /\ Cardinality({d \in Command : pc[d] \in Running}) < Slots
    /\ GoTo(c, "send")
    /\ seen' = [seen EXCEPT ![c] = {d \in Command : pc[d] = "done"}]
    /\ UNCHANGED <<server, edits, sealed, copy, ledger, check>>

Load(c) ==
    /\ pc[c] = "idle"
    /\ Cardinality({d \in Command : pc[d] \in Running}) < Slots
    /\ seen' = [seen EXCEPT ![c] = {d \in Command : pc[d] = "done"}]
    /\ IF Readable
       THEN GoTo(c, "send") /\ copy' = [copy EXCEPT ![c] = ledger.entries]
       ELSE GoTo(c, "failed") /\ UNCHANGED copy
    /\ UNCHANGED <<server, edits, sealed, ledger, check>>

(***************************************************************************)
(* The backup command.                                                     *)
(***************************************************************************)
\* The bytes of file f as it is now, under a nonce.
Seal(f, nonce) == [file |-> f, edit |-> edits[f], nonce |-> nonce]

NonceOf(c) == IF c \in Opaque THEN NoNonce ELSE c

Send(c) ==
    /\ pc[c] = "send"
    /\ sealed' = [sealed EXCEPT ![c] = Seal(FileOf[c], NonceOf(c))]
    /\ GoTo(c, "sent")
    /\ UNCHANGED <<server, seen, edits, copy, ledger, check>>

\* The server lists the upload, or refuses it; it may list one whose command
\* was killed, or was told of an error.
ServerStep(c) ==
    /\ sealed[c] # NoBytes
    /\ \/ Server!Add(c)
       \/ Server!Refuse({c}) /\ UNCHANGED archive
    /\ UNCHANGED <<seen, edits, sealed, pc, copy, ledger, check>>

\* The version the server stored c as.
StoredVersion(c) ==
    CHOOSE i \in DOMAIN archive[target[c]] : archive[target[c]][i] = c

\* Bug: the entry carries the latest version at the time of the answer.
NewEntry_Fault(c) ==
    [file |-> FileOf[c], version |-> Len(archive[target[c]]), nonce |-> NonceOf(c)]
NewEntry(c) ==
    [file |-> FileOf[c], version |-> StoredVersion(c), nonce |-> NonceOf(c)]

Receive(c) ==
    /\ pc[c] = "sent"
    /\ \/ /\ reply[c] = "created"
          /\ copy' = [copy EXCEPT ![c][target[c]] = NewEntry(c)]
          /\ GoTo(c, "open")
       \/ reply[c] = "error" /\ GoTo(c, "failed") /\ UNCHANGED copy
    /\ UNCHANGED <<server, seen, edits, sealed, ledger, check>>

\* Ledger::save: fs::write truncates ledger.json, then writes it.  Over what
\* another command wrote meanwhile, it leaves the end of the longer text.
OpenLedger(c) ==
    /\ pc[c] = "open"
    /\ ledger' = [state |-> "empty", entries |-> NoEntries]
    /\ GoTo(c, "write")
    /\ UNCHANGED <<server, seen, edits, sealed, copy, check>>

WriteLedger(c) ==
    /\ pc[c] = "write"
    /\ \E state \in IF ledger.state = "empty" THEN {"whole"} ELSE {"whole", "torn"} :
         ledger' = [state |-> state, entries |-> copy[c]]
    /\ GoTo(c, "done")
    /\ UNCHANGED <<server, seen, edits, sealed, copy, check>>

\* A command ends between two steps: it is killed, or a call of it fails.
Kill(c) ==
    /\ Kills
    /\ pc[c] \in Running
    /\ GoTo(c, "killed")
    /\ UNCHANGED <<server, seen, edits, sealed, copy, ledger, check>>

(***************************************************************************)
(* verify and watch.  `check` keeps, of the ledger they loaded, the entry  *)
(* of the backup they check.                                               *)
(***************************************************************************)
CheckLoad(w, b) ==
    /\ check[w].pc = "idle"
    /\ check' = [check EXCEPT ![w] =
         IF Readable /\ ledger.entries[b] # NoEntry
         THEN [NoCheck EXCEPT !.pc = "ready", !.entry = ledger.entries[b], !.id = b]
         ELSE [NoCheck EXCEPT !.pc = "error"]]
    /\ UNCHANGED <<server, seen, edits, sealed, pc, copy, ledger>>

\* local_stored_bytes: the file as it is now, under the entry's nonce.
Reseal(w) ==
    /\ check[w].pc = "ready"
    /\ check' = [check EXCEPT ![w].pc = "asked",
                              ![w].local = Seal(check[w].entry.file, check[w].entry.nonce)]
    /\ UNCHANGED <<server, seen, edits, sealed, pc, copy, ledger>>

\* The server proves the version asked for, the latest when none is named.
Challenge(w, asked) ==
    /\ check[w].pc = "asked"
    /\ asked \in {0} \cup DOMAIN archive[check[w].id]
    /\ LET listed == archive[check[w].id]
           v == IF asked = 0 THEN Len(listed) ELSE asked
       IN  check' = [check EXCEPT
             ![w].version = v,
             ![w].pc = IF sealed[listed[v]] = check[w].local THEN "ok" ELSE "proofFailed"]
    /\ UNCHANGED <<server, seen, edits, sealed, pc, copy, ledger>>

\* watch: the next round, with the ledger loaded at the start.
NextRound(w) ==
    /\ check[w].pc \in {"ok", "proofFailed"}
    /\ check' = [check EXCEPT ![w].pc = "ready", ![w].local = NoBytes, ![w].version = 0]
    /\ UNCHANGED <<server, seen, edits, sealed, pc, copy, ledger>>

(***************************************************************************)
(* restore: the listing first, then the data of the version asked for (the *)
(* latest when none is named), which is decrypted if it is an envelope.    *)
(***************************************************************************)
RestoreList(w, b, asked) ==
    /\ check[w].pc = "idle"
    /\ check' = [check EXCEPT ![w] =
         IF Readable /\ archive[b] # <<>>
         THEN [NoCheck EXCEPT !.pc = "listed", !.id = b,
                 !.version = IF asked = 0 THEN Len(archive[b]) ELSE asked]
         ELSE [NoCheck EXCEPT !.pc = "error"]]
    /\ UNCHANGED <<server, seen, edits, sealed, pc, copy, ledger>>

\* What the passphrase makes of the bytes uploaded as c.
Open(c) == [sealed[c] EXCEPT !.nonce = NoNonce]

\* Bug: the latest version is fetched.
RestoreFetch_Fault(w) ==
    /\ check[w].pc = "listed"
    /\ LET k == check[w] IN
       /\ k.version \in DOMAIN archive[k.id]
       /\ check' = [check EXCEPT ![w].pc = "restored",
                                 ![w].local = Open(archive[k.id][Len(archive[k.id])])]
    /\ UNCHANGED <<server, seen, edits, sealed, pc, copy, ledger>>

\* An envelope needs the passphrase; without it, or without the version, the
\* command fails.
RestoreFetch(w) ==
    /\ check[w].pc = "listed"
    /\ LET k == check[w] IN
       \/ /\ k.version \in DOMAIN archive[k.id]
          /\ check' = [check EXCEPT ![w].pc = "restored",
                                    ![w].local = Open(archive[k.id][k.version])]
       \/ /\ k.version \in DOMAIN archive[k.id] => archive[k.id][k.version] \notin Opaque
          /\ check' = [check EXCEPT ![w].pc = "error"]
    /\ UNCHANGED <<server, seen, edits, sealed, pc, copy, ledger>>

Next ==
    \/ \E f \in File : Edit(f)
    \/ \E c \in Command : \/ Load(c) \/ Send(c) \/ ServerStep(c) \/ Receive(c)
                          \/ OpenLedger(c) \/ WriteLedger(c) \/ Kill(c)
    \/ \E w \in Verifier : \/ \E b \in Backup : CheckLoad(w, b)
                           \/ Reseal(w)
                           \/ \E v \in 0 .. Cardinality(Command) : Challenge(w, v)
                           \/ NextRound(w)
                           \/ \E b \in Backup, v \in 0 .. Cardinality(Command) :
                                RestoreList(w, b, v)
                           \/ RestoreFetch(w)

Spec == Init /\ [][Next]_vars

(***************************************************************************)
(* Properties.                                                             *)
(***************************************************************************)
\* Every variable stays in the states the commands can put it in.
TypeOK ==
    /\ archive \in [Backup -> Seq(Command)]
    /\ reply \in [Command -> {"none", "created", "error"}]
    /\ target \in [Command -> Backup]
    /\ seen \in [Command -> SUBSET Command]
    /\ edits \in [File -> 0 .. MaxEdits]
    /\ sealed \in [Command -> Bytes \cup {NoBytes}]
    /\ pc \in [Command -> Running \cup {"idle", "done", "failed", "killed"}]
    /\ copy \in [Command -> Ledger]
    /\ ledger \in [state : {"absent", "empty", "torn", "whole"}, entries : Ledger]
    /\ check \in [Verifier ->
         [pc : {"idle", "error", "ready", "asked", "ok", "proofFailed", "listed", "restored"},
          entry : LedgerEntry \cup {NoEntry}, id : Backup \cup {"none"},
          local : Bytes \cup {NoBytes}, version : Nat]]

\* An entry describes one upload of its backup: the server lists, at the
\* entry's version, bytes of the entry's file under the entry's nonce.  It
\* holds of ledger.json and of every copy, whatever commands raced or died.
EntryDescribesItsUpload ==
    \A entries \in {ledger.entries} \cup {copy[c] : c \in Command} :
        \A b \in {x \in Backup : entries[x] # NoEntry} :
            LET e == entries[b] IN
            /\ e.version \in DOMAIN archive[b]
            /\ sealed[archive[b][e.version]].file = e.file
            /\ sealed[archive[b][e.version]].nonce = e.nonce

\* The edits of the file that upload c carries.
EditOf(c) == sealed[c].edit

\* A proof fails against the honest server only when the entry is not of the
\* version that was proved, or the file has changed since it was uploaded:
\* the seal under a recorded nonce is never wrong by itself.  Either cause is
\* reported as "server could not demonstrate it stores your data" (main.rs:161).
FailureHasCause ==
    \A w \in Verifier : LET k == check[w] IN
        k.pc = "proofFailed" =>
            \/ k.version # k.entry.version
            \/ k.local.edit # EditOf(archive[k.id][k.version])

\* A restore gives back one version as it was uploaded: the file and the edit of
\* the upload that the entry of this version describes, whatever was uploaded,
\* edited or recorded since the listing was read.
RestoreMatchesLedger ==
    \A w \in Verifier : LET k == check[w] IN
        k.pc = "restored" =>
            LET e == ledger.entries[k.id] IN
            /\ e.version = k.version => k.local.file = e.file
            /\ k.local.edit = EditOf(archive[k.id][k.version])

\* A ledger "of every backup it uploaded" (lib.rs:3), as far as commands that
\* share it without a lock can keep it: while ledger.json can be read, it has an
\* entry for the backup of every command that ended well, of its version or a
\* later one, unless another one ended well that overlapped it: each of the two
\* had loaded the ledger before the other had written it.
LostOnlyToOverlap ==
    Readable => \A c \in Command : pc[c] = "done" =>
        \/ /\ ledger.entries[target[c]] # NoEntry
           /\ ledger.entries[target[c]].version >= StoredVersion(c)
        \/ \E d \in Command \ {c} : pc[d] = "done" /\ c \notin seen[d] /\ d \notin seen[c]
=============================================================================
