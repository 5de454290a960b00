------------------------------- MODULE Envelope -------------------------------
(***************************************************************************)
(* What the client's optional encryption (crypto.rs) does to a file from   *)
(* `backup` to `restore` and `verify` (main.rs).  A backup seals the file  *)
(* under a passphrase and a fresh salt and nonce, or sends it as it is.    *)
(* A restore guesses from the first bytes whether what it downloaded is an *)
(* envelope, and writes over the file what it takes for its content.  What *)
(* is backed up may be an envelope already: a copy of what is stored, as   *)
(* torrents and downloads give it.                                         *)
(*                                                                         *)
(* Bytes are a file under any number of seals, the outermost first; only   *)
(* the passphrase of a seal opens it.  Some files happen to begin like an  *)
(* envelope.                                                               *)
(***************************************************************************)
EXTENDS Naturals, Sequences

CONSTANTS File,         \* files that are not sealed
          Lookalike,    \* the ones that begin with the magic bytes
          Pass,         \* passphrases
          NoPass,       \* no passphrase given
          Salt,         \* salts, each with a nonce
          MaxSeals      \* bound on the seals of a file

ASSUME LookalikeAssumption == Lookalike \subseteq File
ASSUME PassAssumption == NoPass \notin Pass

VARIABLES payload,      \* what the file holds
          upload        \* its last backup: the bytes stored and the ledger entry
envelopeVars == <<payload, upload>>

Seal == [pass : Pass, salt : Salt]
Payload == [seals : Seq(Seal), file : File]
MaybePass == Pass \cup {NoPass}

(***************************************************************************)
(* crypto.rs.                                                              *)
(***************************************************************************)
\* The key is derived from the passphrase and the salt.
EncryptWith(pass, salt, bytes) ==
    [seals |-> <<[pass |-> pass, salt |-> salt]>> \o bytes.seals, file |-> bytes.file]

IsEnvelope(bytes) == bytes.seals # <<>> \/ bytes.file \in Lookalike

Opens(pass, bytes) == bytes.seals # <<>> /\ Head(bytes.seals).pass = pass

Decrypt(bytes) == [seals |-> Tail(bytes.seals), file |-> bytes.file]

(***************************************************************************)
(* main.rs.                                                                *)
(***************************************************************************)
\* backup: what is sent of a file, and what the ledger entry says of it; what it
\* was made of (history).
Backup(file, pass, salt) ==
    [bytes |-> IF pass = NoPass THEN file ELSE EncryptWith(pass, salt, file),
     encrypted |-> pass # NoPass, salt |-> salt,
     of |-> file, pass |-> pass]

Failure == [bytes |-> "none", ok |-> FALSE]
Success(bytes) == [bytes |-> bytes, ok |-> TRUE]

\* Bug: an envelope that does not open is written as it came.
Restore_Fault(bytes, pass) ==
    IF Opens(pass, bytes) THEN Success(Decrypt(bytes)) ELSE Success(bytes)

\* restore: what is not an envelope is written as it came; an envelope is opened,
\* or the command fails.
Restore(bytes, pass) ==
    CASE ~IsEnvelope(bytes) -> Success(bytes)
      [] IsEnvelope(bytes) /\ Opens(pass, bytes) -> Success(Decrypt(bytes))
      [] OTHER -> Failure

\* Bug: the file is sealed under a salt of its own.
Resealed_Fault(file, entry, pass) ==
    IF entry.encrypted
    THEN EncryptWith(pass, CHOOSE s \in Salt : s # entry.salt, file) ELSE file

\* local_stored_bytes: the local file sealed again as the ledger entry says.
Resealed(file, entry, pass) ==
    IF entry.encrypted THEN EncryptWith(pass, entry.salt, file) ELSE file

\* verify: with a passphrase for what is encrypted, the proof of what was sent is
\* that of the file as it would be sent.
Proves(file, entry, pass) ==
    /\ entry.encrypted => pass # NoPass
    /\ Resealed(file, entry, pass) = entry.bytes

(***************************************************************************)
(* One file and its last backup.                                           *)
(***************************************************************************)
Plain == {[seals |-> <<>>, file |-> f] : f \in File}

EnvelopeInit ==
    /\ payload \in Plain
    /\ \E pass \in MaybePass, salt \in Salt : upload = Backup(payload, pass, salt)

BackupFile ==
    /\ \E pass \in MaybePass, salt \in Salt :
         /\ pass = NoPass \/ Len(payload.seals) < MaxSeals
         /\ upload' = Backup(payload, pass, salt)
    /\ UNCHANGED payload

\* The output of a restore goes over the file.
RestoreFile ==
    /\ \E pass \in MaybePass :
         LET out == Restore(upload.bytes, pass) IN out.ok /\ payload' = out.bytes
    /\ UNCHANGED upload

\* A download of the stored bytes, or another content, takes the file's place.
ReplaceFile ==
    /\ payload' \in Plain \cup {upload.bytes}
    /\ UNCHANGED upload

EnvelopeNext == BackupFile \/ RestoreFile \/ ReplaceFile

EnvelopeSpec == EnvelopeInit /\ [][EnvelopeNext]_envelopeVars

(***************************************************************************)
(* Properties.                                                             *)
(***************************************************************************)
\* A restore of a sealed backup with any passphrase, or none, gives the file back
\* exactly as it was backed up, also when that was an envelope itself, or gives
\* nothing.  So it is with a file sent as it is that does not begin like one.
RestoreUndoesBackup ==
    upload.pass # NoPass \/ ~IsEnvelope(upload.of) =>
        \A other \in MaybePass :
            LET out == Restore(upload.bytes, other) IN out.ok => out.bytes = upload.of

\* With the passphrase of the backup, and no other, it is restored, and it is
\* proved as long as the file is what was backed up: whoever has changed neither
\* is not told that the provider failed, whatever the file was in between.
SamePassphraseSucceeds ==
    upload.pass # NoPass =>
        \A other \in MaybePass :
            /\ Restore(upload.bytes, other).ok <=> other = upload.pass
            /\ Proves(payload, upload, other) <=> other = upload.pass /\ payload = upload.of
=============================================================================
