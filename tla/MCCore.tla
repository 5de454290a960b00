-------------------------------- MODULE MCCore --------------------------------
(***************************************************************************)
(* An instance for TLC of what pivss-core computes: proofs of storage in   *)
(* the rounds of a watch, the torrent of each file that is watched, and    *)
(* the envelopes of a file.  A watch does not look into an envelope: TLC   *)
(* explores the one part or the other.                                     *)
(***************************************************************************)
EXTENDS ProofOfStorage, Envelope, Torrent

VARIABLE part

TrackerLists == {<<>>, <<"t1">>, <<"t1", "t2">>}

\* A range of a file of any length, and one whose sum is past the last u64.
OddRanges == {[offset |-> 0, length |-> 1], [offset |-> 1, length |-> Word - 1]}

\* The file of a watch; its envelopes are not looked into.
Watched == Backup(CHOOSE file \in Plain : TRUE, NoPass, CHOOSE salt \in Salt : TRUE)

CoreInit ==
    /\ WatchInit
    /\ EnvelopeInit
    /\ \/ part = "watch" /\ payload = Watched.of /\ upload = Watched
       \/ part = "envelope" /\ local = <<>>

CoreNext ==
    /\ \/ part = "watch" /\ WatchNext /\ UNCHANGED envelopeVars
       \/ part = "envelope" /\ EnvelopeNext /\ UNCHANGED watchVars
    /\ UNCHANGED part

CoreSpec == CoreInit /\ [][CoreNext]_<<watchVars, envelopeVars, part>>
=============================================================================
