------------------------------- MODULE Torrent -------------------------------
(***************************************************************************)
(* `create_torrent` (torrent.rs): the metainfo by which a seeder offers a  *)
(* version of a backup and a downloader checks what it gets.  A dictionary *)
(* is the list of its keys and values, as they are encoded; the encoding   *)
(* itself, which loses nothing, is left out.  A SHA-1 is the bytes it is   *)
(* of.                                                                     *)
(***************************************************************************)
EXTENDS ProofOfStorage, SequencesExt

CONSTANTS Trackers,     \* lists of trackers, as they may be configured
          PieceLength   \* bytes per piece (256 KiB in the code)

ASSUME PieceLengthAssumption == PieceLength \in Nat \ {0}

\* Bug: a last piece that is not full is left out.
Chunks_Fault(data) ==
    [i \in 1 .. Len(data) \div PieceLength |->
        SubSeq(data, (i - 1) * PieceLength + 1, i * PieceLength)]

\* data.chunks(PIECE_LENGTH): full pieces, then what is left.
Chunks(data) ==
    [i \in 1 .. (Len(data) + PieceLength - 1) \div PieceLength |->
        SubSeq(data, (i - 1) * PieceLength + 1,
               IF i * PieceLength < Len(data) THEN i * PieceLength ELSE Len(data))]

\* The hash of each piece; an empty file has the hash of nothing.
PieceHashes(data) == IF data = <<>> THEN <<<<>>>> ELSE Chunks(data)

Pair(key, value) == [key |-> key, value |-> value]

Info(data) ==
    <<Pair("length", Len(data)), Pair("name", "the file's"),
      Pair("piece length", PieceLength), Pair("pieces", PieceHashes(data))>>

\* The trackers first, if any: the first one, then each as a tier of its own.
Metainfo(data, trackers) ==
    (IF trackers = <<>> THEN <<>>
     ELSE <<Pair("announce", Head(trackers)),
            Pair("announce-list", [i \in DOMAIN trackers |-> <<trackers[i]>>])>>)
      \o <<Pair("created by", "pivss"), Pair("info", Info(data))>>

(***************************************************************************)
(* The property, of any bytes and of those a provider has stored.          *)
(***************************************************************************)
KeyOrder == <<"announce", "announce-list", "created by", "info",
              "length", "name", "piece length", "pieces">>
Ordered(dict) ==
    \A i, j \in DOMAIN dict : i < j =>
        \E k, l \in DOMAIN KeyOrder : k < l /\ KeyOrder[k] = dict[i].key /\ KeyOrder[l] = dict[j].key

\* Byte k is where a downloader looks for it; the pieces are full, and the last
\* one has what is left: something, unless the file is empty.
CoveredBy(data, pieces) ==
    LET n == Len(pieces)
        left == Len(data) - (n - 1) * PieceLength
    IN  /\ n > 0
        /\ \A i \in 1 .. n : Len(pieces[i]) = IF i < n THEN PieceLength ELSE left
        /\ left <= PieceLength /\ (left = 0 => data = <<>>)
        /\ \A k \in 1 .. Len(data) :
             pieces[((k - 1) \div PieceLength) + 1][((k - 1) % PieceLength) + 1] = data[k]

\* "Keys must be inserted in lexicographic order by the caller" (torrent.rs:31):
\* else a reader that encodes the dictionary again gets another infohash.  And a
\* downloader can check every byte of a file, the last ones too: piece i has the
\* i-th hash, whether the file ends on a piece or not, or is empty.
Describes(data) ==
    \A trackers \in Trackers :
        LET top == Metainfo(data, trackers)
            info == Last(top).value
        IN  /\ Ordered(top) /\ Ordered(info)
            /\ info[1].value = Len(data)
            /\ CoveredBy(data, info[4].value)

\* Before the first range is chosen of what the provider has stored, whatever
\* it is: the torrent made of it (create_torrent) describes it.
MetainfoDescribesFile ==
    round = 1 /\ stage = "challenge" /\ ranges = <<>> => Describes(stored)
=============================================================================
