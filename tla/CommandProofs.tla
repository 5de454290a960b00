--------------------------- MODULE CommandProofs ---------------------------
(***************************************************************************)
(* Proofs about what the commands of pivss-client compute and find.        *)
(*                                                                         *)
(* ProofOfStorage (watch), for files, prices and words of any size: ranges *)
(* stay inside the file, a round is paid only if the bytes were there in   *)
(* it, and what it pays covers the price.                                  *)
(*                                                                         *)
(* Torrent (the seeder, of what a provider stores), for bytes of any       *)
(* length, any trackers and pieces of any size: the metainfo has its keys  *)
(* in order and every byte under the hash of its piece.                    *)
(*                                                                         *)
(* Envelope (backup, restore), for files under any number of seals, and    *)
(* any passphrases and salts: a restore gives back what was backed up, and *)
(* the passphrase alone decides whether it does.                           *)
(*                                                                         *)
(* Discovery (discover), for any providers, requests, relays and stray     *)
(* events: the newest signed event of a key wins, what a relay had         *)
(* accepted is found, and nothing is shown that was not announced.         *)
(***************************************************************************)
EXTENDS ProofOfStorage, Torrent, Envelope, Discovery, SequenceTheorems,
        FiniteSetTheorems, TLAPS

-----------------------------------------------------------------------------
(* Arithmetic.                                                             *)

\* A number below the word does not wrap.
LEMMA NoWrap ==
    ASSUME NEW w \in Nat, NEW x \in Nat, x < w
    PROVE  x % w = x
  OBVIOUS

\* A wrapped number is a natural number.
LEMMA WrapNat ==
    ASSUME NEW w \in Nat \ {0}, NEW x \in Int
    PROVE  x % w \in Nat
  OBVIOUS

\* Rounding up reaches the size and overshoots it by less than a unit.
LEMMA CeilDivBounds ==
    ASSUME NEW i \in Nat, NEW j \in Nat \ {0}
    PROVE  /\ CeilDiv(i, j) \in Nat
           /\ CeilDiv(i, j) * j >= i
           /\ CeilDiv(i, j) * j < i + j
  BY DEF CeilDiv

\* A file is a sequence of at most MaxLen bytes.
LEMMA DataLen ==
    ASSUME NEW d \in Data
    PROVE  d \in Seq(Byte) /\ Len(d) \in 0 .. MaxLen
  BY LengthAssumption DEF Data

-----------------------------------------------------------------------------
(* Ranges.                                                                 *)

\* The ranges chosen so far end inside the client's file.
RangesFit ==
    /\ local \in Data
    /\ stored \in Data
    /\ ranges \in Seq([offset : Nat, length : Nat])
    /\ \A i \in DOMAIN ranges : ranges[i].offset + ranges[i].length <= Len(local)

\* A range drawn by make_challenge ends inside the file.
LEMMA DrawnRangeFits ==
    ASSUME NEW len \in Nat \ {0}, NEW length \in Lengths(len),
           NEW offset \in Offsets(len, length)
    PROVE  length \in Nat /\ offset \in Nat /\ offset + length <= len
<1>1. length \in 1 .. len
  BY LengthAssumption DEF Lengths, Smaller, Larger
<1>2. offset \in 0 .. len - length
  BY <1>1 DEF Offsets, Larger
<1>. QED
  BY <1>1, <1>2

\* RangesFit is inductive.
LEMMA RangesFitInvariance == WatchSpec => []RangesFit
<1>1. WatchInit => RangesFit
  BY DEF WatchInit, RangesFit
<1>2. ASSUME RangesFit, [WatchNext]_watchVars
      PROVE  RangesFit'
  <2>1. CASE Lose
    BY <2>1, <1>2 DEF Lose, RangesFit
  <2>2. CASE MakeRange
    <3>1. PICK length \in Lengths(Len(local)) : \E offset \in Offsets(Len(local), length) :
            ranges' = Append(ranges, [offset |-> offset, length |-> length])
      BY <2>2 DEF MakeRange
    <3>2. PICK offset \in Offsets(Len(local), length) :
            ranges' = Append(ranges, [offset |-> offset, length |-> length])
      BY <3>1
    <3>3. Len(local) \in Nat \ {0}
      <4>1. local \in Seq(Byte) /\ local # <<>>
        BY <2>2, <1>2, DataLen DEF MakeRange, RangesFit
      <4>. QED
        BY <4>1
    <3>4. length \in Nat /\ offset \in Nat /\ offset + length <= Len(local)
      BY <3>3, DrawnRangeFits
    <3>5. [offset |-> offset, length |-> length] \in [offset : Nat, length : Nat]
      BY <3>4
    <3>6. ranges' \in Seq([offset : Nat, length : Nat])
      BY <3>2, <3>5, <1>2 DEF RangesFit
    <3>7. \A i \in DOMAIN ranges' : ranges'[i].offset + ranges'[i].length <= Len(local)
      <4>. SUFFICES ASSUME NEW i \in DOMAIN ranges'
                    PROVE  ranges'[i].offset + ranges'[i].length <= Len(local)
        OBVIOUS
      <4>1. CASE i \in DOMAIN ranges
        BY <4>1, <3>2, <1>2 DEF RangesFit
      <4>2. CASE i \notin DOMAIN ranges
        <5>1. ranges'[i] = [offset |-> offset, length |-> length]
          BY <4>2, <3>2, <1>2 DEF RangesFit
        <5>. QED
          BY <5>1, <3>4
      <4>. QED
        BY <4>1, <4>2
    <3>. QED
      BY <3>6, <3>7, <2>2, <1>2 DEF MakeRange, RangesFit
  <2>3. CASE NextRound
    BY <2>3, <1>2 DEF NextRound, RangesFit
  <2>4. CASE UNCHANGED <<local, stored, ranges>>
    BY <2>4, <1>2 DEF RangesFit
  <2>. QED
    BY <1>2, <2>1, <2>2, <2>3, <2>4
    DEF WatchNext, watchVars, SendChallenge, Answer, AnswerOther, Replay, VerifyError, Settle
<1>. QED
  BY <1>1, <1>2, PTL DEF WatchSpec

\* Ranges stay inside the client's file, and no slice of what the provider has
\* ends before it starts (proof.rs:80-84).
THEOREM RangesStayInFile == WatchSpec => []RangesInFile
<1>1. RangesFit => RangesInFile
  <2>. SUFFICES ASSUME RangesFit, NEW i \in DOMAIN ranges
                PROVE  LET r == ranges[i] IN
                       /\ r.offset + r.length <= Len(local)
                       /\ HasSlice(stored, r)
    BY DEF RangesInFile
  <2>1. ranges[i] \in [offset : Nat, length : Nat]
    <3>1. ranges \in Seq([offset : Nat, length : Nat])
      BY DEF RangesFit
    <3>2. i \in 1 .. Len(ranges)
      BY <3>1
    <3>. QED
      BY <3>1, <3>2, ElementOfSeq
  <2>2. ranges[i].offset + ranges[i].length <= Len(local)
    BY DEF RangesFit
  <2>3. Len(local) \in 0 .. MaxLen /\ Len(stored) \in 0 .. MaxLen
    BY DataLen DEF RangesFit
  <2>4. (ranges[i].offset + ranges[i].length) % Word = ranges[i].offset + ranges[i].length
    BY <2>1, <2>2, <2>3, NoWrap, LengthAssumption, PriceAssumption
  <2>. QED
    BY <2>1, <2>2, <2>3, <2>4 DEF HasSlice, SliceStart, SliceEnd, Smaller
<1>. QED
  BY <1>1, RangesFitInvariance, PTL

-----------------------------------------------------------------------------
(* Payments.                                                               *)

\* What the provider can show rests on what it had: each proof it ever gave of
\* the client's bytes has the nonce of a round in which it had them, or that of
\* another caller, and only the former check out.
PaidHonestly ==
    /\ round \in Nat \ {0}
    /\ price \in Nat
    /\ local \in Data
    /\ paid \in [1 .. Rounds -> Nat]
    /\ \A p \in given : p = [nonce |-> p.nonce, full |-> p.full, parts |-> p.parts]
    /\ \A p \in given : \A n \in Nat \ {0} : p.full = <<n, local>> => n \in had
    /\ stage = "answered" /\ proof.full = <<round, local>> => round \in had
    /\ PaidOnlyIfStored

\* A quote, and the amount paid of it, are natural numbers.
LEMMA AmountNat ==
    ASSUME NEW d \in Data, NEW p \in Nat
    PROVE  QuoteMsat(Len(d), p) \in Nat /\ AmountSat(QuoteMsat(Len(d), p)) \in Nat
<1>1. Word \in Nat \ {0} /\ MiB \in Nat \ {0}
  BY LengthAssumption, PriceAssumption
<1>2. Len(d) \in Nat
  BY DataLen, LengthAssumption
<1> DEFINE units == Larger(CeilDiv(Len(d), MiB), 1)
<1>3. units \in Nat
  BY <1>1, <1>2, CeilDivBounds DEF Larger
<1>4. ASSUME NEW q \in Nat
      PROVE  (q * p * 1000) % Word \in Nat
  <2>1. q * p * 1000 \in Int
    OBVIOUS
  <2>. QED
    BY <1>1, <2>1, WrapNat
<1>5. QuoteMsat(Len(d), p) \in Nat
  <2>1. QuoteMsat(Len(d), p) = (units * p * 1000) % Word
    BY DEF QuoteMsat
  <2>. HIDE DEF units
  <2>. QED
    BY <1>3, <1>4, <2>1
<1>6. CeilDiv(QuoteMsat(Len(d), p), 1000) \in Nat
  BY <1>5, CeilDivBounds
<1>. QED
  BY <1>5, <1>6 DEF AmountSat, Larger

\* PaidHonestly is inductive.
LEMMA PaidHonestlyInvariance == WatchSpec => []PaidHonestly
<1>1. WatchInit => PaidHonestly
  BY PriceAssumption, RoundsAssumption DEF WatchInit, PaidHonestly, PaidOnlyIfStored
<1>2. ASSUME PaidHonestly, [WatchNext]_watchVars
      PROVE  PaidHonestly'
  <2>1. CASE Answer
    <3> DEFINE new == Proof(round, ranges, stored)
    <3>1. new.full = <<round, stored>>
          /\ new = [nonce |-> new.nonce, full |-> new.full, parts |-> new.parts]
      BY DEF Proof
    <3>2. had \subseteq had' /\ (stored = local => round \in had')
      BY <2>1 DEF Answer
    <3>3. \A n \in Nat \ {0} : new.full = <<n, local>> => n \in had'
      BY <3>1, <3>2
    <3>4. given' = given \cup {new} /\ proof' = new
      BY <2>1 DEF Answer
    <3>5. UNCHANGED <<round, price, local, paid>>
      BY <2>1 DEF Answer
    <3>. HIDE DEF new
    <3>6. \A p \in given' : \A n \in Nat \ {0} : p.full = <<n, local>> => n \in had'
      BY <3>2, <3>3, <3>4, <1>2 DEF PaidHonestly
    <3>7. \A p \in given' : p = [nonce |-> p.nonce, full |-> p.full, parts |-> p.parts]
      BY <3>1, <3>4, <1>2 DEF PaidHonestly
    <3>8. proof'.full = <<round, local>> => round \in had'
      BY <3>3, <3>4, <1>2 DEF PaidHonestly
    <3>9. PaidOnlyIfStored'
      BY <3>2, <3>5, <1>2 DEF PaidHonestly, PaidOnlyIfStored
    <3>. QED
      BY <3>5, <3>6, <3>7, <3>8, <3>9, <1>2 DEF PaidHonestly
  <2>2. CASE Replay
    <3>1. PICK p \in given : proof' \in {p, [p EXCEPT !.nonce = round]}
      BY <2>2, Zenon DEF Replay
    <3>2. proof'.full = p.full
      <4> DEFINE q == [nonce |-> p.nonce, full |-> p.full, parts |-> p.parts]
      <4>1. p = q
        BY <1>2 DEF PaidHonestly
      <4>2. [q EXCEPT !.nonce = round].full = q.full
        OBVIOUS
      <4>3. [p EXCEPT !.nonce = round].full = p.full
        BY <4>1, <4>2, Zenon
      <4>. QED
        BY <3>1, <4>3, Zenon
    <3>3. UNCHANGED <<round, price, local, given, had, paid>>
      BY <2>2, Zenon DEF Replay
    <3>. QED
      BY <3>2, <3>3, <1>2 DEF PaidHonestly, PaidOnlyIfStored
  <2>3. CASE Settle
    <3>1. UNCHANGED <<round, price, local, given, had>> /\ stage' = "sleep" /\ stage = "answered"
      BY <2>3 DEF Settle
    <3>2. CASE Verifies(round, ranges, local, proof)
      <4>1. round \in had
        BY <3>1, <3>2, <1>2 DEF PaidHonestly, Verifies, Proof
      <4>2. PICK amount \in Nat : paid' = paid \/ paid' = [paid EXCEPT ![round] = amount]
        <5>1. AmountSat(QuoteMsat(Len(local), price)) \in Nat
          BY <1>2, AmountNat DEF PaidHonestly
        <5>. QED
          BY <5>1, <3>2, <2>3 DEF Settle
      <4>3. paid' \in [1 .. Rounds -> Nat]
        BY <4>2, <1>2 DEF PaidHonestly
      <4>4. PaidOnlyIfStored'
        BY <4>1, <4>2, <3>1, <1>2 DEF PaidHonestly, PaidOnlyIfStored
      <4>. QED
        BY <4>3, <4>4, <3>1, <1>2 DEF PaidHonestly
    <3>3. CASE ~Verifies(round, ranges, local, proof)
      <4>1. paid' = paid
        BY <3>3, <2>3 DEF Settle
      <4>. QED
        BY <4>1, <3>1, <1>2 DEF PaidHonestly, PaidOnlyIfStored
    <3>. QED
      BY <3>2, <3>3
  <2>4. CASE NextRound
    BY <2>4, <1>2 DEF NextRound, PaidHonestly, PaidOnlyIfStored
  <2>5. CASE SendChallenge \/ VerifyError
    BY <2>5, <1>2 DEF SendChallenge, VerifyError, PaidHonestly, PaidOnlyIfStored
  <2>6. CASE MakeRange \/ Lose \/ UNCHANGED watchVars
    <3>1. UNCHANGED <<round, price, local, given, had, paid, stage, proof>>
      BY <2>6 DEF MakeRange, Lose, watchVars
    <3>. QED
      BY <3>1, <1>2 DEF PaidHonestly, PaidOnlyIfStored
  <2>7. CASE AnswerOther
    <3>1. UNCHANGED <<round, price, local, had, paid, stage, proof>>
      BY <2>7, Zenon DEF AnswerOther
    <3>2. PICK r \in OtherRanges : given' = given \cup {Proof(0, <<r>>, stored)}
      BY <2>7, Zenon DEF AnswerOther
    <3> DEFINE new == Proof(0, <<r>>, stored)
    <3>3. new.full = <<0, stored>>
          /\ new = [nonce |-> new.nonce, full |-> new.full, parts |-> new.parts]
      BY DEF Proof
    <3>4. \A n \in Nat \ {0} : new.full # <<n, local>>
      BY <3>3
    <3>. HIDE DEF new
    <3>5. \A p \in given' : p \in given \/ p = new
      BY <3>2 DEF new
    <3>. QED
      BY <3>1, <3>3, <3>4, <3>5, <1>2 DEF PaidHonestly, PaidOnlyIfStored
  <2>. QED
    BY <1>2, <2>1, <2>2, <2>3, <2>4, <2>5, <2>6, <2>7, Zenon DEF WatchNext
<1>. QED
  BY <1>1, <1>2, PTL DEF WatchSpec

\* A round is paid only if the provider had the bytes in that round
\* (proof.rs:12-13), however often it repeats the proofs it gave before.
THEOREM PaidMeansStored == WatchSpec => []PaidOnlyIfStored
<1>1. PaidHonestly => PaidOnlyIfStored
  BY DEF PaidHonestly
<1>. QED
  BY <1>1, PaidHonestlyInvariance, PTL

-----------------------------------------------------------------------------
(* Prices.                                                                 *)

\* Products keep a strict order, and a common factor can be taken out of one.
LEMMA Products ==
    ASSUME NEW i \in Nat, NEW j \in Nat, NEW k \in Nat \ {0}
    PROVE  /\ i < j <=> i * k < j * k
           /\ i <= j <=> i * k <= j * k
  OBVIOUS

\* Whole sats, turned into msats and back.
LEMMA AmountOfWholeSats ==
    ASSUME NEW i \in Nat \ {0}
    PROVE  AmountSat(i * 1000) = i
  BY DEF AmountSat, CeilDiv, Larger

\* What is paid for u units of a price whose quote does not wrap.
LEMMA AmountOfUnits ==
    ASSUME NEW u \in Nat \ {0}, NEW p \in Nat \ {0}, u * p * 1000 < Word
    PROVE  AmountSat((u * p * 1000) % Word) = u * p
<1> DEFINE i == u * p
<1>1. i \in Nat \ {0}
  OBVIOUS
<1>2. (i * 1000) % Word = i * 1000
  <2>1. i * 1000 \in Nat /\ i * 1000 < Word
    BY <1>1
  <2>. QED
    BY <2>1, NoWrap, PriceAssumption
<1>. QED
  BY <1>1, <1>2, AmountOfWholeSats

\* The price of a file: at least its share of the price per MiB, and less than
\* that of one more MiB, or the price of the first MiB.
LEMMA AmountCoversPrice ==
    ASSUME NEW len \in Nat, NEW p \in Nat \ {0},
           (len + MiB) * p * 1000 < Word * MiB
    PROVE  LET amount == AmountSat(QuoteMsat(len, p)) IN
           /\ amount * MiB >= len * p
           /\ amount * MiB < (len + MiB) * p \/ amount = p
<1> DEFINE q == CeilDiv(len, MiB)
           u == Larger(q, 1)
<1>1. MiB \in Nat \ {0} /\ Word \in Nat
  BY PriceAssumption
<1>2. q \in Nat /\ q * MiB >= len /\ q * MiB < len + MiB
  BY <1>1, CeilDivBounds
<1>3. u \in Nat \ {0} /\ u * MiB <= len + MiB /\ u * MiB >= len
      /\ (u * MiB < len + MiB \/ u = 1)
  BY <1>1, <1>2 DEF Larger
<1>4. QuoteMsat(len, p) = (u * p * 1000) % Word
  BY DEF QuoteMsat
<1>. HIDE DEF u
<1>5. u * p * 1000 < Word
  <2>1. (u * MiB) * (p * 1000) <= (len + MiB) * (p * 1000)
    BY <1>1, <1>3, Products
  <2>2. (u * p * 1000) * MiB < Word * MiB
    BY <1>1, <1>3, <2>1
  <2>3. u * p * 1000 \in Nat
    BY <1>3
  <2>. QED
    BY <1>1, <2>2, <2>3, Products
<1>6. AmountSat(QuoteMsat(len, p)) = u * p
  BY <1>3, <1>4, <1>5, AmountOfUnits
<1>7. (u * p) * MiB >= len * p
  <2>1. (u * MiB) * p >= len * p
    BY <1>1, <1>3, Products
  <2>. QED
    BY <1>1, <1>3, <2>1
<1>8. (u * p) * MiB < (len + MiB) * p \/ u * p = p
  <2>1. CASE u = 1
    BY <2>1
  <2>2. CASE u * MiB < len + MiB
    <3>1. (u * MiB) * p < (len + MiB) * p
      BY <1>1, <1>3, <2>2, Products
    <3>. QED
      BY <1>1, <1>3, <3>1
  <2>. QED
    BY <1>3, <2>1, <2>2
<1>. QED
  BY <1>6, <1>7, <1>8

\* What a round has paid is nothing, or the amount of the client's file.
PaidIsTheAmount ==
    /\ price \in Prices
    /\ \A n \in 1 .. Rounds :
         paid[n] \in {0, AmountSat(QuoteMsat(Len(local), price))}

\* PaidIsTheAmount is inductive, given PaidHonestly for the types.
LEMMA PaidIsTheAmountInvariance == WatchSpec => []PaidIsTheAmount
<1>1. WatchInit => PaidIsTheAmount
  BY DEF WatchInit, PaidIsTheAmount
<1>2. ASSUME PaidIsTheAmount, PaidHonestly, [WatchNext]_watchVars
      PROVE  PaidIsTheAmount'
  <2>1. UNCHANGED <<price, local>>
    BY <1>2, Zenon DEF WatchNext, watchVars, Lose, MakeRange, SendChallenge, Answer, AnswerOther,
                       Replay, VerifyError, Settle, NextRound
  <2> DEFINE amount == AmountSat(QuoteMsat(Len(local), price))
  <2>2. amount' = amount
    BY <2>1
  <2>3. paid' \in {paid, [paid EXCEPT ![round] = amount]}
    BY <1>2, Zenon DEF WatchNext, watchVars, Lose, MakeRange, SendChallenge, Answer, AnswerOther,
                       Replay, VerifyError, Settle, NextRound
  <2>4. paid \in [1 .. Rounds -> Nat]
    BY <1>2 DEF PaidHonestly
  <2>5. \A n \in 1 .. Rounds : paid[n] \in {0, amount}
    BY <1>2 DEF PaidIsTheAmount
  <2>. HIDE DEF amount
  <2>6. \A n \in 1 .. Rounds : paid'[n] \in {0, amount}
    BY <2>3, <2>4, <2>5
  <2>. QED
    BY <1>2, <2>1, <2>2, <2>6 DEF PaidIsTheAmount, amount
<1>. QED
  BY <1>1, <1>2, PaidHonestlyInvariance, PTL DEF WatchSpec

\* What a round pays is at least the price of the bytes, and no more than the
\* rounding up to a MiB makes of it (quote_msat and div_ceil in main.rs),
\* unless the quote has wrapped.
THEOREM PaymentsCoverPrice == WatchSpec => []PaymentCoversPrice
<1>1. PaidIsTheAmount /\ PaidHonestly => PaymentCoversPrice
  <2>. SUFFICES ASSUME PaidIsTheAmount, PaidHonestly, NEW n \in 1 .. Rounds,
                       paid[n] > 0, (Len(local) + MiB) * price * 1000 < Word * MiB
                PROVE  /\ paid[n] * MiB >= Len(local) * price
                       /\ paid[n] * MiB < (Len(local) + MiB) * price \/ paid[n] = price
    BY DEF PaymentCoversPrice
  <2>1. Len(local) \in Nat /\ price \in Nat \ {0}
    BY DataLen, LengthAssumption, PriceAssumption DEF PaidIsTheAmount, PaidHonestly
  <2>2. paid[n] = AmountSat(QuoteMsat(Len(local), price))
    BY DEF PaidIsTheAmount
  <2>. QED
    BY <2>1, <2>2, AmountCoversPrice
<1>. QED
  BY <1>1, PaidIsTheAmountInvariance, PaidHonestlyInvariance, PTL

-----------------------------------------------------------------------------
(* Envelope.                                                               *)

\* A payload is a file under a sequence of seals.
LEMMA PayloadType ==
    ASSUME NEW file \in Payload
    PROVE  /\ file.seals \in Seq(Seal) /\ file.file \in File
           /\ file = [seals |-> file.seals, file |-> file.file]
BY DEF Payload

\* One more seal is the first, and what it was put on is behind it.
LEMMA SealIsOutermost ==
    ASSUME NEW content \in Payload, NEW pass \in Pass, NEW salt \in Salt
    PROVE  LET bytes == EncryptWith(pass, salt, content)
           IN  /\ bytes.seals # <<>>
               /\ Head(bytes.seals) = [pass |-> pass, salt |-> salt]
               /\ Decrypt(bytes) = content
<1> DEFINE seal == [pass |-> pass, salt |-> salt]
           seals == <<seal>> \o content.seals
<1>1. seal \in Seal /\ content.seals \in Seq(Seal)
  BY PayloadType DEF Seal
<1> HIDE DEF seal
<1>2. seals # <<>> /\ Head(seals) = seal /\ Tail(seals) = content.seals
  <2>1. /\ seals \in Seq(Seal) /\ Len(seals) = 1 + Len(content.seals) /\ seals[1] = seal
        /\ \A i \in 1 .. Len(content.seals) : seals[i + 1] = content.seals[i]
    BY <1>1
  <2>2. seals # <<>> /\ Head(seals) = seal
    BY <1>1, <2>1
  <2>3. /\ Tail(seals) \in Seq(Seal) /\ Len(Tail(seals)) = Len(content.seals)
        /\ \A i \in 1 .. Len(content.seals) : Tail(seals)[i] = content.seals[i]
    BY <1>1, <2>1
  <2>4. Tail(seals) = content.seals
    BY <1>1, <2>3
  <2> QED
    BY <2>2, <2>4
<1>3. EncryptWith(pass, salt, content) = [seals |-> seals, file |-> content.file]
  BY DEF EncryptWith, seal
<1> HIDE DEF seals
<1>4. Decrypt(EncryptWith(pass, salt, content)) = [seals |-> content.seals, file |-> content.file]
  <2> DEFINE bytes == EncryptWith(pass, salt, content)
  <2>1. bytes.seals = seals /\ bytes.file = content.file
    BY <1>3
  <2> HIDE DEF bytes
  <2>2. Tail(bytes.seals) = content.seals
    BY <1>2, <2>1, Zenon
  <2>3. Decrypt(bytes) = [seals |-> content.seals, file |-> content.file]
    BY <2>1, <2>2, Zenon DEF Decrypt
  <2> QED
    BY <2>3 DEF bytes
<1> QED
  BY <1>2, <1>3, <1>4, PayloadType DEF seal

\* Only the passphrase of a sealed backup restores it, and it restores the file.
LEMMA SealedRestore ==
    ASSUME NEW content \in Payload, NEW pass \in Pass, NEW salt \in Salt, NEW other \in MaybePass
    PROVE  LET out == Restore(Backup(content, pass, salt).bytes, other)
           IN  /\ out.ok <=> other = pass
               /\ out.ok => out.bytes = content
<1> DEFINE bytes == EncryptWith(pass, salt, content)
<1>1. Backup(content, pass, salt).bytes = bytes
  BY PassAssumption DEF Backup
<1>2. /\ bytes.seals # <<>> /\ Head(bytes.seals).pass = pass /\ Decrypt(bytes) = content
  <2>1. [pass |-> pass, salt |-> salt].pass = pass
    OBVIOUS
  <2> HIDE DEF bytes
  <2>2. /\ bytes.seals # <<>> /\ Head(bytes.seals) = [pass |-> pass, salt |-> salt]
        /\ Decrypt(bytes) = content
    BY SealIsOutermost, Zenon DEF bytes
  <2> QED
    BY <2>1, <2>2, Zenon
<1> HIDE DEF bytes
<1>3. IsEnvelope(bytes) /\ (Opens(other, bytes) <=> other = pass)
  BY <1>2 DEF IsEnvelope, Opens
<1>4. CASE other = pass
  <2>1. Restore(bytes, other) = Success(content)
    BY <1>2, <1>3, <1>4 DEF Restore
  <2> QED
    BY <1>1, <1>4, <2>1 DEF Success
<1>5. CASE other # pass
  <2>1. Restore(bytes, other) = Failure
    BY <1>3, <1>5 DEF Restore
  <2> QED
    BY <1>1, <1>5, <2>1 DEF Failure
<1> QED
  BY <1>4, <1>5

\* A file sealed is a payload, and so is what a restore takes out of one.
LEMMA SealedIsPayload ==
    ASSUME NEW content \in Payload, NEW pass \in Pass, NEW salt \in Salt
    PROVE  EncryptWith(pass, salt, content) \in Payload
<1>1. [pass |-> pass, salt |-> salt] \in Seal
  BY DEF Seal
<1>2. <<[pass |-> pass, salt |-> salt]>> \o content.seals \in Seq(Seal)
  BY <1>1, PayloadType
<1> QED
  BY <1>2, PayloadType DEF EncryptWith, Payload

LEMMA RestoredIsPayload ==
    ASSUME NEW bytes \in Payload, NEW pass, Restore(bytes, pass).ok
    PROVE  Restore(bytes, pass).bytes \in Payload
<1>1. CASE ~IsEnvelope(bytes)
  BY <1>1 DEF Restore, Success
<1>2. CASE IsEnvelope(bytes)
  <2>1. Opens(pass, bytes)
    BY <1>2 DEF Restore, Failure
  <2>2. Restore(bytes, pass) = Success(Decrypt(bytes))
    BY <1>2, <2>1 DEF Restore
  <2>3. bytes.seals \in Seq(Seal) /\ bytes.seals # <<>>
    BY <2>1, PayloadType DEF Opens
  <2>4. Tail(bytes.seals) \in Seq(Seal)
    BY <2>3
  <2> QED
    BY <2>2, <2>4, PayloadType DEF Success, Decrypt, Payload
<1> QED
  BY <1>1, <1>2

LEMMA PlainIsPayload == Plain \subseteq Payload
<1> SUFFICES ASSUME NEW f \in File PROVE [seals |-> <<>>, file |-> f] \in Payload
  BY DEF Plain
<1>1. <<>> \in Seq(Seal)
  OBVIOUS
<1> QED
  BY <1>1 DEF Payload

(***************************************************************************)
(* The file and its last backup.                                           *)
(***************************************************************************)
\* The upload is what a backup made of some file.
EnvelopeInv ==
    /\ payload \in Payload
    /\ \E content \in Payload, pass \in MaybePass, salt \in Salt :
         upload = Backup(content, pass, salt)

LEMMA BackupFields ==
    ASSUME NEW content, NEW pass, NEW salt, upload = Backup(content, pass, salt)
    PROVE  /\ upload.of = content /\ upload.pass = pass /\ upload.salt = salt
           /\ upload.encrypted = (pass # NoPass)
           /\ upload.bytes = IF pass = NoPass THEN content ELSE EncryptWith(pass, salt, content)
BY DEF Backup

LEMMA UploadIsPayload == EnvelopeInv => upload.bytes \in Payload
<1> SUFFICES ASSUME EnvelopeInv PROVE upload.bytes \in Payload
  OBVIOUS
<1>1. PICK content \in Payload, pass \in MaybePass, salt \in Salt :
         upload = Backup(content, pass, salt)
  BY DEF EnvelopeInv
<1> QED
  BY <1>1, BackupFields, SealedIsPayload DEF MaybePass

LEMMA EnvelopeInvariance == EnvelopeSpec => []EnvelopeInv
<1>1. EnvelopeInit => EnvelopeInv
  BY PlainIsPayload DEF EnvelopeInit, EnvelopeInv
<1>2. EnvelopeInv /\ [EnvelopeNext]_envelopeVars => EnvelopeInv'
  <2> SUFFICES ASSUME EnvelopeInv, [EnvelopeNext]_envelopeVars PROVE EnvelopeInv'
    OBVIOUS
  <2>1. CASE BackupFile
    BY <2>1 DEF BackupFile, EnvelopeInv, Backup
  <2>2. CASE RestoreFile
    <3>1. payload' \in Payload
      BY <2>2, UploadIsPayload, RestoredIsPayload DEF RestoreFile
    <3> QED
      BY <2>2, <3>1 DEF RestoreFile, EnvelopeInv, Backup
  <2>3. CASE ReplaceFile
    <3>1. payload' \in Payload
      BY <2>3, UploadIsPayload, PlainIsPayload DEF ReplaceFile
    <3> QED
      BY <2>3, <3>1 DEF ReplaceFile, EnvelopeInv, Backup
  <2>4. CASE UNCHANGED envelopeVars
    BY <2>4 DEF envelopeVars, EnvelopeInv, Backup
  <2> QED
    BY <2>1, <2>2, <2>3, <2>4 DEF EnvelopeNext
<1> QED
  BY <1>1, <1>2, PTL DEF EnvelopeSpec

\* A restore of a sealed backup with any passphrase gives the file back as it was
\* backed up, or nothing, and so does one of a file that was sent as it is.
THEOREM RestoreIsExact == EnvelopeSpec => []RestoreUndoesBackup
<1>1. EnvelopeInv => RestoreUndoesBackup
  <2> SUFFICES ASSUME EnvelopeInv, upload.pass # NoPass \/ ~IsEnvelope(upload.of),
                      NEW other \in MaybePass, Restore(upload.bytes, other).ok
               PROVE  Restore(upload.bytes, other).bytes = upload.of
    BY DEF RestoreUndoesBackup
  <2>1. PICK content \in Payload, pass \in MaybePass, salt \in Salt :
           upload = Backup(content, pass, salt)
    BY DEF EnvelopeInv
  <2>2. upload.of = content /\ upload.pass = pass
    BY <2>1, BackupFields
  <2>3. CASE pass # NoPass
    <3>1. pass \in Pass
      BY <2>3 DEF MaybePass
    <3> QED
      BY <2>1, <2>2, <3>1, SealedRestore
  <2>4. CASE pass = NoPass
    <3>1. upload.bytes = content
      BY <2>1, <2>4, BackupFields
    <3>2. Restore(content, other) = Success(content)
      BY <2>2, <2>4 DEF Restore
    <3> QED
      BY <2>2, <3>1, <3>2 DEF Success
  <2> QED
    BY <2>3, <2>4
<1> QED
  BY <1>1, EnvelopeInvariance, PTL

\* The passphrase of a sealed backup, and no other, restores it, and proves it as
\* long as the file is what was backed up.
THEOREM PassphraseDecides == EnvelopeSpec => []SamePassphraseSucceeds
<1>1. EnvelopeInv => SamePassphraseSucceeds
  <2> SUFFICES ASSUME EnvelopeInv, upload.pass # NoPass, NEW other \in MaybePass
               PROVE  /\ Restore(upload.bytes, other).ok <=> other = upload.pass
                      /\ Proves(payload, upload, other) <=>
                           other = upload.pass /\ payload = upload.of
    BY DEF SamePassphraseSucceeds
  <2>1. PICK content \in Payload, pass \in MaybePass, salt \in Salt :
           upload = Backup(content, pass, salt)
    BY DEF EnvelopeInv
  <2>2. /\ upload.of = content /\ upload.pass = pass /\ upload.salt = salt
        /\ upload.encrypted = (pass # NoPass)
        /\ upload.bytes = IF pass = NoPass THEN content ELSE EncryptWith(pass, salt, content)
    BY <2>1, BackupFields
  <2>3. /\ pass \in Pass /\ payload \in Payload
        /\ upload.encrypted /\ upload.bytes = EncryptWith(pass, salt, content)
    BY <2>2 DEF MaybePass, EnvelopeInv
  <2>4. Restore(upload.bytes, other).ok <=> other = upload.pass
    BY <2>1, <2>2, <2>3, SealedRestore
  <2>5. Proves(payload, upload, other) <=>
          other # NoPass /\ EncryptWith(other, salt, payload) = EncryptWith(pass, salt, content)
    BY <2>2, <2>3 DEF Proves, Resealed
  <2>6. ASSUME other \in Pass, EncryptWith(other, salt, payload) = EncryptWith(pass, salt, content)
        PROVE  other = pass /\ payload = content
    <3>1. [pass |-> other, salt |-> salt] = [pass |-> pass, salt |-> salt]
      BY <2>3, <2>6, SealIsOutermost
    <3> DEFINE mine == EncryptWith(other, salt, payload)
               theirs == EncryptWith(pass, salt, content)
    <3>2. Decrypt(mine) = payload /\ Decrypt(theirs) = content
      BY <2>3, <2>6, SealIsOutermost
    <3>3. mine = theirs
      BY <2>6
    <3> HIDE DEF mine, theirs
    <3>4. payload = content
      BY <3>2, <3>3, Zenon
    <3> QED
      BY <3>1, <3>4
  <2>7. Proves(payload, upload, other) <=> other = upload.pass /\ payload = upload.of
    BY <2>2, <2>3, <2>5, <2>6, PassAssumption DEF MaybePass
  <2> QED
    BY <2>4, <2>7
<1> QED
  BY <1>1, EnvelopeInvariance, PTL

-----------------------------------------------------------------------------
(* Discovery: what its steps keep.                                         *)

\* A request that publishes has a relay to publish to and a signed event of its provider.
RequestsSound ==
    \A a \in Request :
        /\ pc[a] # "idle" => event[a] \in Event /\ event[a].by = By[a]
        /\ pc[a] = "publish" => turn[a] <= Len(Relays) /\ event[a].signed
        /\ pc[a] \in {"idle", "sign"} => turn[a] = 1

\* An event that a request has signed.
Announced(e) ==
    \E a \in Request : By[a] = e.by /\ pc[a] \in {"publish", "done"} /\ event[a] = e

\* Signed events were announced, wherever they are.
EventsSound ==
    /\ \A r \in Relay : \A e \in held[r] : e.signed /\ Announced(e)
    /\ \A l \in late : l[2].signed /\ Announced(l[2])
    /\ \A e \in client.queue \cup client.read : e.signed => Announced(e)

AsNew(f, e) == f.by = e.by /\ f.at >= e.at

\* What a relay has accepted it still has, or something as new.
RelaysKeep ==
    \A r \in Relay : \A e \in acked[r] : \E f \in held[r] : AsNew(f, e)

\* What is owed of a relay that was queried has come, or something as new.
OwedSound ==
    \A o \in client.owed :
        /\ o[2] \in acked[o[1]]
        /\ \A i \in 1 .. Len(Relays) :
             i < client.turn /\ Relays[i] = o[1] =>
               \E f \in client.queue \cup client.read : f.signed /\ AsNew(f, o[2])

\* The discovery ends when all relays were queried and all answers were read.
ClientSound ==
    /\ client.queue # {} => client.pc = "query" /\ client.turn > 1
    /\ client.pc = "idle" => client.turn = 1 /\ client.owed = {}
    /\ client.pc = "done" => client.turn > Len(Relays)
    /\ client.pc # "done" => client.shown = <<>>
    /\ \A i \in DOMAIN client.shown : client.found[client.shown[i]] # NotFound

DInv ==
    TypeOK /\ RequestsSound /\ EventsSound /\ RelaysKeep /\ OwedSound /\ ClientSound
    /\ NewestIsKept
LEMMA InitDInv == Init => DInv
<1>. SUFFICES ASSUME Init PROVE DInv
  OBVIOUS
<1>1. Len(Relays) \in Nat
  BY RelaysAssumption
<1>2. client = [pc |-> "idle", turn |-> 1, queue |-> {},
                found |-> [p \in Provider |-> NotFound], shown |-> <<>>,
                owed |-> {}, read |-> {}]
  BY DEF Init
<1>3. TypeOK
  <2>1. NotFound \in [event : Event \cup {NoEvent}, seen : Seq(Relay)]
    <3>1. <<>> \in Seq(Relay)
      OBVIOUS
    <3>. QED
      BY <3>1 DEF NotFound
  <2>2. <<>> \in Seq(Provider)
    OBVIOUS
  <2>3. clock \in 0 .. MaxTime /\ terms \in [Provider -> 0 .. MaxTerms]
    BY BoundsAssumption DEF Init
  <2>. QED
    BY <1>1, <1>2, <2>1, <2>2, <2>3 DEF Init, TypeOK
<1>4. RequestsSound
  BY DEF Init, RequestsSound
<1>5. EventsSound /\ RelaysKeep
  BY <1>2 DEF Init, EventsSound, RelaysKeep
<1>6. OwedSound /\ ClientSound
  BY <1>2 DEF OwedSound, ClientSound
<1>7. NewestIsKept
  BY <1>2 DEF NewestIsKept
<1>. QED
  BY <1>3, <1>4, <1>5, <1>6, <1>7 DEF DInv

\* A relay that takes an event keeps, of each key, something as new as it had.
LEMMA RelayTakesEffect ==
    ASSUME TypeOK, NEW r \in Relay, NEW e \in Event, RelayTakes(r, e)
    PROVE  /\ held' \in [Relay -> SUBSET Event]
           /\ \A q \in Relay : \A f \in held'[q] : f \in held[q] \/ f = e
           /\ \A q \in Relay : \A f \in held[q] : \E g \in held'[q] : AsNew(g, f)
           /\ \E g \in held'[r] : AsNew(g, e)
<1> DEFINE rivals == {f \in held[r] : f.by = e.by}
<1>1. held \in [Relay -> SUBSET Event] /\ \A f \in Event : f.at \in Nat
  BY DEF TypeOK, Event
<1>2. CASE (\E f \in rivals : f.at >= e.at) /\ UNCHANGED held
  BY <1>1, <1>2 DEF AsNew
<1>3. CASE /\ \A f \in rivals : f.at <= e.at
           /\ held' = [held EXCEPT ![r] = (@ \ rivals) \cup {e}]
  <2>1. held'[r] = (held[r] \ rivals) \cup {e} /\ \A q \in Relay : q # r => held'[q] = held[q]
    BY <1>1, <1>3
  <2>2. held' \in [Relay -> SUBSET Event]
    BY <1>1, <1>3
  <2>3. \A f \in held[r] : \E g \in held'[r] : AsNew(g, f)
    BY <1>1, <1>3, <2>1 DEF AsNew
  <2>4. \A q \in Relay : \A f \in held[q] : \E g \in held'[q] : AsNew(g, f)
    <3>. SUFFICES ASSUME NEW q \in Relay, NEW f \in held[q]
                  PROVE  \E g \in held'[q] : AsNew(g, f)
      OBVIOUS
    <3>1. CASE q = r
      BY <2>3, <3>1
    <3>2. CASE q # r
      BY <1>1, <2>1, <3>2 DEF AsNew
    <3>. QED
      BY <3>1, <3>2
  <2>5. \E g \in held'[r] : AsNew(g, e)
    BY <1>1, <2>1 DEF AsNew
  <2>. QED
    BY <2>1, <2>2, <2>4, <2>5
<1>. QED
  BY <1>2, <1>3 DEF RelayTakes

\* An event that was announced stays announced.
LEMMA AnnouncedStays ==
    ASSUME TypeOK, Next, NEW e, Announced(e)
    PROVE  Announced(e)'
<1>1. PICK a \in Request : By[a] = e.by /\ pc[a] \in {"publish", "done"} /\ event[a] = e
  BY DEF Announced
<1>2. pc'[a] \in {"publish", "done"} /\ event'[a] = event[a]
  <2>1. CASE \E b \in Request : ReadTerms(b)
    BY <1>1, <2>1 DEF TypeOK, ReadTerms, GoTo
  <2>2. CASE \E b \in Request : Sign(b)
    BY <1>1, <2>2 DEF TypeOK, Sign, GoTo
  <2>3. CASE \E b \in Request : PublishAcked(b)
    BY <1>1, <2>3 DEF TypeOK, PublishAcked, NextTurn, GoTo
  <2>4. CASE \E b \in Request : PublishFailed(b)
    BY <1>1, <2>4 DEF TypeOK, PublishFailed, NextTurn, GoTo
  <2>5. CASE \E b \in Request : Drop(b)
    BY <1>1, <2>5 DEF TypeOK, Drop, GoTo
  <2>6. CASE UNCHANGED <<pc, event>>
    BY <1>1, <2>6
  <2>. QED
    BY <2>1, <2>2, <2>3, <2>4, <2>5, <2>6
    DEF Next, Tick, ChangeTerms, LateArrival, Discover, QueryFails, QueryAnswers, TakeEvent, Show
<1>. QED
  BY <1>1, <1>2 DEF Announced
-----------------------------------------------------------------------------
(* The requests.                                                           *)

RequestsTyped ==
    /\ clock \in 0 .. MaxTime
    /\ terms \in [Provider -> 0 .. MaxTerms]
    /\ pc \in [Request -> {"idle", "sign", "publish", "done"}]
    /\ event \in [Request -> Event \cup {NoEvent}]
    /\ turn \in [Request -> 1 .. Len(Relays) + 1]

LEMMA RelaysLen == Len(Relays) \in Nat /\ (Relays # <<>> => Len(Relays) >= 1)
BY RelaysAssumption

\* An event once it is signed.
LEMMA SignedEvent ==
    ASSUME NEW e \in Event, NEW t \in Nat
    PROVE  LET signed == [e EXCEPT !.at = t, !.signed = TRUE] IN
           signed \in Event /\ signed.by = e.by /\ signed.signed
BY DEF Event

\* A request has its event and its turn after each of its steps.
LEMMA RequestStep ==
    ASSUME RequestsTyped, RequestsSound, NEW a \in Request,
           ReadTerms(a) \/ Sign(a) \/ PublishAcked(a) \/ PublishFailed(a) \/ Drop(a)
    PROVE  RequestsTyped' /\ RequestsSound'
<1>0. Len(Relays) \in Nat /\ turn[a] \in 1 .. Len(Relays) + 1
  BY RelaysLen DEF RequestsTyped
<1>1. CASE ReadTerms(a)
  <2> DEFINE new == [by |-> By[a], at |-> 0, terms |-> terms[By[a]], signed |-> FALSE,
                     readable |-> a \notin Foreign]
  <2>1. new \in Event /\ new.by = By[a]
    BY ByAssumption, BoundsAssumption DEF RequestsTyped, Event
  <2>. HIDE DEF new
  <2>2. /\ event' = [event EXCEPT ![a] = new] /\ pc' = [pc EXCEPT ![a] = "sign"]
        /\ pc[a] = "idle"
        /\ UNCHANGED <<clock, terms, turn>>
    BY <1>1 DEF ReadTerms, GoTo, new
  <2>. QED
    BY <1>0, <2>1, <2>2 DEF RequestsTyped, RequestsSound
<1>2. CASE Sign(a)
  <2> DEFINE new == [event[a] EXCEPT !.at = clock, !.signed = TRUE]
             step == IF Relays = <<>> THEN "done" ELSE "publish"
  <2>1. event[a] \in Event /\ event[a].by = By[a] /\ pc[a] = "sign" /\ turn[a] = 1
    BY <1>2 DEF Sign, RequestsSound
  <2>2. new \in Event /\ new.by = By[a] /\ new.signed
    <3>1. clock \in Nat
      BY BoundsAssumption DEF RequestsTyped
    <3>. QED
      BY <2>1, <3>1, SignedEvent
  <2>3. event' = [event EXCEPT ![a] = new] /\ pc' = [pc EXCEPT ![a] = step]
        /\ UNCHANGED <<clock, terms, turn>>
    BY <1>2 DEF Sign, GoTo
  <2>. HIDE DEF new
  <2>. QED
    BY <1>0, <2>1, <2>2, <2>3, RelaysLen DEF RequestsTyped, RequestsSound
<1>3. CASE PublishAcked(a) \/ PublishFailed(a)
  <2>1. /\ pc[a] = "publish" /\ turn[a] <= Len(Relays)
        /\ turn' = [turn EXCEPT ![a] = turn[a] + 1]
        /\ pc' = [pc EXCEPT ![a] = IF turn[a] = Len(Relays) THEN "done" ELSE "publish"]
        /\ UNCHANGED <<clock, terms, event>>
    BY <1>3 DEF PublishAcked, PublishFailed, NextTurn, GoTo, RequestsSound
  <2>2. turn[a] + 1 \in 1 .. Len(Relays) + 1
    BY <1>0, <2>1
  <2>3. turn[a] # Len(Relays) => turn[a] + 1 <= Len(Relays)
    BY <1>0, <2>1
  <2>. QED
    BY <1>0, <2>1, <2>2, <2>3 DEF RequestsTyped, RequestsSound
<1>4. CASE Drop(a)
  BY <1>4 DEF Drop, GoTo, RequestsTyped, RequestsSound
<1>. QED
  BY <1>1, <1>2, <1>3, <1>4

LEMMA RequestsNext ==
    ASSUME DInv, Next
    PROVE  RequestsTyped' /\ RequestsSound'
<1>1. RequestsTyped /\ RequestsSound
  BY DEF DInv, TypeOK, RequestsTyped
<1>2. CASE Tick
  BY <1>1, <1>2, BoundsAssumption DEF Tick, RequestsTyped, RequestsSound
<1>3. CASE \E p \in Provider : ChangeTerms(p)
  BY <1>1, <1>3, BoundsAssumption DEF ChangeTerms, RequestsTyped, RequestsSound
<1>4. CASE UNCHANGED <<clock, terms, pc, event, turn>>
  BY <1>1, <1>4 DEF RequestsTyped, RequestsSound
<1>. QED
  BY <1>1, <1>2, <1>3, <1>4, RequestStep
  DEF Next, LateArrival, Discover, QueryFails, QueryAnswers, TakeEvent, Show

-----------------------------------------------------------------------------
(* The relays.                                                             *)

RelaysTyped ==
    /\ held \in [Relay -> SUBSET Event]
    /\ late \subseteq Relay \X Event
    /\ acked \in [Relay -> SUBSET Event]

RelayEventsSound ==
    /\ \A r \in Relay : \A e \in held[r] : e.signed /\ Announced(e)
    /\ \A l \in late : l[2].signed /\ Announced(l[2])

\* The event that a request publishes, and the relay it publishes to.
LEMMA Published ==
    ASSUME DInv, NEW a \in Request, pc[a] = "publish"
    PROVE  /\ event[a] \in Event /\ event[a].signed /\ Announced(event[a])
           /\ Relays[turn[a]] \in Relay
<1>1. event[a] \in Event /\ event[a].by = By[a] /\ event[a].signed /\ turn[a] <= Len(Relays)
  BY DEF DInv, RequestsSound
<1>2. turn[a] \in 1 .. Len(Relays)
  BY <1>1, RelaysLen DEF DInv, TypeOK
<1>3. Relays[turn[a]] \in Relay
  BY <1>2, RelaysAssumption DEF Relay, ToSet
<1>4. Announced(event[a])
  BY <1>1 DEF Announced
<1>. QED
  BY <1>1, <1>3, <1>4

\* What becomes of the events on relays and on their way.
LEMMA RelaysNext ==
    ASSUME DInv, Next
    PROVE  /\ RelaysTyped' /\ RelayEventsSound' /\ RelaysKeep'
           /\ \A r \in Relay : acked[r] \subseteq acked'[r]
<1>0. RelaysTyped /\ RelayEventsSound /\ RelaysKeep /\ TypeOK
  BY DEF DInv, TypeOK, RelaysTyped, EventsSound, RelayEventsSound
<1>1. \A e : Announced(e) => Announced(e)'
  BY <1>0, AnnouncedStays
<1>2. ASSUME NEW r \in Relay, NEW e \in Event, RelayTakes(r, e), e.signed, Announced(e),
             \A q \in Relay : acked'[q] \subseteq acked[q] \cup (IF q = r THEN {e} ELSE {})
      PROVE  /\ held' \in [Relay -> SUBSET Event]
             /\ \A q \in Relay : \A f \in held'[q] : f.signed /\ Announced(f)
             /\ RelaysKeep'
  <2>1. \A q \in Relay : \A f \in held'[q] : f.signed /\ Announced(f)
    BY <1>0, <1>2, RelayTakesEffect DEF RelayEventsSound
  <2>2. RelaysKeep'
    <3>. SUFFICES ASSUME NEW q \in Relay, NEW f \in acked'[q]
                  PROVE  \E g \in held'[q] : AsNew(g, f)
      BY DEF RelaysKeep, AsNew
    <3>1. CASE f \in acked[q]
      <4>1. PICK g \in held[q] : AsNew(g, f)
        BY <1>0, <3>1 DEF RelaysKeep
      <4>2. PICK h \in held'[q] : AsNew(h, g)
        BY <1>0, <1>2, RelayTakesEffect
      <4>3. f \in Event /\ g \in Event /\ h \in Event
        BY <1>0, <1>2, <3>1, RelayTakesEffect DEF RelaysTyped
      <4>. QED
        BY <4>1, <4>2, <4>3 DEF AsNew, Event
    <3>2. CASE f \notin acked[q]
      BY <1>0, <1>2, <3>2, RelayTakesEffect
    <3>. QED
      BY <3>1, <3>2
  <2>. QED
    BY <1>0, <1>2, <2>1, <2>2, RelayTakesEffect
<1>3. ASSUME NEW a \in Request, PublishAcked(a)
      PROVE  /\ RelaysTyped' /\ RelayEventsSound' /\ RelaysKeep'
             /\ \A r \in Relay : acked[r] \subseteq acked'[r]
  <2> DEFINE r == Relays[turn[a]]
             e == event[a]
  <2>1. r \in Relay /\ e \in Event /\ e.signed /\ Announced(e)
    BY <1>3, Published DEF PublishAcked
  <2>2. RelayTakes(r, e) /\ acked' = [acked EXCEPT ![r] = acked[r] \cup {e}] /\ late' = late
    BY <1>3 DEF PublishAcked
  <2>. HIDE DEF r, e
  <2>3. /\ acked' \in [Relay -> SUBSET Event]
        /\ \A q \in Relay : acked[q] \subseteq acked'[q]
        /\ \A q \in Relay : acked'[q] \subseteq acked[q] \cup (IF q = r THEN {e} ELSE {})
    BY <1>0, <2>1, <2>2 DEF RelaysTyped
  <2>. QED
    BY <1>0, <1>1, <1>2, <2>1, <2>2, <2>3 DEF RelaysTyped, RelayEventsSound
<1>4. ASSUME NEW l \in late, LateArrival(l[1], l[2])
      PROVE  /\ RelaysTyped' /\ RelayEventsSound' /\ RelaysKeep'
             /\ \A r \in Relay : acked[r] \subseteq acked'[r]
  <2>1. l[1] \in Relay /\ l[2] \in Event /\ l[2].signed /\ Announced(l[2])
    BY <1>0 DEF RelaysTyped, RelayEventsSound
  <2>2. RelayTakes(l[1], l[2]) /\ acked' = acked /\ late' \subseteq late
    BY <1>4 DEF LateArrival
  <2>. QED
    BY <1>0, <1>1, <1>2, <2>1, <2>2 DEF RelaysTyped, RelayEventsSound
<1>5. ASSUME NEW a \in Request, PublishFailed(a) \/ Drop(a)
      PROVE  /\ RelaysTyped' /\ RelayEventsSound' /\ RelaysKeep'
             /\ \A r \in Relay : acked[r] \subseteq acked'[r]
  <2>1. UNCHANGED <<held, acked>>
    BY <1>5 DEF PublishFailed, Drop
  <2>2. \/ late' = late
        \/ pc[a] = "publish" /\ late' = late \cup {<<Relays[turn[a]], event[a]>>}
    BY <1>5 DEF PublishFailed, Drop
  <2>. QED
    BY <1>0, <1>1, <2>1, <2>2, Published
    DEF RelaysTyped, RelayEventsSound, RelaysKeep, AsNew
<1>6. CASE UNCHANGED <<held, late, acked>>
  BY <1>0, <1>1, <1>6 DEF RelaysTyped, RelayEventsSound, RelaysKeep, AsNew
<1>. QED
  BY <1>3, <1>4, <1>5, <1>6
  DEF Next, Tick, ChangeTerms, ReadTerms, Sign, Discover, QueryFails, QueryAnswers,
      TakeEvent, Show
-----------------------------------------------------------------------------
(* The discovery.                                                          *)

Found == [event : Event \cup {NoEvent}, seen : Seq(Relay)]

ClientRecord ==
    [pc : {"idle", "query", "done"}, turn : 1 .. Len(Relays) + 1, queue : SUBSET Event,
     found : [Provider -> Found], shown : Seq(Provider), owed : SUBSET (Relay \X Event),
     read : SUBSET Event]

ClientEventsSound == \A e \in client.queue \cup client.read : e.signed => Announced(e)

\* What of the invariant the client's steps can disturb.
ClientInv ==
    client \in ClientRecord /\ ClientEventsSound /\ OwedSound /\ ClientSound /\ NewestIsKept

\* A step of a request, a relay or the clock.
LEMMA OthersKeepClient ==
    ASSUME DInv, Next, UNCHANGED client
    PROVE  ClientInv'
<1>1. client \in ClientRecord /\ \A o \in client.owed : o[1] \in Relay
  BY DEF DInv, TypeOK, ClientRecord, Found
<1>2. ClientEventsSound'
  BY AnnouncedStays DEF DInv, EventsSound, ClientEventsSound
<1>3. OwedSound'
  BY <1>1, RelaysNext DEF DInv, OwedSound, AsNew
<1>. QED
  BY <1>1, <1>2, <1>3 DEF DInv, ClientInv, ClientSound, NewestIsKept

\* The discovery begins: nothing is known yet of any relay.
LEMMA DiscoverPreserves ==
    ASSUME DInv, Discover
    PROVE  ClientInv'
<1> DEFINE all == UNION {{r} \X acked[r] : r \in Relay}
<1>1. client \in ClientRecord /\ acked \in [Relay -> SUBSET Event]
  BY DEF DInv, TypeOK, ClientRecord, Found
<1>2. /\ client.pc = "idle" /\ client.turn = 1
      /\ client' = [client EXCEPT !.pc = "query", !.owed = all]
      /\ UNCHANGED <<pc, event, acked>>
  BY DEF Discover, DInv, ClientSound
<1>3. \A o \in all : o \in Relay \X Event /\ o[2] \in acked[o[1]]
  BY <1>1
<1>. HIDE DEF all
<1>4. /\ client'.pc = "query" /\ client'.owed = all /\ client'.turn = client.turn
      /\ client'.queue = client.queue /\ client'.read = client.read
      /\ client'.found = client.found /\ client'.shown = client.shown
  BY <1>1, <1>2 DEF ClientRecord
<1>5. client' \in ClientRecord
  BY <1>1, <1>2, <1>3 DEF ClientRecord
<1>6. ClientEventsSound'
  BY <1>2, <1>4 DEF DInv, EventsSound, ClientEventsSound, Announced
<1>7. OwedSound'
  BY <1>2, <1>3, <1>4, RelaysLen DEF OwedSound
<1>8. ClientSound' /\ NewestIsKept'
  BY <1>2, <1>4 DEF DInv, ClientSound, NewestIsKept
<1>. QED
  BY <1>5, <1>6, <1>7, <1>8 DEF ClientInv

\* A relay is queried: all it holds is read next, or nothing is owed of it.
LEMMA QueryPreserves ==
    ASSUME DInv, QueryFails \/ QueryAnswers
    PROVE  ClientInv'
<1> DEFINE r == Relays[client.turn]
           rest == {o \in client.owed : o[1] # r}
           all == held[r] \cup Stray
<1>1. /\ client \in ClientRecord /\ client.turn \in 1 .. Len(Relays) + 1
      /\ client.pc = "query" /\ client.queue = {} /\ client.turn <= Len(Relays)
      /\ UNCHANGED <<pc, event, acked, held>>
  BY DEF DInv, TypeOK, ClientRecord, Found, QueryFails, QueryAnswers
<1>2. Len(Relays) \in Nat /\ r \in Relay /\ client.turn + 1 \in 1 .. Len(Relays) + 1
  <2>1. client.turn \in 1 .. Len(Relays)
    BY <1>1, RelaysLen
  <2>. QED
    BY <2>1, RelaysAssumption DEF Relay, ToSet
<1>3. all \subseteq Event
  BY <1>2, StrayAssumption DEF DInv, TypeOK, Event
<1>4. PICK events \in SUBSET all, owed \in SUBSET client.owed :
        /\ client' = [client EXCEPT !.turn = client.turn + 1, !.queue = events, !.owed = owed]
        /\ owed = rest \/ events = all
  <2>1. CASE QueryFails
    <3>1. client' = [Advance(client) EXCEPT !.owed = rest]
      BY <2>1 DEF QueryFails, Advance
    <3>2. client' = [client EXCEPT !.turn = client.turn + 1, !.queue = {}, !.owed = rest]
      BY <1>1, <3>1 DEF Advance, ClientRecord
    <3>. QED
      BY <3>2
  <2>2. CASE QueryAnswers
    <3>1. Advance(client).owed = client.owed
      BY <1>1 DEF Advance, ClientRecord
    <3>2. PICK events \in SUBSET all :
            client' = [Advance(client) EXCEPT
                         !.queue = events,
                         !.owed = IF events = all THEN Advance(client).owed
                                  ELSE {o \in Advance(client).owed : o[1] # r}]
      BY <2>2, Zenon DEF QueryAnswers
    <3> DEFINE owed == IF events = all THEN client.owed ELSE rest
    <3>3. client' = [client EXCEPT !.turn = client.turn + 1, !.queue = events, !.owed = owed]
      BY <1>1, <3>1, <3>2 DEF Advance, ClientRecord
    <3>. QED
      BY <3>3
  <2>. QED
    BY <2>1, <2>2
<1>5. /\ client'.pc = client.pc /\ client'.owed = owed /\ client'.turn = client.turn + 1
      /\ client'.queue = events /\ client'.read = client.read
      /\ client'.found = client.found /\ client'.shown = client.shown
  BY <1>1, <1>4 DEF ClientRecord
<1>6. client' \in ClientRecord
  BY <1>1, <1>2, <1>3, <1>4 DEF ClientRecord
<1>7. ClientEventsSound'
  <2>1. \A e \in events : e.signed => Announced(e)
    BY <1>2, StrayAssumption DEF DInv, EventsSound
  <2>. QED
    BY <1>1, <1>5, <2>1 DEF DInv, EventsSound, ClientEventsSound, Announced
<1>8. OwedSound'
  <2>. SUFFICES ASSUME NEW o \in owed
                PROVE  /\ o[2] \in acked[o[1]]
                       /\ \A i \in 1 .. Len(Relays) :
                            i < client.turn + 1 /\ Relays[i] = o[1] =>
                              \E f \in events \cup client.read : f.signed /\ AsNew(f, o[2])
    BY <1>1, <1>5 DEF OwedSound, AsNew
  <2>1. o \in client.owed /\ o[1] \in Relay /\ o[2] \in acked[o[1]]
    BY <1>1, <1>4 DEF ClientRecord, DInv, OwedSound
  <2>2. ASSUME NEW i \in 1 .. Len(Relays), i < client.turn + 1, Relays[i] = o[1]
        PROVE  \E f \in events \cup client.read : f.signed /\ AsNew(f, o[2])
    <3>1. CASE i < client.turn
      BY <1>1, <2>1, <2>2, <3>1 DEF DInv, OwedSound
    <3>2. CASE i = client.turn
      <4>1. events = all
        BY <1>4, <2>2, <3>2
      <4>2. PICK f \in held[r] : AsNew(f, o[2])
        BY <2>1, <2>2, <3>2 DEF DInv, RelaysKeep
      <4>3. f.signed
        BY <1>2, <4>2 DEF DInv, EventsSound
      <4>. QED
        BY <4>1, <4>2, <4>3
    <3>. QED
      BY <1>1, <1>2, <2>2, <3>1, <3>2
  <2>. QED
    BY <2>1, <2>2
<1>9. ClientSound' /\ NewestIsKept'
  BY <1>1, <1>2, <1>5 DEF DInv, ClientSound, NewestIsKept
<1>. QED
  BY <1>6, <1>7, <1>8, <1>9 DEF ClientInv

\* An event is read: of its key, the newest that is signed is kept.
LEMMA TakeEventPreserves ==
    ASSUME DInv, TakeEvent
    PROVE  ClientInv'
<1>1. /\ client \in ClientRecord
      /\ \A p \in Provider : client.found[p] \in Found
      /\ UNCHANGED <<pc, event, acked>>
  BY DEF DInv, TypeOK, ClientRecord, Found, TakeEvent
<1>2. PICK e \in client.queue :
        client' = [client EXCEPT !.queue = client.queue \ {e},
                                 !.found[e.by] = Merge(client.found[e.by], e),
                                 !.read = client.read \cup {e}]
  BY DEF TakeEvent
<1>3. /\ e \in Event /\ e.by \in Provider /\ e.at \in Nat
      /\ client.pc = "query" /\ client.turn > 1
  BY <1>1 DEF ClientRecord, Event, DInv, ClientSound, TakeEvent
<1> DEFINE entry == client.found[e.by]
           new == Merge(entry, e)
<1>4. new \in Found
  <2>1. Current \in Relay
    <3>1. client.turn - 1 \in 1 .. Len(Relays)
      BY <1>1, <1>3, RelaysLen DEF ClientRecord
    <3>. QED
      BY <3>1, RelaysAssumption DEF Current, Relay, ToSet
  <2>2. entry \in Found /\ entry.seen \in Seq(Relay)
    BY <1>1, <1>3 DEF Found
  <2>3. Append(entry.seen, Current) \in Seq(Relay)
    BY <2>1, <2>2
  <2>4. entry.event \in Event \cup {NoEvent}
    BY <2>2 DEF Found
  <2>. QED
    BY <1>3, <2>2, <2>3, <2>4 DEF Merge, Found
<1>5. \/ ~e.signed /\ new = entry
      \/ /\ e.signed
         /\ new.event = IF entry = NotFound \/ e.at > entry.event.at THEN e ELSE entry.event
  BY DEF Merge
<1>. HIDE DEF new
<1>6. client' = [client EXCEPT !.queue = client.queue \ {e},
                               !.found = [client.found EXCEPT ![e.by] = new],
                               !.read = client.read \cup {e}]
  BY <1>2 DEF new
<1>7. /\ client'.pc = client.pc /\ client'.owed = client.owed /\ client'.turn = client.turn
      /\ client'.queue = client.queue \ {e} /\ client'.read = client.read \cup {e}
      /\ client'.found = [client.found EXCEPT ![e.by] = new] /\ client'.shown = client.shown
  BY <1>1, <1>6 DEF ClientRecord
<1>8. client' \in ClientRecord
  BY <1>1, <1>3, <1>4, <1>6 DEF ClientRecord
<1>9. ClientEventsSound'
  BY <1>1, <1>7 DEF DInv, EventsSound, ClientEventsSound, Announced
<1>10. OwedSound'
  <2>1. client'.queue \cup client'.read = client.queue \cup client.read
    BY <1>2, <1>7
  <2>. QED
    BY <1>1, <1>7, <2>1 DEF DInv, OwedSound, AsNew
<1>11. ClientSound'
  BY <1>3, <1>7 DEF DInv, ClientSound
<1>12. NewestIsKept'
  <2>. SUFFICES ASSUME NEW p \in Provider
                PROVE  LET signed == {f \in client'.read : f.by = p /\ f.signed}
                           kept == client'.found[p]
                       IN  IF signed = {} THEN kept = NotFound
                           ELSE kept.event \in signed /\ \A f \in signed : f.at <= kept.event.at
    BY DEF NewestIsKept
  <2> DEFINE before == {f \in client.read : f.by = p /\ f.signed}
             after == {f \in client'.read : f.by = p /\ f.signed}
  <2>1. IF before = {} THEN client.found[p] = NotFound
        ELSE /\ client.found[p].event \in before
             /\ \A f \in before : f.at <= client.found[p].event.at
    BY DEF DInv, NewestIsKept
  <2>2. \A f \in before : f.at \in Nat /\ f.signed
    BY <1>1 DEF ClientRecord, Event
  <2>3. CASE p = e.by /\ e.signed
    <3>1. after = before \cup {e} /\ client'.found[p] = new
      BY <1>1, <1>3, <1>7, <2>3 DEF ClientRecord
    <3>2. entry = NotFound <=> before = {}
      BY <2>1, <2>2, <2>3 DEF NotFound, NoEvent
    <3>. QED
      BY <1>3, <1>5, <2>1, <2>2, <2>3, <3>1, <3>2
  <2>4. CASE ~(p = e.by /\ e.signed)
    <3>1. after = before
      BY <1>7, <2>4
    <3>2. client'.found[p] = client.found[p]
      BY <1>1, <1>3, <1>5, <1>7, <2>4 DEF ClientRecord
    <3>. QED
      BY <2>1, <3>1, <3>2
  <2>. QED
    BY <2>3, <2>4
<1>. QED
  BY <1>8, <1>9, <1>10, <1>11, <1>12 DEF ClientInv

\* The providers that were found are shown, in an order of their prices.
LEMMA ShowPreserves ==
    ASSUME DInv, Show
    PROVE  ClientInv'
<1>1. /\ client \in ClientRecord
      /\ client.pc = "query" /\ client.queue = {} /\ client.turn > Len(Relays)
      /\ UNCHANGED <<pc, event, acked>>
  BY DEF DInv, TypeOK, ClientRecord, Found, Show
<1>2. PICK q \in Orders : client' = [client EXCEPT !.pc = "done", !.shown = q]
  BY DEF Show
<1>3. q \in Seq(Provider) /\ \A i \in DOMAIN q : q[i] \in Listable
  <2>1. Listable \subseteq Provider
    BY DEF Listable
  <2>2. IsFiniteSet(Listable)
    BY <2>1, ProviderAssumption, FS_Subset
  <2>3. Cardinality(Listable) \in Nat
    BY <2>2, FS_CardinalityType
  <2>4. q \in [1 .. Cardinality(Listable) -> Listable]
    BY DEF Orders, SetToSeqs
  <2>5. q \in Seq(Listable)
    BY <2>3, <2>4
  <2>. QED
    BY <2>1, <2>4, <2>5
<1>4. /\ client'.pc = "done" /\ client'.owed = client.owed /\ client'.turn = client.turn
      /\ client'.queue = client.queue /\ client'.read = client.read
      /\ client'.found = client.found /\ client'.shown = q
  BY <1>1, <1>2 DEF ClientRecord
<1>5. client' \in ClientRecord
  BY <1>1, <1>2, <1>3 DEF ClientRecord
<1>6. ClientEventsSound' /\ OwedSound' /\ NewestIsKept'
  BY <1>1, <1>4 DEF DInv, EventsSound, ClientEventsSound, Announced, OwedSound, AsNew,
                    NewestIsKept
<1>7. ClientSound'
  BY <1>1, <1>3, <1>4 DEF ClientSound, Listable
<1>. QED
  BY <1>5, <1>6, <1>7 DEF ClientInv

-----------------------------------------------------------------------------
(* The theorems.                                                           *)

LEMMA DInvNext ==
    ASSUME DInv, [Next]_vars
    PROVE  DInv'
<1>1. CASE UNCHANGED vars
  BY <1>1 DEF vars, DInv, TypeOK, RequestsSound, EventsSound, RelaysKeep, OwedSound,
              ClientSound, NewestIsKept, Announced, AsNew
<1>2. CASE Next
  <2>1. ClientInv'
    <3>1. CASE UNCHANGED client
      BY <1>2, <3>1, OthersKeepClient
    <3>. QED
      BY <1>2, <3>1, DiscoverPreserves, QueryPreserves, TakeEventPreserves, ShowPreserves
      DEF Next, Tick, ChangeTerms, ReadTerms, Sign, PublishAcked, PublishFailed, Drop,
          LateArrival
  <2>2. RequestsTyped' /\ RequestsSound'
    BY <1>2, RequestsNext
  <2>3. RelaysTyped' /\ RelayEventsSound' /\ RelaysKeep'
    BY <1>2, RelaysNext
  <2>4. TypeOK'
    BY <2>1, <2>2, <2>3
    DEF TypeOK, RequestsTyped, RelaysTyped, ClientInv, ClientRecord, Found
  <2>5. EventsSound'
    BY <2>1, <2>3 DEF EventsSound, RelayEventsSound, ClientInv, ClientEventsSound
  <2>. QED
    BY <2>1, <2>2, <2>3, <2>4, <2>5 DEF DInv, ClientInv
<1>. QED
  BY <1>1, <1>2

\* The inductive invariant of announcements, relays and the discovery.
THEOREM DiscoveryInvariance == Spec => []DInv
BY InitDInv, DInvNext, PTL DEF Spec

\* Every variable stays in its type.
THEOREM DiscoveryTypeCorrect == Spec => []TypeOK
<1>1. DInv => TypeOK
  BY DEF DInv
<1>. QED
  BY <1>1, DiscoveryInvariance, PTL

\* In whatever order relays return events, of those signed by a key the newest
\* is kept (discover.rs:25-27).
THEOREM NewestKept == Spec => []NewestIsKept
<1>1. DInv => NewestIsKept
  BY DEF DInv
<1>. QED
  BY <1>1, DiscoveryInvariance, PTL

\* What a relay had accepted when the discovery began, it finds there, or
\* something as new, if that relay's answer came in full.
THEOREM AcceptedFound == Spec => []AcceptedIsFound
<1>1. DInv => AcceptedIsFound
  <2>. SUFFICES ASSUME DInv, client.pc = "done", NEW o \in client.owed
                PROVE  client.found[o[2].by].event.at >= o[2].at
    BY DEF AcceptedIsFound
  <2>1. o[1] \in Relay /\ o[2] \in Event /\ client.read \subseteq Event
        /\ client.turn \in 1 .. Len(Relays) + 1
    BY DEF DInv, TypeOK
  <2>2. PICK i \in 1 .. Len(Relays) : Relays[i] = o[1]
    BY <2>1, RelaysAssumption DEF Relay, ToSet
  <2>3. i < client.turn /\ client.queue = {}
    BY <2>1, RelaysLen DEF DInv, ClientSound
  <2>4. PICK f \in client.read : f.signed /\ AsNew(f, o[2])
    BY <2>2, <2>3 DEF DInv, OwedSound
  <2>5. f \in Event /\ f.by = o[2].by /\ f.by \in Provider
    BY <2>1, <2>4 DEF AsNew, Event
  <2> DEFINE kept == client.found[f.by].event
  <2>6. kept \in client.read /\ f.at <= kept.at
    BY <2>4, <2>5 DEF DInv, NewestIsKept
  <2>7. kept.at \in Nat /\ f.at \in Nat /\ o[2].at \in Nat
    BY <2>1, <2>5, <2>6 DEF Event
  <2>. QED
    BY <2>4, <2>5, <2>6, <2>7 DEF AsNew
<1>. QED
  BY <1>1, DiscoveryInvariance, PTL

\* Providers are shown with terms they had announced.
THEOREM ShownAnnounced == Spec => []ShownWasAnnounced
<1>1. DInv => ShownWasAnnounced
  <2>. SUFFICES ASSUME DInv, NEW i \in DOMAIN client.shown
                PROVE  \E a \in Request :
                         /\ By[a] = client.shown[i]
                         /\ pc[a] \in {"publish", "done"}
                         /\ event[a] = client.found[client.shown[i]].event
    BY DEF ShownWasAnnounced
  <2> DEFINE p == client.shown[i]
             e == client.found[p].event
  <2>1. p \in Provider /\ client.found[p] # NotFound
    BY DEF DInv, TypeOK, ClientSound
  <2>2. e \in client.read /\ e.by = p /\ e.signed
    BY <2>1 DEF DInv, NewestIsKept
  <2>3. Announced(e)
    BY <2>2 DEF DInv, EventsSound
  <2>. QED
    BY <2>2, <2>3 DEF Announced
<1>. QED
  BY <1>1, DiscoveryInvariance, PTL

-----------------------------------------------------------------------------
(* Torrents.                                                               *)

\* Where a byte is: a piece, and a place in it.
LEMMA PlaceOf ==
    ASSUME NEW x \in Nat, NEW p \in Nat \ {0}
    PROVE  /\ x \div p \in Nat /\ x % p \in Nat /\ x % p < p
           /\ x = (x \div p) * p + (x % p)
OBVIOUS

\* chunks() cuts a file that is not empty into full pieces and a last one, which
\* is not empty, with every byte in its place.
LEMMA ChunksCover ==
    ASSUME NEW S, NEW data \in Seq(S), data # <<>>
    PROVE  CoveredBy(data, Chunks(data))
<1> DEFINE P == PieceLength
           L == Len(data)
           n == CeilDiv(L, P)
           cut(i) == SubSeq(data, (i - 1) * P + 1, IF i * P < L THEN i * P ELSE L)
           pieces == [i \in 1 .. n |-> cut(i)]
           left == L - (n - 1) * P
<1>1. P \in Nat \ {0} /\ L \in Nat \ {0}
  BY PieceLengthAssumption, EmptySeq
<1> HIDE DEF P, L
<1>2. n \in Nat /\ n * P >= L /\ n * P < L + P
  BY <1>1, CeilDivBounds
<1>3. Chunks(data) = pieces
  BY DEF Chunks, CeilDiv, L, P
<1> HIDE DEF n
<1>4. n > 0 /\ n - 1 \in Nat /\ (n - 1) * P = n * P - P /\ n * P \in Nat
  <2>1. n # 0
    BY <1>1, <1>2
  <2> QED
    BY <1>1, <1>2, <2>1
<1>5. left \in Nat \ {0} /\ left <= P
  BY <1>1, <1>2, <1>4
<1>6. ASSUME NEW i \in 1 .. n
      PROVE  /\ Len(cut(i)) = IF i < n THEN P ELSE left
             /\ \A j \in 1 .. Len(cut(i)) : cut(i)[j] = data[(i - 1) * P + j]
  <2> DEFINE a == (i - 1) * P + 1
             e == IF i * P < L THEN i * P ELSE L
  <2>1. i \in Nat /\ i - 1 \in Nat /\ (i - 1) * P \in Nat /\ i * P = (i - 1) * P + P
    BY <1>1, <1>2
  <2>2. (i - 1) * P <= (n - 1) * P /\ (n - 1) * P < L
    <3>1. i - 1 <= n - 1
      BY <1>2, <2>1
    <3> QED
      BY <1>1, <1>2, <1>4, <2>1, <3>1, Products
  <2>3. e = IF i < n THEN i * P ELSE L
    <3>1. CASE i < n
      <4>1. i <= n - 1
        BY <1>2, <2>1, <3>1
      <4>2. i * P <= (n - 1) * P
        BY <1>1, <1>4, <2>1, <4>1, Products
      <4>3. i * P \in Nat /\ (n - 1) * P \in Nat
        BY <1>1, <1>4, <2>1
      <4> QED
        BY <1>1, <2>2, <3>1, <4>2, <4>3
    <3>2. CASE ~(i < n)
      <4>1. i = n
        BY <1>2, <3>2
      <4> QED
        BY <1>1, <1>2, <1>4, <3>2, <4>1
    <3> QED
      BY <3>1, <3>2
  <2>4. a \in 1 .. L + 1 /\ e \in a - 1 .. L /\ e - a + 1 = IF i < n THEN P ELSE left
    <3>1. CASE i < n
      BY <1>1, <2>1, <2>2, <2>3, <3>1 DEF a
    <3>2. CASE ~(i < n)
      <4>1. i = n
        BY <1>2, <3>2
      <4> QED
        BY <1>1, <1>4, <2>1, <2>2, <2>3, <3>2, <4>1 DEF a, left
    <3> QED
      BY <3>1, <3>2
  <2> HIDE DEF a, e
  <2>5. /\ Len(SubSeq(data, a, e)) = e - a + 1
        /\ \A j \in 1 .. e - a + 1 : SubSeq(data, a, e)[j] = data[a + j - 1]
    BY <2>4, SubSeqProperties DEF L
  <2>6. \A j \in Nat : a + j - 1 = (i - 1) * P + j
    BY <2>1 DEF a
  <2>7. cut(i) = SubSeq(data, a, e)
    BY DEF a, e
  <2> QED
    BY <1>1, <2>4, <2>5, <2>6, <2>7 DEF cut
<1> HIDE DEF cut, left
<1>7. Len(pieces) = n /\ \A i \in 1 .. n : pieces[i] = cut(i)
  <2>1. pieces \in [1 .. n -> {cut(i) : i \in 1 .. n}]
    OBVIOUS
  <2> QED
    BY <1>2, <2>1, LenProperties
<1> HIDE DEF pieces
<1>8. ASSUME NEW k \in 1 .. L
      PROVE  pieces[((k - 1) \div P) + 1][((k - 1) % P) + 1] = data[k]
  <2> DEFINE i == ((k - 1) \div P) + 1
             j == ((k - 1) % P) + 1
  <2>1. k - 1 \in Nat /\ k - 1 < L /\ k \in Nat
    BY <1>1
  <2>2. /\ i - 1 \in Nat /\ j \in 1 .. P /\ k - 1 = (i - 1) * P + (j - 1)
        /\ (i - 1) * P \in Nat /\ i \in Nat
    <3>1. /\ (k - 1) \div P \in Nat /\ (k - 1) % P \in Nat /\ (k - 1) % P < P
          /\ k - 1 = ((k - 1) \div P) * P + ((k - 1) % P)
      BY <1>1, <2>1, PlaceOf
    <3> QED
      BY <1>1, <3>1
  <2> HIDE DEF i, j
  <2>3. i \in 1 .. n
    <3>1. (i - 1) * P < n * P
      BY <1>1, <1>2, <1>4, <2>1, <2>2
    <3>2. i - 1 < n
      BY <1>1, <1>2, <2>2, <3>1, Products
    <3> QED
      BY <1>2, <2>2, <3>2
  <2>4. j \in 1 .. Len(cut(i))
    <3>1. CASE i < n
      BY <1>6, <2>2, <2>3, <3>1
    <3>2. CASE ~(i < n)
      <4>1. i = n
        BY <1>2, <2>3, <3>2
      <4>2. left = L - (i - 1) * P
        BY <4>1 DEF left
      <4>3. j <= left
        BY <1>1, <2>1, <2>2, <4>2
      <4> QED
        BY <1>5, <1>6, <2>2, <2>3, <3>2, <4>3
    <3> QED
      BY <3>1, <3>2
  <2>5. cut(i)[j] = data[(i - 1) * P + j]
    BY <1>6, <2>3, <2>4
  <2>6. (i - 1) * P + j = k
    BY <1>1, <2>1, <2>2
  <2> QED
    BY <1>7, <2>3, <2>5, <2>6 DEF i, j
<1>9. \A i \in 1 .. n : Len(pieces[i]) = IF i < n THEN P ELSE left
  BY <1>6, <1>7
<1> QED
  BY <1>3, <1>4, <1>5, <1>7, <1>8, <1>9 DEF CoveredBy, L, P, left

\* The pieces of any bytes cover them; those of nothing are one empty piece.
LEMMA PiecesCover ==
    ASSUME NEW S, NEW data \in Seq(S)
    PROVE  CoveredBy(data, PieceHashes(data))
<1>1. CASE data = <<>>
  <2>1. PieceHashes(data) = <<<<>>>> /\ Len(data) = 0
    BY <1>1 DEF PieceHashes
  <2> DEFINE one == <<<<>>>>
  <2>2. Len(one) = 1 /\ Len(one[1]) = 0
    OBVIOUS
  <2> HIDE DEF one
  <2>3. CoveredBy(data, one)
    BY <1>1, <2>1, <2>2, PieceLengthAssumption DEF CoveredBy
  <2> QED
    BY <2>1, <2>3 DEF one
<1>2. CASE data # <<>>
  BY <1>2, ChunksCover DEF PieceHashes
<1> QED
  BY <1>1, <1>2

\* A list of two or of four, entry by entry.
LEMMA TwoOf ==
    ASSUME NEW a, NEW b
    PROVE  /\ Len(<<a, b>>) = 2 /\ DOMAIN <<a, b>> = 1 .. 2
           /\ <<a, b>>[1] = a /\ <<a, b>>[2] = b
OBVIOUS

LEMMA FourOf ==
    ASSUME NEW a, NEW b, NEW c, NEW d
    PROVE  /\ Len(<<a, b, c, d>>) = 4 /\ DOMAIN <<a, b, c, d>> = 1 .. 4
           /\ <<a, b, c, d>>[1] = a /\ <<a, b, c, d>>[2] = b
           /\ <<a, b, c, d>>[3] = c /\ <<a, b, c, d>>[4] = d
OBVIOUS

LEMMA TwoAndTwo ==
    ASSUME NEW a, NEW b, NEW c, NEW d
    PROVE  <<a, b>> \o <<c, d>> = <<a, b, c, d>>
<1> DEFINE S == {a, b, c, d}
           s == <<a, b>>
           t == <<c, d>>
           u == <<a, b, c, d>>
<1>1. s \in Seq(S) /\ t \in Seq(S) /\ u \in Seq(S)
  OBVIOUS
<1>2. Len(s) = 2 /\ Len(t) = 2 /\ Len(u) = 4 /\ s[1] = a /\ s[2] = b /\ t[1] = c /\ t[2] = d
  BY TwoOf, FourOf
<1>3. u[1] = a /\ u[2] = b /\ u[3] = c /\ u[4] = d
  BY FourOf
<1> HIDE DEF S, s, t, u
<1>4. /\ s \o t \in Seq(S) /\ Len(s \o t) = 4
      /\ \A i \in 1 .. 4 : (s \o t)[i] = IF i <= 2 THEN s[i] ELSE t[i - 2]
  <2>1. /\ s \o t \in Seq(S) /\ Len(s \o t) = Len(s) + Len(t)
        /\ \A i \in 1 .. Len(s) + Len(t) : (s \o t)[i] =
                    IF i <= Len(s) THEN s[i] ELSE t[i - Len(s)]
    BY <1>1, ConcatProperties
  <2>2. Len(s) + Len(t) = 4
    BY <1>2
  <2> QED
    BY <1>2, <2>1, <2>2
<1>5. \A i \in 1 .. 4 : (s \o t)[i] = u[i]
  <2> SUFFICES ASSUME NEW i \in 1 .. 4
               PROVE  (s \o t)[i] = u[i]
    OBVIOUS
  <2>1. i = 1 \/ i = 2 \/ i = 3 \/ i = 4
    OBVIOUS
  <2>2. (s \o t)[i] = IF i <= 2 THEN s[i] ELSE t[i - 2]
    BY <1>4
  <2> QED
    BY <1>2, <1>3, <2>1, <2>2
<1>6. s \o t = u
  BY <1>1, <1>2, <1>4, <1>5, SeqEqual
<1> QED
  BY <1>6 DEF s, t, u

\* The order of the keys, by their places.
LEMMA KeyPlaces ==
    /\ DOMAIN KeyOrder = 1 .. 8
    /\ KeyOrder[1] = "announce" /\ KeyOrder[2] = "announce-list"
    /\ KeyOrder[3] = "created by" /\ KeyOrder[4] = "info"
    /\ KeyOrder[5] = "length" /\ KeyOrder[6] = "name"
    /\ KeyOrder[7] = "piece length" /\ KeyOrder[8] = "pieces"
<1>1. DOMAIN KeyOrder = 1 .. 8
  BY DEF KeyOrder
<1>2. /\ KeyOrder[1] = "announce" /\ KeyOrder[2] = "announce-list"
      /\ KeyOrder[3] = "created by" /\ KeyOrder[4] = "info"
  BY DEF KeyOrder
<1>3. /\ KeyOrder[5] = "length" /\ KeyOrder[6] = "name"
      /\ KeyOrder[7] = "piece length" /\ KeyOrder[8] = "pieces"
  BY DEF KeyOrder
<1> QED
  BY <1>1, <1>2, <1>3

\* Keys that follow one another in KeyOrder are in its order.
LEMMA FollowIsOrdered ==
    ASSUME NEW dict, NEW n \in Nat, NEW m \in Nat, m + n <= 8, DOMAIN dict = 1 .. n,
           \A i \in 1 .. n : dict[i].key = KeyOrder[m + i]
    PROVE  Ordered(dict)
<1>1. DOMAIN KeyOrder = 1 .. 8
  BY KeyPlaces
<1>2. ASSUME NEW i \in 1 .. n, NEW j \in 1 .. n, i < j
      PROVE  \E k, l \in DOMAIN KeyOrder :
               k < l /\ KeyOrder[k] = dict[i].key /\ KeyOrder[l] = dict[j].key
  <2>1. m + i \in DOMAIN KeyOrder /\ m + j \in DOMAIN KeyOrder /\ m + i < m + j
    BY <1>1, <1>2
  <2> QED
    BY <2>1
<1> QED
  BY <1>2 DEF Ordered

\* So are the keys of two entries, and of four.
LEMMA TwoOrdered ==
    ASSUME NEW a, NEW b, NEW m \in 0 .. 6,
           a.key = KeyOrder[m + 1], b.key = KeyOrder[m + 2]
    PROVE  Ordered(<<a, b>>)
<1> DEFINE dict == <<a, b>>
           n == 2
<1>1. DOMAIN dict = 1 .. 2 /\ dict[1] = a /\ dict[2] = b
  BY TwoOf
<1> HIDE DEF dict
<1>2. ASSUME NEW i \in 1 .. 2
      PROVE  dict[i].key = KeyOrder[m + i]
  <2>1. i = 1 \/ i = 2
    OBVIOUS
  <2> QED
    BY <1>1, <2>1
<1>3. n \in Nat /\ m \in Nat /\ m + n <= 8
  OBVIOUS
<1>4. DOMAIN dict = 1 .. n /\ \A i \in 1 .. n : dict[i].key = KeyOrder[m + i]
  BY <1>1, <1>2
<1> HIDE DEF n
<1>5. Ordered(dict)
  BY <1>3, <1>4, FollowIsOrdered
<1> QED
  BY <1>5 DEF dict

LEMMA FourOrdered ==
    ASSUME NEW a, NEW b, NEW c, NEW d, NEW m \in 0 .. 4,
           a.key = KeyOrder[m + 1], b.key = KeyOrder[m + 2],
           c.key = KeyOrder[m + 3], d.key = KeyOrder[m + 4]
    PROVE  Ordered(<<a, b, c, d>>)
<1> DEFINE dict == <<a, b, c, d>>
           n == 4
<1>1. DOMAIN dict = 1 .. 4 /\ dict[1] = a /\ dict[2] = b /\ dict[3] = c /\ dict[4] = d
  BY FourOf
<1> HIDE DEF dict
<1>2. ASSUME NEW i \in 1 .. 4
      PROVE  dict[i].key = KeyOrder[m + i]
  <2>1. i = 1 \/ i = 2 \/ i = 3 \/ i = 4
    OBVIOUS
  <2> QED
    BY <1>1, <2>1
<1>3. n \in Nat /\ m \in Nat /\ m + n <= 8
  OBVIOUS
<1>4. DOMAIN dict = 1 .. n /\ \A i \in 1 .. n : dict[i].key = KeyOrder[m + i]
  BY <1>1, <1>2
<1> HIDE DEF n
<1>5. Ordered(dict)
  BY <1>3, <1>4, FollowIsOrdered
<1> QED
  BY <1>5 DEF dict

\* The info dictionary is in order, and says what it is of.
LEMMA InfoOrdered ==
    ASSUME NEW data
    PROVE  /\ Ordered(Info(data)) /\ Info(data)[1].value = Len(data)
           /\ Info(data)[4].value = PieceHashes(data)
<1> DEFINE a == Pair("length", Len(data))
           b == Pair("name", "the file's")
           c == Pair("piece length", PieceLength)
           d == Pair("pieces", PieceHashes(data))
           info == <<a, b, c, d>>
<1>1. /\ a.key = "length" /\ b.key = "name" /\ c.key = "piece length" /\ d.key = "pieces"
      /\ a.value = Len(data) /\ d.value = PieceHashes(data)
  BY DEF Pair
<1>2. Info(data) = info
  BY DEF Info
<1> HIDE DEF a, b, c, d
<1>3. info[1] = a /\ info[4] = d
  BY FourOf
<1>4. Ordered(info)
  <2> DEFINE m == 4
  <2>1. m \in 0 .. 4 /\ m + 1 = 5 /\ m + 2 = 6 /\ m + 3 = 7 /\ m + 4 = 8
    OBVIOUS
  <2> HIDE DEF m
  <2>2. /\ a.key = KeyOrder[m + 1] /\ b.key = KeyOrder[m + 2]
        /\ c.key = KeyOrder[m + 3] /\ d.key = KeyOrder[m + 4]
    BY <1>1, <2>1, KeyPlaces
  <2> QED
    BY <2>1, <2>2, FourOrdered
<1> HIDE DEF info
<1> QED
  BY <1>1, <1>2, <1>3, <1>4

\* create_torrent: the metainfo of any bytes, of any length, with any trackers,
\* describes them.
THEOREM TorrentDescribes ==
    ASSUME NEW S, NEW data \in Seq(S)
    PROVE  Describes(data)
<1> SUFFICES ASSUME NEW trackers \in Trackers
             PROVE  LET top == Metainfo(data, trackers)
                        info == Last(top).value
                    IN  /\ Ordered(top) /\ Ordered(info)
                        /\ info[1].value = Len(data)
                        /\ CoveredBy(data, info[4].value)
  BY DEF Describes
<1> DEFINE top == Metainfo(data, trackers)
           a == Pair("announce", Head(trackers))
           b == Pair("announce-list", [i \in DOMAIN trackers |-> <<trackers[i]>>])
           c == Pair("created by", "pivss")
           d == Pair("info", Info(data))
<1>1. a.key = "announce" /\ b.key = "announce-list" /\ c.key = "created by" /\ d.key = "info"
      /\ d.value = Info(data)
  BY DEF Pair
<1>2. /\ trackers = <<>> => top = <<>> \o <<c, d>>
      /\ trackers # <<>> => top = <<a, b>> \o <<c, d>>
  BY DEF Metainfo
<1> HIDE DEF a, b, c, d
<1>3. <<>> \o <<c, d>> = <<c, d>> /\ <<a, b>> \o <<c, d>> = <<a, b, c, d>>
  <2>1. <<c, d>> \in Seq({c, d})
    OBVIOUS
  <2> QED
    BY <2>1, ConcatEmptySeq, TwoAndTwo
<1> HIDE DEF top
<1>4. Ordered(top) /\ Last(top) = d
  <2>1. CASE trackers = <<>>
    <3>1. top = <<c, d>>
      BY <1>2, <1>3, <2>1
    <3>2. Len(top) = 2 /\ top[2] = d
      BY <3>1, TwoOf
    <3> DEFINE m == 2
    <3>3. m \in 0 .. 6 /\ m + 1 = 3 /\ m + 2 = 4
      OBVIOUS
    <3> HIDE DEF m
    <3>4. c.key = KeyOrder[m + 1] /\ d.key = KeyOrder[m + 2]
      BY <1>1, <3>3, KeyPlaces
    <3>5. Ordered(top)
      BY <3>1, <3>3, <3>4, TwoOrdered
    <3> QED
      BY <3>2, <3>5 DEF Last
  <2>2. CASE trackers # <<>>
    <3>1. top = <<a, b, c, d>>
      BY <1>2, <1>3, <2>2
    <3>2. Len(top) = 4 /\ top[4] = d
      BY <3>1, FourOf
    <3> DEFINE m == 0
    <3>3. m \in 0 .. 4 /\ m + 1 = 1 /\ m + 2 = 2 /\ m + 3 = 3 /\ m + 4 = 4
      OBVIOUS
    <3> HIDE DEF m
    <3>4. /\ a.key = KeyOrder[m + 1] /\ b.key = KeyOrder[m + 2]
          /\ c.key = KeyOrder[m + 3] /\ d.key = KeyOrder[m + 4]
      BY <1>1, <3>3, KeyPlaces
    <3>5. Ordered(top)
      BY <3>1, <3>3, <3>4, FourOrdered
    <3> QED
      BY <3>2, <3>5 DEF Last
  <2> QED
    BY <2>1, <2>2
<1> QED
  BY <1>1, <1>4, InfoOrdered, PiecesCover DEF top

\* So the torrent the server seeds of a version (create_torrent) describes it,
\* whatever the provider of a watch has stored.
THEOREM StoredIsDescribed == WatchSpec => []MetainfoDescribesFile
<1>1. RangesFit => MetainfoDescribesFile
  BY DataLen, TorrentDescribes DEF RangesFit, MetainfoDescribesFile
<1> QED
  BY <1>1, RangesFitInvariance, PTL
=============================================================================
