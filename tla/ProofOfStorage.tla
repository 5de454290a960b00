--------------------------- MODULE ProofOfStorage ---------------------------
(***************************************************************************)
(* The rounds of `pivss-client watch`: a fresh challenge (proof.rs), the   *)
(* provider's proof, the check against the local copy, and a payment only  *)
(* when the proof checks out.  The provider may lose the data at any time, *)
(* and may answer with a proof it gave before.  It also answers the        *)
(* challenges of other callers, whose ranges nothing checks.               *)
(*                                                                         *)
(* A SHA-256 of a nonce and bytes is the pair of them.  Integers are u64:  *)
(* they wrap at Word in a release build.                                   *)
(***************************************************************************)
EXTENDS Integers, Sequences

CONSTANTS Byte,         \* values of a byte
          MaxLen,       \* bound on the length of a file
          MaxRange,     \* longest range of a challenge (4096 in the code)
          NRanges,      \* ranges per challenge (3 in the code)
          Rounds,       \* rounds of the watch
          OtherRanges,  \* ranges in challenges of other callers, each of any u64s
          MiB,          \* bytes of a MiB (1024 * 1024 in the code)
          Prices,       \* prices per MiB, in sats
          Word          \* 2^64 in the code

ASSUME LengthAssumption == MaxLen \in Nat /\ MaxRange \in Nat \ {0} /\ MaxLen < Word
ASSUME RoundsAssumption == NRanges \in Nat /\ Rounds \in Nat
ASSUME OtherAssumption == OtherRanges \subseteq [offset : 0 .. Word - 1, length : 0 .. Word - 1]
ASSUME PriceAssumption == MiB \in Nat \ {0} /\ Prices \subseteq Nat \ {0} /\ Word \in Nat

VARIABLES local,        \* the bytes the client can reproduce
          stored,       \* the bytes the provider has
          price,        \* the price the upload was quoted at
          round,        \* the round of the watch, and its nonce
          stage,        \* the step of the round
          ranges,       \* the ranges of the challenge
          given,        \* proofs the provider has computed
          proof,        \* the proof it answered with
          had,          \* rounds in which it had the bytes (history)
          paid          \* paid[n]: sats paid in round n
watchVars == <<local, stored, price, round, stage, ranges, given, proof, had, paid>>

Data == UNION {[1 .. n -> Byte] : n \in 0 .. MaxLen}
ByteRange == [offset : 0 .. MaxLen, length : 1 .. MaxRange]
NoProof == [nonce |-> 0, full |-> <<>>, parts |-> <<>>]

Smaller(i, j) == IF i < j THEN i ELSE j
Larger(i, j) == IF i > j THEN i ELSE j
CeilDiv(i, j) == (i + j - 1) \div j

(***************************************************************************)
(* proof.rs.                                                               *)
(***************************************************************************)
\* Bug: the offset is drawn from the whole file.
Offsets_Fault(len, length) == 0 .. len - 1

\* The offsets a range of this length may be drawn from.
Offsets(len, length) == 0 .. Larger(len - length, 0)

\* The lengths a range of a file of this length may have.
Lengths(len) == 1 .. Smaller(Larger(len, 1), MaxRange)

SliceStart(data, r) == Smaller(r.offset, Len(data))
SliceEnd(data, r) == Smaller((r.offset + r.length) % Word, Len(data))

\* Taking a slice that ends before it starts panics.
HasSlice(data, r) == SliceStart(data, r) <= SliceEnd(data, r)

Slice(data, r) == SubSeq(data, SliceStart(data, r) + 1, SliceEnd(data, r))

Proof(nonce, rs, data) ==
    [nonce |-> nonce, full |-> <<nonce, data>>,
     parts |-> [i \in DOMAIN rs |-> <<nonce, Slice(data, rs[i])>>]]

\* Bug: only the ranges are compared.
Verifies_Fault(nonce, rs, data, p) ==
    /\ p.nonce = nonce
    /\ p.parts = Proof(nonce, rs, data).parts

Verifies(nonce, rs, data, p) ==
    /\ p.nonce = nonce
    /\ p.full = Proof(nonce, rs, data).full
    /\ p.parts = Proof(nonce, rs, data).parts

(***************************************************************************)
(* Prices: quote_msat, and the amount that watch pays of it.               *)
(***************************************************************************)
\* Bug: the MiB that has begun is not counted.
QuoteMsat_Fault(size, p) == (Larger(size \div MiB, 1) * p * 1000) % Word

QuoteMsat(size, p) == (Larger(CeilDiv(size, MiB), 1) * p * 1000) % Word

AmountSat(msat) == Larger(CeilDiv(msat, 1000), 1)

WatchInit ==
    /\ local \in Data
    /\ stored = local
    /\ price \in Prices
    /\ round = 1
    /\ stage = "challenge"
    /\ ranges = <<>>
    /\ given = {}
    /\ proof = NoProof
    /\ had = {}
    /\ paid = [n \in 1 .. Rounds |-> 0]

\* The provider loses bytes, or has others instead.
Lose ==
    /\ stored = local
    /\ stored' \in Data \ {local}
    /\ UNCHANGED <<local, price, round, stage, ranges, given, proof, had, paid>>

(***************************************************************************)
(* One round.                                                              *)
(***************************************************************************)
\* make_challenge: one more range of a file that is not empty.
MakeRange ==
    /\ stage = "challenge"
    /\ local # <<>>
    /\ Len(ranges) < NRanges
    /\ \E length \in Lengths(Len(local)) : \E offset \in Offsets(Len(local), length) :
         ranges' = Append(ranges, [offset |-> offset, length |-> length])
    /\ UNCHANGED <<local, stored, price, round, stage, given, proof, had, paid>>

SendChallenge ==
    /\ stage = "challenge"
    /\ local = <<>> \/ Len(ranges) = NRanges
    /\ stage' = "asked"
    /\ UNCHANGED <<local, stored, price, round, ranges, given, proof, had, paid>>

\* answer_challenge: the proof of the bytes the provider has.
Answer ==
    /\ stage = "asked"
    /\ proof' = Proof(round, ranges, stored)
    /\ given' = given \cup {Proof(round, ranges, stored)}
    /\ had' = IF stored = local THEN had \cup {round} ELSE had
    /\ stage' = "answered"
    /\ UNCHANGED <<local, stored, price, round, ranges, paid>>

\* answer_challenge for another caller, under a nonce of its own (0 stands for
\* all of them) and ranges that may be of no file.  The provider keeps a proof
\* of the bytes it has.  When there is no slice to take, or the sum overflows in
\* a build with overflow checks, the task of that request panics: no lock is held,
\* nothing is changed and no proof is given.  At most one such proof is kept.
AnswerOther ==
    /\ \A p \in given : p.nonce # 0
    /\ \E r \in OtherRanges :
         /\ HasSlice(stored, r)
         /\ given' = given \cup {Proof(0, <<r>>, stored)}
    /\ UNCHANGED <<local, stored, price, round, stage, ranges, proof, had, paid>>

\* The provider answers with a proof it gave before, as it is or with the
\* nonce of this round put on it.
Replay ==
    /\ stage = "asked"
    /\ \E p \in given : proof' \in {p, [p EXCEPT !.nonce = round]}
    /\ stage' = "answered"
    /\ UNCHANGED <<local, stored, price, round, ranges, given, had, paid>>

\* The request fails ("verify error: ... withholding payment").
VerifyError ==
    /\ stage = "asked"
    /\ stage' = "sleep"
    /\ UNCHANGED <<local, stored, price, round, ranges, given, proof, had, paid>>

\* A payment for a proof that checks out, unless the payment itself fails; a
\* proof that does not check out is only reported.
Settle ==
    /\ stage = "answered"
    /\ paid' \in IF Verifies(round, ranges, local, proof)
                 THEN {paid, [paid EXCEPT ![round] = AmountSat(QuoteMsat(Len(local), price))]}
                 ELSE {paid}
    /\ stage' = "sleep"
    /\ UNCHANGED <<local, stored, price, round, ranges, given, proof, had>>

NextRound ==
    /\ stage = "sleep"
    /\ round < Rounds
    /\ round' = round + 1
    /\ stage' = "challenge"
    /\ ranges' = <<>>
    /\ proof' = NoProof
    /\ UNCHANGED <<local, stored, price, given, had, paid>>

WatchNext == \/ Lose \/ MakeRange \/ SendChallenge \/ Answer \/ AnswerOther \/ Replay
             \/ VerifyError \/ Settle \/ NextRound

WatchSpec == WatchInit /\ [][WatchNext]_watchVars

(***************************************************************************)
(* Properties.                                                             *)
(***************************************************************************)
\* Every variable stays in the states of a watch.
WatchTypeOK ==
    /\ local \in Data
    /\ stored \in Data
    /\ price \in Prices
    /\ round \in 1 .. Larger(Rounds, 1)
    /\ stage \in {"challenge", "asked", "answered", "sleep"}
    /\ ranges \in Seq(ByteRange)
    /\ had \subseteq 1 .. Rounds
    /\ paid \in [1 .. Rounds -> Nat]

\* A range of the client's challenge lies inside the client's file, whatever was drawn, so
\* nothing of it is clipped there; and the slice taken of what the provider has,
\* shorter or longer, never ends before it starts (proof.rs:80-84 would panic),
\* as one of another caller's ranges may.
RangesInFile ==
    \A i \in DOMAIN ranges : LET r == ranges[i] IN
        /\ r.offset + r.length <= Len(local)
        /\ HasSlice(stored, r)

\* "Because the nonce is fresh, the server cannot precompute answers"
\* (proof.rs:12-13): a round is paid only if the provider had the bytes in that
\* round, after it was challenged, not for a proof of an earlier round.
PaidOnlyIfStored == \A n \in 1 .. Rounds : paid[n] > 0 => n \in had

\* What a round pays is at least the price of the bytes and less than a MiB
\* above it, unless the quote has wrapped.
PaymentCoversPrice ==
    \A n \in 1 .. Rounds :
        paid[n] > 0 /\ (Len(local) + MiB) * price * 1000 < Word * MiB =>
            /\ paid[n] * MiB >= Len(local) * price
            /\ paid[n] * MiB < (Len(local) + MiB) * price \/ paid[n] = price
=============================================================================
