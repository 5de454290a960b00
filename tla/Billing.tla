------------------------------- MODULE Billing -------------------------------
(***************************************************************************)
(* How a backup is paid for, from the client's `watch` and `pay` commands  *)
(* (main.rs) to the provider's records.  A watch asks for a proof of       *)
(* storage and pays when it is good, then sleeps for its interval, and so  *)
(* on.  A pay command pays at once.  Either pays with its own wallet the   *)
(* offer the server shows (pay_offer), or claims a payment at the server   *)
(* (pay_mock).  Every request may fail, and a failed one may have had its  *)
(* effect, or have it later.                                               *)
(*                                                                         *)
(* The provider's side is Payments, by INSTANCE: round <<w, i>>, the i-th  *)
(* of command w, is one of its Lightning payments if w pays with a wallet, *)
(* else one of its claims.  Amounts are those of ProofOfStorage!QuoteMsat. *)
(***************************************************************************)
EXTENDS Naturals, Sequences, Functions

CONSTANTS Client,       \* watch and pay commands
          RealPayment,  \* commands with --real-payment
          BackupOf,     \* BackupOf[w]: the backup command w is about
          RoundId,      \* RoundId[<<w, i>>]: the payment or claim of round i of w
          Backup, NoNote, RandomId, MaxEvents,      \* see Payments
          MaxRounds     \* bound on the rounds of a watch

ASSUME ClientAssumption ==
    RealPayment \subseteq Client /\ BackupOf \in [Client -> Backup]
ASSUME RoundsAssumption == MaxRounds \in Nat \ {0}

VARIABLES wallet, durable, known, settled, emitted, channel, consumer, claims,
          records, drawn, lost,         \* the provider, see Payments
          payOnly,      \* the pay commands; the others are watches
          stored,       \* does the provider still have the bytes?
          pc, round,    \* the step and the round each command is at
          proved,       \* rounds with a good proof
          sent,         \* rounds whose payment or claim was sent
          said          \* what the command printed about each round
server == <<wallet, durable, known, settled, emitted, channel, consumer, claims, records,
            drawn, lost>>
client == <<payOnly, pc, round, proved, sent, said>>
vars == <<server, stored, client>>

Rounds(W) == W \X (1 .. MaxRounds)
Round == Rounds(Client)
RealRound == Rounds(RealPayment)
MockRound == Rounds(Client \ RealPayment)

ASSUME RoundIdAssumption == IsInjective(RoundId) /\ DOMAIN RoundId = Round
\* What Payments assumes of its constants; hashes are not random identifiers.
ASSUME ProviderAssumption ==
    /\ {RoundId[p] : p \in RealRound} \cap RandomId = {}
    /\ NoNote \notin Backup
    /\ MaxEvents \in Nat

RoundOf(id) == CHOOSE p \in Round : RoundId[p] = id

Server == INSTANCE Payments
            WITH Payment <- {RoundId[p] : p \in RealRound},
                 Claim <- {RoundId[p] : p \in MockRound},
                 Hashless <- {},
                 Note <- [id \in Range(RoundId) |-> BackupOf[RoundOf(id)[1]]]

Watch == Client \ payOnly

PayStep(w) == IF w \in RealPayment THEN "offer" ELSE "claim"

Init ==
    /\ Server!Init
    /\ stored = TRUE
    /\ payOnly \in SUBSET Client
    /\ pc = [w \in Client |-> IF w \in Watch THEN "verify" ELSE PayStep(w)]
    /\ round = [w \in Client |-> 1]
    /\ proved = {}
    /\ sent = {}
    /\ said = [p \in Round |-> "nothing"]

This(w) == <<w, round[w]>>

GoTo(w, step) == pc' = [pc EXCEPT ![w] = step]

\* A round is over, and the command says how.
Say(w, what) ==
    /\ said' = [said EXCEPT ![This(w)] = what]
    /\ GoTo(w, "over")

\* The provider answers a proof of bytes it does not have, see ProofOfStorage:
\* never a good one.
GoodProof(w) == stored /\ BackupOf[w] \in known

\* Bug: an error of the verification is not told from a good proof.
Verify_Fault(w) ==
    /\ pc[w] = "verify"
    /\ \/ /\ GoodProof(w)
          /\ proved' = proved \cup {This(w)}
          /\ GoTo(w, PayStep(w))
          /\ UNCHANGED said
       \/ GoTo(w, PayStep(w)) /\ UNCHANGED <<proved, said>>
    /\ UNCHANGED <<server, stored, payOnly, round, sent>>

\* verify_from_ledger: a good proof, or a failed one or an error of either
\* request, and the payment is withheld.
Verify(w) ==
    /\ pc[w] = "verify"
    /\ \/ /\ GoodProof(w)
          /\ proved' = proved \cup {This(w)}
          /\ GoTo(w, PayStep(w))
          /\ UNCHANGED said
       \/ Say(w, "withheld") /\ UNCHANGED proved
    /\ UNCHANGED <<server, stored, payOnly, round, sent>>

(***************************************************************************)
(* A payment with the client's wallet.                                     *)
(***************************************************************************)
\* get_live_offer: the offer of the server's wallet or of its configuration; it
\* may have none, or the request fails.
GetOffer(w) ==
    /\ pc[w] = "offer"
    /\ \/ GoTo(w, "send") /\ UNCHANGED said
       \/ Say(w, "failed")
    /\ UNCHANGED <<server, stored, payOnly, round, proved, sent>>

\* pay_offer hands the payment to the SDK; what comes before may fail.
Send(w) ==
    /\ pc[w] = "send"
    /\ \/ /\ sent' = sent \cup {This(w)}
          /\ GoTo(w, "sending")
          /\ UNCHANGED said
       \/ Say(w, "failed") /\ UNCHANGED sent
    /\ UNCHANGED <<server, stored, payOnly, round, proved>>

\* A payment that was sent may reach the provider's wallet at any time.
Settle(p) ==
    /\ p \in sent
    /\ Server!Settle(RoundId[p])
    /\ UNCHANGED <<stored, client>>

\* send_payment returns the payment, whatever its status, and pay_offer does
\* not look at that: one said to be paid may be pending, and settle later or
\* never.  Or it returns an error, whatever becomes of the payment.
Paid(w) ==
    /\ pc[w] = "sending"
    /\ Say(w, "paid") \/ Say(w, "failed")
    /\ UNCHANGED <<server, stored, payOnly, round, proved, sent>>

(***************************************************************************)
(* pay_mock.                                                               *)
(***************************************************************************)
\* The server takes the request; it may also never arrive.
PostClaim(w) ==
    /\ pc[w] = "claim"
    /\ \/ /\ Server!ClaimPayment(RoundId[This(w)])
          /\ sent' = sent \cup {This(w)}
          /\ GoTo(w, "claiming")
          /\ UNCHANGED said
       \/ Say(w, "failed") /\ UNCHANGED <<server, sent>>
    /\ UNCHANGED <<stored, payOnly, round, proved>>

\* Bug: the status of the answer is not looked at.
ClaimAnswered_Fault(w) ==
    /\ pc[w] = "claiming"
    /\ \/ claims[RoundId[This(w)]].pc # "put" /\ Say(w, "paid")
       \/ Say(w, "failed")
    /\ UNCHANGED <<server, stored, payOnly, round, proved, sent>>

\* The server's answer, or an error in its place.  An answer that was sent
\* may arrive after the server has restarted.
ClaimAnswered(w) ==
    /\ pc[w] = "claiming"
    /\ \/ claims[RoundId[This(w)]].pc \in {"created", "forgotten"} /\ Say(w, "paid")
       \/ Say(w, "failed")
    /\ UNCHANGED <<server, stored, payOnly, round, proved, sent>>

(***************************************************************************)
(* Rounds and faults.                                                      *)
(***************************************************************************)
\* A watch with rounds left sleeps, and asks for the next proof.
NextRound(w) ==
    /\ pc[w] = "over"
    /\ w \in Watch /\ round[w] < MaxRounds
    /\ round' = [round EXCEPT ![w] = @ + 1]
    /\ GoTo(w, "verify")
    /\ UNCHANGED <<server, stored, payOnly, proved, sent, said>>

\* A command ends, or is killed.
End(w) ==
    /\ pc[w] # "done"
    /\ GoTo(w, "done")
    /\ UNCHANGED <<server, stored, payOnly, round, proved, sent, said>>

\* The provider loses the bytes; an in-memory store loses its listing too, see
\* Payments!Restart, and has both again when the backup is uploaded again.
LoseBytes ==
    /\ stored
    /\ stored' = FALSE
    /\ UNCHANGED <<server, client>>

\* The provider's steps that are not an answer to these commands.
Provider ==
    /\ \/ \E b \in Backup : Server!ListBackup(b)
       \/ \E p \in RealRound : Server!OnEvent(RoundId[p])
       \/ Server!Consume
       \/ Server!StoreError
       \/ Server!Restart
       \/ \E p \in MockRound : Server!PutClaim(RoundId[p])
    /\ UNCHANGED <<stored, client>>

Next ==
    \/ \E w \in Client :
         \/ Verify(w) \/ GetOffer(w) \/ Send(w) \/ Paid(w)
         \/ PostClaim(w) \/ ClaimAnswered(w)
         \/ NextRound(w) \/ End(w)
    \/ \E p \in RealRound : Settle(p)
    \/ Provider
    \/ LoseBytes

Spec == Init /\ [][Next]_vars

\* The consumer task runs whenever it has an event.  Nothing makes the SDK emit
\* the event of a payment, nor a payment settle that was said to be paid.
FairSpec == Spec /\ WF_vars(Server!Consume /\ UNCHANGED <<stored, client>>)

(***************************************************************************)
(* Properties.                                                             *)
(***************************************************************************)
RecordsOf(p) == Server!RecordsOf(RoundId[p])

\* Every variable of the client's side stays in the states of the commands.
TypeOK ==
    /\ stored \in BOOLEAN
    /\ payOnly \subseteq Client
    /\ pc \in [Client -> {"verify", "offer", "send", "sending", "claim", "claiming",
                          "over", "done"}]
    /\ round \in [Client -> 1 .. MaxRounds]
    /\ proved \subseteq Round
    /\ sent \subseteq Round
    /\ said \in [Round -> {"nothing", "withheld", "failed", "paid"}]

\* "Proof fails: payment is withheld.  Storage stays honest because revenue
\* stops the moment data drops" (README.md:40-41): what the provider receives
\* or records of a watch is for rounds in which it proved that it had the bytes.
RevenueIsProved ==
    \A p \in Rounds(Watch) :
        RoundId[p] \in settled \/ RecordsOf(p) # {} => p \in proved

\* A round costs at most once.  Of a withheld one the provider has received and
\* recorded nothing.  A claim that is said to be paid has its record, or had it
\* before an in-memory store forgot it.  Whatever failed may be either, and so
\* may a payment with the client's wallet that is said to be paid: its status
\* is not looked at (pivss-ln/src/lib.rs:224-240).
SaidMatchesProvider ==
    \A p \in Round :
        /\ \A j, k \in RecordsOf(p) : j = k
        /\ said[p] = "withheld" => RoundId[p] \notin settled /\ RecordsOf(p) = {}
        /\ said[p] = "paid" /\ p \in MockRound =>
             /\ ~wallet
             /\ RecordsOf(p) # {} \/ claims[RoundId[p]].pc = "forgotten"

\* A watch pays for a backup that it has just been proved, so what it pays is
\* never let go as the payment of an unknown backup: over a vss-server, a
\* payment of a watch whose event reached the channel is recorded in the end,
\* unless the store answers the consumer with an error or the server restarts.
\* (A pay command may name a backup that is not listed yet; and an in-memory
\* store may forget the backup before the event comes.)
WatchEventIsRecorded ==
    \A p \in RealRound :
        (/\ durable /\ p \in Rounds(Watch)
         /\ \E i \in DOMAIN channel : channel[i] = RoundId[p])
            ~> RecordsOf(p) # {} \/ lost[RoundId[p]] \in {"storeError", "restart"}
=============================================================================
