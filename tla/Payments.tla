------------------------------ MODULE Payments ------------------------------
(***************************************************************************)
(* How pivss-server comes to record that a backup was paid for.  With a    *)
(* real wallet, the Breez SDK's events go through ForwardingListener into  *)
(* an unbounded channel; one task takes them out and                       *)
(* match_and_record_incoming_payment looks the payer note up as a backup   *)
(* id and puts a record at `payments/{payment hash}`, or at a random id    *)
(* when the event has no hash.  Without a wallet, clients claim payments   *)
(* (record_payment).  Records are never deleted, but the in-memory store    *)
(* (the default) forgets them, and every backup, when the server restarts. *)
(***************************************************************************)
EXTENDS VersionedStore, Sequences

CONSTANTS Payment,      \* Lightning payments the provider may receive
          Claim,        \* record_payment requests
          Backup,       \* backup ids
          NoNote,       \* a payment without a payer note
          Note,         \* Note[x]: the backup id payment or claim x names
          Hashless,     \* payments whose events carry no payment hash
          RandomId,     \* identifiers drawn at random (8 bytes, assumed distinct)
          MaxEvents     \* bound on the events the SDK emits for one payment

ASSUME NoteAssumption == Note \in [Payment \cup Claim -> Backup \cup {NoNote}]
ASSUME DistinctAssumption ==
    Payment \cap Claim = {} /\ Payment \cap RandomId = {} /\ NoNote \notin Backup
ASSUME HashlessAssumption == Hashless \subseteq Payment
ASSUME MaxEventsAssumption == MaxEvents \in Nat

VARIABLES wallet,       \* is a real wallet connected (lightning.enable)?
          durable,      \* is the store a vss-server, or in memory (config.rs:80)?
          known,        \* backups that have a manifest in the store
          settled,      \* payments the provider's wallet has received
          emitted,      \* emitted[p]: events the SDK has emitted for p
          channel,      \* events sent to the consumer task
          consumer,     \* what the consumer task is doing, and for which payment
          claims,       \* the step each record_payment request is at
          records,      \* records[k]: the cell of the key payments/{k}
          drawn,        \* random identifiers drawn so far
          lost          \* lost[p]: how the server let go of p since p's last event
vars == <<wallet, durable, known, settled, emitted, channel, consumer, claims, records, drawn,
          lost>>

Key == Payment \cup RandomId
Payer == Payment \cup Claim
NoOne == "none"
NoRecord == [payer |-> NoOne, backup |-> NoOne]
Waiting == [pc |-> "recv", payment |-> NoOne, id |-> NoOne]

Init ==
    /\ wallet \in BOOLEAN
    /\ durable \in BOOLEAN
    /\ known = {}
    /\ settled = {}
    /\ emitted = [p \in Payment |-> 0]
    /\ channel = <<>>
    /\ consumer = Waiting
    /\ claims = [c \in Claim |-> [pc |-> "idle", id |-> NoOne]]
    /\ records = [k \in Key |-> Absent(NoRecord)]
    /\ drawn = {}
    /\ lost = [p \in Payment |-> "no"]

\* A first upload lists backup b: get_backup(b) finds it as long as the store lasts.
ListBackup(b) ==
    /\ b \notin known
    /\ known' = known \cup {b}
    /\ UNCHANGED <<wallet, durable, settled, emitted, channel, consumer, claims, records, drawn,
                   lost>>

\* get_backup with a store that answers.
Correlates(x) == Note[x] \in known

(***************************************************************************)
(* The wallet.  A payment settles whatever the server is doing; the SDK    *)
(* emits its event while the server runs, possibly again after a restart.  *)
(***************************************************************************)
Settle(p) ==
    /\ wallet
    /\ p \notin settled
    /\ settled' = settled \cup {p}
    /\ UNCHANGED <<wallet, durable, known, emitted, channel, consumer, claims, records, drawn,
                   lost>>

\* ForwardingListener::on_event for an incoming Lightning payment.  It lets
\* every other event go: a payment that reached the wallet over Liquid or
\* on-chain is settled, and none of its events comes here.
OnEvent(p) ==
    /\ p \in settled
    /\ emitted[p] < MaxEvents
    /\ emitted' = [emitted EXCEPT ![p] = @ + 1]
    /\ channel' = Append(channel, p)
    /\ lost' = [lost EXCEPT ![p] = "no"]
    /\ UNCHANGED <<wallet, durable, known, settled, consumer, claims, records, drawn>>

(***************************************************************************)
(* match_and_record_incoming_payment, one payment at a time.               *)
(***************************************************************************)
\* The consumer is done with its payment, which the server lets go of.
LetGo(p, how) == consumer' = Waiting /\ lost' = [lost EXCEPT ![p] = how]

\* The consumer takes the next event; a payment with no note ends there.
Receive ==
    /\ consumer.pc = "recv"
    /\ channel # <<>>
    /\ channel' = Tail(channel)
    /\ LET p == Head(channel) IN
       IF Note[p] = NoNote
       THEN LetGo(p, "uncorrelated")
       ELSE consumer' = [pc |-> "lookup", payment |-> p, id |-> NoOne] /\ UNCHANGED lost
    /\ UNCHANGED <<wallet, durable, known, settled, emitted, claims, records, drawn>>

\* The random identifiers a new record may get.
Fresh == RandomId \ drawn

\* payment_hash, or a random identifier.
PaymentId_Fault(p) == IF Fresh = {} THEN {p} ELSE Fresh
\* Bug: all payments for one backup share a key.
PaymentId_PerBackup(p) == {CHOOSE q \in Payment : Note[q] = Note[p]}
PaymentId(p) == IF p \in Hashless THEN Fresh ELSE {p}

Lookup ==
    /\ consumer.pc = "lookup"
    /\ LET p == consumer.payment IN
       IF Correlates(p)
       THEN \E id \in PaymentId(p) :
              /\ consumer' = [consumer EXCEPT !.pc = "put", !.id = id]
              /\ drawn' = drawn \cup ({id} \ Payment)
              /\ UNCHANGED lost
       ELSE LetGo(p, "uncorrelated") /\ UNCHANGED drawn
    /\ UNCHANGED <<wallet, durable, known, settled, emitted, channel, claims, records>>

RecordWrite(id, x) ==
    records' = [records EXCEPT ![id] =
                  Put(@, FirstWrite, [payer |-> x, backup |-> Note[x]])]

\* Bug: a refused put ends the consumer task.
PutRecord_Fault ==
    /\ consumer.pc = "put"
    /\ RecordWrite(consumer.id, consumer.payment)
    /\ consumer' = IF Accepts(records[consumer.id], FirstWrite)
                   THEN Waiting ELSE [consumer EXCEPT !.pc = "stopped"]
    /\ UNCHANGED <<wallet, durable, known, settled, emitted, channel, claims, drawn, lost>>

\* A put that is refused (the hash is recorded already) is only logged.
PutRecord ==
    /\ consumer.pc = "put"
    /\ RecordWrite(consumer.id, consumer.payment)
    /\ consumer' = Waiting
    /\ UNCHANGED <<wallet, durable, known, settled, emitted, channel, claims, drawn, lost>>

\* The vss-server answers the lookup or the put with an error: the payment is
\* let go, and the put may or may not have been applied.  The in-memory store
\* always answers.
StoreError ==
    /\ durable
    /\ consumer.pc \in {"lookup", "put"}
    /\ LetGo(consumer.payment, "storeError")
    /\ \/ UNCHANGED records
       \/ consumer.pc = "put" /\ RecordWrite(consumer.id, consumer.payment)
    /\ UNCHANGED <<wallet, durable, known, settled, emitted, channel, claims, drawn>>

\* Payments that are only in the memory of the server.
InMemory ==
    {channel[i] : i \in DOMAIN channel} \cup {consumer.payment}
        \cup {records[k].value.payer : k \in {k \in Key : ~durable /\ Present(records[k])}}

\* A request that waits for its put ends; a claim that was answered 201 stays
\* answered, but the in-memory store has forgotten its record.
AfterRestart(claim) ==
    CASE claim.pc = "put" -> [claim EXCEPT !.pc = "failed"]
      [] claim.pc = "created" /\ ~durable -> [claim EXCEPT !.pc = "forgotten"]
      [] OTHER -> claim

\* The server stops and starts again: the channel and every request are gone,
\* and with the in-memory store every backup and record.
Restart ==
    /\ channel' = <<>>
    /\ consumer' = Waiting
    /\ claims' = [c \in Claim |-> AfterRestart(claims[c])]
    /\ known' = IF durable THEN known ELSE {}
    /\ records' = IF durable THEN records ELSE [k \in Key |-> Absent(NoRecord)]
    /\ lost' = [p \in Payment |-> IF p \in InMemory THEN "restart" ELSE lost[p]]
    /\ UNCHANGED <<wallet, durable, settled, emitted, drawn>>

(***************************************************************************)
(* record_payment.                                                         *)
(***************************************************************************)
\* The claim is recorded under a random identifier.
Accept(c, step) ==
    \E id \in Fresh : /\ claims' = [claims EXCEPT ![c] = [pc |-> step, id |-> id]]
                      /\ drawn' = drawn \cup {id}

\* Refused: a wallet is connected, or the backup is not found.
RefuseClaim(c) == claims' = [claims EXCEPT ![c].pc = "refused"] /\ UNCHANGED drawn

\* Bug: the claim is accepted although a wallet is connected.
ClaimPayment_Fault(c) ==
    /\ claims[c].pc = "idle"
    /\ IF Correlates(c) THEN Accept(c, "put") ELSE RefuseClaim(c)
    /\ UNCHANGED <<wallet, durable, known, settled, emitted, channel, consumer, records, lost>>

\* Bug: the claim is answered before it is put.
ClaimPayment_EarlyReply(c) ==
    /\ claims[c].pc = "idle"
    /\ IF ~wallet /\ Correlates(c) THEN Accept(c, "created") ELSE RefuseClaim(c)
    /\ UNCHANGED <<wallet, durable, known, settled, emitted, channel, consumer, records, lost>>

ClaimPayment(c) ==
    /\ claims[c].pc = "idle"
    /\ IF ~wallet /\ Correlates(c) THEN Accept(c, "put") ELSE RefuseClaim(c)
    /\ UNCHANGED <<wallet, durable, known, settled, emitted, channel, consumer, records, lost>>

\* The put and its answer; an error of the vss-server is answered whether or
\* not the put was applied.
PutClaim(c) ==
    /\ claims[c].pc = "put"
    /\ \/ /\ RecordWrite(claims[c].id, c)
          /\ claims' = [claims EXCEPT ![c].pc = "created"]
       \/ /\ durable
          /\ UNCHANGED records \/ RecordWrite(claims[c].id, c)
          /\ claims' = [claims EXCEPT ![c].pc = "failed"]
    /\ UNCHANGED <<wallet, durable, known, settled, emitted, channel, consumer, drawn, lost>>

Consume == Receive \/ Lookup \/ PutRecord

Next ==
    \/ \E b \in Backup : ListBackup(b)
    \/ \E p \in Payment : Settle(p) \/ OnEvent(p)
    \/ Consume
    \/ StoreError
    \/ Restart
    \/ \E c \in Claim : ClaimPayment(c) \/ PutClaim(c)

Spec == Init /\ [][Next]_vars

\* The consumer task runs whenever it has an event.
FairSpec == Spec /\ WF_vars(Consume)

(***************************************************************************)
(* Properties.                                                             *)
(***************************************************************************)
Recorded == {k \in Key : Present(records[k])}

RecordsOf(x) == {k \in Recorded : records[k].value.payer = x}

Record == [payer : Payer, backup : Backup]

Loss == {"no", "uncorrelated", "storeError", "restart"}

\* Every variable stays in the states of the listener, the consumer and
\* record_payment.
TypeOK ==
    /\ wallet \in BOOLEAN
    /\ durable \in BOOLEAN
    /\ known \subseteq Backup
    /\ settled \subseteq Payment
    /\ emitted \in [Payment -> 0 .. MaxEvents]
    /\ channel \in Seq(Payment)
    /\ consumer \in [pc : {"recv", "lookup", "put"}, payment : Payment \cup {NoOne},
                     id : Key \cup {NoOne}]
    /\ claims \in [Claim -> [pc : {"idle", "put", "refused", "created", "failed", "forgotten"},
                             id : RandomId \cup {NoOne}]]
    /\ records \in [Key -> [version : {0, 1}, value : Record \cup {NoRecord}]]
    /\ drawn \subseteq RandomId
    /\ lost \in [Payment -> Loss]

\* A payment with a hash counts once, however often the SDK emits it, the
\* server restarts, or a put is applied although its answer was an error.
RecordedOnce ==
    \A p \in Payment \ Hashless : \A j, k \in RecordsOf(p) : j = k

\* "The server never trusts a client's claim" (state.rs:446): with a wallet
\* connected, every record is a payment the wallet received, counted for the
\* listed backup its payer named.
RecordsAreReceived ==
    wallet => \A k \in Recorded :
        LET r == records[k].value IN
        /\ r.payer \in settled
        /\ r.backup = Note[r.payer]
        /\ r.backup \in known

\* A claim answered 201 has one record, under the identifier drawn for it,
\* until an in-memory store forgets it; one that was refused has none.
ClaimsMatchRecords ==
    \A c \in Claim :
        /\ claims[c].pc = "created" => RecordsOf(c) = {claims[c].id}
        /\ claims[c].pc = "forgotten" => ~durable /\ RecordsOf(c) = {}
        /\ claims[c].pc = "refused" => RecordsOf(c) = {}

\* A payment whose event reached the channel is still on its way, or recorded,
\* or was let go for a reason there is a name for: the lookup found no such
\* backup, the store answered with an error, or the server restarted.  A put
\* that is refused loses nothing: what it found there is the payment's record.
LossHasCause ==
    \A p \in Payment : emitted[p] > 0 =>
        \/ \E i \in DOMAIN channel : channel[i] = p
        \/ consumer.pc # "recv" /\ consumer.payment = p
        \/ RecordsOf(p) # {}
        \/ lost[p] # "no"

\* A payment for a listed backup whose event reached the channel is recorded
\* in the end, also behind events that are dropped or recorded already, unless
\* the store answers the consumer with an error or the server restarts.
QueuedIsRecorded ==
    \A p \in Payment :
        (Correlates(p) /\ \E i \in DOMAIN channel : channel[i] = p)
            ~> RecordsOf(p) # {} \/ lost[p] \in {"storeError", "restart"}
=============================================================================
