--------------------------- MODULE PaymentsProofs ---------------------------
(***************************************************************************)
(* Proofs about Payments for every set of payments, claims, backups and    *)
(* identifiers: what is recorded was received or claimed, once, whatever   *)
(* is emitted again, fails or restarts.                                    *)
(***************************************************************************)
EXTENDS Payments, TLAPS

\* A record names its payer's backup, which is listed; one of a payment was
\* received, and is at the payment's hash, where no other record is; one of a
\* claim means there is no wallet.
RecordsSound ==
    \A k \in Key : Present(records[k]) =>
        /\ records[k].value.payer \in Payer
        /\ records[k].value.backup = Note[records[k].value.payer]
        /\ records[k].value.backup \in known
        /\ records[k].value.payer \in Payment => records[k].value.payer \in settled
        /\ records[k].value.payer \in Payment \ Hashless => k = records[k].value.payer
        /\ k \in Payment => k = records[k].value.payer
        /\ records[k].value.payer \in Claim => ~wallet

\* Events on their way are of payments that were received.
EventsSound ==
    /\ \A i \in DOMAIN channel : channel[i] \in settled
    /\ consumer.pc \in {"lookup", "put"} => consumer.payment \in settled
    /\ consumer.pc = "put" =>
         /\ Note[consumer.payment] \in known
         /\ consumer.id \in Key
         /\ consumer.payment \notin Hashless => consumer.id = consumer.payment
         /\ consumer.payment \in Hashless => consumer.id \in drawn

HasId(c) == claims[c].pc \in {"put", "created", "failed"}

\* An identifier belongs to one claim, or to the consumer, and its record is
\* absent until its owner puts it.
IdsSound ==
    /\ \A k \in RandomId \ drawn : ~Present(records[k])
    /\ consumer.pc = "put" /\ consumer.payment \in Hashless => ~Present(records[consumer.id])
    /\ \A c \in Claim : HasId(c) =>
         /\ claims[c].id \in drawn
         /\ \A d \in Claim : HasId(d) /\ claims[d].id = claims[c].id => d = c
         /\ consumer.pc = "put" => consumer.id # claims[c].id
    /\ \A c \in Claim : claims[c].pc = "put" =>
         /\ ~wallet
         /\ Note[c] \in known
         /\ ~Present(records[claims[c].id])

\* The records of a claim are the one it has put.  Claims are created without
\* a wallet, and forgotten by an in-memory store.
ClaimsSound ==
    \A c \in Claim :
        /\ \A k \in Key : Present(records[k]) /\ records[k].value.payer = c =>
             HasId(c) /\ k = claims[c].id
        /\ claims[c].pc = "created" =>
             Present(records[claims[c].id]) /\ records[claims[c].id].value.payer = c
        /\ claims[c].pc \in {"created", "forgotten"} => ~wallet
        /\ claims[c].pc = "forgotten" => ~durable

PInv == TypeOK /\ RecordsSound /\ EventsSound /\ IdsSound /\ ClaimsSound

-----------------------------------------------------------------------------
(* Effects.                                                                *)

RecordCell == [version : {0, 1}, value : Record \cup {NoRecord}]

\* A record is put where there is none, and nothing else changes.
LEMMA RecordWriteEffect ==
    ASSUME TypeOK, NEW id \in Key, NEW x \in Payer, Note[x] \in Backup, RecordWrite(id, x)
    PROVE  /\ records' \in [Key -> RecordCell]
           /\ \A k \in Key :
                records'[k] = IF k = id /\ ~Present(records[k])
                              THEN [version |-> 1, value |-> [payer |-> x, backup |-> Note[x]]]
                              ELSE records[k]
<1> DEFINE new == [payer |-> x, backup |-> Note[x]]
<1>1. records \in [Key -> RecordCell]
  BY DEF TypeOK, RecordCell
<1>2. new \in Record
  BY DEF Record
<1>3. \A cell \in RecordCell :
        Put(cell, FirstWrite, new) =
          IF ~Present(cell) THEN [version |-> 1, value |-> new] ELSE cell
  BY DEF Put, Accepts, FirstWrite, Unconditional, NewVersion, Present, RecordCell
<1>4. [version |-> 1, value |-> new] \in RecordCell
  BY <1>2 DEF RecordCell
<1>5. records' = [records EXCEPT ![id] = Put(records[id], FirstWrite, new)]
  BY DEF RecordWrite
<1>. HIDE DEF new
<1>. QED
  BY <1>1, <1>3, <1>4, <1>5 DEF new

\* The initial states.
LEMMA InitInv == Init => PInv
<1>. SUFFICES ASSUME Init PROVE PInv
  OBVIOUS
<1>1. \A k \in Key : ~Present(records[k])
  BY DEF Init, Present, Absent
<1>2. TypeOK
  BY MaxEventsAssumption DEF Init, TypeOK, Absent, Waiting, Loss
<1>3. channel = <<>> /\ consumer.pc = "recv" /\ \A c \in Claim : claims[c].pc = "idle"
  BY DEF Init, Waiting
<1>4. EventsSound
  BY <1>3 DEF EventsSound
<1>5. RecordsSound
  BY <1>1 DEF RecordsSound
<1>6. IdsSound
  BY <1>1, <1>3 DEF IdsSound, HasId, Key
<1>7. ClaimsSound
  BY <1>1, <1>3 DEF ClaimsSound
<1>. QED
  BY <1>2, <1>4, <1>5, <1>6, <1>7 DEF PInv

-----------------------------------------------------------------------------
(* One lemma per kind of step.                                             *)

\* A first upload is listed, or a payment settles.
LEMMA WorldPreserves ==
    ASSUME PInv, \/ \E b \in Backup : ListBackup(b)
                 \/ \E p \in Payment : Settle(p)
    PROVE  PInv'
<1>1. UNCHANGED <<wallet, durable, emitted, channel, consumer, claims, records, drawn, lost>>
  BY DEF ListBackup, Settle
<1>2. known \subseteq known' /\ known' \subseteq Backup
      /\ settled \subseteq settled' /\ settled' \subseteq Payment
  BY DEF ListBackup, Settle, PInv, TypeOK
<1>3. TypeOK'
  BY <1>1, <1>2 DEF PInv, TypeOK
<1>4. RecordsSound'
  BY <1>1, <1>2 DEF PInv, RecordsSound
<1>5. EventsSound'
  BY <1>1, <1>2 DEF PInv, EventsSound
<1>6. IdsSound' /\ ClaimsSound'
  BY <1>1, <1>2 DEF PInv, IdsSound, ClaimsSound, HasId
<1>. QED
  BY <1>3, <1>4, <1>5, <1>6 DEF PInv

\* The SDK emits an event.
LEMMA OnEventPreserves ==
    ASSUME PInv, NEW p \in Payment, OnEvent(p)
    PROVE  PInv'
<1>1. UNCHANGED <<wallet, durable, known, settled, consumer, claims, records, drawn>>
  BY DEF OnEvent
<1>2. channel \in Seq(Payment) /\ channel' = Append(channel, p) /\ p \in settled
  BY DEF OnEvent, PInv, TypeOK
<1>3. TypeOK'
  BY <1>1, <1>2, MaxEventsAssumption DEF PInv, TypeOK, OnEvent, Loss
<1>4. \A i \in DOMAIN channel' : channel'[i] \in settled
  BY <1>2 DEF PInv, EventsSound
<1>5. EventsSound'
  BY <1>1, <1>4 DEF PInv, EventsSound
<1>6. RecordsSound' /\ IdsSound' /\ ClaimsSound'
  BY <1>1 DEF PInv, RecordsSound, IdsSound, ClaimsSound, HasId
<1>. QED
  BY <1>3, <1>5, <1>6 DEF PInv

\* The consumer takes an event.
LEMMA ReceivePreserves ==
    ASSUME PInv, Receive
    PROVE  PInv'
<1>1. UNCHANGED <<wallet, durable, known, settled, emitted, claims, records, drawn>>
  BY DEF Receive
<1>2. channel \in Seq(Payment) /\ channel # <<>> /\ channel' = Tail(channel)
  BY DEF Receive, PInv, TypeOK
<1>3. Head(channel) \in settled /\ Head(channel) \in Payment
  <2>1. 1 \in DOMAIN channel /\ Head(channel) = channel[1]
    BY <1>2
  <2>. QED
    BY <1>2, <2>1 DEF PInv, EventsSound, TypeOK
<1>4. /\ consumer' \in {Waiting, [pc |-> "lookup", payment |-> Head(channel), id |-> NoOne]}
      /\ lost' \in [Payment -> Loss]
  BY DEF Receive, LetGo, PInv, TypeOK, Loss
<1>5. channel' \in Seq(Payment) /\ \A i \in DOMAIN channel' : channel'[i] \in settled
  BY <1>2 DEF PInv, EventsSound
<1>6. TypeOK'
  BY <1>1, <1>3, <1>4, <1>5 DEF PInv, TypeOK, Waiting
<1>7. EventsSound' /\ consumer'.pc # "put"
  BY <1>1, <1>3, <1>4, <1>5 DEF EventsSound, Waiting
<1>8. RecordsSound' /\ IdsSound' /\ ClaimsSound'
  BY <1>1, <1>7 DEF PInv, RecordsSound, IdsSound, ClaimsSound, HasId
<1>. QED
  BY <1>6, <1>7, <1>8 DEF PInv

\* The consumer looks a note up: it draws an identifier, or lets go.
LEMMA LookupPreserves ==
    ASSUME PInv, Lookup
    PROVE  PInv'
<1> DEFINE p == consumer.payment
<1>1. UNCHANGED <<wallet, durable, known, settled, emitted, channel, claims, records>>
  BY DEF Lookup
<1>2. p \in settled /\ p \in Payment
  BY DEF Lookup, PInv, EventsSound, TypeOK
<1>3. CASE Correlates(p)
  <2>1. PICK id \in PaymentId(p) :
          /\ consumer' = [consumer EXCEPT !.pc = "put", !.id = id]
          /\ drawn' = drawn \cup ({id} \ Payment)
          /\ lost' = lost
    BY <1>3 DEF Lookup
  <2>2. consumer' = [pc |-> "put", payment |-> p, id |-> id]
    BY <2>1 DEF PInv, TypeOK
  <2>3. \/ p \notin Hashless /\ id = p /\ drawn' = drawn
        \/ p \in Hashless /\ id \in RandomId \ drawn /\ drawn' = drawn \cup {id}
    BY <1>2, <2>1, DistinctAssumption DEF PaymentId, Fresh
  <2>4. TypeOK'
    BY <1>1, <1>2, <2>1, <2>2, <2>3 DEF PInv, TypeOK, Key
  <2>5. EventsSound'
    BY <1>1, <1>2, <1>3, <2>2, <2>3 DEF PInv, EventsSound, Correlates, Key
  <2>6. \A c \in Claim : HasId(c) => id # claims[c].id
    BY <1>2, <2>3, DistinctAssumption DEF PInv, IdsSound, TypeOK
  <2>7. IdsSound'
    BY <1>1, <2>2, <2>3, <2>6 DEF PInv, IdsSound, HasId
  <2>8. RecordsSound' /\ ClaimsSound'
    BY <1>1 DEF PInv, RecordsSound, ClaimsSound, HasId
  <2>. QED
    BY <2>4, <2>5, <2>7, <2>8 DEF PInv
<1>4. CASE ~Correlates(p)
  <2>1. consumer' = Waiting /\ drawn' = drawn /\ lost' \in [Payment -> Loss]
    BY <1>4 DEF Lookup, LetGo, PInv, TypeOK, Loss
  <2>2. TypeOK' /\ EventsSound'
    BY <1>1, <2>1 DEF PInv, TypeOK, EventsSound, Waiting
  <2>3. RecordsSound' /\ IdsSound' /\ ClaimsSound'
    BY <1>1, <2>1 DEF PInv, RecordsSound, IdsSound, ClaimsSound, HasId, Waiting
  <2>. QED
    BY <2>2, <2>3 DEF PInv
<1>. QED
  BY <1>3, <1>4

\* The consumer puts its record, or a put that was answered with an error was
\* applied.
LEMMA ConsumerPutPreserves ==
    ASSUME PInv, consumer.pc = "put", RecordWrite(consumer.id, consumer.payment),
           consumer' = Waiting,
           UNCHANGED <<wallet, durable, known, settled, emitted, channel, claims, drawn>>,
           lost' \in [Payment -> Loss]
    PROVE  PInv'
<1> DEFINE p == consumer.payment
           id == consumer.id
           new == [version |-> 1, value |-> [payer |-> p, backup |-> Note[p]]]
<1>1. /\ p \in settled /\ p \in Payment /\ p \in Payer
      /\ Note[p] \in known /\ Note[p] \in Backup
      /\ id \in Key
      /\ p \notin Hashless => id = p
      /\ p \in Hashless => id \in drawn /\ id \in RandomId
  BY DEF PInv, EventsSound, TypeOK, Payer
<1>2. /\ records' \in [Key -> RecordCell]
      /\ \A k \in Key : records'[k] = IF k = id /\ ~Present(records[k]) THEN new ELSE records[k]
  BY <1>1, RecordWriteEffect DEF PInv
<1>3. new.value.payer = p /\ new.value.backup = Note[p] /\ Present(new)
  BY DEF Present
<1>. HIDE DEF new
<1>4. TypeOK'
  BY <1>2 DEF PInv, TypeOK, Waiting, RecordCell
<1>5. RecordsSound'
  <2>. SUFFICES ASSUME NEW k \in Key, Present(records'[k])
                PROVE  LET r == records'[k].value IN
                       /\ r.payer \in Payer
                       /\ r.backup = Note[r.payer]
                       /\ r.backup \in known
                       /\ r.payer \in Payment => r.payer \in settled
                       /\ r.payer \in Payment \ Hashless => k = r.payer
                       /\ k \in Payment => k = r.payer
                       /\ r.payer \in Claim => ~wallet
    BY DEF RecordsSound, Present
  <2>1. CASE k = id /\ ~Present(records[k])
    BY <1>1, <1>2, <1>3, <2>1, DistinctAssumption
  <2>2. CASE ~(k = id /\ ~Present(records[k]))
    <3>1. records'[k] = records[k]
      BY <1>2, <2>2
    <3>. QED
      BY <3>1 DEF PInv, RecordsSound
  <2>. QED
    BY <2>1, <2>2
<1>6. EventsSound'
  BY DEF PInv, EventsSound, Waiting
<1>7. id \notin RandomId \ drawn
  BY <1>1, DistinctAssumption
<1>8. IdsSound'
  <2>1. \A k \in RandomId \ drawn : records'[k] = records[k]
    BY <1>2, <1>7 DEF Key
  <2>2. \A c \in Claim : HasId(c) =>
          claims[c].id \in Key /\ records'[claims[c].id] = records[claims[c].id]
    BY <1>2 DEF PInv, IdsSound, TypeOK, Key
  <2>. QED
    BY <2>1, <2>2 DEF PInv, IdsSound, HasId, Waiting, Present
<1>9. ClaimsSound'
  <2>1. p \notin Claim
    BY <1>1, DistinctAssumption
  <2>2. \A c \in Claim : HasId(c) =>
          claims[c].id \in Key /\ records'[claims[c].id] = records[claims[c].id]
    BY <1>2 DEF PInv, IdsSound, TypeOK, Key
  <2>3. ASSUME NEW c \in Claim, NEW k \in Key,
               Present(records'[k]), records'[k].value.payer = c
        PROVE  records'[k] = records[k]
    BY <1>2, <1>3, <2>1, <2>3
  <2>. QED
    BY <2>2, <2>3 DEF PInv, ClaimsSound, HasId, Present
<1>. QED
  BY <1>4, <1>5, <1>6, <1>8, <1>9 DEF PInv

\* The store answers the consumer with an error.
LEMMA StoreErrorPreserves ==
    ASSUME PInv, StoreError
    PROVE  PInv'
<1> lost' \in [Payment -> Loss] /\ consumer' = Waiting
  BY DEF StoreError, LetGo, PInv, TypeOK, Loss
<1>1. CASE UNCHANGED records
  <2>1. UNCHANGED <<wallet, durable, known, settled, emitted, channel, claims, records, drawn>>
    BY <1>1 DEF StoreError
  <2>2. TypeOK' /\ EventsSound'
    BY <2>1 DEF PInv, TypeOK, EventsSound, Waiting
  <2>3. RecordsSound' /\ IdsSound' /\ ClaimsSound'
    BY <2>1 DEF PInv, RecordsSound, IdsSound, ClaimsSound, HasId, Waiting
  <2>. QED
    BY <2>2, <2>3 DEF PInv
<1>2. CASE consumer.pc = "put" /\ RecordWrite(consumer.id, consumer.payment)
  BY <1>2, ConsumerPutPreserves DEF StoreError
<1>. QED
  BY <1>1, <1>2 DEF StoreError

\* What a restart does to a claim.
LEMMA AfterRestartEffect ==
    ASSUME TypeOK, Restart, NEW c \in Claim
    PROVE  /\ claims'[c].id = claims[c].id
           /\ claims'[c].pc = IF claims[c].pc = "put" THEN "failed"
                              ELSE IF claims[c].pc = "created" /\ ~durable THEN "forgotten"
                              ELSE claims[c].pc
           /\ claims'[c] \in [pc : {"idle", "put", "refused", "created", "failed", "forgotten"},
                              id : RandomId \cup {NoOne}]
<1> DEFINE Step == {"idle", "put", "refused", "created", "failed", "forgotten"}
           cell == claims[c]
<1>1. cell \in [pc : Step, id : RandomId \cup {NoOne}]
  BY DEF TypeOK
<1>2. claims'[c] = AfterRestart(cell)
  BY DEF Restart
<1>3. \A step \in Step : [cell EXCEPT !.pc = step] = [pc |-> step, id |-> cell.id]
  BY <1>1
<1>4. CASE cell.pc = "put"
  <2>1. claims'[c] = [pc |-> "failed", id |-> cell.id]
    BY <1>2, <1>3, <1>4 DEF AfterRestart
  <2>. QED
    BY <1>1, <1>4, <2>1
<1>5. CASE cell.pc = "created" /\ ~durable
  <2>1. claims'[c] = [pc |-> "forgotten", id |-> cell.id]
    BY <1>2, <1>3, <1>5 DEF AfterRestart
  <2>. QED
    BY <1>1, <1>5, <2>1
<1>6. CASE cell.pc # "put" /\ ~(cell.pc = "created" /\ ~durable)
  <2>1. claims'[c] = cell
    BY <1>2, <1>6 DEF AfterRestart
  <2>. QED
    BY <1>1, <1>6, <2>1
<1>. QED
  BY <1>4, <1>5, <1>6

\* The server stops and starts again; an in-memory store forgets.
LEMMA RestartPreserves ==
    ASSUME PInv, Restart
    PROVE  PInv'
<1>1. /\ channel' = <<>>
      /\ consumer' = Waiting
      /\ UNCHANGED <<wallet, durable, settled, emitted, drawn>>
  BY DEF Restart
<1>2. \/ durable /\ known' = known /\ records' = records
      \/ ~durable /\ known' = {} /\ records' = [k \in Key |-> Absent(NoRecord)]
  BY DEF Restart
<1>3. TypeOK'
  <2>1. claims' \in [Claim -> [pc : {"idle", "put", "refused", "created", "failed", "forgotten"},
                              id : RandomId \cup {NoOne}]]
    <3>1. claims' = [c \in Claim |-> claims'[c]]
      BY DEF Restart
    <3>. QED
      BY <3>1, AfterRestartEffect DEF PInv
  <2>2. lost' \in [Payment -> Loss]
    BY DEF Restart, PInv, TypeOK, Loss
  <2>3. known' \subseteq Backup
        /\ records' \in [Key -> [version : {0, 1}, value : Record \cup {NoRecord}]]
    BY <1>2 DEF PInv, TypeOK, Absent
  <2>. QED
    BY <1>1, <2>1, <2>2, <2>3 DEF PInv, TypeOK, Waiting
<1>4. EventsSound'
  BY <1>1 DEF EventsSound, Waiting
<1>5. \A c \in Claim : /\ HasId(c)' => HasId(c)
                       /\ claims'[c].id = claims[c].id
                       /\ claims'[c].pc # "put"
                       /\ durable => (HasId(c)' <=> HasId(c))
                       /\ claims'[c].pc = "created" => claims[c].pc = "created" /\ durable
                       /\ claims'[c].pc = "forgotten" =>
                            \/ claims[c].pc = "forgotten"
                            \/ claims[c].pc = "created" /\ ~durable
  BY AfterRestartEffect DEF PInv, HasId
<1>6. \A k \in Key : Present(records'[k]) => durable /\ Present(records[k])
                                            /\ records'[k] = records[k] /\ known' = known
  BY <1>2 DEF Present, Absent
<1>7. IdsSound'
  <2>1. \A k \in RandomId \ drawn : ~Present(records'[k])
    BY <1>6 DEF PInv, IdsSound, Key
  <2>. QED
    BY <1>1, <1>5, <2>1 DEF PInv, IdsSound, Waiting, Present
<1>8. RecordsSound'
  BY <1>1, <1>6 DEF PInv, RecordsSound, Present
<1>9. ClaimsSound'
  <2>1. ASSUME NEW c \in Claim, claims'[c].pc = "created"
        PROVE  Present(records'[claims'[c].id]) /\ records'[claims'[c].id].value.payer = c
    BY <1>2, <1>5, <2>1 DEF PInv, ClaimsSound
  <2>2. ASSUME NEW c \in Claim, NEW k \in Key, Present(records'[k]), records'[k].value.payer = c
        PROVE  HasId(c)' /\ k = claims'[c].id
    BY <1>5, <1>6, <2>2 DEF PInv, ClaimsSound
  <2>3. \A c \in Claim : /\ claims'[c].pc = "forgotten" => ~durable
                         /\ claims'[c].pc \in {"created", "forgotten"} => ~wallet
    BY <1>5 DEF PInv, ClaimsSound
  <2>. QED
    BY <1>1, <2>1, <2>2, <2>3 DEF ClaimsSound, Present
<1>. QED
  BY <1>3, <1>4, <1>7, <1>8, <1>9 DEF PInv

\* A claim is refused, or draws an identifier and goes on to its put.
LEMMA ClaimPaymentPreserves ==
    ASSUME PInv, NEW c \in Claim, ClaimPayment(c)
    PROVE  PInv'
<1>1. UNCHANGED <<wallet, durable, known, settled, emitted, channel, consumer, records, lost>>
  BY DEF ClaimPayment
<1>2. claims[c].pc = "idle" /\ ~HasId(c)
  BY DEF ClaimPayment, HasId
<1>3. CASE ~wallet /\ Correlates(c)
  <2>1. PICK id \in RandomId \ drawn :
          /\ claims' = [claims EXCEPT ![c] = [pc |-> "put", id |-> id]]
          /\ drawn' = drawn \cup {id}
    BY <1>3 DEF ClaimPayment, Accept, Fresh
  <2>2. claims'[c].pc = "put" /\ claims'[c].id = id
        /\ \A d \in Claim : d # c => claims'[d] = claims[d]
    BY <2>1 DEF PInv, TypeOK
  <2>3. TypeOK'
    <3>1. claims' \in [Claim -> [pc : {"idle", "put", "refused", "created", "failed", "forgotten"},
                                id : RandomId \cup {NoOne}]]
      BY <2>1 DEF PInv, TypeOK
    <3>2. drawn' \subseteq RandomId
      BY <2>1 DEF PInv, TypeOK
    <3>. QED
      BY <1>1, <3>1, <3>2 DEF PInv, TypeOK
  <2>4. EventsSound'
    BY <1>1, <2>1 DEF PInv, EventsSound
  <2>5. HasId(c)' /\ \A d \in Claim : d # c => (HasId(d)' <=> HasId(d))
    BY <2>2 DEF HasId
  <2>6. consumer.pc = "put" => consumer.id # id
    BY <2>1, DistinctAssumption DEF PInv, EventsSound, TypeOK
  <2>7. IdsSound'
    <3>1. \A k \in RandomId \ drawn' : ~Present(records[k])
      BY <2>1 DEF PInv, IdsSound
    <3>2. ~Present(records[id])
      BY <2>1 DEF PInv, IdsSound
    <3>3. \A d \in Claim : HasId(d) => claims[d].id # id
      BY <2>1 DEF PInv, IdsSound
    <3>4. ASSUME NEW e \in Claim, HasId(e)'
          PROVE  /\ claims'[e].id \in drawn'
                 /\ \A d \in Claim : HasId(d)' /\ claims'[d].id = claims'[e].id => d = e
                 /\ consumer.pc = "put" => consumer.id # claims'[e].id
      <4>1. CASE e = c
        BY <4>1, <2>1, <2>2, <2>5, <2>6, <3>3
      <4>2. CASE e # c
        BY <4>2, <3>4, <2>1, <2>2, <2>5, <3>3 DEF PInv, IdsSound
      <4>. QED
        BY <4>1, <4>2
    <3>5. ASSUME NEW e \in Claim, claims'[e].pc = "put"
          PROVE  ~wallet /\ Note[e] \in known /\ ~Present(records[claims'[e].id])
      <4>1. CASE e = c
        BY <4>1, <1>3, <2>2, <3>2 DEF Correlates
      <4>2. CASE e # c
        BY <4>2, <3>5, <2>2 DEF PInv, IdsSound
      <4>. QED
        BY <4>1, <4>2
    <3>6. consumer.pc = "put" /\ consumer.payment \in Hashless => ~Present(records[consumer.id])
      BY DEF PInv, IdsSound
    <3>. QED
      BY <1>1, <3>1, <3>4, <3>5, <3>6 DEF IdsSound, Present
  <2>8. RecordsSound'
    BY <1>1 DEF PInv, RecordsSound
  <2>9. ClaimsSound'
    <3>1. \A k \in Key : Present(records[k]) => records[k].value.payer # c
      BY <1>2 DEF PInv, ClaimsSound
    <3>. QED
      BY <1>1, <2>2, <2>5, <3>1 DEF PInv, ClaimsSound, Present
  <2>. QED
    BY <2>3, <2>4, <2>7, <2>8, <2>9 DEF PInv
<1>4. CASE ~(~wallet /\ Correlates(c))
  <2>1. claims' = [claims EXCEPT ![c].pc = "refused"] /\ drawn' = drawn
    BY <1>4, Zenon DEF ClaimPayment, RefuseClaim
  <2>2. claims'[c].pc = "refused" /\ \A d \in Claim : d # c => claims'[d] = claims[d]
    BY <2>1 DEF PInv, TypeOK
  <2>3. TypeOK'
    <3>1. claims' \in [Claim -> [pc : {"idle", "put", "refused", "created", "failed", "forgotten"},
                                id : RandomId \cup {NoOne}]]
      BY <2>1 DEF PInv, TypeOK
    <3>. QED
      BY <1>1, <2>1, <3>1 DEF PInv, TypeOK
  <2>4. EventsSound'
    BY <1>1, <2>1 DEF PInv, EventsSound
  <2>5. ~HasId(c)' /\ \A d \in Claim : d # c => (HasId(d)' <=> HasId(d))
    BY <2>2 DEF HasId
  <2>6. IdsSound'
    BY <1>1, <1>2, <2>1, <2>2, <2>5 DEF PInv, IdsSound, Present
  <2>7. RecordsSound'
    BY <1>1 DEF PInv, RecordsSound
  <2>8. ClaimsSound'
    BY <1>1, <1>2, <2>2, <2>5 DEF PInv, ClaimsSound, Present
  <2>. QED
    BY <2>3, <2>4, <2>6, <2>7, <2>8 DEF PInv
<1>. QED
  BY <1>3, <1>4

\* A claim is put and answered, or answered with an error.
LEMMA PutClaimPreserves ==
    ASSUME PInv, NEW c \in Claim, PutClaim(c)
    PROVE  PInv'
<1> DEFINE id == claims[c].id
           new == [version |-> 1, value |-> [payer |-> c, backup |-> Note[c]]]
<1>1. UNCHANGED <<wallet, durable, known, settled, emitted, channel, consumer, drawn, lost>>
      /\ claims[c].pc = "put"
  BY DEF PutClaim
<1>2. /\ ~wallet
      /\ Note[c] \in known /\ Note[c] \in Backup
      /\ id \in drawn /\ id \in RandomId /\ id \in Key /\ ~Present(records[id])
      /\ c \in Payer /\ c \notin Payment /\ id \notin Payment
      /\ HasId(c)
  BY <1>1, DistinctAssumption DEF PInv, IdsSound, TypeOK, HasId, Key, Payer
<1>3. PICK step \in {"created", "failed"} :
        /\ claims' = [claims EXCEPT ![c].pc = step]
        /\ RecordWrite(id, c) \/ (step = "failed" /\ UNCHANGED records)
  BY Zenon DEF PutClaim
<1>4. claims'[c].pc = step /\ claims'[c].id = id
      /\ \A d \in Claim : d # c => claims'[d] = claims[d]
  BY <1>3 DEF PInv, TypeOK
<1>5. \A d \in Claim : (HasId(d)' <=> HasId(d)) /\ claims'[d].id = claims[d].id
  BY <1>2, <1>4 DEF HasId
<1>6. /\ records' \in [Key -> RecordCell]
      /\ \A k \in Key \ {id} : records'[k] = records[k]
      /\ records'[id] = new \/ (step = "failed" /\ records'[id] = records[id])
  <2>1. CASE RecordWrite(id, c)
    BY <1>2, <2>1, RecordWriteEffect DEF PInv
  <2>2. CASE step = "failed" /\ UNCHANGED records
    BY <2>2 DEF PInv, TypeOK, RecordCell
  <2>. QED
    BY <1>3, <2>1, <2>2
<1>7. new.value.payer = c /\ new.value.backup = Note[c] /\ Present(new)
  BY DEF Present
<1>. HIDE DEF new
<1>8. TypeOK'
  <2>1. claims' \in [Claim -> [pc : {"idle", "put", "refused", "created", "failed", "forgotten"},
                              id : RandomId \cup {NoOne}]]
    BY <1>3 DEF PInv, TypeOK
  <2>. QED
    BY <1>1, <1>6, <2>1 DEF PInv, TypeOK, RecordCell
<1>9. RecordsSound'
  <2>. SUFFICES ASSUME NEW k \in Key, Present(records'[k])
                PROVE  LET r == records'[k].value IN
                       /\ r.payer \in Payer
                       /\ r.backup = Note[r.payer]
                       /\ r.backup \in known
                       /\ r.payer \in Payment => r.payer \in settled
                       /\ r.payer \in Payment \ Hashless => k = r.payer
                       /\ k \in Payment => k = r.payer
                       /\ r.payer \in Claim => ~wallet
    BY <1>1 DEF RecordsSound, Present
  <2>1. CASE k = id /\ records'[k] = new
    BY <1>2, <1>7, <2>1
  <2>2. CASE records'[k] = records[k]
    BY <2>2 DEF PInv, RecordsSound
  <2>. QED
    BY <1>6, <2>1, <2>2
<1>10. EventsSound'
  BY <1>1 DEF PInv, EventsSound
<1>11. IdsSound'
  <2>1. \A k \in RandomId \ drawn : records'[k] = records[k]
    BY <1>2, <1>6 DEF Key
  <2>2. ASSUME NEW d \in Claim, claims'[d].pc = "put"
        PROVE  ~wallet /\ Note[d] \in known /\ ~Present(records'[claims'[d].id])
    <3>1. d # c /\ claims'[d] = claims[d]
      BY <1>4, <2>2
    <3>2. HasId(d)
      BY <2>2, <3>1 DEF HasId
    <3>3. claims[d].id # id /\ claims[d].id \in Key
      BY <1>2, <3>1, <3>2 DEF PInv, IdsSound, TypeOK, Key
    <3>. QED
      BY <1>6, <2>2, <3>1, <3>3 DEF PInv, IdsSound
  <2>3. \A k \in RandomId \ drawn : ~Present(records'[k])
    BY <2>1 DEF PInv, IdsSound
  <2>4. \A d \in Claim : HasId(d)' =>
          /\ claims'[d].id \in drawn
          /\ \A e \in Claim : HasId(e)' /\ claims'[e].id = claims'[d].id => e = d
          /\ consumer.pc = "put" => consumer.id # claims'[d].id
    BY <1>5 DEF PInv, IdsSound
  <2>5. ASSUME consumer.pc = "put", consumer.payment \in Hashless
        PROVE  ~Present(records'[consumer.id])
    <3>1. consumer.id \in Key /\ consumer.id # id
      BY <1>2, <2>5 DEF PInv, IdsSound, EventsSound
    <3>. QED
      BY <1>6, <2>5, <3>1 DEF PInv, IdsSound
  <2>. QED
    BY <1>1, <2>2, <2>3, <2>4, <2>5 DEF IdsSound, Present
<1>12. ClaimsSound'
  <2>1. ASSUME NEW d \in Claim, NEW k \in Key,
               Present(records'[k]), records'[k].value.payer = d
        PROVE  HasId(d)' /\ k = claims'[d].id
    <3>1. CASE records'[k] = new
      <4>1. d = c
        BY <1>7, <2>1, <3>1
      <4>2. k = id
        <5>1. ASSUME k # id PROVE FALSE
          <6>1. records'[k] = records[k]
            BY <1>6, <5>1
          <6>2. k = claims[d].id
            BY <2>1, <6>1 DEF PInv, ClaimsSound
          <6>. QED
            BY <4>1, <5>1, <6>2
        <5>. QED
          BY <5>1
      <4>. QED
        BY <1>2, <1>5, <4>1, <4>2
    <3>2. CASE records'[k] = records[k]
      BY <1>5, <2>1, <3>2 DEF PInv, ClaimsSound
    <3>. QED
      BY <1>6, <3>1, <3>2
  <2>2. ASSUME NEW d \in Claim, claims'[d].pc = "created"
        PROVE  Present(records'[claims'[d].id]) /\ records'[claims'[d].id].value.payer = d
    <3>1. CASE d = c
      BY <1>4, <1>6, <1>7, <2>2, <3>1
    <3>2. CASE d # c
      <4>1. claims'[d] = claims[d] /\ HasId(d)
        BY <1>4, <2>2, <3>2 DEF HasId
      <4>2. claims[d].id # id /\ claims[d].id \in Key
        BY <1>2, <3>2, <4>1 DEF PInv, IdsSound, TypeOK, Key
      <4>. QED
        BY <1>6, <2>2, <4>1, <4>2 DEF PInv, ClaimsSound
    <3>. QED
      BY <3>1, <3>2
  <2>3. \A d \in Claim : /\ claims'[d].pc = "forgotten" => ~durable
                         /\ claims'[d].pc \in {"created", "forgotten"} => ~wallet
    BY <1>2, <1>4 DEF PInv, ClaimsSound
  <2>. QED
    BY <1>1, <2>1, <2>2, <2>3 DEF ClaimsSound, Present
<1>. QED
  BY <1>8, <1>9, <1>10, <1>11, <1>12 DEF PInv

\* Every step preserves the invariant.
LEMMA PInvNext ==
    ASSUME PInv, [Next]_vars
    PROVE  PInv'
<1>1. CASE UNCHANGED vars
  BY <1>1 DEF PInv, TypeOK, RecordsSound, EventsSound, IdsSound, ClaimsSound, HasId,
              Present, vars
<1>2. ASSUME PutRecord
      PROVE  PInv'
  BY <1>2, ConsumerPutPreserves DEF PutRecord, PInv, TypeOK
<1>3. CASE Next
  BY <1>2, <1>3, WorldPreserves, OnEventPreserves, ReceivePreserves, LookupPreserves,
     StoreErrorPreserves, RestartPreserves, ClaimPaymentPreserves, PutClaimPreserves
  DEF Next, Consume
<1>. QED
  BY <1>1, <1>3

-----------------------------------------------------------------------------
(* What is lost.                                                           *)

OnItsWay(p) ==
    \/ \E i \in DOMAIN channel : channel[i] = p
    \/ consumer.pc # "recv" /\ consumer.payment = p

HasRecord(p) == \E k \in Key : Present(records[k]) /\ records[k].value.payer = p

\* A record stays under any put.
LEMMA RecordsStay ==
    ASSUME PInv, NEW id \in Key, NEW x \in Payer, Note[x] \in Backup, RecordWrite(id, x),
           NEW p \in Payment, HasRecord(p)
    PROVE  HasRecord(p)'
<1>1. PICK k \in Key : Present(records[k]) /\ records[k].value.payer = p
  BY DEF HasRecord
<1>2. records'[k] = records[k]
  BY <1>1, RecordWriteEffect DEF PInv
<1>. QED
  BY <1>1, <1>2 DEF HasRecord, Present

\* The consumer's put leaves a record of its payment, also when it is refused.
LEMMA PutLeavesRecord ==
    ASSUME PInv, consumer.pc = "put", NEW p, p = consumer.payment, RecordWrite(consumer.id, p)
    PROVE  HasRecord(p)'
<1> DEFINE id == consumer.id
           new == [version |-> 1, value |-> [payer |-> p, backup |-> Note[p]]]
<1>1. /\ p \in Payment /\ p \in Payer /\ Note[p] \in Backup /\ id \in Key
      /\ p \notin Hashless => id = p
  BY DEF PInv, EventsSound, TypeOK, Payer
<1>2. records'[id] = IF ~Present(records[id]) THEN new ELSE records[id]
  BY <1>1, RecordWriteEffect DEF PInv
<1>3. Present(records[id]) => records[id].value.payer = p
  BY <1>1 DEF PInv, RecordsSound, IdsSound
<1>4. new.version # 0 /\ new.value.payer = p
  OBVIOUS
<1>. HIDE DEF new
<1>. QED
  BY <1>1, <1>2, <1>3, <1>4 DEF HasRecord, Present

\* The channel keeps its events when one is sent, and when the first is taken.
LEMMA ChannelKeeps ==
    ASSUME NEW c \in Seq(Payment), NEW q \in Payment
    PROVE  /\ Append(c, q)[Len(c) + 1] = q /\ Len(c) + 1 \in DOMAIN Append(c, q)
           /\ \A i \in DOMAIN c : i \in DOMAIN Append(c, q) /\ Append(c, q)[i] = c[i]
           /\ c # <<>> => \A i \in DOMAIN c :
                \/ c[i] = Head(c)
                \/ i - 1 \in DOMAIN Tail(c) /\ Tail(c)[i - 1] = c[i]
OBVIOUS

\* A payment that is on its way stays so, or is recorded, or let go for a reason.
LEMMA LossNext ==
    ASSUME PInv, LossHasCause, [Next]_vars
    PROVE  LossHasCause'
<1>. SUFFICES ASSUME NEW p \in Payment, emitted'[p] > 0
              PROVE  OnItsWay(p)' \/ HasRecord(p)' \/ lost'[p] # "no"
  BY DEF LossHasCause, OnItsWay, HasRecord, RecordsOf, Recorded
<1>1. emitted[p] > 0 => OnItsWay(p) \/ HasRecord(p) \/ lost[p] # "no"
  BY DEF LossHasCause, OnItsWay, HasRecord, RecordsOf, Recorded
<1>2. channel \in Seq(Payment) /\ lost \in [Payment -> Loss]
  BY DEF PInv, TypeOK
<1>3. CASE UNCHANGED <<emitted, channel, consumer, records, lost>>
  BY <1>1, <1>3 DEF OnItsWay, HasRecord, Present
<1>4. ASSUME NEW q \in Payment, OnEvent(q)
      PROVE  OnItsWay(p)' \/ HasRecord(p)' \/ lost'[p] # "no"
  <2>1. channel' = Append(channel, q) /\ UNCHANGED <<consumer, records>>
    BY <1>4 DEF OnEvent
  <2>2. CASE p = q
    BY <1>2, <2>1, <2>2, ChannelKeeps DEF OnItsWay
  <2>3. CASE p # q
    <3>1. emitted'[p] = emitted[p] /\ lost'[p] = lost[p]
      BY <1>2, <1>4, <2>3 DEF OnEvent, PInv, TypeOK
    <3>2. OnItsWay(p) => OnItsWay(p)'
      BY <1>2, <2>1, ChannelKeeps DEF OnItsWay
    <3>. QED
      BY <1>1, <2>1, <3>1, <3>2 DEF HasRecord, Present
  <2>. QED
    BY <2>2, <2>3
<1>5. CASE Receive
  <2>1. /\ consumer.pc = "recv" /\ channel # <<>> /\ channel' = Tail(channel)
        /\ UNCHANGED <<emitted, records>>
    BY <1>5 DEF Receive
  <2>2. CASE p = Head(channel)
    <3>1. CASE Note[p] = NoNote
      BY <1>2, <1>5, <2>2, <3>1 DEF Receive, LetGo
    <3>2. CASE Note[p] # NoNote
      BY <1>5, <2>2, <3>2 DEF Receive, OnItsWay
    <3>. QED
      BY <3>1, <3>2
  <2>3. CASE p # Head(channel)
    <3>1. lost'[p] = lost[p]
      BY <1>2, <1>5, <2>3 DEF Receive, LetGo
    <3>2. ASSUME OnItsWay(p) PROVE OnItsWay(p)'
      <4>1. PICK i \in DOMAIN channel : channel[i] = p
        BY <2>1, <3>2 DEF OnItsWay
      <4>2. i - 1 \in DOMAIN Tail(channel) /\ Tail(channel)[i - 1] = p
        BY <1>2, <2>1, <2>3, <4>1, ChannelKeeps
      <4>3. \E j \in DOMAIN channel' : channel'[j] = p
        BY <2>1, <4>2
      <4>. QED
        BY <4>3 DEF OnItsWay
    <3>. QED
      BY <1>1, <2>1, <3>1, <3>2 DEF HasRecord, Present
  <2>. QED
    BY <2>2, <2>3
<1>6. CASE Lookup
  <2>1. UNCHANGED <<emitted, channel, records>>
    BY <1>6 DEF Lookup
  <2>2. CASE Correlates(consumer.payment)
    <3>1. PICK id : consumer' = [consumer EXCEPT !.pc = "put", !.id = id] /\ lost' = lost
      BY <1>6, <2>2 DEF Lookup
    <3>2. consumer' = [pc |-> "put", payment |-> consumer.payment, id |-> id]
      BY <3>1 DEF PInv, TypeOK
    <3>3. consumer'.pc # "recv" /\ consumer'.payment = consumer.payment
      BY <3>2
    <3>. QED
      BY <1>1, <2>1, <3>1, <3>3 DEF OnItsWay, HasRecord, Present
  <2>3. CASE ~Correlates(consumer.payment)
    <3>1. lost' = [lost EXCEPT ![consumer.payment] = "uncorrelated"]
      BY <1>6, <2>3 DEF Lookup, LetGo
    <3>. QED
      BY <1>1, <1>2, <2>1, <3>1 DEF OnItsWay, HasRecord, Present
  <2>. QED
    BY <2>2, <2>3
<1>7. CASE PutRecord
  <2>1. RecordWrite(consumer.id, consumer.payment) /\ consumer.pc = "put"
        /\ UNCHANGED <<emitted, channel, lost>>
    BY <1>7 DEF PutRecord
  <2>2. consumer.id \in Key /\ consumer.payment \in Payer /\ Note[consumer.payment] \in Backup
    BY <2>1 DEF PInv, EventsSound, TypeOK, Payer
  <2>3. p = consumer.payment => HasRecord(p)'
    BY <2>1, PutLeavesRecord
  <2>. QED
    BY <1>1, <2>1, <2>2, <2>3, RecordsStay DEF OnItsWay
<1>8. CASE StoreError
  <2>1. /\ lost' = [lost EXCEPT ![consumer.payment] = "storeError"]
        /\ UNCHANGED <<emitted, channel>>
    BY <1>8 DEF StoreError, LetGo
  <2>2. HasRecord(p) => HasRecord(p)'
    <3>1. CASE UNCHANGED records
      BY <3>1 DEF HasRecord, Present
    <3>2. CASE consumer.pc = "put" /\ RecordWrite(consumer.id, consumer.payment)
      BY <3>2, RecordsStay DEF PInv, EventsSound, TypeOK, Payer
    <3>. QED
      BY <1>8, <3>1, <3>2 DEF StoreError
  <2>. QED
    BY <1>1, <1>2, <2>1, <2>2 DEF OnItsWay
<1>9. CASE Restart
  <2>1. lost'[p] = IF p \in InMemory THEN "restart" ELSE lost[p]
    BY <1>9 DEF Restart
  <2>2. p \notin InMemory => ~OnItsWay(p) /\ (~durable => ~HasRecord(p))
    BY DEF InMemory, OnItsWay, HasRecord
  <2>3. emitted' = emitted /\ (durable => records' = records)
    BY <1>9 DEF Restart
  <2>. QED
    BY <1>1, <2>1, <2>2, <2>3 DEF HasRecord, Present
<1>10. ASSUME NEW c \in Claim, PutClaim(c)
       PROVE  OnItsWay(p)' \/ HasRecord(p)' \/ lost'[p] # "no"
  <2>1. UNCHANGED <<emitted, channel, consumer, lost>>
        /\ (RecordWrite(claims[c].id, c) \/ UNCHANGED records)
    BY <1>10 DEF PutClaim
  <2>2. claims[c].id \in Key /\ c \in Payer /\ Note[c] \in Backup
    BY <1>10 DEF PutClaim, PInv, IdsSound, HasId, TypeOK, Key, Payer
  <2>3. HasRecord(p) => HasRecord(p)'
    BY <2>1, <2>2, RecordsStay DEF HasRecord, Present
  <2>. QED
    BY <1>1, <2>1, <2>3 DEF OnItsWay
<1>11. ASSUME \/ \E b \in Backup : ListBackup(b)
              \/ \E q \in Payment : Settle(q)
              \/ \E c \in Claim : ClaimPayment(c)
              \/ UNCHANGED vars
       PROVE  UNCHANGED <<emitted, channel, consumer, records, lost>>
  BY <1>11 DEF ListBackup, Settle, ClaimPayment, vars
<1>. QED
  BY <1>3, <1>4, <1>5, <1>6, <1>7, <1>8, <1>9, <1>10, <1>11 DEF Next, Consume

-----------------------------------------------------------------------------
(* The theorems.                                                           *)

\* The inductive invariant: records, events, identifiers and claims are sound.
THEOREM PInvariance == Spec => []PInv
<1>1. PInv /\ [Next]_vars => PInv'
  BY PInvNext
<1>. QED
  BY <1>1, InitInv, PTL DEF Spec

\* Every variable stays in its type.
THEOREM PaymentsTypeCorrect == Spec => []TypeOK
<1>1. PInv => TypeOK
  BY DEF PInv
<1>. QED
  BY <1>1, PInvariance, PTL

\* A payment with a hash counts once, however often the SDK emits it or the
\* server restarts.
THEOREM PaymentsRecordedOnce == Spec => []RecordedOnce
<1>1. PInv => RecordedOnce
  BY DEF PInv, RecordsSound, RecordedOnce, RecordsOf, Recorded
<1>. QED
  BY <1>1, PInvariance, PTL

\* With a wallet connected, every record is a payment the wallet received, for
\* the listed backup its payer named (state.rs:446).
THEOREM OnlyReceivedIsRecorded == Spec => []RecordsAreReceived
<1>1. PInv => RecordsAreReceived
  BY DEF PInv, RecordsSound, RecordsAreReceived, Recorded, Payer
<1>. QED
  BY <1>1, PInvariance, PTL

\* A claim answered 201 has one record until an in-memory store forgets it; one
\* that was refused has none.
THEOREM ClaimsRecorded == Spec => []ClaimsMatchRecords
<1>1. PInv => ClaimsMatchRecords
  <2>. SUFFICES ASSUME PInv, NEW c \in Claim
                PROVE  /\ claims[c].pc = "created" => RecordsOf(c) = {claims[c].id}
                       /\ claims[c].pc = "forgotten" => ~durable /\ RecordsOf(c) = {}
                       /\ claims[c].pc = "refused" => RecordsOf(c) = {}
    BY DEF ClaimsMatchRecords
  <2>1. \A k \in RecordsOf(c) : HasId(c) /\ k = claims[c].id
    BY DEF PInv, ClaimsSound, RecordsOf, Recorded
  <2>2. claims[c].pc = "created" => claims[c].id \in RecordsOf(c)
    <3>. SUFFICES ASSUME claims[c].pc = "created"
                  PROVE  claims[c].id \in RecordsOf(c)
      OBVIOUS
    <3>1. claims[c].id \in Key
      BY DEF PInv, IdsSound, HasId, TypeOK, Key
    <3>. QED
      BY <3>1 DEF PInv, ClaimsSound, RecordsOf, Recorded
  <2>3. claims[c].pc = "forgotten" => ~durable
    BY DEF PInv, ClaimsSound
  <2>. QED
    BY <2>1, <2>2, <2>3 DEF HasId
<1>. QED
  BY <1>1, PInvariance, PTL

\* A payment whose event reached the channel is on its way, or recorded, or was
\* let go for a reason: a put that is refused loses nothing.
THEOREM LossesHaveCauses == Spec => []LossHasCause
<1>1. Init => LossHasCause
  BY DEF Init, LossHasCause
<1>. QED
  BY <1>1, LossNext, PInvariance, PTL DEF Spec
=============================================================================
