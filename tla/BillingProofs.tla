---------------------------- MODULE BillingProofs ----------------------------
(***************************************************************************)
(* Proofs about Billing for any commands, backups and rounds: the provider *)
(* is Payments whatever the clients do, and what it has of a round and     *)
(* what a command says of it agree.                                        *)
(***************************************************************************)
EXTENDS Billing, TLAPS

\* The theorems of Payments, for the payments and claims of this module.
Records == INSTANCE PaymentsProofs
             WITH Payment <- {RoundId[p] : p \in RealRound},
                  Claim <- {RoundId[p] : p \in MockRound},
                  Hashless <- {},
                  Note <- [id \in Range(RoundId) |-> BackupOf[RoundOf(id)[1]]]

\* A round is sent after what comes before it, and not before its command is there.
SentInOrder ==
    \A p \in sent :
        /\ p[2] <= round[p[1]]
        /\ p = This(p[1]) => pc[p[1]] \in {"sending", "claiming", "over", "done"}

\* A command is at a step of its kind, and a watch is there after a good proof.
StepsSound ==
    \A w \in Client :
        /\ pc[w] \in {"offer", "send", "sending"} => w \in RealPayment
        /\ pc[w] \in {"claim", "claiming"} => w \notin RealPayment
        /\ pc[w] \in {"offer", "send", "claim"} /\ w \in Watch => This(w) \in proved
        /\ pc[w] \in {"sending", "claiming"} => This(w) \in sent

\* What a watch sends was proved.
SentIsProved == \A p \in Rounds(Watch) : p \in sent => p \in proved

\* The provider receives, and is asked to record, what was sent.
ReceivedWasSent ==
    /\ \A p \in RealRound : RoundId[p] \in settled => p \in sent
    /\ \A p \in MockRound : claims[RoundId[p]].pc # "idle" => p \in sent

\* The claim of a round was answered 201.
WasCreated(p) == claims[RoundId[p]].pc \in {"created", "forgotten"}

\* What a command says of a round, it says at the end, and it is so.
SaidSound ==
    \A p \in Round :
        /\ said[p] # "nothing" => p[2] <= round[p[1]]
        /\ said[p] # "nothing" /\ p = This(p[1]) => pc[p[1]] \in {"over", "done"}
        /\ said[p] = "withheld" => p \notin sent
        /\ said[p] = "paid" /\ p \in MockRound => WasCreated(p)

ClientInv ==
    TypeOK /\ SentInOrder /\ StepsSound /\ SentIsProved /\ ReceivedWasSent /\ SaidSound

-----------------------------------------------------------------------------
(* The provider's side is Payments.                                        *)

\* The ends of an identifier.
LEMMA RoundIds ==
    /\ \A p, q \in Round : RoundId[p] = RoundId[q] => p = q
    /\ \A p \in Round : RoundOf(RoundId[p]) = p
    /\ Range(RoundId) = {RoundId[p] : p \in Round}
<1>1. \A p, q \in Round : RoundId[p] = RoundId[q] => p = q
  BY RoundIdAssumption DEF IsInjective
<1>2. \A p \in Round : RoundOf(RoundId[p]) = p
  BY <1>1 DEF RoundOf
<1>3. Range(RoundId) = {RoundId[p] : p \in Round}
  BY RoundIdAssumption DEF Range
<1>. QED
  BY <1>1, <1>2, <1>3

\* Every round is one of a wallet or one of a claim.
LEMMA RoundKinds ==
    /\ RealRound \cup MockRound = Round
    /\ RealRound \cap MockRound = {}
    /\ \A w \in Client, i \in 1 .. MaxRounds :
         /\ <<w, i>> \in Round
         /\ <<w, i>> \in RealRound <=> w \in RealPayment
         /\ <<w, i>> \in MockRound <=> w \notin RealPayment
BY ClientAssumption DEF Round, RealRound, MockRound, Rounds

\* What Payments assumes of its constants holds of those it is given here.
LEMMA RecordsAssumptions ==
    /\ Records!NoteAssumption
    /\ Records!DistinctAssumption
    /\ Records!HashlessAssumption
    /\ Records!MaxEventsAssumption
<1>1. Records!NoteAssumption
  <2>1. \A p \in Round : BackupOf[p[1]] \in Backup
    BY ClientAssumption DEF Round, Rounds
  <2>2. \A id \in Range(RoundId) : BackupOf[RoundOf(id)[1]] \in Backup
    BY <2>1, RoundIds
  <2>3. {RoundId[p] : p \in RealRound} \cup {RoundId[p] : p \in MockRound} = Range(RoundId)
    BY RoundIds, RoundKinds
  <2>. QED
    BY <2>2, <2>3 DEF Records!NoteAssumption
<1>2. Records!DistinctAssumption
  <2>1. {RoundId[p] : p \in RealRound} \cap {RoundId[p] : p \in MockRound} = {}
    BY RoundIds, RoundKinds
  <2>. QED
    BY <2>1, ProviderAssumption DEF Records!DistinctAssumption
<1>3. Records!HashlessAssumption /\ Records!MaxEventsAssumption
  BY ProviderAssumption DEF Records!HashlessAssumption, Records!MaxEventsAssumption
<1>. QED
  BY <1>1, <1>2, <1>3

\* The steps of the provider that this module names are those the theorems are about.
LEMMA ServerSteps ==
    /\ Server!Init => Records!Init
    /\ \A b : Server!ListBackup(b) => Records!ListBackup(b)
    /\ \A p : Server!Settle(p) => Records!Settle(p)
    /\ \A p : Server!OnEvent(p) => Records!OnEvent(p)
    /\ Server!Consume => Records!Consume
    /\ Server!StoreError => Records!StoreError
    /\ Server!Restart => Records!Restart
    /\ \A c : Server!ClaimPayment(c) => Records!ClaimPayment(c)
    /\ \A c : Server!PutClaim(c) => Records!PutClaim(c)
<1>1. Server!Init => Records!Init
  BY DEF Server!Init, Records!Init, Server!Waiting, Records!Waiting, Server!NoOne, Records!NoOne,
         Server!Key, Records!Key, Server!Absent, Records!Absent, Server!NoRecord, Records!NoRecord
<1>2. \A b : Server!ListBackup(b) => Records!ListBackup(b)
  BY DEF Server!ListBackup, Records!ListBackup
<1>3. \A p : Server!Settle(p) => Records!Settle(p)
  BY DEF Server!Settle, Records!Settle
<1>4. \A p : Server!OnEvent(p) => Records!OnEvent(p)
  BY DEF Server!OnEvent, Records!OnEvent
<1>5. \A id, x : Server!RecordWrite(id, x) => Records!RecordWrite(id, x)
  BY DEF Server!RecordWrite, Records!RecordWrite, Server!Put, Records!Put,
         Server!FirstWrite, Records!FirstWrite, Server!Accepts, Records!Accepts,
         Server!Unconditional, Records!Unconditional, Server!NewVersion, Records!NewVersion
<1>6. Server!Consume => Records!Consume
  <2>1. Server!Receive => Records!Receive
    BY DEF Server!Receive, Records!Receive, Server!LetGo, Records!LetGo,
           Server!Waiting, Records!Waiting, Server!NoOne, Records!NoOne
  <2>2. Server!Lookup => Records!Lookup
    BY DEF Server!Lookup, Records!Lookup, Server!Correlates, Records!Correlates,
           Server!PaymentId, Records!PaymentId, Server!Fresh, Records!Fresh,
           Server!LetGo, Records!LetGo,
           Server!Waiting, Records!Waiting, Server!NoOne, Records!NoOne
  <2>3. Server!PutRecord => Records!PutRecord
    BY <1>5 DEF Server!PutRecord, Records!PutRecord, Server!Waiting, Records!Waiting,
                Server!NoOne, Records!NoOne
  <2>. QED
    BY <2>1, <2>2, <2>3 DEF Server!Consume, Records!Consume
<1>7. Server!StoreError => Records!StoreError
  BY <1>5 DEF Server!StoreError, Records!StoreError, Server!LetGo, Records!LetGo, Server!Waiting, Records!Waiting,
              Server!NoOne, Records!NoOne
<1>8. Server!Restart => Records!Restart
  BY DEF Server!Restart, Records!Restart, Server!Waiting, Records!Waiting,
         Server!NoOne, Records!NoOne, Server!AfterRestart, Records!AfterRestart,
         Server!InMemory, Records!InMemory, Server!Key, Records!Key,
         Server!Present, Records!Present, Server!Absent, Records!Absent,
         Server!NoRecord, Records!NoRecord
<1>9. \A c : Server!ClaimPayment(c) => Records!ClaimPayment(c)
  BY DEF Server!ClaimPayment, Records!ClaimPayment, Server!Correlates, Records!Correlates,
         Server!Accept, Records!Accept, Server!Fresh, Records!Fresh,
         Server!RefuseClaim, Records!RefuseClaim
<1>10. \A c : Server!PutClaim(c) => Records!PutClaim(c)
  BY <1>5 DEF Server!PutClaim, Records!PutClaim
<1>. QED
  BY <1>1, <1>2, <1>3, <1>4, <1>6, <1>7, <1>8, <1>9, <1>10
-----------------------------------------------------------------------------
(* What a command does to the rounds.                                      *)

\* The parts of a round, and which is a command's own.
LEMMA RoundParts ==
    ASSUME TypeOK
    PROVE  /\ \A p \in Round : p[1] \in Client /\ p[2] \in 1 .. MaxRounds
           /\ \A w \in Client : /\ This(w) \in Round
                                /\ This(w)[1] = w /\ This(w)[2] = round[w]
                                /\ This(w) \in RealRound <=> w \in RealPayment
                                /\ This(w) \in MockRound <=> w \notin RealPayment
           /\ \A v, w \in Client : This(v) = This(w) => v = w
BY RoundKinds DEF TypeOK, This, Round, Rounds

LEMMA InitClient == Init => ClientInv
<1>. SUFFICES ASSUME Init PROVE ClientInv
  OBVIOUS
<1>1. TypeOK
  BY RoundsAssumption DEF Init, TypeOK, PayStep, Watch
<1>2. SentInOrder /\ SentIsProved
  BY DEF Init, SentInOrder, SentIsProved
<1>3. StepsSound
  BY DEF Init, StepsSound, PayStep, Watch
<1>4. ReceivedWasSent
  BY DEF Init, Server!Init, ReceivedWasSent
<1>5. SaidSound
  BY DEF Init, SaidSound
<1>. QED
  BY <1>1, <1>2, <1>3, <1>4, <1>5 DEF ClientInv

\* A command's round is over, and it says how; all else stays.
LEMMA SayPreserves ==
    ASSUME ClientInv, NEW w \in Client, NEW what \in {"withheld", "failed", "paid"},
           Say(w, what),
           pc[w] \notin {"over", "done"},
           UNCHANGED <<server, stored, payOnly, round, proved, sent>>,
           what = "withheld" => This(w) \notin sent,
           what = "paid" /\ w \notin RealPayment => WasCreated(This(w))
    PROVE  ClientInv'
<1>1. UNCHANGED <<wallet, settled, claims, stored, payOnly, round, proved, sent>>
  BY DEF server
<1>2. /\ pc'[w] = "over" /\ said'[This(w)] = what
      /\ \A v \in Client : v # w => pc'[v] = pc[v]
      /\ \A p \in Round : p # This(w) => said'[p] = said[p]
  BY RoundParts DEF Say, GoTo, ClientInv, TypeOK
<1>3. \A v \in Client : This(v)' = This(v)
  BY <1>1 DEF This
<1>4. TypeOK'
  BY <1>1 DEF Say, GoTo, ClientInv, TypeOK
<1>5. SentInOrder'
  BY <1>1, <1>2, <1>3, RoundParts DEF ClientInv, SentInOrder, TypeOK, This
<1>6. StepsSound'
  BY <1>1, <1>2, <1>3 DEF ClientInv, StepsSound, Watch
<1>7. SentIsProved' /\ ReceivedWasSent'
  BY <1>1 DEF ClientInv, SentIsProved, ReceivedWasSent, Rounds, Watch
<1>8. SaidSound'
  <2>. SUFFICES ASSUME NEW p \in Round
                PROVE  /\ said'[p] # "nothing" => p[2] <= round[p[1]]
                       /\ said'[p] # "nothing" /\ p = This(p[1]) => pc'[p[1]] \in {"over", "done"}
                       /\ said'[p] = "withheld" => p \notin sent
                       /\ said'[p] = "paid" /\ p \in MockRound => WasCreated(p)
    BY <1>1 DEF SaidSound, WasCreated, This
  <2>1. CASE p = This(w)
    BY <1>1, <1>2, <2>1, RoundParts DEF ClientInv, TypeOK
  <2>2. CASE p # This(w)
    <3>1. p[1] = w => p # This(p[1])
      BY <2>2
    <3>. QED
      BY <1>2, <2>2, <3>1, RoundParts DEF ClientInv, SaidSound
  <2>. QED
    BY <2>1, <2>2
<1>. QED
  BY <1>4, <1>5, <1>6, <1>7, <1>8 DEF ClientInv
\* A command goes on after a good proof, or with an offer, or ends.
LEMMA GoPreserves ==
    ASSUME ClientInv, NEW w \in Client,
           NEW step \in {"offer", "send", "claim", "done"},
           GoTo(w, step),
           \/ step \in {"offer", "send", "claim"} /\ pc[w] \in {"verify", "offer"}
           \/ step = "done",
           step \in {"offer", "send"} => w \in RealPayment,
           step = "claim" => w \notin RealPayment,
           proved \subseteq proved', proved' \subseteq Round,
           step # "done" /\ w \in Watch => This(w) \in proved',
           UNCHANGED <<server, stored, payOnly, round, sent, said>>
    PROVE  ClientInv'
<1>1. UNCHANGED <<wallet, settled, claims, stored, payOnly, round, sent, said>>
  BY DEF server
<1>2. pc'[w] = step /\ \A v \in Client : v # w => pc'[v] = pc[v]
  BY DEF GoTo, ClientInv, TypeOK
<1>3. \A v \in Client : This(v)' = This(v)
  BY <1>1 DEF This
<1>4. TypeOK'
  BY <1>1 DEF GoTo, ClientInv, TypeOK
<1>5. step # "done" => This(w) \notin sent /\ said[This(w)] = "nothing"
  BY RoundParts DEF ClientInv, SentInOrder, SaidSound
<1>6. SentInOrder'
  BY <1>1, <1>2, <1>5, RoundParts DEF ClientInv, SentInOrder, TypeOK, This
<1>7. StepsSound'
  BY <1>1, <1>2, <1>3 DEF ClientInv, StepsSound, Watch
<1>8. SentIsProved' /\ ReceivedWasSent'
  BY <1>1 DEF ClientInv, SentIsProved, ReceivedWasSent, Rounds, Watch
<1>9. SaidSound'
  BY <1>1, <1>2, <1>5, RoundParts DEF ClientInv, SaidSound, WasCreated, TypeOK, This
<1>. QED
  BY <1>4, <1>6, <1>7, <1>8, <1>9 DEF ClientInv

\* A payment or a claim is sent.
LEMMA SentPreserves ==
    ASSUME ClientInv, NEW w \in Client,
           NEW step \in {"sending", "claiming"},
           GoTo(w, step),
           step = "sending" => pc[w] = "send",
           step = "claiming" => pc[w] = "claim",
           sent' = sent \cup {This(w)},
           \A p \in MockRound : p # This(w) => claims'[RoundId[p]] = claims[RoundId[p]],
           step = "sending" => claims' = claims,
           UNCHANGED <<wallet, settled, stored, payOnly, round, proved, said>>
    PROVE  ClientInv'
<1>1. pc'[w] = step /\ \A v \in Client : v # w => pc'[v] = pc[v]
  BY DEF GoTo, ClientInv, TypeOK
<1>2. \A v \in Client : This(v)' = This(v)
  BY DEF This
<1>3. TypeOK'
  BY RoundParts DEF GoTo, ClientInv, TypeOK
<1>4. This(w) \notin sent /\ said[This(w)] = "nothing"
  BY RoundParts DEF ClientInv, SentInOrder, SaidSound
<1>5. SentInOrder'
  <2>. SUFFICES ASSUME NEW p \in sent'
                PROVE  /\ p[2] <= round[p[1]]
                       /\ p = This(p[1]) => pc'[p[1]] \in {"sending", "claiming", "over", "done"}
    BY DEF SentInOrder, This
  <2>1. CASE p = This(w)
    BY <1>1, <2>1, RoundParts DEF ClientInv, TypeOK
  <2>2. CASE p # This(w)
    BY <1>1, <2>2, RoundParts DEF ClientInv, SentInOrder, TypeOK
  <2>. QED
    BY <2>1, <2>2
<1>6. StepsSound'
  BY <1>1, <1>2 DEF ClientInv, StepsSound, Watch
<1>7. SentIsProved'
  <2>. SUFFICES ASSUME NEW p \in Rounds(Watch), p \in sent'
                PROVE  p \in proved
    BY DEF SentIsProved, Watch, Rounds
  <2>1. CASE p = This(w)
    <3>1. w \in Watch
      BY <2>1, RoundParts DEF ClientInv, Rounds
    <3>. QED
      BY <2>1, <3>1 DEF ClientInv, StepsSound
  <2>2. CASE p # This(w)
    BY <2>2 DEF ClientInv, SentIsProved
  <2>. QED
    BY <2>1, <2>2
<1>8. ReceivedWasSent'
  BY DEF ClientInv, ReceivedWasSent
<1>9. SaidSound'
  <2>1. \A p \in Round : said[p] # "nothing" => p # This(w)
    BY <1>4
  <2>. QED
    BY <1>1, <2>1, RoundParts DEF ClientInv, SaidSound, WasCreated, TypeOK, This
<1>. QED
  BY <1>3, <1>5, <1>6, <1>7, <1>8, <1>9 DEF ClientInv

\* A watch goes on to its next round.
LEMMA NextRoundPreserves ==
    ASSUME ClientInv, NEW w \in Client, NextRound(w)
    PROVE  ClientInv'
<1>1. /\ UNCHANGED <<wallet, settled, claims, stored, payOnly, proved, sent, said>>
      /\ round[w] < MaxRounds
  BY DEF NextRound, server
<1>2. /\ pc'[w] = "verify" /\ \A v \in Client : v # w => pc'[v] = pc[v]
      /\ round'[w] = round[w] + 1 /\ \A v \in Client : v # w => round'[v] = round[v]
  BY DEF NextRound, GoTo, ClientInv, TypeOK
<1>3. round[w] \in 1 .. MaxRounds /\ round[w] + 1 \in 1 .. MaxRounds
  BY <1>1, RoundsAssumption DEF ClientInv, TypeOK
<1>4. TypeOK'
  BY <1>1, <1>3 DEF NextRound, GoTo, ClientInv, TypeOK
<1>5. \A v \in Client : v # w => This(v)' = This(v)
  BY <1>2 DEF This
<1>6. ASSUME NEW p \in Round, p[2] <= round[p[1]]
      PROVE  /\ p[2] <= round'[p[1]]
             /\ p = This(p[1])' => p[1] # w /\ p = This(p[1]) /\ pc'[p[1]] = pc[p[1]]
  <2>1. p[1] \in Client /\ p[2] \in Nat /\ round[p[1]] \in Nat
    BY RoundParts DEF ClientInv, TypeOK
  <2>2. CASE p[1] = w
    <3>1. p[2] # round'[w]
      BY <1>2, <1>3, <1>6, <2>1, <2>2
    <3>2. p # This(p[1])'
      BY <2>2, <3>1 DEF This
    <3>. QED
      BY <1>2, <1>3, <1>6, <2>1, <2>2, <3>2
  <2>3. CASE p[1] # w
    BY <1>2, <1>5, <1>6, <2>1, <2>3
  <2>. QED
    BY <2>2, <2>3
<1>7. SentInOrder'
  BY <1>1, <1>6 DEF ClientInv, SentInOrder, TypeOK
<1>8. StepsSound'
  BY <1>1, <1>2, <1>5 DEF ClientInv, StepsSound, Watch
<1>9. SentIsProved' /\ ReceivedWasSent'
  BY <1>1 DEF ClientInv, SentIsProved, ReceivedWasSent, Rounds, Watch
<1>10. SaidSound'
  BY <1>1, <1>6 DEF ClientInv, SaidSound, WasCreated
<1>. QED
  BY <1>4, <1>7, <1>8, <1>9, <1>10 DEF ClientInv

\* A step of the provider: what it has received was sent, and a claim that was
\* created stays created.
LEMMA ProviderPreserves ==
    ASSUME ClientInv,
           UNCHANGED <<wallet, stored, client>>,
           settled \subseteq settled',
           \A p \in RealRound : RoundId[p] \in settled' => p \in sent,
           \A p \in MockRound :
             /\ claims'[RoundId[p]].pc # "idle" => claims[RoundId[p]].pc # "idle"
             /\ WasCreated(p) => WasCreated(p)'
    PROVE  ClientInv'
<1>1. UNCHANGED <<payOnly, pc, round, proved, sent, said>>
  BY DEF client
<1>2. TypeOK' /\ SentInOrder' /\ StepsSound' /\ SentIsProved'
  BY <1>1 DEF ClientInv, TypeOK, SentInOrder, StepsSound, SentIsProved, This, Watch, Rounds
<1>3. ReceivedWasSent'
  BY <1>1 DEF ClientInv, ReceivedWasSent
<1>4. SaidSound'
  BY <1>1 DEF ClientInv, SaidSound, WasCreated, This
<1>. QED
  BY <1>2, <1>3, <1>4 DEF ClientInv
-----------------------------------------------------------------------------
(* Both sides together.                                                    *)

BillingInv == ClientInv /\ Records!PInv

\* Every step is a step of the provider or leaves it alone.
LEMMA NextIsServerNext ==
    ASSUME ClientInv, Next
    PROVE  Server!Next \/ UNCHANGED Server!vars
<1>1. ASSUME UNCHANGED server PROVE UNCHANGED Server!vars
  BY <1>1 DEF server, Server!vars
<1>2. CASE \E w \in Client : \/ Verify(w) \/ GetOffer(w) \/ Send(w) \/ Paid(w)
                             \/ ClaimAnswered(w) \/ NextRound(w) \/ End(w)
  BY <1>1, <1>2 DEF Verify, GetOffer, Send, Paid, ClaimAnswered, NextRound, End
<1>3. ASSUME NEW w \in Client, PostClaim(w)
      PROVE  Server!Next \/ UNCHANGED Server!vars
  <2>1. This(w) \in MockRound
    BY <1>3, RoundParts DEF PostClaim, ClientInv, StepsSound
  <2>2. Server!ClaimPayment(RoundId[This(w)]) \/ UNCHANGED server
    BY <1>3 DEF PostClaim
  <2>. QED
    BY <1>1, <2>1, <2>2 DEF Server!Next
<1>4. ASSUME NEW p \in RealRound, Settle(p)
      PROVE  Server!Next
  BY <1>4 DEF Settle, Server!Next
<1>5. CASE Provider
  BY <1>5 DEF Provider, Server!Next
<1>6. CASE LoseBytes
  BY <1>1, <1>6 DEF LoseBytes
<1>. QED
  BY <1>2, <1>3, <1>4, <1>5, <1>6 DEF Next

\* The steps of the provider are those the theorems of Payments are about.
LEMMA ServerNextIsRecordsNext ==
    ASSUME Server!Next \/ UNCHANGED Server!vars
    PROVE  Records!Next \/ UNCHANGED Records!vars
<1>1. CASE Server!Next
  BY <1>1, ServerSteps, Zenon DEF Server!Next, Records!Next
<1>2. CASE UNCHANGED Server!vars
  BY <1>2 DEF Server!vars, Records!vars
<1>. QED
  BY <1>1, <1>2

\* A claim is at a step of its own; a step of it changes no other claim.
LEMMA ClaimSteps ==
    ASSUME Records!PInv
    PROVE  /\ \A c \in {RoundId[p] : p \in MockRound} :
                Server!ClaimPayment(c) =>
                  /\ UNCHANGED <<wallet, settled>>
                  /\ \A d \in {RoundId[p] : p \in MockRound} :
                       d # c => claims'[d] = claims[d]
           /\ Server!Restart \/ (\E c \in {RoundId[p] : p \in MockRound} : Server!PutClaim(c)) =>
                /\ UNCHANGED <<wallet, settled>>
                /\ \A d \in {RoundId[p] : p \in MockRound} :
                     /\ claims'[d].pc # "idle" => claims[d].pc # "idle"
                     /\ claims[d].pc \in {"created", "forgotten"} =>
                          claims'[d].pc \in {"created", "forgotten"}
<1> DEFINE Claims == {RoundId[p] : p \in MockRound}
<1>1. claims \in [Claims -> [pc : {"idle", "put", "refused", "created", "failed", "forgotten"},
                             id : RandomId \cup {Records!NoOne}]]
  BY DEF Records!PInv, Records!TypeOK
<1>. HIDE DEF Claims
<1>2. ASSUME NEW c \in Claims, Server!ClaimPayment(c)
      PROVE  /\ UNCHANGED <<wallet, settled>>
             /\ \A d \in Claims : d # c => claims'[d] = claims[d]
  BY <1>1, <1>2 DEF Server!ClaimPayment, Server!Accept, Server!RefuseClaim
<1>3. ASSUME NEW c \in Claims, Server!PutClaim(c)
      PROVE  /\ UNCHANGED <<wallet, settled>>
             /\ \A d \in Claims :
                  /\ claims'[d].pc # "idle" => claims[d].pc # "idle"
                  /\ claims[d].pc \in {"created", "forgotten"} =>
                       claims'[d].pc \in {"created", "forgotten"}
  <2>1. PICK step \in {"created", "failed"} : claims' = [claims EXCEPT ![c].pc = step]
    BY <1>3 DEF Server!PutClaim
  <2>. QED
    BY <1>1, <1>3, <2>1 DEF Server!PutClaim
<1>4. ASSUME Server!Restart
      PROVE  /\ UNCHANGED <<wallet, settled>>
             /\ \A d \in Claims :
                  /\ claims'[d].pc # "idle" => claims[d].pc # "idle"
                  /\ claims[d].pc \in {"created", "forgotten"} =>
                       claims'[d].pc \in {"created", "forgotten"}
  <2>1. claims' = [c \in Claims |-> Server!AfterRestart(claims[c])]
    BY <1>4 DEF Server!Restart, Claims
  <2>2. \A d \in Claims :
          claims'[d].pc = IF claims[d].pc = "put" THEN "failed"
                          ELSE IF claims[d].pc = "created" /\ ~durable THEN "forgotten"
                          ELSE claims[d].pc
    BY <1>1, <2>1 DEF Server!AfterRestart
  <2>. QED
    BY <1>4, <2>2 DEF Server!Restart
<1>. QED
  BY <1>2, <1>3, <1>4 DEF Claims

LEMMA ClientNext ==
    ASSUME BillingInv, [Next]_vars
    PROVE  ClientInv'
<1>. USE DEF BillingInv
<1>1. ASSUME NEW w \in Client, Verify(w) PROVE ClientInv'
  <2>1. CASE Say(w, "withheld") /\ UNCHANGED proved
    BY <1>1, <2>1, SayPreserves, RoundParts DEF Verify, ClientInv, SentInOrder
  <2>2. CASE /\ proved' = proved \cup {This(w)}
             /\ GoTo(w, PayStep(w))
             /\ UNCHANGED said
    BY <1>1, <2>2, GoPreserves, RoundParts DEF Verify, PayStep, ClientInv, TypeOK
  <2>. QED
    BY <1>1, <2>1, <2>2 DEF Verify
<1>2. ASSUME NEW w \in Client, GetOffer(w) PROVE ClientInv'
  <2>1. CASE Say(w, "failed")
    BY <1>2, <2>1, SayPreserves DEF GetOffer
  <2>2. CASE GoTo(w, "send") /\ UNCHANGED said
    BY <1>2, <2>2, GoPreserves DEF GetOffer, ClientInv, StepsSound, TypeOK
  <2>. QED
    BY <1>2, <2>1, <2>2 DEF GetOffer
<1>3. ASSUME NEW w \in Client, Send(w) PROVE ClientInv'
  <2>1. CASE Say(w, "failed") /\ UNCHANGED sent
    BY <1>3, <2>1, SayPreserves DEF Send
  <2>2. CASE sent' = sent \cup {This(w)} /\ GoTo(w, "sending") /\ UNCHANGED said
    BY <1>3, <2>2, SentPreserves DEF Send, server
  <2>. QED
    BY <1>3, <2>1, <2>2 DEF Send
<1>4. ASSUME NEW w \in Client, Paid(w) PROVE ClientInv'
  BY <1>4, SayPreserves DEF Paid, ClientInv, StepsSound
<1>5. ASSUME NEW w \in Client, PostClaim(w) PROVE ClientInv'
  <2>1. CASE Say(w, "failed") /\ UNCHANGED <<server, sent>>
    BY <1>5, <2>1, SayPreserves DEF PostClaim
  <2>2. CASE /\ Server!ClaimPayment(RoundId[This(w)])
             /\ sent' = sent \cup {This(w)}
             /\ GoTo(w, "claiming")
             /\ UNCHANGED said
    <3>1. This(w) \in MockRound
      BY <1>5, RoundParts DEF PostClaim, ClientInv, StepsSound
    <3>2. /\ UNCHANGED <<wallet, settled>>
          /\ \A p \in MockRound : p # This(w) => claims'[RoundId[p]] = claims[RoundId[p]]
      BY <2>2, <3>1, ClaimSteps, RoundIds, RoundKinds
    <3>. QED
      BY <1>5, <2>2, <3>2, SentPreserves DEF PostClaim
  <2>. QED
    BY <1>5, <2>1, <2>2 DEF PostClaim
<1>6. ASSUME NEW w \in Client, ClaimAnswered(w) PROVE ClientInv'
  BY <1>6, SayPreserves DEF ClaimAnswered, ClientInv, StepsSound, WasCreated
<1>7. ASSUME NEW w \in Client, NextRound(w) PROVE ClientInv'
  BY <1>7, NextRoundPreserves
<1>8. ASSUME NEW w \in Client, End(w) PROVE ClientInv'
  BY <1>8, GoPreserves DEF End, ClientInv, TypeOK
<1>9. ASSUME NEW p \in RealRound, Settle(p) PROVE ClientInv'
  <2>1. settled' = settled \cup {RoundId[p]} /\ p \in sent
        /\ UNCHANGED <<wallet, claims, stored, client>>
    BY <1>9 DEF Settle, Server!Settle
  <2>. QED
    BY <2>1, ProviderPreserves, RoundIds, RoundKinds DEF ClientInv, ReceivedWasSent, WasCreated
<1>10. CASE Provider
  <2>1. CASE Server!Restart \/ \E p \in MockRound : Server!PutClaim(RoundId[p])
    BY <1>10, <2>1, ClaimSteps, ProviderPreserves
    DEF Provider, ClientInv, ReceivedWasSent, WasCreated
  <2>2. CASE UNCHANGED <<wallet, settled, claims>>
    BY <1>10, <2>2, ProviderPreserves
    DEF Provider, ClientInv, ReceivedWasSent, WasCreated
  <2>3. ASSUME \/ \E b \in Backup : Server!ListBackup(b)
               \/ \E p \in RealRound : Server!OnEvent(RoundId[p])
               \/ Server!Consume
               \/ Server!StoreError
        PROVE  UNCHANGED <<wallet, settled, claims>>
    BY <2>3 DEF Server!ListBackup, Server!OnEvent, Server!Consume, Server!Receive,
                Server!Lookup, Server!PutRecord, Server!StoreError
  <2>. QED
    BY <1>10, <2>1, <2>2, <2>3 DEF Provider
<1>11. CASE LoseBytes
  BY <1>11 DEF LoseBytes, server, client, ClientInv, TypeOK, SentInOrder, StepsSound,
               SentIsProved, ReceivedWasSent, SaidSound, WasCreated, This, Watch,
               Rounds
<1>12. CASE UNCHANGED vars
  BY <1>12 DEF vars, server, client, ClientInv, TypeOK, SentInOrder, StepsSound,
               SentIsProved, ReceivedWasSent, SaidSound, WasCreated, This, Watch,
               Rounds
<1>. QED
  BY <1>1, <1>2, <1>3, <1>4, <1>5, <1>6, <1>7, <1>8, <1>9, <1>10, <1>11, <1>12 DEF Next
-----------------------------------------------------------------------------
(* The theorems.                                                           *)

\* The inductive invariant: that of the commands, with that of Payments.
THEOREM BillingInvariance == Spec => []BillingInv
<1>1. Init => BillingInv
  BY InitClient, ServerSteps, Records!InitInv, RecordsAssumptions DEF Init, BillingInv
<1>2. BillingInv /\ [Next]_vars => BillingInv'
  <2>. SUFFICES ASSUME BillingInv, [Next]_vars PROVE BillingInv'
    OBVIOUS
  <2>1. Server!Next \/ UNCHANGED Server!vars
    BY NextIsServerNext DEF BillingInv, vars, server, Server!vars
  <2>2. Records!PInv'
    BY <2>1, ServerNextIsRecordsNext, Records!PInvNext, RecordsAssumptions DEF BillingInv
  <2>. QED
    BY <2>2, ClientNext DEF BillingInv
<1>. QED
  BY <1>1, <1>2, PTL DEF Spec

\* Type correctness of the commands and of the provider.
THEOREM TypeCorrect == Spec => [](TypeOK /\ Server!TypeOK)
<1>1. BillingInv => TypeOK
  BY DEF BillingInv, ClientInv
<1>2. BillingInv => Server!TypeOK
  BY DEF BillingInv, Records!PInv, Records!TypeOK, Server!TypeOK, Records!NoOne, Server!NoOne,
         Records!Key, Server!Key, Records!Record, Server!Record, Records!Payer, Server!Payer,
         Records!NoRecord, Server!NoRecord, Records!Loss, Server!Loss
<1>. QED
  BY <1>1, <1>2, BillingInvariance, PTL

\* Whatever the commands do, the provider behaves as Payments: all that is
\* proved of Payments holds of it.
THEOREM ProviderIsPayments == Spec => Server!Spec
<1>1. Init => Server!Init
  BY DEF Init
<1>2. BillingInv /\ [Next]_vars => [Server!Next]_(Server!vars)
  <2>1. ASSUME BillingInv, Next PROVE [Server!Next]_(Server!vars)
    BY <2>1, NextIsServerNext DEF BillingInv
  <2>2. ASSUME UNCHANGED vars PROVE UNCHANGED Server!vars
    BY <2>2 DEF vars, server, Server!vars
  <2>. QED
    BY <2>1, <2>2
<1>. QED
  BY <1>1, <1>2, BillingInvariance, PTL DEF Spec, Server!Spec

\* The records of a round are those of its payment or its claim.
LEMMA RecordsOfRound ==
    ASSUME BillingInv, NEW p \in Round, NEW k \in RecordsOf(p)
    PROVE  /\ k \in Records!Key /\ Records!Present(records[k])
           /\ records[k].value.payer = RoundId[p]
           /\ p \in sent
           /\ p \in RealRound => k = RoundId[p]
           /\ p \in MockRound => ~wallet /\ k = claims[RoundId[p]].id
<1>1. k \in Records!Key /\ Records!Present(records[k]) /\ records[k].value.payer = RoundId[p]
  BY DEF RecordsOf, Server!RecordsOf, Server!Recorded, Server!Key, Records!Key,
         Server!Present, Records!Present
<1>2. CASE p \in RealRound
  <2>1. RoundId[p] \in settled /\ k = RoundId[p]
    BY <1>1, <1>2 DEF BillingInv, Records!PInv, Records!RecordsSound
  <2>. QED
    BY <1>1, <1>2, <2>1, RoundKinds DEF BillingInv, ClientInv, ReceivedWasSent
<1>3. CASE p \in MockRound
  <2>1. ~wallet
    <3>1. RoundId[p] \in {RoundId[q] : q \in MockRound}
      BY <1>3
    <3>2. records[k].value.payer \in {RoundId[q] : q \in MockRound} => ~wallet
      BY <1>1, Zenon DEF BillingInv, Records!PInv, Records!RecordsSound
    <3>. QED
      BY <1>1, <3>1, <3>2
  <2>2. Records!HasId(RoundId[p]) /\ k = claims[RoundId[p]].id
    BY <1>1, <1>3 DEF BillingInv, Records!PInv, Records!ClaimsSound
  <2>3. p \in sent
    BY <1>3, <2>2 DEF Records!HasId, BillingInv, ClientInv, ReceivedWasSent
  <2>. QED
    BY <1>1, <1>3, <2>1, <2>2, <2>3, RoundKinds
<1>. QED
  BY <1>2, <1>3, RoundKinds

\* "Revenue stops the moment data drops" (README.md:40-41): what the provider
\* receives or records of a watch is for rounds with a good proof.
THEOREM RevenueProved == Spec => []RevenueIsProved
<1>1. BillingInv => RevenueIsProved
  <2>. SUFFICES ASSUME BillingInv, NEW p \in Rounds(Watch),
                       RoundId[p] \in settled \/ RecordsOf(p) # {}
                PROVE  p \in proved
    BY DEF RevenueIsProved
  <2>1. p \in Round
    BY DEF Rounds, Round, Watch
  <2>2. p \in sent
    <3>1. CASE RecordsOf(p) # {}
      BY <2>1, <3>1, RecordsOfRound
    <3>2. CASE RoundId[p] \in settled
      <4>1. RoundId[p] \in {RoundId[q] : q \in RealRound}
        BY <3>2 DEF BillingInv, Records!PInv, Records!TypeOK
      <4>2. p \in RealRound
        BY <2>1, <4>1, RoundIds, RoundKinds
      <4>. QED
        BY <3>2, <4>2 DEF BillingInv, ClientInv, ReceivedWasSent
    <3>. QED
      BY <3>1, <3>2
  <2>. QED
    BY <2>2 DEF BillingInv, ClientInv, SentIsProved
<1>. QED
  BY <1>1, BillingInvariance, PTL

\* A round costs at most once; of a withheld one the provider has nothing; a
\* claim that is said to be paid has its record, until it is forgotten.
THEOREM SaidMatches == Spec => []SaidMatchesProvider
<1>1. BillingInv => SaidMatchesProvider
  <2>. SUFFICES ASSUME BillingInv, NEW p \in Round
                PROVE  /\ \A j, k \in RecordsOf(p) : j = k
                       /\ said[p] = "withheld" => RoundId[p] \notin settled /\ RecordsOf(p) = {}
                       /\ said[p] = "paid" /\ p \in MockRound =>
                            /\ ~wallet
                            /\ RecordsOf(p) # {} \/ claims[RoundId[p]].pc = "forgotten"
    BY DEF SaidMatchesProvider
  <2>1. \A j, k \in RecordsOf(p) : j = k
    BY RecordsOfRound, RoundKinds
  <2>2. ASSUME said[p] = "withheld"
        PROVE  RoundId[p] \notin settled /\ RecordsOf(p) = {}
    <3>1. p \notin sent
      BY <2>2 DEF BillingInv, ClientInv, SaidSound
    <3>2. settled \subseteq {RoundId[q] : q \in RealRound}
      BY DEF BillingInv, Records!PInv, Records!TypeOK
    <3>3. RoundId[p] \notin settled
      BY <3>1, <3>2, RoundIds, RoundKinds DEF BillingInv, ClientInv, ReceivedWasSent
    <3>. QED
      BY <3>1, <3>3, RecordsOfRound
  <2>3. ASSUME said[p] = "paid", p \in MockRound
        PROVE  /\ ~wallet
               /\ RecordsOf(p) # {} \/ claims[RoundId[p]].pc = "forgotten"
    <3>1. WasCreated(p)
      BY <2>3 DEF BillingInv, ClientInv, SaidSound
    <3>2. ~wallet
      BY <2>3, <3>1 DEF WasCreated, BillingInv, Records!PInv, Records!ClaimsSound
    <3>3. CASE claims[RoundId[p]].pc = "created"
      <4> DEFINE k == claims[RoundId[p]].id
      <4>1. Records!Present(records[k]) /\ records[k].value.payer = RoundId[p]
        BY <2>3, <3>3 DEF BillingInv, Records!PInv, Records!ClaimsSound
      <4>2. k \in RandomId
        BY <2>3, <3>3 DEF BillingInv, Records!PInv, Records!IdsSound, Records!HasId,
                          Records!TypeOK
      <4>3. k \in RecordsOf(p)
        BY <4>1, <4>2 DEF RecordsOf, Server!RecordsOf, Server!Recorded, Server!Key,
                          Server!Present, Records!Present
      <4>. QED
        BY <3>2, <4>3
    <3>. QED
      BY <3>1, <3>2, <3>3 DEF WasCreated
  <2>. QED
    BY <2>1, <2>2, <2>3
<1>. QED
  BY <1>1, BillingInvariance, PTL
=============================================================================
