------------------------------ MODULE Discovery ------------------------------
(***************************************************************************)
(* Service announcements: POST /api/v1/announce of pivss-server signs the  *)
(* provider's present terms as a nostr event and publishes it to one relay *)
(* after the other; `discover` of pivss-client queries one relay after the *)
(* other and keeps, per public key, the newest event whose signature is    *)
(* good.  Any number of announcements and the discovery overlap.           *)
(*                                                                         *)
(* The events a relay keeps are those of nostr.rs: the newest per key.     *)
(* `last_announcement` is left out: announce stores it, nothing reads it.  *)
(***************************************************************************)
EXTENDS Naturals, Sequences, FiniteSets, SequencesExt

CONSTANTS Provider,     \* public keys
          Request,      \* announce requests that publish (no dry run)
          By,           \* By[a]: the provider that serves request a
          Relays,       \* the relays, in the order both sides are given them
          Stray,        \* events with a bad id or signature that relays hold
          Foreign,      \* requests of a release whose content does not parse here
          MaxTime,      \* bound on the clock, in seconds
          MaxTerms      \* bound on the changes of a provider's terms

ASSUME ByAssumption == By \in [Request -> Provider]
ASSUME ProviderAssumption == IsFiniteSet(Provider)
ASSUME RelaysAssumption == Relays \in Seq(ToSet(Relays))
ASSUME ForeignAssumption == Foreign \subseteq Request
ASSUME BoundsAssumption == MaxTime \in Nat /\ MaxTerms \in Nat
ASSUME StrayAssumption ==
    Stray \subseteq [by : Provider, at : Nat, terms : Nat, signed : {FALSE},
                     readable : BOOLEAN]

VARIABLES clock,        \* now_secs()
          terms,        \* terms[p]: revision of the settings and the offer of p
          pc,           \* the step each announce request is at
          event,        \* the event each request publishes
          turn,         \* the relay each request publishes to next
          held,         \* held[r]: the signed events relay r holds
          late,         \* sent to a relay by a publisher that waits no longer
          acked,        \* acked[r]: events that r has accepted (history)
          client        \* the discover command
vars == <<clock, terms, pc, event, turn, held, late, acked, client>>

Relay == ToSet(Relays)
Event == [by : Provider, at : Nat, terms : Nat, signed : BOOLEAN, readable : BOOLEAN]
NoEvent == [by |-> "none", at |-> 0, terms |-> 0, signed |-> FALSE, readable |-> FALSE]
NotFound == [event |-> NoEvent, seen |-> <<>>]

Init ==
    /\ clock = 0
    /\ terms = [p \in Provider |-> 0]
    /\ pc = [a \in Request |-> "idle"]
    /\ event = [a \in Request |-> NoEvent]
    /\ turn = [a \in Request |-> 1]
    /\ held = [r \in Relay |-> {}]
    /\ late = {}
    /\ acked = [r \in Relay |-> {}]
    /\ client = [pc |-> "idle", turn |-> 1, queue |-> {},
                 found |-> [p \in Provider |-> NotFound], shown |-> <<>>,
                 owed |-> {}, read |-> {}]

Tick == /\ clock < MaxTime
        /\ clock' = clock + 1
        /\ UNCHANGED <<terms, pc, event, turn, held, late, acked, client>>

\* A settings request, or a refreshed offer.
ChangeTerms(p) ==
    /\ terms[p] < MaxTerms
    /\ terms' = [terms EXCEPT ![p] = @ + 1]
    /\ UNCHANGED <<clock, pc, event, turn, held, late, acked, client>>

(***************************************************************************)
(* announce.                                                               *)
(***************************************************************************)
GoTo(a, step) == pc' = [pc EXCEPT ![a] = step]

\* announcement(): the terms are read before the time is.
ReadTerms(a) ==
    /\ pc[a] = "idle"
    /\ event' = [event EXCEPT ![a] =
                   [by |-> By[a], at |-> 0, terms |-> terms[By[a]], signed |-> FALSE,
                    readable |-> a \notin Foreign]]
    /\ GoTo(a, "sign")
    /\ UNCHANGED <<clock, terms, turn, held, late, acked, client>>

Sign(a) ==
    /\ pc[a] = "sign"
    /\ event' = [event EXCEPT ![a].at = clock, ![a].signed = TRUE]
    /\ GoTo(a, IF Relays = <<>> THEN "done" ELSE "publish")
    /\ UNCHANGED <<clock, terms, turn, held, late, acked, client>>

\* A relay keeps the newest event of each key; of two of the same second it
\* keeps either.
RelayTakes(r, e) ==
    LET rivals == {f \in held[r] : f.by = e.by} IN
    \/ (\E f \in rivals : f.at >= e.at) /\ UNCHANGED held
    \/ /\ \A f \in rivals : f.at <= e.at
       /\ held' = [held EXCEPT ![r] = (@ \ rivals) \cup {e}]

NextTurn(a) ==
    /\ turn' = [turn EXCEPT ![a] = @ + 1]
    /\ GoTo(a, IF turn[a] = Len(Relays) THEN "done" ELSE "publish")

\* The relay takes the event, or has a newer one, and answers OK with true.
PublishAcked(a) ==
    /\ pc[a] = "publish"
    /\ LET r == Relays[turn[a]] IN
       /\ RelayTakes(r, event[a])
       /\ acked' = [acked EXCEPT ![r] = @ \cup {event[a]}]
    /\ NextTurn(a)
    /\ UNCHANGED <<clock, terms, event, late, client>>

\* OK with false, no answer within ten seconds, or an error: the relay does not
\* take the event, or takes it later.
PublishFailed(a) ==
    /\ pc[a] = "publish"
    /\ \/ UNCHANGED late
       \/ late' = late \cup {<<Relays[turn[a]], event[a]>>}
    /\ NextTurn(a)
    /\ UNCHANGED <<clock, terms, event, held, acked, client>>

\* The handler is dropped with its client's connection, or the server stops.
Drop(a) ==
    /\ pc[a] \in {"sign", "publish"}
    /\ GoTo(a, "done")
    /\ \/ UNCHANGED late
       \/ pc[a] = "publish" /\ late' = late \cup {<<Relays[turn[a]], event[a]>>}
    /\ UNCHANGED <<clock, terms, event, turn, held, acked, client>>

LateArrival(r, e) ==
    /\ <<r, e>> \in late
    /\ RelayTakes(r, e)
    /\ late' = late \ {<<r, e>>}
    /\ UNCHANGED <<clock, terms, pc, event, turn, acked, client>>

(***************************************************************************)
(* discover_providers.                                                     *)
(***************************************************************************)
Advance(c) == [c EXCEPT !.turn = @ + 1]

\* The discovery begins.  `owed` keeps what relays have accepted so far.
Discover ==
    /\ client.pc = "idle"
    /\ client' = [client EXCEPT !.pc = "query",
                    !.owed = UNION {{r} \X acked[r] : r \in Relay}]
    /\ UNCHANGED <<clock, terms, pc, event, turn, held, late, acked>>

\* query_relay: the relay is not reached, or its answer is cut off by an error:
\* nothing of it is used, and nothing is owed of it.
QueryFails ==
    /\ client.pc = "query"
    /\ client.queue = {}
    /\ client.turn <= Len(Relays)
    /\ LET r == Relays[client.turn] IN
       client' = [Advance(client) EXCEPT !.owed = {o \in @ : o[1] # r}]
    /\ UNCHANGED <<clock, terms, pc, event, turn, held, late, acked>>

\* The events up to EOSE, or, when the time is up, those that came before it.
QueryAnswers ==
    /\ client.pc = "query"
    /\ client.queue = {}
    /\ client.turn <= Len(Relays)
    /\ LET r == Relays[client.turn]
           all == held[r] \cup Stray
       IN  \E events \in SUBSET all :
             client' = [Advance(client) EXCEPT
               !.queue = events,
               !.owed = IF events = all THEN @ ELSE {o \in @ : o[1] # r}]
    /\ UNCHANGED <<clock, terms, pc, event, turn, held, late, acked>>

\* The relay whose answer is being read.
Current == Relays[client.turn - 1]

\* Bug: an event's signature is not looked at.
Merge_Unverified(entry, e) ==
    [event |-> IF entry = NotFound \/ e.at > entry.event.at THEN e ELSE entry.event,
     seen |-> Append(entry.seen, Current)]

\* Bug: the last event read replaces the others.
Merge_Fault(entry, e) ==
    IF ~e.signed THEN entry
    ELSE [event |-> e, seen |-> Append(entry.seen, Current)]

\* What is known of a public key after one more event of it.
Merge(entry, e) ==
    IF ~e.signed THEN entry
    ELSE [event |-> IF entry = NotFound \/ e.at > entry.event.at
                    THEN e ELSE entry.event,
          seen |-> Append(entry.seen, Current)]

TakeEvent ==
    /\ client.pc = "query"
    /\ \E e \in client.queue :
         client' = [client EXCEPT !.queue = @ \ {e},
                                  !.found[e.by] = Merge(@, e),
                                  !.read = @ \cup {e}]
    /\ UNCHANGED <<clock, terms, pc, event, turn, held, late, acked>>

\* The keys with an event that parses.
Listable == {p \in Provider : client.found[p] # NotFound
                                /\ client.found[p].event.readable}

\* The providers by price, which the revision of their terms stands for; those
\* of one price in any order.
Orders ==
    {q \in SetToSeqs(Listable) :
       \A i, j \in DOMAIN q :
         i < j => client.found[q[i]].event.terms <= client.found[q[j]].event.terms}

Show ==
    /\ client.pc = "query"
    /\ client.queue = {}
    /\ client.turn > Len(Relays)
    /\ \E q \in Orders : client' = [client EXCEPT !.pc = "done", !.shown = q]
    /\ UNCHANGED <<clock, terms, pc, event, turn, held, late, acked>>

Next ==
    \/ Tick
    \/ \E p \in Provider : ChangeTerms(p)
    \/ \E a \in Request : ReadTerms(a) \/ Sign(a) \/ PublishAcked(a) \/ PublishFailed(a)
                          \/ Drop(a)
    \/ \E l \in late : LateArrival(l[1], l[2])
    \/ Discover \/ QueryFails \/ QueryAnswers \/ TakeEvent \/ Show

Spec == Init /\ [][Next]_vars

(***************************************************************************)
(* Properties.                                                             *)
(***************************************************************************)
\* Every variable stays in the states of announce and discover_providers.
TypeOK ==
    /\ clock \in 0 .. MaxTime
    /\ terms \in [Provider -> 0 .. MaxTerms]
    /\ pc \in [Request -> {"idle", "sign", "publish", "done"}]
    /\ event \in [Request -> Event \cup {NoEvent}]
    /\ turn \in [Request -> 1 .. Len(Relays) + 1]
    /\ held \in [Relay -> SUBSET Event]
    /\ late \subseteq Relay \X Event
    /\ acked \in [Relay -> SUBSET Event]
    /\ client \in
         [pc : {"idle", "query", "done"}, turn : 1 .. Len(Relays) + 1,
          queue : SUBSET Event,
          found : [Provider -> [event : Event \cup {NoEvent}, seen : Seq(Relay)]],
          shown : Seq(Provider), owed : SUBSET (Relay \X Event),
          read : SUBSET Event]

\* "The newest valid announcement per pubkey (de-duplicated across relays)"
\* (discover.rs:25-27): of the events read so far that are signed by a key, the
\* one kept is the newest, in whatever order relays return them.
NewestIsKept ==
    \A p \in Provider :
        LET signed == {e \in client.read : e.by = p /\ e.signed}
            kept == client.found[p]
        IN  IF signed = {} THEN kept = NotFound
            ELSE kept.event \in signed /\ \A e \in signed : e.at <= kept.event.at

\* An announcement that a relay accepted before the discovery began is
\* found through that relay, if its answer came in full: the client ends up
\* with that event or one that is at least as new, although relays keep one
\* event per key, publishers overlap and other events arrive late.
AcceptedIsFound ==
    client.pc = "done" =>
        \A o \in client.owed :
            client.found[o[2].by].event.at >= o[2].at

\* Providers are shown with terms they had announced, never those of an event
\* that only carries their key.
ShownWasAnnounced ==
    \A i \in DOMAIN client.shown :
        \E a \in Request :
            /\ By[a] = client.shown[i]
            /\ pc[a] \in {"publish", "done"}
            /\ event[a] = client.found[client.shown[i]].event
=============================================================================
