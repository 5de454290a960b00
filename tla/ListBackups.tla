----------------------------- MODULE ListBackups -----------------------------
(***************************************************************************)
(* `list_backups` (state.rs) against the uploads of BackupService.  It     *)
(* lists the keys under `backups/`: MemoryStore gives all at once, the     *)
(* vss-server a page per request, each after the key that ended the page   *)
(* before (store.rs).  Then it gets one manifest after the other and sorts *)
(* them by `updated_at`, newest first.  Uploads go on between any two of   *)
(* these requests.  An upload takes the time before it reads the manifest, *)
(* and writes that time into the manifest it puts.                         *)
(***************************************************************************)
EXTENDS BackupService, SequencesExt

CONSTANTS Lister,       \* listing requests
          IdOrder,      \* the series in the order of their ids
          NameOrder,    \* the versions in the order of their names: v10 before v2
          PageSize,     \* keys per page (500 in the code)
          MaxTime       \* bound on the clock, in seconds

ASSUME IdOrderAssumption == IdOrder \in Seq(Series) /\ IsInjective(IdOrder) /\ ToSet(IdOrder) = Series
ASSUME NameOrderAssumption == NameOrder \in [Versions -> Versions] /\ IsInjective(NameOrder)
ASSUME PageSizeAssumption == PageSize \in Nat \ {0}
ASSUME MaxTimeAssumption == MaxTime \in Nat \ {0}

VARIABLES clock,
          now,          \* now[u]: when upload u took the time
          updated,      \* updated[s]: updated_at in the manifest of s
          ended,        \* ended[u]: when the manifest of u was put (history)
          request       \* the listing requests
times == <<clock, now, updated, ended>>
allVars == <<vars, times, request>>

NoTime == 0

\* The k-th key of the i-th series: "backups/{id}/meta", then "backups/{id}/v{n}".
\* They are listed in this order, the series in the order of their ids.
Keys == (DOMAIN IdOrder) \X (0 .. MaxVersion)
NoKey == <<0, 0>>
IsMeta(key) == key[2] = 0
Precedes(k, l) == k[1] < l[1] \/ (k[1] = l[1] /\ k[2] < l[2])

StoredKeys ==
    {k \in Keys : LET s == IdOrder[k[1]] IN
                  IF IsMeta(k) THEN Present(meta[s]) ELSE Present(data[s][NameOrder[k[2]]])}

\* The sequences of all elements of S, each once, in the given order.
InOrder(S, Before(_, _)) ==
    {q \in [1 .. Cardinality(S) -> S] :
       ToSet(q) = S /\ \A i, j \in DOMAIN q : i < j => Before(q[i], q[j])}

\* `before` is what the request would have listed at its start (history).
NoRequest == [pc |-> "idle", token |-> NoKey, keys |-> <<>>, out |-> <<>>,
              before |-> [s \in Series |-> <<>>]]

ListInit ==
    /\ Init
    /\ clock = 1
    /\ now = [u \in Upload |-> NoTime]
    /\ updated = [s \in Series |-> NoTime]
    /\ ended = [u \in Upload |-> NoTime]
    /\ request = [r \in Lister |-> NoRequest]

Tick ==
    /\ clock < MaxTime
    /\ clock' = clock + 1
    /\ UNCHANGED <<vars, now, updated, ended, request>>

(***************************************************************************)
(* The uploads of BackupService with their times.  One refused for its     *)
(* size and a challenge change nothing a listing sees.                     *)
(***************************************************************************)
TakeTime(u) ==
    /\ pc[u] = "idle" /\ now[u] = NoTime
    /\ now' = [now EXCEPT ![u] = clock]
    /\ UNCHANGED <<vars, clock, updated, ended, request>>

UploadStep(u) ==
    /\ (now[u] # NoTime /\ ReadManifest(u)) \/ Fail(u) \/ LateData(u)
    /\ UNCHANGED <<times, request>>

UploadStores(u) == (PutData(u) \/ Materialize(u)) /\ UNCHANGED <<times, request>>

UploadEnds(u) ==
    /\ PutManifest(u) \/ LateManifest(u)
    /\ updated' = [updated EXCEPT ![target[u]] =
                     IF Accepts(meta[target[u]], base[u].version) THEN now[u] ELSE @]
    /\ ended' = [ended EXCEPT ![u] = clock]
    /\ UNCHANGED <<clock, now, request>>

(***************************************************************************)
(* list_backups.                                                           *)
(***************************************************************************)
BeginList(r) ==
    /\ request[r].pc = "idle"
    /\ request' = [request EXCEPT ![r].pc = "list", ![r].before = [s \in Series |-> Listing(s)]]
    /\ UNCHANGED <<vars, times>>

\* The stored keys after a token.
Rest(token) == {k \in StoredKeys : Precedes(token, k)}

\* What a store may answer of the keys that are left: MemoryStore gives all, a
\* vss-server the first ones, as many as it likes up to the page size.
PagesOf(rest) ==
    IF Backend = "memory" THEN {rest}
    ELSE {page \in SUBSET rest :
            /\ Cardinality(page) <= PageSize
            /\ page = {} => rest = {}
            /\ \A k \in page, l \in rest \ page : Precedes(k, l)}

\* Bug: every page is asked for with the first token.
Pages_Fault(token) == PagesOf(Rest(NoKey))

Pages(token) == PagesOf(Rest(token))

\* Bug: one page is all.
NextTokens_Fault(token, page) == {NoKey}

\* A vss-server gives the last key of the page as the next token, or none when
\* no key follows: it may give one all the same.
NextTokens(token, page) ==
    {k \in page : Backend = "vss" /\ \A l \in page : ~Precedes(k, l)}
      \cup (IF page = Rest(token) THEN {NoKey} ELSE {})

ReadPage(r) ==
    /\ request[r].pc = "list"
    /\ \E page \in Pages(request[r].token) :
       \E token \in NextTokens(request[r].token, page) :
       \E metas \in InOrder({k[1] : k \in {l \in page : IsMeta(l)}}, <) :
         request' = [request EXCEPT ![r].keys = @ \o metas,
                                    ![r].token = token,
                                    ![r].pc = IF token = NoKey THEN "get" ELSE "list"]
    /\ UNCHANGED <<vars, times>>

GetManifest(r) ==
    /\ request[r].pc = "get"
    /\ request[r].keys # <<>>
    /\ LET s == IdOrder[Head(request[r].keys)]
           found == IF Present(meta[s])
                    THEN <<[series |-> s, versions |-> Listing(s), updated |-> updated[s]]>>
                    ELSE <<>>
       IN  request' = [request EXCEPT ![r].keys = Tail(@), ![r].out = @ \o found]
    /\ UNCHANGED <<vars, times>>

\* Bug: oldest first.
Newer_Fault(a, b) == a.updated < b.updated

Newer(a, b) == a.updated > b.updated

\* sort_by_key: stable, by Reverse(updated_at).
Sorted(out) ==
    LET Before(i, j) == Newer(out[i], out[j]) \/ (~Newer(out[j], out[i]) /\ i < j)
    IN  {[i \in DOMAIN out |-> out[order[i]]] : order \in InOrder(DOMAIN out, Before)}

Answer(r) ==
    /\ request[r].pc = "get"
    /\ request[r].keys = <<>>
    /\ \E sorted \in Sorted(request[r].out) :
         request' = [request EXCEPT ![r].pc = "done", ![r].out = sorted]
    /\ UNCHANGED <<vars, times>>

\* A request to the vss-server fails, and the listing with it.
ListFails(r) ==
    /\ Faults /\ Backend = "vss"
    /\ request[r].pc \in {"list", "get"}
    /\ request' = [request EXCEPT ![r].pc = "failed"]
    /\ UNCHANGED <<vars, times>>

ListRestart ==
    /\ Restart
    /\ request' = [r \in Lister |->
                     IF Backend = "memory" THEN NoRequest
                     ELSE IF request[r].pc \in {"list", "get"}
                     THEN [request[r] EXCEPT !.pc = "failed"] ELSE request[r]]
    /\ updated' = IF Backend = "memory" THEN [s \in Series |-> NoTime] ELSE updated
    /\ UNCHANGED <<clock, now, ended>>

List(r) == ReadPage(r) \/ GetManifest(r) \/ Answer(r)

ListNext ==
    \/ Tick
    \/ \E u \in Upload : TakeTime(u) \/ UploadStep(u) \/ UploadStores(u) \/ UploadEnds(u)
    \/ \E r \in Lister : BeginList(r) \/ List(r) \/ ListFails(r)
    \/ ListRestart

ListSpec == ListInit /\ [][ListNext]_allVars

\* The server's runtime polls the task of a request until it has answered.
FairListSpec ==
    /\ ListSpec
    /\ \A r \in Lister : WF_allVars(List(r))
    /\ \A u \in Upload : WF_allVars(UploadStores(u)) /\ WF_allVars(pc[u] = "putMeta" /\ UploadEnds(u))

(***************************************************************************)
(* Properties.                                                             *)
(***************************************************************************)
\* A listing shows every series that was there when it began, each series
\* once, with at least the versions it had then and none it does not have:
\* restore and the panel find what was acknowledged before they asked, over any
\* number of pages and whatever was uploaded in between.
ListingIsComplete ==
    \A r \in Lister : request[r].pc = "done" =>
        LET out == request[r].out
            before == request[r].before
        IN  /\ \A s \in Series : before[s] # <<>> => \E i \in DOMAIN out : out[i].series = s
            /\ \A i, j \in DOMAIN out : out[i].series = out[j].series => i = j
            /\ \A i \in DOMAIN out :
                 /\ IsPrefix(before[out[i].series], out[i].versions)
                 /\ IsPrefix(out[i].versions, Listing(out[i].series))

\* Backups are listed by the time of the upload that put their manifest last:
\* of two series, the one whose newest version is of an upload that began in a
\* later second than the other's newest version was put comes first.  Older
\* versions do not count.  An upload that took the time first may put last
\* (state.rs:297, 352): `updated_at` then goes back, and its series is listed
\* after one that was complete when an older version of it began.
ListedByNewestUpload ==
    \A r \in Lister : request[r].pc = "done" =>
        LET out == request[r].out
            Newest(i) == Last(out[i].versions).bytes
        IN  \A i, j \in DOMAIN out : i < j => ~(ended[Newest(i)] < now[Newest(j)])

\* A listing that has begun ends, if each of its requests to the store is answered
\* or fails (the code's client sets no timeout): each page begins after the one
\* before.
ListingEnds ==
    \A r \in Lister : request[r].pc = "list" ~> request[r].pc \notin {"list", "get"}
=============================================================================
