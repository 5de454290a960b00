--------------------------- MODULE VersionArchive ---------------------------
(***************************************************************************)
(* What the backup service promises, without the store, the manifests or   *)
(* the steps of an upload: per backup series, a list of uploads that only  *)
(* grows at its end, where an upload is listed at most once, only in the   *)
(* series it named, and is acknowledged only when it is listed.  `Durable` *)
(* is FALSE for the in-memory demo store, which a restart empties.         *)
(***************************************************************************)
EXTENDS Naturals, Sequences

CONSTANTS Series, Upload, Durable

VARIABLES archive,      \* what a client following the listing downloads
          reply,        \* what the client of each upload has been told
          target        \* the series each upload names
vars == <<archive, reply, target>>

Listed(u) == \E s \in Series : \E i \in DOMAIN archive[s] : archive[s][i] = u

Init == /\ archive = [s \in Series |-> <<>>]
        /\ reply = [u \in Upload |-> "none"]
        /\ target \in [Upload -> Series]

\* An upload that was told nothing, or told "error", may be listed; one that
\* was told "error" keeps that answer.
Add(u) == /\ reply[u] # "created"
          /\ ~Listed(u)
          /\ archive' = [archive EXCEPT ![target[u]] = Append(@, u)]
          /\ \/ reply[u] = "none" /\ reply' = [reply EXCEPT ![u] = "created"]
             \/ reply[u] = "error" /\ UNCHANGED reply
          /\ UNCHANGED target

\* Any set of the pending requests ends in an error: one request's failure, or
\* the restart of the whole server.
Refuse(U) == /\ \A u \in U : reply[u] = "none"
             /\ reply' = [u \in Upload |-> IF u \in U THEN "error" ELSE reply[u]]
             /\ UNCHANGED target

Reject == \E U \in SUBSET Upload : Refuse(U) /\ UNCHANGED archive

Wipe == /\ ~Durable
        /\ archive' = [s \in Series |-> <<>>]
        /\ \E U \in SUBSET Upload : Refuse(U)

Next == (\E u \in Upload : Add(u)) \/ Reject \/ Wipe

Spec == Init /\ [][Next]_vars
=============================================================================
