------------------------------- MODULE KeyFiles -------------------------------
(***************************************************************************)
(* The secrets that pivss makes on first use and keeps in files: vss.key,  *)
(* nostr.key and breez-mnemonic.txt of a server's data directory           *)
(* (build_state), and the mnemonic of a client's state directory           *)
(* (connect_client_wallet).  Each is taken from the configuration if it is *)
(* there, else from its file if that exists, else it is drawn at random    *)
(* and written with one fs::write.  Nothing locks the directory: two       *)
(* servers meet only when they bind the port, after their secrets.         *)
(*                                                                         *)
(* A secret is represented by the process that drew it.                    *)
(***************************************************************************)
EXTENDS Naturals, Sequences, SequencesExt, FiniteSets

CONSTANTS Process,      \* starts of a server, or client commands with a wallet
          Secrets,      \* the secrets a process needs, in the order it resolves them
          Configured,   \* secrets given in the configuration
          Hex,          \* secrets of one length (keys in hex, not mnemonics)
          Binds         \* do processes bind one port (servers) or none (commands)?

ASSUME SecretsAssumption == Secrets \in Seq(ToSet(Secrets)) /\ IsInjective(Secrets)
ASSUME ConfiguredAssumption == Configured \subseteq ToSet(Secrets)
ASSUME HexAssumption == Hex \subseteq ToSet(Secrets)
ASSUME BindsAssumption == Binds \in BOOLEAN

VARIABLES overlap,      \* may processes run at the same time?
          file,         \* file[k]: what the file of secret k holds
          pc,           \* the step each process is at
          held,         \* held[p]: the secrets process p has so far, in order
          used          \* used[k]: secrets under which something was kept (history)
vars == <<overlap, file, pc, held, used>>

Secret == ToSet(Secrets)
Unusable == {"absent", "empty", "torn"}
FromConfig == "config"

ASSUME ProcessAssumption == Process \cap Unusable = {}

Starting == {"resolve", "read", "open", "write"}
Running == Starting \cup {"ready"}

Init ==
    /\ overlap \in BOOLEAN
    /\ file = [k \in Secret |-> "absent"]
    /\ pc = [p \in Process |-> "idle"]
    /\ held = [p \in Process |-> <<>>]
    /\ used = [k \in Secret |-> {}]

GoTo(p, step) == pc' = [pc EXCEPT ![p] = step]

\* The secret process p resolves next.
Wanted(p) == Secrets[Len(held[p]) + 1]

Hold(p, secret) == held' = [held EXCEPT ![p] = Append(@, secret)]

Start(p) ==
    /\ pc[p] = "idle"
    /\ overlap \/ \A q \in Process : pc[q] \notin Running
    /\ GoTo(p, "resolve")
    /\ UNCHANGED <<file, held, used>>

\* Bug: the file is written at every start.
Resolve_Fault(p) ==
    /\ pc[p] = "resolve"
    /\ Len(held[p]) < Len(Secrets)
    /\ IF Wanted(p) \in Configured
       THEN Hold(p, FromConfig) /\ UNCHANGED pc
       ELSE GoTo(p, "open") /\ UNCHANGED held
    /\ UNCHANGED <<file, used>>

\* Bug: the file is read without `exists()`.
Resolve_NoExists(p) ==
    /\ pc[p] = "resolve"
    /\ Len(held[p]) < Len(Secrets)
    /\ GoTo(p, "read")
    /\ UNCHANGED <<file, held, used>>

\* The configuration first, then `exists()`.
Resolve(p) ==
    /\ pc[p] = "resolve"
    /\ Len(held[p]) < Len(Secrets)
    /\ IF Wanted(p) \in Configured
       THEN Hold(p, FromConfig) /\ UNCHANGED pc
       ELSE /\ GoTo(p, IF file[Wanted(p)] = "absent" THEN "open" ELSE "read")
            /\ UNCHANGED held
    /\ UNCHANGED <<file, used>>

\* A file that is empty or torn is no key and no mnemonic: the start fails.
Read(p) ==
    /\ pc[p] = "read"
    /\ IF file[Wanted(p)] \in Unusable
       THEN GoTo(p, "failed") /\ UNCHANGED held
       ELSE GoTo(p, "resolve") /\ Hold(p, file[Wanted(p)])
    /\ UNCHANGED <<file, used>>

\* fs::write of a secret just drawn: the open creates or truncates the file,
Open(p) ==
    /\ pc[p] = "open"
    /\ file' = [file EXCEPT ![Wanted(p)] = "empty"]
    /\ GoTo(p, "write")
    /\ UNCHANGED <<held, used>>

\* the write begins at its start; over a longer text it leaves the end of that.
Write(p) ==
    /\ pc[p] = "write"
    /\ LET k == Wanted(p) IN
       \E content \in IF file[k] = "empty" \/ k \in Hex THEN {p} ELSE {p, "torn"} :
         file' = [file EXCEPT ![k] = content]
    /\ Hold(p, p)
    /\ GoTo(p, "resolve")
    /\ UNCHANGED used

\* The process has its secrets; a server binds its port, or ends when another
\* one serves on it.
Ready(p) ==
    /\ pc[p] = "resolve"
    /\ Len(held[p]) = Len(Secrets)
    /\ GoTo(p, IF Binds /\ \E q \in Process : pc[q] = "ready" THEN "refused" ELSE "ready")
    /\ UNCHANGED <<file, held, used>>

\* Something is kept under the secrets: backups under the VSS user, a name
\* under the nostr key, funds under the mnemonic.
Use(p) ==
    /\ pc[p] = "ready"
    /\ used' = [k \in Secret |->
                  used[k] \cup {held[p][i] : i \in {j \in DOMAIN held[p] : Secrets[j] = k}}]
    /\ UNCHANGED <<file, pc, held>>

\* The process ends, in the middle of fs::write with the file as far as it was
\* written.
End(p) ==
    /\ pc[p] \in Running
    /\ GoTo(p, IF pc[p] = "write" THEN "cut" ELSE "ended")
    /\ \/ UNCHANGED file
       \/ pc[p] = "write" /\ file' = [file EXCEPT ![Wanted(p)] = "torn"]
    /\ UNCHANGED <<held, used>>

Next == /\ \E p \in Process : \/ Start(p) \/ Resolve(p) \/ Read(p) \/ Open(p) \/ Write(p)
                               \/ Ready(p) \/ Use(p) \/ End(p)
        /\ UNCHANGED overlap

Spec == Init /\ [][Next]_vars

(***************************************************************************)
(* Properties.                                                             *)
(***************************************************************************)
\* Every variable stays in the states a start can put it in.
TypeOK ==
    /\ overlap \in BOOLEAN
    /\ file \in [Secret -> Process \cup Unusable]
    /\ pc \in [Process -> Running \cup {"idle", "refused", "failed", "cut", "ended"}]
    /\ held \in [Process -> Seq(Process \cup {FromConfig})]
    /\ \A p \in Process : Len(held[p]) <= Len(Secrets)
    /\ used \in [Secret -> SUBSET (Process \cup {FromConfig})]

\* A provider is one VSS user, one nostr key and one wallet for ever, however
\* often it was started and wherever its starts were cut short: "a key is
\* generated and persisted" (config.rs:71), and what was kept under it is found
\* again.  Of processes that overlap on their first start it does not hold: the
\* one that writes last decides, and the other one's wallet is lost.
OneIdentity == ~overlap => \A k \in Secret : Cardinality(used[k]) <= 1

\* A start fails only after an earlier one was cut in the middle of writing the
\* file that cannot be read now: nothing else leaves a file without its secret.
StartFailureHasCause ==
    ~overlap => \A p \in Process : pc[p] = "failed" =>
                  \E q \in Process : pc[q] = "cut" /\ Len(held[q]) = Len(held[p])

Settled(k) ==
    /\ file[k] \notin Unusable
    /\ \A p \in Process : pc[p] \in {"open", "write"} => Wanted(p) # k

\* A secret that is on file while no process is between its `exists()` and its
\* write stays there, however many processes start later and overlap.
SettledSecretsStay ==
    [][\A k \in Secret : Settled(k) => Settled(k)' /\ file'[k] = file[k]]_vars
=============================================================================
