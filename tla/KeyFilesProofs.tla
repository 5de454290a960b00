---------------------------- MODULE KeyFilesProofs ----------------------------
(***************************************************************************)
(* Proofs about KeyFiles, for any number of starts and any secrets.        *)
(* Overlapping or not, a secret that is on file while nobody is between    *)
(* its check and its write stays there.  Of starts that do not overlap,    *)
(* the inductive invariant is IInv: what a running process holds and what  *)
(* was used is on file, and a file without its secret has a process that   *)
(* was cut in the middle of writing it.                                    *)
(***************************************************************************)
EXTENDS KeyFiles, FiniteSetTheorems, TLAPS

(***************************************************************************)
(* Types.                                                                  *)
(***************************************************************************)
\* The secret a process wants is one of the secrets while any is left.
LEMMA WantedIsSecret ==
    ASSUME NEW n \in Nat, n < Len(Secrets)
    PROVE  Secrets[n + 1] \in Secret
<1>1. Secrets \in Seq(Secret)
  BY SecretsAssumption DEF Secret
<1> QED
  BY <1>1

\* Two secrets of the list are one only at the same place.
LEMMA SecretsDiffer ==
    ASSUME NEW i \in 1 .. Len(Secrets), NEW j \in 1 .. Len(Secrets), Secrets[i] = Secrets[j]
    PROVE  i = j
<1>1. DOMAIN Secrets = 1 .. Len(Secrets)
  BY SecretsAssumption
<1> QED
  BY <1>1, SecretsAssumption DEF IsInjective

\* A process that reads or writes a file has not got all its secrets yet, one that
\* is ready has.
TypeInv ==
    /\ TypeOK
    /\ \A p \in Process : pc[p] \in {"read", "open", "write", "cut"} => Len(held[p]) < Len(Secrets)
    /\ \A p \in Process : pc[p] = "ready" => Len(held[p]) = Len(Secrets)

\* The types hold at first.
LEMMA InitTypeInv == Init => TypeInv
<1>1. Len(Secrets) \in Nat
  BY SecretsAssumption
<1> QED
  BY <1>1 DEF Init, TypeInv, TypeOK, Unusable, Running, Starting

\* Holding one more secret adds it at the end of a process's list.
LEMMA HoldType ==
    ASSUME TypeOK, NEW p \in Process, NEW secret \in Process \cup {FromConfig},
           Len(held[p]) < Len(Secrets), Hold(p, secret)
    PROVE  /\ held' \in [Process -> Seq(Process \cup {FromConfig})]
           /\ held'[p] = Append(held[p], secret)
           /\ Len(held'[p]) = Len(held[p]) + 1
           /\ \A q \in Process \ {p} : held'[q] = held[q]
           /\ \A q \in Process : Len(held'[q]) <= Len(Secrets)
<1> DEFINE S == Process \cup {FromConfig}
<1>1. Len(Secrets) \in Nat
  BY SecretsAssumption
<1>2. held \in [Process -> Seq(S)] /\ held[p] \in Seq(S) /\ \A q \in Process : Len(held[q]) <= Len(Secrets)
  BY DEF TypeOK
<1>3. Append(held[p], secret) \in Seq(S) /\ Len(Append(held[p], secret)) = Len(held[p]) + 1
  BY <1>2
<1>4. held' = [held EXCEPT ![p] = Append(held[p], secret)]
  BY DEF Hold
<1>5. held' \in [Process -> Seq(S)] /\ held'[p] = Append(held[p], secret)
  BY <1>2, <1>3, <1>4
<1>6. \A q \in Process \ {p} : held'[q] = held[q]
  BY <1>2, <1>4
<1>7. Len(held'[p]) <= Len(Secrets)
  BY <1>1, <1>2, <1>3, <1>5
<1> QED
  BY <1>2, <1>3, <1>5, <1>6, <1>7

\* Every step keeps the types.
LEMMA NextTypeInv == TypeInv /\ [Next]_vars => TypeInv'
<1> SUFFICES ASSUME TypeInv, [Next]_vars, overlap' = overlap PROVE TypeInv'
  BY DEF Next, vars
<1> USE DEF TypeInv, TypeOK, Running, Starting, Unusable
<1>0. Len(Secrets) \in Nat
  BY SecretsAssumption
<1>1. ASSUME NEW p \in Process, Start(p) PROVE TypeInv'
  BY <1>1 DEF Start, GoTo
<1>2. ASSUME NEW p \in Process, Resolve(p) PROVE TypeInv'
  <2>1. CASE Wanted(p) \in Configured
    <3>1. Hold(p, FromConfig) /\ Len(held[p]) < Len(Secrets)
      BY <1>2, <2>1 DEF Resolve
    <3> QED
      BY <1>0, <1>2, <2>1, <3>1, HoldType DEF Resolve
  <2>2. CASE Wanted(p) \notin Configured
    <3>1. PICK step \in {"open", "read"} : pc' = [pc EXCEPT ![p] = step]
      BY <1>2, <2>2 DEF Resolve, GoTo
    <3>2. file' = file /\ held' = held /\ used' = used /\ Len(held[p]) < Len(Secrets)
      BY <1>2, <2>2 DEF Resolve
    <3> QED
      BY <1>0, <3>1, <3>2
  <2> QED
    BY <2>1, <2>2
<1>3. ASSUME NEW p \in Process, Read(p) PROVE TypeInv'
  <2>1. Wanted(p) \in Secret
    BY <1>3, WantedIsSecret DEF Read, Wanted
  <2>2. CASE file[Wanted(p)] \in Unusable
    <3>1. pc' = [pc EXCEPT ![p] = "failed"] /\ file' = file /\ used' = used /\ held' = held
      BY <1>3, <2>2 DEF Read, GoTo
    <3> QED
      BY <3>1
  <2>3. CASE file[Wanted(p)] \notin Unusable
    <3>1. Hold(p, file[Wanted(p)]) /\ file[Wanted(p)] \in Process /\ Len(held[p]) < Len(Secrets)
      BY <1>3, <2>1, <2>3 DEF Read
    <3>2. pc' = [pc EXCEPT ![p] = "resolve"] /\ file' = file /\ used' = used
      BY <1>3, <2>3 DEF Read, GoTo
    <3> QED
      BY <1>0, <3>1, <3>2, HoldType
  <2> QED
    BY <2>2, <2>3
<1>4. ASSUME NEW p \in Process, Open(p) PROVE TypeInv'
  <2>1. Wanted(p) \in Secret
    BY <1>4, WantedIsSecret DEF Open, Wanted
  <2> QED
    BY <1>4, <2>1 DEF Open, GoTo
<1>5. ASSUME NEW p \in Process, Write(p) PROVE TypeInv'
  <2>1. Wanted(p) \in Secret
    BY <1>5, WantedIsSecret DEF Write, Wanted
  <2>2. Hold(p, p) /\ Len(held[p]) < Len(Secrets)
    BY <1>5 DEF Write
  <2> QED
    BY <1>0, <1>5, <2>1, <2>2, HoldType DEF Write, GoTo
<1>6. ASSUME NEW p \in Process, Ready(p) PROVE TypeInv'
  BY <1>6 DEF Ready, GoTo
<1>7. ASSUME NEW p \in Process, Use(p) PROVE TypeInv'
  <2>1. \A i \in DOMAIN held[p] : held[p][i] \in Process \cup {FromConfig}
    OBVIOUS
  <2> QED
    BY <1>7, <2>1 DEF Use
<1>8. ASSUME NEW p \in Process, End(p) PROVE TypeInv'
  <2>1. pc[p] = "write" => Wanted(p) \in Secret
    BY WantedIsSecret DEF Wanted
  <2> QED
    BY <1>8, <2>1 DEF End, GoTo
<1>9. CASE UNCHANGED vars
  BY <1>9 DEF vars
<1> QED
  BY <1>1, <1>2, <1>3, <1>4, <1>5, <1>6, <1>7, <1>8, <1>9 DEF Next

\* Every variable stays in the states a start can put it in.
THEOREM TypeCorrect == Spec => []TypeOK
<1>1. Init => TypeInv
  BY InitTypeInv
<1>2. TypeInv /\ [Next]_vars => TypeInv'
  BY NextTypeInv
<1>3. TypeInv => TypeOK
  BY DEF TypeInv
<1> QED
  BY <1>1, <1>2, <1>3, PTL DEF Spec

(***************************************************************************)
(* Starts that may overlap.                                                *)
(***************************************************************************)
\* No step changes a secret that is on file with nobody about to write it, or
\* sends anybody to write it.
LEMMA SettledStep ==
    ASSUME TypeInv, [Next]_vars, NEW k \in Secret, Settled(k)
    PROVE  Settled(k)' /\ file'[k] = file[k]
<1> USE DEF TypeInv, TypeOK, Running, Starting, Unusable, Settled, Wanted
<1>1. ASSUME NEW p \in Process, Start(p) PROVE Settled(k)' /\ file'[k] = file[k]
  BY <1>1 DEF Start, GoTo
<1>2. ASSUME NEW p \in Process, Resolve(p) PROVE Settled(k)' /\ file'[k] = file[k]
  BY <1>2 DEF Resolve, GoTo, Hold
<1>3. ASSUME NEW p \in Process, Read(p) PROVE Settled(k)' /\ file'[k] = file[k]
  BY <1>3 DEF Read, GoTo, Hold
<1>4. ASSUME NEW p \in Process, Open(p) PROVE Settled(k)' /\ file'[k] = file[k]
  BY <1>4 DEF Open, GoTo
<1>5. ASSUME NEW p \in Process, Write(p) PROVE Settled(k)' /\ file'[k] = file[k]
  BY <1>5 DEF Write, GoTo, Hold
<1>6. ASSUME NEW p \in Process, Ready(p) PROVE Settled(k)' /\ file'[k] = file[k]
  BY <1>6 DEF Ready, GoTo
<1>7. ASSUME NEW p \in Process, Use(p) PROVE Settled(k)' /\ file'[k] = file[k]
  BY <1>7 DEF Use
<1>8. ASSUME NEW p \in Process, End(p) PROVE Settled(k)' /\ file'[k] = file[k]
  BY <1>8 DEF End, GoTo
<1>9. CASE UNCHANGED vars
  BY <1>9 DEF vars
<1> QED
  BY <1>1, <1>2, <1>3, <1>4, <1>5, <1>6, <1>7, <1>8, <1>9 DEF Next

\* A secret that is on file while no process is between its `exists()` and its
\* write stays there, however many processes start later and overlap.
THEOREM SettledStay == Spec => SettledSecretsStay
<1>1. Init => TypeInv
  BY InitTypeInv
<1>2. TypeInv /\ [Next]_vars => TypeInv'
  BY NextTypeInv
<1>3. TypeInv /\ [Next]_vars => [\A k \in Secret : Settled(k) => Settled(k)' /\ file'[k] = file[k]]_vars
  BY SettledStep
<1> QED
  BY <1>1, <1>2, <1>3, PTL DEF Spec, SettledSecretsStay

(***************************************************************************)
(* Starts that do not overlap.                                             *)
(***************************************************************************)
\* At most one process runs.
Alone == \A p, q \in Process : pc[p] \in Running /\ pc[q] \in Running => p = q

\* A process reads a file that is there, and writes one that was not.
WriterIsFirst ==
    \A p \in Process :
        /\ pc[p] \in {"read", "open", "write", "cut"} => Wanted(p) \notin Configured
        /\ pc[p] = "read" => file[Wanted(p)] # "absent"
        /\ pc[p] = "open" => file[Wanted(p)] = "absent"
        /\ pc[p] = "write" => file[Wanted(p)] = "empty"

\* A secret is in the configuration, or on file.
IsPersisted(k, secret) ==
    IF k \in Configured THEN secret = FromConfig ELSE secret = file[k] /\ file[k] \in Process

\* What a process that runs has so far is persisted.
HeldIsPersisted ==
    \A p \in Process :
        /\ pc[p] = "idle" => held[p] = <<>>
        /\ pc[p] \in Running =>
             \A i \in 1 .. Len(held[p]) : IsPersisted(Secrets[i], held[p][i])

\* What was used is persisted.
UsedIsPersisted == \A k \in Secret : \A secret \in used[k] : IsPersisted(k, secret)

\* A file without its secret has a process that writes it, or was cut there.
TornHasCause ==
    \A k \in Secret : file[k] \in {"empty", "torn"} =>
        \E q \in Process : pc[q] \in {"write", "cut"} /\ Wanted(q) = k

\* A process that failed has one that was cut writing the same file.
FailureCause ==
    \A p \in Process : pc[p] = "failed" =>
        \E q \in Process : pc[q] = "cut" /\ Len(held[q]) = Len(held[p])

\* The inductive invariant.
IInv ==
    /\ TypeInv
    /\ Alone
    /\ WriterIsFirst
    /\ HeldIsPersisted
    /\ UsedIsPersisted
    /\ TornHasCause
    /\ FailureCause

\* The invariant holds at first.
LEMMA InitIInv == Init => IInv
<1> SUFFICES ASSUME Init PROVE IInv
  OBVIOUS
<1>1. TypeInv
  BY InitTypeInv
<1>2. Alone /\ WriterIsFirst /\ HeldIsPersisted
  BY DEF Init, Alone, WriterIsFirst, HeldIsPersisted, Running, Starting
<1>3. UsedIsPersisted /\ TornHasCause /\ FailureCause
  BY DEF Init, UsedIsPersisted, TornHasCause, FailureCause
<1> QED
  BY <1>1, <1>2, <1>3 DEF IInv

\* A process that runs is the only one that does.
LEMMA OthersDoNotRun ==
    ASSUME Alone, NEW p \in Process, pc[p] \in Running
    PROVE  \A q \in Process \ {p} : pc[q] \notin Running
BY DEF Alone

\* What is written to a file that held no secret leaves every secret that is held
\* or used where it is.
LEMMA OtherFiles ==
    ASSUME TypeOK, NEW k \in Secret, k \notin Configured, file[k] \in Unusable,
           NEW content, file' = [file EXCEPT ![k] = content],
           NEW l \in Secret, NEW secret, IsPersisted(l, secret)
    PROVE  IsPersisted(l, secret)'
<1>1. file[k] \notin Process
  BY ProcessAssumption
<1>2. CASE l \in Configured
  BY <1>2 DEF IsPersisted
<1>3. CASE l \notin Configured
  <2>1. l # k
    BY <1>1, <1>3 DEF IsPersisted
  <2>2. file'[l] = file[l]
    BY <2>1 DEF TypeOK
  <2> QED
    BY <1>3, <2>2 DEF IsPersisted
<1> QED
  BY <1>2, <1>3

\* A process that holds one more persisted secret holds only persisted ones.
LEMMA HoldPersisted ==
    ASSUME TypeOK, HeldIsPersisted, NEW p \in Process, pc[p] \in Running, pc'[p] # "idle",
           NEW secret \in Process \cup {FromConfig}, Len(held[p]) < Len(Secrets), Hold(p, secret),
           \A q \in Process \ {p} : pc'[q] = pc[q] /\ pc[q] \notin Running,
           \A l \in Secret, other \in Process \cup {FromConfig} :
             IsPersisted(l, other) => IsPersisted(l, other)',
           IF Wanted(p) \in Configured THEN secret = FromConfig
           ELSE secret = file'[Wanted(p)] /\ file'[Wanted(p)] \in Process
    PROVE  HeldIsPersisted'
<1> DEFINE Persisted(l, other) ==
      IF l \in Configured THEN other = FromConfig ELSE other = file'[l] /\ file'[l] \in Process
<1>0. \A l, other : IsPersisted(l, other)' <=> Persisted(l, other)
  BY DEF IsPersisted
<1>1. /\ held'[p] = Append(held[p], secret) /\ Len(held'[p]) = Len(held[p]) + 1
      /\ \A q \in Process \ {p} : held'[q] = held[q]
  BY HoldType
<1>2. held[p] \in Seq(Process \cup {FromConfig}) /\ Len(Secrets) \in Nat
  BY SecretsAssumption DEF TypeOK
<1>3. Persisted(Secrets[Len(held[p]) + 1], secret)
  BY DEF Wanted
<1> HIDE DEF Persisted
<1>4. ASSUME NEW i \in 1 .. Len(held'[p]) PROVE Persisted(Secrets[i], held'[p][i])
  <2>1. CASE i = Len(held[p]) + 1
    BY <1>1, <1>2, <1>3, <2>1
  <2>2. CASE i # Len(held[p]) + 1
    <3>1. i \in 1 .. Len(held[p]) /\ held'[p][i] = held[p][i]
      BY <1>1, <1>2, <2>2
    <3>2. IsPersisted(Secrets[i], held[p][i]) /\ held[p][i] \in Process \cup {FromConfig}
      BY <1>2, <3>1 DEF HeldIsPersisted
    <3>3. Secrets[i] \in Secret
      <4>1. i - 1 \in Nat /\ i - 1 < Len(Secrets) /\ (i - 1) + 1 = i
        BY <1>2, <3>1
      <4> QED
        BY <4>1, WantedIsSecret
    <3> QED
      BY <1>0, <3>1, <3>2, <3>3
  <2> QED
    BY <2>1, <2>2
<1>5. \A q \in Process : pc'[q] = "idle" => held'[q] = <<>>
  BY <1>1 DEF HeldIsPersisted
<1>6. \A q \in Process : pc'[q] \in Running =>
        \A i \in 1 .. Len(held'[q]) : Persisted(Secrets[i], held'[q][i])
  BY <1>4
<1> QED
  BY <1>5, <1>6 DEF HeldIsPersisted, IsPersisted, Persisted

\* A step of a process that does not write, was not cut and does not fail leaves
\* the causes of torn files and of failures as they are.
LEMMA CausesStay ==
    ASSUME TornHasCause, FailureCause, NEW p \in Process, file' = file,
           pc[p] \notin {"write", "cut"}, pc'[p] # "failed",
           \A q \in Process \ {p} : pc'[q] = pc[q] /\ held'[q] = held[q]
    PROVE  TornHasCause' /\ FailureCause'
<1>1. TornHasCause'
  <2> SUFFICES ASSUME NEW k \in Secret, file[k] \in {"empty", "torn"}
               PROVE  \E q \in Process : pc'[q] \in {"write", "cut"} /\ Secrets[Len(held'[q]) + 1] = k
    BY DEF TornHasCause, Wanted
  <2>1. PICK q \in Process : pc[q] \in {"write", "cut"} /\ Secrets[Len(held[q]) + 1] = k
    BY DEF TornHasCause, Wanted
  <2> QED
    BY <2>1
<1>2. FailureCause'
  <2> SUFFICES ASSUME NEW r \in Process, pc'[r] = "failed"
               PROVE  \E q \in Process : pc'[q] = "cut" /\ Len(held'[q]) = Len(held'[r])
    BY DEF FailureCause
  <2>1. PICK q \in Process : pc[q] = "cut" /\ Len(held[q]) = Len(held[r])
    BY DEF FailureCause
  <2> QED
    BY <2>1
<1> QED
  BY <1>1, <1>2

\* What was persisted before a step that no process holds anything new in, and
\* only stops one, is held and persisted after it.
LEMMA HeldStay ==
    ASSUME TypeOK, HeldIsPersisted, NEW p \in Process, pc[p] \in Running, held' = held,
           NEW step, step # "idle", pc' = [pc EXCEPT ![p] = step],
           \A l \in Secret, secret \in Process \cup {FromConfig} :
             IsPersisted(l, secret) => IsPersisted(l, secret)'
    PROVE  HeldIsPersisted'
<1>1. \A q \in Process : pc'[q] \in Running => pc[q] \in Running
  BY DEF TypeOK
<1>2. \A q \in Process : pc'[q] = "idle" => pc[q] = "idle"
  BY DEF TypeOK
<1>3. ASSUME NEW q \in Process, pc[q] \in Running, NEW i \in 1 .. Len(held[q])
      PROVE  IsPersisted(Secrets[i], held[q][i])'
  <2>1. held[q] \in Seq(Process \cup {FromConfig}) /\ Len(held[q]) <= Len(Secrets) /\ Len(Secrets) \in Nat
    BY SecretsAssumption DEF TypeOK
  <2>2. i - 1 \in Nat /\ i - 1 < Len(Secrets) /\ (i - 1) + 1 = i
    BY <2>1
  <2>3. Secrets[i] \in Secret /\ held[q][i] \in Process \cup {FromConfig}
    BY <2>1, <2>2, WantedIsSecret
  <2>4. IsPersisted(Secrets[i], held[q][i])
    BY <1>3 DEF HeldIsPersisted
  <2> QED
    BY <2>3, <2>4 DEF IsPersisted
<1> QED
  BY <1>1, <1>2, <1>3 DEF HeldIsPersisted, IsPersisted

\* A step of a process that runs alone keeps the invariant.
LEMMA NextIInv ==
    ASSUME ~overlap, IInv, [Next]_vars
    PROVE  IInv'
<1>1. TypeInv'
  BY NextTypeInv DEF IInv
<1> USE DEF Running, Starting
<1> DEFINE Inv == /\ Alone /\ WriterIsFirst /\ HeldIsPersisted /\ UsedIsPersisted
                  /\ TornHasCause /\ FailureCause
<1>0. /\ TypeOK /\ TypeInv /\ Inv
      /\ pc \in [Process -> Running \cup {"idle", "refused", "failed", "cut", "ended"}]
      /\ held \in [Process -> Seq(Process \cup {FromConfig})]
      /\ file \in [Secret -> Process \cup Unusable]
      /\ Len(Secrets) \in Nat
      /\ \A p \in Process : Len(held[p]) \in Nat /\ Len(held[p]) <= Len(Secrets)
      /\ \A p \in Process : pc[p] \in {"read", "open", "write", "cut"} => Len(held[p]) < Len(Secrets)
  BY SecretsAssumption DEF IInv, TypeInv, TypeOK
<1>2. ASSUME NEW p \in Process, Start(p) PROVE Inv'
  <2>1. /\ pc[p] = "idle" /\ \A q \in Process : pc[q] \notin Running
        /\ pc' = [pc EXCEPT ![p] = "resolve"] /\ file' = file /\ held' = held /\ used' = used
    BY <1>2 DEF Start, GoTo
  <2>2. Alone' /\ WriterIsFirst'
    BY <1>0, <2>1 DEF Alone, WriterIsFirst, Wanted
  <2>3. HeldIsPersisted' /\ UsedIsPersisted'
    BY <1>0, <2>1 DEF HeldIsPersisted, UsedIsPersisted, IsPersisted
  <2>4. TornHasCause' /\ FailureCause'
    BY <1>0, <2>1 DEF TornHasCause, FailureCause, Wanted
  <2> QED
    BY <2>2, <2>3, <2>4
<1>3. ASSUME NEW p \in Process, Resolve(p) PROVE Inv'
  <2>1. pc[p] = "resolve" /\ Len(held[p]) < Len(Secrets) /\ file' = file /\ used' = used
    BY <1>3 DEF Resolve
  <2>2. \A q \in Process \ {p} : pc[q] \notin Running
    BY <1>0, <2>1, OthersDoNotRun
  <2>3. CASE Wanted(p) \in Configured
    <3>1. Hold(p, FromConfig) /\ pc' = pc
      BY <1>3, <2>3 DEF Resolve
    <3>2. /\ held'[p] = Append(held[p], FromConfig) /\ Len(held'[p]) = Len(held[p]) + 1
          /\ \A q \in Process \ {p} : held'[q] = held[q]
      BY <1>0, <2>1, <3>1, HoldType
    <3>3. Alone' /\ WriterIsFirst'
      BY <1>0, <2>1, <3>1, <3>2 DEF Alone, WriterIsFirst, Wanted
    <3>4. HeldIsPersisted'
      <4>1. \A l \in Secret, other \in Process \cup {FromConfig} : IsPersisted(l, other) => IsPersisted(l, other)'
        BY <2>1 DEF IsPersisted
      <4> QED
        BY <1>0, <2>1, <2>2, <2>3, <3>1, <4>1, HoldPersisted
    <3>5. UsedIsPersisted'
      BY <1>0, <2>1 DEF UsedIsPersisted, IsPersisted
    <3>6. TornHasCause' /\ FailureCause'
      BY <1>0, <2>1, <3>1, <3>2, CausesStay
    <3> QED
      BY <3>3, <3>4, <3>5, <3>6
  <2>4. CASE Wanted(p) \notin Configured
    <3>1. /\ pc' = [pc EXCEPT ![p] = IF file[Wanted(p)] = "absent" THEN "open" ELSE "read"]
          /\ held' = held
      BY <1>3, <2>4 DEF Resolve, GoTo
    <3>2. Alone' /\ WriterIsFirst'
      BY <1>0, <2>1, <2>2, <2>4, <3>1 DEF Alone, WriterIsFirst, Wanted
    <3>3. HeldIsPersisted' /\ UsedIsPersisted'
      BY <1>0, <2>1, <3>1 DEF HeldIsPersisted, UsedIsPersisted, IsPersisted
    <3>4. TornHasCause' /\ FailureCause'
      BY <1>0, <2>1, <3>1 DEF TornHasCause, FailureCause, Wanted
    <3> QED
      BY <3>2, <3>3, <3>4
  <2> QED
    BY <2>3, <2>4
<1>4. ASSUME NEW p \in Process, Read(p) PROVE Inv'
  <2>1. pc[p] = "read" /\ Len(held[p]) < Len(Secrets) /\ file' = file /\ used' = used
    BY <1>0, <1>4 DEF Read
  <2>2. Wanted(p) \in Secret /\ Wanted(p) \notin Configured /\ file[Wanted(p)] # "absent"
    BY <1>0, <2>1, WantedIsSecret DEF WriterIsFirst, Wanted
  <2>3. \A q \in Process \ {p} : pc[q] \notin Running
    BY <1>0, <2>1, OthersDoNotRun
  <2>4. CASE file[Wanted(p)] \in Unusable
    <3>1. pc' = [pc EXCEPT ![p] = "failed"] /\ held' = held
      BY <1>4, <2>4 DEF Read, GoTo
    <3>2. Alone' /\ WriterIsFirst'
      BY <1>0, <2>1, <3>1 DEF Alone, WriterIsFirst, Wanted
    <3>3. HeldIsPersisted' /\ UsedIsPersisted'
      BY <1>0, <2>1, <3>1 DEF HeldIsPersisted, UsedIsPersisted, IsPersisted
    <3>4. TornHasCause'
      BY <1>0, <2>1, <3>1 DEF TornHasCause, Wanted
    <3>5. PICK q \in Process : pc[q] \in {"write", "cut"} /\ Wanted(q) = Wanted(p)
      BY <1>0, <2>2, <2>4 DEF TornHasCause, Unusable
    <3>6. pc[q] = "cut" /\ q # p
      BY <2>1, <2>3, <3>5
    <3>7. Len(held[q]) = Len(held[p])
      <4>1. Len(held[q]) + 1 \in 1 .. Len(Secrets) /\ Len(held[p]) + 1 \in 1 .. Len(Secrets)
        BY <1>0, <2>1, <3>6
      <4>2. Len(held[q]) + 1 = Len(held[p]) + 1
        BY <3>5, <4>1, SecretsDiffer DEF Wanted
      <4> QED
        BY <1>0, <4>2
    <3>8. FailureCause'
      <4> SUFFICES ASSUME NEW r \in Process, pc'[r] = "failed"
                   PROVE  \E c \in Process : pc'[c] = "cut" /\ Len(held'[c]) = Len(held'[r])
        BY DEF FailureCause
      <4>1. CASE r = p
        BY <1>0, <3>1, <3>6, <3>7, <4>1
      <4>2. CASE r # p
        BY <1>0, <2>1, <3>1, <4>2 DEF FailureCause
      <4> QED
        BY <4>1, <4>2
    <3> QED
      BY <3>2, <3>3, <3>4, <3>8
  <2>5. CASE file[Wanted(p)] \notin Unusable
    <3>1. /\ Hold(p, file[Wanted(p)]) /\ file[Wanted(p)] \in Process
          /\ pc' = [pc EXCEPT ![p] = "resolve"]
      BY <1>0, <1>4, <2>2, <2>5 DEF Read, GoTo
    <3>2. /\ held'[p] = Append(held[p], file[Wanted(p)]) /\ Len(held'[p]) = Len(held[p]) + 1
          /\ \A q \in Process \ {p} : held'[q] = held[q]
      BY <1>0, <2>1, <3>1, HoldType
    <3>3. Alone' /\ WriterIsFirst'
      BY <1>0, <2>1, <3>1, <3>2 DEF Alone, WriterIsFirst, Wanted
    <3>4. HeldIsPersisted'
      <4>1. \A l \in Secret, other \in Process \cup {FromConfig} : IsPersisted(l, other) => IsPersisted(l, other)'
        BY <2>1 DEF IsPersisted
      <4>2. pc[p] \in Running /\ pc'[p] # "idle" /\ \A q \in Process \ {p} : pc'[q] = pc[q]
        BY <1>0, <2>1, <3>1
      <4> QED
        BY <1>0, <2>1, <2>2, <2>3, <3>1, <4>1, <4>2, HoldPersisted
    <3>5. UsedIsPersisted'
      BY <1>0, <2>1 DEF UsedIsPersisted, IsPersisted
    <3>6. TornHasCause' /\ FailureCause'
      BY <1>0, <2>1, <3>1, <3>2, CausesStay
    <3> QED
      BY <3>3, <3>4, <3>5, <3>6
  <2> QED
    BY <2>4, <2>5
<1>5. ASSUME NEW p \in Process, Open(p) PROVE Inv'
  <2>1. /\ pc[p] = "open" /\ Len(held[p]) < Len(Secrets) /\ held' = held /\ used' = used
        /\ file' = [file EXCEPT ![Wanted(p)] = "empty"] /\ pc' = [pc EXCEPT ![p] = "write"]
    BY <1>0, <1>5 DEF Open, GoTo
  <2>2. Wanted(p) \in Secret /\ Wanted(p) \notin Configured /\ file[Wanted(p)] = "absent"
    BY <1>0, <2>1, WantedIsSecret DEF WriterIsFirst, Wanted
  <2>3. \A q \in Process \ {p} : pc[q] \notin Running
    BY <1>0, <2>1, OthersDoNotRun
  <2>4. Alone' /\ WriterIsFirst'
    BY <1>0, <2>1, <2>2, <2>3 DEF Alone, WriterIsFirst, Wanted
  <2>5. \A l \in Secret, secret \in Process \cup {FromConfig} :
          IsPersisted(l, secret) => IsPersisted(l, secret)'
    BY <1>0, <2>1, <2>2, OtherFiles DEF Unusable
  <2>6. HeldIsPersisted'
    BY <1>0, <2>1, <2>5, HeldStay
  <2>7. UsedIsPersisted'
    BY <1>0, <2>1, <2>5 DEF UsedIsPersisted, TypeOK
  <2>8. TornHasCause' /\ FailureCause'
    BY <1>0, <2>1, <2>2 DEF TornHasCause, FailureCause, Wanted
  <2> QED
    BY <2>4, <2>6, <2>7, <2>8
<1>6. ASSUME NEW p \in Process, Write(p) PROVE Inv'
  <2>1. /\ pc[p] = "write" /\ Len(held[p]) < Len(Secrets) /\ used' = used /\ Hold(p, p)
        /\ pc' = [pc EXCEPT ![p] = "resolve"]
    BY <1>0, <1>6 DEF Write, GoTo
  <2>2. Wanted(p) \in Secret /\ Wanted(p) \notin Configured /\ file[Wanted(p)] = "empty"
    BY <1>0, <2>1, WantedIsSecret DEF WriterIsFirst, Wanted
  <2>3. \A q \in Process \ {p} : pc[q] \notin Running
    BY <1>0, <2>1, OthersDoNotRun
  <2>4. file' = [file EXCEPT ![Wanted(p)] = p]
    BY <1>6, <2>2 DEF Write
  <2>5. \A q \in Process \ {p} : held'[q] = held[q]
    BY <1>0, <2>1, HoldType
  <2>6. Alone' /\ WriterIsFirst'
    <3>1. \A q \in Process \ {p} : pc'[q] \notin Running /\ pc'[q] = pc[q]
      BY <1>0, <2>1, <2>3
    <3> QED
      BY <1>0, <2>1, <2>5, <3>1 DEF Alone, WriterIsFirst, Wanted
  <2>7. \A l \in Secret, secret \in Process \cup {FromConfig} :
          IsPersisted(l, secret) => IsPersisted(l, secret)'
    BY <1>0, <2>2, <2>4, OtherFiles DEF Unusable
  <2>8. HeldIsPersisted'
    <3>1. pc[p] \in Running /\ pc'[p] # "idle" /\ \A q \in Process \ {p} : pc'[q] = pc[q]
      BY <1>0, <2>1
    <3>2. p = file'[Wanted(p)] /\ file'[Wanted(p)] \in Process
      BY <1>0, <2>2, <2>4
    <3> QED
      BY <1>0, <2>1, <2>2, <2>3, <2>7, <3>1, <3>2, HoldPersisted
  <2>9. UsedIsPersisted'
    BY <1>0, <2>1, <2>7 DEF UsedIsPersisted, TypeOK
  <2>10. TornHasCause'
    <3> SUFFICES ASSUME NEW k \in Secret, file'[k] \in {"empty", "torn"}
                 PROVE  \E q \in Process : pc'[q] \in {"write", "cut"} /\ Secrets[Len(held'[q]) + 1] = k
      BY DEF TornHasCause, Wanted
    <3>1. k # Wanted(p)
      BY <1>0, <2>2, <2>4, ProcessAssumption DEF Unusable
    <3>2. file[k] = file'[k]
      BY <1>0, <2>4, <3>1
    <3>3. PICK q \in Process : pc[q] \in {"write", "cut"} /\ Wanted(q) = k
      BY <1>0, <3>2 DEF TornHasCause
    <3>4. q # p
      BY <3>1, <3>3
    <3> QED
      BY <1>0, <2>1, <2>5, <3>3, <3>4 DEF Wanted
  <2>11. FailureCause'
    <3> SUFFICES ASSUME NEW r \in Process, pc'[r] = "failed"
                 PROVE  \E q \in Process : pc'[q] = "cut" /\ Len(held'[q]) = Len(held'[r])
      BY DEF FailureCause
    <3>1. r # p /\ pc[r] = "failed"
      BY <1>0, <2>1
    <3>2. PICK q \in Process : pc[q] = "cut" /\ Len(held[q]) = Len(held[r])
      BY <1>0, <3>1 DEF FailureCause
    <3> QED
      BY <1>0, <2>1, <2>5, <3>1, <3>2
  <2> QED
    BY <2>6, <2>8, <2>9, <2>10, <2>11
<1>7. ASSUME NEW p \in Process, Ready(p) PROVE Inv'
  <2>1. /\ pc[p] = "resolve" /\ file' = file /\ held' = held /\ used' = used
        /\ pc' \in {[pc EXCEPT ![p] = "refused"], [pc EXCEPT ![p] = "ready"]}
    BY <1>7 DEF Ready, GoTo
  <2>2. Alone' /\ WriterIsFirst'
    <3>1. \A q \in Process \ {p} : pc'[q] = pc[q]
      BY <1>0, <2>1
    <3>2. pc'[p] \in {"refused", "ready"}
      BY <1>0, <2>1
    <3>3. Alone'
      BY <1>0, <2>1, <3>1 DEF Alone
    <3> QED
      BY <1>0, <2>1, <3>1, <3>2, <3>3 DEF WriterIsFirst, Wanted
  <2>3. HeldIsPersisted' /\ UsedIsPersisted'
    BY <1>0, <2>1 DEF HeldIsPersisted, UsedIsPersisted, IsPersisted
  <2>4. TornHasCause' /\ FailureCause'
    BY <1>0, <2>1, CausesStay
  <2> QED
    BY <2>2, <2>3, <2>4
<1>8. ASSUME NEW p \in Process, Use(p) PROVE Inv'
  <2>1. /\ pc[p] = "ready" /\ file' = file /\ held' = held /\ pc' = pc
        /\ used' = [k \in Secret |-> used[k] \cup
                     {held[p][i] : i \in {j \in DOMAIN held[p] : Secrets[j] = k}}]
    BY <1>8 DEF Use
  <2>2. Alone' /\ WriterIsFirst'
    BY <1>0, <2>1 DEF Alone, WriterIsFirst, Wanted
  <2>3. HeldIsPersisted'
    BY <1>0, <2>1 DEF HeldIsPersisted, IsPersisted
  <2>4. UsedIsPersisted'
    <3>1. \A i \in DOMAIN held[p] : IsPersisted(Secrets[i], held[p][i])
      <4>1. DOMAIN held[p] = 1 .. Len(held[p])
        BY <1>0
      <4>2. \A i \in 1 .. Len(held[p]) : IsPersisted(Secrets[i], held[p][i])
        BY <1>0, <2>1 DEF HeldIsPersisted
      <4> QED
        BY <4>1, <4>2
    <3>2. \A k \in Secret : \A secret \in used'[k] : IsPersisted(k, secret)
      BY <1>0, <2>1, <3>1 DEF UsedIsPersisted
    <3> QED
      BY <2>1, <3>2 DEF UsedIsPersisted, IsPersisted
  <2>5. TornHasCause' /\ FailureCause'
    BY <1>0, <2>1, CausesStay
  <2> QED
    BY <2>2, <2>3, <2>4, <2>5
<1>9. ASSUME NEW p \in Process, End(p) PROVE Inv'
  <2>1. /\ pc[p] \in Running /\ held' = held /\ used' = used
        /\ pc' = [pc EXCEPT ![p] = IF pc[p] = "write" THEN "cut" ELSE "ended"]
        /\ file' = file \/ (pc[p] = "write" /\ file' = [file EXCEPT ![Wanted(p)] = "torn"])
    BY <1>9 DEF End, GoTo
  <2>2. \A q \in Process \ {p} : pc[q] \notin Running
    BY <1>0, <2>1, OthersDoNotRun
  <2>3. Alone' /\ WriterIsFirst'
    BY <1>0, <2>1, <2>2 DEF Alone, WriterIsFirst, Wanted
  <2>4. \A l \in Secret, secret \in Process \cup {FromConfig} :
          IsPersisted(l, secret) => IsPersisted(l, secret)'
    <3>1. CASE file' = file
      BY <3>1 DEF IsPersisted
    <3>2. CASE pc[p] = "write" /\ file' = [file EXCEPT ![Wanted(p)] = "torn"]
      <4>1. Wanted(p) \in Secret /\ Wanted(p) \notin Configured /\ file[Wanted(p)] = "empty"
        BY <1>0, <3>2, WantedIsSecret DEF WriterIsFirst, Wanted
      <4> QED
        BY <1>0, <3>2, <4>1, OtherFiles DEF Unusable
    <3> QED
      BY <2>1, <3>1, <3>2
  <2>5. HeldIsPersisted'
    BY <1>0, <2>1, <2>4, HeldStay
  <2>6. UsedIsPersisted'
    BY <1>0, <2>1, <2>4 DEF UsedIsPersisted, TypeOK
  <2>7. TornHasCause'
    <3> SUFFICES ASSUME NEW k \in Secret, file'[k] \in {"empty", "torn"}
                 PROVE  \E q \in Process : pc'[q] \in {"write", "cut"} /\ Secrets[Len(held[q]) + 1] = k
      BY <2>1 DEF TornHasCause, Wanted
    <3>1. CASE pc[p] = "write" /\ Wanted(p) = k
      BY <1>0, <2>1, <3>1 DEF Wanted
    <3>2. CASE ~(pc[p] = "write" /\ Wanted(p) = k)
      <4>1. file'[k] = file[k]
        BY <1>0, <2>1, <3>2
      <4>2. PICK q \in Process : pc[q] \in {"write", "cut"} /\ Wanted(q) = k
        BY <1>0, <4>1 DEF TornHasCause
      <4>3. q # p
        BY <2>1, <3>2, <4>2
      <4> QED
        BY <1>0, <2>1, <4>2, <4>3 DEF Wanted
    <3> QED
      BY <3>1, <3>2
  <2>8. FailureCause'
    <3> SUFFICES ASSUME NEW r \in Process, pc'[r] = "failed"
                 PROVE  \E q \in Process : pc'[q] = "cut" /\ Len(held'[q]) = Len(held'[r])
      BY DEF FailureCause
    <3>1. r # p /\ pc[r] = "failed"
      BY <1>0, <2>1
    <3>2. PICK q \in Process : pc[q] = "cut" /\ Len(held[q]) = Len(held[r])
      BY <1>0, <3>1 DEF FailureCause
    <3> QED
      BY <1>0, <2>1, <3>2
  <2> QED
    BY <2>3, <2>5, <2>6, <2>7, <2>8
<1>10. ASSUME UNCHANGED vars PROVE Inv'
  <2>1. file' = file /\ pc' = pc /\ held' = held /\ used' = used
    BY <1>10 DEF vars
  <2>2. Alone' /\ WriterIsFirst' /\ HeldIsPersisted' /\ UsedIsPersisted'
    BY <1>0, <2>1 DEF Alone, WriterIsFirst, HeldIsPersisted, UsedIsPersisted, IsPersisted, Wanted
  <2>3. TornHasCause' /\ FailureCause'
    BY <1>0, <2>1 DEF TornHasCause, FailureCause, Wanted
  <2> QED
    BY <2>2, <2>3
<1>11. Inv'
  <2> HIDE DEF Inv
  <2> QED
    BY <1>2, <1>3, <1>4, <1>5, <1>6, <1>7, <1>8, <1>9, <1>10 DEF Next
<1> QED
  BY <1>1, <1>11 DEF IInv

\* The invariant holds in every state, if starts do not overlap.
LEMMA Invariance == Spec => [](~overlap => IInv)
<1>1. Init => (~overlap => IInv)
  BY InitIInv
<1>2. (~overlap => IInv) /\ [Next]_vars => (~overlap => IInv)'
  <2>1. [Next]_vars => overlap' = overlap
    BY DEF Next, vars
  <2> QED
    BY <2>1, NextIInv
<1> QED
  BY <1>1, <1>2, PTL DEF Spec

\* A provider keeps one identity, however often it was started and wherever its
\* starts were cut short.
THEOREM IdentityIsOne == Spec => []OneIdentity
<1>1. (~overlap => IInv) => OneIdentity
  <2> SUFFICES ASSUME IInv, NEW k \in Secret PROVE Cardinality(used[k]) <= 1
    BY DEF OneIdentity
  <2> DEFINE it == IF k \in Configured THEN FromConfig ELSE file[k]
  <2>1. used[k] \subseteq {it}
    BY DEF IInv, UsedIsPersisted, IsPersisted
  <2>2. IsFiniteSet({it}) /\ Cardinality({it}) = 1
    BY FS_Singleton
  <2>3. Cardinality(used[k]) <= Cardinality({it})
    BY <2>1, <2>2, FS_Subset
  <2> QED
    BY <2>2, <2>3
<1> QED
  BY <1>1, Invariance, PTL

\* A start fails only after an earlier one was cut in the middle of writing the
\* file that cannot be read now.
THEOREM FailureHasCause == Spec => []StartFailureHasCause
<1>1. (~overlap => IInv) => StartFailureHasCause
  BY DEF IInv, FailureCause, StartFailureHasCause
<1> QED
  BY <1>1, Invariance, PTL
=============================================================================
