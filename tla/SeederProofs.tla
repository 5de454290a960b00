---------------------------- MODULE SeederProofs ----------------------------
(***************************************************************************)
(* Proofs about Seeder, for any number of uploads, starts and ports: what  *)
(* the status list says, when a seed panics, and which children share a    *)
(* port.  The children that seeds of one start counted are snapshots of    *)
(* one growing set, so of two seeds the one counted by the other has fewer *)
(* children before it, and its port differs until the ports wrap round.    *)
(***************************************************************************)
EXTENDS Seeder, FiniteSetTheorems, TLAPS

(***************************************************************************)
(* The invariant.                                                          *)
(***************************************************************************)
\* Steps of a seed of this start that has chosen its port.
Counted == {"spawn", "insert", "inserted", "notSpawned", "done"}

\* The map holds the seeds that were inserted, and no others.
ChildrenInserted ==
    /\ IsFiniteSet(children)
    /\ \A u \in children : pc[u] \in {"inserted", "done"}
    /\ \A u \in Upload : /\ pc[u] = "inserted" => u \in children
                         /\ pc[u] = "notSpawned" => u \notin children

\* A seed's port is that of the children it counted, which are still there and
\* do not include itself.
PortOfCount ==
    \A u \in Upload : pc[u] \in Counted =>
        /\ ran[u] \subseteq children /\ u \notin ran[u]
        /\ port[u] = ToPort(BasePort + (Cardinality(ran[u]) % Ports))

\* Of two seeds one counted all that the other did.
CountsAreChain ==
    \A u, w \in Upload : pc[u] \in Counted /\ pc[w] \in Counted =>
        ran[u] \subseteq ran[w] \/ ran[w] \subseteq ran[u]

\* The lock is poisoned by the first panic, at the end of the ports.
PoisonedAtLimit ==
    /\ \A u \in Upload : pc[u] = "panicked" => poisoned
    /\ poisoned => checked /\ BasePort + Cardinality(children) > MaxPort

IInv ==
    /\ TypeOK
    /\ ChildrenInserted
    /\ PortOfCount
    /\ CountsAreChain
    /\ PoisonedAtLimit
    /\ OneStatusPerSeed

SeedStep == Counted \cup {"idle", "panicked", "over"}

(***************************************************************************)
(* Ports.                                                                  *)
(***************************************************************************)
LEMMA PortsAreNat == MaxPort \in Nat /\ BasePort \in 0 .. MaxPort /\ Ports \in Nat \ {0} /\ NoPort = Ports
BY PortAssumption DEF Ports, NoPort

\* A sum below twice the number of ports wraps at most once.
LEMMA WrapsOnce ==
    ASSUME NEW n \in Nat \ {0}, NEW x \in Nat, x < 2 * n
    PROVE  x % n = IF x < n THEN x ELSE x - n
<1>1. CASE x < n
  BY <1>1
<1>2. CASE x >= n
  <2>1. x - n \in 0 .. n - 1
    BY <1>2
  <2>2. x = 1 * n + (x - n)
    OBVIOUS
  <2> QED
    BY <1>2, <2>1, <2>2
<1> QED
  BY <1>1, <1>2

LEMMA ModType ==
    ASSUME NEW n \in Nat \ {0}, NEW x \in Nat
    PROVE  x % n \in 0 .. n - 1 /\ x % n <= x
OBVIOUS

LEMMA PortOfNat == \A x \in Nat : x % Ports \in 0 .. MaxPort /\ x % Ports <= x
<1> SUFFICES ASSUME NEW x \in Nat PROVE x % Ports \in 0 .. MaxPort /\ x % Ports <= x
  OBVIOUS
<1>1. x % Ports \in 0 .. Ports - 1 /\ x % Ports <= x
  BY PortsAreNat, ModType
<1> QED
  BY <1>1, PortsAreNat DEF Ports

\* Different numbers of children, below the number of ports, give different ports.
LEMMA CountsGivePorts ==
    ASSUME NEW i \in 0 .. Ports - 1, NEW j \in 0 .. Ports - 1,
           ToPort(BasePort + (i % Ports)) = ToPort(BasePort + (j % Ports))
    PROVE  i = j
<1>1. Ports \in Nat \ {0} /\ BasePort \in 0 .. Ports - 1
  BY PortsAreNat DEF Ports
<1> HIDE DEF Ports
<1>2. i % Ports = i /\ j % Ports = j
  <2>1. ASSUME NEW n \in Nat \ {0}, NEW x \in 0 .. n - 1 PROVE x % n = x
    BY <2>1
  <2> QED
    BY <1>1, <2>1
<1>3. /\ BasePort + i \in Nat /\ BasePort + i < 2 * Ports
      /\ BasePort + j \in Nat /\ BasePort + j < 2 * Ports
  BY <1>1
<1>4. /\ (BasePort + i) % Ports = IF BasePort + i < Ports THEN BasePort + i ELSE BasePort + i - Ports
      /\ (BasePort + j) % Ports = IF BasePort + j < Ports THEN BasePort + j ELSE BasePort + j - Ports
  <2>1. ASSUME NEW x \in Nat, x < 2 * Ports
        PROVE  x % Ports = IF x < Ports THEN x ELSE x - Ports
    BY <1>1, <2>1, WrapsOnce
  <2> DEFINE x == BasePort + i
             y == BasePort + j
  <2>2. x \in Nat /\ x < 2 * Ports /\ y \in Nat /\ y < 2 * Ports
    BY <1>3
  <2> HIDE DEF x, y
  <2>3. /\ x % Ports = IF x < Ports THEN x ELSE x - Ports
        /\ y % Ports = IF y < Ports THEN y ELSE y - Ports
    BY <2>1, <2>2
  <2> QED
    BY <1>1, <2>2, <2>3 DEF x, y
<1>5. (BasePort + i) % Ports = (BasePort + j) % Ports
  BY <1>2 DEF ToPort
<1> QED
  BY <1>1, <1>4, <1>5

(***************************************************************************)
(* The parts of the invariant that most steps leave alone.                 *)
(***************************************************************************)
LEMMA StepTypes ==
    ASSUME TypeOK
    PROVE  /\ pc \in [Upload -> SeedStep] /\ port \in [Upload -> 0 .. NoPort]
           /\ ran \in [Upload -> SUBSET Upload]
           /\ statuses \in Seq(Status) /\ children \subseteq Upload /\ live \subseteq Upload
BY DEF TypeOK, SeedStep, Counted

\* Seeds that go on, stop or panic keep their ports and counts.
LEMMA CountsKept ==
    ASSUME IInv, UNCHANGED <<port, ran>>, children \subseteq children',
           \A u \in Upload : pc'[u] \in Counted => pc[u] \in Counted
    PROVE  PortOfCount' /\ CountsAreChain'
BY DEF IInv, PortOfCount, CountsAreChain

\* A step that finishes no seed, and lets no finished one lose its child, keeps
\* the statuses.
LEMMA StatusesKept ==
    ASSUME IInv, UNCHANGED statuses,
           \A u \in Upload : pc'[u] = "done" <=> pc[u] = "done",
           \A u \in Upload : pc[u] = "done" => (u \in children' <=> u \in children)
    PROVE  OneStatusPerSeed'
<1>1. {[seed |-> u, seeding |-> u \in children'] : u \in {w \in Upload : pc'[w] = "done"}}
        = {[seed |-> u, seeding |-> u \in children] : u \in {w \in Upload : pc[w] = "done"}}
  OBVIOUS
<1>2. /\ IsInjective(statuses)
      /\ {[seed |-> u, seeding |-> u \in children] : u \in {w \in Upload : pc[w] = "done"}}
           = ToSet(statuses)
  BY DEF IInv, OneStatusPerSeed
<1>3. ToSet(statuses)' = ToSet(statuses) /\ IsInjective(statuses)' = IsInjective(statuses)
  BY DEF ToSet, IsInjective
<1> QED
  BY <1>1, <1>2, <1>3 DEF OneStatusPerSeed

(***************************************************************************)
(* One lemma per action.                                                   *)
(***************************************************************************)
LEMMA ChoosePortStep ==
    ASSUME IInv, NEW u \in Upload, ChoosePort(u)
    PROVE  IInv'
<1> DEFINE sum == BasePort + (Count % Ports)
<1>1. /\ pc[u] = "idle" /\ UNCHANGED <<checked, starts, children, live, statuses>>
      /\ TypeOK /\ pc \in [Upload -> SeedStep] /\ Count = Cardinality(children)
      /\ Cardinality(children) \in Nat
  BY StepTypes, FS_CardinalityType DEF ChoosePort, IInv, Count, ChildrenInserted
<1>2. Count % Ports \in Nat /\ Count % Ports <= Count /\ sum \in Nat /\ ToPort(sum) \in 0 .. MaxPort
  <2>1. Count % Ports \in Nat /\ Count % Ports <= Count
    BY <1>1, PortOfNat
  <2>2. sum \in Nat
    BY <2>1, PortsAreNat
  <2> HIDE DEF sum
  <2> QED
    BY <2>1, <2>2, PortOfNat DEF ToPort
<1>3. u \notin children
  BY <1>1 DEF IInv, ChildrenInserted
<1> HIDE DEF sum
<1>4. CASE poisoned \/ (checked /\ sum > MaxPort)
  <2>1. pc' = [pc EXCEPT ![u] = "panicked"] /\ poisoned' = TRUE /\ UNCHANGED <<port, ran>>
    BY <1>4 DEF ChoosePort, GoTo, sum
  <2>2. TypeOK'
    BY <1>1, <2>1 DEF TypeOK
  <2>3. ChildrenInserted'
    BY <1>1, <2>1 DEF IInv, ChildrenInserted
  <2>4. PortOfCount' /\ CountsAreChain'
    BY <1>1, <2>1, CountsKept DEF Counted
  <2>5. checked /\ BasePort + Cardinality(children) > MaxPort
    BY <1>1, <1>2, <1>4, PortsAreNat DEF IInv, PoisonedAtLimit, sum
  <2>6. PoisonedAtLimit'
    BY <1>1, <2>1, <2>5 DEF PoisonedAtLimit
  <2>7. OneStatusPerSeed'
    BY <1>1, <2>1, StatusesKept
  <2> QED
    BY <2>2, <2>3, <2>4, <2>6, <2>7 DEF IInv
<1>5. CASE ~(poisoned \/ (checked /\ sum > MaxPort))
  <2>1. /\ pc' = [pc EXCEPT ![u] = "spawn"] /\ poisoned' = poisoned
        /\ port' = [port EXCEPT ![u] = ToPort(sum)] /\ ran' = [ran EXCEPT ![u] = children]
    BY <1>5 DEF ChoosePort, GoTo, sum
  <2>2. TypeOK'
    BY <1>1, <1>2, <2>1, PortsAreNat DEF TypeOK, NoPort
  <2>3. ChildrenInserted'
    BY <1>1, <2>1 DEF IInv, ChildrenInserted
  <2>4. /\ \A w \in Upload : ran'[w] = IF w = u THEN children ELSE ran[w]
        /\ \A w \in Upload : port'[w] = IF w = u THEN ToPort(sum) ELSE port[w]
        /\ \A w \in Upload : pc'[w] = IF w = u THEN "spawn" ELSE pc[w]
    BY <1>1, <2>1, StepTypes
  <2>5. PortOfCount'
    BY <1>1, <1>3, <2>4 DEF IInv, PortOfCount, sum
  <2>6. CountsAreChain'
    BY <2>4 DEF IInv, PortOfCount, CountsAreChain
  <2>7. PoisonedAtLimit'
    BY <1>1, <2>1 DEF IInv, PoisonedAtLimit
  <2>8. OneStatusPerSeed'
    BY <1>1, <2>1, StatusesKept
  <2> QED
    BY <2>2, <2>3, <2>5, <2>6, <2>7, <2>8 DEF IInv
<1> QED
  BY <1>4, <1>5

LEMMA SpawnStep ==
    ASSUME IInv, NEW u \in Upload, Spawn(u)
    PROVE  IInv'
<1>1. /\ pc[u] = "spawn" /\ UNCHANGED <<checked, starts, port, ran, children, poisoned, statuses>>
      /\ TypeOK /\ pc \in [Upload -> SeedStep]
      /\ pc' \in {[pc EXCEPT ![u] = "insert"], [pc EXCEPT ![u] = "notSpawned"]}
      /\ live' \in {live, live \cup {u}}
  BY StepTypes DEF Spawn, GoTo, IInv
<1>2. u \notin children
  BY <1>1 DEF IInv, ChildrenInserted
<1>3. TypeOK'
  BY <1>1 DEF TypeOK
<1>4. ChildrenInserted'
  <2>1. /\ pc'[u] \in {"insert", "notSpawned"}
        /\ \A w \in Upload : w # u => pc'[w] = pc[w]
        /\ children \subseteq Upload
    BY <1>1, StepTypes
  <2> QED
    BY <1>1, <1>2, <2>1 DEF IInv, ChildrenInserted
<1>5. PortOfCount' /\ CountsAreChain'
  BY <1>1, CountsKept DEF Counted
<1>6. PoisonedAtLimit'
  BY <1>1 DEF IInv, PoisonedAtLimit
<1>7. OneStatusPerSeed'
  BY <1>1, StatusesKept
<1> QED
  BY <1>3, <1>4, <1>5, <1>6, <1>7 DEF IInv

LEMMA InsertStep ==
    ASSUME IInv, NEW u \in Upload, Insert(u)
    PROVE  IInv'
<1>1. /\ pc[u] = "insert" /\ UNCHANGED <<checked, starts, port, ran, poisoned, statuses>>
      /\ TypeOK /\ pc \in [Upload -> SeedStep] /\ children \subseteq Upload
  BY StepTypes DEF Insert, IInv
<1>2. u \notin children /\ IsFiniteSet(children)
  BY <1>1 DEF IInv, ChildrenInserted
<1>3. CASE poisoned
  <2>1. pc' = [pc EXCEPT ![u] = "panicked"] /\ live' = live \ {u} /\ children' = children
    BY <1>3 DEF Insert, GoTo
  <2>2. TypeOK'
    BY <1>1, <2>1 DEF TypeOK
  <2>3. ChildrenInserted'
    BY <1>1, <1>2, <2>1 DEF IInv, ChildrenInserted
  <2>4. PortOfCount' /\ CountsAreChain'
    BY <1>1, <2>1, CountsKept DEF Counted
  <2>5. PoisonedAtLimit'
    BY <1>1, <1>3, <2>1 DEF IInv, PoisonedAtLimit
  <2>6. OneStatusPerSeed'
    BY <1>1, <2>1, StatusesKept
  <2> QED
    BY <2>2, <2>3, <2>4, <2>5, <2>6 DEF IInv
<1>4. CASE ~poisoned
  <2>1. pc' = [pc EXCEPT ![u] = "inserted"] /\ live' = live /\ children' = children \cup {u}
    BY <1>4 DEF Insert, GoTo
  <2>2. TypeOK'
    BY <1>1, <2>1 DEF TypeOK
  <2>3. ChildrenInserted'
    <3>1. IsFiniteSet(children \cup {u})
      BY <1>2, FS_AddElement
    <3> QED
      BY <1>1, <1>2, <2>1, <3>1 DEF IInv, ChildrenInserted
  <2>4. PortOfCount' /\ CountsAreChain'
    BY <1>1, <2>1, CountsKept DEF Counted
  <2>5. PoisonedAtLimit'
    BY <1>1, <1>4, <2>1 DEF IInv, PoisonedAtLimit
  <2>6. OneStatusPerSeed'
    BY <1>1, <2>1, StatusesKept
  <2> QED
    BY <2>2, <2>3, <2>4, <2>5, <2>6 DEF IInv
<1> QED
  BY <1>3, <1>4

\* What a finished seed adds to the list.
LEMMA AppendsOne ==
    ASSUME NEW S, NEW s \in Seq(S), NEW e \in S, IsInjective(s), e \notin ToSet(s)
    PROVE  IsInjective(Append(s, e)) /\ ToSet(Append(s, e)) = ToSet(s) \cup {e}
<1>1. /\ DOMAIN s = 1 .. Len(s) /\ Len(s) \in Nat
      /\ DOMAIN Append(s, e) = 1 .. Len(s) + 1
      /\ \A i \in 1 .. Len(s) : Append(s, e)[i] = s[i]
      /\ Append(s, e)[Len(s) + 1] = e
  OBVIOUS
<1>2. \A i \in 1 .. Len(s) + 1 : i \in 1 .. Len(s) \/ i = Len(s) + 1
  BY <1>1
<1>3. \A i \in 1 .. Len(s) : i \in 1 .. Len(s) + 1
  BY <1>1
<1>4. Len(s) + 1 \in 1 .. Len(s) + 1
  BY <1>1
<1> DEFINE t == Append(s, e)
           n == Len(s)
<1>5. \A i \in 1 .. n : s[i] # e
  BY <1>1 DEF ToSet
<1> HIDE DEF t
<1>6. IsInjective(t)
  <2> SUFFICES ASSUME NEW i \in 1 .. n + 1, NEW j \in 1 .. n + 1, t[i] = t[j] PROVE i = j
    BY <1>1 DEF IsInjective, t
  <2>1. CASE i \in 1 .. n /\ j \in 1 .. n
    BY <1>1, <2>1 DEF IsInjective, t
  <2>2. CASE ~(i \in 1 .. n /\ j \in 1 .. n)
    BY <1>1, <1>2, <1>5, <2>2 DEF t
  <2> QED
    BY <2>1, <2>2
<1>7. ToSet(t) = ToSet(s) \cup {e}
  BY <1>1, <1>2, <1>3, <1>4 DEF ToSet, t
<1> QED
  BY <1>6, <1>7 DEF t

LEMMA PushStatusStep ==
    ASSUME IInv, NEW u \in Upload, PushStatus(u)
    PROVE  IInv'
<1> DEFINE e == [seed |-> u, seeding |-> u \in children]
<1>1. /\ pc[u] \in {"inserted", "notSpawned"}
      /\ UNCHANGED <<checked, starts, port, ran, children, live, poisoned>>
      /\ TypeOK /\ pc \in [Upload -> SeedStep] /\ pc' = [pc EXCEPT ![u] = "done"]
      /\ statuses \in Seq(Status)
  BY StepTypes DEF PushStatus, GoTo, IInv
<1>2. (pc[u] = "inserted") <=> (u \in children)
  BY <1>1 DEF IInv, ChildrenInserted
<1>3. statuses' = Append(statuses, e) /\ e \in Status
  BY <1>2 DEF PushStatus, Status
<1>4. TypeOK'
  BY <1>1, <1>3 DEF TypeOK
<1>5. ChildrenInserted'
  BY <1>1 DEF IInv, ChildrenInserted
<1>6. PortOfCount' /\ CountsAreChain'
  BY <1>1, CountsKept DEF Counted
<1>7. PoisonedAtLimit'
  BY <1>1 DEF IInv, PoisonedAtLimit
<1>8. OneStatusPerSeed'
  <2>1. /\ IsInjective(statuses)
        /\ ToSet(statuses) = {[seed |-> v, seeding |-> v \in children] :
                                v \in {w \in Upload : pc[w] = "done"}}
    BY DEF IInv, OneStatusPerSeed
  <2>2. e \notin ToSet(statuses)
    BY <1>1, <2>1
  <2>3. IsInjective(statuses') /\ ToSet(statuses') = ToSet(statuses) \cup {e}
    BY <1>1, <1>3, <2>1, <2>2, AppendsOne
  <2>4. {w \in Upload : pc'[w] = "done"} = {w \in Upload : pc[w] = "done"} \cup {u}
    BY <1>1
  <2>5. {[seed |-> v, seeding |-> v \in children] : v \in {w \in Upload : pc'[w] = "done"}}
          = ToSet(statuses) \cup {e}
    BY <2>1, <2>4
  <2> QED
    BY <1>1, <2>3, <2>5 DEF OneStatusPerSeed
<1> QED
  BY <1>4, <1>5, <1>6, <1>7, <1>8 DEF IInv

LEMMA ExitStep ==
    ASSUME IInv, NEW u \in Upload, Exit(u)
    PROVE  IInv'
<1>1. /\ UNCHANGED <<checked, starts, pc, port, ran, children, poisoned, statuses>>
      /\ live' = live \ {u}
  BY DEF Exit
<1>2. TypeOK' /\ ChildrenInserted' /\ PoisonedAtLimit'
  BY <1>1 DEF IInv, TypeOK, ChildrenInserted, PoisonedAtLimit
<1>3. PortOfCount' /\ CountsAreChain'
  BY <1>1, CountsKept
<1>4. OneStatusPerSeed'
  BY <1>1, StatusesKept
<1> QED
  BY <1>2, <1>3, <1>4 DEF IInv

LEMMA RestartStep ==
    ASSUME IInv, Restart
    PROVE  IInv'
<1>1. /\ \A u \in Upload : pc'[u] \in {"idle", "over"}
      /\ \A u \in Upload : pc'[u] = IF pc[u] = "idle" THEN "idle" ELSE "over"
      /\ children' = {} /\ live' \subseteq live /\ poisoned' = FALSE /\ statuses' = <<>>
      /\ UNCHANGED <<checked, port, ran>> /\ starts' = starts + 1 /\ starts < MaxStarts
  BY DEF Restart
<1>2. <<>> \in Seq(Status)
  OBVIOUS
<1>3. pc' \in [Upload -> {"idle", "spawn", "insert", "inserted", "notSpawned", "done",
                          "panicked", "over"}]
  BY DEF Restart
<1>4. TypeOK'
  <2>1. starts' \in 1 .. MaxStarts
    BY <1>1, StartsAssumption DEF IInv, TypeOK
  <2>2. \A u \in Upload : port'[u] = NoPort =>
          pc'[u] \in {"idle", "panicked", "over"} /\ u \notin live'
    BY <1>1 DEF IInv, TypeOK
  <2>3. /\ checked' \in BOOLEAN /\ poisoned' \in BOOLEAN /\ port' \in [Upload -> 0 .. NoPort]
        /\ ran' \in [Upload -> SUBSET Upload]
        /\ children' \subseteq Upload /\ live' \subseteq Upload /\ statuses' \in Seq(Status)
    BY <1>1, <1>2 DEF IInv, TypeOK
  <2> QED
    BY <1>3, <2>1, <2>2, <2>3 DEF TypeOK
<1>5. ChildrenInserted'
  BY <1>1, FS_EmptySet DEF ChildrenInserted
<1>6. PortOfCount' /\ CountsAreChain' /\ PoisonedAtLimit'
  BY <1>1 DEF PortOfCount, CountsAreChain, PoisonedAtLimit, Counted
<1>7. IsInjective(<<>>) /\ ToSet(<<>>) = {}
  BY DEF IsInjective, ToSet
<1>8. OneStatusPerSeed'
  BY <1>1, <1>7 DEF OneStatusPerSeed
<1> QED
  BY <1>4, <1>5, <1>6, <1>8 DEF IInv

(***************************************************************************)
(* The theorems.                                                           *)
(***************************************************************************)
LEMMA InitIInv == Init => IInv
<1> SUFFICES ASSUME Init PROVE IInv
  OBVIOUS
<1>1. <<>> \in Seq(Status)
  OBVIOUS
<1>2. TypeOK
  <2>1. starts \in 1 .. MaxStarts
    BY StartsAssumption DEF Init
  <2>2. NoPort \in 0 .. NoPort
    BY PortAssumption DEF NoPort
  <2> QED
    BY <1>1, <2>1, <2>2 DEF Init, TypeOK
<1>3. ChildrenInserted
  BY FS_EmptySet DEF Init, ChildrenInserted
<1>4. PortOfCount /\ CountsAreChain /\ PoisonedAtLimit
  BY DEF Init, PortOfCount, CountsAreChain, PoisonedAtLimit, Counted
<1>5. IsInjective(<<>>) /\ ToSet(<<>>) = {}
  BY DEF IsInjective, ToSet
<1>6. OneStatusPerSeed
  BY <1>5 DEF Init, OneStatusPerSeed
<1> QED
  BY <1>2, <1>3, <1>4, <1>6 DEF IInv

LEMMA NextIInv == IInv /\ [Next]_vars => IInv'
<1> SUFFICES ASSUME IInv, [Next]_vars PROVE IInv'
  OBVIOUS
<1>1. CASE UNCHANGED vars
  <2>1. TypeOK' /\ ChildrenInserted' /\ PoisonedAtLimit'
    BY <1>1 DEF vars, IInv, TypeOK, ChildrenInserted, PoisonedAtLimit
  <2>2. PortOfCount' /\ CountsAreChain'
    BY <1>1, CountsKept DEF vars
  <2>3. OneStatusPerSeed'
    BY <1>1, StatusesKept DEF vars
  <2> QED
    BY <2>1, <2>2, <2>3 DEF IInv
<1> QED
  BY <1>1, ChoosePortStep, SpawnStep, InsertStep, PushStatusStep, ExitStep, RestartStep DEF Next

LEMMA Invariance == Spec => []IInv
BY InitIInv, NextIInv, PTL DEF Spec

\* Every variable stays in the states CarlSeeder can be in.
THEOREM TypeCorrect == Spec => []TypeOK
<1>1. IInv => TypeOK
  BY DEF IInv
<1> QED
  BY <1>1, Invariance, PTL

\* The status list has exactly one status, and a true one, of each seed that has
\* finished since the start.
THEOREM StatusesAreExact == Spec => []OneStatusPerSeed
<1>1. IInv => OneStatusPerSeed
  BY DEF IInv
<1> QED
  BY <1>1, Invariance, PTL

\* A seed panics only in a build with overflow checks whose ports are used up.
THEOREM PanicsAtLimit == Spec => []PanicsOnlyAtPortLimit
<1>1. IInv => PanicsOnlyAtPortLimit
  BY DEF IInv, PoisonedAtLimit, PanicsOnlyAtPortLimit
<1> QED
  BY <1>1, Invariance, PTL

\* A child that another one's seed counted was counted with fewer children.
LEMMA CountedHasFewer ==
    ASSUME IInv, NEW u \in children, NEW w \in children, u \in ran[w]
    PROVE  Cardinality(ran[u]) < Cardinality(ran[w])
<1>1. /\ u \in Upload /\ w \in Upload /\ pc[u] \in Counted /\ pc[w] \in Counted
  BY DEF IInv, TypeOK, ChildrenInserted, Counted
<1>2. /\ u \notin ran[u] /\ ran[w] \subseteq children
  BY <1>1 DEF IInv, PortOfCount
<1>3. ran[u] \subseteq ran[w] /\ ran[u] # ran[w]
  BY <1>1, <1>2 DEF IInv, CountsAreChain
<1>4. IsFiniteSet(ran[w]) /\ IsFiniteSet(ran[u])
  BY <1>2, <1>3, FS_Subset DEF IInv, ChildrenInserted
<1>5. /\ Cardinality(ran[u]) <= Cardinality(ran[w])
      /\ Cardinality(ran[u]) # Cardinality(ran[w])
  BY <1>3, <1>4, FS_Subset
<1> QED
  BY <1>4, <1>5, FS_CardinalityType

\* A seed counted fewer children than there are now, itself included.
LEMMA CountedBelowNow ==
    ASSUME IInv, NEW u \in children
    PROVE  Cardinality(ran[u]) \in Nat /\ Cardinality(ran[u]) < Cardinality(children)
<1>1. u \in Upload /\ pc[u] \in Counted /\ IsFiniteSet(children)
  BY DEF IInv, TypeOK, ChildrenInserted, Counted
<1>2. ran[u] \subseteq children /\ ran[u] # children
  BY <1>1 DEF IInv, PortOfCount
<1>3. IsFiniteSet(ran[u]) /\ Cardinality(ran[u]) <= Cardinality(children)
      /\ Cardinality(ran[u]) # Cardinality(children)
  BY <1>1, <1>2, FS_Subset
<1> QED
  BY <1>1, <1>3, FS_CardinalityType

\* Two children of one start have different ports, unless their seeds overlapped
\* or there are more children than ports.
THEOREM PortsDiffer == Spec => []PortsDifferUnlessRaced
<1>1. IInv => PortsDifferUnlessRaced
  <2> SUFFICES ASSUME IInv, NEW u \in children, NEW w \in children, port[u] = port[w],
                      u \in ran[w] \/ w \in ran[u], ~(Cardinality(children) > Ports)
               PROVE  FALSE
    BY DEF PortsDifferUnlessRaced
  <2> DEFINE i == Cardinality(ran[u])
             j == Cardinality(ran[w])
  <2>1. IsFiniteSet(children) /\ Cardinality(children) \in Nat
    BY FS_CardinalityType DEF IInv, ChildrenInserted
  <2>2. i \in 0 .. Ports - 1 /\ j \in 0 .. Ports - 1
    BY <2>1, CountedBelowNow, PortsAreNat
  <2>3. i # j
    BY <2>2, CountedHasFewer
  <2>4. /\ u \in Upload /\ w \in Upload /\ pc[u] \in Counted /\ pc[w] \in Counted
    BY DEF IInv, TypeOK, ChildrenInserted, Counted
  <2>5. ToPort(BasePort + (i % Ports)) = ToPort(BasePort + (j % Ports))
    BY <2>4 DEF IInv, PortOfCount
  <2> HIDE DEF i, j
  <2> QED
    BY <2>2, <2>3, <2>5, CountsGivePorts
<1> QED
  BY <1>1, Invariance, PTL
=============================================================================
