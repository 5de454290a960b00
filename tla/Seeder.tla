------------------------------- MODULE Seeder -------------------------------
(***************************************************************************)
(* CarlSeeder of pivss-server (seeder.rs): for each stored version a child *)
(* process `carl seed ... --port N`, where N is the base port plus the     *)
(* number of children so far.  `seed` takes the lock of the children once  *)
(* to count them and once to add one, so seeds of two uploads interleave.  *)
(* An entry of the children is never removed, also when the child exits.   *)
(***************************************************************************)
EXTENDS Naturals, Sequences, FiniteSets, SequencesExt

CONSTANTS Upload,       \* uploads that reach the seeder, each of its own infohash
          BasePort,     \* config.torrent.port
          MaxPort,      \* the largest u16, 65535 in the code
          MaxStarts     \* bound on the starts of the server

ASSUME PortAssumption == MaxPort \in Nat /\ BasePort \in 0 .. MaxPort
ASSUME StartsAssumption == MaxStarts \in Nat \ {0}

VARIABLES checked,      \* was the server built with overflow checks?
          starts,       \* starts of the server so far
          pc,           \* the step each seed is at
          port,         \* the port of each seed
          ran,          \* ran[u]: children there were when u was counted (history)
          children,     \* seeds in the map of children
          live,         \* children that run, also those of an earlier start
          poisoned,     \* has a panic poisoned the lock of the children?
          statuses      \* the status list, a TRUE for "seeding"
vars == <<checked, starts, pc, port, ran, children, live, poisoned, statuses>>

NoPort == MaxPort + 1
Ports == MaxPort + 1
Status == [seed : Upload, seeding : BOOLEAN]

Init ==
    /\ checked \in BOOLEAN
    /\ starts = 1
    /\ pc = [u \in Upload |-> "idle"]
    /\ port = [u \in Upload |-> NoPort]
    /\ ran = [u \in Upload |-> {}]
    /\ children = {}
    /\ live = {}
    /\ poisoned = FALSE
    /\ statuses = <<>>

GoTo(u, step) == pc' = [pc EXCEPT ![u] = step]

\* Bug: only the children that still run are counted.
Count_Fault == Cardinality(children \cap live)
Count == Cardinality(children)

ToPort(sum) == sum % Ports

\* The count is cast to u16; the sum wraps, or panics with the lock held.
ChoosePort(u) ==
    /\ pc[u] = "idle"
    /\ LET sum == BasePort + (Count % Ports) IN
       IF poisoned \/ (checked /\ sum > MaxPort)
       THEN /\ GoTo(u, "panicked")
            /\ poisoned' = TRUE
            /\ UNCHANGED <<port, ran>>
       ELSE /\ GoTo(u, "spawn")
            /\ port' = [port EXCEPT ![u] = ToPort(sum)]
            /\ ran' = [ran EXCEPT ![u] = children]
            /\ UNCHANGED poisoned
    /\ UNCHANGED <<checked, starts, children, live, statuses>>

\* Bug: an error of spawn is unwrapped.
Spawn_Fault(u) ==
    /\ pc[u] = "spawn"
    /\ \/ GoTo(u, "insert") /\ live' = live \cup {u}
       \/ GoTo(u, "panicked") /\ UNCHANGED live
    /\ UNCHANGED <<checked, starts, port, ran, children, poisoned, statuses>>

\* The child starts, or carl cannot be spawned.
Spawn(u) ==
    /\ pc[u] = "spawn"
    /\ \/ GoTo(u, "insert") /\ live' = live \cup {u}
       \/ GoTo(u, "notSpawned") /\ UNCHANGED live
    /\ UNCHANGED <<checked, starts, port, ran, children, poisoned, statuses>>

\* A seed that finds the lock poisoned panics here, and drops its child.
Insert(u) ==
    /\ pc[u] = "insert"
    /\ IF poisoned
       THEN GoTo(u, "panicked") /\ live' = live \ {u} /\ UNCHANGED children
       ELSE GoTo(u, "inserted") /\ children' = children \cup {u} /\ UNCHANGED live
    /\ UNCHANGED <<checked, starts, port, ran, poisoned, statuses>>

\* Bug: a seed without a child has no status.
PushStatus_Fault(u) ==
    /\ pc[u] \in {"inserted", "notSpawned"}
    /\ statuses' = IF pc[u] = "inserted"
                   THEN Append(statuses, [seed |-> u, seeding |-> TRUE]) ELSE statuses
    /\ GoTo(u, "done")
    /\ UNCHANGED <<checked, starts, port, ran, children, live, poisoned>>

PushStatus(u) ==
    /\ pc[u] \in {"inserted", "notSpawned"}
    /\ statuses' = Append(statuses, [seed |-> u, seeding |-> pc[u] = "inserted"])
    /\ GoTo(u, "done")
    /\ UNCHANGED <<checked, starts, port, ran, children, live, poisoned>>

\* A child exits; nobody waits for it.
Exit(u) ==
    /\ u \in live
    /\ live' = live \ {u}
    /\ UNCHANGED <<checked, starts, pc, port, ran, children, poisoned, statuses>>

\* The server stops and starts again.  Children are killed when the map is
\* dropped, but live on when the process is killed.
Restart ==
    /\ starts < MaxStarts
    /\ starts' = starts + 1
    /\ pc' = [u \in Upload |-> IF pc[u] = "idle" THEN "idle" ELSE "over"]
    /\ children' = {}
    /\ live' \in {{}, live}
    /\ poisoned' = FALSE
    /\ statuses' = <<>>
    /\ UNCHANGED <<checked, port, ran>>

Next == \/ \E u \in Upload : ChoosePort(u) \/ Spawn(u) \/ Insert(u) \/ PushStatus(u)
                             \/ Exit(u)
        \/ Restart

Spec == Init /\ [][Next]_vars

(***************************************************************************)
(* Properties.                                                             *)
(***************************************************************************)
\* Every variable stays in the states CarlSeeder can be in.
TypeOK ==
    /\ checked \in BOOLEAN
    /\ starts \in 1 .. MaxStarts
    /\ pc \in [Upload -> {"idle", "spawn", "insert", "inserted", "notSpawned", "done",
                          "panicked", "over"}]
    /\ port \in [Upload -> 0 .. NoPort]
    /\ \A u \in Upload : port[u] = NoPort =>
         pc[u] \in {"idle", "panicked", "over"} /\ u \notin live
    /\ ran \in [Upload -> SUBSET Upload]
    /\ children \subseteq Upload
    /\ live \subseteq Upload
    /\ poisoned \in BOOLEAN
    /\ statuses \in Seq(Status)

\* One child per version, each on a port of its own ("--port N per version",
\* README.md:147-148): two children of one start share a port only if neither
\* was counted by the other, their seeds having overlapped, or if the ports have
\* wrapped round.
PortsDifferUnlessRaced ==
    \A u, w \in children :
        u # w /\ port[u] = port[w] =>
            \/ u \notin ran[w] /\ w \notin ran[u]
            \/ Cardinality(children) > Ports

\* A seed panics, and with it every upload from then on, only in a build with
\* overflow checks and when the ports above the base port have been used up.
PanicsOnlyAtPortLimit ==
    \A u \in Upload : pc[u] = "panicked" =>
        checked /\ BasePort + Cardinality(children) > MaxPort

\* Each seed that has finished since the start has exactly one status, which
\* says whether it got a child: the list neither loses nor repeats one,
\* whatever overlapped, panicked or exited.
OneStatusPerSeed ==
    /\ IsInjective(statuses)
    /\ {[seed |-> u, seeding |-> u \in children] : u \in {w \in Upload : pc[w] = "done"}}
         = ToSet(statuses)
=============================================================================
