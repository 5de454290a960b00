---------------------------- MODULE MCDiscovery ----------------------------
(* Instance of Discovery for TLC: a1 and a2 announce for provider p1, p2    *)
(* never does; a stray event carries the key of p1 and the latest time.     *)
EXTENDS Discovery

CONSTANTS p1, r1, r2

Servers == [a \in Request |-> p1]
RelayOrder == <<r1, r2>>
StrayEvents == {[by |-> p1, at |-> MaxTime, terms |-> 0, signed |-> FALSE,
                 readable |-> TRUE]}
=============================================================================
