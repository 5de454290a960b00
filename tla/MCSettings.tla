----------------------------- MODULE MCSettings -----------------------------
(* Instances of Settings for TLC: two patches of one field each, a third    *)
(* that carries both fields, and one that is invalid.                       *)
EXTENDS Settings

CONSTANTS q1, q2, q3, bad, price, period, listen

Patches2 == {q1, q2}
Patches4 == {q1, q2, q3, bad}

PatchSets == [p \in Patch |-> IF p = q1 THEN {price}
                              ELSE IF p = q2 THEN {period} ELSE {price, period}]
=============================================================================
