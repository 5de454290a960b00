----------------------------- MODULE MCPayments -----------------------------
(* Instances of Payments for TLC: p1 and p2 pay for backup b1, p2 without a *)
(* hash, p3 carries no note; c1 claims a payment for b1, c2 one for b2.     *)
EXTENDS Payments

CONSTANTS p1, p2, p3, c1, c2, b1, b2

Payments3 == {p1, p2, p3}
Claims2 == {c1, c2}

Notes == [x \in Payment \cup Claim |->
            IF x = p3 THEN NoNote ELSE IF x = c2 THEN b2 ELSE b1]
=============================================================================
