--------------------------- MODULE MCClientLedger ---------------------------
(* Instances of ClientLedger for TLC: c1 and c2 upload f1 and f2, two files *)
(* of one name in different directories; c3 uploads f3 without a passphrase. *)
EXTENDS ClientLedger

CONSTANTS c1, c2, c3, f1, f2, f3, b1, b2

Files == [c \in Command |-> IF c = c1 THEN f1 ELSE IF c = c2 THEN f2 ELSE f3]
Ids == [f \in File |-> IF f = f3 THEN b2 ELSE b1]
=============================================================================
