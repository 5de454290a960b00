------------------------------ MODULE MCBilling ------------------------------
(* Instances of Billing for TLC: every command is about the one backup. *)
EXTENDS Billing, TLC

OneBackup == [w \in Client |-> "b1"]
RoundNames == [p \in Client \X (1 .. MaxRounds) |-> p[1] \o ToString(p[2])]
=============================================================================
