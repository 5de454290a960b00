------------------------------ MODULE MCBackup ------------------------------
(* Instances of BackupService for TLC. *)
EXTENDS BackupInvariant, TLC

CONSTANTS u1, u2, u3, s1, s2

Uploads2 == {u1, u2}
Uploads3 == {u1, u2, u3}

Symmetry3 == Permutations(Uploads3) \cup Permutations({s1, s2})
=============================================================================
