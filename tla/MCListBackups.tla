---------------------------- MODULE MCListBackups ----------------------------
(* An instance of ListBackups for TLC: the series in the order of their ids, *)
(* the versions in the order of their names.                                *)
EXTENDS ListBackups

CONSTANTS s1, s2

TwoIds == <<s1, s2>>
TwoNames == <<1, 2>>
=============================================================================
