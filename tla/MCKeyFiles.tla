------------------------------ MODULE MCKeyFiles ------------------------------
(***************************************************************************)
(* An instance of KeyFiles: a server with a vss-server and a wallet, whose *)
(* operator set the nostr key.                                             *)
(***************************************************************************)
EXTENDS KeyFiles

ServerSecrets == <<"vss.key", "nostr.key", "breez-mnemonic.txt">>
=============================================================================
