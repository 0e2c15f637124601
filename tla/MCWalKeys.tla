----------------------------- MODULE MCWalKeys -----------------------------
(* TLC instance of WalKeys: two backends that may rotate, one receiver.   *)
EXTENDS WalKeys
=============================================================================
