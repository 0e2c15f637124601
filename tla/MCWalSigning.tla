--------------------------- MODULE MCWalSigning ---------------------------
(* TLC instance of WalSigning: two processes and a queue of two.            *)
EXTENDS WalSigning
=============================================================================
