--------------------------- MODULE MCTdeKeyCache ---------------------------
(* TLC instance of TdeKeyCache: more tablespaces than slots, two keys.     *)
EXTENDS TdeKeyCache

=============================================================================
