------------------------------ MODULE MCScram ------------------------------
(* TLC instance of Scram.  One connection: connections share nothing but   *)
(* the role, which changes at any time anyway.  Passwords are              *)
(* interchangeable: the client has pw1, the role any.                      *)
EXTENDS Scram
=============================================================================
