-------------------------- MODULE MCTdeMasterKey --------------------------
(* TLC instance of TdeMasterKey: two backends and the tool.               *)
EXTENDS TdeMasterKey
=============================================================================
