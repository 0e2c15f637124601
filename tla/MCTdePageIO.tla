---------------------------- MODULE MCTdePageIO ----------------------------
(* TLC instance of TdePageIO: pages of two tablespaces, two keys.         *)
EXTENDS TdePageIO, TLC

CONSTANTS b1, b2, s0, s1

MCSpaceOf == (b1 :> s1) @@ (b2 :> s0)

\* Processes are interchangeable, and no liveness is checked.
ProcSymmetry == Permutations(Procs)
=============================================================================
