------------------------------- MODULE RWLock -------------------------------
(***************************************************************************)
(* What storage/lmgr/lwlock.c promises to its callers, without queues,     *)
(* flags or semaphores: a lock that processes hold shared or exclusively,  *)
(* and the variable that goes with it, which changes only in the hands of  *)
(* the exclusive holder.                                                   *)
(***************************************************************************)
CONSTANTS Procs,   \* the processes
          Vals     \* the values of the variable

VARIABLES holds,   \* holds[p]: the mode in which p holds the lock, or "none"
          val      \* the variable protected by the lock

vars == <<holds, val>>

Init == holds = [p \in Procs |-> "none"] /\ val \in Vals

Take(p, mode) ==
    /\ holds[p] = "none"
    /\ \A q \in Procs : holds[q] = "none" \/ (mode = "shared" /\ holds[q] = "shared")
    /\ holds' = [holds EXCEPT ![p] = mode]
    /\ val' = val

Drop(p) ==
    /\ holds[p] # "none"
    /\ holds' = [holds EXCEPT ![p] = "none"]
    /\ val' = val

Advertise(p, v) ==
    /\ holds[p] = "exclusive"
    /\ val' = v
    /\ holds' = holds

Next == \E p \in Procs :
    \/ \E mode \in {"shared", "exclusive"} : Take(p, mode)
    \/ Drop(p)
    \/ \E v \in Vals : Advertise(p, v)

Spec == Init /\ [][Next]_vars
=============================================================================
