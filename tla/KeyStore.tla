----------------------------- MODULE KeyStore -----------------------------
(***************************************************************************)
(* What the TDEK cache promises its callers, without slots or scans: a     *)
(* bounded map from tablespace OIDs to keys.  An entry leaves the map only *)
(* when the whole map is wiped, or when it is inactive and the map is full *)
(* and another tablespace needs the room.                                  *)
(***************************************************************************)
EXTENDS Naturals, FiniteSets

CONSTANTS Oids, Keys, Capacity

VARIABLES attached, store, reply

vars == <<attached, store, reply>>

Absent == [kind |-> "absent"]
Held(k, a) == [kind |-> "held", key |-> k, active |-> a]

Occupied == {s \in Oids : store[s] # Absent}
Inactive == {s \in Occupied : ~store[s].active}

Done == [kind |-> "ok"]
Error == [kind |-> "error"]
Miss == [kind |-> "miss"]

Init ==
    /\ attached = FALSE
    /\ store = [s \in Oids |-> Absent]
    /\ reply = Done

Attach ==
    /\ attached' = TRUE
    /\ reply' = Done
    /\ UNCHANGED store

\* A lookup answers with the active key the map holds, and only with it.
Get(s) ==
    /\ reply' = IF ~attached THEN Error
                ELSE IF store[s] # Absent /\ store[s].active
                THEN [kind |-> "hit", key |-> store[s].key]
                ELSE Miss
    /\ UNCHANGED <<attached, store>>

Put(s, k, a) ==
    /\ attached
    /\ \/ /\ store[s] # Absent \/ Cardinality(Occupied) < Capacity
          /\ store' = [store EXCEPT ![s] = Held(k, a)]
       \/ /\ store[s] = Absent
          /\ Cardinality(Occupied) = Capacity
          /\ \E v \in Inactive :
                store' = [store EXCEPT ![v] = Absent, ![s] = Held(k, a)]
    /\ reply' = Done
    /\ UNCHANGED attached

PutFails(s) ==
    /\ \/ ~attached
       \/ /\ store[s] = Absent
          /\ Cardinality(Occupied) = Capacity
          /\ Inactive = {}
    /\ reply' = Error
    /\ UNCHANGED <<attached, store>>

Wipe ==
    /\ store' = [s \in Oids |-> Absent]
    /\ reply' = IF attached THEN Done ELSE Error
    /\ UNCHANGED attached

Next ==
    \/ Attach
    \/ \E s \in Oids : Get(s)
    \/ \E s \in Oids, k \in Keys, a \in BOOLEAN : Put(s, k, a)
    \/ \E s \in Oids : PutFails(s)
    \/ Wipe

Spec == Init /\ [][Next]_vars
=============================================================================
