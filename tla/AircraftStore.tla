--------------------------- MODULE AircraftStore ----------------------------
(***************************************************************************)
(* What the aircraft database promises its callers: a map from addresses   *)
(* to the time of their last report, of bounded size.  A known aircraft    *)
(* takes no other's place and is never set back to an earlier time; it     *)
(* leaves the map only when it has expired or when the operator clears the *)
(* database.                                                               *)
(***************************************************************************)
EXTENDS Integers, FiniteSets

CONSTANTS Icao, Capacity, Threshold

VARIABLES
  store,    \* address -> time of its last report, for the known aircraft
  clock,
  clearing  \* an operator's clear is under way

storeVars == <<store, clock, clearing>>

Known == DOMAIN store

StoreInit == store = [i \in {} |-> 0] /\ clock = 0 /\ clearing = FALSE

\* A report stamped t, which no earlier report of the aircraft is later than.
Report(i, t) ==
  /\ ~clearing
  /\ i \in Known \/ Cardinality(Known) < Capacity
  /\ i \in Known => store[i] <= t
  /\ store' = [j \in Known \cup {i} |-> IF j = i THEN t ELSE store[j]]
  /\ UNCHANGED <<clock, clearing>>

Drop(i) == store' = [j \in Known \ {i} |-> store[j]]

Expire(i) ==
  /\ ~clearing
  /\ clock - store[i] > Threshold
  /\ Drop(i)
  /\ UNCHANGED <<clock, clearing>>

BeginClear == ~clearing /\ clearing' = TRUE /\ UNCHANGED <<store, clock>>

Forget(i) == clearing /\ Drop(i) /\ UNCHANGED <<clock, clearing>>

EndClear == clearing /\ Known = {} /\ clearing' = FALSE /\ UNCHANGED <<store, clock>>

Advance == clock' = clock + 1 /\ UNCHANGED <<store, clearing>>

StoreNext ==
  \/ \E i \in Icao, t \in 0 .. clock : Report(i, t)
  \/ \E i \in Known : Expire(i) \/ Forget(i)
  \/ BeginClear \/ EndClear \/ Advance

StoreSpec == StoreInit /\ [][StoreNext]_storeVars
=============================================================================
