---------------------------- MODULE StateVisits -----------------------------
(***************************************************************************)
(* What stm.h promises to the states of a machine: each arrival at a state *)
(* is followed by one departure before the machine arrives anywhere else,  *)
(* and once the machine has been closed it arrives nowhere.  Stm adds the  *)
(* calls and callbacks and implements this.                                *)
(***************************************************************************)
CONSTANT States

VARIABLES
    visited,    \* the states arrived at and not departed from
    over        \* the machine has been closed

promised == <<visited, over>>

Init == visited = {} /\ over = FALSE

Arrive(s) == ~over /\ visited = {} /\ visited' = {s} /\ UNCHANGED over

Depart == visited # {} /\ visited' = {} /\ UNCHANGED over

\* Closing departs from wherever the machine is.
Close == ~over /\ over' = TRUE /\ visited' = {}

Next == (\E s \in States : Arrive(s)) \/ Depart \/ Close

Spec == Init /\ [][Next]_promised
=============================================================================
