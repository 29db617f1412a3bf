------------------------------ MODULE Wakeups ------------------------------
(***************************************************************************)
(* What the task lists promise their users, as two sets: a machine that is *)
(* marked is due, the end of a cycle makes what is due ready all at once,  *)
(* and a ready machine stays ready until it is dispatched.  A mark is      *)
(* never lost, and a machine marked while it is ready is dispatched again. *)
(***************************************************************************)
CONSTANT Machines

VARIABLES
    due,    \* machines marked since the last cycle ended
    ready   \* machines to dispatch

vars == <<due, ready>>

Init ==
    /\ due = Machines
    /\ ready = {}

\* Any task marks machines, several at once if it holds the lock.
Mark(marked) ==
    /\ due' = due \cup marked
    /\ UNCHANGED ready

Activate ==
    /\ ready' = ready \cup due
    /\ due' = {}

Dispatch(m) ==
    /\ m \in ready
    /\ ready' = ready \ {m}
    /\ UNCHANGED due

Next ==
    \/ \E marked \in SUBSET Machines : Mark(marked)
    \/ Activate
    \/ \E m \in Machines : Dispatch(m)

Spec == Init /\ [][Next]_vars
=============================================================================
