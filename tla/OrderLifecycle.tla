---------------------------- MODULE OrderLifecycle ----------------------------
(***************************************************************************)
(* What a paper account promises about its orders, whatever happens to the *)
(* process that keeps it: an order that is filled, cancelled or void stays *)
(* so, and an order is filled at most once.  Several orders may move in    *)
(* one step, because one save of the state file publishes all of them.     *)
(***************************************************************************)
EXTENDS Naturals

CONSTANT OrderIds

VARIABLES fate,  \* what the account knows of each order
          fills  \* how many times each order has been executed

lifecycleVars == <<fate, fills>>

Closed == {"filled", "cancelled", "void"}

Init == /\ fate = [i \in OrderIds |-> "none"]
        /\ fills = [i \in OrderIds |-> 0]

\* One order's move: nothing, into the queue, or to a closed fate.
Moves(i) ==
    \/ fate'[i] = fate[i] /\ fills'[i] = fills[i]
    \/ /\ fate[i] = "none" /\ fate'[i] = "pending"
       /\ fills'[i] = fills[i]
    \/ /\ fate[i] \notin Closed /\ fate'[i] \in {"cancelled", "void"}
       /\ fills'[i] = fills[i]
    \/ /\ fate[i] \notin Closed /\ fate'[i] = "filled"
       /\ fills[i] = 0 /\ fills'[i] = 1

Next == /\ DOMAIN fate' = OrderIds
        /\ DOMAIN fills' = OrderIds
        /\ \A i \in OrderIds : Moves(i)

Spec == Init /\ [][Next]_lifecycleVars

=============================================================================
