--------------------------- MODULE OrderLifecycle ---------------------------
(***************************************************************************)
(* What the order service promises: every order is created pending and     *)
(* afterwards moves only along the edges of the transition table, one edge *)
(* at a time.  DispatchEngine is checked, and proved, to implement this    *)
(* specification when requests about one order do not overlap.             *)
(***************************************************************************)
EXTENDS OrderModel

VARIABLE status   \* status[o]: "absent" until the order is created

Init == status = [o \in Orders |-> "absent"]

Create(o) ==
  /\ status[o] = "absent"
  /\ status' = [status EXCEPT ![o] = "pending"]

Move(o) ==
  \E next \in OrderStatus :
    /\ CanTransitionTo(status[o], next)
    /\ status' = [status EXCEPT ![o] = next]

Next == \E o \in Orders : Create(o) \/ Move(o)

Spec == Init /\ [][Next]_status

=============================================================================
