---------------------------- MODULE OrderService ----------------------------
(***************************************************************************)
(* internal/order/service.go over the orders table of internal/store.      *)
(*                                                                         *)
(* Transition is a SELECT followed by an UPDATE with no transaction around *)
(* them, so a call is two steps and other calls run between them.  Assign  *)
(* is one UPDATE whose time.Now() is taken before it reaches the database. *)
(* The UPDATE of Transition writes the status and all three timestamps     *)
(* from the row that was read; the one of Assign writes vehicle_id, status *)
(* and assigned_at only.                                                   *)
(*                                                                         *)
(* A timestamp is a reading of a clock that never goes back; 0 is NULL.    *)
(* Addresses, coordinates, created_at and updated_at are left out.         *)
(***************************************************************************)
EXTENDS Naturals, OrderModel, VehicleModel

CONSTANTS
  NoVehicle,        \* the empty vehicle_id
  Callers,          \* goroutines that call the service
  MaxClock,         \* bound on the clock
  OneCallPerOrder   \* TRUE: callers never overlap on one order

ASSUME OrderAssumption ==
  /\ NoVehicle \notin Vehicles
  /\ MaxClock \in Nat
  /\ OneCallPerOrder \in BOOLEAN

VARIABLES
  orders,   \* the table: orders[o] is a row
  ocalls,   \* ocalls[c]: the call that c has in flight
  clock

orderVars == <<orders, ocalls, clock>>

Row == [status       : OrderStatus \cup {"absent"},
        vehicle_id   : Vehicles \cup {NoVehicle},
        assigned_at  : Nat,
        picked_up_at : Nat,
        delivered_at : Nat]

\* The row of an id that has not been inserted.
NoOrderRow == [status       |-> "absent",
               vehicle_id   |-> NoVehicle,
               assigned_at  |-> 0,
               picked_up_at |-> 0,
               delivered_at |-> 0]

TransitionCall ==
  [op : {"transition"}, id : Orders, next : OrderStatus, row : Row, since : Nat]

AssignCall ==
  [op : {"assign"}, id : Orders, vehicle : Vehicles, since : Nat]

NoCall == [op |-> "none"]

OrderTypeOK ==
  /\ orders \in [Orders -> Row]
  /\ ocalls \in [Callers -> {NoCall} \cup TransitionCall \cup AssignCall]
  /\ clock \in Nat

OrderInit ==
  /\ orders = [o \in Orders |-> NoOrderRow]
  /\ ocalls = [c \in Callers |-> NoCall]
  /\ clock = 1

Tick ==
  /\ clock < MaxClock
  /\ clock' = clock + 1
  /\ UNCHANGED <<orders, ocalls>>

\* No caller has a call in flight on order o.
Unclaimed(o) == \A c \in Callers : ocalls[c] # NoCall => ocalls[c].id # o

MayStart(c, o) ==
  /\ ocalls[c] = NoCall
  /\ OneCallPerOrder => Unclaimed(o)

Exists(o) == orders[o].status # "absent"

Return(c) == ocalls' = [ocalls EXCEPT ![c] = NoCall]

-----------------------------------------------------------------------------

\* Create: one INSERT under a fresh uuid.
Create(o) ==
  /\ ~Exists(o)
  /\ orders' = [orders EXCEPT ![o].status = "pending"]
  /\ UNCHANGED <<ocalls, clock>>

\* A mutant of BeginTransition: the table of transitions is not asked.
MutBeginTransition(c, o, next) ==
  /\ MayStart(c, o)
  /\ Exists(o)
  /\ ocalls' = [ocalls EXCEPT ![c] =
       [op |-> "transition", id |-> o, next |-> next,
        row |-> orders[o], since |-> clock]]
  /\ UNCHANGED <<orders, clock>>

\* Transition, up to the UPDATE: Get reads the row and the table is asked.
\* A missing row or a forbidden edge returns an error and changes nothing.
BeginTransition(c, o, next) ==
  /\ MayStart(c, o)
  /\ Exists(o)
  /\ CanTransitionTo(orders[o].status, next)
  /\ ocalls' = [ocalls EXCEPT ![c] =
       [op |-> "transition", id |-> o, next |-> next,
        row |-> orders[o], since |-> clock]]
  /\ UNCHANGED <<orders, clock>>

\* The order as the call writes it back, stamped with the time now.
Stamped(row, next, now) ==
  [row EXCEPT !.status       = next,
              !.assigned_at  = IF next = "assigned"  THEN now ELSE @,
              !.picked_up_at = IF next = "picked_up" THEN now ELSE @,
              !.delivered_at = IF next = "delivered" THEN now ELSE @]

\* A mutant of TransitionUpdate: it writes the status and its own timestamp
\* into the row as it is now, instead of the whole row that was read.
MutTransitionUpdate(c) ==
  /\ ocalls[c].op = "transition"
  /\ \E now \in ocalls[c].since .. clock :
       orders' = [orders EXCEPT ![ocalls[c].id] =
                    Stamped(@, ocalls[c].next, now)]
  /\ Return(c)
  /\ UNCHANGED clock

\* A mutant of TransitionUpdate: the UPDATE lists vehicle_id too.
MutWritesVehicle(c) ==
  /\ ocalls[c].op = "transition"
  /\ \E now \in ocalls[c].since .. clock :
       orders' = [orders EXCEPT ![ocalls[c].id] =
                    Stamped(ocalls[c].row, ocalls[c].next, now)]
  /\ Return(c)
  /\ UNCHANGED clock

\* The UPDATE of Transition.  time.Now() was read after Get.
TransitionUpdate(c) ==
  /\ ocalls[c].op = "transition"
  /\ \E now \in ocalls[c].since .. clock :
       LET o == ocalls[c].id
       IN  orders' = [orders EXCEPT ![o] =
             [Stamped(ocalls[c].row, ocalls[c].next, now)
                EXCEPT !.vehicle_id = orders[o].vehicle_id]]
  /\ Return(c)
  /\ UNCHANGED clock

\* Assign is called; it checks nothing.
BeginAssign(c, o, v) ==
  /\ MayStart(c, o)
  /\ Exists(o)
  /\ ocalls' = [ocalls EXCEPT ![c] =
       [op |-> "assign", id |-> o, vehicle |-> v, since |-> clock]]
  /\ UNCHANGED <<orders, clock>>

AssignedRow(row, v, now) ==
  [row EXCEPT !.status = "assigned", !.vehicle_id = v, !.assigned_at = now]

\* The UPDATE of Assign.
AssignUpdate(c) ==
  /\ ocalls[c].op = "assign"
  /\ \E now \in ocalls[c].since .. clock :
       orders' = [orders EXCEPT ![ocalls[c].id] =
                    AssignedRow(@, ocalls[c].vehicle, now)]
  /\ Return(c)
  /\ UNCHANGED clock

\* The UPDATE fails, or its context is cancelled, and the table is as before.
UpdateFails(c) ==
  /\ ocalls[c] # NoCall
  /\ Return(c)
  /\ UNCHANGED <<orders, clock>>

-----------------------------------------------------------------------------

OrderNext ==
  \/ Tick
  \/ \E o \in Orders : Create(o)
  \/ \E c \in Callers :
       \/ \E o \in Orders, next \in OrderStatus : BeginTransition(c, o, next)
       \/ \E o \in Orders, v \in Vehicles : BeginAssign(c, o, v)
       \/ TransitionUpdate(c)
       \/ AssignUpdate(c)
       \/ UpdateFails(c)

OrderSpec == OrderInit /\ [][OrderNext]_orderVars

-----------------------------------------------------------------------------

\* The timestamps a row must carry for its status, in order.
TimelineOK(row) ==
  /\ row.status \in {"assigned", "picked_up", "delivered", "failed"}
       => row.assigned_at # 0
  /\ row.status \in {"picked_up", "delivered"}
       => row.assigned_at <= row.picked_up_at
  /\ row.status = "delivered" => row.picked_up_at <= row.delivered_at

\* However calls interleave, and whichever of them loses its update, the row
\* that is left tells one consistent story: an order past assignment has been
\* assigned, and assignment, pickup and delivery are stamped in that order.
\* It is what makes the lost updates of Transition and Assign harmless to the
\* timestamps (they are written from one snapshot together with the status).
Timeline == \A o \in Orders : TimelineOK(orders[o])

=============================================================================
