----------------------------- MODULE OrderModel -----------------------------
(***************************************************************************)
(* The order status machine of internal/model/order.go: the order ids, the *)
(* six statuses and the table of allowed transitions.                      *)
(***************************************************************************)

CONSTANT Orders   \* order ids: the uuids that Create can draw

OrderStatus ==
  {"pending", "assigned", "picked_up", "delivered", "cancelled", "failed"}

\* The table validTransitions as a set of edges.
ValidTransitions ==
  { <<"pending",   "assigned">>,  <<"pending",   "cancelled">>,
    <<"assigned",  "picked_up">>, <<"assigned",  "cancelled">>,
    <<"assigned",  "failed">>,    <<"picked_up", "delivered">>,
    <<"picked_up", "failed">>,    <<"failed",    "pending">> }

\* An unknown current status allows nothing, as in the code.
CanTransitionTo(status, next) == <<status, next>> \in ValidTransitions

\* The statuses whose row in the table is empty.
Terminal == {"delivered", "cancelled"}

=============================================================================
