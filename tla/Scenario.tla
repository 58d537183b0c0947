------------------------------ MODULE Scenario ------------------------------
(***************************************************************************)
(* The clients that make orders by the batch: RunScenario and its monitor  *)
(* (internal/simulation/manager.go), POST /api/sim/order and               *)
(* POST /api/sim/batch, and the script cmd/test-scenario.                  *)
(*                                                                         *)
(* Between two of their steps the rest of the system does to the orders    *)
(* what OrderLifecycle allows.  How RunScenario starts the fleet is        *)
(* SimManager's business; here the vehicles are running.                   *)
(***************************************************************************)
EXTENDS OrderLifecycle, Naturals, Sequences, FiniteSets

CONSTANTS
  Clients,
  Batch,     \* Batch[h]: how many orders client h is to create
  Kind,      \* Kind[h]: "scenario", "batch" or "script"
  Retries    \* TRUE: a failed order may be made pending again

ASSUME ScenarioAssumption ==
  /\ Batch \in [Clients -> Nat]
  /\ Kind \in [Clients -> {"scenario", "batch", "script"}]
  /\ Retries \in BOOLEAN

VARIABLES
  step,        \* step[h]: where client h is
  left,        \* left[h]: orders it has still to create
  made,        \* made[h]: the orders it has created
  next,        \* next[h]: the position in made[h] it comes to next
  delivered,   \* delivered[h], failed[h]: the counters of a round
  failed,
  late,        \* late[h]: the monitor's five minutes are over
  report       \* report[h]: its last word

clientVars == <<step, left, made, next, delivered, failed, late, report>>
scenarioVars == <<status, clientVars>>

ScenarioTypeOK ==
  /\ status \in [Orders -> OrderStatus \cup {"absent"}]
  /\ step \in [Clients -> {"create", "dispatch", "wait", "scan", "done"}]
  /\ left \in [Clients -> Nat]
  /\ made \in [Clients -> Seq(Orders)]
  /\ next \in [Clients -> Nat \ {0}]
  /\ \A h \in Clients : next[h] <= Len(made[h]) + 1
  /\ delivered \in [Clients -> Nat]
  /\ failed \in [Clients -> Nat]
  /\ late \in [Clients -> BOOLEAN]
  /\ report \in [Clients -> {"none", "complete", "late"}]

ScenarioInit ==
  /\ Init
  /\ step = [h \in Clients |-> "create"]
  /\ left = Batch
  /\ made = [h \in Clients |-> <<>>]
  /\ next = [h \in Clients |-> 1]
  /\ delivered = [h \in Clients |-> 0]
  /\ failed = [h \in Clients |-> 0]
  /\ late = [h \in Clients |-> FALSE]
  /\ report = [h \in Clients |-> "none"]

Goto(h, place) == step' = [step EXCEPT ![h] = place]

-----------------------------------------------------------------------------
(* Creating and dispatching.                                               *)

\* A mutant of CreateOrder: one order too many.
MutCreateOrder(h) ==
  /\ step[h] = "create"
  /\ left' = [left EXCEPT ![h] = @ - 1]
  /\ \E o \in Orders : Create(o) /\ made' = [made EXCEPT ![h] = Append(@, o)]
  /\ UNCHANGED <<step, next, delivered, failed, late, report>>

\* CreateRandomOrder, or POST /api/orders; a failure is skipped.  The batch
\* handler dispatches an order before it creates the next.
CreateOrder(h) ==
  /\ step[h] = "create"
  /\ left[h] > 0
  /\ left' = [left EXCEPT ![h] = @ - 1]
  /\ \/ /\ \E o \in Orders :
             Create(o) /\ made' = [made EXCEPT ![h] = Append(@, o)]
        /\ IF Kind[h] = "batch" THEN Goto(h, "dispatch") ELSE UNCHANGED step
     \/ UNCHANGED <<status, made, step>>
  /\ UNCHANGED <<next, delivered, failed, late, report>>

\* The last creation is behind.
AllCreated(h) ==
  /\ step[h] = "create"
  /\ left[h] = 0
  /\ Goto(h, IF Kind[h] = "batch" THEN "done" ELSE "dispatch")
  /\ UNCHANGED <<status, left, made, next, delivered, failed, late, report>>

\* DispatchOrder, which finds the order pending or fails; an error is only
\* told, and it may come after the order was assigned.  With auto_dispatch
\* off nothing is tried, which leaves the orders as a failure does.
DispatchNext(h) ==
  /\ step[h] = "dispatch"
  /\ next[h] <= Len(made[h])
  /\ next' = [next EXCEPT ![h] = @ + 1]
  /\ \/ /\ status[made[h][next[h]]] = "pending"
        /\ status' = [status EXCEPT ![made[h][next[h]]] = "assigned"]
     \/ UNCHANGED status
  /\ IF Kind[h] = "batch" THEN Goto(h, "create") ELSE UNCHANGED step
  /\ UNCHANGED <<left, made, delivered, failed, late, report>>

\* Every order was tried once; the monitor starts, or the script waits.
AllDispatched(h) ==
  /\ step[h] = "dispatch"
  /\ next[h] > Len(made[h])
  /\ Goto(h, "wait")
  /\ UNCHANGED <<status, left, made, next, delivered, failed, late, report>>

-----------------------------------------------------------------------------
(* Watching: a round reads one order after the other.                      *)

\* A mutant of BeginRound: the counters live outside the loop.
MutBeginRound(h) ==
  /\ step[h] = "wait"
  /\ Goto(h, "scan")
  /\ next' = [next EXCEPT ![h] = 1]
  /\ UNCHANGED <<status, left, made, delivered, failed, late, report>>

\* The ticker of the monitor fires; the script's wait is over.
BeginRound(h) ==
  /\ step[h] = "wait"
  /\ Goto(h, "scan")
  /\ next' = [next EXCEPT ![h] = 1]
  /\ delivered' = [delivered EXCEPT ![h] = 0]
  /\ failed' = [failed EXCEPT ![h] = 0]
  /\ UNCHANGED <<status, left, made, late, report>>

\* Get; an order that cannot be read counts for nothing.
CountOne(h) ==
  /\ step[h] = "scan"
  /\ next[h] <= Len(made[h])
  /\ next' = [next EXCEPT ![h] = @ + 1]
  /\ LET s == status[made[h][next[h]]]
     IN  \/ /\ delivered' = [delivered EXCEPT ![h] =
                               IF s = "delivered" THEN @ + 1 ELSE @]
            /\ failed' = [failed EXCEPT ![h] =
                            IF s \in {"failed", "cancelled"} THEN @ + 1 ELSE @]
         \/ UNCHANGED <<delivered, failed>>
  /\ UNCHANGED <<status, step, left, made, late, report>>

\* A mutant of EndRound: the deadline is never looked at.
MutEndRound(h) ==
  /\ step[h] = "scan"
  /\ next[h] > Len(made[h])
  /\ \/ /\ Kind[h] = "script" \/ delivered[h] + failed[h] = Len(made[h])
        /\ Goto(h, "done")
     \/ /\ Kind[h] # "script" /\ delivered[h] + failed[h] # Len(made[h])
        /\ Goto(h, "wait")
  /\ UNCHANGED <<status, left, made, next, delivered, failed, late, report>>

\* All orders done: the scenario is complete.  Otherwise the monitor waits for
\* the next round, unless it is late.  The script reads once.
EndRound(h) ==
  /\ step[h] = "scan"
  /\ next[h] > Len(made[h])
  /\ IF Kind[h] = "script"
     THEN Goto(h, "done") /\ UNCHANGED report
     ELSE IF delivered[h] + failed[h] = Len(made[h])
     THEN Goto(h, "done") /\ report' = [report EXCEPT ![h] = "complete"]
     ELSE IF late[h]
     THEN Goto(h, "done") /\ report' = [report EXCEPT ![h] = "late"]
     ELSE Goto(h, "wait") /\ UNCHANGED report
  /\ UNCHANGED <<status, left, made, next, delivered, failed, late>>

\* time.Now() passes the deadline.
Deadline(h) ==
  /\ step[h] \in {"wait", "scan"}
  /\ ~late[h]
  /\ late' = [late EXCEPT ![h] = TRUE]
  /\ UNCHANGED <<status, step, left, made, next, delivered, failed, report>>

ClientStep(h) ==
  \/ CreateOrder(h)
  \/ AllCreated(h)
  \/ DispatchNext(h)
  \/ AllDispatched(h)
  \/ BeginRound(h)
  \/ CountOne(h)
  \/ EndRound(h)

\* Vehicles report progress, other clients dispatch, cancel and fail orders.
Elsewhere(o) ==
  /\ Move(o)
  /\ Retries \/ status[o] # "failed"
  /\ UNCHANGED clientVars

ScenarioNext ==
  \/ \E h \in Clients : ClientStep(h) \/ Deadline(h)
  \/ \E o \in Orders : Elsewhere(o)

ScenarioSpec == ScenarioInit /\ [][ScenarioNext]_scenarioVars

\* The clients run, their calls return, and time goes by.
FairScenarioSpec ==
  /\ ScenarioSpec
  /\ \A h \in Clients :
       WF_scenarioVars(ClientStep(h)) /\ WF_scenarioVars(Deadline(h))

-----------------------------------------------------------------------------

MadeWith(h, statuses) ==
  Cardinality({i \in DOMAIN made[h] : status[made[h][i]] \in statuses})

\* "全流程完成！%d 单已送达，%d 单失败" (manager.go:324): although a round reads
\* the orders one after the other while they change, and some cannot be read,
\* the numbers in the last report are those of the table, and stay so.  Needs
\* nobody to make a failed order pending again.
ReportTrue ==
  \A h \in Clients :
    report[h] = "complete" =>
      /\ delivered[h] = MadeWith(h, {"delivered"})
      /\ failed[h] = MadeWith(h, {"failed", "cancelled"})
      /\ delivered[h] + failed[h] = Len(made[h])

\* Every client comes to its end, whatever becomes of the orders: a monitor
\* that can read none of them, or waits for an order nobody touches, gives up.
ClientsFinish == \A h \in Clients : <>(step[h] = "done")

=============================================================================
