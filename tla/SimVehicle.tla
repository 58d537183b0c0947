----------------------------- MODULE SimVehicle -----------------------------
(***************************************************************************)
(* The vehicles of internal/simulation/manager.go: the loop that ticks     *)
(* every three seconds, the command callback, the messages they publish    *)
(* and the PUT requests they send about their order.                       *)
(*                                                                         *)
(* A tick and a command exclude each other (vs.mu), so each is one action; *)
(* the telemetry that follows a tick touches nothing that a command does.  *)
(* Positions are left out: leg is the number of moves to the target.       *)
(* Battery levels are integers, and one move drains one of Drains.         *)
(*                                                                         *)
(* inbox[v] and commands[v] hold what the broker has not delivered yet.    *)
(* The rest of the server is the environment here: Receive, Send, Answer.  *)
(* Fleet puts the real one in its place, and lets messages get lost.       *)
(***************************************************************************)
EXTENDS Integers, Sequences, OrderModel, VehicleModel

CONSTANTS
  NoOrder,           \* the empty order id of a vehicle
  MaxLeg,            \* bound on the moves between two places
  MaxQueue,          \* bound on what the broker holds for the server
  StartBattery,      \* the levels a vehicle starts with
  FullBattery,       \* charging ends here: 95
  DispatchBattery,   \* the dispatcher skips vehicles below: 20
  LowBattery,        \* a free vehicle charges below: 15
  Charge,            \* gained by one tick of charging
  Drains             \* lost by one tick of driving

ASSUME SimAssumption ==
  /\ NoOrder \notin Orders
  /\ MaxLeg \in Nat
  /\ MaxQueue \in Nat
  /\ Drains \subseteq Nat
  /\ {FullBattery, DispatchBattery, LowBattery, Charge} \subseteq Nat
  /\ StartBattery \subseteq Nat
  /\ LowBattery < DispatchBattery
  /\ LowBattery + Charge < FullBattery
  /\ \A drain \in Drains : drain < Charge

VARIABLES
  sim,        \* sim[v]: the vehicleState of v
  inbox,      \* inbox[v]: messages of v on their way to the server
  commands,   \* commands[v]: orders on their way to v
  requests,   \* the PUT requests on their way to the server
  heard       \* heard[v]: the last status of v that the server received

simVars == <<sim, inbox, commands, requests, heard>>

\* The phase of a vehicle without an order, the zero value of a Go string.
NoPhase == ""

Phases == {NoPhase, "to_pickup", "to_dropoff"}

VehicleState ==
  [phase   : Phases,
   status  : {"idle", "en_route", "delivering", "charging"},
   order   : Orders \cup {NoOrder},
   leg     : 0 .. MaxLeg,
   battery : Nat]

Message ==
  [topic : {"status"},    says : {"idle", "delivering", "charging"}]
    \cup
  [topic : {"telemetry"}, says : {"low", "enough"}]

Request == [order : Orders, status : {"picked_up", "delivered"}]

Says(status) == [topic |-> "status", says |-> status]

\* A vehicle as Start makes it, with what is left in its battery.
NewVehicle(level) ==
  [phase |-> NoPhase, status |-> "idle", order |-> NoOrder, leg |-> 0,
   battery |-> level]

SimInit ==
  /\ \E level \in [Vehicles -> StartBattery] :
       sim = [v \in Vehicles |-> NewVehicle(level[v])]
  /\ inbox = [v \in Vehicles |-> <<Says("idle")>>]
  /\ commands = [v \in Vehicles |-> <<>>]
  /\ requests = {}
  /\ heard = [v \in Vehicles |-> BlankStatus]

-----------------------------------------------------------------------------
(* One tick.                                                               *)

\* A mutant of GoesCharging: the level before the drain is looked at.
MutGoesCharging(s, d) ==
  s.battery < LowBattery /\ s.status # "charging" /\ s.phase = NoPhase

\* The battery after a drain of d, which may be below zero until the tick
\* ends: a free vehicle that is low begins to charge.
GoesCharging(s, d) ==
  s.battery - d < LowBattery /\ s.status # "charging" /\ s.phase = NoPhase

\* A mutant of ChargeStep: the level is capped one below the end of charging.
MutChargeStep(s) ==
  IF s.status # "charging" THEN s
  ELSE IF s.battery >= FullBattery
       THEN [s EXCEPT !.status = "idle"]
       ELSE [s EXCEPT !.battery =
               IF @ + Charge < FullBattery THEN @ + Charge
                                           ELSE FullBattery - 1]

ChargeStep(s) ==
  IF s.status # "charging" THEN s
  ELSE IF s.battery + Charge >= FullBattery
       THEN [s EXCEPT !.battery = FullBattery, !.status = "idle"]
       ELSE [s EXCEPT !.battery = @ + Charge]

NotNegative(s) == [s EXCEPT !.battery = IF @ < 0 THEN 0 ELSE @]

Telemetry(s) ==
  [topic |-> "telemetry",
   says  |-> IF s.battery < DispatchBattery THEN "low" ELSE "enough"]

\* The rest of a tick, once the vehicle has moved to s, saying said: battery,
\* charging, and the telemetry that follows.
EndTick(v, s, said, drain) ==
  LET tired   == GoesCharging(s, drain)
      plugged == [s EXCEPT !.battery = @ - drain,
                           !.status  = IF tired THEN "charging" ELSE @]
      charged == ChargeStep(plugged)
      after   == NotNegative(charged)
  IN  /\ sim' = [sim EXCEPT ![v] = after]
      /\ inbox' = [inbox EXCEPT ![v] =
           @ \o said
             \o (IF tired THEN <<Says("charging")>> ELSE <<>>)
             \o (IF charged.status # plugged.status
                 THEN <<Says("idle")>> ELSE <<>>)
             \o <<Telemetry(after)>>]
      /\ UNCHANGED <<commands, heard>>

MayTick(v) == Len(inbox[v]) < MaxQueue

\* moveToward, the target not reached.
Drive(v) ==
  /\ sim[v].phase # NoPhase
  /\ sim[v].leg > 0
  /\ \E drain \in Drains :
       EndTick(v, [sim[v] EXCEPT !.leg = @ - 1], <<>>, drain)
  /\ UNCHANGED requests

\* A mutant of PickUp: the phase is not advanced with the target.
MutPickUp(v) ==
  /\ sim[v].phase = "to_pickup"
  /\ sim[v].leg = 0
  /\ \E leg \in 0 .. MaxLeg :
       EndTick(v, [sim[v] EXCEPT !.leg = leg, !.status = "delivering"],
               <<Says("delivering")>>, 0)
  /\ requests' = requests \cup
       {[order |-> sim[v].order, status |-> "picked_up"]}

\* At the pickup; a vehicle that has just arrived stands still.
PickUp(v) ==
  /\ sim[v].phase = "to_pickup"
  /\ sim[v].leg = 0
  /\ \E leg \in 0 .. MaxLeg :
       EndTick(v, [sim[v] EXCEPT !.phase = "to_dropoff", !.leg = leg,
                                 !.status = "delivering"],
               <<Says("delivering")>>, 0)
  /\ requests' = requests \cup
       {[order |-> sim[v].order, status |-> "picked_up"]}

\* A mutant of Deliver: the vehicle does not say that it is free.
MutDeliver(v) ==
  /\ sim[v].phase = "to_dropoff"
  /\ sim[v].leg = 0
  /\ EndTick(v, [sim[v] EXCEPT !.phase = NoPhase, !.order = NoOrder,
                               !.status = "idle"], <<>>, 0)
  /\ requests' = requests \cup
       {[order |-> sim[v].order, status |-> "delivered"]}

\* At the dropoff.
Deliver(v) ==
  /\ sim[v].phase = "to_dropoff"
  /\ sim[v].leg = 0
  /\ EndTick(v, [sim[v] EXCEPT !.phase = NoPhase, !.order = NoOrder,
                               !.status = "idle"], <<Says("idle")>>, 0)
  /\ requests' = requests \cup
       {[order |-> sim[v].order, status |-> "delivered"]}

\* No order: the vehicle cruises, also while it charges.
Cruise(v) ==
  /\ sim[v].phase = NoPhase
  /\ \E drain \in Drains : EndTick(v, sim[v], <<>>, drain)
  /\ UNCHANGED requests

SimTick(v) ==
  /\ MayTick(v)
  /\ Drive(v) \/ PickUp(v) \/ Deliver(v) \/ Cruise(v)

\* A mutant of OnCommand: the pickup is reported when the order is taken.
MutOnCommand(v) ==
  /\ commands[v] # <<>>
  /\ \E leg \in 0 .. MaxLeg :
       sim' = [sim EXCEPT ![v] =
         [@ EXCEPT !.order = Head(commands[v]), !.phase = "to_pickup",
                   !.leg = leg, !.status = "en_route"]]
  /\ commands' = [commands EXCEPT ![v] = Tail(@)]
  /\ requests' = requests \cup
       {[order |-> Head(commands[v]), status |-> "picked_up"]}
  /\ UNCHANGED <<inbox, heard>>

\* onCommand: whatever the vehicle is doing, it takes the new order.
OnCommand(v) ==
  /\ commands[v] # <<>>
  /\ \E leg \in 0 .. MaxLeg :
       sim' = [sim EXCEPT ![v] =
         [@ EXCEPT !.order = Head(commands[v]), !.phase = "to_pickup",
                   !.leg = leg, !.status = "en_route"]]
  /\ commands' = [commands EXCEPT ![v] = Tail(@)]
  /\ UNCHANGED <<inbox, requests, heard>>

-----------------------------------------------------------------------------
(* The server, as its vehicles see it.                                     *)

\* The server takes the next message of v.
Receive(v) ==
  /\ inbox[v] # <<>>
  /\ inbox' = [inbox EXCEPT ![v] = Tail(@)]
  /\ heard' = [heard EXCEPT ![v] =
       IF Head(inbox[v]).topic = "status" THEN Head(inbox[v]).says ELSE @]
  /\ UNCHANGED <<sim, commands, requests>>

\* PublishCommand.
Send(v, o) ==
  /\ commands' = [commands EXCEPT ![v] = Append(@, o)]
  /\ UNCHANGED <<sim, inbox, requests, heard>>

\* No vehicle has the order, or is about to get it.
NobodyHas(o) ==
  \A v \in Vehicles :
    sim[v].order # o /\ \A i \in DOMAIN commands[v] : commands[v][i] # o

\* A handler takes a PUT request.
Answer(r) ==
  /\ requests' = requests \ {r}
  /\ UNCHANGED <<sim, inbox, commands, heard>>

SimNext ==
  \/ \E v \in Vehicles :
       \/ SimTick(v)
       \/ OnCommand(v)
       \/ Receive(v)
       \/ \E o \in Orders : NobodyHas(o) /\ Send(v, o)
  \/ \E r \in requests : Answer(r)

SimSpec == SimInit /\ [][SimNext]_simVars

\* The ticker fires while the loop runs, and the server listens.
FairSimSpec ==
  /\ SimSpec
  /\ \A v \in Vehicles : WF_simVars(SimTick(v)) /\ WF_simVars(Receive(v))

-----------------------------------------------------------------------------

SimTypeOK ==
  /\ sim \in [Vehicles -> VehicleState]
  /\ inbox \in [Vehicles -> Seq(Message)]
  /\ commands \in [Vehicles -> Seq(Orders)]
  /\ requests \subseteq Request
  /\ heard \in [Vehicles -> {BlankStatus, "idle", "delivering", "charging"}]

\* A free vehicle that is not charging never ends a tick below the level at
\* which it should charge, even after a job that ran the battery down, and it
\* stops charging only when it is full: it does not bounce at the threshold.
ChargesInTime ==
  \A v \in Vehicles :
    /\ sim[v].status = "idle" => sim[v].battery >= LowBattery
    /\ sim[v].status = "charging" => sim[v].battery < FullBattery

\* The last status in queue, or before when there is none.
LastSaid(queue, before) ==
  LET said == {i \in DOMAIN queue : queue[i].topic = "status"}
  IN  IF said = {} THEN before
      ELSE queue[CHOOSE i \in said : \A j \in said : j <= i].says

\* The last status of v that the server has received or is about to.
LastWord(v) == LastSaid(inbox[v], heard[v])

\* Statuses are published when they change and never again, so the server
\* knows a vehicle only as long as the last one it was sent is true.  Nobody
\* publishes en_route, which the server sets by itself.  Needs every message
\* to arrive.
Honest ==
  \A v \in Vehicles :
    sim[v].status # "en_route" => LastWord(v) = sim[v].status

\* A charging vehicle comes back, unless an order takes it away first: a tick
\* charges more than its cruising drains.
ReturnsToService ==
  \A v \in Vehicles :
    sim[v].status = "charging" ~> sim[v].status # "charging"

\* A vehicle is done with every order it takes, delivered or replaced.
FinishesOrder ==
  \A v \in Vehicles, o \in Orders :
    sim[v].order = o ~> sim[v].order # o

=============================================================================
