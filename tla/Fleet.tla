------------------------------- MODULE Fleet -------------------------------
(***************************************************************************)
(* The whole loop: the dispatch engine and its two services, the broker,   *)
(* and the vehicles of the in-process simulator, which report over MQTT    *)
(* and send their order's progress as PUT requests.                        *)
(*                                                                         *)
(* The fleet has just been started (Manager.Start): every vehicle is       *)
(* registered and its first telemetry written, and its first "idle" is on  *)
(* the way.  The paho client runs the callbacks of the server one after    *)
(* another, so one worker stands for them.                                 *)
(***************************************************************************)
EXTENDS DispatchEngine, SimVehicle

CONSTANTS
  Callback,    \* the goroutine of the server's MQTT callbacks
  Restarted,   \* TRUE: the fleet ran before, and its "offline" is cached
  Expires,     \* TRUE: a cached vehicle may expire between two reports
  InOrder,     \* TRUE: no request overtakes an earlier one about its order
  Loses,       \* TRUE: messages and requests may be lost
  Cancels,     \* TRUE: a client may cancel an order
  LongCharge,  \* TRUE: a charge takes longer than a dispatch
  Crashes      \* TRUE: the server may die and be started again

ASSUME FleetAssumption ==
  /\ Callback \in Workers \ Dispatchers
  /\ Restarted \in BOOLEAN
  /\ {Expires, InOrder, Loses, Cancels, LongCharge, Crashes} \subseteq BOOLEAN
  /\ Reports = {"low", "enough"}
  /\ LowReports = {"low", NoReport}

fleetVars == <<vars, simVars>>

Offline == [status |-> "offline", report |-> NoReport]

\* What Start's UpdateTelemetry makes of the stored entry of a vehicle in
\* state s: "offline" becomes "idle", nothing cached a blank status.
Started(entry, s) ==
  [status |-> IF entry = Absent THEN BlankStatus ELSE HeardFrom(entry.status),
   report |-> Telemetry(s).says]

FleetInit ==
  /\ SimInit
  /\ OrderInit
  /\ db = [v \in Vehicles |-> Started(Offline, sim[v])]
  /\ cache = [v \in Vehicles |->
                Started(IF Restarted THEN Offline ELSE Absent, sim[v])]
  /\ vcalls = [w \in Workers |-> NoVehicleCall]
  /\ mu = NoOne
  /\ pc = [d \in Dispatchers |-> "idle"]
  /\ job = [d \in Dispatchers |-> NoJob]
  /\ fresh = [o \in Orders |-> FALSE]
  /\ booked = [v \in Vehicles |-> FALSE]

-----------------------------------------------------------------------------

\* DispatchOrder, PublishCommand included.
Dispatch(d) ==
  \/ /\ (\E o \in Orders : DispatchOrder(d, o)) \/ DispatchStep(d)
     /\ pc[d] # "publish"
     /\ UNCHANGED simVars
  \/ /\ Publish(d)
     /\ Send(job[d].best, job[d].order)

\* The callbacks: a message is taken once the one before is dealt with.
TakeStatus(v) ==
  /\ inbox[v] # <<>>
  /\ Head(inbox[v]).topic = "status"
  /\ SetStatus(Callback, v, Head(inbox[v]).says)
  /\ booked' = [booked EXCEPT ![v] = @ /\ Head(inbox[v]).says # "idle"]
  /\ Receive(v)
  /\ UNCHANGED <<orderVars, engineVars, fresh>>

TakeTelemetry(v) ==
  /\ inbox[v] # <<>>
  /\ Head(inbox[v]).topic = "telemetry"
  /\ UpdateTelemetry(Callback, v, Head(inbox[v]).says)
  /\ Receive(v)
  /\ UNCHANGED <<orderVars, engineVars, historyVars>>

FinishCallback ==
  /\ CallStep(Callback)
  /\ UNCHANGED <<orderVars, engineVars, historyVars, simVars>>

\* The report of the pickup of o has not been dealt with.
PickupPending(o) ==
  \/ [order |-> o, status |-> "picked_up"] \in requests
  \/ ~Unclaimed(o)

\* PUT /api/orders/{id}/status from a vehicle; an edge that is not in the
\* table is refused, and the vehicle does not look at the answer.
ServeRequest(c, r) ==
  /\ ocalls[c] = NoCall
  /\ OneCallPerOrder => Unclaimed(r.order)
  /\ InOrder /\ r.status = "delivered" => ~PickupPending(r.order)
  /\ \/ BeginTransition(c, r.order, r.status)
     \/ /\ ~CanTransitionTo(orders[r.order].status, r.status)
        /\ UNCHANGED orderVars
  /\ Answer(r)
  /\ UNCHANGED <<vehicleVars, engineVars, historyVars>>

\* PUT /api/orders/{id}/status from a client: it changes its mind.
ClientCancels(c) ==
  /\ Cancels
  /\ \E o \in Orders :
       /\ BeginTransition(c, o, "cancelled")
       /\ OneCallPerOrder => ~Considered(o)
  /\ UNCHANGED <<vehicleVars, engineVars, historyVars, simVars>>

FinishRequest(c) ==
  /\ TransitionUpdate(c) \/ (DBFaults /\ UpdateFails(c))
  /\ UNCHANGED <<vehicleVars, engineVars, historyVars, simVars>>

\* A clean session keeps no message for a client that is away; a request fails;
\* callUpdateOrderStatus does not try again.
Lose(v) ==
  /\ Loses
  /\ \/ /\ inbox[v] # <<>>
        /\ inbox' = [inbox EXCEPT ![v] = Tail(@)]
        /\ UNCHANGED <<commands, requests>>
     \/ /\ commands[v] # <<>>
        /\ commands' = [commands EXCEPT ![v] = Tail(@)]
        /\ UNCHANGED <<inbox, requests>>
     \/ /\ \E r \in requests : requests' = requests \ {r}
        /\ UNCHANGED <<inbox, commands>>
  /\ UNCHANGED <<sim, heard>>

\* Nothing is on the way between v and the server, in either direction, and
\* nobody has chosen v.
Silent(v) ==
  /\ inbox[v] = <<>>
  /\ commands[v] = <<>>
  /\ Quiet(v)
  /\ \A d \in Dispatchers :
       pc[d] \in {"assign", "status", "setting", "publish"} => job[d].best # v

\* The loop of v.  A dispatch that saw v idle just before it began to charge
\* is over when the charge is.
FleetTick(v) ==
  /\ SimTick(v)
  /\ LongCharge /\ sim[v].status = "charging" /\ sim'[v].status = "idle" =>
       Silent(v)
  /\ UNCHANGED vars

\* The server dies, and with it the fleet, the calls and the mutex; PostgreSQL
\* and Redis stay.  It is started again, and the fleet with it (Manager.Start).
Crash ==
  /\ Crashes
  /\ \E level \in [Vehicles -> StartBattery] :
       sim' = [v \in Vehicles |-> NewVehicle(level[v])]
  /\ inbox' = [v \in Vehicles |-> <<Says("idle")>>]
  /\ commands' = [v \in Vehicles |-> <<>>]
  /\ requests' = {}
  /\ db' = [v \in Vehicles |-> Started(db[v], sim'[v])]
  /\ cache' = [v \in Vehicles |-> Started(cache[v], sim'[v])]
  /\ ocalls' = [c \in Callers |-> NoCall]
  /\ vcalls' = [w \in Workers |-> NoVehicleCall]
  /\ mu' = NoOne
  /\ pc' = [d \in Dispatchers |-> "idle"]
  /\ job' = [d \in Dispatchers |-> NoJob]
  /\ UNCHANGED <<orders, clock, historyVars, heard>>

FleetNext ==
  \/ \E d \in Dispatchers : Dispatch(d)
  \/ \E o \in Orders : CreateOrder(o) /\ UNCHANGED simVars
  \/ \E v \in Vehicles : TakeStatus(v) \/ TakeTelemetry(v)
  \/ FinishCallback
  \/ \E c \in Callers \ Dispatchers :
       \/ \E r \in requests : ServeRequest(c, r)
       \/ ClientCancels(c)
       \/ FinishRequest(c)
  \/ \E v \in Vehicles :
       FleetTick(v) \/ ((OnCommand(v) \/ Lose(v)) /\ UNCHANGED vars)
  \/ Crash
  \/ /\ Expires
     /\ \E v \in Vehicles : Expire(v)
     /\ UNCHANGED <<orderVars, engineVars, historyVars, simVars>>

FleetSpec == FleetInit /\ [][FleetNext]_fleetVars

\* Goroutines run, a mutex is not waited for without end, and where calls take
\* turns each gets its turn; the tickers fire, and the vehicles take their
\* commands.
FairFleetSpec ==
  /\ FleetSpec
  /\ \A d \in Dispatchers : SF_fleetVars(pc[d] # "idle" /\ Dispatch(d))
  /\ WF_fleetVars(FinishCallback)
  /\ \A v \in Vehicles :
       /\ SF_fleetVars(TakeStatus(v) \/ TakeTelemetry(v))
       /\ WF_fleetVars(FleetTick(v))
       /\ WF_fleetVars(OnCommand(v) /\ UNCHANGED vars)
  /\ \A c \in Callers \ Dispatchers : WF_fleetVars(FinishRequest(c))
  /\ \A o \in Orders :
       SF_fleetVars(\E c \in Callers \ Dispatchers, r \in requests :
                      r.order = o /\ ServeRequest(c, r))

-----------------------------------------------------------------------------

FleetTypeOK == EngineTypeOK /\ SimTypeOK

\* A command finds a free vehicle: no order is ever replaced on the road, and
\* no vehicle is sent a second order before it took the first.
OneJobAtATime ==
  \A v \in Vehicles :
    commands[v] # <<>> => sim[v].phase = NoPhase /\ Len(commands[v]) = 1

\* The table is never ahead of the road, whatever is lost or overtaken: an
\* order is not picked up in the table while a vehicle is still on its way to
\* the pickup, nor delivered while a vehicle has it.
TableNotAhead ==
  \A o \in Orders :
    /\ orders[o].status \in {"picked_up", "delivered"} =>
         \A v \in Vehicles :
           /\ \A i \in DOMAIN commands[v] : commands[v][i] # o
           /\ sim[v].order = o => sim[v].phase = "to_dropoff"
    /\ orders[o].status = "delivered" =>
         \A v \in Vehicles : sim[v].order # o

\* When all is said, the server has the vehicle in the state it is in, in the
\* table and where the dispatcher looks: the blank status of a vehicle that is
\* new to the cache (vehicle/service.go:50) is gone with its first message.
\* Only a vehicle that began to charge while a dispatcher was choosing it is
\* thought to charge while it drives.
ServerKnows ==
  \A v \in Vehicles :
    Silent(v) =>
      /\ \/ db[v].status = sim[v].status
         \/ sim[v].status = "en_route" /\ db[v].status = "charging"
      /\ cache[v] # Absent => cache[v].status = db[v].status

\* "车辆将自动: 前往取货 → 确认取货 → 前往送达点 → 完成配送" (manager.go:281): an
\* order that was assigned is delivered in the end, and the table shows it.
EventuallyDelivered ==
  \A o \in Orders :
    orders[o].status = "assigned" ~> orders[o].status = "delivered"

=============================================================================
