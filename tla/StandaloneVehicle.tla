-------------------------- MODULE StandaloneVehicle --------------------------
(***************************************************************************)
(* The vehicles of cmd/simulator, a program of its own, with the MQTT      *)
(* clients at both ends.  They differ from those in the server             *)
(* (SimVehicle) in three ways: a progress request is made in the tick and  *)
(* with the vehicle's mutex held, so that a command has to wait for its    *)
(* answer; a vehicle below 15 percent stops to charge whatever it is       *)
(* doing; and it publishes also while its link is down.                    *)
(*                                                                         *)
(* Of the server there is what its vehicles can tell: the orders' statuses *)
(* (OrderLifecycle), what it last heard of a vehicle, and the one dispatch *)
(* that is waiting in PublishCommand with the engine's mutex held.  It     *)
(* never sends "cancel", the other branch of onCommand.                    *)
(***************************************************************************)
EXTENDS SimVehicle, MqttSession

CONSTANTS
  Server,    \* the server's client
  Fails      \* TRUE: a progress request may fail

ASSUME StandaloneAssumption ==
  /\ Server \notin Vehicles
  /\ Clients = Vehicles \cup {Server}
  /\ {Outages, Fails} \subseteq BOOLEAN

VARIABLES
  loop,        \* loop[v]: "waiting", or the request its tick waits for
  table,       \* table[o]: the status of o
  enough,      \* enough[v]: v's last telemetry promised enough battery
  publishing,  \* the order whose command PublishCommand is sending
  failed       \* history: orders with a request that failed

aloneVars ==
  <<simVars, sessionVars, loop, table, enough, publishing, failed>>

Command == [to : Vehicles, order : Orders]

StandaloneTypeOK ==
  /\ sim \in [Vehicles -> VehicleState]
  /\ inbox \in [Vehicles -> Seq(Message)]
  /\ commands \in [Vehicles -> Seq(Orders)]
  /\ requests \subseteq Request
  /\ heard \in [Vehicles ->
       {BlankStatus, "idle", "en_route", "delivering", "charging"}]
  /\ link \in [Clients -> {"up", "down"}]
  /\ subscribed \in [Clients -> BOOLEAN]
  /\ \A v \in Vehicles : outbox[v] \in Seq(Message)
  /\ outbox[Server] \in Seq(Command)
  /\ loop \in [Vehicles -> {"waiting", "picked_up", "delivered"}]
  /\ table \in [Orders -> OrderStatus]
  /\ enough \in [Vehicles -> BOOLEAN]
  /\ publishing \in Orders \cup {NoOrder}
  /\ failed \subseteq Orders

StandaloneInit ==
  /\ \E level \in [Vehicles -> StartBattery] :
       sim = [v \in Vehicles |-> NewVehicle(level[v])]
  /\ SessionInit([c \in Clients |->
                    IF c = Server THEN <<>> ELSE <<Says("idle")>>])
  /\ inbox = [v \in Vehicles |-> <<>>]
  /\ commands = [v \in Vehicles |-> <<>>]
  /\ requests = {}
  /\ heard = [v \in Vehicles |-> BlankStatus]
  /\ loop = [v \in Vehicles |-> "waiting"]
  /\ table = [o \in Orders |-> "pending"]
  /\ enough = [v \in Vehicles |-> TRUE]
  /\ publishing = NoOrder
  /\ failed = {}

serverVars == <<inbox, heard, table, enough, publishing, failed>>

-----------------------------------------------------------------------------
(* The vehicle.                                                            *)

\* The end of a tick that brought the vehicle to s, saying said: below the
\* level every tick says "charging", and the order, if any, is let go of.
FinishTick(v, s, said, drain) ==
  LET low     == s.battery - drain < LowBattery
      plugged == [s EXCEPT !.battery = @ - drain,
                           !.status = IF low THEN "charging" ELSE @,
                           !.phase  = IF low THEN NoPhase ELSE @,
                           !.leg    = IF low THEN 0 ELSE @]
      charged == ChargeStep(plugged)
      after   == NotNegative(charged)
  IN  /\ sim' = [sim EXCEPT ![v] = after]
      /\ Publish(v, said
           \o (IF low THEN <<Says("charging")>> ELSE <<>>)
           \o (IF charged.status # plugged.status THEN <<Says("idle")>>
                                                  ELSE <<>>)
           \o <<Telemetry(after)>>)
      /\ loop' = [loop EXCEPT ![v] = "waiting"]

\* A mutant of MoveOn: a vehicle without a target moves too.
MutMoveOn(v) ==
  /\ sim[v].phase # NoPhase => sim[v].leg > 0
  /\ \E drain \in Drains :
       FinishTick(v, [sim[v] EXCEPT !.leg = @ - 1], <<>>, drain)
  /\ UNCHANGED requests

\* moveToward, the target not reached, or a vehicle without a target.
MoveOn(v) ==
  /\ sim[v].phase # NoPhase => sim[v].leg > 0
  /\ \E drain \in Drains :
       FinishTick(v, [sim[v] EXCEPT !.leg = IF @ > 0 THEN @ - 1 ELSE 0],
                  <<>>, drain)
  /\ UNCHANGED requests

\* A mutant of ArriveAtPickup: the phase is not advanced with the target.
MutArriveAtPickup(v) ==
  /\ sim[v].phase = "to_pickup" /\ sim[v].leg = 0
  /\ \E leg \in 0 .. MaxLeg :
       sim' = [sim EXCEPT ![v] = [@ EXCEPT !.leg = leg,
                                           !.status = "delivering"]]
  /\ Publish(v, <<Says("delivering")>>)
  /\ requests' = requests \cup
       {[order |-> sim[v].order, status |-> "picked_up"]}
  /\ loop' = [loop EXCEPT ![v] = "picked_up"]

\* At the pickup: the status is published, then the server is told.
ArriveAtPickup(v) ==
  /\ sim[v].phase = "to_pickup" /\ sim[v].leg = 0
  /\ \E leg \in 0 .. MaxLeg :
       sim' = [sim EXCEPT ![v] = [@ EXCEPT !.phase = "to_dropoff",
                                           !.leg = leg,
                                           !.status = "delivering"]]
  /\ Publish(v, <<Says("delivering")>>)
  /\ requests' = requests \cup
       {[order |-> sim[v].order, status |-> "picked_up"]}
  /\ loop' = [loop EXCEPT ![v] = "picked_up"]

\* A mutant of ArriveAtDropoff: nobody waits for the answer.
MutArriveAtDropoff(v) ==
  /\ sim[v].phase = "to_dropoff" /\ sim[v].leg = 0
  /\ requests' = requests \cup
       {[order |-> sim[v].order, status |-> "delivered"]}
  /\ FinishTick(v, [sim[v] EXCEPT !.phase = NoPhase, !.order = NoOrder,
                                  !.status = "idle"], <<Says("idle")>>, 0)

\* At the dropoff: the server is told first.
ArriveAtDropoff(v) ==
  /\ sim[v].phase = "to_dropoff" /\ sim[v].leg = 0
  /\ requests' = requests \cup
       {[order |-> sim[v].order, status |-> "delivered"]}
  /\ loop' = [loop EXCEPT ![v] = "delivered"]
  /\ UNCHANGED <<sim, sessionVars>>

Tick(v) ==
  /\ loop[v] = "waiting"
  /\ Len(outbox[v]) < MaxQueue
  /\ MoveOn(v) \/ ArriveAtPickup(v) \/ ArriveAtDropoff(v)
  /\ UNCHANGED <<commands, serverVars>>

\* A mutant of Answered: a vehicle that is free again does not say so.
SilentAnswered(v) ==
  /\ loop[v] # "waiting"
  /\ [order |-> sim[v].order, status |-> loop[v]] \notin requests
  /\ IF loop[v] = "picked_up"
     THEN FinishTick(v, sim[v], <<>>, 0)
     ELSE FinishTick(v, [sim[v] EXCEPT !.phase = NoPhase, !.order = NoOrder,
                                       !.status = "idle"], <<>>, 0)
  /\ UNCHANGED <<commands, requests, serverVars>>

\* A mutant of Answered: a pickup has to be accepted.
StubbornAnswered(v) ==
  /\ loop[v] # "waiting"
  /\ [order |-> sim[v].order, status |-> loop[v]] \notin requests
  /\ IF loop[v] = "picked_up"
     THEN /\ table[sim[v].order] = "picked_up"
          /\ FinishTick(v, sim[v], <<>>, 0)
     ELSE FinishTick(v, [sim[v] EXCEPT !.phase = NoPhase, !.order = NoOrder,
                                       !.status = "idle"],
                     <<Says("idle")>>, 0)
  /\ UNCHANGED <<commands, requests, serverVars>>

\* The request was answered, or failed; nobody looks at the answer.
Answered(v) ==
  /\ loop[v] # "waiting"
  /\ [order |-> sim[v].order, status |-> loop[v]] \notin requests
  /\ IF loop[v] = "picked_up"
     THEN FinishTick(v, sim[v], <<>>, 0)
     ELSE FinishTick(v, [sim[v] EXCEPT !.phase = NoPhase, !.order = NoOrder,
                                       !.status = "idle"],
                     <<Says("idle")>>, 0)
  /\ UNCHANGED <<commands, requests, serverVars>>

\* onCommand waits for the mutex, which a tick keeps for its request.
TakeCommand(v) ==
  /\ loop[v] = "waiting"
  /\ OnCommand(v)
  /\ UNCHANGED <<sessionVars, loop, table, enough, publishing, failed>>

-----------------------------------------------------------------------------
(* The server.                                                             *)

\* DispatchOrder up to PublishCommand; "idle" with enough battery is what it
\* asks of a vehicle.
Dispatch(v, o) ==
  /\ publishing = NoOrder
  /\ table[o] = "pending"
  /\ heard[v] = "idle" /\ enough[v]
  /\ table' = [table EXCEPT ![o] = "assigned"]
  /\ heard' = [heard EXCEPT ![v] = "en_route"]
  /\ Publish(Server, <<[to |-> v, order |-> o]>>)
  /\ publishing' = o
  /\ UNCHANGED <<sim, inbox, commands, requests, loop, enough, failed>>

\* token.Wait is over; the mutex is free again.
PublishReturns ==
  /\ publishing # NoOrder
  /\ ~Unacknowledged(Server)
  /\ publishing' = NoOrder
  /\ UNCHANGED <<simVars, sessionVars, loop, table, enough, failed>>

\* The MQTT callbacks.
Hear(v) ==
  /\ Receive(v)
  /\ enough' = [enough EXCEPT ![v] =
       IF Head(inbox[v]).topic = "telemetry"
       THEN Head(inbox[v]).says = "enough" ELSE @]
  /\ UNCHANGED <<sessionVars, loop, table, publishing, failed>>

\* Transition, in time or not at all.
Serve(r) ==
  /\ Answer(r)
  /\ \/ /\ CanTransitionTo(table[r.order], r.status)
        /\ table' = [table EXCEPT ![r.order] = r.status]
        /\ UNCHANGED failed
     \/ /\ ~CanTransitionTo(table[r.order], r.status)
        /\ UNCHANGED <<table, failed>>
     \/ /\ Fails
        /\ failed' = failed \cup {r.order}
        /\ UNCHANGED table
  /\ UNCHANGED <<sessionVars, loop, enough, publishing>>

-----------------------------------------------------------------------------
(* The broker.                                                             *)

rest == <<sim, requests, heard, loop, table, enough, publishing, failed>>

\* The queues when c's oldest packet has been routed to whom it is for, and
\* the clients in gone have lost their sessions.
Route(c, gone) ==
  LET packet == Head(outbox[c])
      hears(d) == subscribed[d] /\ d \notin gone
  IN  /\ inbox' = [v \in Vehicles |->
           IF Server \in gone THEN <<>>
           ELSE IF c = v /\ hears(Server) THEN Append(inbox[v], packet)
           ELSE inbox[v]]
      /\ commands' = [v \in Vehicles |->
           IF v \in gone THEN <<>>
           ELSE IF c = Server /\ packet.to = v /\ hears(v)
                THEN Append(commands[v], packet.order)
           ELSE commands[v]]

\* Room for one more: the bound on the queues.
Room(c) ==
  IF c = Server THEN \A v \in Vehicles : Len(commands[v]) < MaxQueue
                ELSE Len(inbox[c]) < MaxQueue

BrokerTakes(c) ==
  /\ Room(c)
  /\ Acknowledge(c)
  /\ Route(c, {})
  /\ UNCHANGED rest

\* The packet is routed, and the link fails before the acknowledgement.
BrokerTakesInVain(c) ==
  /\ Room(c)
  /\ Unacknowledged(c)
  /\ Disconnect(c)
  /\ Route(c, {c})
  /\ UNCHANGED rest

LoseLink(c) ==
  /\ Disconnect(c)
  /\ inbox' = IF c = Server THEN [v \in Vehicles |-> <<>>] ELSE inbox
  /\ commands' = IF c = Server THEN commands
                 ELSE [commands EXCEPT ![c] = <<>>]
  /\ UNCHANGED rest

ComeBack(c) ==
  /\ Reconnect(c)
  /\ UNCHANGED <<inbox, commands, rest>>

-----------------------------------------------------------------------------

StandaloneNext ==
  \/ \E v \in Vehicles :
       \/ Tick(v)
       \/ Answered(v)
       \/ TakeCommand(v)
       \/ Hear(v)
       \/ \E o \in Orders : Dispatch(v, o)
  \/ PublishReturns
  \/ \E r \in requests : Serve(r)
  \/ \E c \in Clients :
       BrokerTakes(c) \/ BrokerTakesInVain(c) \/ LoseLink(c) \/ ComeBack(c)

StandaloneSpec == StandaloneInit /\ [][StandaloneNext]_aloneVars

\* Tickers fire, goroutines run, requests end one way or another, links come
\* back and do not fail for ever before an acknowledgement, and a callback
\* that waits for a mutex gets it before long.
FairStandaloneSpec ==
  /\ StandaloneSpec
  /\ \A v \in Vehicles :
       /\ SF_aloneVars(Tick(v))
       /\ WF_aloneVars(Answered(v))
       /\ SF_aloneVars(TakeCommand(v))
       /\ WF_aloneVars(Hear(v))
  /\ WF_aloneVars(PublishReturns)
  /\ \A o \in Orders : WF_aloneVars(\E r \in requests : r.order = o /\ Serve(r))
  /\ \A c \in Clients : SF_aloneVars(BrokerTakes(c)) /\ WF_aloneVars(ComeBack(c))

-----------------------------------------------------------------------------

\* However often links fail and commands arrive twice, a vehicle is done with
\* an order at the dropoff only when the server has it as delivered: the two
\* reports are made one after the other, and the second waits for the first.
\* Needs its requests to reach the server.
HandsOver ==
  [][\A v \in Vehicles, o \in Orders :
       sim[v].order = o /\ sim'[v].order = NoOrder =>
         table[o] = "delivered" \/ o \in failed]_aloneVars

\* The last status that the server got from v, or will get.
LastWordSent(v) == LastSaid(inbox[v] \o outbox[v], heard[v])

\* As long as the server is subscribed, the link of a vehicle may fail as it
\* likes: what the server has, or will get, is the vehicle's status, or the
\* en_route that the server itself wrote down for a command.
ToldInTheEnd ==
  subscribed[Server] =>
    \A v \in Vehicles :
      sim[v].status # "en_route" =>
        LastWordSent(v) \in {sim[v].status, "en_route"}

\* PublishCommand returns, and with it the engine's mutex: outages delay it.
CommandGetsOut == publishing # NoOrder ~> publishing = NoOrder

\* A command that has reached a vehicle is taken, or lost with the session:
\* the tick that keeps the mutex for its request gives it back.
CommandTaken == \A v \in Vehicles : commands[v] # <<>> ~> commands[v] = <<>>

\* "车辆会自动响应调度命令（接单→取货→送达）" (main.go:142), with two
\* exceptions: an order that is on the road is delivered, also when links fail
\* and commands come twice, unless a request about it fails, or the battery
\* runs low on the way.
JobEnds ==
  \A v \in Vehicles, o \in Orders :
    sim[v].order = o /\ sim[v].phase # NoPhase ~>
      \/ table[o] = "delivered" \/ o \in failed
      \/ sim[v].status = "charging"

=============================================================================
