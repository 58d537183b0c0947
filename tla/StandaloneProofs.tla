--------------------------- MODULE StandaloneProofs ---------------------------
(***************************************************************************)
(* What holds of the standalone simulator's vehicles for any number of     *)
(* vehicles and orders, however links fail, commands come twice and        *)
(* requests fail.                                                          *)
(*                                                                         *)
(* The last word of a vehicle is the last status in two queues, what the   *)
(* server has not taken yet (inbox) and what the broker has not            *)
(* acknowledged (outbox); LastSaidConcat makes it a fold, which a step     *)
(* changes at one end.                                                     *)
(*                                                                         *)
(* HandsOver is about a vehicle whose tick waits for an answer: Onward     *)
(* says that the table is past "pending" for every order on its way, and   *)
(* Waiting which reports the table must have by then, or a request that    *)
(* will bring them.                                                        *)
(***************************************************************************)
EXTENDS StandaloneVehicle, SimVehicleProofs

Boxes == outbox = [c \in Clients |-> outbox[c]]

\* A vehicle that goes somewhere goes there for an order.
Aimed == \A v \in Vehicles : sim[v].phase # NoPhase => sim[v].order \in Orders

AloneTypes == StandaloneTypeOK /\ Boxes /\ Aimed

-----------------------------------------------------------------------------
(* The end of a tick.                                                      *)

\* What a vehicle in status s says, said first, before it is in status after.
Tells(news, said, s, after) ==
  \A before : \/ LastSaid(news, before) = after
              \/ /\ after = s
                 /\ LastSaid(news, before) = LastSaid(said, before)

\* The vehicle keeps its order, and its phase unless it stops to charge; what
\* it says last is what it does.
Finished(v, s, said) ==
  \E after \in VehicleState, news \in Seq(Message) :
    /\ sim' = [sim EXCEPT ![v] = after]
    /\ after.order = s.order
    /\ after.phase \in {s.phase, NoPhase}
    /\ Tells(news, said, s.status, after.status)
    /\ outbox' = [outbox EXCEPT ![v] = @ \o news]
    /\ UNCHANGED <<link, subscribed>>
    /\ loop' = [loop EXCEPT ![v] = "waiting"]

LEMMA FinishOutcome ==
  ASSUME AloneTypes, NEW v \in Vehicles, NEW s \in VehicleState,
         NEW said \in Seq(Message), NEW drain \in Drains \cup {0},
         FinishTick(v, s, said, drain)
  PROVE  Finished(v, s, said)
<1> DEFINE level   == s.battery - drain
           low     == level < LowBattery
           status  == IF low THEN "charging" ELSE s.status
           phase   == IF low THEN NoPhase ELSE s.phase
           leg     == IF low THEN 0 ELSE s.leg
           plugged == [s EXCEPT !.battery = @ - drain,
                                !.status = IF low THEN "charging" ELSE @,
                                !.phase  = IF low THEN NoPhase ELSE @,
                                !.leg    = IF low THEN 0 ELSE @]
           charged == ChargeStep(plugged)
           after   == NotNegative(charged)
           first   == IF low THEN <<Says("charging")>> ELSE <<>>
           second  == IF charged.status # plugged.status
                      THEN <<Says("idle")>> ELSE <<>>
           third   == <<Telemetry(after)>>
           news    == ((said \o first) \o second) \o third
<1>b. s.battery \in Nat
  BY DEF VehicleState
<1>d. drain \in Nat /\ (drain = 0 \/ drain < Charge) /\ Charge \in Nat
  <2>1. drain \in Drains => drain \in Nat /\ drain < Charge
    BY SimAssumption
  <2>2. Charge \in Nat
    BY SimAssumption
  <2> QED
    BY <2>1, <2>2
<1>e. /\ sim' = [sim EXCEPT ![v] = after]
      /\ Publish(v, ((said \o first) \o second) \o third)
      /\ loop' = [loop EXCEPT ![v] = "waiting"]
  BY DEF FinishTick
<1>1. plugged = [phase |-> phase, status |-> status, order |-> s.order,
                 leg |-> leg, battery |-> level]
  <2>1. s = [phase |-> s.phase, status |-> s.status, order |-> s.order,
             leg |-> s.leg, battery |-> s.battery]
    BY DEF VehicleState
  <2>2. plugged = [s EXCEPT !.battery = level, !.status = status,
                            !.phase = phase, !.leg = leg]
    OBVIOUS
  <2> HIDE DEF low, level, status, plugged, phase, leg
  <2> QED
    BY <2>1, <2>2
<1>2. level \in Int /\ (status = "charging" => level + Charge >= 0)
  BY <1>b, <1>d
<1>3. first \in Seq(Message) /\ second \in Seq(Message) /\ third \in Seq(Message)
  BY MessageTypes
<1>4. /\ phase \in {s.phase, NoPhase} /\ phase \in Phases
      /\ status \in {s.status, "charging"} /\ (~low => status = s.status)
      /\ (low => status = "charging")
      /\ leg \in 0 .. MaxLeg
      /\ s.order \in Orders \cup {NoOrder}
      /\ s.status \in {"idle", "en_route", "delivering", "charging"}
  BY PhaseFacts, SimAssumption DEF VehicleState
<1> HIDE DEF level, low, status, phase, leg, plugged, first, second, third
<1>5. PICK status2 \in {status, "idle"}, level2 \in Nat :
        /\ after = [phase |-> phase, status |-> status2, order |-> s.order,
                    leg |-> leg, battery |-> level2]
        /\ charged.status = status2 /\ plugged.status = status
  BY <1>1, <1>2, ChargeOutcome
<1>6. /\ after \in VehicleState /\ after.order = s.order
      /\ after.phase = phase /\ after.status = status2
  BY <1>4, <1>5 DEF VehicleState
<1>7. /\ first = IF low THEN <<Says("charging")>> ELSE <<>>
      /\ second = IF status2 # status THEN <<Says("idle")>> ELSE <<>>
      /\ third = <<Telemetry(after)>>
  BY <1>5 DEF first, second, third
<1> HIDE DEF after, charged
<1>8. /\ said \o first \in Seq(Message)
      /\ (said \o first) \o second \in Seq(Message)
      /\ news \in Seq(Message)
  <2>1. ASSUME NEW q \in Seq(Message), NEW r \in Seq(Message)
        PROVE  q \o r \in Seq(Message)
    BY ConcatProperties
  <2>2. said \o first \in Seq(Message)
    BY <1>3, <2>1
  <2>3. (said \o first) \o second \in Seq(Message)
    BY <1>3, <2>1, <2>2
  <2> QED
    BY <1>3, <2>1, <2>2, <2>3
<1>9. Tells(news, said, s.status, after.status)
  <2> SUFFICES ASSUME NEW before
               PROVE  \/ LastSaid(news, before) = after.status
                      \/ /\ after.status = s.status
                         /\ LastSaid(news, before) = LastSaid(said, before)
    BY DEF Tells
  <2>1. /\ Says("charging") \in Message /\ Says("idle") \in Message
        /\ Says("charging").topic = "status" /\ Says("charging").says = "charging"
        /\ Says("idle").topic = "status" /\ Says("idle").says = "idle"
        /\ Telemetry(after) \in Message /\ Telemetry(after).topic # "status"
    BY MessageTypes DEF Says, Telemetry
  <2>2. \A b : LastSaid(first, b) = IF low THEN "charging" ELSE b
    BY <1>7, <2>1, LastSaidOne, LastSaidEmpty
  <2>3. \A b : LastSaid(second, b) = IF status2 # status THEN "idle" ELSE b
    BY <1>7, <2>1, LastSaidOne, LastSaidEmpty
  <2>4. \A b : LastSaid(third, b) = b
    BY <1>7, <2>1, LastSaidOne
  <2>c. ASSUME NEW q \in Seq(Message), NEW r \in Seq(Message)
        PROVE  LastSaid(q \o r, before) = LastSaid(r, LastSaid(q, before))
    BY LastSaidConcat
  <2>5. LastSaid(news, before) = LastSaid(third, LastSaid((said \o first) \o second, before))
    BY <1>3, <1>8, <2>c, Zenon
  <2>6. LastSaid((said \o first) \o second, before)
          = LastSaid(second, LastSaid(said \o first, before))
    BY <1>3, <1>8, <2>c, Zenon
  <2>7. LastSaid(said \o first, before) = LastSaid(first, LastSaid(said, before))
    BY <1>3, <2>c, Zenon
  <2> HIDE DEF news
  <2> QED
    BY <1>4, <1>6, <2>2, <2>3, <2>4, <2>5, <2>6, <2>7
<1>10. outbox' = [outbox EXCEPT ![v] = @ \o news]
  BY <1>e DEF Publish
<1> HIDE DEF news
<1> QED
  BY <1>4, <1>6, <1>8, <1>9, <1>10, <1>e DEF Finished, Publish

-----------------------------------------------------------------------------
(* Types.                                                                  *)

LEMMA TypeFacts ==
  ASSUME AloneTypes
  PROVE  /\ sim \in [Vehicles -> VehicleState]
         /\ inbox \in [Vehicles -> Seq(Message)]
         /\ commands \in [Vehicles -> Seq(Orders)]
         /\ requests \subseteq Request
         /\ heard \in [Vehicles ->
              {BlankStatus, "idle", "en_route", "delivering", "charging"}]
         /\ link \in [Clients -> {"up", "down"}]
         /\ subscribed \in [Clients -> BOOLEAN]
         /\ \A v \in Vehicles : outbox[v] \in Seq(Message)
         /\ outbox[Server] \in Seq(Command)
         /\ outbox = [c \in Clients |-> outbox[c]]
         /\ loop \in [Vehicles -> {"waiting", "picked_up", "delivered"}]
         /\ table \in [Orders -> OrderStatus]
         /\ enough \in [Vehicles -> BOOLEAN]
         /\ publishing \in Orders \cup {NoOrder}
         /\ failed \subseteq Orders
         /\ Aimed
         /\ Clients = Vehicles \cup {Server} /\ Server \notin Vehicles
BY StandaloneAssumption DEF AloneTypes, StandaloneTypeOK, Boxes

\* A tick that goes on driving, or has its answer about the pickup.
LEMMA Driven ==
  ASSUME AloneTypes, NEW v \in Vehicles,
         MoveOn(v) \/ (Answered(v) /\ loop[v] = "picked_up")
  PROVE  \E s \in VehicleState :
           /\ s.order = sim[v].order /\ s.phase = sim[v].phase
           /\ s.status = sim[v].status
           /\ Finished(v, s, <<>>)
<1>t. sim[v] \in VehicleState /\ <<>> \in Seq(Message)
  BY TypeFacts
<1>1. CASE MoveOn(v)
  <2>1. PICK drain \in Drains :
          FinishTick(v, [sim[v] EXCEPT !.leg = IF @ > 0 THEN @ - 1 ELSE 0],
                     <<>>, drain)
    BY <1>1 DEF MoveOn
  <2> DEFINE s == [sim[v] EXCEPT !.leg = IF @ > 0 THEN @ - 1 ELSE 0]
  <2>2. /\ s \in VehicleState
        /\ s.order = sim[v].order /\ s.phase = sim[v].phase
        /\ s.status = sim[v].status
    BY <1>t, SimAssumption DEF VehicleState
  <2>3. FinishTick(v, s, <<>>, drain)
    BY <2>1
  <2> HIDE DEF s
  <2>4. Finished(v, s, <<>>)
    BY <1>t, <2>2, <2>3, FinishOutcome
  <2> QED
    BY <2>2, <2>4
<1>2. CASE Answered(v) /\ loop[v] = "picked_up"
  <2>1. FinishTick(v, sim[v], <<>>, 0)
    BY <1>2 DEF Answered
  <2> QED
    BY <1>t, <2>1, FinishOutcome
<1> QED
  BY <1>1, <1>2

\* A tick that has its answer about the delivery.
LEMMA HandedOver ==
  ASSUME AloneTypes, NEW v \in Vehicles, Answered(v), loop[v] # "picked_up"
  PROVE  \E s \in VehicleState :
           /\ s.order = NoOrder /\ s.phase = NoPhase /\ s.status = "idle"
           /\ Finished(v, s, <<Says("idle")>>)
<1> DEFINE s == [sim[v] EXCEPT !.phase = NoPhase, !.order = NoOrder,
                               !.status = "idle"]
<1>1. sim[v] \in VehicleState /\ <<Says("idle")>> \in Seq(Message)
  BY TypeFacts, MessageTypes
<1>2. s \in VehicleState /\ s.order = NoOrder /\ s.phase = NoPhase
      /\ s.status = "idle"
  BY <1>1, PhaseFacts DEF VehicleState
<1>3. FinishTick(v, s, <<Says("idle")>>, 0)
  BY DEF Answered
<1> HIDE DEF s
<1>4. Finished(v, s, <<Says("idle")>>)
  BY <1>1, <1>2, <1>3, FinishOutcome
<1> QED
  BY <1>2, <1>4

LEMMA FinishedTypes ==
  ASSUME AloneTypes, NEW v \in Vehicles, NEW s \in VehicleState, NEW said,
         Finished(v, s, said), s.phase # NoPhase => s.order \in Orders,
         UNCHANGED <<requests, commands, serverVars>>
  PROVE  AloneTypes'
<1>1. PICK after \in VehicleState, news \in Seq(Message) :
        /\ sim' = [sim EXCEPT ![v] = after]
        /\ after.order = s.order
        /\ after.phase \in {s.phase, NoPhase}
        /\ outbox' = [outbox EXCEPT ![v] = @ \o news]
        /\ UNCHANGED <<link, subscribed>>
        /\ loop' = [loop EXCEPT ![v] = "waiting"]
  BY DEF Finished
<1>2. outbox[v] \o news \in Seq(Message)
  BY TypeFacts, ConcatProperties
<1>3. StandaloneTypeOK'
  BY <1>1, <1>2, TypeFacts DEF StandaloneTypeOK, serverVars
<1>4. Boxes'
  BY <1>1, TypeFacts DEF Boxes
<1>5. Aimed'
  BY <1>1, TypeFacts DEF Aimed
<1> QED
  BY <1>3, <1>4, <1>5 DEF AloneTypes

\* What a tick does at the pickup.
AtPickup(v) ==
  /\ sim[v].phase = "to_pickup" /\ loop[v] = "waiting"
  /\ \E after \in VehicleState :
       /\ sim' = [sim EXCEPT ![v] = after]
       /\ after.order = sim[v].order /\ after.phase = "to_dropoff"
       /\ after.status = "delivering"
  /\ outbox' = [outbox EXCEPT ![v] = @ \o <<Says("delivering")>>]
  /\ requests' = requests \cup {[order |-> sim[v].order, status |-> "picked_up"]}
  /\ loop' = [loop EXCEPT ![v] = "picked_up"]
  /\ UNCHANGED <<commands, link, subscribed, serverVars>>

LEMMA PickupOutcome ==
  ASSUME AloneTypes, NEW v \in Vehicles, Tick(v), ArriveAtPickup(v)
  PROVE  AtPickup(v) /\ AloneTypes'
<1>t. sim[v] \in VehicleState /\ sim[v].order \in Orders
  BY TypeFacts, PhaseFacts DEF ArriveAtPickup, Aimed
<1>1. PICK leg \in 0 .. MaxLeg :
        sim' = [sim EXCEPT ![v] = [@ EXCEPT !.phase = "to_dropoff", !.leg = leg,
                                            !.status = "delivering"]]
  BY DEF ArriveAtPickup
<1> DEFINE after == [sim[v] EXCEPT !.phase = "to_dropoff", !.leg = leg,
                                   !.status = "delivering"]
<1>2. /\ after \in VehicleState /\ after.order = sim[v].order
      /\ after.phase = "to_dropoff" /\ after.status = "delivering"
  BY <1>t, PhaseFacts DEF VehicleState
<1>3. sim' = [sim EXCEPT ![v] = after]
  BY <1>1, TypeFacts
<1> HIDE DEF after
<1>4. AtPickup(v)
  BY <1>2, <1>3 DEF AtPickup, ArriveAtPickup, Tick, Publish
<1>5. outbox[v] \o <<Says("delivering")>> \in Seq(Message)
  <2>1. <<Says("delivering")>> \in Seq(Message)
    BY MessageTypes
  <2> QED
    BY <2>1, TypeFacts, ConcatProperties
<1>6. StandaloneTypeOK'
  BY <1>t, <1>2, <1>3, <1>4, <1>5, TypeFacts
  DEF AtPickup, StandaloneTypeOK, serverVars, Request
<1>7. Boxes'
  BY <1>4, TypeFacts DEF AtPickup, Boxes
<1>8. Aimed'
  BY <1>t, <1>2, <1>3, TypeFacts DEF Aimed
<1> QED
  BY <1>4, <1>6, <1>7, <1>8 DEF AloneTypes

\* A vehicle takes a command, whatever it was doing.
LEMMA CommandOutcome ==
  ASSUME AloneTypes, NEW v \in Vehicles, TakeCommand(v)
  PROVE  /\ AloneTypes'
         /\ commands[v] \in Seq(Orders) /\ commands[v] # <<>>
         /\ commands' = [commands EXCEPT ![v] = Tail(@)]
         /\ \E after \in VehicleState :
              /\ sim' = [sim EXCEPT ![v] = after]
              /\ after.order = Head(commands[v]) /\ after.order \in Orders
              /\ after.phase = "to_pickup" /\ after.status = "en_route"
         /\ UNCHANGED <<inbox, requests, heard>>
<1>1. PICK leg \in 0 .. MaxLeg :
        sim' = [sim EXCEPT ![v] =
          [@ EXCEPT !.order = Head(commands[v]), !.phase = "to_pickup",
                    !.leg = leg, !.status = "en_route"]]
  BY DEF TakeCommand, OnCommand
<1>2. /\ commands[v] \in Seq(Orders) /\ commands[v] # <<>>
      /\ commands' = [commands EXCEPT ![v] = Tail(@)]
      /\ UNCHANGED <<inbox, requests, heard>>
      /\ UNCHANGED <<sessionVars, loop, table, enough, publishing, failed>>
  BY TypeFacts DEF TakeCommand, OnCommand
<1>3. Head(commands[v]) \in Orders /\ Tail(commands[v]) \in Seq(Orders)
  BY <1>2, HeadTailProperties
<1> DEFINE after == [sim[v] EXCEPT !.order = Head(commands[v]),
                                   !.phase = "to_pickup",
                                   !.leg = leg, !.status = "en_route"]
<1>4. /\ after \in VehicleState /\ after.order = Head(commands[v])
      /\ after.phase = "to_pickup" /\ after.status = "en_route"
  <2>1. sim[v] \in VehicleState
    BY TypeFacts
  <2> QED
    BY <1>3, <2>1, PhaseFacts DEF VehicleState
<1>5. sim' = [sim EXCEPT ![v] = after]
  BY <1>1, TypeFacts
<1> HIDE DEF after
<1>6. commands' \in [Vehicles -> Seq(Orders)]
  BY <1>2, <1>3, TypeFacts
<1>7. StandaloneTypeOK' /\ Boxes' /\ Aimed'
  BY <1>2, <1>3, <1>4, <1>5, <1>6, TypeFacts
  DEF StandaloneTypeOK, Boxes, Aimed, sessionVars
<1> QED
  BY <1>2, <1>3, <1>4, <1>5, <1>7 DEF AloneTypes

\* A tick at the dropoff starts to wait for its answer.
LEMMA DropoffTypes ==
  ASSUME AloneTypes, NEW v \in Vehicles, Tick(v), ArriveAtDropoff(v)
  PROVE  AloneTypes'
<1>1. /\ sim[v].order \in Orders
      /\ requests' = requests \cup
           {[order |-> sim[v].order, status |-> "delivered"]}
      /\ loop' = [loop EXCEPT ![v] = "delivered"]
      /\ UNCHANGED <<sim, sessionVars, commands, serverVars>>
  BY TypeFacts, PhaseFacts DEF Tick, ArriveAtDropoff, Aimed
<1>2. StandaloneTypeOK'
  BY <1>1, TypeFacts DEF StandaloneTypeOK, serverVars, sessionVars, Request
<1>3. Boxes' /\ Aimed'
  BY <1>1, TypeFacts DEF Boxes, Aimed, sessionVars
<1> QED
  BY <1>2, <1>3 DEF AloneTypes

\* The message the server takes, and what it then has heard.
LEMMA HearOutcome ==
  ASSUME AloneTypes, NEW v \in Vehicles, Hear(v)
  PROVE  /\ AloneTypes'
         /\ inbox[v] \in Seq(Message) /\ inbox[v] # <<>>
         /\ inbox' = [inbox EXCEPT ![v] = Tail(@)]
         /\ heard' = [heard EXCEPT ![v] =
              IF Head(inbox[v]).topic = "status" THEN Head(inbox[v]).says ELSE @]
         /\ UNCHANGED <<sim, commands, requests, sessionVars, loop, table,
                        publishing, failed>>
<1>1. /\ inbox[v] \in Seq(Message) /\ inbox[v] # <<>>
      /\ inbox' = [inbox EXCEPT ![v] = Tail(@)]
      /\ heard' = [heard EXCEPT ![v] =
           IF Head(inbox[v]).topic = "status" THEN Head(inbox[v]).says ELSE @]
      /\ UNCHANGED <<sim, commands, requests, sessionVars, loop, table,
                     publishing, failed>>
  BY TypeFacts DEF Hear, Receive
<1>2. Head(inbox[v]) \in Message /\ Tail(inbox[v]) \in Seq(Message)
  BY <1>1, HeadTailProperties
<1>3. Head(inbox[v]).topic = "status" =>
        Head(inbox[v]).says \in {"idle", "delivering", "charging"}
  BY <1>2 DEF Message
<1>4. inbox' \in [Vehicles -> Seq(Message)]
  BY <1>1, <1>2, TypeFacts
<1>5. heard' \in [Vehicles ->
        {BlankStatus, "idle", "en_route", "delivering", "charging"}]
  <2> DEFINE new == IF Head(inbox[v]).topic = "status"
                    THEN Head(inbox[v]).says ELSE heard[v]
             S == {BlankStatus, "idle", "en_route", "delivering", "charging"}
  <2>1. new \in S /\ heard \in [Vehicles -> S]
    BY <1>3, TypeFacts
  <2>2. heard' = [heard EXCEPT ![v] = new]
    BY <1>1
  <2> HIDE DEF new, S
  <2>3. heard' \in [Vehicles -> S]
    BY <2>1, <2>2
  <2> QED
    BY <2>3 DEF S
<1>6. enough' \in [Vehicles -> BOOLEAN]
  <2> DEFINE new == IF Head(inbox[v]).topic = "telemetry"
                    THEN Head(inbox[v]).says = "enough" ELSE enough[v]
  <2>1. new \in BOOLEAN /\ enough \in [Vehicles -> BOOLEAN]
    BY TypeFacts
  <2>2. enough' = [enough EXCEPT ![v] = new]
    BY DEF Hear
  <2> HIDE DEF new
  <2> QED
    BY <2>1, <2>2
<1>7. StandaloneTypeOK'
  BY <1>1, <1>4, <1>5, <1>6, TypeFacts DEF StandaloneTypeOK, sessionVars
<1>8. Boxes' /\ Aimed'
  BY <1>1, TypeFacts DEF Boxes, Aimed, sessionVars
<1> QED
  BY <1>1, <1>7, <1>8 DEF AloneTypes

LEMMA DispatchTypes ==
  ASSUME AloneTypes, NEW v \in Vehicles, NEW o \in Orders, Dispatch(v, o)
  PROVE  AloneTypes'
<1> DEFINE packets == <<[to |-> v, order |-> o]>>
<1>1. /\ table' = [table EXCEPT ![o] = "assigned"]
      /\ heard' = [heard EXCEPT ![v] = "en_route"]
      /\ outbox' = [outbox EXCEPT ![Server] = @ \o packets]
      /\ publishing' = o
      /\ UNCHANGED <<sim, inbox, commands, requests, loop, enough, failed,
                     link, subscribed>>
  BY DEF Dispatch, Publish
<1>2. packets \in Seq(Command)
  BY DEF Command
<1> HIDE DEF packets
<1>3. outbox[Server] \o packets \in Seq(Command)
  BY <1>2, TypeFacts, ConcatProperties
<1>4. "assigned" \in OrderStatus
  BY DEF OrderStatus
<1>5. StandaloneTypeOK'
  BY <1>1, <1>3, <1>4, TypeFacts DEF StandaloneTypeOK
<1>6. Boxes' /\ Aimed'
  BY <1>1, TypeFacts DEF Boxes, Aimed
<1> QED
  BY <1>5, <1>6 DEF AloneTypes

LEMMA ServeTypes ==
  ASSUME AloneTypes, NEW r \in requests, Serve(r)
  PROVE  AloneTypes'
<1>1. r.order \in Orders /\ r.status \in OrderStatus
  BY TypeFacts DEF Request, OrderStatus
<1>2. /\ table' \in {table, [table EXCEPT ![r.order] = r.status]}
      /\ failed' \in {failed, failed \cup {r.order}}
      /\ requests' = requests \ {r}
      /\ UNCHANGED <<sim, inbox, commands, heard, sessionVars, loop, enough,
                     publishing>>
  BY DEF Serve, Answer
<1>3. StandaloneTypeOK'
  BY <1>1, <1>2, TypeFacts DEF StandaloneTypeOK, sessionVars
<1>4. Boxes' /\ Aimed'
  BY <1>2, TypeFacts DEF Boxes, Aimed, sessionVars
<1> QED
  BY <1>3, <1>4 DEF AloneTypes

\* Where the oldest packet of c goes.
Routed(c, gone) ==
  /\ inbox' \in [Vehicles -> Seq(Message)]
  /\ commands' \in [Vehicles -> Seq(Orders)]
  /\ Server \notin gone =>
       \A v \in Vehicles :
         inbox'[v] = IF c = v /\ subscribed[Server]
                     THEN Append(inbox[v], Head(outbox[v])) ELSE inbox[v]
  /\ \A v \in Vehicles :
       \/ commands'[v] = <<>>
       \/ commands'[v] = commands[v]
       \/ /\ c = Server
          /\ commands'[v] = Append(commands[v], Head(outbox[Server]).order)

LEMMA RouteOutcome ==
  ASSUME AloneTypes, NEW c \in Clients, NEW gone, outbox[c] # <<>>,
         Route(c, gone)
  PROVE  Routed(c, gone)
<1>1. inbox' = [v \in Vehicles |->
        IF Server \in gone THEN <<>>
        ELSE IF c = v /\ subscribed[Server] /\ Server \notin gone
             THEN Append(inbox[v], Head(outbox[c]))
             ELSE inbox[v]]
  BY DEF Route
<1>2. commands' = [v \in Vehicles |->
        IF v \in gone THEN <<>>
        ELSE IF c = Server /\ Head(outbox[c]).to = v
                /\ subscribed[v] /\ v \notin gone
             THEN Append(commands[v], Head(outbox[c]).order)
             ELSE commands[v]]
  BY DEF Route
<1>3. ASSUME NEW v \in Vehicles, c = v
      PROVE  Append(inbox[v], Head(outbox[c])) \in Seq(Message)
  <2>1. Head(outbox[v]) \in Message
    BY <1>3, TypeFacts, HeadTailProperties
  <2> QED
    BY <1>3, <2>1, TypeFacts, AppendProperties
<1>4. ASSUME NEW v \in Vehicles, c = Server
      PROVE  Append(commands[v], Head(outbox[c]).order) \in Seq(Orders)
  <2>1. Head(outbox[Server]) \in Command
    BY <1>4, TypeFacts, HeadTailProperties
  <2>2. Head(outbox[Server]).order \in Orders
    BY <2>1 DEF Command
  <2>3. commands[v] \in Seq(Orders)
    BY TypeFacts
  <2> QED
    BY <1>4, <2>2, <2>3, AppendProperties
<1>5. inbox' \in [Vehicles -> Seq(Message)]
  BY <1>1, <1>3, TypeFacts
<1>6. commands' \in [Vehicles -> Seq(Orders)]
  BY <1>2, <1>4, TypeFacts
<1>7. Server \notin gone =>
        \A v \in Vehicles :
          inbox'[v] = IF c = v /\ subscribed[Server]
                      THEN Append(inbox[v], Head(outbox[v])) ELSE inbox[v]
  BY <1>1
<1>8. \A v \in Vehicles :
        \/ commands'[v] = <<>>
        \/ commands'[v] = commands[v]
        \/ /\ c = Server
           /\ commands'[v] = Append(commands[v], Head(outbox[Server]).order)
  BY <1>2
<1> QED
  BY <1>5, <1>6, <1>7, <1>8 DEF Routed

LEMMA BrokerTypes ==
  ASSUME AloneTypes, NEW c \in Clients,
         BrokerTakes(c) \/ BrokerTakesInVain(c) \/ LoseLink(c) \/ ComeBack(c)
  PROVE  AloneTypes'
<1>1. UNCHANGED rest
  BY DEF BrokerTakes, BrokerTakesInVain, LoseLink, ComeBack
<1>2. /\ link' \in [Clients -> {"up", "down"}]
      /\ subscribed' \in [Clients -> BOOLEAN]
  <2>1. /\ link' \in {link, [link EXCEPT ![c] = "down"],
                       [link EXCEPT ![c] = "up"]}
        /\ subscribed' \in {subscribed, [subscribed EXCEPT ![c] = FALSE]}
    BY DEF BrokerTakes, BrokerTakesInVain, LoseLink, ComeBack,
           Acknowledge, Disconnect, Reconnect
  <2>2. link \in [Clients -> {"up", "down"}] /\ subscribed \in [Clients -> BOOLEAN]
    BY TypeFacts
  <2>3. link' \in [Clients -> {"up", "down"}]
    BY <2>1, <2>2
  <2>4. subscribed' \in [Clients -> BOOLEAN]
    BY <2>1, <2>2
  <2> QED
    BY <2>3, <2>4
<1>3. /\ inbox' \in [Vehicles -> Seq(Message)]
      /\ commands' \in [Vehicles -> Seq(Orders)]
  <2>1. CASE BrokerTakes(c)
    BY <2>1, RouteOutcome DEF BrokerTakes, Acknowledge, Unacknowledged, Routed
  <2>2. CASE BrokerTakesInVain(c)
    BY <2>2, RouteOutcome DEF BrokerTakesInVain, Unacknowledged, Routed
  <2>3. CASE LoseLink(c)
    BY <2>3, TypeFacts DEF LoseLink
  <2>4. CASE ComeBack(c)
    BY <2>4, TypeFacts DEF ComeBack
  <2> QED
    BY <2>1, <2>2, <2>3, <2>4
<1>4. /\ \A v \in Vehicles : outbox'[v] \in Seq(Message)
      /\ outbox'[Server] \in Seq(Command)
      /\ Boxes'
  <2>1. CASE outbox' = outbox
    BY <2>1, TypeFacts DEF Boxes
  <2>2. CASE outbox[c] # <<>> /\ outbox' = [outbox EXCEPT ![c] = Tail(@)]
    <3>1. c \in Vehicles => Tail(outbox[c]) \in Seq(Message)
      BY <2>2, TypeFacts, HeadTailProperties
    <3>2. c = Server => Tail(outbox[c]) \in Seq(Command)
      BY <2>2, TypeFacts, HeadTailProperties
    <3> QED
      BY <2>2, <3>1, <3>2, TypeFacts DEF Boxes
  <2> QED
    BY <2>1, <2>2 DEF BrokerTakes, BrokerTakesInVain, LoseLink, ComeBack,
                      Acknowledge, Unacknowledged, Disconnect, Reconnect
<1>5. StandaloneTypeOK'
  BY <1>1, <1>2, <1>3, <1>4, TypeFacts DEF StandaloneTypeOK, rest
<1>6. Aimed'
  BY <1>1, TypeFacts DEF Aimed, rest
<1> QED
  BY <1>4, <1>5, <1>6 DEF AloneTypes

LEMMA QuietTypes ==
  ASSUME AloneTypes, UNCHANGED <<simVars, sessionVars, loop, table, enough, failed>>,
         publishing' \in {publishing, NoOrder}
  PROVE  AloneTypes'
<1>1. StandaloneTypeOK'
  BY TypeFacts DEF StandaloneTypeOK, simVars, sessionVars
<1>2. Boxes' /\ Aimed'
  BY TypeFacts DEF Boxes, Aimed, simVars, sessionVars
<1> QED
  BY <1>1, <1>2 DEF AloneTypes

\* A tick that drives on or has its answer about the pickup, and one that has
\* its answer about the delivery.
Drives(v) ==
  /\ \/ MoveOn(v) /\ loop[v] = "waiting"
     \/ Answered(v) /\ loop[v] = "picked_up"
  /\ \E s \in VehicleState :
       /\ s.order = sim[v].order /\ s.phase = sim[v].phase
       /\ s.status = sim[v].status
       /\ Finished(v, s, <<>>)
  /\ UNCHANGED <<requests, commands, serverVars>>

HandsIn(v) ==
  /\ Answered(v) /\ loop[v] # "picked_up"
  /\ \E s \in VehicleState :
       /\ s.order = NoOrder /\ s.phase = NoPhase /\ s.status = "idle"
       /\ Finished(v, s, <<Says("idle")>>)
  /\ UNCHANGED <<requests, commands, serverVars>>

\* The ways a step can go.
AloneStep ==
  \/ \E v \in Vehicles : Drives(v) \/ HandsIn(v)
  \/ \E v \in Vehicles : AtPickup(v)
  \/ \E v \in Vehicles : Tick(v) /\ ArriveAtDropoff(v)
  \/ \E v \in Vehicles : TakeCommand(v)
  \/ \E v \in Vehicles : Hear(v)
  \/ \E v \in Vehicles, o \in Orders : Dispatch(v, o)
  \/ \E r \in requests : Serve(r)
  \/ \E c \in Clients :
       BrokerTakes(c) \/ BrokerTakesInVain(c) \/ LoseLink(c) \/ ComeBack(c)
  \/ /\ UNCHANGED <<simVars, sessionVars, loop, table, enough, failed>>
     /\ publishing' \in {publishing, NoOrder}

LEMMA AloneSteps ==
  ASSUME AloneTypes, [StandaloneNext]_aloneVars
  PROVE  AloneStep /\ AloneTypes'
<1>a. ASSUME NEW v \in Vehicles, Drives(v) PROVE AloneStep /\ AloneTypes'
  <2>1. PICK s \in VehicleState :
          /\ s.order = sim[v].order /\ s.phase = sim[v].phase
          /\ Finished(v, s, <<>>)
    BY <1>a DEF Drives
  <2>2. UNCHANGED <<requests, commands, serverVars>>
    BY <1>a DEF Drives
  <2>3. s.phase # NoPhase => s.order \in Orders
    BY <2>1 DEF AloneTypes, Aimed
  <2>4. AloneTypes'
    BY <2>1, <2>2, <2>3, FinishedTypes
  <2> QED
    BY <1>a, <2>4 DEF AloneStep
<1>b. ASSUME NEW v \in Vehicles, HandsIn(v) PROVE AloneStep /\ AloneTypes'
  <2>1. PICK s \in VehicleState :
          s.phase = NoPhase /\ Finished(v, s, <<Says("idle")>>)
    BY <1>b DEF HandsIn
  <2>2. UNCHANGED <<requests, commands, serverVars>>
    BY <1>b DEF HandsIn
  <2>3. AloneTypes'
    BY <2>1, <2>2, FinishedTypes
  <2> QED
    BY <1>b, <2>3 DEF AloneStep
<1>1. ASSUME NEW v \in Vehicles, Tick(v) PROVE AloneStep /\ AloneTypes'
  <2>1. CASE MoveOn(v)
    <3>1. loop[v] = "waiting" /\ UNCHANGED <<requests, commands, serverVars>>
      BY <1>1, <2>1 DEF Tick, MoveOn
    <3>2. Drives(v)
      BY <2>1, <3>1, Driven DEF Drives
    <3> QED
      BY <1>a, <3>2
  <2>2. CASE ArriveAtPickup(v)
    BY <1>1, <2>2, PickupOutcome DEF AloneStep
  <2>3. CASE ArriveAtDropoff(v)
    BY <1>1, <2>3, DropoffTypes DEF AloneStep
  <2> QED
    BY <1>1, <2>1, <2>2, <2>3 DEF Tick
<1>2. ASSUME NEW v \in Vehicles, Answered(v) PROVE AloneStep /\ AloneTypes'
  <2>1. UNCHANGED <<requests, commands, serverVars>>
    BY <1>2 DEF Answered
  <2>2. CASE loop[v] = "picked_up"
    <3>1. Drives(v)
      BY <1>2, <2>1, <2>2, Driven DEF Drives
    <3> QED
      BY <1>a, <3>1
  <2>3. CASE loop[v] # "picked_up"
    <3>1. HandsIn(v)
      BY <1>2, <2>1, <2>3, HandedOver DEF HandsIn
    <3> QED
      BY <1>b, <3>1
  <2> QED
    BY <2>2, <2>3
<1>3. ASSUME NEW v \in Vehicles, TakeCommand(v) PROVE AloneStep /\ AloneTypes'
  BY <1>3, CommandOutcome DEF AloneStep
<1>4. ASSUME NEW v \in Vehicles, Hear(v) PROVE AloneStep /\ AloneTypes'
  BY <1>4, HearOutcome DEF AloneStep
<1>5. ASSUME NEW v \in Vehicles, NEW o \in Orders, Dispatch(v, o)
      PROVE  AloneStep /\ AloneTypes'
  BY <1>5, DispatchTypes DEF AloneStep
<1>6. ASSUME NEW r \in requests, Serve(r) PROVE AloneStep /\ AloneTypes'
  BY <1>6, ServeTypes DEF AloneStep
<1>7. ASSUME NEW c \in Clients,
             BrokerTakes(c) \/ BrokerTakesInVain(c) \/ LoseLink(c) \/ ComeBack(c)
      PROVE  AloneStep /\ AloneTypes'
  BY <1>7, BrokerTypes DEF AloneStep
<1>8. ASSUME PublishReturns \/ UNCHANGED aloneVars
      PROVE  AloneStep /\ AloneTypes'
  <2>1. /\ UNCHANGED <<simVars, sessionVars, loop, table, enough, failed>>
        /\ publishing' \in {publishing, NoOrder}
    BY <1>8 DEF PublishReturns, aloneVars
  <2> QED
    BY <2>1, QuietTypes DEF AloneStep
<1> QED
  BY <1>1, <1>2, <1>3, <1>4, <1>5, <1>6, <1>7, <1>8 DEF StandaloneNext

LEMMA AloneStarts ==
  ASSUME StandaloneInit PROVE AloneTypes
<1>1. PICK level \in [Vehicles -> StartBattery] :
        sim = [v \in Vehicles |-> NewVehicle(level[v])]
  BY DEF StandaloneInit
<1>2. /\ sim \in [Vehicles -> VehicleState]
      /\ \A v \in Vehicles : sim[v].phase = NoPhase
  BY <1>1, NewVehicleState
<1>3. /\ outbox = [c \in Clients |->
                     IF c = Server THEN <<>> ELSE <<Says("idle")>>]
      /\ link \in [Clients -> {"up", "down"}]
      /\ subscribed \in [Clients -> BOOLEAN]
  BY DEF StandaloneInit, SessionInit
<1>4. /\ Boxes /\ outbox[Server] \in Seq(Command)
      /\ \A v \in Vehicles : outbox[v] \in Seq(Message)
  <2>1. <<Says("idle")>> \in Seq(Message)
    BY MessageTypes
  <2> QED
    BY <1>3, <2>1, StandaloneAssumption DEF Boxes
<1>5. /\ inbox \in [Vehicles -> Seq(Message)]
      /\ commands \in [Vehicles -> Seq(Orders)]
      /\ requests \subseteq Request /\ failed \subseteq Orders
      /\ heard = [v \in Vehicles |-> BlankStatus]
      /\ loop = [v \in Vehicles |-> "waiting"]
      /\ table = [o \in Orders |-> "pending"]
      /\ enough = [v \in Vehicles |-> TRUE]
      /\ publishing \in Orders \cup {NoOrder}
  BY DEF StandaloneInit
<1>6. "pending" \in OrderStatus
  BY DEF OrderStatus
<1>7. StandaloneTypeOK
  BY <1>2, <1>3, <1>4, <1>5, <1>6 DEF StandaloneTypeOK
<1>8. Aimed
  BY <1>2 DEF Aimed
<1> QED
  BY <1>4, <1>7, <1>8 DEF AloneTypes

\* Everything has its type in every state: among others, no command carries
\* the empty order, and only a known message is ever in a queue.
THEOREM StandaloneTypeCorrect == StandaloneSpec => []StandaloneTypeOK
<1>1. StandaloneInit => AloneTypes
  BY AloneStarts
<1>2. AloneTypes /\ [StandaloneNext]_aloneVars => AloneTypes'
  BY AloneSteps
<1>3. AloneTypes => StandaloneTypeOK
  BY DEF AloneTypes
<1> QED
  BY <1>1, <1>2, <1>3, PTL DEF StandaloneSpec

-----------------------------------------------------------------------------
(* The last word.                                                          *)

\* What the server has from v, and then what it will get.
LEMMA WordOf ==
  ASSUME AloneTypes, NEW v \in Vehicles
  PROVE  LastWordSent(v) = LastSaid(outbox[v], LastSaid(inbox[v], heard[v]))
<1>1. inbox[v] \in Seq(Message) /\ outbox[v] \in Seq(Message)
  BY TypeFacts
<1> QED
  BY <1>1, LastSaidConcat, Zenon DEF LastWordSent

LEMMA WordNext ==
  ASSUME AloneTypes', NEW v \in Vehicles
  PROVE  LastWordSent(v)' = LastSaid(outbox'[v], LastSaid(inbox'[v], heard'[v]))
<1>1. inbox'[v] \in Seq(Message) /\ outbox'[v] \in Seq(Message)
  BY DEF AloneTypes, StandaloneTypeOK
<1>2. LastWordSent(v)' = LastSaid(inbox'[v] \o outbox'[v], heard'[v])
  BY DEF LastWordSent
<1>3. LastSaid(inbox'[v] \o outbox'[v], heard'[v])
        = LastSaid(outbox'[v], LastSaid(inbox'[v], heard'[v]))
  BY <1>1, LastSaidConcat, Zenon
<1> QED
  BY <1>2, <1>3

\* What v publishes has the last word.
LEMMA WordAfter ==
  ASSUME AloneTypes, AloneTypes', NEW v \in Vehicles, NEW news \in Seq(Message),
         outbox' = [outbox EXCEPT ![v] = @ \o news],
         UNCHANGED <<inbox, heard>>
  PROVE  /\ LastWordSent(v)' = LastSaid(news, LastWordSent(v))
         /\ \A w \in Vehicles \ {v} : LastWordSent(w)' = LastWordSent(w)
<1> DEFINE word(w) == LastSaid(outbox[w], LastSaid(inbox[w], heard[w]))
           next(w) == LastSaid(outbox'[w], LastSaid(inbox[w], heard[w]))
<1>1. \A w \in Vehicles : LastWordSent(w) = word(w) /\ LastWordSent(w)' = next(w)
  <2>1. \A w \in Vehicles : LastWordSent(w) = word(w)
    BY WordOf
  <2>2. \A w \in Vehicles : LastWordSent(w)' = next(w)
    BY WordNext
  <2> QED
    BY <2>1, <2>2
<1>2. outbox'[v] = outbox[v] \o news /\ outbox[v] \in Seq(Message)
      /\ \A w \in Vehicles \ {v} : outbox'[w] = outbox[w]
  BY TypeFacts
<1>3. next(v) = LastSaid(news, word(v))
  <2>1. \A b : LastSaid(outbox[v] \o news, b) = LastSaid(news, LastSaid(outbox[v], b))
    BY <1>2, LastSaidConcat
  <2> QED
    BY <1>2, <2>1
<1> HIDE DEF word
<1>4. \A w \in Vehicles \ {v} : next(w) = word(w)
  BY <1>2 DEF word
<1> HIDE DEF next
<1> QED
  BY <1>1, <1>3, <1>4

\* The new last word is the new status when the old one was the old status.
Told(v) ==
  sim[v].status # "en_route" => LastWordSent(v) \in {sim[v].status, "en_route"}

LEMMA FinishTells ==
  ASSUME AloneTypes, AloneTypes', NEW v \in Vehicles, NEW s \in VehicleState,
         NEW said \in Seq(Message), Finished(v, s, said),
         UNCHANGED <<inbox, heard>>, \A w \in Vehicles : Told(w),
         LastSaid(said, LastWordSent(v)) \in {s.status, "en_route"}
           \/ s.status = "en_route"
  PROVE  \A w \in Vehicles : Told(w)'
<1>1. PICK after \in VehicleState, news \in Seq(Message) :
        /\ sim' = [sim EXCEPT ![v] = after]
        /\ Tells(news, said, s.status, after.status)
        /\ outbox' = [outbox EXCEPT ![v] = @ \o news]
  BY DEF Finished
<1>2. /\ LastWordSent(v)' = LastSaid(news, LastWordSent(v))
      /\ \A w \in Vehicles \ {v} : LastWordSent(w)' = LastWordSent(w)
  BY <1>1, WordAfter
<1>3. sim'[v] = after /\ \A w \in Vehicles \ {v} : sim'[w] = sim[w]
  BY <1>1, TypeFacts
<1>4. \/ LastSaid(news, LastWordSent(v)) = after.status
      \/ /\ after.status = s.status
         /\ LastSaid(news, LastWordSent(v)) = LastSaid(said, LastWordSent(v))
  BY <1>1 DEF Tells
<1>5. Told(v)'
  <2>1. Told(v)' <=>
          (sim'[v].status # "en_route" =>
             LastWordSent(v)' \in {sim'[v].status, "en_route"})
    BY DEF Told
  <2> QED
    BY <1>2, <1>3, <1>4, <2>1
<1>6. ASSUME NEW w \in Vehicles \ {v} PROVE Told(w)'
  <2>1. Told(w)' <=>
          (sim'[w].status # "en_route" =>
             LastWordSent(w)' \in {sim'[w].status, "en_route"})
    BY DEF Told
  <2> QED
    BY <1>2, <1>3, <2>1 DEF Told
<1> QED
  BY <1>5, <1>6

\* A vehicle of which neither the status nor the word changes.
LEMMA StillTold ==
  ASSUME NEW v \in Vehicles, Told(v), UNCHANGED sim,
         LastWordSent(v)' \in {LastWordSent(v), "en_route"}
  PROVE  Told(v)'
<1>1. Told(v)' <=>
        (sim'[v].status # "en_route" =>
           LastWordSent(v)' \in {sim'[v].status, "en_route"})
  BY DEF Told
<1> QED
  BY <1>1 DEF Told

\* A status heard in place of another is still the last word, or the last
\* word does not depend on it.
LEMMA HeardInstead ==
  ASSUME NEW q \in Seq(Message), NEW before, NEW other
  PROVE  LastSaid(q, other) \in {LastSaid(q, before), other}
BY DEF LastSaid

\* The packet that the broker has routed has left one queue for the other, or
\* is, when its acknowledgement was lost, in both.
LEMMA RoutedWord ==
  ASSUME NEW in \in Seq(Message), NEW out \in Seq(Message), out # <<>>, NEW before
  PROVE  /\ LastSaid(Tail(out), LastSaid(Append(in, Head(out)), before))
              = LastSaid(out, LastSaid(in, before))
         /\ LastSaid(out, LastSaid(Append(in, Head(out)), before))
              = LastSaid(out, LastSaid(in, before))
<1> DEFINE h == Head(out)
           says(b) == IF h.topic = "status" THEN h.says ELSE b
<1>1. h \in Message /\ Tail(out) \in Seq(Message)
  BY HeadTailProperties
<1>2. Append(in, h) = in \o <<h>> /\ <<h>> \in Seq(Message)
  BY <1>1, AppendIsConcat
<1>3. LastSaid(Append(in, h), before) = says(LastSaid(in, before))
  <2>1. LastSaid(in \o <<h>>, before) = LastSaid(<<h>>, LastSaid(in, before))
    BY <1>2, LastSaidConcat
  <2>2. LastSaid(<<h>>, LastSaid(in, before)) = says(LastSaid(in, before))
    BY <1>1, LastSaidOne
  <2> QED
    BY <1>2, <2>1, <2>2
<1>4. \A b : LastSaid(Tail(out), says(b)) = LastSaid(out, b)
  BY TakenWord
<1>5. \A b : says(says(b)) = says(b)
  OBVIOUS
<1> HIDE DEF says
<1>6. \A b : LastSaid(out, says(b)) = LastSaid(out, b)
  BY <1>4, <1>5
<1> QED
  BY <1>3, <1>4, <1>6

\* A step that moves messages, or notes en_route for a vehicle.
LEMMA QueueTells ==
  ASSUME AloneTypes, AloneTypes', NEW v \in Vehicles, Told(v),
         UNCHANGED sim,
         LastSaid(outbox'[v], LastSaid(inbox'[v], heard'[v]))
           \in {LastSaid(outbox[v], LastSaid(inbox[v], heard[v])), "en_route"}
  PROVE  Told(v)'
<1>1. LastWordSent(v) = LastSaid(outbox[v], LastSaid(inbox[v], heard[v]))
  BY WordOf
<1>2. LastWordSent(v)' = LastSaid(outbox'[v], LastSaid(inbox'[v], heard'[v]))
  BY WordNext
<1> QED
  BY <1>1, <1>2, StillTold

\* The inductive invariant: the types, and ToldInTheEnd.
LEMMA ToldSteps ==
  ASSUME AloneTypes, ToldInTheEnd, AloneStep, AloneTypes'
  PROVE  ToldInTheEnd'
<1>1. subscribed'[Server] => subscribed[Server]
  BY TypeFacts DEF AloneStep, Drives, HandsIn, Finished, AtPickup, Tick,
       ArriveAtDropoff, TakeCommand, Hear, Dispatch, Publish, Serve, BrokerTakes,
       BrokerTakesInVain, LoseLink, ComeBack, Acknowledge, Disconnect, Reconnect,
       sessionVars
<1> SUFFICES ASSUME subscribed'[Server], \A v \in Vehicles : Told(v)
             PROVE  \A v \in Vehicles : Told(v)'
  BY <1>1 DEF ToldInTheEnd, Told
<1>e. <<>> \in Seq(Message) /\ <<Says("idle")>> \in Seq(Message)
      /\ Says("idle") \in Message /\ Says("delivering") \in Message
      /\ <<Says("delivering")>> \in Seq(Message)
  BY MessageTypes
<1>2. ASSUME NEW v \in Vehicles, Drives(v) PROVE \A w \in Vehicles : Told(w)'
  <2>1. PICK s \in VehicleState :
          s.status = sim[v].status /\ Finished(v, s, <<>>)
    BY <1>2 DEF Drives
  <2>2. UNCHANGED <<inbox, heard>>
    BY <1>2 DEF Drives, serverVars
  <2>3. LastSaid(<<>>, LastWordSent(v)) \in {s.status, "en_route"}
          \/ s.status = "en_route"
    BY <2>1, LastSaidEmpty DEF Told
  <2> QED
    BY <1>e, <2>1, <2>2, <2>3, FinishTells
<1>3. ASSUME NEW v \in Vehicles, HandsIn(v) PROVE \A w \in Vehicles : Told(w)'
  <2>1. PICK s \in VehicleState :
          s.status = "idle" /\ Finished(v, s, <<Says("idle")>>)
    BY <1>3 DEF HandsIn
  <2>2. UNCHANGED <<inbox, heard>>
    BY <1>3 DEF HandsIn, serverVars
  <2>3. LastSaid(<<Says("idle")>>, LastWordSent(v)) = "idle"
    BY <1>e, LastSaidOne DEF Says
  <2> QED
    BY <1>e, <2>1, <2>2, <2>3, FinishTells
<1>4. ASSUME NEW v \in Vehicles, AtPickup(v) PROVE \A w \in Vehicles : Told(w)'
  <2>1. PICK after \in VehicleState :
          sim' = [sim EXCEPT ![v] = after] /\ after.status = "delivering"
    BY <1>4 DEF AtPickup
  <2>2. /\ outbox' = [outbox EXCEPT ![v] = @ \o <<Says("delivering")>>]
        /\ UNCHANGED <<inbox, heard>>
    BY <1>4 DEF AtPickup, serverVars
  <2>3. /\ LastWordSent(v)' = LastSaid(<<Says("delivering")>>, LastWordSent(v))
        /\ \A w \in Vehicles \ {v} : LastWordSent(w)' = LastWordSent(w)
    BY <1>e, <2>2, WordAfter
  <2>4. LastWordSent(v)' = "delivering"
    BY <1>e, <2>3, LastSaidOne DEF Says
  <2>5. sim'[v] = after /\ \A w \in Vehicles \ {v} : sim'[w] = sim[w]
    BY <2>1, TypeFacts
  <2>6. \A w \in Vehicles :
          Told(w)' <=> (sim'[w].status # "en_route" =>
                          LastWordSent(w)' \in {sim'[w].status, "en_route"})
    BY DEF Told
  <2>7. Told(v)'
    BY <2>1, <2>4, <2>5, <2>6
  <2>8. ASSUME NEW w \in Vehicles \ {v} PROVE Told(w)'
    BY <2>3, <2>5, <2>6 DEF Told
  <2> QED
    BY <2>7, <2>8
<1>5. ASSUME NEW v \in Vehicles, Tick(v), ArriveAtDropoff(v)
      PROVE  \A w \in Vehicles : Told(w)'
  <2>1. UNCHANGED <<sim, inbox, heard, outbox>>
    BY <1>5 DEF Tick, ArriveAtDropoff, sessionVars, serverVars
  <2> QED
    BY <2>1, QueueTells
<1>6. ASSUME NEW v \in Vehicles, TakeCommand(v) PROVE \A w \in Vehicles : Told(w)'
  <2>1. PICK after \in VehicleState :
          sim' = [sim EXCEPT ![v] = after] /\ after.status = "en_route"
    BY <1>6, CommandOutcome
  <2>2. UNCHANGED <<inbox, heard, outbox>>
    BY <1>6 DEF TakeCommand, OnCommand, sessionVars
  <2>3. sim'[v] = after /\ \A w \in Vehicles \ {v} : sim'[w] = sim[w]
    BY <2>1, TypeFacts
  <2>4. \A w \in Vehicles :
          Told(w)' <=> (sim'[w].status # "en_route" =>
                          LastWordSent(w)' \in {sim'[w].status, "en_route"})
    BY DEF Told
  <2>5. \A w \in Vehicles : LastWordSent(w)' = LastWordSent(w)
    BY <2>2, WordOf, WordNext
  <2>6. Told(v)'
    BY <2>1, <2>3, <2>4
  <2>7. ASSUME NEW w \in Vehicles \ {v} PROVE Told(w)'
    BY <2>3, <2>4, <2>5 DEF Told
  <2> QED
    BY <2>6, <2>7
<1>7. ASSUME NEW v \in Vehicles, Hear(v) PROVE \A w \in Vehicles : Told(w)'
  <2>1. /\ inbox[v] \in Seq(Message) /\ inbox[v] # <<>>
        /\ inbox' = [inbox EXCEPT ![v] = Tail(@)]
        /\ heard' = [heard EXCEPT ![v] =
             IF Head(inbox[v]).topic = "status" THEN Head(inbox[v]).says ELSE @]
        /\ UNCHANGED <<sim, outbox>>
    BY <1>7, HearOutcome DEF sessionVars
  <2>2. LastSaid(inbox'[v], heard'[v]) = LastSaid(inbox[v], heard[v])
    <3>1. /\ inbox'[v] = Tail(inbox[v])
          /\ heard'[v] = IF Head(inbox[v]).topic = "status"
                         THEN Head(inbox[v]).says ELSE heard[v]
      BY <2>1, TypeFacts
    <3> QED
      BY <2>1, <3>1, TakenWord
  <2>3. \A w \in Vehicles \ {v} : inbox'[w] = inbox[w] /\ heard'[w] = heard[w]
    BY <2>1, TypeFacts
  <2> QED
    BY <2>1, <2>2, <2>3, QueueTells
<1>8. ASSUME NEW v \in Vehicles, NEW o \in Orders, Dispatch(v, o)
      PROVE  \A w \in Vehicles : Told(w)'
  <2>1. /\ heard' = [heard EXCEPT ![v] = "en_route"]
        /\ outbox' = [outbox EXCEPT ![Server] = @ \o <<[to |-> v, order |-> o]>>]
        /\ UNCHANGED <<sim, inbox>>
    BY <1>8 DEF Dispatch, Publish
  <2>2. \A w \in Vehicles : outbox'[w] = outbox[w]
    BY <2>1, TypeFacts
  <2>3. heard'[v] = "en_route" /\ \A w \in Vehicles \ {v} : heard'[w] = heard[w]
    BY <2>1, TypeFacts
  <2>4. \A w \in Vehicles \ {v} : Told(w)'
    BY <2>1, <2>2, <2>3, QueueTells
  <2>5. Told(v)'
    <3> DEFINE d == LastSaid(inbox[v], heard[v])
               e == LastSaid(inbox[v], "en_route")
    <3>1. inbox[v] \in Seq(Message) /\ outbox[v] \in Seq(Message)
      BY TypeFacts
    <3>2. e \in {d, "en_route"}
      BY <3>1, HeardInstead
    <3>3. LastSaid(outbox[v], e) \in {LastSaid(outbox[v], d), e}
      BY <3>1, HeardInstead
    <3>4. LastSaid(outbox'[v], LastSaid(inbox'[v], heard'[v])) = LastSaid(outbox[v], e)
      BY <2>1, <2>2, <2>3
    <3> HIDE DEF e
    <3>5. LastSaid(outbox'[v], LastSaid(inbox'[v], heard'[v]))
            \in {LastSaid(outbox[v], d), "en_route"}
      BY <3>2, <3>3, <3>4
    <3> QED
      BY <2>1, <3>5, QueueTells
  <2> QED
    BY <2>4, <2>5
<1>9. ASSUME NEW r \in requests, Serve(r) PROVE \A w \in Vehicles : Told(w)'
  <2>1. UNCHANGED <<sim, inbox, heard, outbox>>
    BY <1>9 DEF Serve, Answer, sessionVars
  <2> QED
    BY <2>1, QueueTells
<1>10. ASSUME UNCHANGED <<simVars, sessionVars>> PROVE \A w \in Vehicles : Told(w)'
  <2>1. UNCHANGED <<sim, inbox, heard, outbox>>
    BY <1>10 DEF simVars, sessionVars
  <2> QED
    BY <2>1, QueueTells
<1>11. ASSUME NEW c \in Clients,
              BrokerTakes(c) \/ BrokerTakesInVain(c) \/ LoseLink(c) \/ ComeBack(c)
       PROVE  \A w \in Vehicles : Told(w)'
  <2>s. subscribed[Server]
    BY <1>1
  <2>1. UNCHANGED <<sim, heard>>
    BY <1>11 DEF BrokerTakes, BrokerTakesInVain, LoseLink, ComeBack, rest
  <2>2. CASE BrokerTakes(c)
    <3>1. /\ outbox[c] # <<>> /\ Routed(c, {})
          /\ outbox' = [outbox EXCEPT ![c] = Tail(@)]
      BY <2>2, RouteOutcome DEF BrokerTakes, Acknowledge, Unacknowledged
    <3>2. \A w \in Vehicles :
            inbox'[w] = IF c = w THEN Append(inbox[w], Head(outbox[w])) ELSE inbox[w]
      BY <2>s, <3>1 DEF Routed
    <3>3. \A w \in Vehicles :
            outbox'[w] = IF c = w THEN Tail(outbox[w]) ELSE outbox[w]
      BY <3>1, TypeFacts
    <3>4. ASSUME NEW w \in Vehicles PROVE Told(w)'
      <4>1. CASE c = w
        <5>1. inbox[w] \in Seq(Message) /\ outbox[w] \in Seq(Message) /\ outbox[w] # <<>>
          BY <3>1, <4>1, TypeFacts
        <5>2. LastSaid(Tail(outbox[w]), LastSaid(Append(inbox[w], Head(outbox[w])), heard[w]))
                = LastSaid(outbox[w], LastSaid(inbox[w], heard[w]))
          BY <5>1, RoutedWord
        <5> QED
          BY <2>1, <3>2, <3>3, <4>1, <5>2, QueueTells
      <4>2. CASE c # w
        BY <2>1, <3>2, <3>3, <4>2, QueueTells
      <4> QED
        BY <4>1, <4>2
    <3> QED
      BY <3>4
  <2>3. CASE BrokerTakesInVain(c)
    <3>1. /\ outbox[c] # <<>> /\ Routed(c, {c}) /\ UNCHANGED outbox
          /\ subscribed' = [subscribed EXCEPT ![c] = FALSE]
      BY <2>3, RouteOutcome DEF BrokerTakesInVain, Disconnect, Unacknowledged
    <3>2. c # Server
      BY <3>1, TypeFacts
    <3>3. \A w \in Vehicles :
            inbox'[w] = IF c = w THEN Append(inbox[w], Head(outbox[w])) ELSE inbox[w]
      BY <2>s, <3>1, <3>2 DEF Routed
    <3>4. ASSUME NEW w \in Vehicles PROVE Told(w)'
      <4>1. CASE c = w
        <5>1. inbox[w] \in Seq(Message) /\ outbox[w] \in Seq(Message) /\ outbox[w] # <<>>
          BY <3>1, <4>1, TypeFacts
        <5>2. LastSaid(outbox[w], LastSaid(Append(inbox[w], Head(outbox[w])), heard[w]))
                = LastSaid(outbox[w], LastSaid(inbox[w], heard[w]))
          BY <5>1, RoutedWord
        <5> QED
          BY <2>1, <3>1, <3>3, <4>1, <5>2, QueueTells
      <4>2. CASE c # w
        BY <2>1, <3>1, <3>3, <4>2, QueueTells
      <4> QED
        BY <4>1, <4>2
    <3> QED
      BY <3>4
  <2>4. CASE LoseLink(c)
    <3>1. UNCHANGED outbox /\ subscribed' = [subscribed EXCEPT ![c] = FALSE]
      BY <2>4 DEF LoseLink, Disconnect
    <3>2. c # Server
      BY <3>1, TypeFacts
    <3>3. UNCHANGED inbox
      BY <2>4, <3>2 DEF LoseLink
    <3> QED
      BY <2>1, <3>1, <3>3, QueueTells
  <2>5. CASE ComeBack(c)
    <3>1. UNCHANGED <<inbox, outbox>>
      BY <2>5 DEF ComeBack, Reconnect
    <3> QED
      BY <2>1, <3>1, QueueTells
  <2> QED
    BY <1>11, <2>2, <2>3, <2>4, <2>5
<1> QED
  BY <1>2, <1>3, <1>4, <1>5, <1>6, <1>7, <1>8, <1>9, <1>10, <1>11 DEF AloneStep

\* A status is published when it changes and never again, over a link that may
\* fail before it is acknowledged: a vehicle's publish is kept and sent again
\* (QoS 1, cmd/simulator/main.go), in order and perhaps twice, so as long as
\* the server is subscribed the last word it has or will get is the status.
THEOREM WordArrives == StandaloneSpec => []ToldInTheEnd
<1>1. StandaloneInit => AloneTypes /\ ToldInTheEnd
  <2> SUFFICES ASSUME StandaloneInit PROVE AloneTypes /\ ToldInTheEnd
    OBVIOUS
  <2>1. AloneTypes
    BY AloneStarts
  <2>2. PICK level \in [Vehicles -> StartBattery] :
          sim = [v \in Vehicles |-> NewVehicle(level[v])]
    BY DEF StandaloneInit
  <2>3. ASSUME NEW v \in Vehicles PROVE LastWordSent(v) = sim[v].status
    <3>1. sim[v].status = "idle"
      BY <2>2, NewVehicleState
    <3>2. inbox[v] = <<>> /\ outbox[v] = <<Says("idle")>>
      BY StandaloneAssumption DEF StandaloneInit, SessionInit
    <3>3. Says("idle") \in Message /\ Says("idle").topic = "status"
          /\ Says("idle").says = "idle"
      BY MessageTypes DEF Says
    <3>4. LastSaid(<<Says("idle")>>, LastSaid(<<>>, heard[v])) = "idle"
      BY <3>3, LastSaidOne
    <3> QED
      BY <2>1, <3>1, <3>2, <3>4, WordOf
  <2> QED
    BY <2>1, <2>3 DEF ToldInTheEnd
<1>2. AloneTypes /\ ToldInTheEnd /\ [StandaloneNext]_aloneVars
        => (AloneTypes /\ ToldInTheEnd)'
  BY AloneSteps, ToldSteps
<1> QED
  BY <1>1, <1>2, PTL DEF StandaloneSpec

-----------------------------------------------------------------------------
(* The reports.                                                            *)

\* The orders that a vehicle was chosen for.
Assigned == {o \in Orders : table[o] \in {"assigned", "picked_up", "delivered"}}

\* The server has o as picked up, or would if no request had failed.
Known(o) == table[o] \in {"picked_up", "delivered"} \/ o \in failed

\* Only such orders are on their way to a vehicle, or with one.
Onward ==
  /\ outbox[Server] \in Seq([to : Vehicles, order : Assigned])
  /\ \A v \in Vehicles :
       /\ commands[v] \in Seq(Assigned)
       /\ sim[v].order # NoOrder => sim[v].order \in Assigned

\* What v does, its tick being where loop says, has been reported, or the
\* tick waits for a request that will report it.
Waiting(v) ==
  LET order == sim[v].order
  IN  /\ sim[v].phase = "to_dropoff" =>
           \/ Known(order)
           \/ /\ loop[v] = "picked_up"
              /\ [order |-> order, status |-> "picked_up"] \in requests
      /\ loop[v] # "waiting" => sim[v].phase = "to_dropoff"
      /\ loop[v] = "delivered" =>
           /\ Known(order)
           /\ \/ [order |-> order, status |-> "delivered"] \in requests
              \/ table[order] = "delivered"
              \/ order \in failed

Reports == Onward /\ \A v \in Vehicles : Waiting(v)

\* What the server knows of an order it does not forget.
TableGrows ==
  \A o \in Orders :
    /\ o \in Assigned => o \in Assigned'
    /\ Known(o) => Known(o)'
    /\ table[o] = "delivered" => table'[o] = "delivered"
    /\ o \in failed => o \in failed'

LEMMA TableStays ==
  ASSUME UNCHANGED <<table, failed>>
  PROVE  TableGrows
BY DEF TableGrows, Assigned, Known

LEMMA DispatchGrows ==
  ASSUME AloneTypes, NEW v \in Vehicles, NEW o \in Orders, Dispatch(v, o)
  PROVE  TableGrows /\ o \in Assigned'
<1>1. table[o] = "pending" /\ table' = [table EXCEPT ![o] = "assigned"]
      /\ failed' = failed
  BY DEF Dispatch
<1>2. table'[o] = "assigned" /\ \A p \in Orders \ {o} : table'[p] = table[p]
  BY <1>1, TypeFacts
<1>3. "assigned" # "pending" /\ "picked_up" # "pending" /\ "delivered" # "pending"
  OBVIOUS
<1> QED
  BY <1>1, <1>2, <1>3 DEF TableGrows, Assigned, Known

\* A request about an order that a vehicle has leaves it reported, or failed.
LEMMA ServeGrows ==
  ASSUME AloneTypes, NEW r \in requests, Serve(r)
  PROVE  /\ TableGrows
         /\ r.order \in Assigned /\ r.status = "picked_up" => Known(r.order)'
         /\ Known(r.order) /\ r.status = "delivered" =>
              table'[r.order] = "delivered" \/ r.order \in failed'
<1>1. r.order \in Orders /\ r.status \in {"picked_up", "delivered"}
  BY TypeFacts DEF Request
<1>2. /\ CanTransitionTo(table[r.order], "picked_up") <=> table[r.order] = "assigned"
      /\ CanTransitionTo(table[r.order], "delivered") <=> table[r.order] = "picked_up"
  BY DEF CanTransitionTo, ValidTransitions
<1>3. CASE /\ CanTransitionTo(table[r.order], r.status)
           /\ table' = [table EXCEPT ![r.order] = r.status]
           /\ UNCHANGED failed
  <2>1. table'[r.order] = r.status
        /\ \A p \in Orders \ {r.order} : table'[p] = table[p]
    BY <1>1, <1>3, TypeFacts
  <2>2. \/ r.status = "picked_up" /\ table[r.order] = "assigned"
        \/ r.status = "delivered" /\ table[r.order] = "picked_up"
    BY <1>1, <1>2, <1>3
  <2> QED
    BY <1>1, <1>3, <2>1, <2>2 DEF TableGrows, Assigned, Known
<1>4. CASE ~CanTransitionTo(table[r.order], r.status) /\ UNCHANGED <<table, failed>>
  BY <1>1, <1>2, <1>4, TableStays DEF Assigned, Known
<1>5. CASE failed' = failed \cup {r.order} /\ UNCHANGED table
  BY <1>1, <1>5 DEF TableGrows, Assigned, Known
<1> QED
  BY <1>3, <1>4, <1>5 DEF Serve

LEMMA StepGrows ==
  ASSUME AloneTypes, AloneStep
  PROVE  TableGrows
<1>1. CASE \E v \in Vehicles, o \in Orders : Dispatch(v, o)
  BY <1>1, DispatchGrows
<1>2. CASE \E r \in requests : Serve(r)
  BY <1>2, ServeGrows
<1>3. CASE UNCHANGED <<table, failed>>
  BY <1>3, TableStays
<1> QED
  BY <1>1, <1>2, <1>3 DEF AloneStep, Drives, HandsIn, AtPickup, Tick, TakeCommand,
     Hear, BrokerTakes, BrokerTakesInVain, LoseLink, ComeBack, rest, serverVars

\* Orders that were on their way still are, whatever the server has learnt.
LEMMA StillOnward ==
  ASSUME AloneTypes, Onward, TableGrows
  PROVE  /\ outbox[Server] \in Seq([to : Vehicles, order : Assigned'])
         /\ \A v \in Vehicles :
              /\ commands[v] \in Seq(Assigned')
              /\ sim[v].order # NoOrder => sim[v].order \in Assigned'
<1>1. Assigned \subseteq Assigned'
  BY DEF TableGrows, Assigned
<1>2. [to : Vehicles, order : Assigned] \subseteq [to : Vehicles, order : Assigned']
  BY <1>1
<1>3. outbox[Server] \in Seq([to : Vehicles, order : Assigned'])
  <2> DEFINE S == [to : Vehicles, order : Assigned]
             T == [to : Vehicles, order : Assigned']
  <2>1. outbox[Server] \in Seq(S) /\ S \subseteq T
    BY <1>2 DEF Onward
  <2> HIDE DEF S, T
  <2>2. outbox[Server] \in Seq(T)
    BY <2>1, SeqMonotonic
  <2> QED
    BY <2>2 DEF T
<1>4. \A v \in Vehicles : commands[v] \in Seq(Assigned')
  BY <1>1, SeqMonotonic DEF Onward
<1> QED
  BY <1>1, <1>3, <1>4 DEF Onward

LEMMA OnwardSteps ==
  ASSUME AloneTypes, Onward, AloneStep
  PROVE  Onward'
<1> DEFINE Packet == [to : Vehicles, order : Assigned']
           Box == outbox'[Server] \in Seq(Packet)
           Way == \A v \in Vehicles : commands'[v] \in Seq(Assigned')
           Job == \A v \in Vehicles : sim'[v].order # NoOrder => sim'[v].order \in Assigned'
<1> SUFFICES Box /\ Way /\ Job
  BY DEF Onward
<1>s. /\ outbox[Server] \in Seq(Packet)
      /\ \A v \in Vehicles :
           /\ commands[v] \in Seq(Assigned')
           /\ sim[v].order # NoOrder => sim[v].order \in Assigned'
      /\ <<>> \in Seq(Assigned')
  BY StepGrows, StillOnward
<1>k. /\ outbox'[Server] = outbox[Server] => Box
      /\ commands' = commands => Way
      /\ sim' = sim => Job
  BY <1>s
<1>1. ASSUME NEW v \in Vehicles, NEW after \in VehicleState,
             sim' = [sim EXCEPT ![v] = after],
             after.order \in {sim[v].order, NoOrder}
      PROVE  Job
  BY <1>s, <1>1, TypeFacts
<1>2. ASSUME NEW v \in Vehicles, NEW news, outbox' = [outbox EXCEPT ![v] = @ \o news]
      PROVE  Box
  BY <1>s, <1>2, TypeFacts
<1>3. ASSUME NEW v \in Vehicles, Drives(v) \/ HandsIn(v) PROVE Box /\ Way /\ Job
  <2>1. \E s \in VehicleState :
          /\ s.order \in {sim[v].order, NoOrder}
          /\ \E said : Finished(v, s, said)
    BY <1>3 DEF Drives, HandsIn
  <2>2. PICK after \in VehicleState, news \in Seq(Message) :
          /\ sim' = [sim EXCEPT ![v] = after]
          /\ after.order \in {sim[v].order, NoOrder}
          /\ outbox' = [outbox EXCEPT ![v] = @ \o news]
    BY <2>1 DEF Finished
  <2>3. commands' = commands
    BY <1>3 DEF Drives, HandsIn
  <2> HIDE DEF Box, Way, Job
  <2> QED
    BY <1>k, <1>1, <1>2, <2>2, <2>3
<1>4. ASSUME NEW v \in Vehicles, AtPickup(v) PROVE Box /\ Way /\ Job
  <2>1. PICK after \in VehicleState :
          sim' = [sim EXCEPT ![v] = after] /\ after.order = sim[v].order
    BY <1>4 DEF AtPickup
  <2>2. /\ outbox' = [outbox EXCEPT ![v] = @ \o <<Says("delivering")>>]
        /\ commands' = commands
    BY <1>4 DEF AtPickup
  <2> HIDE DEF Box, Way, Job
  <2> QED
    BY <1>k, <1>1, <1>2, <2>1, <2>2
<1>5. ASSUME NEW v \in Vehicles, TakeCommand(v) PROVE Box /\ Way /\ Job
  <2>1. /\ commands[v] # <<>> /\ commands' = [commands EXCEPT ![v] = Tail(@)]
        /\ \E after \in VehicleState :
             /\ sim' = [sim EXCEPT ![v] = after]
             /\ after.order = Head(commands[v])
    BY <1>5, CommandOutcome
  <2>2. outbox' = outbox
    BY <1>5 DEF TakeCommand, sessionVars
  <2>3. Head(commands[v]) \in Assigned' /\ Tail(commands[v]) \in Seq(Assigned')
    BY <1>s, <2>1, HeadTailProperties
  <2>4. Way
    BY <1>s, <2>1, <2>3, TypeFacts
  <2>5. Job
    BY <1>s, <2>1, <2>3, TypeFacts
  <2> QED
    BY <1>k, <2>2, <2>4, <2>5
<1>6. ASSUME NEW v \in Vehicles, NEW o \in Orders, Dispatch(v, o)
      PROVE  Box /\ Way /\ Job
  <2>1. /\ outbox' = [outbox EXCEPT ![Server] = @ \o <<[to |-> v, order |-> o]>>]
        /\ UNCHANGED <<sim, commands>>
    BY <1>6 DEF Dispatch, Publish
  <2>2. o \in Assigned'
    BY <1>6, DispatchGrows
  <2>3. <<[to |-> v, order |-> o]>> \in Seq(Packet)
    BY <2>2
  <2> HIDE DEF Packet
  <2>4. outbox[Server] \o <<[to |-> v, order |-> o]>> \in Seq(Packet)
    BY <1>s, <2>3, ConcatProperties
  <2>5. Box
    BY <2>1, <2>4, TypeFacts
  <2> QED
    BY <1>k, <2>1, <2>5
<1>7. ASSUME NEW c \in Clients,
             BrokerTakes(c) \/ BrokerTakesInVain(c) \/ LoseLink(c) \/ ComeBack(c)
      PROVE  Box /\ Way /\ Job
  <2>1. sim' = sim
    BY <1>7 DEF BrokerTakes, BrokerTakesInVain, LoseLink, ComeBack, rest
  <2>2. ASSUME outbox[c] # <<>>, NEW gone, Route(c, gone) PROVE Way
    <3>1. \A v \in Vehicles :
            \/ commands'[v] = <<>>
            \/ commands'[v] = commands[v]
            \/ /\ c = Server
               /\ commands'[v] = Append(commands[v], Head(outbox[Server]).order)
      BY <2>2, RouteOutcome DEF Routed
    <3>2. c = Server => Head(outbox[Server]) \in Packet
      BY <1>s, <2>2, HeadTailProperties
    <3>3. c = Server => Head(outbox[Server]).order \in Assigned'
      BY <3>2
    <3>4. ASSUME NEW v \in Vehicles PROVE commands'[v] \in Seq(Assigned')
      <4>1. c = Server => Append(commands[v], Head(outbox[Server]).order) \in Seq(Assigned')
        BY <1>s, <3>3, AppendProperties
      <4> QED
        BY <1>s, <3>1, <4>1
    <3> QED
      BY <3>4
  <2>3. Way
    <3>1. CASE BrokerTakes(c)
      BY <2>2, <3>1 DEF BrokerTakes, Acknowledge, Unacknowledged
    <3>2. CASE BrokerTakesInVain(c)
      BY <2>2, <3>2 DEF BrokerTakesInVain, Unacknowledged
    <3>3. CASE LoseLink(c)
      <4>1. commands' \in {commands, [commands EXCEPT ![c] = <<>>]}
        BY <3>3 DEF LoseLink
      <4> QED
        BY <1>s, <4>1, TypeFacts
    <3>4. CASE ComeBack(c)
      BY <1>k, <3>4 DEF ComeBack
    <3> QED
      BY <1>7, <3>1, <3>2, <3>3, <3>4
  <2>4. Box
    <3>1. \/ outbox' = outbox
          \/ outbox[c] # <<>> /\ outbox' = [outbox EXCEPT ![c] = Tail(@)]
      BY <1>7 DEF BrokerTakes, BrokerTakesInVain, LoseLink, ComeBack, Acknowledge,
                  Unacknowledged, Disconnect, Reconnect
    <3>2. outbox[Server] # <<>> => Tail(outbox[Server]) \in Seq(Packet)
      BY <1>s, HeadTailProperties
    <3> HIDE DEF Packet
    <3> QED
      BY <1>s, <3>1, <3>2, TypeFacts
  <2> QED
    BY <1>k, <2>1, <2>3, <2>4
<1>8. ASSUME UNCHANGED <<sim, outbox, commands>> PROVE Box /\ Way /\ Job
  BY <1>k, <1>8
<1> HIDE DEF Box, Way, Job
<1>9. ASSUME \/ \E v \in Vehicles : Tick(v) /\ ArriveAtDropoff(v)
             \/ \E v \in Vehicles : Hear(v)
             \/ \E r \in requests : Serve(r)
             \/ UNCHANGED <<simVars, sessionVars>>
      PROVE  UNCHANGED <<sim, outbox, commands>>
  BY <1>9 DEF Tick, ArriveAtDropoff, Hear, Receive, Serve, Answer, simVars, sessionVars
<1> QED
  BY <1>3, <1>4, <1>5, <1>6, <1>7, <1>8, <1>9 DEF AloneStep

\* A vehicle that a step leaves alone, its request unanswered.
LEMMA StillWaiting ==
  ASSUME AloneTypes, TableGrows, NEW w \in Vehicles, Waiting(w),
         sim'[w] = sim[w], loop'[w] = loop[w], requests \subseteq requests'
  PROVE  Waiting(w)'
<1>1. sim[w].phase = "to_dropoff" => sim[w].order \in Orders
  BY PhaseFacts DEF AloneTypes, Aimed
<1> QED
  BY <1>1 DEF Waiting, TableGrows, Known

LEMMA WaitingSteps ==
  ASSUME AloneTypes, Reports, AloneStep
  PROVE  \A w \in Vehicles : Waiting(w)'
<1>g. TableGrows
  BY StepGrows
<1>w. \A w \in Vehicles : Waiting(w)
  BY DEF Reports
<1>q. \A w \in Vehicles :
        sim'[w] = sim[w] /\ loop'[w] = loop[w] /\ requests \subseteq requests'
          => Waiting(w)'
  BY <1>g, <1>w, StillWaiting
<1>o. \A w \in Vehicles : sim[w].phase = "to_dropoff" => sim[w].order \in Orders
  BY PhaseFacts DEF AloneTypes, Aimed
\* One vehicle is touched, and comes out right.
<1>1. ASSUME NEW v \in Vehicles, NEW after, NEW at, Waiting(v)',
             sim' = [sim EXCEPT ![v] = after],
             loop' = loop \/ loop' = [loop EXCEPT ![v] = at],
             requests \subseteq requests'
      PROVE  \A w \in Vehicles : Waiting(w)'
  <2>1. \A w \in Vehicles \ {v} : sim'[w] = sim[w] /\ loop'[w] = loop[w]
    BY <1>1, TypeFacts
  <2> QED
    BY <1>1, <1>q, <2>1
<1>2. ASSUME NEW v \in Vehicles, Drives(v) PROVE \A w \in Vehicles : Waiting(w)'
  <2>1. PICK after \in VehicleState :
          /\ sim' = [sim EXCEPT ![v] = after]
          /\ after.order = sim[v].order
          /\ after.phase \in {sim[v].phase, NoPhase}
          /\ loop' = [loop EXCEPT ![v] = "waiting"]
    BY <1>2 DEF Drives, Finished
  <2>2. sim[v].phase = "to_dropoff" => Known(sim[v].order)
    <3>1. CASE loop[v] = "waiting"
      BY <1>w, <3>1 DEF Waiting
    <3>2. CASE loop[v] = "picked_up" /\ Answered(v)
      BY <1>w, <3>2 DEF Waiting, Answered
    <3> QED
      BY <1>2, <3>1, <3>2 DEF Drives
  <2>3. sim'[v] = after /\ loop'[v] = "waiting" /\ requests' = requests
    BY <1>2, <2>1, TypeFacts DEF Drives
  <2>4. after.phase = "to_dropoff" => Known(after.order)'
    BY <1>g, <1>o, <2>1, <2>2, PhaseFacts DEF TableGrows
  <2>5. Waiting(v)'
    BY <2>3, <2>4 DEF Waiting
  <2> QED
    BY <1>1, <2>1, <2>3, <2>5
<1>3. ASSUME NEW v \in Vehicles, HandsIn(v) PROVE \A w \in Vehicles : Waiting(w)'
  <2>1. PICK after \in VehicleState :
          /\ sim' = [sim EXCEPT ![v] = after]
          /\ after.phase = NoPhase
          /\ loop' = [loop EXCEPT ![v] = "waiting"]
    BY <1>3 DEF HandsIn, Finished
  <2>2. sim'[v] = after /\ loop'[v] = "waiting" /\ requests' = requests
    BY <1>3, <2>1, TypeFacts DEF HandsIn
  <2>3. Waiting(v)'
    BY <2>1, <2>2, PhaseFacts DEF Waiting
  <2> QED
    BY <1>1, <2>1, <2>2, <2>3
<1>4. ASSUME NEW v \in Vehicles, AtPickup(v) PROVE \A w \in Vehicles : Waiting(w)'
  <2>1. PICK after \in VehicleState :
          /\ sim' = [sim EXCEPT ![v] = after]
          /\ after.order = sim[v].order /\ after.phase = "to_dropoff"
    BY <1>4 DEF AtPickup
  <2>2. /\ requests' = requests \cup {[order |-> sim[v].order, status |-> "picked_up"]}
        /\ loop' = [loop EXCEPT ![v] = "picked_up"]
    BY <1>4 DEF AtPickup
  <2>3. sim'[v] = after /\ loop'[v] = "picked_up"
    BY <2>1, <2>2, TypeFacts
  <2>4. Waiting(v)'
    BY <2>1, <2>2, <2>3 DEF Waiting
  <2> QED
    BY <1>1, <2>1, <2>2, <2>4
<1>5. ASSUME NEW v \in Vehicles, Tick(v), ArriveAtDropoff(v)
      PROVE  \A w \in Vehicles : Waiting(w)'
  <2>1. /\ sim[v].phase = "to_dropoff" /\ loop[v] = "waiting"
        /\ requests' = requests \cup {[order |-> sim[v].order, status |-> "delivered"]}
        /\ loop' = [loop EXCEPT ![v] = "delivered"]
        /\ sim' = sim
    BY <1>5 DEF Tick, ArriveAtDropoff
  <2>2. sim' = [sim EXCEPT ![v] = sim[v]]
    BY <2>1, TypeFacts
  <2>3. Known(sim[v].order)'
    BY <1>g, <1>o, <1>w, <2>1 DEF Waiting, TableGrows
  <2>4. Waiting(v)'
    <3>1. loop'[v] = "delivered"
      BY <2>1, TypeFacts
    <3> QED
      BY <2>1, <2>3, <3>1 DEF Waiting
  <2> QED
    BY <1>1, <2>1, <2>2, <2>4
<1>6. ASSUME NEW v \in Vehicles, TakeCommand(v) PROVE \A w \in Vehicles : Waiting(w)'
  <2>1. PICK after \in VehicleState :
          /\ sim' = [sim EXCEPT ![v] = after] /\ after.phase = "to_pickup"
    BY <1>6, CommandOutcome
  <2>2. loop[v] = "waiting" /\ loop' = loop /\ requests' = requests
    BY <1>6 DEF TakeCommand, OnCommand
  <2>3. Waiting(v)'
    BY <2>1, <2>2, TypeFacts DEF Waiting
  <2> QED
    BY <1>1, <2>1, <2>2, <2>3
\* A request is served: its vehicle, if it still waits, has its answer.
<1>7. ASSUME NEW r \in requests, Serve(r) PROVE \A w \in Vehicles : Waiting(w)'
  <2>1. /\ requests' = requests \ {r}
        /\ UNCHANGED <<sim, loop>>
    BY <1>7 DEF Serve, Answer
  <2>2. /\ r.order \in Assigned /\ r.status = "picked_up" => Known(r.order)'
        /\ Known(r.order) /\ r.status = "delivered" =>
             table'[r.order] = "delivered" \/ r.order \in failed'
    BY <1>7, ServeGrows
  <2>3. ASSUME NEW w \in Vehicles, sim[w].phase = "to_dropoff"
        PROVE  Waiting(w)'
    <3>0. PICK order \in Orders : order = sim[w].order
      BY <1>o, <2>3
    <3>1. order \in Assigned
      BY <3>0, SimAssumption DEF Reports, Onward
    <3>2. \/ Known(order)'
          \/ /\ loop[w] = "picked_up"
             /\ [order |-> order, status |-> "picked_up"] \in requests'
      <4>1. CASE Known(order)
        BY <1>g, <3>1, <4>1 DEF TableGrows
      <4>2. CASE r = [order |-> order, status |-> "picked_up"]
        BY <2>2, <3>1, <4>2
      <4>3. CASE /\ loop[w] = "picked_up"
                 /\ [order |-> order, status |-> "picked_up"] \in requests \ {r}
        BY <2>1, <4>3
      <4> QED
        BY <1>w, <2>3, <3>0, <4>1, <4>2, <4>3 DEF Waiting
    <3>3. loop[w] = "delivered" =>
            /\ Known(order)'
            /\ \/ [order |-> order, status |-> "delivered"] \in requests'
               \/ table'[order] = "delivered"
               \/ order \in failed'
      <4> SUFFICES ASSUME loop[w] = "delivered"
                   PROVE  /\ Known(order)'
                          /\ \/ [order |-> order, status |-> "delivered"] \in requests'
                             \/ table'[order] = "delivered"
                             \/ order \in failed'
        OBVIOUS
      <4>1. /\ Known(order)
            /\ \/ [order |-> order, status |-> "delivered"] \in requests
               \/ table[order] = "delivered"
               \/ order \in failed
        BY <1>w, <3>0 DEF Waiting
      <4>2. Known(order)'
        BY <1>g, <3>1, <4>1 DEF TableGrows
      <4>3. CASE r = [order |-> order, status |-> "delivered"]
        BY <2>2, <4>1, <4>2, <4>3
      <4>4. CASE [order |-> order, status |-> "delivered"] \in requests \ {r}
        BY <2>1, <4>2, <4>4
      <4>5. CASE table[order] = "delivered" \/ order \in failed
        BY <1>g, <3>1, <4>2, <4>5 DEF TableGrows
      <4> QED
        BY <4>1, <4>3, <4>4, <4>5
    <3> QED
      BY <2>1, <2>3, <3>0, <3>2, <3>3 DEF Waiting
  <2>4. ASSUME NEW w \in Vehicles, sim[w].phase # "to_dropoff"
        PROVE  Waiting(w)'
    BY <1>w, <2>1, <2>4 DEF Waiting
  <2> QED
    BY <2>3, <2>4
<1>8. ASSUME UNCHANGED <<sim, loop, requests>> PROVE \A w \in Vehicles : Waiting(w)'
  BY <1>q, <1>8
<1>9. ASSUME \/ \E v \in Vehicles : Hear(v)
             \/ \E v \in Vehicles, o \in Orders : Dispatch(v, o)
             \/ \E c \in Clients : \/ BrokerTakes(c) \/ BrokerTakesInVain(c)
                                   \/ LoseLink(c) \/ ComeBack(c)
             \/ UNCHANGED <<simVars, loop>>
      PROVE  UNCHANGED <<sim, loop, requests>>
  BY <1>9 DEF Hear, Receive, Dispatch, BrokerTakes, BrokerTakesInVain, LoseLink,
              ComeBack, rest, simVars
<1> QED
  BY <1>2, <1>3, <1>4, <1>5, <1>6, <1>7, <1>8, <1>9 DEF AloneStep

\* Of the steps of a vehicle only HandsIn takes its order away.
LEMMA HandsInOnly ==
  ASSUME AloneTypes, AloneStep, NEW v \in Vehicles, NEW o \in Orders,
         sim[v].order = o, sim'[v].order = NoOrder
  PROVE  HandsIn(v)
<1>o. o # NoOrder
  BY SimAssumption
<1>1. ASSUME NEW w \in Vehicles, NEW after, sim' = [sim EXCEPT ![w] = after],
             after.order = sim[w].order \/ after.order \in Orders
      PROVE  FALSE
  BY <1>1, <1>o, TypeFacts, SimAssumption
<1>2. ASSUME NEW w \in Vehicles, Drives(w) PROVE FALSE
  <2>1. PICK after \in VehicleState :
          sim' = [sim EXCEPT ![w] = after] /\ after.order = sim[w].order
    BY <1>2 DEF Drives, Finished
  <2> QED
    BY <1>1, <2>1
<1>3. ASSUME NEW w \in Vehicles, HandsIn(w) PROVE w = v
  <2>1. PICK after \in VehicleState : sim' = [sim EXCEPT ![w] = after]
    BY <1>3 DEF HandsIn, Finished
  <2> QED
    BY <1>o, <2>1, TypeFacts
<1>4. ASSUME NEW w \in Vehicles, AtPickup(w) PROVE FALSE
  <2>1. PICK after \in VehicleState :
          sim' = [sim EXCEPT ![w] = after] /\ after.order = sim[w].order
    BY <1>4 DEF AtPickup
  <2> QED
    BY <1>1, <2>1
<1>5. ASSUME NEW w \in Vehicles, TakeCommand(w) PROVE FALSE
  <2>1. PICK after \in VehicleState :
          sim' = [sim EXCEPT ![w] = after] /\ after.order \in Orders
    BY <1>5, CommandOutcome
  <2> QED
    BY <1>1, <2>1
<1>6. ASSUME UNCHANGED sim PROVE FALSE
  BY <1>6, <1>o
<1> QED
  BY <1>2, <1>3, <1>4, <1>5, <1>6
  DEF AloneStep, Tick, ArriveAtDropoff, Hear, Receive, Dispatch, Serve, Answer,
      BrokerTakes, BrokerTakesInVain, LoseLink, ComeBack, rest, simVars

\* A vehicle lets go of its order at the dropoff only when the server has the
\* order as delivered, or a request about it failed: whatever links do and
\* however often a command comes, because the tick waits for the answer about
\* the pickup before it goes on, with its mutex held, and for the one about
\* the delivery before it lets go (updateOrderStatus, cmd/simulator/main.go).
THEOREM HandsOverOnly == StandaloneSpec => HandsOver
<1>1. StandaloneInit => AloneTypes /\ Reports
  <2> SUFFICES ASSUME StandaloneInit PROVE AloneTypes /\ Reports
    OBVIOUS
  <2>1. AloneTypes
    BY AloneStarts
  <2>2. PICK level \in [Vehicles -> StartBattery] :
          sim = [v \in Vehicles |-> NewVehicle(level[v])]
    BY DEF StandaloneInit
  <2>3. \A v \in Vehicles : sim[v].phase = NoPhase /\ sim[v].order = NoOrder
    BY <2>2, NewVehicleState
  <2>4. outbox[Server] = <<>> /\ \A v \in Vehicles : commands[v] = <<>>
    BY StandaloneAssumption DEF StandaloneInit, SessionInit
  <2>5. <<>> \in Seq([to : Vehicles, order : Assigned]) /\ <<>> \in Seq(Assigned)
    BY EmptySeq
  <2>6. Onward
    BY <2>3, <2>4, <2>5 DEF Onward
  <2>7. \A v \in Vehicles : Waiting(v)
    BY <2>3, PhaseFacts DEF Waiting, StandaloneInit
  <2> QED
    BY <2>1, <2>6, <2>7 DEF Reports
<1>2. AloneTypes /\ Reports /\ [StandaloneNext]_aloneVars => (AloneTypes /\ Reports)'
  <2> SUFFICES ASSUME AloneTypes, Reports, [StandaloneNext]_aloneVars
               PROVE  AloneTypes' /\ Reports'
    OBVIOUS
  <2>1. AloneStep /\ AloneTypes'
    BY AloneSteps
  <2>2. Onward'
    BY <2>1, OnwardSteps DEF Reports
  <2>3. \A v \in Vehicles : Waiting(v)'
    BY <2>1, WaitingSteps
  <2> QED
    BY <2>1, <2>2, <2>3 DEF Reports
<1>3. AloneTypes /\ Reports /\ [StandaloneNext]_aloneVars =>
        [\A v \in Vehicles, o \in Orders :
           sim[v].order = o /\ sim'[v].order = NoOrder =>
             table[o] = "delivered" \/ o \in failed]_aloneVars
  <2> SUFFICES ASSUME AloneTypes, Reports, [StandaloneNext]_aloneVars,
                      NEW v \in Vehicles, NEW o \in Orders,
                      sim[v].order = o, sim'[v].order = NoOrder
               PROVE  table[o] = "delivered" \/ o \in failed
    OBVIOUS
  <2>1. HandsIn(v)
    BY AloneSteps, HandsInOnly
  <2>2. /\ loop[v] = "delivered"
        /\ [order |-> o, status |-> "delivered"] \notin requests
    <3>1. loop[v] \in {"waiting", "picked_up", "delivered"}
      BY TypeFacts
    <3> QED
      BY <2>1, <3>1 DEF HandsIn, Answered
  <2> QED
    BY <2>2 DEF Reports, Waiting
<1> QED
  BY <1>1, <1>2, <1>3, PTL DEF StandaloneSpec, HandsOver

=============================================================================
