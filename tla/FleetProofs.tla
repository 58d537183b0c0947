----------------------------- MODULE FleetProofs -----------------------------
(***************************************************************************)
(* What holds of the whole fleet for any orders, vehicles, dispatchers and *)
(* handlers, any distances and batteries, whatever is lost, overtaken or   *)
(* repeated, and however often the server dies.                            *)
(*                                                                         *)
(* TableNotAhead speaks of the table and of the road; what ties them       *)
(* together is on its way from one to the other.  Reported(o, s) is every  *)
(* trace of the news that o is in status s: a request, the call that deals *)
(* with it, the row.  Road says where an order can be at once: nowhere     *)
(* while a dispatcher has it; then in one command; then on one vehicle,    *)
(* which has let go of it when the delivery is reported.                   *)
(*                                                                         *)
(* OneJobAtATime and ServerKnows need the other way round: what the server *)
(* believes of a vehicle, against what the vehicle does.  JobIInv says of  *)
(* each vehicle which of dispatcher, command and order it has (OneJob),    *)
(* what the messages on their way will tell (FreeNews), what the cache and *)
(* the row have of what was heard (CacheNews, RowNews), and what was heard *)
(* against the phase of the vehicle (RoadNews).  It holds when the system  *)
(* is Calm; the runs show what happens when it is not.                     *)
(***************************************************************************)
EXTENDS Fleet, DispatchEngineProofs, SimVehicleProofs

News == {"picked_up", "delivered"}

Reported(o, s) ==
  \/ [order |-> o, status |-> s] \in requests
  \/ \E c \in Callers :
       ocalls[c].op = "transition" /\ ocalls[c].id = o /\ ocalls[c].next = s
  \/ orders[o].status = s

Commanded(o) ==
  \E v \in Vehicles : \E i \in DOMAIN commands[v] : commands[v][i] = o

Begun(o) ==
  \/ Commanded(o)
  \/ \E v \in Vehicles : sim[v].order = o
  \/ \E s \in News : Reported(o, s)

\* Not yet assigned for the first time.
Waits(o) == orders[o].status \in {"absent", "pending"}

\* What a handler or a dispatcher has to do with an order.
Handled ==
  /\ \A c \in Callers :
       ocalls[c].op = "transition" => ocalls[c].next \in News \cup {"cancelled"}
  /\ \A o \in Orders : Waits(o) => ~Begun(o)
  /\ \A d \in Dispatchers :
       pc[d] \in Looking \cup Chosen => ~Begun(job[d].order)
  /\ \A d \in Dispatchers :
       pc[d] \in Chosen \ {"assign"} => ~Waits(job[d].order)

\* An order is in one command at most, and on one vehicle at most.
InOneCommand ==
  \A v, w \in Vehicles : \A i \in DOMAIN commands[v], j \in DOMAIN commands[w] :
    commands[v][i] = commands[w][j] => v = w /\ i = j

OnOneVehicle ==
  \A v, w \in Vehicles :
    sim[v].order = sim[w].order /\ sim[v].order # NoOrder => v = w

\* What a command or a vehicle has to do with it.
OnTheWay ==
  /\ InOneCommand
  /\ OnOneVehicle
  /\ \A o \in Orders : Commanded(o) =>
       /\ \A v \in Vehicles : sim[v].order # o
       /\ \A s \in News : ~Reported(o, s)
  /\ \A v \in Vehicles, o \in Orders : sim[v].order = o =>
       /\ Reported(o, "picked_up") => sim[v].phase = "to_dropoff"
       /\ ~Reported(o, "delivered")

Road == Handled /\ OnTheWay

FleetIInv ==
  /\ EngineIInv
  /\ SimTypeOK
  /\ Phased
  /\ \A v \in Vehicles : db[v] # Absent
  /\ Road

-----------------------------------------------------------------------------
(* The vehicles.                                                           *)

\* The other steps that concern the vehicles leave them as they are.
LEMMA QuietSimSteps ==
  ASSUME SimTypeOK, Phased,
         \/ \E v \in Vehicles : Receive(v) \/ Lose(v)
         \/ \E v \in Vehicles, o \in Orders : Send(v, o)
         \/ \E r \in requests : Answer(r)
         \/ UNCHANGED simVars
  PROVE  SimTypeOK' /\ Phased' /\ (ChargesInTime => ChargesInTime')
<1>t. /\ sim \in [Vehicles -> VehicleState]
      /\ inbox \in [Vehicles -> Seq(Message)]
      /\ commands \in [Vehicles -> Seq(Orders)]
      /\ requests \subseteq Request
      /\ heard \in [Vehicles -> {BlankStatus, "idle", "delivering", "charging"}]
  BY DEF SimTypeOK
<1>s. sim' = sim
  BY DEF Receive, Lose, Send, Answer, simVars
<1>h. \A v \in Vehicles : inbox[v] # <<>> =>
        /\ Head(inbox[v]) \in Message
        /\ Tail(inbox[v]) \in Seq(Message)
  BY <1>t, HeadTailProperties
<1>1. SimTypeOK'
  <2>1. ASSUME NEW v \in Vehicles, Receive(v) PROVE SimTypeOK'
    <3>1. Head(inbox[v]).topic = "status" =>
            Head(inbox[v]).says \in {"idle", "delivering", "charging"}
      BY <2>1, <1>h DEF Receive, Message
    <3> DEFINE word == IF Head(inbox[v]).topic = "status"
                       THEN Head(inbox[v]).says ELSE heard[v]
    <3>2. word \in {BlankStatus, "idle", "delivering", "charging"}
      BY <3>1, <1>t
    <3>3. heard' = [heard EXCEPT ![v] = word]
      BY <2>1, <1>t DEF Receive
    <3> HIDE DEF word
    <3>4. inbox' \in [Vehicles -> Seq(Message)]
      BY <2>1, <1>t, <1>h DEF Receive
    <3> QED
      BY <2>1, <3>2, <3>3, <3>4, <1>t DEF Receive, SimTypeOK
  <2>2. ASSUME NEW v \in Vehicles, Lose(v) PROVE SimTypeOK'
    <3>1. inbox' \in [Vehicles -> Seq(Message)]
      BY <2>2, <1>t, <1>h DEF Lose
    <3>2. commands' \in [Vehicles -> Seq(Orders)]
      BY <2>2, <1>t, CommandHead DEF Lose
    <3> QED
      BY <2>2, <3>1, <3>2, <1>t DEF Lose, SimTypeOK
  <2>3. ASSUME NEW v \in Vehicles, NEW o \in Orders, Send(v, o)
        PROVE  SimTypeOK'
    <3>1. Append(commands[v], o) \in Seq(Orders)
      BY <1>t, AppendProperties
    <3> QED
      BY <2>3, <3>1, <1>t DEF Send, SimTypeOK
  <2>4. CASE \E r \in requests : Answer(r)
    BY <2>4, <1>t DEF Answer, SimTypeOK
  <2>5. CASE UNCHANGED simVars
    BY <2>5, <1>t DEF simVars, SimTypeOK
  <2> QED
    BY <2>1, <2>2, <2>3, <2>4, <2>5
<1> QED
  BY <1>1, <1>s DEF Phased, ChargesInTime

-----------------------------------------------------------------------------
(* The road.                                                               *)

\* A step that brings no news, adds no command and leaves the vehicles alone,
\* while dispatchers take up pending orders only.
LEMMA Quieter ==
  ASSUME FleetIInv,
         sim' = sim, requests' \subseteq requests, InOneCommand',
         \A o \in Orders : Commanded(o)' => Commanded(o),
         \A o \in Orders : Waits(o)' => Waits(o),
         \A o \in Orders, s \in News : orders'[o].status = s => Reported(o, s),
         \A c \in Callers : ocalls'[c].op = "transition" =>
           /\ ocalls'[c].next \in News \cup {"cancelled"}
           /\ \A s \in News : ocalls'[c].next = s => Reported(ocalls'[c].id, s),
         \A d \in Dispatchers : pc'[d] \in Looking \cup Chosen =>
           \/ pc[d] \in Looking \cup Chosen /\ job'[d].order = job[d].order
           \/ job'[d].order \in Orders /\ Waits(job'[d].order),
         \A d \in Dispatchers : pc'[d] \in Chosen \ {"assign"} =>
           ~Waits(job[d].order)'
  PROVE  Road'
<1>r. \A o \in Orders, s \in News : Reported(o, s)' => Reported(o, s)
  BY DEF Reported
<1>j. \A d \in Dispatchers :
        pc[d] \in Looking \cup Chosen => job[d].order \in Orders
  BY DEF FleetIInv, EngineIInv, Shape, Looking, Chosen, Job
<1>b. \A o \in Orders : Begun(o)' => Begun(o)
  BY <1>r DEF Begun
<1>1. Handled'
  <2>1. \A d \in Dispatchers :
          pc'[d] \in Looking \cup Chosen => ~Begun(job[d].order)'
    <3> SUFFICES ASSUME NEW d \in Dispatchers,
                        pc'[d] \in Looking \cup Chosen
                 PROVE  ~Begun(job[d].order)'
      OBVIOUS
    <3>1. job'[d].order \in Orders /\ ~Begun(job'[d].order)
      BY <1>j DEF FleetIInv, Road, Handled
    <3> QED
      BY <3>1, <1>b DEF Begun, Commanded, Reported
  <2>2. \A o \in Orders : Waits(o)' => ~Begun(o)'
    BY <1>b DEF FleetIInv, Road, Handled
  <2> QED
    BY <2>1, <2>2 DEF Handled
<1>2. OnTheWay'
  <2>1. OnOneVehicle'
    BY DEF FleetIInv, Road, OnTheWay, OnOneVehicle
  <2>2. \A o \in Orders : Commanded(o)' =>
          /\ \A v \in Vehicles : sim'[v].order # o
          /\ \A s \in News : ~Reported(o, s)'
    BY <1>r DEF FleetIInv, Road, OnTheWay
  <2>3. \A v \in Vehicles, o \in Orders : sim'[v].order = o =>
          /\ Reported(o, "picked_up")' => sim'[v].phase = "to_dropoff"
          /\ ~Reported(o, "delivered")'
    BY <1>r DEF FleetIInv, Road, OnTheWay, News
  <2> QED
    BY <2>1, <2>2, <2>3 DEF OnTheWay
<1> QED
  BY <1>1, <1>2 DEF Road

\* The same for a step that leaves the vehicles and what is on its way to or
\* from them alone.
LEMMA EngineQuieter ==
  ASSUME FleetIInv, UNCHANGED simVars,
         \A o \in Orders : Waits(o)' => Waits(o),
         \A o \in Orders, s \in News : orders'[o].status = s => Reported(o, s),
         \A c \in Callers : ocalls'[c].op = "transition" =>
           \/ ocalls'[c] = ocalls[c]
           \/ ocalls'[c].next = "cancelled",
         \A d \in Dispatchers : pc'[d] \in Looking \cup Chosen =>
           \/ pc[d] \in Looking \cup Chosen /\ job'[d].order = job[d].order
           \/ job'[d].order \in Orders /\ Waits(job'[d].order),
         \A d \in Dispatchers : pc'[d] \in Chosen \ {"assign"} =>
           ~Waits(job[d].order)'
  PROVE  Road'
<1>1. sim' = sim /\ commands' = commands /\ requests' = requests
  BY DEF simVars
<1>2. InOneCommand' /\ \A o \in Orders : Commanded(o)' => Commanded(o)
  BY <1>1 DEF FleetIInv, Road, OnTheWay, InOneCommand, Commanded
<1>3. \A c \in Callers : ocalls'[c].op = "transition" =>
        /\ ocalls'[c].next \in News \cup {"cancelled"}
        /\ \A s \in News : ocalls'[c].next = s => Reported(ocalls'[c].id, s)
  BY DEF FleetIInv, Road, Handled, News, Reported
<1> QED
  BY <1>1, <1>2, <1>3, Quieter

\* The row that Assign writes is no news, and no longer waits.
LEMMA AssignedNoNews ==
  ASSUME NEW d \in Callers, FleetIInv, AssignUpdate(d)
  PROVE  /\ \A o \in Orders : Waits(o)' => Waits(o)
         /\ \A o \in Orders, s \in News :
              orders'[o].status = s => Reported(o, s)
         /\ \A c \in Callers : ocalls'[c] = ocalls[c] \/ ocalls'[c] = NoCall
         /\ ocalls[d].op = "assign"
         /\ orders'[ocalls[d].id].status = "assigned"
<1>1. /\ orders \in [Orders -> Row]
      /\ ocalls \in [Callers -> {NoCall} \cup TransitionCall \cup AssignCall]
  BY DEF FleetIInv, EngineIInv, EngineTypeOK, OrderTypeOK
<1>2. ocalls[d].op = "assign" /\ ocalls' = [ocalls EXCEPT ![d] = NoCall]
  BY DEF AssignUpdate, Return
<1>3. ocalls[d].id \in Orders
  BY <1>1, <1>2 DEF NoCall, TransitionCall, AssignCall
<1>4. PICK now : orders' = [orders EXCEPT ![ocalls[d].id] =
                    AssignedRow(@, ocalls[d].vehicle, now)]
  BY DEF AssignUpdate
<1>5. /\ orders'[ocalls[d].id].status = "assigned"
      /\ \A o \in Orders \ {ocalls[d].id} : orders'[o] = orders[o]
  BY <1>1, <1>3, <1>4 DEF AssignedRow, Row
<1>6. \A c \in Callers : ocalls'[c] = ocalls[c] \/ ocalls'[c] = NoCall
  BY <1>1, <1>2
<1> QED
  BY <1>2, <1>3, <1>5, <1>6 DEF Waits, News, Reported

\* DispatchOrder, up to the command.
LEMMA DispatchRoad ==
  ASSUME FleetIInv, NEW d \in Dispatchers,
         (\E o \in Orders : DispatchOrder(d, o)) \/ DispatchStep(d),
         pc[d] # "publish", UNCHANGED simVars
  PROVE  Road'
<1>t. /\ pc \in [Dispatchers -> Steps]
      /\ job \in [Dispatchers -> Job \cup {NoJob}]
      /\ ocalls \in [Callers -> {NoCall} \cup TransitionCall \cup AssignCall]
      /\ d \in Callers
  BY DispatcherCalls
  DEF FleetIInv, EngineIInv, EngineTypeOK, OrderTypeOK
<1>j. pc[d] # "idle" => job[d] \in Job /\ job[d].order \in Orders
  BY DEF FleetIInv, EngineIInv, Shape, Job
<1>w. \A x \in Dispatchers :
        pc[x] \in Chosen \ {"assign"} => ~Waits(job[x].order)
  BY DEF FleetIInv, Road, Handled
<1>r. \A o \in Orders, s \in News : orders[o].status = s => Reported(o, s)
  BY DEF Reported
<1>o. \A x \in Dispatchers : x # d =>
        pc'[x] = pc[x] /\ (job'[x] = job[x])
  BY <1>t DEF DispatchOrder, DispatchStep, Lock, GetOrder, GetKeys, MGet,
              ListVehicles, Match, AssignOrder, SetEnRoute, SettingStatus,
              Publish, Leave, Goto
<1>1. ASSUME orders' = orders,
             \A c \in Callers : ocalls'[c].op = "transition" =>
               ocalls'[c] = ocalls[c],
             pc'[d] \in Looking \cup Chosen =>
               \/ pc[d] \in Looking \cup Chosen /\ job'[d].order = job[d].order
               \/ job'[d].order \in Orders /\ Waits(job'[d].order),
             pc'[d] \in Chosen \ {"assign"} => ~Waits(job'[d].order)
      PROVE  Road'
  <2>1. \A o \in Orders : Waits(o)' => Waits(o)
    BY <1>1 DEF Waits
  <2>2. \A x \in Dispatchers :
          pc'[x] \in Chosen \ {"assign"} => ~Waits(job[x].order)'
    BY <1>1, <1>o, <1>w DEF Waits
  <2>3. \A x \in Dispatchers : pc'[x] \in Looking \cup Chosen =>
          \/ pc[x] \in Looking \cup Chosen /\ job'[x].order = job[x].order
          \/ job'[x].order \in Orders /\ Waits(job'[x].order)
    BY <1>1, <1>o
  <2> QED
    BY <1>1, <1>r, <2>1, <2>2, <2>3, EngineQuieter
<1>2. ASSUME NEW o \in Orders, DispatchOrder(d, o) PROVE Road'
  BY <1>1, <1>2, <1>t DEF DispatchOrder, Goto, orderVars, Looking, Chosen
<1>3. CASE Lock(d)
  BY <1>1, <1>3, <1>t DEF Lock, Goto, orderVars, Looking, Chosen
<1>4. CASE GetOrder(d)
  BY <1>1, <1>4, <1>t, <1>j
  DEF GetOrder, Leave, Goto, orderVars, Looking, Chosen, Waits
<1>5. CASE GetKeys(d)
  BY <1>1, <1>5, <1>t, <1>j
  DEF GetKeys, Goto, orderVars, Looking, Chosen, Job
<1>6. CASE MGet(d) \/ ListVehicles(d)
  <2>1. /\ pc[d] \in Looking
        /\ \/ Leave(d) /\ UNCHANGED orderVars
           \/ \E v \in Vehicles :
                /\ BeginAssign(d, job[d].order, v)
                /\ job' = [job EXCEPT ![d].best = v]
                /\ Goto(d, "assign")
           \/ Goto(d, "list") /\ UNCHANGED <<orderVars, mu, job>>
    BY <1>6, SearchOutcome DEF FleetIInv, EngineIInv
  <2>2. CASE Leave(d) /\ UNCHANGED orderVars
    BY <1>1, <2>2, <1>t DEF Leave, Goto, orderVars, Looking, Chosen
  <2>3. ASSUME NEW v \in Vehicles, BeginAssign(d, job[d].order, v),
               job' = [job EXCEPT ![d].best = v], Goto(d, "assign")
        PROVE  Road'
    <3>1. orders' = orders /\ \A c \in Callers :
            ocalls'[c].op = "transition" => ocalls'[c] = ocalls[c]
      BY <2>3, <1>t DEF BeginAssign
    <3>2. pc'[d] = "assign" /\ job'[d].order = job[d].order
      BY <2>1, <2>3, <1>t, <1>j DEF Goto, Job, Looking
    <3> QED
      BY <1>1, <2>1, <3>1, <3>2
  <2>4. CASE Goto(d, "list") /\ UNCHANGED <<orderVars, mu, job>>
    BY <1>1, <2>1, <2>4, <1>t DEF Goto, orderVars, Looking, Chosen
  <2> QED
    BY <2>1, <2>2, <2>3, <2>4
<1>7. CASE AssignOrder(d)
  <2>1. /\ pc[d] = "assign"
        /\ ocalls[d].id = job[d].order
    BY <1>7 DEF AssignOrder, FleetIInv, EngineIInv, Shape
  <2>2. CASE /\ AssignUpdate(d)
             /\ (Goto(d, "status") /\ UNCHANGED job) \/ Leave(d)
    <3>1. pc'[d] \in {"idle", "status"} /\
          (pc'[d] = "status" => job'[d].order = job[d].order)
      BY <2>2, <1>t DEF Goto, Leave
    <3>2. /\ \A o \in Orders : Waits(o)' => Waits(o)
          /\ \A o \in Orders, s \in News :
               orders'[o].status = s => Reported(o, s)
      BY <2>2, <1>t, AssignedNoNews
    <3>3. /\ \A c \in Callers :
               ocalls'[c].op = "transition" => ocalls'[c] = ocalls[c]
          /\ ~(orders'[job[d].order].status \in {"absent", "pending"})
      BY <2>1, <2>2, <1>t, AssignedNoNews DEF NoCall
    <3>4. \A x \in Dispatchers : pc'[x] \in Looking \cup Chosen =>
            pc[x] \in Looking \cup Chosen /\ job'[x].order = job[x].order
      BY <2>1, <3>1, <1>o DEF Looking, Chosen
    <3>5. \A x \in Dispatchers : pc[x] \in Looking \cup Chosen =>
            job[x].order \in Orders
      BY DEF FleetIInv, EngineIInv, Shape, Looking, Chosen, Job
    <3>6. \A x \in Dispatchers :
            pc'[x] \in Chosen \ {"assign"} => ~Waits(job[x].order)'
      BY <2>1, <3>1, <3>2, <3>3, <3>4, <3>5, <1>o, <1>w DEF Waits
    <3> QED
      BY <3>2, <3>3, <3>4, <3>6, EngineQuieter
  <2>3. CASE UpdateFails(d) /\ Leave(d)
    BY <1>1, <2>3, <1>t DEF UpdateFails, Return, Leave, Goto, NoCall, Looking, Chosen
  <2> QED
    BY <1>7, <2>2, <2>3 DEF AssignOrder
<1>8. CASE SetEnRoute(d) \/ SettingStatus(d)
  <2>1. /\ pc[d] \in {"status", "setting"}
        /\ pc'[d] \in {"setting", "publish"}
        /\ UNCHANGED <<orders, ocalls, job>>
    BY <1>8, <1>t DEF SetEnRoute, SettingStatus, Goto, orderVars
  <2> QED
    BY <1>1, <1>w, <2>1 DEF Looking, Chosen
<1> QED
  BY <1>2, <1>3, <1>4, <1>5, <1>6, <1>7, <1>8 DEF DispatchStep, Publish

\* The command goes out: the order is in this command and nowhere else.
LEMMA PublishRoad ==
  ASSUME FleetIInv, NEW d \in Dispatchers,
         Publish(d), Send(job[d].best, job[d].order)
  PROVE  Road'
<1> DEFINE v == job[d].best
           o == job[d].order
<1>1. /\ pc[d] = "publish" /\ mu = d
      /\ v \in Vehicles /\ o \in Orders
      /\ ~Begun(o) /\ ~Waits(o)
  BY DEF Publish, FleetIInv, EngineIInv, Shape, Mutex, Chosen, Job, Road,
         Handled
<1>2. /\ pc \in [Dispatchers -> Steps]
      /\ commands \in [Vehicles -> Seq(Orders)]
  BY DEF FleetIInv, EngineIInv, EngineTypeOK, SimTypeOK
<1>3. /\ UNCHANGED <<orders, ocalls, sim, requests>>
      /\ commands' = [commands EXCEPT ![v] = Append(@, o)]
      /\ pc' = [pc EXCEPT ![d] = "idle"]
  BY DEF Publish, Send, Leave, Goto, orderVars
<1> HIDE DEF v, o
<1>4. \A x \in Dispatchers : pc'[x] \notin Looking \cup Chosen
  BY <1>1, <1>2, <1>3, Alone DEF FleetIInv, EngineIInv, Looking, Chosen
<1>5. /\ DOMAIN commands'[v] = 1 .. Len(commands[v]) + 1
      /\ \A i \in 1 .. Len(commands[v]) : commands'[v][i] = commands[v][i]
      /\ commands'[v][Len(commands[v]) + 1] = o
      /\ DOMAIN commands[v] = 1 .. Len(commands[v])
      /\ Len(commands[v]) \in Nat
      /\ \A w \in Vehicles \ {v} : commands'[w] = commands[w]
  BY <1>1, <1>2, <1>3, AppendProperties, LenProperties
<1>6. \A w \in Vehicles : \A i \in DOMAIN commands[w] : commands[w][i] # o
  BY <1>1 DEF Begun, Commanded
<1>7. InOneCommand'
  <2> SUFFICES ASSUME NEW w \in Vehicles, NEW x \in Vehicles,
                      NEW i \in DOMAIN commands'[w],
                      NEW j \in DOMAIN commands'[x],
                      commands'[w][i] = commands'[x][j]
               PROVE  w = x /\ i = j
    BY DEF InOneCommand
  <2>n. \A y \in Vehicles : \A k \in DOMAIN commands'[y] :
          \/ y = v /\ k = Len(commands[v]) + 1 /\ commands'[y][k] = o
          \/ k \in DOMAIN commands[y] /\ commands'[y][k] = commands[y][k]
    BY <1>5
  <2>1. CASE commands'[w][i] = o
    <3>1. w = v /\ i = Len(commands[v]) + 1
      BY <1>6, <2>n, <2>1
    <3>2. commands'[x][j] = o
      BY <2>1
    <3>3. x = v /\ j = Len(commands[v]) + 1
      BY <1>6, <2>n, <3>2
    <3> QED
      BY <3>1, <3>3
  <2>2. CASE commands'[w][i] # o
    <3>1. i \in DOMAIN commands[w] /\ commands'[w][i] = commands[w][i]
      BY <2>n, <2>2
    <3>2. j \in DOMAIN commands[x] /\ commands'[x][j] = commands[x][j]
      BY <2>n, <2>2
    <3>3. InOneCommand /\ commands[w][i] = commands[x][j]
      BY <3>1, <3>2 DEF FleetIInv, Road, OnTheWay
    <3> QED
      BY <3>1, <3>2, <3>3 DEF InOneCommand
  <2> QED
    BY <2>1, <2>2
<1>8. \A x \in Orders : Commanded(x)' => x = o \/ Commanded(x)
  <2> SUFFICES ASSUME NEW x \in Orders, NEW w \in Vehicles,
                      NEW i \in DOMAIN commands'[w],
                      commands'[w][i] = x, x # o
               PROVE  Commanded(x)
    BY DEF Commanded
  <2>1. i \in DOMAIN commands[w] /\ commands[w][i] = x
    BY <1>5
  <2> QED
    BY <2>1 DEF Commanded
<1>9. \A x, s : Reported(x, s)' <=> Reported(x, s)
  BY <1>3 DEF Reported
<1>10. /\ \A w \in Vehicles : sim[w].order # o
       /\ \A s \in News : ~Reported(o, s)
  BY <1>1 DEF Begun
<1>11. Handled'
  <2>1. \A x \in Orders : Waits(x)' => ~Begun(x)'
    BY <1>1, <1>3, <1>8, <1>9
    DEF FleetIInv, Road, Handled, Waits, Begun
  <2> QED
    BY <1>3, <1>4, <2>1 DEF FleetIInv, Road, Handled
<1>12. OnTheWay'
  <2>1. OnOneVehicle'
    BY <1>3 DEF FleetIInv, Road, OnTheWay, OnOneVehicle
  <2>2. \A x \in Orders : Commanded(x)' =>
          /\ \A w \in Vehicles : sim'[w].order # x
          /\ \A s \in News : ~Reported(x, s)'
    BY <1>3, <1>8, <1>9, <1>10 DEF FleetIInv, Road, OnTheWay
  <2>3. \A w \in Vehicles, x \in Orders : sim'[w].order = x =>
          /\ Reported(x, "picked_up")' => sim'[w].phase = "to_dropoff"
          /\ ~Reported(x, "delivered")'
    BY <1>3, <1>9 DEF FleetIInv, Road, OnTheWay
  <2> QED
    BY <1>7, <2>1, <2>2, <2>3 DEF OnTheWay
<1> QED
  BY <1>11, <1>12 DEF Road

\* The queue of a vehicle loses its head.
LEMMA TailCommands ==
  ASSUME SimTypeOK, InOneCommand, NEW v \in Vehicles, commands[v] # <<>>,
         commands' = [commands EXCEPT ![v] = Tail(@)]
  PROVE  /\ InOneCommand'
         /\ \A o : Commanded(o)' => Commanded(o) /\ o # Head(commands[v])
         /\ Commanded(Head(commands[v]))
<1>1. /\ Head(commands[v]) = commands[v][1]
      /\ 1 \in DOMAIN commands[v]
      /\ \A i \in DOMAIN commands'[v] :
           /\ i + 1 \in DOMAIN commands[v] /\ i + 1 # 1 /\ i \in Nat
           /\ commands'[v][i] = commands[v][i + 1]
      /\ \A w \in Vehicles \ {v} : commands'[w] = commands[w]
  BY CommandHead DEF SimTypeOK
<1>2. \A w \in Vehicles : \A i \in DOMAIN commands'[w] :
        LET k == IF w = v THEN i + 1 ELSE i
        IN  /\ k \in DOMAIN commands[w]
            /\ commands'[w][i] = commands[w][k]
            /\ w = v => k # 1 /\ i \in Nat
  BY <1>1
<1>3. InOneCommand'
  <2> SUFFICES ASSUME NEW w \in Vehicles, NEW x \in Vehicles,
                      NEW i \in DOMAIN commands'[w],
                      NEW j \in DOMAIN commands'[x],
                      commands'[w][i] = commands'[x][j]
               PROVE  w = x /\ i = j
    BY DEF InOneCommand
  <2> DEFINE k == IF w = v THEN i + 1 ELSE i
             l == IF x = v THEN j + 1 ELSE j
  <2>1. /\ k \in DOMAIN commands[w] /\ l \in DOMAIN commands[x]
        /\ commands[w][k] = commands[x][l]
        /\ w = v => i \in Nat
        /\ x = v => j \in Nat
    BY <1>2
  <2> HIDE DEF k, l
  <2>2. w = x /\ k = l
    BY <2>1 DEF InOneCommand
  <2> QED
    BY <2>1, <2>2 DEF k, l
<1>4. ASSUME NEW o, Commanded(o)'
      PROVE  Commanded(o) /\ o # Head(commands[v])
  <2>1. PICK w \in Vehicles : \E i \in DOMAIN commands'[w] : commands'[w][i] = o
    BY <1>4 DEF Commanded
  <2>2. PICK i \in DOMAIN commands'[w] : commands'[w][i] = o
    BY <2>1
  <2>3. PICK k \in DOMAIN commands[w] :
          commands[w][k] = o /\ (w = v => k # 1)
    BY <1>2, <2>2
  <2>4. Commanded(o)
    BY <2>3 DEF Commanded
  <2>5. o # commands[v][1]
    BY <1>1, <2>3 DEF InOneCommand
  <2> QED
    BY <1>1, <2>4, <2>5
<1> QED
  BY <1>1, <1>3, <1>4 DEF Commanded

\* A command that is taken moves the order onto the vehicle.
LEMMA CommandRoad ==
  ASSUME FleetIInv, NEW v \in Vehicles, OnCommand(v), UNCHANGED vars
  PROVE  Road'
<1> DEFINE o == Head(commands[v])
<1>1. /\ UNCHANGED <<orders, ocalls, pc, job, requests>>
      /\ commands[v] # <<>>
      /\ commands' = [commands EXCEPT ![v] = Tail(@)]
  BY DEF OnCommand, vars
<1>2. /\ InOneCommand'
      /\ \A x : Commanded(x)' => Commanded(x) /\ x # o
      /\ Commanded(o)
      /\ o \in Orders
  BY <1>1, TailCommands, CommandHead DEF FleetIInv, Road, OnTheWay
<1>3. /\ sim'[v].order = o
      /\ \A w \in Vehicles \ {v} : sim'[w] = sim[w]
  BY DEF OnCommand, FleetIInv, SimTypeOK, VehicleState
<1> HIDE DEF o
<1>4. \A x, s : Reported(x, s)' <=> Reported(x, s)
  BY <1>1 DEF Reported
<1>5. /\ \A w \in Vehicles : sim[w].order # o
      /\ \A s \in News : ~Reported(o, s)
  BY <1>2 DEF FleetIInv, Road, OnTheWay
<1>6. \A x : Begun(x)' => Begun(x)
  <2> SUFFICES ASSUME NEW x, Begun(x)' PROVE Begun(x)
    OBVIOUS
  <2>1. CASE \E w \in Vehicles : sim'[w].order = x
    BY <1>2, <1>3, <2>1 DEF Begun
  <2>2. CASE Commanded(x)' \/ \E s \in News : Reported(x, s)'
    BY <1>2, <1>4, <2>2 DEF Begun
  <2> QED
    BY <2>1, <2>2 DEF Begun
<1>7. Handled'
  <2>1. \A x \in Orders : Waits(x)' => ~Begun(x)'
    BY <1>1, <1>6 DEF FleetIInv, Road, Handled, Waits
  <2>2. \A d \in Dispatchers :
          pc'[d] \in Looking \cup Chosen => ~Begun(job[d].order)'
    <3>1. \A d \in Dispatchers : pc[d] \in Looking \cup Chosen =>
            job[d].order \in Orders /\ ~Begun(job[d].order)
      BY DEF FleetIInv, EngineIInv, Shape, Looking, Chosen, Job, Road, Handled
    <3>2. pc' = pc /\ job' = job
      BY <1>1
    <3> QED
      BY <1>6, <3>1, <3>2
  <2> QED
    BY <1>1, <2>1, <2>2 DEF FleetIInv, Road, Handled, Waits
<1>8. OnTheWay'
  <2>1. OnOneVehicle'
    BY <1>3, <1>5 DEF FleetIInv, Road, OnTheWay, OnOneVehicle
  <2>2. \A x \in Orders : Commanded(x)' =>
          /\ \A w \in Vehicles : sim'[w].order # x
          /\ \A s \in News : ~Reported(x, s)'
    BY <1>2, <1>3, <1>4 DEF FleetIInv, Road, OnTheWay
  <2>3. \A w \in Vehicles, x \in Orders : sim'[w].order = x =>
          /\ Reported(x, "picked_up")' => sim'[w].phase = "to_dropoff"
          /\ ~Reported(x, "delivered")'
    BY <1>3, <1>4, <1>5 DEF FleetIInv, Road, OnTheWay, News
  <2> QED
    BY <1>2, <2>1, <2>2, <2>3 DEF OnTheWay
<1> QED
  BY <1>7, <1>8 DEF Road

\* A tick reports the pickup of an order that is on this vehicle only, and the
\* delivery when it has let go of it.
LEMMA TickRoad ==
  ASSUME FleetIInv, NEW v \in Vehicles, SimTick(v), UNCHANGED vars
  PROVE  Road'
<1>1. PICK after :
        Fit(after) /\ sim' = [sim EXCEPT ![v] = after] /\ Ticked(v, after)
  BY TickEffect DEF FleetIInv, TickDone
<1>2. /\ UNCHANGED <<orders, ocalls, pc, job, commands>>
      /\ sim'[v] = after
      /\ \A w \in Vehicles \ {v} : sim'[w] = sim[w]
  BY <1>1, TickEffect DEF vars, FleetIInv, SimTypeOK, TickDone
<1> DEFINE o == sim[v].order
<1>3. /\ sim[v].phase # NoPhase => o \in Orders
      /\ NoOrder \notin Orders
  BY SimAssumption DEF FleetIInv, SimTypeOK, Phased, VehicleState
<1>4. after.order \in {o, NoOrder}
  BY <1>1 DEF Ticked
<1>5. \A x : Commanded(x)' <=> Commanded(x)
  BY <1>2 DEF Commanded
<1>6. InOneCommand' /\ OnOneVehicle'
  BY <1>2, <1>4 DEF FleetIInv, Road, OnTheWay, InOneCommand, OnOneVehicle
<1> HIDE DEF o
<1>7. ASSUME \A x \in Orders, s \in News :
               Reported(x, s)' => Reported(x, s) \/ x = o,
             \A w \in Vehicles, x \in Orders : sim'[w].order = x =>
               /\ Reported(x, "picked_up")' => sim'[w].phase = "to_dropoff"
               /\ ~Reported(x, "delivered")'
      PROVE  Road'
  <2>1. \A x \in Orders : Begun(x)' => Begun(x)
    <3> SUFFICES ASSUME NEW x \in Orders, Begun(x)' PROVE Begun(x)
      OBVIOUS
    <3>1. CASE x = o
      BY <3>1 DEF Begun, o
    <3>2. CASE x # o
      BY <1>2, <1>3, <1>4, <1>5, <1>7, <3>2 DEF Begun
    <3> QED
      BY <3>1, <3>2
  <2>2. \A d \in Dispatchers : pc[d] \in Looking \cup Chosen =>
          job[d].order \in Orders /\ ~Begun(job[d].order)
    BY DEF FleetIInv, EngineIInv, Shape, Looking, Chosen, Job, Road, Handled
  <2>3. \A d \in Dispatchers :
          pc'[d] \in Looking \cup Chosen => ~Begun(job[d].order)'
    BY <1>2, <2>1, <2>2
  <2>4. Handled'
    BY <1>2, <2>1, <2>3 DEF FleetIInv, Road, Handled, Waits
  <2>5. \A x \in Orders : Commanded(x)' =>
          /\ x # o
          /\ \A w \in Vehicles : sim'[w].order # x
          /\ \A s \in News : ~Reported(x, s)
    BY <1>2, <1>3, <1>4, <1>5 DEF FleetIInv, Road, OnTheWay, o
  <2> QED
    BY <1>6, <1>7, <2>4, <2>5 DEF Road, OnTheWay
<1>8. CASE after.phase = sim[v].phase /\ after.order = o /\ requests' = requests
  <2>1. \A x, s : Reported(x, s)' <=> Reported(x, s)
    BY <1>2, <1>8 DEF Reported
  <2>2. \A w \in Vehicles :
          sim'[w].order = sim[w].order /\ sim'[w].phase = sim[w].phase
    BY <1>2, <1>8 DEF o
  <2> QED
    BY <1>7, <2>1, <2>2 DEF FleetIInv, Road, OnTheWay
<1>9. CASE /\ sim[v].phase = "to_pickup"
           /\ after.phase = "to_dropoff" /\ after.order = o
           /\ requests' = requests \cup {[order |-> o, status |-> "picked_up"]}
  <2>1. \A x, s : Reported(x, s)' =>
          Reported(x, s) \/ (x = o /\ s = "picked_up")
    BY <1>2, <1>9 DEF Reported
  <2>2. \A w \in Vehicles : sim'[w].order = sim[w].order
    BY <1>2, <1>9 DEF o
  <2>3. \A w \in Vehicles : o \in Orders /\ sim[w].order = o => w = v
    BY <1>3 DEF FleetIInv, Road, OnTheWay, OnOneVehicle, o
  <2> QED
    BY <1>2, <1>7, <1>9, <2>1, <2>2, <2>3 DEF FleetIInv, Road, OnTheWay
<1>10. CASE /\ sim[v].phase = "to_dropoff"
            /\ after.phase = NoPhase /\ after.order = NoOrder
            /\ requests' = requests \cup {[order |-> o, status |-> "delivered"]}
  <2>1. \A x, s : Reported(x, s)' =>
          Reported(x, s) \/ (x = o /\ s = "delivered")
    BY <1>2, <1>10 DEF Reported
  <2>2. \A w \in Vehicles : o \in Orders /\ sim[w].order = o => w = v
    BY <1>3 DEF FleetIInv, Road, OnTheWay, OnOneVehicle, o
  <2>3. o \in Orders
    BY <1>3, <1>10, PhaseFacts
  <2>4. \A w \in Vehicles, x \in Orders :
          sim'[w].order = x => w # v /\ x # o /\ sim[w] = sim'[w]
    BY <1>2, <1>3, <1>10, <2>2, <2>3
  <2> QED
    BY <1>7, <2>1, <2>4 DEF FleetIInv, Road, OnTheWay
<1> QED
  BY <1>1, <1>8, <1>9, <1>10 DEF Ticked, o

\* A step of a handler or a callback: no dispatcher, vehicle or command moves.
LEMMA HandlerQuieter ==
  ASSUME FleetIInv, UNCHANGED <<sim, commands, pc, job>>,
         requests' \subseteq requests,
         \A o \in Orders : Waits(o)' => Waits(o),
         \A o \in Orders, s \in News : orders'[o].status = s => Reported(o, s),
         \A c \in Callers : ocalls'[c].op = "transition" =>
           /\ ocalls'[c].next \in News \cup {"cancelled"}
           /\ \A s \in News : ocalls'[c].next = s => Reported(ocalls'[c].id, s)
  PROVE  Road'
<1>1. InOneCommand' /\ \A o \in Orders : Commanded(o)' => Commanded(o)
  BY DEF FleetIInv, Road, OnTheWay, InOneCommand, Commanded
<1>2. \A d \in Dispatchers : pc[d] \in Looking \cup Chosen =>
        job[d].order \in Orders
  BY DEF FleetIInv, EngineIInv, Shape, Looking, Chosen, Job
<1>3. \A d \in Dispatchers : pc[d] \in Chosen \ {"assign"} =>
        job[d].order \in Orders /\ ~Waits(job[d].order)
  BY <1>2 DEF FleetIInv, Road, Handled, Chosen
<1>4. \A d \in Dispatchers :
        pc'[d] \in Chosen \ {"assign"} => ~Waits(job[d].order)'
  BY <1>3 DEF Waits
<1> QED
  BY <1>1, <1>4, Quieter

\* The calls in flight are no news, nor are the rows.
LEMMA NewsKnown ==
  ASSUME FleetIInv
  PROVE  /\ \A o \in Orders, s \in News : orders[o].status = s => Reported(o, s)
         /\ \A c \in Callers : ocalls[c].op = "transition" =>
              /\ ocalls[c].next \in News \cup {"cancelled"}
              /\ \A s \in News : ocalls[c].next = s => Reported(ocalls[c].id, s)
BY DEF FleetIInv, Road, Handled, Reported

\* The messages of the vehicles, the cache, and lost messages.
LEMMA QuietRoad ==
  ASSUME FleetIInv,
         \/ \E v \in Vehicles : TakeStatus(v) \/ TakeTelemetry(v)
         \/ FinishCallback
         \/ /\ \E v \in Vehicles : Expire(v)
            /\ UNCHANGED <<orderVars, engineVars, historyVars, simVars>>
         \/ UNCHANGED fleetVars
  PROVE  Road'
<1>1. UNCHANGED <<orders, ocalls, pc, job, sim, commands, requests>>
  BY DEF TakeStatus, TakeTelemetry, FinishCallback, Receive, orderVars,
         engineVars, simVars, fleetVars, vars
<1> QED
  BY <1>1, NewsKnown, HandlerQuieter DEF Waits

LEMMA LoseRoad ==
  ASSUME FleetIInv, NEW v \in Vehicles, Lose(v), UNCHANGED vars
  PROVE  Road'
<1>1. UNCHANGED <<orders, ocalls, pc, job>> /\ sim' = sim
  BY DEF Lose, vars
<1>2. CASE UNCHANGED commands /\ requests' \subseteq requests
  BY <1>1, <1>2, NewsKnown, HandlerQuieter DEF Waits
<1>3. CASE /\ commands[v] # <<>>
           /\ commands' = [commands EXCEPT ![v] = Tail(@)]
           /\ UNCHANGED requests
  <2>1. InOneCommand' /\ \A o \in Orders : Commanded(o)' => Commanded(o)
    BY <1>3, TailCommands DEF FleetIInv, Road, OnTheWay
  <2>2. \A d \in Dispatchers :
          pc'[d] \in Chosen \ {"assign"} => ~Waits(job[d].order)'
    BY <1>1 DEF FleetIInv, Road, Handled, Waits
  <2> QED
    BY <1>1, <1>3, <2>1, <2>2, NewsKnown, Quieter DEF Waits
<1> QED
  BY <1>2, <1>3 DEF Lose

LEMMA CreateRoad ==
  ASSUME FleetIInv, NEW o \in Orders, CreateOrder(o), UNCHANGED simVars
  PROVE  Road'
<1>1. /\ UNCHANGED <<ocalls, pc, job, sim, commands, requests>>
      /\ orders[o].status = "absent"
      /\ orders' = [orders EXCEPT ![o].status = "pending"]
  BY DEF CreateOrder, Create, Exists, engineVars, simVars
<1>2. /\ orders'[o].status = "pending"
      /\ \A x \in Orders \ {o} : orders'[x] = orders[x]
  BY <1>1 DEF FleetIInv, EngineIInv, EngineTypeOK, OrderTypeOK, Row
<1>3. /\ \A x \in Orders : Waits(x)' => Waits(x)
      /\ \A x \in Orders, s \in News : orders'[x].status = s => Reported(x, s)
  BY <1>1, <1>2, NewsKnown DEF Waits, News
<1> QED
  BY <1>1, <1>3, NewsKnown, HandlerQuieter

\* A request becomes a call, with the same news.
LEMMA ServeRoad ==
  ASSUME FleetIInv, NEW c \in Callers, NEW r \in requests, ServeRequest(c, r)
  PROVE  Road'
<1>1. /\ UNCHANGED <<sim, commands, pc, job, orders>>
      /\ requests' \subseteq requests
      /\ \/ ocalls' = ocalls
         \/ ocalls' = [ocalls EXCEPT ![c] =
              [op |-> "transition", id |-> r.order, next |-> r.status,
               row |-> orders[r.order], since |-> clock]]
  BY DEF ServeRequest, BeginTransition, Answer, orderVars, engineVars
<1>2. /\ r.status \in News
      /\ r = [order |-> r.order, status |-> r.status]
      /\ Reported(r.order, r.status)
  BY DEF FleetIInv, SimTypeOK, Request, News, Reported
<1>3. \A x \in Callers : ocalls'[x].op = "transition" =>
        \/ ocalls'[x] = ocalls[x]
        \/ ocalls'[x].next = r.status /\ ocalls'[x].id = r.order
  BY <1>1 DEF FleetIInv, EngineIInv, EngineTypeOK, OrderTypeOK
<1>4. \A x \in Callers : ocalls'[x].op = "transition" =>
        /\ ocalls'[x].next \in News \cup {"cancelled"}
        /\ \A s \in News : ocalls'[x].next = s => Reported(ocalls'[x].id, s)
  BY <1>2, <1>3, NewsKnown
<1> QED
  BY <1>1, <1>4, NewsKnown, HandlerQuieter DEF Waits

LEMMA CancelRoad ==
  ASSUME FleetIInv, NEW c \in Callers, ClientCancels(c)
  PROVE  Road'
<1>1. PICK o \in Orders : BeginTransition(c, o, "cancelled")
  BY DEF ClientCancels
<1>2. /\ UNCHANGED <<sim, commands, pc, job, orders, requests>>
      /\ ocalls' = [ocalls EXCEPT ![c] =
           [op |-> "transition", id |-> o, next |-> "cancelled",
            row |-> orders[o], since |-> clock]]
  BY <1>1 DEF ClientCancels, BeginTransition, engineVars, simVars
<1>3. \A x \in Callers : ocalls'[x].op = "transition" =>
        ocalls'[x] = ocalls[x] \/ ocalls'[x].next = "cancelled"
  BY <1>2 DEF FleetIInv, EngineIInv, EngineTypeOK, OrderTypeOK
<1>4. \A x \in Callers : ocalls'[x].op = "transition" =>
        /\ ocalls'[x].next \in News \cup {"cancelled"}
        /\ \A s \in News : ocalls'[x].next = s => Reported(ocalls'[x].id, s)
  BY <1>3, NewsKnown DEF News
<1> QED
  BY <1>2, <1>4, NewsKnown, HandlerQuieter DEF Waits

\* A row is changed by a call in flight: what it says was known.
LEMMA FinishRoad ==
  ASSUME FleetIInv, NEW c \in Callers, FinishRequest(c)
  PROVE  Road'
<1>t. /\ orders \in [Orders -> Row]
      /\ ocalls \in [Callers -> {NoCall} \cup TransitionCall \cup AssignCall]
  BY DEF FleetIInv, EngineIInv, EngineTypeOK, OrderTypeOK
<1>1. /\ UNCHANGED <<sim, commands, pc, job, requests>>
      /\ ocalls' = [ocalls EXCEPT ![c] = NoCall]
  BY DEF FinishRequest, TransitionUpdate, UpdateFails, Return, engineVars,
         simVars
<1>2. \A x \in Callers : ocalls'[x].op = "transition" =>
        ocalls'[x] = ocalls[x]
  BY <1>1, <1>t DEF NoCall
<1>3. CASE UpdateFails(c)
  BY <1>1, <1>2, <1>3, NewsKnown, HandlerQuieter DEF UpdateFails, Waits
<1>4. CASE TransitionUpdate(c)
  <2> DEFINE o == ocalls[c].id
             next == ocalls[c].next
  <2>1. ocalls[c].op = "transition" /\ ocalls[c] \in TransitionCall
    BY <1>4, <1>t DEF TransitionUpdate, NoCall, AssignCall
  <2>2. o \in Orders /\ ocalls[c].row \in Row
    BY <2>1 DEF TransitionCall
  <2>3. PICK now : orders' = [orders EXCEPT ![o] =
            [Stamped(ocalls[c].row, next, now)
               EXCEPT !.vehicle_id = orders[o].vehicle_id]]
    BY <1>4 DEF TransitionUpdate
  <2>4. /\ orders'[o].status = next
        /\ \A x \in Orders \ {o} : orders'[x] = orders[x]
    BY <2>2, <2>3, <1>t DEF Stamped, Row
  <2>5. /\ next \in News \cup {"cancelled"}
        /\ \A s \in News : next = s => Reported(o, s)
    BY <2>1, NewsKnown
  <2>6. /\ \A x \in Orders : Waits(x)' => Waits(x)
        /\ \A x \in Orders, s \in News : orders'[x].status = s => Reported(x, s)
    BY <2>2, <2>4, <2>5, NewsKnown DEF Waits, News
  <2> QED
    BY <1>1, <1>2, <2>6, NewsKnown, HandlerQuieter
<1> QED
  BY <1>3, <1>4 DEF FinishRequest

-----------------------------------------------------------------------------
(* The engine in the fleet, and the crash.                                 *)

\* No dispatcher has an order that a vehicle reports about.
LEMMA ReportedNotConsidered ==
  ASSUME FleetIInv, NEW r \in requests
  PROVE  ~Considered(r.order)
<1>1. /\ r.status \in News /\ r = [order |-> r.order, status |-> r.status]
      /\ r.order \in Orders
  BY DEF FleetIInv, SimTypeOK, Request, News
<1>2. Begun(r.order)
  BY <1>1 DEF Begun, Reported
<1>3. \A d \in Dispatchers : pc[d] \in Looking => job[d].order # r.order
  BY <1>2 DEF FleetIInv, Road, Handled
<1> QED
  BY <1>3 DEF Considered, Looking

\* Every step but the crash is one of the engine and its two services.
LEMMA EngineStep ==
  ASSUME FleetIInv, [FleetNext]_fleetVars, ~Crash
  PROVE  [Next]_vars
<1>t. /\ fresh \in [Orders -> BOOLEAN]
      /\ booked \in [Vehicles -> BOOLEAN]
      /\ inbox \in [Vehicles -> Seq(Message)]
      /\ requests \subseteq Request
  BY DEF FleetIInv, EngineIInv, EngineTypeOK, SimTypeOK
<1>c. Callback \in Workers \ Dispatchers /\ Reports = {"low", "enough"}
  BY FleetAssumption
<1>1. ASSUME NEW d \in Dispatchers, Dispatch(d) PROVE Next
  BY <1>1 DEF Dispatch, DispatchStep, Next
<1>2. ASSUME NEW o \in Orders, CreateOrder(o) PROVE Next
  BY <1>2 DEF Next
<1>3. ASSUME NEW v \in Vehicles, TakeStatus(v) PROVE Next
  <2>1. Head(inbox[v]).says \in {"idle", "delivering", "charging"}
    <3>1. Head(inbox[v]) \in Message
      BY <1>3, <1>t, HeadTailProperties DEF TakeStatus
    <3> QED
      BY <1>3, <3>1 DEF TakeStatus, Message
  <2>2. /\ Head(inbox[v]).says \in Published
        /\ Head(inbox[v]).says # "idle" <=> Head(inbox[v]).says \notin Available
    BY <2>1 DEF Published, Available
  <2>3. VehicleCaller(Callback)
    <3>1. SetStatus(Callback, v, Head(inbox[v]).says)
      BY <1>3 DEF TakeStatus
    <3>2. booked' = [booked EXCEPT ![v] = @ /\ Head(inbox[v]).says \notin Available]
      BY <1>3, <2>2 DEF TakeStatus
    <3>3. UNCHANGED <<orderVars, engineVars, fresh>>
      BY <1>3 DEF TakeStatus
    <3> QED
      BY <2>2, <3>1, <3>2, <3>3 DEF VehicleCaller
  <2> QED
    BY <1>c, <2>3 DEF Next
<1>4. ASSUME NEW v \in Vehicles, TakeTelemetry(v) PROVE Next
  <2>1. Head(inbox[v]).says \in Reports
    <3>1. Head(inbox[v]) \in Message
      BY <1>4, <1>t, HeadTailProperties DEF TakeTelemetry
    <3> QED
      BY <1>4, <1>c, <3>1 DEF TakeTelemetry, Message
  <2>2. VehicleCaller(Callback)
    BY <1>4, <2>1 DEF TakeTelemetry, VehicleCaller
  <2> QED
    BY <1>c, <2>2 DEF Next
<1>5. CASE FinishCallback
  BY <1>5, <1>c DEF FinishCallback, VehicleCaller, Next
<1>6. ASSUME NEW c \in Callers \ Dispatchers, NEW r \in requests,
             ServeRequest(c, r)
      PROVE  [Next]_vars
  <2>1. CASE BeginTransition(c, r.order, r.status)
    <3>1. r.order \in Orders /\ r.status \in OrderStatus
      BY <1>t DEF Request, OrderStatus
    <3>2. UpdateOrderStatus(c)
      BY <1>6, <2>1, <3>1, ReportedNotConsidered
      DEF ServeRequest, UpdateOrderStatus
    <3> QED
      BY <3>2 DEF Next
  <2>2. CASE UNCHANGED orderVars
    BY <1>6, <2>2
    DEF ServeRequest, vars, orderVars, vehicleVars, engineVars, historyVars
  <2> QED
    BY <1>6, <2>1, <2>2 DEF ServeRequest
<1>7. ASSUME NEW c \in Callers \ Dispatchers, ClientCancels(c) PROVE Next
  <2>1. "cancelled" \in OrderStatus
    BY DEF OrderStatus
  <2>2. UpdateOrderStatus(c)
    BY <1>7, <2>1 DEF ClientCancels, UpdateOrderStatus
  <2> QED
    BY <2>2 DEF Next
<1>8. ASSUME NEW c \in Callers \ Dispatchers, FinishRequest(c) PROVE Next
  <2>1. UpdateOrderStatus(c)
    <3>1. CASE TransitionUpdate(c)
      <4>1. ocalls[c].op = "transition" => ocalls[c].next # "pending"
        BY DEF FleetIInv, Road, Handled, News
      <4>2. ocalls[c].next # "pending"
        BY <3>1, <4>1 DEF TransitionUpdate
      <4>3. [fresh EXCEPT ![ocalls[c].id] = @ \/ ocalls[c].next = "pending"]
              = fresh
        BY <1>t, <4>2
      <4> QED
        BY <1>8, <3>1, <4>3
        DEF FinishRequest, UpdateOrderStatus, historyVars
    <3>2. CASE UpdateFails(c)
      BY <1>8, <3>2 DEF FinishRequest, UpdateOrderStatus
    <3> QED
      BY <1>8, <3>1, <3>2 DEF FinishRequest
  <2> QED
    BY <2>1 DEF Next
<1>9. ASSUME NEW v \in Vehicles, FleetTick(v) \/ UNCHANGED vars
      PROVE  UNCHANGED vars
  BY <1>9 DEF FleetTick
<1>10. ASSUME NEW v \in Vehicles, Expire(v),
              UNCHANGED <<orderVars, engineVars, historyVars, simVars>>
       PROVE  Next
  BY <1>10 DEF Background, Next
<1>11. CASE UNCHANGED fleetVars
  BY <1>11 DEF fleetVars
<1> QED
  BY <1>1, <1>2, <1>3, <1>4, <1>5, <1>6, <1>7, <1>8, <1>9, <1>10, <1>11
  DEF FleetNext

\* A registered vehicle stays registered.
LEMMA StaysRegistered ==
  ASSUME VehicleTypeOK, [VehicleNext]_vehicleVars, NEW v \in Vehicles,
         db[v] # Absent
  PROVE  db'[v] # Absent
<1>1. /\ VehicleRow = [status : VehicleStatus, report : Reports \cup {NoReport}]
      /\ "absent" \notin VehicleStatus
      /\ Absent.status = "absent"
  BY Zenon DEF VehicleRow, VehicleStatus, Absent
<1>2. db \in [Vehicles -> VehicleRow \cup {Absent}] /\ db[v] \in VehicleRow
  BY DEF VehicleTypeOK
<1>3. db[v].status \in VehicleStatus
  BY <1>1, <1>2
<1>4. ASSUME NEW x \in Vehicles, Register(x) PROVE db'[v] # Absent
  BY <1>1, <1>2, <1>4 DEF Register, Registered, VehicleStatus
<1>5. ASSUME NEW w \in Workers, NEW x \in Vehicles, NEW s \in VehicleStatus,
             SetStatus(w, x, s)
      PROVE  db'[v] # Absent
  <2>1. db' = db \/ db' = [db EXCEPT ![x].status = s]
    BY <1>5 DEF SetStatus
  <2>2. CASE db' = [db EXCEPT ![x].status = s] /\ x = v
    <3>1. db'[v].status = s
      BY <1>1, <1>2, <2>2
    <3> QED
      BY <1>1, <3>1
  <2> QED
    BY <1>2, <2>1, <2>2
<1>6. ASSUME NEW w \in Workers, TelemetryDBUpdate(w) PROVE db'[v] # Absent
  <2>1. HeardFrom(db[v].status) \in VehicleStatus
    BY <1>3, RecordFacts
  <2>2. CASE db' = [db EXCEPT ![v] = [status |-> HeardFrom(@.status),
                                      report |-> vcalls[w].entry.report]]
    BY <1>1, <1>2, <2>1, <2>2
  <2>3. CASE db'[v] = db[v]
    BY <2>3
  <2> QED
    BY <1>2, <1>6, <2>2, <2>3 DEF TelemetryDBUpdate
<1> QED
  BY <1>4, <1>5, <1>6
  DEF VehicleNext, vehicleVars, Expire, UpdateTelemetry, GetVehicle, CallStep,
      TelemetryCacheSet, StatusCacheGet, StatusCacheSet, GetVehicleDB,
      GetVehicleFill

\* What a restart makes of a stored entry is an entry.
LEMMA StartedEntry ==
  ASSUME NEW entry \in CacheEntry \cup {Absent}, NEW s
  PROVE  /\ Started(entry, s) \in CacheEntry
         /\ entry \in VehicleRow => Started(entry, s) \in VehicleRow
         /\ Started(entry, s) # Absent
<1>1. /\ Telemetry(s).says \in Reports
      /\ "absent" \notin VehicleStatus \cup {BlankStatus}
      /\ Absent.status = "absent"
  <2>1. "absent" \notin VehicleStatus \cup {BlankStatus}
    BY Zenon DEF VehicleStatus, BlankStatus
  <2> QED
    BY <2>1, FleetAssumption DEF Telemetry, Absent
<1>2. entry # Absent => entry.status \in VehicleStatus \cup {BlankStatus}
  BY DEF CacheEntry
<1>3. entry \in VehicleRow =>
        entry # Absent /\ HeardFrom(entry.status) \in VehicleStatus
  BY RecordFacts DEF VehicleRow
<1>4. (IF entry = Absent THEN BlankStatus ELSE HeardFrom(entry.status))
        \in VehicleStatus \cup {BlankStatus}
  BY <1>2, RecordFacts
<1>5. Started(entry, s).status
        = IF entry = Absent THEN BlankStatus ELSE HeardFrom(entry.status)
  BY DEF Started
<1> QED
  BY <1>1, <1>3, <1>4, <1>5 DEF Started, CacheEntry, VehicleRow

\* The server comes back to the tables as they are, with nothing in flight.
LEMMA CrashEngine ==
  ASSUME FleetIInv, Crash
  PROVE  EngineIInv' /\ \A v \in Vehicles : db'[v] # Absent
<1>1. /\ UNCHANGED <<orders, clock, fresh, booked>>
      /\ ocalls' = [c \in Callers |-> NoCall]
      /\ vcalls' = [w \in Workers |-> NoVehicleCall]
      /\ mu' = NoOne
      /\ pc' = [d \in Dispatchers |-> "idle"]
      /\ job' = [d \in Dispatchers |-> NoJob]
      /\ db' = [v \in Vehicles |-> Started(db[v], sim'[v])]
      /\ cache' = [v \in Vehicles |-> Started(cache[v], sim'[v])]
  BY DEF Crash, historyVars
<1>2. /\ EngineTypeOK /\ OrderIInv /\ OrderTypeOK /\ VehicleTypeOK
      /\ \A v \in Vehicles : db[v] # Absent
  BY DEF FleetIInv, EngineIInv, EngineTypeOK
<1>3. VehicleTypeOK' /\ \A v \in Vehicles : db'[v] # Absent
  <2>1. \A v \in Vehicles :
          /\ db[v] \in VehicleRow
          /\ db[v] \in CacheEntry
          /\ cache[v] \in CacheEntry \cup {Absent}
    BY <1>2, RecordFacts DEF VehicleTypeOK
  <2>2. \A v \in Vehicles :
          /\ db'[v] \in VehicleRow
          /\ db'[v] # Absent
          /\ cache'[v] \in CacheEntry
    BY <1>1, <2>1, StartedEntry
  <2> QED
    BY <1>1, <2>2 DEF VehicleTypeOK
<1>4. OrderIInv'
  <2>1. OrderTypeOK'
    BY <1>1, <1>2 DEF OrderTypeOK
  <2>2. \A c \in Callers : CallOK(ocalls[c])'
    BY <1>1 DEF CallOK, NoCall, TransitionCall, AssignCall
  <2> QED
    BY <1>1, <1>2, <2>1, <2>2 DEF OrderIInv
<1>5. EngineTypeOK'
  BY <1>1, <1>2, <1>3, <1>4 DEF EngineTypeOK, OrderIInv, Steps
<1>6. Shape' /\ Mutex'
  BY <1>1, DispatcherCalls DEF Shape, Mutex, Chosen
<1>7. Fresh' /\ Matched'
  BY <1>1 DEF FleetIInv, EngineIInv, Fresh, Matched, Looking
<1> QED
  BY <1>3, <1>4, <1>5, <1>6, <1>7 DEF EngineIInv

\* A fleet that has just been started, and what it is like.
NewFleet ==
  /\ \E level \in [Vehicles -> StartBattery] :
       sim = [v \in Vehicles |-> NewVehicle(level[v])]
  /\ inbox = [v \in Vehicles |-> <<Says("idle")>>]
  /\ commands = [v \in Vehicles |-> <<>>]
  /\ requests = {}
  /\ heard \in [Vehicles -> {BlankStatus, "idle", "delivering", "charging"}]

FreshFleet ==
  /\ SimTypeOK
  /\ Phased
  /\ \A o \in Orders : ~Commanded(o)
  /\ \A v \in Vehicles : sim[v].order = NoOrder
  /\ (\A l \in StartBattery : l >= LowBattery) => ChargesInTime

LEMMA NewFleetFits == NewFleet => FreshFleet
<1> SUFFICES ASSUME NewFleet PROVE FreshFleet
  OBVIOUS
<1>1. PICK level \in [Vehicles -> StartBattery] :
        sim = [v \in Vehicles |-> NewVehicle(level[v])]
  BY DEF NewFleet
<1>2. \A v \in Vehicles :
        /\ level[v] \in StartBattery
        /\ sim[v] = NewVehicle(level[v])
        /\ sim[v] \in VehicleState
        /\ sim[v].phase = NoPhase
        /\ sim[v].status = "idle"
        /\ sim[v].order = NoOrder
        /\ sim[v].battery = level[v]
  BY <1>1, NewVehicleState
<1>3. <<Says("idle")>> \in Seq(Message) /\ <<>> \in Seq(Orders)
  BY MessageTypes
<1>4. SimTypeOK
  BY <1>1, <1>2, <1>3 DEF NewFleet, SimTypeOK
<1>5. Phased
  BY <1>2, PhaseFacts DEF Phased
<1>6. \A o \in Orders : ~Commanded(o)
  BY DEF NewFleet, Commanded
<1>7. (\A l \in StartBattery : l >= LowBattery) => ChargesInTime
  BY <1>2 DEF ChargesInTime
<1> QED
  BY <1>2, <1>4, <1>5, <1>6, <1>7 DEF FreshFleet

\* With nothing on the way only the rows are left, and they are no news.
LEMMA CrashRoad ==
  ASSUME FleetIInv, Crash
  PROVE  /\ SimTypeOK' /\ Phased' /\ Road'
         /\ (\A l \in StartBattery : l >= LowBattery) => ChargesInTime'
<1>1. NewFleet'
  BY DEF Crash, FleetIInv, SimTypeOK, NewFleet
<1>2. FreshFleet'
  BY <1>1, NewFleetFits, PTL
<1>3. /\ SimTypeOK'
      /\ Phased'
      /\ \A o \in Orders : ~Commanded(o)'
      /\ \A v \in Vehicles : sim'[v].order = NoOrder
      /\ (\A l \in StartBattery : l >= LowBattery) => ChargesInTime'
  BY <1>2 DEF FreshFleet
<1>4. /\ orders' = orders /\ requests' = {}
      /\ \A c \in Callers : ocalls'[c] = NoCall
      /\ \A d \in Dispatchers : pc'[d] = "idle"
      /\ \A v \in Vehicles : DOMAIN commands'[v] = {}
  BY DEF Crash
<1>5. \A o, s : Reported(o, s)' => orders[o].status = s
  BY <1>4 DEF Reported, NoCall
<1>6. Handled'
  <2>1. \A o \in Orders : Waits(o)' => ~Begun(o)'
    BY <1>3, <1>4, <1>5, SimAssumption DEF Waits, Begun, News
  <2> QED
    BY <1>4, <2>1 DEF Handled, NoCall, Looking, Chosen
<1>7. OnTheWay'
  <2>1. InOneCommand' /\ OnOneVehicle'
    BY <1>3, <1>4 DEF InOneCommand, OnOneVehicle
  <2> QED
    BY <1>3, <2>1, SimAssumption DEF OnTheWay
<1> QED
  BY <1>3, <1>6, <1>7 DEF Road

-----------------------------------------------------------------------------
(* The invariant.                                                          *)

LEMMA FleetInitIInv ==
  FleetInit => /\ FleetIInv
               /\ (\A l \in StartBattery : l >= LowBattery) => ChargesInTime
<1> SUFFICES ASSUME FleetInit
             PROVE  /\ FleetIInv
                    /\ (\A l \in StartBattery : l >= LowBattery) => ChargesInTime
  OBVIOUS
<1>1. FreshFleet
  <2>1. NewFleet
    BY DEF FleetInit, SimInit, NewFleet
  <2> QED
    BY <2>1, NewFleetFits
<1>2. /\ Offline \in VehicleRow /\ Offline \in CacheEntry
  BY RecordFacts DEF Offline, VehicleRow, VehicleStatus
<1>3. VehicleTypeOK /\ \A v \in Vehicles : db[v] # Absent
  <2>1. \A v \in Vehicles :
          db[v] \in VehicleRow /\ db[v] # Absent /\ cache[v] \in CacheEntry
    BY <1>2, StartedEntry DEF FleetInit
  <2> QED
    BY <2>1 DEF FleetInit, VehicleTypeOK
<1>4. OrderIInv /\ OrderTypeOK
  BY OrderInitIInv DEF FleetInit, OrderIInv
<1>5. EngineTypeOK
  BY <1>3, <1>4 DEF FleetInit, EngineTypeOK, Steps
<1>6. Shape /\ Mutex /\ Fresh /\ Matched
  BY DispatcherCalls
  DEF FleetInit, OrderInit, NoOrderRow, Shape, Mutex, Fresh, Matched, Chosen,
      Looking
<1>7. \A o \in Orders, s \in News : ~Reported(o, s)
  BY DEF FleetInit, SimInit, OrderInit, NoCall, NoOrderRow, News, Reported
<1>8. Handled
  <2>1. \A o \in Orders : ~Begun(o)
    BY <1>1, <1>7, SimAssumption DEF FreshFleet, Begun
  <2> QED
    BY <2>1 DEF FleetInit, OrderInit, NoCall, Handled, Looking, Chosen
<1>9. OnTheWay
  <2>1. InOneCommand /\ OnOneVehicle
    BY <1>1 DEF FleetInit, SimInit, FreshFleet, InOneCommand, OnOneVehicle
  <2> QED
    BY <1>1, <2>1, SimAssumption DEF FreshFleet, OnTheWay
<1> QED
  BY <1>1, <1>3, <1>4, <1>5, <1>6, <1>8, <1>9
  DEF FreshFleet, FleetIInv, EngineIInv, Road

LEMMA RoadStep ==
  ASSUME FleetIInv, [FleetNext]_fleetVars, ~Crash
  PROVE  Road'
<1>1. ASSUME NEW d \in Dispatchers, Dispatch(d) PROVE Road'
  BY <1>1, DispatchRoad, PublishRoad DEF Dispatch
<1>2. ASSUME NEW v \in Vehicles,
             FleetTick(v) \/ ((OnCommand(v) \/ Lose(v)) /\ UNCHANGED vars)
      PROVE  Road'
  BY <1>2, TickRoad, CommandRoad, LoseRoad DEF FleetTick
<1>3. ASSUME NEW c \in Callers \ Dispatchers,
             \/ \E r \in requests : ServeRequest(c, r)
             \/ ClientCancels(c)
             \/ FinishRequest(c)
      PROVE  Road'
  BY <1>3, ServeRoad, CancelRoad, FinishRoad
<1> QED
  BY <1>1, <1>2, <1>3, CreateRoad, QuietRoad DEF FleetNext

LEMMA SimStep ==
  ASSUME FleetIInv, [FleetNext]_fleetVars, ~Crash
  PROVE  SimTypeOK' /\ Phased' /\ (ChargesInTime => ChargesInTime')
<1>s. SimTypeOK /\ Phased
  BY DEF FleetIInv
<1>1. ASSUME NEW d \in Dispatchers, Dispatch(d)
      PROVE  \/ UNCHANGED simVars
             \/ \E v \in Vehicles, o \in Orders : Send(v, o)
  <2>1. pc[d] = "publish" => job[d].best \in Vehicles /\ job[d].order \in Orders
    BY DEF FleetIInv, EngineIInv, Shape, Chosen, Job
  <2> QED
    BY <1>1, <2>1 DEF Dispatch, Publish
<1>2. ASSUME NEW c \in Callers, NEW r \in requests, ServeRequest(c, r)
      PROVE  Answer(r)
  BY <1>2 DEF ServeRequest
<1>3. ASSUME NEW c \in Callers, ClientCancels(c) \/ FinishRequest(c)
      PROVE  UNCHANGED simVars
  BY <1>3 DEF ClientCancels, FinishRequest
<1>4. ASSUME NEW v \in Vehicles, TakeStatus(v) \/ TakeTelemetry(v)
      PROVE  Receive(v)
  BY <1>4 DEF TakeStatus, TakeTelemetry
<1>5. ASSUME NEW v \in Vehicles, FleetTick(v) \/ OnCommand(v)
      PROVE  SimTypeOK' /\ Phased' /\ (ChargesInTime => ChargesInTime')
  BY <1>5, <1>s, TickSteps, CommandSteps DEF FleetTick
<1>6. CASE FinishCallback \/ UNCHANGED fleetVars
  BY <1>6, <1>s, QuietSimSteps DEF FinishCallback, fleetVars
<1> QED
  BY <1>s, <1>1, <1>2, <1>3, <1>4, <1>5, <1>6, QuietSimSteps DEF FleetNext

LEMMA FleetNextIInv ==
  FleetIInv /\ [FleetNext]_fleetVars =>
    /\ FleetIInv'
    /\ (\A l \in StartBattery : l >= LowBattery) =>
         (ChargesInTime => ChargesInTime')
<1> SUFFICES ASSUME FleetIInv, [FleetNext]_fleetVars
             PROVE  /\ FleetIInv'
                    /\ (\A l \in StartBattery : l >= LowBattery) =>
                         (ChargesInTime => ChargesInTime')
  OBVIOUS
<1>1. CASE Crash
  BY <1>1, CrashEngine, CrashRoad DEF FleetIInv
<1>2. CASE ~Crash
  <2>1. [Next]_vars
    BY <1>2, EngineStep
  <2>2. EngineIInv'
    BY <2>1, EngineNextIInv DEF FleetIInv
  <2>3. \A v \in Vehicles : db'[v] # Absent
    BY <2>1, ServiceSteps, StaysRegistered
    DEF FleetIInv, EngineIInv, EngineTypeOK
  <2> QED
    BY <1>2, <2>2, <2>3, RoadStep, SimStep DEF FleetIInv
<1> QED
  BY <1>1, <1>2

LEMMA FleetInvariant == FleetSpec => []FleetIInv
<1>1. FleetInit => FleetIInv
  BY FleetInitIInv
<1>2. FleetIInv /\ [FleetNext]_fleetVars => FleetIInv'
  BY FleetNextIInv
<1> QED
  BY <1>1, <1>2, PTL DEF FleetSpec

\* The state of the engine, the services and the vehicles has its type.
THEOREM FleetTypeCorrect == FleetSpec => []FleetTypeOK
<1>1. FleetIInv => FleetTypeOK
  BY DEF FleetIInv, EngineIInv, FleetTypeOK
<1> QED
  BY <1>1, FleetInvariant, PTL

\* The table never shows an order further than it is on the road, whatever
\* messages and requests are lost or overtake each other, however many
\* dispatchers and handlers run, and however often the server dies.
THEOREM NeverAhead == FleetSpec => []TableNotAhead
<1>1. FleetIInv => TableNotAhead
  <2> SUFFICES ASSUME FleetIInv, NEW o \in Orders
               PROVE  /\ orders[o].status \in News =>
                           \A v \in Vehicles :
                             /\ \A i \in DOMAIN commands[v] : commands[v][i] # o
                             /\ sim[v].order = o => sim[v].phase = "to_dropoff"
                      /\ orders[o].status = "delivered" =>
                           \A v \in Vehicles : sim[v].order # o
    BY DEF TableNotAhead, News
  <2>1. \A s \in News : orders[o].status = s => Reported(o, s)
    BY DEF Reported
  <2>2. orders[o].status \in News => ~Commanded(o)
    BY <2>1 DEF FleetIInv, Road, OnTheWay
  <2>3. \A v \in Vehicles : sim[v].order = o =>
          /\ orders[o].status # "delivered"
          /\ orders[o].status = "picked_up" => sim[v].phase = "to_dropoff"
    BY <2>1 DEF FleetIInv, Road, OnTheWay, News
  <2> QED
    BY <2>2, <2>3 DEF Commanded, News
<1> QED
  BY <1>1, FleetInvariant, PTL

\* The engine's mutex, in the whole fleet: no order is assigned twice.
THEOREM FleetAssignsOnce == FleetSpec => []AssignedOncePerPending
<1>1. FleetIInv => AssignedOncePerPending
  BY DEF FleetIInv, EngineIInv, Fresh, AssignedOncePerPending
<1> QED
  BY <1>1, FleetInvariant, PTL

\* Nothing that happens in the fleet, a crash included, changes an order that
\* is delivered or cancelled and that nobody is dealing with.
THEOREM FleetSettles == FleetSpec => SettledForever
<1>1. ASSUME FleetIInv, [FleetNext]_fleetVars, NEW o \in Orders, Settled(o)
      PROVE  Settled(o)' /\ orders'[o] = orders[o]
  <2>1. CASE Crash
    BY <1>1, <2>1 DEF Crash, Settled, Unclaimed, Considered
  <2>2. CASE ~Crash
    BY <1>1, <2>2, EngineStep, SettledStep DEF FleetIInv
  <2> QED
    BY <2>1, <2>2
<1>2. FleetIInv /\ [FleetNext]_fleetVars =>
        [\A o \in Orders : Settled(o) => Settled(o)' /\ orders'[o] = orders[o]]_vars
  BY <1>1
<1> QED
  BY <1>2, FleetInvariant, PTL DEF FleetSpec, SettledForever

\* When requests about one order take turns the orders of the fleet follow the
\* order lifecycle, also when the server dies between two requests.
THEOREM FleetFollowsLifecycle ==
  ASSUME OneCallPerOrder PROVE FleetSpec => FollowsLifecycle
<1> DEFINE st == [o \in Orders |-> orders[o].status]
<1>1. FleetInit => Lifecycle!Init /\ TakesTurns /\ StillAllowed
  BY DispatcherCalls
  DEF FleetInit, OrderInit, NoOrderRow, Lifecycle!Init, TakesTurns,
      StillAllowed, NoCall, Looking
<1>2. ASSUME FleetIInv, TakesTurns, StillAllowed, [FleetNext]_fleetVars
      PROVE  /\ TakesTurns' /\ StillAllowed'
             /\ [Lifecycle!Next]_st
  <2>1. CASE Crash
    <3>1. /\ orders' = orders
          /\ \A c \in Callers : ocalls'[c] = NoCall
          /\ \A d \in Dispatchers : pc'[d] = "idle"
      BY <2>1 DEF Crash
    <3> QED
      BY <3>1 DEF TakesTurns, StillAllowed, NoCall, Looking
  <2>2. CASE ~Crash
    <3>1. [Next]_vars /\ LifeIInv
      BY <1>2, <2>2, EngineStep DEF FleetIInv, LifeIInv
    <3> QED
      BY <3>1, LifeStep, LifecycleStep
  <2> QED
    BY <2>1, <2>2
<1>3. FleetIInv /\ TakesTurns /\ StillAllowed /\ [FleetNext]_fleetVars =>
        /\ TakesTurns' /\ StillAllowed'
        /\ [Lifecycle!Next]_st
  BY <1>2
<1> QED
  BY <1>1, <1>3, FleetInvariant, PTL
  DEF FleetSpec, FollowsLifecycle, Lifecycle!Spec

\* A vehicle that starts with enough in its battery never stands idle with
\* less than the level at which it charges.
THEOREM AlwaysChargesInTime ==
  ASSUME \A l \in StartBattery : l >= LowBattery
  PROVE  FleetSpec => []ChargesInTime
<1>1. FleetInit => ChargesInTime
  BY FleetInitIInv
<1>2. FleetIInv /\ ChargesInTime /\ [FleetNext]_fleetVars => ChargesInTime'
  BY FleetNextIInv
<1> QED
  BY <1>1, <1>2, FleetInvariant, PTL DEF FleetSpec

-----------------------------------------------------------------------------
(* What a vehicle says of itself.                                          *)

\* A tick tells what it does.

LEMMA TickHonest ==
  ASSUME SimTypeOK, Phased, NEW v \in Vehicles, SimTick(v), Honest
  PROVE  Honest'
<1>1. PICK after \in VehicleState, news \in Seq(Message) :
        /\ Fit(after)
        /\ sim' = [sim EXCEPT ![v] = after]
        /\ TickNews(sim[v], after, news)
        /\ inbox' = [inbox EXCEPT ![v] = @ \o news]
  BY TickEffect DEF TickDone, Fit
<1>2. heard' = heard
  BY TickEffect DEF TickDone
<1>3. /\ sim'[v] = after /\ inbox'[v] = inbox[v] \o news
      /\ \A u \in Vehicles \ {v} : sim'[u] = sim[u] /\ inbox'[u] = inbox[u]
      /\ inbox[v] \in Seq(Message)
  BY <1>1 DEF SimTypeOK
<1> DEFINE word == LastSaid(inbox[v], heard[v])
<1>4. LastWord(v)' = LastSaid(news, word)
  <2>1. LastSaid(inbox[v] \o news, heard[v])
          = LastSaid(news, LastSaid(inbox[v], heard[v]))
    BY <1>3, LastSaidConcat, Zenon
  <2> QED
    BY <1>2, <1>3, <2>1 DEF LastWord
<1>5. sim[v].status # "en_route" => word = sim[v].status
  BY DEF Honest, LastWord
<1> HIDE DEF word
<1>6. after.phase = "to_dropoff" => after.status = "delivering"
  BY <1>1, PhaseFacts DEF Fit, VehicleState
<1>7. after.status # "en_route" => LastSaid(news, word) = after.status
  <2>1. PICK t \in Message :
         /\ t.topic = "telemetry"
         /\ \/ after.status = sim[v].status /\ news = <<t>>
            \/ after.status = "charging" /\ news = <<Says("charging"), t>>
            \/ after.status = "idle" /\ news = <<Says("idle"), t>>
            \/ after.status = "delivering" /\ news = <<Says("delivering"), t>>
            \/ /\ after.status = "charging"
               /\ news = <<Says("idle"), Says("charging"), t>>
    BY <1>1, <1>6 DEF TickNews
  <2>2. /\ LastSaid(<<t>>, word) = word
        /\ \A x \in {"idle", "delivering", "charging"} :
             LastSaid(<<Says(x), t>>, word) = x
        /\ LastSaid(<<Says("idle"), Says("charging"), t>>, word) = "charging"
    BY <2>1, ShortLast
  <2> QED
    BY <1>5, <2>1, <2>2
<1> QED
  BY <1>2, <1>3, <1>4, <1>7 DEF Honest, LastWord

\* A message that is taken was heard.
LEMMA ReceiveHonest ==
  ASSUME SimTypeOK, NEW v \in Vehicles, Receive(v), Honest
  PROVE  Honest'
<1>1. /\ inbox[v] # <<>> /\ inbox[v] \in Seq(Message)
      /\ inbox'[v] = Tail(inbox[v])
      /\ heard'[v] = IF Head(inbox[v]).topic = "status"
                     THEN Head(inbox[v]).says ELSE heard[v]
      /\ \A u \in Vehicles \ {v} : inbox'[u] = inbox[u] /\ heard'[u] = heard[u]
      /\ sim' = sim
  BY DEF Receive, SimTypeOK
<1>2. LastWord(v)' = LastWord(v)
  BY <1>1, TakenWord DEF LastWord
<1> QED
  BY <1>1, <1>2 DEF Honest, LastWord

\* A vehicle that starts says that it is idle, and it is.
LEMMA SaysIdleFirst ==
  ASSUME NEW level \in StartBattery, NEW before
  PROVE  LastSaid(<<Says("idle")>>, before) = NewVehicle(level).status
<1>1. Says("idle") \in Message /\ Says("idle").topic = "status"
      /\ Says("idle").says = "idle"
  BY MessageTypes DEF Says
<1>2. LastSaid(<<Says("idle")>>, before) = "idle"
  BY <1>1, LastSaidOne
<1> QED
  BY <1>2, NewVehicleState

\* Every step of the fleet, the crash included, keeps the vehicles honest.
LEMMA HonestStep ==
  ASSUME ~Loses, FleetIInv, Honest, [FleetNext]_fleetVars
  PROVE  Honest'
<1>s. SimTypeOK /\ Phased
  BY DEF FleetIInv
<1>1. ASSUME UNCHANGED <<sim, inbox, heard>> PROVE Honest'
  BY <1>1 DEF Honest, LastWord
<1>2. ASSUME NEW d \in Dispatchers, Dispatch(d) PROVE Honest'
  BY <1>1, <1>2 DEF Dispatch, simVars, Send
<1>3. ASSUME NEW v \in Vehicles, TakeStatus(v) \/ TakeTelemetry(v) PROVE Honest'
  BY <1>s, <1>3, ReceiveHonest DEF TakeStatus, TakeTelemetry
<1>4. ASSUME NEW c \in Callers,
             \/ \E r \in requests : ServeRequest(c, r)
             \/ ClientCancels(c) \/ FinishRequest(c)
      PROVE  Honest'
  BY <1>1, <1>4 DEF ServeRequest, ClientCancels, FinishRequest, Answer, simVars
<1>5. ASSUME NEW v \in Vehicles, FleetTick(v) PROVE Honest'
  BY <1>s, <1>5, TickHonest DEF FleetTick
<1>6. ASSUME NEW v \in Vehicles, OnCommand(v) PROVE Honest'
  <2>1. /\ UNCHANGED <<inbox, heard>>
        /\ sim'[v].status = "en_route"
        /\ \A u \in Vehicles \ {v} : sim'[u] = sim[u]
    BY <1>s, <1>6 DEF OnCommand, SimTypeOK, VehicleState
  <2> QED
    BY <2>1 DEF Honest, LastWord
<1>7. ASSUME NEW v \in Vehicles, Lose(v) PROVE FALSE
  BY <1>7 DEF Lose
<1>8. CASE Crash
  <2>1. PICK level \in [Vehicles -> StartBattery] :
          sim' = [v \in Vehicles |-> NewVehicle(level[v])]
    BY <1>8 DEF Crash
  <2>2. inbox' = [v \in Vehicles |-> <<Says("idle")>>]
    BY <1>8 DEF Crash
  <2> QED
    BY <2>1, <2>2, SaysIdleFirst DEF Honest, LastWord
<1>9. CASE UNCHANGED simVars
  BY <1>1, <1>9 DEF simVars
<1> QED
  BY <1>2, <1>3, <1>4, <1>5, <1>6, <1>7, <1>8, <1>9
  DEF FleetNext, FinishCallback, fleetVars

-----------------------------------------------------------------------------
(* One job at a time.                                                      *)

\* Calls take turns and do not fail, nothing is lost, no entry expires, and
\* the server is up for good.
Calm == Serial /\ ~Loses /\ ~Crashes /\ ~Restarted /\ ~Expires /\ LongCharge

\* A dispatcher has chosen v; it has also assigned its order to v.
Picked(v) == \E d \in Dispatchers : pc[d] \in Chosen /\ job[d].best = v

Sent(v) ==
  \E d \in Dispatchers : pc[d] \in Chosen \ {"assign"} /\ job[d].best = v

About(w, v) == vcalls[w] # NoVehicleCall /\ vcalls[w].id = v

\* A callback is writing a status of v.
StatusCall(v) ==
  /\ About(Callback, v)
  /\ vcalls[Callback].step \in {"statusGet", "statusSet"}

\* Only dispatchers and callbacks call the vehicle service, and no dispatch
\* ends up in the database.
Calling ==
  /\ \A d \in Dispatchers : /\ pc[d] = "list" => Vehicles = {}
                            /\ pc[d] = "mget" => job[d].keys # {}
  /\ \A w \in Workers : vcalls[w] # NoVehicleCall =>
       /\ w \in Dispatchers \cup {Callback}
       /\ vcalls[w].step \in {"statusGet", "statusSet"}
            \cup (IF w = Callback THEN {"telemetrySet", "telemetryDB"} ELSE {})

\* At most one dispatcher, command or order at a time, and none but for a
\* vehicle that is booked.
OneJob(v) ==
  /\ Picked(v) \/ commands[v] # <<>> => sim[v].phase = NoPhase
  /\ Picked(v) => commands[v] = <<>>
  /\ Len(commands[v]) <= 1
  /\ Sent(v) \/ commands[v] # <<>> \/ sim[v].phase # NoPhase => booked[v]

\* A vehicle whose "idle" is on the way is not chosen before it arrives.
FreeNews(v) ==
  /\ OneIdle(inbox[v])
  /\ Has(inbox[v], "idle") =>
       /\ ~Picked(v) /\ commands[v] = <<>> /\ sim[v].phase = NoPhase
       /\ cache[v].status \notin Available
       /\ \A w \in Workers : About(w, v) =>
            vcalls[w].entry.status \notin Available

\* The cache holds what was heard, or is about to.
CacheNews(v) ==
  /\ cache[v] # Absent
  /\ heard[v] = "charging" => cache[v].status \notin Available \/ StatusCall(v)
  /\ heard[v] # BlankStatus =>
       cache[v].status # BlankStatus \/ StatusCall(v)
  /\ \A w \in Workers : About(w, v) =>
       /\ heard[v] = "charging" => vcalls[w].entry.status \notin Available
       /\ heard[v] # BlankStatus => vcalls[w].entry.status # BlankStatus

\* What was heard of a vehicle and what it does now.
RoadNews(v) ==
  /\ TakenBack(inbox[v]) \/ sim[v].phase = "to_dropoff"
  /\ heard[v] = "delivering" =>
       sim[v].phase = "to_dropoff" \/ Has(inbox[v], "idle")
  /\ heard[v] = BlankStatus => Has(inbox[v], "idle")
  /\ Picked(v) \/ commands[v] # <<>> \/ sim[v].phase = "to_pickup" =>
       heard[v] \in {"idle", "charging"} /\ ~Has(inbox[v], "delivering")

\* The row holds what was heard, or the job the vehicle was given since.
RowNews(v) ==
  /\ db[v].status = "en_route" =>
       \/ Sent(v) \/ commands[v] # <<>> \/ sim[v].phase # NoPhase
       \/ Has(inbox[v], "idle")
  /\ heard[v] = BlankStatus => db[v].status = "idle"
  /\ heard[v] = "idle" => db[v].status \in {"idle", "en_route"}
  /\ heard[v] = "charging" => db[v].status \in {"charging", "en_route"}
  /\ heard[v] = "delivering" => db[v].status = "delivering"

JobOK(v) ==
  OneJob(v) /\ FreeNews(v) /\ CacheNews(v) /\ RoadNews(v) /\ RowNews(v)

JobIInv ==
  /\ FleetIInv
  /\ BookIInv
  /\ Honest
  /\ Calling
  /\ \A v \in Vehicles : JobOK(v)

\* The parts of the state that JobOK looks at.
SameServer(v) ==
  /\ db'[v] = db[v] /\ cache'[v] = cache[v] /\ booked'[v] = booked[v]
  /\ \A w \in Workers : About(w, v) \/ About(w, v)' => vcalls'[w] = vcalls[w]

SameVehicle(v) ==
  /\ sim'[v] = sim[v] /\ inbox'[v] = inbox[v]
  /\ commands'[v] = commands[v] /\ heard'[v] = heard[v]

SameChoice(v) == (Picked(v)' <=> Picked(v)) /\ (Sent(v)' <=> Sent(v))

\* The calls about a vehicle, where the server does not change for it.
LEMMA SameCalls ==
  ASSUME NEW v \in Vehicles, SameServer(v)
  PROVE  /\ \A w \in Workers : About(w, v)' <=> About(w, v)
         /\ \A w \in Workers : About(w, v) => vcalls'[w] = vcalls[w]
         /\ StatusCall(v)' <=> StatusCall(v)
<1>1. \A w \in Workers : About(w, v)' <=> About(w, v)
  BY DEF SameServer, About
<1>2. \A w \in Workers : About(w, v) => vcalls'[w] = vcalls[w]
  BY DEF SameServer
<1>3. Callback \in Workers
  BY FleetAssumption
<1> QED
  BY <1>1, <1>2, <1>3 DEF StatusCall

\* A step that has nothing to do with v.
LEMMA Untouched ==
  ASSUME NEW v \in Vehicles, JobOK(v), SameServer(v), SameVehicle(v),
         SameChoice(v)
  PROVE  JobOK(v)'
<1>1. /\ \A w \in Workers : About(w, v)' <=> About(w, v)
      /\ \A w \in Workers : About(w, v) => vcalls'[w] = vcalls[w]
      /\ StatusCall(v)' <=> StatusCall(v)
  BY SameCalls
<1>2. OneJob(v)'
  BY DEF JobOK, OneJob, SameServer, SameVehicle, SameChoice
<1>3. FreeNews(v)'
  BY <1>1 DEF JobOK, FreeNews, SameServer, SameVehicle, SameChoice
<1>4. CacheNews(v)'
  BY <1>1 DEF JobOK, CacheNews, SameServer, SameVehicle, SameChoice
<1>5. RoadNews(v)'
  BY DEF JobOK, RoadNews, SameServer, SameVehicle, SameChoice
<1>6. RowNews(v)'
  BY DEF JobOK, RowNews, SameServer, SameVehicle, SameChoice
<1> QED
  BY <1>2, <1>3, <1>4, <1>5, <1>6 DEF JobOK

\* Only one dispatcher at a time has chosen a vehicle.
LEMMA ChoiceOf ==
  ASSUME Mutex, NEW d \in Dispatchers, pc[d] \notin {"idle", "lock"}
  PROVE  \A v \in Vehicles :
           /\ Picked(v) <=> pc[d] \in Chosen /\ job[d].best = v
           /\ Sent(v) <=> pc[d] \in Chosen \ {"assign"} /\ job[d].best = v
<1>1. \A x \in Dispatchers : x # d => pc[x] \notin Chosen
  BY Alone DEF Chosen
<1> QED
  BY <1>1 DEF Picked, Sent

\* What a step of one dispatcher does to the choices of all.
LEMMA NextChoice ==
  ASSUME Mutex, NEW d \in Dispatchers,
         \A x \in Dispatchers \ {d} : pc'[x] = pc[x] /\ job'[x] = job[x]
  PROVE  /\ pc[d] \notin {"idle", "lock"} => \A v \in Vehicles :
              /\ Picked(v)' <=> pc'[d] \in Chosen /\ job'[d].best = v
              /\ Sent(v)' <=> pc'[d] \in Chosen \ {"assign"} /\ job'[d].best = v
         /\ pc[d] \notin Chosen /\ pc'[d] \notin Chosen =>
              \A v \in Vehicles : SameChoice(v)
         /\ pc[d] \in Chosen \ {"assign"} /\ pc'[d] \in Chosen \ {"assign"}
            /\ job'[d] = job[d] => \A v \in Vehicles : SameChoice(v)
<1>1. ASSUME pc[d] \notin {"idle", "lock"}, NEW v \in Vehicles
      PROVE  /\ Picked(v)' <=> pc'[d] \in Chosen /\ job'[d].best = v
             /\ Sent(v)' <=> pc'[d] \in Chosen \ {"assign"} /\ job'[d].best = v
  <2>1. \A x \in Dispatchers \ {d} : pc'[x] \notin Chosen
    BY <1>1, Alone DEF Chosen
  <2> QED
    BY <2>1 DEF Picked, Sent
<1>2. ASSUME pc[d] \notin Chosen, pc'[d] \notin Chosen, NEW v \in Vehicles
      PROVE  SameChoice(v)
  BY <1>2 DEF Picked, Sent, SameChoice
<1>3. ASSUME pc[d] \in Chosen \ {"assign"}, pc'[d] \in Chosen \ {"assign"},
             job'[d] = job[d], NEW v \in Vehicles
      PROVE  SameChoice(v)
  BY <1>3 DEF Picked, Sent, SameChoice
<1> QED
  BY <1>1, <1>2, <1>3

\* The parts of the invariant that are cited most.
LEMMA JobTypes ==
  ASSUME JobIInv
  PROVE  /\ EngineTypeOK /\ VehicleTypeOK /\ SimTypeOK /\ Phased
         /\ Shape /\ Mutex /\ CacheIInv /\ BookInv
         /\ pc \in [Dispatchers -> Steps]
         /\ job \in [Dispatchers -> Job \cup {NoJob}]
         /\ vcalls \in [Workers -> VehicleCall \cup {NoVehicleCall}]
         /\ db \in [Vehicles -> VehicleRow \cup {Absent}]
         /\ cache \in [Vehicles -> CacheEntry \cup {Absent}]
         /\ booked \in [Vehicles -> BOOLEAN]
BY DEF JobIInv, FleetIInv, BookIInv, EngineIInv, EngineTypeOK, VehicleTypeOK

\* With the cache never empty, no dispatch reads the database.
LEMMA SearchCalling ==
  ASSUME Calm, JobIInv, NEW d \in Dispatchers,
         \/ \E o \in Orders : DispatchOrder(d, o)
         \/ DispatchStep(d)
  PROVE  \A x \in Dispatchers : /\ pc'[x] = "list" => Vehicles = {}
                                /\ pc'[x] = "mget" => job'[x].keys # {}
<1>t. /\ pc \in [Dispatchers -> Steps]
      /\ job \in [Dispatchers -> Job \cup {NoJob}]
      /\ Shape
      /\ \A v \in Vehicles : cache[v] # Absent
      /\ ~RedisFaults
  BY JobTypes DEF JobIInv, JobOK, CacheNews, Calm, Serial
<1>o. /\ pc[d] = "list" => Vehicles = {}
      /\ pc[d] = "mget" => job[d].keys # {}
      /\ \A x \in Dispatchers \ {d} :
           /\ pc[x] = "list" => Vehicles = {}
           /\ pc[x] = "mget" => job[x].keys # {}
  BY DEF JobIInv, Calling
<1>1. CASE pc'[d] \notin {"list", "mget"}
           /\ \A x \in Dispatchers \ {d} : pc'[x] = pc[x] /\ job'[x] = job[x]
  BY <1>o, <1>1
<1>l. Leave(d) => /\ pc'[d] \notin {"list", "mget"}
                  /\ \A x \in Dispatchers \ {d} : pc'[x] = pc[x] /\ job'[x] = job[x]
  BY <1>t DEF Leave, Goto
<1>2. CASE \E o \in Orders : DispatchOrder(d, o)
  BY <1>1, <1>2, <1>t DEF DispatchOrder, Goto
<1>3. CASE Lock(d) \/ GetOrder(d) \/ Publish(d)
  BY <1>1, <1>3, <1>l, <1>t DEF Lock, GetOrder, Publish, Goto
<1>4. CASE GetKeys(d)
  <2> DEFINE found == {v \in Vehicles : cache[v] # Absent}
  <2>1. found = Vehicles
    BY <1>t
  <2>2. job[d] \in Job
    BY <1>4, <1>t DEF GetKeys, Shape, Looking
  <2>3. \/ /\ found # {}
           /\ job' = [job EXCEPT ![d].keys = found]
           /\ pc' = [pc EXCEPT ![d] = "mget"]
        \/ /\ found = {}
           /\ pc' = [pc EXCEPT ![d] = "list"]
           /\ UNCHANGED job
    BY <1>4, <1>t DEF GetKeys, Goto
  <2> HIDE DEF found
  <2>4. \A x \in Dispatchers \ {d} : pc'[x] = pc[x] /\ job'[x] = job[x]
    BY <2>3, <1>t
  <2>5. /\ pc'[d] = "list" => Vehicles = {}
        /\ pc'[d] = "mget" => job'[d].keys # {}
    BY <2>1, <2>2, <2>3, <1>t DEF Job
  <2> QED
    BY <1>o, <2>4, <2>5
<1>5. CASE MGet(d) \/ ListVehicles(d)
  <2>1. pc[d] = "mget" \/ Vehicles = {}
    BY <1>5, <1>o DEF MGet, ListVehicles
  <2>2. CASE Leave(d) /\ UNCHANGED orderVars
    BY <2>2, <1>1, <1>l
  <2>3. CASE \E v \in Vehicles : /\ job' = [job EXCEPT ![d].best = v]
                                 /\ Goto(d, "assign")
    BY <2>3, <1>1, <1>t DEF Goto
  <2>4. CASE Goto(d, "list") /\ UNCHANGED <<orderVars, mu, job>>
    <3>1. pc'[d] = "list" /\ \A x \in Dispatchers \ {d} : pc'[x] = pc[x]
      BY <2>4, <1>t DEF Goto
    <3>2. Vehicles = {}
      <4>1. CASE ListVehicles(d)
        BY <4>1, <1>o DEF ListVehicles
      <4>2. CASE MGet(d)
        <5> DEFINE live == {v \in job[d].keys : cache[v] # Absent}
                   list == [v \in live |-> cache[v]]
        <5>1. live = job[d].keys /\ live # {}
          BY <4>2, <1>t, <1>o DEF MGet, Shape, Looking, Job
        <5>2. Match(d, list)
          BY <4>2, <5>1, <1>t DEF MGet
        <5> HIDE DEF list
        <5>3. pc'[d] # "list"
          BY <5>2, MatchOutcome, <1>t DEF Leave, Goto
        <5> QED
          BY <3>1, <5>3
      <4> QED
        BY <1>5, <4>1, <4>2
    <3> QED
      BY <1>o, <2>4, <3>1, <3>2
  <2> QED
    BY <1>5, <1>t, <2>2, <2>3, <2>4, SearchOutcome
<1>6. CASE AssignOrder(d)
  BY <1>1, <1>6, <1>l, <1>t DEF AssignOrder, Goto
<1>7. CASE SetEnRoute(d) \/ SettingStatus(d)
  BY <1>1, <1>7, <1>t DEF SetEnRoute, SettingStatus, Goto
<1> QED
  BY <1>2, <1>3, <1>4, <1>5, <1>6, <1>7 DEF DispatchStep

\* A vehicle that is found idle in the cache has no job, and none on the way.
LEMMA ChosenIsFree ==
  ASSUME JobIInv, NEW v \in Vehicles, cache[v].status = "idle", ~booked[v]
  PROVE  /\ commands[v] = <<>> /\ sim[v].phase = NoPhase
         /\ ~Has(inbox[v], "idle") /\ ~Has(inbox[v], "delivering")
         /\ heard[v] \in {"idle", "charging"}
<1>1. JobOK(v)
  BY DEF JobIInv
<1>2. commands[v] = <<>> /\ sim[v].phase = NoPhase
  BY <1>1 DEF JobOK, OneJob
<1>3. ~Has(inbox[v], "idle")
  BY <1>1 DEF JobOK, FreeNews, Available
<1>4. heard[v] \in {"idle", "charging"}
  <2>1. heard[v] \in {BlankStatus, "idle", "delivering", "charging"}
    BY JobTypes DEF SimTypeOK
  <2> QED
    BY <1>1, <1>2, <1>3, <2>1, PhaseFacts DEF JobOK, RoadNews
<1>5. ~Has(inbox[v], "delivering")
  <2>1. TakenBack(inbox[v])
    BY <1>1, <1>2, PhaseFacts DEF JobOK, RoadNews
  <2> QED
    BY <1>3, <2>1 DEF TakenBack, Has
<1> QED
  BY <1>2, <1>3, <1>4, <1>5

LEMMA SearchJob ==
  ASSUME Calm, JobIInv, NEW d \in Dispatchers,
         \/ \E o \in Orders : DispatchOrder(d, o)
         \/ Lock(d) \/ GetOrder(d) \/ GetKeys(d)
         \/ MGet(d) \/ ListVehicles(d),
         UNCHANGED simVars, BookIInv'
  PROVE  \A v \in Vehicles : JobOK(v)'
<1>t. /\ VehicleTypeOK
      /\ pc \in [Dispatchers -> Steps]
      /\ job \in [Dispatchers -> Job \cup {NoJob}]
      /\ Shape /\ Mutex
      /\ \A v \in Vehicles : JobOK(v)
  BY JobTypes DEF JobIInv
<1>1. /\ UNCHANGED <<vehicleVars, historyVars>>
      /\ pc[d] \notin Chosen
      /\ \A x \in Dispatchers \ {d} : pc'[x] = pc[x] /\ job'[x] = job[x]
      /\ \/ pc'[d] \notin Chosen
         \/ /\ pc[d] \in Looking /\ pc'[d] = "assign"
            /\ job[d] \in Job
            /\ \E v \in Vehicles :
                 /\ \/ pc[d] = "mget" /\ cache[v].status = "idle"
                    \/ pc[d] = "list" /\ db[v].status = "idle"
                 /\ job' = [job EXCEPT ![d].best = v]
  <2>l. Leave(d) => /\ pc'[d] \notin Chosen
                    /\ \A x \in Dispatchers \ {d} : pc'[x] = pc[x] /\ job'[x] = job[x]
    BY <1>t DEF Leave, Goto, Chosen
  <2>1. CASE \E o \in Orders : DispatchOrder(d, o)
    BY <2>1, <1>t DEF DispatchOrder, Goto, Chosen
  <2>2. CASE Lock(d) \/ GetOrder(d) \/ GetKeys(d)
    BY <2>2, <2>l, <1>t DEF Lock, GetOrder, GetKeys, Goto, Chosen
  <2>3. CASE MGet(d) \/ ListVehicles(d)
    <3>1. /\ pc[d] \in Looking /\ job[d] \in Job
          /\ UNCHANGED <<vehicleVars, historyVars>>
      BY <2>3, <1>t, SearchOutcome DEF Shape, Looking
    <3>2. CASE Leave(d) \/ (Goto(d, "list") /\ job' = job)
      BY <3>1, <3>2, <2>l, <1>t DEF Goto, Looking, Chosen
    <3>3. CASE \E v \in Vehicles :
                 /\ \/ pc[d] = "mget" /\ cache[v].status = "idle"
                    \/ pc[d] = "list" /\ db[v].status = "idle"
                 /\ job' = [job EXCEPT ![d].best = v]
                 /\ Goto(d, "assign")
      BY <3>1, <3>3, <1>t DEF Goto, Looking, Chosen
    <3> QED
      BY <2>3, <3>2, <3>3, <1>t, SearchOutcome
  <2> QED
    BY <2>1, <2>2, <2>3
<1>2. \A v \in Vehicles : SameServer(v) /\ SameVehicle(v)
  BY <1>1 DEF SameServer, SameVehicle, vehicleVars, historyVars, simVars
<1>3. CASE pc'[d] \notin Chosen
  <2>1. \A v \in Vehicles : SameChoice(v)
    BY <1>1, <1>3, <1>t, NextChoice
  <2> QED
    BY <1>2, <1>t, <2>1, Untouched
<1>4. CASE /\ pc[d] \in Looking /\ pc'[d] = "assign"
           /\ job[d] \in Job
           /\ \E v \in Vehicles :
                /\ \/ pc[d] = "mget" /\ cache[v].status = "idle"
                   \/ pc[d] = "list" /\ db[v].status = "idle"
                /\ job' = [job EXCEPT ![d].best = v]
  <2>1. PICK b \in Vehicles :
          /\ \/ pc[d] = "mget" /\ cache[b].status = "idle"
             \/ pc[d] = "list" /\ db[b].status = "idle"
          /\ job' = [job EXCEPT ![d].best = b]
    BY <1>4
  <2>2. job'[d].best = b
    BY <2>1, <1>4, <1>t DEF Job
  <2>3. cache[b].status = "idle"
    BY <2>1 DEF JobIInv, Calling
  <2>4. ~booked[b]
    BY <1>1, <1>4, <2>2 DEF BookIInv, BookInv, ChosenOK, historyVars
  <2>5. \A v \in Vehicles :
          /\ ~Picked(v) /\ ~Sent(v) /\ ~Sent(v)'
          /\ Picked(v)' <=> v = b
    <3>1. pc[d] \notin {"idle", "lock"}
      BY <1>4 DEF Looking
    <3> QED
      BY <1>1, <1>4, <1>t, <2>2, <3>1, ChoiceOf, NextChoice DEF Looking, Chosen
  <2>6. ASSUME NEW v \in Vehicles, v # b PROVE JobOK(v)'
    BY <1>2, <1>t, <2>5, <2>6, Untouched DEF SameChoice
  <2>7. JobOK(b)'
    <3>0. /\ commands[b] = <<>> /\ sim[b].phase = NoPhase
          /\ ~Has(inbox[b], "idle") /\ ~Has(inbox[b], "delivering")
          /\ heard[b] \in {"idle", "charging"}
      BY <2>3, <2>4, ChosenIsFree
    <3>1. /\ SameServer(b) /\ SameVehicle(b) /\ JobOK(b)
          /\ ~Sent(b) /\ ~Sent(b)'
      BY <1>2, <1>t, <2>5
    <3>2. /\ \A w \in Workers : About(w, b)' <=> About(w, b)
          /\ \A w \in Workers : About(w, b) => vcalls'[w] = vcalls[w]
          /\ StatusCall(b)' <=> StatusCall(b)
      BY <3>1, SameCalls
    <3>3. OneJob(b)'
      BY <3>0, <3>1 DEF JobOK, OneJob, SameServer, SameVehicle
    <3>4. FreeNews(b)'
      BY <3>0, <3>1 DEF JobOK, FreeNews, SameVehicle
    <3>5. CacheNews(b)'
      BY <3>1, <3>2 DEF JobOK, CacheNews, SameServer, SameVehicle
    <3>6. RoadNews(b)'
      BY <3>0, <3>1 DEF JobOK, RoadNews, SameVehicle
    <3>7. RowNews(b)'
      BY <3>1 DEF JobOK, RowNews, SameServer, SameVehicle
    <3> QED
      BY <3>3, <3>4, <3>5, <3>6, <3>7 DEF JobOK
  <2> QED
    BY <2>6, <2>7
<1> QED
  BY <1>1, <1>3, <1>4

\* What is so of the vehicle that dispatcher d has chosen.
LEMMA ChosenVehicle ==
  ASSUME JobIInv, NEW d \in Dispatchers, pc[d] \in Chosen
  PROVE  /\ job[d].best \in Vehicles /\ job[d] \in Job
         /\ pc[d] \notin {"idle", "lock"}
         /\ \A v \in Vehicles : /\ Picked(v) <=> v = job[d].best
                                /\ Sent(v) <=> v = job[d].best /\ pc[d] # "assign"
         /\ LET b == job[d].best
            IN  /\ JobOK(b) /\ Picked(b)
                /\ commands[b] = <<>> /\ sim[b].phase = NoPhase
                /\ ~Has(inbox[b], "idle") /\ ~Has(inbox[b], "delivering")
                /\ heard[b] \in {"idle", "charging"}
<1>1. /\ job[d].best \in Vehicles /\ job[d] \in Job
      /\ pc[d] \notin {"idle", "lock"}
  BY JobTypes DEF Shape, Chosen
<1>2. \A v \in Vehicles : /\ Picked(v) <=> v = job[d].best
                          /\ Sent(v) <=> v = job[d].best /\ pc[d] # "assign"
  BY <1>1, JobTypes, ChoiceOf
<1> DEFINE b == job[d].best
<1>3. JobOK(b) /\ Picked(b)
  BY <1>1, <1>2 DEF JobIInv
<1> QED
  BY <1>1, <1>2, <1>3 DEF JobOK, OneJob, FreeNews, RoadNews

\* A dispatcher that moves on with its vehicle b leaves the others alone.
LEMMA MovesOn ==
  ASSUME JobIInv, NEW d \in Dispatchers, pc[d] \in Chosen,
         \A x \in Dispatchers \ {d} : pc'[x] = pc[x] /\ job'[x] = job[x],
         \/ pc'[d] \in Chosen \ {"assign"} /\ job'[d] = job[d]
         \/ pc'[d] \notin Chosen,
         NEW v \in Vehicles, v # job[d].best, SameServer(v), SameVehicle(v)
  PROVE  JobOK(v)'
<1>1. pc[d] \notin {"idle", "lock"} /\ Mutex /\ JobOK(v) /\ ~Picked(v) /\ ~Sent(v)
  BY ChosenVehicle, JobTypes DEF JobIInv
<1>2. SameChoice(v)
  BY <1>1, NextChoice DEF SameChoice
<1> QED
  BY <1>1, <1>2, Untouched

LEMMA AssignJob ==
  ASSUME Calm, JobIInv, NEW d \in Dispatchers, AssignOrder(d), UNCHANGED simVars
  PROVE  \A v \in Vehicles : JobOK(v)'
<1>p. pc[d] \in Chosen
  BY DEF AssignOrder, Chosen
<1>b. PICK b \in Vehicles : b = job[d].best
  BY <1>p, ChosenVehicle
<1>t. /\ pc \in [Dispatchers -> Steps]
      /\ booked \in [Vehicles -> BOOLEAN]
      /\ Mutex
  BY JobTypes
<1>1. /\ pc[d] = "assign" /\ pc' = [pc EXCEPT ![d] = "status"]
      /\ booked' = [booked EXCEPT ![b] = TRUE]
      /\ UNCHANGED <<job, vehicleVars>>
  BY <1>b DEF AssignOrder, Goto, Calm, Serial
<1>2. /\ pc[d] \in Chosen /\ pc'[d] = "status" /\ job'[d] = job[d]
      /\ \A x \in Dispatchers \ {d} : pc'[x] = pc[x] /\ job'[x] = job[x]
  BY <1>1, <1>t DEF Chosen
<1>3. /\ b = job[d].best /\ pc[d] \notin {"idle", "lock"}
      /\ JobOK(b) /\ Picked(b)
      /\ commands[b] = <<>> /\ sim[b].phase = NoPhase
      /\ ~Has(inbox[b], "idle") /\ ~Has(inbox[b], "delivering")
      /\ heard[b] \in {"idle", "charging"}
  BY <1>2, <1>b, ChosenVehicle
<1>4. \A v \in Vehicles : SameVehicle(v) /\ (v # b => SameServer(v))
  BY <1>1, <1>t DEF SameVehicle, SameServer, simVars, vehicleVars
<1>5. ASSUME NEW v \in Vehicles, v # b PROVE JobOK(v)'
  BY <1>2, <1>4, <1>5, <1>b, MovesOn DEF Chosen
<1>6. /\ booked'[b] /\ Picked(b)' /\ Sent(b)'
  BY <1>1, <1>2, <1>3, <1>t, <1>b, NextChoice DEF Chosen
<1>7. JobOK(b)'
  <2>0. UNCHANGED <<db, cache, vcalls>> /\ SameVehicle(b)
    BY <1>1, <1>3, <1>4 DEF vehicleVars
  <2>1. OneJob(b)'
    BY <1>3, <1>6, <2>0 DEF OneJob, JobOK, SameVehicle
  <2>2. FreeNews(b)'
    BY <1>3, <2>0 DEF FreeNews, JobOK, SameVehicle
  <2>3. CacheNews(b)'
    BY <1>3, <2>0 DEF CacheNews, JobOK, SameVehicle, About, StatusCall
  <2>4. RoadNews(b)'
    BY <1>3, <2>0 DEF RoadNews, JobOK, SameVehicle
  <2>5. RowNews(b)'
    BY <1>3, <1>6, <2>0 DEF RowNews, JobOK, SameVehicle
  <2> QED
    BY <2>1, <2>2, <2>3, <2>4, <2>5 DEF JobOK
<1> QED
  BY <1>5, <1>7

LEMMA SetEnRouteJob ==
  ASSUME Calm, JobIInv, NEW d \in Dispatchers, SetEnRoute(d), UNCHANGED simVars
  PROVE  \A v \in Vehicles : JobOK(v)'
<1>p. pc[d] \in Chosen
  BY DEF SetEnRoute, Chosen
<1>b. PICK b \in Vehicles : b = job[d].best
  BY <1>p, ChosenVehicle
<1>t. /\ pc \in [Dispatchers -> Steps]
      /\ vcalls \in [Workers -> VehicleCall \cup {NoVehicleCall}]
      /\ db \in [Vehicles -> VehicleRow \cup {Absent}]
      /\ Mutex
      /\ d \in Workers /\ Callback \in Workers \ Dispatchers
  BY JobTypes, DispatcherCalls, FleetAssumption
<1>1. /\ pc[d] = "status" /\ pc[d] \in Chosen
      /\ SetStatus(d, b, "en_route")
      /\ UNCHANGED <<booked, job>>
      /\ pc' = [pc EXCEPT ![d] = IF vcalls'[d] = NoVehicleCall
                                 THEN "publish" ELSE "setting"]
  BY <1>b DEF SetEnRoute, Goto, Calm, Serial, historyVars, Chosen
<1>3. /\ b = job[d].best /\ pc[d] \notin {"idle", "lock"}
      /\ JobOK(b) /\ Picked(b) /\ Sent(b)
      /\ commands[b] = <<>> /\ sim[b].phase = NoPhase
      /\ ~Has(inbox[b], "idle") /\ ~Has(inbox[b], "delivering")
      /\ heard[b] \in {"idle", "charging"}
  BY <1>1, <1>b, ChosenVehicle
<1>2. /\ vcalls[d] = NoVehicleCall /\ Quiet(b)
      /\ db[b] \in VehicleRow
      /\ db' = [db EXCEPT ![b].status = "en_route"]
      /\ vcalls' = [vcalls EXCEPT ![d] =
           [step |-> "statusGet", id |-> b,
            entry |-> [status |-> "en_route", report |-> NoReport]]]
      /\ cache' = cache
  <2>1. Registered(b)
    BY <1>3 DEF JobIInv, FleetIInv, Registered
  <2> QED
    BY <1>1, <1>3, <1>t, <2>1
    DEF SetStatus, Calm, Serial, Free, Continue, Registered
<1>m. /\ pc'[d] \in Chosen \ {"assign"} /\ job'[d] = job[d]
      /\ \A x \in Dispatchers \ {d} : pc'[x] = pc[x] /\ job'[x] = job[x]
  BY <1>1, <1>t DEF Chosen
<1>c. /\ vcalls'[d].id = b /\ vcalls'[d].entry.status = "en_route"
      /\ \A w \in Workers \ {d} : vcalls'[w] = vcalls[w]
      /\ \A w \in Workers : vcalls[w] # NoVehicleCall => vcalls[w].id # b
  BY <1>2, <1>t DEF Quiet
<1>4. \A v \in Vehicles : SameVehicle(v) /\ (v # b => SameServer(v))
  <2>1. \A v \in Vehicles : SameVehicle(v)
    BY DEF SameVehicle, simVars
  <2>2. ASSUME NEW v \in Vehicles, v # b PROVE SameServer(v)
    <3>1. db'[v] = db[v] /\ cache'[v] = cache[v] /\ booked'[v] = booked[v]
      BY <1>1, <1>2, <1>t, <2>2
    <3>2. ~About(d, v) /\ ~About(d, v)'
      BY <1>2, <1>c, <2>2 DEF About
    <3> QED
      BY <3>1, <3>2, <1>c DEF SameServer
  <2> QED
    BY <2>1, <2>2
<1>5. ASSUME NEW v \in Vehicles, v # b PROVE JobOK(v)'
  BY <1>1, <1>4, <1>m, <1>5, <1>b, MovesOn
<1>6. SameChoice(b)
  BY <1>1, <1>3, <1>m, <1>t, <1>b, NextChoice
<1>7. JobOK(b)'
  <2>0. SameVehicle(b) /\ cache'[b] = cache[b] /\ booked'[b] = booked[b]
    BY <1>1, <1>2, <1>3, <1>4
  <2>1. OneJob(b)'
    BY <1>3, <1>6, <2>0 DEF OneJob, JobOK, SameVehicle, SameChoice
  <2>2. FreeNews(b)'
    BY <1>3, <2>0 DEF FreeNews, JobOK, SameVehicle
  <2>3. CacheNews(b)'
    <3>1. \A w \in Workers : About(w, b)' => vcalls'[w].entry.status = "en_route"
      BY <1>c DEF About
    <3>2. ~StatusCall(b)
      BY <1>c, <1>t DEF StatusCall, About
    <3>3. "en_route" \notin Available /\ "en_route" # BlankStatus
      BY Zenon DEF Available, BlankStatus
    <3> QED
      BY <1>3, <2>0, <3>1, <3>2, <3>3 DEF CacheNews, JobOK, SameVehicle
  <2>4. RoadNews(b)'
    BY <1>3, <1>6, <2>0 DEF RoadNews, JobOK, SameVehicle, SameChoice
  <2>5. RowNews(b)'
    <3>1. db'[b].status = "en_route"
      BY <1>2, <1>3, <1>t DEF VehicleRow
    <3>2. heard'[b] \in {"idle", "charging"} /\ Sent(b)'
      BY <1>3, <1>6, <2>0 DEF SameVehicle, SameChoice
    <3>3. BlankStatus # "idle" /\ BlankStatus # "charging"
      BY Zenon DEF BlankStatus
    <3> QED
      BY <3>1, <3>2, <3>3 DEF RowNews
  <2> QED
    BY <2>1, <2>2, <2>3, <2>4, <2>5 DEF JobOK
<1> QED
  BY <1>5, <1>7

LEMMA SettingJob ==
  ASSUME Calm, JobIInv, NEW d \in Dispatchers, SettingStatus(d),
         UNCHANGED simVars
  PROVE  \A v \in Vehicles : JobOK(v)'
<1>p. pc[d] \in Chosen
  BY DEF SettingStatus, Chosen
<1>b. PICK b \in Vehicles : b = job[d].best
  BY <1>p, ChosenVehicle
<1> DEFINE call == vcalls[d]
<1>t. /\ pc \in [Dispatchers -> Steps]
      /\ vcalls \in [Workers -> VehicleCall \cup {NoVehicleCall}]
      /\ cache \in [Vehicles -> CacheEntry \cup {Absent}]
      /\ Mutex
      /\ d \in Workers /\ Callback \in Workers \ Dispatchers
  BY JobTypes, DispatcherCalls, FleetAssumption
<1>1. /\ pc[d] = "setting" /\ pc[d] \in Chosen
      /\ CallStep(d)
      /\ UNCHANGED <<booked, job>>
      /\ pc' = [pc EXCEPT ![d] = IF vcalls'[d] = NoVehicleCall
                                 THEN "publish" ELSE "setting"]
  BY <1>b DEF SettingStatus, Goto, historyVars, Chosen
<1>3. /\ b = job[d].best /\ pc[d] \notin {"idle", "lock"}
      /\ JobOK(b) /\ Picked(b) /\ Sent(b)
      /\ commands[b] = <<>> /\ sim[b].phase = NoPhase
      /\ ~Has(inbox[b], "idle") /\ ~Has(inbox[b], "delivering")
      /\ heard[b] \in {"idle", "charging"}
  BY <1>1, <1>b, ChosenVehicle
<1>e. "en_route" \notin Available /\ "en_route" # BlankStatus
  BY Zenon DEF Available, BlankStatus
<1>2. /\ call # NoVehicleCall /\ call.id = b
      /\ call.step \in {"statusGet", "statusSet"}
      /\ call.entry.status = "en_route" /\ call.entry \in CacheEntry
  <2>1. /\ call # NoVehicleCall /\ call.id = b
        /\ call.step \in {"statusGet", "statusSet"}
        /\ call.entry.status = "en_route"
    BY <1>1, <1>b, JobTypes DEF BookInv, SettingCalls
  <2> QED
    BY <1>t, <2>1 DEF VehicleCall
<1>4. /\ db' = db
      /\ \A w \in Workers \ {d} : vcalls'[w] = vcalls[w]
      /\ vcalls'[d] # NoVehicleCall =>
           vcalls'[d].id = b /\ vcalls'[d].entry.status = "en_route"
      /\ \/ cache' = cache
         \/ cache' = [cache EXCEPT ![b] = call.entry]
  <2>1. CASE StatusCacheGet(d)
    <3>1. cache[b] # Absent
      BY <1>3 DEF JobOK, CacheNews
    <3>2. CacheGet(b) = {cache[b]}
      BY DEF CacheGet, Calm, Serial
    <3>3. /\ vcalls' = [vcalls EXCEPT ![d] =
               [step |-> "statusSet", id |-> b,
                entry |-> [status |-> call.entry.status,
                           report |-> cache[b].report]]]
          /\ db' = db /\ cache' = cache
      BY <1>2, <2>1, <3>1, <3>2 DEF StatusCacheGet, Continue
    <3> QED
      BY <1>2, <3>3, <1>t
  <2>2. CASE StatusCacheSet(d)
    <3>1. /\ db' = db
          /\ cache' = [cache EXCEPT ![b] = call.entry]
          /\ vcalls' = [vcalls EXCEPT ![d] = NoVehicleCall]
      BY <1>2, <2>2 DEF StatusCacheSet, CacheSet, Done, Calm, Serial
    <3> QED
      BY <3>1, <1>t
  <2> QED
    BY <1>1, <1>2, <2>1, <2>2
    DEF CallStep, TelemetryCacheSet, TelemetryDBUpdate, GetVehicleDB,
        GetVehicleFill, AtStep
<1>m. /\ pc'[d] \in Chosen \ {"assign"} /\ job'[d] = job[d]
      /\ \A x \in Dispatchers \ {d} : pc'[x] = pc[x] /\ job'[x] = job[x]
  BY <1>1, <1>t DEF Chosen
<1>5. \A v \in Vehicles : SameVehicle(v) /\ (v # b => SameServer(v))
  <2>1. \A v \in Vehicles : SameVehicle(v)
    BY DEF SameVehicle, simVars
  <2>2. ASSUME NEW v \in Vehicles, v # b PROVE SameServer(v)
    <3>1. db'[v] = db[v] /\ cache'[v] = cache[v] /\ booked'[v] = booked[v]
      BY <1>1, <1>4, <1>t, <2>2
    <3>2. ~About(d, v) /\ ~About(d, v)'
      BY <1>2, <1>4, <2>2 DEF About
    <3> QED
      BY <3>1, <3>2, <1>4 DEF SameServer
  <2> QED
    BY <2>1, <2>2
<1>6. ASSUME NEW v \in Vehicles, v # b PROVE JobOK(v)'
  BY <1>1, <1>5, <1>6, <1>m, <1>b, MovesOn
<1>7. SameChoice(b)
  BY <1>1, <1>3, <1>m, <1>t, <1>b, NextChoice
<1>8. JobOK(b)'
  <2>0. SameVehicle(b) /\ db'[b] = db[b] /\ booked'[b] = booked[b]
    BY <1>1, <1>4, <1>3, <1>5
  <2>1. OneJob(b)'
    BY <1>3, <1>7, <2>0 DEF OneJob, JobOK, SameVehicle, SameChoice
  <2>2. FreeNews(b)'
    BY <1>3, <2>0 DEF FreeNews, JobOK, SameVehicle
  <2>3. CacheNews(b)'
    <3>1. \A w \in Workers : About(w, b)' =>
            \/ vcalls'[w].entry.status = "en_route"
            \/ About(w, b) /\ vcalls'[w] = vcalls[w]
      BY <1>4 DEF About
    <3>2. StatusCall(b)' <=> StatusCall(b)
      BY <1>4, <1>t DEF StatusCall, About
    <3>3. cache'[b] = cache[b]
          \/ (cache'[b].status = "en_route" /\ cache'[b] # Absent)
      BY <1>2, <1>3, <1>4, <1>t, RecordFacts
    <3> QED
      BY <1>3, <1>e, <2>0, <3>1, <3>2, <3>3 DEF CacheNews, JobOK, SameVehicle
  <2>4. RoadNews(b)'
    BY <1>3, <1>7, <2>0 DEF RoadNews, JobOK, SameVehicle, SameChoice
  <2>5. RowNews(b)'
    BY <1>3, <1>7, <2>0 DEF RowNews, JobOK, SameVehicle, SameChoice
  <2> QED
    BY <2>1, <2>2, <2>3, <2>4, <2>5 DEF JobOK
<1> QED
  BY <1>6, <1>8

LEMMA PublishJob ==
  ASSUME JobIInv, NEW d \in Dispatchers, Publish(d),
         Send(job[d].best, job[d].order)
  PROVE  \A v \in Vehicles : JobOK(v)'
<1>p. pc[d] \in Chosen
  BY DEF Publish, Chosen
<1>b. PICK b \in Vehicles : b = job[d].best
  BY <1>p, ChosenVehicle
<1>t. /\ pc \in [Dispatchers -> Steps]
      /\ job \in [Dispatchers -> Job \cup {NoJob}]
      /\ commands \in [Vehicles -> Seq(Orders)]
      /\ Mutex
  BY JobTypes DEF SimTypeOK
<1>1. /\ pc[d] = "publish" /\ pc[d] \in Chosen
      /\ pc' = [pc EXCEPT ![d] = "idle"]
      /\ job' = [job EXCEPT ![d] = NoJob]
      /\ UNCHANGED <<vehicleVars, booked>>
      /\ commands' = [commands EXCEPT ![b] = Append(@, job[d].order)]
      /\ UNCHANGED <<sim, inbox, heard>>
  BY <1>b DEF Publish, Leave, Goto, Send, historyVars, Chosen
<1>3. /\ b = job[d].best /\ pc[d] \notin {"idle", "lock"}
      /\ job[d] \in Job
      /\ JobOK(b) /\ Picked(b) /\ Sent(b)
      /\ commands[b] = <<>> /\ sim[b].phase = NoPhase
      /\ ~Has(inbox[b], "idle") /\ ~Has(inbox[b], "delivering")
      /\ heard[b] \in {"idle", "charging"}
  BY <1>1, <1>b, ChosenVehicle
<1>m. /\ pc'[d] \notin Chosen
      /\ \A x \in Dispatchers \ {d} : pc'[x] = pc[x] /\ job'[x] = job[x]
  BY <1>1, <1>t DEF Chosen
<1>4. \A v \in Vehicles : SameServer(v) /\ (v # b => SameVehicle(v))
  BY <1>1, <1>t DEF SameVehicle, SameServer, vehicleVars
<1>5. ASSUME NEW v \in Vehicles, v # b PROVE JobOK(v)'
  BY <1>1, <1>4, <1>5, <1>m, <1>b, MovesOn
<1>6. ~Picked(b)' /\ ~Sent(b)'
  BY <1>3, <1>m, <1>t, <1>b, NextChoice
<1>7. commands'[b] # <<>> /\ Len(commands'[b]) = 1
  <2>1. job[d].order \in Orders
    BY <1>3 DEF Job
  <2> QED
    BY <1>1, <1>3, <1>t, <2>1, AppendProperties
<1>8. JobOK(b)'
  <2>0. /\ SameServer(b) /\ sim'[b] = sim[b] /\ inbox'[b] = inbox[b]
        /\ heard'[b] = heard[b]
    BY <1>1, <1>3, <1>4
  <2>1. OneJob(b)'
    BY <1>3, <1>6, <1>7, <2>0 DEF OneJob, JobOK, SameServer
  <2>2. FreeNews(b)'
    BY <1>3, <2>0 DEF FreeNews, JobOK
  <2>3. CacheNews(b)'
    BY <1>3, <2>0, SameCalls DEF CacheNews, JobOK, SameServer
  <2>4. RoadNews(b)'
    BY <1>3, <2>0 DEF RoadNews, JobOK
  <2>5. RowNews(b)'
    BY <1>3, <1>7, <2>0 DEF RowNews, JobOK, SameServer
  <2> QED
    BY <2>1, <2>2, <2>3, <2>4, <2>5 DEF JobOK
<1> QED
  BY <1>5, <1>8

\* A callback changes nothing that dispatchers have chosen.
LEMMA OthersSame ==
  ASSUME UNCHANGED engineVars, UNCHANGED commands
  PROVE  \A v \in Vehicles : SameChoice(v)
BY DEF engineVars, SameChoice, Picked, Sent

\* Statuses and blanks.
LEMMA StatusFacts ==
  /\ BlankStatus \notin {"idle", "charging", "delivering", "en_route", "offline"}
  /\ {"charging", "delivering", "en_route"} \cap Available = {}
  /\ BlankStatus \notin Available
  /\ "idle" \in Available /\ "offline" \in Available
  /\ \A s : s \notin Available => HeardFrom(s) = s
  /\ \A s : s # BlankStatus => HeardFrom(s) # BlankStatus
<1>1. BlankStatus \notin {"idle", "charging", "delivering", "en_route", "offline"}
  BY Zenon DEF BlankStatus
<1> QED
  BY <1>1 DEF Available, HeardFrom

\* A callback begins to write what a vehicle says of itself.
LEMMA TakeStatusJob ==
  ASSUME Calm, JobIInv, NEW v \in Vehicles, TakeStatus(v)
  PROVE  \A u \in Vehicles : JobOK(u)'
<1> DEFINE q == inbox[v]
           s == Head(q).says
<1>t. /\ vcalls \in [Workers -> VehicleCall \cup {NoVehicleCall}]
      /\ db \in [Vehicles -> VehicleRow \cup {Absent}]
      /\ booked \in [Vehicles -> BOOLEAN]
      /\ inbox \in [Vehicles -> Seq(Message)]
      /\ heard \in [Vehicles -> {BlankStatus, "idle", "delivering", "charging"}]
      /\ Callback \in Workers
  BY JobTypes, FleetAssumption DEF SimTypeOK
<1>1. /\ q # <<>> /\ q \in Seq(Message) /\ Head(q).topic = "status"
      /\ inbox' = [inbox EXCEPT ![v] = Tail(q)]
      /\ heard' = [heard EXCEPT ![v] = s]
      /\ UNCHANGED <<sim, commands>>
      /\ booked' = [booked EXCEPT ![v] = @ /\ s # "idle"]
      /\ UNCHANGED engineVars
  BY <1>t DEF TakeStatus, Receive
<1>2. /\ Quiet(v) /\ vcalls[Callback] = NoVehicleCall
      /\ db[v] \in VehicleRow
      /\ db' = [db EXCEPT ![v].status = s]
      /\ vcalls' = [vcalls EXCEPT ![Callback] =
           [step |-> "statusGet", id |-> v,
            entry |-> [status |-> s, report |-> NoReport]]]
      /\ cache' = cache
  <2>1. Registered(v)
    BY DEF JobIInv, FleetIInv, Registered
  <2> QED
    BY <1>t, <2>1
    DEF TakeStatus, SetStatus, Calm, Serial, Free, Continue, Registered
<1>3. /\ \A x : Has(Tail(q), x) => Has(q, x)
      /\ \A x : Has(q, x) /\ Head(q) # Says(x) => Has(Tail(q), x)
      /\ OneIdle(q) => OneIdle(Tail(q))
      /\ OneIdle(q) /\ Head(q) = Says("idle") => ~Has(Tail(q), "idle")
      /\ TakenBack(q) => TakenBack(Tail(q))
      /\ TakenBack(q) /\ Head(q) = Says("delivering") => Has(Tail(q), "idle")
      /\ Head(q) = Says(s)
  BY <1>1, HeadTaken
<1>4. s \in {"idle", "delivering", "charging"} /\ Has(q, s)
  <2>1. Head(q) \in Message /\ Head(q) = q[1] /\ 1 \in DOMAIN q
    BY <1>1, TailIndices
  <2> QED
    BY <1>1, <1>3, <2>1 DEF Message, Has
<1>5. /\ inbox'[v] = Tail(q) /\ heard'[v] = s
      /\ booked'[v] = (booked[v] /\ s # "idle")
      /\ db'[v].status = s
      /\ sim'[v] = sim[v] /\ commands'[v] = commands[v] /\ cache'[v] = cache[v]
      /\ About(Callback, v)' /\ StatusCall(v)'
      /\ vcalls'[Callback].entry.status = s
      /\ \A w \in Workers \ {Callback} : ~About(w, v)'
  <2>1. db'[v].status = s
    BY <1>2, <1>t DEF VehicleRow
  <2>2. /\ vcalls'[Callback] # NoVehicleCall /\ vcalls'[Callback].id = v
        /\ vcalls'[Callback].step = "statusGet"
        /\ vcalls'[Callback].entry.status = s
        /\ \A w \in Workers \ {Callback} : vcalls'[w] = vcalls[w]
    BY <1>2, <1>t DEF NoVehicleCall
  <2>3. \A w \in Workers \ {Callback} : ~About(w, v)'
    BY <1>2, <2>2 DEF Quiet, About
  <2> QED
    BY <1>1, <1>2, <1>t, <2>1, <2>2, <2>3 DEF About, StatusCall
<1>6. \A u \in Vehicles : SameChoice(u)
  BY <1>1, OthersSame
<1>7. ASSUME NEW u \in Vehicles, u # v PROVE JobOK(u)'
  <2>1. SameVehicle(u)
    BY <1>1, <1>7, <1>t DEF SameVehicle
  <2>2. SameServer(u)
    <3>1. db'[u] = db[u] /\ cache'[u] = cache[u] /\ booked'[u] = booked[u]
      BY <1>1, <1>2, <1>7, <1>t
    <3>2. \A w \in Workers : About(w, u) \/ About(w, u)' => vcalls'[w] = vcalls[w]
      BY <1>2, <1>7, <1>t DEF About
    <3> QED
      BY <3>1, <3>2 DEF SameServer
  <2> QED
    BY <1>6, <2>1, <2>2, Untouched DEF JobIInv
<1>8. JobOK(v)'
  <2> HIDE DEF q, s
  <2>0. /\ JobOK(v) /\ SameChoice(v)
        /\ OneIdle(q) /\ inbox[v] = q
        /\ Has(q, "idle") =>
             ~Picked(v) /\ commands[v] = <<>> /\ sim[v].phase = NoPhase
    BY <1>6 DEF JobIInv, JobOK, FreeNews, q
  <2>1. OneJob(v)'
    <3>1. Sent(v) => Picked(v)
      BY DEF Sent, Picked
    <3>2. Sent(v) \/ commands[v] # <<>> \/ sim[v].phase # NoPhase => s # "idle"
      BY <1>4, <2>0, <3>1
    <3> QED
      BY <1>5, <2>0, <3>2 DEF OneJob, JobOK, SameChoice
  <2>2. FreeNews(v)'
    <3>1. Has(Tail(q), "idle") => Has(q, "idle") /\ s # "idle"
      BY <1>3, <2>0
    <3>2. Has(Tail(q), "idle") => s \notin Available
      BY <1>4, <3>1 DEF Available
    <3>3. Has(Tail(q), "idle") => cache[v].status \notin Available
      BY <2>0, <3>1 DEF JobOK, FreeNews
    <3> QED
      BY <1>3, <1>5, <2>0, <3>1, <3>2, <3>3 DEF FreeNews, SameChoice
  <2>3. CacheNews(v)'
    <3>1. \A w \in Workers : About(w, v)' => vcalls'[w].entry.status = s
      BY <1>5
    <3>2. s = "charging" => s \notin Available
      BY StatusFacts
    <3>3. s # BlankStatus
      BY <1>4, StatusFacts
    <3> QED
      BY <1>5, <2>0, <3>1, <3>2, <3>3 DEF CacheNews, JobOK
  <2>4. RoadNews(v)'
    <3>1. TakenBack(Tail(q)) \/ sim[v].phase = "to_dropoff"
      BY <1>3, <2>0 DEF JobOK, RoadNews
    <3>2. s = "delivering" => sim[v].phase = "to_dropoff" \/ Has(Tail(q), "idle")
      BY <1>3, <2>0 DEF JobOK, RoadNews
    <3>3. s # BlankStatus
      BY <1>4, StatusFacts
    <3>4. Picked(v) \/ commands[v] # <<>> \/ sim[v].phase = "to_pickup" =>
            s \in {"idle", "charging"} /\ ~Has(Tail(q), "delivering")
      BY <1>3, <1>4, <2>0 DEF JobOK, RoadNews
    <3> QED
      BY <1>5, <2>0, <3>1, <3>2, <3>3, <3>4 DEF RoadNews, SameChoice
  <2>5. RowNews(v)'
    BY <1>4, <1>5, StatusFacts DEF RowNews
  <2> QED
    BY <2>1, <2>2, <2>3, <2>4, <2>5 DEF JobOK
<1> QED
  BY <1>7, <1>8

LEMMA TakeTelemetryJob ==
  ASSUME Calm, JobIInv, NEW v \in Vehicles, TakeTelemetry(v)
  PROVE  \A u \in Vehicles : JobOK(u)'
<1> DEFINE q == inbox[v]
<1>t. /\ vcalls \in [Workers -> VehicleCall \cup {NoVehicleCall}]
      /\ inbox \in [Vehicles -> Seq(Message)]
      /\ heard \in [Vehicles -> {BlankStatus, "idle", "delivering", "charging"}]
      /\ Callback \in Workers
  BY JobTypes, FleetAssumption DEF SimTypeOK
<1>1. /\ q # <<>> /\ q \in Seq(Message) /\ Head(q).topic = "telemetry"
      /\ inbox' = [inbox EXCEPT ![v] = Tail(q)]
      /\ heard'[v] = heard[v]
      /\ \A u \in Vehicles : heard'[u] = heard[u]
      /\ UNCHANGED <<sim, commands, booked>>
      /\ UNCHANGED engineVars
  BY <1>t DEF TakeTelemetry, Receive, historyVars
<1>2. /\ Quiet(v) /\ vcalls[Callback] = NoVehicleCall
      /\ UNCHANGED <<db, cache>>
      /\ vcalls' = [vcalls EXCEPT ![Callback] =
           [step |-> "telemetrySet", id |-> v,
            entry |-> [status |-> HeardFrom(cache[v].status),
                       report |-> Head(q).says]]]
  <2>1. cache[v] # Absent /\ CacheGet(v) = {cache[v]}
    BY DEF JobIInv, JobOK, CacheNews, CacheGet, Calm, Serial
  <2> QED
    BY <2>1 DEF TakeTelemetry, UpdateTelemetry, Calm, Serial, Free, Continue
<1>3. /\ \A x : Has(Tail(q), x) <=> Has(q, x)
      /\ OneIdle(q) => OneIdle(Tail(q))
      /\ TakenBack(q) => TakenBack(Tail(q))
  <2>1. \A x : Head(q) # Says(x)
    BY <1>1 DEF Says
  <2> QED
    BY <1>1, <2>1, HeadTaken
<1>5. /\ inbox'[v] = Tail(q)
      /\ sim'[v] = sim[v] /\ commands'[v] = commands[v] /\ cache'[v] = cache[v]
      /\ db'[v] = db[v] /\ booked'[v] = booked[v]
      /\ vcalls'[Callback].entry.status = HeardFrom(cache[v].status)
      /\ \A w \in Workers \ {Callback} : ~About(w, v)'
      /\ ~StatusCall(v)
  <2>1. /\ vcalls'[Callback].entry.status = HeardFrom(cache[v].status)
        /\ \A w \in Workers \ {Callback} : vcalls'[w] = vcalls[w]
    BY <1>2, <1>t
  <2>2. \A w \in Workers \ {Callback} : ~About(w, v)'
    BY <1>2, <2>1 DEF Quiet, About
  <2> QED
    BY <1>1, <1>2, <1>t, <2>1, <2>2 DEF StatusCall, About
<1>6. \A u \in Vehicles : SameChoice(u)
  BY <1>1, OthersSame
<1>7. ASSUME NEW u \in Vehicles, u # v PROVE JobOK(u)'
  <2>1. SameVehicle(u)
    BY <1>1, <1>7, <1>t DEF SameVehicle
  <2>2. SameServer(u)
    <3>1. db'[u] = db[u] /\ cache'[u] = cache[u] /\ booked'[u] = booked[u]
      BY <1>1, <1>2
    <3>2. \A w \in Workers : About(w, u) \/ About(w, u)' => vcalls'[w] = vcalls[w]
      BY <1>2, <1>7, <1>t DEF About
    <3> QED
      BY <3>1, <3>2 DEF SameServer
  <2> QED
    BY <1>6, <2>1, <2>2, Untouched DEF JobIInv
<1>8. JobOK(v)'
  <2> HIDE DEF q
  <2>0. JobOK(v) /\ SameChoice(v) /\ inbox[v] = q
    BY <1>6 DEF JobIInv, q
  <2>h. /\ cache[v].status \notin Available =>
             HeardFrom(cache[v].status) \notin Available
        /\ cache[v].status # BlankStatus =>
             HeardFrom(cache[v].status) # BlankStatus
        /\ \A w \in Workers : About(w, v)' =>
             vcalls'[w].entry.status = HeardFrom(cache[v].status)
    BY <1>5, StatusFacts
  <2>1. OneJob(v)'
    BY <1>5, <2>0 DEF OneJob, JobOK, SameChoice
  <2>2. FreeNews(v)'
    BY <1>3, <1>5, <2>0, <2>h DEF FreeNews, JobOK, SameChoice
  <2>3. CacheNews(v)'
    BY <1>1, <1>5, <2>0, <2>h DEF CacheNews, JobOK
  <2>4. RoadNews(v)'
    BY <1>1, <1>3, <1>5, <2>0 DEF RoadNews, JobOK, SameChoice
  <2>5. RowNews(v)'
    BY <1>1, <1>3, <1>5, <2>0 DEF RowNews, JobOK, SameChoice
  <2> QED
    BY <2>1, <2>2, <2>3, <2>4, <2>5 DEF JobOK
<1> QED
  BY <1>7, <1>8

\* What the callbacks do next.
LEMMA CallbackSteps ==
  ASSUME Calm, JobIInv, FinishCallback
  PROVE  LET call == vcalls[Callback]
             v    == call.id
         IN  /\ call \in VehicleCall /\ v \in Vehicles
             /\ call # NoVehicleCall
             /\ UNCHANGED <<orderVars, engineVars, historyVars, simVars>>
             /\ \A w \in Workers \ {Callback} : vcalls'[w] = vcalls[w]
             /\ \/ /\ cache' = [cache EXCEPT ![v] = call.entry]
                   /\ db' = db
                   /\ \/ /\ call.step = "telemetrySet"
                         /\ vcalls'[Callback] = [step |-> "telemetryDB", id |-> v,
                                                 entry |-> call.entry]
                      \/ /\ call.step = "statusSet"
                         /\ vcalls'[Callback] = NoVehicleCall
                \/ /\ call.step = "telemetryDB"
                   /\ cache' = cache
                   /\ db' = [db EXCEPT ![v] =
                        [status |-> HeardFrom(@.status),
                         report |-> call.entry.report]]
                   /\ vcalls'[Callback] = NoVehicleCall
                \/ /\ call.step = "statusGet"
                   /\ cache' = cache /\ db' = db
                   /\ vcalls'[Callback] =
                        [step |-> "statusSet", id |-> v,
                         entry |-> [status |-> call.entry.status,
                                    report |-> cache[v].report]]
<1> DEFINE call == vcalls[Callback]
           v == call.id
<1>t. /\ vcalls \in [Workers -> VehicleCall \cup {NoVehicleCall}]
      /\ Callback \in Workers
      /\ Callback \notin Dispatchers
  BY JobTypes, FleetAssumption
<1>1. CallStep(Callback) /\ UNCHANGED <<orderVars, engineVars, historyVars, simVars>>
  BY DEF FinishCallback
<1>2. call # NoVehicleCall
  BY <1>1
  DEF CallStep, TelemetryCacheSet, TelemetryDBUpdate, StatusCacheGet,
      StatusCacheSet, GetVehicleDB, GetVehicleFill, AtStep
<1>3. call \in VehicleCall /\ v \in Vehicles
  BY <1>2, <1>t DEF VehicleCall
<1>4. call.step \in {"statusGet", "statusSet", "telemetrySet", "telemetryDB"}
  BY <1>2, <1>t DEF JobIInv, Calling
<1>5. Registered(v) /\ cache[v] # Absent
  BY <1>3 DEF JobIInv, FleetIInv, Registered, JobOK, CacheNews
<1>6. ~RedisFaults /\ ~DBFaults
  BY DEF Calm, Serial
<1>7. CASE TelemetryCacheSet(Callback)
  BY <1>1, <1>2, <1>3, <1>6, <1>7, <1>t
  DEF TelemetryCacheSet, AtStep, CacheSet, Continue
<1>8. CASE TelemetryDBUpdate(Callback)
  BY <1>1, <1>2, <1>3, <1>5, <1>6, <1>8, <1>t
  DEF TelemetryDBUpdate, AtStep, Done
<1>9. CASE StatusCacheGet(Callback)
  <2>1. CacheGet(v) = {cache[v]}
    BY <1>6 DEF CacheGet
  <2> QED
    BY <1>1, <1>2, <1>3, <1>5, <1>9, <1>t, <2>1
    DEF StatusCacheGet, AtStep, Continue
<1>10. CASE StatusCacheSet(Callback)
  BY <1>1, <1>2, <1>3, <1>6, <1>10, <1>t DEF StatusCacheSet, AtStep, CacheSet, Done
<1>11. CASE GetVehicleDB(Callback) \/ GetVehicleFill(Callback)
  BY <1>4, <1>11 DEF GetVehicleDB, GetVehicleFill, AtStep
<1> QED
  BY <1>1, <1>7, <1>8, <1>9, <1>10, <1>11 DEF CallStep

LEMMA CallbackJob ==
  ASSUME Calm, JobIInv, FinishCallback
  PROVE  \A u \in Vehicles : JobOK(u)'
<1> DEFINE call == vcalls[Callback]
<1>b. PICK v \in Vehicles : v = call.id
  BY CallbackSteps
<1>t. /\ vcalls \in [Workers -> VehicleCall \cup {NoVehicleCall}]
      /\ db \in [Vehicles -> VehicleRow \cup {Absent}]
      /\ cache \in [Vehicles -> CacheEntry \cup {Absent}]
      /\ heard \in [Vehicles -> {BlankStatus, "idle", "delivering", "charging"}]
      /\ Callback \in Workers
      /\ OneCallEach
  BY JobTypes, FleetAssumption DEF SimTypeOK, CacheIInv
<1>1. /\ call \in VehicleCall /\ call # NoVehicleCall /\ call.id = v
      /\ UNCHANGED <<engineVars, booked, sim, inbox, commands, heard>>
      /\ \A w \in Workers \ {Callback} : vcalls'[w] = vcalls[w]
  BY <1>b, CallbackSteps DEF historyVars, simVars
<1>2. \/ /\ cache' = [cache EXCEPT ![v] = call.entry]
         /\ db' = db
         /\ \/ vcalls'[Callback] = [step |-> "telemetryDB", id |-> v,
                                    entry |-> call.entry]
            \/ vcalls'[Callback] = NoVehicleCall
      \/ /\ call.step = "telemetryDB"
         /\ cache' = cache
         /\ db' = [db EXCEPT ![v] = [status |-> HeardFrom(@.status),
                                     report |-> call.entry.report]]
         /\ vcalls'[Callback] = NoVehicleCall
      \/ /\ call.step = "statusGet"
         /\ cache' = cache /\ db' = db
         /\ vcalls'[Callback] =
              [step |-> "statusSet", id |-> v,
               entry |-> [status |-> call.entry.status,
                          report |-> cache[v].report]]
  BY <1>b, CallbackSteps
<1>3. /\ About(Callback, v)
      /\ \A w \in Workers \ {Callback} : ~About(w, v) /\ ~About(w, v)'
  <2>1. About(Callback, v)
    BY <1>1 DEF About
  <2>2. \A w \in Workers \ {Callback} : ~About(w, v)
    BY <1>1, <1>t DEF OneCallEach, About
  <2> QED
    BY <1>1, <2>1, <2>2 DEF About
<1>4. vcalls'[Callback] # NoVehicleCall =>
        vcalls'[Callback].id = v /\ vcalls'[Callback].entry.status = call.entry.status
  BY <1>2
<1>6. \A u \in Vehicles : SameChoice(u) /\ SameVehicle(u)
  BY <1>1, OthersSame DEF SameVehicle
<1>7. ASSUME NEW u \in Vehicles, u # v PROVE JobOK(u)'
  <2>1. SameServer(u)
    <3>1. db'[u] = db[u] /\ cache'[u] = cache[u] /\ booked'[u] = booked[u]
      BY <1>1, <1>2, <1>7, <1>t
    <3>2. ~About(Callback, u) /\ ~About(Callback, u)'
      BY <1>1, <1>4, <1>7 DEF About
    <3> QED
      BY <1>1, <3>1, <3>2 DEF SameServer
  <2> QED
    BY <1>6, <2>1, Untouched DEF JobIInv
<1>8. JobOK(v)'
  <2>0. /\ JobOK(v) /\ SameChoice(v) /\ SameVehicle(v) /\ booked'[v] = booked[v]
    BY <1>1, <1>6 DEF JobIInv
  <2>c. \/ /\ cache'[v] = cache[v]
           /\ StatusCall(v) <=> StatusCall(v)'
        \/ cache'[v] = call.entry
    <3>1. CASE cache' = [cache EXCEPT ![v] = call.entry]
      BY <3>1, <1>t
    <3>2. CASE call.step = "telemetryDB" /\ cache' = cache
               /\ vcalls'[Callback] = NoVehicleCall
      BY <3>2 DEF StatusCall, About
    <3>3. CASE /\ call.step = "statusGet" /\ cache' = cache
               /\ vcalls'[Callback] =
                    [step |-> "statusSet", id |-> v,
                     entry |-> [status |-> call.entry.status,
                                report |-> cache[v].report]]
      <4>1. vcalls'[Callback].step = "statusSet" /\ vcalls'[Callback].id = v
            /\ vcalls'[Callback] # NoVehicleCall
        BY <3>3 DEF NoVehicleCall
      <4> QED
        BY <1>1, <3>3, <4>1 DEF StatusCall, About
    <3> QED
      BY <1>2, <3>1, <3>2, <3>3
  <2>a. \A w \in Workers : About(w, v)' =>
          vcalls'[w].entry.status = call.entry.status
    BY <1>3, <1>4 DEF About
  <2>n. call.entry \in CacheEntry /\ call.entry # Absent
    BY <1>1, RecordFacts DEF VehicleCall
  <2>d. db'[v].status = db[v].status
    <3>1. db[v] \in VehicleRow /\ db[v].status # "offline"
      <4>1. db[v] # Absent
        BY DEF JobIInv, FleetIInv
      <4>2. heard[v] \in {BlankStatus, "idle", "delivering", "charging"}
        BY <1>t
      <4>3. db[v].status # "offline"
        BY <2>0, <4>2 DEF JobOK, RowNews
      <4> QED
        BY <1>t, <4>1, <4>3
    <3>2. HeardFrom(db[v].status) = db[v].status
      BY <3>1 DEF HeardFrom
    <3> QED
      BY <1>2, <1>t, <3>2
  <2>1. OneJob(v)'
    BY <2>0 DEF OneJob, JobOK, SameChoice, SameVehicle
  <2>e. /\ Has(inbox[v], "idle") => call.entry.status \notin Available
        /\ heard[v] = "charging" => call.entry.status \notin Available
        /\ heard[v] # BlankStatus => call.entry.status # BlankStatus
    BY <1>3, <1>t, <2>0 DEF JobOK, FreeNews, CacheNews
  <2>2. FreeNews(v)'
    BY <2>0, <2>a, <2>c, <2>e DEF FreeNews, JobOK, SameChoice, SameVehicle
  <2>3. CacheNews(v)'
    BY <2>0, <2>a, <2>c, <2>e, <2>n DEF CacheNews, JobOK, SameVehicle
  <2>4. RoadNews(v)'
    BY <2>0 DEF RoadNews, JobOK, SameChoice, SameVehicle
  <2>5. RowNews(v)'
    BY <2>0, <2>d DEF RowNews, JobOK, SameChoice, SameVehicle
  <2> QED
    BY <2>1, <2>2, <2>3, <2>4, <2>5 DEF JobOK
<1> QED
  BY <1>7, <1>8

LEMMA TickJob ==
  ASSUME Calm, JobIInv, NEW v \in Vehicles, FleetTick(v)
  PROVE  \A u \in Vehicles : JobOK(u)'
<1> DEFINE q   == inbox[v]
           now == sim[v]
<1>t. /\ SimTypeOK /\ Phased /\ SimTick(v)
      /\ UNCHANGED <<db, cache, vcalls, booked, pc, job>>
      /\ q \in Seq(Message) /\ now \in VehicleState
  BY JobTypes DEF FleetTick, vars, SimTypeOK
<1>1. PICK after \in VehicleState, news \in Seq(Message) :
        /\ Fit(after)
        /\ sim' = [sim EXCEPT ![v] = after]
        /\ TickNews(now, after, news)
        /\ inbox' = [inbox EXCEPT ![v] = @ \o news]
        /\ UNCHANGED <<commands, heard>>
  BY <1>t, TickEffect DEF TickDone, Fit
<1>2. /\ sim'[v] = after /\ inbox'[v] = q \o news
      /\ \A u \in Vehicles \ {v} : sim'[u] = sim[u] /\ inbox'[u] = inbox[u]
  BY <1>1, <1>t DEF SimTypeOK
<1>3. \A u \in Vehicles : SameServer(u) /\ SameChoice(u)
  BY <1>t DEF SameServer, SameChoice, Picked, Sent
<1>4. ASSUME NEW u \in Vehicles, u # v PROVE JobOK(u)'
  BY <1>1, <1>2, <1>3, <1>4, Untouched DEF SameVehicle, JobIInv
<1>5. JobOK(v)'
  <2> HIDE DEF q, now
  <2>0. /\ JobOK(v) /\ SameServer(v) /\ SameChoice(v)
        /\ inbox[v] = q /\ sim[v] = now
        /\ commands' = commands /\ heard' = heard
    BY <1>1, <1>3 DEF JobIInv, q, now
  <2>q. /\ \A s : Has(q \o news, s) <=> Has(q, s) \/ Has(news, s)
        /\ OneIdle(q) /\ ~Has(news, "idle") => OneIdle(q \o news)
        /\ ~Has(q, "idle") /\ OneIdle(news) => OneIdle(q \o news)
        /\ TakenBack(q) /\ TakenBack(news) => TakenBack(q \o news)
        /\ Has(news, "idle") /\ TakenBack(news) => TakenBack(q \o news)
    BY <1>t, <1>1, NewsAdded
  <2>c. /\ \A w \in Workers : About(w, v)' <=> About(w, v)
        /\ \A w \in Workers : About(w, v) => vcalls'[w] = vcalls[w]
        /\ StatusCall(v)' <=> StatusCall(v)
    BY <2>0, SameCalls
  <2>p. /\ now.phase = NoPhase <=> now.status \in {"idle", "charging"}
        /\ after.phase = NoPhase <=> after.status \in {"idle", "charging"}
        /\ now.phase = "to_pickup" <=> now.status = "en_route"
        /\ after.phase = "to_pickup" <=> after.status = "en_route"
        /\ now.phase \in {NoPhase, "to_pickup", "to_dropoff"}
        /\ after.phase \in {NoPhase, "to_pickup", "to_dropoff"}
        /\ NoPhase # "to_pickup" /\ NoPhase # "to_dropoff"
    BY <1>t, <1>1, <2>0, PhaseFacts DEF Fit, Phased, VehicleState
  <2>1. CacheNews(v)'
    BY <2>0, <2>c DEF CacheNews, JobOK, SameServer
  <2>n. PICK t \in Message :
          /\ t.topic = "telemetry"
          /\ \/ /\ after.status = now.status /\ after.phase = now.phase
                /\ news = <<t>>
             \/ /\ now.status = "idle" /\ after.status = "charging"
                /\ news = <<Says("charging"), t>>
             \/ /\ now.status = "charging" /\ after.status = "idle"
                /\ news = <<Says("idle"), t>>
             \/ /\ now.phase = "to_pickup" /\ after.phase = "to_dropoff"
                /\ news = <<Says("delivering"), t>>
             \/ /\ now.phase = "to_dropoff" /\ after.status = "idle"
                /\ news = <<Says("idle"), t>>
             \/ /\ now.phase = "to_dropoff" /\ after.status = "charging"
                /\ news = <<Says("idle"), Says("charging"), t>>
    BY <1>1 DEF TickNews
  <2>s. /\ \A s : ~Has(<<t>>, s)
        /\ OneIdle(<<t>>) /\ TakenBack(<<t>>)
        /\ \A x : /\ \A s : Has(<<Says(x), t>>, s) <=> s = x
                  /\ OneIdle(<<Says(x), t>>)
                  /\ x # "delivering" => TakenBack(<<Says(x), t>>)
        /\ \A s : Has(<<Says("idle"), Says("charging"), t>>, s)
                    <=> s \in {"idle", "charging"}
        /\ OneIdle(<<Says("idle"), Says("charging"), t>>)
        /\ TakenBack(<<Says("idle"), Says("charging"), t>>)
    BY <2>n, ShortNews
  \* Nothing about a job: the phase stays, and no "idle" is said.
  <2>2. CASE /\ after.phase = now.phase
             /\ ~Has(news, "idle") /\ ~Has(news, "delivering")
             /\ TakenBack(news)
    <3>1. OneJob(v)'
      BY <1>2, <2>0, <2>2 DEF OneJob, JobOK, SameServer, SameChoice
    <3>2. FreeNews(v)'
      BY <1>2, <2>0, <2>2, <2>c, <2>q
      DEF FreeNews, JobOK, SameServer, SameChoice
    <3>3. RoadNews(v)'
      BY <1>2, <2>0, <2>2, <2>q DEF RoadNews, JobOK, SameChoice
    <3>4. RowNews(v)'
      BY <1>2, <2>0, <2>2, <2>q DEF RowNews, JobOK, SameServer, SameChoice
    <3> QED
      BY <2>1, <3>1, <3>2, <3>3, <3>4 DEF JobOK
  \* The pickup: no "idle" is on the way.
  <2>3. CASE /\ now.phase = "to_pickup" /\ after.phase = "to_dropoff"
             /\ ~Has(news, "idle")
    <3>0. ~Has(q, "idle")
      BY <2>0, <2>3, <2>p DEF JobOK, FreeNews
    <3>1. OneJob(v)'
      BY <1>2, <2>0, <2>3, <2>p DEF OneJob, JobOK, SameServer, SameChoice
    <3>2. FreeNews(v)'
      BY <1>2, <2>0, <2>3, <2>q, <3>0 DEF FreeNews, JobOK
    <3>3. RoadNews(v)'
      BY <1>2, <2>0, <2>3, <2>p, <2>q, <3>0
      DEF RoadNews, OneJob, JobOK, SameChoice
    <3>4. RowNews(v)'
      BY <1>2, <2>0, <2>3, <2>p DEF RowNews, JobOK, SameServer
    <3> QED
      BY <2>1, <3>1, <3>2, <3>3, <3>4 DEF JobOK
  \* The vehicle is free again and says so: it was busy as far as the server
  \* knows.
  <2>4. ASSUME after.phase = NoPhase,
               Has(news, "idle"), OneIdle(news), TakenBack(news),
               ~Has(news, "delivering"),
               ~Has(q, "idle"), ~Picked(v), commands[v] = <<>>,
               cache[v].status \notin Available,
               \A w \in Workers : About(w, v) =>
                 vcalls[w].entry.status \notin Available
        PROVE  JobOK(v)'
    <3>0. ~Sent(v)
      BY <2>4 DEF Sent, Picked
    <3>1. OneJob(v)'
      BY <1>2, <2>0, <2>4, <3>0, LenProperties
      DEF OneJob, JobOK, SameServer, SameChoice
    <3>2. FreeNews(v)'
      BY <1>2, <2>0, <2>4, <2>c, <2>q
      DEF FreeNews, SameServer, SameChoice
    <3>3. RoadNews(v)'
      BY <1>2, <2>0, <2>4, <2>p, <2>q DEF RoadNews, JobOK, SameChoice
    <3>4. RowNews(v)'
      BY <1>2, <2>0, <2>4, <2>q DEF RowNews, JobOK, SameServer
    <3> QED
      BY <2>1, <3>1, <3>2, <3>3, <3>4 DEF JobOK
  \* The end of a charge, with nothing on the way.
  <2>5. CASE /\ now.status = "charging" /\ after.status = "idle"
             /\ news = <<Says("idle"), t>>
    <3>1. Silent(v)
      BY <1>2, <2>0, <2>5 DEF FleetTick, Calm
    <3>2. /\ q = <<>> /\ commands[v] = <<>> /\ ~Picked(v)
          /\ \A w \in Workers : ~About(w, v)
      BY <3>1, <2>0 DEF Silent, Quiet, About, Picked, Chosen
    <3>3. heard[v] = "charging"
      <4>1. LastWord(v) = "charging"
        BY <2>0, <2>5 DEF JobIInv, Honest
      <4> QED
        BY <2>0, <3>2, <4>1, LastSaidEmpty DEF LastWord
    <3>4. cache[v].status \notin Available
      <4>1. ~StatusCall(v)
        BY <3>2, FleetAssumption DEF StatusCall
      <4> QED
        BY <2>0, <3>3, <4>1 DEF JobOK, CacheNews
    <3>5. ~Has(q, "idle")
      BY <3>2 DEF Has
    <3> QED
      BY <2>4, <2>5, <2>p, <2>s, <3>2, <3>4, <3>5
  \* The delivery: the vehicle is booked.
  <2>6. CASE /\ now.phase = "to_dropoff" /\ after.phase = NoPhase
             /\ Has(news, "idle") /\ OneIdle(news) /\ TakenBack(news)
             /\ ~Has(news, "delivering")
    <3>1. /\ ~Picked(v) /\ commands[v] = <<>> /\ booked[v]
          /\ ~Has(q, "idle")
      BY <2>0, <2>6, <2>p DEF JobOK, OneJob, FreeNews
    <3>2. ~Settling(v)
      BY <3>1 DEF Settling, Picked, Chosen
    <3>3. BusyEverywhere(v)
      BY <3>1, <3>2 DEF JobIInv, BookIInv, BookInv, BookedOK
    <3> QED
      BY <2>4, <2>6, <3>1, <3>3 DEF BusyEverywhere, About
  <2>7. CASE after.status = now.status /\ after.phase = now.phase /\ news = <<t>>
    BY <2>2, <2>7, <2>s
  <2>8. CASE /\ now.status = "idle" /\ after.status = "charging"
             /\ news = <<Says("charging"), t>>
    <3>1. after.phase = now.phase
      BY <2>8, <2>p
    <3>2. ~Has(news, "idle") /\ ~Has(news, "delivering") /\ TakenBack(news)
      BY <2>8, <2>s
    <3> QED
      BY <2>2, <3>1, <3>2
  <2>9. CASE /\ now.phase = "to_pickup" /\ after.phase = "to_dropoff"
             /\ news = <<Says("delivering"), t>>
    <3>1. ~Has(news, "idle")
      BY <2>9, <2>s
    <3> QED
      BY <2>3, <2>9, <3>1
  <2>10. CASE /\ now.phase = "to_dropoff" /\ after.status = "idle"
              /\ news = <<Says("idle"), t>>
    <3>1. /\ Has(news, "idle") /\ OneIdle(news) /\ TakenBack(news)
          /\ ~Has(news, "delivering")
      BY <2>10, <2>s
    <3> QED
      BY <2>6, <2>10, <2>p, <3>1
  <2>11. CASE /\ now.phase = "to_dropoff" /\ after.status = "charging"
              /\ news = <<Says("idle"), Says("charging"), t>>
    <3>1. /\ Has(news, "idle") /\ OneIdle(news) /\ TakenBack(news)
          /\ ~Has(news, "delivering")
      BY <2>11, <2>s
    <3> QED
      BY <2>6, <2>11, <2>p, <3>1
  <2> QED
    BY <2>n, <2>5, <2>7, <2>8, <2>9, <2>10, <2>11
<1> QED
  BY <1>4, <1>5

LEMMA CommandJob ==
  ASSUME JobIInv, NEW v \in Vehicles, OnCommand(v), UNCHANGED vars
  PROVE  \A u \in Vehicles : JobOK(u)'
<1>t. /\ SimTypeOK
      /\ UNCHANGED <<db, cache, vcalls, booked, pc, job>>
  BY JobTypes DEF vars
<1>1. /\ commands[v] # <<>> /\ commands' = [commands EXCEPT ![v] = Tail(@)]
      /\ UNCHANGED <<inbox, heard>>
      /\ sim'[v].phase = "to_pickup"
      /\ \A u \in Vehicles \ {v} : sim'[u] = sim[u] /\ commands'[u] = commands[u]
  BY <1>t DEF OnCommand, SimTypeOK, VehicleState
<1>3. \A u \in Vehicles : SameServer(u) /\ SameChoice(u)
  BY <1>t DEF SameServer, SameChoice, Picked, Sent
<1>4. ASSUME NEW u \in Vehicles, u # v PROVE JobOK(u)'
  BY <1>1, <1>3, <1>4, Untouched DEF SameVehicle, JobIInv
<1>5. JobOK(v)'
  <2>0. /\ JobOK(v) /\ SameServer(v) /\ SameChoice(v)
        /\ inbox'[v] = inbox[v] /\ heard'[v] = heard[v]
    BY <1>1, <1>3 DEF JobIInv
  <2>c. commands'[v] = <<>> /\ Len(commands'[v]) = 0
    <3>1. commands[v] \in Seq(Orders) /\ Len(commands[v]) <= 1
      BY <1>t, <2>0 DEF SimTypeOK, JobOK, OneJob
    <3>4. Len(commands[v]) = 1
      <4>1. Len(commands[v]) \in Nat
        BY <3>1, LenProperties
      <4>2. Len(commands[v]) # 0
        BY <1>1, <3>1, EmptySeq, Zenon
      <4>3. \A n \in Nat : n <= 1 /\ n # 0 => n = 1
        OBVIOUS
      <4> QED
        BY <3>1, <4>1, <4>2, <4>3, Zenon
    <3>2. /\ Tail(commands[v]) \in Seq(Orders)
          /\ Len(Tail(commands[v])) = 0
      BY <1>1, <3>1, <3>4, HeadTailProperties
    <3>3. Tail(commands[v]) = <<>>
      BY <3>2, EmptySeq
    <3> QED
      BY <1>1, <1>t, <3>2, <3>3 DEF SimTypeOK
  <2>b. /\ ~Picked(v) /\ booked[v] /\ ~Has(inbox[v], "idle")
        /\ sim[v].phase = NoPhase
    BY <1>1, <2>0 DEF JobOK, OneJob, FreeNews
  <2>s. ~Sent(v)
    BY <2>b DEF Sent, Picked
  <2>1. OneJob(v)'
    BY <2>0, <2>b, <2>c, <2>s DEF OneJob, SameServer, SameChoice
  <2>2. FreeNews(v)'
    BY <2>0, <2>b DEF FreeNews, JobOK
  <2>3. CacheNews(v)'
    BY <2>0, SameCalls DEF CacheNews, JobOK, SameServer
  <2>4. RoadNews(v)'
    BY <1>1, <2>0, <2>b, PhaseFacts DEF RoadNews, JobOK
  <2>5. RowNews(v)'
    BY <1>1, <2>0, PhaseFacts DEF RowNews, JobOK, SameServer
  <2> QED
    BY <2>1, <2>2, <2>3, <2>4, <2>5 DEF JobOK
<1> QED
  BY <1>4, <1>5

\* What has nothing to do with the jobs of the vehicles.
LEMMA QuietJob ==
  ASSUME JobIInv,
         UNCHANGED <<db, cache, vcalls, booked, pc, job,
                     sim, inbox, commands, heard>>
  PROVE  \A u \in Vehicles : JobOK(u)'
<1>1. \A u \in Vehicles : SameServer(u) /\ SameVehicle(u) /\ SameChoice(u)
  BY DEF SameServer, SameVehicle, SameChoice, Picked, Sent
<1> QED
  BY <1>1, Untouched DEF JobIInv

\* Who calls the vehicle service in a step.
LEMMA CallingStep ==
  ASSUME Calm, JobIInv, [FleetNext]_fleetVars
  PROVE  \A w \in Workers \ Dispatchers :
           \/ vcalls'[w] = vcalls[w]
           \/ /\ w = Callback
              /\ vcalls'[w] # NoVehicleCall =>
                   vcalls'[w].step \in
                     {"statusGet", "statusSet", "telemetrySet", "telemetryDB"}
<1> SUFFICES ASSUME NEW w \in Workers \ Dispatchers
             PROVE  \/ vcalls'[w] = vcalls[w]
                    \/ /\ w = Callback
                       /\ vcalls'[w] # NoVehicleCall =>
                            vcalls'[w].step \in
                              {"statusGet", "statusSet", "telemetrySet",
                               "telemetryDB"}
  OBVIOUS
<1>t. /\ vcalls \in [Workers -> VehicleCall \cup {NoVehicleCall}]
      /\ VehicleTypeOK
      /\ Callback \in Workers \ Dispatchers
  BY JobTypes, FleetAssumption
<1>1. ASSUME NEW d \in Dispatchers, Dispatch(d) PROVE vcalls'[w] = vcalls[w]
  <2>d. d \in Workers /\ w \in Workers \ {d}
    BY DispatcherCalls
  <2>1. \/ \E v \in Vehicles, s \in VehicleStatus : SetStatus(d, v, s)
        \/ CallStep(d)
        \/ UNCHANGED vehicleVars
    <3>1. CASE SetEnRoute(d)
      <4>1. pc[d] = "status" => job[d].best \in Vehicles
        BY JobTypes DEF Shape, Chosen
      <4>2. "en_route" \in VehicleStatus
        BY DEF VehicleStatus
      <4> QED
        BY <3>1, <4>1, <4>2 DEF SetEnRoute
    <3>2. CASE SettingStatus(d)
      BY <3>2 DEF SettingStatus
    <3>3. CASE \/ \E o \in Orders : DispatchOrder(d, o)
               \/ Lock(d) \/ GetOrder(d) \/ GetKeys(d) \/ MGet(d)
               \/ ListVehicles(d) \/ AssignOrder(d) \/ Publish(d)
      BY <3>3
      DEF DispatchOrder, Lock, GetOrder, GetKeys, MGet, ListVehicles,
          AssignOrder, Publish, vehicleVars
    <3> QED
      BY <1>1, <3>1, <3>2, <3>3 DEF Dispatch, DispatchStep
  <2>2. CASE UNCHANGED vehicleVars
    BY <2>2 DEF vehicleVars
  <2> QED
    BY <2>d, <2>1, <2>2, <1>t, OwnCallOnly
<1>2. ASSUME NEW v \in Vehicles, TakeStatus(v) \/ TakeTelemetry(v)
      PROVE  \/ vcalls'[w] = vcalls[w]
             \/ /\ w = Callback
                /\ vcalls'[w].step \in {"statusGet", "telemetrySet"}
  BY <1>2, <1>t
  DEF TakeStatus, TakeTelemetry, SetStatus, UpdateTelemetry, Continue
<1>3. CASE FinishCallback
  BY <1>3, CallbackSteps
<1>4. CASE \/ \E o \in Orders : CreateOrder(o)
           \/ \E c \in Callers \ Dispatchers :
                \/ \E r \in requests : ServeRequest(c, r)
                \/ ClientCancels(c) \/ FinishRequest(c)
           \/ \E v \in Vehicles :
                FleetTick(v) \/ ((OnCommand(v) \/ Lose(v)) /\ UNCHANGED vars)
           \/ UNCHANGED fleetVars
  BY <1>4
  DEF CreateOrder, ServeRequest, ClientCancels, FinishRequest, FleetTick,
      fleetVars, vars, vehicleVars
<1>5. ~Crash /\ ~Expires
  BY DEF Calm, Crash
<1> QED
  BY <1>1, <1>2, <1>3, <1>4, <1>5 DEF FleetNext

\* The callers, after any step.
LEMMA NextCalling ==
  ASSUME Calm, JobIInv, [FleetNext]_fleetVars, BookIInv'
  PROVE  Calling'
<1>t. /\ pc \in [Dispatchers -> Steps]
      /\ Callback \in Workers \ Dispatchers
  BY JobTypes, FleetAssumption
<1>1. \A d \in Dispatchers : /\ pc'[d] = "list" => Vehicles = {}
                             /\ pc'[d] = "mget" => job'[d].keys # {}
  <2>1. CASE UNCHANGED engineVars
    BY <2>1 DEF engineVars, JobIInv, Calling
  <2>2. ASSUME NEW d \in Dispatchers, Dispatch(d)
        PROVE  \A x \in Dispatchers : /\ pc'[x] = "list" => Vehicles = {}
                                      /\ pc'[x] = "mget" => job'[x].keys # {}
    BY <2>2, SearchCalling DEF Dispatch, DispatchStep
  <2>3. ~Crash /\ ~Expires
    BY DEF Calm, Crash
  <2> QED
    BY <2>1, <2>2, <2>3
    DEF FleetNext, CreateOrder, TakeStatus, TakeTelemetry, FinishCallback,
        ServeRequest, ClientCancels, FinishRequest, FleetTick, fleetVars, vars,
        engineVars
<1>2. \A w \in Workers : vcalls'[w] # NoVehicleCall =>
        /\ w \in Dispatchers \cup {Callback}
        /\ vcalls'[w].step \in {"statusGet", "statusSet"}
             \cup (IF w = Callback THEN {"telemetrySet", "telemetryDB"} ELSE {})
  <2>1. ASSUME NEW w \in Dispatchers, vcalls'[w] # NoVehicleCall
        PROVE  vcalls'[w].step \in {"statusGet", "statusSet"}
    BY <2>1 DEF BookIInv, BookInv, SettingCalls
  <2>2. \A w \in Workers : vcalls[w] # NoVehicleCall =>
          /\ w \in Dispatchers \cup {Callback}
          /\ vcalls[w].step \in {"statusGet", "statusSet"}
               \cup (IF w = Callback THEN {"telemetrySet", "telemetryDB"} ELSE {})
    BY DEF JobIInv, Calling
  <2> QED
    BY <2>1, <2>2, <1>t, CallingStep
<1> QED
  BY <1>1, <1>2 DEF Calling

\* Every step keeps the invariant.
LEMMA JobStep ==
  ASSUME Calm, JobIInv, [FleetNext]_fleetVars
  PROVE  JobIInv'
<1>1. FleetIInv' /\ ~Crash /\ ~Expires /\ ~Loses /\ Serial
  BY FleetNextIInv DEF JobIInv, Calm, Crash
<1>2. BookIInv'
  BY <1>1, EngineStep, BookStep DEF JobIInv
<1>3. Honest' /\ Calling'
  BY <1>1, <1>2, HonestStep, NextCalling DEF JobIInv
<1>4. ASSUME NEW d \in Dispatchers, Dispatch(d)
      PROVE  \A v \in Vehicles : JobOK(v)'
  <2>1. CASE Publish(d)
    <3>1. pc[d] = "publish"
      BY <2>1 DEF Publish
    <3>2. Send(job[d].best, job[d].order)
      BY <1>4, <3>1 DEF Dispatch
    <3> QED
      BY <2>1, <3>2, PublishJob
  <2>2. CASE ~Publish(d)
    <3>1. UNCHANGED simVars
      BY <1>4, <2>2 DEF Dispatch
    <3>2. \/ (\E o \in Orders : DispatchOrder(d, o))
          \/ DispatchStep(d)
      BY <1>4, <2>2 DEF Dispatch
    <3> QED
      BY <2>2, <3>1, <3>2, <1>2, SearchJob, AssignJob, SetEnRouteJob, SettingJob
      DEF DispatchStep
  <2> QED
    BY <2>1, <2>2
<1>5. ASSUME NEW v \in Vehicles,
             TakeStatus(v) \/ TakeTelemetry(v) \/ FleetTick(v)
               \/ (OnCommand(v) /\ UNCHANGED vars)
      PROVE  \A u \in Vehicles : JobOK(u)'
  BY <1>5, TakeStatusJob, TakeTelemetryJob, TickJob, CommandJob
<1>6. FinishCallback => \A u \in Vehicles : JobOK(u)'
  BY CallbackJob
<1>7. ASSUME \/ \E o \in Orders : CreateOrder(o) /\ UNCHANGED simVars
             \/ \E c \in Callers \ Dispatchers :
                  \/ \E r \in requests : ServeRequest(c, r)
                  \/ ClientCancels(c) \/ FinishRequest(c)
             \/ UNCHANGED fleetVars
      PROVE  \A u \in Vehicles : JobOK(u)'
  <2>1. UNCHANGED <<db, cache, vcalls, booked, pc, job,
                    sim, inbox, commands, heard>>
    BY <1>7
    DEF CreateOrder, ServeRequest, Answer, ClientCancels, FinishRequest,
        fleetVars, vars, simVars, vehicleVars, engineVars, historyVars
  <2> QED
    BY <2>1, QuietJob
<1>8. \A v \in Vehicles : ~Lose(v)
  BY <1>1 DEF Lose
<1>9. \A v \in Vehicles : JobOK(v)'
  BY <1>1, <1>4, <1>5, <1>6, <1>7, <1>8 DEF FleetNext
<1> QED
  BY <1>1, <1>2, <1>3, <1>9 DEF JobIInv

\* The fleet as it is started.
LEMMA JobInit ==
  ASSUME Calm, FleetInit
  PROVE  JobIInv
<1>1. FleetIInv
  BY FleetInitIInv
<1>t. VehicleTypeOK /\ EngineIInv
  BY <1>1 DEF FleetIInv, EngineIInv, EngineTypeOK
<1>c. Callback \in Workers
  BY FleetAssumption
<1>2. ASSUME NEW v \in Vehicles
      PROVE  /\ db[v].status = "idle"
             /\ cache[v].status = BlankStatus
             /\ cache[v].report = db[v].report
             /\ db[v] # Absent /\ cache[v] # Absent
  <2>1. db[v] # Absent
    BY <1>1 DEF FleetIInv
  <2>2. /\ cache[v] = Started(Absent, sim[v])
        /\ db[v] = Started(Offline, sim[v])
    BY DEF FleetInit, Calm
  <2>3. Offline # Absent /\ Offline.status = "offline"
    BY DEF Offline, Absent
  <2>4. cache[v] # Absent
    BY <2>2, StartedEntry
  <2> QED
    <3>1. db[v].status = "idle" /\ cache[v].status = BlankStatus
      <4>1. /\ db[v].status = HeardFrom(Offline.status)
            /\ cache[v].status = BlankStatus
        BY <2>2, <2>3 DEF Started
      <4>2. HeardFrom(Offline.status) = "idle"
        BY <2>3 DEF HeardFrom
      <4> QED
        BY <4>1, <4>2
    <3>2. cache[v].report = db[v].report
      BY <2>2 DEF Started
    <3> QED
      BY <2>1, <2>4, <3>1, <3>2
<1>3. CacheIInv
  BY <1>t, <1>2
  DEF FleetInit, CacheIInv, OneCallEach, Agrees, Quiet, Registered
<1>4. BookInv
  BY <1>c, DispatcherCalls
  DEF FleetInit, BookInv, SettingCalls, BookedOK, ChosenOK, Chosen
<1>5. Calling
  BY DispatcherCalls DEF FleetInit, Calling
<1>6. Honest
  <2>1. PICK level \in [Vehicles -> StartBattery] :
          sim = [v \in Vehicles |-> NewVehicle(level[v])]
    BY DEF FleetInit, SimInit
  <2>2. inbox = [v \in Vehicles |-> <<Says("idle")>>]
    BY DEF FleetInit, SimInit
  <2> QED
    BY <2>1, <2>2, SaysIdleFirst DEF Honest, LastWord
<1>7. ASSUME NEW v \in Vehicles PROVE JobOK(v)
  <2>1. /\ inbox[v] = <<Says("idle")>> /\ commands[v] = <<>>
        /\ heard[v] = BlankStatus /\ sim[v].phase = NoPhase
        /\ ~booked[v] /\ ~Picked(v) /\ ~Sent(v)
        /\ \A w \in Workers : ~About(w, v)
    BY DEF FleetInit, SimInit, NewVehicle, Picked, Sent, About, Chosen
  <2>2. OneIdle(inbox[v]) /\ TakenBack(inbox[v])
        /\ \A x : Has(inbox[v], x) <=> x = "idle"
    <3>1. \A q : DOMAIN q = {1} /\ q[1] = Says("idle") =>
            OneIdle(q) /\ TakenBack(q) /\ \A x : Has(q, x) <=> x = "idle"
      BY DEF OneIdle, TakenBack, Has, Says
    <3>2. DOMAIN <<Says("idle")>> = {1} /\ <<Says("idle")>>[1] = Says("idle")
      OBVIOUS
    <3> QED
      BY <2>1, <3>1, <3>2
  <2>3. OneJob(v)
    <3>1. Len(<<>>) = 0
      OBVIOUS
    <3> QED
      BY <2>1, <3>1 DEF OneJob
  <2>4. FreeNews(v)
    BY <2>1, <2>2, <1>2, StatusFacts DEF FreeNews
  <2>5. CacheNews(v)
    BY <2>1, <1>2, StatusFacts DEF CacheNews
  <2>6. RoadNews(v)
    BY <2>1, <2>2, StatusFacts, PhaseFacts DEF RoadNews
  <2>7. RowNews(v)
    BY <2>1, <1>2, StatusFacts DEF RowNews
  <2> QED
    BY <2>3, <2>4, <2>5, <2>6, <2>7 DEF JobOK
<1> QED
  BY <1>1, <1>t, <1>3, <1>4, <1>5, <1>6, <1>7 DEF JobIInv, BookIInv

\* The job invariant, in every reachable state.
LEMMA JobInvariant == ASSUME Calm PROVE FleetSpec => []JobIInv
<1>1. FleetInit => JobIInv
  BY JobInit
<1>2. JobIInv /\ [FleetNext]_fleetVars => JobIInv'
  BY JobStep
<1> QED
  BY <1>1, <1>2, PTL DEF FleetSpec

\* What the server has heard of a vehicle that is not on its way to a pickup,
\* with what is still on its way, is what the vehicle does (manager.go:464 and
\* on), for any number of vehicles and even across crashes, as long as no
\* message is lost.
THEOREM AlwaysHonest == ASSUME ~Loses PROVE FleetSpec => []Honest
<1>1. FleetInit => Honest
  <2> SUFFICES ASSUME FleetInit PROVE Honest
    OBVIOUS
  <2>1. PICK level \in [Vehicles -> StartBattery] :
          sim = [v \in Vehicles |-> NewVehicle(level[v])]
    BY DEF FleetInit, SimInit
  <2>2. inbox = [v \in Vehicles |-> <<Says("idle")>>]
    BY DEF FleetInit, SimInit
  <2> QED
    BY <2>1, <2>2, SaysIdleFirst DEF Honest, LastWord
<1>2. FleetIInv /\ Honest /\ [FleetNext]_fleetVars => Honest'
  BY HonestStep
<1> QED
  BY <1>1, <1>2, FleetInvariant, PTL DEF FleetSpec

\* A command finds a free vehicle: onCommand (manager.go:413) overwrites the
\* order of a vehicle without looking, and never has one to overwrite.
THEOREM OneJobOnly == ASSUME Calm PROVE FleetSpec => []OneJobAtATime
<1>1. JobIInv => OneJobAtATime
  <2> SUFFICES ASSUME JobIInv, NEW v \in Vehicles, commands[v] # <<>>
               PROVE  sim[v].phase = NoPhase /\ Len(commands[v]) = 1
    BY DEF OneJobAtATime
  <2>1. sim[v].phase = NoPhase /\ Len(commands[v]) <= 1
    BY DEF JobIInv, JobOK, OneJob
  <2>2. commands[v] \in Seq(Orders)
    BY JobTypes DEF SimTypeOK
  <2>3. Len(commands[v]) \in Nat
    BY <2>2, LenProperties
  <2>4. Len(commands[v]) # 0
    BY <2>2, EmptySeq, Zenon
  <2>5. \A n \in Nat : n <= 1 /\ n # 0 => n = 1
    OBVIOUS
  <2> QED
    BY <2>1, <2>3, <2>4, <2>5, Zenon
<1> QED
  BY <1>1, JobInvariant, PTL

\* When nothing is on its way, the table and the cache have each vehicle as it
\* is, the blank status of a vehicle that is new to the cache
\* (vehicle/service.go:50) included.
THEOREM KnowsTheFleet == ASSUME Calm PROVE FleetSpec => []ServerKnows
<1>1. JobIInv => ServerKnows
  <2> SUFFICES ASSUME JobIInv, NEW v \in Vehicles, Silent(v)
               PROVE  /\ \/ db[v].status = sim[v].status
                         \/ /\ sim[v].status = "en_route"
                            /\ db[v].status = "charging"
                      /\ cache[v] # Absent => cache[v].status = db[v].status
    BY DEF ServerKnows
  <2>1. /\ inbox[v] = <<>> /\ commands[v] = <<>> /\ Quiet(v)
        /\ ~Picked(v) /\ ~Sent(v)
        /\ \A w \in Workers : ~About(w, v)
        /\ JobOK(v)
    BY DEF Silent, Picked, Sent, Chosen, Quiet, About, JobIInv
  <2>2. \A x : ~Has(inbox[v], x)
    <3>1. DOMAIN <<>> = {}
      OBVIOUS
    <3> QED
      BY <2>1, <3>1 DEF Has
  <2>3. LastWord(v) = heard[v]
    BY <2>1, LastSaidEmpty DEF LastWord
  <2>4. /\ Phased /\ sim[v] \in VehicleState
        /\ heard[v] \in {BlankStatus, "idle", "delivering", "charging"}
    BY JobTypes DEF SimTypeOK
  <2>5. heard[v] # BlankStatus
    BY <2>1, <2>2 DEF JobOK, RoadNews
  <2>6. ASSUME sim[v].status # "en_route" PROVE db[v].status = sim[v].status
    <3>1. heard[v] = sim[v].status
      BY <2>3, <2>6 DEF JobIInv, Honest
    <3>2. db[v].status = "en_route" => sim[v].phase = "to_dropoff"
      BY <2>1, <2>2, <2>4, <2>6, PhaseFacts
      DEF JobOK, RowNews, Phased, VehicleState
    <3>3. sim[v].phase = "to_dropoff" => sim[v].status = "delivering"
      BY <2>4, <2>6, PhaseFacts DEF Phased, VehicleState
    <3> QED
      BY <3>1, <3>2, <3>3, <2>1, <2>4, <2>5 DEF JobOK, RowNews
  <2>7. ASSUME sim[v].status = "en_route" PROVE db[v].status \in {"en_route", "charging"}
    <3>1. sim[v].phase = "to_pickup"
      BY <2>4, <2>7 DEF Phased
    <3>2. heard[v] \in {"idle", "charging"} /\ booked[v]
      BY <3>1, <2>1, PhaseFacts DEF JobOK, RoadNews, OneJob
    <3>3. db[v].status \notin Available
      <4>1. ~Settling(v)
        BY <2>1 DEF Settling, Picked, Chosen
      <4> QED
        BY <3>2, <4>1 DEF JobIInv, BookIInv, BookInv, BookedOK, BusyEverywhere
    <3> QED
      BY <3>2, <3>3, <2>1, <2>7, StatusFacts DEF JobOK, RowNews
  <2>8. cache[v] # Absent => cache[v].status = db[v].status
    <3>1. Agrees(v)
      BY <2>1, JobTypes DEF CacheIInv
    <3>2. cache[v].status # BlankStatus
      <4>1. ~StatusCall(v)
        BY <2>1, FleetAssumption DEF StatusCall
      <4> QED
        BY <2>1, <2>5, <4>1 DEF JobOK, CacheNews
    <3> QED
      BY <3>1, <3>2 DEF Agrees
  <2> QED
    BY <2>6, <2>7, <2>8
<1> QED
  BY <1>1, JobInvariant, PTL

=============================================================================
