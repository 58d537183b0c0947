------------------------ MODULE DispatchEngineProofs ------------------------
(***************************************************************************)
(* What holds of DispatchEngine for any orders, vehicles, dispatchers and  *)
(* callers, whatever overlaps and whatever fails.                          *)
(*                                                                         *)
(* Dispatch: its properties follow from one inductive invariant.           *)
(* Mutex says that past Lock a dispatcher holds the engine's mutex; Fresh  *)
(* that a pending order has not been assigned since it became pending, and *)
(* that the order of a dispatcher stays so from the check to the Assign;   *)
(* Shape what a dispatcher holds, and which call it has in flight.         *)
(*                                                                         *)
(* The life of an order: once delivered or cancelled, and quiet, it never  *)
(* changes again; and when requests about one order take turns it follows  *)
(* OrderLifecycle, which is not so in general.  For the refinement every   *)
(* request in flight must still be about to do what it checked: TakesTurns *)
(* says that an order has one request at a time, StillAllowed that the     *)
(* edge a Transition is about to take is still in the table and that a     *)
(* dispatcher's order is still pending.                                    *)
(*                                                                         *)
(* The bookings: under Serial, dispatch never books a vehicle twice.  The  *)
(* dispatcher reads the cache, or the table when nothing is cached, so a   *)
(* booked vehicle must be available in neither, and no call in flight may  *)
(* be about to write that it is (BusyEverywhere).  Between the Assign and  *)
(* the end of SetStatus this is not so yet; that the engine's mutex is     *)
(* held until then is what keeps a second dispatcher from looking.         *)
(***************************************************************************)
EXTENDS ServiceProofs, DispatchEngine

\* The steps at which a best vehicle has been chosen.
Chosen == {"assign", "status", "setting", "publish"}

\* The steps at which a dispatcher has seen its order pending, and has not
\* assigned it.
Looking == {"keys", "mget", "list"}

Shape ==
  \A d \in Dispatchers :
    /\ pc[d] # "idle" => job[d] \in Job
    /\ pc[d] \in Chosen => job[d].best \in Vehicles
    /\ pc[d] = "assign" =>
         /\ ocalls[d].op = "assign"
         /\ ocalls[d].id = job[d].order
         /\ ocalls[d].vehicle = job[d].best
    /\ pc[d] # "assign" => ocalls[d] = NoCall

Mutex ==
  \A d \in Dispatchers : pc[d] \notin {"idle", "lock"} => mu = d

Fresh ==
  /\ \A o \in Orders : orders[o].status = "pending" => fresh[o]
  /\ \A d \in Dispatchers :
       pc[d] \in Looking \cup {"assign"} => fresh[job[d].order]

Matched ==
  \A d \in Dispatchers :
    pc[d] \in {"status", "setting", "publish"} =>
      orders[job[d].order].vehicle_id = job[d].best

EngineIInv ==
  /\ EngineTypeOK
  /\ OrderIInv
  /\ Shape
  /\ Mutex
  /\ Fresh
  /\ Matched

-----------------------------------------------------------------------------

\* A dispatcher is one of the callers of both services.
LEMMA DispatcherCalls ==
  ASSUME NEW d \in Dispatchers
  PROVE  d \in Callers /\ d \in Workers /\ d # NoOne
BY EngineAssumption

\* findNearestIdle answers with an idle vehicle of the list.
LEMMA MatchOutcome ==
  ASSUME NEW d \in Dispatchers, NEW list, Match(d, list)
  PROVE  \/ Leave(d) /\ UNCHANGED orderVars
         \/ \E v \in DOMAIN list :
              /\ list[v].status = "idle"
              /\ BeginAssign(d, job[d].order, v)
              /\ job' = [job EXCEPT ![d].best = v]
              /\ Goto(d, "assign")
              /\ UNCHANGED mu
BY DEF Match, NearestIdle, CanTake

\* MGet and ListVehicles end in one of three ways: without a vehicle or with
\* an error, with an Assign to call, or (MGet) on the way to the database.
LEMMA SearchOutcome ==
  ASSUME Shape, NEW d \in Dispatchers, MGet(d) \/ ListVehicles(d)
  PROVE  /\ pc[d] \in Looking
         /\ UNCHANGED <<vehicleVars, historyVars>>
         /\ \/ Leave(d) /\ UNCHANGED orderVars
            \/ \E v \in Vehicles :
                 /\ \/ pc[d] = "mget" /\ cache[v].status = "idle"
                    \/ pc[d] = "list" /\ db[v].status = "idle"
                 /\ BeginAssign(d, job[d].order, v)
                 /\ job' = [job EXCEPT ![d].best = v]
                 /\ Goto(d, "assign")
                 /\ UNCHANGED mu
            \/ Goto(d, "list") /\ UNCHANGED <<orderVars, mu, job>>
<1>1. CASE MGet(d)
  <2> DEFINE live == {v \in job[d].keys : cache[v] # Absent}
             list == [v \in live |-> cache[v]]
  <2>1. DOMAIN list \subseteq Vehicles /\ \A v \in DOMAIN list : list[v] = cache[v]
    BY <1>1 DEF MGet, Shape, Job
  <2>2. /\ pc[d] = "mget"
        /\ UNCHANGED <<vehicleVars, historyVars>>
        /\ \/ Match(d, list)
           \/ Goto(d, "list") /\ UNCHANGED <<orderVars, mu, job>>
    BY <1>1 DEF MGet
  <2> HIDE DEF list
  <2>3. CASE Match(d, list)
    BY <2>1, <2>2, <2>3, MatchOutcome DEF Looking
  <2>4. CASE Goto(d, "list") /\ UNCHANGED <<orderVars, mu, job>>
    BY <2>2, <2>4 DEF Looking
  <2> QED
    BY <2>2, <2>3, <2>4
<1>2. CASE ListVehicles(d)
  <2> DEFINE list == [v \in {x \in Vehicles : Registered(x)} |-> db[v]]
  <2>1. DOMAIN list \subseteq Vehicles /\ \A v \in DOMAIN list : list[v] = db[v]
    OBVIOUS
  <2>2. /\ pc[d] = "list"
        /\ UNCHANGED <<vehicleVars, historyVars>>
        /\ Match(d, list) \/ (Leave(d) /\ UNCHANGED orderVars)
    BY <1>2 DEF ListVehicles
  <2> HIDE DEF list
  <2>3. CASE Match(d, list)
    BY <2>1, <2>2, <2>3, MatchOutcome DEF Looking
  <2>4. CASE Leave(d) /\ UNCHANGED orderVars
    BY <2>2, <2>4 DEF Looking
  <2> QED
    BY <2>2, <2>3, <2>4
<1> QED
  BY <1>1, <1>2

\* A dispatcher chose a vehicle before it sets its status.
LEMMA ServiceSteps ==
  ASSUME Shape, [Next]_vars
  PROVE  [OrderNext]_orderVars /\ [VehicleNext]_vehicleVars
<1>1. ASSUME NEW d \in Dispatchers, NEW o \in Orders, DispatchOrder(d, o)
      PROVE  UNCHANGED <<orderVars, vehicleVars>>
  BY <1>1 DEF DispatchOrder
<1>2. ASSUME NEW d \in Dispatchers, DispatchStep(d)
      PROVE  [OrderNext]_orderVars /\ [VehicleNext]_vehicleVars
  <2>d. d \in Callers /\ d \in Workers
    BY DispatcherCalls
  <2>1. CASE Lock(d) \/ GetOrder(d) \/ GetKeys(d) \/ Publish(d)
    BY <2>1 DEF Lock, GetOrder, GetKeys, Publish
  <2>2. CASE MGet(d) \/ ListVehicles(d)
    <3>1. job[d].order \in Orders
      BY <2>2, SearchOutcome DEF Shape, Job, Looking
    <3> QED
      BY <2>2, <2>d, <3>1, SearchOutcome DEF OrderNext
  <2>3. CASE AssignOrder(d)
    BY <2>3, <2>d DEF AssignOrder, OrderNext
  <2>4. CASE SetEnRoute(d)
    <3>1. job[d].best \in Vehicles /\ "en_route" \in VehicleStatus
      BY <2>4 DEF SetEnRoute, Shape, Chosen, VehicleStatus
    <3> QED
      BY <2>4, <2>d, <3>1 DEF SetEnRoute, VehicleNext
  <2>5. CASE SettingStatus(d)
    BY <2>5, <2>d DEF SettingStatus, VehicleNext
  <2> QED
    BY <1>2, <2>1, <2>2, <2>3, <2>4, <2>5 DEF DispatchStep
<1>3. ASSUME NEW o \in Orders, CreateOrder(o)
      PROVE  [OrderNext]_orderVars /\ [VehicleNext]_vehicleVars
  BY <1>3 DEF CreateOrder, OrderNext
<1>4. ASSUME NEW c \in Callers \ Dispatchers, UpdateOrderStatus(c)
      PROVE  [OrderNext]_orderVars /\ [VehicleNext]_vehicleVars
  BY <1>4 DEF UpdateOrderStatus, OrderNext
<1>5. ASSUME NEW w \in Workers \ Dispatchers, VehicleCaller(w)
      PROVE  [OrderNext]_orderVars /\ [VehicleNext]_vehicleVars
  <2>1. Published \subseteq VehicleStatus
    BY DEF Published, VehicleStatus
  <2> QED
    BY <1>5, <2>1 DEF VehicleCaller, VehicleNext
<1>6. ASSUME Background
      PROVE  [OrderNext]_orderVars /\ [VehicleNext]_vehicleVars
  BY <1>6 DEF Background, OrderNext, VehicleNext
<1>7. CASE UNCHANGED vars
  BY <1>7 DEF vars, orderVars, vehicleVars
<1> QED
  BY <1>1, <1>2, <1>3, <1>4, <1>5, <1>6, <1>7 DEF Next

-----------------------------------------------------------------------------

\* The types of what the engine adds to the two services.
ControlTypeOK ==
  /\ mu \in Dispatchers \cup {NoOne}
  /\ pc \in [Dispatchers -> Steps]
  /\ job \in [Dispatchers -> Job \cup {NoJob}]
  /\ fresh \in [Orders -> BOOLEAN]
  /\ booked \in [Vehicles -> BOOLEAN]

\* The part of EngineIInv that the services do not keep by themselves.
Control ==
  /\ ControlTypeOK
  /\ Shape
  /\ Mutex
  /\ Fresh
  /\ Matched

\* While a dispatcher is past Lock every other is outside.
LEMMA Alone ==
  ASSUME Mutex, NEW d \in Dispatchers, pc[d] \notin {"idle", "lock"},
         NEW x \in Dispatchers, x # d
  PROVE  pc[x] \in {"idle", "lock"}
BY DEF Mutex

\* A dispatcher that moves, without a call to the order service, to a step it
\* is fit for, while every other one is outside or left alone.
LEMMA Moves ==
  ASSUME Control, ocalls \in [Callers -> {NoCall} \cup TransitionCall \cup AssignCall],
         NEW d \in Dispatchers, NEW step \in Steps, NEW j \in Job \cup {NoJob},
         UNCHANGED <<orders, ocalls, historyVars>>,
         pc' = [pc EXCEPT ![d] = step],
         job' = [job EXCEPT ![d] = j],
         pc[d] # "assign", step # "assign",
         step # "idle" => j \in Job,
         step \in Chosen => j.best \in Vehicles,
         step \in Looking => fresh[j.order],
         step \in {"status", "setting", "publish"} =>
           orders[j.order].vehicle_id = j.best,
         mu' \in Dispatchers \cup {NoOne},
         step \notin {"idle", "lock"} => mu' = d,
         mu' # mu => \A x \in Dispatchers \ {d} : pc[x] \in {"idle", "lock"}
  PROVE  Control'
<1>t. /\ pc'[d] = step /\ job'[d] = j
      /\ \A x \in Dispatchers \ {d} : pc'[x] = pc[x] /\ job'[x] = job[x]
  BY DEF Control, ControlTypeOK
<1>1. ControlTypeOK'
  BY DEF Control, ControlTypeOK, historyVars
<1>2. Shape'
  BY <1>t DEF Control, Shape
<1>3. Mutex'
  BY <1>t DEF Control, Mutex
<1>4. Fresh'
  BY <1>t DEF Control, Fresh, historyVars, Looking
<1>5. Matched'
  BY <1>t DEF Control, Matched
<1> QED
  BY <1>1, <1>2, <1>3, <1>4, <1>5 DEF Control

\* Leaving the critical section.
LEMMA Leaves ==
  ASSUME Control, ocalls \in [Callers -> {NoCall} \cup TransitionCall \cup AssignCall],
         NEW d \in Dispatchers,
         UNCHANGED <<orders, ocalls, historyVars>>,
         pc[d] \notin {"idle", "lock", "assign"}, Leave(d)
  PROVE  Control'
<1>1. \A x \in Dispatchers \ {d} : pc[x] \in {"idle", "lock"}
  BY Alone DEF Control
<1>2. /\ mu' = NoOne
      /\ pc' = [pc EXCEPT ![d] = "idle"]
      /\ job' = [job EXCEPT ![d] = NoJob]
  BY DEF Leave, Goto
<1> QED
  BY <1>1, <1>2, Moves DEF Steps, Chosen, Looking

\* The steps of DispatchOrder that make no call to Assign.
LEMMA QuietSteps ==
  ASSUME EngineIInv, NEW d \in Dispatchers,
         \/ \E o \in Orders : DispatchOrder(d, o)
         \/ Lock(d) \/ GetOrder(d) \/ GetKeys(d)
         \/ SetEnRoute(d) \/ SettingStatus(d) \/ Publish(d)
  PROVE  Control'
<1>c. /\ Control
      /\ ocalls \in [Callers -> {NoCall} \cup TransitionCall \cup AssignCall]
      /\ mu \in Dispatchers \cup {NoOne}
      /\ job \in [Dispatchers -> Job \cup {NoJob}]
      /\ d # NoOne
  BY DispatcherCalls
  DEF EngineIInv, EngineTypeOK, OrderTypeOK, Control, ControlTypeOK
<1>k. \A step : Goto(d, step) <=> pc' = [pc EXCEPT ![d] = step]
  BY DEF Goto
<1>j. job' = job => job' = [job EXCEPT ![d] = job[d]]
  BY <1>c
<1>s. {"idle", "lock", "get", "keys", "list", "mget", "setting", "publish"}
        \subseteq Steps
  BY DEF Steps
<1>1. ASSUME NEW o \in Orders, DispatchOrder(d, o) PROVE Control'
  <2> DEFINE j == [order |-> o, keys |-> {}, best |-> NoVehicle]
  <2>1. j \in Job
    BY DEF Job
  <2>2. /\ pc[d] = "idle"
        /\ pc' = [pc EXCEPT ![d] = "lock"]
        /\ job' = [job EXCEPT ![d] = j]
        /\ mu' = mu
        /\ UNCHANGED <<orders, ocalls, historyVars>>
    BY <1>1 DEF DispatchOrder, Goto, orderVars
  <2> HIDE DEF j
  <2> QED
    BY <2>1, <2>2, <1>c, <1>s, Moves DEF Chosen, Looking
<1>2. CASE Lock(d)
  <2>1. /\ pc[d] = "lock" /\ mu = NoOne /\ mu' = d
        /\ pc' = [pc EXCEPT ![d] = "get"]
        /\ job' = [job EXCEPT ![d] = job[d]]
        /\ UNCHANGED <<orders, ocalls, historyVars>>
    BY <1>2, <1>j DEF Lock, Goto, orderVars
  <2>2. \A x \in Dispatchers : pc[x] \in {"idle", "lock"}
    BY <2>1, EngineAssumption DEF EngineIInv, Mutex
  <2>3. job[d] \in Job
    BY <2>1 DEF EngineIInv, Shape
  <2> QED
    BY <2>1, <2>2, <2>3, <1>c, <1>s, Moves DEF Chosen, Looking
<1>3. CASE GetOrder(d)
  <2>1. pc[d] = "get" /\ UNCHANGED <<orders, ocalls, historyVars>>
    BY <1>3 DEF GetOrder, orderVars
  <2>2. CASE Leave(d)
    BY <2>1, <2>2, <1>c, Leaves
  <2>3. CASE /\ orders[job[d].order].status = "pending"
             /\ Goto(d, "keys")
             /\ UNCHANGED <<mu, job>>
    <3>1. mu' = d /\ mu' = mu /\ job[d] \in Job
      BY <2>1, <2>3 DEF EngineIInv, Shape, Mutex
    <3>2. fresh[job[d].order]
      BY <2>3, <3>1 DEF EngineIInv, Fresh, Job
    <3> QED
      BY <2>1, <2>3, <3>1, <3>2, <1>c, <1>j, <1>k, <1>s, Moves
      DEF Chosen, Looking
  <2> QED
    BY <1>3, <2>2, <2>3 DEF GetOrder
<1>4. CASE GetKeys(d)
  <2> DEFINE found == {v \in Vehicles : cache[v] # Absent}
             j == [job[d] EXCEPT !.keys = found]
  <2>1. /\ pc[d] = "keys" /\ mu' = mu /\ UNCHANGED <<orders, ocalls, historyVars>>
        /\ \/ job' = [job EXCEPT ![d] = j] /\ pc' = [pc EXCEPT ![d] = "mget"]
           \/ job' = job /\ pc' = [pc EXCEPT ![d] = "list"]
    BY <1>4 DEF GetKeys, Goto, orderVars
  <2>2. mu = d /\ job[d] \in Job /\ fresh[job[d].order]
    BY <2>1 DEF EngineIInv, Shape, Mutex, Fresh, Looking
  <2>3. j \in Job /\ j.order = job[d].order
    BY <2>2 DEF Job
  <2> HIDE DEF j
  <2>4. CASE job' = [job EXCEPT ![d] = j] /\ pc' = [pc EXCEPT ![d] = "mget"]
    BY <2>1, <2>2, <2>3, <2>4, <1>c, <1>s, Moves DEF Chosen, Looking
  <2>5. CASE job' = job /\ pc' = [pc EXCEPT ![d] = "list"]
    BY <2>1, <2>2, <2>5, <1>c, <1>j, <1>s, Moves DEF Chosen, Looking
  <2> QED
    BY <2>1, <2>4, <2>5
<1>5. CASE SetEnRoute(d) \/ SettingStatus(d)
  <2>1. PICK step \in {"setting", "publish"} : pc' = [pc EXCEPT ![d] = step]
    BY <1>5 DEF SetEnRoute, SettingStatus, Goto
  <2>2. /\ pc[d] \in {"status", "setting"}
        /\ mu' = mu /\ job' = job
        /\ UNCHANGED <<orders, ocalls, historyVars>>
    BY <1>5 DEF SetEnRoute, SettingStatus, orderVars
  <2>3. /\ mu = d /\ job[d] \in Job /\ job[d].best \in Vehicles
        /\ orders[job[d].order].vehicle_id = job[d].best
    BY <2>2 DEF EngineIInv, Shape, Mutex, Matched, Chosen
  <2> QED
    BY <2>1, <2>2, <2>3, <1>c, <1>j, <1>s, Moves DEF Chosen, Looking
<1>6. CASE Publish(d)
  <2>1. /\ pc[d] = "publish" /\ Leave(d)
        /\ UNCHANGED <<orders, ocalls, historyVars>>
    BY <1>6 DEF Publish, orderVars
  <2> QED
    BY <2>1, <1>c, Leaves
<1> QED
  BY <1>1, <1>2, <1>3, <1>4, <1>5, <1>6

\* A search that ends with a vehicle has called Assign for it; the order is
\* the one that was seen pending, and still fresh.
LEMMA SearchSteps ==
  ASSUME EngineIInv, NEW d \in Dispatchers, MGet(d) \/ ListVehicles(d)
  PROVE  Control'
<1>c. /\ Control
      /\ ocalls \in [Callers -> {NoCall} \cup TransitionCall \cup AssignCall]
      /\ mu \in Dispatchers \cup {NoOne}
      /\ job \in [Dispatchers -> Job \cup {NoJob}]
      /\ pc \in [Dispatchers -> Steps]
      /\ d \in Callers
  BY DispatcherCalls
  DEF EngineIInv, EngineTypeOK, OrderTypeOK, Control, ControlTypeOK
<1>1. /\ pc[d] \in Looking
      /\ pc[d] \notin {"idle", "lock", "assign"} \cup Chosen
      /\ UNCHANGED historyVars
  BY <1>c, SearchOutcome DEF Control, Looking, Chosen
<1>2. job[d] \in Job /\ mu = d /\ fresh[job[d].order]
  BY <1>1, <1>c DEF Control, Shape, Mutex, Fresh
<1>3. CASE Leave(d) /\ UNCHANGED orderVars
  BY <1>1, <1>3, <1>c, Leaves DEF orderVars
<1>4. CASE Goto(d, "list") /\ UNCHANGED <<orderVars, mu, job>>
  <2>1. /\ pc' = [pc EXCEPT ![d] = "list"] /\ mu' = mu
        /\ job' = [job EXCEPT ![d] = job[d]]
        /\ UNCHANGED <<orders, ocalls>>
    BY <1>4, <1>c DEF Goto, orderVars
  <2>2. "list" \in Steps
    BY DEF Steps
  <2> QED
    BY <2>1, <2>2, <1>1, <1>2, <1>c, Moves DEF Chosen, Looking
<1>5. ASSUME NEW v \in Vehicles, BeginAssign(d, job[d].order, v),
             job' = [job EXCEPT ![d].best = v], Goto(d, "assign"), mu' = mu
      PROVE  Control'
  <2> DEFINE j == [job[d] EXCEPT !.best = v]
             call == [op |-> "assign", id |-> job[d].order, vehicle |-> v,
                      since |-> clock]
  <2>1. j \in Job /\ j.order = job[d].order /\ j.best = v
    BY <1>2 DEF Job
  <2>2. /\ orders' = orders
        /\ ocalls' = [ocalls EXCEPT ![d] = call]
        /\ pc' = [pc EXCEPT ![d] = "assign"]
        /\ job' = [job EXCEPT ![d] = j]
        /\ UNCHANGED <<fresh, booked>>
    BY <1>5, <1>1 DEF BeginAssign, Goto, historyVars
  <2>3. call.op = "assign" /\ call.id = j.order /\ call.vehicle = j.best
    BY <2>1
  <2> HIDE DEF j, call
  <2>t. /\ pc'[d] = "assign" /\ job'[d] = j /\ ocalls'[d] = call
        /\ \A x \in Dispatchers \ {d} :
             pc'[x] = pc[x] /\ job'[x] = job[x] /\ ocalls'[x] = ocalls[x]
    BY <2>2, <1>c, DispatcherCalls
  <2>4. ControlTypeOK'
    BY <2>1, <2>2, <1>5, <1>c DEF Control, ControlTypeOK, Steps
  <2>5. Shape'
    BY <2>t, <2>1, <2>3, <1>c DEF Control, Shape, Chosen
  <2>6. Mutex'
    BY <2>t, <1>2, <1>5, <1>c DEF Control, Mutex
  <2>7. Fresh'
    BY <2>t, <2>1, <2>2, <1>2, <1>c DEF Control, Fresh, Looking
  <2>8. Matched'
    BY <2>t, <2>2, <1>c DEF Control, Matched
  <2> QED
    BY <2>4, <2>5, <2>6, <2>7, <2>8 DEF Control
<1> QED
  BY <1>3, <1>4, <1>5, SearchOutcome DEF Control, EngineIInv

\* After the Assign the order is no longer fresh.  No other dispatcher is
\* past Lock, so none still counts on it.
LEMMA AssignSteps ==
  ASSUME EngineIInv, NEW d \in Dispatchers, AssignOrder(d)
  PROVE  Control'
<1>c. /\ Control
      /\ ocalls \in [Callers -> {NoCall} \cup TransitionCall \cup AssignCall]
      /\ orders \in [Orders -> Row]
      /\ mu \in Dispatchers \cup {NoOne}
      /\ job \in [Dispatchers -> Job \cup {NoJob}]
      /\ pc \in [Dispatchers -> Steps]
      /\ d \in Callers
  BY DispatcherCalls
  DEF EngineIInv, EngineTypeOK, OrderTypeOK, Control, ControlTypeOK
<1>1. /\ pc[d] = "assign"
      /\ mu = d
      /\ job[d] \in Job /\ job[d].best \in Vehicles
      /\ ocalls[d].id = job[d].order /\ ocalls[d].vehicle = job[d].best
  BY <1>c DEF AssignOrder, Control, Shape, Mutex, Chosen
<1>2. \A x \in Dispatchers \ {d} : pc[x] \in {"idle", "lock"}
  BY <1>c, <1>1, Alone DEF Control
<1>3. ocalls' = [ocalls EXCEPT ![d] = NoCall]
  BY DEF AssignOrder, AssignUpdate, UpdateFails, Return
<1>4. PICK step \in {"status", "idle"}, j \in {job[d], NoJob} :
        /\ pc' = [pc EXCEPT ![d] = step]
        /\ job' = [job EXCEPT ![d] = j]
        /\ step = "status" => j = job[d] /\ mu' = d
        /\ mu' \in {d, NoOne}
  <2>1. \/ pc' = [pc EXCEPT ![d] = "status"] /\ mu' = mu /\ job' = job
        \/ Leave(d)
    BY DEF AssignOrder, Goto
  <2>2. job = [job EXCEPT ![d] = job[d]]
    BY <1>c
  <2> QED
    BY <2>1, <2>2, <1>1 DEF Leave, Goto
<1>t. /\ pc'[d] = step /\ job'[d] = j /\ ocalls'[d] = NoCall
      /\ \A x \in Dispatchers \ {d} :
           pc'[x] = pc[x] /\ job'[x] = job[x] /\ ocalls'[x] = ocalls[x]
  BY <1>3, <1>4, <1>c, DispatcherCalls
<1>5. Shape' /\ Mutex'
  BY <1>t, <1>1, <1>2, <1>4, <1>c DEF Control, Shape, Mutex, Chosen
<1>6. CASE /\ AssignUpdate(d)
           /\ fresh' = [fresh EXCEPT ![job[d].order] = FALSE]
           /\ booked' = [booked EXCEPT ![job[d].best] = TRUE]
  <2>1. PICK now :
          orders' = [orders EXCEPT ![job[d].order] =
                       AssignedRow(orders[job[d].order], job[d].best, now)]
    BY <1>6, <1>1 DEF AssignUpdate
  <2>2. job[d].order \in Orders
    BY <1>1 DEF Job
  <2>3. /\ orders'[job[d].order].status = "assigned"
        /\ orders'[job[d].order].vehicle_id = job[d].best
        /\ \A o \in Orders \ {job[d].order} : orders'[o] = orders[o]
    BY <2>1, <2>2, <1>c DEF AssignedRow, Row
  <2>4. ControlTypeOK'
    BY <1>4, <1>6, <1>1, <1>c DEF Control, ControlTypeOK, Steps
  <2>5. Fresh'
    BY <2>2, <2>3, <1>6, <1>t, <1>2, <1>c DEF Control, ControlTypeOK, Fresh, Looking
  <2>6. Matched'
    BY <2>3, <1>t, <1>2, <1>4 DEF Matched
  <2> QED
    BY <2>4, <2>5, <2>6, <1>5 DEF Control
<1>7. CASE UpdateFails(d) /\ Leave(d) /\ UNCHANGED historyVars
  <2>1. /\ orders' = orders /\ fresh' = fresh /\ booked' = booked
        /\ pc'[d] = "idle"
    BY <1>7, <1>c DEF UpdateFails, historyVars, Leave, Goto
  <2>2. ControlTypeOK'
    BY <2>1, <1>4, <1>c DEF Control, ControlTypeOK, Steps
  <2>3. Fresh' /\ Matched'
    BY <2>1, <1>t, <1>2, <1>c DEF Control, Fresh, Matched, Looking
  <2> QED
    BY <2>2, <2>3, <1>5 DEF Control
<1> QED
  BY <1>6, <1>7 DEF AssignOrder

\* The other callers.  Only an UPDATE to pending makes an order pending, and
\* none of them touches vehicle_id.
LEMMA OtherSteps ==
  ASSUME EngineIInv,
         \/ \E o \in Orders : CreateOrder(o)
         \/ \E c \in Callers \ Dispatchers : UpdateOrderStatus(c)
         \/ \E w \in Workers \ Dispatchers : VehicleCaller(w)
         \/ Background
         \/ UNCHANGED vars
  PROVE  Control'
<1>c. /\ Control
      /\ ocalls \in [Callers -> {NoCall} \cup TransitionCall \cup AssignCall]
      /\ orders \in [Orders -> Row]
      /\ job \in [Dispatchers -> Job \cup {NoJob}]
      /\ fresh \in [Orders -> BOOLEAN]
      /\ booked \in [Vehicles -> BOOLEAN]
  BY DEF EngineIInv, EngineTypeOK, OrderTypeOK, Control, ControlTypeOK
<1>e. UNCHANGED engineVars
  BY DEF CreateOrder, UpdateOrderStatus, VehicleCaller, Background,
         engineVars, vars
<1>j. \A d \in Dispatchers :
        pc[d] \in Looking \cup Chosen => job[d].order \in Orders
  BY <1>c DEF Control, Shape, Looking, Chosen, Job
<1>b. booked' \in [Vehicles -> BOOLEAN]
  <2>1. ASSUME NEW w \in Workers \ Dispatchers, VehicleCaller(w)
        PROVE  booked' \in [Vehicles -> BOOLEAN]
    BY <2>1, <1>c DEF VehicleCaller, historyVars
  <2> QED
    BY <2>1, <1>c DEF CreateOrder, UpdateOrderStatus, Background,
                      historyVars, vars
<1>1. ASSUME fresh' \in [Orders -> BOOLEAN],
             \A d \in Dispatchers : ocalls'[d] = ocalls[d],
             \A o \in Orders :
               /\ fresh[o] => fresh'[o]
               /\ orders'[o].status = "pending" =>
                    orders[o].status = "pending" \/ fresh'[o]
               /\ orders'[o].vehicle_id = orders[o].vehicle_id
      PROVE  Control'
  <2>1. ControlTypeOK'
    BY <1>1, <1>b, <1>c, <1>e DEF Control, ControlTypeOK, engineVars
  <2>2. Shape' /\ Mutex'
    BY <1>1, <1>c, <1>e DEF Control, Shape, Mutex, engineVars
  <2>3. Fresh'
    BY <1>1, <1>c, <1>e, <1>j DEF Control, Fresh, engineVars, Looking, Chosen
  <2>4. Matched'
    BY <1>1, <1>c, <1>e, <1>j DEF Control, Matched, engineVars, Chosen
  <2> QED
    BY <2>1, <2>2, <2>3, <2>4 DEF Control
<1>2. ASSUME NEW o \in Orders, CreateOrder(o) PROVE Control'
  <2>1. /\ orders' = [orders EXCEPT ![o].status = "pending"]
        /\ fresh' = [fresh EXCEPT ![o] = TRUE]
        /\ ocalls' = ocalls
    BY <1>2 DEF CreateOrder, Create
  <2>2. \A x \in Orders : orders'[x].vehicle_id = orders[x].vehicle_id
    BY <2>1, <1>c DEF Row
  <2>3. \A x \in Orders \ {o} : orders'[x] = orders[x]
    BY <2>1, <1>c
  <2> QED
    BY <2>1, <2>2, <2>3, <1>1, <1>c
<1>3. ASSUME NEW c \in Callers \ Dispatchers, UpdateOrderStatus(c)
      PROVE  Control'
  <2>1. CASE TransitionUpdate(c) /\ fresh' = [fresh EXCEPT
               ![ocalls[c].id] = @ \/ ocalls[c].next = "pending"]
    <3> DEFINE o == ocalls[c].id
               next == ocalls[c].next
    <3>1. ocalls[c] \in TransitionCall
      BY <2>1, <1>c DEF TransitionUpdate, NoCall, AssignCall
    <3>2. o \in Orders /\ ocalls[c].row \in Row
      BY <3>1 DEF TransitionCall
    <3>3. PICK now :
            orders' = [orders EXCEPT ![o] =
              [Stamped(ocalls[c].row, next, now)
                 EXCEPT !.vehicle_id = orders[o].vehicle_id]]
      BY <2>1 DEF TransitionUpdate
    <3>4. /\ orders'[o].status = next
          /\ orders'[o].vehicle_id = orders[o].vehicle_id
          /\ \A x \in Orders \ {o} : orders'[x] = orders[x]
      BY <3>2, <3>3, <1>c DEF Stamped, Row
    <3>5. \A d \in Dispatchers : ocalls'[d] = ocalls[d]
      BY <2>1, <1>c, DispatcherCalls DEF TransitionUpdate, Return
    <3>6. /\ fresh' \in [Orders -> BOOLEAN]
          /\ \A x \in Orders \ {o} : fresh'[x] = fresh[x]
          /\ fresh'[o] = (fresh[o] \/ next = "pending")
      BY <2>1, <3>2, <1>c
    <3> QED
      BY <3>2, <3>4, <3>5, <3>6, <1>1
  <2>2. CASE UNCHANGED <<orders, fresh>> /\ \A d \in Dispatchers : ocalls'[d] = ocalls[d]
    BY <2>2, <1>1, <1>c
  <2> QED
    BY <2>1, <2>2, <1>3, <1>c, DispatcherCalls
    DEF UpdateOrderStatus, BeginTransition, UpdateFails, Return, historyVars
<1>4. CASE \/ \E w \in Workers \ Dispatchers : VehicleCaller(w)
           \/ Background
           \/ UNCHANGED vars
  <2>1. UNCHANGED <<orders, ocalls, fresh>>
    BY <1>4 DEF VehicleCaller, Background, Tick, vars, orderVars, historyVars
  <2> QED
    BY <2>1, <1>1, <1>c
<1> QED
  BY <1>2, <1>3, <1>4

-----------------------------------------------------------------------------

LEMMA EngineInitIInv == Init => EngineIInv
<1> SUFFICES ASSUME Init PROVE EngineIInv
  OBVIOUS
<1>1. OrderIInv
  BY OrderInitIInv DEF Init
<1>2. VehicleTypeOK
  BY DEF Init, VehicleInit, VehicleTypeOK
<1>3. EngineTypeOK
  BY <1>1, <1>2 DEF Init, EngineTypeOK, OrderIInv, Steps
<1>4. Shape /\ Mutex
  BY DispatcherCalls DEF Init, OrderInit, Shape, Mutex, Chosen
<1>5. Fresh /\ Matched
  BY DEF Init, OrderInit, NoOrderRow, Fresh, Matched, Looking
<1> QED
  BY <1>1, <1>3, <1>4, <1>5 DEF EngineIInv

LEMMA EngineNextIInv == EngineIInv /\ [Next]_vars => EngineIInv'
<1> SUFFICES ASSUME EngineIInv, [Next]_vars PROVE EngineIInv'
  OBVIOUS
<1>1. [OrderNext]_orderVars /\ [VehicleNext]_vehicleVars
  BY ServiceSteps DEF EngineIInv
<1>2. OrderIInv' /\ VehicleTypeOK'
  BY <1>1, OrderNextIInv, VehicleNextTypeOK DEF EngineIInv, EngineTypeOK
<1>3. Control'
  <2>1. ASSUME NEW d \in Dispatchers,
               (\E o \in Orders : DispatchOrder(d, o)) \/ DispatchStep(d)
        PROVE  Control'
    BY <2>1, QuietSteps, SearchSteps, AssignSteps DEF DispatchStep
  <2> QED
    BY <2>1, OtherSteps DEF Next
<1> QED
  BY <1>2, <1>3 DEF EngineIInv, EngineTypeOK, OrderIInv, Control, ControlTypeOK

\* The engine and the two services stay well typed.
THEOREM EngineTypeCorrect == Spec => []EngineTypeOK
<1>1. EngineIInv => EngineTypeOK
  BY DEF EngineIInv
<1> QED
  BY EngineInitIInv, EngineNextIInv, <1>1, PTL DEF Spec

\* One pending order is never given to two vehicles, however many requests to
\* dispatch it are made at once and whatever else happens to it meanwhile.
THEOREM AssignedOnce == Spec => []AssignedOncePerPending
<1>1. EngineIInv => AssignedOncePerPending
  BY DEF EngineIInv, Fresh, AssignedOncePerPending
<1> QED
  BY EngineInitIInv, EngineNextIInv, <1>1, PTL DEF Spec

\* The vehicle that is sent the command is the one the order is recorded
\* under.
THEOREM CommandMatches == Spec => []CommandMatchesOrder
<1>1. EngineIInv => CommandMatchesOrder
  BY DEF EngineIInv, Matched, CommandMatchesOrder
<1> QED
  BY EngineInitIInv, EngineNextIInv, <1>1, PTL DEF Spec

\* The timestamps stay in order with dispatch in the picture.
THEOREM EngineTimeline == Spec => []Timeline
<1>1. EngineIInv => Timeline
  BY DEF EngineIInv, OrderIInv, Timeline
<1> QED
  BY EngineInitIInv, EngineNextIInv, <1>1, PTL DEF Spec

\* Under Serial the cache agrees with the table with dispatch in the picture.
THEOREM EngineCacheAgrees == ASSUME Serial PROVE Spec => []CacheAgrees
<1>1. Init => CacheIInv
  BY DEF Init, VehicleInit, CacheIInv, VehicleTypeOK, OneCallEach, Agrees, Quiet
<1>2. EngineIInv /\ CacheIInv /\ [Next]_vars => CacheIInv'
  <2> SUFFICES ASSUME EngineIInv, CacheIInv, [Next]_vars PROVE CacheIInv'
    OBVIOUS
  <2>1. [VehicleNext]_vehicleVars
    BY ServiceSteps DEF EngineIInv
  <2>2. VehicleTypeOK'
    BY <2>1, VehicleNextTypeOK DEF CacheIInv
  <2> QED
    BY <2>1, <2>2, CacheStep
<1>3. CacheIInv => CacheAgrees
  BY DEF CacheIInv, CacheAgrees, Agrees
<1> QED
  BY EngineInitIInv, EngineNextIInv, <1>1, <1>2, <1>3, PTL DEF Spec

-----------------------------------------------------------------------------
(* The life of an order.                                                   *)

TakesTurns ==
  /\ \A c1, c2 \in Callers :
       /\ ocalls[c1] # NoCall
       /\ ocalls[c2] # NoCall
       /\ ocalls[c1].id = ocalls[c2].id
       => c1 = c2
  /\ \A d \in Dispatchers : pc[d] \in Looking => Unclaimed(job[d].order)

StillAllowed ==
  /\ \A c \in Callers :
       ocalls[c].op = "transition" =>
         CanTransitionTo(orders[ocalls[c].id].status, ocalls[c].next)
  /\ \A d \in Dispatchers :
       pc[d] \in Looking \cup {"assign"} =>
         orders[job[d].order].status = "pending"

LifeIInv == EngineIInv /\ TakesTurns /\ StillAllowed

-----------------------------------------------------------------------------

\* What a dispatcher's step does to the order table and to who considers what.
LEMMA DispatchEffect ==
  ASSUME EngineIInv, NEW d \in Dispatchers,
         (\E o \in Orders : DispatchOrder(d, o)) \/ DispatchStep(d),
         ~AssignOrder(d)
  PROVE  /\ UNCHANGED orders
         /\ \A x \in Dispatchers \ {d} : pc'[x] = pc[x] /\ job'[x] = job[x]
         /\ \/ /\ ocalls' = ocalls
               /\ \/ pc'[d] \notin Looking \cup {"assign"}
                  \/ /\ pc[d] \in Looking /\ pc'[d] \in Looking
                     /\ job'[d].order = job[d].order
                  \/ /\ pc'[d] \in Looking
                     /\ job'[d].order = job[d].order
                     /\ orders[job[d].order].status = "pending"
                     /\ OneCallPerOrder => Unclaimed(job[d].order)
            \/ /\ pc[d] \in Looking /\ pc'[d] = "assign"
               /\ job'[d].order = job[d].order
               /\ \E call \in AssignCall :
                    /\ call.id = job[d].order
                    /\ ocalls' = [ocalls EXCEPT ![d] = call]
<1>t. /\ pc \in [Dispatchers -> Steps]
      /\ job \in [Dispatchers -> Job \cup {NoJob}]
      /\ clock \in Nat
  BY DEF EngineIInv, EngineTypeOK, OrderTypeOK
<1>j. pc[d] # "idle" => job[d] \in Job
  BY DEF EngineIInv, Shape
<1>l. Leave(d) => /\ pc'[d] \notin Looking \cup {"assign"}
                  /\ \A x \in Dispatchers \ {d} : pc'[x] = pc[x] /\ job'[x] = job[x]
  BY <1>t DEF Leave, Goto, Looking
<1>1. CASE \E o \in Orders : DispatchOrder(d, o)
  BY <1>1, <1>t DEF DispatchOrder, Goto, orderVars, Looking
<1>2. CASE Lock(d) \/ SetEnRoute(d) \/ SettingStatus(d)
  BY <1>2, <1>t DEF Lock, SetEnRoute, SettingStatus, Goto, orderVars, Looking
<1>3. CASE GetOrder(d)
  BY <1>3, <1>t, <1>l DEF GetOrder, Goto, orderVars, Looking
<1>4. CASE GetKeys(d)
  <2>1. job[d] \in Job
    BY <1>4, <1>j DEF GetKeys
  <2> QED
    BY <1>4, <1>t, <2>1 DEF GetKeys, Goto, orderVars, Looking, Job
<1>5. CASE MGet(d) \/ ListVehicles(d)
  <2>0. Shape
    BY DEF EngineIInv
  <2>1. pc[d] \in Looking /\ job[d] \in Job
    BY <1>5, <1>j, <2>0, SearchOutcome DEF Looking
  <2>2. CASE Leave(d) /\ UNCHANGED orderVars
    BY <2>2, <1>l DEF orderVars
  <2>3. CASE Goto(d, "list") /\ UNCHANGED <<orderVars, mu, job>>
    BY <2>1, <2>3, <1>t DEF Goto, orderVars, Looking
  <2>4. ASSUME NEW v \in Vehicles, BeginAssign(d, job[d].order, v),
               job' = [job EXCEPT ![d].best = v], Goto(d, "assign")
        PROVE  /\ UNCHANGED orders
               /\ \A x \in Dispatchers \ {d} : pc'[x] = pc[x] /\ job'[x] = job[x]
               /\ pc'[d] = "assign"
               /\ job'[d].order = job[d].order
               /\ \E call \in AssignCall :
                    /\ call.id = job[d].order
                    /\ ocalls' = [ocalls EXCEPT ![d] = call]
    <3> DEFINE call == [op |-> "assign", id |-> job[d].order, vehicle |-> v,
                        since |-> clock]
    <3>1. call \in AssignCall /\ call.id = job[d].order
      BY <2>1, <1>t DEF AssignCall, Job
    <3>2. ocalls' = [ocalls EXCEPT ![d] = call] /\ UNCHANGED orders
      BY <2>4 DEF BeginAssign
    <3> HIDE DEF call
    <3>3. job'[d].order = job[d].order
      BY <2>1, <2>4, <1>t DEF Job
    <3> QED
      BY <3>1, <3>2, <3>3, <2>4, <1>t DEF Goto
  <2> QED
    BY <1>5, <2>0, <2>1, <2>2, <2>3, <2>4, SearchOutcome
<1>6. CASE Publish(d)
  BY <1>6, <1>l DEF Publish, orderVars
<1> QED
  BY <1>1, <1>2, <1>3, <1>4, <1>5, <1>6 DEF DispatchStep

\* Assign touches the order of the call, and no other; a dispatcher that has
\* called it no longer considers any.
LEMMA AssignEffect ==
  ASSUME EngineIInv, NEW d \in Dispatchers, AssignOrder(d)
  PROVE  /\ pc[d] = "assign"
         /\ ocalls[d] # NoCall
         /\ ocalls[d].id = job[d].order
         /\ job[d].order \in Orders
         /\ \A o \in Orders \ {job[d].order} : orders'[o] = orders[o]
         /\ \/ orders'[job[d].order] = orders[job[d].order]
            \/ orders'[job[d].order].status = "assigned"
         /\ ocalls' = [ocalls EXCEPT ![d] = NoCall]
         /\ pc'[d] \notin Looking \cup {"assign"}
         /\ \A x \in Dispatchers \ {d} : pc'[x] = pc[x] /\ job'[x] = job[x]
<1>t. /\ pc \in [Dispatchers -> Steps]
      /\ job \in [Dispatchers -> Job \cup {NoJob}]
      /\ orders \in [Orders -> Row]
  BY DEF EngineIInv, EngineTypeOK, OrderTypeOK
<1>1. /\ pc[d] = "assign"
      /\ job[d] \in Job
      /\ ocalls[d].id = job[d].order
      /\ ocalls[d].op = "assign"
  BY DEF AssignOrder, EngineIInv, Shape
<1>2. job[d].order \in Orders /\ ocalls[d] # NoCall
  BY <1>1 DEF Job, NoCall
<1>3. ocalls' = [ocalls EXCEPT ![d] = NoCall]
  BY DEF AssignOrder, AssignUpdate, UpdateFails, Return
<1>4. /\ \A o \in Orders \ {job[d].order} : orders'[o] = orders[o]
      /\ \/ orders'[job[d].order] = orders[job[d].order]
         \/ orders'[job[d].order].status = "assigned"
  <2>1. CASE AssignUpdate(d)
    <3>1. PICK now :
            orders' = [orders EXCEPT ![job[d].order] =
              AssignedRow(orders[job[d].order], ocalls[d].vehicle, now)]
      BY <2>1, <1>1 DEF AssignUpdate
    <3> QED
      BY <3>1, <1>2, <1>t DEF AssignedRow, Row
  <2>2. CASE UpdateFails(d)
    BY <2>2 DEF UpdateFails
  <2> QED
    BY <2>1, <2>2 DEF AssignOrder
<1>5. /\ pc'[d] \notin Looking \cup {"assign"}
      /\ \A x \in Dispatchers \ {d} : pc'[x] = pc[x] /\ job'[x] = job[x]
  <2>1. \/ pc' = [pc EXCEPT ![d] = "status"] /\ job' = job
        \/ pc' = [pc EXCEPT ![d] = "idle"] /\ job' = [job EXCEPT ![d] = NoJob]
    BY DEF AssignOrder, Leave, Goto
  <2> QED
    BY <2>1, <1>t DEF Looking
<1> QED
  BY <1>1, <1>2, <1>3, <1>4, <1>5

\* A status request begins on an order it may change, or changes it, or gives
\* up.
LEMMA RequestEffect ==
  ASSUME EngineIInv, NEW c \in Callers \ Dispatchers, UpdateOrderStatus(c)
  PROVE  /\ UNCHANGED engineVars
         /\ \/ \E o \in Orders, next \in OrderStatus :
                 /\ MayStart(c, o)
                 /\ OneCallPerOrder => ~Considered(o)
                 /\ CanTransitionTo(orders[o].status, next)
                 /\ orders' = orders
                 /\ \E call \in TransitionCall :
                      /\ call.id = o /\ call.next = next
                      /\ ocalls' = [ocalls EXCEPT ![c] = call]
            \/ /\ ocalls[c] # NoCall
               /\ ocalls[c].op = "transition"
               /\ ocalls[c].id \in Orders
               /\ \A o \in Orders \ {ocalls[c].id} : orders'[o] = orders[o]
               /\ orders'[ocalls[c].id].status = ocalls[c].next
               /\ ocalls[c].next \in OrderStatus
               /\ ocalls' = [ocalls EXCEPT ![c] = NoCall]
            \/ /\ orders' = orders
               /\ ocalls[c] # NoCall
               /\ ocalls' = [ocalls EXCEPT ![c] = NoCall]
<1>t. /\ orders \in [Orders -> Row]
      /\ ocalls \in [Callers -> {NoCall} \cup TransitionCall \cup AssignCall]
      /\ clock \in Nat
  BY DEF EngineIInv, EngineTypeOK, OrderTypeOK
<1>1. UNCHANGED engineVars
  BY DEF UpdateOrderStatus
<1>2. ASSUME NEW o \in Orders, NEW next \in OrderStatus,
             BeginTransition(c, o, next), OneCallPerOrder => ~Considered(o)
      PROVE  /\ MayStart(c, o)
             /\ CanTransitionTo(orders[o].status, next)
             /\ orders' = orders
             /\ \E call \in TransitionCall :
                  /\ call.id = o /\ call.next = next
                  /\ ocalls' = [ocalls EXCEPT ![c] = call]
  <2> DEFINE call == [op |-> "transition", id |-> o, next |-> next,
                      row |-> orders[o], since |-> clock]
  <2>1. call \in TransitionCall /\ call.id = o /\ call.next = next
    BY <1>t DEF TransitionCall
  <2>2. ocalls' = [ocalls EXCEPT ![c] = call]
    BY <1>2 DEF BeginTransition
  <2> HIDE DEF call
  <2> QED
    BY <1>2, <2>1, <2>2 DEF BeginTransition
<1>3. ASSUME TransitionUpdate(c)
      PROVE  /\ ocalls[c] # NoCall
             /\ ocalls[c].op = "transition"
             /\ ocalls[c].id \in Orders
             /\ \A o \in Orders \ {ocalls[c].id} : orders'[o] = orders[o]
             /\ orders'[ocalls[c].id].status = ocalls[c].next
             /\ ocalls[c].next \in OrderStatus
             /\ ocalls' = [ocalls EXCEPT ![c] = NoCall]
  <2> DEFINE o == ocalls[c].id
  <2>1. ocalls[c] \in TransitionCall /\ ocalls[c] # NoCall
    BY <1>3, <1>t DEF TransitionUpdate, NoCall, AssignCall
  <2>2. o \in Orders /\ ocalls[c].row \in Row /\ ocalls[c].next \in OrderStatus
    BY <2>1 DEF TransitionCall
  <2>3. PICK now :
          orders' = [orders EXCEPT ![o] =
            [Stamped(ocalls[c].row, ocalls[c].next, now)
               EXCEPT !.vehicle_id = orders[o].vehicle_id]]
    BY <1>3 DEF TransitionUpdate
  <2>4. /\ orders'[o].status = ocalls[c].next
        /\ \A x \in Orders \ {o} : orders'[x] = orders[x]
    BY <2>2, <2>3, <1>t DEF Stamped, Row
  <2> QED
    BY <1>3, <2>1, <2>2, <2>4 DEF TransitionUpdate, Return
<1> QED
  BY <1>1, <1>2, <1>3 DEF UpdateOrderStatus, UpdateFails, Return

\* Everybody else leaves the order table alone, or creates an order.
LEMMA RestEffect ==
  ASSUME EngineIInv,
         \/ \E o \in Orders : CreateOrder(o)
         \/ \E w \in Workers \ Dispatchers : VehicleCaller(w)
         \/ Background
         \/ UNCHANGED vars
  PROVE  /\ UNCHANGED engineVars /\ UNCHANGED ocalls
         /\ \/ UNCHANGED orders
            \/ \E o \in Orders :
                 /\ orders[o].status = "absent"
                 /\ orders'[o].status = "pending"
                 /\ \A x \in Orders \ {o} : orders'[x] = orders[x]
<1>t. orders \in [Orders -> Row]
  BY DEF EngineIInv, EngineTypeOK, OrderTypeOK
<1>1. ASSUME NEW o \in Orders, CreateOrder(o)
      PROVE  /\ UNCHANGED engineVars /\ UNCHANGED ocalls
             /\ orders[o].status = "absent"
             /\ orders'[o].status = "pending"
             /\ \A x \in Orders \ {o} : orders'[x] = orders[x]
  BY <1>1, <1>t DEF CreateOrder, Create, Exists, Row
<1>2. CASE \E w \in Workers \ Dispatchers : VehicleCaller(w)
  BY <1>2 DEF VehicleCaller, orderVars
<1>3. CASE Background
  BY <1>3 DEF Background, Tick, orderVars
<1>4. CASE UNCHANGED vars
  BY <1>4 DEF vars, engineVars
<1> QED
  BY <1>1, <1>2, <1>3, <1>4

-----------------------------------------------------------------------------

\* No step can begin to change an order that is settled.
LEMMA SettledStep ==
  ASSUME EngineIInv, [Next]_vars, NEW o \in Orders, Settled(o)
  PROVE  Settled(o)' /\ orders'[o] = orders[o]
<1>t. /\ ocalls \in [Callers -> {NoCall} \cup TransitionCall \cup AssignCall]
      /\ orders[o].status \in {"delivered", "cancelled"}
      /\ \A c \in Callers : ocalls[c] # NoCall => ocalls[c].id # o
      /\ \A d \in Dispatchers : pc[d] \in Looking => job[d].order # o
  BY DEF EngineIInv, EngineTypeOK, OrderTypeOK, Settled, Terminal,
      Unclaimed, Considered, Looking
<1>s. ASSUME orders'[o] = orders[o],
             \A c \in Callers : ocalls'[c] # NoCall => ocalls'[c].id # o,
             \A d \in Dispatchers : pc'[d] \in Looking => job'[d].order # o
      PROVE  Settled(o)' /\ orders'[o] = orders[o]
  BY <1>s DEF Settled, Unclaimed, Considered, Looking
<1>1. ASSUME NEW d \in Dispatchers,
             (\E x \in Orders : DispatchOrder(d, x)) \/ DispatchStep(d),
             ~AssignOrder(d)
      PROVE  Settled(o)' /\ orders'[o] = orders[o]
  BY <1>1, <1>s, <1>t, DispatchEffect, DispatcherCalls DEF Looking
<1>2. ASSUME NEW d \in Dispatchers, AssignOrder(d)
      PROVE  Settled(o)' /\ orders'[o] = orders[o]
  BY <1>2, <1>s, <1>t, AssignEffect, DispatcherCalls
<1>3. ASSUME NEW c \in Callers \ Dispatchers, UpdateOrderStatus(c)
      PROVE  Settled(o)' /\ orders'[o] = orders[o]
  <2>1. \A next : ~CanTransitionTo(orders[o].status, next)
    BY <1>t DEF CanTransitionTo, ValidTransitions
  <2> QED
    BY <2>1, <1>3, <1>s, <1>t, RequestEffect DEF engineVars
<1>4. CASE \/ \E x \in Orders : CreateOrder(x)
           \/ \E w \in Workers \ Dispatchers : VehicleCaller(w)
           \/ Background
           \/ UNCHANGED vars
  BY <1>4, <1>s, <1>t, RestEffect DEF engineVars
<1> QED
  BY <1>1, <1>2, <1>3, <1>4 DEF Next

\* Only a request that began before an order was delivered or cancelled can
\* still change it.
THEOREM SettledStays == Spec => SettledForever
<1>1. EngineIInv /\ [Next]_vars =>
        [\A o \in Orders : Settled(o) => Settled(o)' /\ orders'[o] = orders[o]]_vars
  BY SettledStep
<1> QED
  BY EngineInitIInv, EngineNextIInv, <1>1, PTL DEF Spec, SettledForever

-----------------------------------------------------------------------------

LEMMA LifeInit == Init => LifeIInv
<1>1. Init => TakesTurns /\ StillAllowed
  BY DispatcherCalls
  DEF Init, OrderInit, TakesTurns, StillAllowed, NoCall, Looking
<1> QED
  BY <1>1, EngineInitIInv DEF LifeIInv

\* When requests about one order take turns, no step of another actor comes
\* between a request's check and its UPDATE on the same order; and the step
\* itself is a step of OrderLifecycle.
LEMMA LifeStep ==
  ASSUME OneCallPerOrder, LifeIInv, [Next]_vars
  PROVE  /\ TakesTurns'
         /\ StillAllowed'
         /\ \/ \A o \in Orders : orders'[o].status = orders[o].status
            \/ \E o \in Orders :
                 /\ \A x \in Orders \ {o} : orders'[x] = orders[x]
                 /\ \/ /\ orders[o].status = "absent"
                       /\ orders'[o].status = "pending"
                    \/ /\ CanTransitionTo(orders[o].status, orders'[o].status)
                       /\ orders'[o].status \in OrderStatus
<1>t. /\ EngineIInv /\ TakesTurns /\ StillAllowed
      /\ ocalls \in [Callers -> {NoCall} \cup TransitionCall \cup AssignCall]
      /\ NoCall.op = "none"
  BY DEF LifeIInv, EngineIInv, EngineTypeOK, OrderTypeOK, NoCall
<1>j. /\ \A d \in Dispatchers :
           pc[d] \in Looking \cup {"assign"} => job[d].order \in Orders
      /\ \A d \in Dispatchers :
           /\ pc[d] = "assign" => /\ ocalls[d] # NoCall
                                  /\ ocalls[d].id = job[d].order
                                  /\ ocalls[d].op = "assign"
           /\ pc[d] # "assign" => ocalls[d] = NoCall
      /\ \A c \in Callers : ocalls[c] # NoCall => ocalls[c].id \in Orders
      /\ \A d, x \in Dispatchers :
           /\ pc[d] \in Looking \cup {"assign"}
           /\ pc[x] \in Looking \cup {"assign"}
           => d = x
  BY <1>t DEF EngineIInv, Shape, Mutex, Job, Looking, NoCall,
              TransitionCall, AssignCall
<1>1. ASSUME NEW d \in Dispatchers,
             (\E x \in Orders : DispatchOrder(d, x)) \/ DispatchStep(d),
             ~AssignOrder(d)
      PROVE  TakesTurns' /\ StillAllowed' /\ orders' = orders
  <2>0. d \in Callers
    BY DispatcherCalls
  <2>1. /\ orders' = orders
        /\ \A x \in Dispatchers \ {d} : pc'[x] = pc[x] /\ job'[x] = job[x]
    BY <1>1, <1>t, DispatchEffect
  <2>2. CASE /\ ocalls' = ocalls
             /\ \/ pc'[d] \notin Looking \cup {"assign"}
                \/ /\ pc[d] \in Looking /\ pc'[d] \in Looking
                   /\ job'[d].order = job[d].order
                \/ /\ pc'[d] \in Looking
                   /\ job'[d].order = job[d].order
                   /\ orders[job[d].order].status = "pending"
                   /\ Unclaimed(job[d].order)
    BY <2>1, <2>2, <1>t DEF TakesTurns, StillAllowed, Unclaimed, Looking
  <2>3. CASE /\ pc[d] \in Looking /\ pc'[d] = "assign"
             /\ job'[d].order = job[d].order
             /\ \E call \in AssignCall :
                  /\ call.id = job[d].order
                  /\ ocalls' = [ocalls EXCEPT ![d] = call]
    <3>1. PICK call \in AssignCall :
            /\ call.id = job[d].order
            /\ ocalls' = [ocalls EXCEPT ![d] = call]
      BY <2>3
    <3>2. call.op = "assign"
      BY DEF AssignCall
    <3>3. ocalls'[d] = call /\ \A c \in Callers \ {d} : ocalls'[c] = ocalls[c]
      BY <3>1, <2>0, <1>t
    <3>4. \A c \in Callers : ocalls[c] # NoCall => ocalls[c].id # job[d].order
      BY <2>3, <1>t DEF TakesTurns, Unclaimed
    <3>5. \A x \in Dispatchers \ {d} : pc'[x] \notin Looking
      BY <2>1, <2>3, <1>j
    <3>6. TakesTurns'
      BY <2>3, <3>1, <3>3, <3>4, <3>5, <1>t DEF TakesTurns, Looking
    <3>7. StillAllowed'
      BY <2>1, <2>3, <3>2, <3>3, <1>t DEF StillAllowed
    <3> QED
      BY <2>1, <3>6, <3>7
  <2> QED
    BY <1>1, <1>t, <2>1, <2>2, <2>3, DispatchEffect
<1>2. ASSUME NEW d \in Dispatchers, AssignOrder(d)
      PROVE  /\ TakesTurns' /\ StillAllowed'
             /\ \/ \A o \in Orders : orders'[o] = orders[o]
                \/ /\ orders[job[d].order].status = "pending"
                   /\ orders'[job[d].order].status = "assigned"
             /\ job[d].order \in Orders
             /\ \A x \in Orders \ {job[d].order} : orders'[x] = orders[x]
  <2> DEFINE o == job[d].order
  <2>1. /\ pc[d] = "assign"
        /\ ocalls[d] # NoCall /\ ocalls[d].id = o
        /\ o \in Orders
        /\ \A x \in Orders \ {o} : orders'[x] = orders[x]
        /\ orders'[o] = orders[o] \/ orders'[o].status = "assigned"
        /\ ocalls' = [ocalls EXCEPT ![d] = NoCall]
        /\ pc'[d] \notin Looking \cup {"assign"}
        /\ \A x \in Dispatchers \ {d} : pc'[x] = pc[x] /\ job'[x] = job[x]
    BY <1>2, <1>t, AssignEffect
  <2>2. orders[o].status = "pending"
    BY <2>1, <1>t DEF StillAllowed
  <2>3. /\ ocalls'[d] = NoCall
        /\ \A c \in Callers \ {d} : ocalls'[c] = ocalls[c]
    BY <2>1, <1>t, DispatcherCalls
  <2>4. \A c \in Callers \ {d} : ocalls[c] # NoCall => ocalls[c].id # o
    BY <2>1, <1>t, DispatcherCalls DEF TakesTurns
  <2>5. \A x \in Dispatchers : pc'[x] \notin Looking \cup {"assign"}
    BY <2>1, <1>j
  <2>6. TakesTurns'
    BY <2>3, <2>5, <1>t DEF TakesTurns
  <2>7. StillAllowed'
    BY <2>1, <2>3, <2>4, <2>5, <1>t, <1>j DEF StillAllowed
  <2> QED
    BY <2>1, <2>2, <2>6, <2>7
<1>3. ASSUME NEW c \in Callers \ Dispatchers, UpdateOrderStatus(c)
      PROVE  /\ TakesTurns' /\ StillAllowed'
             /\ \/ orders' = orders
                \/ \E o \in Orders :
                     /\ \A x \in Orders \ {o} : orders'[x] = orders[x]
                     /\ CanTransitionTo(orders[o].status, orders'[o].status)
                     /\ orders'[o].status \in OrderStatus
  <2>1. pc' = pc /\ job' = job
    BY <1>3, <1>t, RequestEffect DEF engineVars
  <2>2. ASSUME NEW o \in Orders, NEW next \in OrderStatus, MayStart(c, o),
               ~Considered(o), CanTransitionTo(orders[o].status, next),
               orders' = orders, NEW call \in TransitionCall,
               call.id = o, call.next = next,
               ocalls' = [ocalls EXCEPT ![c] = call]
        PROVE  TakesTurns' /\ StillAllowed'
    <3>1. ocalls'[c] = call /\ \A x \in Callers \ {c} : ocalls'[x] = ocalls[x]
      BY <2>2, <1>t
    <3>2. \A x \in Callers : ocalls[x] # NoCall => ocalls[x].id # o
      BY <2>2 DEF MayStart, Unclaimed
    <3>3. \A d \in Dispatchers : pc[d] \in Looking => job[d].order # o
      BY <2>2 DEF Considered, Looking
    <3>4. TakesTurns'
      BY <2>1, <2>2, <3>1, <3>2, <3>3, <1>t DEF TakesTurns, Unclaimed
    <3>5. StillAllowed'
      BY <2>1, <2>2, <3>1, <1>t DEF StillAllowed
    <3> QED
      BY <3>4, <3>5
  <2>3. CASE ocalls[c] # NoCall /\ ocalls' = [ocalls EXCEPT ![c] = NoCall]
    <3> DEFINE o == ocalls[c].id
    <3>1. ocalls'[c] = NoCall /\ \A x \in Callers \ {c} : ocalls'[x] = ocalls[x]
      BY <2>3, <1>t
    <3>2. \A x \in Callers \ {c} : ocalls[x] # NoCall => ocalls[x].id # o
      BY <2>3, <1>t DEF TakesTurns
    <3>3. \A d \in Dispatchers : pc[d] \in Looking \cup {"assign"} => job[d].order # o
      <4>1. ASSUME NEW d \in Dispatchers, pc[d] \in Looking
            PROVE  job[d].order # o
        BY <4>1, <2>3, <1>t DEF TakesTurns, Unclaimed
      <4>2. ASSUME NEW d \in Dispatchers, pc[d] = "assign"
            PROVE  job[d].order # o
        BY <4>2, <3>2, <1>j, DispatcherCalls
      <4> QED
        BY <4>1, <4>2
    <3>4. TakesTurns'
      BY <2>1, <3>1, <1>t DEF TakesTurns, Unclaimed
    <3>5. ASSUME \A x \in Orders \ {o} : orders'[x] = orders[x]
          PROVE  StillAllowed'
      BY <3>5, <2>1, <3>1, <3>2, <3>3, <1>t, <1>j DEF StillAllowed
    <3>6. CASE orders' = orders
      BY <3>4, <3>5, <3>6
    <3>7. CASE /\ ocalls[c].op = "transition" /\ o \in Orders
               /\ \A x \in Orders \ {o} : orders'[x] = orders[x]
               /\ orders'[o].status = ocalls[c].next
               /\ ocalls[c].next \in OrderStatus
      <4>1. CanTransitionTo(orders[o].status, orders'[o].status)
        BY <3>7, <1>t DEF StillAllowed
      <4> QED
        BY <4>1, <3>4, <3>5, <3>7
    <3> QED
      BY <3>6, <3>7, <1>3, <1>t, <2>3, RequestEffect
  <2> QED
    BY <2>2, <2>3, <1>3, <1>t, RequestEffect
<1>4. ASSUME \/ \E o \in Orders : CreateOrder(o)
             \/ \E w \in Workers \ Dispatchers : VehicleCaller(w)
             \/ Background
             \/ UNCHANGED vars
      PROVE  /\ TakesTurns' /\ StillAllowed'
             /\ \/ orders' = orders
                \/ \E o \in Orders :
                     /\ \A x \in Orders \ {o} : orders'[x] = orders[x]
                     /\ orders[o].status = "absent"
                     /\ orders'[o].status = "pending"
  <2>1. /\ pc' = pc /\ job' = job /\ ocalls' = ocalls
        /\ \/ orders' = orders
           \/ \E o \in Orders :
                /\ \A x \in Orders \ {o} : orders'[x] = orders[x]
                /\ orders[o].status = "absent"
                /\ orders'[o].status = "pending"
    BY <1>4, <1>t, RestEffect DEF engineVars
  <2>2. TakesTurns'
    BY <2>1, <1>t DEF TakesTurns, Unclaimed
  <2>3. ASSUME NEW o \in Orders, orders[o].status = "absent",
               \A x \in Orders \ {o} : orders'[x] = orders[x]
        PROVE  StillAllowed'
    <3>1. \A next : ~CanTransitionTo(orders[o].status, next)
      BY <2>3 DEF CanTransitionTo, ValidTransitions
    <3>2. \A c \in Callers : ocalls[c].op = "transition" =>
            ocalls[c].id \in Orders \ {o}
      BY <2>3, <3>1, <1>t, <1>j DEF StillAllowed
    <3>3. \A d \in Dispatchers : pc[d] \in Looking \cup {"assign"} =>
            job[d].order \in Orders \ {o}
      BY <2>3, <1>t, <1>j DEF StillAllowed
    <3> QED
      BY <2>1, <2>3, <3>2, <3>3, <1>t DEF StillAllowed
  <2>4. orders' = orders => StillAllowed'
    BY <2>1, <1>t DEF StillAllowed
  <2> QED
    BY <2>1, <2>2, <2>3, <2>4
<1>5. CASE \E d \in Dispatchers :
             (\E x \in Orders : DispatchOrder(d, x)) \/ DispatchStep(d)
  <2>1. PICK d \in Dispatchers :
          (\E x \in Orders : DispatchOrder(d, x)) \/ DispatchStep(d)
    BY <1>5
  <2>2. CASE AssignOrder(d)
    <3>1. CanTransitionTo("pending", "assigned") /\ "assigned" \in OrderStatus
      BY DEF CanTransitionTo, ValidTransitions, OrderStatus
    <3> QED
      BY <2>2, <1>2, <3>1
  <2>3. CASE ~AssignOrder(d)
    BY <2>1, <2>3, <1>1
  <2> QED
    BY <2>2, <2>3
<1>6. CASE \E c \in Callers \ Dispatchers : UpdateOrderStatus(c)
  BY <1>6, <1>3
<1>7. CASE \/ \E o \in Orders : CreateOrder(o)
           \/ \E w \in Workers \ Dispatchers : VehicleCaller(w)
           \/ Background
           \/ UNCHANGED vars
  BY <1>7, <1>4
<1> QED
  BY <1>5, <1>6, <1>7 DEF Next

\* Such a step is one of the order lifecycle, or none.
LEMMA LifecycleStep ==
  ASSUME OneCallPerOrder, LifeIInv, [Next]_vars
  PROVE  [Lifecycle!Next]_([o \in Orders |-> orders[o].status])
<1> DEFINE st == [o \in Orders |-> orders[o].status]
<1>1. CASE \A o \in Orders : orders'[o].status = orders[o].status
  BY <1>1
<1>2. ASSUME NEW o \in Orders,
             \A x \in Orders \ {o} : orders'[x] = orders[x],
             \/ /\ orders[o].status = "absent"
                /\ orders'[o].status = "pending"
             \/ /\ CanTransitionTo(orders[o].status, orders'[o].status)
                /\ orders'[o].status \in OrderStatus
      PROVE  Lifecycle!Next
  <2>1. st' = [st EXCEPT ![o] = orders'[o].status]
    BY <1>2
  <2>2. CASE orders[o].status = "absent" /\ orders'[o].status = "pending"
    BY <2>1, <2>2 DEF Lifecycle!Next, Lifecycle!Create
  <2>3. CASE /\ CanTransitionTo(orders[o].status, orders'[o].status)
             /\ orders'[o].status \in OrderStatus
    BY <2>1, <2>3
    DEF Lifecycle!Next, Lifecycle!Move, Lifecycle!CanTransitionTo,
        Lifecycle!ValidTransitions, Lifecycle!OrderStatus,
        CanTransitionTo, ValidTransitions, OrderStatus
  <2> QED
    BY <1>2, <2>2, <2>3
<1> QED
  BY <1>1, <1>2, LifeStep

\* When requests about one order take turns the system implements the order
\* lifecycle: every order is created pending and follows the transition table.
THEOREM LifecycleFollowed ==
  ASSUME OneCallPerOrder PROVE Spec => FollowsLifecycle
<1> DEFINE st == [o \in Orders |-> orders[o].status]
<1>1. Init => Lifecycle!Init
  BY DEF Init, OrderInit, NoOrderRow, Lifecycle!Init
<1>2. LifeIInv /\ [Next]_vars => LifeIInv'
  BY EngineNextIInv, LifeStep DEF LifeIInv
<1>3. LifeIInv /\ [Next]_vars => [Lifecycle!Next]_st
  BY LifecycleStep
<1> QED
  BY LifeInit, <1>1, <1>2, <1>3, PTL DEF Spec, FollowsLifecycle, Lifecycle!Spec

-----------------------------------------------------------------------------
(* Bookings.                                                               *)

BusyEverywhere(v) ==
  /\ db[v].status \notin Available
  /\ cache[v].status \notin Available
  /\ \A w \in Workers :
       vcalls[w] # NoVehicleCall /\ vcalls[w].id = v =>
         vcalls[w].entry.status \notin Available

\* A dispatcher has assigned v and has not finished setting its status.
Settling(v) ==
  \E d \in Dispatchers : pc[d] \in {"status", "setting"} /\ job[d].best = v

SettingCalls ==
  \A d \in Dispatchers :
    IF pc[d] = "setting"
    THEN /\ vcalls[d] # NoVehicleCall
         /\ vcalls[d].id = job[d].best
         /\ vcalls[d].step \in {"statusGet", "statusSet"}
         /\ vcalls[d].entry.status = "en_route"
    ELSE vcalls[d] = NoVehicleCall

BookedOK(v) == booked[v] => Registered(v) /\ (Settling(v) \/ BusyEverywhere(v))

ChosenOK ==
  \A d \in Dispatchers :
    /\ pc[d] \in Chosen => Registered(job[d].best)
    /\ pc[d] = "assign" => ~booked[job[d].best]

BookInv ==
  /\ SettingCalls
  /\ \A v \in Vehicles : BookedOK(v)
  /\ ChosenOK

BookIInv == EngineIInv /\ CacheIInv /\ BookInv

-----------------------------------------------------------------------------

\* Nothing but its registration or a status report makes a busy vehicle
\* available: every other writer copies a status that is not.
LEMMA BusyStays ==
  ASSUME Serial, VehicleTypeOK, NEW v \in Vehicles, BusyEverywhere(v),
         \/ \E u \in Vehicles : Expire(u)
         \/ \E u \in Vehicles \ {v} : Register(u)
         \/ \E w \in Workers, u \in Vehicles, r \in Reports :
              UpdateTelemetry(w, u, r)
         \/ \E w \in Workers, u \in Vehicles : GetVehicle(w, u)
         \/ \E w \in Workers : CallStep(w)
         \/ \E w \in Workers, u \in Vehicles, s \in VehicleStatus :
              SetStatus(w, u, s) /\ (u = v => s \notin Available)
  PROVE  BusyEverywhere(v)'
<1>t. /\ db \in [Vehicles -> VehicleRow \cup {Absent}]
      /\ cache \in [Vehicles -> CacheEntry \cup {Absent}]
      /\ vcalls \in [Workers -> VehicleCall \cup {NoVehicleCall}]
      /\ \A w \in Workers : vcalls[w] # NoVehicleCall => vcalls[w].id \in Vehicles
  BY CallType DEF VehicleTypeOK
<1>f. /\ ~RedisFaults /\ ~DBFaults
      /\ \A u : CacheGet(u) = {cache[u]}
      /\ \A u, entry : CacheSet(u, entry) => cache' = [cache EXCEPT ![u] = entry]
      /\ Absent.status = "absent"
      /\ "absent" \notin Available /\ BlankStatus \notin Available
      /\ \A s : s \notin Available => HeardFrom(s) \notin Available
  BY DEF Serial, CacheGet, CacheSet, Absent, Available, BlankStatus, HeardFrom
<1>b. /\ db[v].status \notin Available
      /\ cache[v].status \notin Available
      /\ \A w \in Workers :
           vcalls[w] # NoVehicleCall /\ vcalls[w].id = v =>
             vcalls[w].entry.status \notin Available
  BY DEF BusyEverywhere
<1>1. ASSUME NEW u \in Vehicles, Expire(u) PROVE BusyEverywhere(v)'
  BY <1>1, <1>t, <1>f, <1>b DEF Expire, BusyEverywhere
<1>2. ASSUME NEW u \in Vehicles \ {v}, Register(u) PROVE BusyEverywhere(v)'
  BY <1>2, <1>t, <1>f, <1>b DEF Register, BusyEverywhere
<1>3. ASSUME NEW w \in Workers, NEW u \in Vehicles, NEW r \in Reports,
             UpdateTelemetry(w, u, r)
      PROVE  BusyEverywhere(v)'
  <2> DEFINE status == IF cache[u] = Absent THEN BlankStatus ELSE cache[u].status
  <2>1. /\ db' = db /\ cache' = cache
        /\ vcalls' = [vcalls EXCEPT ![w] =
             [step |-> "telemetrySet", id |-> u,
              entry |-> [status |-> HeardFrom(status), report |-> r]]]
    BY <1>3, <1>f DEF UpdateTelemetry, Continue
  <2>2. u = v => HeardFrom(status) \notin Available
    BY <1>f, <1>b
  <2> QED
    BY <2>1, <2>2, <1>t, <1>b DEF BusyEverywhere
<1>4. ASSUME NEW w \in Workers, NEW u \in Vehicles, GetVehicle(w, u)
      PROVE  BusyEverywhere(v)'
  BY <1>4, <1>t, <1>f, <1>b DEF GetVehicle, Continue, BusyEverywhere
<1>5. ASSUME NEW w \in Workers, CallStep(w) PROVE BusyEverywhere(v)'
  <2> PICK u \in Vehicles : vcalls[w] # NoVehicleCall /\ u = vcalls[w].id
    BY <1>5, <1>t
    DEF CallStep, TelemetryCacheSet, TelemetryDBUpdate, StatusCacheGet,
        StatusCacheSet, GetVehicleDB, GetVehicleFill, AtStep
  <2>1. u = v => vcalls[w].entry.status \notin Available
    BY <1>b
  <2>2. CASE TelemetryCacheSet(w)
    BY <2>1, <2>2, <1>t, <1>f, <1>b
    DEF TelemetryCacheSet, Continue, BusyEverywhere
  <2>3. CASE TelemetryDBUpdate(w)
    BY <2>1, <2>3, <1>t, <1>f, <1>b
    DEF TelemetryDBUpdate, Done, BusyEverywhere
  <2>4. CASE StatusCacheGet(w)
    BY <2>1, <2>4, <1>t, <1>f, <1>b
    DEF StatusCacheGet, Done, Continue, BusyEverywhere
  <2>5. CASE StatusCacheSet(w)
    BY <2>1, <2>5, <1>t, <1>f, <1>b DEF StatusCacheSet, Done, BusyEverywhere
  <2>6. CASE GetVehicleDB(w)
    BY <2>1, <2>6, <1>t, <1>f, <1>b
    DEF GetVehicleDB, Done, Continue, BusyEverywhere
  <2>7. CASE GetVehicleFill(w)
    BY <2>1, <2>7, <1>t, <1>f, <1>b DEF GetVehicleFill, Done, BusyEverywhere
  <2> QED
    BY <1>5, <2>2, <2>3, <2>4, <2>5, <2>6, <2>7 DEF CallStep
<1>6. ASSUME NEW w \in Workers, NEW u \in Vehicles, NEW s \in VehicleStatus,
             SetStatus(w, u, s), u = v => s \notin Available
      PROVE  BusyEverywhere(v)'
  <2>1. /\ cache' = cache
        /\ db' = IF Registered(u) THEN [db EXCEPT ![u].status = s] ELSE db
        /\ vcalls' = [vcalls EXCEPT ![w] =
             [step |-> "statusGet", id |-> u,
              entry |-> [status |-> s, report |-> NoReport]]]
    BY <1>6, <1>f DEF SetStatus, Continue
  <2>2. db'[v].status \notin Available
    BY <2>1, <1>6, <1>t, <1>b DEF Registered, VehicleRow
  <2> QED
    BY <2>1, <2>2, <1>6, <1>t, <1>b DEF BusyEverywhere
<1> QED
  BY <1>1, <1>2, <1>3, <1>4, <1>5, <1>6

\* A registered vehicle stays registered.
LEMMA RegisteredStays ==
  ASSUME VehicleTypeOK, VehicleTypeOK', NEW v \in Vehicles, Registered(v),
         [VehicleNext]_vehicleVars
  PROVE  Registered(v)'
<1>t. /\ db \in [Vehicles -> VehicleRow \cup {Absent}]
      /\ vcalls \in [Workers -> VehicleCall \cup {NoVehicleCall}]
      /\ Absent.status = "absent" /\ "absent" \notin VehicleStatus
      /\ db[v].status \in VehicleStatus
  BY DEF VehicleTypeOK, Absent, VehicleStatus, Registered, VehicleRow
<1>1. ASSUME NEW w \in Workers, TelemetryDBUpdate(w) PROVE Registered(v)'
  <2> PICK u \in Vehicles : u = vcalls[w].id
    BY <1>1, CallType DEF TelemetryDBUpdate, AtStep
  <2>1. \/ db' = db
        \/ db' = [db EXCEPT ![u] = [status |-> HeardFrom(db[u].status),
                                    report |-> vcalls[w].entry.report]]
    BY <1>1 DEF TelemetryDBUpdate
  <2>2. HeardFrom(db[v].status) # "absent"
    BY <1>t DEF HeardFrom, VehicleStatus
  <2>3. \A s, r : s # "absent" => [status |-> s, report |-> r] # Absent
    BY DEF Absent
  <2> QED
    BY <2>1, <2>2, <2>3, <1>t DEF Registered
<1>2. ASSUME NEW w \in Workers, NEW u \in Vehicles, NEW s \in VehicleStatus,
             SetStatus(w, u, s)
      PROVE  Registered(v)'
  <2>1. db' = db \/ db' = [db EXCEPT ![u].status = s]
    BY <1>2 DEF SetStatus
  <2>2. db[v] \in VehicleRow
    BY <1>t DEF Registered
  <2> QED
    BY <2>1, <2>2, <1>t DEF Registered, VehicleRow, Absent
<1>3. CASE db' = db
  BY <1>3 DEF Registered
<1>4. ASSUME NEW u \in Vehicles, Register(u) PROVE Registered(v)'
  BY <1>4, <1>t DEF Register, Registered
<1> QED
  BY <1>1, <1>2, <1>3, <1>4
  DEF VehicleNext, vehicleVars, CallStep, Expire, UpdateTelemetry, GetVehicle,
      TelemetryCacheSet, StatusCacheGet, StatusCacheSet, GetVehicleDB,
      GetVehicleFill

\* What is cached is registered.
LEMMA CachedRegistered ==
  ASSUME CacheIInv, NEW v \in Vehicles, cache[v] # Absent
  PROVE  Registered(v)
<1>1. CASE Quiet(v)
  BY <1>1 DEF CacheIInv, Agrees
<1>2. CASE ~Quiet(v)
  <2>1. PICK w \in Workers : vcalls[w] # NoVehicleCall /\ vcalls[w].id = v
    BY <1>2 DEF Quiet
  <2>2. Midway(vcalls[w]) /\ vcalls[w] \in VehicleCall
    BY <2>1, CallType DEF CacheIInv
  <2> QED
    BY <2>1, <2>2 DEF Midway, VehicleCall
<1> QED
  BY <1>1, <1>2

\* A call changes only the entry of its own worker.
LEMMA OwnCallOnly ==
  ASSUME NEW w \in Workers, NEW x \in Workers \ {w},
         \/ \E v \in Vehicles, r \in Reports : UpdateTelemetry(w, v, r)
         \/ \E v \in Vehicles, s \in VehicleStatus : SetStatus(w, v, s)
         \/ \E v \in Vehicles : GetVehicle(w, v)
         \/ CallStep(w),
         VehicleTypeOK
  PROVE  vcalls'[x] = vcalls[x]
<1>t. vcalls \in [Workers -> VehicleCall \cup {NoVehicleCall}]
  BY DEF VehicleTypeOK
<1> QED
  BY <1>t
  DEF UpdateTelemetry, SetStatus, GetVehicle, CallStep, TelemetryCacheSet,
      TelemetryDBUpdate, StatusCacheGet, StatusCacheSet, GetVehicleDB,
      GetVehicleFill, Continue, Done

-----------------------------------------------------------------------------

\* Steps of the services' other callers, and of the background.
LEMMA OthersKeepBookings ==
  ASSUME Serial, BookIInv, VehicleTypeOK', [Next]_vars,
         \/ \E o \in Orders : CreateOrder(o)
         \/ \E c \in Callers \ Dispatchers : UpdateOrderStatus(c)
         \/ \E w \in Workers \ Dispatchers : VehicleCaller(w)
         \/ Background
         \/ UNCHANGED vars
  PROVE  BookInv'
<1>t. VehicleTypeOK /\ booked \in [Vehicles -> BOOLEAN]
  BY DEF BookIInv, EngineIInv, EngineTypeOK
<1>n. [VehicleNext]_vehicleVars
  BY ServiceSteps DEF BookIInv, EngineIInv
<1>1. pc' = pc /\ job' = job
  BY DEF CreateOrder, UpdateOrderStatus, VehicleCaller, Background,
         engineVars, vars
<1>r. \A v \in Vehicles : Registered(v) => Registered(v)'
  BY <1>t, <1>n, RegisteredStays
<1>2. ASSUME \A d \in Dispatchers : vcalls'[d] = vcalls[d],
             \A v \in Vehicles : booked'[v] => booked[v],
             \A v \in Vehicles : booked'[v] /\ BusyEverywhere(v) => BusyEverywhere(v)'
      PROVE  BookInv'
  <2>1. SettingCalls'
    BY <1>1, <1>2 DEF BookIInv, BookInv, SettingCalls
  <2>2. ASSUME NEW v \in Vehicles PROVE BookedOK(v)'
    BY <1>1, <1>2, <1>r DEF BookIInv, BookInv, BookedOK, Settling
  <2>3. ChosenOK'
    <3>1. \A d \in Dispatchers : pc[d] \in Chosen => job[d].best \in Vehicles
      BY DEF BookIInv, EngineIInv, Shape
    <3> QED
      BY <3>1, <1>1, <1>2, <1>r DEF BookIInv, BookInv, ChosenOK, Chosen
  <2> QED
    BY <2>1, <2>2, <2>3 DEF BookInv
<1>3. ASSUME UNCHANGED <<vehicleVars, booked>> PROVE BookInv'
  BY <1>2, <1>3 DEF vehicleVars, BusyEverywhere
<1>4. ASSUME NEW w \in Workers \ Dispatchers, VehicleCaller(w) PROVE BookInv'
  <2>0. \A d \in Dispatchers : d \in Workers \ {w}
    BY DispatcherCalls
  <2>1. ASSUME NEW v \in Vehicles, NEW s \in Published, SetStatus(w, v, s),
               booked' = [booked EXCEPT ![v] = @ /\ s \notin Available]
        PROVE  BookInv'
    <3>1. s \in VehicleStatus
      BY DEF Published, VehicleStatus
    <3>2. \A d \in Dispatchers : vcalls'[d] = vcalls[d]
      BY <2>0, <2>1, <3>1, <1>t, OwnCallOnly
    <3>3. \A u \in Vehicles :
            /\ booked'[u] => booked[u]
            /\ booked'[u] => (v = u => s \notin Available)
      BY <2>1, <1>t
    <3>4. \A u \in Vehicles : booked'[u] /\ BusyEverywhere(u) => BusyEverywhere(u)'
      BY <2>1, <3>1, <3>3, <1>t, BusyStays
    <3> QED
      BY <3>2, <3>3, <3>4, <1>2
  <2>2. ASSUME booked' = booked,
               \/ \E v \in Vehicles, r \in Reports : UpdateTelemetry(w, v, r)
               \/ \E v \in Vehicles : GetVehicle(w, v)
               \/ CallStep(w)
        PROVE  BookInv'
    <3>1. \A d \in Dispatchers : vcalls'[d] = vcalls[d]
      BY <2>0, <2>2, <1>t, OwnCallOnly
    <3>2. \A u \in Vehicles : BusyEverywhere(u) => BusyEverywhere(u)'
      BY <2>2, <1>t, BusyStays
    <3> QED
      BY <2>2, <3>1, <3>2, <1>2
  <2> QED
    BY <1>4, <2>1, <2>2 DEF VehicleCaller, historyVars
<1>5. ASSUME NEW v \in Vehicles, Register(v) \/ Expire(v), booked' = booked
      PROVE  BookInv'
  <2>1. \A d \in Dispatchers : vcalls'[d] = vcalls[d]
    BY <1>5 DEF Register, Expire
  <2>2. ASSUME NEW u \in Vehicles, booked[u], BusyEverywhere(u)
        PROVE  BusyEverywhere(u)'
    <3>1. Registered(u)
      BY <2>2 DEF BookIInv, BookInv, BookedOK
    <3>2. Register(v) => u # v
      BY <3>1 DEF Register
    <3> QED
      BY <3>2, <2>2, <1>5, <1>t, BusyStays
  <2> QED
    BY <2>1, <2>2, <1>2, <1>5
<1> QED
  BY <1>3, <1>4, <1>5
  DEF CreateOrder, UpdateOrderStatus, Background, historyVars, vars, vehicleVars

\* Steps of a dispatcher up to the Assign, and after SetStatus: the only one
\* that matters is the one that finds a vehicle.  It is not booked, for the
\* dispatcher is alone past Lock and has read that the vehicle is idle.
LEMMA SearchKeepsBookings ==
  ASSUME Serial, BookIInv, NEW d \in Dispatchers,
         \/ \E o \in Orders : DispatchOrder(d, o)
         \/ Lock(d) \/ GetOrder(d) \/ GetKeys(d)
         \/ MGet(d) \/ ListVehicles(d) \/ Publish(d)
  PROVE  BookInv'
<1>t. /\ VehicleTypeOK
      /\ pc \in [Dispatchers -> Steps]
      /\ job \in [Dispatchers -> Job \cup {NoJob}]
      /\ Shape /\ Mutex
  BY DEF BookIInv, EngineIInv, EngineTypeOK
<1>1. /\ UNCHANGED <<vehicleVars, historyVars>>
      /\ pc[d] \notin {"status", "setting", "assign"}
      /\ \A x \in Dispatchers \ {d} : pc'[x] = pc[x] /\ job'[x] = job[x]
      /\ \/ pc'[d] \notin Chosen
         \/ /\ pc[d] \in Looking /\ pc'[d] = "assign"
            /\ job[d] \in Job
            /\ \E v \in Vehicles :
                 /\ cache[v].status = "idle" \/ db[v].status = "idle"
                 /\ job' = [job EXCEPT ![d].best = v]
  <2>l. Leave(d) => /\ pc'[d] \notin Chosen
                    /\ \A x \in Dispatchers \ {d} : pc'[x] = pc[x] /\ job'[x] = job[x]
    BY <1>t DEF Leave, Goto, Chosen
  <2>1. CASE \E o \in Orders : DispatchOrder(d, o)
    BY <2>1, <1>t DEF DispatchOrder, Goto, Chosen
  <2>2. CASE Lock(d) \/ GetOrder(d) \/ GetKeys(d) \/ Publish(d)
    BY <2>2, <2>l, <1>t DEF Lock, GetOrder, GetKeys, Publish, Goto, Chosen
  <2>3. CASE MGet(d) \/ ListVehicles(d)
    <3>1. pc[d] \in Looking /\ job[d] \in Job /\ UNCHANGED <<vehicleVars, historyVars>>
      BY <2>3, <1>t, SearchOutcome DEF Shape, Looking
    <3>2. CASE Leave(d) \/ (Goto(d, "list") /\ job' = job)
      BY <3>1, <3>2, <2>l, <1>t DEF Goto, Looking, Chosen
    <3>3. CASE \E v \in Vehicles :
                 /\ cache[v].status = "idle" \/ db[v].status = "idle"
                 /\ job' = [job EXCEPT ![d].best = v]
                 /\ Goto(d, "assign")
      BY <3>1, <3>3, <1>t DEF Goto, Looking
    <3> QED
      BY <2>3, <3>2, <3>3, <1>t, SearchOutcome
  <2> QED
    BY <2>1, <2>2, <2>3
<1>2. \A v \in Vehicles : Settling(v)' <=> Settling(v)
  BY <1>1 DEF Settling, Chosen
<1>3. SettingCalls'
  BY <1>1 DEF BookIInv, BookInv, SettingCalls, vehicleVars, Chosen
<1>4. ASSUME NEW v \in Vehicles PROVE BookedOK(v)'
  BY <1>1, <1>2 DEF BookIInv, BookInv, BookedOK, BusyEverywhere, Registered,
                    vehicleVars, historyVars
<1>5. ChosenOK'
  <2>1. ASSUME NEW x \in Dispatchers, x # d
        PROVE  /\ pc'[x] \in Chosen => Registered(job[x].best)'
               /\ pc'[x] = "assign" => ~booked'[job'[x].best]
    BY <2>1, <1>1 DEF BookIInv, BookInv, ChosenOK, Registered, vehicleVars,
                      historyVars
  <2>2. CASE pc'[d] \notin Chosen
    BY <2>1, <2>2 DEF ChosenOK, Chosen
  <2>3. CASE /\ pc[d] \in Looking
             /\ job[d] \in Job
             /\ \E v \in Vehicles :
                  /\ cache[v].status = "idle" \/ db[v].status = "idle"
                  /\ job' = [job EXCEPT ![d].best = v]
    <3>1. PICK v \in Vehicles :
            /\ cache[v].status = "idle" \/ db[v].status = "idle"
            /\ job' = [job EXCEPT ![d].best = v]
      BY <2>3
    <3>2. job'[d].best = v
      BY <3>1, <2>3, <1>t DEF Job
    <3>3. Registered(v)
      BY <3>1, CachedRegistered DEF BookIInv, Registered, Absent
    <3>4. ~BusyEverywhere(v)
      BY <3>1 DEF BusyEverywhere, Available
    <3>5. ~Settling(v)
      BY <2>3, <1>t DEF Settling, Mutex, Looking
    <3>6. ~booked[v]
      BY <3>4, <3>5 DEF BookIInv, BookInv, BookedOK
    <3> QED
      BY <2>1, <3>2, <3>3, <3>6, <1>1
      DEF ChosenOK, Registered, vehicleVars, historyVars
  <2> QED
    BY <1>1, <2>2, <2>3
<1> QED
  BY <1>3, <1>4, <1>5 DEF BookInv

\* The Assign books its vehicle, and the dispatcher goes on to set its status.
LEMMA AssignKeepsBookings ==
  ASSUME Serial, BookIInv, NEW d \in Dispatchers, AssignOrder(d)
  PROVE  BookInv'
<1>t. /\ pc \in [Dispatchers -> Steps]
      /\ job \in [Dispatchers -> Job \cup {NoJob}]
      /\ booked \in [Vehicles -> BOOLEAN]
      /\ Shape /\ Mutex
  BY DEF BookIInv, EngineIInv, EngineTypeOK
<1>1. /\ pc[d] = "assign"
      /\ pc' = [pc EXCEPT ![d] = "status"]
      /\ job' = job
      /\ booked' = [booked EXCEPT ![job[d].best] = TRUE]
      /\ UNCHANGED vehicleVars
  BY DEF Serial, AssignOrder, Goto
<1>2. /\ job[d].best \in Vehicles
      /\ Registered(job[d].best)
      /\ \A x \in Dispatchers \ {d} : pc[x] \in {"idle", "lock"}
  BY <1>1, <1>t, Alone DEF BookIInv, BookInv, ChosenOK, Shape, Chosen
<1>3. SettingCalls'
  BY <1>1, <1>t DEF BookIInv, BookInv, SettingCalls, vehicleVars
<1>4. ASSUME NEW v \in Vehicles PROVE BookedOK(v)'
  <2>1. CASE v = job[d].best
    BY <2>1, <1>1, <1>2, <1>t DEF BookedOK, Settling, Registered, vehicleVars
  <2>2. CASE v # job[d].best
    <3>1. booked'[v] = booked[v]
      BY <2>2, <1>1, <1>t
    <3>2. ~Settling(v)
      BY <1>1, <1>2 DEF Settling
    <3> QED
      BY <3>1, <3>2, <1>1
      DEF BookIInv, BookInv, BookedOK, BusyEverywhere, Registered, vehicleVars
  <2> QED
    BY <2>1, <2>2
<1>5. ChosenOK'
  BY <1>1, <1>2, <1>t DEF ChosenOK, Registered, vehicleVars, Chosen
<1> QED
  BY <1>3, <1>4, <1>5 DEF BookInv

\* SetStatus begins; with no call about the vehicle in flight, and none
\* allowed to start, it will have the last word in the cache.
LEMMA SetEnRouteKeepsBookings ==
  ASSUME Serial, BookIInv, VehicleTypeOK', [Next]_vars,
         NEW d \in Dispatchers, SetEnRoute(d)
  PROVE  BookInv'
<1>t. /\ VehicleTypeOK
      /\ vcalls \in [Workers -> VehicleCall \cup {NoVehicleCall}]
      /\ pc \in [Dispatchers -> Steps]
      /\ job \in [Dispatchers -> Job \cup {NoJob}]
      /\ Shape /\ Mutex
  BY DEF BookIInv, EngineIInv, EngineTypeOK, VehicleTypeOK
<1> DEFINE b == job[d].best
           call == [step |-> "statusGet", id |-> b,
                    entry |-> [status |-> "en_route", report |-> NoReport]]
<1>1. /\ pc[d] = "status"
      /\ job' = job /\ booked' = booked
      /\ SetStatus(d, b, "en_route")
      /\ vcalls' = [vcalls EXCEPT ![d] = call]
      /\ pc' = [pc EXCEPT ![d] =
                  IF vcalls'[d] = NoVehicleCall THEN "publish" ELSE "setting"]
  BY DEF Serial, SetEnRoute, SetStatus, Continue, historyVars, Goto
<1>2. /\ b \in Vehicles
      /\ Registered(b)
      /\ \A x \in Dispatchers \ {d} : pc[x] \in {"idle", "lock"}
      /\ d \in Workers
      /\ "en_route" \in VehicleStatus /\ "en_route" \notin Available
  BY <1>1, <1>t, Alone, DispatcherCalls
  DEF BookIInv, BookInv, ChosenOK, Shape, Chosen, VehicleStatus, Available
<1>3. /\ vcalls'[d] = call
      /\ call # NoVehicleCall
      /\ pc' = [pc EXCEPT ![d] = "setting"]
      /\ \A x \in Workers \ {d} : vcalls'[x] = vcalls[x]
  BY <1>1, <1>2, <1>t DEF NoVehicleCall
<1>r. \A v \in Vehicles : Registered(v) => Registered(v)'
  BY <1>t, RegisteredStays, ServiceSteps DEF BookIInv, EngineIInv
<1>4. SettingCalls'
  BY <1>1, <1>2, <1>3, <1>t, DispatcherCalls DEF BookIInv, BookInv, SettingCalls
<1>5. ASSUME NEW v \in Vehicles PROVE BookedOK(v)'
  <2>1. CASE v = b
    BY <2>1, <1>1, <1>2, <1>3, <1>r, <1>t DEF BookedOK, Settling
  <2>2. CASE v # b
    <3>1. ~Settling(v)
      BY <2>2, <1>1, <1>2 DEF Settling
    <3>2. BusyEverywhere(v) => BusyEverywhere(v)'
      BY <2>2, <1>1, <1>2, <1>t, BusyStays
    <3> QED
      BY <3>1, <3>2, <1>1, <1>r DEF BookIInv, BookInv, BookedOK
  <2> QED
    BY <2>1, <2>2
<1>6. ChosenOK'
  BY <1>1, <1>2, <1>3, <1>r, <1>t DEF ChosenOK, Chosen
<1> QED
  BY <1>4, <1>5, <1>6 DEF BookInv

\* The rest of SetStatus.  When it is over the vehicle is en route in the
\* table, and in the cache if it is cached.
LEMMA SettingKeepsBookings ==
  ASSUME Serial, BookIInv, VehicleTypeOK', [Next]_vars,
         NEW d \in Dispatchers, SettingStatus(d)
  PROVE  BookInv'
<1>t. /\ VehicleTypeOK
      /\ vcalls \in [Workers -> VehicleCall \cup {NoVehicleCall}]
      /\ cache \in [Vehicles -> CacheEntry \cup {Absent}]
      /\ pc \in [Dispatchers -> Steps]
      /\ job \in [Dispatchers -> Job \cup {NoJob}]
      /\ Shape /\ Mutex
  BY DEF BookIInv, EngineIInv, EngineTypeOK, VehicleTypeOK
<1> DEFINE b == job[d].best
           call == vcalls[d]
<1>1. /\ pc[d] = "setting"
      /\ CallStep(d)
      /\ job' = job /\ booked' = booked
      /\ pc' = [pc EXCEPT ![d] =
                  IF vcalls'[d] = NoVehicleCall THEN "publish" ELSE "setting"]
  BY DEF SettingStatus, historyVars, Goto
<1>2. /\ b \in Vehicles
      /\ Registered(b)
      /\ \A x \in Dispatchers \ {d} : pc[x] \in {"idle", "lock"}
      /\ d \in Workers
      /\ call # NoVehicleCall /\ call.id = b
      /\ call.step \in {"statusGet", "statusSet"}
      /\ call.entry.status = "en_route"
      /\ Midway(call)
      /\ \A x \in Workers \ {d} : vcalls[x] # NoVehicleCall => vcalls[x].id # b
  BY <1>1, <1>t, Alone, DispatcherCalls, CallGoesOn
  DEF BookIInv, BookInv, ChosenOK, SettingCalls, Shape, Chosen
<1>3. \A x \in Workers \ {d} : vcalls'[x] = vcalls[x]
  BY <1>1, <1>2, <1>t, OwnCallOnly
<1>4. /\ db' = db
      /\ \/ /\ vcalls'[d] = NoVehicleCall
            /\ cache'[b].status \in {"absent", "en_route"}
         \/ /\ vcalls'[d] # NoVehicleCall
            /\ vcalls'[d].id = b
            /\ vcalls'[d].step = "statusSet"
            /\ vcalls'[d].entry.status = "en_route"
  <2>1. CASE call.step = "statusGet"
    <3>1. StatusCacheGet(d)
      BY <2>1, <1>1
      DEF CallStep, AtStep, TelemetryCacheSet, TelemetryDBUpdate,
          StatusCacheSet, GetVehicleDB, GetVehicleFill
    <3>2. /\ db' = db /\ cache' = cache
          /\ IF cache[b] = Absent
             THEN vcalls' = [vcalls EXCEPT ![d] = NoVehicleCall]
             ELSE vcalls' = [vcalls EXCEPT ![d] =
                    [step |-> "statusSet", id |-> b,
                     entry |-> [status |-> call.entry.status,
                                report |-> cache[b].report]]]
      BY <3>1, <1>2 DEF StatusCacheGet, CacheGet, Serial, Done, Continue
    <3> QED
      BY <3>2, <1>2, <1>t DEF Absent, NoVehicleCall
  <2>2. CASE call.step = "statusSet"
    <3>1. StatusCacheSet(d)
      BY <2>2, <1>1
      DEF CallStep, AtStep, TelemetryCacheSet, TelemetryDBUpdate,
          StatusCacheGet, GetVehicleDB, GetVehicleFill
    <3>2. /\ db' = db /\ cache' = [cache EXCEPT ![b] = call.entry]
          /\ vcalls' = [vcalls EXCEPT ![d] = NoVehicleCall]
      BY <3>1, <1>2 DEF StatusCacheSet, CacheSet, Serial, Done
    <3> QED
      BY <3>2, <1>2, <1>t
  <2> QED
    BY <2>1, <2>2, <1>2
<1>5. db[b].status = "en_route"
  BY <1>2 DEF Midway
<1>r. \A v \in Vehicles : Registered(v) => Registered(v)'
  BY <1>4 DEF Registered
<1>6. SettingCalls'
  BY <1>1, <1>2, <1>3, <1>4, <1>t, DispatcherCalls DEF BookIInv, BookInv, SettingCalls
<1>7. ASSUME NEW v \in Vehicles PROVE BookedOK(v)'
  <2>1. CASE v = b
    <3>1. CASE vcalls'[d] = NoVehicleCall
      <4>1. BusyEverywhere(b)'
        BY <3>1, <1>2, <1>3, <1>4, <1>5, <1>1 DEF BusyEverywhere, Available
      <4> QED
        BY <4>1, <2>1, <1>1, <1>2, <1>r DEF BookedOK
    <3>2. CASE vcalls'[d] # NoVehicleCall
      BY <3>2, <2>1, <1>1, <1>2, <1>r, <1>t DEF BookedOK, Settling
    <3> QED
      BY <3>1, <3>2
  <2>2. CASE v # b
    <3>1. ~Settling(v)
      BY <2>2, <1>1, <1>2 DEF Settling
    <3>2. BusyEverywhere(v) => BusyEverywhere(v)'
      BY <1>1, <1>2, <1>t, BusyStays
    <3> QED
      BY <3>1, <3>2, <1>1, <1>r DEF BookIInv, BookInv, BookedOK
  <2> QED
    BY <2>1, <2>2
<1>8. ChosenOK'
  BY <1>1, <1>2, <1>r, <1>t DEF ChosenOK, Chosen
<1> QED
  BY <1>6, <1>7, <1>8 DEF BookInv

-----------------------------------------------------------------------------

\* Every step keeps the bookings.
LEMMA BookStep ==
  ASSUME Serial, BookIInv, [Next]_vars
  PROVE  BookIInv'
<1>1. EngineIInv'
  BY EngineNextIInv DEF BookIInv
<1>2. VehicleTypeOK'
  BY <1>1 DEF EngineIInv, EngineTypeOK
<1>3. CacheIInv'
  BY <1>2, ServiceSteps, CacheStep DEF BookIInv, EngineIInv
<1>4. ASSUME NEW d \in Dispatchers,
             (\E o \in Orders : DispatchOrder(d, o)) \/ DispatchStep(d)
      PROVE  BookInv'
  BY <1>2, <1>4, SearchKeepsBookings, AssignKeepsBookings,
     SetEnRouteKeepsBookings, SettingKeepsBookings
  DEF DispatchStep
<1>5. BookInv'
  BY <1>2, <1>4, OthersKeepBookings DEF Next
<1> QED
  BY <1>1, <1>3, <1>5 DEF BookIInv

\* When calls about one vehicle take turns, vehicles register first and no
\* command fails, dispatch picks no vehicle that was given an order and has
\* not reported itself free since.
THEOREM NeverDoubleBooked ==
  ASSUME Serial PROVE Spec => []NoDoubleBooking
<1>1. Init => BookIInv
  <2> SUFFICES ASSUME Init PROVE BookIInv
    OBVIOUS
  <2>1. EngineIInv
    BY EngineInitIInv
  <2>2. CacheIInv
    BY DEF Init, VehicleInit, CacheIInv, VehicleTypeOK, OneCallEach, Agrees, Quiet
  <2>3. BookInv
    BY DispatcherCalls
    DEF Init, VehicleInit, BookInv, SettingCalls, BookedOK, ChosenOK, Chosen
  <2> QED
    BY <2>1, <2>2, <2>3 DEF BookIInv
<1>2. BookIInv /\ [Next]_vars => BookIInv'
  BY BookStep
<1>3. BookIInv => NoDoubleBooking
  BY DEF BookIInv, BookInv, ChosenOK, NoDoubleBooking
<1> QED
  BY <1>1, <1>2, <1>3, PTL DEF Spec

=============================================================================
