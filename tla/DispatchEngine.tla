--------------------------- MODULE DispatchEngine ---------------------------
(***************************************************************************)
(* internal/dispatch/engine.go between the order service and the vehicle   *)
(* service, with everybody else who calls those two services at the same   *)
(* time: PUT /api/orders/{id}/status, MQTT telemetry and status messages,  *)
(* GET /api/vehicles/{id}.                                                 *)
(*                                                                         *)
(* A dispatcher is a goroutine inside DispatchOrder (an HTTP handler or    *)
(* the scenario of the simulator).  pc names the command it runs next; the *)
(* engine's mutex mu is held from Lock to Leave.  The calls it makes to    *)
(* the two services are their own actions, run under its name.             *)
(*                                                                         *)
(* Two history variables serve the properties: fresh and booked.           *)
(***************************************************************************)
EXTENDS OrderService, VehicleService

CONSTANTS
  Dispatchers,   \* goroutines that call DispatchOrder
  NoOne,         \* the holder of a free mutex
  LowReports,    \* the reports with a battery below 20
  Distance       \* Distance[o][r]: from the pickup of o to the position in r

ASSUME EngineAssumption ==
  /\ Dispatchers \subseteq Callers \cap Workers
  /\ NoOne \notin Dispatchers
  /\ \A d \in Dispatchers : "status" \in MayCall[d]
  /\ NoReport \in LowReports   \* the battery column defaults to 0
  /\ Distance \in [Orders -> [Reports \cup {NoReport} -> Nat]]

VARIABLES
  mu,       \* the mutex of the engine: its holder
  pc,       \* pc[d]: the next command of dispatcher d
  job,      \* job[d]: what d is dispatching
  fresh,    \* fresh[o]: o became pending and has not been assigned since
  booked    \* booked[v]: v was assigned and has not reported itself free since

engineVars == <<mu, pc, job>>
historyVars == <<fresh, booked>>
vars == <<orders, ocalls, clock, db, cache, vcalls,
          mu, pc, job, fresh, booked>>

Job == [order : Orders,
        keys  : SUBSET Vehicles,
        best  : Vehicles \cup {NoVehicle}]

NoJob == [order |-> NoOne]

Steps == {"idle", "lock", "get", "keys", "mget", "list", "assign", "status",
          "setting", "publish"}

EngineTypeOK ==
  /\ OrderTypeOK
  /\ VehicleTypeOK
  /\ mu \in Dispatchers \cup {NoOne}
  /\ pc \in [Dispatchers -> Steps]
  /\ job \in [Dispatchers -> Job \cup {NoJob}]
  /\ fresh \in [Orders -> BOOLEAN]
  /\ booked \in [Vehicles -> BOOLEAN]

Init ==
  /\ OrderInit
  /\ VehicleInit
  /\ mu = NoOne
  /\ pc = [d \in Dispatchers |-> "idle"]
  /\ job = [d \in Dispatchers |-> NoJob]
  /\ fresh = [o \in Orders |-> FALSE]
  /\ booked = [v \in Vehicles |-> FALSE]

Goto(d, step) == pc' = [pc EXCEPT ![d] = step]

\* The deferred Unlock, and the return.
Leave(d) ==
  /\ mu' = NoOne
  /\ Goto(d, "idle")
  /\ job' = [job EXCEPT ![d] = NoJob]

\* A dispatcher has seen o pending and has not yet called Assign.
Considered(o) ==
  \E d \in Dispatchers : pc[d] \in {"keys", "mget", "list"} /\ job[d].order = o

-----------------------------------------------------------------------------
(* DispatchOrder.                                                          *)

DispatchOrder(d, o) ==
  /\ pc[d] = "idle"
  /\ Exists(o)
  /\ Goto(d, "lock")
  /\ job' = [job EXCEPT ![d] = [order |-> o, keys |-> {}, best |-> NoVehicle]]
  /\ UNCHANGED <<orderVars, vehicleVars, historyVars, mu>>

\* A mutant of Lock: the mutex is not waited for.
MutLock(d) ==
  /\ pc[d] = "lock"
  /\ mu' = d
  /\ Goto(d, "get")
  /\ UNCHANGED <<orderVars, vehicleVars, historyVars, job>>

Lock(d) ==
  /\ pc[d] = "lock"
  /\ mu = NoOne
  /\ mu' = d
  /\ Goto(d, "get")
  /\ UNCHANGED <<orderVars, vehicleVars, historyVars, job>>

\* A mutant of GetOrder: the status is not checked.
MutGetOrder(d) ==
  /\ pc[d] = "get"
  /\ OneCallPerOrder => Unclaimed(job[d].order)
  /\ Goto(d, "keys")
  /\ UNCHANGED <<orderVars, vehicleVars, historyVars, mu, job>>

\* A mutant of GetOrder: an early return does not unlock.
MutKeepsLock(d) ==
  /\ pc[d] = "get"
  /\ OneCallPerOrder => Unclaimed(job[d].order)
  /\ \/ /\ orders[job[d].order].status = "pending"
        /\ Goto(d, "keys")
        /\ UNCHANGED job
     \/ /\ orders[job[d].order].status # "pending" \/ DBFaults
        /\ Goto(d, "idle")
        /\ job' = [job EXCEPT ![d] = NoJob]
  /\ UNCHANGED <<orderVars, vehicleVars, historyVars, mu>>

\* Get, and the check that the order is pending.
GetOrder(d) ==
  /\ pc[d] = "get"
  /\ OneCallPerOrder => Unclaimed(job[d].order)
  /\ \/ /\ orders[job[d].order].status = "pending"
        /\ Goto(d, "keys")
        /\ UNCHANGED <<mu, job>>
     \/ /\ orders[job[d].order].status # "pending" \/ DBFaults
        /\ Leave(d)
  /\ UNCHANGED <<orderVars, vehicleVars, historyVars>>

\* GetAllVehicles, KEYS.  An error or an empty answer means the database.
GetKeys(d) ==
  /\ pc[d] = "keys"
  /\ LET found == {v \in Vehicles : cache[v] # Absent}
     IN  \/ /\ found # {}
            /\ job' = [job EXCEPT ![d].keys = found]
            /\ Goto(d, "mget")
         \/ /\ found = {} \/ RedisFaults
            /\ Goto(d, "list")
            /\ UNCHANGED job
  /\ UNCHANGED <<orderVars, vehicleVars, historyVars, mu>>

\* A mutant of CanTake: a vehicle that is about to deliver will do.
MutCanTake(entry) ==
  entry.status \in {"idle", "delivering"} /\ entry.report \notin LowReports

CanTake(entry) == entry.status = "idle" /\ entry.report \notin LowReports

\* A mutant of NearestIdle: without a candidate it answers nil, and nobody
\* checks.
MutNearestIdle(o, list) ==
  LET candidates == {v \in DOMAIN list : CanTake(list[v])}
  IN  IF candidates = {} THEN {NoVehicle} ELSE candidates

\* findNearestIdle; the first of several at the same distance wins, and the
\* order of the list is the store's business.
NearestIdle(o, list) ==
  LET candidates == {v \in DOMAIN list : CanTake(list[v])}
  IN  {v \in candidates :
         \A x \in candidates :
           Distance[o][list[v].report] <= Distance[o][list[x].report]}

\* No candidate is an error; otherwise Assign is called.
Match(d, list) ==
  LET o == job[d].order
  IN  \/ /\ NearestIdle(o, list) = {}
         /\ Leave(d)
         /\ UNCHANGED orderVars
      \/ \E v \in NearestIdle(o, list) :
           /\ BeginAssign(d, o, v)
           /\ job' = [job EXCEPT ![d].best = v]
           /\ Goto(d, "assign")
           /\ UNCHANGED mu

\* GetAllVehicles, MGET.  Keys that expired meanwhile are skipped.
MGet(d) ==
  /\ pc[d] = "mget"
  /\ LET live == {v \in job[d].keys : cache[v] # Absent}
     IN  \/ live # {} /\ Match(d, [v \in live |-> cache[v]])
         \/ /\ live = {} \/ RedisFaults
            /\ Goto(d, "list")
            /\ UNCHANGED <<orderVars, mu, job>>
  /\ UNCHANGED <<vehicleVars, historyVars>>

\* ListVehicles.
ListVehicles(d) ==
  /\ pc[d] = "list"
  /\ \/ Match(d, [v \in {x \in Vehicles : Registered(x)} |-> db[v]])
     \/ DBFaults /\ Leave(d) /\ UNCHANGED orderVars
  /\ UNCHANGED <<vehicleVars, historyVars>>

\* A mutant of AssignOrder: the mutex is released once the order is assigned,
\* before the status of the vehicle is set.
MutAssignOrder(d) ==
  /\ pc[d] = "assign"
  /\ AssignUpdate(d)
  /\ fresh' = [fresh EXCEPT ![job[d].order] = FALSE]
  /\ booked' = [booked EXCEPT ![job[d].best] = TRUE]
  /\ mu' = NoOne
  /\ Goto(d, "status")
  /\ UNCHANGED <<job, vehicleVars>>

\* The UPDATE of Assign.  It may fail; it may also be applied and its answer
\* lost, and then DispatchOrder returns an error with the order assigned.
AssignOrder(d) ==
  /\ pc[d] = "assign"
  /\ \/ /\ AssignUpdate(d)
        /\ fresh' = [fresh EXCEPT ![job[d].order] = FALSE]
        /\ booked' = [booked EXCEPT ![job[d].best] = TRUE]
        /\ \/ Goto(d, "status") /\ UNCHANGED <<mu, job>>
           \/ DBFaults /\ Leave(d)
     \/ /\ DBFaults
        /\ UpdateFails(d)
        /\ Leave(d)
        /\ UNCHANGED historyVars
  /\ UNCHANGED vehicleVars

\* SetStatus(best, en_route) is called.  Its error is logged, no more.
SetEnRoute(d) ==
  /\ pc[d] = "status"
  /\ \/ /\ SetStatus(d, job[d].best, "en_route")
        /\ Goto(d, IF vcalls'[d] = NoVehicleCall THEN "publish" ELSE "setting")
     \/ /\ DBFaults
        /\ Goto(d, "publish")
        /\ UNCHANGED vehicleVars
  /\ UNCHANGED <<orderVars, historyVars, mu, job>>

\* The rest of SetStatus.
SettingStatus(d) ==
  /\ pc[d] = "setting"
  /\ CallStep(d)
  /\ Goto(d, IF vcalls'[d] = NoVehicleCall THEN "publish" ELSE "setting")
  /\ UNCHANGED <<orderVars, historyVars, mu, job>>

\* PublishCommand; its error is logged, and DispatchOrder succeeds.
Publish(d) ==
  /\ pc[d] = "publish"
  /\ Leave(d)
  /\ UNCHANGED <<orderVars, vehicleVars, historyVars>>

DispatchStep(d) ==
  \/ Lock(d)
  \/ GetOrder(d)
  \/ GetKeys(d)
  \/ MGet(d)
  \/ ListVehicles(d)
  \/ AssignOrder(d)
  \/ SetEnRoute(d)
  \/ SettingStatus(d)
  \/ Publish(d)

-----------------------------------------------------------------------------
(* The other callers.                                                      *)

\* POST /api/orders, POST /api/sim/order and the scenario.
CreateOrder(o) ==
  /\ Create(o)
  /\ fresh' = [fresh EXCEPT ![o] = TRUE]
  /\ UNCHANGED <<vehicleVars, engineVars, booked>>

\* PUT /api/orders/{id}/status, which accepts any status.
UpdateOrderStatus(c) ==
  \/ /\ \E o \in Orders, next \in OrderStatus :
          /\ BeginTransition(c, o, next)
          /\ OneCallPerOrder => ~Considered(o)
     /\ UNCHANGED <<vehicleVars, engineVars, historyVars>>
  \/ /\ TransitionUpdate(c)
     /\ fresh' = [fresh EXCEPT
          ![ocalls[c].id] = @ \/ ocalls[c].next = "pending"]
     /\ UNCHANGED <<vehicleVars, engineVars, booked>>
  \/ /\ UpdateFails(c)
     /\ UNCHANGED <<vehicleVars, engineVars, historyVars>>

\* The statuses that vehicles publish on fleet/status/{vehicle_id}.
Published == {"idle", "delivering", "charging", "offline"}

\* A vehicle that says so can be sent on the next job.
Available == {"idle", "offline"}

\* The MQTT callbacks, GET /api/vehicles/{id}, and the direct telemetry of
\* the in-process simulator.
VehicleCaller(w) ==
  \/ /\ \E v \in Vehicles, s \in Published :
          /\ SetStatus(w, v, s)
          /\ booked' = [booked EXCEPT ![v] = @ /\ s \notin Available]
     /\ UNCHANGED <<orderVars, engineVars, fresh>>
  \/ /\ \/ \E v \in Vehicles, r \in Reports : UpdateTelemetry(w, v, r)
        \/ \E v \in Vehicles : GetVehicle(w, v)
        \/ CallStep(w)
     /\ UNCHANGED <<orderVars, engineVars, historyVars>>

Background ==
  \/ /\ Tick
     /\ UNCHANGED <<vehicleVars, engineVars, historyVars>>
  \/ /\ \E v \in Vehicles : Register(v) \/ Expire(v)
     /\ UNCHANGED <<orderVars, engineVars, historyVars>>

-----------------------------------------------------------------------------

Next ==
  \/ \E d \in Dispatchers :
       (\E o \in Orders : DispatchOrder(d, o)) \/ DispatchStep(d)
  \/ \E o \in Orders : CreateOrder(o)
  \/ \E c \in Callers \ Dispatchers : UpdateOrderStatus(c)
  \/ \E w \in Workers \ Dispatchers : VehicleCaller(w)
  \/ Background

Spec == Init /\ [][Next]_vars

\* Goroutines run, databases answer or fail, the MQTT broker acknowledges, and
\* a goroutine waiting for a sync.Mutex gets it before long (its starvation
\* mode hands the lock over in order).
FairSpec ==
  /\ Spec
  /\ \A d \in Dispatchers :
       /\ SF_vars(Lock(d))
       /\ WF_vars(DispatchStep(d))

-----------------------------------------------------------------------------
(* Safety whatever overlaps and whatever fails.                            *)

\* The mutex covers the check and the Assign: an Assign is never about to
\* run for an order that has not become pending since its last Assign, so one
\* pending order is never given to two vehicles.
AssignedOncePerPending ==
  \A d \in Dispatchers : pc[d] = "assign" => fresh[job[d].order]

\* From Assign to the command, the vehicle being told is the one the order
\* is recorded under, although the order may be failed, retried or cancelled
\* in between.
CommandMatchesOrder ==
  \A d \in Dispatchers :
    pc[d] \in {"status", "setting", "publish"} =>
      orders[job[d].order].vehicle_id = job[d].best

\* A delivered or cancelled order with no call under way on it.
Settled(o) ==
  /\ orders[o].status \in Terminal
  /\ Unclaimed(o)
  /\ ~Considered(o)

\* Only a call that started before an order was delivered or cancelled can
\* still change it: once those are done the row never changes again.
SettledForever ==
  [][\A o \in Orders :
       Settled(o) => Settled(o)' /\ orders'[o] = orders[o]]_vars

(* Safety when calls about one vehicle, or one order, do not overlap.      *)

\* DispatchOrder never picks a vehicle that was given an order and has not
\* reported itself free since (engine.go:35, "the nearest idle vehicle").
NoDoubleBooking ==
  \A d \in Dispatchers : pc[d] = "assign" => ~booked[job[d].best]

Lifecycle ==
  INSTANCE OrderLifecycle WITH status <- [o \in Orders |-> orders[o].status]

\* Orders are created pending and follow the transition table
\* (internal/model/order.go:33).
FollowsLifecycle == Lifecycle!Spec

(* Liveness.                                                               *)

\* A goroutine that wants the engine's mutex gets through DispatchOrder.
DispatchReturns == \A d \in Dispatchers : pc[d] = "lock" ~> pc[d] = "idle"

=============================================================================
