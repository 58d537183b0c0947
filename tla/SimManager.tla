----------------------------- MODULE SimManager -----------------------------
(***************************************************************************)
(* The fleet of internal/simulation/manager.go: who starts and stops it,   *)
(* the goroutine and the command callback of every vehicle, and the two    *)
(* mutexes, m.mu of the manager and vs.mu of a vehicle.                    *)
(*                                                                         *)
(* Start and Stop hold m.mu while they go through the vehicles; a tick and *)
(* a command hold vs.mu and take m.mu for a line of log.  A loop ends when *)
(* the context it was started with is cancelled: by Stop, or because the   *)
(* context is the one of an HTTP request (simStart) and the handler has    *)
(* returned.  RunScenario starts the fleet with a context of its own.      *)
(*                                                                         *)
(* What a vehicle does in a tick is SimVehicle's business.  Registration   *)
(* and the MQTT connection fail without a consequence here.                *)
(***************************************************************************)
EXTENDS Naturals, FiniteSets

CONSTANTS
  Callers,    \* HTTP handlers, scenarios, and main when it shuts down
  Count,      \* vehicles in the fleet
  Objects,    \* bound: the vehicleState objects; an unused one is reused
  NoObject,
  NoOne,      \* the holder of a free m.mu
  Calls       \* what callers do: a subset of {"simStart", "scenario", "stop"}

ASSUME ManagerAssumption ==
  /\ Count \in Nat \ {0}
  /\ NoObject \notin Objects
  /\ NoOne \notin Callers
  /\ Calls \subseteq {"simStart", "scenario", "stop"}

VARIABLES
  mlock,      \* m.mu: its holder, when it is held for more than a line of log
  running,
  vehicles,   \* m.vehicles
  pc,         \* pc[h]: where caller h is
  kind,       \* kind[h]: what it does
  next,       \* next[h]: the vehicle that Start comes to next
  loop,       \* loop[c]: the goroutine of c
  vlock,      \* vlock[c]: vs.mu of c
  ctx,        \* ctx[c]: the context of the goroutine
  parent      \* parent[c]: the request that ctx[c] derives from, or NoOne

managerVars ==
  <<mlock, running, vehicles, pc, kind, next, loop, vlock, ctx, parent>>
callVars == <<mlock, running, vehicles, pc, kind, next>>
loopVars == <<loop, vlock, ctx, parent>>

Slots == 1 .. Count

ManagerTypeOK ==
  /\ mlock \in Callers \cup {NoOne}
  /\ running \in BOOLEAN
  /\ vehicles \in [Slots -> Objects \cup {NoObject}]
  /\ pc \in [Callers -> {"idle", "check", "startLock", "starting", "started",
                         "refused", "stopLock", "stopping"}]
  /\ kind \in [Callers -> {"simStart", "scenario", "stop"}]
  /\ next \in [Callers -> 1 .. Count + 1]
  /\ loop \in [Objects -> {"ended", "waiting", "moving", "logging"}]
  /\ vlock \in [Objects -> {"free", "loop", "callback"}]
  /\ ctx \in [Objects -> {"live", "cancelled"}]
  /\ parent \in [Objects -> Callers \cup {NoOne}]

ManagerInit ==
  /\ mlock = NoOne
  /\ running = FALSE
  /\ vehicles = [i \in Slots |-> NoObject]
  /\ pc = [h \in Callers |-> "idle"]
  /\ kind = [h \in Callers |-> "stop"]
  /\ next = [h \in Callers |-> 1]
  /\ loop = [c \in Objects |-> "ended"]
  /\ vlock = [c \in Objects |-> "free"]
  /\ ctx = [c \in Objects |-> "cancelled"]
  /\ parent = [c \in Objects |-> NoOne]

Goto(h, step) == pc' = [pc EXCEPT ![h] = step]

Member(c) == \E i \in Slots : vehicles[i] = c

Unused(c) == loop[c] = "ended" /\ vlock[c] = "free" /\ ~Member(c)

-----------------------------------------------------------------------------
(* Callers.                                                                *)

\* RunScenario looks whether the fleet runs before it calls Start.
Call(h) ==
  /\ pc[h] = "idle"
  /\ \E k \in Calls :
       /\ kind' = [kind EXCEPT ![h] = k]
       /\ Goto(h, CASE k = "simStart" -> "startLock"
                    [] k = "scenario" -> "check"
                    [] k = "stop"     -> "stopLock")
  /\ UNCHANGED <<mlock, running, vehicles, next, loopVars>>

\* A mutant of CheckRunning: a scenario waits for the running fleet to stop.
MutCheckRunning(h) ==
  /\ pc[h] = "check"
  /\ mlock = NoOne
  /\ ~running
  /\ Goto(h, "startLock")
  /\ UNCHANGED <<mlock, running, vehicles, kind, next, loopVars>>

CheckRunning(h) ==
  /\ pc[h] = "check"
  /\ mlock = NoOne
  /\ Goto(h, IF running THEN "idle" ELSE "startLock")
  /\ UNCHANGED <<mlock, running, vehicles, kind, next, loopVars>>

\* The bound on the objects leaves Start enough of them.
Enough == Cardinality({c \in Objects : Unused(c)}) >= Count

BeginStart(h) ==
  /\ Enough
  /\ mlock' = h
  /\ Goto(h, "starting")
  /\ UNCHANGED next

\* A mutant of StartLock: nobody asks whether the fleet runs.
MutStartLock(h) ==
  /\ pc[h] = "startLock"
  /\ mlock = NoOne
  /\ BeginStart(h)
  /\ UNCHANGED <<running, vehicles, kind, loopVars>>

StartLock(h) ==
  /\ pc[h] = "startLock"
  /\ mlock = NoOne
  /\ \/ running /\ Goto(h, "refused") /\ UNCHANGED <<mlock, next>>
     \/ ~running /\ BeginStart(h)
  /\ UNCHANGED <<running, vehicles, kind, loopVars>>

\* A mutant of StartVehicle: one vehicle too many.
MutStartVehicle(h) ==
  /\ pc[h] = "starting"
  /\ \E c \in Objects :
       /\ Unused(c)
       /\ vehicles' = [vehicles EXCEPT ![next[h]] = c]
       /\ loop' = [loop EXCEPT ![c] = "waiting"]
       /\ ctx' = [ctx EXCEPT ![c] = "live"]
       /\ parent' = [parent EXCEPT ![c] =
                       IF kind[h] = "simStart" THEN h ELSE NoOne]
  /\ next' = [next EXCEPT ![h] = @ + 1]
  /\ UNCHANGED <<mlock, running, pc, kind, vlock>>

StartVehicle(h) ==
  /\ pc[h] = "starting"
  /\ next[h] <= Count
  /\ \E c \in Objects :
       /\ Unused(c)
       /\ vehicles' = [vehicles EXCEPT ![next[h]] = c]
       /\ loop' = [loop EXCEPT ![c] = "waiting"]
       /\ ctx' = [ctx EXCEPT ![c] = "live"]
       /\ parent' = [parent EXCEPT ![c] =
                       IF kind[h] = "simStart" THEN h ELSE NoOne]
  /\ next' = [next EXCEPT ![h] = @ + 1]
  /\ UNCHANGED <<mlock, running, pc, kind, vlock>>

StartDone(h) ==
  /\ pc[h] = "starting"
  /\ next[h] > Count
  /\ running' = TRUE
  /\ mlock' = NoOne
  /\ Goto(h, "started")
  /\ next' = [next EXCEPT ![h] = 1]
  /\ UNCHANGED <<vehicles, kind, loopVars>>

\* The handler, or the scenario, returns; the context of a request ends.
Return(h) ==
  /\ pc[h] \in {"started", "refused"}
  /\ Goto(h, "idle")
  /\ ctx' = [c \in Objects |-> IF parent[c] = h THEN "cancelled" ELSE ctx[c]]
  /\ parent' = [c \in Objects |-> IF parent[c] = h THEN NoOne ELSE parent[c]]
  /\ UNCHANGED <<mlock, running, vehicles, kind, next, loop, vlock>>

StopLock(h) ==
  /\ pc[h] = "stopLock"
  /\ mlock = NoOne
  /\ IF running
     THEN Goto(h, "stopping") /\ mlock' = h
     ELSE Goto(h, "idle") /\ UNCHANGED mlock
  /\ UNCHANGED <<running, vehicles, kind, next, loopVars>>

\* cancelFn, "offline", Disconnect (which returns in its 500 ms).
StopVehicle(h) ==
  /\ pc[h] = "stopping"
  /\ \E i \in Slots :
       /\ vehicles[i] # NoObject
       /\ vehicles' = [vehicles EXCEPT ![i] = NoObject]
       /\ ctx' = [ctx EXCEPT ![vehicles[i]] = "cancelled"]
  /\ UNCHANGED <<mlock, running, pc, kind, next, loop, vlock, parent>>

\* A mutant of StopDone: the fleet stays marked as running.
MutStopDone(h) ==
  /\ pc[h] = "stopping"
  /\ \A i \in Slots : vehicles[i] = NoObject
  /\ mlock' = NoOne
  /\ Goto(h, "idle")
  /\ UNCHANGED <<running, vehicles, kind, next, loopVars>>

StopDone(h) ==
  /\ pc[h] = "stopping"
  /\ \A i \in Slots : vehicles[i] = NoObject
  /\ running' = FALSE
  /\ mlock' = NoOne
  /\ Goto(h, "idle")
  /\ UNCHANGED <<vehicles, kind, next, loopVars>>

TakesLock(h) == CheckRunning(h) \/ StartLock(h) \/ StopLock(h)

HoldsLock(h) ==
  StartVehicle(h) \/ StartDone(h) \/ StopVehicle(h) \/ StopDone(h)

-----------------------------------------------------------------------------
(* Vehicles.                                                               *)

\* The ticker fires; the tick may have something to log.
BeginTick(c) ==
  /\ loop[c] = "waiting"
  /\ vlock[c] = "free"
  /\ vlock' = [vlock EXCEPT ![c] = "loop"]
  /\ \E step \in {"moving", "logging"} : loop' = [loop EXCEPT ![c] = step]
  /\ UNCHANGED <<callVars, ctx, parent>>

EndTick(c) ==
  /\ loop[c] = "moving" \/ (loop[c] = "logging" /\ mlock = NoOne)
  /\ vlock' = [vlock EXCEPT ![c] = "free"]
  /\ loop' = [loop EXCEPT ![c] = "waiting"]
  /\ UNCHANGED <<callVars, ctx, parent>>

\* The select takes ctx.Done.
EndLoop(c) ==
  /\ loop[c] = "waiting"
  /\ ctx[c] = "cancelled"
  /\ loop' = [loop EXCEPT ![c] = "ended"]
  /\ UNCHANGED <<callVars, vlock, ctx, parent>>

\* onCommand of a vehicle that is connected, whether its loop runs or not.
BeginCommand(c) ==
  /\ Member(c)
  /\ vlock[c] = "free"
  /\ vlock' = [vlock EXCEPT ![c] = "callback"]
  /\ UNCHANGED <<callVars, loop, ctx, parent>>

EndCommand(c) ==
  /\ vlock[c] = "callback"
  /\ mlock = NoOne
  /\ vlock' = [vlock EXCEPT ![c] = "free"]
  /\ UNCHANGED <<callVars, loop, ctx, parent>>

ManagerNext ==
  \/ \E h \in Callers : Call(h) \/ TakesLock(h) \/ HoldsLock(h) \/ Return(h)
  \/ \E c \in Objects :
       \/ BeginTick(c)
       \/ EndTick(c)
       \/ EndLoop(c)
       \/ BeginCommand(c)
       \/ EndCommand(c)

ManagerSpec == ManagerInit /\ [][ManagerNext]_managerVars

\* Goroutines run; a goroutine that waits for a mutex gets it before long; a
\* select that finds the context done again and again takes it at last.
FairManagerSpec ==
  /\ ManagerSpec
  /\ \A h \in Callers :
       /\ SF_managerVars(TakesLock(h))
       /\ WF_managerVars(HoldsLock(h))
       /\ WF_managerVars(Return(h))
  /\ \A c \in Objects :
       /\ SF_managerVars(EndTick(c))
       /\ SF_managerVars(EndLoop(c))
       /\ SF_managerVars(EndCommand(c))

-----------------------------------------------------------------------------

\* A loop that can still go on.
Alive(c) == loop[c] # "ended" /\ ctx[c] = "live"

\* Nobody holds m.mu, so nobody is in the middle of Start or Stop.
Settled == mlock = NoOne

\* However Start, Stop and scenarios overlap, a vehicle that goes on running
\* is one that Stop will find: no second Start puts another object in its
\* place, and none is left behind by a Stop.
NoOrphans == Settled => \A c \in Objects : Alive(c) => Member(c)

\* A fleet that is running has all its vehicles, and their loops go on: "启动
\* 模拟循环" (manager.go:169).  Holds when only scenarios start the fleet.
AliveWhileRunning ==
  Settled /\ running =>
    \A i \in Slots : vehicles[i] # NoObject /\ Alive(vehicles[i])

\* Every call of the manager returns, whatever ticks and commands are doing:
\* the order of the two mutexes is never reversed.
CallsReturn == \A h \in Callers : pc[h] # "idle" ~> pc[h] = "idle"

=============================================================================
