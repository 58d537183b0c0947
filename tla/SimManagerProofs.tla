-------------------------- MODULE SimManagerProofs --------------------------
(***************************************************************************)
(* What holds of SimManager for a fleet of any size and any number of      *)
(* callers, however they overlap.                                          *)
(*                                                                         *)
(* Both safety properties speak of the moments when nobody holds m.mu.     *)
(* They follow from what Start and Stop keep true in the middle of their   *)
(* work: Held ties the mutex to the caller that is in the middle, Filled   *)
(* says which slots of the fleet are taken, and Owned that every loop that *)
(* can go on is in one of them.  Lively, which AliveWhileRunning needs in  *)
(* addition, holds when no caller starts the fleet with the context of a   *)
(* request.                                                                *)
(***************************************************************************)
EXTENDS SimManager, TLAPS

Held ==
  \A h \in Callers : pc[h] \in {"starting", "stopping"} <=> mlock = h

Filled ==
  /\ \A h \in Callers :
       /\ pc[h] = "starting" =>
            /\ ~running
            /\ \A i \in Slots : i < next[h] <=> vehicles[i] # NoObject
       /\ pc[h] # "starting" => next[h] = 1
       /\ pc[h] = "stopping" => running
  /\ Settled => \A i \in Slots : running <=> vehicles[i] # NoObject

Owned == \A c \in Objects : Alive(c) => Member(c)

ManagerIInv == ManagerTypeOK /\ Held /\ Filled /\ Owned

\* No context is that of a request, and no object is in two slots.
Lively ==
  /\ \A h \in Callers : kind[h] # "simStart"
  /\ \A c \in Objects : parent[c] = NoOne
  /\ \A i, j \in Slots :
       vehicles[i] # NoObject /\ vehicles[i] = vehicles[j] => i = j
  /\ \A i \in Slots : vehicles[i] # NoObject => Alive(vehicles[i])

-----------------------------------------------------------------------------

\* Every step leaves every variable in its type; Start counts no further than
\* one past the last vehicle.
LEMMA ManagerTypeStep ==
  ASSUME ManagerTypeOK, [ManagerNext]_managerVars
  PROVE  ManagerTypeOK'
<1> USE ManagerAssumption DEF ManagerTypeOK, Slots, callVars, loopVars
<1>1. ASSUME NEW h \in Callers, Call(h) PROVE ManagerTypeOK'
  BY <1>1 DEF Call, Goto
<1>2. ASSUME NEW h \in Callers, TakesLock(h) PROVE ManagerTypeOK'
  <2>1. CASE CheckRunning(h)
    BY <2>1 DEF CheckRunning, Goto
  <2>2. CASE StartLock(h)
    BY <2>2 DEF StartLock, BeginStart, Goto
  <2>3. CASE StopLock(h)
    BY <2>3 DEF StopLock, Goto
  <2> QED
    BY <1>2, <2>1, <2>2, <2>3 DEF TakesLock
<1>3. ASSUME NEW h \in Callers, StartVehicle(h) PROVE ManagerTypeOK'
  BY <1>3 DEF StartVehicle
<1>4. ASSUME NEW h \in Callers, StartDone(h) PROVE ManagerTypeOK'
  BY <1>4 DEF StartDone, Goto
<1>5. ASSUME NEW h \in Callers, StopVehicle(h) \/ StopDone(h)
      PROVE  ManagerTypeOK'
  <2>1. CASE StopVehicle(h)
    BY <2>1 DEF StopVehicle
  <2>2. CASE StopDone(h)
    BY <2>2 DEF StopDone, Goto
  <2> QED
    BY <1>5, <2>1, <2>2
<1>6. ASSUME NEW h \in Callers, Return(h) PROVE ManagerTypeOK'
  BY <1>6 DEF Return, Goto
<1>7. ASSUME NEW c \in Objects, BeginTick(c) \/ EndTick(c) \/ EndLoop(c)
      PROVE  ManagerTypeOK'
  <2>1. CASE BeginTick(c)
    BY <2>1 DEF BeginTick
  <2>2. CASE EndTick(c)
    BY <2>2 DEF EndTick
  <2>3. CASE EndLoop(c)
    BY <2>3 DEF EndLoop
  <2>4. QED
    BY <1>7, <2>1, <2>2, <2>3
<1>8. ASSUME NEW c \in Objects, BeginCommand(c) \/ EndCommand(c)
      PROVE  ManagerTypeOK'
  BY <1>8 DEF BeginCommand, EndCommand
<1>9. CASE UNCHANGED managerVars
  BY <1>9 DEF managerVars
<1>10. QED
  BY <1>1, <1>2, <1>3, <1>4, <1>5, <1>6, <1>7, <1>8, <1>9
     DEF ManagerNext, HoldsLock

\* A vehicle's step changes nothing that Start and Stop look at, and makes no
\* loop alive that was not.
LEMMA VehicleStep ==
  ASSUME ManagerTypeOK, NEW c \in Objects,
         \/ BeginTick(c) \/ EndTick(c) \/ EndLoop(c)
         \/ BeginCommand(c) \/ EndCommand(c)
  PROVE  /\ UNCHANGED <<callVars, ctx, parent>>
         /\ \A x \in Objects : Alive(x)' <=> Alive(x)
<1>1. CASE BeginTick(c)
  BY <1>1 DEF BeginTick, ManagerTypeOK, callVars, Alive
<1>2. CASE EndTick(c)
  BY <1>2 DEF EndTick, ManagerTypeOK, callVars, Alive
<1>3. CASE EndLoop(c)
  BY <1>3 DEF EndLoop, ManagerTypeOK, callVars, Alive
<1>4. CASE BeginCommand(c) \/ EndCommand(c)
  BY <1>4 DEF BeginCommand, EndCommand, callVars, Alive
<1>5. QED
  BY <1>1, <1>2, <1>3, <1>4

LEMMA HeldStep ==
  ASSUME ManagerTypeOK, Held, [ManagerNext]_managerVars
  PROVE  Held'
<1> USE ManagerAssumption DEF ManagerTypeOK, Held, callVars, loopVars
<1>1. ASSUME NEW h \in Callers, Call(h) PROVE Held'
  BY <1>1 DEF Call, Goto
<1>2. ASSUME NEW h \in Callers, TakesLock(h) PROVE Held'
  BY <1>2 DEF TakesLock, CheckRunning, StartLock, BeginStart, StopLock, Goto
<1>3. ASSUME NEW h \in Callers, StartVehicle(h) \/ StopVehicle(h) PROVE Held'
  BY <1>3 DEF StartVehicle, StopVehicle
<1>4. ASSUME NEW h \in Callers, StartDone(h) \/ StopDone(h) PROVE Held'
  BY <1>4 DEF StartDone, StopDone, Goto
<1>5. ASSUME NEW h \in Callers, Return(h) PROVE Held'
  BY <1>5 DEF Return, Goto
<1>6. ASSUME NEW c \in Objects,
             \/ BeginTick(c) \/ EndTick(c) \/ EndLoop(c)
             \/ BeginCommand(c) \/ EndCommand(c)
      PROVE  Held'
  BY <1>6, VehicleStep
<1>7. CASE UNCHANGED managerVars
  BY <1>7 DEF managerVars
<1>8. QED
  BY <1>1, <1>2, <1>3, <1>4, <1>5, <1>6, <1>7 DEF ManagerNext, HoldsLock

\* Start fills the slots of an empty fleet in order, Stop empties a full one.
LEMMA FilledStep ==
  ASSUME ManagerTypeOK, Held, Filled, [ManagerNext]_managerVars
  PROVE  Filled'
<1> USE ManagerAssumption DEF ManagerTypeOK, Held, Filled, Settled, Slots,
        callVars, loopVars
<1>1. ASSUME NEW h \in Callers, Call(h) PROVE Filled'
  BY <1>1 DEF Call, Goto
<1>2. ASSUME NEW h \in Callers, CheckRunning(h) \/ StopLock(h) PROVE Filled'
  BY <1>2 DEF CheckRunning, StopLock, Goto
<1>3. ASSUME NEW h \in Callers, StartLock(h) PROVE Filled'
  <2>1. mlock = NoOne /\ UNCHANGED <<running, vehicles>>
    BY <1>3 DEF StartLock
  <2>2. \A g \in Callers : pc[g] \notin {"starting", "stopping"}
    BY <2>1
  <2>3. CASE running /\ Goto(h, "refused") /\ UNCHANGED <<mlock, next>>
    BY <2>1, <2>2, <2>3 DEF Goto
  <2>4. CASE ~running /\ BeginStart(h)
    <3>1. \A g \in Callers \ {h} : pc'[g] \notin {"starting", "stopping"}
      BY <2>2, <2>4 DEF BeginStart, Goto
    <3>2. pc'[h] = "starting" /\ mlock' # NoOne
      BY <2>4 DEF BeginStart, Goto
    <3>3. \A g \in Callers : next'[g] = 1
      BY <2>2, <2>4 DEF BeginStart, Filled
    <3>4. \A i \in Slots : vehicles'[i] = NoObject /\ ~(i < 1)
      BY <2>1, <2>4 DEF Filled
    <3>5. ~running' /\ ~Settled'
      BY <2>1, <2>4, <3>2
    <3>6. QED
      BY <3>1, <3>2, <3>3, <3>4, <3>5
  <2>5. QED
    BY <1>3, <2>3, <2>4 DEF StartLock
<1>4. ASSUME NEW h \in Callers, StartVehicle(h) PROVE Filled'
  BY <1>4 DEF StartVehicle
<1>5. ASSUME NEW h \in Callers, StartDone(h) PROVE Filled'
  BY <1>5 DEF StartDone, Goto
<1>6. ASSUME NEW h \in Callers, StopVehicle(h) PROVE Filled'
  BY <1>6 DEF StopVehicle
<1>7. ASSUME NEW h \in Callers, StopDone(h) PROVE Filled'
  BY <1>7 DEF StopDone, Goto
<1>8. ASSUME NEW h \in Callers, Return(h) PROVE Filled'
  BY <1>8 DEF Return, Goto
<1>9. ASSUME NEW c \in Objects,
             \/ BeginTick(c) \/ EndTick(c) \/ EndLoop(c)
             \/ BeginCommand(c) \/ EndCommand(c)
      PROVE  Filled'
  BY <1>9, VehicleStep
<1>10. CASE UNCHANGED managerVars
  BY <1>10 DEF managerVars
<1>11. QED
  BY <1>1, <1>2, <1>3, <1>4, <1>5, <1>6, <1>7, <1>8, <1>9, <1>10
     DEF ManagerNext, HoldsLock, TakesLock

\* Start puts a new object into an empty slot only; Stop cancels what it takes
\* out.
LEMMA OwnedStep ==
  ASSUME ManagerIInv, [ManagerNext]_managerVars
  PROVE  Owned'
<1> USE ManagerAssumption DEF ManagerIInv, ManagerTypeOK, Owned, Slots
<1>1. ASSUME NEW h \in Callers, Call(h) \/ TakesLock(h) PROVE Owned'
  <2>1. UNCHANGED <<vehicles, loopVars>>
    BY <1>1 DEF Call, TakesLock, CheckRunning, StartLock, StopLock
  <2>2. QED
    BY <2>1 DEF loopVars, Alive, Member
<1>2. ASSUME NEW h \in Callers, StartVehicle(h) PROVE Owned'
  <2>1. vehicles[next[h]] = NoObject
    BY <1>2 DEF StartVehicle, Filled
  <2>2. PICK c \in Objects :
          /\ vehicles' = [vehicles EXCEPT ![next[h]] = c]
          /\ loop' = [loop EXCEPT ![c] = "waiting"]
          /\ ctx' = [ctx EXCEPT ![c] = "live"]
    BY <1>2 DEF StartVehicle
  <2>3. next[h] \in Slots
    BY <1>2 DEF StartVehicle
  <2>4. ASSUME NEW x \in Objects, Alive(x)' PROVE Member(x)'
    <3>1. CASE x = c
      BY <2>2, <2>3, <3>1 DEF Member
    <3>2. CASE x # c
      BY <2>1, <2>2, <2>4, <3>2 DEF Alive, Member
    <3>3. QED
      BY <3>1, <3>2
  <2>5. QED
    BY <2>4
<1>3. ASSUME NEW h \in Callers, StartDone(h) \/ StopDone(h) PROVE Owned'
  BY <1>3 DEF StartDone, StopDone, loopVars, Alive, Member
<1>4. ASSUME NEW h \in Callers, StopVehicle(h) PROVE Owned'
  BY <1>4 DEF StopVehicle, Alive, Member
<1>5. ASSUME NEW h \in Callers, Return(h) PROVE Owned'
  BY <1>5 DEF Return, Alive, Member
<1>6. ASSUME NEW c \in Objects,
             \/ BeginTick(c) \/ EndTick(c) \/ EndLoop(c)
             \/ BeginCommand(c) \/ EndCommand(c)
      PROVE  Owned'
  BY <1>6, VehicleStep DEF callVars, Member
<1>7. CASE UNCHANGED managerVars
  BY <1>7 DEF managerVars, Alive, Member
<1>8. QED
  BY <1>1, <1>2, <1>3, <1>4, <1>5, <1>6, <1>7 DEF ManagerNext, HoldsLock

LEMMA ManagerIInvInit ==
  ASSUME ManagerInit
  PROVE  ManagerIInv
<1> USE ManagerAssumption DEF ManagerInit
<1>1. ManagerTypeOK
  <2>1. 1 \in 1 .. Count + 1
    OBVIOUS
  <2>2. next \in [Callers -> 1 .. Count + 1]
    BY <2>1
  <2>3. QED
    BY <2>2 DEF ManagerTypeOK
<1>2. Held
  BY DEF Held
<1>3. Filled
  BY DEF Filled, Settled, Slots
<1>4. Owned
  BY DEF Owned, Alive
<1>5. QED
  BY <1>1, <1>2, <1>3, <1>4 DEF ManagerIInv

LEMMA ManagerIInvStep ==
  ASSUME ManagerIInv, [ManagerNext]_managerVars
  PROVE  ManagerIInv'
BY ManagerTypeStep, HeldStep, FilledStep, OwnedStep DEF ManagerIInv

\* The invariant above holds of every behaviour.
LEMMA ManagerInvariant == ManagerSpec => []ManagerIInv
BY ManagerIInvInit, ManagerIInvStep, PTL DEF ManagerSpec

\* The state of the manager has its type.
THEOREM ManagerTypeCorrect == ManagerSpec => []ManagerTypeOK
BY ManagerInvariant, PTL DEF ManagerIInv

\* However Start, Stop and scenarios overlap, no loop is left running outside
\* the fleet: Start never overwrites a vehicle, Stop cancels all it removes.
THEOREM NoOrphansEver == ManagerSpec => []NoOrphans
<1>1. ManagerIInv => NoOrphans
  BY DEF ManagerIInv, Owned, NoOrphans
<1>2. QED
  BY <1>1, ManagerInvariant, PTL

-----------------------------------------------------------------------------
(* Fleets that only scenarios start.                                       *)

LEMMA LivelyInit ==
  ASSUME ManagerInit
  PROVE  Lively
BY DEF ManagerInit, Lively

LEMMA LivelyStep ==
  ASSUME "simStart" \notin Calls,
         ManagerIInv, Lively, [ManagerNext]_managerVars
  PROVE  Lively'
<1> USE ManagerAssumption DEF ManagerIInv, ManagerTypeOK, Lively, Slots
<1>1. ASSUME NEW h \in Callers, Call(h) PROVE Lively'
  BY <1>1 DEF Call, Goto, loopVars, Alive
<1>2. ASSUME NEW h \in Callers,
             TakesLock(h) \/ StartDone(h) \/ StopDone(h)
      PROVE  Lively'
  <2>1. UNCHANGED <<vehicles, kind, loopVars>>
    BY <1>2 DEF TakesLock, CheckRunning, StartLock, StopLock, StartDone,
                StopDone
  <2>2. QED
    BY <2>1 DEF loopVars, Alive
<1>3. ASSUME NEW h \in Callers, StartVehicle(h) PROVE Lively'
  <2>1. PICK c \in Objects :
          /\ Unused(c)
          /\ vehicles' = [vehicles EXCEPT ![next[h]] = c]
          /\ loop' = [loop EXCEPT ![c] = "waiting"]
          /\ ctx' = [ctx EXCEPT ![c] = "live"]
          /\ parent' = [parent EXCEPT ![c] =
                          IF kind[h] = "simStart" THEN h ELSE NoOne]
    BY <1>3 DEF StartVehicle
  <2>2. \A i \in Slots : vehicles[i] # c
    BY <2>1 DEF Unused, Member
  <2>3. next[h] \in Slots /\ kind' = kind
    BY <1>3 DEF StartVehicle
  <2>5. \A i \in Slots : vehicles'[i] # NoObject => Alive(vehicles[i])'
    <3> SUFFICES ASSUME NEW i \in Slots, vehicles'[i] # NoObject
                 PROVE  loop'[vehicles'[i]] # "ended" /\ ctx'[vehicles'[i]] = "live"
      BY DEF Alive
    <3>1. CASE i = next[h]
      BY <2>1, <2>3, <3>1
    <3>2. CASE i # next[h]
      BY <2>1, <2>2, <2>3, <3>2 DEF Alive
    <3>3. QED
      BY <3>1, <3>2
  <2>6. \A i, j \in Slots :
          vehicles'[i] # NoObject /\ vehicles'[i] = vehicles'[j] => i = j
    BY <2>1, <2>2, <2>3
  <2>7. \A x \in Objects : parent'[x] = NoOne
    BY <2>1
  <2>8. QED
    BY <2>3, <2>5, <2>6, <2>7 DEF Alive
<1>4. ASSUME NEW h \in Callers, StopVehicle(h) PROVE Lively'
  BY <1>4 DEF StopVehicle, Alive
<1>5. ASSUME NEW h \in Callers, Return(h) PROVE Lively'
  BY <1>5 DEF Return, Alive
<1>6. ASSUME NEW c \in Objects,
             \/ BeginTick(c) \/ EndTick(c) \/ EndLoop(c)
             \/ BeginCommand(c) \/ EndCommand(c)
      PROVE  Lively'
  <2>1. UNCHANGED <<vehicles, kind, parent>>
        /\ \A x \in Objects : Alive(x)' <=> Alive(x)
    BY <1>6, VehicleStep DEF callVars
  <2>2. \A i \in Slots : vehicles[i] # NoObject => vehicles[i] \in Objects
    OBVIOUS
  <2>3. \A i \in Slots : vehicles'[i] # NoObject => Alive(vehicles[i])'
    BY <2>1, <2>2
  <2>4. QED
    BY <2>1, <2>3 DEF Alive
<1>7. CASE UNCHANGED managerVars
  BY <1>7 DEF managerVars, Alive
<1>8. QED
  BY <1>1, <1>2, <1>3, <1>4, <1>5, <1>6, <1>7 DEF ManagerNext, HoldsLock

\* When only scenarios start the fleet, a fleet that is marked as running has
\* all its vehicles and their loops go on.  RequestContext shows why the
\* assumption is needed.
THEOREM AliveUnlessRequested ==
  ASSUME "simStart" \notin Calls
  PROVE  ManagerSpec => []AliveWhileRunning
<1>1. ManagerIInv /\ Lively => AliveWhileRunning
  BY DEF ManagerIInv, Filled, Lively, AliveWhileRunning
<1>2. ManagerIInv /\ Lively /\ [ManagerNext]_managerVars => Lively'
  BY LivelyStep
<1>3. QED
  BY <1>1, <1>2, LivelyInit, ManagerInvariant, PTL DEF ManagerSpec

=============================================================================
