--------------------------- MODULE ServiceProofs ----------------------------
(***************************************************************************)
(* What holds of the two services for any orders, vehicles, callers,       *)
(* workers and reports, and any bound on the clock.                        *)
(*                                                                         *)
(* Timeline of OrderService, whether or not callers overlap, is not        *)
(* inductive alone: TransitionUpdate writes a row that was read earlier.   *)
(* The invariant also says that the row held by every call in flight was a *)
(* good row when it was read, that the call is about to follow an edge of  *)
(* the table from it, and that every timestamp, stored or held, lies in    *)
(* the past of the clock reading the call will use.                        *)
(*                                                                         *)
(* VehicleTypeOK holds of VehicleService whatever overlaps and fails, and  *)
(* CacheAgrees under Serial.  CacheAgrees speaks of vehicles with no call  *)
(* in flight.  The invariant behind it says, for a call at each of its     *)
(* steps, what the call holds and what the cache holds meanwhile, so that  *)
(* the last step of the call leaves cache and database in step.            *)
(***************************************************************************)
EXTENDS OrderService, VehicleService, TLAPS

-----------------------------------------------------------------------------
(* OrderService.                                                           *)

\* Every timestamp of the row is at most t.
StampedBy(row, t) ==
  /\ row.assigned_at  <= t
  /\ row.picked_up_at <= t
  /\ row.delivered_at <= t

\* A call will stamp with a reading in since..clock.
CallOK(call) ==
  /\ call \in TransitionCall \cup AssignCall => call.since \in 1 .. clock
  /\ call \in TransitionCall =>
       /\ TimelineOK(call.row)
       /\ StampedBy(call.row, call.since)
       /\ CanTransitionTo(call.row.status, call.next)

OrderIInv ==
  /\ OrderTypeOK
  /\ clock >= 1
  /\ \A o \in Orders : TimelineOK(orders[o]) /\ StampedBy(orders[o], clock)
  /\ \A c \in Callers : CallOK(ocalls[c])

-----------------------------------------------------------------------------

\* The row Transition builds is a good row: the snapshot it starts from is
\* good, the edge is in the table, and now is not before any stamp in it.
LEMMA StampedRowOK ==
  ASSUME NEW row \in Row, NEW next \in OrderStatus, NEW now \in Nat,
         now >= 1, TimelineOK(row), StampedBy(row, now),
         CanTransitionTo(row.status, next),
         NEW v \in Vehicles \cup {NoVehicle}
  PROVE  LET new == [Stamped(row, next, now) EXCEPT !.vehicle_id = v]
         IN  /\ new \in Row
             /\ TimelineOK(new)
             /\ StampedBy(new, now)
<1> DEFINE new == [Stamped(row, next, now) EXCEPT !.vehicle_id = v]
<1>1. /\ new \in Row
      /\ new.status = next
      /\ new.assigned_at  = IF next = "assigned"  THEN now ELSE row.assigned_at
      /\ new.picked_up_at = IF next = "picked_up" THEN now ELSE row.picked_up_at
      /\ new.delivered_at = IF next = "delivered" THEN now ELSE row.delivered_at
  BY DEF Row, Stamped, OrderStatus
<1>2. /\ row.assigned_at \in Nat
      /\ row.picked_up_at \in Nat
      /\ row.delivered_at \in Nat
  BY DEF Row
<1>3. StampedBy(new, now)
  BY <1>1, <1>2 DEF StampedBy
<1>4. TimelineOK(new)
  BY <1>1, <1>2 DEF TimelineOK, StampedBy, CanTransitionTo, ValidTransitions
<1>5. QED
  BY <1>1, <1>3, <1>4

\* The row Assign leaves is a good row whatever it was before.
LEMMA AssignedRowOK ==
  ASSUME NEW row \in Row, NEW v \in Vehicles, NEW now \in Nat, now >= 1,
         NEW t \in Nat, now <= t, StampedBy(row, t)
  PROVE  /\ AssignedRow(row, v, now) \in Row
         /\ TimelineOK(AssignedRow(row, v, now))
         /\ StampedBy(AssignedRow(row, v, now), t)
<1> DEFINE new == AssignedRow(row, v, now)
<1>1. /\ new \in Row
      /\ new.status = "assigned"
      /\ new.assigned_at = now
      /\ new.picked_up_at = row.picked_up_at
      /\ new.delivered_at = row.delivered_at
  BY DEF Row, AssignedRow, OrderStatus
<1> HIDE DEF new
<1>2. TimelineOK(new) /\ StampedBy(new, t)
  BY <1>1 DEF TimelineOK, StampedBy
<1>3. QED
  BY <1>1, <1>2 DEF new

\* A later clock keeps every bound.
LEMMA StampedByLater ==
  ASSUME NEW row \in Row, NEW s \in Nat, NEW t \in Nat, s <= t,
         StampedBy(row, s)
  PROVE  StampedBy(row, t)
BY DEF Row, StampedBy

LEMMA OrderInitIInv == OrderInit => OrderIInv
BY DEF OrderInit, OrderIInv, OrderTypeOK, NoOrderRow, Row, NoCall, TimelineOK,
       StampedBy, CallOK, TransitionCall, AssignCall, OrderStatus

LEMMA OrderNextIInv == OrderIInv /\ [OrderNext]_orderVars => OrderIInv'
<1> SUFFICES ASSUME OrderIInv, [OrderNext]_orderVars
             PROVE  OrderIInv'
  OBVIOUS
<1> USE DEF OrderIInv
<1>1. CASE Tick
  <2>1. clock \in Nat /\ clock' \in Nat /\ clock <= clock'
    BY <1>1 DEF Tick, OrderTypeOK
  <2>2. ASSUME NEW o \in Orders
        PROVE  TimelineOK(orders'[o]) /\ StampedBy(orders'[o], clock')
    BY <1>1, <2>1, StampedByLater DEF Tick, OrderTypeOK
  <2>3. ASSUME NEW c \in Callers
        PROVE  CallOK(ocalls[c])'
    BY <1>1, <2>1 DEF Tick, CallOK
  <2>4. QED
    BY <1>1, <2>1, <2>2, <2>3 DEF Tick, OrderTypeOK
<1>2. ASSUME NEW o \in Orders, Create(o)
      PROVE  OrderIInv'
  <2>1. [orders[o] EXCEPT !.status = "pending"] \in Row
    BY DEF OrderTypeOK, Row, OrderStatus
  <2>2. /\ TimelineOK([orders[o] EXCEPT !.status = "pending"])
        /\ StampedBy([orders[o] EXCEPT !.status = "pending"], clock)
    BY DEF TimelineOK, StampedBy, OrderTypeOK, Row
  <2>3. ASSUME NEW c \in Callers
        PROVE  CallOK(ocalls[c])'
    BY <1>2 DEF Create, CallOK
  <2>4. QED
    BY <1>2, <2>1, <2>2, <2>3 DEF Create, OrderTypeOK
<1>3. ASSUME NEW c \in Callers, NEW o \in Orders, NEW next \in OrderStatus,
             BeginTransition(c, o, next)
      PROVE  OrderIInv'
  <2> DEFINE call == [op |-> "transition", id |-> o, next |-> next,
                      row |-> orders[o], since |-> clock]
  <2>1. call \in TransitionCall /\ call \notin AssignCall
    BY DEF OrderTypeOK, TransitionCall, AssignCall
  <2>2. CallOK(call)
    BY <1>3, <2>1 DEF BeginTransition, CallOK, OrderTypeOK
  <2>3. CallOK(call)'
    BY <1>3, <2>2 DEF BeginTransition, CallOK
  <2>4. ASSUME NEW d \in Callers
        PROVE  CallOK(ocalls[d])'
    <3>1. ocalls'[d] = IF d = c THEN call ELSE ocalls[d]
      BY <1>3 DEF BeginTransition, OrderTypeOK
    <3>2. QED
      BY <1>3, <2>3, <3>1 DEF BeginTransition, CallOK
  <2>5. OrderTypeOK'
    BY <1>3, <2>1 DEF BeginTransition, OrderTypeOK
  <2>6. QED
    BY <1>3, <2>4, <2>5 DEF BeginTransition
<1>4. ASSUME NEW c \in Callers, NEW o \in Orders, NEW v \in Vehicles,
             BeginAssign(c, o, v)
      PROVE  OrderIInv'
  <2> DEFINE call == [op |-> "assign", id |-> o, vehicle |-> v,
                      since |-> clock]
  <2>1. call \in AssignCall /\ call \notin TransitionCall
    BY DEF OrderTypeOK, TransitionCall, AssignCall
  <2>2. CallOK(call)'
    BY <1>4, <2>1 DEF BeginAssign, CallOK, OrderTypeOK
  <2>3. ASSUME NEW d \in Callers
        PROVE  CallOK(ocalls[d])'
    <3>1. ocalls'[d] = IF d = c THEN call ELSE ocalls[d]
      BY <1>4 DEF BeginAssign, OrderTypeOK
    <3>2. QED
      BY <1>4, <2>2, <3>1 DEF BeginAssign, CallOK
  <2>4. OrderTypeOK'
    BY <1>4, <2>1 DEF BeginAssign, OrderTypeOK
  <2>5. QED
    BY <1>4, <2>3, <2>4 DEF BeginAssign
<1>5. ASSUME NEW c \in Callers, TransitionUpdate(c)
      PROVE  OrderIInv'
  <2> DEFINE call == ocalls[c]
             o    == call.id
  <2>1. call \in TransitionCall /\ CallOK(call)
    BY <1>5 DEF TransitionUpdate, OrderTypeOK, NoCall, AssignCall
  <2>2. /\ o \in Orders
        /\ call.row \in Row
        /\ call.next \in OrderStatus
        /\ call.since \in Nat
    BY <2>1 DEF TransitionCall
  <2>3. PICK now \in call.since .. clock :
          orders' = [orders EXCEPT ![o] =
                       [Stamped(call.row, call.next, now)
                          EXCEPT !.vehicle_id = orders[o].vehicle_id]]
    BY <1>5 DEF TransitionUpdate
  <2>4. now \in Nat /\ now >= 1 /\ call.since <= now /\ now <= clock
    BY <2>1, <2>2, <2>3 DEF CallOK, OrderTypeOK
  <2> DEFINE new == [Stamped(call.row, call.next, now)
                       EXCEPT !.vehicle_id = orders[o].vehicle_id]
  <2>5. orders[o].vehicle_id \in Vehicles \cup {NoVehicle}
    BY <2>2 DEF OrderTypeOK, Row
  <2>6. /\ TimelineOK(call.row)
        /\ StampedBy(call.row, call.since)
        /\ CanTransitionTo(call.row.status, call.next)
    BY <2>1 DEF CallOK
  <2>7. StampedBy(call.row, now)
    BY <2>2, <2>4, <2>6, StampedByLater
  <2>8. new \in Row /\ TimelineOK(new) /\ StampedBy(new, now)
    BY <2>2, <2>4, <2>5, <2>6, <2>7, StampedRowOK
  <2>9. StampedBy(new, clock)
    BY <2>4, <2>8, StampedByLater DEF OrderTypeOK
  <2>10. orders' = [orders EXCEPT ![o] = new] /\ clock' = clock
    BY <1>5, <2>3 DEF TransitionUpdate
  <2> HIDE DEF new
  <2>11. ASSUME NEW p \in Orders
         PROVE  TimelineOK(orders'[p]) /\ StampedBy(orders'[p], clock')
    BY <2>8, <2>9, <2>10 DEF OrderTypeOK
  <2>12. ASSUME NEW d \in Callers
         PROVE  CallOK(ocalls[d])'
    <3>1. ocalls'[d] = IF d = c THEN NoCall ELSE ocalls[d]
      BY <1>5 DEF TransitionUpdate, Return, OrderTypeOK
    <3>2. NoCall \notin TransitionCall \cup AssignCall
      BY DEF NoCall, TransitionCall, AssignCall
    <3>3. QED
      BY <2>10, <3>1, <3>2 DEF CallOK
  <2>13. OrderTypeOK'
    BY <1>5, <2>2, <2>8, <2>10 DEF TransitionUpdate, Return, OrderTypeOK
  <2>14. QED
    BY <2>10, <2>11, <2>12, <2>13
<1>6. ASSUME NEW c \in Callers, AssignUpdate(c)
      PROVE  OrderIInv'
  <2> DEFINE call == ocalls[c]
             o    == call.id
  <2>1. call \in AssignCall /\ CallOK(call)
    BY <1>6 DEF AssignUpdate, OrderTypeOK, NoCall, TransitionCall
  <2>2. o \in Orders /\ call.vehicle \in Vehicles /\ call.since \in Nat
    BY <2>1 DEF AssignCall
  <2>3. PICK now \in call.since .. clock :
          orders' = [orders EXCEPT ![o] = AssignedRow(@, call.vehicle, now)]
    BY <1>6 DEF AssignUpdate
  <2>4. now \in Nat /\ now >= 1 /\ now <= clock
    BY <2>1, <2>2, <2>3 DEF CallOK, OrderTypeOK
  <2> DEFINE new == AssignedRow(orders[o], call.vehicle, now)
  <2>5. new \in Row /\ TimelineOK(new) /\ StampedBy(new, clock)
    BY <2>2, <2>4, AssignedRowOK DEF OrderTypeOK
  <2>6. orders' = [orders EXCEPT ![o] = new] /\ clock' = clock
    BY <1>6, <2>3 DEF AssignUpdate
  <2> HIDE DEF new
  <2>7. ASSUME NEW p \in Orders
        PROVE  TimelineOK(orders'[p]) /\ StampedBy(orders'[p], clock')
    BY <2>5, <2>6 DEF OrderTypeOK
  <2>8. ASSUME NEW d \in Callers
        PROVE  CallOK(ocalls[d])'
    <3>1. ocalls'[d] = IF d = c THEN NoCall ELSE ocalls[d]
      BY <1>6 DEF AssignUpdate, Return, OrderTypeOK
    <3>2. NoCall \notin TransitionCall \cup AssignCall
      BY DEF NoCall, TransitionCall, AssignCall
    <3>3. QED
      BY <2>6, <3>1, <3>2 DEF CallOK
  <2>9. OrderTypeOK'
    BY <1>6, <2>2, <2>5, <2>6 DEF AssignUpdate, Return, OrderTypeOK
  <2>10. QED
    BY <2>6, <2>7, <2>8, <2>9
<1>7. ASSUME NEW c \in Callers, UpdateFails(c)
      PROVE  OrderIInv'
  <2>1. ASSUME NEW d \in Callers
        PROVE  CallOK(ocalls[d])'
    <3>1. ocalls'[d] = IF d = c THEN NoCall ELSE ocalls[d]
      BY <1>7 DEF UpdateFails, Return, OrderTypeOK
    <3>2. NoCall \notin TransitionCall \cup AssignCall
      BY DEF NoCall, TransitionCall, AssignCall
    <3>3. QED
      BY <1>7, <3>1, <3>2 DEF UpdateFails, CallOK
  <2>2. QED
    BY <1>7, <2>1 DEF UpdateFails, Return, OrderTypeOK
<1>8. CASE UNCHANGED orderVars
  BY <1>8 DEF orderVars, OrderTypeOK, CallOK
<1>9. QED
  BY <1>1, <1>2, <1>3, <1>4, <1>5, <1>6, <1>7, <1>8 DEF OrderNext

\* The variables keep their types.
THEOREM OrderTypeCorrect == OrderSpec => []OrderTypeOK
<1>1. OrderIInv => OrderTypeOK
  BY DEF OrderIInv
<1>2. QED
  BY <1>1, OrderInitIInv, OrderNextIInv, PTL DEF OrderSpec

\* Every row of the orders table tells one story, under every interleaving
\* of Create, Transition and Assign and every lost update among them.
THEOREM TimelineCorrect == OrderSpec => []Timeline
<1>1. OrderIInv => Timeline
  BY DEF OrderIInv, Timeline
<1>2. QED
  BY <1>1, OrderInitIInv, OrderNextIInv, PTL DEF OrderSpec

-----------------------------------------------------------------------------
(* VehicleService.                                                         *)

\* Calls about one vehicle take turns, and commands do not fail.
Serial == OneCallPerVehicle /\ RegisteredFirst /\ ~RedisFaults /\ ~DBFaults

Agrees(v) ==
  cache[v] # Absent =>
    /\ Registered(v)
    /\ cache[v].report = db[v].report
    /\ cache[v].status \in {db[v].status, BlankStatus}

\* What holds while call is about to run its next command.
Midway(call) ==
  LET v == call.id
      entry == call.entry
  IN  /\ call.step = "telemetrySet" =>
           Registered(v) /\ entry.status \in {HeardFrom(db[v].status), BlankStatus}
      /\ call.step = "telemetryDB" =>
           /\ Registered(v)
           /\ entry.status \in {HeardFrom(db[v].status), BlankStatus}
           /\ cache[v] \in {Absent, entry}
      /\ call.step = "statusGet" =>
           /\ Registered(v)
           /\ entry.status = db[v].status
           /\ cache[v] # Absent => cache[v].report = db[v].report
      /\ call.step = "statusSet" => Registered(v) /\ entry = db[v]
      /\ call.step = "getDB" => cache[v] = Absent
      /\ call.step = "getFill" =>
           Registered(v) /\ entry = db[v] /\ cache[v] = Absent

OneCallEach ==
  \A w1, w2 \in Workers :
    /\ vcalls[w1] # NoVehicleCall
    /\ vcalls[w2] # NoVehicleCall
    /\ vcalls[w1].id = vcalls[w2].id
    => w1 = w2

CacheIInv ==
  /\ VehicleTypeOK
  /\ OneCallEach
  /\ \A v \in Vehicles : Quiet(v) => Agrees(v)
  /\ \A w \in Workers : vcalls[w] # NoVehicleCall => Midway(vcalls[w])

-----------------------------------------------------------------------------

\* Facts about the records that the proofs use over and over.
LEMMA RecordFacts ==
  /\ Absent \notin VehicleRow
  /\ Absent \notin CacheEntry
  /\ NoVehicleCall \notin VehicleCall
  /\ VehicleRow \subseteq CacheEntry
  /\ \A s \in VehicleStatus \cup {BlankStatus} :
       /\ HeardFrom(s) \in VehicleStatus \cup {BlankStatus}
       /\ HeardFrom(HeardFrom(s)) = HeardFrom(s)
       /\ s \in VehicleStatus => HeardFrom(s) \in VehicleStatus
<1>1. Absent \notin VehicleRow /\ Absent \notin CacheEntry
  BY DEF Absent, VehicleRow, CacheEntry, VehicleStatus, BlankStatus
<1>2. NoVehicleCall \notin VehicleCall
  BY DEF NoVehicleCall, VehicleCall
<1>3. VehicleRow \subseteq CacheEntry
  BY DEF VehicleRow, CacheEntry
<1>4. \A s \in VehicleStatus \cup {BlankStatus} :
        /\ HeardFrom(s) \in VehicleStatus \cup {BlankStatus}
        /\ HeardFrom(HeardFrom(s)) = HeardFrom(s)
        /\ s \in VehicleStatus => HeardFrom(s) \in VehicleStatus
  BY DEF HeardFrom, VehicleStatus, BlankStatus
<1> QED
  BY <1>1, <1>2, <1>3, <1>4

\* Starting or continuing a call is well typed.
LEMMA ContinueType ==
  ASSUME VehicleTypeOK, NEW w \in Workers, NEW v \in Vehicles,
         NEW entry \in CacheEntry,
         NEW step \in {"telemetrySet", "telemetryDB", "statusGet",
                       "statusSet", "getDB", "getFill"},
         Continue(w, step, v, entry)
  PROVE  vcalls' \in [Workers -> VehicleCall \cup {NoVehicleCall}]
<1>1. [step |-> step, id |-> v, entry |-> entry] \in VehicleCall
  BY DEF VehicleCall
<1> QED
  BY <1>1 DEF VehicleTypeOK, Continue

LEMMA DoneType ==
  ASSUME VehicleTypeOK, NEW w \in Workers, Done(w)
  PROVE  vcalls' \in [Workers -> VehicleCall \cup {NoVehicleCall}]
BY DEF VehicleTypeOK, Done

\* A call in flight is about a vehicle and holds an entry.
LEMMA CallType ==
  ASSUME VehicleTypeOK, NEW w \in Workers, vcalls[w] # NoVehicleCall
  PROVE  /\ vcalls[w] \in VehicleCall
         /\ vcalls[w].id \in Vehicles
         /\ vcalls[w].entry \in CacheEntry
BY DEF VehicleTypeOK, VehicleCall

LEMMA CacheSetType ==
  ASSUME VehicleTypeOK, NEW v \in Vehicles, NEW entry \in CacheEntry,
         CacheSet(v, entry)
  PROVE  cache' \in [Vehicles -> CacheEntry \cup {Absent}]
BY DEF VehicleTypeOK, CacheSet

\* What a read of the cache returns is an entry or a miss.
LEMMA CacheGetType ==
  ASSUME VehicleTypeOK, NEW v \in Vehicles, NEW seen \in CacheGet(v)
  PROVE  seen \in CacheEntry \cup {Absent}
BY DEF VehicleTypeOK, CacheGet

LEMMA ReportType ==
  ASSUME NEW s \in VehicleStatus \cup {BlankStatus},
         NEW r \in Reports \cup {NoReport}
  PROVE  [status |-> s, report |-> r] \in CacheEntry
BY DEF CacheEntry

\* Every step of the service keeps the types.
LEMMA VehicleNextTypeOK == VehicleTypeOK /\ [VehicleNext]_vehicleVars => VehicleTypeOK'
<1> SUFFICES ASSUME VehicleTypeOK, [VehicleNext]_vehicleVars
             PROVE  VehicleTypeOK'
  OBVIOUS
<1>t. /\ db \in [Vehicles -> VehicleRow \cup {Absent}]
      /\ cache \in [Vehicles -> CacheEntry \cup {Absent}]
      /\ vcalls \in [Workers -> VehicleCall \cup {NoVehicleCall}]
  BY DEF VehicleTypeOK
<1>1. ASSUME NEW v \in Vehicles, Register(v) PROVE VehicleTypeOK'
  <2>1. [status |-> "offline", report |-> NoReport] \in VehicleRow
    BY DEF VehicleRow, VehicleStatus
  <2> QED
    BY <1>1, <1>t, <2>1 DEF Register, VehicleTypeOK
<1>2. ASSUME NEW v \in Vehicles, Expire(v) PROVE VehicleTypeOK'
  BY <1>2, <1>t DEF Expire, VehicleTypeOK
<1>3. ASSUME NEW w \in Workers, NEW v \in Vehicles, NEW r \in Reports,
             UpdateTelemetry(w, v, r)
      PROVE  VehicleTypeOK'
  <2>1. PICK seen \in CacheGet(v) :
          Continue(w, "telemetrySet", v,
            [status |-> HeardFrom(IF seen = Absent THEN BlankStatus
                                                   ELSE seen.status),
             report |-> r])
    BY <1>3 DEF UpdateTelemetry
  <2>2. (IF seen = Absent THEN BlankStatus ELSE seen.status)
          \in VehicleStatus \cup {BlankStatus}
    BY CacheGetType DEF CacheEntry
  <2>3. vcalls' \in [Workers -> VehicleCall \cup {NoVehicleCall}]
    BY <2>1, <2>2, RecordFacts, ReportType, ContinueType
  <2> QED
    BY <2>3, <1>3, <1>t DEF UpdateTelemetry, VehicleTypeOK
<1>4. ASSUME NEW w \in Workers, TelemetryCacheSet(w) PROVE VehicleTypeOK'
  <2>1. vcalls[w].id \in Vehicles /\ vcalls[w].entry \in CacheEntry
    BY <1>4, CallType DEF TelemetryCacheSet, AtStep
  <2> QED
    BY <2>1, <1>4, <1>t, CacheSetType, ContinueType
    DEF TelemetryCacheSet, VehicleTypeOK
<1>5. ASSUME NEW w \in Workers, TelemetryDBUpdate(w) PROVE VehicleTypeOK'
  <2> DEFINE v == vcalls[w].id
             row == [status |-> HeardFrom(db[v].status),
                     report |-> vcalls[w].entry.report]
  <2>1. v \in Vehicles /\ vcalls[w].entry \in CacheEntry
    BY <1>5, CallType DEF TelemetryDBUpdate, AtStep
  <2>2. Registered(v) => db[v] \in VehicleRow
    BY <2>1, <1>t DEF Registered
  <2>3. Registered(v) => row \in VehicleRow
    BY <2>1, <2>2, RecordFacts DEF VehicleRow, CacheEntry
  <2>4. db' = db \/ (Registered(v) /\ db' = [db EXCEPT ![v] = row])
    BY <1>5, <2>1, <1>t DEF TelemetryDBUpdate
  <2> QED
    BY <2>1, <2>3, <2>4, <1>5, <1>t, DoneType DEF TelemetryDBUpdate, VehicleTypeOK
<1>6. ASSUME NEW w \in Workers, NEW v \in Vehicles, NEW s \in VehicleStatus,
             SetStatus(w, v, s)
      PROVE  VehicleTypeOK'
  <2>1. db' \in [Vehicles -> VehicleRow \cup {Absent}]
    BY <1>6, <1>t DEF SetStatus, Registered, VehicleRow
  <2>2. vcalls' \in [Workers -> VehicleCall \cup {NoVehicleCall}]
    BY <1>6, <1>t, ReportType, ContinueType DEF SetStatus
  <2> QED
    BY <2>1, <2>2, <1>6, <1>t DEF SetStatus, VehicleTypeOK
<1>7. ASSUME NEW w \in Workers, StatusCacheGet(w) PROVE VehicleTypeOK'
  <2>1. vcalls[w].id \in Vehicles /\ vcalls[w].entry \in CacheEntry
    BY <1>7, CallType DEF StatusCacheGet, AtStep
  <2>2. PICK seen \in CacheGet(vcalls[w].id) :
          IF seen = Absent
          THEN Done(w)
          ELSE Continue(w, "statusSet", vcalls[w].id,
                        [status |-> vcalls[w].entry.status,
                         report |-> seen.report])
    BY <1>7 DEF StatusCacheGet
  <2>3. seen # Absent =>
          [status |-> vcalls[w].entry.status, report |-> seen.report]
             \in CacheEntry
    BY <2>1, CacheGetType DEF CacheEntry
  <2>4. vcalls' \in [Workers -> VehicleCall \cup {NoVehicleCall}]
    BY <2>1, <2>2, <2>3, DoneType, ContinueType
  <2> QED
    BY <2>4, <1>7, <1>t DEF StatusCacheGet, VehicleTypeOK
<1>8. ASSUME NEW w \in Workers, StatusCacheSet(w) PROVE VehicleTypeOK'
  <2>1. vcalls[w].id \in Vehicles /\ vcalls[w].entry \in CacheEntry
    BY <1>8, CallType DEF StatusCacheSet, AtStep
  <2> QED
    BY <2>1, <1>8, <1>t, CacheSetType, DoneType DEF StatusCacheSet, VehicleTypeOK
<1>9. ASSUME NEW w \in Workers, NEW v \in Vehicles, GetVehicle(w, v)
      PROVE  VehicleTypeOK'
  BY <1>9, <1>t, ReportType, ContinueType DEF GetVehicle, VehicleTypeOK
<1>10. ASSUME NEW w \in Workers, GetVehicleDB(w) PROVE VehicleTypeOK'
  <2>1. vcalls[w].id \in Vehicles
    BY <1>10, CallType DEF GetVehicleDB, AtStep
  <2>2. Registered(vcalls[w].id) => db[vcalls[w].id] \in CacheEntry
    BY <2>1, <1>t, RecordFacts DEF Registered
  <2>3. vcalls' \in [Workers -> VehicleCall \cup {NoVehicleCall}]
    BY <2>1, <2>2, <1>10, ContinueType, DoneType DEF GetVehicleDB
  <2> QED
    BY <2>3, <1>10, <1>t DEF GetVehicleDB, VehicleTypeOK
<1>11. ASSUME NEW w \in Workers, GetVehicleFill(w) PROVE VehicleTypeOK'
  <2>1. vcalls[w].id \in Vehicles /\ vcalls[w].entry \in CacheEntry
    BY <1>11, CallType DEF GetVehicleFill, AtStep
  <2> QED
    BY <2>1, <1>11, <1>t, CacheSetType, DoneType DEF GetVehicleFill, VehicleTypeOK
<1>12. CASE UNCHANGED vehicleVars
  BY <1>12, <1>t DEF vehicleVars, VehicleTypeOK
<1> QED
  BY <1>1, <1>2, <1>3, <1>4, <1>5, <1>6, <1>7, <1>8, <1>9, <1>10, <1>11, <1>12
  DEF VehicleNext, CallStep

\* Whatever overlaps and whatever fails, rows, cached values and calls stay of
\* their types: a row is never half written.
THEOREM VehicleTypeCorrect == VehicleSpec => []VehicleTypeOK
<1>1. VehicleInit => VehicleTypeOK
  BY DEF VehicleInit, VehicleTypeOK
<1> QED
  BY <1>1, VehicleNextTypeOK, PTL DEF VehicleSpec

-----------------------------------------------------------------------------

\* A step of worker w about vehicle v: every other vehicle and every other
\* call is as before, so it is enough to look at v.
LEMMA OneVehicle ==
  ASSUME CacheIInv, VehicleTypeOK', NEW v \in Vehicles, NEW w \in Workers,
         \A u \in Vehicles \ {v} : db'[u] = db[u] /\ cache'[u] = cache[u],
         \A x \in Workers \ {w} :
           /\ vcalls'[x] = vcalls[x]
           /\ vcalls[x] # NoVehicleCall => vcalls[x].id # v,
         vcalls[w] # NoVehicleCall => vcalls[w].id = v,
         vcalls'[w] # NoVehicleCall => vcalls'[w].id = v,
         vcalls'[w] = NoVehicleCall => Agrees(v)',
         vcalls'[w] # NoVehicleCall => Midway(vcalls[w])'
  PROVE  CacheIInv'
<1>1. OneCallEach'
  BY DEF OneCallEach, CacheIInv
<1>2. ASSUME NEW u \in Vehicles, Quiet(u)' PROVE Agrees(u)'
  <2>1. CASE u = v
    <3>1. vcalls'[w] = NoVehicleCall
      BY <1>2, <2>1 DEF Quiet
    <3> QED
      BY <3>1, <2>1
  <2>2. CASE u # v
    <3>1. Quiet(u)
      BY <1>2, <2>2 DEF Quiet
    <3>2. Agrees(u)
      BY <3>1 DEF CacheIInv
    <3> QED
      BY <3>2, <2>2 DEF Agrees, Registered
  <2> QED
    BY <2>1, <2>2
<1>3. ASSUME NEW x \in Workers, vcalls'[x] # NoVehicleCall
      PROVE  Midway(vcalls[x])'
  <2>1. CASE x = w
    BY <2>1, <1>3
  <2>2. CASE x # w
    <3>1. /\ vcalls'[x] = vcalls[x]
          /\ vcalls[x] # NoVehicleCall
          /\ vcalls[x].id \in Vehicles \ {v}
      BY <2>2, <1>3, CallType DEF CacheIInv
    <3>2. Midway(vcalls[x])
      BY <3>1 DEF CacheIInv
    <3>3. /\ db'[vcalls[x].id] = db[vcalls[x].id]
          /\ cache'[vcalls[x].id] = cache[vcalls[x].id]
      BY <3>1
    <3> QED
      BY <3>1, <3>2, <3>3 DEF Midway, Registered
  <2> QED
    BY <2>1, <2>2
<1> QED
  BY <1>1, <1>2, <1>3 DEF CacheIInv

\* A step about vehicle v that no call takes.
LEMMA NoCallMoves ==
  ASSUME CacheIInv, VehicleTypeOK', NEW v \in Vehicles,
         vcalls' = vcalls,
         \A u \in Vehicles \ {v} : db'[u] = db[u] /\ cache'[u] = cache[u],
         Quiet(v) => Agrees(v)',
         \A x \in Workers :
           vcalls[x] # NoVehicleCall /\ vcalls[x].id = v => Midway(vcalls[x])'
  PROVE  CacheIInv'
<1>1. OneCallEach'
  BY DEF OneCallEach, CacheIInv
<1>2. ASSUME NEW u \in Vehicles, Quiet(u)' PROVE Agrees(u)'
  <2>1. Quiet(u)
    BY <1>2 DEF Quiet
  <2>2. u # v => Agrees(u)'
    BY <2>1 DEF CacheIInv, Agrees, Registered
  <2> QED
    BY <2>1, <2>2
<1>3. ASSUME NEW x \in Workers, vcalls'[x] # NoVehicleCall, vcalls[x].id # v
      PROVE  Midway(vcalls[x])'
  <2>1. vcalls[x].id \in Vehicles \ {v} /\ Midway(vcalls[x])
    BY <1>3, CallType DEF CacheIInv
  <2>2. /\ db'[vcalls[x].id] = db[vcalls[x].id]
        /\ cache'[vcalls[x].id] = cache[vcalls[x].id]
    BY <2>1
  <2> QED
    BY <2>1, <2>2 DEF Midway, Registered
<1> QED
  BY <1>1, <1>2, <1>3 DEF CacheIInv

\* A call about v begins: there is no other, and the cache agrees.
LEMMA CallBegins ==
  ASSUME CacheIInv, Serial, NEW v \in Vehicles, NEW w \in Workers, Free(w, v)
  PROVE  /\ vcalls[w] = NoVehicleCall
         /\ \A x \in Workers : vcalls[x] # NoVehicleCall => vcalls[x].id # v
         /\ Agrees(v)
BY DEF Serial, Free, Quiet, CacheIInv

\* A call goes on: no other call is about its vehicle.
LEMMA CallGoesOn ==
  ASSUME CacheIInv, NEW w \in Workers, vcalls[w] # NoVehicleCall
  PROVE  /\ vcalls[w].id \in Vehicles
         /\ vcalls[w].entry \in CacheEntry
         /\ Midway(vcalls[w])
         /\ \A x \in Workers \ {w} :
              vcalls[x] # NoVehicleCall => vcalls[x].id # vcalls[w].id
<1>1. VehicleTypeOK
  BY DEF CacheIInv
<1> QED
  BY <1>1, CallType DEF CacheIInv, OneCallEach

\* Under Serial every step of the service keeps the invariant.
LEMMA CacheStep ==
  ASSUME CacheIInv, Serial, VehicleTypeOK', [VehicleNext]_vehicleVars
  PROVE  CacheIInv'
<1>t. /\ db \in [Vehicles -> VehicleRow \cup {Absent}]
      /\ cache \in [Vehicles -> CacheEntry \cup {Absent}]
      /\ vcalls \in [Workers -> VehicleCall \cup {NoVehicleCall}]
  BY DEF CacheIInv, VehicleTypeOK
<1>s. \A v, entry : CacheSet(v, entry) => cache' = [cache EXCEPT ![v] = entry]
  BY DEF Serial, CacheSet
<1>g. \A v : CacheGet(v) = {cache[v]}
  BY DEF Serial, CacheGet
<1>1. ASSUME NEW v \in Vehicles, Register(v) PROVE CacheIInv'
  <2>1. /\ ~Registered(v)
        /\ vcalls' = vcalls /\ cache' = cache
        /\ \A u \in Vehicles \ {v} : db'[u] = db[u]
    BY <1>1, <1>t DEF Register
  <2>2. Quiet(v) => Agrees(v)'
    BY <2>1 DEF CacheIInv, Agrees
  <2>3. ASSUME NEW x \in Workers, vcalls[x] # NoVehicleCall, vcalls[x].id = v
        PROVE  Midway(vcalls[x])'
    <3>1. Midway(vcalls[x])
      BY <2>3 DEF CacheIInv
    <3> QED
      BY <3>1, <2>1, <2>3 DEF Midway
  <2> QED
    BY <2>1, <2>2, <2>3, NoCallMoves
<1>2. ASSUME NEW v \in Vehicles, Expire(v) PROVE CacheIInv'
  <2>1. /\ vcalls' = vcalls /\ db' = db
        /\ \A u \in Vehicles \ {v} : cache'[u] = cache[u]
        /\ cache'[v] = Absent
    BY <1>2, <1>t DEF Expire
  <2>2. Agrees(v)'
    BY <2>1 DEF Agrees
  <2>3. ASSUME NEW x \in Workers, vcalls[x] # NoVehicleCall, vcalls[x].id = v
        PROVE  Midway(vcalls[x])'
    <3>1. Midway(vcalls[x])
      BY <2>3 DEF CacheIInv
    <3> QED
      BY <3>1, <2>1, <2>3 DEF Midway, Registered
  <2> QED
    BY <2>1, <2>2, <2>3, NoCallMoves
<1>3. ASSUME NEW w \in Workers, NEW v \in Vehicles, NEW r \in Reports,
             UpdateTelemetry(w, v, r)
      PROVE  CacheIInv'
  <2>1. /\ vcalls[w] = NoVehicleCall
        /\ \A x \in Workers : vcalls[x] # NoVehicleCall => vcalls[x].id # v
        /\ Agrees(v)
    BY <1>3, CallBegins DEF UpdateTelemetry
  <2> DEFINE status == IF cache[v] = Absent THEN BlankStatus ELSE cache[v].status
             call == [step |-> "telemetrySet", id |-> v,
                      entry |-> [status |-> HeardFrom(status), report |-> r]]
  <2>2. db' = db /\ cache' = cache /\ vcalls' = [vcalls EXCEPT ![w] = call]
    BY <1>3, <1>g DEF UpdateTelemetry, Continue
  <2>3. Registered(v)
    BY <1>3 DEF UpdateTelemetry, Serial
  <2>4. HeardFrom(status) \in {HeardFrom(db[v].status), BlankStatus}
    BY <2>1 DEF Agrees, HeardFrom, BlankStatus
  <2>5. vcalls'[w] = call /\ vcalls'[w].id = v
    BY <2>2, <1>t
  <2>6. Midway(vcalls[w])'
    BY <2>2, <2>3, <2>4, <2>5 DEF Midway, Registered
  <2>7. call # NoVehicleCall
    BY DEF NoVehicleCall
  <2> QED
    BY <2>1, <2>2, <2>5, <2>6, <2>7, <1>t, OneVehicle
<1>4. ASSUME NEW w \in Workers, TelemetryCacheSet(w) PROVE CacheIInv'
  <2> PICK v \in Vehicles : v = vcalls[w].id
    BY <1>4, CallGoesOn DEF TelemetryCacheSet, AtStep
  <2> DEFINE call == [step |-> "telemetryDB", id |-> v, entry |-> vcalls[w].entry]
  <2>1. /\ vcalls[w] # NoVehicleCall
        /\ vcalls[w].step = "telemetrySet"
        /\ v = vcalls[w].id
        /\ Midway(vcalls[w])
        /\ \A x \in Workers \ {w} : vcalls[x] # NoVehicleCall => vcalls[x].id # v
    BY <1>4, CallGoesOn DEF TelemetryCacheSet, AtStep
  <2>2. /\ db' = db
        /\ cache' = [cache EXCEPT ![v] = vcalls[w].entry]
        /\ vcalls' = [vcalls EXCEPT ![w] = call]
    BY <1>4, <2>1, <1>s DEF TelemetryCacheSet, Continue
  <2>3. vcalls'[w] = call /\ call.id = v /\ call # NoVehicleCall
    BY <2>2, <1>t DEF NoVehicleCall
  <2>4. Midway(vcalls[w])'
    BY <2>1, <2>2, <2>3, <1>t DEF Midway, Registered
  <2> QED
    BY <2>1, <2>2, <2>3, <2>4, <1>t, OneVehicle
<1>5. ASSUME NEW w \in Workers, TelemetryDBUpdate(w) PROVE CacheIInv'
  <2> PICK v \in Vehicles : v = vcalls[w].id
    BY <1>5, CallGoesOn DEF TelemetryDBUpdate, AtStep
  <2> DEFINE entry == vcalls[w].entry
             row == [status |-> HeardFrom(db[v].status), report |-> entry.report]
  <2>1. /\ vcalls[w] # NoVehicleCall
        /\ vcalls[w].step = "telemetryDB"
        /\ v = vcalls[w].id
        /\ entry \in CacheEntry
        /\ Midway(vcalls[w])
        /\ \A x \in Workers \ {w} : vcalls[x] # NoVehicleCall => vcalls[x].id # v
    BY <1>5, CallGoesOn DEF TelemetryDBUpdate, AtStep
  <2>2. /\ Registered(v)
        /\ entry.status \in {HeardFrom(db[v].status), BlankStatus}
        /\ cache[v] \in {Absent, entry}
    BY <2>1 DEF Midway
  <2>3. /\ cache' = cache
        /\ db' = [db EXCEPT ![v] = row]
        /\ vcalls' = [vcalls EXCEPT ![w] = NoVehicleCall]
    BY <1>5, <2>2 DEF TelemetryDBUpdate, Serial, Done
  <2>4. db'[v] = row /\ vcalls'[w] = NoVehicleCall
    BY <2>1, <2>3, <1>t
  <2>5. row # Absent
    <3>1. HeardFrom(db[v].status) # "absent"
      BY <2>1, <2>2, <1>t, RecordFacts
      DEF Registered, VehicleRow, VehicleStatus
    <3> QED
      BY <3>1 DEF Absent
  <2>6. Agrees(v)'
    BY <2>2, <2>3, <2>4, <2>5 DEF Agrees, Registered
  <2> QED
    BY <2>1, <2>3, <2>4, <2>6, <1>t, OneVehicle
<1>6. ASSUME NEW w \in Workers, NEW v \in Vehicles, NEW s \in VehicleStatus,
             SetStatus(w, v, s)
      PROVE  CacheIInv'
  <2> DEFINE call == [step |-> "statusGet", id |-> v,
                      entry |-> [status |-> s, report |-> NoReport]]
  <2>1. /\ vcalls[w] = NoVehicleCall
        /\ \A x \in Workers : vcalls[x] # NoVehicleCall => vcalls[x].id # v
        /\ Agrees(v)
        /\ Registered(v)
    BY <1>6, CallBegins DEF SetStatus, Serial
  <2>2. /\ cache' = cache
        /\ db' = [db EXCEPT ![v].status = s]
        /\ vcalls' = [vcalls EXCEPT ![w] = call]
    BY <1>6, <2>1 DEF SetStatus, Continue, Serial
  <2>3. db[v] \in VehicleRow
    BY <2>1, <1>t DEF Registered
  <2>4. /\ db'[v].status = s
        /\ db'[v].report = db[v].report
        /\ db'[v] # Absent
    BY <2>2, <2>3, <1>t DEF VehicleRow, VehicleStatus, Absent
  <2>5. vcalls'[w] = call /\ call.id = v /\ call # NoVehicleCall
    BY <2>2, <1>t DEF NoVehicleCall
  <2>6. Midway(vcalls[w])'
    BY <2>1, <2>2, <2>4, <2>5 DEF Midway, Registered, Agrees
  <2> QED
    BY <2>1, <2>2, <2>5, <2>6, <1>t, OneVehicle
<1>7. ASSUME NEW w \in Workers, StatusCacheGet(w) PROVE CacheIInv'
  <2> PICK v \in Vehicles : v = vcalls[w].id
    BY <1>7, CallGoesOn DEF StatusCacheGet, AtStep
  <2> DEFINE entry == vcalls[w].entry
             call == [step |-> "statusSet", id |-> v,
                      entry |-> [status |-> entry.status,
                                 report |-> cache[v].report]]
  <2>1. /\ vcalls[w] # NoVehicleCall
        /\ vcalls[w].step = "statusGet"
        /\ v = vcalls[w].id
        /\ entry \in CacheEntry
        /\ Midway(vcalls[w])
        /\ \A x \in Workers \ {w} : vcalls[x] # NoVehicleCall => vcalls[x].id # v
    BY <1>7, CallGoesOn DEF StatusCacheGet, AtStep
  <2>2. /\ Registered(v)
        /\ entry.status = db[v].status
        /\ cache[v] # Absent => cache[v].report = db[v].report
    BY <2>1 DEF Midway
  <2>3. /\ db' = db /\ cache' = cache
        /\ IF cache[v] = Absent
           THEN vcalls' = [vcalls EXCEPT ![w] = NoVehicleCall]
           ELSE vcalls' = [vcalls EXCEPT ![w] = call]
    BY <1>7, <1>g DEF StatusCacheGet, Done, Continue
  <2>4. CASE cache[v] = Absent
    <3>1. Agrees(v)' /\ vcalls'[w] = NoVehicleCall
      BY <2>3, <2>4, <1>t DEF Agrees
    <3> QED
      BY <3>1, <2>1, <2>3, <2>4, <1>t, OneVehicle
  <2>5. CASE cache[v] # Absent
    <3>1. vcalls'[w] = call /\ call.id = v /\ call # NoVehicleCall
      BY <2>3, <2>5, <1>t DEF NoVehicleCall
    <3>2. db[v] \in VehicleRow
      BY <2>1, <2>2, <1>t DEF Registered
    <3>3. call.entry = db[v]
      BY <3>2, <2>2, <2>5 DEF VehicleRow
    <3>4. Midway(vcalls[w])'
      BY <3>1, <3>3, <2>2, <2>3 DEF Midway, Registered
    <3> QED
      BY <3>1, <3>4, <2>1, <2>3, <2>5, <1>t, OneVehicle
  <2> QED
    BY <2>4, <2>5
<1>8. ASSUME NEW w \in Workers, StatusCacheSet(w) PROVE CacheIInv'
  <2> PICK v \in Vehicles : v = vcalls[w].id
    BY <1>8, CallGoesOn DEF StatusCacheSet, AtStep
  <2> DEFINE entry == vcalls[w].entry
  <2>1. /\ vcalls[w] # NoVehicleCall
        /\ vcalls[w].step = "statusSet"
        /\ v = vcalls[w].id
        /\ entry \in CacheEntry
        /\ Midway(vcalls[w])
        /\ \A x \in Workers \ {w} : vcalls[x] # NoVehicleCall => vcalls[x].id # v
    BY <1>8, CallGoesOn DEF StatusCacheSet, AtStep
  <2>2. Registered(v) /\ entry = db[v]
    BY <2>1 DEF Midway
  <2>3. /\ db' = db
        /\ cache' = [cache EXCEPT ![v] = entry]
        /\ vcalls' = [vcalls EXCEPT ![w] = NoVehicleCall]
    BY <1>8, <2>1, <1>s DEF StatusCacheSet, Done
  <2>4. Agrees(v)' /\ vcalls'[w] = NoVehicleCall
    BY <2>1, <2>2, <2>3, <1>t DEF Agrees, Registered
  <2> QED
    BY <2>1, <2>3, <2>4, <1>t, OneVehicle
<1>9. ASSUME NEW w \in Workers, NEW v \in Vehicles, GetVehicle(w, v)
      PROVE  CacheIInv'
  <2> DEFINE call == [step |-> "getDB", id |-> v,
                      entry |-> [status |-> BlankStatus, report |-> NoReport]]
  <2>1. /\ vcalls[w] = NoVehicleCall
        /\ \A x \in Workers : vcalls[x] # NoVehicleCall => vcalls[x].id # v
    BY <1>9, CallBegins DEF GetVehicle
  <2>2. /\ db' = db /\ cache' = cache /\ cache[v] = Absent
        /\ vcalls' = [vcalls EXCEPT ![w] = call]
    BY <1>9, <1>g DEF GetVehicle, Continue
  <2>3. vcalls'[w] = call /\ call.id = v /\ call # NoVehicleCall
    BY <2>2, <1>t DEF NoVehicleCall
  <2>4. Midway(vcalls[w])'
    BY <2>2, <2>3 DEF Midway
  <2> QED
    BY <2>1, <2>2, <2>3, <2>4, <1>t, OneVehicle
<1>10. ASSUME NEW w \in Workers, GetVehicleDB(w) PROVE CacheIInv'
  <2> PICK v \in Vehicles : v = vcalls[w].id
    BY <1>10, CallGoesOn DEF GetVehicleDB, AtStep
  <2> DEFINE entry == vcalls[w].entry
             call == [step |-> "getFill", id |-> v, entry |-> db[v]]
  <2>1. /\ vcalls[w] # NoVehicleCall
        /\ vcalls[w].step = "getDB"
        /\ v = vcalls[w].id
        /\ entry \in CacheEntry
        /\ Midway(vcalls[w])
        /\ \A x \in Workers \ {w} : vcalls[x] # NoVehicleCall => vcalls[x].id # v
    BY <1>10, CallGoesOn DEF GetVehicleDB, AtStep
  <2>2. db' = db /\ cache' = cache /\ cache[v] = Absent
    BY <1>10, <2>1 DEF GetVehicleDB, Midway
  <2>3. \/ Registered(v) /\ vcalls' = [vcalls EXCEPT ![w] = call]
        \/ vcalls' = [vcalls EXCEPT ![w] = NoVehicleCall]
    BY <1>10 DEF GetVehicleDB, Continue, Done
  <2>4. CASE Registered(v) /\ vcalls' = [vcalls EXCEPT ![w] = call]
    <3>1. vcalls'[w] = call /\ call.id = v /\ call # NoVehicleCall
      BY <2>4, <1>t DEF NoVehicleCall
    <3>2. Midway(vcalls[w])'
      BY <3>1, <2>2, <2>4 DEF Midway, Registered
    <3> QED
      BY <3>1, <3>2, <2>1, <2>2, <2>4, <1>t, OneVehicle
  <2>5. CASE vcalls' = [vcalls EXCEPT ![w] = NoVehicleCall]
    <3>1. Agrees(v)' /\ vcalls'[w] = NoVehicleCall
      BY <2>2, <2>5, <1>t DEF Agrees
    <3> QED
      BY <3>1, <2>1, <2>2, <2>5, <1>t, OneVehicle
  <2> QED
    BY <2>3, <2>4, <2>5
<1>11. ASSUME NEW w \in Workers, GetVehicleFill(w) PROVE CacheIInv'
  <2> PICK v \in Vehicles : v = vcalls[w].id
    BY <1>11, CallGoesOn DEF GetVehicleFill, AtStep
  <2> DEFINE entry == vcalls[w].entry
  <2>1. /\ vcalls[w] # NoVehicleCall
        /\ vcalls[w].step = "getFill"
        /\ v = vcalls[w].id
        /\ entry \in CacheEntry
        /\ Midway(vcalls[w])
        /\ \A x \in Workers \ {w} : vcalls[x] # NoVehicleCall => vcalls[x].id # v
    BY <1>11, CallGoesOn DEF GetVehicleFill, AtStep
  <2>2. Registered(v) /\ entry = db[v]
    BY <2>1 DEF Midway
  <2>3. /\ db' = db
        /\ cache' = [cache EXCEPT ![v] = entry]
        /\ vcalls' = [vcalls EXCEPT ![w] = NoVehicleCall]
    BY <1>11, <2>1, <1>s DEF GetVehicleFill, Done
  <2>4. Agrees(v)' /\ vcalls'[w] = NoVehicleCall
    BY <2>1, <2>2, <2>3, <1>t DEF Agrees, Registered
  <2> QED
    BY <2>1, <2>3, <2>4, <1>t, OneVehicle
<1>12. CASE UNCHANGED vehicleVars
  BY <1>12 DEF vehicleVars, CacheIInv, OneCallEach, Quiet, Agrees, Midway, Registered
<1> QED
  BY <1>1, <1>2, <1>3, <1>4, <1>5, <1>6, <1>7, <1>8, <1>9, <1>10, <1>11, <1>12
  DEF VehicleNext, CallStep

\* When calls about one vehicle take turns, nothing fails and vehicles register
\* first, a cached vehicle with no call in flight is what the table says, or
\* blank, for any number of vehicles and callers and however entries expire.
THEOREM CacheAgreesSerially ==
  ASSUME Serial PROVE VehicleSpec => []CacheAgrees
<1>1. VehicleInit => CacheIInv
  BY DEF VehicleInit, CacheIInv, VehicleTypeOK, OneCallEach, Agrees, Quiet
<1>2. CacheIInv /\ [VehicleNext]_vehicleVars => CacheIInv'
  <2> SUFFICES ASSUME CacheIInv, [VehicleNext]_vehicleVars PROVE CacheIInv'
    OBVIOUS
  <2>1. VehicleTypeOK'
    BY VehicleNextTypeOK DEF CacheIInv
  <2> QED
    BY <2>1, CacheStep
<1>3. CacheIInv => CacheAgrees
  BY DEF CacheIInv, CacheAgrees, Agrees
<1> QED
  BY <1>1, <1>2, <1>3, PTL DEF VehicleSpec

=============================================================================
