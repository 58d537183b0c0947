--------------------------- MODULE VehicleService ---------------------------
(***************************************************************************)
(* internal/vehicle/service.go: the vehicles table in PostgreSQL and the   *)
(* copy of it in Redis (internal/store/redis.go) that dispatch reads.      *)
(*                                                                         *)
(* Every call is a sequence of single database and cache commands, and     *)
(* nothing is held between them: SetStatus and UpdateTelemetry read the    *)
(* cached vehicle, change the copy and write it back.  A cached vehicle    *)
(* expires five minutes after it was last written.                         *)
(*                                                                         *)
(* A report stands for one telemetry payload: position, battery, speed.    *)
(* Name, order_id and the timestamps of a vehicle are left out.            *)
(***************************************************************************)
EXTENDS VehicleModel

CONSTANTS
  Workers,           \* goroutines that call the service
  MayCall,           \* MayCall[w]: the calls that w makes
  Reports,           \* telemetry payloads
  NoReport,          \* the column defaults, all zero
  OneCallPerVehicle, \* TRUE: calls about one vehicle do not overlap
  RegisteredFirst,   \* TRUE: a vehicle registers before it reports
  RedisFaults,       \* TRUE: a Redis command may fail
  DBFaults           \* TRUE: a database command may fail

ASSUME VehicleAssumption ==
  /\ MayCall \in [Workers -> SUBSET {"telemetry", "status", "get"}]
  /\ {OneCallPerVehicle, RegisteredFirst, RedisFaults, DBFaults}
       \subseteq BOOLEAN

VARIABLES
  db,      \* db[v]: the row of v
  cache,   \* cache[v]: the value under "vehicle:v"
  vcalls   \* vcalls[w]: the call that w has in flight

vehicleVars == <<db, cache, vcalls>>

Absent == [status |-> "absent", report |-> NoReport]

VehicleRow ==
  [status : VehicleStatus, report : Reports \cup {NoReport}]

CacheEntry ==
  [status : VehicleStatus \cup {BlankStatus},
   report : Reports \cup {NoReport}]

\* A call is named for the command it runs next.  entry is the vehicle it
\* will write; for statusGet only the status of entry is meaningful.
VehicleCall ==
  [step  : {"telemetrySet", "telemetryDB", "statusGet", "statusSet",
            "getDB", "getFill"},
   id    : Vehicles,
   entry : CacheEntry]

NoVehicleCall == [step |-> "none"]

VehicleTypeOK ==
  /\ db \in [Vehicles -> VehicleRow \cup {Absent}]
  /\ cache \in [Vehicles -> CacheEntry \cup {Absent}]
  /\ vcalls \in [Workers -> VehicleCall \cup {NoVehicleCall}]

VehicleInit ==
  /\ db = [v \in Vehicles |-> Absent]
  /\ cache = [v \in Vehicles |-> Absent]
  /\ vcalls = [w \in Workers |-> NoVehicleCall]

Registered(v) == db[v] # Absent

\* No call about v is in flight.
Quiet(v) == \A w \in Workers : vcalls[w] # NoVehicleCall => vcalls[w].id # v

Free(w, v) ==
  /\ vcalls[w] = NoVehicleCall
  /\ OneCallPerVehicle => Quiet(v)

AtStep(w, step) == vcalls[w] # NoVehicleCall /\ vcalls[w].step = step

Continue(w, step, v, entry) ==
  vcalls' = [vcalls EXCEPT ![w] = [step |-> step, id |-> v, entry |-> entry]]

Done(w) == vcalls' = [vcalls EXCEPT ![w] = NoVehicleCall]

-----------------------------------------------------------------------------
(* The cache: internal/store/redis.go.                                     *)

\* What GetVehicle of the store can return; an error reads as a miss.
CacheGet(v) == {cache[v]} \cup (IF RedisFaults THEN {Absent} ELSE {})

\* SetVehicle of the store; every caller ignores its error.
CacheSet(v, entry) ==
  \/ cache' = [cache EXCEPT ![v] = entry]
  \/ RedisFaults /\ UNCHANGED cache

\* The key's five minutes are over.
Expire(v) ==
  /\ cache[v] # Absent
  /\ cache' = [cache EXCEPT ![v] = Absent]
  /\ UNCHANGED <<db, vcalls>>

-----------------------------------------------------------------------------

\* INSERT ... ON CONFLICT: a known vehicle only gets its name updated.
Register(v) ==
  /\ ~Registered(v)
  /\ db' = [db EXCEPT ![v] = [status |-> "offline", report |-> NoReport]]
  /\ UNCHANGED <<cache, vcalls>>

\* A vehicle heard from is not offline.
HeardFrom(status) == IF status = "offline" THEN "idle" ELSE status

\* UpdateTelemetry reads the cached vehicle, or makes one up with the zero
\* status.
UpdateTelemetry(w, v, r) ==
  /\ "telemetry" \in MayCall[w]
  /\ Free(w, v)
  /\ RegisteredFirst => Registered(v)
  /\ \E seen \in CacheGet(v) :
       LET status == IF seen = Absent THEN BlankStatus ELSE seen.status
       IN  Continue(w, "telemetrySet", v,
                    [status |-> HeardFrom(status), report |-> r])
  /\ UNCHANGED <<db, cache>>

TelemetryCacheSet(w) ==
  /\ AtStep(w, "telemetrySet")
  /\ CacheSet(vcalls[w].id, vcalls[w].entry)
  /\ Continue(w, "telemetryDB", vcalls[w].id, vcalls[w].entry)
  /\ UNCHANGED db

\* The UPDATE matches no row when the vehicle is not registered.
TelemetryDBUpdate(w) ==
  /\ AtStep(w, "telemetryDB")
  /\ \/ LET v == vcalls[w].id
        IN  /\ Registered(v)
            /\ db' = [db EXCEPT ![v] = [status |-> HeardFrom(@.status),
                                        report |-> vcalls[w].entry.report]]
     \/ /\ ~Registered(vcalls[w].id) \/ DBFaults
        /\ UNCHANGED db
  /\ Done(w)
  /\ UNCHANGED cache

\* SetStatus: the database first.  With DBFaults the UPDATE may be applied
\* and its answer lost, and then SetStatus returns without touching the
\* cache; an UPDATE that fails outright changes nothing and is no step.
SetStatus(w, v, s) ==
  /\ "status" \in MayCall[w]
  /\ Free(w, v)
  /\ RegisteredFirst => Registered(v)
  /\ db' = IF Registered(v) THEN [db EXCEPT ![v].status = s] ELSE db
  /\ \/ Continue(w, "statusGet", v, [status |-> s, report |-> NoReport])
     \/ DBFaults /\ UNCHANGED vcalls
  /\ UNCHANGED cache

\* A mutant of StatusCacheGet: the cached vehicle is not brought up to date.
MutStatusCacheGet(w) ==
  /\ AtStep(w, "statusGet")
  /\ Done(w)
  /\ UNCHANGED <<db, cache>>

\* A vehicle that is not cached is left uncached.
StatusCacheGet(w) ==
  /\ AtStep(w, "statusGet")
  /\ \E seen \in CacheGet(vcalls[w].id) :
       IF seen = Absent
       THEN Done(w)
       ELSE Continue(w, "statusSet", vcalls[w].id,
                     [status |-> vcalls[w].entry.status,
                      report |-> seen.report])
  /\ UNCHANGED <<db, cache>>

StatusCacheSet(w) ==
  /\ AtStep(w, "statusSet")
  /\ CacheSet(vcalls[w].id, vcalls[w].entry)
  /\ Done(w)
  /\ UNCHANGED db

\* GetVehicle: a hit changes nothing; a miss goes to the database.
GetVehicle(w, v) ==
  /\ "get" \in MayCall[w]
  /\ Free(w, v)
  /\ Absent \in CacheGet(v)
  /\ Continue(w, "getDB", v, [status |-> BlankStatus, report |-> NoReport])
  /\ UNCHANGED <<db, cache>>

\* No row, or an error, ends the call.
GetVehicleDB(w) ==
  /\ AtStep(w, "getDB")
  /\ \/ /\ Registered(vcalls[w].id)
        /\ Continue(w, "getFill", vcalls[w].id, db[vcalls[w].id])
     \/ /\ ~Registered(vcalls[w].id) \/ DBFaults
        /\ Done(w)
  /\ UNCHANGED <<db, cache>>

GetVehicleFill(w) ==
  /\ AtStep(w, "getFill")
  /\ CacheSet(vcalls[w].id, vcalls[w].entry)
  /\ Done(w)
  /\ UNCHANGED db

-----------------------------------------------------------------------------

\* The steps of a call that has begun.
CallStep(w) ==
  \/ TelemetryCacheSet(w)
  \/ TelemetryDBUpdate(w)
  \/ StatusCacheGet(w)
  \/ StatusCacheSet(w)
  \/ GetVehicleDB(w)
  \/ GetVehicleFill(w)

VehicleNext ==
  \/ \E v \in Vehicles : Register(v) \/ Expire(v)
  \/ \E w \in Workers :
       \/ \E v \in Vehicles, r \in Reports : UpdateTelemetry(w, v, r)
       \/ \E v \in Vehicles, s \in VehicleStatus : SetStatus(w, v, s)
       \/ \E v \in Vehicles : GetVehicle(w, v)
       \/ CallStep(w)

VehicleSpec == VehicleInit /\ [][VehicleNext]_vehicleVars

-----------------------------------------------------------------------------

\* Between calls, a cached vehicle is what the table says, except that its
\* status may be blank.  Needs calls about one vehicle not to overlap, no
\* failing command, and registration first; expiry may strike at any moment.
\* Every writer has to leave database and cache in step for this.
CacheAgrees ==
  \A v \in Vehicles :
    Quiet(v) /\ cache[v] # Absent =>
      /\ cache[v].report = db[v].report
      /\ cache[v].status \in {db[v].status, BlankStatus}

=============================================================================
