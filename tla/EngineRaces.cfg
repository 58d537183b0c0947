\* Two dispatchers, one PUT caller and the telemetry callback about one order and
\* one vehicle; every call may overlap every other, every command may fail.
SPECIFICATION FairSpec
CONSTANTS
  Orders = {o1}
  Vehicles = {v1}
  NoVehicle = NoVehicle
  Callers = {d1, d2, c1}
  MaxClock = 2
  OneCallPerOrder = FALSE
  w1 = w1
  Workers = {d1, d2, w1}
  MayCall <- TelemetryCallback
  Reports = {r1}
  NoReport = NoReport
  OneCallPerVehicle = FALSE
  RegisteredFirst = FALSE
  RedisFaults = TRUE
  DBFaults = TRUE
  Dispatchers = {d1, d2}
  NoOne = NoOne
  LowReports <- NoLowReports
  Distance <- SamePlace
INVARIANTS EngineTypeOK Timeline AssignedOncePerPending CommandMatchesOrder
PROPERTY SettledForever DispatchReturns
