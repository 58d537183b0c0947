\* Telemetry and lookups of the vehicle in flight while it is assigned.
SPECIFICATION Spec
CONSTANTS
  Orders = {o1, o2}
  Vehicles = {v1}
  NoVehicle = NoVehicle
  Callers = {d1}
  MaxClock = 1
  OneCallPerOrder = TRUE
  w1 = w1
  Workers = {d1, w1}
  MayCall <- PassiveCallback
  Reports = {r1}
  NoReport = NoReport
  OneCallPerVehicle = FALSE
  RegisteredFirst = TRUE
  RedisFaults = FALSE
  DBFaults = FALSE
  Dispatchers = {d1}
  NoOne = NoOne
  LowReports <- NoLowReports
  Distance <- SamePlace
INVARIANT NoDoubleBooking
CHECK_DEADLOCK FALSE
