\* One PUT status request while the order is dispatched.
SPECIFICATION Spec
CONSTANTS
  Orders = {o1}
  Vehicles = {v1}
  NoVehicle = NoVehicle
  Callers = {d1, c1}
  MaxClock = 1
  OneCallPerOrder = FALSE
  w1 = w1
  Workers = {d1, w1}
  MayCall <- TelemetryCallback
  Reports = {r1}
  NoReport = NoReport
  OneCallPerVehicle = TRUE
  RegisteredFirst = TRUE
  RedisFaults = FALSE
  DBFaults = FALSE
  Dispatchers = {d1}
  NoOne = NoOne
  LowReports <- NoLowReports
  Distance <- SamePlace
PROPERTY FollowsLifecycle
CHECK_DEADLOCK FALSE
