\* Two dispatchers and two orders competing for two vehicles that report, say
\* they are free, expire from the cache and are looked up; calls about one order
\* or one vehicle take turns, and no command fails.
SPECIFICATION Spec
CONSTANTS
  Orders = {o1, o2}
  Vehicles = {v1, v2}
  NoVehicle = NoVehicle
  Callers = {d1, d2}
  MaxClock = 1
  OneCallPerOrder = TRUE
  w1 = w1
  Workers = {d1, d2, w1}
  MayCall <- AnyCallback
  Reports = {r1}
  NoReport = NoReport
  OneCallPerVehicle = TRUE
  RegisteredFirst = TRUE
  RedisFaults = FALSE
  DBFaults = FALSE
  Dispatchers = {d1, d2}
  NoOne = NoOne
  LowReports <- NoLowReports
  Distance <- SamePlace
SYMMETRY OrderSymmetry
INVARIANTS NoDoubleBooking CacheAgrees
