\* One vehicle, two orders, a fleet that was started again: messages and
\* requests are lost, commands to Redis and PostgreSQL fail, the cached vehicle
\* expires, the server dies and is started again, and calls overlap.
SPECIFICATION FleetSpec
CONSTANTS
  Orders = {o1, o2}
  Vehicles = {v1}
  NoVehicle = NoVehicle
  Callers = {d1, c1}
  MaxClock = 1
  OneCallPerOrder = FALSE
  Workers = {d1, w1}
  MayCall <- CallbackAndDispatchers
  Reports <- BothReports
  NoReport = NoReport
  OneCallPerVehicle = FALSE
  RegisteredFirst = TRUE
  RedisFaults = TRUE
  DBFaults = TRUE
  Dispatchers = {d1}
  NoOne = NoOne
  LowReports <- LowOrNone
  Distance <- SamePlace
  Callback = w1
  Restarted = TRUE
  Expires = TRUE
  InOrder = FALSE
  NoOrder = NoOrder
  MaxLeg = 1
  MaxQueue = 1
  StartBattery <- StartFull
  FullBattery = 5
  DispatchBattery = 3
  LowBattery = 2
  Charge = 2
  Drains <- NoDrain
  Loses = TRUE
  Cancels = FALSE
  LongCharge = FALSE
  Crashes = TRUE
SYMMETRY Symmetry
INVARIANTS TableNotAhead
