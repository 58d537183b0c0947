\* One vehicle with a battery, two orders, one dispatcher, a client that cancels;
\* calls take turns, nothing is lost, and a request does not overtake an earlier
\* one about its order.
SPECIFICATION FleetSpec
CONSTANTS
  Orders = {o1, o2}
  Vehicles = {v1}
  NoVehicle = NoVehicle
  Callers = {d1, c1}
  MaxClock = 1
  OneCallPerOrder = TRUE
  Workers = {d1, w1}
  MayCall <- CallbackAndDispatchers
  Reports <- BothReports
  NoReport = NoReport
  OneCallPerVehicle = TRUE
  RegisteredFirst = TRUE
  RedisFaults = FALSE
  DBFaults = FALSE
  Dispatchers = {d1}
  NoOne = NoOne
  LowReports <- LowOrNone
  Distance <- SamePlace
  Callback = w1
  Restarted = FALSE
  Expires = FALSE
  InOrder = TRUE
  NoOrder = NoOrder
  MaxLeg = 1
  MaxQueue = 2
  StartBattery <- StartFull
  FullBattery = 5
  DispatchBattery = 3
  LowBattery = 2
  Charge = 2
  Drains <- SlowDrain
  Loses = FALSE
  Cancels = TRUE
  LongCharge = TRUE
  Crashes = FALSE
INVARIANTS FleetTypeOK OneJobAtATime ServerKnows ChargesInTime Honest
PROPERTY FollowsLifecycle
