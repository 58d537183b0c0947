\* One vehicle and one order; links and requests fail.
SPECIFICATION FairStandaloneSpec
CONSTANTS
  Vehicles = {v1}
  Orders = {o1}
  NoOrder = NoOrder
  MaxLeg = 1
  MaxQueue = 1
  StartBattery <- StartFair
  FullBattery = 4
  DispatchBattery = 2
  LowBattery = 1
  Charge = 2
  Drains <- SlowDrain
  Server = Server
  Clients <- VehiclesAndServer
  Outages = TRUE
  Fails = TRUE
INVARIANTS StandaloneTypeOK ToldInTheEnd
PROPERTIES  CommandGetsOut CommandTaken  ReturnsToService
