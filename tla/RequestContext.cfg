\* A fleet started by POST /api/sim/start.
SPECIFICATION ManagerSpec
CONSTANTS
  Callers = {h1, h2}
  Count = 2
  Objects = {c1, c2, c3, c4}
  NoObject = NoObject
  NoOne = NoOne
  Calls = {"simStart", "stop"}
SYMMETRY Symmetry
INVARIANT AliveWhileRunning
CHECK_DEADLOCK FALSE
