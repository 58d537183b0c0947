\* Two callers that run scenarios and stop the fleet; a fleet of one, and a
\* second object for the vehicle of the next start.
SPECIFICATION FairManagerSpec
CONSTANTS
  Callers = {h1, h2}
  Count = 1
  Objects = {c1, c2}
  NoObject = NoObject
  NoOne = NoOne
  Calls = {"scenario", "stop"}
INVARIANTS ManagerTypeOK NoOrphans AliveWhileRunning
PROPERTY CallsReturn
