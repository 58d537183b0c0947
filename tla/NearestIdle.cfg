\* Every list of up to three vehicles; the distances 0, 1 and NaN; batteries
\* on either side of the threshold.
SPECIFICATION LoopSpec
CONSTANTS
  Vehicles <- NoVehicles
  MaxLen = 3
  Batteries <- AroundTwenty
  MaxFloat64 = 2
  NaN = NaN
INVARIANT FindsNearest
CHECK_DEADLOCK FALSE
