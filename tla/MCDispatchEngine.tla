-------------------------- MODULE MCDispatchEngine --------------------------
(* DispatchEngine on small sets.  c1 and c2 send PUT status requests; w1 is *)
(* an MQTT callback; d1 and d2 dispatch.                                     *)
EXTENDS DispatchEngine, TLC

CONSTANTS w1   \* the MQTT callback that is a worker and no dispatcher

\* Dispatchers call SetStatus; w1 calls what the name says.
TelemetryCallback ==
  [w \in Workers |-> IF w = w1 THEN {"telemetry"} ELSE {"status"}]

\* Calls that do not say what the vehicle is doing.
PassiveCallback ==
  [w \in Workers |-> IF w = w1 THEN {"telemetry", "get"} ELSE {"status"}]

AnyCallback ==
  [w \in Workers |->
     IF w = w1 THEN {"telemetry", "status", "get"} ELSE {"status"}]

SamePlace == [o \in Orders |-> [r \in Reports \cup {NoReport} |-> 0]]

NoLowReports == {NoReport}

Symmetry == Permutations(Vehicles) \cup Permutations(Dispatchers)

OrderSymmetry == Symmetry \cup Permutations(Orders)

=============================================================================
