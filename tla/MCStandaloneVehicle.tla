------------------------ MODULE MCStandaloneVehicle ------------------------
(* StandaloneVehicle with the battery of MCSimVehicle, starting low.         *)
EXTENDS StandaloneVehicle

VehiclesAndServer == Vehicles \cup {Server}

StartFair == {3}

SlowDrain == {0, 1}

=============================================================================
