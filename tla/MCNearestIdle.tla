--------------------------- MODULE MCNearestIdle ---------------------------
(* NearestIdle on every list of up to three vehicles.                      *)
EXTENDS NearestIdle

NoVehicles == {}

\* Either side of the threshold.
AroundTwenty == {19, 20}

=============================================================================
