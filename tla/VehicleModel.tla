---------------------------- MODULE VehicleModel ----------------------------
(***************************************************************************)
(* internal/model/vehicle.go: the vehicle ids and the vehicle statuses.    *)
(***************************************************************************)

CONSTANT Vehicles   \* vehicle ids

VehicleStatus ==
  {"idle", "en_route", "delivering", "charging", "offline", "fault"}

\* The zero value of a Go string, which a VehicleStatus can hold.
BlankStatus == ""

=============================================================================
