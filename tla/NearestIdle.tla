----------------------------- MODULE NearestIdle -----------------------------
(***************************************************************************)
(* The loop of findNearestIdle in internal/dispatch/engine.go over one     *)
(* list of vehicles, and what it must find.                                *)
(*                                                                         *)
(* haversine is external to the loop: every vehicle carries its distance   *)
(* to the pickup, a natural number below MaxFloat64 or NaN (Sqrt(1-a) of   *)
(* two nearly antipodal points, where rounding may put a above 1).  A      *)
(* comparison with NaN is false.                                           *)
(***************************************************************************)
EXTENDS Integers, Sequences, VehicleModel

CONSTANTS
  MaxLen,       \* bound on the length of the list
  Batteries,    \* battery levels, in percent
  MaxFloat64,   \* larger than every distance
  NaN

ASSUME LoopAssumption ==
  /\ MaxLen \in Nat
  /\ Batteries \subseteq Nat
  /\ MaxFloat64 \in Nat
  /\ NaN \notin Nat

Distances == 0 .. MaxFloat64 - 1

Vehicle ==
  [status   : VehicleStatus \cup {BlankStatus},
   battery  : Batteries,
   distance : Distances \cup {NaN}]

VARIABLES
  vehicles,   \* the list
  next,       \* the index of the vehicle the loop looks at next
  best,       \* the index of the best one so far; 0 is nil
  bestDist

loopVars == <<vehicles, next, best, bestDist>>

LoopInit ==
  /\ \E n \in 0 .. MaxLen : vehicles \in [1 .. n -> Vehicle]
  /\ next = 1
  /\ best = 0
  /\ bestDist = MaxFloat64

\* Neither of the two continue statements is taken.
Eligible(v) == v.status = "idle" /\ ~(v.battery < 20)

\* A mutant of Closer: an equal distance is closer too.
MutCloser(d, than) == d # NaN /\ d <= than

Closer(d, than) == d # NaN /\ d < than

\* One iteration.
LoopStep ==
  /\ next <= Len(vehicles)
  /\ next' = next + 1
  /\ LET v == vehicles[next]
     IN  IF Eligible(v) /\ Closer(v.distance, bestDist)
         THEN best' = next /\ bestDist' = v.distance
         ELSE UNCHANGED <<best, bestDist>>
  /\ UNCHANGED vehicles

LoopSpec == LoopInit /\ [][LoopStep]_loopVars

-----------------------------------------------------------------------------

\* The vehicles that may be sent: eligible, at a distance that is a number.
Candidates(upto) ==
  {i \in 1 .. upto :
     Eligible(vehicles[i]) /\ vehicles[i].distance # NaN}

\* i is at least as close as every candidate, and closer than the earlier.
FirstNearest(i, upto) ==
  /\ i \in Candidates(upto)
  /\ \A k \in Candidates(upto) :
       /\ vehicles[i].distance <= vehicles[k].distance
       /\ k < i => vehicles[i].distance < vehicles[k].distance

\* findNearestIdle returns nil only when no vehicle can be sent, and otherwise
\* the first of the nearest that can: a vehicle at a NaN distance, or below 20
\* percent, neither wins nor hides another one.
FindsNearest ==
  next > Len(vehicles) =>
    \/ best = 0 /\ Candidates(Len(vehicles)) = {}
    \/ FirstNearest(best, Len(vehicles))

=============================================================================
