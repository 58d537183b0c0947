-------------------------- MODULE NearestIdleProofs --------------------------
(***************************************************************************)
(* findNearestIdle finds the first of the nearest vehicles in every list,  *)
(* of any length.                                                          *)
(***************************************************************************)
EXTENDS NearestIdle, TLAPS

\* The part of the list that the loop has seen is settled: best is nil and
\* nothing in it can be sent, or best is its first nearest.
SeenSoFar ==
  \/ /\ best = 0
     /\ bestDist = MaxFloat64
     /\ Candidates(next - 1) = {}
  \/ /\ FirstNearest(best, next - 1)
     /\ bestDist = vehicles[best].distance

LoopIInv ==
  /\ vehicles \in Seq(Vehicle)
  /\ next \in 1 .. Len(vehicles) + 1
  /\ SeenSoFar

\* The loop starts with nothing seen.
LEMMA LoopStarts == LoopInit => LoopIInv
<1> SUFFICES ASSUME LoopInit PROVE LoopIInv
  OBVIOUS
<1> PICK n \in 0 .. MaxLen : vehicles \in [1 .. n -> Vehicle]
  BY DEF LoopInit
<1>1. n \in Nat
  BY LoopAssumption
<1>2. vehicles \in Seq(Vehicle)
  BY <1>1
<1>3. Len(vehicles) \in Nat
  BY <1>2
<1>4. Candidates(next - 1) = {}
  BY DEF LoopInit, Candidates
<1> QED
  BY <1>2, <1>3, <1>4 DEF LoopInit, LoopIInv, SeenSoFar

\* A distance that is a number is a natural number below MaxFloat64.
LEMMA CandidateDistance ==
  ASSUME vehicles \in Seq(Vehicle), NEW n \in 0 .. Len(vehicles),
         NEW i \in Candidates(n)
  PROVE  /\ i \in 1 .. n
         /\ vehicles[i].distance \in Nat
         /\ vehicles[i].distance < MaxFloat64
<1>1. i \in 1 .. n /\ vehicles[i].distance # NaN
  BY DEF Candidates
<1>2. vehicles[i] \in Vehicle
  BY <1>1
<1> QED
  BY <1>1, <1>2, LoopAssumption DEF Vehicle, Distances

\* One iteration settles one more vehicle.
LEMMA LoopAdvances == LoopIInv /\ LoopStep => LoopIInv'
<1> SUFFICES ASSUME LoopIInv, LoopStep PROVE LoopIInv'
  OBVIOUS
<1> DEFINE v == vehicles[next]
           wins == Eligible(v) /\ Closer(v.distance, bestDist)
<1>1. /\ vehicles \in Seq(Vehicle)
      /\ vehicles' = vehicles
      /\ Len(vehicles) \in Nat
      /\ next \in 1 .. Len(vehicles)
      /\ next' = next + 1
      /\ next' - 1 = next
      /\ next - 1 \in 0 .. Len(vehicles)
  BY DEF LoopIInv, LoopStep
<1>2. v \in Vehicle
  BY <1>1
<1>3. Candidates(next) =
        Candidates(next - 1) \cup
          (IF Eligible(v) /\ v.distance # NaN THEN {next} ELSE {})
  BY <1>1 DEF Candidates
<1>4. Candidates(next - 1) \subseteq 1 .. next - 1
  BY DEF Candidates
<1>5. \A k \in Candidates(next) :
        vehicles[k].distance \in Nat /\ vehicles[k].distance < MaxFloat64
  BY <1>1, CandidateDistance
<1>6. \A i, n : Candidates(n)' = Candidates(n)
                /\ (FirstNearest(i, n)' <=> FirstNearest(i, n))
  BY <1>1 DEF Candidates, FirstNearest
<1>7. bestDist \in Nat
  <2>1. CASE bestDist = MaxFloat64
    BY <2>1, LoopAssumption
  <2>2. CASE FirstNearest(best, next - 1) /\ bestDist = vehicles[best].distance
    BY <2>2, <1>3, <1>5 DEF FirstNearest
  <2> QED
    BY <2>1, <2>2 DEF LoopIInv, SeenSoFar
<1>8. CASE wins
  <2>1. best' = next /\ bestDist' = v.distance
    BY <1>8 DEF LoopStep
  <2>2. v.distance \in Nat /\ next \in Candidates(next)
    BY <1>8, <1>3, <1>5 DEF Closer
  <2>3. \A k \in Candidates(next - 1) : v.distance < vehicles[k].distance
    <3> SUFFICES ASSUME NEW k \in Candidates(next - 1)
                 PROVE  v.distance < vehicles[k].distance
      OBVIOUS
    <3>1. FirstNearest(best, next - 1) /\ bestDist = vehicles[best].distance
      BY DEF LoopIInv, SeenSoFar
    <3>2. bestDist <= vehicles[k].distance
      BY <3>1 DEF FirstNearest
    <3>3. vehicles[k].distance \in Nat
      BY <1>3, <1>5
    <3> QED
      BY <3>2, <3>3, <2>2, <1>7, <1>8 DEF Closer
  <2>4. FirstNearest(next, next)
    <3> SUFFICES ASSUME NEW k \in Candidates(next)
                 PROVE  /\ v.distance <= vehicles[k].distance
                        /\ k < next => v.distance < vehicles[k].distance
      BY <2>2 DEF FirstNearest
    <3>1. CASE k \in Candidates(next - 1)
      BY <3>1, <2>2, <2>3, <1>5
    <3>2. CASE k = next
      BY <3>2, <2>2, <1>1
    <3> QED
      BY <3>1, <3>2, <1>3
  <2> QED
    BY <2>1, <2>4, <1>1, <1>6 DEF LoopIInv, SeenSoFar
<1>9. CASE ~wins
  <2>1. best' = best /\ bestDist' = bestDist
    BY <1>9 DEF LoopStep
  <2>2. CASE best = 0 /\ bestDist = MaxFloat64 /\ Candidates(next - 1) = {}
    <3>1. next \notin Candidates(next)
      BY <2>2, <1>9, <1>3, <1>5 DEF Closer
    <3>2. Candidates(next) = {}
      BY <3>1, <2>2, <1>3
    <3> QED
      BY <3>2, <2>1, <2>2, <1>1, <1>6 DEF LoopIInv, SeenSoFar
  <2>3. CASE FirstNearest(best, next - 1) /\ bestDist = vehicles[best].distance
    <3>1. best \in Candidates(next) /\ best \in 1 .. next - 1
      BY <2>3, <1>3, <1>4 DEF FirstNearest
    <3>2. next \in Candidates(next) => bestDist <= v.distance
      BY <1>9, <1>3, <1>4, <1>1, <1>5, <1>7 DEF Closer, Candidates
    <3>3. FirstNearest(best, next)
      BY <3>1, <3>2, <2>3, <1>1, <1>3 DEF FirstNearest
    <3> QED
      BY <3>3, <2>1, <2>3, <1>1, <1>6 DEF LoopIInv, SeenSoFar
  <2> QED
    BY <2>2, <2>3 DEF LoopIInv, SeenSoFar
<1> QED
  BY <1>8, <1>9

\* What the loop answers when it has ended is right, whatever the list.
THEOREM NearestIdleFound == LoopSpec => []FindsNearest
<1>1. LoopIInv /\ UNCHANGED loopVars => LoopIInv'
  BY DEF LoopIInv, loopVars, SeenSoFar, FirstNearest, Candidates
<1>2. LoopIInv => FindsNearest
  <2> SUFFICES ASSUME LoopIInv, next > Len(vehicles) PROVE FindsNearest
    BY DEF FindsNearest
  <2>1. next - 1 = Len(vehicles)
    BY DEF LoopIInv
  <2> QED
    BY <2>1 DEF LoopIInv, SeenSoFar, FindsNearest
<1> QED
  BY LoopStarts, LoopAdvances, <1>1, <1>2, PTL DEF LoopSpec

=============================================================================
