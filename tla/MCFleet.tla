------------------------------ MODULE MCFleet ------------------------------
(* Fleet on small sets.  In real numbers the battery ends charging at 95,     *)
(* is dispatched from 20 and charges below 15; a move drains less than 1.     *)
EXTENDS Fleet, TLC

BothReports == {"low", "enough"}

LowOrNone == {"low", NoReport}

CallbackAndDispatchers ==
  [w \in Workers |->
     IF w = Callback THEN {"telemetry", "status"} ELSE {"status"}]

SamePlace == [o \in Orders |-> [r \in Reports \cup {NoReport} |-> 0]]

StartFull == {6}

NoDrain == {0}

SlowDrain == {0, 1}

Symmetry == Permutations(Orders)

=============================================================================
