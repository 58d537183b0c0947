----------------------------- MODULE MCScenario -----------------------------
(* Scenario with a client of every kind.                                     *)
EXTENDS Scenario

CONSTANTS h1, h2, h3

OneOfEach == [h \in Clients |-> IF h = h1 THEN "scenario"
                               ELSE IF h = h2 THEN "batch" ELSE "script"]

TwoAndOne == [h \in Clients |-> IF h = h1 THEN 2 ELSE 1]

=============================================================================
