--------------------------- MODULE ScenarioProofs ---------------------------
(***************************************************************************)
(* What holds of Scenario for any orders, any number of clients of each    *)
(* kind, and any batches.                                                  *)
(*                                                                         *)
(* ReportTrue counts what a round read one order after the other.  In the  *)
(* middle of a round the counters are bounded by what the table says of    *)
(* the orders the round has come to (ClientOK): an order that was          *)
(* delivered or lost when it was read is still so.  A report of completion *)
(* adds them up to the number of orders, so both bounds are tight and no   *)
(* order is left that could still move.                                    *)
(***************************************************************************)
EXTENDS Scenario, FiniteSetTheorems, SequenceTheorems, TLAPS

Delivered == {"delivered"}
Lost == {"failed", "cancelled"}

\* The orders with one of the statuses that the round of h has come to.
SeenWith(h, statuses) ==
  {i \in 1 .. next[h] - 1 : status[made[h][i]] \in statuses}

-----------------------------------------------------------------------------

\* What may happen to the status of o.
StatusMoves(o) ==
  \/ status'[o] = status[o]
  \/ status[o] = "absent" /\ status'[o] = "pending"
  \/ /\ CanTransitionTo(status[o], status'[o])
     /\ Retries \/ status[o] # "failed"

\* Whoever takes a step, a status changes along an edge of the table only, or
\* because the order is created.
LEMMA EachStatusMoves ==
  ASSUME ScenarioTypeOK, [ScenarioNext]_scenarioVars, NEW o \in Orders
  PROVE  StatusMoves(o)
<1> USE DEF ScenarioTypeOK, StatusMoves
<1>1. ASSUME NEW h \in Clients, ClientStep(h) PROVE StatusMoves(o)
  <2>1. CASE CreateOrder(h)
    BY <2>1 DEF CreateOrder, Create
  <2>2. CASE DispatchNext(h)
    <3>1. CASE UNCHANGED status
      BY <3>1
    <3>2. CASE status' # status
      <4> DEFINE p == made[h][next[h]]
      <4>1. status[p] = "pending" /\ status' = [status EXCEPT ![p] = "assigned"]
        BY <2>2, <3>2 DEF DispatchNext
      <4> HIDE DEF p
      <4> QED
        BY <4>1 DEF CanTransitionTo, ValidTransitions
    <3> QED
      BY <3>1, <3>2
  <2>3. CASE \/ AllCreated(h) \/ AllDispatched(h) \/ BeginRound(h)
             \/ CountOne(h) \/ EndRound(h)
    BY <2>3 DEF AllCreated, AllDispatched, BeginRound, CountOne, EndRound
  <2> QED
    BY <1>1, <2>1, <2>2, <2>3 DEF ClientStep
<1>2. ASSUME NEW h \in Clients, Deadline(h) PROVE StatusMoves(o)
  BY <1>2 DEF Deadline
<1>3. ASSUME NEW p \in Orders, Elsewhere(p) PROVE StatusMoves(o)
  BY <1>3 DEF Elsewhere, Move
<1>4. CASE UNCHANGED scenarioVars
  BY <1>4 DEF scenarioVars
<1> QED
  BY <1>1, <1>2, <1>3, <1>4 DEF ScenarioNext

LEMMA ScenarioInitTypeOK == ScenarioInit => ScenarioTypeOK
<1> SUFFICES ASSUME ScenarioInit PROVE ScenarioTypeOK
  OBVIOUS
<1>1. <<>> \in Seq(Orders) /\ Len(<<>>) = 0
  BY EmptySeq
<1> QED
  BY <1>1, ScenarioAssumption DEF ScenarioInit, ScenarioTypeOK, Init, OrderStatus

LEMMA ScenarioNextTypeOK ==
  ScenarioTypeOK /\ [ScenarioNext]_scenarioVars => ScenarioTypeOK'
<1> SUFFICES ASSUME ScenarioTypeOK, [ScenarioNext]_scenarioVars
             PROVE  ScenarioTypeOK'
  OBVIOUS
<1> USE DEF ScenarioTypeOK
<1>1. ASSUME NEW h \in Clients, CreateOrder(h) PROVE ScenarioTypeOK'
  <2>1. left' \in [Clients -> Nat]
    BY <1>1 DEF CreateOrder
  <2>2. step' \in [Clients -> {"create", "dispatch", "wait", "scan", "done"}]
    BY <1>1 DEF CreateOrder, Goto
  <2>3. status' \in [Orders -> OrderStatus \cup {"absent"}]
    BY <1>1 DEF CreateOrder, Create, OrderStatus
  <2>4. CASE UNCHANGED made
    BY <1>1, <2>1, <2>2, <2>3, <2>4 DEF CreateOrder
  <2>5. CASE \E o \in Orders : made' = [made EXCEPT ![h] = Append(@, o)]
    <3> PICK o \in Orders : made' = [made EXCEPT ![h] = Append(@, o)]
      BY <2>5
    <3>1. /\ Append(made[h], o) \in Seq(Orders)
          /\ Len(Append(made[h], o)) = Len(made[h]) + 1
          /\ Len(made[h]) \in Nat
      BY AppendProperties, LenProperties
    <3>2. ASSUME NEW g \in Clients PROVE next[g] <= Len(made'[g]) + 1
      <4>1. CASE g = h
        <5>1. made'[g] = Append(made[h], o)
          BY <4>1
        <5> QED
          BY <3>1, <4>1, <5>1
      <4>2. CASE g # h
        BY <4>2
      <4> QED
        BY <4>1, <4>2
    <3>3. made' \in [Clients -> Seq(Orders)] /\ next' = next
      BY <1>1, <3>1 DEF CreateOrder
    <3> QED
      BY <1>1, <2>1, <2>2, <2>3, <3>2, <3>3 DEF CreateOrder
  <2> QED
    BY <1>1, <2>4, <2>5 DEF CreateOrder
<1>2. ASSUME NEW h \in Clients, DispatchNext(h) PROVE ScenarioTypeOK'
  <2>1. status' \in [Orders -> OrderStatus \cup {"absent"}]
    BY <1>2 DEF DispatchNext, OrderStatus
  <2>2. step' \in [Clients -> {"create", "dispatch", "wait", "scan", "done"}]
    <3>1. step' \in {step, [step EXCEPT ![h] = "create"]}
      BY <1>2 DEF DispatchNext, Goto
    <3> QED
      BY <3>1
  <2>3. /\ next' \in [Clients -> Nat \ {0}]
        /\ \A g \in Clients : next'[g] <= Len(made[g]) + 1
    BY <1>2, LenProperties DEF DispatchNext
  <2> QED
    BY <1>2, <2>1, <2>2, <2>3 DEF DispatchNext
<1>3. ASSUME NEW h \in Clients, CountOne(h) PROVE ScenarioTypeOK'
  <2>1. Len(made[h]) \in Nat /\ next[h] <= Len(made[h])
    BY <1>3, LenProperties DEF CountOne
  <2>2. next' = [next EXCEPT ![h] = @ + 1]
    BY <1>3 DEF CountOne
  <2>3. /\ next' \in [Clients -> Nat \ {0}]
        /\ \A g \in Clients : next'[g] <= Len(made[g]) + 1
    BY <2>1, <2>2
  <2>4. delivered' \in [Clients -> Nat] /\ failed' \in [Clients -> Nat]
    <3>1. delivered[h] + 1 \in Nat /\ failed[h] + 1 \in Nat
      OBVIOUS
    <3>2. \E a, b \in Nat :
            /\ delivered' = [delivered EXCEPT ![h] = a]
            /\ failed' = [failed EXCEPT ![h] = b]
      <4>1. CASE UNCHANGED <<delivered, failed>>
        <5>1. /\ delivered = [delivered EXCEPT ![h] = delivered[h]]
              /\ failed = [failed EXCEPT ![h] = failed[h]]
          OBVIOUS
        <5> QED
          BY <4>1, <5>1
      <4>2. CASE ~UNCHANGED <<delivered, failed>>
        <5> DEFINE s == status[made[h][next[h]]]
                   a == IF s = "delivered" THEN delivered[h] + 1
                                           ELSE delivered[h]
                   b == IF s \in {"failed", "cancelled"} THEN failed[h] + 1
                                                       ELSE failed[h]
        <5>1. /\ delivered' = [delivered EXCEPT ![h] = a]
              /\ failed' = [failed EXCEPT ![h] = b]
          BY <1>3, <4>2, Zenon DEF CountOne
        <5>2. a \in Nat /\ b \in Nat
          BY <3>1
        <5> QED
          BY <5>1, <5>2
      <4> QED
        BY <4>1, <4>2
    <3> QED
      BY <3>2
  <2> QED
    BY <1>3, <2>3, <2>4 DEF CountOne
<1>4. ASSUME NEW h \in Clients, BeginRound(h) PROVE ScenarioTypeOK'
  <2>1. /\ next' \in [Clients -> Nat \ {0}]
        /\ \A g \in Clients : next'[g] <= Len(made[g]) + 1
    BY <1>4, LenProperties DEF BeginRound
  <2> QED
    BY <1>4, <2>1 DEF BeginRound, Goto
<1>5. ASSUME NEW h \in Clients,
             AllCreated(h) \/ AllDispatched(h) \/ EndRound(h) \/ Deadline(h)
      PROVE  ScenarioTypeOK'
  BY <1>5 DEF AllCreated, AllDispatched, EndRound, Deadline, Goto
<1>6. ASSUME NEW o \in Orders, Elsewhere(o) PROVE ScenarioTypeOK'
  BY <1>6 DEF Elsewhere, Move, clientVars
<1>7. CASE UNCHANGED scenarioVars
  BY <1>7 DEF scenarioVars, clientVars
<1> QED
  BY <1>1, <1>2, <1>3, <1>4, <1>5, <1>6, <1>7 DEF ScenarioNext, ClientStep

-----------------------------------------------------------------------------

\* Once delivered, cancelled or failed, an order stays so when failed orders
\* are not made pending again; and it never becomes absent.
LEMMA EndedStays ==
  ASSUME ~Retries, ScenarioTypeOK, NEW o \in Orders, StatusMoves(o)
  PROVE  /\ status[o] \in Delivered \cup Lost => status'[o] = status[o]
         /\ status[o] # "absent" => status'[o] # "absent"
BY DEF StatusMoves, CanTransitionTo, ValidTransitions, OrderStatus, Delivered,
       Lost, ScenarioTypeOK

\* A count below a larger one stays below it when both may grow by one.
LEMMA CountBelow ==
  ASSUME NEW d \in Nat, NEW c \in Nat, NEW e, NEW f,
         d <= c, f = c + 1, e = d + 1 \/ e = d
  PROVE  e <= f
OBVIOUS

\* Reading one more entry adds it to those seen with a status in S, or not:
\* st is the table of statuses, mk the list of orders, A the entries read.
LEMMA SieveOneMore ==
  ASSUME NEW A, NEW n, NEW st, NEW mk, NEW S
  PROVE  /\ st[mk[n]] \in S =>
              {i \in A \cup {n} : st[mk[i]] \in S} =
              {i \in A : st[mk[i]] \in S} \cup {n}
         /\ st[mk[n]] \notin S =>
              {i \in A \cup {n} : st[mk[i]] \in S} =
              {i \in A : st[mk[i]] \in S}
OBVIOUS

\* The orders seen with a status are finitely many of those made.
LEMMA SeenFinite ==
  ASSUME ScenarioTypeOK, NEW h \in Clients, NEW statuses
  PROVE  /\ SeenWith(h, statuses) \subseteq DOMAIN made[h]
         /\ IsFiniteSet(SeenWith(h, statuses))
         /\ Cardinality(SeenWith(h, statuses)) \in Nat
<1>1. /\ Len(made[h]) \in Nat /\ DOMAIN made[h] = 1 .. Len(made[h])
      /\ next[h] \in Nat /\ next[h] <= Len(made[h]) + 1
  BY LenProperties DEF ScenarioTypeOK
<1>2. SeenWith(h, statuses) \in SUBSET (1 .. Len(made[h]))
  BY <1>1 DEF SeenWith
<1>3. IsFiniteSet(1 .. Len(made[h]))
  BY <1>1, FS_Interval
<1>4. IsFiniteSet(SeenWith(h, statuses))
  BY <1>2, <1>3, FS_Subset
<1> QED
  BY <1>1, <1>2, <1>4, FS_CardinalityType

LEMMA SeenFiniteNext ==
  ASSUME ScenarioTypeOK', NEW h \in Clients, NEW statuses
  PROVE  /\ IsFiniteSet(SeenWith(h, statuses)')
         /\ Cardinality(SeenWith(h, statuses)') \in Nat
<1>1. /\ Len(made'[h]) \in Nat /\ DOMAIN made'[h] = 1 .. Len(made'[h])
      /\ next'[h] \in Nat /\ next'[h] <= Len(made'[h]) + 1
  BY LenProperties DEF ScenarioTypeOK
<1>2. SeenWith(h, statuses)' \in SUBSET (1 .. Len(made'[h]))
  BY <1>1 DEF SeenWith
<1>3. IsFiniteSet(1 .. Len(made'[h]))
  BY <1>1, FS_Interval
<1>4. IsFiniteSet(SeenWith(h, statuses)')
  BY <1>2, <1>3, FS_Subset
<1> QED
  BY <1>4, FS_CardinalityType

\* An order is delivered or lost, not both.
LEMMA SeenTogether ==
  ASSUME ScenarioTypeOK, NEW h \in Clients
  PROVE  Cardinality(SeenWith(h, Delivered)) + Cardinality(SeenWith(h, Lost))
           <= Len(made[h])
<1> DEFINE D == SeenWith(h, Delivered)
           F == SeenWith(h, Lost)
<1>1. Len(made[h]) \in Nat /\ DOMAIN made[h] = 1 .. Len(made[h])
  BY LenProperties DEF ScenarioTypeOK
<1>2. /\ IsFiniteSet(D) /\ IsFiniteSet(F)
      /\ Cardinality(D) \in Nat /\ Cardinality(F) \in Nat
      /\ D \subseteq 1 .. Len(made[h]) /\ F \subseteq 1 .. Len(made[h])
  BY <1>1, SeenFinite
<1>3. D \cap F = {}
  BY DEF SeenWith, Delivered, Lost
<1> HIDE DEF D, F
<1>4. Cardinality(D \cup F) = Cardinality(D) + Cardinality(F)
  <2>1. Cardinality(D \cup F) =
          Cardinality(D) + Cardinality(F) - Cardinality(D \cap F)
    BY <1>2, FS_Union
  <2>2. Cardinality(D \cap F) = 0
    BY <1>3, FS_EmptySet
  <2> QED
    BY <1>2, <2>1, <2>2
<1>5. /\ IsFiniteSet(1 .. Len(made[h]))
      /\ Cardinality(1 .. Len(made[h])) = Len(made[h])
  BY <1>1, FS_Interval
<1>6. Cardinality(D \cup F) <= Cardinality(1 .. Len(made[h]))
  BY <1>2, <1>5, FS_Subset
<1> QED
  BY <1>4, <1>5, <1>6 DEF D, F

\* Two numbers below their bounds that reach the sum of the bounds.
LEMMA TightSum ==
  ASSUME NEW a \in Nat, NEW b \in Nat, NEW d \in Nat, NEW f \in Nat,
         NEW n \in Nat, a <= d, b <= f, d + f <= n, a + b = n
  PROVE  a = d /\ b = f
OBVIOUS

\* What a round has seen delivered or lost it sees so after any step that
\* leaves it where it is.
LEMMA SeenGrows ==
  ASSUME ~Retries, ScenarioTypeOK, ScenarioTypeOK', NEW h \in Clients,
         \A o \in Orders : StatusMoves(o),
         next'[h] = next[h], made'[h] = made[h],
         NEW statuses \in {Delivered, Lost}
  PROVE  Cardinality(SeenWith(h, statuses)) <= Cardinality(SeenWith(h, statuses)')
<1>1. SeenWith(h, statuses) \subseteq SeenWith(h, statuses)'
  <2> SUFFICES ASSUME NEW i \in SeenWith(h, statuses)
               PROVE  i \in SeenWith(h, statuses)'
    OBVIOUS
  <2>1. made[h] \in Seq(Orders) /\ i \in DOMAIN made[h]
    BY SeenFinite DEF ScenarioTypeOK
  <2>2. made[h][i] \in Orders
    BY <2>1, ElementOfSeq, LenProperties
  <2>3. status'[made[h][i]] = status[made[h][i]]
    BY <2>2, EndedStays DEF SeenWith
  <2> QED
    BY <2>3 DEF SeenWith
<1>2. IsFiniteSet(SeenWith(h, statuses)')
  BY SeenFiniteNext
<1> QED
  BY <1>1, <1>2, FS_Subset

\* The part of the invariant that is about the client h.
ClientOK(h) ==
  /\ \A i \in DOMAIN made[h] : status[made[h][i]] # "absent"
  /\ step[h] = "scan" =>
       /\ delivered[h] <= Cardinality(SeenWith(h, Delivered))
       /\ failed[h] <= Cardinality(SeenWith(h, Lost))
  /\ report[h] = "complete" =>
       /\ step[h] = "done"
       /\ delivered[h] = MadeWith(h, Delivered)
       /\ failed[h] = MadeWith(h, Lost)
       /\ delivered[h] + failed[h] = Len(made[h])

\* A complete report names every order: each one is delivered or lost.
LEMMA AllEnded ==
  ASSUME ScenarioTypeOK, NEW h \in Clients,
         MadeWith(h, Delivered) + MadeWith(h, Lost) = Len(made[h])
  PROVE  \A i \in DOMAIN made[h] : status[made[h][i]] \in Delivered \cup Lost
<1> DEFINE D == {i \in DOMAIN made[h] : status[made[h][i]] \in Delivered}
           F == {i \in DOMAIN made[h] : status[made[h][i]] \in Lost}
<1>1. Len(made[h]) \in Nat /\ DOMAIN made[h] = 1 .. Len(made[h])
  BY LenProperties DEF ScenarioTypeOK
<1>2. /\ IsFiniteSet(DOMAIN made[h])
      /\ Cardinality(DOMAIN made[h]) = Len(made[h])
  BY <1>1, FS_Interval
<1>3. D \in SUBSET DOMAIN made[h] /\ F \in SUBSET DOMAIN made[h]
  OBVIOUS
<1>4. IsFiniteSet(D) /\ IsFiniteSet(F)
  BY <1>2, <1>3, FS_Subset
<1>5. D \cap F = {}
  BY DEF Delivered, Lost
<1>6. Cardinality(D \cup F) = Len(made[h])
  <2>1. Cardinality(D \cup F) =
          Cardinality(D) + Cardinality(F) - Cardinality(D \cap F)
    BY <1>4, FS_Union
  <2>2. Cardinality(D \cap F) = 0
    BY <1>5, FS_EmptySet
  <2>3. Cardinality(D) \in Nat /\ Cardinality(F) \in Nat
    BY <1>4, FS_CardinalityType
  <2> QED
    BY <2>1, <2>2, <2>3 DEF MadeWith
<1>7. D \cup F = DOMAIN made[h]
  BY <1>2, <1>3, <1>6, FS_Subset
<1> QED
  BY <1>7

\* What ClientOK(h) is about, but for the orders, stays as it is.
Untouched(h) ==
  /\ step'[h] = step[h] /\ made'[h] = made[h] /\ next'[h] = next[h]
  /\ delivered'[h] = delivered[h] /\ failed'[h] = failed[h]
  /\ report'[h] = report[h]

\* Steps that leave a client alone keep its part, whatever becomes of the
\* orders, and so does the deadline.
LEMMA ClientWaits ==
  ASSUME ~Retries, ScenarioTypeOK, ScenarioTypeOK', NEW h \in Clients,
         \A o \in Orders : StatusMoves(o),
         ClientOK(h), Untouched(h)
  PROVE  ClientOK(h)'
<1> USE DEF Untouched
<1>1. \A i \in DOMAIN made[h] : made[h][i] \in Orders
  BY ElementOfSeq, LenProperties DEF ScenarioTypeOK
<1>2. \A i \in DOMAIN made'[h] : status'[made'[h][i]] # "absent"
  BY <1>1, EndedStays DEF ClientOK
<1>3. ASSUME step'[h] = "scan"
      PROVE  /\ delivered'[h] <= Cardinality(SeenWith(h, Delivered)')
             /\ failed'[h] <= Cardinality(SeenWith(h, Lost)')
  <2> DEFINE d == Cardinality(SeenWith(h, Delivered))
             f == Cardinality(SeenWith(h, Lost))
             d1 == Cardinality(SeenWith(h, Delivered)')
             f1 == Cardinality(SeenWith(h, Lost)')
  <2>1. d <= d1 /\ f <= f1
    BY SeenGrows
  <2>2. d \in Nat /\ f \in Nat
    BY SeenFinite
  <2>3. d1 \in Nat /\ f1 \in Nat
    BY SeenFiniteNext
  <2>4. delivered[h] <= d /\ failed[h] <= f
    BY <1>3 DEF ClientOK
  <2>5. delivered[h] \in Nat /\ failed[h] \in Nat
    BY DEF ScenarioTypeOK
  <2> HIDE DEF d, f, d1, f1
  <2>6. delivered'[h] <= d1 /\ failed'[h] <= f1
    BY <2>1, <2>2, <2>3, <2>4, <2>5
  <2> QED
    BY <2>6 DEF d1, f1
<1>4. ASSUME report'[h] = "complete"
      PROVE  /\ MadeWith(h, Delivered)' = MadeWith(h, Delivered)
             /\ MadeWith(h, Lost)' = MadeWith(h, Lost)
  <2>1. \A i \in DOMAIN made[h] : status[made[h][i]] \in Delivered \cup Lost
    BY <1>4, AllEnded DEF ClientOK
  <2>2. \A i \in DOMAIN made[h] : status'[made[h][i]] = status[made[h][i]]
    BY <1>1, <2>1, EndedStays
  <2> QED
    BY <2>2 DEF MadeWith
<1> QED
  BY <1>2, <1>3, <1>4 DEF ClientOK

\* The step of a client keeps the client's part.
LEMMA ClientMoves ==
  ASSUME ~Retries, ScenarioTypeOK, ScenarioTypeOK', NEW h \in Clients,
         \A o \in Orders : StatusMoves(o), ClientOK(h), ClientStep(h)
  PROVE  ClientOK(h)'
<1> USE DEF ScenarioTypeOK
<1>1. \A i \in DOMAIN made[h] : made[h][i] \in Orders
  BY ElementOfSeq, LenProperties
<1>2. Len(made[h]) \in Nat /\ DOMAIN made[h] = 1 .. Len(made[h])
  BY LenProperties
<1>3. \A i \in DOMAIN made[h] : status'[made[h][i]] # "absent"
  BY <1>1, EndedStays DEF ClientOK
<1>4. CASE CreateOrder(h)
  <2>1. step'[h] # "scan" /\ report'[h] # "complete"
    BY <1>4 DEF CreateOrder, Goto, ClientOK
  <2>2. CASE made' = made
    BY <1>3, <2>1, <2>2 DEF ClientOK
  <2>3. CASE \E o \in Orders : Create(o) /\ made' = [made EXCEPT ![h] = Append(@, o)]
    <3> PICK o \in Orders :
          Create(o) /\ made' = [made EXCEPT ![h] = Append(@, o)]
      BY <2>3
    <3>1. made'[h] = Append(made[h], o)
      OBVIOUS
    <3>2. status'[o] = "pending"
      BY DEF Create
    <3>3. /\ DOMAIN made'[h] = 1 .. Len(made[h]) + 1
          /\ \A i \in DOMAIN made[h] : made'[h][i] = made[h][i]
          /\ made'[h][Len(made[h]) + 1] = o
      BY <1>2, <3>1, AppendProperties, LenProperties
    <3>4. \A i \in DOMAIN made'[h] : status'[made'[h][i]] # "absent"
      BY <1>2, <1>3, <3>2, <3>3
    <3> QED
      BY <2>1, <3>4 DEF ClientOK
  <2> QED
    BY <1>4, <2>2, <2>3 DEF CreateOrder
<1>5. CASE AllCreated(h) \/ DispatchNext(h) \/ AllDispatched(h)
  <2>1. step'[h] # "scan" /\ report'[h] # "complete" /\ made' = made
    BY <1>5 DEF AllCreated, DispatchNext, AllDispatched, Goto, ClientOK
  <2> QED
    BY <1>3, <2>1 DEF ClientOK
<1>6. CASE BeginRound(h)
  <2>1. /\ report'[h] # "complete" /\ made' = made
        /\ delivered'[h] = 0 /\ failed'[h] = 0
    BY <1>6 DEF BeginRound, ClientOK
  <2>2. /\ Cardinality(SeenWith(h, Delivered)') \in Nat
        /\ Cardinality(SeenWith(h, Lost)') \in Nat
    BY SeenFiniteNext
  <2> QED
    BY <1>3, <2>1, <2>2 DEF ClientOK
<1>7. CASE CountOne(h)
  <2> DEFINE n == next[h]
             s == status[made[h][n]]
  <2>1. /\ n \in DOMAIN made[h] /\ next'[h] = n + 1 /\ n \in Nat
        /\ step[h] = "scan" /\ step' = step /\ report' = report
        /\ made' = made /\ status' = status
    BY <1>2, <1>7 DEF CountOne
  <2>2. ASSUME NEW statuses
        PROVE  Cardinality(SeenWith(h, statuses)') =
                 IF s \in statuses THEN Cardinality(SeenWith(h, statuses)) + 1
                 ELSE Cardinality(SeenWith(h, statuses))
    <3>1. n \notin SeenWith(h, statuses)
      BY <2>1 DEF SeenWith
    <3>2. SeenWith(h, statuses)' =
            IF s \in statuses THEN SeenWith(h, statuses) \cup {n}
                              ELSE SeenWith(h, statuses)
      <4>1. 1 .. n + 1 - 1 = (1 .. n - 1) \cup {n}
        BY <2>1
      <4>2. SeenWith(h, statuses)' =
              {i \in (1 .. n - 1) \cup {n} : status[made[h][i]] \in statuses}
        <5>1. SeenWith(h, statuses)' =
                {i \in 1 .. n + 1 - 1 : status[made[h][i]] \in statuses}
          BY <2>1 DEF SeenWith
        <5> QED
          BY <4>1, <5>1, Zenon
      <4>3. SeenWith(h, statuses) =
              {i \in 1 .. n - 1 : status[made[h][i]] \in statuses}
        BY DEF SeenWith
      <4>4. CASE s \in statuses
        <5>1. {i \in (1 .. n - 1) \cup {n} : status[made[h][i]] \in statuses} =
                {i \in 1 .. n - 1 : status[made[h][i]] \in statuses} \cup {n}
          BY <4>4, SieveOneMore, Zenon
        <5> QED
          BY <4>2, <4>3, <4>4, <5>1, Zenon
      <4>5. CASE s \notin statuses
        <5>1. {i \in (1 .. n - 1) \cup {n} : status[made[h][i]] \in statuses} =
                {i \in 1 .. n - 1 : status[made[h][i]] \in statuses}
          BY <4>5, SieveOneMore, Zenon
        <5> QED
          BY <4>2, <4>3, <4>5, <5>1, Zenon
      <4> QED
        BY <4>4, <4>5
    <3> HIDE DEF n, s
    <3>3. IsFiniteSet(SeenWith(h, statuses))
      BY SeenFinite
    <3>4. Cardinality(SeenWith(h, statuses) \cup {n}) =
            Cardinality(SeenWith(h, statuses)) + 1
      BY <3>1, <3>3, FS_AddElement
    <3> QED
      BY <3>2, <3>4, Zenon
  <2>3. /\ delivered[h] <= Cardinality(SeenWith(h, Delivered))
        /\ failed[h] <= Cardinality(SeenWith(h, Lost))
        /\ delivered[h] \in Nat /\ failed[h] \in Nat
        /\ report[h] # "complete"
    BY <2>1 DEF ClientOK
  <2>4. /\ Cardinality(SeenWith(h, Delivered)) \in Nat
        /\ Cardinality(SeenWith(h, Lost)) \in Nat
    BY SeenFinite
  <2>5. \/ /\ delivered'[h] = IF s \in Delivered THEN delivered[h] + 1
                                                 ELSE delivered[h]
           /\ failed'[h] = IF s \in Lost THEN failed[h] + 1 ELSE failed[h]
        \/ delivered'[h] = delivered[h] /\ failed'[h] = failed[h]
    BY <1>7 DEF CountOne, Delivered, Lost
  <2> HIDE DEF s
  <2>6. /\ delivered'[h] <= Cardinality(SeenWith(h, Delivered)')
        /\ failed'[h] <= Cardinality(SeenWith(h, Lost)')
    <3>1. delivered'[h] <= Cardinality(SeenWith(h, Delivered)')
      <4>1. CASE s \in Delivered
        <5>1. Cardinality(SeenWith(h, Delivered)') =
                Cardinality(SeenWith(h, Delivered)) + 1
          BY <2>2, <4>1, Zenon
        <5>2. delivered'[h] = delivered[h] + 1 \/ delivered'[h] = delivered[h]
          BY <2>5, <4>1
        <5> QED
          BY <2>3, <2>4, <5>1, <5>2, CountBelow, Zenon
      <4>2. CASE s \notin Delivered
        <5>1. Cardinality(SeenWith(h, Delivered)') =
                Cardinality(SeenWith(h, Delivered))
          BY <2>2, <4>2, Zenon
        <5>2. delivered'[h] = delivered[h]
          BY <2>5, <4>2
        <5> QED
          BY <2>3, <5>1, <5>2
      <4> QED
        BY <4>1, <4>2
    <3>2. failed'[h] <= Cardinality(SeenWith(h, Lost)')
      <4>1. CASE s \in Lost
        <5>1. Cardinality(SeenWith(h, Lost)') =
                Cardinality(SeenWith(h, Lost)) + 1
          BY <2>2, <4>1, Zenon
        <5>2. failed'[h] = failed[h] + 1 \/ failed'[h] = failed[h]
          BY <2>5, <4>1
        <5> QED
          BY <2>3, <2>4, <5>1, <5>2, CountBelow, Zenon
      <4>2. CASE s \notin Lost
        <5>1. Cardinality(SeenWith(h, Lost)') =
                Cardinality(SeenWith(h, Lost))
          BY <2>2, <4>2, Zenon
        <5>2. failed'[h] = failed[h]
          BY <2>5, <4>2
        <5> QED
          BY <2>3, <5>1, <5>2
      <4> QED
        BY <4>1, <4>2
    <3> QED
      BY <3>1, <3>2
  <2>7. report'[h] # "complete" /\ made'[h] = made[h]
    BY <2>1, <2>3
  <2> HIDE DEF n
  <2> QED
    BY <1>3, <2>6, <2>7 DEF ClientOK
<1>8. CASE EndRound(h)
  <2>1. /\ step[h] = "scan" /\ step'[h] # "scan" /\ report[h] # "complete"
        /\ next[h] = Len(made[h]) + 1
        /\ made' = made /\ status' = status
        /\ delivered' = delivered /\ failed' = failed
    BY <1>2, <1>8 DEF EndRound, Goto, ClientOK
  <2>2. ASSUME report'[h] = "complete"
        PROVE  /\ step'[h] = "done"
               /\ delivered'[h] = MadeWith(h, Delivered)'
               /\ failed'[h] = MadeWith(h, Lost)'
               /\ delivered'[h] + failed'[h] = Len(made'[h])
    <3>1. /\ step'[h] = "done"
          /\ delivered[h] + failed[h] = Len(made[h])
      BY <1>8, <2>1, <2>2 DEF EndRound, Goto
    <3>2. /\ SeenWith(h, Delivered) =
               {i \in DOMAIN made[h] : status[made[h][i]] \in Delivered}
          /\ SeenWith(h, Lost) =
               {i \in DOMAIN made[h] : status[made[h][i]] \in Lost}
      BY <1>2, <2>1 DEF SeenWith
    <3> DEFINE d == Cardinality(SeenWith(h, Delivered))
               f == Cardinality(SeenWith(h, Lost))
    <3>3. d = MadeWith(h, Delivered) /\ f = MadeWith(h, Lost)
      BY <3>2 DEF MadeWith
    <3>4. delivered[h] <= d /\ failed[h] <= f
      BY <2>1 DEF ClientOK
    <3>5. d + f <= Len(made[h])
      BY SeenTogether
    <3>6. /\ d \in Nat /\ f \in Nat
          /\ delivered[h] \in Nat /\ failed[h] \in Nat
      BY SeenFinite
    <3> HIDE DEF d, f
    <3>7. delivered[h] = d /\ failed[h] = f
      BY <1>2, <3>1, <3>4, <3>5, <3>6, TightSum
    <3>8. /\ MadeWith(h, Delivered)' = MadeWith(h, Delivered)
          /\ MadeWith(h, Lost)' = MadeWith(h, Lost)
      BY <2>1 DEF MadeWith
    <3> QED
      BY <2>1, <3>1, <3>3, <3>7, <3>8
  <2> QED
    BY <1>3, <2>1, <2>2 DEF ClientOK
<1> QED
  BY <1>4, <1>5, <1>6, <1>7, <1>8 DEF ClientStep

-----------------------------------------------------------------------------

\* Whatever clients and vehicles do, and also when failed orders are made
\* pending again, the state of the clients has its type.
THEOREM ScenarioTypeCorrect == ScenarioSpec => []ScenarioTypeOK
<1> QED
  BY ScenarioInitTypeOK, ScenarioNextTypeOK, PTL DEF ScenarioSpec

\* For any orders, clients and batches: the numbers in a report of completion
\* (manager.go:324) are those of the table and stay so, if nobody makes a
\* failed order pending again.
THEOREM ReportAlwaysTrue ==
  ASSUME ~Retries
  PROVE  ScenarioSpec => []ReportTrue
<1> DEFINE ReportIInv == ScenarioTypeOK /\ \A h \in Clients : ClientOK(h)
<1>1. ScenarioInit => ReportIInv
  <2> SUFFICES ASSUME ScenarioInit PROVE \A h \in Clients : ClientOK(h)
    BY ScenarioInitTypeOK
  <2> QED
    BY DEF ScenarioInit, ClientOK
<1>2. ReportIInv /\ [ScenarioNext]_scenarioVars => ReportIInv'
  <2> SUFFICES ASSUME ReportIInv, [ScenarioNext]_scenarioVars
               PROVE  ReportIInv'
    OBVIOUS
  <2>1. ScenarioTypeOK'
    BY ScenarioNextTypeOK
  <2>2. \A o \in Orders : StatusMoves(o)
    BY EachStatusMoves
  <2> SUFFICES ASSUME NEW h \in Clients PROVE ClientOK(h)'
    BY <2>1
  <2>3. CASE ClientStep(h)
    BY <2>1, <2>2, <2>3, ClientMoves
  <2>4. CASE ~ClientStep(h)
    <3>1. Untouched(h)
      <4>1. ASSUME NEW g \in Clients \ {h}, ClientStep(g) PROVE Untouched(h)
        BY <4>1
           DEF ClientStep, CreateOrder, AllCreated, DispatchNext, Untouched,
               AllDispatched, BeginRound, CountOne, EndRound, Goto,
               ScenarioTypeOK
      <4>2. ASSUME NEW g \in Clients, Deadline(g) PROVE Untouched(h)
        BY <4>2 DEF Deadline, Untouched
      <4>3. ASSUME NEW o \in Orders, Elsewhere(o) PROVE Untouched(h)
        BY <4>3 DEF Elsewhere, clientVars, Untouched
      <4>4. CASE UNCHANGED scenarioVars
        BY <4>4 DEF scenarioVars, clientVars, Untouched
      <4> QED
        BY <2>4, <4>1, <4>2, <4>3, <4>4 DEF ScenarioNext
    <3> QED
      BY <2>1, <2>2, <3>1, ClientWaits
  <2> QED
    BY <2>3, <2>4
<1>3. ReportIInv => ReportTrue
  BY DEF ClientOK, ReportTrue, Delivered, Lost
<1> QED
  BY <1>1, <1>2, <1>3, PTL DEF ScenarioSpec

=============================================================================
