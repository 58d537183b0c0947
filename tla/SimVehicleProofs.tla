-------------------------- MODULE SimVehicleProofs --------------------------
(***************************************************************************)
(* What the operators of SimVehicle do, for the modules that put a server  *)
(* or another program around its vehicles.                                 *)
(*                                                                         *)
(* The properties about what the server hears speak of the last status in  *)
(* a queue, which LastSaid finds as the greatest of the positions of a     *)
(* status.  That there is one is GreatestIn; with it LastSaid is known     *)
(* without its CHOOSE: of the empty queue, of a single message, and of two *)
(* queues put together.                                                    *)
(***************************************************************************)
EXTENDS SimVehicle, FiniteSetTheorems, SequenceTheorems, TLAPS

\* A set of positions has a greatest one.
LEMMA GreatestIn ==
  ASSUME NEW n \in Nat, NEW T, T \subseteq 1 .. n, T # {}
  PROVE  \E x \in T : \A y \in T : y <= x
<1> DEFINE F == {t .. n : t \in T}
<1>1. F \subseteq FiniteSubsetsOf(Nat)
  <2> SUFFICES ASSUME NEW t \in T PROVE t .. n \in FiniteSubsetsOf(Nat)
    OBVIOUS
  <2>1. t \in Int /\ n \in Int /\ t .. n \in SUBSET Nat
    OBVIOUS
  <2>2. IsFiniteSet(t .. n)
    BY <2>1, FS_Interval
  <2> QED
    BY <2>1, <2>2 DEF FiniteSubsetsOf
<1>2. F # {}
  OBVIOUS
<1> HIDE DEF F
<1>3. PICK A \in F : \A B \in F : ~(<<B, A>> \in StrictSubsetOrdering(Nat))
  BY <1>1, <1>2, FS_StrictSubsetOrderingWellFounded, WFMin, Zenon
<1>4. PICK x \in T : A = x .. n
  BY DEF F
<1>5. ASSUME NEW y \in T PROVE y <= x
  <2>1. y .. n \in F /\ y .. n \subseteq Nat /\ x .. n \subseteq Nat
    BY DEF F
  <2>2. ~(y .. n \subseteq x .. n /\ y .. n # x .. n)
    BY <1>3, <1>4, <2>1 DEF StrictSubsetOrdering
  <2>3. CASE x < y
    <3>1. y .. n \subseteq x .. n /\ x \in x .. n /\ x \notin y .. n
      BY <2>3
    <3> QED
      BY <3>1, <2>2
  <2> QED
    BY <2>3
<1> QED
  BY <1>5

-----------------------------------------------------------------------------

Statuses(q) == {i \in DOMAIN q : q[i].topic = "status"}

\* The status at position i is the last one of q.
LEMMA LastSaidAt ==
  ASSUME NEW q \in Seq(Message), NEW before, NEW i \in Statuses(q),
         \A j \in Statuses(q) : j <= i
  PROVE  LastSaid(q, before) = q[i].says
<1> DEFINE k == CHOOSE m \in Statuses(q) : \A j \in Statuses(q) : j <= m
<1>1. k \in Statuses(q) /\ \A j \in Statuses(q) : j <= k
  OBVIOUS
<1>2. Statuses(q) \subseteq Nat
  BY LenProperties DEF Statuses
<1> HIDE DEF k
<1>3. k = i
  BY <1>1, <1>2
<1> QED
  BY <1>3 DEF LastSaid, Statuses, k

LEMMA LastSaidNone ==
  ASSUME NEW q \in Seq(Message), NEW before, Statuses(q) = {}
  PROVE  LastSaid(q, before) = before
BY DEF LastSaid, Statuses

\* Either way.
LEMMA LastSaidCases ==
  ASSUME NEW q \in Seq(Message)
  PROVE  \/ Statuses(q) = {}
         \/ \E i \in Statuses(q) : \A j \in Statuses(q) : j <= i
<1>1. Len(q) \in Nat /\ DOMAIN q = 1 .. Len(q)
  BY LenProperties
<1>2. Statuses(q) \subseteq 1 .. Len(q)
  BY <1>1 DEF Statuses
<1> QED
  BY <1>1, <1>2, GreatestIn

\* Of two queues, one after the other, the second has the last word.
LEMMA LastSaidConcat ==
  ASSUME NEW q \in Seq(Message), NEW r \in Seq(Message), NEW before
  PROVE  LastSaid(q \o r, before) = LastSaid(r, LastSaid(q, before))
<1> DEFINE n == Len(q)
           s == q \o r
<1>1. /\ n \in Nat /\ Len(r) \in Nat
      /\ DOMAIN q = 1 .. n /\ DOMAIN r = 1 .. Len(r)
  BY LenProperties
<1>2. /\ s \in Seq(Message) /\ DOMAIN s = 1 .. n + Len(r)
      /\ \A i \in 1 .. n : s[i] = q[i]
      /\ \A i \in 1 .. Len(r) : s[i + n] = r[i]
  BY <1>1, ConcatProperties, LenProperties
<1> HIDE DEF n, s
<1>3. \A i \in 1 .. n : i \in Statuses(q) <=> i \in Statuses(s)
  BY <1>1, <1>2 DEF Statuses
<1>4. \A i \in 1 .. Len(r) : i \in Statuses(r) <=> i + n \in Statuses(s)
  BY <1>1, <1>2 DEF Statuses
<1>5. \A i \in Statuses(s) :
        \/ i \in Statuses(q)
        \/ i - n \in Statuses(r) /\ i - n \in 1 .. Len(r)
  BY <1>1, <1>2 DEF Statuses
<1>6. Statuses(q) \subseteq 1 .. n /\ Statuses(r) \subseteq 1 .. Len(r)
  BY <1>1 DEF Statuses
<1>7. CASE \E i \in Statuses(r) : \A j \in Statuses(r) : j <= i
  <2> PICK i \in Statuses(r) : \A j \in Statuses(r) : j <= i
    BY <1>7
  <2>1. i + n \in Statuses(s) /\ s[i + n] = r[i]
    BY <1>2, <1>4, <1>6
  <2>2. ASSUME NEW j \in Statuses(s) PROVE j <= i + n
    <3>1. i \in 1 .. Len(r) /\ j \in 1 .. n + Len(r)
      BY <1>2, <1>6 DEF Statuses
    <3>2. CASE j \in Statuses(q)
      BY <1>1, <1>6, <3>1, <3>2
    <3>3. CASE j - n \in Statuses(r)
      <4>1. j - n <= i
        BY <3>3
      <4> QED
        BY <1>1, <3>1, <4>1
    <3> QED
      BY <1>5, <3>2, <3>3
  <2>3. LastSaid(s, before) = r[i].says
    BY <1>2, <2>1, <2>2, LastSaidAt
  <2> QED
    BY <2>3, LastSaidAt DEF s
<1>8. CASE Statuses(r) = {}
  <2>1. Statuses(s) = Statuses(q)
    BY <1>1, <1>2, <1>3, <1>5, <1>6, <1>8
  <2>2. CASE Statuses(q) = {}
    BY <1>2, <1>8, <2>1, <2>2, LastSaidNone DEF s
  <2>3. CASE \E i \in Statuses(q) : \A j \in Statuses(q) : j <= i
    <3> PICK i \in Statuses(q) : \A j \in Statuses(q) : j <= i
      BY <2>3
    <3>1. LastSaid(s, before) = s[i].says /\ LastSaid(q, before) = q[i].says
      BY <1>2, <2>1, LastSaidAt
    <3>2. s[i] = q[i]
      BY <1>2, <1>6
    <3> QED
      BY <1>8, <3>1, <3>2, LastSaidNone DEF s
  <2> QED
    BY <2>2, <2>3, LastSaidCases
<1> QED
  BY <1>7, <1>8, LastSaidCases

\* Of no message and of one.
LEMMA LastSaidEmpty ==
  ASSUME NEW before PROVE LastSaid(<<>>, before) = before
BY DEF LastSaid

LEMMA LastSaidOne ==
  ASSUME NEW m \in Message, NEW before
  PROVE  LastSaid(<<m>>, before) =
           IF m.topic = "status" THEN m.says ELSE before
<1>1. <<m>> \in Seq(Message) /\ DOMAIN <<m>> = {1} /\ <<m>>[1] = m
  OBVIOUS
<1>2. CASE m.topic = "status"
  <2>1. Statuses(<<m>>) = {1}
    BY <1>1, <1>2 DEF Statuses
  <2>2. 1 \in Statuses(<<m>>) /\ \A j \in Statuses(<<m>>) : j <= 1
    BY <2>1
  <2>3. LastSaid(<<m>>, before) = <<m>>[1].says
    BY <1>1, <2>2, LastSaidAt, Zenon
  <2> QED
    BY <1>1, <1>2, <2>3
<1>3. CASE m.topic # "status"
  <2>1. Statuses(<<m>>) = {}
    BY <1>1, <1>3 DEF Statuses
  <2> QED
    BY <1>1, <1>3, <2>1, LastSaidNone
<1> QED
  BY <1>2, <1>3

\* Short sequences put together.
LEMMA OneAndOne ==
  ASSUME NEW S, NEW a \in S, NEW b \in S
  PROVE  <<a>> \o <<b>> = <<a, b>>
<1>1. /\ <<a>> \in Seq(S) /\ <<b>> \in Seq(S) /\ <<a, b>> \in Seq(S)
      /\ Len(<<a>>) = 1 /\ Len(<<b>>) = 1 /\ Len(<<a, b>>) = 2
  OBVIOUS
<1>2. Len(<<a>> \o <<b>>) = 2 /\ <<a>> \o <<b>> \in Seq(S)
  BY <1>1, ConcatProperties
<1>3. \A i \in 1 .. 2 : (<<a>> \o <<b>>)[i] = <<a, b>>[i]
  BY <1>1, ConcatProperties
<1> QED
  BY <1>1, <1>2, <1>3, SeqEqual

LEMMA OneAndTwo ==
  ASSUME NEW S, NEW a \in S, NEW b \in S, NEW c \in S
  PROVE  <<a>> \o <<b, c>> = <<a, b, c>>
<1>1. /\ <<a>> \in Seq(S) /\ <<b, c>> \in Seq(S) /\ <<a, b, c>> \in Seq(S)
      /\ Len(<<a>>) = 1 /\ Len(<<b, c>>) = 2 /\ Len(<<a, b, c>>) = 3
  OBVIOUS
<1>2. Len(<<a>> \o <<b, c>>) = 3 /\ <<a>> \o <<b, c>> \in Seq(S)
  BY <1>1, ConcatProperties
<1>3. \A i \in 1 .. 3 : (<<a>> \o <<b, c>>)[i] = <<a, b, c>>[i]
  BY <1>1, ConcatProperties
<1> QED
  BY <1>1, <1>2, <1>3, SeqEqual

\* Messages that are appended one after another.
LEMMA Glue ==
  ASSUME NEW q \in Seq(Message), NEW a \in Message, NEW b \in Message
  PROVE  /\ (q \o <<a>>) \o <<b>> = q \o <<a, b>>
         /\ \A c \in Message : (q \o <<a>>) \o <<b, c>> = q \o <<a, b, c>>
         /\ q \o <<>> = q
<1>1. <<a>> \in Seq(Message) /\ <<b>> \in Seq(Message)
  OBVIOUS
<1>2. (q \o <<a>>) \o <<b>> = q \o <<a, b>>
  <2>1. (q \o <<a>>) \o <<b>> = q \o (<<a>> \o <<b>>)
    BY <1>1, ConcatAssociative
  <2>2. <<a>> \o <<b>> = <<a, b>>
    BY OneAndOne
  <2> QED
    BY <2>1, <2>2
<1>3. ASSUME NEW c \in Message
      PROVE  (q \o <<a>>) \o <<b, c>> = q \o <<a, b, c>>
  <2>1. <<b, c>> \in Seq(Message) /\ <<a>> \o <<b, c>> = <<a, b, c>>
    BY OneAndTwo
  <2> QED
    BY <1>1, <2>1, ConcatAssociative
<1> QED
  BY <1>2, <1>3, ConcatEmptySeq

-----------------------------------------------------------------------------
(* The vehicles.                                                           *)

\* The phases are different, whatever the phase of a free vehicle is.
LEMMA PhaseFacts ==
  /\ NoPhase # "to_pickup" /\ NoPhase # "to_dropoff"
  /\ Phases = {NoPhase, "to_pickup", "to_dropoff"}
BY Zenon DEF NoPhase, Phases

\* A vehicle without an order is free, only a free vehicle charges, and only
\* a vehicle that goes to a pickup is en_route.
Phased ==
  \A v \in Vehicles :
    /\ sim[v].phase = NoPhase <=> sim[v].order = NoOrder
    /\ sim[v].phase = NoPhase <=> sim[v].status \in {"idle", "charging"}
    /\ sim[v].phase = "to_pickup" <=> sim[v].status = "en_route"

\* A vehicle that starts is well formed, free and idle.
LEMMA NewVehicleState ==
  ASSUME NEW level \in StartBattery
  PROVE  /\ NewVehicle(level) \in VehicleState
         /\ NewVehicle(level).phase = NoPhase
         /\ NewVehicle(level).status = "idle"
         /\ NewVehicle(level).order = NoOrder
         /\ NewVehicle(level).battery = level
BY SimAssumption DEF NewVehicle, VehicleState, Phases

\* Every message of a tick is one the server knows.
LEMMA MessageTypes ==
  /\ \A says \in {"idle", "delivering", "charging"} : Says(says) \in Message
  /\ \A s : Telemetry(s) \in Message
BY DEF Says, Telemetry, Message

\* One step of the charger, and the floor of the battery.
LEMMA ChargeOutcome ==
  ASSUME NEW p, NEW phase, NEW status, NEW order, NEW leg, NEW level \in Int,
         p = [phase |-> phase, status |-> status, order |-> order, leg |-> leg,
              battery |-> level],
         status = "charging" => level + Charge >= 0
  PROVE  LET after == NotNegative(ChargeStep(p))
         IN  \E status2 \in {status, "idle"}, level2 \in Nat :
               /\ after = [phase |-> phase, status |-> status2,
                           order |-> order, leg |-> leg, battery |-> level2]
               /\ ChargeStep(p).status = status2
               /\ status2 # status =>
                    /\ status = "charging" /\ level2 = FullBattery
                    /\ level + Charge >= FullBattery
               /\ status2 = status =>
                    /\ status = "charging" => level2 < FullBattery
                    /\ status # "charging" /\ level >= 0 => level2 = level
<1> DEFINE rec(st, lv) == [phase |-> phase, status |-> st, order |-> order,
                           leg |-> leg, battery |-> lv]
<1>n. FullBattery \in Nat /\ Charge \in Nat
  BY SimAssumption
<1>1. \A st, lv : NotNegative(rec(st, lv)) = rec(st, IF lv < 0 THEN 0 ELSE lv)
  BY DEF NotNegative
<1>2. CASE status # "charging"
  <2>1. ChargeStep(p) = rec(status, level)
    BY <1>2 DEF ChargeStep
  <2>2. NotNegative(ChargeStep(p)) = rec(status, IF level < 0 THEN 0 ELSE level)
    BY <1>1, <2>1
  <2>3. (IF level < 0 THEN 0 ELSE level) \in Nat
    OBVIOUS
  <2> QED
    BY <1>2, <2>1, <2>2, <2>3
<1>3. CASE status = "charging" /\ level + Charge >= FullBattery
  <2>1. ChargeStep(p) = rec("idle", FullBattery)
    BY <1>3 DEF ChargeStep
  <2>2. NotNegative(ChargeStep(p)) = rec("idle", FullBattery)
    BY <1>n, <1>1, <2>1
  <2> QED
    BY <1>n, <1>3, <2>1, <2>2
<1>4. CASE status = "charging" /\ ~(level + Charge >= FullBattery)
  <2>1. ChargeStep(p) = rec(status, level + Charge)
    BY <1>4 DEF ChargeStep
  <2>2. NotNegative(ChargeStep(p)) = rec(status, level + Charge)
    BY <1>n, <1>1, <1>4, <2>1
  <2> QED
    BY <1>n, <1>4, <2>1, <2>2
<1> QED
  BY <1>2, <1>3, <1>4

\* What a vehicle that was in one status says when it ends a tick in another.
EndSays(before, after, news) ==
  \E t \in Message :
    /\ t.topic = "telemetry"
    /\ \/ after = before /\ news = <<t>>
       \/ /\ before = "idle" /\ after = "charging"
          /\ news = <<Says("charging"), t>>
       \/ /\ before = "charging" /\ after = "idle"
          /\ news = <<Says("idle"), t>>

\* The end of a tick leaves the order and the phase alone.  A vehicle comes
\* out of it idle with a charged battery only, and charging with one that is
\* not full, and says so.
TickEnds(v, s, said) ==
  /\ inbox' \in [Vehicles -> Seq(Message)]
  /\ UNCHANGED <<commands, heard>>
  /\ \E after \in VehicleState, news \in Seq(Message) :
       /\ sim' = [sim EXCEPT ![v] = after]
       /\ after.phase = s.phase
       /\ after.order = s.order
       /\ after.phase = NoPhase <=> after.status \in {"idle", "charging"}
       /\ after.phase = "to_pickup" <=> after.status = "en_route"
       /\ after.status = "idle" => after.battery >= LowBattery
       /\ after.status = "charging" => after.battery < FullBattery
       /\ EndSays(s.status, after.status, news)
       /\ inbox' = [inbox EXCEPT ![v] = (@ \o said) \o news]

LEMMA TickOutcome ==
  ASSUME SimTypeOK, NEW v \in Vehicles, NEW s \in VehicleState,
         NEW said \in Seq(Message), NEW drain \in Drains \cup {0},
         s.phase = NoPhase <=> s.status \in {"idle", "charging"},
         s.phase = "to_pickup" <=> s.status = "en_route",
         EndTick(v, s, said, drain)
  PROVE  TickEnds(v, s, said)
<1> DEFINE tired   == GoesCharging(s, drain)
           plugged == [s EXCEPT !.battery = @ - drain,
                                !.status  = IF tired THEN "charging" ELSE @]
           charged == ChargeStep(plugged)
           after   == NotNegative(charged)
           first   == IF tired THEN <<Says("charging")>> ELSE <<>>
           second  == IF charged.status # plugged.status
                      THEN <<Says("idle")>> ELSE <<>>
           third   == <<Telemetry(after)>>
           level   == s.battery - drain
           status  == IF tired THEN "charging" ELSE s.status
<1>b. s.battery \in Nat
  BY DEF VehicleState
<1>d. drain \in Nat /\ (drain = 0 \/ drain < Charge)
  <2>1. drain \in Drains => drain \in Nat /\ drain < Charge
    BY SimAssumption
  <2> QED
    BY <2>1
<1>n. /\ LowBattery \in Nat /\ FullBattery \in Nat /\ Charge \in Nat
      /\ LowBattery + Charge < FullBattery
  BY SimAssumption
<1>e. /\ sim' = [sim EXCEPT ![v] = after]
      /\ inbox' = [inbox EXCEPT ![v] = @ \o said \o first \o second \o third]
      /\ UNCHANGED <<commands, heard>>
  BY DEF EndTick
<1>1. plugged = [phase |-> s.phase, status |-> status, order |-> s.order,
                 leg |-> s.leg, battery |-> level]
  <2>1. s = [phase |-> s.phase, status |-> s.status, order |-> s.order,
             leg |-> s.leg, battery |-> s.battery]
    BY DEF VehicleState
  <2> HIDE DEF tired, level
  <2>2. plugged = [s EXCEPT !.battery = level, !.status = status]
    BY DEF level
  <2> HIDE DEF status, plugged
  <2> QED
    BY <2>1, <2>2
<1>2. tired <=> level < LowBattery /\ s.status = "idle"
  BY DEF GoesCharging, VehicleState
<1>3. /\ level \in Int /\ (status = "charging" => level + Charge >= 0)
  BY <1>b, <1>d, <1>n, <1>2
<1>4. first \in Seq(Message) /\ second \in Seq(Message) /\ third \in Seq(Message)
  BY MessageTypes
<1> HIDE DEF tired, plugged, level, first, second, third
<1>5. PICK status2 \in {status, "idle"}, level2 \in Nat :
        /\ after = [phase |-> s.phase, status |-> status2, order |-> s.order,
                    leg |-> s.leg, battery |-> level2]
        /\ status2 # status =>
             /\ status = "charging" /\ level2 = FullBattery
             /\ level + Charge >= FullBattery
        /\ status2 = status =>
             /\ status = "charging" => level2 < FullBattery
             /\ status # "charging" /\ level >= 0 => level2 = level
        /\ charged.status = status2 /\ plugged.status = status
  BY <1>1, <1>3, ChargeOutcome
<1>c. after.status = status2
  BY <1>5
<1>f. /\ first = IF tired THEN <<Says("charging")>> ELSE <<>>
      /\ second = IF status2 # status THEN <<Says("idle")>> ELSE <<>>
      /\ third = <<Telemetry(after)>>
  BY <1>5 DEF first, second, third
<1> HIDE DEF after, charged
<1>6. /\ after \in VehicleState
      /\ after.phase = s.phase
      /\ after.order = s.order
      /\ after.phase = NoPhase <=> after.status \in {"idle", "charging"}
      /\ after.phase = "to_pickup" <=> after.status = "en_route"
      /\ after.status = "idle" => after.battery >= LowBattery
      /\ after.status = "charging" => after.battery < FullBattery
  <2>1. /\ status2 \in {"idle", "en_route", "delivering", "charging"}
        /\ s.phase = NoPhase <=> status2 \in {"idle", "charging"}
        /\ s.phase = "to_pickup" <=> status2 = "en_route"
    BY <1>2, <1>5, PhaseFacts DEF VehicleState
  <2>2. status2 = "idle" => level2 >= LowBattery
    BY <1>2, <1>3, <1>5, <1>b, <1>d, <1>n
  <2>3. status2 = "charging" => level2 < FullBattery
    BY <1>5
  <2> QED
    BY <1>5, <2>1, <2>2, <2>3 DEF VehicleState
<1>7. inbox' \in [Vehicles -> Seq(Message)]
  <2>1. inbox[v] \in Seq(Message) /\ inbox \in [Vehicles -> Seq(Message)]
    BY DEF SimTypeOK
  <2>2. inbox[v] \o said \in Seq(Message)
    BY <2>1, ConcatProperties
  <2>3. (inbox[v] \o said) \o first \in Seq(Message)
    BY <2>2, <1>4, ConcatProperties
  <2>4. ((inbox[v] \o said) \o first) \o second \in Seq(Message)
    BY <2>3, <1>4, ConcatProperties
  <2>5. (((inbox[v] \o said) \o first) \o second) \o third \in Seq(Message)
    BY <2>4, <1>4, ConcatProperties
  <2> QED
    BY <1>e, <2>1, <2>5
<1>8. \E news \in Seq(Message) :
        /\ EndSays(s.status, after.status, news)
        /\ inbox' = [inbox EXCEPT ![v] = (@ \o said) \o news]
  <2> DEFINE q == inbox[v] \o said
             t == Telemetry(after)
  <2>1. /\ t \in Message /\ t.topic = "telemetry"
        /\ Says("charging") \in Message /\ Says("idle") \in Message
    BY MessageTypes DEF Telemetry
  <2>2. q \in Seq(Message)
    BY ConcatProperties DEF SimTypeOK
  <2>3. inbox' = [inbox EXCEPT ![v] = ((q \o first) \o second) \o third]
    BY <1>e
  <2> HIDE DEF q, t
  <2>4. CASE tired
    <3>1. status2 = "charging" /\ status = "charging" /\ s.status = "idle"
      BY <1>2, <1>3, <1>5, <1>n, <2>4
    <3>2. ((q \o first) \o second) \o third = q \o <<Says("charging"), t>>
      <4>1. q \o <<Says("charging")>> \in Seq(Message)
        BY <2>1, <2>2, ConcatProperties
      <4>2. (q \o <<Says("charging")>>) \o <<>> = q \o <<Says("charging")>>
        BY <2>1, <4>1, Glue
      <4>3. (q \o <<Says("charging")>>) \o <<t>> = q \o <<Says("charging"), t>>
        BY <2>1, <2>2, Glue, Zenon
      <4>4. first = <<Says("charging")>> /\ second = <<>> /\ third = <<t>>
        BY <1>f, <2>4, <3>1 DEF t
      <4> QED
        BY <4>2, <4>3, <4>4
    <3>3. <<Says("charging"), t>> \in Seq(Message)
      BY <2>1
    <3>4. EndSays(s.status, after.status, <<Says("charging"), t>>)
      BY <1>c, <2>1, <3>1 DEF EndSays
    <3> QED
      BY <2>3, <3>2, <3>3, <3>4 DEF q
  <2>5. CASE ~tired /\ status2 # status
    <3>1. status2 = "idle" /\ s.status = "charging"
      BY <1>5, <2>5
    <3>2. ((q \o first) \o second) \o third = q \o <<Says("idle"), t>>
      <4>1. q \o <<>> = q
        BY <2>2, ConcatEmptySeq
      <4>2. (q \o <<Says("idle")>>) \o <<t>> = q \o <<Says("idle"), t>>
        BY <2>1, <2>2, Glue, Zenon
      <4>3. first = <<>> /\ second = <<Says("idle")>> /\ third = <<t>>
        BY <1>f, <2>5 DEF t
      <4> QED
        BY <4>1, <4>2, <4>3
    <3>3. <<Says("idle"), t>> \in Seq(Message)
      BY <2>1
    <3>4. EndSays(s.status, after.status, <<Says("idle"), t>>)
      BY <1>c, <2>1, <3>1 DEF EndSays
    <3> QED
      BY <2>3, <3>2, <3>3, <3>4 DEF q
  <2>6. CASE ~tired /\ status2 = status
    <3>1. status2 = s.status
      BY <2>6
    <3>2. ((q \o first) \o second) \o third = q \o <<t>>
      BY <1>f, <2>1, <2>2, <2>6, Glue DEF t
    <3>3. <<t>> \in Seq(Message)
      BY <2>1
    <3>4. EndSays(s.status, after.status, <<t>>)
      BY <1>c, <2>1, <3>1 DEF EndSays
    <3> QED
      BY <2>3, <3>2, <3>3, <3>4 DEF q
  <2> QED
    BY <2>4, <2>5, <2>6
<1> QED
  BY <1>e, <1>6, <1>7, <1>8 DEF TickEnds

\* What a tick may do to a vehicle and its order.
Ticked(v, after) ==
  LET now == sim[v]
  IN  \/ /\ after.phase = now.phase /\ after.order = now.order
         /\ requests' = requests
      \/ /\ now.phase = "to_pickup"
         /\ after.phase = "to_dropoff" /\ after.order = now.order
         /\ requests' = requests \cup
              {[order |-> now.order, status |-> "picked_up"]}
      \/ /\ now.phase = "to_dropoff"
         /\ after.phase = NoPhase /\ after.order = NoOrder
         /\ requests' = requests \cup
              {[order |-> now.order, status |-> "delivered"]}

\* A vehicle is well formed, free exactly when it has no order, and its
\* battery fits its status.
Fit(s) ==
  /\ s \in VehicleState
  /\ s.phase = NoPhase <=> s.order = NoOrder
  /\ s.phase = NoPhase <=> s.status \in {"idle", "charging"}
  /\ s.phase = "to_pickup" <=> s.status = "en_route"
  /\ s.status = "idle" => s.battery >= LowBattery
  /\ s.status = "charging" => s.battery < FullBattery

\* What a tick says: the telemetry, and the statuses that it goes through.
TickNews(now, after, news) ==
  \E t \in Message :
    /\ t.topic = "telemetry"
    /\ \/ /\ after.status = now.status /\ after.phase = now.phase
          /\ news = <<t>>
       \/ /\ now.status = "idle" /\ after.status = "charging"
          /\ news = <<Says("charging"), t>>
       \/ /\ now.status = "charging" /\ after.status = "idle"
          /\ news = <<Says("idle"), t>>
       \/ /\ now.phase = "to_pickup" /\ after.phase = "to_dropoff"
          /\ news = <<Says("delivering"), t>>
       \/ /\ now.phase = "to_dropoff" /\ after.status = "idle"
          /\ news = <<Says("idle"), t>>
       \/ /\ now.phase = "to_dropoff" /\ after.status = "charging"
          /\ news = <<Says("idle"), Says("charging"), t>>

\* The whole of a tick of v, in one step.
TickDone(v) ==
  /\ inbox' \in [Vehicles -> Seq(Message)]
  /\ UNCHANGED <<commands, heard>>
  /\ \E after : /\ Fit(after)
                /\ sim' = [sim EXCEPT ![v] = after]
                /\ Ticked(v, after)
                /\ \E news \in Seq(Message) :
                     /\ TickNews(sim[v], after, news)
                     /\ inbox' = [inbox EXCEPT ![v] = @ \o news]

\* EndTick after a move that says nothing, and after one that says a status.
LEMMA SaidNothing ==
  ASSUME SimTypeOK, NEW v \in Vehicles, NEW news \in Seq(Message),
         inbox' = [inbox EXCEPT ![v] = (@ \o <<>>) \o news]
  PROVE  inbox' = [inbox EXCEPT ![v] = @ \o news]
<1>1. inbox[v] \o <<>> = inbox[v]
  BY ConcatEmptySeq DEF SimTypeOK
<1> QED
  BY <1>1

LEMMA SaidOne ==
  ASSUME SimTypeOK, NEW v \in Vehicles, NEW m \in Message,
         NEW news \in Seq(Message),
         inbox' = [inbox EXCEPT ![v] = (@ \o <<m>>) \o news]
  PROVE  /\ <<m>> \o news \in Seq(Message)
         /\ inbox' = [inbox EXCEPT ![v] = @ \o (<<m>> \o news)]
<1>1. inbox[v] \in Seq(Message) /\ <<m>> \in Seq(Message)
  BY DEF SimTypeOK
<1>2. (inbox[v] \o <<m>>) \o news = inbox[v] \o (<<m>> \o news)
  <2>1. ASSUME NEW q \in Seq(Message), NEW one \in Seq(Message)
        PROVE  (q \o one) \o news = q \o (one \o news)
    BY ConcatAssociative
  <2> QED
    BY <1>1, <2>1, Zenon
<1>3. <<m>> \o news \in Seq(Message)
  BY <1>1, ConcatProperties
<1> QED
  BY <1>2, <1>3

LEMMA TickEffect ==
  ASSUME SimTypeOK, Phased, NEW v \in Vehicles, SimTick(v)
  PROVE  TickDone(v)
<1> DEFINE now == sim[v]
<1>1. /\ now \in VehicleState
      /\ now.phase = NoPhase <=> now.order = NoOrder
      /\ now.phase = NoPhase <=> now.status \in {"idle", "charging"}
      /\ now.phase = "to_pickup" <=> now.status = "en_route"
      /\ now = [phase |-> now.phase, status |-> now.status,
                order |-> now.order, leg |-> now.leg, battery |-> now.battery]
  BY DEF SimTypeOK, Phased, VehicleState
<1>2. <<>> \in Seq(Message)
      /\ Says("delivering") \in Message /\ Says("idle") \in Message
  BY MessageTypes
\* A move to s, silent and without a change of phase or status.
<1>m. ASSUME NEW s \in VehicleState, NEW drain \in Drains \cup {0},
             EndTick(v, s, <<>>, drain),
             s.phase = now.phase, s.order = now.order, s.status = now.status,
             requests' = requests
      PROVE  TickDone(v)
  <2>0. TickEnds(v, s, <<>>)
    BY <1>1, <1>2, <1>m, TickOutcome
  <2>1. PICK after \in VehicleState, news \in Seq(Message) :
          /\ sim' = [sim EXCEPT ![v] = after]
          /\ after.phase = s.phase
          /\ after.order = s.order
          /\ after.phase = NoPhase <=> after.status \in {"idle", "charging"}
          /\ after.phase = "to_pickup" <=> after.status = "en_route"
          /\ after.status = "idle" => after.battery >= LowBattery
          /\ after.status = "charging" => after.battery < FullBattery
          /\ EndSays(s.status, after.status, news)
          /\ inbox' = [inbox EXCEPT ![v] = (@ \o <<>>) \o news]
    BY <2>0 DEF TickEnds
  <2>2. Fit(after) /\ Ticked(v, after)
    BY <1>1, <1>m, <2>1 DEF Fit, Ticked
  <2>3. TickNews(now, after, news)
    BY <1>m, <2>1 DEF EndSays, TickNews
  <2>4. inbox' = [inbox EXCEPT ![v] = @ \o news]
    BY <2>1, SaidNothing
  <2>5. inbox' \in [Vehicles -> Seq(Message)] /\ UNCHANGED <<commands, heard>>
    BY <2>0 DEF TickEnds
  <2> QED
    BY <2>1, <2>2, <2>3, <2>4, <2>5 DEF TickDone
\* A move to s that says one status.
<1>n. ASSUME NEW s \in VehicleState, NEW m \in Message,
             EndTick(v, s, <<m>>, 0),
             s.phase = NoPhase <=> s.order = NoOrder,
             s.phase = NoPhase <=> s.status \in {"idle", "charging"},
             s.phase = "to_pickup" <=> s.status = "en_route",
             \A after : after.phase = s.phase /\ after.order = s.order =>
                          Ticked(v, after),
             \A after, news : after.phase = s.phase
                              /\ EndSays(s.status, after.status, news) =>
                          TickNews(now, after, <<m>> \o news)
      PROVE  TickDone(v)
  <2>0. TickEnds(v, s, <<m>>)
    <3>1. <<m>> \in Seq(Message) /\ 0 \in Drains \cup {0}
      OBVIOUS
    <3> QED
      BY <1>n, <3>1, TickOutcome
  <2>1. PICK after \in VehicleState, news \in Seq(Message) :
          /\ sim' = [sim EXCEPT ![v] = after]
          /\ after.phase = s.phase
          /\ after.order = s.order
          /\ after.phase = NoPhase <=> after.status \in {"idle", "charging"}
          /\ after.phase = "to_pickup" <=> after.status = "en_route"
          /\ after.status = "idle" => after.battery >= LowBattery
          /\ after.status = "charging" => after.battery < FullBattery
          /\ EndSays(s.status, after.status, news)
          /\ inbox' = [inbox EXCEPT ![v] = (@ \o <<m>>) \o news]
    BY <2>0 DEF TickEnds
  <2>2. Fit(after) /\ Ticked(v, after)
    BY <1>n, <2>1 DEF Fit
  <2>3. TickNews(now, after, <<m>> \o news)
    BY <1>n, <2>1
  <2>4. /\ inbox' = [inbox EXCEPT ![v] = @ \o (<<m>> \o news)]
        /\ <<m>> \o news \in Seq(Message)
    BY <2>1, SaidOne
  <2>5. inbox' \in [Vehicles -> Seq(Message)] /\ UNCHANGED <<commands, heard>>
    BY <2>0 DEF TickEnds
  <2> QED
    BY <2>1, <2>2, <2>3, <2>4, <2>5 DEF TickDone
<1>3. CASE Drive(v)
  <2> DEFINE s == [now EXCEPT !.leg = @ - 1]
  <2>1. PICK drain \in Drains : EndTick(v, s, <<>>, drain)
    BY <1>3 DEF Drive
  <2>2. requests' = requests /\ now.leg > 0
    BY <1>3 DEF Drive
  <2>3. s \in VehicleState /\ s.phase = now.phase /\ s.order = now.order
        /\ s.status = now.status
    BY <1>1, <2>2, SimAssumption DEF VehicleState
  <2> HIDE DEF s, now
  <2> QED
    BY <2>1, <2>2, <2>3, <1>m
<1>4. CASE PickUp(v)
  <2>1. PICK leg \in 0 .. MaxLeg :
          EndTick(v, [now EXCEPT !.phase = "to_dropoff", !.leg = leg,
                                 !.status = "delivering"],
                  <<Says("delivering")>>, 0)
    BY <1>4 DEF PickUp
  <2> DEFINE s == [now EXCEPT !.phase = "to_dropoff", !.leg = leg,
                              !.status = "delivering"]
  <2>2. /\ now.phase = "to_pickup"
        /\ requests' = requests \cup
             {[order |-> now.order, status |-> "picked_up"]}
    BY <1>4 DEF PickUp
  <2>3. s \in VehicleState /\ s.phase = "to_dropoff" /\ s.order = now.order
        /\ s.status = "delivering"
    BY <1>1, PhaseFacts DEF VehicleState
  <2>4. EndTick(v, s, <<Says("delivering")>>, 0)
    BY <2>1
  <2>5. \A after : after.phase = s.phase /\ after.order = s.order =>
                     Ticked(v, after)
    BY <2>2, <2>3 DEF Ticked
  <2>6. ASSUME NEW after, NEW news, after.phase = s.phase,
               EndSays(s.status, after.status, news)
        PROVE  TickNews(now, after, <<Says("delivering")>> \o news)
    <3>1. PICK t \in Message : t.topic = "telemetry" /\ news = <<t>>
      BY <2>3, <2>6 DEF EndSays
    <3>2. <<Says("delivering")>> \o news = <<Says("delivering"), t>>
      BY <1>2, <3>1, OneAndOne, Zenon
    <3> QED
      BY <2>2, <2>3, <2>6, <3>1, <3>2 DEF TickNews
  <2> HIDE DEF s, now
  <2> QED
    BY <1>1, <1>2, <2>2, <2>3, <2>4, <2>5, <2>6, <1>n, PhaseFacts
<1>5. CASE Deliver(v)
  <2> DEFINE s == [now EXCEPT !.phase = NoPhase, !.order = NoOrder,
                              !.status = "idle"]
  <2>1. EndTick(v, s, <<Says("idle")>>, 0)
    BY <1>5 DEF Deliver
  <2>2. /\ now.phase = "to_dropoff"
        /\ requests' = requests \cup
             {[order |-> now.order, status |-> "delivered"]}
    BY <1>5 DEF Deliver
  <2>3. s \in VehicleState /\ s.phase = NoPhase /\ s.order = NoOrder
        /\ s.status = "idle"
    BY <1>1, PhaseFacts DEF VehicleState
  <2>4. \A after : after.phase = s.phase /\ after.order = s.order =>
                     Ticked(v, after)
    BY <2>2, <2>3 DEF Ticked
  <2>5. ASSUME NEW after, NEW news, after.phase = s.phase,
               EndSays(s.status, after.status, news)
        PROVE  TickNews(now, after, <<Says("idle")>> \o news)
    <3>0. Says("idle") \in Message /\ Says("charging") \in Message
      BY MessageTypes
    <3>1. PICK t \in Message :
            /\ t.topic = "telemetry"
            /\ \/ after.status = "idle" /\ news = <<t>>
               \/ after.status = "charging" /\ news = <<Says("charging"), t>>
      BY <2>3, <2>5 DEF EndSays
    <3>2. <<Says("idle")>> \o <<t>> = <<Says("idle"), t>>
      BY <3>0, OneAndOne, Zenon
    <3>3. <<Says("idle")>> \o <<Says("charging"), t>> =
            <<Says("idle"), Says("charging"), t>>
      BY <3>0, OneAndTwo, Zenon
    <3> QED
      BY <2>2, <3>1, <3>2, <3>3 DEF TickNews
  <2> HIDE DEF s, now
  <2> QED
    BY <1>2, <2>1, <2>3, <2>4, <2>5, <1>n, PhaseFacts
<1>6. CASE Cruise(v)
  <2>1. PICK drain \in Drains : EndTick(v, now, <<>>, drain)
    BY <1>6 DEF Cruise
  <2>2. requests' = requests
    BY <1>6 DEF Cruise
  <2> HIDE DEF now
  <2> QED
    BY <1>1, <2>1, <2>2, <1>m
<1> QED
  BY <1>3, <1>4, <1>5, <1>6 DEF SimTick

\* A vehicle that changes, and stays fit.
LEMMA FitStep ==
  ASSUME SimTypeOK, Phased, NEW v \in Vehicles, NEW after \in VehicleState,
         sim' = [sim EXCEPT ![v] = after],
         after.phase = NoPhase <=> after.order = NoOrder,
         after.phase = NoPhase <=> after.status \in {"idle", "charging"},
         after.phase = "to_pickup" <=> after.status = "en_route"
  PROVE  /\ sim' \in [Vehicles -> VehicleState]
         /\ Phased'
         /\ sim'[v] = after
         /\ \A w \in Vehicles \ {v} : sim'[w] = sim[w]
BY DEF SimTypeOK, Phased

LEMMA TickSteps ==
  ASSUME SimTypeOK, Phased, NEW v \in Vehicles, SimTick(v)
  PROVE  SimTypeOK' /\ Phased' /\ (ChargesInTime => ChargesInTime')
<1>1. PICK after :
        Fit(after) /\ sim' = [sim EXCEPT ![v] = after] /\ Ticked(v, after)
  BY TickEffect DEF TickDone
<1>2. /\ sim' \in [Vehicles -> VehicleState]
      /\ Phased'
      /\ sim'[v] = after
      /\ \A w \in Vehicles \ {v} : sim'[w] = sim[w]
  BY <1>1, FitStep DEF Fit
<1>3. requests' \subseteq Request
  <2>1. sim[v].phase # NoPhase => sim[v].order \in Orders
    BY DEF SimTypeOK, Phased, VehicleState
  <2> QED
    BY <1>1, <2>1, PhaseFacts DEF Ticked, Request, SimTypeOK
<1>4. SimTypeOK'
  BY <1>2, <1>3, TickEffect DEF SimTypeOK, TickDone
<1>5. ChargesInTime => ChargesInTime'
  BY <1>1, <1>2 DEF Fit, ChargesInTime
<1> QED
  BY <1>2, <1>4, <1>5

\* A command is an order, and what is left of the queue is what came after it.
LEMMA CommandHead ==
  ASSUME SimTypeOK, NEW v \in Vehicles, commands[v] # <<>>
  PROVE  /\ Head(commands[v]) \in Orders
         /\ Head(commands[v]) = commands[v][1]
         /\ 1 \in DOMAIN commands[v]
         /\ Tail(commands[v]) \in Seq(Orders)
         /\ \A i \in DOMAIN Tail(commands[v]) :
              /\ i + 1 \in DOMAIN commands[v] /\ i + 1 # 1 /\ i \in Nat
              /\ Tail(commands[v])[i] = commands[v][i + 1]
<1>1. commands[v] \in Seq(Orders)
  BY DEF SimTypeOK
<1> QED
  BY <1>1, HeadTailProperties, LenProperties

LEMMA CommandSteps ==
  ASSUME SimTypeOK, Phased, NEW v \in Vehicles, OnCommand(v)
  PROVE  SimTypeOK' /\ Phased' /\ (ChargesInTime => ChargesInTime')
<1>1. PICK leg \in 0 .. MaxLeg :
        sim' = [sim EXCEPT ![v] =
          [@ EXCEPT !.order = Head(commands[v]), !.phase = "to_pickup",
                    !.leg = leg, !.status = "en_route"]]
  BY DEF OnCommand
<1>2. /\ commands[v] # <<>> /\ commands' = [commands EXCEPT ![v] = Tail(@)]
      /\ UNCHANGED <<inbox, requests, heard>>
  BY DEF OnCommand
<1> DEFINE after == [sim[v] EXCEPT !.order = Head(commands[v]),
                                   !.phase = "to_pickup",
                                   !.leg = leg, !.status = "en_route"]
<1>3. /\ after \in VehicleState /\ after.order \in Orders
      /\ after.phase = "to_pickup" /\ after.status = "en_route"
  <2>1. sim[v] \in VehicleState /\ Head(commands[v]) \in Orders
    BY <1>2, CommandHead DEF SimTypeOK
  <2> QED
    BY <2>1, PhaseFacts DEF VehicleState
<1>4. sim' = [sim EXCEPT ![v] = after]
  BY <1>1 DEF SimTypeOK
<1> HIDE DEF after
<1>5. /\ sim' \in [Vehicles -> VehicleState]
      /\ Phased'
      /\ sim'[v] = after
      /\ \A w \in Vehicles \ {v} : sim'[w] = sim[w]
  BY <1>3, <1>4, FitStep, PhaseFacts, SimAssumption
<1>6. commands' \in [Vehicles -> Seq(Orders)]
  BY <1>2, CommandHead DEF SimTypeOK
<1>7. SimTypeOK'
  BY <1>2, <1>5, <1>6 DEF SimTypeOK
<1>8. ChargesInTime => ChargesInTime'
  BY <1>3, <1>5 DEF ChargesInTime
<1> QED
  BY <1>5, <1>7, <1>8

-----------------------------------------------------------------------------
(* What a queue of messages says.                                          *)

Has(q, s) == \E i \in DOMAIN q : q[i] = Says(s)

OneIdle(q) ==
  \A i, j \in DOMAIN q : q[i] = Says("idle") /\ q[j] = Says("idle") => i = j

\* Every "delivering" is taken back by a later "idle".
TakenBack(q) ==
  \A i \in DOMAIN q : q[i] = Says("delivering") =>
    \E j \in DOMAIN q : j > i /\ q[j] = Says("idle")

\* Indices of a queue without its head, and of two queues put together.
LEMMA TailIndices ==
  ASSUME NEW q \in Seq(Message), q # <<>>
  PROVE  /\ Head(q) \in Message /\ Head(q) = q[1] /\ 1 \in DOMAIN q
         /\ Tail(q) \in Seq(Message)
         /\ \A i \in DOMAIN Tail(q) :
              i \in Nat /\ i + 1 \in DOMAIN q /\ i + 1 # 1 /\ Tail(q)[i] = q[i + 1]
         /\ \A i \in DOMAIN q : i # 1 =>
              i \in Nat /\ i - 1 \in DOMAIN Tail(q) /\ q[i] = Tail(q)[i - 1]
BY HeadTailProperties, LenProperties

LEMMA ConcatIndices ==
  ASSUME NEW q \in Seq(Message), NEW r \in Seq(Message)
  PROVE  /\ q \o r \in Seq(Message)
         /\ \A i \in DOMAIN q :
              i \in Nat /\ i <= Len(q) /\ i \in DOMAIN (q \o r) /\ (q \o r)[i] = q[i]
         /\ \A i \in DOMAIN r :
              i \in Nat /\ i > 0 /\ i + Len(q) \in DOMAIN (q \o r) /\ (q \o r)[i + Len(q)] = r[i]
         /\ \A i \in DOMAIN (q \o r) :
              \/ i \in DOMAIN q
              \/ i > Len(q) /\ i - Len(q) \in DOMAIN r /\ i \in Nat
         /\ Len(q) \in Nat
BY ConcatProperties, LenProperties

LEMMA HeadTaken ==
  ASSUME NEW q \in Seq(Message), q # <<>>
  PROVE  /\ \A s : Has(Tail(q), s) => Has(q, s)
         /\ \A s : Has(q, s) /\ Head(q) # Says(s) => Has(Tail(q), s)
         /\ OneIdle(q) => OneIdle(Tail(q))
         /\ OneIdle(q) /\ Head(q) = Says("idle") => ~Has(Tail(q), "idle")
         /\ TakenBack(q) => TakenBack(Tail(q))
         /\ TakenBack(q) /\ Head(q) = Says("delivering") => Has(Tail(q), "idle")
         /\ Head(q).topic = "status" => Head(q) = Says(Head(q).says)
<1>1. /\ Head(q) \in Message /\ Head(q) = q[1] /\ 1 \in DOMAIN q
      /\ \A i \in DOMAIN Tail(q) :
           i \in Nat /\ i + 1 \in DOMAIN q /\ i + 1 # 1 /\ Tail(q)[i] = q[i + 1]
      /\ \A i \in DOMAIN q : i # 1 =>
           i \in Nat /\ i - 1 \in DOMAIN Tail(q) /\ q[i] = Tail(q)[i - 1]
  BY TailIndices
<1>h. DEFINE t == Tail(q)
<1> HIDE DEF t
<1>2. /\ \A i \in DOMAIN t : i \in Nat /\ i + 1 \in DOMAIN q /\ i + 1 # 1 /\ t[i] = q[i + 1]
      /\ \A i \in DOMAIN q : i # 1 =>
           i \in Nat /\ i - 1 \in DOMAIN t /\ q[i] = t[i - 1]
  BY <1>1 DEF t
<1>3. \A s : Has(t, s) => Has(q, s)
  BY <1>2 DEF Has
<1>4. \A s : Has(q, s) /\ Head(q) # Says(s) => Has(t, s)
  BY <1>1, <1>2 DEF Has
<1>5. OneIdle(q) => OneIdle(t)
  BY <1>2 DEF OneIdle
<1>6. OneIdle(q) /\ Head(q) = Says("idle") => ~Has(t, "idle")
  BY <1>1, <1>2 DEF Has, OneIdle
<1>7. TakenBack(q) => TakenBack(t)
  BY <1>1, <1>2 DEF TakenBack
<1>8. TakenBack(q) /\ Head(q) = Says("delivering") => Has(t, "idle")
  BY <1>1, <1>2 DEF TakenBack, Has
<1>9. Head(q).topic = "status" => Head(q) = Says(Head(q).says)
  BY <1>1 DEF Message, Says
<1> QED
  BY <1>3, <1>4, <1>5, <1>6, <1>7, <1>8, <1>9 DEF t

LEMMA NewsAdded ==
  ASSUME NEW q \in Seq(Message), NEW r \in Seq(Message)
  PROVE  /\ \A s : Has(q \o r, s) <=> Has(q, s) \/ Has(r, s)
         /\ OneIdle(q) /\ ~Has(r, "idle") => OneIdle(q \o r)
         /\ ~Has(q, "idle") /\ OneIdle(r) => OneIdle(q \o r)
         /\ TakenBack(q) /\ TakenBack(r) => TakenBack(q \o r)
         /\ Has(r, "idle") /\ TakenBack(r) => TakenBack(q \o r)
<1> DEFINE c == q \o r
           n == Len(q)
<1>1. /\ \A i \in DOMAIN q : i \in Nat /\ i <= n /\ i \in DOMAIN c /\ c[i] = q[i]
      /\ \A i \in DOMAIN r : i \in Nat /\ i > 0 /\ i + n \in DOMAIN c /\ c[i + n] = r[i]
      /\ \A i \in DOMAIN c :
           i \in DOMAIN q \/ (i > n /\ i - n \in DOMAIN r /\ i \in Nat)
      /\ n \in Nat
  BY ConcatIndices
<1> HIDE DEF c, n
<1>2. \A i \in DOMAIN c :
        /\ i \in Nat
        /\ \/ i \in DOMAIN q /\ c[i] = q[i]
           \/ i > n /\ i - n \in DOMAIN r /\ c[i] = r[i - n]
  <2>1. \A i \in DOMAIN r : c[i + n] = r[i]
    BY <1>1
  <2>2. ASSUME NEW i \in DOMAIN c, i \notin DOMAIN q PROVE c[i] = r[i - n]
    <3>1. i - n \in DOMAIN r /\ i \in Nat /\ (i - n) + n = i
      BY <1>1, <2>2
    <3> QED
      BY <2>1, <3>1
  <2> QED
    BY <1>1, <2>2
<1>3. \A s : Has(c, s) <=> Has(q, s) \/ Has(r, s)
  BY <1>1, <1>2 DEF Has
<1>4. OneIdle(q) /\ ~Has(r, "idle") => OneIdle(c)
  BY <1>1, <1>2 DEF Has, OneIdle
<1>5. ASSUME ~Has(q, "idle"), OneIdle(r) PROVE OneIdle(c)
  <2>1. \A i \in DOMAIN c : c[i] = Says("idle") =>
          /\ i \in Nat /\ i - n \in DOMAIN r
          /\ r[i - n] = Says("idle")
    BY <1>2, <1>5 DEF Has
  <2>2. ASSUME NEW i \in DOMAIN c, NEW j \in DOMAIN c,
               c[i] = Says("idle"), c[j] = Says("idle")
        PROVE  i = j
    <3>1. i - n = j - n
      BY <1>5, <2>1, <2>2 DEF OneIdle
    <3> QED
      BY <1>1, <2>1, <2>2, <3>1
  <2> QED
    BY <2>2 DEF OneIdle
<1>6. TakenBack(q) /\ TakenBack(r) => TakenBack(c)
  BY <1>1, <1>2 DEF TakenBack
<1>7. Has(r, "idle") /\ TakenBack(r) => TakenBack(c)
  BY <1>1, <1>2 DEF TakenBack, Has
<1> QED
  BY <1>3, <1>4, <1>5, <1>6, <1>7 DEF c

\* What a tick may say.
LEMMA ShortNews ==
  ASSUME NEW t \in Message, t.topic = "telemetry"
  PROVE  /\ \A s : ~Has(<<t>>, s)
         /\ OneIdle(<<t>>) /\ TakenBack(<<t>>)
         /\ \A x : /\ \A s : Has(<<Says(x), t>>, s) <=> s = x
                   /\ OneIdle(<<Says(x), t>>)
                   /\ x # "delivering" => TakenBack(<<Says(x), t>>)
         /\ \A s : Has(<<Says("idle"), Says("charging"), t>>, s)
                     <=> s \in {"idle", "charging"}
         /\ OneIdle(<<Says("idle"), Says("charging"), t>>)
         /\ TakenBack(<<Says("idle"), Says("charging"), t>>)
<1>1. \A s : t # Says(s)
  BY DEF Says
<1>2. \A s, x : Says(s) = Says(x) <=> s = x
  BY DEF Says
<1>3. ASSUME NEW q, DOMAIN q = {1}, q[1] = t
      PROVE  (\A s : ~Has(q, s)) /\ OneIdle(q) /\ TakenBack(q)
  BY <1>1, <1>3 DEF Has, OneIdle, TakenBack
<1>4. ASSUME NEW q, NEW x, DOMAIN q = {1, 2}, q[1] = Says(x), q[2] = t
      PROVE  /\ \A s : Has(q, s) <=> s = x
             /\ OneIdle(q)
             /\ x # "delivering" => TakenBack(q)
  BY <1>1, <1>2, <1>4 DEF Has, OneIdle, TakenBack
<1>5. ASSUME NEW q, DOMAIN q = {1, 2, 3}, q[1] = Says("idle"),
             q[2] = Says("charging"), q[3] = t
      PROVE  /\ \A s : Has(q, s) <=> s \in {"idle", "charging"}
             /\ OneIdle(q)
             /\ TakenBack(q)
  BY <1>1, <1>2, <1>5 DEF Has, OneIdle, TakenBack
<1>6. DOMAIN <<t>> = {1} /\ <<t>>[1] = t
  OBVIOUS
<1>7. \A x : DOMAIN <<x, t>> = {1, 2} /\ <<x, t>>[1] = x /\ <<x, t>>[2] = t
  OBVIOUS
<1>8. \A x, y : /\ DOMAIN <<x, y, t>> = {1, 2, 3}
                /\ <<x, y, t>>[1] = x /\ <<x, y, t>>[2] = y /\ <<x, y, t>>[3] = t
  OBVIOUS
<1>9. \A x : /\ \A s : Has(<<Says(x), t>>, s) <=> s = x
             /\ OneIdle(<<Says(x), t>>)
             /\ x # "delivering" => TakenBack(<<Says(x), t>>)
  BY <1>4, <1>7, Zenon
<1>10. (\A s : ~Has(<<t>>, s)) /\ OneIdle(<<t>>) /\ TakenBack(<<t>>)
  BY <1>3, <1>6, Zenon
<1>11. /\ \A s : Has(<<Says("idle"), Says("charging"), t>>, s)
                   <=> s \in {"idle", "charging"}
       /\ OneIdle(<<Says("idle"), Says("charging"), t>>)
       /\ TakenBack(<<Says("idle"), Says("charging"), t>>)
  BY <1>5, <1>8, Zenon
<1> QED
  BY <1>9, <1>10, <1>11

\* The last word of what a tick may say.
LEMMA ShortLast ==
  ASSUME NEW t \in Message, t.topic = "telemetry", NEW before
  PROVE  /\ LastSaid(<<t>>, before) = before
         /\ \A x \in {"idle", "delivering", "charging"} :
              LastSaid(<<Says(x), t>>, before) = x
         /\ LastSaid(<<Says("idle"), Says("charging"), t>>, before) = "charging"
<1>1. \A b : LastSaid(<<t>>, b) = b
  BY LastSaidOne
<1>2. ASSUME NEW x \in {"idle", "delivering", "charging"}, NEW b
      PROVE  LastSaid(<<Says(x), t>>, b) = x
  <2>1. /\ Says(x) \in Message /\ Says(x).topic = "status" /\ Says(x).says = x
        /\ <<Says(x)>> \in Seq(Message) /\ <<t>> \in Seq(Message)
    BY MessageTypes DEF Says
  <2>2. <<Says(x), t>> = <<Says(x)>> \o <<t>>
    BY <2>1, OneAndOne, Zenon
  <2>3. LastSaid(<<Says(x)>> \o <<t>>, b) = LastSaid(<<t>>, LastSaid(<<Says(x)>>, b))
    BY <2>1, LastSaidConcat, Zenon
  <2>4. LastSaid(<<Says(x)>>, b) = x
    BY <2>1, LastSaidOne
  <2> QED
    BY <1>1, <2>2, <2>3, <2>4
<1>3. LastSaid(<<Says("idle"), Says("charging"), t>>, before) = "charging"
  <2> DEFINE i == Says("idle")
             c == Says("charging")
  <2>1. i \in Message /\ c \in Message
    BY MessageTypes
  <2>2. <<i>> \in Seq(Message) /\ <<c, t>> \in Seq(Message)
    BY <2>1
  <2>3. LastSaid(<<c, t>>, LastSaid(<<i>>, before)) = "charging"
    BY <1>2
  <2> HIDE DEF i, c
  <2>4. <<i>> \o <<c, t>> = <<i, c, t>>
    BY <2>1, OneAndTwo, Zenon
  <2>5. LastSaid(<<i>> \o <<c, t>>, before) = "charging"
    BY <2>2, <2>3, LastSaidConcat, Zenon
  <2>6. LastSaid(<<i, c, t>>, before) = "charging"
    BY <2>4, <2>5
  <2> QED
    BY <2>6 DEF i, c
<1> QED
  BY <1>1, <1>2, <1>3

\* A message that is taken has had its effect on what was heard.
LEMMA TakenWord ==
  ASSUME NEW q \in Seq(Message), q # <<>>, NEW before
  PROVE  LastSaid(Tail(q), IF Head(q).topic = "status" THEN Head(q).says
                                                        ELSE before)
           = LastSaid(q, before)
<1>1. Head(q) \in Message /\ Tail(q) \in Seq(Message)
  BY TailIndices
<1>2. q = <<Head(q)>> \o Tail(q)
  BY HeadTailProperties, ConcatProperties, SeqEqual
<1>3. <<Head(q)>> \in Seq(Message)
  BY <1>1
<1>4. LastSaid(<<Head(q)>> \o Tail(q), before)
        = LastSaid(Tail(q), LastSaid(<<Head(q)>>, before))
  BY <1>1, <1>3, LastSaidConcat, Zenon
<1>5. LastSaid(<<Head(q)>>, before)
        = IF Head(q).topic = "status" THEN Head(q).says ELSE before
  BY <1>1, LastSaidOne
<1> QED
  BY <1>2, <1>4, <1>5

=============================================================================
