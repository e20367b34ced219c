-------------------------- MODULE AnemoiAppProofs --------------------------
(***************************************************************************)
(* Proofs about AnemoiApp, for a ring of any size and an average of any    *)
(* length the ring can hold.                                               *)
(***************************************************************************)
EXTENDS AnemoiApp, SequenceTheorems, TLAPS

LEMMA CountFacts ==
  /\ WIND_COUNT \in Nat /\ AVERAGE_COUNT \in Nat
  /\ 1 <= AVERAGE_COUNT /\ AVERAGE_COUNT <= WIND_COUNT
BY AppAssumption DEF AppAssumption

USE CountFacts

LEMMA OrderFacts ==
  /\ Len(Order) \in Nat /\ Len(Order) > 0
  /\ \A n \in 1..Len(Order) : Order[n] \in Paths
<1>1. Order \in Seq(Path) /\ Order # <<>>
  BY AppAssumption DEF AppAssumption
<1>2. QED
  BY <1>1 DEF Paths

LEMMA CodeFacts == "NO_ERRORS_NO_WARNINGS" \in ErrorsAndWarnings
BY DEF ErrorsAndWarnings

LEMMA ZeroFacts == Zero \in Wind /\ Zeros \in Seq(Wind) /\ Len(Zeros) = AVERAGE_COUNT
<1>1. Zero \in Wind
  BY DEF Zero, Wind, Speed
<1>2. QED
  BY <1>1 DEF Zeros

LEMMA PlaceFacts ==
  ASSUME NEW n \in 0..WIND_COUNT - 1
  PROVE  Following(n) \in 0..WIND_COUNT - 1 /\ Preceding(n) \in 0..WIND_COUNT - 1
BY DEF Following, Preceding

(* In the averaging loop there is still something to add. *)
Adding == pc = "average" => Len(speedAverage) < AVERAGE_COUNT

LEMMA InitTyped == Init => TypeOK /\ Adding
<1> SUFFICES ASSUME Init PROVE TypeOK /\ Adding
  OBVIOUS
<1>1. /\ wind \in [0..WIND_COUNT - 1 -> Wind] /\ i \in 0..WIND_COUNT - 1
      /\ k \in 0..WIND_COUNT - 1 /\ history \in [1..WIND_COUNT -> Wind]
  BY ZeroFacts DEF Init
<1>2. speedAverage \in Seq(Wind) /\ Len(speedAverage) <= AVERAGE_COUNT
  BY ZeroFacts DEF Init
<1>3. errorsAndWarnings \in [Paths -> ErrorsAndWarnings] /\ time \in [Paths -> Age]
  BY CodeFacts DEF Init, Age
<1>4. pc \in PC /\ measured \in 0..Len(Order) /\ (pc = "measure" => measured < Len(Order))
  BY OrderFacts DEF Init, PC
<1>5. v7 \in {"none", "blank", "blocked_path"} /\ pc # "average"
  BY DEF Init
<1>6. QED
  BY <1>1, <1>2, <1>3, <1>4, <1>5 DEF TypeOK, Adding

LEMMA StepTyped == TypeOK /\ Adding /\ [Next]_vars => TypeOK' /\ Adding'
<1> SUFFICES ASSUME TypeOK, Adding, [Next]_vars PROVE TypeOK' /\ Adding'
  OBVIOUS
<1> USE DEF TypeOK, PC
<1>1. ASSUME NEW e \in ErrorsAndWarnings, Measure(e) PROVE TypeOK' /\ Adding'
  <2>1. measured' \in 1..Len(Order) /\ Order[measured'] \in Paths
    BY <1>1, OrderFacts DEF Measure
  <2>2. errorsAndWarnings' \in [Paths -> ErrorsAndWarnings]
    BY <1>1, <2>1 DEF Measure
  <2>3. time' \in [Paths -> Age]
    BY <1>1, <2>1 DEF Measure, TimeWritten, Age
  <2>4. QED
    BY <1>1, <2>1, <2>2, <2>3 DEF Measure, Adding
<1>2. CASE ShowBlocked
  BY <1>2 DEF ShowBlocked, Adding
<1>3. ASSUME NEW s \in Speed, Compute(s) PROVE TypeOK' /\ Adding'
  <2>1. i' \in 0..WIND_COUNT - 1 /\ k' = i'
    BY <1>3, PlaceFacts DEF Compute
  <2>2. [speed |-> s, fresh |-> AllNew] \in Wind
    BY DEF Wind, AllNew
  <2>3. wind' \in [0..WIND_COUNT - 1 -> Wind]
    BY <1>3, <2>1, <2>2 DEF Compute
  <2>4. history' \in [1..WIND_COUNT -> Wind]
    <3>1. wind'[i'] \in Wind
      BY <2>1, <2>3
    <3>2. \A n \in 1..WIND_COUNT : n # 1 => history[n - 1] \in Wind
      OBVIOUS
    <3>3. QED
      BY <1>3, <3>1, <3>2 DEF Compute
  <2>5. speedAverage' \in Seq(Wind) /\ Len(speedAverage') = 0
    BY <1>3 DEF Compute
  <2>6. QED
    BY <1>3, <2>1, <2>3, <2>4, <2>5 DEF Compute, Adding
<1>4. CASE OutOfRange
  BY <1>4 DEF OutOfRange, Adding
<1>5. CASE Average
  <2>1. wind[k] \in Wind /\ k' \in 0..WIND_COUNT - 1
    BY <1>5, PlaceFacts DEF Average
  <2>2. speedAverage' \in Seq(Wind) /\ Len(speedAverage') = Len(speedAverage) + 1
    BY <1>5, <2>1 DEF Average
  <2>3. QED
    BY <1>5, <2>1, <2>2 DEF Average, Adding
<1>6. CASE Report
  BY <1>6 DEF Report, Adding
<1>7. CASE Delay
  BY <1>7, OrderFacts DEF Delay, Age, Adding
<1>8. CASE UNCHANGED vars
  BY <1>8 DEF vars, Adding
<1>9. QED
  BY <1>1, <1>2, <1>3, <1>4, <1>5, <1>6, <1>7, <1>8 DEF Next

(* The ring is never left and the averaging loop adds no wind too many. *)
THEOREM TypeCorrect == Spec => []TypeOK
<1>1. QED
  BY InitTyped, StepTyped, PTL DEF Spec
-----------------------------------------------------------------------------
(* The place of the wind computed j winds ago. *)
Place(j) == IF j <= i THEN i - j ELSE (i + WIND_COUNT) - j

RingIsHistory == \A j \in 0..WIND_COUNT - 1 : wind[Place(j)] = history[j + 1]

(* The averaging loop goes back through the ring, one wind a turn. *)
AverageIsHistory ==
  /\ pc = "average" => k = Place(Len(speedAverage))
  /\ pc # "average" => Len(speedAverage) = AVERAGE_COUNT
  /\ \A n \in 1..Len(speedAverage) : speedAverage[n] = history[n]

SentenceIsLatest ==
  pc = "delay" => sentence.temperature = wind[i] /\
    IF wind[i].speed = "high"
    THEN sentence.direction = wind[i] /\ sentence.speed = speedAverage
    ELSE sentence.direction = Zero /\ sentence.speed = Zeros

LEMMA ComputeKeepsRing ==
  ASSUME TypeOK, RingIsHistory, NEW s \in Speed, Compute(s)
  PROVE  RingIsHistory'
<1> USE DEF TypeOK
<1>1. i' \in 0..WIND_COUNT - 1 /\ i' = Following(i)
  BY PlaceFacts DEF Compute
<1>2. ASSUME NEW j \in 0..WIND_COUNT - 1 PROVE wind'[Place(j)'] = history'[j + 1]
  <2>1. CASE j = 0
    <3>1. Place(j)' = i' /\ history'[j + 1] = wind'[i']
      BY <1>1, <2>1 DEF Place, Compute
    <3>2. QED
      BY <3>1
  <2>2. CASE j # 0
    <3>1. Place(j)' = Place(j - 1) /\ Place(j)' # i' /\ Place(j)' \in 0..WIND_COUNT - 1
      BY <1>1, <2>2 DEF Place, Following
    <3>2. wind'[Place(j)'] = wind[Place(j)']
      BY <1>1, <3>1 DEF Compute
    <3>3. history'[j + 1] = history[j]
      BY <2>2 DEF Compute
    <3>4. wind[Place(j - 1)] = history[j]
      BY <2>2 DEF RingIsHistory
    <3>5. QED
      BY <3>1, <3>2, <3>3, <3>4
  <2>3. QED
    BY <2>1, <2>2
<1>3. QED
  BY <1>2 DEF RingIsHistory

LEMMA StepLatest ==
  ASSUME TypeOK, Adding, RingIsHistory, AverageIsHistory, SentenceIsLatest, [Next]_vars
  PROVE  RingIsHistory' /\ AverageIsHistory' /\ SentenceIsLatest'
<1>1. CASE /\ UNCHANGED <<wind, i, k, speedAverage, history>>
           /\ pc # "average" /\ pc' # "average" /\ pc' # "delay"
  BY <1>1 DEF RingIsHistory, AverageIsHistory, SentenceIsLatest, Place
<1>2. ASSUME NEW s \in Speed, Compute(s)
      PROVE  RingIsHistory' /\ AverageIsHistory' /\ SentenceIsLatest'
  <2>1. RingIsHistory'
    BY <1>2, ComputeKeepsRing
  <2>2. speedAverage' = <<>> /\ k' = i' /\ pc' = "average" /\ i' \in 0..WIND_COUNT - 1
    BY <1>2, PlaceFacts DEF Compute, TypeOK
  <2>3. AverageIsHistory'
    <3>1. Len(speedAverage') = 0
      BY <2>2
    <3>2. PICK n \in Nat : i' = n /\ k' = n
      BY <2>2
    <3>3. 0 <= n /\ n - 0 = n
      OBVIOUS
    <3>4. Place(Len(speedAverage))' = n
      BY <3>1, <3>2, <3>3 DEF Place
    <3>5. QED
      BY <2>2, <3>1, <3>2, <3>4 DEF AverageIsHistory
  <2>4. QED
    BY <2>1, <2>2, <2>3 DEF SentenceIsLatest
<1>3. CASE Average
  <2>1. RingIsHistory' /\ SentenceIsLatest'
    BY <1>3 DEF Average, RingIsHistory, SentenceIsLatest, Place
  <2>2. PICK m \in 0..WIND_COUNT - 1 : m = Len(speedAverage) /\ m < AVERAGE_COUNT
    BY <1>3 DEF Average, Adding, TypeOK
  <2>3. k = Place(m) /\ wind[k] = history[m + 1] /\ wind[k] \in Wind
    BY <1>3, <2>2 DEF Average, AverageIsHistory, RingIsHistory, TypeOK
  <2>4. /\ speedAverage' = Append(speedAverage, wind[k]) /\ speedAverage \in Seq(Wind)
        /\ history' = history /\ i' = i
    BY <1>3 DEF Average, TypeOK
  <2>5. /\ Len(speedAverage') = m + 1
        /\ \A n \in 1..m : speedAverage'[n] = speedAverage[n]
        /\ speedAverage'[m + 1] = wind[k]
    BY <2>2, <2>3, <2>4
  <2>6. \A n \in 1..Len(speedAverage') : speedAverage'[n] = history'[n]
    BY <2>2, <2>3, <2>4, <2>5 DEF AverageIsHistory
  <2>7. pc' = "average" => k' = Place(m + 1)
    <3>1. k' = Preceding(Place(m)) /\ i \in 0..WIND_COUNT - 1
      BY <1>3, <2>3 DEF Average, TypeOK
    <3>2. pc' = "average" => m + 1 < AVERAGE_COUNT
      BY <1>3, <2>5 DEF Average
    <3>3. QED
      BY <2>2, <3>1, <3>2 DEF Place, Preceding
  <2>8. pc' # "average" => Len(speedAverage') = AVERAGE_COUNT
    BY <1>3, <2>2, <2>5 DEF Average
  <2>9. AverageIsHistory'
    BY <2>4, <2>5, <2>6, <2>7, <2>8 DEF AverageIsHistory, Place
  <2>10. QED
    BY <2>1, <2>9
<1>4. CASE Report
  BY <1>4 DEF Report, RingIsHistory, AverageIsHistory, SentenceIsLatest, Place
<1>5. CASE UNCHANGED vars
  BY <1>5 DEF vars, RingIsHistory, AverageIsHistory, SentenceIsLatest, Place
<1>6. QED
  BY <1>1, <1>2, <1>3, <1>4, <1>5 DEF Next, Measure, ShowBlocked, OutOfRange, Delay

(* What is sent belongs together and is the latest there is, however often *)
(* the ring has wrapped.                                                   *)
THEOREM LatestReported == Spec => []ReportsLatest
<1>1. Init => RingIsHistory /\ AverageIsHistory /\ SentenceIsLatest
  <2> SUFFICES ASSUME Init PROVE RingIsHistory /\ AverageIsHistory /\ SentenceIsLatest
    OBVIOUS
  <2>1. \A j \in 0..WIND_COUNT - 1 : Place(j) \in 0..WIND_COUNT - 1
    BY DEF Init, Place
  <2>2. RingIsHistory
    BY <2>1 DEF Init, RingIsHistory
  <2>3. AverageIsHistory
    BY ZeroFacts DEF Init, AverageIsHistory, Zeros
  <2>4. QED
    BY <2>2, <2>3 DEF Init, SentenceIsLatest
<1>2. TypeOK /\ RingIsHistory /\ AverageIsHistory /\ SentenceIsLatest => ReportsLatest
  <2> SUFFICES ASSUME TypeOK, RingIsHistory, AverageIsHistory, SentenceIsLatest, pc = "delay"
               PROVE  sentence.temperature = history[1] /\
                      \/ /\ history[1].speed = "high"
                         /\ sentence.direction = history[1]
                         /\ sentence.speed = SubSeq(history, 1, AVERAGE_COUNT)
                      \/ /\ history[1].speed = "low"
                         /\ sentence.direction = Zero /\ sentence.speed = Zeros
    BY DEF ReportsLatest
  <2>1. wind[i] = history[1]
    <3>1. Place(0) = i /\ 0 \in 0..WIND_COUNT - 1
      BY DEF Place, TypeOK
    <3>2. wind[Place(0)] = history[0 + 1]
      BY <3>1 DEF RingIsHistory
    <3>3. QED
      BY <3>1, <3>2
  <2>2. history[1].speed = "high" \/ history[1].speed = "low"
    BY DEF TypeOK, Wind, Speed
  <2>3. speedAverage = SubSeq(history, 1, AVERAGE_COUNT)
    <3>1. history \in Seq(Wind) /\ Len(history) = WIND_COUNT
      BY DEF TypeOK
    <3>2. /\ SubSeq(history, 1, AVERAGE_COUNT) \in Seq(Wind)
          /\ Len(SubSeq(history, 1, AVERAGE_COUNT)) = AVERAGE_COUNT
          /\ \A n \in 1..AVERAGE_COUNT : SubSeq(history, 1, AVERAGE_COUNT)[n] = history[n]
      BY <3>1
    <3>3. /\ speedAverage \in Seq(Wind) /\ Len(speedAverage) = AVERAGE_COUNT
          /\ \A n \in 1..AVERAGE_COUNT : speedAverage[n] = history[n]
      BY DEF TypeOK, AverageIsHistory
    <3>4. QED
      BY <3>2, <3>3, SeqEqual
  <2>4. QED
    BY <2>1, <2>2, <2>3 DEF SentenceIsLatest
<1>3. TypeOK /\ Adding /\ RingIsHistory /\ AverageIsHistory /\ SentenceIsLatest /\ [Next]_vars =>
        RingIsHistory' /\ AverageIsHistory' /\ SentenceIsLatest'
  BY StepLatest
<1>4. QED
  BY <1>1, <1>2, <1>3, InitTyped, StepTyped, PTL DEF Spec
-----------------------------------------------------------------------------
(* A path that was asked in this round and has no new time has an error.   *)
ErrorsAreCurrent ==
  \A n \in 1..measured :
    \/ time[Order[n]] = "new"
    \/ errorsAndWarnings[Order[n]] \in ErrorsAndWarnings \ {"NO_ERRORS_NO_WARNINGS"}

(* Before the average the round is complete and V7 shows its blocked path. *)
Shown ==
  /\ pc \in {"showBlocked", "compute", "average"} => measured = Len(Order)
  /\ pc \in {"compute", "average"} =>
       (Some("ERROR_NO_STOP_RECEIVED") => v7 = "blocked_path")
  /\ pc = "average" =>
       ~Some("ERROR_TIME_OUT_OF_RANGE") /\ (wind[i].fresh <=> AllNew)

LEMMA StepErrors == TypeOK /\ ErrorsAreCurrent /\ [Next]_vars => ErrorsAreCurrent'
<1> SUFFICES ASSUME TypeOK, ErrorsAreCurrent, [Next]_vars PROVE ErrorsAreCurrent'
  OBVIOUS
<1> USE DEF TypeOK
<1>1. ASSUME NEW e \in ErrorsAndWarnings, Measure(e) PROVE ErrorsAreCurrent'
  <2>1. /\ measured \in Nat /\ measured' = measured + 1 /\ measured' \in 1..Len(Order)
        /\ Order[measured'] \in Paths
    BY <1>1, OrderFacts DEF Measure
  <2>2. ASSUME NEW n \in 1..measured', NEW p, p = Order[n]
        PROVE  \/ time'[p] = "new"
               \/ errorsAndWarnings'[p] \in ErrorsAndWarnings \ {"NO_ERRORS_NO_WARNINGS"}
    <3>1. p \in Paths
      BY <2>1, <2>2, OrderFacts
    <3>2. CASE p = Order[measured']
      BY <1>1, <2>1, <3>1, <3>2 DEF Measure, TimeWritten
    <3>3. CASE p # Order[measured']
      <4>1. n \in 1..measured
        BY <2>1, <2>2, <3>3
      <4>2. errorsAndWarnings'[p] = errorsAndWarnings[p] /\ time'[p] = time[p]
        BY <1>1, <3>1, <3>3 DEF Measure, TimeWritten
      <4>3. QED
        BY <2>2, <4>1, <4>2 DEF ErrorsAreCurrent
    <3>4. QED
      BY <3>2, <3>3
  <2>3. QED
    BY <2>2 DEF ErrorsAreCurrent
<1>2. CASE Delay
  <2>1. measured' = 0
    BY <1>2 DEF Delay
  <2>2. QED
    BY <2>1 DEF ErrorsAreCurrent
<1>3. CASE UNCHANGED <<measured, errorsAndWarnings, time>>
  BY <1>3 DEF ErrorsAreCurrent
<1>4. QED
  BY <1>1, <1>2, <1>3
     DEF Next, ShowBlocked, Compute, OutOfRange, Average, Report, vars

LEMMA StepShown == TypeOK /\ Shown /\ [Next]_vars => Shown'
<1> SUFFICES ASSUME TypeOK, Shown, [Next]_vars PROVE Shown'
  OBVIOUS
<1>1. ASSUME NEW e \in ErrorsAndWarnings, Measure(e) PROVE Shown'
  <2>1. /\ measured' = measured + 1 /\ measured \in Nat /\ measured < Len(Order)
        /\ pc' = IF measured' < Len(Order) THEN "measure" ELSE "showBlocked"
    BY <1>1 DEF Measure, TypeOK
  <2>2. QED
    BY <2>1, OrderFacts DEF Shown
<1>2. CASE ShowBlocked
  BY <1>2 DEF ShowBlocked, Shown, Some
<1>3. ASSUME NEW s \in Speed, Compute(s) PROVE Shown'
  <2>1. i' \in 0..WIND_COUNT - 1
    BY <1>3, PlaceFacts DEF Compute, TypeOK
  <2>2. wind'[i'].fresh = AllNew
    BY <1>3, <2>1 DEF Compute, TypeOK
  <2>3. AllNew' <=> AllNew
    BY <1>3 DEF Compute, AllNew
  <2>4. QED
    BY <1>3, <2>2, <2>3 DEF Compute, Shown, Some
<1>4. CASE Average
  BY <1>4 DEF Average, Shown, Some, AllNew
<1>5. CASE UNCHANGED vars
  BY <1>5 DEF vars, Shown, Some, AllNew
<1>6. CASE pc' \in {"report", "delay", "measure"}
  BY <1>6 DEF Shown
<1>7. QED
  BY <1>1, <1>2, <1>3, <1>4, <1>5, <1>6 DEF Next, OutOfRange, Report, Delay

(* A wind that rests on a time of an earlier round is announced on the     *)
(* phone unless a start was lost, for any set of paths in any order.       *)
THEOREM StaleAnnounced == Spec => []StaleWindAnnounced
<1>1. Init => ErrorsAreCurrent /\ Shown
  BY DEF Init, ErrorsAreCurrent, Shown
<1>2. TypeOK /\ ErrorsAreCurrent /\ Shown => StaleWindAnnounced
  <2> SUFFICES ASSUME TypeOK, ErrorsAreCurrent, Shown, pc = "average", ~wind[i].fresh
               PROVE  v7 = "blocked_path" \/ Some("ERROR_NO_START_RECEIVED")
    BY DEF StaleWindAnnounced
  <2>1. PICK n \in 1..Len(Order) : time[Order[n]] # "new"
    BY DEF Shown, AllNew, Paths
  <2>2. /\ Order[n] \in Paths
        /\ errorsAndWarnings[Order[n]] \in ErrorsAndWarnings \ {"NO_ERRORS_NO_WARNINGS"}
    BY <2>1, OrderFacts DEF Shown, ErrorsAreCurrent
  <2>3. QED
    BY <2>2 DEF Shown, Some, ErrorsAndWarnings
<1>3. TypeOK /\ ErrorsAreCurrent /\ [Next]_vars => ErrorsAreCurrent'
  BY StepErrors
<1>4. TypeOK /\ Shown /\ [Next]_vars => Shown'
  BY StepShown
<1>5. QED
  BY <1>1, <1>2, <1>3, <1>4, InitTyped, StepTyped, PTL DEF Spec
=============================================================================
