------------------------ MODULE TimeOfFlightProofs -------------------------
(***************************************************************************)
(* What holds of TimeOfFlight for every batch size, period, limit and for  *)
(* every echo, jitter and wrong first time its constants admit.            *)
(***************************************************************************)
EXTENDS TimeOfFlight, FiniteSetTheorems, FunctionTheorems, WellFoundedInduction,
        SequenceTheorems, TLAPS

LEMMA Facts ==
  /\ N \in Nat /\ N > 0 /\ Quota \in Nat /\ Quota > 0
  /\ STOP_QUEUE_LENGTH \in Nat /\ STOP_QUEUE_LENGTH > 0
  /\ Period \in Nat /\ Period > 0 /\ Shift \in Int
  /\ UPPER_TIME_LIMIT \in Int /\ LOWER_TIME_LIMIT \in Nat /\ LOWER_TIME_LIMIT > 0
  /\ CounterSize \in Nat /\ CounterSize > 0 /\ Gap \in Nat
  /\ FirstEcho \in Nat
BY FlightAssumption DEF FlightAssumption

USE Facts
-----------------------------------------------------------------------------
LEMMA ConcatOfInts ==
  ASSUME NEW p \in Seq(Int), NEW q \in Seq(Int)
  PROVE  p \o q \in Seq(Int) /\ Len(p \o q) = Len(p) + Len(q)
OBVIOUS

(* The stops of a pulse are at least one and at most the queue's length. *)
LEMMA StopsHaveType ==
  ASSUME NEW prefix \in Seq(Int), NEW echoes \in Seq(Nat), echoes # <<>>, NEW jitter \in Int
  PROVE  /\ Stops(prefix, echoes, jitter) \in Seq(Int)
         /\ Len(Stops(prefix, echoes, jitter)) \in 1..STOP_QUEUE_LENGTH
<1> DEFINE own == [n \in DOMAIN echoes |-> FirstEcho + echoes[n] * Period + jitter]
           all == prefix \o own
<1>1. own \in Seq(Int) /\ Len(own) = Len(echoes)
  <2>1. \A n \in 1..Len(echoes) : FirstEcho + echoes[n] * Period + jitter \in Int
    OBVIOUS
  <2>2. own \in [1..Len(echoes) -> Int]
    BY <2>1
  <2>3. QED
    BY <2>2
<1>2. Len(echoes) \in Nat /\ Len(echoes) > 0
  BY EmptySeq
<1>3. all \in Seq(Int) /\ Len(all) = Len(prefix) + Len(echoes)
  <2> HIDE DEF own
  <2>1. QED
    BY <1>1, ConcatOfInts
<1>4. Len(all) \in Nat /\ Len(all) > 0
  <2> HIDE DEF all
  <2>1. Len(prefix) \in Nat
    OBVIOUS
  <2>2. QED
    BY <1>2, <1>3, <2>1
<1>5. CASE Len(all) <= STOP_QUEUE_LENGTH
  BY <1>3, <1>4, <1>5 DEF Stops
<1>6. CASE ~(Len(all) <= STOP_QUEUE_LENGTH)
  <2>1. /\ SubSeq(all, 1, STOP_QUEUE_LENGTH) \in Seq(Int)
        /\ Len(SubSeq(all, 1, STOP_QUEUE_LENGTH)) = STOP_QUEUE_LENGTH
    <3> HIDE DEF all
    <3>1. \A n \in 1..STOP_QUEUE_LENGTH : all[n] \in Int
      BY <1>3, <1>4, <1>6, ElementOfSeq
    <3>2. QED
      BY <1>3, <1>4, <1>6, <3>1, SubSeqProperties
  <2>2. QED
    BY <1>6, <2>1 DEF Stops
<1>7. QED
  BY <1>5, <1>6

LEMMA TimesHaveType ==
  ASSUME Typed, NEW stops \in Seq(Int)
  PROVE  Times(stops) \in Seq(Int) /\ Len(Times(stops)) = Len(stops)
<1>1. \A n \in 1..Len(stops) : (cycle + stops[n]) % CounterSize \in Int
  BY DEF Typed
<1>2. \A n \in 1..Len(stops) : Elapsed(cycle, (cycle + stops[n]) % CounterSize) \in Int
  BY <1>1 DEF Elapsed, Typed
<1>3. Times(stops) \in [1..Len(stops) -> Int]
  BY <1>2 DEF Times
<1>4. QED
  BY <1>3
-----------------------------------------------------------------------------
(* A set of naturals has a least element; so the first full bucket is one. *)
LEMMA LeastElement ==
  ASSUME NEW S \in SUBSET Nat, S # {}
  PROVE  \E x \in S : \A y \in S : x <= y
<1> DEFINE R == {ss \in Nat \X Nat : ss[1] < ss[2]}
<1>1. IsWellFoundedOn(R, Nat)
  BY NatLessThanWellFounded, Zenon DEF OpToRel
<1>2. PICK x \in S : \A y \in S : ~ (<<y, x>> \in R)
  <2> HIDE DEF R
  <2>1. QED
    BY <1>1, WFMin
<1>3. \A y \in S : ~ (y < x)
  BY <1>2
<1>4. QED
  BY <1>3

LEMMA IndexIsFirstFull ==
  /\ index \in Bucket
  /\ Full # {} => index \in Full /\ \A k \in Full : index <= k
<1>1. Full \in SUBSET Nat /\ Full \subseteq Bucket
  BY DEF Full, Bucket, RELATIVE_TIMES_COUNT
<1>2. CASE Full = {}
  BY <1>2 DEF index, Bucket, RELATIVE_TIMES_COUNT
<1>3. CASE Full # {}
  <2>1. \E x \in Full : \A y \in Full : x <= y
    BY <1>1, <1>3, LeastElement
  <2>2. Min(Full) \in Full /\ \A y \in Full : Min(Full) <= y
    BY <2>1 DEF Min
  <2>3. QED
    BY <1>1, <1>3, <2>2 DEF index
<1>4. QED
  BY <1>2, <1>3

LEMMA ProductOfCounts ==
  ASSUME NEW a \in Nat, NEW b \in Nat, NEW c \in Nat
  PROVE  /\ 3 * a * b * c \in Nat
         /\ 3 * a * b * c # 0 => a > 0 /\ b > 0 /\ c > 0
<1>1. a * b \in Nat
  OBVIOUS
<1>2. a * b * c \in Nat
  BY <1>1
<1>3. 3 * a * b * c = 3 * (a * b * c)
  BY <1>1, <1>2
<1>4. a = 0 \/ b = 0 \/ c = 0 => a * b * c = 0
  OBVIOUS
<1>5. QED
  BY <1>2, <1>3, <1>4

(* The three means, brought to the denominator of the result. *)
ThreeMeans ==
  timeAccumulated[index + 4] * count[index + 5] * count[index + 6]
  + timeAccumulated[index + 5] * count[index + 4] * count[index + 6]
  + timeAccumulated[index + 6] * count[index + 4] * count[index + 5]

(* The result's type, and what it is when it is a time. *)
LEMMA ResultIsFraction ==
  ASSUME Typed
  PROVE  /\ Result \in [kind : {"time", "nan", "outside"}, num : Int, den : Nat \ {0}]
         /\ Result.kind = "time" =>
              /\ index + 6 \in Bucket
              /\ count[index + 4] > 0 /\ count[index + 5] > 0 /\ count[index + 6] > 0
              /\ Result.den = 3 * count[index + 4] * count[index + 5] * count[index + 6]
              /\ Result.num = ThreeMeans - Result.den * (5 * Period + Shift)
<1>1. index \in Nat
  BY IndexIsFirstFull DEF Bucket
<1>2. CASE index + 6 \notin Bucket
  BY <1>2 DEF Result
<1>3. CASE index + 6 \in Bucket
  <2> DEFINE c4 == count[index + 4]
             c5 == count[index + 5]
             c6 == count[index + 6]
             a4 == timeAccumulated[index + 4]
             a5 == timeAccumulated[index + 5]
             a6 == timeAccumulated[index + 6]
             den == 3 * c4 * c5 * c6
             num == (a4 * c5 * c6 + a5 * c4 * c6 + a6 * c4 * c5) - den * (5 * Period + Shift)
  <2>1. index + 4 \in Bucket /\ index + 5 \in Bucket
    BY <1>1, <1>3 DEF Bucket, RELATIVE_TIMES_COUNT
  <2>2. /\ c4 \in Nat /\ c5 \in Nat /\ c6 \in Nat
        /\ a4 \in Int /\ a5 \in Int /\ a6 \in Int
    BY <1>3, <2>1 DEF Typed
  <2>3. Result = IF den = 0 THEN [kind |-> "nan", num |-> 0, den |-> 1]
                 ELSE [kind |-> "time", den |-> den, num |-> num]
    BY <1>3, Zenon DEF Result
  <2>4. den \in Nat /\ (den # 0 => c4 > 0 /\ c5 > 0 /\ c6 > 0)
    BY <2>2, ProductOfCounts
  <2>5. num \in Int
    <3>1. a4 * c5 * c6 \in Int /\ a5 * c4 * c6 \in Int /\ a6 * c4 * c5 \in Int
      BY <2>2
    <3> HIDE DEF den, a4, a5, a6, c4, c5, c6
    <3>2. den * (5 * Period + Shift) \in Int
      BY <2>4
    <3>3. QED
      BY <3>1, <3>2
  <2>6. CASE den = 0
    BY <2>3, <2>6
  <2>7. CASE den # 0
    <3>1. Result = [kind |-> "time", den |-> den, num |-> num]
      BY <2>3, <2>7
    <3> HIDE DEF den, num, c4, c5, c6
    <3>2. Result.kind = "time" /\ Result.den = den /\ Result.num = num
          /\ Result \in [kind : {"time", "nan", "outside"}, num : Int, den : Nat \ {0}]
      BY <3>1, <2>4, <2>5, <2>7
    <3>3. c4 > 0 /\ c5 > 0 /\ c6 > 0
      BY <2>4, <2>7
    <3>4. num = ThreeMeans - den * (5 * Period + Shift)
      BY Zenon DEF num, c4, c5, c6, ThreeMeans
    <3>5. den = 3 * count[index + 4] * count[index + 5] * count[index + 6]
          /\ count[index + 4] > 0 /\ count[index + 5] > 0 /\ count[index + 6] > 0
      BY <3>3, Zenon DEF den, c4, c5, c6
    <3>6. QED
      BY <1>3, <3>2, <3>4, <3>5, Zenon
  <2>8. QED
    BY <2>6, <2>7
<1>4. QED
  BY <1>2, <1>3
-----------------------------------------------------------------------------
LEMMA InitTyped == Init => Typed
<1> SUFFICES ASSUME Init PROVE Typed
  OBVIOUS
<1>1. cycle \in 0..(CounterSize - 1)
  BY FlightAssumption DEF FlightAssumption, Init
<1>2. times \in Seq(Seq(Int)) /\ Len(times) <= N /\ DOMAIN times = {}
  BY DEF Init
<1>3. count \in [Bucket -> Nat] /\ timeAccumulated \in [Bucket -> Int]
  BY DEF Init
<1>4. QED
  BY <1>1, <1>2, <1>3 DEF Init, Typed

LEMMA PulseTyped == Typed /\ Pulse => Typed'
<1> SUFFICES ASSUME Typed, Pulse PROVE Typed'
  OBVIOUS
<1>1. PICK echoes \in Echoes, jitter \in Jitter, prefix \in Seq(Int) :
        times' = Append(times, Times(Stops(prefix, echoes, jitter)))
  <2>1. Prefixes \subseteq Seq(Int) /\ <<>> \in Seq(Int)
    BY FlightAssumption DEF FlightAssumption
  <2>2. (IF times = <<>> THEN Prefixes ELSE {<<>>}) \subseteq Seq(Int)
    BY <2>1, Zenon
  <2>3. QED
    BY <2>2 DEF Pulse
<1> DEFINE row == Times(Stops(prefix, echoes, jitter))
<1>2. row \in Seq(Int) /\ Len(row) \in 1..STOP_QUEUE_LENGTH
  <2>1. echoes \in Seq(Nat) /\ echoes # <<>> /\ jitter \in Int
    BY FlightAssumption DEF FlightAssumption
  <2>2. /\ Stops(prefix, echoes, jitter) \in Seq(Int)
        /\ Len(Stops(prefix, echoes, jitter)) \in 1..STOP_QUEUE_LENGTH
    BY <2>1, StopsHaveType
  <2>3. QED
    BY <2>2, TimesHaveType
<1> HIDE DEF row
<1>3. times \in Seq(Seq(Int)) /\ Len(times) < N
      /\ \A r \in DOMAIN times : Len(times[r]) \in 1..STOP_QUEUE_LENGTH
  BY DEF Typed, Pulse
<1>4. times' = Append(times, row)
  BY <1>1 DEF row
<1>5. times' \in Seq(Seq(Int)) /\ Len(times') <= N
  BY <1>2, <1>3, <1>4
<1>6. \A r \in DOMAIN times' : Len(times'[r]) \in 1..STOP_QUEUE_LENGTH
  <2> SUFFICES ASSUME NEW r \in 1..(Len(times) + 1)
               PROVE  Len(Append(times, row)[r]) \in 1..STOP_QUEUE_LENGTH
    BY <1>3, <1>4
  <2>1. CASE r = Len(times) + 1
    BY <1>2, <1>3, <2>1
  <2>2. CASE r # Len(times) + 1
    <3>1. r \in DOMAIN times /\ Append(times, row)[r] = times[r]
      BY <1>3, <2>2
    <3>2. QED
      BY <1>3, <3>1
  <2>3. QED
    BY <2>1, <2>2
<1>7. cycle' \in 0..(CounterSize - 1)
  BY DEF Typed, Pulse
<1>8. QED
  BY <1>5, <1>6, <1>7 DEF Typed, Pulse

(* After the pulses every row there can be is there. *)
LEMMA RowsAreThere ==
  ASSUME Typed, pc # "pulses"
  PROVE  /\ first \in Int
         /\ \A r \in 1..N : times[r] \in Seq(Int)
<1>1. times \in Seq(Seq(Int)) /\ Len(times) = N
  BY DEF Typed
<1>2. \A r \in 1..N : times[r] \in Seq(Int)
  BY <1>1
<1>3. Len(times[1]) \in 1..STOP_QUEUE_LENGTH
  <2>1. 1 \in DOMAIN times
    BY <1>1
  <2>2. QED
    BY <2>1 DEF Typed
<1>4. times[1] \in Seq(Int)
  BY <1>2
<1>5. QED
  BY <1>2, <1>3, <1>4 DEF first

LEMMA TimeIsThere == Typed /\ Accumulate => times[j][i] \in Int /\ first \in Int
<1> SUFFICES ASSUME Typed, Accumulate PROVE times[j][i] \in Int /\ first \in Int
  OBVIOUS
<1>1. pc # "pulses" /\ j <= N /\ i <= Len(times[j])
  BY DEF Accumulate
<1>2. j \in 1..N /\ i \in Nat \ {0}
  BY <1>1, FlightAssumption DEF Typed, FlightAssumption
<1>3. first \in Int /\ times[j] \in Seq(Int)
  BY <1>1, <1>2, RowsAreThere
<1>4. QED
  BY <1>1, <1>2, <1>3

LEMMA AccumulateTyped == Typed /\ Accumulate => Typed'
<1> SUFFICES ASSUME Typed, Accumulate PROVE Typed'
  OBVIOUS
<1>1. times[j][i] \in Int
  BY TimeIsThere
<1>2. PICK k \in Bucket :
        /\ count' = [count EXCEPT ![k] = @ + 1]
        /\ timeAccumulated' = [timeAccumulated EXCEPT ![k] = @ + times[j][i]]
  BY DEF Accumulate
<1>3. count' \in [Bucket -> Nat] /\ timeAccumulated' \in [Bucket -> Int]
  <2>1. count \in [Bucket -> Nat] /\ timeAccumulated \in [Bucket -> Int]
    BY DEF Typed
  <2>2. QED
    BY <1>1, <1>2, <2>1
<1>4. i' \in Nat \ {0}
  BY DEF Typed, Accumulate
<1>5. QED
  BY <1>3, <1>4 DEF Typed, Accumulate

LEMMA ReturnTyped == Typed /\ Return => Typed'
<1> SUFFICES ASSUME Typed, Return PROVE Typed'
  OBVIOUS
<1>1. timeOfFlight' \in [kind : {"none", "time", "nan", "outside"}, num : Int, den : Nat \ {0}]
  BY ResultIsFraction DEF Return
<1>2. QED
  BY <1>1 DEF Typed, Return

LEMMA OtherTyped == Typed /\ (GiveUp \/ SetBuckets \/ Drop \/ NextRow) => Typed'
<1> SUFFICES ASSUME Typed, GiveUp \/ SetBuckets \/ Drop \/ NextRow PROVE Typed'
  OBVIOUS
<1>1. CASE GiveUp
  BY <1>1 DEF Typed, GiveUp
<1>2. CASE SetBuckets
  BY <1>2 DEF Typed, SetBuckets
<1>3. CASE Drop
  BY <1>3 DEF Typed, Drop
<1>4. CASE NextRow
  BY <1>4 DEF Typed, NextRow
<1>5. QED
  BY <1>1, <1>2, <1>3, <1>4

LEMMA NextTyped == Typed /\ [Next]_vars => Typed'
<1> SUFFICES ASSUME Typed, [Next]_vars PROVE Typed'
  OBVIOUS
<1>1. CASE UNCHANGED vars
  BY <1>1 DEF Typed, vars
<1>2. CASE Next
  BY <1>2, PulseTyped, AccumulateTyped, ReturnTyped, OtherTyped DEF Next
<1>3. QED
  BY <1>1, <1>2

(* A time counts in one bucket at most, and is passed when it does; the end *)
(* of a row leaves room for the longest.                                   *)
LEMMA NextCounted == Typed /\ NoMoreCounted /\ [Next]_vars => NoMoreCounted'
<1> SUFFICES ASSUME Typed, NoMoreCounted, [Next]_vars PROVE NoMoreCounted'
  OBVIOUS
<1>1. /\ \A k \in Bucket : count[k] \in Nat
      /\ j \in Nat \ {0} /\ i \in Nat \ {0} /\ N \in Nat /\ STOP_QUEUE_LENGTH \in Nat
      /\ pc # "pulses" => \A r \in 1..N : Len(times[r]) \in 1..STOP_QUEUE_LENGTH
  BY FlightAssumption DEF FlightAssumption, Typed
<1>2. PICK b \in Nat : b = (j - 1) * STOP_QUEUE_LENGTH
  BY <1>1
<1>3. \A k \in Bucket : count[k] <= b + (i - 1)
  BY <1>2 DEF NoMoreCounted
<1>4. CASE Pulse
  BY <1>4 DEF Pulse, NoMoreCounted
<1>5. CASE GiveUp
  BY <1>5 DEF GiveUp, NoMoreCounted
<1>6. CASE SetBuckets
  <2>1. j = 1 /\ i = 1
    BY <1>6 DEF SetBuckets, NoMoreCounted
  <2>2. 1 <= N => Len(times[1]) \in Nat
    BY <1>6 DEF SetBuckets, Typed
  <2>3. QED
    BY <1>6, <2>1, <2>2 DEF SetBuckets, NoMoreCounted
<1>7. CASE Accumulate \/ Drop
  <2>1. /\ pc = "buckets" /\ pc' = pc /\ j <= N /\ i <= Len(times[j])
        /\ i' = i + 1 /\ UNCHANGED <<times, j>>
    BY <1>7 DEF Accumulate, Drop
  <2>2. \A k \in Bucket : count'[k] <= count[k] + 1
    <3>1. CASE Accumulate
      <4>1. PICK k \in Bucket : count' = [count EXCEPT ![k] = @ + 1]
        BY <3>1 DEF Accumulate
      <4>2. count \in [Bucket -> Nat]
        BY DEF Typed
      <4>3. QED
        BY <1>1, <4>1, <4>2
    <3>2. CASE Drop
      <4>1. count' = count
        BY <3>2 DEF Drop
      <4>2. QED
        BY <1>1, <4>1
    <3>3. QED
      BY <1>7, <3>1, <3>2
  <2>3. \A k \in Bucket : count'[k] \in Nat
    BY <1>7, AccumulateTyped, OtherTyped DEF Typed
  <2>4. \A k \in Bucket : count'[k] <= b + (i' - 1)
    BY <1>1, <1>3, <2>1, <2>2, <2>3
  <2>5. Len(times[j]) \in Nat
    BY <1>1, <2>1
  <2>6. b = (j' - 1) * STOP_QUEUE_LENGTH
    BY <1>2, <2>1
  <2>7. i' <= Len(times'[j']) + 1
    BY <1>1, <2>1, <2>5
  <2>8. QED
    BY <2>1, <2>4, <2>6, <2>7 DEF NoMoreCounted
<1>8. CASE NextRow
  <2>1. /\ pc = "buckets" /\ pc' = pc /\ j <= N /\ i > Len(times[j])
        /\ i' = 1 /\ j' = j + 1 /\ UNCHANGED <<times, count>>
    BY <1>8 DEF NextRow
  <2>2. Len(times[j]) \in Nat /\ Len(times[j]) <= STOP_QUEUE_LENGTH
    BY <1>1, <2>1
  <2>3. i - 1 <= STOP_QUEUE_LENGTH
    BY <1>1, <2>1, <2>2 DEF NoMoreCounted
  <2>4. (j' - 1) * STOP_QUEUE_LENGTH = b + STOP_QUEUE_LENGTH
    <3>1. \A m, l \in Nat : ((m + 1) - 1) * l = (m - 1) * l + l
      OBVIOUS
    <3>2. QED
      BY <1>1, <1>2, <2>1, <3>1
  <2>5. \A k \in Bucket : count'[k] <= (j' - 1) * STOP_QUEUE_LENGTH + (i' - 1)
    BY <1>1, <1>3, <2>1, <2>3, <2>4
  <2>6. j' <= N => 1 <= Len(times'[j']) + 1
    <3>1. j' <= N => Len(times[j']) \in Nat
      BY <1>1, <2>1
    <3>2. QED
      BY <2>1, <3>1
  <2>7. QED
    BY <2>1, <2>5, <2>6 DEF NoMoreCounted
<1>9. CASE Return
  BY <1>9 DEF Return, NoMoreCounted
<1>10. CASE UNCHANGED vars
  BY <1>10 DEF vars, NoMoreCounted
<1>11. QED
  BY <1>4, <1>5, <1>6, <1>7, <1>8, <1>9, <1>10 DEF Next

(* Types hold whatever the TDC1000 answers, and a bucket never counts more *)
(* times than the loops have passed (calculateTimeOfFlight).               *)
THEOREM TypesHold == Spec => []TypeOK
<1>1. Init => Typed /\ NoMoreCounted
  <2>1. Init => NoMoreCounted
    BY DEF Init, NoMoreCounted
  <2>2. QED
    BY <2>1, InitTyped
<1>2. Typed /\ NoMoreCounted /\ [Next]_vars => Typed' /\ NoMoreCounted'
  BY NextTyped, NextCounted
<1>3. QED
  BY <1>1, <1>2, PTL DEF Spec, TypeOK
-----------------------------------------------------------------------------
(* A time that goes to a bucket is less than half a period from its centre *)
(* and, Centre being fixed by then, keeps the bucket's mean there.         *)
Mean(acc, n, centre) ==
  IF n = 0 THEN acc = 0
  ELSE 2 * (acc - n * centre) < n * Period /\ 2 * (n * centre - acc) < n * Period

LEMMA OneTimeMore ==
  ASSUME NEW acc \in Int, NEW n \in Nat, NEW centre \in Int, NEW t \in Int,
         Mean(acc, n, centre),
         2 * (centre - t) < Period, 2 * (t - centre) < Period
  PROVE  Mean(acc + t, n + 1, centre)
<1>1. (n + 1) * centre = n * centre + centre /\ (n + 1) * Period = n * Period + Period
  OBVIOUS
<1>2. n * centre \in Int /\ n * Period \in Int
  OBVIOUS
<1>3. CASE n = 0
  BY <1>1, <1>2, <1>3 DEF Mean
<1>4. CASE n # 0
  BY <1>1, <1>2, <1>4 DEF Mean
<1>5. QED
  BY <1>3, <1>4

LEMMA CentresAreInts ==
  ASSUME NEW f \in Int, NEW k \in Bucket
  PROVE  f + (k - 10) * Period \in Int
BY DEF Bucket

LEMMA MeanIsMean == MeanNearCentre <=> \A k \in Bucket : Mean(timeAccumulated[k], count[k], Centre(k))
BY Zenon DEF MeanNearCentre, Mean

LEMMA MeanAccumulate == Typed /\ MeanNearCentre /\ Accumulate => MeanNearCentre'
<1> SUFFICES ASSUME Typed, MeanNearCentre, Accumulate PROVE MeanNearCentre'
  OBVIOUS
<1>1. times[j][i] \in Int /\ first \in Int
  BY TimeIsThere
<1>2. PICK k \in Bucket :
        /\ In(k, times[j][i])
        /\ count' = [count EXCEPT ![k] = @ + 1]
        /\ timeAccumulated' = [timeAccumulated EXCEPT ![k] = @ + times[j][i]]
  BY DEF Accumulate
<1>3. SUFFICES ASSUME NEW l \in Bucket
               PROVE  Mean(timeAccumulated[l], count[l], Centre(l))'
  BY Zenon DEF MeanNearCentre, Mean
<1>4. Centre(l)' = Centre(l) /\ Centre(l) \in Int
  BY <1>1, CentresAreInts DEF Accumulate, Centre, first
<1>5. count[l] \in Nat /\ timeAccumulated[l] \in Int /\ l \in DOMAIN count
      /\ l \in DOMAIN timeAccumulated
  BY DEF Typed
<1>6. Mean(timeAccumulated[l], count[l], Centre(l))
  BY MeanIsMean
<1>7. CASE l # k
  <2>1. count'[l] = count[l] /\ timeAccumulated'[l] = timeAccumulated[l]
    BY <1>2, <1>5, <1>7
  <2>2. QED
    BY <1>4, <1>6, <2>1 DEF Mean
<1>8. CASE l = k
  <2>1. count'[l] = count[l] + 1 /\ timeAccumulated'[l] = timeAccumulated[l] + times[j][i]
    BY <1>2, <1>5, <1>8
  <2>2. 2 * (Centre(l) - times[j][i]) < Period /\ 2 * (times[j][i] - Centre(l)) < Period
    BY <1>2, <1>8 DEF In
  <2>3. Mean(timeAccumulated[l] + times[j][i], count[l] + 1, Centre(l))
    BY <1>1, <1>4, <1>5, <1>6, <2>2, OneTimeMore
  <2>4. QED
    BY <1>4, <2>1, <2>3 DEF Mean
<1>9. QED
  BY <1>7, <1>8

IInv == Typed /\ MeanNearCentre /\ Counting

LEMMA InitIInv == Init => IInv
<1> SUFFICES ASSUME Init PROVE IInv
  OBVIOUS
<1>1. MeanNearCentre /\ Counting
  BY DEF Init, MeanNearCentre, Counting
<1>2. QED
  BY <1>1, InitTyped DEF IInv

LEMMA NextIInv == IInv /\ [Next]_vars => IInv'
<1> SUFFICES ASSUME IInv, [Next]_vars PROVE IInv'
  OBVIOUS
<1> USE DEF IInv
<1>1. Typed'
  BY NextTyped
<1>2. CASE Pulse
  <2>1. MeanNearCentre'
    BY <1>2 DEF Pulse, Counting, MeanNearCentre
  <2>2. Counting'
    BY <1>2 DEF Pulse, Counting, Typed
  <2>3. QED
    BY <1>1, <2>1, <2>2
<1>3. CASE Accumulate
  <2>1. Counting'
    BY <1>3 DEF Accumulate, Counting
  <2>2. QED
    BY <1>1, <1>3, <2>1, MeanAccumulate
<1>4. CASE GiveUp \/ SetBuckets \/ Drop \/ NextRow \/ UNCHANGED vars
  <2>1. UNCHANGED <<times, count, timeAccumulated>>
    BY <1>4 DEF GiveUp, SetBuckets, Drop, NextRow, vars
  <2>2. MeanNearCentre'
    BY <2>1, Zenon DEF MeanNearCentre, Centre, first
  <2>3. Result' = Result
    BY <2>1, Zenon DEF Result, index, Full
  <2>4. Counting'
    BY <1>4, <2>1, <2>3 DEF GiveUp, SetBuckets, Drop, NextRow, vars, Counting
  <2>5. QED
    BY <1>1, <2>2, <2>4
<1>5. CASE Return
  <2>1. UNCHANGED <<times, count, timeAccumulated>>
    BY <1>5 DEF Return
  <2>2. MeanNearCentre'
    BY <2>1, Zenon DEF MeanNearCentre, Centre, first
  <2>3. Result' = Result
    BY <2>1, Zenon DEF Result, index, Full
  <2>4. Counting'
    BY <1>5, <2>1, <2>3 DEF Return, Counting
  <2>5. QED
    BY <1>1, <2>2, <2>4
<1>6. QED
  BY <1>2, <1>3, <1>4, <1>5 DEF Next

(* The mean of a bucket stays near its centre, for any times at all. *)
THEOREM MeansHold == Spec => []MeanNearCentre
<1>1. IInv => MeanNearCentre
  BY DEF IInv
<1>2. QED
  BY InitIInv, NextIInv, <1>1, PTL DEF Spec
-----------------------------------------------------------------------------
(* Inequalities may be multiplied by a positive number, and divided by it. *)
LEMMA Multiply ==
  ASSUME NEW p \in Int, NEW q \in Int, NEW m \in Nat, m > 0
  PROVE  p < q <=> p * m < q * m
OBVIOUS

LEMMA ProductsOfThree ==
  ASSUME NEW a \in Int, NEW b \in Int, NEW c \in Int, NEW d \in Int,
         NEW x \in Nat, NEW y \in Nat, x > 0, y > 0,
         2 * (d * c - a) < d * b
  PROVE  2 * (x * y * d * c - a * x * y) < x * y * d * b
<1>1. x * y \in Nat /\ x * y > 0
  OBVIOUS
<1>2. PICK m \in Nat : m = x * y
  BY <1>1
<1>3. d * c \in Int /\ d * b \in Int
  OBVIOUS
<1>4. (2 * (d * c - a)) * m < (d * b) * m
  BY <1>1, <1>2, <1>3, Multiply
<1>5. (2 * (d * c - a)) * m = 2 * (m * d * c - a * m) /\ (d * b) * m = m * d * b
  OBVIOUS
<1>6. a * m = a * x * y
  BY <1>2
<1>7. QED
  BY <1>2, <1>4, <1>5, <1>6

(* The mean of three means of neighbouring buckets lies less than half a   *)
(* period from the centre u of the middle one.                             *)
LEMMA MeanOfThree ==
  ASSUME NEW a \in Int, NEW b \in Int, NEW c \in Int, NEW u \in Int,
         NEW x \in Nat, NEW y \in Nat, NEW z \in Nat, x > 0, y > 0, z > 0,
         2 * (x * (u - Period) - a) < x * Period,
         2 * (y * u - b) < y * Period,
         2 * (z * (u + Period) - c) < z * Period
  PROVE  2 * ((3 * x * y * z) * u - (a * y * z + b * x * z + c * x * y))
           < (3 * x * y * z) * Period
<1>1. 2 * (y * z * x * (u - Period) - a * y * z) < y * z * x * Period
  BY ProductsOfThree
<1>2. 2 * (x * z * y * u - b * x * z) < x * z * y * Period
  BY ProductsOfThree
<1>3. 2 * (x * y * z * (u + Period) - c * x * y) < x * y * z * Period
  BY ProductsOfThree
<1> DEFINE m == x * y * z
<1>4. m \in Int
  OBVIOUS
<1>5. y * z * x = m /\ x * z * y = m /\ 3 * x * y * z = 3 * m
  OBVIOUS
<1>6. /\ y * z * x * (u - Period) = m * u - m * Period
      /\ x * z * y * u = m * u
      /\ x * y * z * (u + Period) = m * u + m * Period
      /\ y * z * x * Period = m * Period /\ x * z * y * Period = m * Period
      /\ x * y * z * Period = m * Period
      /\ (3 * x * y * z) * u = 3 * (m * u) /\ (3 * x * y * z) * Period = 3 * (m * Period)
  OBVIOUS
<1>7. m * u \in Int /\ m * Period \in Int
      /\ a * y * z \in Int /\ b * x * z \in Int /\ c * x * y \in Int
  OBVIOUS
<1> HIDE DEF m
<1>8. QED
  BY <1>1, <1>2, <1>3, <1>6, <1>7

LEMMA LateFirstTime == IInv => LateFirstTimeRefused
<1> SUFFICES ASSUME IInv, Accepted
             PROVE  2 * (first - UPPER_TIME_LIMIT - Shift - 10 * Period) < Period
  BY DEF LateFirstTimeRefused
<1>1. Typed /\ MeanNearCentre /\ Counting
  BY DEF IInv
<1>2. timeOfFlight.kind = "time" /\ pc = "done"
      /\ timeOfFlight.num \in Int /\ timeOfFlight.den \in Int
      /\ timeOfFlight.num <= UPPER_TIME_LIMIT * timeOfFlight.den
      /\ ~ (timeOfFlight.num < LOWER_TIME_LIMIT * timeOfFlight.den)
  BY <1>1 DEF Accepted, OutOfRange, Typed
<1>3. timeOfFlight = Result
  <2>1. CASE timeOfFlight = [kind |-> "time", num |-> 0, den |-> 1]
    BY <1>2, <2>1
  <2>2. QED
    BY <1>1, <1>2, <2>1 DEF Counting
<1> DEFINE a == timeAccumulated[index + 4]
           b == timeAccumulated[index + 5]
           c == timeAccumulated[index + 6]
           x == count[index + 4]
           y == count[index + 5]
           z == count[index + 6]
           den == 3 * x * y * z
           sum == ThreeMeans
<1>4. /\ index + 6 \in Bucket
      /\ x > 0 /\ y > 0 /\ z > 0
      /\ Result.den = den
      /\ Result.num = sum - Result.den * (5 * Period + Shift)
  <2>1. Result.kind = "time"
    BY <1>2, <1>3
  <2>2. /\ index + 6 \in Bucket
        /\ count[index + 4] > 0 /\ count[index + 5] > 0 /\ count[index + 6] > 0
        /\ Result.den = 3 * count[index + 4] * count[index + 5] * count[index + 6]
    BY <1>1, <2>1, ResultIsFraction
  <2>3. Result.num = sum - Result.den * (5 * Period + Shift)
    BY <1>1, <2>1, ResultIsFraction
  <2>4. index + 6 \in Bucket /\ x > 0 /\ y > 0 /\ z > 0
    BY <2>2
  <2>5. Result.den = den
    BY <2>2
  <2>6. QED
    BY <2>3, <2>4, <2>5
<1>5. index \in Nat /\ index + 4 \in Bucket /\ index + 5 \in Bucket
  BY <1>4, IndexIsFirstFull DEF Bucket, RELATIVE_TIMES_COUNT
<1>6. /\ a \in Int /\ b \in Int /\ c \in Int
      /\ x \in Nat /\ y \in Nat /\ z \in Nat
  BY <1>1, <1>4, <1>5 DEF Typed
<1>7. first \in Int
  BY <1>1, <1>2, RowsAreThere
<1>8. PICK u \in Int : u = Centre(index + 5) /\ u = first + (index - 5) * Period
  <2>1. (index + 5) - 10 = index - 5
    BY <1>5
  <2>2. first + (index - 5) * Period \in Int
    BY <1>5, <1>7
  <2>3. QED
    BY <2>1, <2>2 DEF Centre
<1>9. Centre(index + 4) = u - Period /\ Centre(index + 6) = u + Period
  BY <1>5, <1>7, <1>8 DEF Centre
<1>10. /\ 2 * (x * (u - Period) - a) < x * Period
       /\ 2 * (y * u - b) < y * Period
       /\ 2 * (z * (u + Period) - c) < z * Period
  <2>1. /\ Mean(a, x, u - Period) /\ Mean(b, y, u) /\ Mean(c, z, u + Period)
    BY <1>1, <1>4, <1>5, <1>8, <1>9, MeanIsMean
  <2> HIDE DEF a, b, c, x, y, z
  <2>2. QED
    BY <1>4, <2>1 DEF Mean
<1>sum. sum = a * y * z + b * x * z + c * x * y
  BY Zenon DEF ThreeMeans
<1> HIDE DEF a, b, c, x, y, z, sum
<1>11. 2 * (den * u - sum) < den * Period
  BY <1>4, <1>6, <1>10, <1>sum, MeanOfThree
<1>12. den \in Nat /\ den > 0 /\ sum \in Int
  <2>1. den \in Nat
    BY <1>6, ProductOfCounts
  <2>2. den # 0
    BY <1>2, <1>3, <1>4, <1>1 DEF Typed
  <2>3. a * y * z \in Int /\ b * x * z \in Int /\ c * x * y \in Int
    BY <1>6
  <2>4. QED
    BY <1>sum, <2>1, <2>2, <2>3
<1> HIDE DEF den
<1>13. sum - den * (5 * Period + Shift) <= UPPER_TIME_LIMIT * den
  BY <1>2, <1>3, <1>4
<1>14. PICK w \in Int : w = u - 5 * Period - Shift - UPPER_TIME_LIMIT
  BY <1>8
<1>15. (2 * w) * den < Period * den
  <2>1. (2 * w) * den = 2 * (den * u - den * (5 * Period + Shift) - UPPER_TIME_LIMIT * den)
    BY <1>8, <1>12, <1>14
  <2>2. den * u \in Int /\ den * (5 * Period + Shift) \in Int /\ UPPER_TIME_LIMIT * den \in Int
        /\ den * Period \in Int /\ Period * den = den * Period
    BY <1>8, <1>12
  <2>3. QED
    BY <1>11, <1>12, <1>13, <2>1, <2>2
<1>16. 2 * w < Period
  BY <1>12, <1>15, Multiply
<1>17. u - 5 * Period >= first - 10 * Period
  <2>1. index * Period \in Nat
    BY <1>5
  <2>2. u = first + index * Period - 5 * Period
    BY <1>5, <1>7, <1>8
  <2>3. QED
    BY <1>7, <1>8, <2>1, <2>2
<1>18. QED
  BY <1>7, <1>8, <1>14, <1>16, <1>17

(* A first time beyond the limit is refused, for every batch: no echo of   *)
(* other pulses, no bucket and no rounding by periods brings it in range.  *)
THEOREM LateFirstTimesAreRefused == Spec => []LateFirstTimeRefused
BY InitIInv, NextIInv, LateFirstTime, PTL DEF Spec
-----------------------------------------------------------------------------
(* The time of an echo, and how far from the truth it may be.              *)
Echo(e, jitter) == FirstEcho + e * Period + jitter

LEMMA EchoesAreEarly ==
  ASSUME NEW echoes \in Echoes, NEW jitter \in Jitter, NEW n \in DOMAIN echoes
  PROVE  /\ jitter \in Int /\ 4 * jitter < Period /\ -4 * jitter < Period
         /\ echoes[n] \in Nat /\ echoes[n] * Period \in Nat
         /\ Echo(echoes[n], jitter) \in Int
         /\ Echo(echoes[n], jitter) > 10 * Period
         /\ 2 * (Echo(echoes[n], jitter) + STOP_QUEUE_LENGTH * Period) < CounterSize
<1>1. echoes \in Seq(Nat) /\ jitter \in Int
  BY FlightAssumption DEF FlightAssumption
<1>2. echoes[n] \in Nat
  BY <1>1
<1>3. echoes[n] * Period \in Nat /\ STOP_QUEUE_LENGTH * Period \in Nat
      /\ (echoes[n] + STOP_QUEUE_LENGTH) * Period = echoes[n] * Period + STOP_QUEUE_LENGTH * Period
  BY <1>2
<1>4. /\ 4 * jitter < Period /\ -4 * jitter < Period
      /\ FirstEcho + jitter > 10 * Period
      /\ 2 * (FirstEcho + (echoes[n] + STOP_QUEUE_LENGTH) * Period + jitter) < CounterSize
  BY EchoAssumption DEF EchoAssumption
<1>5. PICK p \in Nat, q \in Nat : p = echoes[n] * Period /\ q = STOP_QUEUE_LENGTH * Period
  BY <1>3
<1>6. Echo(echoes[n], jitter) = FirstEcho + p + jitter
  BY <1>5 DEF Echo
<1>7. FirstEcho + p + jitter > 10 * Period /\ 2 * (FirstEcho + p + jitter + q) < CounterSize
  <2>1. (echoes[n] + STOP_QUEUE_LENGTH) * Period = p + q
    BY <1>3, <1>5
  <2>2. 2 * (FirstEcho + (p + q) + jitter) < CounterSize /\ FirstEcho + jitter > 10 * Period
    BY <1>4, <2>1
  <2>3. 10 * Period \in Int
    OBVIOUS
  <2>4. QED
    BY <1>1, <2>2, <2>3
<1>8. QED
  BY <1>1, <1>2, <1>4, <1>5, <1>6, <1>7

(* A row: behind len stops of other origin come a pulse's own echoes, each *)
(* timed right or, behind a wrap of the counter, late by nearly all of it. *)
RowOf(row, right, len, echoes, jitter) ==
  /\ \A n \in 1..Len(row) : n > len =>
       /\ n - len \in DOMAIN echoes
       /\ \/ row[n] = Echo(echoes[n - len], jitter)
          \/ row[n] = CounterSize - Echo(echoes[n - len], jitter)
  /\ \A e : e \in right <=> \E n \in 1..Len(row) :
       n > len /\ e = echoes[n - len] /\ row[n] = Echo(echoes[n - len], jitter)

(* The stops of other origin: none, and then the first is an echo timed    *)
(* right, or none is; a spurious one, timed right or late; or left over.   *)
Aged(age) ==
  /\ 2 * (age + 11 * Period) <= CounterSize
  /\ \A echoes \in Echoes, jitter \in Jitter : \A m \in DOMAIN echoes :
       Echo(echoes[m], jitter) + STOP_QUEUE_LENGTH * Period + 11 * Period < age

Leftovers(row, len, age) ==
  /\ \A n \in 1..len : /\ age[n] \in Nat /\ Aged(age[n])
                       /\ \A m \in 1..len : m < n => age[n] + Period <= age[m]
  /\ \A n \in 1..Len(row) : n <= len => row[n] = age[n] \/ row[n] = CounterSize - age[n]

Foreign(row, right, len, echoes, jitter) ==
  \/ len = 0 /\ (row[1] = Echo(echoes[1], jitter) \/ right = {})
  \/ len = 1 /\ \E t \in 0..(FirstEcho - 1) : row[1] = t \/ row[1] = CounterSize - t
  \/ len > 0 /\ \E age : Leftovers(row, len, age)

RowsKnown ==
  /\ heard \in Seq(SUBSET Nat) /\ Len(heard) = Len(times)
  /\ \A r \in 1..Len(times) : \E len \in Nat, echoes \in Echoes, jitter \in Jitter :
       /\ r # 1 => len = 0
       /\ RowOf(times[r], heard[r], len, echoes, jitter)
       /\ Foreign(times[r], heard[r], len, echoes, jitter)

LEMMA WrappedTime ==
  ASSUME NEW c \in 0..(CounterSize - 1), NEW t \in Int, 0 < t, 2 * t < CounterSize
  PROVE  /\ c + t < CounterSize => Elapsed(c, (c + t) % CounterSize) = t
         /\ ~(c + t < CounterSize) => Elapsed(c, (c + t) % CounterSize) = CounterSize - t
         /\ t # CounterSize - t
<1>1. CASE c + t < CounterSize
  <2>1. (c + t) % CounterSize = c + t
    BY <1>1
  <2>2. QED
    BY <1>1, <2>1 DEF Elapsed
<1>2. CASE ~(c + t < CounterSize)
  <2>1. c + t - CounterSize \in 0..(CounterSize - 1) /\ c + t = 1 * CounterSize + (c + t - CounterSize)
    BY <1>2
  <2>2. (c + t) % CounterSize = c + t - CounterSize
    BY <2>1
  <2>3. QED
    BY <1>2, <2>2 DEF Elapsed
<1>3. QED
  BY <1>1, <1>2

LEMMA OwnStops ==
  ASSUME NEW prefix \in Seq(Int), NEW echoes \in Echoes, NEW jitter \in Jitter,
         NEW n \in 1..Len(Stops(prefix, echoes, jitter)), n > Len(prefix)
  PROVE  /\ n - Len(prefix) \in DOMAIN echoes
         /\ Stops(prefix, echoes, jitter)[n] = Echo(echoes[n - Len(prefix)], jitter)
<1> DEFINE own == [m \in DOMAIN echoes |-> FirstEcho + echoes[m] * Period + jitter]
           all == prefix \o own
<1>1. echoes \in Seq(Nat) /\ jitter \in Int
  BY FlightAssumption DEF FlightAssumption
<1>2. own \in Seq(Int) /\ Len(own) = Len(echoes)
  <2>1. \A m \in 1..Len(echoes) : FirstEcho + echoes[m] * Period + jitter \in Int
    BY <1>1
  <2>2. own \in [1..Len(echoes) -> Int] /\ Len(echoes) \in Nat
    BY <1>1, <2>1
  <2>3. QED
    BY <2>2
<1>3. \A m \in DOMAIN echoes : own[m] = Echo(echoes[m], jitter)
  BY DEF Echo
<1> HIDE DEF own
<1>4. all \in Seq(Int) /\ Len(all) = Len(prefix) + Len(echoes)
  BY <1>2, ConcatOfInts
<1>5. \A m \in 1..Len(all) : m > Len(prefix) => all[m] = own[m - Len(prefix)]
  BY <1>2
<1>6. Stops(prefix, echoes, jitter) =
        IF Len(all) <= STOP_QUEUE_LENGTH THEN all ELSE SubSeq(all, 1, STOP_QUEUE_LENGTH)
  BY Zenon DEF Stops, own
<1> HIDE DEF all
<1>7. Len(prefix) \in Nat /\ Len(echoes) \in Nat /\ DOMAIN echoes = 1..Len(echoes)
  BY <1>1
<1>8. n \in 1..Len(all) /\ Stops(prefix, echoes, jitter)[n] = all[n]
  <2>1. CASE Len(all) <= STOP_QUEUE_LENGTH
    BY <1>6, <2>1
  <2>2. CASE ~(Len(all) <= STOP_QUEUE_LENGTH)
    <3>1. Len(all) \in Nat /\ STOP_QUEUE_LENGTH \in 1..Len(all)
      BY <1>4, <1>7, <2>2
    <3>2. /\ Len(SubSeq(all, 1, STOP_QUEUE_LENGTH)) = STOP_QUEUE_LENGTH
          /\ \A m \in 1..STOP_QUEUE_LENGTH : SubSeq(all, 1, STOP_QUEUE_LENGTH)[m] = all[m]
      <4>1. \A m \in 1..STOP_QUEUE_LENGTH : all[m] \in Int
        BY <1>4, <3>1, ElementOfSeq
      <4>2. QED
        BY <1>4, <3>1, <4>1, SubSeqProperties
    <3>3. QED
      BY <1>6, <2>2, <3>1, <3>2
  <2>3. QED
    BY <2>1, <2>2
<1>9. n - Len(prefix) \in 1..Len(echoes)
  BY <1>4, <1>7, <1>8
<1>10. QED
  BY <1>3, <1>5, <1>7, <1>8, <1>9

LEMMA PulseRow ==
  ASSUME Typed, NEW prefix \in Seq(Int), NEW echoes \in Echoes, NEW jitter \in Jitter
  PROVE  LET stops == Stops(prefix, echoes, jitter)
         IN  /\ RowOf(Times(stops), Right(prefix, echoes, stops), Len(prefix), echoes, jitter)
             /\ Right(prefix, echoes, stops) \in SUBSET Nat
<1> DEFINE stops == Stops(prefix, echoes, jitter)
           row == Times(stops)
           right == Right(prefix, echoes, stops)
           len == Len(prefix)
<1>1. echoes \in Seq(Nat) /\ echoes # <<>> /\ jitter \in Int /\ len \in Nat
  BY FlightAssumption DEF FlightAssumption
<1>2. stops \in Seq(Int) /\ Len(row) = Len(stops) /\ DOMAIN stops = 1..Len(stops)
  <2>1. stops \in Seq(Int)
    BY <1>1, StopsHaveType
  <2> HIDE DEF stops
  <2>2. QED
    BY <2>1, TimesHaveType
<1>3. \A n \in 1..Len(stops) : row[n] = Elapsed(cycle, (cycle + stops[n]) % CounterSize)
  BY <1>2 DEF Times
<1>4. \A n \in 1..Len(stops) : n > len =>
        n - len \in DOMAIN echoes /\ stops[n] = Echo(echoes[n - len], jitter)
  BY OwnStops
<1>5. \A e : e \in right <=> \E n \in 1..Len(stops) :
         n > len /\ e = echoes[n - len] /\ cycle + stops[n] < CounterSize
  BY <1>2 DEF Right
<1> HIDE DEF stops, row, right, len
<1>6. cycle \in 0..(CounterSize - 1)
  BY DEF Typed
<1>7. \A n \in 1..Len(stops) : n > len =>
        /\ cycle + stops[n] < CounterSize => row[n] = Echo(echoes[n - len], jitter)
        /\ ~(cycle + stops[n] < CounterSize) => row[n] = CounterSize - Echo(echoes[n - len], jitter)
        /\ Echo(echoes[n - len], jitter) # CounterSize - Echo(echoes[n - len], jitter)
  <2> SUFFICES ASSUME NEW n \in 1..Len(stops), n > len
               PROVE  /\ cycle + stops[n] < CounterSize => row[n] = Echo(echoes[n - len], jitter)
                      /\ ~(cycle + stops[n] < CounterSize) => row[n] = CounterSize - Echo(echoes[n - len], jitter)
                      /\ Echo(echoes[n - len], jitter) # CounterSize - Echo(echoes[n - len], jitter)
    OBVIOUS
  <2>1. PICK t \in Int : t = Echo(echoes[n - len], jitter) /\ t > 10 * Period
                         /\ 2 * (t + STOP_QUEUE_LENGTH * Period) < CounterSize
    BY <1>4, EchoesAreEarly
  <2>2. 0 < t /\ 2 * t < CounterSize
    <3>1. STOP_QUEUE_LENGTH * Period \in Nat
      OBVIOUS
    <3>2. QED
      BY <2>1, <3>1
  <2>3. stops[n] = t /\ row[n] = Elapsed(cycle, (cycle + t) % CounterSize)
    BY <1>3, <1>4, <2>1
  <2>4. QED
    BY <1>6, <2>1, <2>2, <2>3, WrappedTime
<1>8. RowOf(row, right, len, echoes, jitter)
  <2>1. \A n \in 1..Len(row) : n > len =>
       /\ n - len \in DOMAIN echoes
       /\ \/ row[n] = Echo(echoes[n - len], jitter)
          \/ row[n] = CounterSize - Echo(echoes[n - len], jitter)
    BY <1>2, <1>4, <1>7
  <2>2. \A n \in 1..Len(row) : n > len =>
          (row[n] = Echo(echoes[n - len], jitter) <=> cycle + stops[n] < CounterSize)
    BY <1>2, <1>7
  <2>3. \A e : e \in right <=> \E n \in 1..Len(row) :
       n > len /\ e = echoes[n - len] /\ row[n] = Echo(echoes[n - len], jitter)
    BY <1>2, <1>5, <2>2
  <2>4. QED
    BY <2>1, <2>3, Zenon DEF RowOf
<1>9. right \in SUBSET Nat
  <2>1. \A n \in 1..Len(stops) : n > len => echoes[n - len] \in Nat
    BY <1>1, <1>4
  <2>2. QED
    BY <1>5, <2>1
<1>10. QED
  BY <1>8, <1>9 DEF right, row, stops, len

(* The stops in front are the prefix, as far as the queue goes.            *)
LEMMA PrefixStops ==
  ASSUME NEW prefix \in Seq(Int), NEW echoes \in Echoes, NEW jitter \in Jitter,
         NEW n \in 1..Len(Stops(prefix, echoes, jitter)), n <= Len(prefix)
  PROVE  Stops(prefix, echoes, jitter)[n] = prefix[n]
<1> DEFINE own == [m \in DOMAIN echoes |-> FirstEcho + echoes[m] * Period + jitter]
           all == prefix \o own
<1>1. own \in Seq(Int)
  <2>1. echoes \in Seq(Nat) /\ jitter \in Int
    BY FlightAssumption DEF FlightAssumption
  <2>2. \A m \in 1..Len(echoes) : FirstEcho + echoes[m] * Period + jitter \in Int
    BY <2>1
  <2>3. own \in [1..Len(echoes) -> Int] /\ Len(echoes) \in Nat
    BY <2>1, <2>2
  <2>4. QED
    BY <2>3
<1>2. Stops(prefix, echoes, jitter) =
        IF Len(all) <= STOP_QUEUE_LENGTH THEN all ELSE SubSeq(all, 1, STOP_QUEUE_LENGTH)
  BY Zenon DEF Stops, own
<1> HIDE DEF own
<1>3. all \in Seq(Int) /\ Len(all) \in Nat /\ n \in 1..Len(prefix) /\ all[n] = prefix[n]
  <2>1. all \in Seq(Int) /\ Len(all) = Len(prefix) + Len(own) /\ Len(prefix) \in Nat /\ Len(own) \in Nat
    BY <1>1, ConcatOfInts
  <2>2. n \in 1..Len(prefix)
    BY <2>1
  <2>3. QED
    BY <1>1, <2>1, <2>2
<1> HIDE DEF all
<1>4. CASE Len(all) <= STOP_QUEUE_LENGTH
  BY <1>2, <1>3, <1>4
<1>5. CASE ~(Len(all) <= STOP_QUEUE_LENGTH)
  <2>1. STOP_QUEUE_LENGTH \in 1..Len(all)
    BY <1>3, <1>5
  <2>2. \A m \in 1..STOP_QUEUE_LENGTH : all[m] \in Int
    BY <1>3, <2>1, ElementOfSeq
  <2>3. /\ Len(SubSeq(all, 1, STOP_QUEUE_LENGTH)) = STOP_QUEUE_LENGTH
        /\ \A m \in 1..STOP_QUEUE_LENGTH : SubSeq(all, 1, STOP_QUEUE_LENGTH)[m] = all[m]
    BY <1>3, <2>1, <2>2, SubSeqProperties
  <2>4. QED
    BY <1>2, <1>3, <1>5, <2>3
<1>6. QED
  BY <1>4, <1>5

(* A stop before the start is timed right, or late by all of the counter.  *)
LEMMA LeftoverTime ==
  ASSUME NEW c \in 0..(CounterSize - 1), NEW t \in Int, t < 0, -t < CounterSize
  PROVE  Elapsed(c, (c + t) % CounterSize) = -t \/ Elapsed(c, (c + t) % CounterSize) = CounterSize - (-t)
<1>1. CASE c + t >= 0
  <2>1. c + t \in 0..(CounterSize - 1)
    BY <1>1
  <2>2. (c + t) % CounterSize = c + t
    BY <2>1
  <2>3. QED
    BY <2>1, <2>2 DEF Elapsed
<1>2. CASE c + t < 0
  <2>1. c + t + CounterSize \in 0..(CounterSize - 1) /\ c + t = (-1) * CounterSize + (c + t + CounterSize)
    BY <1>2
  <2>2. (c + t) % CounterSize = c + t + CounterSize
    BY <2>1
  <2>3. QED
    BY <1>2, <2>2 DEF Elapsed
<1>3. QED
  BY <1>1, <1>2

LEMMA SpuriousTime ==
  ASSUME NEW c \in 0..(CounterSize - 1), NEW t \in Nat, t < CounterSize
  PROVE  Elapsed(c, (c + t) % CounterSize) = t \/ Elapsed(c, (c + t) % CounterSize) = CounterSize - t
<1>1. CASE c + t < CounterSize
  <2>1. (c + t) % CounterSize = c + t
    BY <1>1
  <2>2. QED
    BY <1>1, <2>1 DEF Elapsed
<1>2. CASE ~(c + t < CounterSize)
  <2>1. c + t - CounterSize \in 0..(CounterSize - 1) /\ c + t = 1 * CounterSize + (c + t - CounterSize)
    BY <1>2
  <2>2. (c + t) % CounterSize = c + t - CounterSize
    BY <2>1
  <2>3. QED
    BY <1>2, <2>2 DEF Elapsed
<1>3. QED
  BY <1>1, <1>2

(* Half the counter is more than the true time of the first echo.          *)
LEMMA FirstEchoIsEarly ==
  ASSUME NEW echoes \in Echoes, NEW jitter \in Jitter, echoes # <<>>
  PROVE  2 * FirstEcho < CounterSize
<1>1. echoes \in Seq(Nat) /\ 1 \in DOMAIN echoes
  <2>1. echoes \in Seq(Nat)
    BY FlightAssumption DEF FlightAssumption
  <2>2. QED
    BY <2>1
<1>2. PICK e \in Nat, p \in Nat, q \in Nat :
        /\ p = e * Period /\ q = STOP_QUEUE_LENGTH * Period /\ q >= Period
        /\ Echo(e, jitter) \in Int /\ 2 * (Echo(e, jitter) + q) < CounterSize
        /\ jitter \in Int /\ -4 * jitter < Period
  <2>1. STOP_QUEUE_LENGTH * Period \in Nat /\ STOP_QUEUE_LENGTH * Period >= Period
    <3>1. (STOP_QUEUE_LENGTH - 1) * Period \in Nat
          /\ (STOP_QUEUE_LENGTH - 1) * Period = STOP_QUEUE_LENGTH * Period - Period
      OBVIOUS
    <3>2. QED
      BY <3>1
  <2>2. QED
    BY <1>1, <2>1, EchoesAreEarly
<1>3. Echo(e, jitter) = FirstEcho + p + jitter
  BY <1>2 DEF Echo
<1>4. QED
  BY <1>2, <1>3

(* Of a pulse without foreign stops the first echo is timed right, or none *)
(* is, since a wrap before the first is before all.                        *)
LEMMA FirstOrNone ==
  ASSUME NEW echoes \in Echoes, NEW jitter \in Jitter, NEW n \in DOMAIN echoes
  PROVE  Echo(echoes[1], jitter) <= Echo(echoes[n], jitter)
<1>1. echoes \in Seq(Nat) /\ DOMAIN echoes = 1..Len(echoes) /\ Len(echoes) \in Nat
  BY FlightAssumption DEF FlightAssumption
<1>2. 1 \in DOMAIN echoes /\ n \in Nat
  BY <1>1
<1>3. echoes[1] <= echoes[n]
  <2>1. n = 1 \/ 1 < n
    BY <1>1
  <2>2. 1 < n => echoes[1] < echoes[n]
    BY <1>2, EchoAssumption DEF EchoAssumption
  <2>3. echoes[1] \in Nat /\ echoes[n] \in Nat
    BY <1>1, <1>2
  <2>4. QED
    BY <2>1, <2>2, <2>3
<1>4. PICK e \in Nat, d \in Nat : e = echoes[1] /\ echoes[n] = e + d
  <2>1. echoes[1] \in Nat /\ echoes[n] \in Nat
    BY <1>1, <1>2
  <2>2. echoes[n] - echoes[1] \in Nat /\ echoes[n] = echoes[1] + (echoes[n] - echoes[1])
    BY <1>3, <2>1
  <2>3. QED
    BY <2>1, <2>2
<1>5. (e + d) * Period = e * Period + d * Period /\ e * Period \in Nat /\ d * Period \in Nat
  OBVIOUS
<1>6. jitter \in Int
  BY FlightAssumption DEF FlightAssumption
<1>7. QED
  BY <1>4, <1>5, <1>6 DEF Echo

LEMMA Reversed ==
  ASSUME NEW t \in Int, NEW u \in Int, NEW d \in Int, u + d <= t
  PROVE  -t + d <= -u
OBVIOUS

LEMMA PulseForeign ==
  ASSUME Typed, NEW prefix \in Seq(Int), NEW echoes \in Echoes, NEW jitter \in Jitter,
         prefix \in Prefixes \cup {<<>>}
  PROVE  LET stops == Stops(prefix, echoes, jitter)
         IN  Foreign(Times(stops), Right(prefix, echoes, stops), Len(prefix), echoes, jitter)
<1> DEFINE stops == Stops(prefix, echoes, jitter)
           row == Times(stops)
           right == Right(prefix, echoes, stops)
           len == Len(prefix)
<1>1. /\ echoes \in Seq(Nat) /\ echoes # <<>> /\ jitter \in Int /\ len \in Nat
      /\ DOMAIN prefix = 1..len /\ \A n \in 1..len : prefix[n] \in Int
  BY FlightAssumption DEF FlightAssumption
<1>2. /\ stops \in Seq(Int) /\ Len(row) = Len(stops) /\ DOMAIN stops = 1..Len(stops)
      /\ 1 \in 1..Len(stops)
  <2>1. stops \in Seq(Int) /\ Len(stops) \in 1..STOP_QUEUE_LENGTH
    BY <1>1, StopsHaveType
  <2> HIDE DEF stops
  <2>2. QED
    BY <2>1, TimesHaveType
<1>3. \A n \in 1..Len(stops) : row[n] = Elapsed(cycle, (cycle + stops[n]) % CounterSize)
  BY <1>2 DEF Times
<1>4. \A n \in 1..Len(stops) : n > len =>
        n - len \in DOMAIN echoes /\ stops[n] = Echo(echoes[n - len], jitter)
  BY OwnStops
<1>5. \A n \in 1..Len(stops) : n <= len => stops[n] = prefix[n]
  BY PrefixStops
<1>6. \A e : e \in right => \E n \in 1..Len(stops) : n > len /\ cycle + stops[n] < CounterSize
  BY <1>2 DEF Right
<1> SUFFICES Foreign(row, right, len, echoes, jitter)
  BY Zenon DEF stops, row, right, len
<1> HIDE DEF stops, row, right, len
<1>7. cycle \in 0..(CounterSize - 1)
  BY DEF Typed
<1>8. CASE prefix = <<>>
  <2>1. len = 0
    BY <1>8 DEF len
  <2>2. \A n \in 1..Len(stops) : n \in DOMAIN echoes /\ stops[n] = Echo(echoes[n], jitter)
    <3>1. \A n \in 1..Len(stops) : n > 0 /\ n - 0 = n
      OBVIOUS
    <3>2. QED
      BY <1>4, <2>1, <3>1
  <2>3. PICK t \in Int : t = Echo(echoes[1], jitter) /\ 0 < t /\ 2 * t < CounterSize
    <3>1. STOP_QUEUE_LENGTH * Period \in Nat
      OBVIOUS
    <3>2. PICK t \in Int : t = Echo(echoes[1], jitter) /\ t > 10 * Period
                           /\ 2 * (t + STOP_QUEUE_LENGTH * Period) < CounterSize
      BY <1>2, <2>2, EchoesAreEarly
    <3>3. QED
      BY <3>1, <3>2
  <2>4. CASE cycle + t < CounterSize
    <3>1. row[1] = t
      BY <1>2, <1>3, <1>7, <2>2, <2>3, <2>4, WrappedTime
    <3>2. QED
      BY <2>1, <2>3, <3>1 DEF Foreign
  <2>5. CASE ~(cycle + t < CounterSize)
    <3>1. right = {}
      <4>1. SUFFICES ASSUME NEW e \in right PROVE FALSE
        OBVIOUS
      <4>2. PICK n \in 1..Len(stops) : cycle + stops[n] < CounterSize
        BY <1>6
      <4>3. PICK u \in Int : u = stops[n] /\ t <= u
        <5>1. Echo(echoes[1], jitter) <= Echo(echoes[n], jitter)
          BY <2>2, <4>2, FirstOrNone
        <5>2. stops[n] \in Int
          BY <1>2, <4>2
        <5>3. QED
          BY <2>2, <2>3, <4>2, <5>1, <5>2
      <4>4. QED
        BY <1>7, <2>3, <2>5, <4>2, <4>3
    <3>2. QED
      BY <2>1, <3>1 DEF Foreign
  <2>6. QED
    BY <2>4, <2>5
<1>9. CASE len = 1 /\ prefix[1] \in 0..(FirstEcho - 1)
  <2>1. PICK t \in 0..(FirstEcho - 1) : t = prefix[1]
    BY <1>9
  <2>2. stops[1] = t
    BY <1>2, <1>5, <1>9, <2>1
  <2>3. t \in Nat /\ t < CounterSize
    <3>1. 2 * FirstEcho < CounterSize
      BY <1>1, FirstEchoIsEarly
    <3>2. QED
      BY <2>1, <3>1
  <2>4. row[1] = t \/ row[1] = CounterSize - t
    BY <1>2, <1>3, <1>7, <2>2, <2>3, SpuriousTime
  <2>5. QED
    BY <1>9, <2>4 DEF Foreign
<1>10. CASE prefix \in Prefixes /\ prefix # <<>> /\ ~(len = 1 /\ prefix[1] \in 0..(FirstEcho - 1))
  <2> DEFINE age == [n \in 1..len |-> -prefix[n]]
  <2>1. \A n \in 1..len :
          /\ \A m \in 1..len : m < n => prefix[m] + Period <= prefix[n]
          /\ prefix[n] < 0 /\ 2 * (11 * Period - prefix[n]) <= CounterSize
          /\ \A es \in Echoes, jit \in Jitter : \A m \in DOMAIN es :
               FirstEcho + (es[m] + STOP_QUEUE_LENGTH + 11) * Period + jit < -prefix[n]
    BY <1>1, <1>10, PrefixAssumption DEF PrefixAssumption, len
  <2>2. ASSUME NEW n \in 1..len PROVE age[n] \in Nat /\ Aged(age[n])
    <3>1. PICK t \in Int : t = prefix[n] /\ t < 0
      BY <1>1, <2>1
    <3>2. PICK a \in Nat : a = -t /\ t = -a
      BY <3>1
    <3>3. age[n] = a
      BY <3>1, <3>2
    <3>4. 2 * (a + 11 * Period) <= CounterSize
      <4>1. 2 * (11 * Period - t) <= CounterSize
        BY <2>1, <3>1
      <4>2. QED
        BY <3>1, <3>2, <4>1
    <3>5. ASSUME NEW es \in Echoes, NEW jit \in Jitter, NEW m \in DOMAIN es
          PROVE  Echo(es[m], jit) + STOP_QUEUE_LENGTH * Period + 11 * Period < a
      <4>1. PICK e \in Nat : e = es[m]
        BY EchoesAreEarly
      <4>2. PICK p \in Int, q \in Int : p = e * Period /\ q = STOP_QUEUE_LENGTH * Period
                                        /\ (e + STOP_QUEUE_LENGTH + 11) * Period = p + q + 11 * Period
        BY <4>1
      <4>3. jit \in Int
        BY EchoesAreEarly
      <4>4. FirstEcho + (e + STOP_QUEUE_LENGTH + 11) * Period + jit < -t
        BY <2>1, <3>1, <4>1
      <4>5. FirstEcho + (p + q + 11 * Period) + jit < a
        BY <3>2, <4>2, <4>4
      <4>6. Echo(es[m], jit) = FirstEcho + p + jit
        BY <4>1, <4>2 DEF Echo
      <4>7. QED
        BY <3>2, <4>2, <4>3, <4>5, <4>6
    <3>6. Aged(a)
      BY <3>4, <3>5 DEF Aged
    <3>7. QED
      BY <3>2, <3>3, <3>6
  <2>3. ASSUME NEW n \in 1..len, NEW m \in 1..len, m < n PROVE age[n] + Period <= age[m]
    <3>1. PICK t \in Int, u \in Int : t = prefix[n] /\ u = prefix[m]
      BY <1>1
    <3>2. u + Period <= t
      BY <2>1, <2>3, <3>1
    <3>3. age[n] = -t /\ age[m] = -u
      BY <3>1
    <3>4. t \in Int /\ u \in Int /\ Period \in Int
      BY <3>1
    <3> HIDE DEF age
    <3>5. -t + Period <= -u
      BY ONLY <3>2, <3>4, Reversed
    <3>6. QED
      BY <3>3, <3>5
  <2>4. ASSUME NEW n \in 1..Len(row), n <= len
        PROVE  row[n] = age[n] \/ row[n] = CounterSize - age[n]
    <3>1. n \in 1..len /\ n \in 1..Len(stops)
      BY <1>1, <1>2, <2>4
    <3>2. PICK t \in Int : t = prefix[n] /\ t = stops[n] /\ age[n] = -t /\ t < 0
      BY <1>1, <1>5, <2>1, <2>4, <3>1
    <3>3. -t < CounterSize
      <4>1. 2 * (11 * Period - t) <= CounterSize
        BY <2>1, <3>1, <3>2
      <4>2. PICK a \in Nat : a = -t
        BY <3>2
      <4>3. 2 * (11 * Period + a) <= CounterSize
        BY <3>2, <4>1, <4>2
      <4>4. a < CounterSize
        BY <4>2, <4>3
      <4>5. QED
        BY <4>2, <4>4
    <3>4. row[n] = -t \/ row[n] = CounterSize - (-t)
      BY <1>3, <1>7, <3>1, <3>2, <3>3, LeftoverTime
    <3>5. QED
      BY <3>2, <3>4
  <2>5. Leftovers(row, len, age)
    BY <2>2, <2>3, <2>4 DEF Leftovers
  <2>6. len > 0
    BY <1>1, <1>10, EmptySeq DEF len
  <2>7. QED
    BY <2>5, <2>6, Zenon DEF Foreign
<1>11. QED
  BY <1>8, <1>9, <1>10

LEMMA RowsKnownInit == Init => RowsKnown
<1> SUFFICES ASSUME Init PROVE RowsKnown
  OBVIOUS
<1>1. times = <<>> /\ heard = <<>>
  BY DEF Init
<1>2. QED
  BY <1>1 DEF RowsKnown

LEMMA RowsKnownPulse == Typed /\ RowsKnown /\ Pulse => RowsKnown'
<1> SUFFICES ASSUME Typed, RowsKnown, Pulse PROVE RowsKnown'
  OBVIOUS
<1>1. PICK echoes \in Echoes, jitter \in Jitter,
           prefix \in IF times = <<>> THEN Prefixes ELSE {<<>>} :
        LET stops == Stops(prefix, echoes, jitter)
        IN  /\ times' = Append(times, Times(stops))
            /\ heard' = Append(heard, Right(prefix, echoes, stops))
  BY DEF Pulse
<1>2. /\ prefix \in Seq(Int) /\ prefix \in Prefixes \cup {<<>>}
      /\ times # <<>> => Len(prefix) = 0
  <2>1. Prefixes \subseteq Seq(Int) /\ <<>> \in Seq(Int) /\ Len(<<>>) = 0
    BY FlightAssumption DEF FlightAssumption
  <2>2. QED
    BY <1>1, <2>1
<1> DEFINE row == Times(Stops(prefix, echoes, jitter))
           right == Right(prefix, echoes, Stops(prefix, echoes, jitter))
           len == Len(prefix)
<1>3. /\ RowOf(row, right, len, echoes, jitter) /\ right \in SUBSET Nat
      /\ Foreign(row, right, len, echoes, jitter)
  BY <1>2, PulseRow, PulseForeign, Zenon
<1>4. times' = Append(times, row) /\ heard' = Append(heard, right)
  BY <1>1, Zenon
<1>5. len \in Nat /\ (Len(times) # 0 => len = 0)
  BY <1>2
<1> HIDE DEF row, right, len
<1>6. /\ times \in Seq(Seq(Int)) /\ heard \in Seq(SUBSET Nat) /\ Len(heard) = Len(times)
      /\ \A r \in 1..Len(times) : \E l \in Nat, es \in Echoes, jit \in Jitter :
           /\ r # 1 => l = 0
           /\ RowOf(times[r], heard[r], l, es, jit) /\ Foreign(times[r], heard[r], l, es, jit)
  BY DEF Typed, RowsKnown
<1>7. heard' \in Seq(SUBSET Nat) /\ Len(heard') = Len(times') /\ Len(times') = Len(times) + 1
  <2>1. Len(times') = Len(times) + 1
    BY <1>4, <1>6
  <2>2. heard' \in Seq(SUBSET Nat) /\ Len(heard') = Len(heard) + 1
    BY <1>3, <1>4, <1>6
  <2>3. QED
    BY <1>6, <2>1, <2>2
<1>8. ASSUME NEW r \in 1..Len(times')
      PROVE  \E l \in Nat, es \in Echoes, jit \in Jitter :
               /\ r # 1 => l = 0
               /\ RowOf(times'[r], heard'[r], l, es, jit) /\ Foreign(times'[r], heard'[r], l, es, jit)
  <2>1. CASE r = Len(times) + 1
    <3>1. times'[r] = row /\ heard'[r] = right
      BY <1>4, <1>6, <2>1
    <3>2. r # 1 => len = 0
      BY <1>5, <1>6, <2>1
    <3>3. QED
      BY <1>3, <1>5, <3>1, <3>2
  <2>2. CASE r # Len(times) + 1
    <3>1. r \in 1..Len(times)
      BY <1>6, <1>7, <2>2
    <3>2. times'[r] = times[r]
      BY <1>4, <1>6, <3>1
    <3>3. heard'[r] = heard[r]
      BY <1>4, <1>6, <3>1
    <3>4. QED
      BY <1>6, <3>1, <3>2, <3>3
  <2>3. QED
    BY <2>1, <2>2
<1>9. QED
  BY <1>7, <1>8, Zenon DEF RowsKnown
-----------------------------------------------------------------------------
(* The cells of the rows, and those whose times a bucket has been given.   *)
Cells == (1..N) \X (1..STOP_QUEUE_LENGTH)
At(c) == times[c[1]][c[2]]
CountedIn(k) ==
  {c \in Cells : /\ c[2] <= Len(times[c[1]])
                 /\ c[1] < j \/ (c[1] = j /\ c[2] < i)
                 /\ At(c) # 0 /\ In(k, At(c))}

(* A bucket's count is the number of its cells, and what it accumulates is *)
(* bounded by what bounds each of their times.                             *)
CountsExact ==
  pc # "pulses" => \A k \in Bucket : count[k] = Cardinality(CountedIn(k))

SumsBounded ==
  pc # "pulses" => \A k \in Bucket : \A low \in Int, high \in Int :
    (\A c \in CountedIn(k) : low <= At(c) /\ At(c) <= high)
      => low * count[k] <= timeAccumulated[k] /\ timeAccumulated[k] <= high * count[k]

(* The loops run from the first cell to behind the last row. *)
LoopsRun ==
  /\ pc = "pulses" => j = 1 /\ i = 1
  /\ pc # "done" => timeOfFlight.kind = "none"
  /\ pc = "buckets" => ~NoBuckets
  /\ pc = "done" /\ NoBuckets => timeOfFlight = [kind |-> "time", num |-> 0, den |-> 1]
  /\ pc = "done" /\ ~NoBuckets => j = N + 1 /\ timeOfFlight = Result

LEMMA CellsAreFinite ==
  ASSUME NEW k
  PROVE  IsFiniteSet(CountedIn(k))
<1>1. IsFiniteSet(1..N) /\ IsFiniteSet(1..STOP_QUEUE_LENGTH)
  BY FS_Interval
<1>2. IsFiniteSet(Cells)
  BY <1>1, FS_Product DEF Cells
<1>3. CountedIn(k) \in SUBSET Cells
  BY DEF CountedIn
<1>4. QED
  BY <1>2, <1>3, FS_Subset

LEMMA OneBucketAtMost ==
  ASSUME Typed, pc # "pulses", NEW k \in Bucket, NEW l \in Bucket, NEW t \in Int,
         In(k, t), In(l, t)
  PROVE  k = l
<1>1. first \in Int
  BY RowsAreThere
<1>2. k \in Int /\ l \in Int
  BY DEF Bucket
<1>3. PICK p \in Int, q \in Int : p = (k - 10) * Period /\ q = (l - 10) * Period /\ p - q = (k - l) * Period
  BY <1>2
<1>4. p - q < Period /\ q - p < Period
  BY <1>1, <1>3 DEF In, Centre
<1>5. k - l >= 1 => (k - l) * Period >= Period
  BY <1>2
<1>6. l - k >= 1 => (l - k) * Period >= Period
  BY <1>2
<1>7. (l - k) * Period = q - p
  BY <1>2, <1>3
<1>8. ~ (k - l >= 1) /\ ~ (l - k >= 1)
  BY <1>3, <1>4, <1>5, <1>6, <1>7
<1>9. QED
  BY <1>2, <1>8

(* The cell at hand is not counted yet. *)
LEMMA CellAtHand ==
  ASSUME Typed, pc = "buckets", j <= N, i <= Len(times[j])
  PROVE  /\ <<j, i>> \in Cells /\ \A k : <<j, i>> \notin CountedIn(k)
         /\ times[j][i] \in Int
<1>1. j \in 1..N /\ times \in Seq(Seq(Int)) /\ Len(times) = N
  BY DEF Typed
<1>2. Len(times[j]) \in 1..STOP_QUEUE_LENGTH /\ i \in 1..Len(times[j]) /\ times[j] \in Seq(Int)
  <2>1. j \in DOMAIN times
    BY <1>1
  <2>2. QED
    BY <2>1, <1>1 DEF Typed
<1>3. <<j, i>> \in Cells
  BY <1>1, <1>2 DEF Cells
<1>4. \A k : <<j, i>> \notin CountedIn(k)
  <2>1. ~(j < j) /\ ~(i < i)
    BY <1>1, <1>2
  <2>2. QED
    BY <2>1 DEF CountedIn
<1>5. QED
  BY <1>2, <1>3, <1>4

LEMMA NextCell ==
  ASSUME NEW a \in Int, NEW b \in Int, NEW x \in Int, NEW y \in Int
  PROVE  (x < a \/ (x = a /\ y < b + 1)) <=> ((x < a \/ (x = a /\ y < b)) \/ (x = a /\ y = b))
OBVIOUS

(* One step of the loops adds the cell at hand to the bucket it is in. *)
LEMMA CountedGrows ==
  ASSUME Typed, pc = "buckets", j <= N, i <= Len(times[j]),
         UNCHANGED <<times, j>>, i' = i + 1, NEW k
  PROVE  CountedIn(k)' = IF times[j][i] # 0 /\ In(k, times[j][i])
                         THEN CountedIn(k) \cup {<<j, i>>} ELSE CountedIn(k)
<1>1. j \in Int /\ i \in Int
  BY DEF Typed
<1>2. \A c \in Cells : c[1] \in Int /\ c[2] \in Int /\ c = <<c[1], c[2]>>
  BY DEF Cells
<1>3. \A c \in Cells : /\ (At(c))' = At(c)
                       /\ In(k, At(c))' <=> In(k, At(c))
                       /\ Len(times[c[1]])' = Len(times[c[1]])
  BY DEF At, In, Centre, first
<1>4. \A c \in Cells : (c[1] < j \/ (c[1] = j /\ c[2] < i))' <=>
                         ((c[1] < j \/ (c[1] = j /\ c[2] < i)) \/ c = <<j, i>>)
  <2>1. TAKE c \in Cells
  <2>2. (c[1] < j \/ (c[1] = j /\ c[2] < i + 1)) <=>
          ((c[1] < j \/ (c[1] = j /\ c[2] < i)) \/ (c[1] = j /\ c[2] = i))
    <3>1. PICK x \in Int, y \in Int : x = c[1] /\ y = c[2]
      BY <1>2
    <3>2. (x < j \/ (x = j /\ y < i + 1)) <=> ((x < j \/ (x = j /\ y < i)) \/ (x = j /\ y = i))
      BY <1>1, <3>1, NextCell
    <3>3. QED
      BY <3>1, <3>2
  <2>3. (c[1] = j /\ c[2] = i) <=> c = <<j, i>>
    BY <1>2
  <2>4. QED
    BY <2>2, <2>3
<1>5. At(<<j, i>>) = times[j][i] /\ <<j, i>> \in Cells /\ i <= Len(times[j])
  BY CellAtHand DEF At
<1>6. \A c \in Cells : c \in CountedIn(k)' <=>
        (c \in CountedIn(k) \/ (c = <<j, i>> /\ times[j][i] # 0 /\ In(k, times[j][i])))
  <2>1. TAKE c \in Cells
  <2>2. c \in CountedIn(k)' <=>
          /\ c[2] <= Len(times[c[1]])
          /\ (c[1] < j \/ (c[1] = j /\ c[2] < i)) \/ c = <<j, i>>
          /\ At(c) # 0 /\ In(k, At(c))
    BY <1>3, <1>4 DEF CountedIn, Cells
  <2>3. c \in CountedIn(k) <=>
          /\ c[2] <= Len(times[c[1]])
          /\ c[1] < j \/ (c[1] = j /\ c[2] < i)
          /\ At(c) # 0 /\ In(k, At(c))
    BY DEF CountedIn
  <2>4. c = <<j, i>> => c[2] <= Len(times[c[1]]) /\ At(c) = times[j][i]
    BY <1>5
  <2>5. QED
    BY <2>2, <2>3, <2>4
<1>7. CountedIn(k)' \subseteq Cells /\ CountedIn(k) \subseteq Cells
  BY DEF CountedIn, Cells
<1>8. QED
  BY <1>5, <1>6, <1>7

LEMMA OneTermMore ==
  ASSUME NEW low \in Int, NEW high \in Int, NEW n \in Nat, NEW sum \in Int, NEW t \in Int,
         low * n <= sum, sum <= high * n, low <= t, t <= high
  PROVE  low * (n + 1) <= sum + t /\ sum + t <= high * (n + 1)
<1>1. \A b \in Int : b * (n + 1) = b * n + b /\ b * n \in Int
  OBVIOUS
<1>2. PICK p \in Int, q \in Int : p = low * n /\ q = high * n
  BY <1>1
<1>3. low * (n + 1) = p + low /\ high * (n + 1) = q + high
  BY <1>1, <1>2
<1>4. p + low <= sum + t /\ sum + t <= q + high
  BY <1>2
<1>5. QED
  BY <1>3, <1>4

LEMMA CountedAccumulate ==
  Typed /\ CountsExact /\ SumsBounded /\ Accumulate => CountsExact' /\ SumsBounded'
<1> SUFFICES ASSUME Typed, CountsExact, SumsBounded, Accumulate
             PROVE  CountsExact' /\ SumsBounded'
  OBVIOUS
<1> DEFINE t == times[j][i]
<1>1. pc = "buckets" /\ j <= N /\ i <= Len(times[j]) /\ UNCHANGED <<pc, times, j>> /\ i' = i + 1
  BY DEF Accumulate
<1>2. PICK l \in Bucket :
        /\ t # 0 /\ In(l, t)
        /\ count' = [count EXCEPT ![l] = @ + 1]
        /\ timeAccumulated' = [timeAccumulated EXCEPT ![l] = @ + t]
  BY DEF Accumulate
<1>3. t \in Int /\ <<j, i>> \in Cells /\ \A k : <<j, i>> \notin CountedIn(k)
  BY <1>1, CellAtHand
<1>4. \A k \in Bucket : In(k, t) => k = l
  BY <1>1, <1>2, <1>3, OneBucketAtMost
<1>5. CountedIn(l)' = CountedIn(l) \cup {<<j, i>>}
  BY <1>1, <1>2, CountedGrows
<1>6. \A k \in Bucket : k # l => CountedIn(k)' = CountedIn(k)
  BY <1>1, <1>4, CountedGrows
<1>7. \A c : (At(c))' = At(c)
  BY <1>1 DEF At
<1>8. At(<<j, i>>) = t
  BY DEF At
<1> HIDE DEF t
<1>9. /\ \A k \in Bucket : count[k] \in Nat /\ timeAccumulated[k] \in Int
      /\ count'[l] = count[l] + 1 /\ timeAccumulated'[l] = timeAccumulated[l] + t
      /\ \A k \in Bucket : k # l => count'[k] = count[k] /\ timeAccumulated'[k] = timeAccumulated[k]
  <2>1. count \in [Bucket -> Nat] /\ timeAccumulated \in [Bucket -> Int]
    BY DEF Typed
  <2>2. QED
    BY <1>2, <2>1
<1>10. \A k \in Bucket : count[k] = Cardinality(CountedIn(k))
  BY <1>1 DEF CountsExact
<1>11. CountsExact'
  <2>1. Cardinality(CountedIn(l)') = count'[l]
    <3>1. IsFiniteSet(CountedIn(l)) /\ <<j, i>> \notin CountedIn(l)
      BY <1>3, CellsAreFinite
    <3>2. Cardinality(CountedIn(l) \cup {<<j, i>>}) = Cardinality(CountedIn(l)) + 1
      BY <3>1, FS_AddElement
    <3>3. QED
      BY <1>5, <1>9, <1>10, <3>2
  <2>2. \A k \in Bucket : count'[k] = Cardinality(CountedIn(k)')
    BY <1>6, <1>9, <1>10, <2>1
  <2>3. QED
    BY <2>2 DEF CountsExact, Bucket, RELATIVE_TIMES_COUNT
<1>12. SumsBounded'
  <2>1. SUFFICES ASSUME NEW k \in Bucket, NEW low \in Int, NEW high \in Int,
                        \A c \in CountedIn(k)' : low <= (At(c))' /\ (At(c))' <= high
                 PROVE  low * count'[k] <= timeAccumulated'[k] /\ timeAccumulated'[k] <= high * count'[k]
    BY DEF SumsBounded, Bucket, RELATIVE_TIMES_COUNT
  <2>2. (\A c \in CountedIn(k) : low <= At(c) /\ At(c) <= high)
          => low * count[k] <= timeAccumulated[k] /\ timeAccumulated[k] <= high * count[k]
    BY <1>1 DEF SumsBounded
  <2>3. \A c \in CountedIn(k) : low <= At(c) /\ At(c) <= high
    BY <1>5, <1>6, <1>7, <2>1
  <2>4. low * count[k] <= timeAccumulated[k] /\ timeAccumulated[k] <= high * count[k]
    BY <2>2, <2>3
  <2>5. CASE k # l
    BY <1>9, <2>4, <2>5
  <2>6. CASE k = l
    <3>1. low <= t /\ t <= high
      BY <1>5, <1>7, <1>8, <2>1, <2>6
    <3>2. low * (count[k] + 1) <= timeAccumulated[k] + t /\ timeAccumulated[k] + t <= high * (count[k] + 1)
      BY <1>3, <1>9, <2>4, <3>1, OneTermMore
    <3>3. QED
      BY <1>9, <2>6, <3>2
  <2>7. QED
    BY <2>5, <2>6
<1>13. QED
  BY <1>11, <1>12

LEMMA CountedDrop ==
  Typed /\ CountsExact /\ SumsBounded /\ Drop => CountsExact' /\ SumsBounded'
<1> SUFFICES ASSUME Typed, CountsExact, SumsBounded, Drop
             PROVE  CountsExact' /\ SumsBounded'
  OBVIOUS
<1>1. pc = "buckets" /\ j <= N /\ i <= Len(times[j])
      /\ UNCHANGED <<pc, times, j, count, timeAccumulated>> /\ i' = i + 1
  BY DEF Drop
<1>2. \A k \in Bucket : CountedIn(k)' = CountedIn(k)
  <2>1. \A k \in Bucket : ~(times[j][i] # 0 /\ In(k, times[j][i]))
    BY DEF Drop
  <2>2. QED
    BY <1>1, <2>1, CountedGrows
<1>3. \A c : (At(c))' = At(c)
  BY <1>1 DEF At
<1>4. QED
  BY <1>1, <1>2, <1>3 DEF CountsExact, SumsBounded, Bucket, RELATIVE_TIMES_COUNT

LEMMA CountedNextRow ==
  Typed /\ CountsExact /\ SumsBounded /\ NextRow => CountsExact' /\ SumsBounded'
<1> SUFFICES ASSUME Typed, CountsExact, SumsBounded, NextRow
             PROVE  CountsExact' /\ SumsBounded'
  OBVIOUS
<1>1. pc = "buckets" /\ j <= N /\ i > Len(times[j])
      /\ UNCHANGED <<pc, times, count, timeAccumulated>> /\ j' = j + 1 /\ i' = 1
  BY DEF NextRow
<1>2. \A c : (At(c))' = At(c)
  BY <1>1 DEF At
<1>3. Len(times[j]) \in Int /\ j \in Int /\ i \in Int
  <2>1. j \in DOMAIN times
    BY <1>1 DEF Typed
  <2>2. QED
    BY <2>1 DEF Typed
<1>4. ASSUME NEW k \in Bucket PROVE CountedIn(k)' = CountedIn(k)
  <2>1. \A c \in Cells : c[1] \in Int /\ c[2] \in Int /\ c[2] >= 1
    BY DEF Cells
  <2>2. \A c \in Cells : c[2] <= Len(times[c[1]]) =>
          ((c[1] < j + 1 \/ (c[1] = j + 1 /\ c[2] < 1)) <=> (c[1] < j \/ (c[1] = j /\ c[2] < i)))
    <3>1. TAKE c \in Cells
    <3>2. CASE c[1] = j
      BY <1>1, <1>3, <2>1, <3>2
    <3>3. CASE c[1] # j
      BY <1>1, <1>3, <2>1, <3>3
    <3>4. QED
      BY <3>2, <3>3
  <2>3. \A c \in Cells : /\ In(k, At(c))' <=> In(k, At(c))
                         /\ Len(times[c[1]])' = Len(times[c[1]])
    BY <1>1 DEF At, In, Centre, first
  <2>4. \A c \in Cells : c \in CountedIn(k)' <=> c \in CountedIn(k)
    BY <1>1, <1>2, <2>2, <2>3 DEF CountedIn, Cells
  <2>5. CountedIn(k)' \subseteq Cells /\ CountedIn(k) \subseteq Cells
    BY DEF CountedIn, Cells
  <2>6. QED
    BY <2>4, <2>5
<1>5. QED
  BY <1>1, <1>2, <1>4 DEF CountsExact, SumsBounded, Bucket, RELATIVE_TIMES_COUNT

LEMMA CountedFirst ==
  Typed /\ Counting /\ LoopsRun /\ (SetBuckets \/ GiveUp) => CountsExact' /\ SumsBounded'
<1> SUFFICES ASSUME Typed, Counting, LoopsRun, SetBuckets \/ GiveUp
             PROVE  CountsExact' /\ SumsBounded'
  OBVIOUS
<1>1. pc = "pulses" /\ j = 1 /\ i = 1 /\ UNCHANGED <<times, j, i, count, timeAccumulated>>
  BY DEF SetBuckets, GiveUp, LoopsRun
<1>2. count = [k \in Bucket |-> 0] /\ timeAccumulated = [k \in Bucket |-> 0]
  BY <1>1 DEF Counting
<1>3. \A k \in Bucket : count'[k] = 0 /\ timeAccumulated'[k] = 0
  BY <1>1, <1>2
<1>4. \A c \in Cells : ~(c[1] < 1 \/ (c[1] = 1 /\ c[2] < 1))
  BY DEF Cells
<1>5. ASSUME NEW k \in Bucket PROVE CountedIn(k)' = {}
  BY <1>1, <1>4 DEF CountedIn, Cells
<1>6. CountsExact'
  BY <1>3, <1>5, FS_EmptySet DEF CountsExact, Bucket, RELATIVE_TIMES_COUNT
<1>7. \A low \in Int : low * 0 = 0
  OBVIOUS
<1>8. SumsBounded'
  BY <1>3, <1>7 DEF SumsBounded, Bucket, RELATIVE_TIMES_COUNT
<1>9. QED
  BY <1>6, <1>8

SortInv == IInv /\ RowsKnown /\ CountsExact /\ SumsBounded /\ LoopsRun

LEMMA InitSortInv == Init => SortInv
<1> SUFFICES ASSUME Init PROVE SortInv
  OBVIOUS
<1>1. CountsExact /\ SumsBounded /\ LoopsRun
  BY DEF Init, CountsExact, SumsBounded, LoopsRun
<1>2. QED
  BY <1>1, InitIInv, RowsKnownInit DEF SortInv

LEMMA NextSortInv == SortInv /\ [Next]_vars => SortInv'
<1> SUFFICES ASSUME SortInv, [Next]_vars PROVE SortInv'
  OBVIOUS
<1>1. IInv /\ Typed /\ Counting /\ RowsKnown /\ CountsExact /\ SumsBounded /\ LoopsRun
  BY DEF SortInv, IInv
<1>2. IInv'
  BY <1>1, NextIInv
<1>3. CASE Pulse
  <2>1. RowsKnown'
    BY <1>1, <1>3, RowsKnownPulse
  <2>2. pc' = "pulses" /\ j' = j /\ i' = i /\ pc = "pulses" /\ timeOfFlight' = timeOfFlight
    BY <1>3 DEF Pulse
  <2>3. CountsExact' /\ SumsBounded' /\ LoopsRun'
    BY <1>1, <2>2 DEF CountsExact, SumsBounded, LoopsRun
  <2>4. QED
    BY <1>2, <2>1, <2>3 DEF SortInv
<1>4. ASSUME UNCHANGED <<times, heard>> PROVE RowsKnown'
  BY <1>1, <1>4, Zenon DEF RowsKnown
<1>5. CASE SetBuckets \/ GiveUp
  <2>1. UNCHANGED <<times, heard>>
    BY <1>5 DEF SetBuckets, GiveUp
  <2>2. NoBuckets' = NoBuckets
    BY <2>1, Zenon DEF NoBuckets, Centre, first
  <2>3. LoopsRun'
    BY <1>1, <1>5, <2>2 DEF SetBuckets, GiveUp, LoopsRun
  <2>4. QED
    BY <1>1, <1>2, <1>4, <1>5, <2>1, <2>3, CountedFirst DEF SortInv
<1>6. CASE Accumulate \/ Drop \/ NextRow
  <2>1. UNCHANGED <<times, heard, timeOfFlight>> /\ pc = "buckets" /\ pc' = "buckets"
    BY <1>6 DEF Accumulate, Drop, NextRow
  <2>2. NoBuckets' = NoBuckets
    BY <2>1, Zenon DEF NoBuckets, Centre, first
  <2>3. LoopsRun'
    BY <1>1, <2>1, <2>2 DEF LoopsRun
  <2>4. CountsExact' /\ SumsBounded'
    BY <1>1, <1>6, CountedAccumulate, CountedDrop, CountedNextRow
  <2>5. QED
    BY <1>2, <1>4, <2>1, <2>3, <2>4 DEF SortInv
<1>7. CASE Return \/ UNCHANGED vars
  <2>1. UNCHANGED <<times, heard, count, timeAccumulated, j, i>> /\ (pc = "pulses" => pc' = "pulses")
        /\ (pc' = "pulses" => pc = "pulses")
    BY <1>7 DEF Return, vars
  <2>2. Result' = Result /\ NoBuckets' = NoBuckets
    BY <2>1, Zenon DEF Result, index, Full, NoBuckets, Centre, first
  <2>3. LoopsRun'
    <3>1. CASE Return
      <4>1. j = N + 1 /\ ~NoBuckets
        BY <1>1, <3>1 DEF Return, Typed, LoopsRun
      <4>2. QED
        BY <2>1, <2>2, <3>1, <4>1 DEF Return, LoopsRun
    <3>2. CASE UNCHANGED vars
      <4>1. UNCHANGED <<pc, timeOfFlight>>
        BY <3>2 DEF vars
      <4>2. QED
        BY <1>1, <2>1, <2>2, <4>1 DEF LoopsRun
    <3>3. QED
      BY <1>7, <3>1, <3>2
  <2>4. \A k : CountedIn(k)' = CountedIn(k)
    BY <2>1 DEF CountedIn, At, In, Centre, first, Cells
  <2>5. \A c : (At(c))' = At(c)
    BY <2>1 DEF At
  <2>6. CountsExact' /\ SumsBounded'
    BY <1>1, <2>1, <2>4, <2>5 DEF CountsExact, SumsBounded, Bucket, RELATIVE_TIMES_COUNT
  <2>7. QED
    BY <1>2, <1>4, <2>1, <2>3, <2>6 DEF SortInv
<1>8. QED
  BY <1>3, <1>5, <1>6, <1>7 DEF Next
-----------------------------------------------------------------------------
(* Multiples of the period are at least a period apart. *)
LEMMA MultipleOfPeriod ==
  ASSUME NEW m \in Int
  PROVE  /\ m * Period \in Int
         /\ m >= 1 => m * Period >= Period
         /\ m <= -1 => m * Period <= -Period
         /\ m = 0 => m * Period = 0
<1>1. m * Period \in Int
  OBVIOUS
<1>2. ASSUME m >= 1 PROVE m * Period >= Period
  <2>1. (m - 1) * Period \in Nat
    BY <1>2
  <2>2. (m - 1) * Period = m * Period - Period
    OBVIOUS
  <2>3. QED
    BY <1>1, <2>1, <2>2
<1>3. ASSUME m <= -1 PROVE m * Period <= -Period
  <2>1. (-1 - m) * Period \in Nat
    BY <1>3
  <2>2. (-1 - m) * Period = -Period - m * Period
    OBVIOUS
  <2>3. QED
    BY <1>1, <2>1, <2>2
<1>4. QED
  BY <1>1, <1>2, <1>3

(* If the first time is that of echo f, bucket k has the echo f + k - 10,  *)
(* whatever the jitter, and no wrapped time.                               *)
FirstOf(f, jitter) == first = Echo(f, jitter)

LEMMA BucketOfEcho ==
  ASSUME NEW f \in Nat, NEW g \in Jitter, FirstOf(f, g),
         NEW echoes \in Echoes, NEW jitter \in Jitter, NEW n \in DOMAIN echoes,
         NEW k \in Bucket
  PROVE  In(k, Echo(echoes[n], jitter)) <=> echoes[n] = f + k - 10
<1>1. PICK e \in Nat : e = echoes[n]
  BY EchoesAreEarly
<1>2. jitter \in Int /\ 4 * jitter < Period /\ -4 * jitter < Period
  BY EchoesAreEarly
<1>3. g \in Int /\ 4 * g < Period /\ -4 * g < Period
  BY FlightAssumption, EchoAssumption DEF FlightAssumption, EchoAssumption
<1>4. k \in Int
  BY DEF Bucket
<1>5. PICK m \in Int : m = f + k - 10 - e
  BY <1>4
<1>6. Centre(k) - Echo(e, jitter) = m * Period + g - jitter
  <2>1. /\ m * Period = f * Period + (k - 10) * Period - e * Period
        /\ f * Period \in Int /\ (k - 10) * Period \in Int /\ e * Period \in Int
    BY <1>4, <1>5
  <2>2. PICK x \in Int, y \in Int, z \in Int :
          x = f * Period /\ y = (k - 10) * Period /\ z = e * Period /\ m * Period = x + y - z
    BY <2>1
  <2>3. Centre(k) = FirstEcho + x + g + y /\ Echo(e, jitter) = FirstEcho + z + jitter
    BY <2>2 DEF Centre, FirstOf, Echo
  <2>4. Centre(k) - Echo(e, jitter) = x + y - z + g - jitter
    BY <1>2, <1>3, <2>3
  <2>5. QED
    BY <2>2, <2>4
<1>7. Centre(k) \in Int /\ Echo(e, jitter) \in Int
  <2>1. f * Period \in Int /\ (k - 10) * Period \in Int /\ e * Period \in Int
    BY <1>4
  <2>2. QED
    BY <1>2, <1>3, <2>1 DEF Centre, FirstOf, Echo
<1>8. PICK d \in Int : d = m * Period /\ (m >= 1 => d >= Period) /\ (m <= -1 => d <= -Period)
                       /\ (m = 0 => d = 0)
  BY MultipleOfPeriod
<1>9. Centre(k) - Echo(e, jitter) = d + g - jitter /\ Echo(e, jitter) - Centre(k) = jitter - d - g
  BY <1>2, <1>3, <1>6, <1>7, <1>8
<1>10. In(k, Echo(e, jitter)) <=> 2 * (d + g - jitter) < Period /\ 2 * (jitter - d - g) < Period
  BY <1>9 DEF In
<1>11. In(k, Echo(e, jitter)) <=> m = 0
  BY <1>2, <1>3, <1>8, <1>10
<1>12. QED
  BY <1>1, <1>4, <1>5, <1>11

LEMMA WrappedIsBeyond ==
  ASSUME first \in Int, 2 * (first + STOP_QUEUE_LENGTH * Period) < CounterSize,
         NEW echoes \in Echoes, NEW jitter \in Jitter, NEW n \in DOMAIN echoes,
         NEW k \in Bucket
  PROVE  ~In(k, CounterSize - Echo(echoes[n], jitter))
<1>1. PICK q \in Nat : q = STOP_QUEUE_LENGTH * Period /\ q >= Period
  <2>1. (STOP_QUEUE_LENGTH - 1) * Period \in Nat
        /\ (STOP_QUEUE_LENGTH - 1) * Period = STOP_QUEUE_LENGTH * Period - Period
    OBVIOUS
  <2>2. QED
    BY <2>1
<1>2. PICK t \in Int : t = Echo(echoes[n], jitter) /\ 2 * (t + q) < CounterSize
  BY <1>1, EchoesAreEarly
<1>3. first \in Int /\ 2 * (first + q) < CounterSize
  BY <1>1
<1>4. PICK d \in Int : d = (k - 10) * Period /\ d <= q - Period
  <2>1. k \in Int /\ k - 10 <= STOP_QUEUE_LENGTH - 1
    BY DEF Bucket, RELATIVE_TIMES_COUNT
  <2>2. (STOP_QUEUE_LENGTH - 1 - (k - 10)) * Period \in Nat
    BY <2>1
  <2>3. (STOP_QUEUE_LENGTH - 1 - (k - 10)) * Period
          = STOP_QUEUE_LENGTH * Period - Period - (k - 10) * Period
        /\ (k - 10) * Period \in Int
    BY <2>1
  <2>4. QED
    BY <1>1, <2>2, <2>3
<1>5. Centre(k) = first + d
  BY <1>4 DEF Centre
<1>6. ~(2 * ((CounterSize - t) - (first + d)) < Period)
  BY <1>1, <1>2, <1>3, <1>4
<1>7. QED
  BY <1>2, <1>5, <1>6 DEF In

LEMMA NoBucketOfWrapped ==
  ASSUME NEW f \in Nat, NEW g \in Jitter, FirstOf(f, g),
         NEW own \in Echoes, NEW p \in DOMAIN own, f = own[p],
         NEW echoes \in Echoes, NEW jitter \in Jitter, NEW n \in DOMAIN echoes,
         NEW k \in Bucket
  PROVE  ~In(k, CounterSize - Echo(echoes[n], jitter))
<1>1. first \in Int /\ 2 * (first + STOP_QUEUE_LENGTH * Period) < CounterSize
  BY EchoesAreEarly DEF FirstOf
<1>2. QED
  BY <1>1, WrappedIsBeyond

(* When the first time is an echo's, and its bucket's only one of its row, *)
(* it is the first of the row: then no row has stops of other origin.      *)
CleanRow(r) ==
  \E echoes \in Echoes, jitter \in Jitter : RowOf(times[r], heard[r], 0, echoes, jitter)

LEMMA RowsAreClean ==
  ASSUME SortInv, pc # "pulses", FirstIsEcho
  PROVE  \E f \in Nat, g \in Jitter, own \in Echoes :
           /\ FirstOf(f, g) /\ \E p \in DOMAIN own : f = own[p]
           /\ Min(Agreed) - f + 10 \in 0..(RELATIVE_TIMES_COUNT - 7)
           /\ \A r \in 1..N : CleanRow(r)
<1>1. Typed /\ RowsKnown /\ Len(times) = N
  BY DEF SortInv, IInv, Typed
<1>2. PICK f \in heard[1] :
        /\ \E g \in Jitter : first = FirstEcho + f * Period + g
        /\ \A n \in DOMAIN times[1] \ {1} : ~In(10, times[1][n])
        /\ Min(Agreed) - f + 10 \in 0..(RELATIVE_TIMES_COUNT - 7)
  BY DEF FirstIsEcho
<1>3. PICK g \in Jitter : FirstOf(f, g)
  BY <1>2 DEF FirstOf, Echo
<1>4. PICK len \in Nat, own \in Echoes, jitter \in Jitter :
        RowOf(times[1], heard[1], len, own, jitter)
  BY <1>1 DEF RowsKnown
<1>5. PICK n \in 1..Len(times[1]) : n > len /\ f = own[n - len] /\ times[1][n] = Echo(own[n - len], jitter)
  BY <1>4 DEF RowOf
<1>6. n - len \in DOMAIN own /\ f \in Nat
  <2>1. n - len \in DOMAIN own
    BY <1>4, <1>5 DEF RowOf
  <2>2. QED
    BY <1>5, <2>1, EchoesAreEarly
<1>7. In(10, times[1][n])
  <2>1. 10 \in Bucket /\ f = f + 10 - 10
    BY <1>6 DEF Bucket, RELATIVE_TIMES_COUNT
  <2>2. In(10, Echo(own[n - len], jitter))
    BY <1>3, <1>5, <1>6, <2>1, BucketOfEcho
  <2>3. QED
    BY <1>5, <2>2
<1>8. n = 1
  <2>1. DOMAIN times[1] = 1..Len(times[1])
    BY <1>1, RowsAreThere
  <2>2. QED
    BY <1>2, <1>7, <2>1
<1>9. len = 0
  BY <1>5, <1>8
<1>10. ASSUME NEW r \in 1..N PROVE CleanRow(r)
  <2>1. CASE r = 1
    BY <1>4, <1>9, <2>1 DEF CleanRow
  <2>2. CASE r # 1
    BY <1>1, <2>2 DEF CleanRow, RowsKnown
  <2>3. QED
    BY <2>1, <2>2
<1>11. QED
  BY <1>2, <1>3, <1>5, <1>6, <1>10
-----------------------------------------------------------------------------
(* What a clean row puts in bucket k is the echo f + k - 10, once.         *)
LEMMA CleanRowInBucket ==
  ASSUME SortInv, pc # "pulses",
         NEW f \in Nat, NEW g \in Jitter, FirstOf(f, g),
         NEW own \in Echoes, \E p \in DOMAIN own : f = own[p],
         NEW r \in 1..N, NEW echoes \in Echoes, NEW jitter \in Jitter,
         RowOf(times[r], heard[r], 0, echoes, jitter), NEW k \in Bucket
  PROVE  /\ \A n \in 1..Len(times[r]) : In(k, times[r][n]) =>
              /\ n \in DOMAIN echoes /\ echoes[n] = f + k - 10
              /\ times[r][n] = Echo(f + k - 10, jitter) /\ times[r][n] # 0
              /\ f + k - 10 \in heard[r]
         /\ \A n, m \in 1..Len(times[r]) :
              In(k, times[r][n]) /\ In(k, times[r][m]) => n = m
         /\ f + k - 10 \in heard[r] => \E n \in 1..Len(times[r]) : In(k, times[r][n])
<1>1. times[r] \in Seq(Int) /\ DOMAIN times[r] = 1..Len(times[r])
  BY RowsAreThere DEF SortInv, IInv
<1>2. \A n \in 1..Len(times[r]) :
        /\ n \in DOMAIN echoes
        /\ times[r][n] = Echo(echoes[n], jitter) \/ times[r][n] = CounterSize - Echo(echoes[n], jitter)
  <2>1. \A n \in 1..Len(times[r]) : n > 0 /\ n - 0 = n
    OBVIOUS
  <2>2. QED
    BY <2>1 DEF RowOf
<1>3. \A e : e \in heard[r] <=> \E n \in 1..Len(times[r]) :
        e = echoes[n] /\ times[r][n] = Echo(echoes[n], jitter)
  <2>1. \A n \in 1..Len(times[r]) : n > 0 /\ n - 0 = n
    OBVIOUS
  <2>2. QED
    BY <2>1 DEF RowOf
<1>4. ASSUME NEW n \in 1..Len(times[r]), In(k, times[r][n])
      PROVE  /\ echoes[n] = f + k - 10 /\ times[r][n] = Echo(echoes[n], jitter)
             /\ times[r][n] # 0
  <2>1. n \in DOMAIN echoes
    BY <1>2
  <2>2. ~In(k, CounterSize - Echo(echoes[n], jitter))
    BY <2>1, NoBucketOfWrapped
  <2>3. times[r][n] = Echo(echoes[n], jitter)
    BY <1>2, <1>4, <2>2
  <2>4. In(k, Echo(echoes[n], jitter))
    BY <1>4, <2>3
  <2>5. echoes[n] = f + k - 10
    BY <2>1, <2>4, BucketOfEcho
  <2>6. PICK t \in Int : t = Echo(echoes[n], jitter) /\ t > 10 * Period
    BY <2>1, EchoesAreEarly
  <2>7. t # 0
    BY <2>6
  <2>8. QED
    BY <2>3, <2>5, <2>6, <2>7
<1>5. \A n, m \in 1..Len(times[r]) : In(k, times[r][n]) /\ In(k, times[r][m]) => n = m
  <2> SUFFICES ASSUME NEW n \in 1..Len(times[r]), NEW m \in 1..Len(times[r]),
                      In(k, times[r][n]), In(k, times[r][m])
               PROVE  n = m
    OBVIOUS
  <2>1. n \in DOMAIN echoes /\ m \in DOMAIN echoes /\ echoes[n] = echoes[m]
    BY <1>2, <1>4
  <2>3. n < m => echoes[n] < echoes[m]
    BY <2>1, EchoAssumption DEF EchoAssumption
  <2>4. m < n => echoes[m] < echoes[n]
    BY <2>1, EchoAssumption DEF EchoAssumption
  <2>5. echoes[n] \in Nat
    BY <2>1, EchoesAreEarly
  <2>6. ~(n < m) /\ ~(m < n)
    BY <2>1, <2>3, <2>4, <2>5
  <2>7. QED
    BY <2>6
<1>6. ASSUME f + k - 10 \in heard[r] PROVE \E n \in 1..Len(times[r]) : In(k, times[r][n])
  <2>1. PICK n \in 1..Len(times[r]) : f + k - 10 = echoes[n] /\ times[r][n] = Echo(echoes[n], jitter)
    BY <1>3, <1>6
  <2>2. In(k, Echo(echoes[n], jitter))
    BY <1>2, <2>1, BucketOfEcho
  <2>3. QED
    BY <2>1, <2>2
<1>7. QED
  BY <1>2, <1>3, <1>4, <1>5, <1>6

(* So a bucket's count is the number of pulses that heard its echo, and    *)
(* what it accumulates is that echo's time, give or take the jitter.       *)
LEMMA CountIsHearing ==
  ASSUME SortInv, pc = "done", ~NoBuckets,
         NEW f \in Nat, NEW g \in Jitter, FirstOf(f, g),
         NEW own \in Echoes, \E p \in DOMAIN own : f = own[p],
         \A r \in 1..N : CleanRow(r), NEW k \in Bucket
  PROVE  /\ count[k] = Cardinality(Hearing(f + k - 10))
         /\ \A low \in Int, high \in Int :
              (\A jitter \in Jitter : low <= Echo(f + k - 10, jitter) /\ Echo(f + k - 10, jitter) <= high)
                => low * count[k] <= timeAccumulated[k] /\ timeAccumulated[k] <= high * count[k]
<1> DEFINE e == f + k - 10
<1>1. /\ j = N + 1 /\ Typed /\ RowsKnown
      /\ count[k] = Cardinality(CountedIn(k))
      /\ \A low \in Int : \A high \in Int :
           (\A c \in CountedIn(k) : low <= At(c) /\ At(c) <= high)
             => low * count[k] <= timeAccumulated[k] /\ timeAccumulated[k] <= high * count[k]
  BY DEF SortInv, IInv, LoopsRun, CountsExact, SumsBounded
<1>2. DOMAIN heard = 1..N /\ Len(times) = N /\ \A r \in 1..N : Len(times[r]) \in 1..STOP_QUEUE_LENGTH
  <2>1. Len(times) = N /\ heard \in Seq(SUBSET Nat) /\ Len(heard) = N /\ times \in Seq(Seq(Int))
    BY <1>1 DEF Typed, RowsKnown
  <2>2. \A r \in 1..N : Len(times[r]) \in 1..STOP_QUEUE_LENGTH
    <3>1. DOMAIN times = 1..N
      BY <2>1
    <3>2. QED
      BY <1>1, <3>1 DEF Typed
  <2>3. QED
    BY <2>1, <2>2
<1>3. \A r \in 1..N :
        /\ \A n \in 1..Len(times[r]) : In(k, times[r][n]) =>
             /\ times[r][n] # 0 /\ e \in heard[r]
             /\ \E jitter \in Jitter : times[r][n] = Echo(e, jitter)
        /\ \A n, m \in 1..Len(times[r]) : In(k, times[r][n]) /\ In(k, times[r][m]) => n = m
        /\ e \in heard[r] => \E n \in 1..Len(times[r]) : In(k, times[r][n])
  <2>1. TAKE r \in 1..N
  <2>2. PICK echoes \in Echoes, jitter \in Jitter : RowOf(times[r], heard[r], 0, echoes, jitter)
    BY DEF CleanRow
  <2>3. QED
    BY <2>2, CleanRowInBucket
<1> HIDE DEF e
<1>4. \A c : c \in CountedIn(k) <=>
        /\ c \in Cells /\ c[1] \in 1..N /\ c[2] \in 1..Len(times[c[1]])
        /\ times[c[1]][c[2]] # 0 /\ In(k, times[c[1]][c[2]]) /\ c = <<c[1], c[2]>>
  <2>1. \A c \in Cells : c[1] \in 1..N /\ c[2] \in 1..STOP_QUEUE_LENGTH /\ c = <<c[1], c[2]>> /\ c[1] < N + 1
    BY DEF Cells
  <2>2. QED
    BY <1>1, <1>2, <2>1 DEF CountedIn, At
<1> DEFINE row == [c \in CountedIn(k) |-> c[1]]
<1>5. row \in [CountedIn(k) -> Hearing(e)]
  BY <1>2, <1>3, <1>4 DEF Hearing
<1>6. ASSUME NEW c \in CountedIn(k), NEW d \in CountedIn(k), row[c] = row[d] PROVE c = d
  <2>1. c[1] = d[1]
    BY <1>6
  <2>2. PICK r \in 1..N : r = c[1] /\ r = d[1]
    BY <1>4, <2>1
  <2>3. /\ c[2] \in 1..Len(times[r]) /\ In(k, times[r][c[2]]) /\ c = <<r, c[2]>>
        /\ d[2] \in 1..Len(times[r]) /\ In(k, times[r][d[2]]) /\ d = <<r, d[2]>>
    BY <1>4, <2>2
  <2>4. c[2] = d[2]
    BY <1>3, <2>3
  <2>5. QED
    BY <2>3, <2>4
<1>7. \A r \in Hearing(e) : \E c \in CountedIn(k) : row[c] = r
  <2>1. TAKE r \in Hearing(e)
  <2>2. r \in 1..N /\ e \in heard[r]
    BY <1>2 DEF Hearing
  <2>3. PICK n \in 1..Len(times[r]) : In(k, times[r][n]) /\ times[r][n] # 0
    BY <1>3, <2>2
  <2>4. <<r, n>> \in Cells
    BY <1>2, <2>2 DEF Cells
  <2>5. <<r, n>> \in CountedIn(k)
    BY <1>4, <2>2, <2>3, <2>4
  <2>6. QED
    BY <2>5
<1>8. Cardinality(CountedIn(k)) = Cardinality(Hearing(e))
  <2>1. row \in Injection(CountedIn(k), Hearing(e))
    BY <1>5, <1>6, Fun_IsInj
  <2>2. row \in Surjection(CountedIn(k), Hearing(e))
    BY <1>5, <1>7, Fun_IsSurj
  <2>3. QED
    BY <2>1, <2>2, CellsAreFinite, FS_Surjection
<1>9. ASSUME NEW low \in Int, NEW high \in Int,
             \A jitter \in Jitter : low <= Echo(e, jitter) /\ Echo(e, jitter) <= high
      PROVE  low * count[k] <= timeAccumulated[k] /\ timeAccumulated[k] <= high * count[k]
  <2>1. ASSUME NEW c \in CountedIn(k) PROVE low <= At(c) /\ At(c) <= high
    <3>1. PICK r \in 1..N : r = c[1] /\ c[2] \in 1..Len(times[r]) /\ In(k, times[r][c[2]])
      BY <1>4
    <3>2. PICK jitter \in Jitter : times[r][c[2]] = Echo(e, jitter)
      BY <1>3, <3>1
    <3>3. At(c) = Echo(e, jitter)
      BY <3>1, <3>2 DEF At
    <3>4. QED
      BY <1>9, <3>3
  <2>2. QED
    BY <1>1, <2>1
<1>10. QED
  BY <1>1, <1>8, <1>9 DEF e
-----------------------------------------------------------------------------
(* The largest jitter is one, and no jitter is larger. *)
LEMMA MaxJitterBounds ==
  ASSUME Jitter # {}
  PROVE  /\ MaxJitter \in Nat /\ 4 * MaxJitter < Period
         /\ \A jitter \in Jitter : -MaxJitter <= jitter /\ jitter <= MaxJitter
<1> DEFINE Size(jitter) == IF jitter < 0 THEN -jitter ELSE jitter
           Sizes == {Size(jitter) : jitter \in Jitter}
<1>1. \A jitter \in Jitter : jitter \in Int /\ 4 * jitter < Period /\ -4 * jitter < Period
  BY FlightAssumption, EchoAssumption DEF FlightAssumption, EchoAssumption
<1>2. \A s \in Sizes : s \in Nat /\ s <= Period /\ 4 * s < Period
  BY <1>1
<1>3. Sizes # {}
  OBVIOUS
<1>4. PICK m \in {n \in Nat : \A s \in Sizes : s <= n} :
        \A n \in {n \in Nat : \A s \in Sizes : s <= n} : m <= n
  <2>1. Period \in {n \in Nat : \A s \in Sizes : s <= n}
    BY <1>2
  <2>2. {n \in Nat : \A s \in Sizes : s <= n} \in SUBSET Nat /\ {n \in Nat : \A s \in Sizes : s <= n} # {}
    BY <2>1
  <2>3. QED
    BY <2>2, LeastElement
<1>5. m \in Sizes
  <2>1. SUFFICES ASSUME m \notin Sizes PROVE FALSE
    OBVIOUS
  <2>2. \A s \in Sizes : s <= m /\ s # m
    BY <1>4, <2>1
  <2>3. m > 0
    <3>1. PICK s \in Sizes : s \in Nat /\ s <= m /\ s # m
      <4> HIDE DEF Sizes
      <4>1. QED
        BY <1>2, <1>3, <2>2
    <3>2. QED
      BY <1>4, <3>1
  <2>4. m - 1 \in Nat /\ \A s \in Sizes : s <= m - 1
    BY <1>2, <1>4, <2>2, <2>3
  <2>5. m <= m - 1
    BY <1>4, <2>4
  <2>6. QED
    BY <1>4, <2>5
<1>6. MaxJitter \in Sizes /\ \A s \in Sizes : MaxJitter >= s
  <2>1. MaxJitter = CHOOSE x \in Sizes : \A y \in Sizes : x >= y
    BY DEF MaxJitter, Max
  <2>2. m \in Sizes /\ \A y \in Sizes : m >= y
    BY <1>2, <1>4, <1>5
  <2> HIDE DEF Sizes
  <2>3. QED
    BY <2>1, <2>2
<1>7. MaxJitter \in Nat /\ 4 * MaxJitter < Period
  BY <1>2, <1>6
<1>8. ASSUME NEW jitter \in Jitter PROVE -MaxJitter <= jitter /\ jitter <= MaxJitter
  <2>1. MaxJitter >= Size(jitter) /\ jitter \in Int
    BY <1>1, <1>6
  <2>2. QED
    BY <1>7, <2>1
<1>9. QED
  BY <1>7, <1>8

(* The agreed echo: the first that enough pulses heard. *)
LEMMA AgreedIsFirst ==
  ASSUME SortInv, Agreed # {}
  PROVE  /\ Min(Agreed) \in Nat /\ Cardinality(Hearing(Min(Agreed))) >= Quota
         /\ \A e : Cardinality(Hearing(e)) >= Quota => e \in Nat /\ Min(Agreed) <= e
         /\ Jitter # {}
<1>1. heard \in Seq(SUBSET Nat) /\ DOMAIN heard = 1..Len(heard) /\ RowsKnown
  BY DEF SortInv, RowsKnown
<1>2. Agreed \in SUBSET Nat
  BY <1>1 DEF Agreed
<1>3. PICK a \in Agreed : \A e \in Agreed : a <= e
  BY <1>2, LeastElement
<1>4. Min(Agreed) \in Agreed /\ \A e \in Agreed : Min(Agreed) <= e
  BY <1>3 DEF Min
<1>5. ASSUME NEW e, Cardinality(Hearing(e)) >= Quota PROVE e \in Agreed
  <2>1. CASE Hearing(e) = {}
    <3>1. Cardinality(Hearing(e)) = 0
      BY <2>1, FS_EmptySet
    <3>2. QED
      BY <1>5, <3>1
  <2>2. CASE Hearing(e) # {}
    <3>1. \E r \in DOMAIN heard : e \in heard[r]
      BY <2>2 DEF Hearing
    <3>2. QED
      BY <1>5, <3>1 DEF Agreed
  <2>3. QED
    BY <2>1, <2>2
<1>6. Jitter # {}
  <2>1. PICK r \in 1..Len(heard) : Min(Agreed) \in heard[r]
    BY <1>1, <1>4 DEF Agreed
  <2>2. QED
    BY <1>1, <2>1 DEF RowsKnown
<1>7. QED
  BY <1>2, <1>4, <1>5, <1>6 DEF Agreed

(* The first full bucket is that of the agreed echo. *)
LEMMA IndexIsAgreed ==
  ASSUME SortInv, pc = "done", Agreed # {}, FirstIsEcho
  PROVE  /\ timeOfFlight = Result /\ index + 6 \in Bucket
         /\ \A d \in {4, 5, 6} :
              /\ index + d \in Bucket
              /\ count[index + d] = Cardinality(Hearing(Min(Agreed) + d))
              /\ \A low \in Int, high \in Int :
                   (\A jitter \in Jitter : low <= Echo(Min(Agreed) + d, jitter)
                                           /\ Echo(Min(Agreed) + d, jitter) <= high)
                     => /\ low * count[index + d] <= timeAccumulated[index + d]
                        /\ timeAccumulated[index + d] <= high * count[index + d]
<1>1. PICK f \in Nat, g \in Jitter, own \in Echoes :
           /\ FirstOf(f, g) /\ \E p \in DOMAIN own : f = own[p]
           /\ Min(Agreed) - f + 10 \in 0..(RELATIVE_TIMES_COUNT - 7)
           /\ \A r \in 1..N : CleanRow(r)
  BY RowsAreClean
<1> DEFINE a == Min(Agreed)
<1>2. /\ a \in Nat /\ Cardinality(Hearing(a)) >= Quota
      /\ \A e : Cardinality(Hearing(e)) >= Quota => e \in Nat /\ a <= e
  BY AgreedIsFirst
<1> HIDE DEF a
<1>3. a - f + 10 \in 0..(STOP_QUEUE_LENGTH + 3)
  BY <1>1 DEF a, RELATIVE_TIMES_COUNT
<1>4. ~NoBuckets
  <2>1. PICK t \in Int : t = first /\ t > 10 * Period
    BY <1>1, EchoesAreEarly DEF FirstOf
  <2>2. Centre(0) = t - 10 * Period
    BY <2>1 DEF Centre
  <2>3. QED
    BY <2>1, <2>2 DEF NoBuckets
<1>5. \A k \in Bucket :
        /\ count[k] = Cardinality(Hearing(f + k - 10))
        /\ \A low \in Int, high \in Int :
              (\A jitter \in Jitter : low <= Echo(f + k - 10, jitter) /\ Echo(f + k - 10, jitter) <= high)
                => low * count[k] <= timeAccumulated[k] /\ timeAccumulated[k] <= high * count[k]
  BY <1>1, <1>4, CountIsHearing
<1>6. PICK k \in Int : k = a - f + 10
  BY <1>2
<1>7. k \in Full
  <2>1. k \in Bucket /\ f + k - 10 = a
    BY <1>2, <1>3, <1>6 DEF Bucket, RELATIVE_TIMES_COUNT
  <2>2. count[k] >= Quota
    BY <1>2, <1>5, <2>1
  <2>3. QED
    BY <2>1, <2>2 DEF Full
<1>8. \A l \in Full : k <= l
  <2>1. TAKE l \in Full
  <2>2. l \in Bucket /\ count[l] >= Quota /\ l \in Int
    BY DEF Full, Bucket
  <2>3. a <= f + l - 10
    BY <1>2, <1>5, <2>2
  <2>4. QED
    BY <1>2, <1>6, <2>2, <2>3
<1>9. index = k
  <2>1. index \in Full /\ \A l \in Full : index <= l
    BY <1>7, IndexIsFirstFull
  <2>2. index <= k /\ k <= index /\ index \in Int
    BY <1>7, <1>8, <2>1 DEF Full, Bucket
  <2>3. QED
    BY <2>2
<1>10. timeOfFlight = Result
  BY <1>4 DEF SortInv, LoopsRun
<1>11. ASSUME NEW d \in {4, 5, 6} PROVE index + d \in Bucket /\ f + (index + d) - 10 = a + d
  BY <1>2, <1>3, <1>6, <1>9, <1>11 DEF Bucket, RELATIVE_TIMES_COUNT
<1>12. index + 6 \in Bucket
  BY <1>11
<1>13. QED
  BY <1>5, <1>10, <1>11, <1>12 DEF a

(* Bounds of the three means carry over to their mean. *)
LEMMA ProductBound ==
  ASSUME NEW a \in Int, NEW u \in Int, NEW x \in Nat, NEW y \in Nat, NEW z \in Nat
  PROVE  /\ a <= u * x => a * y * z <= (x * y * z) * u
         /\ u * x <= a => (x * y * z) * u <= a * y * z
<1>1. y * z \in Nat /\ u * x \in Int
  OBVIOUS
<1>2. PICK m \in Nat, v \in Int : m = y * z /\ v = u * x
  BY <1>1
<1>3. a <= v => a * m <= v * m
  OBVIOUS
<1>4. v <= a => v * m <= a * m
  OBVIOUS
<1>5. a * m = a * y * z /\ v * m = (x * y * z) * u
  BY <1>2
<1>6. QED
  BY <1>2, <1>3, <1>4, <1>5

LEMMA ThreeMeansBound ==
  ASSUME NEW a \in Int, NEW b \in Int, NEW c \in Int, NEW u \in Int, NEW d \in Int, NEW h \in Int,
         NEW x \in Nat, NEW y \in Nat, NEW z \in Nat,
         (u - Period - d) * x <= a, a <= (u - Period + h) * x,
         (u - d) * y <= b, b <= (u + h) * y,
         (u + Period - d) * z <= c, c <= (u + Period + h) * z
  PROVE  /\ a * y * z + b * x * z + c * x * y <= (3 * x * y * z) * (u + h)
         /\ (3 * x * y * z) * (u - d) <= a * y * z + b * x * z + c * x * y
<1> DEFINE m == x * y * z
<1>1. /\ a * y * z <= m * (u - Period + h) /\ m * (u - Period - d) <= a * y * z
  BY ProductBound
<1>2. /\ b * x * z <= (y * x * z) * (u + h) /\ (y * x * z) * (u - d) <= b * x * z
  BY ProductBound
<1>3. /\ c * x * y <= (z * x * y) * (u + Period + h) /\ (z * x * y) * (u + Period - d) <= c * x * y
  BY ProductBound
<1>4. y * x * z = m /\ z * x * y = m /\ 3 * x * y * z = 3 * m /\ m \in Int
  OBVIOUS
<1>5. a * y * z \in Int /\ b * x * z \in Int /\ c * x * y \in Int
  OBVIOUS
<1> HIDE DEF m
<1>6. /\ m * (u - Period + h) = m * u - m * Period + m * h
      /\ m * (u - Period - d) = m * u - m * Period - m * d
      /\ m * (u + h) = m * u + m * h /\ m * (u - d) = m * u - m * d
      /\ m * (u + Period + h) = m * u + m * Period + m * h
      /\ m * (u + Period - d) = m * u + m * Period - m * d
      /\ (3 * m) * (u + h) = 3 * (m * u) + 3 * (m * h)
      /\ (3 * m) * (u - d) = 3 * (m * u) - 3 * (m * d)
      /\ m * u \in Int /\ m * d \in Int /\ m * h \in Int /\ m * Period \in Int
  BY <1>4
<1>7. QED
  BY <1>1, <1>2, <1>3, <1>4, <1>5, <1>6

(* So does a bound of the times in the three buckets, moved as the buckets *)
(* are, to the result.                                                     *)
LEMMA ResultBetween ==
  ASSUME Typed, timeOfFlight = Result, timeOfFlight.kind = "time",
         \A m \in {4, 5, 6} : index + m \in Bucket,
         NEW v \in Int, NEW d \in Int, NEW h \in Int,
         \A m \in {4, 5, 6} :
           /\ (v + Shift + m * Period - d) * count[index + m] <= timeAccumulated[index + m]
           /\ timeAccumulated[index + m] <= (v + Shift + m * Period + h) * count[index + m]
  PROVE  /\ timeOfFlight.num \in Int /\ timeOfFlight.den \in Nat
         /\ timeOfFlight.num - v * timeOfFlight.den <= h * timeOfFlight.den
         /\ v * timeOfFlight.den - timeOfFlight.num <= d * timeOfFlight.den
<1> DEFINE a == timeAccumulated[index + 4]
           b == timeAccumulated[index + 5]
           c == timeAccumulated[index + 6]
           x == count[index + 4]
           y == count[index + 5]
           z == count[index + 6]
           den == 3 * x * y * z
           sum == ThreeMeans
<1>1. /\ a \in Int /\ b \in Int /\ c \in Int /\ x \in Nat /\ y \in Nat /\ z \in Nat
  BY DEF Typed
<1>2. PICK s \in Int : s = 5 * Period + Shift
  OBVIOUS
<1>3. PICK u \in Int : u = v + s
  BY <1>2
<1>4. /\ (u - Period - d) * x <= a /\ a <= (u - Period + h) * x
      /\ (u - d) * y <= b /\ b <= (u + h) * y
      /\ (u + Period - d) * z <= c /\ c <= (u + Period + h) * z
  <2>1. /\ v + Shift + 4 * Period - d = u - Period - d /\ v + Shift + 4 * Period + h = u - Period + h
        /\ v + Shift + 5 * Period - d = u - d /\ v + Shift + 5 * Period + h = u + h
        /\ v + Shift + 6 * Period - d = u + Period - d /\ v + Shift + 6 * Period + h = u + Period + h
    BY <1>2, <1>3
  <2>2. /\ (v + Shift + 4 * Period - d) * x <= a /\ a <= (v + Shift + 4 * Period + h) * x
        /\ (v + Shift + 5 * Period - d) * y <= b /\ b <= (v + Shift + 5 * Period + h) * y
        /\ (v + Shift + 6 * Period - d) * z <= c /\ c <= (v + Shift + 6 * Period + h) * z
    OBVIOUS
  <2> HIDE DEF a, b, c, x, y, z
  <2>3. QED
    BY <2>1, <2>2
<1>5. /\ timeOfFlight.den = den
      /\ timeOfFlight.num = sum - den * s
  <2>1. /\ Result.den = 3 * count[index + 4] * count[index + 5] * count[index + 6]
        /\ Result.num = ThreeMeans - Result.den * (5 * Period + Shift)
    BY ResultIsFraction
  <2>2. QED
    BY <1>2, <2>1
<1>6. sum = a * y * z + b * x * z + c * x * y
  BY Zenon DEF ThreeMeans
<1> HIDE DEF a, b, c, x, y, z, sum
<1>7. sum <= den * (u + h) /\ den * (u - d) <= sum
  BY <1>1, <1>3, <1>4, <1>6, ThreeMeansBound
<1>8. den \in Nat /\ sum \in Int
  <2>1. a * y * z \in Int /\ b * x * z \in Int /\ c * x * y \in Int
    BY <1>1
  <2>2. QED
    BY <1>1, <1>6, <2>1, ProductOfCounts
<1> HIDE DEF den
<1>9. /\ den * (u + h) = den * v + den * s + den * h
      /\ den * (u - d) = den * v + den * s - den * d
      /\ den * v \in Int /\ den * s \in Int /\ den * d \in Int /\ den * h \in Int
      /\ v * den = den * v /\ d * den = den * d /\ h * den = den * h
  BY <1>2, <1>3, <1>8
<1>10. /\ (sum - den * s) - v * den <= h * den
       /\ v * den - (sum - den * s) <= d * den
       /\ sum - den * s \in Int
  BY <1>7, <1>8, <1>9
<1>11. QED
  BY <1>5, <1>8, <1>10

LEMMA TimeIsWithin ==
  ASSUME SortInv, pc = "done", Agreed # {}, FirstIsEcho, timeOfFlight.kind = "time"
  PROVE  Within(MaxJitter)
<1>1. PICK e \in Nat : e = Min(Agreed)
  BY AgreedIsFirst
<1>2. PICK w \in Nat : w = MaxJitter /\ \A jitter \in Jitter : -w <= jitter /\ jitter <= w
  BY AgreedIsFirst, MaxJitterBounds
<1>3. PICK v \in Int : v = TrueTime /\ v + Shift = FirstEcho + e * Period
  <2>1. e * Period \in Int
    BY <1>1
  <2>2. TrueTime = FirstEcho + e * Period - Shift
    BY <1>1 DEF TrueTime
  <2>3. QED
    BY <2>1, <2>2
<1>4. ASSUME NEW m \in {4, 5, 6}, NEW jitter \in Jitter
      PROVE  /\ v + Shift + m * Period - w <= Echo(e + m, jitter)
             /\ Echo(e + m, jitter) <= v + Shift + m * Period + w
  <2>1. jitter \in Int /\ -w <= jitter /\ jitter <= w
    BY <1>2, FlightAssumption DEF FlightAssumption
  <2>2. (e + m) * Period = e * Period + m * Period /\ e * Period \in Int /\ m * Period \in Int
    BY <1>1
  <2>3. Echo(e + m, jitter) = v + Shift + m * Period + jitter
    BY <1>3, <2>1, <2>2 DEF Echo
  <2>4. QED
    BY <1>2, <1>3, <2>1, <2>2, <2>3
<1>5. /\ timeOfFlight = Result /\ Typed
      /\ \A m \in {4, 5, 6} : index + m \in Bucket
  BY IndexIsAgreed DEF SortInv, IInv
<1>6. ASSUME NEW m \in {4, 5, 6}
      PROVE  /\ (v + Shift + m * Period - w) * count[index + m] <= timeAccumulated[index + m]
             /\ timeAccumulated[index + m] <= (v + Shift + m * Period + w) * count[index + m]
  <2>1. \A low \in Int, high \in Int :
           (\A jitter \in Jitter : low <= Echo(e + m, jitter) /\ Echo(e + m, jitter) <= high)
             => /\ low * count[index + m] <= timeAccumulated[index + m]
                /\ timeAccumulated[index + m] <= high * count[index + m]
    BY <1>1, IndexIsAgreed
  <2>2. v + Shift + m * Period - w \in Int /\ v + Shift + m * Period + w \in Int
    BY <1>2, <1>3
  <2>3. QED
    BY <1>4, <2>1, <2>2
<1>7. /\ timeOfFlight.num - v * timeOfFlight.den <= w * timeOfFlight.den
      /\ v * timeOfFlight.den - timeOfFlight.num <= w * timeOfFlight.den
  BY <1>2, <1>3, <1>5, <1>6, ResultBetween
<1>8. QED
  BY <1>2, <1>3, <1>7 DEF Within

(* The result is a time if the three echoes were heard by anyone. *)
LEMMA HeardMakesTime ==
  ASSUME SortInv, pc = "done", Agreed # {}, FirstIsEcho,
         \A e \in (Min(Agreed) + 4)..(Min(Agreed) + 6) : Hearing(e) # {}
  PROVE  timeOfFlight.kind = "time"
<1>1. /\ timeOfFlight = Result /\ index + 6 \in Bucket
      /\ \A d \in {4, 5, 6} : count[index + d] = Cardinality(Hearing(Min(Agreed) + d))
  BY IndexIsAgreed
<1>2. \A d \in {4, 5, 6} : count[index + d] \in Nat /\ count[index + d] > 0
  <2>1. TAKE d \in {4, 5, 6}
  <2>2. Hearing(Min(Agreed) + d) # {}
    <3>1. Min(Agreed) \in Nat
      BY AgreedIsFirst
    <3>2. Min(Agreed) + d \in (Min(Agreed) + 4)..(Min(Agreed) + 6)
      BY <3>1
    <3>3. QED
      BY <3>2
  <2>3. IsFiniteSet(Hearing(Min(Agreed) + d))
    <3>1. heard \in Seq(SUBSET Nat)
      BY DEF SortInv, RowsKnown
    <3>2. DOMAIN heard = 1..Len(heard) /\ Len(heard) \in Nat
      BY <3>1
    <3>3. IsFiniteSet(DOMAIN heard)
      BY <3>2, FS_Interval
    <3>4. Hearing(Min(Agreed) + d) \in SUBSET DOMAIN heard
      BY DEF Hearing
    <3>5. QED
      BY <3>3, <3>4, FS_Subset
  <2>4. Cardinality(Hearing(Min(Agreed) + d)) \in Nat /\ Cardinality(Hearing(Min(Agreed) + d)) # 0
    BY <2>2, <2>3, FS_CardinalityType, FS_EmptySet
  <2>5. QED
    BY <1>1, <2>4
<1> DEFINE den == 3 * count[index + 4] * count[index + 5] * count[index + 6]
<1>3. den # 0
  <2>1. PICK x \in Nat, y \in Nat, z \in Nat :
          /\ x = count[index + 4] /\ y = count[index + 5] /\ z = count[index + 6]
          /\ x > 0 /\ y > 0 /\ z > 0
    BY <1>2
  <2>2. x * y \in Nat /\ x * y > 0
    BY <2>1
  <2>3. x * y * z \in Nat /\ x * y * z > 0
    BY <2>1, <2>2
  <2>4. 3 * x * y * z = 3 * (x * y * z)
    OBVIOUS
  <2>5. 3 * x * y * z # 0
    BY <2>3, <2>4
  <2>6. QED
    BY <2>1, <2>5
<1> HIDE DEF den
<1>4. Result.kind = "time"
  BY <1>1, <1>3 DEF Result, den
<1>5. QED
  BY <1>1, <1>4

(* If the very first time is an echo's, the agreed echo is found and its   *)
(* time is right to within the jitter, for every batch size and quota, and *)
(* whatever echoes pulses missed, heard too early or lost to a wrap.       *)
THEOREM AgreedEchoesAreFound == Spec => []AgreedEchoIsFound
<1>1. SortInv => AgreedEchoIsFound
  BY HeardMakesTime, TimeIsWithin DEF AgreedEchoIsFound
<1>2. QED
  BY InitSortInv, NextSortInv, <1>1, PTL DEF Spec

(* A first time that a wrap has made is later than any limit. *)
LEMMA WrapIsLate == IInv /\ Accepted => ~(2 * first > CounterSize)
<1> SUFFICES ASSUME IInv, Accepted PROVE ~(2 * first > CounterSize)
  OBVIOUS
<1>1. 2 * (first - UPPER_TIME_LIMIT - Shift - 10 * Period) < Period
  BY LateFirstTime DEF LateFirstTimeRefused
<1>2. first \in Int
  BY RowsAreThere DEF IInv, Accepted
<1>3. 2 * (UPPER_TIME_LIMIT + Shift + 10 * Period) + Period <= CounterSize
  BY EchoAssumption DEF EchoAssumption
<1>4. QED
  BY <1>1, <1>2, <1>3

(* A wrap of the counter never makes a wrong time that is accepted. *)
THEOREM WrapsAreRefused == Spec => []WrapIsRefused
<1>1. SortInv => WrapIsRefused
  <2> SUFFICES ASSUME SortInv, Accepted, Agreed # {}, 2 * first > CounterSize \/ FirstIsEcho
               PROVE  Within(MaxJitter)
    BY DEF WrapIsRefused
  <2>1. FirstIsEcho
    BY WrapIsLate DEF SortInv
  <2>2. QED
    BY <2>1, TimeIsWithin DEF Accepted
<1>2. QED
  BY InitSortInv, NextSortInv, <1>1, PTL DEF Spec
-----------------------------------------------------------------------------
(* When the loops are over, a bucket counts the times of the table that    *)
(* are in it.                                                              *)
LEMMA CountedDone ==
  ASSUME SortInv, pc = "done", ~NoBuckets, NEW k \in Bucket
  PROVE  /\ count[k] = Cardinality(CountedIn(k)) /\ IsFiniteSet(CountedIn(k))
         /\ \A c : c \in CountedIn(k) <=>
              /\ c \in Cells /\ c[1] \in 1..N /\ c[2] \in 1..Len(times[c[1]])
              /\ times[c[1]][c[2]] # 0 /\ In(k, times[c[1]][c[2]]) /\ c = <<c[1], c[2]>>
         /\ \A low \in Int : \A high \in Int :
              (\A c \in CountedIn(k) : low <= times[c[1]][c[2]] /\ times[c[1]][c[2]] <= high)
                => low * count[k] <= timeAccumulated[k] /\ timeAccumulated[k] <= high * count[k]
<1>1. /\ j = N + 1 /\ Typed
      /\ count[k] = Cardinality(CountedIn(k))
      /\ \A low \in Int : \A high \in Int :
           (\A c \in CountedIn(k) : low <= At(c) /\ At(c) <= high)
             => low * count[k] <= timeAccumulated[k] /\ timeAccumulated[k] <= high * count[k]
  BY DEF SortInv, IInv, LoopsRun, CountsExact, SumsBounded
<1>2. \A r \in 1..N : Len(times[r]) \in 1..STOP_QUEUE_LENGTH
  <2>1. DOMAIN times = 1..N
    BY <1>1 DEF Typed
  <2>2. QED
    BY <1>1, <2>1 DEF Typed
<1>3. \A c : c \in CountedIn(k) <=>
        /\ c \in Cells /\ c[1] \in 1..N /\ c[2] \in 1..Len(times[c[1]])
        /\ times[c[1]][c[2]] # 0 /\ In(k, times[c[1]][c[2]]) /\ c = <<c[1], c[2]>>
  <2>1. \A c \in Cells : c[1] \in 1..N /\ c[2] \in 1..STOP_QUEUE_LENGTH /\ c = <<c[1], c[2]>> /\ c[1] < N + 1
    BY DEF Cells
  <2>2. QED
    BY <1>1, <1>2, <2>1 DEF CountedIn, At
<1>4. IsFiniteSet(CountedIn(k))
  BY CellsAreFinite
<1>5. QED
  BY <1>1, <1>3, <1>4 DEF At

(* Two times in one bucket are less than a period apart.                   *)
LEMMA InSame ==
  ASSUME NEW k, Centre(k) \in Int, NEW s \in Int, NEW t \in Int, In(k, s), In(k, t)
  PROVE  s - t < Period /\ t - s < Period
<1>1. PICK c \in Int : c = Centre(k)
  OBVIOUS
<1>2. 2 * (c - s) < Period /\ 2 * (s - c) < Period /\ 2 * (c - t) < Period /\ 2 * (t - c) < Period
  BY <1>1 DEF In
<1>3. QED
  BY <1>1, <1>2

(* The centres go from ten periods before the first time to a queue behind. *)
LEMMA CentresSpan ==
  ASSUME first \in Int, NEW k \in Bucket
  PROVE  /\ Centre(k) \in Int
         /\ Centre(k) >= first - 10 * Period
         /\ k > 10 => Centre(k) >= first + Period
         /\ Centre(k) <= first + STOP_QUEUE_LENGTH * Period - Period
<1>1. k \in Int /\ k - 10 >= -10 /\ k - 10 <= STOP_QUEUE_LENGTH - 1
  BY DEF Bucket, RELATIVE_TIMES_COUNT
<1>2. PICK m \in Int : m = k - 10 /\ m >= -10 /\ m <= STOP_QUEUE_LENGTH - 1 /\ (k > 10 => m >= 1)
  BY <1>1
<1>3. (m + 10) * Period \in Nat /\ (STOP_QUEUE_LENGTH - 1 - m) * Period \in Nat
      /\ (m >= 1 => (m - 1) * Period \in Nat)
  BY <1>2
<1>4. PICK p \in Int, q \in Int : p = m * Period /\ q = STOP_QUEUE_LENGTH * Period
        /\ (m + 10) * Period = p + 10 * Period /\ (STOP_QUEUE_LENGTH - 1 - m) * Period = q - Period - p
        /\ (m - 1) * Period = p - Period
  BY <1>2
<1>5. Centre(k) = first + p
  BY <1>2, <1>4 DEF Centre
<1>6. QED
  BY <1>2, <1>3, <1>4, <1>5
-----------------------------------------------------------------------------
(* A very first time that was left over has buckets of its own around it:  *)
(* only stops left over are in them, and they are too far from each other  *)
(* to share one.                                                           *)
LEMMA AgedIsAlone ==
  ASSUME NEW age \in Nat, Aged(age), first = age \/ first = CounterSize - age,
         NEW echoes \in Echoes, NEW jitter \in Jitter, NEW n \in DOMAIN echoes,
         NEW k \in Bucket
  PROVE  /\ ~In(k, Echo(echoes[n], jitter))
         /\ ~In(k, CounterSize - Echo(echoes[n], jitter))
         /\ first > Echo(echoes[n], jitter) + Period
<1>1. PICK t \in Int : t = Echo(echoes[n], jitter) /\ t > 10 * Period
  BY EchoesAreEarly
<1>2. PICK q \in Nat : q = STOP_QUEUE_LENGTH * Period
  OBVIOUS
<1>3. 2 * (age + 11 * Period) <= CounterSize /\ t + q + 11 * Period < age
  BY <1>1, <1>2 DEF Aged
<1>4. first \in Int
  OBVIOUS
<1>5. PICK c \in Int : c = Centre(k) /\ c >= first - 10 * Period /\ c <= first + q - Period
  BY <1>2, <1>4, CentresSpan
<1>6. ~(2 * (c - t) < Period)
  BY <1>1, <1>2, <1>3, <1>5
<1>7. ~(2 * ((CounterSize - t) - c) < Period)
  BY <1>1, <1>2, <1>3, <1>5
<1>8. first > t + Period
  BY <1>1, <1>2, <1>3
<1>9. QED
  BY <1>1, <1>5, <1>6, <1>7, <1>8 DEF In

LEMMA LeftoversAreApart ==
  ASSUME NEW a \in Nat, NEW b \in Nat, Aged(a), Aged(b), a + Period <= b,
         NEW s \in Int, NEW t \in Int,
         s = a \/ s = CounterSize - a, t = b \/ t = CounterSize - b
  PROVE  ~(s - t < Period /\ t - s < Period)
<1>1. 2 * (a + 11 * Period) <= CounterSize /\ 2 * (b + 11 * Period) <= CounterSize
  BY DEF Aged
<1>2. QED
  BY <1>1

LEMMA LeftoverCountsOne ==
  ASSUME SortInv, pc = "done", ~NoBuckets,
         NEW len \in Nat, len > 0, NEW age, Leftovers(times[1], len, age),
         NEW echoes \in Echoes, NEW jitter \in Jitter, echoes # <<>>,
         RowOf(times[1], heard[1], len, echoes, jitter), NEW k \in Bucket
  PROVE  count[k] <= 1
<1>1. Typed /\ RowsKnown /\ Len(times) = N
  BY DEF SortInv, IInv, Typed
<1>2. \A r \in 1..N : times[r] \in Seq(Int) /\ Len(times[r]) \in Nat /\ Len(times[r]) >= 1
  <2>1. TAKE r \in 1..N
  <2>2. times[r] \in Seq(Int)
    BY <1>1, RowsAreThere
  <2>3. Len(times[r]) \in 1..STOP_QUEUE_LENGTH
    <3>1. times \in Seq(Seq(Int)) /\ r \in DOMAIN times
      BY <1>1 DEF Typed
    <3>2. QED
      BY <1>1, <3>1 DEF Typed
  <2>4. QED
    BY <2>2, <2>3
<1>3. /\ age[1] \in Nat /\ Aged(age[1]) /\ first \in Int
      /\ first = age[1] \/ first = CounterSize - age[1]
  <2>1. 1 \in 1..len /\ 1 \in 1..Len(times[1]) /\ times[1] \in Seq(Int)
    BY <1>2
  <2>2. QED
    BY <2>1 DEF Leftovers, first
<1>4. ASSUME NEW r \in 1..N, NEW n \in 1..Len(times[r]), In(k, times[r][n])
      PROVE  r = 1 /\ n <= len
  <2>1. PICK l \in Nat, es \in Echoes, jit \in Jitter :
          (r # 1 => l = 0) /\ (r = 1 => l = len) /\ RowOf(times[r], heard[r], l, es, jit)
    <3>1. CASE r = 1
      BY <3>1
    <3>2. CASE r # 1
      BY <1>1, <3>2 DEF RowsKnown
    <3>3. QED
      BY <3>1, <3>2
  <2>2. ~(n > l)
    <3>1. SUFFICES ASSUME n > l PROVE FALSE
      OBVIOUS
    <3>2. n - l \in DOMAIN es /\ (times[r][n] = Echo(es[n - l], jit) \/ times[r][n] = CounterSize - Echo(es[n - l], jit))
      BY <2>1, <3>1 DEF RowOf
    <3>3. QED
      BY <1>3, <1>4, <3>2, AgedIsAlone
  <2>3. n \in Nat /\ n >= 1
    BY <1>2
  <2>4. QED
    BY <2>1, <2>2, <2>3
<1>5. ASSUME NEW n \in 1..Len(times[1]), NEW m \in 1..Len(times[1]), n <= len, m <= len, m < n,
             In(k, times[1][n]), In(k, times[1][m])
      PROVE  FALSE
  <2>1. n \in 1..len /\ m \in 1..len
    BY <1>2, <1>5
  <2>2. /\ age[n] \in Nat /\ Aged(age[n]) /\ age[m] \in Nat /\ Aged(age[m])
        /\ age[n] + Period <= age[m]
        /\ times[1][n] = age[n] \/ times[1][n] = CounterSize - age[n]
        /\ times[1][m] = age[m] \/ times[1][m] = CounterSize - age[m]
    BY <1>5, <2>1 DEF Leftovers
  <2>3. PICK s \in Int, t \in Int : s = times[1][n] /\ t = times[1][m]
    BY <2>2
  <2>4. s - t < Period /\ t - s < Period
    <3>1. Centre(k) \in Int
      BY <1>3, CentresSpan
    <3>2. QED
      BY <1>5, <2>3, <3>1, InSame
  <2>5. QED
    BY <2>2, <2>3, <2>4, LeftoversAreApart
<1>6. /\ count[k] = Cardinality(CountedIn(k)) /\ IsFiniteSet(CountedIn(k))
      /\ \A c : c \in CountedIn(k) =>
              /\ c[1] \in 1..N /\ c[2] \in 1..Len(times[c[1]])
              /\ In(k, times[c[1]][c[2]]) /\ c = <<c[1], c[2]>>
  BY CountedDone
<1>7. \A c \in CountedIn(k), d \in CountedIn(k) : c = d
  <2>1. TAKE c \in CountedIn(k), d \in CountedIn(k)
  <2>2. /\ c[1] = 1 /\ c[2] \in 1..Len(times[1]) /\ In(k, times[1][c[2]]) /\ c[2] <= len /\ c = <<1, c[2]>>
        /\ d[1] = 1 /\ d[2] \in 1..Len(times[1]) /\ In(k, times[1][d[2]]) /\ d[2] <= len /\ d = <<1, d[2]>>
    BY <1>4, <1>6
  <2>3. ~(c[2] < d[2]) /\ ~(d[2] < c[2])
    BY <1>5, <2>2
  <2>4. c[2] = d[2]
    BY <1>2, <2>2, <2>3
  <2>5. QED
    BY <2>2, <2>4
<1>8. QED
  <2>1. CASE CountedIn(k) = {}
    BY <1>6, <2>1, FS_EmptySet
  <2>2. CASE CountedIn(k) # {}
    <3>1. PICK c : CountedIn(k) = {c}
      BY <1>7, <2>2
    <3>2. Cardinality({c}) = 1
      BY FS_Singleton
    <3>3. QED
      BY <1>6, <3>1, <3>2
  <2>3. QED
    BY <2>1, <2>2

(* A spurious stop timed late has, behind its own bucket, no time at all.  *)
LEMMA EchoIsNearFirst ==
  ASSUME NEW echoes \in Echoes, NEW jitter \in Jitter, NEW n \in DOMAIN echoes
  PROVE  4 * Echo(echoes[n], jitter) > 4 * FirstEcho - Period
<1>1. PICK p \in Nat : p = echoes[n] * Period
  BY EchoesAreEarly
<1>2. jitter \in Int /\ -4 * jitter < Period
  BY EchoesAreEarly
<1>3. Echo(echoes[n], jitter) = FirstEcho + p + jitter
  BY <1>1 DEF Echo
<1>4. QED
  BY <1>1, <1>2, <1>3

LEMMA LateSpuriousCountsNone ==
  ASSUME SortInv, pc = "done", ~NoBuckets,
         NEW t \in 0..(FirstEcho - 1), first = CounterSize - t, 2 * FirstEcho < CounterSize,
         NEW echoes \in Echoes, NEW jitter \in Jitter,
         RowOf(times[1], heard[1], 1, echoes, jitter), NEW k \in Bucket, k > 10
  PROVE  count[k] <= 1
<1>1. Typed /\ RowsKnown /\ Len(times) = N
  BY DEF SortInv, IInv, Typed
<1>2. first \in Int
  OBVIOUS
<1>3. PICK c \in Int : c = Centre(k) /\ c >= CounterSize - t + Period
  BY <1>2, CentresSpan
<1>4. ASSUME NEW es \in Echoes, NEW jit \in Jitter, NEW m \in DOMAIN es
      PROVE  ~In(k, Echo(es[m], jit)) /\ ~In(k, CounterSize - Echo(es[m], jit))
  <2>1. PICK u \in Int : u = Echo(es[m], jit) /\ 2 * u < CounterSize /\ 4 * u > 4 * FirstEcho - Period
    <3>1. STOP_QUEUE_LENGTH * Period \in Nat
      OBVIOUS
    <3>2. PICK u \in Int : u = Echo(es[m], jit) /\ 2 * (u + STOP_QUEUE_LENGTH * Period) < CounterSize
      BY EchoesAreEarly
    <3>3. QED
      BY <3>1, <3>2, EchoIsNearFirst
  <2>2. ~(2 * (c - u) < Period)
    BY <1>3, <2>1
  <2>3. ~(2 * (c - (CounterSize - u)) < Period)
    BY <1>3, <2>1
  <2>4. QED
    BY <1>3, <2>1, <2>2, <2>3 DEF In
<1>5. ASSUME NEW r \in 1..N, NEW n \in 1..Len(times[r]) PROVE ~In(k, times[r][n])
  <2>1. PICK l \in Nat, es \in Echoes, jit \in Jitter :
          (r # 1 => l = 0) /\ (r = 1 => l = 1) /\ RowOf(times[r], heard[r], l, es, jit)
    <3>1. CASE r = 1
      BY <3>1
    <3>2. CASE r # 1
      BY <1>1, <3>2 DEF RowsKnown
    <3>3. QED
      BY <3>1, <3>2
  <2>2. CASE n > l
    <3>1. n - l \in DOMAIN es /\ (times[r][n] = Echo(es[n - l], jit) \/ times[r][n] = CounterSize - Echo(es[n - l], jit))
      BY <2>1, <2>2 DEF RowOf
    <3>2. QED
      BY <1>4, <3>1
  <2>3. CASE ~(n > l)
    <3>1. r = 1 /\ n = 1
      BY <2>1, <2>3
    <3>2. times[r][n] = CounterSize - t
      BY <3>1 DEF first
    <3>3. ~(2 * (c - (CounterSize - t)) < Period)
      BY <1>3
    <3>4. QED
      BY <1>3, <3>2, <3>3 DEF In
  <2>4. QED
    BY <2>2, <2>3
<1>6. /\ count[k] = Cardinality(CountedIn(k))
      /\ \A cell : cell \in CountedIn(k) =>
           /\ cell[1] \in 1..N /\ cell[2] \in 1..Len(times[cell[1]])
           /\ In(k, times[cell[1]][cell[2]])
  BY CountedDone
<1>7. CountedIn(k) = {}
  BY <1>5, <1>6
<1>8. QED
  BY <1>6, <1>7, FS_EmptySet
-----------------------------------------------------------------------------
(* The other case: at most the very first stop is foreign, and the first   *)
(* time is no later than that of the agreed echo.                          *)
PlainRow(r, len, echoes, jitter) ==
  /\ len = 0 \/ (len = 1 /\ r = 1)
  /\ RowOf(times[r], heard[r], len, echoes, jitter)

EarlyFirst ==
  /\ \A r \in 1..N : \E len \in Nat, echoes \in Echoes, jitter \in Jitter :
       PlainRow(r, len, echoes, jitter)
  /\ first \in Int /\ 2 * (first + STOP_QUEUE_LENGTH * Period) < CounterSize
  /\ first <= FirstEcho + Min(Agreed) * Period + MaxJitter

LEMMA HeardIsEcho ==
  ASSUME NEW row, NEW right, NEW len \in Nat, NEW echoes, NEW jitter,
         RowOf(row, right, len, echoes, jitter), NEW e \in right
  PROVE  \E n \in DOMAIN echoes : e = echoes[n]
<1>1. PICK n \in 1..Len(row) : n > len /\ e = echoes[n - len]
  BY DEF RowOf
<1>2. n - len \in DOMAIN echoes
  BY <1>1 DEF RowOf
<1>3. QED
  BY <1>1, <1>2

LEMMA FirstCases ==
  ASSUME SortInv, pc = "done", ~NoBuckets, Agreed # {}, AllHearOn
  PROVE  \/ EarlyFirst
         \/ first >= FirstEcho /\ \A k \in Bucket : k > 10 => count[k] <= 1
<1>1. Typed /\ RowsKnown /\ Len(times) = N
  BY DEF SortInv, IInv, Typed
<1>2. PICK a \in Nat : a = Min(Agreed)
  BY AgreedIsFirst
<1>3. PICK w \in Nat : w = MaxJitter /\ \A jitter \in Jitter : -w <= jitter /\ jitter <= w
  BY AgreedIsFirst, MaxJitterBounds
<1>4. 1 \in 1..N
  OBVIOUS
<1>5. PICK len \in Nat, echoes \in Echoes, jitter \in Jitter :
        /\ RowOf(times[1], heard[1], len, echoes, jitter)
        /\ Foreign(times[1], heard[1], len, echoes, jitter)
  BY <1>1, <1>4 DEF RowsKnown
<1>6. PICK n \in DOMAIN echoes, m \in DOMAIN echoes : echoes[n] = a /\ echoes[m] = a + 1
  <2>1. a \in heard[1] /\ a + 1 \in heard[1]
    <3>1. a \in a..(a + 7) /\ a + 1 \in a..(a + 7)
      BY <1>2
    <3>2. QED
      BY <1>2, <1>4, <3>1 DEF AllHearOn
  <2>2. QED
    BY <1>5, <2>1, HeardIsEcho
<1>7. PICK p \in Nat : p = a * Period /\ (a + 1) * Period = p + Period
  BY <1>2
<1>8. /\ jitter \in Int /\ -4 * jitter < Period /\ -w <= jitter /\ jitter <= w
      /\ Echo(a, jitter) = FirstEcho + p + jitter
      /\ 2 * (FirstEcho + p + Period + jitter + STOP_QUEUE_LENGTH * Period) < CounterSize
  <2>1. jitter \in Int /\ -4 * jitter < Period
    BY <1>6, EchoesAreEarly
  <2>2. Echo(a, jitter) = FirstEcho + p + jitter /\ Echo(a + 1, jitter) = FirstEcho + p + Period + jitter
    BY <1>7, <2>1 DEF Echo
  <2>3. 2 * (Echo(a + 1, jitter) + STOP_QUEUE_LENGTH * Period) < CounterSize
    BY <1>6, EchoesAreEarly
  <2>4. QED
    BY <1>3, <2>1, <2>2, <2>3
<1>9. PICK q \in Nat : q = STOP_QUEUE_LENGTH * Period
  OBVIOUS
<1>10. 2 * FirstEcho < CounterSize
  BY <1>7, <1>8, <1>9
<1>11. ASSUME len = 0 \/ len = 1
       PROVE  \A r \in 1..N : \E l \in Nat, es \in Echoes, jit \in Jitter : PlainRow(r, l, es, jit)
  <2>1. TAKE r \in 1..N
  <2>2. CASE r = 1
    BY <1>5, <1>11, <2>2 DEF PlainRow
  <2>3. CASE r # 1
    <3>1. PICK l \in Nat, es \in Echoes, jit \in Jitter : l = 0 /\ RowOf(times[r], heard[r], l, es, jit)
      BY <1>1, <2>3 DEF RowsKnown
    <3>2. QED
      BY <3>1 DEF PlainRow
  <2>4. QED
    BY <2>2, <2>3
<1>12. CASE len = 0 /\ (times[1][1] = Echo(echoes[1], jitter) \/ heard[1] = {})
  <2>1. heard[1] # {}
    <3>1. a \in a..(a + 7)
      BY <1>2
    <3>2. QED
      BY <1>2, <1>4, <3>1 DEF AllHearOn
  <2>2. PICK u \in Int : u = first /\ u = Echo(echoes[1], jitter) /\ u <= Echo(a, jitter)
                         /\ 2 * (u + q) < CounterSize
    <3>1. first = Echo(echoes[1], jitter)
      BY <1>12, <2>1 DEF first
    <3>2. 1 \in DOMAIN echoes
      <4>1. echoes \in Seq(Nat) /\ echoes # <<>>
        BY FlightAssumption DEF FlightAssumption
      <4>2. QED
        BY <4>1
    <3>3. Echo(echoes[1], jitter) \in Int /\ 2 * (Echo(echoes[1], jitter) + q) < CounterSize
      BY <1>9, <3>2, EchoesAreEarly
    <3>4. Echo(echoes[1], jitter) <= Echo(a, jitter)
      BY <1>6, FirstOrNone
    <3>5. QED
      BY <3>1, <3>3, <3>4
  <2>3. first <= FirstEcho + a * Period + w
    BY <1>3, <1>7, <1>8, <2>2
  <2>4. QED
    BY <1>2, <1>3, <1>9, <1>11, <1>12, <2>2, <2>3 DEF EarlyFirst
<1>13. CASE len = 1 /\ \E t \in 0..(FirstEcho - 1) : times[1][1] = t \/ times[1][1] = CounterSize - t
  <2>1. PICK t \in 0..(FirstEcho - 1) : first = t \/ first = CounterSize - t
    BY <1>13 DEF first
  <2>2. CASE first = t
    <3>1. first \in Int /\ 2 * (first + q) < CounterSize
      BY <1>7, <1>8, <1>9, <2>2
    <3>2. first <= FirstEcho + a * Period + w
      BY <1>3, <1>7, <2>2
    <3>3. QED
      BY <1>2, <1>3, <1>9, <1>11, <1>13, <3>1, <3>2 DEF EarlyFirst
  <2>3. CASE first = CounterSize - t
    <3>1. \A k \in Bucket : k > 10 => count[k] <= 1
      BY <1>5, <1>10, <1>13, <2>3, LateSpuriousCountsNone
    <3>2. first >= FirstEcho
      BY <1>10, <2>3
    <3>3. QED
      BY <3>1, <3>2
  <2>4. QED
    BY <2>1, <2>2, <2>3
<1>14. CASE len > 0 /\ \E age : Leftovers(times[1], len, age)
  <2>1. PICK age : Leftovers(times[1], len, age)
    BY <1>14
  <2>2. \A k \in Bucket : count[k] <= 1
    <3>1. echoes # <<>>
      BY FlightAssumption DEF FlightAssumption
    <3>2. QED
      BY <1>5, <1>14, <2>1, <3>1, LeftoverCountsOne
  <2>3. first >= FirstEcho
    <3>1. PICK b \in Nat : b = age[1] /\ Aged(b) /\ (first = b \/ first = CounterSize - b)
      <4>1. 1 \in 1..len /\ 1 \in 1..Len(times[1])
        <5>1. 1 \in DOMAIN times
          BY <1>1 DEF Typed
        <5>2. Len(times[1]) \in 1..STOP_QUEUE_LENGTH
          BY <1>1, <5>1 DEF Typed
        <5>3. QED
          BY <1>14, <5>2
      <4>2. QED
        BY <1>14, <2>1, <4>1 DEF Leftovers, first
    <3>2. 10 \in Bucket
      BY DEF Bucket, RELATIVE_TIMES_COUNT
    <3>3. first > Echo(a, jitter) + Period
      BY <1>6, <3>1, <3>2, AgedIsAlone
    <3>4. QED
      BY <1>7, <1>8, <3>1, <3>3
  <2>4. QED
    BY <2>2, <2>3
<1>15. QED
  BY <1>5, <1>12, <1>13, <1>14 DEF Foreign
-----------------------------------------------------------------------------
(* An early first time need not be an echo's, so its buckets may lie at    *)
(* any phase to the echoes.  The echoes of one pulse are all off by one    *)
(* number of buckets, or all between two; and since the jitter is less     *)
(* than a quarter of a period, the pulses take only two such numbers.      *)
LEMMA Quotient ==
  ASSUME NEW x \in Int, NEW y \in Nat, y > 0
  PROVE  \E q \in Int : q * y <= x /\ x < q * y + y
<1>1. x \div y \in Int /\ (x % y) \in 0..(y - 1) /\ x = (y * (x \div y)) + (x % y)
  OBVIOUS
<1>2. PICK q \in Int, m \in Int : q = x \div y /\ m \in 0..(y - 1) /\ x = (y * q) + m
  BY <1>1
<1>3. y * q = q * y /\ q * y \in Int
  OBVIOUS
<1>4. QED
  BY <1>2, <1>3

LEMMA NearMultiple ==
  ASSUME NEW g \in Int, NEW o \in Int, NEW m \in Int
  PROVE  /\ 2 * (o * Period) - Period < 2 * g /\ 2 * g < 2 * (o * Period) + Period =>
              (2 * (m * Period - g) < Period /\ 2 * (g - m * Period) < Period <=> m = o)
         /\ 2 * g = 2 * (o * Period) + Period =>
              ~(2 * (m * Period - g) < Period /\ 2 * (g - m * Period) < Period)
<1>1. PICK l \in Int : l = m - o
  OBVIOUS
<1>2. PICK p \in Int, q \in Int, d \in Int : p = m * Period /\ q = o * Period /\ d = l * Period /\ p = q + d
  <2>1. l * Period = m * Period - o * Period
    BY <1>1
  <2>2. QED
    BY <2>1
<1>3. (l >= 1 => d >= Period) /\ (l <= -1 => d <= -Period) /\ (l = 0 => d = 0)
  BY <1>2, MultipleOfPeriod
<1>4. l >= 1 \/ l <= -1 \/ l = 0
  OBVIOUS
<1>5. QED
  BY <1>1, <1>2, <1>3, <1>4

Off(jitter, o) == \A e \in Nat, k \in Bucket : In(k, Echo(e, jitter)) <=> k = e + 10 + o
Between(jitter) == \A e \in Nat, k \in Bucket : ~In(k, Echo(e, jitter))

LEMMA TwoOffsets ==
  ASSUME first \in Int, NEW w \in Nat, 4 * w < Period,
         \A jitter \in Jitter : -w <= jitter /\ jitter <= w
  PROVE  \E d \in Int :
           /\ 2 * (d * Period) <= 2 * (FirstEcho - first - w) + Period
           /\ 2 * (FirstEcho - first - w) + Period < 2 * (d * Period) + 2 * Period
           /\ \A jitter \in Jitter : Off(jitter, d) \/ Off(jitter, d + 1) \/ Between(jitter)
<1>1. PICK d \in Int : /\ d * (2 * Period) <= 2 * (FirstEcho - first - w) + Period
                       /\ 2 * (FirstEcho - first - w) + Period < d * (2 * Period) + 2 * Period
  <2>1. 2 * Period \in Nat /\ 2 * Period > 0 /\ 2 * (FirstEcho - first - w) + Period \in Int
    OBVIOUS
  <2>2. QED
    BY <2>1, Quotient
<1>2. PICK q \in Int : q = d * Period /\ d * (2 * Period) = 2 * q
  OBVIOUS
<1>3. (d - 1) * Period = q - Period /\ (d + 1) * Period = q + Period
  BY <1>2
<1>4. ASSUME NEW jitter \in Jitter PROVE Off(jitter, d) \/ Off(jitter, d + 1) \/ Between(jitter)
  <2>1. jitter \in Int /\ -w <= jitter /\ jitter <= w
    BY FlightAssumption DEF FlightAssumption
  <2>2. PICK g \in Int : g = FirstEcho + jitter - first
    BY <2>1
  <2>3. 2 * g >= 2 * q - Period /\ 2 * g < 2 * q + 2 * Period
    BY <1>1, <1>2, <2>1, <2>2
  <2>4. \A e \in Nat, k \in Bucket :
          /\ k - 10 - e \in Int
          /\ In(k, Echo(e, jitter)) <=>
               2 * ((k - 10 - e) * Period - g) < Period /\ 2 * (g - (k - 10 - e) * Period) < Period
    <3>1. TAKE e \in Nat, k \in Bucket
    <3>2. k \in Int
      BY DEF Bucket
    <3>3. PICK x \in Int, y \in Int : x = (k - 10) * Period /\ y = e * Period /\ (k - 10 - e) * Period = x - y
      BY <3>2
    <3>4. Centre(k) = first + x /\ Echo(e, jitter) = FirstEcho + y + jitter
      BY <3>3 DEF Centre, Echo
    <3>5. Centre(k) - Echo(e, jitter) = x - y - g /\ Echo(e, jitter) - Centre(k) = g - (x - y)
      BY <2>1, <2>2, <3>3, <3>4
    <3>6. QED
      BY <3>2, <3>3, <3>5 DEF In
  <2>5. CASE 2 * g = 2 * q - Period
    <3>1. 2 * g = 2 * ((d - 1) * Period) + Period
      BY <1>3, <2>5
    <3>2. d - 1 \in Int /\ g \in Int
      OBVIOUS
    <3>3. PICK o \in Int : o = d - 1 /\ 2 * g = 2 * (o * Period) + Period
      BY <3>1, <3>2
    <3>4. \A m \in Int : ~(2 * (m * Period - g) < Period /\ 2 * (g - m * Period) < Period)
      BY <2>2, <3>3, NearMultiple
    <3>5. QED
      BY <2>4, <3>4 DEF Between
  <2>6. CASE 2 * q - Period < 2 * g /\ 2 * g < 2 * q + Period
    <3>1. \A e \in Nat, k \in Bucket : In(k, Echo(e, jitter)) <=> k - 10 - e = d
      BY <1>2, <2>4, <2>6, NearMultiple
    <3>2. \A e \in Nat, k \in Bucket : k - 10 - e = d <=> k = e + 10 + d
      BY DEF Bucket
    <3>3. Off(jitter, d)
      BY <3>1, <3>2 DEF Off
    <3>4. QED
      BY <3>3
  <2>7. CASE 2 * g = 2 * q + Period
    <3>1. Between(jitter)
      BY <1>2, <2>4, <2>7, NearMultiple DEF Between
    <3>2. QED
      BY <3>1
  <2>8. CASE 2 * q + Period < 2 * g
    <3>1. 2 * ((d + 1) * Period) - Period < 2 * g /\ 2 * g < 2 * ((d + 1) * Period) + Period
      BY <1>3, <2>3, <2>8
    <3>2. \A e \in Nat, k \in Bucket : In(k, Echo(e, jitter)) <=> k - 10 - e = d + 1
      BY <2>4, <3>1, NearMultiple
    <3>3. \A e \in Nat, k \in Bucket : k - 10 - e = d + 1 <=> k = e + 10 + (d + 1)
      BY DEF Bucket
    <3>4. Off(jitter, d + 1)
      BY <3>2, <3>3 DEF Off
    <3>5. QED
      BY <3>4
  <2>9. QED
    BY <1>2, <2>2, <2>3, <2>5, <2>6, <2>7, <2>8
<1>5. QED
  BY <1>1, <1>2, <1>4
-----------------------------------------------------------------------------
(* So a row lands in the buckets with one offset, once in each, or misses  *)
(* them all; apart from the very first time, which is in bucket 10.        *)
Lands(r, o) ==
  \A k \in Bucket :
    /\ \A n \in 1..Len(times[r]) : In(k, times[r][n]) /\ (r = 1 => n # 1) =>
         k - 10 - o \in heard[r] /\ \E jitter \in Jitter : times[r][n] = Echo(k - 10 - o, jitter)
    /\ \A n, m \in 1..Len(times[r]) :
         In(k, times[r][n]) /\ In(k, times[r][m]) /\ (r = 1 => n # 1 /\ m # 1) => n = m
    /\ k - 10 - o \in heard[r] =>
         \E n \in 1..Len(times[r]) : In(k, times[r][n]) /\ times[r][n] # 0

Misses(r) ==
  \A k \in Bucket : \A n \in 1..Len(times[r]) : (r = 1 => n # 1) => ~In(k, times[r][n])

LEMMA RowLands ==
  ASSUME SortInv, pc # "pulses", EarlyFirst, NEW r \in 1..N,
         NEW len \in Nat, NEW echoes \in Echoes, NEW jitter \in Jitter,
         PlainRow(r, len, echoes, jitter), NEW o \in Int, Off(jitter, o)
  PROVE  Lands(r, o)
<1> SUFFICES ASSUME NEW k \in Bucket
             PROVE  /\ \A n \in 1..Len(times[r]) : In(k, times[r][n]) /\ (r = 1 => n # 1) =>
                         k - 10 - o \in heard[r] /\ \E jit \in Jitter : times[r][n] = Echo(k - 10 - o, jit)
                    /\ \A n, m \in 1..Len(times[r]) :
                         In(k, times[r][n]) /\ In(k, times[r][m]) /\ (r = 1 => n # 1 /\ m # 1) => n = m
                    /\ k - 10 - o \in heard[r] =>
                         \E n \in 1..Len(times[r]) : In(k, times[r][n]) /\ times[r][n] # 0
  BY DEF Lands
<1>1. RowOf(times[r], heard[r], len, echoes, jitter) /\ (len = 0 \/ (len = 1 /\ r = 1))
  BY DEF PlainRow
<1>2. \A n \in 1..Len(times[r]) : (r = 1 => n # 1) => n > len
  BY <1>1
<1>3. ASSUME NEW n \in 1..Len(times[r]), In(k, times[r][n]), n > len
      PROVE  /\ n - len \in DOMAIN echoes /\ echoes[n - len] = k - 10 - o
             /\ times[r][n] = Echo(k - 10 - o, jitter)
  <2>1. /\ n - len \in DOMAIN echoes
        /\ times[r][n] = Echo(echoes[n - len], jitter) \/ times[r][n] = CounterSize - Echo(echoes[n - len], jitter)
    BY <1>1, <1>3 DEF RowOf
  <2>2. times[r][n] = Echo(echoes[n - len], jitter)
    BY <1>3, <2>1, WrappedIsBeyond DEF EarlyFirst
  <2>3. PICK e \in Nat : e = echoes[n - len]
    BY <2>1, EchoesAreEarly
  <2>4. k = e + 10 + o
    BY <1>3, <2>2, <2>3 DEF Off
  <2>5. e = k - 10 - o
    BY <2>3, <2>4
  <2>6. QED
    BY <2>1, <2>2, <2>3, <2>5
<1>4. ASSUME NEW n \in 1..Len(times[r]), In(k, times[r][n]), n > len PROVE k - 10 - o \in heard[r]
  BY <1>1, <1>3, <1>4 DEF RowOf
<1>5. ASSUME NEW n \in 1..Len(times[r]), NEW m \in 1..Len(times[r]),
             In(k, times[r][n]), In(k, times[r][m]), n > len, m > len
      PROVE  n = m
  <2>1. /\ n - len \in DOMAIN echoes /\ m - len \in DOMAIN echoes
        /\ echoes[n - len] = echoes[m - len]
    BY <1>3, <1>5
  <2>2. PICK x \in DOMAIN echoes, y \in DOMAIN echoes : x = n - len /\ y = m - len /\ echoes[x] = echoes[y]
    BY <2>1
  <2>3. (x < y => echoes[x] < echoes[y]) /\ (y < x => echoes[y] < echoes[x])
    BY EchoAssumption DEF EchoAssumption
  <2>4. echoes[x] \in Nat
    BY EchoesAreEarly
  <2>5. ~(x < y) /\ ~(y < x)
    BY <2>2, <2>3, <2>4
  <2>6. QED
    BY <2>2, <2>5
<1>6. ASSUME k - 10 - o \in heard[r]
      PROVE  \E n \in 1..Len(times[r]) : In(k, times[r][n]) /\ times[r][n] # 0
  <2>1. PICK n \in 1..Len(times[r]) :
          n > len /\ k - 10 - o = echoes[n - len] /\ times[r][n] = Echo(echoes[n - len], jitter)
    BY <1>1, <1>6 DEF RowOf
  <2>2. n - len \in DOMAIN echoes
    BY <1>1, <2>1 DEF RowOf
  <2>3. PICK e \in Nat, t \in Int : e = echoes[n - len] /\ t = Echo(e, jitter) /\ t > 10 * Period
    BY <2>2, EchoesAreEarly
  <2>4. k = e + 10 + o
    BY <2>1, <2>3 DEF Bucket
  <2>5. In(k, Echo(e, jitter))
    BY <2>3, <2>4 DEF Off
  <2>6. QED
    BY <2>1, <2>3, <2>5
<1>7. QED
  BY <1>2, <1>3, <1>4, <1>5, <1>6

LEMMA RowMisses ==
  ASSUME SortInv, pc # "pulses", EarlyFirst, NEW r \in 1..N,
         NEW len \in Nat, NEW echoes \in Echoes, NEW jitter \in Jitter,
         PlainRow(r, len, echoes, jitter), Between(jitter)
  PROVE  Misses(r)
<1> SUFFICES ASSUME NEW k \in Bucket, NEW n \in 1..Len(times[r]), r = 1 => n # 1
             PROVE  ~In(k, times[r][n])
  BY DEF Misses
<1>1. RowOf(times[r], heard[r], len, echoes, jitter) /\ n > len
  BY DEF PlainRow
<1>2. /\ n - len \in DOMAIN echoes
      /\ times[r][n] = Echo(echoes[n - len], jitter) \/ times[r][n] = CounterSize - Echo(echoes[n - len], jitter)
  BY <1>1 DEF RowOf
<1>3. ~In(k, Echo(echoes[n - len], jitter))
  <2>1. echoes[n - len] \in Nat
    BY <1>2, EchoesAreEarly
  <2>2. QED
    BY <2>1 DEF Between
<1>4. ~In(k, CounterSize - Echo(echoes[n - len], jitter))
  BY <1>2, WrappedIsBeyond DEF EarlyFirst
<1>5. QED
  BY <1>2, <1>3, <1>4

LEMMA RowsLand ==
  ASSUME SortInv, pc # "pulses", EarlyFirst, Agreed # {}
  PROVE  \E d \in Int :
           /\ 2 * (d * Period) <= 2 * (FirstEcho - first - MaxJitter) + Period
           /\ 2 * (FirstEcho - first - MaxJitter) + Period < 2 * (d * Period) + 2 * Period
           /\ \A r \in 1..N : Lands(r, d) \/ Lands(r, d + 1) \/ Misses(r)
<1>1. MaxJitter \in Nat /\ 4 * MaxJitter < Period /\ first \in Int
      /\ \A jitter \in Jitter : -MaxJitter <= jitter /\ jitter <= MaxJitter
  BY AgreedIsFirst, MaxJitterBounds DEF EarlyFirst
<1>2. PICK d \in Int :
           /\ 2 * (d * Period) <= 2 * (FirstEcho - first - MaxJitter) + Period
           /\ 2 * (FirstEcho - first - MaxJitter) + Period < 2 * (d * Period) + 2 * Period
           /\ \A jitter \in Jitter : Off(jitter, d) \/ Off(jitter, d + 1) \/ Between(jitter)
  BY <1>1, TwoOffsets
<1>3. ASSUME NEW r \in 1..N PROVE Lands(r, d) \/ Lands(r, d + 1) \/ Misses(r)
  <2>1. PICK len \in Nat, echoes \in Echoes, jitter \in Jitter : PlainRow(r, len, echoes, jitter)
    BY DEF EarlyFirst
  <2>2. CASE Off(jitter, d)
    BY <2>1, <2>2, RowLands
  <2>3. CASE Off(jitter, d + 1)
    <3>1. d + 1 \in Int
      OBVIOUS
    <3>2. QED
      BY <2>1, <2>3, <3>1, RowLands
  <2>4. CASE Between(jitter)
    BY <2>1, <2>4, RowMisses
  <2>5. QED
    BY <1>2, <2>2, <2>3, <2>4
<1>4. QED
  BY <1>2, <1>3
-----------------------------------------------------------------------------
(* The offset d of the rows from bucket 10, and what the buckets count.    *)
Fits(d) ==
  /\ 2 * (d * Period) <= 2 * (FirstEcho - first - MaxJitter) + Period
  /\ 2 * (FirstEcho - first - MaxJitter) + Period < 2 * (d * Period) + 2 * Period
  /\ \A r \in 1..N : Lands(r, d) \/ Lands(r, d + 1) \/ Misses(r)

Sorted == SortInv /\ pc = "done" /\ ~NoBuckets /\ EarlyFirst /\ Agreed # {}

LEMMA CellLands ==
  ASSUME Sorted, NEW d \in Int, Fits(d), NEW k \in Bucket, NEW c \in CountedIn(k), c # <<1, 1>>
  PROVE  /\ \E o \in {d, d + 1} :
              /\ Lands(c[1], o) /\ k - 10 - o \in heard[c[1]]
              /\ \E jitter \in Jitter : times[c[1]][c[2]] = Echo(k - 10 - o, jitter)
         /\ \A b \in CountedIn(k) : b # <<1, 1>> /\ b[1] = c[1] => b = c
<1>1. \A b \in CountedIn(k) :
        /\ b[1] \in 1..N /\ b[2] \in 1..Len(times[b[1]])
        /\ In(k, times[b[1]][b[2]]) /\ b = <<b[1], b[2]>>
  BY CountedDone DEF Sorted
<1>2. PICK r \in 1..N, n \in Int : /\ r = c[1] /\ n = c[2] /\ n \in 1..Len(times[r])
                                  /\ In(k, times[r][n]) /\ (r = 1 => n # 1)
  <2>1. c[2] \in Int
    BY DEF CountedIn, Cells
  <2>2. QED
    BY <1>1, <2>1
<1>3. ~Misses(r)
  BY <1>2 DEF Misses
<1>4. PICK o \in {d, d + 1} : Lands(r, o)
  BY <1>3 DEF Fits
<1>5. k - 10 - o \in heard[r] /\ \E jitter \in Jitter : times[r][n] = Echo(k - 10 - o, jitter)
  BY <1>2, <1>4 DEF Lands
<1>6. ASSUME NEW b \in CountedIn(k), b # <<1, 1>>, b[1] = c[1] PROVE b = c
  <2>1. PICK m \in 1..Len(times[r]) : b = <<r, m>> /\ m = b[2] /\ In(k, times[r][m]) /\ (r = 1 => m # 1)
    BY <1>1, <1>2, <1>6
  <2>2. m = n
    BY <1>2, <1>4, <2>1 DEF Lands
  <2>3. QED
    BY <1>1, <1>2, <2>1, <2>2
<1>7. QED
  BY <1>2, <1>4, <1>5, <1>6

(* The first time is in bucket 10 and in no other.                         *)
LEMMA FirstInTen ==
  ASSUME Sorted, NEW k \in Bucket, k # 10
  PROVE  <<1, 1>> \notin CountedIn(k)
<1>1. PICK c \in Int : c = first
  BY DEF Sorted, EarlyFirst
<1>2. PICK m \in Int : m = k - 10 /\ (m >= 1 \/ m <= -1)
  BY DEF Bucket
<1>3. PICK x \in Int : x = m * Period /\ (x >= Period \/ x <= -Period)
  BY <1>2, MultipleOfPeriod
<1>4. Centre(k) = c + x /\ (2 * ((c + x) - c) >= Period \/ 2 * (c - (c + x)) >= Period)
  <2>1. Centre(k) = c + x
    BY <1>1, <1>2, <1>3 DEF Centre
  <2>2. x >= Period => 2 * ((c + x) - c) >= Period
    OBVIOUS
  <2>3. x <= -Period => 2 * (c - (c + x)) >= Period
    OBVIOUS
  <2>4. QED
    BY <1>3, <2>1, <2>2, <2>3
<1>5. ~In(k, first)
  BY <1>1, <1>4 DEF In
<1>6. QED
  BY <1>5, CountedDone DEF Sorted, first

(* A bucket counts no more than the rows that heard either of two echoes,  *)
(* and bucket 10 the first time besides.                                   *)
LEMMA CountBelow ==
  ASSUME Sorted, NEW d \in Int, Fits(d), NEW k \in Bucket
  PROVE  /\ Cardinality(Hearing(k - 10 - d) \cup Hearing(k - 10 - d - 1)) \in Nat
         /\ count[k] <= Cardinality(Hearing(k - 10 - d) \cup Hearing(k - 10 - d - 1)) + (IF k = 10 THEN 1 ELSE 0)
<1> DEFINE own == CountedIn(k) \ {<<1, 1>>}
           either == Hearing(k - 10 - d) \cup Hearing(k - 10 - d - 1)
           row == [c \in own |-> c[1]]
<1>1. k \in Int
  BY DEF Bucket
<1>2. DOMAIN heard = 1..N
  BY DEF Sorted, SortInv, IInv, Typed, RowsKnown
<1>3. IsFiniteSet(either)
  <2>1. either \in SUBSET (1..N)
    BY <1>2 DEF Hearing
  <2> HIDE DEF either
  <2>2. IsFiniteSet(1..N)
    BY FS_Interval
  <2>3. QED
    BY <2>1, <2>2, FS_Subset
<1>4. ASSUME NEW c \in own PROVE c[1] \in either
  <2>1. c[1] \in 1..N
    BY CountedDone DEF Sorted
  <2>2. PICK o \in {d, d + 1} : k - 10 - o \in heard[c[1]]
    BY CellLands
  <2>3. k - 10 - (d + 1) = k - 10 - d - 1
    BY <1>1
  <2>4. k - 10 - d \in heard[c[1]] \/ k - 10 - d - 1 \in heard[c[1]]
    BY <2>2, <2>3
  <2>5. QED
    BY <1>2, <2>1, <2>4 DEF Hearing
<1>5. ASSUME NEW b \in own, NEW c \in own, b[1] = c[1] PROVE b = c
  BY <1>5, CellLands
<1>6. row \in Injection(own, either)
  <2> HIDE DEF own, either
  <2>1. row \in [own -> either]
    BY <1>4
  <2>2. QED
    BY <2>1, <1>5, Fun_IsInj
<1>7. Cardinality(own) <= Cardinality(either) /\ Cardinality(either) \in Nat
  <2> HIDE DEF own, either, row
  <2>1. QED
    BY <1>3, <1>6, FS_Injection, FS_CardinalityType
<1>8. /\ count[k] = Cardinality(CountedIn(k)) /\ IsFiniteSet(CountedIn(k))
      /\ Cardinality(CountedIn(k)) \in Nat
  BY CountedDone, FS_CardinalityType DEF Sorted
<1>9. Cardinality(own) = IF <<1, 1>> \in CountedIn(k) THEN count[k] - 1 ELSE count[k]
  BY <1>8, FS_RemoveElement
<1>10. QED
  <2> HIDE DEF own, either
  <2>1. k # 10 => Cardinality(own) = count[k]
    BY <1>9, FirstInTen
  <2>2. Cardinality(own) >= count[k] - 1
    BY <1>8, <1>9
  <2>3. PICK x \in Nat, y \in Nat : x = count[k] /\ y = Cardinality(either)
    BY <1>7, <1>8
  <2>4. k # 10 => x <= y
    BY <1>7, <2>1, <2>3
  <2>5. x - 1 <= y
    BY <1>7, <1>8, <1>9, <2>3
  <2>6. x <= y + (IF k = 10 THEN 1 ELSE 0)
    BY <2>3, <2>4, <2>5
  <2>7. QED
    BY <2>3, <2>6 DEF either

(* A bucket that has, at either offset, one of eight echoes that all rows  *)
(* hear counts no less than any bucket but 10.                             *)
LEMMA FullerBehind ==
  ASSUME Sorted, AllHearOn, NEW d \in Int, Fits(d), NEW k \in Bucket, k # 10,
         NEW l \in Bucket, Min(Agreed) + 11 + d <= l, l <= Min(Agreed) + 17 + d
  PROVE  count[k] <= count[l]
<1>1. PICK a \in Nat : a = Min(Agreed)
  BY AgreedIsFirst DEF Sorted
<1>2. l \in Int
  BY DEF Bucket
<1>3. \A r \in 1..N : l - 10 - d \in heard[r] /\ l - 10 - (d + 1) \in heard[r]
  <2>1. l - 10 - d \in a..(a + 7) /\ l - 10 - (d + 1) \in a..(a + 7)
    BY <1>1, <1>2
  <2>2. QED
    BY <1>1, <2>1 DEF AllHearOn
<1>4. ASSUME NEW c \in CountedIn(k) PROVE \E n : <<c[1], n>> \in CountedIn(l)
  <2>1. c # <<1, 1>>
    BY FirstInTen
  <2>2. PICK o \in {d, d + 1} : Lands(c[1], o)
    BY <2>1, CellLands
  <2>3. c[1] \in 1..N
    BY CountedDone DEF Sorted
  <2>4. l - 10 - o \in heard[c[1]]
    BY <1>3, <2>2, <2>3
  <2>5. PICK n \in 1..Len(times[c[1]]) : In(l, times[c[1]][n]) /\ times[c[1]][n] # 0
    BY <2>2, <2>4 DEF Lands
  <2>6. <<c[1], n>> \in Cells
    <3>1. Len(times[c[1]]) \in 1..STOP_QUEUE_LENGTH
      BY <2>3 DEF Sorted, SortInv, IInv, Typed
    <3>2. QED
      BY <2>3, <3>1 DEF Cells
  <2>7. <<c[1], n>> \in CountedIn(l)
    BY <2>3, <2>5, <2>6, CountedDone DEF Sorted
  <2>8. QED
    BY <2>7
<1> DEFINE to == [c \in CountedIn(k) |-> <<c[1], CHOOSE n : <<c[1], n>> \in CountedIn(l)>>]
<1>5. to \in [CountedIn(k) -> CountedIn(l)]
  BY <1>4
<1>6. ASSUME NEW b \in CountedIn(k), NEW c \in CountedIn(k), to[b] = to[c] PROVE b = c
  <2>1. b[1] = c[1]
    BY <1>6
  <2>2. b # <<1, 1>> /\ c # <<1, 1>>
    BY FirstInTen
  <2>3. QED
    BY <2>1, <2>2, CellLands
<1>7. to \in Injection(CountedIn(k), CountedIn(l))
  <2> HIDE DEF to
  <2>1. QED
    BY <1>5, <1>6, Fun_IsInj
<1>8. QED
  <2> HIDE DEF to
  <2>1. Cardinality(CountedIn(k)) <= Cardinality(CountedIn(l))
    BY <1>7, CellsAreFinite, FS_Injection
  <2>2. QED
    BY <2>1, CountedDone DEF Sorted
-----------------------------------------------------------------------------
(* Who hears eight echoes keeps eight stops.                               *)
LEMMA EightStops ==
  ASSUME SortInv, Len(times) = N, Agreed # {}, AllHearOn
  PROVE  STOP_QUEUE_LENGTH >= 8
<1>1. PICK a \in Nat : a = Min(Agreed)
  BY AgreedIsFirst
<1>2. 1 \in 1..N /\ a..(a + 7) \subseteq heard[1]
  BY <1>1 DEF AllHearOn
<1>3. PICK len \in Nat, echoes \in Echoes, jitter \in Jitter : RowOf(times[1], heard[1], len, echoes, jitter)
  BY <1>2 DEF SortInv, RowsKnown
<1>4. PICK stops \in 1..STOP_QUEUE_LENGTH : stops = Len(times[1])
  <2>1. 1 \in DOMAIN times
    BY <1>2 DEF SortInv, IInv, Typed
  <2>2. QED
    BY <2>1 DEF SortInv, IInv, Typed
<1> DEFINE at == [e \in a..(a + 7) |-> CHOOSE n \in 1..stops : e = echoes[n - len]]
<1>5. \A e \in a..(a + 7) : at[e] \in 1..stops /\ e = echoes[at[e] - len]
  <2>1. \A e \in a..(a + 7) : \E n \in 1..stops : e = echoes[n - len]
    BY <1>2, <1>3, <1>4 DEF RowOf
  <2>2. QED
    BY <2>1
<1>6. at \in Injection(a..(a + 7), 1..stops)
  <2>1. at \in [a..(a + 7) -> 1..stops]
    BY <1>5
  <2> HIDE DEF at
  <2>2. \A e, f \in a..(a + 7) : at[e] = at[f] => e = f
    BY <1>5
  <2>3. QED
    BY <2>1, <2>2, Fun_IsInj
<1>7. Cardinality(a..(a + 7)) = 8 /\ IsFiniteSet(1..stops) /\ Cardinality(1..stops) = stops
  <2>1. a + 7 \in Int /\ a <= a + 7 /\ (a + 7) - a + 1 = 8
    OBVIOUS
  <2>2. IsFiniteSet(1..stops) /\ Cardinality(1..stops) = stops
    BY FS_Interval
  <2>3. Cardinality(a..(a + 7)) = 8
    BY <2>1, FS_Interval
  <2>4. QED
    BY <2>2, <2>3
<1>8. 8 <= stops
  <2> HIDE DEF at
  <2>1. Cardinality(a..(a + 7)) <= Cardinality(1..stops)
    BY <1>6, <1>7, FS_Injection
  <2>2. QED
    BY <1>7, <2>1
<1>9. QED
  BY <1>4, <1>8

(* The bucket behind that of the agreed echo, at the smaller offset, is    *)
(* one behind bucket 10, and the first full one is not behind it.          *)
LEMMA IndexIsNotBehind ==
  ASSUME Sorted, AllHearOn, NEW d \in Int, Fits(d)
  PROVE  /\ Min(Agreed) + 11 + d >= 11
         /\ Full # {} /\ index # 10 /\ Min(Agreed) + 11 + d \in Bucket => index <= Min(Agreed) + 11 + d
<1>1. PICK a \in Nat : a = Min(Agreed)
  BY AgreedIsFirst DEF Sorted
<1>2. PICK w \in Nat : w = MaxJitter /\ 4 * w < Period
  BY AgreedIsFirst, MaxJitterBounds DEF Sorted
<1>3. PICK l \in Int : l = a + 11 + d
  OBVIOUS
<1>4. l >= 11
  <2>1. PICK f \in Int : f = first
    BY DEF Sorted, EarlyFirst
  <2>2. PICK p \in Int, q \in Int : p = d * Period /\ q = a * Period /\ (a + d) * Period = q + p
    OBVIOUS
  <2>3. f <= FirstEcho + q + w
    BY <1>1, <1>2, <2>1, <2>2 DEF Sorted, EarlyFirst
  <2>4. 2 * (FirstEcho - f - w) + Period < 2 * p + 2 * Period
    BY <1>2, <2>1, <2>2 DEF Fits
  <2>5. q + p > -Period
    BY <1>2, <2>3, <2>4
  <2>6. a + d > -1
    <3>1. PICK m \in Int : m = a + d /\ m * Period = q + p
      BY <2>2
    <3>2. m <= -1 => m * Period <= -Period
      BY MultipleOfPeriod
    <3>3. QED
      BY <2>5, <3>1, <3>2
  <2>7. QED
    BY <1>3, <2>6
<1>5. ASSUME Full # {}, index # 10, l \in Bucket, index > l PROVE FALSE
  <2>1. index \in Bucket /\ count[index] >= Quota /\ \A k \in Full : index <= k
    BY <1>5, IndexIsFirstFull DEF Full
  <2>2. count[index] <= count[l]
    BY <1>1, <1>3, <1>5, <2>1, FullerBehind
  <2>3. count[index] \in Nat /\ count[l] \in Nat
    BY <1>5, <2>1 DEF Sorted, SortInv, IInv, Typed
  <2>4. l \in Full
    BY <1>5, <2>1, <2>2, <2>3 DEF Full
  <2>5. QED
    BY <1>5, <2>1, <2>4 DEF Bucket
<1>6. index \in Int
  BY IndexIsFirstFull DEF Bucket
<1>7. QED
  BY <1>1, <1>3, <1>4, <1>5, <1>6

(* A result outside the table means that the first time was that early.    *)
LEMMA OutsideIsEarly == SortInv => OutsideOnlyIfFarTooEarly
<1> SUFFICES ASSUME SortInv, timeOfFlight.kind = "outside", Agreed # {}, AllHearOn
             PROVE  2 * (FirstEcho + Min(Agreed) * Period - first)
                      >= (2 * STOP_QUEUE_LENGTH - 15) * Period
  BY DEF OutsideOnlyIfFarTooEarly
<1>1. pc = "done" /\ ~NoBuckets /\ timeOfFlight = Result
  BY DEF SortInv, LoopsRun
<1>2. Len(times) = N
  BY <1>1 DEF SortInv, IInv, Typed
<1>3. index + 6 \notin Bucket
  BY <1>1 DEF Result
<1>4. STOP_QUEUE_LENGTH >= 8
  BY <1>2, EightStops
<1>5. index \in Bucket /\ index >= STOP_QUEUE_LENGTH + 4 /\ index > 10
  BY <1>3, <1>4, IndexIsFirstFull DEF Bucket, RELATIVE_TIMES_COUNT
<1>6. Full # {}
  BY <1>5 DEF index
<1>7. count[index] > 1
  <2>1. count[index] >= Quota /\ count[index] \in Nat
    BY <1>5, <1>6, IndexIsFirstFull DEF Full, SortInv, IInv, Typed
  <2>2. QED
    BY <2>1, PrefixAssumption DEF PrefixAssumption
<1>8. Sorted
  <2>1. ~(count[index] <= 1)
    BY <1>5, <1>7 DEF SortInv, IInv, Typed
  <2>2. QED
    BY <1>1, <1>5, <2>1, FirstCases DEF Sorted
<1>9. PICK d \in Int : Fits(d)
  BY <1>1, <1>8, RowsLand DEF Sorted, Fits
<1>10. PICK a \in Nat : a = Min(Agreed)
  BY AgreedIsFirst
<1>11. a + 11 + d >= STOP_QUEUE_LENGTH + 4
  <2>1. SUFFICES ASSUME a + 11 + d < STOP_QUEUE_LENGTH + 4 PROVE FALSE
    OBVIOUS
  <2>2. a + 11 + d >= 11
    BY <1>8, <1>9, <1>10, IndexIsNotBehind
  <2>3. a + 11 + d \in Bucket
    BY <2>1, <2>2 DEF Bucket, RELATIVE_TIMES_COUNT
  <2>4. index <= a + 11 + d
    BY <1>5, <1>6, <1>8, <1>9, <1>10, <2>3, IndexIsNotBehind
  <2>5. index \in Int
    BY <1>5 DEF Bucket
  <2>6. QED
    BY <1>5, <2>1, <2>4, <2>5
<1>12. PICK p \in Int, q \in Int, s \in Int :
         /\ p = d * Period /\ q = a * Period /\ s = STOP_QUEUE_LENGTH * Period
         /\ q + p >= s - 7 * Period
  <2>1. (a + d + 7 - STOP_QUEUE_LENGTH) * Period \in Nat
    BY <1>11
  <2>2. (a + d + 7 - STOP_QUEUE_LENGTH) * Period
          = a * Period + d * Period + 7 * Period - STOP_QUEUE_LENGTH * Period
    OBVIOUS
  <2>3. QED
    BY <2>1, <2>2
<1>13. PICK w \in Nat, f \in Int : w = MaxJitter /\ f = first /\ 2 * p <= 2 * (FirstEcho - f - w) + Period
  <2>1. MaxJitter \in Nat /\ first \in Int
    BY <1>8, AgreedIsFirst, MaxJitterBounds DEF Sorted, EarlyFirst
  <2>2. QED
    BY <1>9, <1>12, <2>1 DEF Fits
<1>14. 2 * (FirstEcho + q - f) >= 2 * s - 15 * Period
  BY <1>12, <1>13
<1>15. (2 * STOP_QUEUE_LENGTH - 15) * Period = 2 * s - 15 * Period
  BY <1>12
<1>16. QED
  BY <1>10, <1>12, <1>13, <1>14, <1>15

(* With agreeing pulses, a result outside the table is due to a stop long  *)
(* before the echoes.                                                      *)
THEOREM OutsideOnlyIfEarly == Spec => []OutsideOnlyIfFarTooEarly
<1>1. QED
  BY InitSortInv, NextSortInv, OutsideIsEarly, PTL DEF Spec
-----------------------------------------------------------------------------
(* The times in a bucket behind bucket 10 are those of two echoes.         *)
LEMMA TimesOfTwoEchoes ==
  ASSUME Sorted, NEW d \in Int, Fits(d), NEW k \in Bucket, k # 10,
         NEW x \in Int, k = x + 10 + d
  PROVE  /\ (FirstEcho + x * Period - Period - MaxJitter) * count[k] <= timeAccumulated[k]
         /\ timeAccumulated[k] <= (FirstEcho + x * Period + MaxJitter) * count[k]
<1>1. PICK w \in Nat : w = MaxJitter /\ \A jitter \in Jitter : -w <= jitter /\ jitter <= w
  BY AgreedIsFirst, MaxJitterBounds DEF Sorted
<1>2. PICK q \in Int : q = x * Period /\ (x - 1) * Period = q - Period
  OBVIOUS
<1>3. ASSUME NEW c \in CountedIn(k)
      PROVE  FirstEcho + q - Period - w <= times[c[1]][c[2]] /\ times[c[1]][c[2]] <= FirstEcho + q + w
  <2>1. c # <<1, 1>>
    BY FirstInTen
  <2>2. PICK o \in {d, d + 1}, jitter \in Jitter : times[c[1]][c[2]] = Echo(k - 10 - o, jitter)
    BY <2>1, CellLands
  <2>3. k - 10 - o = x \/ k - 10 - o = x - 1
    BY <2>2
  <2>4. jitter \in Int /\ -w <= jitter /\ jitter <= w
    BY <1>1, FlightAssumption DEF FlightAssumption
  <2>5. Echo(x, jitter) = FirstEcho + q + jitter /\ Echo(x - 1, jitter) = FirstEcho + (q - Period) + jitter
    BY <1>2 DEF Echo
  <2>6. times[c[1]][c[2]] = FirstEcho + q + jitter \/ times[c[1]][c[2]] = FirstEcho + (q - Period) + jitter
    BY <2>2, <2>3, <2>5
  <2>7. QED
    BY <1>1, <1>2, <2>4, <2>6
<1>4. PICK low \in Int, high \in Int : low = FirstEcho + q - Period - w /\ high = FirstEcho + q + w
  BY <1>1, <1>2
<1>5. low * count[k] <= timeAccumulated[k] /\ timeAccumulated[k] <= high * count[k]
  <2>1. \A c \in CountedIn(k) : low <= times[c[1]][c[2]] /\ times[c[1]][c[2]] <= high
    BY <1>3, <1>4
  <2>2. QED
    BY <2>1, CountedDone DEF Sorted
<1>6. QED
  BY <1>1, <1>2, <1>4, <1>5

(* The first full bucket: that of an echo that, with the one before, all   *)
(* but one of a quorum heard, and no more than one behind the agreed one.  *)
LEMMA IndexIsAlmostAgreed ==
  ASSUME Sorted, AllHearOn, first < FirstEcho, timeOfFlight.kind = "time",
         NEW d \in Int, Fits(d)
  PROVE  \E x \in Nat :
           /\ index = x + 10 + d /\ d >= 0
           /\ x <= Min(Agreed) + 1
           /\ Cardinality(Hearing(x) \cup Hearing(x - 1)) >= Quota - 1
<1>1. PICK a \in Nat : a = Min(Agreed)
  BY AgreedIsFirst DEF Sorted
<1>2. d >= 0
  <2>1. PICK w \in Nat, f \in Int, p \in Int : w = MaxJitter /\ 4 * w < Period /\ f = first /\ p = d * Period
    BY AgreedIsFirst, MaxJitterBounds DEF Sorted, EarlyFirst
  <2>2. 2 * (FirstEcho - f - w) + Period < 2 * p + 2 * Period /\ f < FirstEcho
    BY <2>1 DEF Fits
  <2>3. p > -Period
    BY <2>1, <2>2
  <2>4. d <= -1 => d * Period <= -Period
    BY MultipleOfPeriod
  <2>5. QED
    BY <2>1, <2>3, <2>4
<1>3. /\ Result.kind = "time" /\ Typed
      /\ index + 6 \in Bucket /\ index \in Bucket /\ index \in Int
      /\ count[index + 4] > 0
  <2>1. Typed /\ Result.kind = "time"
    BY DEF Sorted, SortInv, IInv, LoopsRun
  <2>2. index \in Int
    BY IndexIsFirstFull DEF Bucket
  <2>3. QED
    BY <2>1, <2>2, ResultIsFraction, IndexIsFirstFull
<1>4. heard \in Seq(SUBSET Nat)
  BY DEF Sorted, SortInv, RowsKnown
<1>5. ASSUME NEW e \in Int, e < 0 PROVE Hearing(e) = {}
  BY <1>4, <1>5 DEF Hearing
<1>6. ASSUME NEW k \in Bucket, k - 10 - d < 0, count[k] > 1 \/ (count[k] > 0 /\ k # 10) PROVE FALSE
  <2>1. k \in Int
    BY DEF Bucket
  <2>2. Hearing(k - 10 - d) \cup Hearing(k - 10 - d - 1) = {}
    BY <1>5, <1>6, <2>1
  <2>3. Cardinality(Hearing(k - 10 - d) \cup Hearing(k - 10 - d - 1)) = 0
    BY <2>2, FS_EmptySet
  <2>4. count[k] <= 0 + (IF k = 10 THEN 1 ELSE 0)
    BY <2>3, CountBelow
  <2>5. QED
    BY <1>3, <1>6, <2>1, <2>4 DEF Typed
<1>7. Full # {}
  <2>1. SUFFICES ASSUME Full = {} PROVE FALSE
    OBVIOUS
  <2>2. index = 0
    BY <2>1 DEF index
  <2>3. 4 \in Bucket /\ count[4] > 0
    <3>1. index + 4 = 4
      BY <2>2
    <3>2. QED
      BY <1>3, <3>1 DEF Bucket, RELATIVE_TIMES_COUNT
  <2>4. 4 - 10 - d < 0
    BY <1>2
  <2>5. QED
    BY <1>6, <2>3, <2>4
<1>8. count[index] >= Quota /\ count[index] \in Nat /\ count[index] > 1
  <2>1. count[index] >= Quota /\ count[index] \in Nat
    BY <1>3, <1>7, IndexIsFirstFull DEF Full, Typed
  <2>2. QED
    BY <2>1, PrefixAssumption DEF PrefixAssumption
<1>9. PICK x \in Int : x = index - 10 - d
  BY <1>3
<1>10. x >= 0 /\ index = x + 10 + d
  <2>1. ~(x < 0)
    BY <1>3, <1>6, <1>8, <1>9
  <2>2. QED
    BY <1>3, <1>9, <2>1
<1>11. x <= a + 1
  <2>1. CASE index = 10
    BY <1>1, <1>2, <1>10, <2>1
  <2>2. CASE index # 10
    <3>1. SUFFICES ASSUME index > a + 11 + d PROVE FALSE
      BY <1>1, <1>3, <1>10
    <3>2. a + 11 + d \in Bucket
      BY <1>1, <1>2, <1>3, <3>1 DEF Bucket, RELATIVE_TIMES_COUNT
    <3>3. index <= a + 11 + d
      BY <1>1, <1>7, <2>2, <3>2, IndexIsNotBehind
    <3>4. QED
      BY <1>1, <1>3, <3>1, <3>3
  <2>3. QED
    BY <2>1, <2>2
<1>12. Cardinality(Hearing(x) \cup Hearing(x - 1)) >= Quota - 1
  <2>1. /\ Cardinality(Hearing(x) \cup Hearing(x - 1)) \in Nat
        /\ count[index] <= Cardinality(Hearing(x) \cup Hearing(x - 1)) + (IF index = 10 THEN 1 ELSE 0)
    BY <1>3, <1>9, CountBelow
  <2>2. PICK y \in Nat : y = Cardinality(Hearing(x) \cup Hearing(x - 1)) /\ count[index] <= y + 1
    BY <1>8, <2>1
  <2>3. QED
    BY <1>8, <2>2
<1>13. x \in Nat /\ x <= Min(Agreed) + 1
  BY <1>1, <1>10, <1>11
<1>14. QED
  BY <1>2, <1>10, <1>12, <1>13

(* The first such echo is no later than any, and than the agreed one.      *)
LEMMA FirstAlmostAgreed ==
  ASSUME SortInv, Len(times) = N, Agreed # {}
  PROVE  /\ Min(AlmostAgreed) \in Nat /\ Min(AlmostAgreed) <= Min(Agreed)
         /\ \A x \in 0..Min(Agreed) :
              Cardinality(Hearing(x) \cup Hearing(x - 1)) >= Quota - 1 => Min(AlmostAgreed) <= x
<1>1. PICK a \in Nat : a = Min(Agreed) /\ Cardinality(Hearing(a)) >= Quota
  BY AgreedIsFirst
<1>2. a \in AlmostAgreed
  <2>1. DOMAIN heard = 1..N
    BY DEF SortInv, RowsKnown
  <2>2. Hearing(a) \cup Hearing(a - 1) \in SUBSET (1..N)
    BY <2>1 DEF Hearing
  <2>3. IsFiniteSet(1..N)
    BY FS_Interval
  <2>4. IsFiniteSet(Hearing(a) \cup Hearing(a - 1))
    BY <2>2, <2>3, FS_Subset
  <2>5. Hearing(a) \in SUBSET (Hearing(a) \cup Hearing(a - 1))
    OBVIOUS
  <2>6. /\ IsFiniteSet(Hearing(a))
        /\ Cardinality(Hearing(a)) <= Cardinality(Hearing(a) \cup Hearing(a - 1))
    BY <2>4, <2>5, FS_Subset
  <2>7. PICK x \in Nat, y \in Nat : x = Cardinality(Hearing(a)) /\ y = Cardinality(Hearing(a) \cup Hearing(a - 1))
    BY <2>4, <2>6, FS_CardinalityType
  <2>8. y >= Quota - 1
    BY <1>1, <2>6, <2>7
  <2>9. QED
    BY <1>1, <2>7, <2>8 DEF AlmostAgreed
<1>3. AlmostAgreed \in SUBSET Nat /\ \A b \in AlmostAgreed : b <= a
  BY <1>1 DEF AlmostAgreed
<1>4. \E x \in AlmostAgreed : \A y \in AlmostAgreed : x <= y
  BY <1>2, <1>3, LeastElement
<1>5. Min(AlmostAgreed) \in AlmostAgreed /\ \A y \in AlmostAgreed : Min(AlmostAgreed) <= y
  BY <1>4 DEF Min
<1>6. \A x \in 0..a : Cardinality(Hearing(x) \cup Hearing(x - 1)) >= Quota - 1 => x \in AlmostAgreed
  BY <1>1 DEF AlmostAgreed
<1>7. QED
  BY <1>1, <1>3, <1>5, <1>6
-----------------------------------------------------------------------------
(* What is accepted comes from the buckets.                                *)
LEMMA AcceptedIsResult ==
  ASSUME SortInv, Accepted
  PROVE  /\ pc = "done" /\ ~NoBuckets /\ timeOfFlight = Result /\ timeOfFlight.kind = "time"
         /\ Typed /\ Len(times) = N /\ first \in Int
<1>1. pc = "done" /\ timeOfFlight.kind = "time"
  BY DEF Accepted
<1>2. ~NoBuckets
  <2>1. SUFFICES ASSUME NoBuckets PROVE FALSE
    OBVIOUS
  <2>2. timeOfFlight.num = 0 /\ timeOfFlight.den = 1
    BY <1>1, <2>1 DEF SortInv, LoopsRun
  <2>3. 0 < LOWER_TIME_LIMIT * 1
    BY FlightAssumption DEF FlightAssumption
  <2>4. QED
    BY <1>1, <2>2, <2>3 DEF Accepted, OutOfRange
<1>3. first \in Int
  BY <1>1, RowsAreThere DEF SortInv, IInv
<1>4. QED
  BY <1>1, <1>2, <1>3 DEF SortInv, IInv, LoopsRun, Typed

LEMMA SpuriousIsClose == SortInv => SpuriousStopCountsOnce
<1> SUFFICES ASSUME SortInv, Accepted, Agreed # {}, AllHearOn, first < FirstEcho
             PROVE  Within((Min(Agreed) - Min(AlmostAgreed) + 1) * Period + MaxJitter)
  BY DEF SpuriousStopCountsOnce
<1>1. /\ pc = "done" /\ ~NoBuckets /\ timeOfFlight = Result /\ timeOfFlight.kind = "time"
      /\ Typed /\ Len(times) = N /\ first \in Int
  BY AcceptedIsResult
<1>2. Sorted
  <2>1. ~(first >= FirstEcho)
    BY <1>1
  <2>2. QED
    BY <1>1, <2>1, FirstCases DEF Sorted
<1>3. PICK d \in Int : Fits(d)
  BY <1>1, <1>2, RowsLand DEF Sorted, Fits
<1>4. PICK x \in Nat :
           /\ index = x + 10 + d /\ d >= 0
           /\ x <= Min(Agreed) + 1
           /\ Cardinality(Hearing(x) \cup Hearing(x - 1)) >= Quota - 1
  BY <1>1, <1>2, <1>3, IndexIsAlmostAgreed
<1>5. PICK a \in Nat, b \in Nat, w \in Nat :
        /\ a = Min(Agreed) /\ b = Min(AlmostAgreed) /\ w = MaxJitter
        /\ b <= a /\ b <= x /\ x <= a + 1
  <2>1. Min(Agreed) \in Nat /\ MaxJitter \in Nat
    BY AgreedIsFirst, MaxJitterBounds
  <2>2. Min(AlmostAgreed) \in Nat /\ Min(AlmostAgreed) <= Min(Agreed)
    BY <1>1, FirstAlmostAgreed
  <2>3. CASE x <= Min(Agreed)
    <3>1. x \in 0..Min(Agreed)
      BY <2>1, <2>3
    <3>2. Min(AlmostAgreed) <= x
      BY <1>1, <1>4, <3>1, FirstAlmostAgreed
    <3>3. QED
      BY <1>4, <2>1, <2>2, <3>2
  <2>4. CASE x > Min(Agreed)
    BY <1>4, <2>1, <2>2, <2>4
  <2>5. QED
    BY <2>1, <2>3, <2>4
<1>6. PICK q \in Int, v \in Int : q = x * Period /\ v = FirstEcho + q - Shift
  OBVIOUS
<1>7. ASSUME NEW m \in {4, 5, 6} PROVE index + m \in Bucket
  <2>1. index + 6 \in Bucket
    BY <1>1, ResultIsFraction
  <2>2. QED
    BY <1>4, <1>7, <2>1 DEF Bucket, RELATIVE_TIMES_COUNT
<1>8. ASSUME NEW m \in {4, 5, 6}
       PROVE  /\ (v + Shift + m * Period - (Period + w)) * count[index + m] <= timeAccumulated[index + m]
              /\ timeAccumulated[index + m] <= (v + Shift + m * Period + w) * count[index + m]
  <2>1. PICK k \in Bucket : k = index + m /\ k # 10 /\ k = (x + m) + 10 + d
    BY <1>4, <1>7, <1>8
  <2>2. /\ (FirstEcho + (x + m) * Period - Period - w) * count[k] <= timeAccumulated[k]
        /\ timeAccumulated[k] <= (FirstEcho + (x + m) * Period + w) * count[k]
    <3>1. x + m \in Int
      OBVIOUS
    <3>2. QED
      BY <1>2, <1>3, <1>5, <2>1, <3>1, TimesOfTwoEchoes
  <2>3. /\ v + Shift + m * Period - (Period + w) = FirstEcho + (x + m) * Period - Period - w
        /\ v + Shift + m * Period + w = FirstEcho + (x + m) * Period + w
    <3>1. PICK p \in Int : p = m * Period /\ (x + m) * Period = q + p
      BY <1>6
    <3>2. QED
      BY <1>5, <1>6, <3>1
  <2>4. QED
    BY <2>1, <2>2, <2>3
<1>9. /\ timeOfFlight.num \in Int /\ timeOfFlight.den \in Nat
       /\ timeOfFlight.num - v * timeOfFlight.den <= w * timeOfFlight.den
       /\ v * timeOfFlight.den - timeOfFlight.num <= (Period + w) * timeOfFlight.den
  <2>1. Period + w \in Int /\ w \in Int
    BY <1>5
  <2>2. QED
    BY <1>1, <1>6, <1>7, <1>8, <2>1, ResultBetween
<1>10. PICK t \in Int, off \in Int :
         /\ t = TrueTime /\ off = (a - b + 1) * Period + w
         /\ v - t + w <= off /\ t - v + Period + w <= off
  <2>1. PICK p \in Int : p = a * Period
    OBVIOUS
  <2>2. TrueTime = FirstEcho + p - Shift
    BY <1>5, <2>1 DEF TrueTime
  <2>3. /\ (a + 1 - x) * Period \in Nat /\ (a + 1 - x) * Period = p + Period - q
        /\ (a - b) * Period \in Nat /\ (x - b) * Period \in Nat
        /\ (a - b + 1) * Period = (a - b) * Period + Period
        /\ (a - b) * Period = (x - b) * Period + p - q
    BY <1>5, <1>6, <2>1
  <2>4. PICK y \in Nat, z \in Nat : y = (a - b) * Period /\ z = (x - b) * Period /\ y = z + p - q
                                    /\ (a - b + 1) * Period = y + Period /\ p + Period - q >= 0
    BY <2>3
  <2>5. PICK t \in Int, off \in Int : t = FirstEcho + p - Shift /\ off = y + Period + w
    BY <1>5, <2>4
  <2>6. v - t + w <= off /\ t - v + Period + w <= off
    BY <1>5, <1>6, <2>1, <2>4, <2>5
  <2>7. QED
    BY <2>2, <2>4, <2>5, <2>6
<1>11. PICK num \in Int, den \in Nat : num = timeOfFlight.num /\ den = timeOfFlight.den
  BY <1>9
<1>12. /\ (v - t + w) * den <= off * den /\ (t - v + Period + w) * den <= off * den
  <2>1. PICK lo \in Int, hi \in Int : lo = v - t + w /\ hi = t - v + Period + w /\ lo <= off /\ hi <= off
    BY <1>5, <1>10
  <2>2. (off - lo) * den \in Nat /\ (off - hi) * den \in Nat
    BY <2>1
  <2>3. (off - lo) * den = off * den - lo * den /\ (off - hi) * den = off * den - hi * den
    OBVIOUS
  <2>4. QED
    BY <2>1, <2>2, <2>3
<1>13. num - t * den <= off * den /\ t * den - num <= off * den
  <2>1. /\ (v - t + w) * den = v * den - t * den + w * den
        /\ (t - v + Period + w) * den = t * den - v * den + (Period + w) * den
    BY <1>5
  <2>2. PICK x1 \in Int, x2 \in Int, x3 \in Int, x4 \in Int, x5 \in Int :
          x1 = v * den /\ x2 = t * den /\ x3 = w * den /\ x4 = (Period + w) * den /\ x5 = off * den
    BY <1>5
  <2>3. num - x1 <= x3 /\ x1 - num <= x4 /\ x1 - x2 + x3 <= x5 /\ x2 - x1 + x4 <= x5
    BY <1>9, <1>11, <1>12, <2>1, <2>2
  <2>4. num - x2 <= x5 /\ x2 - num <= x5
    BY <1>11, <2>2, <2>3
  <2>5. QED
    BY <2>2, <2>4
<1>14. QED
  BY <1>5, <1>10, <1>11, <1>13 DEF Within

(* A spurious stop before the echoes counts as one more pulse's at most.   *)
THEOREM SpuriousStopsCountOnce == Spec => []SpuriousStopCountsOnce
<1>1. QED
  BY InitSortInv, NextSortInv, SpuriousIsClose, PTL DEF Spec
-----------------------------------------------------------------------------
(* The times in a bucket are whole numbers less than half a period from    *)
(* its centre.                                                             *)
LEMMA SumNearCentre ==
  ASSUME SortInv, pc = "done", ~NoBuckets, first \in Int, NEW k \in Bucket,
         NEW h \in Nat, Period <= 2 * h + 2
  PROVE  /\ (Centre(k) - h) * count[k] <= timeAccumulated[k]
         /\ timeAccumulated[k] <= (Centre(k) + h) * count[k]
<1>1. PICK c \in Int : c = Centre(k)
  BY CentresSpan
<1>2. ASSUME NEW cell \in CountedIn(k)
      PROVE  c - h <= times[cell[1]][cell[2]] /\ times[cell[1]][cell[2]] <= c + h
  <2>1. PICK r \in 1..N, n \in Int : r = cell[1] /\ n = cell[2] /\ n \in 1..Len(times[r]) /\ In(k, times[r][n])
    <3>1. cell[2] \in Int
      BY DEF CountedIn, Cells
    <3>2. QED
      BY <3>1, CountedDone
  <2>2. PICK t \in Int : t = times[r][n]
    <3>1. times[r] \in Seq(Int)
      BY RowsAreThere DEF SortInv, IInv
    <3>2. QED
      BY <2>1, <3>1
  <2>3. 2 * (c - t) < Period /\ 2 * (t - c) < Period
    BY <1>1, <2>1, <2>2 DEF In
  <2>4. c - h <= t /\ t <= c + h
    BY <2>3
  <2>5. QED
    BY <2>1, <2>2, <2>4
<1>3. PICK low \in Int, high \in Int : low = c - h /\ high = c + h
  OBVIOUS
<1>4. low * count[k] <= timeAccumulated[k] /\ timeAccumulated[k] <= high * count[k]
  <2>1. \A cell \in CountedIn(k) : low <= times[cell[1]][cell[2]] /\ times[cell[1]][cell[2]] <= high
    BY <1>2, <1>3
  <2>2. QED
    BY <2>1, CountedDone
<1>5. QED
  BY <1>1, <1>3, <1>4

LEMMA AcceptedIsNotEarlier == SortInv => TenPeriodsEarlyAtMost
<1> DEFINE off == timeOfFlight.num - (first - 10 * Period - Shift) * timeOfFlight.den
<1> SUFFICES ASSUME SortInv, Accepted
             PROVE  /\ -2 * off < Period * timeOfFlight.den
                    /\ (\A k \in Bucket : count[k] < Quota) => 2 * off < Period * timeOfFlight.den
  BY DEF TenPeriodsEarlyAtMost
<1>1. /\ pc = "done" /\ ~NoBuckets /\ timeOfFlight = Result /\ timeOfFlight.kind = "time"
      /\ Typed /\ first \in Int
  BY AcceptedIsResult
<1>2. index \in Nat /\ ((\A k \in Bucket : count[k] < Quota) => index = 0)
  <2>1. ASSUME \A k \in Bucket : count[k] < Quota PROVE index = 0
    <3>1. \A k \in Bucket : ~(count[k] >= Quota)
      BY <1>1, <2>1 DEF Typed
    <3>2. Full = {}
      BY <3>1 DEF Full
    <3>3. QED
      BY <3>2 DEF index
  <2>2. index \in Nat
    BY IndexIsFirstFull DEF Bucket, RELATIVE_TIMES_COUNT
  <2>3. QED
    BY <2>1, <2>2
<1>3. \A m \in {4, 5, 6} : index + m \in Bucket
  <2>1. index + 6 \in Bucket
    BY <1>1, ResultIsFraction
  <2>2. QED
    BY <1>2, <2>1 DEF Bucket, RELATIVE_TIMES_COUNT
<1>4. PICK h \in Nat : 2 * h < Period /\ Period <= 2 * h + 2
  <2>1. PICK q \in Int : q * 2 <= Period - 1 /\ Period - 1 < q * 2 + 2
    <3>1. Period - 1 \in Int /\ 2 \in Nat /\ 2 > 0
      OBVIOUS
    <3>2. QED
      BY <3>1, Quotient
  <2>2. q \in Nat /\ 2 * q < Period /\ Period <= 2 * q + 2
    BY <2>1
  <2>3. QED
    BY <2>2
<1>5. PICK v \in Int, u \in Int, p \in Nat :
        /\ v = first - 10 * Period - Shift /\ p = index * Period /\ u = v + p
        /\ (\A k \in Bucket : count[k] < Quota) => p = 0
  <2>1. index * Period \in Nat /\ (index = 0 => index * Period = 0)
    BY <1>2
  <2>2. QED
    BY <1>1, <1>2, <2>1
<1>6. ASSUME NEW m \in {4, 5, 6}
      PROVE  /\ (u + Shift + m * Period - h) * count[index + m] <= timeAccumulated[index + m]
             /\ timeAccumulated[index + m] <= (u + Shift + m * Period + h) * count[index + m]
  <2>1. Centre(index + m) = u + Shift + m * Period
    <3>1. PICK f \in Int, g \in Int, t \in Int : f = first /\ g = m * Period /\ t = 10 * Period
      BY <1>1
    <3>2. ((index + m) - 10) * Period = p + g - t
      BY <1>2, <1>5, <3>1
    <3>3. Centre(index + m) = f + (p + g - t)
      BY <3>1, <3>2 DEF Centre
    <3>4. u = (f - t - Shift) + p
      BY <1>5, <3>1
    <3>5. f + (p + g - t) = ((f - t - Shift) + p) + Shift + g
      BY <1>5, <3>1
    <3>6. QED
      BY <3>1, <3>3, <3>4, <3>5
  <2>2. QED
    BY <1>1, <1>3, <1>4, <2>1, SumNearCentre
<1>7. /\ timeOfFlight.num \in Int /\ timeOfFlight.den \in Nat
      /\ timeOfFlight.num - u * timeOfFlight.den <= h * timeOfFlight.den
      /\ u * timeOfFlight.den - timeOfFlight.num <= h * timeOfFlight.den
  <2>1. h \in Int
    BY <1>4
  <2>2. QED
    BY <1>1, <1>3, <1>5, <1>6, <2>1, ResultBetween
<1>8. PICK num \in Int, den \in Nat : num = timeOfFlight.num /\ den = timeOfFlight.den /\ den > 0
  BY <1>1, <1>7 DEF Typed
<1>9. PICK o \in Int, z \in Nat, x \in Int, y \in Int :
        /\ o = num - v * den /\ num - u * den = o - z /\ u * den - num = z - o
        /\ x = h * den /\ y = Period * den /\ 2 * x < y
        /\ (\A k \in Bucket : count[k] < Quota) => z = 0
  <2>1. (2 * h) * den < Period * den
    BY <1>4, <1>8, Multiply
  <2>2. (2 * h) * den = 2 * (h * den)
    BY <1>4
  <2>3. p * den \in Nat /\ u * den = v * den + p * den /\ (p = 0 => p * den = 0)
    BY <1>5
  <2>4. PICK z \in Nat : z = p * den /\ u * den = v * den + z /\ (p = 0 => z = 0)
    BY <2>3
  <2>5. PICK o \in Int, c \in Int : c = v * den /\ o = num - c
    BY <1>5, <1>8
  <2>6. num - (c + z) = o - z /\ (c + z) - num = z - o
    BY <1>8, <2>4, <2>5
  <2>7. PICK x \in Int, y \in Int : x = h * den /\ y = Period * den /\ 2 * x < y
    BY <1>4, <2>1, <2>2
  <2>8. QED
    BY <1>5, <2>4, <2>5, <2>6, <2>7
<1>10. off = o
  BY <1>5, <1>8, <1>9
<1>11. o - z <= x /\ z - o <= x
  BY <1>7, <1>8, <1>9
<1>12. -2 * o < y /\ (z = 0 => 2 * o < y)
  BY <1>9, <1>11
<1>13. QED
  BY <1>8, <1>9, <1>10, <1>12

(* An accepted time is ten periods before the very first stop at most, and *)
(* that early if no bucket is full.                                        *)
THEOREM TenPeriodsEarly == Spec => []TenPeriodsEarlyAtMost
<1>1. QED
  BY InitSortInv, NextSortInv, AcceptedIsNotEarlier, PTL DEF Spec
=============================================================================
