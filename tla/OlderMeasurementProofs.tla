----------------------- MODULE OlderMeasurementProofs -----------------------
(***************************************************************************)
(* What holds of OlderMeasurement for every number of pulses, length of    *)
(* the queue, width of the signal, and whatever is heard.                  *)
(***************************************************************************)
EXTENDS OlderMeasurement, FiniteSetTheorems, FunctionTheorems, WellFoundedInduction, TLAPS

Errors == {"ERROR_NO_START_RECEIVED", "ERROR_NO_STOP_RECEIVED"}

(* The rows so far, all of them once the batches are over.                 *)
Rows ==
  /\ pc \in {"batches", "count", "sort", "answer", "done"}
  /\ left \in Seq(Int) /\ times \in Seq(Seq(Nat)) /\ Len(times) <= N
  /\ pc = "batches" => Len(times) < N
  /\ pc # "batches" => Len(times) = N

(* Each batch replaces the error of the one before.                        *)
LastError ==
  pc # "done" =>
    /\ errorsAndWarnings \in Errors \cup {"NO_ERRORS_NO_WARNINGS"}
    /\ errorsAndWarnings \in Errors <=> times # <<>> /\ Failed(Len(times))

(* Without a time in the first row nothing is counted.                     *)
FirstDecides ==
  /\ pc = "sort" => ~Failed(1)
  /\ pc = "answer" /\ Failed(1) => timeOfFlight = Number(0)

Counts == count \in [Bucket -> Nat]

Inv == Rows /\ LastError /\ FirstDecides /\ Counts /\ AnswerTellsFirstAndLast /\ NumberIfWideEnough
-----------------------------------------------------------------------------
LEMMA LeastElement ==
  ASSUME NEW S \in SUBSET Nat, S # {}
  PROVE  Min(S) \in S
<1> DEFINE R == {ss \in Nat \X Nat : ss[1] < ss[2]}
<1>1. IsWellFoundedOn(R, Nat)
  BY NatLessThanWellFounded, Zenon DEF OpToRel
<1>2. PICK x \in S : \A y \in S : ~ (<<y, x>> \in R)
  <2> HIDE DEF R
  <2>1. QED
    BY <1>1, WFMin
<1>3. \A y \in S : ~ (y < x)
  BY <1>2
<1>4. \A y \in S : x <= y
  BY <1>3
<1>5. QED
  BY <1>4 DEF Min

LEMMA NumberOfPulses == N \in Nat /\ N >= 1 /\ STOP_QUEUE_LENGTH \in Nat /\ STOP_QUEUE_LENGTH >= 1
BY OlderAssumption DEF OlderAssumption

(* A queue is a sequence of times, so a row is empty only if it is.        *)
LEMMA QueueIsSequence ==
  ASSUME left \in Seq(Int), NEW echoes \in Echoes
  PROVE  Queue(echoes) \in Seq(Int)
<1> DEFINE stops == [n \in DOMAIN echoes |-> Flight + echoes[n]]
<1> DEFINE all == left \o stops
<1>1. echoes \in Seq(Nat) /\ Flight \in Nat
  BY OlderAssumption DEF OlderAssumption
<1>2. stops \in Seq(Int)
  <2>1. Len(echoes) \in Nat /\ DOMAIN echoes = 1..Len(echoes)
    BY <1>1
  <2>2. \A n \in 1..Len(echoes) : Flight + echoes[n] \in Int
    BY <1>1
  <2>3. stops \in [1..Len(echoes) -> Int]
    BY <2>1, <2>2
  <2> HIDE DEF stops
  <2>4. QED
    BY <2>1, <2>3
<1> HIDE DEF stops
<1>3. all \in Seq(Int) /\ Len(all) \in Nat
  BY <1>2
<1> HIDE DEF all
<1> DEFINE m == Min({Len(all), STOP_QUEUE_LENGTH})
<1>4. m \in {Len(all), STOP_QUEUE_LENGTH}
  BY <1>3, NumberOfPulses, LeastElement
<1>5. m <= Len(all)
  <2>1. \E x \in {Len(all), STOP_QUEUE_LENGTH} : \A y \in {Len(all), STOP_QUEUE_LENGTH} : x <= y
    BY <1>3, NumberOfPulses
  <2>2. \A y \in {Len(all), STOP_QUEUE_LENGTH} : m <= y
    BY <2>1 DEF Min
  <2>3. QED
    BY <2>2
<1>6. m \in 0..Len(all)
  BY <1>3, <1>4, <1>5, NumberOfPulses
<1> HIDE DEF m
<1>7. SubSeq(all, 1, m) \in Seq(Int)
  BY <1>3, <1>6
<1>8. QED
  BY <1>7 DEF Queue, all, stops, m

LEMMA RowOfQueue ==
  ASSUME NEW q \in Seq(Int)
  PROVE  /\ [n \in DOMAIN q |-> Abs(q[n])] \in Seq(Nat)
         /\ q # <<>> => [n \in DOMAIN q |-> Abs(q[n])] # <<>>
<1>1. Len(q) \in Nat /\ DOMAIN q = 1..Len(q) /\ \A n \in 1..Len(q) : q[n] \in Int
  OBVIOUS
<1>2. \A n \in DOMAIN q : Abs(q[n]) \in Nat
  BY <1>1 DEF Abs
<1> DEFINE row == [n \in DOMAIN q |-> Abs(q[n])]
<1>3. row \in [1..Len(q) -> Nat]
  BY <1>1, <1>2
<1>4. row \in Seq(Nat) /\ Len(row) = Len(q)
  BY <1>1, <1>3
<1>5. q # <<>> => Len(q) # 0
  OBVIOUS
<1> HIDE DEF row
<1>6. q # <<>> => row # <<>>
  BY <1>4, <1>5
<1>7. QED
  BY <1>4, <1>6 DEF row
-----------------------------------------------------------------------------
(* A batch of any outcome: one row more, and an error exactly if it is     *)
(* empty.                                                                  *)
LEMMA RowKeeps ==
  ASSUME Inv, pc = "batches", NEW row \in Seq(Nat), NEW number, NEW own, NEW error,
         Row(row, number, own, error), left' \in Seq(Int),
         error \in Errors \cup {"NO_ERRORS_NO_WARNINGS"}, error \in Errors <=> row = <<>>
  PROVE  Inv'
<1>1. /\ times \in Seq(Seq(Nat)) /\ Len(times) \in Nat /\ Len(times) < N
      /\ times' = Append(times, row) /\ errorsAndWarnings' = error /\ count' = count
      /\ pc' = IF Len(times') < N THEN "batches" ELSE "count"
  BY DEF Inv, Rows, Row
<1>2. /\ times' \in Seq(Seq(Nat)) /\ Len(times') = Len(times) + 1
      /\ times'[Len(times) + 1] = row
  BY <1>1
<1>3. Rows'
  BY <1>1, <1>2, NumberOfPulses DEF Rows
<1>4. times' # <<>> /\ times'[Len(times')] = row
  <2>1. Len(times') # 0
    BY <1>1, <1>2
  <2>2. QED
    BY <1>2, <2>1
<1>5. LastError'
  BY <1>1, <1>4 DEF LastError, Failed
<1>6. FirstDecides' /\ Counts' /\ AnswerTellsFirstAndLast' /\ NumberIfWideEnough'
  BY <1>1 DEF Inv, FirstDecides, Counts, AnswerTellsFirstAndLast, NumberIfWideEnough
<1>7. QED
  BY <1>3, <1>5, <1>6 DEF Inv

LEMMA BatchKeeps ==
  ASSUME Inv, NEW echoes \in Echoes,
         \/ Batch(echoes) \/ NoStopReceived(echoes)
         \/ \E number \in Unwritten : NoStartReceived(echoes, number)
  PROVE  Inv'
<1> DEFINE q == Queue(echoes)
<1>1. q \in Seq(Int)
  BY QueueIsSequence DEF Inv, Rows
<1>2. <<>> \in Seq(Int) /\ <<>> \in Seq(Nat)
  OBVIOUS
<1>3. CASE Batch(echoes)
  <2> DEFINE row == [n \in DOMAIN q |-> Abs(q[n])]
  <2> DEFINE own == {echoes[n - Len(left)] : n \in (Len(left) + 1)..Len(Queue(echoes))}
  <2>1. q # <<>> /\ pc = "batches" /\ left' = <<>> /\ Row(row, Len(q), own, "NO_ERRORS_NO_WARNINGS")
    BY <1>3 DEF Batch
  <2> HIDE DEF q
  <2>2. row \in Seq(Nat) /\ row # <<>>
    BY <1>1, <2>1, RowOfQueue
  <2> HIDE DEF row, own
  <2>3. QED
    BY <1>2, <2>1, <2>2, RowKeeps DEF Errors
<1>4. CASE NoStopReceived(echoes)
  BY <1>2, <1>4, RowKeeps DEF NoStopReceived, Errors
<1>5. CASE \E number \in Unwritten : NoStartReceived(echoes, number)
  <2>1. PICK number \in Unwritten : NoStartReceived(echoes, number)
    BY <1>5
  <2>2. /\ pc = "batches" /\ Row(<<>>, number, {}, "ERROR_NO_START_RECEIVED")
        /\ left' = [n \in DOMAIN q |-> q[n] - Gap]
    BY <2>1 DEF NoStartReceived
  <2>3. Gap \in Nat
    BY OlderAssumption DEF OlderAssumption
  <2> HIDE DEF q
  <2>4. left' \in Seq(Int)
    BY <1>1, <2>2, <2>3
  <2>5. QED
    BY <1>2, <2>2, <2>4, RowKeeps DEF Errors
<1>6. QED
  BY <1>3, <1>4, <1>5
-----------------------------------------------------------------------------
LEMMA GiveUpKeeps ==
  ASSUME Inv, GiveUp
  PROVE  Inv'
<1>1. /\ UNCHANGED <<left, times, count, errorsAndWarnings>> /\ pc = "count" /\ pc' = "answer"
      /\ timeOfFlight' = Number(0)
  BY DEF GiveUp
<1>2. Rows' /\ LastError' /\ FirstDecides' /\ Counts' /\ AnswerTellsFirstAndLast'
  BY <1>1 DEF Inv, Rows, LastError, FirstDecides, Counts, AnswerTellsFirstAndLast, Failed, Number
<1>3. NumberIfWideEnough'
  BY <1>1 DEF NumberIfWideEnough, Number
<1>4. QED
  BY <1>2, <1>3 DEF Inv

LEMMA CountKeeps ==
  ASSUME Inv, Count
  PROVE  Inv'
<1>1. /\ UNCHANGED <<left, times, timeOfFlight, errorsAndWarnings>> /\ pc = "count" /\ pc' = "sort"
      /\ ~NoBuckets
      /\ count' = [k \in Bucket |->
                    Cardinality({c \in Counted : Cell(c[1], c[2]) = first + k - 10})]
  BY DEF Count
<1>2. IsFiniteSet(Counted)
  <2>1. 1..N \subseteq Nat /\ N * STOP_QUEUE_LENGTH \in Nat
    BY NumberOfPulses
  <2>2. IsFiniteSet(1..N) /\ IsFiniteSet(1..(N * STOP_QUEUE_LENGTH))
    BY <2>1, NumberOfPulses, FS_Interval
  <2>3. IsFiniteSet((1..N) \X (1..(N * STOP_QUEUE_LENGTH)))
    BY <2>2, FS_Product
  <2>4. QED
    BY <2>3, FS_Subset DEF Counted
<1>3. ASSUME NEW k \in Bucket
      PROVE  Cardinality({c \in Counted : Cell(c[1], c[2]) = first + k - 10}) \in Nat
  BY <1>2, FS_Subset, FS_CardinalityType
<1>4. Counts'
  BY <1>1, <1>3 DEF Counts
<1>5. ~Failed(1)
  BY <1>1 DEF NoBuckets, first, Failed
<1>6. Rows' /\ LastError' /\ FirstDecides' /\ AnswerTellsFirstAndLast' /\ NumberIfWideEnough'
  BY <1>1, <1>5 DEF Inv, Rows, LastError, FirstDecides, AnswerTellsFirstAndLast,
     NumberIfWideEnough, Failed
<1>7. QED
  BY <1>4, <1>6 DEF Inv

(* If the earliest bucket of the signal is empty, so is every one outside  *)
(* it, and fewer than SIGNAL_WIDTH are not.                                *)
LEMMA SignalNotEmpty ==
  ASSUME Counts, NEW buckets \in kSubset(SIGNAL_WIDTH, Bucket), IsSignal(buckets),
         Cardinality({k \in Bucket : count[k] > 0}) >= SIGNAL_WIDTH
  PROVE  count[Earliest(buckets)] # 0
<1> DEFINE e == Earliest(buckets)
<1>1. /\ buckets \in SUBSET Bucket /\ Cardinality(buckets) = SIGNAL_WIDTH
      /\ SIGNAL_WIDTH \in Nat /\ SIGNAL_WIDTH >= 1
  BY NumberOfPulses, OlderAssumption DEF kSubset, OlderAssumption
<1>2. Bucket \in SUBSET Nat /\ IsFiniteSet(Bucket)
  BY NumberOfPulses, FS_Interval DEF Bucket
<1>3. IsFiniteSet(buckets) /\ buckets # {}
  <2>1. IsFiniteSet(buckets)
    BY <1>1, <1>2, FS_Subset
  <2>2. Cardinality({}) = 0
    BY FS_EmptySet
  <2>3. QED
    BY <1>1, <2>1, <2>2
<1>4. e \in buckets
  BY <1>1, <1>2, <1>3, LeastElement DEF Earliest
<1> HIDE DEF e
<1>5. SUFFICES ASSUME count[e] = 0
               PROVE  FALSE
  BY DEF e
<1>6. \A l \in Bucket \ buckets : count[l] = 0
  BY <1>4, <1>5 DEF IsSignal, Counts
<1>7. {k \in Bucket : count[k] > 0} \subseteq buckets \ {e}
  BY <1>5, <1>6
<1>8. IsFiniteSet(buckets \ {e}) /\ Cardinality(buckets \ {e}) = SIGNAL_WIDTH - 1
  BY <1>1, <1>3, <1>4, FS_RemoveElement
<1>9. Cardinality({k \in Bucket : count[k] > 0}) <= SIGNAL_WIDTH - 1
  BY <1>7, <1>8, FS_Subset
<1>10. IsFiniteSet({k \in Bucket : count[k] > 0})
  BY <1>7, <1>8, FS_Subset
<1>11. Cardinality({k \in Bucket : count[k] > 0}) \in Nat
  BY <1>10, FS_CardinalityType
<1>12. QED
  BY <1>1, <1>9, <1>11

LEMMA SortKeeps ==
  ASSUME Inv, NEW buckets \in kSubset(SIGNAL_WIDTH, Bucket), Sort(buckets)
  PROVE  Inv'
<1>1. /\ UNCHANGED <<left, times, count, errorsAndWarnings>> /\ pc = "sort" /\ pc' = "answer"
      /\ IsSignal(buckets) /\ (count[Earliest(buckets)] # 0 => timeOfFlight'.kind = "time")
  BY DEF Sort, Number
<1>2. Rows' /\ LastError' /\ FirstDecides' /\ Counts' /\ AnswerTellsFirstAndLast'
  BY <1>1 DEF Inv, Rows, LastError, FirstDecides, Counts, AnswerTellsFirstAndLast, Failed
<1>3. NumberIfWideEnough'
  BY <1>1, SignalNotEmpty DEF Inv, NumberIfWideEnough
<1>4. QED
  BY <1>2, <1>3 DEF Inv

LEMMA AnswerKeeps ==
  ASSUME Inv, Answer
  PROVE  Inv'
<1>1. /\ UNCHANGED <<left, times, count>> /\ pc = "answer" /\ pc' = "done"
      /\ written' = ~OutOfRange
      /\ errorsAndWarnings' = IF OutOfRange THEN "ERROR_TIME_OUT_OF_RANGE" ELSE errorsAndWarnings
  BY DEF Answer
<1>2. Failed(1) => OutOfRange
  <2>1. LOWER_TIME_LIMIT \in Nat /\ 0 < LOWER_TIME_LIMIT
    BY OlderAssumption DEF OlderAssumption
  <2>2. QED
    BY <1>1, <2>1 DEF Inv, FirstDecides, OutOfRange, Number
<1>3. times # <<>> /\ Len(times) = N
  BY <1>1, NumberOfPulses DEF Inv, Rows
<1>4. /\ errorsAndWarnings \in Errors \cup {"NO_ERRORS_NO_WARNINGS"}
      /\ errorsAndWarnings \in Errors <=> Failed(N)
  BY <1>1, <1>3 DEF Inv, LastError
<1>5. AnswerTellsFirstAndLast'
  <2>1. Failed(1)' = Failed(1) /\ Failed(N)' = Failed(N)
    BY <1>1 DEF Failed
  <2>2. CASE OutOfRange
    BY <1>1, <2>2 DEF AnswerTellsFirstAndLast
  <2>3. CASE ~OutOfRange
    BY <1>1, <1>2, <1>4, <2>1, <2>3 DEF AnswerTellsFirstAndLast, Errors
  <2>4. QED
    BY <2>2, <2>3
<1>6. Rows' /\ LastError' /\ FirstDecides' /\ Counts' /\ NumberIfWideEnough'
  BY <1>1 DEF Inv, Rows, LastError, FirstDecides, Counts, NumberIfWideEnough
<1>7. QED
  BY <1>5, <1>6 DEF Inv

LEMMA InitInv == Init => Inv
<1> SUFFICES ASSUME Init
             PROVE  Inv
  OBVIOUS
<1>1. left \in Seq(Int)
  BY OlderAssumption DEF OlderAssumption, Init
<1>2. times = <<>> /\ times \in Seq(Seq(Nat)) /\ Len(times) = 0 /\ pc = "batches"
  BY DEF Init
<1>3. Rows
  BY <1>1, <1>2, NumberOfPulses DEF Rows
<1>4. LastError /\ FirstDecides /\ AnswerTellsFirstAndLast /\ NumberIfWideEnough
  BY <1>2 DEF Init, LastError, FirstDecides, AnswerTellsFirstAndLast, NumberIfWideEnough, Errors
<1>5. Counts
  BY DEF Init, Counts
<1>6. QED
  BY <1>3, <1>4, <1>5 DEF Inv

LEMMA NextInv == Inv /\ [Next]_vars => Inv'
<1> SUFFICES ASSUME Inv, [Next]_vars
             PROVE  Inv'
  OBVIOUS
<1>1. CASE \E echoes \in Echoes : Batch(echoes) \/ NoStopReceived(echoes)
  BY <1>1, BatchKeeps
<1>2. CASE \E echoes \in Echoes, number \in Unwritten : NoStartReceived(echoes, number)
  BY <1>2, BatchKeeps
<1>3. CASE GiveUp
  BY <1>3, GiveUpKeeps
<1>4. CASE Count
  BY <1>4, CountKeeps
<1>5. CASE Answer
  BY <1>5, AnswerKeeps
<1>6. CASE \E buckets \in kSubset(SIGNAL_WIDTH, Bucket) : Sort(buckets)
  BY <1>6, SortKeeps
<1>7. CASE UNCHANGED vars
  BY <1>7 DEF vars, Inv, Rows, LastError, FirstDecides, Counts, AnswerTellsFirstAndLast,
     NumberIfWideEnough, Failed
<1>8. QED
  BY <1>1, <1>2, <1>3, <1>4, <1>5, <1>6, <1>7 DEF Next

LEMMA Invariance == Spec => []Inv
BY InitInv, NextInv, PTL DEF Spec
-----------------------------------------------------------------------------
(* The caller of the older measurement hears of the first batch, which     *)
(* nothing replaces, and of the last, and of no other (sendTrigger's error *)
(* is overwritten by the next, the range check's by none).                 *)
THEOREM AnswerTells == Spec => []AnswerTellsFirstAndLast
<1>1. Inv => AnswerTellsFirstAndLast
  BY DEF Inv
<1>2. QED
  BY <1>1, Invariance, PTL

(* calculateTimeOfFlight divides by 0 only if fewer than SIGNAL_WIDTH      *)
(* buckets have a time, however qsort orders equal ones.                   *)
THEOREM WideEnough == Spec => []NumberIfWideEnough
<1>1. Inv => NumberIfWideEnough
  BY DEF Inv
<1>2. QED
  BY <1>1, Invariance, PTL
-----------------------------------------------------------------------------
LEMMA Facts ==
  /\ STOP_QUEUE_LENGTH \in Nat /\ STOP_QUEUE_LENGTH >= 1 /\ N \in Nat /\ N >= 1
  /\ Flight \in Nat /\ Flight >= 1 /\ Gap \in Nat /\ Shift \in Nat
  /\ SIGNAL_WIDTH \in Nat /\ SIGNAL_WIDTH >= 1
BY OlderAssumption DEF OlderAssumption

(* A stop from before the pulse's start, so long before that as a time its *)
(* distance lies behind all buckets.                                       *)
Stale(t) ==
  \A echoes \in Echoes : \A n \in DOMAIN echoes : Flight + echoes[n] + STOP_QUEUE_LENGTH <= -t

LEMMA EchoesAreNaturals ==
  ASSUME NEW echoes \in Echoes, NEW n \in DOMAIN echoes
  PROVE  echoes[n] \in Nat /\ Flight + echoes[n] \in Nat /\ Flight + echoes[n] > 0
<1>1. echoes \in Seq(Nat)
  BY OlderAssumption DEF OlderAssumption
<1>2. echoes[n] \in Nat
  BY <1>1
<1>3. QED
  BY <1>2, Facts

LEMMA Concatenated ==
  ASSUME NEW p \in Seq(Int), NEW q \in Seq(Int)
  PROVE  /\ p \o q \in Seq(Int) /\ Len(p \o q) = Len(p) + Len(q)
         /\ \A n \in 1..Len(p) + Len(q) : (p \o q)[n] = IF n <= Len(p) THEN p[n] ELSE q[n - Len(p)]
OBVIOUS

(* A queue has first what was left in it, then the pulse's own stops, and  *)
(* no more than its length.                                                *)
LEMMA QueueInOrder ==
  ASSUME left \in Seq(Int), Len(left) <= STOP_QUEUE_LENGTH, NEW echoes \in Echoes
  PROVE  /\ Queue(echoes) \in Seq(Int) /\ Len(Queue(echoes)) <= STOP_QUEUE_LENGTH
         /\ \A n \in 1..Len(Queue(echoes)) :
              \/ n <= Len(left) /\ Queue(echoes)[n] = left[n]
              \/ /\ n > Len(left) /\ n - Len(left) \in DOMAIN echoes
                 /\ Queue(echoes)[n] = Flight + echoes[n - Len(left)]
<1> DEFINE stops == [n \in DOMAIN echoes |-> Flight + echoes[n]]
           all == left \o stops
           m == Min({Len(all), STOP_QUEUE_LENGTH})
<1>1. echoes \in Seq(Nat) /\ Len(echoes) \in Nat /\ DOMAIN echoes = 1..Len(echoes)
  BY OlderAssumption DEF OlderAssumption
<1>2. stops \in Seq(Int) /\ Len(stops) = Len(echoes)
      /\ \A n \in 1..Len(echoes) : stops[n] = Flight + echoes[n]
  <2>1. \A n \in 1..Len(echoes) : Flight + echoes[n] \in Int
    BY <1>1, Facts
  <2>2. stops \in [1..Len(echoes) -> Int]
    BY <1>1, <2>1
  <2>3. QED
    BY <1>1, <2>2
<1> HIDE DEF stops
<1>3. Len(left) \in Nat
  OBVIOUS
<1>4. /\ all \in Seq(Int) /\ Len(all) = Len(left) + Len(echoes)
      /\ \A n \in 1..Len(all) : all[n] = IF n <= Len(left) THEN left[n] ELSE stops[n - Len(left)]
  BY <1>2, Concatenated
<1>5. Queue(echoes) = SubSeq(all, 1, m)
  BY Zenon DEF Queue, all, stops, m
<1> HIDE DEF all
<1>6. m \in 0..Len(all) /\ m <= STOP_QUEUE_LENGTH
  <2>1. Len(all) \in Nat
    BY <1>1, <1>3, <1>4
  <2>2. m \in {Len(all), STOP_QUEUE_LENGTH}
    BY <2>1, Facts, LeastElement
  <2>3. \E x \in {Len(all), STOP_QUEUE_LENGTH} : \A y \in {Len(all), STOP_QUEUE_LENGTH} : x <= y
    BY <2>1, Facts
  <2>4. m <= Len(all) /\ m <= STOP_QUEUE_LENGTH
    BY <2>3 DEF Min
  <2>5. QED
    BY <2>1, <2>2, <2>4, Facts
<1> HIDE DEF m
<1>7. /\ SubSeq(all, 1, m) \in Seq(Int) /\ Len(SubSeq(all, 1, m)) = m
      /\ \A n \in 1..m : SubSeq(all, 1, m)[n] = all[n] /\ n \in 1..Len(all)
  BY <1>4, <1>6
<1>8. ASSUME NEW n \in 1..m, ~(n <= Len(left))
      PROVE  n > Len(left) /\ n - Len(left) \in 1..Len(echoes)
  BY <1>1, <1>3, <1>4, <1>6, <1>8
<1>9. ASSUME NEW n \in 1..m
      PROVE  \/ n <= Len(left) /\ SubSeq(all, 1, m)[n] = left[n]
             \/ /\ n > Len(left) /\ n - Len(left) \in DOMAIN echoes
                /\ SubSeq(all, 1, m)[n] = Flight + echoes[n - Len(left)]
  <2>1. n \in 1..Len(all) /\ SubSeq(all, 1, m)[n] = all[n]
    BY <1>7
  <2>2. CASE n <= Len(left)
    BY <1>4, <2>1, <2>2
  <2>3. CASE ~(n <= Len(left))
    <3>1. n > Len(left) /\ n - Len(left) \in 1..Len(echoes)
      BY <1>8, <2>3
    <3>2. all[n] = stops[n - Len(left)]
      BY <1>4, <2>1, <2>3
    <3>3. QED
      BY <1>1, <1>2, <2>1, <3>1, <3>2
  <2>4. QED
    BY <2>2, <2>3
<1>10. QED
  BY <1>5, <1>6, <1>7, <1>9
-----------------------------------------------------------------------------
(* A row has nothing, or behind len times of stale stops those of a pulse. *)
RowOf(row, own) ==
  \/ row = <<>> /\ own = {}
  \/ \E len \in Nat, echoes \in Echoes :
       /\ \A n \in 1..Len(row) :
            \/ n <= len /\ Stale(-row[n])
            \/ n > len /\ n - len \in DOMAIN echoes /\ row[n] = Flight + echoes[n - len]
       /\ \A e : e \in own <=> \E n \in 1..Len(row) : n > len /\ e = echoes[n - len]

RowsKnown ==
  /\ timesCount \in Seq(Nat) /\ heard \in Seq(SUBSET Nat)
  /\ Len(timesCount) = Len(times) /\ Len(heard) = Len(times)
  /\ \A j \in 1..Len(times) :
       /\ Len(times[j]) <= STOP_QUEUE_LENGTH /\ RowOf(times[j], heard[j])
       /\ times[j] # <<>> => timesCount[j] = Len(times[j])
  /\ Len(left) <= STOP_QUEUE_LENGTH /\ \A n \in 1..Len(left) : Stale(left[n])

Others ==
  /\ timeOfFlight \in [kind : {"time", "nan"}, time : Int]
  /\ errorsAndWarnings \in Errors \cup {"NO_ERRORS_NO_WARNINGS", "ERROR_TIME_OUT_OF_RANGE"}
  /\ written \in BOOLEAN

(* What was counted, and from which signal the result was taken. *)
CountedCells ==
  [k \in Bucket |-> Cardinality({c \in Counted : Cell(c[1], c[2]) = first + k - 10})]

Taken(buckets) ==
  IF count[Earliest(buckets)] = 0 THEN NotANumber
  ELSE Number(first + Earliest(buckets) - 10 - Shift)

Computed ==
  /\ pc = "sort" => ~NoBuckets /\ count = CountedCells
  /\ pc = "answer" /\ ~NoBuckets =>
       /\ count = CountedCells
       /\ \E buckets \in kSubset(SIGNAL_WIDTH, Bucket) : IsSignal(buckets) /\ timeOfFlight = Taken(buckets)

SignalInv == Inv /\ RowsKnown /\ Others /\ Computed

LEMMA AppendRow ==
  ASSUME Rows, RowsKnown, NEW row \in Seq(Nat), NEW number \in Nat, NEW own \in SUBSET Nat,
         times' = Append(times, row), timesCount' = Append(timesCount, number),
         heard' = Append(heard, own), RowOf(row, own),
         Len(row) <= STOP_QUEUE_LENGTH, row # <<>> => number = Len(row),
         left' \in Seq(Int), Len(left') <= STOP_QUEUE_LENGTH,
         \A n \in 1..Len(left') : Stale(left'[n])
  PROVE  RowsKnown'
<1>1. /\ times \in Seq(Seq(Nat)) /\ timesCount \in Seq(Nat) /\ heard \in Seq(SUBSET Nat)
      /\ Len(timesCount) = Len(times) /\ Len(heard) = Len(times) /\ Len(times) \in Nat
  BY DEF Rows, RowsKnown
<1>2. /\ Len(times') = Len(times) + 1 /\ times'[Len(times) + 1] = row
      /\ \A j \in 1..Len(times) : times'[j] = times[j]
  BY <1>1
<1>3. /\ timesCount' \in Seq(Nat) /\ Len(timesCount') = Len(times) + 1
      /\ timesCount'[Len(times) + 1] = number
      /\ \A j \in 1..Len(times) : timesCount'[j] = timesCount[j]
  BY <1>1
<1>4. /\ heard' \in Seq(SUBSET Nat) /\ Len(heard') = Len(times) + 1
      /\ heard'[Len(times) + 1] = own
      /\ \A j \in 1..Len(times) : heard'[j] = heard[j]
  BY <1>1
<1>5. ASSUME NEW j \in 1..Len(times')
      PROVE  /\ Len(times'[j]) <= STOP_QUEUE_LENGTH /\ RowOf(times'[j], heard'[j])
             /\ times'[j] # <<>> => timesCount'[j] = Len(times'[j])
  <2>1. CASE j = Len(times) + 1
    BY <1>2, <1>3, <1>4, <2>1
  <2>2. CASE j # Len(times) + 1
    <3>1. j \in 1..Len(times)
      <4>1. PICK l \in Nat : l = Len(times) /\ Len(times') = l + 1
        BY <1>1, <1>2
      <4>2. j \in 1..(l + 1) /\ j # l + 1
        BY <2>2, <4>1
      <4>3. j \in 1..l
        BY <4>2
      <4>4. QED
        BY <4>1, <4>3
    <3>2. QED
      BY <1>2, <1>3, <1>4, <3>1 DEF RowsKnown
  <2>3. QED
    BY <2>1, <2>2
<1>6. /\ \A j \in 1..Len(times') : /\ Len(times'[j]) <= STOP_QUEUE_LENGTH
                                   /\ RowOf(times'[j], heard'[j])
                                   /\ times'[j] # <<>> => timesCount'[j] = Len(times'[j])
  BY <1>5
<1>7. QED
  BY <1>2, <1>3, <1>4, <1>6 DEF RowsKnown, Stale, RowOf

LEMMA NothingLeft ==
  /\ <<>> \in Seq(Int) /\ <<>> \in Seq(Nat) /\ Len(<<>>) = 0
  /\ Len(<<>>) <= STOP_QUEUE_LENGTH /\ \A n \in 1..Len(<<>>) : Stale(<<>>[n])
<1>1. Len(<<>>) = 0 /\ <<>> \in Seq(Int) /\ <<>> \in Seq(Nat)
  OBVIOUS
<1>2. 1..0 = {} /\ 0 <= STOP_QUEUE_LENGTH
  BY Facts
<1>3. QED
  BY <1>1, <1>2

LEMMA BatchRow ==
  ASSUME Rows, RowsKnown, NEW echoes \in Echoes, Batch(echoes)
  PROVE  RowsKnown'
<1> DEFINE q == Queue(echoes)
           row == [n \in DOMAIN q |-> Abs(q[n])]
           own == {echoes[n - Len(left)] : n \in (Len(left) + 1)..Len(q)}
<1>1. /\ left \in Seq(Int) /\ Len(left) \in Nat /\ Len(left) <= STOP_QUEUE_LENGTH
      /\ \A n \in 1..Len(left) : Stale(left[n])
  BY DEF Rows, RowsKnown
<1>2. /\ q \in Seq(Int) /\ Len(q) <= STOP_QUEUE_LENGTH
      /\ \A n \in 1..Len(q) :
           \/ n <= Len(left) /\ q[n] = left[n]
           \/ /\ n > Len(left) /\ n - Len(left) \in DOMAIN echoes
              /\ q[n] = Flight + echoes[n - Len(left)]
  BY <1>1, QueueInOrder
<1>3. /\ left' = <<>> /\ times' = Append(times, row) /\ timesCount' = Append(timesCount, Len(q))
      /\ heard' = Append(heard, own)
  BY DEF Batch, Row
<1> HIDE DEF q
<1>4. Len(q) \in Nat /\ DOMAIN q = 1..Len(q) /\ \A n \in 1..Len(q) : q[n] \in Int
  BY <1>2
<1>5. row \in Seq(Nat) /\ Len(row) = Len(q) /\ \A n \in 1..Len(q) : row[n] = Abs(q[n])
  <2>1. \A n \in 1..Len(q) : Abs(q[n]) \in Nat
    BY <1>4 DEF Abs
  <2>2. row \in [1..Len(q) -> Nat]
    BY <1>4, <2>1
  <2>3. QED
    BY <1>4, <2>2
<1>6. \A e : e \in own <=> \E n \in 1..Len(q) : n > Len(left) /\ e = echoes[n - Len(left)]
  <2>1. \A n : n \in (Len(left) + 1)..Len(q) <=> n \in 1..Len(q) /\ n > Len(left)
    BY <1>1, <1>4
  <2>2. QED
    BY <2>1
<1>7. own \in SUBSET Nat
  <2>1. \A n \in 1..Len(q) : n > Len(left) => echoes[n - Len(left)] \in Nat
    BY <1>1, <1>2, <1>4, EchoesAreNaturals
  <2>2. QED
    BY <1>6, <2>1
<1> HIDE DEF row, own
<1>8. ASSUME NEW n \in 1..Len(q)
      PROVE  \/ n <= Len(left) /\ Stale(-row[n])
             \/ /\ n > Len(left) /\ n - Len(left) \in DOMAIN echoes
                /\ row[n] = Flight + echoes[n - Len(left)]
  <2>1. CASE n <= Len(left) /\ q[n] = left[n]
    <3>1. n \in 1..Len(left) /\ left[n] \in Int /\ row[n] = Abs(left[n])
      BY <1>1, <1>5, <2>1
    <3>2. ASSUME NEW es \in Echoes, NEW m \in DOMAIN es
          PROVE  Flight + es[m] + STOP_QUEUE_LENGTH <= -(-Abs(left[n]))
      <4>1. Flight + es[m] + STOP_QUEUE_LENGTH <= -left[n]
        BY <1>1, <3>1 DEF Stale
      <4>2. es[m] \in Nat
        BY EchoesAreNaturals
      <4>3. QED
        BY <3>1, <4>1, <4>2, Facts DEF Abs
    <3>3. Stale(-row[n])
      BY <3>1, <3>2 DEF Stale
    <3>4. QED
      BY <2>1, <3>3
  <2>2. CASE /\ n > Len(left) /\ n - Len(left) \in DOMAIN echoes
             /\ q[n] = Flight + echoes[n - Len(left)]
    <3>1. Flight + echoes[n - Len(left)] \in Nat
      BY <2>2, EchoesAreNaturals
    <3>2. row[n] = Flight + echoes[n - Len(left)]
      BY <1>5, <2>2, <3>1 DEF Abs
    <3>3. QED
      BY <2>2, <3>2
  <2>3. QED
    BY <1>2, <2>1, <2>2
<1>9. RowOf(row, own)
  <2>1. PICK len \in Nat : len = Len(left)
    BY <1>1
  <2>2. /\ \A n \in 1..Len(row) :
             \/ n <= len /\ Stale(-row[n])
             \/ n > len /\ n - len \in DOMAIN echoes /\ row[n] = Flight + echoes[n - len]
        /\ \A e : e \in own <=> \E n \in 1..Len(row) : n > len /\ e = echoes[n - len]
    BY <1>5, <1>6, <1>8, <2>1
  <2>3. QED
    BY <2>2 DEF RowOf
<1>10. left' \in Seq(Int) /\ Len(left') <= STOP_QUEUE_LENGTH /\ \A n \in 1..Len(left') : Stale(left'[n])
  BY <1>3, NothingLeft
<1>11. Len(row) <= STOP_QUEUE_LENGTH /\ (row # <<>> => Len(q) = Len(row)) /\ Len(q) \in Nat
  BY <1>2, <1>4, <1>5
<1>12. QED
  BY <1>3, <1>5, <1>7, <1>9, <1>10, <1>11, AppendRow

LEMMA EmptyRow ==
  ASSUME Rows, RowsKnown, NEW echoes \in Echoes,
         \/ NoStopReceived(echoes)
         \/ \E number \in Unwritten : NoStartReceived(echoes, number)
  PROVE  RowsKnown'
<1> DEFINE q == Queue(echoes)
<1>1. /\ left \in Seq(Int) /\ Len(left) \in Nat /\ Len(left) <= STOP_QUEUE_LENGTH
      /\ \A n \in 1..Len(left) : Stale(left[n])
  BY DEF Rows, RowsKnown
<1>2. /\ <<>> \in Seq(Nat) /\ Len(<<>>) <= STOP_QUEUE_LENGTH /\ RowOf(<<>>, {})
      /\ {} \in SUBSET Nat /\ 0 \in Nat
  BY NothingLeft DEF RowOf
<1>3. CASE NoStopReceived(echoes)
  <2>1. /\ times' = Append(times, <<>>) /\ timesCount' = Append(timesCount, 0)
        /\ heard' = Append(heard, {}) /\ left' = <<>>
    BY <1>3 DEF NoStopReceived, Row
  <2>2. left' \in Seq(Int) /\ Len(left') <= STOP_QUEUE_LENGTH /\ \A n \in 1..Len(left') : Stale(left'[n])
    BY <2>1, NothingLeft
  <2>3. QED
    BY <1>2, <2>1, <2>2, AppendRow
<1>4. CASE \E number \in Unwritten : NoStartReceived(echoes, number)
  <2>1. PICK number \in Unwritten : NoStartReceived(echoes, number)
    BY <1>4
  <2>2. /\ times' = Append(times, <<>>) /\ timesCount' = Append(timesCount, number)
        /\ heard' = Append(heard, {}) /\ left' = [n \in DOMAIN q |-> q[n] - Gap]
    BY <2>1 DEF NoStartReceived, Row
  <2>3. number \in Nat
    BY OlderAssumption DEF OlderAssumption
  <2>4. /\ q \in Seq(Int) /\ Len(q) <= STOP_QUEUE_LENGTH
        /\ \A n \in 1..Len(q) :
             \/ n <= Len(left) /\ q[n] = left[n]
             \/ /\ n > Len(left) /\ n - Len(left) \in DOMAIN echoes
                /\ q[n] = Flight + echoes[n - Len(left)]
    BY <1>1, QueueInOrder
  <2> HIDE DEF q
  <2>5. /\ left' \in Seq(Int) /\ Len(left') = Len(q)
        /\ \A n \in 1..Len(q) : left'[n] = q[n] - Gap
    <3>1. Len(q) \in Nat /\ DOMAIN q = 1..Len(q) /\ \A n \in 1..Len(q) : q[n] - Gap \in Int
      BY <2>4, Facts
    <3>2. left' \in [1..Len(q) -> Int]
      BY <2>2, <3>1
    <3>3. QED
      BY <2>2, <3>1, <3>2
  <2>6. ASSUME NEW n \in 1..Len(q) PROVE Stale(q[n] - Gap)
    <3>1. q[n] \in Int
      BY <2>4
    <3>2. SUFFICES ASSUME NEW es \in Echoes, NEW m \in DOMAIN es
                   PROVE  Flight + es[m] + STOP_QUEUE_LENGTH <= -(q[n] - Gap)
      BY DEF Stale
    <3>3. es[m] \in Nat
      BY EchoesAreNaturals
    <3>4. CASE n <= Len(left) /\ q[n] = left[n]
      <4>1. Stale(left[n])
        BY <1>1, <3>4
      <4>2. Flight + es[m] + STOP_QUEUE_LENGTH <= -q[n]
        BY <3>4, <4>1 DEF Stale
      <4>3. PICK x \in Int, y \in Nat : x = q[n] /\ y = Flight + es[m] + STOP_QUEUE_LENGTH
        BY <3>1, <3>3, Facts
      <4>4. y <= -x => y <= -(x - Gap)
        BY <4>3, Facts
      <4>5. QED
        BY <4>2, <4>3, <4>4
    <3>5. CASE /\ n > Len(left) /\ n - Len(left) \in DOMAIN echoes
               /\ q[n] = Flight + echoes[n - Len(left)]
      <4>1. PICK e \in Nat : e = echoes[n - Len(left)]
        BY <3>5, EchoesAreNaturals
      <4>2. 2 * Flight + e + es[m] + STOP_QUEUE_LENGTH <= Gap
        BY <3>5, <4>1, EchoAssumption DEF EchoAssumption
      <4>3. PICK x \in Nat : x = es[m]
        BY <3>3
      <4>4. Flight + x + STOP_QUEUE_LENGTH <= -(Flight + e - Gap)
        BY <4>2, <4>3, Facts
      <4>5. q[n] = Flight + e
        BY <3>5, <4>1
      <4>6. Flight + es[m] + STOP_QUEUE_LENGTH <= -((Flight + e) - Gap)
        BY <4>1, <4>3, <4>4, Facts
      <4>7. QED
        BY <4>5, <4>6, Zenon
    <3>6. QED
      BY <2>4, <3>4, <3>5
  <2>7. \A n \in 1..Len(left') : Stale(left'[n])
    BY <2>5, <2>6
  <2>8. left' \in Seq(Int) /\ Len(left') <= STOP_QUEUE_LENGTH
    BY <2>4, <2>5
  <2>9. QED
    BY <1>2, <2>2, <2>3, <2>7, <2>8, AppendRow
<1>5. QED
  BY <1>3, <1>4
-----------------------------------------------------------------------------
(* The loops are one action each; the history stays what it was. *)
LEMMA RowsKnownLater ==
  ASSUME RowsKnown, UNCHANGED <<left, times, timesCount, heard>>
  PROVE  RowsKnown'
BY Zenon DEF RowsKnown

LEMMA CountedLater ==
  ASSUME UNCHANGED <<times, timesCount>>
  PROVE  (CountedCells)' = CountedCells /\ first' = first /\ NoBuckets' = NoBuckets
BY DEF CountedCells, Counted, Cell, first, NoBuckets

LEMMA NextSignalInv == SignalInv /\ [Next]_vars => SignalInv'
<1> SUFFICES ASSUME SignalInv, [Next]_vars PROVE SignalInv'
  OBVIOUS
<1>1. Inv /\ Inv' /\ Rows /\ RowsKnown /\ Others /\ Computed
  BY NextInv DEF SignalInv, Inv
<1>2. CASE \E echoes \in Echoes : \/ Batch(echoes) \/ NoStopReceived(echoes)
                                  \/ \E number \in Unwritten : NoStartReceived(echoes, number)
  <2>1. PICK echoes \in Echoes : \/ Batch(echoes) \/ NoStopReceived(echoes)
                                 \/ \E number \in Unwritten : NoStartReceived(echoes, number)
    BY <1>2
  <2>2. RowsKnown'
    BY <1>1, <2>1, BatchRow, EmptyRow
  <2>3. /\ pc' \in {"batches", "count"} /\ UNCHANGED <<timeOfFlight, written>>
        /\ errorsAndWarnings' \in Errors \cup {"NO_ERRORS_NO_WARNINGS"}
    <3>1. ASSUME NEW row, NEW number, NEW own, NEW error, Row(row, number, own, error)
          PROVE  /\ pc' \in {"batches", "count"} /\ UNCHANGED <<timeOfFlight, written>>
                 /\ errorsAndWarnings' = error
      BY <3>1 DEF Row
    <3>2. CASE Batch(echoes)
      BY <3>1, <3>2 DEF Batch
    <3>3. CASE NoStopReceived(echoes)
      BY <3>1, <3>3 DEF NoStopReceived, Errors
    <3>4. CASE \E number \in Unwritten : NoStartReceived(echoes, number)
      BY <3>1, <3>4 DEF NoStartReceived, Errors
    <3>5. QED
      BY <2>1, <3>2, <3>3, <3>4
  <2>4. Others' /\ Computed'
    BY <1>1, <2>3 DEF Others, Computed
  <2>5. QED
    BY <1>1, <2>2, <2>4 DEF SignalInv
<1>3. CASE GiveUp
  <2>1. /\ UNCHANGED <<left, times, timesCount, heard, errorsAndWarnings, written>>
        /\ NoBuckets /\ pc' = "answer" /\ timeOfFlight' = Number(0)
    BY <1>3 DEF GiveUp
  <2>2. Others'
    BY <1>1, <2>1 DEF Others, Number
  <2>3. Computed'
    BY <2>1, CountedLater DEF Computed
  <2>4. QED
    BY <1>1, <2>1, <2>2, <2>3, RowsKnownLater DEF SignalInv
<1>4. CASE Count
  <2>1. /\ UNCHANGED <<left, times, timesCount, heard, timeOfFlight, errorsAndWarnings, written>>
        /\ ~NoBuckets /\ pc' = "sort" /\ count' = CountedCells
    BY <1>4 DEF Count, CountedCells
  <2>2. Others'
    BY <1>1, <2>1 DEF Others
  <2>3. Computed'
    BY <2>1, CountedLater DEF Computed
  <2>4. QED
    BY <1>1, <2>1, <2>2, <2>3, RowsKnownLater DEF SignalInv
<1>5. CASE \E buckets \in kSubset(SIGNAL_WIDTH, Bucket) : Sort(buckets)
  <2>1. PICK buckets \in kSubset(SIGNAL_WIDTH, Bucket) : Sort(buckets)
    BY <1>5
  <2>2. /\ UNCHANGED <<left, times, timesCount, heard, count, errorsAndWarnings, written>>
        /\ pc = "sort" /\ pc' = "answer" /\ IsSignal(buckets) /\ timeOfFlight' = Taken(buckets)
    BY <2>1 DEF Sort, Taken
  <2>3. ~NoBuckets /\ count = CountedCells
    BY <1>1, <2>2 DEF Computed
  <2>4. first \in Int
    <3>1. times \in Seq(Seq(Nat)) /\ Len(times) = N
      BY <1>1, <2>2 DEF Rows
    <3>2. times[1] \in Seq(Nat)
      BY <3>1, Facts
    <3>3. CASE times[1] = <<>>
      BY <3>3 DEF first
    <3>4. CASE times[1] # <<>>
      BY <3>2, <3>4 DEF first
    <3>5. QED
      BY <3>3, <3>4
  <2>5. Earliest(buckets) \in Int
    <3>1. buckets \in SUBSET Nat /\ buckets # {}
      <4>1. buckets \in SUBSET Bucket /\ Cardinality(buckets) = SIGNAL_WIDTH
        BY DEF kSubset
      <4>2. Bucket \in SUBSET Nat
        BY Facts DEF Bucket
      <4>3. buckets # {}
        BY <4>1, Facts, FS_EmptySet
      <4>4. QED
        BY <4>1, <4>2, <4>3
    <3>2. Min(buckets) \in buckets
      BY <3>1, LeastElement
    <3>3. Min(buckets) \in Int
      <4>1. \A x \in buckets : x \in Int
        BY <3>1
      <4>2. QED
        BY <3>2, <4>1, Zenon
    <3>4. QED
      BY <3>3, Zenon DEF Earliest
  <2>6. Others'
    <3>1. timeOfFlight' \in [kind : {"time", "nan"}, time : Int]
      BY <2>2, <2>4, <2>5, Facts DEF Taken, Number, NotANumber
    <3>2. QED
      BY <1>1, <2>2, <3>1 DEF Others
  <2>7. Computed'
    <3>1. /\ (CountedCells)' = CountedCells /\ first' = first /\ count' = count
      BY <2>2, CountedLater
    <3>2. IsSignal(buckets)' /\ (Taken(buckets))' = Taken(buckets)
      BY <2>2, <3>1 DEF IsSignal, Taken, Bucket, Earliest
    <3>3. timeOfFlight' = (Taken(buckets))'
      BY <2>2, <3>2
    <3>4. buckets \in kSubset(SIGNAL_WIDTH, Bucket)'
      BY DEF kSubset, Bucket
    <3>5. QED
      BY <2>2, <2>3, <3>1, <3>2, <3>3, <3>4 DEF Computed
  <2>8. QED
    BY <1>1, <2>2, <2>6, <2>7, RowsKnownLater DEF SignalInv
<1>6. CASE Answer \/ UNCHANGED vars
  <2>1. /\ UNCHANGED <<left, times, timesCount, heard, count, timeOfFlight>>
        /\ pc' = pc \/ pc' = "done"
    BY <1>6 DEF Answer, vars
  <2>2. Others'
    <3>1. CASE Answer
      BY <1>1, <3>1 DEF Others, Answer
    <3>2. CASE UNCHANGED vars
      BY <1>1, <3>2 DEF Others, vars
    <3>3. QED
      BY <1>6, <3>1, <3>2
  <2>3. Computed'
    <3>1. /\ (CountedCells)' = CountedCells /\ NoBuckets' = NoBuckets /\ first' = first
      BY <2>1, CountedLater
    <3>2. \A buckets : /\ IsSignal(buckets)' <=> IsSignal(buckets)
                       /\ (Taken(buckets))' = Taken(buckets)
      BY <2>1, <3>1 DEF IsSignal, Taken, Bucket, Earliest
    <3>3. QED
      BY <1>1, <2>1, <3>1, <3>2 DEF Computed, kSubset, Bucket
  <2>4. QED
    BY <1>1, <2>1, <2>2, <2>3, RowsKnownLater DEF SignalInv
<1>7. QED
  BY <1>2, <1>3, <1>4, <1>5, <1>6 DEF Next

LEMMA InitSignalInv == Init => SignalInv
<1> SUFFICES ASSUME Init PROVE SignalInv
  OBVIOUS
<1>1. Others /\ Computed
  <2>1. pc = "batches" /\ timeOfFlight = [kind |-> "time", time |-> 0] /\ written = FALSE
        /\ errorsAndWarnings = "NO_ERRORS_NO_WARNINGS"
    BY DEF Init, Number
  <2>2. Others
    <3>1. timeOfFlight \in [kind : {"time", "nan"}, time : Int]
      BY <2>1
    <3>2. QED
      BY <2>1, <3>1, Zenon DEF Others
  <2>3. Computed
    BY <2>1 DEF Computed
  <2>4. QED
    BY <2>2, <2>3
<1>2. RowsKnown
  <2>1. left \in Leftovers /\ left \in Seq(Int) /\ Len(left) <= STOP_QUEUE_LENGTH
    BY OlderAssumption DEF OlderAssumption, Init
  <2>2. \A n \in 1..Len(left) : Stale(left[n])
    <3>1. DOMAIN left = 1..Len(left)
      BY <2>1
    <3>2. QED
      BY <2>1, <3>1, EchoAssumption DEF EchoAssumption, Stale
  <2>3. times = <<>> /\ timesCount = <<>> /\ heard = <<>> /\ Len(<<>>) = 0
    BY DEF Init
  <2>4. QED
    BY <2>1, <2>2, <2>3 DEF RowsKnown
<1>3. QED
  BY <1>1, <1>2, InitInv DEF SignalInv

(* Rows and queues hold no more than their length, for any number of       *)
(* pulses, queue and loss.                                                 *)
THEOREM TypeCorrect == Spec => []TypeOK
<1>1. SignalInv => TypeOK
  <2> SUFFICES ASSUME SignalInv PROVE TypeOK
    OBVIOUS
  <2>1. /\ Rows /\ RowsKnown /\ Others /\ count \in [Bucket -> Nat]
    BY DEF SignalInv, Inv, Counts
  <2>2. \A j \in DOMAIN times : Len(times[j]) <= STOP_QUEUE_LENGTH
    <3>1. DOMAIN times = 1..Len(times)
      BY <2>1 DEF Rows
    <3>2. QED
      BY <2>1, <3>1 DEF RowsKnown
  <2>3. QED
    BY <2>1, <2>2 DEF Rows, RowsKnown, Others, TypeOK, Errors
<1>2. QED
  BY InitSignalInv, NextSignalInv, <1>1, PTL DEF Spec
-----------------------------------------------------------------------------
(* If failed rows count nothing, a bucket is given the times of each row   *)
(* that are in it, and of those at most one: that of its echo.             *)
EchoOf(k) == first - Flight + k - 10

Lengths == \A j \in 1..N : timesCount[j] = Len(times[j])

LEMMA LengthsKnown ==
  ASSUME SignalInv, pc = "answer", NoStartLost
  PROVE  Lengths /\ DOMAIN heard = 1..N /\ Len(times) = N
<1>1. /\ Len(times) = N /\ timesCount \in Seq(Nat) /\ heard \in Seq(SUBSET Nat)
      /\ Len(timesCount) = N /\ Len(heard) = N
      /\ \A j \in 1..N : times[j] # <<>> => timesCount[j] = Len(times[j])
  BY DEF SignalInv, Inv, Rows, RowsKnown
<1>2. DOMAIN timesCount = 1..N /\ DOMAIN heard = 1..N
  BY <1>1
<1>3. ASSUME NEW j \in 1..N PROVE timesCount[j] = Len(times[j])
  <2>1. CASE times[j] = <<>>
    <3>1. timesCount[j] = 0
      BY <1>2, <2>1 DEF NoStartLost, Failed
    <3>2. Len(<<>>) = 0
      OBVIOUS
    <3>3. QED
      BY <2>1, <3>1, <3>2
  <2>2. CASE times[j] # <<>>
    BY <1>1, <2>2
  <2>3. QED
    BY <2>1, <2>2
<1>4. QED
  BY <1>1, <1>2, <1>3 DEF Lengths

LEMMA CellOfRow ==
  ASSUME NEW j \in 1..N, NEW n \in 1..STOP_QUEUE_LENGTH
  PROVE  Cell(j, n) = IF n <= Len(times[j]) THEN times[j][n] ELSE 0
<1>1. (n - 1) \div STOP_QUEUE_LENGTH = 0 /\ (n - 1) % STOP_QUEUE_LENGTH = n - 1
  BY Facts
<1>2. j + 0 = j /\ n - 1 + 1 = n /\ j <= N
  BY Facts
<1>3. QED
  BY <1>1, <1>2 DEF Cell

(* What row j has in bucket k, when the first time is that of an echo.     *)
LEMMA RowInBucket ==
  ASSUME SignalInv, Len(times) = N, NEW f \in Nat, first = Flight + f,
         NEW own \in Echoes, \E p \in DOMAIN own : f = own[p],
         NEW j \in 1..N, NEW k \in Bucket
  PROVE  /\ \A n \in 1..Len(times[j]) : times[j][n] = first + k - 10 =>
              EchoOf(k) \in heard[j] /\ times[j][n] # 0
         /\ \A n, m \in 1..Len(times[j]) :
              times[j][n] = first + k - 10 /\ times[j][m] = first + k - 10 => n = m
         /\ EchoOf(k) \in heard[j] =>
              \E n \in 1..Len(times[j]) : times[j][n] = first + k - 10 /\ times[j][n] # 0
<1>1. RowOf(times[j], heard[j])
  BY DEF SignalInv, RowsKnown
<1>2. CASE times[j] = <<>> /\ heard[j] = {}
  <2>1. 1..Len(times[j]) = {}
    BY <1>2
  <2>2. QED
    BY <1>2, <2>1
<1>3. ASSUME NEW len \in Nat, NEW echoes \in Echoes,
             \A n \in 1..Len(times[j]) :
               \/ n <= len /\ Stale(-times[j][n])
               \/ n > len /\ n - len \in DOMAIN echoes /\ times[j][n] = Flight + echoes[n - len],
             \A e : e \in heard[j] <=> \E n \in 1..Len(times[j]) : n > len /\ e = echoes[n - len]
      PROVE  /\ \A n \in 1..Len(times[j]) : times[j][n] = first + k - 10 =>
                  EchoOf(k) \in heard[j] /\ times[j][n] # 0
             /\ \A n, m \in 1..Len(times[j]) :
                  times[j][n] = first + k - 10 /\ times[j][m] = first + k - 10 => n = m
             /\ EchoOf(k) \in heard[j] =>
                  \E n \in 1..Len(times[j]) : times[j][n] = first + k - 10 /\ times[j][n] # 0
  <2>1. k \in Nat /\ k <= STOP_QUEUE_LENGTH + 9
    BY Facts DEF Bucket
  <2>2. PICK e \in Int : e = EchoOf(k) /\ e = f + k - 10 /\ first + k - 10 = Flight + e
    BY <2>1, Facts DEF EchoOf
  <2>3. ASSUME NEW n \in 1..Len(times[j]), times[j][n] = first + k - 10
        PROVE  /\ n > len /\ n - len \in DOMAIN echoes /\ echoes[n - len] = e
               /\ EchoOf(k) \in heard[j] /\ times[j][n] # 0
    <3>1. ~Stale(-times[j][n])
      <4>1. Stale(-(Flight + e)) => Flight + f + STOP_QUEUE_LENGTH <= -(-(Flight + e))
        BY DEF Stale
      <4>2. ~(Flight + f + STOP_QUEUE_LENGTH <= -(-(Flight + e)))
        <5>1. e < f + STOP_QUEUE_LENGTH
          BY <2>1, <2>2, Facts
        <5>2. -(-(Flight + e)) = Flight + e
          BY <2>2, Facts
        <5>3. ~(Flight + f + STOP_QUEUE_LENGTH <= Flight + e)
          BY <2>2, <5>1, Facts
        <5>4. QED
          BY <5>2, <5>3
      <4>3. QED
        BY <2>2, <2>3, <4>1, <4>2
    <3>2. n > len /\ n - len \in DOMAIN echoes /\ times[j][n] = Flight + echoes[n - len]
      BY <1>3, <3>1
    <3>3. echoes[n - len] \in Nat
      BY <3>2, EchoesAreNaturals
    <3>4. echoes[n - len] = e
      <4>1. Flight + echoes[n - len] = Flight + e
        BY <2>2, <2>3, <3>2
      <4>2. QED
        BY <2>2, <3>3, <4>1, Facts
    <3>5. times[j][n] # 0
      BY <3>2, <3>3, Facts
    <3>6. EchoOf(k) \in heard[j]
      BY <1>3, <2>2, <3>2, <3>4
    <3>7. QED
      BY <3>2, <3>4, <3>5, <3>6
  <2>4. ASSUME NEW n \in 1..Len(times[j]), NEW m \in 1..Len(times[j]),
               times[j][n] = first + k - 10, times[j][m] = first + k - 10
        PROVE  n = m
    <3>1. PICK p \in DOMAIN echoes, q \in DOMAIN echoes :
            p = n - len /\ q = m - len /\ echoes[p] = e /\ echoes[q] = e
      BY <2>3, <2>4
    <3>2. p \in Int /\ q \in Int
      BY <3>1
    <3>3. p < q => echoes[p] < echoes[q]
      BY EchoAssumption DEF EchoAssumption
    <3>4. q < p => echoes[q] < echoes[p]
      BY EchoAssumption DEF EchoAssumption
    <3>5. ~(p < q) /\ ~(q < p)
      BY <2>2, <3>1, <3>3, <3>4
    <3>6. QED
      BY <3>1, <3>2, <3>5
  <2>5. ASSUME EchoOf(k) \in heard[j]
        PROVE  \E n \in 1..Len(times[j]) : times[j][n] = first + k - 10 /\ times[j][n] # 0
    <3>1. PICK n \in 1..Len(times[j]) : n > len /\ e = echoes[n - len]
      BY <1>3, <2>2, <2>5
    <3>2. n - len \in DOMAIN echoes /\ times[j][n] = Flight + echoes[n - len]
      BY <1>3, <3>1
    <3>3. times[j][n] = first + k - 10
      BY <2>2, <3>1, <3>2
    <3>4. QED
      BY <2>3, <3>3
  <2>6. QED
    BY <2>3, <2>4, <2>5
<1>4. QED
  BY <1>1, <1>2, <1>3 DEF RowOf

(* So a bucket's count is the number of pulses that heard its echo. *)
LEMMA CountIsHearing ==
  ASSUME SignalInv, pc = "answer", ~NoBuckets, NoStartLost,
         NEW f \in Nat, first = Flight + f,
         NEW own \in Echoes, \E p \in DOMAIN own : f = own[p], NEW k \in Bucket
  PROVE  count[k] = Hearing(EchoOf(k))
<1> DEFINE cells == {c \in Counted : Cell(c[1], c[2]) = first + k - 10}
           hearers == {j \in DOMAIN heard : EchoOf(k) \in heard[j]}
<1>1. count[k] = Cardinality(cells)
  BY DEF SignalInv, Computed, CountedCells
<1>2. Lengths /\ DOMAIN heard = 1..N /\ Len(times) = N
  BY LengthsKnown
<1>3. \A j \in 1..N :
         /\ \A n \in 1..Len(times[j]) : times[j][n] = first + k - 10 =>
              EchoOf(k) \in heard[j] /\ times[j][n] # 0
         /\ \A n, m \in 1..Len(times[j]) :
              times[j][n] = first + k - 10 /\ times[j][m] = first + k - 10 => n = m
         /\ EchoOf(k) \in heard[j] =>
              \E n \in 1..Len(times[j]) : times[j][n] = first + k - 10 /\ times[j][n] # 0
  BY <1>2, RowInBucket
<1>4. \A j \in 1..N : Len(times[j]) \in Nat /\ Len(times[j]) <= STOP_QUEUE_LENGTH
  <2>1. times \in Seq(Seq(Nat)) /\ RowsKnown
    BY DEF SignalInv, Inv, Rows
  <2>2. QED
    BY <1>2, <2>1 DEF RowsKnown
<1>5. \A c : c \in cells <=>
        /\ c = <<c[1], c[2]>> /\ c[1] \in 1..N /\ c[2] \in 1..Len(times[c[1]])
        /\ times[c[1]][c[2]] = first + k - 10 /\ times[c[1]][c[2]] # 0
  <2>1. TAKE c
  <2>2. c \in cells <=>
          /\ c \in (1..N) \X (1..(N * STOP_QUEUE_LENGTH)) /\ c[2] <= timesCount[c[1]]
          /\ Cell(c[1], c[2]) # 0 /\ Cell(c[1], c[2]) = first + k - 10
    BY DEF Counted
  <2>3. STOP_QUEUE_LENGTH <= N * STOP_QUEUE_LENGTH /\ N * STOP_QUEUE_LENGTH \in Nat
    <3>1. (N - 1) * STOP_QUEUE_LENGTH \in Nat
          /\ (N - 1) * STOP_QUEUE_LENGTH = N * STOP_QUEUE_LENGTH - STOP_QUEUE_LENGTH
      BY Facts
    <3>2. QED
      BY <3>1, Facts
  <2>4. c \in (1..N) \X (1..(N * STOP_QUEUE_LENGTH)) <=>
          c = <<c[1], c[2]>> /\ c[1] \in 1..N /\ c[2] \in 1..(N * STOP_QUEUE_LENGTH)
    OBVIOUS
  <2>5. ASSUME c[1] \in 1..N
        PROVE  c[2] \in 1..(N * STOP_QUEUE_LENGTH) /\ c[2] <= timesCount[c[1]]
                 <=> c[2] \in 1..Len(times[c[1]])
    <3>1. PICK l \in Nat : l = Len(times[c[1]]) /\ l = timesCount[c[1]] /\ l <= STOP_QUEUE_LENGTH
      BY <1>2, <1>4, <2>5 DEF Lengths
    <3>2. \A n : n \in 1..(N * STOP_QUEUE_LENGTH) /\ n <= l <=> n \in 1..l
      BY <2>3, <3>1, Facts
    <3>3. QED
      BY <3>1, <3>2
  <2>6. ASSUME c[1] \in 1..N, c[2] \in 1..Len(times[c[1]])
        PROVE  Cell(c[1], c[2]) = times[c[1]][c[2]]
    <3>1. c[2] \in 1..STOP_QUEUE_LENGTH /\ c[2] <= Len(times[c[1]])
      BY <1>4, <2>6, Facts
    <3>2. QED
      BY <2>6, <3>1, CellOfRow
  <2> HIDE DEF cells
  <2>7. QED
    BY <2>2, <2>4, <2>5, <2>6
<1>6. IsFiniteSet(hearers)
  <2>1. IsFiniteSet(1..N)
    BY Facts, FS_Interval
  <2>2. QED
    BY <1>2, <2>1, FS_Subset
<1> HIDE DEF cells
<1> DEFINE row == [c \in cells |-> c[1]]
<1>7. row \in [cells -> hearers]
  BY <1>2, <1>3, <1>5
<1> HIDE DEF hearers
<1>8. ASSUME NEW c \in cells, NEW d \in cells, row[c] = row[d] PROVE c = d
  <2>1. PICK r \in 1..N : r = c[1] /\ r = d[1]
    BY <1>5, <1>8
  <2>2. /\ c[2] \in 1..Len(times[r]) /\ times[r][c[2]] = first + k - 10 /\ c = <<r, c[2]>>
        /\ d[2] \in 1..Len(times[r]) /\ times[r][d[2]] = first + k - 10 /\ d = <<r, d[2]>>
    BY <1>5, <2>1
  <2>3. c[2] = d[2]
    BY <1>3, <2>2
  <2>4. QED
    BY <2>2, <2>3
<1>9. ASSUME NEW r \in hearers PROVE \E c \in cells : row[c] = r
  <2>1. r \in 1..N /\ EchoOf(k) \in heard[r]
    BY <1>2 DEF hearers
  <2>2. PICK n \in 1..Len(times[r]) : times[r][n] = first + k - 10 /\ times[r][n] # 0
    BY <1>3, <2>1
  <2>3. <<r, n>> \in cells
    BY <1>5, <2>1, <2>2
  <2>4. QED
    BY <2>3
<1>10. Cardinality(cells) = Cardinality(hearers)
  <2>1. row \in Injection(cells, hearers)
    BY <1>7, <1>8, Fun_IsInj
  <2>2. row \in Surjection(cells, hearers)
    BY <1>7, <1>9, Fun_IsSurj
  <2>3. QED
    BY <1>6, <2>1, <2>2, FS_Injection
<1>11. QED
  BY <1>1, <1>10 DEF hearers, Hearing
-----------------------------------------------------------------------------
LEMMA LeastIsLeast ==
  ASSUME NEW S \in SUBSET Nat, S # {}
  PROVE  \E x \in S : x = Min(S) /\ \A y \in S : x <= y
<1> DEFINE R == {ss \in Nat \X Nat : ss[1] < ss[2]}
<1>1. IsWellFoundedOn(R, Nat)
  BY NatLessThanWellFounded, Zenon DEF OpToRel
<1>2. PICK x \in S : \A y \in S : ~ (<<y, x>> \in R)
  <2> HIDE DEF R
  <2>1. QED
    BY <1>1, WFMin
<1>3. \A y \in S : ~ (y < x)
  BY <1>2
<1>4. \A y \in S : x <= y
  BY <1>3
<1>5. QED
  BY <1>4 DEF Min

(* Two subsets of one size: an element too few in one is one too many in   *)
(* the other.                                                              *)
LEMMA SameSize ==
  ASSUME NEW U, IsFiniteSet(U), NEW S \in SUBSET U, NEW T \in SUBSET U,
         Cardinality(S) = Cardinality(T), S \subseteq T
  PROVE  S = T
<1>1. IsFiniteSet(T)
  BY FS_Subset
<1>2. QED
  BY <1>1, FS_Subset

(* The buckets of a signal that stands out are those that the sort takes.  *)
LEMMA SignalIsTaken ==
  ASSUME SignalInv, pc = "answer", ~NoBuckets, NoStartLost,
         NEW f \in Nat, first = Flight + f,
         NEW own \in Echoes, \E p \in DOMAIN own : f = own[p],
         NEW signal \in kSubset(SIGNAL_WIDTH, AllHeard), Stands(signal),
         \A e \in signal : Flight + e - first + 10 \in Bucket,
         NEW buckets \in kSubset(SIGNAL_WIDTH, Bucket), IsSignal(buckets)
  PROVE  /\ \A e \in signal : e - f + 10 \in buckets
         /\ \A k \in buckets : EchoOf(k) \in signal
<1>1. \A k \in Bucket : count[k] = Hearing(EchoOf(k)) /\ count[k] \in Nat /\ k \in Int
  <2>1. \A k \in Bucket : count[k] = Hearing(EchoOf(k))
    BY CountIsHearing
  <2>2. \A k \in Bucket : count[k] \in Nat /\ k \in Int
    BY DEF SignalInv, Inv, Counts, Bucket
  <2>3. QED
    BY <2>1, <2>2
<1>2. signal \in SUBSET AllHeard /\ Cardinality(signal) = SIGNAL_WIDTH
  BY DEF kSubset
<1>3. buckets \in SUBSET Bucket /\ Cardinality(buckets) = SIGNAL_WIDTH
  BY DEF kSubset
<1>4. /\ AllHeard \in SUBSET Nat /\ heard \in Seq(SUBSET Nat)
      /\ DOMAIN heard = 1..Len(heard) /\ Len(heard) \in Nat
  <2>1. heard \in Seq(SUBSET Nat)
    BY DEF SignalInv, RowsKnown
  <2>2. QED
    BY <2>1 DEF AllHeard
<1>5. \A e \in signal : e \in Nat /\ e - f + 10 \in Bucket /\ EchoOf(e - f + 10) = e
  <2>1. TAKE e \in signal
  <2>2. e \in Nat
    BY <1>2, <1>4
  <2>3. Flight + e - first + 10 = e - f + 10
    BY <2>2, Facts
  <2>4. EchoOf(e - f + 10) = e
    BY <2>2, Facts DEF EchoOf
  <2>5. QED
    BY <2>2, <2>3, <2>4
<1> DEFINE ofSignal == {k \in Bucket : EchoOf(k) \in signal}
<1>6. Cardinality(ofSignal) = SIGNAL_WIDTH /\ IsFiniteSet(Bucket)
  <2>1. IsFiniteSet(Bucket)
    BY Facts, FS_Interval DEF Bucket
  <2>2. IsFiniteSet(ofSignal)
    BY <2>1, FS_Subset
  <2> DEFINE echo == [k \in ofSignal |-> EchoOf(k)]
  <2>3. echo \in [ofSignal -> signal]
    OBVIOUS
  <2>4. ASSUME NEW k \in ofSignal, NEW l \in ofSignal, echo[k] = echo[l] PROVE k = l
    <3>1. k \in Int /\ l \in Int /\ EchoOf(k) = EchoOf(l)
      BY <1>1, <2>4
    <3>2. f + k - 10 = f + l - 10
      BY <3>1, Facts DEF EchoOf
    <3>3. QED
      BY <3>1, <3>2
  <2>5. ASSUME NEW e \in signal PROVE \E k \in ofSignal : echo[k] = e
    <3>1. e - f + 10 \in ofSignal /\ EchoOf(e - f + 10) = e
      BY <1>5
    <3> HIDE DEF ofSignal
    <3>2. echo[e - f + 10] = e
      BY <3>1
    <3>3. QED
      BY <3>1, <3>2
  <2> HIDE DEF ofSignal
  <2>6. echo \in Injection(ofSignal, signal)
    BY <2>3, <2>4, Fun_IsInj
  <2>7. echo \in Surjection(ofSignal, signal)
    BY <2>3, <2>5, Fun_IsSurj
  <2>8. Cardinality(signal) = Cardinality(ofSignal)
    BY <2>2, <2>6, <2>7, FS_Surjection
  <2>9. QED
    BY <1>2, <2>1, <2>8
<1>7. ASSUME NEW k \in ofSignal, NEW l \in Bucket \ ofSignal PROVE count[k] > count[l]
  <2>1. EchoOf(k) \in signal /\ EchoOf(l) \notin signal
    BY <1>7
  <2>2. CASE EchoOf(l) \in AllHeard
    <3>1. Hearing(EchoOf(k)) > Hearing(EchoOf(l))
      BY <2>1, <2>2 DEF Stands
    <3>2. QED
      BY <1>1, <3>1
  <2>3. CASE EchoOf(l) \notin AllHeard
    <3>1. {j \in DOMAIN heard : EchoOf(l) \in heard[j]} = {}
      BY <2>3 DEF AllHeard
    <3>2. count[l] = 0
      BY <1>1, <3>1, FS_EmptySet DEF Hearing
    <3>3. {j \in DOMAIN heard : EchoOf(k) \in heard[j]} # {}
      BY <1>2, <2>1 DEF AllHeard
    <3>4. IsFiniteSet({j \in DOMAIN heard : EchoOf(k) \in heard[j]})
      <4>1. IsFiniteSet(DOMAIN heard)
        BY <1>4, FS_Interval
      <4>2. QED
        BY <4>1, FS_Subset
    <3>5. count[k] # 0
      BY <1>1, <3>3, <3>4, FS_EmptySet DEF Hearing
    <3>6. QED
      BY <1>1, <3>2, <3>5
  <2>4. QED
    BY <2>2, <2>3
<1>8. ofSignal \subseteq Bucket /\ \A k \in Bucket : k \in ofSignal <=> EchoOf(k) \in signal
  OBVIOUS
<1> HIDE DEF ofSignal
<1>9. ofSignal = buckets
  <2>1. CASE ofSignal \subseteq buckets
    BY <1>3, <1>6, <1>8, <2>1, SameSize
  <2>2. CASE ~(ofSignal \subseteq buckets)
    <3>1. PICK k \in ofSignal : k \notin buckets
      BY <2>2
    <3>2. ~(buckets \subseteq ofSignal)
      <4>1. buckets \subseteq ofSignal => buckets = ofSignal
        BY <1>3, <1>6, <1>8, SameSize
      <4>2. QED
        BY <3>1, <4>1
    <3>3. PICK l \in buckets : l \notin ofSignal
      BY <3>2
    <3>4. count[l] >= count[k]
      BY <1>3, <1>8, <3>1, <3>3 DEF IsSignal
    <3>5. count[k] > count[l]
      BY <1>3, <1>7, <3>1, <3>3
    <3>6. QED
      BY <1>1, <1>3, <1>8, <3>1, <3>3, <3>4, <3>5
  <2>3. QED
    BY <2>1, <2>2
<1>10. QED
  BY <1>3, <1>5, <1>8, <1>9

(* The earliest bucket is that of the signal's first echo, which somebody  *)
(* heard: so the result is a number, and the signal's time.                *)
LEMMA EarliestIsFirst ==
  ASSUME SignalInv, pc = "answer", ~NoBuckets, NoStartLost,
         NEW f \in Nat, first = Flight + f,
         NEW own \in Echoes, \E p \in DOMAIN own : f = own[p],
         NEW signal \in kSubset(SIGNAL_WIDTH, AllHeard), Stands(signal),
         \A e \in signal : Flight + e - first + 10 \in Bucket
  PROVE  timeOfFlight = Number(Flight + Min(signal) - Shift)
<1>1. PICK buckets \in kSubset(SIGNAL_WIDTH, Bucket) : IsSignal(buckets) /\ timeOfFlight = Taken(buckets)
  BY DEF SignalInv, Computed
<1>2. /\ \A e \in signal : e - f + 10 \in buckets
      /\ \A k \in buckets : EchoOf(k) \in signal
  BY <1>1, SignalIsTaken
<1>3. /\ heard \in Seq(SUBSET Nat) /\ AllHeard \in SUBSET Nat
      /\ DOMAIN heard = 1..Len(heard) /\ Len(heard) \in Nat
  <2>1. heard \in Seq(SUBSET Nat)
    BY DEF SignalInv, RowsKnown
  <2>2. QED
    BY <2>1 DEF AllHeard
<1>4. signal \in SUBSET AllHeard /\ signal \in SUBSET Nat /\ signal # {}
  <2>1. signal \in SUBSET AllHeard /\ Cardinality(signal) = SIGNAL_WIDTH
    BY DEF kSubset
  <2>2. signal # {}
    BY <2>1, FS_EmptySet, Facts
  <2>3. QED
    BY <1>3, <2>1, <2>2
<1>5. buckets \in SUBSET Bucket /\ buckets \in SUBSET Nat /\ buckets # {}
  <2>1. buckets \in SUBSET Bucket /\ Bucket \in SUBSET Nat
    BY Facts DEF kSubset, Bucket
  <2>2. buckets # {}
    BY <1>2, <1>4
  <2>3. QED
    BY <2>1, <2>2
<1>6. PICK e \in signal : e = Min(signal) /\ \A d \in signal : e <= d
  BY <1>4, LeastIsLeast
<1>7. PICK k \in buckets : k = Min(buckets) /\ \A l \in buckets : k <= l
  BY <1>5, LeastIsLeast
<1>8. e \in Nat /\ k \in Nat
  BY <1>4, <1>5, <1>6, <1>7
<1>9. EchoOf(k) = f + k - 10 /\ EchoOf(k) \in signal
  BY <1>2, <1>8, Facts DEF EchoOf
<1>10. k = e - f + 10
  <2>1. k <= e - f + 10
    BY <1>2, <1>6, <1>7
  <2>2. e <= f + k - 10
    BY <1>6, <1>9
  <2>3. QED
    BY <1>8, <2>1, <2>2
<1>11. EchoOf(k) = e /\ first + k - 10 = Flight + e
  BY <1>8, <1>9, <1>10, Facts
<1>12. count[k] # 0
  <2>1. count[k] = Hearing(e)
    BY <1>5, <1>11, CountIsHearing
  <2>2. {j \in DOMAIN heard : e \in heard[j]} # {}
    BY <1>4, <1>6 DEF AllHeard
  <2>3. IsFiniteSet({j \in DOMAIN heard : e \in heard[j]})
    <3>1. IsFiniteSet(DOMAIN heard)
      BY <1>3, FS_Interval
    <3>2. QED
      BY <3>1, FS_Subset
  <2>4. QED
    BY <2>1, <2>2, <2>3, FS_EmptySet DEF Hearing
<1>13. Earliest(buckets) = k
  BY <1>7 DEF Earliest
<1>14. timeOfFlight = Number(first + k - 10 - Shift)
  BY <1>1, <1>12, <1>13 DEF Taken
<1>15. first + k - 10 - Shift = Flight + e - Shift
  BY <1>8, <1>11, Facts
<1>16. timeOfFlight = Number(Flight + e - Shift)
  BY <1>14, <1>15, Zenon
<1>17. QED
  BY <1>6, <1>16, Zenon

(* calculateTimeOfFlight of the older firmware finds the signal for every  *)
(* number of pulses, length of the queue and width, however qsort orders   *)
(* equal buckets, if no lost start leaves a count unwritten.               *)
THEOREM SignalsAreFound == Spec => []SignalIsFound
<1>1. SignalInv => SignalIsFound
  <2> SUFFICES ASSUME SignalInv, pc = "answer", ~NoBuckets, NoStartLost,
                      heard[1] # {}, first = Flight + Min(heard[1]),
                      NEW signal \in kSubset(SIGNAL_WIDTH, AllHeard), Stands(signal),
                      \A e \in signal : Flight + e - first + 10 \in Bucket
               PROVE  timeOfFlight = Number(Flight + Min(signal) - Shift)
    BY DEF SignalIsFound
  <2>1. RowOf(times[1], heard[1]) /\ heard[1] \in SUBSET Nat
    <3>1. Len(times) = N /\ DOMAIN heard = 1..N /\ heard \in Seq(SUBSET Nat)
      BY LengthsKnown DEF SignalInv, RowsKnown
    <3>2. 1 \in 1..N
      BY Facts
    <3>3. QED
      BY <3>1, <3>2 DEF SignalInv, RowsKnown
  <2>2. PICK f \in Nat : f = Min(heard[1]) /\ f \in heard[1]
    BY <2>1, LeastElement
  <2>3. PICK len \in Nat, own \in Echoes :
          /\ \A n \in 1..Len(times[1]) :
               \/ n <= len /\ Stale(-times[1][n])
               \/ n > len /\ n - len \in DOMAIN own /\ times[1][n] = Flight + own[n - len]
          /\ \A e : e \in heard[1] <=> \E n \in 1..Len(times[1]) : n > len /\ e = own[n - len]
    BY <2>1 DEF RowOf
  <2>4. PICK n \in 1..Len(times[1]) : n > len /\ f = own[n - len]
    BY <2>2, <2>3
  <2>5. n - len \in DOMAIN own
    <3>1. ~(n <= len)
      <4>1. times \in Seq(Seq(Nat)) /\ Len(times) = N
        BY DEF SignalInv, Inv, Rows
      <4>2. times[1] \in Seq(Nat)
        BY <4>1, Facts
      <4>3. n \in Int
        BY <4>2
      <4>4. QED
        BY <2>4, <4>3
    <3>2. QED
      BY <2>3, <3>1
  <2>6. QED
    BY <2>2, <2>4, <2>5, EarliestIsFirst
<1>2. QED
  BY InitSignalInv, NextSignalInv, <1>1, PTL DEF Spec
=============================================================================
