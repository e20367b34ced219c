-------------------------- MODULE OlderMeasurement --------------------------
(***************************************************************************)
(* The measurement of the firmware before Blynk (src/Anemoi/main,          *)
(* TimeMeasurementAnemoi.c).  It differs from TimeMeasurement in that a    *)
(* failed batch does not end the call, and in how calculateTimeOfFlight    *)
(* finds the echo: it sorts the buckets by how many pulses they were heard *)
(* by and takes the earliest of the first SIGNAL_WIDTH, the signal.        *)
(*                                                                         *)
(* Pins and handlers are as in TimeMeasurement.  Times are in periods of   *)
(* the transducer, so each lies at the centre of a bucket: where in its    *)
(* bucket a time lies is the subject of TimeOfFlight.                      *)
(***************************************************************************)
EXTENDS Integers, Sequences, FiniteSets, FiniteSetsExt

CONSTANTS
  N,                  (* pulses of a call: 50                               *)
  STOP_QUEUE_LENGTH,  (* stops kept of a pulse: 30                          *)
  SIGNAL_WIDTH,       (* of the path: 18 to 21                              *)
  Shift,              (* the path's phase shift                             *)
  UPPER_TIME_LIMIT, LOWER_TIME_LIMIT,
  (* the environment *)
  Flight,             (* true time of echo 0                                *)
  Gap,                (* from one start to the next                         *)
  Echoes,             (* what may be heard of a pulse: ascending echoes     *)
  Leftovers,          (* stops that the call before may have left, before   *)
                      (* the first start: negative                          *)
  Unwritten           (* what an element of timesCount may hold unwritten   *)

ASSUME OlderAssumption ==
  /\ N \in Nat \ {0} /\ STOP_QUEUE_LENGTH \in Nat \ {0}
  /\ SIGNAL_WIDTH \in 1..(STOP_QUEUE_LENGTH + 10)
  /\ Shift \in Nat /\ UPPER_TIME_LIMIT \in Nat /\ LOWER_TIME_LIMIT \in Nat \ {0}
  /\ Flight \in Nat \ {0} /\ Gap \in Nat
  /\ Echoes \subseteq Seq(Nat) /\ Leftovers \subseteq Seq(Int) /\ Unwritten \subseteq Nat
  /\ \A stops \in Leftovers : Len(stops) <= STOP_QUEUE_LENGTH

(* Echoes come one after the other, and from one pulse to the next, as     *)
(* from the call before, it takes longer than two of them and a queue.     *)
ASSUME EchoAssumption ==
  \A echoes \in Echoes : \A n \in DOMAIN echoes :
    /\ \A m \in DOMAIN echoes : m < n => echoes[m] < echoes[n]
    /\ \A others \in Echoes : \A m \in DOMAIN others :
         2 * Flight + echoes[n] + others[m] + STOP_QUEUE_LENGTH <= Gap
    /\ \A stops \in Leftovers : \A m \in DOMAIN stops :
         Flight + echoes[n] + STOP_QUEUE_LENGTH <= -stops[m]

VARIABLES
  pc,                 (* "batches", "count", "sort", "answer" or "done"     *)
  left,               (* stops queued before the next start                 *)
  times, timesCount,  (* the rows of the call; the rest of a row is 0       *)
  heard,              (* history: the echoes of the batches without error   *)
  count,              (* the field of relativeTimes[k]                      *)
  timeOfFlight,       (* what calculateTimeOfFlight returned                *)
  errorsAndWarnings,
  written             (* has the caller's time been written?                *)

vars == <<pc, left, times, timesCount, heard, count, timeOfFlight,
          errorsAndWarnings, written>>

Bucket == 0..(STOP_QUEUE_LENGTH + 9)
Number(t) == [kind |-> "time", time |-> t]
NotANumber == [kind |-> "nan", time |-> 0]

Init ==
  /\ pc = "batches" /\ left \in Leftovers
  /\ times = <<>> /\ timesCount = <<>> /\ heard = <<>>
  /\ count = [k \in Bucket |-> 0]
  /\ timeOfFlight = Number(0)
  /\ errorsAndWarnings = "NO_ERRORS_NO_WARNINGS" /\ written = FALSE
-----------------------------------------------------------------------------
Abs(n) == IF n < 0 THEN -n ELSE n

(* The stop queue when the wait for a pulse is over: it takes no more than *)
(* its length.                                                             *)
QueueUnbounded(echoes) == left \o [n \in DOMAIN echoes |-> Flight + echoes[n]]

Queue(echoes) ==
  LET all == left \o [n \in DOMAIN echoes |-> Flight + echoes[n]]
  IN  SubSeq(all, 1, Min({Len(all), STOP_QUEUE_LENGTH}))

Row(row, number, own, error) ==
  /\ times' = Append(times, row)
  /\ timesCount' = Append(timesCount, number)
  /\ heard' = Append(heard, own)
  /\ errorsAndWarnings' = error
  /\ pc' = IF Len(times') < N THEN "batches" ELSE "count"
  /\ UNCHANGED <<count, timeOfFlight, written>>

(* sendTrigger and calculateTimes: all stops queued are this pulse's,      *)
Batch(echoes) ==
  /\ pc = "batches" /\ Queue(echoes) # <<>> /\ left' = <<>>
  /\ Row([n \in DOMAIN Queue(echoes) |-> Abs(Queue(echoes)[n])], Len(Queue(echoes)),
         {echoes[n - Len(left)] : n \in (Len(left) + 1)..Len(Queue(echoes))},
         "NO_ERRORS_NO_WARNINGS")

(* or there are none,                                                      *)
NoStopReceived(echoes) ==
  /\ pc = "batches" /\ Queue(echoes) = <<>> /\ left' = <<>>
  /\ Row(<<>>, 0, {}, "ERROR_NO_STOP_RECEIVED")

(* or the start is missing: the stops stay queued and the row's timesCount *)
(* is not written.                                                         *)
NoStartReceived(echoes, number) ==
  /\ pc = "batches"
  /\ left' = [n \in DOMAIN Queue(echoes) |-> Queue(echoes)[n] - Gap]
  /\ Row(<<>>, number, {}, "ERROR_NO_START_RECEIVED")
-----------------------------------------------------------------------------
(* The loop over the rows looks at ptrTimes[0], of the first row, each     *)
(* time; if it is 0, or puts bucket 0 at 0, the result is 0.               *)
first == IF times[1] = <<>> THEN 0 ELSE times[1][1]
NoBuckets == first = 0 \/ first = 10

GiveUp ==
  /\ pc = "count" /\ NoBuckets /\ pc' = "answer"
  /\ timeOfFlight' = Number(0)
  /\ UNCHANGED <<left, times, timesCount, heard, count, errorsAndWarnings, written>>

(* ptrTimes[j*STOP_QUEUE_LENGTH+i]: a count longer than a row leads on to  *)
(* the following rows.  Beyond the last one nothing is counted here.       *)
Cell(j, n) ==
  LET r == j + ((n - 1) \div STOP_QUEUE_LENGTH)
      c == ((n - 1) % STOP_QUEUE_LENGTH) + 1
  IN  IF r <= N /\ c <= Len(times[r]) THEN times[r][c] ELSE 0

Counted == {c \in (1..N) \X (1..(N * STOP_QUEUE_LENGTH)) :
              c[2] <= timesCount[c[1]] /\ Cell(c[1], c[2]) # 0}

Count ==
  /\ pc = "count" /\ ~NoBuckets /\ pc' = "sort"
  /\ count' = [k \in Bucket |->
                Cardinality({c \in Counted : Cell(c[1], c[2]) = first + k - 10})]
  /\ UNCHANGED <<left, times, timesCount, heard, timeOfFlight, errorsAndWarnings, written>>

(* qsort by count is not stable: which of equal buckets come first is open.*)
IsSignalAscending(buckets) == \A k \in buckets, l \in Bucket \ buckets : count[k] <= count[l]

IsSignal(buckets) == \A k \in buckets, l \in Bucket \ buckets : count[k] >= count[l]

EarliestAnywhere(buckets) == Min(Bucket)
Earliest(buckets) == Min(buckets)

Sort(buckets) ==
  /\ pc = "sort" /\ IsSignal(buckets) /\ pc' = "answer"
  /\ timeOfFlight' = IF count[Earliest(buckets)] = 0 THEN NotANumber
                     ELSE Number(first + Earliest(buckets) - 10 - Shift)
  /\ UNCHANGED <<left, times, timesCount, heard, count, errorsAndWarnings, written>>

(* The range check lets not a number pass and replaces the error of the    *)
(* last batch, which is returned otherwise, also with a time written.      *)
OutOfRange ==
  /\ timeOfFlight.kind = "time"
  /\ timeOfFlight.time > UPPER_TIME_LIMIT \/ timeOfFlight.time < LOWER_TIME_LIMIT

AnswerKeepsError ==
  /\ pc = "answer" /\ pc' = "done"
  /\ written' = ~OutOfRange
  /\ errorsAndWarnings' =
       IF OutOfRange /\ errorsAndWarnings = "NO_ERRORS_NO_WARNINGS"
       THEN "ERROR_TIME_OUT_OF_RANGE" ELSE errorsAndWarnings
  /\ UNCHANGED <<left, times, timesCount, heard, count, timeOfFlight>>

Answer ==
  /\ pc = "answer" /\ pc' = "done"
  /\ written' = ~OutOfRange
  /\ errorsAndWarnings' = IF OutOfRange THEN "ERROR_TIME_OUT_OF_RANGE" ELSE errorsAndWarnings
  /\ UNCHANGED <<left, times, timesCount, heard, count, timeOfFlight>>

Next ==
  \/ \E echoes \in Echoes : Batch(echoes) \/ NoStopReceived(echoes)
  \/ \E echoes \in Echoes, number \in Unwritten : NoStartReceived(echoes, number)
  \/ GiveUp \/ Count \/ Answer
  \/ \E buckets \in kSubset(SIGNAL_WIDTH, Bucket) : Sort(buckets)

Spec == Init /\ [][Next]_vars
-----------------------------------------------------------------------------
(* Every variable has its type, and no row or queue is too long. *)
TypeOK ==
  /\ pc \in {"batches", "count", "sort", "answer", "done"}
  /\ left \in Seq(Int) /\ times \in Seq(Seq(Nat)) /\ timesCount \in Seq(Nat)
  /\ Len(left) <= STOP_QUEUE_LENGTH
  /\ Len(times) <= N /\ Len(timesCount) = Len(times) /\ Len(heard) = Len(times)
  /\ \A j \in DOMAIN times : Len(times[j]) <= STOP_QUEUE_LENGTH
  /\ count \in [Bucket -> Nat]
  /\ timeOfFlight \in [kind : {"time", "nan"}, time : Int]
  /\ errorsAndWarnings \in {"NO_ERRORS_NO_WARNINGS", "ERROR_NO_START_RECEIVED",
                            "ERROR_NO_STOP_RECEIVED", "ERROR_TIME_OUT_OF_RANGE"}
  /\ written \in BOOLEAN

Failed(j) == times[j] = <<>>

(* What the caller learns.  Of N batches it hears of the first, which no   *)
(* other can replace, and of the last: a time is written although the last *)
(* has failed, and "no error" is answered although others have.            *)
AnswerTellsFirstAndLast ==
  pc = "done" =>
    /\ written => ~Failed(1) /\ errorsAndWarnings # "ERROR_TIME_OUT_OF_RANGE"
    /\ ~written => errorsAndWarnings = "ERROR_TIME_OUT_OF_RANGE"
    /\ errorsAndWarnings \in {"ERROR_NO_START_RECEIVED", "ERROR_NO_STOP_RECEIVED"} <=>
         written /\ Failed(N)

(* If times fell into at least SIGNAL_WIDTH buckets, whatever they are and *)
(* however ties are broken, the result is a number.                        *)
NumberIfWideEnough ==
  pc = "answer" /\ Cardinality({k \in Bucket : count[k] > 0}) >= SIGNAL_WIDTH =>
    timeOfFlight.kind = "time"

(* If no start is lost and SIGNAL_WIDTH echoes are each heard by more      *)
(* pulses than any other echo is, the result is the time of the first of   *)
(* them, whatever the first pulse heard first, as long as they all have    *)
(* buckets around it, and whichever pulses but the first heard nothing.    *)
Hearing(e) == Cardinality({j \in DOMAIN heard : e \in heard[j]})
AllHeard == UNION {heard[j] : j \in DOMAIN heard}
Stands(signal) == \A e \in signal, f \in AllHeard \ signal : Hearing(e) > Hearing(f)
NoStartLost == \A j \in DOMAIN timesCount : Failed(j) => timesCount[j] = 0

SignalIsFound ==
  (/\ pc = "answer" /\ ~NoBuckets /\ NoStartLost
   /\ heard[1] # {} /\ first = Flight + Min(heard[1])) =>
    \A signal \in kSubset(SIGNAL_WIDTH, AllHeard) :
      Stands(signal) /\ (\A e \in signal : Flight + e - first + 10 \in Bucket)
        => timeOfFlight = Number(Flight + Min(signal) - Shift)

(* "if some error ocurres this batch doesnt count"                         *)
(* (src/Anemoi/main/TimeMeasurementAnemoi.c:96): every bucket counts the   *)
(* times of the batches without error, each of them once.                  *)
FailedBatchDoesNotCount ==
  pc = "sort" => \A k \in Bucket :
    count[k] = Cardinality({c \in (1..N) \X (1..STOP_QUEUE_LENGTH) :
                 /\ ~Failed(c[1]) /\ c[2] <= Len(times[c[1]])
                 /\ times[c[1]][c[2]] = first + k - 10})
=============================================================================
