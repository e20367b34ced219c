---------------------------- MODULE TimeOfFlight ----------------------------
(***************************************************************************)
(* From the stamps of a batch to a time of flight: calculateTimes turns    *)
(* cycle stamps into times (TimeMeasurementAnemoi.c:311-321), and          *)
(* calculateTimeOfFlight sorts the times of all pulses into buckets one    *)
(* period wide and looks for the first echo that most pulses agree on.     *)
(*                                                                         *)
(* Times are integers, in any unit.  The TDC1000 makes of each pulse a     *)
(* STOP edge for every period of the echo that it recognises; echo e       *)
(* arrives at FirstEcho + e * Period, give or take the jitter.             *)
(***************************************************************************)
EXTENDS Integers, Sequences, FiniteSets, FiniteSetsExt

CONSTANTS
  N,                  (* pulses in a batch: 20                              *)
  Quota,              (* times that make a bucket full: 0.9 N               *)
  STOP_QUEUE_LENGTH,  (* stops kept of a pulse: 30                          *)
  Period,             (* 1 / TRANSDUCER_FREQUENCY_IN_HZ                     *)
  Shift,              (* the path's phase shift and calibration             *)
  UPPER_TIME_LIMIT, LOWER_TIME_LIMIT,
  CounterSize,        (* the cycle counter counts modulo this               *)
  (* the environment *)
  Starts,             (* what the counter may read at the first pulse       *)
  Gap,                (* from the start of a pulse to the next one's        *)
  FirstEcho,          (* true time of echo 0 of a pulse                     *)
  Echoes,             (* what may be recognised of a pulse: ascending echoes*)
  Jitter,             (* by how much the echoes of a pulse may be off       *)
  Prefixes            (* stops the first pulse may find in front of its own:*)
                      (* negative if left by a failed call, else spurious   *)

ASSUME FlightAssumption ==
  /\ N \in Nat \ {0} /\ Quota \in 1..N
  /\ STOP_QUEUE_LENGTH \in Nat \ {0}
  /\ Period \in Nat \ {0} /\ Shift \in Int
  /\ UPPER_TIME_LIMIT \in Int /\ LOWER_TIME_LIMIT \in Nat \ {0}
  /\ CounterSize \in Nat \ {0} /\ Gap \in Nat
  /\ Starts \subseteq 0..(CounterSize - 1)
  /\ FirstEcho \in Nat /\ Jitter \subseteq Int
  /\ Echoes \subseteq Seq(Nat) \ {<<>>} /\ Prefixes \subseteq Seq(Int)

(* Echoes come one after the other, less than a quarter of a period off,   *)
(* and more than ten periods after the pulse; and what the counter counts  *)
(* modulo is far beyond any time that could be sorted or accepted.         *)
ASSUME EchoAssumption ==
  /\ \A echoes \in Echoes : \A m, n \in DOMAIN echoes : m < n => echoes[m] < echoes[n]
  /\ \A jitter \in Jitter :
       /\ 4 * jitter < Period /\ -4 * jitter < Period
       /\ FirstEcho + jitter > 10 * Period
       /\ \A echoes \in Echoes : \A n \in DOMAIN echoes :
            2 * (FirstEcho + (echoes[n] + STOP_QUEUE_LENGTH) * Period + jitter) < CounterSize
  /\ 2 * (UPPER_TIME_LIMIT + Shift + 10 * Period) + Period <= CounterSize

(* One stop never makes a bucket full.  What is in front of the first      *)
(* pulse's own stops is a spurious one before the echoes, or stops that a  *)
(* failed call has left, a period or more apart and older than all buckets *)
(* around an echo, but nowhere near what the counter counts modulo.        *)
ASSUME PrefixAssumption ==
  /\ Quota > 1
  /\ \A prefix \in Prefixes :
       \/ Len(prefix) = 1 /\ prefix[1] \in 0..(FirstEcho - 1)
       \/ \A n \in DOMAIN prefix :
            /\ \A m \in DOMAIN prefix : m < n => prefix[m] + Period <= prefix[n]
            /\ prefix[n] < 0 /\ 2 * (11 * Period - prefix[n]) <= CounterSize
            /\ \A echoes \in Echoes, jitter \in Jitter : \A m \in DOMAIN echoes :
                 FirstEcho + (echoes[m] + STOP_QUEUE_LENGTH + 11) * Period + jitter < -prefix[n]

VARIABLES
  pc,               (* "pulses", "buckets" or "done"                        *)
  cycle,            (* the cycle counter at the next start                  *)
  times,            (* the rows times[j], as many as there were pulses      *)
  heard,            (* history: the echoes timed right, and in first place  *)
  j, i,             (* the loops over the rows and over a row's times       *)
  count, timeAccumulated,   (* the fields of relativeTimes[k]               *)
  timeOfFlight      (* the result, as a fraction                            *)

vars == <<pc, cycle, times, heard, j, i, count, timeAccumulated, timeOfFlight>>

RelativeTimesTooFew == STOP_QUEUE_LENGTH

RELATIVE_TIMES_COUNT == STOP_QUEUE_LENGTH + 10
Bucket == 0..(RELATIVE_TIMES_COUNT - 1)
-----------------------------------------------------------------------------
(* Stamps are unsigned: a stop before its start counts backwards.          *)
Elapsed(start, stop) == IF stop > start THEN stop - start ELSE start - stop

(* The stops of a pulse, relative to its start, as the queue keeps them.   *)
Stops(prefix, echoes, jitter) ==
  LET all == prefix \o [n \in DOMAIN echoes |-> FirstEcho + echoes[n] * Period + jitter]
  IN  IF Len(all) <= STOP_QUEUE_LENGTH THEN all ELSE SubSeq(all, 1, STOP_QUEUE_LENGTH)

Times(stops) ==
  [n \in DOMAIN stops |-> Elapsed(cycle, (cycle + stops[n]) % CounterSize)]

(* Which echoes of a pulse were timed right, that is without a wrap.       *)
Right(prefix, echoes, stops) ==
  {echoes[n - Len(prefix)] : n \in {m \in DOMAIN stops :
     m > Len(prefix) /\ cycle + stops[m] < CounterSize}}

Init ==
  /\ pc = "pulses" /\ cycle \in Starts
  /\ times = <<>> /\ heard = <<>>
  /\ j = 1 /\ i = 1
  /\ count = [k \in Bucket |-> 0] /\ timeAccumulated = [k \in Bucket |-> 0]
  /\ timeOfFlight = [kind |-> "none", num |-> 0, den |-> 1]

PulseOneMore ==
  /\ pc = "pulses" /\ Len(times) <= N
  /\ \E echoes \in Echoes, jitter \in Jitter,
        prefix \in IF times = <<>> THEN Prefixes ELSE {<<>>} :
       LET stops == Stops(prefix, echoes, jitter)
       IN  /\ times' = Append(times, Times(stops))
           /\ heard' = Append(heard, Right(prefix, echoes, stops))
  /\ cycle' = (cycle + Gap) % CounterSize
  /\ UNCHANGED <<pc, j, i, count, timeAccumulated, timeOfFlight>>

(* One pulse, as calculateTimes stores it. *)
Pulse ==
  /\ pc = "pulses" /\ Len(times) < N
  /\ \E echoes \in Echoes, jitter \in Jitter,
        prefix \in IF times = <<>> THEN Prefixes ELSE {<<>>} :
       LET stops == Stops(prefix, echoes, jitter)
       IN  /\ times' = Append(times, Times(stops))
           /\ heard' = Append(heard, Right(prefix, echoes, stops))
  /\ cycle' = (cycle + Gap) % CounterSize
  /\ UNCHANGED <<pc, j, i, count, timeAccumulated, timeOfFlight>>
-----------------------------------------------------------------------------
(* relativeTimes[k].time: bucket 10 is around the very first time.         *)
first == times[1][1]
Centre(k) == first + (k - 10) * Period

In(k, t) == 2 * (Centre(k) - t) < Period /\ 2 * (t - Centre(k)) < Period

(* Without a first time, or with one that puts bucket 0 at 0, the result   *)
(* is 0, which the range check refuses.                                    *)
NoBuckets == first = 0 \/ Centre(0) = 0

GiveUp ==
  /\ pc = "pulses" /\ Len(times) = N /\ NoBuckets /\ pc' = "done"
  /\ timeOfFlight' = [kind |-> "time", num |-> 0, den |-> 1]
  /\ UNCHANGED <<cycle, times, heard, j, i, count, timeAccumulated>>

SetBuckets ==
  /\ pc = "pulses" /\ Len(times) = N /\ ~NoBuckets /\ pc' = "buckets"
  /\ UNCHANGED <<cycle, times, heard, j, i, count, timeAccumulated, timeOfFlight>>

(* The innermost loop: a time goes to the bucket it is in. *)
Accumulate ==
  /\ pc = "buckets" /\ j <= N /\ i <= Len(times[j])
  /\ LET t == times[j][i]
     IN  \E k \in Bucket :
           /\ t # 0 /\ In(k, t)
           /\ count' = [count EXCEPT ![k] = @ + 1]
           /\ timeAccumulated' = [timeAccumulated EXCEPT ![k] = @ + t]
  /\ i' = i + 1
  /\ UNCHANGED <<pc, cycle, times, heard, j, timeOfFlight>>

(* A time on the border of two buckets, or beyond them all, is dropped. *)
Drop ==
  /\ pc = "buckets" /\ j <= N /\ i <= Len(times[j])
  /\ times[j][i] = 0 \/ \A k \in Bucket : ~In(k, times[j][i])
  /\ i' = i + 1
  /\ UNCHANGED <<pc, cycle, times, heard, j, count, timeAccumulated, timeOfFlight>>

NextRow ==
  /\ pc = "buckets" /\ j <= N /\ i > Len(times[j])
  /\ j' = j + 1 /\ i' = 1
  /\ UNCHANGED <<pc, cycle, times, heard, count, timeAccumulated, timeOfFlight>>
-----------------------------------------------------------------------------
(* The first full bucket, and bucket 0 if none is.                         *)
FullOneShort == {k \in Bucket : count[k] >= Quota - 1}

Full == {k \in Bucket : count[k] >= Quota}
LastFull == IF Full = {} THEN 0 ELSE Max(Full)
FirstUnlessFull == IF Full = {} THEN 10 ELSE Min(Full)
index == IF Full = {} THEN 0 ELSE Min(Full)

(* The mean of the means of three buckets, each moved back by the periods  *)
(* that it is behind index, and then by the path's Shift.  An empty bucket *)
(* makes it not a number; a bucket outside the table may make it anything. *)
Result ==
  IF index + 6 \notin Bucket THEN [kind |-> "outside", num |-> 0, den |-> 1]
  ELSE LET c4 == count[index + 4]  c5 == count[index + 5]  c6 == count[index + 6]
           den == 3 * c4 * c5 * c6
       IN  IF den = 0 THEN [kind |-> "nan", num |-> 0, den |-> 1]
           ELSE [kind |-> "time", den |-> den,
                 num |-> (timeAccumulated[index + 4] * c5 * c6
                          + timeAccumulated[index + 5] * c4 * c6
                          + timeAccumulated[index + 6] * c4 * c5)
                         - den * (5 * Period + Shift)]

Return ==
  /\ pc = "buckets" /\ j > N /\ pc' = "done"
  /\ timeOfFlight' = Result
  /\ UNCHANGED <<cycle, times, heard, j, i, count, timeAccumulated>>

Next == Pulse \/ GiveUp \/ SetBuckets \/ Accumulate \/ Drop \/ NextRow \/ Return

Spec == Init /\ [][Next]_vars
-----------------------------------------------------------------------------
(* measureTimeOfFlight keeps the caller's old time if the result is out of *)
(* range; not a number is neither above nor below a limit.                 *)
OutOfRangeOnlyBelow ==
  /\ timeOfFlight.kind = "time"
  /\ timeOfFlight.num < LOWER_TIME_LIMIT * timeOfFlight.den

OutOfRange ==
  /\ timeOfFlight.kind = "time"
  /\ \/ timeOfFlight.num > UPPER_TIME_LIMIT * timeOfFlight.den
     \/ timeOfFlight.num < LOWER_TIME_LIMIT * timeOfFlight.den

Accepted == pc = "done" /\ timeOfFlight.kind = "time" /\ ~OutOfRange

Typed ==
  /\ pc \in {"pulses", "buckets", "done"}
  /\ cycle \in 0..(CounterSize - 1)
  /\ times \in Seq(Seq(Int)) /\ Len(times) <= N
  /\ \A r \in DOMAIN times : Len(times[r]) \in 1..STOP_QUEUE_LENGTH
  /\ pc # "pulses" => Len(times) = N
  /\ j \in 1..(N + 1) /\ i \in Nat \ {0}
  /\ count \in [Bucket -> Nat]
  /\ timeAccumulated \in [Bucket -> Int]
  /\ timeOfFlight \in [kind : {"none", "time", "nan", "outside"}, num : Int, den : Nat \ {0}]

(* The loops have passed the rows before j, none longer than the queue, and *)
(* the times before i of row j.                                            *)
NoMoreCounted ==
  /\ pc = "pulses" => j = 1 /\ i = 1
  /\ pc = "buckets" /\ j <= N => i <= Len(times[j]) + 1
  /\ \A k \in Bucket : count[k] <= (j - 1) * STOP_QUEUE_LENGTH + (i - 1)

(* Every variable has its type: no row is longer than the queue, a result  *)
(* that is a number has a denominator.  And no bucket counts more times    *)
(* than the loops have passed, each of which is that of a stop received.   *)
TypeOK == Typed /\ NoMoreCounted

(* What a bucket accumulates are times less than half a period from its    *)
(* centre, so its mean is too: the mean minus its periods means something. *)
MeanNearCentre ==
  \A k \in Bucket :
    IF count[k] = 0 THEN timeAccumulated[k] = 0
    ELSE /\ 2 * (timeAccumulated[k] - count[k] * Centre(k)) < count[k] * Period
         /\ 2 * (count[k] * Centre(k) - timeAccumulated[k]) < count[k] * Period

(* Why: the buckets start empty, and the result is computed from them. *)
Counting ==
  /\ pc = "pulses" => /\ count = [k \in Bucket |-> 0]
                      /\ timeAccumulated = [k \in Bucket |-> 0]
  /\ pc = "done" => \/ timeOfFlight = [kind |-> "time", num |-> 0, den |-> 1]
                    \/ timeOfFlight = Result
  /\ timeOfFlight.kind = "time" => pc = "done"
-----------------------------------------------------------------------------
(* The first echo that enough pulses agree on, and its true time. *)
Hearing(e) == {r \in DOMAIN heard : e \in heard[r]}
Agreed == {e \in UNION {heard[r] : r \in DOMAIN heard} : Cardinality(Hearing(e)) >= Quota}
TrueTime == FirstEcho + Min(Agreed) * Period - Shift

(* The result is less than d off. *)
Within(d) ==
  /\ timeOfFlight.num - TrueTime * timeOfFlight.den <= d * timeOfFlight.den
  /\ TrueTime * timeOfFlight.den - timeOfFlight.num <= d * timeOfFlight.den

(* The very first time is that of an echo, which has bucket 10 for itself, *)
(* and the agreed echo's bucket is in the table with the six behind it.    *)
FirstIsEcho ==
  \E e \in heard[1] :
    /\ \E jitter \in Jitter : first = FirstEcho + e * Period + jitter
    /\ \A n \in DOMAIN times[1] \ {1} : ~In(10, times[1][n])
    /\ Min(Agreed) - e + 10 \in 0..(RELATIVE_TIMES_COUNT - 7)

MaxJitter == Max({IF jitter < 0 THEN -jitter ELSE jitter : jitter \in Jitter})

(* If enough pulses agree on an echo and the fourth to sixth after it were *)
(* heard at all, the result is the agreed echo's time, whichever echo the  *)
(* first pulse heard first and whatever pulses missed or lost to a wrap.   *)
AgreedEchoIsFound ==
  pc = "done" /\ Agreed # {} /\ FirstIsEcho
    /\ (\A e \in (Min(Agreed) + 4)..(Min(Agreed) + 6) : Hearing(e) # {})
  => timeOfFlight.kind = "time" /\ Within(MaxJitter)

(* If the very first time is that of such an echo, or a wrap of the cycle  *)
(* counter has made nonsense of it, a time that is accepted is the agreed  *)
(* echo's: a wrap, in any row and between any stops, makes a result that   *)
(* is refused or not a number, never a wrong one.                          *)
WrapIsRefused ==
  Accepted /\ Agreed # {} /\ (2 * first > CounterSize \/ FirstIsEcho)
    => Within(MaxJitter)

(* A time that is accepted lies ten periods and a half before the very     *)
(* first one at most.  And there it does lie if no bucket is full:         *)
(* agreement is not asked for, and three buckets in front of the first     *)
(* time need no more than one time each.                                   *)
TenPeriodsEarlyAtMost ==
  Accepted =>
    LET off == timeOfFlight.num - (first - 10 * Period - Shift) * timeOfFlight.den
    IN  /\ -2 * off < Period * timeOfFlight.den
        /\ (\A k \in Bucket : count[k] < Quota) => 2 * off < Period * timeOfFlight.den

(* So one far above the limit is never accepted.                           *)
LateFirstTimeRefused ==
  Accepted => 2 * (first - UPPER_TIME_LIMIT - Shift - 10 * Period) < Period

(* If all pulses hear eight echoes on end from the agreed one, a spurious  *)
(* stop before them puts the result outside the table only if it came long *)
(* before the agreed echo,                                                 *)
AllHearOn == \A r \in 1..N : Min(Agreed)..(Min(Agreed) + 7) \subseteq heard[r]

OutsideOnlyIfFarTooEarly ==
  timeOfFlight.kind = "outside" /\ Agreed # {} /\ AllHearOn =>
    2 * (FirstEcho + Min(Agreed) * Period - first)
      >= (2 * STOP_QUEUE_LENGTH - 15) * Period

(* and otherwise counts for one pulse and no more: an accepted time is     *)
(* within a period of the agreed echo's, or of an earlier one's that, with *)
(* the echo before, is one pulse short of agreed.  The period is lost when *)
(* the stop's phase splits each echo between two buckets.                  *)
AlmostAgreed ==
  {e \in 0..Min(Agreed) : Cardinality(Hearing(e) \cup Hearing(e - 1)) >= Quota - 1}

SpuriousStopCountsOnce ==
  Accepted /\ Agreed # {} /\ AllHearOn /\ first < FirstEcho =>
    Within((Min(Agreed) - Min(AlmostAgreed) + 1) * Period + MaxJitter)
=============================================================================
