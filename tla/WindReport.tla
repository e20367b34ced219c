----------------------------- MODULE WindReport -----------------------------
(***************************************************************************)
(* From four calibrated times to a sentence: calculateWind and             *)
(* AngleSpeedCorrection (main.cpp of Anemoi+Blynk) and sendNmeaWindData    *)
(* (NmeaAnemoi.c), with what IEEE arithmetic makes of a division by zero.  *)
(*                                                                         *)
(* Times are in microseconds, speeds in tenths of m/s.  Of an angle the    *)
(* tens of degrees below and above are kept, which is what the correction  *)
(* table needs; they are equal on a multiple of ten.  A time of 0 is that  *)
(* of a path never measured, and what calibration may leave; one that is   *)
(* not a number is what empty buckets make, and passes the range check     *)
(* (TimeMeasurementAnemoi.c:117).  The sound speed and the temperature     *)
(* made of it are left out.                                                *)
(***************************************************************************)
EXTENDS Integers, Sequences, FiniteSets

CONSTANTS
  Times,    (* what measureTimeOfFlight and SoftCalibration may leave       *)
  Weights,  (* tenths of the way from one entry of the table to the next    *)
  Earlier   (* the mean corrected speed of the rounds before, in the average*)

(* Numbers that are not finite, out of the range of those that are. *)
INF == 10000000
NAN == 10000001

ASSUME ReportAssumption ==
  Times \subseteq Int /\ Weights \subseteq 1..9 /\ Earlier \subseteq 0..NAN

VARIABLES
  pc,                (* which function is next                              *)
  times,             (* of X+, X-, Y+ and Y-                                *)
  xSpeed, ySpeed, direction, speed,  (* of the wind calculated from them    *)
  correctedSpeed,
  earlier,           (* what the rounds before brought to the average       *)
  sentence           (* what was written to the UART last                   *)

vars == <<pc, times, xSpeed, ySpeed, direction, speed, correctedSpeed, earlier, sentence>>

Infinite(s) == s \in {INF, -INF}
Abs(n) == IF n < 0 THEN -n ELSE n
Sign(n) == IF n > 0 THEN 1 ELSE IF n < 0 THEN -1 ELSE 0

Unknown == [floor |-> 1000, ceiling |-> 1000]
NotSent == [angle |-> 0, speed |-> 0, length |-> 0]

Init ==
  /\ pc = "measure" /\ times = <<0, 0, 0, 0>>
  /\ xSpeed = 0 /\ ySpeed = 0 /\ direction = Unknown /\ speed = 0
  /\ correctedSpeed = 0 /\ earlier = 0
  /\ sentence = NotSent

Measure ==
  /\ pc = "measure" /\ pc' = "calculate"
  /\ times' \in [1..4 -> Times]
  /\ UNCHANGED <<xSpeed, ySpeed, direction, speed, correctedSpeed, earlier, sentence>>
-----------------------------------------------------------------------------
(* DISTANCE * (1/positive - 1/negative) / 2, over 0.146 m, rounded away    *)
(* from 0, so that only equal times make none.                             *)
RoundedUp(a, b) == (a + b - 1) \div b

SpeedOf(positive, negative) ==
  IF NAN \in {positive, negative} \/ (positive = 0 /\ negative = 0) THEN NAN
  ELSE IF positive = 0 THEN INF
  ELSE IF negative = 0 THEN -INF
  ELSE Sign(negative - positive) * Sign(positive * negative)
         * RoundedUp(730000 * Abs(negative - positive), Abs(positive * negative))

(* How many tens of degrees lie below the angle with tangent a/b, for      *)
(* 0 < a <= b, and for any positive a and b.  Tangents in units of 1/997,  *)
(* which puts their angles two hundredths of a degree off at most.         *)
Tangent == <<176, 363, 576, 837>>
Octant(a, b) == Cardinality({m \in 1..4 : a * 997 > b * Tangent[m]})
Quadrant(a, b) == IF a <= b THEN Octant(a, b) ELSE 8 - Octant(b, a)

Tens(floor, ceiling) == [floor |-> floor, ceiling |-> ceiling]

(* atan(y/x): a multiple of 90 degrees if either is 0 or infinite, not a   *)
(* number if both are.                                                     *)
Atan(y, x) ==
  IF NAN \in {x, y} \/ (x = 0 /\ y = 0) \/ (Infinite(x) /\ Infinite(y)) THEN Unknown
  ELSE IF y = 0 \/ Infinite(x) THEN Tens(0, 0)
  ELSE IF x = 0 \/ Infinite(y)
       THEN LET right == IF y > 0 <=> x >= 0 THEN 9 ELSE -9 IN Tens(right, right)
  ELSE LET q == Quadrant(Abs(y), Abs(x))
       IN  IF y > 0 <=> x > 0 THEN Tens(q, q + 1) ELSE Tens(-q - 1, -q)

(* "to get full 360º instead of only 180º" *)
Turned(angle, tens) == Tens(angle.floor + tens, angle.ceiling + tens)

DirectionPastFull(x, y) ==
  IF Atan(y, x) = Unknown THEN Unknown ELSE Turned(Atan(y, x), IF x < 0 THEN 36 ELSE 9)

DirectionHalf(x, y) ==
  IF Atan(y, x) = Unknown THEN Unknown ELSE Turned(Atan(y, x), IF y < 0 THEN 27 ELSE 9)

Direction(x, y) ==
  IF Atan(y, x) = Unknown THEN Unknown ELSE Turned(Atan(y, x), IF x < 0 THEN 27 ELSE 9)

(* sqrt(x * x + y * y); above 4 km/s to 10 m/s only. *)
Hypotenuse(a, b) ==
  CHOOSE s \in (IF a < b THEN b ELSE a)..(a + b) :
    s * s <= a * a + b * b /\ a * a + b * b < (s + 1) * (s + 1)

SpeedOfWind(x, y) ==
  IF NAN \in {x, y} THEN NAN
  ELSE IF Infinite(x) \/ Infinite(y) THEN INF
  ELSE IF Abs(x) + Abs(y) <= 40000 THEN Hypotenuse(Abs(x), Abs(y))
  ELSE 100 * Hypotenuse(Abs(x) \div 100, Abs(y) \div 100)

CalculateWind ==
  /\ pc = "calculate" /\ pc' = "correct"
  /\ xSpeed' = SpeedOf(times[1], times[2])
  /\ ySpeed' = SpeedOf(times[3], times[4])
  /\ direction' = Direction(xSpeed', ySpeed')
  /\ speed' = SpeedOfWind(xSpeed', ySpeed')
  /\ UNCHANGED <<times, correctedSpeed, earlier, sentence>>
-----------------------------------------------------------------------------
correctionLut == <<117, 118, 122, 126, 132, 130, 127, 117, 111, 108, 107, 114,
                   123, 131, 132, 127, 122, 117, 113, 117, 120, 125, 130, 130,
                   124, 114, 109, 102, 111, 114, 124, 132, 132, 130, 123, 118>>
Lut(n) == correctionLut[n + 1]

angleFloor == direction.floor
CeilingUnwrapped == direction.ceiling
angleCeiling == IF direction.ceiling = 36 THEN 0 ELSE direction.ceiling

(* Both places of the table that the function reads. *)
Places == {angleFloor, angleCeiling}

OnTen == direction.floor = direction.ceiling

(* What the two entries weigh together, in hundredths, w tenths of the way *)
(* from the one to the other; on a multiple of ten both count in full.     *)
WeighedSwapped(w) ==
  IF OnTen THEN 10 * (Lut(angleFloor) + Lut(angleCeiling))
  ELSE w * Lut(angleFloor) + (10 - w) * Lut(angleCeiling)

Weighed(w) ==
  IF OnTen THEN 10 * (Lut(angleFloor) + Lut(angleCeiling))
  ELSE (10 - w) * Lut(angleFloor) + w * Lut(angleCeiling)

(* 14 / (the weighed entries) * speed.  *)
CorrectedSpeed(w) ==
  LET weighed == Weighed(w)
  IN  IF speed = INF THEN INF
      ELSE 1400 * (speed \div weighed) + (1400 * (speed % weighed)) \div weighed

(* What is read outside of the table may be anything.  For a direction that *)
(* is not a number no weight is one either; for one of 360, which takes an *)
(* infinite speed, the speed stays infinite or becomes not a number.       *)
Correct(w) ==
  /\ pc = "correct" /\ pc' = "send"
  /\ \/ Places \subseteq 0..35 /\ correctedSpeed' = CorrectedSpeed(w)
     \/ direction = Unknown /\ correctedSpeed' = NAN
     \/ ~(Places \subseteq 0..35) /\ direction # Unknown /\ correctedSpeed' \in {INF, NAN}
  /\ UNCHANGED <<times, xSpeed, ySpeed, direction, speed, earlier, sentence>>
-----------------------------------------------------------------------------
(* The average of AVERAGE_COUNT, three, corrected speeds. *)
AverageOf(latest, before) ==
  IF NAN \in {latest, before} THEN NAN
  ELSE IF INF \in {latest, before} THEN INF
  ELSE (latest + 2 * before) \div 3

(* The characters of a number printed with "%.1f", of one that is not      *)
(* finite with a sign.                                                     *)
Width(tenths) ==
  IF tenths >= INF THEN 4
  ELSE IF tenths < 100 THEN 3
  ELSE 2 + Cardinality({d \in {1, 10, 100, 1000, 10000, 100000} : 10 * d <= tenths})

SentenceSizeBare == 26
SENTENCE_SIZE == 30

(* "$55MWV,", the angle, ",R,", the speed, the unit, ",A", the checksum.   *)
(* A speed that is not a number is not above LOW_SPEED, 0.5 m/s.           *)
SendNmeaWindData(angle, average) ==
  sentence' = [angle |-> angle, speed |-> average,
               length |-> 7 + Width(angle) + 3 + Width(average) + 2 + 2 + 3]

Low == speed = NAN \/ speed <= 5

(* Of an angle between two tens of degrees the upper one is printed, which *)
(* is as long as any between them.                                         *)
Send(before) ==
  /\ pc = "send" /\ pc' = "delay"
  /\ earlier' = before
  /\ IF Low THEN SendNmeaWindData(0, 0)
     ELSE SendNmeaWindData(IF direction = Unknown THEN NAN ELSE 100 * direction.ceiling,
                           AverageOf(correctedSpeed, before))
  /\ UNCHANGED <<times, xSpeed, ySpeed, direction, speed, correctedSpeed>>

(* The next round has winds of its own. *)
Delay ==
  /\ pc = "delay" /\ pc' = "measure"
  /\ times' = <<0, 0, 0, 0>>
  /\ xSpeed' = 0 /\ ySpeed' = 0 /\ direction' = Unknown /\ speed' = 0
  /\ correctedSpeed' = 0 /\ earlier' = 0
  /\ sentence' = NotSent

Next ==
  \/ Measure \/ CalculateWind \/ Delay
  \/ \E w \in Weights : Correct(w)
  \/ \E before \in Earlier : Send(before)

Spec == Init /\ [][Next]_vars
-----------------------------------------------------------------------------
(* Every variable has its type: a direction is none or 360 degrees at      *)
(* most, and speeds that are not finite are told from those that are.      *)
TypeOK ==
  /\ pc \in {"measure", "calculate", "correct", "send", "delay"}
  /\ times \in [1..4 -> Times \cup {0}]
  /\ xSpeed \in -INF..NAN /\ ySpeed \in -INF..NAN
  /\ direction = Unknown \/ direction \in [floor : 0..36, ceiling : 0..36]
  /\ speed \in 0..NAN /\ correctedSpeed \in 0..NAN
  /\ earlier \in Earlier \cup {0}

(* When AngleSpeedCorrection reads its table where it ends, and when not   *)
(* (main.cpp:293), for times of every kind: in the table if all four are   *)
(* numbers other than 0 and there is no complete calm, which makes 0/0; or *)
(* if one is 0 and the speed of its axis infinite, unless that is Y- with  *)
(* the wind against X, which makes 360 degrees.  Any other times, one that *)
(* is not a number or two of 0, make it be read outside.                   *)
Zeros == {n \in 1..4 : times[n] = 0}
Calm == times[1] = times[2] /\ times[3] = times[4]

PlacesInTable ==
  pc = "correct" =>
    (Places \subseteq 0..35 <=>
       /\ \A n \in 1..4 : times[n] # NAN
       /\ \/ Zeros = {} /\ ~Calm
          \/ \E n \in 1..4 : Zeros = {n} /\ (n = 4 => xSpeed >= 0))

(* A wind turned by 90 degrees has its direction turned by 90 degrees, in  *)
(* all quadrants and on the axes, where y/x is infinite, and with infinite *)
(* speeds: the two cases for the sign of x and the arc tangent fit.        *)
TurnsWithTheWind ==
  pc = "correct" /\ direction # Unknown =>
    LET turned == Direction(-ySpeed, xSpeed)
    IN  /\ turned.floor % 36 = (direction.floor + 9) % 36
        /\ turned.ceiling - turned.floor = direction.ceiling - direction.floor

(* The corrected speed follows the table: it is at least as close to what  *)
(* the entry nearer to the direction would make of the speed as to what    *)
(* the other would; on a multiple of ten degrees, only, it is half of it.  *)
Nearer(w) == IF w < 5 THEN angleFloor ELSE angleCeiling
Farther(w) == IF w < 5 THEN angleCeiling ELSE angleFloor

CorrectionFollowsTable ==
  pc = "correct" /\ Places \subseteq 0..35 =>
    \A w \in Weights :
      IF OnTen THEN Weighed(w) = 20 * Lut(angleFloor)
      ELSE Abs(Weighed(w) - 10 * Lut(Nearer(w))) <= Abs(Weighed(w) - 10 * Lut(Farther(w)))

(* The sentence with its final 0 fits into the 30 bytes of nmeaSentence,  *)
(* unmeasured times, those that are not numbers and all infinite speeds    *)
(* included, as long as no other time is within 3 us of 0 and the rounds   *)
(* before had less than 100 km/s.  Calibration may leave such a time once  *)
(* zeroWindTime was learned as 0 (TimeMeasurementAnemoi.c:371-386), and    *)
(* then a sentence may be written past the end.                            *)
NearZero(time) == time # 0 /\ Abs(time) < 3

SentenceFits ==
  sentence.length + 1 > SENTENCE_SIZE =>
    (\E n \in 1..4 : NearZero(times[n])) \/ earlier \in 1000000..(INF - 1)
=============================================================================
