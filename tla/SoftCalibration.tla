-------------------------- MODULE SoftCalibration --------------------------
(***************************************************************************)
(* SoftCalibration (TimeMeasurementAnemoi.c of Anemoi+Blynk): the four     *)
(* times of flight may each be off by whole periods of the transducers     *)
(* ("cycle slips": the wrong pulse of the echo was taken for the first).   *)
(* The function remembers the time of flight without wind, zeroWindTime,   *)
(* learns it anew whenever three of the four times agree, and moves the    *)
(* times towards it, a period at a time, in six loops.                     *)
(*                                                                         *)
(* Times are integers, relative to the true time of flight in still air;   *)
(* the code only ever compares differences of times with fractions of the  *)
(* period T, which are cross-multiplied here.  zeroWindTime is static, so  *)
(* it is a variable of the module, wrong at first by as much as the        *)
(* temperature is away from 21 degrees.                                    *)
(***************************************************************************)
EXTENDS Anemoi, Integers

CONSTANTS
  T,        (* the transducers' period, 25 us, in units of time             *)
  Zeros,    (* how wrong zeroWindTime may be at first                       *)
  Start,    (* app_main's times before any success: 0 s, far from any real  *)
  Readings, (* what the measurements may find: a wind on each axis, slips   *)
  Updates   (* which paths may then have been measured afresh               *)

ASSUME CalibrationAssumption ==
  /\ T \in Nat \ {0}
  /\ Zeros \subseteq Int /\ Zeros # {}
  /\ Start \in Int
  /\ Readings \subseteq [wind : [Axis -> Int], slip : [Path -> Int]] /\ Readings # {}

ASSUME UpdatesAssumption == Updates \in [Readings -> SUBSET SUBSET Path]

VARIABLES
  pc,            (* idle between calls, or the part of the function         *)
  time,          (* the four times, calibrated in place                     *)
  zeroWindTime,
  reading,       (* what the latest measurements found                      *)
  fresh          (* the paths they succeeded on; the others keep their time *)

vars == <<pc, time, zeroWindTime, reading, fresh>>

Pos(axis) == <<axis, "POSITIVE_DIRECTION">>
Neg(axis) == <<axis, "NEGATIVE_DIRECTION">>
Abs(x) == IF x < 0 THEN -x ELSE x

(* Wind that delays one direction of an axis speeds up the other. *)
Truth(r) == [p \in Path |-> IF p = Pos(p[1]) THEN r.wind[p[1]] ELSE -r.wind[p[1]]]

StillAir == [wind |-> [axis \in Axis |-> 0], slip |-> [p \in Path |-> 0]]

Init ==
  /\ pc = "idle"
  /\ zeroWindTime \in Zeros
  /\ time = [p \in Path |-> Start]
  /\ reading = StillAir
  /\ fresh = {}

(* app_main measures the four paths; those that fail keep the time they    *)
(* had, which an earlier call may have calibrated already.                 *)
Measure(r, paths) ==
  /\ pc = "idle" /\ pc' = "learn"
  /\ reading' = r /\ fresh' = paths
  /\ time' = [p \in Path |-> IF p \in paths THEN Truth(r)[p] + r.slip[p] * T ELSE time[p]]
  /\ UNCHANGED zeroWindTime
-----------------------------------------------------------------------------
(* Mutant: EQUAL_TRESHOLD is 5 us. *)
EqualLonger(p, q) == 5 * Abs(time[p] - time[q]) < T

(* EQUAL_TRESHOLD is 2 us, 2/25 of a period. *)
Equal(p, q) == 25 * Abs(time[p] - time[q]) < 2 * T

AgreeOneWay(axis, other) ==
  Equal(Pos(axis), Neg(axis)) /\ Equal(Pos(axis), Neg(other))

(* The two times of the axis agree, and one of them agrees with the one of *)
(* the opposite direction on the other axis.                               *)
Agree(axis, other) ==
  /\ Equal(Pos(axis), Neg(axis))
  /\ Equal(Pos(axis), Neg(other)) \/ Equal(Pos(other), Neg(axis))

(* The later of the four ifs wins, so X does. *)
Learn ==
  /\ pc = "learn" /\ pc' = "opposedY"
  /\ zeroWindTime' = IF Agree("X_AXIS", "Y_AXIS") THEN time[Pos("X_AXIS")]
                     ELSE IF Agree("Y_AXIS", "X_AXIS") THEN time[Pos("Y_AXIS")]
                     ELSE zeroWindTime
  /\ UNCHANGED <<time, reading, fresh>>
-----------------------------------------------------------------------------
Off(p) == time[p] - zeroWindTime
TowardsByThreshold(p) ==
  IF Off(p) > 0 THEN time[p] - (6 * T) \div 5 ELSE time[p] + (6 * T) \div 5
Towards(p) == IF Off(p) > 0 THEN time[p] - T ELSE time[p] + T

(* The two times of an axis are on opposite sides of zeroWindTime, both    *)
(* more than 1.2 periods away: one loop for each way round, of which at    *)
(* most one runs, moves both by a period.                                  *)
Opposed(axis) ==
  \E p, q \in {Pos(axis), Neg(axis)} : 5 * Off(p) > 6 * T /\ -5 * Off(q) > 6 * T

Approach(axis) ==
  /\ Opposed(axis)
  /\ time' = [p \in Path |-> IF p[1] = axis THEN Towards(p) ELSE time[p]]
  /\ UNCHANGED <<pc, zeroWindTime, reading, fresh>>

(* conditionOne and conditionTwo: the two times are more than 0.65 periods *)
(* away from zeroWindTime together, and their mean more than 0.2.          *)
Distance(axis) == Abs(Off(Pos(axis))) + Abs(Off(Neg(axis)))
LopsidedByMeanOnly(axis) ==
  5 * Abs(Off(Pos(axis)) + Off(Neg(axis))) > 2 * T
LopsidedByAPeriod(axis) ==
  /\ Distance(axis) > T
  /\ 5 * Abs(Off(Pos(axis)) + Off(Neg(axis))) > 2 * T
Lopsided(axis) ==
  /\ 20 * Distance(axis) > 13 * T
  /\ 5 * Abs(Off(Pos(axis)) + Off(Neg(axis))) > 2 * T

Farther(axis) ==
  IF Abs(Off(Pos(axis))) > Abs(Off(Neg(axis))) THEN Pos(axis) ELSE Neg(axis)

BalanceOnce(axis) ==
  /\ Lopsided(axis)
  /\ time' = [time EXCEPT ![Farther(axis)] = Towards(Farther(axis))]
  /\ pc' = IF axis = "Y_AXIS" THEN "lopsidedX" ELSE "idle"
  /\ UNCHANGED <<zeroWindTime, reading, fresh>>
Balance(axis) ==
  /\ Lopsided(axis)
  /\ time' = [time EXCEPT ![Farther(axis)] = Towards(Farther(axis))]
  /\ UNCHANGED <<pc, zeroWindTime, reading, fresh>>

(* A loop ends when its condition is false. *)
Done(condition, next) ==
  /\ ~condition /\ pc' = next
  /\ UNCHANGED <<time, zeroWindTime, reading, fresh>>

OpposedY  == pc = "opposedY"  /\ (Approach("Y_AXIS") \/ Done(Opposed("Y_AXIS"), "opposedX"))
OpposedX  == pc = "opposedX"  /\ (Approach("X_AXIS") \/ Done(Opposed("X_AXIS"), "lopsidedY"))
LopsidedY == pc = "lopsidedY" /\ (Balance("Y_AXIS") \/ Done(Lopsided("Y_AXIS"), "lopsidedX"))
LopsidedX == pc = "lopsidedX" /\ (Balance("X_AXIS") \/ Done(Lopsided("X_AXIS"), "idle"))

Calibrate == Learn \/ OpposedY \/ OpposedX \/ LopsidedY \/ LopsidedX

Next == (\E r \in Readings : \E paths \in Updates[r] : Measure(r, paths)) \/ Calibrate

Spec == Init /\ [][Next]_vars
FairSpec == Spec /\ WF_vars(Calibrate)
-----------------------------------------------------------------------------
(* Every variable has its type, and a fresh time is only ever moved by     *)
(* whole periods: SoftCalibration corrects which pulse was taken for the   *)
(* first and never invents a time in between.                              *)
PC == {"idle", "learn", "opposedY", "opposedX", "lopsidedY", "lopsidedX"}

Typed ==
  /\ pc \in PC
  /\ time \in [Path -> Int]
  /\ zeroWindTime \in Int
  /\ reading \in Readings \cup {StillAir}
  /\ fresh \subseteq Path

TypeOK ==
  /\ Typed
  /\ \A p \in fresh : (time[p] - Truth(reading)[p]) % T = 0

(* SoftCalibration returns, whatever times it is given: the six loops end. *)
CalibrationEnds == pc # "idle" ~> pc = "idle"

(* Why the last two loops end, though a correction may overshoot: each     *)
(* brings the two times closer to zeroWindTime or is the loop's last.      *)
BalanceConverges ==
  [][\A axis \in Axis :
       Balance(axis) => Distance(axis)' < Distance(axis) \/ ~Lopsided(axis)']_vars

(* When it returns, none of its six loops would run again: no loop undoes  *)
(* what an earlier one achieved, on its own axis or on the other.          *)
NothingLeftToCorrect ==
  [][pc # "idle" /\ pc' = "idle" =>
       \A axis \in Axis : ~Opposed(axis)' /\ ~Lopsided(axis)']_vars

(* Whatever it was given, a time that was never measured included, each of *)
(* the four times it returns is within 1.6 periods, 40 us, of zeroWindTime:*)
(* calculateWind divides by no 0 s unless zeroWindTime is as small, and by *)
(* nothing that makes a wind beyond what the sensor can tell from slips.   *)
EndsNearZeroWind ==
  [][pc # "idle" /\ pc' = "idle" => \A p \in Path : 5 * Abs(Off(p)') <= 8 * T]_vars

(* What the thresholds are worth.  Given a zeroWindTime less than 0.175    *)
(* periods from the truth and four fresh times, the calibrated times are   *)
(* the true ones: if the wind shifts no time by half a period and no axis  *)
(* has slipped in opposite directions, any number of slips is undone; if   *)
(* nothing slipped, wind that shifts the times up to 1.2 periods is left   *)
(* alone.                                                                  *)
Near == 40 * Abs(zeroWindTime) < 7 * T
OneSided(r) == \A axis \in Axis : r.slip[Pos(axis)] * r.slip[Neg(axis)] >= 0
Unslipped(r) == \A p \in Path : r.slip[p] = 0
HalfPeriodWind(r) == \A axis \in Axis : 2 * Abs(r.wind[axis]) < T
StrongWind(r) == \A axis \in Axis : 5 * Abs(r.wind[axis]) <= 6 * T
Repairable(r) ==
  \/ OneSided(r) /\ HalfPeriodWind(r)
  \/ Unslipped(r) /\ StrongWind(r)

SlipsRepaired ==
  pc = "idle" /\ fresh = Path /\ Near /\ Repairable(reading) => time = Truth(reading)

(* With at most one of four fresh times slipped, and wind that shifts none *)
(* by more than 0.46 periods, zeroWindTime is never learned wrong, and in  *)
(* still air it is learned right, however wrong it was: any three of the   *)
(* four times agreeing is enough.                                          *)
AtMostOneSlip(r) == \A p, q \in Path : r.slip[p] # 0 /\ r.slip[q] # 0 => p = q

LearnableWind(r) == \A axis \in Axis : 50 * Abs(r.wind[axis]) <= 23 * T

LearnsZeroWind ==
  [][Learn /\ fresh = Path /\ AtMostOneSlip(reading) /\ LearnableWind(reading) =>
       \/ Near'
       \/ reading.wind # StillAir.wind /\ UNCHANGED zeroWindTime]_vars

(* Times of paths that failed are those of an earlier round moved by       *)
(* periods, or 0 s moved by periods, and four times of 0 s agree too.  In  *)
(* still air two times that were measured and have not slipped are enough  *)
(* to keep zeroWindTime from being learned wrong from the others.          *)
LearnsNearFresh ==
  [][Learn /\ (\E p, q \in fresh : p # q) /\ reading.wind = StillAir.wind
       /\ (\A p \in fresh : reading.slip[p] = 0)
     => Near' \/ UNCHANGED zeroWindTime]_vars
=============================================================================
