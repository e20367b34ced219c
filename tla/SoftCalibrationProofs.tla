----------------------- MODULE SoftCalibrationProofs -----------------------
(***************************************************************************)
(* Proofs about SoftCalibration, for every period T, every wind and every  *)
(* number of slips.                                                        *)
(***************************************************************************)
EXTENDS SoftCalibration, TLAPS

USE CalibrationAssumption DEF CalibrationAssumption
-----------------------------------------------------------------------------
(* The four paths: two on each axis. *)
LEMMA PathFacts ==
  /\ \A axis \in Axis : /\ Pos(axis) \in Path /\ Neg(axis) \in Path
                        /\ Pos(axis) # Neg(axis)
                        /\ Pos(axis)[1] = axis /\ Neg(axis)[1] = axis
  /\ \A p \in Path : p[1] \in Axis /\ (p = Pos(p[1]) \/ p = Neg(p[1]))
  /\ Axis = {"X_AXIS", "Y_AXIS"}
BY DEF Path, Axis, Direction, Pos, Neg

(* A number of whole periods is none, at least one or at most minus one,   *)
(* and a period more or less is a number of whole periods again.           *)
Whole(x) == \E m \in Int : x = m * T

LEMMA WholeFacts ==
  ASSUME NEW x \in Int, Whole(x)
  PROVE  /\ x = 0 \/ x >= T \/ x <= -T
         /\ Whole(x - T) /\ Whole(x + T)
<1>1. PICK m \in Int : x = m * T
  BY DEF Whole
<1>2. x - T = (m - 1) * T /\ x + T = (m + 1) * T
  BY <1>1
<1>3. m = 0 => x = 0
  BY <1>1
<1>4. m >= 1 => x >= T
  BY <1>1
<1>5. m <= -1 => x <= -T
  BY <1>1
<1>6. Whole(x - T) /\ Whole(x + T)
  <2>1. m - 1 \in Int /\ m + 1 \in Int
    OBVIOUS
  <2>2. QED
    BY <1>2, <2>1 DEF Whole
<1>7. m = 0 \/ m >= 1 \/ m <= -1
  OBVIOUS
<1>8. QED
  BY <1>3, <1>4, <1>5, <1>6, <1>7

LEMMA WholeMod ==
  ASSUME NEW x \in Int
  PROVE  Whole(x) <=> x % T = 0
<1>1. ASSUME NEW k \in Int PROVE (k * T) % T = 0
  BY SMTT(20)
<1>2. x % T = 0 => \E k \in Int : x = k * T
  BY SMTT(20)
<1>3. QED
  BY <1>1, <1>2 DEF Whole
-----------------------------------------------------------------------------
ReadingType == [wind : [Axis -> Int], slip : [Path -> Int]]

(* Truth, path by path. *)
LEMMA TruthFacts ==
  ASSUME NEW r \in ReadingType
  PROVE  /\ \A axis \in Axis : /\ r.wind[axis] \in Int
                               /\ Truth(r)[Pos(axis)] = r.wind[axis]
                               /\ Truth(r)[Neg(axis)] = -r.wind[axis]
         /\ \A p \in Path : Truth(r)[p] \in Int
         /\ r.slip \in [Path -> Int]
<1>1. r.wind \in [Axis -> Int] /\ r.slip \in [Path -> Int]
  BY DEF ReadingType
<1>2. QED
  BY <1>1, PathFacts DEF Truth

LEMMA ReadingTypes == Readings \cup {StillAir} \subseteq ReadingType
BY DEF StillAir, ReadingType

(* Towards moves a time by one period, and it stays an integer. *)
LEMMA TowardsFacts ==
  ASSUME Typed, NEW p \in Path
  PROVE  /\ Off(p) \in Int /\ Off(p) = time[p] - zeroWindTime
         /\ Off(p) > 0 => Towards(p) = time[p] - T
         /\ ~(Off(p) > 0) => Towards(p) = time[p] + T
         /\ Towards(p) \in Int
BY DEF Typed, Off, Towards

(* What one turn of a loop does to the times, path by path. *)
LEMMA Turn ==
  ASSUME Typed, NEW axis \in Axis, Approach(axis) \/ Balance(axis)
  PROVE  /\ time' \in [Path -> Int]
         /\ \A p \in Path : time'[p] = time[p] \/ time'[p] = Towards(p)
         /\ \A p \in Path : p[1] # axis => time'[p] = time[p]
         /\ UNCHANGED <<pc, zeroWindTime, reading, fresh>>
<1>1. time \in [Path -> Int]
  BY DEF Typed
<1>2. CASE Approach(axis)
  BY <1>1, <1>2, TowardsFacts DEF Approach
<1>3. CASE Balance(axis)
  <2>1. Farther(axis) \in Path /\ Farther(axis)[1] = axis
    BY PathFacts DEF Farther
  <2>2. time' = [time EXCEPT ![Farther(axis)] = Towards(Farther(axis))]
    BY <1>3 DEF Balance
  <2>3. UNCHANGED <<pc, zeroWindTime, reading, fresh>>
    BY <1>3 DEF Balance
  <2>4. QED
    BY <1>1, <2>1, <2>2, <2>3, TowardsFacts
<1>4. QED
  BY <1>2, <1>3

LEMMA StepTyped == Typed /\ [Next]_vars => Typed'
<1> SUFFICES ASSUME Typed, [Next]_vars PROVE Typed'
  OBVIOUS
<1> USE DEF Typed, PC
<1>1. ASSUME NEW r \in Readings, NEW paths \in Updates[r], Measure(r, paths) PROVE Typed'
  <2>1. r \in ReadingType
    BY ReadingTypes
  <2>2. \A p \in Path : Truth(r)[p] + r.slip[p] * T \in Int
    BY <2>1, TruthFacts
  <2>3. time' \in [Path -> Int]
    BY <1>1, <2>2 DEF Measure
  <2>4. paths \subseteq Path
    BY UpdatesAssumption
  <2>5. QED
    BY <1>1, <2>3, <2>4 DEF Measure
<1>2. CASE Learn
  BY <1>2, PathFacts DEF Learn
<1>3. ASSUME NEW axis \in Axis, Approach(axis) \/ Balance(axis) PROVE Typed'
  BY <1>3, Turn
<1>4. CASE pc' \in PC /\ UNCHANGED <<time, zeroWindTime, reading, fresh>>
  BY <1>4
<1>5. QED
  BY <1>1, <1>2, <1>3, <1>4, PathFacts
     DEF Next, Calibrate, OpposedY, OpposedX, LopsidedY, LopsidedX, Done, vars

LEMMA InitTyped == Init => Typed
BY DEF Init, Typed, PC

(* What is left of the slip of a path: whole periods, if its time is fresh.*)
Left(p) == time[p] - Truth(reading)[p]
WholePeriods == \A p \in fresh : Whole(Left(p))

LEMMA LeftIsInt == Typed => \A p \in Path : Left(p) \in Int
BY ReadingTypes, TruthFacts DEF Typed, Left

LEMMA StepWholePeriods == Typed /\ WholePeriods /\ [Next]_vars => WholePeriods'
<1> SUFFICES ASSUME Typed, WholePeriods, [Next]_vars, NEW p \in fresh'
             PROVE  Whole(Left(p)')
  BY DEF WholePeriods
<1>0. /\ Typed' /\ p \in Path
      /\ Left(p)' = time'[p] - Truth(reading')[p]
      /\ Left(p) = time[p] - Truth(reading)[p]
  BY StepTyped DEF Typed, Left, Truth
<1>1. ASSUME NEW r \in Readings, NEW paths \in Updates[r], Measure(r, paths)
      PROVE  Whole(Left(p)')
  <2>1. r \in ReadingType
    BY ReadingTypes
  <2>2. time'[p] = Truth(r)[p] + r.slip[p] * T /\ reading' = r
    BY <1>0, <1>1 DEF Measure
  <2>3. Truth(r)[p] \in Int /\ r.slip[p] \in Int
    BY <1>0, <2>1, TruthFacts
  <2>4. Left(p)' = r.slip[p] * T
    BY <1>0, <2>2, <2>3
  <2>5. QED
    BY <2>3, <2>4 DEF Whole
<1>2. CASE UNCHANGED <<time, reading, fresh>>
  BY <1>0, <1>2 DEF WholePeriods
<1>3. ASSUME NEW axis \in Axis, Approach(axis) \/ Balance(axis) PROVE Whole(Left(p)')
  <2>1. p \in fresh /\ reading' = reading
    BY <1>3, Turn
  <2>2. Left(p) \in Int /\ Whole(Left(p)) /\ Truth(reading)[p] \in Int /\ time[p] \in Int
    BY <2>1, <1>0, LeftIsInt, ReadingTypes, TruthFacts DEF Typed, WholePeriods
  <2>3. time'[p] = time[p] \/ time'[p] = time[p] - T \/ time'[p] = time[p] + T
    BY <1>0, <1>3, Turn, TowardsFacts
  <2>4. Left(p)' \in {Left(p), Left(p) - T, Left(p) + T}
    BY <1>0, <2>1, <2>2, <2>3
  <2>5. QED
    BY <2>2, <2>4, WholeFacts
<1>4. QED
  BY <1>1, <1>2, <1>3, PathFacts
     DEF Next, Calibrate, Learn, OpposedY, OpposedX, LopsidedY, LopsidedX, Done, vars

(* Whatever slipped and whatever the loops do, a fresh time is off by whole*)
(* periods only.                                                           *)
THEOREM TypeCorrect == Spec => []TypeOK
<1>1. Init => WholePeriods
  BY DEF Init, WholePeriods
<1>2. Typed /\ WholePeriods => TypeOK
  <2> SUFFICES ASSUME Typed, WholePeriods PROVE TypeOK
    OBVIOUS
  <2>1. \A p \in fresh : Left(p) \in Int /\ Whole(Left(p))
    BY LeftIsInt DEF WholePeriods, Typed
  <2>2. QED
    BY <2>1, WholeMod DEF TypeOK, Left
<1>3. QED
  BY <1>1, <1>2, InitTyped, StepTyped, StepWholePeriods, PTL DEF Spec
-----------------------------------------------------------------------------
(* Each turn of the last two loops converges.  The numbers: a and b are    *)
(* the distances of the two times of an axis from zeroWindTime, a the one  *)
(* that is moved.                                                          *)
LEMMA Convergence ==
  ASSUME NEW a \in Int, NEW b \in Int, NEW c \in Int, Abs(a) >= Abs(b),
         20 * (Abs(a) + Abs(b)) > 13 * T, 5 * Abs(a + b) > 2 * T,
         c = IF a > 0 THEN a - T ELSE a + T
  PROVE  \/ Abs(c) + Abs(b) < Abs(a) + Abs(b)
         \/ ~(5 * Abs(c + b) > 2 * T)
BY DEF Abs

(* The path a turn of the last two loops moves, and the other of the axis. *)
Mover(axis, p, q) ==
  /\ \/ p = Pos(axis) /\ q = Neg(axis)
     \/ p = Neg(axis) /\ q = Pos(axis)
  /\ p = Farther(axis)
  /\ Abs(Off(p)) >= Abs(Off(q))

LEMMA MoverExists ==
  ASSUME Typed, NEW axis \in Axis
  PROVE  \E p, q \in Path : p # q /\ p[1] = axis /\ q[1] = axis /\ Mover(axis, p, q)
<1>1. /\ Pos(axis) \in Path /\ Neg(axis) \in Path /\ Pos(axis) # Neg(axis)
      /\ Pos(axis)[1] = axis /\ Neg(axis)[1] = axis
  BY PathFacts
<1>2. Off(Pos(axis)) \in Int /\ Off(Neg(axis)) \in Int
  BY <1>1, TowardsFacts
<1>3. CASE Abs(Off(Pos(axis))) > Abs(Off(Neg(axis)))
  <2>1. Mover(axis, Pos(axis), Neg(axis))
    BY <1>2, <1>3 DEF Mover, Farther, Abs
  <2>2. QED
    BY <1>1, <2>1
<1>4. CASE ~(Abs(Off(Pos(axis))) > Abs(Off(Neg(axis))))
  <2>1. Mover(axis, Neg(axis), Pos(axis))
    BY <1>2, <1>4 DEF Mover, Farther, Abs
  <2>2. QED
    BY <1>1, <2>1
<1>5. QED
  BY <1>3, <1>4

LEMMA BalanceMoves ==
  ASSUME Typed, NEW axis \in Axis, Balance(axis), NEW p \in Path, NEW q \in Path,
         p # q, Mover(axis, p, q)
  PROVE  /\ Off(p) \in Int /\ Off(q) \in Int
         /\ Off(p)' = (IF Off(p) > 0 THEN Off(p) - T ELSE Off(p) + T)
         /\ Off(q)' = Off(q)
         /\ time'[p] = (IF Off(p) > 0 THEN time[p] - T ELSE time[p] + T)
         /\ time'[q] = time[q]
<1>1. time \in [Path -> Int] /\ zeroWindTime \in Int
  BY DEF Typed
<1>2. time' = [time EXCEPT ![p] = Towards(p)] /\ zeroWindTime' = zeroWindTime
  BY DEF Balance, Mover
<1>3. time'[p] = Towards(p) /\ time'[q] = time[q]
  BY <1>1, <1>2
<1>4. QED
  BY <1>1, <1>2, <1>3 DEF Off, Towards

LEMMA StepConverges ==
  ASSUME Typed, NEW axis \in Axis, Balance(axis)
  PROVE  Distance(axis)' < Distance(axis) \/ ~Lopsided(axis)'
<1>1. PICK p \in Path, q \in Path : p # q /\ Mover(axis, p, q)
  BY MoverExists
<1>2. /\ Off(p) \in Int /\ Off(q) \in Int
      /\ Off(p)' = (IF Off(p) > 0 THEN Off(p) - T ELSE Off(p) + T)
      /\ Off(q)' = Off(q)
      /\ Abs(Off(p)) >= Abs(Off(q))
  BY <1>1, BalanceMoves DEF Mover
<1>3. /\ Abs(Off(p)) \in Int /\ Abs(Off(q)) \in Int
      /\ Abs(Off(p)') \in Int /\ Off(p)' \in Int
  BY <1>2 DEF Abs
<1>4. /\ Distance(axis) = Abs(Off(p)) + Abs(Off(q))
      /\ Distance(axis)' = Abs(Off(p)') + Abs(Off(q)')
  BY <1>1, <1>2, <1>3 DEF Mover, Distance
<1>5. /\ Off(Pos(axis)) + Off(Neg(axis)) = Off(p) + Off(q)
      /\ Off(Pos(axis))' + Off(Neg(axis))' = Off(p)' + Off(q)'
  BY <1>1, <1>2, <1>3 DEF Mover
<1>6. 20 * (Abs(Off(p)) + Abs(Off(q))) > 13 * T /\ 5 * Abs(Off(p) + Off(q)) > 2 * T
  BY <1>4, <1>5 DEF Balance, Lopsided
<1>7. \/ Abs(Off(p)') + Abs(Off(q)) < Abs(Off(p)) + Abs(Off(q))
      \/ ~(5 * Abs(Off(p)' + Off(q)) > 2 * T)
  BY <1>2, <1>3, <1>6, Convergence
<1>8. QED
  BY <1>2, <1>4, <1>5, <1>7 DEF Lopsided

(* The loops end because each turn brings the two times closer to          *)
(* zeroWindTime or is the last: with 0.65 and 0.2 periods as thresholds a  *)
(* correction that overshoots lands where the loop stops.                  *)
THEOREM LoopsConverge == Spec => BalanceConverges
<1>1. Typed /\ [Next]_vars =>
        [\A axis \in Axis :
           Balance(axis) => Distance(axis)' < Distance(axis) \/ ~Lopsided(axis)']_vars
  BY StepConverges
<1>2. QED
  BY <1>1, InitTyped, StepTyped, PTL DEF Spec, BalanceConverges
-----------------------------------------------------------------------------
(* No loop undoes what an earlier one achieved. *)
Corrected ==
  /\ pc \in {"opposedX", "lopsidedY", "lopsidedX"} => ~Opposed("Y_AXIS")
  /\ pc \in {"lopsidedY", "lopsidedX"} => ~Opposed("X_AXIS")
  /\ pc = "lopsidedX" => ~Lopsided("Y_AXIS")

(* What is said of an axis depends on its own two times only. *)
LEMMA OtherAxis ==
  ASSUME Typed, NEW axis \in Axis, zeroWindTime' = zeroWindTime,
         \A p \in Path : p[1] = axis => time'[p] = time[p]
  PROVE  Opposed(axis)' = Opposed(axis) /\ Lopsided(axis)' = Lopsided(axis)
<1>1. Off(Pos(axis))' = Off(Pos(axis)) /\ Off(Neg(axis))' = Off(Neg(axis))
  BY PathFacts DEF Off
<1>2. Opposed(axis)' = Opposed(axis)
  BY <1>1 DEF Opposed
<1>3. Lopsided(axis)' = Lopsided(axis)
  BY <1>1 DEF Lopsided, Distance
<1>4. QED
  BY <1>2, <1>3

(* Two times that are not opposed do not become so when the farther one    *)
(* moves towards zeroWindTime.                                             *)
LEMMA StaysUnopposed ==
  ASSUME Typed, NEW axis \in Axis, Balance(axis), ~Opposed(axis)
  PROVE  ~Opposed(axis)'
<1>1. PICK p \in Path, q \in Path : p # q /\ Mover(axis, p, q)
  BY MoverExists
<1>2. /\ Off(p) \in Int /\ Off(q) \in Int
      /\ Off(p)' = (IF Off(p) > 0 THEN Off(p) - T ELSE Off(p) + T)
      /\ Off(q)' = Off(q)
  BY <1>1, BalanceMoves
<1>3. {Pos(axis), Neg(axis)} = {p, q}
  BY <1>1 DEF Mover
<1>4. /\ ~(5 * Off(p) > 6 * T /\ -5 * Off(q) > 6 * T)
      /\ ~(5 * Off(q) > 6 * T /\ -5 * Off(p) > 6 * T)
  BY <1>3 DEF Opposed
<1>5. /\ ~(5 * Off(p)' > 6 * T /\ -5 * Off(q)' > 6 * T)
      /\ ~(5 * Off(q)' > 6 * T /\ -5 * Off(p)' > 6 * T)
      /\ ~(5 * Off(p)' > 6 * T /\ -5 * Off(p)' > 6 * T)
      /\ ~(5 * Off(q)' > 6 * T /\ -5 * Off(q)' > 6 * T)
  BY <1>2, <1>4
<1>6. QED
  BY <1>3, <1>5 DEF Opposed

LEMMA StepCorrected == Typed /\ Corrected /\ [Next]_vars => Corrected'
<1> SUFFICES ASSUME Typed, Corrected, [Next]_vars PROVE Corrected'
  OBVIOUS
<1> USE DEF Corrected
<1>0. "X_AXIS" \in Axis /\ "Y_AXIS" \in Axis
  BY PathFacts
<1>1. CASE UNCHANGED <<time, zeroWindTime>>
  <2>1. \A axis \in Axis : Opposed(axis)' = Opposed(axis) /\ Lopsided(axis)' = Lopsided(axis)
    BY <1>1, OtherAxis
  <2>2. pc' \in {"opposedX", "lopsidedY", "lopsidedX"} =>
          \/ pc' = pc
          \/ OpposedY /\ pc' = "opposedX" /\ ~Opposed("Y_AXIS")
          \/ OpposedX /\ pc' = "lopsidedY" /\ ~Opposed("X_AXIS")
          \/ LopsidedY /\ pc' = "lopsidedX" /\ ~Lopsided("Y_AXIS")
    BY DEF Next, Measure, Calibrate, Learn, OpposedY, OpposedX, LopsidedY, LopsidedX,
           Done, Approach, Balance, vars
  <2>3. QED
    BY <1>0, <2>1, <2>2 DEF OpposedY, OpposedX, LopsidedY
<1>2. CASE pc' \in {"learn", "opposedY"}
  BY <1>2
<1>3. CASE pc = "opposedX" /\ Approach("X_AXIS")
  <2>1. Opposed("Y_AXIS")' = Opposed("Y_AXIS") /\ pc' = pc
    BY <1>0, <1>3, Turn, OtherAxis
  <2>2. QED
    BY <1>3, <2>1
<1>4. CASE pc = "lopsidedY" /\ Balance("Y_AXIS")
  <2>1. Opposed("X_AXIS")' = Opposed("X_AXIS") /\ pc' = pc
    BY <1>0, <1>4, Turn, OtherAxis
  <2>2. ~Opposed("Y_AXIS")'
    BY <1>0, <1>4, StaysUnopposed
  <2>3. QED
    BY <1>4, <2>1, <2>2
<1>5. CASE pc = "lopsidedX" /\ Balance("X_AXIS")
  <2>1. /\ Opposed("Y_AXIS")' = Opposed("Y_AXIS") /\ pc' = pc
        /\ Lopsided("Y_AXIS")' = Lopsided("Y_AXIS")
    BY <1>0, <1>5, Turn, OtherAxis
  <2>2. ~Opposed("X_AXIS")'
    BY <1>0, <1>5, StaysUnopposed
  <2>3. QED
    BY <1>5, <2>1, <2>2
<1>6. QED
  BY <1>1, <1>2, <1>3, <1>4, <1>5
     DEF Next, Measure, Calibrate, Learn, OpposedY, OpposedX, LopsidedY, LopsidedX,
         Done, Approach, vars

LEMMA ReturnsCorrected ==
  ASSUME Typed, Corrected, [Next]_vars, pc # "idle", pc' = "idle", NEW axis \in Axis
  PROVE  ~Opposed(axis)' /\ ~Lopsided(axis)'
<1>1. pc = "lopsidedX" /\ Done(Lopsided("X_AXIS"), "idle")
  BY DEF Next, Measure, Calibrate, Learn, OpposedY, OpposedX, LopsidedY, LopsidedX,
         Done, Approach, Balance, vars
<1>2. \A a \in Axis : Opposed(a)' = Opposed(a) /\ Lopsided(a)' = Lopsided(a)
  BY <1>1, OtherAxis DEF Done
<1>3. QED
  BY <1>1, <1>2, PathFacts DEF Corrected, Done

(* When the function returns no loop of it would run again. *)
THEOREM LeavesNothing == Spec => NothingLeftToCorrect
<1>1. Init => Corrected
  BY DEF Init, Corrected
<1>2. Typed /\ Corrected /\ [Next]_vars =>
        [pc # "idle" /\ pc' = "idle" =>
           \A axis \in Axis : ~Opposed(axis)' /\ ~Lopsided(axis)']_vars
  BY ReturnsCorrected
<1>3. QED
  BY <1>1, <1>2, InitTyped, StepTyped, StepCorrected, PTL DEF Spec, NothingLeftToCorrect

(* Why that bounds the times: a is the distance of one of them, b of the   *)
(* other one of its axis.                                                  *)
LEMMA CorrectedIsNear ==
  ASSUME NEW a \in Int, NEW b \in Int,
         ~(5 * a > 6 * T /\ -5 * b > 6 * T), ~(5 * b > 6 * T /\ -5 * a > 6 * T),
         ~(20 * (Abs(a) + Abs(b)) > 13 * T /\ 5 * Abs(a + b) > 2 * T)
  PROVE  5 * Abs(a) <= 8 * T /\ 5 * Abs(b) <= 8 * T
BY CalibrationAssumption DEF CalibrationAssumption, Abs

LEMMA CorrectedAxisIsNear ==
  ASSUME Typed, NEW axis \in Axis, ~Opposed(axis), ~Lopsided(axis)
  PROVE  5 * Abs(Off(Pos(axis))) <= 8 * T /\ 5 * Abs(Off(Neg(axis))) <= 8 * T
<1>1. Off(Pos(axis)) \in Int /\ Off(Neg(axis)) \in Int
  BY PathFacts DEF Typed, Off
<1>2. PICK a \in Int, b \in Int : a = Off(Pos(axis)) /\ b = Off(Neg(axis))
  BY <1>1
<1>3. ~(20 * (Abs(a) + Abs(b)) > 13 * T /\ 5 * Abs(a + b) > 2 * T)
  BY <1>2 DEF Lopsided, Distance
<1>4. ~(5 * a > 6 * T /\ -5 * b > 6 * T) /\ ~(5 * b > 6 * T /\ -5 * a > 6 * T)
  BY <1>2 DEF Opposed
<1>5. QED
  BY <1>2, <1>3, <1>4, CorrectedIsNear

(* Whatever times SoftCalibration is given, those it returns are within    *)
(* 1.6 periods of zeroWindTime, for any period.                            *)
THEOREM NearZeroWind == Spec => EndsNearZeroWind
<1>1. Init => Corrected
  BY DEF Init, Corrected
<1>2. Typed /\ Corrected /\ [Next]_vars =>
        [pc # "idle" /\ pc' = "idle" => \A p \in Path : 5 * Abs(Off(p)') <= 8 * T]_vars
  <2> SUFFICES ASSUME Typed, Corrected, [Next]_vars, pc # "idle", pc' = "idle",
                      NEW p \in Path
               PROVE  5 * Abs(Off(p)') <= 8 * T
    OBVIOUS
  <2>1. UNCHANGED <<time, zeroWindTime>>
    BY DEF Next, Measure, Calibrate, Learn, OpposedY, OpposedX, LopsidedY, LopsidedX,
         Done, Approach, Balance, vars
  <2>2. \A axis \in Axis : ~Opposed(axis) /\ ~Lopsided(axis)
    BY <2>1, ReturnsCorrected, OtherAxis
  <2>3. p[1] \in Axis /\ (p = Pos(p[1]) \/ p = Neg(p[1]))
    BY PathFacts
  <2>4. 5 * Abs(Off(p)) <= 8 * T
    BY <2>2, <2>3, CorrectedAxisIsNear
  <2>5. Off(p)' = Off(p)
    BY <2>1 DEF Off
  <2>6. QED
    BY <2>4, <2>5 DEF Abs
<1>3. QED
  BY <1>1, <1>2, InitTyped, StepTyped, StepCorrected, PTL DEF Spec, EndsNearZeroWind
-----------------------------------------------------------------------------
(* Slips are undone.  The numbers: w is the shift of one time of an axis   *)
(* by the wind and -w the other's, m and n are what is left of their slips *)
(* and z is the error of zeroWindTime.                                     *)
SameSide(m, n) == (m >= 0 /\ n >= 0) \/ (m <= 0 /\ n <= 0)
Slip(m) == m = 0 \/ m >= T \/ m <= -T

LEMMA NeverOpposed ==
  ASSUME NEW w \in Int, NEW z \in Int, NEW m \in Int, NEW n \in Int,
         40 * Abs(z) < 7 * T, 2 * Abs(w) < T, SameSide(m, n)
  PROVE  /\ ~(5 * (w + m - z) > 6 * T /\ -5 * (n - w - z) > 6 * T)
         /\ ~(5 * (n - w - z) > 6 * T /\ -5 * (w + m - z) > 6 * T)
BY DEF Abs, SameSide

LEMMA MovesTheSlipped ==
  ASSUME NEW w \in Int, NEW z \in Int, NEW m \in Int, NEW n \in Int,
         40 * Abs(z) < 7 * T, 2 * Abs(w) < T, SameSide(m, n), Slip(m), Slip(n),
         Abs(w + m - z) >= Abs(n - w - z),
         5 * Abs((w + m - z) + (n - w - z)) > 2 * T
  PROVE  /\ w + m - z > 0 => m >= T /\ n >= 0
         /\ ~(w + m - z > 0) => m <= -T /\ n <= 0
BY DEF Abs, SameSide, Slip

LEMMA StopsWhenUndone ==
  ASSUME NEW w \in Int, NEW z \in Int, NEW m \in Int, NEW n \in Int,
         40 * Abs(z) < 7 * T, SameSide(m, n), Slip(m), Slip(n),
         ~(/\ 20 * (Abs(w + m - z) + Abs(n - w - z)) > 13 * T
           /\ 5 * Abs((w + m - z) + (n - w - z)) > 2 * T)
  PROVE  m = 0 /\ n = 0
BY DEF Abs, SameSide, Slip

LEMMA StrongWindIsLeftAlone ==
  ASSUME NEW w \in Int, NEW z \in Int, 40 * Abs(z) < 7 * T, 5 * Abs(w) <= 6 * T
  PROVE  /\ ~(5 * (w - z) > 6 * T /\ -5 * (-w - z) > 6 * T)
         /\ ~(5 * (-w - z) > 6 * T /\ -5 * (w - z) > 6 * T)
         /\ ~(5 * Abs((w - z) + (-w - z)) > 2 * T)
BY DEF Abs

(* The distances of an axis in these terms. *)
LEMMA Distances ==
  ASSUME Typed, WholePeriods, fresh = Path, NEW axis \in Axis
  PROVE  LET w == reading.wind[axis]
             m == Left(Pos(axis))
             n == Left(Neg(axis))
         IN  /\ w \in Int /\ m \in Int /\ n \in Int /\ zeroWindTime \in Int
             /\ Slip(m) /\ Slip(n)
             /\ Off(Pos(axis)) = w + m - zeroWindTime
             /\ Off(Neg(axis)) = n - w - zeroWindTime
<1>1. /\ Pos(axis) \in Path /\ Neg(axis) \in Path
      /\ time \in [Path -> Int] /\ zeroWindTime \in Int /\ reading \in ReadingType
  BY PathFacts, ReadingTypes DEF Typed
<1>2. /\ Truth(reading)[Pos(axis)] = reading.wind[axis]
      /\ Truth(reading)[Neg(axis)] = -reading.wind[axis]
      /\ reading.wind[axis] \in Int
  BY <1>1, TruthFacts
<1>3. /\ Left(Pos(axis)) \in Int /\ Left(Neg(axis)) \in Int
      /\ Whole(Left(Pos(axis))) /\ Whole(Left(Neg(axis)))
  BY <1>1, LeftIsInt DEF WholePeriods
<1>4. Slip(Left(Pos(axis))) /\ Slip(Left(Neg(axis)))
  BY <1>3, WholeFacts DEF Slip
<1>5. QED
  BY <1>1, <1>2, <1>3, <1>4 DEF Off, Left

(* The slips that can be undone stay on one side; where nothing slipped,   *)
(* nothing changes.                                                        *)
Undoing(axis) == SameSide(Left(Pos(axis)), Left(Neg(axis)))

SlipsUndone ==
  fresh = Path /\ (pc = "learn" \/ Near) =>
    /\ OneSided(reading) /\ HalfPeriodWind(reading) => \A axis \in Axis : Undoing(axis)
    /\ Unslipped(reading) /\ StrongWind(reading) => \A p \in Path : Left(p) = 0

LEMMA MeasuredSlips ==
  ASSUME Typed, NEW r \in Readings, NEW paths \in Updates[r], Measure(r, paths)
  PROVE  /\ reading' = r /\ r \in ReadingType
         /\ \A p \in Path : r.slip[p] \in Int
         /\ \A p \in Path \cap fresh' : Left(p)' = r.slip[p] * T
<1>1. r \in ReadingType /\ reading' = r /\ fresh' = paths
  BY ReadingTypes DEF Measure
<1>2. \A p \in Path : r.slip[p] \in Int /\ Truth(r)[p] \in Int
  BY <1>1, TruthFacts
<1>3. ASSUME NEW p \in Path, p \in fresh' PROVE Left(p)' = r.slip[p] * T
  <2>1. time'[p] = Truth(r)[p] + r.slip[p] * T
    BY <1>1, <1>3 DEF Measure
  <2>2. Left(p)' = time'[p] - Truth(r)[p]
    BY <1>1 DEF Left, Truth
  <2>3. QED
    BY <1>2, <2>1, <2>2
<1>4. QED
  BY <1>1, <1>2, <1>3

LEMMA ProductSide ==
  ASSUME NEW m \in Int, NEW n \in Int, m * n >= 0
  PROVE  SameSide(m * T, n * T)
<1>1. (m >= 0 /\ n >= 0) \/ (m <= 0 /\ n <= 0)
  OBVIOUS
<1>2. \A k \in Int : (k >= 0 => k * T >= 0) /\ (k <= 0 => k * T <= 0)
  OBVIOUS
<1>3. QED
  BY <1>1, <1>2 DEF SameSide

(* A turn of a loop while zeroWindTime is near. *)
LEMMA TurnUndoes ==
  ASSUME Typed, WholePeriods, fresh = Path, Near, NEW axis \in Axis,
         Approach(axis) \/ Balance(axis), OneSided(reading), HalfPeriodWind(reading),
         Undoing(axis)
  PROVE  Undoing(axis)'
<1> DEFINE w == reading.wind[axis]
           m == Left(Pos(axis))
           n == Left(Neg(axis))
           z == zeroWindTime
<1>1. /\ w \in Int /\ m \in Int /\ n \in Int /\ z \in Int /\ Slip(m) /\ Slip(n)
      /\ Off(Pos(axis)) = w + m - z
      /\ Off(Neg(axis)) = n - w - z
  BY Distances
<1>2. SameSide(m, n) /\ 2 * Abs(w) < T /\ 40 * Abs(z) < 7 * T
  BY DEF Undoing, HalfPeriodWind, Near
<1> HIDE DEF w, m, n, z
<1>3. ~Opposed(axis)
  <2>1. /\ ~(5 * Off(Pos(axis)) > 6 * T /\ -5 * Off(Neg(axis)) > 6 * T)
        /\ ~(5 * Off(Neg(axis)) > 6 * T /\ -5 * Off(Pos(axis)) > 6 * T)
    BY <1>1, <1>2, NeverOpposed
  <2>2. \A a \in Int : ~(5 * a > 6 * T /\ -5 * a > 6 * T)
    OBVIOUS
  <2>3. Off(Pos(axis)) \in Int /\ Off(Neg(axis)) \in Int
    BY <1>1
  <2>4. QED
    BY <2>1, <2>2, <2>3 DEF Opposed
<1>4. Balance(axis)
  BY <1>3 DEF Approach
<1>5. PICK p \in Path, q \in Path : p # q /\ Mover(axis, p, q)
  BY MoverExists
<1>6. /\ time'[p] = (IF Off(p) > 0 THEN time[p] - T ELSE time[p] + T)
      /\ time'[q] = time[q] /\ reading' = reading
      /\ Abs(Off(p)) >= Abs(Off(q))
  BY <1>4, <1>5, BalanceMoves DEF Mover, Balance
<1>7. /\ time[p] \in Int /\ time[q] \in Int /\ Truth(reading)[p] \in Int
      /\ Truth(reading)[q] \in Int
  BY ReadingTypes, TruthFacts DEF Typed
<1>8. /\ Left(p)' = (IF Off(p) > 0 THEN Left(p) - T ELSE Left(p) + T)
      /\ Left(q)' = Left(q)
  BY <1>6, <1>7 DEF Left, Truth
<1>9. 5 * Abs(Off(Pos(axis)) + Off(Neg(axis))) > 2 * T
  BY <1>4 DEF Balance, Lopsided
<1>10. CASE p = Pos(axis) /\ q = Neg(axis)
  <2>1. /\ Off(Pos(axis)) > 0 => m >= T /\ n >= 0
        /\ ~(Off(Pos(axis)) > 0) => m <= -T /\ n <= 0
    BY <1>1, <1>2, <1>6, <1>9, <1>10, MovesTheSlipped
  <2>2. /\ Left(Pos(axis))' = (IF Off(Pos(axis)) > 0 THEN m - T ELSE m + T)
        /\ Left(Neg(axis))' = n
    BY <1>8, <1>10 DEF m, n
  <2>3. QED
    BY <1>1, <2>1, <2>2 DEF Undoing, SameSide
<1>11. CASE p = Neg(axis) /\ q = Pos(axis)
  <2>1. -w \in Int /\ 2 * Abs(-w) < T /\ SameSide(n, m)
    BY <1>1, <1>2 DEF Abs, SameSide
  <2>2. /\ Off(Neg(axis)) = -w + n - z
        /\ Off(Pos(axis)) = m - (-w) - z
        /\ Off(Pos(axis)) + Off(Neg(axis)) = (-w + n - z) + (m - (-w) - z)
    BY <1>1
  <2>3. /\ Off(Neg(axis)) > 0 => n >= T /\ m >= 0
        /\ ~(Off(Neg(axis)) > 0) => n <= -T /\ m <= 0
    BY <1>1, <1>2, <1>6, <1>9, <1>11, <2>1, <2>2, MovesTheSlipped
  <2>4. /\ Left(Neg(axis))' = (IF Off(Neg(axis)) > 0 THEN n - T ELSE n + T)
        /\ Left(Pos(axis))' = m
    BY <1>8, <1>11 DEF m, n
  <2>5. QED
    BY <1>1, <2>3, <2>4 DEF Undoing, SameSide
<1>12. QED
  BY <1>5, <1>10, <1>11 DEF Mover

LEMMA TurnLeavesAlone ==
  ASSUME Typed, WholePeriods, fresh = Path, Near, NEW axis \in Axis,
         StrongWind(reading), \A p \in Path : Left(p) = 0
  PROVE  ~Opposed(axis) /\ ~Lopsided(axis)
<1> DEFINE w == reading.wind[axis]
           z == zeroWindTime
<1>1. /\ w \in Int /\ z \in Int
      /\ Off(Pos(axis)) = w - z
      /\ Off(Neg(axis)) = -w - z
  BY Distances, PathFacts
<1>2. 5 * Abs(w) <= 6 * T /\ 40 * Abs(z) < 7 * T
  BY DEF StrongWind, Near
<1> HIDE DEF w, z
<1>3. /\ ~(5 * Off(Pos(axis)) > 6 * T /\ -5 * Off(Neg(axis)) > 6 * T)
      /\ ~(5 * Off(Neg(axis)) > 6 * T /\ -5 * Off(Pos(axis)) > 6 * T)
      /\ ~(5 * Abs(Off(Pos(axis)) + Off(Neg(axis))) > 2 * T)
  BY <1>1, <1>2, StrongWindIsLeftAlone
<1>4. \A a \in Int : ~(5 * a > 6 * T /\ -5 * a > 6 * T)
  OBVIOUS
<1>5. Off(Pos(axis)) \in Int /\ Off(Neg(axis)) \in Int
  BY <1>1
<1>6. QED
  BY <1>3, <1>4, <1>5 DEF Opposed, Lopsided

LEMMA StepSlipsUndone ==
  ASSUME Typed, WholePeriods, SlipsUndone, [Next]_vars
  PROVE  SlipsUndone'
<1>1. ASSUME NEW r \in Readings, NEW paths \in Updates[r], Measure(r, paths)
      PROVE  SlipsUndone'
  <2> SUFFICES ASSUME fresh' = Path
               PROVE  /\ OneSided(r) => \A axis \in Axis : Undoing(axis)'
                      /\ Unslipped(r) => \A p \in Path : Left(p)' = 0
    BY <1>1, MeasuredSlips DEF SlipsUndone, OneSided, Unslipped, HalfPeriodWind, StrongWind
  <2>1. /\ \A p \in Path : r.slip[p] \in Int
        /\ \A p \in Path : Left(p)' = r.slip[p] * T
    BY <1>1, MeasuredSlips
  <2>2. ASSUME OneSided(r), NEW axis \in Axis PROVE Undoing(axis)'
    <3>1. Pos(axis) \in Path /\ Neg(axis) \in Path
      BY PathFacts
    <3>2. SameSide(r.slip[Pos(axis)] * T, r.slip[Neg(axis)] * T)
      BY <2>1, <2>2, <3>1, ProductSide DEF OneSided
    <3>3. Left(Pos(axis))' = r.slip[Pos(axis)] * T /\ Left(Neg(axis))' = r.slip[Neg(axis)] * T
      BY <2>1, <3>1 DEF Pos, Neg
    <3>4. QED
      BY <3>2, <3>3 DEF Undoing
  <2>3. ASSUME Unslipped(r), NEW p \in Path PROVE Left(p)' = 0
    BY <2>1, <2>3 DEF Unslipped
  <2>4. QED
    BY <2>2, <2>3
<1>2. CASE /\ UNCHANGED <<time, reading, fresh>>
           /\ pc' = "learn" \/ Near' => pc = "learn" \/ Near
  <2>1. /\ OneSided(reading)' = OneSided(reading) /\ HalfPeriodWind(reading)' = HalfPeriodWind(reading)
        /\ Unslipped(reading)' = Unslipped(reading) /\ StrongWind(reading)' = StrongWind(reading)
    BY <1>2 DEF OneSided, HalfPeriodWind, Unslipped, StrongWind
  <2>2. /\ \A axis \in Axis : Undoing(axis)' = Undoing(axis)
        /\ \A p \in Path : Left(p)' = Left(p)
    BY <1>2 DEF Undoing, Left, Truth
  <2>3. QED
    BY <1>2, <2>1, <2>2 DEF SlipsUndone
<1>3. ASSUME NEW axis \in Axis, pc # "learn", Approach(axis) \/ Balance(axis)
      PROVE  SlipsUndone'
  <2>1. UNCHANGED <<pc, zeroWindTime, reading, fresh>>
    BY <1>3, Turn
  <2> SUFFICES ASSUME fresh = Path, Near
               PROVE  /\ OneSided(reading) /\ HalfPeriodWind(reading) =>
                            \A a \in Axis : Undoing(a)'
                      /\ ~(Unslipped(reading) /\ StrongWind(reading))
    BY <1>3, <2>1 DEF SlipsUndone, OneSided, Unslipped, HalfPeriodWind, StrongWind, Near
  <2>2. /\ OneSided(reading) /\ HalfPeriodWind(reading) => \A a \in Axis : Undoing(a)
        /\ Unslipped(reading) /\ StrongWind(reading) => \A p \in Path : Left(p) = 0
    BY DEF SlipsUndone
  <2>3. ASSUME OneSided(reading), HalfPeriodWind(reading), NEW a \in Axis
        PROVE  Undoing(a)'
    <3>1. CASE a = axis
      BY <1>3, <2>2, <2>3, <3>1, TurnUndoes
    <3>2. CASE a # axis
      <4>1. time'[Pos(a)] = time[Pos(a)] /\ time'[Neg(a)] = time[Neg(a)]
        BY <1>3, <3>2, Turn, PathFacts
      <4>2. Left(Pos(a))' = Left(Pos(a)) /\ Left(Neg(a))' = Left(Neg(a))
        BY <2>1, <4>1 DEF Left, Truth, Pos, Neg
      <4>3. QED
        BY <2>2, <2>3, <4>2 DEF Undoing
    <3>3. QED
      BY <3>1, <3>2
  <2>4. ~(Unslipped(reading) /\ StrongWind(reading))
    BY <1>3, <2>2, TurnLeavesAlone DEF Approach, Balance
  <2>5. QED
    BY <2>3, <2>4
<1>4. QED
  BY <1>1, <1>2, <1>3, PathFacts
     DEF Next, Calibrate, Learn, OpposedY, OpposedX, LopsidedY, LopsidedX, Done, vars, Near

(* Between calls the last two loops have nothing to do. *)
Returned == pc = "idle" /\ fresh = Path => \A axis \in Axis : ~Lopsided(axis)

LEMMA StepReturned ==
  ASSUME Typed, Corrected, Returned, [Next]_vars
  PROVE  Returned'
<1> SUFFICES ASSUME pc' = "idle", fresh' = Path, NEW axis \in Axis PROVE ~Lopsided(axis)'
  BY DEF Returned
<1>1. CASE pc # "idle"
  BY <1>1, ReturnsCorrected
<1>2. CASE pc = "idle"
  <2>1. UNCHANGED vars
    BY <1>2 DEF Next, Measure, Calibrate, Learn, OpposedY, OpposedX, LopsidedY, LopsidedX
  <2>2. Lopsided(axis)' = Lopsided(axis)
    BY <2>1, OtherAxis DEF vars
  <2>3. QED
    BY <1>2, <2>1, <2>2 DEF Returned, vars
<1>3. QED
  BY <1>1, <1>2

LEMMA RepairedBetweenCalls ==
  ASSUME Typed, WholePeriods, SlipsUndone, Returned
  PROVE  SlipsRepaired
<1> SUFFICES ASSUME pc = "idle", fresh = Path, Near, Repairable(reading)
             PROVE  time = Truth(reading)
  BY DEF SlipsRepaired
<1>1. ASSUME NEW axis \in Axis PROVE Left(Pos(axis)) = 0 /\ Left(Neg(axis)) = 0
  <2>1. CASE OneSided(reading) /\ HalfPeriodWind(reading)
    <3>1. Undoing(axis) /\ ~Lopsided(axis) /\ 40 * Abs(zeroWindTime) < 7 * T
      BY <2>1 DEF SlipsUndone, Returned, Near
    <3>2. PICK w \in Int, m \in Int, n \in Int, z \in Int :
            /\ m = Left(Pos(axis)) /\ n = Left(Neg(axis)) /\ z = zeroWindTime
            /\ Slip(m) /\ Slip(n)
            /\ Off(Pos(axis)) = w + m - z
            /\ Off(Neg(axis)) = n - w - z
      BY Distances
    <3>3. SameSide(m, n)
      BY <3>1, <3>2 DEF Undoing
    <3>4. ~(/\ 20 * (Abs(w + m - z) + Abs(n - w - z)) > 13 * T
            /\ 5 * Abs((w + m - z) + (n - w - z)) > 2 * T)
      BY <3>1, <3>2 DEF Lopsided, Distance
    <3>5. QED
      BY <3>1, <3>2, <3>3, <3>4, StopsWhenUndone
  <2>2. CASE Unslipped(reading) /\ StrongWind(reading)
    BY <2>2, PathFacts DEF SlipsUndone
  <2>3. QED
    BY <2>1, <2>2 DEF Repairable
<1>2. \A p \in Path : Left(p) = 0
  BY <1>1, PathFacts
<1>3. \A p \in Path : time[p] \in Int /\ Truth(reading)[p] \in Int
  BY ReadingTypes, TruthFacts DEF Typed
<1>4. ASSUME NEW p \in Path PROVE time[p] = Truth(reading)[p]
  <2>1. time[p] - Truth(reading)[p] = 0
    BY <1>2 DEF Left
  <2>2. QED
    BY <1>3, <2>1
<1>5. QED
  BY <1>4 DEF Typed, Truth

(* With zeroWindTime less than 0.175 periods from the truth every slip that*)
(* is one-sided is undone, and wind up to 1.2 periods is never taken for a *)
(* slip: whatever the period, however many periods each time slipped.      *)
THEOREM Repaired == Spec => []SlipsRepaired
<1>1. Init => Corrected /\ WholePeriods /\ SlipsUndone /\ Returned
  <2>1. Path # {}
    BY PathFacts
  <2>2. QED
    BY <2>1 DEF Init, Corrected, WholePeriods, SlipsUndone, Returned
<1>2. Typed /\ WholePeriods /\ SlipsUndone /\ [Next]_vars => SlipsUndone'
  BY StepSlipsUndone
<1>3. Typed /\ Corrected /\ Returned /\ [Next]_vars => Returned'
  BY StepReturned
<1>4. Typed /\ WholePeriods /\ SlipsUndone /\ Returned => SlipsRepaired
  BY RepairedBetweenCalls
<1>5. QED
  BY <1>1, <1>2, <1>3, <1>4, InitTyped, StepTyped, StepWholePeriods, StepCorrected,
     PTL DEF Spec
-----------------------------------------------------------------------------
(* zeroWindTime is learned right.  When SoftCalibration is called a fresh  *)
(* time is what was measured.                                              *)
AsMeasured ==
  pc = "learn" => \A p \in Path \cap fresh : Left(p) = reading.slip[p] * T

LEMMA StepAsMeasured ==
  ASSUME Typed, AsMeasured, [Next]_vars
  PROVE  AsMeasured'
<1> SUFFICES ASSUME pc' = "learn", NEW p \in Path, p \in fresh'
             PROVE  Left(p)' = reading'.slip[p] * T
  BY DEF AsMeasured
<1>1. ASSUME NEW r \in Readings, NEW paths \in Updates[r], Measure(r, paths)
      PROVE  Left(p)' = reading'.slip[p] * T
  BY <1>1, MeasuredSlips
<1>2. CASE UNCHANGED vars
  BY <1>2 DEF AsMeasured, Left, Truth, vars
<1>3. ASSUME NEW axis \in Axis, pc # "learn", Approach(axis) \/ Balance(axis) PROVE FALSE
  BY <1>3, Turn
<1>4. QED
  BY <1>1, <1>2, <1>3, PathFacts
     DEF Next, Calibrate, Learn, OpposedY, OpposedX, LopsidedY, LopsidedX, Done

(* Two times of an axis, w and -w without their slips m and n.  If they    *)
(* agree, not just one of them has slipped.                                *)
LEMMA AgreeingTimes ==
  ASSUME NEW w \in Int, NEW m \in Int, NEW n \in Int, Slip(m), Slip(n),
         m = 0 \/ n = 0, 50 * Abs(w) <= 23 * T,
         25 * Abs((w + m) - (n - w)) < 2 * T
  PROVE  40 * Abs(w + m) < 7 * T /\ 40 * Abs(n - w) < 7 * T
BY DEF Abs, Slip

(* Three of the four times agreeing is enough to learn zeroWindTime, and   *)
(* with at most one slip they only agree on the right one.                 *)
THEOREM ZeroWindLearned == Spec => LearnsZeroWind
<1>1. Init => AsMeasured
  BY DEF Init, AsMeasured
<1>2. ASSUME Typed, AsMeasured, Learn, fresh = Path, AtMostOneSlip(reading),
             LearnableWind(reading)
      PROVE  Near' \/ (reading.wind # StillAir.wind /\ UNCHANGED zeroWindTime)
  <2>1. /\ reading \in ReadingType /\ reading.wind \in [Axis -> Int]
        /\ time \in [Path -> Int] /\ zeroWindTime \in Int
    BY <1>2, ReadingTypes DEF Typed, ReadingType
  <2>2. ASSUME NEW p \in Path
        PROVE  /\ Left(p) \in Int /\ Slip(Left(p))
               /\ reading.slip[p] = 0 => Left(p) = 0
               /\ reading.slip[p] \in Int
    <3>1. Left(p) = reading.slip[p] * T /\ reading.slip[p] \in Int /\ Left(p) \in Int
      BY <1>2, <2>1, TruthFacts, LeftIsInt DEF AsMeasured, Learn
    <3>2. Whole(Left(p))
      BY <3>1 DEF Whole
    <3>3. QED
      BY <3>1, <3>2, WholeFacts DEF Slip
  <2>3. ASSUME NEW p \in Path PROVE time[p] = Truth(reading)[p] + Left(p)
    BY <2>1, TruthFacts DEF Left
  <2>4. ASSUME NEW axis \in Axis, Equal(Pos(axis), Neg(axis))
        PROVE  40 * Abs(time[Pos(axis)]) < 7 * T
    <3>1. Pos(axis) \in Path /\ Neg(axis) \in Path /\ Pos(axis) # Neg(axis)
      BY PathFacts
    <3>2. PICK w \in Int, m \in Int, n \in Int :
            /\ w = reading.wind[axis] /\ m = Left(Pos(axis)) /\ n = Left(Neg(axis))
            /\ time[Pos(axis)] = w + m /\ time[Neg(axis)] = n - w
            /\ Slip(m) /\ Slip(n)
      <4>1. /\ reading.wind[axis] \in Int
            /\ Truth(reading)[Pos(axis)] = reading.wind[axis]
            /\ Truth(reading)[Neg(axis)] = -reading.wind[axis]
        BY <2>1, TruthFacts
      <4>2. /\ Left(Pos(axis)) \in Int /\ Left(Neg(axis)) \in Int
            /\ Slip(Left(Pos(axis))) /\ Slip(Left(Neg(axis)))
        BY <2>2, <3>1
      <4>3. /\ time[Pos(axis)] = reading.wind[axis] + Left(Pos(axis))
            /\ time[Neg(axis)] = Left(Neg(axis)) - reading.wind[axis]
        BY <2>3, <3>1, <4>1, <4>2
      <4>4. QED
        BY <4>1, <4>2, <4>3
    <3>3. m = 0 \/ n = 0
      BY <1>2, <2>2, <3>1, <3>2 DEF AtMostOneSlip
    <3>4. 50 * Abs(w) <= 23 * T
      BY <1>2, <3>2 DEF LearnableWind
    <3>5. 25 * Abs((w + m) - (n - w)) < 2 * T
      BY <2>4, <3>2 DEF Equal
    <3>6. QED
      BY <3>2, <3>3, <3>4, <3>5, AgreeingTimes
  <2>5. "X_AXIS" \in Axis /\ "Y_AXIS" \in Axis
    BY PathFacts
  <2>6. CASE Agree("X_AXIS", "Y_AXIS") \/ Agree("Y_AXIS", "X_AXIS")
    BY <1>2, <2>4, <2>5, <2>6 DEF Learn, Agree, Near
  <2>7. CASE ~Agree("X_AXIS", "Y_AXIS") /\ ~Agree("Y_AXIS", "X_AXIS")
    <3>1. zeroWindTime' = zeroWindTime
      BY <1>2, <2>7 DEF Learn
    <3> SUFFICES ASSUME reading.wind = StillAir.wind PROVE FALSE
      BY <3>1
    <3>2. ASSUME NEW p \in Path, reading.slip[p] = 0 PROVE time[p] = 0
      <4>1. \A axis \in Axis : reading.wind[axis] = 0
        BY DEF StillAir
      <4>2. Truth(reading)[p] = 0
        BY <2>1, <4>1, TruthFacts, PathFacts
      <4>3. QED
        BY <2>2, <2>3, <3>2, <4>2
    <3>3. \A p, q \in Path : reading.slip[p] = 0 /\ reading.slip[q] = 0 => Equal(p, q)
      BY <3>2 DEF Equal, Abs
    <3>4. /\ Pos("X_AXIS") \in Path /\ Neg("X_AXIS") \in Path
          /\ Pos("Y_AXIS") \in Path /\ Neg("Y_AXIS") \in Path
          /\ Pos("X_AXIS") # Neg("X_AXIS") /\ Pos("Y_AXIS") # Neg("Y_AXIS")
          /\ Pos("X_AXIS") # Pos("Y_AXIS") /\ Pos("X_AXIS") # Neg("Y_AXIS")
          /\ Neg("X_AXIS") # Pos("Y_AXIS") /\ Neg("X_AXIS") # Neg("Y_AXIS")
      BY <2>5, PathFacts DEF Pos, Neg
    <3>5. QED
      BY <1>2, <2>7, <3>3, <3>4 DEF Agree, AtMostOneSlip
  <2>8. QED
    BY <2>6, <2>7
<1>3. Typed /\ AsMeasured /\ [Next]_vars =>
        [Learn /\ fresh = Path /\ AtMostOneSlip(reading) /\ LearnableWind(reading) =>
           \/ Near'
           \/ reading.wind # StillAir.wind /\ UNCHANGED zeroWindTime]_vars
  BY <1>2
<1>4. Typed /\ AsMeasured /\ [Next]_vars => AsMeasured'
  BY StepAsMeasured
<1>5. QED
  BY <1>1, <1>3, <1>4, InitTyped, StepTyped, PTL DEF Spec, LearnsZeroWind

(* Still air and two fresh times that have not slipped, whichever paths    *)
(* they are of and whatever the other two hold: three that agree lie close *)
(* to one of them.                                                         *)
THEOREM ZeroWindKept == Spec => LearnsNearFresh
<1>1. Init => AsMeasured
  BY DEF Init, AsMeasured
<1>2. ASSUME Typed, AsMeasured, Learn, NEW a \in fresh, NEW b \in fresh, a # b,
             reading.wind = StillAir.wind, \A p \in fresh : reading.slip[p] = 0
      PROVE  Near' \/ UNCHANGED zeroWindTime
  <2>1. /\ reading \in ReadingType /\ time \in [Path -> Int] /\ zeroWindTime \in Int
        /\ fresh \subseteq Path
    BY <1>2, ReadingTypes DEF Typed
  <2>2. ASSUME NEW p \in fresh PROVE time[p] = 0
    <3>1. Left(p) = reading.slip[p] * T /\ reading.slip[p] = 0 /\ p \in Path
      BY <1>2, <2>1 DEF AsMeasured, Learn
    <3>2. \A axis \in Axis : reading.wind[axis] = 0
      BY <1>2 DEF StillAir
    <3>3. Truth(reading)[p] = 0 /\ Left(p) = time[p] - Truth(reading)[p]
      BY <2>1, <3>1, <3>2, TruthFacts, PathFacts DEF Left
    <3>4. Left(p) = 0 /\ time[p] \in Int
      BY <2>1, <3>1, CalibrationAssumption DEF CalibrationAssumption
    <3>5. QED
      BY <3>3, <3>4
  <2>3. /\ "X_AXIS" \in Axis /\ "Y_AXIS" \in Axis
        /\ Path = {Pos("X_AXIS"), Neg("X_AXIS"), Pos("Y_AXIS"), Neg("Y_AXIS")}
    BY PathFacts DEF Path, Pos, Neg, Axis, Direction
  <2>4. ASSUME NEW axis \in Axis, NEW other \in Axis, Agree(axis, other),
               {axis, other} = Axis
        PROVE  40 * Abs(time[Pos(axis)]) < 7 * T
    <3>1. \/ Pos(axis) \in fresh \/ Neg(axis) \in fresh
          \/ Pos(other) \in fresh /\ Neg(other) \in fresh
      BY <1>2, <2>1, <2>3, <2>4 DEF Axis
    <3>2. PICK p \in Int, n \in Int, op \in Int, on \in Int :
            /\ p = time[Pos(axis)] /\ n = time[Neg(axis)]
            /\ op = time[Pos(other)] /\ on = time[Neg(other)]
      BY <2>1, <2>4, PathFacts
    <3>3. p = 0 \/ n = 0 \/ (op = 0 /\ on = 0)
      BY <2>2, <3>1, <3>2
    <3>4. /\ 25 * Abs(p - n) < 2 * T
          /\ 25 * Abs(p - on) < 2 * T \/ 25 * Abs(op - n) < 2 * T
      BY <2>4, <3>2 DEF Agree, Equal
    <3>5. T \in Nat \ {0}
      BY CalibrationAssumption DEF CalibrationAssumption
    <3>6. 40 * Abs(p) < 7 * T
      BY <3>3, <3>4, <3>5 DEF Abs
    <3>7. QED
      BY <3>2, <3>6
  <2>5. CASE Agree("X_AXIS", "Y_AXIS")
    <3>1. 40 * Abs(time[Pos("X_AXIS")]) < 7 * T
      BY <2>3, <2>4, <2>5 DEF Axis
    <3>2. QED
      BY <1>2, <2>5, <3>1 DEF Learn, Near
  <2>6. CASE ~Agree("X_AXIS", "Y_AXIS") /\ Agree("Y_AXIS", "X_AXIS")
    <3>1. 40 * Abs(time[Pos("Y_AXIS")]) < 7 * T
      BY <2>3, <2>4, <2>6 DEF Axis
    <3>2. QED
      BY <1>2, <2>6, <3>1 DEF Learn, Near
  <2>7. QED
    BY <1>2, <2>5, <2>6 DEF Learn
<1>3. Typed /\ AsMeasured /\ [Next]_vars =>
        [Learn /\ (\E p, q \in fresh : p # q) /\ reading.wind = StillAir.wind
           /\ (\A p \in fresh : reading.slip[p] = 0)
         => Near' \/ UNCHANGED zeroWindTime]_vars
  BY <1>2
<1>4. Typed /\ AsMeasured /\ [Next]_vars => AsMeasured'
  BY StepAsMeasured
<1>5. QED
  BY <1>1, <1>3, <1>4, InitTyped, StepTyped, PTL DEF Spec, LearnsNearFresh
=============================================================================
