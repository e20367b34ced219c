-------------------------- MODULE WindReportProofs --------------------------
(***************************************************************************)
(* What holds of WindReport for all integer times, positive, negative, 0   *)
(* and not a number, and whatever the rounds before brought.               *)
(***************************************************************************)
EXTENDS WindReport, FiniteSetTheorems, WellFoundedInduction, TLAPS

(* What a speed on an axis, a direction and the speed of a wind may be. *)
Finite == {s \in Int : -1460000 <= s /\ s <= 1460000}
Speeds == Finite \cup {INF, -INF, NAN}
Known == [floor : 0..36, ceiling : 0..36]
WindSpeeds == {s \in Nat : s <= 2920000} \cup {INF, NAN}

(* And below 50 km/s on each axis. *)
Moderate == {s \in Int : -486667 <= s /\ s <= 486667}
-----------------------------------------------------------------------------
(* A quotient is bounded as its dividend is. *)
LEMMA Quotient ==
  ASSUME NEW a \in Nat, NEW b \in Nat, NEW c \in Nat, b > 0, a < (c + 1) * b
  PROVE  /\ a \div b \in 0..c
         /\ b <= a => a \div b > 0
<1> DEFINE q == a \div b
           r == a % b
<1>1. q \in Nat /\ r \in Nat /\ a = b * q + r /\ r < b
  BY Z3
<1> HIDE DEF q, r
<1>2. q <= c
  <2>1. SUFFICES ASSUME q >= c + 1 PROVE FALSE
    BY <1>1
  <2>2. PICK d \in Nat : q = c + 1 + d
    <3>1. q - c - 1 \in Nat
      BY <1>1, <2>1
    <3>2. q = c + 1 + (q - c - 1)
      BY <1>1
    <3>3. QED
      BY <3>1, <3>2
  <2>3. b * q = (c + 1) * b + b * d /\ b * d \in Nat
    BY <2>2
  <2>4. QED
    BY <1>1, <2>3
<1>3. b <= a => q > 0
  BY <1>1
<1>4. QED
  BY <1>1, <1>2, <1>3 DEF q

LEMMA RoundedUpTypes ==
  ASSUME NEW a \in Nat, NEW b \in Nat, NEW c \in Nat, b > 0, a <= c * b
  PROVE  /\ RoundedUp(a, b) \in 0..c
         /\ RoundedUp(a, b) = 0 <=> a = 0
<1>1. PICK d \in Nat : d = a + b - 1
  OBVIOUS
<1>2. d < (c + 1) * b
  <2>1. (c + 1) * b = c * b + b
    OBVIOUS
  <2>2. c * b \in Nat
    OBVIOUS
  <2>3. QED
    BY <1>1, <2>1, <2>2
<1>3. d \div b \in 0..c /\ (b <= d => d \div b > 0)
  BY <1>2, Quotient
<1>4. a > 0 => b <= d
  BY <1>1
<1>5. a = 0 => d \div b = 0
  <2>1. 0 \in Nat /\ (a = 0 => d < (0 + 1) * b)
    BY <1>1
  <2>2. a = 0 => d \div b \in 0..0
    BY <2>1, Quotient
  <2>3. QED
    BY <2>2
<1>6. QED
  BY <1>1, <1>3, <1>4, <1>5 DEF RoundedUp

(* Absolute values, and those of products. *)
LEMMA AbsTypes ==
  ASSUME NEW n \in Int
  PROVE  Abs(n) \in Nat /\ (Abs(n) = 0 <=> n = 0)
BY DEF Abs

LEMMA AbsOfProduct ==
  ASSUME NEW p \in Int, NEW n \in Int
  PROVE  Abs(p * n) = Abs(p) * Abs(n)
<1>1. CASE p >= 0 /\ n >= 0
  <2>1. p * n >= 0
    BY <1>1
  <2>2. QED
    BY <1>1, <2>1 DEF Abs
<1>2. CASE p < 0 /\ n < 0
  <2>1. p * n = (-p) * (-n) /\ p * n >= 0
    BY <1>2
  <2>2. QED
    BY <1>2, <2>1 DEF Abs
<1>3. CASE p < 0 /\ n >= 0
  <2>1. -(p * n) = (-p) * n /\ (-p) * n >= 0
    BY <1>3
  <2>2. CASE p * n < 0
    BY <1>3, <2>1, <2>2 DEF Abs
  <2>3. CASE ~(p * n < 0)
    <3>1. p * n = 0 /\ (-p) * n = 0
      BY <2>1, <2>3
    <3>2. QED
      BY <1>3, <3>1 DEF Abs
  <2>4. QED
    BY <2>2, <2>3
<1>4. CASE p >= 0 /\ n < 0
  <2>1. -(p * n) = p * (-n) /\ p * (-n) >= 0
    BY <1>4
  <2>2. CASE p * n < 0
    BY <1>4, <2>1, <2>2 DEF Abs
  <2>3. CASE ~(p * n < 0)
    <3>1. p * n = 0 /\ p * (-n) = 0
      BY <2>1, <2>3
    <3>2. QED
      BY <1>4, <3>1 DEF Abs
  <2>4. QED
    BY <2>2, <2>3
<1>5. QED
  BY <1>1, <1>2, <1>3, <1>4

(* The difference of two numbers is at most twice their product, and two   *)
(* thirds of it if both are 3 or more.                                     *)
LEMMA DifferenceByProduct ==
  ASSUME NEW p \in Int, NEW n \in Int, p # 0, n # 0
  PROVE  /\ Abs(p * n) \in Nat /\ Abs(p * n) > 0
         /\ Abs(n - p) \in Nat /\ (Abs(n - p) = 0 <=> p = n)
         /\ Abs(n - p) <= 2 * Abs(p * n)
         /\ Abs(p) >= 3 /\ Abs(n) >= 3 => 3 * Abs(n - p) <= 2 * Abs(p * n)
<1>1. PICK u \in Nat, v \in Nat : u = Abs(p) /\ v = Abs(n) /\ u > 0 /\ v > 0
  BY AbsTypes
<1>2. PICK b \in Nat : b = u * v
  OBVIOUS
<1>3. Abs(p * n) = b
  BY <1>1, <1>2, AbsOfProduct
<1>4. PICK d \in Nat : d = Abs(n - p) /\ (d = 0 <=> p = n) /\ d <= u + v
  <2>1. Abs(n - p) \in Nat /\ (Abs(n - p) = 0 <=> p = n)
    BY DEF Abs
  <2>2. Abs(n - p) <= Abs(p) + Abs(n)
    BY DEF Abs
  <2>3. QED
    BY <1>1, <2>1, <2>2
<1>5. u <= b /\ v <= b
  <2>1. u * (v - 1) >= 0 /\ (u - 1) * v >= 0
    BY <1>1
  <2>2. u * v = u * (v - 1) + u /\ u * v = (u - 1) * v + v
    BY Z3
  <2>3. QED
    BY <1>2, <2>1, <2>2
<1>6. u >= 3 /\ v >= 3 => 3 * u <= b /\ 3 * v <= b
  <2>1. SUFFICES ASSUME u >= 3, v >= 3 PROVE 3 * u <= b /\ 3 * v <= b
    OBVIOUS
  <2>2. u * (v - 3) >= 0 /\ (u - 3) * v >= 0
    BY <2>1
  <2>3. u * v = u * (v - 3) + 3 * u /\ u * v = (u - 3) * v + 3 * v
    BY Z3
  <2>4. QED
    BY <1>2, <2>2, <2>3
<1>7. b > 0 /\ d <= 2 * b /\ (u >= 3 /\ v >= 3 => 3 * d <= 2 * b)
  BY <1>1, <1>4, <1>5, <1>6
<1>8. QED
  BY <1>1, <1>3, <1>4, <1>7

(* Only equal times make no speed; and none is beyond 50 km/s unless one   *)
(* of the times is within 3 us of 0.                                       *)
LEMMA SpeedOfMeasured ==
  ASSUME NEW p \in Int, NEW n \in Int, p # 0, n # 0, p # NAN, n # NAN
  PROVE  /\ SpeedOf(p, n) \in Finite
         /\ SpeedOf(p, n) = 0 <=> p = n
         /\ ~NearZero(p) /\ ~NearZero(n) => SpeedOf(p, n) \in Moderate
<1>1. PICK b \in Nat : b = Abs(p * n)
  BY DifferenceByProduct
<1>2. PICK d \in Nat : d = Abs(n - p)
  BY DifferenceByProduct
<1>3. /\ b > 0 /\ (d = 0 <=> p = n) /\ d <= 2 * b
      /\ ~NearZero(p) /\ ~NearZero(n) => 3 * d <= 2 * b
  <2>1. ~NearZero(p) /\ ~NearZero(n) => Abs(p) >= 3 /\ Abs(n) >= 3
    BY AbsTypes DEF NearZero
  <2>2. QED
    BY <1>1, <1>2, <2>1, DifferenceByProduct
<1>4. PICK a \in Nat : a = 730000 * d
  BY SMT
<1>5. PICK q \in Nat : q = RoundedUp(a, b)
  <2>1. PICK c \in Nat : c = 1460000
    BY SMT
  <2>2. a <= c * b
    BY <1>3, <1>4, <2>1, SMT
  <2>3. QED
    BY <1>3, <2>2, RoundedUpTypes
<1>6. /\ q <= 1460000 /\ (q = 0 <=> p = n)
      /\ ~NearZero(p) /\ ~NearZero(n) => q <= 486667
  <2>1. PICK c \in Nat : c = 1460000
    BY SMT
  <2>2. PICK e \in Nat : e = 486667
    BY SMT
  <2>3. a <= c * b /\ (3 * d <= 2 * b => a <= e * b) /\ (a = 0 <=> d = 0)
    BY <1>3, <1>4, <2>1, <2>2, SMT
  <2>4. q \in 0..c /\ (q = 0 <=> a = 0)
    BY <1>3, <1>5, <2>3, RoundedUpTypes
  <2>5. 3 * d <= 2 * b => q \in 0..e
    BY <1>3, <1>5, <2>3, RoundedUpTypes
  <2>6. q <= 1460000
    <3>1. q <= c
      BY <2>4
    <3>2. QED
      BY <2>1, <3>1, SMT
  <2>7. q = 0 <=> p = n
    BY <1>3, <2>3, <2>4, Zenon
  <2>8. ASSUME ~NearZero(p), ~NearZero(n) PROVE q <= 486667
    <3>1. q \in 0..e
      BY <1>3, <2>5, <2>8, Zenon
    <3>2. q <= e
      BY <3>1
    <3>3. QED
      BY <2>2, <3>2, SMT
  <2>9. QED
    BY <2>6, <2>7, <2>8
<1>7. PICK g \in {-1, 1} : n # p => Sign(n - p) * Sign(p * n) = g
  <2>1. p * n \in Int /\ p * n # 0
    BY <1>1, <1>3 DEF Abs
  <2>2. Sign(p * n) \in {-1, 1} /\ (n # p => Sign(n - p) \in {-1, 1})
    BY <2>1 DEF Sign
  <2>3. QED
    BY <2>2
<1>8. SpeedOf(p, n) = Sign(n - p) * Sign(p * n) * q
  BY <1>1, <1>2, <1>4, <1>5, SMT DEF SpeedOf
<1>9. SpeedOf(p, n) = q \/ SpeedOf(p, n) = -q
  <2>1. CASE n # p
    BY <1>7, <1>8, <2>1
  <2>2. CASE n = p
    <3>1. q = 0
      BY <1>6, <2>2, SMT
    <3>2. Sign(n - p) \in Int /\ Sign(p * n) \in Int
      BY DEF Sign
    <3>3. QED
      BY <1>8, <3>1, <3>2
  <2>3. QED
    BY <2>1, <2>2
<1>10. QED
  <2>1. PICK z \in Int : z = SpeedOf(p, n) /\ (z = q \/ z = -q)
    BY <1>9
  <2>2. z \in Finite
    BY <1>6, <2>1, SMT DEF Finite
  <2>3. q <= 486667 => z \in Moderate
    BY <2>1, SMT DEF Moderate
  <2>4. z = 0 <=> q = 0
    BY <2>1
  <2>5. ~NearZero(p) /\ ~NearZero(n) => z \in Moderate
    BY <1>6, <2>3, SMT
  <2>6. q = 0 <=> p = n
    BY <1>6, SMT
  <2>7. QED
    BY <2>1, <2>2, <2>4, <2>5, <2>6, Zenon

(* The five kinds of a speed. *)
LEMMA SpeedOfKinds ==
  ASSUME NEW p \in Int, NEW n \in Int
  PROVE  /\ NAN \in {p, n} \/ (p = 0 /\ n = 0) <=> SpeedOf(p, n) = NAN
         /\ p = 0 /\ n # 0 /\ n # NAN <=> SpeedOf(p, n) = INF
         /\ p # 0 /\ p # NAN /\ n = 0 <=> SpeedOf(p, n) = -INF
         /\ SpeedOf(p, n) \in Speeds
<1>1. /\ INF # NAN /\ -INF # NAN /\ -INF # INF /\ 0 # NAN
      /\ INF \notin Finite /\ -INF \notin Finite /\ NAN \notin Finite
  <2>1. PICK i \in Int : i = INF /\ i = 10000000
    BY SMT DEF INF
  <2>2. PICK k \in Int : k = NAN /\ k = 10000001
    BY SMT DEF NAN
  <2>3. i # k /\ -i # k /\ -i # i /\ 0 # k
    BY <2>1, <2>2, SMT
  <2>4. i \notin Finite /\ -i \notin Finite /\ k \notin Finite
    BY <2>1, <2>2, SMT DEF Finite
  <2>5. QED
    BY <2>1, <2>2, <2>3, <2>4, SMT
<1>2. CASE NAN \in {p, n} \/ (p = 0 /\ n = 0)
  <2>1. SpeedOf(p, n) = NAN
    BY <1>2 DEF SpeedOf
  <2>2. QED
    BY <1>1, <1>2, <2>1, Zenon DEF Speeds
<1>3. CASE p = 0 /\ n # 0 /\ n # NAN
  <2>1. SpeedOf(p, n) = INF
    BY <1>1, <1>3 DEF SpeedOf
  <2>2. QED
    BY <1>1, <1>3, <2>1, Zenon DEF Speeds
<1>4. CASE p # 0 /\ p # NAN /\ n = 0
  <2>1. SpeedOf(p, n) = -INF
    BY <1>1, <1>4 DEF SpeedOf
  <2>2. QED
    BY <1>1, <1>4, <2>1, Zenon DEF Speeds
<1>5. CASE p # 0 /\ p # NAN /\ n # 0 /\ n # NAN
  <2>1. SpeedOf(p, n) \in Finite
    BY <1>5, SpeedOfMeasured
  <2>2. QED
    BY <1>1, <1>5, <2>1, Zenon DEF Speeds
<1>6. QED
  BY <1>2, <1>3, <1>4, <1>5, Zenon
-----------------------------------------------------------------------------
LEMMA FourPlaces == IsFiniteSet(1..4) /\ Cardinality(1..4) = 4
<1>1. \A a, b \in Int :
        IsFiniteSet(a..b) /\ Cardinality(a..b) = IF a > b THEN 0 ELSE b - a + 1
  BY FS_Interval
<1>2. 1 \in Int /\ 4 \in Int /\ ~(1 > 4) /\ 4 - 1 + 1 = 4
  OBVIOUS
<1>3. QED
  BY <1>1, <1>2

LEMMA OctantTypes ==
  ASSUME NEW a \in Nat, NEW b \in Nat
  PROVE  Octant(a, b) \in 0..4
<1> DEFINE T == {m \in 1..4 : a * 997 > b * Tangent[m]}
<1>1. T \in SUBSET (1..4)
  OBVIOUS
<1> HIDE DEF T
<1>2. IsFiniteSet(1..4) /\ Cardinality(1..4) = 4
  BY FourPlaces
<1>3. Cardinality(T) \in Nat /\ Cardinality(T) <= 4
  BY <1>1, <1>2, FS_Subset, FS_CardinalityType
<1>4. QED
  BY <1>3 DEF Octant, T

LEMMA QuadrantTypes ==
  ASSUME NEW a \in Nat, NEW b \in Nat
  PROVE  Quadrant(a, b) \in 0..8
BY OctantTypes DEF Quadrant

(* Between 45 degrees and 45 degrees there is no gap and no overlap. *)
LEMMA OctantOfDiagonal ==
  ASSUME NEW a \in Nat, a > 0
  PROVE  Octant(a, a) = 4
<1>1. \A m \in 1..4 : a * 997 > a * Tangent[m]
  <2>1. \A m \in 1..4 : Tangent[m] \in Nat /\ Tangent[m] < 997
    BY DEF Tangent
  <2>2. \A t \in Nat : t < 997 => a * 997 > a * t
    OBVIOUS
  <2>3. QED
    BY <2>1, <2>2
<1> DEFINE T == {m \in 1..4 : a * 997 > a * Tangent[m]}
<1>2. T = 1..4
  BY <1>1
<1>3. Octant(a, a) = Cardinality(T)
  BY DEF Octant
<1> HIDE DEF T
<1>4. QED
  BY <1>2, <1>3, FourPlaces

LEMMA QuadrantMirrored ==
  ASSUME NEW a \in Nat, NEW b \in Nat, a > 0, b > 0
  PROVE  Quadrant(b, a) = 8 - Quadrant(a, b)
<1>1. CASE a = b
  BY <1>1, OctantOfDiagonal DEF Quadrant
<1>2. CASE a < b
  BY <1>2, OctantTypes DEF Quadrant
<1>3. CASE b < a
  BY <1>3, OctantTypes DEF Quadrant
<1>4. QED
  BY <1>1, <1>2, <1>3
-----------------------------------------------------------------------------
(* d is an angle between f and c tens of degrees. *)
Lies(d, f, c) == d # Unknown /\ d.floor = f /\ d.ceiling = c

LEMMA TensLie ==
  ASSUME NEW f \in -9..99, NEW c \in -9..99
  PROVE  Lies(Tens(f, c), f, c)
<1>1. Tens(f, c).floor = f /\ Tens(f, c).ceiling = c
  BY DEF Tens
<1>2. Unknown.floor = 1000
  BY DEF Unknown
<1>3. QED
  BY <1>1, <1>2 DEF Lies

LEMMA DirectionLies ==
  ASSUME NEW x, NEW y, NEW f \in -9..9, NEW c \in -9..9, Lies(Atan(y, x), f, c)
  PROVE  /\ x < 0 => Lies(Direction(x, y), f + 27, c + 27)
         /\ ~(x < 0) => Lies(Direction(x, y), f + 9, c + 9)
<1>1. Atan(y, x) # Unknown /\ Atan(y, x).floor = f /\ Atan(y, x).ceiling = c
  BY DEF Lies
<1>2. \A n : Turned(Atan(y, x), n) = Tens(f + n, c + n)
  BY <1>1, Zenon DEF Turned
<1>3. ASSUME x < 0 PROVE Lies(Direction(x, y), f + 27, c + 27)
  <2>1. Direction(x, y) = Tens(f + 27, c + 27)
    BY <1>1, <1>2, <1>3, Zenon DEF Direction
  <2>2. f + 27 \in -9..99 /\ c + 27 \in -9..99
    OBVIOUS
  <2>3. QED
    BY <2>1, <2>2, TensLie
<1>4. ASSUME ~(x < 0) PROVE Lies(Direction(x, y), f + 9, c + 9)
  <2>1. Direction(x, y) = Tens(f + 9, c + 9)
    BY <1>1, <1>2, <1>4, Zenon DEF Direction
  <2>2. f + 9 \in -9..99 /\ c + 9 \in -9..99
    OBVIOUS
  <2>3. QED
    BY <2>1, <2>2, TensLie
<1>5. QED
  BY <1>3, <1>4

LEMMA FiniteIsNot ==
  ASSUME NEW x \in Finite
  PROVE  /\ x # NAN /\ ~Infinite(x) /\ x \in Int
         /\ Abs(x) \in Nat /\ (x # 0 => Abs(x) > 0)
         /\ Abs(-x) = Abs(x) /\ -x \in Finite
         /\ Sign(x) \in {-1, 0, 1} /\ (x > 0 <=> Sign(x) = 1) /\ (x < 0 <=> Sign(x) = -1)
<1>1. x \in Int /\ -1460000 <= x /\ x <= 1460000
  BY SMT DEF Finite
<1>2. -x \in Int /\ -1460000 <= -x /\ -x <= 1460000
  BY <1>1, SMT
<1>3. -x \in Finite
  BY <1>2, SMT DEF Finite
<1>4. x # NAN
  BY <1>1, SMT DEF NAN
<1>5. ~Infinite(x)
  <2>1. x # INF
    BY <1>1, SMT DEF INF
  <2>2. x # -INF
    BY <1>1, SMT DEF INF
  <2>3. QED
    BY <2>1, <2>2, Zenon DEF Infinite
<1>6. x \in Int
  BY <1>1
<1>7. Abs(x) \in Nat /\ (x # 0 => Abs(x) > 0) /\ Abs(-x) = Abs(x)
  BY <1>6, SMT DEF Abs
<1>8. Sign(x) \in {-1, 0, 1} /\ (x > 0 <=> Sign(x) = 1) /\ (x < 0 <=> Sign(x) = -1)
  BY <1>6, SMT DEF Sign
<1>9. QED
  BY <1>3, <1>4, <1>5, <1>6, <1>7, <1>8, Zenon

(* The eight directions of a wind with finite speeds. *)
LEMMA DirectionOnAxes ==
  ASSUME NEW x \in Finite, NEW y \in Finite
  PROVE  /\ y = 0 /\ x > 0 => Lies(Direction(x, y), 9, 9)
         /\ y = 0 /\ x < 0 => Lies(Direction(x, y), 27, 27)
         /\ x = 0 /\ y > 0 => Lies(Direction(x, y), 18, 18)
         /\ x = 0 /\ y < 0 => Lies(Direction(x, y), 0, 0)
<1>1. x # NAN /\ ~Infinite(x) /\ x \in Int /\ y # NAN /\ ~Infinite(y) /\ y \in Int
  BY FiniteIsNot
<1>2. ASSUME y = 0, x # 0 PROVE Lies(Atan(y, x), 0, 0)
  <2>1. Atan(y, x) = Tens(0, 0)
    BY <1>1, <1>2 DEF Atan
  <2>2. 0 \in -9..99
    OBVIOUS
  <2>3. Lies(Tens(0, 0), 0, 0)
    BY <2>2, TensLie, Zenon
  <2>4. QED
    BY <2>1, <2>3, Zenon
<1>3. ASSUME x = 0, y > 0 PROVE Lies(Atan(y, x), 9, 9)
  <2>1. Atan(y, x) = Tens(9, 9)
    BY <1>1, <1>3 DEF Atan
  <2>2. 9 \in -9..99
    OBVIOUS
  <2>3. Lies(Tens(9, 9), 9, 9)
    BY <2>2, TensLie, Zenon
  <2>4. QED
    BY <2>1, <2>3, Zenon
<1>4. ASSUME x = 0, y < 0 PROVE Lies(Atan(y, x), -9, -9)
  <2>1. Atan(y, x) = Tens(-9, -9)
    BY <1>1, <1>4 DEF Atan
  <2>2. -9 \in -9..99
    OBVIOUS
  <2>3. Lies(Tens(-9, -9), -9, -9)
    BY <2>2, TensLie, Zenon
  <2>4. QED
    BY <2>1, <2>3, Zenon
<1>5. ASSUME y = 0, x > 0 PROVE Lies(Direction(x, y), 9, 9)
  <2>1. Lies(Direction(x, y), 0 + 9, 0 + 9)
    BY <1>1, <1>2, <1>5, DirectionLies
  <2>2. QED
    BY <2>1
<1>6. ASSUME y = 0, x < 0 PROVE Lies(Direction(x, y), 27, 27)
  <2>1. Lies(Direction(x, y), 0 + 27, 0 + 27)
    BY <1>1, <1>2, <1>6, DirectionLies
  <2>2. QED
    BY <2>1
<1>7. ASSUME x = 0, y > 0 PROVE Lies(Direction(x, y), 18, 18)
  <2>1. Lies(Direction(x, y), 9 + 9, 9 + 9)
    BY <1>1, <1>3, <1>7, DirectionLies
  <2>2. QED
    BY <2>1
<1>8. ASSUME x = 0, y < 0 PROVE Lies(Direction(x, y), 0, 0)
  <2>1. Lies(Direction(x, y), -9 + 9, -9 + 9)
    BY <1>1, <1>4, <1>8, DirectionLies
  <2>2. QED
    BY <2>1
<1>9. QED
  BY <1>5, <1>6, <1>7, <1>8

LEMMA DirectionInQuadrants ==
  ASSUME NEW x \in Finite, NEW y \in Finite, x # 0, y # 0,
         NEW q, q = Quadrant(Abs(y), Abs(x))
  PROVE  /\ q \in 0..8
         /\ x > 0 /\ y > 0 => Lies(Direction(x, y), q + 9, q + 10)
         /\ x < 0 /\ y < 0 => Lies(Direction(x, y), q + 27, q + 28)
         /\ x > 0 /\ y < 0 => Lies(Direction(x, y), 8 - q, 9 - q)
         /\ x < 0 /\ y > 0 => Lies(Direction(x, y), 26 - q, 27 - q)
<1>1. /\ x # NAN /\ ~Infinite(x) /\ x \in Int /\ y # NAN /\ ~Infinite(y) /\ y \in Int
      /\ Abs(x) \in Nat /\ Abs(y) \in Nat
  BY FiniteIsNot
<1>2. q \in 0..8
  BY <1>1, QuadrantTypes
<1>3. ASSUME y > 0 <=> x > 0 PROVE Lies(Atan(y, x), q, q + 1)
  <2>1. Atan(y, x) = Tens(q, q + 1)
    BY <1>1, <1>3 DEF Atan
  <2>2. q \in -9..99 /\ q + 1 \in -9..99
    BY <1>2
  <2>3. QED
    BY <2>1, <2>2, TensLie
<1>4. ASSUME ~(y > 0 <=> x > 0) PROVE Lies(Atan(y, x), -q - 1, -q)
  <2>1. Atan(y, x) = Tens(-q - 1, -q)
    BY <1>1, <1>4 DEF Atan
  <2>2. -q - 1 \in -9..99 /\ -q \in -9..99
    BY <1>2
  <2>3. QED
    BY <2>1, <2>2, TensLie
<1>5. q \in -9..9 /\ q + 1 \in -9..9 /\ -q - 1 \in -9..9 /\ -q \in -9..9
  BY <1>2
<1>6. ASSUME x > 0, y > 0 PROVE Lies(Direction(x, y), q + 9, q + 10)
  <2>1. Lies(Direction(x, y), q + 9, q + 1 + 9)
    BY <1>1, <1>3, <1>5, <1>6, DirectionLies
  <2>2. q + 1 + 9 = q + 10
    BY <1>2
  <2>3. QED
    BY <2>1, <2>2
<1>7. ASSUME x < 0, y < 0 PROVE Lies(Direction(x, y), q + 27, q + 28)
  <2>1. Lies(Direction(x, y), q + 27, q + 1 + 27)
    BY <1>1, <1>3, <1>5, <1>7, DirectionLies
  <2>2. q + 1 + 27 = q + 28
    BY <1>2
  <2>3. QED
    BY <2>1, <2>2
<1>8. ASSUME x > 0, y < 0 PROVE Lies(Direction(x, y), 8 - q, 9 - q)
  <2>1. Lies(Direction(x, y), -q - 1 + 9, -q + 9)
    BY <1>1, <1>4, <1>5, <1>8, DirectionLies
  <2>2. -q - 1 + 9 = 8 - q /\ -q + 9 = 9 - q
    BY <1>2
  <2>3. QED
    BY <2>1, <2>2
<1>9. ASSUME x < 0, y > 0 PROVE Lies(Direction(x, y), 26 - q, 27 - q)
  <2>1. Lies(Direction(x, y), -q - 1 + 27, -q + 27)
    BY <1>1, <1>4, <1>5, <1>9, DirectionLies
  <2>2. -q - 1 + 27 = 26 - q /\ -q + 27 = 27 - q
    BY <1>2
  <2>3. QED
    BY <2>1, <2>2
<1>10. QED
  BY <1>2, <1>6, <1>7, <1>8, <1>9

(* A wind of finite speed has a direction below 360 degrees, *)
LEMMA DirectionIsBelow360 ==
  ASSUME NEW x \in Finite, NEW y \in Finite, ~(x = 0 /\ y = 0)
  PROVE  \E f \in 0..35, c \in 0..36 : Lies(Direction(x, y), f, c)
<1>1. x \in Int /\ y \in Int
  BY FiniteIsNot
<1>2. CASE x = 0 \/ y = 0
  <2>1. (y = 0 /\ x > 0) \/ (y = 0 /\ x < 0) \/ (x = 0 /\ y > 0) \/ (x = 0 /\ y < 0)
    BY <1>1, <1>2
  <2>2. \E t \in {0, 9, 18, 27} : Lies(Direction(x, y), t, t)
    BY <2>1, DirectionOnAxes
  <2>3. QED
    BY <2>2
<1>3. CASE x # 0 /\ y # 0
  <2>1. (x > 0 /\ y > 0) \/ (x < 0 /\ y < 0) \/ (x > 0 /\ y < 0) \/ (x < 0 /\ y > 0)
    BY <1>1, <1>3
  <2>2. PICK q \in 0..8 :
          \/ Lies(Direction(x, y), q + 9, q + 10) \/ Lies(Direction(x, y), q + 27, q + 28)
          \/ Lies(Direction(x, y), 8 - q, 9 - q) \/ Lies(Direction(x, y), 26 - q, 27 - q)
    BY <1>3, <2>1, DirectionInQuadrants
  <2>3. /\ q + 9 \in 0..35 /\ q + 27 \in 0..35 /\ 8 - q \in 0..35 /\ 26 - q \in 0..35
        /\ q + 10 \in 0..36 /\ q + 28 \in 0..36 /\ 9 - q \in 0..36 /\ 27 - q \in 0..36
    OBVIOUS
  <2>4. QED
    BY <2>2, <2>3
<1>4. QED
  BY <1>2, <1>3

(* and turned by 90 degrees it has one 90 degrees farther. *)
LEMMA DirectionTurns ==
  ASSUME NEW x \in Finite, NEW y \in Finite, ~(x = 0 /\ y = 0)
  PROVE  /\ Direction(-y, x).floor = (Direction(x, y).floor + 9) % 36
         /\ Direction(-y, x).ceiling - Direction(-y, x).floor
              = Direction(x, y).ceiling - Direction(x, y).floor
<1> DEFINE z == -y
<1>1. /\ x \in Int /\ y \in Int /\ z \in Finite /\ Abs(z) = Abs(y)
      /\ (z > 0 <=> y < 0) /\ (z < 0 <=> y > 0) /\ (z = 0 <=> y = 0)
      /\ Abs(x) \in Nat /\ Abs(y) \in Nat /\ (x # 0 => Abs(x) > 0) /\ (y # 0 => Abs(y) > 0)
  BY FiniteIsNot
<1> HIDE DEF z
<1>2. SUFFICES /\ Direction(z, x).floor = (Direction(x, y).floor + 9) % 36
               /\ Direction(z, x).ceiling - Direction(z, x).floor
                    = Direction(x, y).ceiling - Direction(x, y).floor
  BY DEF z
<1>3. \A d, f, c : Lies(d, f, c) => d.floor = f /\ d.ceiling = c
  BY DEF Lies
<1>4. CASE x = 0 \/ y = 0
  <2>1. (y = 0 /\ x > 0) \/ (y = 0 /\ x < 0) \/ (x = 0 /\ y > 0) \/ (x = 0 /\ y < 0)
    BY <1>1, <1>4
  <2>2. \/ Lies(Direction(x, y), 9, 9) /\ Lies(Direction(z, x), 18, 18)
        \/ Lies(Direction(x, y), 27, 27) /\ Lies(Direction(z, x), 0, 0)
        \/ Lies(Direction(x, y), 18, 18) /\ Lies(Direction(z, x), 27, 27)
        \/ Lies(Direction(x, y), 0, 0) /\ Lies(Direction(z, x), 9, 9)
    BY <1>1, <2>1, DirectionOnAxes
  <2>3. QED
    BY <1>3, <2>2
<1>5. CASE x # 0 /\ y # 0
  <2>1. PICK q : q = Quadrant(Abs(y), Abs(x))
    OBVIOUS
  <2>2. PICK r : r = Quadrant(Abs(x), Abs(z))
    OBVIOUS
  <2>3. q \in 0..8 /\ r = 8 - q
    BY <1>1, <1>5, <2>1, <2>2, QuadrantMirrored, QuadrantTypes
  <2>4. /\ x > 0 /\ y > 0 => Lies(Direction(x, y), q + 9, q + 10)
        /\ x < 0 /\ y < 0 => Lies(Direction(x, y), q + 27, q + 28)
        /\ x > 0 /\ y < 0 => Lies(Direction(x, y), 8 - q, 9 - q)
        /\ x < 0 /\ y > 0 => Lies(Direction(x, y), 26 - q, 27 - q)
    BY <1>5, <2>1, DirectionInQuadrants
  <2>5. /\ z > 0 /\ x > 0 => Lies(Direction(z, x), r + 9, r + 10)
        /\ z < 0 /\ x < 0 => Lies(Direction(z, x), r + 27, r + 28)
        /\ z > 0 /\ x < 0 => Lies(Direction(z, x), 8 - r, 9 - r)
        /\ z < 0 /\ x > 0 => Lies(Direction(z, x), 26 - r, 27 - r)
    BY <1>1, <1>5, <2>2, DirectionInQuadrants
  <2>6. (x > 0 /\ y > 0) \/ (x < 0 /\ y < 0) \/ (x > 0 /\ y < 0) \/ (x < 0 /\ y > 0)
    BY <1>1, <1>5
  <2>7. \/ Lies(Direction(x, y), q + 9, q + 10) /\ Lies(Direction(z, x), 26 - r, 27 - r)
        \/ Lies(Direction(x, y), q + 27, q + 28) /\ Lies(Direction(z, x), 8 - r, 9 - r)
        \/ Lies(Direction(x, y), 8 - q, 9 - q) /\ Lies(Direction(z, x), r + 9, r + 10)
        \/ Lies(Direction(x, y), 26 - q, 27 - q) /\ Lies(Direction(z, x), r + 27, r + 28)
    BY <1>1, <2>4, <2>5, <2>6
  <2>8. QED
    BY <1>3, <2>3, <2>7
<1>6. QED
  BY <1>4, <1>5

(* With one infinite speed the direction is that of its axis. *)
LEMMA InfiniteIsNot ==
  /\ INF # 0 /\ -INF # 0 /\ INF # NAN /\ -INF # NAN /\ INF # -INF
  /\ INF > 0 /\ ~(INF < 0) /\ -INF < 0 /\ ~(-INF > 0) /\ -(-INF) = INF
  /\ Infinite(INF) /\ Infinite(-INF) /\ INF \in Speeds /\ -INF \in Speeds
<1>1. PICK i \in Int : i = INF /\ i = 10000000
  BY SMT DEF INF
<1>2. PICK k \in Int : k = NAN /\ k = 10000001
  BY SMT DEF NAN
<1>3. i > 0 /\ k > 0 /\ i # k
  BY <1>1, <1>2, SMT
<1>4. /\ i # 0 /\ -i # 0 /\ i # k /\ -i # k /\ i # -i /\ -(-i) = i
      /\ ~(i < 0) /\ -i < 0 /\ ~(-i > 0)
  BY <1>3
<1>5. Infinite(i) /\ Infinite(-i) /\ i \in Speeds /\ -i \in Speeds
  <2>1. i = INF
    BY <1>1, SMT
  <2>2. QED
    BY <2>1, Zenon DEF Infinite, Speeds
<1>6. QED
  BY <1>1, <1>2, <1>3, <1>4, <1>5, SMT

LEMMA DirectionInfinite ==
  ASSUME NEW s \in Finite
  PROVE  /\ Lies(Direction(INF, s), 9, 9)
         /\ Lies(Direction(-INF, s), 27, 27)
         /\ Lies(Direction(s, INF), 18, 18)
         /\ s >= 0 => Lies(Direction(s, -INF), 0, 0)
         /\ s < 0 => Lies(Direction(s, -INF), 36, 36)
<1>1. s # NAN /\ ~Infinite(s) /\ s \in Int
  BY FiniteIsNot
<1>2. PICK i : i = -INF
  OBVIOUS
<1>3. PICK j : j = INF
  OBVIOUS
<1>4. /\ i # 0 /\ j # 0 /\ i # NAN /\ j # NAN /\ Infinite(i) /\ Infinite(j)
      /\ j > 0 /\ ~(j < 0) /\ i < 0 /\ ~(i > 0)
  BY <1>2, <1>3, InfiniteIsNot
<1>5. Atan(s, j) = Tens(0, 0) /\ Atan(s, i) = Tens(0, 0)
  BY <1>1, <1>4, Zenon DEF Atan
<1>6. s >= 0 => Atan(j, s) = Tens(9, 9) /\ Atan(i, s) = Tens(-9, -9)
  BY <1>1, <1>4 DEF Atan
<1>7. ~(s >= 0) => Atan(j, s) = Tens(-9, -9) /\ Atan(i, s) = Tens(9, 9)
  BY <1>1, <1>4 DEF Atan
<1>8. Lies(Tens(0, 0), 0, 0) /\ Lies(Tens(9, 9), 9, 9) /\ Lies(Tens(-9, -9), -9, -9)
  <2>1. 0 \in -9..99 /\ 9 \in -9..99 /\ -9 \in -9..99
    OBVIOUS
  <2>2. QED
    BY <2>1, TensLie
<1>9. 0 \in -9..9 /\ 9 \in -9..9 /\ -9 \in -9..9
  OBVIOUS
<1>10. Lies(Direction(j, s), 9, 9)
  <2>1. Lies(Direction(j, s), 0 + 9, 0 + 9)
    BY <1>4, <1>5, <1>8, <1>9, DirectionLies
  <2>2. QED
    BY <2>1
<1>11. Lies(Direction(i, s), 27, 27)
  <2>1. Lies(Direction(i, s), 0 + 27, 0 + 27)
    BY <1>4, <1>5, <1>8, <1>9, DirectionLies
  <2>2. QED
    BY <2>1
<1>12. ASSUME s >= 0 PROVE Lies(Direction(s, j), 18, 18) /\ Lies(Direction(s, i), 0, 0)
  <2>1. ~(s < 0)
    BY <1>1, <1>12
  <2>2. Lies(Direction(s, j), 9 + 9, 9 + 9)
    BY <1>6, <1>8, <1>9, <1>12, <2>1, DirectionLies
  <2>3. Lies(Direction(s, i), -9 + 9, -9 + 9)
    BY <1>6, <1>8, <1>9, <1>12, <2>1, DirectionLies
  <2>4. QED
    BY <2>2, <2>3
<1>13. ASSUME s < 0 PROVE Lies(Direction(s, j), 18, 18) /\ Lies(Direction(s, i), 36, 36)
  <2>1. ~(s >= 0)
    BY <1>1, <1>13
  <2>2. Lies(Direction(s, j), -9 + 27, -9 + 27)
    BY <1>7, <1>8, <1>9, <1>13, <2>1, DirectionLies
  <2>3. Lies(Direction(s, i), 9 + 27, 9 + 27)
    BY <1>7, <1>8, <1>9, <1>13, <2>1, DirectionLies
  <2>4. QED
    BY <2>2, <2>3
<1>14. QED
  BY <1>1, <1>2, <1>3, <1>10, <1>11, <1>12, <1>13

(* Which directions are known. *)
LEMMA DirectionUnknown ==
  ASSUME NEW x \in Speeds, NEW y \in Speeds,
         NAN \in {x, y} \/ (x = 0 /\ y = 0) \/ (Infinite(x) /\ Infinite(y))
  PROVE  Direction(x, y) = Unknown
BY Zenon DEF Direction, Atan

(* A wind has no direction, or one with at most one infinite speed. *)
LEMMA KindsOfWind ==
  ASSUME NEW x \in Speeds, NEW y \in Speeds
  PROVE  \/ NAN \in {x, y} \/ (x = 0 /\ y = 0) \/ (Infinite(x) /\ Infinite(y))
         \/ x \in Finite /\ y \in Finite /\ ~(x = 0 /\ y = 0)
         \/ x \in {INF, -INF} /\ y \in Finite
         \/ x \in Finite /\ y \in {INF, -INF}
BY Zenon DEF Speeds, Infinite

LEMMA AnyDirectionTurns ==
  ASSUME NEW x \in Speeds, NEW y \in Speeds, Direction(x, y) # Unknown
  PROVE  LET turned == Direction(-y, x)
         IN  /\ turned.floor % 36 = (Direction(x, y).floor + 9) % 36
             /\ turned.ceiling - turned.floor = Direction(x, y).ceiling - Direction(x, y).floor
<1> DEFINE d == Direction(x, y)
           e == Direction(-y, x)
<1> HIDE DEF d, e
<1>1. SUFFICES /\ e.floor % 36 = (d.floor + 9) % 36
               /\ e.ceiling - e.floor = d.ceiling - d.floor
  BY DEF d, e
<1>2. \A t, f, c : Lies(t, f, c) => t.floor = f /\ t.ceiling = c
  BY Zenon DEF Lies
<1>3. CASE x \in Finite /\ y \in Finite /\ ~(x = 0 /\ y = 0)
  <2>1. -y \in Finite /\ ~(-y = 0 /\ x = 0)
    BY <1>3, FiniteIsNot
  <2>2. PICK f \in 0..35, c \in 0..36 : Lies(e, f, c)
    BY <1>3, <2>1, DirectionIsBelow360 DEF e
  <2>3. PICK g \in 0..35, h \in 0..36 : Lies(d, g, h)
    BY <1>3, DirectionIsBelow360 DEF d
  <2>4. e.floor = (d.floor + 9) % 36 /\ e.ceiling - e.floor = d.ceiling - d.floor
    BY <1>3, DirectionTurns DEF d, e
  <2>5. e.floor = f /\ d.floor = g
    BY <1>2, <2>2, <2>3, Zenon
  <2>6. f = (g + 9) % 36
    BY <2>4, <2>5
  <2>7. f % 36 = f
    OBVIOUS
  <2>8. QED
    BY <2>4, <2>5, <2>6, <2>7
<1>4. CASE x \in {INF, -INF} /\ y \in Finite
  <2>1. -y \in Finite
    BY <1>4, FiniteIsNot
  <2>2. PICK s \in Finite : s = -y /\ s \in Int
    BY <2>1, FiniteIsNot
  <2>3. x = INF => Lies(d, 9, 9) /\ Lies(e, 18, 18)
    BY <1>4, <2>2, DirectionInfinite DEF d, e
  <2>4. x = -INF => Lies(d, 27, 27) /\ (Lies(e, 0, 0) \/ Lies(e, 36, 36))
    <3>1. s >= 0 \/ s < 0
      BY <2>2
    <3>2. QED
      BY <1>4, <2>2, <3>1, DirectionInfinite DEF d, e
  <2>5. \/ d.floor = 9 /\ d.ceiling = 9 /\ e.floor = 18 /\ e.ceiling = 18
        \/ d.floor = 27 /\ d.ceiling = 27 /\ e.floor = 0 /\ e.ceiling = 0
        \/ d.floor = 27 /\ d.ceiling = 27 /\ e.floor = 36 /\ e.ceiling = 36
    BY <1>2, <1>4, <2>3, <2>4
  <2>6. QED
    BY <2>5
<1>5. CASE x \in Finite /\ y \in {INF, -INF}
  <2>1. x \in Int
    BY <1>5, FiniteIsNot
  <2>2. y = INF => Lies(d, 18, 18) /\ Lies(e, 27, 27)
    BY <1>5, DirectionInfinite DEF d, e
  <2>3. y = -INF => Lies(e, 9, 9) /\ (Lies(d, 0, 0) \/ Lies(d, 36, 36))
    <3>1. x >= 0 \/ x < 0
      BY <2>1
    <3>2. ASSUME y = -INF PROVE Lies(e, 9, 9)
      <4>1. -y = INF
        BY <3>2, InfiniteIsNot
      <4>2. QED
        BY <1>5, <4>1, DirectionInfinite DEF e
    <3>3. QED
      BY <1>5, <3>1, <3>2, DirectionInfinite DEF d
  <2>4. \/ d.floor = 18 /\ d.ceiling = 18 /\ e.floor = 27 /\ e.ceiling = 27
        \/ d.floor = 0 /\ d.ceiling = 0 /\ e.floor = 9 /\ e.ceiling = 9
        \/ d.floor = 36 /\ d.ceiling = 36 /\ e.floor = 9 /\ e.ceiling = 9
    BY <1>2, <1>5, <2>2, <2>3
  <2>5. QED
    BY <2>4
<1>6. QED
  BY <1>3, <1>4, <1>5, KindsOfWind, DirectionUnknown

(* The table is read where it ends unless the direction is not a number or *)
(* one of 360 degrees.                                                     *)
LEMMA PlacesOfSpeeds ==
  ASSUME NEW x \in Speeds, NEW y \in Speeds, direction = Direction(x, y)
  PROVE  Places \subseteq 0..35 <=>
           /\ x # NAN /\ y # NAN /\ ~(x = 0 /\ y = 0)
           /\ ~(Infinite(x) /\ Infinite(y)) /\ ~(y = -INF /\ x < 0)
<1>1. ASSUME NEW f \in 0..36, NEW c \in 0..36, Lies(direction, f, c)
      PROVE  Places \subseteq 0..35 <=> f # 36
  <2>1. angleFloor = f /\ angleCeiling = IF c = 36 THEN 0 ELSE c
    BY <1>1 DEF Lies, angleFloor, angleCeiling
  <2>2. QED
    BY <2>1 DEF Places
<1>2. CASE NAN \in {x, y} \/ (x = 0 /\ y = 0) \/ (Infinite(x) /\ Infinite(y))
  <2>1. direction = Unknown
    BY <1>2, DirectionUnknown
  <2>2. angleFloor = 1000
    BY <2>1 DEF angleFloor, Unknown
  <2>3. ~(Places \subseteq 0..35)
    BY <2>2 DEF Places
  <2>4. QED
    BY <1>2, <2>3, Zenon
<1>3. CASE x \in Finite /\ y \in Finite /\ ~(x = 0 /\ y = 0)
  <2>1. PICK f \in 0..35, c \in 0..36 : Lies(direction, f, c)
    BY <1>3, DirectionIsBelow360
  <2>2. f \in 0..36 /\ f # 36
    OBVIOUS
  <2>3. Places \subseteq 0..35
    BY <1>1, <2>1, <2>2
  <2>4. x # NAN /\ y # NAN /\ ~Infinite(x) /\ ~Infinite(y) /\ y # -INF
    BY <1>3, FiniteIsNot DEF Infinite
  <2>5. QED
    BY <1>3, <2>3, <2>4, Zenon
<1>4. CASE x \in {INF, -INF} /\ y \in Finite
  <2>1. Lies(direction, 9, 9) \/ Lies(direction, 27, 27)
    BY <1>4, DirectionInfinite
  <2>2. 9 \in 0..36 /\ 9 # 36 /\ 27 \in 0..36 /\ 27 # 36
    OBVIOUS
  <2>3. Places \subseteq 0..35
    BY <1>1, <2>1, <2>2
  <2>4. x # NAN /\ x # 0 /\ y # NAN /\ ~Infinite(y) /\ y # -INF
    BY <1>4, FiniteIsNot, InfiniteIsNot DEF Infinite
  <2>5. QED
    BY <2>3, <2>4, Zenon
<1>5. CASE x \in Finite /\ y \in {INF, -INF}
  <2>1. x # NAN /\ ~Infinite(x) /\ y # NAN /\ y # 0 /\ x \in Int
    BY <1>5, FiniteIsNot, InfiniteIsNot
  <2>2. ASSUME y = INF \/ x >= 0 PROVE Places \subseteq 0..35 /\ ~(y = -INF /\ x < 0)
    <3>1. Lies(direction, 18, 18) \/ Lies(direction, 0, 0)
      BY <1>5, <2>2, DirectionInfinite
    <3>2. 18 \in 0..36 /\ 18 # 36 /\ 0 \in 0..36 /\ 0 # 36
      OBVIOUS
    <3>3. Places \subseteq 0..35
      BY <1>1, <3>1, <3>2
    <3>4. ~(y = -INF /\ x < 0)
      BY <2>1, <2>2, InfiniteIsNot
    <3>5. QED
      BY <3>3, <3>4
  <2>3. ASSUME y = -INF, x < 0 PROVE ~(Places \subseteq 0..35)
    <3>1. Lies(direction, 36, 36)
      BY <1>5, <2>3, DirectionInfinite
    <3>2. 36 \in 0..36
      OBVIOUS
    <3>3. QED
      BY <1>1, <3>1, <3>2
  <2>4. x >= 0 \/ x < 0
    BY <2>1
  <2>5. QED
    BY <1>5, <2>1, <2>2, <2>3, <2>4
<1>6. QED
  BY <1>2, <1>3, <1>4, <1>5, KindsOfWind
-----------------------------------------------------------------------------
LEMMA LeastElement ==
  ASSUME NEW S \in SUBSET Nat, S # {}
  PROVE  \E x \in S : \A y \in S : x <= y
<1> DEFINE R == {ss \in Nat \X Nat : ss[1] < ss[2]}
<1>1. IsWellFoundedOn(R, Nat)
  BY NatLessThanWellFounded, Zenon DEF OpToRel
<1>2. PICK x \in S : \A y \in S : ~ (<<y, x>> \in R)
  <2> HIDE DEF R
  <2>1. QED
    BY <1>1, WFMin
<1>3. \A y \in S : ~ (y < x)
  BY <1>2
<1>4. QED
  BY <1>3

LEMMA Squares ==
  ASSUME NEW a \in Nat, NEW b \in Nat, a <= b
  PROVE  a * a \in Nat /\ a * a <= b * b
<1>1. a * a \in Nat /\ a * b \in Nat /\ b * b \in Nat
  OBVIOUS
<1>2. a * a <= a * b
  BY Z3
<1>3. a * b <= b * b
  BY Z3
<1>4. QED
  BY <1>1, <1>2, <1>3

(* A root rounded down is the least number whose successor's square is     *)
(* larger.                                                                 *)
LEMMA RootExists ==
  ASSUME NEW n \in Nat, NEW m \in Nat, n < (m + 1) * (m + 1)
  PROVE  \E s \in 0..m : s * s <= n /\ n < (s + 1) * (s + 1)
<1> DEFINE S == {s \in Nat : n < (s + 1) * (s + 1)}
<1>1. m \in S /\ S \in SUBSET Nat
  OBVIOUS
<1>2. PICK s \in S : \A r \in S : s <= r
  <2> HIDE DEF S
  <2>1. QED
    BY <1>1, LeastElement
<1>3. s \in Nat /\ n < (s + 1) * (s + 1)
  BY <1>2
<1>4. s <= m
  <2> HIDE DEF S
  <2>1. QED
    BY <1>1, <1>2
<1>5. CASE s = 0
  BY <1>3, <1>4, <1>5
<1>6. CASE s > 0
  <2>1. PICK r \in Nat : s = r + 1
    <3>1. s - 1 \in Nat /\ s = (s - 1) + 1
      BY <1>3, <1>6
    <3>2. QED
      BY <3>1
  <2>2. r \notin S
    <3>1. ~(s <= r)
      BY <2>1
    <3> HIDE DEF S
    <3>2. QED
      BY <1>2, <3>1
  <2>3. ~(n < s * s)
    BY <2>1, <2>2
  <2>4. s * s \in Nat
    BY <1>3
  <2>5. s * s <= n
    BY <2>3, <2>4
  <2>6. QED
    BY <1>3, <1>4, <2>5
<1>7. QED
  BY <1>3, <1>5, <1>6

(* A hypotenuse is no longer than the two sides, and its square no larger  *)
(* than theirs together.                                                   *)
LEMMA HypotenuseTypes ==
  ASSUME NEW a \in Nat, NEW b \in Nat
  PROVE  /\ Hypotenuse(a, b) \in Nat /\ Hypotenuse(a, b) <= a + b
         /\ Hypotenuse(a, b) * Hypotenuse(a, b) <= a * a + b * b
<1> DEFINE side == IF a < b THEN b ELSE a
           P(t) == t * t <= a * a + b * b /\ a * a + b * b < (t + 1) * (t + 1)
<1>1. PICK c \in Nat : c = a * a + b * b
  OBVIOUS
<1>2. PICK m \in Nat : m = a + b
  OBVIOUS
<1>3. c < (m + 1) * (m + 1)
  <2>1. (m + 1) * (m + 1) = c + 2 * (a * b) + 2 * a + 2 * b + 1
    BY <1>1, <1>2, Z3
  <2>2. a * b \in Nat
    OBVIOUS
  <2>3. QED
    BY <1>1, <2>1, <2>2
<1>4. PICK s \in 0..m : s * s <= c /\ c < (s + 1) * (s + 1)
  BY <1>1, <1>2, <1>3, RootExists
<1>5. side \in Nat /\ side * side <= c
  <2>1. a * a \in Nat /\ b * b \in Nat
    OBVIOUS
  <2>2. a * a <= c /\ b * b <= c
    BY <1>1, <2>1
  <2>3. QED
    BY <2>2
<1>6. side <= s
  <2>1. SUFFICES ASSUME s + 1 <= side PROVE FALSE
    BY <1>5
  <2>2. s + 1 \in Nat
    OBVIOUS
  <2>3. (s + 1) * (s + 1) <= side * side
    <3> HIDE DEF side
    <3>1. QED
      BY <1>5, <2>1, <2>2, Squares
  <2>4. (s + 1) * (s + 1) \in Nat /\ side * side \in Nat
    <3> HIDE DEF side
    <3>1. QED
      BY <1>5, <2>2
  <2>5. QED
    <3> HIDE DEF side
    <3>1. QED
      BY <1>1, <1>4, <1>5, <2>3, <2>4
<1>7. s \in side..(a + b) /\ P(s)
  <2>1. P(s)
    BY <1>1, <1>4
  <2>2. s \in side..m
    <3> HIDE DEF side, P
    <3>1. QED
      BY <1>5, <1>6
  <2>3. QED
    BY <1>2, <2>1, <2>2
<1>8. Hypotenuse(a, b) = CHOOSE t \in side..(a + b) : P(t)
  BY DEF Hypotenuse
<1>9. Hypotenuse(a, b) \in side..(a + b) /\ P(Hypotenuse(a, b))
  <2> HIDE DEF side, P
  <2>1. QED
    BY <1>7, <1>8, Zenon
<1>10. Hypotenuse(a, b) \in Nat /\ Hypotenuse(a, b) <= a + b
  <2>1. \A t \in side..(a + b) : t \in Nat /\ t <= a + b
    <3> HIDE DEF side
    <3>1. QED
      BY <1>5
  <2> HIDE DEF side, P
  <2>2. QED
    BY <1>9, <2>1, Zenon
<1>11. QED
  BY <1>9, <1>10

(* Speeds on the axes beyond 40000 are taken in hundreds. *)
LEMMA HundredsOf ==
  ASSUME NEW s \in Nat, NEW c \in Nat, s < (c + 1) * 100
  PROVE  s \div 100 \in Nat /\ s \div 100 <= c
<1>1. PICK b \in Nat : b = 100
  OBVIOUS
<1>2. s \div b \in 0..c
  BY <1>1, Quotient
<1>3. QED
  BY <1>1, <1>2

LEMMA SpeedOfWindFinite ==
  ASSUME NEW x \in Finite, NEW y \in Finite
  PROVE  /\ SpeedOfWind(x, y) \in Nat /\ SpeedOfWind(x, y) <= 2920000
         /\ x \in Moderate /\ y \in Moderate => SpeedOfWind(x, y) <= 688100
<1>1. PICK a \in Nat, b \in Nat : a = Abs(x) /\ b = Abs(y)
  BY FiniteIsNot
<1>2. a <= 1460000 /\ b <= 1460000
  BY <1>1, SMT DEF Finite, Abs
<1>3. x \in Moderate /\ y \in Moderate => a <= 486667 /\ b <= 486667
  BY <1>1, SMT DEF Moderate, Abs
<1>4. NAN \notin {x, y} /\ ~Infinite(x) /\ ~Infinite(y)
  BY FiniteIsNot
<1>5. CASE a + b <= 40000
  <2>1. SpeedOfWind(x, y) = Hypotenuse(a, b)
    BY <1>1, <1>4, <1>5, SMT DEF SpeedOfWind
  <2>2. PICK h \in Nat : h = Hypotenuse(a, b) /\ h <= a + b
    BY HypotenuseTypes
  <2>3. h <= 40000
    BY <1>5, <2>2, SMT
  <2>4. h <= 2920000 /\ h <= 688100
    BY <2>3, SMT
  <2>5. QED
    BY <2>1, <2>2, <2>4, SMT
<1>6. CASE ~(a + b <= 40000)
  <2>1. SpeedOfWind(x, y) = 100 * Hypotenuse(a \div 100, b \div 100)
    BY <1>1, <1>4, <1>6, SMT DEF SpeedOfWind
  <2>2. PICK d \in Nat, e \in Nat : d = a \div 100 /\ e = b \div 100 /\ d <= 14600 /\ e <= 14600
    <3>1. PICK c \in Nat : c = 14600
      BY SMT
    <3>2. a < (c + 1) * 100 /\ b < (c + 1) * 100
      BY <1>2, <3>1, SMT
    <3>3. a \div 100 \in Nat /\ a \div 100 <= c /\ b \div 100 \in Nat /\ b \div 100 <= c
      BY <3>2, HundredsOf
    <3>4. QED
      BY <3>1, <3>3, SMT
  <2>3. a <= 486667 /\ b <= 486667 => d <= 4866 /\ e <= 4866
    <3>1. SUFFICES ASSUME a <= 486667, b <= 486667 PROVE d <= 4866 /\ e <= 4866
      BY SMT
    <3>2. PICK c \in Nat : c = 4866
      BY SMT
    <3>3. a < (c + 1) * 100 /\ b < (c + 1) * 100
      BY <3>1, <3>2, SMT
    <3>4. a \div 100 <= c /\ b \div 100 <= c
      BY <3>3, HundredsOf
    <3>5. QED
      BY <2>2, <3>2, <3>4, SMT
  <2>4. PICK h \in Nat : h = Hypotenuse(d, e) /\ h <= d + e /\ h * h <= d * d + e * e
    BY HypotenuseTypes
  <2>5. SpeedOfWind(x, y) = 100 * h
    BY <2>1, <2>2, <2>4
  <2>6. h <= 29200
    BY <2>2, <2>4, SMT
  <2>7. d <= 4866 /\ e <= 4866 => h <= 6881
    <3>1. SUFFICES ASSUME d <= 4866, e <= 4866, 6882 <= h PROVE FALSE
      BY SMT
    <3>2. PICK f \in Nat, g \in Nat : f = 4866 /\ g = 6882
      BY SMT
    <3>3. d * d \in Nat /\ d * d <= f * f /\ e * e \in Nat /\ e * e <= f * f
      BY <3>1, <3>2, Squares
    <3>4. g * g <= h * h /\ g * g \in Nat /\ h * h \in Nat /\ f * f \in Nat
      BY <3>1, <3>2, Squares
    <3>5. g * g <= 2 * (f * f)
      BY <2>4, <3>3, <3>4
    <3>6. ~(g * g <= 2 * (f * f))
      BY <3>2, SMT
    <3>7. QED
      BY <3>5, <3>6
  <2>8. 100 * h \in Nat /\ 100 * h <= 2920000
    BY <2>6, SMT
  <2>9. h <= 6881 => 100 * h <= 688100
    BY SMT
  <2>10. x \in Moderate /\ y \in Moderate => 100 * h <= 688100
    BY <1>3, <2>3, <2>7, <2>9, SMT
  <2>11. QED
    BY <2>5, <2>8, <2>10, SMT
<1>7. QED
  BY <1>5, <1>6, SMT

LEMMA SpeedOfWindTypes ==
  ASSUME NEW x \in Speeds, NEW y \in Speeds
  PROVE  SpeedOfWind(x, y) \in WindSpeeds
<1>1. CASE NAN \in {x, y}
  <2>1. SpeedOfWind(x, y) = NAN
    BY <1>1, SMT DEF SpeedOfWind
  <2>2. QED
    BY <2>1, SMT DEF WindSpeeds
<1>2. CASE NAN \notin {x, y} /\ (Infinite(x) \/ Infinite(y))
  <2>1. SpeedOfWind(x, y) = INF
    BY <1>2, SMT DEF SpeedOfWind
  <2>2. QED
    BY <2>1, SMT DEF WindSpeeds
<1>3. CASE NAN \notin {x, y} /\ ~(Infinite(x) \/ Infinite(y))
  <2>1. x \in Finite /\ y \in Finite
    BY <1>3, Zenon DEF Speeds, Infinite
  <2>2. SpeedOfWind(x, y) \in Nat /\ SpeedOfWind(x, y) <= 2920000
    BY <2>1, SpeedOfWindFinite
  <2>3. QED
    BY <2>2, SMT DEF WindSpeeds
<1>4. QED
  BY <1>1, <1>2, <1>3, Zenon

(* The places of a number below a thousand, and of one below a hundred    *)
(* thousand.                                                               *)
LEMMA ThreeDigits == IsFiniteSet({1, 10, 100}) /\ Cardinality({1, 10, 100}) = 3
<1>1. IsFiniteSet({}) /\ Cardinality({}) = 0
  BY FS_EmptySet
<1>2. IsFiniteSet({} \cup {1}) /\ Cardinality({} \cup {1}) = 1
  BY <1>1, FS_AddElement
<1>3. IsFiniteSet({} \cup {1} \cup {10}) /\ Cardinality({} \cup {1} \cup {10}) = 2
  BY <1>2, FS_AddElement
<1>4. IsFiniteSet({} \cup {1} \cup {10} \cup {100}) /\ Cardinality({} \cup {1} \cup {10} \cup {100}) = 3
  BY <1>3, FS_AddElement
<1>5. {} \cup {1} \cup {10} \cup {100} = {1, 10, 100}
  OBVIOUS
<1>6. QED
  BY <1>4, <1>5

LEMMA FiveDigits ==
  IsFiniteSet({1, 10, 100, 1000, 10000}) /\ Cardinality({1, 10, 100, 1000, 10000}) = 5
<1>1. IsFiniteSet({1, 10, 100} \cup {1000}) /\ Cardinality({1, 10, 100} \cup {1000}) = 4
  BY ThreeDigits, FS_AddElement
<1>2. /\ IsFiniteSet({1, 10, 100} \cup {1000} \cup {10000})
      /\ Cardinality({1, 10, 100} \cup {1000} \cup {10000}) = 5
  BY <1>1, FS_AddElement, SMT
<1>3. {1, 10, 100} \cup {1000} \cup {10000} = {1, 10, 100, 1000, 10000}
  BY SMT
<1>4. QED
  BY <1>2, <1>3, SMT

(* A number with no more than n digits before the last takes two           *)
(* characters more.                                                        *)
LEMMA WidthByDigits ==
  ASSUME NEW t \in Nat, NEW D, NEW n \in Nat, n > 0, IsFiniteSet(D), Cardinality(D) = n,
         {d \in {1, 10, 100, 1000, 10000, 100000} : 10 * d <= t} \subseteq D
  PROVE  Width(t) \in Nat /\ (t < INF => Width(t) <= n + 2)
<1> DEFINE T == {d \in {1, 10, 100, 1000, 10000, 100000} : 10 * d <= t}
<1>1. T \in SUBSET D
  BY SMT
<1>2. Width(t) = IF t >= INF THEN 4 ELSE IF t < 100 THEN 3 ELSE 2 + Cardinality(T)
  BY SMT DEF Width
<1> HIDE DEF T
<1>3. IsFiniteSet(T) /\ Cardinality(T) \in Nat /\ Cardinality(T) <= n
  BY <1>1, FS_Subset, FS_CardinalityType, SMT
<1>4. INF \in Nat
  BY SMT DEF INF
<1>5. QED
  BY <1>2, <1>3, <1>4, SMT

(* What is printed in seven characters at most. *)
Printed == {s \in Nat : s < 1000000} \cup {INF, NAN}

LEMMA NotFinite == INF \in Nat /\ NAN = INF + 1 /\ INF > 4007999
BY SMT DEF INF, NAN

LEMMA WidthTypes ==
  ASSUME NEW t \in Printed
  PROVE  Width(t) \in 0..7 /\ (t <= 3600 \/ t = NAN => Width(t) <= 5)
<1>1. CASE t \in {INF, NAN}
  <2>1. t >= INF
    BY <1>1, NotFinite, SMT
  <2>2. Width(t) = 4
    BY <2>1, SMT DEF Width
  <2>3. QED
    BY <2>2
<1>2. CASE t \notin {INF, NAN}
  <2>1. t \in Nat /\ t < 1000000
    BY <1>2, SMT DEF Printed
  <2>2. t < INF
    BY <2>1, NotFinite, SMT
  <2>3. {d \in {1, 10, 100, 1000, 10000, 100000} : 10 * d <= t} \subseteq {1, 10, 100, 1000, 10000}
    BY <2>1, SMT
  <2>4. Width(t) \in Nat /\ Width(t) <= 5 + 2
    BY <2>1, <2>2, <2>3, FiveDigits, WidthByDigits, SMT
  <2>5. ASSUME t <= 3600 PROVE Width(t) <= 3 + 2
    <3>1. {d \in {1, 10, 100, 1000, 10000, 100000} : 10 * d <= t} \subseteq {1, 10, 100}
      BY <2>1, <2>5, SMT
    <3>2. QED
      BY <2>1, <2>2, <3>1, ThreeDigits, WidthByDigits, SMT
  <2>6. QED
    BY <1>2, <2>4, <2>5, SMT
<1>3. QED
  BY <1>1, <1>2, Zenon

LEMMA ThirdOf ==
  ASSUME NEW s \in Nat, NEW c \in Nat, s < (c + 1) * 3
  PROVE  s \div 3 \in Nat /\ s \div 3 <= c
<1>1. PICK b \in Nat : b = 3
  OBVIOUS
<1>2. s \div b \in 0..c
  BY <1>1, Quotient
<1>3. QED
  BY <1>1, <1>2

LEMMA AverageTypes ==
  ASSUME NEW a \in Printed, NEW b \in Printed
  PROVE  AverageOf(a, b) \in Printed
<1>1. CASE NAN \in {a, b} \/ INF \in {a, b}
  <2>1. AverageOf(a, b) \in {INF, NAN}
    BY <1>1, SMT DEF AverageOf
  <2>2. QED
    BY <2>1, SMT DEF Printed
<1>2. CASE ~(NAN \in {a, b} \/ INF \in {a, b})
  <2>1. a \in Nat /\ a < 1000000 /\ b \in Nat /\ b < 1000000
    BY <1>2, SMT DEF Printed
  <2>2. PICK s \in Nat : s = a + 2 * b
    BY <2>1, SMT
  <2>3. PICK c \in Nat : c = 999999
    BY SMT
  <2>4. s < (c + 1) * 3
    BY <2>1, <2>2, <2>3, SMT
  <2>5. s \div 3 \in Nat /\ s \div 3 <= c
    BY <2>4, ThirdOf
  <2>6. AverageOf(a, b) = s \div 3
    BY <1>2, <2>2, SMT DEF AverageOf
  <2>7. PICK q \in Nat : q = s \div 3 /\ q <= c
    BY <2>5
  <2>8. q < 1000000
    BY <2>3, <2>7, SMT
  <2>9. QED
    BY <2>6, <2>7, <2>8, SMT DEF Printed
<1>3. QED
  BY <1>1, <1>2, Zenon
-----------------------------------------------------------------------------
LEMMA AtanTypes ==
  ASSUME NEW x \in Speeds, NEW y \in Speeds, Atan(y, x) # Unknown
  PROVE  \E f \in -9..9, c \in -9..9 : Atan(y, x) = Tens(f, c)
<1>1. ~(NAN \in {x, y} \/ (x = 0 /\ y = 0) \/ (Infinite(x) /\ Infinite(y)))
  BY DEF Atan
<1>2. CASE y = 0 \/ Infinite(x)
  BY <1>1, <1>2 DEF Atan
<1>3. CASE ~(y = 0 \/ Infinite(x)) /\ (x = 0 \/ Infinite(y))
  <2>1. Atan(y, x) = Tens(9, 9) \/ Atan(y, x) = Tens(-9, -9)
    BY <1>1, <1>3 DEF Atan
  <2>2. QED
    BY <2>1
<1>4. CASE ~(y = 0 \/ Infinite(x)) /\ ~(x = 0 \/ Infinite(y))
  <2>1. x \in Finite /\ y \in Finite
    BY <1>1, <1>4 DEF Speeds, Infinite
  <2>2. PICK q : q = Quadrant(Abs(y), Abs(x))
    OBVIOUS
  <2>3. q \in 0..8
    BY <2>1, <2>2, FiniteIsNot, QuadrantTypes
  <2>4. Atan(y, x) = Tens(q, q + 1) \/ Atan(y, x) = Tens(-q - 1, -q)
    BY <1>1, <1>4, <2>2 DEF Atan
  <2>5. q \in -9..9 /\ q + 1 \in -9..9 /\ -q - 1 \in -9..9 /\ -q \in -9..9
    BY <2>3
  <2>6. QED
    BY <2>4, <2>5
<1>5. QED
  BY <1>2, <1>3, <1>4

LEMMA DirectionTypes ==
  ASSUME NEW x \in Speeds, NEW y \in Speeds
  PROVE  Direction(x, y) = Unknown \/ Direction(x, y) \in Known
<1>1. CASE Atan(y, x) = Unknown
  BY <1>1 DEF Direction
<1>2. CASE Atan(y, x) # Unknown
  <2>1. PICK f \in -9..9, c \in -9..9 : Atan(y, x) = Tens(f, c)
    BY <1>2, AtanTypes
  <2>2. Atan(y, x).floor = f /\ Atan(y, x).ceiling = c
    BY <2>1 DEF Tens
  <2>3. \/ Direction(x, y) = Tens(f + 27, c + 27)
        \/ Direction(x, y) = Tens(f + 9, c + 9)
    BY <1>2, <2>2, Zenon DEF Direction, Turned
  <2>4. f + 27 \in 0..36 /\ c + 27 \in 0..36 /\ f + 9 \in 0..36 /\ c + 9 \in 0..36
    OBVIOUS
  <2>5. \A m, n \in 0..36 : Tens(m, n) \in Known
    BY DEF Tens, Known
  <2>6. QED
    BY <2>3, <2>4, <2>5
<1>3. QED
  BY <1>1, <1>2

LEMMA LutTypes ==
  ASSUME NEW n \in 0..35
  PROVE  Lut(n) \in 102..132
<1>1. \A m \in 1..36 : correctionLut[m] \in 102..132
  BY DEF correctionLut
<1>2. n + 1 \in 1..36
  OBVIOUS
<1>3. QED
  BY <1>1, <1>2 DEF Lut

LEMMA WeighedTypes ==
  ASSUME NEW w \in 1..9, Places \subseteq 0..35
  PROVE  Weighed(w) \in Nat /\ Weighed(w) >= 1020
<1>1. Lut(angleFloor) \in 102..132 /\ Lut(angleCeiling) \in 102..132
  BY LutTypes DEF Places
<1>2. PICK l \in 102..132, m \in 102..132 : l = Lut(angleFloor) /\ m = Lut(angleCeiling)
  BY <1>1
<1>3. Weighed(w) = 10 * (l + m) \/ Weighed(w) = (10 - w) * l + w * m
  BY <1>2 DEF Weighed
<1>4. (10 - w) * l >= (10 - w) * 102 /\ w * m >= w * 102 /\ (10 - w) * l \in Nat /\ w * m \in Nat
  BY Z3
<1>5. QED
  BY <1>3, <1>4

LEMMA Rescaled ==
  ASSUME NEW s \in Nat, NEW c \in Nat, NEW k \in Nat, c > 0, 1400 * s < (k + 1) * c
  PROVE  /\ 1400 * (s \div c) + (1400 * (s % c)) \div c \in Nat
         /\ 1400 * (s \div c) + (1400 * (s % c)) \div c <= k
<1>1. PICK q \in Nat, r \in Nat : q = s \div c /\ r = s % c /\ s = c * q + r
  BY Z3
<1>2. PICK p \in Nat : p = 1400 * q
  BY SMT
<1>3. p * c + 1400 * r < (k + 1) * c
  <2>1. 1400 * (c * q) = p * c
    BY <1>2, SMT
  <2>2. QED
    BY <1>1, <2>1, SMT
<1>4. p < k + 1
  <2>1. SUFFICES ASSUME p >= k + 1 PROVE FALSE
    BY <1>2
  <2>2. PICK d \in Nat : p = k + 1 + d
    <3>1. p - k - 1 \in Nat
      BY <1>2, <2>1
    <3>2. p = k + 1 + (p - k - 1)
      BY <1>2
    <3>3. QED
      BY <3>1, <3>2
  <2>3. p * c = (k + 1) * c + d * c /\ d * c \in Nat
    BY <2>2
  <2>4. 1400 * r \in Nat
    BY SMT
  <2>5. (k + 1) * c \in Nat
    OBVIOUS
  <2>6. QED
    BY <1>3, <2>3, <2>4, <2>5, SMT
<1>5. PICK e \in Nat : k = p + e
  <2>1. k - p \in Nat /\ k = p + (k - p)
    BY <1>2, <1>4
  <2>2. QED
    BY <2>1
<1>6. PICK f \in Nat : f = 1400 * r
  BY SMT
<1>7. f < (e + 1) * c
  <2>1. (k + 1) * c = p * c + (e + 1) * c
    BY <1>5
  <2>2. p * c \in Nat /\ (e + 1) * c \in Nat
    OBVIOUS
  <2>3. QED
    BY <1>3, <1>6, <2>1, <2>2, SMT
<1>8. f \div c \in 0..e
  BY <1>7, Quotient
<1>9. QED
  BY <1>1, <1>2, <1>5, <1>6, <1>8

(* A speed of less than 70 km/s is corrected to one of less than 100. *)
CorrectionBounded(w) ==
  speed \in Nat /\ speed <= 2920000 =>
    /\ CorrectedSpeed(w) \in Nat /\ CorrectedSpeed(w) <= 4007999
    /\ speed <= 688100 => CorrectedSpeed(w) <= 999999

LEMMA CorrectedSpeedTypes ==
  ASSUME NEW w \in 1..9, Places \subseteq 0..35
  PROVE  CorrectionBounded(w)
<1>1. PICK c \in Nat : c = Weighed(w) /\ c >= 1020
  BY WeighedTypes
<1> SUFFICES ASSUME speed \in Nat, speed <= 2920000
             PROVE  /\ CorrectedSpeed(w) \in Nat /\ CorrectedSpeed(w) <= 4007999
                    /\ speed <= 688100 => CorrectedSpeed(w) <= 999999
  BY SMT DEF CorrectionBounded
<1>2. speed # INF
  BY NotFinite, SMT
<1>3. CorrectedSpeed(w) = 1400 * (speed \div c) + (1400 * (speed % c)) \div c
  BY <1>1, <1>2, SMT DEF CorrectedSpeed
<1>4. PICK k \in Nat, m \in Nat : k = 4007999 /\ m = 999999
  BY SMT
<1>5. 1400 * speed < (k + 1) * c
  <2>1. 4008000 * c >= 4008000 * 1020
    BY <1>1, SMT
  <2>2. QED
    BY <1>4, <2>1, SMT
<1>6. speed <= 688100 => 1400 * speed < (m + 1) * c
  <2>1. 1000000 * c >= 1000000 * 1020
    BY <1>1, SMT
  <2>2. QED
    BY <1>4, <2>1, SMT
<1>7. c > 0
  BY <1>1, SMT
<1>8. CorrectedSpeed(w) \in Nat /\ CorrectedSpeed(w) <= k
  BY <1>3, <1>5, <1>7, Rescaled, SMT
<1>9. speed <= 688100 => CorrectedSpeed(w) <= m
  BY <1>3, <1>6, <1>7, Rescaled, SMT
<1>10. QED
  BY <1>4, <1>8, <1>9, SMT
-----------------------------------------------------------------------------
CorrectedSpeeds == {s \in Nat : s <= 4007999} \cup {INF, NAN}

(* What the functions hand on from one to the next. *)
Typed ==
  /\ pc \in {"measure", "calculate", "correct", "send", "delay"}
  /\ times \in [1..4 -> Times \cup {0}]
  /\ xSpeed \in Speeds /\ ySpeed \in Speeds
  /\ direction = Unknown \/ direction \in Known
  /\ speed \in WindSpeeds
  /\ correctedSpeed \in CorrectedSpeeds
  /\ earlier \in Earlier \cup {0}

(* The wind is that of the speeds, and those are that of the times. *)
Computed ==
  pc = "correct" =>
    /\ xSpeed = SpeedOf(times[1], times[2])
    /\ ySpeed = SpeedOf(times[3], times[4])
    /\ direction = Direction(xSpeed, ySpeed)
    /\ speed = SpeedOfWind(xSpeed, ySpeed)

(* No time near 0 and no storm before, and so no speed of more characters than there is space. *)
NoneNearZero == \A n \in 1..4 : ~NearZero(times[n])

Fast(s) == s \in 1000000..(INF - 1)

ModerateKept == pc = "send" /\ NoneNearZero => correctedSpeed \in Printed

Short ==
  /\ pc # "delay" => sentence.length = 0
  /\ sentence.length \in 0..29 \/ ~NoneNearZero \/ Fast(earlier)

Inv == Typed /\ Computed /\ ModerateKept /\ Short

LEMMA TypesOfInputs ==
  /\ \A t \in Times \cup {0} : t \in Int
  /\ \A s \in Earlier \cup {0} : s \in 0..NAN
  /\ Weights \subseteq 1..9
<1>1. 0 \in 0..NAN
  BY NotFinite, SMT
<1>2. QED
  BY <1>1, ReportAssumption DEF ReportAssumption

LEMMA NothingYet ==
  /\ 0 \in Speeds /\ 0 \in WindSpeeds /\ 0 \in CorrectedSpeeds
  /\ 0 \in Printed /\ NotSent.length = 0
BY SMT DEF Speeds, Finite, WindSpeeds, CorrectedSpeeds, Printed, NotSent

LEMMA TimesAreInts ==
  ASSUME Inv
  PROVE  times[1] \in Int /\ times[2] \in Int /\ times[3] \in Int /\ times[4] \in Int
<1>1. \A n \in 1..4 : times[n] \in Times \cup {0}
  BY DEF Inv, Typed
<1>2. \A n \in 1..4 : times[n] \in Int
  BY <1>1, TypesOfInputs, Zenon
<1>3. QED
  BY <1>2

LEMMA MeasureInv == Inv /\ Measure => Inv'
<1> SUFFICES ASSUME Inv, Measure PROVE Inv'
  OBVIOUS
<1>1. Typed'
  <2>1. times' \in [1..4 -> Times \cup {0}]
    BY DEF Measure
  <2>2. QED
    BY <2>1, Zenon DEF Inv, Typed, Measure
<1>2. Computed' /\ ModerateKept'
  BY DEF Computed, ModerateKept, Measure
<1>3. Short'
  BY SMT DEF Inv, Short, Measure
<1>4. QED
  BY <1>1, <1>2, <1>3 DEF Inv

LEMMA CalculateWindInv == Inv /\ CalculateWind => Inv'
<1> SUFFICES ASSUME Inv, CalculateWind PROVE Inv'
  OBVIOUS
<1>1. times[1] \in Int /\ times[2] \in Int /\ times[3] \in Int /\ times[4] \in Int
  BY TimesAreInts
<1>2. PICK x \in Speeds, y \in Speeds :
        x = SpeedOf(times[1], times[2]) /\ y = SpeedOf(times[3], times[4])
  BY <1>1, SpeedOfKinds
<1>3. x = xSpeed' /\ y = ySpeed' /\ direction' = Direction(x, y) /\ speed' = SpeedOfWind(x, y)
  BY <1>2, Zenon DEF CalculateWind
<1>4. Direction(x, y) = Unknown \/ Direction(x, y) \in Known
  BY DirectionTypes
<1>5. SpeedOfWind(x, y) \in WindSpeeds
  BY SpeedOfWindTypes
<1>6. Typed'
  BY <1>3, <1>4, <1>5, Zenon DEF Inv, Typed, CalculateWind
<1>7. Computed' /\ ModerateKept'
  BY DEF CalculateWind, Computed, ModerateKept
<1>8. Short'
  BY SMT DEF Inv, Short, CalculateWind, NoneNearZero
<1>9. QED
  BY <1>6, <1>7, <1>8 DEF Inv

LEMMA ModerateSpeed ==
  ASSUME NEW p \in Int, NEW n \in Int, SpeedOf(p, n) \in Finite, ~NearZero(p), ~NearZero(n)
  PROVE  SpeedOf(p, n) \in Moderate
<1>1. /\ SpeedOf(p, n) # NAN /\ SpeedOf(p, n) # INF /\ SpeedOf(p, n) # -INF
  BY FiniteIsNot, Zenon DEF Infinite
<1>2. p # 0 /\ n # 0 /\ p # NAN /\ n # NAN
  BY <1>1, SpeedOfKinds, Zenon
<1>3. QED
  BY <1>2, SpeedOfMeasured, Zenon

LEMMA NotFinitePrinted == {INF, NAN} \subseteq CorrectedSpeeds /\ {INF, NAN} \subseteq Printed
BY SMT DEF CorrectedSpeeds, Printed

LEMMA CorrectInv ==
  ASSUME NEW w \in Weights
  PROVE  Inv /\ Correct(w) => Inv'
<1> SUFFICES ASSUME Inv, Correct(w) PROVE Inv'
  OBVIOUS
<1>1. w \in 1..9
  BY TypesOfInputs
<1>2. PICK x \in Speeds, y \in Speeds : x = xSpeed /\ y = ySpeed
  BY DEF Inv, Typed
<1>3. /\ x = SpeedOf(times[1], times[2]) /\ y = SpeedOf(times[3], times[4])
      /\ direction = Direction(x, y) /\ speed = SpeedOfWind(x, y)
  BY <1>2, Zenon DEF Inv, Computed, Correct
<1>4. correctedSpeed' \in CorrectedSpeeds /\ (NoneNearZero => correctedSpeed' \in Printed)
  <2>1. CASE ~(Places \subseteq 0..35)
    <3>1. correctedSpeed' \in {INF, NAN}
      BY <2>1, Zenon DEF Correct
    <3>2. QED
      BY <3>1, NotFinitePrinted, Zenon
  <2>2. CASE Places \subseteq 0..35
    <3>1. x # NAN /\ y # NAN
      BY <1>3, <2>2, PlacesOfSpeeds
    <3>2. direction # Unknown
      <4>1. angleFloor \in 0..35
        BY <2>2, Zenon DEF Places
      <4>2. QED
        BY <4>1 DEF angleFloor, Unknown
    <3>3. correctedSpeed' = CorrectedSpeed(w)
      BY <2>2, <3>2, Zenon DEF Correct
    <3>4. CASE Infinite(x) \/ Infinite(y)
      <4>1. speed = INF
        BY <1>3, <3>1, <3>4, SMT DEF SpeedOfWind
      <4>2. CorrectedSpeed(w) = INF
        BY <4>1, Zenon DEF CorrectedSpeed
      <4>3. QED
        BY <3>3, <4>2, NotFinitePrinted, Zenon
    <3>5. CASE ~(Infinite(x) \/ Infinite(y))
      <4>1. x \in Finite /\ y \in Finite
        BY <3>1, <3>5, Zenon DEF Speeds, Infinite
      <4>2. /\ speed \in Nat /\ speed <= 2920000
            /\ x \in Moderate /\ y \in Moderate => speed <= 688100
        <5>1. /\ SpeedOfWind(x, y) \in Nat /\ SpeedOfWind(x, y) <= 2920000
              /\ x \in Moderate /\ y \in Moderate => SpeedOfWind(x, y) <= 688100
          BY <4>1, SpeedOfWindFinite, SMT
        <5>2. QED
          BY <1>3, <5>1, SMT
      <4>3. /\ CorrectedSpeed(w) \in Nat /\ CorrectedSpeed(w) <= 4007999
            /\ speed <= 688100 => CorrectedSpeed(w) <= 999999
        <5>1. CorrectionBounded(w)
          BY <1>1, <2>2, CorrectedSpeedTypes, Zenon
        <5>2. QED
          BY <4>2, <5>1, SMT DEF CorrectionBounded
      <4>4. NoneNearZero => x \in Moderate /\ y \in Moderate
        <5>1. SUFFICES ASSUME NoneNearZero PROVE x \in Moderate /\ y \in Moderate
          OBVIOUS
        <5>2. ~NearZero(times[1]) /\ ~NearZero(times[2]) /\ ~NearZero(times[3]) /\ ~NearZero(times[4])
          BY <5>1 DEF NoneNearZero
        <5>3. QED
          BY <1>3, <4>1, <5>2, TimesAreInts, ModerateSpeed
      <4>5. CorrectedSpeed(w) \in CorrectedSpeeds
        BY <4>3, SMT DEF CorrectedSpeeds
      <4>6. NoneNearZero => CorrectedSpeed(w) \in Printed
        <5>1. NoneNearZero => CorrectedSpeed(w) <= 999999
          BY <4>2, <4>3, <4>4, SMT
        <5>2. QED
          BY <4>3, <5>1, SMT DEF Printed
      <4>7. QED
        BY <3>3, <4>5, <4>6, Zenon
    <3>6. QED
      BY <3>4, <3>5
  <2>3. QED
    BY <2>1, <2>2
<1>5. Typed'
  BY <1>4, Zenon DEF Inv, Typed, Correct
<1>6. Computed'
  BY DEF Correct, Computed
<1>7. ModerateKept'
  BY <1>4, Zenon DEF Correct, ModerateKept, NoneNearZero
<1>8. Short'
  BY SMT DEF Inv, Short, Correct
<1>9. QED
  BY <1>5, <1>6, <1>7, <1>8 DEF Inv

LEMMA SendInv ==
  ASSUME NEW before \in Earlier
  PROVE  Inv /\ Send(before) => Inv'
<1> SUFFICES ASSUME Inv, Send(before) PROVE Inv'
  OBVIOUS
<1>1. Typed'
  <2>1. earlier' = before
    BY DEF Send
  <2>2. QED
    BY <2>1, Zenon DEF Inv, Typed, Send
<1>2. ASSUME NEW angle \in Printed, NEW average \in Printed,
             angle <= 3600 \/ angle = NAN, SendNmeaWindData(angle, average)
      PROVE  sentence'.length \in 0..29
  <2>1. sentence'.length = 7 + Width(angle) + 3 + Width(average) + 2 + 2 + 3
    BY <1>2, SMT DEF SendNmeaWindData
  <2>2. PICK a \in Nat, b \in Nat : a = Width(angle) /\ b = Width(average) /\ a <= 5 /\ b <= 7
    BY <1>2, WidthTypes
  <2>3. QED
    BY <2>1, <2>2
<1>3. ASSUME NoneNearZero, ~Fast(before)
      PROVE  sentence'.length \in 0..29
  <2>1. correctedSpeed \in Printed
    BY <1>3, Zenon DEF Inv, ModerateKept, Send
  <2>2. before \in Printed
    <3>1. before \in 0..NAN
      BY TypesOfInputs, SMT
    <3>2. before \in Nat /\ before <= INF + 1
      BY <3>1, NotFinite, SMT
    <3>3. before < 1000000 \/ before > INF - 1
      BY <1>3, <3>2, NotFinite, SMT DEF Fast
    <3>4. before < 1000000 \/ before = INF \/ before = NAN
      BY <3>2, <3>3, NotFinite, SMT
    <3>5. QED
      BY <3>2, <3>4, SMT DEF Printed
  <2>3. AverageOf(correctedSpeed, before) \in Printed
    BY <2>1, <2>2, AverageTypes, Zenon
  <2>4. CASE Low
    <3>1. SendNmeaWindData(0, 0)
      BY <2>4, Zenon DEF Send
    <3>2. 0 \in Printed /\ 0 <= 3600
      BY NothingYet, SMT
    <3>3. QED
      BY <1>2, <3>1, <3>2, SMT
  <2>5. CASE ~Low /\ direction = Unknown
    <3>1. SendNmeaWindData(NAN, AverageOf(correctedSpeed, before))
      BY <2>5, SMT DEF Send
    <3>2. NAN \in Printed
      BY NotFinitePrinted
    <3>3. QED
      BY <1>2, <2>3, <3>1, <3>2, SMT
  <2>6. CASE ~Low /\ direction # Unknown
    <3>1. SendNmeaWindData(100 * direction.ceiling, AverageOf(correctedSpeed, before))
      BY <2>6, SMT DEF Send
    <3>2. direction.ceiling \in 0..36
      BY <2>6 DEF Inv, Typed, Known
    <3>3. 100 * direction.ceiling \in Nat /\ 100 * direction.ceiling <= 3600
      BY <3>2
    <3>4. 100 * direction.ceiling \in Printed
      BY <3>3, SMT DEF Printed
    <3>5. QED
      BY <1>2, <2>3, <3>1, <3>3, <3>4, SMT
  <2>7. QED
    BY <2>4, <2>5, <2>6, Zenon
<1>4. Short'
  <2>1. pc' = "delay" /\ earlier' = before /\ times' = times
    BY DEF Send
  <2>2. NoneNearZero' <=> NoneNearZero
    BY <2>1 DEF NoneNearZero
  <2>3. sentence'.length \in 0..29 \/ ~NoneNearZero' \/ Fast(earlier')
    BY <1>3, <2>1, <2>2, Zenon
  <2>4. QED
    BY <2>1, <2>3, SMT DEF Short
<1>5. Computed' /\ ModerateKept'
  BY DEF Send, Computed, ModerateKept
<1>6. QED
  BY <1>1, <1>4, <1>5 DEF Inv

LEMMA InitInv == Init => Inv
<1> SUFFICES ASSUME Init PROVE Inv
  OBVIOUS
<1>1. Typed
  <2>1. times \in [1..4 -> Times \cup {0}]
    BY DEF Init
  <2>2. QED
    BY <2>1, NothingYet, Zenon DEF Init, Typed
<1>2. Computed /\ ModerateKept
  BY DEF Init, Computed, ModerateKept
<1>3. Short
  BY NothingYet, SMT DEF Init, Short
<1>4. QED
  BY <1>1, <1>2, <1>3 DEF Inv

LEMMA DelayInv == Delay => Inv'
<1> SUFFICES ASSUME Delay PROVE Inv'
  OBVIOUS
<1>1. Typed'
  <2>1. times' \in [1..4 -> Times \cup {0}]
    BY DEF Delay
  <2>2. QED
    BY <2>1, NothingYet, Zenon DEF Delay, Typed
<1>2. Computed' /\ ModerateKept'
  BY DEF Delay, Computed, ModerateKept
<1>3. Short'
  BY NothingYet, SMT DEF Delay, Short
<1>4. QED
  BY <1>1, <1>2, <1>3 DEF Inv

LEMMA NextInv == Inv /\ [Next]_vars => Inv'
<1> SUFFICES ASSUME Inv, [Next]_vars PROVE Inv'
  OBVIOUS
<1>1. CASE Measure
  BY <1>1, MeasureInv
<1>2. CASE CalculateWind
  BY <1>2, CalculateWindInv
<1>3. CASE Delay
  BY <1>3, DelayInv
<1>4. ASSUME NEW w \in Weights, Correct(w) PROVE Inv'
  BY <1>4, CorrectInv
<1>5. ASSUME NEW before \in Earlier, Send(before) PROVE Inv'
  BY <1>5, SendInv
<1>6. CASE UNCHANGED vars
  <2>1. Typed' /\ Computed' /\ ModerateKept'
    BY <1>6, Zenon DEF vars, Inv, Typed, Computed, ModerateKept, NoneNearZero
  <2>2. Short'
    BY <1>6, Zenon DEF vars, Inv, Short, NoneNearZero
  <2>3. QED
    BY <2>1, <2>2 DEF Inv
<1>7. QED
  BY <1>1, <1>2, <1>3, <1>4, <1>5, <1>6 DEF Next

LEMMA SpecInv == Spec => []Inv
BY InitInv, NextInv, PTL DEF Spec
-----------------------------------------------------------------------------
(* Every variable has its type: numbers that are not finite stay apart     *)
(* from those that are, whatever the times and the rounds before.          *)
THEOREM TypeCorrect == Spec => []TypeOK
<1>1. Inv => TypeOK
  <2>1. ASSUME NEW s \in Speeds PROVE s \in -INF..NAN
    <3>1. CASE s \in Finite
      <4>1. s \in Int /\ -4007999 <= s /\ s <= 4007999
        BY <3>1, SMT DEF Finite
      <4>2. QED
        BY <4>1, NotFinite, SMT
    <3>2. CASE s = INF \/ s = NAN
      BY <3>2, NotFinite, SMT
    <3>3. CASE s = -INF
      BY <3>3, NotFinite, SMT
    <3>4. QED
      BY <3>1, <3>2, <3>3, SMT DEF Speeds
  <2>2. ASSUME NEW s \in WindSpeeds \cup CorrectedSpeeds PROVE s \in 0..NAN
    <3>1. CASE s = INF \/ s = NAN
      BY <3>1, NotFinite, SMT
    <3>2. CASE ~(s = INF \/ s = NAN)
      <4>1. s \in Nat /\ s <= 4007999
        BY <3>2, SMT DEF WindSpeeds, CorrectedSpeeds
      <4>2. QED
        BY <4>1, NotFinite, SMT
    <3>3. QED
      BY <3>1, <3>2
  <2>3. QED
    BY <2>1, <2>2, Zenon DEF Inv, Typed, TypeOK, Known
<1>2. QED
  BY <1>1, SpecInv, PTL

(* Which times make AngleSpeedCorrection read its table where it ends, and *)
(* which outside, for all times, those that are not numbers included.      *)
THEOREM PlacesAreInTable == Spec => []PlacesInTable
<1>1. ASSUME Inv, pc = "correct"
      PROVE  Places \subseteq 0..35 <=>
               /\ \A n \in 1..4 : times[n] # NAN
               /\ \/ Zeros = {} /\ ~Calm
                  \/ \E n \in 1..4 : Zeros = {n} /\ (n = 4 => xSpeed >= 0)
  <2>1. PICK a \in Int, b \in Int, c \in Int, d \in Int :
          a = times[1] /\ b = times[2] /\ c = times[3] /\ d = times[4]
    BY <1>1, TimesAreInts
  <2>2. PICK x \in Speeds, y \in Speeds : x = xSpeed /\ y = ySpeed
    BY <1>1 DEF Inv, Typed
  <2>3. x = SpeedOf(a, b) /\ y = SpeedOf(c, d) /\ direction = Direction(x, y)
    BY <1>1, <2>1, <2>2 DEF Inv, Computed
  <2>4. (\A n \in 1..4 : times[n] # NAN) <=> a # NAN /\ b # NAN /\ c # NAN /\ d # NAN
    BY <2>1
  <2>5. Zeros = {} <=> a # 0 /\ b # 0 /\ c # 0 /\ d # 0
    BY <2>1 DEF Zeros
  <2>6. (\E n \in 1..4 : Zeros = {n} /\ (n = 4 => xSpeed >= 0)) <=>
          \/ a = 0 /\ b # 0 /\ c # 0 /\ d # 0
          \/ a # 0 /\ b = 0 /\ c # 0 /\ d # 0
          \/ a # 0 /\ b # 0 /\ c = 0 /\ d # 0
          \/ a # 0 /\ b # 0 /\ c # 0 /\ d = 0 /\ x >= 0
    <3>1. \A n \in 1..4 : Zeros = {n} <=> times[n] = 0 /\ \A m \in 1..4 : m # n => times[m] # 0
      BY DEF Zeros
    <3>2. /\ Zeros = {1} <=> a = 0 /\ b # 0 /\ c # 0 /\ d # 0
          /\ Zeros = {2} <=> a # 0 /\ b = 0 /\ c # 0 /\ d # 0
          /\ Zeros = {3} <=> a # 0 /\ b # 0 /\ c = 0 /\ d # 0
          /\ Zeros = {4} <=> a # 0 /\ b # 0 /\ c # 0 /\ d = 0
      BY <2>1, <3>1
    <3>3. (\E n \in 1..4 : Zeros = {n} /\ (n = 4 => x >= 0)) <=>
            Zeros = {1} \/ Zeros = {2} \/ Zeros = {3} \/ (Zeros = {4} /\ x >= 0)
      OBVIOUS
    <3>4. QED
      BY <2>2, <3>2, <3>3
  <2>7. Calm <=> a = b /\ c = d
    BY <2>1 DEF Calm
  <2>8. /\ NAN \in {a, b} \/ (a = 0 /\ b = 0) <=> x = NAN
        /\ a = 0 /\ b # 0 /\ b # NAN <=> x = INF
        /\ a # 0 /\ a # NAN /\ b = 0 <=> x = -INF
    BY <2>3, SpeedOfKinds, Zenon
  <2>9. /\ NAN \in {c, d} \/ (c = 0 /\ d = 0) <=> y = NAN
        /\ c = 0 /\ d # 0 /\ d # NAN <=> y = INF
        /\ c # 0 /\ c # NAN /\ d = 0 <=> y = -INF
    BY <2>3, SpeedOfKinds, Zenon
  <2>10. a # 0 /\ b # 0 /\ a # NAN /\ b # NAN => (x = 0 <=> a = b)
    BY <2>3, SpeedOfMeasured, Zenon
  <2>11. c # 0 /\ d # 0 /\ c # NAN /\ d # NAN => (y = 0 <=> c = d)
    BY <2>3, SpeedOfMeasured, Zenon
  <2>12. Places \subseteq 0..35 <=>
           /\ x # NAN /\ y # NAN /\ ~(x = 0 /\ y = 0)
           /\ ~(Infinite(x) /\ Infinite(y)) /\ ~(y = -INF /\ x < 0)
    BY <2>3, PlacesOfSpeeds, Zenon
  <2>13. /\ Infinite(x) <=> x = INF \/ x = -INF
         /\ Infinite(y) <=> y = INF \/ y = -INF
         /\ x = NAN \/ x = 0 => ~Infinite(x)
         /\ y = NAN \/ y = 0 => ~Infinite(y)
    BY InfiniteIsNot, SMT DEF Infinite
  <2>14. /\ a # 0 /\ b # 0 /\ a # NAN /\ b # NAN => x \in Finite
         /\ c # 0 /\ d # 0 /\ c # NAN /\ d # NAN => y \in Finite
    BY <2>3, SpeedOfMeasured, Zenon
  <2>15. /\ x \in Finite => x # NAN /\ ~Infinite(x) /\ (x >= 0 <=> ~(x < 0))
         /\ y \in Finite => y # NAN /\ ~Infinite(y) /\ y # -INF
    BY <2>13, FiniteIsNot
  <2> DEFINE inTable == Places \subseteq 0..35
             fromTimes == /\ \A n \in 1..4 : times[n] # NAN
                          /\ \/ Zeros = {} /\ ~Calm
                             \/ \E n \in 1..4 : Zeros = {n} /\ (n = 4 => xSpeed >= 0)
  <2>16. fromTimes <=>
           /\ a # NAN /\ b # NAN /\ c # NAN /\ d # NAN
           /\ \/ a # 0 /\ b # 0 /\ c # 0 /\ d # 0 /\ ~(a = b /\ c = d)
              \/ a = 0 /\ b # 0 /\ c # 0 /\ d # 0
              \/ a # 0 /\ b = 0 /\ c # 0 /\ d # 0
              \/ a # 0 /\ b # 0 /\ c = 0 /\ d # 0
              \/ a # 0 /\ b # 0 /\ c # 0 /\ d = 0 /\ x >= 0
    BY <2>4, <2>5, <2>6, <2>7, Zenon
  <2>17. inTable <=> /\ x # NAN /\ y # NAN /\ ~(x = 0 /\ y = 0)
                     /\ ~(Infinite(x) /\ Infinite(y)) /\ ~(y = -INF /\ x < 0)
    BY <2>12
  <2> HIDE DEF inTable, fromTimes
  <2> SUFFICES inTable <=> fromTimes
    BY Zenon DEF inTable, fromTimes
  <2>18. CASE a = NAN \/ b = NAN \/ c = NAN \/ d = NAN
    BY <2>8, <2>9, <2>16, <2>17, <2>18, Zenon
  <2>19. CASE ~(a = NAN \/ b = NAN \/ c = NAN \/ d = NAN)
    <3>1. CASE a # 0 /\ b # 0 /\ c # 0 /\ d # 0
      BY <2>10, <2>11, <2>14, <2>15, <2>16, <2>17, <2>19, <3>1, Zenon
    <3>2. CASE (a = 0 /\ b = 0) \/ (c = 0 /\ d = 0)
      BY <2>8, <2>9, <2>16, <2>17, <3>2, Zenon
    <3>3. CASE ((a = 0) # (b = 0)) /\ ((c = 0) # (d = 0))
      <4>1. Infinite(x) /\ Infinite(y)
        BY <2>8, <2>9, <2>13, <2>19, <3>3, Zenon
      <4>2. QED
        BY <2>16, <2>17, <3>3, <4>1, Zenon
    <3>4. CASE ((a = 0) # (b = 0)) /\ c # 0 /\ d # 0
      <4>1. Infinite(x) /\ x # NAN /\ x # 0
        BY <2>8, <2>13, <2>19, <3>4, InfiniteIsNot, Zenon
      <4>2. y # NAN /\ ~Infinite(y) /\ y # -INF
        BY <2>14, <2>15, <2>19, <3>4, Zenon
      <4>3. QED
        BY <2>16, <2>17, <2>19, <3>4, <4>1, <4>2, Zenon
    <3>5. CASE a # 0 /\ b # 0 /\ c = 0 /\ d # 0
      <4>1. y = INF /\ y # NAN /\ y # 0 /\ y # -INF
        BY <2>9, <2>19, <3>5, InfiniteIsNot, Zenon
      <4>2. x # NAN /\ ~Infinite(x)
        BY <2>14, <2>15, <2>19, <3>5, Zenon
      <4>3. QED
        BY <2>16, <2>17, <2>19, <3>5, <4>1, <4>2, Zenon
    <3>6. CASE a # 0 /\ b # 0 /\ c # 0 /\ d = 0
      <4>1. y = -INF /\ y # NAN /\ y # 0
        BY <2>9, <2>19, <3>6, InfiniteIsNot, Zenon
      <4>2. x # NAN /\ ~Infinite(x) /\ (x >= 0 <=> ~(x < 0))
        BY <2>14, <2>15, <2>19, <3>6, Zenon
      <4>3. QED
        BY <2>16, <2>17, <2>19, <3>6, <4>1, <4>2, Zenon
    <3>7. QED
      BY <3>1, <3>2, <3>3, <3>4, <3>5, <3>6, Zenon
  <2>20. QED
    BY <2>18, <2>19, Zenon
<1>2. Inv => PlacesInTable
  BY <1>1, Zenon DEF PlacesInTable
<1>3. QED
  BY <1>2, SpecInv, PTL

(* The direction turns with the wind in all quadrants, on the axes and     *)
(* with infinite speeds (calculateWind), whatever the four times are.      *)
THEOREM DirectionTurnsWithTheWind == Spec => []TurnsWithTheWind
<1>1. ASSUME Inv, pc = "correct", direction # Unknown
      PROVE  LET turned == Direction(-ySpeed, xSpeed)
             IN  /\ turned.floor % 36 = (direction.floor + 9) % 36
                 /\ turned.ceiling - turned.floor = direction.ceiling - direction.floor
  <2>1. xSpeed \in Speeds /\ ySpeed \in Speeds /\ direction = Direction(xSpeed, ySpeed)
    BY <1>1 DEF Inv, Typed, Computed
  <2>2. QED
    BY <1>1, <2>1, AnyDirectionTurns
<1>2. Inv => TurnsWithTheWind
  BY <1>1 DEF TurnsWithTheWind
<1>3. QED
  BY <1>2, SpecInv, PTL

(* The sentence fits into its 30 bytes (sendNmeaWindData), as long as no   *)
(* time is within 3 us of 0 and the rounds before had less than 100 km/s.  *)
THEOREM SentencesFit == Spec => []SentenceFits
<1>1. Inv => SentenceFits
  <2>1. SUFFICES ASSUME Inv PROVE SentenceFits
    OBVIOUS
  <2>2. ASSUME sentence.length \in 0..29 PROVE ~(sentence.length + 1 > 30)
    BY <2>2
  <2>3. QED
    BY <2>1, <2>2, SMT DEF Inv, Short, SentenceFits, SENTENCE_SIZE, NoneNearZero, Fast
<1>2. QED
  BY <1>1, SpecInv, PTL

(* The correction is closer to the nearer entry of the table, and on a     *)
(* multiple of ten degrees it takes the entry twice (AngleSpeedCorrection).*)
THEOREM CorrectionsFollowTable == Spec => []CorrectionFollowsTable
<1>1. ASSUME NEW w \in 1..9, Places \subseteq 0..35
      PROVE  IF OnTen THEN Weighed(w) = 20 * Lut(angleFloor)
             ELSE Abs(Weighed(w) - 10 * Lut(Nearer(w))) <= Abs(Weighed(w) - 10 * Lut(Farther(w)))
  <2>1. Lut(angleFloor) \in 102..132 /\ Lut(angleCeiling) \in 102..132
    BY <1>1, LutTypes DEF Places
  <2>2. PICK l \in 102..132, m \in 102..132 : l = Lut(angleFloor) /\ m = Lut(angleCeiling)
    BY <2>1
  <2>3. CASE OnTen
    <3>1. angleFloor # 36
      BY <1>1 DEF Places
    <3>2. angleCeiling = angleFloor
      BY <2>3, <3>1 DEF OnTen, angleFloor, angleCeiling
    <3>3. Weighed(w) = 10 * (l + l)
      BY <2>2, <2>3, <3>2 DEF Weighed
    <3>4. QED
      BY <2>2, <2>3, <3>3
  <2>4. CASE ~OnTen
    <3>1. Weighed(w) = (10 - w) * l + w * m
      BY <2>2, <2>4 DEF Weighed
    <3>2. CASE w < 5
      <4>1. Lut(Nearer(w)) = l /\ Lut(Farther(w)) = m
        BY <2>2, <3>2 DEF Nearer, Farther
      <4>2. w \in {1, 2, 3, 4}
        BY <3>2
      <4>3. Abs((10 - w) * l + w * m - 10 * l) <= Abs((10 - w) * l + w * m - 10 * m)
        BY <4>2, SMTT(30) DEF Abs
      <4>4. QED
        BY <2>4, <3>1, <4>1, <4>3
    <3>3. CASE w >= 5
      <4>1. Lut(Nearer(w)) = m /\ Lut(Farther(w)) = l
        BY <2>2, <3>3 DEF Nearer, Farther
      <4>2. w \in {5, 6, 7, 8, 9}
        BY <3>3
      <4>3. Abs((10 - w) * l + w * m - 10 * m) <= Abs((10 - w) * l + w * m - 10 * l)
        BY <4>2, SMTT(30) DEF Abs
      <4>4. QED
        BY <2>4, <3>1, <4>1, <4>3
    <3>4. QED
      BY <3>2, <3>3
  <2>5. QED
    BY <2>3, <2>4
<1>2. CorrectionFollowsTable
  BY <1>1, ReportAssumption DEF CorrectionFollowsTable, ReportAssumption
<1>3. QED
  BY <1>2, PTL
=============================================================================
