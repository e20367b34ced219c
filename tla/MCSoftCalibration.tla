------------------------- MODULE MCSoftCalibration -------------------------
(***************************************************************************)
(* Instances of SoftCalibration for TLC, with a period of 100 units: a     *)
(* unit is a quarter of a microsecond, and the thresholds fall at 8, 20,   *)
(* 65 and 120 units.                                                       *)
(***************************************************************************)
EXTENDS SoftCalibration

(* A wind on each axis and a slip on each path. *)
Reading(y, x, yPos, yNeg, xPos, xNeg) ==
  [wind |-> [axis \in Axis |-> IF axis = "Y_AXIS" THEN y ELSE x],
   slip |-> [p \in Path |-> CASE p = Pos("Y_AXIS") -> yPos [] p = Neg("Y_AXIS") -> yNeg
                              [] p = Pos("X_AXIS") -> xPos [] p = Neg("X_AXIS") -> xNeg]]

(* Readings of which all four times are fresh.  Y: no wind, winds just     *)
(* short of half a period and beyond 1.2 periods, one-sided and opposite   *)
(* slips; X: little of both.                                               *)
ManyReadings ==
  {Reading(y, x, yPos, yNeg, xPos, 0) :
     y \in {-49, 0, 46, 120, 140}, x \in {0, -46}, yPos \in -1..2, yNeg \in 0..1, xPos \in 0..1}

(* A few readings after which some or all times may be stale. *)
FewReadings ==
  {Reading(y, x, yPos, yNeg, 0, 0) :
     y \in {-45, 0}, x \in {0, -121}, yPos \in 0..1, yNeg \in -1..0}
SomeFresh ==
  {Path, {}, {Pos("X_AXIS"), Neg("X_AXIS")}, {Neg("X_AXIS"), Neg("Y_AXIS")}}

AllReadings == ManyReadings \cup FewReadings
FreshOf == [r \in AllReadings |-> IF r \in FewReadings THEN SomeFresh ELSE {Path}]
WrongZeros == {17, -25, -50}

(* app_main starts from 0 s; the 0.146 m take 429.5 us at 14 degrees. *)
NotYetMeasured == -17 * T - 18
=============================================================================
