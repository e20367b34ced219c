------------------------- MODULE MCTimeMeasurement -------------------------
(***************************************************************************)
(* Instances of TimeMeasurement for TLC.                                   *)
(***************************************************************************)
EXTENDS TimeMeasurement

FourPaths == Path
TwoPaths == {<<"X_AXIS", "POSITIVE_DIRECTION">>, <<"Y_AXIS", "NEGATIVE_DIRECTION">>}
BothCreated == {TypeQueue}
AnyCreated == SUBSET TypeQueue
=============================================================================
