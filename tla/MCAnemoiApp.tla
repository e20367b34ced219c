---------------------------- MODULE MCAnemoiApp ----------------------------
(***************************************************************************)
(* Instances of AnemoiApp for TLC.                                         *)
(***************************************************************************)
EXTENDS AnemoiApp

XP == <<"X_AXIS", "POSITIVE_DIRECTION">>
YP == <<"Y_AXIS", "POSITIVE_DIRECTION">>
XN == <<"X_AXIS", "NEGATIVE_DIRECTION">>
YN == <<"Y_AXIS", "NEGATIVE_DIRECTION">>
FourPaths == <<XP, YP, XN, YN>>
TwoPaths == <<XP, YN>>
=============================================================================
