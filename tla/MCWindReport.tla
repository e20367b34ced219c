---------------------------- MODULE MCWindReport ----------------------------
(***************************************************************************)
(* Instances of WindReport for TLC: the times that SoftCalibration leaves  *)
(* near a zeroWindTime of 425 us, those near one of 0, on both sides, 0    *)
(* and what is not a number; in the rounds before a breeze, the fastest    *)
(* that fits, a faster one and none.                                       *)
(***************************************************************************)
EXTENDS WindReport

SomeTimes == {NAN, 0, -3, 1, 3, 16, 395, 420, 424, 425, 430}
SomeWeights == {1, 4, 6, 9}
SomeEarlier == {80, 999999, 1000000, NAN}
=============================================================================
