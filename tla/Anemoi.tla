------------------------------- MODULE Anemoi -------------------------------
(***************************************************************************)
(* The vocabulary of the firmware, from Anemoi.h and GpioAnemoi.h: axes,   *)
(* directions, error codes, pins and the wiring of the four acoustic       *)
(* paths.  A path is an axis together with a direction.                    *)
(***************************************************************************)
Axis == {"X_AXIS", "Y_AXIS"}
Direction == {"POSITIVE_DIRECTION", "NEGATIVE_DIRECTION"}
Path == Axis \X Direction

(* WARNING_MISSING_STOP_PULSE is declared too, but nothing returns it. *)
ErrorsAndWarnings ==
  {"NO_ERRORS_NO_WARNINGS", "ERROR_NO_STOP_RECEIVED",
   "ERROR_NO_START_RECEIVED", "ERROR_TIME_OUT_OF_RANGE"}

TypeQueue == {"START_QUEUE", "STOP_QUEUE"}

(* The output pins the measurement drives and the interrupt lines it reads. *)
VddPins == {"VDD_EN_X1", "VDD_EN_X2", "VDD_EN_Y1", "VDD_EN_Y2"}
TdcPins == {"TDC1000_X_EN", "TDC1000_Y_EN"}
OutputPins == VddPins \cup TdcPins \cup {"CHSEL", "ESP_TRIGG"}
InterruptLines == {"START_X", "STOP_X", "START_Y", "STOP_Y"}

(* The transducer that sends on a path ("pulse going from Y1 to X1" ...). *)
VddOf(axis, direction) ==
  CASE axis = "X_AXIS" /\ direction = "POSITIVE_DIRECTION" -> "VDD_EN_Y1"
    [] axis = "X_AXIS" /\ direction = "NEGATIVE_DIRECTION" -> "VDD_EN_X1"
    [] axis = "Y_AXIS" /\ direction = "POSITIVE_DIRECTION" -> "VDD_EN_Y2"
    [] axis = "Y_AXIS" /\ direction = "NEGATIVE_DIRECTION" -> "VDD_EN_X2"

(* The direction alone chooses the TDC1000 and with it the two lines. *)
TdcOf(direction) ==
  IF direction = "POSITIVE_DIRECTION" THEN "TDC1000_X_EN" ELSE "TDC1000_Y_EN"

StartLineOf(tdc) == IF tdc = "TDC1000_X_EN" THEN "START_X" ELSE "START_Y"
StopLineOf(tdc)  == IF tdc = "TDC1000_X_EN" THEN "STOP_X" ELSE "STOP_Y"
=============================================================================
