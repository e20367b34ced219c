------------------------- MODULE MCOlderMeasurement -------------------------
(***************************************************************************)
(* Instances of OlderMeasurement for TLC: 17 periods are 0.42 ms, 400 are  *)
(* the upper limit of 10 ms and the time from one pulse to the next.       *)
(***************************************************************************)
EXTENDS OlderMeasurement

(* Complete, with the first echoes missed, with a gap, early, none.        *)
SomeEchoes == {<<1, 2, 3, 4>>, <<2, 3, 4>>, <<3, 4, 5, 6>>, <<1, 3, 4>>, <<0, 1, 2, 3>>, <<>>}
SomeLeftovers == {<<>>, <<-382, -381>>}
SomeCounts == {0, 4, 8}
=============================================================================
