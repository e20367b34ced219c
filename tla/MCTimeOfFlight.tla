--------------------------- MODULE MCTimeOfFlight ---------------------------
(***************************************************************************)
(* Instances of TimeOfFlight for TLC.  The unit is 50 ns, or 12 cycles.    *)
(***************************************************************************)
EXTENDS TimeOfFlight

Size == 268435456
PulseGap == 660000
Interval(a, b) == [n \in 1..(b - a + 1) |-> a + n - 1]

(* Complete, with the first echo missed, cut off, with a gap. *)
SomeEchoes == {Interval(0, 10), Interval(1, 8), Interval(3, 10), Interval(0, 4),
               Interval(0, 2) \o Interval(5, 8)}
SomeJitter == {-120, 120}

(* No wrap; one between the first start and all its stops; one amid the    *)
(* stops of the second pulse.                                              *)
WrapIn(row, before) == Size - (row - 1) * PulseGap - before
SomeStarts == {500000, WrapIn(1, 5000), WrapIn(2, 14600)}

(* In front of the first pulse's own stops: nothing, a spurious stop, at   *)
(* the edges of each guard on the first time or at some phase of the echo, *)
(* or stops left by a call that failed 7.5 ms or 20 ms before.             *)
Burst(age) == [n \in 1..7 |-> -(age - n * 500)]
SomePrefixes ==
  {<<>>, <<0>>, <<5000>>, Burst(150000), Burst(400000), <<-150000>>, <<-400000>>}
    \cup {<<13000 - early>> : early \in {100, 249, 250, 251, 370, 500, 900, 1750, 7000, 9000}}
=============================================================================
