----------------------------- MODULE AnemoiApp -----------------------------
(***************************************************************************)
(* The main loop (app_main, main.cpp of Anemoi+Blynk).  A round measures   *)
(* the four paths one after the other, shows on the phone whether one is   *)
(* blocked, computes a wind if no time was out of range, keeps it in a     *)
(* ring, averages the latest ones and sends a sentence.                    *)
(*                                                                         *)
(* A measurement is one step: what a call promises is PathMeasurement.  A  *)
(* time is abstracted to the round it comes from, a wind to whether it     *)
(* exceeds LOW_SPEED and whether all its times come from its own round.    *)
(* An average is the sequence of the winds added up.  The ring of the      *)
(* corrected winds holds the same winds as this one in the same places.    *)
(* V7 is "none" before the first write, then the text "BLOCKED PATH!!!"    *)
(* (blocked_path) or a blank.  A speed that is not a number is "low" to    *)
(* the one comparison.                                                     *)
(***************************************************************************)
EXTENDS Anemoi, Naturals, Sequences

CONSTANTS
  WIND_COUNT,     (* winds in the ring: 10 in main.cpp                      *)
  AVERAGE_COUNT,  (* of which the latest are averaged: 3 in Anemoi.h        *)
  Order           (* the paths in the order of their measurement            *)

ASSUME AppAssumption ==
  /\ WIND_COUNT \in Nat \ {0}
  /\ AVERAGE_COUNT \in 1..WIND_COUNT
  /\ Order \in Seq(Path) /\ Order # <<>>

VARIABLES
  pc,                 (* where the task is in its round                     *)
  measured,           (* paths measured in this round                       *)
  errorsAndWarnings,  (* the latest code of each path                       *)
  time,               (* the age of each path's time                        *)
  v7,                 (* the text of the phone's widget V7                  *)
  wind, i,            (* the ring and the place of the latest wind          *)
  k, speedAverage,    (* the averaging loop: next place, winds added so far *)
  sentence,           (* the latest NMEA sentence, and the temperature that *)
                      (* the phone shows with it                            *)
  history             (* history variable: the ring's winds, latest first   *)

vars == <<pc, measured, errorsAndWarnings, time, v7, wind, i, k, speedAverage,
          sentence, history>>

Paths == {Order[n] : n \in DOMAIN Order}
Age == {"initial", "old", "new"}
Speed == {"low", "high"}
Wind == [speed : Speed, fresh : BOOLEAN]
Zero == [speed |-> "low", fresh |-> FALSE]
Zeros == [n \in 1..AVERAGE_COUNT |-> Zero]
NoSentence == [direction |-> Zero, speed |-> <<>>, status |-> "none", temperature |-> Zero]

Init ==
  /\ pc = "measure" /\ measured = 0
  /\ errorsAndWarnings = [p \in Paths |-> "NO_ERRORS_NO_WARNINGS"]
  /\ time = [p \in Paths |-> "initial"]
  /\ v7 = "none"
  /\ wind = [n \in 0..WIND_COUNT - 1 |-> Zero] /\ i = 0
  /\ k = 0 /\ speedAverage = Zeros
  /\ sentence = NoSentence
  /\ history = [n \in 1..WIND_COUNT |-> Zero]
-----------------------------------------------------------------------------
TimeWritten(p, error) ==
  time' = IF error = "NO_ERRORS_NO_WARNINGS" THEN [time EXCEPT ![p] = "new"] ELSE time

Measure(error) ==
  /\ pc = "measure"
  /\ measured' = measured + 1
  /\ pc' = IF measured' < Len(Order) THEN "measure" ELSE "showBlocked"
  /\ errorsAndWarnings' = [errorsAndWarnings EXCEPT ![Order[measured']] = error]
  /\ TimeWritten(Order[measured'], error)
  /\ UNCHANGED <<v7, wind, i, k, speedAverage, sentence, history>>

Some(error) == \E p \in Paths : errorsAndWarnings[p] = error

ShowBlockedOnLast ==
  /\ pc = "showBlocked" /\ pc' = "compute"
  /\ v7' = IF errorsAndWarnings[Order[Len(Order)]] = "ERROR_NO_STOP_RECEIVED"
           THEN "blocked_path" ELSE "blank"
  /\ UNCHANGED <<measured, errorsAndWarnings, time, wind, i, k, speedAverage, sentence, history>>

ShowBlocked ==
  /\ pc = "showBlocked" /\ pc' = "compute"
  /\ v7' = IF Some("ERROR_NO_STOP_RECEIVED") THEN "blocked_path" ELSE "blank"
  /\ UNCHANGED <<measured, errorsAndWarnings, time, wind, i, k, speedAverage, sentence, history>>
-----------------------------------------------------------------------------
(* The places of the ring, 0 to WIND_COUNT - 1. *)
Following(n) == IF n + 1 = WIND_COUNT THEN 0 ELSE n + 1
PrecedingShort(n) == IF n <= 1 THEN WIND_COUNT - 1 ELSE n - 1
Preceding(n) == IF n = 0 THEN WIND_COUNT - 1 ELSE n - 1

AllNew == \A p \in Paths : time[p] = "new"

(* Only a time out of range keeps the round from having a wind: a path     *)
(* without start or stop takes part with the time it had.  SoftCalibration *)
(* and calculateWind use the four times as they are.                       *)
Compute(speed) ==
  /\ pc = "compute" /\ pc' = "average"
  /\ ~Some("ERROR_TIME_OUT_OF_RANGE")
  /\ i' = Following(i)
  /\ wind' = [wind EXCEPT ![i'] = [speed |-> speed, fresh |-> AllNew]]
  /\ history' = [n \in 1..WIND_COUNT |-> IF n = 1 THEN wind'[i'] ELSE history[n - 1]]
  /\ k' = i' /\ speedAverage' = <<>>
  /\ UNCHANGED <<measured, errorsAndWarnings, time, v7, sentence>>

OutOfRange ==
  /\ pc = "compute" /\ pc' = "report"
  /\ Some("ERROR_TIME_OUT_OF_RANGE")
  /\ UNCHANGED <<measured, errorsAndWarnings, time, v7, wind, i, k, speedAverage, sentence, history>>

AverageOneMore ==
  /\ pc = "average"
  /\ speedAverage' = Append(speedAverage, wind[k])
  /\ k' = Preceding(k)
  /\ pc' = IF Len(speedAverage) < AVERAGE_COUNT THEN "average" ELSE "report"
  /\ UNCHANGED <<measured, errorsAndWarnings, time, v7, wind, i, sentence, history>>

(* A turn of the loop over the latest winds; the same loop over the        *)
(* uncorrected ones before it is only printed.                             *)
Average ==
  /\ pc = "average"
  /\ speedAverage' = Append(speedAverage, wind[k])
  /\ k' = Preceding(k)
  /\ pc' = IF Len(speedAverage') < AVERAGE_COUNT THEN "average" ELSE "report"
  /\ UNCHANGED <<measured, errorsAndWarnings, time, v7, wind, i, sentence, history>>
-----------------------------------------------------------------------------
(* sendNmeaWindData: the status is always "A".  A low speed is sent as 0.  *)
(* temperatureAverage adds the latest wind's temperature ten times and     *)
(* divides by ten.                                                         *)
Report ==
  /\ pc = "report" /\ pc' = "delay"
  /\ sentence' = [direction |-> IF wind[i].speed = "high" THEN wind[i] ELSE Zero,
                  speed     |-> IF wind[i].speed = "high" THEN speedAverage ELSE Zeros,
                  status    |-> "A",
                  temperature |-> wind[i]]
  /\ UNCHANGED <<measured, errorsAndWarnings, time, v7, wind, i, k, speedAverage, history>>

(* The next round: what is new becomes old. *)
Delay ==
  /\ pc = "delay" /\ pc' = "measure" /\ measured' = 0
  /\ time' = [p \in Paths |-> IF time[p] = "new" THEN "old" ELSE time[p]]
  /\ UNCHANGED <<errorsAndWarnings, v7, wind, i, k, speedAverage, sentence, history>>

Next ==
  \/ \E e \in ErrorsAndWarnings : Measure(e)
  \/ ShowBlocked
  \/ \E speed \in Speed : Compute(speed)
  \/ OutOfRange \/ Average \/ Report \/ Delay

Spec == Init /\ [][Next]_vars
-----------------------------------------------------------------------------
PC == {"measure", "showBlocked", "compute", "average", "report", "delay"}

(* Every variable has its type; the ring is never left, the averaging loop *)
(* never adds more than AVERAGE_COUNT winds.                               *)
TypeOK ==
  /\ pc \in PC
  /\ measured \in 0..Len(Order) /\ (pc = "measure" => measured < Len(Order))
  /\ errorsAndWarnings \in [Paths -> ErrorsAndWarnings]
  /\ time \in [Paths -> Age]
  /\ v7 \in {"none", "blank", "blocked_path"}
  /\ wind \in [0..WIND_COUNT - 1 -> Wind] /\ i \in 0..WIND_COUNT - 1
  /\ k \in 0..WIND_COUNT - 1
  /\ speedAverage \in Seq(Wind) /\ Len(speedAverage) <= AVERAGE_COUNT
  /\ history \in [1..WIND_COUNT -> Wind]

(* What is sent belongs together and is the latest there is: the direction *)
(* is the latest wind's, so is the temperature, and the speed the average  *)
(* of that one and the AVERAGE_COUNT - 1 winds before it, also when the    *)
(* ring has wrapped, and also when a round without a wind repeats them.    *)
ReportsLatest ==
  pc = "delay" => sentence.temperature = history[1] /\
    \/ /\ history[1].speed = "high"
       /\ sentence.direction = history[1]
       /\ sentence.speed = SubSeq(history, 1, AVERAGE_COUNT)
    \/ /\ history[1].speed = "low"
       /\ sentence.direction = Zero /\ sentence.speed = Zeros

(* A wind that mixes in a time from an earlier round, or from none, is     *)
(* announced by V7 before it is sent, unless a start was lost: then nothing*)
(* tells.                                                                  *)
StaleWindAnnounced ==
  pc = "average" /\ ~wind[i].fresh =>
    v7 = "blocked_path" \/ Some("ERROR_NO_START_RECEIVED")

(* "Status: A= data valid, V=data invalid" (NmeaAnemoi.c:80): a sentence   *)
(* with status A is not sent by a round in which all four paths failed.     *)
StatusTellsValidity ==
  pc = "delay" /\ sentence.status = "A" => \E p \in Paths : time[p] = "new"
=============================================================================
