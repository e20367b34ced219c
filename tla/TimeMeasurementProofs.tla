----------------------- MODULE TimeMeasurementProofs -----------------------
(***************************************************************************)
(* What holds of TimeMeasurement for every number of pulses, every queue   *)
(* length and every environment its constants admit.                       *)
(***************************************************************************)
EXTENDS TimeMeasurement, SequenceTheorems, TLAPS

USE QueueAssumption, MeasurementAssumption DEF QueueAssumption, MeasurementAssumption

(* Appending a stamp, dropping the oldest and ageing keep a queue a queue. *)
LEMMA QueueSteps ==
  ASSUME NEW q \in Seq(Age)
  PROVE  /\ \A a \in Age : Append(q, a) \in Seq(Age) /\ Len(Append(q, a)) = Len(q) + 1
         /\ q # <<>> => /\ Head(q) \in Age
                        /\ Tail(q) \in Seq(Age) /\ Len(Tail(q)) = Len(q) - 1
         /\ Aged(q) \in Seq(Age) /\ Len(Aged(q)) = Len(q)
<1>1. \A a \in Age : Append(q, a) \in Seq(Age) /\ Len(Append(q, a)) = Len(q) + 1
  OBVIOUS
<1>2. q # <<>> => /\ Head(q) \in Age
                  /\ Tail(q) \in Seq(Age) /\ Len(Tail(q)) = Len(q) - 1
  OBVIOUS
<1>3. Aged(q) \in [1..Len(q) -> Age]
  BY DEF Aged, Age
<1>4. Aged(q) \in Seq(Age) /\ Len(Aged(q)) = Len(q)
  BY <1>3
<1>5. QED
  BY <1>1, <1>2, <1>4

(* The row calculateTimes hands back is a row. *)
LEMMA RowHasType ==
  ASSUME TypeOK
  PROVE  Row \in RowType /\ Len(Row.stops) = arrivedStopPulses
<1>1. arrivedStopPulses \in Int /\ arrivedStopPulses >= 0
      /\ \A i \in 1..arrivedStopPulses : stops[i] \in Stamp
  BY DEF TypeOK
<1>2. /\ SubSeq(stops, 1, arrivedStopPulses) \in Seq(Stamp)
      /\ Len(SubSeq(stops, 1, arrivedStopPulses)) = arrivedStopPulses
  BY <1>1, SubSeqProperties, Z3
<1>3. QED
  BY <1>2 DEF Row, RowType, TypeOK
-----------------------------------------------------------------------------
(* The constants of the wiring are pins and lines. *)
LEMMA Wiring ==
  /\ \A p \in Path : /\ p = <<p[1], p[2]>>
                     /\ VddOf(p[1], p[2]) \in VddPins
                     /\ TdcOf(p[2]) \in TdcPins
  /\ \A tdc \in TdcPins : {StartLineOf(tdc), StopLineOf(tdc)} \subseteq InterruptLines
BY DEF Path, Axis, Direction, VddOf, VddPins, TdcOf, TdcPins, StartLineOf, StopLineOf,
       InterruptLines

LEMMA PinsDisjoint ==
  /\ VddPins \cap TdcPins = {}
  /\ "CHSEL" \notin VddPins \cup TdcPins /\ "ESP_TRIGG" \notin VddPins \cup TdcPins
BY DEF VddPins, TdcPins

LEMMA InitTypeOK == Init => TypeOK
<1> SUFFICES ASSUME Init PROVE TypeOK
  OBVIOUS
<1>1. GpioTypeOK(Age)
  BY DEF Init, initGpio, initStartStop, GpioTypeOK
<1>2. /\ times \in Seq(RowType) /\ Len(times) <= N
      /\ stops \in [1..STOP_QUEUE_LENGTH -> Stamp]
      /\ start \in Stamp
  BY DEF Init, Unwritten, Stamp
<1>3. flightStops \in [Age -> Nat] /\ UnderWay <= MaxEchoes
  BY DEF Init, Nothing, UnderWay, Age
<1>4. errorsAndWarnings \in ErrorsAndWarnings /\ startLost \in BOOLEAN
  BY DEF Init, ErrorsAndWarnings
<1>5. /\ pc \in PC /\ path \in Paths
      /\ BeforeLoop => times = <<>>
      /\ InLoop => Len(times) < N
      /\ k \in 0..STOP_QUEUE_LENGTH /\ arrivedStopPulses \in 0..k
      /\ timeOfFlight \in [Paths -> Worths \cup {"initial"}]
      /\ flightStart \subseteq Age
  BY DEF Init, PC, BeforeLoop, InLoop
<1>6. QED
  BY <1>1, <1>2, <1>3, <1>4, <1>5 DEF TypeOK

(* Whatever a step does to the queues, it leaves them queues of stamps     *)
(* within their lengths.                                                   *)
LEMMA StepQueues ==
  ASSUME TypeOK, [Next]_vars
  PROVE  /\ startQueue' \in Seq(Age) /\ Len(startQueue') <= START_QUEUE_LENGTH
         /\ stopQueue' \in Seq(Age) /\ Len(stopQueue') <= STOP_QUEUE_LENGTH
<1>1. /\ startQueue \in Seq(Age) /\ Len(startQueue) <= START_QUEUE_LENGTH
      /\ stopQueue \in Seq(Age) /\ Len(stopQueue) <= STOP_QUEUE_LENGTH
  BY DEF TypeOK, GpioTypeOK
<1>2. CASE TriggerOn
  BY <1>1, <1>2, QueueSteps DEF TriggerOn
<1>3. CASE ReceiveStart
  <2>1. stopQueue' = stopQueue
    BY <1>3 DEF ReceiveStart
  <2>2. startQueue' = startQueue \/ (startQueue # <<>> /\ startQueue' = Tail(startQueue))
    BY <1>3 DEF ReceiveStart, ReceivedStart
  <2>3. QED
    BY <1>1, <2>1, <2>2
<1>4. CASE ReceiveStop
  <2>1. startQueue' = startQueue
    BY <1>4 DEF ReceiveStop
  <2>2. stopQueue' = stopQueue \/ (stopQueue # <<>> /\ stopQueue' = Tail(stopQueue))
    BY <1>4 DEF ReceiveStop, ReceivedStop
  <2>3. QED
    BY <1>1, <2>1, <2>2
<1>5. ASSUME NEW age \in Age, StartEdge(age)
      PROVE  /\ startQueue' \in Seq(Age) /\ Len(startQueue') <= START_QUEUE_LENGTH
             /\ stopQueue' = stopQueue
  <2>1. stopQueue' = stopQueue
    BY <1>5 DEF StartEdge
  <2>2. \/ startQueue' = startQueue
        \/ Len(startQueue) < START_QUEUE_LENGTH /\ startQueue' = Append(startQueue, age)
    BY <1>5 DEF StartEdge, gpioIsrHandlerStart
  <2>3. CASE startQueue' = startQueue
    BY <1>1, <2>1, <2>3
  <2>4. CASE Len(startQueue) < START_QUEUE_LENGTH /\ startQueue' = Append(startQueue, age)
    <3>1. startQueue' \in Seq(Age) /\ Len(startQueue') = Len(startQueue) + 1
      BY <1>1, <2>4, QueueSteps
    <3>2. Len(startQueue) \in Nat
      BY <1>1
    <3>3. QED
      BY <2>1, <2>4, <3>1, <3>2
  <2>5. QED
    BY <2>2, <2>3, <2>4
<1>6. ASSUME NEW age \in Age, StopEdge(age)
      PROVE  /\ stopQueue' \in Seq(Age) /\ Len(stopQueue') <= STOP_QUEUE_LENGTH
             /\ startQueue' = startQueue
  <2>1. startQueue' = startQueue
    BY <1>6 DEF StopEdge
  <2>2. \/ stopQueue' = stopQueue
        \/ Len(stopQueue) < STOP_QUEUE_LENGTH /\ stopQueue' = Append(stopQueue, age)
    BY <1>6 DEF StopEdge, gpioIsrHandlerStop
  <2>3. CASE stopQueue' = stopQueue
    BY <1>1, <2>1, <2>3
  <2>4. CASE Len(stopQueue) < STOP_QUEUE_LENGTH /\ stopQueue' = Append(stopQueue, age)
    <3>1. stopQueue' \in Seq(Age) /\ Len(stopQueue') = Len(stopQueue) + 1
      BY <1>1, <2>4, QueueSteps
    <3>2. Len(stopQueue) \in Nat
      BY <1>1
    <3>3. QED
      BY <2>1, <2>4, <3>1, <3>2
  <2>5. QED
    BY <2>2, <2>3, <2>4
<1>7. CASE UNCHANGED <<startQueue, stopQueue>>
  BY <1>1, <1>7
<1>8. CASE UNCHANGED vars
  BY <1>7, <1>8 DEF vars, gpioVars
<1>9. QED
  BY <1>1, <1>2, <1>3, <1>4, <1>5, <1>6, <1>7, <1>8
     DEF Next, Task, Edge, Call, EnableVdd, EnableTdc1000, EnableInterrupt, TriggerOff,
         Wait, NoStartReceived, StopTimeout, NoStopReceived, StoreTimes,
         CalculateTimeOfFlight, DisableInterrupt, DisableTdc1000, DisableVdd, gpioVars

LEMMA StepTypeOK == TypeOK /\ [Next]_vars => TypeOK'
<1> SUFFICES ASSUME TypeOK, [Next]_vars PROVE TypeOK'
  OBVIOUS
<1> USE StepQueues DEF TypeOK, GpioTypeOK, gpioVars, flightVars, PC, BeforeLoop, InLoop
<1>0. path \in Path
  OBVIOUS
<1>1. ASSUME NEW p \in Paths, Call(p[1], p[2]) PROVE TypeOK'
  <2>1. path' = p /\ path' \in Paths
    BY <1>1, Wiring DEF Call
  <2>2. on' \subseteq OutputPins
    BY <1>1 DEF Call, selectChannel, OutputPins
  <2>3. QED
    BY <1>1, <2>1, <2>2 DEF Call, UnderWay, ErrorsAndWarnings
<1>2. CASE EnableVdd
  BY <1>0, <1>2, Wiring DEF EnableVdd, enableVdd, OutputPins, UnderWay
<1>3. CASE EnableTdc1000
  BY <1>0, <1>3, Wiring DEF EnableTdc1000, enableTdc1000, OutputPins, UnderWay
<1>4. CASE EnableInterrupt
  BY <1>0, <1>4, Wiring DEF EnableInterrupt, enableStartStopInterrupt, UnderWay
<1>5. CASE TriggerOn
  <2>2. UnderWay \in Nat
    BY DEF UnderWay, Age
  <2>3. PICK s \in SUBSET {"own"}, n \in 0..(MaxEchoes - UnderWay) :
          /\ flightStart' = s \cup (IF flightStart = {} THEN {} ELSE {"stale"})
          /\ flightStops' = [a \in Age |-> IF a = "own" THEN n ELSE UnderWay]
    BY <1>5 DEF TriggerOn
  <2>4. flightStops' \in [Age -> Nat] /\ UnderWay' <= MaxEchoes
    <3>1. flightStops' \in [Age -> Nat]
      BY <2>2, <2>3
    <3>2. flightStops'["own"] = n /\ flightStops'["stale"] = UnderWay
      BY <2>3 DEF Age
    <3>3. QED
      BY <2>2, <3>1, <3>2 DEF UnderWay
  <2>5. flightStart' \subseteq Age
    BY <2>3 DEF Age
  <2>6. on' \subseteq OutputPins
    BY <1>5 DEF TriggerOn, OutputPins
  <2>7. QED
    BY <1>5, <2>4, <2>5, <2>6 DEF TriggerOn
<1>6. CASE TriggerOff
  BY <1>6 DEF TriggerOff, UnderWay
<1>7. CASE Wait
  BY <1>7 DEF Wait, Unwritten, Stamp, UnderWay
<1>8. CASE ReceiveStart
  <2>1. start' \in Stamp
    BY <1>8, QueueSteps DEF ReceiveStart, ReceivedStart, Stamp
  <2>2. QED
    BY <1>8, <2>1 DEF ReceiveStart, UnderWay
<1>9. CASE NoStartReceived
  BY <1>9 DEF NoStartReceived, ErrorsAndWarnings, UnderWay
<1>10. CASE ReceiveStop
  <2>1. stops' \in [1..STOP_QUEUE_LENGTH -> Stamp]
    BY <1>10, QueueSteps DEF ReceiveStop, ReceivedStop, Stamp
  <2>2. QED
    BY <1>10, <2>1 DEF ReceiveStop, UnderWay
<1>11. CASE StopTimeout
  BY <1>11 DEF StopTimeout, UnderWay
<1>12. CASE NoStopReceived
  BY <1>12 DEF NoStopReceived, ErrorsAndWarnings, UnderWay
<1>13. CASE StoreTimes
  <2>1. times' \in Seq(RowType) /\ Len(times') = Len(times) + 1
    BY <1>13, RowHasType DEF StoreTimes
  <2>2. Len(times) < N
    BY <1>13 DEF StoreTimes
  <2>3. QED
    BY <1>13, <2>1, <2>2 DEF StoreTimes, Unwritten, Stamp, UnderWay
<1>14. CASE CalculateTimeOfFlight
  BY <1>14 DEF CalculateTimeOfFlight, Worth, Worths, ErrorsAndWarnings, UnderWay
<1>15. CASE DisableInterrupt
  BY <1>15 DEF DisableInterrupt, disableStartStopInterrupt, UnderWay
<1>16. CASE DisableTdc1000
  BY <1>16 DEF DisableTdc1000, disableTdc1000, Nothing, UnderWay, Age
<1>17. CASE DisableVdd
  BY <1>17 DEF DisableVdd, disableVdd, Unwritten, Stamp, UnderWay
<1>18. ASSUME NEW age \in Age, StartEdge(age) PROVE TypeOK'
  BY <1>18 DEF StartEdge, taskVars, UnderWay
<1>19. ASSUME NEW age \in Age, StopEdge(age) PROVE TypeOK'
  <2>1. /\ flightStops' \in [Age -> Nat] /\ UnderWay' <= MaxEchoes
    BY <1>19 DEF StopEdge, UnderWay, Age
  <2>2. QED
    BY <1>19, <2>1 DEF StopEdge, taskVars
<1>20. CASE UNCHANGED vars
  BY <1>20 DEF vars, taskVars, UnderWay
<1>21. QED
  BY <1>1, <1>2, <1>3, <1>4, <1>5, <1>6, <1>7, <1>8, <1>9, <1>10, <1>11, <1>12,
     <1>13, <1>14, <1>15, <1>16, <1>17, <1>18, <1>19, <1>20
     DEF Next, Task, Edge

(* No reachable state holds a value of the wrong type, and no queue, row   *)
(* count or number of attempts exceeds its bound.                          *)
THEOREM TypeCorrect == Spec => []TypeOK
BY InitTypeOK, StepTypeOK, PTL DEF Spec
-----------------------------------------------------------------------------
(* The pins. *)
LEMMA StepPins == TypeOK /\ PinsFollowTask /\ [Next]_vars => PinsFollowTask'
<1> SUFFICES ASSUME TypeOK, PinsFollowTask, [Next]_vars PROVE PinsFollowTask'
  OBVIOUS
<1> USE DEF PinsFollowTask, Listening, InLoop, ChannelIs, Drives, gpioVars
<1>0. pc \in PC /\ path \in Path
  BY DEF TypeOK
<1>1. ASSUME NEW p \in Paths, Call(p[1], p[2]) PROVE PinsFollowTask'
  <2>1. path' = p /\ p[1] \in Axis
    BY <1>1, Wiring DEF Call, Path
  <2>2. QED
    BY <1>1, <2>1 DEF Call, selectChannel, Axis
<1>2. CASE EnableVdd
  BY <1>0, <1>2, Wiring, PinsDisjoint DEF EnableVdd, enableVdd
<1>3. CASE EnableTdc1000
  BY <1>0, <1>3, Wiring, PinsDisjoint DEF EnableTdc1000, enableTdc1000
<1>4. CASE EnableInterrupt
  BY <1>0, <1>4 DEF EnableInterrupt, enableStartStopInterrupt
<1>5. CASE TriggerOn
  BY <1>0, <1>5, PinsDisjoint DEF TriggerOn
<1>6. CASE TriggerOff
  BY <1>0, <1>6, PinsDisjoint DEF TriggerOff
<1>7. CASE UNCHANGED <<on, intr, path>> /\ (pc' = pc \/ (Listening /\ Listening' /\ pc # "triggerOff"))
  BY <1>0, <1>7 DEF PC
<1>8. CASE DisableInterrupt
  BY <1>0, <1>8 DEF DisableInterrupt, disableStartStopInterrupt
<1>9. CASE DisableTdc1000
  BY <1>0, <1>9, PinsDisjoint DEF DisableTdc1000, disableTdc1000
<1>10. CASE DisableVdd
  <2>1. on' \subseteq {"CHSEL"}
    BY <1>10 DEF DisableVdd, disableVdd, TypeOK, GpioTypeOK, OutputPins
  <2>2. QED
    BY <1>0, <1>10, <2>1 DEF DisableVdd
<1>11. QED
  BY <1>1, <1>2, <1>3, <1>4, <1>5, <1>6, <1>7, <1>8, <1>9, <1>10
     DEF Next, Task, Edge, vars, taskVars, Wait, ReceiveStart, NoStartReceived,
         ReceiveStop, StopTimeout, NoStopReceived, StoreTimes, CalculateTimeOfFlight,
         StartEdge, StopEdge

LEMMA PinsInvariant == Spec => [](TypeOK /\ PinsFollowTask)
<1>1. Init => PinsFollowTask
  BY DEF Init, initGpio, initStartStop, PinsFollowTask, Listening, InLoop
<1>2. QED
  BY <1>1, InitTypeOK, StepTypeOK, StepPins, PTL DEF Spec

(* Whenever a handler can run, the hardware is set up for the path of the  *)
(* call in progress and no other one; between calls it is off.             *)
THEOREM OnePathAtATime == Spec => []ListensToOnePath
<1>1. TypeOK /\ PinsFollowTask => ListensToOnePath
  BY DEF TypeOK, PC, PinsFollowTask, Listening, InLoop, ListensToOnePath
<1>2. QED
  BY <1>1, PinsInvariant, PTL
-----------------------------------------------------------------------------
(* The edges.  Nothing ever changes whether the queues exist. *)
LEMMA InTimeFixed == [Next]_vars => InTime' = InTime
<1>1. [Next]_vars => handles' = handles
  BY DEF Next, Task, Edge, Call, EnableVdd, EnableTdc1000, EnableInterrupt, TriggerOn,
         TriggerOff, Wait, ReceiveStart, NoStartReceived, ReceiveStop, StopTimeout,
         NoStopReceived, StoreTimes, CalculateTimeOfFlight, DisableInterrupt,
         DisableTdc1000, DisableVdd, StartEdge, StopEdge, vars, gpioVars
<1>2. QED
  BY <1>1 DEF InTime

(* In time, edges are under way only while the task waits for them, and a  *)
(* start stamp waits in its queue only until the task asks for it.         *)
LEMMA StepEdges == TypeOK /\ EdgesAreOwn /\ [Next]_vars => EdgesAreOwn'
<1> SUFFICES ASSUME TypeOK, EdgesAreOwn, [Next]_vars, InTime PROVE EdgesAreOwn'
  BY InTimeFixed DEF EdgesAreOwn
<1>0. /\ startQueue \in Seq(Age)
      /\ flightStart \subseteq {"own"} /\ flightStops \in [Age -> Nat]
      /\ flightStops["stale"] = 0
  BY DEF TypeOK, GpioTypeOK, EdgesAreOwn
<1> USE DEF EdgesAreOwn, InBatch, gpioVars, flightVars
<1>1. ASSUME NEW p \in Paths, Call(p[1], p[2]) PROVE EdgesAreOwn'
  BY <1>1 DEF Call
<1>2. CASE EnableVdd
  BY <1>2 DEF EnableVdd
<1>3. CASE EnableTdc1000
  BY <1>3 DEF EnableTdc1000
<1>4. CASE EnableInterrupt
  BY <1>4 DEF EnableInterrupt
<1>5. CASE TriggerOn
  <2>1. startQueue = <<>> /\ flightStart = {} /\ UnderWay = 0
    BY <1>5 DEF TriggerOn, UnderWay
  <2>2. startQueue' = <<>>
    BY <1>5, <2>1 DEF TriggerOn, Aged
  <2>3. flightStart' \subseteq {"own"}
    BY <1>5, <2>1 DEF TriggerOn
  <2>4. flightStops'["stale"] = 0
    <3>1. PICK n \in Nat : flightStops' = [a \in Age |-> IF a = "own" THEN n ELSE UnderWay]
      BY <1>5, <2>1 DEF TriggerOn
    <3>2. QED
      BY <2>1, <3>1 DEF Age
  <2>5. QED
    BY <1>5, <2>2, <2>3, <2>4 DEF TriggerOn, AllOwn
<1>6. CASE TriggerOff
  BY <1>6 DEF TriggerOff
<1>7. CASE Wait
  <2>1. flightStart = {} /\ flightStops["own"] = 0
    BY <1>7 DEF Wait, InTime, Settled, Nothing, Age
  <2>2. QED
    BY <1>7, <2>1 DEF Wait
<1>8. CASE ReceiveStart
  <2>1. startQueue # <<>> /\ startQueue' = Tail(startQueue)
    BY <1>8 DEF ReceiveStart, ReceivedStart, NoQueue, InTime, TypeQueue
  <2>2. startQueue' = <<>>
    BY <1>0, <2>1
  <2>3. QED
    BY <1>8, <2>2 DEF ReceiveStart, AllOwn
<1>9. CASE NoStartReceived
  BY <1>9 DEF NoStartReceived, TimedOutStart
<1>10. CASE ReceiveStop
  BY <1>10 DEF ReceiveStop
<1>11. CASE StopTimeout
  BY <1>11 DEF StopTimeout
<1>12. CASE NoStopReceived
  BY <1>12 DEF NoStopReceived
<1>13. CASE StoreTimes
  BY <1>13 DEF StoreTimes
<1>14. CASE CalculateTimeOfFlight
  BY <1>14 DEF CalculateTimeOfFlight
<1>15. CASE DisableInterrupt
  BY <1>15 DEF DisableInterrupt
<1>16. CASE DisableTdc1000
  BY <1>16 DEF DisableTdc1000, Nothing, Age
<1>17. CASE DisableVdd
  BY <1>17 DEF DisableVdd
<1>18. ASSUME NEW age \in Age, StartEdge(age) PROVE EdgesAreOwn'
  <2>1. age = "own" /\ startQueue = <<>> /\ flightStart' = {} /\ pc \in {"triggerOff", "wait"}
    BY <1>0, <1>18 DEF StartEdge
  <2>2. startQueue' = startQueue \/ startQueue' = Append(startQueue, "own")
    BY <1>18, <2>1 DEF StartEdge, gpioIsrHandlerStart
  <2>3. AllOwn(startQueue') /\ Len(startQueue') <= 1
    <3>1. CASE startQueue' = startQueue
      BY <1>0, <2>1, <3>1 DEF AllOwn
    <3>2. CASE startQueue' = Append(startQueue, "own")
      <4>1. Len(startQueue) = 0 /\ "own" \in Age
        BY <1>0, <2>1 DEF Age
      <4>2. Len(startQueue') = 1 /\ startQueue' \in Seq(Age) /\ startQueue'[1] = "own"
        BY <1>0, <3>2, <4>1
      <4>3. QED
        BY <4>2 DEF AllOwn
    <3>3. QED
      BY <2>2, <3>1, <3>2
  <2>4. pc' = pc /\ flightStops' = flightStops
    BY <1>18 DEF StartEdge, taskVars
  <2>5. QED
    BY <1>0, <2>1, <2>3, <2>4 DEF AllOwn
<1>19. ASSUME NEW age \in Age, StopEdge(age) PROVE EdgesAreOwn'
  <2>1. age = "own" /\ pc \in {"triggerOff", "wait"}
    BY <1>0, <1>19 DEF StopEdge, Age
  <2>2. flightStops'["stale"] = 0
    BY <1>0, <1>19, <2>1 DEF StopEdge, Age
  <2>3. QED
    BY <1>19, <2>1, <2>2 DEF StopEdge, taskVars
<1>20. CASE UNCHANGED vars
  BY <1>20 DEF vars, taskVars
<1>21. QED
  BY <1>1, <1>2, <1>3, <1>4, <1>5, <1>6, <1>7, <1>8, <1>9, <1>10, <1>11, <1>12,
     <1>13, <1>14, <1>15, <1>16, <1>17, <1>18, <1>19, <1>20
     DEF Next, Task, Edge

(* In time, the stop queue is emptied by the row it was filled for, and    *)
(* what the row takes out of it lies in the row's first slots.             *)
LEMMA StepQueuesDrained ==
  TypeOK /\ EdgesAreOwn /\ QueuesDrained /\ [Next]_vars => QueuesDrained'
<1> SUFFICES ASSUME TypeOK, EdgesAreOwn, QueuesDrained, [Next]_vars, InTime
             PROVE  QueuesDrained'
  BY InTimeFixed DEF QueuesDrained
<1>0. /\ stopQueue \in Seq(Age) /\ Len(stopQueue) <= STOP_QUEUE_LENGTH
      /\ k \in 0..STOP_QUEUE_LENGTH /\ arrivedStopPulses \in 0..k
      /\ stops \in [1..STOP_QUEUE_LENGTH -> Stamp]
      /\ BeforeLoop => times = <<>>
      /\ handles = TypeQueue
  BY DEF TypeOK, GpioTypeOK, InTime
<1> USE DEF QueuesDrained, InBatch, gpioVars, flightVars
<1>1. ASSUME NEW p \in Paths, Call(p[1], p[2]) PROVE QueuesDrained'
  BY <1>1 DEF Call
<1>2. CASE EnableVdd
  BY <1>2 DEF EnableVdd
<1>3. CASE EnableTdc1000
  BY <1>3 DEF EnableTdc1000
<1>4. CASE EnableInterrupt
  BY <1>0, <1>4 DEF EnableInterrupt, BeforeLoop
<1>5. CASE TriggerOn
  BY <1>5 DEF TriggerOn, Aged, AllOwn
<1>6. CASE TriggerOff
  BY <1>6 DEF TriggerOff
<1>7. CASE Wait
  BY <1>7 DEF Wait
<1>8. CASE ReceiveStart
  <2>1. start' = "own"
    BY <1>8 DEF ReceiveStart, ReceivedStart, NoQueue, InTime, TypeQueue, EdgesAreOwn, AllOwn
  <2>2. QED
    BY <1>0, <1>8, <2>1 DEF ReceiveStart
<1>9. CASE NoStartReceived
  BY <1>9 DEF NoStartReceived
<1>10. CASE ReceiveStop
  <2>1. /\ pc = "receiveStop" /\ pc' = pc /\ k < STOP_QUEUE_LENGTH
        /\ stopQueue # <<>> /\ stopQueue' = Tail(stopQueue)
        /\ stops' = [stops EXCEPT ![k + 1] = Head(stopQueue)]
        /\ k' = k + 1 /\ arrivedStopPulses' = arrivedStopPulses + 1
        /\ UNCHANGED <<start, times>>
    BY <1>0, <1>10 DEF ReceiveStop, ReceivedStop, NoQueue, TypeQueue
  <2>2. arrivedStopPulses = k
    BY <1>0, <2>1
  <2>3. Len(stopQueue') = Len(stopQueue) - 1
    BY <1>0, <2>1
  <2>4. /\ Head(stopQueue) # "junk"
        /\ times # <<>> => Head(stopQueue) = "own" /\ AllOwn(stopQueue')
    BY <1>0, <2>1 DEF AllOwn, Age
  <2>5. \A n \in 1..arrivedStopPulses' :
          stops'[n] # "junk" /\ (times # <<>> => stops'[n] = "own")
    BY <1>0, <2>1, <2>2, <2>4
  <2>6. QED
    BY <1>0, <2>1, <2>2, <2>3, <2>4, <2>5 DEF AllOwn
<1>11. CASE StopTimeout
  BY <1>0, <1>11 DEF StopTimeout, TimedOutStop
<1>12. CASE NoStopReceived
  BY <1>12 DEF NoStopReceived
<1>13. CASE StoreTimes
  BY <1>0, <1>13 DEF StoreTimes
<1>14. CASE CalculateTimeOfFlight
  BY <1>14 DEF CalculateTimeOfFlight
<1>15. CASE DisableInterrupt
  BY <1>15 DEF DisableInterrupt
<1>16. CASE DisableTdc1000
  BY <1>16 DEF DisableTdc1000
<1>17. CASE DisableVdd
  BY <1>17 DEF DisableVdd
<1>18. ASSUME NEW age \in Age, StartEdge(age) PROVE QueuesDrained'
  BY <1>18 DEF StartEdge, taskVars
<1>19. ASSUME NEW age \in Age, StopEdge(age) PROVE QueuesDrained'
  <2>1. age = "own" /\ pc \in {"triggerOff", "wait"}
    BY <1>19 DEF StopEdge, EdgesAreOwn, Age
  <2>2. AllOwn(stopQueue) => AllOwn(stopQueue')
    BY <1>0, <1>19, <2>1 DEF StopEdge, gpioIsrHandlerStop, AllOwn
  <2>3. QED
    BY <1>19, <2>1, <2>2 DEF StopEdge, taskVars, AllOwn
<1>20. CASE UNCHANGED vars
  BY <1>20 DEF vars, taskVars
<1>21. QED
  BY <1>1, <1>2, <1>3, <1>4, <1>5, <1>6, <1>7, <1>8, <1>9, <1>10, <1>11, <1>12,
     <1>13, <1>14, <1>15, <1>16, <1>17, <1>18, <1>19, <1>20
     DEF Next, Task, Edge

(* Storing a row is the only step that adds one. *)
LEMMA StepRows ==
  TypeOK /\ QueuesDrained /\ StaleOnlyInFirstRow /\ [Next]_vars => StaleOnlyInFirstRow'
<1> SUFFICES ASSUME TypeOK, QueuesDrained, StaleOnlyInFirstRow, [Next]_vars, InTime
             PROVE  StaleOnlyInFirstRow'
  BY InTimeFixed DEF StaleOnlyInFirstRow
<1> USE DEF StaleOnlyInFirstRow
<1>1. CASE StoreTimes
  <2>1. Row \in RowType /\ Len(Row.stops) = arrivedStopPulses
    BY RowHasType
  <2>2. /\ Row.start = start
        /\ \A n \in DOMAIN Row.stops : n \in 1..arrivedStopPulses /\ Row.stops[n] = stops[n]
    <3>1. /\ arrivedStopPulses \in Nat
          /\ \A i \in 1..arrivedStopPulses : stops[i] \in Stamp
      BY DEF TypeOK
    <3>2. \A i \in 1..arrivedStopPulses :
            SubSeq(stops, 1, arrivedStopPulses)[i] = stops[1 + i - 1]
      BY <3>1, SubSeqProperties, Z3
    <3>3. DOMAIN Row.stops = 1..arrivedStopPulses
      BY <2>1 DEF RowType
    <3>4. QED
      BY <3>1, <3>2, <3>3 DEF Row
  <2>3. /\ start = "own"
        /\ \A n \in 1..arrivedStopPulses :
             stops[n] # "junk" /\ (times # <<>> => stops[n] = "own")
    BY <1>1 DEF StoreTimes, QueuesDrained
  <2>4. /\ Row.start = "own"
        /\ \A j \in DOMAIN Row.stops : Row.stops[j] # "junk"
        /\ times # <<>> => Own(Row)
    BY <2>2, <2>3 DEF Own
  <2>5. times \in Seq(RowType) /\ times' = Append(times, Row)
    BY <1>1 DEF StoreTimes, TypeOK
  <2>6. /\ DOMAIN times' = 1..(Len(times) + 1)
        /\ \A i \in DOMAIN times : times'[i] = times[i]
        /\ times'[Len(times) + 1] = Row
        /\ DOMAIN times = 1..Len(times) /\ Len(times) \in Nat
    BY <2>1, <2>5
  <2>7. \A i \in DOMAIN times' : i \in DOMAIN times \/ i = Len(times) + 1
    BY <2>6
  <2>8. Len(times) + 1 > 1 => times # <<>>
    BY <2>5
  <2>9. QED
    BY InTimeFixed, <2>4, <2>6, <2>7, <2>8
<1>2. CASE times' = times
  BY <1>2, InTimeFixed DEF Own
<1>3. CASE times' = <<>>
  BY <1>3
<1>4. QED
  BY <1>1, <1>2, <1>3
     DEF Next, Task, Edge, Call, EnableVdd, EnableTdc1000, EnableInterrupt, TriggerOn,
         TriggerOff, Wait, ReceiveStart, NoStartReceived, ReceiveStop, StopTimeout,
         NoStopReceived, CalculateTimeOfFlight, DisableInterrupt,
         DisableTdc1000, DisableVdd, StartEdge, StopEdge, vars, taskVars

LEMMA EdgesInvariant ==
  Spec => [](TypeOK /\ EdgesAreOwn /\ QueuesDrained /\ StaleOnlyInFirstRow)
<1>1. Init => EdgesAreOwn /\ QueuesDrained /\ StaleOnlyInFirstRow
  BY DEF Init, initGpio, initStartStop, EdgesAreOwn, QueuesDrained, StaleOnlyInFirstRow,
         Nothing, Age, AllOwn, InBatch
<1>2. QED
  BY <1>1, InitTypeOK, StepTypeOK, StepEdges, StepQueuesDrained, StepRows, PTL DEF Spec

(* If both queues exist and every edge is in before the wait ends, then    *)
(* whatever a failed call left behind is gone after one row: every row but *)
(* the first is made of its own trigger's edges, and no slot of the local  *)
(* array stops is read that calculateTimes has not written.                *)
THEOREM QueuesCleanThemselves == Spec => []StaleOnlyInFirstRow
BY EdgesInvariant, PTL
-----------------------------------------------------------------------------
(* Under the same conditions, what a call leaves behind is told by what it *)
(* returns.                                                                *)
LEMMA StepNothingLeft ==
  TypeOK /\ EdgesAreOwn /\ QueuesDrained /\ NothingLeftBehind /\ [Next]_vars
    => NothingLeftBehind'
<1> SUFFICES ASSUME TypeOK, EdgesAreOwn, QueuesDrained, NothingLeftBehind, [Next]_vars, InTime
             PROVE  NothingLeftBehind'
  BY InTimeFixed DEF NothingLeftBehind
<1>0. /\ stopQueue \in Seq(Age)
      /\ k \in 0..STOP_QUEUE_LENGTH /\ arrivedStopPulses \in 0..k
      /\ stops \in [1..STOP_QUEUE_LENGTH -> Stamp]
      /\ handles = TypeQueue
  BY DEF TypeOK, GpioTypeOK, InTime
<1>a. AllOwn(<<>>)
  BY DEF AllOwn
<1> USE DEF NothingLeftBehind, LeftByCall, SettingUp, Deciding, InBatch, gpioVars, flightVars
<1>1. ASSUME NEW p \in Paths, Call(p[1], p[2]) PROVE NothingLeftBehind'
  BY <1>1 DEF Call
<1>2. CASE EnableVdd
  BY <1>2 DEF EnableVdd
<1>3. CASE EnableTdc1000
  BY <1>3 DEF EnableTdc1000
<1>4. CASE EnableInterrupt
  BY <1>4 DEF EnableInterrupt
<1>5. CASE TriggerOn
  <2>1. ~startLost => stopQueue' = <<>>
    BY <1>5 DEF TriggerOn, Aged
  <2>2. QED
    BY <1>5, <1>a, <2>1 DEF TriggerOn
<1>6. CASE TriggerOff
  BY <1>6 DEF TriggerOff
<1>7. CASE Wait
  BY <1>7 DEF Wait
<1>8. CASE ReceiveStart
  <2>1. arrivedStopPulses = 0
    BY <1>8 DEF ReceiveStart, QueuesDrained
  <2>2. QED
    BY <1>8, <2>1 DEF ReceiveStart
<1>9. CASE NoStartReceived
  BY <1>9 DEF NoStartReceived
<1>10. CASE ReceiveStop
  <2>1. /\ pc = "receiveStop" /\ pc' = pc /\ k < STOP_QUEUE_LENGTH
        /\ stopQueue # <<>> /\ stopQueue' = Tail(stopQueue)
        /\ stops' = [stops EXCEPT ![k + 1] = Head(stopQueue)]
        /\ k' = k + 1 /\ arrivedStopPulses' = arrivedStopPulses + 1
        /\ startLost' = startLost
    BY <1>0, <1>10 DEF ReceiveStop, ReceivedStop, NoQueue, TypeQueue
  <2>2. arrivedStopPulses = k
    BY <1>0, <2>1 DEF QueuesDrained
  <2>3. ~startLost => Head(stopQueue) = "own" /\ AllOwn(stopQueue')
    BY <1>0, <2>1 DEF AllOwn
  <2>4. ~startLost => \A n \in 1..arrivedStopPulses' : stops'[n] = "own"
    BY <1>0, <2>1, <2>2, <2>3
  <2>5. QED
    BY <2>1, <2>3, <2>4
<1>11. CASE StopTimeout
  BY <1>11 DEF StopTimeout
<1>12. CASE NoStopReceived
  <2>1. stopQueue = <<>>
    BY <1>0, <1>12 DEF NoStopReceived, QueuesDrained
  <2>2. QED
    BY <1>12, <1>a, <2>1 DEF NoStopReceived
<1>13. CASE StoreTimes
  <2>1. stopQueue = <<>>
    BY <1>0, <1>13 DEF StoreTimes, QueuesDrained
  <2>2. QED
    BY <1>13, <1>a, <2>1 DEF StoreTimes
<1>14. CASE CalculateTimeOfFlight
  BY <1>14 DEF CalculateTimeOfFlight
<1>15. CASE DisableInterrupt
  BY <1>15 DEF DisableInterrupt
<1>16. CASE DisableTdc1000
  BY <1>16 DEF DisableTdc1000
<1>17. CASE DisableVdd
  BY <1>17 DEF DisableVdd
<1>18. ASSUME NEW age \in Age, StartEdge(age) PROVE NothingLeftBehind'
  BY <1>18 DEF StartEdge, taskVars
<1>19. ASSUME NEW age \in Age, StopEdge(age) PROVE NothingLeftBehind'
  <2>1. age = "own" /\ pc \in {"triggerOff", "wait"}
    BY <1>19 DEF StopEdge, EdgesAreOwn, Age
  <2>2. stopQueue' = stopQueue \/ stopQueue' = Append(stopQueue, "own")
    BY <1>19, <2>1 DEF StopEdge, gpioIsrHandlerStop
  <2>3. "own" \in Age
    BY DEF Age
  <2>4. AllOwn(stopQueue) => AllOwn(stopQueue')
    BY <1>0, <2>2, <2>3 DEF AllOwn
  <2>5. QED
    BY <1>19, <2>1, <2>4 DEF StopEdge, taskVars
<1>20. CASE UNCHANGED vars
  BY <1>20 DEF vars, taskVars
<1>21. QED
  BY <1>1, <1>2, <1>3, <1>4, <1>5, <1>6, <1>7, <1>8, <1>9, <1>10, <1>11, <1>12,
     <1>13, <1>14, <1>15, <1>16, <1>17, <1>18, <1>19, <1>20
     DEF Next, Task, Edge

(* Then every row is its own pulse's. *)
LEMMA StepOwnEdges ==
  TypeOK /\ QueuesDrained /\ NothingLeftBehind /\ OwnEdgesOnly /\ [Next]_vars => OwnEdgesOnly'
<1> SUFFICES ASSUME TypeOK, QueuesDrained, NothingLeftBehind, OwnEdgesOnly, [Next]_vars, InTime
             PROVE  OwnEdgesOnly'
  BY InTimeFixed DEF OwnEdgesOnly
<1>1. CASE StoreTimes
  <2> SUFFICES ASSUME ~startLost PROVE \A i \in DOMAIN times' : Own(times'[i])
    BY <1>1 DEF StoreTimes, OwnEdgesOnly
  <2>0. \A i \in DOMAIN times : Own(times[i])
    BY DEF OwnEdgesOnly
  <2>1. Row \in RowType /\ Len(Row.stops) = arrivedStopPulses
    BY RowHasType
  <2>2. /\ Row.start = start
        /\ \A n \in DOMAIN Row.stops : n \in 1..arrivedStopPulses /\ Row.stops[n] = stops[n]
    <3>1. /\ arrivedStopPulses \in Nat
          /\ \A i \in 1..arrivedStopPulses : stops[i] \in Stamp
      BY DEF TypeOK
    <3>2. \A i \in 1..arrivedStopPulses :
            SubSeq(stops, 1, arrivedStopPulses)[i] = stops[1 + i - 1]
      BY <3>1, SubSeqProperties, Z3
    <3>3. DOMAIN Row.stops = 1..arrivedStopPulses
      BY <2>1 DEF RowType
    <3>4. QED
      BY <3>1, <3>2, <3>3 DEF Row
  <2>3. start = "own" /\ \A n \in 1..arrivedStopPulses : stops[n] = "own"
    BY <1>1 DEF StoreTimes, QueuesDrained, NothingLeftBehind
  <2>4. Own(Row)
    BY <2>2, <2>3 DEF Own
  <2>5. times \in Seq(RowType) /\ times' = Append(times, Row)
    BY <1>1 DEF StoreTimes, TypeOK
  <2>6. /\ DOMAIN times' = 1..(Len(times) + 1)
        /\ \A i \in DOMAIN times : times'[i] = times[i]
        /\ times'[Len(times) + 1] = Row
        /\ DOMAIN times = 1..Len(times) /\ Len(times) \in Nat
    BY <2>1, <2>5
  <2>7. \A i \in DOMAIN times' : i \in DOMAIN times \/ i = Len(times) + 1
    BY <2>6
  <2>8. QED
    BY <2>0, <2>4, <2>6, <2>7
<1>2. CASE times' = <<>>
  BY <1>2 DEF OwnEdgesOnly
<1>3. ASSUME NEW p \in Paths, Call(p[1], p[2]) PROVE OwnEdgesOnly'
  <2>1. times' = <<>>
    BY <1>3 DEF Call, TypeOK, BeforeLoop
  <2>2. QED
    BY <2>1 DEF OwnEdgesOnly
<1>4. CASE times' = times /\ startLost' = startLost
  BY <1>4 DEF OwnEdgesOnly
<1>5. QED
  BY <1>1, <1>2, <1>3, <1>4
     DEF Next, Task, Edge, EnableVdd, EnableTdc1000, EnableInterrupt, TriggerOn,
         TriggerOff, Wait, ReceiveStart, NoStartReceived, ReceiveStop, StopTimeout,
         NoStopReceived, CalculateTimeOfFlight, DisableInterrupt,
         DisableTdc1000, DisableVdd, StartEdge, StopEdge, vars, taskVars

(* A time that a call hands to app_main was made of the starts and stops   *)
(* of its own pulses unless the call before it lost a start, whichever     *)
(* other calls failed, for want of stops or with a time out of range.      *)
THEOREM NoEdgeOfAnotherCall == Spec => []OwnEdgesOnly
<1>1. Init => NothingLeftBehind /\ OwnEdgesOnly
  BY DEF Init, initGpio, initStartStop, NothingLeftBehind, LeftByCall, SettingUp, Deciding,
         InBatch, OwnEdgesOnly
<1>2. QED
  BY <1>1, EdgesInvariant, InitTypeOK, StepTypeOK, StepNothingLeft, StepOwnEdges, PTL DEF Spec
-----------------------------------------------------------------------------
(* The promise. *)
LEMMA StepLoop == TypeOK /\ LoopEndsFullOrFailed /\ [Next]_vars => LoopEndsFullOrFailed'
<1> SUFFICES ASSUME TypeOK, LoopEndsFullOrFailed, [Next]_vars
             PROVE  LoopEndsFullOrFailed'
  OBVIOUS
<1> USE DEF LoopEndsFullOrFailed, Deciding, gpioVars
<1>1. CASE StoreTimes
  <2>1. Len(times') = Len(times) + 1 /\ Len(times) < N /\ Len(times) \in Nat
    BY <1>1, RowHasType DEF StoreTimes, TypeOK, InLoop
  <2>2. QED
    BY <1>1, <2>1 DEF StoreTimes
<1>2. ASSUME NEW p \in Paths, Call(p[1], p[2]) PROVE LoopEndsFullOrFailed'
  BY <1>2 DEF Call
<1>3. CASE UNCHANGED <<pc, times, errorsAndWarnings>>
  BY <1>3
<1>4. CASE Deciding' \/ pc' = "idle"
  BY <1>4
<1>5. CASE /\ pc \notin {"idle", "calculateTimeOfFlight"} /\ ~Deciding
           /\ pc' # "calculateTimeOfFlight" /\ UNCHANGED errorsAndWarnings
  BY <1>5
<1>6. QED
  BY <1>1, <1>2, <1>3, <1>4, <1>5
     DEF Next, Task, Edge, EnableVdd, EnableTdc1000, EnableInterrupt, TriggerOn,
         TriggerOff, Wait, ReceiveStart, NoStartReceived, ReceiveStop, StopTimeout,
         NoStopReceived, CalculateTimeOfFlight, DisableInterrupt,
         DisableTdc1000, DisableVdd, StartEdge, StopEdge, vars, taskVars

(* Two different paths never share all their pins. *)
LEMMA DrivesOne ==
  ASSUME NEW p \in Path, NEW q \in Path, Drives(p), Drives(q)
  PROVE  p = q
BY DEF Drives, TdcOf, Path, Axis, Direction

(* The paths the hardware listens to, as PathMeasurement sees them. *)
ListeningSetIs ==
  /\ Listening => {p \in Path : Drives(p)} = {path}
  /\ ~Listening => {p \in Path : Drives(p)} = {}

LEMMA ListeningSet == TypeOK /\ PinsFollowTask => ListeningSetIs
<1> SUFFICES ASSUME TypeOK, PinsFollowTask PROVE ListeningSetIs
  OBVIOUS
<1>1. path \in Path
  BY DEF TypeOK
<1>2. Listening => {p \in Path : Drives(p)} = {path}
  BY <1>1, DrivesOne DEF PinsFollowTask
<1>3. ~Listening => intr = {}
  BY DEF TypeOK, PC, PinsFollowTask, Listening, InLoop
<1>4. \A p \in Path : Drives(p) => intr # {}
  BY DEF Drives
<1>5. QED
  BY <1>2, <1>3, <1>4 DEF ListeningSetIs

CallInv == TypeOK /\ PinsFollowTask /\ LoopEndsFullOrFailed /\ ListeningSetIs

LEMMA CallInvariant == Spec => []CallInv
<1>1. Init => LoopEndsFullOrFailed
  BY DEF Init, LoopEndsFullOrFailed
<1>2. QED
  BY <1>1, InitTypeOK, StepTypeOK, StepLoop, PinsInvariant, ListeningSet, PTL
     DEF Spec, CallInv

(* Every step of a call is a step of PathMeasurement or changes nothing it *)
(* speaks of.                                                              *)
LEMMA StepKeepsPromise ==
  CallInv /\ CallInv' /\ [Next]_vars => [Promise!Next]_(Promise!vars)
<1> SUFFICES ASSUME CallInv, CallInv', [Next]_vars
             PROVE  Promise!Next \/ UNCHANGED Promise!vars
  BY DEF Promise!vars
<1> DEFINE listening == {p \in Path : Drives(p)}
<1>0. /\ listening = IF Listening THEN {path} ELSE {}
      /\ listening' = IF Listening' THEN {path'} ELSE {}
      /\ path \in Paths /\ path' \in Paths
      /\ Len(times) \in Nat
      /\ BeforeLoop => Len(times) = 0
      /\ InLoop => Len(times) < N
  BY DEF CallInv, ListeningSetIs, TypeOK, BeforeLoop
<1> HIDE DEF listening
<1> USE DEF Listening, InLoop, BeforeLoop, Deciding, PulseUnevaluated, gpioVars, Promise!vars
<1>1. ASSUME NEW p \in Paths, Call(p[1], p[2]) PROVE Promise!Ask(p)
  <2>1. path' = p
    BY <1>1, Wiring DEF Call
  <2>2. QED
    BY <1>0, <1>1, <2>1 DEF Call, Promise!Ask, listening
(* The steps PathMeasurement does not see. *)
<1>2. CASE \/ EnableVdd \/ EnableTdc1000 \/ TriggerOff \/ Wait \/ ReceiveStart
           \/ ReceiveStop \/ StopTimeout \/ DisableTdc1000
           \/ UNCHANGED vars \/ Edge
  <2>1. UNCHANGED <<times, errorsAndWarnings, timeOfFlight, path>>
    BY <1>2 DEF EnableVdd, EnableTdc1000, TriggerOff, Wait, ReceiveStart, ReceiveStop,
         StopTimeout, DisableTdc1000, Edge, StartEdge, StopEdge, vars, taskVars
  <2>2. /\ (pc = "idle") = (pc' = "idle") /\ Listening = Listening'
        /\ Deciding = Deciding' /\ PulseUnevaluated = PulseUnevaluated'
    BY <1>2, <2>1 DEF EnableVdd, EnableTdc1000, TriggerOff, Wait, ReceiveStart, ReceiveStop,
         StopTimeout, DisableTdc1000, Edge, StartEdge, StopEdge, vars, taskVars
  <2>3. listening' = listening
    BY <1>0, <2>1, <2>2
  <2>4. UNCHANGED Promise!vars
    BY <2>1, <2>2, <2>3 DEF listening
  <2>5. QED
    BY <2>4
<1>3. CASE EnableInterrupt
  <2>1. Promise!Listen
    BY <1>0, <1>3 DEF EnableInterrupt, Promise!Listen, listening
  <2>2. QED
    BY <2>1 DEF Promise!Next
<1>4. CASE TriggerOn
  <2>1. Promise!Pulse
    BY <1>0, <1>4 DEF TriggerOn, Promise!Pulse, listening
  <2>2. QED
    BY <2>1 DEF Promise!Next
<1>5. CASE NoStartReceived
  <2>1. Promise!Fail("ERROR_NO_START_RECEIVED")
    BY <1>0, <1>5 DEF NoStartReceived, Promise!Fail, listening
  <2>2. QED
    BY <2>1 DEF Promise!Next, Promise!ErrorsAndWarnings
<1>6. CASE NoStopReceived
  <2>1. Promise!Fail("ERROR_NO_STOP_RECEIVED")
    BY <1>0, <1>6 DEF NoStopReceived, Promise!Fail, listening
  <2>2. QED
    BY <2>1 DEF Promise!Next, Promise!ErrorsAndWarnings
<1>7. CASE StoreTimes
  <2>1. Len(times') = Len(times) + 1
    BY <1>7, RowHasType DEF StoreTimes, CallInv, TypeOK
  <2>2. UNCHANGED Promise!vars
    BY <1>0, <1>7, <2>1 DEF StoreTimes, listening
  <2>3. QED
    BY <2>2
<1>8. CASE CalculateTimeOfFlight
  <2>1. Promise!Succeed \/ Promise!Fail("ERROR_TIME_OUT_OF_RANGE")
    BY <1>0, <1>8 DEF CalculateTimeOfFlight, Promise!Succeed, Promise!Fail, listening,
       CallInv, LoopEndsFullOrFailed, Worth, Worths
  <2>2. QED
    BY <2>1 DEF Promise!Next, Promise!ErrorsAndWarnings
<1>9. CASE DisableInterrupt
  <2>1. Promise!Deafen
    BY <1>0, <1>9 DEF DisableInterrupt, Promise!Deafen, listening
  <2>2. QED
    BY <2>1 DEF Promise!Next
<1>10. CASE DisableVdd
  <2>1. Promise!Return
    BY <1>0, <1>10 DEF DisableVdd, Promise!Return, listening
  <2>2. QED
    BY <2>1 DEF Promise!Next
<1>11. QED
  BY <1>1, <1>2, <1>3, <1>4, <1>5, <1>6, <1>7, <1>8, <1>9, <1>10
     DEF Next, Task, Promise!Next, vars

(* The calls of measureTimeOfFlight keep the promise of PathMeasurement    *)
(* whatever the number of pulses, the lengths of the queues, the paths     *)
(* asked for, the edges lost or late and the queues that were created.     *)
THEOREM PromiseKept == Spec => KeepsPromise
<1>1. Init => Promise!Init
  <2> SUFFICES ASSUME Init PROVE Promise!Init
    OBVIOUS
  <2>1. {p \in Path : Drives(p)} = {}
    BY DEF Init, initGpio, initStartStop, Drives
  <2>2. QED
    BY <2>1 DEF Init, Promise!Init, PulseUnevaluated, Deciding
<1>2. QED
  BY <1>1, CallInvariant, StepKeepsPromise, PTL DEF Spec, KeepsPromise, Promise!Spec
=============================================================================
