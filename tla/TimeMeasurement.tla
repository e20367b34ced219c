-------------------------- MODULE TimeMeasurement --------------------------
(***************************************************************************)
(* One time-of-flight measurement (TimeMeasurementAnemoi.c of              *)
(* Anemoi+Blynk): measureTimeOfFlight and calculateTimes run in the main   *)
(* task, step by step, against the interrupt handlers of GpioAnemoi.c and  *)
(* against the TDC1000, which answers each trigger with a START edge and   *)
(* some STOP edges whenever it pleases.                                    *)
(*                                                                         *)
(* A cycle stamp is abstracted to its age: "own" if the edge answers the   *)
(* latest trigger, "stale" if it answers an earlier one, "junk" if the     *)
(* variable was never written.  A time of flight is meaningful exactly     *)
(* when its start and its stop are both "own" when they are received.      *)
(***************************************************************************)
EXTENDS GpioAnemoi

CONSTANTS
  N,          (* pulses per measurement: 20 in Anemoi+Blynk                 *)
  MaxEchoes,  (* bound: STOP edges in flight                                *)
  LateEdges,  (* may edges still be under way when the 2 ms wait is over?   *)
  Paths,      (* the paths measured: all four in app_main                   *)
  Created     (* which sets of queues xQueueCreate may manage to create     *)

ASSUME MeasurementAssumption ==
  /\ N \in Nat \ {0}
  /\ MaxEchoes \in Nat
  /\ LateEdges \in BOOLEAN
  /\ Paths \subseteq Path /\ Paths # {}
  /\ Created \subseteq SUBSET TypeQueue /\ Created # {}

VARIABLES
  pc,                 (* where the main task is                             *)
  path,               (* axis and direction of the latest call              *)
  times,              (* the rows times[i] with timesCount[i] stops each    *)
  start, stops,       (* locals of calculateTimes                           *)
  k,                  (* stop receptions attempted (i of calculateTimes)    *)
  arrivedStopPulses,  (* and how many of them succeeded                     *)
  errorsAndWarnings,  (* what the call will return                          *)
  startLost,          (* history: did the call before it lose a start?      *)
  timeOfFlight,       (* app_main's four variables, by path                 *)
  flightStart,        (* environment: START edges under way, by age         *)
  flightStops         (* environment: number of STOP edges under way, by age*)

taskVars == <<pc, path, times, start, stops, k, arrivedStopPulses,
              errorsAndWarnings, startLost, timeOfFlight>>
flightVars == <<flightStart, flightStops>>
vars == <<gpioVars, taskVars, flightVars>>

Age == {"own", "stale"}
Stamp == Age \cup {"junk"}
Unwritten == [n \in 1..STOP_QUEUE_LENGTH |-> "junk"]
Nothing == [a \in Age |-> 0]

(* A trigger makes every stamp taken so far belong to an earlier trigger. *)
Aged(queue) == [n \in DOMAIN queue |-> "stale"]

Init ==
  /\ \E created \in Created : initGpio(created)
  /\ pc = "idle"
  /\ path \in Paths
  /\ times = <<>>
  /\ start = "junk" /\ stops = Unwritten /\ k = 0 /\ arrivedStopPulses = 0
  /\ errorsAndWarnings = "NO_ERRORS_NO_WARNINGS" /\ startLost = FALSE
  /\ timeOfFlight = [p \in Paths |-> "initial"]
  /\ flightStart = {} /\ flightStops = Nothing
-----------------------------------------------------------------------------
(* The paths share one task, so a call starts only between calls. *)
Call(axis, direction) ==
  /\ pc = "idle" /\ pc' = "enableVdd"
  /\ path' = <<axis, direction>>
  /\ errorsAndWarnings' = "NO_ERRORS_NO_WARNINGS"
  /\ startLost' = (errorsAndWarnings = "ERROR_NO_START_RECEIVED")
  /\ selectChannel(axis)
  /\ UNCHANGED <<intr, handles, startQueue, stopQueue, times, start, stops, k,
                 arrivedStopPulses, timeOfFlight, flightVars>>

EnableVdd ==
  /\ pc = "enableVdd" /\ pc' = "enableTdc1000"
  /\ enableVdd(path[1], path[2])
  /\ UNCHANGED <<intr, handles, startQueue, stopQueue, path, startLost, times, start, stops, k,
                 arrivedStopPulses, errorsAndWarnings, timeOfFlight, flightVars>>

(* With the 5 ms delay, during which nothing is under way. *)
EnableTdc1000 ==
  /\ pc = "enableTdc1000" /\ pc' = "enableInterrupt"
  /\ enableTdc1000(path[2])
  /\ UNCHANGED <<intr, handles, startQueue, stopQueue, path, startLost, times, start, stops, k,
                 arrivedStopPulses, errorsAndWarnings, timeOfFlight, flightVars>>

EnableInterrupt ==
  /\ pc = "enableInterrupt" /\ pc' = "trigger"
  /\ enableStartStopInterrupt(path[2])
  /\ UNCHANGED <<on, handles, startQueue, stopQueue, path, startLost, times, start, stops, k,
                 arrivedStopPulses, errorsAndWarnings, timeOfFlight, flightVars>>
-----------------------------------------------------------------------------
(* The rising edge of the trigger pin: an enabled TDC1000 drives the       *)
(* powered transducer and answers with a START edge and with as many STOP  *)
(* edges as it recognises, none when the path is blocked.                  *)
Fires == on \cap TdcPins # {} /\ on \cap VddPins # {}
UnderWay == flightStops["own"] + flightStops["stale"]

TriggerOn ==
  /\ pc = "trigger" /\ pc' = "triggerOff"
  /\ on' = on \cup {"ESP_TRIGG"}
  /\ startQueue' = Aged(startQueue) /\ stopQueue' = Aged(stopQueue)
  /\ \E s \in SUBSET {"own"}, n \in 0..(MaxEchoes - UnderWay) :
       /\ ~Fires => s = {} /\ n = 0
       /\ flightStart' = s \cup (IF flightStart = {} THEN {} ELSE {"stale"})
       /\ flightStops' = [a \in Age |-> IF a = "own" THEN n ELSE UnderWay]
  /\ UNCHANGED <<intr, handles, path, startLost, times, start, stops, k,
                 arrivedStopPulses, errorsAndWarnings, timeOfFlight>>

(* After 1 ms. *)
TriggerOff ==
  /\ pc = "triggerOff" /\ pc' = "wait"
  /\ on' = on \ {"ESP_TRIGG"}
  /\ UNCHANGED <<intr, handles, startQueue, stopQueue, path, startLost, times, start, stops, k,
                 arrivedStopPulses, errorsAndWarnings, timeOfFlight, flightVars>>

(* vTaskDelay(2 ms), "wait for transmission and reception". *)
Settled == flightStart = {} /\ flightStops = Nothing

NoWait ==
  /\ pc = "wait" /\ pc' = "receiveStart"
  /\ stops' = Unwritten /\ k' = 0 /\ arrivedStopPulses' = 0
  /\ UNCHANGED <<gpioVars, path, startLost, times, start, errorsAndWarnings, timeOfFlight, flightVars>>

Wait ==
  /\ pc = "wait" /\ pc' = "receiveStart"
  /\ ~LateEdges => Settled
  /\ stops' = Unwritten /\ k' = 0 /\ arrivedStopPulses' = 0
  /\ UNCHANGED <<gpioVars, path, startLost, times, start, errorsAndWarnings, timeOfFlight, flightVars>>
-----------------------------------------------------------------------------
(* calculateTimes.  start is initialised to 0, stops is not: a start that  *)
(* getQueueCycles "received" from no queue is as meaningless as junk.      *)
ReceiveStart ==
  /\ pc = "receiveStart" /\ pc' = "receiveStop"
  /\ \/ ReceivedStart /\ start' = Head(startQueue)
     \/ NoQueue("START_QUEUE") /\ start' = "junk" /\ UNCHANGED startQueue
  /\ UNCHANGED <<on, intr, handles, stopQueue, path, startLost, times, stops, k,
                 arrivedStopPulses, errorsAndWarnings, timeOfFlight, flightVars>>

(* The error breaks the loop over the pulses; the stops stay queued. *)
NoStartReceived ==
  /\ pc = "receiveStart" /\ pc' = "disableInterrupt"
  /\ TimedOutStart
  /\ errorsAndWarnings' = "ERROR_NO_START_RECEIVED"
  /\ UNCHANGED <<gpioVars, path, startLost, times, start, stops, k,
                 arrivedStopPulses, timeOfFlight, flightVars>>

(* Attempt k goes to stops[k], whether or not the attempts before it       *)
(* succeeded; an attempt that times out leaves its slot unwritten.         *)
ReceiveStop ==
  /\ pc = "receiveStop" /\ k < STOP_QUEUE_LENGTH
  /\ \/ /\ ReceivedStop
        /\ stops' = [stops EXCEPT ![k + 1] = Head(stopQueue)]
     \/ NoQueue("STOP_QUEUE") /\ UNCHANGED <<stopQueue, stops>>
  /\ k' = k + 1 /\ arrivedStopPulses' = arrivedStopPulses + 1
  /\ UNCHANGED <<on, intr, handles, startQueue, pc, path, startLost, times, start,
                 errorsAndWarnings, timeOfFlight, flightVars>>

StopTimeoutRetries ==
  /\ pc = "receiveStop" /\ k < STOP_QUEUE_LENGTH
  /\ TimedOutStop
  /\ UNCHANGED vars

StopTimeout ==
  /\ pc = "receiveStop" /\ k < STOP_QUEUE_LENGTH
  /\ TimedOutStop
  /\ k' = k + 1
  /\ UNCHANGED <<gpioVars, pc, path, startLost, times, start, stops, arrivedStopPulses,
                 errorsAndWarnings, timeOfFlight, flightVars>>

NoStopReceived ==
  /\ pc = "receiveStop" /\ k = STOP_QUEUE_LENGTH /\ pc' = "disableInterrupt"
  /\ arrivedStopPulses = 0
  /\ errorsAndWarnings' = "ERROR_NO_STOP_RECEIVED"
  /\ UNCHANGED <<gpioVars, path, startLost, times, start, stops, k,
                 arrivedStopPulses, timeOfFlight, flightVars>>

(* The row is made of the first arrivedStopPulses slots. *)
Row == [start |-> start, stops |-> SubSeq(stops, 1, arrivedStopPulses)]

StoreTimesOneShort ==
  /\ pc = "receiveStop" /\ k = STOP_QUEUE_LENGTH - 1
  /\ arrivedStopPulses > 0
  /\ times' = Append(times, Row)
  /\ pc' = IF Len(times) + 1 < N THEN "trigger" ELSE "calculateTimeOfFlight"
  /\ start' = "junk" /\ stops' = Unwritten /\ k' = 0 /\ arrivedStopPulses' = 0
  /\ UNCHANGED <<gpioVars, path, startLost, errorsAndWarnings, timeOfFlight, flightVars>>

StoreTimesOneRowMore ==
  /\ pc = "receiveStop" /\ k = STOP_QUEUE_LENGTH
  /\ arrivedStopPulses > 0
  /\ times' = Append(times, Row)
  /\ pc' = IF Len(times) < N THEN "trigger" ELSE "calculateTimeOfFlight"
  /\ start' = "junk" /\ stops' = Unwritten /\ k' = 0 /\ arrivedStopPulses' = 0
  /\ UNCHANGED <<gpioVars, path, startLost, errorsAndWarnings, timeOfFlight, flightVars>>

StoreTimes ==
  /\ pc = "receiveStop" /\ k = STOP_QUEUE_LENGTH
  /\ arrivedStopPulses > 0
  /\ times' = Append(times, Row)
  /\ pc' = IF Len(times) + 1 < N THEN "trigger" ELSE "calculateTimeOfFlight"
  /\ start' = "junk" /\ stops' = Unwritten /\ k' = 0 /\ arrivedStopPulses' = 0
  /\ UNCHANGED <<gpioVars, path, startLost, errorsAndWarnings, timeOfFlight, flightVars>>
-----------------------------------------------------------------------------
(* What the rows are worth: all their stamps answer the row's own trigger. *)
Own(row) == row.start = "own" /\ \A j \in DOMAIN row.stops : row.stops[j] = "own"
Worth(rows) == IF \A i \in DOMAIN rows : Own(rows[i]) THEN "own" ELSE "mixed"

StoresBeforeRangeCheck ==
  /\ pc = "calculateTimeOfFlight" /\ pc' = "disableInterrupt"
  /\ timeOfFlight' = [timeOfFlight EXCEPT ![path] = Worth(times)]
  /\ errorsAndWarnings' \in {errorsAndWarnings, "ERROR_TIME_OUT_OF_RANGE"}
  /\ UNCHANGED <<gpioVars, path, startLost, times, start, stops, k, arrivedStopPulses, flightVars>>

(* calculateTimeOfFlight is abstracted to how its result meets the range   *)
(* check: in range, outside, or not a number (an empty bucket), which both *)
(* comparisons let through.                                                *)
CalculateTimeOfFlight ==
  /\ pc = "calculateTimeOfFlight" /\ pc' = "disableInterrupt"
  /\ \/ /\ \E v \in {Worth(times), "nan"} :
             timeOfFlight' = [timeOfFlight EXCEPT ![path] = v]
        /\ UNCHANGED errorsAndWarnings
     \/ /\ errorsAndWarnings' = "ERROR_TIME_OUT_OF_RANGE"
        /\ UNCHANGED timeOfFlight
  /\ UNCHANGED <<gpioVars, path, startLost, times, start, stops, k, arrivedStopPulses, flightVars>>

DisableInterrupt ==
  /\ pc = "disableInterrupt" /\ pc' = "disableTdc1000"
  /\ disableStartStopInterrupt
  /\ UNCHANGED <<on, handles, startQueue, stopQueue, path, startLost, times, start, stops, k,
                 arrivedStopPulses, errorsAndWarnings, timeOfFlight, flightVars>>

(* A disabled TDC1000 is in reset: what was under way never arrives. *)
DisableTdc1000 ==
  /\ pc = "disableTdc1000" /\ pc' = "disableVdd"
  /\ disableTdc1000
  /\ flightStart' = {} /\ flightStops' = Nothing
  /\ UNCHANGED <<intr, handles, startQueue, stopQueue, path, startLost, times, start, stops, k,
                 arrivedStopPulses, errorsAndWarnings, timeOfFlight>>

(* The last call before the return, which ends the life of the locals. *)
DisableVdd ==
  /\ pc = "disableVdd" /\ pc' = "idle"
  /\ disableVdd
  /\ times' = <<>> /\ start' = "junk" /\ stops' = Unwritten /\ k' = 0
  /\ arrivedStopPulses' = 0
  /\ UNCHANGED <<intr, handles, startQueue, stopQueue, path, startLost, errorsAndWarnings,
                 timeOfFlight, flightVars>>
-----------------------------------------------------------------------------
(* A rising edge on a line of the enabled TDC1000 runs the line's handler  *)
(* if its interrupt is enabled, and is lost otherwise.                     *)
StartEdge(age) ==
  /\ age \in flightStart /\ flightStart' = flightStart \ {age}
  /\ IF \E tdc \in on \cap TdcPins : StartLineOf(tdc) \in intr
     THEN gpioIsrHandlerStart(age) ELSE UNCHANGED startQueue
  /\ UNCHANGED <<on, intr, handles, stopQueue, taskVars, flightStops>>

StopEdge(age) ==
  /\ flightStops[age] > 0 /\ flightStops' = [flightStops EXCEPT ![age] = @ - 1]
  /\ IF \E tdc \in on \cap TdcPins : StopLineOf(tdc) \in intr
     THEN gpioIsrHandlerStop(age) ELSE UNCHANGED stopQueue
  /\ UNCHANGED <<on, intr, handles, startQueue, taskVars, flightStart>>

Task ==
  \/ EnableVdd \/ EnableTdc1000 \/ EnableInterrupt
  \/ TriggerOn \/ TriggerOff \/ Wait
  \/ ReceiveStart \/ NoStartReceived
  \/ ReceiveStop \/ StopTimeout \/ NoStopReceived \/ StoreTimes
  \/ CalculateTimeOfFlight
  \/ DisableInterrupt \/ DisableTdc1000 \/ DisableVdd

Edge == \E age \in Age : StartEdge(age) \/ StopEdge(age)

Next ==
  \/ \E p \in Paths : Call(p[1], p[2])
  \/ Task
  \/ Edge

Spec == Init /\ [][Next]_vars

(* The main task is the only one of its priority and every wait of it has  *)
(* a timeout, so it is never starved; an edge under way arrives.           *)
Fairness == WF_vars(Task) /\ WF_vars(Edge)
FairSpec == Spec /\ Fairness
-----------------------------------------------------------------------------
(* Every variable has its type, the queues never exceed their length, and  *)
(* the loop over the pulses never runs past the N rows of times.           *)
PC == {"idle", "enableVdd", "enableTdc1000", "enableInterrupt", "trigger",
       "triggerOff", "wait", "receiveStart", "receiveStop",
       "calculateTimeOfFlight", "disableInterrupt", "disableTdc1000", "disableVdd"}
BeforeLoop == pc \in {"idle", "enableVdd", "enableTdc1000", "enableInterrupt"}
InLoop == pc \in {"trigger", "triggerOff", "wait", "receiveStart", "receiveStop"}
RowType == [start : Stamp, stops : Seq(Stamp)]
Worths == {"own", "mixed", "nan"}

TypeOK ==
  /\ GpioTypeOK(Age)
  /\ pc \in PC
  /\ path \in Paths
  /\ times \in Seq(RowType) /\ Len(times) <= N
  /\ BeforeLoop => times = <<>>
  /\ InLoop => Len(times) < N
  /\ start \in Stamp
  /\ stops \in [1..STOP_QUEUE_LENGTH -> Stamp]
  /\ k \in 0..STOP_QUEUE_LENGTH
  /\ arrivedStopPulses \in 0..k
  /\ errorsAndWarnings \in ErrorsAndWarnings /\ startLost \in BOOLEAN
  /\ timeOfFlight \in [Paths -> Worths \cup {"initial"}]
  /\ flightStart \subseteq Age
  /\ flightStops \in [Age -> Nat] /\ UnderWay <= MaxEchoes
-----------------------------------------------------------------------------
(* The hardware listens to path p: p's sender is powered and no other, p's *)
(* TDC1000 is enabled and not the other, the channel is p's axis, and the  *)
(* two lines of that TDC1000 can interrupt.                                *)
Drives(p) ==
  /\ on \cap VddPins = {VddOf(p[1], p[2])}
  /\ on \cap TdcPins = {TdcOf(p[2])}
  /\ "CHSEL" \in on <=> p[1] = "Y_AXIS"
  /\ intr = {StartLineOf(TdcOf(p[2])), StopLineOf(TdcOf(p[2]))}

(* Whenever a handler can run, the hardware is set up for the path of the  *)
(* call and for no other one, so a stamp is never taken on a foreign path; *)
(* between calls nothing is powered and no handler can run.  This is about *)
(* the order of the set-up and shut-down calls of measureTimeOfFlight.     *)
ListensToOnePath ==
  /\ intr # {} => Drives(path)
  /\ pc = "idle" => intr = {} /\ on \subseteq {"CHSEL"}

(* The promise of PathMeasurement, read off the pins and the task. *)
Deciding == pc \in {"disableInterrupt", "disableTdc1000", "disableVdd"}
PulseUnevaluated ==
  \/ pc \in {"triggerOff", "wait", "receiveStart", "receiveStop"}
  \/ /\ Deciding
     /\ errorsAndWarnings \in {"ERROR_NO_START_RECEIVED", "ERROR_NO_STOP_RECEIVED"}

Promise == INSTANCE PathMeasurement WITH
  Results <- Worths,
  request <- IF pc = "idle" THEN {} ELSE {path},
  listening <- {p \in Path : Drives(p)},
  pulses <- Len(times) + (IF PulseUnevaluated THEN 1 ELSE 0),
  answer <- IF Deciding THEN {errorsAndWarnings} ELSE {}

(* A call does what PathMeasurement promises: see there. *)
KeepsPromise == Promise!Spec

(* Every call of measureTimeOfFlight returns, also when edges are lost or  *)
(* late: each of its waits has a timeout and each of its loops a bound.    *)
EveryCallReturns == pc # "idle" ~> pc = "idle"
-----------------------------------------------------------------------------
(* The rows of a call in progress.  With both queues created and every     *)
(* edge in by the end of the 2 ms wait:                                    *)
InTime == ~LateEdges /\ handles = TypeQueue

(* a stop that an earlier, failed call left behind is used up by the first *)
(* row; every later row holds its own trigger's edges only, even the first *)
(* row's start is its own, and no row has a slot that was never written.   *)
StaleOnlyInFirstRow ==
  InTime => \A i \in DOMAIN times :
    /\ times[i].start = "own" /\ (i > 1 => Own(times[i]))
    /\ \A j \in DOMAIN times[i].stops : times[i].stops[j] # "junk"

(* The first row is clean too unless the call before lost a start: no      *)
(* other failure, nor any call before that one, leaves an edge to mix in.  *)
OwnEdgesOnly ==
  InTime /\ ~startLost => \A i \in DOMAIN times : Own(times[i])

(* "if some error ocurres this batch doesnt count"                         *)
(* (TimeMeasurementAnemoi.c:98): no row holds an edge of a failed batch.   *)
FailedBatchDoesNotCount ==
  \A i \in DOMAIN times : \A j \in DOMAIN times[i].stops :
    times[i].stops[j] # "stale"
-----------------------------------------------------------------------------
(* Why ListensToOnePath holds: what the pins are at each step of a call. *)
ChannelIs(axis) == "CHSEL" \in on <=> axis = "Y_AXIS"
Listening == InLoop \/ pc \in {"calculateTimeOfFlight", "disableInterrupt"}

PinsFollowTask ==
  /\ pc \in {"idle", "enableVdd"} => intr = {} /\ on \subseteq {"CHSEL"}
  /\ pc \in {"enableVdd", "enableTdc1000", "enableInterrupt"} => ChannelIs(path[1])
  /\ pc \in {"enableTdc1000", "enableInterrupt", "disableTdc1000", "disableVdd"} =>
       intr = {}
  /\ pc \in {"enableTdc1000", "enableInterrupt"} =>
       on \cap VddPins = {VddOf(path[1], path[2])}
  /\ pc \in {"enableTdc1000", "disableVdd"} => on \cap TdcPins = {}
  /\ pc = "enableInterrupt" => on \cap TdcPins = {TdcOf(path[2])}
  /\ Listening => Drives(path)
  /\ "ESP_TRIGG" \in on => pc = "triggerOff"

(* Why KeepsPromise holds besides: the loop runs to its end or breaks with *)
(* the error it returns.                                                   *)
LoopEndsFullOrFailed ==
  /\ pc = "calculateTimeOfFlight" => Len(times) = N
  /\ ~Deciding /\ pc # "idle" => errorsAndWarnings = "NO_ERRORS_NO_WARNINGS"

(* Why the rows are fresh: in time, a call finds no edge under way when it *)
(* triggers, and it empties both queues before it triggers again.          *)
InBatch == pc \in {"triggerOff", "wait", "receiveStart"}
AllOwn(queue) == \A n \in DOMAIN queue : queue[n] = "own"

EdgesAreOwn ==
  InTime =>
    /\ flightStart \subseteq {"own"} /\ flightStops["stale"] = 0
    /\ pc \notin {"triggerOff", "wait"} => flightStart = {} /\ flightStops["own"] = 0
    /\ ~InBatch => startQueue = <<>>
    /\ AllOwn(startQueue) /\ Len(startQueue) <= 1
    /\ flightStart # {} => startQueue = <<>>

QueuesDrained ==
  InTime =>
    /\ times # <<>> /\ pc \in {"trigger", "calculateTimeOfFlight"} => stopQueue = <<>>
    /\ times # <<>> /\ (InBatch \/ pc = "receiveStop") => AllOwn(stopQueue)
    /\ pc = "receiveStart" => k = 0 /\ arrivedStopPulses = 0
    /\ pc = "receiveStop" =>
         /\ start = "own"
         /\ Len(stopQueue) + k <= STOP_QUEUE_LENGTH
         /\ arrivedStopPulses < k => stopQueue = <<>>
         /\ \A n \in 1..arrivedStopPulses :
              stops[n] # "junk" /\ (times # <<>> => stops[n] = "own")

(* Why OwnEdgesOnly holds: a call that did not lose a start has emptied    *)
(* the stop queue, and what is queued afterwards answers the latest trigger.*)
LeftByCall == pc = "idle" \/ Deciding
SettingUp == pc \in {"enableVdd", "enableTdc1000", "enableInterrupt", "trigger"}

NothingLeftBehind ==
  InTime =>
    /\ LeftByCall /\ errorsAndWarnings # "ERROR_NO_START_RECEIVED" => stopQueue = <<>>
    /\ pc = "calculateTimeOfFlight" => stopQueue = <<>>
    /\ ~startLost =>
         /\ SettingUp => stopQueue = <<>>
         /\ InBatch \/ pc = "receiveStop" => AllOwn(stopQueue)
         /\ pc = "receiveStop" => \A n \in 1..arrivedStopPulses : stops[n] = "own"
=============================================================================
