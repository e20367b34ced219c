----------------------------- MODULE GpioAnemoi -----------------------------
(***************************************************************************)
(* The GPIO driver (GpioAnemoi.c): output pins, the four interrupt lines,  *)
(* the two FreeRTOS queues the interrupt handlers fill, one operator per   *)
(* function.  A cycle stamp is any value of the user's; the driver only    *)
(* moves it.  An operator says what its function does to the variables it  *)
(* writes, the caller says what stays.                                     *)
(***************************************************************************)
EXTENDS Anemoi, Naturals, Sequences

CONSTANTS
  START_QUEUE_LENGTH,  (* room in the start queue: 1 in GpioAnemoi.h        *)
  STOP_QUEUE_LENGTH    (* room in the stop queue: 30 in GpioAnemoi.h        *)

ASSUME QueueAssumption ==
  /\ START_QUEUE_LENGTH \in Nat \ {0}
  /\ STOP_QUEUE_LENGTH \in Nat \ {0}

VARIABLES
  on,          (* the output pins at level GPIO_ON                          *)
  intr,        (* the lines whose interrupt is enabled                      *)
  handles,     (* the queues xQueueCreate could create: the handle is not 0 *)
  startQueue,  (* cycle stamps of rising edges on a START line, oldest first*)
  stopQueue    (* cycle stamps of rising edges on a STOP line               *)

gpioVars == <<on, intr, handles, startQueue, stopQueue>>

(* The queues are created empty, or not at all: initStartStop prints and   *)
(* goes on.  All four handlers are hooked and their interrupts disabled.   *)
initStartStop(created) ==
  /\ handles = created
  /\ startQueue = <<>> /\ stopQueue = <<>>
  /\ intr = {}

(* Every output pin is driven low. *)
initGpio(created) == on = {} /\ initStartStop(created)
-----------------------------------------------------------------------------
selectChannel(axis) ==
  on' = IF axis = "X_AXIS" THEN on \ {"CHSEL"} ELSE on \cup {"CHSEL"}

enableVdd(axis, direction) ==
  on' = (on \ VddPins) \cup {VddOf(axis, direction)}

disableVdd == on' = on \ VddPins

enableTdc1000(direction) ==
  on' = (on \ TdcPins) \cup {TdcOf(direction)}

disableTdc1000 == on' = on \ TdcPins

(* All four lines are disabled first, so exactly two are left enabled. *)
enableStartStopInterrupt(direction) ==
  intr' = {StartLineOf(TdcOf(direction)), StopLineOf(TdcOf(direction))}

disableStartStopInterrupt == intr' = {}
-----------------------------------------------------------------------------
(* xQueueSendFromISR: never blocks, a stamp that finds the queue full (or  *)
(* no queue) is lost.                                                      *)
gpioIsrHandlerStart(cycles) ==
  startQueue' = IF "START_QUEUE" \in handles /\ Len(startQueue) < START_QUEUE_LENGTH
                THEN Append(startQueue, cycles) ELSE startQueue

gpioIsrHandlerStop(cycles) ==
  stopQueue' = IF "STOP_QUEUE" \in handles /\ Len(stopQueue) < STOP_QUEUE_LENGTH
               THEN Append(stopQueue, cycles) ELSE stopQueue

(* getQueueCycles, its three outcomes.  With a queue that was never        *)
(* created it returns true and leaves the caller's variable alone.         *)
ReceivedStart ==
  "START_QUEUE" \in handles /\ startQueue # <<>> /\ startQueue' = Tail(startQueue)
ReceivedStop ==
  "STOP_QUEUE" \in handles /\ stopQueue # <<>> /\ stopQueue' = Tail(stopQueue)
NoQueue(queue) == queue \notin handles
TimedOutStart == "START_QUEUE" \in handles /\ startQueue = <<>>
TimedOutStop  == "STOP_QUEUE" \in handles /\ stopQueue = <<>>
-----------------------------------------------------------------------------
GpioTypeOK(Cycles) ==
  /\ on \subseteq OutputPins
  /\ intr \subseteq InterruptLines
  /\ handles \subseteq TypeQueue
  /\ startQueue \in Seq(Cycles) /\ Len(startQueue) <= START_QUEUE_LENGTH
  /\ stopQueue \in Seq(Cycles) /\ Len(stopQueue) <= STOP_QUEUE_LENGTH
=============================================================================
