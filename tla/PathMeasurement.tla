-------------------------- MODULE PathMeasurement --------------------------
(***************************************************************************)
(* What one call of measureTimeOfFlight promises its caller, app_main,     *)
(* without the task's steps, the interrupt handlers or the queues: while a *)
(* path is asked for, the hardware listens to that path and to no other;   *)
(* the caller's time for that path is written at most once, only after N   *)
(* pulses on it, and only by a call that reports success or, for a failed  *)
(* call, not at all; the hardware is quiet again before the call returns.  *)
(***************************************************************************)
EXTENDS Anemoi, Naturals

CONSTANTS
  Paths,    (* the paths measured                                           *)
  N,        (* pulses that make one measurement                             *)
  Results   (* what a successful call may store                             *)

VARIABLES
  request,      (* the paths asked for: none, or the one of the call        *)
  listening,    (* the paths the hardware is set up to receive              *)
  pulses,       (* pulses sent for this call                                *)
  answer,       (* the codes decided: none, or the one that will be returned*)
  timeOfFlight  (* the caller's four variables                              *)

vars == <<request, listening, pulses, answer, timeOfFlight>>

Init ==
  /\ request = {}
  /\ listening = {}
  /\ pulses = 0
  /\ answer = {}
  /\ timeOfFlight = [p \in Paths |-> "initial"]

Ask(p) ==
  /\ request = {} /\ request' = {p}
  /\ UNCHANGED <<listening, pulses, answer, timeOfFlight>>

Listen ==
  /\ request # {} /\ answer = {} /\ pulses = 0
  /\ listening = {} /\ listening' = request
  /\ UNCHANGED <<request, pulses, answer, timeOfFlight>>

Pulse ==
  /\ answer = {} /\ listening # {} /\ listening = request
  /\ pulses < N /\ pulses' = pulses + 1
  /\ UNCHANGED <<request, listening, answer, timeOfFlight>>

Succeed ==
  /\ answer = {} /\ listening # {} /\ listening = request /\ pulses = N
  /\ answer' = {"NO_ERRORS_NO_WARNINGS"}
  /\ \E p \in request, v \in Results : timeOfFlight' = [timeOfFlight EXCEPT ![p] = v]
  /\ UNCHANGED <<request, listening, pulses>>

(* A lost start or stop is noticed at any pulse, a time out of range only  *)
(* when all N have been evaluated.                                         *)
Fail(error) ==
  /\ answer = {} /\ listening # {} /\ listening = request /\ pulses > 0
  /\ error # "NO_ERRORS_NO_WARNINGS"
  /\ error = "ERROR_TIME_OUT_OF_RANGE" => pulses = N
  /\ answer' = {error}
  /\ UNCHANGED <<request, listening, pulses, timeOfFlight>>

Deafen ==
  /\ answer # {} /\ listening # {} /\ listening' = {}
  /\ UNCHANGED <<request, pulses, answer, timeOfFlight>>

Return ==
  /\ answer # {} /\ listening = {}
  /\ request' = {} /\ answer' = {} /\ pulses' = 0
  /\ UNCHANGED <<listening, timeOfFlight>>

Next ==
  \/ \E p \in Paths : Ask(p)
  \/ Listen \/ Pulse \/ Succeed \/ Deafen \/ Return
  \/ \E e \in ErrorsAndWarnings : Fail(e)

Spec == Init /\ [][Next]_vars
=============================================================================
