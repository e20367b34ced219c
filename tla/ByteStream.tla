----------------------------- MODULE ByteStream -----------------------------
(***************************************************************************)
(* What BlynkFifo promises its two sides, the Bluetooth task that writes   *)
(* and the main task that reads: a bounded stream of bytes, in order, none *)
(* twice and none skipped except by a clear.  Bytes are numbered in the    *)
(* order in which they were accepted.                                      *)
(*                                                                         *)
(* The promise is void from a clear that overlaps a put or a get on the    *)
(* other side until the next clear that does not.                          *)
(***************************************************************************)
EXTENDS Integers

CONSTANT Capacity  (* how many bytes may be on their way, 1 or more         *)

VARIABLES
  sent,   (* the number of the next byte to be accepted                     *)
  got,    (* the number of the next byte to be read                         *)
  broken  (* is the promise void?                                           *)

streamVars == <<sent, got, broken>>

Init == sent = 1 /\ got = 1 /\ broken = FALSE

(* Accept some bytes, as many as there is space for. *)
Put ==
  /\ sent' \in (sent + 1)..(got + Capacity)
  /\ UNCHANGED <<got, broken>>

(* Read some bytes, as many as there are. *)
Get ==
  /\ got' \in (got + 1)..sent
  /\ UNCHANGED <<sent, broken>>

Clear ==
  /\ got' = sent /\ broken' = FALSE
  /\ UNCHANGED sent

(* Bytes are still accepted, but which are read is anybody's guess. *)
Overlap ==
  /\ broken' = TRUE /\ got' = got
  /\ sent' >= sent

Next ==
  \/ ~broken /\ (Put \/ Get)
  \/ Clear \/ Overlap

Spec == Init /\ [][Next]_streamVars
=============================================================================
