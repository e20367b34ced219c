----------------------------- MODULE BlynkLink ------------------------------
(***************************************************************************)
(* The link to the phone (BlynkProtocol.h on BlynkSimpleEsp32_BLE.h, with  *)
(* BLYNK_USE_DIRECT_CONNECT as in main.cpp).  The main task runs the       *)
(* protocol and sends commands; the Bluetooth task calls onConnect,        *)
(* onDisconnect and onWrite.  They share state, mConn and the receive      *)
(* buffer without a lock, so that each of their steps here reads or writes *)
(* one of these.                                                           *)
(*                                                                         *)
(* run, processInput and sendCmd call each other: the main task is a stack *)
(* of frames, the top first.  The receive buffer is a sequence of whole    *)
(* messages (BlynkFifo is the ring under it); "bad" is what read finds     *)
(* where a frame is incomplete or garbled, "unknown" a frame of no known   *)
(* type or too long.  A login with a wrong token is answered like a ping.  *)
(* Times are left out but for one: has there been no input for as long as  *)
(* the heartbeat timeout?                                                  *)
(***************************************************************************)
EXTENDS Naturals, Sequences, FiniteSets

CONSTANTS
  Messages,   (* the kinds of message the phone sends                       *)
  MaxInput,   (* bound: messages in the receive buffer                      *)
  MaxRuns     (* bound: calls of run in one wait of sendCmd                 *)

ASSUME LinkAssumption ==
  /\ Messages \subseteq {"login", "ping", "response", "hardware", "bad", "unknown"}
  /\ MaxInput \in Nat /\ MaxRuns \in Nat \ {0}

VARIABLES
  state,      (* of the protocol, shared                                    *)
  mConn,      (* the transport's idea of a connection, shared               *)
  rx,         (* the receive buffer mBuffRX, shared                         *)
  stack,      (* the main task's calls                                      *)
  quiet,      (* t - lastActivityIn exceeds the heartbeat timeout           *)
  peer,       (* is a phone connected?                                      *)
  bt,         (* where the Bluetooth task is in a callback                  *)
  loggedIn,   (* history: was a login of this session read?                 *)
  overtaken,  (* history: did this session begin while the main task held a *)
              (* login of an earlier one?                                   *)
  stale       (* history: commands written to this session before its login *)

phoneVars == <<peer, bt>>
historyVars == <<loggedIn, overtaken, stale>>
vars == <<state, mConn, rx, stack, quiet, phoneVars, historyVars>>

Throttled == {"HARDWARE", "INTERNAL"}

Frame(at, of) == [at |-> at, of |-> of, runs |-> 0]
Top == Head(stack)
At(label) == Top.at = label
Goto(label) == stack' = <<[Top EXCEPT !.at = label]>> \o Tail(stack)
Call(frame, label) == stack' = <<frame, [Top EXCEPT !.at = label]>> \o Tail(stack)
Return == stack' = Tail(stack)

(* run has counted itself in nesting when it has left "run". *)
Running == {"connected", "poll", "handle", "ready", "answer", "release", "status",
            "up", "down", "return", "failed", "lose", "drop", "clear", "conn"}
nesting == Cardinality({n \in DOMAIN stack : stack[n].at \in Running})
msgIdOutOverride == \E n \in DOMAIN stack : stack[n].at = "release"

InSession == peer /\ bt = "idle"

Init ==
  /\ state = "DISCONNECTED" /\ mConn = FALSE /\ rx = <<>>
  /\ stack = <<Frame("loop", "none")>>
  /\ quiet = FALSE /\ peer = FALSE /\ bt = "idle"
  /\ loggedIn = FALSE /\ overtaken = FALSE /\ stale = 0
-----------------------------------------------------------------------------
(* A round of the main loop: Blynk.run and virtualWrites.  The seven of a  *)
(* round are one here: a write that is not skipped runs the protocol too.  *)
Loop ==
  /\ \/ At("loop") /\ Call(Frame("run", "none"), "values")
     \/ At("values") /\ Call(Frame("send", "HARDWARE"), "loop")
  /\ UNCHANGED <<state, mConn, rx, quiet, phoneVars, historyVars>>

(* Mutant: one level of nesting more. *)
RunDeeper ==
  /\ At("run")
  /\ IF state = "DISCONNECTED" \/ msgIdOutOverride \/ nesting >= 3
     THEN Return ELSE Goto("connected")
  /\ UNCHANGED <<state, mConn, rx, quiet, phoneVars, historyVars>>

(* run *)
Run ==
  /\ At("run")
  /\ IF state = "DISCONNECTED" \/ msgIdOutOverride \/ nesting >= 2
     THEN Return ELSE Goto("connected")
  /\ UNCHANGED <<state, mConn, rx, quiet, phoneVars, historyVars>>

Connected ==
  /\ At("connected")
  /\ Goto(IF mConn THEN "poll" ELSE "status")
  /\ UNCHANGED <<state, mConn, rx, quiet, phoneVars, historyVars>>

(* processInput reads a message, header and body. *)
Poll ==
  /\ At("poll") /\ rx # <<>>
  /\ stack' = <<Frame("handle", Head(rx))>> \o Tail(stack)
  /\ rx' = Tail(rx)
  /\ loggedIn' = (loggedIn \/ Head(rx) = "login")
  /\ quiet' \in CASE Head(rx) = "bad" -> {quiet}
                  [] Head(rx) = "unknown" -> {quiet, FALSE}
                  [] OTHER -> {FALSE}
  /\ UNCHANGED <<state, mConn, phoneVars, overtaken, stale>>

Polled ==
  /\ At("poll") /\ rx = <<>>
  /\ stack' = <<Frame("status", "none")>> \o Tail(stack)
  /\ UNCHANGED <<state, mConn, rx, quiet, phoneVars, historyVars>>

Login ==
  /\ At("handle") /\ Top.of = "login"
  /\ IF state = "CONNECTING" THEN Goto("ready") ELSE Goto("answer")
  /\ UNCHANGED <<state, mConn, rx, quiet, phoneVars, historyVars>>

(* sendInfo sends one command. *)
Ready ==
  /\ At("ready") /\ state' = "CONNECTED"
  /\ Call(Frame("send", "INTERNAL"), "answer")
  /\ UNCHANGED <<mConn, rx, quiet, phoneVars, historyVars>>

Answer ==
  /\ At("answer") \/ (At("handle") /\ Top.of = "ping")
  /\ Call(Frame("send", "RESPONSE"), "poll")
  /\ UNCHANGED <<state, mConn, rx, quiet, phoneVars, historyVars>>

(* processCmd answers a read of a pin, under the id of the request. *)
Hardware ==
  /\ At("handle") /\ Top.of = "hardware"
  /\ Call(Frame("send", "HARDWARE"), "release") \/ Goto("poll")
  /\ UNCHANGED <<state, mConn, rx, quiet, phoneVars, historyVars>>

(* msgIdOutOverride = 0; the server's answers are only noted. *)
Release ==
  /\ At("release") \/ (At("handle") /\ Top.of = "response")
  /\ Goto("poll")
  /\ UNCHANGED <<state, mConn, rx, quiet, phoneVars, historyVars>>

(* processInput returns false: the phone is not told. *)
Bad ==
  /\ At("handle") /\ Top.of = "bad"
  /\ mConn' = FALSE /\ Goto("failed")
  /\ UNCHANGED <<state, rx, quiet, phoneVars, historyVars>>

(* Mutant: as disconnect does. *)
FailedDisconnected ==
  /\ At("failed") /\ state' = "DISCONNECTED" /\ Return
  /\ UNCHANGED <<mConn, rx, quiet, phoneVars, historyVars>>

Failed ==
  /\ At("failed") /\ state' = "CONNECTING" /\ Return
  /\ UNCHANGED <<mConn, rx, quiet, phoneVars, historyVars>>

Unknown ==
  /\ At("handle") /\ Top.of = "unknown"
  /\ Goto("lose")
  /\ UNCHANGED <<state, mConn, rx, quiet, phoneVars, historyVars>>

(* internalReconnect, after which processInput goes on and run returns. *)
Lose ==
  /\ At("lose") /\ state' = "CONNECTING" /\ Goto("drop")
  /\ UNCHANGED <<mConn, rx, quiet, phoneVars, historyVars>>

Drop ==
  /\ At("drop") /\ mConn' = FALSE
  /\ IF Top.of = "unknown" THEN Goto("poll") ELSE Return
  /\ UNCHANGED <<state, rx, quiet, phoneVars, historyVars>>

(* tconn *)
Status ==
  /\ At("status")
  /\ Goto(IF mConn THEN "up" ELSE "down")
  /\ UNCHANGED <<state, mConn, rx, quiet, phoneVars, historyVars>>

(* Mutant: no heartbeat timeout. *)
UpSilent ==
  /\ At("up")
  /\ \/ state = "CONNECTED" /\ Call(Frame("send", "PING"), "return")
     \/ Return
  /\ UNCHANGED <<state, mConn, rx, quiet, phoneVars, historyVars>>

Up ==
  /\ At("up")
  /\ \/ state = "CONNECTED" /\ quiet /\ Goto("lose")
     \/ state = "CONNECTED" /\ ~quiet /\ Call(Frame("send", "PING"), "return")
     \/ ~(state = "CONNECTED" /\ quiet) /\ Return
  /\ UNCHANGED <<state, mConn, rx, quiet, phoneVars, historyVars>>

PingSent ==
  /\ At("return") /\ Return
  /\ UNCHANGED <<state, mConn, rx, quiet, phoneVars, historyVars>>

Down ==
  /\ At("down")
  /\ CASE state = "CONNECTED" -> Goto("lose")
       [] state = "CONNECTING" -> Goto("clear")
       [] OTHER -> Return
  /\ UNCHANGED <<state, mConn, rx, quiet, phoneVars, historyVars>>

(* conn.connect *)
Clear ==
  /\ At("clear") /\ rx' = <<>> /\ Goto("conn")
  /\ UNCHANGED <<state, mConn, quiet, phoneVars, historyVars>>

Conn ==
  /\ At("conn") /\ mConn' = TRUE /\ Return
  /\ UNCHANGED <<state, rx, quiet, phoneVars, historyVars>>
-----------------------------------------------------------------------------
(* sendCmd *)
Send ==
  /\ At("send")
  /\ IF mConn THEN Goto("check") ELSE Return
  /\ UNCHANGED <<state, mConn, rx, quiet, phoneVars, historyVars>>

(* Mutant: commands are allowed in every state. *)
CheckNothing ==
  /\ At("check")
  /\ IF Top.of \in Throttled THEN Goto("wait") ELSE Goto("write")
  /\ UNCHANGED <<state, mConn, rx, quiet, phoneVars, historyVars>>

Check ==
  /\ At("check")
  /\ CASE Top.of \notin Throttled -> Goto("write")
       [] state = "CONNECTED"     -> Goto("wait")
       [] OTHER                   -> Return
  /\ UNCHANGED <<state, mConn, rx, quiet, phoneVars, historyVars>>

(* BLYNK_MSG_LIMIT: run until the command is allowed, once at least from   *)
(* the main loop.                                                          *)
WaitOnce ==
  /\ At("wait") /\ Top.runs < MaxRuns
  /\ stack' = <<Frame("run", "none"), [Top EXCEPT !.runs = Top.runs + 1]>> \o Tail(stack)
  /\ UNCHANGED <<state, mConn, rx, quiet, phoneVars, historyVars>>

Waited ==
  /\ At("wait") /\ (nesting > 0 \/ Top.runs > 0)
  /\ Goto("write")
  /\ UNCHANGED <<state, mConn, rx, quiet, phoneVars, historyVars>>

Write ==
  /\ At("write") /\ Return
  /\ stale' = IF Top.of \in Throttled /\ InSession /\ ~loggedIn /\ ~overtaken
              THEN stale + 1 ELSE stale
  /\ UNCHANGED <<state, mConn, rx, quiet, phoneVars, loggedIn, overtaken>>

Main ==
  \/ Loop \/ Run \/ Connected \/ Poll \/ Polled \/ Login \/ Ready \/ Answer \/ Hardware
  \/ Release \/ Bad \/ Failed \/ Unknown \/ Lose \/ Drop \/ Status \/ Up \/ PingSent
  \/ Down \/ Clear \/ Conn \/ Send \/ Check \/ WaitOnce \/ Waited \/ Write
-----------------------------------------------------------------------------
(* onConnect: connect, and startSession with a second conn.connect. *)
BtClear ==
  /\ bt \in {"connect", "startSession"}
  /\ bt' = IF bt = "connect" THEN "mConn" ELSE "mConnAgain"
  /\ rx' = <<>> /\ loggedIn' = FALSE /\ stale' = 0
  /\ overtaken' = \E n \in DOMAIN stack :
       stack[n].of = "login" /\ stack[n].at \in {"handle", "ready"}
  /\ UNCHANGED <<state, mConn, stack, quiet, peer>>

BtConn ==
  /\ bt \in {"mConn", "mConnAgain"}
  /\ bt' = IF bt = "mConn" THEN "startSession" ELSE "state"
  /\ mConn' = TRUE
  /\ UNCHANGED <<state, rx, stack, quiet, peer, historyVars>>

(* Mutant: startSession only leaves DISCONNECTED. *)
BtStartDisconnected ==
  /\ bt = "state" /\ bt' = "idle"
  /\ state' = (IF state = "DISCONNECTED" THEN "CONNECTING" ELSE state) /\ quiet' = FALSE
  /\ UNCHANGED <<mConn, rx, stack, peer, historyVars>>

BtStart ==
  /\ bt = "state" /\ bt' = "idle"
  /\ state' = "CONNECTING" /\ quiet' = FALSE
  /\ UNCHANGED <<mConn, rx, stack, peer, historyVars>>

(* onDisconnect: Blynk.disconnect and disconnect *)
BtDisconnect ==
  /\ bt \in {"disconnect", "disconnectAgain"}
  /\ bt' = IF bt = "disconnect" THEN "stateLost" ELSE "idle"
  /\ mConn' = FALSE
  /\ UNCHANGED <<state, rx, stack, quiet, peer, historyVars>>

BtLost ==
  /\ bt = "stateLost" /\ bt' = "disconnectAgain"
  /\ state' = "DISCONNECTED"
  /\ UNCHANGED <<mConn, rx, stack, quiet, peer, historyVars>>

Bluetooth == BtClear \/ BtConn \/ BtStart \/ BtDisconnect \/ BtLost

PhoneConnects ==
  /\ bt = "idle" /\ ~peer /\ peer' = TRUE /\ bt' = "connect"
  /\ UNCHANGED <<state, mConn, rx, stack, quiet, historyVars>>

PhoneLeaves ==
  /\ bt = "idle" /\ peer /\ peer' = FALSE /\ bt' = "disconnect"
  /\ UNCHANGED <<state, mConn, rx, stack, quiet, historyVars>>

(* Mutant: the buffer takes more than it holds. *)
PhoneSendsTooMuch(m) ==
  /\ bt = "idle" /\ peer /\ Len(rx) <= MaxInput
  /\ rx' = Append(rx, m)
  /\ UNCHANGED <<state, mConn, stack, quiet, phoneVars, historyVars>>

(* onWrite *)
PhoneSends(m) ==
  /\ bt = "idle" /\ peer /\ Len(rx) < MaxInput
  /\ rx' = Append(rx, m)
  /\ UNCHANGED <<state, mConn, stack, quiet, phoneVars, historyVars>>

Silence ==
  /\ ~quiet /\ quiet' = TRUE
  /\ UNCHANGED <<state, mConn, rx, stack, phoneVars, historyVars>>

Phone == PhoneConnects \/ PhoneLeaves \/ Silence \/ \E m \in Messages : PhoneSends(m)

Next == Main \/ Bluetooth \/ Phone

Spec == Init /\ [][Next]_vars
FairSpec == Spec /\ WF_vars(Main) /\ WF_vars(Bluetooth)
-----------------------------------------------------------------------------
Labels == Running \cup {"loop", "values", "run", "send", "check", "wait", "write"}
Holds == Messages \cup Throttled \cup {"RESPONSE", "PING", "none"}

TypeOK ==
  /\ state \in {"CONNECTING", "CONNECTED", "DISCONNECTED"}
  /\ rx \in Seq(Messages) /\ Len(rx) <= MaxInput
  /\ stack # <<>> /\ stack \in Seq([at : Labels, of : Holds, runs : 0..MaxRuns])
  /\ bt \in {"idle", "connect", "mConn", "startSession", "mConnAgain", "state",
             "disconnect", "stateLost", "disconnectAgain"}
  /\ {mConn, quiet, peer, loggedIn, overtaken} \subseteq BOOLEAN /\ stale \in Nat

(* In a session the protocol is only CONNECTED after a login of that       *)
(* session, however the two tasks' stores to state and mConn interleave,   *)
(* with one exception: a login of the session before that the main task    *)
(* had read but not dealt with yet (processInput, startSession).           *)
OwnLogin == InSession /\ state = "CONNECTED" => loggedIn \/ overtaken

(* sendCmd looks at state before it waits, and the wait runs the protocol: *)
(* commands already in their wait when the link is lost and made again are *)
(* written to the new session before its login.  There are three at most,  *)
(* as many as sendCmds can wait for each other.                            *)
EarlyCommandsFew == stale <= 3

(* run, processInput and sendCmd call each other no deeper than a command  *)
(* of the main loop, a login, its info, and a login and its info in the    *)
(* wait for that, whatever the phone sends (nesting, BlynkProtocol.h).     *)
DepthBounded == Len(stack) <= 7

(* A lost link is noticed even when the answer to a login overwrites what  *)
(* onDisconnect stored, and a phone that falls silent loses its session    *)
(* (run, onDisconnect, "Heartbeat timeout").                               *)
LossNoticed ==
  state = "CONNECTED" /\ (~peer \/ quiet) ~> state # "CONNECTED" \/ (peer /\ ~quiet)

(* Neither a lost race nor a protocol error blocks the link for good: with *)
(* a phone that stays, keeps logging in and sends no more bad frames, it   *)
(* comes up, although a clear may throw away a login (run, onConnect).     *)
LinkComesUp ==
  /\ <>[]peer /\ []<><<PhoneSends("login")>>_vars
  /\ <>[][\A m \in {"bad", "unknown"} : ~PhoneSends(m)]_vars
  => []<>(state = "CONNECTED")
=============================================================================
