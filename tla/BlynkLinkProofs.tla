-------------------------- MODULE BlynkLinkProofs --------------------------
(***************************************************************************)
(* What holds of BlynkLink for every set of messages, size of the receive  *)
(* buffer and number of calls of run in a wait: how deep calls nest, whose *)
(* login connects, and how many commands are written before it.            *)
(***************************************************************************)
EXTENDS BlynkLink, FiniteSetTheorems, TLAPS

Frames == [at : Labels, of : Holds, runs : 0..MaxRuns]

MainLabels == {"loop", "values"}
SendLabels == {"send", "check", "wait", "write"}

(* A frame is the main loop's at the bottom, run's or sendCmd's above; a   *)
(* run that has called is past "run", a sendCmd that has called waits.     *)
Linked ==
  /\ stack \in Seq(Frames) /\ stack # <<>>
  /\ stack[Len(stack)].at \in MainLabels
  /\ \A n \in 1..(Len(stack) - 1) : stack[n].at \in Running \cup {"run"} \cup SendLabels
  /\ \A n \in 1..(Len(stack) - 2) :
       \/ stack[n + 1].at \in Running /\ stack[n].at \in SendLabels
       \/ stack[n + 1].at = "wait" /\ stack[n].at \in Running \cup {"run"}

Shallow ==
  /\ Len(stack) <= 7
  /\ Top.at \in Running => Len(stack) <= 5
  /\ Top.at \in SendLabels => Len(stack) <= 6

(* A login is held from when it is read until it has connected or not.     *)
Held(frame) == frame.of = "login" /\ frame.at \in {"handle", "ready"}

LoginsKnown ==
  /\ (\E n \in DOMAIN stack : Held(stack[n])) => loggedIn \/ overtaken
  /\ \A n \in DOMAIN stack : stack[n].at = "ready" => Held(stack[n])

(* The frames, counted from the bottom, of commands that may be written    *)
(* without another look at state.                                          *)
Passed(frame) == frame.of \in Throttled /\ frame.at \in {"wait", "write"}
Waiting == {d \in 1..Len(stack) : Passed(stack[Len(stack) + 1 - d])}

SessionBegins ==
  /\ bt \in {"connect", "mConn", "startSession", "mConnAgain", "state"} => peer
  /\ bt \in {"disconnect", "stateLost", "disconnectAgain"} => ~peer
  /\ bt \in {"mConn", "startSession", "mConnAgain", "state"} => stale = 0

EarlyCounted ==
  /\ stale \in 0..3
  /\ InSession /\ ~loggedIn /\ ~overtaken => stale + Cardinality(Waiting) <= 3

Shared ==
  /\ state \in {"CONNECTING", "CONNECTED", "DISCONNECTED"}
  /\ rx \in Seq(Messages) /\ Len(rx) <= MaxInput
  /\ bt \in {"idle", "connect", "mConn", "startSession", "mConnAgain", "state",
             "disconnect", "stateLost", "disconnectAgain"}
  /\ {mConn, quiet, peer, loggedIn, overtaken} \subseteq BOOLEAN

Inv == Linked /\ Shallow /\ Shared /\ LoginsKnown /\ SessionBegins /\ OwnLogin /\ EarlyCounted
-----------------------------------------------------------------------------
(* What a step of the main task does to its stack.                         *)
Replaced(f) ==
  /\ f \in Frames /\ stack' = <<f>> \o Tail(stack)
  /\ \/ Top.at \in Running \cup {"run"} /\ f.at \in Running
     \/ Top.at \in SendLabels /\ f.at \in SendLabels
  /\ Top.at = "run" => nesting < 2
  /\ f.at = "ready" => Held(Top) /\ Held(f)
  /\ Held(f) => Held(Top) \/ loggedIn'
  /\ Passed(f) => Passed(Top) \/ state = "CONNECTED"

Pushed(f, g) ==
  /\ f \in Frames /\ g \in Frames /\ stack' = <<f, g>> \o Tail(stack)
  /\ \/ Top.at \in MainLabels /\ g.at \in MainLabels /\ f.at \in {"run", "send"}
     \/ Top.at \in Running /\ g.at \in Running /\ f.at = "send"
     \/ Top.at = "wait" /\ g.at = "wait" /\ f.at = "run"
  /\ g.at \notin {"handle", "ready"} /\ g.of = Top.of

Popped == stack' = Tail(stack) /\ Top.at \in Running \cup {"run"} \cup SendLabels

LEMMA ReplacedTop ==
  ASSUME NEW S, NEW s \in Seq(S), s # <<>>, NEW f \in S
  PROVE  /\ <<f>> \o Tail(s) \in Seq(S) /\ Len(<<f>> \o Tail(s)) = Len(s)
         /\ Len(s) \in Nat /\ Len(s) >= 1
         /\ (<<f>> \o Tail(s))[1] = f
         /\ \A n \in 2..Len(s) : (<<f>> \o Tail(s))[n] = s[n]
<1>1. Tail(s) \in Seq(S) /\ Len(Tail(s)) = Len(s) - 1 /\ Len(s) \in Nat /\ Len(s) >= 1
      /\ \A n \in 1..(Len(s) - 1) : Tail(s)[n] = s[n + 1]
  OBVIOUS
<1> DEFINE t == Tail(s)
<1> HIDE DEF t
<1>2. <<f>> \o t \in Seq(S) /\ Len(<<f>> \o t) = 1 + Len(t) /\ (<<f>> \o t)[1] = f
      /\ \A n \in 2..(1 + Len(t)) : (<<f>> \o t)[n] = t[n - 1]
  BY <1>1 DEF t
<1>3. QED
  BY <1>1, <1>2 DEF t

LEMMA PushedTop ==
  ASSUME NEW S, NEW s \in Seq(S), s # <<>>, NEW f \in S, NEW g \in S
  PROVE  /\ <<f, g>> \o Tail(s) \in Seq(S) /\ Len(<<f, g>> \o Tail(s)) = Len(s) + 1
         /\ Len(s) \in Nat /\ Len(s) >= 1
         /\ (<<f, g>> \o Tail(s))[1] = f /\ (<<f, g>> \o Tail(s))[2] = g
         /\ \A n \in 3..(Len(s) + 1) : (<<f, g>> \o Tail(s))[n] = s[n - 1]
<1>1. Tail(s) \in Seq(S) /\ Len(Tail(s)) = Len(s) - 1 /\ Len(s) \in Nat /\ Len(s) >= 1
      /\ \A n \in 1..(Len(s) - 1) : Tail(s)[n] = s[n + 1]
  OBVIOUS
<1> DEFINE t == Tail(s)
<1> HIDE DEF t
<1>2. /\ <<f, g>> \o t \in Seq(S) /\ Len(<<f, g>> \o t) = 2 + Len(t)
      /\ (<<f, g>> \o t)[1] = f /\ (<<f, g>> \o t)[2] = g
      /\ \A n \in 3..(2 + Len(t)) : (<<f, g>> \o t)[n] = t[n - 2]
  BY <1>1 DEF t
<1>3. QED
  BY <1>1, <1>2 DEF t

LEMMA PoppedTop ==
  ASSUME NEW S, NEW s \in Seq(S), s # <<>>
  PROVE  /\ Tail(s) \in Seq(S) /\ Len(Tail(s)) = Len(s) - 1
         /\ Len(s) \in Nat /\ Len(s) >= 1
         /\ \A n \in 1..(Len(s) - 1) : Tail(s)[n] = s[n + 1]
OBVIOUS
-----------------------------------------------------------------------------
LEMMA RunsNest ==
  ASSUME Linked, Len(stack) >= 6, Top.at = "run"
  PROVE  ~(nesting < 2)
<1> DEFINE R == {n \in DOMAIN stack : stack[n].at \in Running}
<1>1. Len(stack) \in Nat /\ DOMAIN stack = 1..Len(stack)
  BY DEF Linked
<1>2. /\ stack[2].at = "wait" /\ stack[3].at \in Running
      /\ stack[4].at = "wait" /\ stack[5].at \in Running
  BY <1>1 DEF Linked, Top, SendLabels, Running
<1>3. {3, 5} \in SUBSET R
  BY <1>1, <1>2
<1>4. IsFiniteSet(1..Len(stack))
  BY <1>1, FS_Interval
<1>5. IsFiniteSet(R) /\ Cardinality(R) \in Nat
  BY <1>1, <1>4, FS_Subset, FS_CardinalityType
<1>6. Cardinality({3, 5}) = 2
  <2>1. IsFiniteSet({3}) /\ Cardinality({3}) = 1
    BY FS_Singleton
  <2>2. 5 \notin {3}
    OBVIOUS
  <2>3. Cardinality({3} \cup {5}) = Cardinality({3}) + 1
    BY <2>1, <2>2, FS_AddElement
  <2>4. Cardinality({3} \cup {5}) = 2
    BY <2>1, <2>3
  <2>5. {3} \cup {5} = {3, 5}
    OBVIOUS
  <2>6. QED
    BY <2>4, <2>5, Zenon
<1>7. Cardinality({3, 5}) <= Cardinality(R)
  BY <1>3, <1>5, FS_Subset
<1>8. QED
  BY <1>5, <1>6, <1>7 DEF nesting

LEMMA LabelsApart ==
  /\ "run" \notin Running /\ "wait" \notin Running
  /\ Running \cap SendLabels = {} /\ Running \cap MainLabels = {}
  /\ SendLabels \cap MainLabels = {} /\ "run" \notin SendLabels \cup MainLabels
  /\ "send" \in SendLabels /\ "wait" \in SendLabels
BY DEF Running, SendLabels, MainLabels

LEMMA ReplacedLinked ==
  ASSUME Linked, Shallow, NEW f, Replaced(f)
  PROVE  Linked' /\ Shallow'
<1>1. /\ stack' \in Seq(Frames) /\ Len(stack') = Len(stack) /\ Len(stack) \in Nat /\ Len(stack) >= 1
      /\ stack'[1] = f /\ \A n \in 2..Len(stack) : stack'[n] = stack[n]
  BY ReplacedTop DEF Linked, Replaced
<1>2. stack' # <<>>
  BY <1>1
<1>3. Len(stack) > 1
  BY <1>1, LabelsApart DEF Linked, Replaced, Top
<1>4. Linked'
  <2>1. stack'[Len(stack')].at \in MainLabels
    BY <1>1, <1>3 DEF Linked
  <2>2. \A n \in 1..(Len(stack') - 1) : stack'[n].at \in Running \cup {"run"} \cup SendLabels
    BY <1>1, <1>3 DEF Linked, Replaced
  <2>3. ASSUME NEW n \in 1..(Len(stack') - 2)
        PROVE  \/ stack'[n + 1].at \in Running /\ stack'[n].at \in SendLabels
               \/ stack'[n + 1].at = "wait" /\ stack'[n].at \in Running \cup {"run"}
    <3>1. n \in 1..(Len(stack) - 2) /\ stack'[n + 1] = stack[n + 1]
      BY <1>1
    <3>2. CASE n = 1
      BY <1>1, <3>1, <3>2, LabelsApart DEF Linked, Replaced, Top
    <3>3. CASE n # 1
      BY <1>1, <3>1, <3>3 DEF Linked
    <3>4. QED
      BY <3>2, <3>3
  <2>4. QED
    BY <1>1, <1>2, <2>1, <2>2, <2>3 DEF Linked
<1>5. Top' = f
  BY <1>1, <1>2 DEF Top
<1>6. Shallow'
  <2>1. CASE Top.at = "run"
    BY <1>1, <1>5, <2>1, RunsNest, LabelsApart DEF Shallow, Replaced
  <2>2. CASE Top.at # "run"
    BY <1>1, <1>5, <2>2, LabelsApart DEF Shallow, Replaced
  <2>3. QED
    BY <2>1, <2>2
<1>7. QED
  BY <1>4, <1>6

LEMMA PushedLinked ==
  ASSUME Linked, Shallow, NEW f, NEW g, Pushed(f, g)
  PROVE  Linked' /\ Shallow'
<1>1. /\ stack' \in Seq(Frames) /\ Len(stack') = Len(stack) + 1 /\ Len(stack) \in Nat /\ Len(stack) >= 1
      /\ stack'[1] = f /\ stack'[2] = g /\ \A n \in 3..(Len(stack) + 1) : stack'[n] = stack[n - 1]
  BY PushedTop DEF Linked, Pushed
<1>2. stack' # <<>>
  BY <1>1
<1>3. Top.at \in MainLabels <=> Len(stack) = 1
  <2>1. Top = stack[1]
    BY DEF Linked, Top
  <2>2. CASE Len(stack) = 1
    BY <2>1, <2>2 DEF Linked
  <2>3. CASE Len(stack) # 1
    <3>. DEFINE l == Len(stack)
    <3>0. l \in Nat /\ l >= 1 /\ l # 1
      BY <1>1, <2>3
    <3>. HIDE DEF l
    <3>1. 1 \in 1..(l - 1)
      BY <3>0
    <3>. USE DEF l
    <3>2. stack[1].at \in Running \cup {"run"} \cup SendLabels
      BY <3>1 DEF Linked
    <3>3. QED
      BY <2>1, <2>3, <3>2, LabelsApart
  <2>4. QED
    BY <2>2, <2>3
<1>4. Linked'
  <2>1. stack'[Len(stack')].at \in MainLabels
    <3>1. CASE Len(stack) = 1
      BY <1>1, <1>3, <3>1, LabelsApart DEF Pushed
    <3>2. CASE Len(stack) # 1
      <4>. DEFINE l == Len(stack)
      <4>0. l \in Nat /\ l >= 1 /\ l # 1
        BY <1>1, <3>2
      <4>. HIDE DEF l
      <4>1. l + 1 \in 3..(l + 1) /\ (l + 1) - 1 = l
        BY <4>0
      <4>. USE DEF l
      <4>2. stack'[Len(stack')] = stack[Len(stack)]
        BY <1>1, <4>1, Zenon
      <4>3. QED
        BY <4>2 DEF Linked
    <3>3. QED
      BY <3>1, <3>2
  <2>2. ASSUME NEW n \in 1..(Len(stack') - 1)
        PROVE  stack'[n].at \in Running \cup {"run"} \cup SendLabels
    <3>1. CASE n = 1
      BY <1>1, <3>1, LabelsApart DEF Pushed
    <3>2. CASE n = 2
      BY <1>1, <1>3, <3>2, LabelsApart DEF Pushed
    <3>3. CASE n > 2
      BY <1>1, <3>3 DEF Linked
    <3>4. QED
      BY <1>1, <3>1, <3>2, <3>3
  <2>3. ASSUME NEW n \in 1..(Len(stack') - 2)
        PROVE  \/ stack'[n + 1].at \in Running /\ stack'[n].at \in SendLabels
               \/ stack'[n + 1].at = "wait" /\ stack'[n].at \in Running \cup {"run"}
    <3>1. CASE n = 1
      BY <1>1, <1>3, <3>1, LabelsApart DEF Pushed
    <3>2. CASE n = 2
      <4>1. 1 \in 1..(Len(stack) - 2) /\ stack'[3] = stack[2] /\ stack'[2] = g
        BY <1>1, <3>2
      <4>2. \/ stack[2].at \in Running /\ stack[1].at \in SendLabels
            \/ stack[2].at = "wait" /\ stack[1].at \in Running \cup {"run"}
        BY <4>1 DEF Linked
      <4>3. QED
        BY <1>1, <1>3, <3>2, <4>1, <4>2, LabelsApart DEF Pushed, Top
    <3>3. CASE n > 2
      <4>1. n - 1 \in 1..(Len(stack) - 2) /\ stack'[n] = stack[n - 1] /\ stack'[n + 1] = stack[n]
        BY <1>1, <3>3
      <4>2. n = (n - 1) + 1
        OBVIOUS
      <4>3. QED
        BY <4>1, <4>2 DEF Linked
    <3>4. QED
      BY <3>1, <3>2, <3>3
  <2>4. QED
    BY <1>1, <1>2, <2>1, <2>2, <2>3 DEF Linked
<1>5. Top' = f
  BY <1>1, <1>2 DEF Top
<1>6. Shallow'
  BY <1>1, <1>3, <1>5, LabelsApart DEF Shallow, Pushed
<1>7. QED
  BY <1>4, <1>6

LEMMA PoppedLinked ==
  ASSUME Linked, Shallow, Popped
  PROVE  Linked' /\ Shallow'
<1>1. /\ stack' \in Seq(Frames) /\ Len(stack') = Len(stack) - 1 /\ Len(stack) \in Nat /\ Len(stack) >= 1
      /\ \A n \in 1..(Len(stack) - 1) : stack'[n] = stack[n + 1]
  BY PoppedTop DEF Linked, Popped
<1>2. Len(stack) > 1
  BY <1>1, LabelsApart DEF Linked, Popped, Top
<1>3. stack' # <<>>
  BY <1>1, <1>2
<1>4. Linked'
  <2>1. stack'[Len(stack')].at \in MainLabels
    BY <1>1, <1>2 DEF Linked
  <2>2. \A n \in 1..(Len(stack') - 1) : stack'[n].at \in Running \cup {"run"} \cup SendLabels
    BY <1>1 DEF Linked
  <2>3. ASSUME NEW n \in 1..(Len(stack') - 2)
        PROVE  \/ stack'[n + 1].at \in Running /\ stack'[n].at \in SendLabels
               \/ stack'[n + 1].at = "wait" /\ stack'[n].at \in Running \cup {"run"}
    <3>1. n + 1 \in 1..(Len(stack) - 2) /\ stack'[n] = stack[n + 1] /\ stack'[n + 1] = stack[(n + 1) + 1]
      BY <1>1
    <3>2. QED
      BY <3>1 DEF Linked
  <2>4. QED
    BY <1>1, <1>3, <2>1, <2>2, <2>3 DEF Linked
<1>5. Top' = stack[2]
  BY <1>1, <1>2, <1>3 DEF Top
<1>6. Shallow'
  <2>1. CASE Len(stack) = 2
    BY <1>1, <2>1 DEF Shallow
  <2>2. CASE Len(stack) # 2
    <3>1. \/ stack[2].at \in Running /\ Top.at \in SendLabels
          \/ stack[2].at = "wait" /\ Top.at \in Running \cup {"run"}
      BY <1>1, <1>2, <2>2 DEF Linked, Top
    <3>2. QED
      BY <1>1, <1>5, <3>1, LabelsApart DEF Shallow
  <2>3. QED
    BY <2>1, <2>2
<1>7. QED
  BY <1>4, <1>6
-----------------------------------------------------------------------------
LEMMA NestingCounts ==
  ASSUME Linked
  PROVE  nesting \in Nat
<1> DEFINE R == {n \in DOMAIN stack : stack[n].at \in Running}
<1>1. DOMAIN stack = 1..Len(stack) /\ Len(stack) \in Nat
  BY DEF Linked
<1>2. IsFiniteSet(1..Len(stack))
  BY <1>1, FS_Interval
<1>3. IsFiniteSet(R)
  BY <1>1, <1>2, FS_Subset
<1>4. QED
  BY <1>3, FS_CardinalityType DEF nesting

(* Every step of the main task is one of these.                            *)
LEMMA GoesTo ==
  ASSUME Linked, NEW label \in Labels, Goto(label),
         \/ Top.at \in Running \cup {"run"} /\ label \in Running
         \/ Top.at \in SendLabels /\ label \in SendLabels,
         Top.at = "run" => nesting < 2,
         label # "handle", label = "ready" => Held(Top),
         label \in {"wait", "write"} /\ Top.of \in Throttled => Passed(Top) \/ state = "CONNECTED"
  PROVE  \E f : Replaced(f)
<1> DEFINE f == [Top EXCEPT !.at = label]
<1>1. Top \in Frames
  BY DEF Linked, Top
<1>2. f \in Frames /\ f.at = label /\ f.of = Top.of
  BY <1>1 DEF Frames
<1>3. stack' = <<f>> \o Tail(stack)
  BY DEF Goto
<1> HIDE DEF f
<1>4. f.at = "ready" => Held(Top) /\ Held(f)
  BY <1>2 DEF Held
<1>5. Held(f) => Held(Top)
  BY <1>2 DEF Held
<1>6. Passed(f) => Passed(Top) \/ state = "CONNECTED"
  BY <1>2 DEF Passed
<1>7. QED
  BY <1>2, <1>3, <1>4, <1>5, <1>6 DEF Replaced

LEMMA Calls ==
  ASSUME Linked, LinkAssumption, NEW at \in {"run", "send"}, NEW of \in Holds, NEW label \in Labels,
         Call(Frame(at, of), label),
         \/ Top.at \in MainLabels /\ label \in MainLabels
         \/ Top.at \in Running /\ label \in Running /\ at = "send",
         label \notin {"handle", "ready"}
  PROVE  \E f, g : Pushed(f, g)
<1> DEFINE f == Frame(at, of)
<1> DEFINE g == [Top EXCEPT !.at = label]
<1>1. Top \in Frames
  BY DEF Linked, Top
<1>2. g \in Frames /\ g.at = label /\ g.of = Top.of
  BY <1>1 DEF Frames
<1>3. f \in Frames /\ f.at = at
  BY DEF Frame, Frames, Labels, LinkAssumption
<1>4. stack' = <<f, g>> \o Tail(stack)
  BY DEF Call
<1> HIDE DEF f, g
<1>5. Pushed(f, g)
  BY <1>2, <1>3, <1>4 DEF Pushed
<1>6. QED
  BY <1>5

LEMMA MainStack ==
  ASSUME LinkAssumption, Linked, Shared, LoginsKnown, Main
  PROVE  (\E f : Replaced(f)) \/ (\E f, g : Pushed(f, g)) \/ Popped
<1>1. Running \cup MainLabels \cup SendLabels \cup {"run"} \subseteq Labels
  BY DEF MainLabels, SendLabels, Labels
<1>2. Messages \subseteq Holds /\ Throttled \subseteq Holds /\ {"RESPONSE", "PING", "none"} \subseteq Holds
  BY DEF Holds
<1>3. Top \in Frames
  BY DEF Linked, Top
<1>4. Top.at = "ready" => Held(Top)
  BY DEF Linked, LoginsKnown, Top
<1>5. Return /\ Top.at \in Running \cup {"run"} \cup SendLabels => Popped
  BY DEF Return, Popped
<1>6. CASE Loop
  BY <1>1, <1>2, <1>6, Calls DEF Loop, At, MainLabels, Throttled
<1>7. CASE Run
  <2>1. CASE Return
    BY <1>5, <1>7, <2>1 DEF Run, At
  <2>2. CASE Goto("connected") /\ nesting < 2
    BY <1>1, <1>7, <2>2, GoesTo DEF Run, At, Running
  <2>3. nesting >= 2 \/ nesting < 2
    BY NestingCounts
  <2>4. QED
    BY <1>7, <2>1, <2>2, <2>3 DEF Run
<1>8. CASE Connected
  BY <1>1, <1>8, GoesTo DEF Connected, At, Running
<1>9. CASE Poll
  <2> DEFINE f == Frame("handle", Head(rx))
  <2>1. Head(rx) \in Messages
    BY <1>9 DEF Poll, Shared
  <2>2. f \in Frames /\ f.at = "handle" /\ f.of = Head(rx)
    <3> DEFINE m == Head(rx)
    <3>1. m \in Holds
      BY <1>2, <2>1
    <3> HIDE DEF m
    <3>2. [at |-> "handle", of |-> m, runs |-> 0] \in Frames
      BY <3>1 DEF Frames, Labels, Running, LinkAssumption
    <3> USE DEF m
    <3>3. QED
      BY <3>2 DEF Frame
  <2>3. stack' = <<f>> \o Tail(stack) /\ Top.at = "poll"
    BY <1>9 DEF Poll, At
  <2>4. loggedIn' = (loggedIn \/ Head(rx) = "login")
    BY <1>9 DEF Poll
  <2> HIDE DEF f
  <2>5. Held(f) => loggedIn'
    BY <2>2, <2>4 DEF Held
  <2>6. ~Passed(f)
    BY <2>2 DEF Passed
  <2>7. Replaced(f)
    BY <2>2, <2>3, <2>5, <2>6 DEF Replaced, Running
  <2>8. QED
    BY <2>7
<1>10. CASE Polled
  <2> DEFINE f == Frame("status", "none")
  <2>1. f \in Frames /\ f.at = "status" /\ f.of = "none"
    BY <1>2 DEF Frame, Frames, Labels, Running, LinkAssumption
  <2>2. stack' = <<f>> \o Tail(stack) /\ Top.at = "poll"
    BY <1>10 DEF Polled, At
  <2> HIDE DEF f
  <2>3. ~Held(f) /\ ~Passed(f)
    BY <2>1 DEF Held, Passed
  <2>4. Replaced(f)
    BY <2>1, <2>2, <2>3 DEF Replaced, Running
  <2>5. QED
    BY <2>4
<1>11. CASE Login
  <2>1. Held(Top) /\ Top.at = "handle"
    BY <1>11 DEF Login, At, Held
  <2>2. Goto("ready") \/ Goto("answer")
    BY <1>11 DEF Login
  <2>3. QED
    BY <1>1, <2>1, <2>2, GoesTo DEF Running
<1>12. CASE Ready
  BY <1>1, <1>2, <1>12, Calls DEF Ready, At, Running, Throttled
<1>13. CASE Answer
  BY <1>1, <1>2, <1>13, Calls DEF Answer, At, Running
<1>14. CASE Hardware
  <2>1. CASE Goto("poll")
    BY <1>1, <1>14, <2>1, GoesTo DEF Hardware, At, Running
  <2>2. CASE Call(Frame("send", "HARDWARE"), "release")
    BY <1>1, <1>2, <1>14, <2>2, Calls DEF Hardware, At, Running, Throttled
  <2>3. QED
    BY <1>14, <2>1, <2>2 DEF Hardware
<1>15. CASE Release
  BY <1>1, <1>15, GoesTo DEF Release, At, Running
<1>16. CASE Bad
  BY <1>1, <1>16, GoesTo DEF Bad, At, Running
<1>17. CASE Failed
  BY <1>5, <1>17 DEF Failed, At, Running
<1>18. CASE Unknown
  BY <1>1, <1>18, GoesTo DEF Unknown, At, Running
<1>19. CASE Lose
  BY <1>1, <1>19, GoesTo DEF Lose, At, Running
<1>20. CASE Drop
  <2>1. Top.at = "drop" /\ (Goto("poll") \/ Return)
    BY <1>20 DEF Drop, At
  <2>2. QED
    BY <1>1, <1>5, <2>1, GoesTo DEF Running
<1>21. CASE Status
  BY <1>1, <1>21, GoesTo DEF Status, At, Running
<1>22. CASE Up
  <2>1. Top.at = "up" /\ (Goto("lose") \/ Call(Frame("send", "PING"), "return") \/ Return)
    BY <1>22 DEF Up, At
  <2>2. QED
    BY <1>1, <1>2, <1>5, <2>1, GoesTo, Calls DEF Running
<1>23. CASE PingSent
  BY <1>5, <1>23 DEF PingSent, At, Running
<1>24. CASE Down
  <2>1. Top.at = "down" /\ (Goto("lose") \/ Goto("clear") \/ Return)
    BY <1>24 DEF Down, At
  <2>2. QED
    BY <1>1, <1>5, <2>1, GoesTo DEF Running
<1>25. CASE Clear
  BY <1>1, <1>25, GoesTo DEF Clear, At, Running
<1>26. CASE Conn
  BY <1>5, <1>26 DEF Conn, At, Running
<1>27. CASE Send
  <2>1. Top.at = "send" /\ (Goto("check") \/ Return)
    BY <1>27 DEF Send, At
  <2>2. QED
    BY <1>1, <1>5, <2>1, GoesTo DEF SendLabels
<1>28. CASE Check
  <2>1. Top.at = "check" /\ \/ Goto("write") /\ Top.of \notin Throttled
                            \/ Goto("wait") /\ state = "CONNECTED"
                            \/ Return
    BY <1>28 DEF Check, At
  <2>2. QED
    BY <1>1, <1>5, <2>1, GoesTo DEF SendLabels
<1>29. CASE WaitOnce
  <2> DEFINE f == Frame("run", "none")
  <2> DEFINE g == [Top EXCEPT !.runs = Top.runs + 1]
  <2>1. f \in Frames /\ f.at = "run"
    BY <1>2 DEF Frame, Frames, Labels, LinkAssumption
  <2>2. stack' = <<f, g>> \o Tail(stack) /\ Top.at = "wait"
    BY <1>29 DEF WaitOnce, At
  <2>3. Top.runs < MaxRuns /\ MaxRuns \in Nat /\ Top.runs \in 0..MaxRuns
    BY <1>3, <1>29 DEF WaitOnce, LinkAssumption, Frames
  <2>4. Top.runs + 1 \in 0..MaxRuns
    BY <2>3
  <2>5. g \in Frames /\ g.at = "wait" /\ g.of = Top.of
    BY <1>3, <2>2, <2>4 DEF Frames
  <2> HIDE DEF f, g
  <2>6. Pushed(f, g)
    BY <2>1, <2>2, <2>5 DEF Pushed
  <2>7. QED
    BY <2>6
<1>30. CASE Waited
  <2>1. Top.at = "wait" /\ Goto("write") /\ (Top.of \in Throttled => Passed(Top))
    BY <1>30 DEF Waited, At, Passed
  <2>2. QED
    BY <1>1, <2>1, GoesTo DEF SendLabels
<1>31. CASE Write
  BY <1>5, <1>31 DEF Write, At, SendLabels
<1>32. QED
  BY <1>6, <1>7, <1>8, <1>9, <1>10, <1>11, <1>12, <1>13, <1>14, <1>15, <1>16, <1>17, <1>18,
     <1>19, <1>20, <1>21, <1>22, <1>23, <1>24, <1>25, <1>26, <1>27, <1>28, <1>29, <1>30, <1>31
     DEF Main
-----------------------------------------------------------------------------
(* What the main task leaves alone.                                        *)
LEMMA MainLeaves ==
  ASSUME Shared, Main
  PROVE  /\ peer' = peer /\ bt' = bt /\ overtaken' = overtaken
         /\ loggedIn => loggedIn'
         /\ loggedIn' \in BOOLEAN
         /\ stale' = stale \/ Write
<1>1. CASE Poll
  BY <1>1 DEF Poll, phoneVars, Shared
<1>2. CASE Write
  BY <1>2 DEF Write, phoneVars, Shared
<1>3. CASE ~Poll /\ ~Write
  <2>1. UNCHANGED <<phoneVars, historyVars>>
    BY <1>3, Zenon DEF Main, Loop, Run, Connected, Polled, Login, Ready, Answer, Hardware, Release,
       Bad, Failed, Unknown, Lose, Drop, Status, Up, PingSent, Down, Clear, Conn, Send, Check,
       WaitOnce, Waited
  <2>2. QED
    BY <2>1 DEF phoneVars, historyVars, Shared
<1>4. QED
  BY <1>1, <1>2, <1>3

LEMMA MainLogins ==
  ASSUME Linked, LoginsKnown, overtaken' = overtaken, loggedIn => loggedIn',
         (\E f : Replaced(f)) \/ (\E f, g : Pushed(f, g)) \/ Popped
  PROVE  LoginsKnown'
<1>1. CASE \E f : Replaced(f)
  <2>1. PICK f : Replaced(f)
    BY <1>1
  <2>2. /\ stack' \in Seq(Frames) /\ Len(stack') = Len(stack)
        /\ stack'[1] = f /\ \A n \in 2..Len(stack) : stack'[n] = stack[n]
    BY <2>1, ReplacedTop DEF Linked, Replaced
  <2>3. /\ DOMAIN stack' = 1..Len(stack) /\ DOMAIN stack = 1..Len(stack)
        /\ Len(stack) \in Nat /\ Len(stack) >= 1 /\ Top = stack[1]
    BY <2>2 DEF Linked, Top
  <2>4. \A n \in DOMAIN stack' : n = 1 \/ (stack'[n] = stack[n] /\ n \in DOMAIN stack)
    BY <2>2, <2>3
  <2>5. (f.at = "ready" => Held(f)) /\ (Held(f) => Held(stack[1]) \/ loggedIn')
    BY <2>1, <2>3 DEF Replaced
  <2>6. ASSUME NEW n \in DOMAIN stack', Held(stack'[n])
        PROVE  loggedIn' \/ overtaken'
    <3>1. 1 \in DOMAIN stack
      BY <2>3
    <3>2. QED
      BY <2>2, <2>4, <2>5, <2>6, <3>1 DEF LoginsKnown
  <2>7. ASSUME NEW n \in DOMAIN stack', stack'[n].at = "ready"
        PROVE  Held(stack'[n])
    BY <2>2, <2>4, <2>5, <2>7 DEF LoginsKnown
  <2>8. QED
    BY <2>6, <2>7 DEF LoginsKnown, Held
<1>2. CASE \E f, g : Pushed(f, g)
  <2>1. PICK f, g : Pushed(f, g)
    BY <1>2
  <2>2. /\ stack' \in Seq(Frames) /\ Len(stack') = Len(stack) + 1
        /\ stack'[1] = f /\ stack'[2] = g /\ \A n \in 3..(Len(stack) + 1) : stack'[n] = stack[n - 1]
    BY <2>1, PushedTop DEF Linked, Pushed
  <2>3. /\ DOMAIN stack' = 1..(Len(stack) + 1) /\ DOMAIN stack = 1..Len(stack)
        /\ Len(stack) \in Nat /\ Len(stack) >= 1
    BY <2>2 DEF Linked
  <2>4. \A n \in DOMAIN stack' :
          n = 1 \/ n = 2 \/ (stack'[n] = stack[n - 1] /\ n - 1 \in DOMAIN stack)
    BY <2>2, <2>3
  <2>5. f.at \notin {"handle", "ready"} /\ g.at \notin {"handle", "ready"}
    BY <2>1 DEF Pushed
  <2>6. ASSUME NEW n \in DOMAIN stack', stack'[n].at \in {"handle", "ready"}
        PROVE  stack'[n] = stack[n - 1] /\ n - 1 \in DOMAIN stack
    BY <2>2, <2>4, <2>5, <2>6
  <2>7. QED
    BY <2>6 DEF LoginsKnown, Held
<1>3. CASE Popped
  <2>1. /\ stack' \in Seq(Frames) /\ Len(stack') = Len(stack) - 1
        /\ \A n \in 1..(Len(stack) - 1) : stack'[n] = stack[n + 1]
    BY <1>3, PoppedTop DEF Linked, Popped
  <2>2. /\ DOMAIN stack' = 1..(Len(stack) - 1) /\ DOMAIN stack = 1..Len(stack)
        /\ Len(stack) \in Nat
    BY <2>1 DEF Linked
  <2>3. \A n \in DOMAIN stack' : stack'[n] = stack[n + 1] /\ n + 1 \in DOMAIN stack
    BY <2>1, <2>2
  <2>4. QED
    BY <2>3 DEF LoginsKnown, Held
<1>4. QED
  BY <1>1, <1>2, <1>3

(* A step of the main task lets no command pass but one that finds the     *)
(* protocol connected, and a command written is one less.                  *)
LEMMA MainWaiting ==
  ASSUME Linked, state # "CONNECTED",
         (\E f : Replaced(f)) \/ (\E f, g : Pushed(f, g)) \/ Popped
  PROVE  Waiting' \subseteq Waiting
<1>0. Len(stack) \in Nat /\ Len(stack) >= 1 /\ Top = stack[1]
  BY DEF Linked, Top
<1>1. CASE \E f : Replaced(f)
  <2>1. PICK f : Replaced(f)
    BY <1>1
  <2>2. /\ Len(stack') = Len(stack)
        /\ stack'[1] = f /\ \A n \in 2..Len(stack) : stack'[n] = stack[n]
    BY <2>1, ReplacedTop DEF Linked, Replaced
  <2>3. Passed(f) => Passed(stack[1])
    BY <1>0, <2>1 DEF Replaced
  <2>4. \A n \in 1..Len(stack) : Passed(stack'[n]) => Passed(stack[n])
    <3>1. \A n \in 1..Len(stack) : n = 1 \/ n \in 2..Len(stack)
      BY <1>0
    <3>2. QED
      BY <2>2, <2>3, <3>1
  <2>5. ASSUME NEW d \in Waiting'
        PROVE  d \in Waiting
    <3>1. d \in 1..Len(stack) /\ Passed(stack'[Len(stack) + 1 - d])
      BY <2>2 DEF Waiting, Passed
    <3>2. Len(stack) + 1 - d \in 1..Len(stack)
      BY <1>0, <3>1
    <3>3. QED
      BY <2>4, <3>1, <3>2 DEF Waiting
  <2>6. QED
    BY <2>5
<1>2. CASE \E f, g : Pushed(f, g)
  <2>1. PICK f, g : Pushed(f, g)
    BY <1>2
  <2>2. /\ Len(stack') = Len(stack) + 1
        /\ stack'[1] = f /\ stack'[2] = g /\ \A n \in 3..(Len(stack) + 1) : stack'[n] = stack[n - 1]
    BY <2>1, PushedTop DEF Linked, Pushed
  <2>3. ~Passed(f) /\ (Passed(g) => Passed(stack[1]))
    BY <1>0, <2>1, LabelsApart DEF Pushed, Passed, MainLabels, SendLabels
  <2>4. ASSUME NEW d \in Waiting'
        PROVE  d \in Waiting
    <3>1. d \in 1..(Len(stack) + 1) /\ Passed(stack'[Len(stack) + 2 - d])
      <4>1. d \in 1..Len(stack') /\ Passed(stack'[Len(stack') + 1 - d])
        BY DEF Waiting, Passed
      <4>2. Len(stack') + 1 - d = Len(stack) + 2 - d
        BY <1>0, <2>2, <4>1
      <4>3. QED
        BY <2>2, <4>1, <4>2
    <3>2. CASE d = Len(stack) + 1
      <4>1. Len(stack) + 2 - d = 1
        BY <1>0, <3>2
      <4>2. QED
        BY <2>2, <2>3, <3>1, <4>1
    <3>3. CASE d = Len(stack)
      <4>1. Len(stack) + 2 - d = 2 /\ Len(stack) + 1 - d = 1 /\ d \in 1..Len(stack)
        BY <1>0, <3>3
      <4>2. QED
        BY <2>2, <2>3, <3>1, <4>1 DEF Waiting
    <3>4. CASE d < Len(stack)
      <4>1. /\ Len(stack) + 2 - d \in 3..(Len(stack) + 1)
            /\ (Len(stack) + 2 - d) - 1 = Len(stack) + 1 - d /\ d \in 1..Len(stack)
        BY <1>0, <3>1, <3>4
      <4>2. QED
        BY <2>2, <3>1, <4>1 DEF Waiting
    <3>5. QED
      BY <1>0, <3>1, <3>2, <3>3, <3>4
  <2>5. QED
    BY <2>4
<1>3. CASE Popped
  <2>1. /\ Len(stack') = Len(stack) - 1
        /\ \A n \in 1..(Len(stack) - 1) : stack'[n] = stack[n + 1]
    BY <1>3, PoppedTop DEF Linked, Popped
  <2>2. ASSUME NEW d \in Waiting'
        PROVE  d \in Waiting
    <3>1. d \in 1..Len(stack') /\ Passed(stack'[Len(stack') + 1 - d])
      BY DEF Waiting, Passed
    <3>2. /\ Len(stack') + 1 - d \in 1..(Len(stack) - 1) /\ d \in 1..Len(stack)
          /\ (Len(stack') + 1 - d) + 1 = Len(stack) + 1 - d
      BY <1>0, <2>1, <3>1
    <3>3. QED
      BY <2>1, <3>1, <3>2 DEF Waiting
  <2>3. QED
    BY <2>2
<1>4. QED
  BY <1>1, <1>2, <1>3
-----------------------------------------------------------------------------
(* Between two commands that wait there is a run.                          *)
LEMMA WaitingApart ==
  ASSUME Linked, Shallow
  PROVE  Waiting \subseteq 2..6 /\ \A d \in Waiting : d + 1 \notin Waiting
<1>1. Len(stack) \in Nat /\ Len(stack) >= 1 /\ Len(stack) <= 7 /\ Top = stack[1]
  BY DEF Linked, Shallow, Top
<1>2. \A d \in Waiting : d \in 1..Len(stack) /\ stack[Len(stack) + 1 - d].at \in SendLabels
  BY DEF Waiting, Passed, SendLabels
<1>3. ASSUME NEW d \in Waiting
      PROVE  d \in 2..6
  <2>1. d \in 1..Len(stack) /\ stack[Len(stack) + 1 - d].at \in SendLabels
    BY <1>2
  <2>2. CASE d = 1
    <3>1. Len(stack) + 1 - d = Len(stack)
      BY <1>1, <2>2
    <3>2. stack[Len(stack)].at \in MainLabels
      BY DEF Linked
    <3>3. QED
      BY <2>1, <3>1, <3>2, LabelsApart
  <2>3. CASE d = 7
    <3> DEFINE l == Len(stack)
    <3>0. l \in Nat /\ l <= 7 /\ d \in 1..l
      BY <1>1, <2>1
    <3> HIDE DEF l
    <3>1. l = 7 /\ l + 1 - d = 1
      BY <2>3, <3>0
    <3> USE DEF l
    <3>2. QED
      BY <1>1, <2>1, <3>1 DEF Shallow
  <2>4. QED
    BY <1>1, <2>1, <2>2, <2>3
<1>4. ASSUME NEW d \in Waiting, d + 1 \in Waiting
      PROVE  FALSE
  <2>1. d \in 2..6 /\ d + 1 \in 1..Len(stack)
    BY <1>2, <1>3, <1>4
  <2> DEFINE n == Len(stack) - d
  <2>2. /\ n \in 1..(Len(stack) - 2) /\ Len(stack) + 1 - d = n + 1
        /\ Len(stack) + 1 - (d + 1) = n
    BY <1>1, <2>1
  <2> HIDE DEF n
  <2>3. stack[n].at \in SendLabels /\ stack[n + 1].at \in SendLabels
    BY <1>2, <1>4, <2>2
  <2>4. \/ stack[n + 1].at \in Running /\ stack[n].at \in SendLabels
        \/ stack[n + 1].at = "wait" /\ stack[n].at \in Running \cup {"run"}
    BY <2>2 DEF Linked
  <2>5. QED
    BY <2>3, <2>4, LabelsApart
<1>5. QED
  BY <1>3, <1>4

LEMMA ThreeAtMost ==
  ASSUME NEW a, NEW b, NEW c, NEW S, S \subseteq {a, b, c}
  PROVE  IsFiniteSet(S) /\ Cardinality(S) \in 0..3
<1>1. IsFiniteSet({a}) /\ Cardinality({a}) = 1
  BY FS_Singleton
<1>2. IsFiniteSet({a} \cup {b}) /\ Cardinality({a} \cup {b}) \in 0..2
  BY <1>1, FS_AddElement
<1>3. IsFiniteSet(({a} \cup {b}) \cup {c}) /\ Cardinality(({a} \cup {b}) \cup {c}) \in 0..3
  BY <1>2, FS_AddElement
<1>4. S \subseteq ({a} \cup {b}) \cup {c}
  OBVIOUS
<1>5. IsFiniteSet(S) /\ Cardinality(S) <= Cardinality(({a} \cup {b}) \cup {c})
  BY <1>3, <1>4, FS_Subset
<1>6. Cardinality(S) \in Nat
  BY <1>5, FS_CardinalityType
<1>7. QED
  BY <1>3, <1>5, <1>6

LEMMA WaitingFew == Linked /\ Shallow => IsFiniteSet(Waiting) /\ Cardinality(Waiting) \in 0..3
<1> SUFFICES ASSUME Linked, Shallow
             PROVE  IsFiniteSet(Waiting) /\ Cardinality(Waiting) \in 0..3
  OBVIOUS
<1>1. Waiting \subseteq 2..6 /\ \A d \in Waiting : d + 1 \notin Waiting
  BY WaitingApart
<1> DEFINE a == IF 2 \in Waiting THEN 2 ELSE 3
<1> DEFINE b == IF 4 \in Waiting THEN 4 ELSE 5
<1>2. ~(2 \in Waiting /\ 3 \in Waiting) /\ ~(4 \in Waiting /\ 5 \in Waiting)
  <2>1. 2 + 1 = 3 /\ 4 + 1 = 5
    OBVIOUS
  <2>2. QED
    BY <1>1, <2>1
<1>3. \A d \in 2..6 : d = 2 \/ d = 3 \/ d = 4 \/ d = 5 \/ d = 6
  OBVIOUS
<1>4. Waiting \subseteq {a, b, 6}
  BY <1>1, <1>2, <1>3
<1> HIDE DEF a, b
<1>5. QED
  BY <1>4, ThreeAtMost

LEMMA WriteWaiting ==
  ASSUME Linked, Write
  PROVE  /\ Waiting' \subseteq Waiting \ {Len(stack)}
         /\ Top.of \in Throttled => Len(stack) \in Waiting
<1>0. Len(stack) \in Nat /\ Len(stack) >= 1 /\ Top = stack[1]
  BY DEF Linked, Top
<1>1. /\ Len(stack') = Len(stack) - 1
      /\ \A n \in 1..(Len(stack) - 1) : stack'[n] = stack[n + 1]
  BY PoppedTop DEF Linked, Write, Return
<1>2. ASSUME NEW d \in Waiting'
      PROVE  d \in Waiting \ {Len(stack)}
  <2>1. d \in 1..Len(stack') /\ Passed(stack'[Len(stack') + 1 - d])
    BY DEF Waiting, Passed
  <2>2. /\ Len(stack') + 1 - d \in 1..(Len(stack) - 1) /\ d \in 1..Len(stack)
        /\ (Len(stack') + 1 - d) + 1 = Len(stack) + 1 - d /\ d # Len(stack)
    BY <1>0, <1>1, <2>1
  <2>3. QED
    BY <1>1, <2>1, <2>2 DEF Waiting
<1>3. ASSUME Top.of \in Throttled
      PROVE  Len(stack) \in Waiting
  <2>1. Passed(stack[1])
    BY <1>0, <1>3 DEF Write, At, Passed
  <2>2. Len(stack) + 1 - Len(stack) = 1 /\ Len(stack) \in 1..Len(stack)
    BY <1>0
  <2>3. QED
    BY <2>1, <2>2 DEF Waiting
<1>4. QED
  BY <1>2, <1>3

(* Commands are written to the new session only while they waited already. *)
LEMMA MainCounts ==
  ASSUME LinkAssumption, Inv, Main, Linked', Shallow'
  PROVE  EarlyCounted'
<1>1. /\ peer' = peer /\ bt' = bt /\ overtaken' = overtaken /\ (loggedIn => loggedIn')
      /\ (stale' = stale \/ Write) /\ (InSession' <=> InSession)
  BY MainLeaves DEF Inv, InSession
<1>2. /\ IsFiniteSet(Waiting) /\ Cardinality(Waiting) \in 0..3
      /\ IsFiniteSet(Waiting') /\ Cardinality(Waiting') \in 0..3
  <2>1. (Linked /\ Shallow)' => (IsFiniteSet(Waiting) /\ Cardinality(Waiting) \in 0..3)'
    BY WaitingFew, PTL
  <2>2. IsFiniteSet(Waiting') /\ Cardinality(Waiting') \in 0..3
    BY <2>1
  <2>3. QED
    BY <2>2, WaitingFew DEF Inv
<1>3. CASE Write
  <2>1. Waiting' \subseteq Waiting \ {Len(stack)} /\ (Top.of \in Throttled => Len(stack) \in Waiting)
    BY <1>3, WriteWaiting DEF Inv
  <2>2. Cardinality(Waiting') <= Cardinality(Waiting)
    BY <1>2, <2>1, FS_Subset
  <2>3. Len(stack) \in Waiting => Cardinality(Waiting') <= Cardinality(Waiting) - 1
    <3>1. IsFiniteSet(Waiting \ {Len(stack)})
      BY <1>2, FS_Subset
    <3>2. Cardinality(Waiting') <= Cardinality(Waiting \ {Len(stack)})
      BY <2>1, <3>1, FS_Subset
    <3>3. Len(stack) \in Waiting => Cardinality(Waiting \ {Len(stack)}) = Cardinality(Waiting) - 1
      BY <1>2, FS_RemoveElement
    <3>4. QED
      BY <3>2, <3>3
  <2>4. \/ stale' = stale
        \/ stale' = stale + 1 /\ Len(stack) \in Waiting /\ InSession /\ ~loggedIn /\ ~overtaken
    BY <1>3, <2>1 DEF Write
  <2>5. stale \in 0..3 /\ (InSession /\ ~loggedIn /\ ~overtaken => stale + Cardinality(Waiting) <= 3)
    BY DEF Inv, EarlyCounted
  <2>6. QED
    BY <1>1, <1>2, <2>2, <2>3, <2>4, <2>5 DEF EarlyCounted
<1>4. CASE ~Write
  <2>1. stale' = stale /\ stale \in 0..3
    BY <1>1, <1>4 DEF Inv, EarlyCounted
  <2>2. ASSUME InSession', ~loggedIn', ~overtaken'
        PROVE  stale' + Cardinality(Waiting') <= 3
    <3>1. InSession /\ ~loggedIn /\ ~overtaken /\ state # "CONNECTED"
      BY <1>1, <2>2 DEF Inv, OwnLogin
    <3>2. Waiting' \subseteq Waiting
      BY <3>1, MainStack, MainWaiting DEF Inv
    <3>3. Cardinality(Waiting') <= Cardinality(Waiting)
      BY <1>2, <3>2, FS_Subset
    <3>4. stale + Cardinality(Waiting) <= 3
      BY <3>1 DEF Inv, EarlyCounted
    <3>5. QED
      BY <1>2, <2>1, <3>3, <3>4
  <2>3. QED
    BY <2>1, <2>2 DEF EarlyCounted
<1>5. QED
  BY <1>3, <1>4

LEMMA MainState ==
  ASSUME Shared, Main
  PROVE  /\ state' \in {state, "CONNECTING"} \/ (Ready /\ state' = "CONNECTED")
         /\ mConn' \in {mConn, TRUE, FALSE}
         /\ quiet' \in {quiet, FALSE} /\ (rx' \in {rx, <<>>} \/ Poll)
<1>1. CASE Poll
  BY <1>1 DEF Poll
<1>2. CASE Ready
  BY <1>2 DEF Ready
<1>3. CASE Clear
  BY <1>3 DEF Clear
<1>4. CASE Failed \/ Lose
  BY <1>4 DEF Failed, Lose
<1>5. CASE Bad \/ Drop \/ Conn
  BY <1>5 DEF Bad, Drop, Conn
<1>6. CASE ~(Poll \/ Ready \/ Clear \/ Failed \/ Lose \/ Bad \/ Drop \/ Conn)
  <2>1. UNCHANGED <<state, mConn, rx, quiet>>
    BY <1>6, Zenon DEF Main, Loop, Run, Connected, Polled, Login, Answer, Hardware, Release,
       Unknown, Status, Up, PingSent, Down, Send, Check, WaitOnce, Waited, Write
  <2>2. QED
    BY <2>1
<1>7. QED
  BY <1>1, <1>2, <1>3, <1>4, <1>5, <1>6

LEMMA MainShared ==
  ASSUME Shared, Main
  PROVE  Shared'
<1>1. state' \in {"CONNECTING", "CONNECTED", "DISCONNECTED"}
  BY MainState DEF Shared
<1>2. {mConn', peer', loggedIn', overtaken'} \subseteq BOOLEAN /\ bt' = bt
  BY MainState, MainLeaves DEF Shared
<1>3. CASE Poll
  <2>1. rx' \in Seq(Messages) /\ Len(rx') <= MaxInput
    <3>1. rx \in Seq(Messages) /\ rx # <<>> /\ rx' = Tail(rx) /\ Len(rx) <= MaxInput
      BY <1>3 DEF Poll, Shared
    <3>2. rx' \in Seq(Messages) /\ Len(rx') = Len(rx) - 1 /\ Len(rx) \in Nat
      BY <3>1
    <3>3. MaxInput \in Nat
      BY LinkAssumption DEF LinkAssumption
    <3>4. QED
      BY <3>1, <3>2, <3>3
  <2>2. quiet' \in BOOLEAN
    BY <1>3 DEF Poll, Shared
  <2>3. QED
    BY <1>1, <1>2, <2>1, <2>2 DEF Shared
<1>4. CASE ~Poll
  <2>1. quiet' \in BOOLEAN
    BY <1>4, MainState DEF Shared
  <2>2. rx' \in Seq(Messages) /\ Len(rx') <= MaxInput
    <3>1. <<>> \in Seq(Messages) /\ Len(<<>>) <= MaxInput
      BY LinkAssumption DEF LinkAssumption
    <3>2. QED
      BY <1>4, <3>1, MainState DEF Shared
  <2>3. QED
    BY <1>1, <1>2, <2>1, <2>2 DEF Shared
<1>5. QED
  BY <1>3, <1>4

LEMMA MainKeeps ==
  ASSUME LinkAssumption, Inv, Main
  PROVE  Inv'
<1>1. (\E f : Replaced(f)) \/ (\E f, g : Pushed(f, g)) \/ Popped
  BY MainStack DEF Inv
<1>2. Linked' /\ Shallow'
  BY <1>1, ReplacedLinked, PushedLinked, PoppedLinked DEF Inv
<1>3. /\ peer' = peer /\ bt' = bt /\ overtaken' = overtaken /\ (loggedIn => loggedIn')
      /\ (stale' = stale \/ Write) /\ Shared'
  BY MainLeaves, MainShared DEF Inv
<1>4. LoginsKnown'
  BY <1>1, <1>3, MainLogins DEF Inv
<1>5. SessionBegins'
  <2>1. bt # "idle" => stale' = stale
    BY <1>3 DEF Write, InSession
  <2>2. QED
    BY <1>3, <2>1 DEF Inv, SessionBegins
<1>6. OwnLogin'
  <2>1. CASE Ready
    <3>1. Top.at = "ready" /\ 1 \in DOMAIN stack /\ Top = stack[1]
      BY <2>1 DEF Ready, At, Inv, Linked, Top
    <3>2. loggedIn \/ overtaken
      BY <3>1 DEF Inv, LoginsKnown
    <3>3. QED
      BY <1>3, <3>2 DEF OwnLogin
  <2>2. CASE ~Ready
    <3>1. state' = "CONNECTED" => state = "CONNECTED"
      BY <2>2, MainState DEF Inv
    <3>2. QED
      BY <1>3, <3>1 DEF Inv, OwnLogin, InSession
  <2>3. QED
    BY <2>1, <2>2
<1>7. EarlyCounted'
  BY <1>2, MainCounts
<1>8. QED
  BY <1>2, <1>3, <1>4, <1>5, <1>6, <1>7 DEF Inv
-----------------------------------------------------------------------------
(* The Bluetooth task and the phone leave the main task's calls alone.     *)
LEMMA StackUnchanged ==
  ASSUME Linked, Shallow, stack' = stack
  PROVE  Linked' /\ Shallow' /\ Waiting' = Waiting
BY DEF Linked, Shallow, Waiting, Passed, Top

LEMMA BluetoothKeeps ==
  ASSUME LinkAssumption, Inv, Bluetooth
  PROVE  Inv'
<1>1. stack' = stack /\ peer' = peer
  BY DEF Bluetooth, BtClear, BtConn, BtStart, BtDisconnect, BtLost
<1>2. Linked' /\ Shallow' /\ Waiting' = Waiting
  BY <1>1, StackUnchanged DEF Inv
<1>3. Cardinality(Waiting) \in 0..3 /\ Cardinality(Waiting') = Cardinality(Waiting)
  BY <1>2, WaitingFew DEF Inv
<1>4. CASE BtClear
  <2>1. Shared'
    <3>1. <<>> \in Seq(Messages) /\ Len(<<>>) <= MaxInput
      BY DEF LinkAssumption
    <3>2. QED
      BY <1>4, <3>1 DEF BtClear, Inv, Shared
  <2>2. overtaken' <=> \E n \in DOMAIN stack : Held(stack[n])
    BY <1>4 DEF BtClear, Held
  <2>3. LoginsKnown'
    BY <1>1, <2>2 DEF Inv, LoginsKnown, Held
  <2>4. SessionBegins'
    BY <1>1, <1>4 DEF BtClear, Inv, SessionBegins
  <2>5. ~InSession'
    BY <1>4 DEF BtClear, InSession
  <2>6. OwnLogin' /\ EarlyCounted'
    BY <1>4, <2>5 DEF BtClear, OwnLogin, EarlyCounted
  <2>7. QED
    BY <1>2, <2>1, <2>3, <2>4, <2>6 DEF Inv
<1>5. CASE BtConn \/ BtDisconnect \/ BtLost
  <2>1. /\ UNCHANGED <<rx, quiet, loggedIn, overtaken, stale>>
        /\ mConn' \in {mConn, TRUE, FALSE} /\ state' \in {state, "DISCONNECTED"}
    BY <1>5 DEF BtConn, BtDisconnect, BtLost, historyVars
  <2>2. \/ bt \in {"mConn", "mConnAgain"} /\ bt' \in {"startSession", "state"}
        \/ bt \in {"disconnect", "disconnectAgain", "stateLost"}
           /\ bt' \in {"stateLost", "disconnectAgain", "idle"}
    BY <1>5 DEF BtConn, BtDisconnect, BtLost
  <2>3. Shared'
    BY <1>1, <2>1, <2>2 DEF Inv, Shared
  <2>4. LoginsKnown' /\ SessionBegins'
    BY <1>1, <2>1, <2>2 DEF Inv, LoginsKnown, SessionBegins, Held
  <2>5. ~InSession'
    BY <1>1, <2>2 DEF Inv, SessionBegins, InSession
  <2>6. OwnLogin' /\ EarlyCounted'
    BY <2>1, <2>5 DEF Inv, OwnLogin, EarlyCounted
  <2>7. QED
    BY <1>2, <2>3, <2>4, <2>6 DEF Inv
<1>6. CASE BtStart
  <2>1. /\ UNCHANGED <<mConn, rx, loggedIn, overtaken, stale>>
        /\ bt = "state" /\ bt' = "idle" /\ state' = "CONNECTING" /\ quiet' = FALSE
    BY <1>6 DEF BtStart, historyVars
  <2>2. Shared'
    BY <1>1, <2>1 DEF Inv, Shared
  <2>3. LoginsKnown' /\ SessionBegins'
    BY <1>1, <2>1 DEF Inv, LoginsKnown, SessionBegins, Held
  <2>4. OwnLogin'
    BY <2>1 DEF OwnLogin
  <2>5. EarlyCounted'
    BY <1>3, <2>1 DEF Inv, SessionBegins, EarlyCounted
  <2>6. QED
    BY <1>2, <2>2, <2>3, <2>4, <2>5 DEF Inv
<1>7. QED
  BY <1>4, <1>5, <1>6 DEF Bluetooth

LEMMA PhoneKeeps ==
  ASSUME LinkAssumption, Inv, Phone
  PROVE  Inv'
<1>1. /\ stack' = stack /\ UNCHANGED <<state, mConn, loggedIn, overtaken, stale>>
  BY DEF Phone, PhoneConnects, PhoneLeaves, Silence, PhoneSends, historyVars
<1>2. Linked' /\ Shallow' /\ Waiting' = Waiting
  BY <1>1, StackUnchanged DEF Inv
<1>3. LoginsKnown'
  BY <1>1 DEF Inv, LoginsKnown, Held
<1>4. Shared'
  <2>1. CASE PhoneConnects \/ PhoneLeaves
    BY <1>1, <2>1 DEF PhoneConnects, PhoneLeaves, Inv, Shared
  <2>2. CASE Silence
    BY <1>1, <2>2 DEF Silence, phoneVars, Inv, Shared
  <2>3. CASE \E m \in Messages : PhoneSends(m)
    <3>1. PICK m \in Messages : PhoneSends(m)
      BY <2>3
    <3>2. rx \in Seq(Messages) /\ Len(rx) < MaxInput /\ rx' = Append(rx, m) /\ MaxInput \in Nat
      BY <3>1 DEF PhoneSends, Inv, Shared, LinkAssumption
    <3>3. rx' \in Seq(Messages) /\ Len(rx') = Len(rx) + 1 /\ Len(rx) \in Nat
      BY <3>2
    <3>4. Len(rx') <= MaxInput
      BY <3>2, <3>3
    <3>5. QED
      BY <1>1, <3>1, <3>3, <3>4 DEF PhoneSends, phoneVars, Inv, Shared
  <2>4. QED
    BY <2>1, <2>2, <2>3 DEF Phone
<1>5. \/ UNCHANGED <<peer, bt>>
      \/ bt' = "connect" /\ peer'
      \/ bt' = "disconnect" /\ ~peer'
  BY DEF Phone, PhoneConnects, PhoneLeaves, Silence, PhoneSends, phoneVars
<1>6. SessionBegins' /\ OwnLogin'
  BY <1>1, <1>5 DEF Inv, SessionBegins, OwnLogin, InSession
<1>7. EarlyCounted'
  BY <1>1, <1>2, <1>5 DEF Inv, EarlyCounted, InSession
<1>8. QED
  BY <1>2, <1>3, <1>4, <1>6, <1>7 DEF Inv

LEMMA InitKeeps ==
  ASSUME LinkAssumption, Init
  PROVE  Inv
<1> DEFINE f == Frame("loop", "none")
<1>1. f \in Frames /\ f.at = "loop" /\ f.of = "none"
  BY DEF Frame, Frames, Labels, Holds, LinkAssumption
<1>2. stack = <<f>>
  BY DEF Init
<1> HIDE DEF f
<1>3. /\ stack \in Seq(Frames) /\ stack # <<>> /\ Len(stack) = 1 /\ stack[1] = f /\ Top = f
      /\ DOMAIN stack = {1}
  BY <1>1, <1>2 DEF Top
<1>4. Linked /\ Shallow
  BY <1>1, <1>3 DEF Linked, Shallow, MainLabels, SendLabels, Running
<1>5. Shared
  <2>1. <<>> \in Seq(Messages) /\ Len(<<>>) <= MaxInput
    BY DEF LinkAssumption
  <2>2. QED
    BY <2>1 DEF Init, Shared
<1>6. LoginsKnown
  BY <1>1, <1>3 DEF LoginsKnown, Held
<1>7. SessionBegins /\ OwnLogin /\ EarlyCounted
  BY DEF Init, SessionBegins, OwnLogin, EarlyCounted, InSession
<1>8. QED
  BY <1>4, <1>5, <1>6, <1>7 DEF Inv

LEMMA Invariance == Spec => []Inv
<1>1. Init => Inv
  BY LinkAssumption, InitKeeps
<1>2. Inv /\ [Next]_vars => Inv'
  <2> SUFFICES ASSUME Inv, [Next]_vars
               PROVE  Inv'
    OBVIOUS
  <2>1. CASE Main
    BY <2>1, LinkAssumption, MainKeeps
  <2>2. CASE Bluetooth
    BY <2>2, LinkAssumption, BluetoothKeeps
  <2>3. CASE Phone
    BY <2>3, LinkAssumption, PhoneKeeps
  <2>4. CASE UNCHANGED vars
    <3>1. UNCHANGED <<state, mConn, rx, stack, quiet, peer, bt, loggedIn, overtaken, stale>>
      BY <2>4 DEF vars, phoneVars, historyVars
    <3>2. Linked' /\ Shallow' /\ Waiting' = Waiting
      BY <3>1, StackUnchanged DEF Inv
    <3>3. QED
      BY <3>1, <3>2 DEF Inv, Shared, LoginsKnown, Held, SessionBegins, OwnLogin, EarlyCounted, InSession
  <2>5. QED
    BY <2>1, <2>2, <2>3, <2>4 DEF Next
<1>3. QED
  BY <1>1, <1>2, PTL DEF Spec
-----------------------------------------------------------------------------
(* The link's variables keep their types, in every state of the protocol   *)
(* and of the two tasks (BlynkProtocol.h, BlynkSimpleEsp32_BLE.h).         *)
THEOREM TypeCorrect == Spec => []TypeOK
<1>1. Inv => TypeOK
  BY DEF Inv, Linked, Frames, Shared, EarlyCounted, TypeOK
<1>2. QED
  BY <1>1, Invariance, PTL

(* run, processInput and sendCmd never call each other deeper than seven   *)
(* frames, however many messages the phone sends and however often a       *)
(* command waits: nesting stops run in its third call (BlynkProtocol.h).   *)
THEOREM DepthIsBounded == Spec => []DepthBounded
<1>1. Inv => DepthBounded
  BY DEF Inv, Shallow, DepthBounded
<1>2. QED
  BY <1>1, Invariance, PTL

(* A session is only CONNECTED by a login of its own or by one the main    *)
(* task held when it began: processInput stores CONNECTED only for a login *)
(* it has read, and startSession stores CONNECTING after the clear.        *)
THEOREM OwnLogins == Spec => []OwnLogin
<1>1. Inv => OwnLogin
  BY DEF Inv
<1>2. QED
  BY <1>1, Invariance, PTL

(* At most three commands are written to a session before its login: as    *)
(* many as can wait for each other in sendCmd when it begins, for after it *)
(* has begun none passes the check of state.                               *)
THEOREM CommandsFew == Spec => []EarlyCommandsFew
<1>1. Inv => EarlyCommandsFew
  BY DEF Inv, EarlyCounted, EarlyCommandsFew
<1>2. QED
  BY <1>1, Invariance, PTL
=============================================================================
