--------------------------- MODULE KeepAliveProofs ---------------------------
(***************************************************************************)
(* Theorems about KeepAlive: the types, and the bound on how long a dead   *)
(* connection can go unnoticed, for every interval and timeout.            *)
(***************************************************************************)
EXTENDS KeepAlive, TLAPS

LEMMA OlderIsSeq ==
    ASSUME NEW s \in Seq(Nat)
    PROVE  Older(s) \in Seq(Nat) /\ Len(Older(s)) = Len(s)
BY DEF Older

(* KeepAlive never leaves its types: in particular a PING that is not      *)
(* answered is never older than the timeout when a tick has passed         *)
(* (session.go:1040).                                                      *)
THEOREM TypeCorrect == Spec => []TypeOK
<1> USE KeepAliveAssumption
<1>0. <<>> \in Seq(Nat) /\ Len(<<>>) = 0 /\ MaxFlight \in Nat
  OBVIOUS
<1>1. Init => TypeOK
  <2> SUFFICES ASSUME Init
               PROVE  TypeOK
    OBVIOUS
  <2>1. sincePing \in 0..Interval /\ sincePing <= Timeout /\ quiet \in 0..QuietMax
    BY DEF Init, QuietMax
  <2>2. flight \in Seq(Nat) /\ Len(flight) <= MaxFlight
    BY <1>0 DEF Init
  <2> QED BY <2>1, <2>2 DEF Init, TypeOK
<1>2. TypeOK /\ [Next]_vars => TypeOK'
  <2> SUFFICES ASSUME TypeOK, [Next]_vars
               PROVE  TypeOK'
    OBVIOUS
  <2>0. quiet \in Nat /\ sincePing \in Nat /\ Len(flight) \in Nat /\ flight \in Seq(Nat)
    BY DEF TypeOK, QuietMax
  <2>1. CASE Tick
    <3>1. /\ quiet' \in 0..QuietMax
          /\ UNCHANGED <<link, stalled, pinged, answered, history>>
      BY <2>0, <2>1 DEF Tick, TypeOK, QuietMax, history
    <3>2. Older(flight) \in Seq(Nat) /\ Len(Older(flight)) = Len(flight)
      BY <2>0, OlderIsSeq
    <3>3. flight' \in {<<>>, Older(flight)}
            \/ (Len(flight) < MaxFlight /\ flight' = Append(Older(flight), 0))
      BY <2>1 DEF Tick
    <3>4. flight' \in Seq(Nat) /\ Len(flight') <= MaxFlight
      <4> DEFINE older == Older(flight)
      <4>1. older \in Seq(Nat) /\ Len(older) = Len(flight)
        BY <3>2
      <4>2. Len(flight) <= MaxFlight
        BY DEF TypeOK
      <4>3. flight' \in {<<>>, older}
              \/ (Len(flight) < MaxFlight /\ flight' = Append(older, 0))
        BY <3>3
      <4> HIDE DEF older
      <4>4. CASE flight' = <<>>
        BY <1>0, <4>4
      <4>6. CASE flight' = older
        BY <4>1, <4>2, <4>6
      <4>5. CASE Len(flight) < MaxFlight /\ flight' = Append(older, 0)
        <5>1. Append(older, 0) \in Seq(Nat) /\ Len(Append(older, 0)) = Len(older) + 1
          BY <4>1
        <5> QED BY <5>1, <4>1, <4>5, <2>0
      <4> QED BY <4>3, <4>4, <4>5, <4>6
    <3>5. noting' \in BOOLEAN /\ closed' \in BOOLEAN /\ heard' \in BOOLEAN
      BY <2>1 DEF Tick, TypeOK, history
    <3>6. sincePing' \in 0..Interval /\ (answered' \/ sincePing' <= Timeout)
      <4>1. CASE sincePing' = sincePing
        BY <4>1, <3>1 DEF TypeOK
      <4>2. CASE sincePing' # sincePing
        <5>1. PICK late \in BOOLEAN :
                 /\ ~(pinged /\ ~answered /\ TimedOut(sincePing + 1, late))
                 /\ ~PingDue(sincePing + 1, late)
                 /\ sincePing' = sincePing + 1
          BY <2>1, <4>2 DEF Tick
        <5> QED BY <2>0, <3>1, <5>1 DEF PingDue, TimedOut
      <4> QED BY <4>1, <4>2
    <3> QED BY <3>1, <3>4, <3>5, <3>6 DEF TypeOK, history
  <2>2. CASE NotePing
    <3>1. sincePing' \in 0..Interval /\ sincePing' <= Timeout /\ quiet' \in 0..QuietMax
      BY <2>0, <2>2 DEF NotePing, TypeOK, QuietMax
    <3>2. overtaken' \in BOOLEAN
      BY <2>2 DEF NotePing
    <3>3. /\ UNCHANGED <<link, stalled, flight, heard, closed, delayed>>
          /\ noting' = FALSE /\ pinged' = TRUE /\ answered' = FALSE
      BY <2>2 DEF NotePing
    <3>4. sincePing' \in 0..Interval /\ (answered' \/ sincePing' <= Timeout)
      BY <3>1
    <3>5. flight' \in Seq(Nat) /\ Len(flight') <= MaxFlight
      BY <3>3 DEF TypeOK
    <3> QED BY <3>1, <3>2, <3>3, <3>4, <3>5 DEF TypeOK
  <2>3. CASE BrowserPing
    BY <2>0, <2>3 DEF BrowserPing, loopVars, history, TypeOK, QuietMax
  <2>4. CASE HandlePong
    <3>1. flight' \in Seq(Nat) /\ Len(flight') <= MaxFlight
      BY <2>0, <2>4 DEF HandlePong, TypeOK
    <3>2. quiet' \in 0..QuietMax
      BY <2>4 DEF HandlePong, QuietMax
    <3>3. /\ UNCHANGED <<link, stalled, noting, pinged, sincePing, closed, overtaken>>
          /\ answered' /\ answered' \in BOOLEAN /\ heard' \in BOOLEAN /\ delayed' \in BOOLEAN
      BY <2>4 DEF HandlePong, loopVars
    <3> QED BY <3>1, <3>2, <3>3 DEF TypeOK
  <2>5. CASE LinkDies
    <3>1. PICK k \in 0..Len(flight) : flight' = SubSeq(flight, 1, k)
      BY <2>5 DEF LinkDies
    <3>2. flight' \in Seq(Nat) /\ Len(flight') = k
      BY <2>0, <3>1
    <3>3. Len(flight') <= MaxFlight
      BY <2>0, <3>2 DEF TypeOK
    <3> QED BY <2>5, <3>2, <3>3 DEF LinkDies, loopVars, history, TypeOK, QuietMax
  <2>6. CASE StallBegins
    BY <2>6 DEF StallBegins, loopVars, history, TypeOK, QuietMax
  <2>7. CASE StallEnds
    BY <2>7 DEF StallEnds, loopVars, history, TypeOK, QuietMax
  <2>8. CASE UNCHANGED vars
    BY <2>8 DEF vars, loopVars, history, TypeOK, QuietMax
  <2> QED BY <2>1, <2>2, <2>3, <2>4, <2>5, <2>6, <2>7, <2>8 DEF Next
<1> QED BY <1>1, <1>2, PTL DEF Spec

-----------------------------------------------------------------------------
(* How long it has been quiet, by what pingLoop is waiting for: the tick   *)
(* that starts it, the next interval, or an answer.                        *)
Waits ==
    ~closed =>
      /\ ~pinged => sincePing = 0 /\ quiet <= (IF noting THEN 1 ELSE 0)
      /\ pinged /\ answered => quiet <= sincePing + (IF noting THEN 1 ELSE 0)
      /\ pinged /\ ~answered => ~noting /\ quiet <= sincePing + Interval + 1

LEMMA WaitsStep == ASSUME TypeOK, Waits, [Next]_vars
                   PROVE  Waits'
<1> USE KeepAliveAssumption
<1>0. /\ quiet \in Nat
      /\ sincePing \in Nat
      /\ sincePing <= Interval /\ (answered \/ sincePing <= Timeout)
      /\ noting \in BOOLEAN /\ pinged \in BOOLEAN /\ answered \in BOOLEAN
  BY DEF TypeOK, QuietMax
<1>1. CASE Tick
  <2>1. PICK late \in BOOLEAN :
           \/ closed'
           \/ /\ ~(pinged /\ ~answered /\ TimedOut(sincePing + 1, late))
              /\ PingDue(sincePing + 1, late)
              /\ noting' /\ sincePing' = sincePing
           \/ /\ ~PingDue(sincePing + 1, late)
              /\ sincePing' = sincePing + 1 /\ noting' = noting
    BY <1>1 DEF Tick
  <2>2. /\ ~closed /\ ~noting
        /\ quiet' <= quiet + 1 /\ quiet' \in Nat
        /\ pinged' = pinged /\ answered' = answered
    BY <1>0, <1>1 DEF Tick, QuietMax
  <2>3. CASE closed'
    BY <2>3 DEF Waits
  <2>4. CASE /\ ~(pinged /\ ~answered /\ TimedOut(sincePing + 1, late))
             /\ PingDue(sincePing + 1, late)
             /\ noting' /\ sincePing' = sincePing
    <3>1. ~(pinged /\ ~answered)
      BY <1>0, <2>4 DEF TimedOut, PingDue
    <3> QED BY <1>0, <2>2, <2>4, <3>1 DEF Waits
  <2>5. CASE /\ ~PingDue(sincePing + 1, late)
             /\ sincePing' = sincePing + 1 /\ noting' = noting
    <3>1. pinged
      BY <2>5 DEF PingDue
    <3> QED BY <1>0, <2>2, <2>5, <3>1 DEF Waits
  <2> QED BY <2>1, <2>3, <2>4, <2>5
<1>2. CASE NotePing
  <2>1. /\ noting /\ pinged' /\ ~answered' /\ ~noting'
        /\ sincePing' = 0 /\ quiet' = quiet /\ closed' = closed
    BY <1>2 DEF NotePing
  <2>2. ~closed => quiet <= Interval + 1
    BY <1>0, <2>1 DEF Waits
  <2> QED BY <1>0, <2>1, <2>2 DEF Waits
<1>3. CASE HandlePong
  BY <1>0, <1>3 DEF HandlePong, loopVars, history, Waits
<1>4. CASE BrowserPing \/ LinkDies \/ StallBegins \/ StallEnds \/ UNCHANGED vars
  BY <1>4 DEF BrowserPing, LinkDies, StallBegins, StallEnds, loopVars, history, vars, Waits
<1> QED BY <1>1, <1>2, <1>3, <1>4 DEF Next

(* No connection goes unnoticed for more than an interval, a timeout and a *)
(* tick, whatever the constants, the lateness of the answers and the       *)
(* stalls of the browser (session.go:1028-1052).                           *)
THEOREM DeadLinkDetected == Spec => []DetectionBound
<1>1. Init => Waits
  BY DEF Init, Waits
<1>2. TypeOK /\ Waits => DetectionBound
  <2> SUFFICES ASSUME TypeOK, Waits, ~closed
               PROVE  quiet <= Interval + Timeout + 1
    BY DEF DetectionBound
  <2>1. /\ quiet \in Nat /\ sincePing \in Nat
        /\ sincePing <= Interval /\ (answered \/ sincePing <= Timeout)
        /\ noting \in BOOLEAN /\ pinged \in BOOLEAN /\ answered \in BOOLEAN
    BY KeepAliveAssumption DEF TypeOK, QuietMax
  <2> QED BY <2>1, KeepAliveAssumption DEF Waits
<1> QED BY <1>1, <1>2, TypeCorrect, WaitsStep, PTL DEF Spec
-----------------------------------------------------------------------------
(* Why a session whose server answers in time is not closed: the PING that *)
(* pingLoop is waiting for, or a later one, is still under way and is at   *)
(* least as old as pingSent; a stall, and a PONG handled before pingSent   *)
(* was set, are the two ways out, and history remembers them.              *)
OnItsWay ==
    ~closed /\ link = "up" =>
      /\ noting => flight # <<>> \/ heard
      /\ pinged /\ ~answered => overtaken \/ (flight # <<>> /\ flight[1] >= sincePing)

Innocent ==
    /\ NoFalseAlarm
    /\ closed => ~noting
    /\ stalled => delayed
    /\ OnItsWay

(* What Older, Append, SubSeq and Tail leave at the head of the flight. *)
LEMMA OlderHead ==
    ASSUME NEW s \in Seq(Nat)
    PROVE  /\ Older(s) # <<>> <=> s # <<>>
           /\ s # <<>> => s[1] \in Nat /\ Older(s)[1] = s[1] + 1
BY DEF Older

LEMMA AppendHead ==
    ASSUME NEW s \in Seq(Nat), NEW n \in Nat
    PROVE  Append(s, n) # <<>> /\ (s # <<>> => Append(s, n)[1] = s[1])
OBVIOUS

LEMMA TickInnocent ==
    ASSUME Reply < Timeout, TypeOK, Innocent, Tick
    PROVE  Innocent'
<1> USE KeepAliveAssumption
<1>0. /\ ~closed /\ ~noting /\ AnswersInTime
      /\ flight \in Seq(Nat) /\ sincePing \in Nat
      /\ UNCHANGED <<link, stalled, pinged, answered, delayed, overtaken>>
  BY DEF Tick, TypeOK, history
<1>1. (stalled => delayed) /\ OnItsWay
  BY DEF Innocent
<1>2. PICK late \in BOOLEAN :
         \/ /\ pinged /\ ~answered /\ TimedOut(sincePing + 1, late)
            /\ closed' /\ noting' = noting
         \/ /\ noting' /\ ~heard' /\ sincePing' = sincePing /\ closed' = closed
            /\ flight' = IF link = "up" /\ Len(flight) < MaxFlight
                          THEN Append(Older(flight), 0) ELSE Older(flight)
         \/ /\ sincePing' = sincePing + 1 /\ flight' = Older(flight)
            /\ UNCHANGED <<noting, heard, closed>>
  BY DEF Tick
<1>3. CASE /\ pinged /\ ~answered /\ TimedOut(sincePing + 1, late)
           /\ closed' /\ noting' = noting
  <2>1. sincePing + 1 >= Timeout
    BY <1>0, <1>3 DEF TimedOut
  <2>2. ASSUME link = "up", ~delayed, ~overtaken
        PROVE  FALSE
    <3>1. flight # <<>> /\ flight[1] >= sincePing
      BY <1>0, <1>1, <1>3, <2>2 DEF OnItsWay
    <3>2. flight[1] < Reply /\ flight[1] \in Nat
      BY <1>0, <1>1, <2>2, <3>1 DEF AnswersInTime
    <3> QED BY <1>0, <2>1, <3>1, <3>2
  <2> QED BY <1>0, <1>1, <1>3, <2>2 DEF Innocent, NoFalseAlarm, OnItsWay
<1>4. CASE /\ noting' /\ ~heard' /\ sincePing' = sincePing /\ closed' = closed
           /\ flight' = IF link = "up" /\ Len(flight) < MaxFlight
                         THEN Append(Older(flight), 0) ELSE Older(flight)
  <2>1. Older(flight) \in Seq(Nat) /\ Len(Older(flight)) = Len(flight)
    BY <1>0, OlderIsSeq
  <2>2. flight' \in {Older(flight), Append(Older(flight), 0)}
    BY <1>4
  <2>3. flight # <<>> => flight' # <<>> /\ flight'[1] = flight[1] + 1 /\ flight[1] \in Nat
    <3>1. flight # <<>> => /\ Older(flight) # <<>> /\ flight[1] \in Nat
                           /\ Older(flight)[1] = flight[1] + 1
      BY <1>0, OlderHead
    <3>2. CASE flight' = Older(flight)
      BY <3>1, <3>2
    <3>3. CASE flight' = Append(Older(flight), 0)
      <4>1. flight' # <<>> /\ (Older(flight) # <<>> => flight'[1] = Older(flight)[1])
        BY <2>1, <3>3, AppendHead
      <4> QED BY <3>1, <4>1
    <3> QED BY <2>2, <3>2, <3>3
  <2>4. link = "up" => flight' # <<>>
    <3>1. CASE Len(flight) < MaxFlight
      BY <1>4, <2>1, <3>1, AppendHead
    <3>2. CASE ~(Len(flight) < MaxFlight)
      BY <1>0, <2>3, <3>2
    <3> QED BY <3>1, <3>2
  <2> QED BY <1>0, <1>1, <1>4, <2>3, <2>4 DEF Innocent, NoFalseAlarm, OnItsWay
<1>5. CASE /\ sincePing' = sincePing + 1 /\ flight' = Older(flight)
           /\ UNCHANGED <<noting, heard, closed>>
  <2>1. flight # <<>> => flight' # <<>> /\ flight'[1] = flight[1] + 1 /\ flight[1] \in Nat
    BY <1>0, <1>5, OlderHead
  <2> QED BY <1>0, <1>1, <1>5, <2>1 DEF Innocent, NoFalseAlarm, OnItsWay
<1> QED BY <1>2, <1>3, <1>4, <1>5

LEMMA InnocentStep ==
    ASSUME Reply < Timeout, TypeOK, Innocent, [Next]_vars
    PROVE  Innocent'
<1> USE DEF Innocent, NoFalseAlarm, OnItsWay
<1>0. flight \in Seq(Nat) /\ sincePing \in Nat /\ (\A i \in DOMAIN flight : flight[i] \in Nat)
  BY DEF TypeOK
<1>1. CASE Tick
  BY <1>1, TickInnocent
<1>2. CASE NotePing
  <2>1. flight # <<>> => flight[1] >= 0
    BY <1>0
  <2> QED BY <1>2, <2>1 DEF NotePing
<1>3. CASE BrowserPing
  <2>1. flight' # <<>> /\ (flight # <<>> => flight'[1] = flight[1])
    BY <1>0, <1>3, AppendHead DEF BrowserPing
  <2> QED BY <1>3, <2>1 DEF BrowserPing, loopVars, history
<1>4. CASE HandlePong
  BY <1>4 DEF HandlePong, loopVars
<1>5. CASE LinkDies
  BY <1>5 DEF LinkDies, loopVars, history
<1>6. CASE StallBegins \/ StallEnds \/ UNCHANGED vars
  BY <1>6 DEF StallBegins, StallEnds, loopVars, history, vars
<1> QED BY <1>1, <1>2, <1>3, <1>4, <1>5, <1>6 DEF Next

(* A server that answers every PING in fewer ticks than the timeout never  *)
(* loses its connection but for a stall of the browser or a PONG that      *)
(* overtook the clock, whatever the interval, the number of PINGs under    *)
(* way and the PINGs of the browser (session.go:1028-1052).                *)
THEOREM ServerInTimeIsKept ==
    ASSUME Reply < Timeout
    PROVE  Spec => []NoFalseAlarm
<1>1. Init => Innocent
  BY DEF Init, Innocent, NoFalseAlarm, OnItsWay
<1>2. TypeOK /\ Innocent /\ [Next]_vars => Innocent'
  BY InnocentStep
<1>3. Innocent => NoFalseAlarm
  BY DEF Innocent
<1> QED BY <1>1, <1>2, <1>3, TypeCorrect, PTL DEF Spec
=============================================================================
