----------------------------- MODULE KeepAlive -----------------------------
(***************************************************************************)
(* How pingLoop decides that the IRC connection is dead (session.go:       *)
(* pingLoop, the PONG case of ircLoop, sendWS).                            *)
(*                                                                         *)
(* Time is counted in ticks of pingLoop's ticker (15 s).  The time of the  *)
(* last PING is taken some time after the tick that sent it, so when a     *)
(* whole number of ticks has passed the comparison with pingTimeout or     *)
(* pingInterval may come out either way.                                   *)
(***************************************************************************)
EXTENDS Naturals, Sequences

CONSTANTS
    Interval,   \* pingInterval in ticks (6 in the code)
    Timeout,    \* pingTimeout in ticks (4 in the code)
    Reply,      \* ticks within which a server that is alive answers
    MaxFlight   \* bound: PINGs under way

ASSUME KeepAliveAssumption ==
    /\ Interval \in Nat /\ Timeout \in Nat /\ Timeout < Interval
    /\ Reply \in Nat /\ MaxFlight \in Nat \ {0}

VARIABLES
    link,       \* the IRC connection: up or dead
    stalled,    \* ircLoop is blocked in sendWS
    flight,     \* PINGs on their way and PONGs on theirs: ticks since sent
    noting,     \* pingLoop has written a PING and not yet read the clock
    pinged,     \* pingSent is not zero
    sincePing,  \* ticks since pingSent
    answered,   \* lastPong is not before pingSent
    heard,      \* a PONG was handled since the last PING was written
    delayed,    \* a stall has kept ircLoop from its lines since the last PONG
    overtaken,  \* the last PING was answered before pingSent was set
    quiet,      \* ticks since a PONG was handled, or since the start
    closed      \* pingLoop has called Close

loopVars == <<noting, pinged, sincePing, closed>>
history  == <<delayed, overtaken>>
vars == <<link, stalled, flight, loopVars, answered, heard, quiet, history>>

(* quiet saturates here. *)
QuietMax == Interval + Timeout + 2

Init ==
    /\ link = "up" /\ stalled = FALSE
    /\ flight = <<>>
    /\ noting = FALSE /\ pinged = FALSE /\ sincePing = 0
    /\ answered = FALSE /\ heard = FALSE
    /\ delayed = FALSE /\ overtaken = FALSE
    /\ quiet = 0
    /\ closed = FALSE

-----------------------------------------------------------------------------
(* Mutant: the session is closed at the tick after the next PING.          *)
TimedOutAfterInterval(e, late) == e > Interval + 1

(* time.Since(pingSent) > pingTimeout, e ticks after the PING; late tells  *)
(* on which side of a whole number of ticks the clock was read.            *)
TimedOut(e, late) == e > Timeout \/ (e = Timeout /\ late)

(* Mutant: the interval is one tick longer. *)
PingDueLate(e, late) == ~pinged \/ e > Interval + 1 \/ (e = Interval + 1 /\ late)

(* time.Since(lastPing) >= pingInterval, and always before the first PING. *)
PingDue(e, late) == ~pinged \/ e > Interval \/ (e = Interval /\ late)

Older(s) == [i \in DOMAIN s |-> s[i] + 1]

(* A server that is alive answers in time, and ircLoop handles the answer  *)
(* unless it is blocked.                                                   *)
AnswersInTime ==
    (link = "up" /\ ~stalled) => \A i \in DOMAIN flight : flight[i] < Reply

(* The ticker fires and pingLoop runs its body: it gives up, or writes a   *)
(* PING, or waits.                                                         *)
Tick ==
    /\ ~closed /\ ~noting
    /\ AnswersInTime
    /\ quiet' = IF quiet < QuietMax THEN quiet + 1 ELSE quiet
    /\ \E late \in BOOLEAN :
        LET gone == pinged /\ ~answered /\ TimedOut(sincePing + 1, late)
        IN  \/ /\ gone
               /\ closed' = TRUE /\ flight' = <<>>
               /\ UNCHANGED <<noting, sincePing, heard>>
            \/ /\ ~gone
               /\ PingDue(sincePing + 1, late)
               /\ noting' = TRUE /\ heard' = FALSE
               /\ flight' = IF link = "up" /\ Len(flight) < MaxFlight
                            THEN Append(Older(flight), 0) ELSE Older(flight)
               /\ UNCHANGED <<sincePing, closed>>
            \/ /\ ~gone
               /\ ~PingDue(sincePing + 1, late)
               /\ sincePing' = sincePing + 1
               /\ flight' = Older(flight)
               /\ UNCHANGED <<noting, heard, closed>>
    /\ UNCHANGED <<link, stalled, pinged, answered, history>>

(* The PING is out; pingLoop reads the clock, less than a tick later. *)
NotePing ==
    /\ noting
    /\ noting' = FALSE
    /\ pinged' = TRUE /\ sincePing' = 0
    /\ answered' = FALSE
    /\ overtaken' = (heard /\ flight = <<>>)
    /\ UNCHANGED <<link, stalled, flight, heard, quiet, closed, delayed>>

(* The browser asks for a PING of its own, to measure the lag. *)
BrowserPing ==
    /\ ~closed /\ link = "up"
    /\ Len(flight) < MaxFlight
    /\ flight' = Append(flight, 0)
    /\ UNCHANGED <<link, stalled, loopVars, answered, heard, quiet, history>>

(* Mutant: a PONG is only passed on to the browser. *)
PongUnrecorded ==
    /\ ~closed /\ ~stalled
    /\ flight # <<>>
    /\ flight' = Tail(flight)
    /\ heard' = TRUE /\ quiet' = 0
    /\ delayed' = FALSE
    /\ UNCHANGED <<link, stalled, loopVars, answered, overtaken>>

(* ircLoop handles a PONG, whichever PING it answers, and sets lastPong.   *)
HandlePong ==
    /\ ~closed /\ ~stalled
    /\ flight # <<>>
    /\ flight' = Tail(flight)
    /\ answered' = TRUE
    /\ heard' = TRUE /\ quiet' = 0
    /\ delayed' = FALSE
    /\ UNCHANGED <<link, stalled, loopVars, overtaken>>

(* The link dies silently; answers that have arrived are still handled.    *)
LinkDies ==
    /\ link = "up"
    /\ link' = "dead"
    /\ \E k \in 0..Len(flight) : flight' = SubSeq(flight, 1, k)
    /\ UNCHANGED <<stalled, loopVars, answered, heard, quiet, history>>

(* A browser stops draining its WebSocket: sendWS has no deadline, and     *)
(* ircLoop waits in it.                                                    *)
StallBegins ==
    /\ ~stalled
    /\ stalled' = TRUE /\ delayed' = TRUE
    /\ UNCHANGED <<link, flight, loopVars, answered, heard, quiet, overtaken>>

StallEnds ==
    /\ stalled
    /\ stalled' = FALSE
    /\ UNCHANGED <<link, flight, loopVars, answered, heard, quiet, history>>

-----------------------------------------------------------------------------
Next ==
    \/ Tick \/ NotePing \/ BrowserPing \/ HandlePong
    \/ LinkDies \/ StallBegins \/ StallEnds

Spec == Init /\ [][Next]_vars

(* The ticker ticks, ircLoop runs, and a stalled WebSocket is given up.    *)
Fairness ==
    /\ WF_vars(Tick) /\ WF_vars(NotePing)
    /\ SF_vars(HandlePong) /\ WF_vars(StallEnds)

FairSpec == Spec /\ Fairness

-----------------------------------------------------------------------------
(* Every variable keeps its type; the age of the last PING stays within    *)
(* the timeout while it is not answered, and within the interval after.    *)
TypeOK ==
    /\ link \in {"up", "dead"} /\ stalled \in BOOLEAN
    /\ flight \in Seq(Nat) /\ Len(flight) <= MaxFlight
    /\ noting \in BOOLEAN /\ pinged \in BOOLEAN /\ closed \in BOOLEAN
    /\ answered \in BOOLEAN /\ heard \in BOOLEAN
    /\ delayed \in BOOLEAN /\ overtaken \in BOOLEAN
    /\ sincePing \in 0..Interval /\ (answered \/ sincePing <= Timeout)
    /\ quiet \in 0..QuietMax

(* A session that is not closed has handled a PONG within an interval, a   *)
(* timeout and a tick: no dead connection lives longer, whatever PONGs     *)
(* arrive late, out of turn, or on behalf of the browser                   *)
(* (session.go:1024-1046).                                                 *)
DetectionBound == ~closed => quiet <= Interval + Timeout + 1

(* A connection whose server answers within Reply ticks is closed for one  *)
(* of two reasons only: a browser that did not drain its socket has kept   *)
(* ircLoop from the PONG, or the PONG was handled before pingLoop, which   *)
(* had written the PING, read the clock (session.go:1038-1048).            *)
NoFalseAlarm == closed /\ link = "up" => delayed \/ overtaken

(* A dead link is closed in the end (session.go:1040-1043). *)
DeadLinkCloses == (link = "dead") ~> closed

(* README.md:32 "your IRC connection stays alive when the browser tab      *)
(* closes or the network drops", session.go:1002-1003 "a stalled browser   *)
(* connection never blocks goroutines that only need session state": a     *)
(* link that is up is not closed for what the browser does.                *)
BrowserNeverKillsLink == closed /\ link = "up" => overtaken
=============================================================================
