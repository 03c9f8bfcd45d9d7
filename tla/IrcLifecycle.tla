---------------------------- MODULE IrcLifecycle ----------------------------
(***************************************************************************)
(* The IRC connection of one session from Connect to Close: the goroutines *)
(* that Connect starts (ircReadLoop, ircLoop, pingLoop, sendLoop), the     *)
(* channel of lines between the first two, the done channel, and every     *)
(* caller of Close: a handler's Quit, pingLoop's timeout, the expiry timer *)
(* of Detach (session.go: Connect, ircLoop, Quit, Close, pingLoop,         *)
(* sendLoop; client.go: ircReadLoop).                                      *)
(*                                                                         *)
(* Lines are counted, not represented.  The first line ircLoop handles     *)
(* stands for 001, which tells the browser the session ID: no second       *)
(* handler can join before it.                                             *)
(***************************************************************************)
EXTENDS Naturals

CONSTANTS
    Handlers,   \* the wsHandler goroutines that serve the session
    First,      \* the one that created it
    PingLoop,   \* pingLoop, as a caller of Close
    Timer,      \* an expiry timer of Detach, as a caller of Close
    LineCap,    \* capacity of the lines channel (64 in the code)
    MaxLines,   \* bound: lines the server sends
    MaxDials    \* bound: connection attempts

ASSUME IrcLifecycleAssumption ==
    /\ First \in Handlers
    /\ PingLoop \notin Handlers /\ Timer \notin Handlers /\ PingLoop # Timer
    /\ LineCap \in Nat \ {0} /\ MaxLines \in Nat /\ MaxDials \in Nat

Closers == Handlers \cup {PingLoop, Timer}

VARIABLES
    pc,         \* handler -> where it is; Connect runs in its handler
    closing,    \* caller -> where in Close it is
    done,       \* s.done is closed
    panicked,   \* the process crashed: close of a closed channel
    conn,       \* s.conn: none, or the state of the connection
    leaked,     \* a connection was overwritten while open
    dials,      \* connection attempts so far
    wire,       \* lines the server sent and ircReadLoop has not scanned
    sent,       \* lines the server sent
    scanned,    \* lines ircReadLoop scanned
    lines,      \* lines in the channel
    linesClosed,\* the channel is closed
    processed,  \* lines ircLoop handled
    told,       \* ircLoop sent "disconnected"
    reader,     \* where ircReadLoop is
    loop,       \* where ircLoop is
    ping,       \* where pingLoop is
    sender      \* where sendLoop is

connVars  == <<conn, leaked, dials>>
lineVars  == <<wire, sent, scanned, lines, linesClosed, processed, told>>
goVars    == <<reader, loop, ping, sender>>
closeVars == <<closing, done, panicked>>
vars      == <<pc, closeVars, connVars, lineVars, goVars>>

Open == {"open", "stuck", "eof"}

Init ==
    /\ pc = [h \in Handlers |-> IF h = First THEN "idle" ELSE "absent"]
    /\ closing = [p \in Closers |-> "no"]
    /\ done = FALSE /\ panicked = FALSE
    /\ conn = "none" /\ leaked = FALSE /\ dials = 0
    /\ wire = 0 /\ sent = 0 /\ scanned = 0 /\ lines = 0 /\ linesClosed = FALSE
    /\ processed = 0 /\ told = FALSE
    /\ reader = "none" /\ loop = "none" /\ ping = "none" /\ sender = "none"

Goto(h, l) == pc' = [pc EXCEPT ![h] = l]

-----------------------------------------------------------------------------
(* Connect, in the handler that received "connect".                        *)

(* Mutant: a closed session is not refused. *)
ConnectUnchecked(h) ==
    /\ pc[h] = "idle" /\ closing[h] = "no"
    /\ Goto(h, "check")
    /\ UNCHANGED <<closeVars, connVars, lineVars, goVars>>

(* A session that is closed is refused. *)
ConnectCheckDone(h) ==
    /\ pc[h] = "idle" /\ closing[h] = "no"
    /\ ~done
    /\ Goto(h, "check")
    /\ UNCHANGED <<closeVars, connVars, lineVars, goVars>>

(* Mutant: a session that has a connection is not refused. *)
ConnectAgain(h) ==
    /\ pc[h] = "check"
    /\ Goto(h, "dial")
    /\ UNCHANGED <<closeVars, connVars, lineVars, goVars>>

(* So is one that has a connection, dead or alive. *)
ConnectCheckConn(h) ==
    /\ pc[h] = "check"
    /\ Goto(h, IF conn = "none" THEN "dial" ELSE "idle")
    /\ UNCHANGED <<closeVars, connVars, lineVars, goVars>>

DialFails(h) ==
    /\ pc[h] = "dial"
    /\ Goto(h, "idle")
    /\ UNCHANGED <<closeVars, connVars, lineVars, goVars>>

DialSucceeds(h) ==
    /\ pc[h] = "dial"
    /\ dials < MaxDials
    /\ dials' = dials + 1
    /\ leaked' = (leaked \/ conn \in Open)
    /\ conn' = "open"
    /\ Goto(h, "handshake")
    /\ UNCHANGED <<closeVars, lineVars, goVars>>

HandshakeFails(h) ==
    /\ pc[h] = "handshake"
    /\ conn' = "none"
    /\ Goto(h, "idle")
    /\ UNCHANGED <<leaked, dials, closeVars, lineVars, goVars>>

(* The four goroutines start together. *)
HandshakeSucceeds(h) ==
    /\ pc[h] = "handshake"
    /\ reader' = "scan" /\ loop' = "recv" /\ ping' = "run" /\ sender' = "select"
    /\ Goto(h, "idle")
    /\ UNCHANGED <<closeVars, connVars, lineVars>>

-----------------------------------------------------------------------------
(* The IRC server and the network. *)
ServerSends ==
    /\ conn = "open" /\ reader # "none"
    /\ sent < MaxLines
    /\ sent' = sent + 1 /\ wire' = wire + 1
    /\ UNCHANGED <<pc, closeVars, connVars, goVars, scanned, lines, linesClosed,
                   processed, told>>

(* The path to the server stops carrying bytes: writes may block. *)
LinkSticks ==
    /\ conn = "open" /\ reader # "none"
    /\ conn' = "stuck"
    /\ UNCHANGED <<pc, closeVars, leaked, dials, lineVars, goVars>>

(* The server hangs up, or TCP gives up. *)
LinkDrops ==
    /\ conn \in {"open", "stuck"} /\ reader # "none"
    /\ conn' = "eof"
    /\ UNCHANGED <<pc, closeVars, leaked, dials, lineVars, goVars>>

-----------------------------------------------------------------------------
(* ircReadLoop: a line that has arrived is scanned even when the           *)
(* connection is closed by then, if the scanner holds it already.          *)
ReaderScans ==
    /\ reader = "scan"
    /\ wire > 0
    /\ wire' = wire - 1 /\ scanned' = scanned + 1
    /\ reader' = "put"
    /\ UNCHANGED <<pc, closeVars, connVars, sent, lines, linesClosed, processed,
                   told, loop, ping, sender>>

(* Scan fails: the channel is closed. *)
ReaderEnds ==
    /\ reader = "scan"
    /\ (conn = "eof" /\ wire = 0) \/ conn = "closed"
    /\ linesClosed' = TRUE
    /\ reader' = "exited"
    /\ UNCHANGED <<pc, closeVars, connVars, wire, sent, scanned, lines, processed,
                   told, loop, ping, sender>>

ReaderPuts ==
    /\ reader = "put"
    /\ lines < LineCap
    /\ lines' = lines + 1
    /\ reader' = "scan"
    /\ UNCHANGED <<pc, closeVars, connVars, wire, sent, scanned, linesClosed,
                   processed, told, loop, ping, sender>>

(* The other branch of the select: it returns at once. *)
ReaderQuits ==
    /\ reader = "put"
    /\ done
    /\ reader' = "exited"
    /\ UNCHANGED <<pc, closeVars, connVars, lineVars, loop, ping, sender>>

(* Mutant: a closed channel yields empty lines, which are handled. *)
LoopReceivesNil ==
    /\ loop = "recv"
    /\ lines > 0 \/ linesClosed
    /\ lines' = IF lines > 0 THEN lines - 1 ELSE 0
    /\ loop' = "work"
    /\ UNCHANGED <<pc, closeVars, connVars, wire, sent, scanned, linesClosed,
                   processed, told, reader, ping, sender>>

(* ircLoop: it handles a line to the end, sendWS included, before it       *)
(* receives the next.                                                      *)
LoopReceives ==
    /\ loop = "recv"
    /\ lines > 0
    /\ lines' = lines - 1
    /\ loop' = "work"
    /\ UNCHANGED <<pc, closeVars, connVars, wire, sent, scanned, linesClosed,
                   processed, told, reader, ping, sender>>

LoopWorks ==
    /\ loop = "work"
    /\ processed' = processed + 1
    /\ loop' = "recv"
    /\ UNCHANGED <<pc, closeVars, connVars, wire, sent, scanned, lines, linesClosed,
                   told, reader, ping, sender>>

(* Mutant: a closed channel ends the loop although lines are left in it. *)
LoopEndsEarly ==
    /\ loop = "recv"
    /\ linesClosed
    /\ told' = TRUE
    /\ loop' = "exited"
    /\ UNCHANGED <<pc, closeVars, connVars, wire, sent, scanned, lines, linesClosed,
                   processed, reader, ping, sender>>

LoopEnds ==
    /\ loop = "recv"
    /\ lines = 0 /\ linesClosed
    /\ told' = TRUE
    /\ loop' = "exited"
    /\ UNCHANGED <<pc, closeVars, connVars, wire, sent, scanned, lines, linesClosed,
                   processed, reader, ping, sender>>

(* sendLoop takes a line and writes it; a write may block on a stuck link. *)
SenderTakes ==
    /\ sender = "select"
    /\ sender' = "write"
    /\ UNCHANGED <<pc, closeVars, connVars, lineVars, reader, loop, ping>>

SenderWrites ==
    /\ sender = "write"
    /\ conn # "stuck"
    /\ sender' = "select"
    /\ UNCHANGED <<pc, closeVars, connVars, lineVars, reader, loop, ping>>

SenderQuits ==
    /\ sender = "select" /\ done
    /\ sender' = "exited"
    /\ UNCHANGED <<pc, closeVars, connVars, lineVars, reader, loop, ping>>

(* pingLoop writes PING on a tick ... *)
PingTicks ==
    /\ ping = "run" /\ closing[PingLoop] = "no"
    /\ ping' = "write"
    /\ UNCHANGED <<pc, closeVars, connVars, lineVars, reader, loop, sender>>

PingWrites ==
    /\ ping = "write"
    /\ conn # "stuck"
    /\ ping' = "run"
    /\ UNCHANGED <<pc, closeVars, connVars, lineVars, reader, loop, sender>>

PingQuits ==
    /\ ping = "run" /\ closing[PingLoop] = "no" /\ done
    /\ ping' = "exited"
    /\ UNCHANGED <<pc, closeVars, connVars, lineVars, reader, loop, sender>>

(* Mutant: a ping timeout is noticed but the session is not closed. *)
PingTimeoutIgnored ==
    /\ ping = "run" /\ closing[PingLoop] = "no"
    /\ ping' = "exited"
    /\ UNCHANGED <<pc, closeVars, connVars, lineVars, reader, loop, sender>>

(* ... and finds on a later one that no PONG was handled in time.  That is *)
(* also what a slow ircLoop looks like, so it may happen at any time.      *)
PingTimeout ==
    /\ ping = "run" /\ closing[PingLoop] = "no"
    /\ closing' = [closing EXCEPT ![PingLoop] = "check"]
    /\ UNCHANGED <<pc, done, panicked, connVars, lineVars, goVars>>

-----------------------------------------------------------------------------
(* The handlers and the timer. *)

(* A second tab resumes the session once its ID is known. *)
Join(h) ==
    /\ pc[h] = "absent" /\ processed > 0
    /\ Goto(h, "idle")
    /\ UNCHANGED <<closeVars, connVars, lineVars, goVars>>

(* Quit, up to its call of Close. *)
Quit(h) ==
    /\ pc[h] = "idle" /\ closing[h] = "no"
    /\ closing' = [closing EXCEPT ![h] = "check"]
    /\ UNCHANGED <<pc, done, panicked, connVars, lineVars, goVars>>

Leave(h) ==
    /\ pc[h] = "idle" /\ closing[h] = "no"
    /\ Goto(h, "gone")
    /\ UNCHANGED <<closeVars, connVars, lineVars, goVars>>

(* A handler has detached and its timer fires, finding no socket. *)
Expire ==
    /\ closing[Timer] = "no"
    /\ \E h \in Handlers : pc[h] = "gone"
    /\ closing' = [closing EXCEPT ![Timer] = "check"]
    /\ UNCHANGED <<pc, done, panicked, connVars, lineVars, goVars>>

-----------------------------------------------------------------------------
(* Close: it looks whether done is closed, ... *)
CloseCheck(p) ==
    /\ closing[p] = "check"
    /\ closing' = [closing EXCEPT ![p] = IF done THEN "conn" ELSE "close"]
    /\ UNCHANGED <<pc, done, panicked, connVars, lineVars, goVars>>

(* ... closes it if it was not, ...                                        *)
CloseDone(p) ==
    /\ closing[p] = "close"
    /\ ~done
    /\ done' = TRUE
    /\ closing' = [closing EXCEPT ![p] = "conn"]
    /\ UNCHANGED <<pc, panicked, connVars, lineVars, goVars>>

(* ... and if another caller got in between, the second close panics: the  *)
(* process ends, with every goroutine and every session in it.             *)
DoubleClose(p) ==
    /\ closing[p] = "close"
    /\ done
    /\ panicked' = TRUE
    /\ pc' = [h \in Handlers |-> "gone"]
    /\ closing' = [q \in Closers |-> "over"]
    /\ conn' = "closed"
    /\ reader' = "exited" /\ loop' = "exited" /\ ping' = "exited" /\ sender' = "exited"
    /\ UNCHANGED <<done, leaked, dials, lineVars>>

(* Mutant: the connection is left open. *)
CloseLeavesConn(p) ==
    /\ closing[p] = "conn"
    /\ closing' = [closing EXCEPT ![p] = IF p = Timer THEN "over" ELSE "no"]
    /\ ping' = IF p = PingLoop THEN "exited" ELSE ping
    /\ UNCHANGED <<conn, pc, done, panicked, leaked, dials, lineVars, reader, loop, sender>>

(* Otherwise Close closes the connection, under mu.  After it pingLoop returns, a  *)
(* handler goes on reading and the timer is over.                          *)
CloseConn(p) ==
    /\ closing[p] = "conn"
    /\ conn' = IF conn = "none" THEN "none" ELSE "closed"
    /\ closing' = [closing EXCEPT ![p] = IF p = Timer THEN "over" ELSE "no"]
    /\ ping' = IF p = PingLoop THEN "exited" ELSE ping
    /\ UNCHANGED <<pc, done, panicked, leaked, dials, lineVars, reader, loop, sender>>

-----------------------------------------------------------------------------
Connect(h) ==
    \/ ConnectCheckDone(h) \/ ConnectCheckConn(h) \/ DialFails(h) \/ DialSucceeds(h)
    \/ HandshakeFails(h) \/ HandshakeSucceeds(h)

Close(p) == CloseCheck(p) \/ CloseDone(p) \/ DoubleClose(p) \/ CloseConn(p)

Reader == ReaderScans \/ ReaderEnds \/ ReaderPuts \/ ReaderQuits
Loop   == LoopReceives \/ LoopWorks \/ LoopEnds

Next ==
    \/ \E h \in Handlers : Connect(h) \/ Join(h) \/ Quit(h) \/ Leave(h)
    \/ Expire
    \/ \E p \in Closers : Close(p)
    \/ ServerSends \/ LinkSticks \/ LinkDrops
    \/ Reader \/ Loop
    \/ SenderTakes \/ SenderWrites \/ SenderQuits
    \/ PingTicks \/ PingWrites \/ PingQuits \/ PingTimeout

Spec == Init /\ [][Next]_vars

(* The goroutines run; a select whose done case stays ready takes it in    *)
(* the end, and a write on a link that is not stuck ends.  TCP gives up on *)
(* a stuck link.  A dead link times out: its last PONG has been handled.   *)
Fairness ==
    /\ \A p \in Closers : WF_vars(Close(p))
    /\ WF_vars(Reader) /\ WF_vars(Loop)
    /\ WF_vars(SenderWrites) /\ SF_vars(SenderQuits)
    /\ WF_vars(PingWrites) /\ SF_vars(PingQuits)
    /\ WF_vars(conn = "stuck" /\ LinkDrops)
    /\ SF_vars(conn = "eof" /\ PingTimeout)

FairSpec == Spec /\ Fairness

-----------------------------------------------------------------------------
(* Every variable keeps its type; the channel respects its capacity and no *)
(* line is in two places (client.go:108-122, session.go:250).              *)
TypeOK ==
    /\ pc \in [Handlers -> {"absent", "idle", "check", "dial", "handshake", "gone"}]
    /\ closing \in [Closers -> {"no", "check", "close", "conn", "over"}]
    /\ done \in BOOLEAN /\ panicked \in BOOLEAN
    /\ conn \in {"none", "open", "stuck", "eof", "closed"}
    /\ leaked \in BOOLEAN /\ dials \in 0..MaxDials
    /\ sent \in 0..MaxLines /\ wire \in 0..MaxLines /\ scanned \in 0..MaxLines
    /\ processed \in 0..MaxLines
    /\ lines \in 0..LineCap
    /\ linesClosed \in BOOLEAN /\ told \in BOOLEAN
    /\ reader \in {"none", "scan", "put", "exited"}
    /\ loop \in {"none", "recv", "work", "exited"}
    /\ ping \in {"none", "run", "write", "exited"}
    /\ sender \in {"none", "select", "write", "exited"}

(* No connection is overwritten while it is open: of several "connect"     *)
(* messages, on one socket or on several, at most one succeeds             *)
(* (session.go:203-219).                                                   *)
NoConnectionLeaked == ~leaked

(* The goroutines of a connection never start on a closed session, nor a   *)
(* second time (session.go:203-205): nobody closes a session while its     *)
(* handler is in Connect.                                                  *)
StartOnce ==
    [][reader # reader' /\ reader' = "scan" /\ reader # "put" =>
         ~done /\ reader = "none"]_vars

(* When ircLoop tells the browser that it is disconnected, every line that *)
(* came in before has been handled (session.go:359-363, client.go:121).    *)
DisconnectedIsLast ==
    told => linesClosed /\ lines = 0 /\ processed = scanned

(* Once the session is closed the reader, pingLoop and sendLoop end,       *)
(* whatever they are blocked on (session.go:1111-1124).                    *)
Ended(g) == g \in {"none", "exited"}
WorkersExit == done ~> (Ended(reader) /\ Ended(ping) /\ Ended(sender))

(* A link that dies, silently or not, closes the session in the end: no    *)
(* session keeps a dead connection (session.go:1024-1046).                 *)
DeadLinkCloses == conn \in {"stuck", "eof"} ~> done

(* client.go:105-107 "The out channel is closed when ircReadLoop returns   *)
(* so range-based consumers exit naturally", session.go:1111-1112: Close   *)
(* "signals all goroutines (ircLoop, pingLoop, ircReadLoop) to exit".      *)
IrcLoopExits == done ~> Ended(loop)

(* session.go:1112: Close is "Safe to call more than once". *)
CloseIsIdempotent == ~panicked
=============================================================================
