--------------------------- MODULE SessionSocket ---------------------------
(***************************************************************************)
(* One session of the bridge, its IRC side registered and running, and the *)
(* WebSockets that attach to it and detach from it while ircLoop keeps     *)
(* producing frames for the browser (session.go: Resume, Detach, sendWS,   *)
(* SendResumed; handler.go: wsHandler).                                    *)
(*                                                                         *)
(* Every WebSocket c comes with one handler goroutine (wsHandler) and,     *)
(* once it has detached, one expiry timer (time.AfterFunc).  The goroutine *)
(* of ircLoop is IrcLoop.  s.mu guards sections with no blocking call, so  *)
(* each of them is one atomic step; s.wsMu is held across writes that can  *)
(* block, so it is a variable.                                             *)
(*                                                                         *)
(* A frame is the number of the ircLoop event it carries, or Resumed.      *)
(***************************************************************************)
EXTENDS Naturals, Sequences, FiniteSets

CONSTANTS
    Sockets,    \* the WebSockets that name this session in their URL
    First,      \* the one the session was created on
    NoSocket,   \* s.ws = nil
    IrcLoop,    \* the goroutine of ircLoop
    Nobody,     \* s.wsMu unlocked
    BufferMax,  \* -buffer-max: frames kept while detached
    Window,     \* WsReconnectWindow, in ticks
    MaxEvents   \* bound: events that ircLoop produces

ASSUME SessionSocketAssumption ==
    /\ First \in Sockets
    /\ NoSocket \notin Sockets
    /\ IrcLoop \notin Sockets
    /\ Nobody \notin Sockets \cup {IrcLoop}
    /\ BufferMax \in Nat
    /\ Window \in Nat
    /\ MaxEvents \in Nat

VARIABLES
    ws,         \* s.ws
    buf,        \* s.buf
    wsMu,       \* the goroutine that holds s.wsMu
    pending,    \* Resume's local copy of the buffer, what is left to flush
    to,         \* goroutine -> the socket sendWS read from s.ws and still uses
    pc,         \* socket -> where its handler is
    link,       \* socket -> state of its TCP connection
    inbox,      \* socket -> frames the browser has received on it
    emitted,    \* number of events ircLoop has produced
    lost,       \* events that no browser will ever receive
    timer,      \* socket -> where the expiry timer of its Detach is
    left,       \* socket -> ticks until that timer fires
    away,       \* ticks since ws last became nil (at most Window)
    closed,     \* s.done is closed
    registered  \* the session is in the registry

vars == <<ws, buf, wsMu, pending, to, pc, link, inbox, emitted, lost,
          timer, left, away, closed, registered>>

socketVars == <<ws, buf, wsMu, pending, to, pc, inbox, emitted, lost>>
timerVars  == <<timer, left, away>>
lifeVars   == <<closed, registered>>

Resumed == 0
Senders == Sockets \cup {IrcLoop}
Events(s) == {s[i] : i \in DOMAIN s} \ {Resumed}

Active == {"flush", "resumed", "sending", "reading"}
PCs    == Active \cup {"unopened", "lookup", "attach", "gone", "elsewhere"}

Init ==
    /\ ws = First
    /\ buf = <<>> /\ pending = <<>>
    /\ wsMu = Nobody
    /\ to = [p \in Senders |-> NoSocket]
    /\ pc = [c \in Sockets |-> IF c = First THEN "reading" ELSE "unopened"]
    /\ link = [c \in Sockets |-> "up"]
    /\ inbox = [c \in Sockets |-> <<>>]
    /\ emitted = 0 /\ lost = {}
    /\ timer = [c \in Sockets |-> "off"]
    /\ left = [c \in Sockets |-> 0]
    /\ away = 0
    /\ closed = FALSE /\ registered = TRUE

-----------------------------------------------------------------------------
(* wsHandler opens a WebSocket that names the session. *)
Upgrade(c) ==
    /\ pc[c] = "unopened"
    /\ pc' = [pc EXCEPT ![c] = "lookup"]
    /\ UNCHANGED <<ws, buf, wsMu, pending, to, link, inbox, emitted, lost,
                   timerVars, lifeVars>>

(* Resume reads the registry; an unknown session makes the handler answer  *)
(* session_expired and serve a new session, which is not this one.         *)
Lookup(c) ==
    /\ pc[c] = "lookup"
    /\ pc' = [pc EXCEPT ![c] = IF registered THEN "attach" ELSE "elsewhere"]
    /\ UNCHANGED <<ws, buf, wsMu, pending, to, link, inbox, emitted, lost,
                   timerVars, lifeVars>>

(* Mutant: the new socket is published without holding wsMu. *)
AttachUnlocked(c) ==
    /\ pc[c] = "attach"
    /\ wsMu = Nobody
    /\ ws' = c
    /\ pending' = buf /\ buf' = <<>>
    /\ pc' = [pc EXCEPT ![c] = "flush"]
    /\ UNCHANGED <<wsMu, to, link, inbox, emitted, lost, timerVars, lifeVars>>

(* Mutant: s.buf = nil is forgotten. *)
AttachKeepsBuffer(c) ==
    /\ pc[c] = "attach"
    /\ wsMu = Nobody
    /\ wsMu' = c
    /\ ws' = c
    /\ pending' = buf /\ UNCHANGED buf
    /\ pc' = [pc EXCEPT ![c] = "flush"]
    /\ UNCHANGED <<to, link, inbox, emitted, lost, timerVars, lifeVars>>

(* Mutant: the browser is told resumed before the flush. *)
AttachAnnounced(c) ==
    /\ pc[c] = "attach"
    /\ wsMu = Nobody
    /\ wsMu' = c
    /\ ws' = c
    /\ pending' = buf /\ buf' = <<>>
    /\ inbox' = [inbox EXCEPT ![c] = Append(@, Resumed)]
    /\ pc' = [pc EXCEPT ![c] = "flush"]
    /\ UNCHANGED <<to, link, emitted, lost, timerVars, lifeVars>>

(* Resume takes wsMu and, under mu, publishes the socket and takes the     *)
(* buffer.  It keeps wsMu for the flush.                                   *)
Attach(c) ==
    /\ pc[c] = "attach"
    /\ wsMu = Nobody
    /\ wsMu' = c
    /\ ws' = c
    /\ pending' = buf /\ buf' = <<>>
    /\ pc' = [pc EXCEPT ![c] = "flush"]
    /\ UNCHANGED <<to, link, inbox, emitted, lost, timerVars, lifeVars>>

(* ws.WriteMessage: it has no deadline, so it blocks while the peer does   *)
(* not drain the connection; on a dead one it fails and nobody looks.      *)
Transmit(c, f) ==
    \/ /\ link[c] = "up"
       /\ inbox' = [inbox EXCEPT ![c] = Append(@, f)]
       /\ UNCHANGED lost
    \/ /\ link[c] = "down"
       /\ lost' = lost \cup ({f} \ {Resumed})
       /\ UNCHANGED inbox

Flush(c) ==
    /\ pc[c] = "flush"
    /\ pending # <<>>
    /\ Transmit(c, Head(pending))
    /\ pending' = Tail(pending)
    /\ UNCHANGED <<ws, buf, wsMu, to, pc, link, emitted, timerVars, lifeVars>>

(* Mutant: the flush gives up at the first write that fails. *)
EndFlushOnError(c) ==
    /\ pc[c] = "flush"
    /\ pending = <<>> \/ link[c] = "down"
    /\ wsMu' = Nobody
    /\ pc' = [pc EXCEPT ![c] = "resumed"]
    /\ UNCHANGED <<ws, buf, pending, to, link, inbox, emitted, lost,
                   timerVars, lifeVars>>

EndFlush(c) ==
    /\ pc[c] = "flush"
    /\ pending = <<>>
    /\ wsMu' = Nobody
    /\ pc' = [pc EXCEPT ![c] = "resumed"]
    /\ UNCHANGED <<ws, buf, pending, to, link, inbox, emitted, lost,
                   timerVars, lifeVars>>

-----------------------------------------------------------------------------
(* Mutant: the buffer has no limit. *)
CaptureUnbounded(p, f) ==
    \/ /\ ws = NoSocket
       /\ buf' = Append(buf, f)
       /\ UNCHANGED <<to, lost>>
    \/ /\ ws # NoSocket
       /\ to' = [to EXCEPT ![p] = ws]
       /\ UNCHANGED <<buf, lost>>

(* The section of sendWS under mu: while the session is detached the frame *)
(* is buffered, or dropped when the buffer is full; otherwise the socket   *)
(* is read here and written to later, without mu.                          *)
Capture(p, f) ==
    \/ /\ ws = NoSocket
       /\ Len(buf) < BufferMax
       /\ buf' = Append(buf, f)
       /\ UNCHANGED <<to, lost>>
    \/ /\ ws = NoSocket
       /\ Len(buf) >= BufferMax
       /\ lost' = lost \cup ({f} \ {Resumed})
       /\ UNCHANGED <<buf, to>>
    \/ /\ ws # NoSocket
       /\ to' = [to EXCEPT ![p] = ws]
       /\ UNCHANGED <<buf, lost>>

(* The frame a goroutine has in hand between Capture and WriteWs. *)
Hand(p) == IF p = IrcLoop THEN emitted ELSE Resumed

(* ircLoop has something to tell the browser. *)
Emit ==
    /\ emitted < MaxEvents
    /\ to[IrcLoop] = NoSocket
    /\ emitted' = emitted + 1
    /\ Capture(IrcLoop, emitted + 1)
    /\ UNCHANGED <<ws, wsMu, pending, pc, link, inbox, timerVars, lifeVars>>

(* The handler of a resumed socket calls SendResumed. *)
SendResumed(c) ==
    /\ pc[c] = "resumed"
    /\ Capture(c, Resumed)
    /\ pc' = [pc EXCEPT ![c] = IF ws = NoSocket THEN "reading" ELSE "sending"]
    /\ UNCHANGED <<ws, wsMu, pending, link, inbox, emitted, timerVars, lifeVars>>

(* Mutant: sendWS writes without taking wsMu. *)
LockWsAnyway(p) ==
    /\ to[p] # NoSocket
    /\ wsMu # p
    /\ wsMu' = p
    /\ UNCHANGED <<ws, buf, pending, to, pc, link, inbox, emitted, lost,
                   timerVars, lifeVars>>

LockWs(p) ==
    /\ to[p] # NoSocket
    /\ wsMu = Nobody
    /\ wsMu' = p
    /\ UNCHANGED <<ws, buf, pending, to, pc, link, inbox, emitted, lost,
                   timerVars, lifeVars>>

(* Mutant: sendWS returns without unlocking wsMu. *)
WriteWsLocked(p) ==
    /\ to[p] # NoSocket
    /\ wsMu = p
    /\ Transmit(to[p], Hand(p))
    /\ to' = [to EXCEPT ![p] = NoSocket]
    /\ pc' = [c \in Sockets |-> IF c = p THEN "reading" ELSE pc[c]]
    /\ UNCHANGED <<ws, buf, wsMu, pending, link, emitted, timerVars, lifeVars>>

WriteWs(p) ==
    /\ to[p] # NoSocket
    /\ wsMu = p
    /\ Transmit(to[p], Hand(p))
    /\ wsMu' = Nobody
    /\ to' = [to EXCEPT ![p] = NoSocket]
    /\ pc' = [c \in Sockets |-> IF c = p THEN "reading" ELSE pc[c]]
    /\ UNCHANGED <<ws, buf, pending, link, emitted, timerVars, lifeVars>>

-----------------------------------------------------------------------------
(* The browser or the network ends the connection of c. *)
LinkDrops(c) ==
    /\ pc[c] # "unopened"
    /\ link[c] # "down"
    /\ link' = [link EXCEPT ![c] = "down"]
    /\ UNCHANGED <<socketVars, timerVars, lifeVars>>

(* The peer stops draining its connection: a laptop that sleeps. *)
LinkStalls(c) ==
    /\ pc[c] # "unopened"
    /\ link[c] = "up"
    /\ link' = [link EXCEPT ![c] = "stalled"]
    /\ UNCHANGED <<socketVars, timerVars, lifeVars>>

StallEnds(c) ==
    /\ link[c] = "stalled"
    /\ \E l \in {"up", "down"} : link' = [link EXCEPT ![c] = l]
    /\ UNCHANGED <<socketVars, timerVars, lifeVars>>

(* Mutant: Detach arms its timer but leaves the socket in place. *)
DetachKeepsSocket(c) ==
    /\ pc[c] = "reading" /\ link[c] = "down"
    /\ away' = IF ws = NoSocket THEN away ELSE 0
    /\ timer' = [timer EXCEPT ![c] = "armed"]
    /\ left' = [left EXCEPT ![c] = Window]
    /\ pc' = [pc EXCEPT ![c] = "gone"]
    /\ UNCHANGED <<ws, buf, wsMu, pending, to, link, inbox, emitted, lost, lifeVars>>

(* Mutant: Detach arms no timer. *)
DetachWithoutTimer(c) ==
    /\ pc[c] = "reading" /\ link[c] = "down"
    /\ ws' = NoSocket
    /\ away' = IF ws = NoSocket THEN away ELSE 0
    /\ pc' = [pc EXCEPT ![c] = "gone"]
    /\ UNCHANGED <<buf, wsMu, pending, to, link, inbox, emitted, lost,
                   timer, left, lifeVars>>

(* The read loop fails; the deferred Detach clears s.ws, whichever socket  *)
(* it holds, and starts a timer that nothing ever stops.                   *)
Detach(c) ==
    /\ pc[c] = "reading" /\ link[c] = "down"
    /\ ws' = NoSocket
    /\ away' = IF ws = NoSocket THEN away ELSE 0
    /\ timer' = [timer EXCEPT ![c] = "armed"]
    /\ left' = [left EXCEPT ![c] = Window]
    /\ pc' = [pc EXCEPT ![c] = "gone"]
    /\ UNCHANGED <<buf, wsMu, pending, to, link, inbox, emitted, lost, lifeVars>>

(* dispatch of "disconnect": Quit closes the session; it stays registered. *)
Quit(c) ==
    /\ pc[c] = "reading"
    /\ ~closed
    /\ closed' = TRUE
    /\ UNCHANGED <<socketVars, link, timerVars, registered>>

(* One tick of the clock for every running timer. *)
Tick ==
    /\ \E c \in Sockets : timer[c] = "armed" /\ left[c] > 0
    /\ left' = [c \in Sockets |-> IF timer[c] = "armed" /\ left[c] > 0
                                  THEN left[c] - 1 ELSE left[c]]
    /\ away' = IF ws = NoSocket /\ away < Window THEN away + 1 ELSE away
    /\ UNCHANGED <<socketVars, link, timer, lifeVars>>

(* The timer fires and reads s.ws once, under mu. *)
TimerFires(c) ==
    /\ timer[c] = "armed" /\ left[c] = 0
    /\ timer' = [timer EXCEPT ![c] = IF ws = NoSocket THEN "expire" ELSE "done"]
    /\ UNCHANGED <<socketVars, link, left, away, lifeVars>>

(* Mutant: the expiry also clears s.ws, which may hold a socket again. *)
ExpireClearsSocket(c) ==
    /\ timer[c] = "expire"
    /\ timer' = [timer EXCEPT ![c] = "close"]
    /\ ws' = NoSocket /\ buf' = <<>>
    /\ lost' = lost \cup Events(buf)
    /\ UNCHANGED <<wsMu, pending, to, pc, inbox, emitted, link, left, away, lifeVars>>

(* It then throws the buffer away, ...                                     *)
ExpireBuffer(c) ==
    /\ timer[c] = "expire"
    /\ timer' = [timer EXCEPT ![c] = "close"]
    /\ buf' = <<>>
    /\ lost' = lost \cup Events(buf)
    /\ UNCHANGED <<ws, wsMu, pending, to, pc, inbox, emitted, link, left, away, lifeVars>>

(* ... closes the session ...                                              *)
ExpireClose(c) ==
    /\ timer[c] = "close"
    /\ timer' = [timer EXCEPT ![c] = "remove"]
    /\ closed' = TRUE
    /\ UNCHANGED <<socketVars, link, left, away, registered>>

(* ... and removes it from the registry, each in a section of its own.     *)
ExpireRemove(c) ==
    /\ timer[c] = "remove"
    /\ timer' = [timer EXCEPT ![c] = "done"]
    /\ registered' = FALSE
    /\ UNCHANGED <<socketVars, link, left, away, closed>>

-----------------------------------------------------------------------------
Handler(c) ==
    \/ Upgrade(c) \/ Lookup(c) \/ Attach(c) \/ Flush(c) \/ EndFlush(c)
    \/ SendResumed(c) \/ Detach(c) \/ Quit(c)

Network(c) == LinkDrops(c) \/ LinkStalls(c) \/ StallEnds(c)

Expiry(c) == TimerFires(c) \/ ExpireBuffer(c) \/ ExpireClose(c) \/ ExpireRemove(c)

Next ==
    \/ Emit
    \/ \E p \in Senders : LockWs(p) \/ WriteWs(p)
    \/ \E c \in Sockets : Handler(c) \/ Network(c) \/ Expiry(c)
    \/ Tick

Spec == Init /\ [][Next]_vars

(* Goroutines run, timers fire and TCP gives up on a stalled peer.  Go's   *)
(* mutex hands itself to a starving waiter and the kernel sends queued     *)
(* bytes whenever the peer drains them, hence strong fairness there.       *)
(* Nothing obliges a browser to connect, drop, stall or quit, nor the IRC  *)
(* server to produce events.                                               *)
Fairness ==
    /\ WF_vars(Tick)
    /\ \A p \in Senders : SF_vars(LockWs(p)) /\ SF_vars(WriteWs(p))
    /\ \A c \in Sockets :
        /\ WF_vars(Lookup(c)) /\ WF_vars(EndFlush(c))
        /\ WF_vars(SendResumed(c)) /\ WF_vars(Detach(c))
        /\ SF_vars(Attach(c)) /\ SF_vars(Flush(c))
        /\ WF_vars(StallEnds(c))
        /\ WF_vars(Expiry(c))

FairSpec == Spec /\ Fairness

-----------------------------------------------------------------------------
(* Every variable keeps its type; the buffer never outgrows -buffer-max    *)
(* (session.go:1012) and neither does the part of it that is being flushed. *)
TypeOK ==
    /\ ws \in Sockets \cup {NoSocket}
    /\ buf \in Seq(0..MaxEvents) /\ Len(buf) <= BufferMax
    /\ pending \in Seq(0..MaxEvents) /\ Len(pending) <= BufferMax
    /\ wsMu \in Senders \cup {Nobody}
    /\ to \in [Senders -> Sockets \cup {NoSocket}]
    /\ pc \in [Sockets -> PCs]
    /\ link \in [Sockets -> {"up", "stalled", "down"}]
    /\ inbox \in [Sockets -> Seq(0..MaxEvents)]
    /\ emitted \in 0..MaxEvents
    /\ lost \subseteq 1..MaxEvents
    /\ timer \in [Sockets -> {"off", "armed", "expire", "close", "remove", "done"}]
    /\ left \in [Sockets -> 0..Window]
    /\ away \in 0..Window
    /\ closed \in BOOLEAN /\ registered \in BOOLEAN

(* The events of s are in the order ircLoop produced them, none twice. *)
Increasing(s) ==
    \A i, j \in DOMAIN s : i < j /\ s[i] # Resumed /\ s[j] # Resumed => s[i] < s[j]

(* On every WebSocket the browser receives the events in the order ircLoop *)
(* produced them and none twice, however Resume's flush, live frames and   *)
(* other handlers interleave (session.go:128-130: no live message gets     *)
(* into the flush).                                                        *)
InOrder == \A c \in Sockets : Increasing(inbox[c])

(* Where event n is. *)
Places(n) ==
    {<<"inbox", c>> : c \in {d \in Sockets : n \in Events(inbox[d])}}
      \cup (IF n \in Events(pending) THEN {<<"pending">>} ELSE {})
      \cup (IF n \in Events(buf) THEN {<<"buf">>} ELSE {})
      \cup (IF to[IrcLoop] # NoSocket /\ n = emitted THEN {<<"hand">>} ELSE {})
      \cup (IF n \in lost THEN {<<"lost">>} ELSE {})

(* An event is in one place only: delivered on one WebSocket, waiting in   *)
(* the buffer or in a flush, in ircLoop's hand, or lost for good.  So none *)
(* is delivered on two sockets, and none vanishes while the session moves  *)
(* from socket to socket (session.go:131-145, 1004-1021).                  *)
Accounted == \A n \in 1..emitted : Cardinality(Places(n)) = 1

(* Frames that wait in the buffer never wait behind an attached socket:    *)
(* nothing but the next Resume would send them (session.go:133-141, 1009). *)
NothingStranded == ws # NoSocket => buf = <<>>

(* A handler that flushes holds wsMu, and whoever holds wsMu has a frame   *)
(* to write: so two goroutines never write to the session's sockets at the *)
(* same time, which the WebSocket library forbids, and the mutex is never  *)
(* kept by a goroutine that is done writing (session.go:74, 128-130).      *)
OneWriter ==
    /\ \A c \in Sockets : pc[c] = "flush" => wsMu = c
    /\ wsMu \in Sockets => pc[wsMu] = "flush" \/ to[wsMu] # NoSocket
    /\ wsMu = IrcLoop => to[IrcLoop] # NoSocket

(* The socket the session sends to is one whose handler has attached and   *)
(* has not detached: sendWS never picks a socket nobody reads from.        *)
AttachedHandlerAlive == ws # NoSocket => pc[ws] \in Active

(* A handler that found its session gets through Resume and SendResumed,   *)
(* whatever the other sockets do, and starts to read (handler.go:82-85).   *)
ResumeCompletes == \A c \in Sockets : pc[c] = "attach" ~> pc[c] = "reading"

(* A session that no WebSocket uses any more leaves the registry           *)
(* (session.go:152-173): no session is kept for ever.                      *)
Quiet == \A c \in Sockets : pc[c] \in {"unopened", "gone", "elsewhere"}
EventuallyReclaimed == Quiet ~> (~Quiet \/ ~registered)

(* What SessionSocket promises the browser: the events that wait are those *)
(* of the flush, those of the buffer, and the one in ircLoop's hand.       *)
Waiting ==
    Events(pending) \cup Events(buf)
      \cup (IF to[IrcLoop] # NoSocket THEN {emitted} ELSE {})

Feed == INSTANCE EventFeed WITH
            Notice <- Resumed,
            Capacity <- 2 * BufferMax + 1,
            produced <- emitted,
            waiting <- Waiting,
            seen <- inbox

(* The session implements the event feed: order, no duplicates, a backlog  *)
(* of at most two buffers and one frame, and no loss but of the oldest     *)
(* frame on a dead connection, of a new one when the buffer is full, or of *)
(* the newest ones at expiry (session.go:121-173, 999-1022).               *)
FeedSpec == Feed!Spec

-----------------------------------------------------------------------------
(* session.go:152-154 "If the client does not reconnect within             *)
(* WsReconnectWindow the IRC connection is closed": a session expires only *)
(* when it has been detached for a whole window.                           *)
WindowHonoured ==
    [][\A c \in Sockets :
         timer[c] = "armed" /\ timer'[c] = "expire" => away = Window]_vars
=============================================================================
