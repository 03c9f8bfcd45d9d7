-------------------------- MODULE LifecycleProofs --------------------------
(***************************************************************************)
(* The registry of sessions, and Connect, Close and the two loops of a     *)
(* session's IRC connection.                                               *)
(*                                                                         *)
(* Registry, for every set of connections and every limit: no session is   *)
(* left behind, and what has left the registry is closed.                  *)
(*                                                                         *)
(* IrcLifecycle, for any set of handlers, any capacity of the lines        *)
(* channel and any number of lines and dials: no connection is leaked, the *)
(* goroutines start once and on a session that is open, and "disconnected" *)
(* is the last word.                                                       *)
(***************************************************************************)
EXTENDS IrcLifecycle, Registry, TLAPS

-----------------------------------------------------------------------------
(* Registry. *)
LEMMA RegInitType == RegInit => RegTypeOK
  BY RegistryAssumption DEF RegInit, RegTypeOK

LEMMA RegNextType == RegTypeOK /\ [RegNext]_regVars => RegTypeOK'
  <1> SUFFICES ASSUME RegTypeOK, [RegNext]_regVars PROVE RegTypeOK'
    OBVIOUS
  <1> USE RegistryAssumption DEF RegTypeOK
  <1>1. CASE UNCHANGED regVars
    BY <1>1 DEF regVars
  <1>2. ASSUME NEW c \in Conns, wsHandler(c) PROVE RegTypeOK'
    BY <1>2 DEF wsHandler
  <1>3. ASSUME NEW c \in Conns, Lookup(c) PROVE RegTypeOK'
    <2>1. CASE serves[c] \in sessions
      BY <1>3, <2>1 DEF Lookup
    <2>2. CASE serves[c] \notin sessions
      <3>1. /\ at' = [at EXCEPT ![c] = "count"]
            /\ serves' = [serves EXCEPT ![c] = NoConn]
            /\ UNCHANGED <<sessions, closed, ws, timer>>
        BY <1>3, <2>2 DEF Lookup
      <3>2. timer[c] = "off"
        BY <1>3 DEF Lookup
      <3> QED
        BY <3>1, <3>2
    <2> QED
      BY <2>1, <2>2
  <1>4. ASSUME NEW c \in Conns, Attach(c) PROVE RegTypeOK'
    BY <1>4 DEF Attach
  <1>5. ASSUME NEW c \in Conns, CheckLimit(c) PROVE RegTypeOK'
    BY <1>5 DEF CheckLimit
  <1>6. ASSUME NEW c \in Conns, New(c) PROVE RegTypeOK'
    BY <1>6 DEF New
  <1>7. ASSUME NEW c \in Conns, CloseByUse(c) PROVE RegTypeOK'
    BY <1>7 DEF CloseByUse
  <1>8. ASSUME NEW c \in Conns, Detach(c) PROVE RegTypeOK'
    BY <1>8 DEF Detach
  <1>9. ASSUME NEW c \in Conns, Expiry(c) PROVE RegTypeOK'
    BY <1>9 DEF Expiry, Fires, ExpireClose, Remove
  <1> QED
    BY <1>1, <1>2, <1>3, <1>4, <1>5, <1>6, <1>7, <1>8, <1>9 DEF RegNext, Resume

-----------------------------------------------------------------------------
(* The inductive invariant: whoever is attached is reading for that        *)
(* session, and what is about to be removed is closed.                     *)
AttachedReads ==
    \A s \in Conns : ws[s] # NoConn => serves[ws[s]] = s /\ at[ws[s]] = "reading"
RemoveAfterClose == \A c \in Conns : timer[c] = "remove" => serves[c] \in closed

RegInv ==
    /\ AttachedReads
    /\ RemoveAfterClose
    /\ NoOrphan
    /\ RemovedIsClosed

LEMMA RegInitInv == RegInit => RegInv
  BY RegistryAssumption DEF RegInit, RegInv, AttachedReads, RemoveAfterClose, NoOrphan,
      RemovedIsClosed

LEMMA RegNextInv == RegTypeOK /\ RegInv /\ [RegNext]_regVars => RegInv'
  <1> SUFFICES ASSUME RegTypeOK, RegInv, [RegNext]_regVars PROVE RegInv'
    OBVIOUS
  <1> USE RegistryAssumption DEF RegTypeOK, RegInv, AttachedReads, RemoveAfterClose,
          NoOrphan, Served, Expiring, RemovedIsClosed
  <1>1. CASE UNCHANGED regVars
    BY <1>1 DEF regVars
  <1>2. ASSUME NEW c \in Conns, wsHandler(c) PROVE RegInv'
    BY <1>2 DEF wsHandler
  <1>3. ASSUME NEW c \in Conns, Lookup(c) PROVE RegInv'
    BY <1>3 DEF Lookup
  <1>4. ASSUME NEW c \in Conns, Attach(c) PROVE RegInv'
    BY <1>4 DEF Attach
  <1>5. ASSUME NEW c \in Conns, CheckLimit(c) PROVE RegInv'
    BY <1>5 DEF CheckLimit
  <1>6. ASSUME NEW c \in Conns, New(c) PROVE RegInv'
    BY <1>6 DEF New
  <1>7. ASSUME NEW c \in Conns, CloseByUse(c) PROVE RegInv'
    BY <1>7 DEF CloseByUse
  <1>8. ASSUME NEW c \in Conns, Detach(c) PROVE RegInv'
    BY <1>8 DEF Detach
  <1>9. ASSUME NEW c \in Conns, Fires(c) PROVE RegInv'
    BY <1>9 DEF Fires
  <1>10. ASSUME NEW c \in Conns, ExpireClose(c) PROVE RegInv'
    BY <1>10 DEF ExpireClose
  <1>11. ASSUME NEW c \in Conns, Remove(c) PROVE RegInv'
    BY <1>11 DEF Remove
  <1> QED
    BY <1>1, <1>2, <1>3, <1>4, <1>5, <1>6, <1>7, <1>8, <1>9, <1>10, <1>11
    DEF RegNext, Resume, Expiry

LEMMA RegInvariant == RegSpec => [](RegTypeOK /\ RegInv)
  <1>1. RegInit => RegTypeOK /\ RegInv
    BY RegInitType, RegInitInv
  <1>2. RegTypeOK /\ RegInv /\ [RegNext]_regVars => (RegTypeOK /\ RegInv)'
    BY RegNextType, RegNextInv
  <1> QED
    BY <1>1, <1>2, PTL DEF RegSpec

-----------------------------------------------------------------------------
(* Every variable keeps its type. *)
THEOREM RegistryTypes == RegSpec => []RegTypeOK
  BY RegInvariant, PTL

(* No session is left in the registry with nobody to remove it.            *)
THEOREM NoSessionOrphaned == RegSpec => []NoOrphan
  BY RegInvariant, PTL DEF RegInv

(* Every session that has left the registry is closed.                     *)
THEOREM RemovedSessionsClosed == RegSpec => []RemovedIsClosed
  BY RegInvariant, PTL DEF RegInv

-----------------------------------------------------------------------------
(* IrcLifecycle: TypeOK without the bounds. *)
Typed ==
    /\ pc \in [Handlers -> {"absent", "idle", "check", "dial", "handshake", "gone"}]
    /\ closing \in [Closers -> {"no", "check", "close", "conn", "over"}]
    /\ done \in BOOLEAN
    /\ conn \in {"none", "open", "stuck", "eof", "closed"}
    /\ wire \in Nat /\ scanned \in Nat /\ processed \in Nat /\ lines \in Nat
    /\ linesClosed \in BOOLEAN /\ told \in BOOLEAN
    /\ reader \in {"none", "scan", "put", "exited"}
    /\ loop \in {"none", "recv", "work", "exited"}
    /\ ping \in {"none", "run", "write", "exited"}

InConnect(h) == pc[h] \in {"check", "dial", "handshake"}

(* Before the goroutines run the session belongs to the handler that       *)
(* created it, and it has a connection only during the handshake.          *)
Alone ==
    reader = "none" =>
        /\ loop = "none" /\ ping = "none"
        /\ scanned = 0 /\ processed = 0 /\ lines = 0 /\ ~linesClosed /\ ~told
        /\ \A h \in Handlers : h # First => pc[h] = "absent"
        /\ conn = IF pc[First] = "handshake" THEN "open" ELSE "none"

(* Nobody is in Close who has not come to it: a handler in Connect, or one *)
(* that has not joined, pingLoop before it runs, the timer while nobody    *)
(* has left.  So the session stays open while its creator connects.        *)
NotClosing ==
    /\ \A h \in Handlers : InConnect(h) \/ pc[h] = "absent" => closing[h] = "no"
    /\ ping = "none" => closing[PingLoop] = "no"
    /\ closing[Timer] # "no" => \E h \in Handlers : pc[h] = "gone"
    /\ reader = "none" /\ InConnect(First) => ~done

(* Once they run, the session has a connection: nobody dials again. *)
Started ==
    /\ reader # "none" => conn # "none"
    /\ \A h \in Handlers : pc[h] \in {"dial", "handshake"} => reader = "none"

(* Where the lines are that ircReadLoop scanned: handled, in ircLoop, in   *)
(* the channel, or in the reader's hands.                                  *)
InLoop == IF loop = "work" THEN 1 ELSE 0
Lines ==
    /\ linesClosed => reader = "exited"
    /\ reader \in {"scan", "put"} => loop \in {"recv", "work"}
    /\ reader = "put" => scanned = processed + InLoop + lines + 1
    /\ reader = "scan" \/ (linesClosed /\ loop # "exited") =>
           scanned = processed + InLoop + lines
    /\ told => loop = "exited" /\ linesClosed /\ lines = 0 /\ processed = scanned

IInv == Typed /\ Alone /\ NotClosing /\ Started /\ Lines /\ ~leaked

USE IrcLifecycleAssumption DEF Closers, Goto, Open, connVars, lineVars, goVars, closeVars

LEMMA InitInv == Init => IInv
  <1> SUFFICES ASSUME Init PROVE IInv
    OBVIOUS
  <1> USE DEF Init
  <1>1. Typed
    BY DEF Typed
  <1>2. Alone
    BY DEF Alone
  <1>3. NotClosing
    BY DEF NotClosing, InConnect
  <1>4. Started
    BY DEF Started
  <1>5. Lines
    BY DEF Lines, InLoop
  <1> QED
    BY <1>1, <1>2, <1>3, <1>4, <1>5 DEF IInv

LEMMA NextInv == IInv /\ [Next]_vars => IInv'
  <1> SUFFICES ASSUME IInv, [Next]_vars PROVE IInv'
    OBVIOUS
  <1> USE DEF IInv, Typed, Alone, NotClosing, Started, Lines, InLoop, InConnect
  <1>1. ASSUME NEW h \in Handlers, ConnectCheckDone(h) PROVE IInv'
    BY <1>1 DEF ConnectCheckDone
  <1>2. ASSUME NEW h \in Handlers, ConnectCheckConn(h) PROVE IInv'
    BY <1>2 DEF ConnectCheckConn
  <1>3. ASSUME NEW h \in Handlers, DialFails(h) PROVE IInv'
    BY <1>3 DEF DialFails
  <1>4. ASSUME NEW h \in Handlers, DialSucceeds(h) PROVE IInv'
    BY <1>4 DEF DialSucceeds
  <1>5. ASSUME NEW h \in Handlers, HandshakeFails(h) PROVE IInv'
    BY <1>5 DEF HandshakeFails
  <1>6. ASSUME NEW h \in Handlers, HandshakeSucceeds(h) PROVE IInv'
    BY <1>6 DEF HandshakeSucceeds
  <1>7. ASSUME NEW h \in Handlers, Join(h) PROVE IInv'
    BY <1>7 DEF Join
  <1>8. ASSUME NEW h \in Handlers, Quit(h) PROVE IInv'
    BY <1>8 DEF Quit
  <1>9. ASSUME NEW h \in Handlers, Leave(h) PROVE IInv'
    BY <1>9 DEF Leave
  <1>10. ASSUME NEW p \in Closers, CloseCheck(p) PROVE IInv'
    BY <1>10 DEF CloseCheck
  <1>11. ASSUME NEW p \in Closers, CloseDone(p) PROVE IInv'
    BY <1>11 DEF CloseDone
  <1>12. ASSUME NEW p \in Closers, DoubleClose(p) PROVE IInv'
    BY <1>12 DEF DoubleClose
  <1>13. ASSUME NEW p \in Closers, CloseConn(p) PROVE IInv'
    BY <1>13 DEF CloseConn
  <1>14. CASE Expire
    BY <1>14 DEF Expire
  <1>15. CASE ServerSends
    BY <1>15 DEF ServerSends
  <1>16. CASE LinkSticks
    BY <1>16 DEF LinkSticks
  <1>17. CASE LinkDrops
    BY <1>17 DEF LinkDrops
  <1>18. CASE ReaderScans
    BY <1>18 DEF ReaderScans
  <1>19. CASE ReaderEnds
    BY <1>19 DEF ReaderEnds
  <1>20. CASE ReaderPuts
    BY <1>20 DEF ReaderPuts
  <1>21. CASE ReaderQuits
    BY <1>21 DEF ReaderQuits
  <1>22. CASE LoopReceives
    BY <1>22 DEF LoopReceives
  <1>23. CASE LoopWorks
    BY <1>23 DEF LoopWorks
  <1>24. CASE LoopEnds
    BY <1>24 DEF LoopEnds
  <1>25. CASE SenderTakes
    BY <1>25 DEF SenderTakes
  <1>26. CASE SenderWrites
    BY <1>26 DEF SenderWrites
  <1>27. CASE SenderQuits
    BY <1>27 DEF SenderQuits
  <1>28. CASE PingTicks
    BY <1>28 DEF PingTicks
  <1>29. CASE PingWrites
    BY <1>29 DEF PingWrites
  <1>30. CASE PingQuits
    BY <1>30 DEF PingQuits
  <1>31. CASE PingTimeout
    BY <1>31 DEF PingTimeout
  <1>32. CASE UNCHANGED vars
    BY <1>32 DEF vars
  <1> QED
    BY <1>1, <1>2, <1>3, <1>4, <1>5, <1>6, <1>7, <1>8, <1>9, <1>10, <1>11, <1>12, <1>13, <1>14, <1>15, <1>16, <1>17, <1>18, <1>19, <1>20, <1>21, <1>22, <1>23, <1>24, <1>25, <1>26, <1>27, <1>28, <1>29, <1>30, <1>31, <1>32
    DEF Next, Connect, Close, Reader, Loop

(* The inductive invariant of IrcLifecycle, of which the rest follows.      *)
THEOREM Invariance == Spec => []IInv
  BY InitInv, NextInv, PTL DEF Spec

(* No connection is overwritten while it is open, whatever the number of   *)
(* "connect" messages and of handlers (session.go:203-219).                *)
THEOREM NoConnectionIsLeaked == Spec => []NoConnectionLeaked
  <1>1. IInv => NoConnectionLeaked
    BY DEF IInv, NoConnectionLeaked
  <1> QED
    BY Invariance, <1>1, PTL

(* "disconnected" is sent when every line that came in has been handled    *)
(* (session.go:359-363, client.go:121).                                    *)
THEOREM DisconnectedComesLast == Spec => []DisconnectedIsLast
  <1>1. IInv => DisconnectedIsLast
    BY DEF IInv, Lines, DisconnectedIsLast
  <1> QED
    BY Invariance, <1>1, PTL

(* The goroutines start at most once, and on a session that is not closed  *)
(* (session.go:203-205).                                                   *)
THEOREM GoroutinesStartOnce == Spec => StartOnce
  <1> DEFINE Start == reader # reader' /\ reader' = "scan" /\ reader # "put" =>
                        ~done /\ reader = "none"
  <1>1. ASSUME IInv, [Next]_vars PROVE [Start]_vars
    <2> SUFFICES ASSUME Next PROVE Start
      BY <1>1
    <2>1. ASSUME NEW h \in Handlers, HandshakeSucceeds(h) PROVE Start
      BY <1>1, <2>1 DEF HandshakeSucceeds, IInv, Alone, NotClosing, Started, InConnect
    <2>2. (\E h \in Handlers : HandshakeSucceeds(h)) \/ reader' = reader
            \/ reader' \in {"put", "exited"} \/ reader = "put"
      BY DEF Next, Connect, Close, Reader, Loop, ConnectCheckDone, ConnectCheckConn,
             DialFails, DialSucceeds, HandshakeFails, Join, Quit, Leave, CloseCheck,
             CloseDone, DoubleClose, CloseConn, Expire, ServerSends, LinkSticks,
             LinkDrops, ReaderScans, ReaderEnds, ReaderPuts, ReaderQuits,
             LoopReceives, LoopWorks, LoopEnds, SenderTakes, SenderWrites,
             SenderQuits, PingTicks, PingWrites, PingQuits, PingTimeout
    <2> QED
      BY <2>1, <2>2
  <1>2. [][Start]_vars => StartOnce
    BY PTL DEF StartOnce
  <1> QED
    BY Invariance, <1>1, <1>2, PTL DEF Spec
=============================================================================
