------------------------ MODULE SessionSocketProofs ------------------------
(***************************************************************************)
(* Proofs about SessionSocket, for every set of sockets, every buffer size *)
(* and window, and any number of events.                                   *)
(***************************************************************************)
EXTENDS MCSessionSocket, Integers, FiniteSetTheorems, TLAPS

Frames == 0..MaxEvents

-----------------------------------------------------------------------------
(* Sequences: what Append and Tail do to types, lengths and elements.      *)
LEMMA AppendFacts ==
    ASSUME NEW S, NEW s \in Seq(S), NEW e \in S
    PROVE  /\ Append(s, e) \in Seq(S)
           /\ Len(Append(s, e)) = Len(s) + 1
           /\ DOMAIN Append(s, e) = 1..(Len(s) + 1)
           /\ \A i \in DOMAIN s : Append(s, e)[i] = s[i]
           /\ Append(s, e)[Len(s) + 1] = e
  OBVIOUS

LEMMA TailFacts ==
    ASSUME NEW S, NEW s \in Seq(S), s # <<>>
    PROVE  /\ Tail(s) \in Seq(S) /\ Head(s) \in S
           /\ Head(s) = s[1] /\ Len(s) >= 1
           /\ Len(Tail(s)) = Len(s) - 1
           /\ DOMAIN Tail(s) = 1..(Len(s) - 1)
           /\ \A i \in DOMAIN Tail(s) : i + 1 \in DOMAIN s /\ Tail(s)[i] = s[i + 1]
  OBVIOUS

LEMMA SeqFacts ==
    ASSUME NEW s \in Seq(Frames)
    PROVE  /\ DOMAIN s = 1..Len(s) /\ Len(s) \in Nat
           /\ \A i \in DOMAIN s : s[i] \in Nat
  <1>1. DOMAIN s = 1..Len(s) /\ Len(s) \in Nat /\ \A i \in DOMAIN s : s[i] \in Frames
    OBVIOUS
  <1>2. Frames \subseteq Nat
    BY DEF Frames
  <1> QED
    BY <1>1, <1>2

LEMMA EventsType ==
    ASSUME NEW s \in Seq(Frames) PROVE Events(s) \subseteq 1..MaxEvents
  BY SessionSocketAssumption DEF Events, Resumed, Frames

-----------------------------------------------------------------------------
(* What a write and a capture do to the types. *)
LEMMA LostType ==
    ASSUME TypeOK, NEW f \in Frames
    PROVE  lost \cup ({f} \ {Resumed}) \subseteq 1..MaxEvents
  <1>1. f # Resumed => f \in 1..MaxEvents
    BY SessionSocketAssumption DEF Frames, Resumed
  <1> QED
    BY <1>1 DEF TypeOK

LEMMA TransmitType ==
    ASSUME TypeOK, NEW c \in Sockets, NEW f \in Frames, Transmit(c, f)
    PROVE  /\ inbox' \in [Sockets -> Seq(0..MaxEvents)]
           /\ lost' \subseteq 1..MaxEvents
  <1>1. Append(inbox[c], f) \in Seq(0..MaxEvents)
    BY AppendFacts DEF TypeOK, Frames
  <1> QED
    BY <1>1, LostType DEF TypeOK, Transmit

LEMMA CaptureType ==
    ASSUME TypeOK, NEW p \in Senders, NEW f \in Frames, Capture(p, f)
    PROVE  /\ buf' \in Seq(0..MaxEvents) /\ Len(buf') <= BufferMax
           /\ to' \in [Senders -> Sockets \cup {NoSocket}]
           /\ lost' \subseteq 1..MaxEvents
  <1>1. /\ Append(buf, f) \in Seq(0..MaxEvents)
        /\ Len(Append(buf, f)) = Len(buf) + 1
    BY AppendFacts DEF TypeOK, Frames
  <1>2. Len(buf) \in Nat
    BY DEF TypeOK
  <1>3. lost \cup ({f} \ {Resumed}) \subseteq 1..MaxEvents
    BY LostType
  <1>4. CASE ws = NoSocket /\ Len(buf) < BufferMax
    <2>1. buf' = Append(buf, f) /\ to' = to /\ lost' = lost
      BY <1>2, <1>4, SessionSocketAssumption DEF Capture
    <2>2. Len(Append(buf, f)) <= BufferMax
      BY <1>1, <1>2, <1>4, SessionSocketAssumption
    <2> QED
      BY <1>1, <2>1, <2>2 DEF TypeOK
  <1>5. CASE ws = NoSocket /\ Len(buf) >= BufferMax
    BY <1>2, <1>3, <1>5, SessionSocketAssumption DEF TypeOK, Capture
  <1>6. CASE ws # NoSocket
    BY <1>6 DEF TypeOK, Capture
  <1> QED
    BY <1>2, <1>4, <1>5, <1>6, SessionSocketAssumption

LEMMA InitType == Init => TypeOK
  <1> SUFFICES ASSUME Init PROVE TypeOK
    OBVIOUS
  <1>1. <<>> \in Seq(0..MaxEvents) /\ Len(<<>>) = 0
    OBVIOUS
  <1>2. 0 \in 0..MaxEvents /\ 0 \in 0..Window /\ 0 <= BufferMax
    BY SessionSocketAssumption
  <1>3. /\ pc \in [Sockets -> PCs]
        /\ inbox \in [Sockets -> Seq(0..MaxEvents)]
    BY <1>1 DEF Init, PCs, Active
  <1> QED
    BY <1>1, <1>2, <1>3, SessionSocketAssumption DEF Init, TypeOK, Senders

LEMMA NextType == TypeOK /\ [Next]_vars => TypeOK'
  <1> SUFFICES ASSUME TypeOK, [Next]_vars PROVE TypeOK'
    OBVIOUS
  <1> USE SessionSocketAssumption
  <1>1. CASE Emit
    <2>1. emitted + 1 \in Frames /\ IrcLoop \in Senders
      BY <1>1 DEF Emit, TypeOK, Frames, Senders
    <2>2. /\ buf' \in Seq(0..MaxEvents) /\ Len(buf') <= BufferMax
          /\ to' \in [Senders -> Sockets \cup {NoSocket}]
          /\ lost' \subseteq 1..MaxEvents
      BY <1>1, <2>1, CaptureType DEF Emit
    <2> QED
      BY <1>1, <2>1, <2>2 DEF Emit, TypeOK, Frames, timerVars, lifeVars
  <1>2. ASSUME NEW p \in Senders, LockWs(p) PROVE TypeOK'
    BY <1>2 DEF LockWs, TypeOK, timerVars, lifeVars
  <1>3. ASSUME NEW p \in Senders, WriteWs(p) PROVE TypeOK'
    <2>1. to[p] \in Sockets /\ Hand(p) \in Frames
      BY <1>3 DEF WriteWs, TypeOK, Hand, Frames, Resumed
    <2>2. /\ inbox' \in [Sockets -> Seq(0..MaxEvents)]
          /\ lost' \subseteq 1..MaxEvents
      BY <1>3, <2>1, TransmitType DEF WriteWs
    <2> QED
      BY <1>3, <2>2 DEF WriteWs, TypeOK, timerVars, lifeVars, PCs, Active
  <1>4. ASSUME NEW c \in Sockets, Handler(c) PROVE TypeOK'
    <2>1. CASE Upgrade(c)
      BY <2>1 DEF Upgrade, TypeOK, timerVars, lifeVars, PCs
    <2>2. CASE Lookup(c)
      BY <2>2 DEF Lookup, TypeOK, timerVars, lifeVars, PCs
    <2>3. CASE Attach(c)
      BY <2>3 DEF Attach, TypeOK, timerVars, lifeVars, PCs, Active, Senders
    <2>4. CASE Flush(c)
      <3>1. /\ Head(pending) \in Frames
            /\ Tail(pending) \in Seq(0..MaxEvents)
            /\ Len(Tail(pending)) <= BufferMax
        BY <2>4, TailFacts DEF Flush, TypeOK, Frames
      <3>2. /\ inbox' \in [Sockets -> Seq(0..MaxEvents)]
            /\ lost' \subseteq 1..MaxEvents
        BY <2>4, <3>1, TransmitType DEF Flush
      <3> QED
        BY <2>4, <3>1, <3>2 DEF Flush, TypeOK, timerVars, lifeVars
    <2>5. CASE EndFlush(c)
      BY <2>5 DEF EndFlush, TypeOK, timerVars, lifeVars, PCs, Active
    <2>6. CASE SendResumed(c)
      <3>1. Resumed \in Frames /\ c \in Senders
        BY DEF Resumed, Frames, Senders
      <3>2. /\ buf' \in Seq(0..MaxEvents) /\ Len(buf') <= BufferMax
            /\ to' \in [Senders -> Sockets \cup {NoSocket}]
            /\ lost' \subseteq 1..MaxEvents
        BY <2>6, <3>1, CaptureType DEF SendResumed
      <3> QED
        BY <2>6, <3>2 DEF SendResumed, TypeOK, timerVars, lifeVars, PCs, Active
    <2>7. CASE Detach(c)
      BY <2>7 DEF Detach, TypeOK, lifeVars, PCs
    <2>8. CASE Quit(c)
      BY <2>8 DEF Quit, TypeOK, socketVars, timerVars
    <2> QED
      BY <1>4, <2>1, <2>2, <2>3, <2>4, <2>5, <2>6, <2>7, <2>8 DEF Handler
  <1>5. ASSUME NEW c \in Sockets, Network(c) PROVE TypeOK'
    BY <1>5 DEF Network, LinkDrops, LinkStalls, StallEnds, TypeOK,
                socketVars, timerVars, lifeVars
  <1>6. ASSUME NEW c \in Sockets, Expiry(c) PROVE TypeOK'
    <2>1. CASE TimerFires(c)
      BY <2>1 DEF TimerFires, TypeOK, socketVars, lifeVars
    <2>2. CASE ExpireBuffer(c)
      <3>1. Events(buf) \subseteq 1..MaxEvents
        BY EventsType DEF TypeOK, Frames
      <3>2. lost' \subseteq 1..MaxEvents
        BY <2>2, <3>1 DEF ExpireBuffer, TypeOK
      <3>3. <<>> \in Seq(0..MaxEvents) /\ Len(<<>>) = 0
        OBVIOUS
      <3> QED
        BY <2>2, <3>2, <3>3 DEF ExpireBuffer, TypeOK, lifeVars
    <2>3. CASE ExpireClose(c)
      BY <2>3 DEF ExpireClose, TypeOK, socketVars
    <2>4. CASE ExpireRemove(c)
      BY <2>4 DEF ExpireRemove, TypeOK, socketVars
    <2> QED
      BY <1>6, <2>1, <2>2, <2>3, <2>4 DEF Expiry
  <1>7. CASE Tick
    BY <1>7 DEF Tick, TypeOK, socketVars, lifeVars
  <1>8. CASE UNCHANGED vars
    BY <1>8 DEF vars, TypeOK
  <1> QED
    BY <1>1, <1>2, <1>3, <1>4, <1>5, <1>6, <1>7, <1>8 DEF Next

(* Every variable keeps its type; in particular neither the buffer nor the *)
(* part of it under flush ever holds more than BufferMax frames.           *)
THEOREM TypeCorrect == Spec => []TypeOK
  BY InitType, NextType, PTL DEF Spec

-----------------------------------------------------------------------------
(* The locking discipline: the three invariants of sockets and mutex, and  *)
(* the two facts that make them inductive.                                 *)
FlushHoldsLock == pending # <<>> => wsMu \in Sockets /\ pc[wsMu] = "flush"
HandIsSending  == \A c \in Sockets : to[c] # NoSocket => pc[c] = "sending"

Locking ==
    /\ NothingStranded
    /\ OneWriter
    /\ AttachedHandlerAlive
    /\ FlushHoldsLock
    /\ HandIsSending

LEMMA InitLocking == Init => Locking
  BY SessionSocketAssumption
  DEF Init, Locking, NothingStranded, OneWriter, AttachedHandlerAlive,
      FlushHoldsLock, HandIsSending, Active, Senders

LEMMA NextLocking == TypeOK /\ Locking /\ [Next]_vars => Locking'
  <1> SUFFICES ASSUME TypeOK, Locking, [Next]_vars PROVE Locking'
    OBVIOUS
  <1> USE SessionSocketAssumption
      DEF NothingStranded, OneWriter, AttachedHandlerAlive, FlushHoldsLock,
          HandIsSending, Locking
  <1>1. CASE Emit
    BY <1>1 DEF Emit, Capture, TypeOK, Senders, timerVars, lifeVars
  <1>2. ASSUME NEW p \in Senders, LockWs(p) PROVE Locking'
    BY <1>2 DEF LockWs, TypeOK, Senders, timerVars, lifeVars
  <1>3. ASSUME NEW p \in Senders, WriteWs(p) PROVE Locking'
    BY <1>3 DEF WriteWs, TypeOK, Senders, Active, timerVars, lifeVars
  <1>4. ASSUME NEW c \in Sockets, Handler(c) PROVE Locking'
    <2> USE DEF TypeOK
    <2>1. CASE Upgrade(c)
      BY <2>1 DEF Upgrade, Active, timerVars, lifeVars
    <2>2. CASE Lookup(c)
      BY <2>2 DEF Lookup, Active, timerVars, lifeVars
    <2>3. CASE Attach(c)
      BY <2>3 DEF Attach, Active, Senders, timerVars, lifeVars
    <2>4. CASE Flush(c)
      BY <2>4 DEF Flush, timerVars, lifeVars
    <2>5. CASE EndFlush(c)
      BY <2>5 DEF EndFlush, Active, timerVars, lifeVars
    <2>6. CASE SendResumed(c)
      BY <2>6 DEF SendResumed, Capture, Active, Senders, timerVars, lifeVars
    <2>7. CASE Detach(c)
      BY <2>7 DEF Detach, Active, lifeVars
    <2>8. CASE Quit(c)
      BY <2>8 DEF Quit, socketVars, timerVars
    <2> QED
      BY <1>4, <2>1, <2>2, <2>3, <2>4, <2>5, <2>6, <2>7, <2>8 DEF Handler
  <1>5. ASSUME NEW c \in Sockets, Network(c) PROVE Locking'
    BY <1>5 DEF Network, LinkDrops, LinkStalls, StallEnds, socketVars
  <1>6. ASSUME NEW c \in Sockets, Expiry(c) PROVE Locking'
    BY <1>6 DEF Expiry, TimerFires, ExpireBuffer, ExpireClose, ExpireRemove, socketVars
  <1>7. CASE Tick
    BY <1>7 DEF Tick, socketVars
  <1>8. CASE UNCHANGED vars
    BY <1>8 DEF vars
  <1> QED
    BY <1>1, <1>2, <1>3, <1>4, <1>5, <1>6, <1>7, <1>8 DEF Next

LEMMA LockingInvariant == Spec => [](TypeOK /\ Locking)
  <1>1. Init => TypeOK /\ Locking
    BY InitType, InitLocking
  <1>2. TypeOK /\ Locking /\ [Next]_vars => (TypeOK /\ Locking)'
    BY NextType, NextLocking
  <1> QED
    BY <1>1, <1>2, PTL DEF Spec

(* While a socket is attached no frame waits in the buffer. *)
THEOREM NothingIsStranded == Spec => []NothingStranded
  BY LockingInvariant, PTL DEF Locking

(* Writes to the session's sockets exclude each other. *)
THEOREM WritersExclude == Spec => []OneWriter
  BY LockingInvariant, PTL DEF Locking

(* The session only ever sends to a socket whose handler is serving it. *)
THEOREM AttachedIsAlive == Spec => []AttachedHandlerAlive
  BY LockingInvariant, PTL DEF Locking

-----------------------------------------------------------------------------
(* The order of events.  What has been delivered comes before what is      *)
(* being flushed, that before what is buffered, that before the event in   *)
(* ircLoop's hand; and with an event in hand the buffer holds none.        *)
Before(s, t) ==
    \A i \in DOMAIN s, j \in DOMAIN t : t[j] # Resumed => s[i] < t[j]

UpTo(s, n) == \A i \in DOMAIN s : s[i] <= n

Ordering ==
    /\ InOrder /\ Increasing(pending) /\ Increasing(buf)
    /\ \A c \in Sockets : Before(inbox[c], pending) /\ Before(inbox[c], buf)
    /\ Before(pending, buf)
    /\ UpTo(pending, emitted) /\ UpTo(buf, emitted)
    /\ \A c \in Sockets : UpTo(inbox[c], emitted)
    /\ to[IrcLoop] # NoSocket =>
         /\ emitted > 0
         /\ UpTo(buf, 0)
         /\ UpTo(pending, emitted - 1)
         /\ \A c \in Sockets : UpTo(inbox[c], emitted - 1)

-----------------------------------------------------------------------------
(* How the order relations survive Append, Tail and the empty sequence.    *)
LEMMA EmptyOrder ==
    ASSUME NEW s \in Seq(Frames), NEW n
    PROVE  /\ Increasing(<<>>) /\ UpTo(<<>>, n)
           /\ Before(<<>>, s) /\ Before(s, <<>>)
  BY DEF Increasing, UpTo, Before

LEMMA AppendIncreasing ==
    ASSUME NEW s \in Seq(Frames), NEW f \in Frames, Increasing(s),
           \A i \in DOMAIN s : f # Resumed => s[i] < f
    PROVE  Increasing(Append(s, f))
  <1> DEFINE t == Append(s, f)
  <1>1. /\ DOMAIN t = 1..(Len(s) + 1) /\ DOMAIN s = 1..Len(s) /\ Len(s) \in Nat
        /\ \A i \in DOMAIN s : t[i] = s[i]
        /\ t[Len(s) + 1] = f
    BY AppendFacts
  <1>2. ASSUME NEW i \in DOMAIN t, NEW j \in DOMAIN t,
               i < j, t[i] # Resumed, t[j] # Resumed
        PROVE  t[i] < t[j]
    <2>1. i \in DOMAIN s
      BY <1>1, <1>2
    <2>2. CASE j \in DOMAIN s
      BY <1>1, <1>2, <2>1, <2>2 DEF Increasing
    <2>3. CASE j = Len(s) + 1
      BY <1>1, <1>2, <2>1, <2>3
    <2> QED
      BY <1>1, <2>2, <2>3
  <1> QED
    BY <1>2 DEF Increasing

LEMMA AppendUpTo ==
    ASSUME NEW s \in Seq(Frames), NEW f \in Frames, NEW n \in Int, UpTo(s, n), f <= n
    PROVE  UpTo(Append(s, f), n)
  BY AppendFacts DEF UpTo

LEMMA AppendBefore ==
    ASSUME NEW s \in Seq(Frames), NEW t \in Seq(Frames), NEW f \in Frames,
           Before(s, t), \A j \in DOMAIN t : t[j] # Resumed => f < t[j]
    PROVE  Before(Append(s, f), t)
  BY AppendFacts DEF Before

LEMMA BeforeAppend ==
    ASSUME NEW s \in Seq(Frames), NEW t \in Seq(Frames), NEW f \in Frames,
           Before(s, t), \A i \in DOMAIN s : f # Resumed => s[i] < f
    PROVE  Before(s, Append(t, f))
  BY AppendFacts DEF Before

LEMMA TailOrder ==
    ASSUME NEW s \in Seq(Frames), s # <<>>, NEW t \in Seq(Frames), NEW n \in Int
    PROVE  /\ Increasing(s) => Increasing(Tail(s))
           /\ Increasing(s) => \A j \in DOMAIN Tail(s) :
                                  Tail(s)[j] # Resumed => Head(s) < Tail(s)[j]
           /\ Before(s, t) => /\ Before(Tail(s), t)
                              /\ \A j \in DOMAIN t : t[j] # Resumed => Head(s) < t[j]
           /\ Before(t, s) => Before(t, Tail(s))
           /\ UpTo(s, n) => UpTo(Tail(s), n) /\ Head(s) <= n
  <1>1. /\ DOMAIN s = 1..Len(s) /\ Len(s) \in Nat \ {0} /\ 1 \in DOMAIN s
        /\ DOMAIN Tail(s) = 1..(Len(s) - 1)
        /\ \A i \in DOMAIN Tail(s) : i + 1 \in DOMAIN s /\ Tail(s)[i] = s[i + 1]
        /\ Head(s) = s[1]
        /\ \A i \in DOMAIN s : s[i] \in Nat
    <2>1. Len(s) >= 1
      BY TailFacts
    <2> QED
      BY <2>1, TailFacts, SeqFacts
  <1>2. ASSUME Increasing(s) PROVE Increasing(Tail(s))
    <2>1. ASSUME NEW i \in DOMAIN Tail(s), NEW j \in DOMAIN Tail(s), i < j,
                 Tail(s)[i] # Resumed, Tail(s)[j] # Resumed
          PROVE  Tail(s)[i] < Tail(s)[j]
      <3>1. i + 1 \in DOMAIN s /\ j + 1 \in DOMAIN s /\ i + 1 < j + 1
        BY <1>1, <2>1
      <3>2. Tail(s)[i] = s[i + 1] /\ Tail(s)[j] = s[j + 1]
        BY <1>1
      <3> QED
        BY <1>2, <2>1, <3>1, <3>2 DEF Increasing
    <2> QED
      BY <2>1 DEF Increasing
  <1>3. ASSUME Increasing(s), NEW j \in DOMAIN Tail(s), Tail(s)[j] # Resumed
        PROVE  Head(s) < Tail(s)[j]
    <2>1. CASE Head(s) = Resumed
      BY <1>1, <1>3, <2>1 DEF Resumed
    <2>2. CASE Head(s) # Resumed
      <3>1. j + 1 \in DOMAIN s /\ 1 < j + 1 /\ s[j + 1] = Tail(s)[j]
        BY <1>1, <1>3
      <3> QED
        BY <1>1, <1>3, <2>2, <3>1 DEF Increasing
    <2> QED
      BY <2>1, <2>2
  <1>4. ASSUME Before(s, t)
        PROVE  /\ Before(Tail(s), t)
               /\ \A j \in DOMAIN t : t[j] # Resumed => Head(s) < t[j]
    BY <1>1, <1>4 DEF Before
  <1>5. ASSUME Before(t, s) PROVE Before(t, Tail(s))
    BY <1>1, <1>5 DEF Before
  <1>6. ASSUME UpTo(s, n) PROVE UpTo(Tail(s), n) /\ Head(s) <= n
    <2>1. UpTo(Tail(s), n)
      BY <1>1, <1>6 DEF UpTo
    <2>2. Head(s) <= n
      BY <1>1, <1>6 DEF UpTo
    <2> QED
      BY <2>1, <2>2
  <1> QED
    BY <1>2, <1>3, <1>4, <1>5, <1>6

-----------------------------------------------------------------------------
LEMMA InitOrdering == Init => Ordering
  BY SessionSocketAssumption
  DEF Init, Ordering, InOrder, Increasing, Before, UpTo, Senders

(* Everything Ordering talks about. *)
orderVars == <<inbox, pending, buf, emitted, to[IrcLoop]>>

LEMMA SameOrdering == Ordering /\ UNCHANGED orderVars => Ordering'
  BY DEF Ordering, orderVars, InOrder, Increasing, Before, UpTo

LEMMA EmitOrdering == TypeOK /\ Locking /\ Ordering /\ Emit => Ordering'
  <1> SUFFICES ASSUME TypeOK, Locking, Ordering, Emit PROVE Ordering'
    OBVIOUS
  <1> DEFINE e == emitted + 1
  <1>1. /\ e \in Frames /\ e \in Nat \ {0} /\ emitted \in Nat
        /\ buf \in Seq(Frames) /\ pending \in Seq(Frames)
        /\ \A c \in Sockets : inbox[c] \in Seq(Frames)
    BY SessionSocketAssumption DEF Emit, TypeOK, Frames
  <1>2. /\ emitted' = e /\ UNCHANGED <<pending, inbox>> /\ to[IrcLoop] = NoSocket
    BY DEF Emit
  <1>3. ASSUME NEW s \in Seq(Frames), UpTo(s, emitted)
        PROVE  UpTo(s, e) /\ (\A i \in DOMAIN s : s[i] < e)
    BY <1>1, <1>3, SeqFacts DEF UpTo
  <1>4. CASE ws = NoSocket /\ Len(buf) < BufferMax
    <2>1. buf' = Append(buf, e) /\ to' = to
      BY <1>1, <1>4, SessionSocketAssumption DEF Emit, Capture, TypeOK
    <2>2. Increasing(Append(buf, e))
      BY <1>1, <1>3, AppendIncreasing DEF Ordering
    <2>3. UpTo(Append(buf, e), e)
      BY <1>1, <1>3, AppendUpTo DEF Ordering
    <2>4. /\ Before(pending, Append(buf, e))
          /\ \A c \in Sockets : Before(inbox[c], Append(buf, e))
      BY <1>1, <1>3, BeforeAppend DEF Ordering
    <2>5. UpTo(pending, e) /\ \A c \in Sockets : UpTo(inbox[c], e)
      BY <1>1, <1>3 DEF Ordering
    <2> QED
      BY <1>2, <2>1, <2>2, <2>3, <2>4, <2>5 DEF Ordering, InOrder
  <1>5. CASE ws = NoSocket /\ Len(buf) >= BufferMax
    <2>1. buf' = buf /\ to' = to
      BY <1>1, <1>5, SessionSocketAssumption DEF Emit, Capture, TypeOK
    <2>2. /\ UpTo(buf, e) /\ UpTo(pending, e)
          /\ \A c \in Sockets : UpTo(inbox[c], e)
      BY <1>1, <1>3 DEF Ordering
    <2> QED
      BY <1>2, <2>1, <2>2 DEF Ordering, InOrder
  <1>6. CASE ws # NoSocket
    <2>1. buf' = buf /\ buf = <<>>
      BY <1>6 DEF Emit, Capture, Locking, NothingStranded
    <2>2. /\ UpTo(buf, e) /\ UpTo(pending, e) /\ UpTo(buf, 0)
          /\ \A c \in Sockets : UpTo(inbox[c], e)
      BY <1>1, <1>3, <2>1, EmptyOrder DEF Ordering
    <2>3. e > 0 /\ e - 1 = emitted
      BY <1>1
    <2> QED
      BY <1>2, <2>1, <2>2, <2>3 DEF Ordering, InOrder
  <1>7. Len(buf) \in Nat /\ BufferMax \in Nat
    BY <1>1, SessionSocketAssumption
  <1> QED
    BY <1>4, <1>5, <1>6, <1>7

LEMMA WriteOrdering ==
    ASSUME TypeOK, Locking, Ordering, NEW p \in Senders, WriteWs(p)
    PROVE  Ordering'
  <1> DEFINE d == to[p]
             f == Hand(p)
  <1>1. /\ d \in Sockets /\ f \in Frames /\ emitted \in Nat
        /\ buf \in Seq(Frames) /\ pending \in Seq(Frames)
        /\ \A c \in Sockets : inbox[c] \in Seq(Frames)
    BY SessionSocketAssumption DEF WriteWs, TypeOK, Frames, Hand, Resumed
  <1>2. UNCHANGED <<buf, pending, emitted>> /\ wsMu = p
    BY DEF WriteWs
  <1>3. CASE link[d] = "down"
    <2>1. inbox' = inbox
      BY <1>3 DEF WriteWs, Transmit
    <2>2. to'[IrcLoop] # NoSocket => to[IrcLoop] # NoSocket
      BY DEF WriteWs, TypeOK, Senders
    <2> QED
      BY <1>2, <2>1, <2>2 DEF Ordering, InOrder
  <1>4. CASE link[d] = "up"
    <2>1. inbox' = [inbox EXCEPT ![d] = Append(inbox[d], f)]
      BY <1>4 DEF WriteWs, Transmit
    <2>2. \A c \in Sockets : inbox'[c] = IF c = d THEN Append(inbox[d], f) ELSE inbox[c]
      BY <1>1, <2>1 DEF TypeOK
    <2>3. CASE p = IrcLoop
      <3>1. f = emitted /\ emitted > 0 /\ to[IrcLoop] # NoSocket
        BY <2>3 DEF Hand, Ordering, WriteWs
      <3>2. to'[IrcLoop] = NoSocket
        BY <2>3 DEF WriteWs, TypeOK, Senders
      <3>3. pending = <<>>
        BY <1>2, <2>3, SessionSocketAssumption DEF Locking, FlushHoldsLock
      <3>4. UpTo(buf, 0) /\ UpTo(inbox[d], emitted - 1)
        BY <1>1, <3>1 DEF Ordering
      <3>5. \A i \in DOMAIN inbox[d] : inbox[d][i] < f
        BY <1>1, <3>1, <3>4, SeqFacts DEF UpTo
      <3>6. \A j \in DOMAIN buf : buf[j] = Resumed
        BY <1>1, <3>4, SeqFacts DEF UpTo, Resumed
      <3>7. Increasing(Append(inbox[d], f))
        BY <1>1, <3>5, AppendIncreasing DEF Ordering, InOrder
      <3>8. Before(Append(inbox[d], f), buf) /\ Before(Append(inbox[d], f), pending)
        <4>1. Append(inbox[d], f) \in Seq(Frames)
          BY <1>1, AppendFacts
        <4>2. Before(Append(inbox[d], f), buf)
          BY <1>1, <3>6, AppendBefore DEF Ordering
        <4> QED
          BY <3>3, <4>1, <4>2, EmptyOrder
      <3>9. UpTo(Append(inbox[d], f), emitted)
        BY <1>1, <3>1, AppendUpTo DEF Ordering
      <3> QED
        BY <1>2, <2>2, <3>2, <3>7, <3>8, <3>9 DEF Ordering, InOrder
    <2>4. CASE p # IrcLoop
      <3>1. f = Resumed /\ to'[IrcLoop] = to[IrcLoop]
        BY <2>4 DEF Hand, WriteWs, TypeOK, Senders
      <3>2. Increasing(Append(inbox[d], f))
        BY <1>1, <3>1, AppendIncreasing DEF Ordering, InOrder
      <3>3. \A j \in DOMAIN buf : buf[j] # Resumed => f < buf[j]
        BY <1>1, <3>1, SeqFacts DEF Resumed
      <3>4. \A j \in DOMAIN pending : pending[j] # Resumed => f < pending[j]
        BY <1>1, <3>1, SeqFacts DEF Resumed
      <3>5. Before(Append(inbox[d], f), buf) /\ Before(Append(inbox[d], f), pending)
        BY <1>1, <3>3, <3>4, AppendBefore DEF Ordering
      <3>6. UpTo(Append(inbox[d], f), emitted)
        BY <1>1, <3>1, AppendUpTo DEF Ordering, Resumed
      <3>7. ASSUME to[IrcLoop] # NoSocket
            PROVE  UpTo(Append(inbox[d], f), emitted - 1)
        <4>1. UpTo(inbox[d], emitted - 1) /\ emitted > 0
          BY <1>1, <3>7 DEF Ordering
        <4>2. emitted - 1 \in Int /\ f <= emitted - 1
          BY <1>1, <3>1, <4>1 DEF Resumed
        <4> QED
          BY <1>1, <4>1, <4>2, AppendUpTo
      <3> QED
        BY <1>2, <2>2, <3>1, <3>2, <3>5, <3>6, <3>7 DEF Ordering, InOrder
    <2> QED
      BY <2>3, <2>4
  <1> QED
    BY <1>3, <1>4 DEF WriteWs, Transmit

LEMMA AttachOrdering ==
    ASSUME TypeOK, Locking, Ordering, NEW c \in Sockets, Attach(c)
    PROVE  Ordering'
  <1>1. /\ pending' = buf /\ buf' = <<>>
        /\ UNCHANGED <<inbox, emitted, to>>
    BY DEF Attach
  <1>2. /\ buf \in Seq(Frames) /\ \A d \in Sockets : inbox[d] \in Seq(Frames)
        /\ emitted \in Nat
    BY SessionSocketAssumption DEF TypeOK, Frames
  <1>3. to[IrcLoop] # NoSocket => UpTo(buf, emitted - 1)
    BY <1>2, SeqFacts DEF Ordering, UpTo
  <1> QED
    BY <1>1, <1>2, <1>3, EmptyOrder DEF Ordering, InOrder

LEMMA FlushOrdering ==
    ASSUME TypeOK, Locking, Ordering, NEW c \in Sockets, Flush(c)
    PROVE  Ordering'
  <1> DEFINE f == Head(pending)
             rest == Tail(pending)
  <1>1. /\ pending # <<>> /\ pending' = rest
        /\ UNCHANGED <<buf, emitted, to>>
    BY DEF Flush
  <1>2. /\ buf \in Seq(Frames) /\ pending \in Seq(Frames)
        /\ \A d \in Sockets : inbox[d] \in Seq(Frames)
        /\ emitted \in Nat /\ emitted \in Int /\ emitted - 1 \in Int
    BY SessionSocketAssumption DEF TypeOK, Frames
  <1>3. rest \in Seq(Frames) /\ f \in Frames /\ f = pending[1] /\ 1 \in DOMAIN pending
    BY <1>1, <1>2, TailFacts, SeqFacts
  <1>4. /\ Increasing(rest) /\ Before(rest, buf) /\ UpTo(rest, emitted)
        /\ \A d \in Sockets : Before(inbox[d], rest)
        /\ to[IrcLoop] # NoSocket => UpTo(rest, emitted - 1)
    BY <1>1, <1>2, TailOrder DEF Ordering
  <1>5. CASE link[c] = "down"
    <2>1. inbox' = inbox
      BY <1>5 DEF Flush, Transmit
    <2> QED
      BY <1>1, <1>4, <2>1 DEF Ordering, InOrder
  <1>6. CASE link[c] = "up"
    <2>1. \A d \in Sockets : inbox'[d] = IF d = c THEN Append(inbox[c], f) ELSE inbox[d]
      BY <1>6 DEF Flush, Transmit, TypeOK
    <2>2. \A i \in DOMAIN inbox[c] : f # Resumed => inbox[c][i] < f
      BY <1>3 DEF Ordering, Before
    <2>3. Increasing(Append(inbox[c], f))
      BY <1>2, <1>3, <2>2, AppendIncreasing DEF Ordering, InOrder
    <2>4. /\ \A j \in DOMAIN rest : rest[j] # Resumed => f < rest[j]
          /\ \A j \in DOMAIN buf : buf[j] # Resumed => f < buf[j]
          /\ f <= emitted
          /\ to[IrcLoop] # NoSocket => f <= emitted - 1
      BY <1>1, <1>2, TailOrder DEF Ordering
    <2>5. Before(Append(inbox[c], f), rest) /\ Before(Append(inbox[c], f), buf)
      BY <1>2, <1>3, <1>4, <2>4, AppendBefore DEF Ordering
    <2>6. UpTo(Append(inbox[c], f), emitted)
      BY <1>2, <1>3, <2>4, AppendUpTo DEF Ordering
    <2>7. ASSUME to[IrcLoop] # NoSocket
          PROVE  UpTo(Append(inbox[c], f), emitted - 1)
      BY <1>2, <1>3, <2>4, <2>7, AppendUpTo DEF Ordering
    <2> QED
      BY <1>1, <1>4, <2>1, <2>3, <2>5, <2>6, <2>7 DEF Ordering, InOrder
  <1> QED
    BY <1>5, <1>6 DEF Flush, Transmit

LEMMA SendResumedOrdering ==
    ASSUME TypeOK, Locking, Ordering, NEW c \in Sockets, SendResumed(c)
    PROVE  Ordering'
  <1>1. UNCHANGED <<pending, inbox, emitted>> /\ to'[IrcLoop] = to[IrcLoop]
    BY SessionSocketAssumption DEF SendResumed, Capture, TypeOK, Senders
  <1>2. /\ buf \in Seq(Frames) /\ pending \in Seq(Frames)
        /\ \A d \in Sockets : inbox[d] \in Seq(Frames)
        /\ emitted \in Nat /\ Resumed \in Frames
    BY SessionSocketAssumption DEF TypeOK, Frames, Resumed
  <1>3. CASE buf' = buf
    BY <1>1, <1>3 DEF Ordering, InOrder
  <1>4. CASE buf' = Append(buf, Resumed)
    <2>1. Increasing(buf')
      BY <1>2, <1>4, AppendIncreasing DEF Ordering
    <2>2. Before(pending, buf') /\ \A d \in Sockets : Before(inbox[d], buf')
      BY <1>2, <1>4, BeforeAppend DEF Ordering
    <2>3. UpTo(buf', emitted)
      BY <1>2, <1>4, AppendUpTo DEF Ordering, Resumed
    <2>4. to[IrcLoop] # NoSocket => UpTo(buf', 0)
      BY <1>2, <1>4, AppendUpTo DEF Ordering, Resumed
    <2> QED
      BY <1>1, <2>1, <2>2, <2>3, <2>4 DEF Ordering, InOrder
  <1> QED
    BY <1>3, <1>4 DEF SendResumed, Capture

LEMMA NextOrdering == TypeOK /\ Locking /\ Ordering /\ [Next]_vars => Ordering'
  <1> SUFFICES ASSUME TypeOK, Locking, Ordering, [Next]_vars PROVE Ordering'
    OBVIOUS
  <1>1. CASE Emit
    BY <1>1, EmitOrdering
  <1>2. ASSUME NEW p \in Senders, LockWs(p) PROVE Ordering'
    BY <1>2, SameOrdering DEF LockWs, orderVars
  <1>3. ASSUME NEW p \in Senders, WriteWs(p) PROVE Ordering'
    BY <1>3, WriteOrdering
  <1>4. ASSUME NEW c \in Sockets, Handler(c) PROVE Ordering'
    <2>1. CASE Attach(c)
      BY <2>1, AttachOrdering
    <2>2. CASE Flush(c)
      BY <2>2, FlushOrdering
    <2>3. CASE SendResumed(c)
      BY <2>3, SendResumedOrdering
    <2>4. CASE Upgrade(c) \/ Lookup(c) \/ EndFlush(c) \/ Detach(c) \/ Quit(c)
      BY <2>4, SameOrdering
      DEF Upgrade, Lookup, EndFlush, Detach, Quit, socketVars, orderVars
    <2> QED
      BY <1>4, <2>1, <2>2, <2>3, <2>4 DEF Handler
  <1>5. ASSUME NEW c \in Sockets, Network(c) PROVE Ordering'
    BY <1>5, SameOrdering
    DEF Network, LinkDrops, LinkStalls, StallEnds, socketVars, orderVars
  <1>6. ASSUME NEW c \in Sockets, Expiry(c) PROVE Ordering'
    <2>1. CASE ExpireBuffer(c)
      <3>1. buf' = <<>> /\ UNCHANGED <<inbox, pending, emitted, to>>
        BY <2>1 DEF ExpireBuffer
      <3>2. pending \in Seq(Frames) /\ \A d \in Sockets : inbox[d] \in Seq(Frames)
        BY DEF TypeOK, Frames
      <3> QED
        BY <3>1, <3>2, EmptyOrder DEF Ordering, InOrder
    <2>2. CASE TimerFires(c) \/ ExpireClose(c) \/ ExpireRemove(c)
      BY <2>2, SameOrdering
      DEF TimerFires, ExpireClose, ExpireRemove, socketVars, orderVars
    <2> QED
      BY <1>6, <2>1, <2>2 DEF Expiry
  <1>7. CASE Tick
    BY <1>7, SameOrdering DEF Tick, socketVars, orderVars
  <1>8. CASE UNCHANGED vars
    BY <1>8, SameOrdering DEF vars, orderVars
  <1> QED
    BY <1>1, <1>2, <1>3, <1>4, <1>5, <1>6, <1>7, <1>8 DEF Next

LEMMA OrderingInvariant == Spec => [](TypeOK /\ Locking /\ Ordering)
  <1>1. Init => TypeOK /\ Locking /\ Ordering
    BY InitType, InitLocking, InitOrdering
  <1>2. TypeOK /\ Locking /\ Ordering /\ [Next]_vars => (TypeOK /\ Locking /\ Ordering)'
    BY NextType, NextLocking, NextOrdering
  <1> QED
    BY <1>1, <1>2, PTL DEF Spec

(* On every socket the events arrive in the order of the IRC connection,   *)
(* and none arrives twice.                                                 *)
THEOREM EventsInOrder == Spec => []InOrder
  BY OrderingInvariant, PTL DEF Ordering

-----------------------------------------------------------------------------
(* The events of a sequence, after an Append or a Tail, and how many. *)
LEMMA EventsAppend ==
    ASSUME NEW s \in Seq(Frames), NEW f \in Frames
    PROVE  Events(Append(s, f)) = Events(s) \cup ({f} \ {Resumed})
  <1> DEFINE t == Append(s, f)
  <1>1. /\ DOMAIN t = 1..(Len(s) + 1) /\ DOMAIN s = 1..Len(s) /\ Len(s) \in Nat
        /\ \A i \in DOMAIN s : t[i] = s[i]
        /\ t[Len(s) + 1] = f
    BY AppendFacts
  <1> HIDE DEF t
  <1>2. DOMAIN t = DOMAIN s \cup {Len(s) + 1}
    BY <1>1
  <1>3. {t[i] : i \in DOMAIN t} = {s[i] : i \in DOMAIN s} \cup {f}
    BY <1>1, <1>2
  <1> QED
    BY <1>3 DEF Events, t

LEMMA EventsTail ==
    ASSUME NEW s \in Seq(Frames), s # <<>>
    PROVE  Events(s) = Events(Tail(s)) \cup ({Head(s)} \ {Resumed})
  <1> DEFINE t == Tail(s)
  <1>1. /\ DOMAIN t = 1..(Len(s) - 1) /\ DOMAIN s = 1..Len(s) /\ Len(s) \in Nat
        /\ \A i \in DOMAIN t : i + 1 \in DOMAIN s /\ t[i] = s[i + 1]
        /\ Head(s) = s[1] /\ Len(s) >= 1
    BY TailFacts, SeqFacts
  <1> HIDE DEF t
  <1>2. \A i \in DOMAIN s : i = 1 \/ (i - 1 \in DOMAIN t /\ s[i] = t[i - 1])
    BY <1>1
  <1>3. 1 \in DOMAIN s
    BY <1>1
  <1>4. {s[i] : i \in DOMAIN s} = {t[i] : i \in DOMAIN t} \cup {Head(s)}
    BY <1>1, <1>2, <1>3
  <1> QED
    BY <1>4 DEF Events, t

LEMMA EventsNat ==
    ASSUME NEW s \in Seq(Frames) PROVE Events(s) \subseteq Nat
  BY SeqFacts DEF Events

LEMMA EventsEmpty == Events(<<>>) = {}
  BY DEF Events

LEMMA EventsBound ==
    ASSUME NEW s \in Seq(Frames)
    PROVE  IsFiniteSet(Events(s)) /\ Cardinality(Events(s)) <= Len(s)
  <1> DEFINE all == {s[i] : i \in DOMAIN s}
             f == [i \in 1..Len(s) |-> s[i]]
  <1>1. DOMAIN s = 1..Len(s) /\ Len(s) \in Nat
    BY SeqFacts
  <1>2. f \in Surjection(1..Len(s), all)
    BY <1>1 DEF Surjection
  <1>3. IsFiniteSet(1..Len(s)) /\ Cardinality(1..Len(s)) = Len(s)
    BY <1>1, FS_Interval
  <1> HIDE DEF f, all
  <1>4. IsFiniteSet(all) /\ Cardinality(all) <= Len(s)
    BY <1>2, <1>3, FS_Surjection
  <1>5. Events(s) \subseteq all
    BY DEF Events, all
  <1>6. IsFiniteSet(Events(s)) /\ Cardinality(Events(s)) <= Cardinality(all)
    BY <1>4, <1>5, FS_Subset
  <1>7. Cardinality(all) \in Nat /\ Cardinality(Events(s)) \in Nat
    BY <1>4, <1>6, FS_CardinalityType
  <1> QED
    BY <1>1, <1>4, <1>6, <1>7

-----------------------------------------------------------------------------
(* How Ordering reads on the sets of events. *)
Seen == [c \in Sockets |-> Events(inbox[c])]

LEMMA BeforeEvents ==
    ASSUME NEW s \in Seq(Frames), NEW t \in Seq(Frames), Before(s, t)
    PROVE  \A m \in Events(s), n \in Events(t) : m < n
  BY DEF Before, Events

LEMMA UpToEvents ==
    ASSUME NEW s \in Seq(Frames), NEW n, UpTo(s, n)
    PROVE  \A m \in Events(s) : m <= n
  BY DEF UpTo, Events

(* The frame at the head of a flush is no later than any event that waits, *)
(* and it is nowhere else.                                                 *)
LEMMA HeadIsOldest ==
    ASSUME TypeOK, Ordering, pending # <<>>, Head(pending) # Resumed
    PROVE  /\ Head(pending) \in Waiting /\ \A m \in Waiting : Head(pending) <= m
           /\ Head(pending) \notin Events(Tail(pending)) \cup Events(buf)
           /\ to[IrcLoop] # NoSocket => Head(pending) # emitted
  <1> DEFINE f == Head(pending)
  <1>0. /\ pending \in Seq(Frames) /\ buf \in Seq(Frames) /\ f \in Nat /\ f \in Frames
        /\ emitted \in Nat /\ emitted \in Int /\ emitted - 1 \in Int
    BY TailFacts, SessionSocketAssumption DEF TypeOK, Frames
  <1>1. /\ \A j \in DOMAIN Tail(pending) : Tail(pending)[j] # Resumed => f < Tail(pending)[j]
        /\ \A j \in DOMAIN buf : buf[j] # Resumed => f < buf[j]
        /\ to[IrcLoop] # NoSocket => f <= emitted - 1
    BY <1>0, TailOrder DEF Ordering
  <1>2. \A m \in Events(Tail(pending)) \cup Events(buf) : f < m
    BY <1>1 DEF Events
  <1>3. Events(pending) = Events(Tail(pending)) \cup {f}
    BY <1>0, EventsTail
  <1>4. Events(buf) \subseteq Nat /\ Events(Tail(pending)) \subseteq Nat
    <2>1. Tail(pending) \in Seq(Frames)
      BY <1>0, TailFacts
    <2> QED
      BY <1>0, <2>1, EventsNat
  <1> HIDE DEF f
  <1>5. \A m \in Waiting : m = f \/ f < m
    BY <1>0, <1>1, <1>2, <1>3 DEF Waiting
  <1>6. \A m \in Waiting : m \in Nat
    BY <1>0, <1>3, <1>4 DEF Waiting
  <1>7. \A m \in Waiting : f <= m
    BY <1>0, <1>5, <1>6
  <1>8. f \in Waiting
    BY <1>3 DEF Waiting
  <1>9. f \notin Events(Tail(pending)) \cup Events(buf)
    BY <1>0, <1>2
  <1>10. to[IrcLoop] # NoSocket => f # emitted
    BY <1>0, <1>1
  <1> QED
    BY <1>7, <1>8, <1>9, <1>10 DEF f

-----------------------------------------------------------------------------
(* Each step of the session is a step of the feed, or leaves it alone.     *)
feedVars == <<emitted, Waiting, inbox, lost>>

LEMMA FeedCardinality ==
    ASSUME NEW S PROVE Feed!Cardinality(S) = Cardinality(S)
  BY DEF Feed!Cardinality, Cardinality

LEMMA EmitFeed ==
    ASSUME TypeOK, Locking, Ordering, Emit
    PROVE  Feed!Produce \/ Feed!Drop
  <1> DEFINE e == emitted + 1
  <1>1. /\ emitted < MaxEvents /\ emitted' = e /\ to[IrcLoop] = NoSocket
        /\ UNCHANGED <<pending, inbox>> /\ Capture(IrcLoop, e)
    BY DEF Emit
  <1>2. /\ buf \in Seq(Frames) /\ pending \in Seq(Frames) /\ e \in Frames /\ e # Resumed
        /\ Len(buf) \in Nat /\ Len(pending) \in Nat /\ BufferMax \in Nat
        /\ Len(buf) <= BufferMax /\ Len(pending) <= BufferMax
        /\ to \in [Senders -> Sockets \cup {NoSocket}] /\ IrcLoop \in Senders
    BY <1>1, SessionSocketAssumption DEF TypeOK, Frames, Resumed, Senders
  <1>4. Waiting = Events(pending) \cup Events(buf)
    BY <1>1 DEF Waiting
  <1>5. Cardinality(Waiting) < 2 * BufferMax + 1
    <2>1. /\ IsFiniteSet(Events(pending)) /\ Cardinality(Events(pending)) <= Len(pending)
          /\ IsFiniteSet(Events(buf)) /\ Cardinality(Events(buf)) <= Len(buf)
      BY <1>2, EventsBound
    <2>2. /\ IsFiniteSet(Events(pending) \cap Events(buf))
          /\ Cardinality(Waiting) = Cardinality(Events(pending)) + Cardinality(Events(buf))
                                      - Cardinality(Events(pending) \cap Events(buf))
      BY <1>4, <2>1, FS_Union, FS_Intersection
    <2>3. /\ Cardinality(Events(pending)) \in Nat /\ Cardinality(Events(buf)) \in Nat
          /\ Cardinality(Events(pending) \cap Events(buf)) \in Nat
      BY <2>1, <2>2, FS_CardinalityType
    <2> QED
      BY <1>2, <2>1, <2>2, <2>3
  <1>6. CASE ws = NoSocket /\ buf' = Append(buf, e) /\ UNCHANGED <<to, lost>>
    <2>1. Waiting' = Waiting \cup {e}
      BY <1>1, <1>2, <1>4, <1>6, EventsAppend DEF Waiting
    <2> QED
      BY <1>1, <1>5, <1>6, <2>1, FeedCardinality DEF Feed!Produce
  <1>7. CASE ws = NoSocket /\ lost' = lost \cup ({e} \ {Resumed}) /\ UNCHANGED <<buf, to>>
    <2>1. Waiting' = Waiting /\ lost' = lost \cup {e}
      BY <1>1, <1>2, <1>7 DEF Waiting
    <2> QED
      BY <1>1, <2>1 DEF Feed!Drop
  <1>8. CASE ws # NoSocket /\ to' = [to EXCEPT ![IrcLoop] = ws] /\ UNCHANGED <<buf, lost>>
    <2>1. Waiting' = Waiting \cup {e}
      BY <1>1, <1>2, <1>4, <1>8 DEF Waiting
    <2> QED
      BY <1>1, <1>5, <1>8, <2>1, FeedCardinality DEF Feed!Produce
  <1> QED
    BY <1>1, <1>6, <1>7, <1>8 DEF Capture

LEMMA FlushFeed ==
    ASSUME TypeOK, Locking, Ordering, NEW c \in Sockets, Flush(c)
    PROVE  (\E n \in Waiting : Feed!GiveUp(n) \/ Feed!Show(c, n))
             \/ Feed!Tell(c) \/ UNCHANGED feedVars
  <1> DEFINE f == Head(pending)
  <1>1. /\ pending # <<>> /\ pending' = Tail(pending) /\ Transmit(c, f)
        /\ UNCHANGED <<buf, to, emitted>>
    BY DEF Flush
  <1>2. /\ pending \in Seq(Frames) /\ f \in Frames
        /\ \A d \in Sockets : inbox[d] \in Seq(Frames)
        /\ inbox \in [Sockets -> Seq(Frames)]
    BY <1>1, TailFacts DEF TypeOK, Frames
  <1>3. Events(pending) = Events(pending') \cup ({f} \ {Resumed})
    BY <1>1, <1>2, EventsTail
  <1>4. CASE f = Resumed
    <2>1. Waiting' = Waiting
      BY <1>1, <1>3, <1>4 DEF Waiting
    <2>2. lost' = lost
      BY <1>1, <1>4 DEF Transmit
    <2>3. inbox' \in {inbox, [inbox EXCEPT ![c] = Append(inbox[c], f)]}
      BY <1>1 DEF Transmit
    <2> QED
      BY <1>1, <1>4, <2>1, <2>2, <2>3 DEF feedVars, Feed!Tell
  <1>5. CASE f # Resumed
    <2>1. /\ f \in Waiting /\ \A m \in Waiting : f <= m
          /\ f \notin Events(pending') \cup Events(buf)
          /\ to[IrcLoop] # NoSocket => f # emitted
      BY <1>1, <1>5, HeadIsOldest
    <2>2. Waiting' = Waiting \ {f}
      BY <1>1, <1>3, <1>5, <2>1 DEF Waiting
    <2>3. Feed!Oldest(f)
      BY <2>1 DEF Feed!Oldest
    <2>4. CASE link[c] = "down"
      <3>1. lost' = lost \cup {f} /\ inbox' = inbox
        BY <1>1, <1>5, <2>4 DEF Transmit
      <3> QED
        BY <1>1, <2>1, <2>2, <2>3, <3>1 DEF Feed!GiveUp
    <2>5. CASE link[c] = "up"
      <3>1. lost' = lost /\ inbox' = [inbox EXCEPT ![c] = Append(inbox[c], f)]
        BY <1>1, <2>5 DEF Transmit
      <3> QED
        BY <1>1, <2>1, <2>2, <2>3, <3>1 DEF Feed!Show
    <2> QED
      BY <1>1, <2>4, <2>5 DEF Transmit
  <1> QED
    BY <1>4, <1>5

LEMMA WriteFeed ==
    ASSUME TypeOK, Locking, Ordering, NEW p \in Senders, WriteWs(p)
    PROVE  (\E n \in Waiting : \/ Feed!GiveUp(n)
                               \/ \E c \in Sockets : Feed!Show(c, n))
             \/ (\E c \in Sockets : Feed!Tell(c)) \/ UNCHANGED feedVars
  <1> DEFINE f == Hand(p)
             d == to[p]
  <1>1. /\ wsMu = p /\ Transmit(d, f) /\ to[p] # NoSocket
        /\ to' = [to EXCEPT ![p] = NoSocket]
        /\ UNCHANGED <<buf, pending, emitted>>
    BY DEF WriteWs
  <1>2. /\ d \in Sockets /\ f \in Frames /\ Resumed \in Frames /\ emitted \in Nat
        /\ buf \in Seq(Frames) /\ to \in [Senders -> Sockets \cup {NoSocket}]
        /\ inbox \in [Sockets -> Seq(Frames)]
    BY <1>1, SessionSocketAssumption DEF TypeOK, Frames, Hand, Resumed
  <1> HIDE DEF f, d
  <1>3. CASE p # IrcLoop
    <2>1. f = Resumed /\ to'[IrcLoop] = to[IrcLoop]
      BY <1>1, <1>2, <1>3 DEF f, Hand, Senders
    <2>2. Waiting' = Waiting
      BY <1>1, <2>1 DEF Waiting
    <2>3. lost' = lost
      BY <1>1, <2>1 DEF Transmit
    <2>4. inbox' \in {inbox, [inbox EXCEPT ![d] = Append(inbox[d], f)]}
      BY <1>1 DEF Transmit
    <2>5. UNCHANGED feedVars \/ Feed!Tell(d)
      BY <1>1, <2>1, <2>2, <2>3, <2>4 DEF feedVars, Feed!Tell
    <2> QED
      BY <1>2, <2>5
  <1>4. CASE p = IrcLoop
    <2>1. f = emitted /\ f > 0 /\ f # Resumed
      BY <1>1, <1>2, <1>4 DEF f, Hand, Ordering, Resumed
    <2>2. pending = <<>>
      BY <1>1, <1>4, SessionSocketAssumption DEF Locking, FlushHoldsLock
    <2>3. Events(buf) = {} /\ Events(pending) = {}
      <3>1. UpTo(buf, 0)
        BY <1>1, <1>4 DEF Ordering
      <3>2. \A i \in DOMAIN buf : buf[i] = Resumed
        BY <1>2, <3>1, SeqFacts DEF UpTo, Resumed
      <3> QED
        BY <2>2, <3>2, EventsEmpty DEF Events
    <2>4. Waiting = {f} /\ Waiting' = {}
      <3>1. to'[IrcLoop] = NoSocket
        BY <1>1, <1>2, <1>4
      <3> QED
        BY <1>1, <1>4, <2>1, <2>3, <3>1 DEF Waiting
    <2>5. Feed!Oldest(f)
      BY <1>2, <2>1, <2>4 DEF Feed!Oldest
    <2>6. Waiting' = Waiting \ {f} /\ f \in Waiting
      BY <2>4
    <2>7. CASE link[d] = "down"
      <3>1. lost' = lost \cup {f} /\ inbox' = inbox
        BY <1>1, <2>1, <2>7 DEF Transmit
      <3>2. Feed!GiveUp(f)
        BY <1>1, <2>5, <2>6, <3>1 DEF Feed!GiveUp
      <3> QED
        BY <2>6, <3>2
    <2>8. CASE link[d] = "up"
      <3>1. lost' = lost /\ inbox' = [inbox EXCEPT ![d] = Append(inbox[d], f)]
        BY <1>1, <2>8 DEF Transmit
      <3>4. Feed!Show(d, f)
        BY <1>1, <1>2, <2>5, <2>6, <3>1 DEF Feed!Show
      <3> QED
        BY <1>2, <2>6, <3>4
    <2> QED
      BY <1>1, <2>7, <2>8 DEF Transmit
  <1> QED
    BY <1>3, <1>4

LEMMA ExpireFeed ==
    ASSUME TypeOK, Ordering, NEW c \in Sockets, ExpireBuffer(c)
    PROVE  Feed!Forget
  <1> DEFINE hand == IF to[IrcLoop] # NoSocket THEN {emitted} ELSE {}
             kept == Events(pending) \cup hand
  <1>1. /\ buf' = <<>> /\ lost' = lost \cup Events(buf)
        /\ UNCHANGED <<pending, to, inbox, emitted>>
    BY DEF ExpireBuffer
  <1>2. buf \in Seq(Frames) /\ pending \in Seq(Frames)
    BY DEF TypeOK, Frames
  <1>3. Waiting = kept \cup Events(buf) /\ Waiting' = kept
    BY <1>1, EventsEmpty DEF Waiting
  <1>4. \A m \in Events(pending), n \in Events(buf) : m < n
    BY <1>2, BeforeEvents DEF Ordering
  <1>5. to[IrcLoop] # NoSocket => Events(buf) = {}
    <2>1. to[IrcLoop] # NoSocket => UpTo(buf, 0)
      BY DEF Ordering
    <2>2. UpTo(buf, 0) => \A i \in DOMAIN buf : buf[i] = Resumed
      BY <1>2, SeqFacts DEF UpTo, Resumed
    <2> QED
      BY <2>1, <2>2 DEF Events
  <1>6. \A m \in kept, n \in Events(buf) : m < n
    BY <1>4, <1>5
  <1>7. Waiting \ kept = Events(buf)
    <2>1. \A n \in Events(buf) : n \in Nat
      BY <1>2, EventsNat
    <2>2. \A n \in Events(buf) : n \notin kept
      BY <1>6, <2>1
    <2> QED
      BY <1>3, <2>2
  <1> HIDE DEF kept
  <1> QED
    BY <1>1, <1>3, <1>6, <1>7 DEF Feed!Forget

LEMMA AttachFeed ==
    ASSUME TypeOK, Locking, NEW c \in Sockets, Attach(c)
    PROVE  UNCHANGED feedVars
  <1>1. pending = <<>>
    BY SessionSocketAssumption DEF Attach, Locking, FlushHoldsLock
  <1>2. /\ pending' = buf /\ buf' = <<>>
        /\ UNCHANGED <<to, inbox, emitted, lost>>
    BY DEF Attach
  <1>3. Waiting' = Waiting
    BY <1>1, <1>2, EventsEmpty DEF Waiting
  <1> QED
    BY <1>2, <1>3 DEF feedVars

LEMMA SendResumedFeed ==
    ASSUME TypeOK, NEW c \in Sockets, SendResumed(c)
    PROVE  UNCHANGED feedVars
  <1>1. /\ UNCHANGED <<pending, inbox, emitted>> /\ to'[IrcLoop] = to[IrcLoop]
        /\ buf' \in {buf, Append(buf, Resumed)} /\ lost' = lost
    BY SessionSocketAssumption DEF SendResumed, Capture, TypeOK, Senders
  <1>2. buf \in Seq(Frames) /\ Resumed \in Frames
    BY SessionSocketAssumption DEF TypeOK, Frames, Resumed
  <1>3. Events(buf') = Events(buf)
    <2>1. Events(Append(buf, Resumed)) = Events(buf) \cup ({Resumed} \ {Resumed})
      BY <1>2, EventsAppend
    <2> QED
      BY <1>1, <2>1
  <1>4. Waiting' = Waiting
    BY <1>1, <1>3 DEF Waiting
  <1> QED
    BY <1>1, <1>4 DEF feedVars

LEMMA SameFeed ==
    ASSUME UNCHANGED <<orderVars, lost>>
    PROVE  UNCHANGED feedVars
  BY DEF orderVars, feedVars, Waiting

LEMMA NextFeed ==
    ASSUME TypeOK, Locking, Ordering, [Next]_vars
    PROVE  [Feed!Next]_feedVars
  <1>1. CASE Emit
    BY <1>1, EmitFeed DEF Feed!Next
  <1>2. ASSUME NEW p \in Senders, LockWs(p) PROVE UNCHANGED feedVars
    BY <1>2, SameFeed DEF LockWs, orderVars
  <1>3. ASSUME NEW p \in Senders, WriteWs(p) PROVE [Feed!Next]_feedVars
    BY <1>3, WriteFeed DEF Feed!Next
  <1>4. ASSUME NEW c \in Sockets, Handler(c) PROVE [Feed!Next]_feedVars
    <2>1. CASE Attach(c)
      BY <2>1, AttachFeed
    <2>2. CASE Flush(c)
      BY <2>2, FlushFeed DEF Feed!Next
    <2>3. CASE SendResumed(c)
      BY <2>3, SendResumedFeed
    <2>4. CASE Upgrade(c) \/ Lookup(c) \/ EndFlush(c) \/ Detach(c) \/ Quit(c)
      BY <2>4, SameFeed
      DEF Upgrade, Lookup, EndFlush, Detach, Quit, socketVars, orderVars
    <2> QED
      BY <1>4, <2>1, <2>2, <2>3, <2>4 DEF Handler
  <1>5. ASSUME NEW c \in Sockets, Network(c) PROVE UNCHANGED feedVars
    BY <1>5, SameFeed
    DEF Network, LinkDrops, LinkStalls, StallEnds, socketVars, orderVars
  <1>6. ASSUME NEW c \in Sockets, Expiry(c) PROVE [Feed!Next]_feedVars
    <2>1. CASE ExpireBuffer(c)
      BY <2>1, ExpireFeed DEF Feed!Next
    <2>2. CASE TimerFires(c) \/ ExpireClose(c) \/ ExpireRemove(c)
      BY <2>2, SameFeed
      DEF TimerFires, ExpireClose, ExpireRemove, socketVars, orderVars
    <2> QED
      BY <1>6, <2>1, <2>2 DEF Expiry
  <1>7. CASE Tick
    BY <1>7, SameFeed DEF Tick, socketVars, orderVars
  <1>8. CASE UNCHANGED vars
    BY <1>8, SameFeed DEF vars, orderVars
  <1> QED
    BY <1>1, <1>2, <1>3, <1>4, <1>5, <1>6, <1>7, <1>8 DEF Next

LEMMA InitFeed == Init => Feed!Init
  <1>1. Init => Waiting = {}
    BY EventsEmpty, SessionSocketAssumption DEF Init, Waiting, Senders
  <1> QED
    BY <1>1, EventsEmpty DEF Init, Feed!Init

(* The session implements EventFeed: whatever the sockets, handlers and    *)
(* timers do, the browser is shown the oldest event that waits, once, on   *)
(* one socket; no more than two buffers and a frame wait; and events are   *)
(* lost only where EventFeed says so (session.go:121-173, 999-1022).       *)
THEOREM ImplementsFeed == Spec => FeedSpec
  <1>1. TypeOK /\ Locking /\ Ordering /\ [Next]_vars => [Feed!Next]_Feed!vars
    BY NextFeed DEF Feed!vars, feedVars
  <1> QED
    BY <1>1, InitFeed, OrderingInvariant, PTL DEF Spec, FeedSpec, Feed!Spec

-----------------------------------------------------------------------------
(* Where an event is.  The feed keeps every event in one place; within the *)
(* backlog Ordering keeps the flush, the buffer and the hand apart.        *)
Apart(n, W, S, L) ==
    /\ W \cup L \cup UNION {S[c] : c \in Sockets} = 1..n
    /\ W \cap L = {}
    /\ \A c \in Sockets : S[c] \cap (W \cup L) = {}
    /\ \A c, d \in Sockets : c # d => S[c] \cap S[d] = {}

LEMMA ApartNew ==
    ASSUME NEW n \in Nat, NEW W, NEW S, NEW L, Apart(n, W, S, L)
    PROVE  /\ Apart(n + 1, W \cup {n + 1}, S, L)
           /\ Apart(n + 1, W, S, L \cup {n + 1})
  <1>1. 1..(n + 1) = 1..n \cup {n + 1} /\ n + 1 \notin 1..n
    OBVIOUS
  <1>2. n + 1 \notin W \cup L \cup UNION {S[c] : c \in Sockets}
    BY <1>1 DEF Apart
  <1>3. \A c \in Sockets : n + 1 \notin S[c]
    BY <1>2
  <1> QED
    BY <1>1, <1>2, <1>3 DEF Apart

LEMMA ApartLost ==
    ASSUME NEW n, NEW W, NEW S, NEW L, NEW X \in SUBSET W, Apart(n, W, S, L)
    PROVE  Apart(n, W \ X, S, L \cup X)
  BY DEF Apart

LEMMA ApartShown ==
    ASSUME NEW n, NEW W, NEW S, NEW L, NEW x \in W, NEW d \in Sockets,
           DOMAIN S = Sockets, Apart(n, W, S, L)
    PROVE  Apart(n, W \ {x}, [S EXCEPT ![d] = @ \cup {x}], L)
  <1> DEFINE T == [S EXCEPT ![d] = @ \cup {x}]
  <1>1. \A c \in Sockets : T[c] = IF c = d THEN S[d] \cup {x} ELSE S[c]
    OBVIOUS
  <1> HIDE DEF T
  <1>2. x \notin L /\ \A c \in Sockets : x \notin S[c]
    BY DEF Apart
  <1>3. UNION {T[c] : c \in Sockets} = {x} \cup UNION {S[c] : c \in Sockets}
    BY <1>1
  <1>4. (W \ {x}) \cup L \cup UNION {T[c] : c \in Sockets} = 1..n
    BY <1>3 DEF Apart
  <1>5. \A c \in Sockets : T[c] \cap ((W \ {x}) \cup L) = {}
    BY <1>1, <1>2 DEF Apart
  <1>6. \A b, c \in Sockets : b # c => T[b] \cap T[c] = {}
    BY <1>1, <1>2 DEF Apart
  <1>7. (W \ {x}) \cap L = {}
    BY DEF Apart
  <1>8. Apart(n, W \ {x}, T, L)
    BY <1>4, <1>5, <1>6, <1>7 DEF Apart
  <1> QED
    BY <1>8 DEF T

(* An event, or a notice, that is shown on a socket. *)
LEMMA SeenAppend ==
    ASSUME inbox \in [Sockets -> Seq(Frames)], NEW c \in Sockets, NEW f \in Frames,
           inbox' = [inbox EXCEPT ![c] = Append(@, f)]
    PROVE  Seen' = [Seen EXCEPT ![c] = @ \cup ({f} \ {Resumed})]
  <1>1. Events(Append(inbox[c], f)) = Events(inbox[c]) \cup ({f} \ {Resumed})
    BY EventsAppend
  <1>2. \A d \in Sockets : Events(inbox'[d]) =
                            IF d = c THEN Events(inbox[c]) \cup ({f} \ {Resumed})
                                     ELSE Events(inbox[d])
    BY <1>1
  <1> QED
    BY <1>2 DEF Seen

LEMMA WaitingIsEvents ==
    ASSUME TypeOK, Ordering
    PROVE  \A n \in Waiting : n \in Frames /\ n # Resumed
  <1>1. /\ pending \in Seq(Frames) /\ buf \in Seq(Frames)
        /\ emitted \in Frames
        /\ to[IrcLoop] # NoSocket => emitted > 0
    BY DEF TypeOK, Frames, Ordering
  <1>2. \A n \in Events(pending) \cup Events(buf) : n \in Frames /\ n # Resumed
    BY <1>1, SeqFacts DEF Events
  <1> QED
    BY <1>1, <1>2 DEF Waiting, Resumed

LEMMA ApartStep ==
    ASSUME Apart(emitted, Waiting, Seen, lost), [Feed!Next]_feedVars, TypeOK, Ordering
    PROVE  Apart(emitted', Waiting', Seen', lost')
  <1>0. emitted \in Nat /\ inbox \in [Sockets -> Seq(Frames)] /\ Resumed \in Frames
    BY SessionSocketAssumption DEF TypeOK, Frames, Resumed
  <1>1. CASE Feed!Produce \/ Feed!Drop
    <2>1. /\ emitted' = emitted + 1 /\ Seen' = Seen
          /\ \/ Waiting' = Waiting \cup {emitted + 1} /\ lost' = lost
             \/ Waiting' = Waiting /\ lost' = lost \cup {emitted + 1}
      BY <1>1 DEF Feed!Produce, Feed!Drop, Seen
    <2>2. /\ Apart(emitted + 1, Waiting \cup {emitted + 1}, Seen, lost)
          /\ Apart(emitted + 1, Waiting, Seen, lost \cup {emitted + 1})
      BY <1>0, ApartNew
    <2> QED
      BY <2>1, <2>2
  <1>2. ASSUME NEW n \in Waiting, Feed!GiveUp(n)
        PROVE  Apart(emitted', Waiting', Seen', lost')
    <2>1. /\ emitted' = emitted /\ Seen' = Seen
          /\ Waiting' = Waiting \ {n} /\ lost' = lost \cup {n}
      BY <1>2 DEF Feed!GiveUp, Seen
    <2> QED
      BY <2>1, ApartLost
  <1>3. ASSUME NEW n \in Waiting, NEW c \in Sockets, Feed!Show(c, n)
        PROVE  Apart(emitted', Waiting', Seen', lost')
    <2>1. /\ emitted' = emitted /\ lost' = lost /\ Waiting' = Waiting \ {n}
          /\ Seen' = [Seen EXCEPT ![c] = @ \cup {n}]
      <3>1. n \in Frames /\ {n} \ {Resumed} = {n}
        BY WaitingIsEvents
      <3>2. inbox' = [inbox EXCEPT ![c] = Append(@, n)]
        BY <1>3 DEF Feed!Show
      <3>3. Seen' = [Seen EXCEPT ![c] = @ \cup ({n} \ {Resumed})]
        BY <1>0, <3>1, <3>2, SeenAppend
      <3> QED
        BY <1>3, <3>1, <3>3 DEF Feed!Show
    <2>2. DOMAIN Seen = Sockets
      BY DEF Seen
    <2> QED
      BY <2>1, <2>2, ApartShown
  <1>4. CASE Feed!Forget
    <2>1. /\ emitted' = emitted /\ Seen' = Seen
          /\ Waiting' = Waiting \ (Waiting \ Waiting')
          /\ lost' = lost \cup (Waiting \ Waiting')
      BY <1>4 DEF Feed!Forget, Seen
    <2>2. Apart(emitted, Waiting \ (Waiting \ Waiting'), Seen, lost \cup (Waiting \ Waiting'))
      BY ApartLost
    <2> QED
      BY <2>1, <2>2
  <1>6. ASSUME NEW c \in Sockets, Feed!Tell(c)
        PROVE  Apart(emitted', Waiting', Seen', lost')
    <2>1. /\ emitted' = emitted /\ lost' = lost /\ Waiting' = Waiting
          /\ Seen' = [Seen EXCEPT ![c] = @ \cup {}]
      BY <1>0, <1>6, SeenAppend DEF Feed!Tell
    <2>2. Seen' = Seen
      BY <2>1 DEF Seen
    <2> QED
      BY <2>1, <2>2
  <1>5. CASE UNCHANGED feedVars
    BY <1>5 DEF feedVars, Seen
  <1> QED
    BY <1>1, <1>2, <1>3, <1>4, <1>5, <1>6 DEF Feed!Next

Accounting == TypeOK /\ Locking /\ Ordering /\ Apart(emitted, Waiting, Seen, lost)

LEMMA AccountingInvariant == Spec => []Accounting
  <1>1. Init => Accounting
    <2> SUFFICES ASSUME Init PROVE Accounting
      OBVIOUS
    <2>1. /\ Waiting = {} /\ lost = {} /\ emitted = 0
          /\ Seen = [c \in Sockets |-> {}]
      BY EventsEmpty, InitFeed DEF Init, Feed!Init, Seen
    <2>2. Apart(0, {}, [c \in Sockets |-> {}], {})
      BY DEF Apart
    <2> QED
      BY <2>1, <2>2, InitType, InitLocking, InitOrdering DEF Accounting
  <1>2. Accounting /\ [Next]_vars => Accounting'
    <2> SUFFICES ASSUME Accounting, [Next]_vars PROVE Accounting'
      OBVIOUS
    <2>2. [Feed!Next]_feedVars
      BY NextFeed DEF Accounting
    <2>3. Apart(emitted', Waiting', Seen', lost')
      BY <2>2, ApartStep DEF Accounting
    <2> QED
      BY <2>3, NextType, NextLocking, NextOrdering DEF Accounting, Apart
  <1> QED
    BY <1>1, <1>2, PTL DEF Spec

(* The places of an event, by the part of the backlog that holds it. *)
LEMMA BacklogApart ==
    ASSUME TypeOK, Locking, Ordering, NEW n \in Nat
    PROVE  /\ n \in Events(pending) => n \notin Events(buf)
           /\ n \in Events(pending) \cup Events(buf) => ~(to[IrcLoop] # NoSocket /\ n = emitted)
  <1>1. /\ pending \in Seq(Frames) /\ buf \in Seq(Frames) /\ emitted \in Nat
    BY SessionSocketAssumption DEF TypeOK, Frames
  <1>2. \A m \in Events(pending), k \in Events(buf) : m < k
    BY <1>1, BeforeEvents DEF Ordering
  <1>3. ASSUME to[IrcLoop] # NoSocket
        PROVE  /\ \A m \in Events(pending) : m <= emitted - 1
               /\ \A m \in Events(buf) : m <= 0
               /\ emitted > 0
    BY <1>1, <1>3, UpToEvents DEF Ordering
  <1>4. Events(buf) \subseteq Nat /\ Events(pending) \subseteq Nat
    BY <1>1, EventsNat
  <1> QED
    BY <1>1, <1>2, <1>3, <1>4

LEMMA OnePlace ==
    ASSUME Accounting, NEW n \in 1..emitted
    PROVE  \E x : Places(n) = {x}
  <1>0. /\ n \in Nat /\ TypeOK /\ Locking /\ Ordering
        /\ Apart(emitted, Waiting, Seen, lost)
    BY DEF Accounting
  <1>1. /\ n \in Events(pending) => n \notin Events(buf)
        /\ n \in Events(pending) \cup Events(buf)
             => ~(to[IrcLoop] # NoSocket /\ n = emitted)
    BY <1>0, BacklogApart
  <1>2. n \in Waiting \/ n \in lost \/ \E c \in Sockets : n \in Events(inbox[c])
    BY <1>0 DEF Apart, Seen
  <1>3. CASE n \in lost
    <2>1. n \notin Waiting /\ \A c \in Sockets : n \notin Events(inbox[c])
      BY <1>0, <1>3 DEF Apart, Seen
    <2>2. Places(n) = {<<"lost">>}
      BY <1>3, <2>1 DEF Places, Waiting
    <2> QED
      BY <2>2
  <1>4. ASSUME NEW c \in Sockets, n \in Events(inbox[c])
        PROVE  \E x : Places(n) = {x}
    <2>1. /\ n \notin Waiting /\ n \notin lost
          /\ \A d \in Sockets : n \in Events(inbox[d]) => d = c
      BY <1>0, <1>4 DEF Apart, Seen
    <2>2. {d \in Sockets : n \in Events(inbox[d])} = {c}
      BY <1>4, <2>1
    <2>3. Places(n) = {<<"inbox", c>>}
      BY <2>1, <2>2 DEF Places, Waiting
    <2> QED
      BY <2>3
  <1>5. CASE n \in Waiting
    <2>1. /\ n \notin lost
          /\ {d \in Sockets : n \in Events(inbox[d])} = {}
      BY <1>0, <1>5 DEF Apart, Seen
    <2>2. Places(n) =
             (IF n \in Events(pending) THEN {<<"pending">>} ELSE {})
               \cup (IF n \in Events(buf) THEN {<<"buf">>} ELSE {})
               \cup (IF to[IrcLoop] # NoSocket /\ n = emitted THEN {<<"hand">>} ELSE {})
      BY <2>1 DEF Places
    <2>3. \/ n \in Events(pending) \/ n \in Events(buf)
          \/ to[IrcLoop] # NoSocket /\ n = emitted
      BY <1>5 DEF Waiting
    <2>4. Places(n) \in {{<<"pending">>}, {<<"buf">>}, {<<"hand">>}}
      BY <1>1, <2>2, <2>3
    <2> QED
      BY <2>4
  <1> QED
    BY <1>2, <1>3, <1>4, <1>5

(* Every event is in one place at any time: none is delivered on two       *)
(* sockets, none vanishes unrecorded, for any number of sockets and events. *)
THEOREM EveryEventAccounted == Spec => []Accounted
  <1>1. Accounting => Accounted
    <2> SUFFICES ASSUME Accounting, NEW n \in 1..emitted
                 PROVE  Cardinality(Places(n)) = 1
      BY DEF Accounted
    <2>1. PICK x : Places(n) = {x}
      BY OnePlace
    <2> QED
      BY <2>1, FS_Singleton
  <1> QED
    BY <1>1, AccountingInvariant, PTL

-----------------------------------------------------------------------------
(* Who has the session.  These are facts about MCSpec, which adds history  *)
(* to Spec: the socket attached last, and the two ways in which an older   *)
(* handler gets in its way.                                                *)
mcVars == <<vars, latest, disturbed, belated>>

Served ==
    /\ latest \in Sockets
    /\ ws \in {latest, NoSocket}
    /\ ~disturbed => ws = latest \/ pc[latest] = "gone"

(* Only an Attach or a Detach changes ws, and gone is for good. *)
LEMMA SocketStep ==
    ASSUME TypeOK, Locking, [Next]_vars
    PROVE  /\ ws' # ws => \E c \in Sockets : Attach(c) \/ Detach(c)
           /\ \A c \in Sockets : pc[c] = "gone" => pc'[c] = "gone"
  <1>1. CASE Emit \/ Tick \/ UNCHANGED vars
    BY <1>1 DEF Emit, Tick, socketVars, vars
  <1>2. ASSUME NEW p \in Senders, LockWs(p) \/ WriteWs(p)
        PROVE  /\ ws' = ws
               /\ \A c \in Sockets : pc[c] = "gone" => pc'[c] = "gone"
    BY <1>2 DEF LockWs, WriteWs, Locking, HandIsSending
  <1>3. ASSUME NEW c \in Sockets, Handler(c)
        PROVE  /\ ws' # ws => Attach(c) \/ Detach(c)
               /\ \A d \in Sockets : pc[d] = "gone" => pc'[d] = "gone"
    BY <1>3 DEF Handler, Upgrade, Lookup, Attach, Flush, EndFlush, SendResumed,
                Detach, Quit, socketVars, TypeOK
  <1>4. ASSUME NEW c \in Sockets, Network(c) \/ Expiry(c)
        PROVE  ws' = ws /\ pc' = pc
    BY <1>4 DEF Network, LinkDrops, LinkStalls, StallEnds, Expiry, TimerFires,
                ExpireBuffer, ExpireClose, ExpireRemove, socketVars
  <1> QED
    BY <1>1, <1>2, <1>3, <1>4 DEF Next

LEMMA ServedStep ==
    ASSUME TypeOK, Locking, Served, [MCNext]_mcVars
    PROVE  Served'
  <1>0. CASE UNCHANGED mcVars
    BY <1>0 DEF mcVars, vars, Served
  <1>1. CASE MCNext
    <2>1. /\ ws' # ws => \E c \in Sockets : Attach(c) \/ Detach(c)
          /\ \A c \in Sockets : pc[c] = "gone" => pc'[c] = "gone"
      BY <1>1, SocketStep DEF MCNext
    <2>2. /\ latest' = IF ws' \in {ws, NoSocket} THEN latest ELSE ws'
          /\ ~disturbed' => ~disturbed /\ ~Disturbs
      BY <1>1 DEF MCNext
    <2>3. CASE ws' = ws
      BY <2>1, <2>2, <2>3 DEF Served
    <2>4. ASSUME NEW c \in Sockets, Attach(c), ws' # ws
          PROVE  Served'
      <3>1. ws' = c /\ ws' # NoSocket
        BY <2>4, SessionSocketAssumption DEF Attach
      <3> QED
        BY <2>2, <2>4, <3>1 DEF Served
    <2>5. ASSUME NEW c \in Sockets, Detach(c), ws' # ws
          PROVE  Served'
      <3>1. ws' = NoSocket /\ pc[c] = "reading" /\ pc'[c] = "gone"
        BY <2>5 DEF Detach, TypeOK
      <3>2. ~Disturbs => ws \in {c, NoSocket}
        BY <3>1 DEF Disturbs
      <3> QED
        BY <2>2, <2>5, <3>1, <3>2 DEF Served
    <2> QED
      BY <2>1, <2>3, <2>4, <2>5
  <1> QED
    BY <1>0, <1>1

LEMMA ServedInvariant == MCSpec => [](TypeOK /\ Locking /\ Served)
  <1>1. MCInit => TypeOK /\ Locking /\ Served
    BY InitType, InitLocking, SessionSocketAssumption DEF MCInit, Init, Served
  <1>2. TypeOK /\ Locking /\ Served /\ [MCNext]_mcVars => (TypeOK /\ Locking /\ Served)'
    <2>1. [MCNext]_mcVars => [Next]_vars
      BY DEF MCNext, mcVars
    <2> QED
      BY <2>1, NextType, NextLocking, ServedStep
  <1> QED
    BY <1>1, <1>2, PTL DEF MCSpec, mcVars

(* Unless a late Detach has cleared it, the browser that attached last has *)
(* the session, whatever the sockets, the timers and the sizes.            *)
THEOREM LatestHasTheSession == MCSpec => []UndisturbedIsServed
  <1>1. Served => UndisturbedIsServed
    BY DEF Served, UndisturbedIsServed, LatestIsServed
  <1> QED
    BY <1>1, ServedInvariant, PTL

-----------------------------------------------------------------------------
(* When a browser has been told resumed.  As long as no handler announced  *)
(* it to a session without a socket, no resumed frame is ever buffered, so *)
(* a socket hears it only after its own flush.                             *)
Silent(s) == \A i \in DOMAIN s : s[i] # Resumed

Early == {"unopened", "lookup", "attach", "elsewhere"}

Announced ==
    /\ \A p \in Senders : to[p] # NoSocket => pc[to[p]] \notin Early
    /\ ~disturbed /\ ~belated =>
         /\ Silent(buf) /\ Silent(pending)
         /\ \A c \in Sockets : pc[c] \in Early \cup {"flush"} => Silent(inbox[c])

LEMMA SilentFacts ==
    ASSUME NEW s \in Seq(Frames), Silent(s)
    PROVE  /\ \A f \in Frames \ {Resumed} : Silent(Append(s, f))
           /\ s # <<>> => Silent(Tail(s)) /\ Head(s) # Resumed
  <1>1. ASSUME NEW f \in Frames \ {Resumed} PROVE Silent(Append(s, f))
    BY <1>1, AppendFacts, SeqFacts DEF Silent
  <1>2. ASSUME s # <<>> PROVE Silent(Tail(s)) /\ Head(s) # Resumed
    BY <1>2, TailFacts, SeqFacts DEF Silent
  <1> QED
    BY <1>1, <1>2

(* What Announced talks about, apart from the history. *)
LEMMA SameAnnounced ==
    ASSUME Announced, UNCHANGED <<buf, pending, inbox, to>>,
           ~disturbed' => ~disturbed, ~belated' => ~belated,
           \A c \in Sockets : /\ pc[c] \notin Early => pc'[c] \notin Early
                              /\ pc'[c] \in Early \cup {"flush"}
                                   => pc[c] \in Early \cup {"flush"},
           TypeOK
    PROVE  Announced'
  BY DEF Announced, Silent, TypeOK

LEMMA AnnouncedStep ==
    ASSUME TypeOK, Locking, Ordering, Served, Announced, MCNext
    PROVE  Announced'
  <1> DEFINE clear == ~disturbed' /\ ~belated'
  <1>0. /\ buf \in Seq(Frames) /\ pending \in Seq(Frames)
        /\ \A c \in Sockets : inbox[c] \in Seq(Frames)
        /\ emitted \in Nat
    BY SessionSocketAssumption DEF TypeOK, Frames
  <1>1. /\ ~disturbed' => ~disturbed
        /\ ~belated' => ~belated /\ ~Belated
    BY DEF MCNext
  <1>2. CASE Emit
    <2>1. emitted + 1 \in Frames \ {Resumed} /\ IrcLoop \in Senders
      <3>1. emitted < MaxEvents
        BY <1>2 DEF Emit
      <3> QED
        BY <1>0, <3>1, SessionSocketAssumption DEF Resumed, Frames, Senders
    <2>2. UNCHANGED <<pending, inbox, pc, ws>> /\ Capture(IrcLoop, emitted + 1)
      BY <1>2 DEF Emit
    <2>3. Silent(buf) => Silent(buf')
      BY <1>0, <2>1, <2>2, SilentFacts DEF Capture
    <2>4. \A p \in Senders : to'[p] # NoSocket => to'[p] = to[p] \/ (to'[p] = ws /\ ws # NoSocket)
      BY <2>1, <2>2 DEF Capture, TypeOK
    <2>5. ws # NoSocket => pc[ws] \notin Early
      BY DEF Locking, AttachedHandlerAlive, Active, Early
    <2>6. \A p \in Senders : to'[p] # NoSocket => pc'[to'[p]] \notin Early
      BY <2>2, <2>4, <2>5 DEF Announced
    <2> QED
      BY <1>1, <2>2, <2>3, <2>6 DEF Announced
  <1>3. ASSUME NEW p \in Senders, LockWs(p) PROVE Announced'
    BY <1>1, <1>3, SameAnnounced DEF LockWs
  <1>4. ASSUME NEW p \in Senders, WriteWs(p) PROVE Announced'
    <2>1. /\ UNCHANGED <<buf, pending>> /\ to[p] \in Sockets /\ wsMu = p
          /\ to' = [to EXCEPT ![p] = NoSocket]
          /\ pc' = [c \in Sockets |-> IF c = p THEN "reading" ELSE pc[c]]
          /\ Transmit(to[p], Hand(p))
      BY <1>4 DEF WriteWs, TypeOK
    <2>2. \A c \in Sockets : c # to[p] => inbox'[c] = inbox[c]
      BY <2>1 DEF Transmit, TypeOK
    <2>3. pc[to[p]] \notin Early
      BY <2>1, SessionSocketAssumption DEF Announced
    <2>4. pc[to[p]] # "flush"
      BY <2>1, SessionSocketAssumption DEF Locking, OneWriter, HandIsSending
    <2>5. \A c \in Sockets : pc'[c] \in Early \cup {"flush"} => pc[c] = pc'[c] /\ c # to[p]
      BY <2>1, <2>3, <2>4 DEF Early
    <2>6. \A q \in Senders : to'[q] # NoSocket => pc'[to'[q]] \notin Early
      BY <2>1 DEF Announced, TypeOK, Early
    <2> QED
      BY <1>1, <2>1, <2>2, <2>5, <2>6 DEF Announced
  <1>5. ASSUME NEW c \in Sockets, Handler(c) PROVE Announced'
    <2>1. CASE Upgrade(c) \/ Lookup(c) \/ EndFlush(c) \/ Detach(c) \/ Quit(c)
      BY <1>1, <2>1, SameAnnounced
      DEF Upgrade, Lookup, EndFlush, Detach, Quit, socketVars, TypeOK, Early
    <2>2. CASE Attach(c)
      <3>1. /\ pending' = buf /\ buf' = <<>> /\ UNCHANGED <<inbox, to>>
            /\ pc[c] = "attach" /\ pc' = [pc EXCEPT ![c] = "flush"]
        BY <2>2 DEF Attach
      <3>2. Silent(<<>>)
        BY DEF Silent
      <3>3. /\ \A d \in Sockets : pc'[d] \in Early \cup {"flush"} => pc[d] \in Early \cup {"flush"}
            /\ \A d \in Sockets : pc[d] \notin Early => pc'[d] \notin Early
        BY <3>1 DEF TypeOK, Early
      <3> QED
        BY <1>1, <3>1, <3>2, <3>3 DEF Announced, TypeOK
    <2>3. CASE Flush(c)
      <3>1. /\ pending # <<>> /\ pending' = Tail(pending) /\ UNCHANGED <<buf, to, pc>>
            /\ pc[c] = "flush" /\ Transmit(c, Head(pending)) /\ Head(pending) \in Frames
        BY <1>0, <2>3, TailFacts DEF Flush
      <3>2. /\ clear => Silent(pending') /\ Head(pending) # Resumed
        BY <1>0, <1>1, <3>1, SilentFacts DEF Announced
      <3>3. \A d \in Sockets : inbox'[d] \in {inbox[d], Append(inbox[d], Head(pending))}
        BY <3>1 DEF Transmit, TypeOK
      <3>4. \A d \in Sockets : clear /\ Silent(inbox[d]) => Silent(inbox'[d])
        BY <1>0, <3>1, <3>2, <3>3, SilentFacts
      <3> QED
        BY <1>1, <3>1, <3>2, <3>4 DEF Announced
    <2>4. CASE SendResumed(c)
      <3>1. /\ UNCHANGED <<pending, inbox, ws>> /\ Capture(c, Resumed) /\ pc[c] = "resumed"
            /\ pc' = [pc EXCEPT ![c] = IF ws = NoSocket THEN "reading" ELSE "sending"]
        BY <2>4 DEF SendResumed
      <3>2. pc'[c] # "resumed"
        BY <3>1 DEF TypeOK
      <3>3. clear => ws # NoSocket
        BY <1>1, <3>1, <3>2, SessionSocketAssumption DEF Belated, Served
      <3>4. ws # NoSocket => UNCHANGED buf
        BY <3>1 DEF Capture
      <3>5. \A d \in Sockets : pc'[d] = pc[d] \/ pc'[d] \notin Early \cup {"flush"}
        BY <3>1 DEF TypeOK, Early
      <3>6. \A p \in Senders : to'[p] # NoSocket => to'[p] = to[p] \/ (to'[p] = ws /\ ws # NoSocket)
        BY <3>1 DEF Capture, TypeOK
      <3>7. ws # NoSocket => pc[ws] \notin Early
        BY DEF Locking, AttachedHandlerAlive, Active, Early
      <3>8. \A p \in Senders : to'[p] # NoSocket => pc[to'[p]] \notin Early /\ to'[p] \in Sockets
        BY <3>6, <3>7 DEF Announced, TypeOK
      <3>9. \A p \in Senders : to'[p] # NoSocket => pc'[to'[p]] \notin Early
        BY <3>5, <3>8
      <3> QED
        BY <1>1, <3>1, <3>3, <3>4, <3>5, <3>9 DEF Announced
    <2> QED
      BY <1>5, <2>1, <2>2, <2>3, <2>4 DEF Handler
  <1>6. ASSUME NEW c \in Sockets, Network(c) \/ TimerFires(c) \/ ExpireClose(c) \/ ExpireRemove(c)
        PROVE  Announced'
    BY <1>1, <1>6, SameAnnounced
    DEF Network, LinkDrops, LinkStalls, StallEnds, TimerFires, ExpireClose,
        ExpireRemove, socketVars
  <1>7. ASSUME NEW c \in Sockets, ExpireBuffer(c) PROVE Announced'
    <2>1. buf' = <<>> /\ UNCHANGED <<pending, inbox, pc, to>>
      BY <1>7 DEF ExpireBuffer
    <2> QED
      BY <1>1, <2>1 DEF Announced, Silent
  <1>8. CASE Tick
    BY <1>1, <1>8, SameAnnounced DEF Tick, socketVars
  <1> QED
    BY <1>2, <1>3, <1>4, <1>5, <1>6, <1>7, <1>8 DEF MCNext, Next, Expiry

(* Unless an older handler gets in the way, a browser that has been told   *)
(* resumed has had all that was buffered for it.                           *)
THEOREM ResumedIsTheEnd == MCSpec => []UndisturbedReplay
  <1> DEFINE I == TypeOK /\ Locking /\ Ordering /\ Served /\ Announced
  <1>1. MCInit => I
    <2>1. MCInit => Served /\ Announced
      BY SessionSocketAssumption
      DEF MCInit, Init, Served, Announced, Silent, Senders, Early
    <2> QED
      BY <2>1, InitType, InitLocking, InitOrdering DEF MCInit
  <1>2. I /\ [MCNext]_mcVars => I'
    <2>1. [MCNext]_mcVars => [Next]_vars
      BY DEF MCNext, mcVars
    <2>2. Announced /\ UNCHANGED mcVars => Announced'
      BY DEF Announced, mcVars, vars, Silent
    <2> QED
      BY <2>1, <2>2, NextType, NextLocking, NextOrdering, ServedStep, AnnouncedStep
  <1>3. I => UndisturbedReplay
    BY DEF Announced, UndisturbedReplay, ResumedEndsReplay, Silent
  <1> QED
    BY <1>1, <1>2, <1>3, PTL DEF MCSpec, mcVars
=============================================================================
