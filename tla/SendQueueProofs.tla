-------------------------- MODULE SendQueueProofs --------------------------
(***************************************************************************)
(* Proofs about SendQueue, for every capacity of the channel, every burst  *)
(* and any number of lines.                                                *)
(***************************************************************************)
EXTENDS SendQueue, Integers, TLAPS

Lines == 1..MaxLines
Ages  == 0..MaxLines

-----------------------------------------------------------------------------
(* Sequences: what Append and Tail do. *)
LEMMA AppendFacts ==
    ASSUME NEW S, NEW s \in Seq(S), NEW e \in S
    PROVE  /\ Append(s, e) \in Seq(S)
           /\ Len(s) \in Nat /\ Len(Append(s, e)) = Len(s) + 1
           /\ DOMAIN s = 1..Len(s)
           /\ DOMAIN Append(s, e) = 1..(Len(s) + 1)
           /\ \A i \in DOMAIN s : Append(s, e)[i] = s[i]
           /\ Append(s, e)[Len(s) + 1] = e
  OBVIOUS

LEMMA ElementFacts ==
    ASSUME NEW S, NEW s \in Seq(S)
    PROVE  /\ Len(s) \in Nat /\ DOMAIN s = 1..Len(s)
           /\ \A i \in DOMAIN s : s[i] \in S
  OBVIOUS

LEMMA TailFacts ==
    ASSUME NEW S, NEW s \in Seq(S), s # <<>>
    PROVE  /\ Tail(s) \in Seq(S) /\ Head(s) \in S
           /\ Head(s) = s[1] /\ Len(s) \in Nat \ {0} /\ 1 \in DOMAIN s
           /\ DOMAIN s = 1..Len(s)
           /\ Len(Tail(s)) = Len(s) - 1
           /\ DOMAIN Tail(s) = 1..(Len(s) - 1)
           /\ \A i \in DOMAIN Tail(s) : i + 1 \in DOMAIN s /\ Tail(s)[i] = s[i + 1]
  OBVIOUS

-----------------------------------------------------------------------------
(* The inductive invariant.  For RateBound: the lines since line i, the    *)
(* tokens left and the tick that waits have all been paid for.             *)
Waiting == IF tick THEN 1 ELSE 0

Budget ==
    \A i \in DOMAIN out : Len(out) - i + 1 + tokens + Waiting <= Burst + 1 + age[i]

(* A tick makes every line one tick older, up to MaxLines. *)
LEMMA TickedAge ==
    ASSUME TypeOK, Tick
    PROVE  /\ DOMAIN age' = DOMAIN age
           /\ \A i \in DOMAIN age :
                /\ age[i] \in Ages /\ age'[i] \in Ages
                /\ age'[i] = age[i] + 1 \/ (age'[i] = MaxLines /\ age[i] = MaxLines)
  <1>1. \A i \in DOMAIN age : age[i] \in Ages
    <2>1. age \in Seq(Ages)
      BY DEF TypeOK, Ages
    <2> QED
      BY <2>1, ElementFacts
  <1>2. /\ DOMAIN age' = DOMAIN age
        /\ \A i \in DOMAIN age :
             age'[i] = IF age[i] < MaxLines THEN age[i] + 1 ELSE age[i]
    BY DEF Tick
  <1>3. ASSUME NEW i \in DOMAIN age
        PROVE  /\ age'[i] \in Ages
               /\ age'[i] = age[i] + 1 \/ (age'[i] = MaxLines /\ age[i] = MaxLines)
    <2>1. age[i] \in Nat /\ age[i] <= MaxLines
      BY <1>1, <1>3, SendQueueAssumption DEF Ages
    <2>2. CASE age[i] < MaxLines
      BY <1>2, <1>3, <2>1, <2>2, SendQueueAssumption DEF Ages
    <2>3. CASE age[i] = MaxLines
      BY <1>2, <1>3, <2>1, <2>3, SendQueueAssumption DEF Ages
    <2> QED
      BY <2>1, <2>2, <2>3, SendQueueAssumption
  <1> QED
    BY <1>1, <1>2, <1>3

LEMMA InitType == Init => TypeOK
  <1> SUFFICES ASSUME Init PROVE TypeOK
    OBVIOUS
  <1>1. /\ <<>> \in Seq(1..MaxLines) /\ <<>> \in Seq(0..MaxLines)
        /\ Len(<<>>) = 0
    OBVIOUS
  <1>2. 0 <= QueueCap /\ Burst \in 0..Burst /\ 0 \in 0..MaxLines
    BY SendQueueAssumption
  <1> QED
    BY <1>1, <1>2 DEF Init, TypeOK

LEMMA NextType == TypeOK /\ [Next]_vars => TypeOK'
  <1> SUFFICES ASSUME TypeOK, [Next]_vars PROVE TypeOK'
    OBVIOUS
  <1> USE SendQueueAssumption
  <1>1. CASE Connect
    BY <1>1 DEF Connect, TypeOK
  <1>2. CASE SendIRC
    <2>1. CASE UNCHANGED <<q, accepted>>
      BY <1>2, <2>1 DEF SendIRC, TypeOK
    <2>2. CASE /\ Len(q) < QueueCap /\ accepted' = accepted + 1
               /\ q' = Append(q, accepted + 1) /\ UNCHANGED refused
      <3>1. accepted + 1 \in 1..MaxLines /\ accepted + 1 \in 0..MaxLines
        BY <1>2 DEF SendIRC, TypeOK
      <3>2. /\ Append(q, accepted + 1) \in Seq(1..MaxLines)
            /\ Len(Append(q, accepted + 1)) = Len(q) + 1 /\ Len(q) \in Nat
        BY <3>1, AppendFacts DEF TypeOK
      <3>3. Len(q') <= QueueCap
        BY <2>2, <3>2
      <3> QED
        BY <1>2, <2>2, <3>1, <3>2, <3>3 DEF SendIRC, TypeOK
    <2> QED
      BY <1>2, <2>1, <2>2 DEF SendIRC
  <1>3. CASE Take
    <2>1. /\ Tail(q) \in Seq(1..MaxLines) /\ Head(q) \in 1..MaxLines
          /\ Len(Tail(q)) <= QueueCap
      BY <1>3, TailFacts DEF Take, TypeOK
    <2>2. Append(pending, Head(q)) \in Seq(1..MaxLines)
      BY <2>1, AppendFacts DEF TypeOK
    <2> QED
      BY <1>3, <2>1, <2>2 DEF Take, TypeOK
  <1>4. CASE Refill
    <2>1. tokens' \in 0..Burst
      BY <1>4 DEF Refill, TypeOK
    <2> QED
      BY <1>4, <2>1 DEF Refill, TypeOK
  <1>5. CASE Write
    <2>1. /\ Tail(pending) \in Seq(1..MaxLines) /\ Head(pending) \in 1..MaxLines
      BY <1>5, TailFacts DEF Write, TypeOK
    <2>2. /\ Append(out, Head(pending)) \in Seq(1..MaxLines)
          /\ Len(Append(out, Head(pending))) = Len(out) + 1
      BY <2>1, AppendFacts DEF TypeOK
    <2>3. 0 \in 0..MaxLines
      OBVIOUS
    <2>4. Append(age, 0) \in Seq(0..MaxLines) /\ Len(Append(age, 0)) = Len(age) + 1
      BY <2>3, AppendFacts DEF TypeOK
    <2>5. tokens - 1 \in 0..Burst
      BY <1>5 DEF Write, TypeOK
    <2> QED
      BY <1>5, <2>1, <2>2, <2>4, <2>5 DEF Write, TypeOK
  <1>6. CASE EndFlush
    BY <1>6 DEF EndFlush, TypeOK
  <1>7. CASE Exit
    BY <1>7 DEF Exit, TypeOK
  <1>8. CASE Tick
    <2>1. DOMAIN age = 1..Len(age) /\ Len(age) \in Nat
      BY DEF TypeOK
    <2>2. age' \in [1..Len(age) -> 0..MaxLines]
      BY <1>8, <2>1, TickedAge DEF Tick, Ages
    <2>3. age' \in Seq(0..MaxLines) /\ Len(age') = Len(age)
      BY <2>1, <2>2
    <2> QED
      BY <1>8, <2>3 DEF Tick, TypeOK
  <1>9. CASE LinkSticks \/ LinkRecovers \/ LinkDrops \/ Close
    BY <1>9 DEF LinkSticks, LinkRecovers, LinkDrops, Close, TypeOK
  <1>10. CASE UNCHANGED vars
    BY <1>10 DEF vars, TypeOK
  <1> QED
    BY <1>1, <1>2, <1>3, <1>4, <1>5, <1>6, <1>7, <1>8, <1>9, <1>10 DEF Next

(* Every variable keeps its type: the channel never holds more than its    *)
(* capacity and the bucket never more than a burst.                        *)
THEOREM TypeCorrect == Spec => []TypeOK
  BY InitType, NextType, PTL DEF Spec

-----------------------------------------------------------------------------
(* The order of lines.                                                     *)
LEMMA InitSequence == Init => InSequence
  BY DEF Init, InSequence

LEMMA NextSequence == TypeOK /\ InSequence /\ [Next]_vars => InSequence'
  <1> SUFFICES ASSUME TypeOK, InSequence, [Next]_vars PROVE InSequence'
    OBVIOUS
  <1>0. Len(out) \in Nat /\ Len(pending) \in Nat /\ Len(q) \in Nat /\ accepted \in Nat
    BY SendQueueAssumption DEF TypeOK
  <1>1. CASE UNCHANGED <<q, pending, out, accepted>>
    BY <1>1 DEF InSequence
  <1>2. CASE SendIRC
    <2>1. CASE UNCHANGED <<q, accepted>>
      BY <1>2, <1>1, <2>1 DEF SendIRC
    <2>2. CASE accepted' = accepted + 1 /\ q' = Append(q, accepted + 1)
      <3>1. accepted + 1 \in 1..MaxLines
        BY <1>0, <1>2, SendQueueAssumption DEF SendIRC, TypeOK
      <3>2. /\ Len(q') = Len(q) + 1 /\ DOMAIN q = 1..Len(q) /\ DOMAIN q' = 1..(Len(q) + 1)
            /\ \A i \in DOMAIN q : q'[i] = q[i]
            /\ q'[Len(q) + 1] = accepted + 1
        BY <2>2, <3>1, AppendFacts DEF TypeOK
      <3>3. UNCHANGED <<out, pending>>
        BY <1>2 DEF SendIRC
      <3> QED
        BY <1>0, <2>2, <3>2, <3>3 DEF InSequence
    <2> QED
      BY <1>2, <2>1, <2>2 DEF SendIRC
  <1>3. CASE Take
    <2>1. /\ q # <<>> /\ q' = Tail(q) /\ pending' = Append(pending, Head(q))
          /\ UNCHANGED <<out, accepted>>
      BY <1>3 DEF Take
    <2>2. /\ Len(q') = Len(q) - 1 /\ DOMAIN q' = 1..(Len(q) - 1)
          /\ Head(q) = q[1] /\ 1 \in DOMAIN q /\ Head(q) \in 1..MaxLines
          /\ \A i \in DOMAIN q' : i + 1 \in DOMAIN q /\ q'[i] = q[i + 1]
      BY <2>1, TailFacts DEF TypeOK
    <2>3. /\ Len(pending') = Len(pending) + 1 /\ DOMAIN pending = 1..Len(pending)
          /\ DOMAIN pending' = 1..(Len(pending) + 1)
          /\ \A i \in DOMAIN pending : pending'[i] = pending[i]
          /\ pending'[Len(pending) + 1] = Head(q)
      BY <2>1, <2>2, AppendFacts DEF TypeOK
    <2>4. Head(q) = Len(out) + Len(pending) + 1
      BY <2>2 DEF InSequence
    <2>5. accepted' = Len(out') + Len(pending') + Len(q')
      BY <1>0, <2>1, <2>2, <2>3 DEF InSequence
    <2>6. ASSUME NEW i \in DOMAIN pending' PROVE pending'[i] = Len(out') + i
      <3>1. CASE i \in DOMAIN pending
        BY <2>1, <2>3, <3>1 DEF InSequence
      <3>2. CASE i = Len(pending) + 1
        BY <1>0, <2>1, <2>3, <2>4, <3>2
      <3> QED
        BY <1>0, <2>3, <3>1, <3>2
    <2>7. ASSUME NEW i \in DOMAIN q' PROVE q'[i] = Len(out') + Len(pending') + i
      <3>1. q[i + 1] = Len(out) + Len(pending) + (i + 1)
        BY <2>2, <2>7 DEF InSequence
      <3> QED
        BY <1>0, <2>1, <2>2, <2>3, <2>7, <3>1
    <2> QED
      BY <2>1, <2>5, <2>6, <2>7 DEF InSequence
  <1>4. CASE Write
    <2>1. /\ pending # <<>> /\ pending' = Tail(pending) /\ out' = Append(out, Head(pending))
          /\ UNCHANGED <<q, accepted>>
      BY <1>4 DEF Write
    <2>2. /\ Len(pending') = Len(pending) - 1 /\ DOMAIN pending' = 1..(Len(pending) - 1)
          /\ Head(pending) = pending[1] /\ 1 \in DOMAIN pending
          /\ Head(pending) \in 1..MaxLines
          /\ \A i \in DOMAIN pending' :
               i + 1 \in DOMAIN pending /\ pending'[i] = pending[i + 1]
      BY <2>1, TailFacts DEF TypeOK
    <2>3. /\ Len(out') = Len(out) + 1 /\ DOMAIN out = 1..Len(out)
          /\ DOMAIN out' = 1..(Len(out) + 1)
          /\ \A i \in DOMAIN out : out'[i] = out[i]
          /\ out'[Len(out) + 1] = Head(pending)
      BY <2>1, <2>2, AppendFacts DEF TypeOK
    <2>4. Head(pending) = Len(out) + 1
      BY <2>2 DEF InSequence
    <2>5. accepted' = Len(out') + Len(pending') + Len(q')
      BY <1>0, <2>1, <2>2, <2>3 DEF InSequence
    <2>6. ASSUME NEW i \in DOMAIN out' PROVE out'[i] = i
      <3>1. CASE i \in DOMAIN out
        BY <2>3, <3>1 DEF InSequence
      <3>2. CASE i = Len(out) + 1
        BY <2>3, <2>4, <3>2
      <3> QED
        BY <1>0, <2>3, <3>1, <3>2
    <2>7. ASSUME NEW i \in DOMAIN pending' PROVE pending'[i] = Len(out') + i
      <3>1. pending[i + 1] = Len(out) + (i + 1)
        BY <2>2, <2>7 DEF InSequence
      <3> QED
        BY <1>0, <2>2, <2>3, <2>7, <3>1
    <2>8. ASSUME NEW i \in DOMAIN q PROVE q[i] = Len(out') + Len(pending') + i
      <3>1. q[i] = Len(out) + Len(pending) + i /\ i \in Nat
        BY <2>8 DEF InSequence, TypeOK
      <3> QED
        BY <1>0, <2>2, <2>3, <3>1
    <2> QED
      BY <2>1, <2>5, <2>6, <2>7, <2>8 DEF InSequence
  <1> QED
    BY <1>1, <1>2, <1>3, <1>4
    DEF Next, Connect, Refill, EndFlush, Exit, Tick, LinkSticks, LinkRecovers,
        LinkDrops, Close, vars

(* The limiter keeps every accepted line, once and in order.               *)
THEOREM LinesInSequence == Spec => []InSequence
  <1>1. TypeOK /\ InSequence /\ [Next]_vars => (TypeOK /\ InSequence)'
    BY NextType, NextSequence
  <1> QED
    BY <1>1, InitType, InitSequence, PTL DEF Spec

-----------------------------------------------------------------------------
(* The rate.                                                               *)
LEMMA InitBudget == Init => Budget
  BY DEF Init, Budget

LEMMA NextBudget == TypeOK /\ InSequence /\ Budget /\ [Next]_vars => Budget'
  <1> SUFFICES ASSUME TypeOK, InSequence, Budget, [Next]_vars PROVE Budget'
    OBVIOUS
  <1> USE SendQueueAssumption
  <1>0. /\ tokens \in 0..Burst /\ Waiting \in {0, 1} /\ tick \in BOOLEAN
        /\ Len(out) \in Nat /\ Len(out) = Len(age)
        /\ DOMAIN out = 1..Len(out) /\ DOMAIN age = 1..Len(out)
        /\ \A i \in DOMAIN out : age[i] \in Nat
    BY DEF TypeOK, Waiting
  <1>1. CASE UNCHANGED <<out, age, tokens, tick>>
    BY <1>1 DEF Budget, Waiting
  <1>2. CASE Refill
    <2>1. /\ UNCHANGED <<out, age>> /\ Waiting = 1 /\ Waiting' = 0
          /\ tokens' = tokens + 1 \/ tokens' = tokens
      BY <1>2 DEF Refill, Waiting
    <2> QED
      BY <1>0, <2>1 DEF Budget
  <1>3. CASE Tick
    <2>1. UNCHANGED <<out, tokens>> /\ Waiting = 0 /\ Waiting' = 1
      BY <1>3 DEF Tick, Waiting
    <2>2. Len(out) <= MaxLines
      BY <1>0 DEF InSequence, TypeOK
    <2>3. ASSUME NEW i \in DOMAIN out
          PROVE  Len(out) - i + 1 + tokens + 1 <= Burst + 1 + age'[i]
      <3>1. age'[i] = age[i] + 1 \/ (age'[i] = MaxLines /\ age[i] = MaxLines)
        BY <1>0, <1>3, TickedAge
      <3>2. CASE age'[i] = age[i] + 1
        <4>1. Len(out) - i + 1 + tokens + 0 <= Burst + 1 + age[i]
          BY <2>1 DEF Budget
        <4> QED
          BY <1>0, <3>2, <4>1
      <3>3. CASE age'[i] = MaxLines
        BY <1>0, <2>2, <3>3
      <3> QED
        BY <3>1, <3>2, <3>3
    <2> QED
      BY <2>1, <2>3 DEF Budget
  <1>4. CASE Write
    <2>1. /\ out' = Append(out, Head(pending)) /\ age' = Append(age, 0)
          /\ tokens > 0 /\ tokens' = tokens - 1 /\ Waiting' = Waiting /\ pending # <<>>
      BY <1>4 DEF Write, Waiting
    <2>2. Head(pending) \in 1..MaxLines /\ 0 \in 0..MaxLines
      BY <2>1, TailFacts DEF TypeOK
    <2>3. /\ Len(out') = Len(out) + 1
          /\ DOMAIN out' = 1..(Len(out) + 1)
      BY <2>1, <2>2, AppendFacts DEF TypeOK
    <2>4. /\ \A i \in DOMAIN age : age'[i] = age[i]
          /\ age'[Len(out) + 1] = 0
      BY <1>0, <2>1, <2>2, AppendFacts DEF TypeOK
    <2>5. ASSUME NEW i \in DOMAIN out'
          PROVE  Len(out') - i + 1 + tokens' + Waiting' <= Burst + 1 + age'[i]
      <3>1. CASE i \in DOMAIN out
        BY <1>0, <2>1, <2>3, <2>4, <3>1 DEF Budget
      <3>2. CASE i = Len(out) + 1
        BY <1>0, <2>1, <2>3, <2>4, <3>2
      <3> QED
        BY <1>0, <2>3, <3>1, <3>2
    <2> QED
      BY <2>5 DEF Budget
  <1> QED
    BY <1>1, <1>2, <1>3, <1>4
    DEF Next, Connect, SendIRC, Take, EndFlush, Exit, LinkSticks, LinkRecovers,
        LinkDrops, Close, vars

(* Over any stretch of time the limiter writes no more than a burst, the   *)
(* line of one tick that waited, and one line per tick.                    *)
THEOREM RateIsBounded == Spec => []RateBound
  <1>1. Init => TypeOK /\ InSequence /\ Budget
    BY InitType, InitSequence, InitBudget
  <1>2. TypeOK /\ InSequence /\ Budget /\ [Next]_vars => (TypeOK /\ InSequence /\ Budget)'
    BY NextType, NextSequence, NextBudget
  <1>3. TypeOK /\ Budget => RateBound
    <2> SUFFICES ASSUME TypeOK, Budget, NEW i \in DOMAIN out
                 PROVE  Len(out) - i + 1 <= Burst + 1 + age[i]
      BY DEF RateBound
    <2>1. /\ tokens \in Nat /\ Waiting \in Nat /\ Len(out) \in Nat /\ i \in Nat
          /\ age[i] \in Nat /\ Burst \in Nat
      BY SendQueueAssumption DEF TypeOK, Waiting
    <2> QED
      BY <2>1 DEF Budget
  <1> QED
    BY <1>1, <1>2, <1>3, PTL DEF Spec
=============================================================================
