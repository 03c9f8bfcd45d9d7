--------------------------- MODULE ChatLogProofs ---------------------------
(***************************************************************************)
(* Proofs about ChatLog, for every set of limits and every bound.  TLC's   *)
(* bounds are never used.                                                  *)
(*                                                                         *)
(* All of them look at Queue, what is under way in the order in which it   *)
(* will run: its transactions, then the callers that wait for the          *)
(* database.  The proofs of InOrder and Forgotten say what is in the       *)
(* queue, that of Bounded how many rows there are after each of its        *)
(* elements, and that of Replayed which ones.                              *)
(***************************************************************************)
EXTENDS ChatLog, Integers, SequenceTheorems, TLAPS

-----------------------------------------------------------------------------
(* Sequences, and the helpers of persistMsg.                                *)
LEMMA SeqFacts ==
  ASSUME NEW S, NEW s \in Seq(S)
  PROVE  /\ Len(s) \in Nat /\ DOMAIN s = 1..Len(s) /\ \A i \in 1..Len(s) : s[i] \in S
         /\ s # <<>> <=> Len(s) > 0
  OBVIOUS

LEMMA EmptyFacts ==
  ASSUME NEW S PROVE <<>> \in Seq(S) /\ Len(<<>>) = 0 /\ DOMAIN <<>> = {}
  OBVIOUS

LEMMA TailFacts ==
  ASSUME NEW S, NEW s \in Seq(S), s # <<>>
  PROVE  /\ Tail(s) \in Seq(S) /\ Len(Tail(s)) = Len(s) - 1 /\ Len(s) \in Nat /\ Len(s) > 0
         /\ Head(s) = s[1] /\ Head(s) \in S
         /\ \A i \in 1..(Len(s) - 1) : Tail(s)[i] = s[i + 1]
  OBVIOUS

LEMMA AppendFacts ==
  ASSUME NEW S, NEW s \in Seq(S), NEW e \in S
  PROVE  /\ Append(s, e) \in Seq(S) /\ Len(Append(s, e)) = Len(s) + 1
         /\ \A i \in 1..Len(s) : Append(s, e)[i] = s[i]
         /\ Append(s, e)[Len(s) + 1] = e
  OBVIOUS

LEMMA ConcatFacts ==
  ASSUME NEW S, NEW s \in Seq(S), NEW t \in Seq(S)
  PROVE  /\ s \o t \in Seq(S) /\ Len(s \o t) = Len(s) + Len(t)
         /\ \A i \in 1..Len(s) : (s \o t)[i] = s[i]
         /\ \A i \in 1..Len(t) : (s \o t)[Len(s) + i] = t[i]
  OBVIOUS

(* Drop takes away what is oldest, and all if there is not that much. *)
LEMMA DropFacts ==
  ASSUME NEW S, NEW q \in Seq(S), NEW n \in Nat
  PROVE  /\ Drop(q, n) \in Seq(S)
         /\ n <= Len(q) => Len(Drop(q, n)) = Len(q) - n
         /\ n >= Len(q) => Len(Drop(q, n)) = 0
         /\ \A i \in 1..Len(Drop(q, n)) : Drop(q, n)[i] = q[i + n]
  <1>1. Len(q) \in Nat /\ \A i \in 1..Len(q) : q[i] \in S
    BY SeqFacts
  <1>2. \A i \in (n + 1)..Len(q) : q[i] \in S
    BY <1>1
  <1>3. /\ SubSeq(q, n + 1, Len(q)) \in Seq(S)
        /\ Len(SubSeq(q, n + 1, Len(q))) = IF n + 1 <= Len(q) THEN Len(q) - (n + 1) + 1 ELSE 0
        /\ \A i \in 1..(Len(q) - (n + 1) + 1) : SubSeq(q, n + 1, Len(q))[i] = q[n + 1 + i - 1]
    BY <1>1, <1>2, SubSeqProperties
  <1> DEFINE d == SubSeq(q, n + 1, Len(q))
  <1> HIDE DEF d
  <1>4. /\ d \in Seq(S)
        /\ n <= Len(q) => Len(d) = Len(q) - n
        /\ n >= Len(q) => Len(d) = 0
        /\ \A i \in 1..Len(d) : d[i] = q[i + n]
    <2>1. /\ n <= Len(q) => Len(d) = Len(q) - n
          /\ n >= Len(q) => Len(d) = 0
      BY <1>1, <1>3 DEF d
    <2>2. ASSUME NEW i \in 1..Len(d) PROVE d[i] = q[i + n]
      <3>1. i \in 1..(Len(q) - (n + 1) + 1) /\ n + 1 + i - 1 = i + n
        BY <1>1, <2>1
      <3> QED
        BY <1>3, <3>1 DEF d
    <2> QED
      BY <1>3, <2>1, <2>2 DEF d
  <1> QED
    BY <1>4 DEF Drop, d

(* Newest keeps what is last. *)
LEMMA NewestFacts ==
  ASSUME NEW S, NEW q \in Seq(S), NEW n \in Nat
  PROVE  /\ Newest(q, n) \in Seq(S) /\ Len(Newest(q, n)) <= n /\ Excess(q, n) \in Nat
         /\ n > 0 /\ q # <<>> => /\ Len(Newest(q, n)) > 0
                                 /\ Newest(q, n)[Len(Newest(q, n))] = q[Len(q)]
  <1>1. Len(q) \in Nat /\ (q # <<>> => Len(q) > 0)
    BY SeqFacts
  <1> DEFINE e == Excess(q, n)
  <1>2. e \in Nat /\ e <= Len(q) /\ Len(q) - e <= n /\ (n > 0 /\ Len(q) > 0 => e < Len(q))
    BY <1>1 DEF Excess
  <1> HIDE DEF e
  <1>3. /\ Drop(q, e) \in Seq(S) /\ Len(Drop(q, e)) = Len(q) - e
        /\ \A i \in 1..Len(Drop(q, e)) : Drop(q, e)[i] = q[i + e]
    BY <1>2, DropFacts
  <1> DEFINE d == Drop(q, e)
  <1> HIDE DEF d
  <1>4. d \in Seq(S) /\ Len(d) <= n
    BY <1>1, <1>2, <1>3 DEF d
  <1>5. ASSUME n > 0, q # <<>> PROVE Len(d) > 0 /\ d[Len(d)] = q[Len(q)]
    <2>1. Len(d) > 0 /\ Len(d) \in 1..Len(d) /\ Len(d) + e = Len(q)
      BY <1>1, <1>2, <1>3, <1>5 DEF d
    <2> QED
      BY <1>3, <2>1 DEF d
  <1> QED
    BY <1>2, <1>4, <1>5 DEF Newest, d, e

-----------------------------------------------------------------------------
(* Types.  A message that came while the cache was being loaded is one that *)
(* was logged or played back.                                               *)
Orders == {o \in Calls : o.op = "add" => o.msg \in Messages}
Types ==
    /\ phase \in {"form", "connecting", "chat", "replay"}
    /\ trusted \in BOOLEAN /\ saved \in BOOLEAN /\ strays \in BOOLEAN
    /\ idb \in BOOLEAN /\ bare \in BOOLEAN /\ late \in BOOLEAN
    /\ logMax \in Limits /\ logmax \in Limits
    /\ chan \in Seq(Messages) \cup {NoChannel}
    /\ cache \in Seq(Messages) /\ db \in Seq(Messages)
    /\ \E n \in Limits : Len(cache) <= n
    /\ calls \in Seq(Orders) /\ txs \in Seq(Orders)
    /\ logged \in 0..MaxLogged /\ played \in 0..MaxPlayed
    /\ slips \in 0..(MaxLogged + MaxPlayed)
    /\ mishaps \subseteq {"overtaken", "clear", "trim", "lowered"}
Typed == Types /\ slips <= logged + played

LEMMA LimitFacts == \A n \in Limits : n \in Nat /\ n > 0
  BY ChatLogAssumption

LEMMA OpFacts ==
  ASSUME NEW o \in {"add", "stray", "trim", "clear", "preload"},
         NEW m \in {0} \cup Messages, o = "add" => m \in Messages, NEW n \in Nat
  PROVE  Op(o, m, n) \in Orders /\ Op(o, m, n).op = o /\ Op(o, m, n).msg = m
         /\ Op(o, m, n).excess = n
  <1>1. /\ Op(o, m, n).op = o /\ Op(o, m, n).msg = m /\ Op(o, m, n).excess = n
        /\ Op(o, m, n) \in Calls
    BY DEF Op, Calls
  <1> QED
    BY <1>1 DEF Orders

LEMMA GetDBTypes ==
  ASSUME calls \in Seq(Orders), txs \in Seq(Orders), idb \in BOOLEAN, NEW o \in Orders, getDB(o)
  PROVE  calls' \in Seq(Orders) /\ txs' \in Seq(Orders) /\ idb' \in BOOLEAN
  <1>1. Append(calls, o) \in Seq(Orders) /\ Append(txs, o) \in Seq(Orders)
    BY AppendFacts
  <1> QED
    BY <1>1 DEF getDB

LEMMA NoteTypes ==
  ASSUME mishaps \subseteq {"overtaken", "clear", "trim", "lowered"},
         NEW S \in SUBSET {"overtaken", "clear", "trim", "lowered"}, Note(S)
  PROVE  mishaps' \subseteq {"overtaken", "clear", "trim", "lowered"}
  BY DEF Note

LEMMA ClearTypes ==
  ASSUME Types, clearLocalData
  PROVE  /\ calls' \in Seq(Orders) /\ txs' \in Seq(Orders) /\ idb' \in BOOLEAN
         /\ mishaps' \subseteq {"overtaken", "clear", "trim", "lowered"}
         /\ cache' = <<>> /\ saved' = FALSE /\ logmax' = Default
  <1>1. Op("clear", 0, 0) \in Orders
    BY OpFacts
  <1>2. Overtaking \in SUBSET {"overtaken", "clear", "trim", "lowered"}
    BY DEF Overtaking
  <1> QED
    BY <1>1, <1>2, GetDBTypes, NoteTypes DEF clearLocalData, Types

LEMMA PersistTypes ==
  ASSUME Types, NEW m \in Messages, persistMsg(m)
  PROVE  /\ calls' \in Seq(Orders) /\ txs' \in Seq(Orders) /\ idb' \in BOOLEAN
         /\ mishaps' \subseteq {"overtaken", "clear", "trim", "lowered"}
         /\ cache' \in Seq(Messages) /\ (\E n \in Limits : Len(cache') <= n)
         /\ slips' \in {slips, slips + 1}
  <1>1. CASE ~trusted
    BY <1>1 DEF persistMsg, Types
  <1>2. CASE trusted
    <2> DEFINE full == Append(cache, m)
               e == IF Known THEN Excess(full, logMax) ELSE 0
    <2>1. full \in Seq(Messages) /\ logMax \in Nat /\ logMax \in Limits
      BY AppendFacts, LimitFacts DEF Types
    <2> HIDE DEF full
    <2>2. /\ Newest(full, logMax) \in Seq(Messages) /\ Len(Newest(full, logMax)) <= logMax
          /\ Excess(full, logMax) \in Nat
      BY <2>1, NewestFacts
    <2>3. Op("add", m, e) \in Orders
      BY <2>2, OpFacts
    <2> HIDE DEF e
    <2>4. /\ cache' = (IF Known THEN Newest(full, logMax) ELSE cache)
          /\ getDB(Op("add", m, e))
          /\ Note(Overtaking) /\ slips' \in {slips, slips + 1}
      BY <1>2 DEF persistMsg, full, e
    <2>5. calls' \in Seq(Orders) /\ txs' \in Seq(Orders) /\ idb' \in BOOLEAN
      BY <2>3, <2>4, GetDBTypes DEF Types
    <2>6. mishaps' \subseteq {"overtaken", "clear", "trim", "lowered"}
      <3>1. Overtaking \in SUBSET {"overtaken", "clear", "trim", "lowered"}
        BY DEF Overtaking
      <3> QED
        BY <2>4, <3>1, NoteTypes DEF Types
    <2>7. cache' \in Seq(Messages) /\ (\E n \in Limits : Len(cache') <= n)
      BY <2>1, <2>2, <2>4 DEF Types
    <2> QED
      BY <2>4, <2>5, <2>6, <2>7
  <1> QED
    BY <1>1, <1>2

LEMMA EnsureTypes ==
  ASSUME Types
  PROVE  ensureChannel \in Seq(Messages)
         /\ \A m \in Messages : Append(ensureChannel, m) \in Seq(Messages)
  <1>1. ensureChannel \in Seq(Messages)
    BY EmptyFacts DEF Types, ensureChannel
  <1> QED
    BY <1>1, AppendFacts

LEMMA InitTyped == Init => Typed
  <1> SUFFICES ASSUME Init PROVE Typed
    OBVIOUS
  <1>1. /\ <<>> \in Seq(Messages) /\ Len(<<>>) = 0 /\ <<>> \in Seq(Orders)
        /\ Default \in Limits /\ Default \in Nat /\ 0 <= Default
        /\ MaxLogged \in Nat /\ MaxPlayed \in Nat
    BY EmptyFacts, ChatLogAssumption, LimitFacts
  <1>2. 0 \in 0..MaxLogged /\ 0 \in 0..MaxPlayed /\ 0 \in 0..(MaxLogged + MaxPlayed)
    BY <1>1
  <1>3. cache = <<>> /\ \E n \in Limits : Len(cache) <= n
    BY <1>1 DEF Init
  <1>4. Types
    BY <1>1, <1>2, <1>3 DEF Init, Types
  <1> QED
    BY <1>4 DEF Init, Typed

LEMMA MessageTyped == Typed /\ Message => Typed'
  <1> SUFFICES ASSUME Typed, Message PROVE Typed'
    OBVIOUS
  <1>1. logged + 1 \in Messages /\ logged' = logged + 1 /\ logged' \in 0..MaxLogged
        /\ logged \in Nat /\ played \in Nat /\ slips \in Nat
        /\ played \in 0..MaxPlayed /\ MaxPlayed \in Nat /\ MaxLogged \in Nat
    BY ChatLogAssumption DEF Message, Typed, Types, Messages
  <1>2. Types /\ persistMsg(logged + 1)
    BY DEF Message, Typed
  <1>3. /\ calls' \in Seq(Orders) /\ txs' \in Seq(Orders) /\ idb' \in BOOLEAN
        /\ mishaps' \subseteq {"overtaken", "clear", "trim", "lowered"}
        /\ cache' \in Seq(Messages) /\ (\E n \in Limits : Len(cache') <= n)
        /\ slips' \in {slips, slips + 1}
    BY <1>1, <1>2, PersistTypes
  <1>4. chan' \in Seq(Messages)
    BY <1>1, <1>2, EnsureTypes DEF Message
  <1>5. bare' \in BOOLEAN
    BY DEF Message, NoteBare, Loading, Waiting, Typed, Types
  <1>6. slips' <= logged' + played' /\ slips' \in 0..(MaxLogged + MaxPlayed) /\ played' = played
    BY <1>1, <1>3 DEF Typed, Message
  <1> QED
    BY <1>1, <1>2, <1>3, <1>4, <1>5, <1>6 DEF Typed, Types, Message

LEMMA PlaybackTyped == ASSUME NEW m \in Messages, Typed, Playback(m) PROVE Typed'
  <1>1. /\ logged \in Nat /\ played \in Nat /\ slips \in Nat /\ logged \in 0..MaxLogged
        /\ played \in 0..MaxPlayed /\ MaxPlayed \in Nat /\ MaxLogged \in Nat
    BY ChatLogAssumption DEF Typed, Types
  <1>2. bare' \in BOOLEAN /\ Types
    BY DEF Playback, NoteBare, Loading, Waiting, Typed, Types
  <1>3. CASE isDuplicateMsg(m)
    <2>1. chan' \in Seq(Messages)
      BY <1>2, <1>3, EnsureTypes DEF Playback
    <2> QED
      BY <1>2, <1>3, <2>1 DEF Playback, Typed, Types
  <1>4. CASE ~isDuplicateMsg(m)
    <2>1. /\ calls' \in Seq(Orders) /\ txs' \in Seq(Orders) /\ idb' \in BOOLEAN
          /\ mishaps' \subseteq {"overtaken", "clear", "trim", "lowered"}
          /\ cache' \in Seq(Messages) /\ (\E n \in Limits : Len(cache') <= n)
          /\ slips' \in {slips, slips + 1}
      BY <1>2, <1>4, PersistTypes DEF Playback
    <2>2. chan' \in Seq(Messages)
      BY <1>2, <1>4, EnsureTypes DEF Playback
    <2>3. played' = played + 1 /\ played' \in 0..MaxPlayed /\ logged' = logged
      BY <1>1, <1>4 DEF Playback
    <2>4. slips' <= logged' + played' /\ slips' \in 0..(MaxLogged + MaxPlayed)
      BY <1>1, <2>1, <2>3 DEF Typed
    <2>5. late' \in BOOLEAN
      <3>1. late' = (late \/ bare' \/ slips' > 0 \/ \E i \in DOMAIN cache : cache[i] > m)
        BY <1>4 DEF Playback
      <3>2. late \in BOOLEAN /\ bare' \in BOOLEAN
        BY <1>2 DEF Types
      <3> DEFINE A == slips' > 0 \/ \E i \in DOMAIN cache : cache[i] > m
      <3>3. CASE A
        BY <3>1, <3>3
      <3>4. CASE ~A
        BY <3>1, <3>2, <3>4
      <3> QED
        BY <3>3, <3>4
    <2> QED
      BY <1>2, <2>1, <2>2, <2>3, <2>4, <2>5 DEF Playback, Typed, Types
  <1> QED
    BY <1>3, <1>4

LEMMA PageTyped == Typed /\ (Joined \/ Left \/ Submit \/ Reload) => Typed'
  <1> SUFFICES ASSUME Typed, Joined \/ Left \/ Submit \/ Reload PROVE Typed'
    OBVIOUS
  <1> USE DEF Typed, Types
  <1>1. CASE Joined
    <2>1. chan' \in Seq(Messages)
      BY <1>1, EnsureTypes DEF Joined
    <2>2. bare' \in BOOLEAN /\ saved' \in BOOLEAN
      BY <1>1 DEF Joined, NoteBare, Loading, Waiting, saveSrv
    <2> QED
      BY <1>1, <2>1, <2>2 DEF Joined, disk
  <1>2. CASE Left
    BY <1>2 DEF Left, disk
  <1>3. CASE Submit
    BY <1>3 DEF Submit, disk
  <1>4. CASE Reload
    <2> DEFINE S == {x \in {"clear", "trim"} : Waiting(x)} \cup {x \in {"lowered"} : logmax < logMax}
    <2>1. S \in SUBSET {"overtaken", "clear", "trim", "lowered"} /\ Note(S)
      BY <1>4 DEF Reload
    <2>2. mishaps' \subseteq {"overtaken", "clear", "trim", "lowered"}
      BY <2>1, NoteTypes
    <2>3. /\ calls' = <<>> /\ txs' = <<>> /\ cache' = <<>> /\ Len(<<>>) = 0
          /\ <<>> \in Seq(Orders) /\ <<>> \in Seq(Messages)
      BY <1>4, EmptyFacts DEF Reload
    <2>4. logMax' \in Limits /\ \E n \in Limits : Len(cache') <= n
      BY <1>4, <2>3, LimitFacts DEF Reload
    <2>5. phase' \in {"form", "connecting", "chat", "replay"}
      BY <1>4 DEF Reload
    <2> QED
      BY <1>4, <2>2, <2>3, <2>4, <2>5 DEF Reload
  <1> QED
    BY <1>1, <1>2, <1>3, <1>4

LEMMA SetLogMaxTyped == ASSUME NEW n \in Limits, Typed, SetLogMax(n) PROVE Typed'
  <1> USE DEF Typed
  <1>1. Types /\ n \in Nat /\ logMax' = n /\ logmax' = n
    BY LimitFacts DEF SetLogMax
  <1>2. /\ Newest(cache, n) \in Seq(Messages) /\ Len(Newest(cache, n)) <= n
        /\ Excess(cache, n) \in Nat
    BY <1>1, NewestFacts DEF Types
  <1>3. mishaps' \subseteq {"overtaken", "clear", "trim", "lowered"}
    <2> DEFINE S == Overtaking \cup {x \in {"lowered"} : n < logMax /\ Waiting("preload")}
    <2>1. S \in SUBSET {"overtaken", "clear", "trim", "lowered"} /\ Note(S)
      BY DEF Overtaking, SetLogMax
    <2> QED
      BY <2>1, NoteTypes DEF Types
  <1>4. /\ calls' \in Seq(Orders) /\ txs' \in Seq(Orders) /\ idb' \in BOOLEAN
        /\ cache' \in Seq(Messages) /\ (\E k \in Limits : Len(cache') <= k)
    <2>1. CASE idb /\ Len(cache) <= n
      BY <1>1, <2>1 DEF SetLogMax, trimAllCaches, Types
    <2>2. CASE ~(idb /\ Len(cache) <= n)
      <3> DEFINE e == IF idb THEN Excess(cache, n) ELSE 0
      <3>1. Op("trim", 0, e) \in Orders
        BY <1>2, OpFacts
      <3>2. getDB(Op("trim", 0, e)) /\ cache' = IF idb THEN Newest(cache, n) ELSE cache
        BY <1>1, <2>2 DEF SetLogMax, trimAllCaches
      <3> HIDE DEF e
      <3>3. calls' \in Seq(Orders) /\ txs' \in Seq(Orders) /\ idb' \in BOOLEAN
        BY <3>1, <3>2, GetDBTypes DEF Types
      <3> QED
        BY <1>2, <3>2, <3>3 DEF Types
    <2> QED
      BY <2>1, <2>2
  <1> QED
    BY <1>1, <1>3, <1>4 DEF SetLogMax, Types

LEMMA FormTyped == Typed /\ (Preload \/ Disconnect \/ SetTrusted) => Typed'
  <1> SUFFICES ASSUME Typed, Preload \/ Disconnect \/ SetTrusted PROVE Typed'
    OBVIOUS
  <1> USE DEF Typed
  <1>1. /\ <<>> \in Seq(Messages) /\ Len(<<>>) = 0 /\ Default \in Limits
        /\ \E n \in Limits : Len(<<>>) <= n
    BY EmptyFacts, ChatLogAssumption, LimitFacts
  <1>2. CASE Preload
    <2>1. Op("preload", 0, 0) \in Orders /\ Overtaking \in SUBSET {"overtaken"}
      BY OpFacts DEF Overtaking
    <2>2. calls' \in Seq(Orders) /\ txs' \in Seq(Orders) /\ idb' \in BOOLEAN
      BY <1>2, <2>1, GetDBTypes DEF Preload, Types
    <2>3. mishaps' \subseteq {"overtaken", "clear", "trim", "lowered"}
      BY <1>2, <2>1, NoteTypes DEF Preload, Types
    <2> QED
      BY <1>1, <1>2, <2>2, <2>3 DEF Preload, Types
  <1>3. CASE Disconnect
    <2>1. CASE trusted
      BY <1>3, <2>1 DEF Disconnect, Types
    <2>2. CASE ~trusted
      BY <1>1, <1>3, <2>2, ClearTypes DEF Disconnect, Types
    <2> QED
      BY <2>1, <2>2
  <1>4. CASE SetTrusted
    <2>1. CASE trusted
      BY <1>1, <1>4, <2>1, ClearTypes DEF SetTrusted, Types
    <2>2. CASE ~trusted
      BY <1>4, <2>2 DEF SetTrusted, Types
    <2> QED
      BY <2>1, <2>2
  <1> QED
    BY <1>2, <1>3, <1>4

LEMMA OpenedTyped == Typed /\ Opened => Typed'
  <1> SUFFICES ASSUME Typed, Opened PROVE Typed'
    OBVIOUS
  <1> USE DEF Typed
  <1> DEFINE o == Head(calls)
  <1>1. /\ calls \in Seq(Orders) /\ txs \in Seq(Orders) /\ calls # <<>> /\ cache \in Seq(Messages)
        /\ logMax \in Limits /\ logMax \in Nat
    BY LimitFacts DEF Opened, Types
  <1>2. Tail(calls) \in Seq(Orders) /\ o \in Orders
    BY <1>1, TailFacts
  <1>3. /\ Newest(cache, logMax) \in Seq(Messages) /\ Len(Newest(cache, logMax)) <= logMax
        /\ Excess(cache, logMax) \in Nat
    BY <1>1, NewestFacts
  <1>4. Op("trim", 0, Excess(cache, logMax)) \in Orders /\ Op("stray", 0, 0) \in Orders
    BY <1>3, OpFacts
  <1>5. /\ Append(txs, Op("trim", 0, Excess(cache, logMax))) \in Seq(Orders)
        /\ Append(txs, Op("stray", 0, 0)) \in Seq(Orders)
        /\ Append(txs, o) \in Seq(Orders)
    BY <1>1, <1>2, <1>4, AppendFacts
  <1>6. txs' \in Seq(Orders) /\ calls' \in Seq(Orders) /\ idb' = TRUE
    BY <1>1, <1>2, <1>5 DEF Opened
  <1>7. cache' \in Seq(Messages) /\ \E n \in Limits : Len(cache') <= n
    BY <1>1, <1>3 DEF Opened, Types
  <1> QED
    BY <1>6, <1>7 DEF Opened, Types

LEMMA RunTyped == Typed /\ Run => Typed'
  <1> SUFFICES ASSUME Typed, Run PROVE Typed'
    OBVIOUS
  <1> USE DEF Typed
  <1> DEFINE o == Head(txs)
  <1>1. /\ txs \in Seq(Orders) /\ txs # <<>> /\ cache \in Seq(Messages) /\ db \in Seq(Messages)
        /\ logMax \in Limits /\ logMax \in Nat
    BY LimitFacts DEF Run, Types
  <1>2. Tail(txs) \in Seq(Orders) /\ o \in Orders
    BY <1>1, TailFacts
  <1>3. o.excess \in Nat /\ (o.op = "add" => o.msg \in Messages)
    BY <1>2 DEF Orders, Calls
  <1>4. Newest(db, logMax) \in Seq(Messages) /\ Len(Newest(db, logMax)) <= logMax
    BY <1>1, NewestFacts
  <1>5. /\ txs' = Tail(txs)
        /\ o.op = "add" => db' = Drop(Append(db, o.msg), o.excess)
        /\ o.op = "trim" => db' = Drop(db, o.excess)
        /\ o.op = "clear" => db' = <<>>
        /\ o.op \notin {"add", "trim", "clear"} => db' = db
        /\ strays' = (o.op = "stray" \/ (strays /\ o.op # "clear"))
        /\ cache' = IF o.op = "preload" /\ db # <<>> THEN Newest(db, logMax) ELSE cache
        /\ chan' = IF o.op = "preload" /\ saved /\ chan = NoChannel THEN cache' ELSE chan
        /\ bare' = IF chan = NoChannel THEN FALSE ELSE bare
    BY DEF Run
  <1> HIDE DEF o
  <1>6. db' \in Seq(Messages)
    <2>1. o.op = "add" => /\ Append(db, o.msg) \in Seq(Messages)
                          /\ Drop(Append(db, o.msg), o.excess) \in Seq(Messages)
      BY <1>1, <1>3, AppendFacts, DropFacts
    <2>2. Drop(db, o.excess) \in Seq(Messages) /\ <<>> \in Seq(Messages)
      BY <1>1, <1>3, DropFacts, EmptyFacts
    <2> QED
      BY <1>1, <1>5, <2>1, <2>2
  <1>7. cache' \in Seq(Messages) /\ \E n \in Limits : Len(cache') <= n
    BY <1>1, <1>4, <1>5 DEF Types
  <1>8. chan' \in Seq(Messages) \cup {NoChannel} /\ bare' \in BOOLEAN
    BY <1>5, <1>7 DEF Types
  <1>9. strays' \in BOOLEAN
    BY <1>5 DEF Types
  <1> QED
    BY <1>1, <1>2, <1>5, <1>6, <1>7, <1>8, <1>9 DEF Run, Types

LEMMA NextTyped == Typed /\ [Next]_vars => Typed'
  <1> SUFFICES ASSUME Typed, [Next]_vars PROVE Typed'
    OBVIOUS
  <1>1. CASE UNCHANGED vars
    BY <1>1 DEF vars, page, disk, Typed, Types
  <1>2. CASE Next
    <2>1. ASSUME NEW n \in Limits, SetLogMax(n) PROVE Typed'
      BY <2>1, SetLogMaxTyped
    <2>2. ASSUME NEW m \in 1..MaxLogged, Playback(m) PROVE Typed'
      BY <2>2, PlaybackTyped DEF Messages
    <2> QED
      BY <1>2, <2>1, <2>2, MessageTyped, PageTyped, FormTyped, OpenedTyped, RunTyped DEF Next
  <1> QED
    BY <1>1, <1>2

LEMMA TypedIsTypes == Typed => TypeOK
  <1>1. \A s \in Seq(Orders) : s \in Seq(Calls)
    BY DEF Orders
  <1> QED
    BY <1>1 DEF Typed, Types, TypeOK

-----------------------------------------------------------------------------
(* What is under way: transactions first, then callers that wait.  If none  *)
(* has been overtaken this is the order in which they were asked for and in *)
(* which they will run.                                                     *)
Queue == txs \o calls

LEMMA QueueFacts ==
  ASSUME Typed
  PROVE  /\ Queue \in Seq(Orders) /\ Len(Queue) = Len(txs) + Len(calls)
         /\ Len(txs) \in Nat /\ Len(calls) \in Nat
         /\ \A i \in 1..Len(txs) : Queue[i] = txs[i]
         /\ \A i \in 1..Len(calls) : Queue[Len(txs) + i] = calls[i]
  BY ConcatFacts, SeqFacts DEF Queue, Typed, Types

LEMMA QueueFactsNext ==
  ASSUME Typed'
  PROVE  /\ Queue' \in Seq(Orders) /\ Len(Queue') = Len(txs') + Len(calls')
         /\ Len(txs') \in Nat /\ Len(calls') \in Nat
         /\ \A i \in 1..Len(txs') : Queue'[i] = txs'[i]
         /\ \A i \in 1..Len(calls') : Queue'[Len(txs') + i] = calls'[i]
  BY ConcatFacts, SeqFacts DEF Queue, Typed, Types

LEMMA QueueOps ==
  ASSUME NEW q \in Seq(Orders), NEW i \in 1..Len(q)
  PROVE  /\ q[i].op \in {"add", "stray", "trim", "clear", "preload"}
         /\ q[i].excess \in Nat /\ (q[i].op = "add" => q[i].msg \in Messages)
         /\ Len(q) \in Nat
  BY SeqFacts DEF Orders, Calls

Pushed(q, p, o) ==
    /\ p \in Seq(Orders) /\ Len(p) = Len(q) + 1
    /\ \A i \in 1..Len(q) : p[i] = q[i]
    /\ p[Len(q) + 1] = o

LEMMA Push ==
  ASSUME Typed, Typed', NEW o \in Orders, getDB(o), ~(idb /\ calls # <<>>)
  PROVE  Pushed(Queue, Queue', o)
  <1>1. txs \in Seq(Orders) /\ calls \in Seq(Orders)
    BY DEF Typed, Types
  <1> DEFINE q == Queue
             p == Queue'
  <1>2. /\ q \in Seq(Orders) /\ Len(q) = Len(txs) + Len(calls)
        /\ Len(txs) \in Nat /\ Len(calls) \in Nat
        /\ \A i \in 1..Len(txs) : q[i] = txs[i]
        /\ \A i \in 1..Len(calls) : q[Len(txs) + i] = calls[i]
    BY QueueFacts
  <1>3. /\ p \in Seq(Orders) /\ Len(p) = Len(txs') + Len(calls')
        /\ \A i \in 1..Len(txs') : p[i] = txs'[i]
        /\ \A i \in 1..Len(calls') : p[Len(txs') + i] = calls'[i]
    BY QueueFactsNext
  <1> HIDE DEF q, p
  <1>4. CASE idb
    <2>1. txs' = Append(txs, o) /\ calls' = calls /\ Len(calls) = 0
      BY <1>1, <1>4, SeqFacts DEF getDB
    <2>2. /\ Len(txs') = Len(txs) + 1 /\ \A i \in 1..Len(txs) : txs'[i] = txs[i]
          /\ txs'[Len(txs) + 1] = o
      BY <1>1, <2>1, AppendFacts
    <2>3. Len(q) = Len(txs) /\ Len(p) = Len(txs) + 1
      BY <1>2, <1>3, <2>1, <2>2
    <2>4. \A i \in 1..Len(q) : p[i] = q[i]
      BY <1>2, <1>3, <2>2, <2>3
    <2>5. p[Len(q) + 1] = o
      BY <1>2, <1>3, <2>2, <2>3
    <2> QED
      BY <1>3, <2>3, <2>4, <2>5 DEF Pushed, q, p
  <1>5. CASE ~idb
    <2>1. txs' = txs /\ calls' = Append(calls, o)
      BY <1>5 DEF getDB
    <2>2. /\ Len(calls') = Len(calls) + 1 /\ \A i \in 1..Len(calls) : calls'[i] = calls[i]
          /\ calls'[Len(calls) + 1] = o
      BY <1>1, <2>1, AppendFacts
    <2>3. Len(p) = Len(q) + 1
      BY <1>2, <1>3, <2>1, <2>2
    <2>4. ASSUME NEW i \in 1..Len(q) PROVE p[i] = q[i]
      <3>1. CASE i \in 1..Len(txs)
        BY <1>2, <1>3, <2>1, <3>1
      <3>2. CASE i \notin 1..Len(txs)
        <4>1. i - Len(txs) \in 1..Len(calls) /\ i = Len(txs) + (i - Len(txs))
              /\ i - Len(txs) \in 1..Len(calls')
          BY <1>2, <2>2, <3>2
        <4>2. q[i] = calls[i - Len(txs)] /\ p[i] = calls'[i - Len(txs)]
          BY <1>2, <1>3, <2>1, <4>1
        <4> QED
          BY <2>2, <4>1, <4>2
      <3> QED
        BY <3>1, <3>2
    <2>5. p[Len(q) + 1] = o
      <3>1. Len(calls) + 1 \in 1..Len(calls') /\ Len(q) + 1 = Len(txs') + (Len(calls) + 1)
        BY <1>2, <2>1, <2>2
      <3> QED
        BY <1>3, <2>2, <3>1
    <2> QED
      BY <1>3, <2>3, <2>4, <2>5 DEF Pushed, q, p
  <1> QED
    BY <1>4, <1>5

(* When the oldest request is answered its caller's transaction follows the *)
(* others: the n-th of the queue stays what it is, or is a trimming that    *)
(* learns what it has to cut or falls away, or a message that finds a page  *)
(* without a server.                                                        *)
Swapped(q, p, n) ==
    /\ Len(p) = Len(q)
    /\ \A i \in 1..Len(q) : i # n => p[i] = q[i]
    /\ \/ p[n] = q[n]
       \/ q[n].op = "trim" /\ p[n].op = "trim"
       \/ q[n].op = "add" /\ p[n].op = "stray" /\ ~Known
Skipped(q, p, n) ==
    /\ Len(p) = Len(q) - 1 /\ q[n].op = "trim"
    /\ \A i \in 1..(Len(q) - 1) : p[i] = IF i < n THEN q[i] ELSE q[i + 1]

LEMMA OpenedQueue ==
  ASSUME Typed, Typed', Opened
  PROVE  \E n \in 1..Len(Queue) :
            /\ Queue[n] = Head(calls)
            /\ Swapped(Queue, Queue', n) \/ Skipped(Queue, Queue', n)
            /\ Queue[n].op = "trim" /\ Len(cache) <= logMax => Skipped(Queue, Queue', n)
  <1> DEFINE q == Queue
             p == Queue'
             n == Len(txs) + 1
             o == Head(calls)
             t == Op("trim", 0, Excess(cache, logMax))
  <1>1. /\ calls \in Seq(Orders) /\ txs \in Seq(Orders) /\ calls # <<>>
        /\ txs' \in Seq(Orders) /\ calls' = Tail(calls) /\ cache \in Seq(Messages)
        /\ logMax \in Nat
    BY LimitFacts DEF Opened, Typed, Types
  <1>2. /\ Len(calls) \in Nat /\ Len(calls) > 0 /\ Len(calls') = Len(calls) - 1
        /\ o = calls[1] /\ o \in Orders
        /\ \A i \in 1..(Len(calls) - 1) : calls'[i] = calls[i + 1]
    BY <1>1, TailFacts
  <1>3. /\ q \in Seq(Orders) /\ Len(q) = Len(txs) + Len(calls)
        /\ Len(txs) \in Nat
        /\ \A i \in 1..Len(txs) : q[i] = txs[i]
        /\ \A i \in 1..Len(calls) : q[Len(txs) + i] = calls[i]
    BY QueueFacts
  <1>4. /\ p \in Seq(Orders) /\ Len(p) = Len(txs') + Len(calls')
        /\ \A i \in 1..Len(txs') : p[i] = txs'[i]
        /\ \A i \in 1..Len(calls') : p[Len(txs') + i] = calls'[i]
    BY QueueFactsNext
  <1>5. \/ txs' = Append(txs, o)
        \/ o.op = "trim" /\ (txs' = Append(txs, t) \/ txs' = txs)
        \/ o.op = "add" /\ ~Known /\ txs' = Append(txs, Op("stray", 0, 0))
    BY DEF Opened
  <1>6. /\ t \in Orders /\ t.op = "trim"
        /\ Op("stray", 0, 0) \in Orders /\ Op("stray", 0, 0).op = "stray"
    <2>1. Excess(cache, logMax) \in Nat
      BY <1>1, NewestFacts
    <2> QED
      BY <2>1, OpFacts
  <1>0. o.op = "trim" /\ Len(cache) <= logMax => txs' = txs
    <2>1. Len(cache) \in Nat
      BY <1>1, SeqFacts
    <2> QED
      BY <1>1, <2>1 DEF Opened
  <1> HIDE DEF q, p, o, t
  <1>7. n \in 1..Len(q) /\ q[n] = o
    <2>1. 1 \in 1..Len(calls) /\ n = Len(txs) + 1
      BY <1>2
    <2> QED
      BY <1>2, <1>3, <2>1
  <1>8. ASSUME NEW x \in Orders, txs' = Append(txs, x),
               \/ x = o
               \/ o.op = "trim" /\ x.op = "trim"
               \/ o.op = "add" /\ x.op = "stray" /\ ~Known
        PROVE  Swapped(q, p, n)
    <2>1. /\ Len(txs') = Len(txs) + 1 /\ \A i \in 1..Len(txs) : txs'[i] = txs[i]
          /\ txs'[Len(txs) + 1] = x
      BY <1>1, <1>8, AppendFacts
    <2>2. Len(p) = Len(q) /\ p[n] = x
      BY <1>2, <1>3, <1>4, <2>1
    <2>3. ASSUME NEW i \in 1..Len(q), i # n PROVE p[i] = q[i]
      <3>1. CASE i < n
        <4>1. i \in 1..Len(txs) /\ i \in 1..Len(txs')
          BY <1>3, <2>1, <3>1
        <4>2. q[i] = txs[i] /\ p[i] = txs'[i] /\ txs'[i] = txs[i]
          BY <1>3, <1>4, <2>1, <4>1
        <4> QED
          BY <4>2
      <3>2. CASE i > n
        <4>1. /\ i - n \in 1..(Len(calls) - 1) /\ i = Len(txs') + (i - n)
              /\ i - n + 1 \in 1..Len(calls) /\ i = Len(txs) + (i - n + 1)
          BY <1>2, <1>3, <2>1, <3>2
        <4>2. p[i] = calls'[i - n] /\ q[i] = calls[i - n + 1]
          BY <1>2, <1>3, <1>4, <4>1
        <4> QED
          BY <1>2, <4>1, <4>2
      <3> QED
        BY <1>3, <2>3, <3>1, <3>2
    <2> QED
      BY <1>7, <1>8, <2>2, <2>3 DEF Swapped
  <1>9. ASSUME o.op = "trim", txs' = txs PROVE Skipped(q, p, n)
    <2>1. Len(p) = Len(q) - 1
      BY <1>2, <1>3, <1>4, <1>9
    <2>2. ASSUME NEW i \in 1..(Len(q) - 1) PROVE p[i] = IF i < n THEN q[i] ELSE q[i + 1]
      <3>1. CASE i < n
        <4>1. i \in 1..Len(txs)
          BY <1>3, <2>2, <3>1
        <4>2. q[i] = txs[i] /\ p[i] = txs[i]
          BY <1>3, <1>4, <1>9, <4>1
        <4> QED
          BY <3>1, <4>2
      <3>2. CASE i >= n
        <4>1. PICK j \in 1..(Len(calls) - 1) : i = Len(txs) + j
          <5>1. i - Len(txs) \in 1..(Len(calls) - 1) /\ i = Len(txs) + (i - Len(txs))
            BY <1>2, <1>3, <1>9, <3>2
          <5> QED
            BY <5>1
        <4>2. j \in 1..Len(calls') /\ j + 1 \in 1..Len(calls) /\ i + 1 = Len(txs) + (j + 1)
          BY <1>2, <1>3, <4>1
        <4>3. p[i] = calls'[j]
          BY <1>4, <1>9, <4>1, <4>2
        <4>4. q[i + 1] = calls[j + 1]
          BY <1>3, <4>2
        <4> QED
          BY <1>2, <3>2, <4>1, <4>3, <4>4
      <3> QED
        BY <1>3, <2>2, <3>1, <3>2
    <2> QED
      BY <1>7, <1>9, <2>1, <2>2 DEF Skipped
  <1>10. Swapped(q, p, n) \/ Skipped(q, p, n)
    <2>1. txs' = Append(txs, o) => Swapped(q, p, n)
      BY <1>2, <1>8
    <2>2. o.op = "trim" /\ txs' = Append(txs, t) => Swapped(q, p, n)
      BY <1>6, <1>8
    <2>3. o.op = "add" /\ ~Known /\ txs' = Append(txs, Op("stray", 0, 0)) => Swapped(q, p, n)
      BY <1>6, <1>8
    <2> QED
      BY <1>5, <1>9, <2>1, <2>2, <2>3
  <1>11. q[n].op = "trim" /\ Len(cache) <= logMax => Skipped(q, p, n)
    BY <1>0, <1>7, <1>9
  <1> QED
    BY <1>7, <1>10, <1>11 DEF q, p, o

LEMMA RunQueue ==
  ASSUME Typed, Typed', Run
  PROVE  /\ Len(Queue) > 0 /\ Len(Queue') = Len(Queue) - 1 /\ Queue[1] = Head(txs)
         /\ \A i \in 1..Len(Queue') : Queue'[i] = Queue[i + 1]
  <1> DEFINE q == Queue
             p == Queue'
  <1>1. txs \in Seq(Orders) /\ txs # <<>> /\ txs' = Tail(txs) /\ calls' = calls
    BY DEF Run, Typed, Types
  <1>2. /\ Len(txs') = Len(txs) - 1 /\ Len(txs) > 0 /\ Head(txs) = txs[1]
        /\ \A i \in 1..(Len(txs) - 1) : txs'[i] = txs[i + 1]
    BY <1>1, TailFacts
  <1>3. /\ q \in Seq(Orders) /\ Len(q) = Len(txs) + Len(calls)
        /\ Len(txs) \in Nat /\ Len(calls) \in Nat
        /\ \A i \in 1..Len(txs) : q[i] = txs[i]
        /\ \A i \in 1..Len(calls) : q[Len(txs) + i] = calls[i]
    BY QueueFacts
  <1>4. /\ p \in Seq(Orders) /\ Len(p) = Len(txs') + Len(calls')
        /\ \A i \in 1..Len(txs') : p[i] = txs'[i]
        /\ \A i \in 1..Len(calls') : p[Len(txs') + i] = calls'[i]
    BY QueueFactsNext
  <1> HIDE DEF q, p
  <1>5. Len(q) > 0 /\ Len(p) = Len(q) - 1 /\ q[1] = Head(txs)
    BY <1>1, <1>2, <1>3, <1>4
  <1>6. ASSUME NEW i \in 1..Len(p) PROVE p[i] = q[i + 1]
    <2>1. CASE i < Len(txs)
      <3>1. i \in 1..Len(txs') /\ i \in 1..(Len(txs) - 1) /\ i + 1 \in 1..Len(txs)
        BY <1>2, <1>3, <1>5, <2>1
      <3> QED
        BY <1>2, <1>3, <1>4, <3>1
    <2>2. CASE i >= Len(txs)
      <3>1. /\ i - Len(txs') \in 1..Len(calls) /\ i = Len(txs') + (i - Len(txs'))
            /\ i + 1 = Len(txs) + (i - Len(txs'))
        BY <1>1, <1>2, <1>3, <1>5, <2>2
      <3>2. p[i] = calls[i - Len(txs')] /\ q[i + 1] = calls[i - Len(txs')]
        BY <1>1, <1>3, <1>4, <3>1
      <3> QED
        BY <3>2
    <2> QED
      BY <1>3, <2>1, <2>2
  <1> QED
    BY <1>5, <1>6 DEF q, p

(* Waiting, of the queue as a whole. *)
Waits(q, o) == \E i \in 1..Len(q) : q[i].op = o
WaitsIn(c, t, o) == (\E i \in DOMAIN c : c[i].op = o) \/ (\E i \in DOMAIN t : t[i].op = o)

LEMMA WaitingFacts ==
  ASSUME NEW t \in Seq(Orders), NEW c \in Seq(Orders), NEW o
  PROVE  (WaitsIn(c, t, o) => Waits(t \o c, o)) /\ (Waits(t \o c, o) => WaitsIn(c, t, o))
  <1> DEFINE q == t \o c
  <1>1. /\ Len(q) = Len(t) + Len(c) /\ Len(t) \in Nat /\ Len(c) \in Nat
        /\ \A i \in 1..Len(t) : q[i] = t[i]
        /\ \A i \in 1..Len(c) : q[Len(t) + i] = c[i]
        /\ DOMAIN t = 1..Len(t) /\ DOMAIN c = 1..Len(c)
    BY ConcatFacts, SeqFacts
  <1> HIDE DEF q
  <1>2. ASSUME NEW i \in 1..Len(t), t[i].op = o PROVE \E j \in 1..Len(q) : q[j].op = o
    BY <1>1, <1>2
  <1>3. ASSUME NEW i \in 1..Len(c), c[i].op = o PROVE \E j \in 1..Len(q) : q[j].op = o
    <2>1. Len(t) + i \in 1..Len(q) /\ q[Len(t) + i].op = o
      BY <1>1, <1>3
    <2> QED
      BY <2>1
  <1>4. ASSUME NEW j \in 1..Len(q), q[j].op = o
        PROVE  (\E i \in 1..Len(c) : c[i].op = o) \/ (\E i \in 1..Len(t) : t[i].op = o)
    <2>1. CASE j \in 1..Len(t)
      BY <1>1, <1>4, <2>1
    <2>2. CASE j \notin 1..Len(t)
      <3>1. j - Len(t) \in 1..Len(c) /\ j = Len(t) + (j - Len(t))
        BY <1>1, <2>2
      <3>2. q[j] = c[j - Len(t)]
        BY <1>1, <3>1
      <3> QED
        BY <1>4, <3>1, <3>2
    <2> QED
      BY <2>1, <2>2
  <1> QED
    BY <1>1, <1>2, <1>3, <1>4 DEF q, Waits, WaitsIn

LEMMA WaitsNow ==
  ASSUME Typed, NEW o
  PROVE  (Waiting(o) => Waits(Queue, o)) /\ (Waits(Queue, o) => Waiting(o))
  <1>1. txs \in Seq(Orders) /\ calls \in Seq(Orders)
    BY DEF Typed, Types
  <1>2. /\ WaitsIn(calls, txs, o) => Waits(txs \o calls, o)
        /\ Waits(txs \o calls, o) => WaitsIn(calls, txs, o)
    BY <1>1, WaitingFacts
  <1> QED
    BY <1>2 DEF Queue, Waiting, WaitsIn

LEMMA WaitsNext ==
  ASSUME Typed', NEW o
  PROVE  (Waiting(o)' => Waits(Queue', o)) /\ (Waits(Queue', o) => Waiting(o)')
  <1>1. txs' \in Seq(Orders) /\ calls' \in Seq(Orders)
    BY DEF Typed, Types
  <1>2. /\ WaitsIn(calls', txs', o) => Waits(txs' \o calls', o)
        /\ Waits(txs' \o calls', o) => WaitsIn(calls', txs', o)
    BY <1>1, WaitingFacts
  <1> QED
    BY <1>2 DEF Queue, Waiting, WaitsIn

-----------------------------------------------------------------------------
(* InOrder.  The rows that are there, d, and those that the queue q will    *)
(* add come in the order of the messages.                                   *)
Adds(q) == {q[i].msg : i \in {j \in 1..Len(q) : q[j].op = "add"}}
Rows(d, q) == {d[i] : i \in 1..Len(d)} \cup Adds(q)
Rising(d, q) ==
    /\ \A i, j \in 1..Len(d) : i < j => d[i] < d[j]
    /\ \A i \in 1..Len(d) : \A r \in Adds(q) : d[i] < r
    /\ \A i, j \in 1..Len(q) : i < j /\ q[i].op = "add" /\ q[j].op = "add" => q[i].msg < q[j].msg
Top(t, d, q) == t \in Rows(d, q) /\ \A r \in Rows(d, q) : r <= t

(* No message is added behind a preload that has not run. *)
NoneBehind(q) ==
    \A i, j \in 1..Len(q) : i < j /\ q[i].op = "preload" => q[j].op # "add"

LEMMA PushOther ==
  ASSUME NEW d, NEW q \in Seq(Orders), NEW p, NEW o, Pushed(q, p, o), o.op # "add"
  PROVE  /\ Adds(p) = Adds(q) /\ Rows(d, p) = Rows(d, q)
         /\ Rising(d, q) => Rising(d, p)
         /\ NoneBehind(q) => NoneBehind(p)
         /\ Waits(q, "preload") => Waits(p, "preload")
         /\ o.op = "preload" => Waits(p, "preload")
  <1>1. /\ Len(q) \in Nat /\ Len(p) = Len(q) + 1 /\ p[Len(q) + 1].op # "add"
        /\ \A i \in 1..Len(q) : i \in 1..Len(p) /\ p[i] = q[i]
        /\ \A i \in 1..Len(p) : i \in 1..Len(q) \/ i = Len(q) + 1
    BY SeqFacts DEF Pushed
  <1>2. Adds(p) = Adds(q)
    BY <1>1 DEF Adds
  <1>3. Rising(d, q) => Rising(d, p)
    BY <1>1, <1>2 DEF Rising
  <1>4. NoneBehind(q) => NoneBehind(p)
    BY <1>1 DEF NoneBehind
  <1>5. /\ Waits(q, "preload") => Waits(p, "preload")
        /\ o.op = "preload" => Waits(p, "preload")
    <2>1. Len(q) + 1 \in 1..Len(p) /\ p[Len(q) + 1] = o
      BY <1>1 DEF Pushed
    <2> QED
      BY <1>1, <2>1 DEF Waits
  <1> QED
    BY <1>2, <1>3, <1>4, <1>5 DEF Rows

LEMMA PushAdd ==
  ASSUME NEW d, NEW q \in Seq(Orders), NEW p, NEW o, Pushed(q, p, o), o.op = "add"
  PROVE  /\ Adds(p) = Adds(q) \cup {o.msg} /\ Rows(d, p) = Rows(d, q) \cup {o.msg}
         /\ Rising(d, q) /\ (\A r \in Rows(d, q) : r < o.msg) => Rising(d, p)
         /\ ~Waits(q, "preload") => NoneBehind(p)
  <1>1. /\ Len(q) \in Nat /\ Len(p) = Len(q) + 1 /\ p[Len(q) + 1] = o
        /\ Len(q) + 1 \in 1..Len(p)
        /\ \A i \in 1..Len(q) : i \in 1..Len(p) /\ p[i] = q[i]
        /\ \A i \in 1..Len(p) : i \in 1..Len(q) \/ i = Len(q) + 1
    BY SeqFacts DEF Pushed
  <1>2. Adds(p) = Adds(q) \cup {o.msg}
    BY <1>1 DEF Adds
  <1>3. ASSUME Rising(d, q), \A r \in Rows(d, q) : r < o.msg PROVE Rising(d, p)
    <2>1. \A i \in 1..Len(d) : \A r \in Adds(p) : d[i] < r
      BY <1>2, <1>3 DEF Rising, Rows
    <2>2. ASSUME NEW i \in 1..Len(p), NEW j \in 1..Len(p), i < j, p[i].op = "add", p[j].op = "add"
          PROVE  p[i].msg < p[j].msg
      <3>1. CASE j \in 1..Len(q)
        BY <1>1, <1>3, <2>2, <3>1 DEF Rising
      <3>2. CASE j = Len(q) + 1
        <4>1. i \in 1..Len(q) /\ p[i] = q[i] /\ p[j] = o
          BY <1>1, <2>2, <3>2
        <4>2. q[i].msg \in Rows(d, q)
          BY <2>2, <4>1 DEF Rows, Adds
        <4> QED
          BY <1>3, <4>1, <4>2
      <3> QED
        BY <1>1, <2>2, <3>1, <3>2
    <2> QED
      BY <1>3, <2>1, <2>2 DEF Rising
  <1>4. ~Waits(q, "preload") => NoneBehind(p)
    BY <1>1 DEF NoneBehind, Waits
  <1> QED
    BY <1>2, <1>3, <1>4 DEF Rows

(* A queue q of which p keeps the order and the ops, but for trimmings, and *)
(* the messages; k says where in q an element of p is from.                 *)
LEMMA SwapOrder ==
  ASSUME NEW d, NEW q \in Seq(Orders), NEW p, NEW n \in 1..Len(q), Swapped(q, p, n)
  PROVE  /\ Adds(p) \subseteq Adds(q)
         /\ Known \/ Adds(q) = {} => Adds(p) = Adds(q)
         /\ Rising(d, q) => Rising(d, p)
         /\ NoneBehind(q) => NoneBehind(p)
         /\ Waits(q, "preload") => Waits(p, "preload")
  <1>1. /\ Len(p) = Len(q)
        /\ \A i \in 1..Len(q) : p[i] = q[i] \/ (i = n /\ p[i].op \in {"trim", "stray"})
        /\ \A i \in 1..Len(q) : p[i] = q[i] \/ (q[i].op = "trim" /\ p[i].op = "trim")
                                \/ (q[i].op = "add" /\ p[i].op = "stray" /\ ~Known)
    BY DEF Swapped
  <1>2. Adds(p) \subseteq Adds(q)
    BY <1>1 DEF Adds
  <1>3. ASSUME Known \/ Adds(q) = {} PROVE Adds(q) \subseteq Adds(p)
    <2> SUFFICES ASSUME NEW i \in 1..Len(q), q[i].op = "add" PROVE q[i].msg \in Adds(p)
      BY DEF Adds
    <2>1. q[i].msg \in Adds(q)
      BY DEF Adds
    <2>2. p[i] = q[i]
      BY <1>1, <1>3, <2>1
    <2> QED
      BY <1>1, <2>2 DEF Adds
  <1>4. Rising(d, q) => Rising(d, p)
    BY <1>1, <1>2 DEF Rising
  <1>5. NoneBehind(q) => NoneBehind(p)
    BY <1>1 DEF NoneBehind
  <1>6. Waits(q, "preload") => Waits(p, "preload")
    BY <1>1 DEF Waits
  <1> QED
    BY <1>2, <1>3, <1>4, <1>5, <1>6

LEMMA SkipOrder ==
  ASSUME NEW d, NEW q \in Seq(Orders), NEW p, NEW n \in 1..Len(q), Skipped(q, p, n)
  PROVE  /\ Adds(p) = Adds(q)
         /\ Rising(d, q) => Rising(d, p)
         /\ NoneBehind(q) => NoneBehind(p)
         /\ Waits(q, "preload") => Waits(p, "preload")
  <1> DEFINE K(i) == IF i < n THEN i ELSE i + 1
             J(i) == IF i < n THEN i ELSE i - 1
  <1>1. Len(q) \in Nat /\ Len(p) = Len(q) - 1 /\ q[n].op = "trim"
    BY SeqFacts DEF Skipped
  <1>2. \A i \in 1..Len(p) : K(i) \in 1..Len(q) /\ p[i] = q[K(i)]
    BY <1>1 DEF Skipped
  <1>3. \A i, j \in 1..Len(p) : i < j => K(i) < K(j)
    BY <1>1
  <1>4. \A i \in 1..Len(q) : q[i].op # "trim" => J(i) \in 1..Len(p) /\ p[J(i)] = q[i]
    <2> SUFFICES ASSUME NEW i \in 1..Len(q), q[i].op # "trim"
                 PROVE  J(i) \in 1..Len(p) /\ p[J(i)] = q[i]
      OBVIOUS
    <2>1. i # n
      BY <1>1
    <2>2. J(i) \in 1..Len(p) /\ K(J(i)) = i
      BY <1>1, <2>1
    <2> QED
      BY <1>2, <2>2
  <1> HIDE DEF K, J
  <1>5. Adds(p) \subseteq Adds(q)
    BY <1>2 DEF Adds
  <1>6. Adds(q) \subseteq Adds(p)
    BY <1>4 DEF Adds
  <1>7. Rising(d, q) => Rising(d, p)
    <2> SUFFICES ASSUME Rising(d, q) PROVE Rising(d, p)
      OBVIOUS
    <2>1. ASSUME NEW i \in 1..Len(p), NEW j \in 1..Len(p), i < j, p[i].op = "add", p[j].op = "add"
          PROVE  p[i].msg < p[j].msg
      <3>1. K(i) \in 1..Len(q) /\ K(j) \in 1..Len(q) /\ K(i) < K(j) /\ p[i] = q[K(i)]
            /\ p[j] = q[K(j)]
        BY <1>2, <1>3, <2>1
      <3> QED
        BY <2>1, <3>1 DEF Rising
    <2> QED
      BY <1>5, <2>1 DEF Rising
  <1>8. NoneBehind(q) => NoneBehind(p)
    <2> SUFFICES ASSUME NoneBehind(q), NEW i \in 1..Len(p), NEW j \in 1..Len(p), i < j,
                        p[i].op = "preload"
                 PROVE  p[j].op # "add"
      BY DEF NoneBehind
    <2>1. K(i) \in 1..Len(q) /\ K(j) \in 1..Len(q) /\ K(i) < K(j) /\ p[i] = q[K(i)]
          /\ p[j] = q[K(j)]
      BY <1>2, <1>3
    <2> QED
      BY <2>1 DEF NoneBehind
  <1>9. Waits(q, "preload") => Waits(p, "preload")
    BY <1>2, <1>4 DEF Waits
  <1> QED
    BY <1>5, <1>6, <1>7, <1>8, <1>9

(* Rows(d, q) when the first of the queue, o, has run and left the rows e:  *)
(* what is highest among them is so still, if anything is left at all.      *)
Ran(d, q, e, p) ==
    /\ Len(q) > 0 /\ Len(p) = Len(q) - 1 /\ \A i \in 1..Len(p) : p[i] = q[i + 1]
    /\ LET o == q[1] IN
       /\ o.op = "add" => e = Drop(Append(d, o.msg), o.excess)
       /\ o.op = "trim" => e = Drop(d, o.excess)
       /\ o.op = "clear" => e = <<>>
       /\ o.op \notin {"add", "trim", "clear"} => e = d

LEMMA RanOrder ==
  ASSUME NEW d \in Seq(Messages), NEW q \in Seq(Orders), NEW e \in Seq(Messages),
         NEW p \in Seq(Orders), Ran(d, q, e, p), Rising(d, q)
  PROVE  /\ Rising(e, p) /\ Rows(e, p) \subseteq Rows(d, q)
         /\ \A t \in Rows(d, q) : Top(t, d, q) /\ Rows(e, p) # {} => Top(t, e, p)
         /\ NoneBehind(q) => NoneBehind(p)
  <1> DEFINE o == q[1]
             f == IF o.op = "add" THEN Append(d, o.msg) ELSE d
  <1>1. /\ Len(q) \in Nat /\ Len(q) > 0 /\ Len(p) = Len(q) - 1 /\ 1 \in 1..Len(q)
        /\ \A i \in 1..Len(p) : p[i] = q[i + 1] /\ i + 1 \in 1..Len(q)
        /\ \A i \in 1..Len(q) : i = 1 \/ (i - 1 \in 1..Len(p) /\ p[i - 1] = q[i])
    BY SeqFacts DEF Ran
  <1>2. /\ o.excess \in Nat /\ (o.op = "add" => o.msg \in Messages)
    BY <1>1, QueueOps
  <1>3. /\ Len(d) \in Nat /\ \A i \in 1..Len(d) : d[i] \in Messages
        /\ Len(e) \in Nat /\ \A i \in 1..Len(e) : e[i] \in Messages
        /\ Messages \subseteq Nat
    BY SeqFacts, ChatLogAssumption DEF Messages
  <1>4. /\ f \in Seq(Messages) /\ Len(f) \in Nat
        /\ o.op # "add" => f = d
        /\ o.op = "add" => /\ Len(f) = Len(d) + 1 /\ f[Len(d) + 1] = o.msg
                           /\ \A i \in 1..Len(d) : f[i] = d[i]
    BY <1>2, AppendFacts, SeqFacts
  <1>5. PICK n \in Nat : /\ n <= Len(f) /\ Len(e) = Len(f) - n
                         /\ \A i \in 1..Len(e) : e[i] = f[i + n]
    <2>1. CASE o.op \in {"add", "trim"}
      <3>1. e = Drop(f, o.excess)
        BY <2>1 DEF Ran
      <3> HIDE DEF f, o
      <3>2. /\ o.excess <= Len(f) => Len(e) = Len(f) - o.excess
            /\ o.excess >= Len(f) => Len(e) = 0
            /\ \A i \in 1..Len(e) : e[i] = f[i + o.excess]
        <4>1. o.excess \in Nat /\ f \in Seq(Messages)
          BY <1>2, <1>4
        <4> QED
          BY <3>1, <4>1, DropFacts
      <3>3. CASE o.excess <= Len(f)
        <4>1. Len(e) = Len(f) - o.excess
          BY <3>2, <3>3
        <4> QED
          BY <1>2, <3>2, <3>3, <4>1, Zenon
      <3>4. CASE o.excess > Len(f)
        <4>1. Len(e) = 0 /\ Len(f) <= Len(f) /\ Len(e) = Len(f) - Len(f)
          BY <1>2, <1>4, <3>2, <3>4
        <4>2. \A i \in 1..Len(e) : FALSE
          BY <4>1
        <4> QED
          BY <1>4, <4>1, <4>2
      <3>5. o.excess <= Len(f) \/ o.excess > Len(f)
        BY <1>2, <1>4
      <3> QED
        BY <3>3, <3>4, <3>5
    <2>2. CASE o.op = "clear"
      <3>1. Len(e) = 0 /\ Len(f) <= Len(f) /\ Len(e) = Len(f) - Len(f)
        BY <1>4, <2>2, EmptyFacts DEF Ran
      <3> QED
        BY <1>4, <3>1
    <2>3. CASE o.op \notin {"add", "trim", "clear"}
      <3>1. e = f
        BY <1>4, <2>3 DEF Ran
      <3>2. 0 <= Len(f) /\ Len(e) = Len(f) - 0 /\ \A i \in 1..Len(e) : e[i] = f[i + 0]
        BY <1>4, <3>1
      <3> QED
        BY <3>2
    <2> QED
      BY <2>1, <2>2, <2>3
  <1>6. Adds(q) = Adds(p) \cup (IF o.op = "add" THEN {o.msg} ELSE {})
    <2> HIDE DEF f
    <2>1. Adds(p) \subseteq Adds(q)
      BY <1>1 DEF Adds
    <2>2. o.op = "add" => o.msg \in Adds(q)
      BY <1>1 DEF Adds
    <2>3. ASSUME NEW i \in 1..Len(q), q[i].op = "add", i # 1 PROVE q[i].msg \in Adds(p)
      BY <1>1, <2>3 DEF Adds
    <2>4. Adds(q) \subseteq Adds(p) \cup (IF o.op = "add" THEN {o.msg} ELSE {})
      BY <2>3 DEF Adds
    <2> QED
      BY <2>1, <2>2, <2>4
  <1>7. Rising(f, p)
    <2>1. \A i, j \in 1..Len(p) : i < j /\ p[i].op = "add" /\ p[j].op = "add" => p[i].msg < p[j].msg
      BY <1>1 DEF Rising
    <2>2. CASE o.op # "add"
      BY <1>4, <1>6, <2>1, <2>2 DEF Rising
    <2>3. CASE o.op = "add"
      <3>1. \A r \in Adds(p) : o.msg < r
        <4> SUFFICES ASSUME NEW i \in 1..Len(p), p[i].op = "add" PROVE o.msg < p[i].msg
          BY DEF Adds
        <4>1. i + 1 \in 1..Len(q) /\ 1 < i + 1 /\ q[i + 1] = p[i]
          BY <1>1
        <4> QED
          BY <1>1, <2>3, <4>1 DEF Rising
      <3>2. o.msg \in Adds(q) /\ Adds(p) \subseteq Adds(q)
        BY <1>6, <2>3
      <3>3. \A i \in 1..Len(d) : d[i] < o.msg
        BY <3>2 DEF Rising
      <3>4. \A i \in 1..Len(f) : i \in 1..Len(d) \/ i = Len(d) + 1
        <4>1. Len(f) = Len(d) + 1 /\ Len(d) \in Nat
          BY <1>3, <1>4, <2>3
        <4> QED
          BY <4>1
      <3>5. \A i \in 1..Len(f) : \A r \in Adds(p) : f[i] < r
        <4>1. \A i \in 1..Len(d) : \A r \in Adds(p) : d[i] < r
          BY <3>2 DEF Rising
        <4>2. f[Len(d) + 1] = o.msg /\ \A i \in 1..Len(d) : f[i] = d[i]
          BY <1>4, <2>3
        <4> HIDE DEF f, o
        <4> QED
          BY <3>1, <3>4, <4>1, <4>2
      <3>6. \A i, j \in 1..Len(f) : i < j => f[i] < f[j]
        BY <1>3, <1>4, <2>3, <3>3, <3>4 DEF Rising
      <3> QED
        BY <2>1, <3>5, <3>6 DEF Rising
    <2> QED
      BY <2>2, <2>3
  <1>8. Rows(f, p) = Rows(d, q)
    <2>1. CASE o.op # "add"
      <3>1. f = d /\ Adds(q) = Adds(p)
        BY <1>4, <1>6, <2>1
      <3> QED
        BY <3>1 DEF Rows
    <2>2. CASE o.op = "add"
      <3>1. {f[i] : i \in 1..Len(f)} = {d[i] : i \in 1..Len(d)} \cup {o.msg}
        <4>0. Len(f) = Len(d) + 1 /\ Len(d) \in Nat
          BY <1>3, <1>4, <2>2
        <4>1. \A i \in 1..Len(f) : i \in 1..Len(d) \/ i = Len(d) + 1
          BY <4>0
        <4>2. Len(d) + 1 \in 1..Len(f) /\ \A i \in 1..Len(d) : i \in 1..Len(f)
          BY <4>0
        <4> QED
          BY <1>4, <2>2, <4>1, <4>2
      <3> QED
        BY <1>6, <2>2, <3>1 DEF Rows
    <2> QED
      BY <2>1, <2>2
  <1> HIDE DEF f, o
  <1>9. \A i \in 1..Len(e) : i + n \in 1..Len(f) /\ e[i] = f[i + n]
    BY <1>3, <1>4, <1>5
  <1>10. Rising(e, p)
    <2>1. \A i, j \in 1..Len(e) : i < j => e[i] < e[j]
      <3> SUFFICES ASSUME NEW i \in 1..Len(e), NEW j \in 1..Len(e), i < j PROVE e[i] < e[j]
        OBVIOUS
      <3>1. i + n < j + n
        BY <1>5
      <3> QED
        BY <1>7, <1>9, <3>1 DEF Rising
    <2> QED
      BY <1>7, <1>9, <2>1 DEF Rising
  <1>11. Rows(e, p) \subseteq Rows(d, q)
    BY <1>8, <1>9 DEF Rows
  <1>12. ASSUME NEW t \in Rows(d, q), Top(t, d, q), NEW r \in Rows(e, p) PROVE t \in Rows(e, p)
    <2>1. r <= t /\ t \in Rows(f, p)
      BY <1>8, <1>11, <1>12 DEF Top
    <2>2. CASE t \in Adds(p)
      BY <2>2 DEF Rows
    <2>3. CASE t \notin Adds(p)
      <3>1. PICK i \in 1..Len(f) : f[i] = t
        BY <2>1, <2>3 DEF Rows
      <3>2. \A j \in 1..Len(f) : f[j] \in Messages
        BY <1>4, SeqFacts
      <3>3. r \notin Adds(p)
        <4> SUFFICES ASSUME r \in Adds(p) PROVE FALSE
          OBVIOUS
        <4>1. t < r /\ r \in Messages
          <5>1. \A j \in 1..Len(p) : p[j].op = "add" => p[j].msg \in Messages
            BY QueueOps
          <5> QED
            BY <1>7, <3>1, <5>1 DEF Rising, Adds
        <4> QED
          BY <1>3, <2>1, <3>1, <3>2, <4>1
      <3>4. PICK j \in 1..Len(e) : e[j] = r
        BY <1>12, <3>3 DEF Rows
      <3>5. j + n \in 1..Len(f) /\ f[j + n] = r
        BY <1>9, <3>4
      <3>6. j + n <= i
        <4> SUFFICES ASSUME i < j + n PROVE FALSE
          BY <1>3, <1>4, <1>5
        <4>1. f[i] < f[j + n]
          BY <1>7, <3>1, <3>5 DEF Rising
        <4>2. t \in Nat /\ r \in Nat
          BY <1>3, <3>1, <3>2, <3>5
        <4> QED
          BY <2>1, <3>1, <3>5, <4>1, <4>2
      <3>7. i - n \in 1..Len(e) /\ (i - n) + n = i
        BY <1>3, <1>4, <1>5, <3>1, <3>5, <3>6
      <3>8. e[i - n] = t
        BY <1>9, <3>1, <3>7
      <3> QED
        BY <3>7, <3>8 DEF Rows
    <2> QED
      BY <2>2, <2>3
  <1>13. NoneBehind(q) => NoneBehind(p)
    <2> SUFFICES ASSUME NoneBehind(q), NEW i \in 1..Len(p), NEW j \in 1..Len(p), i < j,
                        p[i].op = "preload"
                 PROVE  p[j].op # "add"
      BY DEF NoneBehind
    <2>1. i + 1 \in 1..Len(q) /\ j + 1 \in 1..Len(q) /\ i + 1 < j + 1 /\ p[i] = q[i + 1]
          /\ p[j] = q[j + 1]
      BY <1>1
    <2> QED
      BY <2>1 DEF NoneBehind
  <1>14. ASSUME NEW t \in Rows(d, q), Top(t, d, q), Rows(e, p) # {} PROVE Top(t, e, p)
    BY <1>11, <1>12, <1>14 DEF Top
  <1> QED
    BY <1>10, <1>11, <1>13, <1>14

-----------------------------------------------------------------------------
(* The invariant of InOrder.  As long as no caller has been overtaken and   *)
(* nothing was played back late, rows come in order; and if moreover no     *)
(* message came while the cache was being loaded, a cache that is loaded    *)
(* ends with the newest row, and a channel made with its log shows it: so   *)
(* what is played back and neither older than the cache nor on the screen   *)
(* is newer than every row.                                                 *)
Fine == "overtaken" \notin mishaps /\ ~late
Settled == phase = "chat" /\ ~Waiting("preload")
Tops == /\ Settled => cache # <<>> /\ Top(cache[Len(cache)], db, Queue)
        /\ chan # NoChannel /\ ~bare => \E i \in 1..Len(chan) : Top(chan[i], db, Queue)
Ordering ==
    Fine => /\ Rising(db, Queue)
            /\ \A r \in Rows(db, Queue) : r <= logged
            /\ slips = 0 => /\ NoneBehind(Queue)
                            /\ phase = "replay" => Adds(Queue) = {}
                            /\ Rows(db, Queue) # {} => Tops

(* The invariant of Forgotten: the rows and strays are cleared, or a        *)
(* clearing is on its way with no message behind it.                        *)
Unwritten(q, k) == \A i \in (k + 1)..Len(q) : q[i].op \notin {"add", "stray"}
Clean(d, s, q) ==
    \/ Len(d) = 0 /\ ~s /\ Unwritten(q, 0)
    \/ \E k \in 1..Len(q) : q[k].op = "clear" /\ Unwritten(q, k)
Forgetting ==
    ~trusted /\ "overtaken" \notin mishaps /\ "clear" \notin mishaps => Clean(db, strays, Queue)

(* A step that leaves the rows and what they will be, and takes nothing     *)
(* from the end of the cache or the screen.                                 *)
LEMMA KeptOrdering ==
  ASSUME Typed, Typed', Ordering, Fine' => Fine,
         Fine' => /\ Rising(db, Queue) => Rising(db', Queue')
                  /\ Rows(db', Queue') \subseteq Rows(db, Queue)
                  /\ logged' = logged /\ slips' = slips
                  /\ slips = 0 =>
                       /\ NoneBehind(Queue) => NoneBehind(Queue')
                       /\ phase' = "replay" => Adds(Queue') \subseteq Adds(Queue)
                                               /\ (phase = "replay" \/ Adds(Queue') = {})
                       /\ Rows(db', Queue') # {} =>
                            /\ Rows(db', Queue') = Rows(db, Queue)
                            /\ Settled' => /\ Settled
                                           /\ cache # <<>> =>
                                                /\ cache' # <<>>
                                                /\ cache'[Len(cache')] = cache[Len(cache)]
                            /\ (chan' = chan /\ bare' = bare) \/ chan' = NoChannel
  PROVE  Ordering'
  <1> SUFFICES ASSUME Fine'
               PROVE  /\ Rising(db', Queue')
                      /\ \A r \in Rows(db', Queue') : r <= logged'
                      /\ slips' = 0 => /\ NoneBehind(Queue')
                                       /\ phase' = "replay" => Adds(Queue') = {}
                                       /\ Rows(db', Queue') # {} => Tops'
    BY DEF Ordering
  <1>1. /\ Rising(db', Queue') /\ \A r \in Rows(db', Queue') : r <= logged'
    BY DEF Ordering
  <1>2. ASSUME slips' = 0 PROVE NoneBehind(Queue') /\ (phase' = "replay" => Adds(Queue') = {})
    BY <1>2 DEF Ordering
  <1>3. ASSUME slips' = 0, Rows(db', Queue') # {} PROVE Tops'
    <2>1. /\ Rows(db', Queue') = Rows(db, Queue) /\ Tops
      BY <1>3 DEF Ordering
    <2>2. \A x : Top(x, db, Queue) => Top(x, db', Queue')
      BY <2>1 DEF Top
    <2>3. Settled' => cache' # <<>> /\ Top(cache'[Len(cache')], db', Queue')
      BY <1>3, <2>1, <2>2 DEF Tops
    <2>4. chan' # NoChannel /\ ~bare' => \E i \in 1..Len(chan') : Top(chan'[i], db', Queue')
      BY <1>3, <2>1, <2>2 DEF Tops
    <2> QED
      BY <2>3, <2>4 DEF Tops
  <1> QED
    BY <1>1, <1>2, <1>3

(* A channel whose log was there, or that is made with it, shows the newest *)
(* row.                                                                     *)
LEMMA EnsureShows ==
  ASSUME Typed, Fine, Ordering, slips = 0, Rows(db, Queue) # {}, NoteBare, ~bare',
         phase \in {"chat", "replay"}
  PROVE  \E i \in 1..Len(ensureChannel) : Top(ensureChannel[i], db, Queue)
  <1>1. Tops
    BY DEF Ordering
  <1>2. CASE chan # NoChannel
    BY <1>1, <1>2 DEF NoteBare, Tops, ensureChannel
  <1>3. CASE chan = NoChannel
    <2>1. ~Waiting("preload") /\ Known
      BY <1>3 DEF NoteBare, Loading
    <2>2. ensureChannel = cache /\ Settled
      BY <1>3, <2>1 DEF ensureChannel, Settled, Known
    <2>3. cache # <<>> /\ Top(cache[Len(cache)], db, Queue)
      BY <1>1, <2>2 DEF Tops
    <2>4. Len(cache) \in 1..Len(cache)
      BY <2>3, SeqFacts DEF Typed, Types
    <2> QED
      BY <2>2, <2>3, <2>4
  <1> QED
    BY <1>2, <1>3

LEMMA NoteFacts ==
  ASSUME NEW S, Note(Overtaking \cup S)
  PROVE  /\ "overtaken" \notin mishaps' => "overtaken" \notin mishaps /\ ~(idb /\ calls # <<>>)
         /\ mishaps \subseteq mishaps'
  BY DEF Note, Overtaking

LEMMA NoteOnly ==
  ASSUME Note(Overtaking)
  PROVE  /\ "overtaken" \notin mishaps' => "overtaken" \notin mishaps /\ ~(idb /\ calls # <<>>)
         /\ mishaps \subseteq mishaps'
  BY DEF Note, Overtaking

(* A message that is newer than every row is kept. *)
LEMMA AddOrdering ==
  ASSUME Typed, Typed', Ordering, NEW m \in Messages, trusted, persistMsg(m),
         phase \in {"chat", "replay"}, db' = db, phase' = phase, logMax' = logMax,
         chan' = Append(ensureChannel, m), logged' \in Nat, logged <= logged', m <= logged',
         late' = FALSE => late = FALSE,
         Fine' => \A r \in Rows(db, Queue) : r < m
  PROVE  Ordering'
  <1> DEFINE full == Append(cache, m)
             e == IF Known THEN Excess(full, logMax) ELSE 0
             o == Op("add", m, e)
  <1> SUFFICES ASSUME Fine'
               PROVE  /\ Rising(db', Queue')
                      /\ \A r \in Rows(db', Queue') : r <= logged'
                      /\ slips' = 0 => /\ NoneBehind(Queue')
                                       /\ phase' = "replay" => Adds(Queue') = {}
                                       /\ Rows(db', Queue') # {} => Tops'
    BY DEF Ordering
  <1>1. /\ getDB(o) /\ Note(Overtaking)
        /\ cache' = IF Known THEN Newest(full, logMax) ELSE cache
        /\ slips' = IF Waiting("preload") \/ ~Known THEN slips + 1 ELSE slips
    BY DEF persistMsg
  <1>2. /\ full \in Seq(Messages) /\ full # <<>> /\ full[Len(full)] = m
        /\ logMax \in Nat /\ logMax > 0 /\ logged \in Nat /\ slips \in Nat
    <2>1. cache \in Seq(Messages) /\ Len(cache) \in Nat /\ logMax \in Limits
      BY SeqFacts DEF Typed, Types
    <2>2. full \in Seq(Messages) /\ Len(full) = Len(cache) + 1 /\ full[Len(cache) + 1] = m
      BY <2>1, AppendFacts
    <2> HIDE DEF full
    <2>3. full # <<>>
      BY <2>1, <2>2, SeqFacts
    <2>4. logged \in 0..MaxLogged /\ slips \in 0..(MaxLogged + MaxPlayed)
      BY DEF Typed, Types
    <2>5. logged \in Nat /\ slips \in Nat
      BY <2>4
    <2> QED
      BY <2>1, <2>2, <2>3, <2>5, LimitFacts
  <1> HIDE DEF full
  <1>3. /\ Newest(full, logMax) \in Seq(Messages) /\ Excess(full, logMax) \in Nat
        /\ Len(Newest(full, logMax)) > 0
        /\ Newest(full, logMax)[Len(Newest(full, logMax))] = m
    BY <1>2, NewestFacts
  <1>4. o \in Orders /\ o.op = "add" /\ o.msg = m
    <2>1. e \in Nat
      BY <1>3
    <2> HIDE DEF e
    <2>2. m \in {0} \cup Messages /\ "add" \in {"add", "stray", "trim", "clear", "preload"}
      OBVIOUS
    <2> QED
      BY <2>1, <2>2 DEF Op, Orders, Calls
  <1> HIDE DEF o, e
  <1>5. Fine /\ ~(idb /\ calls # <<>>)
    BY <1>1, NoteOnly DEF Fine, Typed, Types
  <1>6. Queue \in Seq(Orders) /\ Pushed(Queue, Queue', o)
    BY <1>1, <1>4, <1>5, Push, QueueFacts
  <1>7. /\ Rows(db, Queue') = Rows(db, Queue) \cup {m}
        /\ Rising(db, Queue) /\ (\A r \in Rows(db, Queue) : r < m) => Rising(db, Queue')
        /\ ~Waits(Queue, "preload") => NoneBehind(Queue')
    BY <1>4, <1>6, PushAdd
  <1>8. Rising(db, Queue')
    BY <1>5, <1>7 DEF Ordering
  <1>9. \A r \in Rows(db, Queue) : r \in Nat
    <2>1. \A i \in 1..Len(db) : db[i] \in Messages
      BY SeqFacts DEF Typed, Types
    <2>2. \A i \in 1..Len(Queue) : Queue[i].op = "add" => Queue[i].msg \in Messages
      BY <1>6, QueueOps
    <2> QED
      BY <2>1, <2>2, ChatLogAssumption DEF Rows, Adds, Messages
  <1>10. m \in Nat /\ Top(m, db, Queue')
    <2>1. m \in Nat
      BY ChatLogAssumption DEF Messages
    <2> QED
      BY <1>7, <1>9, <2>1 DEF Top
  <1>11. \A r \in Rows(db, Queue') : r <= logged'
    BY <1>2, <1>7, <1>9, <1>10
  <1>12. ASSUME slips' = 0
         PROVE  NoneBehind(Queue') /\ phase' # "replay" /\ Tops'
    <2>1. ~Waiting("preload") /\ Known
      BY <1>1, <1>2, <1>12
    <2>2. ~Waits(Queue, "preload")
      BY <2>1, WaitsNow
    <2>3. cache' # <<>> /\ cache'[Len(cache')] = m
      BY <1>1, <1>3, <2>1, SeqFacts
    <2>4. \E i \in 1..Len(chan') : chan'[i] = m
      <3>1. ensureChannel \in Seq(Messages) /\ Len(ensureChannel) \in Nat
        BY EnsureTypes, SeqFacts DEF Typed
      <3>2. Len(chan') = Len(ensureChannel) + 1 /\ chan'[Len(ensureChannel) + 1] = m
        BY <3>1, AppendFacts
      <3>3. Len(ensureChannel) + 1 \in 1..Len(chan')
        BY <3>1, <3>2
      <3> QED
        BY <3>2, <3>3
    <2>5. Top(m, db', Queue')
      BY <1>10
    <2>6. Tops'
      BY <2>3, <2>4, <2>5 DEF Tops
    <2> QED
      BY <1>7, <2>1, <2>2, <2>6 DEF Known
  <1> QED
    BY <1>8, <1>11, <1>12

(* A step that only shows the channel, with its log if it is there. *)
LEMMA ShowOrdering ==
  ASSUME Typed, Typed', Ordering, phase \in {"chat", "replay"}, NoteBare,
         UNCHANGED <<phase, cache, db, calls, txs, slips, mishaps>>,
         late' = FALSE => late = FALSE, logged' \in Nat, logged <= logged',
         \/ chan' = ensureChannel
         \/ \E m \in Messages : chan' = Append(ensureChannel, m)
  PROVE  Ordering'
  <1> SUFFICES ASSUME Fine'
               PROVE  /\ Rising(db', Queue')
                      /\ \A r \in Rows(db', Queue') : r <= logged'
                      /\ slips' = 0 => /\ NoneBehind(Queue')
                                       /\ phase' = "replay" => Adds(Queue') = {}
                                       /\ Rows(db', Queue') # {} => Tops'
    BY DEF Ordering
  <1>1. Fine /\ Queue' = Queue /\ db' = db /\ (Settled' => Settled)
    BY DEF Fine, Queue, Typed, Types, Settled, Waiting
  <1>2. logged \in Nat /\ \A r \in Rows(db, Queue) : r \in Nat
    <2>1. \A i \in 1..Len(db) : db[i] \in Messages
      BY SeqFacts DEF Typed, Types
    <2>2. \A i \in 1..Len(Queue) : Queue[i].op = "add" => Queue[i].msg \in Messages
      BY QueueFacts, QueueOps
    <2>3. Messages \subseteq Nat /\ logged \in Nat
      BY ChatLogAssumption DEF Messages, Typed, Types
    <2> QED
      BY <2>1, <2>2, <2>3 DEF Rows, Adds
  <1>3. /\ Rising(db', Queue') /\ \A r \in Rows(db', Queue') : r <= logged'
        /\ slips' = 0 => NoneBehind(Queue') /\ (phase' = "replay" => Adds(Queue') = {})
    BY <1>1, <1>2 DEF Ordering
  <1>4. ASSUME slips' = 0, Rows(db', Queue') # {} PROVE Tops'
    <2>1. Tops /\ Fine /\ slips = 0 /\ Rows(db, Queue) # {}
      BY <1>1, <1>4 DEF Ordering
    <2>2. Settled' => cache' # <<>> /\ Top(cache'[Len(cache')], db', Queue')
      BY <1>1, <2>1 DEF Tops
    <2>3. ASSUME ~bare' PROVE \E i \in 1..Len(chan') : Top(chan'[i], db', Queue')
      <3>1. PICK i \in 1..Len(ensureChannel) : Top(ensureChannel[i], db, Queue)
        BY <2>1, <2>3, EnsureShows
      <3>2. ensureChannel \in Seq(Messages) /\ Len(ensureChannel) \in Nat
        BY EnsureTypes, SeqFacts DEF Typed
      <3>3. i \in 1..Len(chan') /\ chan'[i] = ensureChannel[i]
        <4>1. CASE chan' = ensureChannel
          BY <4>1
        <4>2. ASSUME NEW m \in Messages, chan' = Append(ensureChannel, m)
              PROVE  i \in 1..Len(chan') /\ chan'[i] = ensureChannel[i]
          BY <3>2, <4>2, AppendFacts
        <4> QED
          BY <4>1, <4>2
      <3> QED
        BY <1>1, <3>1, <3>3
    <2> QED
      BY <2>2, <2>3 DEF Tops
  <1> QED
    BY <1>3, <1>4

LEMMA FineLess ==
  ASSUME mishaps \subseteq mishaps', late' = late PROVE Fine' => Fine
  BY DEF Fine

LEMMA RowsNat ==
  ASSUME Typed PROVE \A r \in Rows(db, Queue) : r \in Nat
  <1>1. \A i \in 1..Len(db) : db[i] \in Messages
    BY SeqFacts DEF Typed, Types
  <1>2. \A i \in 1..Len(Queue) : Queue[i].op = "add" => Queue[i].msg \in Messages
    BY QueueFacts, QueueOps
  <1>3. Messages \subseteq Nat
    BY ChatLogAssumption DEF Messages
  <1> QED
    BY <1>1, <1>2, <1>3 DEF Rows, Adds

(* Messages that are not kept: the device is not trusted. *)
LEMMA NotKept ==
  ASSUME NEW m, persistMsg(m), ~trusted
  PROVE  UNCHANGED <<cache, idb, calls, txs, slips, mishaps>>
  BY DEF persistMsg

LEMMA MessageOrdered == ASSUME Typed, Typed', Ordering, Message PROVE Ordering'
  <1>1. /\ phase \in {"chat", "replay"} /\ db' = db /\ phase' = phase /\ logMax' = logMax
        /\ chan' = Append(ensureChannel, logged + 1) /\ logged' = logged + 1
        /\ late' = late /\ NoteBare /\ persistMsg(logged + 1)
    BY DEF Message
  <1>2. /\ logged \in Nat /\ logged' \in Nat /\ logged <= logged' /\ logged + 1 <= logged'
        /\ logged + 1 \in Messages
    BY <1>1, ChatLogAssumption DEF Message, Typed, Types, Messages
  <1>3. CASE trusted
    <2>1. Fine' => \A r \in Rows(db, Queue) : r < logged + 1
      <3> SUFFICES ASSUME Fine' PROVE \A r \in Rows(db, Queue) : r < logged + 1
        OBVIOUS
      <3>1. Note(Overtaking)
        BY <1>1, <1>3 DEF persistMsg
      <3>2. Fine
        BY <1>1, <3>1, NoteOnly DEF Fine
      <3> QED
        BY <1>2, <3>2, RowsNat DEF Ordering
    <2> QED
      BY <1>1, <1>2, <1>3, <2>1, AddOrdering
  <1>4. CASE ~trusted
    <2>1. UNCHANGED <<phase, cache, db, calls, txs, slips, mishaps>>
      BY <1>1, <1>4, NotKept
    <2> QED
      BY <1>1, <1>2, <2>1, ShowOrdering
  <1> QED
    BY <1>3, <1>4

(* What is played back and is not late is newer than every row. *)
LEMMA PlayedIsNewest ==
  ASSUME Typed, Typed', Ordering, NEW m \in Messages, Playback(m), ~isDuplicateMsg(m), trusted,
         Fine'
  PROVE  \A r \in Rows(db, Queue) : r < m
  <1>1. /\ phase = "chat" /\ NoteBare /\ persistMsg(m)
        /\ late' = (late \/ bare' \/ slips' > 0 \/ \E i \in DOMAIN cache : cache[i] > m)
    BY DEF Playback
  <1>2. /\ Note(Overtaking)
        /\ slips' = IF Waiting("preload") \/ ~Known THEN slips + 1 ELSE slips
    BY <1>1 DEF persistMsg
  <1>3. Fine /\ ~late' /\ slips \in Nat
    BY <1>1, <1>2, NoteOnly DEF Fine, Typed, Types
  <1>4. ~bare' /\ ~(slips' > 0) /\ \A i \in DOMAIN cache : ~(cache[i] > m)
    BY <1>1, <1>3
  <1>5. slips = 0 /\ Settled
    BY <1>1, <1>2, <1>3, <1>4 DEF Settled
  <1>6. cache \in Seq(Messages) /\ m \in Nat /\ \A r \in Rows(db, Queue) : r \in Nat
    <2>1. cache \in Seq(Messages)
      BY DEF Typed, Types
    <2>2. m \in Nat
      BY ChatLogAssumption DEF Messages
    <2> QED
      BY <2>1, <2>2, RowsNat
  <1>7. CASE Rows(db, Queue) = {}
    BY <1>7
  <1>8. CASE Rows(db, Queue) # {}
    <2> DEFINE t == cache[Len(cache)]
    <2>1. cache # <<>> /\ Top(t, db, Queue)
      BY <1>3, <1>5, <1>8 DEF Ordering, Tops
    <2>2. Len(cache) \in DOMAIN cache
      BY <1>6, <2>1, SeqFacts
    <2>3. t \in Nat /\ t <= m
      BY <1>4, <1>6, <2>1, <2>2 DEF Top
    <2> HIDE DEF t
    <2>4. PICK i \in 1..Len(ensureChannel) : Top(ensureChannel[i], db, Queue)
      BY <1>1, <1>3, <1>4, <1>5, <1>8, EnsureShows
    <2>5. ensureChannel[i] = t
      BY <1>6, <2>1, <2>4 DEF Top
    <2>6. t # m
      <3>1. i \in DOMAIN ensureChannel
        BY <2>4, EnsureTypes, SeqFacts DEF Typed
      <3> QED
        BY <2>5, <3>1 DEF isDuplicateMsg
    <2> QED
      BY <1>6, <2>1, <2>3, <2>6 DEF Top
  <1> QED
    BY <1>7, <1>8

LEMMA PlaybackOrdered ==
  ASSUME Typed, Typed', Ordering, NEW m \in Messages, Playback(m) PROVE Ordering'
  <1>1. /\ phase = "chat" /\ db' = db /\ phase' = phase /\ logMax' = logMax /\ logged' = logged
        /\ NoteBare /\ m <= logged
    BY DEF Playback
  <1>2. logged \in Nat /\ logged' \in Nat /\ logged <= logged' /\ m <= logged'
    BY <1>1, ChatLogAssumption DEF Typed, Types, Messages
  <1>3. CASE isDuplicateMsg(m)
    <2>1. /\ chan' = ensureChannel /\ late' = late
          /\ UNCHANGED <<phase, cache, db, calls, txs, slips, mishaps>>
      BY <1>1, <1>3 DEF Playback
    <2> QED
      BY <1>1, <1>2, <2>1, ShowOrdering
  <1>4. CASE ~isDuplicateMsg(m)
    <2>1. /\ chan' = Append(ensureChannel, m) /\ persistMsg(m)
          /\ late' = (late \/ bare' \/ slips' > 0 \/ \E i \in DOMAIN cache : cache[i] > m)
      BY <1>4 DEF Playback
    <2>2. late' = FALSE => late = FALSE
      BY <2>1 DEF Typed, Types
    <2>3. CASE trusted
      <3>1. Fine' => \A r \in Rows(db, Queue) : r < m
        BY <1>4, <2>3, PlayedIsNewest
      <3> QED
        BY <1>1, <1>2, <2>1, <2>2, <2>3, <3>1, AddOrdering
    <2>4. CASE ~trusted
      <3>1. UNCHANGED <<phase, cache, db, calls, txs, slips, mishaps>>
        BY <1>1, <2>1, <2>4, NotKept
      <3> QED
        BY <1>1, <1>2, <2>1, <2>2, <3>1, ShowOrdering
    <2> QED
      BY <2>3, <2>4
  <1> QED
    BY <1>3, <1>4

LEMMA JoinedOrdered == ASSUME Typed, Typed', Ordering, Joined PROVE Ordering'
  <1>1. /\ phase = "chat" /\ NoteBare /\ chan' = ensureChannel
        /\ UNCHANGED <<phase, cache, db, calls, txs, slips, mishaps>>
        /\ late' = late /\ logged' = logged
    BY DEF Joined, disk
  <1>2. logged \in Nat /\ logged' \in Nat /\ logged <= logged'
    BY <1>1, ChatLogAssumption DEF Typed, Types
  <1> QED
    BY <1>1, <1>2, ShowOrdering

(* A step that asks for nothing, and has the cache as it was or shows no    *)
(* settled page.                                                            *)
LEMMA StillOrdering ==
  ASSUME Typed, Typed', Ordering,
         UNCHANGED <<db, calls, txs, slips, logged, late>>, mishaps \subseteq mishaps',
         phase' = "replay" => phase = "replay",
         phase' = "chat" => phase = "chat" /\ cache' = cache,
         (chan' = chan /\ bare' = bare) \/ chan' = NoChannel
  PROVE  Ordering'
  <1>1. Queue' = Queue /\ Rows(db', Queue') = Rows(db, Queue) /\ (Fine' => Fine)
    BY FineLess DEF Queue
  <1>2. Settled' => Settled /\ cache' = cache
    BY DEF Settled, Waiting
  <1> QED
    BY <1>1, <1>2, KeptOrdering

(* A step that asks for something other than a message. *)
LEMMA AskOrdering ==
  ASSUME Typed, Typed', Ordering, NEW o \in Orders, getDB(o), o.op # "add",
         UNCHANGED <<db, slips, logged, late>>, mishaps \subseteq mishaps',
         "overtaken" \notin mishaps' => ~(idb /\ calls # <<>>),
         phase' = "replay" => phase = "replay",
         phase' = "chat" => \/ o.op = "preload"
                            \/ phase = "chat" /\ (cache # <<>> =>
                                  cache' # <<>> /\ cache'[Len(cache')] = cache[Len(cache)]),
         (chan' = chan /\ bare' = bare) \/ chan' = NoChannel
  PROVE  Ordering'
  <1>1. Fine' => Fine /\ Queue \in Seq(Orders) /\ Pushed(Queue, Queue', o)
    BY FineLess, Push, QueueFacts DEF Fine
  <1>2. Fine' => /\ Adds(Queue') = Adds(Queue) /\ Rows(db, Queue') = Rows(db, Queue)
                 /\ Rising(db, Queue) => Rising(db, Queue')
                 /\ NoneBehind(Queue) => NoneBehind(Queue')
                 /\ Waits(Queue, "preload") => Waits(Queue', "preload")
                 /\ o.op = "preload" => Waits(Queue', "preload")
    BY <1>1, PushOther
  <1>3. Fine' /\ Settled' =>
           Settled /\ (cache # <<>> => cache' # <<>> /\ cache'[Len(cache')] = cache[Len(cache)])
    BY <1>2, WaitsNow, WaitsNext DEF Settled
  <1>4. Fine' => Fine
    BY <1>1
  <1> QED
    BY <1>2, <1>3, <1>4, KeptOrdering

LEMMA ClearOrdering ==
  ASSUME Typed, Typed', Ordering, clearLocalData,
         UNCHANGED <<db, slips, logged, late>>, phase' = "form",
         (chan' = chan /\ bare' = bare) \/ chan' = NoChannel
  PROVE  Ordering'
  <1>1. Op("clear", 0, 0) \in Orders /\ Op("clear", 0, 0).op = "clear"
    BY OpFacts
  <1>2. getDB(Op("clear", 0, 0)) /\ Note(Overtaking)
    BY DEF clearLocalData
  <1>3. /\ mishaps \subseteq mishaps'
        /\ "overtaken" \notin mishaps' => ~(idb /\ calls # <<>>)
    BY <1>2, NoteOnly
  <1> QED
    BY <1>1, <1>2, <1>3, AskOrdering

LEMMA FormOrdered ==
  ASSUME Typed, Typed', Ordering, Left \/ Submit \/ Preload \/ Disconnect \/ SetTrusted
  PROVE  Ordering'
  <1>1. CASE Left
    BY <1>1, StillOrdering DEF Left, disk
  <1>2. CASE Submit
    BY <1>2, StillOrdering DEF Submit, disk
  <1>3. CASE Preload
    <2>1. Op("preload", 0, 0) \in Orders /\ Op("preload", 0, 0).op = "preload"
      BY OpFacts
    <2>2. /\ getDB(Op("preload", 0, 0)) /\ Note(Overtaking) /\ phase' = "chat"
          /\ UNCHANGED <<db, slips, logged, late>> /\ chan' = chan /\ bare' = bare
      BY <1>3 DEF Preload
    <2>3. /\ mishaps \subseteq mishaps'
          /\ "overtaken" \notin mishaps' => ~(idb /\ calls # <<>>)
      BY <2>2, NoteOnly
    <2> QED
      BY <2>1, <2>2, <2>3, AskOrdering
  <1>4. CASE Disconnect
    <2>1. CASE trusted
      BY <1>4, <2>1, StillOrdering DEF Disconnect
    <2>2. CASE ~trusted
      BY <1>4, <2>2, ClearOrdering DEF Disconnect
    <2> QED
      BY <2>1, <2>2
  <1>5. CASE SetTrusted
    <2>1. CASE ~trusted
      BY <1>5, <2>1, StillOrdering DEF SetTrusted
    <2>2. CASE trusted
      BY <1>5, <2>2, ClearOrdering DEF SetTrusted
    <2> QED
      BY <2>1, <2>2
  <1> QED
    BY <1>1, <1>2, <1>3, <1>4, <1>5

LEMMA SetLogMaxOrdered ==
  ASSUME Typed, Typed', Ordering, NEW n \in Limits, SetLogMax(n) PROVE Ordering'
  <1> DEFINE S == {x \in {"lowered"} : n < logMax /\ Waiting("preload")}
             e == IF idb THEN Excess(cache, n) ELSE 0
  <1>1. /\ phase' = phase /\ phase = "chat" /\ logMax' = n /\ chan' = chan /\ bare' = bare
        /\ UNCHANGED <<db, slips, logged, late>> /\ Note(Overtaking \cup S) /\ trimAllCaches
    BY DEF SetLogMax
  <1> HIDE DEF S
  <1>2. /\ mishaps \subseteq mishaps'
        /\ "overtaken" \notin mishaps' => ~(idb /\ calls # <<>>)
    BY <1>1, NoteFacts
  <1>3. CASE idb /\ Len(cache) <= n
    <2>1. UNCHANGED <<cache, calls, txs>>
      BY <1>1, <1>3 DEF trimAllCaches
    <2> QED
      BY <1>1, <1>2, <2>1, StillOrdering
  <1>4. CASE ~(idb /\ Len(cache) <= n)
    <2>1. getDB(Op("trim", 0, e)) /\ cache' = IF idb THEN Newest(cache, n) ELSE cache
      BY <1>1, <1>4 DEF trimAllCaches
    <2>2. /\ n \in Nat /\ n > 0 /\ cache \in Seq(Messages)
          /\ Newest(cache, n) \in Seq(Messages)
      BY LimitFacts, NewestFacts DEF Typed, Types
    <2>3. /\ Excess(cache, n) \in Nat
          /\ cache # <<>> => /\ Len(Newest(cache, n)) > 0
                             /\ Newest(cache, n)[Len(Newest(cache, n))] = cache[Len(cache)]
      BY <2>2, NewestFacts
    <2>4. cache # <<>> => cache' # <<>> /\ cache'[Len(cache')] = cache[Len(cache)]
      BY <2>1, <2>2, <2>3, SeqFacts
    <2>5. Op("trim", 0, e) \in Orders /\ Op("trim", 0, e).op = "trim"
      <3>1. e \in Nat
        BY <2>3
      <3> HIDE DEF e
      <3> QED
        BY <3>1, OpFacts
    <2> HIDE DEF e
    <2> QED
      BY <1>1, <1>2, <2>1, <2>4, <2>5, AskOrdering
  <1> QED
    BY <1>3, <1>4

LEMMA EmptyQueue ==
  ASSUME calls = <<>>, txs = <<>>
  PROVE  Queue = <<>> /\ Len(Queue) = 0 /\ Adds(Queue) = {}
  <1>1. Queue = <<>> /\ Len(Queue) = 0
    BY DEF Queue
  <1> QED
    BY <1>1 DEF Adds

LEMMA EmptyQueueNext ==
  ASSUME calls' = <<>>, txs' = <<>>
  PROVE  Queue' = <<>> /\ Len(Queue') = 0 /\ Adds(Queue') = {}
  <1>1. Queue' = <<>> /\ Len(Queue') = 0
    BY DEF Queue
  <1> QED
    BY <1>1 DEF Adds

LEMMA InitOrdering == Init => Ordering
  <1> SUFFICES ASSUME Init PROVE Ordering
    OBVIOUS
  <1>1. db = <<>> /\ Len(db) = 0 /\ Len(Queue) = 0 /\ Adds(Queue) = {} /\ phase # "replay"
    BY EmptyQueue, EmptyFacts DEF Init
  <1>2. Rows(db, Queue) = {}
    BY <1>1 DEF Rows
  <1>3. Rising(db, Queue) /\ NoneBehind(Queue)
    BY <1>1 DEF Rising, NoneBehind
  <1> QED
    BY <1>1, <1>2, <1>3 DEF Ordering

LEMMA ReloadOrdered == ASSUME Typed, Typed', Ordering, Reload PROVE Ordering'
  <1>1. /\ chan' = NoChannel /\ phase' # "chat" /\ calls' = <<>> /\ txs' = <<>>
        /\ UNCHANGED <<db, slips, logged, late>> /\ mishaps \subseteq mishaps'
    BY DEF Reload, Note
  <1>2. Len(Queue') = 0 /\ Adds(Queue') = {}
    BY <1>1, EmptyQueueNext
  <1>3. Fine' => Fine
    BY <1>1, FineLess
  <1>4. Rows(db', Queue') \subseteq Rows(db, Queue)
    BY <1>1, <1>2 DEF Rows
  <1>5. Rising(db, Queue) => Rising(db', Queue')
    BY <1>1, <1>2 DEF Rising
  <1>6. NoneBehind(Queue') /\ Tops'
    BY <1>1, <1>2 DEF NoneBehind, Tops, Settled
  <1> QED
    BY <1>1, <1>2, <1>3, <1>4, <1>5, <1>6 DEF Ordering

LEMMA OpenedOrdered == ASSUME Typed, Typed', Ordering, Opened PROVE Ordering'
  <1> DEFINE q == Queue
             p == Queue'
  <1>1. /\ phase' = phase /\ chan' = chan /\ bare' = bare
        /\ UNCHANGED <<db, slips, logged, late, mishaps>>
    BY DEF Opened
  <1>2. PICK n \in 1..Len(q) : Swapped(q, p, n) \/ Skipped(q, p, n)
    BY OpenedQueue
  <1>3. q \in Seq(Orders)
    BY QueueFacts
  <1>4. (Settled' => ~Waits(p, "preload")) /\ (~Waits(q, "preload") /\ phase = "chat" => Settled)
    BY WaitsNow, WaitsNext DEF Settled
  <1>5. Fine' => Fine
    BY <1>1 DEF Fine
  <1>6. cache # <<>> => cache' # <<>> /\ cache'[Len(cache')] = cache[Len(cache)]
    <2>1. cache' = cache \/ cache' = Newest(cache, logMax)
      BY DEF Opened
    <2>2. /\ logMax \in Nat /\ logMax > 0 /\ cache \in Seq(Messages)
          /\ Newest(cache, logMax) \in Seq(Messages)
      BY LimitFacts, NewestFacts DEF Typed, Types
    <2>3. cache # <<>> =>
             /\ Len(Newest(cache, logMax)) > 0
             /\ Newest(cache, logMax)[Len(Newest(cache, logMax))] = cache[Len(cache)]
      BY <2>2, NewestFacts
    <2> QED
      BY <2>1, <2>2, <2>3, SeqFacts
  <1>7. phase = "replay" /\ slips = 0 /\ Fine => Adds(q) = {}
    BY DEF Ordering
  <1> HIDE DEF q, p
  <1>8. /\ Adds(p) \subseteq Adds(q) /\ (Known \/ Adds(q) = {} => Adds(p) = Adds(q))
        /\ \A d : Rising(d, q) => Rising(d, p)
        /\ NoneBehind(q) => NoneBehind(p)
        /\ Waits(q, "preload") => Waits(p, "preload")
    <2>1. CASE Swapped(q, p, n)
      BY <1>3, <2>1, SwapOrder
    <2>2. CASE Skipped(q, p, n)
      BY <1>3, <2>2, SkipOrder
    <2> QED
      BY <1>2, <2>1, <2>2
  <1>9. /\ Rows(db, p) \subseteq Rows(db, q)
        /\ Fine /\ slips = 0 => Rows(db, p) = Rows(db, q)
    BY <1>7, <1>8 DEF Rows, Known
  <1>10. Settled' => Settled
    BY <1>1, <1>4, <1>8 DEF Settled
  <1>11. Fine' => /\ Rising(db, q) => Rising(db', p)
                  /\ Rows(db', p) \subseteq Rows(db, q)
                  /\ logged' = logged /\ slips' = slips
                  /\ slips = 0 =>
                       /\ NoneBehind(q) => NoneBehind(p)
                       /\ phase' = "replay" => /\ Adds(p) \subseteq Adds(q)
                                               /\ phase = "replay" \/ Adds(p) = {}
                       /\ Rows(db', p) # {} =>
                            /\ Rows(db', p) = Rows(db, q)
                            /\ Settled' => /\ Settled
                                           /\ cache # <<>> =>
                                                /\ cache' # <<>>
                                                /\ cache'[Len(cache')] = cache[Len(cache)]
                            /\ (chan' = chan /\ bare' = bare) \/ chan' = NoChannel
    BY <1>1, <1>5, <1>6, <1>8, <1>9, <1>10
  <1> QED
    BY <1>5, <1>11, KeptOrdering DEF q, p

LEMMA RunRan == ASSUME Typed, Typed', Run PROVE Ran(db, Queue, db', Queue')
  <1>1. /\ Len(Queue) > 0 /\ Len(Queue') = Len(Queue) - 1 /\ Queue[1] = Head(txs)
        /\ \A i \in 1..Len(Queue') : Queue'[i] = Queue[i + 1]
    BY RunQueue
  <1> DEFINE o == Head(txs)
  <1>2. /\ o.op = "add" => db' = Drop(Append(db, o.msg), o.excess)
        /\ o.op = "trim" => db' = Drop(db, o.excess)
        /\ o.op = "clear" => db' = <<>>
        /\ o.op \notin {"add", "trim", "clear"} => db' = db
    BY DEF Run
  <1> HIDE DEF o
  <1> QED
    BY <1>1, <1>2 DEF Ran, o

LEMMA RunOrdered == ASSUME Typed, Typed', Ordering, Run PROVE Ordering'
  <1> DEFINE q == Queue
             p == Queue'
             o == q[1]
  <1>1. /\ phase' = phase /\ UNCHANGED <<slips, logged, late, mishaps>>
        /\ o.op # "preload" => cache' = cache /\ chan' = chan
        /\ o.op = "preload" /\ db # <<>> => cache' = Newest(db, logMax)
        /\ chan' = chan \/ (o.op = "preload" /\ chan = NoChannel /\ chan' = cache')
        /\ chan # NoChannel => chan' = chan /\ bare' = bare
    <2>1. o = Head(txs)
      BY RunQueue
    <2> HIDE DEF o
    <2> QED
      BY <2>1 DEF Run
  <1>2. /\ q \in Seq(Orders) /\ p \in Seq(Orders) /\ db \in Seq(Messages) /\ db' \in Seq(Messages)
        /\ Ran(db, q, db', p)
    BY QueueFacts, QueueFactsNext, RunRan DEF Typed, Types
  <1>3. (Settled' => ~Waits(p, "preload")) /\ (~Waits(q, "preload") /\ phase = "chat" => Settled)
    BY WaitsNow, WaitsNext DEF Settled
  <1> SUFFICES ASSUME Fine'
               PROVE  /\ Rising(db', p)
                      /\ \A r \in Rows(db', p) : r <= logged'
                      /\ slips' = 0 => /\ NoneBehind(p)
                                       /\ phase' = "replay" => Adds(p) = {}
                                       /\ Rows(db', p) # {} => Tops'
    BY DEF Ordering
  <1>4. Fine
    BY <1>1 DEF Fine
  <1>5. /\ Rising(db, q) /\ \A r \in Rows(db, q) : r <= logged
        /\ slips = 0 => /\ NoneBehind(q) /\ (phase = "replay" => Adds(q) = {})
                        /\ Rows(db, q) # {} => Tops
    BY <1>4 DEF Ordering
  <1>6. Tops' = /\ Settled' => cache' # <<>> /\ Top(cache'[Len(cache')], db', p)
                /\ chan' # NoChannel /\ ~bare' => \E i \in 1..Len(chan') : Top(chan'[i], db', p)
    BY DEF Tops
  <1>7. Tops = /\ Settled => cache # <<>> /\ Top(cache[Len(cache)], db, q)
               /\ chan # NoChannel /\ ~bare => \E i \in 1..Len(chan) : Top(chan[i], db, q)
    BY DEF Tops
  <1> HIDE DEF q, p, o
  <1>8. /\ Rising(db', p) /\ Rows(db', p) \subseteq Rows(db, q)
        /\ \A t \in Rows(db, q) : Top(t, db, q) /\ Rows(db', p) # {} => Top(t, db', p)
        /\ NoneBehind(q) => NoneBehind(p)
    BY <1>2, <1>5, RanOrder
  <1>9. /\ Len(q) \in Nat /\ Len(q) > 0 /\ Len(p) = Len(q) - 1 /\ 1 \in 1..Len(q)
        /\ \A i \in 1..Len(p) : p[i] = q[i + 1] /\ i + 1 \in 1..Len(q) /\ 1 < i + 1
        /\ \A i \in 1..Len(q) : i = 1 \/ (i - 1 \in 1..Len(p) /\ p[i - 1] = q[i])
    BY <1>2, SeqFacts DEF Ran
  <1>10. Adds(p) \subseteq Adds(q)
    BY <1>9 DEF Adds
  <1>11. ASSUME slips' = 0, Rows(db', p) # {} PROVE Tops'
    <2>1. Tops /\ NoneBehind(q)
      BY <1>1, <1>5, <1>8, <1>11
    <2>2. \A t : Top(t, db, q) => Top(t, db', p)
      BY <1>8, <1>11 DEF Top
    <2>3. CASE o.op = "preload"
      <3>1. Adds(p) = {} /\ db' = db
        <4>1. \A i \in 1..Len(p) : p[i].op # "add"
          BY <1>9, <2>1, <2>3 DEF NoneBehind, o
        <4>2. Adds(p) = {}
          BY <4>1 DEF Adds
        <4> QED
          BY <1>2, <2>3, <4>2 DEF Ran, o
      <3>2. Rows(db', p) = {db[i] : i \in 1..Len(db)}
        BY <3>1 DEF Rows
      <3>3. db # <<>> /\ Len(db) \in Nat /\ Len(db) > 0 /\ \A i \in 1..Len(db) : db[i] \in Messages
        BY <1>2, <1>11, <3>2, SeqFacts
      <3>4. Top(db[Len(db)], db', p)
        <4>1. \A i \in 1..Len(db) : db[i] <= db[Len(db)]
          <5> SUFFICES ASSUME NEW i \in 1..Len(db) PROVE db[i] <= db[Len(db)]
            OBVIOUS
          <5>1. Len(db) \in 1..Len(db) /\ (i = Len(db) \/ i < Len(db))
            BY <3>3
          <5>2. db[i] \in Nat /\ db[Len(db)] \in Nat
            BY <3>3, <5>1, ChatLogAssumption DEF Messages
          <5>3. i < Len(db) => db[i] < db[Len(db)]
            BY <1>5, <5>1 DEF Rising
          <5> QED
            BY <5>1, <5>2, <5>3
        <4> QED
          BY <3>2, <3>3, <4>1 DEF Top
      <3>5. /\ cache' = Newest(db, logMax) /\ logMax \in Nat /\ logMax > 0
        BY <1>1, <2>3, <3>3, LimitFacts DEF Typed, Types
      <3>6. Len(cache') > 0 /\ cache'[Len(cache')] = db[Len(db)] /\ cache' \in Seq(Messages)
        BY <1>2, <3>3, <3>5, NewestFacts
      <3>7. cache' # <<>> /\ Len(cache') \in 1..Len(cache')
        BY <3>6, SeqFacts
      <3>8. chan' # NoChannel /\ ~bare' => \E i \in 1..Len(chan') : Top(chan'[i], db', p)
        <4>1. CASE chan # NoChannel
          BY <1>1, <1>7, <2>1, <2>2, <4>1
        <4>2. CASE chan = NoChannel
          BY <1>1, <3>4, <3>6, <3>7, <4>2
        <4> QED
          BY <4>1, <4>2
      <3> QED
        BY <1>6, <3>4, <3>6, <3>7, <3>8
    <2>4. CASE o.op # "preload"
      <3>1. Waits(q, "preload") => Waits(p, "preload")
        <4> SUFFICES ASSUME NEW i \in 1..Len(q), q[i].op = "preload" PROVE Waits(p, "preload")
          BY DEF Waits
        <4>1. i - 1 \in 1..Len(p) /\ p[i - 1] = q[i]
          BY <1>9, <2>4 DEF o
        <4> QED
          BY <4>1 DEF Waits
      <3>2. Settled' => Settled
        BY <1>1, <1>3, <3>1 DEF Settled
      <3>3. cache' = cache /\ chan' = chan
        BY <1>1, <2>4
      <3> QED
        BY <1>1, <1>6, <1>7, <2>1, <2>2, <3>2, <3>3
    <2> QED
      BY <2>3, <2>4
  <1> QED
    BY <1>1, <1>5, <1>8, <1>10, <1>11

LEMMA NextOrdering == Typed /\ Typed' /\ Ordering /\ [Next]_vars => Ordering'
  <1> SUFFICES ASSUME Typed, Typed', Ordering, [Next]_vars PROVE Ordering'
    OBVIOUS
  <1>1. CASE UNCHANGED vars
    <2>1. /\ UNCHANGED <<db, calls, txs, slips, logged, late>> /\ mishaps \subseteq mishaps'
          /\ phase' = phase /\ cache' = cache /\ chan' = chan /\ bare' = bare
      BY <1>1 DEF vars, page, disk
    <2> QED
      BY <2>1, StillOrdering
  <1>2. ASSUME NEW n \in Limits, SetLogMax(n) PROVE Ordering'
    BY <1>2, SetLogMaxOrdered
  <1>3. ASSUME NEW m \in 1..MaxLogged, Playback(m) PROVE Ordering'
    BY <1>3, PlaybackOrdered DEF Messages
  <1> QED
    BY <1>1, <1>2, <1>3, MessageOrdered, JoinedOrdered, FormOrdered, ReloadOrdered,
       OpenedOrdered, RunOrdered DEF Next

(* Types, and the limit of the cache, for every limit and every number of    *)
(* messages (logMax, app.js:413-460).                                       *)
THEOREM TypeCorrect == Spec => []TypeOK
  <1> QED
    BY InitTyped, NextTyped, TypedIsTypes, PTL DEF Spec

(* InOrder, for every limit and every number of messages: the rows are in   *)
(* the order of the messages, and each message has one.                     *)
THEOREM RowsInOrder == Spec => []InOrder
  <1>1. Typed /\ Ordering => InOrder
    <2>1. Typed => DOMAIN db = 1..Len(db)
      BY SeqFacts DEF Typed, Types
    <2> QED
      BY <2>1 DEF Ordering, Fine, Rising, InOrder, Ascending
  <1> QED
    BY <1>1, InitTyped, NextTyped, InitOrdering, NextOrdering, PTL DEF Spec

-----------------------------------------------------------------------------
(* Forgotten.  What is asked for on a device that is not trusted is neither *)
(* a message nor a stray, and a clearing stays behind all of them.          *)
LEMMA PushClean ==
  ASSUME NEW d, NEW s, NEW q \in Seq(Orders), NEW p, NEW o, Pushed(q, p, o),
         o.op \notin {"add", "stray"}
  PROVE  /\ Clean(d, s, q) => Clean(d, s, p)
         /\ o.op = "clear" => Clean(d, s, p)
  <1>1. /\ Len(q) \in Nat /\ Len(p) = Len(q) + 1 /\ p[Len(q) + 1] = o
        /\ Len(q) + 1 \in 1..Len(p)
        /\ \A i \in 1..Len(q) : i \in 1..Len(p) /\ p[i] = q[i]
        /\ \A i \in 1..Len(p) : i \in 1..Len(q) \/ i = Len(q) + 1
    BY SeqFacts DEF Pushed
  <1>2. ASSUME NEW k \in Nat, Unwritten(q, k) PROVE Unwritten(p, k)
    <2> SUFFICES ASSUME NEW i \in (k + 1)..Len(p) PROVE p[i].op \notin {"add", "stray"}
      BY DEF Unwritten
    <2>1. i \in 1..Len(p)
      BY <1>1
    <2>2. CASE i \in 1..Len(q)
      <3>1. i \in (k + 1)..Len(q)
        BY <1>1, <2>2
      <3> QED
        BY <1>1, <1>2, <2>2, <3>1 DEF Unwritten
    <2> QED
      BY <1>1, <2>1, <2>2
  <1>3. Unwritten(p, Len(q) + 1)
    BY <1>1 DEF Unwritten
  <1>4. Clean(d, s, q) => Clean(d, s, p)
    BY <1>1, <1>2 DEF Clean
  <1> QED
    BY <1>1, <1>3, <1>4 DEF Clean

LEMMA SwapClean ==
  ASSUME NEW d, NEW s, NEW q \in Seq(Orders), NEW p, NEW n \in 1..Len(q), Swapped(q, p, n),
         Clean(d, s, q)
  PROVE  Clean(d, s, p)
  <1>1. /\ Len(p) = Len(q) /\ Len(q) \in Nat
        /\ \A i \in 1..Len(q) : \/ p[i] = q[i]
                                \/ q[i].op = "trim" /\ p[i].op = "trim"
                                \/ q[i].op = "add" /\ p[i].op = "stray"
    BY SeqFacts DEF Swapped
  <1>2. ASSUME NEW k \in Nat, Unwritten(q, k) PROVE Unwritten(p, k)
    <2> SUFFICES ASSUME NEW i \in (k + 1)..Len(q) PROVE p[i].op \notin {"add", "stray"}
      BY <1>1 DEF Unwritten
    <2>1. i \in 1..Len(q) /\ q[i].op \notin {"add", "stray"}
      BY <1>1, <1>2 DEF Unwritten
    <2> QED
      BY <1>1, <2>1
  <1> QED
    BY <1>1, <1>2 DEF Clean

LEMMA SkipClean ==
  ASSUME NEW d, NEW s, NEW q \in Seq(Orders), NEW p, NEW n \in 1..Len(q), Skipped(q, p, n),
         Clean(d, s, q)
  PROVE  Clean(d, s, p)
  <1>1. /\ Len(q) \in Nat /\ Len(p) = Len(q) - 1 /\ q[n].op = "trim" /\ n \in Nat
        /\ \A i \in 1..(Len(q) - 1) : p[i] = IF i < n THEN q[i] ELSE q[i + 1]
    BY SeqFacts DEF Skipped
  <1>2. CASE Len(d) = 0 /\ ~s /\ Unwritten(q, 0)
    <2>1. \A i \in 1..Len(q) : q[i].op \notin {"add", "stray"}
      BY <1>2 DEF Unwritten
    <2>2. \A i \in 1..(Len(q) - 1) : i \in 1..Len(q) /\ i + 1 \in 1..Len(q)
      BY <1>1
    <2>3. Unwritten(p, 0)
      BY <1>1, <2>1, <2>2 DEF Unwritten
    <2> QED
      BY <1>2, <2>3 DEF Clean
  <1>3. ASSUME NEW k \in 1..Len(q), q[k].op = "clear", Unwritten(q, k) PROVE Clean(d, s, p)
    <2> DEFINE l == IF k < n THEN k ELSE k - 1
    <2>1. k # n
      BY <1>1, <1>3
    <2>2. l \in 1..Len(p) /\ l \in Nat /\ p[l] = q[k] /\ l + 1 \in Nat
      <3>1. CASE k < n
        BY <1>1, <3>1
      <3>2. CASE k > n
        <4>1. k - 1 \in 1..(Len(q) - 1) /\ ~(k - 1 < n) /\ (k - 1) + 1 = k
          BY <1>1, <3>2
        <4> QED
          BY <1>1, <3>2, <4>1
      <3> QED
        BY <1>1, <2>1, <3>1, <3>2
    <2>3. ASSUME NEW i \in (l + 1)..Len(p) PROVE p[i].op \notin {"add", "stray"}
      <3>1. i \in 1..(Len(q) - 1)
        BY <1>1, <2>2
      <3>2. CASE i < n
        <4>1. i \in (k + 1)..Len(q)
          BY <1>1, <2>1, <2>3, <3>1, <3>2
        <4> QED
          BY <1>1, <1>3, <3>1, <3>2, <4>1 DEF Unwritten
      <3>3. CASE i >= n
        <4>1. i + 1 \in (k + 1)..Len(q)
          BY <1>1, <2>1, <2>3, <3>1, <3>3
        <4>2. p[i] = q[i + 1]
          BY <1>1, <3>1, <3>3
        <4> QED
          BY <1>3, <4>1, <4>2 DEF Unwritten
      <3> QED
        BY <1>1, <3>1, <3>2, <3>3
    <2> HIDE DEF l
    <2> QED
      BY <1>3, <2>2, <2>3 DEF Clean, Unwritten
  <1> QED
    BY <1>2, <1>3 DEF Clean

LEMMA RunClean ==
  ASSUME Typed, Typed', Run, Clean(db, strays, Queue) PROVE Clean(db', strays', Queue')
  <1> DEFINE q == Queue
             p == Queue'
             o == q[1]
  <1>1. /\ q \in Seq(Orders) /\ db \in Seq(Messages) /\ Ran(db, q, db', p)
    BY QueueFacts, RunRan DEF Typed, Types
  <1>2. strays' = (o.op = "stray" \/ (strays /\ o.op # "clear"))
    <2>1. o = Head(txs)
      BY RunQueue
    <2> HIDE DEF o
    <2> QED
      BY <2>1 DEF Run
  <1> HIDE DEF q, p
  <1>3. /\ Len(q) \in Nat /\ Len(q) > 0 /\ Len(p) = Len(q) - 1 /\ 1 \in 1..Len(q)
        /\ \A i \in 1..Len(p) : p[i] = q[i + 1]
    BY <1>1, SeqFacts DEF Ran
  <1>4. o.excess \in Nat
    BY <1>1, <1>3, QueueOps
  <1> HIDE DEF o
  <1>5. ASSUME NEW k \in 1..Len(q), Unwritten(q, k) PROVE Unwritten(p, k - 1)
    <2> SUFFICES ASSUME NEW i \in (k - 1 + 1)..Len(p) PROVE p[i].op \notin {"add", "stray"}
      BY DEF Unwritten
    <2>1. i \in 1..Len(p) /\ i + 1 \in (k + 1)..Len(q)
      BY <1>3
    <2> QED
      BY <1>3, <1>5, <2>1 DEF Unwritten
  <1>6. ASSUME Len(db) = 0, ~strays, Unwritten(q, 0) PROVE Clean(db', strays', p)
    <2>1. \A i \in 1..Len(q) : q[i].op \notin {"add", "stray"}
      BY <1>6 DEF Unwritten
    <2>2. o.op \notin {"add", "stray"}
      BY <1>3, <2>1 DEF o
    <2>3. Len(db') = 0
      <3>1. o.op = "trim" => db' = Drop(db, o.excess) /\ Len(Drop(db, o.excess)) = 0
        <4>1. o.excess >= Len(db)
          BY <1>4, <1>6
        <4>2. Len(Drop(db, o.excess)) = 0
          BY <1>1, <1>4, <4>1, DropFacts
        <4>3. o.op = "trim" => db' = Drop(db, o.excess)
          BY <1>1 DEF Ran, o
        <4> QED
          BY <4>2, <4>3
      <3>2. o.op = "clear" => db' = <<>> /\ Len(<<>>) = 0
        BY <1>1, EmptyFacts DEF Ran, o
      <3>3. o.op \notin {"add", "trim", "clear"} => db' = db
        BY <1>1 DEF Ran, o
      <3> QED
        BY <1>6, <2>2, <3>1, <3>2, <3>3
    <2>4. Unwritten(p, 0)
      <3>1. \A i \in 1..Len(p) : i + 1 \in 1..Len(q)
        BY <1>3
      <3> QED
        BY <1>3, <2>1, <3>1 DEF Unwritten
    <2>5. ~strays'
      BY <1>2, <1>6, <2>2
    <2> QED
      BY <2>3, <2>4, <2>5 DEF Clean
  <1>7. ASSUME NEW k \in 1..Len(q), q[k].op = "clear", Unwritten(q, k)
        PROVE  Clean(db', strays', p)
    <2>1. CASE k = 1
      <3>1. o.op = "clear" /\ db' = <<>> /\ Len(<<>>) = 0
        BY <1>1, <1>7, <2>1, EmptyFacts DEF Ran, o
      <3>2. ~strays'
        BY <1>2, <3>1
      <3>3. Unwritten(p, 0)
        <4>1. k - 1 = 0
          BY <2>1
        <4> QED
          BY <1>5, <1>7, <4>1
      <3> QED
        BY <3>1, <3>2, <3>3 DEF Clean
    <2>2. CASE k # 1
      <3>1. k - 1 \in 1..Len(p) /\ (k - 1) + 1 = k
        BY <1>3, <2>2
      <3>2. p[k - 1].op = "clear" /\ Unwritten(p, k - 1)
        BY <1>3, <1>5, <1>7, <3>1
      <3> QED
        BY <3>1, <3>2 DEF Clean
    <2> QED
      BY <2>1, <2>2
  <1> QED
    BY <1>6, <1>7 DEF Clean, q, p

LEMMA InitForgetting == Init => Forgetting
  BY DEF Init, Forgetting

(* A step that leaves what is under way. *)
LEMMA StillForgetting ==
  ASSUME Forgetting, UNCHANGED <<db, strays, calls, txs, trusted>>, mishaps \subseteq mishaps'
  PROVE  Forgetting'
  BY DEF Forgetting, Queue

(* A step that asks for something that is not a message. *)
LEMMA AskForgetting ==
  ASSUME Typed, Typed', Forgetting, NEW o \in Orders, getDB(o), o.op \notin {"add", "stray"},
         UNCHANGED <<db, strays>>, trusted' = trusted \/ o.op = "clear",
         mishaps \subseteq mishaps', "overtaken" \notin mishaps' => ~(idb /\ calls # <<>>)
  PROVE  Forgetting'
  <1> SUFFICES ASSUME ~trusted', "overtaken" \notin mishaps', "clear" \notin mishaps'
               PROVE  Clean(db', strays', Queue')
    BY DEF Forgetting
  <1>1. Queue \in Seq(Orders) /\ Pushed(Queue, Queue', o)
    BY Push, QueueFacts
  <1>2. /\ Clean(db, strays, Queue) => Clean(db, strays, Queue')
        /\ o.op = "clear" => Clean(db, strays, Queue')
    BY <1>1, PushClean
  <1>3. o.op = "clear" \/ Clean(db, strays, Queue)
    BY DEF Forgetting
  <1>4. Clean(db, strays, Queue')
    BY <1>2, <1>3
  <1> QED
    BY <1>4

LEMMA ClearForgetting ==
  ASSUME Typed, Typed', Forgetting, clearLocalData, UNCHANGED <<db, strays>> PROVE Forgetting'
  <1>1. Op("clear", 0, 0) \in Orders /\ Op("clear", 0, 0).op = "clear"
    BY OpFacts
  <1>2. getDB(Op("clear", 0, 0)) /\ Note(Overtaking)
    BY DEF clearLocalData
  <1>3. /\ mishaps \subseteq mishaps'
        /\ "overtaken" \notin mishaps' => ~(idb /\ calls # <<>>)
    BY <1>2, NoteOnly
  <1> QED
    BY <1>1, <1>2, <1>3, AskForgetting

LEMMA MessagesForgetting ==
  ASSUME Forgetting, Message \/ (\E m \in 1..MaxLogged : Playback(m)) PROVE Forgetting'
  <1>1. trusted' = trusted /\ UNCHANGED <<db, strays>>
    BY DEF Message, Playback
  <1>2. CASE trusted
    BY <1>1, <1>2 DEF Forgetting
  <1>3. CASE ~trusted
    <2>1. UNCHANGED <<calls, txs, mishaps>>
      BY <1>3, NotKept DEF Message, Playback
    <2> QED
      BY <1>1, <2>1, StillForgetting
  <1> QED
    BY <1>2, <1>3

LEMMA PageForgetting ==
  ASSUME Typed, Typed', Forgetting, Joined \/ Left \/ Submit \/ Preload PROVE Forgetting'
  <1>1. CASE Joined \/ Left \/ Submit
    <2>1. UNCHANGED <<db, strays, calls, txs, trusted, mishaps>>
      BY <1>1 DEF Joined, Left, Submit, disk
    <2> QED
      BY <2>1, StillForgetting
  <1>2. CASE Preload
    <2>1. Op("preload", 0, 0) \in Orders /\ Op("preload", 0, 0).op = "preload"
      BY OpFacts
    <2>2. /\ getDB(Op("preload", 0, 0)) /\ Note(Overtaking)
          /\ UNCHANGED <<db, strays>> /\ trusted' = trusted
      BY <1>2 DEF Preload
    <2>3. /\ mishaps \subseteq mishaps'
          /\ "overtaken" \notin mishaps' => ~(idb /\ calls # <<>>)
      BY <2>2, NoteOnly
    <2> QED
      BY <2>1, <2>2, <2>3, AskForgetting
  <1> QED
    BY <1>1, <1>2

LEMMA FormForgetting ==
  ASSUME Typed, Typed', Forgetting, Disconnect \/ SetTrusted PROVE Forgetting'
  <1>1. CASE Disconnect
    <2>1. CASE trusted
      BY <1>1, <2>1, StillForgetting DEF Disconnect
    <2>2. CASE ~trusted
      BY <1>1, <2>2, ClearForgetting DEF Disconnect
    <2> QED
      BY <2>1, <2>2
  <1>2. CASE SetTrusted
    <2>1. CASE trusted
      BY <1>2, <2>1, ClearForgetting DEF SetTrusted
    <2>2. CASE ~trusted
      BY <1>2, <2>2 DEF SetTrusted, Forgetting
    <2> QED
      BY <2>1, <2>2
  <1> QED
    BY <1>1, <1>2

LEMMA SetLogMaxForgetting ==
  ASSUME Typed, Typed', Forgetting, NEW n \in Limits, SetLogMax(n) PROVE Forgetting'
  <1> DEFINE S == {x \in {"lowered"} : n < logMax /\ Waiting("preload")}
             e == IF idb THEN Excess(cache, n) ELSE 0
  <1>1. /\ logMax' = n /\ UNCHANGED <<db, strays, trusted>> /\ Note(Overtaking \cup S)
        /\ trimAllCaches
    BY DEF SetLogMax
  <1> HIDE DEF S
  <1>2. /\ mishaps \subseteq mishaps'
        /\ "overtaken" \notin mishaps' => ~(idb /\ calls # <<>>)
    BY <1>1, NoteFacts
  <1>3. CASE idb /\ Len(cache) <= n
    <2>1. UNCHANGED <<calls, txs>>
      BY <1>1, <1>3 DEF trimAllCaches
    <2> QED
      BY <1>1, <1>2, <2>1, StillForgetting
  <1>4. CASE ~(idb /\ Len(cache) <= n)
    <2>1. getDB(Op("trim", 0, e))
      BY <1>1, <1>4 DEF trimAllCaches
    <2>2. n \in Nat /\ cache \in Seq(Messages)
      BY LimitFacts DEF Typed, Types
    <2>3. e \in Nat
      BY <2>2, NewestFacts
    <2> HIDE DEF e
    <2>4. Op("trim", 0, e) \in Orders /\ Op("trim", 0, e).op = "trim"
      BY <2>3, OpFacts
    <2> QED
      BY <1>1, <1>2, <2>1, <2>4, AskForgetting
  <1> QED
    BY <1>3, <1>4

(* A reload that loses no clearing finds all cleared. *)
LEMMA ReloadForgetting == ASSUME Typed, Typed', Forgetting, Reload PROVE Forgetting'
  <1> SUFFICES ASSUME ~trusted', "overtaken" \notin mishaps', "clear" \notin mishaps'
               PROVE  Clean(db', strays', Queue')
    BY DEF Forgetting
  <1>1. /\ UNCHANGED <<db, strays, trusted>> /\ calls' = <<>> /\ txs' = <<>>
        /\ {x \in {"clear", "trim"} : Waiting(x)} \subseteq mishaps' /\ mishaps \subseteq mishaps'
    BY DEF Reload, Note
  <1>2. ~Waiting("clear")
    BY <1>1
  <1>3. ~Waits(Queue, "clear")
    BY <1>2, WaitsNow
  <1>4. Clean(db, strays, Queue)
    BY <1>1 DEF Forgetting
  <1>5. Len(db) = 0 /\ ~strays
    BY <1>3, <1>4 DEF Clean, Waits
  <1>6. Len(Queue') = 0
    BY <1>1, EmptyQueueNext
  <1>7. Unwritten(Queue', 0)
    BY <1>6 DEF Unwritten
  <1> QED
    BY <1>1, <1>5, <1>7 DEF Clean

LEMMA OpenedForgetting == ASSUME Typed, Typed', Forgetting, Opened PROVE Forgetting'
  <1> SUFFICES ASSUME ~trusted', "overtaken" \notin mishaps', "clear" \notin mishaps'
               PROVE  Clean(db', strays', Queue')
    BY DEF Forgetting
  <1>1. UNCHANGED <<db, strays, trusted, mishaps>>
    BY DEF Opened
  <1>2. Clean(db, strays, Queue) /\ Queue \in Seq(Orders)
    BY <1>1, QueueFacts DEF Forgetting
  <1>3. PICK n \in 1..Len(Queue) : Swapped(Queue, Queue', n) \/ Skipped(Queue, Queue', n)
    BY OpenedQueue
  <1>4. Clean(db, strays, Queue')
    BY <1>2, <1>3, SwapClean, SkipClean
  <1> QED
    BY <1>1, <1>4

LEMMA RunForgetting == ASSUME Typed, Typed', Forgetting, Run PROVE Forgetting'
  <1>1. UNCHANGED <<trusted, mishaps>>
    BY DEF Run
  <1> QED
    BY <1>1, RunClean DEF Forgetting

LEMMA NextForgetting == Typed /\ Typed' /\ Forgetting /\ [Next]_vars => Forgetting'
  <1> SUFFICES ASSUME Typed, Typed', Forgetting, [Next]_vars PROVE Forgetting'
    OBVIOUS
  <1>1. CASE UNCHANGED vars
    <2>1. UNCHANGED <<db, strays, calls, txs, trusted, mishaps>>
      BY <1>1 DEF vars, page, disk
    <2> QED
      BY <2>1, StillForgetting
  <1>2. ASSUME NEW n \in Limits, SetLogMax(n) PROVE Forgetting'
    BY <1>2, SetLogMaxForgetting
  <1> QED
    BY <1>1, <1>2, MessagesForgetting, PageForgetting, FormForgetting, ReloadForgetting,
       OpenedForgetting, RunForgetting DEF Next

(* Forgotten, for every limit and every number of messages: what is left on *)
(* a device that is not trusted when all calls have been answered.          *)
THEOREM NothingIsLeftBehind == Spec => []Forgotten
  <1>1. Typed /\ Forgetting => Forgotten
    <2> SUFFICES ASSUME Typed, Forgetting, Quiet, ~trusted, mishaps \subseteq {"trim", "lowered"}
                 PROVE  db = <<>> /\ ~strays
      BY DEF Forgotten
    <2>1. Clean(db, strays, Queue)
      BY DEF Forgetting
    <2>2. Len(Queue) = 0
      BY EmptyQueue DEF Quiet
    <2>3. Len(db) = 0 /\ ~strays
      BY <2>1, <2>2 DEF Clean
    <2> QED
      BY <2>3, SeqFacts DEF Typed, Types
  <1> QED
    BY <1>1, InitTyped, NextTyped, InitForgetting, NextForgetting, PTL DEF Spec

-----------------------------------------------------------------------------
(* Bounded.  How many rows there are when the first, the second, ... of the *)
(* queue has run: b[0] now, b[Len(q)] in the end.                           *)
Remains(n, o) == IF o.op = "add" THEN n + 1 - o.excess
                 ELSE IF o.op = "trim" THEN IF n > o.excess THEN n - o.excess ELSE 0
                 ELSE IF o.op = "clear" THEN 0 ELSE n
Counted(b, r, q) ==
    /\ b \in [0..Len(q) -> Nat] /\ b[0] = r
    /\ \A i \in 1..Len(q) : b[i] = Remains(b[i - 1], q[i])

(* They grow but for trimmings that have something to cut and clearings,    *)
(* the limit m is kept once the former have run, and when a preload has     *)
(* read them at most s come after.                                          *)
Cuts(o) == o.op = "trim" /\ o.excess > 0
CutIn(q, i, j) == \E l \in (i + 1)..j : Cuts(q[l])
LostIn(q, i, j) == \E l \in (i + 1)..j : Cuts(q[l]) \/ q[l].op = "clear"
Growing(b, q) == \A i, j \in 0..Len(q) : i <= j => b[i] <= b[j] \/ LostIn(q, i, j)
Within(b, q, m) == \A i \in 0..Len(q) : b[i] <= m \/ CutIn(q, i, Len(q))
Reading(b, q, s) == \A k \in 1..Len(q) : q[k].op = "preload" => b[Len(q)] <= b[k] + s
Chained(b, r, q, m, s) ==
    Counted(b, r, q) /\ Growing(b, q) /\ Within(b, q, m) /\ Reading(b, q, s)

LEMMA RemainsFacts ==
  ASSUME NEW n \in Nat, NEW o \in Orders, o.op = "add" => o.excess <= 1
  PROVE  /\ Remains(n, o) \in Nat
         /\ n <= Remains(n, o) \/ Cuts(o) \/ o.op = "clear"
  BY DEF Remains, Cuts, Orders, Calls

LEMMA CountedFacts ==
  ASSUME NEW q \in Seq(Orders), NEW b, NEW r, Counted(b, r, q)
  PROVE  /\ Len(q) \in Nat /\ \A i \in 0..Len(q) : b[i] \in Nat
         /\ 0 \in 0..Len(q) /\ Len(q) \in 0..Len(q) /\ b[Len(q)] \in Nat /\ r \in Nat
  <1>1. Len(q) \in Nat /\ 0 \in 0..Len(q) /\ Len(q) \in 0..Len(q)
    BY SeqFacts
  <1>2. \A i \in 0..Len(q) : b[i] \in Nat
    BY DEF Counted
  <1> QED
    BY <1>1, <1>2 DEF Counted

Longer(b, q, o) == [i \in 0..(Len(q) + 1) |-> IF i <= Len(q) THEN b[i] ELSE Remains(b[Len(q)], o)]

LEMMA PushChain ==
  ASSUME NEW q \in Seq(Orders), NEW p, NEW o \in Orders, Pushed(q, p, o),
         NEW b, NEW r, NEW m \in Nat, NEW n \in Nat, NEW s \in Nat, NEW t \in Nat,
         Chained(b, r, q, m, s), o.op = "add" => o.excess <= 1, s <= t,
         m <= n \/ Cuts(o), Remains(b[Len(q)], o) <= n,
         Waits(q, "preload") => Remains(b[Len(q)], o) + s <= b[Len(q)] + t
  PROVE  /\ Chained(Longer(b, q, o), r, p, n, t)
         /\ Longer(b, q, o)[Len(p)] = Remains(b[Len(q)], o)
  <1> DEFINE c == Longer(b, q, o)
             e == Len(q)
             f == Remains(b[e], o)
  <1>1. /\ e \in Nat /\ Len(p) = e + 1 /\ p[e + 1] = o
        /\ \A i \in 1..e : p[i] = q[i]
    BY SeqFacts DEF Pushed
  <1>2. /\ \A i \in 0..e : b[i] \in Nat
        /\ b[0] = r /\ b[e] \in Nat /\ f \in Nat /\ 0 \in 0..e /\ e \in 0..e
    BY CountedFacts, RemainsFacts DEF Chained, Counted
  <1>3. b[e] <= f \/ Cuts(o) \/ o.op = "clear"
    BY <1>2, RemainsFacts
  <1>4. /\ \A i \in 0..e : c[i] = b[i] /\ c[i] \in Nat
        /\ c[e + 1] = f /\ c \in [0..(e + 1) -> Nat]
    <2>1. /\ \A i \in 0..e : i \in 0..(e + 1) /\ i <= e
          /\ e + 1 \in 0..(e + 1) /\ ~(e + 1 <= e)
      BY <1>1
    <2>2. c = [i \in 0..(e + 1) |-> IF i <= e THEN b[i] ELSE f]
      BY DEF Longer
    <2> HIDE DEF c, f
    <2>3. \A i \in 0..(e + 1) : (IF i <= e THEN b[i] ELSE f) \in Nat
      BY <1>1, <1>2
    <2> QED
      BY <1>2, <2>1, <2>2, <2>3
  <1>5. \A i \in 1..e : b[i] = Remains(b[i - 1], q[i])
    BY DEF Chained, Counted
  <1>6. Growing(b, q) /\ Within(b, q, m) /\ Reading(b, q, s) /\ f <= n
        /\ (Waits(q, "preload") => f + s <= b[e] + t)
    BY DEF Chained
  <1>7. f = Remains(b[e], o)
    OBVIOUS
  <1> HIDE DEF c, e, f
  <1>8. Counted(c, r, p)
    <2>1. ASSUME NEW i \in 1..Len(p) PROVE c[i] = Remains(c[i - 1], p[i])
      <3>1. CASE i = e + 1
        <4>1. i - 1 = e
          BY <1>1, <3>1
        <4> QED
          BY <1>1, <1>2, <1>4, <1>7, <3>1, <4>1
      <3>2. CASE i # e + 1
        <4>1. i \in 1..e /\ i \in 0..e /\ i - 1 \in 0..e
          BY <1>1, <3>2
        <4> QED
          BY <1>1, <1>4, <1>5, <4>1
      <3> QED
        BY <3>1, <3>2
    <2> QED
      BY <1>1, <1>2, <1>4, <2>1 DEF Counted
  <1>9. Growing(c, p)
    <2> SUFFICES ASSUME NEW i \in 0..Len(p), NEW j \in 0..Len(p), i <= j
                 PROVE  c[i] <= c[j] \/ LostIn(p, i, j)
      BY DEF Growing
    <2>1. ASSUME i \in 0..e, NEW k \in 0..e, i <= k, LostIn(q, i, k), k <= j PROVE LostIn(p, i, j)
      <3>1. PICK l \in (i + 1)..k : Cuts(q[l]) \/ q[l].op = "clear"
        BY <2>1 DEF LostIn
      <3>2. l \in (i + 1)..j /\ p[l] = q[l]
        BY <1>1, <2>1
      <3> QED
        BY <3>1, <3>2 DEF LostIn
    <2>2. CASE j \in 0..e
      <3>1. i \in 0..e
        BY <1>1, <2>2
      <3>2. b[i] <= b[j] \/ LostIn(q, i, j)
        BY <1>6, <2>2, <3>1 DEF Growing, e
      <3> QED
        BY <1>4, <2>1, <2>2, <3>1, <3>2
    <2>3. CASE i \in 0..e /\ j = e + 1
      <3>1. b[i] <= b[e] \/ LostIn(q, i, e)
        BY <1>1, <1>2, <1>6, <2>3 DEF Growing, e
      <3>2. LostIn(q, i, e) => LostIn(p, i, j)
        BY <1>1, <1>2, <2>1, <2>3
      <3>3. Cuts(o) \/ o.op = "clear" => LostIn(p, i, j)
        <4>1. e + 1 \in (i + 1)..j
          BY <1>1, <2>3
        <4> QED
          BY <1>1, <4>1 DEF LostIn
      <3>4. c[i] = b[i] /\ c[j] = f /\ b[i] \in Nat
        BY <1>2, <1>4, <2>3
      <3> QED
        BY <1>2, <1>3, <3>1, <3>2, <3>3, <3>4
    <2>4. CASE i = e + 1
      <3>1. j = e + 1
        BY <1>1, <2>4
      <3> QED
        BY <1>2, <1>4, <2>4, <3>1
    <2> QED
      BY <1>1, <2>2, <2>3, <2>4
  <1>10. Within(c, p, n)
    <2> SUFFICES ASSUME NEW i \in 0..Len(p) PROVE c[i] <= n \/ CutIn(p, i, Len(p))
      BY DEF Within
    <2>1. CASE i = e + 1
      BY <1>4, <1>6, <2>1
    <2>2. CASE i \in 0..e
      <3>1. b[i] <= m \/ CutIn(q, i, e)
        BY <1>6, <2>2 DEF Within, e
      <3>2. ASSUME CutIn(q, i, e) PROVE CutIn(p, i, Len(p))
        <4>1. PICK l \in (i + 1)..e : Cuts(q[l])
          BY <3>2 DEF CutIn
        <4>2. l \in (i + 1)..Len(p) /\ p[l] = q[l]
          BY <1>1, <2>2
        <4> QED
          BY <4>1, <4>2 DEF CutIn
      <3>3. ASSUME Cuts(o) PROVE CutIn(p, i, Len(p))
        <4>1. e + 1 \in (i + 1)..Len(p)
          BY <1>1, <2>2
        <4> QED
          BY <1>1, <3>3, <4>1 DEF CutIn
      <3>4. c[i] = b[i] /\ b[i] \in Nat
        BY <1>2, <1>4, <2>2
      <3> QED
        BY <3>1, <3>2, <3>3, <3>4
    <2> QED
      BY <1>1, <2>1, <2>2
  <1>11. Reading(c, p, t)
    <2> SUFFICES ASSUME NEW k \in 1..Len(p), p[k].op = "preload" PROVE c[Len(p)] <= c[k] + t
      BY DEF Reading
    <2>1. CASE k = e + 1
      <3>1. c[Len(p)] = c[k] /\ c[k] = f
        BY <1>1, <1>4, <2>1
      <3> QED
        BY <1>2, <3>1
    <2>2. CASE k \in 1..e
      <3>1. q[k].op = "preload" /\ k \in 0..e /\ Waits(q, "preload")
        BY <1>1, <2>2 DEF Waits, e
      <3>2. b[e] <= b[k] + s /\ f + s <= b[e] + t
        BY <1>6, <2>2, <3>1 DEF Reading, e
      <3>3. c[k] = b[k] /\ b[k] \in Nat /\ c[Len(p)] = f
        BY <1>1, <1>2, <1>4, <3>1
      <3>4. b[e] \in Nat /\ f \in Nat /\ s \in Nat /\ t \in Nat
        BY <1>2
      <3> QED
        BY <3>2, <3>3, <3>4
    <2> QED
      BY <1>1, <2>1, <2>2
  <1> QED
    BY <1>1, <1>4, <1>8, <1>9, <1>10, <1>11 DEF Chained, c, e, f

(* The limit may be raised, or lowered if nothing is left to be lost. *)
LEMMA MoreChain ==
  ASSUME NEW q \in Seq(Orders), NEW b, NEW r, NEW m \in Nat, NEW n \in Nat, NEW s \in Nat,
         Chained(b, r, q, m, s),
         \/ m <= n
         \/ b[Len(q)] <= n /\ \A i \in 1..Len(q) : q[i].op # "clear"
  PROVE  Chained(b, r, q, n, s)
  <1>1. /\ \A i \in 0..Len(q) : b[i] \in Nat
        /\ Len(q) \in Nat /\ Len(q) \in 0..Len(q) /\ b[Len(q)] \in Nat
    BY CountedFacts DEF Chained
  <1>2. Within(b, q, m) /\ Growing(b, q)
    BY DEF Chained
  <1>3. ASSUME NEW i \in 0..Len(q) PROVE b[i] <= n \/ CutIn(q, i, Len(q))
    <2>1. CASE m <= n
      BY <1>1, <1>2, <2>1 DEF Within
    <2>2. CASE b[Len(q)] <= n /\ \A l \in 1..Len(q) : q[l].op # "clear"
      <3>1. b[i] <= b[Len(q)] \/ LostIn(q, i, Len(q))
        BY <1>1, <1>2 DEF Growing
      <3>2. ASSUME LostIn(q, i, Len(q)) PROVE CutIn(q, i, Len(q))
        <4>1. PICK l \in (i + 1)..Len(q) : Cuts(q[l]) \/ q[l].op = "clear"
          BY <3>2 DEF LostIn
        <4>2. l \in 1..Len(q)
          BY <1>1
        <4> QED
          BY <2>2, <4>1, <4>2 DEF CutIn
      <3> QED
        BY <1>1, <2>2, <3>1, <3>2
    <2> QED
      BY <2>1, <2>2
  <1> QED
    BY <1>3 DEF Chained, Within

(* The first of the queue has run. *)
Shorter(b, p) == [i \in 0..Len(p) |-> b[i + 1]]

LEMMA RunChain ==
  ASSUME NEW q \in Seq(Orders), NEW p \in Seq(Orders), Len(q) > 0, Len(p) = Len(q) - 1,
         \A i \in 1..Len(p) : p[i] = q[i + 1],
         NEW b, NEW r, NEW m \in Nat, NEW s \in Nat, Chained(b, r, q, m, s)
  PROVE  /\ Chained(Shorter(b, p), b[1], p, m, s)
         /\ Shorter(b, p)[Len(p)] = b[Len(q)] /\ b[1] = Remains(r, q[1])
  <1> DEFINE c == Shorter(b, p)
             e == Len(p)
  <1>1. /\ e \in Nat /\ Len(q) = e + 1 /\ \A i \in 1..e : p[i] = q[i + 1]
        /\ \A i \in 0..(e + 1) : b[i] \in Nat
        /\ b[0] = r /\ \A i \in 1..(e + 1) : b[i] = Remains(b[i - 1], q[i])
    <2>1. e \in Nat /\ Len(q) \in Nat /\ Len(q) = e + 1
      BY SeqFacts
    <2>2. Counted(b, r, q)
      BY DEF Chained
    <2>3. /\ \A i \in 0..Len(q) : b[i] \in Nat
          /\ b[0] = r /\ \A i \in 1..Len(q) : b[i] = Remains(b[i - 1], q[i])
      BY <2>2 DEF Counted
    <2> QED
      BY <2>1, <2>3
  <1>2. /\ Growing(b, q) /\ Within(b, q, m) /\ Reading(b, q, s)
    BY DEF Chained
  <1>3. /\ \A i \in 0..e : c[i] = b[i + 1] /\ i + 1 \in 0..(e + 1) /\ c[i] \in Nat
        /\ c \in [0..e -> Nat]
    <2>1. \A i \in 0..e : i + 1 \in 0..(e + 1)
      BY <1>1
    <2>2. c = [i \in 0..e |-> b[i + 1]]
      BY DEF Shorter
    <2> HIDE DEF c, e
    <2> QED
      BY <1>1, <2>1, <2>2
  <1> HIDE DEF c, e
  <1>4. Counted(c, b[1], p)
    <2>1. c[0] = b[1]
      <3>1. 0 \in 0..e /\ 0 + 1 = 1
        BY <1>1
      <3> QED
        BY <1>3, <3>1
    <2>2. ASSUME NEW i \in 1..e PROVE c[i] = Remains(c[i - 1], p[i])
      <3>1. i \in 0..e /\ i - 1 \in 0..e /\ (i - 1) + 1 = i /\ i + 1 \in 1..(e + 1) /\ (i + 1) - 1 = i
        BY <1>1
      <3>2. c[i] = b[i + 1] /\ c[i - 1] = b[i] /\ p[i] = q[i + 1]
        BY <1>1, <1>3, <3>1
      <3>3. b[i + 1] = Remains(b[i], q[i + 1])
        BY <1>1, <3>1
      <3> QED
        BY <3>2, <3>3
    <2> QED
      BY <1>3, <2>1, <2>2 DEF Counted, e
  <1>5. ASSUME NEW i \in 0..e, NEW j \in 0..e
        PROVE  /\ LostIn(q, i + 1, j + 1) => LostIn(p, i, j)
               /\ CutIn(q, i + 1, j + 1) => CutIn(p, i, j)
    <2>1. ASSUME NEW l \in (i + 1 + 1)..(j + 1) PROVE l - 1 \in (i + 1)..j /\ p[l - 1] = q[l]
      <3>1. l - 1 \in 1..e /\ (l - 1) + 1 = l
        BY <1>1
      <3> QED
        BY <1>1, <3>1
    <2> QED
      BY <2>1 DEF LostIn, CutIn
  <1>6. Growing(c, p)
    <2> SUFFICES ASSUME NEW i \in 0..e, NEW j \in 0..e, i <= j
                 PROVE  c[i] <= c[j] \/ LostIn(p, i, j)
      BY DEF Growing, e
    <2>1. i + 1 \in 0..Len(q) /\ j + 1 \in 0..Len(q) /\ i + 1 <= j + 1
      BY <1>1
    <2>2. b[i + 1] <= b[j + 1] \/ LostIn(q, i + 1, j + 1)
      BY <1>2, <2>1 DEF Growing
    <2> QED
      BY <1>3, <1>5, <2>2
  <1>7. Within(c, p, m)
    <2> SUFFICES ASSUME NEW i \in 0..e PROVE c[i] <= m \/ CutIn(p, i, e)
      BY DEF Within, e
    <2>1. i + 1 \in 0..Len(q) /\ e \in 0..e
      BY <1>1
    <2>2. b[i + 1] <= m \/ CutIn(q, i + 1, e + 1)
      BY <1>1, <1>2, <2>1 DEF Within
    <2> QED
      BY <1>3, <1>5, <2>1, <2>2
  <1>8. Reading(c, p, s)
    <2> SUFFICES ASSUME NEW k \in 1..e, p[k].op = "preload" PROVE c[e] <= c[k] + s
      BY DEF Reading, e
    <2>1. k + 1 \in 1..Len(q) /\ q[k + 1].op = "preload" /\ k \in 0..e /\ e \in 0..e
      BY <1>1
    <2>2. b[e + 1] <= b[k + 1] + s
      BY <1>1, <1>2, <2>1 DEF Reading
    <2> QED
      BY <1>3, <2>1, <2>2
  <1>9. c[e] = b[Len(q)]
    <2>1. e \in 0..e
      BY <1>1
    <2> QED
      BY <1>1, <1>3, <2>1
  <1>10. b[1] = Remains(r, q[1])
    <2>1. 1 \in 1..(e + 1) /\ 1 - 1 = 0
      BY <1>1
    <2> QED
      BY <1>1, <2>1
  <1> QED
    BY <1>4, <1>6, <1>7, <1>8, <1>9, <1>10 DEF Chained, c, e

(* A trimming that has nothing to cut falls away. *)
Spliced(b, p, n) == [i \in 0..Len(p) |-> IF i < n THEN b[i] ELSE b[i + 1]]

LEMMA SkipChain ==
  ASSUME NEW q \in Seq(Orders), NEW p \in Seq(Orders), NEW n \in 1..Len(q), Skipped(q, p, n),
         q[n].excess = 0,
         NEW b, NEW r, NEW m \in Nat, NEW s \in Nat, Chained(b, r, q, m, s)
  PROVE  Chained(Spliced(b, p, n), r, p, m, s) /\ Spliced(b, p, n)[Len(p)] = b[Len(q)]
  <1> DEFINE c == Spliced(b, p, n)
             e == Len(p)
             K(i) == IF i < n THEN i ELSE i + 1
  <1>1. /\ e \in Nat /\ Len(q) = e + 1 /\ n \in 1..(e + 1) /\ n \in Nat
        /\ \A i \in 1..e : p[i] = q[K(i)]
        /\ q[n].op = "trim" /\ ~Cuts(q[n])
    BY SeqFacts DEF Skipped, Cuts
  <1>2. /\ \A i \in 0..(e + 1) : b[i] \in Nat
        /\ b[0] = r /\ \A i \in 1..(e + 1) : b[i] = Remains(b[i - 1], q[i])
    <2>1. Counted(b, r, q)
      BY DEF Chained
    <2> QED
      BY <1>1, <2>1 DEF Counted
  <1>3. /\ Growing(b, q) /\ Within(b, q, m) /\ Reading(b, q, s)
    BY DEF Chained
  <1>4. \A i \in 0..e : K(i) \in 0..(e + 1)
    BY <1>1
  <1>5. /\ \A i \in 0..e : c[i] = b[K(i)] /\ c[i] \in Nat
        /\ c \in [0..e -> Nat]
    <2>1. \A i \in 0..e : (IF i < n THEN b[i] ELSE b[i + 1]) = b[K(i)]
      OBVIOUS
    <2>2. c = [i \in 0..e |-> IF i < n THEN b[i] ELSE b[i + 1]]
      BY DEF Spliced
    <2> HIDE DEF c, e, K
    <2> QED
      BY <1>2, <1>4, <2>1, <2>2
  <1>6. b[n] = b[n - 1]
    <2> HIDE DEF K, c, e
    <2>1. n - 1 \in 0..(e + 1)
      BY <1>1
    <2>2. b[n] = Remains(b[n - 1], q[n]) /\ b[n - 1] \in Nat
      BY <1>1, <1>2, <2>1
    <2> QED
      BY <1>1, <2>1, <2>2 DEF Remains
  <1>7. \A i \in 1..e : K(i) \in 1..(e + 1) /\ K(i) - 1 \in 0..(e + 1)
                        /\ (K(i) - 1 = K(i - 1) \/ (K(i) - 1 = n /\ K(i - 1) = n - 1))
    BY <1>1
  <1>8. K(e) = e + 1 \/ (K(e) = e /\ n = e + 1)
    BY <1>1
  <1>9. K(0) = 0 /\ 0 \in 0..e /\ e \in 0..e
    BY <1>1
  <1>10. \A i, j \in 0..e : i <= j => K(i) <= K(j)
    BY <1>1
  <1>11. ASSUME NEW i \in 0..e, NEW j \in 0..e, NEW l \in (K(i) + 1)..K(j), l # n
         PROVE  \E h \in (i + 1)..j : p[h] = q[l]
    <2>1. CASE l < n
      <3>1. l \in (i + 1)..j /\ l \in 1..e /\ K(l) = l
        BY <1>1, <2>1
      <3> QED
        BY <1>1, <3>1
    <2>2. CASE l > n
      <3>1. l - 1 \in (i + 1)..j /\ l - 1 \in 1..e /\ K(l - 1) = l
        BY <1>1, <2>2
      <3> QED
        BY <1>1, <3>1
    <2> QED
      BY <1>1, <1>4, <1>11, <2>1, <2>2
  <1> HIDE DEF K, c, e
  <1>12. ASSUME NEW i \in 0..e, NEW j \in 0..e
         PROVE  /\ LostIn(q, K(i), K(j)) => LostIn(p, i, j)
                /\ CutIn(q, K(i), K(j)) => CutIn(p, i, j)
    <2>1. ASSUME NEW l \in (K(i) + 1)..K(j), Cuts(q[l]) \/ q[l].op = "clear" PROVE l # n
      BY <1>1, <2>1
    <2>2. ASSUME LostIn(q, K(i), K(j)) PROVE LostIn(p, i, j)
      <3>1. PICK l \in (K(i) + 1)..K(j) : Cuts(q[l]) \/ q[l].op = "clear"
        BY <2>2 DEF LostIn
      <3>2. PICK h \in (i + 1)..j : p[h] = q[l]
        BY <1>11, <2>1, <3>1
      <3> QED
        BY <3>1, <3>2 DEF LostIn
    <2>3. ASSUME CutIn(q, K(i), K(j)) PROVE CutIn(p, i, j)
      <3>1. PICK l \in (K(i) + 1)..K(j) : Cuts(q[l])
        BY <2>3 DEF CutIn
      <3>2. PICK h \in (i + 1)..j : p[h] = q[l]
        BY <1>11, <2>1, <3>1
      <3> QED
        BY <3>1, <3>2 DEF CutIn
    <2> QED
      BY <2>2, <2>3
  <1>13. Counted(c, r, p)
    <2>1. c[0] = r
      BY <1>2, <1>5, <1>9
    <2>2. ASSUME NEW i \in 1..e PROVE c[i] = Remains(c[i - 1], p[i])
      <3>1. i \in 0..e /\ i - 1 \in 0..e
        BY <1>1
      <3>2. c[i] = b[K(i)] /\ c[i - 1] = b[K(i - 1)] /\ p[i] = q[K(i)]
        BY <1>1, <1>5, <3>1
      <3>3. b[K(i)] = Remains(b[K(i) - 1], q[K(i)])
        BY <1>2, <1>7
      <3>4. b[K(i) - 1] = b[K(i - 1)]
        BY <1>6, <1>7
      <3> QED
        BY <3>2, <3>3, <3>4
    <2> QED
      BY <1>5, <2>1, <2>2 DEF Counted, e
  <1>14. Growing(c, p)
    <2> SUFFICES ASSUME NEW i \in 0..e, NEW j \in 0..e, i <= j
                 PROVE  c[i] <= c[j] \/ LostIn(p, i, j)
      BY DEF Growing, e
    <2>1. b[K(i)] <= b[K(j)] \/ LostIn(q, K(i), K(j))
      BY <1>1, <1>3, <1>4, <1>10 DEF Growing
    <2> QED
      BY <1>5, <1>12, <2>1
  <1>15. b[K(e)] = b[e + 1]
    BY <1>1, <1>6, <1>8
  <1>16. Within(c, p, m)
    <2> SUFFICES ASSUME NEW i \in 0..e PROVE c[i] <= m \/ CutIn(p, i, e)
      BY DEF Within, e
    <2>1. b[K(i)] <= m \/ CutIn(q, K(i), e + 1)
      BY <1>1, <1>3, <1>4 DEF Within
    <2>2. ASSUME CutIn(q, K(i), e + 1) PROVE CutIn(q, K(i), K(e))
      <3>1. CASE K(e) = e + 1
        BY <2>2, <3>1
      <3>2. CASE K(e) = e /\ n = e + 1
        <4>1. PICK l \in (K(i) + 1)..(e + 1) : Cuts(q[l])
          BY <2>2 DEF CutIn
        <4>2. l # n
          BY <1>1, <4>1
        <4>3. K(i) \in Nat
          BY <1>1, <1>4
        <4>4. l \in (K(i) + 1)..K(e)
          BY <1>1, <3>2, <4>2, <4>3
        <4> QED
          BY <4>1, <4>4 DEF CutIn
      <3> QED
        BY <1>8, <3>1, <3>2
    <2> QED
      BY <1>5, <1>9, <1>12, <2>1, <2>2
  <1>17. Reading(c, p, s)
    <2> SUFFICES ASSUME NEW k \in 1..e, p[k].op = "preload" PROVE c[e] <= c[k] + s
      BY DEF Reading, e
    <2>1. K(k) \in 1..(e + 1) /\ q[K(k)].op = "preload" /\ k \in 0..e
      BY <1>1, <1>7
    <2>2. b[e + 1] <= b[K(k)] + s
      BY <1>1, <1>3, <2>1 DEF Reading
    <2> QED
      BY <1>5, <1>9, <1>15, <2>1, <2>2
  <1> QED
    BY <1>1, <1>5, <1>9, <1>13, <1>14, <1>15, <1>16, <1>17 DEF Chained, c, e

(* A message finds a page without a server: there is one row less.  Nothing *)
(* but messages is under way then.                                          *)
Unfiled(q) == \A i \in 1..Len(q) : q[i].op = "stray" \/ (q[i].op = "add" /\ q[i].excess = 0)
Fewer(b, q, n) == [i \in 0..Len(q) |-> IF i < n THEN b[i] ELSE b[i] - 1]

LEMMA StrayChain ==
  ASSUME NEW q \in Seq(Orders), NEW p \in Seq(Orders), NEW n \in 1..Len(q), Unfiled(q),
         Len(p) = Len(q), \A i \in 1..Len(q) : i # n => p[i] = q[i],
         q[n].op = "add", p[n].op = "stray",
         NEW b, NEW r, NEW m \in Nat, NEW s \in Nat, Chained(b, r, q, m, s)
  PROVE  Chained(Fewer(b, q, n), r, p, m, s)
  <1> DEFINE c == Fewer(b, q, n)
             e == Len(q)
  <1>1. /\ e \in Nat /\ n \in 1..e /\ n \in Nat /\ Len(p) = e
        /\ \A i \in 1..e : i # n => p[i] = q[i]
        /\ \A i \in 1..e : q[i].op = "stray" \/ (q[i].op = "add" /\ q[i].excess = 0)
        /\ \A i \in 1..e : p[i].op = "stray" \/ (p[i].op = "add" /\ p[i].excess = 0)
    BY SeqFacts DEF Unfiled
  <1>2. /\ \A i \in 0..e : b[i] \in Nat
        /\ b[0] = r /\ \A i \in 1..e : b[i] = Remains(b[i - 1], q[i])
    <2>1. Counted(b, r, q)
      BY DEF Chained
    <2> QED
      BY <2>1 DEF Counted
  <1>3. /\ Growing(b, q) /\ Within(b, q, m)
    BY DEF Chained
  <1>4. c = [i \in 0..e |-> IF i < n THEN b[i] ELSE b[i] - 1]
    BY DEF Fewer
  <1>5. Len(q) = e /\ q[n].op = "add" /\ p[n].op = "stray"
    OBVIOUS
  <1> HIDE DEF c, e
  <1>6. \A i, j \in 0..e : ~LostIn(q, i, j) /\ ~CutIn(q, i, j)
    <2> SUFFICES ASSUME NEW i \in 0..e, NEW j \in 0..e, NEW l \in (i + 1)..j
                 PROVE  ~Cuts(q[l]) /\ q[l].op # "clear"
      BY DEF LostIn, CutIn
    <2>1. l \in 1..e
      BY <1>1
    <2> QED
      BY <1>1, <2>1 DEF Cuts
  <1>7. /\ \A i, j \in 0..e : i <= j => b[i] <= b[j]
        /\ \A i \in 0..e : b[i] <= m
    <2>1. e \in 0..e
      BY <1>1
    <2> QED
      BY <1>3, <1>5, <1>6, <2>1 DEF Growing, Within
  <1>8. b[n] = b[n - 1] + 1 /\ n - 1 \in 0..e /\ n \in 0..e
    <2>1. n - 1 \in 0..e /\ n \in 0..e
      BY <1>1
    <2>2. b[n] = Remains(b[n - 1], q[n]) /\ b[n - 1] \in Nat /\ q[n].excess = 0
      BY <1>1, <1>2, <1>5, <2>1
    <2> QED
      BY <1>5, <2>1, <2>2 DEF Remains
  <1>9. \A i \in 0..e : /\ i >= n => b[i] >= 1
                        /\ i < n => b[i] <= b[n - 1]
    <2> SUFFICES ASSUME NEW i \in 0..e PROVE (i >= n => b[i] >= 1) /\ (i < n => b[i] <= b[n - 1])
      OBVIOUS
    <2>1. i >= n => b[n] <= b[i]
      BY <1>7, <1>8
    <2>2. i < n => i <= n - 1
      BY <1>1
    <2> QED
      BY <1>2, <1>7, <1>8, <2>1, <2>2
  <1>10. /\ \A i \in 0..e : c[i] \in Nat /\ (i < n => c[i] = b[i]) /\ (i >= n => c[i] = b[i] - 1)
         /\ c \in [0..e -> Nat]
    <2>1. \A i \in 0..e : (IF i < n THEN b[i] ELSE b[i] - 1) \in Nat
      BY <1>1, <1>2, <1>9
    <2> QED
      BY <1>1, <1>4, <2>1
  <1>11. Counted(c, r, p)
    <2>1. c[0] = r
      <3>1. 0 \in 0..e /\ 0 < n
        BY <1>1
      <3> QED
        BY <1>2, <1>10, <3>1
    <2>2. ASSUME NEW i \in 1..e PROVE c[i] = Remains(c[i - 1], p[i])
      <3>1. i \in 0..e /\ i - 1 \in 0..e /\ i \in Nat
        BY <1>1
      <3>2. CASE i < n
        <4>1. c[i] = b[i] /\ c[i - 1] = b[i - 1] /\ p[i] = q[i]
          BY <1>1, <1>10, <3>1, <3>2
        <4> QED
          BY <1>2, <4>1
      <3>3. CASE i = n
        <4>1. c[i] = b[i] - 1 /\ c[i - 1] = b[i - 1] /\ b[i - 1] \in Nat
          BY <1>1, <1>2, <1>10, <3>1, <3>3
        <4>2. c[i] = c[i - 1]
          BY <1>8, <3>3, <4>1
        <4> QED
          BY <1>5, <3>3, <4>2 DEF Remains
      <3>4. CASE i > n
        <4>0. i >= n /\ i - 1 >= n /\ i # n
          BY <1>1, <3>1, <3>4
        <4>1. c[i] = b[i] - 1 /\ c[i - 1] = b[i - 1] - 1 /\ p[i] = q[i] /\ b[i - 1] \in Nat
          <5>1. c[i] = b[i] - 1 /\ c[i - 1] = b[i - 1] - 1
            BY <1>10, <3>1, <4>0
          <5>2. p[i] = q[i]
            BY <1>1, <4>0
          <5>3. b[i - 1] \in Nat
            BY <1>2, <3>1
          <5> QED
            BY <5>1, <5>2, <5>3
        <4>2. b[i] = Remains(b[i - 1], q[i])
          BY <1>2
        <4>3. b[i] \in Nat /\ (q[i].op = "stray" \/ (q[i].op = "add" /\ q[i].excess = 0))
          BY <1>1, <1>2, <3>1
        <4>4. CASE q[i].op = "stray"
          BY <4>1, <4>2, <4>4 DEF Remains
        <4>5. CASE q[i].op = "add" /\ q[i].excess = 0
          <5>1. b[i] = b[i - 1] + 1
            BY <4>1, <4>2, <4>5 DEF Remains
          <5>2. b[i] - 1 = (b[i - 1] - 1) + 1 - 0
            BY <4>1, <5>1
          <5> QED
            BY <4>1, <4>5, <5>2 DEF Remains
        <4> QED
          BY <4>3, <4>4, <4>5
      <3>5. i < n \/ i = n \/ i > n
        BY <1>1, <3>1
      <3> QED
        BY <3>2, <3>3, <3>4, <3>5
    <2> QED
      BY <1>1, <1>10, <2>1, <2>2 DEF Counted
  <1>12. Growing(c, p)
    <2> SUFFICES ASSUME NEW i \in 0..e, NEW j \in 0..e, i <= j PROVE c[i] <= c[j]
      BY <1>1 DEF Growing
    <2>1. b[i] <= b[j] /\ b[i] \in Nat /\ b[j] \in Nat /\ b[n - 1] \in Nat
      BY <1>2, <1>7, <1>8
    <2>2. CASE i < n /\ j >= n
      <3>1. b[i] <= b[n - 1] /\ b[n] <= b[j]
        BY <1>7, <1>8, <1>9, <2>2
      <3>2. c[i] = b[i] /\ c[j] = b[j] - 1
        BY <1>10, <2>2
      <3> QED
        BY <1>8, <2>1, <3>1, <3>2
    <2>3. CASE ~(i < n /\ j >= n)
      BY <1>1, <1>10, <2>1, <2>3
    <2> QED
      BY <2>2, <2>3
  <1>13. Within(c, p, m)
    <2> SUFFICES ASSUME NEW i \in 0..e PROVE c[i] <= m
      BY <1>1 DEF Within
    <2>1. b[i] <= m /\ b[i] \in Nat /\ (c[i] = b[i] \/ c[i] = b[i] - 1)
      <3>1. i < n \/ i >= n
        BY <1>1
      <3> QED
        BY <1>2, <1>7, <1>10, <3>1
    <2> QED
      BY <2>1
  <1>14. Reading(c, p, s)
    <2>1. \A k \in 1..e : p[k].op # "preload"
      BY <1>1
    <2> QED
      BY <1>1, <2>1 DEF Reading
  <1> QED
    BY <1>11, <1>12, <1>13, <1>14 DEF Chained, c

-----------------------------------------------------------------------------
(* The invariant of Bounded.  The cache keeps the limit, and what waits for *)
(* the database while it is being opened has nothing to cut.  In the end    *)
(* there will be no more rows than messages in a cache that is loaded, but  *)
(* for those that came while it was being loaded.                           *)
Shape(q, ph) ==
    /\ \A i \in 1..Len(q) : q[i].op = "add" => q[i].excess <= 1
    /\ ph = "replay" => Unfiled(q)
    /\ ph = "chat" => \A i \in 1..Len(q) :
                         q[i].op = "clear" => \E j \in (i + 1)..Len(q) : q[j].op = "preload"
Idle == \A i \in 1..Len(calls) : calls[i].op = "trim" => calls[i].excess = 0
Opening == (phase = "chat" /\ ~idb => Waiting("preload")) /\ (txs # <<>> => idb)
Coming == \E b : /\ Chained(b, Len(db), Queue, logMax + slips, slips)
                 /\ Settled => b[Len(Queue)] <= Len(cache) + slips
Unharmed == mishaps \subseteq {"clear"}
Counting ==
    Unharmed => Len(cache) <= logMax /\ Opening /\ Idle /\ Shape(Queue, phase) /\ Coming

LEMMA NewestLen ==
  ASSUME NEW S, NEW q \in Seq(S), NEW n \in Nat
  PROVE  /\ Len(Newest(q, n)) = Len(q) - Excess(q, n) /\ Len(q) \in Nat
         /\ Len(q) > n => Len(Newest(q, n)) = n /\ Excess(q, n) = Len(q) - n
         /\ Len(q) <= n => Len(Newest(q, n)) = Len(q) /\ Excess(q, n) = 0
  <1>1. Len(q) \in Nat
    BY SeqFacts
  <1> DEFINE e == Excess(q, n)
  <1>2. e \in Nat /\ e <= Len(q) /\ (Len(q) > n => e = Len(q) - n) /\ (Len(q) <= n => e = 0)
    BY <1>1 DEF Excess
  <1> HIDE DEF e
  <1>3. Len(Drop(q, e)) = Len(q) - e
    BY <1>2, DropFacts
  <1>4. Len(Newest(q, n)) = Len(q) - e
    BY <1>3 DEF Newest, e
  <1> QED
    BY <1>1, <1>2, <1>4 DEF e

LEMMA ShapePush ==
  ASSUME NEW q \in Seq(Orders), NEW p, NEW o, Pushed(q, p, o), NEW ph, NEW ph2, Shape(q, ph),
         o.op = "add" => o.excess <= 1,
         ph2 = "replay" => ph = "replay" /\ o.op = "add" /\ o.excess = 0,
         ph2 = "chat" => o.op # "clear" /\ (ph = "chat" \/ o.op = "preload")
  PROVE  Shape(p, ph2)
  <1>1. /\ Len(q) \in Nat /\ Len(p) = Len(q) + 1 /\ p[Len(q) + 1] = o
        /\ Len(q) + 1 \in 1..Len(p)
        /\ \A i \in 1..Len(q) : i \in 1..Len(p) /\ p[i] = q[i]
        /\ \A i \in 1..Len(p) : i \in 1..Len(q) \/ i = Len(q) + 1
    BY SeqFacts DEF Pushed
  <1>2. \A i \in 1..Len(p) : p[i].op = "add" => p[i].excess <= 1
    BY <1>1 DEF Shape
  <1>3. ph2 = "replay" => Unfiled(p)
    BY <1>1 DEF Shape, Unfiled
  <1>4. ASSUME ph2 = "chat", NEW i \in 1..Len(p), p[i].op = "clear"
        PROVE  \E j \in (i + 1)..Len(p) : p[j].op = "preload"
    <2>1. i \in 1..Len(q) /\ q[i].op = "clear"
      BY <1>1, <1>4
    <2>2. CASE o.op = "preload"
      <3>1. Len(q) + 1 \in (i + 1)..Len(p)
        BY <1>1, <2>1
      <3> QED
        BY <1>1, <2>2, <3>1
    <2>3. CASE ph = "chat"
      <3>1. PICK j \in (i + 1)..Len(q) : q[j].op = "preload"
        BY <2>1, <2>3 DEF Shape
      <3>2. j \in (i + 1)..Len(p) /\ j \in 1..Len(q)
        BY <1>1, <2>1
      <3> QED
        BY <1>1, <3>1, <3>2
    <2> QED
      BY <1>4, <2>2, <2>3
  <1> QED
    BY <1>2, <1>3, <1>4 DEF Shape

LEMMA ShapeSkip ==
  ASSUME NEW q \in Seq(Orders), NEW p, NEW n \in 1..Len(q), Skipped(q, p, n), NEW ph, Shape(q, ph)
  PROVE  Shape(p, ph)
  <1> DEFINE K(i) == IF i < n THEN i ELSE i + 1
             J(i) == IF i < n THEN i ELSE i - 1
  <1>1. /\ Len(q) \in Nat /\ Len(p) = Len(q) - 1 /\ q[n].op = "trim"
        /\ \A i \in 1..Len(p) : K(i) \in 1..Len(q) /\ p[i] = q[K(i)]
    BY SeqFacts DEF Skipped
  <1>2. ASSUME NEW i \in 1..Len(p), NEW l \in (K(i) + 1)..Len(q), l # n
        PROVE  J(l) \in (i + 1)..Len(p) /\ p[J(l)] = q[l]
    <2>1. J(l) \in (i + 1)..Len(p) /\ K(J(l)) = l
      BY <1>1, <1>2
    <2>2. J(l) \in 1..Len(p)
      BY <1>1, <2>1
    <2> QED
      BY <1>1, <2>1, <2>2
  <1> HIDE DEF K, J
  <1>3. \A i \in 1..Len(p) : p[i].op = "add" => p[i].excess <= 1
    BY <1>1 DEF Shape
  <1>4. ph = "replay" => Unfiled(p)
    BY <1>1 DEF Shape, Unfiled
  <1>5. ASSUME ph = "chat", NEW i \in 1..Len(p), p[i].op = "clear"
        PROVE  \E j \in (i + 1)..Len(p) : p[j].op = "preload"
    <2>1. PICK l \in (K(i) + 1)..Len(q) : q[l].op = "preload"
      BY <1>1, <1>5 DEF Shape
    <2>2. l # n
      BY <1>1, <2>1
    <2> QED
      BY <1>2, <2>1, <2>2
  <1> QED
    BY <1>3, <1>4, <1>5 DEF Shape

LEMMA ShapeRun ==
  ASSUME NEW q \in Seq(Orders), NEW p \in Seq(Orders), Len(q) > 0, Len(p) = Len(q) - 1,
         \A i \in 1..Len(p) : p[i] = q[i + 1], NEW ph, Shape(q, ph)
  PROVE  Shape(p, ph)
  <1>1. Len(q) \in Nat /\ \A i \in 1..Len(p) : i + 1 \in 1..Len(q) /\ p[i] = q[i + 1]
    BY SeqFacts
  <1>2. \A i \in 1..Len(p) : p[i].op = "add" => p[i].excess <= 1
    BY <1>1 DEF Shape
  <1>3. ph = "replay" => Unfiled(p)
    BY <1>1 DEF Shape, Unfiled
  <1>4. ASSUME ph = "chat", NEW i \in 1..Len(p), p[i].op = "clear"
        PROVE  \E j \in (i + 1)..Len(p) : p[j].op = "preload"
    <2>1. PICK l \in (i + 1 + 1)..Len(q) : q[l].op = "preload"
      BY <1>1, <1>4 DEF Shape
    <2>2. l - 1 \in (i + 1)..Len(p) /\ l - 1 \in 1..Len(p) /\ (l - 1) + 1 = l
      BY <1>1
    <2> QED
      BY <1>1, <2>1, <2>2
  <1> QED
    BY <1>2, <1>3, <1>4 DEF Shape

LEMMA Sums ==
  ASSUME NEW a \in Nat, NEW b \in Nat, NEW c \in Nat
  PROVE  a + c \in Nat /\ (a <= b => a + c <= b + c)
  OBVIOUS

LEMMA Numbers ==
  ASSUME Typed
  PROVE  /\ logMax \in Nat /\ logMax > 0 /\ slips \in Nat /\ Len(cache) \in Nat
         /\ Len(db) \in Nat /\ calls \in Seq(Orders) /\ txs \in Seq(Orders)
         /\ cache \in Seq(Messages) /\ db \in Seq(Messages)
  <1>1. slips \in Nat
    BY DEF Typed, Types
  <1>2. Len(cache) \in Nat /\ Len(db) \in Nat
    BY SeqFacts DEF Typed, Types
  <1> QED
    BY <1>1, <1>2, LimitFacts DEF Typed, Types

LEMMA NumbersNext ==
  ASSUME Typed'
  PROVE  logMax' \in Nat /\ logMax' > 0 /\ slips' \in Nat /\ Len(cache') \in Nat /\ Len(db') \in Nat
  <1>1. slips' \in Nat
    BY DEF Typed, Types
  <1>2. Len(cache') \in Nat /\ Len(db') \in Nat
    BY SeqFacts DEF Typed, Types
  <1> QED
    BY <1>1, <1>2, LimitFacts DEF Typed, Types

LEMMA InitCounting == Init => Counting
  <1> SUFFICES ASSUME Init PROVE Counting
    OBVIOUS
  <1>1. /\ calls = <<>> /\ txs = <<>> /\ cache = <<>> /\ db = <<>> /\ slips = 0
        /\ phase = "connecting" /\ logMax = Default
    BY DEF Init
  <1>2. /\ Len(<<>>) = 0 /\ logMax \in Nat /\ Len(Queue) = 0
    BY <1>1, EmptyFacts, EmptyQueue, LimitFacts, ChatLogAssumption
  <1>3. Opening /\ Idle /\ Shape(Queue, phase)
    BY <1>1, <1>2 DEF Opening, Idle, Shape
  <1>4. Coming
    <2> DEFINE b == [i \in 0..0 |-> 0]
    <2>1. b \in [0..0 -> Nat] /\ b[0] = 0 /\ \A i \in 0..0 : i = 0
      OBVIOUS
    <2> HIDE DEF b
    <2>2. Chained(b, 0, Queue, logMax + 0, 0)
      BY <1>2, <2>1 DEF Chained, Counted, Growing, Within, Reading
    <2> QED
      BY <1>1, <1>2, <2>2 DEF Coming, Settled
  <1> QED
    BY <1>1, <1>2, <1>3, <1>4 DEF Counting

(* A step that asks for nothing. *)
LEMMA StillCounting ==
  ASSUME Typed, Typed', Counting, UNCHANGED <<db, calls, txs, idb, slips>>,
         mishaps \subseteq mishaps',
         logMax <= logMax' \/ (Unharmed' => Settled /\ Len(cache) <= logMax'),
         phase' = "replay" => phase = "replay",
         phase' = "chat" => phase = "chat" /\ cache' = cache,
         cache' = cache \/ cache' = <<>>
  PROVE  Counting'
  <1> SUFFICES ASSUME Unharmed'
               PROVE  Len(cache') <= logMax' /\ Opening' /\ Idle' /\ Shape(Queue', phase') /\ Coming'
    BY DEF Counting
  <1>1. Len(cache) <= logMax /\ Opening /\ Idle /\ Shape(Queue, phase) /\ Coming
    BY DEF Counting, Unharmed
  <1>2. Queue' = Queue /\ (Settled' => Settled /\ cache' = cache)
    BY DEF Queue, Settled, Waiting
  <1>3. /\ logMax \in Nat /\ logMax' \in Nat /\ slips \in Nat /\ Len(cache) \in Nat
        /\ Len(<<>>) = 0
    BY Numbers, NumbersNext, EmptyFacts
  <1>4. Len(cache') <= logMax' /\ Opening' /\ Idle'
    BY <1>1, <1>3, NumbersNext DEF Opening, Idle, Waiting
  <1>5. Shape(Queue', phase')
    BY <1>1, <1>2 DEF Shape
  <1>6. Coming'
    <2>1. PICK b : /\ Chained(b, Len(db), Queue, logMax + slips, slips)
                   /\ Settled => b[Len(Queue)] <= Len(cache) + slips
      BY <1>1 DEF Coming
    <2>2. /\ logMax + slips \in Nat /\ logMax' + slips \in Nat
          /\ logMax <= logMax' => logMax + slips <= logMax' + slips
          /\ Len(cache) <= logMax' => Len(cache) + slips <= logMax' + slips
      BY <1>3, Sums
    <2>3. Queue \in Seq(Orders)
      BY QueueFacts
    <2> DEFINE m == logMax + slips
               n == logMax' + slips
               q == Queue
               r == Len(db)
    <2>4. /\ m \in Nat /\ n \in Nat /\ slips \in Nat /\ q \in Seq(Orders)
          /\ Chained(b, r, q, m, slips)
          /\ \/ m <= n
             \/ b[Len(q)] <= n /\ \A i \in 1..Len(q) : q[i].op # "clear"
      <3>1. CASE logMax <= logMax'
        BY <1>3, <2>1, <2>2, <2>3, <3>1
      <3>2. CASE Settled /\ Len(cache) <= logMax'
        <4>1. \A i \in 1..Len(q) : q[i].op # "clear"
          <5>1. phase = "chat" /\ ~Waits(Queue, "preload")
            BY <3>2, WaitsNow DEF Settled
          <5>2. ASSUME NEW i \in 1..Len(q), q[i].op = "clear" PROVE FALSE
            <6>1. PICK j \in (i + 1)..Len(q) : q[j].op = "preload"
              BY <1>1, <5>1, <5>2 DEF Shape
            <6>2. j \in 1..Len(q)
              BY <2>3, SeqFacts
            <6> QED
              BY <5>1, <6>1, <6>2 DEF Waits
          <5> QED
            BY <5>2
        <4>2. b[Len(q)] \in Nat
          BY <2>1, <2>3, CountedFacts DEF Chained
        <4>3. b[Len(q)] <= n
          BY <1>3, <2>1, <2>2, <3>2, <4>2
        <4> QED
          BY <1>3, <2>1, <2>2, <2>3, <4>1, <4>3
      <3> QED
        BY <3>1, <3>2
    <2> HIDE DEF m, n, q, r
    <2>5. Chained(b, r, q, n, slips)
      BY <2>4, MoreChain
    <2>6. Chained(b, Len(db'), Queue', logMax' + slips', slips')
      BY <1>2, <2>5 DEF n, q, r
    <2>7. Settled' => b[Len(Queue')] <= Len(cache') + slips'
      BY <1>2, <2>1
    <2> QED
      BY <2>6, <2>7 DEF Coming
  <1> QED
    BY <1>4, <1>5, <1>6

(* A step that asks for something. *)
LEMMA AskCounting ==
  ASSUME Typed, Typed', Counting, NEW o \in Orders, getDB(o), db' = db,
         mishaps \subseteq mishaps', "overtaken" \notin mishaps' => ~(idb /\ calls # <<>>),
         slips <= slips',
         phase' = "replay" => phase = "replay" /\ o.op = "add" /\ o.excess = 0,
         phase' = "chat" => o.op # "clear" /\ (phase = "chat" \/ o.op = "preload"),
         Unharmed' /\ Len(cache) <= logMax =>
            /\ o.op = "add" => o.excess <= 1
            /\ o.op = "trim" /\ ~idb => o.excess = 0
            /\ logMax + slips <= logMax' + slips' \/ Cuts(o)
            /\ Len(cache') <= logMax'
            /\ \A n \in Nat : n <= logMax + slips /\ (Settled => n <= Len(cache) + slips) =>
                  /\ Remains(n, o) <= logMax' + slips'
                  /\ Waiting("preload") => Remains(n, o) + slips <= n + slips'
                  /\ Settled /\ o.op # "preload" => Remains(n, o) <= Len(cache') + slips'
  PROVE  Counting'
  <1> SUFFICES ASSUME Unharmed'
               PROVE  Len(cache') <= logMax' /\ Opening' /\ Idle' /\ Shape(Queue', phase') /\ Coming'
    BY DEF Counting
  <1>1. Len(cache) <= logMax /\ Opening /\ Idle /\ Shape(Queue, phase) /\ Coming
    BY DEF Counting, Unharmed
  <1>2. Queue \in Seq(Orders) /\ Queue' \in Seq(Orders) /\ Pushed(Queue, Queue', o)
    BY Push, QueueFacts, QueueFactsNext DEF Unharmed
  <1>3. /\ logMax \in Nat /\ logMax' \in Nat /\ slips \in Nat /\ slips' \in Nat
        /\ Len(cache) \in Nat /\ calls \in Seq(Orders)
        /\ logMax + slips \in Nat /\ logMax' + slips' \in Nat
    BY Numbers, NumbersNext
  <1>4. Shape(Queue', phase')
    <2>1. /\ o.op = "add" => o.excess <= 1
          /\ phase' = "replay" => phase = "replay" /\ o.op = "add" /\ o.excess = 0
          /\ phase' = "chat" => o.op # "clear" /\ (phase = "chat" \/ o.op = "preload")
      BY <1>1
    <2> DEFINE q == Queue
               p == Queue'
               f == phase
               g == phase'
    <2>2. /\ q \in Seq(Orders) /\ Pushed(q, p, o) /\ Shape(q, f)
          /\ o.op = "add" => o.excess <= 1
          /\ g = "replay" => f = "replay" /\ o.op = "add" /\ o.excess = 0
          /\ g = "chat" => o.op # "clear" /\ (f = "chat" \/ o.op = "preload")
      BY <1>1, <1>2, <2>1
    <2> HIDE DEF q, p, f, g
    <2>3. Shape(p, g)
      BY <2>2, ShapePush
    <2> QED
      BY <2>3 DEF p, g
  <1>5. /\ Waits(Queue, "preload") => Waits(Queue', "preload")
        /\ o.op = "preload" => Waits(Queue', "preload")
    <2>1. /\ Len(Queue) \in Nat /\ Len(Queue') = Len(Queue) + 1 /\ Queue'[Len(Queue) + 1] = o
          /\ \A i \in 1..Len(Queue) : Queue'[i] = Queue[i]
      BY <1>2, SeqFacts DEF Pushed
    <2> DEFINE q == Queue
               p == Queue'
    <2> HIDE DEF q, p
    <2>2. /\ Waits(q, "preload") => Waits(p, "preload")
          /\ o.op = "preload" => Waits(p, "preload")
      <3>1. /\ Len(q) + 1 \in 1..Len(p) /\ p[Len(q) + 1] = o
            /\ \A i \in 1..Len(q) : i \in 1..Len(p) /\ p[i] = q[i]
        BY <2>1 DEF q, p
      <3> QED
        BY <3>1 DEF Waits
    <2> QED
      BY <2>2 DEF q, p
  <1>6. Opening'
    <2>1. idb' = idb
      BY DEF getDB
    <2>2. phase' = "chat" /\ ~idb' => Waiting("preload")'
      BY <1>1, <1>5, <2>1, WaitsNow, WaitsNext DEF Opening
    <2>3. txs' # <<>> => idb'
      BY <1>1, <2>1 DEF Opening, getDB
    <2> QED
      BY <2>2, <2>3 DEF Opening
  <1>7. Idle'
    <2>1. CASE idb
      BY <1>1, <2>1 DEF Idle, getDB
    <2>2. CASE ~idb
      <3>1. calls' = Append(calls, o)
        BY <2>2 DEF getDB
      <3>2. /\ Len(calls') = Len(calls) + 1 /\ \A i \in 1..Len(calls) : calls'[i] = calls[i]
            /\ calls'[Len(calls) + 1] = o /\ Len(calls) \in Nat
        BY <1>3, <3>1, AppendFacts, SeqFacts
      <3>3. \A i \in 1..Len(calls') : i \in 1..Len(calls) \/ i = Len(calls) + 1
        BY <3>2
      <3> QED
        BY <1>1, <2>2, <3>2, <3>3 DEF Idle
    <2> QED
      BY <2>1, <2>2
  <1>8. Coming'
    <2>1. PICK b : /\ Chained(b, Len(db), Queue, logMax + slips, slips)
                   /\ Settled => b[Len(Queue)] <= Len(cache) + slips
      BY <1>1 DEF Coming
    <2> DEFINE n == b[Len(Queue)]
               f == Remains(n, o)
               c == Longer(b, Queue, o)
    <2>2. n \in Nat /\ n <= logMax + slips
      <3>1. /\ n \in Nat /\ Len(Queue) \in 0..Len(Queue) /\ Len(Queue) \in Nat
        BY <1>2, <2>1, CountedFacts DEF Chained
      <3>2. n <= logMax + slips \/ CutIn(Queue, Len(Queue), Len(Queue))
        BY <2>1, <3>1 DEF Chained, Within
      <3>3. ~CutIn(Queue, Len(Queue), Len(Queue))
        BY <3>1 DEF CutIn
      <3> QED
        BY <3>1, <3>2, <3>3
    <2>3. /\ f <= logMax' + slips'
          /\ Waiting("preload") => f + slips <= n + slips'
          /\ Settled /\ o.op # "preload" => f <= Len(cache') + slips'
          /\ o.op = "add" => o.excess <= 1
          /\ logMax + slips <= logMax' + slips' \/ Cuts(o)
      BY <1>1, <2>1, <2>2
    <2>4. Waits(Queue, "preload") => f + slips <= n + slips'
      BY <2>3, WaitsNow
    <2> HIDE DEF c, f
    <2>5. Chained(c, Len(db), Queue', logMax' + slips', slips') /\ c[Len(Queue')] = f
      <3> DEFINE q == Queue
                 p == Queue'
                 r == Len(db)
                 u == logMax + slips
                 v == logMax' + slips'
                 s == slips
                 t == slips'
                 g == Longer(b, q, o)
      <3>1. /\ q \in Seq(Orders) /\ Pushed(q, p, o) /\ u \in Nat /\ v \in Nat /\ s \in Nat
            /\ t \in Nat /\ Chained(b, r, q, u, s) /\ (o.op = "add" => o.excess <= 1) /\ s <= t
            /\ u <= v \/ Cuts(o)
        BY <1>2, <1>3, <2>1, <2>3
      <3>2. /\ Remains(b[Len(q)], o) <= v
            /\ Waits(q, "preload") => Remains(b[Len(q)], o) + s <= b[Len(q)] + t
        BY <2>3, <2>4 DEF f
      <3> HIDE DEF q, p, r, u, v, s, t, g
      <3>3. /\ Chained(g, r, p, v, t) /\ g[Len(p)] = Remains(b[Len(q)], o)
        BY <3>1, <3>2, PushChain DEF g
      <3> QED
        BY <3>3 DEF q, p, r, v, t, g, c, f
    <2>6. Settled' => Settled /\ o.op # "preload"
      BY <1>5, WaitsNow, WaitsNext DEF Settled
    <2> QED
      BY <2>3, <2>5, <2>6 DEF Coming
  <1> QED
    BY <1>1, <1>4, <1>6, <1>7, <1>8

(* A message adds a row more than it deletes only while the cache is being  *)
(* loaded, or together with the cache.                                      *)
LEMMA PersistCounting ==
  ASSUME Typed, Typed', Counting, NEW m \in Messages, trusted, persistMsg(m),
         phase \in {"chat", "replay"}, phase' = phase, db' = db, logMax' = logMax
  PROVE  Counting'
  <1> DEFINE full == Append(cache, m)
             e == IF Known THEN Excess(full, logMax) ELSE 0
             o == Op("add", m, e)
  <1>1. /\ cache' = IF Known THEN Newest(full, logMax) ELSE cache
        /\ getDB(o) /\ Note(Overtaking)
        /\ slips' = IF Waiting("preload") \/ ~Known THEN slips + 1 ELSE slips
    BY DEF persistMsg
  <1>2. full \in Seq(Messages) /\ Len(full) = Len(cache) + 1 /\ e \in Nat
    <2>1. full \in Seq(Messages) /\ Len(full) = Len(cache) + 1
      BY Numbers, AppendFacts
    <2> QED
      BY <2>1, Numbers, NewestFacts
  <1>3. /\ Len(Newest(full, logMax)) = Len(full) - Excess(full, logMax)
        /\ Len(full) > logMax => Excess(full, logMax) = Len(full) - logMax
        /\ Len(full) <= logMax => Excess(full, logMax) = 0
    BY <1>2, Numbers, NewestLen
  <1>4. /\ Known => Len(cache') = Len(cache) + 1 - e
        /\ ~Known => cache' = cache /\ e = 0
    BY <1>1, <1>2, <1>3
  <1>5. Len(cache) <= logMax => e <= 1 /\ Len(cache') <= logMax
    <2>1. CASE Known /\ Len(full) > logMax
      <3>1. e = Len(full) - logMax
        BY <1>3, <2>1
      <3> HIDE DEF e, full
      <3> QED
        BY <1>2, <1>4, <2>1, <3>1, Numbers
    <2>2. CASE Known /\ Len(full) <= logMax
      <3>1. e = 0
        BY <1>3, <2>2
      <3> HIDE DEF e, full
      <3> QED
        BY <1>2, <1>4, <2>2, <3>1, Numbers
    <2>3. CASE ~Known
      BY <1>4, <2>3
    <2>4. Len(full) > logMax \/ Len(full) <= logMax
      <3> HIDE DEF full
      <3> QED
        BY <1>2, Numbers
    <2> QED
      BY <2>1, <2>2, <2>3, <2>4
  <1> HIDE DEF full, e
  <1>6. o \in Orders /\ o.op = "add" /\ o.excess = e
    BY <1>2 DEF Op, Orders, Calls
  <1> HIDE DEF o
  <1>7. /\ mishaps \subseteq mishaps'
        /\ "overtaken" \notin mishaps' => ~(idb /\ calls # <<>>)
    BY <1>1, NoteOnly
  <1>8. slips <= slips' /\ (slips' = slips + 1 \/ (slips' = slips /\ Settled /\ Known))
    BY <1>1, Numbers DEF Settled, Known
  <1>9. ASSUME Len(cache) <= logMax
        PROVE  /\ logMax + slips <= logMax' + slips'
               /\ \A n \in Nat : n <= logMax + slips /\ (Settled => n <= Len(cache) + slips) =>
                     /\ Remains(n, o) <= logMax' + slips'
                     /\ Waiting("preload") => Remains(n, o) + slips <= n + slips'
                     /\ Settled => Remains(n, o) <= Len(cache') + slips'
    <2>1. logMax + slips <= logMax' + slips'
      BY <1>8, Numbers
    <2>2. ASSUME NEW n \in Nat, n <= logMax + slips, Settled => n <= Len(cache) + slips
          PROVE  /\ Remains(n, o) <= logMax' + slips'
                 /\ Waiting("preload") => Remains(n, o) + slips <= n + slips'
                 /\ Settled => Remains(n, o) <= Len(cache') + slips'
      <3>1. Remains(n, o) = n + 1 - e
        BY <1>6 DEF Remains
      <3>2. Settled => Known /\ ~Waiting("preload")
        BY DEF Settled, Known
      <3>3. CASE slips' = slips + 1
        <4>1. ~Settled
          BY <1>1, <3>2, <3>3, Numbers
        <4> QED
          BY <1>2, <2>2, <3>1, <3>3, <4>1, Numbers
      <3>4. CASE slips' = slips /\ Settled /\ Known
        <4>1. n + 1 - e <= Len(cache') + slips
          BY <1>2, <1>4, <2>2, <3>4, Numbers
        <4>2. Len(cache') + slips <= logMax + slips
          BY <1>5, <1>9, Numbers, NumbersNext
        <4>3. n + 1 - e <= logMax + slips
          BY <1>2, <4>1, <4>2, Numbers, NumbersNext
        <4> QED
          BY <3>1, <3>2, <3>4, <4>1, <4>3
      <3> QED
        BY <1>8, <3>3, <3>4
    <2> QED
      BY <2>1, <2>2
  <1>10. phase' = "replay" => phase = "replay" /\ o.op = "add" /\ o.excess = 0
    BY <1>4, <1>6 DEF Known
  <1>11. phase' = "chat" => o.op # "clear" /\ (phase = "chat" \/ o.op = "preload")
    BY <1>6
  <1>12. Len(cache) <= logMax => /\ o.op = "add" => o.excess <= 1
                                 /\ o.op = "trim" /\ ~idb => o.excess = 0
                                 /\ Len(cache') <= logMax'
    BY <1>5, <1>6
  <1>13. Unharmed' /\ Len(cache) <= logMax =>
            /\ o.op = "add" => o.excess <= 1
            /\ o.op = "trim" /\ ~idb => o.excess = 0
            /\ logMax + slips <= logMax' + slips' \/ Cuts(o)
            /\ Len(cache') <= logMax'
            /\ \A n \in Nat : n <= logMax + slips /\ (Settled => n <= Len(cache) + slips) =>
                  /\ Remains(n, o) <= logMax' + slips'
                  /\ Waiting("preload") => Remains(n, o) + slips <= n + slips'
                  /\ Settled /\ o.op # "preload" => Remains(n, o) <= Len(cache') + slips'
    BY <1>9, <1>12
  <1> QED
    BY <1>1, <1>6, <1>7, <1>8, <1>10, <1>11, <1>13, AskCounting

LEMMA MessageCounting == ASSUME Typed, Typed', Counting, Message PROVE Counting'
  <1>1. /\ phase \in {"chat", "replay"} /\ db' = db /\ phase' = phase /\ logMax' = logMax
        /\ logged' = logged + 1 /\ persistMsg(logged + 1)
    BY DEF Message
  <1>2. CASE trusted
    <2>1. logged + 1 \in Messages
      BY ChatLogAssumption DEF Message, Typed, Types, Messages
    <2> QED
      BY <1>1, <1>2, <2>1, PersistCounting
  <1>3. CASE ~trusted
    <2>1. UNCHANGED <<cache, idb, calls, txs, slips, mishaps>>
      BY <1>1, <1>3, NotKept
    <2>2. logMax <= logMax'
      BY <1>1, Numbers
    <2> QED
      BY <1>1, <2>1, <2>2, StillCounting
  <1> QED
    BY <1>2, <1>3

LEMMA PlaybackCounting ==
  ASSUME Typed, Typed', Counting, NEW m \in Messages, Playback(m) PROVE Counting'
  <1>1. phase = "chat" /\ db' = db /\ phase' = phase /\ logMax' = logMax /\ logMax <= logMax'
    BY Numbers DEF Playback
  <1>2. CASE ~isDuplicateMsg(m) /\ trusted
    BY <1>1, <1>2, PersistCounting DEF Playback
  <1>3. CASE isDuplicateMsg(m) \/ ~trusted
    <2>1. UNCHANGED <<cache, idb, calls, txs, slips, mishaps>>
      BY <1>3, NotKept DEF Playback
    <2> QED
      BY <1>1, <2>1, StillCounting
  <1> QED
    BY <1>2, <1>3

LEMMA PageCounting ==
  ASSUME Typed, Typed', Counting, Joined \/ Left \/ Submit PROVE Counting'
  <1>1. /\ UNCHANGED <<db, calls, txs, idb, slips, mishaps, cache, logMax>>
        /\ phase' = phase \/ phase' = "connecting"
    BY DEF Joined, Left, Submit, disk
  <1>2. logMax <= logMax'
    BY <1>1, Numbers
  <1> QED
    BY <1>1, <1>2, StillCounting

LEMMA PreloadCounting == ASSUME Typed, Typed', Counting, Preload PROVE Counting'
  <1> DEFINE o == Op("preload", 0, 0)
  <1>1. /\ getDB(o) /\ Note(Overtaking) /\ cache' = <<>> /\ phase' = "chat"
        /\ db' = db /\ logMax' = logMax /\ slips' = slips /\ ~Waiting("preload")
    BY DEF Preload
  <1>2. o \in Orders /\ o.op = "preload"
    BY OpFacts
  <1> HIDE DEF o
  <1>3. /\ mishaps \subseteq mishaps'
        /\ "overtaken" \notin mishaps' => ~(idb /\ calls # <<>>)
    BY <1>1, NoteOnly
  <1>4. slips <= slips' /\ logMax + slips <= logMax' + slips' /\ Len(cache') <= logMax'
    BY <1>1, Numbers, EmptyFacts
  <1>5. \A n \in Nat : Remains(n, o) = n
    BY <1>2 DEF Remains
  <1> QED
    BY <1>1, <1>2, <1>3, <1>4, <1>5, AskCounting

LEMMA ClearCounting ==
  ASSUME Typed, Typed', Counting, clearLocalData, phase' = "form",
         UNCHANGED <<db, logMax, slips>>
  PROVE  Counting'
  <1> DEFINE o == Op("clear", 0, 0)
  <1>1. getDB(o) /\ Note(Overtaking) /\ cache' = <<>>
    BY DEF clearLocalData
  <1>2. o \in Orders /\ o.op = "clear"
    BY OpFacts
  <1> HIDE DEF o
  <1>3. /\ mishaps \subseteq mishaps'
        /\ "overtaken" \notin mishaps' => ~(idb /\ calls # <<>>)
    BY <1>1, NoteOnly
  <1>4. /\ slips <= slips' /\ logMax + slips <= logMax' + slips' /\ Len(cache') <= logMax'
        /\ 0 <= logMax' + slips' /\ 0 <= Len(cache') + slips'
        /\ \A n \in Nat : 0 + slips <= n + slips'
    BY <1>1, Numbers, NumbersNext, EmptyFacts
  <1>5. \A n \in Nat : Remains(n, o) = 0
    BY <1>2 DEF Remains
  <1> QED
    BY <1>1, <1>2, <1>3, <1>4, <1>5, AskCounting

LEMMA FormCounting ==
  ASSUME Typed, Typed', Counting, Disconnect \/ SetTrusted PROVE Counting'
  <1>1. UNCHANGED <<db, logMax, slips>> /\ phase' = "form" /\ logMax <= logMax'
    BY Numbers DEF Disconnect, SetTrusted
  <1>2. \/ clearLocalData
        \/ UNCHANGED <<cache, idb, calls, txs, mishaps>>
    BY DEF Disconnect, SetTrusted
  <1>3. CASE clearLocalData
    BY <1>1, <1>3, ClearCounting
  <1>4. CASE UNCHANGED <<cache, idb, calls, txs, mishaps>>
    BY <1>1, <1>4, StillCounting
  <1> QED
    BY <1>2, <1>3, <1>4

(* The limit may be lowered when a loaded cache is within it.               *)
LEMMA SetLogMaxCounting ==
  ASSUME Typed, Typed', Counting, NEW n \in Limits, SetLogMax(n) PROVE Counting'
  <1> DEFINE S == {x \in {"lowered"} : n < logMax /\ Waiting("preload")}
             e == IF idb THEN Excess(cache, n) ELSE 0
             o == Op("trim", 0, e)
  <1>1. /\ phase = "chat" /\ phase' = phase /\ logMax' = n
        /\ UNCHANGED <<db, slips>> /\ Note(Overtaking \cup S) /\ trimAllCaches
    BY DEF SetLogMax
  <1>2. /\ n \in Nat /\ Len(Newest(cache, n)) = Len(cache) - Excess(cache, n)
        /\ Len(cache) > n => Len(Newest(cache, n)) = n /\ Excess(cache, n) = Len(cache) - n
        /\ Len(cache) <= n => Len(Newest(cache, n)) = Len(cache) /\ Excess(cache, n) = 0
    BY LimitFacts, Numbers, NewestLen
  <1>3. /\ mishaps \subseteq mishaps'
        /\ "overtaken" \notin mishaps' => ~(idb /\ calls # <<>>)
    <2> HIDE DEF S
    <2> QED
      BY <1>1, NoteFacts
  <1>4. ASSUME Unharmed'
        PROVE  /\ Len(cache) <= logMax /\ (~idb => Waiting("preload"))
               /\ logMax <= n \/ Settled
    <2>1. "lowered" \notin mishaps' /\ S \subseteq mishaps'
      BY <1>1, <1>4 DEF Unharmed, Note
    <2>2. ~(n < logMax /\ Waiting("preload"))
      BY <2>1
    <2>3. logMax <= n \/ Settled
      BY <1>1, <1>2, <2>2, Numbers DEF Settled
    <2>4. Unharmed
      BY <1>3, <1>4 DEF Unharmed
    <2> QED
      BY <1>1, <2>3, <2>4 DEF Counting, Opening
  <1>5. CASE idb /\ Len(cache) <= n
    <2>1. UNCHANGED <<cache, idb, calls, txs>>
      BY <1>1, <1>5 DEF trimAllCaches
    <2>2. logMax <= logMax' \/ (Unharmed' => Settled /\ Len(cache) <= logMax')
      BY <1>1, <1>4, <1>5
    <2> QED
      BY <1>1, <1>3, <2>1, <2>2, StillCounting
  <1>6. CASE ~(idb /\ Len(cache) <= n)
    <2>1. getDB(o) /\ cache' = IF idb THEN Newest(cache, n) ELSE cache
      BY <1>1, <1>6 DEF trimAllCaches
    <2>2. e \in Nat
      BY <1>2, Numbers, NewestFacts
    <2> HIDE DEF e
    <2>3. o \in Orders /\ o.op = "trim" /\ o.excess = e
      BY <2>2, OpFacts
    <2> HIDE DEF o
    <2>4. \A k \in Nat : Remains(k, o) = IF k > e THEN k - e ELSE 0
      BY <2>3 DEF Remains
    <2>5. slips <= slips'
      BY <1>1, Numbers
    <2>6. ASSUME Unharmed', Len(cache) <= logMax
          PROVE  /\ o.op = "add" => o.excess <= 1
                 /\ o.op = "trim" /\ ~idb => o.excess = 0
                 /\ logMax + slips <= logMax' + slips' \/ Cuts(o)
                 /\ Len(cache') <= logMax'
                 /\ \A k \in Nat : k <= logMax + slips /\ (Settled => k <= Len(cache) + slips) =>
                       /\ Remains(k, o) <= logMax' + slips'
                       /\ Waiting("preload") => Remains(k, o) + slips <= k + slips'
                       /\ Settled /\ o.op # "preload" => Remains(k, o) <= Len(cache') + slips'
      <3>1. CASE ~idb
        <4>1. e = 0 /\ cache' = cache /\ logMax <= n
          <5>1. Waiting("preload")
            BY <1>4, <2>6, <3>1
          <5> QED
            BY <1>4, <2>1, <2>6, <3>1, <5>1 DEF e, Settled
        <4>2. \A k \in Nat : Remains(k, o) = k
          BY <2>4, <4>1
        <4>3. logMax + slips <= n + slips /\ Len(cache) <= n
          BY <1>2, <2>6, <4>1, Numbers
        <4>4. ASSUME NEW k \in Nat, k <= logMax + slips PROVE k <= n + slips
          <5>1. logMax + slips \in Nat /\ n + slips \in Nat
            BY <1>2, Numbers, Sums
          <5> QED
            BY <4>3, <4>4, <5>1
        <4>5. logMax' = n /\ slips' = slips /\ cache' = cache
          BY <1>1, <4>1
        <4>6. /\ o.op = "add" => o.excess <= 1
              /\ o.op = "trim" /\ ~idb => o.excess = 0
              /\ logMax + slips <= logMax' + slips'
              /\ Len(cache') <= logMax'
          BY <2>3, <4>1, <4>3, <4>5
        <4>7. ASSUME NEW k \in Nat, k <= logMax + slips, Settled => k <= Len(cache) + slips
              PROVE  /\ Remains(k, o) <= logMax' + slips'
                     /\ Waiting("preload") => Remains(k, o) + slips <= k + slips'
                     /\ Settled /\ o.op # "preload" => Remains(k, o) <= Len(cache') + slips'
          <5>1. Remains(k, o) = k /\ k <= n + slips /\ k + slips <= k + slips
            BY <4>2, <4>4, <4>7, Numbers
          <5> QED
            BY <4>5, <4>7, <5>1
        <4> QED
          BY <4>6, <4>7
      <3>2. CASE idb
        <4>1. Len(cache) > n /\ e = Len(cache) - n /\ Len(cache') = n /\ e > 0
          <5>1. Len(cache) > n
            BY <1>2, <1>6, <3>2, Numbers
          <5>2. e = Len(cache) - n
            BY <1>2, <3>2, <5>1 DEF e
          <5> QED
            BY <1>2, <2>1, <3>2, <5>1, <5>2, Numbers
        <4>2. Settled /\ ~Waiting("preload")
          <5>1. ~(logMax <= n)
            BY <1>2, <2>6, <4>1, Numbers
          <5> QED
            BY <1>4, <2>6, <5>1 DEF Settled
        <4>3. ASSUME NEW k \in Nat, k <= Len(cache) + slips PROVE Remains(k, o) <= n + slips
          <5>1. CASE k > e
            <6>1. Remains(k, o) = k - e
              BY <2>4, <5>1
            <6> QED
              BY <1>2, <4>1, <4>3, <6>1, Numbers
          <5>2. CASE ~(k > e)
            BY <1>2, <2>4, <5>2, Numbers
          <5> QED
            BY <5>1, <5>2
        <4>4. Cuts(o) /\ Len(cache') <= n
          BY <1>2, <2>3, <4>1 DEF Cuts
        <4> QED
          BY <1>1, <2>3, <3>2, <4>1, <4>2, <4>3, <4>4
      <3> QED
        BY <3>1, <3>2
    <2>7. /\ phase' = "chat" /\ phase = "chat" /\ o.op # "clear" /\ db' = db
      BY <1>1, <2>3
    <2> QED
      BY <1>3, <2>1, <2>3, <2>5, <2>6, <2>7, AskCounting
  <1> QED
    BY <1>5, <1>6

(* A reload finds nothing under way that would have cut the rows, or notes  *)
(* it.                                                                      *)
LEMMA ReloadCounting == ASSUME Typed, Typed', Counting, Reload PROVE Counting'
  <1> DEFINE S == {x \in {"clear", "trim"} : Waiting(x)} \cup {x \in {"lowered"} : logmax < logMax}
  <1> SUFFICES ASSUME Unharmed'
               PROVE  Len(cache') <= logMax' /\ Opening' /\ Idle' /\ Shape(Queue', phase') /\ Coming'
    BY DEF Counting
  <1>1. /\ phase' \in {"replay", "form"} /\ logMax' = logmax /\ cache' = <<>>
        /\ calls' = <<>> /\ txs' = <<>> /\ db' = db /\ slips' = slips /\ Note(S)
    BY DEF Reload
  <1>2. /\ S \subseteq mishaps' /\ mishaps \subseteq mishaps'
        /\ "trim" \notin mishaps' /\ "lowered" \notin mishaps'
    <2> HIDE DEF S
    <2> QED
      BY <1>1 DEF Note, Unharmed
  <1>3. ~Waiting("trim") /\ ~(logmax < logMax)
    BY <1>2
  <1>4. Coming
    BY <1>2 DEF Counting, Unharmed
  <1>5. Len(Queue') = 0 /\ Len(cache') = 0 /\ Len(calls') = 0
    BY <1>1, EmptyQueueNext, EmptyFacts
  <1>6. Len(cache') <= logMax' /\ Opening' /\ Idle' /\ Shape(Queue', phase')
    <2>1. Len(cache') <= logMax'
      BY <1>5, NumbersNext
    <2>2. Opening' /\ Idle'
      BY <1>1, <1>5 DEF Opening, Idle
    <2>3. Shape(Queue', phase')
      BY <1>1, <1>5 DEF Shape, Unfiled
    <2> QED
      BY <2>1, <2>2, <2>3
  <1>7. Len(db) <= logMax + slips
    <2>1. PICK b : Chained(b, Len(db), Queue, logMax + slips, slips)
      BY <1>4 DEF Coming
    <2>2. Counted(b, Len(db), Queue) /\ Within(b, Queue, logMax + slips)
      BY <2>1 DEF Chained
    <2>3. b[0] = Len(db) /\ Queue \in Seq(Orders) /\ Len(Queue) \in Nat
      BY <2>2, QueueFacts DEF Counted
    <2>4. ~CutIn(Queue, 0, Len(Queue))
      <3>1. ~Waits(Queue, "trim")
        BY <1>3, WaitsNow
      <3> QED
        BY <2>3, <3>1 DEF CutIn, Cuts, Waits
    <2>5. 0 \in 0..Len(Queue)
      BY <2>3
    <2> QED
      BY <2>2, <2>3, <2>4, <2>5 DEF Within
  <1>8. Len(db) <= logMax' + slips
    <2>1. logMax <= logMax'
      BY <1>1, <1>3, Numbers, NumbersNext
    <2> QED
      BY <1>7, <2>1, Numbers, NumbersNext
  <1>9. Coming'
    <2> DEFINE b == [i \in 0..0 |-> Len(db)]
               r == Len(db)
               m == logMax' + slips
               q == Queue'
    <2>1. b \in [0..0 -> Nat] /\ b[0] = r /\ (\A i \in 0..0 : i = 0) /\ r \in Nat /\ slips \in Nat
      BY Numbers
    <2>2. r <= m /\ Len(q) = 0
      BY <1>5, <1>8
    <2> HIDE DEF b, r, m, q
    <2>3. Chained(b, r, q, m, slips)
      <3>1. Counted(b, r, q) /\ Reading(b, q, slips)
        BY <2>1, <2>2 DEF Counted, Reading
      <3>2. Growing(b, q) /\ Within(b, q, m)
        BY <2>1, <2>2 DEF Growing, Within
      <3> QED
        BY <3>1, <3>2 DEF Chained
    <2>4. Chained(b, Len(db'), Queue', logMax' + slips', slips')
      BY <1>1, <2>3 DEF r, q, m
    <2>5. ~Settled'
      BY <1>1 DEF Settled
    <2> QED
      BY <2>4, <2>5 DEF Coming
  <1> QED
    BY <1>6, <1>9

(* A caller that makes its transaction changes nothing in the end, but for  *)
(* a message that becomes a stray.                                          *)
LEMMA SameChain ==
  ASSUME NEW q \in Seq(Orders), NEW p \in Seq(Orders), Len(p) = Len(q),
         \A i \in 1..Len(q) : p[i] = q[i]
  PROVE  p = q
  BY SeqFacts, SeqEqual

LEMMA OpenedCounting == ASSUME Typed, Typed', Counting, Opened PROVE Counting'
  <1> SUFFICES ASSUME Unharmed'
               PROVE  Len(cache') <= logMax' /\ Opening' /\ Idle' /\ Shape(Queue', phase') /\ Coming'
    BY DEF Counting
  <1> DEFINE q == Queue
             p == Queue'
             r == Len(db)
             m == logMax + slips
             s == slips
             f == phase
  <1>1. /\ UNCHANGED <<phase, logMax, db, slips, mishaps>> /\ calls # <<>>
        /\ calls' = Tail(calls) /\ idb' = TRUE
        /\ cache' = cache \/ cache' = Newest(cache, logMax)
    BY DEF Opened
  <1>2. Len(cache) <= logMax /\ Opening /\ Idle /\ Shape(q, f) /\ Coming
    BY <1>1 DEF Counting, Unharmed
  <1>3. Len(cache') = Len(cache)
    <2>1. Len(Newest(cache, logMax)) = Len(cache)
      BY <1>2, Numbers, NewestLen
    <2> QED
      BY <1>1, <2>1
  <1>4. /\ calls \in Seq(Orders) /\ Len(calls) \in Nat /\ Len(calls) > 0 /\ Head(calls) = calls[1]
        /\ Len(calls') = Len(calls) - 1 /\ \A i \in 1..Len(calls') : calls'[i] = calls[i + 1]
    BY <1>1, Numbers, TailFacts
  <1>5. Idle'
    <2>1. \A i \in 1..Len(calls') : i + 1 \in 1..Len(calls)
      BY <1>4
    <2> QED
      BY <1>2, <1>4, <2>1 DEF Idle
  <1>6. Len(cache') <= logMax' /\ Opening'
    BY <1>1, <1>2, <1>3 DEF Opening
  <1>7. /\ q \in Seq(Orders) /\ p \in Seq(Orders) /\ m \in Nat /\ s \in Nat
    BY QueueFacts, QueueFactsNext, Numbers
  <1>8. PICK n \in 1..Len(q) :
           /\ q[n] = Head(calls)
           /\ Swapped(q, p, n) \/ Skipped(q, p, n)
           /\ q[n].op = "trim" => Skipped(q, p, n)
    BY <1>2, OpenedQueue
  <1>9. q[n].op = "trim" => q[n].excess = 0
    <2>1. 1 \in 1..Len(calls)
      BY <1>4
    <2> QED
      BY <1>2, <1>4, <1>8, <2>1 DEF Idle
  <1>10. PICK b : Chained(b, r, q, m, s) /\ (Settled => b[Len(q)] <= Len(cache) + s)
    BY <1>2 DEF Coming
  <1>11. Waits(q, "preload") => Waits(p, "preload")
    BY <1>7, <1>8, SwapOrder, SkipOrder
  <1>12. Settled' => Settled
    BY <1>1, <1>11, WaitsNow, WaitsNext DEF Settled
  <1>13. \/ Skipped(q, p, n) /\ q[n].op = "trim"
         \/ Swapped(q, p, n) /\ p[n] = q[n]
         \/ Swapped(q, p, n) /\ q[n].op = "add" /\ p[n].op = "stray" /\ f = "replay"
    BY <1>8 DEF Swapped, Skipped, Known
  <1> HIDE DEF q, p, r, m, s, f
  <1>14. Shape(p, f) /\ \E c : /\ Chained(c, r, p, m, s)
                               /\ f = "replay" \/ c[Len(p)] = b[Len(q)]
    <2>1. CASE Skipped(q, p, n) /\ q[n].op = "trim"
      <3>1. Shape(p, f)
        BY <1>2, <1>7, <2>1, ShapeSkip
      <3>2. Chained(Spliced(b, p, n), r, p, m, s) /\ Spliced(b, p, n)[Len(p)] = b[Len(q)]
        BY <1>7, <1>9, <1>10, <2>1, SkipChain
      <3> QED
        BY <3>1, <3>2
    <2>2. CASE Swapped(q, p, n) /\ p[n] = q[n]
      <3>1. p = q
        BY <1>7, <2>2, SameChain DEF Swapped
      <3> QED
        BY <1>2, <1>10, <3>1
    <2>3. CASE Swapped(q, p, n) /\ q[n].op = "add" /\ p[n].op = "stray" /\ f = "replay"
      <3>1. /\ Unfiled(q) /\ Len(p) = Len(q) /\ \A i \in 1..Len(q) : i # n => p[i] = q[i]
        BY <1>2, <2>3 DEF Shape, Swapped
      <3>2. Chained(Fewer(b, q, n), r, p, m, s)
        BY <1>7, <1>10, <2>3, <3>1, StrayChain
      <3>3. Unfiled(p) /\ \A i \in 1..Len(p) : p[i].op = "add" => p[i].excess <= 1
        BY <2>3, <3>1 DEF Unfiled
      <3>4. Shape(p, f)
        BY <2>3, <3>3 DEF Shape
      <3> QED
        BY <2>3, <3>2, <3>4
    <2> QED
      BY <1>13, <2>1, <2>2, <2>3
  <1>15. PICK c : Chained(c, r, p, m, s) /\ (f = "replay" \/ c[Len(p)] = b[Len(q)])
    BY <1>14
  <1>16. Coming'
    <2>1. Chained(c, Len(db'), Queue', logMax' + slips', slips')
      BY <1>1, <1>15 DEF p, r, m, s
    <2>2. Settled' => c[Len(Queue')] <= Len(cache') + slips'
      <3>1. Settled => f # "replay"
        BY DEF Settled, f
      <3> QED
        BY <1>1, <1>3, <1>10, <1>12, <1>15, <3>1 DEF p, s
    <2> QED
      BY <2>1, <2>2 DEF Coming
  <1>17. Shape(Queue', phase')
    BY <1>1, <1>14 DEF p, f
  <1> QED
    BY <1>5, <1>6, <1>16, <1>17

(* A preload leaves in the cache what is read, so what comes after it has    *)
(* been counted as a slip.                                                  *)
LEMMA RunCounting == ASSUME Typed, Typed', Counting, Run PROVE Counting'
  <1> SUFFICES ASSUME Unharmed'
               PROVE  Len(cache') <= logMax' /\ Opening' /\ Idle' /\ Shape(Queue', phase') /\ Coming'
    BY DEF Counting
  <1> DEFINE q == Queue
             p == Queue'
             o == q[1]
             m == logMax + slips
             s == slips
             r == Len(db)
             f == phase
  <1>1. /\ UNCHANGED <<phase, logMax, slips, mishaps, calls, idb>> /\ txs # <<>>
        /\ cache' = IF Head(txs).op = "preload" /\ db # <<>> THEN Newest(db, logMax) ELSE cache
    BY DEF Run
  <1>2. Len(cache) <= logMax /\ Opening /\ Idle /\ Shape(q, f) /\ Coming
    BY <1>1 DEF Counting, Unharmed
  <1>3. Opening' /\ Idle'
    <2>1. idb'
      BY <1>1, <1>2 DEF Opening
    <2> QED
      BY <1>1, <1>2, <2>1 DEF Opening, Idle
  <1>4. /\ q \in Seq(Orders) /\ p \in Seq(Orders) /\ m \in Nat /\ s \in Nat
        /\ Len(q) > 0 /\ Len(p) = Len(q) - 1 /\ \A i \in 1..Len(p) : p[i] = q[i + 1]
        /\ o = Head(txs) /\ Ran(db, q, db', p)
    BY QueueFacts, QueueFactsNext, Numbers, RunQueue, RunRan
  <1>5. PICK b : Chained(b, r, q, m, s) /\ (Settled => b[Len(q)] <= Len(cache) + s)
    BY <1>2 DEF Coming
  <1>6. /\ Len(Newest(db, logMax)) = Len(db) - Excess(db, logMax)
        /\ Len(db) > logMax => Len(Newest(db, logMax)) = logMax
        /\ Len(db) <= logMax => Len(Newest(db, logMax)) = Len(db)
        /\ db # <<>> <=> Len(db) > 0
    BY Numbers, NewestLen, SeqFacts
  <1>7. Len(cache') <= logMax'
    BY <1>1, <1>2, <1>6, Numbers
  <1> HIDE DEF q, p, m, s, r, f
  <1>8. Shape(p, f)
    BY <1>2, <1>4, ShapeRun
  <1>9. Len(q) \in Nat /\ 1 \in 1..Len(q) /\ o \in Orders /\ (o.op = "add" => o.excess <= 1)
    <2>1. Len(q) \in Nat /\ 1 \in 1..Len(q)
      BY <1>4, SeqFacts
    <2> QED
      BY <1>2, <1>4, <2>1, SeqFacts DEF Shape
  <1>10. /\ Chained(Shorter(b, p), b[1], p, m, s)
         /\ Shorter(b, p)[Len(p)] = b[Len(q)] /\ b[1] = Remains(r, o)
    BY <1>4, <1>5, RunChain
  <1>11. /\ o.op = "add" => db' = Drop(Append(db, o.msg), o.excess)
         /\ o.op = "trim" => db' = Drop(db, o.excess)
         /\ o.op = "clear" => db' = <<>>
         /\ o.op \notin {"add", "trim", "clear"} => db' = db
    BY <1>4 DEF Ran
  <1> HIDE DEF o
  <1>12. Len(db') = Remains(r, o)
    <2>1. o.excess \in Nat /\ (o.op = "add" => o.msg \in Messages) /\ r = Len(db) /\ r \in Nat
      BY <1>9, Numbers DEF Orders, Calls, r
    <2>2. CASE o.op = "add"
      <3>1. Append(db, o.msg) \in Seq(Messages) /\ Len(Append(db, o.msg)) = r + 1
        BY <2>1, <2>2, Numbers, AppendFacts
      <3>2. o.excess <= r + 1
        BY <1>9, <2>1, <2>2
      <3>3. Len(Drop(Append(db, o.msg), o.excess)) = r + 1 - o.excess
        <4> DEFINE d == Append(db, o.msg)
                   e == o.excess
        <4>1. d \in Seq(Messages) /\ Len(d) = r + 1 /\ e \in Nat /\ e <= Len(d)
          BY <2>1, <3>1, <3>2
        <4> HIDE DEF d, e
        <4>2. Len(Drop(d, e)) = Len(d) - e
          BY <4>1, DropFacts
        <4>3. Len(Drop(d, e)) = r + 1 - e
          BY <2>1, <4>1, <4>2
        <4> QED
          BY <4>3 DEF d, e
      <3> QED
        BY <1>11, <2>2, <3>3 DEF Remains
    <2>3. CASE o.op = "trim"
      <3>1. Len(Drop(db, o.excess)) = IF r > o.excess THEN r - o.excess ELSE 0
        <4>1. /\ o.excess <= r => Len(Drop(db, o.excess)) = r - o.excess
              /\ o.excess >= r => Len(Drop(db, o.excess)) = 0
          BY <2>1, Numbers, DropFacts
        <4> QED
          BY <2>1, <4>1
      <3> QED
        BY <1>11, <2>3, <3>1 DEF Remains
    <2>4. CASE o.op = "clear"
      BY <1>11, <2>4, EmptyFacts DEF Remains
    <2>5. CASE o.op \notin {"add", "trim", "clear"}
      BY <1>11, <2>1, <2>5 DEF Remains
    <2> QED
      BY <2>2, <2>3, <2>4, <2>5
  <1>13. o.op # "preload" /\ Waits(q, "preload") => Waits(p, "preload")
    <2> SUFFICES ASSUME o.op # "preload", Waits(q, "preload") PROVE Waits(p, "preload")
      OBVIOUS
    <2>1. PICK i \in 1..Len(q) : q[i].op = "preload"
      BY DEF Waits
    <2>2. i # 1
      BY <2>1 DEF o
    <2>3. i - 1 \in 1..Len(p) /\ (i - 1) + 1 = i
      BY <1>4, <1>9, <2>2
    <2> QED
      BY <1>4, <2>1, <2>3 DEF Waits
  <1>14. Settled' => b[Len(q)] <= Len(cache') + s
    <2>1. CASE o.op # "preload"
      <3>1. Settled' => Settled
        BY <1>1, <1>13, <2>1, WaitsNow, WaitsNext DEF Settled, q, p
      <3>2. cache' = cache
        BY <1>1, <1>4, <2>1
      <3> QED
        BY <1>5, <3>1, <3>2
    <2>2. CASE o.op = "preload"
      <3>1. /\ Counted(b, r, q) /\ Reading(b, q, s) /\ Within(b, q, m)
        BY <1>5 DEF Chained
      <3>2. b[Len(q)] \in Nat /\ b[1] = r /\ r = Len(db)
        <4>1. b[Len(q)] \in Nat
          BY <1>4, <3>1, CountedFacts
        <4> QED
          BY <1>10, <2>2, <4>1 DEF Remains, r
      <3>3. b[Len(q)] <= r + s
        BY <1>9, <2>2, <3>1, <3>2 DEF Reading, o
      <3>4. b[Len(q)] <= m
        <4>1. Len(q) \in 0..Len(q) /\ ~CutIn(q, Len(q), Len(q))
          BY <1>9 DEF CutIn
        <4> QED
          BY <3>1, <4>1 DEF Within
      <3>5. /\ Len(db) > logMax => Len(cache') = logMax
            /\ Len(db) <= logMax /\ Len(db) > 0 => Len(cache') = Len(db)
            /\ Len(db) = 0 => cache' = cache
        BY <1>1, <1>4, <1>6, <2>2, Numbers
      <3>6. CASE Len(db) > logMax
        BY <3>4, <3>5, <3>6 DEF m, s
      <3>7. CASE Len(db) <= logMax /\ Len(db) > 0
        BY <3>2, <3>3, <3>5, <3>7
      <3>8. CASE Len(db) = 0
        <4>1. Len(cache') \in Nat /\ b[Len(q)] <= 0 + s
          BY <3>2, <3>3, <3>8, NumbersNext
        <4> QED
          BY <1>4, <3>2, <4>1
      <3> QED
        BY <3>6, <3>7, <3>8, Numbers
    <2> QED
      BY <2>1, <2>2
  <1>15. Coming'
    <2>1. Chained(Shorter(b, p), Len(db'), Queue', logMax' + slips', slips')
      BY <1>1, <1>10, <1>12 DEF p, m, s
    <2>2. Settled' => Shorter(b, p)[Len(Queue')] <= Len(cache') + slips'
      BY <1>1, <1>10, <1>14 DEF p, s
    <2> QED
      BY <2>1, <2>2 DEF Coming
  <1>16. Shape(Queue', phase')
    BY <1>1, <1>8 DEF p, f
  <1> QED
    BY <1>3, <1>7, <1>15, <1>16

LEMMA NextCounting == Typed /\ Typed' /\ Counting /\ [Next]_vars => Counting'
  <1> SUFFICES ASSUME Typed, Typed', Counting, [Next]_vars PROVE Counting'
    OBVIOUS
  <1>1. CASE UNCHANGED vars
    <2>1. UNCHANGED <<db, calls, txs, idb, slips, phase, cache, logMax, mishaps>> /\ logMax <= logMax'
      BY <1>1, Numbers DEF vars, page, disk
    <2> QED
      BY <2>1, StillCounting
  <1>2. ASSUME NEW n \in Limits, SetLogMax(n) PROVE Counting'
    BY <1>2, SetLogMaxCounting
  <1>3. ASSUME NEW m \in 1..MaxLogged, Playback(m) PROVE Counting'
    BY <1>3, PlaybackCounting DEF Messages
  <1> QED
    BY <1>1, <1>2, <1>3, MessageCounting, PageCounting, PreloadCounting, FormCounting,
       ReloadCounting, OpenedCounting, RunCounting DEF Next

(* Bounded, for every limit and every number of messages: the database      *)
(* keeps the limit, but for the messages that came while the log was being  *)
(* read, although persistMsg and trimAllCaches count the cache to know how  *)
(* many rows they have to delete.                                           *)
THEOREM RowsWithinLimit == Spec => []Bounded
  <1>1. Typed /\ Counting => Bounded
    <2> SUFFICES ASSUME Typed, Counting, Quiet, mishaps \subseteq {"clear"}
                 PROVE  Len(db) <= logMax + slips
      BY DEF Bounded
    <2>1. PICK b : Chained(b, Len(db), Queue, logMax + slips, slips)
      BY DEF Counting, Unharmed, Coming
    <2>2. Counted(b, Len(db), Queue) /\ Within(b, Queue, logMax + slips)
      BY <2>1 DEF Chained
    <2>3. Len(Queue) = 0 /\ b[0] = Len(db)
      BY <2>2, EmptyQueue DEF Quiet, Counted
    <2>4. 0 \in 0..Len(Queue) /\ ~CutIn(Queue, 0, Len(Queue))
      BY <2>3 DEF CutIn
    <2> QED
      BY <2>2, <2>3, <2>4 DEF Within
  <1> QED
    BY <1>1, InitTyped, NextTyped, InitCounting, NextCounting, PTL DEF Spec

-----------------------------------------------------------------------------
(* Replayed.  What the rows will be when the first, the second, ... of the  *)
(* queue has run.                                                           *)
After(x, o) == IF o.op = "add" THEN Drop(Append(x, o.msg), o.excess)
               ELSE IF o.op = "trim" THEN Drop(x, o.excess)
               ELSE IF o.op = "clear" THEN <<>> ELSE x
Told(b, d, q) ==
    /\ b \in [0..Len(q) -> Seq(Messages)] /\ b[0] = d
    /\ \A i \in 1..Len(q) : b[i] = After(b[i - 1], q[i])

(* The only preload that is under way reads what will be there in the end,  *)
(* unless the user has left meanwhile and all is going to be cleared.       *)
Reads(b, q, ph) ==
    \A k \in 1..Len(q) : q[k].op = "preload" =>
        /\ b[Len(q)] = b[k] \/ (ph # "chat" /\ b[Len(q)] = <<>>)
        /\ \A l \in 1..Len(q) : q[l].op = "preload" => l = k

(* What the rows will be in the end is what a loaded cache holds, and a     *)
(* channel that was made with its log shows it.                             *)
Held(x, c) == \A i \in 1..Len(x) : \E j \in 1..Len(c) : c[j] = x[i]
Result(x) == /\ Len(x) <= logMax
             /\ Settled => x = cache
             /\ chan # NoChannel /\ ~bare => Held(x, chan)
Undisturbed == slips = 0 /\ mishaps = {}
Empty == phase = "chat" /\ Waiting("preload") => cache = <<>>
Keeping ==
    Undisturbed =>
        /\ Empty /\ (phase = "replay" => Len(Queue) = 0)
        /\ \E b, x : /\ Told(b, db, Queue) /\ Reads(b, Queue, phase)
                      /\ x = b[Len(Queue)] /\ Result(x)

LEMMA DropNone == ASSUME NEW S, NEW q \in Seq(S) PROVE Drop(q, 0) = q
  <1>1. Len(q) \in Nat /\ 0 \in Nat /\ 0 <= Len(q) /\ Len(q) - 0 = Len(q)
    BY SeqFacts
  <1>2. /\ Drop(q, 0) \in Seq(S) /\ Len(Drop(q, 0)) = Len(q)
        /\ \A i \in 1..Len(q) : Drop(q, 0)[i] = q[i + 0]
    BY <1>1, DropFacts
  <1>3. \A i \in 1..Len(q) : i + 0 = i
    BY <1>1
  <1> QED
    BY <1>2, <1>3, SeqEqual

LEMMA NewestSame ==
  ASSUME NEW S, NEW q \in Seq(S), NEW n \in Nat, Len(q) <= n PROVE Newest(q, n) = q
  <1>1. Excess(q, n) = 0
    BY NewestLen
  <1> QED
    BY <1>1, DropNone DEF Newest

LEMMA HeldFacts ==
  ASSUME NEW x \in Seq(Messages), NEW c \in Seq(Messages), NEW m \in Messages, Held(x, c)
  PROVE  Held(x, Append(c, m)) /\ Held(Append(x, m), Append(c, m))
  <1>1. /\ Append(c, m) \in Seq(Messages) /\ Len(Append(c, m)) = Len(c) + 1 /\ Len(c) \in Nat
        /\ \A i \in 1..Len(c) : Append(c, m)[i] = c[i]
        /\ Append(c, m)[Len(c) + 1] = m
    BY AppendFacts, SeqFacts
  <1>2. /\ Len(Append(x, m)) = Len(x) + 1 /\ Len(x) \in Nat
        /\ \A i \in 1..Len(x) : Append(x, m)[i] = x[i]
        /\ Append(x, m)[Len(x) + 1] = m
    BY AppendFacts, SeqFacts
  <1> DEFINE d == Append(c, m)
             y == Append(x, m)
  <1> HIDE DEF d, y
  <1>3. Held(x, d)
    <2> SUFFICES ASSUME NEW i \in 1..Len(x) PROVE \E j \in 1..Len(d) : d[j] = x[i]
      BY DEF Held
    <2>1. PICK j \in 1..Len(c) : c[j] = x[i]
      BY DEF Held
    <2>2. j \in 1..Len(d) /\ d[j] = c[j]
      BY <1>1 DEF d
    <2> QED
      BY <2>1, <2>2
  <1>4. Held(y, d)
    <2> SUFFICES ASSUME NEW i \in 1..Len(y) PROVE \E j \in 1..Len(d) : d[j] = y[i]
      BY DEF Held
    <2>1. CASE i \in 1..Len(x)
      BY <1>2, <1>3, <2>1 DEF Held, y
    <2>2. CASE i = Len(x) + 1
      <3>1. Len(c) + 1 \in 1..Len(d)
        BY <1>1 DEF d
      <3> QED
        BY <1>1, <1>2, <2>2, <3>1 DEF d, y
    <2>3. i \in 1..Len(x) \/ i = Len(x) + 1
      BY <1>2 DEF y
    <2> QED
      BY <2>1, <2>2, <2>3
  <1> QED
    BY <1>3, <1>4 DEF d, y

LEMMA HeldDrop ==
  ASSUME NEW x \in Seq(Messages), NEW c \in Seq(Messages), Held(x, c), NEW n \in Nat
  PROVE  Held(Drop(x, n), c)
  <1> DEFINE z == Drop(x, n)
  <1>1. /\ z \in Seq(Messages) /\ \A i \in 1..Len(z) : z[i] = x[i + n]
        /\ n <= Len(x) => Len(z) = Len(x) - n
        /\ n >= Len(x) => Len(z) = 0
    BY DropFacts
  <1> HIDE DEF z
  <1>2. Len(z) \in Nat /\ Len(x) \in Nat
    BY <1>1, SeqFacts
  <1>3. ASSUME NEW i \in 1..Len(z) PROVE i + n \in 1..Len(x)
    BY <1>1, <1>2
  <1>4. Held(z, c)
    BY <1>1, <1>3 DEF Held
  <1> QED
    BY <1>4 DEF z

LEMMA AfterFacts ==
  ASSUME NEW x \in Seq(Messages), NEW o \in Orders
  PROVE  /\ After(x, o) \in Seq(Messages)
         /\ o.op \in {"stray", "preload"} \/ (o.op = "trim" /\ o.excess = 0) => After(x, o) = x
         /\ o.op = "clear" => After(x, o) = <<>>
         /\ o.op = "add" => After(x, o) = Drop(Append(x, o.msg), o.excess)
         /\ o.op = "trim" => After(x, o) = Drop(x, o.excess)
  <1>1. o.excess \in Nat /\ (o.op = "add" => o.msg \in Messages)
    BY DEF Orders, Calls
  <1>2. o.op = "add" => Drop(Append(x, o.msg), o.excess) \in Seq(Messages)
    BY <1>1, AppendFacts, DropFacts
  <1>3. Drop(x, o.excess) \in Seq(Messages)
    BY <1>1, DropFacts
  <1>4. o.excess = 0 => Drop(x, o.excess) = x
    BY DropNone
  <1>5. <<>> \in Seq(Messages)
    BY EmptyFacts
  <1> QED
    BY <1>2, <1>3, <1>4, <1>5 DEF After

LEMMA ToldFacts ==
  ASSUME NEW q \in Seq(Orders), NEW b, NEW d, Told(b, d, q)
  PROVE  /\ Len(q) \in Nat /\ \A i \in 0..Len(q) : b[i] \in Seq(Messages)
         /\ b[0] = d /\ \A i \in 1..Len(q) : b[i] = After(b[i - 1], q[i])
         /\ b[Len(q)] \in Seq(Messages)
  <1>1. Len(q) \in Nat
    BY SeqFacts
  <1>2. Len(q) \in 0..Len(q) /\ \A i \in 0..Len(q) : b[i] \in Seq(Messages)
    BY <1>1 DEF Told
  <1> QED
    BY <1>1, <1>2 DEF Told

Continued(b, q, o) == [i \in 0..(Len(q) + 1) |-> IF i <= Len(q) THEN b[i] ELSE After(b[Len(q)], o)]

LEMMA PushTold ==
  ASSUME NEW q \in Seq(Orders), NEW p, NEW o \in Orders, Pushed(q, p, o),
         NEW b, NEW d, Told(b, d, q), NEW ph, NEW ph2, Reads(b, q, ph),
         o.op = "preload" => ~Waits(q, "preload"),
         Waits(q, "preload") => \/ After(b[Len(q)], o) = b[Len(q)] /\ (ph2 = "chat" => ph = "chat")
                                \/ After(b[Len(q)], o) = <<>> /\ ph2 # "chat"
  PROVE  /\ Told(Continued(b, q, o), d, p) /\ Reads(Continued(b, q, o), p, ph2)
         /\ Continued(b, q, o)[Len(p)] = After(b[Len(q)], o)
  <1> DEFINE c == Continued(b, q, o)
             e == Len(q)
             f == After(b[e], o)
  <1>1. /\ e \in Nat /\ Len(p) = e + 1 /\ p[e + 1] = o
        /\ \A i \in 1..e : p[i] = q[i]
        /\ \A i \in 1..(e + 1) : i \in 1..e \/ i = e + 1
    BY SeqFacts DEF Pushed
  <1>2. /\ \A i \in 0..e : b[i] \in Seq(Messages)
        /\ b[0] = d /\ \A i \in 1..e : b[i] = After(b[i - 1], q[i])
        /\ b[e] \in Seq(Messages) /\ f \in Seq(Messages)
    BY ToldFacts, AfterFacts
  <1>3. c = [i \in 0..(e + 1) |-> IF i <= e THEN b[i] ELSE f]
    BY DEF Continued
  <1>4. Waits(q, "preload") => \/ (f = b[e] /\ (ph2 = "chat" => ph = "chat"))
                                \/ (f = <<>> /\ ph2 # "chat")
    OBVIOUS
  <1> HIDE DEF c, e, f
  <1>5. /\ \A i \in 0..e : c[i] = b[i] /\ i \in 0..(e + 1)
        /\ c[e + 1] = f /\ e + 1 \in 0..(e + 1)
        /\ c \in [0..(e + 1) -> Seq(Messages)]
    <2>1. /\ \A i \in 0..e : i \in 0..(e + 1) /\ i <= e
          /\ e + 1 \in 0..(e + 1) /\ ~(e + 1 <= e)
          /\ \A i \in 0..(e + 1) : i <= e => i \in 0..e
      BY <1>1
    <2> QED
      BY <1>2, <1>3, <2>1
  <1>6. Told(c, d, p)
    <2>1. 0 \in 0..e
      BY <1>1
    <2>2. ASSUME NEW i \in 1..(e + 1) PROVE c[i] = After(c[i - 1], p[i])
      <3>1. CASE i \in 1..e
        <4>1. i \in 0..e /\ i - 1 \in 0..e
          BY <1>1, <3>1
        <4> QED
          BY <1>1, <1>2, <1>5, <3>1, <4>1
      <3>2. CASE i = e + 1
        <4>1. i - 1 = e /\ e \in 0..e
          BY <1>1, <3>2
        <4> QED
          BY <1>1, <1>5, <3>2, <4>1 DEF f
      <3> QED
        BY <1>1, <3>1, <3>2
    <2> QED
      BY <1>1, <1>2, <1>5, <2>1, <2>2 DEF Told
  <1>7. Reads(c, p, ph2)
    <2> SUFFICES ASSUME NEW k \in 1..(e + 1), p[k].op = "preload"
                 PROVE  /\ c[e + 1] = c[k] \/ (ph2 # "chat" /\ c[e + 1] = <<>>)
                        /\ \A l \in 1..(e + 1) : p[l].op = "preload" => l = k
      BY <1>1 DEF Reads
    <2>1. CASE k = e + 1
      <3>1. ~Waits(q, "preload")
        BY <1>1, <2>1
      <3>2. \A l \in 1..e : p[l].op # "preload"
        BY <1>1, <3>1 DEF Waits, e
      <3> QED
        BY <1>1, <2>1, <3>2
    <2>2. CASE k \in 1..e
      <3>1. q[k].op = "preload" /\ k \in 0..e
        BY <1>1, <2>2
      <3>2. Waits(q, "preload")
        BY <2>2, <3>1 DEF Waits, e
      <3>3. /\ b[e] = b[k] \/ (ph # "chat" /\ b[e] = <<>>)
            /\ \A l \in 1..e : q[l].op = "preload" => l = k
        BY <2>2, <3>1 DEF Reads, e
      <3>4. o.op # "preload"
        BY <3>2
      <3>5. \A l \in 1..(e + 1) : p[l].op = "preload" => l = k
        BY <1>1, <3>3, <3>4
      <3>6. c[e + 1] = c[k] \/ (ph2 # "chat" /\ c[e + 1] = <<>>)
        BY <1>4, <1>5, <3>1, <3>2, <3>3
      <3> QED
        BY <3>5, <3>6
    <2> QED
      BY <1>1, <2>1, <2>2
  <1> QED
    BY <1>1, <1>5, <1>6, <1>7 DEF c, f, e

(* The first of the queue has run. *)
LEMMA RunTold ==
  ASSUME NEW q \in Seq(Orders), NEW p \in Seq(Orders), Len(q) > 0, Len(p) = Len(q) - 1,
         \A i \in 1..Len(p) : p[i] = q[i + 1],
         NEW b, NEW d, Told(b, d, q), NEW ph, Reads(b, q, ph)
  PROVE  /\ Told(Shorter(b, p), b[1], p) /\ Reads(Shorter(b, p), p, ph)
         /\ Shorter(b, p)[Len(p)] = b[Len(q)] /\ b[1] = After(d, q[1])
  <1> DEFINE c == Shorter(b, p)
             e == Len(p)
  <1>1. /\ e \in Nat /\ Len(q) = e + 1 /\ \A i \in 1..e : p[i] = q[i + 1]
        /\ \A i \in 0..(e + 1) : b[i] \in Seq(Messages)
        /\ b[0] = d /\ \A i \in 1..(e + 1) : b[i] = After(b[i - 1], q[i])
    <2>1. e \in Nat /\ Len(q) \in Nat /\ Len(q) = e + 1
      BY SeqFacts
    <2>2. /\ \A i \in 0..Len(q) : b[i] \in Seq(Messages)
          /\ b[0] = d /\ \A i \in 1..Len(q) : b[i] = After(b[i - 1], q[i])
      BY ToldFacts
    <2> HIDE DEF e
    <2>3. \A i \in 1..e : p[i] = q[i + 1]
      BY DEF e
    <2> QED
      BY <2>1, <2>2, <2>3
  <1>2. /\ \A i \in 0..e : c[i] = b[i + 1] /\ i + 1 \in 0..(e + 1)
        /\ c \in [0..e -> Seq(Messages)]
    <2>1. \A i \in 0..e : i + 1 \in 0..(e + 1)
      BY <1>1
    <2>2. c = [i \in 0..e |-> b[i + 1]]
      BY DEF Shorter
    <2> HIDE DEF c, e
    <2> QED
      BY <1>1, <2>1, <2>2
  <1> HIDE DEF c, e
  <1>3. c[0] = b[1] /\ c[e] = b[e + 1]
    <2>1. 0 \in 0..e /\ 0 + 1 = 1 /\ e \in 0..e
      BY <1>1
    <2> QED
      BY <1>2, <2>1
  <1>4. ASSUME NEW i \in 1..e PROVE c[i] = After(c[i - 1], p[i])
    <2>1. i \in 0..e /\ i - 1 \in 0..e /\ (i - 1) + 1 = i /\ i + 1 \in 1..(e + 1) /\ (i + 1) - 1 = i
      BY <1>1
    <2>2. c[i] = b[i + 1] /\ c[i - 1] = b[i] /\ p[i] = q[i + 1]
      BY <1>1, <1>2, <2>1
    <2>3. b[i + 1] = After(b[i], q[i + 1])
      BY <1>1, <2>1
    <2> QED
      BY <2>2, <2>3
  <1>5. Told(c, b[1], p)
    BY <1>2, <1>3, <1>4 DEF Told, e
  <1>6. Reads(c, p, ph)
    <2> SUFFICES ASSUME NEW k \in 1..e, p[k].op = "preload"
                 PROVE  /\ c[e] = c[k] \/ (ph # "chat" /\ c[e] = <<>>)
                        /\ \A l \in 1..e : p[l].op = "preload" => l = k
      BY DEF Reads, e
    <2>1. k + 1 \in 1..Len(q) /\ q[k + 1].op = "preload" /\ c[k] = b[k + 1]
      <3>1. k \in 0..e /\ k + 1 \in 1..Len(q)
        BY <1>1
      <3> QED
        BY <1>1, <1>2, <3>1
    <2>2. /\ b[e + 1] = b[k + 1] \/ (ph # "chat" /\ b[e + 1] = <<>>)
          /\ \A l \in 1..Len(q) : q[l].op = "preload" => l = k + 1
      BY <1>1, <2>1 DEF Reads
    <2>3. ASSUME NEW l \in 1..e, p[l].op = "preload" PROVE l = k
      <3>1. l + 1 \in 1..Len(q) /\ q[l + 1].op = "preload"
        BY <1>1, <2>3
      <3>2. l + 1 = k + 1
        BY <2>2, <3>1
      <3> QED
        BY <1>1, <3>2
    <2> QED
      BY <1>3, <2>1, <2>2, <2>3
  <1>7. b[1] = After(d, q[1])
    <2>1. 1 \in 1..(e + 1) /\ 1 - 1 = 0
      BY <1>1
    <2> QED
      BY <1>1, <2>1
  <1> QED
    BY <1>1, <1>3, <1>5, <1>6, <1>7 DEF c, e

(* A trimming that has nothing to cut falls away. *)
LEMMA SkipTold ==
  ASSUME NEW q \in Seq(Orders), NEW p \in Seq(Orders), NEW n \in 1..Len(q), Skipped(q, p, n),
         q[n].excess = 0,
         NEW b, NEW d, Told(b, d, q), NEW ph, Reads(b, q, ph)
  PROVE  /\ Told(Spliced(b, p, n), d, p) /\ Reads(Spliced(b, p, n), p, ph)
         /\ Spliced(b, p, n)[Len(p)] = b[Len(q)]
  <1> DEFINE c == Spliced(b, p, n)
             e == Len(p)
             K(i) == IF i < n THEN i ELSE i + 1
  <1>1. /\ e \in Nat /\ Len(q) = e + 1 /\ n \in 1..(e + 1) /\ n \in Nat
        /\ \A i \in 1..e : p[i] = q[K(i)]
        /\ q[n].op = "trim" /\ q[n] \in Orders
    BY SeqFacts DEF Skipped
  <1>2. /\ \A i \in 0..(e + 1) : b[i] \in Seq(Messages)
        /\ b[0] = d /\ \A i \in 1..(e + 1) : b[i] = After(b[i - 1], q[i])
    <2>1. /\ \A i \in 0..Len(q) : b[i] \in Seq(Messages)
          /\ b[0] = d /\ \A i \in 1..Len(q) : b[i] = After(b[i - 1], q[i])
      BY ToldFacts
    <2>2. Len(q) = e + 1
      BY <1>1
    <2> HIDE DEF e
    <2> QED
      BY <2>1, <2>2
  <1>3. \A i \in 0..e : K(i) \in 0..(e + 1)
    BY <1>1
  <1>4. /\ \A i \in 0..e : c[i] = b[K(i)]
        /\ c \in [0..e -> Seq(Messages)]
    <2>1. \A i \in 0..e : (IF i < n THEN b[i] ELSE b[i + 1]) = b[K(i)]
      OBVIOUS
    <2>2. c = [i \in 0..e |-> IF i < n THEN b[i] ELSE b[i + 1]]
      BY DEF Spliced
    <2> HIDE DEF c, e, K
    <2> QED
      BY <1>2, <1>3, <2>1, <2>2
  <1>5. b[n] = b[n - 1]
    <2> HIDE DEF K, c, e
    <2>1. n - 1 \in 0..(e + 1)
      BY <1>1
    <2>2. b[n] = After(b[n - 1], q[n]) /\ b[n - 1] \in Seq(Messages)
      BY <1>1, <1>2, <2>1
    <2> QED
      BY <1>1, <2>2, AfterFacts
  <1>6. \A i \in 1..e : K(i) \in 1..(e + 1) /\ K(i) - 1 \in 0..(e + 1)
                        /\ (K(i) - 1 = K(i - 1) \/ (K(i) - 1 = n /\ K(i - 1) = n - 1))
    BY <1>1
  <1>7. K(e) = e + 1 \/ (K(e) = e /\ n = e + 1)
    BY <1>1
  <1>8. K(0) = 0 /\ 0 \in 0..e /\ e \in 0..e
    BY <1>1
  <1>9. \A i, j \in 1..e : K(i) = K(j) => i = j
    BY <1>1
  <1> HIDE DEF K, c, e
  <1>10. c[0] = d /\ c[e] = b[e + 1]
    <2>1. c[e] = b[K(e)]
      BY <1>4, <1>8
    <2>2. n = e + 1 => n - 1 = e
      BY <1>1
    <2>3. b[K(e)] = b[e + 1]
      BY <1>5, <1>7, <2>2
    <2> QED
      BY <1>2, <1>4, <1>8, <2>1, <2>3
  <1>11. ASSUME NEW i \in 1..e PROVE c[i] = After(c[i - 1], p[i])
    <2>1. i \in 0..e /\ i - 1 \in 0..e
      BY <1>1
    <2>2. c[i] = b[K(i)] /\ c[i - 1] = b[K(i - 1)] /\ p[i] = q[K(i)]
      BY <1>1, <1>4, <2>1
    <2>3. b[K(i)] = After(b[K(i) - 1], q[K(i)])
      BY <1>2, <1>6
    <2>4. b[K(i) - 1] = b[K(i - 1)]
      BY <1>5, <1>6
    <2> QED
      BY <2>2, <2>3, <2>4
  <1>12. Told(c, d, p)
    BY <1>4, <1>10, <1>11 DEF Told, e
  <1>13. Reads(c, p, ph)
    <2> SUFFICES ASSUME NEW k \in 1..e, p[k].op = "preload"
                 PROVE  /\ c[e] = c[k] \/ (ph # "chat" /\ c[e] = <<>>)
                        /\ \A l \in 1..e : p[l].op = "preload" => l = k
      BY DEF Reads, e
    <2>1. k \in 0..e /\ K(k) \in 1..Len(q) /\ q[K(k)].op = "preload"
      BY <1>1, <1>6
    <2>2. /\ b[e + 1] = b[K(k)] \/ (ph # "chat" /\ b[e + 1] = <<>>)
          /\ \A l \in 1..Len(q) : q[l].op = "preload" => l = K(k)
      BY <1>1, <2>1 DEF Reads
    <2>3. ASSUME NEW l \in 1..e, p[l].op = "preload" PROVE l = k
      <3>1. K(l) \in 1..Len(q) /\ q[K(l)].op = "preload"
        BY <1>1, <1>6, <2>3
      <3> QED
        BY <1>9, <2>2, <3>1
    <2> QED
      BY <1>4, <1>10, <2>1, <2>2, <2>3
  <1> QED
    BY <1>1, <1>10, <1>12, <1>13 DEF c, e

LEMMA PushWaits ==
  ASSUME NEW q \in Seq(Orders), NEW p, NEW o, Pushed(q, p, o), NEW w
  PROVE  /\ Waits(p, w) => Waits(q, w) \/ o.op = w
         /\ Waits(q, w) \/ o.op = w => Waits(p, w)
  <1>1. /\ Len(q) \in Nat /\ Len(p) = Len(q) + 1 /\ p[Len(q) + 1] = o
        /\ \A i \in 1..Len(q) : p[i] = q[i]
    BY SeqFacts DEF Pushed
  <1>2. /\ Len(q) + 1 \in 1..Len(p) /\ \A i \in 1..Len(q) : i \in 1..Len(p)
        /\ \A i \in 1..Len(p) : i \in 1..Len(q) \/ i = Len(q) + 1
    BY <1>1
  <1> QED
    BY <1>1, <1>2 DEF Waits

LEMMA RunWaits ==
  ASSUME NEW q \in Seq(Orders), NEW p \in Seq(Orders), Len(q) > 0, Len(p) = Len(q) - 1,
         \A i \in 1..Len(p) : p[i] = q[i + 1], NEW w
  PROVE  /\ Waits(p, w) => Waits(q, w)
         /\ Waits(q, w) /\ q[1].op # w => Waits(p, w)
  <1>1. Len(q) \in Nat /\ Len(p) \in Nat /\ Len(q) = Len(p) + 1
    BY SeqFacts
  <1>2. /\ \A i \in 1..Len(p) : i + 1 \in 1..Len(q)
        /\ \A i \in 1..Len(q) : i = 1 \/ (i - 1 \in 1..Len(p) /\ (i - 1) + 1 = i)
    BY <1>1
  <1>3. Waits(p, w) => Waits(q, w)
    BY <1>2 DEF Waits
  <1>4. ASSUME Waits(q, w), q[1].op # w PROVE Waits(p, w)
    <2>1. PICK i \in 1..Len(q) : q[i].op = w
      BY <1>4 DEF Waits
    <2>2. i - 1 \in 1..Len(p) /\ (i - 1) + 1 = i
      BY <1>2, <1>4, <2>1
    <2>3. p[i - 1].op = w
      BY <2>1, <2>2
    <2> QED
      BY <2>2, <2>3 DEF Waits
  <1> QED
    BY <1>3, <1>4

LEMMA SkipWaits ==
  ASSUME NEW q \in Seq(Orders), NEW p \in Seq(Orders), NEW n \in 1..Len(q), Skipped(q, p, n),
         NEW w
  PROVE  Waits(p, w) => Waits(q, w)
  <1>1. /\ Len(q) \in Nat /\ Len(p) \in Nat /\ Len(q) = Len(p) + 1 /\ n \in Nat
        /\ \A i \in 1..Len(p) : p[i] = IF i < n THEN q[i] ELSE q[i + 1]
    BY SeqFacts DEF Skipped
  <1>2. \A i \in 1..Len(p) : i \in 1..Len(q) /\ i + 1 \in 1..Len(q)
    BY <1>1
  <1> QED
    BY <1>1, <1>2 DEF Waits

LEMMA UndisturbedBefore ==
  ASSUME Typed, Typed', mishaps \subseteq mishaps', slips <= slips', Undisturbed'
  PROVE  Undisturbed /\ slips' = 0 /\ mishaps' = {} /\ slips = 0 /\ mishaps = {}
  <1>1. slips \in Nat /\ slips' = 0 /\ mishaps' = {}
    BY Numbers DEF Undisturbed
  <1>2. slips = 0 /\ mishaps = {}
    BY <1>1
  <1> QED
    BY <1>1, <1>2 DEF Undisturbed

LEMMA InitKeeping == Init => Keeping
  <1> SUFFICES ASSUME Init PROVE Keeping
    OBVIOUS
  <1>1. /\ calls = <<>> /\ txs = <<>> /\ cache = <<>> /\ db = <<>>
        /\ phase = "connecting" /\ logMax = Default /\ chan = NoChannel
    BY DEF Init
  <1>2. Len(<<>>) = 0 /\ <<>> \in Seq(Messages) /\ logMax \in Nat /\ Len(Queue) = 0
    BY <1>1, EmptyFacts, EmptyQueue, LimitFacts, ChatLogAssumption
  <1> DEFINE b == [i \in 0..0 |-> <<>>]
             q == Queue
  <1>3. /\ b \in [0..0 -> Seq(Messages)] /\ b[0] = <<>> /\ \A i \in 1..0 : FALSE
    BY <1>2
  <1> HIDE DEF b, q
  <1>4. Told(b, <<>>, q) /\ Reads(b, q, phase) /\ b[Len(q)] = <<>>
    BY <1>2, <1>3 DEF Told, Reads, q
  <1>5. Result(<<>>)
    BY <1>1, <1>2 DEF Result
  <1> QED
    BY <1>1, <1>4, <1>5 DEF Keeping, Empty, q

(* A step that asks for nothing. *)
LEMMA StillKeeping ==
  ASSUME Typed, Typed', Keeping, UNCHANGED <<db, calls, txs, slips, cache>>,
         mishaps \subseteq mishaps',
         logMax <= logMax' \/ (Undisturbed' => Settled /\ Len(cache) <= logMax'),
         phase' = "replay" => phase = "replay", phase' = "chat" => phase = "chat",
         Undisturbed' /\ chan' # NoChannel /\ ~bare' =>
            \A x \in Seq(Messages) : Result(x) => Held(x, chan')
  PROVE  Keeping'
  <1> SUFFICES ASSUME Undisturbed'
               PROVE  /\ Empty' /\ (phase' = "replay" => Len(Queue') = 0)
                      /\ \E b, x : /\ Told(b, db', Queue') /\ Reads(b, Queue', phase')
                                   /\ x = b[Len(Queue')] /\ Result(x)'
    BY DEF Keeping
  <1>1. slips <= slips'
    BY Numbers
  <1>2. Undisturbed
    BY <1>1, UndisturbedBefore
  <1>3. Queue' = Queue /\ (Settled' => Settled) /\ (Waiting("preload")' => Waiting("preload"))
    BY DEF Queue, Settled, Waiting
  <1>4. PICK b, x : /\ Told(b, db, Queue) /\ Reads(b, Queue, phase)
                    /\ x = b[Len(Queue)] /\ Result(x)
    BY <1>2 DEF Keeping
  <1>5. Empty /\ (phase = "replay" => Len(Queue) = 0)
    BY <1>2 DEF Keeping
  <1>6. Empty' /\ (phase' = "replay" => Len(Queue') = 0)
    BY <1>3, <1>5 DEF Empty
  <1>7. x \in Seq(Messages) /\ Len(x) \in Nat
    BY <1>4, QueueFacts, ToldFacts, SeqFacts
  <1>9. Result(x)'
    <2>1. Len(x) <= logMax /\ (Settled => x = cache)
      BY <1>4 DEF Result
    <2>2. Len(x) <= logMax'
      BY <1>7, <2>1, Numbers, NumbersNext
    <2>3. chan' # NoChannel /\ ~bare' => Held(x, chan')
      BY <1>4, <1>7
    <2> QED
      BY <1>3, <2>1, <2>2, <2>3 DEF Result, Held
  <1>10. Reads(b, Queue', phase')
    BY <1>3, <1>4 DEF Reads
  <1>11. Told(b, db', Queue')
    BY <1>3, <1>4
  <1> QED
    BY <1>3, <1>4, <1>6, <1>9, <1>10, <1>11

(* A step that asks for something. *)
LEMMA AskKeeping ==
  ASSUME Typed, Typed', Keeping, NEW o \in Orders, getDB(o), db' = db,
         mishaps \subseteq mishaps', "overtaken" \notin mishaps' => ~(idb /\ calls # <<>>),
         slips <= slips',
         Undisturbed' => phase' # "replay",
         phase' = "chat" => phase = "chat" \/ o.op = "preload",
         o.op = "preload" => ~Waiting("preload"),
         Undisturbed' /\ phase' = "chat" /\ (Waiting("preload") \/ o.op = "preload") =>
            cache' = <<>>,
         Undisturbed' /\ Empty => \A x \in Seq(Messages) : Result(x) =>
            /\ Waiting("preload") => \/ After(x, o) = x
                                     \/ (After(x, o) = <<>> /\ phase' # "chat")
            /\ Len(After(x, o)) <= logMax'
            /\ Settled /\ phase' = "chat" /\ o.op # "preload" => After(x, o) = cache'
            /\ chan' # NoChannel /\ ~bare' => Held(After(x, o), chan')
  PROVE  Keeping'
  <1> SUFFICES ASSUME Undisturbed'
               PROVE  /\ Empty' /\ (phase' = "replay" => Len(Queue') = 0)
                      /\ \E b, x : /\ Told(b, db', Queue') /\ Reads(b, Queue', phase')
                                   /\ x = b[Len(Queue')] /\ Result(x)'
    BY DEF Keeping
  <1>1. Undisturbed /\ "overtaken" \notin mishaps'
    BY UndisturbedBefore
  <1> DEFINE q == Queue
             p == Queue'
             f == phase
             g == phase'
  <1>2. q \in Seq(Orders) /\ p \in Seq(Orders) /\ Pushed(q, p, o)
    BY <1>1, Push, QueueFacts, QueueFactsNext
  <1>3. PICK b, x : Told(b, db, q) /\ Reads(b, q, f) /\ x = b[Len(q)] /\ Result(x)
    BY <1>1 DEF Keeping
  <1>4. /\ Waits(p, "preload") => Waits(q, "preload") \/ o.op = "preload"
        /\ Waits(q, "preload") \/ o.op = "preload" => Waits(p, "preload")
    BY <1>2, PushWaits
  <1>5. /\ Waiting("preload")' => Waiting("preload") \/ o.op = "preload"
        /\ Waiting("preload") \/ o.op = "preload" => Waiting("preload")'
    BY <1>4, WaitsNow, WaitsNext
  <1>6. x \in Seq(Messages)
    BY <1>2, <1>3, ToldFacts
  <1> DEFINE y == After(x, o)
  <1>7. /\ Waiting("preload") => y = x \/ (y = <<>> /\ phase' # "chat")
        /\ Len(y) <= logMax'
        /\ Settled /\ phase' = "chat" /\ o.op # "preload" => y = cache'
        /\ chan' # NoChannel /\ ~bare' => Held(y, chan')
    <2>1. Empty
      BY <1>1 DEF Keeping
    <2> QED
      BY <1>3, <1>6, <2>1
  <1>8. Result(y)'
    <2>1. Settled' => Settled /\ phase' = "chat" /\ o.op # "preload"
      BY <1>5 DEF Settled
    <2> HIDE DEF y
    <2> QED
      BY <1>7, <2>1 DEF Result, Held
  <1>9. /\ o.op = "preload" => ~Waits(q, "preload")
        /\ Waits(q, "preload") => \/ After(b[Len(q)], o) = b[Len(q)] /\ (g = "chat" => f = "chat")
                                  \/ After(b[Len(q)], o) = <<>> /\ g # "chat"
    <2>1. Waits(q, "preload") => Waiting("preload")
      BY WaitsNow
    <2>2. y = After(b[Len(q)], o) /\ x = b[Len(q)]
      BY <1>3
    <2>3. o.op = "preload" => ~Waits(q, "preload")
      BY <2>1
    <2>4. Waits(q, "preload") => (g = "chat" => f = "chat")
      BY <2>1
    <2> HIDE DEF q, y, f
    <2> QED
      BY <1>7, <2>1, <2>2, <2>3, <2>4
  <1> DEFINE c == Continued(b, q, o)
             d == db
  <1>10. Told(b, d, q) /\ Reads(b, q, f)
    BY <1>3
  <1> HIDE DEF q, p, f, g, d
  <1>11. Told(c, d, p) /\ Reads(c, p, g) /\ c[Len(p)] = y
    BY <1>2, <1>3, <1>9, <1>10, PushTold
  <1>12. Empty' /\ (phase' = "replay" => Len(Queue') = 0)
    BY <1>5 DEF Empty
  <1> HIDE DEF c, y
  <1> QED
    BY <1>8, <1>11, <1>12 DEF p, g, d

(* A channel made when its log is there starts with all of it.              *)
LEMMA ShowHeld ==
  ASSUME Typed, NEW x \in Seq(Messages), Result(x), NoteBare, ~bare', phase \in {"chat", "replay"}
  PROVE  Held(x, ensureChannel)
  <1>1. CASE chan # NoChannel
    BY <1>1 DEF NoteBare, Result, ensureChannel
  <1>2. CASE chan = NoChannel
    <2>1. ~Waiting("preload") /\ Known
      BY <1>2 DEF NoteBare, Loading
    <2>2. ensureChannel = cache /\ Settled
      BY <1>2, <2>1 DEF ensureChannel, Settled, Known
    <2>3. x = cache
      BY <2>2 DEF Result
    <2> QED
      BY <2>2, <2>3 DEF Held
  <1> QED
    BY <1>1, <1>2

(* A message that does not slip is the newest of a loaded cache, and both   *)
(* the cache and the rows lose what is too much.                            *)
LEMMA PersistKeeping ==
  ASSUME Typed, Typed', Keeping, NEW m \in Messages, trusted, persistMsg(m), NoteBare,
         phase \in {"chat", "replay"}, phase' = phase, db' = db, logMax' = logMax,
         chan' = Append(ensureChannel, m)
  PROVE  Keeping'
  <1> DEFINE full == Append(cache, m)
             e == IF Known THEN Excess(full, logMax) ELSE 0
             o == Op("add", m, e)
  <1>1. /\ cache' = IF Known THEN Newest(full, logMax) ELSE cache
        /\ getDB(o) /\ Note(Overtaking)
        /\ slips' = IF Waiting("preload") \/ ~Known THEN slips + 1 ELSE slips
    BY DEF persistMsg
  <1>2. full \in Seq(Messages) /\ e \in Nat /\ cache \in Seq(Messages) /\ logMax \in Nat
    <2>1. full \in Seq(Messages)
      BY Numbers, AppendFacts
    <2> QED
      BY <2>1, Numbers, NewestFacts
  <1>3. Newest(full, logMax) = Drop(full, Excess(full, logMax)) /\ Len(Newest(full, logMax)) <= logMax
    BY <1>2, NewestFacts DEF Newest
  <1>4. /\ mishaps \subseteq mishaps'
        /\ "overtaken" \notin mishaps' => ~(idb /\ calls # <<>>)
    BY <1>1, NoteOnly
  <1>5. slips <= slips'
    BY <1>1, Numbers
  <1>6. ASSUME Undisturbed' PROVE Settled /\ Known /\ ~Waiting("preload") /\ phase = "chat"
    <2>1. slips' = 0 /\ slips \in Nat
      BY <1>6, Numbers DEF Undisturbed
    <2>2. ~Waiting("preload") /\ Known
      BY <1>1, <2>1
    <2> QED
      BY <2>2 DEF Settled, Known
  <1>7. o \in Orders /\ o.op = "add" /\ o.excess = e /\ o.msg = m
    <2> HIDE DEF e
    <2> QED
      BY <1>2 DEF Op, Orders, Calls
  <1>8. Known => cache' = Drop(full, e) /\ Len(cache') <= logMax'
    BY <1>1, <1>3
  <1> HIDE DEF e, o
  <1>9. ASSUME Undisturbed', NEW x \in Seq(Messages), Result(x)
        PROVE  /\ After(x, o) = cache' /\ Len(After(x, o)) <= logMax'
               /\ ~bare' => Held(After(x, o), chan')
    <2>1. x = cache
      BY <1>6, <1>9 DEF Result
    <2>2. After(x, o) = cache'
      <3>1. After(x, o) = Drop(Append(x, o.msg), o.excess)
        BY <1>7, AfterFacts
      <3> QED
        BY <1>6, <1>7, <1>8, <1>9, <2>1, <3>1
    <2>3. ASSUME ~bare' PROVE Held(After(x, o), chan')
      <3>1. Held(x, ensureChannel)
        BY <1>9, <2>3, ShowHeld
      <3>2. ensureChannel \in Seq(Messages) /\ chan' \in Seq(Messages)
        BY EnsureTypes DEF Typed
      <3>3. Held(full, chan')
        BY <2>1, <3>1, <3>2, HeldFacts
      <3>4. Held(Drop(full, e), chan')
        BY <1>2, <3>2, <3>3, HeldDrop
      <3> QED
        BY <1>6, <1>8, <1>9, <2>2, <3>4
    <2> QED
      BY <1>6, <1>8, <1>9, <2>2, <2>3
  <1>10. Undisturbed' => phase' # "replay"
    BY <1>6
  <1>11. Undisturbed' /\ phase' = "chat" /\ (Waiting("preload") \/ o.op = "preload") =>
            cache' = <<>>
    BY <1>6, <1>7
  <1>12. Undisturbed' /\ Empty => \A x \in Seq(Messages) : Result(x) =>
            /\ Waiting("preload") => \/ After(x, o) = x
                                     \/ (After(x, o) = <<>> /\ phase' # "chat")
            /\ Len(After(x, o)) <= logMax'
            /\ Settled /\ phase' = "chat" /\ o.op # "preload" => After(x, o) = cache'
            /\ chan' # NoChannel /\ ~bare' => Held(After(x, o), chan')
    BY <1>6, <1>9
  <1>13. /\ phase' = "chat" => phase = "chat" \/ o.op = "preload"
         /\ o.op = "preload" => ~Waiting("preload")
    BY <1>7
  <1> QED
    BY <1>1, <1>4, <1>5, <1>7, <1>10, <1>11, <1>12, <1>13, AskKeeping

(* What is not kept is shown, and the rest with it.                         *)
LEMMA ShowKeeping ==
  ASSUME Typed, Typed', Keeping, NoteBare, phase \in {"chat", "replay"}, phase' = phase,
         UNCHANGED <<db, calls, txs, slips, cache, mishaps, logMax>>,
         chan' = ensureChannel \/ \E m \in Messages : chan' = Append(ensureChannel, m)
  PROVE  Keeping'
  <1>1. logMax <= logMax'
    BY Numbers
  <1>2. ensureChannel \in Seq(Messages)
    BY EnsureTypes DEF Typed
  <1>3. ASSUME ~bare', NEW x \in Seq(Messages), Result(x) PROVE Held(x, chan')
    <2>1. Held(x, ensureChannel)
      BY <1>3, ShowHeld
    <2> QED
      BY <1>2, <2>1, HeldFacts
  <1> QED
    BY <1>1, <1>3, StillKeeping

LEMMA MessageKeeping == ASSUME Typed, Typed', Keeping, Message PROVE Keeping'
  <1>1. /\ phase \in {"chat", "replay"} /\ db' = db /\ phase' = phase /\ logMax' = logMax
        /\ persistMsg(logged + 1) /\ NoteBare /\ chan' = Append(ensureChannel, logged + 1)
    BY DEF Message
  <1>2. logged + 1 \in Messages
    BY ChatLogAssumption DEF Message, Typed, Types, Messages
  <1>3. CASE trusted
    BY <1>1, <1>2, <1>3, PersistKeeping
  <1>4. CASE ~trusted
    <2>1. UNCHANGED <<cache, idb, calls, txs, slips, mishaps>>
      BY <1>1, <1>4, NotKept
    <2> QED
      BY <1>1, <1>2, <2>1, ShowKeeping
  <1> QED
    BY <1>3, <1>4

LEMMA PlaybackKeeping ==
  ASSUME Typed, Typed', Keeping, NEW m \in Messages, Playback(m) PROVE Keeping'
  <1>1. /\ phase = "chat" /\ phase' = phase /\ db' = db /\ logMax' = logMax /\ NoteBare
    BY DEF Playback
  <1>2. CASE isDuplicateMsg(m)
    <2>1. UNCHANGED <<cache, calls, txs, slips, mishaps>> /\ chan' = ensureChannel
      BY <1>2 DEF Playback
    <2> QED
      BY <1>1, <2>1, ShowKeeping
  <1>3. CASE ~isDuplicateMsg(m)
    <2>1. persistMsg(m) /\ chan' = Append(ensureChannel, m)
      BY <1>3 DEF Playback
    <2>2. CASE trusted
      BY <1>1, <2>1, <2>2, PersistKeeping
    <2>3. CASE ~trusted
      <3>1. UNCHANGED <<cache, calls, txs, slips, mishaps>>
        BY <2>1, <2>3, NotKept
      <3> QED
        BY <1>1, <2>1, <3>1, ShowKeeping
    <2> QED
      BY <2>2, <2>3
  <1> QED
    BY <1>2, <1>3

LEMMA PageKeeping ==
  ASSUME Typed, Typed', Keeping, Joined \/ Left \/ Submit PROVE Keeping'
  <1>1. UNCHANGED <<db, calls, txs, slips, mishaps, cache, logMax>>
    BY DEF Joined, Left, Submit, disk
  <1>2. logMax <= logMax'
    BY <1>1, Numbers
  <1>3. CASE Joined
    BY <1>1, <1>3, ShowKeeping DEF Joined
  <1>4. CASE Left
    BY <1>1, <1>2, <1>4, StillKeeping DEF Left
  <1>5. CASE Submit
    <2>1. phase' = "connecting" /\ chan' = chan /\ bare' = bare
      BY <1>5 DEF Submit
    <2>2. chan' # NoChannel /\ ~bare' => \A x \in Seq(Messages) : Result(x) => Held(x, chan')
      BY <2>1 DEF Result
    <2> QED
      BY <1>1, <1>2, <2>1, <2>2, StillKeeping
  <1> QED
    BY <1>3, <1>4, <1>5

LEMMA PreloadKeeping == ASSUME Typed, Typed', Keeping, Preload PROVE Keeping'
  <1> DEFINE o == Op("preload", 0, 0)
  <1>1. /\ getDB(o) /\ Note(Overtaking) /\ cache' = <<>> /\ phase' = "chat" /\ chan' = chan
        /\ db' = db /\ logMax' = logMax /\ slips' = slips /\ ~Waiting("preload") /\ bare' = bare
    BY DEF Preload
  <1>2. o \in Orders /\ o.op = "preload"
    BY OpFacts
  <1> HIDE DEF o
  <1>3. /\ mishaps \subseteq mishaps'
        /\ "overtaken" \notin mishaps' => ~(idb /\ calls # <<>>)
    BY <1>1, NoteOnly
  <1>4. slips <= slips'
    BY <1>1, Numbers
  <1>5. ASSUME NEW x \in Seq(Messages), Result(x)
        PROVE  Len(After(x, o)) <= logMax' /\ (chan' # NoChannel /\ ~bare' => Held(After(x, o), chan'))
    <2>1. After(x, o) = x
      BY <1>2, AfterFacts
    <2> QED
      BY <1>1, <1>5, <2>1 DEF Result
  <1> QED
    BY <1>1, <1>2, <1>3, <1>4, <1>5, AskKeeping

LEMMA ClearKeeping ==
  ASSUME Typed, Typed', Keeping, clearLocalData, phase' = "form", UNCHANGED <<db, logMax, slips>>
  PROVE  Keeping'
  <1> DEFINE o == Op("clear", 0, 0)
  <1>1. getDB(o) /\ Note(Overtaking) /\ cache' = <<>>
    BY DEF clearLocalData
  <1>2. o \in Orders /\ o.op = "clear"
    BY OpFacts
  <1> HIDE DEF o
  <1>3. /\ mishaps \subseteq mishaps'
        /\ "overtaken" \notin mishaps' => ~(idb /\ calls # <<>>)
    BY <1>1, NoteOnly
  <1>4. slips <= slips' /\ Len(<<>>) <= logMax' /\ Held(<<>>, chan')
    BY Numbers, NumbersNext, EmptyFacts DEF Held
  <1>5. \A x \in Seq(Messages) : After(x, o) = <<>>
    BY <1>2, AfterFacts
  <1> QED
    BY <1>1, <1>2, <1>3, <1>4, <1>5, AskKeeping

LEMMA FormKeeping ==
  ASSUME Typed, Typed', Keeping, Disconnect \/ SetTrusted PROVE Keeping'
  <1>1. UNCHANGED <<db, logMax, slips>> /\ phase' = "form" /\ logMax <= logMax'
    BY Numbers DEF Disconnect, SetTrusted
  <1>2. \/ clearLocalData
        \/ UNCHANGED <<cache, idb, calls, txs, mishaps>>
    BY DEF Disconnect, SetTrusted
  <1>3. CASE clearLocalData
    BY <1>1, <1>3, ClearKeeping
  <1>4. CASE UNCHANGED <<cache, idb, calls, txs, mishaps>>
    <2>1. chan' = NoChannel \/ (chan' = chan /\ bare' = bare)
      BY DEF Disconnect, SetTrusted
    <2>2. chan' # NoChannel /\ ~bare' => \A x \in Seq(Messages) : Result(x) => Held(x, chan')
      BY <2>1 DEF Result
    <2> QED
      BY <1>1, <1>4, <2>2, StillKeeping
  <1> QED
    BY <1>2, <1>3, <1>4

(* A limit is lowered when the cache is loaded, and cuts cache and rows by  *)
(* the same number, or cuts neither.                                        *)
LEMMA SetLogMaxKeeping ==
  ASSUME Typed, Typed', Counting, Keeping, NEW n \in Limits, SetLogMax(n) PROVE Keeping'
  <1> DEFINE S == {x \in {"lowered"} : n < logMax /\ Waiting("preload")}
             e == IF idb THEN Excess(cache, n) ELSE 0
             o == Op("trim", 0, e)
  <1>1. /\ phase = "chat" /\ phase' = phase /\ logMax' = n /\ chan' = chan /\ bare' = bare
        /\ UNCHANGED <<db, slips>> /\ Note(Overtaking \cup S) /\ trimAllCaches
    BY DEF SetLogMax
  <1>2. n \in Nat /\ slips <= slips' /\ cache \in Seq(Messages) /\ logMax \in Nat
    BY <1>1, LimitFacts, Numbers
  <1>3. /\ mishaps \subseteq mishaps'
        /\ "overtaken" \notin mishaps' => ~(idb /\ calls # <<>>)
    <2> HIDE DEF S
    <2> QED
      BY <1>1, NoteFacts
  <1>4. ASSUME Undisturbed' PROVE (~idb => Waiting("preload")) /\ (logMax <= n \/ Settled)
    <2>1. "lowered" \notin mishaps' /\ S \subseteq mishaps'
      BY <1>1, <1>4 DEF Undisturbed, Note
    <2>2. ~(n < logMax /\ Waiting("preload"))
      BY <2>1
    <2>3. logMax <= n \/ Settled
      BY <1>1, <1>2, <2>2 DEF Settled
    <2>4. Unharmed
      BY <1>2, <1>3, <1>4, UndisturbedBefore DEF Unharmed
    <2> QED
      BY <1>1, <2>3, <2>4 DEF Counting, Opening
  <1>5. CASE idb /\ Len(cache) <= n
    <2>1. UNCHANGED <<cache, calls, txs>>
      BY <1>1, <1>5 DEF trimAllCaches
    <2>2. logMax <= logMax' \/ (Undisturbed' => Settled /\ Len(cache) <= logMax')
      BY <1>1, <1>4, <1>5
    <2>3. chan' # NoChannel /\ ~bare' => \A x \in Seq(Messages) : Result(x) => Held(x, chan')
      BY <1>1 DEF Result
    <2> QED
      BY <1>1, <1>3, <2>1, <2>2, <2>3, StillKeeping
  <1>6. CASE ~(idb /\ Len(cache) <= n)
    <2>1. getDB(o) /\ cache' = IF idb THEN Newest(cache, n) ELSE cache
      BY <1>1, <1>6 DEF trimAllCaches
    <2>2. e \in Nat
      BY <1>2, NewestFacts
    <2>3. Newest(cache, n) = Drop(cache, Excess(cache, n)) /\ Len(Newest(cache, n)) <= n
      BY <1>2, NewestFacts DEF Newest
    <2>4. /\ ~idb => e = 0 /\ cache' = cache
          /\ idb => cache' = Drop(cache, e) /\ Len(cache') <= n
      BY <2>1, <2>3
    <2>5. cache = <<>> => e = 0 /\ cache' = <<>>
      <3>1. cache = <<>> => Len(cache) = 0 /\ Len(cache) <= n
        BY <1>2, EmptyFacts
      <3>2. Len(cache) <= n => Excess(cache, n) = 0 /\ Newest(cache, n) = cache
        BY <1>2, NewestLen, NewestSame
      <3> QED
        BY <2>1, <3>1, <3>2
    <2> HIDE DEF e
    <2>6. o \in Orders /\ o.op = "trim" /\ o.excess = e
      BY <2>2, OpFacts
    <2> HIDE DEF o
    <2>7. ASSUME Undisturbed', Empty, NEW x \in Seq(Messages), Result(x)
          PROVE  /\ Waiting("preload") => After(x, o) = x /\ cache' = <<>>
                 /\ Len(After(x, o)) <= logMax'
                 /\ Settled => After(x, o) = cache'
                 /\ chan' # NoChannel /\ ~bare' => Held(After(x, o), chan')
      <3>1. Len(x) <= logMax /\ Len(x) \in Nat /\ (Settled => x = cache)
        BY <2>7, SeqFacts DEF Result
      <3>2. After(x, o) = Drop(x, e)
        BY <2>6, AfterFacts
      <3>3. chan' # NoChannel /\ ~bare' => Held(After(x, o), chan')
        <4> SUFFICES ASSUME chan' # NoChannel, ~bare' PROVE Held(After(x, o), chan')
          OBVIOUS
        <4>1. Held(x, chan') /\ chan' \in Seq(Messages)
          BY <1>1, <2>7 DEF Result, Typed, Types
        <4>2. Held(Drop(x, e), chan')
          BY <2>2, <4>1, HeldDrop
        <4> QED
          BY <3>2, <4>2
      <3>4. CASE Waiting("preload")
        <4>1. cache = <<>> /\ ~Settled
          BY <1>1, <2>7, <3>4 DEF Empty, Settled
        <4>2. After(x, o) = x /\ cache' = <<>>
          BY <2>5, <3>2, <4>1, DropNone
        <4>3. Len(x) <= n
          BY <1>2, <1>4, <2>7, <3>1, <4>1
        <4> QED
          BY <1>1, <3>3, <4>1, <4>2, <4>3
      <3>5. CASE ~Waiting("preload")
        <4>1. x = cache /\ idb
          BY <1>1, <1>4, <2>7, <3>1, <3>5 DEF Settled
        <4>2. After(x, o) = cache' /\ Len(cache') <= n
          BY <2>4, <3>2, <4>1
        <4> QED
          BY <1>1, <3>3, <3>5, <4>2
      <3> QED
        BY <3>4, <3>5
    <2>8. Undisturbed' /\ phase' = "chat" /\ (Waiting("preload") \/ o.op = "preload") =>
            cache' = <<>>
      <3> SUFFICES ASSUME Undisturbed', Waiting("preload") PROVE cache' = <<>>
        BY <2>6
      <3>1. Empty
        BY <1>2, <1>3, UndisturbedBefore DEF Keeping
      <3> QED
        BY <1>1, <2>5, <3>1 DEF Empty
    <2>9. /\ phase' # "replay" /\ phase = "chat" /\ o.op # "preload" /\ db' = db
      BY <1>1, <2>6
    <2>10. Undisturbed' /\ Empty => \A x \in Seq(Messages) : Result(x) =>
            /\ Waiting("preload") => \/ After(x, o) = x
                                     \/ (After(x, o) = <<>> /\ phase' # "chat")
            /\ Len(After(x, o)) <= logMax'
            /\ Settled /\ phase' = "chat" /\ o.op # "preload" => After(x, o) = cache'
            /\ chan' # NoChannel /\ ~bare' => Held(After(x, o), chan')
      BY <2>7
    <2> QED
      BY <1>2, <1>3, <2>1, <2>6, <2>8, <2>9, <2>10, AskKeeping
  <1> QED
    BY <1>5, <1>6

(* A reload leaves the rows that are there, which keep the limit unless a   *)
(* clearing or a trimming was lost with what was under way.                 *)
LEMMA ReloadKeeping == ASSUME Typed, Typed', Bounded', Keeping, Reload PROVE Keeping'
  <1> SUFFICES ASSUME Undisturbed'
               PROVE  /\ Empty' /\ (phase' = "replay" => Len(Queue') = 0)
                      /\ \E b, x : /\ Told(b, db', Queue') /\ Reads(b, Queue', phase')
                                   /\ x = b[Len(Queue')] /\ Result(x)'
    BY DEF Keeping
  <1>1. /\ phase' \in {"replay", "form"} /\ chan' = NoChannel /\ calls' = <<>> /\ txs' = <<>>
    BY DEF Reload
  <1>2. Len(Queue') = 0
    BY <1>1, EmptyQueueNext
  <1>3. Len(db') <= logMax'
    <2>1. Quiet' /\ mishaps' = {} /\ slips' = 0
      BY <1>1 DEF Quiet, Undisturbed
    <2>2. Len(db') <= logMax' + slips'
      BY <2>1 DEF Bounded
    <2> QED
      BY <2>1, <2>2, NumbersNext
  <1>4. ASSUME NEW x, x = db' PROVE Result(x)'
    <2>1. ~Settled' /\ ~(chan' # NoChannel)
      BY <1>1 DEF Settled
    <2> QED
      BY <1>3, <1>4, <2>1 DEF Result
  <1> DEFINE d == db'
             q == Queue'
             f == phase'
             b == [i \in 0..0 |-> d]
  <1>5. d \in Seq(Messages)
    BY DEF Typed, Types
  <1>6. Empty' /\ (phase' = "replay" => Len(Queue') = 0)
    BY <1>1, <1>2 DEF Empty
  <1>7. Len(q) = 0
    BY <1>2
  <1> HIDE DEF d, q, f
  <1>8. b \in [0..0 -> Seq(Messages)] /\ b[0] = d /\ \A i \in 1..0 : FALSE
    BY <1>5
  <1> HIDE DEF b
  <1>9. Told(b, d, q) /\ Reads(b, q, f) /\ d = b[Len(q)]
    BY <1>7, <1>8 DEF Told, Reads
  <1>10. PICK x : x = d
    OBVIOUS
  <1>11. Result(x)'
    BY <1>4, <1>10 DEF d
  <1> QED
    BY <1>6, <1>9, <1>10, <1>11 DEF d, q, f

(* What waits for the database finds a page with a server, and a trimming   *)
(* among it has nothing to cut.                                             *)
LEMMA OpenedKeeping == ASSUME Typed, Typed', Counting, Keeping, Opened PROVE Keeping'
  <1> SUFFICES ASSUME Undisturbed'
               PROVE  /\ Empty' /\ (phase' = "replay" => Len(Queue') = 0)
                      /\ \E b, x : /\ Told(b, db', Queue') /\ Reads(b, Queue', phase')
                                   /\ x = b[Len(Queue')] /\ Result(x)'
    BY DEF Keeping
  <1> DEFINE q == Queue
             p == Queue'
             d == db
             f == phase
  <1>1. /\ UNCHANGED <<phase, logMax, db, slips, mishaps, chan, bare>> /\ calls # <<>>
        /\ cache' = cache \/ cache' = Newest(cache, logMax)
    BY DEF Opened
  <1>2. Undisturbed /\ Unharmed
    BY <1>1 DEF Undisturbed, Unharmed
  <1>3. Len(cache) <= logMax /\ Idle
    BY <1>2 DEF Counting
  <1>4. cache' = cache
    BY <1>1, <1>3, Numbers, NewestSame
  <1>5. /\ calls \in Seq(Orders) /\ Len(calls) \in Nat /\ Len(calls) > 0 /\ Head(calls) = calls[1]
        /\ 1 \in 1..Len(calls)
    BY <1>1, Numbers, TailFacts
  <1>6. q \in Seq(Orders) /\ p \in Seq(Orders) /\ Len(q) > 0
    BY <1>5, QueueFacts, QueueFactsNext
  <1>7. Empty /\ f # "replay"
    BY <1>2, <1>6 DEF Keeping
  <1>8. PICK n \in 1..Len(q) :
           /\ q[n] = Head(calls)
           /\ Swapped(q, p, n) \/ Skipped(q, p, n)
           /\ q[n].op = "trim" => Skipped(q, p, n)
    BY <1>3, OpenedQueue
  <1>9. q[n].op = "trim" => q[n].excess = 0
    BY <1>3, <1>5, <1>8 DEF Idle
  <1>10. (Skipped(q, p, n) /\ q[n].op = "trim") \/ (Swapped(q, p, n) /\ p[n] = q[n])
    BY <1>7, <1>8 DEF Swapped, Skipped, Known
  <1>11. PICK b, x : Told(b, d, q) /\ Reads(b, q, f) /\ x = b[Len(q)] /\ Result(x)
    BY <1>2 DEF Keeping
  <1>12. /\ Waits(q, "preload") => Waits(p, "preload")
         /\ Waits(p, "preload") => Waits(q, "preload")
    <2>1. Waits(q, "preload") => Waits(p, "preload")
      BY <1>6, <1>8, SwapOrder, SkipOrder
    <2>2. ASSUME Skipped(q, p, n) PROVE Waits(p, "preload") => Waits(q, "preload")
      <3> HIDE DEF q, p
      <3> QED
        BY <1>6, <2>2, SkipWaits
    <2>3. ASSUME Swapped(q, p, n), p[n] = q[n] PROVE p = q
      <3> HIDE DEF q, p
      <3> QED
        BY <1>6, <2>3, SameChain DEF Swapped
    <2> HIDE DEF q, p
    <2> QED
      BY <1>10, <2>1, <2>2, <2>3
  <1>13. Settled' => Settled
    BY <1>1, <1>12, WaitsNow, WaitsNext DEF Settled
  <1>14. Empty' /\ (phase' = "replay" => Len(Queue') = 0)
    BY <1>1, <1>4, <1>7, <1>12, WaitsNow, WaitsNext DEF Empty
  <1>15. Result(x)'
    BY <1>1, <1>4, <1>11, <1>13 DEF Result, Held
  <1> HIDE DEF q, p, d, f
  <1>16. PICK c : Told(c, d, p) /\ Reads(c, p, f) /\ x = c[Len(p)]
    <2>1. CASE Skipped(q, p, n) /\ q[n].op = "trim"
      BY <1>6, <1>9, <1>11, <2>1, SkipTold
    <2>2. CASE Swapped(q, p, n) /\ p[n] = q[n]
      <3>1. p = q
        BY <1>6, <2>2, SameChain DEF Swapped
      <3> QED
        BY <1>11, <3>1
    <2> QED
      BY <1>10, <2>1, <2>2
  <1>17. db' = d /\ phase' = f
    BY <1>1 DEF d, f
  <1> QED
    BY <1>14, <1>15, <1>16, <1>17 DEF p

(* A preload leaves in the cache what will be there in the end.             *)
LEMMA RunKeeping == ASSUME Typed, Typed', Keeping, Run PROVE Keeping'
  <1> SUFFICES ASSUME Undisturbed'
               PROVE  /\ Empty' /\ (phase' = "replay" => Len(Queue') = 0)
                      /\ \E b, x : /\ Told(b, db', Queue') /\ Reads(b, Queue', phase')
                                   /\ x = b[Len(Queue')] /\ Result(x)'
    BY DEF Keeping
  <1> DEFINE q == Queue
             p == Queue'
             d == db
             f == phase
             o == q[1]
  <1>1. /\ UNCHANGED <<phase, logMax, slips, mishaps>>
        /\ cache' = IF Head(txs).op = "preload" /\ db # <<>> THEN Newest(db, logMax) ELSE cache
        /\ chan' = IF Head(txs).op = "preload" /\ saved /\ chan = NoChannel THEN cache' ELSE chan
        /\ bare' = IF chan = NoChannel THEN FALSE ELSE bare
    BY DEF Run
  <1>2. Undisturbed
    BY <1>1 DEF Undisturbed
  <1>3. /\ q \in Seq(Orders) /\ p \in Seq(Orders)
        /\ Len(q) > 0 /\ Len(p) = Len(q) - 1 /\ \A i \in 1..Len(p) : p[i] = q[i + 1]
        /\ o = Head(txs) /\ Ran(db, q, db', p)
    BY QueueFacts, QueueFactsNext, RunQueue, RunRan
  <1>4. PICK b, x : Told(b, d, q) /\ Reads(b, q, f) /\ x = b[Len(q)] /\ Result(x)
    BY <1>2 DEF Keeping
  <1>5. Empty /\ f # "replay"
    BY <1>2, <1>3 DEF Keeping
  <1>6. /\ d \in Seq(Messages) /\ x \in Seq(Messages) /\ Len(x) <= logMax /\ logMax \in Nat
        /\ Settled => x = cache
        /\ chan # NoChannel /\ ~bare => Held(x, chan)
    BY <1>3, <1>4, ToldFacts, Numbers DEF Result
  <1> HIDE DEF q, p, d, f
  <1>7. /\ Told(Shorter(b, p), b[1], p) /\ Reads(Shorter(b, p), p, f)
        /\ Shorter(b, p)[Len(p)] = x /\ b[1] = After(d, o)
    BY <1>3, <1>4, RunTold
  <1>8. /\ Waits(p, "preload") => Waits(q, "preload")
        /\ Waits(q, "preload") /\ o.op # "preload" => Waits(p, "preload")
    BY <1>3, RunWaits
  <1>9. 1 \in 1..Len(q) /\ Len(q) \in Nat /\ o \in Orders
    <2>1. Len(q) \in Nat /\ 1 \in 1..Len(q)
      BY <1>3, SeqFacts
    <2> QED
      BY <1>3, <2>1, SeqFacts
  <1>10. db' = b[1]
    <2>1. /\ o.op = "add" => db' = Drop(Append(d, o.msg), o.excess)
          /\ o.op = "trim" => db' = Drop(d, o.excess)
          /\ o.op = "clear" => db' = <<>>
          /\ o.op \notin {"add", "trim", "clear"} => db' = d
      BY <1>3 DEF Ran, d
    <2> HIDE DEF o
    <2> QED
      BY <1>7, <2>1 DEF After
  <1>11. CASE o.op # "preload"
    <2>1. cache' = cache /\ chan' = chan /\ (chan # NoChannel => bare' = bare)
      BY <1>1, <1>3, <1>11
    <2>2. (Settled' => Settled) /\ (Waiting("preload")' => Waiting("preload"))
      BY <1>1, <1>8, <1>11, WaitsNow, WaitsNext DEF Settled, q, p
    <2>3. Result(x)'
      BY <1>1, <1>6, <2>1, <2>2 DEF Result, Held
    <2>4. Empty'
      BY <1>1, <1>5, <2>1, <2>2 DEF Empty
    <2> QED
      BY <1>1, <1>5, <1>7, <1>10, <2>3, <2>4 DEF p, f
  <1>12. CASE o.op = "preload"
    <2>1. b[1] = d
      BY <1>6, <1>7, <1>9, <1>12, AfterFacts
    <2>2. /\ x = d \/ (f # "chat" /\ x = <<>>)
          /\ \A l \in 1..Len(q) : q[l].op = "preload" => l = 1
      BY <1>4, <1>9, <1>12, <2>1 DEF Reads
    <2>3. ~Waits(p, "preload")
      <3>1. ASSUME NEW i \in 1..Len(p), p[i].op = "preload" PROVE FALSE
        <4>1. i + 1 \in 1..Len(q) /\ i + 1 # 1
          BY <1>3, <1>9
        <4> QED
          BY <1>3, <2>2, <3>1, <4>1
      <3> QED
        BY <3>1 DEF Waits
    <2>4. Empty'
      BY <2>3, WaitsNext DEF Empty, p
    <2>5. f = "chat" => cache = <<>>
      <3>1. Waits(q, "preload")
        BY <1>9, <1>12 DEF Waits
      <3> QED
        BY <1>5, <3>1, WaitsNow DEF Empty, q, f
    <2>6. x = d => d = <<>> \/ cache' = x
      <3>1. x = d => Newest(d, logMax) = x
        BY <1>6, NewestSame
      <3> QED
        BY <1>1, <1>3, <1>12, <3>1 DEF d
    <2>7. d = <<>> => cache' = cache
      BY <1>1 DEF d
    <2>8. f = "chat" => x = cache'
      BY <2>2, <2>5, <2>6, <2>7
    <2>9. x = <<>> \/ x = cache'
      BY <2>2, <2>6
    <2>10. chan' # NoChannel /\ ~bare' => Held(x, chan')
      <3>1. CASE chan # NoChannel
        BY <1>1, <1>6, <3>1
      <3>2. CASE chan = NoChannel
        <4>1. chan' # NoChannel => chan' = cache'
          BY <1>1, <3>2
        <4>2. Held(x, cache')
          BY <2>9, EmptyFacts DEF Held
        <4> QED
          BY <4>1, <4>2
      <3> QED
        BY <3>1, <3>2
    <2>11. Result(x)'
      BY <1>1, <1>6, <2>8, <2>10 DEF Result, Held, Settled, f
    <2> QED
      BY <1>1, <1>5, <1>7, <1>10, <2>4, <2>11 DEF p, f
  <1> QED
    BY <1>11, <1>12

LEMMA NextKeeping ==
  Typed /\ Typed' /\ Counting /\ Bounded' /\ Keeping /\ [Next]_vars => Keeping'
  <1> SUFFICES ASSUME Typed, Typed', Counting, Bounded', Keeping, [Next]_vars PROVE Keeping'
    OBVIOUS
  <1>1. CASE UNCHANGED vars
    <2>1. UNCHANGED <<db, calls, txs, slips, phase, cache, logMax, mishaps, chan, bare>>
      BY <1>1 DEF vars, page, disk
    <2>2. logMax <= logMax'
      BY <2>1, Numbers
    <2>3. chan' # NoChannel /\ ~bare' => \A x \in Seq(Messages) : Result(x) => Held(x, chan')
      BY <2>1 DEF Result
    <2> QED
      BY <2>1, <2>2, <2>3, StillKeeping
  <1>2. ASSUME NEW n \in Limits, SetLogMax(n) PROVE Keeping'
    BY <1>2, SetLogMaxKeeping
  <1>3. ASSUME NEW m \in 1..MaxLogged, Playback(m) PROVE Keeping'
    BY <1>3, PlaybackKeeping DEF Messages
  <1> QED
    BY <1>1, <1>2, <1>3, MessageKeeping, PageKeeping, PreloadKeeping, FormKeeping,
       ReloadKeeping, OpenedKeeping, RunKeeping DEF Next

(* Replayed, for every limit and every number of messages: a channel that   *)
(* was made when its log was there shows every row of it, whatever          *)
(* persistMsg, trimAllCaches, clearLocalData and a reload have done.        *)
THEOREM EveryRowIsShown == Spec => []Replayed
  <1>1. Typed /\ Keeping => Replayed
    <2> SUFFICES ASSUME Typed, Keeping, Quiet, slips = 0, mishaps = {}, ~bare, chan # NoChannel,
                        NEW i \in DOMAIN db
                 PROVE  \E j \in DOMAIN chan : chan[j] = db[i]
      BY DEF Replayed
    <2>1. PICK b, x : Told(b, db, Queue) /\ x = b[Len(Queue)] /\ Result(x)
      BY DEF Keeping, Undisturbed
    <2>2. Len(Queue) = 0
      BY EmptyQueue DEF Quiet
    <2>3. x = db
      BY <2>1, <2>2 DEF Told
    <2>4. Held(db, chan)
      BY <2>1, <2>3 DEF Result
    <2>5. DOMAIN db = 1..Len(db) /\ DOMAIN chan = 1..Len(chan)
      BY SeqFacts DEF Typed, Types
    <2> QED
      BY <2>4, <2>5 DEF Held
  <1>2. Spec => []Bounded
    BY RowsWithinLimit
  <1>3. Spec => []Typed
    BY InitTyped, NextTyped, PTL DEF Spec
  <1>4. Spec => []Counting
    BY <1>3, InitCounting, NextCounting, PTL DEF Spec
  <1>5. Spec => []Keeping
    BY <1>2, <1>3, <1>4, InitKeeping, NextKeeping, PTL DEF Spec
  <1> QED
    BY <1>1, <1>3, <1>5, PTL
=============================================================================
