--------------------------- MODULE AutoAwayProofs ---------------------------
(***************************************************************************)
(* The three invariants of AutoAway, for any number of lines and frames    *)
(* under way.  What counts is the last of the lines that wait, and the     *)
(* last answer on its way to the page.                                     *)
(***************************************************************************)
EXTENDS AutoAway, TLAPS

Lines   == {"manual", "back", "auto"}
Answers == {"nowaway", "unaway"}
News    == {"connected", "resumed"} \cup Answers

Typed ==
    /\ page \in {"form", "chat"} /\ irc \in {"here", "auto", "manual"}
    /\ link \in BOOLEAN /\ session \in BOOLEAN
    /\ auto \in BOOLEAN /\ away \in BOOLEAN
    /\ meant \in BOOLEAN /\ blind \in BOOLEAN /\ lost \in BOOLEAN
    /\ orphan \in BOOLEAN /\ overridden \in BOOLEAN
    /\ later \in Seq(Lines) /\ up \in Seq(Lines) /\ down \in Seq(News)

(* Lines wait in the page only while it has no connection, and a           *)
(* connection leads to a session.                                          *)
Linked == link => later = <<>> /\ session

-----------------------------------------------------------------------------
(* The last element of a sequence, and d when it is empty. *)
Last(s, d) == IF s = <<>> THEN d ELSE s[Len(s)]

LEMMA LastConcat ==
    ASSUME NEW S, NEW s \in Seq(S), NEW t \in Seq(S), NEW d
    PROVE  Last(s \o t, d) = Last(t, Last(s, d)) /\ s \o t \in Seq(S)
  <1>1. CASE t = <<>>
    <2>1. s \o t = s
      BY <1>1
    <2> QED
      BY <1>1, <2>1 DEF Last
  <1>2. CASE t # <<>>
    <2>1. /\ s \o t \in Seq(S) /\ Len(s \o t) = Len(s) + Len(t)
          /\ Len(t) \in Nat /\ Len(t) > 0 /\ Len(s) \in Nat
      BY <1>2
    <2>2. (s \o t)[Len(s) + Len(t)] = t[Len(t)]
      BY <2>1
    <2>3. s \o t # <<>>
      BY <2>1
    <2> QED
      BY <1>2, <2>1, <2>2, <2>3 DEF Last
  <1> QED
    BY <1>1, <1>2

LEMMA EmptyLen == \A s : s = <<>> => Len(s) = 0
  OBVIOUS

LEMMA Empty == \A S : <<>> \in Seq(S)
  OBVIOUS

LEMMA LastTail ==
    ASSUME NEW S, NEW s \in Seq(S), s # <<>>, NEW d
    PROVE  /\ Last(Tail(s), Head(s)) = Last(s, d)
           /\ Tail(s) \in Seq(S) /\ Head(s) \in S
  <1>1. /\ Tail(s) \in Seq(S) /\ Head(s) \in S /\ Head(s) = s[1]
        /\ Len(Tail(s)) = Len(s) - 1 /\ Len(s) \in Nat /\ Len(s) > 0
        /\ \A i \in 1..Len(Tail(s)) : Tail(s)[i] = s[i + 1]
    OBVIOUS
  <1>2. CASE Tail(s) = <<>>
    <2>1. \A m, n : n \in Nat /\ m = n - 1 /\ m = 0 => n = 1
      OBVIOUS
    <2>2. Len(Tail(s)) = 0
      BY <1>2, EmptyLen, Zenon
    <2>3. Len(s) = 1
      BY <1>1, <2>1, <2>2, Zenon
    <2> QED
      BY <1>1, <1>2, <2>3 DEF Last
  <1>3. CASE Tail(s) # <<>>
    <2>1. Len(Tail(s)) > 0
      BY <1>1, <1>3
    <2>2. Tail(s)[Len(Tail(s))] = s[Len(s)]
      BY <1>1, <2>1
    <2> QED
      BY <1>1, <1>3, <2>2 DEF Last
  <1> QED
    BY <1>1, <1>2, <1>3

LEMMA LastType ==
    ASSUME NEW S, NEW s \in Seq(S), NEW d
    PROVE  Last(s, d) = d \/ Last(s, d) \in S
  BY DEF Last

(* What the IRC server will have the user as, when it has taken all lines. *)
Taken(x) == IF x = "back" THEN "here" ELSE x
Outcome  == Taken(Last(later, Last(up, irc)))

-----------------------------------------------------------------------------
(* What the user will be is what auto-away, or the user, asked for last.   *)
Intended ==
    page = "chat" /\ session /\ ~lost =>
      /\ ~orphan /\ Outcome = "auto" => auto
      /\ ~overridden /\ meant => Outcome = "manual" /\ ~auto

(* The last answer under way says what the IRC server has; if none is      *)
(* under way, the page knows it, unless it is blind.                       *)
LastAnswer(i) ==
    /\ i \in DOMAIN down /\ down[i] \in Answers
    /\ \A j \in DOMAIN down : j > i => down[j] \notin Answers

Shown ==
    session =>
      /\ \A i \in DOMAIN down : LastAnswer(i) => (down[i] = "nowaway" <=> irc # "here")
      /\ ~blind /\ (\A i \in DOMAIN down : down[i] \notin Answers)
           => (away <=> irc # "here")

Inv == Typed /\ Linked /\ Intended /\ Shown

-----------------------------------------------------------------------------
(* What a send does: the lines go behind the others, or the page has no    *)
(* session to send them to.                                                *)
LEMMA SendFacts ==
    ASSUME Typed, Linked, NEW ls \in Seq(Lines), send(ls)
    PROVE  /\ up' \in Seq(Lines) /\ later' \in Seq(Lines)
           /\ link => later' = later
           /\ page = "chat" =>
                Last(later', Last(up', irc)) = Last(ls, Last(later, Last(up, irc)))
           /\ ls = <<>> => UNCHANGED lines
  <1>1. up \in Seq(Lines) /\ later \in Seq(Lines)
    BY DEF Typed
  <1>2. \A s \in Seq(Lines) : \A d :
        Last(s \o ls, d) = Last(ls, Last(s, d)) /\ s \o ls \in Seq(Lines)
    BY LastConcat
  <1>3. \A s \in Seq(Lines) : ls = <<>> => s \o ls = s
    OBVIOUS
  <1>4. CASE link
    <2>1. up' = up \o ls /\ later' = later
      BY <1>4 DEF send
    <2>2. later = <<>>
      BY <1>4 DEF Linked
    <2> QED
      BY <1>1, <1>2, <1>3, <1>4, <2>1, <2>2 DEF Last, lines
  <1>5. CASE ~link /\ page = "chat"
    <2>1. later' = later \o ls /\ up' = up
      BY <1>5 DEF send
    <2> QED
      BY <1>1, <1>2, <1>3, <1>5, <2>1 DEF lines
  <1>6. CASE ~link /\ page # "chat"
    BY <1>1, <1>6 DEF send, lines
  <1> QED
    BY <1>4, <1>5, <1>6 DEF Typed

LEMMA BackFacts ==
    ASSUME NEW ls \in Seq(Lines), NEW d, auto \in BOOLEAN
    PROVE  /\ Back \o ls \in Seq(Lines)
           /\ Last(Back \o ls, d) = Last(ls, IF auto THEN "back" ELSE d)
           /\ ~auto /\ ls = <<>> => Back \o ls = <<>>
  <1>1. <<"back">> \in Seq(Lines) /\ <<>> \in Seq(Lines)
    BY DEF Lines
  <1>2. Back \in Seq(Lines) /\ Last(Back, d) = IF auto THEN "back" ELSE d
    BY <1>1 DEF Back, Last
  <1>3. Back \o ls \in Seq(Lines) /\ Last(Back \o ls, d) = Last(ls, Last(Back, d))
    BY <1>2, LastConcat
  <1>4. ~auto => Back \o ls = ls
    BY DEF Back
  <1> QED
    BY <1>2, <1>3, <1>4

(* resetAutoAway leaves the user with what is asked for, or back. *)
LEMMA ResetFacts ==
    ASSUME Typed, Linked, NEW conn, NEW m, NEW ls \in Seq(Lines),
           resetAutoAway(conn, m, ls)
    PROVE  /\ up' \in Seq(Lines) /\ later' \in Seq(Lines) /\ auto' = FALSE
           /\ link => later' = later
           /\ page = "chat" =>
                Taken(Last(later', Last(up', irc)))
                  = Taken(Last(ls, IF auto THEN "back" ELSE Last(later, Last(up, irc))))
  <1>1. send(Back \o ls) /\ auto' = FALSE
    BY DEF resetAutoAway
  <1>2. auto \in BOOLEAN
    BY DEF Typed
  <1> DEFINE bl == Back \o ls
  <1>3. bl \in Seq(Lines) /\ \A d : Last(bl, d) = Last(ls, IF auto THEN "back" ELSE d)
    BY <1>2, BackFacts
  <1> HIDE DEF bl
  <1>4. send(bl)
    BY <1>1 DEF bl
  <1>5. /\ up' \in Seq(Lines) /\ later' \in Seq(Lines)
        /\ link => later' = later
        /\ page = "chat" =>
             Last(later', Last(up', irc)) = Last(bl, Last(later, Last(up, irc)))
    BY <1>3, <1>4, SendFacts
  <1> QED
    BY <1>1, <1>3, <1>5

-----------------------------------------------------------------------------
(* Handlers that leave the session, the answers and the away state alone.  *)
LEMMA ShownKept ==
    ASSUME Shown, UNCHANGED <<session, down, irc, blind, away>>
    PROVE  Shown'
  BY DEF Shown, LastAnswer

LEMMA IntendedKept ==
    ASSUME Intended, UNCHANGED <<page, session, lost, orphan, overridden, meant, auto>>,
           UNCHANGED <<irc, later, up>>
    PROVE  Intended'
  BY DEF Intended, Outcome

LEMMA InitInv == Init => Inv
  <1> SUFFICES ASSUME Init PROVE Inv
    OBVIOUS
  <1>1. Typed
    BY Empty DEF Init, Typed
  <1>2. Linked /\ Intended /\ Shown
    BY DEF Init, Linked, Intended, Shown
  <1> QED
    BY <1>1, <1>2 DEF Inv

(* A key or a mouse button takes an auto-away back. *)
LEMMA ActiveInv ==
    ASSUME Inv, NEW conn, NEW m, resetAutoAway(conn, m, <<>>),
           UNCHANGED <<page, away, link, session, down, irc, history>>
    PROVE  Inv'
  <1> USE DEF Inv, history
  <1>1. <<>> \in Seq(Lines)
    OBVIOUS
  <1>2. /\ up' \in Seq(Lines) /\ later' \in Seq(Lines) /\ auto' = FALSE
        /\ link => later' = later
        /\ page = "chat" =>
             Taken(Last(later', Last(up', irc)))
               = Taken(Last(<<>>, IF auto THEN "back" ELSE Last(later, Last(up, irc))))
    BY <1>1, ResetFacts
  <1>3. Typed' /\ Linked'
    BY <1>2 DEF Typed, Linked
  <1>4. page = "chat" => Outcome' = IF auto THEN "here" ELSE Outcome
    BY <1>2 DEF Outcome, Taken, Last
  <1>5. Intended'
    BY <1>2, <1>4 DEF Intended, Typed
  <1>6. Shown'
    BY ShownKept
  <1> QED
    BY <1>3, <1>5, <1>6

LEMMA AwayCommandInv ==
    ASSUME Inv, NEW line \in {"manual", "back"}, AwayCommand(line)
    PROVE  Inv'
  <1> USE DEF Inv, history, net
  <1>1. <<line>> \in Seq(Lines)
    BY DEF Lines
  <1>2. resetAutoAway(connected, mins, <<line>>) /\ page = "chat"
    BY DEF AwayCommand
  <1>3. /\ up' \in Seq(Lines) /\ later' \in Seq(Lines) /\ auto' = FALSE
        /\ link => later' = later
        /\ Taken(Last(later', Last(up', irc)))
             = Taken(Last(<<line>>, IF auto THEN "back" ELSE Last(later, Last(up, irc))))
    BY <1>1, <1>2, ResetFacts
  <1>4. /\ meant' = (line = "manual")
        /\ lost' = FALSE /\ orphan' = FALSE /\ overridden' = FALSE
        /\ UNCHANGED <<page, connected, away, mins, params, link, session, down, irc, blind>>
    BY DEF AwayCommand
  <1>5. meant' \in BOOLEAN
    BY <1>4
  <1>5a. Typed' /\ Linked'
    BY <1>3, <1>4, <1>5 DEF Typed, Linked
  <1>6. Outcome' = Taken(line)
    BY <1>3, <1>4 DEF Outcome, Last
  <1>7. Intended'
    BY <1>3, <1>4, <1>6 DEF Intended, Taken
  <1>8. Shown'
    BY <1>4, ShownKept
  <1> QED
    BY <1>5a, <1>7, <1>8

(* The timer goes off at a page that has the user as not away.  If nothing *)
(* is under way that is so, and the user has not asked to be.              *)
LEMMA AutoAwayTimerInv ==
    ASSUME Inv, AutoAwayTimer
    PROVE  Inv'
  <1> USE DEF Inv, net
  <1>1. <<"auto">> \in Seq(Lines)
    BY DEF Lines
  <1>2. /\ send(<<"auto">>) /\ ~away /\ auto' = TRUE /\ orphan' = FALSE
        /\ overridden' = (overridden \/ (meant /\ (blind \/ Pending)))
        /\ UNCHANGED <<page, connected, away, mins, params, link, session, down, irc,
                       meant, blind, lost>>
    BY DEF AutoAwayTimer
  <1>3. /\ up' \in Seq(Lines) /\ later' \in Seq(Lines)
        /\ link => later' = later
        /\ page = "chat" =>
             Last(later', Last(up', irc)) = Last(<<"auto">>, Last(later, Last(up, irc)))
    BY <1>1, <1>2, SendFacts
  <1>4. Typed' /\ Linked'
    BY <1>2, <1>3 DEF Typed, Linked
  <1>5. page' = "chat" /\ session' /\ ~lost' /\ ~overridden' => ~meant'
    <2> SUFFICES ASSUME page = "chat", session, ~lost, ~overridden', meant PROVE FALSE
      BY <1>2
    <2>1. ~overridden /\ ~blind /\ later = <<>> /\ up = <<>> /\ down = <<>>
      BY <1>2 DEF Pending
    <2>2. Outcome = "manual"
      BY <2>1 DEF Intended
    <2>3. irc = "manual"
      BY <2>1, <2>2 DEF Outcome, Taken, Last, Typed
    <2>4. away <=> irc # "here"
      BY <2>1 DEF Shown
    <2> QED
      BY <1>2, <2>3, <2>4
  <1>6. Intended'
    BY <1>2, <1>5 DEF Intended
  <1>7. Shown'
    BY <1>2, ShownKept
  <1> QED
    BY <1>4, <1>6, <1>7

(* The IRC server takes the line at the head: the outcome stays, and its   *)
(* answer is the last one, and true.                                       *)
LEMMA ServeInv ==
    ASSUME Inv, Serve
    PROVE  Inv'
  <1> USE DEF Inv
  <1>1. /\ session /\ up # <<>> /\ up' = Tail(up)
        /\ UNCHANGED <<page, away, auto, later, link, session, meant, blind, orphan, overridden>>
    BY DEF Serve
  <1>2. up \in Seq(Lines)
    BY DEF Typed
  <1> DEFINE h == Head(up)
  <1>3. /\ \A d : Last(Tail(up), h) = Last(up, d)
        /\ Tail(up) \in Seq(Lines) /\ h \in Lines
    BY <1>1, <1>2, LastTail
  <1>4. Linked'
    BY <1>1 DEF Linked
  <1>5. CASE /\ irc' = IF Head(up) = "back" THEN "here" ELSE Head(up)
             /\ down' = Append(down, Answer(Head(up)))
             /\ UNCHANGED lost
    <2>1. irc' = Taken(h) /\ irc' \in {"here", "auto", "manual"}
      BY <1>3, <1>5 DEF Taken, Lines
    <2> DEFINE a == Answer(h)
    <2>2. a \in Answers /\ (a = "nowaway" <=> irc' # "here")
      BY <1>3, <2>1 DEF Answer, Answers, Taken, Lines
    <2>3. down \in Seq(News) /\ down' = Append(down, a)
      BY <1>5 DEF Typed
    <2>4. a \in News
      BY <2>2 DEF News
    <2> HIDE DEF a, h
    <2>5. /\ down' \in Seq(News) /\ Len(down') = Len(down) + 1 /\ Len(down) \in Nat
          /\ down'[Len(down) + 1] = a /\ DOMAIN down' = 1..(Len(down) + 1)
      BY <2>3, <2>4
    <2>6. Typed'
      BY <1>1, <1>3, <1>5, <2>1, <2>5 DEF Typed
    <2>7. Outcome' = Outcome
      <3>1. Taken(Last(up', Taken(h))) = Taken(Last(up, irc))
        BY <1>1, <1>3 DEF Taken, Last
      <3>2. Outcome' = Taken(Last(later, Last(up', Taken(h))))
        BY <1>1, <2>1 DEF Outcome
      <3> QED
        BY <3>1, <3>2 DEF Outcome, Last
    <2>8. Intended'
      BY <1>1, <1>5, <2>7 DEF Intended
    <2>9. Shown'
      BY <2>2, <2>5 DEF Shown, LastAnswer
    <2> QED
      BY <1>4, <2>6, <2>8, <2>9
  <1>6. CASE Registering /\ lost' = TRUE /\ UNCHANGED <<irc, down>>
    <2>1. Typed'
      BY <1>1, <1>3, <1>6 DEF Typed
    <2>2. Intended'
      BY <1>6 DEF Intended
    <2>3. Shown'
      BY <1>1, <1>6, ShownKept
    <2> QED
      BY <1>4, <2>1, <2>2, <2>3
  <1> QED
    BY <1>5, <1>6 DEF Serve

(* Lines are lost on the connection, and then lost says so. *)
LEMMA DropFacts ==
    ASSUME Typed, NEW n \in 0..Len(up)
    PROVE  /\ SubSeq(up, 1, n) \in Seq(Lines)
           /\ ~(n < Len(up)) => SubSeq(up, 1, n) = up
  <1>1. up \in Seq(Lines) /\ Len(up) \in Nat
    BY DEF Typed
  <1>2. SubSeq(up, 1, n) \in Seq(Lines)
    BY <1>1
  <1>3. ASSUME ~(n < Len(up)) PROVE SubSeq(up, 1, n) = up
    <2>1. n = Len(up)
      BY <1>1, <1>3
    <2> QED
      BY <1>1, <2>1
  <1> QED
    BY <1>2, <1>3

LEMMA LinkDropsInv ==
    ASSUME Inv, LinkDrops
    PROVE  Inv'
  <1> USE DEF Inv
  <1>1. /\ link' = FALSE /\ down' = <<>>
        /\ blind' = (blind \/ \E i \in DOMAIN down : down[i] \in Answers)
        /\ UNCHANGED <<away, auto, later, meant, orphan, overridden>>
    BY DEF LinkDrops, Answers
  <1>2. Linked' /\ down' \in Seq(News) /\ blind' \in BOOLEAN
    BY <1>1 DEF Linked, Typed
  <1>3. CASE Registering
    <2>1. session' = FALSE /\ irc' = "here" /\ up' = <<>> /\ page' = "form" /\ lost' = lost
      BY <1>3 DEF LinkDrops, Gone
    <2>2. Typed'
      BY <1>1, <1>2, <2>1, Empty DEF Typed
    <2>3. Intended' /\ Shown'
      BY <2>1 DEF Intended, Shown
    <2> QED
      BY <1>2, <2>2, <2>3
  <1>4. CASE ~Registering
    <2>1. PICK n \in 0..Len(up) : Drop(n)
      BY <1>4 DEF LinkDrops
    <2>2. UNCHANGED <<page, session, irc>>
      BY <1>4 DEF LinkDrops
    <2>3. /\ up' \in Seq(Lines) /\ lost' \in BOOLEAN
          /\ ~lost' => ~lost /\ up' = up
      BY <2>1, DropFacts DEF Drop, Typed
    <2>4. Typed'
      BY <1>1, <1>2, <2>2, <2>3 DEF Typed
    <2>5. Intended'
      BY <1>1, <2>2, <2>3 DEF Intended, Outcome
    <2>6. ~blind' => ~blind /\ \A i \in DOMAIN down : down[i] \notin Answers
      BY <1>1
    <2>7. DOMAIN down' = {}
      BY <1>1
    <2>8. Shown'
      BY <1>1, <2>2, <2>6, <2>7 DEF Shown, LastAnswer
    <2> QED
      BY <1>2, <2>4, <2>5, <2>8
  <1> QED
    BY <1>3, <1>4

LEMMA ResumeInv ==
    ASSUME Inv, Resume
    PROVE  Inv'
  <1> USE DEF Inv, history
  <1>1. /\ session /\ link' = TRUE /\ down' = Append(down, "resumed")
        /\ up' = up \o later /\ later' = <<>>
        /\ UNCHANGED <<page, away, auto, session, irc, meant, blind, lost, orphan, overridden>>
    BY DEF Resume
  <1>2. up \in Seq(Lines) /\ later \in Seq(Lines) /\ down \in Seq(News)
    BY DEF Typed
  <1>3. /\ \A d : Last(up \o later, d) = Last(later, Last(up, d))
        /\ up \o later \in Seq(Lines)
    BY <1>2, LastConcat
  <1>4. /\ down' \in Seq(News) /\ Len(down') = Len(down) + 1 /\ Len(down) \in Nat
        /\ down'[Len(down) + 1] = "resumed" /\ DOMAIN down' = 1..(Len(down) + 1)
        /\ DOMAIN down = 1..Len(down)
        /\ \A i \in DOMAIN down : down'[i] = down[i]
    BY <1>1, <1>2 DEF News
  <1>5. Typed' /\ Linked'
    BY <1>1, <1>3, <1>4 DEF Typed, Linked
  <1>6. Outcome' = Outcome
    BY <1>1, <1>3 DEF Outcome, Last
  <1>7. Intended'
    BY <1>1, <1>6 DEF Intended
  <1>8. Shown'
    <2>1. \A i : LastAnswer(i)' => LastAnswer(i) /\ down'[i] = down[i]
      BY <1>4 DEF LastAnswer, Answers
    <2>2. (\A i \in DOMAIN down' : down'[i] \notin Answers)
            => \A i \in DOMAIN down : down[i] \notin Answers
      BY <1>4
    <2> QED
      BY <1>1, <1>4, <2>1, <2>2 DEF Shown, LastAnswer
  <1> QED
    BY <1>5, <1>7, <1>8

LEMMA ConnectsInv ==
    ASSUME Inv, Connects, page' \in {"form", "chat"}, UNCHANGED <<away, auto>>
    PROVE  Inv'
  <1> USE DEF Inv
  <1>0. <<"connected">> \in Seq(News)
    BY DEF News
  <1>1. Typed' /\ Linked'
    BY <1>0, Empty DEF Connects, Typed, Linked
  <1>2. Outcome' = "here" /\ meant' = FALSE
    BY DEF Connects, Outcome, Taken, Last
  <1>3. Intended'
    BY <1>2 DEF Intended
  <1>4. Shown'
    BY DEF Connects, Shown, LastAnswer, Answers, Typed
  <1> QED
    BY <1>1, <1>3, <1>4

(* Without a session, or at the form, there is nothing to show. *)
LEMMA GoneInv ==
    ASSUME Inv, Gone, link' = FALSE, down' = <<>>, page' \in {"form", "chat"},
           auto' \in BOOLEAN, UNCHANGED <<away, later, history>>
    PROVE  Inv'
  <1>1. Typed'
    BY Empty DEF Inv, Gone, Typed, history
  <1> QED
    BY <1>1 DEF Inv, Gone, Linked, Intended, Shown

LEMMA ReloadInv ==
    ASSUME Inv, Reload
    PROVE  Inv'
  <1> USE DEF Inv
  <1>1. PICK n \in 0..Len(up) :
             /\ up' = SubSeq(up, 1, n)
             /\ lost' = (lost \/ n < Len(up) \/ later # <<>>)
    BY DEF Reload
  <1>2. /\ link' = FALSE /\ away' = FALSE /\ auto' = FALSE /\ later' = <<>>
        /\ down' = IF link THEN <<>> ELSE down
        /\ blind' = (irc # "here") /\ orphan' = (orphan \/ auto)
        /\ UNCHANGED <<page, session, irc, meant, overridden>>
    BY DEF Reload
  <1>3. /\ up' \in Seq(Lines) /\ lost' \in BOOLEAN
        /\ ~lost' => ~lost /\ up' = up /\ later = <<>>
    BY <1>1, DropFacts DEF Typed
  <1>4. /\ orphan' \in BOOLEAN /\ blind' \in BOOLEAN
        /\ down' = down \/ down' = <<>>
        /\ ~blind' => irc = "here"
        /\ ~orphan' => ~orphan /\ ~auto
    BY <1>2
  <1>4a. Typed' /\ Linked'
    <2>1. down' \in Seq(News)
      BY <1>4, Empty DEF Typed
    <2>2. <<>> \in Seq(Lines)
      BY Empty
    <2> QED
      BY <1>2, <1>3, <1>4, <2>1, <2>2 DEF Typed, Linked
  <1>5. Intended'
    BY <1>2, <1>3, <1>4 DEF Intended, Outcome
  <1>6. Shown'
    <2>1. CASE down' = down
      BY <1>2, <1>4, <2>1 DEF Shown, LastAnswer
    <2>2. CASE down' = <<>>
      <3>1. DOMAIN down' = {}
        BY <2>2
      <3> QED
        BY <1>2, <1>4, <3>1 DEF Shown, LastAnswer
    <2> QED
      BY <1>4, <2>1, <2>2
  <1> QED
    BY <1>4a, <1>5, <1>6

(* The page handles the frame at the head of down. *)
LEMMA HandleInv ==
    ASSUME Inv, Handle
    PROVE  Inv'
  <1> USE DEF Inv
  <1>1. /\ link /\ down # <<>> /\ down' = Tail(down)
        /\ UNCHANGED <<page, mins, link, session, irc, meant, lost, orphan, overridden>>
    BY DEF Handle
  <1> DEFINE f == Head(down)
  <1>2. /\ down \in Seq(News) /\ down' \in Seq(News) /\ f \in News /\ f = down[1]
        /\ DOMAIN down = 1..Len(down) /\ DOMAIN down' = 1..(Len(down) - 1)
        /\ Len(down) \in Nat /\ Len(down) > 0
        /\ \A i \in 1..(Len(down) - 1) : down'[i] = down[i + 1]
    BY <1>1 DEF Typed
  <1>3. \A i \in DOMAIN down' : LastAnswer(i)' => LastAnswer(i + 1) /\ down'[i] = down[i + 1]
    <2> SUFFICES ASSUME NEW i \in DOMAIN down', LastAnswer(i)'
                 PROVE  LastAnswer(i + 1) /\ down'[i] = down[i + 1]
      OBVIOUS
    <2>1. /\ i \in 1..(Len(down) - 1) /\ down'[i] = down[i + 1] /\ down'[i] \in Answers
          /\ \A j \in 1..(Len(down) - 1) : j > i => down[j + 1] \notin Answers
      BY <1>2 DEF LastAnswer
    <2>2. ASSUME NEW j \in 1..Len(down), j > i + 1 PROVE down[j] \notin Answers
      <3>1. j - 1 \in 1..(Len(down) - 1) /\ j - 1 > i /\ (j - 1) + 1 = j
        BY <1>2, <2>1, <2>2
      <3> QED
        BY <2>1, <3>1
    <2> QED
      BY <1>2, <2>1, <2>2 DEF LastAnswer
  <1>4. (\A i \in DOMAIN down' : down'[i] \notin Answers)
          => \A i \in DOMAIN down : i # 1 => down[i] \notin Answers
    <2> SUFFICES ASSUME \A i \in DOMAIN down' : down'[i] \notin Answers,
                        NEW i \in DOMAIN down, i # 1
                 PROVE  down[i] \notin Answers
      OBVIOUS
    <2>1. i - 1 \in 1..(Len(down) - 1) /\ (i - 1) + 1 = i
      BY <1>2
    <2> QED
      BY <1>2, <2>1
  <1>5. \A i \in DOMAIN down' : LastAnswer(i)' => (down'[i] = "nowaway" <=> irc # "here")
         \/ ~session
    BY <1>3 DEF Shown, LastAnswer
  <1>6. CASE f \in {"connected", "resumed"}
    <2>1. resetAutoAway(TRUE, mins, <<>>) /\ UNCHANGED <<away, blind>>
      BY <1>6 DEF Handle
    <2>2. /\ up' \in Seq(Lines) /\ later' \in Seq(Lines) /\ auto' = FALSE
          /\ link => later' = later
          /\ page = "chat" =>
               Taken(Last(later', Last(up', irc)))
                 = Taken(Last(<<>>, IF auto THEN "back" ELSE Last(later, Last(up, irc))))
      BY <2>1, Empty, ResetFacts
    <2>3. Typed' /\ Linked'
      BY <1>1, <1>2, <2>1, <2>2 DEF Typed, Linked
    <2>4. page = "chat" => Outcome' = IF auto THEN "here" ELSE Outcome
      BY <1>1, <2>2 DEF Outcome, Taken, Last
    <2>5. Intended'
      BY <1>1, <2>2, <2>4 DEF Intended, Typed
    <2>6. (\A i \in DOMAIN down' : down'[i] \notin Answers)
            => \A i \in DOMAIN down : down[i] \notin Answers
      BY <1>2, <1>4, <1>6 DEF Answers
    <2>7. Shown'
      BY <1>1, <1>5, <2>1, <2>6 DEF Shown
    <2> QED
      BY <2>3, <2>5, <2>7
  <1>7. CASE f \notin {"connected", "resumed"}
    <2>1. away' = (f = "nowaway") /\ blind' = FALSE /\ UNCHANGED <<auto, later, up>>
      BY <1>7 DEF Handle, lines
    <2>2. f \in Answers
      BY <1>2, <1>7 DEF News
    <2>3. Typed' /\ Linked'
      BY <1>1, <1>2, <2>1 DEF Typed, Linked
    <2>4. Intended'
      BY <1>1, <2>1 DEF Intended, Outcome
    <2>5. (\A i \in DOMAIN down' : down'[i] \notin Answers) => LastAnswer(1)
      BY <1>2, <1>4, <2>2 DEF LastAnswer
    <2>6. ASSUME session, \A i \in DOMAIN down' : down'[i] \notin Answers
          PROVE  away' <=> irc # "here"
      <3>1. LastAnswer(1) /\ 1 \in DOMAIN down
        BY <1>2, <2>5, <2>6
      <3>2. down[1] = "nowaway" <=> irc # "here"
        BY <2>6, <3>1 DEF Shown
      <3> QED
        BY <1>2, <2>1, <3>2
    <2>7. Shown'
      BY <1>1, <1>5, <2>6 DEF Shown
    <2> QED
      BY <2>3, <2>4, <2>7
  <1> QED
    BY <1>6, <1>7

LEMMA NextInv == Inv /\ [Next]_vars => Inv'
  <1> SUFFICES ASSUME Inv, [Next]_vars PROVE Inv'
    OBVIOUS
  <1>1. CASE Active
    BY <1>1, ActiveInv DEF Active, net
  <1>2. CASE AwayButton
    BY <1>2, AwayCommandInv DEF AwayButton
  <1>3. CASE AutoAwayTimer
    BY <1>3, AutoAwayTimerInv
  <1>4. CASE TimerInVain \/ UNCHANGED vars
    <2>1. UNCHANGED <<page, away, auto, lines, link, session, down, irc, history>>
      BY <1>4 DEF TimerInVain, vars, net, lines, history
    <2>2. Typed' /\ Linked'
      BY <2>1 DEF Inv, Typed, Linked, lines, history
    <2>3. Intended' /\ Shown'
      BY <2>1, IntendedKept, ShownKept DEF Inv, lines, history
    <2> QED
      BY <2>2, <2>3 DEF Inv
  <1>5. ASSUME NEW b \in BOOLEAN, SetMins(b) PROVE Inv'
    <2>1. CASE connected
      BY <1>5, <2>1, ActiveInv DEF SetMins, net
    <2>2. CASE ~connected
      <3>1. UNCHANGED <<page, away, auto, lines, link, session, down, irc, history>>
        BY <1>5, <2>2 DEF SetMins, net
      <3>2. Typed' /\ Linked'
        BY <3>1 DEF Inv, Typed, Linked, lines, history
      <3>3. Intended' /\ Shown'
        BY <3>1, IntendedKept, ShownKept DEF Inv, lines, history
      <3> QED
        BY <3>2, <3>3 DEF Inv
    <2> QED
      BY <2>1, <2>2
  <1>6. ASSUME NEW line \in {"manual", "back"}, AwayCommand(line) PROVE Inv'
    BY <1>6, AwayCommandInv
  <1>7. CASE Serve
    BY <1>7, ServeInv
  <1>8. CASE LinkDrops
    BY <1>8, LinkDropsInv
  <1>9. CASE Resume
    BY <1>9, ResumeInv
  <1>10. CASE Expire
    <2>1. page' = page /\ auto' = auto /\ link' = FALSE
      BY <1>10 DEF Expire, Inv, Typed
    <2>2. page \in {"form", "chat"} /\ auto \in BOOLEAN
      BY DEF Inv, Typed
    <2> QED
      BY <1>10, <2>1, <2>2, GoneInv DEF Expire
  <1>11. CASE Expired
    <2>1. CASE params
      <3>1. Connects /\ page' = page /\ UNCHANGED <<away, auto>>
        BY <1>11, <2>1 DEF Expired
      <3>2. page \in {"form", "chat"}
        BY DEF Inv, Typed
      <3> QED
        BY <3>1, <3>2, ConnectsInv
    <2>2. CASE ~params
      <3>1. page' = "form" /\ UNCHANGED <<away, auto, lines, link, session, down, irc, history>>
        BY <1>11, <2>2 DEF Expired
      <3>2. Typed' /\ Linked' /\ Intended'
        BY <3>1 DEF Inv, Typed, Linked, Intended, lines, history
      <3>3. Shown'
        BY <3>1, ShownKept DEF Inv, history
      <3> QED
        BY <3>2, <3>3 DEF Inv
    <2> QED
      BY <2>1, <2>2
  <1>12. CASE Submit
    BY <1>12, ConnectsInv DEF Submit
  <1>13. CASE Disconnect
    BY <1>13, GoneInv DEF Disconnect
  <1>14. CASE Reload
    BY <1>14, ReloadInv
  <1>15. CASE Handle
    BY <1>15, HandleInv
  <1> QED
    BY <1>1, <1>2, <1>3, <1>4, <1>5, <1>6, <1>7, <1>8, <1>9, <1>10, <1>11, <1>12,
       <1>13, <1>14, <1>15 DEF Next

THEOREM AlwaysInv == Spec => []Inv
  <1>1. Init => Inv
    BY InitInv
  <1>2. Inv /\ [Next]_vars => Inv'
    BY NextInv
  <1> QED
    BY <1>1, <1>2, PTL DEF Spec

-----------------------------------------------------------------------------
(* A user whom the IRC server has in auto-away when nothing is under way   *)
(* is at a page that will take it back (BackFromAuto), however many lines  *)
(* and frames may be under way.                                            *)
THEOREM AutoAwayIsTakenBack == Spec => []BackFromAuto
  <1>1. Inv => BackFromAuto
    BY DEF Inv, BackFromAuto, Quiet, Pending, Linked, Intended, Outcome, Last, Taken, Typed
  <1> QED
    BY <1>1, AlwaysInv, PTL

(* What the Away button shows is what the IRC server has (AwayShown).      *)
THEOREM ButtonTellsTheTruth == Spec => []AwayShown
  <1>1. Inv => AwayShown
    BY DEF Inv, AwayShown, Quiet, Pending, Linked, Shown
  <1> QED
    BY <1>1, AlwaysInv, PTL

(* Auto-away never takes the place of an away that the user asked for and  *)
(* was told of (ManualKept).                                               *)
THEOREM AwayOfTheUserIsKept == Spec => []ManualKept
  <1>1. Inv => ManualKept
    BY DEF Inv, ManualKept, Quiet, Pending, Linked, Intended, Outcome, Last, Taken, Typed
  <1> QED
    BY <1>1, AlwaysInv, PTL
=============================================================================
