--------------------------- MODULE ChannelsProofs ---------------------------
(***************************************************************************)
(* What the page shows of its channels is so on the server, for any set of *)
(* channels and users, any buffer and any number of requests under way.    *)
(* First ActiveIsOpen, which is the page's alone; then TabsMatch and       *)
(* NickLists, from an invariant in three parts:                            *)
(*   - the types (Typed), how the connection, the session and the page go  *)
(*     together (Linked), and no names in a tab that is not there (Tidy);  *)
(*   - for every channel, views of it, one before each frame under way and *)
(*     one after the last, which is the truth: each frame leads from one   *)
(*     to the next (Leads, Path);                                          *)
(*   - the page shows the first of these views, or what is under way will  *)
(*     make it (Shows).                                                    *)
(* A step of the server adds frames and views at the end, handle takes the *)
(* first frame and the page shows the second view; when no frames are left *)
(* the first view is the last.                                             *)
(***************************************************************************)
EXTENDS Channels, Integers, TLAPS

(* A page: a record whose tabs are tabs.  What its lists of names and its   *)
(* saved channels are does not matter here.                                 *)
Pages(n, s) == [tab : [Channels -> {"none", "offline", "open"}], nicks : {n},
                active : Channels \cup {Server, NoTab}, saved : {s}]
IsPage(u) == u \in Pages(u.nicks, u.saved)

ActiveOpen(u) == u.active \in {Server, NoTab} \cup Open(u)
Good(u) == IsPage(u) /\ ActiveOpen(u)

USE DEF Pages, IsPage, ActiveOpen, Good, Open, Found

-----------------------------------------------------------------------------
(* The functions of app.js keep a page good.                                *)

LEMMA BlankIsGood == ASSUME NEW s PROVE Good(Blank(s))
  BY DEF Blank

LEMMA EnsureIsGood ==
  ASSUME NEW u, NEW c, Good(u) PROVE Good(ensureChannel(u, c))
  BY ChannelsAssumption DEF ensureChannel

(* setActive to an open tab, from a page that need not be good. *)
LEMMA SetActiveIsGood ==
  ASSUME NEW u, NEW t, IsPage(u), t \in {Server} \cup Open(u)
  PROVE  Good(setActive(u, t))
  BY ChannelsAssumption DEF setActive

LEMMA RemoveIsGood ==
  ASSUME NEW u, NEW c, NEW next \in {Server} \cup Open(u), Good(u)
  PROVE  Good(removeChannel(u, c, next))
  <1> DEFINE v == [u EXCEPT !.tab[c] = "none", !.nicks[c] = {}]
             t == IF next = c THEN Server ELSE next
  <1>1. IsPage(v)
    OBVIOUS
  <1>2. t \in {Server} \cup Open(v)
    BY ChannelsAssumption
  <1>3. Good(setActive(v, t))
    BY <1>1, <1>2, SetActiveIsGood
  <1>4. u.active # c => Good(v)
    BY <1>1, ChannelsAssumption
  <1> QED
    BY <1>3, <1>4 DEF removeChannel

LEMMA SaveIsGood == ASSUME NEW u, Good(u) PROVE Good(saveChannels(u))
  BY DEF saveChannels

LEMMA RestoreSavedIsGood ==
  ASSUME NEW u, Good(u) PROVE Good(restoreSavedChannels(u))
  BY ChannelsAssumption DEF restoreSavedChannels
-----------------------------------------------------------------------------
(* So do the cases of handle, for any frame. *)

LEMMA NicksAreGood ==
  ASSUME NEW u, Good(u), NEW n PROVE Good([u EXCEPT !.nicks = n])
  OBVIOUS

LEMMA JoinIsGood ==
  ASSUME NEW u, NEW f, Good(u) PROVE Good(HandleJoin(u, f))
  <1> DEFINE v == ensureChannel(u, f.chan)
             w == [v EXCEPT !.tab[f.chan] = "open"]
  <1>1. Good(v)
    BY EnsureIsGood
  <1> HIDE DEF v
  <1>2. IsPage(w) /\ Good(w)
    BY <1>1
  <1>3. f.chan \in Channels => f.chan \in Open(w)
    BY <1>1
  <1>4. Good(setActive(w, f.chan))
    <2>1. CASE f.chan \in {Server} \cup Channels
      BY <1>2, <1>3, <2>1, SetActiveIsGood
    <2>2. CASE f.chan \notin {Server} \cup Channels
      BY <1>2, <2>2 DEF setActive
    <2> QED
      BY <2>1, <2>2
  <1>5. Good(saveChannels(setActive(w, f.chan)))
    BY <1>4, SaveIsGood
  <1>6. Good([v EXCEPT !.nicks[f.chan] = @ \cup {f.who}])
    BY <1>1
  <1> QED
    BY <1>5, <1>6 DEF HandleJoin, v

LEMMA PartIsGood ==
  ASSUME NEW u, NEW f, NEW next \in {Server} \cup Open(u), Good(u)
  PROVE  Good(HandlePart(u, f, next))
  <1>1. Good(removeChannel(u, f.chan, next))
    BY RemoveIsGood
  <1>2. Good([u EXCEPT !.nicks[f.chan] = @ \ {f.who}])
    OBVIOUS
  <1> QED
    BY <1>1, <1>2, SaveIsGood DEF HandlePart

LEMMA KickIsGood ==
  ASSUME NEW u, NEW f, NEW next \in {Server} \cup Open(u), Good(u)
  PROVE  Good(HandleKick(u, f, next))
  <1> DEFINE v == [u EXCEPT !.nicks[f.chan] = @ \ {f.who}]
  <1>1. Good(v) /\ Open(v) = Open(u)
    OBVIOUS
  <1> HIDE DEF v
  <1>2. Good(removeChannel(v, f.chan, next))
    BY <1>1, RemoveIsGood
  <1> QED
    BY <1>1, <1>2 DEF HandleKick, v

LEMMA TabsAreGood ==
  ASSUME NEW u, NEW f, NEW next \in {Server} \cup Open(u), Good(u)
  PROVE  Good(Tabs(u, f, next))
  <1>1. Good(HandleQuit(u, f)) /\ Good(HandleNick(u, f))
    BY DEF HandleQuit, HandleNick
  <1>2. Good(HandleNames(u, f))
    BY DEF HandleNames
  <1> QED
    BY <1>1, <1>2, JoinIsGood, PartIsGood, KickIsGood DEF Tabs
-----------------------------------------------------------------------------
LEMMA InitIsGood == Init => Good(ui)
  BY BlankIsGood DEF Init

LEMMA NextIsGood == Good(ui) /\ [Next]_vars => Good(ui)'
  <1> SUFFICES ASSUME Good(ui), [Next]_vars PROVE Good(ui')
    OBVIOUS
  <1> USE DEF Nexts
  <1>1. CASE UNCHANGED vars
    BY <1>1 DEF vars
  <1>2. CASE LinkDrops
    BY <1>2, BlankIsGood DEF LinkDrops
  <1>3. CASE Expired
    BY <1>3, BlankIsGood DEF Expired
  <1>4. CASE Submit
    BY <1>4, SetActiveIsGood DEF Submit
  <1>5. CASE Reload
    BY <1>5, BlankIsGood DEF Reload
  <1>6. CASE Rejoin
    <2> DEFINE u == restoreSavedChannels(ui)
    <2>1. Good(u)
      BY RestoreSavedIsGood
    <2> HIDE DEF u
    <2>2. Good([u EXCEPT !.nicks = [c \in Channels |-> IF c \in Open(u) THEN {} ELSE @[c]]])
      BY <2>1
    <2> QED
      BY <1>6, <2>2 DEF Rejoin, u
  <1>7. CASE Restore
    <2> DEFINE u == restoreSavedChannels(ui)
               v == [u EXCEPT !.tab = [c \in Channels |->
                                  IF c \in Head(pending).chans THEN "open" ELSE @[c]]]
    <2>1. Good(u)
      BY RestoreSavedIsGood
    <2> HIDE DEF u
    <2>2. IsPage(v)
      BY <2>1
    <2>3. Good(setActive(v, Server))
      BY <2>2, SetActiveIsGood
    <2> QED
      BY <1>7, <2>3 DEF Restore, u
  <1>8. ASSUME NEW t \in Nexts, Handle(t) PROVE Good(ui')
    BY <1>8, TabsAreGood DEF Handle
  <1>9. ASSUME NEW c \in Channels, JoinCommand(c) PROVE Good(ui')
    BY <1>9, SetActiveIsGood DEF JoinCommand
  <1>10. ASSUME NEW c \in Channels, JoinWithKey(c) PROVE Good(ui')
    BY <1>10, EnsureIsGood DEF JoinWithKey
  <1>11. ASSUME NEW c \in Channels, NEW t \in Nexts, CloseButton(c, t) PROVE Good(ui')
    BY <1>11, RemoveIsGood, SaveIsGood DEF CloseButton
  <1>12. ASSUME NEW c \in Channels,
                ServeJoin(c) \/ ServePart(c) \/ ServeNames(c) \/ Kicked(c)
                \/ PartCommand(c) \/ RejoinTimer(c)
         PROVE  ui' = ui
    BY <1>12 DEF ServeJoin, ServePart, ServeNames, Kicked, PartCommand, RejoinTimer, world
  <1>13. ASSUME NEW p \in Others, NEW c \in Channels, OtherJoins(p, c) \/ OtherLeaves(p, c)
         PROVE  ui' = ui
    BY <1>13 DEF OtherJoins, OtherLeaves, world
  <1>14. ASSUME NEW p \in Others, NEW q \in Others, OtherQuits(p) \/ OtherRenamed(p, q)
         PROVE  ui' = ui
    BY <1>14 DEF OtherQuits, OtherRenamed, world
  <1>15. CASE Resume \/ Expire \/ RejoinCommand
    BY <1>15 DEF Resume, Expire, RejoinCommand
  <1> QED
    BY <1>1, <1>2, <1>3, <1>4, <1>5, <1>6, <1>7, <1>8, <1>9, <1>10, <1>11, <1>12,
       <1>13, <1>14, <1>15 DEF Next

(* What the user types goes to an open tab (ActiveIsOpen), however tabs are *)
(* made, closed and brought back from what was saved (app.js:1442-1485).    *)
THEOREM ActiveTabIsOpen == Spec => []ActiveIsOpen
  <1>1. Good(ui) => ActiveIsOpen
    BY DEF ActiveIsOpen
  <1> QED
    BY <1>1, InitIsGood, NextIsGood, PTL DEF Spec

-----------------------------------------------------------------------------
(* TabsMatch and NickLists.  The types and the shape of the state first.    *)
HIDE DEF Pages, IsPage, ActiveOpen, Good, Open, Found

Requests == [op : {"join", "part", "names"}, chans : SUBSET Channels]
Loads == [op : {"rejoin"}] \cup [op : {"resume"}, chans : SUBSET Channels]
News == [type : {"join", "part", "kick", "join_error"}, chan : Channels, who : People]
          \cup [type : {"names"}, chan : Channels, list : SUBSET People]
          \cup [type : {"quit"}, who : Others]
          \cup [type : {"nick"}, who : Others, new : Others]
          \cup [type : {"connected"}]
          \cup [type : {"resumed"}, list : SUBSET Channels]

Typed ==
    /\ ui \in UI
    /\ page \in {"form", "chat", "fresh"}
    /\ params \in BOOLEAN /\ link \in BOOLEAN /\ session \in BOOLEAN
    /\ pending \in Seq(Loads)
    /\ wire \in Seq(News)
    /\ asked \in Seq(Requests) /\ later \in Seq(Requests)
    /\ members \in [Channels -> SUBSET People]
    /\ rejoins \in SUBSET Channels
    /\ early \in BOOLEAN /\ lost \in BOOLEAN /\ refused \in BOOLEAN

(* Where the frames stand that begin a session or return to one. *)
Marks ==
    \A i \in 1..Len(wire) :
      /\ wire[i].type = "connected" => i = 1 /\ link /\ page = "chat"
      /\ wire[i].type = "resumed" => link

(* How the connection, the session and the page go together. *)
Linked ==
    /\ link => session /\ later = <<>>
    /\ ~session => wire = <<>> /\ asked = <<>> /\ Joined = {}
    /\ page = "form" => ~session
    /\ page = "fresh" => pending = <<>> /\ ~params
    /\ Marks

Neat(u) == \A c \in Channels : u.tab[c] = "none" => u.nicks[c] = {}
Plain(u) == \A c \in Channels : u.tab[c] # "offline"
Tidy == Neat(ui) /\ (page = "fresh" => Plain(ui))

Sound == Typed /\ Linked /\ Tidy

-----------------------------------------------------------------------------
(* A channel as the session has seen it: whether the user is in, and who    *)
(* else.  Truth is what it is now, and a frame leads from a view to a view. *)
View == [in : BOOLEAN, who : SUBSET People]
Out == [in |-> FALSE, who |-> {}]
In(S) == [in |-> TRUE, who |-> S]
Truth(c) == IF Me \in members[c] THEN In(members[c]) ELSE Out

OwnJoin(c, f) == f.type = "join" /\ f.chan = c /\ f.who = Me
NamesOf(c, f) == f.type = "names" /\ f.chan = c

Leads(c, v, f, w) ==
    CASE f.type = "join" /\ f.chan = c ->
           IF f.who = Me THEN w = In({}) ELSE v.in /\ w = In(v.who \cup {f.who})
      [] f.type \in {"part", "kick"} /\ f.chan = c ->
           w = IF f.who = Me THEN Out ELSE [v EXCEPT !.who = @ \ {f.who}]
      [] f.type = "quit" -> w = [v EXCEPT !.who = @ \ {f.who}]
      [] f.type = "nick" ->
           w = [v EXCEPT !.who = IF f.who \in @ THEN (@ \ {f.who}) \cup {f.new} ELSE @]
      [] f.type = "names" /\ f.chan = c -> w = IF v.in THEN In(f.list) ELSE v
      [] f.type = "resumed" -> w = v /\ (c \in f.list <=> v.in)
      [] f.type = "connected" -> w = v /\ ~v.in
      [] OTHER -> w = v

(* M are the views of channel c before, between and after the frames of q,  *)
(* t being the last one.                                                    *)
Path(c, q, t, M) ==
    /\ M \in [1..(Len(q) + 1) -> View]
    /\ M[Len(q) + 1] = t
    /\ \A i \in 1..Len(q) : Leads(c, M[i], q[i], M[i + 1])
    /\ \A i \in 1..(Len(q) + 1) :
         ~M[i].in /\ t.in => \E j \in 1..Len(q) : j >= i /\ OwnJoin(c, q[j])

(* The names of c are asked for, a request to join it waits. *)
Has(q, o, c) == \E i \in 1..Len(q) : q[i].op = o /\ c \in q[i].chans
Lists(q, c) == \E i \in 1..Len(q) : NamesOf(c, q[i])
Joins(q, c) == \E i \in 1..Len(q) : OwnJoin(c, q[i])
Connecting == \E i \in 1..Len(wire) : wire[i].type = "connected"

(* The names of a channel follow the user's own join, and resumed. *)
Announced(c) ==
    \A i \in 1..Len(wire) :
      /\ OwnJoin(c, wire[i]) => i + 1 \in 1..Len(wire) /\ NamesOf(c, wire[i + 1])
      /\ wire[i].type = "resumed" /\ c \in wire[i].list =>
           Has(asked, "names", c) \/ \E j \in 1..Len(wire) : j > i /\ NamesOf(c, wire[j])

(* The session has been replaced since the k-th log was asked for, and the  *)
(* page will join again what is open.                                       *)
Renewed(k) == \/ ~session \/ Connecting
              \/ \E j \in 1..Len(pending) : j > k /\ pending[j].op = "rejoin"

(* What the page shows of a channel of which v was the view before the      *)
(* frames under way.  If the user was in, the tab is open, or will be, and  *)
(* its names are right or will come; if not, a tab that is open is one that *)
(* the server refused, that waits for its join, or that the page will join  *)
(* again.  A session that has been replaced was in no channel, and a page   *)
(* that is loading its logs has asked for those of the channels it was in.  *)
TabIn(c, v) == v.in /\ page = "chat" =>
    \/ ui.tab[c] = "open"
    \/ /\ ui.tab[c] = "none"
       /\ \E k \in 1..Len(pending) : pending[k].op = "resume" /\ c \in pending[k].chans
NicksIn(c, v) == v.in /\ page = "chat" =>
    ui.nicks[c] = v.who \/ Has(asked, "names", c) \/ Lists(wire, c)
TabOut(c, v) == ~v.in /\ ui.tab[c] = "open" =>
    \/ refused \/ Has(asked, "join", c) \/ Has(later, "join", c) \/ Joins(wire, c)
    \/ Renewed(0)
NoneRenewed(v) == Renewed(0) => ~v.in
Loading(c, v) == \A k \in 1..Len(pending) : pending[k].op = "resume" =>
    (c \in pending[k].chans <=> v.in) \/ Renewed(k)

Shows(c, v) ==
    TabIn(c, v) /\ NicksIn(c, v) /\ TabOut(c, v) /\ NoneRenewed(v) /\ Loading(c, v)

Follows(c) == \E M :
    Path(c, wire, Truth(c), M) /\ (~early /\ page # "form" => Shows(c, M[1]))

Faithful == ~lost => \A c \in Channels : Announced(c) /\ Follows(c)

-----------------------------------------------------------------------------
(* The functions of app.js, by what they do to the tab of a channel and to  *)
(* its list of names.                                                       *)
LEMMA UIFacts ==
  ASSUME NEW u \in UI
  PROVE  /\ u.tab \in [Channels -> {"none", "offline", "open"}]
         /\ u.nicks \in [Channels -> SUBSET People]
         /\ u.active \in Channels \cup {Server, NoTab} /\ u.saved \in SUBSET Channels
         /\ \A t \in [Channels -> {"none", "offline", "open"}] :
              /\ [u EXCEPT !.tab = t] \in UI
              /\ [u EXCEPT !.tab = t].tab = t /\ [u EXCEPT !.tab = t].nicks = u.nicks
         /\ \A n \in [Channels -> SUBSET People] :
              /\ [u EXCEPT !.nicks = n] \in UI
              /\ [u EXCEPT !.nicks = n].nicks = n /\ [u EXCEPT !.nicks = n].tab = u.tab
         /\ \A a \in Channels \cup {Server, NoTab} :
              /\ [u EXCEPT !.active = a] \in UI
              /\ [u EXCEPT !.active = a].tab = u.tab /\ [u EXCEPT !.active = a].nicks = u.nicks
         /\ \A s \in SUBSET Channels :
              /\ [u EXCEPT !.saved = s] \in UI
              /\ [u EXCEPT !.saved = s].tab = u.tab /\ [u EXCEPT !.saved = s].nicks = u.nicks
  BY DEF UI

LEMMA BothShow ==
  ASSUME NEW u \in UI, NEW c \in Channels, NEW x \in {"none", "offline", "open"}
  PROVE  LET v == [u EXCEPT !.tab[c] = x, !.nicks[c] = {}]
         IN  /\ v \in UI /\ v.tab = [u.tab EXCEPT ![c] = x]
             /\ v.nicks = [u.nicks EXCEPT ![c] = {}]
  <1> DEFINE t == [u.tab EXCEPT ![c] = x]
             n == [u.nicks EXCEPT ![c] = {}]
  <1>1. /\ t \in [Channels -> {"none", "offline", "open"}]
        /\ n \in [Channels -> SUBSET People]
    BY UIFacts
  <1>2. [u EXCEPT !.tab[c] = x, !.nicks[c] = {}] = [u EXCEPT !.tab = t, !.nicks = n]
    BY DEF UI
  <1> HIDE DEF t, n
  <1>3. /\ [u EXCEPT !.tab = t, !.nicks = n] \in UI
        /\ [u EXCEPT !.tab = t, !.nicks = n].tab = t
        /\ [u EXCEPT !.tab = t, !.nicks = n].nicks = n
    BY <1>1 DEF UI
  <1> QED
    BY <1>2, <1>3 DEF t, n

(* v shows the same tabs and lists as u. *)
Alike(u, v) == v \in UI /\ v.tab = u.tab /\ v.nicks = u.nicks

LEMMA BlankShows ==
  ASSUME NEW s \in SUBSET Channels
  PROVE  /\ Blank(s) \in UI /\ Neat(Blank(s)) /\ Plain(Blank(s)) /\ Blank(s).saved = s
         /\ \A c \in Channels : Blank(s).tab[c] = "none"
  BY DEF Blank, UI, Neat, Plain

LEMMA SetActiveShows ==
  ASSUME NEW u \in UI, NEW t PROVE Alike(u, setActive(u, t))
  BY UIFacts DEF setActive, Alike

LEMMA SaveShows ==
  ASSUME NEW u \in UI PROVE Alike(u, saveChannels(u))
  BY UIFacts DEF saveChannels, Alike, Open

LEMMA EnsureShows ==
  ASSUME NEW u \in UI, NEW c \in Channels, Neat(u)
  PROVE  /\ ensureChannel(u, c) \in UI
         /\ ensureChannel(u, c).nicks = u.nicks
         /\ ensureChannel(u, c).tab =
              [u.tab EXCEPT ![c] = IF @ = "none" THEN "open" ELSE @]
         /\ ensureChannel(u, c).tab[c] # "none"
  <1>1. u.tab \in [Channels -> {"none", "offline", "open"}]
        /\ u.nicks \in [Channels -> SUBSET People]
    BY UIFacts
  <1>2. CASE Found(u, c)
    <2>1. ensureChannel(u, c) = u
      BY <1>2 DEF ensureChannel
    <2>2. u.tab = [u.tab EXCEPT ![c] = IF @ = "none" THEN "open" ELSE @]
      BY <1>1, <1>2 DEF Found
    <2> QED
      BY <1>2, <2>1, <2>2 DEF Found
  <1>3. CASE ~Found(u, c)
    <2>1. u.tab[c] = "none" /\ u.nicks[c] = {}
      BY <1>3 DEF Found, Neat
    <2>2. [u.nicks EXCEPT ![c] = {}] = u.nicks
      BY <1>1, <2>1
    <2>3. ensureChannel(u, c) = [u EXCEPT !.tab[c] = "open", !.nicks[c] = {}]
      BY <1>3 DEF ensureChannel
    <2>4. /\ ensureChannel(u, c) \in UI
          /\ ensureChannel(u, c).tab = [u.tab EXCEPT ![c] = "open"]
          /\ ensureChannel(u, c).nicks = [u.nicks EXCEPT ![c] = {}]
      <3> DEFINE v == [u EXCEPT !.tab[c] = "open", !.nicks[c] = {}]
      <3>1. /\ v \in UI /\ v.tab = [u.tab EXCEPT ![c] = "open"]
            /\ v.nicks = [u.nicks EXCEPT ![c] = {}]
        BY BothShow
      <3> QED
        BY <2>3, <3>1
    <2> QED
      BY <1>1, <2>1, <2>2, <2>4
  <1> QED
    BY <1>2, <1>3

LEMMA RemoveShows ==
  ASSUME NEW u \in UI, NEW c \in Channels, NEW next
  PROVE  /\ removeChannel(u, c, next) \in UI
         /\ removeChannel(u, c, next).tab = [u.tab EXCEPT ![c] = "none"]
         /\ removeChannel(u, c, next).nicks = [u.nicks EXCEPT ![c] = {}]
  <1> DEFINE v == [u EXCEPT !.tab[c] = "none", !.nicks[c] = {}]
  <1>1. /\ v \in UI /\ v.tab = [u.tab EXCEPT ![c] = "none"]
        /\ v.nicks = [u.nicks EXCEPT ![c] = {}]
    BY BothShow
  <1> HIDE DEF v
  <1>2. Alike(v, setActive(v, IF next = c THEN Server ELSE next))
    BY <1>1, SetActiveShows
  <1> QED
    BY <1>1, <1>2 DEF removeChannel, v, Alike

LEMMA RestoreShows ==
  ASSUME NEW u \in UI
  PROVE  /\ restoreSavedChannels(u) \in UI
         /\ restoreSavedChannels(u).nicks = u.nicks
         /\ \A c \in Channels : restoreSavedChannels(u).tab[c] =
              IF c \in u.saved /\ u.tab[c] = "none" THEN "offline" ELSE u.tab[c]
  <1> DEFINE t == [c \in Channels |-> IF c \in u.saved /\ u.tab[c] = "none"
                                     THEN "offline" ELSE u.tab[c]]
  <1>1. t \in [Channels -> {"none", "offline", "open"}]
    BY UIFacts
  <1>2. restoreSavedChannels(u) = [u EXCEPT !.tab = t]
    BY DEF restoreSavedChannels
  <1> HIDE DEF t
  <1>3. restoreSavedChannels(u) \in UI /\ restoreSavedChannels(u).nicks = u.nicks
        /\ restoreSavedChannels(u).tab = t
    BY <1>1, <1>2, UIFacts
  <1> QED
    BY <1>3 DEF t

LEMMA NewsFacts ==
  ASSUME NEW f \in News
  PROVE  /\ f.type \in {"join", "part", "kick", "join_error"} =>
              f.chan \in Channels /\ f.who \in People
         /\ f.type = "names" => f.chan \in Channels /\ f.list \in SUBSET People
         /\ f.type = "quit" => f.who \in Others
         /\ f.type = "nick" => f.who \in Others /\ f.new \in Others
         /\ f.type = "resumed" => f.list \in SUBSET Channels
         /\ f.type \in {"join", "part", "kick", "join_error", "names", "quit", "nick",
                        "connected", "resumed"}
  BY DEF News

(* What handle makes of the tab and the names of channel c. *)
TabAfter(c, x, f) ==
    IF f.type = "join" /\ f.chan = c
    THEN IF Self(f) \/ x = "none" THEN "open" ELSE x
    ELSE IF f.type \in {"part", "kick"} /\ f.chan = c /\ Self(f) THEN "none" ELSE x
NicksAfter(c, x, n, f) ==
    CASE f.type = "join" /\ f.chan = c -> IF Self(f) THEN n ELSE n \cup {f.who}
      [] f.type \in {"part", "kick"} /\ f.chan = c -> IF Self(f) THEN {} ELSE n \ {f.who}
      [] f.type = "quit" -> n \ {f.who}
      [] f.type = "nick" -> IF f.who \in n THEN (n \ {f.who}) \cup {f.new} ELSE n
      [] f.type = "names" /\ f.chan = c -> IF x = "none" THEN n ELSE f.list
      [] OTHER -> n

Handled(u, f, v) ==
    /\ v \in UI
    /\ \A c \in Channels : /\ v.tab[c] = TabAfter(c, u.tab[c], f)
                           /\ v.nicks[c] = NicksAfter(c, u.tab[c], u.nicks[c], f)

LEMMA JoinShows ==
  ASSUME NEW u \in UI, NEW f \in News, Neat(u), f.type = "join"
  PROVE  Handled(u, f, HandleJoin(u, f))
  <1> DEFINE d == f.chan
             v == ensureChannel(u, d)
             w == [v EXCEPT !.tab[d] = "open"]
             n == [v.nicks EXCEPT ![d] = @ \cup {f.who}]
  <1>1. d \in Channels /\ f.who \in People
    BY NewsFacts
  <1>2. /\ v \in UI /\ v.nicks = u.nicks
        /\ v.tab = [u.tab EXCEPT ![d] = IF @ = "none" THEN "open" ELSE @]
    BY <1>1, EnsureShows
  <1>3. u.tab \in [Channels -> {"none", "offline", "open"}]
        /\ u.nicks \in [Channels -> SUBSET People]
    BY UIFacts
  <1> HIDE DEF v
  <1>4. CASE Self(f)
    <2> DEFINE t == [v.tab EXCEPT ![d] = "open"]
    <2>1. t \in [Channels -> {"none", "offline", "open"}]
      BY <1>2, UIFacts
    <2>2. w = [v EXCEPT !.tab = t]
      BY <1>2 DEF UI
    <2>3. w \in UI /\ w.tab = t /\ w.nicks = u.nicks
      <3> HIDE DEF t, w
      <3> QED
        BY <1>2, <2>1, <2>2, UIFacts
    <2> HIDE DEF w
    <2>4. Alike(w, setActive(w, d))
      BY <2>3, SetActiveShows
    <2>5. Alike(w, saveChannels(setActive(w, d)))
      BY <2>4, SaveShows DEF Alike
    <2>6. HandleJoin(u, f) = saveChannels(setActive(w, d))
      BY <1>4 DEF HandleJoin, v, w
    <2>7. \A c \in Channels : t[c] = IF c = d THEN "open" ELSE u.tab[c]
      BY <1>1, <1>2, <1>3
    <2> QED
      BY <1>4, <2>3, <2>5, <2>6, <2>7 DEF Alike, Handled, TabAfter, NicksAfter
  <1>5. CASE ~Self(f)
    <2>1. n \in [Channels -> SUBSET People]
      BY <1>1, <1>2, <1>3
    <2>2. HandleJoin(u, f) = [v EXCEPT !.nicks = n]
      BY <1>2, <1>5 DEF HandleJoin, v, UI
    <2>3. /\ HandleJoin(u, f) \in UI /\ HandleJoin(u, f).nicks = n
          /\ HandleJoin(u, f).tab = v.tab
      <3> HIDE DEF n
      <3> QED
        BY <1>2, <2>1, <2>2, UIFacts
    <2>4. \A c \in Channels : n[c] = IF c = d THEN u.nicks[c] \cup {f.who} ELSE u.nicks[c]
      BY <1>1, <1>2, <1>3
    <2>5. \A c \in Channels : v.tab[c] = IF c = d /\ u.tab[c] = "none" THEN "open"
                                                                       ELSE u.tab[c]
      BY <1>1, <1>2, <1>3
    <2> HIDE DEF n
    <2> QED
      BY <1>5, <2>3, <2>4, <2>5 DEF Handled, TabAfter, NicksAfter
  <1> QED
    BY <1>4, <1>5

Without(u, d, p) == [u EXCEPT !.nicks[d] = @ \ {p}]

LEMMA DropNick ==
  ASSUME NEW u \in UI, NEW d \in Channels, NEW p
  PROVE  /\ Without(u, d, p) \in UI /\ Without(u, d, p).tab = u.tab
         /\ Without(u, d, p).nicks = [u.nicks EXCEPT ![d] = @ \ {p}]
  <1> DEFINE n == [u.nicks EXCEPT ![d] = @ \ {p}]
  <1>1. n \in [Channels -> SUBSET People]
    BY UIFacts
  <1>2. Without(u, d, p) = [u EXCEPT !.nicks = n]
    BY DEF UI, Without
  <1> HIDE DEF n
  <1>3. [u EXCEPT !.nicks = n] \in UI /\ [u EXCEPT !.nicks = n].tab = u.tab
        /\ [u EXCEPT !.nicks = n].nicks = n
    BY <1>1, UIFacts
  <1> QED
    BY <1>2, <1>3 DEF n

LEMMA RemovedShows ==
  ASSUME NEW u \in UI, NEW f \in News, f.type \in {"part", "kick"}, Self(f),
         NEW v \in UI, v.tab = [u.tab EXCEPT ![f.chan] = "none"],
         \E n \in {u.nicks, [u.nicks EXCEPT ![f.chan] = @ \ {f.who}]} :
            v.nicks = [n EXCEPT ![f.chan] = {}]
  PROVE  Handled(u, f, v)
  <1>1. f.chan \in Channels
    BY NewsFacts
  <1>2. u.tab \in [Channels -> {"none", "offline", "open"}]
        /\ u.nicks \in [Channels -> SUBSET People]
    BY UIFacts
  <1>3. \A c \in Channels : v.tab[c] = IF c = f.chan THEN "none" ELSE u.tab[c]
    BY <1>1, <1>2
  <1>4. \A c \in Channels : v.nicks[c] = IF c = f.chan THEN {} ELSE u.nicks[c]
    BY <1>1, <1>2
  <1> QED
    BY <1>3, <1>4 DEF Handled, TabAfter, NicksAfter

LEMMA DroppedShows ==
  ASSUME NEW u \in UI, NEW f \in News, f.type \in {"part", "kick"}, ~Self(f),
         NEW v \in UI, v.tab = u.tab, v.nicks = [u.nicks EXCEPT ![f.chan] = @ \ {f.who}]
  PROVE  Handled(u, f, v)
  <1>1. f.chan \in Channels
    BY NewsFacts
  <1>2. u.nicks \in [Channels -> SUBSET People]
    BY UIFacts
  <1>3. \A c \in Channels : v.nicks[c] = IF c = f.chan THEN u.nicks[c] \ {f.who}
                                                       ELSE u.nicks[c]
    BY <1>1, <1>2
  <1> QED
    BY <1>3 DEF Handled, TabAfter, NicksAfter

LEMMA NotFoundShows ==
  ASSUME NEW u \in UI, NEW f \in News, Neat(u), f.type \in {"part", "kick"},
         ~Found(u, f.chan), NEW v, Alike(u, v)
  PROVE  Handled(u, f, v)
  <1>1. u.tab[f.chan] = "none" /\ u.nicks[f.chan] = {}
    BY NewsFacts DEF Found, Neat
  <1> QED
    BY <1>1 DEF Alike, Handled, TabAfter, NicksAfter

LEMMA PartShows ==
  ASSUME NEW u \in UI, NEW f \in News, NEW next, Neat(u), f.type = "part"
  PROVE  Handled(u, f, HandlePart(u, f, next))
  <1> DEFINE d == f.chan
  <1>1. d \in Channels
    BY NewsFacts
  <1>2. Alike(u, u)
    BY DEF Alike
  <1>3. CASE ~Found(u, d)
    <2>1. HandlePart(u, f, next) \in {u, saveChannels(u)}
      BY <1>3 DEF HandlePart
    <2> QED
      BY <1>2, <1>3, <2>1, NotFoundShows, SaveShows
  <1>4. CASE Found(u, d) /\ Self(f)
    <2> DEFINE v == removeChannel(u, d, next)
    <2>1. /\ v \in UI /\ v.tab = [u.tab EXCEPT ![d] = "none"]
          /\ v.nicks = [u.nicks EXCEPT ![d] = {}]
      BY <1>1, RemoveShows
    <2> HIDE DEF v
    <2>2. Alike(v, saveChannels(v))
      BY <2>1, SaveShows
    <2>3. Handled(u, f, saveChannels(v))
      BY <1>4, <2>1, <2>2, RemovedShows DEF Alike
    <2> QED
      BY <1>4, <2>3 DEF HandlePart, v
  <1>5. CASE Found(u, d) /\ ~Self(f)
    <2> DEFINE v == Without(u, d, f.who)
    <2>1. /\ v \in UI /\ v.tab = u.tab
          /\ v.nicks = [u.nicks EXCEPT ![d] = @ \ {f.who}]
      BY <1>1, DropNick
    <2>2. HandlePart(u, f, next) = v
      BY <1>5 DEF HandlePart, Without
    <2> HIDE DEF v
    <2> QED
      BY <1>5, <2>1, <2>2, DroppedShows
  <1> QED
    BY <1>3, <1>4, <1>5

LEMMA KickShows ==
  ASSUME NEW u \in UI, NEW f \in News, NEW next, Neat(u), f.type = "kick"
  PROVE  Handled(u, f, HandleKick(u, f, next))
  <1> DEFINE d == f.chan
             v == Without(u, d, f.who)
  <1>1. d \in Channels
    BY NewsFacts
  <1>2. /\ v \in UI /\ v.tab = u.tab
        /\ v.nicks = [u.nicks EXCEPT ![d] = @ \ {f.who}]
    BY <1>1, DropNick
  <1>3. HandleKick(u, f, next) = IF ~Found(u, d) THEN u
                                 ELSE IF Self(f) THEN removeChannel(v, d, next) ELSE v
    BY DEF HandleKick, Without
  <1> HIDE DEF v
  <1>4. CASE ~Found(u, d)
    BY <1>3, <1>4, NotFoundShows DEF Alike
  <1>5. CASE Found(u, d) /\ Self(f)
    <2> DEFINE w == removeChannel(v, d, next)
    <2>1. /\ w \in UI /\ w.tab = [u.tab EXCEPT ![d] = "none"]
          /\ w.nicks = [v.nicks EXCEPT ![d] = {}]
      BY <1>1, <1>2, RemoveShows
    <2> HIDE DEF w
    <2>2. Handled(u, f, w)
      BY <1>2, <1>5, <2>1, RemovedShows
    <2> QED
      BY <1>3, <1>5, <2>2 DEF w
  <1>6. CASE Found(u, d) /\ ~Self(f)
    BY <1>2, <1>3, <1>6, DroppedShows
  <1> QED
    BY <1>4, <1>5, <1>6

LEMMA NickListShows ==
  ASSUME NEW u \in UI, NEW n \in [Channels -> SUBSET People]
  PROVE  LET v == [u EXCEPT !.nicks = n]
         IN  v \in UI /\ v.tab = u.tab /\ v.nicks = n
  BY UIFacts

LEMMA TabsShow ==
  ASSUME NEW u \in UI, NEW f \in News, NEW next, Neat(u)
  PROVE  Handled(u, f, Tabs(u, f, next))
  <1>0. /\ u.tab \in [Channels -> {"none", "offline", "open"}]
        /\ u.nicks \in [Channels -> SUBSET People]
    BY UIFacts
  <1>1. CASE f.type = "join"
    BY <1>1, JoinShows DEF Tabs
  <1>2. CASE f.type = "part"
    BY <1>2, PartShows DEF Tabs
  <1>3. CASE f.type = "kick"
    BY <1>3, KickShows DEF Tabs
  <1>4. CASE f.type = "quit"
    <2> DEFINE n == [c \in Channels |-> u.nicks[c] \ {f.who}]
    <2>1. n \in [Channels -> SUBSET People]
      BY <1>0
    <2>2. Tabs(u, f, next) = [u EXCEPT !.nicks = n]
      BY <1>4 DEF Tabs, HandleQuit, UI
    <2>3. \A c \in Channels : n[c] = u.nicks[c] \ {f.who}
      OBVIOUS
    <2> HIDE DEF n
    <2>4. LET v == Tabs(u, f, next) IN v \in UI /\ v.tab = u.tab /\ v.nicks = n
      BY <2>1, <2>2, NickListShows
    <2> QED
      BY <1>4, <2>3, <2>4 DEF Handled, TabAfter, NicksAfter
  <1>5. CASE f.type = "nick"
    <2> DEFINE n == [c \in Channels |-> IF f.who \in u.nicks[c]
                                        THEN (u.nicks[c] \ {f.who}) \cup {f.new}
                                        ELSE u.nicks[c]]
    <2>1. n \in [Channels -> SUBSET People]
      BY <1>0, <1>5, NewsFacts DEF People
    <2>2. Tabs(u, f, next) = [u EXCEPT !.nicks = n]
      BY <1>5 DEF Tabs, HandleNick, UI
    <2>3. \A c \in Channels : n[c] = IF f.who \in u.nicks[c]
                                     THEN (u.nicks[c] \ {f.who}) \cup {f.new}
                                     ELSE u.nicks[c]
      OBVIOUS
    <2> HIDE DEF n
    <2>4. LET v == Tabs(u, f, next) IN v \in UI /\ v.tab = u.tab /\ v.nicks = n
      BY <2>1, <2>2, NickListShows
    <2> QED
      BY <1>5, <2>3, <2>4 DEF Handled, TabAfter, NicksAfter
  <1>6. CASE f.type = "names"
    <2>1. f.chan \in Channels /\ f.list \in SUBSET People
      BY <1>6, NewsFacts
    <2>2. CASE ~Found(u, f.chan)
      <3>1. Tabs(u, f, next) = u
        BY <1>6, <2>2 DEF Tabs, HandleNames
      <3> QED
        BY <1>6, <2>2, <3>1 DEF Handled, TabAfter, NicksAfter, Found
    <2>3. CASE Found(u, f.chan)
      <3> DEFINE n == [u.nicks EXCEPT ![f.chan] = f.list]
      <3>1. n \in [Channels -> SUBSET People]
        BY <1>0, <2>1
      <3>2. Tabs(u, f, next) = [u EXCEPT !.nicks = n]
        BY <1>6, <2>3 DEF Tabs, HandleNames, UI
      <3>3. \A c \in Channels : n[c] = IF c = f.chan THEN f.list ELSE u.nicks[c]
        BY <1>0, <2>1
      <3> HIDE DEF n
      <3>4. LET v == Tabs(u, f, next) IN v \in UI /\ v.tab = u.tab /\ v.nicks = n
        BY <3>1, <3>2, NickListShows
      <3> QED
        BY <1>6, <2>3, <3>3, <3>4 DEF Handled, TabAfter, NicksAfter, Found
    <2> QED
      BY <2>2, <2>3
  <1>7. CASE f.type \notin {"join", "part", "kick", "quit", "nick", "names"}
    <2>1. Tabs(u, f, next) = u
      BY <1>7 DEF Tabs
    <2> QED
      BY <1>7, <2>1 DEF Handled, TabAfter, NicksAfter
  <1> QED
    BY <1>1, <1>2, <1>3, <1>4, <1>5, <1>6, <1>7

LEMMA HandledNeat ==
  ASSUME NEW u \in UI, NEW f \in News, NEW v, Neat(u), Handled(u, f, v)
  PROVE  Neat(v) /\ (Plain(u) => Plain(v))
  <1>1. \A c \in Channels : u.tab[c] \in {"none", "offline", "open"}
    BY UIFacts
  <1> QED
    BY <1>1, NewsFacts DEF Handled, TabAfter, NicksAfter, Neat, Plain
-----------------------------------------------------------------------------
(* Sequences, requests and frames.                                          *)

LEMMA Empties ==
  /\ <<>> \in Seq(Requests) /\ <<>> \in Seq(News) /\ <<>> \in Seq(Loads)
  /\ Len(<<>>) = 0
  OBVIOUS

LEMMA SeqFacts ==
  ASSUME NEW S, NEW s \in Seq(S)
  PROVE  /\ Len(s) \in Nat /\ DOMAIN s = 1..Len(s) /\ \A i \in 1..Len(s) : s[i] \in S
         /\ s # <<>> <=> Len(s) > 0
  OBVIOUS

LEMMA TailFacts ==
  ASSUME NEW S, NEW s \in Seq(S), s # <<>>
  PROVE  /\ Tail(s) \in Seq(S) /\ Len(Tail(s)) = Len(s) - 1 /\ Len(s) \in Nat /\ Len(s) > 0
         /\ Head(s) = s[1] /\ Head(s) \in S
         /\ \A i \in 1..(Len(s) - 1) : Tail(s)[i] = s[i + 1]
  OBVIOUS

LEMMA AppendFacts ==
  ASSUME NEW S, NEW s \in Seq(S), NEW e \in S
  PROVE  /\ Append(s, e) \in Seq(S) /\ Len(Append(s, e)) = Len(s) + 1
         /\ \A i \in 1..Len(s) : Append(s, e)[i] = s[i]
         /\ Append(s, e)[Len(s) + 1] = e
  OBVIOUS

LEMMA ConcatFacts ==
  ASSUME NEW S, NEW s \in Seq(S), NEW t \in Seq(S)
  PROVE  /\ s \o t \in Seq(S) /\ Len(s \o t) = Len(s) + Len(t)
         /\ \A i \in 1..Len(s) : (s \o t)[i] = s[i]
         /\ \A i \in 1..Len(t) : (s \o t)[Len(s) + i] = t[i]
  OBVIOUS

LEMMA HasConcat ==
  ASSUME NEW s \in Seq(Requests), NEW t \in Seq(Requests), NEW o, NEW c
  PROVE  Has(s \o t, o, c) <=> Has(s, o, c) \/ Has(t, o, c)
  <1>1. /\ Len(s \o t) = Len(s) + Len(t) /\ Len(s) \in Nat /\ Len(t) \in Nat
        /\ \A i \in 1..Len(s) : (s \o t)[i] = s[i]
        /\ \A i \in 1..Len(t) : (s \o t)[Len(s) + i] = t[i]
    BY ConcatFacts, SeqFacts
  <1> DEFINE w == s \o t
  <1> HIDE DEF w
  <1>2. ASSUME Has(s, o, c) PROVE Has(w, o, c)
    <2>1. PICK i \in 1..Len(s) : s[i].op = o /\ c \in s[i].chans
      BY <1>2 DEF Has
    <2>2. i \in 1..Len(w) /\ w[i] = s[i]
      BY <1>1 DEF w
    <2> QED
      BY <2>1, <2>2 DEF Has
  <1>3. ASSUME Has(t, o, c) PROVE Has(w, o, c)
    <2>1. PICK i \in 1..Len(t) : t[i].op = o /\ c \in t[i].chans
      BY <1>3 DEF Has
    <2>2. Len(s) + i \in 1..Len(w) /\ w[Len(s) + i] = t[i]
      BY <1>1 DEF w
    <2> QED
      BY <2>1, <2>2 DEF Has
  <1>4. ASSUME Has(w, o, c) PROVE Has(s, o, c) \/ Has(t, o, c)
    <2>1. PICK i \in 1..Len(w) : w[i].op = o /\ c \in w[i].chans
      BY <1>4 DEF Has
    <2>2. CASE i \in 1..Len(s)
      BY <1>1, <2>1, <2>2 DEF Has, w
    <2>3. CASE i \notin 1..Len(s)
      <3> DEFINE j == i - Len(s)
      <3>1. j \in 1..Len(t) /\ i = Len(s) + j
        BY <1>1, <2>1, <2>3 DEF w
      <3>2. w[i] = t[j]
        BY <1>1, <3>1 DEF w
      <3> QED
        BY <2>1, <3>1, <3>2 DEF Has
    <2> QED
      BY <2>2, <2>3
  <1> QED
    BY <1>2, <1>3, <1>4 DEF w

LEMMA HasEmpty == \A o, c : ~Has(<<>>, o, c)
  BY Empties DEF Has

LEMMA AskFacts ==
  ASSUME NEW o \in {"join", "part", "names"}, NEW S \in SUBSET Channels
  PROVE  /\ Ask(o, S) \in Seq(Requests)
         /\ \A p, c : Has(Ask(o, S), p, c) <=> p = o /\ c \in S
  <1>1. CASE S = {}
    BY <1>1, Empties, HasEmpty DEF Ask
  <1>2. CASE S # {}
    <2> DEFINE e == [op |-> o, chans |-> S]
    <2>1. e \in Requests /\ e.op = o /\ e.chans = S
      BY DEF Requests
    <2>2. Ask(o, S) = <<e>>
      BY <1>2 DEF Ask
    <2> HIDE DEF e
    <2>3. <<e>> \in Seq(Requests) /\ Len(<<e>>) = 1 /\ <<e>>[1] = e
      BY <2>1
    <2>4. \A p, c : Has(<<e>>, p, c) <=> p = o /\ c \in S
      BY <2>1, <2>3 DEF Has
    <2> QED
      BY <2>2, <2>3, <2>4
  <1> QED
    BY <1>1, <1>2

LEMMA SendFacts ==
  ASSUME asked \in Seq(Requests), later \in Seq(Requests), link \in BOOLEAN,
         NEW ops \in Seq(Requests), send(ops)
  PROVE  /\ asked' \in Seq(Requests) /\ later' \in Seq(Requests)
         /\ link => later' = later
         /\ ~link => asked' = asked
         /\ \A o, c : Has(asked, o, c) => Has(asked', o, c)
         /\ \A o, c : Has(asked, o, c) \/ Has(later, o, c) \/ Has(ops, o, c)
                        => Has(asked', o, c) \/ Has(later', o, c)
  <1>1. CASE link
    <2>1. asked' = asked \o ops /\ later' = later
      BY <1>1 DEF send
    <2> QED
      BY <1>1, <2>1, HasConcat, ConcatFacts
  <1>2. CASE ~link
    <2>1. later' = later \o ops /\ asked' = asked
      BY <1>2 DEF send
    <2> QED
      BY <1>2, <2>1, HasConcat, ConcatFacts
  <1> QED
    BY <1>1, <1>2

(* What is left of the requests when one of a channel has been served. *)
LEMMA ServedFacts ==
  ASSUME asked \in Seq(Requests), asked # <<>>, NEW d, Served(d)
  PROVE  /\ asked' \in Seq(Requests)
         /\ \A o, c : Has(asked, o, c) /\ ~(o = Head(asked).op /\ c = d) => Has(asked', o, c)
  <1> DEFINE h == Head(asked)
             a == Ask(h.op, h.chans \ {d})
  <1>1. /\ h \in Requests /\ Tail(asked) \in Seq(Requests) /\ h = asked[1]
        /\ Len(Tail(asked)) = Len(asked) - 1 /\ Len(asked) \in Nat /\ Len(asked) > 0
        /\ \A i \in 1..(Len(asked) - 1) : Tail(asked)[i] = asked[i + 1]
    BY TailFacts
  <1>2. h.op \in {"join", "part", "names"} /\ h.chans \in SUBSET Channels
    BY <1>1 DEF Requests
  <1>3. a \in Seq(Requests) /\ \A p, c : Has(a, p, c) <=> p = h.op /\ c \in h.chans \ {d}
    <2>1. h.chans \ {d} \in SUBSET Channels
      BY <1>2
    <2> QED
      BY <1>2, <2>1, AskFacts
  <1>4. asked' = a \o Tail(asked)
    BY DEF Served
  <1> HIDE DEF a, h
  <1>5. ASSUME NEW o, NEW c, Has(asked, o, c), ~(o = h.op /\ c = d)
        PROVE  Has(a, o, c) \/ Has(Tail(asked), o, c)
    <2>1. PICK i \in 1..Len(asked) : asked[i].op = o /\ c \in asked[i].chans
      BY <1>5 DEF Has
    <2>2. CASE i = 1
      BY <1>1, <1>3, <1>5, <2>1, <2>2
    <2>3. CASE i # 1
      <3>1. i - 1 \in 1..Len(Tail(asked)) /\ Tail(asked)[i - 1] = asked[i]
        BY <1>1, <2>1, <2>3
      <3> QED
        BY <2>1, <3>1 DEF Has
    <2> QED
      BY <2>2, <2>3
  <1> QED
    BY <1>1, <1>3, <1>4, <1>5, HasConcat, ConcatFacts DEF h

(* What Emit does to the frames under way. *)
LEMMA EmitFacts ==
  ASSUME wire \in Seq(News), link \in BOOLEAN, lost \in BOOLEAN,
         NEW fs \in Seq(News), Emit(fs)
  PROVE  /\ wire' \in Seq(News) /\ lost' \in BOOLEAN
         /\ \A i \in 1..Len(wire') :
              IF i <= Len(wire) THEN wire'[i] = wire[i]
                                ELSE \E k \in 1..Len(fs) : wire'[i] = fs[k]
         /\ ~lost' => ~lost /\ wire' = wire \o fs
  <1>1. Len(wire) \in Nat /\ Len(fs) \in Nat /\ BufMax \in Nat
    BY ChannelsAssumption
  <1>2. ASSUME NEW t \in Seq(News), \A k \in 1..Len(t) : \E l \in 1..Len(fs) : t[k] = fs[l],
               wire' = wire \o t
        PROVE  /\ wire' \in Seq(News)
               /\ \A i \in 1..Len(wire') :
                    IF i <= Len(wire) THEN wire'[i] = wire[i]
                                      ELSE \E k \in 1..Len(fs) : wire'[i] = fs[k]
    <2>1. /\ wire' \in Seq(News) /\ Len(wire') = Len(wire) + Len(t) /\ Len(t) \in Nat
          /\ \A i \in 1..Len(wire) : wire'[i] = wire[i]
          /\ \A i \in 1..Len(t) : wire'[Len(wire) + i] = t[i]
      BY <1>2, ConcatFacts, SeqFacts
    <2>2. ASSUME NEW i \in 1..Len(wire'), i > Len(wire)
          PROVE  \E k \in 1..Len(fs) : wire'[i] = fs[k]
      <3>1. i - Len(wire) \in 1..Len(t) /\ i = Len(wire) + (i - Len(wire))
        BY <1>1, <2>1, <2>2
      <3>2. wire'[i] = t[i - Len(wire)]
        BY <2>1, <3>1
      <3> QED
        BY <1>2, <3>1, <3>2
    <2>3. ASSUME NEW i \in 1..Len(wire')
          PROVE  IF i <= Len(wire) THEN wire'[i] = wire[i]
                                   ELSE \E k \in 1..Len(fs) : wire'[i] = fs[k]
      <3>1. CASE i <= Len(wire)
        <4>1. i \in 1..Len(wire)
          BY <1>1, <2>1, <2>3, <3>1
        <4> QED
          BY <2>1, <3>1, <4>1
      <3>2. CASE ~(i <= Len(wire))
        <4>1. i > Len(wire)
          BY <1>1, <2>1, <2>3, <3>2
        <4>2. \E k \in 1..Len(fs) : wire'[i] = fs[k]
          BY <2>2, <2>3, <4>1
        <4> QED
          BY <3>2, <4>2
      <3> QED
        BY <3>1, <3>2
    <2> QED
      BY <2>1, <2>3
  <1>3. CASE link
    <2>1. wire' = wire \o fs /\ lost' = lost
      BY <1>3 DEF Emit
    <2> QED
      BY <1>2, <2>1
  <1>4. CASE ~link
    <2> DEFINE n == IF Len(wire) + Len(fs) > BufMax THEN BufMax - Len(wire) ELSE Len(fs)
               t == SubSeq(fs, 1, n)
    <2>1. wire' = wire \o t /\ lost' = (lost \/ n < Len(fs))
      BY <1>4 DEF Emit
    <2>2. n \in Int /\ n <= Len(fs)
      BY <1>1
    <2> HIDE DEF n
    <2>3. t \in Seq(News) /\ \A k \in 1..Len(t) : \E l \in 1..Len(fs) : t[k] = fs[l]
      BY <1>1, <2>2
    <2>4. n = Len(fs) => t = fs
      BY <1>1
    <2>5. lost' \in BOOLEAN /\ (~lost' => ~lost /\ ~(n < Len(fs)))
      BY <2>1, Zenon
    <2>6. ~(n < Len(fs)) => n = Len(fs)
      BY <1>1, <2>2
    <2> HIDE DEF t
    <2> QED
      BY <1>2, <2>1, <2>3, <2>4, <2>5, <2>6
  <1> QED
    BY <1>3, <1>4
-----------------------------------------------------------------------------
(* Sound is inductive.                                                      *)

LEMMA FrameFacts ==
  ASSUME NEW c \in Channels, NEW p \in People
  PROVE  /\ \A t \in {"join", "part", "kick", "join_error"} :
              /\ Frame(t, c, p) \in News /\ Frame(t, c, p).type = t
              /\ Frame(t, c, p).chan = c /\ Frame(t, c, p).who = p
  BY DEF Frame, News

LEMMA NamesFacts ==
  ASSUME NEW c \in Channels, NEW S \in SUBSET People
  PROVE  /\ Names(c, S) \in News /\ Names(c, S).type = "names"
         /\ Names(c, S).chan = c /\ Names(c, S).list = S
  BY DEF Names, News

LEMMA OneFrame ==
  ASSUME NEW f \in News
  PROVE  <<f>> \in Seq(News) /\ Len(<<f>>) = 1 /\ <<f>>[1] = f
  OBVIOUS

LEMMA TwoFrames ==
  ASSUME NEW f \in News, NEW g \in News
  PROVE  <<f, g>> \in Seq(News) /\ Len(<<f, g>>) = 2 /\ <<f, g>>[1] = f /\ <<f, g>>[2] = g
  OBVIOUS

LEMMA OthersFacts == \A p \in Others : p \in People /\ p # Me
  BY ChannelsAssumption DEF People

Starts(f) == f.type \in {"connected", "resumed"}

LEMMA EmitMarks ==
  ASSUME Typed, Marks, NEW fs \in Seq(News), Emit(fs),
         \A k \in 1..Len(fs) : ~Starts(fs[k]), link' = link, page' = page
  PROVE  Marks'
  <1>1. /\ wire' \in Seq(News)
        /\ \A i \in 1..Len(wire') :
              IF i <= Len(wire) THEN wire'[i] = wire[i]
                                ELSE \E k \in 1..Len(fs) : wire'[i] = fs[k]
    BY EmitFacts DEF Typed
  <1>2. Len(wire') \in Nat /\ Len(wire) \in Nat
    BY <1>1, SeqFacts DEF Typed
  <1> SUFFICES ASSUME NEW i \in 1..Len(wire')
               PROVE  /\ wire'[i].type = "connected" => i = 1 /\ link /\ page = "chat"
                      /\ wire'[i].type = "resumed" => link
    BY DEF Marks
  <1>3. CASE i <= Len(wire)
    <2>1. i \in 1..Len(wire)
      BY <1>2, <1>3
    <2>2. wire'[i] = wire[i]
      BY <1>1, <1>3
    <2> QED
      BY <2>1, <2>2 DEF Marks
  <1>4. CASE ~(i <= Len(wire))
    <2>1. \E k \in 1..Len(fs) : wire'[i] = fs[k]
      BY <1>1, <1>4
    <2> QED
      BY <2>1 DEF Starts
  <1> QED
    BY <1>3, <1>4

(* A step of the server that sends frames, and one that sends none. *)
LEMMA ServerSound ==
  ASSUME Sound, session, NEW fs \in Seq(News), Emit(fs),
         \A k \in 1..Len(fs) : ~Starts(fs[k]),
         UNCHANGED <<ui, page, params, pending, link, session, later, rejoins, early>>,
         asked' \in Seq(Requests), members' \in [Channels -> SUBSET People],
         refused' \in BOOLEAN
  PROVE  Sound'
  <1>1. wire' \in Seq(News) /\ lost' \in BOOLEAN
    BY EmitFacts DEF Typed, Sound
  <1>2. Marks'
    BY EmitMarks DEF Sound, Linked
  <1>3. Typed'
    BY <1>1 DEF Sound, Typed
  <1>4. Linked'
    BY <1>2 DEF Sound, Linked
  <1> QED
    BY <1>3, <1>4 DEF Sound, Tidy, Neat, Plain

LEMMA SilentSound ==
  ASSUME Sound, UNCHANGED <<wire, lost>>,
         UNCHANGED <<ui, page, params, pending, link, session, later, rejoins, early>>,
         asked' \in Seq(Requests), members' \in [Channels -> SUBSET People],
         refused' \in BOOLEAN, ~session => asked' = asked /\ Joined' = {}
  PROVE  Sound'
  <1>1. Typed'
    BY DEF Sound, Typed
  <1>2. Linked'
    BY DEF Sound, Linked, Marks
  <1> QED
    BY <1>1, <1>2 DEF Sound, Tidy, Neat, Plain

(* A step of the page and its user. *)
LEMMA PageSound ==
  ASSUME Sound, UNCHANGED <<page, params, link, session, wire, members, history>>,
         ui' \in UI, Neat(ui'), page = "fresh" => Plain(ui') /\ pending' = pending,
         pending' \in Seq(Loads), rejoins' \in SUBSET Channels,
         asked' \in Seq(Requests), later' \in Seq(Requests),
         link => later' = later, ~link => asked' = asked
  PROVE  Sound'
  <1>1. Typed'
    BY DEF Sound, Typed, history
  <1>2. Linked'
    BY DEF Sound, Linked, Marks, Joined
  <1>3. Tidy'
    BY DEF Tidy, Neat, Plain
  <1> QED
    BY <1>1, <1>2, <1>3 DEF Sound

LEMMA JoinedFacts ==
  ASSUME Typed
  PROVE  /\ \A c \in Channels : members[c] \in SUBSET People
         /\ Joined \in SUBSET Channels
         /\ \A c \in Channels : c \in Joined <=> Me \in members[c]
  BY DEF Typed, Joined

LEMMA HeadAsked ==
  ASSUME Typed, asked # <<>>
  PROVE  Head(asked) \in Requests /\ Head(asked).op \in {"join", "part", "names"}
  <1>1. Head(asked) \in Requests
    BY TailFacts DEF Typed
  <1> QED
    BY <1>1 DEF Requests

LEMMA MembersUpdate ==
  ASSUME Typed, NEW c \in Channels, NEW S \in SUBSET People
  PROVE  /\ [members EXCEPT ![c] = S] \in [Channels -> SUBSET People]
         /\ \A d \in Channels : [members EXCEPT ![c] = S][d] = IF d = c THEN S ELSE members[d]
  BY DEF Typed

LEMMA AskedIsSession ==
  ASSUME Sound, asked # <<>> PROVE session
  BY DEF Sound, Linked

LEMMA ServeJoinSound ==
  ASSUME Sound, NEW c \in Channels, ServeJoin(c) PROVE Sound'
  <1>1. session /\ asked' \in Seq(Requests)
    BY AskedIsSession, ServedFacts DEF ServeJoin, Sound, Typed
  <1>2. Me \in People
    BY DEF People
  <1>3. CASE UNCHANGED <<members, wire, lost, refused>>
    <2>1. members' \in [Channels -> SUBSET People] /\ refused' \in BOOLEAN
      BY <1>3 DEF Sound, Typed
    <2> QED
      BY <1>1, <1>3, <2>1, SilentSound DEF ServeJoin
  <1>4. CASE /\ members' = [members EXCEPT ![c] = @ \cup {Me}]
             /\ Emit(<<Frame("join", c, Me), Names(c, members'[c])>>)
             /\ UNCHANGED refused
    <2>1. members' \in [Channels -> SUBSET People]
      BY <1>2, <1>4 DEF Sound, Typed
    <2> DEFINE f == Frame("join", c, Me)
               g == Names(c, members'[c])
    <2>2. f \in News /\ g \in News /\ ~Starts(f) /\ ~Starts(g)
      BY <1>2, <2>1, FrameFacts, NamesFacts DEF Starts
    <2> HIDE DEF f, g
    <2>3. /\ <<f, g>> \in Seq(News)
          /\ \A k \in 1..Len(<<f, g>>) : ~Starts(<<f, g>>[k])
      BY <2>2, TwoFrames
    <2>4. Emit(<<f, g>>) /\ refused' \in BOOLEAN
      BY <1>4 DEF f, g, Sound, Typed
    <2> QED
      BY <1>1, <2>1, <2>3, <2>4, ServerSound DEF ServeJoin
  <1>5. CASE /\ Emit(<<Frame("join_error", c, Me)>>)
             /\ refused' = (refused \/ ui.tab[c] = "open")
             /\ UNCHANGED members
    <2> DEFINE f == Frame("join_error", c, Me)
    <2>1. f \in News /\ ~Starts(f)
      BY <1>2, FrameFacts DEF Starts
    <2>2. Emit(<<f>>) /\ refused' \in BOOLEAN /\ members' \in [Channels -> SUBSET People]
      BY <1>5 DEF Sound, Typed
    <2> HIDE DEF f
    <2>3. <<f>> \in Seq(News) /\ \A k \in 1..Len(<<f>>) : ~Starts(<<f>>[k])
      BY <2>1, OneFrame
    <2> QED
      BY <1>1, <2>2, <2>3, ServerSound DEF ServeJoin
  <1> QED
    BY <1>3, <1>4, <1>5 DEF ServeJoin

(* A step that sends the frame f. *)
LEMMA OneFrameSound ==
  ASSUME Sound, session, NEW f \in News, Emit(<<f>>), ~Starts(f),
         UNCHANGED <<ui, page, params, pending, link, session, later, rejoins, early>>,
         asked' \in Seq(Requests), members' \in [Channels -> SUBSET People],
         refused' = refused
  PROVE  Sound'
  <1>1. <<f>> \in Seq(News) /\ \A k \in 1..Len(<<f>>) : ~Starts(<<f>>[k])
    BY OneFrame
  <1>2. refused' \in BOOLEAN
    BY DEF Sound, Typed
  <1> QED
    BY <1>1, <1>2, ServerSound

LEMMA ServePartSound ==
  ASSUME Sound, NEW c \in Channels, ServePart(c) PROVE Sound'
  <1>1. session /\ asked' \in Seq(Requests)
    BY AskedIsSession, ServedFacts DEF ServePart, Sound, Typed
  <1>2. members' \in [Channels -> SUBSET People] /\ refused' \in BOOLEAN
    BY DEF ServePart, Sound, Typed
  <1>3. CASE c \in Joined
    <2>1. Frame("part", c, Me) \in News /\ ~Starts(Frame("part", c, Me))
      BY FrameFacts DEF People, Starts
    <2> QED
      BY <1>1, <1>2, <1>3, <2>1, OneFrameSound DEF ServePart
  <1>4. CASE c \notin Joined
    BY <1>1, <1>2, <1>4, SilentSound DEF ServePart
  <1> QED
    BY <1>3, <1>4

LEMMA ServeNamesSound ==
  ASSUME Sound, NEW c \in Channels, ServeNames(c) PROVE Sound'
  <1>1. session /\ asked' \in Seq(Requests)
    BY AskedIsSession, ServedFacts DEF ServeNames, Sound, Typed
  <1>2. members' \in [Channels -> SUBSET People]
    BY DEF ServeNames, Sound, Typed
  <1>3. Names(c, members[c]) \in News /\ ~Starts(Names(c, members[c]))
    BY NamesFacts, JoinedFacts DEF Starts, Sound
  <1> QED
    BY <1>1, <1>2, <1>3, OneFrameSound DEF ServeNames

LEMMA KickedSound ==
  ASSUME Sound, NEW c \in Channels, Kicked(c) PROVE Sound'
  <1>1. session /\ asked' \in Seq(Requests)
    BY DEF Kicked, Sound, Typed, Linked, world
  <1>2. members' \in [Channels -> SUBSET People]
    BY DEF Kicked, Sound, Typed
  <1>3. Frame("kick", c, Me) \in News /\ ~Starts(Frame("kick", c, Me))
    BY FrameFacts DEF People, Starts
  <1> QED
    BY <1>1, <1>2, <1>3, OneFrameSound DEF Kicked, world

(* What others do. *)
LEMMA TellSound ==
  ASSUME Sound, UNCHANGED world, NEW S, NEW f \in News, ~Starts(f), Tell(S, f),
         members' \in [Channels -> SUBSET People],
         \A c \in Channels : Me \in members'[c] <=> Me \in members[c]
  PROVE  Sound'
  <1>1. asked' \in Seq(Requests) /\ refused' \in BOOLEAN
    BY DEF Sound, Typed, world
  <1>2. Joined' = Joined
    BY DEF Joined
  <1>3. CASE S \cap Joined # {}
    <2>1. session
      BY <1>3 DEF Sound, Linked
    <2> QED
      BY <1>1, <1>3, <2>1, OneFrameSound DEF Tell, world
  <1>4. CASE ~(S \cap Joined # {})
    <2>1. ~session => asked' = asked /\ Joined' = {}
      BY <1>2 DEF Sound, Linked, world
    <2> QED
      BY <1>1, <1>4, <2>1, SilentSound DEF Tell, world
  <1> QED
    BY <1>3, <1>4

LEMMA OthersSound ==
  ASSUME Sound, NEW p \in Others
  PROVE  /\ \A c \in Channels : OtherJoins(p, c) \/ OtherLeaves(p, c) => Sound'
         /\ OtherQuits(p) => Sound'
         /\ \A q \in Others : OtherRenamed(p, q) => Sound'
  <1>1. p \in People /\ p # Me
    BY OthersFacts
  <1>2. members \in [Channels -> SUBSET People]
    BY DEF Sound, Typed
  <1>3. ASSUME NEW c \in Channels, OtherJoins(p, c) PROVE Sound'
    <2>1. Frame("join", c, p) \in News /\ ~Starts(Frame("join", c, p))
      BY <1>1, FrameFacts DEF Starts
    <2>2. members' \in [Channels -> SUBSET People]
          /\ \A d \in Channels : Me \in members'[d] <=> Me \in members[d]
      BY <1>1, <1>2, <1>3 DEF OtherJoins
    <2> QED
      BY <1>3, <2>1, <2>2, TellSound DEF OtherJoins
  <1>4. ASSUME NEW c \in Channels, OtherLeaves(p, c) PROVE Sound'
    <2>1. Frame("part", c, p) \in News /\ ~Starts(Frame("part", c, p))
      BY <1>1, FrameFacts DEF Starts
    <2>2. members' \in [Channels -> SUBSET People]
          /\ \A d \in Channels : Me \in members'[d] <=> Me \in members[d]
      BY <1>1, <1>2, <1>4 DEF OtherLeaves
    <2> QED
      BY <1>4, <2>1, <2>2, TellSound DEF OtherLeaves
  <1>5. ASSUME OtherQuits(p) PROVE Sound'
    <2> DEFINE f == [type |-> "quit", who |-> p]
    <2>1. f \in News /\ ~Starts(f)
      BY DEF News, Starts
    <2>2. members' \in [Channels -> SUBSET People]
          /\ \A d \in Channels : Me \in members'[d] <=> Me \in members[d]
      BY <1>1, <1>2, <1>5 DEF OtherQuits
    <2>3. Tell({c \in Channels : p \in members[c]}, f) /\ UNCHANGED world
      BY <1>5 DEF OtherQuits
    <2> HIDE DEF f
    <2> QED
      BY <2>1, <2>2, <2>3, TellSound
  <1>6. ASSUME NEW q \in Others, OtherRenamed(p, q) PROVE Sound'
    <2> DEFINE f == [type |-> "nick", who |-> p, new |-> q]
    <2>1. f \in News /\ ~Starts(f)
      BY DEF News, Starts
    <2>2. members' \in [Channels -> SUBSET People]
          /\ \A d \in Channels : Me \in members'[d] <=> Me \in members[d]
      BY <1>1, <1>2, <1>6, OthersFacts DEF OtherRenamed
    <2>3. Tell({c \in Channels : p \in members[c]}, f) /\ UNCHANGED world
      BY <1>6 DEF OtherRenamed
    <2> HIDE DEF f
    <2> QED
      BY <2>1, <2>2, <2>3, TellSound
  <1> QED
    BY <1>3, <1>4, <1>5, <1>6

LEMMA AskedFor ==
  \A o \in {"join", "part", "names"} : \A c \in Channels : Ask(o, {c}) \in Seq(Requests)
  BY AskFacts

LEMMA SoundUI ==
  ASSUME Sound
  PROVE  /\ ui \in UI /\ Neat(ui) /\ ui.active \in Channels \cup {Server, NoTab}
         /\ ui.tab \in [Channels -> {"none", "offline", "open"}]
         /\ ui.nicks \in [Channels -> SUBSET People] /\ ui.saved \in SUBSET Channels
  BY UIFacts DEF Sound, Typed, Tidy

LEMMA SentFacts ==
  ASSUME Sound, NEW ops \in Seq(Requests), send(ops)
  PROVE  /\ asked' \in Seq(Requests) /\ later' \in Seq(Requests)
         /\ link => later' = later
         /\ ~link => asked' = asked
         /\ \A o, c : Has(asked, o, c) => Has(asked', o, c)
         /\ \A o, c : Has(asked, o, c) \/ Has(later, o, c) \/ Has(ops, o, c)
                        => Has(asked', o, c) \/ Has(later', o, c)
  BY SendFacts DEF Sound, Typed

LEMMA Unsent ==
  ASSUME Sound, UNCHANGED <<asked, later>>
  PROVE  asked' \in Seq(Requests) /\ later' \in Seq(Requests)
  BY DEF Sound, Typed

(* The actions of the user and the two continuations, by what they do.      *)
Gentle ==
    /\ UNCHANGED <<page, params, link, session, wire, members, history>>
    /\ ui' \in UI /\ Neat(ui')
    /\ pending' \in Seq(Loads) /\ rejoins' \in SUBSET Channels
    /\ asked' \in Seq(Requests) /\ later' \in Seq(Requests)
    /\ link => later' = later
    /\ ~link => asked' = asked
    /\ \A o, c : Has(asked, o, c) => Has(asked', o, c)
    /\ \A o, c : Has(asked, o, c) \/ Has(later, o, c) => Has(asked', o, c) \/ Has(later', o, c)

LEMMA GentleSound ==
  ASSUME Sound, Gentle, page = "fresh" => Plain(ui') /\ pending' = pending
  PROVE  Sound'
  BY PageSound DEF Gentle

(* An action that sends, or does not, and leaves the rest to ui and rejoins. *)
LEMMA CommandGentle ==
  ASSUME Sound, UNCHANGED <<page, params, pending, link, session, wire, members, history>>,
         ui' \in UI, Neat(ui'), rejoins' \in SUBSET Channels,
         \/ UNCHANGED <<asked, later>>
         \/ \E o \in {"join", "part", "names"} : \E c \in Channels : send(Ask(o, {c}))
  PROVE  Gentle
  <1>1. pending' \in Seq(Loads)
    BY DEF Sound, Typed
  <1>2. CASE UNCHANGED <<asked, later>>
    BY <1>1, <1>2, Unsent DEF Gentle
  <1>3. CASE \E o \in {"join", "part", "names"} : \E c \in Channels : send(Ask(o, {c}))
    BY <1>1, <1>3, AskedFor, SentFacts DEF Gentle
  <1> QED
    BY <1>2, <1>3

LEMMA AlikeNeat ==
  ASSUME NEW u \in UI, Neat(u), NEW v, Alike(u, v) PROVE v \in UI /\ Neat(v)
  BY DEF Alike, Neat

LEMMA EnsureNeat ==
  ASSUME NEW u \in UI, Neat(u), NEW c \in Channels
  PROVE  ensureChannel(u, c) \in UI /\ Neat(ensureChannel(u, c))
  <1>1. /\ ensureChannel(u, c) \in UI
        /\ ensureChannel(u, c).nicks = u.nicks
        /\ ensureChannel(u, c).tab =
              [u.tab EXCEPT ![c] = IF @ = "none" THEN "open" ELSE @]
    BY EnsureShows
  <1>2. u.tab \in [Channels -> {"none", "offline", "open"}]
    BY UIFacts
  <1>3. \A d \in Channels : ensureChannel(u, c).tab[d] = "none" => u.tab[d] = "none"
    BY <1>1, <1>2
  <1> QED
    BY <1>1, <1>3 DEF Neat

LEMMA RemoveNeat ==
  ASSUME NEW u \in UI, Neat(u), NEW c \in Channels, NEW next
  PROVE  LET v == saveChannels(removeChannel(u, c, next))
         IN  /\ v \in UI /\ Neat(v)
             /\ \A d \in Channels : /\ v.tab[d] = IF d = c THEN "none" ELSE u.tab[d]
                                    /\ v.nicks[d] = IF d = c THEN {} ELSE u.nicks[d]
  <1> DEFINE r == removeChannel(u, c, next)
             v == saveChannels(r)
  <1>1. /\ r \in UI /\ r.tab = [u.tab EXCEPT ![c] = "none"]
        /\ r.nicks = [u.nicks EXCEPT ![c] = {}]
    BY RemoveShows
  <1> HIDE DEF r
  <1>2. Alike(r, v)
    BY <1>1, SaveShows
  <1> HIDE DEF v
  <1>3. /\ u.tab \in [Channels -> {"none", "offline", "open"}]
        /\ u.nicks \in [Channels -> SUBSET People]
    BY UIFacts
  <1>4. \A d \in Channels : /\ v.tab[d] = IF d = c THEN "none" ELSE u.tab[d]
                            /\ v.nicks[d] = IF d = c THEN {} ELSE u.nicks[d]
    BY <1>1, <1>2, <1>3 DEF Alike
  <1>5. v \in UI /\ Neat(v)
    BY <1>2, <1>4 DEF Alike, Neat
  <1> QED
    BY <1>4, <1>5 DEF v, r

LEMMA CommandsGentle ==
  ASSUME Sound, NEW c \in Channels
  PROVE  /\ JoinCommand(c) => Gentle /\ page = "chat"
         /\ JoinWithKey(c) => Gentle /\ page = "chat"
         /\ PartCommand(c) => Gentle /\ page = "chat"
         /\ RejoinTimer(c) => Gentle
         /\ \A t : CloseButton(c, t) => Gentle /\ page = "chat"
         /\ RejoinCommand => Gentle /\ page = "chat"
  <1>1. ui \in UI /\ Neat(ui)
    BY SoundUI
  <1>2. rejoins \in SUBSET Channels
    BY DEF Sound, Typed
  <1>3. ASSUME JoinCommand(c) PROVE Gentle /\ page = "chat"
    <2>1. ui' \in UI /\ Neat(ui')
      BY <1>1, <1>3, SetActiveShows, AlikeNeat DEF JoinCommand
    <2> QED
      BY <1>2, <1>3, <2>1, CommandGentle DEF JoinCommand
  <1>4. ASSUME JoinWithKey(c) PROVE Gentle /\ page = "chat"
    <2>1. ui' \in UI /\ Neat(ui')
      BY <1>1, <1>4, EnsureNeat DEF JoinWithKey
    <2> QED
      BY <1>2, <1>4, <2>1, CommandGentle DEF JoinWithKey
  <1>5. ASSUME PartCommand(c) PROVE Gentle /\ page = "chat"
    BY <1>1, <1>2, <1>5, CommandGentle DEF PartCommand
  <1>6. ASSUME RejoinTimer(c) PROVE Gentle
    <2>1. rejoins' \in SUBSET Channels /\ ui' = ui
      BY <1>2, <1>6 DEF RejoinTimer
    <2> QED
      BY <1>1, <1>6, <2>1, CommandGentle DEF RejoinTimer
  <1>7. ASSUME NEW t, CloseButton(c, t) PROVE Gentle /\ page = "chat"
    <2>1. ui' \in UI /\ Neat(ui')
      BY <1>1, <1>7, RemoveNeat DEF CloseButton
    <2> QED
      BY <1>2, <1>7, <2>1, CommandGentle DEF CloseButton
  <1>8. ASSUME RejoinCommand PROVE Gentle /\ page = "chat"
    <2>1. ui.active \in Channels /\ rejoins' \in SUBSET Channels /\ ui' = ui
      BY <1>2, <1>8 DEF RejoinCommand
    <2> QED
      BY <1>1, <1>8, <2>1, CommandGentle DEF RejoinCommand
  <1> QED
    BY <1>3, <1>4, <1>5, <1>6, <1>7, <1>8

Restored(c) == IF c \in ui.saved /\ ui.tab[c] = "none" THEN "offline" ELSE ui.tab[c]

LEMMA PendingFacts ==
  ASSUME Sound, pending # <<>>
  PROVE  /\ Head(pending) \in Loads /\ Tail(pending) \in Seq(Loads) /\ Head(pending) = pending[1]
         /\ Head(pending).op = "resume" => Head(pending).chans \in SUBSET Channels
         /\ Head(pending).op \in {"rejoin", "resume"}
         /\ Len(Tail(pending)) = Len(pending) - 1 /\ Len(pending) \in Nat /\ Len(pending) > 0
         /\ \A i \in 1..(Len(pending) - 1) : Tail(pending)[i] = pending[i + 1]
         /\ page # "fresh"
  <1>1. /\ Head(pending) \in Loads /\ Tail(pending) \in Seq(Loads) /\ Head(pending) = pending[1]
        /\ Len(Tail(pending)) = Len(pending) - 1 /\ Len(pending) \in Nat /\ Len(pending) > 0
        /\ \A i \in 1..(Len(pending) - 1) : Tail(pending)[i] = pending[i + 1]
    BY TailFacts DEF Sound, Typed
  <1>2. /\ Head(pending).op = "resume" => Head(pending).chans \in SUBSET Channels
        /\ Head(pending).op \in {"rejoin", "resume"}
    BY <1>1 DEF Loads
  <1> QED
    BY <1>1, <1>2 DEF Sound, Linked

LEMMA RejoinFacts ==
  ASSUME Sound, Rejoin
  PROVE  /\ Gentle /\ page # "fresh" /\ pending # <<>> /\ pending' = Tail(pending)
         /\ Head(pending).op = "rejoin"
         /\ \A c \in Channels :
              /\ ui'.tab[c] = Restored(c)
              /\ ui'.nicks[c] = IF ui.tab[c] = "open" THEN {} ELSE ui.nicks[c]
              /\ ui.tab[c] = "open" => Has(asked', "join", c) \/ Has(later', "join", c)
  <1> DEFINE u == restoreSavedChannels(ui)
             n == [c \in Channels |-> IF c \in Open(u) THEN {} ELSE u.nicks[c]]
  <1>1. u \in UI /\ u.nicks = ui.nicks /\ \A c \in Channels : u.tab[c] = Restored(c)
    BY SoundUI, RestoreShows DEF Restored
  <1>2. /\ ui' = [u EXCEPT !.nicks = n]
        /\ send(Ask("join", Open(u)))
        /\ UNCHANGED <<page, params, link, session, wire, members, rejoins, history>>
        /\ pending # <<>> /\ pending' = Tail(pending) /\ Head(pending).op = "rejoin"
    BY <1>1 DEF Rejoin, UI
  <1> HIDE DEF u
  <1>3. \A c \in Channels : c \in Open(u) <=> ui.tab[c] = "open"
    BY <1>1 DEF Open, Restored
  <1>4. n \in [Channels -> SUBSET People]
    BY <1>1, SoundUI
  <1>5. \A c \in Channels : n[c] = IF ui.tab[c] = "open" THEN {} ELSE ui.nicks[c]
    BY <1>1, <1>3
  <1>6. ui' \in UI /\ ui'.nicks = n /\ ui'.tab = u.tab
    <2> HIDE DEF n
    <2> QED
      BY <1>1, <1>2, <1>4, UIFacts
  <1> HIDE DEF n
  <1>7. Neat(ui')
    <2>1. \A c \in Channels : Restored(c) = "none" => ui.tab[c] = "none"
      BY DEF Restored
    <2> QED
      BY <1>1, <1>5, <1>6, <2>1, SoundUI DEF Neat
  <1>8. Ask("join", Open(u)) \in Seq(Requests)
        /\ \A c : Has(Ask("join", Open(u)), "join", c) <=> c \in Open(u)
    BY AskFacts DEF Open
  <1>9. Gentle
    <2>1. rejoins' \in SUBSET Channels
      BY <1>2 DEF Sound, Typed
    <2> QED
      BY <1>2, <1>6, <1>7, <1>8, <2>1, SentFacts, PendingFacts DEF Gentle
  <1>10. \A c \in Channels :
            ui.tab[c] = "open" => Has(asked', "join", c) \/ Has(later', "join", c)
    BY <1>2, <1>3, <1>8, SentFacts
  <1> QED
    BY <1>1, <1>2, <1>5, <1>6, <1>9, <1>10, PendingFacts

LEMMA RestoreFacts ==
  ASSUME Sound, Restore
  PROVE  /\ Gentle /\ page # "fresh" /\ pending # <<>> /\ pending' = Tail(pending)
         /\ Head(pending).op = "resume"
         /\ UNCHANGED <<asked, later>>
         /\ \A c \in Channels :
              /\ ui'.tab[c] = IF c \in Head(pending).chans THEN "open" ELSE Restored(c)
              /\ ui'.nicks[c] = ui.nicks[c]
  <1> DEFINE u == restoreSavedChannels(ui)
             S == Head(pending).chans
             t == [c \in Channels |-> IF c \in S THEN "open" ELSE u.tab[c]]
             v == [u EXCEPT !.tab = t]
  <1>1. u \in UI /\ u.nicks = ui.nicks /\ \A c \in Channels : u.tab[c] = Restored(c)
    BY SoundUI, RestoreShows DEF Restored
  <1>2. /\ ui' = setActive(v, Server)
        /\ UNCHANGED <<page, params, link, session, wire, members, asked, later,
                       rejoins, history>>
        /\ pending # <<>> /\ pending' = Tail(pending) /\ Head(pending).op = "resume"
    BY <1>1 DEF Restore, UI
  <1> HIDE DEF u
  <1>3. t \in [Channels -> {"none", "offline", "open"}]
    BY <1>1, UIFacts
  <1>4. \A c \in Channels : t[c] = IF c \in S THEN "open" ELSE Restored(c)
    BY <1>1
  <1>5. v \in UI /\ v.nicks = ui.nicks /\ v.tab = t
    <2> HIDE DEF t
    <2> QED
      BY <1>1, <1>3, UIFacts
  <1> HIDE DEF t, v, S
  <1>6. ui' \in UI /\ ui'.nicks = ui.nicks /\ ui'.tab = t
    BY <1>2, <1>5, SetActiveShows DEF Alike
  <1>7. Neat(ui')
    <2>1. \A c \in Channels : Restored(c) = "none" => ui.tab[c] = "none"
      BY DEF Restored
    <2> QED
      BY <1>4, <1>6, <2>1, SoundUI DEF Neat
  <1>8. Gentle
    <2>1. rejoins' \in SUBSET Channels
      BY <1>2 DEF Sound, Typed
    <2> QED
      BY <1>2, <1>6, <1>7, <2>1, Unsent, PendingFacts DEF Gentle
  <1> QED
    BY <1>2, <1>4, <1>6, <1>8, PendingFacts DEF S

(* The connection. *)
LEMMA GoneFacts ==
  ASSUME Sound, Gone
  PROVE  /\ session' = FALSE /\ asked' = <<>>
         /\ members' \in [Channels -> SUBSET People] /\ Joined' = {}
         /\ \A c \in Channels : members'[c] = members[c] \ {Me}
  BY DEF Sound, Typed, Gone, Joined

LEMMA BlankSound ==
  ASSUME Sound
  PROVE  Blank(ui.saved) \in UI /\ Neat(Blank(ui.saved)) /\ Plain(Blank(ui.saved))
  BY SoundUI, BlankShows

LEMMA LinkDropsSound ==
  ASSUME Sound, LinkDrops PROVE Sound'
  <1>1. lost' \in BOOLEAN
    BY DEF LinkDrops, Sound, Typed
  <1>2. /\ link /\ link' = FALSE /\ wire' = <<>> /\ session /\ page # "form"
        /\ UNCHANGED <<params, pending, later, rejoins, early, refused>>
    BY DEF LinkDrops, Sound, Linked
  <1>3. Marks' /\ wire' \in Seq(News)
    BY <1>2, Empties DEF Marks
  <1>4. CASE Unknown
    <2>1. page' = "form" /\ ui' = Blank(ui.saved) /\ Gone
      BY <1>4 DEF LinkDrops
    <2>2. Typed'
      BY <1>1, <1>2, <1>3, <2>1, GoneFacts, BlankSound, Empties DEF Sound, Typed
    <2>3. Linked'
      BY <1>2, <1>3, <2>1, GoneFacts DEF Linked
    <2>4. Tidy'
      BY <2>1, BlankSound DEF Tidy
    <2> QED
      BY <2>2, <2>3, <2>4 DEF Sound
  <1>5. CASE ~Unknown
    <2>1. UNCHANGED <<ui, page, session, members, asked>>
      BY <1>5 DEF LinkDrops
    <2>2. Typed'
      BY <1>1, <1>2, <1>3, <2>1 DEF Sound, Typed
    <2>3. Linked'
      BY <1>2, <1>3, <2>1 DEF Sound, Linked
    <2>4. Tidy'
      BY <2>1 DEF Sound, Tidy, Neat, Plain
    <2> QED
      BY <2>2, <2>3, <2>4 DEF Sound
  <1> QED
    BY <1>4, <1>5

LEMMA ResumeFacts ==
  ASSUME Sound, Resume
  PROVE  /\ page # "form" /\ ~link /\ session /\ link' = TRUE /\ later' = <<>>
         /\ UNCHANGED <<ui, page, params, pending, session, members, rejoins, early, lost,
                        refused>>
         /\ [type |-> "resumed", list |-> Joined] \in News
         /\ wire' = Append(wire, [type |-> "resumed", list |-> Joined])
         /\ asked' \in Seq(Requests)
         /\ \A o, c : Has(asked', o, c) <=> \/ Has(asked, o, c) \/ Has(later, o, c)
                                            \/ o = "names" /\ c \in Joined
  <1> DEFINE a == Ask("names", Joined)
  <1>1. Joined \in SUBSET Channels
    BY JoinedFacts DEF Sound
  <1>2. a \in Seq(Requests) /\ \A p, c : Has(a, p, c) <=> p = "names" /\ c \in Joined
    BY <1>1, AskFacts
  <1>3. [type |-> "resumed", list |-> Joined] \in News
    BY <1>1 DEF News
  <1>4. asked' = asked \o a \o later
    BY DEF Resume
  <1> HIDE DEF a
  <1>5. asked \o a \in Seq(Requests) /\ asked \in Seq(Requests) /\ later \in Seq(Requests)
    BY <1>2, ConcatFacts DEF Sound, Typed
  <1>6. /\ asked' \in Seq(Requests)
        /\ \A o, c : Has(asked', o, c) <=> Has(asked \o a, o, c) \/ Has(later, o, c)
    BY <1>4, <1>5, ConcatFacts, HasConcat
  <1>7. \A o, c : Has(asked \o a, o, c) <=> Has(asked, o, c) \/ Has(a, o, c)
    BY <1>2, <1>5, HasConcat
  <1> QED
    BY <1>2, <1>3, <1>6, <1>7 DEF Resume, history

LEMMA ResumeSound ==
  ASSUME Sound, Resume PROVE Sound'
  <1> DEFINE f == [type |-> "resumed", list |-> Joined]
  <1>1. f.type = "resumed"
    OBVIOUS
  <1>2. f \in News /\ wire' = Append(wire, f)
    BY ResumeFacts
  <1> HIDE DEF f
  <1>3. /\ wire' \in Seq(News) /\ Len(wire') = Len(wire) + 1 /\ Len(wire) \in Nat
        /\ \A i \in 1..Len(wire) : wire'[i] = wire[i]
        /\ wire'[Len(wire) + 1] = f
    BY <1>2, AppendFacts, SeqFacts DEF Sound, Typed
  <1>4. link' = TRUE /\ page' = page /\ ~link
    BY ResumeFacts
  <1>5. Marks'
    <2> SUFFICES ASSUME NEW i \in 1..Len(wire')
                 PROVE  /\ wire'[i].type = "connected" => i = 1 /\ link' /\ page' = "chat"
                        /\ wire'[i].type = "resumed" => link'
      BY DEF Marks
    <2>1. CASE i \in 1..Len(wire)
      <3>1. wire[i].type # "connected"
        BY <1>4, <2>1 DEF Sound, Linked, Marks
      <3> QED
        BY <1>3, <1>4, <2>1, <3>1
    <2>2. CASE i \notin 1..Len(wire)
      <3>1. i = Len(wire) + 1
        BY <1>3, <2>2
      <3>2. wire'[i] = f
        BY <1>3, <3>1
      <3>3. wire'[i].type = "resumed"
        BY <1>1, <3>2, Zenon
      <3> QED
        BY <1>4, <3>3
    <2> QED
      BY <2>1, <2>2
  <1>6. Typed'
    BY <1>3, <1>4, ResumeFacts, Empties DEF Sound, Typed
  <1>7. Linked'
    BY <1>4, <1>5, ResumeFacts DEF Sound, Linked
  <1>8. Tidy'
    BY ResumeFacts DEF Sound, Tidy, Neat, Plain
  <1> QED
    BY <1>6, <1>7, <1>8 DEF Sound

LEMMA NoFrames ==
  ASSUME wire' = <<>> PROVE wire' \in Seq(News) /\ Marks'
  BY Empties DEF Marks

LEMMA ExpireSound ==
  ASSUME Sound, Expire PROVE Sound'
  <1>1. /\ ~link /\ session /\ Gone /\ wire' = <<>>
        /\ UNCHANGED <<ui, page, params, pending, link, later, rejoins, early, lost, refused>>
    BY DEF Expire, history
  <1>2. Typed'
    BY <1>1, NoFrames, GoneFacts, Empties DEF Sound, Typed
  <1>3. Linked'
    BY <1>1, NoFrames, GoneFacts DEF Sound, Linked
  <1>4. Tidy'
    BY <1>1 DEF Sound, Tidy, Neat, Plain
  <1> QED
    BY <1>2, <1>3, <1>4 DEF Sound

LEMMA ConnectsFacts ==
  ASSUME Connects
  PROVE  /\ link' = TRUE /\ session' = TRUE /\ asked' = <<>> /\ later' = <<>>
         /\ wire' = <<[type |-> "connected"]>> /\ wire' \in Seq(News) /\ Len(wire') = 1
         /\ wire'[1].type = "connected"
  <1> DEFINE f == [type |-> "connected"]
  <1>1. f \in News /\ f.type = "connected"
    BY DEF News
  <1>2. link' = TRUE /\ session' = TRUE /\ asked' = <<>> /\ later' = <<>> /\ wire' = <<f>>
    BY DEF Connects
  <1> HIDE DEF f
  <1>3. wire' \in Seq(News) /\ Len(wire') = 1 /\ wire'[1].type = "connected"
    BY <1>1, <1>2, OneFrame
  <1> QED
    BY <1>2, <1>3 DEF f

LEMMA ConnectsMarks ==
  ASSUME Connects, page' = "chat" PROVE Marks'
  <1>1. Len(wire') = 1 /\ wire'[1].type = "connected" /\ link' = TRUE
    BY ConnectsFacts
  <1>2. \A i \in 1..Len(wire') : i = 1
    BY <1>1
  <1> QED
    BY <1>1, <1>2 DEF Marks

LEMMA ExpiredSound ==
  ASSUME Sound, Expired PROVE Sound'
  <1>1. /\ page # "form" /\ ~link /\ ~session
        /\ UNCHANGED <<params, pending, members, rejoins, early, lost, refused>>
    BY DEF Expired, history
  <1>2. CASE params
    <2>1. Connects /\ UNCHANGED <<ui, page>> /\ page = "chat"
      BY <1>1, <1>2 DEF Expired, Sound, Linked, Typed
    <2>2. Typed'
      BY <1>1, <2>1, ConnectsFacts, Empties DEF Sound, Typed
    <2>3. Linked'
      BY <1>1, <2>1, ConnectsFacts, ConnectsMarks DEF Sound, Linked
    <2>4. Tidy'
      BY <2>1 DEF Sound, Tidy, Neat, Plain
    <2> QED
      BY <2>2, <2>3, <2>4 DEF Sound
  <1>3. CASE ~params
    <2>1. /\ page' = "form" /\ ui' = Blank(ui.saved)
          /\ UNCHANGED <<link, session, wire, asked, later>>
      BY <1>3 DEF Expired
    <2>2. Typed'
      BY <1>1, <2>1, BlankSound DEF Sound, Typed
    <2>3. Linked'
      <3>1. wire' = <<>> /\ Joined' = Joined /\ asked' = <<>> /\ Joined = {}
        BY <1>1, <2>1 DEF Sound, Linked, Joined
      <3> QED
        BY <1>1, <2>1, <3>1, NoFrames DEF Linked
    <2>4. Tidy'
      BY <2>1, BlankSound DEF Tidy
    <2> QED
      BY <2>2, <2>3, <2>4 DEF Sound
  <1> QED
    BY <1>2, <1>3

LEMMA SubmitSound ==
  ASSUME Sound, Submit PROVE Sound'
  <1>1. /\ page = "form" /\ page' = "chat" /\ params' = TRUE /\ Connects
        /\ UNCHANGED <<pending, members, rejoins, early, lost, refused>>
    BY DEF Submit, history
  <1>2. ui' \in UI /\ Neat(ui')
    BY SoundUI, SetActiveShows, AlikeNeat DEF Submit
  <1>3. Typed'
    BY <1>1, <1>2, ConnectsFacts, Empties DEF Sound, Typed
  <1>4. Linked'
    BY <1>1, ConnectsFacts, ConnectsMarks DEF Sound, Linked
  <1>5. Tidy'
    BY <1>1, <1>2 DEF Tidy
  <1> QED
    BY <1>3, <1>4, <1>5 DEF Sound

LEMMA ReloadFacts ==
  ASSUME Sound, Reload
  PROVE  /\ page # "form" /\ params' = FALSE /\ pending' = <<>> /\ later' = <<>>
         /\ ui' = Blank(ui.saved) /\ link' = FALSE /\ rejoins' = {}
         /\ early' = FALSE /\ refused' = FALSE /\ lost' \in BOOLEAN
         /\ ~lost' => ~lost \/ link \/ wire = <<>>
         /\ link => wire' = <<>>
         /\ ~link => wire' = wire
         /\ Unknown => link /\ page' = "form" /\ Gone
         /\ ~Unknown => page' = "fresh" /\ UNCHANGED <<session, members, asked>>
  <1>1. lost' \in BOOLEAN
    BY DEF Reload, Sound, Typed
  <1>2. Unknown => link
    <2>1. wire \in Seq(News) /\ DOMAIN wire = 1..Len(wire)
      BY SeqFacts DEF Sound, Typed
    <2> QED
      BY <2>1 DEF Unknown, Sound, Linked, Marks
  <1> QED
    BY <1>1, <1>2 DEF Reload

LEMMA ReloadSound ==
  ASSUME Sound, Reload PROVE Sound'
  <1>1. ui' \in UI /\ Neat(ui') /\ Plain(ui')
    BY BlankSound, ReloadFacts
  <1>2. /\ params' = FALSE /\ pending' = <<>> /\ later' = <<>> /\ link' = FALSE
        /\ rejoins' = {} /\ early' = FALSE /\ refused' = FALSE /\ lost' \in BOOLEAN
    BY ReloadFacts
  <1>3. wire' \in Seq(News) /\ Marks'
    <2>1. CASE link
      BY <2>1, ReloadFacts, NoFrames
    <2>2. CASE ~link
      <3>1. wire' = wire
        BY <2>2, ReloadFacts
      <3>2. \A i \in 1..Len(wire) : wire[i].type # "connected" /\ wire[i].type # "resumed"
        BY <2>2 DEF Sound, Linked, Marks
      <3> QED
        BY <3>1, <3>2 DEF Sound, Typed, Marks
    <2> QED
      BY <2>1, <2>2
  <1>4. Tidy'
    BY <1>1 DEF Tidy
  <1>5. CASE Unknown
    <2>1. Gone /\ page' = "form" /\ link
      BY <1>5, ReloadFacts
    <2>2. Typed'
      BY <1>1, <1>2, <1>3, <2>1, GoneFacts, Empties DEF Typed
    <2>3. Linked'
      <3>1. wire' = <<>> /\ asked' = <<>> /\ Joined' = {} /\ session' = FALSE
        BY <2>1, GoneFacts, ReloadFacts
      <3> QED
        BY <1>2, <1>3, <2>1, <3>1 DEF Linked
    <2> QED
      BY <1>4, <2>2, <2>3 DEF Sound
  <1>6. CASE ~Unknown
    <2>1. page' = "fresh" /\ UNCHANGED <<session, members, asked>>
      BY <1>6, ReloadFacts
    <2>2. Typed'
      BY <1>1, <1>2, <1>3, <2>1, Empties DEF Sound, Typed
    <2>3. Linked'
      <3>1. ~session => wire' = <<>> /\ asked = <<>> /\ Joined = {}
        BY ReloadFacts DEF Sound, Linked, Typed
      <3>2. Joined' = Joined
        BY <2>1 DEF Joined
      <3> QED
        BY <1>2, <1>3, <2>1, <3>1, <3>2 DEF Linked
    <2> QED
      BY <1>4, <2>2, <2>3 DEF Sound
  <1> QED
    BY <1>5, <1>6

(* The frame that is handled. *)
LEMMA HandleFacts ==
  ASSUME Sound, NEW next, Handle(next)
  PROVE  /\ link /\ Head(wire) \in News /\ Head(wire) = wire[1] /\ wire' = Tail(wire)
         /\ wire' \in Seq(News) /\ Len(wire') = Len(wire) - 1
         /\ Len(wire) \in Nat /\ Len(wire) > 0
         /\ \A i \in 1..(Len(wire) - 1) : wire'[i] = wire[i + 1]
         /\ Handled(ui, Head(wire), ui')
         /\ Head(wire).type = "connected" => pending' = Append(pending, [op |-> "rejoin"])
         /\ Head(wire).type = "resumed" =>
              pending' = Append(pending, [op |-> "resume", chans |-> Head(wire).list])
         /\ Head(wire).type \notin {"connected", "resumed"} => pending' = pending
         /\ pending' \in Seq(Loads)
         /\ page' = IF Head(wire).type = "resumed" THEN "chat" ELSE page
         /\ early' \in BOOLEAN
         /\ ~early' => ~early /\ ~Early(Head(wire))
         /\ UNCHANGED <<params, link, session, asked, later, members, rejoins, lost, refused>>
  <1> DEFINE f == Head(wire)
  <1>1. /\ link /\ wire # <<>> /\ wire' = Tail(wire)
        /\ UNCHANGED <<params, link, session, asked, later, members, rejoins, lost, refused>>
        /\ ui' = Tabs(ui, f, next)
        /\ early' = (early \/ Early(f))
        /\ page' = IF f.type = "resumed" THEN "chat" ELSE page
        /\ pending' = IF f.type = "connected" THEN Append(pending, [op |-> "rejoin"])
                      ELSE IF f.type = "resumed"
                           THEN Append(pending, [op |-> "resume", chans |-> f.list])
                      ELSE pending
    BY DEF Handle
  <1>2. /\ f \in News /\ f = wire[1] /\ Tail(wire) \in Seq(News)
        /\ Len(Tail(wire)) = Len(wire) - 1 /\ Len(wire) \in Nat /\ Len(wire) > 0
        /\ \A i \in 1..(Len(wire) - 1) : Tail(wire)[i] = wire[i + 1]
    BY <1>1, TailFacts DEF Sound, Typed
  <1>3. Handled(ui, f, ui')
    BY <1>1, <1>2, TabsShow, SoundUI
  <1>4. pending' \in Seq(Loads)
    <2>1. pending \in Seq(Loads)
      BY DEF Sound, Typed
    <2>2. CASE f.type = "connected"
      <3>1. [op |-> "rejoin"] \in Loads
        BY DEF Loads
      <3> QED
        BY <1>1, <2>1, <2>2, <3>1, AppendFacts
    <2>3. CASE f.type = "resumed"
      <3>1. [op |-> "resume", chans |-> f.list] \in Loads
        BY <1>2, <2>3, NewsFacts DEF Loads
      <3> QED
        BY <1>1, <2>1, <2>3, <3>1, AppendFacts
    <2> QED
      BY <1>1, <2>1, <2>2, <2>3
  <1>5. early' \in BOOLEAN /\ (~early' => ~early /\ ~Early(f))
    BY <1>1, Zenon
  <1> HIDE DEF f
  <1> QED
    BY <1>1, <1>2, <1>3, <1>4, <1>5 DEF f

LEMMA HandleSound ==
  ASSUME Sound, NEW next, Handle(next) PROVE Sound'
  <1> DEFINE f == Head(wire)
  <1>1. ui' \in UI /\ Neat(ui') /\ (Plain(ui) => Plain(ui'))
    BY HandleFacts, HandledNeat, SoundUI DEF Handled
  <1>2. page' \in {"form", "chat", "fresh"}
    BY HandleFacts DEF Sound, Typed
  <1>3. Typed'
    <2>1. /\ wire' \in Seq(News) /\ pending' \in Seq(Loads) /\ early' \in BOOLEAN
          /\ UNCHANGED <<params, link, session, asked, later, members, rejoins, lost, refused>>
      BY HandleFacts
    <2> QED
      BY <1>1, <1>2, <2>1 DEF Sound, Typed
  <1>4. page' # "form" \/ page' = page
    BY HandleFacts
  <1>5. Joined' = Joined /\ session
    BY HandleFacts DEF Joined, Sound, Linked
  <1>6. page' = "fresh" => page = "fresh" /\ f.type # "resumed"
    BY HandleFacts
  <1>7. page = "fresh" => f.type # "connected"
    <2>1. f = wire[1] /\ 1 \in 1..Len(wire)
      BY HandleFacts
    <2> QED
      BY <2>1 DEF Sound, Linked, Marks
  <1>8. Marks'
    <2> SUFFICES ASSUME NEW i \in 1..Len(wire')
                 PROVE  /\ wire'[i].type = "connected" => i = 1 /\ link' /\ page' = "chat"
                        /\ wire'[i].type = "resumed" => link'
      BY DEF Marks
    <2>1. i + 1 \in 1..Len(wire) /\ wire'[i] = wire[i + 1] /\ i + 1 # 1
      BY HandleFacts
    <2>2. wire[i + 1].type # "connected"
      BY <2>1 DEF Sound, Linked, Marks
    <2>3. wire[i + 1].type = "resumed" => link
      BY <2>1 DEF Sound, Linked, Marks
    <2> QED
      BY <2>1, <2>2, <2>3, HandleFacts
  <1>9. page' = "fresh" => pending' = <<>> /\ ~params'
    <2>1. f.type \notin {"connected", "resumed"} => pending' = pending
      BY HandleFacts
    <2> QED
      BY <1>6, <1>7, <2>1, HandleFacts DEF Sound, Linked
  <1>10. Linked'
    BY <1>4, <1>5, <1>8, <1>9, HandleFacts DEF Sound, Linked
  <1>11. Tidy'
    BY <1>1, <1>6 DEF Sound, Tidy
  <1> QED
    BY <1>3, <1>10, <1>11 DEF Sound

LEMMA InitIsSound == Init => Sound
  <1> SUFFICES ASSUME Init PROVE Sound
    OBVIOUS
  <1>1. ui \in UI /\ Neat(ui) /\ ui = Blank({})
    BY BlankShows DEF Init
  <1>2. /\ members \in [Channels -> SUBSET People]
        /\ Joined = {}
    BY ChannelsAssumption DEF Init, People, Joined
  <1>3. Typed
    BY <1>1, <1>2, Empties DEF Init, Typed
  <1>4. Linked
    BY <1>2, Empties DEF Init, Linked, Marks
  <1> QED
    BY <1>1, <1>3, <1>4 DEF Sound, Tidy, Init

LEMMA NextIsSound ==
  ASSUME Sound, Next PROVE Sound'
  <1>1. ASSUME NEW c \in Channels, \/ JoinCommand(c) \/ JoinWithKey(c) \/ PartCommand(c)
                                   \/ RejoinTimer(c) \/ \E t : CloseButton(c, t)
                                   \/ RejoinCommand
        PROVE  Sound'
    <2>1. Gentle
      BY <1>1, CommandsGentle
    <2>2. page # "chat" => UNCHANGED <<ui, pending>>
      BY <1>1, CommandsGentle DEF RejoinTimer
    <2>3. page = "fresh" => Plain(ui') /\ pending' = pending
      BY <2>2 DEF Sound, Tidy, Plain
    <2> QED
      BY <2>1, <2>3, GentleSound
  <1>2. CASE RejoinCommand
    BY <1>1, <1>2 DEF RejoinCommand
  <1>3. CASE Rejoin \/ Restore
    BY <1>3, RejoinFacts, RestoreFacts, GentleSound
  <1>4. CASE LinkDrops \/ Resume \/ Expire \/ Expired \/ Submit \/ Reload
    BY <1>4, LinkDropsSound, ResumeSound, ExpireSound, ExpiredSound, SubmitSound, ReloadSound
  <1>5. ASSUME NEW t \in Nexts, Handle(t) PROVE Sound'
    BY <1>5, HandleSound
  <1>6. ASSUME NEW c \in Channels,
               ServeJoin(c) \/ ServePart(c) \/ ServeNames(c) \/ Kicked(c)
        PROVE  Sound'
    BY <1>6, ServeJoinSound, ServePartSound, ServeNamesSound, KickedSound
  <1>7. ASSUME NEW p \in Others,
               \/ \E c \in Channels : OtherJoins(p, c) \/ OtherLeaves(p, c)
               \/ OtherQuits(p) \/ \E q \in Others : OtherRenamed(p, q)
        PROVE  Sound'
    BY <1>7, OthersSound
  <1> QED
    BY <1>1, <1>2, <1>3, <1>4, <1>5, <1>6, <1>7 DEF Next
-----------------------------------------------------------------------------
(* Views and paths.                                                         *)

LEMMA ViewFacts ==
  /\ Out \in View /\ Out.in = FALSE /\ Out.who = {}
  /\ \A S \in SUBSET People : In(S) \in View /\ In(S).in = TRUE /\ In(S).who = S
  BY DEF Out, In, View

LEMMA TruthFacts ==
  ASSUME Typed, NEW c \in Channels
  PROVE  Truth(c) \in View /\ (Truth(c).in <=> Me \in members[c])
  <1>1. members[c] \in SUBSET People
    BY DEF Typed
  <1>2. CASE Me \in members[c]
    BY <1>1, <1>2, ViewFacts DEF Truth
  <1>3. CASE Me \notin members[c]
    BY <1>3, ViewFacts DEF Truth
  <1> QED
    BY <1>2, <1>3

LEMMA PathEmpty ==
  ASSUME NEW c, NEW q, Len(q) = 0, NEW t \in View
  PROVE  \E M : Path(c, q, t, M) /\ M[1] = t
  <1> DEFINE M == [i \in 1..(Len(q) + 1) |-> t]
  <1>1. Path(c, q, t, M) /\ M[1] = t
    BY DEF Path
  <1> QED
    BY <1>1

(* One more frame leads one view further. *)
LEMMA PathAppend ==
  ASSUME NEW c, NEW q \in Seq(News), NEW r \in Seq(News), NEW f,
         Len(r) = Len(q) + 1, \A i \in 1..Len(q) : r[i] = q[i], r[Len(q) + 1] = f,
         NEW t, NEW w \in View, NEW M, Path(c, q, t, M),
         Leads(c, t, f, w), w.in => t.in \/ OwnJoin(c, f)
  PROVE  \E N : Path(c, r, w, N) /\ N[1] = M[1]
  <1> DEFINE n == Len(q)
             N == [i \in 1..(n + 2) |-> IF i <= n + 1 THEN M[i] ELSE w]
  <1>1. n \in Nat /\ Len(r) = n + 1
    OBVIOUS
  <1>2. /\ M \in [1..(n + 1) -> View] /\ M[n + 1] = t
        /\ \A i \in 1..n : Leads(c, M[i], q[i], M[i + 1])
        /\ \A i \in 1..(n + 1) : ~M[i].in /\ t.in => \E j \in 1..n : j >= i /\ OwnJoin(c, q[j])
    BY DEF Path
  <1> HIDE DEF n
  <1>3. /\ N \in [1..(Len(r) + 1) -> View] /\ N[Len(r) + 1] = w /\ N[1] = M[1]
        /\ \A i \in 1..(n + 1) : N[i] = M[i]
    BY <1>1, <1>2
  <1> HIDE DEF N
  <1>4. ASSUME NEW i \in 1..Len(r) PROVE Leads(c, N[i], r[i], N[i + 1])
    <2>1. CASE i \in 1..n
      <3>1. N[i] = M[i] /\ N[i + 1] = M[i + 1] /\ r[i] = q[i]
        BY <1>1, <1>3, <2>1 DEF n
      <3> QED
        BY <1>2, <2>1, <3>1
    <2>2. CASE i \notin 1..n
      <3>1. i = n + 1
        BY <1>1, <2>2
      <3>2. N[i] = t /\ N[i + 1] = w /\ r[i] = f
        BY <1>1, <1>2, <1>3, <3>1 DEF n
      <3> QED
        BY <3>2
    <2> QED
      BY <2>1, <2>2
  <1>5. ASSUME NEW i \in 1..(Len(r) + 1), ~N[i].in, w.in
        PROVE  \E j \in 1..Len(r) : j >= i /\ OwnJoin(c, r[j])
    <2>1. i # Len(r) + 1
      BY <1>3, <1>5
    <2>2. i \in 1..(n + 1) /\ ~M[i].in
      BY <1>1, <1>3, <1>5, <2>1
    <2>3. CASE OwnJoin(c, f)
      <3>1. n + 1 \in 1..Len(r) /\ n + 1 >= i /\ r[n + 1] = f
        BY <1>1, <2>2 DEF n
      <3> QED
        BY <2>3, <3>1
    <2>4. CASE t.in
      <3>1. PICK j \in 1..n : j >= i /\ OwnJoin(c, q[j])
        BY <1>2, <2>2, <2>4
      <3>2. j \in 1..Len(r) /\ r[j] = q[j]
        BY <1>1 DEF n
      <3> QED
        BY <3>1, <3>2
    <2> QED
      BY <1>5, <2>3, <2>4
  <1>6. Path(c, r, w, N)
    BY <1>3, <1>4, <1>5 DEF Path
  <1> QED
    BY <1>3, <1>6

(* Without its first frame a path begins at its second view. *)
LEMMA PathTail ==
  ASSUME NEW c, NEW q \in Seq(News), NEW r \in Seq(News), Len(q) > 0,
         Len(r) = Len(q) - 1, \A i \in 1..(Len(q) - 1) : r[i] = q[i + 1],
         NEW t, NEW M, Path(c, q, t, M)
  PROVE  \E N : Path(c, r, t, N) /\ N[1] = M[2]
  <1> DEFINE n == Len(q)
             N == [i \in 1..n |-> M[i + 1]]
  <1>1. n \in Nat /\ n > 0 /\ Len(r) = n - 1
    OBVIOUS
  <1>2. /\ M \in [1..(n + 1) -> View] /\ M[n + 1] = t
        /\ \A i \in 1..n : Leads(c, M[i], q[i], M[i + 1])
        /\ \A i \in 1..(n + 1) : ~M[i].in /\ t.in => \E j \in 1..n : j >= i /\ OwnJoin(c, q[j])
    BY DEF Path
  <1> HIDE DEF n
  <1>3. /\ N \in [1..(Len(r) + 1) -> View] /\ N[Len(r) + 1] = t /\ N[1] = M[2]
        /\ \A i \in 1..n : N[i] = M[i + 1]
    BY <1>1, <1>2
  <1> HIDE DEF N
  <1>4. ASSUME NEW i \in 1..Len(r) PROVE Leads(c, N[i], r[i], N[i + 1])
    <2>1. i + 1 \in 1..n /\ r[i] = q[i + 1]
      BY <1>1 DEF n
    <2>2. N[i] = M[i + 1] /\ N[i + 1] = M[i + 1 + 1]
      BY <1>1, <1>3, <2>1
    <2> QED
      BY <1>2, <2>1, <2>2
  <1>5. ASSUME NEW i \in 1..(Len(r) + 1), ~N[i].in, t.in
        PROVE  \E j \in 1..Len(r) : j >= i /\ OwnJoin(c, r[j])
    <2>1. i + 1 \in 1..(n + 1) /\ ~M[i + 1].in
      BY <1>1, <1>3, <1>5
    <2>2. PICK j \in 1..n : j >= i + 1 /\ OwnJoin(c, q[j])
      BY <1>2, <1>5, <2>1
    <2>3. j - 1 \in 1..Len(r) /\ j - 1 >= i /\ j = (j - 1) + 1
      BY <1>1, <2>2
    <2>4. r[j - 1] = q[j]
      BY <1>1, <2>2, <2>3 DEF n
    <2> QED
      BY <2>2, <2>3, <2>4
  <1>6. Path(c, r, t, N)
    BY <1>3, <1>4, <1>5 DEF Path
  <1> QED
    BY <1>3, <1>6

(* What Leads says of a frame, by its type. *)
LEMMA LeadsFacts ==
  ASSUME NEW c, NEW v \in View, NEW f, NEW w
  PROVE  /\ OwnJoin(c, f) => (Leads(c, v, f, w) <=> w = In({}))
         /\ f.type = "join" /\ f.chan = c /\ f.who # Me =>
              (Leads(c, v, f, w) <=> v.in /\ w = In(v.who \cup {f.who}))
         /\ f.type \in {"part", "kick"} /\ f.chan = c /\ f.who = Me =>
              (Leads(c, v, f, w) <=> w = Out)
         /\ f.type \in {"part", "kick"} /\ f.chan = c /\ f.who # Me =>
              (Leads(c, v, f, w) <=> w = [in |-> v.in, who |-> v.who \ {f.who}])
         /\ f.type = "quit" =>
              (Leads(c, v, f, w) <=> w = [in |-> v.in, who |-> v.who \ {f.who}])
         /\ f.type = "nick" =>
              (Leads(c, v, f, w) <=>
                 w = [in |-> v.in, who |-> IF f.who \in v.who
                                           THEN (v.who \ {f.who}) \cup {f.new} ELSE v.who])
         /\ NamesOf(c, f) => (Leads(c, v, f, w) <=> w = IF v.in THEN In(f.list) ELSE v)
         /\ f.type = "resumed" => (Leads(c, v, f, w) <=> w = v /\ (c \in f.list <=> v.in))
         /\ f.type = "connected" => (Leads(c, v, f, w) <=> w = v /\ ~v.in)
         /\ f.type = "join_error" => (Leads(c, v, f, w) <=> w = v)
         /\ f.type \in {"join", "part", "kick", "names"} /\ f.chan # c =>
              (Leads(c, v, f, w) <=> w = v)
  <1>1. \A S : [v EXCEPT !.who = S] = [in |-> v.in, who |-> S]
    BY DEF View
  <1> QED
    BY <1>1 DEF Leads, OwnJoin, NamesOf

LEMMA LeadsSame ==
  ASSUME NEW c, NEW v \in View, NEW f,
         \/ f.type = "join_error"
         \/ f.type \in {"join", "part", "kick", "names"} /\ f.chan # c
         \/ f.type = "resumed" /\ (c \in f.list <=> v.in)
         \/ NamesOf(c, f) /\ v = IF v.in THEN In(f.list) ELSE v
  PROVE  Leads(c, v, f, v)
  BY LeadsFacts

LEMMA LeadsOn ==
  ASSUME NEW c, NEW v \in View, NEW f
  PROVE  /\ OwnJoin(c, f) => Leads(c, v, f, In({}))
         /\ NamesOf(c, f) /\ v.in => Leads(c, v, f, In(f.list))
         /\ f.type \in {"part", "kick"} /\ f.chan = c /\ f.who = Me => Leads(c, v, f, Out)
  BY DEF Leads, OwnJoin, NamesOf

LEMMA LeadsJoin ==
  ASSUME NEW c, NEW v \in View, NEW f, f.type = "join", f.chan = c, f.who # Me, v.in,
         NEW w, w = In(v.who \cup {f.who})
  PROVE  Leads(c, v, f, w)
  BY DEF Leads

LEMMA LeadsLess ==
  ASSUME NEW c, NEW v \in View, NEW f, NEW w, w = [in |-> v.in, who |-> v.who \ {f.who}],
         f.type \in {"part", "kick"}, f.chan = c, f.who # Me
  PROVE  Leads(c, v, f, w)
  <1>1. \A S : [v EXCEPT !.who = S] = [in |-> v.in, who |-> S]
    BY DEF View
  <1> QED
    BY <1>1 DEF Leads

LEMMA LeadsQuit ==
  ASSUME NEW c, NEW v \in View, NEW f, f.type = "quit", NEW w,
         w = [in |-> v.in, who |-> v.who \ {f.who}]
  PROVE  Leads(c, v, f, w)
  <1>1. \A S : [v EXCEPT !.who = S] = [in |-> v.in, who |-> S]
    BY DEF View
  <1> QED
    BY <1>1 DEF Leads

LEMMA LeadsNick ==
  ASSUME NEW c, NEW v \in View, NEW f, f.type = "nick", NEW w,
         w = [in |-> v.in, who |-> IF f.who \in v.who THEN (v.who \ {f.who}) \cup {f.new}
                                                      ELSE v.who]
  PROVE  Leads(c, v, f, w)
  <1>1. \A S : [v EXCEPT !.who = S] = [in |-> v.in, who |-> S]
    BY DEF View
  <1> QED
    BY <1>1 DEF Leads

LEMMA LeadsOwn ==
  ASSUME NEW c, NEW v \in View, NEW f, NEW w, Leads(c, v, f, w),
         f.type \in {"join", "part", "kick"}, f.chan = c, f.who = Me
  PROVE  w = IF f.type = "join" THEN In({}) ELSE Out
  BY DEF Leads

(* What a frame that does not concern the user makes of a view. *)
Changes(c, v, f, w) ==
    /\ w.in <=> v.in
    /\ f.type = "join" /\ f.chan = c => v.in /\ w.who = v.who \cup {f.who}
    /\ f.type \in {"part", "kick"} /\ f.chan = c => w.who = v.who \ {f.who}
    /\ f.type = "quit" => w.who = v.who \ {f.who}
    /\ f.type = "nick" =>
         w.who = IF f.who \in v.who THEN (v.who \ {f.who}) \cup {f.new} ELSE v.who
    /\ NamesOf(c, f) /\ v.in => w.who = f.list
    /\ f.type \in {"join", "part", "kick", "names"} /\ f.chan # c => w.who = v.who
    /\ f.type = "join_error" => w.who = v.who

LEMMA LeadsOther ==
  ASSUME NEW c, NEW v \in View, NEW f \in News, NEW w \in View, Leads(c, v, f, w), ~Starts(f),
         ~(f.type \in {"join", "part", "kick"} /\ f.chan = c /\ f.who = Me)
  PROVE  Changes(c, v, f, w)
  <1>1. \A S : [v EXCEPT !.who = S] = [in |-> v.in, who |-> S]
    BY DEF View
  <1>2. f.type \in {"join", "part", "kick", "join_error", "names", "quit", "nick"}
    BY NewsFacts DEF Starts
  <1>3. CASE f.type = "join"
    BY <1>3 DEF Changes, Leads, In, NamesOf
  <1>4. CASE f.type \in {"part", "kick"}
    BY <1>1, <1>4 DEF Changes, Leads, NamesOf
  <1>5. CASE f.type \in {"quit", "nick"}
    BY <1>1, <1>5 DEF Changes, Leads, NamesOf
  <1>6. CASE f.type = "names"
    BY <1>6 DEF Changes, Leads, In, NamesOf
  <1>7. CASE f.type = "join_error"
    BY <1>7 DEF Changes, Leads, NamesOf
  <1> QED
    BY <1>2, <1>3, <1>4, <1>5, <1>6, <1>7
-----------------------------------------------------------------------------
(* Faithful is preserved: first by the steps of the page and its user.      *)

LEMMA FollowsNext ==
  ASSUME NEW c, NEW M, Path(c, wire', Truth(c)', M),
         ~early' /\ page' # "form" => Shows(c, M[1])'
  PROVE  Follows(c)'
  BY DEF Follows

LEMMA AnnouncedGentle ==
  ASSUME NEW c, Announced(c), wire' = wire, Has(asked, "names", c) => Has(asked', "names", c)
  PROVE  Announced(c)'
  BY DEF Announced

(* A step that may change what is shown of c, but not the frames. *)
LEMMA FollowsGentle ==
  ASSUME NEW c, Follows(c), Gentle, \A v : page # "form" /\ Shows(c, v) => Shows(c, v)'
  PROVE  Follows(c)'
  <1>1. PICK M : Path(c, wire, Truth(c), M) /\ (~early /\ page # "form" => Shows(c, M[1]))
    BY DEF Follows
  <1>2. wire' = wire /\ Truth(c)' = Truth(c) /\ early' = early /\ page' = page
    BY DEF Gentle, history, Truth
  <1>3. ~early' /\ page' # "form" => Shows(c, M[1])'
    BY <1>1, <1>2
  <1>4. Path(c, wire', Truth(c)', M)
    BY <1>1, <1>2
  <1> QED
    BY <1>3, <1>4, FollowsNext

LEMMA FaithfulGentle ==
  ASSUME Faithful, Gentle,
         \A c \in Channels : \A v : page # "form" /\ Shows(c, v) => Shows(c, v)'
  PROVE  Faithful'
  <1> SUFFICES ASSUME ~lost', NEW c \in Channels PROVE Announced(c)' /\ Follows(c)'
    BY DEF Faithful
  <1>1. Announced(c) /\ Follows(c)
    BY DEF Faithful, Gentle, history
  <1>2. wire' = wire /\ (Has(asked, "names", c) => Has(asked', "names", c))
    BY DEF Gentle
  <1> QED
    BY <1>1, <1>2, AnnouncedGentle, FollowsGentle

(* A command changes the tab of c only to open it, when it has asked to join *)
(* c, or to close it, when it is offline.                                   *)
LEMMA CommandShows ==
  ASSUME Sound, Gentle, pending' = pending, NEW c \in Channels,
         \/ ui'.tab[c] = ui.tab[c] /\ ui'.nicks[c] = ui.nicks[c]
         \/ /\ ui'.tab[c] = "open" /\ ui'.nicks[c] = ui.nicks[c]
            /\ ui.tab[c] # "open" => Has(asked', "join", c) \/ Has(later', "join", c)
         \/ ui.tab[c] = "offline" /\ ui'.tab[c] = "none",
         NEW v, page # "form", Shows(c, v)
  PROVE  Shows(c, v)'
  <1>1. /\ page' = page /\ wire' = wire /\ session' = session /\ refused' = refused
        /\ Has(asked, "names", c) => Has(asked', "names", c)
        /\ Has(asked, "join", c) \/ Has(later, "join", c)
              => Has(asked', "join", c) \/ Has(later', "join", c)
    BY DEF Gentle, history
  <1>2. \A k : Renewed(k)' <=> Renewed(k)
    BY <1>1 DEF Renewed, Connecting
  <1>3. TabIn(c, v)'
    BY <1>1 DEF Shows, TabIn
  <1>4. NicksIn(c, v)'
    BY <1>1 DEF Shows, NicksIn, TabIn
  <1>5. TabOut(c, v)'
    BY <1>1, <1>2 DEF Shows, TabOut
  <1>6. NoneRenewed(v)' /\ Loading(c, v)'
    BY <1>1, <1>2 DEF Shows, NoneRenewed, Loading
  <1> QED
    BY <1>3, <1>4, <1>5, <1>6 DEF Shows

LEMMA SentJoin ==
  ASSUME Sound, NEW c \in Channels, send(Ask("join", {c}))
  PROVE  Has(asked', "join", c) \/ Has(later', "join", c)
  <1>1. Ask("join", {c}) \in Seq(Requests) /\ Has(Ask("join", {c}), "join", c)
    BY AskFacts
  <1> QED
    BY <1>1, SentFacts

LEMMA CommandsFaithful ==
  ASSUME Sound, Faithful, NEW d \in Channels
  PROVE  /\ JoinCommand(d) \/ JoinWithKey(d) \/ PartCommand(d) \/ RejoinTimer(d) => Faithful'
         /\ \A t : CloseButton(d, t) => Faithful'
         /\ RejoinCommand => Faithful'
  <1>1. ASSUME PartCommand(d) \/ RejoinTimer(d) \/ RejoinCommand PROVE Faithful'
    <2>1. Gentle
      BY <1>1, CommandsGentle
    <2>2. ui' = ui /\ pending' = pending
      BY <1>1 DEF PartCommand, RejoinTimer, RejoinCommand
    <2> QED
      BY <2>1, <2>2, CommandShows, FaithfulGentle
  <1>2. ASSUME JoinCommand(d) PROVE Faithful'
    <2>1. Gentle
      BY <1>2, CommandsGentle
    <2>2. ui'.tab = ui.tab /\ ui'.nicks = ui.nicks /\ pending' = pending
      BY <1>2, SoundUI, SetActiveShows DEF JoinCommand, Alike
    <2> QED
      BY <2>1, <2>2, CommandShows, FaithfulGentle
  <1>3. ASSUME JoinWithKey(d) PROVE Faithful'
    <2>1. Gentle
      BY <1>3, CommandsGentle
    <2>2. /\ ui' = ensureChannel(ui, d) /\ pending' = pending
          /\ Has(asked', "join", d) \/ Has(later', "join", d)
      BY <1>3, SentJoin DEF JoinWithKey
    <2>3. /\ ui'.nicks = ui.nicks
          /\ ui'.tab = [ui.tab EXCEPT ![d] = IF @ = "none" THEN "open" ELSE @]
      BY <2>2, SoundUI, EnsureShows
    <2>4. \A c \in Channels : ui'.tab[c] = IF c = d /\ ui.tab[c] = "none" THEN "open"
                                                                        ELSE ui.tab[c]
      BY <2>3, SoundUI
    <2> HIDE <2>3
    <2>5. ASSUME NEW c \in Channels, NEW v, page # "form", Shows(c, v) PROVE Shows(c, v)'
      <3>1. \/ ui'.tab[c] = ui.tab[c] /\ ui'.nicks[c] = ui.nicks[c]
            \/ /\ ui'.tab[c] = "open" /\ ui'.nicks[c] = ui.nicks[c]
               /\ ui.tab[c] # "open" => Has(asked', "join", c) \/ Has(later', "join", c)
        BY <2>2, <2>3, <2>4
      <3> QED
        BY <2>1, <2>2, <2>5, <3>1, CommandShows
    <2> QED
      BY <2>1, <2>5, FaithfulGentle
  <1>4. ASSUME NEW t, CloseButton(d, t) PROVE Faithful'
    <2>1. Gentle
      BY <1>4, CommandsGentle
    <2>2. pending' = pending
      BY <1>4 DEF CloseButton
    <2>3. CASE ui.tab[d] # "offline"
      <3>1. ui' = ui
        BY <1>4, <2>3 DEF CloseButton
      <3> QED
        BY <2>1, <2>2, <3>1, CommandShows, FaithfulGentle
    <2>4. CASE ui.tab[d] = "offline"
      <3>1. ui' = saveChannels(removeChannel(ui, d, t))
        BY <1>4, <2>4 DEF CloseButton
      <3>2. \A c \in Channels : /\ ui'.tab[c] = IF c = d THEN "none" ELSE ui.tab[c]
                                /\ ui'.nicks[c] = IF c = d THEN {} ELSE ui.nicks[c]
        BY <3>1, SoundUI, RemoveNeat
      <3>3. \A c \in Channels : \/ ui'.tab[c] = ui.tab[c] /\ ui'.nicks[c] = ui.nicks[c]
                                \/ ui.tab[c] = "offline" /\ ui'.tab[c] = "none"
        BY <2>4, <3>2
      <3> QED
        BY <2>1, <2>2, <3>3, CommandShows, FaithfulGentle
    <2> QED
      BY <2>3, <2>4
  <1> QED
    BY <1>1, <1>2, <1>3, <1>4

(* When the oldest log is loaded the others move up. *)
LEMMA RenewedTail ==
  ASSUME Sound, pending # <<>>, pending' = Tail(pending), Gentle
  PROVE  /\ \A k \in Nat : Renewed(k)' <=> Renewed(k + 1)
         /\ Head(pending).op = "resume" => (Renewed(0) <=> Renewed(1))
         /\ Renewed(1) => Renewed(0)
         /\ Head(pending).op = "rejoin" => Renewed(0)
  <1> DEFINE n == Len(pending)
             away == ~session \/ Connecting
  <1>1. /\ n \in Nat /\ n > 0 /\ Len(pending') = n - 1 /\ pending[1] = Head(pending)
        /\ \A i \in 1..(n - 1) : pending'[i] = pending[i + 1]
    BY PendingFacts
  <1>2. away' <=> away
    BY DEF Gentle, Connecting
  <1>3. \A k : Renewed(k) <=> away \/ \E j \in 1..n : j > k /\ pending[j].op = "rejoin"
    BY DEF Renewed
  <1>4. \A k : Renewed(k)' <=> away' \/ \E j \in 1..(n - 1) : j > k /\ pending'[j].op = "rejoin"
    BY <1>1 DEF Renewed
  <1> HIDE DEF n, away
  <1>5. ASSUME NEW k \in Nat PROVE Renewed(k)' <=> Renewed(k + 1)
    <2>1. ASSUME NEW j \in 1..(n - 1), j > k, pending'[j].op = "rejoin"
          PROVE  \E i \in 1..n : i > k + 1 /\ pending[i].op = "rejoin"
      BY <1>1, <2>1
    <2>2. ASSUME NEW i \in 1..n, i > k + 1, pending[i].op = "rejoin"
          PROVE  \E j \in 1..(n - 1) : j > k /\ pending'[j].op = "rejoin"
      <3>1. i - 1 \in 1..(n - 1) /\ i - 1 > k /\ i = (i - 1) + 1
        BY <1>1, <2>2
      <3>2. pending'[i - 1] = pending[i]
        BY <1>1, <3>1
      <3> QED
        BY <2>2, <3>1, <3>2
    <2> QED
      BY <1>2, <1>3, <1>4, <2>1, <2>2
  <1>6. Renewed(1) => Renewed(0)
    BY <1>1, <1>3
  <1>7. Head(pending).op = "rejoin" => Renewed(0)
    BY <1>1, <1>3
  <1>8. Head(pending).op = "resume" /\ Renewed(0) => Renewed(1)
    <2>1. Head(pending).op = "resume" => \A j \in 1..n : j > 0 /\ pending[j].op = "rejoin" => j > 1
      BY <1>1
    <2> QED
      BY <1>3, <2>1
  <1> QED
    BY <1>5, <1>6, <1>7, <1>8

LEMMA LoadingTail ==
  ASSUME Sound, pending # <<>>, pending' = Tail(pending), Gentle, NEW c, NEW v, Loading(c, v)
  PROVE  Loading(c, v)'
  <1> SUFFICES ASSUME NEW k \in 1..Len(pending'), pending'[k].op = "resume"
               PROVE  (c \in pending'[k].chans <=> v.in) \/ Renewed(k)'
    BY DEF Loading
  <1>1. k + 1 \in 1..Len(pending) /\ pending'[k] = pending[k + 1] /\ k \in Nat
    BY PendingFacts
  <1>2. (c \in pending[k + 1].chans <=> v.in) \/ Renewed(k + 1)
    BY <1>1 DEF Loading
  <1> QED
    BY <1>1, <1>2, RenewedTail

LEMMA RejoinFaithful ==
  ASSUME Sound, Faithful, Rejoin PROVE Faithful'
  <1>1. Gentle /\ pending # <<>> /\ pending' = Tail(pending)
    BY RejoinFacts
  <1>2. ASSUME NEW c \in Channels, NEW v, page # "form", Shows(c, v) PROVE Shows(c, v)'
    <2>1. ~v.in
      BY <1>1, <1>2, RejoinFacts, RenewedTail DEF Shows, NoneRenewed
    <2>2. ui'.tab[c] = "open" => Has(asked', "join", c) \/ Has(later', "join", c)
      BY RejoinFacts DEF Restored
    <2>3. Loading(c, v)'
      BY <1>1, <1>2, LoadingTail DEF Shows
    <2> QED
      BY <2>1, <2>2, <2>3 DEF Shows, TabIn, NicksIn, TabOut, NoneRenewed
  <1> QED
    BY <1>1, <1>2, FaithfulGentle

LEMMA RestoreFaithful ==
  ASSUME Sound, Faithful, Restore PROVE Faithful'
  <1> DEFINE S == Head(pending).chans
  <1>1. /\ Gentle /\ pending # <<>> /\ pending' = Tail(pending) /\ Head(pending).op = "resume"
        /\ UNCHANGED <<asked, later>>
    BY RestoreFacts
  <1>2. /\ wire' = wire /\ page' = page /\ refused' = refused
        /\ Len(pending) \in Nat /\ Len(pending) > 0 /\ pending[1] = Head(pending)
    BY <1>1, PendingFacts DEF Gentle, history
  <1>3. (Renewed(0)' <=> Renewed(1)) /\ (Renewed(0) <=> Renewed(1))
    BY <1>1, RenewedTail
  <1>4. ASSUME NEW c \in Channels, NEW v, page # "form", Shows(c, v) PROVE Shows(c, v)'
    <2>1. (c \in S <=> v.in) \/ Renewed(1)
      BY <1>1, <1>2, <1>4 DEF Shows, Loading
    <2>2. Renewed(1) => ~v.in
      BY <1>3, <1>4 DEF Shows, NoneRenewed
    <2>3. /\ ui'.tab[c] = IF c \in S THEN "open" ELSE Restored(c)
          /\ ui'.nicks[c] = ui.nicks[c]
      BY RestoreFacts
    <2>4. TabIn(c, v)'
      BY <2>1, <2>2, <2>3 DEF TabIn
    <2>5. NicksIn(c, v)'
      BY <1>1, <1>2, <1>4, <2>3 DEF Shows, NicksIn
    <2>6. TabOut(c, v)'
      <3>1. CASE c \in S
        BY <1>3, <2>1, <3>1 DEF TabOut
      <3>2. CASE c \notin S
        <4>1. ui'.tab[c] = "open" => ui.tab[c] = "open"
          BY <2>3, <3>2 DEF Restored
        <4> QED
          BY <1>1, <1>2, <1>3, <1>4, <4>1 DEF Shows, TabOut
      <3> QED
        BY <3>1, <3>2
    <2>7. NoneRenewed(v)'
      BY <1>3, <2>2 DEF NoneRenewed
    <2>8. Loading(c, v)'
      BY <1>1, <1>4, LoadingTail DEF Shows
    <2> QED
      BY <2>4, <2>5, <2>6, <2>7, <2>8 DEF Shows
  <1> QED
    BY <1>1, <1>4, FaithfulGentle
-----------------------------------------------------------------------------
(* The steps of the server and the return to a session: frames are added.   *)

(* The frames under way, with fs after them. *)
More(fs) ==
    /\ wire' \in Seq(News) /\ Len(wire') = Len(wire) + Len(fs)
    /\ \A i \in 1..Len(wire) : wire'[i] = wire[i]
    /\ \A i \in 1..Len(fs) : wire'[Len(wire) + i] = fs[i]

LEMMA MoreFacts ==
  ASSUME Sound, NEW fs \in Seq(News), Emit(fs), ~lost'
  PROVE  ~lost /\ More(fs)
  <1>1. ~lost /\ wire' = wire \o fs
    BY EmitFacts DEF Sound, Typed
  <1> QED
    BY <1>1, ConcatFacts DEF Sound, Typed, More

LEMMA NoMore ==
  ASSUME Sound, wire' = wire PROVE More(<<>>)
  BY Empties DEF Sound, Typed, More

(* What is shown stays true if what was asked for of c is asked for still,  *)
(* or has been answered.                                                    *)
LEMMA MoreShows ==
  ASSUME Sound, NEW fs \in Seq(News), More(fs), \A i \in 1..Len(fs) : fs[i].type # "connected",
         UNCHANGED <<ui, page, pending, session>>, refused => refused',
         NEW c \in Channels, NEW v, Shows(c, v),
         Has(asked, "names", c) =>
           Has(asked', "names", c) \/ \E i \in 1..Len(fs) : NamesOf(c, fs[i]),
         ~v.in /\ ui.tab[c] = "open" /\ (Has(asked, "join", c) \/ Has(later, "join", c)) =>
           Has(asked', "join", c) \/ Has(later', "join", c) \/ refused' \/ Joins(wire', c)
  PROVE  Shows(c, v)'
  <1>0. /\ Len(wire) \in Nat /\ Len(fs) \in Nat /\ Len(wire') = Len(wire) + Len(fs)
        /\ \A i \in 1..Len(wire) : wire'[i] = wire[i]
        /\ \A i \in 1..Len(fs) : wire'[Len(wire) + i] = fs[i]
    BY SeqFacts DEF More, Sound, Typed
  <1>1. \A i \in 1..Len(wire) : i \in 1..Len(wire') /\ wire'[i] = wire[i]
    BY <1>0
  <1>2. \A i \in 1..Len(fs) : Len(wire) + i \in 1..Len(wire') /\ wire'[Len(wire) + i] = fs[i]
    BY <1>0
  <1>3. ASSUME NEW i \in 1..Len(wire'), wire'[i].type = "connected" PROVE Connecting
    <2>1. CASE i \in 1..Len(wire)
      BY <1>1, <1>3, <2>1 DEF Connecting
    <2>2. CASE i \notin 1..Len(wire)
      <3>1. i - Len(wire) \in 1..Len(fs) /\ i = Len(wire) + (i - Len(wire))
        BY <1>0, <2>2
      <3>2. wire'[i] = fs[i - Len(wire)]
        BY <1>2, <3>1
      <3> QED
        BY <1>3, <3>1, <3>2
    <2> QED
      BY <2>1, <2>2
  <1>4. Connecting' <=> Connecting
    BY <1>1, <1>3 DEF Connecting
  <1>5. Joins(wire, c) => Joins(wire', c)
    BY <1>1 DEF Joins
  <1>6. Lists(wire, c) => Lists(wire', c)
    BY <1>1 DEF Lists
  <1>7. (\E i \in 1..Len(fs) : NamesOf(c, fs[i])) => Lists(wire', c)
    <2> SUFFICES ASSUME NEW i \in 1..Len(fs), NamesOf(c, fs[i]) PROVE Lists(wire', c)
      OBVIOUS
    <2>1. Len(wire) + i \in 1..Len(wire') /\ wire'[Len(wire) + i] = fs[i]
      BY <1>2
    <2> QED
      BY <2>1 DEF Lists
  <1>8. \A k : Renewed(k)' <=> Renewed(k)
    BY <1>4 DEF Renewed
  <1>9. TabIn(c, v)'
    BY DEF Shows, TabIn
  <1>10. NicksIn(c, v)'
    BY <1>6, <1>7 DEF Shows, NicksIn
  <1>11. TabOut(c, v)'
    BY <1>5, <1>8 DEF Shows, TabOut
  <1>12. NoneRenewed(v)' /\ Loading(c, v)'
    BY <1>8 DEF Shows, NoneRenewed, Loading
  <1> QED
    BY <1>9, <1>10, <1>11, <1>12 DEF Shows

(* Names are announced if the new frames keep to it. *)
LEMMA MoreAnnounced ==
  ASSUME Sound, NEW fs \in Seq(News), More(fs), NEW c \in Channels, Announced(c),
         Has(asked, "names", c) =>
           Has(asked', "names", c) \/ \E i \in 1..Len(fs) : NamesOf(c, fs[i]),
         \A i \in 1..Len(fs) :
           /\ OwnJoin(c, fs[i]) => i + 1 \in 1..Len(fs) /\ NamesOf(c, fs[i + 1])
           /\ fs[i].type = "resumed" /\ c \in fs[i].list => Has(asked', "names", c)
  PROVE  Announced(c)'
  <1>0. /\ Len(wire) \in Nat /\ Len(fs) \in Nat /\ Len(wire') = Len(wire) + Len(fs)
        /\ \A i \in 1..Len(wire) : wire'[i] = wire[i]
        /\ \A i \in 1..Len(fs) : wire'[Len(wire) + i] = fs[i]
    BY SeqFacts DEF More, Sound, Typed
  <1> SUFFICES ASSUME NEW i \in 1..Len(wire')
               PROVE  /\ OwnJoin(c, wire'[i]) =>
                           i + 1 \in 1..Len(wire') /\ NamesOf(c, wire'[i + 1])
                      /\ wire'[i].type = "resumed" /\ c \in wire'[i].list =>
                           \/ Has(asked', "names", c)
                           \/ \E j \in 1..Len(wire') : j > i /\ NamesOf(c, wire'[j])
    BY DEF Announced
  <1>1. CASE i \in 1..Len(wire)
    <2>1. wire'[i] = wire[i]
      BY <1>0, <1>1
    <2>2. \A j \in 1..Len(wire) : j \in 1..Len(wire') /\ wire'[j] = wire[j]
      BY <1>0
    <2>3. OwnJoin(c, wire[i]) => i + 1 \in 1..Len(wire') /\ NamesOf(c, wire'[i + 1])
      BY <1>1, <2>2 DEF Announced
    <2>4. ASSUME wire[i].type = "resumed", c \in wire[i].list
          PROVE  \/ Has(asked', "names", c)
                 \/ \E j \in 1..Len(wire') : j > i /\ NamesOf(c, wire'[j])
      <3>1. CASE Has(asked', "names", c)
        BY <3>1
      <3>2. ASSUME NEW j \in 1..Len(wire), j > i, NamesOf(c, wire[j])
            PROVE  \E l \in 1..Len(wire') : l > i /\ NamesOf(c, wire'[l])
        BY <2>2, <3>2
      <3>3. ASSUME NEW j \in 1..Len(fs), NamesOf(c, fs[j])
            PROVE  \E l \in 1..Len(wire') : l > i /\ NamesOf(c, wire'[l])
        <4>1. Len(wire) + j \in 1..Len(wire') /\ Len(wire) + j > i
              /\ wire'[Len(wire) + j] = fs[j]
          BY <1>0, <1>1
        <4> QED
          BY <3>3, <4>1
      <3>4. Has(asked, "names", c) \/ \E j \in 1..Len(wire) : j > i /\ NamesOf(c, wire[j])
        BY <1>1, <2>4 DEF Announced
      <3> QED
        BY <3>1, <3>2, <3>3, <3>4
    <2> QED
      BY <2>1, <2>3, <2>4
  <1>2. CASE i \notin 1..Len(wire)
    <2> DEFINE k == i - Len(wire)
    <2>1. k \in 1..Len(fs) /\ i = Len(wire) + k /\ i + 1 = Len(wire) + (k + 1)
      BY <1>0, <1>2
    <2> HIDE DEF k
    <2>2. wire'[i] = fs[k]
      BY <1>0, <2>1
    <2>3. OwnJoin(c, fs[k]) => k + 1 \in 1..Len(fs) /\ NamesOf(c, fs[k + 1])
      BY <2>1
    <2>4. k + 1 \in 1..Len(fs) => i + 1 \in 1..Len(wire') /\ wire'[i + 1] = fs[k + 1]
      <3>1. k + 1 \in 1..Len(fs) => wire'[Len(wire) + (k + 1)] = fs[k + 1]
        BY <1>0
      <3>2. k + 1 \in 1..Len(fs) => i + 1 \in 1..Len(wire')
        BY <1>0, <2>1
      <3> QED
        BY <2>1, <3>1, <3>2
    <2>5. fs[k].type = "resumed" /\ c \in fs[k].list => Has(asked', "names", c)
      BY <2>1
    <2> QED
      BY <2>2, <2>3, <2>4, <2>5
  <1> QED
    BY <1>1, <1>2

(* The views after one more frame. *)
LEMMA MorePath ==
  ASSUME Sound, NEW f \in News, More(<<f>>), NEW c \in Channels, NEW M,
         Path(c, wire, Truth(c), M), Truth(c)' \in View, Leads(c, Truth(c), f, Truth(c)'),
         Truth(c)'.in => Truth(c).in \/ OwnJoin(c, f)
  PROVE  \E N : Path(c, wire', Truth(c)', N) /\ N[1] = M[1]
  <1>1. /\ wire \in Seq(News) /\ wire' \in Seq(News) /\ Len(wire') = Len(wire) + 1
        /\ \A i \in 1..Len(wire) : wire'[i] = wire[i]
        /\ wire'[Len(wire) + 1] = f
    <2>1. Len(<<f>>) = 1 /\ <<f>>[1] = f
      OBVIOUS
    <2> QED
      BY <2>1 DEF More, Sound, Typed
  <1> DEFINE q == wire
             r == wire'
             t == Truth(c)
             w == Truth(c)'
  <1>2. /\ q \in Seq(News) /\ r \in Seq(News) /\ Len(r) = Len(q) + 1
        /\ \A i \in 1..Len(q) : r[i] = q[i]
        /\ r[Len(q) + 1] = f
        /\ Path(c, q, t, M) /\ Leads(c, t, f, w) /\ w \in View
        /\ w.in => t.in \/ OwnJoin(c, f)
    BY <1>1
  <1> HIDE DEF q, r, t, w
  <1>3. \E N : Path(c, r, w, N) /\ N[1] = M[1]
    BY <1>2, PathAppend
  <1> QED
    BY <1>3 DEF q, r, t, w

(* What a step must keep of what was asked for, given the frames it adds.   *)
Answered(c, fs) ==
    /\ Has(asked, "names", c) =>
         Has(asked', "names", c) \/ \E i \in 1..Len(fs) : NamesOf(c, fs[i])
    /\ \A v \in View : ~v.in /\ ui.tab[c] = "open" /\ Shows(c, v)
                       /\ (Has(asked, "join", c) \/ Has(later, "join", c))
                       /\ (Truth(c).in => Joins(wire, c)) =>
         Has(asked', "join", c) \/ Has(later', "join", c) \/ refused' \/ Joins(wire', c)

LEMMA MoreFollows ==
  ASSUME Sound, NEW fs \in Seq(News), More(fs), \A i \in 1..Len(fs) : fs[i].type # "connected",
         UNCHANGED <<ui, page, pending, session, early>>, refused => refused',
         NEW c \in Channels, NEW M, NEW N, Answered(c, fs),
         Path(c, wire, Truth(c), M), ~early /\ page # "form" => Shows(c, M[1]),
         Path(c, wire', Truth(c)', N), N[1] = M[1]
  PROVE  Follows(c)'
  <1>1. Len(wire) \in Nat
    BY SeqFacts DEF Sound, Typed
  <1>2. M[1] \in View /\ (~M[1].in /\ Truth(c).in => Joins(wire, c))
    <2>1. 1 \in 1..(Len(wire) + 1)
      BY <1>1
    <2> QED
      BY <2>1 DEF Path, Joins
  <1>3. ASSUME ~early, page # "form" PROVE Shows(c, M[1])'
    <2>1. Shows(c, M[1])
      BY <1>3
    <2>2. Has(asked, "names", c) =>
            Has(asked', "names", c) \/ \E i \in 1..Len(fs) : NamesOf(c, fs[i])
      BY DEF Answered
    <2>3. ~M[1].in /\ ui.tab[c] = "open" /\ (Has(asked, "join", c) \/ Has(later, "join", c)) =>
           Has(asked', "join", c) \/ Has(later', "join", c) \/ refused' \/ Joins(wire', c)
      BY <1>2, <2>1 DEF Answered
    <2> QED
      BY <2>1, <2>2, <2>3, MoreShows
  <1>4. ~early' /\ page' # "form" => Shows(c, N[1])'
    BY <1>3
  <1> QED
    BY <1>4, FollowsNext

LEMMA OneMore ==
  ASSUME Sound, NEW f \in News, More(<<f>>), f.type # "connected",
         UNCHANGED <<ui, page, pending, session, early>>, refused => refused',
         NEW c \in Channels, Announced(c), Follows(c), Answered(c, <<f>>),
         Truth(c)' \in View, Leads(c, Truth(c), f, Truth(c)'),
         Truth(c)'.in => Truth(c).in, ~OwnJoin(c, f),
         f.type = "resumed" /\ c \in f.list => Has(asked', "names", c)
  PROVE  Announced(c)' /\ Follows(c)'
  <1>1. /\ <<f>> \in Seq(News)
        /\ \A i \in 1..Len(<<f>>) : i = 1 /\ <<f>>[i] = f
    OBVIOUS
  <1>2. PICK M : Path(c, wire, Truth(c), M) /\ (~early /\ page # "form" => Shows(c, M[1]))
    BY DEF Follows
  <1>3. PICK N : Path(c, wire', Truth(c)', N) /\ N[1] = M[1]
    BY <1>2, MorePath
  <1>4. Follows(c)'
    BY <1>1, <1>2, <1>3, MoreFollows
  <1>5. Has(asked, "names", c) =>
            Has(asked', "names", c) \/ \E i \in 1..Len(<<f>>) : NamesOf(c, <<f>>[i])
    BY DEF Answered
  <1>6. Announced(c)'
    BY <1>1, <1>5, MoreAnnounced
  <1> QED
    BY <1>4, <1>6

LEMMA NoneMore ==
  ASSUME Sound, wire' = wire,
         UNCHANGED <<ui, page, pending, session, early>>, refused => refused',
         NEW c \in Channels, Announced(c), Follows(c), Answered(c, <<>>),
         Truth(c)' = Truth(c)
  PROVE  Announced(c)' /\ Follows(c)'
  <1>1. <<>> \in Seq(News) /\ Len(<<>>) = 0 /\ More(<<>>)
    BY Empties, NoMore
  <1>2. PICK M : Path(c, wire, Truth(c), M) /\ (~early /\ page # "form" => Shows(c, M[1]))
    BY DEF Follows
  <1>3. Path(c, wire', Truth(c)', M)
    BY <1>2
  <1> DEFINE e == <<>>
  <1>4. Follows(c)'
    <2>1. e \in Seq(News) /\ More(e) /\ Answered(c, e)
      BY <1>1
    <2>2. \A i \in 1..Len(e) : e[i].type # "connected"
      BY <1>1
    <2> HIDE DEF e
    <2> QED
      BY <1>2, <1>3, <2>1, <2>2, MoreFollows
  <1>5. Has(asked, "names", c) => Has(asked', "names", c)
    BY <1>1 DEF Answered
  <1>6. Announced(c)'
    BY <1>5, AnnouncedGentle
  <1> QED
    BY <1>4, <1>6

(* Two frames, as a join of the user's own and the names that come with it. *)
LEMMA TwoMore ==
  ASSUME Sound, NEW f \in News, NEW g \in News, More(<<f, g>>),
         UNCHANGED <<ui, page, pending, session, early>>, refused => refused',
         NEW c \in Channels, Announced(c), Follows(c), Answered(c, <<f, g>>),
         ~Starts(f), ~Starts(g), OwnJoin(c, f) => NamesOf(c, g), ~OwnJoin(c, g),
         NEW z \in View, Truth(c)' \in View,
         Leads(c, Truth(c), f, z), z.in => Truth(c).in \/ OwnJoin(c, f),
         Leads(c, z, g, Truth(c)'), Truth(c)'.in => z.in
  PROVE  Announced(c)' /\ Follows(c)'
  <1>1. /\ <<f, g>> \in Seq(News) /\ Len(<<f, g>>) = 2
        /\ <<f, g>>[1] = f /\ <<f, g>>[2] = g
    BY TwoFrames
  <1>2. PICK M : Path(c, wire, Truth(c), M) /\ (~early /\ page # "form" => Shows(c, M[1]))
    BY DEF Follows
  <1> DEFINE q == wire
             r == Append(wire, f)
             s == wire'
             t == Truth(c)
             w == Truth(c)'
  <1>3. /\ q \in Seq(News) /\ r \in Seq(News) /\ Len(r) = Len(q) + 1
        /\ \A i \in 1..Len(q) : r[i] = q[i]
        /\ r[Len(q) + 1] = f
    BY AppendFacts DEF Sound, Typed
  <1>4. Len(q) \in Nat
    BY SeqFacts DEF Sound, Typed
  <1>5. /\ s \in Seq(News) /\ Len(s) = Len(q) + 2
        /\ \A i \in 1..Len(q) : s[i] = q[i]
        /\ \A i \in 1..2 : s[Len(q) + i] = <<f, g>>[i]
    BY <1>1 DEF More
  <1>6. /\ s[Len(q) + 1] = f /\ s[Len(q) + 2] = g
    BY <1>1, <1>5
  <1>7. /\ t \in View /\ w \in View /\ Path(c, q, t, M)
        /\ Leads(c, t, f, z) /\ Leads(c, z, g, w)
        /\ z.in => t.in \/ OwnJoin(c, f)
        /\ w.in => z.in \/ OwnJoin(c, g)
    BY <1>2, TruthFacts DEF Sound
  <1> HIDE DEF q, r, s, t, w
  <1>10. PICK N : Path(c, r, z, N) /\ N[1] = M[1]
    BY <1>3, <1>7, PathAppend
  <1>11. /\ Len(s) = Len(r) + 1 /\ s[Len(r) + 1] = g
         /\ \A i \in 1..Len(r) : s[i] = r[i]
    <2>1. ASSUME NEW i \in 1..Len(r) PROVE s[i] = r[i]
      <3>1. CASE i \in 1..Len(q)
        BY <1>3, <1>5, <3>1
      <3>2. CASE i \notin 1..Len(q)
        <4>1. i = Len(q) + 1
          BY <1>3, <1>4, <3>2
        <4> QED
          BY <1>3, <1>6, <4>1
      <3> QED
        BY <3>1, <3>2
    <2> QED
      BY <1>3, <1>4, <1>5, <1>6, <2>1
  <1>13. PICK O : Path(c, s, w, O) /\ O[1] = N[1]
    <2>1. /\ r \in Seq(News) /\ s \in Seq(News) /\ w \in View /\ Path(c, r, z, N)
          /\ Leads(c, z, g, w)
          /\ w.in => z.in \/ OwnJoin(c, g)
          /\ Len(s) = Len(r) + 1 /\ s[Len(r) + 1] = g
          /\ \A i \in 1..Len(r) : s[i] = r[i]
      BY <1>3, <1>5, <1>7, <1>10, <1>11
    <2> QED
      BY <2>1, PathAppend
  <1>14. Path(c, wire', Truth(c)', O) /\ O[1] = M[1]
    BY <1>10, <1>13 DEF s, w
  <1>15. \A i \in 1..Len(<<f, g>>) : i = 1 \/ i = 2
    BY <1>1
  <1>16. f.type \notin {"connected", "resumed"} /\ g.type \notin {"connected", "resumed"}
    BY DEF Starts
  <1>17. \A i \in 1..Len(<<f, g>>) : <<f, g>>[i].type # "connected"
    BY <1>1, <1>15, <1>16
  <1>18. Follows(c)'
    BY <1>1, <1>2, <1>14, <1>17, MoreFollows
  <1>19. ASSUME NEW i \in 1..Len(<<f, g>>)
         PROVE  /\ OwnJoin(c, <<f, g>>[i]) => /\ i + 1 \in 1..Len(<<f, g>>)
                                              /\ NamesOf(c, <<f, g>>[i + 1])
                /\ <<f, g>>[i].type # "resumed"
    <2>1. CASE i = 1
      <3>1. <<f, g>>[i] = f /\ <<f, g>>[i + 1] = g /\ i + 1 \in 1..Len(<<f, g>>)
        BY <1>1, <2>1
      <3> QED
        BY <1>16, <3>1
    <2>2. CASE i = 2
      <3>1. <<f, g>>[i] = g /\ ~OwnJoin(c, g)
        BY <1>1, <2>2
      <3> QED
        BY <1>16, <3>1
    <2> QED
      BY <1>15, <2>1, <2>2
  <1>20. Has(asked, "names", c) =>
            Has(asked', "names", c) \/ \E i \in 1..Len(<<f, g>>) : NamesOf(c, <<f, g>>[i])
    BY DEF Answered
  <1>21. Announced(c)'
    BY <1>1, <1>19, <1>20, MoreAnnounced
  <1> QED
    BY <1>18, <1>21

LEMMA TruthNext ==
  ASSUME members' \in [Channels -> SUBSET People], NEW c \in Channels
  PROVE  /\ Truth(c)' \in View
         /\ Truth(c)'.in <=> Me \in members'[c]
         /\ Me \in members'[c] => Truth(c)' = In(members'[c])
         /\ Me \notin members'[c] => Truth(c)' = Out
  <1>1. members'[c] \in SUBSET People
    OBVIOUS
  <1>2. Truth(c)' = IF Me \in members'[c] THEN In(members'[c]) ELSE Out
    BY DEF Truth
  <1> QED
    BY <1>1, <1>2, ViewFacts

LEMMA TruthIs ==
  ASSUME Sound, NEW c \in Channels
  PROVE  /\ Truth(c) \in View /\ (Truth(c).in <=> Me \in members[c])
         /\ Me \in members[c] => Truth(c) = In(members[c]) /\ Truth(c).who = members[c]
         /\ Me \notin members[c] => Truth(c) = Out /\ Truth(c).who = {}
         /\ members[c] \in SUBSET People
  <1>1. members[c] \in SUBSET People
    BY DEF Sound, Typed
  <1> QED
    BY <1>1, TruthFacts, ViewFacts DEF Truth, Sound

LEMMA TruthSame ==
  ASSUME NEW c, members'[c] = members[c] PROVE Truth(c)' = Truth(c)
  BY DEF Truth

(* Nothing that was asked for is dropped. *)
LEMMA KeptAnswered ==
  ASSUME NEW c, NEW fs, Has(asked, "names", c) => Has(asked', "names", c),
         Has(asked, "join", c) => Has(asked', "join", c),
         Has(later, "join", c) => Has(asked', "join", c) \/ Has(later', "join", c)
  PROVE  Answered(c, fs)
  BY DEF Answered

LEMMA ServedKept ==
  ASSUME Sound, asked # <<>>, NEW d, Served(d)
  PROVE  \A o, c : Has(asked, o, c) /\ ~(o = Head(asked).op /\ c = d) => Has(asked', o, c)
  BY ServedFacts DEF Sound, Typed


(* The steps of the server, each for every channel. *)

LEMMA ServeJoinFaithful ==
  ASSUME Sound, Sound', Faithful, NEW d \in Channels, ServeJoin(d), ~lost', NEW c \in Channels
  PROVE  Announced(c)' /\ Follows(c)'
  <1>1. /\ asked # <<>> /\ Head(asked).op = "join" /\ Served(d)
        /\ UNCHANGED <<ui, page, params, pending, link, session, later, rejoins, early>>
    BY DEF ServeJoin
  <1>2. /\ Has(asked, "names", c) => Has(asked', "names", c)
        /\ c # d /\ Has(asked, "join", c) => Has(asked', "join", c)
        /\ Has(later, "join", c) => Has(later', "join", c)
    BY <1>1, ServedKept
  <1>3. Me \in People /\ members' \in [Channels -> SUBSET People]
    BY DEF People, Sound, Typed
  <1>4. CASE Me \in members[d] /\ UNCHANGED <<members, wire, lost, refused>>
    <2>1. Announced(c) /\ Follows(c) /\ Truth(c)' = Truth(c)
      BY <1>4, TruthSame DEF Faithful
    <2>2. Answered(c, <<>>)
      <3>1. CASE c # d
        BY <1>2, <3>1, KeptAnswered
      <3>2. CASE c = d
        BY <1>2, <1>4, <3>2, TruthIs DEF Answered
      <3> QED
        BY <3>1, <3>2
    <2> QED
      BY <1>1, <1>4, <2>1, <2>2, NoneMore
  <1>5. CASE /\ Me \notin members[d]
             /\ members' = [members EXCEPT ![d] = @ \cup {Me}]
             /\ Emit(<<Frame("join", d, Me), Names(d, members'[d])>>)
             /\ UNCHANGED refused
    <2> DEFINE f == Frame("join", d, Me)
               g == Names(d, members'[d])
               fs == <<f, g>>
    <2>1. /\ f \in News /\ f.type = "join" /\ f.chan = d /\ f.who = Me
          /\ g \in News /\ g.type = "names" /\ g.chan = d /\ g.list = members'[d]
      BY <1>3, FrameFacts, NamesFacts
    <2>2. Emit(fs)
      BY <1>5
    <2> HIDE DEF f, g
    <2>3. fs \in Seq(News) /\ Len(fs) = 2 /\ fs[1] = f /\ fs[2] = g
      BY <2>1, TwoFrames
    <2>4. ~lost /\ More(fs)
      <3> HIDE DEF fs
      <3> QED
        BY <2>2, <2>3, MoreFacts
    <2>5. Announced(c) /\ Follows(c)
      BY <2>4 DEF Faithful
    <2>6. ~Starts(f) /\ ~Starts(g) /\ ~OwnJoin(c, g) /\ (OwnJoin(c, f) => NamesOf(c, g))
      BY <2>1 DEF Starts, OwnJoin, NamesOf
    <2>7. Truth(c) \in View /\ Truth(c)' \in View
      BY <1>3, TruthIs, TruthNext
    <2>8. CASE c # d
      <3>1. members'[c] = members[c]
        BY <1>5, <2>8 DEF Sound, Typed
      <3>2. Truth(c)' = Truth(c)
        BY <3>1, TruthSame
      <3>3. Leads(c, Truth(c), f, Truth(c)) /\ Leads(c, Truth(c), g, Truth(c)')
        BY ZenonT(40), <2>1, <2>7, <2>8, <3>2, LeadsFacts
      <3>4. Answered(c, fs)
        BY <1>2, <2>8, KeptAnswered
      <3> HIDE DEF fs
      <3> QED
        BY <1>1, <1>5, <2>1, <2>4, <2>5, <2>6, <2>7, <3>2, <3>3, <3>4, TwoMore DEF fs
    <2>9. CASE c = d
      <3>1. members'[c] = members[c] \cup {Me}
        BY <1>5, <2>9 DEF Sound, Typed
      <3>2. Truth(c)' = In(g.list)
        BY <1>3, <2>1, <2>9, <3>1, TruthNext
      <3>3. In({}) \in View /\ In({}).in = TRUE
        BY ViewFacts
      <3>4. OwnJoin(c, f) /\ NamesOf(c, g)
        BY <2>1, <2>9 DEF OwnJoin, NamesOf
      <3>5. Leads(c, Truth(c), f, In({})) /\ Leads(c, In({}), g, Truth(c)')
        BY <2>7, <3>2, <3>3, <3>4, LeadsOn
      <3>6. Joins(wire', c)
        <4>1. Len(wire) \in Nat /\ Len(wire') = Len(wire) + 2 /\ wire'[Len(wire) + 1] = f
          <5>1. Len(wire) \in Nat
            BY SeqFacts DEF Sound, Typed
          <5>2. 1 \in 1..Len(fs)
            BY <2>3
          <5> QED
            BY <2>3, <2>4, <5>1, <5>2 DEF More
        <4>2. Len(wire) + 1 \in 1..Len(wire')
          BY <4>1
        <4> QED
          BY <3>4, <4>1, <4>2 DEF Joins
      <3>7. Answered(c, fs)
        BY <1>2, <3>6 DEF Answered
      <3> DEFINE z == In({})
      <3> HIDE DEF fs, z
      <3>8. z \in View /\ Leads(c, Truth(c), f, z) /\ Leads(c, z, g, Truth(c)') /\ z.in
        BY <3>3, <3>5 DEF z
      <3> QED
        BY <1>1, <1>5, <2>1, <2>4, <2>5, <2>6, <2>7, <3>4, <3>7, <3>8, TwoMore DEF fs
    <2> QED
      BY <2>8, <2>9
  <1>6. CASE /\ Emit(<<Frame("join_error", d, Me)>>)
             /\ refused' = (refused \/ ui.tab[d] = "open")
             /\ UNCHANGED members
    <2> DEFINE f == Frame("join_error", d, Me)
               fs == <<f>>
    <2>1. f \in News /\ f.type = "join_error"
      BY <1>3, FrameFacts
    <2>2. Emit(fs)
      BY <1>6
    <2> HIDE DEF f
    <2>3. fs \in Seq(News)
      BY <2>1, OneFrame
    <2>4. ~lost /\ More(fs)
      <3> HIDE DEF fs
      <3> QED
        BY <2>2, <2>3, MoreFacts
    <2>5. Announced(c) /\ Follows(c)
      BY <2>4 DEF Faithful
    <2>6. Truth(c)' = Truth(c) /\ Truth(c) \in View
      BY <1>6, TruthIs, TruthSame
    <2>7. Leads(c, Truth(c), f, Truth(c)') /\ ~OwnJoin(c, f)
      BY <2>1, <2>6, LeadsSame DEF OwnJoin
    <2>8. (refused => refused') /\ (ui.tab[d] = "open" => refused')
      BY <1>6
    <2>9. Answered(c, fs)
      <3>1. CASE c # d
        BY <1>2, <3>1, KeptAnswered
      <3>2. CASE c = d
        BY <1>2, <2>8, <3>2 DEF Answered
      <3> QED
        BY <3>1, <3>2
    <2> QED
      BY <1>1, <2>1, <2>4, <2>5, <2>6, <2>7, <2>8, <2>9, OneMore
  <1> QED
    BY <1>4, <1>5, <1>6 DEF ServeJoin

(* A step that sends f to a session that is in one of the channels.         *)
LEMMA SentFollows ==
  ASSUME Sound, Sound', Faithful, ~lost', NEW f \in News, ~Starts(f), Emit(<<f>>),
         UNCHANGED <<ui, page, pending, session, early, later, refused>>, NEW c \in Channels,
         Has(asked, "names", c) => Has(asked', "names", c) \/ NamesOf(c, f),
         Has(asked, "join", c) => Has(asked', "join", c),
         Leads(c, Truth(c), f, Truth(c)'), Truth(c)'.in => Truth(c).in, ~OwnJoin(c, f)
  PROVE  Announced(c)' /\ Follows(c)'
  <1> DEFINE fs == <<f>>
  <1>1. fs \in Seq(News) /\ Len(fs) = 1 /\ fs[1] = f
    BY OneFrame
  <1>2. ~lost /\ More(fs)
    <2> HIDE DEF fs
    <2> QED
      BY <1>1, MoreFacts DEF fs
  <1>3. Announced(c) /\ Follows(c)
    BY <1>2 DEF Faithful
  <1>4. Truth(c)' \in View
    <2>1. members' \in [Channels -> SUBSET People]
      BY DEF Sound, Typed
    <2> QED
      BY <2>1, TruthNext
  <1>5. f.type \notin {"connected", "resumed"}
    BY DEF Starts
  <1>6. Answered(c, fs)
    <2>1. 1 \in 1..Len(fs)
      BY <1>1
    <2>2. NamesOf(c, f) => \E i \in 1..Len(fs) : NamesOf(c, fs[i])
      BY <1>1, <2>1
    <2> HIDE DEF fs
    <2> QED
      BY <2>2 DEF Answered
  <1> QED
    BY <1>2, <1>3, <1>4, <1>5, <1>6, OneMore

LEMMA ServePartFaithful ==
  ASSUME Sound, Sound', Faithful, NEW d \in Channels, ServePart(d), ~lost', NEW c \in Channels
  PROVE  Announced(c)' /\ Follows(c)'
  <1>1. /\ asked # <<>> /\ Head(asked).op = "part" /\ Served(d)
        /\ UNCHANGED <<ui, page, params, pending, link, session, later, rejoins, early, refused>>
        /\ members' = [members EXCEPT ![d] = @ \ {Me}]
    BY DEF ServePart
  <1>2. /\ Has(asked, "names", c) => Has(asked', "names", c)
        /\ Has(asked, "join", c) => Has(asked', "join", c)
    BY <1>1, ServedKept
  <1>3. Me \in People /\ members' \in [Channels -> SUBSET People]
        /\ members'[c] = IF c = d THEN members[c] \ {Me} ELSE members[c]
    BY <1>1 DEF People, Sound, Typed
  <1>4. CASE d \in Joined
    <2> DEFINE f == Frame("part", d, Me)
    <2>1. f \in News /\ f.type = "part" /\ f.chan = d /\ f.who = Me
      BY <1>3, FrameFacts
    <2>2. Emit(<<f>>)
      BY <1>4 DEF ServePart
    <2> HIDE DEF f
    <2>3. ~Starts(f) /\ ~OwnJoin(c, f)
      BY <2>1 DEF Starts, OwnJoin
    <2>4. Truth(c)'.in => Truth(c).in
      BY <1>3, TruthIs, TruthNext
    <2>5. Leads(c, Truth(c), f, Truth(c)')
      <3>1. Truth(c) \in View
        BY TruthIs
      <3>2. CASE c = d
        <4>1. Truth(c)' = Out
          BY <1>3, <3>2, TruthNext
        <4> QED
          BY <2>1, <3>1, <3>2, <4>1, LeadsFacts
      <3>3. CASE c # d
        <4>1. Truth(c)' = Truth(c)
          BY <1>3, <3>3, TruthSame
        <4> QED
          BY <2>1, <3>1, <3>3, <4>1, LeadsSame
      <3> QED
        BY <3>2, <3>3
    <2> QED
      BY <1>1, <1>2, <2>1, <2>2, <2>3, <2>4, <2>5, SentFollows
  <1>5. CASE d \notin Joined
    <2>1. wire' = wire /\ lost' = lost
      BY <1>5 DEF ServePart
    <2>2. members'[c] = members[c]
      BY <1>3, <1>5 DEF Joined
    <2>3. Announced(c) /\ Follows(c) /\ Truth(c)' = Truth(c)
      BY <2>1, <2>2, TruthSame DEF Faithful
    <2>4. Answered(c, <<>>)
      BY <1>1, <1>2, KeptAnswered
    <2> QED
      BY <1>1, <2>1, <2>3, <2>4, NoneMore
  <1> QED
    BY <1>4, <1>5

LEMMA ServeNamesFaithful ==
  ASSUME Sound, Sound', Faithful, NEW d \in Channels, ServeNames(d), ~lost', NEW c \in Channels
  PROVE  Announced(c)' /\ Follows(c)'
  <1>1. /\ asked # <<>> /\ Head(asked).op = "names" /\ Served(d) /\ members' = members
        /\ UNCHANGED <<ui, page, params, pending, link, session, later, rejoins, early, refused>>
    BY DEF ServeNames
  <1> DEFINE f == Names(d, members[d])
  <1>2. f \in News /\ f.type = "names" /\ f.chan = d /\ f.list = members[d]
    BY TruthIs, NamesFacts
  <1>3. Emit(<<f>>)
    BY DEF ServeNames
  <1> HIDE DEF f
  <1>4. /\ Has(asked, "names", c) => Has(asked', "names", c) \/ NamesOf(c, f)
        /\ Has(asked, "join", c) => Has(asked', "join", c)
    BY <1>1, <1>2, ServedKept DEF NamesOf
  <1>5. ~Starts(f) /\ ~OwnJoin(c, f)
    BY <1>2 DEF Starts, OwnJoin
  <1>6. Truth(c)' = Truth(c) /\ Truth(c) \in View
    BY <1>1, TruthSame, TruthIs
  <1>7. Leads(c, Truth(c), f, Truth(c)')
    <2>1. CASE c = d
      <3>1. NamesOf(c, f) /\ f.list = members[c]
        BY <1>2, <2>1 DEF NamesOf
      <3>2. Truth(c) = IF Truth(c).in THEN In(f.list) ELSE Truth(c)
        BY <3>1, TruthIs
      <3> QED
        BY <1>6, <3>1, <3>2, LeadsSame
    <2>2. CASE c # d
      BY <1>2, <1>6, <2>2, LeadsSame
    <2> QED
      BY <2>1, <2>2
  <1> QED
    BY <1>1, <1>2, <1>3, <1>4, <1>5, <1>6, <1>7, SentFollows

LEMMA KickedFaithful ==
  ASSUME Sound, Sound', Faithful, NEW d \in Channels, Kicked(d), ~lost', NEW c \in Channels
  PROVE  Announced(c)' /\ Follows(c)'
  <1>1. UNCHANGED world /\ members' = [members EXCEPT ![d] = @ \ {Me}]
    BY DEF Kicked
  <1>2. UNCHANGED <<ui, page, pending, session, early, later, refused, asked>>
    BY <1>1 DEF world
  <1>3. /\ Me \in People /\ members' \in [Channels -> SUBSET People]
        /\ members'[c] = IF c = d THEN members[c] \ {Me} ELSE members[c]
    BY <1>1 DEF People, Sound, Typed
  <1> DEFINE f == Frame("kick", d, Me)
  <1>4. f \in News /\ f.type = "kick" /\ f.chan = d /\ f.who = Me
    BY <1>3, FrameFacts
  <1>5. Emit(<<f>>)
    BY DEF Kicked
  <1> HIDE DEF f
  <1>6. ~Starts(f) /\ ~OwnJoin(c, f)
    BY <1>4 DEF Starts, OwnJoin
  <1>7. Truth(c)'.in => Truth(c).in
    BY <1>3, TruthIs, TruthNext
  <1>8. Truth(c) \in View
    BY TruthIs
  <1>9. Leads(c, Truth(c), f, Truth(c)')
    <2>1. CASE c = d
      <3>1. Truth(c)' = Out
        BY <1>3, <2>1, TruthNext
      <3> QED
        BY <1>4, <1>8, <2>1, <3>1, LeadsOn
    <2>2. CASE c # d
      <3>1. Truth(c)' = Truth(c)
        BY <1>3, <2>2, TruthSame
      <3> QED
        BY <1>4, <1>8, <2>2, <3>1, LeadsSame
    <2> QED
      BY <2>1, <2>2
  <1> QED
    BY <1>2, <1>4, <1>5, <1>6, <1>7, <1>9, SentFollows

(* What another does is sent if the session is in one of the channels S, and *)
(* nothing the session sees changes otherwise.                               *)
LEMMA TellFollows ==
  ASSUME Sound, Sound', Faithful, UNCHANGED world, ~lost', NEW f \in News, ~Starts(f),
         NEW S, Tell(S, f), NEW c \in Channels, ~OwnJoin(c, f),
         Me \in members'[c] => Me \in members[c],
         S \cap Joined # {} => Leads(c, Truth(c), f, Truth(c)'),
         S \cap Joined = {} => Truth(c)' = Truth(c)
  PROVE  Announced(c)' /\ Follows(c)'
  <1>1. UNCHANGED <<ui, page, pending, session, early, later, refused, asked>>
    BY DEF world
  <1>2. CASE S \cap Joined # {}
    <2>1. Emit(<<f>>)
      BY <1>2 DEF Tell
    <2>2. Truth(c)'.in => Truth(c).in
      <3>1. members' \in [Channels -> SUBSET People]
        BY DEF Sound, Typed
      <3> QED
        BY <3>1, TruthIs, TruthNext
    <2> QED
      BY <1>1, <1>2, <2>1, <2>2, SentFollows
  <1>3. CASE S \cap Joined = {}
    <2>1. wire' = wire /\ lost' = lost
      BY <1>3 DEF Tell
    <2>2. Announced(c) /\ Follows(c)
      BY <2>1 DEF Faithful
    <2>3. Answered(c, <<>>)
      BY <1>1, KeptAnswered
    <2> QED
      BY <1>1, <1>3, <2>1, <2>2, <2>3, NoneMore
  <1> QED
    BY <1>2, <1>3

(* A view of a channel after a change of who is in it, the user apart. *)
LEMMA TruthChange ==
  ASSUME Sound, NEW c \in Channels, NEW S \in SUBSET People, members'[c] = S,
         Me \in S <=> Me \in members[c]
  PROVE  Truth(c)' = IF Truth(c).in THEN In(S) ELSE Truth(c)
  BY TruthIs DEF Truth

LEMMA InIs == \A S : In(S) = [in |-> TRUE, who |-> S]
  BY DEF In

LEMMA OutIs == Out = [in |-> FALSE, who |-> {}]
  BY DEF Out

LEMMA OtherJoinsFaithful ==
  ASSUME Sound, Sound', Faithful, NEW p \in Others, NEW d \in Channels, OtherJoins(p, d),
         ~lost', NEW c \in Channels
  PROVE  Announced(c)' /\ Follows(c)'
  <1>1. p \in People /\ p # Me
    BY OthersFacts
  <1>2. /\ UNCHANGED world
        /\ members'[c] = IF c = d THEN members[c] \cup {p} ELSE members[c]
    BY DEF OtherJoins, Sound, Typed
  <1> DEFINE f == Frame("join", d, p)
  <1>3. f \in News /\ f.type = "join" /\ f.chan = d /\ f.who = p
    BY <1>1, FrameFacts
  <1>4. Tell({d}, f)
    BY DEF OtherJoins
  <1> HIDE DEF f
  <1>5. ~Starts(f) /\ ~OwnJoin(c, f) /\ (Me \in members'[c] => Me \in members[c])
    BY <1>1, <1>2, <1>3 DEF Starts, OwnJoin
  <1>6. /\ Truth(c) \in View /\ members[c] \in SUBSET People
        /\ (Truth(c).in <=> Me \in members[c])
        /\ (Truth(c).in => Truth(c).who = members[c])
    BY TruthIs
  <1>7. c # d => Truth(c)' = Truth(c)
    BY <1>2, TruthSame
  <1>8. c = d => Truth(c)' = IF Truth(c).in THEN In(members[c] \cup {p}) ELSE Truth(c)
    <2>1. members[c] \cup {p} \in SUBSET People
      BY <1>1, <1>6
    <2>2. c = d => members'[c] = members[c] \cup {p}
      BY <1>2
    <2>3. Me \in members[c] \cup {p} <=> Me \in members[c]
      BY <1>1
    <2> QED
      BY <2>1, <2>2, <2>3, TruthChange
  <1>9. {d} \cap Joined # {} <=> d \in Joined
    OBVIOUS
  <1>10. d \in Joined => Leads(c, Truth(c), f, Truth(c)')
    <2>1. CASE c = d
      <3>1. d \in Joined => Truth(c).in
        BY <1>6, <2>1 DEF Joined
      <3> QED
        BY <1>1, <1>3, <1>6, <1>8, <2>1, <3>1, LeadsJoin
    <2>2. CASE c # d
      BY <1>3, <1>6, <1>7, <2>2, LeadsSame
    <2> QED
      BY <2>1, <2>2
  <1>11. d \notin Joined => Truth(c)' = Truth(c)
    BY <1>6, <1>7, <1>8 DEF Joined
  <1> QED
    BY <1>2, <1>3, <1>4, <1>5, <1>9, <1>10, <1>11, TellFollows

LEMMA OtherLeavesFaithful ==
  ASSUME Sound, Sound', Faithful, NEW p \in Others, NEW d \in Channels, OtherLeaves(p, d),
         ~lost', NEW c \in Channels
  PROVE  Announced(c)' /\ Follows(c)'
  <1>1. p \in People /\ p # Me
    BY OthersFacts
  <1>2. /\ UNCHANGED world
        /\ members'[c] = IF c = d THEN members[c] \ {p} ELSE members[c]
    BY DEF OtherLeaves, Sound, Typed
  <1> DEFINE f == Frame("part", d, p)
  <1>3. f \in News /\ f.type = "part" /\ f.chan = d /\ f.who = p
    BY <1>1, FrameFacts
  <1>4. Tell({d}, f)
    BY DEF OtherLeaves
  <1> HIDE DEF f
  <1>5. ~Starts(f) /\ ~OwnJoin(c, f) /\ (Me \in members'[c] => Me \in members[c])
    BY <1>1, <1>2, <1>3 DEF Starts, OwnJoin
  <1>6. /\ Truth(c) \in View /\ members[c] \in SUBSET People
        /\ (Truth(c).in <=> Me \in members[c])
        /\ (Truth(c).in => Truth(c).who = members[c])
    BY TruthIs
  <1>7. c # d => Truth(c)' = Truth(c)
    BY <1>2, TruthSame
  <1>8. c = d => Truth(c)' = IF Truth(c).in THEN In(members[c] \ {p}) ELSE Truth(c)
    <2>1. members[c] \ {p} \in SUBSET People
      BY <1>1, <1>6
    <2>2. c = d => members'[c] = members[c] \ {p}
      BY <1>2
    <2>3. Me \in members[c] \ {p} <=> Me \in members[c]
      BY <1>1
    <2> QED
      BY <2>1, <2>2, <2>3, TruthChange
  <1>9. {d} \cap Joined # {} <=> d \in Joined
    OBVIOUS
  <1>10. d \in Joined => Leads(c, Truth(c), f, Truth(c)')
    <2>1. CASE c = d
      <3>1. d \in Joined => Truth(c).in
        BY <1>6, <2>1 DEF Joined
      <3>2. Truth(c).in => Truth(c)' = [in |-> Truth(c).in, who |-> Truth(c).who \ {p}]
        BY <1>6, <1>8, <2>1, InIs
      <3> QED
        BY <1>1, <1>3, <1>6, <2>1, <3>1, <3>2, LeadsLess
    <2>2. CASE c # d
      BY <1>3, <1>6, <1>7, <2>2, LeadsSame
    <2> QED
      BY <2>1, <2>2
  <1>11. d \notin Joined => Truth(c)' = Truth(c)
    BY <1>6, <1>7, <1>8 DEF Joined
  <1> QED
    BY <1>2, <1>3, <1>4, <1>5, <1>9, <1>10, <1>11, TellFollows

LEMMA OtherQuitsFaithful ==
  ASSUME Sound, Sound', Faithful, NEW p \in Others, OtherQuits(p), ~lost', NEW c \in Channels
  PROVE  Announced(c)' /\ Follows(c)'
  <1>1. p \in People /\ p # Me
    BY OthersFacts
  <1>2. UNCHANGED world /\ members'[c] = members[c] \ {p}
    BY DEF OtherQuits
  <1> DEFINE f == [type |-> "quit", who |-> p]
             S == {d \in Channels : p \in members[d]}
  <1>3. f \in News /\ f.type = "quit" /\ f.who = p
    BY DEF News
  <1>4. Tell(S, f)
    BY DEF OtherQuits
  <1> HIDE DEF f
  <1>5. ~Starts(f) /\ ~OwnJoin(c, f) /\ (Me \in members'[c] => Me \in members[c])
    BY <1>1, <1>2, <1>3 DEF Starts, OwnJoin
  <1>6. /\ Truth(c) \in View /\ members[c] \in SUBSET People
        /\ (Truth(c).in <=> Me \in members[c])
        /\ (Truth(c).in => Truth(c).who = members[c] /\ Truth(c) = In(members[c]))
        /\ (~Truth(c).in => Truth(c) = Out)
    BY TruthIs
  <1>7. Truth(c)' = IF Truth(c).in THEN In(members[c] \ {p}) ELSE Truth(c)
    <2>1. members[c] \ {p} \in SUBSET People
      BY <1>6
    <2>2. Me \in members[c] \ {p} <=> Me \in members[c]
      BY <1>1
    <2> QED
      BY <1>2, <2>1, <2>2, TruthChange
  <1>8. Truth(c)' = [in |-> Truth(c).in, who |-> Truth(c).who \ {p}]
    <2>1. CASE Truth(c).in
      <3>1. Truth(c).in = TRUE
        BY <1>6, <2>1, InIs
      <3> QED
        BY <1>6, <1>7, <2>1, <3>1, InIs
    <2>2. CASE ~Truth(c).in
      <3>1. Truth(c)' = Out /\ Truth(c).in = FALSE /\ Truth(c).who = {}
        BY <1>6, <1>7, <2>2, ViewFacts
      <3> QED
        BY <3>1, OutIs
    <2> QED
      BY <2>1, <2>2
  <1>9. Leads(c, Truth(c), f, Truth(c)')
    <2> DEFINE t == Truth(c)
               w == Truth(c)'
    <2>1. w = [in |-> t.in, who |-> t.who \ {f.who}] /\ t \in View
      BY <1>3, <1>6, <1>8
    <2> HIDE DEF t, w
    <2>2. Leads(c, t, f, w)
      BY <1>3, <2>1, LeadsQuit
    <2> QED
      BY <2>2 DEF t, w
  <1>10. S \cap Joined = {} => Truth(c)' = Truth(c)
    <2>1. CASE c \in Joined /\ S \cap Joined = {}
      <3>1. p \notin members[c]
        BY <2>1
      <3>2. members[c] \ {p} = members[c]
        BY <1>6, <3>1
      <3> QED
        BY <1>6, <1>7, <3>2
    <2>2. CASE c \notin Joined
      BY <1>6, <1>7, <2>2 DEF Joined
    <2> QED
      BY <2>1, <2>2
  <1> HIDE DEF S
  <1> QED
    BY <1>2, <1>3, <1>4, <1>5, <1>9, <1>10, TellFollows

LEMMA OtherRenamedFaithful ==
  ASSUME Sound, Sound', Faithful, NEW p \in Others, NEW q \in Others, OtherRenamed(p, q),
         ~lost', NEW c \in Channels
  PROVE  Announced(c)' /\ Follows(c)'
  <1>1. p \in People /\ p # Me /\ q \in People /\ q # Me
    BY OthersFacts
  <1> DEFINE R(T) == IF p \in T THEN (T \ {p}) \cup {q} ELSE T
  <1>2. UNCHANGED world /\ members'[c] = R(members[c])
    BY DEF OtherRenamed
  <1> DEFINE f == [type |-> "nick", who |-> p, new |-> q]
             S == {d \in Channels : p \in members[d]}
  <1>3. f \in News /\ f.type = "nick" /\ f.who = p /\ f.new = q
    BY DEF News
  <1>4. Tell(S, f)
    BY DEF OtherRenamed
  <1> HIDE DEF f
  <1>5. ~Starts(f) /\ ~OwnJoin(c, f) /\ (Me \in members'[c] => Me \in members[c])
    BY <1>1, <1>2, <1>3 DEF Starts, OwnJoin
  <1>6. /\ Truth(c) \in View /\ members[c] \in SUBSET People
        /\ (Truth(c).in <=> Me \in members[c])
        /\ (Truth(c).in => Truth(c).who = members[c] /\ Truth(c) = In(members[c]))
        /\ (~Truth(c).in => Truth(c) = Out)
    BY TruthIs
  <1>7. Truth(c)' = IF Truth(c).in THEN In(R(members[c])) ELSE Truth(c)
    <2>1. R(members[c]) \in SUBSET People
      BY <1>1, <1>6
    <2>2. Me \in R(members[c]) <=> Me \in members[c]
      BY <1>1
    <2> HIDE DEF R
    <2> QED
      BY <1>2, <2>1, <2>2, TruthChange
  <1>8. Truth(c)' = [in |-> Truth(c).in, who |-> R(Truth(c).who)]
    <2>1. CASE Truth(c).in
      <3>1. Truth(c).in = TRUE
        BY <1>6, <2>1, InIs
      <3> HIDE DEF R
      <3> QED
        BY <1>6, <1>7, <2>1, <3>1, InIs
    <2>2. CASE ~Truth(c).in
      <3>1. Truth(c)' = Out /\ Truth(c).in = FALSE /\ Truth(c).who = {}
        BY <1>6, <1>7, <2>2, ViewFacts
      <3>2. R({}) = {}
        OBVIOUS
      <3> HIDE DEF R
      <3> QED
        BY <3>1, <3>2, OutIs
    <2> QED
      BY <2>1, <2>2
  <1>9. Leads(c, Truth(c), f, Truth(c)')
    BY <1>3, <1>6, <1>8, LeadsNick
  <1>10. S \cap Joined = {} => Truth(c)' = Truth(c)
    <2>1. CASE c \in Joined /\ S \cap Joined = {}
      <3>1. p \notin members[c]
        BY <2>1
      <3>2. R(members[c]) = members[c]
        BY <3>1
      <3> HIDE DEF R
      <3> QED
        BY <1>6, <1>7, <3>2
    <2>2. CASE c \notin Joined
      BY <1>6, <1>7, <2>2 DEF Joined
    <2> QED
      BY <2>1, <2>2
  <1> HIDE DEF S
  <1> QED
    BY <1>2, <1>3, <1>4, <1>5, <1>9, <1>10, TellFollows
-----------------------------------------------------------------------------
(* The connection.                                                          *)

LEMMA LinkDropsFaithful ==
  ASSUME Sound, Faithful, LinkDrops, ~lost', NEW c \in Channels
  PROVE  Announced(c)' /\ Follows(c)'
  <1>1. ~lost /\ wire = <<>> /\ wire' = wire
    BY DEF LinkDrops
  <1>2. ~Unknown
    BY <1>1, Empties DEF Unknown
  <1>3. UNCHANGED <<ui, page, session, members, asked, pending, later, early, refused>>
    BY <1>2 DEF LinkDrops
  <1>4. Announced(c) /\ Follows(c) /\ Truth(c)' = Truth(c)
    BY <1>1, <1>3, TruthSame DEF Faithful
  <1>5. Answered(c, <<>>)
    BY <1>3, KeptAnswered
  <1> QED
    BY <1>1, <1>3, <1>4, <1>5, NoneMore

LEMMA ResumeFaithful ==
  ASSUME Sound, Faithful, Resume, ~lost', NEW c \in Channels
  PROVE  Announced(c)' /\ Follows(c)'
  <1> DEFINE f == [type |-> "resumed", list |-> Joined]
  <1>1. /\ f \in News /\ f.type = "resumed" /\ f.list = Joined
        /\ wire' = Append(wire, f)
    BY ResumeFacts
  <1> HIDE DEF f
  <1>2. More(<<f>>)
    <2>1. /\ wire' \in Seq(News) /\ Len(wire') = Len(wire) + 1
          /\ \A i \in 1..Len(wire) : wire'[i] = wire[i]
          /\ wire'[Len(wire) + 1] = f
      BY <1>1, AppendFacts DEF Sound, Typed
    <2>2. Len(<<f>>) = 1 /\ \A i \in 1..Len(<<f>>) : i = 1 /\ <<f>>[i] = f
      OBVIOUS
    <2> QED
      BY <2>1, <2>2 DEF More
  <1>3. /\ UNCHANGED <<ui, page, pending, session, early, members, refused>>
        /\ lost' = lost
        /\ \A o, d : Has(asked', o, d) <=> \/ Has(asked, o, d) \/ Has(later, o, d)
                                           \/ o = "names" /\ d \in Joined
    BY ResumeFacts
  <1>4. Announced(c) /\ Follows(c)
    BY <1>3 DEF Faithful
  <1>5. Truth(c)' = Truth(c) /\ Truth(c) \in View /\ (Truth(c).in <=> c \in Joined)
    BY <1>3, TruthSame, TruthIs DEF Joined
  <1>6. Leads(c, Truth(c), f, Truth(c)')
    <2>1. Leads(c, Truth(c), f, Truth(c))
      BY <1>1, <1>5, LeadsSame
    <2> QED
      BY <1>5, <2>1
  <1>7. Answered(c, <<f>>)
    BY <1>3, KeptAnswered
  <1>8. f.type # "connected" /\ ~OwnJoin(c, f)
    BY <1>1 DEF OwnJoin
  <1>9. c \in f.list => Has(asked', "names", c)
    BY <1>1, <1>3
  <1> QED
    BY <1>1, <1>2, <1>3, <1>4, <1>5, <1>6, <1>7, <1>8, <1>9, OneMore

(* A session that has just ended, or just begun: the user is in nothing.    *)
LEMMA NothingFaithful ==
  ASSUME NEW c \in Channels, Truth(c)' = Out, \A k : Renewed(k)',
         \/ wire' = <<>>
         \/ Len(wire') = 1 /\ wire'[1].type = "connected"
  PROVE  Announced(c)' /\ Follows(c)'
  <1>1. Out \in View /\ ~Out.in
    BY ViewFacts
  <1>2. Shows(c, Out)'
    BY <1>1 DEF Shows, TabIn, NicksIn, TabOut, NoneRenewed, Loading
  <1>3. CASE wire' = <<>>
    <2>1. Len(wire') = 0
      BY <1>3
    <2>2. PICK M : Path(c, wire', Out, M) /\ M[1] = Out
      BY <1>1, <2>1, PathEmpty
    <2>3. Announced(c)'
      BY <2>1 DEF Announced
    <2> QED
      BY <1>2, <2>2, <2>3, FollowsNext
  <1>4. CASE Len(wire') = 1 /\ wire'[1].type = "connected"
    <2> DEFINE M == [i \in 1..2 |-> Out]
               q == wire'
    <2>1. Len(q) = 1 /\ q[1].type = "connected"
      BY <1>4
    <2> HIDE DEF q
    <2>2. Leads(c, Out, q[1], Out)
      BY <1>1, <2>1 DEF Leads
    <2>3. Path(c, q, Out, M)
      <3>1. \A i \in 1..Len(q) : i = 1
        BY <2>1
      <3>2. \A i \in 1..2 : M[i] = Out
        OBVIOUS
      <3>3. M \in [1..(Len(q) + 1) -> View] /\ Len(q) + 1 = 2
        BY <1>1, <2>1
      <3> HIDE DEF M
      <3>4. \A i \in 1..Len(q) : Leads(c, M[i], q[i], M[i + 1])
        BY <2>2, <3>1, <3>2
      <3> QED
        BY <1>1, <3>2, <3>3, <3>4 DEF Path
    <2>4. M[1] = Out
      OBVIOUS
    <2> HIDE DEF M
    <2>5. Follows(c)'
      <3>1. Path(c, wire', Truth(c)', M)
        BY <2>3 DEF q
      <3> QED
        BY <1>2, <2>4, <3>1, FollowsNext
    <2>6. Announced(c)'
      <3>1. \A i \in 1..Len(wire') : i = 1
        BY <2>1 DEF q
      <3>2. wire'[1].type = "connected"
        BY <2>1 DEF q
      <3>3. \A i \in 1..Len(wire') : wire'[i].type = "connected"
        BY <3>1, <3>2
      <3> QED
        BY <3>3 DEF Announced, OwnJoin
    <2> QED
      BY <2>5, <2>6
  <1> QED
    BY <1>3, <1>4

LEMMA NothingTrue ==
  ASSUME Joined' = {}, NEW c \in Channels PROVE Truth(c)' = Out
  BY DEF Joined, Truth

LEMMA ExpireFaithful ==
  ASSUME Sound, Expire, NEW c \in Channels
  PROVE  Announced(c)' /\ Follows(c)'
  <1>1. Gone /\ wire' = <<>>
    BY DEF Expire
  <1>2. session' = FALSE /\ Joined' = {}
    BY <1>1, GoneFacts
  <1>3. \A k : Renewed(k)'
    BY <1>2 DEF Renewed
  <1> QED
    BY <1>1, <1>2, <1>3, NothingTrue, NothingFaithful

LEMMA ConnectsFaithful ==
  ASSUME Sound, Connects, ~session, members' = members, NEW c \in Channels
  PROVE  Announced(c)' /\ Follows(c)'
  <1>1. Len(wire') = 1 /\ wire'[1].type = "connected"
    BY ConnectsFacts
  <1>2. Joined' = {}
    BY DEF Joined, Sound, Linked
  <1>3. Connecting'
    <2>1. 1 \in 1..Len(wire')
      BY <1>1
    <2> QED
      BY <1>1, <2>1 DEF Connecting
  <1>4. \A k : Renewed(k)'
    BY <1>3 DEF Renewed
  <1> QED
    BY <1>1, <1>2, <1>4, NothingTrue, NothingFaithful

(* On a page with the form only the frames matter. *)
LEMMA FormFaithful ==
  ASSUME Faithful, ~lost, page' = "form", wire' = wire, asked' = asked, members' = members,
         NEW c \in Channels
  PROVE  Announced(c)' /\ Follows(c)'
  <1>1. Announced(c) /\ Follows(c) /\ Truth(c)' = Truth(c)
    BY TruthSame DEF Faithful
  <1>2. PICK M : Path(c, wire, Truth(c), M)
    BY <1>1 DEF Follows
  <1>3. Path(c, wire', Truth(c)', M)
    BY <1>1, <1>2
  <1>4. Follows(c)'
    BY <1>3, FollowsNext
  <1> QED
    BY <1>1, <1>4, AnnouncedGentle

LEMMA ExpiredFaithful ==
  ASSUME Sound, Faithful, Expired, ~lost', NEW c \in Channels
  PROVE  Announced(c)' /\ Follows(c)'
  <1>1. ~session /\ members' = members /\ ~lost
    BY DEF Expired, history
  <1>2. CASE params
    BY <1>1, <1>2, ConnectsFaithful DEF Expired
  <1>3. CASE ~params
    <2>1. page' = "form" /\ wire' = wire /\ asked' = asked
      BY <1>3 DEF Expired
    <2> QED
      BY <1>1, <2>1, FormFaithful
  <1> QED
    BY <1>2, <1>3

LEMMA SubmitFaithful ==
  ASSUME Sound, Submit, NEW c \in Channels
  PROVE  Announced(c)' /\ Follows(c)'
  <1>1. ~session /\ members' = members /\ Connects
    BY DEF Submit, Sound, Linked
  <1> QED
    BY <1>1, ConnectsFaithful

(* A page that is loaded again shows nothing of c. *)
LEMMA ReloadShows ==
  ASSUME Sound, Reload, ~Unknown, NEW c \in Channels, NEW v,
         ~session => ~v.in
  PROVE  Shows(c, v)'
  <1>1. /\ page' = "fresh" /\ session' = session /\ ui' = Blank(ui.saved) /\ pending' = <<>>
        /\ wire' = <<>> \/ (wire' = wire /\ ~link)
    BY ReloadFacts
  <1>2. ui'.tab[c] = "none"
    BY <1>1, SoundUI, BlankShows
  <1>3. ~Connecting'
    <2>1. CASE wire' = <<>>
      BY <2>1, Empties DEF Connecting
    <2>2. CASE wire' = wire /\ ~link
      BY <2>2 DEF Connecting, Sound, Linked, Marks
    <2> QED
      BY <1>1, <2>1, <2>2
  <1>4. Len(pending') = 0
    BY <1>1
  <1>5. Renewed(0)' => ~session
    BY <1>1, <1>3, <1>4 DEF Renewed
  <1>6. NoneRenewed(v)'
    BY <1>5 DEF NoneRenewed
  <1>7. Loading(c, v)'
    BY <1>4 DEF Loading
  <1>8. TabIn(c, v)' /\ NicksIn(c, v)' /\ TabOut(c, v)'
    BY <1>1, <1>2 DEF TabIn, NicksIn, TabOut
  <1> QED
    BY <1>6, <1>7, <1>8 DEF Shows

LEMMA ReloadFaithful ==
  ASSUME Sound, Sound', Faithful, Reload, ~lost', NEW c \in Channels
  PROVE  Announced(c)' /\ Follows(c)'
  <1>1. members' \in [Channels -> SUBSET People]
    BY DEF Sound, Typed
  <1>2. Truth(c)' \in View
    BY <1>1, TruthNext
  <1>3. ~session => Truth(c)' = Out \/ Unknown
    <2>1. ~session /\ ~Unknown => Joined' = {}
      BY ReloadFacts DEF Joined, Sound, Linked
    <2> QED
      BY <2>1, NothingTrue
  <1>4. CASE wire' = <<>>
    <2>1. Len(wire') = 0
      BY <1>4
    <2>2. PICK M : Path(c, wire', Truth(c)', M) /\ M[1] = Truth(c)'
      BY <1>2, <2>1, PathEmpty
    <2>3. Announced(c)'
      BY <2>1 DEF Announced
    <2>4. page' # "form" => Shows(c, M[1])'
      <3>1. page' # "form" => ~Unknown
        BY ReloadFacts
      <3>2. ~session /\ ~Unknown => ~M[1].in
        BY <1>3, <2>2, ViewFacts
      <3> QED
        BY <3>1, <3>2, ReloadShows
    <2> QED
      BY <2>2, <2>3, <2>4, FollowsNext
  <1>5. CASE wire' # <<>>
    <2>1. ~link /\ wire' = wire /\ ~lost /\ ~Unknown /\ page' = "fresh"
          /\ UNCHANGED <<session, members, asked>>
      BY <1>5, ReloadFacts
    <2>2. session
      BY <1>5, <2>1 DEF Sound, Linked
    <2>3. Announced(c) /\ Follows(c) /\ Truth(c)' = Truth(c)
      BY <2>1, TruthSame DEF Faithful
    <2>4. PICK M : Path(c, wire, Truth(c), M)
      BY <2>3 DEF Follows
    <2>5. Path(c, wire', Truth(c)', M)
      BY <2>1, <2>3, <2>4
    <2>6. Shows(c, M[1])'
      BY <2>1, <2>2, ReloadShows
    <2>7. Follows(c)'
      BY <2>5, <2>6, FollowsNext
    <2> QED
      BY <2>1, <2>3, <2>7, AnnouncedGentle
  <1> QED
    BY <1>4, <1>5
-----------------------------------------------------------------------------
(* The page takes a frame.                                                  *)

(* Of the sessions that were replaced it knows what it knew, or more. *)
LEMMA HandleRenewed ==
  ASSUME Sound, NEW next, Handle(next)
  PROVE  /\ session /\ session' /\ page # "form"
         /\ Head(wire).type \notin {"connected", "resumed"} =>
              /\ \A k : Renewed(k)' <=> Renewed(k)
              /\ pending' = pending
         /\ Head(wire).type = "resumed" =>
              /\ \A k \in Nat : Renewed(k)' <=> Renewed(k)
         /\ Head(wire).type = "connected" => \A k \in 0..Len(pending) : Renewed(k)'
  <1> DEFINE f == Head(wire)
             n == Len(pending)
  <1>1. /\ link /\ session /\ session' /\ page # "form"
        /\ f = wire[1] /\ Len(wire) \in Nat /\ Len(wire) > 0
        /\ Len(wire') = Len(wire) - 1
        /\ \A i \in 1..(Len(wire) - 1) : wire'[i] = wire[i + 1]
    BY HandleFacts DEF Sound, Linked
  <1>2. ~Connecting'
    <2> SUFFICES ASSUME NEW i \in 1..Len(wire'), wire'[i].type = "connected" PROVE FALSE
      BY DEF Connecting
    <2>1. i + 1 \in 1..Len(wire) /\ wire'[i] = wire[i + 1] /\ i + 1 # 1
      BY <1>1
    <2> QED
      BY <2>1 DEF Sound, Linked, Marks
  <1>3. f.type # "connected" => ~Connecting
    <2> SUFFICES ASSUME f.type # "connected", NEW i \in 1..Len(wire), wire[i].type = "connected"
                 PROVE  FALSE
      BY DEF Connecting
    <2>1. i = 1
      BY DEF Sound, Linked, Marks
    <2> QED
      BY <1>1, <2>1
  <1>4. pending \in Seq(Loads) /\ n \in Nat
    BY SeqFacts DEF Sound, Typed
  <1>5. \A k : Renewed(k)' <=> \E j \in 1..Len(pending') : j > k /\ pending'[j].op = "rejoin"
    BY <1>1, <1>2 DEF Renewed
  <1>6. f.type # "connected" =>
          \A k : Renewed(k) <=> \E j \in 1..n : j > k /\ pending[j].op = "rejoin"
    BY <1>1, <1>3 DEF Renewed
  <1>7. CASE f.type \notin {"connected", "resumed"}
    <2>1. pending' = pending
      BY <1>7, HandleFacts
    <2> QED
      BY <1>1, <1>5, <1>6, <1>7, <2>1
  <1>8. CASE f.type = "resumed"
    <2> DEFINE e == [op |-> "resume", chans |-> f.list]
    <2>1. pending' = Append(pending, e) /\ e \in Loads /\ e.op = "resume"
      BY <1>8, HandleFacts, NewsFacts DEF Loads
    <2> HIDE DEF e
    <2>2. /\ Len(pending') = n + 1
          /\ \A i \in 1..n : pending'[i] = pending[i]
          /\ pending'[n + 1] = e
      BY <1>4, <2>1, AppendFacts
    <2> HIDE DEF f, n
    <2>3. ASSUME NEW k \in Nat PROVE Renewed(k)' <=> Renewed(k)
      <3>1. ASSUME NEW j \in 1..Len(pending'), j > k, pending'[j].op = "rejoin"
            PROVE  \E i \in 1..n : i > k /\ pending[i].op = "rejoin"
        <4>1. j # n + 1
          BY <2>1, <2>2, <3>1
        <4>2. j \in 1..n /\ pending'[j] = pending[j]
          BY <1>4, <2>2, <4>1
        <4> QED
          BY <3>1, <4>2
      <3>2. ASSUME NEW i \in 1..n, i > k, pending[i].op = "rejoin"
            PROVE  \E j \in 1..Len(pending') : j > k /\ pending'[j].op = "rejoin"
        <4>1. i \in 1..Len(pending') /\ pending'[i] = pending[i]
          BY <1>4, <2>2
        <4> QED
          BY <3>2, <4>1
      <3> QED
        BY <1>5, <1>6, <1>8, <3>1, <3>2
    <2> QED
      BY <1>1, <1>8, <2>3 DEF f
  <1>9. CASE f.type = "connected"
    <2> DEFINE e == [op |-> "rejoin"]
    <2>1. pending' = Append(pending, e) /\ e \in Loads /\ e.op = "rejoin"
      BY <1>9, HandleFacts DEF Loads
    <2> HIDE DEF e
    <2>2. Len(pending') = n + 1 /\ pending'[n + 1] = e
      BY <1>4, <2>1, AppendFacts
    <2> HIDE DEF f, n
    <2>3. ASSUME NEW k \in 0..n PROVE Renewed(k)'
      <3>1. n + 1 \in 1..Len(pending') /\ n + 1 > k
        BY <1>4, <2>2
      <3> QED
        BY <1>5, <2>1, <2>2, <3>1
    <2> QED
      BY <1>1, <1>9, <2>3 DEF f, n
  <1> QED
    BY <1>7, <1>8, <1>9

(* What was asked for is asked for still, and what was under way too, but   *)
(* for the frame that is handled.                                           *)
LEMMA HandleKept ==
  ASSUME Sound, NEW next, Handle(next), NEW c
  PROVE  /\ asked' = asked /\ later' = later /\ refused' = refused
         /\ Joins(wire, c) => Joins(wire', c) \/ OwnJoin(c, Head(wire))
         /\ Lists(wire, c) => Lists(wire', c) \/ NamesOf(c, Head(wire))
         /\ Announced(c) => Announced(c)'
         /\ Announced(c) /\ OwnJoin(c, Head(wire)) => Lists(wire', c)
         /\ Announced(c) /\ Head(wire).type = "resumed" /\ c \in Head(wire).list =>
              Has(asked', "names", c) \/ Lists(wire', c)
  <1> DEFINE f == Head(wire)
             n == Len(wire)
  <1>1. /\ f = wire[1] /\ n \in Nat /\ n > 0 /\ Len(wire') = n - 1
        /\ \A i \in 1..(n - 1) : wire'[i] = wire[i + 1]
        /\ UNCHANGED <<asked, later, refused>>
    BY HandleFacts
  <1> HIDE DEF f, n
  <1>2. ASSUME NEW i \in 1..n, i # 1
        PROVE  i - 1 \in 1..Len(wire') /\ wire'[i - 1] = wire[i]
    <2>1. i - 1 \in 1..(n - 1) /\ i = (i - 1) + 1
      BY <1>1, <1>2
    <2> QED
      BY <1>1, <2>1
  <1>3. ASSUME Joins(wire, c), ~OwnJoin(c, f) PROVE Joins(wire', c)
    <2>1. PICK i \in 1..n : OwnJoin(c, wire[i])
      BY <1>3 DEF Joins, n
    <2>2. i # 1
      BY <1>1, <1>3, <2>1
    <2> QED
      BY <1>2, <2>1, <2>2 DEF Joins
  <1>4. ASSUME Lists(wire, c), ~NamesOf(c, f) PROVE Lists(wire', c)
    <2>1. PICK i \in 1..n : NamesOf(c, wire[i])
      BY <1>4 DEF Lists, n
    <2>2. i # 1
      BY <1>1, <1>4, <2>1
    <2> QED
      BY <1>2, <2>1, <2>2 DEF Lists
  <1>5. ASSUME Announced(c) PROVE Announced(c)'
    <2> SUFFICES ASSUME NEW i \in 1..Len(wire')
                 PROVE  /\ OwnJoin(c, wire'[i]) =>
                             i + 1 \in 1..Len(wire') /\ NamesOf(c, wire'[i + 1])
                        /\ wire'[i].type = "resumed" /\ c \in wire'[i].list =>
                             \/ Has(asked', "names", c)
                             \/ \E j \in 1..Len(wire') : j > i /\ NamesOf(c, wire'[j])
      BY DEF Announced
    <2>1. i + 1 \in 1..n /\ wire'[i] = wire[i + 1]
      BY <1>1
    <2>2. ASSUME OwnJoin(c, wire[i + 1])
          PROVE  i + 1 \in 1..Len(wire') /\ NamesOf(c, wire'[i + 1])
      <3>1. i + 1 + 1 \in 1..n /\ NamesOf(c, wire[i + 1 + 1])
        BY <1>5, <2>1, <2>2 DEF Announced, n
      <3>2. i + 1 \in 1..(n - 1)
        BY <1>1, <3>1
      <3> QED
        BY <1>1, <3>1, <3>2
    <2>3. ASSUME wire[i + 1].type = "resumed", c \in wire[i + 1].list, ~Has(asked, "names", c)
          PROVE  \E j \in 1..Len(wire') : j > i /\ NamesOf(c, wire'[j])
      <3>1. PICK j \in 1..n : j > i + 1 /\ NamesOf(c, wire[j])
        BY <1>5, <2>1, <2>3 DEF Announced, n
      <3>2. j # 1 /\ j - 1 > i
        BY <1>1, <3>1
      <3> QED
        BY <1>2, <3>1, <3>2
    <2> QED
      BY <1>1, <2>1, <2>2, <2>3
  <1>6. ASSUME Announced(c), OwnJoin(c, f) PROVE Lists(wire', c)
    <2>1. 1 + 1 \in 1..n /\ NamesOf(c, wire[1 + 1])
      BY <1>1, <1>6 DEF Announced, n
    <2>2. 1 \in 1..(n - 1)
      BY <1>1, <2>1
    <2> QED
      BY <1>1, <2>1, <2>2 DEF Lists
  <1>7. ASSUME Announced(c), f.type = "resumed", c \in f.list
        PROVE  Has(asked', "names", c) \/ Lists(wire', c)
    <2>1. CASE Has(asked, "names", c)
      BY <1>1, <2>1
    <2>2. ASSUME NEW j \in 1..n, j > 1, NamesOf(c, wire[j]) PROVE Lists(wire', c)
      BY <1>2, <2>2 DEF Lists
    <2> QED
      BY <1>1, <1>7, <2>1, <2>2 DEF Announced, n
  <1> QED
    BY <1>1, <1>3, <1>4, <1>5, <1>6, <1>7 DEF f

LEMMA HandleUI ==
  ASSUME Sound, NEW next, Handle(next), NEW c \in Channels
  PROVE  /\ ui'.tab[c] = TabAfter(c, ui.tab[c], Head(wire))
         /\ ui'.nicks[c] = NicksAfter(c, ui.tab[c], ui.nicks[c], Head(wire))
         /\ ui.tab[c] \in {"none", "offline", "open"}
         /\ page' = IF Head(wire).type = "resumed" THEN "chat" ELSE page
         /\ page = "chat" \/ page = "fresh"
         /\ page = "fresh" => ui.tab[c] # "offline"
         /\ ~early' => ~Early(Head(wire))
  <1>1. Handled(ui, Head(wire), ui')
    BY HandleFacts
  <1>2. page = "chat" \/ page = "fresh"
    BY HandleRenewed DEF Sound, Typed
  <1>3. /\ page' = IF Head(wire).type = "resumed" THEN "chat" ELSE page
        /\ ~early' => ~Early(Head(wire))
    BY HandleFacts
  <1> QED
    BY <1>1, <1>2, <1>3, SoundUI DEF Handled, Sound, Tidy, Plain

(* A frame that takes the user neither into c nor out of it. *)
LEMMA OtherShows ==
  ASSUME Sound, NEW next, Handle(next), NEW c \in Channels, NEW v \in View, NEW w \in View,
         Shows(c, v), ~Starts(Head(wire)), ~OwnJoin(c, Head(wire)), w.in <=> v.in,
         \/ ui'.tab[c] = ui.tab[c]
         \/ ui.tab[c] = "none" /\ ui'.tab[c] = "open" /\ v.in,
         page = "chat" /\ v.in =>
           \/ ui'.nicks[c] = w.who
           \/ ui.nicks[c] # v.who /\ ~NamesOf(c, Head(wire))
  PROVE  Shows(c, w)'
  <1>1. Head(wire).type \notin {"connected", "resumed"}
    BY DEF Starts
  <1>2. /\ \A k : Renewed(k)' <=> Renewed(k)
        /\ pending' = pending /\ page' = page
    BY <1>1, HandleRenewed, HandleUI
  <1>3. /\ asked' = asked /\ later' = later /\ refused' = refused
        /\ Joins(wire, c) => Joins(wire', c)
        /\ Lists(wire, c) => Lists(wire', c) \/ NamesOf(c, Head(wire))
    BY HandleKept
  <1>4. TabIn(c, w)'
    BY <1>2 DEF Shows, TabIn
  <1>5. NicksIn(c, w)'
    BY <1>2, <1>3 DEF Shows, NicksIn
  <1>6. TabOut(c, w)'
    BY <1>2, <1>3 DEF Shows, TabOut
  <1>7. NoneRenewed(w)' /\ Loading(c, w)'
    BY <1>2 DEF Shows, NoneRenewed, Loading
  <1> QED
    BY <1>4, <1>5, <1>6, <1>7 DEF Shows

(* The user's own join, part or kick comes to a page that is ready. *)
LEMMA OwnShows ==
  ASSUME Sound, NEW next, Handle(next), NEW c \in Channels, NEW v \in View, NEW w \in View,
         Shows(c, v), Announced(c), ~early', Leads(c, v, Head(wire), w),
         Head(wire).type \in {"join", "part", "kick"}, Head(wire).who = Me, Head(wire).chan = c
  PROVE  Shows(c, w)'
  <1> DEFINE f == Head(wire)
  <1>1. page = "chat" /\ pending = <<>>
    BY HandleUI DEF Early
  <1>2. /\ pending' = pending /\ page' = page /\ session' = session
        /\ \A k : Renewed(k)' <=> Renewed(k)
    BY HandleRenewed, HandleUI, HandleFacts
  <1>3. Len(pending') = 0 /\ Len(pending) = 0
    BY <1>1, <1>2
  <1>4. ~Renewed(0)
    <2>1. session
      BY HandleRenewed
    <2>2. ~Connecting
      <3> SUFFICES ASSUME NEW i \in 1..Len(wire), wire[i].type = "connected" PROVE FALSE
        BY DEF Connecting
      <3>1. i = 1 /\ f = wire[1]
        BY HandleFacts DEF Sound, Linked, Marks
      <3> QED
        BY <3>1
    <2> QED
      BY <1>3, <2>1, <2>2 DEF Renewed
  <1>5. NoneRenewed(w)' /\ Loading(c, w)'
    BY <1>2, <1>3, <1>4 DEF NoneRenewed, Loading
  <1>6. Self(f)
    BY <1>1 DEF Self
  <1>7. CASE f.type = "join"
    <2>1. OwnJoin(c, f)
      BY <1>7 DEF OwnJoin
    <2>2. w = In({}) /\ w.in = TRUE
      <3>1. w = In({})
        BY <1>7, LeadsOwn
      <3> QED
        BY <3>1, ViewFacts
    <2>3. ui'.tab[c] = "open"
      BY <1>6, <1>7, HandleUI DEF TabAfter
    <2>4. Lists(wire', c)
      BY <2>1, HandleKept
    <2> QED
      BY <1>5, <2>2, <2>3, <2>4 DEF Shows, TabIn, NicksIn, TabOut
  <1>8. CASE f.type # "join"
    <2>1. w = Out /\ w.in = FALSE
      <3>1. w = Out
        BY <1>8, LeadsOwn
      <3> QED
        BY <3>1, ViewFacts
    <2>2. ui'.tab[c] = "none"
      BY <1>6, <1>8, HandleUI DEF TabAfter
    <2> QED
      BY <1>5, <2>1, <2>2 DEF Shows, TabIn, NicksIn, TabOut
  <1> QED
    BY <1>7, <1>8

LEMMA ResumedShows ==
  ASSUME Sound, NEW next, Handle(next), NEW c \in Channels, NEW v \in View, NEW w \in View,
         Shows(c, v), Announced(c), Leads(c, v, Head(wire), w), Head(wire).type = "resumed"
  PROVE  Shows(c, w)'
  <1> DEFINE f == Head(wire)
             e == [op |-> "resume", chans |-> f.list]
             n == Len(pending)
  <1>1. w = v /\ (c \in f.list <=> v.in)
    BY LeadsFacts
  <1>2. /\ pending' = Append(pending, e) /\ e \in Loads /\ e.op = "resume" /\ e.chans = f.list
    BY HandleFacts, NewsFacts DEF Loads
  <1> HIDE DEF e
  <1>3. /\ n \in Nat /\ Len(pending') = n + 1
        /\ \A i \in 1..n : pending'[i] = pending[i]
        /\ pending'[n + 1] = e
    BY <1>2, AppendFacts, SeqFacts DEF Sound, Typed
  <1>4. /\ asked' = asked /\ later' = later /\ refused' = refused
        /\ Joins(wire, c) => Joins(wire', c)
        /\ c \in f.list => Has(asked', "names", c) \/ Lists(wire', c)
    BY HandleKept DEF OwnJoin
  <1>5. /\ \A k \in Nat : Renewed(k)' <=> Renewed(k)
        /\ ui'.tab[c] = ui.tab[c] /\ ui'.nicks[c] = ui.nicks[c]
    BY HandleRenewed, HandleUI DEF TabAfter, NicksAfter
  <1>6. TabIn(c, v)'
    <2>1. n + 1 \in 1..Len(pending')
      BY <1>3
    <2>2. page = "chat" /\ v.in => ui.tab[c] # "offline"
      BY <1>2 DEF Shows, TabIn
    <2>3. ui.tab[c] \in {"none", "open"} \/ ~v.in
      BY <2>2, HandleUI
    <2> QED
      BY <1>1, <1>2, <1>3, <1>5, <2>1, <2>3 DEF TabIn
  <1>7. NicksIn(c, v)'
    BY <1>1, <1>4 DEF NicksIn
  <1>8. TabOut(c, v)'
    BY <1>4, <1>5 DEF Shows, TabOut
  <1>9. NoneRenewed(v)'
    BY <1>5 DEF Shows, NoneRenewed
  <1>10. Loading(c, v)'
    <2> SUFFICES ASSUME NEW k \in 1..Len(pending'), pending'[k].op = "resume"
                 PROVE  (c \in pending'[k].chans <=> v.in) \/ Renewed(k)'
      BY DEF Loading
    <2>1. CASE k \in 1..n
      <3>1. pending'[k] = pending[k] /\ k \in Nat
        BY <1>3, <2>1
      <3> QED
        BY <1>5, <2>1, <3>1 DEF Shows, Loading
    <2>2. CASE k \notin 1..n
      <3>1. k = n + 1
        BY <1>3, <2>2
      <3> QED
        BY <1>1, <1>2, <1>3, <3>1
    <2> QED
      BY <2>1, <2>2
  <1> QED
    BY <1>1, <1>6, <1>7, <1>8, <1>9, <1>10 DEF Shows

LEMMA ConnectedShows ==
  ASSUME Sound, NEW next, Handle(next), NEW c \in Channels, NEW v \in View, NEW w \in View,
         Leads(c, v, Head(wire), w), Head(wire).type = "connected"
  PROVE  Shows(c, w)'
  <1> DEFINE n == Len(pending)
             e == [op |-> "rejoin"]
  <1>1. w = v /\ ~v.in
    BY LeadsFacts
  <1>2. pending' = Append(pending, e) /\ e \in Loads /\ e.op = "rejoin"
    BY HandleFacts DEF Loads
  <1> HIDE DEF e
  <1>3. n \in Nat /\ Len(pending') = n + 1 /\ pending'[n + 1] = e
    BY <1>2, AppendFacts, SeqFacts DEF Sound, Typed
  <1>4. \A k \in 0..n : Renewed(k)'
    BY HandleRenewed
  <1>5. Renewed(0)'
    BY <1>3, <1>4
  <1>6. Loading(c, v)'
    <2> SUFFICES ASSUME NEW k \in 1..Len(pending'), pending'[k].op = "resume" PROVE Renewed(k)'
      BY DEF Loading
    <2>1. k # n + 1
      BY <1>2, <1>3
    <2>2. k \in 0..n
      BY <1>3, <2>1
    <2> QED
      BY <1>4, <2>2
  <1> QED
    BY <1>1, <1>5, <1>6 DEF Shows, TabIn, NicksIn, TabOut, NoneRenewed

LEMMA HandleShows ==
  ASSUME Sound, NEW next, Handle(next), NEW c \in Channels, NEW v \in View, NEW w \in View,
         Shows(c, v), Announced(c), ~early', Leads(c, v, Head(wire), w)
  PROVE  Shows(c, w)'
  <1> DEFINE f == Head(wire)
  <1>0. f \in News
    BY HandleFacts
  <1>1. CASE Starts(f)
    BY <1>1, ResumedShows, ConnectedShows DEF Starts
  <1>2. CASE f.type \in {"join", "part", "kick"} /\ f.who = Me /\ f.chan = c
    BY <1>2, OwnShows
  <1>3. CASE /\ ~Starts(f)
             /\ ~(f.type \in {"join", "part", "kick"} /\ f.chan = c /\ f.who = Me)
    <2>1. /\ w.in <=> v.in
          /\ f.type = "join" /\ f.chan = c => v.in /\ w.who = v.who \cup {f.who}
          /\ f.type \in {"part", "kick"} /\ f.chan = c => w.who = v.who \ {f.who}
          /\ f.type = "quit" => w.who = v.who \ {f.who}
          /\ f.type = "nick" =>
               w.who = IF f.who \in v.who THEN (v.who \ {f.who}) \cup {f.new} ELSE v.who
          /\ NamesOf(c, f) /\ v.in => w.who = f.list
          /\ f.type \in {"join", "part", "kick", "names"} /\ f.chan # c => w.who = v.who
          /\ f.type = "join_error" => w.who = v.who
      <3>1. /\ f \in News /\ Leads(c, v, f, w) /\ ~Starts(f)
            /\ ~(f.type \in {"join", "part", "kick"} /\ f.chan = c /\ f.who = Me)
        BY <1>0, <1>3
      <3>2. Changes(c, v, f, w)
        <4> HIDE DEF f
        <4> QED
          BY <3>1, LeadsOther
      <3> HIDE DEF f
      <3> QED
        BY <3>2 DEF Changes
    <2>2. /\ ui'.tab[c] = TabAfter(c, ui.tab[c], f)
          /\ ui'.nicks[c] = NicksAfter(c, ui.tab[c], ui.nicks[c], f)
          /\ ~Early(f)
      BY HandleUI
    <2>3. ~OwnJoin(c, f)
      BY <1>3 DEF OwnJoin
    <2>4. f.type \in {"join", "part", "kick"} /\ f.chan = c => ~Self(f)
      BY <1>3 DEF Self
    <2>5. \/ ui'.tab[c] = ui.tab[c]
          \/ ui.tab[c] = "none" /\ ui'.tab[c] = "open" /\ v.in
      <3>1. CASE f.type = "join" /\ f.chan = c
        BY <2>1, <2>2, <2>4, <3>1 DEF TabAfter
      <3>2. CASE ~(f.type = "join" /\ f.chan = c)
        BY <2>2, <2>4, <3>2 DEF TabAfter
      <3> QED
        BY <3>1, <3>2
    <2>6. f.type \in {"join", "part", "kick", "join_error", "names", "quit", "nick"}
      BY <1>0, <1>3, NewsFacts DEF Starts
    <2>7. ASSUME page = "chat", v.in
          PROVE  ui'.nicks[c] = w.who \/ (ui.nicks[c] # v.who /\ ~NamesOf(c, f))
      <3>1. CASE NamesOf(c, f)
        <4>1. ui.tab[c] # "none"
          <5> SUFFICES ASSUME ui.tab[c] = "none" PROVE FALSE
            OBVIOUS
          <5>1. \E k \in 1..Len(pending) : pending[k].op = "resume"
            BY <2>7 DEF Shows, TabIn
          <5>2. pending # <<>>
            BY <5>1
          <5> QED
            BY <2>2, <3>1, <5>2 DEF Early, NamesOf
        <4>2. ui'.nicks[c] = f.list
          BY <2>2, <3>1, <4>1 DEF NicksAfter, NamesOf
        <4> QED
          BY <2>1, <2>7, <3>1, <4>2
      <3>2. CASE f.type \in {"join", "part", "kick"} /\ f.chan = c
        <4>1. ui'.nicks[c] = IF f.type = "join" THEN ui.nicks[c] \cup {f.who}
                                                ELSE ui.nicks[c] \ {f.who}
          BY <2>2, <2>4, <3>2 DEF NicksAfter
        <4> QED
          BY <2>1, <3>2, <4>1 DEF NamesOf
      <3>3. CASE f.type = "quit"
        <4>1. ui'.nicks[c] = ui.nicks[c] \ {f.who}
          BY <2>2, <3>3 DEF NicksAfter
        <4> QED
          BY <2>1, <3>3, <4>1 DEF NamesOf
      <3>4. CASE f.type = "nick"
        <4>1. ui'.nicks[c] = IF f.who \in ui.nicks[c]
                             THEN (ui.nicks[c] \ {f.who}) \cup {f.new} ELSE ui.nicks[c]
          BY <2>2, <3>4 DEF NicksAfter
        <4> QED
          BY <2>1, <3>4, <4>1 DEF NamesOf
      <3>5. CASE f.type \in {"join", "part", "kick", "names"} /\ f.chan # c
        <4>1. ui'.nicks[c] = ui.nicks[c]
          BY <2>2, <3>5 DEF NicksAfter
        <4> QED
          BY <2>1, <3>5, <4>1 DEF NamesOf
      <3>6. CASE f.type = "join_error"
        <4>1. ui'.nicks[c] = ui.nicks[c]
          BY <2>2, <3>6 DEF NicksAfter
        <4> QED
          BY <2>1, <3>6, <4>1 DEF NamesOf
      <3> QED
        BY <2>6, <3>1, <3>2, <3>3, <3>4, <3>5, <3>6 DEF NamesOf
    <2> HIDE DEF f
    <2> QED
      BY <1>3, <2>1, <2>3, <2>5, <2>7, OtherShows DEF f
  <1> QED
    BY <1>1, <1>2, <1>3

LEMMA HandleFaithful ==
  ASSUME Sound, Faithful, NEW next, Handle(next), ~lost', NEW c \in Channels
  PROVE  Announced(c)' /\ Follows(c)'
  <1>1. /\ wire \in Seq(News) /\ wire' \in Seq(News) /\ Len(wire) > 0 /\ Len(wire) \in Nat
        /\ Len(wire') = Len(wire) - 1 /\ Head(wire) = wire[1]
        /\ \A i \in 1..(Len(wire) - 1) : wire'[i] = wire[i + 1]
        /\ lost' = lost /\ members' = members
        /\ ~early' => ~early
    BY HandleFacts DEF Sound, Typed
  <1>2. Announced(c) /\ Follows(c) /\ Truth(c)' = Truth(c)
    BY <1>1, TruthSame DEF Faithful
  <1>3. PICK M : Path(c, wire, Truth(c), M) /\ (~early /\ page # "form" => Shows(c, M[1]))
    BY <1>2 DEF Follows
  <1>4. M[1] \in View /\ M[2] \in View /\ Leads(c, M[1], Head(wire), M[2])
    <2>1. /\ M \in [1..(Len(wire) + 1) -> View]
          /\ \A i \in 1..Len(wire) : Leads(c, M[i], wire[i], M[i + 1])
      BY <1>3 DEF Path
    <2>2. 1 \in 1..(Len(wire) + 1) /\ 2 \in 1..(Len(wire) + 1) /\ 1 \in 1..Len(wire) /\ 1 + 1 = 2
      BY <1>1
    <2>3. Leads(c, M[1], wire[1], M[1 + 1])
      BY <2>1, <2>2
    <2> QED
      BY <1>1, <2>1, <2>2, <2>3
  <1>5. PICK N : Path(c, wire', Truth(c), N) /\ N[1] = M[2]
    BY <1>1, <1>3, PathTail
  <1>6. ~early' /\ page' # "form" => Shows(c, N[1])'
    <2> SUFFICES ASSUME ~early' PROVE Shows(c, N[1])'
      OBVIOUS
    <2>1. Shows(c, M[1])
      BY <1>1, <1>3, HandleRenewed
    <2>2. Shows(c, M[2])'
      BY <1>2, <1>4, <2>1, HandleShows
    <2> QED
      BY <1>5, <2>2
  <1>7. Path(c, wire', Truth(c)', N)
    BY <1>2, <1>5
  <1>8. Announced(c)'
    BY <1>2, HandleKept
  <1> QED
    BY <1>6, <1>7, <1>8, FollowsNext

-----------------------------------------------------------------------------
LEMMA InitIsFaithful == Init => Faithful
  <1> SUFFICES ASSUME Init, NEW c \in Channels PROVE Announced(c) /\ Follows(c)
    BY DEF Faithful
  <1>1. Sound /\ Len(wire) = 0 /\ page = "form"
    BY InitIsSound, Empties DEF Init
  <1>2. Truth(c) \in View
    BY <1>1, TruthIs
  <1>3. PICK M : Path(c, wire, Truth(c), M)
    BY <1>1, <1>2, PathEmpty
  <1> QED
    BY <1>1, <1>3 DEF Announced, Follows

LEMMA NextIsFaithful ==
  ASSUME Sound, Sound', Faithful, Next PROVE Faithful'
  <1>1. CASE Rejoin \/ Restore
    BY <1>1, RejoinFaithful, RestoreFaithful
  <1>2. CASE RejoinCommand
    BY <1>2, CommandsFaithful DEF RejoinCommand
  <1>3. ASSUME NEW d \in Channels, \/ JoinCommand(d) \/ JoinWithKey(d) \/ PartCommand(d)
                                   \/ RejoinTimer(d) \/ \E t \in Nexts : CloseButton(d, t)
        PROVE  Faithful'
    BY <1>3, CommandsFaithful
  <1>4. CASE \/ LinkDrops \/ Resume \/ Expire \/ Expired \/ Submit \/ Reload
             \/ \E t \in Nexts : Handle(t)
    <2>1. ASSUME ~lost', NEW c \in Channels PROVE Announced(c)' /\ Follows(c)'
      BY <1>4, <2>1, LinkDropsFaithful, ResumeFaithful, ExpireFaithful, ExpiredFaithful,
         SubmitFaithful, ReloadFaithful, HandleFaithful
    <2> QED
      BY <2>1 DEF Faithful
  <1>5. ASSUME NEW d \in Channels, ServeJoin(d) \/ ServePart(d) \/ ServeNames(d) \/ Kicked(d)
        PROVE  Faithful'
    <2>1. ASSUME ~lost', NEW c \in Channels PROVE Announced(c)' /\ Follows(c)'
      BY <1>5, <2>1, ServeJoinFaithful, ServePartFaithful, ServeNamesFaithful, KickedFaithful
    <2> QED
      BY <2>1 DEF Faithful
  <1>6. ASSUME NEW p \in Others,
               \/ \E d \in Channels : OtherJoins(p, d) \/ OtherLeaves(p, d)
               \/ OtherQuits(p) \/ \E q \in Others : OtherRenamed(p, q)
        PROVE  Faithful'
    <2>1. ASSUME ~lost', NEW c \in Channels PROVE Announced(c)' /\ Follows(c)'
      BY <1>6, <2>1, OtherJoinsFaithful, OtherLeavesFaithful, OtherQuitsFaithful,
         OtherRenamedFaithful
    <2> QED
      BY <2>1 DEF Faithful
  <1> QED
    BY <1>1, <1>2, <1>3, <1>4, <1>5, <1>6 DEF Next

(* At rest the view of the frames that are no more is the truth. *)
LEMMA AtRest ==
  ASSUME Sound, Faithful, Quiet, ~early, ~lost, NEW c \in Channels
  PROVE  Shows(c, Truth(c)) /\ later = <<>> /\ ~Renewed(0)
  <1>1. Len(wire) = 0 /\ Len(pending) = 0 /\ page = "chat" /\ link /\ session /\ later = <<>>
    BY Empties DEF Quiet, Sound, Linked
  <1>2. Follows(c)
    BY DEF Faithful
  <1>3. PICK M : Path(c, wire, Truth(c), M) /\ Shows(c, M[1])
    BY <1>1, <1>2 DEF Follows
  <1>4. M[1] = Truth(c)
    BY <1>1, <1>3 DEF Path
  <1>5. ~Renewed(0)
    BY <1>1 DEF Renewed, Connecting
  <1> QED
    BY <1>1, <1>3, <1>4, <1>5

LEMMA RestingTabs == Sound /\ Faithful => TabsMatch
  <1> SUFFICES ASSUME Sound, Faithful, Quiet, ~early, ~lost, ~refused
               PROVE  Open(ui) = Joined
    BY DEF TabsMatch
  <1>1. /\ Len(wire) = 0 /\ Len(pending) = 0 /\ page = "chat"
        /\ \A c \in Channels : ~Has(asked, "join", c)
    BY Empties, HasEmpty DEF Quiet
  <1>2. ASSUME NEW c \in Channels PROVE ui.tab[c] = "open" <=> Me \in members[c]
    <2>1. Shows(c, Truth(c)) /\ later = <<>> /\ ~Renewed(0)
      BY AtRest
    <2>2. ~Has(later, "join", c) /\ ~Joins(wire, c)
      BY <1>1, <2>1, HasEmpty DEF Joins
    <2>3. Truth(c).in <=> Me \in members[c]
      BY TruthIs
    <2>4. Truth(c).in => ui.tab[c] = "open"
      BY <1>1, <2>1 DEF Shows, TabIn
    <2>5. ui.tab[c] = "open" => Truth(c).in
      BY <1>1, <2>1, <2>2 DEF Shows, TabOut
    <2> QED
      BY <2>3, <2>4, <2>5
  <1> QED
    BY <1>2 DEF Open, Joined

LEMMA RestingNicks == Sound /\ Faithful => NickLists
  <1> SUFFICES ASSUME Sound, Faithful, Quiet, ~early, ~lost, NEW c \in Joined
               PROVE  ui.nicks[c] = members[c]
    BY DEF NickLists
  <1>1. /\ Len(wire) = 0 /\ page = "chat" /\ ~Has(asked, "names", c) /\ c \in Channels
    BY Empties, HasEmpty DEF Quiet, Joined
  <1>2. Shows(c, Truth(c))
    BY <1>1, AtRest
  <1>3. Truth(c).in /\ Truth(c).who = members[c]
    BY <1>1, TruthIs DEF Joined
  <1>4. ~Lists(wire, c)
    BY <1>1 DEF Lists
  <1> QED
    BY <1>1, <1>2, <1>3, <1>4 DEF Shows, NicksIn

(* The invariant: however commands, frames, reloads, lost connections and   *)
(* new sessions follow one another, what the page shows is what handle made *)
(* of the frames that came, and those under way lead to the server's truth  *)
(* (app.js:1442-1485 and handle; the buffer of session.go).                 *)
THEOREM FaithfulAlways == Spec => [](Sound /\ Faithful)
  <1>1. Init => Sound /\ Faithful
    BY InitIsSound, InitIsFaithful
  <1>2. Sound /\ Faithful /\ [Next]_vars => (Sound /\ Faithful)'
    <2> SUFFICES ASSUME Sound, Faithful, [Next]_vars PROVE Sound' /\ Faithful'
      OBVIOUS
    <2>1. CASE Next
      BY <2>1, NextIsSound, NextIsFaithful
    <2>2. CASE UNCHANGED vars
      <3>1. /\ ui' = ui /\ page' = page /\ params' = params /\ pending' = pending
            /\ link' = link /\ session' = session /\ wire' = wire /\ asked' = asked
            /\ later' = later /\ members' = members /\ rejoins' = rejoins /\ early' = early
            /\ lost' = lost /\ refused' = refused
        BY <2>2 DEF vars
      <3>2. Sound'
        <4>1. Typed'
          BY <3>1 DEF Sound, Typed
        <4>2. Linked' /\ Tidy'
          BY <3>1 DEF Sound, Linked, Marks, Joined, Tidy, Neat, Plain
        <4> QED
          BY <4>1, <4>2 DEF Sound
      <3>3. Faithful'
        <4> SUFFICES ASSUME ~lost', NEW c \in Channels PROVE Announced(c)' /\ Follows(c)'
          BY DEF Faithful
        <4>1. Announced(c) /\ Follows(c) /\ Truth(c)' = Truth(c)
          BY <3>1, TruthSame DEF Faithful
        <4>2. Answered(c, <<>>)
          BY <3>1, KeptAnswered
        <4> QED
          BY <3>1, <4>1, <4>2, NoneMore
      <3> QED
        BY <3>2, <3>3
    <2> QED
      BY <2>1, <2>2
  <1> QED
    BY <1>1, <1>2, PTL DEF Spec

(* A page at rest has open tabs for the channels the user is in and for no  *)
(* other: saveChannels, restoreSavedChannels, the rejoin after connected    *)
(* and the list of resumed lose none and invent none.                       *)
THEOREM TabsAreTheChannels == Spec => []TabsMatch
  BY FaithfulAlways, RestingTabs, PTL

(* A page at rest lists in the tab of a channel the users who are in it on  *)
(* the server: a join, part, kick, quit or nick that was buffered, or came  *)
(* while the page was away, is neither missing nor counted twice, since the *)
(* names asked for on resumed and after a join come after it.               *)
THEOREM NamesAreTheServers == Spec => []NickLists
  BY FaithfulAlways, RestingNicks, PTL
=============================================================================
