------------------------------ MODULE Channels ------------------------------
(***************************************************************************)
(* The channel tabs of one browser (state.channels in app.js) and the      *)
(* channels the user is in on the IRC server, through joins, kicks, lost   *)
(* connections, reloads of the page, resumed and expired sessions.         *)
(*                                                                         *)
(* The tabs are the record ui, and what a function of app.js does to them  *)
(* is an operator from ui to ui.  Requests wait in asked until the IRC     *)
(* server serves them, and what ircLoop makes of its answers waits in wire *)
(* until the browser handles it, meanwhile in the session's buffer when    *)
(* the browser is away.  Which socket carries them is left to Browser and  *)
(* SessionSocket.                                                          *)
(***************************************************************************)
EXTENDS Naturals, Sequences, FiniteSets

CONSTANTS
    Channels,    \* channels, by their key: the name in lower case
    Me, Others,  \* users
    Server,      \* the tab of the server, and those that are no channel's
    NoTab,       \* state.active = null
    BufMax,      \* limit of the session's buffer
    MaxAsked,    \* bound: requests under way
    MaxPending   \* bound: logs being loaded at the same time

People == Others \cup {Me}

ASSUME ChannelsAssumption ==
    /\ Me \notin Others
    /\ Server \notin Channels /\ NoTab \notin Channels /\ Server # NoTab
    /\ BufMax \in Nat /\ MaxAsked \in Nat /\ MaxPending \in Nat

VARIABLES
    ui,        \* what the page shows and remembers, see UI
    page,      \* "form", "chat", or "fresh": reloaded with ?s=, state.nick = ''
    params,    \* connectParams is not null
    pending,   \* continuations of preloadLogs that wait, oldest first
    link,      \* the browser has a connection
    session,   \* the session is alive
    wire,      \* frames on their way to the browser, or in the buffer
    asked,     \* requests on their way to the IRC server
    later,     \* pendingSends
    members,   \* channel -> who is in it, on the IRC server
    rejoins,   \* channels that /rejoin has left and will join in 500 ms
    early,     \* a frame came too early for a page that was not ready, see Early
    lost,      \* frames were lost, with a connection or in a full buffer
    refused    \* the server refused to let the user into a channel that has a tab

vars == <<ui, page, params, pending, link, session, wire, asked, later,
          members, rejoins, early, lost, refused>>
history == <<early, lost, refused>>

UI == [tab : [Channels -> {"none", "offline", "open"}],
       nicks : [Channels -> SUBSET People],
       active : Channels \cup {Server, NoTab},
       saved : SUBSET Channels]              \* in localStorage

Joined == {c \in Channels : Me \in members[c]}

Blank(saved) == [tab |-> [c \in Channels |-> "none"], nicks |-> [c \in Channels |-> {}],
                 active |-> NoTab, saved |-> saved]

Init ==
    /\ ui = Blank({}) /\ page = "form" /\ params = FALSE /\ pending = <<>>
    /\ link = FALSE /\ session = FALSE
    /\ wire = <<>> /\ asked = <<>> /\ later = <<>>
    /\ members \in [Channels -> SUBSET Others] /\ rejoins = {}
    /\ early = FALSE /\ lost = FALSE /\ refused = FALSE

-----------------------------------------------------------------------------
(* The functions of app.js. *)
Found(u, c) == u.tab[c] # "none"
Open(u) == {c \in Channels : u.tab[c] = "open"}

ensureChannel(u, c) == IF Found(u, c) THEN u
                       ELSE [u EXCEPT !.tab[c] = "open", !.nicks[c] = {}]
setActive(u, t) == IF t = Server \/ (t \in Channels /\ Found(u, t))
                   THEN [u EXCEPT !.active = t] ELSE u
(* Mutant: the tab that was active stays active. *)
RemoveOnly(u, c, next) == [u EXCEPT !.tab[c] = "none", !.nicks[c] = {}]

(* The tab that follows is the first one in the order in which tabs were   *)
(* made: the server's, or one made before it.                               *)
removeChannel(u, c, next) ==
    LET v == [u EXCEPT !.tab[c] = "none", !.nicks[c] = {}]
    IN  IF u.active = c THEN setActive(v, IF next = c THEN Server ELSE next) ELSE v
saveChannels(u) == [u EXCEPT !.saved = Open(u)]

(* restoreSavedChannels: saved channels come back offline. *)
restoreSavedChannels(u) ==
    [u EXCEPT !.tab = [c \in Channels |-> IF c \in u.saved /\ u.tab[c] = "none"
                                          THEN "offline" ELSE u.tab[c]]]

(* What the user asks for, once there is a connection. *)
send(ops) == IF link THEN asked' = asked \o ops /\ UNCHANGED later
                     ELSE later' = later \o ops /\ UNCHANGED asked
Room == Len(asked) + Len(later) < MaxAsked
Ask(o, S) == IF S = {} THEN <<>> ELSE <<[op |-> o, chans |-> S]>>

(* The cases of handle for a channel.  On a fresh page nobody is state.nick. *)
Self(f) == f.who = Me /\ page # "fresh"

HandleJoin(u, f) ==
    LET v == ensureChannel(u, f.chan) IN
    IF Self(f)
    THEN saveChannels(setActive([v EXCEPT !.tab[f.chan] = "open"], f.chan))
    ELSE [v EXCEPT !.nicks[f.chan] = @ \cup {f.who}]

HandlePart(u, f, next) ==
    IF Self(f)
    THEN saveChannels(IF Found(u, f.chan) THEN removeChannel(u, f.chan, next) ELSE u)
    ELSE IF Found(u, f.chan) THEN [u EXCEPT !.nicks[f.chan] = @ \ {f.who}] ELSE u

(* Mutant: the user's own kick is like another's. *)
KickKeepsTab(u, f, next) ==
    IF Found(u, f.chan) THEN [u EXCEPT !.nicks[f.chan] = @ \ {f.who}] ELSE u

HandleKick(u, f, next) ==
    IF ~Found(u, f.chan) THEN u
    ELSE LET v == [u EXCEPT !.nicks[f.chan] = @ \ {f.who}]
         IN  IF Self(f) THEN removeChannel(v, f.chan, next) ELSE v

HandleQuit(u, f) == [u EXCEPT !.nicks = [c \in Channels |-> @[c] \ {f.who}]]

HandleNick(u, f) ==
    [u EXCEPT !.nicks = [c \in Channels |-> IF f.who \in @[c]
                                            THEN (@[c] \ {f.who}) \cup {f.new} ELSE @[c]]]

HandleNames(u, f) ==
    IF Found(u, f.chan) THEN [u EXCEPT !.nicks[f.chan] = f.list] ELSE u

Tabs(u, f, next) ==
    CASE f.type = "join"  -> HandleJoin(u, f)
      [] f.type = "part"  -> HandlePart(u, f, next)
      [] f.type = "kick"  -> HandleKick(u, f, next)
      [] f.type = "quit"  -> HandleQuit(u, f)
      [] f.type = "nick"  -> HandleNick(u, f)
      [] f.type = "names" -> HandleNames(u, f)
      [] OTHER -> u

(* Frames that a page before its continuation does not take as it should:  *)
(* the user's own, and a list of names for a tab that is not there yet.     *)
Early(f) ==
    /\ page = "fresh" \/ pending # <<>>
    /\ \/ f.type \in {"join", "part", "kick"} /\ f.who = Me
       \/ f.type = "names" /\ ui.tab[f.chan] = "none"

-----------------------------------------------------------------------------
(* Frames to the browser: the buffer takes what it has room for, and on a  *)
(* connection BufMax bounds what is under way.                             *)
Frame(t, c, p) == [type |-> t, chan |-> c, who |-> p]
Emit(fs) ==
    IF link THEN wire' = wire \o fs /\ UNCHANGED lost
    ELSE LET n == IF Len(wire) + Len(fs) > BufMax THEN BufMax - Len(wire) ELSE Len(fs)
         IN  /\ wire' = wire \o SubSeq(fs, 1, n)
             /\ lost' = (lost \/ n < Len(fs))
Calm == link => Len(wire) < BufMax

Names(c, S) == [type |-> "names", chan |-> c, list |-> S]

(* The IRC server serves a request, one channel at a time. *)
Served(c) == LET o == Head(asked) IN
    asked' = Ask(o.op, o.chans \ {c}) \o Tail(asked)

ServeJoin(c) ==
    /\ asked # <<>> /\ Head(asked).op = "join" /\ c \in Head(asked).chans /\ Calm
    /\ Served(c)
    /\ IF Me \in members[c]
       THEN UNCHANGED <<members, wire, lost, refused>>
       ELSE \/ /\ members' = [members EXCEPT ![c] = @ \cup {Me}]
               /\ Emit(<<Frame("join", c, Me), Names(c, members'[c])>>)
               /\ UNCHANGED refused
            \/ /\ Emit(<<Frame("join_error", c, Me)>>)
               /\ refused' = (refused \/ ui.tab[c] = "open")
               /\ UNCHANGED members
    /\ UNCHANGED <<ui, page, params, pending, link, session, later, rejoins, early>>

ServePart(c) ==
    /\ asked # <<>> /\ Head(asked).op = "part" /\ c \in Head(asked).chans /\ Calm
    /\ Served(c)
    /\ members' = [members EXCEPT ![c] = @ \ {Me}]
    /\ IF c \in Joined THEN Emit(<<Frame("part", c, Me)>>) ELSE UNCHANGED <<wire, lost>>
    /\ UNCHANGED <<ui, page, params, pending, link, session, later, rejoins,
                   early, refused>>

ServeNames(c) ==
    /\ asked # <<>> /\ Head(asked).op = "names" /\ c \in Head(asked).chans /\ Calm
    /\ Served(c)
    /\ Emit(<<Names(c, members[c])>>)
    /\ UNCHANGED <<ui, page, params, pending, link, session, later, members, rejoins,
                   early, refused>>

(* The others: what they do reaches the session in the channels it is in.  *)
Tell(S, f) == IF S \cap Joined # {} THEN Calm /\ Emit(<<f>>) ELSE UNCHANGED <<wire, lost>>
world == <<ui, page, params, pending, link, session, asked, later, rejoins, early, refused>>

OtherJoins(p, c) ==
    /\ p \notin members[c]
    /\ members' = [members EXCEPT ![c] = @ \cup {p}]
    /\ Tell({c}, Frame("join", c, p))
    /\ UNCHANGED world
(* A part; a kick does the same to the list of names. *)
OtherLeaves(p, c) ==
    /\ p \in members[c]
    /\ members' = [members EXCEPT ![c] = @ \ {p}]
    /\ Tell({c}, Frame("part", c, p))
    /\ UNCHANGED world
Kicked(c) ==
    /\ c \in Joined /\ Calm
    /\ members' = [members EXCEPT ![c] = @ \ {Me}]
    /\ Emit(<<Frame("kick", c, Me)>>)
    /\ UNCHANGED world
OtherQuits(p) ==
    /\ \E c \in Channels : p \in members[c]
    /\ members' = [c \in Channels |-> members[c] \ {p}]
    /\ Tell({c \in Channels : p \in members[c]}, [type |-> "quit", who |-> p])
    /\ UNCHANGED world
OtherRenamed(p, q) ==
    /\ \E c \in Channels : p \in members[c]
    /\ \A c \in Channels : q \notin members[c]
    /\ members' = [c \in Channels |-> IF p \in members[c]
                                      THEN (members[c] \ {p}) \cup {q} ELSE members[c]]
    /\ Tell({c \in Channels : p \in members[c]}, [type |-> "nick", who |-> p, new |-> q])
    /\ UNCHANGED world

-----------------------------------------------------------------------------
(* The connection. *)

(* A session whose connected frame has not arrived has an ID that the page *)
(* does not know: nobody returns to it, and it is counted as gone.          *)
Unknown == \E i \in DOMAIN wire : wire[i].type = "connected"
Gone == /\ session' = FALSE
        /\ members' = [c \in Channels |-> members[c] \ {Me}]
        /\ asked' = <<>>

(* Frames on their way are lost; the buffer starts empty.  A page that does *)
(* not know its session shows the form (onConnectFailed).                   *)
LinkDrops ==
    /\ link
    /\ link' = FALSE
    /\ wire' = <<>>
    /\ lost' = (lost \/ wire # <<>>)
    /\ IF Unknown THEN Gone /\ page' = "form" /\ ui' = Blank(ui.saved)
                  ELSE UNCHANGED <<ui, page, session, members, asked>>
    /\ UNCHANGED <<params, pending, later, rejoins, early, refused>>

(* Mutant: the server is not asked for names. *)
ResumeWithoutNames ==
    /\ page # "form" /\ ~link /\ session
    /\ link' = TRUE
    /\ wire' = Append(wire, [type |-> "resumed", list |-> Joined])
    /\ asked' = asked \o later
    /\ later' = <<>>
    /\ UNCHANGED <<ui, page, params, pending, session, members, rejoins, history>>

(* Resume and SendResumed: the buffer, the channels, and NAMES for them;   *)
(* what the page had queued follows.                                       *)
Resume ==
    /\ page # "form" /\ ~link /\ session
    /\ Len(asked) + Len(later) <= MaxAsked
    /\ link' = TRUE
    /\ wire' = Append(wire, [type |-> "resumed", list |-> Joined])
    /\ asked' = asked \o Ask("names", Joined) \o later
    /\ later' = <<>>
    /\ UNCHANGED <<ui, page, params, pending, session, members, rejoins, history>>

Expire ==
    /\ ~link /\ session
    /\ Gone
    /\ wire' = <<>>
    /\ UNCHANGED <<ui, page, params, pending, link, later, rejoins, history>>

Connects == /\ link' = TRUE /\ session' = TRUE
            /\ wire' = <<[type |-> "connected"]>>
            /\ asked' = <<>> /\ later' = <<>>

(* session_expired: connect again with connectParams, or show the form. *)
Expired ==
    /\ page # "form" /\ ~link /\ ~session
    /\ IF params THEN Connects /\ UNCHANGED <<ui, page>>
       ELSE /\ page' = "form" /\ ui' = Blank(ui.saved)
            /\ UNCHANGED <<link, session, wire, asked, later>>
    /\ UNCHANGED <<params, pending, members, rejoins, history>>

Submit ==
    /\ page = "form"
    /\ page' = "chat" /\ params' = TRUE
    /\ ui' = setActive(ui, Server)
    /\ Connects
    /\ UNCHANGED <<pending, members, rejoins, history>>

(* The page is loaded again, with ?s= if it knew the session. *)
Reload ==
    /\ page # "form"
    /\ page' = IF Unknown THEN "form" ELSE "fresh"
    /\ params' = FALSE /\ pending' = <<>>
    /\ ui' = Blank(ui.saved) /\ later' = <<>>
    /\ link' = FALSE /\ wire' = IF link THEN <<>> ELSE wire
    /\ IF Unknown THEN Gone ELSE UNCHANGED <<session, members, asked>>
    /\ rejoins' = {} /\ early' = FALSE /\ refused' = FALSE
    /\ lost' = (lost /\ ~link /\ wire # <<>>)

-----------------------------------------------------------------------------
(* The user, at a page that shows the chat. *)

(* /join, the join button and a click on an offline tab. *)
JoinCommand(c) ==
    /\ page = "chat" /\ Room
    /\ IF ui.tab[c] = "open" THEN ui' = setActive(ui, c) /\ UNCHANGED <<asked, later>>
                             ELSE send(Ask("join", {c})) /\ UNCHANGED ui
    /\ UNCHANGED <<page, params, pending, link, session, wire, members, rejoins, history>>

(* /join with a key makes the tab at once, to keep the key. *)
JoinWithKey(c) ==
    /\ page = "chat" /\ Room
    /\ ui.tab[c] # "open"
    /\ send(Ask("join", {c}))
    /\ ui' = ensureChannel(ui, c)
    /\ UNCHANGED <<page, params, pending, link, session, wire, members, rejoins, history>>

(* The button of a tab closes it when it is offline, and leaves otherwise. *)
CloseButton(c, next) ==
    /\ page = "chat" /\ Room /\ ui.tab[c] # "none"
    /\ IF ui.tab[c] = "offline"
       THEN ui' = saveChannels(removeChannel(ui, c, next)) /\ UNCHANGED <<asked, later>>
       ELSE send(Ask("part", {c})) /\ UNCHANGED ui
    /\ UNCHANGED <<page, params, pending, link, session, wire, members, rejoins, history>>

(* /part, of any channel. *)
PartCommand(c) ==
    /\ page = "chat" /\ Room
    /\ send(Ask("part", {c}))
    /\ UNCHANGED <<ui, page, params, pending, link, session, wire, members, rejoins,
                   history>>

(* /rejoin leaves the active channel, and joins it when its timer fires,   *)
(* whatever has become of the connection and the tab by then.              *)
RejoinCommand ==
    /\ page = "chat" /\ Room
    /\ ui.active \in Channels
    /\ send(Ask("part", {ui.active}))
    /\ rejoins' = rejoins \cup {ui.active}
    /\ UNCHANGED <<ui, page, params, pending, link, session, wire, members, history>>

RejoinTimer(c) ==
    /\ c \in rejoins
    /\ rejoins' = rejoins \ {c}
    /\ IF page = "form" THEN UNCHANGED <<asked, later>>
                        ELSE Room /\ send(Ask("join", {c}))
    /\ UNCHANGED <<ui, page, params, pending, link, session, wire, members, history>>

-----------------------------------------------------------------------------
(* The page. *)

Handle(next) ==
    /\ link /\ wire # <<>>
    /\ LET f == Head(wire) IN
       /\ f.type \in {"connected", "resumed"} => Len(pending) < MaxPending
       /\ pending' = IF f.type = "connected" THEN Append(pending, [op |-> "rejoin"])
                     ELSE IF f.type = "resumed"
                          THEN Append(pending, [op |-> "resume", chans |-> f.list])
                     ELSE pending
       /\ page' = IF f.type = "resumed" THEN "chat" ELSE page
       /\ ui' = Tabs(ui, f, next)
       /\ early' = (early \/ Early(f))
    /\ wire' = Tail(wire)
    /\ UNCHANGED <<params, link, session, asked, later, members, rejoins, lost, refused>>

(* The log is loaded: connected joins again what was open, ... *)
Rejoin ==
    /\ pending # <<>> /\ Head(pending).op = "rejoin" /\ Room
    /\ pending' = Tail(pending)
    /\ LET u == restoreSavedChannels(ui) IN
       /\ ui' = [u EXCEPT !.nicks = [c \in Channels |-> IF c \in Open(u) THEN {} ELSE @[c]]]
       /\ send(Ask("join", Open(u)))
    /\ UNCHANGED <<page, params, link, session, wire, members, rejoins, history>>

(* ... and resumed opens what the session is in. *)
Restore ==
    /\ pending # <<>> /\ Head(pending).op = "resume"
    /\ pending' = Tail(pending)
    /\ LET u == restoreSavedChannels(ui)
           S == Head(pending).chans IN
       ui' = setActive([u EXCEPT !.tab = [c \in Channels |->
                                            IF c \in S THEN "open" ELSE @[c]]], Server)
    /\ UNCHANGED <<page, params, link, session, wire, asked, later, members, rejoins, history>>

Nexts == {Server} \cup Open(ui)
Next ==
    \/ LinkDrops \/ Resume \/ Expire \/ Expired \/ Submit \/ Reload \/ Rejoin \/ Restore
    \/ RejoinCommand
    \/ \E t \in Nexts : Handle(t)
    \/ \E c \in Channels : \/ ServeJoin(c) \/ ServePart(c) \/ ServeNames(c) \/ Kicked(c)
                           \/ JoinCommand(c) \/ JoinWithKey(c)
                           \/ PartCommand(c) \/ RejoinTimer(c)
                           \/ \E t \in Nexts : CloseButton(c, t)
                           \/ \E p \in Others : OtherJoins(p, c) \/ OtherLeaves(p, c)
    \/ \E p \in Others : OtherQuits(p) \/ \E q \in Others : OtherRenamed(p, q)

Spec == Init /\ [][Next]_vars

-----------------------------------------------------------------------------
Quiet == page = "chat" /\ link /\ wire = <<>> /\ asked = <<>> /\ pending = <<>>

(* Types, and the limit of the buffer. *)
TypeOK ==
    /\ ui \in UI
    /\ page \in {"form", "chat", "fresh"}
    /\ params \in BOOLEAN /\ link \in BOOLEAN /\ session \in BOOLEAN
    /\ Len(pending) <= MaxPending
    /\ ~link => Len(wire) <= BufMax
    /\ members \in [Channels -> SUBSET People] /\ rejoins \subseteq Channels
    /\ early \in BOOLEAN /\ lost \in BOOLEAN /\ refused \in BOOLEAN

(* When nothing is under way, the open tabs are the channels that the user  *)
(* is in, however often the connection was lost, the page reloaded or the   *)
(* session replaced.  Not so if frames were lost, or came before the log of *)
(* the page was loaded, until the page is reloaded; or if a tab made before *)
(* the answer stayed when the server refused.                               *)
TabsMatch == Quiet /\ ~early /\ ~lost /\ ~refused => Open(ui) = Joined

(* In the same moments, refusals or not, the list of names of an open tab   *)
(* is the channel's on the server: no join, part, quit or new nick that was *)
(* buffered or came while the page was away is missing or counted twice.    *)
NickLists == Quiet /\ ~early /\ ~lost =>
    \A c \in Joined \cap Open(ui) : ui.nicks[c] = members[c]

(* What the user types goes to state.active: it is the server's tab or an   *)
(* open channel, never a tab that was closed or has come back offline.      *)
ActiveIsOpen == ui.active \in {Server, NoTab} \cup Open(ui)
=============================================================================
