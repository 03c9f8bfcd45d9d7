------------------------------ MODULE AutoAway ------------------------------
(***************************************************************************)
(* The away state of the user: what app.js believes of it, its auto-away   *)
(* (resetAutoAway), the Away button and /away, and the truth on the IRC    *)
(* server, through lost connections, reloads and replaced sessions.        *)
(*                                                                         *)
(* Lines of the page wait in later (pendingSends) or in up until the IRC   *)
(* server takes them; its answers, 305 and 306, are frames in down, which  *)
(* is the session's buffer while there is no connection.                   *)
(***************************************************************************)
EXTENDS Naturals, Sequences

CONSTANTS
    MaxLines,  \* bound: lines of the page under way
    MaxDown    \* bound: frames under way

ASSUME AutoAwayAssumption == MaxLines \in Nat /\ MaxDown \in Nat

VARIABLES
    page,       \* "form" or "chat"
    params,     \* connectParams is not null
    connected, away,  \* of state
    auto,       \* autoAwayActive
    timer,      \* autoAwayTimer is set
    mins,       \* autoAwayMins > 0
    link,       \* the browser has a connection
    session,    \* the session is alive
    later, up, down,
    irc,        \* on the IRC server: "here", "auto" or "manual"
    meant,      \* the user last asked to be away, in this session
    blind,      \* the page has not been told how things are
    lost,       \* a line was lost, and the user has not asked for anything since
    orphan,     \* a page in auto-away was reloaded, and likewise
    overridden  \* auto-away was asked for behind an answer to the user

lines   == <<later, up>>
net     == <<params, link, session, down, irc>>
history == <<meant, blind, lost, orphan, overridden>>
vars == <<page, connected, away, auto, timer, mins, lines, net, history>>

Init ==
    /\ page = "form" /\ params = FALSE
    /\ connected = FALSE /\ away = FALSE /\ auto = FALSE /\ timer = FALSE
    /\ mins \in BOOLEAN
    /\ link = FALSE /\ session = FALSE /\ irc = "here"
    /\ later = <<>> /\ up = <<>> /\ down = <<>>
    /\ meant = FALSE /\ blind = FALSE /\ lost = FALSE
    /\ orphan = FALSE /\ overridden = FALSE

-----------------------------------------------------------------------------
(* send: to the session, to pendingSends, or nowhere. *)
send(ls) ==
    /\ Len(up) + Len(later) + Len(ls) <= MaxLines
    /\ CASE link           -> up' = up \o ls /\ UNCHANGED later
         [] ~link /\ page = "chat" -> later' = later \o ls /\ UNCHANGED up
         [] OTHER -> UNCHANGED lines

Back == IF auto THEN <<"back">> ELSE <<>>

(* Mutant: an auto-away is forgotten and not taken back. *)
ForgetAway(conn, m, ls) ==
    /\ send(ls) /\ auto' = FALSE /\ timer' = (conn /\ m)

(* The page is active: resetAutoAway, where state.connected is conn and     *)
(* autoAwayMins > 0 is m, and then what the user asks for.                  *)
resetAutoAway(conn, m, ls) ==
    /\ send(Back \o ls)
    /\ auto' = FALSE
    /\ timer' = (conn /\ m)

(* A key or a mouse button. *)
Active ==
    /\ auto \/ (connected /\ mins /\ ~timer)
    /\ resetAutoAway(connected, mins, <<>>)
    /\ UNCHANGED <<page, connected, away, mins, net, history>>

SetMins(b) ==
    /\ b # mins /\ mins' = b
    /\ IF connected THEN resetAutoAway(TRUE, b, <<>>) ELSE UNCHANGED <<auto, timer, lines>>
    /\ UNCHANGED <<page, connected, away, net, history>>

(* /away, with a message or without. *)
AwayCommand(line) ==
    /\ page = "chat"
    /\ resetAutoAway(connected, mins, <<line>>)
    /\ meant' = (line = "manual")
    /\ lost' = FALSE /\ orphan' = FALSE /\ overridden' = FALSE
    /\ UNCHANGED <<page, connected, away, mins, net, blind>>

AwayButton == AwayCommand(IF away THEN "back" ELSE "manual")

Pending == later # <<>> \/ up # <<>> \/ down # <<>>

(* Mutant: state.away is not looked at. *)
AwayWhileAway ==
    /\ timer /\ timer' = FALSE
    /\ auto' = TRUE
    /\ send(<<"auto">>)
    /\ overridden' = (overridden \/ (meant /\ (blind \/ Pending)))
    /\ orphan' = FALSE
    /\ UNCHANGED <<page, connected, away, mins, net, meant, blind, lost>>

(* Nothing has been touched for autoAwayMins. *)
AutoAwayTimer ==
    /\ timer /\ timer' = FALSE
    /\ ~away
    /\ auto' = TRUE
    /\ send(<<"auto">>)
    /\ overridden' = (overridden \/ (meant /\ (blind \/ Pending)))
    /\ orphan' = FALSE
    /\ UNCHANGED <<page, connected, away, mins, net, meant, blind, lost>>

(* ... in vain: the user is away, or in a channel for idling. *)
TimerInVain ==
    /\ timer /\ timer' = FALSE
    /\ UNCHANGED <<page, connected, away, auto, mins, lines, net, history>>

-----------------------------------------------------------------------------
(* The IRC server takes a line and answers it.  A line that comes before    *)
(* the session is registered may be refused.                                *)
Registering == \E i \in DOMAIN down : down[i] = "connected"
Answer(line) == IF line = "back" THEN "unaway" ELSE "nowaway"

Serve ==
    /\ session /\ up # <<>> /\ Len(down) < MaxDown
    /\ up' = Tail(up)
    /\ \/ /\ irc' = IF Head(up) = "back" THEN "here" ELSE Head(up)
          /\ down' = Append(down, Answer(Head(up)))
          /\ UNCHANGED lost
       \/ /\ Registering
          /\ lost' = TRUE
          /\ UNCHANGED <<irc, down>>
    /\ UNCHANGED <<page, connected, away, auto, timer, mins, later, params, link, session,
                   meant, blind, orphan, overridden>>

(* The session of a page that does not know its ID is as good as gone. *)
Gone == session' = FALSE /\ irc' = "here" /\ up' = <<>>

(* The connection is lost, with the frames and some of the lines on it; a   *)
(* page that has no session then shows the form.                            *)
Drop(n) == /\ up' = SubSeq(up, 1, n)
           /\ lost' = (lost \/ n < Len(up))
LinkDrops ==
    /\ link /\ link' = FALSE
    /\ down' = <<>>
    /\ blind' = (blind \/ \E i \in DOMAIN down : down[i] \in {"nowaway", "unaway"})
    /\ IF Registering THEN Gone /\ page' = "form" /\ UNCHANGED lost
       ELSE (\E n \in 0..Len(up) : Drop(n)) /\ UNCHANGED <<page, session, irc>>
    /\ UNCHANGED <<connected, away, auto, timer, mins, later, params,
                   meant, orphan, overridden>>

Resume ==
    /\ page = "chat" /\ ~link /\ session /\ Len(down) < MaxDown
    /\ link' = TRUE
    /\ down' = Append(down, "resumed")
    /\ up' = up \o later /\ later' = <<>>
    /\ UNCHANGED <<page, connected, away, auto, timer, mins, params, session, irc, history>>

Expire ==
    /\ ~link /\ session
    /\ Gone /\ down' = <<>>
    /\ UNCHANGED <<page, connected, away, auto, timer, mins, later, params, link, history>>

(* A new session, whose user is not away, for a page that may say so. *)
Connects ==
    /\ link' = TRUE /\ session' = TRUE /\ irc' = "here"
    /\ up' = <<>> /\ later' = <<>> /\ down' = <<"connected">>
    /\ meant' = FALSE /\ lost' = FALSE /\ orphan' = FALSE /\ overridden' = FALSE
    /\ blind' = away

(* session_expired *)
Expired ==
    /\ page = "chat" /\ ~link /\ ~session
    /\ connected' = FALSE
    /\ IF params THEN Connects /\ UNCHANGED page
       ELSE page' = "form" /\ UNCHANGED <<lines, link, session, down, irc, history>>
    /\ UNCHANGED <<away, auto, timer, mins, params>>

Submit ==
    /\ page = "form"
    /\ page' = "chat" /\ params' = TRUE
    /\ Connects
    /\ UNCHANGED <<connected, away, auto, timer, mins>>

(* onDisconnect, after the disconnect button. *)
Disconnect ==
    /\ page = "chat" /\ connected
    /\ page' = "form" /\ connected' = FALSE
    /\ auto' = FALSE /\ timer' = FALSE
    /\ link' = FALSE /\ Gone /\ down' = <<>>
    /\ UNCHANGED <<away, mins, later, params, history>>

(* The page is loaded again with ?s=, and what it knew is gone. *)
Reload ==
    /\ page = "chat" /\ ~Registering
    /\ params' = FALSE /\ link' = FALSE
    /\ connected' = FALSE /\ away' = FALSE /\ auto' = FALSE /\ timer' = FALSE
    /\ later' = <<>>
    /\ \E n \in 0..Len(up) : /\ up' = SubSeq(up, 1, n)
                             /\ lost' = (lost \/ n < Len(up) \/ later # <<>>)
    /\ down' = IF link THEN <<>> ELSE down
    /\ blind' = (irc # "here")
    /\ orphan' = (orphan \/ auto)
    /\ UNCHANGED <<page, mins, session, irc, meant, overridden>>

(* Mutant: resumed, too, resets state.away. *)
HandleAsNew ==
    /\ link /\ down # <<>>
    /\ down' = Tail(down)
    /\ LET f == Head(down) IN
       /\ away' = (f = "nowaway")
       /\ blind' = (blind /\ f \in {"connected", "resumed"})
       /\ IF f \in {"connected", "resumed"}
          THEN connected' = TRUE /\ resetAutoAway(TRUE, mins, <<>>)
          ELSE UNCHANGED <<connected, auto, timer, lines>>
    /\ UNCHANGED <<page, mins, params, link, session, irc, meant, lost, orphan, overridden>>

(* The page handles a frame. *)
Handle ==
    /\ link /\ down # <<>>
    /\ down' = Tail(down)
    /\ LET f == Head(down) IN
       IF f \in {"connected", "resumed"}
       THEN /\ connected' = TRUE
            /\ resetAutoAway(TRUE, mins, <<>>)
            /\ UNCHANGED <<away, blind>>
       ELSE /\ away' = (f = "nowaway")
            /\ blind' = FALSE
            /\ UNCHANGED <<connected, auto, timer, lines>>
    /\ UNCHANGED <<page, mins, params, link, session, irc, meant, lost, orphan, overridden>>

-----------------------------------------------------------------------------
Next ==
    \/ Active \/ AwayButton \/ AutoAwayTimer \/ TimerInVain
    \/ \E b \in BOOLEAN : SetMins(b)
    \/ \E line \in {"manual", "back"} : AwayCommand(line)
    \/ Serve \/ LinkDrops \/ Resume \/ Expire \/ Expired
    \/ Submit \/ Disconnect \/ Reload \/ Handle
Spec == Init /\ [][Next]_vars

-----------------------------------------------------------------------------
Quiet == page = "chat" /\ link /\ ~Pending

(* An auto-away ends: a user whom the IRC server has as "Auto-away" when    *)
(* nothing is under way is at a page that will take it back at the first    *)
(* key.  Not so when that page was reloaded, or a line was lost.            *)
BackFromAuto == Quiet /\ ~orphan /\ ~lost => (irc = "auto" => auto)

(* The Away button says what the IRC server has, except that a page which   *)
(* was reloaded, lost an answer or got a new session while away goes wrong  *)
(* until the next answer.                                                   *)
AwayShown == Quiet /\ ~blind => (away <=> irc # "here")

(* Auto-away and its end leave an away that the user asked for alone, if it *)
(* was answered before and the page told.                                   *)
ManualKept == Quiet /\ ~lost /\ ~overridden => (meant => irc = "manual")
=============================================================================
