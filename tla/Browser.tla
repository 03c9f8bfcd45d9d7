------------------------------ MODULE Browser ------------------------------
(***************************************************************************)
(* One browser tab and the WebSockets it opens, closes and reopens: the    *)
(* transport half of app.js (openWS, send, scheduleReconnect, the session  *)
(* messages of handle, the disconnect and cancel buttons, the URL's ?s=),  *)
(* against the server's side of the same sockets (handler.go: wsHandler).  *)
(*                                                                         *)
(* JavaScript runs one callback at a time, so a callback is one step.  The *)
(* tab's state is the record page, and what a function of app.js does to   *)
(* it is an operator from page to page.  Time is left out: a timer that is *)
(* set may fire at any moment.  Frames take time to reach the browser.  A  *)
(* frame to the server takes effect at once, or never when the connection  *)
(* is already lost: the browser could not tell it from a slower one.       *)
(***************************************************************************)
EXTENDS Naturals, Sequences, FiniteSets

CONSTANTS
    Sockets,     \* names of WebSocket objects, reused once both ends are done
    Sessions,    \* names of sessions, reused once they and the tab are done
    NoSocket,    \* state.ws = null
    NoSession,   \* no session ID
    PendingMax,  \* limit of pendingSends (100)
    MaxTimers    \* bound: reconnect timers that wait at the same time

ASSUME BrowserAssumption ==
    /\ NoSocket \notin Sockets
    /\ NoSession \notin Sessions
    /\ Sessions \cap {"connect", "none", "new", "registering", "closed"} = {}
    /\ IsFiniteSet(Sockets)
    /\ PendingMax \in Nat /\ MaxTimers \in Nat

VARIABLES
    page,      \* what JavaScript knows, see Page
    link,      \* socket -> its connection carries bytes
    down,      \* socket -> frames on their way to the browser
    handler,   \* socket -> its wsHandler: "none", at "new", "registering" or
               \*           "closed" without a session ID, or the session
    session,   \* session -> "free", "live", "dead" (its IRC side has ended)
    attached,  \* session -> s.ws
    farewell,  \* session -> a disconnected frame waits in s.buf
    over,      \* a session of this page has ended, not by expiring, and may
               \* have left a timer or a socket behind
    astray     \* a message has reached a session it was not typed for

server == <<handler, session, attached, farewell>>
vars   == <<page, link, down, server, over, astray>>

Maybe(S) == S \cup {NoSession}

(* What the browser sends: connect, or a line for that session. *)
Frames == {"connect"} \cup Maybe(Sessions)

Page == [ws : Sockets \cup {NoSocket},
         sessionId : Maybe(Sessions),
         url : Maybe(Sessions),           \* ?s= of the address bar
         connectParams : BOOLEAN,         \* is not null
         connected : BOOLEAN,
         active : BOOLEAN,                \* state.active is a tab
         form : BOOLEAN, chat : BOOLEAN, restore : BOOLEAN,  \* screens shown
         timers : 0..MaxTimers,           \* reconnect timers
         leaving : BOOLEAN,               \* the disconnect button's timer
         restoring : BOOLEAN,             \* the promise of resumed
         pendingSends : Seq(Frames),
         readyState : [Sockets -> {"connecting", "open", "closing", "closed"}],
         onclose : [Sockets -> {"none", "url", "fresh", "resume"}],
         want : [Sockets -> Maybe(Sessions)]]  \* session of the request

(* What the server sends; only connected carries the session's ID. *)
News == [type : {"connected", "resumed", "session_expired", "connect_error",
                 "error", "disconnected"}, id : Maybe(Sessions)]
Notice(t) == [type |-> t, id |-> NoSession]

(* A page just loaded from that address. *)
Blank(url) ==
    [ws |-> NoSocket, sessionId |-> NoSession, url |-> url,
     connectParams |-> FALSE, connected |-> FALSE, active |-> FALSE,
     form |-> TRUE, chat |-> FALSE, restore |-> FALSE,
     timers |-> 0, leaving |-> FALSE, restoring |-> FALSE, pendingSends |-> <<>>,
     readyState |-> [k \in Sockets |-> "closed"],
     onclose |-> [k \in Sockets |-> "none"],
     want |-> [k \in Sockets |-> NoSession]]

Init ==
    /\ page = Blank(NoSession)
    /\ link = [k \in Sockets |-> FALSE]
    /\ down = [k \in Sockets |-> <<>>]
    /\ handler = [k \in Sockets |-> "none"]
    /\ session = [s \in Sessions |-> "free"]
    /\ attached = [s \in Sessions |-> NoSocket]
    /\ farewell = [s \in Sessions |-> FALSE]
    /\ over = FALSE /\ astray = FALSE

-----------------------------------------------------------------------------
(* The functions of app.js. *)

Open(p, k) == k # NoSocket /\ p.readyState[k] = "open"
Free(k) == page.readyState[k] = "closed" /\ page.ws # k /\ handler[k] = "none"

(* How many sockets with an onclose, and timers, keep a page connected. *)
Hooked(p, k) == p.readyState[k] # "closed" /\ p.onclose[k] # "none"
Pursuits(p) == Cardinality({k \in Sockets : Hooked(p, k)}) + p.timers

(* ws.close() *)
Close(p, k) ==
    IF k # NoSocket /\ p.readyState[k] \in {"connecting", "open"}
    THEN [p EXCEPT !.readyState[k] = "closing"] ELSE p

(* new WebSocket, assigned to state.ws *)
NewWebSocket(p, k, role, s) ==
    [p EXCEPT !.ws = k, !.readyState[k] = "connecting",
              !.onclose[k] = role, !.want[k] = s]

(* Mutant: the socket in use keeps its onclose. *)
OpenHooked(p, k) ==
    NewWebSocket(IF p.ws = NoSocket THEN p ELSE Close(p, p.ws), k, "fresh", NoSession)

(* openWS closes the socket in use, without its onclose, and opens one. *)
openWS(p, k) ==
    LET old == IF p.ws = NoSocket THEN p
               ELSE Close([p EXCEPT !.onclose[p.ws] = "none"], p.ws)
    IN  NewWebSocket(old, k, "fresh", NoSession)

(* Mutant: pendingSends has no limit. *)
SendUnlimited(p, fs) ==
    IF Open(p, p.ws) \/ p.sessionId = NoSession THEN p
    ELSE [p EXCEPT !.pendingSends = @ \o fs]

(* send, frame by frame: at once, which changes nothing here, or later, or *)
(* never.                                                                  *)
send(p, fs) ==
    IF Open(p, p.ws) \/ p.sessionId = NoSession THEN p
    ELSE [p EXCEPT !.pendingSends =
             LET room == PendingMax - Len(@) IN
             @ \o SubSeq(fs, 1, IF Len(fs) < room THEN Len(fs) ELSE room)]

(* The frames that onopen of k sends, and the page after it; openWS forgets *)
(* what was queued for a previous session.                                  *)
Opening(p, k) == CASE p.onclose[k] = "fresh"  -> <<"connect">>
                   [] p.onclose[k] = "resume" -> p.pendingSends
                   [] OTHER -> <<>>
(* Mutant: openWS keeps what was queued. *)
OpeningKeeps(p, k) ==
    IF p.onclose[k] = "fresh" THEN send(p, <<"connect">>)
    ELSE IF p.onclose[k] = "resume" THEN send([p EXCEPT !.pendingSends = <<>>], p.pendingSends)
    ELSE p
onopen(p, k) == IF p.onclose[k] = "url" THEN p
                ELSE send([p EXCEPT !.pendingSends = <<>>], Opening(p, k))

(* Mutant: no timer is set. *)
ForgetReconnect(p) == p
scheduleReconnect(p) == [p EXCEPT !.timers = @ + 1]

showForm(p) == [p EXCEPT !.active = FALSE, !.chat = FALSE, !.form = TRUE]

onConnectFailed(p) == showForm(p)

onDisconnect(p) ==
    [showForm(p) EXCEPT !.connected = FALSE, !.sessionId = NoSession, !.url = NoSession]

-----------------------------------------------------------------------------
(* The server's side. *)

Registered(s) == s # NoSession /\ session[s] # "free"

(* Frames for socket k; on a connection that is gone they are lost. *)
Tell(k, fs) == down' = IF k # NoSocket /\ link[k]
                       THEN [down EXCEPT ![k] = @ \o fs] ELSE down

(* wsHandler and dispatch, from handlers h, frames d and links l: the frames *)
(* fs of tab p arrive on its socket in use.  connect dials IRC, or cannot;   *)
(* a session that has a connection refuses another.                          *)
Dispatch(h, d, l, p, fs) ==
    LET k == p.ws
        arrives == Open(p, k) /\ l[k]
        connects == arrives /\ \E i \in DOMAIN fs : fs[i] = "connect"
    IN
    /\ astray' = (astray \/ (/\ arrives /\ h[k] \in Sessions
                           /\ \E i \in DOMAIN fs : fs[i] \in Sessions \ {h[k]}))
    /\ \/ ~connects /\ handler' = h /\ down' = d
       \/ connects /\ h[k] = "new" /\ handler' = [h EXCEPT ![k] = "registering"] /\ down' = d
       \/ connects /\ handler' = h
            /\ down' = [d EXCEPT ![k] = Append(@, Notice("connect_error"))]

(* A request for session s on k is served: it is resumed, which replays its *)
(* buffer, ...                                                              *)
Resume(k, s, p, fs) ==
    /\ Registered(s)
    /\ attached' = [attached EXCEPT ![s] = k]
    /\ farewell' = [farewell EXCEPT ![s] = FALSE]
    /\ link' = [link EXCEPT ![k] = TRUE]
    /\ Dispatch([handler EXCEPT ![k] = s],
                [down EXCEPT ![k] = (IF farewell[s] THEN <<Notice("disconnected")>> ELSE <<>>)
                                    \o <<Notice("resumed")>>], link', p, fs)

(* ... or replaced by a new one, unless the server is full. *)
NewSession(k, s, p, fs) ==
    LET lost == IF s # NoSession THEN <<Notice("session_expired")>> ELSE <<>> IN
    /\ ~Registered(s)
    /\ UNCHANGED <<attached, farewell>>
    /\ \/ /\ link' = [link EXCEPT ![k] = TRUE]
          /\ Dispatch([handler EXCEPT ![k] = "new"], [down EXCEPT ![k] = lost], link', p, fs)
       \/ /\ UNCHANGED link
          /\ Dispatch(handler, [down EXCEPT ![k] = lost \o <<Notice("connect_error")>>],
                      link', p, fs)

(* disconnect: Quit closes the session's IRC connection. *)
DispatchDisconnect(p) ==
    IF Open(p, p.ws) /\ link[p.ws]
    THEN LET k == p.ws IN
         /\ handler' = [handler EXCEPT ![k] = IF @ \in Sessions THEN @ ELSE "closed"]
         /\ Tell(k, IF handler[k] = "registering" THEN <<Notice("disconnected")>> ELSE <<>>)
    ELSE UNCHANGED <<handler, down>>

(* Registration ends, with 001 or with an error the browser is told of. *)
Welcome(k, s) ==
    /\ handler[k] = "registering" /\ session[s] = "free"
    /\ s \notin {page.sessionId, page.url}
    /\ \A j \in Sockets : page.want[j] # s /\ handler[j] # s
    /\ \A i \in DOMAIN page.pendingSends : page.pendingSends[i] # s
    /\ handler' = [handler EXCEPT ![k] = s]
    /\ session' = [session EXCEPT ![s] = "live"]
    /\ attached' = [attached EXCEPT ![s] = k]
    /\ Tell(k, <<[type |-> "connected", id |-> s]>>)
    /\ UNCHANGED <<page, link, farewell, over, astray>>

Rejected(k) ==
    /\ handler[k] = "registering"
    /\ handler' = [handler EXCEPT ![k] = "closed"]
    /\ Tell(k, <<Notice("error"), Notice("disconnected")>>)
    /\ UNCHANGED <<page, link, session, attached, farewell, over, astray>>

(* The IRC connection of s ends, by itself or because the tab quit; the    *)
(* last frame of ircLoop is disconnected.                                  *)
IrcEnds(s) ==
    /\ session[s] = "live"
    /\ session' = [session EXCEPT ![s] = "dead"]
    /\ farewell' = [farewell EXCEPT ![s] = attached[s] = NoSocket]
    /\ Tell(attached[s], <<Notice("disconnected")>>)
    /\ UNCHANGED <<page, link, handler, attached, over, astray>>

(* The connection of k is lost; what was on its way may still arrive. *)
LinkDrops(k) ==
    /\ link[k]
    /\ link' = [link EXCEPT ![k] = FALSE]
    /\ UNCHANGED <<page, down, server, over, astray>>

(* The read loop of k fails: Detach clears s.ws, whichever socket it is. *)
HandlerEnds(k) ==
    /\ handler[k] # "none" /\ ~link[k]
    /\ handler' = [handler EXCEPT ![k] = "none"]
    /\ attached' = [s \in Sessions |-> IF s = handler[k] THEN NoSocket ELSE attached[s]]
    /\ UNCHANGED <<page, link, down, session, farewell, over, astray>>

(* The reconnect window of a detached session is over, or the server is    *)
(* restarted once the links have dropped.                                  *)
Expire(s) ==
    /\ Registered(s) /\ attached[s] = NoSocket
    /\ session' = [session EXCEPT ![s] = "free"]
    /\ farewell' = [farewell EXCEPT ![s] = FALSE]
    /\ UNCHANGED <<page, link, down, handler, attached, over, astray>>

-----------------------------------------------------------------------------
(* The user. *)

(* The page is loaded again, at any time.  With ?s= it resumes that session *)
(* at once, and otherwise shows the form.  Sockets of the old page are      *)
(* closed and their callbacks are gone.                                     *)
Reload(k) ==
    /\ page.ws # NoSocket
    /\ Free(k)
    /\ LET shut == [Blank(page.url) EXCEPT
                      !.readyState = [j \in Sockets |->
                          IF page.readyState[j] = "closed" THEN "closed" ELSE "closing"]]
           back == NewWebSocket([shut EXCEPT !.sessionId = page.url, !.form = FALSE,
                                             !.chat = TRUE, !.restore = TRUE],
                                k, "url", page.url)
       IN  page' = IF page.url = NoSession THEN shut ELSE back
    /\ over' = FALSE
    /\ UNCHANGED <<link, down, server, astray>>

(* The connect form is submitted. *)
Submit(k) ==
    /\ page.form /\ Free(k)
    /\ page' = openWS([page EXCEPT !.connectParams = TRUE, !.form = FALSE,
                                   !.chat = TRUE, !.active = TRUE], k)
    /\ over' = (over /\ (Pursuits(page) > 0 \/ page.leaving))
    /\ UNCHANGED <<link, down, server, astray>>

(* sendInput: nothing can be typed without an active tab. *)
Type ==
    /\ page.chat /\ page.active
    /\ page' = send(page, <<page.sessionId>>)
    /\ UNCHANGED <<link, down, server, over, astray>>

(* The disconnect button, ... *)
Disconnect ==
    /\ page.chat /\ ~page.leaving
    /\ page' = [page EXCEPT !.sessionId = NoSession, !.url = NoSession, !.leaving = TRUE]
    /\ DispatchDisconnect(page)
    /\ over' = TRUE
    /\ UNCHANGED <<link, session, attached, farewell, astray>>

(* ... and 300 ms later. *)
DisconnectTimer ==
    /\ page.leaving
    /\ page' = onDisconnect([Close(page, page.ws) EXCEPT !.leaving = FALSE])
    /\ UNCHANGED <<link, down, server, over, astray>>

(* The cancel button of the restore screen. *)
RestoreCancel ==
    /\ page.restore
    /\ page' = [Close(page, page.ws) EXCEPT !.ws = NoSocket, !.sessionId = NoSession,
                    !.url = NoSession, !.restore = FALSE, !.form = TRUE]
    /\ over' = TRUE
    /\ UNCHANGED <<link, down, server, astray>>

-----------------------------------------------------------------------------
(* Callbacks of the sockets. *)

(* The connection is made: wsHandler runs, and so does onopen. *)
OnOpen(k) ==
    /\ page.readyState[k] = "connecting"
    /\ LET s == page.want[k]
           p == [page EXCEPT !.readyState[k] = "open", !.want[k] = NoSession]
       IN  /\ page' = onopen(p, k)
           /\ Resume(k, s, p, Opening(p, k)) \/ NewSession(k, s, p, Opening(p, k))
    /\ UNCHANGED <<session, over>>

(* onclose: the connection could not be made, is lost, or has been closed. *)
OnClose(k) ==
    /\ \/ page.readyState[k] \in {"connecting", "closing"}
       \/ page.readyState[k] = "open" /\ ~link[k]
    /\ page.onclose[k] # "none" => page.timers < MaxTimers
    /\ LET p == [page EXCEPT !.readyState[k] = "closed", !.onclose[k] = "none",
                             !.want[k] = NoSession,
                             !.restore = @ /\ page.onclose[k] # "url"]
           retry == p.sessionId # NoSession \/ p.connectParams
       IN  page' =
           CASE page.onclose[k] = "none" -> p
             [] page.onclose[k] = "url" /\ ~retry -> [p EXCEPT !.form = TRUE]
             [] page.onclose[k] = "resume" /\ ~retry -> p
             [] page.onclose[k] = "fresh" /\ p.sessionId = NoSession ->
                    IF p.connected THEN onDisconnect(p) ELSE onConnectFailed(p)
             [] OTHER -> scheduleReconnect(p)
    /\ link' = [link EXCEPT ![k] = FALSE]
    /\ down' = [down EXCEPT ![k] = <<>>]
    /\ UNCHANGED <<server, over, astray>>

(* The timer of scheduleReconnect. *)
ReconnectTimer(k) ==
    /\ page.timers > 0 /\ Free(k)
    /\ LET p == [page EXCEPT !.timers = @ - 1] IN
       page' = IF p.sessionId # NoSession
               THEN NewWebSocket(p, k, "resume", p.sessionId)
               ELSE IF p.connectParams THEN openWS(p, k) ELSE p
    /\ UNCHANGED <<link, down, server, over, astray>>

(* What handle does to the page for each message about the session.        *)
connected(p, s) ==
    [p EXCEPT !.connected = TRUE, !.sessionId = s, !.url = s, !.restore = FALSE]
resumed(p) == [p EXCEPT !.connected = TRUE, !.restoring = TRUE]
sessionExpired(p, k) ==
    LET q == [p EXCEPT !.sessionId = NoSession, !.connected = FALSE,
                       !.restore = FALSE, !.url = NoSession]
    IN  IF p.connectParams THEN openWS(q, k) ELSE showForm(Close(q, q.ws))
error(p) == IF p.connected THEN p ELSE onConnectFailed(p)
disconnected(p) == IF ~p.connected /\ p.connectParams THEN p ELSE onDisconnect(p)

(* k gets a message; j is the socket that session_expired opens. *)
OnMessage(k, j) ==
    /\ Open(page, k) /\ down[k] # <<>> /\ Free(j)
    /\ down' = [down EXCEPT ![k] = Tail(@)]
    /\ LET f == Head(down[k]) IN
       /\ page' = CASE f.type = "connected" -> connected(page, f.id)
                    [] f.type = "resumed" -> resumed(page)
                    [] f.type = "connect_error" -> showForm(page)
                    [] f.type = "session_expired" -> sessionExpired(page, j)
                    [] f.type = "error" -> error(page)
                    [] f.type = "disconnected" -> disconnected(page)
       /\ over' = (over \/ (f.type = "disconnected" /\ page' # page))
    /\ UNCHANGED <<link, server, astray>>

(* The promise of resumed: the log is loaded, the tabs are there. *)
Restored ==
    /\ page.restoring
    /\ page' = [page EXCEPT !.restoring = FALSE, !.active = TRUE,
                            !.restore = FALSE, !.chat = TRUE]
    /\ UNCHANGED <<link, down, server, over, astray>>

-----------------------------------------------------------------------------
User == \/ Type \/ Disconnect \/ RestoreCancel
        \/ \E k \in Sockets : Reload(k) \/ Submit(k)
Tab == \/ DisconnectTimer \/ Restored
       \/ \E k \in Sockets : OnOpen(k) \/ OnClose(k) \/ ReconnectTimer(k)
       \/ \E k, j \in Sockets : OnMessage(k, j)
Server == \/ \E k \in Sockets : Rejected(k) \/ LinkDrops(k) \/ HandlerEnds(k)
          \/ \E s \in Sessions : IrcEnds(s) \/ Expire(s)
          \/ \E k \in Sockets, s \in Sessions : Welcome(k, s)

Next == User \/ Tab \/ Server
Spec == Init /\ [][Next]_vars

(* Timers fire, the browser notices that a connection has ended and so does *)
(* the server, and of the many attempts to connect one succeeds.            *)
Fairness ==
    /\ WF_vars(\E k \in Sockets : ReconnectTimer(k))
    /\ WF_vars(DisconnectTimer)
    /\ \A k \in Sockets : WF_vars(OnClose(k)) /\ WF_vars(HandlerEnds(k)) /\ SF_vars(OnOpen(k))
LiveSpec == Spec /\ Fairness

-----------------------------------------------------------------------------
(* Types, and the limit of pendingSends. *)
TypeOK ==
    /\ page \in Page
    /\ Len(page.pendingSends) <= PendingMax
    /\ link \in [Sockets -> BOOLEAN]
    /\ down \in [Sockets -> Seq(News)]
    /\ handler \in [Sockets -> {"none", "new", "registering", "closed"} \cup Sessions]
    /\ session \in [Sessions -> {"free", "live", "dead"}]
    /\ attached \in [Sessions -> Sockets \cup {NoSocket}]
    /\ farewell \in [Sessions -> BOOLEAN]
    /\ over \in BOOLEAN /\ astray \in BOOLEAN

(* A tab that shows the chat and not the connect form still has something   *)
(* that will act on it: a reconnect timer, the disconnect button's timer,   *)
(* or a socket in use whose onclose will run.  No order of losses, answers  *)
(* of the server and clicks leaves the user before a chat that nothing      *)
(* brings back and nothing replaces by the form.                            *)
NotStranded ==
    page.chat /\ ~page.form =>
        \/ page.timers > 0
        \/ page.leaving
        \/ page.ws # NoSocket /\ Hooked(page, page.ws)

(* As long as no session has ended with a timer or a socket left behind, a  *)
(* tab keeps itself connected in one way only: by one socket or by one      *)
(* reconnect timer.  Losses, expiries and reloads never set two chains of   *)
(* reconnects going, which would steal each other's state.ws.               *)
OneSocket == ~over => Pursuits(page) <= 1

(* In the same circumstances, what was queued while one session was out of  *)
(* reach is never flushed to another session.                               *)
ForItsSession == [][~over => UNCHANGED astray]_vars

(* In the same circumstances, a tab that shows the chat gets an open socket *)
(* again, or shows the form.                                                *)
Recovers ==
    page.chat /\ ~page.form /\ ~over ~> Open(page, page.ws) \/ page.form \/ over
=============================================================================
