---------------------------- MODULE BrowserProofs ----------------------------
(***************************************************************************)
(* The safety properties of Browser for any number of sockets and sessions *)
(* and any limits: a tab that shows the chat is never left without a timer *)
(* or a socket that will act on it, keeps itself connected in one way, and *)
(* sends what was typed to the session it was typed for.                   *)
(***************************************************************************)
EXTENDS Browser, FiniteSetTheorems, TLAPS

(* A page, whatever its session, its address and its queue are. *)
IsPage(u) ==
    u \in [ws : Sockets \cup {NoSocket},
           sessionId : {u.sessionId}, url : {u.url},
           connectParams : BOOLEAN, connected : BOOLEAN, active : BOOLEAN,
           form : BOOLEAN, chat : BOOLEAN, restore : BOOLEAN,
           timers : Nat, leaving : BOOLEAN, restoring : BOOLEAN,
           pendingSends : {u.pendingSends},
           readyState : [Sockets -> {"connecting", "open", "closing", "closed"}],
           onclose : [Sockets -> {"none", "url", "fresh", "resume"}],
           want : {u.want}]

(* Something will act on it. *)
Kept(u) == u.timers > 0 \/ u.leaving \/ (u.ws # NoSocket /\ Hooked(u, u.ws))

(* What acts on it has somewhere to go: a session to resume or parameters  *)
(* to connect with.  Without this a timer or an onclose may end in nothing. *)
Aimed(u) == u.connectParams \/ u.sessionId # NoSession \/ u.leaving

Good(u) == IsPage(u) /\ (u.form \/ (Kept(u) /\ Aimed(u)))

USE BrowserAssumption DEF IsPage, Kept, Aimed, Good, Hooked

-----------------------------------------------------------------------------
(* The functions of app.js keep a page good. *)

LEMMA BlankIsPage == ASSUME NEW s PROVE IsPage(Blank(s)) /\ Blank(s).form
  BY DEF Blank

LEMMA CloseIsGood ==
  ASSUME NEW u, NEW k, IsPage(u)
  PROVE  /\ IsPage(Close(u, k))
         /\ Good(u) => Good(Close(u, k))
         /\ u.form => Close(u, k).form
         /\ Aimed(u) => Aimed(Close(u, k))
  BY DEF Close

(* A new socket in state.ws keeps the page, wherever it comes from. *)
LEMMA NewWebSocketIsGood ==
  ASSUME NEW u, NEW k \in Sockets, NEW role \in {"url", "fresh", "resume"}, NEW s,
         IsPage(u), u.form \/ Aimed(u)
  PROVE  Good(NewWebSocket(u, k, role, s))
  BY ZenonT(40) DEF NewWebSocket

LEMMA OpenWSIsGood ==
  ASSUME NEW u, NEW k \in Sockets, IsPage(u), u.form \/ Aimed(u)
  PROVE  Good(openWS(u, k))
  <1> DEFINE v == [u EXCEPT !.onclose[u.ws] = "none"]
             old == IF u.ws = NoSocket THEN u ELSE Close(v, u.ws)
  <1>1. IsPage(v) /\ (v.form \/ Aimed(v))
    OBVIOUS
  <1> HIDE DEF v, IsPage, Aimed
  <1>2. IsPage(old) /\ (old.form \/ Aimed(old))
    BY <1>1, CloseIsGood
  <1> HIDE DEF old
  <1>3. Good(NewWebSocket(old, k, "fresh", NoSession))
    BY <1>2, NewWebSocketIsGood
  <1> QED
    BY <1>3 DEF openWS, old, v

LEMMA SendIsGood ==
  ASSUME NEW u, NEW fs, Good(u) PROVE Good(send(u, fs))
  <1>1. ASSUME NEW q PROVE Good([u EXCEPT !.pendingSends = q])
    OBVIOUS
  <1> DEFINE room == PendingMax - Len(u.pendingSends)
             q == u.pendingSends \o SubSeq(fs, 1, IF Len(fs) < room THEN Len(fs) ELSE room)
  <1>2. send(u, fs) = IF Open(u, u.ws) \/ u.sessionId = NoSession THEN u
                      ELSE [u EXCEPT !.pendingSends = q]
    BY DEF send
  <1> HIDE DEF q, Good
  <1> QED
    BY <1>1, <1>2

LEMMA ShowFormIsGood ==
  ASSUME NEW u, IsPage(u) PROVE Good(showForm(u)) /\ Good(onDisconnect(u))
  BY DEF showForm, onDisconnect

LEMMA SessionExpiredIsGood ==
  ASSUME NEW u, NEW k \in Sockets, Good(u) PROVE Good(sessionExpired(u, k))
  <1> DEFINE q == [u EXCEPT !.sessionId = NoSession, !.connected = FALSE,
                            !.restore = FALSE, !.url = NoSession]
  <1>1. IsPage(q) /\ (u.connectParams => Aimed(q))
    OBVIOUS
  <1> HIDE DEF q, IsPage, Aimed, Good
  <1>2. CASE u.connectParams
    <2>1. Good(openWS(q, k))
      BY <1>1, <1>2, OpenWSIsGood
    <2> QED
      BY <1>2, <2>1 DEF sessionExpired, q
  <1>3. CASE ~u.connectParams
    <2>1. Good(showForm(Close(q, q.ws)))
      BY <1>1, CloseIsGood, ShowFormIsGood
    <2> QED
      BY <1>3, <2>1 DEF sessionExpired, q
  <1> QED
    BY <1>2, <1>3

-----------------------------------------------------------------------------
(* The frames on their way to the browser are those it has a case for, and  *)
(* connected names a session.                                               *)

Heard == {f \in News : f.type = "connected" => f.id # NoSession}
Known == down \in [Sockets -> Seq(Heard)]

LEMMA NoticeIsHeard ==
  ASSUME NEW t \in {"resumed", "session_expired", "connect_error", "error", "disconnected"}
  PROVE  Notice(t) \in Heard
  BY DEF Notice, Heard, News, Maybe

LEMMA TellIsKnown ==
  ASSUME NEW k, NEW fs \in Seq(Heard), Known, Tell(k, fs) PROVE Known'
  <1>1. CASE k \in Sockets
    BY <1>1 DEF Known, Tell
  <1>2. CASE k \notin Sockets
    BY <1>2 DEF Known, Tell
  <1> QED
    BY <1>1, <1>2

LEMMA DispatchIsKnown ==
  ASSUME NEW h, NEW d \in [Sockets -> Seq(Heard)], NEW l, NEW p, NEW fs,
         Dispatch(h, d, l, p, fs)
  PROVE  Known'
  <1>1. CASE down' = d
    BY <1>1 DEF Known
  <1>2. CASE down' = [d EXCEPT ![p.ws] = Append(@, Notice("connect_error"))]
    <2> DEFINE m == Notice("connect_error")
    <2>1. m \in Heard
      BY NoticeIsHeard
    <2> HIDE DEF m
    <2>2. CASE p.ws \in Sockets
      BY <1>2, <2>1, <2>2 DEF Known, m
    <2>3. CASE p.ws \notin Sockets
      BY <1>2, <2>3 DEF Known
    <2> QED
      BY <2>2, <2>3
  <1> QED
    BY <1>1, <1>2 DEF Dispatch

LEMMA ResumeIsKnown ==
  ASSUME NEW k \in Sockets, NEW s, NEW p, NEW fs, Known, Resume(k, s, p, fs)
  PROVE  Known'
  <1> DEFINE d == [down EXCEPT ![k] =
                      (IF farewell[s] THEN <<Notice("disconnected")>> ELSE <<>>)
                      \o <<Notice("resumed")>>]
  <1>1. d \in [Sockets -> Seq(Heard)]
    BY NoticeIsHeard DEF Known
  <1> HIDE DEF d
  <1> QED
    BY <1>1, DispatchIsKnown DEF Resume, d

LEMMA NewSessionIsKnown ==
  ASSUME NEW k \in Sockets, NEW s, NEW p, NEW fs, Known, NewSession(k, s, p, fs)
  PROVE  Known'
  <1> DEFINE gone == IF s # NoSession THEN <<Notice("session_expired")>> ELSE <<>>
             d == [down EXCEPT ![k] = gone]
             e == [down EXCEPT ![k] = gone \o <<Notice("connect_error")>>]
  <1>1. gone \in Seq(Heard)
    BY NoticeIsHeard
  <1>2. d \in [Sockets -> Seq(Heard)] /\ e \in [Sockets -> Seq(Heard)]
    BY <1>1, NoticeIsHeard DEF Known
  <1> HIDE DEF d, e
  <1> QED
    BY <1>2, DispatchIsKnown DEF NewSession, d, e, gone

-----------------------------------------------------------------------------
Inv == Good(page) /\ Known

LEMMA InitInv == Init => Inv
  BY BlankIsPage DEF Init, Inv, Known

LEMMA NextInv == Inv /\ [Next]_vars => Inv'
  <1> SUFFICES ASSUME Inv, [Next]_vars PROVE Inv'
    OBVIOUS
  <1> USE DEF Inv
  <1>1. ASSUME NEW k \in Sockets, Reload(k) PROVE Inv'
    <2> DEFINE shut == [Blank(page.url) EXCEPT
                          !.readyState = [j \in Sockets |->
                              IF page.readyState[j] = "closed" THEN "closed" ELSE "closing"]]
               u == [shut EXCEPT !.sessionId = page.url, !.form = FALSE,
                                 !.chat = TRUE, !.restore = TRUE]
    <2>1. IsPage(shut) /\ shut.form
      BY ZenonT(40), BlankIsPage DEF Blank
    <2>2. IsPage(u) /\ u.sessionId = page.url
      BY ZenonT(40), <2>1
    <2> HIDE DEF shut, u
    <2>3. page.url # NoSession => Good(NewWebSocket(u, k, "url", page.url))
      BY <2>2, NewWebSocketIsGood
    <2>4. Good(page')
      BY <1>1, <2>1, <2>3 DEF Reload, shut, u
    <2> QED
      BY <1>1, <2>4 DEF Reload, Known
  <1>2. ASSUME NEW k \in Sockets, Submit(k) PROVE Inv'
    <2> DEFINE u == [page EXCEPT !.connectParams = TRUE, !.form = FALSE,
                                 !.chat = TRUE, !.active = TRUE]
    <2>1. IsPage(u) /\ Aimed(u)
      OBVIOUS
    <2> HIDE DEF u
    <2>2. Good(openWS(u, k))
      BY <2>1, OpenWSIsGood
    <2> QED
      BY <1>2, <2>2 DEF Submit, u, Known
  <1>3. CASE Type
    <2>1. Good(send(page, <<page.sessionId>>))
      BY SendIsGood
    <2> HIDE DEF Good
    <2> QED
      BY <1>3, <2>1 DEF Type, Known
  <1>4. CASE Disconnect
    <2>1. Good(page')
      BY <1>4 DEF Disconnect
    <2>2. ASSUME NEW b \in BOOLEAN PROVE (IF b THEN <<Notice("disconnected")>> ELSE <<>>) \in Seq(Heard)
      BY NoticeIsHeard
    <2>3. Known'
      <3> DEFINE fs == IF handler[page.ws] = "registering" THEN <<Notice("disconnected")>> ELSE <<>>
      <3>1. fs \in Seq(Heard)
        BY <2>2
      <3> HIDE DEF fs, Good
      <3>2. Tell(page.ws, fs) \/ down' = down
        BY <1>4 DEF Disconnect, DispatchDisconnect, fs
      <3> QED
        BY <3>1, <3>2, TellIsKnown DEF Known
    <2> QED
      BY <2>1, <2>3
  <1>5. CASE DisconnectTimer
    <2> DEFINE c == Close(page, page.ws)
               u == [c EXCEPT !.leaving = FALSE]
    <2>1. IsPage(c)
      BY CloseIsGood
    <2> HIDE DEF c
    <2>2. IsPage(u)
      BY <2>1
    <2> HIDE DEF u, Good, IsPage
    <2>3. Good(onDisconnect(u))
      BY <2>2, ShowFormIsGood
    <2>4. Good(page')
      BY <1>5, <2>3 DEF DisconnectTimer, c, u
    <2> QED
      BY <1>5, <2>4 DEF DisconnectTimer, Known
  <1>6. CASE RestoreCancel
    <2> DEFINE c == Close(page, page.ws)
               u == [c EXCEPT !.ws = NoSocket, !.sessionId = NoSession, !.url = NoSession,
                              !.restore = FALSE, !.form = TRUE]
    <2>1. IsPage(c)
      BY CloseIsGood
    <2> HIDE DEF c
    <2>2. Good(u)
      BY <2>1
    <2> HIDE DEF u, Good
    <2>3. page' = u
      BY <1>6 DEF RestoreCancel, c, u
    <2> QED
      BY <1>6, <2>2, <2>3 DEF RestoreCancel, Known
  <1>7. ASSUME NEW k \in Sockets, OnOpen(k) PROVE Inv'
    <2> DEFINE p == [page EXCEPT !.readyState[k] = "open", !.want[k] = NoSession]
               q == [p EXCEPT !.pendingSends = <<>>]
    <2>1. page.readyState[k] = "connecting"
      BY <1>7 DEF OnOpen
    <2>2. Good(p) /\ Good(q)
      BY <2>1
    <2>3. page' = onopen(p, k)
      BY <1>7 DEF OnOpen
    <2>4. Known'
      BY <1>7, ResumeIsKnown, NewSessionIsKnown DEF OnOpen
    <2> HIDE DEF p, q
    <2>5. Good(send(q, Opening(p, k)))
      BY <2>2, SendIsGood
    <2>6. Good(page')
      BY <2>2, <2>3, <2>5 DEF onopen, q
    <2> QED
      BY <2>4, <2>6
  <1>8. ASSUME NEW k \in Sockets, OnClose(k) PROVE Inv'
    <2> DEFINE p == [page EXCEPT !.readyState[k] = "closed", !.onclose[k] = "none",
                                 !.want[k] = NoSession,
                                 !.restore = @ /\ page.onclose[k] # "url"]
    <2>1. IsPage(p)
      OBVIOUS
    <2>2. /\ page.form => p.form
          /\ page.leaving => p.leaving
          /\ page.connectParams <=> p.connectParams
          /\ page.sessionId = p.sessionId
          /\ page.timers = p.timers
      OBVIOUS
    <2>3. page.onclose[k] = "none" => (Kept(page) => Kept(p))
      OBVIOUS
    <2>4. Known'
      BY <1>8 DEF OnClose, Known
    <2>5. p.form \/ Aimed(p)
      BY <2>2
    <2>6. page.onclose[k] = "none" => Good(p)
      BY <2>1, <2>2, <2>3, <2>5
    <2>7. \/ page' \in {[p EXCEPT !.form = TRUE], onDisconnect(p), onConnectFailed(p),
                        scheduleReconnect(p)}
          \/ page' = p /\ page.onclose[k] = "none"
          \/ page' = p /\ p.sessionId = NoSession /\ ~p.connectParams
      <3> USE <1>8 DEF OnClose
      <3>1. CASE page.onclose[k] = "none"
        BY <3>1
      <3>2. CASE page.onclose[k] # "none" /\ (p.sessionId # NoSession \/ p.connectParams)
        BY <3>2
      <3>3. CASE page.onclose[k] # "none" /\ p.sessionId = NoSession /\ ~p.connectParams
        BY <3>3
      <3> QED
        BY <3>1, <3>2, <3>3
    <2> HIDE DEF p
    <2>8. Good([p EXCEPT !.form = TRUE]) /\ Good(onDisconnect(p)) /\ Good(onConnectFailed(p))
      BY ZenonT(40), <2>1, ShowFormIsGood DEF onConnectFailed
    <2>9. Good(scheduleReconnect(p))
      BY <2>1, <2>5 DEF scheduleReconnect
    <2>10. p.sessionId = NoSession /\ ~p.connectParams => Good(p)
      BY <2>1, <2>5
    <2> HIDE DEF Good
    <2> QED
      BY <2>4, <2>6, <2>7, <2>8, <2>9, <2>10
  <1>9. ASSUME NEW k \in Sockets, ReconnectTimer(k) PROVE Inv'
    <2> DEFINE p == [page EXCEPT !.timers = @ - 1]
    <2>1. IsPage(p) /\ (p.form \/ Aimed(p))
      BY <1>9 DEF ReconnectTimer
    <2>2. p.sessionId = NoSession /\ ~p.connectParams => Good(p)
      BY <2>1
    <2> HIDE DEF p
    <2>3. Good(NewWebSocket(p, k, "resume", p.sessionId)) /\ Good(openWS(p, k))
      BY <2>1, NewWebSocketIsGood, OpenWSIsGood
    <2>4. Good(page')
      BY SMTT(30), <1>9, <2>2, <2>3 DEF ReconnectTimer, p
    <2> QED
      BY <1>9, <2>4 DEF ReconnectTimer, Known
  <1>10. ASSUME NEW k \in Sockets, NEW j \in Sockets, OnMessage(k, j) PROVE Inv'
    <2> DEFINE f == Head(down[k])
    <2>1. f \in Heard /\ Known'
      BY <1>10 DEF OnMessage, Known
    <2>2. f.type = "connected" => Good(connected(page, f.id))
      <3>1. ASSUME NEW s, s # NoSession PROVE Good(connected(page, s))
        <4> DEFINE u == connected(page, s)
        <4>1. IsPage(u)
          BY DEF connected
        <4>2. u.sessionId = s /\ (page.form => u.form) /\ (Kept(page) => Kept(u))
          BY DEF connected
        <4> QED
          BY <3>1, <4>1, <4>2
      <3>2. f.type = "connected" => f.id # NoSession
        BY <2>1 DEF Heard
      <3> QED
        BY <3>1, <3>2
    <2>3. Good(resumed(page))
      BY DEF resumed
    <2>4. Good(showForm(page)) /\ Good(error(page)) /\ Good(disconnected(page))
      BY ShowFormIsGood DEF error, disconnected, onConnectFailed
    <2> HIDE DEF Good
    <2>5. Good(sessionExpired(page, j))
      BY SessionExpiredIsGood
    <2>6. f.type \in {"connected", "resumed", "session_expired", "connect_error",
                      "error", "disconnected"}
      BY <2>1 DEF Heard, News
    <2>7. Good(page')
      BY <1>10, <2>2, <2>3, <2>4, <2>5, <2>6 DEF OnMessage
    <2> QED
      BY <2>1, <2>7
  <1>11. CASE Restored
    BY <1>11 DEF Restored, Known
  <1>12. ASSUME NEW k \in Sockets,
                Rejected(k) \/ LinkDrops(k) \/ HandlerEnds(k) PROVE Inv'
    <2>1. page' = page
      BY <1>12 DEF Rejected, LinkDrops, HandlerEnds
    <2>2. <<Notice("error"), Notice("disconnected")>> \in Seq(Heard)
      BY NoticeIsHeard
    <2>3. Known'
      BY <1>12, <2>2, TellIsKnown DEF Rejected, LinkDrops, HandlerEnds, Known
    <2> QED
      BY <2>1, <2>3
  <1>13. ASSUME NEW s \in Sessions, IrcEnds(s) \/ Expire(s) PROVE Inv'
    <2>1. page' = page
      BY <1>13 DEF IrcEnds, Expire
    <2>2. <<Notice("disconnected")>> \in Seq(Heard)
      BY NoticeIsHeard
    <2>3. Known'
      BY <1>13, <2>2, TellIsKnown DEF IrcEnds, Expire, Known
    <2> QED
      BY <2>1, <2>3
  <1>14. ASSUME NEW k \in Sockets, NEW s \in Sessions, Welcome(k, s) PROVE Inv'
    <2>1. page' = page
      BY <1>14 DEF Welcome
    <2>2. [type |-> "connected", id |-> s] \in Heard
      BY DEF Heard, News, Maybe
    <2>3. <<[type |-> "connected", id |-> s]>> \in Seq(Heard)
      BY <2>2
    <2>4. Known'
      BY <1>14, <2>3, TellIsKnown DEF Welcome
    <2> QED
      BY <2>1, <2>4
  <1>15. CASE UNCHANGED vars
    BY <1>15 DEF vars, Known
  <1> QED
    BY <1>1, <1>2, <1>3, <1>4, <1>5, <1>6, <1>7, <1>8, <1>9, <1>10, <1>11, <1>12,
       <1>13, <1>14, <1>15 DEF Next, User, Tab, Server

(* No order of losses, answers of the server, timers and clicks leaves the *)
(* user before a chat that nothing brings back and nothing replaces by the *)
(* form (app.js:886-915, 2517-2575).                                       *)
THEOREM NobodyIsStranded == Spec => []NotStranded
  <1>1. Inv => NotStranded
    BY DEF Inv, NotStranded
  <1> QED
    BY InitInv, NextInv, <1>1, PTL DEF Spec

-----------------------------------------------------------------------------
(* What each function of app.js leaves of a page: the fields that the      *)
(* following proofs speak of.                                              *)

HIDE DEF IsPage, Kept, Aimed, Good, Hooked

Rest(u) == <<u.sessionId, u.url, u.connectParams, u.form, u.timers, u.leaving>>

LEMMA CloseFields ==
  ASSUME NEW u, NEW k, IsPage(u)
  PROVE  LET v == Close(u, k) IN
         /\ IsPage(v) /\ Rest(v) = Rest(u) /\ v.pendingSends = u.pendingSends
         /\ v.ws = u.ws /\ v.want = u.want /\ v.onclose = u.onclose
         /\ \A j \in Sockets :
              v.readyState[j] = IF j = k /\ u.readyState[j] \in {"connecting", "open"}
                                THEN "closing" ELSE u.readyState[j]
  BY DEF Close, Rest, IsPage

LEMMA NewWebSocketFields ==
  ASSUME NEW u, NEW k \in Sockets, NEW role \in {"url", "fresh", "resume"}, NEW s,
         IsPage(u)
  PROVE  LET v == NewWebSocket(u, k, role, s) IN
         /\ IsPage(v) /\ Rest(v) = Rest(u) /\ v.pendingSends = u.pendingSends
         /\ v.ws = k /\ v.want = [u.want EXCEPT ![k] = s]
         /\ v.readyState[k] = "connecting" /\ v.onclose[k] = role
         /\ \A j \in Sockets \ {k} : /\ v.readyState[j] = u.readyState[j]
                                     /\ v.onclose[j] = u.onclose[j]
  BY ZenonT(40) DEF NewWebSocket, Rest, IsPage

LEMMA OpenWSFields ==
  ASSUME NEW u, NEW k \in Sockets, IsPage(u), u.ws # k
  PROVE  LET v == openWS(u, k) IN
         /\ IsPage(v) /\ Rest(v) = Rest(u) /\ v.pendingSends = u.pendingSends
         /\ v.ws = k /\ v.want = [u.want EXCEPT ![k] = NoSession]
         /\ v.readyState[k] = "connecting" /\ v.onclose[k] = "fresh"
         /\ \A j \in Sockets \ {k} :
              /\ v.readyState[j] = IF j = u.ws /\ u.readyState[j] \in {"connecting", "open"}
                                   THEN "closing" ELSE u.readyState[j]
              /\ v.onclose[j] = IF j = u.ws THEN "none" ELSE u.onclose[j]
  <1> DEFINE c == [u EXCEPT !.onclose[u.ws] = "none"]
             d == Close(c, u.ws)
             old == IF u.ws = NoSocket THEN u ELSE d
  <1>1. /\ IsPage(c) /\ Rest(c) = Rest(u) /\ c.pendingSends = u.pendingSends
        /\ c.want = u.want /\ c.readyState = u.readyState /\ u.ws \in Sockets \cup {NoSocket}
        /\ \A j \in Sockets : c.onclose[j] = IF j = u.ws THEN "none" ELSE u.onclose[j]
    BY DEF Rest, IsPage
  <1> HIDE DEF c
  <1>2. /\ IsPage(d) /\ Rest(d) = Rest(c) /\ d.pendingSends = c.pendingSends
        /\ d.want = c.want /\ d.onclose = c.onclose
        /\ \A j \in Sockets :
             d.readyState[j] = IF j = u.ws /\ c.readyState[j] \in {"connecting", "open"}
                               THEN "closing" ELSE c.readyState[j]
    BY <1>1, CloseFields
  <1> HIDE DEF d
  <1>3. /\ IsPage(old) /\ Rest(old) = Rest(u) /\ old.pendingSends = u.pendingSends
        /\ old.want = u.want
        /\ \A j \in Sockets :
             /\ old.readyState[j] = IF j = u.ws /\ u.readyState[j] \in {"connecting", "open"}
                                    THEN "closing" ELSE u.readyState[j]
             /\ old.onclose[j] = IF j = u.ws THEN "none" ELSE u.onclose[j]
    BY <1>1, <1>2
  <1>4. openWS(u, k) = NewWebSocket(old, k, "fresh", NoSession)
    BY DEF openWS, old, d, c
  <1> HIDE DEF old
  <1> QED
    BY <1>3, <1>4, NewWebSocketFields

LEMMA SendFields ==
  ASSUME NEW u, NEW fs, IsPage(u)
  PROVE  LET v == send(u, fs) IN
         /\ IsPage(v) /\ Rest(v) = Rest(u) /\ v.ws = u.ws /\ v.want = u.want
         /\ v.readyState = u.readyState /\ v.onclose = u.onclose
  <1>1. ASSUME NEW q
        PROVE  LET v == [u EXCEPT !.pendingSends = q] IN
               /\ IsPage(v) /\ Rest(v) = Rest(u) /\ v.ws = u.ws /\ v.want = u.want
               /\ v.readyState = u.readyState /\ v.onclose = u.onclose
    BY DEF IsPage, Rest
  <1> DEFINE room == PendingMax - Len(u.pendingSends)
             q == u.pendingSends \o SubSeq(fs, 1, IF Len(fs) < room THEN Len(fs) ELSE room)
  <1>2. send(u, fs) = IF Open(u, u.ws) \/ u.sessionId = NoSession THEN u
                      ELSE [u EXCEPT !.pendingSends = q]
    BY DEF send
  <1> HIDE DEF q
  <1> QED
    BY <1>1, <1>2

(* pendingSends keeps its limit, and gets nothing but what is sent. *)
LEMMA SendQueues ==
  ASSUME NEW u, NEW S, NEW fs \in Seq(S), IsPage(u),
         u.pendingSends \in Seq(S), Len(u.pendingSends) <= PendingMax
  PROVE  /\ send(u, fs).pendingSends \in Seq(S)
         /\ Len(send(u, fs).pendingSends) <= PendingMax
         /\ u.sessionId = NoSession => send(u, fs).pendingSends = u.pendingSends
         /\ Open(u, u.ws) => send(u, fs).pendingSends = u.pendingSends
  <1> DEFINE room == PendingMax - Len(u.pendingSends)
             n == IF Len(fs) < room THEN Len(fs) ELSE room
             part == SubSeq(fs, 1, n)
             q == u.pendingSends \o part
  <1>0. Len(fs) \in Nat /\ room \in Nat
    <2>1. Len(u.pendingSends) \in Nat /\ Len(fs) \in Nat
      OBVIOUS
    <2> QED
      BY <2>1
  <1> HIDE DEF room
  <1>1. n \in Nat /\ n <= Len(fs) /\ n <= room
    BY <1>0
  <1> HIDE DEF n
  <1>2. part \in Seq(S) /\ Len(part) = n
    BY <1>1
  <1> HIDE DEF part
  <1>3. q \in Seq(S) /\ Len(q) <= PendingMax
    BY <1>1, <1>2 DEF room
  <1> HIDE DEF q
  <1>4. [u EXCEPT !.pendingSends = q].pendingSends = q
    BY DEF IsPage
  <1>5. send(u, fs) = IF Open(u, u.ws) \/ u.sessionId = NoSession THEN u
                      ELSE [u EXCEPT !.pendingSends = q]
    BY DEF send, q, part, n, room
  <1> QED
    BY <1>3, <1>4, <1>5

-----------------------------------------------------------------------------
(* The types that the proof so far could do without. *)

Filled(u) ==
    /\ u.sessionId \in Maybe(Sessions) /\ u.url \in Maybe(Sessions)
    /\ u.timers <= MaxTimers
    /\ u.pendingSends \in Seq(Frames) /\ Len(u.pendingSends) <= PendingMax
    /\ u.want \in [Sockets -> Maybe(Sessions)]

Handlers == {"none", "new", "registering", "closed"} \cup Sessions

ServerOK ==
    /\ link \in [Sockets -> BOOLEAN]
    /\ handler \in [Sockets -> Handlers]
    /\ session \in [Sessions -> {"free", "live", "dead"}]
    /\ attached \in [Sessions -> Sockets \cup {NoSocket}]
    /\ farewell \in [Sessions -> BOOLEAN]
    /\ over \in BOOLEAN /\ astray \in BOOLEAN

Types == Inv /\ Filled(page) /\ ServerOK

LEMMA EmptyQueue == \A S : <<>> \in Seq(S) /\ Len(<<>>) = 0
  OBVIOUS

LEMMA GoodIsPage == Inv => IsPage(page)
  BY DEF Inv, Good

LEMMA TypesGiveTypeOK == Types => TypeOK
  <1> SUFFICES ASSUME Types PROVE TypeOK
    OBVIOUS
  <1>1. page \in Page /\ Len(page.pendingSends) <= PendingMax
    BY GoodIsPage DEF Types, Filled, IsPage, Page
  <1>2. down \in [Sockets -> Seq(News)]
    <2>1. \A k \in Sockets : down[k] \in Seq(Heard) /\ down = [j \in Sockets |-> down[j]]
      BY DEF Types, Inv, Known
    <2>2. \A d \in Seq(Heard) : d \in Seq(News)
      BY DEF Heard
    <2>3. down = [j \in Sockets |-> down[j]]
      BY DEF Types, Inv, Known
    <2> QED
      BY <2>1, <2>2, <2>3
  <1> QED
    BY <1>1, <1>2 DEF Types, ServerOK, TypeOK, Handlers

LEMMA FilledBlank == ASSUME NEW s \in Maybe(Sessions) PROVE Filled(Blank(s))
  BY EmptyQueue DEF Blank, Filled, Maybe

LEMMA FilledClose ==
  ASSUME NEW u, NEW k, IsPage(u), Filled(u) PROVE Filled(Close(u, k))
  BY CloseFields DEF Filled, Rest

LEMMA FilledNewWebSocket ==
  ASSUME NEW u, NEW k \in Sockets, NEW role \in {"url", "fresh", "resume"},
         NEW s \in Maybe(Sessions), IsPage(u), Filled(u)
  PROVE  Filled(NewWebSocket(u, k, role, s))
  <1> DEFINE v == NewWebSocket(u, k, role, s)
  <1>1. /\ Rest(v) = Rest(u) /\ v.pendingSends = u.pendingSends
        /\ v.want = [u.want EXCEPT ![k] = s]
    BY NewWebSocketFields
  <1> HIDE DEF v
  <1>2. Filled(v)
    BY <1>1 DEF Filled, Rest
  <1> QED
    BY <1>2 DEF v

LEMMA FilledOpenWS ==
  ASSUME NEW u, NEW k \in Sockets, IsPage(u), Filled(u), u.ws # k
  PROVE  Filled(openWS(u, k))
  <1> DEFINE v == openWS(u, k)
  <1>1. /\ Rest(v) = Rest(u) /\ v.pendingSends = u.pendingSends
        /\ v.want = [u.want EXCEPT ![k] = NoSession]
    BY OpenWSFields
  <1> HIDE DEF v
  <1>2. Filled(v)
    BY <1>1 DEF Filled, Rest, Maybe
  <1> QED
    BY <1>2 DEF v

LEMMA FilledSend ==
  ASSUME NEW u, NEW fs \in Seq(Frames), IsPage(u), Filled(u)
  PROVE  Filled(send(u, fs))
  BY SendFields, SendQueues DEF Filled, Rest

LEMMA FilledShowForm ==
  ASSUME NEW u, IsPage(u), Filled(u)
  PROVE  /\ Filled(showForm(u)) /\ Filled(onDisconnect(u))
  BY DEF Filled, IsPage, Maybe, showForm, onDisconnect

LEMMA ServerInit == Init => ServerOK
  BY ZenonT(40) DEF Init, ServerOK, Handlers

(* What a dispatch leaves the server with. *)
LEMMA DispatchOK ==
  ASSUME NEW h \in [Sockets -> Handlers], NEW d, NEW l, NEW p, NEW fs, astray \in BOOLEAN,
         Dispatch(h, d, l, p, fs)
  PROVE  handler' \in [Sockets -> Handlers] /\ astray' \in BOOLEAN
  <1>1. handler' = h \/ handler' = [h EXCEPT ![p.ws] = "registering"]
    BY DEF Dispatch
  <1>2. handler' \in [Sockets -> Handlers]
    BY <1>1 DEF Handlers
  <1> DEFINE b == /\ Open(p, p.ws) /\ l[p.ws] /\ h[p.ws] \in Sessions
                  /\ \E i \in DOMAIN fs : fs[i] \in Sessions \ {h[p.ws]}
  <1>3. astray' = (astray \/ b)
    BY DEF Dispatch
  <1> HIDE DEF b
  <1>4. astray' \in BOOLEAN
    BY <1>3
  <1> QED
    BY <1>2, <1>4

LEMMA OnOpenOK ==
  ASSUME Types, NEW k \in Sockets, NEW s \in Maybe(Sessions), NEW p, NEW fs,
         Resume(k, s, p, fs) \/ NewSession(k, s, p, fs)
  PROVE  /\ link' \in [Sockets -> BOOLEAN] /\ handler' \in [Sockets -> Handlers]
         /\ attached' \in [Sessions -> Sockets \cup {NoSocket}]
         /\ farewell' \in [Sessions -> BOOLEAN] /\ astray' \in BOOLEAN
  <1> USE DEF Types, ServerOK
  <1>1. CASE Resume(k, s, p, fs)
    <2> DEFINE h == [handler EXCEPT ![k] = s]
    <2>1. s \in Sessions
      BY <1>1 DEF Resume, Registered, Maybe
    <2>2. h \in [Sockets -> Handlers]
      BY <2>1 DEF Handlers
    <2> HIDE DEF h
    <2>3. PICK d : Dispatch(h, d, link', p, fs)
      BY <1>1 DEF Resume, h
    <2>4. handler' \in [Sockets -> Handlers] /\ astray' \in BOOLEAN
      BY <2>2, <2>3, DispatchOK
    <2> QED
      BY <1>1, <2>4 DEF Resume
  <1>2. CASE NewSession(k, s, p, fs)
    <2> DEFINE h == [handler EXCEPT ![k] = "new"]
    <2>1. h \in [Sockets -> Handlers] /\ handler \in [Sockets -> Handlers]
      BY DEF Handlers
    <2> HIDE DEF h
    <2>2. \E d : Dispatch(h, d, link', p, fs) \/ Dispatch(handler, d, link', p, fs)
      BY <1>2 DEF NewSession, h
    <2>3. handler' \in [Sockets -> Handlers] /\ astray' \in BOOLEAN
      BY <2>1, <2>2, DispatchOK
    <2> QED
      BY <1>2, <2>3 DEF NewSession
  <1> QED
    BY <1>1, <1>2

LEMMA OpeningFrames ==
  ASSUME NEW u, NEW k, Filled(u) PROVE Opening(u, k) \in Seq(Frames)
  <1>1. /\ <<"connect">> \in Seq(Frames) /\ <<>> \in Seq(Frames)
        /\ u.pendingSends \in Seq(Frames)
    BY DEF Filled, Frames
  <1>2. Opening(u, k) \in {<<"connect">>, u.pendingSends, <<>>}
    BY DEF Opening
  <1> QED
    BY <1>1, <1>2

LEMMA NextTypes == Types /\ [Next]_vars => Types'
  <1> SUFFICES ASSUME Types, [Next]_vars PROVE Types'
    OBVIOUS
  <1>1. Inv' /\ IsPage(page) /\ IsPage(page')
    BY NextInv, GoodIsPage DEF Types, Inv, Good
  <1>2. Filled(page) /\ ServerOK
    BY DEF Types
  <1> USE DEF Free
  <1>a. SUFFICES Filled(page)' /\ ServerOK'
    BY <1>1 DEF Types
  <1>3. ASSUME NEW k \in Sockets, Reload(k) PROVE Filled(page)' /\ ServerOK'
    <2> DEFINE shut == [Blank(page.url) EXCEPT
                          !.readyState = [j \in Sockets |->
                              IF page.readyState[j] = "closed" THEN "closed" ELSE "closing"]]
               u == [shut EXCEPT !.sessionId = page.url, !.form = FALSE,
                                 !.chat = TRUE, !.restore = TRUE]
    <2>1. IsPage(shut) /\ Filled(shut) /\ page.url \in Maybe(Sessions)
      <3>1. IsPage(Blank(page.url)) /\ Filled(Blank(page.url))
        BY <1>2, BlankIsPage, FilledBlank DEF Filled
      <3> QED
        BY <1>2, <3>1 DEF IsPage, Filled
    <2> HIDE DEF shut
    <2>2. IsPage(u) /\ Filled(u)
      BY <2>1 DEF IsPage, Filled
    <2> HIDE DEF u
    <2>3. Filled(NewWebSocket(u, k, "url", page.url))
      BY <2>1, <2>2, FilledNewWebSocket
    <2>4. Filled(page')
      BY <1>3, <2>1, <2>3 DEF Reload, shut, u
    <2> QED
      BY <1>2, <1>3, <2>4 DEF Reload, server, ServerOK
  <1>4. ASSUME NEW k \in Sockets, Submit(k) PROVE Filled(page)' /\ ServerOK'
    <2> DEFINE u == [page EXCEPT !.connectParams = TRUE, !.form = FALSE,
                                 !.chat = TRUE, !.active = TRUE]
    <2>1. IsPage(u) /\ Filled(u) /\ u.ws = page.ws
      BY <1>1, <1>2 DEF IsPage, Filled
    <2> HIDE DEF u
    <2>2. Filled(openWS(u, k))
      BY <1>4, <2>1, FilledOpenWS DEF Submit
    <2>3. over' \in BOOLEAN
      BY <1>2, <1>4 DEF Submit, ServerOK
    <2> QED
      BY <1>2, <1>4, <2>2, <2>3 DEF Submit, server, ServerOK, u
  <1>5. CASE Type
    <2> DEFINE fs == <<page.sessionId>>
    <2>1. fs \in Seq(Frames)
      BY <1>2 DEF Filled, Frames
    <2> HIDE DEF fs
    <2>2. Filled(send(page, fs))
      BY <1>1, <1>2, <2>1, FilledSend
    <2> QED
      BY <1>2, <1>5, <2>2 DEF Type, server, ServerOK, fs
  <1>6. CASE Disconnect
    <2>1. Filled(page')
      BY <1>1, <1>2, <1>6 DEF Disconnect, IsPage, Filled, Maybe
    <2>2. handler' \in [Sockets -> Handlers]
      <3>1. \/ handler' = handler
            \/ handler' = [handler EXCEPT ![page.ws] = IF @ \in Sessions THEN @ ELSE "closed"]
        BY <1>6 DEF Disconnect, DispatchDisconnect
      <3> QED
        BY <1>2, <3>1 DEF ServerOK, Handlers
    <2> QED
      BY <1>2, <1>6, <2>1, <2>2 DEF Disconnect, ServerOK
  <1>7. CASE DisconnectTimer
    <2> DEFINE c == Close(page, page.ws)
               u == [c EXCEPT !.leaving = FALSE]
    <2>1. IsPage(c) /\ Filled(c)
      BY <1>1, <1>2, CloseFields, FilledClose
    <2> HIDE DEF c
    <2>2. IsPage(u) /\ Filled(u)
      BY <2>1 DEF IsPage, Filled
    <2> HIDE DEF u
    <2>3. Filled(onDisconnect(u))
      BY <2>2, FilledShowForm
    <2> QED
      BY <1>2, <1>7, <2>3 DEF DisconnectTimer, server, ServerOK, c, u
  <1>8. CASE RestoreCancel
    <2> DEFINE c == Close(page, page.ws)
               u == [c EXCEPT !.ws = NoSocket, !.sessionId = NoSession, !.url = NoSession,
                              !.restore = FALSE, !.form = TRUE]
    <2>1. IsPage(c) /\ Filled(c)
      BY <1>1, <1>2, CloseFields, FilledClose
    <2> HIDE DEF c
    <2>2. Filled(u)
      BY <2>1 DEF IsPage, Filled, Maybe
    <2> HIDE DEF u
    <2> QED
      BY <1>2, <1>8, <2>2 DEF RestoreCancel, server, ServerOK, c, u
  <1>9. ASSUME NEW k \in Sockets, OnOpen(k) PROVE Filled(page)' /\ ServerOK'
    <2> DEFINE s == page.want[k]
               p == [page EXCEPT !.readyState[k] = "open", !.want[k] = NoSession]
               q == [p EXCEPT !.pendingSends = <<>>]
    <2>1. page.readyState[k] = "connecting" /\ s \in Maybe(Sessions)
      BY <1>2, <1>9 DEF OnOpen, Filled
    <2>2. IsPage(p) /\ Filled(p)
      BY <1>1, <1>2, <2>1 DEF IsPage, Filled, Maybe
    <2>3. /\ page' = onopen(p, k) /\ UNCHANGED <<session, over>>
          /\ Resume(k, s, p, Opening(p, k)) \/ NewSession(k, s, p, Opening(p, k))
      BY <1>9 DEF OnOpen
    <2> HIDE DEF p, s
    <2>4. IsPage(q) /\ Filled(q)
      BY <2>2, EmptyQueue DEF IsPage, Filled
    <2> HIDE DEF q
    <2>5. Filled(send(q, Opening(p, k)))
      BY <2>2, <2>4, OpeningFrames, FilledSend
    <2>6. Filled(page')
      BY <2>2, <2>3, <2>5 DEF onopen, q
    <2>7. /\ link' \in [Sockets -> BOOLEAN] /\ handler' \in [Sockets -> Handlers]
          /\ attached' \in [Sessions -> Sockets \cup {NoSocket}]
          /\ farewell' \in [Sessions -> BOOLEAN] /\ astray' \in BOOLEAN
      BY <2>1, <2>3, OnOpenOK
    <2> QED
      BY <1>2, <2>3, <2>6, <2>7 DEF ServerOK
  <1>10. ASSUME NEW k \in Sockets, OnClose(k) PROVE Filled(page)' /\ ServerOK'
    <2> DEFINE p == [page EXCEPT !.readyState[k] = "closed", !.onclose[k] = "none",
                                 !.want[k] = NoSession,
                                 !.restore = @ /\ page.onclose[k] # "url"]
    <2>1. IsPage(p) /\ Filled(p) /\ p.timers = page.timers
      BY <1>1, <1>2 DEF IsPage, Filled, Maybe
    <2>2. \/ page' \in {p, [p EXCEPT !.form = TRUE], onDisconnect(p), onConnectFailed(p)}
          \/ page' = scheduleReconnect(p) /\ page.timers < MaxTimers
      BY <1>10 DEF OnClose
    <2> HIDE DEF p
    <2>3. Filled([p EXCEPT !.form = TRUE]) /\ Filled(onDisconnect(p)) /\ Filled(onConnectFailed(p))
      BY <2>1, FilledShowForm DEF onConnectFailed, Filled, IsPage
    <2>4. page.timers < MaxTimers => Filled(scheduleReconnect(p))
      BY <2>1 DEF scheduleReconnect, Filled, IsPage
    <2>5. Filled(page')
      BY <2>1, <2>2, <2>3, <2>4
    <2> QED
      BY <1>2, <1>10, <2>5 DEF OnClose, server, ServerOK
  <1>11. ASSUME NEW k \in Sockets, ReconnectTimer(k) PROVE Filled(page)' /\ ServerOK'
    <2> DEFINE p == [page EXCEPT !.timers = @ - 1]
    <2>0. page.timers \in Nat /\ page.timers - 1 \in Nat /\ page.timers - 1 <= MaxTimers
      BY <1>1, <1>2, <1>11 DEF ReconnectTimer, IsPage, Filled
    <2>1. IsPage(p) /\ Filled(p) /\ p.ws = page.ws
      BY <1>1, <1>2, <2>0 DEF IsPage, Filled
    <2> HIDE DEF p
    <2>2. Filled(NewWebSocket(p, k, "resume", p.sessionId))
      BY <2>1, FilledNewWebSocket DEF Filled
    <2>3. Filled(openWS(p, k))
      BY <1>11, <2>1, FilledOpenWS DEF ReconnectTimer
    <2> QED
      BY <1>2, <1>11, <2>1, <2>2, <2>3 DEF ReconnectTimer, server, ServerOK, p
  <1>12. ASSUME NEW k \in Sockets, NEW j \in Sockets, OnMessage(k, j)
         PROVE  Filled(page)' /\ ServerOK'
    <2> DEFINE f == Head(down[k])
    <2>1. f \in News
      <3>1. down[k] \in Seq(Heard) /\ down[k] # <<>>
        BY <1>12 DEF OnMessage, Types, Inv, Known
      <3>2. f \in Heard
        BY <3>1
      <3> QED
        BY <3>2 DEF Heard
    <2>2. Filled(connected(page, f.id)) /\ Filled(resumed(page))
      BY <1>1, <1>2, <2>1 DEF connected, resumed, IsPage, Filled, News
    <2>3. Filled(showForm(page)) /\ Filled(error(page)) /\ Filled(disconnected(page))
      BY <1>1, <1>2, FilledShowForm DEF error, disconnected, onConnectFailed
    <2>4. Filled(sessionExpired(page, j))
      <3> DEFINE q == [page EXCEPT !.sessionId = NoSession, !.connected = FALSE,
                                   !.restore = FALSE, !.url = NoSession]
      <3>1. IsPage(q) /\ Filled(q) /\ q.ws = page.ws
        BY <1>1, <1>2 DEF IsPage, Filled, Maybe
      <3> HIDE DEF q
      <3>2. Filled(openWS(q, j))
        BY <1>12, <3>1, FilledOpenWS DEF OnMessage
      <3>3. Filled(showForm(Close(q, q.ws)))
        BY <3>1, CloseFields, FilledClose, FilledShowForm
      <3> QED
        BY <3>2, <3>3 DEF sessionExpired, q
    <2>5. f.type \in {"connected", "resumed", "session_expired", "connect_error",
                      "error", "disconnected"}
      BY <2>1 DEF News
    <2>6. Filled(page')
      BY <1>12, <2>2, <2>3, <2>4, <2>5 DEF OnMessage
    <2>7. over' \in BOOLEAN
      <3> DEFINE b == f.type = "disconnected" /\ page' # page
      <3>1. over' = (over \/ b)
        BY <1>12 DEF OnMessage
      <3> HIDE DEF b
      <3> QED
        BY <1>2, <3>1 DEF ServerOK
    <2> QED
      BY <1>2, <1>12, <2>6, <2>7 DEF OnMessage, server, ServerOK
  <1>13. CASE Restored
    BY <1>1, <1>2, <1>13 DEF Restored, IsPage, Filled, server, ServerOK
  <1>14. ASSUME NEW k \in Sockets, Rejected(k) \/ LinkDrops(k) \/ HandlerEnds(k)
         PROVE  Filled(page)' /\ ServerOK'
    BY <1>2, <1>14 DEF Rejected, LinkDrops, HandlerEnds, server, ServerOK, Handlers
  <1>15. ASSUME NEW s \in Sessions, IrcEnds(s) \/ Expire(s) PROVE Filled(page)' /\ ServerOK'
    BY <1>2, <1>15 DEF IrcEnds, Expire, ServerOK
  <1>16. ASSUME NEW k \in Sockets, NEW s \in Sessions, Welcome(k, s)
         PROVE  Filled(page)' /\ ServerOK'
    BY <1>2, <1>16 DEF Welcome, ServerOK, Handlers
  <1>17. CASE UNCHANGED vars
    BY <1>2, <1>17 DEF vars, server, ServerOK
  <1> QED
    BY <1>3, <1>4, <1>5, <1>6, <1>7, <1>8, <1>9, <1>10, <1>11, <1>12, <1>13, <1>14,
       <1>15, <1>16, <1>17 DEF Next, User, Tab, Server

LEMMA InitTypes == Init => Types
  <1> SUFFICES ASSUME Init PROVE Types
    OBVIOUS
  <1>1. Filled(page)
    BY FilledBlank DEF Init, Maybe
  <1> QED
    BY <1>1, InitInv, ServerInit DEF Types

(* Every value is of its type, and the queue of what was typed without a   *)
(* connection keeps its limit (app.js: send, pendingSends.length < 100).   *)
THEOREM TypeCorrect == Spec => []TypeOK
  <1> QED
    BY InitTypes, NextTypes, TypesGiveTypeOK, PTL DEF Spec

-----------------------------------------------------------------------------
(* OneSocket and ForItsSession.  What holds of every page: a socket that   *)
(* may still be of use has an onclose, only the sockets of openWS ask for  *)
(* no session, and a session is not given up while nothing pursues it.     *)

Watched(u) == \A k \in Sockets :
    u.readyState[k] \in {"connecting", "open"} => u.onclose[k] # "none"
Asked(u) == \A k \in Sockets :
    u.readyState[k] = "connecting" => (u.want[k] = NoSession <=> u.onclose[k] = "fresh")
Pursued(u) == u.sessionId # NoSession => u.timers > 0 \/ \E k \in Sockets : Hooked(u, k)
Sane(u) == Watched(u) /\ Asked(u) /\ Pursued(u)

(* What holds of a page that no session has left a timer or a socket to:   *)
(* what is hooked is the socket in use and then no timer waits, ...        *)
Lone(u) ==
    /\ ~u.leaving /\ u.timers <= 1
    /\ \A k \in Sockets : Hooked(u, k) => k = u.ws /\ u.timers = 0

(* ... the form is shown when nothing will reconnect, ...                  *)
FormLast(u) == u.form =>
    /\ u.timers = 0 /\ u.sessionId = NoSession
    /\ \A k \in Sockets : Hooked(u, k) => u.onclose[k] = "fresh" \/ ~u.connectParams

(* ... a socket that is being opened is for the session of the page, ...   *)
Dialing(u) == \A k \in Sockets : u.readyState[k] = "connecting" =>
    /\ u.onclose[k] = "fresh" => u.sessionId = NoSession /\ ~u.form
    /\ u.onclose[k] = "resume" => u.want[k] = u.sessionId

(* ... and so is what waits to be sent.                                    *)
Queued(u) ==
    /\ u.sessionId # NoSession =>
         \A i \in DOMAIN u.pendingSends : u.pendingSends[i] = u.sessionId
    /\ \A k \in Sockets :
         u.readyState[k] = "open" /\ u.onclose[k] = "fresh" /\ u.sessionId = NoSession
           => u.pendingSends = <<>>
Single(u) == Lone(u) /\ FormLast(u) /\ Dialing(u) /\ Queued(u)

NoneOpen(u) == \A k \in Sockets : u.readyState[k] # "open"

LEMMA WantFacts ==
  ASSUME NEW w \in [Sockets -> Maybe(Sessions)], NEW k \in Sockets, NEW s
  PROVE  /\ [w EXCEPT ![k] = s][k] = s
         /\ \A j \in Sockets \ {k} : [w EXCEPT ![k] = s][j] = w[j]
  OBVIOUS

(* openWS, with nothing hooked but the socket that it closes. *)
LEMMA OpenWSIsSane ==
  ASSUME NEW u, NEW k \in Sockets, IsPage(u), Filled(u), u.ws # k,
         Watched(u), Asked(u)
  PROVE  LET v == openWS(u, k) IN
         /\ Sane(v)
         /\ \A j \in Sockets \ {k} : v.readyState[j] = "connecting"
                                       => u.readyState[j] = "connecting"
         /\ /\ \A j \in Sockets : Hooked(u, j) => j = u.ws
            /\ u.timers = 0 /\ ~u.leaving /\ ~u.form /\ u.sessionId = NoSession
            => Single(v) /\ NoneOpen(v)
  <1> DEFINE v == openWS(u, k)
  <1>1. /\ IsPage(v) /\ Rest(v) = Rest(u) /\ v.pendingSends = u.pendingSends
        /\ v.ws = k /\ v.want = [u.want EXCEPT ![k] = NoSession]
        /\ v.readyState[k] = "connecting" /\ v.onclose[k] = "fresh"
        /\ \A j \in Sockets \ {k} :
             /\ v.readyState[j] = IF j = u.ws /\ u.readyState[j] \in {"connecting", "open"}
                                  THEN "closing" ELSE u.readyState[j]
             /\ v.onclose[j] = IF j = u.ws THEN "none" ELSE u.onclose[j]
    BY OpenWSFields
  <1> HIDE DEF v
  <1>2. Rest(v) = Rest(u) => /\ v.sessionId = u.sessionId /\ v.form = u.form
                             /\ v.timers = u.timers /\ v.leaving = u.leaving
    BY DEF Rest
  <1>3. Watched(v)
    BY <1>1 DEF Watched
  <1>4. v.want[k] = NoSession /\ \A j \in Sockets \ {k} : v.want[j] = u.want[j]
    BY <1>1, WantFacts DEF Filled
  <1>5. Asked(v)
    BY <1>1, <1>4 DEF Asked
  <1>6. Hooked(v, k)
    BY <1>1 DEF Hooked
  <1>7. \A j \in Sockets \ {k} : v.readyState[j] = "connecting"
                                   => u.readyState[j] = "connecting"
    BY <1>1
  <1>8. ASSUME \A j \in Sockets : Hooked(u, j) => j = u.ws,
               u.timers = 0, ~u.leaving, ~u.form, u.sessionId = NoSession
        PROVE  Single(v) /\ NoneOpen(v)
    <2>1. \A j \in Sockets \ {k} : ~Hooked(v, j) /\ v.readyState[j] \notin {"connecting", "open"}
      BY <1>1, <1>8 DEF Hooked, Watched
    <2>2. NoneOpen(v)
      BY <1>1, <2>1 DEF NoneOpen
    <2>3. Lone(v)
      BY <1>1, <1>2, <1>8, <2>1 DEF Lone
    <2>4. FormLast(v) /\ Dialing(v) /\ Queued(v)
      BY <1>1, <1>2, <1>8, <2>1, <2>2 DEF FormLast, Dialing, Queued, NoneOpen
    <2> QED
      BY <2>2, <2>3, <2>4 DEF Single
  <1>9. Sane(v)
    BY <1>3, <1>5, <1>6 DEF Sane, Pursued
  <1> QED
    BY <1>7, <1>8, <1>9 DEF v

(* A socket that resumes a session, with nothing else hooked. *)
LEMMA ResumingIsSane ==
  ASSUME NEW u, NEW k \in Sockets, NEW role \in {"url", "resume"}, IsPage(u), Filled(u),
         Watched(u), Asked(u), u.sessionId # NoSession
  PROVE  LET v == NewWebSocket(u, k, role, u.sessionId) IN
         /\ Sane(v)
         /\ \A j \in Sockets \ {k} : v.readyState[j] = "connecting"
                                       => u.readyState[j] = "connecting"
         /\ /\ \A j \in Sockets : ~Hooked(u, j)
            /\ u.timers = 0 /\ ~u.leaving /\ ~u.form
            /\ \A i \in DOMAIN u.pendingSends : u.pendingSends[i] = u.sessionId
            => Single(v) /\ NoneOpen(v)
  <1> DEFINE s == u.sessionId
             v == NewWebSocket(u, k, role, s)
  <1>0. role \in {"url", "fresh", "resume"}
    OBVIOUS
  <1>1. /\ IsPage(v) /\ Rest(v) = Rest(u) /\ v.pendingSends = u.pendingSends
        /\ v.ws = k /\ v.want = [u.want EXCEPT ![k] = s]
        /\ v.readyState[k] = "connecting" /\ v.onclose[k] = role
        /\ \A j \in Sockets \ {k} : /\ v.readyState[j] = u.readyState[j]
                                    /\ v.onclose[j] = u.onclose[j]
    BY <1>0, NewWebSocketFields
  <1> HIDE DEF v
  <1>2. Rest(v) = Rest(u) => /\ v.sessionId = u.sessionId /\ v.form = u.form
                             /\ v.timers = u.timers /\ v.leaving = u.leaving
    BY DEF Rest
  <1>3. Watched(v)
    BY <1>1 DEF Watched
  <1>4. v.want[k] = s /\ \A j \in Sockets \ {k} : v.want[j] = u.want[j]
    BY <1>1, WantFacts DEF Filled
  <1>5. Asked(v)
    BY <1>1, <1>4 DEF Asked
  <1>6. Hooked(v, k)
    BY <1>1 DEF Hooked
  <1>7. ASSUME \A j \in Sockets : ~Hooked(u, j),
               u.timers = 0, ~u.leaving, ~u.form,
               \A i \in DOMAIN u.pendingSends : u.pendingSends[i] = u.sessionId
        PROVE  Single(v) /\ NoneOpen(v)
    <2>1. \A j \in Sockets \ {k} : ~Hooked(v, j) /\ v.readyState[j] \notin {"connecting", "open"}
      BY <1>1, <1>7 DEF Hooked, Watched
    <2>2. NoneOpen(v)
      BY <1>1, <2>1 DEF NoneOpen
    <2>3. Lone(v)
      BY <1>1, <1>2, <1>7, <2>1 DEF Lone
    <2>4. FormLast(v) /\ Dialing(v) /\ Queued(v)
      BY <1>1, <1>2, <1>4, <1>7, <2>1, <2>2 DEF FormLast, Dialing, Queued, NoneOpen
    <2> QED
      BY <2>2, <2>3, <2>4 DEF Single
  <1>8. Sane(v)
    BY <1>3, <1>5, <1>6 DEF Sane, Pursued
  <1> QED
    BY <1>1, <1>7, <1>8 DEF v

-----------------------------------------------------------------------------
(* The server's side of the same sockets. *)

Idle == \A k \in Sockets : page.readyState[k] = "connecting" => handler[k] = "none"
Wired == \A s \in Sessions : attached[s] \in Sockets => handler[attached[s]] = s

(* What may be said on an open socket, whose first frame was connect: it   *)
(* registers, it is about to hear connected, it was refused, or it is      *)
(* connected.  Only while it registers may connected follow, and connected *)
(* or a refusal never meet a page that has a session.                      *)
Says(k, S) == \A i \in DOMAIN down[k] : down[k][i].type \in S
Registers(k) ==
    /\ handler[k] = "registering" /\ down[k] = <<>>
    /\ page.sessionId = NoSession /\ ~page.form
Welcomed(k) ==
    /\ handler[k] # "registering" /\ page.sessionId = NoSession /\ ~page.form
    /\ down[k] # <<>> /\ down[k][1].type = "connected"
    /\ \A i \in DOMAIN down[k] : i # 1 => down[k][i].type = "disconnected"
Refused(k) ==
    /\ handler[k] # "registering" /\ page.sessionId = NoSession
    /\ Says(k, {"connect_error", "error", "disconnected"})
Going(k) ==
    /\ handler[k] # "registering" /\ page.sessionId # NoSession /\ ~page.form
    /\ Says(k, {"disconnected"})
Fresh(k) == Registers(k) \/ Welcomed(k) \/ Refused(k) \/ Going(k)

(* ... and on one that asked for a session: it has it, or first hears that *)
(* the session is gone, after which it is not heard any more.              *)
Returned(k) ==
    /\ handler[k] # "registering"
    /\ \/ down[k] # <<>> /\ down[k][1].type = "session_expired"
       \/ Says(k, {"resumed", "disconnected"})

Talks(k) == IF page.onclose[k] = "fresh" THEN Fresh(k) ELSE Returned(k)
Talk == \A k \in Sockets : page.readyState[k] = "open" => Talks(k)

Sound ==
    /\ Types /\ Sane(page) /\ Idle /\ Wired
    /\ ~over => Single(page) /\ Talk

LEMMA NoneOpenTalk == NoneOpen(page)' => Talk'
  BY DEF NoneOpen, Talk

LEMMA TalkKept ==
  ASSUME Talk, UNCHANGED <<handler, page.sessionId, page.form>>,
         \A k \in Sockets : page'.readyState[k] = "open" =>
            /\ page.readyState[k] = "open" /\ page'.onclose[k] = page.onclose[k]
            /\ down'[k] = down[k]
  PROVE  Talk'
  <1> SUFFICES ASSUME NEW k \in Sockets, page'.readyState[k] = "open" PROVE Talks(k)'
    BY DEF Talk
  <1>1. Talks(k) /\ down'[k] = down[k] /\ page'.onclose[k] = page.onclose[k]
    BY DEF Talk
  <1> QED
    BY <1>1 DEF Talks, Fresh, Returned, Registers, Welcomed, Refused, Going, Says

LEMMA TypedSockets ==
  Types => /\ handler \in [Sockets -> Handlers] /\ down \in [Sockets -> Seq(Heard)]
           /\ attached \in [Sessions -> Sockets \cup {NoSocket}]
           /\ IsPage(page) /\ Filled(page)
  BY GoodIsPage DEF Types, ServerOK, Inv, Known

(* disconnected at the end of what is said changes nothing. *)
LEMMA FarewellTalk ==
  ASSUME Types, Talk, UNCHANGED <<handler, page>>, NEW j,
         \A k \in Sockets : handler[k] = "registering" => j # k,
         Tell(j, <<Notice("disconnected")>>)
  PROVE  Talk'
  <1> DEFINE m == Notice("disconnected")
  <1>0. m \in Heard /\ m.type = "disconnected"
    BY NoticeIsHeard DEF Notice
  <1>1. Tell(j, <<m>>)
    OBVIOUS
  <1> HIDE DEF m
  <1> SUFFICES ASSUME NEW k \in Sockets, page.readyState[k] = "open" PROVE Talks(k)'
    BY DEF Talk
  <1>2. Talks(k)
    BY DEF Talk
  <1>3. CASE down'[k] = down[k]
    BY <1>2, <1>3 DEF Talks, Fresh, Returned, Registers, Welcomed, Refused, Going, Says
  <1>4. CASE down'[k] # down[k]
    <2>1. j = k /\ down'[k] = down[k] \o <<m>>
      BY <1>1, <1>4, TypedSockets DEF Tell
    <2>2. handler[k] # "registering"
      BY <2>1
    <2> DEFINE d == down[k]
               e == down'[k]
    <2>3. d \in Seq(Heard)
      BY TypedSockets
    <2>4. e = d \o <<m>>
      BY <2>1
    <2> HIDE DEF d, e
    <2>5. /\ e # <<>> /\ DOMAIN d = 1..Len(d) /\ DOMAIN e = 1..(Len(d) + 1)
          /\ Len(d) \in Nat
          /\ \A i \in DOMAIN d : e[i] = d[i]
          /\ e[Len(d) + 1] = m
      BY <1>0, <2>3, <2>4
    <2>6. /\ \A i \in DOMAIN e : i \in DOMAIN d \/ e[i].type = "disconnected"
          /\ d # <<>> => e[1] = d[1]
      BY <1>0, <2>3, <2>5
    <2>7. Welcomed(k) => Welcomed(k)'
      BY <2>5, <2>6 DEF Welcomed, d, e
    <2>8. Refused(k) => Refused(k)'
      BY <2>5, <2>6 DEF Refused, Says, d, e
    <2>9. Going(k) => Going(k)'
      BY <2>5, <2>6 DEF Going, Says, d, e
    <2>10. Returned(k) => Returned(k)'
      BY <2>5, <2>6 DEF Returned, Says, d, e
    <2>11. ~Registers(k)
      BY <2>2 DEF Registers
    <2> QED
      BY <1>2, <2>7, <2>8, <2>9, <2>10, <2>11 DEF Talks, Fresh
  <1> QED
    BY <1>3, <1>4

-----------------------------------------------------------------------------
(* The steps of the server leave the page alone. *)

LEMMA RejectedSound ==
  ASSUME Sound, NEW k \in Sockets, Rejected(k)
  PROVE  Sane(page)' /\ Idle' /\ Wired' /\ (~over' => Single(page)' /\ Talk')
  <1> USE DEF Sound
  <1>1. /\ handler[k] = "registering" /\ handler' = [handler EXCEPT ![k] = "closed"]
        /\ UNCHANGED <<page, attached, over>>
    BY DEF Rejected
  <1>2. \A j \in Sockets \ {k} : handler'[j] = handler[j]
    BY <1>1, TypedSockets
  <1>3. handler'[k] = "closed"
    BY <1>1, TypedSockets
  <1>4. Idle'
    BY <1>1, <1>2 DEF Idle
  <1>5. Wired'
    BY <1>1, <1>2, BrowserAssumption DEF Wired
  <1>6. ASSUME ~over PROVE Talk'
    <2> DEFINE a == Notice("error")
               b == Notice("disconnected")
    <2>1. Tell(k, <<a, b>>) /\ a.type = "error" /\ b.type = "disconnected"
          /\ a \in Heard /\ b \in Heard
      BY NoticeIsHeard DEF Rejected, Notice
    <2> HIDE DEF a, b
    <2>2. \A j \in Sockets \ {k} : down'[j] = down[j]
      BY <2>1, TypedSockets DEF Tell
    <2>3. ASSUME NEW j \in Sockets \ {k}, page.readyState[j] = "open" PROVE Talks(j)'
      <3>1. Talks(j)
        BY <1>6, <2>3 DEF Talk
      <3> QED
        BY <1>1, <1>2, <2>2, <3>1 DEF Talks, Fresh, Returned, Registers, Welcomed, Refused, Going, Says
    <2>4. ASSUME page.readyState[k] = "open" PROVE Talks(k)'
      <3>1. page.onclose[k] = "fresh" /\ Registers(k)
        BY <1>1, <1>6, <2>4 DEF Talk, Talks, Fresh, Returned, Welcomed, Refused, Going
      <3>2. down'[k] = <<a, b>> \/ down'[k] = <<>>
        BY <2>1, <3>1, TypedSockets DEF Tell, Registers
      <3>3. Refused(k)'
        BY <1>1, <1>3, <2>1, <3>1, <3>2 DEF Refused, Says, Registers
      <3> QED
        BY <1>1, <3>1, <3>3 DEF Talks, Fresh
    <2> QED
      BY <1>1, <2>3, <2>4 DEF Talk
  <1> QED
    BY <1>1, <1>4, <1>5, <1>6

LEMMA WelcomeSound ==
  ASSUME Sound, NEW k \in Sockets, NEW s \in Sessions, Welcome(k, s)
  PROVE  Sane(page)' /\ Idle' /\ Wired' /\ (~over' => Single(page)' /\ Talk')
  <1> USE DEF Sound
  <1>1. /\ handler[k] = "registering" /\ handler' = [handler EXCEPT ![k] = s]
        /\ attached' = [attached EXCEPT ![s] = k]
        /\ UNCHANGED <<page, over>>
    BY DEF Welcome
  <1>2. \A j \in Sockets \ {k} : handler'[j] = handler[j]
    BY <1>1, TypedSockets
  <1>3. handler'[k] = s /\ s # "registering"
    BY <1>1, TypedSockets, BrowserAssumption
  <1>4. Idle'
    BY <1>1, <1>2 DEF Idle
  <1>5. Wired'
    <2>1. attached'[s] = k /\ \A t \in Sessions \ {s} : attached'[t] = attached[t]
      BY <1>1, TypedSockets
    <2>2. \A t \in Sessions : attached[t] # k
      BY <1>1, BrowserAssumption DEF Wired
    <2> QED
      BY <1>1, <1>2, <1>3, <2>1, <2>2 DEF Wired
  <1>6. ASSUME ~over PROVE Talk'
    <2> DEFINE m == [type |-> "connected", id |-> s]
    <2>1. Tell(k, <<m>>) /\ m.type = "connected"
      BY DEF Welcome
    <2> HIDE DEF m
    <2>2. \A j \in Sockets \ {k} : down'[j] = down[j]
      BY <2>1, TypedSockets DEF Tell
    <2>3. ASSUME NEW j \in Sockets \ {k}, page.readyState[j] = "open" PROVE Talks(j)'
      <3>1. Talks(j)
        BY <1>6, <2>3 DEF Talk
      <3> QED
        BY <1>1, <1>2, <2>2, <3>1 DEF Talks, Fresh, Returned, Registers, Welcomed, Refused, Going, Says
    <2>4. ASSUME page.readyState[k] = "open" PROVE Talks(k)'
      <3>1. page.onclose[k] = "fresh" /\ Registers(k)
        BY <1>1, <1>6, <2>4 DEF Talk, Talks, Fresh, Returned, Welcomed, Refused, Going
      <3>2. down'[k] = <<m>> \/ down'[k] = <<>>
        BY <2>1, <3>1, TypedSockets DEF Tell, Registers
      <3>3. Welcomed(k)' \/ Refused(k)'
        BY <1>1, <1>3, <2>1, <3>1, <3>2 DEF Welcomed, Refused, Says, Registers
      <3> QED
        BY <1>1, <3>1, <3>3 DEF Talks, Fresh
    <2> QED
      BY <1>1, <2>3, <2>4 DEF Talk
  <1> QED
    BY <1>1, <1>4, <1>5, <1>6

LEMMA HandlerEndsSound ==
  ASSUME Sound, NEW k \in Sockets, HandlerEnds(k)
  PROVE  Sane(page)' /\ Idle' /\ Wired' /\ (~over' => Single(page)' /\ Talk')
  <1> USE DEF Sound
  <1>1. /\ handler' = [handler EXCEPT ![k] = "none"]
        /\ attached' = [s \in Sessions |-> IF s = handler[k] THEN NoSocket ELSE attached[s]]
        /\ UNCHANGED <<page, down, over>>
    BY DEF HandlerEnds
  <1>2. handler'[k] = "none" /\ \A j \in Sockets \ {k} : handler'[j] = handler[j]
    BY <1>1, TypedSockets
  <1>3. Idle'
    BY <1>1, <1>2 DEF Idle
  <1>4. Wired'
    <2> SUFFICES ASSUME NEW s \in Sessions, attached'[s] \in Sockets
                 PROVE  handler'[attached'[s]] = s
      BY DEF Wired
    <2>1. s # handler[k] /\ attached'[s] = attached[s]
      BY <1>1, BrowserAssumption
    <2>2. handler[attached[s]] = s /\ attached[s] # k
      BY <2>1 DEF Wired
    <2> QED
      BY <1>2, <2>1, <2>2
  <1>5. ASSUME ~over PROVE Talk'
    <2> SUFFICES ASSUME NEW j \in Sockets, page.readyState[j] = "open" PROVE Talks(j)'
      BY <1>1 DEF Talk
    <2>1. Talks(j)
      BY <1>5 DEF Talk
    <2>2. Registers(j) => Registers(j)' \/ Refused(j)'
      BY <1>1, <1>2 DEF Registers, Refused, Says
    <2>3. /\ Welcomed(j) => Welcomed(j)'
          /\ Refused(j) => Refused(j)'
          /\ Going(j) => Going(j)'
          /\ Returned(j) => Returned(j)'
      BY <1>1, <1>2 DEF Welcomed, Refused, Going, Returned, Says
    <2> QED
      BY <1>1, <2>1, <2>2, <2>3 DEF Talks, Fresh
  <1> QED
    BY <1>1, <1>3, <1>4, <1>5

LEMMA IrcEndsSound ==
  ASSUME Sound, NEW s \in Sessions, IrcEnds(s)
  PROVE  Sane(page)' /\ Idle' /\ Wired' /\ (~over' => Single(page)' /\ Talk')
  <1> USE DEF Sound
  <1>1. Tell(attached[s], <<Notice("disconnected")>>) /\ UNCHANGED <<page, handler, attached, over>>
    BY DEF IrcEnds
  <1>2. \A k \in Sockets : handler[k] = "registering" => attached[s] # k
    BY BrowserAssumption DEF Wired
  <1>3. ~over => Talk'
    BY <1>1, <1>2, FarewellTalk
  <1> QED
    BY <1>1, <1>3 DEF Idle, Wired

LEMMA ServerStepsSound ==
  ASSUME Sound, Server
  PROVE  Sane(page)' /\ Idle' /\ Wired' /\ (~over' => Single(page)' /\ Talk')
  <1>1. ASSUME NEW k \in Sockets, LinkDrops(k)
        PROVE  Sane(page)' /\ Idle' /\ Wired' /\ (~over' => Single(page)' /\ Talk')
    <2>1. UNCHANGED <<page, down, handler, attached, over>>
      BY <1>1 DEF LinkDrops, server
    <2> QED
      BY <2>1, TalkKept DEF Sound, Idle, Wired
  <1>2. ASSUME NEW s \in Sessions, Expire(s)
        PROVE  Sane(page)' /\ Idle' /\ Wired' /\ (~over' => Single(page)' /\ Talk')
    <2>1. UNCHANGED <<page, down, handler, attached, over>>
      BY <1>2 DEF Expire
    <2> QED
      BY <2>1, TalkKept DEF Sound, Idle, Wired
  <1> QED
    BY <1>1, <1>2, RejectedSound, WelcomeSound, HandlerEndsSound, IrcEndsSound DEF Server

-----------------------------------------------------------------------------
(* The steps of the user. *)

LEMMA PursuitsFacts ==
  ASSUME NEW u, IsPage(u)
  PROVE  /\ ~(Pursuits(u) > 0) => u.timers = 0 /\ \A k \in Sockets : ~Hooked(u, k)
         /\ Lone(u) => Pursuits(u) <= 1
  <1> DEFINE H == {k \in Sockets : Hooked(u, k)}
  <1>1. IsFiniteSet(H) /\ Cardinality(H) \in Nat
    BY FS_Subset, FS_CardinalityType
  <1>2. u.timers \in Nat /\ Pursuits(u) = Cardinality(H) + u.timers
    BY DEF IsPage, Pursuits
  <1>3. Cardinality(H) = 0 => H = {}
    BY <1>1, FS_EmptySet
  <1>4. ~(Pursuits(u) > 0) => Cardinality(H) = 0 /\ u.timers = 0
    <2> HIDE DEF H
    <2> QED
      BY <1>1, <1>2
  <1>5. H = {} => Cardinality(H) = 0
    BY FS_EmptySet
  <1>6. ASSUME Lone(u) PROVE Pursuits(u) <= 1
    <2>1. CASE H = {}
      BY <1>2, <1>5, <1>6, <2>1 DEF Lone
    <2>2. CASE H # {}
      <3>1. PICK k \in Sockets : Hooked(u, k)
        BY <2>2
      <3>2. H = {u.ws} /\ u.timers = 0
        BY <1>6, <3>1 DEF Lone
      <3>3. Cardinality(H) = 1
        BY <3>2, FS_Singleton
      <3> HIDE DEF H
      <3> QED
        BY <1>2, <3>2, <3>3
    <2> QED
      BY <2>1, <2>2
  <1> QED
    BY <1>3, <1>4, <1>6

(* Nothing is hooked, and at most one timer waits. *)
LEMMA BareIsSingle ==
  ASSUME NEW u, IsPage(u), Watched(u), \A j \in Sockets : ~Hooked(u, j),
         ~u.leaving, u.timers <= 1,
         u.form => u.timers = 0 /\ u.sessionId = NoSession,
         u.sessionId # NoSession =>
            \A i \in DOMAIN u.pendingSends : u.pendingSends[i] = u.sessionId
  PROVE  Single(u) /\ NoneOpen(u)
  <1>1. \A j \in Sockets : u.readyState[j] \notin {"connecting", "open"}
    BY DEF Watched, Hooked
  <1> QED
    BY <1>1 DEF Single, Lone, FormLast, Dialing, Queued, NoneOpen

LEMMA WiringKept ==
  ASSUME Idle, Wired, UNCHANGED <<handler, attached>>,
         \A j \in Sockets : page'.readyState[j] = "connecting" =>
            page.readyState[j] = "connecting" \/ handler[j] = "none"
  PROVE  Idle' /\ Wired'
  BY DEF Idle, Wired

(* The same sockets with the same callbacks. *)
LEMMA SocketsKept ==
  ASSUME NEW u, NEW v, u.readyState = v.readyState, u.onclose = v.onclose, u.want = v.want
  PROVE  /\ Watched(u) => Watched(v)
         /\ Asked(u) => Asked(v)
         /\ \A k : Hooked(v, k) <=> Hooked(u, k)
         /\ Pursued(u) /\ v.timers = u.timers /\ v.sessionId \in {u.sessionId, NoSession}
              => Pursued(v)
  BY DEF Watched, Asked, Hooked, Pursued

LEMMA ReloadSound ==
  ASSUME Sound, NEW k \in Sockets, Reload(k)
  PROVE  Sane(page)' /\ Idle' /\ Wired' /\ (~over' => Single(page)' /\ Talk')
  <1> USE DEF Sound
  <1> DEFINE shut == [Blank(page.url) EXCEPT
                        !.readyState = [j \in Sockets |->
                            IF page.readyState[j] = "closed" THEN "closed" ELSE "closing"]]
             u == [shut EXCEPT !.sessionId = page.url, !.form = FALSE,
                               !.chat = TRUE, !.restore = TRUE]
  <1>0. IsPage(Blank(page.url)) /\ page.url \in Maybe(Sessions) /\ IsPage(page)
    BY BlankIsPage, TypedSockets DEF Filled
  <1>1. /\ IsPage(shut) /\ Filled(shut)
        /\ shut.sessionId = NoSession /\ shut.timers = 0 /\ ~shut.leaving
        /\ shut.pendingSends = <<>>
        /\ \A j \in Sockets : /\ shut.onclose[j] = "none"
                              /\ shut.readyState[j] \in {"closed", "closing"}
    <2> DEFINE b == Blank(page.url)
    <2>1. Filled(b) /\ IsPage(b)
      BY <1>0, FilledBlank
    <2>2. /\ b.sessionId = NoSession /\ b.timers = 0 /\ ~b.leaving /\ b.pendingSends = <<>>
          /\ \A j \in Sockets : b.onclose[j] = "none"
      BY DEF Blank
    <2>3. shut = [b EXCEPT !.readyState = shut.readyState]
      BY DEF Blank
    <2>4. /\ shut.readyState \in [Sockets -> {"connecting", "open", "closing", "closed"}]
          /\ \A j \in Sockets : shut.readyState[j] \in {"closed", "closing"}
      BY DEF Blank
    <2> HIDE DEF shut, b
    <2>5. Filled(shut)
      BY <2>1, <2>3 DEF IsPage, Filled
    <2>6. IsPage(shut)
      BY <2>1, <2>3, <2>4 DEF IsPage
    <2> QED
      BY <2>1, <2>2, <2>3, <2>4, <2>5, <2>6 DEF IsPage
  <1> HIDE DEF shut
  <1>2. /\ IsPage(u) /\ Filled(u) /\ u.sessionId = page.url
        /\ u.timers = 0 /\ ~u.leaving /\ ~u.form /\ u.pendingSends = <<>>
        /\ u.onclose = shut.onclose /\ u.readyState = shut.readyState
    BY <1>0, <1>1 DEF IsPage, Filled
  <1> HIDE DEF u
  <1>3. /\ UNCHANGED <<handler, attached>> /\ handler[k] = "none"
        /\ page' = IF page.url = NoSession THEN shut
                   ELSE NewWebSocket(u, k, "url", page.url)
    BY DEF Reload, server, Free, shut, u
  <1>4. CASE page.url = NoSession
    <2>1. Watched(shut) /\ Asked(shut) /\ \A j \in Sockets : ~Hooked(shut, j)
      BY <1>1 DEF Watched, Asked, Hooked
    <2>2. Single(shut) /\ NoneOpen(shut)
      BY <1>1, <2>1, BareIsSingle
    <2>3. Sane(shut)
      BY <1>1, <2>1 DEF Sane, Pursued
    <2>4. Idle' /\ Wired'
      BY <1>1, <1>3, <1>4, WiringKept
    <2> QED
      BY <1>3, <1>4, <2>2, <2>3, <2>4, NoneOpenTalk
  <1>5. CASE page.url # NoSession
    <2> DEFINE v == NewWebSocket(u, k, "url", u.sessionId)
    <2>1. Watched(u) /\ Asked(u) /\ \A j \in Sockets : ~Hooked(u, j)
      BY <1>1, <1>2 DEF Watched, Asked, Hooked
    <2>2. Sane(v) /\ Single(v) /\ NoneOpen(v)
          /\ \A j \in Sockets \ {k} : v.readyState[j] = "connecting"
                                        => u.readyState[j] = "connecting"
      BY <1>2, <1>5, <2>1, ResumingIsSane
    <2>3. page' = v
      BY <1>2, <1>3, <1>5
    <2> HIDE DEF v
    <2>4. Idle' /\ Wired'
      BY <1>1, <1>2, <1>3, <2>2, <2>3, WiringKept
    <2> QED
      BY <2>2, <2>3, <2>4, NoneOpenTalk
  <1> QED
    BY <1>4, <1>5

LEMMA SubmitSound ==
  ASSUME Sound, NEW k \in Sockets, Submit(k)
  PROVE  Sane(page)' /\ Idle' /\ Wired' /\ (~over' => Single(page)' /\ Talk')
  <1> USE DEF Sound
  <1> DEFINE u == [page EXCEPT !.connectParams = TRUE, !.form = FALSE,
                               !.chat = TRUE, !.active = TRUE]
             v == openWS(u, k)
  <1>0. IsPage(page) /\ Filled(page)
    BY TypedSockets
  <1>1. /\ IsPage(u) /\ Filled(u) /\ u.ws = page.ws /\ ~u.form
        /\ u.sessionId = page.sessionId /\ u.timers = page.timers /\ u.leaving = page.leaving
        /\ u.onclose = page.onclose /\ u.readyState = page.readyState /\ u.want = page.want
    BY <1>0 DEF IsPage, Filled
  <1>2. page.form /\ page.ws # k /\ handler[k] = "none" /\ UNCHANGED <<handler, attached>>
    BY DEF Submit, Free, server
  <1>3. page' = v
    BY DEF Submit
  <1> HIDE DEF u
  <1>4. Watched(u) /\ Asked(u) /\ \A j \in Sockets : Hooked(u, j) <=> Hooked(page, j)
    BY <1>1, SocketsKept DEF Sane
  <1>5. /\ Sane(v)
        /\ \A j \in Sockets \ {k} : v.readyState[j] = "connecting"
                                       => u.readyState[j] = "connecting"
        /\ /\ \A j \in Sockets : Hooked(u, j) => j = u.ws
           /\ u.timers = 0 /\ ~u.leaving /\ ~u.form /\ u.sessionId = NoSession
           => Single(v) /\ NoneOpen(v)
    BY <1>1, <1>2, <1>4, OpenWSIsSane
  <1> HIDE DEF v
  <1>6. Idle' /\ Wired'
    BY <1>1, <1>2, <1>3, <1>5, WiringKept
  <1>7. ASSUME ~over' PROVE Single(v) /\ NoneOpen(v)
    <2>1. ~over \/ ~(Pursuits(page) > 0 \/ page.leaving)
      BY <1>7 DEF Submit
    <2>2. CASE ~over
      BY <1>1, <1>2, <1>4, <1>5, <2>2 DEF Single, Lone, FormLast
    <2>3. CASE ~(Pursuits(page) > 0) /\ ~page.leaving
      <3>1. page.timers = 0 /\ \A j \in Sockets : ~Hooked(page, j)
        BY <1>0, <2>3, PursuitsFacts
      <3>2. page.sessionId = NoSession
        BY <3>1 DEF Sane, Pursued
      <3> QED
        BY <1>1, <1>4, <1>5, <2>3, <3>1, <3>2
    <2> QED
      BY <2>1, <2>2, <2>3
  <1> QED
    BY <1>3, <1>5, <1>6, <1>7, NoneOpenTalk

LEMMA TypeSound ==
  ASSUME Sound, Type
  PROVE  Sane(page)' /\ Idle' /\ Wired' /\ (~over' => Single(page)' /\ Talk')
  <1> USE DEF Sound
  <1> DEFINE fs == <<page.sessionId>>
             v == send(page, fs)
  <1>1. page' = v /\ UNCHANGED <<down, handler, attached, over>>
    BY DEF Type, server
  <1>2. IsPage(page) /\ Filled(page)
    BY TypedSockets
  <1>3. /\ IsPage(v) /\ Rest(v) = Rest(page) /\ v.ws = page.ws /\ v.want = page.want
        /\ v.readyState = page.readyState /\ v.onclose = page.onclose
    BY <1>2, SendFields
  <1>4. ASSUME page.sessionId = NoSession PROVE v = page
    BY <1>4 DEF send
  <1>5. ASSUME ~over, page.sessionId # NoSession
        PROVE  \A i \in DOMAIN v.pendingSends : v.pendingSends[i] = page.sessionId
    <2> DEFINE S == {page.sessionId}
    <2>1. fs \in Seq(S) /\ Len(page.pendingSends) <= PendingMax
      BY <1>2 DEF Filled
    <2>2. page.pendingSends \in Seq(S)
      <3>1. page.pendingSends \in Seq(Frames)
        BY <1>2 DEF Filled
      <3>2. \A i \in DOMAIN page.pendingSends : page.pendingSends[i] \in S
        BY <1>5 DEF Single, Queued
      <3> QED
        BY <3>1, <3>2
    <2> HIDE DEF fs
    <2>3. v.pendingSends \in Seq(S)
      BY <1>2, <2>1, <2>2, SendQueues
    <2> HIDE DEF v
    <2> QED
      BY <2>3
  <1> HIDE DEF v
  <1>6. /\ v.sessionId = page.sessionId /\ v.form = page.form /\ v.timers = page.timers
        /\ v.leaving = page.leaving /\ v.connectParams = page.connectParams
    BY <1>3 DEF Rest
  <1>7. Sane(v) /\ \A j : Hooked(v, j) <=> Hooked(page, j)
    BY <1>3, <1>6, SocketsKept DEF Sane
  <1>8. Idle' /\ Wired'
    BY <1>1, <1>3, WiringKept
  <1>9. ASSUME ~over PROVE Single(v) /\ Talk'
    <2>1. Lone(v) /\ FormLast(v) /\ Dialing(v)
      BY <1>3, <1>6, <1>7, <1>9 DEF Single, Lone, FormLast, Dialing
    <2>2. Queued(v)
      BY <1>3, <1>4, <1>5, <1>6, <1>9 DEF Single, Queued
    <2>3. Talk'
      BY <1>1, <1>3, <1>6, <1>9, TalkKept
    <2> QED
      BY <2>1, <2>2, <2>3 DEF Single
  <1> QED
    BY <1>1, <1>7, <1>8, <1>9

(* The three ways in which the tab gives a session up. *)
LEMMA LeavingSound ==
  ASSUME Sound, Disconnect \/ DisconnectTimer \/ RestoreCancel
  PROVE  Sane(page)' /\ Idle' /\ Wired' /\ (~over' => Single(page)' /\ Talk')
  <1> USE DEF Sound
  <1>0. IsPage(page)
    BY TypedSockets
  <1> DEFINE c == Close(page, page.ws)
  <1>1. /\ IsPage(c) /\ c.want = page.want /\ c.onclose = page.onclose
        /\ \A j \in Sockets : c.readyState[j] \in {page.readyState[j], "closing"}
    BY <1>0, CloseFields
  <1> HIDE DEF c
  <1>2. Watched(c) /\ Asked(c)
    BY <1>1 DEF Sane, Watched, Asked
  <1>3. CASE Disconnect
    <2>1. /\ page'.readyState = page.readyState /\ page'.onclose = page.onclose
          /\ page'.want = page.want /\ page'.sessionId = NoSession
          /\ over' = TRUE /\ UNCHANGED attached
      BY <1>0, <1>3 DEF Disconnect, IsPage
    <2>2. Sane(page)'
      BY <2>1 DEF Sane, Watched, Asked, Pursued
    <2>3. Idle' /\ Wired'
      <3>1. CASE handler' = handler
        BY <2>1, <3>1, WiringKept
      <3>2. CASE /\ Open(page, page.ws)
                 /\ handler' = [handler EXCEPT ![page.ws] =
                                   IF @ \in Sessions THEN @ ELSE "closed"]
        <4>1. page.ws \in Sockets /\ page.readyState[page.ws] = "open"
          BY <1>0, <3>2 DEF Open, IsPage
        <4>2. \A j \in Sockets : \/ handler'[j] = handler[j]
                                 \/ j = page.ws /\ handler[j] \notin Sessions
          BY <3>2, <4>1, TypedSockets
        <4> QED
          BY <2>1, <4>1, <4>2 DEF Idle, Wired
      <3> QED
        BY <1>3, <3>1, <3>2 DEF Disconnect, DispatchDisconnect
    <2> QED
      BY <2>1, <2>2, <2>3
  <1>4. CASE DisconnectTimer
    <2> DEFINE u == [c EXCEPT !.leaving = FALSE]
    <2>1. page' = onDisconnect(u) /\ UNCHANGED <<handler, attached, over>> /\ page.leaving
      BY <1>4 DEF DisconnectTimer, server, c
    <2>2. /\ IsPage(u) /\ u.want = c.want /\ u.onclose = c.onclose
          /\ u.readyState = c.readyState
      BY <1>1 DEF IsPage
    <2> HIDE DEF u
    <2>3. /\ page'.readyState = c.readyState /\ page'.onclose = c.onclose
          /\ page'.want = c.want /\ page'.sessionId = NoSession
      BY <2>1, <2>2 DEF onDisconnect, showForm, IsPage
    <2>4. Sane(page)'
      BY <1>2, <2>3 DEF Sane, Watched, Asked, Pursued
    <2>5. Idle' /\ Wired'
      BY <1>1, <2>1, <2>3, WiringKept
    <2>6. over
      BY <2>1 DEF Single, Lone
    <2> QED
      BY <2>1, <2>4, <2>5, <2>6
  <1>5. CASE RestoreCancel
    <2>1. /\ over' = TRUE /\ UNCHANGED <<handler, attached>>
          /\ page' = [c EXCEPT !.ws = NoSocket, !.sessionId = NoSession, !.url = NoSession,
                               !.restore = FALSE, !.form = TRUE]
      BY <1>5 DEF RestoreCancel, server, c
    <2>2. /\ page'.readyState = c.readyState /\ page'.onclose = c.onclose
          /\ page'.want = c.want /\ page'.sessionId = NoSession
      BY <1>1, <2>1 DEF IsPage
    <2>3. Sane(page)'
      BY <1>2, <2>2 DEF Sane, Watched, Asked, Pursued
    <2>4. Idle' /\ Wired'
      BY <1>1, <2>1, <2>2, WiringKept
    <2> QED
      BY <2>1, <2>3, <2>4
  <1> QED
    BY <1>3, <1>4, <1>5

-----------------------------------------------------------------------------
(* The callbacks of the tab. *)

LEMMA ReconnectTimerSound ==
  ASSUME Sound, NEW k \in Sockets, ReconnectTimer(k)
  PROVE  Sane(page)' /\ Idle' /\ Wired' /\ (~over' => Single(page)' /\ Talk')
  <1> USE DEF Sound
  <1> DEFINE p == [page EXCEPT !.timers = @ - 1]
  <1>0. IsPage(page) /\ Filled(page)
    BY TypedSockets
  <1>1. /\ page.timers > 0 /\ page.ws # k /\ handler[k] = "none"
        /\ UNCHANGED <<handler, attached, over>>
    BY DEF ReconnectTimer, Free, server
  <1>2. page.timers \in Nat /\ page.timers - 1 \in Nat /\ page.timers - 1 <= MaxTimers
    BY <1>0, <1>1 DEF IsPage, Filled
  <1>3. /\ IsPage(p) /\ Filled(p) /\ p.ws = page.ws /\ p.form = page.form
        /\ p.sessionId = page.sessionId /\ p.timers = page.timers - 1
        /\ p.leaving = page.leaving /\ p.pendingSends = page.pendingSends
        /\ p.onclose = page.onclose /\ p.readyState = page.readyState /\ p.want = page.want
        /\ p.connectParams = page.connectParams
    BY <1>0, <1>2 DEF IsPage, Filled
  <1>4. page' = IF p.sessionId # NoSession
                THEN NewWebSocket(p, k, "resume", p.sessionId)
                ELSE IF p.connectParams THEN openWS(p, k) ELSE p
    BY DEF ReconnectTimer
  <1> HIDE DEF p
  <1>5. Watched(p) /\ Asked(p) /\ \A j \in Sockets : Hooked(p, j) <=> Hooked(page, j)
    BY <1>3, SocketsKept DEF Sane
  <1>6. ~over => /\ \A j \in Sockets : ~Hooked(p, j)
                 /\ p.timers = 0 /\ ~p.leaving /\ ~p.form
                 /\ p.sessionId # NoSession =>
                      \A i \in DOMAIN p.pendingSends : p.pendingSends[i] = p.sessionId
    BY <1>1, <1>2, <1>3, <1>5 DEF Single, Lone, FormLast, Queued
  <1>7. CASE p.sessionId # NoSession
    <2> DEFINE v == NewWebSocket(p, k, "resume", p.sessionId)
    <2>1. /\ Sane(v)
          /\ \A j \in Sockets \ {k} : v.readyState[j] = "connecting"
                                        => p.readyState[j] = "connecting"
          /\ ~over => Single(v) /\ NoneOpen(v)
      BY <1>3, <1>5, <1>6, <1>7, ResumingIsSane
    <2>2. page' = v
      BY <1>4, <1>7
    <2> HIDE DEF v
    <2>3. Idle' /\ Wired'
      BY <1>1, <1>3, <2>1, <2>2, WiringKept
    <2> QED
      BY <1>1, <2>1, <2>2, <2>3, NoneOpenTalk
  <1>8. CASE p.sessionId = NoSession /\ p.connectParams
    <2> DEFINE v == openWS(p, k)
    <2>1. /\ Sane(v)
          /\ \A j \in Sockets \ {k} : v.readyState[j] = "connecting"
                                        => p.readyState[j] = "connecting"
          /\ ~over => Single(v) /\ NoneOpen(v)
      BY <1>1, <1>3, <1>5, <1>6, <1>8, OpenWSIsSane
    <2>2. page' = v
      BY <1>4, <1>8
    <2> HIDE DEF v
    <2>3. Idle' /\ Wired'
      BY <1>1, <1>3, <2>1, <2>2, WiringKept
    <2> QED
      BY <1>1, <2>1, <2>2, <2>3, NoneOpenTalk
  <1>9. CASE p.sessionId = NoSession /\ ~p.connectParams
    <2>1. page' = p
      BY <1>4, <1>9
    <2>2. Sane(p)
      BY <1>5, <1>9 DEF Sane, Pursued
    <2>3. ~over => Single(p) /\ NoneOpen(p)
      BY <1>3, <1>5, <1>6, <1>9, BareIsSingle
    <2>4. Idle' /\ Wired'
      BY <1>1, <1>3, <2>1, WiringKept
    <2> QED
      BY <1>1, <2>1, <2>2, <2>3, <2>4, NoneOpenTalk
  <1> QED
    BY <1>7, <1>8, <1>9

LEMMA OnCloseSound ==
  ASSUME Sound, NEW k \in Sockets, OnClose(k)
  PROVE  Sane(page)' /\ Idle' /\ Wired' /\ (~over' => Single(page)' /\ Talk')
  <1> USE DEF Sound
  <1> DEFINE p == [page EXCEPT !.readyState[k] = "closed", !.onclose[k] = "none",
                               !.want[k] = NoSession,
                               !.restore = @ /\ page.onclose[k] # "url"]
  <1>0. IsPage(page) /\ Filled(page)
    BY TypedSockets
  <1>1. /\ page.readyState[k] # "closed" /\ UNCHANGED <<handler, attached, over>>
        /\ down' = [down EXCEPT ![k] = <<>>]
    BY DEF OnClose, server
  <1>2. /\ IsPage(p) /\ p.ws = page.ws /\ p.form = page.form
        /\ p.sessionId = page.sessionId /\ p.timers = page.timers
        /\ p.leaving = page.leaving /\ p.pendingSends = page.pendingSends
        /\ p.connectParams = page.connectParams
        /\ p.readyState[k] = "closed" /\ p.onclose[k] = "none"
        /\ \A j \in Sockets \ {k} : /\ p.readyState[j] = page.readyState[j]
                                    /\ p.onclose[j] = page.onclose[j]
                                    /\ p.want[j] = page.want[j]
    BY ZenonT(40), <1>0 DEF IsPage, Filled
  <1> DEFINE role == page.onclose[k]
             retry == p.sessionId # NoSession \/ p.connectParams
  <1>3. page' =
           CASE role = "none" -> p
             [] role = "url" /\ ~retry -> [p EXCEPT !.form = TRUE]
             [] role = "resume" /\ ~retry -> p
             [] role = "fresh" /\ p.sessionId = NoSession ->
                    IF p.connected THEN onDisconnect(p) ELSE onConnectFailed(p)
             [] OTHER -> scheduleReconnect(p)
    BY DEF OnClose
  <1>4. role \in {"none", "url", "fresh", "resume"}
    BY <1>0 DEF IsPage
  <1> HIDE DEF p
  <1>5. /\ Watched(p) /\ Asked(p) /\ ~Hooked(p, k)
        /\ \A j \in Sockets \ {k} : Hooked(p, j) <=> Hooked(page, j)
    BY <1>2 DEF Sane, Watched, Asked, Hooked
  <1>6. CASE role = "none"
    <2>1. page' = p
      BY <1>3, <1>6
    <2>2. ~Hooked(page, k) /\ page.readyState[k] \in {"closing", "closed"}
      BY <1>0, <1>6 DEF Hooked, Sane, Watched, IsPage
    <2>3. Sane(p)
      BY <1>2, <1>5, <2>2 DEF Sane, Pursued
    <2>4. Idle' /\ Wired'
      BY <1>1, <1>2, <2>1, WiringKept
    <2>5. ASSUME ~over PROVE Single(p) /\ Talk'
      <3>1. Lone(p) /\ FormLast(p) /\ Dialing(p) /\ Queued(p)
        BY <1>2, <1>5, <2>2, <2>5 DEF Single, Lone, FormLast, Dialing, Queued
      <3>2. \A j \in Sockets : p.readyState[j] = "open" =>
              page.readyState[j] = "open" /\ p.onclose[j] = page.onclose[j]
              /\ down'[j] = down[j]
        BY <1>1, <1>2, TypedSockets
      <3>3. Talk'
        BY <1>1, <1>2, <2>1, <2>5, <3>2, TalkKept
      <3> QED
        BY <3>1, <3>3 DEF Single
    <2> QED
      BY <1>1, <2>1, <2>3, <2>4, <2>5
  <1>7. CASE role # "none"
    <2>1. Hooked(page, k)
      BY <1>1, <1>7 DEF Hooked
    <2>2. ~over => /\ page.timers = 0 /\ ~page.leaving
                   /\ \A j \in Sockets : ~Hooked(p, j)
      BY <1>5, <2>1 DEF Single, Lone
    <2>3. \/ page' \in {[p EXCEPT !.form = TRUE], showForm(p)} /\ p.sessionId = NoSession
          \/ page' = onDisconnect(p)
          \/ page' = p /\ p.sessionId = NoSession /\ ~p.connectParams
          \/ /\ page' = scheduleReconnect(p)
             /\ \/ p.sessionId # NoSession
                \/ role # "fresh" /\ p.connectParams
      <3>1. CASE role = "fresh"
        BY <1>3, <3>1 DEF onConnectFailed
      <3>2. CASE role # "fresh" /\ retry
        BY <1>3, <1>4, <1>7, <3>2
      <3>3. CASE role # "fresh" /\ ~retry
        BY <1>3, <1>4, <1>7, <3>3
      <3> QED
        BY <3>1, <3>2, <3>3
    <2>4. /\ page'.readyState = p.readyState /\ page'.onclose = p.onclose
          /\ page'.want = p.want /\ page'.leaving = p.leaving
          /\ page'.pendingSends = p.pendingSends
      <3>1. \A w \in {p, [p EXCEPT !.form = TRUE], showForm(p), onDisconnect(p),
                     scheduleReconnect(p)} :
              /\ w.readyState = p.readyState /\ w.onclose = p.onclose
              /\ w.want = p.want /\ w.leaving = p.leaving
              /\ w.pendingSends = p.pendingSends
        <4>1. /\ showForm(p).readyState = p.readyState /\ showForm(p).onclose = p.onclose
              /\ showForm(p).want = p.want /\ showForm(p).leaving = p.leaving
              /\ showForm(p).pendingSends = p.pendingSends
          BY <1>2 DEF showForm, IsPage
        <4>2. /\ onDisconnect(p).readyState = p.readyState
              /\ onDisconnect(p).onclose = p.onclose
              /\ onDisconnect(p).want = p.want /\ onDisconnect(p).leaving = p.leaving
              /\ onDisconnect(p).pendingSends = p.pendingSends
          BY <1>2 DEF onDisconnect, showForm, IsPage
        <4>3. \A w \in {p, [p EXCEPT !.form = TRUE], scheduleReconnect(p)} :
                /\ w.readyState = p.readyState /\ w.onclose = p.onclose
                /\ w.want = p.want /\ w.leaving = p.leaving
                /\ w.pendingSends = p.pendingSends
          BY <1>2 DEF scheduleReconnect, IsPage
        <4> QED
          BY <4>1, <4>2, <4>3
      <3>2. page' \in {p, [p EXCEPT !.form = TRUE], showForm(p), onDisconnect(p),
                      scheduleReconnect(p)}
        BY <2>3
      <3> QED
        BY <3>1, <3>2
    <2>5. \/ /\ page'.sessionId = NoSession /\ page'.timers = p.timers
          \/ /\ page'.sessionId = p.sessionId /\ page'.timers = p.timers + 1
             /\ page'.form = p.form
             /\ p.sessionId # NoSession \/ (role # "fresh" /\ p.connectParams)
      <3> DEFINE w == [p EXCEPT !.form = TRUE]
      <3>1. /\ w.sessionId = p.sessionId /\ w.timers = p.timers
            /\ showForm(p).sessionId = p.sessionId /\ showForm(p).timers = p.timers
            /\ onDisconnect(p).sessionId = NoSession /\ onDisconnect(p).timers = p.timers
        BY <1>2 DEF showForm, onDisconnect, IsPage
      <3>2. /\ scheduleReconnect(p).sessionId = p.sessionId
            /\ scheduleReconnect(p).timers = p.timers + 1
            /\ scheduleReconnect(p).form = p.form
        BY <1>2 DEF scheduleReconnect, IsPage
      <3>3. CASE page' \in {w, showForm(p)} /\ p.sessionId = NoSession
        BY <3>1, <3>3
      <3>4. CASE page' = onDisconnect(p)
        BY <3>1, <3>4
      <3>5. CASE page' = p /\ p.sessionId = NoSession
        BY <3>5
      <3>6. CASE /\ page' = scheduleReconnect(p)
                 /\ p.sessionId # NoSession \/ (role # "fresh" /\ p.connectParams)
        BY <3>2, <3>6
      <3> QED
        BY <2>3, <3>3, <3>4, <3>5, <3>6
    <2>6. Watched(page') /\ Asked(page') /\ \A j \in Sockets : Hooked(page', j) <=> Hooked(p, j)
      BY <1>5, <2>4, SocketsKept
    <2>7. p.timers \in Nat
      BY <1>2 DEF IsPage
    <2>8. Sane(page)'
      BY <2>5, <2>6, <2>7 DEF Sane, Pursued
    <2>9. Idle' /\ Wired'
      BY <1>1, <1>2, <2>4, WiringKept
    <2>10. ASSUME ~over PROVE Single(page') /\ NoneOpen(page')
      <3>1. IsPage(page')
        BY NextInv, GoodIsPage, <1>1 DEF Types, Next, Tab, Inv, Good
      <3>2. page'.form => page'.timers = 0 /\ page'.sessionId = NoSession
        <4>1. CASE page'.sessionId = NoSession /\ page'.timers = p.timers
          BY <1>2, <2>2, <2>10, <4>1
        <4>2. CASE /\ page'.form = p.form
                   /\ p.sessionId # NoSession \/ (role # "fresh" /\ p.connectParams)
          BY <1>2, <2>1, <2>10, <4>2 DEF Single, FormLast
        <4> QED
          BY <2>5, <4>1, <4>2
      <3>3. page'.timers <= 1 /\ ~page'.leaving
        BY <1>2, <2>2, <2>4, <2>5, <2>10
      <3>4. page'.sessionId # NoSession =>
              \A i \in DOMAIN page'.pendingSends : page'.pendingSends[i] = page'.sessionId
        BY <1>2, <2>4, <2>5, <2>10 DEF Single, Queued
      <3>5. \A j \in Sockets : ~Hooked(page', j)
        BY <2>2, <2>6, <2>10
      <3> QED
        BY <2>6, <3>1, <3>2, <3>3, <3>4, <3>5, BareIsSingle
    <2> QED
      BY <1>1, <2>8, <2>9, <2>10, NoneOpenTalk
  <1> QED
    BY <1>6, <1>7

LEMMA RestoredSound ==
  ASSUME Sound, Restored
  PROVE  Sane(page)' /\ Idle' /\ Wired' /\ (~over' => Single(page)' /\ Talk')
  <1> USE DEF Sound
  <1>0. IsPage(page)
    BY TypedSockets
  <1>1. /\ page'.ws = page.ws /\ page'.form = page.form
        /\ page'.sessionId = page.sessionId /\ page'.timers = page.timers
        /\ page'.leaving = page.leaving /\ page'.pendingSends = page.pendingSends
        /\ page'.onclose = page.onclose /\ page'.readyState = page.readyState
        /\ page'.want = page.want /\ page'.connectParams = page.connectParams
        /\ UNCHANGED <<down, handler, attached, over>>
    BY <1>0 DEF Restored, server, IsPage
  <1>2. Sane(page') /\ \A j \in Sockets : Hooked(page', j) <=> Hooked(page, j)
    BY <1>1, SocketsKept DEF Sane
  <1>3. Idle' /\ Wired'
    BY <1>1, WiringKept
  <1>4. ASSUME ~over PROVE Single(page') /\ Talk'
    <2>1. Lone(page') /\ FormLast(page') /\ Dialing(page') /\ Queued(page')
      BY <1>1, <1>2, <1>4 DEF Single, Lone, FormLast, Dialing, Queued
    <2>2. Talk'
      BY <1>1, <1>4, TalkKept
    <2> QED
      BY <2>1, <2>2 DEF Single
  <1> QED
    BY <1>1, <1>2, <1>3, <1>4

LEMMA SendOpen == ASSUME NEW u, NEW fs, Open(u, u.ws) PROVE send(u, fs) = u
  BY DEF send

(* A socket of a lone page opens.  It is the one in use, so everything is  *)
(* sent at once: connect on a new socket, which registers or is refused,   *)
(* and nothing but lines for its session on one that resumes.              *)
LEMMA OnOpenSound ==
  ASSUME Sound, NEW k \in Sockets, OnOpen(k)
  PROVE  /\ Sane(page)' /\ Idle' /\ Wired' /\ (~over' => Single(page)' /\ Talk')
         /\ ~over => UNCHANGED astray
  <1> USE DEF Sound
  <1> DEFINE s == page.want[k]
             role == page.onclose[k]
             p == [page EXCEPT !.readyState[k] = "open", !.want[k] = NoSession]
             q == [p EXCEPT !.pendingSends = <<>>]
             fs == Opening(p, k)
  <1>0. IsPage(page) /\ Filled(page)
    BY TypedSockets
  <1>1. /\ page.readyState[k] = "connecting" /\ UNCHANGED <<session, over>>
        /\ page' = onopen(p, k)
        /\ Resume(k, s, p, fs) \/ NewSession(k, s, p, fs)
    BY DEF OnOpen
  <1>2. /\ IsPage(p) /\ p.ws = page.ws /\ p.form = page.form
        /\ p.sessionId = page.sessionId /\ p.timers = page.timers
        /\ p.leaving = page.leaving /\ p.pendingSends = page.pendingSends
        /\ p.connectParams = page.connectParams /\ p.onclose = page.onclose
        /\ p.readyState = [page.readyState EXCEPT ![k] = "open"]
        /\ p.want = [page.want EXCEPT ![k] = NoSession]
    BY <1>0 DEF IsPage
  <1>3. /\ p.readyState[k] = "open"
        /\ \A j \in Sockets \ {k} : p.readyState[j] = page.readyState[j] /\ p.want[j] = page.want[j]
    BY <1>0, <1>2, WantFacts DEF Filled, IsPage
  <1>4. /\ role \in {"url", "fresh", "resume"} /\ handler[k] = "none"
        /\ s \in Maybe(Sessions) /\ (s = NoSession <=> role = "fresh")
    BY <1>0, <1>1 DEF Sane, Watched, Asked, Idle, IsPage, Filled
  <1>5. fs = CASE role = "fresh"  -> <<"connect">>
               [] role = "resume" -> page.pendingSends
               [] OTHER -> <<>>
    BY <1>2 DEF Opening
  <1> HIDE DEF p
  <1>6. /\ IsPage(q) /\ Rest(q) = Rest(p) /\ q.ws = p.ws /\ q.want = p.want
        /\ q.readyState = p.readyState /\ q.onclose = p.onclose /\ q.pendingSends = <<>>
    BY <1>2 DEF IsPage, Rest
  <1>7. page' = IF role = "url" THEN p ELSE send(q, fs)
    BY <1>1, <1>2 DEF onopen
  <1> HIDE DEF q, fs, s
  <1>8. /\ Rest(page') = Rest(p) /\ page'.ws = p.ws /\ page'.want = p.want
        /\ page'.readyState = p.readyState /\ page'.onclose = p.onclose
    <2>1. CASE role = "url"
      BY <1>7, <2>1
    <2>2. CASE role # "url"
      <3>1. LET v == send(q, fs) IN
            /\ Rest(v) = Rest(q) /\ v.ws = q.ws /\ v.want = q.want
            /\ v.readyState = q.readyState /\ v.onclose = q.onclose
        BY <1>6, SendFields
      <3> QED
        BY <1>6, <1>7, <2>2, <3>1
    <2> QED
      BY <2>1, <2>2
  <1>9. /\ page'.sessionId = page.sessionId /\ page'.form = page.form
        /\ page'.timers = page.timers /\ page'.leaving = page.leaving
        /\ page'.connectParams = page.connectParams
    BY <1>2, <1>8 DEF Rest
  <1>10. /\ page'.ws = page.ws /\ page'.onclose = page.onclose
         /\ page'.readyState[k] = "open"
         /\ \A j \in Sockets \ {k} : /\ page'.readyState[j] = page.readyState[j]
                                     /\ page'.want[j] = page.want[j]
    BY <1>2, <1>3, <1>8
  <1>11. \A j \in Sockets : Hooked(page', j) <=> Hooked(page, j)
    BY <1>1, <1>10 DEF Hooked
  <1>12. Sane(page)'
    <2>1. Watched(page') /\ Asked(page')
      BY <1>1, <1>10 DEF Sane, Watched, Asked
    <2> QED
      BY <1>9, <1>11, <2>1 DEF Sane, Pursued
  <1> DEFINE h == [handler EXCEPT ![k] = s]
             n == [handler EXCEPT ![k] = "new"]
  <1>13. /\ \A j \in Sockets \ {k} : h[j] = handler[j] /\ n[j] = handler[j]
         /\ h[k] = s /\ n[k] = "new"
    BY TypedSockets
  <1> DEFINE gone == IF s # NoSession THEN <<Notice("session_expired")>> ELSE <<>>
             d1 == [down EXCEPT ![k] =
                      (IF farewell[s] THEN <<Notice("disconnected")>> ELSE <<>>)
                      \o <<Notice("resumed")>>]
             d2 == [down EXCEPT ![k] = gone]
             d3 == [down EXCEPT ![k] = gone \o <<Notice("connect_error")>>]
  <1>14. \/ /\ Dispatch(h, d1, link', p, fs)
            /\ s \in Sessions /\ attached' = [attached EXCEPT ![s] = k]
         \/ Dispatch(n, d2, link', p, fs) /\ UNCHANGED attached /\ link'[k] = TRUE
         \/ Dispatch(handler, d3, link', p, fs) /\ UNCHANGED attached
    BY <1>1, <1>4, TypedSockets DEF Resume, NewSession, Registered, Maybe, Types, ServerOK
  <1> HIDE DEF h, n, d1, d2, d3
  <1>15. /\ Idle'
         /\ Wired'
    <2>1. \A d, l, g : Dispatch(g, d, l, p, fs) =>
             \/ handler' = g
             \/ g[p.ws] = "new" /\ handler' = [g EXCEPT ![p.ws] = "registering"]
      BY DEF Dispatch
    <2>2. p.ws \in Sockets \cup {NoSocket}
      BY <1>2 DEF IsPage
    <2>3. ASSUME NEW g \in {h, n, handler}, NEW d, NEW l, Dispatch(g, d, l, p, fs)
          PROVE  \A j \in Sockets : handler'[j] = g[j] \/ g[j] = "new"
      <3>1. \A j \in Sockets : g = [i \in Sockets |-> g[i]]
        BY TypedSockets DEF h, n
      <3> QED
        BY <2>1, <2>2, <2>3, <3>1
    <2>4. CASE Dispatch(h, d1, link', p, fs) /\ s \in Sessions
               /\ attached' = [attached EXCEPT ![s] = k]
      <3>1. \A j \in Sockets : handler'[j] = h[j] \/ h[j] = "new"
        BY <2>3, <2>4
      <3>2. Idle'
        BY <1>1, <1>10, <1>13, <3>1 DEF Idle
      <3>3. attached'[s] = k /\ \A t \in Sessions \ {s} : attached'[t] = attached[t]
        BY <2>4, TypedSockets
      <3>4. \A t \in Sessions : attached[t] # k
        BY <1>4, BrowserAssumption DEF Wired
      <3>5. \A t \in Sessions : t # "new"
        BY BrowserAssumption
      <3>6. Wired'
        BY <1>13, <2>4, <3>1, <3>3, <3>4, <3>5 DEF Wired
      <3> QED
        BY <3>2, <3>6
    <2>5. ASSUME NEW g \in {n, handler}, NEW d, Dispatch(g, d, link', p, fs), UNCHANGED attached
          PROVE  Idle' /\ Wired'
      <3>1. \A j \in Sockets : handler'[j] = g[j] \/ g[j] = "new"
        BY <2>3, <2>5
      <3>2. \A j \in Sockets \ {k} : g[j] = handler[j]
        BY <1>13
      <3>3. Idle'
        BY <1>1, <1>10, <3>1, <3>2 DEF Idle
      <3>4. \A t \in Sessions : attached[t] # k /\ t # "new"
        BY <1>4, BrowserAssumption DEF Wired
      <3>5. Wired'
        BY <2>5, <3>1, <3>2, <3>4 DEF Wired
      <3> QED
        BY <3>3, <3>5
    <2> QED
      BY <1>14, <2>4, <2>5
  <1>16. ASSUME ~over PROVE Single(page') /\ Talk' /\ UNCHANGED astray
    <2>1. Hooked(page, k)
      BY <1>1, <1>4 DEF Hooked
    <2>2. /\ k = page.ws /\ page.timers = 0 /\ ~page.leaving
          /\ \A j \in Sockets \ {k} : ~Hooked(page, j)
      BY <1>16, <2>1 DEF Single, Lone
    <2>3. /\ role = "fresh" => page.sessionId = NoSession /\ ~page.form
          /\ role = "resume" => s = page.sessionId
      BY <1>1, <1>16 DEF Single, Dialing, s
    <2>4. Open(p, k) /\ Open(q, q.ws) /\ p.ws = k
      BY <1>2, <1>3, <1>6, <2>2, BrowserAssumption DEF Open
    <2>5. page' = IF role = "url" THEN p ELSE q
      BY <1>7, <2>4, SendOpen
    <2>6. \A j \in Sockets \ {k} : page'.readyState[j] \notin {"connecting", "open"}
      BY <1>10, <2>2 DEF Sane, Watched, Hooked
    <2>7. Single(page')
      <3>1. Lone(page')
        BY <1>9, <1>10, <1>11, <2>2 DEF Lone
      <3>2. FormLast(page')
        BY <1>9, <1>10, <1>11, <1>16 DEF Single, FormLast
      <3>3. Dialing(page')
        BY <1>10, <2>6 DEF Dialing
      <3>4. Queued(page')
        BY <1>2, <1>6, <1>9, <1>10, <1>16, <2>5, <2>6 DEF Single, Queued
      <3> QED
        BY <3>1, <3>2, <3>3, <3>4 DEF Single
    <2>8. ASSUME role # "fresh"
          PROVE  \A i \in DOMAIN fs : fs[i] = s /\ fs[i] # "connect"
      <3>1. s \in Sessions
        BY <1>4, <2>8 DEF Maybe
      <3>2. CASE role = "url"
        BY <1>5, <3>2
      <3>3. CASE role = "resume"
        <4>1. fs = page.pendingSends /\ s = page.sessionId
          BY <1>5, <2>3, <3>3
        <4> QED
          BY <1>16, <3>1, <4>1, BrowserAssumption DEF Single, Queued
      <3> QED
        BY <1>4, <2>8, <3>2, <3>3
    <2>9. ASSUME role # "fresh" PROVE Returned(k)' /\ UNCHANGED astray
      <3>1. s \in Sessions /\ s # "registering"
        BY <1>4, <2>9, BrowserAssumption DEF Maybe
      <3>2. ASSUME NEW g, NEW d, NEW l, Dispatch(g, d, l, p, fs), g[k] \notin Sessions \ {s}
            PROVE  handler' = g /\ down' = d /\ UNCHANGED astray
        <4>1. handler' = g /\ down' = d
          BY <2>4, <2>8, <2>9, <3>2 DEF Dispatch
        <4>2. astray' = (astray \/ FALSE)
          BY <2>4, <2>8, <2>9, <3>2 DEF Dispatch
        <4> QED
          BY <4>1, <4>2 DEF Types, ServerOK
      <3>3. CASE Dispatch(h, d1, link', p, fs)
        <4>1. handler' = h /\ down' = d1 /\ UNCHANGED astray
          BY <1>13, <3>2, <3>3
        <4>2. Says(k, {"resumed", "disconnected"})'
          <5> DEFINE a == Notice("disconnected")
                     b == Notice("resumed")
          <5>1. a.type = "disconnected" /\ b.type = "resumed"
            BY DEF Notice
          <5>2. d1[k] = (IF farewell[s] THEN <<a>> ELSE <<>>) \o <<b>>
            BY TypedSockets DEF d1
          <5> HIDE DEF a, b
          <5> DEFINE S == {a, b}
                     t == IF farewell[s] THEN <<a>> ELSE <<>>
          <5>3. t \in Seq(S) /\ <<b>> \in Seq(S) /\ d1[k] = t \o <<b>>
            BY <5>2
          <5> HIDE DEF t
          <5>4. d1[k] \in Seq(S)
            BY <5>3
          <5> QED
            BY <4>1, <5>1, <5>4 DEF Says
        <4> QED
          BY <1>13, <3>1, <4>1, <4>2 DEF Returned
      <3>4. gone = <<Notice("session_expired")>>
        BY <3>1, BrowserAssumption
      <3>5. CASE Dispatch(n, d2, link', p, fs)
        <4>1. handler' = n /\ down' = d2 /\ UNCHANGED astray
          BY <1>13, <3>2, <3>5, BrowserAssumption
        <4>2. d2[k] # <<>> /\ d2[k][1].type = "session_expired"
          BY <3>4, TypedSockets DEF d2, Notice
        <4> QED
          BY <1>13, <4>1, <4>2 DEF Returned
      <3>6. CASE Dispatch(handler, d3, link', p, fs)
        <4>1. handler' = handler /\ down' = d3 /\ UNCHANGED astray
          BY <1>4, <3>2, <3>6, BrowserAssumption
        <4>2. d3[k] # <<>> /\ d3[k][1].type = "session_expired"
          BY <3>4, TypedSockets DEF d3, Notice
        <4> QED
          BY <1>4, <4>1, <4>2 DEF Returned
      <3> QED
        BY <1>14, <3>3, <3>5, <3>6
    <2>10. ASSUME role = "fresh" PROVE Fresh(k)' /\ UNCHANGED astray
      <3>1. s = NoSession /\ fs = <<"connect">> /\ gone = <<>>
        BY <1>4, <1>5, <2>10
      <3>2. s \notin Sessions
        BY <3>1, BrowserAssumption
      <3>3. page'.sessionId = NoSession /\ ~page'.form
        BY <1>9, <2>3, <2>10
      <3>4. fs[1] = "connect" /\ 1 \in DOMAIN fs
        BY <3>1
      <3> DEFINE m == Notice("connect_error")
      <3>5. m.type = "connect_error"
        BY DEF Notice
      <3>6. d2[k] = <<>> /\ d3[k] = <<m>>
        BY <3>1, TypedSockets DEF d2, d3
      <3> HIDE DEF m
      <3>7. ASSUME NEW g \in {n, handler}, NEW d, Dispatch(g, d, link', p, fs)
            PROVE  UNCHANGED astray
        <4>1. g[k] \notin Sessions
          BY <1>4, <1>13, BrowserAssumption
        <4>2. astray' = (astray \/ FALSE)
          BY <2>4, <3>7, <4>1 DEF Dispatch
        <4> QED
          BY <4>2 DEF Types, ServerOK
      <3>8. CASE Dispatch(n, d2, link', p, fs) /\ link'[k] = TRUE
        <4>1. \/ handler' = [n EXCEPT ![k] = "registering"] /\ down' = d2
              \/ handler' = n /\ down' = [d2 EXCEPT ![k] = Append(@, m)]
          BY <2>4, <3>4, <3>8 DEF Dispatch, m
        <4>2. n \in [Sockets -> Handlers] /\ DOMAIN d2 = Sockets
          BY TypedSockets DEF n, d2, Handlers
        <4>3. CASE handler' = [n EXCEPT ![k] = "registering"] /\ down' = d2
          <5>1. Registers(k)'
            BY <3>3, <3>6, <4>2, <4>3 DEF Registers
          <5> QED
            BY <3>7, <3>8, <5>1 DEF Fresh
        <4>4. CASE handler' = n /\ down' = [d2 EXCEPT ![k] = Append(@, m)]
          <5>1. down'[k] = <<m>>
            BY <3>6, <4>2, <4>4
          <5>2. Refused(k)'
            BY <1>13, <3>3, <3>5, <4>4, <5>1 DEF Refused, Says
          <5> QED
            BY <3>7, <3>8, <5>2 DEF Fresh
        <4> QED
          BY <4>1, <4>3, <4>4
      <3>9. CASE Dispatch(handler, d3, link', p, fs)
        <4>1. handler' = handler /\ (down' = d3 \/ down' = [d3 EXCEPT ![k] = Append(@, m)])
          BY <1>4, <2>4, <3>9 DEF Dispatch, m
        <4>2. DOMAIN d3 = Sockets
          BY TypedSockets DEF d3
        <4>3. down'[k] = <<m>> \/ down'[k] = <<m, m>>
          BY <3>6, <4>1, <4>2
        <4>4. Refused(k)'
          BY <1>4, <3>3, <3>5, <4>1, <4>3 DEF Refused, Says
        <4> QED
          BY <3>7, <3>9, <4>4 DEF Fresh
      <3> QED
        BY <1>14, <3>2, <3>8, <3>9
    <2>11. Talk'
      BY <1>10, <2>6, <2>9, <2>10 DEF Talk, Talks
    <2> QED
      BY <2>7, <2>9, <2>10, <2>11
  <1> QED
    BY <1>1, <1>12, <1>15, <1>16

(* The tab hears the frame at the head of what k has to say. *)
LEMMA HeardTalk ==
  ASSUME Types, NEW k \in Sockets, down[k] # <<>>, down' = [down EXCEPT ![k] = Tail(@)]
  PROVE  /\ Head(down[k]) = down[k][1] /\ Head(down[k]) \in Heard /\ 1 \in DOMAIN down[k]
         /\ DOMAIN down'[k] = 1..(Len(down[k]) - 1) /\ DOMAIN down[k] = 1..Len(down[k])
         /\ Len(down[k]) \in Nat
         /\ \A i \in DOMAIN down'[k] : i + 1 \in DOMAIN down[k] /\ down'[k][i] = down[k][i + 1]
         /\ \A j \in Sockets \ {k} : down'[j] = down[j]
  <1> DEFINE d == down[k]
             e == down'[k]
  <1>1. d \in Seq(Heard) /\ d # <<>> /\ e = Tail(d)
    BY TypedSockets
  <1>2. \A j \in Sockets \ {k} : down'[j] = down[j]
    BY TypedSockets
  <1> HIDE DEF d, e
  <1>3. /\ Head(d) = d[1] /\ Head(d) \in Heard /\ 1 \in DOMAIN d
        /\ DOMAIN e = 1..(Len(d) - 1) /\ DOMAIN d = 1..Len(d) /\ Len(d) \in Nat
        /\ \A i \in DOMAIN e : i + 1 \in DOMAIN d /\ e[i] = d[i + 1]
    BY <1>1
  <1> QED
    BY <1>2, <1>3 DEF d, e

LEMMA OnMessageSound ==
  ASSUME Sound, NEW k \in Sockets, NEW j \in Sockets, OnMessage(k, j)
  PROVE  Sane(page)' /\ Idle' /\ Wired' /\ (~over' => Single(page)' /\ Talk')
  <1> USE DEF Sound
  <1> DEFINE f == Head(down[k])
  <1>0. IsPage(page) /\ Filled(page)
    BY TypedSockets
  <1>1. /\ Open(page, k) /\ down[k] # <<>> /\ down' = [down EXCEPT ![k] = Tail(@)]
        /\ handler[j] = "none" /\ page.ws # j /\ UNCHANGED <<handler, attached>>
        /\ page.readyState[k] = "open"
    BY DEF OnMessage, Free, server, Open
  <1>2. /\ f = down[k][1] /\ f \in Heard /\ 1 \in DOMAIN down[k]
        /\ DOMAIN down'[k] = 1..(Len(down[k]) - 1) /\ DOMAIN down[k] = 1..Len(down[k])
        /\ Len(down[k]) \in Nat
        /\ \A i \in DOMAIN down'[k] : i + 1 \in DOMAIN down[k] /\ down'[k][i] = down[k][i + 1]
        /\ \A i \in Sockets \ {k} : down'[i] = down[i]
    BY <1>1, HeardTalk
  <1>3. /\ page' = CASE f.type = "connected" -> connected(page, f.id)
                     [] f.type = "resumed" -> resumed(page)
                     [] f.type = "connect_error" -> showForm(page)
                     [] f.type = "session_expired" -> sessionExpired(page, j)
                     [] f.type = "error" -> error(page)
                     [] f.type = "disconnected" -> disconnected(page)
        /\ ~over' => ~over /\ (f.type = "disconnected" => page' = page)
    BY DEF OnMessage
  <1>4. /\ f.type \in {"connected", "resumed", "session_expired", "connect_error",
                       "error", "disconnected"}
        /\ f.type = "connected" => f.id # NoSession
    BY <1>2 DEF Heard, News
  <1> HIDE DEF f
  <1>5. Hooked(page, k)
    BY <1>1 DEF Sane, Watched, Hooked
  <1>6. ~over => /\ k = page.ws /\ page.timers = 0 /\ ~page.leaving
                 /\ \A i \in Sockets \ {k} : ~Hooked(page, i)
                 /\ \A i \in Sockets \ {k} : page.readyState[i] \notin {"connecting", "open"}
    BY <1>5 DEF Single, Lone, Sane, Watched, Hooked
  <1>7. ~over => Talks(k)
    BY <1>1 DEF Talk
  <1> DEFINE Same(v) == /\ v.ws = page.ws /\ v.readyState = page.readyState
                        /\ v.onclose = page.onclose /\ v.want = page.want
                        /\ v.timers = page.timers /\ v.leaving = page.leaving
                        /\ v.connectParams = page.connectParams
                        /\ v.pendingSends = page.pendingSends
             Goal == Sane(page)' /\ Idle' /\ Wired' /\ (~over' => Single(page)' /\ Talk')
  <1>8. ASSUME Same(page'), page'.sessionId \in {page.sessionId, NoSession} \/ page'.timers > 0
                            \/ Hooked(page', k)
        PROVE  /\ Sane(page)' /\ Idle' /\ Wired'
               /\ \A i \in Sockets : Hooked(page', i) <=> Hooked(page, i)
    <2>1. /\ Watched(page') /\ Asked(page')
          /\ \A i \in Sockets : Hooked(page', i) <=> Hooked(page, i)
      BY <1>8, SocketsKept DEF Sane
    <2>2. Idle' /\ Wired'
      BY <1>1, <1>8, WiringKept
    <2>3. Pursued(page')
      BY <1>5, <2>1 DEF Pursued
    <2> QED
      BY <2>1, <2>2, <2>3 DEF Sane
  <1>9. ASSUME Same(page'), ~over, Talks(k)' PROVE Talk'
    BY <1>6, <1>9 DEF Talk
  <1>10. CASE f.type = "connected"
    <2>1. page' = connected(page, f.id) /\ (~over' => ~over) /\ f.id # NoSession
      BY <1>3, <1>4, <1>10
    <2>2. Same(page') /\ page'.sessionId = f.id /\ page'.form = page.form
      BY <1>0, <2>1 DEF connected, IsPage
    <2>3. Hooked(page', k)
      BY <1>5, <2>2 DEF Hooked
    <2>4. /\ Sane(page)' /\ Idle' /\ Wired'
          /\ \A i \in Sockets : Hooked(page', i) <=> Hooked(page, i)
      BY <1>8, <2>2, <2>3
    <2>5. ASSUME ~over PROVE Single(page)' /\ Talk'
      <3>1. page.onclose[k] = "fresh" /\ Welcomed(k)
        BY <1>2, <1>7, <1>10, <2>5
           DEF Talks, Fresh, Returned, Registers, Welcomed, Refused, Going, Says
      <3>2. page.pendingSends = <<>>
        BY <1>1, <2>5, <3>1 DEF Single, Queued, Welcomed
      <3>3. ~page'.form /\ page'.pendingSends = <<>>
        BY <2>2, <3>1, <3>2 DEF Welcomed
      <3>4. Lone(page') /\ FormLast(page')
        BY <2>2, <2>4, <2>5, <3>3 DEF Single, Lone, FormLast
      <3>5. Dialing(page') /\ Queued(page')
        BY <1>1, <1>6, <2>2, <2>5, <3>3 DEF Dialing, Queued
      <3>6. \A i \in DOMAIN down'[k] : down'[k][i].type = "disconnected"
        <4> SUFFICES ASSUME NEW i \in DOMAIN down'[k] PROVE down'[k][i].type = "disconnected"
          OBVIOUS
        <4>1. i + 1 \in DOMAIN down[k] /\ i + 1 # 1 /\ down'[k][i] = down[k][i + 1]
          BY <1>2
        <4> QED
          BY <3>1, <4>1 DEF Welcomed
      <3>7. Going(k)'
        BY <1>1, <2>1, <2>2, <3>1, <3>3, <3>6 DEF Going, Welcomed, Says
      <3>8. Talk'
        BY <1>9, <2>2, <2>5, <3>1, <3>7 DEF Talks, Fresh
      <3> QED
        BY <3>4, <3>5, <3>8 DEF Single
    <2> QED
      BY <2>1, <2>4, <2>5
  <1>11. CASE f.type = "resumed"
    <2>1. page' = resumed(page) /\ (~over' => ~over)
      BY <1>3, <1>11
    <2>2. Same(page') /\ page'.sessionId = page.sessionId /\ page'.form = page.form
      BY <1>0, <2>1 DEF resumed, IsPage
    <2>4. /\ Sane(page)' /\ Idle' /\ Wired'
          /\ \A i \in Sockets : Hooked(page', i) <=> Hooked(page, i)
      BY <1>8, <2>2
    <2>5. ASSUME ~over PROVE Single(page)' /\ Talk'
      <3>1. page.onclose[k] # "fresh" /\ Returned(k) /\ Says(k, {"resumed", "disconnected"})
        BY <1>2, <1>7, <1>11, <2>5
           DEF Talks, Fresh, Returned, Registers, Welcomed, Refused, Going, Says
      <3>2. Lone(page') /\ FormLast(page') /\ Dialing(page') /\ Queued(page')
        BY <2>2, <2>4, <2>5 DEF Single, Lone, FormLast, Dialing, Queued
      <3>3. Returned(k)'
        BY <1>1, <1>2, <3>1 DEF Returned, Says
      <3>4. Talk'
        BY <1>9, <2>2, <2>5, <3>1, <3>3 DEF Talks
      <3> QED
        BY <3>2, <3>4 DEF Single
    <2> QED
      BY <2>1, <2>4, <2>5
  <1>12. CASE f.type \in {"connect_error", "error"}
    <2>1. page' \in {page, showForm(page)} /\ (~over' => ~over)
      BY <1>3, <1>12 DEF error, onConnectFailed
    <2>2. /\ Same(page') /\ page'.sessionId = page.sessionId
      BY ZenonT(40), <1>0, <2>1 DEF showForm, IsPage
    <2>3. /\ Sane(page)' /\ Idle' /\ Wired'
          /\ \A i \in Sockets : Hooked(page', i) <=> Hooked(page, i)
      BY <1>8, <2>2
    <2>4. ASSUME ~over PROVE Single(page)' /\ Talk'
      <3>1. \/ page.onclose[k] = "fresh" /\ Refused(k)
            \/ page.onclose[k] # "fresh" /\ down[k][1].type = "session_expired"
        BY <1>2, <1>7, <1>12, <2>4
           DEF Talks, Fresh, Returned, Registers, Welcomed, Refused, Going, Says
      <3>2. page.onclose[k] = "fresh" /\ Refused(k)
        BY <1>2, <1>12, <3>1
      <3>3. Lone(page') /\ FormLast(page')
        BY <1>6, <2>2, <2>3, <2>4, <3>2 DEF Single, Lone, FormLast, Refused
      <3>4. Dialing(page') /\ Queued(page')
        BY <1>1, <1>6, <2>2, <2>4 DEF Single, Dialing, Queued
      <3>5. Refused(k)'
        BY <1>1, <1>2, <2>2, <3>2 DEF Refused, Says
      <3>6. Talk'
        BY <1>9, <2>2, <2>4, <3>2, <3>5 DEF Talks, Fresh
      <3> QED
        BY <3>3, <3>4, <3>6 DEF Single
    <2> QED
      BY <2>1, <2>3, <2>4
  <1>13. CASE f.type = "disconnected"
    <2>1. /\ page' \in {page, onDisconnect(page)}
          /\ ~over' => ~over /\ page' = page
      BY <1>3, <1>13 DEF disconnected
    <2>2. /\ Same(page') /\ page'.sessionId \in {page.sessionId, NoSession}
      BY ZenonT(40), <1>0, <2>1 DEF showForm, onDisconnect, IsPage
    <2>3. Sane(page)' /\ Idle' /\ Wired'
      BY <1>8, <2>2
    <2>4. ASSUME ~over' PROVE Single(page)' /\ Talk'
      <3>1. page' = page /\ ~over
        BY <2>1, <2>4
      <3>2. \A T : Says(k, T) => Says(k, T)'
        BY <1>2 DEF Says
      <3>3. Fresh(k) => Refused(k) \/ Going(k)
        BY <1>2, <1>13 DEF Fresh, Registers, Welcomed
      <3>4. /\ Refused(k) => Refused(k)'
            /\ Going(k) => Going(k)'
        BY <1>1, <3>1, <3>2 DEF Refused, Going
      <3>5. Returned(k) => Returned(k)'
        BY <1>1, <1>2, <1>13, <3>1, <3>2 DEF Returned
      <3>6. Talks(k)'
        BY <1>7, <3>1, <3>3, <3>4, <3>5 DEF Talks, Fresh
      <3>7. Talk'
        BY <1>9, <2>2, <3>1, <3>6
      <3> QED
        BY <3>1, <3>7
    <2> QED
      BY <2>3, <2>4
  <1>14. CASE f.type = "session_expired"
    <2> DEFINE q == [page EXCEPT !.sessionId = NoSession, !.connected = FALSE,
                                 !.restore = FALSE, !.url = NoSession]
    <2>1. /\ page' = (IF q.connectParams THEN openWS(q, j) ELSE showForm(Close(q, q.ws)))
          /\ ~over' => ~over
      BY <1>3, <1>14 DEF sessionExpired
    <2>2. /\ IsPage(q) /\ Filled(q) /\ Same(q) /\ q.sessionId = NoSession /\ q.form = page.form
      BY <1>0 DEF IsPage, Filled, Maybe
    <2> HIDE DEF q
    <2>3. Watched(q) /\ Asked(q) /\ \A i \in Sockets : Hooked(q, i) <=> Hooked(page, i)
      BY <2>2, SocketsKept DEF Sane
    <2>4. CASE q.connectParams
      <3> DEFINE v == openWS(q, j)
      <3>1. /\ Sane(v)
            /\ \A i \in Sockets \ {j} : v.readyState[i] = "connecting"
                                          => q.readyState[i] = "connecting"
            /\ /\ \A i \in Sockets : Hooked(q, i) => i = q.ws
               /\ q.timers = 0 /\ ~q.leaving /\ ~q.form /\ q.sessionId = NoSession
               => Single(v) /\ NoneOpen(v)
        BY <1>1, <2>2, <2>3, OpenWSIsSane
      <3>2. page' = v
        BY <2>1, <2>4
      <3> HIDE DEF v
      <3>3. Idle' /\ Wired'
        BY <1>1, <2>2, <3>1, <3>2, WiringKept
      <3>4. ASSUME ~over PROVE Single(v) /\ NoneOpen(v)
        <4>1. page.onclose[k] # "fresh"
          BY <1>2, <1>7, <1>14, <3>4
             DEF Talks, Fresh, Registers, Welcomed, Refused, Going, Says
        <4>2. ~page.form
          BY <1>5, <2>2, <2>4, <3>4, <4>1 DEF Single, FormLast
        <4> QED
          BY <1>6, <2>2, <2>3, <3>1, <3>4, <4>2
      <3> QED
        BY <2>1, <3>1, <3>2, <3>3, <3>4, NoneOpenTalk
    <2>5. CASE ~q.connectParams
      <3> DEFINE c == Close(q, q.ws)
                 v == showForm(c)
      <3>1. /\ IsPage(c) /\ Rest(c) = Rest(q) /\ c.pendingSends = q.pendingSends
            /\ c.ws = q.ws /\ c.want = q.want /\ c.onclose = q.onclose
            /\ \A i \in Sockets :
                 c.readyState[i] = IF i = q.ws /\ q.readyState[i] \in {"connecting", "open"}
                                   THEN "closing" ELSE q.readyState[i]
        BY <2>2, CloseFields
      <3> HIDE DEF c
      <3>2. /\ v.ws = c.ws /\ v.readyState = c.readyState /\ v.onclose = c.onclose
            /\ v.want = c.want /\ v.sessionId = c.sessionId /\ v.timers = c.timers
            /\ v.leaving = c.leaving /\ v.connectParams = c.connectParams
        BY <3>1 DEF showForm, IsPage
      <3>3. page' = v
        BY <2>1, <2>5 DEF c
      <3> HIDE DEF v
      <3>4. /\ v.sessionId = NoSession /\ v.timers = page.timers /\ v.leaving = page.leaving
            /\ ~v.connectParams
        BY <2>2, <2>5, <3>1, <3>2 DEF Rest
      <3>5. /\ v.ws = page.ws /\ v.want = page.want /\ v.onclose = page.onclose
            /\ \A i \in Sockets :
                 v.readyState[i] = IF i = page.ws /\ page.readyState[i] \in {"connecting", "open"}
                                   THEN "closing" ELSE page.readyState[i]
        BY <2>2, <3>1, <3>2
      <3>6. Sane(v)
        BY <3>4, <3>5 DEF Sane, Watched, Asked, Pursued
      <3>7. Idle' /\ Wired'
        BY <1>1, <3>3, <3>5, WiringKept
      <3>8. ASSUME ~over PROVE Single(v) /\ NoneOpen(v)
        <4>1. NoneOpen(v) /\ \A i \in Sockets : v.readyState[i] # "connecting"
          BY <1>6, <3>5, <3>8 DEF NoneOpen
        <4>2. Lone(v)
          BY <1>5, <1>6, <3>4, <3>5, <3>8 DEF Lone, Hooked
        <4>3. FormLast(v) /\ Dialing(v) /\ Queued(v)
          BY <1>6, <3>4, <3>8, <4>1 DEF FormLast, Dialing, Queued, NoneOpen
        <4> QED
          BY <4>1, <4>2, <4>3 DEF Single
      <3> QED
        BY <2>1, <3>3, <3>6, <3>7, <3>8, NoneOpenTalk
    <2> QED
      BY <2>4, <2>5
  <1> QED
    BY <1>4, <1>10, <1>11, <1>12, <1>13, <1>14

LEMMA InitSound == Init => Sound
  <1> SUFFICES ASSUME Init PROVE Sound
    OBVIOUS
  <1> DEFINE b == Blank(NoSession)
  <1>1. page = b /\ Types /\ IsPage(b) /\ ~over
    BY InitTypes, BlankIsPage DEF Init
  <1>2. /\ \A k \in Sockets : b.readyState[k] = "closed"
        /\ b.sessionId = NoSession /\ b.timers = 0 /\ ~b.leaving
    BY DEF Blank
  <1>3. Idle /\ Wired
    BY <1>1, <1>2, BrowserAssumption DEF Init, Idle, Wired
  <1> HIDE DEF b
  <1>4. Watched(b) /\ Asked(b) /\ \A k \in Sockets : ~Hooked(b, k)
    BY <1>2 DEF Watched, Asked, Hooked
  <1>5. Single(b) /\ NoneOpen(b) /\ Sane(b)
    BY <1>1, <1>2, <1>4, BareIsSingle DEF Sane, Pursued
  <1> QED
    BY <1>1, <1>3, <1>5 DEF Sound, NoneOpen, Talk

LEMMA NextSound == Sound /\ [Next]_vars => Sound'
  <1> SUFFICES ASSUME Sound, [Next]_vars PROVE Sound'
    OBVIOUS
  <1>1. Types'
    BY NextTypes DEF Sound
  <1>2. SUFFICES Sane(page)' /\ Idle' /\ Wired' /\ (~over' => Single(page)' /\ Talk')
    BY <1>1 DEF Sound
  <1>3. CASE User
    BY <1>3, TypeSound, LeavingSound, ReloadSound, SubmitSound DEF User
  <1>4. CASE Tab
    BY <1>4, LeavingSound, RestoredSound, OnOpenSound, OnCloseSound, ReconnectTimerSound,
       OnMessageSound DEF Tab
  <1>5. CASE Server
    BY <1>5, ServerStepsSound
  <1>6. CASE UNCHANGED vars
    BY <1>6, TalkKept DEF vars, server, Sound, Idle, Wired
  <1> QED
    BY <1>3, <1>4, <1>5, <1>6 DEF Next

(* As long as no session has ended with a timer or a socket left behind, a *)
(* tab has one socket or one reconnect timer, whatever the order of losses,*)
(* expiries, answers and clicks (app.js:886-915, 2517-2575).               *)
THEOREM OneChainOfReconnects == Spec => []OneSocket
  <1>1. Sound => OneSocket
    BY PursuitsFacts, TypedSockets DEF Sound, Single, OneSocket
  <1> QED
    BY InitSound, NextSound, <1>1, PTL DEF Spec

(* In the same circumstances, what was typed while one session was out of  *)
(* reach never reaches another (app.js: send, openWS, reconnect).          *)
THEOREM TypedForItsSession == Spec => ForItsSession
  <1>1. Sound /\ [Next]_vars => [~over => UNCHANGED astray]_vars
    <2> SUFFICES ASSUME Sound, Next, ~over PROVE UNCHANGED astray
      BY DEF vars
    <2>1. ASSUME NEW k \in Sockets, OnOpen(k) PROVE UNCHANGED astray
      BY <2>1, OnOpenSound
    <2>2. CASE User
      BY <2>2 DEF User, Type, Disconnect, RestoreCancel, Reload, Submit
    <2>3. CASE Tab
      BY <2>1, <2>3 DEF Tab, DisconnectTimer, Restored, OnClose, ReconnectTimer, OnMessage
    <2>4. CASE Server
      BY <2>4 DEF Server, Rejected, LinkDrops, HandlerEnds, IrcEnds, Expire, Welcome
    <2> QED
      BY <2>2, <2>3, <2>4 DEF Next
  <1> QED
    BY InitSound, NextSound, <1>1, PTL DEF Spec, ForItsSession
=============================================================================
