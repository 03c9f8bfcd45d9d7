------------------------------ MODULE Registry ------------------------------
(***************************************************************************)
(* The registry of sessions and the handlers that create, resume, leave    *)
(* and expire sessions in it (session.go: New, Resume, Detach, Count,      *)
(* Remove; handler.go: wsHandler).  SessionSocket looks into one session;  *)
(* here there are many, and what happens to the frames is left out.        *)
(*                                                                         *)
(* A session is named after the connection whose handler created it, which *)
(* stands for the random session ID.  Names that every module has begin    *)
(* with Reg here: LifecycleProofs extends IrcLifecycle as well.            *)
(***************************************************************************)
EXTENDS Naturals, FiniteSets

CONSTANTS
    Conns,          \* WebSocket connections, each with its handler
    NoConn,         \* nil; also: no session
    MaxSessions     \* -max-sessions; 0 is no limit

ASSUME RegistryAssumption ==
    /\ NoConn \notin Conns
    /\ MaxSessions \in Nat

VARIABLES
    sessions,   \* the sessions in the registry
    closed,     \* the sessions whose done channel is closed
    ws,         \* session -> the connection attached to it
    serves,     \* connection -> the session its handler works for, or asks for
    at,         \* connection -> where its handler is
    timer       \* connection -> the expiry timer its Detach has started

regVars == <<sessions, closed, ws, serves, at, timer>>

RegInit ==
    /\ sessions = {} /\ closed = {}
    /\ ws = [c \in Conns |-> NoConn]
    /\ serves = [c \in Conns |-> NoConn]
    /\ at = [c \in Conns |-> "unopened"]
    /\ timer = [c \in Conns |-> "off"]

-----------------------------------------------------------------------------
(* wsHandler starts; the URL may name any session, known or not. *)
wsHandler(c) ==
    /\ at[c] = "unopened"
    /\ \/ /\ at' = [at EXCEPT ![c] = "count"]
          /\ UNCHANGED serves
       \/ \E s \in Conns \ {c} :
            /\ at' = [at EXCEPT ![c] = "lookup"]
            /\ serves' = [serves EXCEPT ![c] = s]
    /\ UNCHANGED <<sessions, closed, ws, timer>>

(* Mutant: the handler reads for a session that was not found. *)
LookupUnchecked(c) ==
    /\ at[c] = "lookup"
    /\ \/ /\ serves[c] \in sessions
          /\ at' = [at EXCEPT ![c] = "attach"]
          /\ UNCHANGED serves
       \/ /\ serves[c] \notin sessions
          /\ at' = [at EXCEPT ![c] = "reading"]
          /\ serves' = [serves EXCEPT ![c] = NoConn]
    /\ UNCHANGED <<sessions, closed, ws, timer>>

(* Resume finds the session in the registry, or the handler goes on to     *)
(* create one.                                                             *)
Lookup(c) ==
    /\ at[c] = "lookup"
    /\ \/ /\ serves[c] \in sessions
          /\ at' = [at EXCEPT ![c] = "attach"]
          /\ UNCHANGED serves
       \/ /\ serves[c] \notin sessions
          /\ at' = [at EXCEPT ![c] = "count"]
          /\ serves' = [serves EXCEPT ![c] = NoConn]
    /\ UNCHANGED <<sessions, closed, ws, timer>>

(* Resume attaches, in a section of its own. *)
Attach(c) ==
    /\ at[c] = "attach"
    /\ ws' = [ws EXCEPT ![serves[c]] = c]
    /\ at' = [at EXCEPT ![c] = "reading"]
    /\ UNCHANGED <<sessions, closed, serves, timer>>

(* The limit is checked against Count, and the session created later. *)
CheckLimit(c) ==
    /\ at[c] = "count"
    /\ at' = [at EXCEPT ![c] =
                IF MaxSessions > 0 /\ Cardinality(sessions) >= MaxSessions
                THEN "refused" ELSE "new"]
    /\ UNCHANGED <<sessions, closed, ws, serves, timer>>

New(c) ==
    /\ at[c] = "new"
    /\ sessions' = sessions \cup {c}
    /\ ws' = [ws EXCEPT ![c] = c]
    /\ serves' = [serves EXCEPT ![c] = c]
    /\ at' = [at EXCEPT ![c] = "reading"]
    /\ UNCHANGED <<closed, timer>>

(* Quit, or pingLoop, closes the session, which stays in the registry. *)
CloseByUse(c) ==
    /\ at[c] = "reading"
    /\ closed' = closed \cup {serves[c]}
    /\ UNCHANGED <<sessions, ws, serves, at, timer>>

(* Mutant: no timer is started when another connection is attached. *)
DetachIfAttached(c) ==
    /\ at[c] = "reading"
    /\ at' = [at EXCEPT ![c] = "gone"]
    /\ ws' = [ws EXCEPT ![serves[c]] = NoConn]
    /\ timer' = [timer EXCEPT ![c] = IF ws[serves[c]] = c THEN "armed" ELSE "off"]
    /\ UNCHANGED <<sessions, closed, serves>>

Detach(c) ==
    /\ at[c] = "reading"
    /\ at' = [at EXCEPT ![c] = "gone"]
    /\ ws' = [ws EXCEPT ![serves[c]] = NoConn]
    /\ timer' = [timer EXCEPT ![c] = "armed"]
    /\ UNCHANGED <<sessions, closed, serves>>

(* Mutant: an expired session is removed without being closed. *)
FiresWithoutClose(c) ==
    /\ timer[c] = "armed"
    /\ timer' = [timer EXCEPT ![c] =
                   IF ws[serves[c]] = NoConn THEN "remove" ELSE "done"]
    /\ UNCHANGED <<sessions, closed, ws, serves, at>>

(* The window has passed. *)
Fires(c) ==
    /\ timer[c] = "armed"
    /\ timer' = [timer EXCEPT ![c] =
                   IF ws[serves[c]] = NoConn THEN "close" ELSE "done"]
    /\ UNCHANGED <<sessions, closed, ws, serves, at>>

ExpireClose(c) ==
    /\ timer[c] = "close"
    /\ closed' = closed \cup {serves[c]}
    /\ timer' = [timer EXCEPT ![c] = "remove"]
    /\ UNCHANGED <<sessions, ws, serves, at>>

(* Mutant: Remove is forgotten. *)
KeepRegistered(c) ==
    /\ timer[c] = "remove"
    /\ timer' = [timer EXCEPT ![c] = "done"]
    /\ UNCHANGED <<sessions, closed, ws, serves, at>>

Remove(c) ==
    /\ timer[c] = "remove"
    /\ sessions' = sessions \ {serves[c]}
    /\ timer' = [timer EXCEPT ![c] = "done"]
    /\ UNCHANGED <<closed, ws, serves, at>>

-----------------------------------------------------------------------------
Resume(c) == Lookup(c) \/ Attach(c)
Expiry(c) == Fires(c) \/ ExpireClose(c) \/ Remove(c)

RegNext ==
    \E c \in Conns :
        \/ wsHandler(c) \/ Resume(c) \/ CheckLimit(c) \/ New(c)
        \/ CloseByUse(c) \/ Detach(c)
        \/ Expiry(c)

RegSpec == RegInit /\ [][RegNext]_regVars

(* Handlers run and timers fire; browsers come and go as they like. *)
RegFairness ==
    \A c \in Conns :
        WF_regVars(Resume(c)) /\ WF_regVars(CheckLimit(c)) /\ WF_regVars(New(c))
          /\ WF_regVars(Expiry(c))

RegFairSpec == RegSpec /\ RegFairness

-----------------------------------------------------------------------------
(* Every variable keeps its type; a handler at work for a session names    *)
(* it, and only a handler that is gone has a timer.                        *)
RegTypeOK ==
    /\ sessions \subseteq Conns
    /\ closed \subseteq Conns
    /\ ws \in [Conns -> Conns \cup {NoConn}]
    /\ serves \in [Conns -> Conns \cup {NoConn}]
    /\ at \in [Conns -> {"unopened", "lookup", "attach", "count", "new",
                         "reading", "refused", "gone"}]
    /\ timer \in [Conns -> {"off", "armed", "close", "remove", "done"}]
    /\ \A c \in Conns :
         /\ at[c] \in {"lookup", "attach", "reading", "gone"} => serves[c] \in Conns
         /\ timer[c] # "off" => at[c] = "gone"

(* Every registered session has a handler that serves it or is about to,   *)
(* or an expiry timer that has yet to decide: however attaches, detaches   *)
(* and timers interleave, no session is left in the registry with nobody   *)
(* to remove it (session.go:121-187).                                      *)
Served(s)   == \E c \in Conns : serves[c] = s /\ at[c] \in {"attach", "reading"}
Expiring(s) == \E c \in Conns : serves[c] = s /\ timer[c] \in {"armed", "close", "remove"}
NoOrphan == \A s \in sessions : Served(s) \/ Expiring(s)

(* A session that has left the registry is closed: no goroutine and no IRC *)
(* connection outlives the last way to reach them (session.go:161-172).    *)
RemovedIsClosed ==
    \A s \in Conns : serves[s] = s /\ s \notin sessions => s \in closed

(* When every browser has left for good the server gives every session     *)
(* back (session.go:152-173).                                              *)
AllLeft == \A c \in Conns : at[c] \in {"unopened", "gone", "refused"}
ServerDrains == AllLeft ~> (~AllLeft \/ sessions = {})

(* main.go:43, README.md:220: -max-sessions is the maximum number of       *)
(* "concurrent sessions".                                                  *)
LimitHonoured == MaxSessions > 0 => Cardinality(sessions) <= MaxSessions
=============================================================================
