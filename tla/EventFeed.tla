----------------------------- MODULE EventFeed -----------------------------
(***************************************************************************)
(* What the bridge promises a browser about one session, whatever sockets  *)
(* it uses: the events of the IRC connection, numbered as they come, form  *)
(* a feed.  Some of them wait, in bounded memory; the oldest one that      *)
(* waits is shown on one of the sockets, or given up; the newest ones may  *)
(* be forgotten together, when the session expires.                        *)
(***************************************************************************)
EXTENDS Naturals, Sequences, FiniteSets

CONSTANTS
    Sockets,    \* the WebSockets of the session
    Notice,     \* what a browser is told that is not an event
    Capacity,   \* events that may wait
    MaxEvents   \* bound: events produced

VARIABLES
    produced,   \* number of events of the IRC connection so far
    waiting,    \* the events that no browser has seen yet
    seen,       \* socket -> the events and notices shown on it, in order
    lost        \* the events that no browser will see

vars == <<produced, waiting, seen, lost>>

Init ==
    /\ produced = 0
    /\ waiting = {}
    /\ seen = [c \in Sockets |-> <<>>]
    /\ lost = {}

Oldest(n) == n \in waiting /\ \A m \in waiting : n <= m

(* A new event waits for the browser, ... *)
Produce ==
    /\ produced < MaxEvents /\ produced' = produced + 1
    /\ Cardinality(waiting) < Capacity
    /\ waiting' = waiting \cup {produced + 1}
    /\ UNCHANGED <<seen, lost>>

(* ... or is dropped at once, for want of room: frames that are not events *)
(* take room too.                                                          *)
Drop ==
    /\ produced < MaxEvents /\ produced' = produced + 1
    /\ lost' = lost \cup {produced + 1}
    /\ UNCHANGED <<waiting, seen>>

Show(c, n) ==
    /\ Oldest(n)
    /\ waiting' = waiting \ {n}
    /\ seen' = [seen EXCEPT ![c] = Append(@, n)]
    /\ UNCHANGED <<produced, lost>>

(* A notice may come at any time. *)
Tell(c) ==
    /\ seen' = [seen EXCEPT ![c] = Append(@, Notice)]
    /\ UNCHANGED <<produced, waiting, lost>>

(* The oldest event was written to a connection that is dead. *)
GiveUp(n) ==
    /\ Oldest(n)
    /\ waiting' = waiting \ {n}
    /\ lost' = lost \cup {n}
    /\ UNCHANGED <<produced, seen>>

(* The newest events that wait expire; the oldest of them may stay.        *)
Forget ==
    /\ waiting' \in SUBSET waiting
    /\ \A n \in waiting', m \in waiting \ waiting' : n < m
    /\ lost' = lost \cup (waiting \ waiting')
    /\ UNCHANGED <<produced, seen>>

Next ==
    \/ Produce \/ Drop \/ Forget
    \/ \E c \in Sockets : Tell(c) \/ \E n \in waiting : Show(c, n)
    \/ \E n \in waiting : GiveUp(n)

Spec == Init /\ [][Next]_vars
=============================================================================
