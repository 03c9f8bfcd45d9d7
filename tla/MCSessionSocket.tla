-------------------------- MODULE MCSessionSocket --------------------------
(***************************************************************************)
(* SessionSocket for TLC, with history variables that tell which browser   *)
(* the session belongs to and whether an older one got in its way.         *)
(***************************************************************************)
EXTENDS SessionSocket, TLC

VARIABLES
    latest,     \* the socket that was attached last
    disturbed,  \* a Detach has cleared a socket that was not its own
    belated     \* a handler announced resumed when its successor was gone

(* All the sockets but the first start in the same state. *)
Symmetry == Permutations(Sockets \ {First})

Disturbs ==
    \E c \in Sockets : pc[c] # "gone" /\ pc'[c] = "gone" /\ ws \notin {c, NoSocket}

Belated ==
    \E c \in Sockets :
        pc[c] = "resumed" /\ pc'[c] # "resumed" /\ ws = NoSocket /\ c # latest

MCInit == Init /\ latest = First /\ disturbed = FALSE /\ belated = FALSE

MCNext ==
    /\ Next
    /\ latest' = IF ws' \in {ws, NoSocket} THEN latest ELSE ws'
    /\ disturbed' = (disturbed \/ Disturbs)
    /\ belated' = (belated \/ Belated)

MCSpec == MCInit /\ [][MCNext]_<<vars, latest, disturbed, belated>>

-----------------------------------------------------------------------------
(* session.go:75 "current WebSocket; nil while detached", handler.go:69-70 *)
(* "On disconnect the session is detached": the browser that attached last *)
(* has the session while its connection is fine and its handler reads.     *)
LatestIsServed == pc[latest] = "reading" /\ link[latest] = "up" => ws = latest

(* While a flush has frames left, its socket has not been told resumed.    *)
ResumedEndsReplay ==
    \A c \in Sockets : pc[c] = "flush" /\ pending # <<>> =>
        \A i \in DOMAIN inbox[c] : inbox[c][i] # Resumed

(* Unless the late Detach of an older socket has got in its way, the       *)
(* browser that attached last has the session: no other interleaving of    *)
(* resumes, detaches and timers takes it away (session.go:121-173).        *)
UndisturbedIsServed == ~disturbed => LatestIsServed

(* Under the same condition resumed is the end of the replay, as           *)
(* WEBSOCKET.md:176 says, with one way out: a handler that is slow to call *)
(* SendResumed while a later socket comes and goes.  Otherwise a resumed   *)
(* frame is never buffered and flushed in front of events                  *)
(* (session.go:128-141, 316-333).                                          *)
UndisturbedReplay == ~disturbed /\ ~belated => ResumedEndsReplay
=============================================================================
