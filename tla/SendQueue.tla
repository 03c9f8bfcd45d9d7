----------------------------- MODULE SendQueue -----------------------------
(***************************************************************************)
(* The way of an outbound IRC line: SendIRC puts it on sendQ, a channel    *)
(* that drops what does not fit, and sendLoop takes it from there and      *)
(* writes it when its token bucket allows (session.go: SendIRC, sendLoop,  *)
(* Connect, Close).  The lines are numbered as the channel accepts them.   *)
(*                                                                         *)
(* Time is counted in ticks of sendInterval.  The ticker's channel holds   *)
(* one tick; the runtime drops the ones that find it full, which is a      *)
(* stuttering step here.                                                   *)
(***************************************************************************)
EXTENDS Naturals, Sequences

CONSTANTS
    QueueCap,   \* capacity of sendQ (128 in the code)
    Burst,      \* sendBurst
    MaxLines    \* bound: lines accepted; ages saturate there

ASSUME SendQueueAssumption ==
    /\ QueueCap \in Nat \ {0}
    /\ Burst \in Nat \ {0}
    /\ MaxLines \in Nat

VARIABLES
    made,       \* s.sendQ is not nil: Connect has run
    q,          \* lines in sendQ
    pending,    \* sendLoop's own slice
    out,        \* lines sendLoop has written, on a live connection or not
    age,        \* for each of them, ticks since it was written
    tokens,     \* tokens left in the bucket
    tick,       \* a tick waits in the ticker's channel
    loop,       \* where sendLoop is
    link,       \* the connection: up, stuck (writes block) or down
    done,       \* s.done is closed
    accepted,   \* number of lines sendQ has accepted
    refused     \* SendIRC has returned an error

vars == <<made, q, pending, out, age, tokens, tick, loop, link, done,
          accepted, refused>>

Init ==
    /\ made = FALSE
    /\ q = <<>> /\ pending = <<>> /\ out = <<>> /\ age = <<>>
    /\ tokens = Burst /\ tick = FALSE
    /\ loop = "none"
    /\ link = "up" /\ done = FALSE
    /\ accepted = 0 /\ refused = FALSE

-----------------------------------------------------------------------------
(* Connect makes sendQ and starts sendLoop. *)
Connect ==
    /\ ~made /\ ~done
    /\ made' = TRUE
    /\ loop' = "select"
    /\ UNCHANGED <<q, pending, out, age, tokens, tick, link, done, accepted, refused>>

(* Mutant: a caller that finds the channel full makes room for its line. *)
SendIRCEvicts ==
    /\ accepted < MaxLines
    /\ made
    /\ accepted' = accepted + 1
    /\ q' = IF Len(q) < QueueCap THEN Append(q, accepted + 1)
                                 ELSE Append(Tail(q), accepted + 1)
    /\ UNCHANGED <<made, pending, out, age, tokens, tick, loop, link, done, refused>>

(* SendIRC by any goroutine: an error before Connect, then the channel if  *)
(* it has room, else the line is dropped and the caller not told, which    *)
(* changes nothing here.                                                   *)
SendIRC ==
    /\ accepted < MaxLines
    /\ \/ /\ ~made
          /\ refused' = TRUE
          /\ UNCHANGED <<q, accepted>>
       \/ /\ made
          /\ Len(q) < QueueCap
          /\ accepted' = accepted + 1
          /\ q' = Append(q, accepted + 1)
          /\ UNCHANGED refused
    /\ UNCHANGED <<made, pending, out, age, tokens, tick, loop, link, done>>

(* sendLoop's select: a line. *)
Take ==
    /\ loop = "select"
    /\ q # <<>>
    /\ q' = Tail(q)
    /\ pending' = Append(pending, Head(q))
    /\ loop' = "flush"
    /\ UNCHANGED <<made, out, age, tokens, tick, link, done, accepted, refused>>

(* Mutant: the bucket has no upper limit. *)
RefillUncapped ==
    /\ loop = "select"
    /\ tick
    /\ tick' = FALSE
    /\ tokens' = tokens + 1
    /\ loop' = "flush"
    /\ UNCHANGED <<made, q, pending, out, age, link, done, accepted, refused>>

(* Mutant: a tick adds a token but does not flush. *)
RefillOnly ==
    /\ loop = "select"
    /\ tick
    /\ tick' = FALSE
    /\ tokens' = IF tokens < Burst THEN tokens + 1 ELSE tokens
    /\ UNCHANGED <<made, q, pending, out, age, loop, link, done, accepted, refused>>

(* sendLoop's select: a tick. *)
Refill ==
    /\ loop = "select"
    /\ tick
    /\ tick' = FALSE
    /\ tokens' = IF tokens < Burst THEN tokens + 1 ELSE tokens
    /\ loop' = "flush"
    /\ UNCHANGED <<made, q, pending, out, age, link, done, accepted, refused>>

(* One round of flush: the write blocks on a stuck connection, and its     *)
(* error is ignored on a dead one.                                         *)
Write ==
    /\ loop = "flush"
    /\ tokens > 0 /\ pending # <<>>
    /\ link # "stuck"
    /\ out' = Append(out, Head(pending))
    /\ age' = Append(age, 0)
    /\ pending' = Tail(pending)
    /\ tokens' = tokens - 1
    /\ UNCHANGED <<made, q, tick, loop, link, done, accepted, refused>>

(* Nothing left that may be written. *)
EndFlush ==
    /\ loop = "flush"
    /\ tokens = 0 \/ pending = <<>>
    /\ loop' = "select"
    /\ UNCHANGED <<made, q, pending, out, age, tokens, tick, link, done,
                   accepted, refused>>

(* sendLoop's select: done.  What is queued is never written. *)
Exit ==
    /\ loop = "select"
    /\ done
    /\ loop' = "exited"
    /\ UNCHANGED <<made, q, pending, out, age, tokens, tick, link, done,
                   accepted, refused>>

Tick ==
    /\ loop # "none"
    /\ ~tick
    /\ tick' = TRUE
    /\ age' = [i \in DOMAIN age |-> IF age[i] < MaxLines THEN age[i] + 1 ELSE age[i]]
    /\ UNCHANGED <<made, q, pending, out, tokens, loop, link, done, accepted, refused>>

LinkSticks ==
    /\ made /\ link = "up"
    /\ link' = "stuck"
    /\ UNCHANGED <<made, q, pending, out, age, tokens, tick, loop, done,
                   accepted, refused>>

LinkRecovers ==
    /\ link = "stuck"
    /\ link' = "up"
    /\ UNCHANGED <<made, q, pending, out, age, tokens, tick, loop, done,
                   accepted, refused>>

LinkDrops ==
    /\ made /\ link # "down"
    /\ link' = "down"
    /\ UNCHANGED <<made, q, pending, out, age, tokens, tick, loop, done,
                   accepted, refused>>

(* Close closes done; its conn.Close, in a later step, is LinkDrops. *)
Close ==
    /\ ~done
    /\ done' = TRUE
    /\ UNCHANGED <<made, q, pending, out, age, tokens, tick, loop, link,
                   accepted, refused>>

-----------------------------------------------------------------------------
Next ==
    \/ Connect \/ SendIRC
    \/ Take \/ Refill \/ Write \/ EndFlush \/ Exit
    \/ Tick
    \/ LinkSticks \/ LinkRecovers \/ LinkDrops \/ Close

Spec == Init /\ [][Next]_vars

(* The ticker ticks, sendLoop runs, and its select does not prefer ticks   *)
(* to lines for ever; a write gets through whenever the link is not stuck  *)
(* for good.                                                               *)
Fairness ==
    /\ WF_vars(Tick) /\ WF_vars(EndFlush)
    /\ SF_vars(Take) /\ SF_vars(Refill) /\ SF_vars(Write)

FairSpec == Spec /\ Fairness

-----------------------------------------------------------------------------
(* Every variable keeps its type; the channel and the bucket stay within   *)
(* their limits.                                                           *)
TypeOK ==
    /\ made \in BOOLEAN
    /\ q \in Seq(1..MaxLines) /\ Len(q) <= QueueCap
    /\ pending \in Seq(1..MaxLines)
    /\ out \in Seq(1..MaxLines)
    /\ age \in Seq(0..MaxLines) /\ Len(age) = Len(out)
    /\ tokens \in 0..Burst
    /\ tick \in BOOLEAN
    /\ loop \in {"none", "select", "flush", "exited"}
    /\ link \in {"up", "stuck", "down"}
    /\ done \in BOOLEAN
    /\ accepted \in 0..MaxLines
    /\ refused \in BOOLEAN

(* What the channel has accepted is, in that order and each line once,     *)
(* what sendLoop has written, then its pending slice, then the channel:    *)
(* the limiter never reorders, repeats or forgets a line, whatever the     *)
(* interleaving of callers, ticks and writes (session.go:258-291, 936-951). *)
InSequence ==
    /\ accepted = Len(out) + Len(pending) + Len(q)
    /\ \A i \in DOMAIN out : out[i] = i
    /\ \A i \in DOMAIN pending : pending[i] = Len(out) + i
    /\ \A i \in DOMAIN q : q[i] = Len(out) + Len(pending) + i

(* session.go:47-48, 258-260: a burst of sendBurst lines, then one line    *)
(* per tick.  Over any stretch of time, not only the first one, sendLoop   *)
(* writes at most sendBurst lines, one for the tick that may have waited,  *)
(* and one per tick: since line i, i included, no more than that.          *)
RateBound ==
    \A i \in DOMAIN out : Len(out) - i + 1 <= Burst + 1 + age[i]

(* On a connection that is never stuck or lost for good, a line that was   *)
(* accepted is written in the end, unless the session is closed first: no  *)
(* line stays in the limiter (session.go:265-290).                         *)
LinesGetOut ==
    []<>(link = "up") =>
        \A n \in 1..MaxLines : (accepted >= n) ~> (Len(out) >= n \/ done)
=============================================================================
