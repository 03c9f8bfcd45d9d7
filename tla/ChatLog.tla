------------------------------ MODULE ChatLog ------------------------------
(***************************************************************************)
(* The log of one channel: what app.js keeps of it in IndexedDB, in        *)
(* msgCache and on the screen (persistMsg, preloadLogs, trimAllCaches,     *)
(* clearLocalData, ensureChannel).  Messages are numbered as they come.      *)
(*                                                                         *)
(* IndexedDB runs the transactions of the store in the order in which they *)
(* were made.  getDB makes its caller wait: until the next microtask when  *)
(* the database is open, and otherwise for a request of the caller's own.  *)
(* A callback and the microtasks after it are one step.                    *)
(***************************************************************************)
EXTENDS Naturals, Sequences, FiniteSets

CONSTANTS
    Limits,     \* values of logMax that the user may set
    Default,    \* its value before
    NoChannel,  \* the channel is not in state.channels
    Backlog,    \* messages that CHATHISTORY plays back (100)
    MaxLogged,  \* bound: messages
    MaxPlayed,  \* bound: messages played back that were not on the screen
    MaxMishaps, \* bound: kinds of mishaps, see below, in one behaviour
    MaxCalls    \* bound: requests and transactions under way

ASSUME ChatLogAssumption ==
    /\ Limits \subseteq Nat \ {0} /\ Default \in Limits
    /\ Backlog \in Nat /\ MaxLogged \in Nat /\ MaxPlayed \in Nat
    /\ MaxMishaps \in Nat /\ MaxCalls \in Nat

VARIABLES
    phase,      \* "form", "connecting", "chat", or "replay": the page has been
                \* loaded with ?s= and has not been resumed, state.server = ''
    trusted,    \* isTrusted()
    logMax,
    logmax,     \* the setting in localStorage
    saved,      \* the channel is in the saved list of its server
    chan,       \* its messages on the screen
    cache,      \* its entry in msgCache
    db,         \* its rows, in the order of their keys
    strays,     \* it has rows under the server '', where no one looks for them
    idb,        \* _idb is set
    calls,      \* callers of getDB that wait for a request
    txs,        \* transactions that have not run
    logged,     \* number of messages so far
    played,     \* and of those played back
    slips,      \* how many of these were logged while the cache was being loaded
    bare,       \* the channel was made before its log was there
    late,       \* a message has been played back to a channel without its log,
                \* or with messages missing, or after newer ones
    mishaps     \* of these: a transaction has been made before that of an
                \* earlier caller ("overtaken"); a reload has dropped a clearing
                \* or a trimming ("clear", "trim"); the limit has been lowered
                \* while the cache was being loaded, or by a reload: a clearing
                \* forgets the setting and leaves logMax ("lowered")

page == <<phase, trusted, logMax, logmax, saved, chan, cache>>
disk == <<db, strays, idb, calls, txs>>
vars == <<page, disk, logged, played, slips, bare, late, mishaps>>

Op(name, m, n) == [op |-> name, msg |-> m, excess |-> n]
Known == phase # "replay"

(* saveSrv keeps nothing on a device that is not trusted. *)
saveSrv == saved' = (saved \/ trusted)

Init ==
    /\ phase = "connecting" /\ trusted = TRUE
    /\ logMax = Default /\ logmax = Default /\ saved = FALSE
    /\ chan = NoChannel /\ cache = <<>>
    /\ db = <<>> /\ strays = FALSE
    /\ idb = FALSE /\ calls = <<>> /\ txs = <<>>
    /\ logged = 0 /\ played = 0 /\ slips = 0
    /\ bare = FALSE /\ late = FALSE /\ mishaps = {}

-----------------------------------------------------------------------------
(* Helpers of persistMsg and its neighbours. *)
Excess(q, n) == IF Len(q) > n THEN Len(q) - n ELSE 0
Drop(q, n) == SubSeq(q, n + 1, Len(q))
Newest(q, n) == Drop(q, Excess(q, n))

Waiting(name) == \/ \E i \in DOMAIN calls : calls[i].op = name
                 \/ \E i \in DOMAIN txs : txs[i].op = name

(* getDB().then: a transaction is made now, or once a request of the       *)
(* caller's own has been answered.                                         *)
getDB(o) ==
    /\ Len(calls) + Len(txs) < MaxCalls
    /\ IF idb THEN txs' = Append(txs, o) /\ UNCHANGED calls
              ELSE calls' = Append(calls, o) /\ UNCHANGED txs
    /\ UNCHANGED idb
Note(S) == /\ mishaps' = mishaps \cup S
           /\ Cardinality(mishaps') <= MaxMishaps
Overtaking == IF idb /\ calls # <<>> THEN {"overtaken"} ELSE {}

(* trimAllCaches cuts the cache when it has the database, not before. *)
trimAllCaches ==
    IF idb /\ Len(cache) <= logMax'
    THEN UNCHANGED <<cache, idb, calls, txs>>
    ELSE /\ getDB(Op("trim", 0, IF idb THEN Excess(cache, logMax') ELSE 0))
         /\ cache' = IF idb THEN Newest(cache, logMax') ELSE cache

(* clearLocalData *)
(* Mutant: the database is not cleared. *)
ClearCacheOnly ==
    /\ cache' = <<>> /\ saved' = FALSE /\ logmax' = Default
    /\ UNCHANGED <<idb, calls, txs, mishaps>>
clearLocalData ==
    /\ getDB(Op("clear", 0, 0))
    /\ Note(Overtaking)
    /\ cache' = <<>> /\ saved' = FALSE /\ logmax' = Default

(* Mutant: neither cache nor database is cut. *)
PersistUncounted(m) ==
    IF ~trusted THEN UNCHANGED <<cache, idb, calls, txs, slips, mishaps>>
    ELSE /\ cache' = IF Known THEN Append(cache, m) ELSE cache
         /\ getDB(Op("add", m, 0))
         /\ Note(Overtaking)
         /\ slips' = IF Waiting("preload") \/ ~Known THEN slips + 1 ELSE slips

(* persistMsg: the excess of the cache is what the database deletes. *)
persistMsg(m) ==
    IF ~trusted THEN UNCHANGED <<cache, idb, calls, txs, slips, mishaps>>
    ELSE LET full == Append(cache, m) IN
         /\ cache' = IF Known THEN Newest(full, logMax) ELSE cache
         /\ getDB(Op("add", m, IF Known THEN Excess(full, logMax) ELSE 0))
         /\ Note(Overtaking)
         /\ slips' = IF Waiting("preload") \/ ~Known THEN slips + 1 ELSE slips

-----------------------------------------------------------------------------
Loading == Waiting("preload") \/ ~Known

(* Mutant: a new channel has no log. *)
NewChannelEmpty == IF chan # NoChannel THEN chan ELSE <<>>

(* ensureChannel: a new channel starts with its log. *)
ensureChannel == IF chan # NoChannel THEN chan ELSE IF Known THEN cache ELSE <<>>
NoteBare == bare' = IF chan = NoChannel THEN Loading ELSE bare

(* A message for the channel: ensureChannel, then appendMsg. *)
Message ==
    /\ phase \in {"chat", "replay"} /\ logged < MaxLogged
    /\ chan' = Append(ensureChannel, logged + 1)
    /\ NoteBare
    /\ persistMsg(logged + 1)
    /\ logged' = logged + 1
    /\ UNCHANGED <<phase, trusted, logMax, logmax, saved, db, strays, played, late>>

(* Mutant: playback is not compared with the log. *)
NeverDuplicate(m) == FALSE

(* One of the newest messages or notices is played back: dropped if it is  *)
(* on the screen.                                                          *)
isDuplicateMsg(m) == \E i \in DOMAIN ensureChannel : ensureChannel[i] = m
Playback(m) ==
    /\ phase = "chat" /\ m <= logged /\ logged < m + Backlog
    /\ NoteBare
    /\ IF isDuplicateMsg(m)
       THEN /\ chan' = ensureChannel
            /\ UNCHANGED <<cache, idb, calls, txs, played, slips, late, mishaps>>
       ELSE /\ chan' = Append(ensureChannel, m)
            /\ played < MaxPlayed /\ played' = played + 1
            /\ persistMsg(m)
            /\ late' = (late \/ bare' \/ slips' > 0 \/ \E i \in DOMAIN cache : cache[i] > m)
    /\ UNCHANGED <<phase, trusted, logMax, logmax, saved, db, strays, logged>>

(* The user's own JOIN comes back: the channel is there, and is saved. *)
Joined ==
    /\ phase = "chat" /\ (~saved \/ chan = NoChannel)
    /\ chan' = ensureChannel
    /\ NoteBare
    /\ saveSrv
    /\ UNCHANGED <<phase, trusted, logMax, logmax, cache, disk, logged, played, slips, late, mishaps>>

(* The channel is left, or the user is kicked, which does not save. *)
Left ==
    /\ phase = "chat" /\ chan # NoChannel
    /\ chan' = NoChannel /\ bare' = FALSE
    /\ saved' \in {saved, FALSE}
    /\ UNCHANGED <<phase, trusted, logMax, logmax, cache, disk, logged, played, slips, late, mishaps>>

(* connected and resumed: preloadLogs empties the cache and reads it again. *)
Preload ==
    /\ phase \in {"connecting", "replay", "chat"} /\ ~Waiting("preload")
    /\ phase' = "chat"
    /\ cache' = <<>>
    /\ getDB(Op("preload", 0, 0))
    /\ Note(Overtaking)
    /\ UNCHANGED <<trusted, logMax, logmax, saved, chan, db, strays, logged, played, slips, bare, late>>

(* onDisconnect closes all channels. *)
Disconnect ==
    /\ phase = "chat"
    /\ phase' = "form" /\ chan' = NoChannel /\ bare' = FALSE
    /\ IF trusted THEN UNCHANGED <<cache, saved, logmax, idb, calls, txs, mishaps>>
       ELSE clearLocalData
    /\ UNCHANGED <<trusted, logMax, db, strays, logged, played, slips, late>>

(* The settings, and the box on the connect form. *)
SetLogMax(n) ==
    /\ phase = "chat" /\ n # logMax
    /\ logMax' = n /\ logmax' = n
    /\ trimAllCaches
    /\ Note(Overtaking \cup {x \in {"lowered"} : n < logMax /\ Waiting("preload")})
    /\ UNCHANGED <<phase, trusted, saved, chan, db, strays, logged, played, slips, bare, late>>

SetTrusted ==
    /\ phase = "form"
    /\ trusted' = ~trusted
    /\ IF trusted THEN clearLocalData
       ELSE UNCHANGED <<cache, saved, logmax, idb, calls, txs, mishaps>>
    /\ UNCHANGED <<phase, logMax, chan, db, strays, logged, played, slips, bare, late>>

Submit ==
    /\ phase = "form"
    /\ phase' = "connecting"
    /\ UNCHANGED <<trusted, logMax, logmax, saved, chan, cache, disk, logged, played, slips,
                   bare, late, mishaps>>

(* The page is loaded again; transactions that have not run are lost. *)
Reload ==
    /\ phase' \in IF phase = "chat" THEN {"replay"} ELSE {"form"}
    /\ logMax' = logmax
    /\ chan' = NoChannel /\ bare' = FALSE /\ cache' = <<>>
    /\ idb' = FALSE /\ calls' = <<>> /\ txs' = <<>>
    /\ Note({x \in {"clear", "trim"} : Waiting(x)} \cup {x \in {"lowered"} : logmax < logMax})
    /\ UNCHANGED <<trusted, logmax, saved, db, strays, logged, played, slips, late>>

-----------------------------------------------------------------------------
(* IndexedDB answers the oldest request, and its caller makes a transaction. *)
Opened ==
    /\ calls # <<>>
    /\ idb' = TRUE
    /\ calls' = Tail(calls)
    /\ LET o == Head(calls) IN
       /\ txs' = IF o.op = "trim"
                 THEN IF Len(cache) > logMax
                      THEN Append(txs, Op("trim", 0, Excess(cache, logMax))) ELSE txs
                 ELSE IF o.op = "add" /\ ~Known THEN Append(txs, Op("stray", 0, 0))
                 ELSE Append(txs, o)
       /\ cache' = IF o.op = "trim" THEN Newest(cache, logMax) ELSE cache
    /\ UNCHANGED <<phase, trusted, logMax, logmax, saved, chan, db, strays,
                   logged, played, slips, bare, late, mishaps>>

(* The oldest transaction runs.  A preload fills the cache, and the saved  *)
(* channels that are not there yet are made from it.                       *)
Run ==
    /\ txs # <<>>
    /\ txs' = Tail(txs)
    /\ LET o == Head(txs) IN
       /\ db' = CASE o.op = "add"   -> Drop(Append(db, o.msg), o.excess)
                  [] o.op = "trim"  -> Drop(db, o.excess)
                  [] o.op = "clear" -> <<>>
                  [] OTHER -> db
       /\ strays' = (o.op = "stray" \/ (strays /\ o.op # "clear"))
       /\ cache' = IF o.op = "preload" /\ db # <<>> THEN Newest(db, logMax) ELSE cache
       /\ chan' = IF o.op = "preload" /\ saved /\ chan = NoChannel THEN cache' ELSE chan
    /\ bare' = IF chan = NoChannel THEN FALSE ELSE bare
    /\ UNCHANGED <<phase, trusted, logMax, logmax, saved, idb, calls, logged, played, slips, late, mishaps>>

Next == \/ Message \/ Joined \/ Left \/ Preload \/ Disconnect \/ SetTrusted
        \/ Submit \/ Reload \/ Opened \/ Run
        \/ \E n \in Limits : SetLogMax(n)
        \/ \E m \in 1..MaxLogged : Playback(m)

Spec == Init /\ [][Next]_vars

-----------------------------------------------------------------------------
Quiet == calls = <<>> /\ txs = <<>>
Ascending(q) == \A i, j \in DOMAIN q : i < j => q[i] < q[j]

(* Types, and the limit of the cache. *)
Messages == 1..MaxLogged
Calls == [op : {"add", "stray", "trim", "clear", "preload"},
          msg : {0} \cup Messages, excess : Nat]
TypeOK ==
    /\ phase \in {"form", "connecting", "chat", "replay"}
    /\ trusted \in BOOLEAN /\ saved \in BOOLEAN /\ strays \in BOOLEAN
    /\ idb \in BOOLEAN /\ bare \in BOOLEAN /\ late \in BOOLEAN
    /\ logMax \in Limits /\ logmax \in Limits
    /\ chan \in Seq(Messages) \cup {NoChannel}
    /\ cache \in Seq(Messages) /\ db \in Seq(Messages)
    /\ \E n \in Limits : Len(cache) <= n
    /\ calls \in Seq(Calls) /\ txs \in Seq(Calls)
    /\ logged \in 0..MaxLogged /\ played \in 0..MaxPlayed
    /\ slips \in 0..(MaxLogged + MaxPlayed)
    /\ mishaps \subseteq {"overtaken", "clear", "trim", "lowered"}

(* The rows that persistMsg and trimAllCaches delete by count keep the      *)
(* database within the limit, although they count the cache: it exceeds the *)
(* limit by the messages that came while the cache was being loaded, at     *)
(* most, unless a trimming was lost or had no cache to count, or a reload   *)
(* has lowered the limit, which trims nothing.                              *)
Bounded == Quiet /\ mishaps \subseteq {"clear"} => Len(db) <= logMax + slips

(* Rows are in the order of the messages and each message has one, through  *)
(* reloads, playback and a database that is still being opened, unless an   *)
(* open database has served a later caller first, or a playback met a       *)
(* channel that was not shown with all of its log.                          *)
InOrder == "overtaken" \notin mishaps /\ ~late => Ascending(db)

(* Once the user has said that the device is not to be trusted, nothing of  *)
(* the log remains when the calls have been answered: no message is added   *)
(* behind the clearing.  A reload may lose the clearing itself.             *)
Forgotten ==
    Quiet /\ ~trusted /\ mishaps \subseteq {"trim", "lowered"} => db = <<>> /\ ~strays

(* A channel whose log was there when it was made shows every row that the  *)
(* database holds of it, whatever was left, reloaded, trimmed or cleared.   *)
Replayed ==
    Quiet /\ slips = 0 /\ mishaps = {} /\ ~bare /\ phase = "chat" /\ chan # NoChannel =>
        \A i \in DOMAIN db : \E j \in DOMAIN chan : chan[j] = db[i]
=============================================================================
