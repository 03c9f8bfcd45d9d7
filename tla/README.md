# wirgloo, formally

wirgloo is a bridge between a browser and IRC: a Go server keeps an IRC
connection per *session*, and a browser attaches to the session through a
WebSocket, loses it, and attaches again. This directory holds TLA+ modules of
the server's concurrent core and of the stateful parts of the browser's program,
the TLC configurations that check them, and proofs that TLAPS checks. Paths are relative to the repository; `session.go`,
`handler.go`, `client.go`, `policy.go` and `main.go` are in `cmd/wirgloo/`,
`app.js` in `static/`.

## 1. Inventory

| Part | State | Operations | Talks to |
|---|---|---|---|
| Session and its WebSocket (`session.go` Resume, Detach, sendWS, SendResumed; `handler.go` wsHandler) | `ws`, `buf`, `wsMu`, `mu`, one expiry timer per Detach | attach, flush, send or buffer a frame, detach, expire | the browser, ircLoop, the registry |
| IRC connection life cycle (`session.go` Connect, Quit, Close; `client.go` ircReadLoop) | `conn`, `done`, the `lines` channel, four goroutines | dial, handshake, read, handle, ping, send, close | the IRC server, handlers, timers |
| Outbound queue (`session.go` SendIRC, sendLoop) | `sendQ` (128), pending slice, token bucket | enqueue or drop, take, refill, write | every goroutine that sends IRC lines |
| Registry (`session.go` Registry; `handler.go`) | `sessions`, `-max-sessions` | New, Resume, Detach, Count, Remove | all handlers and timers |
| Keep-alive (`session.go` pingLoop, PONG) | `lastPong`, `pingSent`, `lastPing` | PING, PONG, time out | ircLoop, Close, the browser's lag PINGs |
| Registration (`session.go` CAP, AUTHENTICATE, 001; `client.go` ircHandshake) | `capsLS`, `caps`, `authMethod` | CAP LS/REQ/ACK/NAK, SASL, welcome | the IRC server |
| Session state (`session.go` ircLoop) | `Nick`, `channels`, `batches`, `meta` | JOIN, PART, KICK, NICK, BATCH, numerics | SendResumed, Resume |
| LIST cache (`session.go` 321-323, FilterList) | `listBuf` | collect, filter, send | ircLoop and handlers |
| Line parser (`client.go` ircParseLine) | none | parse | ircLoop |
| Outbound policy (`policy.go`) | allowed hosts | hostAllowed, publicAddr | ircDial |
| Browser transport (`app.js` openWS, send, scheduleReconnect, onDisconnect, the session messages of handle) | `state.ws`, `sessionId`, `connectParams`, `pendingSends`, `?s=` in the URL, the reconnect timers | connect, resume, retry, queue and flush, disconnect, cancel, reload | wsHandler |
| Browser channels (`app.js` ensureChannel, setActive, removeChannel, saveChannels, handle) | `state.channels`, `state.active`, the saved lists | join, part, kick, quit, nick, names, restore | the transport, the log |
| Browser log (`app.js` getDB, preloadLogs, persistMsg, trimAllCaches, clearLocalData) | `msgCache`, IndexedDB, `logMax`, trust | load, append, trim, clear, play back | handle |
| Browser auto-away (`app.js` resetAutoAway, away button, /away) | `autoAwayActive`, its timer, `state.away` | go away after idling, come back at a key | the transport, the IRC server |
| Presentation, command line, HTTP, logging, packaging | | | |

What is hard about it: a handler, its predecessor and its successor run at the
same time for one session; the session's frames come from ircLoop while
sockets change; timers decide long after the event that started them; writes
to a browser have no deadline; Close has three kinds of callers; the lines
channel, the send queue and the buffer are bounded. What makes each part
correct:

- *session*: an event is delivered once or accounted for, in order, and never
  waits while a browser is attached; a session nobody uses is given back;
- *life cycle*: one connection per session, started once; every goroutine ends
  when the session is closed; "disconnected" is the last word;
- *outbound queue*: order, no loss after acceptance, the rate over every
  stretch of time, and no line that stays for ever;
- *registry*: no session without a handler or a timer; none removed open;
- *keep-alive*: a dead link is noticed in bounded time, a live one is left alone;
- *registration* ends with CAP END whatever the server answers; *session state*
  equals the server's after every event; *LIST* frames form one list; the
  *browser* reconnects in one way at a time, never leaves the user before a
  dead chat, and sends what was queued to the session it was typed for; its
  *tabs* and lists of names are the server's when nothing is under way; its *log*
  is bounded, in order, shown again after a reload, and gone when the device is
  not trusted; *auto-away* ends when the user comes back, and leaves an away the
  user asked for alone.

`PROJECT.json` lists every hazard at its line with the properties aimed at it.

## 2. Modules

| Module | Models | Uses |
|---|---|---|
| `SessionSocket` | one registered session, its WebSockets, handlers and timers | `EventFeed` as abstract specification |
| `MCSessionSocket` | symmetry, and history: which socket attached last, whether an old handler disturbed it, whether a slow one spoke late | `SessionSocket` |
| `EventFeed` | what the browser is promised: each event is shown once, in order, or given up | |
| `IrcLifecycle` | Connect to Close, four goroutines, two channels | |
| `SendQueue` | SendIRC and sendLoop | |
| `Registry` | many sessions, many connections | |
| `KeepAlive` | pingLoop, PONG, stalls | |
| `Browser` | one tab, its WebSockets and timers, and the handlers and sessions they meet | |
| `MCBrowser` | symmetry of sockets and sessions | `Browser` |
| `Channels` | tabs, lists of names and the channels on the IRC server | |
| `MCChannels` | symmetry of channels and users | `Channels` |
| `ChatLog` | cache, database and screen of one channel | |
| `AutoAway` | away on the page and on the IRC server | |
| `LifecycleProofs` | theorems about `IrcLifecycle` and `Registry` | both, TLAPS |
| other `*Proofs` | theorems about the module of that name | TLAPS |

### How state and steps correspond to the code

A section under `mu` has no blocking call in it and is one step. `wsMu` is held
across blocking writes and is a variable. Everything between two sections is
an interleaving point: that is why sendWS is `Capture` (under `mu`), `LockWs`
and `WriteWs`; Resume is `Lookup`, `Attach`, `Flush`\*, `EndFlush`; the timer of
Detach is `TimerFires`, `ExpireBuffer`, `ExpireClose`, `ExpireRemove`; Connect is
`ConnectCheckDone`, `ConnectCheckConn`, `Dial...`, `Handshake...`; Close is
`CloseCheck`, `CloseDone` or `DoubleClose`, `CloseConn`; pingLoop's PING is `Tick`
and `NotePing`, since it writes before it reads the clock. A select is a
choice between its cases.

*SessionSocket.* `ws`, `buf`, `wsMu`, `closed` and `registered` are the
fields; `pending` and `to` are local variables of Resume and sendWS; `pc` and
`timer` are program counters. `inbox`, `emitted`, `lost` and `away` are history.
A frame is the number of the ircLoop event in it, or `Resumed`. A browser's TCP
connection is up, stalled (the peer does not drain it, so a write waits) or
down (a write fails, and the code ignores the error). The read loop fails only
on a connection that is down. `Quit` closes the session while it stays
registered, as the code does. Frames the handlers themselves produce
(connect_error, list results) and the IRC lines queued on resume are left out.

*IrcLifecycle.* Lines are counted. The first line ircLoop handles stands for
001, which hands the browser the session ID: before it no second handler can
join. Handlers stay in Connect while it dials. `conn` distinguishes a link that
no longer carries bytes (`stuck`, writes may block), one at its end (`eof`) and
one closed locally. A panic ends the process.

*SendQueue.* Lines are numbered as `sendQ` accepts them; `age` counts ticks
since each was written. The ticker's channel holds one tick.

*Registry.* A session is named after the connection that created it; a URL may
name any session, registered or not. The window's length is left out: a timer
may fire at any time.

*KeepAlive.* Time is counted in the ticker's ticks. When a whole number of
ticks has passed, a comparison of clocks may come out either way (`late`).
A PONG may be handled before pingLoop has read the clock, and a browser may stop
draining its socket; `overtaken` and `delayed` remember that. When a stall ends
ircLoop catches up before the next tick.

In the browser JavaScript runs one callback at a time, so a callback, with the
microtasks it leaves behind where that matters, is one step; what follows an
`await` of IndexedDB is a step of its own. What a function of `app.js` does to
the page is an operator from page to page with the function's name, and a case
of `handle` is such an operator too. Time is left out: a timer that is set may
fire at any moment. The four modules cut the page into parts that share little:
`Channels` and `AutoAway` know only whether there is a connection, `Browser`
knows which socket carries it, and `ChatLog` knows neither.

*Browser.* `link`, `down` and `handler` are the two ends of each WebSocket,
`session`, `attached` and `farewell` what the server keeps of a session. A frame
to the server takes effect at once or is lost with the link. `Pursuits` counts
the ways in which the page is trying to stay connected: reconnect timers, and
sockets whose onclose will start one. Two history variables state when a
property is claimed: `over`, a session ended other than by expiring and may have
left a timer or socket; `astray`, a line has reached a session it was not typed
for.

*Channels.* Keys are channel names in lower case, as `handle` makes them.
`asked` holds JOIN, PART and NAMES on their way, `wire` the frames on their way
back, which is the session's buffer while the page is away. Losses of `wire` follow
from the buffer's limit and from connections that drop. `early` (a frame came
before the page was ready for it), `lost` and `refused` say when the page is not
expected to match. Kicks of others are folded into their parts; a session whose
page was reloaded while registering counts as gone; the server tab stands for
every tab that is no channel's; the user's own change of nick, keys, topics and
direct messages are left out.

*ChatLog.* Messages are numbered in the order in which they come. The
transactions of one store run in the order in which they were made (IndexedDB
guarantees that); getDB's callers wait in `calls` until the database is open.
`slips` counts messages logged while the cache was being loaded, `bare` and
`late` mark a channel made before its log was there and a playback that met one,
`mishaps` names the kinds of events after which a property is given up: each is
explained at its variable. Messages of type `mention` are not logged by the code
and not modelled; the limit of 2000 lines on the screen is above every `logMax`
modelled; transactions do not fail.

*AutoAway.* A line is `auto`, `manual` or `back`; `irc` is what the server has.
`meant` is what the user asked for last; `blind`, `lost`, `orphan` and
`overridden` mark a page that was not told, a line that was lost, a reload in
auto-away, and an auto-away asked for behind an answer still under way.

## 3. Runs

Deadlock is not checked: browsers and servers may stop, counters are bounded,
and a closed session has nothing left to do.

| Run | Instance | Shows |
|---|---|---|
| socket | 3 sockets, buffer 1, window 0, 2 events, symmetric | `InOrder`, `Accounted`, `NothingStranded`, `OneWriter`, `UndisturbedIsServed`, `UndisturbedReplay`, and `EventFeed` is implemented |
| socket_liveness | 2 sockets, window 1, 1 event, fair | `ResumeCompletes`, `EventuallyReclaimed` |
| lifecycle | 2 handlers, channel of 1, 2 lines, 2 dials, fair | `NoConnectionLeaked`, `StartOnce`, `DisconnectedIsLast`, `WorkersExit`, `DeadLinkCloses` |
| queue | channel 2, burst 2, 5 lines, fair | `InSequence`, `RateBound`, `LinesGetOut` |
| registry | 4 connections, limit 2, fair | `NoOrphan`, `RemovedIsClosed`, `ServerDrains` |
| keepalive | interval 6, timeout 4 (the code's, in ticks), answers within 3, fair | `DetectionBound`, `NoFalseAlarm`, `DeadLinkCloses` |
| browser | 2 sockets, 2 sessions, `pendingSends` of 1, 2 timers, symmetric | `NotStranded`, `OneSocket`, `ForItsSession` |
| browser_live | 2 sockets, 1 session, 1 timer, fair | `Recovers` |
| chatlog | limits 1 (the default) and 2, 2 messages and 1 played back, 3 calls, 1 kind of mishap | `Bounded`, `InOrder`, `Forgotten`, `Replayed` |
| channels | 1 channel, 2 other users, buffer 1, 1 request, 1 pending load, symmetric | `TabsMatch`, `NickLists`, `ActiveIsOpen` |
| auto_away | 3 lines, 3 frames | `BackFromAuto`, `AwayShown`, `ManualKept` |

Why the bounds are enough: three sockets are an old, a current and a new one,
the most that can overlap in a different role; a buffer of one with two events
fills, overflows and is flushed; with a window of zero ticks a timer may fire
at any time after its Detach, before, between and after resumes, which is more
than a longer window allows (`socket_liveness` has one that ticks). A channel
of one line is full while the reader holds the next. Two handlers, a timer and
pingLoop are all the kinds of callers Close has, and a third of a kind adds no
new order. A burst of two with five lines empties and refills the bucket. Four
connections reach a limit of two in every way. The keep-alive constants are the
code's. A tab holds one socket in `state.ws`; the second is the one it left
behind, and the second session the one after. A log of two messages with limits
1 and 2 is under, at and over its limit, and three calls are a preload, an
append behind it and a trimming. The code treats each channel by itself except
for `state.active`, which moves between the channel and the server's tab; two
other users are what a change of nick needs. Three lines are an auto-away, its
end and the user's own, all under way. The theorems of section 6 do not depend
on any of these.

## 4. Where the code and its comments disagree

`socket_stale_detach` checks what `session.go:75` and `handler.go:69-70` say of the attached socket,
and TLC finds it violated: a browser reconnects before the server notices that
the old socket is dead; the old handler's Detach then clears the new socket, and
the connected browser gets nothing more. `UndisturbedIsServed` and
`UndisturbedReplay` show that the stale Detach is the only way to lose an
attached session, and one of two ways for a resumed frame to be buffered and
replayed in front of events. The other needs four sockets: a handler that is
slow to call SendResumed, while a later socket attaches and goes, finds nobody
attached and buffers its frame; the next resume flushes it with the events behind
it (`belated` in MCSessionSocket).

Other sentences of the comments that the models violate are definitions of the
modules and have no run of their own; to see a counterexample, check them
with the module's cfg:

| Definition | What happens |
|---|---|
| `SessionSocket!WindowHonoured` | detach, resume, detach: the first timer is still running and expires the session early |
| `IrcLifecycle!IrcLoopExits` | closing while ircReadLoop waits to hand over a line leaves the channel open, and ircLoop waits for ever |
| `IrcLifecycle!CloseIsIdempotent` | two callers of Close: close of a closed channel |
| `Registry!LimitHonoured` | two handlers pass the limit check before either registers |
| `KeepAlive!BrowserNeverKillsLink` | a stalled browser keeps ircLoop from handling PONG: a live IRC connection is closed |

`NoFalseAlarm` shows that there is one more way for a live connection to be
closed: pingLoop reads the clock after it has written its PING
(`session.go:1046-1048`), and a PONG handled in between looks older than the PING.
Resume may return a session whose timer has already decided to expire it
(`ExpireClose` and `ExpireRemove` after `Attach`), and SendIRC accepts lines after
Close.

The preconditions of the browser's properties are also facts about the code,
each found as a counterexample to the property without it:

- a reconnect timer, or an onclose, that outlives the session the user left or
  that ended connects again behind the form (`app.js:2532`; `over`);
- frames of a session that arrive before the log of a reloaded page is there are
  filed under no server, or are undone by the continuation of `resumed` (`early`);
- `/join` with a key makes an open tab that stays when the server refuses
  (`app.js:2222`; `refused`);
- rows may be out of order when a caller of getDB overtakes one that waits for the
  database (`overtaken`), or when old messages are played back to a channel that
  does not show them (`late`);
- a reload loses a clearing or trimming that has not run (`mishaps`);
- `clearLocalData` removes the stored limit of the log and leaves `logMax`
  (`app.js:619`): the next load takes the default (`app.js:223`), and the rows above
  it stay, since rows are deleted by what the cache has too many (`mishaps`,
  "lowered"). The proof of `Bounded` failed for this; TLC had not found it while the
  run's default was the largest limit;
- auto-away does not survive a reload, after which the user stays away (`orphan`),
  and a reloaded page does not know that the user is away (`blind`).

## 5. Fairness

Goroutines run: weak fairness for their steps. `sync.Mutex` serves a starving
waiter, so steps that take `wsMu` are strongly fair, as are writes to a peer
that drains its connection again and again, and the cases of a select, which Go
picks at random. A stalled TCP connection ends one day, up or down. Timers
fire and tickers tick. Nothing obliges a browser to connect, drop or quit, nor
an IRC server to send; `EventuallyReclaimed` and `ServerDrains` are conditional
on browsers having left. `LinesGetOut` assumes a link that is up again and
again; `LinkDies` in KeepAlive and `LinkDrops` elsewhere are never fair except
that a stuck link is given up by TCP (`client.go` sets keepalives).
`lifecycle` lets a dead link time out because KeepAlive shows that it
does. In `browser_live` timers fire, both ends notice a lost connection, and an
attempt to connect that is possible again and again succeeds one day (strong
fairness of `OnOpen`): the server may refuse or lose any number of sockets
before. Nothing obliges the user.

## 6. Theorems

All hold for every value of the constants that satisfies the module's named
assumption. Those are weak: distinct names, natural numbers, finitely many
sockets in Browser, `Timeout < Interval` (60 s and 90 s in the code). One theorem
has a hypothesis of its own: `ServerInTimeIsKept` is about a server that answers
within the timeout, `Reply < Timeout`.

- `SessionSocketProofs`. `OneWriter`, `NothingStranded` and
  `AttachedHandlerAlive` are proved from `Locking`: who may hold `wsMu`
  and where its holder is, that a flush has its buffer to itself, that the
  attached handler is between Attach and Detach. `InOrder` alone is not
  inductive: a frame appended to an inbox must be newer than all in it, which
  depends on where older events still wait. `Ordering` adds that: what is
  on the sockets is older than what is in the flush, that older than the buffer,
  that older than the frame in ircLoop's hand, for the socket it is bound to.
  `ImplementsFeed` is the refinement of `EventFeed`: the set `waiting` is what the
  buffer, the flush and ircLoop hold, and each action is a step of the feed or a
  stutter. That the event shown is the oldest that waits
  is `Ordering`; that it is in one place only is `Accounted`
  (`EveryEventAccounted`). `LatestHasTheSession` and `ResumedIsTheEnd` are about
  the history of MCSessionSocket: who attached last is attached, or has not yet
  come to speak, until a Detach of somebody else. A proof attempt of the second
  failed, and TLC found the reason with four sockets: see section 4, `belated`.
- `LifecycleProofs`, about `IrcLifecycle`. `NoConnectionLeaked`, `StartOnce` and
  `DisconnectedIsLast` from `IInv`: before the goroutines run the session has one
  handler, the one that created it (`Alone`); nobody is in Close who cannot have come to
  it, so the session stays open while its creator connects (`NotClosing`); once
  they run there is a connection, and nobody dials (`Started`); every line
  scanned is handled, in ircLoop, in the channel or in the reader's hands,
  unless the reader gave up, and then the channel is never closed (`Lines`).
- `BrowserProofs`. `NotStranded` needs that a page without the form has somewhere
  to go (`Aimed`: parameters, a session, or the disconnect button's timer under
  way), since otherwise a reconnect timer or an onclose may end in nothing, and
  that the frames under way are ones `handle` knows, `connected` naming a session.
  `OneSocket` and `ForItsSession` need `Sound`: a socket that may be of use has
  an onclose, and a session is not given up while nothing pursues it (`Sane`);
  while no session has left anything behind, what is hooked is the socket in use
  and excludes a timer (`Lone`), the form is shown when nothing will reconnect
  (`FormLast`), a socket being opened and the queue are for the page's session
  (`Dialing`, `Queued`), and what may be under way on a socket depends on whether
  its first frame was connect or resume (`Talk`). Session names are assumed not to
  be strings that the module uses as handler states.
- `ChannelsProofs`. `ActiveIsOpen`: every function of `app.js` that the module
  models takes a good page to a good one, whatever frame or request it is given.
  `TabsMatch` and `NickLists` say something only of a page at rest, when every
  frame and request has done its work, so neither is inductive; the invariant has
  to say it of all the states between. For each channel it claims views of the
  channel (in it or not, and with whom), one before each frame under way and one
  after the last, such that each frame leads from a view to the next (`Leads`,
  `Path`) and the last is what the server has (`Truth`). The page shows the first
  one, or what is under way will make it so (`Shows`): a tab that is missing comes
  with the log being loaded, names that are wrong have been asked for, a tab too
  many waits for its join, was refused, or belongs to a session that has been
  replaced and will be joined again. A step of the server adds a frame and a view,
  `handle` takes the first of both, and without frames the first view is the last.
  `Announced` keeps the names behind the user's own join and behind `resumed`.
  `Sound` adds the types, that `connected` is the first frame of its connection,
  that nothing waits to be sent while there is a link, and that a tab that is not
  there has no names. TLC checked it on the bounds of the run before it was proved.
- `AutoAwayProofs`. All three invariants from `Inv`. What counts is the last line
  that waits, in the page or on its way (`Outcome`): it is auto-away's, and the
  page knows it, or the user's (`Intended`). The last answer on its way says what
  the server has, and without one the page knows it (`Shown`).
- `SendQueueProofs`. `InSequence` is inductive with the types. `RateBound` needs
  the bucket: the lines written since line i, plus the tokens and the waiting tick,
  never exceed burst + 1 + the ticks since; ages do not increase along the output.
- `LifecycleProofs`, about `Registry`. `NoOrphan` needs that the attached connection
  reads for its session, so that a timer that gives up leaves a reader behind;
  `RemovedIsClosed` that a timer about to remove has closed.
- `KeepAliveProofs`. `DetectionBound` from `Waits`: how long it has been
  quiet by what pingLoop waits for (the first tick, the interval or an answer).
  `NoFalseAlarm` from `OnItsWay`: as long as a PING is unanswered its PONG is on
  its way, and has not been for longer than pingLoop has waited; a PONG that
  overtakes the clock and a stall are the two exceptions, which history remembers.

- `ChatLogProofs`. All look at `Queue`: the transactions under way, then the
  callers of getDB that wait, which is the order in which they will run unless one
  is overtaken; each step adds at its end, takes its first, or turns one of its
  callers into a transaction (`Pushed`, `RunQueue`, `Swapped`, `Skipped`).
  `InOrder` from `Ordering`: the rows and the messages in the queue rise
  (`Rising`), and while no message came during a load the newest of them ends the cache
  and is on the screen (`Tops`), so that playback cannot log an older one.
  `Forgotten` from `Forgetting`: on a device that is not trusted all is clean, or
  a clearing is on its way with no message behind it (`Clean`). `Bounded` from
  `Counting`: it gives the number of rows after each element of the queue
  (`Chained`), which stays within the limit and the slips unless something is
  still to be cut, and in the end is at most what a loaded cache holds and the
  slips (`Coming`); a preload that is under way will find no fewer than remain in
  the end without the slips (`Reading`). `Replayed` from `Keeping`, which gives
  the rows themselves (`Told`): what will be there in the end is what a loaded cache
  holds, a channel made with its log shows it (`Result`), and the one preload under way reads
  just that, or all is going to be cleared (`Reads`). A reload makes what is in the
  database the end of it, whatever was under way, so that `Bounded` is needed to
  know that the cache will take all of it. TLC checked both on the bounds of the run
  before they were proved.

Model-checked only: liveness (with ENABLED it is beyond the provers).
`AttachedHandlerAlive` and the type invariants of IrcLifecycle, SendQueue,
Registry, KeepAlive and Channels have no run: the first is proved, and so are the
types of SendQueue, Registry, KeepAlive and Channels.

## 7. Plan

1. `Browser` composed with `SessionSocket`, so that the browser's own reconnects
   decide when handlers overlap.
2. `Registration`: CAP/SASL/001/433 against a server that answers as IRCv3
   allows; CAP END is sent in the end, caps are those acknowledged.
3. `SessionState`: nick, batches and meta against the server's truth, with
   Resume and SendResumed reading them; `ListCache` with two writers.
4. `IrcLine` and `Policy`: the pure functions against reference definitions.

Not to be modelled: presentation, formatting and completion in `app.js`,
redaction, flags, static files, logging and packaging: they keep no state that
another part relies on.
