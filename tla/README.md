# Verification of drover-cloud

drover-cloud is the server side of a remote terminal: agents on a user's PCs
mirror their terminal sessions to Firestore, a relay joins an agent and a
browser over WebSockets, and an MCP server lets an assistant read sessions and
send commands to a PC. This directory holds TLA+ models of the parts of that
code whose correctness depends on the order of things, TLC configurations that
check them on small instances, and TLAPS proofs for every size.

## Inventory

| Component | State | Operations | What is hard | What makes it correct |
|---|---|---|---|---|
| Relay (`relay/relay.go`) | `sessions` map, two slots and a `change` channel per session, one goroutine and one timer per connection | `serve`, `writePeer`, `loneTimer` | the lock is released around every Read, Write and Close; a reconnect replaces a connection while its reader still runs | no byte lost, repeated or sent to another session; no reader or session left behind; a death reaches the other side |
| Remote commands (`state/commands.go`, `web/slave.go`, `mcp/tools_input.go`) | documents `commands/{pc}/q/{id}` with a status, listeners, handlers that hold a request open | push, wait, claim, deliver, acknowledge | competing claimants, lost responses, silent listeners, one-place channel | at most one execution; nothing pending is forgotten; the submitter hears what the PC reported |
| Resident listeners (`state/watch.go`) | one subscription with a lifetime and a back-off | `keepSubscribed` | a stream that dies without an error | every subscription is renewed |
| Session mirror (`state/state.go`, `state/pushcache.go`) | session documents, per-process hash cache, version counter | push, delete, list | the cache is stale when somebody else changes a document; version is read and written without a transaction; deletions by the owner | what is stored becomes what was pushed last; a session that ended disappears; version follows content; a mirrored PC is listed |
| Wake channel (`state/state.go`, `web/slave.go`) | `wake/{pc}`, the last value only | `WriteWake`, long-poll with `since` | wake-ups collapse | a wake-up after `since` is not slept through |
| Pairing and enrolment (`state/state.go`, `webauth`, `web/web.go`) | one-time codes, enrolled PCs, slave bindings | create, consume, enrol | read-then-delete consumption, two devices with one code | a code enrols one device |
| Grants and revocation (`state/state.go`, `state/slave.go`, `web/slave.go`) | grants with an expiry, revocation marks | grant, check, revoke, delete | checked at connect time only, look-ups that fail open | a revoked PC gets no new connection |
| OAuth server (`oauth/*`, `state/oauth.go`) | clients, codes, access and refresh tokens in families | register, authorize, exchange, rotate, revoke | concurrent exchange, lost responses, revocation during a rotation | a code is exchanged once; reuse ends the family |
| MCP server (`mcp/*`) | token buckets | tools, rate limit | refill arithmetic | the long-run rate is bounded |
| Glasses (`glasses/*`) | mailboxes of answers and of questions with expiries | put, pull, ack; register, answer, take | overwrite between pull and ack, expiries that race with updates, the limits of a pull | an answer goes to the box where it is looked for, stays as long as promised and is fetched before it is deleted |
| Webhooks and push (`web/webhookdispatch.go`, `webhook`, `push`) | settings, last seen status | transition test, send | the old status is read before the push, the push may be skipped | one notification per transition |
| Self-update (`selfupdate/*`) | the binary on disk and its backup | look up, download, verify, probe, replace | a crash between two renames, a release published in between | there is always a runnable binary |
| Relay client (`relayclient`) | two copy loops and a ticker | `idlePump` | one side ends first | both sides end |
| Browser terminal: output (`web/static/term.js`, `sync.js`) | two filters with what they hold back, what is known of the history | message, connect, close | markers split over messages, lines cut anywhere, one filter outlives the line | the terminal gets the text of the stream, frames whole, the history once |
| Browser terminal: line (`web/static/term.js`) | socket, backoff, timers, queue of unsent input | open, close, input, image, document change, watch tick | lines close by design, events of old sockets, timers that race with the backoff | input in order, handshake first, a watched session gets its line back |
| Device list (`web/static/devices.js`) | none between two loads | load, save, subscribe | - | not modelled |
| Console pages, start-up (`web/ui.go`, `cmd/relay`) | none of their own | HTML, routing, wiring | - | not modelled |

Interactions: the relay's admission asks the grant store; a viewer's request
writes a wake-up that makes the agent dial the relay; commands travel through
Firestore to an agent with credentials (a *master*) by listener, and to one
without (a *slave*) by long-poll through the web server; deleting a PC revokes
it, which the long-polls and the relay's admission look up.

The list of hazards, each at its line, is in `PROJECT.json`.

## Modules

| Module | Role |
|---|---|
| `Relay` | sessions, takeovers, forwarding and timers of the relay |
| `MCRelay` | its finite instances |
| `RelayProofs` | invariants of sessions and connections |
| `RelayStreamProofs` | invariants of the forwarded streams, on top of `RelayProofs` |
| `Job` | abstract specification: what the command channel promises |
| `Commands` | the command queue, its listeners, long-polls and handlers |
| `MCCommands` | its finite instances |
| `CommandsProofs` | invariants of the queue, and that it implements `Job` |
| `Mirror` | the session mirror: pushes through per-process caches, deletions, webhooks |
| `MCMirror` | its finite instances |
| `MirrorProofs` | invariants of cache, version, parent and webhooks |
| `Glasses` | the glasses' mailboxes: questions, answers, replies, the bridge |
| `MCGlasses` | its finite instances |
| `GlassesProofs` | invariants of where answers go and how long they stay |
| `Pipe` | abstract specification: what filters owe to a byte stream |
| `Sync` | the frame filter of the browser (`sync.js`) |
| `Wire` | extends `Sync` by the META filter, the line and the terminal |
| `MCWire` | markers, producers and their streams |
| `WireProofs` | that the text of a connection reaches the terminal, all of it, nothing else, and frames whole; that `Wire` implements `Pipe` |
| `Viewer` | the data line as the page drives it: when it is opened, what is sent on it |
| `Scroll` | the scroll position as a pure computation |
| `MCViewer` | the instance of `Viewer`; `Scroll` evaluated on small geometries |
| `ViewerProofs` | invariants of input, room and handshake; facts about `Scroll` |
| `DataLemmas` | least and greatest numbers, induction with sets, functions defined step by step: shared by the proofs about queues and streams |

Definitions marked *Mutant of X* are deliberately wrong variants of X. They are
not part of any specification: each shows that a property would notice that
mistake.

### Relay

Each connection runs `Server.serve`. The program counter `pc` has one value per
place where the goroutine stands between two critical sections of `Server.mu`;
every critical section is one action (`Accept`, `WritePeer`, `Exit`,
`LoneCheck`), every Read, Write, Close and select outside of it another. A `sess`
pointer is the name of the connection that allocated it, so a key that is
deleted and created again maps to a new object and goroutines of the old one
keep the old name. `change` channels become `signalled`: closing the channel
marks the readers that wait on it. `why` records what ended a read loop and is
used by properties only. Payload is a chunk number per sender; `out` is what was
written to each connection.

Abstracted: WebSocket framing, keep-alive pings, TLS, the admission checks of
`ServeHTTP`. A write to a lost but not closed remote may succeed or fail. The
two 2-minute limits may expire at any time after they are armed, which includes
every real timing. One name in `Conns` stands for one accepted connection;
reconnecting is a new name.

### Commands

One PC. A database call is one step. A listener is modelled by what it has yet
to report: all pending documents on subscription, later each new one. A claim
transaction succeeds, finds the document taken, or fails before or after its
commit took effect. The 20 s, 25 s and 5-minute limits may expire at any time.
The number of faults (failed calls, lost clients, silent listeners, restarts) is
bounded by `MaxFaults` in the runs and arbitrary in the proofs. `Watchers` and
`Polls` in one instance stand for a PC that moved between master and slave and
for duplicate agents: the claim is written to be safe against both.

External, modelled from how the code uses them: Firestore's listeners and
transactions, the program on the PC that runs the commands (it starts what it is
handed and acknowledges only that), and clients that go away.

`Job` has the four variables a user sees (`status`, `ran`, `result`, `call`);
`Commands` implements it with the identity on them.

### Mirror

One PC served by the web server. A request (`slavePush` or `slaveDelete`) stands
at one value of `rpc` per database call or cache access of `slavePush`,
`pushSessions` and `DeleteSessionFor`: the old statuses (`sessionStatusByKey`),
then for each session the memory (`Lookup`), the document (`Get`), the write
(`Set`) and the memory again (`Remember`, or `Forget` after an error), then the
parent (`Tail`) and the webhooks (`Dispatch`). The owner's `DeletePCByID` runs
beside them in four kinds of steps. `cache` and `fresh` are one process's
`pushCache`: what it remembers, and which entries are younger than
`PushVerifyEvery`; `Age` may happen at any time, which includes every clock.

Abstracted: a session's content is its agent status, `working` or `done` (the
latter for each of the three statuses in `NotifyStates`), because the hash only
tells contents apart and the webhooks only look at the status. The parent
`pcs/{pc}` is absent, `bare` (written without `agent_kind`) or `drover`.
Sessions of one push are handled in any order. A webhook is sent when
`Dispatch` decides so; settings that cannot be read, or sending that fails, is
one fault. `note` records per session what was told since its document last
changed, `mode` and `last` whether one process has served the PC one activity at
a time so far; properties alone read them.

External: the program on the PC. It pushes the sessions that are live, deletes
those that ended, and after a restart seeds the set it has to delete from the
mirror (`OwnSessionKeys`). A PC the owner has deleted goes on pushing, as it
does when it is enrolled again; that its requests are refused in between is part
of revocation. An agent with credentials calls `pushSessions` directly: its path
is the one modelled without the first and the last step.

### Glasses

One registered PC and well-formed requests. Two Firestore collections are two
groups of functions over request ids: `askExp`, `askText` and `delivered` for
`glasses_asks`, `boxExp`, `boxText` and `boxTime` for `glasses_answers`; an expiry
of 0 is no document. A handler that makes two database calls stands between them:
`handleAsk` between registration and webhook (`send`), `PutAnswer` between its
look at the question and its write (`apc`), `TakeAskReply` between read and
update (`tpc`). The bridge acknowledges what it pulled, one document after the
other (`acking`). `now` counts an abstract unit of time: each call reads the clock
in its step, any time may pass between two calls. Firestore removes an expired
document at some later time (`SweepAsk`, `SweepAnswer`).

A call that fails has taken effect or not; `Fault` bounds how many do.
`lapsed`, `promise`, `first`, `passed`, `crossed` and `rewritten` are read by
properties only: which questions have run out, what `PutAnswer` reported, when a
fetch took the answer, how many pulls have passed a waiting answer over, and two
races in which the code promises less, an answer stored while
a fetch stands between read and update, and one stored while the bridge holds the
previous answer of that id.

External: the clock, Firestore's TTL policy, the routine that answers (only
questions it was given, as often as it likes), and the bridge.

### Sync, Wire and Pipe

A message of the data line goes through two filters. The META filter (one for the
page) takes out the control sequences of wire v2, drops a history the page already
has and tells `onMeta`; the frame filter (one per connection) holds a frame back
until it is whole, so that the terminal draws it at once. One action is one turn
of a filter's loop: `rest` and `mrest` are what lies behind the loop's position.
JavaScript handles a message to its end, so a filter goes on only when the one
behind it is idle. The line may close after any message; `connect` makes a new
frame filter and calls `feed.reset`, exactly as the code does.

`Pipe` says what a stream is owed: the receiver gets a growing prefix of what was
handed in, and a new connection starts an empty stream. `Wire` implements it with
`sent` (what the META filter passed on) and `out` (what the frame filter emitted).

Abstracted: a marker is two or three symbols instead of seven or eight bytes. All
begin with the same symbol and the two of a frame with the same two, so that every
way a marker can be split, or be mistaken for another's beginning, is there. A
payload is one symbol. `cols`, `rows` and the font are layout. `had`, `torn`, `received` and `cuts` are read by properties only.

The terminal (xterm, `src/web/static/xterm.js`) queues what `term.write` gives it
and parses it in a timer of its own, while `term.reset()` takes effect at once and
leaves the queue alone. `Written` is all it was given and shows or is still going to
show; the last `pending` bytes of it are not yet parsed, and `queued` says where the
waiting writes begin. `Write` queues what the frame filter emits (or has it parsed at
once: xterm does that when nothing is queued and the user has just typed), `Parse` is
a turn of the timer, which may come at any time and parse any number of the queued
writes, and `onMeta` resets: what was parsed goes, what was not (`Unparsed`) becomes
`over`, which is drawn after the reset.

External: the producer. It sends a history, an empty one or none, or is of the
kind that knows nothing of wire v2; asked for no history it may send one all the
same, because old producers do not know the request.

### Viewer and Scroll

`Viewer` is the other half of the page: `ws` is the state of the current socket,
`stale` counts sockets that were given up while closing and whose `onclose` is
still to come. `since` and `attempts` are what `cmReconnectGate` looks at, `retry`
holds the running 1.1 s timers, `watch` the interval. The page opens its line when
input, a document change, the watch tick, the retry timer or a tab switch asks and
the gate agrees. An image is read between `pickImage` and `sendImageBlob`.

Abstracted: time is counted in ticks, and a timer fires at its time or later;
`ViewerAssumption` keeps the relations that matter (the retry timer runs longer
than the first backoff and shorter than the second, an image fits into the empty
queue). `attempts` stops where the backoff has reached its cap. An input is its
number and its size.

`Scroll` has no state: `cmTrackScroll` and `cmLastContentRow` of the legacy screen,
and the two maps between lines and positions that wire v2 uses, with their rounding.

## Runs

| Run | Instance | Shows |
|---|---|---|
| `relay` | one source, two viewers of one key, two chunks, the source's timers | `TypeOK`, `NoZombieSession`, `NoOrphanReader`, `CurrentClosedOnlyByLoneTimer`, `SameSessionOnly`, `NothingLost`, `InOrderOnce`, `ClosedReaderReturns`, `LoneConnectionResolved`, `DeathClosesPeer` |
| `relay_fold` | the same, one chunk, all timers | **violated**: `OnlyNaturalDeathEndsSession` |
| `commands` | two commands, an agent and a poll, one fault | `TypeOK`, `ClaimedNotDropped`, `NoLostWakeup`, `PendingIsClaimed`, `RevocationDrains`, and that `Commands` implements `Job` |
| `commands_lost` | one command, one poll, one fault | **violated**: `ClaimMeansDelivery` |
| `mirror_sync` | one session, two instances, three changes, one fault, one request at a time | `TypeOK`, `CacheTruthful`, `NoDuplicateWebhookAlone`, `TransitionNotified`, `MirroredIsListed`, `VersionFollowsContent`, `MirrorConverges` |
| `mirror_webhook` | one session, two instances, three changes, one request at a time, no faults | **violated**: `NoDuplicateWebhook` |
| `glasses_mail` | three questions (one through the relay), three answers, one fault, pulls cut to one | `TypeOK`, `RelayAnswerStaysOffBridge`, `AnswerKept`, `PassedOverForOthers`, `BridgeLosesNothing`, `RelayReplyArrives` |
| `glasses_limit` | six questions, no faults, pulls that look at five documents | **violated**: `FreshIsFetched` |
| `wire` | three connections, four kinds of stream, cut into messages anywhere | `TypeOK`, `ExactlyTheText`, `ChunkingInvisible`, `FrameInOneWrite`, `HistoryOnceOnTop`, and that `Wire` implements `Pipe` |
| `wire_history` | three connections, such streams with a frame more | **violated**: `NoHistAfterHistory` |
| `viewer` | two inputs, a queue of four, backoffs of 2, 4 and 5 ticks, a retry timer of 3 | `TypeOK`, `InputInOrder`, `HelloFirst`, `WatchedReconnects` |
| `viewer_retry` | the same | **violated**: `UnsentInputRetried` |

Bounds. Three connections suffice for what the relay can get wrong: a reader, a
peer and one that replaces a peer, over two generations of a session object
(the instance reaches deletion and re-creation of the key). Two chunks allow a
hole, a duplicate and a reordering. Larger instances (two sources and two
viewers, 8 million states) were checked without error. Two commands let a query
return several documents, of which one claim fails; a poll and an agent compete for each;
one fault may hit any call. Instances with two polls, and with an agent and two
polls (3.6 million states), were checked as well; the theorems hold for any number
of polls and agents. Symmetry (over connections of one role) is used in
`relay_fold` only, which checks an invariant.
Mirror: sessions do not influence each other except through the set of changed
ones, so one session shows what the cache can get wrong; three changes let it
start, work and be done (or be done twice); two instances give every mixture of
memories; the fault is a failed call or a restart. Two sessions on one instance
of the program (1.3 million states) were checked as well. One request is under
way at a time in `mirror_sync`, and what it shows is said of that case only
(`Alone`, `~Overlap`): nothing in the repository orders a push and a deletion that
are served at once, the program on the PC does. If they overlap (a client that gave up
on a push and went on is enough), `MirrorConverges` fails: a push that is being served
when its session is deleted writes the document again after the deletion, remembers it,
and the program on the PC, which has taken the session out of its set, does not delete
it again. `DeleteSessionFor` leaves no mark that would prevent it. TLC shows this with
two requests in one instance and no fault; in the same instance a session that goes on
living is still shown in the end (645,000 states).
Glasses: three ids with a limit of two documents and one item let a pull miss a
document, cut one and leave one; three answers replace each other; a lifetime of
two and a grace of one in three units of time let a question run out before,
between and after the calls. One fetch at a time is under way in `glasses_mail`;
two fetches, two answers and two registrations of a question (4.4 million states)
were checked for safety as well, and the proofs are for any number.
In `glasses_mail` two pulls can pass the same answer over.
Wire: three connections are the first, one that asks with a history cut short, and
one after a history was received. The streams have two lines of a history, a history
without lines, none, text that begins like a marker, a frame after a frame, and control
sequences next to both; messages end at any symbol, so at every place where a marker can
be split. Every write may be parsed at once, later, or after the terminal was reset. A
frame of an earlier connection, or one above the announcement, that is still queued when
`onMeta` resets the terminal is drawn above the history: the reset is immediate and does
not touch the queue of xterm. `HistoryOnceOnTop` exempts what the reset finds unparsed,
and fails without the exemption (15 steps, two connections). The effect is one frame too
many in the scrollback, likely only in a tab whose timers are throttled.
Viewer: two inputs are an order; one of them may be an
image, an image and a key fill the queue of four, and a second image is refused;
three backoffs reach the cap; the retry timer of 3 lies between the first and the
second backoff as 1.1 s does. `MaxStale` allows one socket that was given up.
Deadlock is checked in `commands`, `mirror_sync`, `mirror_webhook`, `viewer`,
`viewer_retry` and `relay_fold`. The others may stop: in `relay` every connection has come and gone,
in `wire` the page has used its connections.

### Fairness

Relay: the goroutine and the timer of each connection keep running (weak
fairness of `Serve(c)` and `LoneTimer(c)`): the Go scheduler and runtime timers
give that, and a Write returns eventually because a closed or lost connection
fails it. The remote ends owe nothing: they need not send, read or reconnect.

Commands: loops and handlers keep running. `ClaimChange` has strong fairness: a
subscription lives five minutes and then is renewed, which disables and enables
the step again and again, and five minutes are time enough to try what was
reported. Nothing is assumed of the polls' clients, of the PC's acknowledgement
or of the submitter.

Mirror: handlers run to their end, entries grow old and the owner's deletion goes
on (weak fairness). The producer on the PC ticks for ever and retries, so that
pushes, and the deletions it still owes, have strong fairness: a request under
way disables them and its end enables them again. Changes, faults, restarts and
the choice of the instance owe nothing.

Glasses: the glasses poll again and again and the handler of a fetch runs to its end
(weak fairness). Nobody has to ask, to answer, to let time pass, to pull or to remove
what has expired; a relayed answer that runs out first is not promised to arrive. Of
the bridge nothing is promised in time, since Firestore removes expired documents
whenever it likes and `glasses_limit` shows what they can do meanwhile:
`PassedOverForOthers` counts pulls instead.

Viewer: time passes, due timers fire and old sockets end (weak fairness). Nobody
has to type, to look or to let a line come up: `WatchedReconnects` promises an
attempt, not its success, and holds because the watch tick comes back and the
backoff ends. `Wire` states safety only and assumes no fairness.

## Findings

* `relay_fold`: `writePeer` picks the peer under the lock and writes after it.
  If a viewer takes the slot over in between, the write to the old viewer fails
  and the source's reader, which is still current, ends the session: the new
  viewer is closed too. The comment on `serve` says that a takeover does not
  spread to the other side. Viewers reconnect by themselves, so the effect is one
  more reconnect.
* `commands_lost`: a claim whose response is lost, or whose commit took effect
  although its call returned an error, leaves the command `running` for ever.
  The comment on `WatchPendingCommands` says that claim and delivery are
  atomically the same. The submitter sees a time-out, so the effect is a command
  that is silently not run; at most once still holds.
* `mirror_webhook`: an instance skips a session whose hash it remembers, but the
  old status of a webhook is read from Firestore. After done through instance 1,
  working through instance 2 and done through instance 1 again, the document
  stays `working`, and each push through instance 1 finds a change from working
  to done and sends the webhook again, until the memory is ten minutes old. The
  comment on `dispatchWebhooksForTransitions` says that the same state is not
  sent twice; the service is deployed with up to four instances. The mirror
  shows the old status meanwhile (`MirrorConverges`: it is delayed, not lost).
* `glasses_limit`: a pull looks at the first `fetchLimit` documents of the PC, by
  document id and expired or not. Enough expired ones that are not yet removed
  hide a fresh answer, although the comment on `fetchLimit` says that the larger
  limit prevents this. Once they are removed the answer is found, unless it has
  expired itself. (The comment on `query` also says that answers come newest
  first; they are sorted oldest first.)
* `wire_history`: the page notes that it has the history when the history is
  announced, and from then on asks for none. If the line ends while the history is
  on its way, the rest of it never comes. The comments say that the page stops
  asking after it received a history with its body. The frame that follows is
  drawn all the same; what is missing is the scrollback until the page is loaded
  again.
* `viewer_retry`: with unsent input the page tries again once, 1.1 s after the line
  closed. After a failed attempt the gate is closed for 2 s or more, the timer
  finds it closed, and nothing starts another one. The comment says that the page
  retries by itself after the backoff so that input is not lost. The input stays
  queued (`InputInOrder`) and goes out when anything else asks for the line.

## Proofs

Assumptions: `RelayAssumption` (the two roles are disjoint, `None` is no
connection, each connection has a key and a number of chunks),
`CommandsAssumption` (`Nil` is no command, `MaxFaults` is a number),
`MirrorAssumption` (`Nil` is no session, process or status, the two bounds are
numbers), `GlassesAssumption` (ids are numbers, lifetimes are positive, bounds
are numbers), `SyncAssumption` and `WireAssumption` (markers are sequences that
are not empty, producers send bytes), `FrameMarkers` and `ControlMarkers` (the two
markers of a frame have one length; of two markers that belong together none begins
inside the other, and those of a control sequence differ somewhere: each of the four
in the code has one ESC, in front), `Histories` (a producer ends a history only after
it has begun one on the same connection, which the page relies on, because its note
of what kind of history is under way outlives the line), `LinesInHistories` (a producer
finishes a history before it announces or leaves out another on the same connection; a
line of a history stands once in its stream, between the announcement of a history with
a body and its end, with no frame above it, and is no part of a marker: the comment on
the META filter puts the control sequences and the history at the head of the stream,
and the producer is not in this repository) and `ViewerAssumption` (above). Nothing is
assumed of the number of connections, keys, chunks, commands, agents, polls,
sessions, processes, requests, questions, answers, fetches or faults.

**Relay.** `NoZombieSession` alone is not inductive. The invariant adds where
session objects come from (an object in the map or in `se` was allocated by a
connection that has registered), that a slot of an object is held by a
connection of that object and role, and that a displaced reader is either closed
or the target of a goroutine about to close it. From it follow
`NoZombieSession`, `NoOrphanReader`, `CurrentClosedOnlyByLoneTimer` and
`SameSessionOnly`. For streams the invariant relates `out` to `nread`: every
entry is from a reader that has read at least that far, numbers of one reader
are distinct over all connections and increase within one, and all but the held
chunk are there. From it follow `InOrderOnce` and `NothingLost`.

**Commands.** The invariant of the claims: a command somebody holds has not run
and is `running` (`HeldFresh`), is held by one claimant only (`HeldOnce`), by a
poll only between its claims and its reply (`KeptInClaim`), and `status`, `ran`,
`result` and `call` agree on the stage reached (`Stages`). It gives
`AtMostOnce`, and every step of `Commands` is then a step of `Job` or a stutter
(`ImplementsJob`). `ClaimedNotDropped` and `NoLostWakeup` need in addition that
a lost client counts as a fault and that a live subscription has reported, or
will report, every pending command.

**Mirror.** Two layers. `SoloInv` holds whatever fails, while one process serves
the PC one activity at a time: at most one request is under way and only its
process remembers anything (`Solo`), what is about to be remembered is stored
(`KeptIsStored`), of a session that works nothing has been told
(`WorkingIsQuiet`), and a transition that a request read is not yet written or is
due (`TransitionPending`). `TransitionPending` needs `CacheTruthful`: a session may
only be skipped because its document is already what is pushed. From it follow
`CacheTruthful` and `NoDuplicateWebhookAlone`. `SoundInv` adds, as long as no call
has failed, that the version computed is the next one, that old statuses of
unwritten sessions are current, that a change that is due has a request that will
tell it, that documents without a listed parent have a request that will write it,
and that the owner's list covers every document; from it follow
`TransitionNotified`, `MirroredIsListed` and `VersionFollowsContent`. The proofs
are for any number of requests, the runs for one.

**Glasses.** `Routed`: a question that has expired is noted (`ExpiredLapsed`), a
relayed question is known to anybody only after its registration
(`SentRegistered`), so that an answer bound for the box is to a question that has
run out (`PutUnregistered`); it gives `RelayAnswerStaysOffBridge`. `Kept`: `Due(r)`
is the expiry that `AnswerKept` asks for; a fetch between read and update holds
the present answer and an expiry that is not before `Due` (`ReadCurrent`), which
is what its update writes. `AckedSeen`: what the bridge may delete it has
fetched; it gives `BridgeLosesNothing`.

**Wire.** Four layers.

*Nothing lost.* What the frame filter was fed is what it emitted, followed by what it
has collected, carried and not yet read (`Lossless`). Each turn of the loop moves a
part from one of these places to the one before it, so `out` is a prefix of `sent`
and only grows, and every step of `Wire` is a step of `Pipe` or a stutter
(`ImplementsPipe`). This uses `indexOf` and `tailPrefix` by their bounds only.

*Frames whole.* `Frames` says where the filter stands in `sent`. What is emitted is
sealed: every marker that begins, or may begin, up to there is closed up to there, and
so at every earlier end of an emit. Inside a frame the frame begins right behind what is
emitted and no closing marker begins in what is collected; between two calls what is
carried is shorter than a marker and may begin one. `TailHolds` supplies the last
part: `tailPrefix` holds back the longest tail that may begin a marker, and whatever may
begin one before that tail is there as a whole. From `Frames` follow
`ChunkingInvisible` and `FrameInOneWrite`. `FrameMarkers` is needed because a marker that
began inside the other one would be found at two places.

*Only the text.* `ExactlyTheText` compares `sent` with a definition on the whole of what
arrived (`Shown`: outside control sequences, and not of a history after one with a
body). The invariant `TextInv` says it of the first `n` bytes, those the META filter is
done with: what was passed on is what is to be shown of them; either every control
sequence that begins there ends there (`Closed`) or one is open from some place on and
`macc` is its payload so far (`Inside`); and the three marks `inHist`, `histDone` and
`blockHasHist` say what the ends of the control sequences up to `n` say
(`Remembers`). The argument needs that none of this depends on what is still to come:
`KnownLater` and `VisibleLater` show that more data changes nothing up to `n`, which
is why a control sequence counts as begun when its marker is whole and as ended when
its end is. `MarksGo` is the step at the end of a control sequence. Between two
messages what is carried can be neither text nor the beginning of it, so the first `n`
bytes are all there is to show (`GoodIsExact`).

*On top.* `HistoryOnceOnTop` is about all the connections of a page, and not inductive:
a second history would break it, and only the filter's memory and the page's `histGot`,
which are set at different control sequences, keep it away. The invariant `ScreenInv`
says what they have in common on a line that was not cut inside a history: a history the
page takes for received is done or under way (`histGot`); what earlier connections left
has no line unless the filter remembered a history when this connection began (`had`);
and if the first history announced on this connection has a body, nothing is left above
it but what the reset found unparsed, because `onMeta` has reset the terminal or nothing
was painted. What a reset finds unparsed is the end of what was written before the first
history was announced, so it has no line (`NoLineUnparsed`), and so has `over` from then
on; `QueueTypes` says that what waits is a part of what was written. On the other side
`Heard` reads from `TextInv` that the text of a connection is itself on top
(`TopText`, with the places where the picked symbols stand, `PickPlaces`), and has a
line only if there was no history before and the first one announced has a body
(`LineSeen`). A step of the META filter either ends no control sequence (`Same`) or one
(`OneMore`); the second is the step that matters (`EndsScreen`): when the first
announcement of a history with a body comes, none was announced before it on this
connection, so none is done or under way, so `histGot` is false and the reset happens.
The same invariant gives `NoHistUnlessTorn` (`HistoryAskedUntilGot`): the line is not inside a history when it
opens, so what the page takes for received then has been received; the violation that
`wire_history` shows therefore needs a connection that is cut inside a history, and
nothing else causes it. `LinesInHistories` is needed for the text, and because a history left out inside one
that is under way would make the page forget that it has a body.

**Viewer.** `InputInOrder` is inductive with the types of the queue: a step that
sends empties the queue first, and only an open line sends without queueing.
`HandshakeComesFirst` needs in addition that the log of a line that is not open is
empty or begins with the handshake. `RoomGivenBack`, a part of `TypeOK`, sums the queue
with partial sums (`Total`): appending adds one term, emptying gives the room back; the
bound of the queue follows from it. The attempts stay below the place where the backoff reaches its cap,
which is there because `Doubled` grows (`SaturatedType`).

**Scroll.** Pinning shows the whole row of the input in every geometry in which it
fits (`PinShowsInput`); the scroll event a pin causes keeps the page following if
the cursor is at most one row further down by then (`PinKeepsFollowing`), and
`MCViewer` exhibits a geometry in which two rows end it, although the comment on
`cmTrackScroll` says that no guard is needed; settling twice moves nothing
(`SettleIsStable`). With wire v2 a line set on the scroll bar is read back as the
same line if a row is higher than a pixel (`ProxyRoundTrip`), so that the page does
not answer its own scroll events; and the slack in the spacer puts the newest line
exactly at the end of the scroll bar (`NewestLineAtBottom`).

Functions that are defined by recursion (`Pick`, `Total`, `Doubled`) are reasoned about
with `DataLemmas`: `Recursion` shows that the defining equations have a solution,
`UpTo` is induction for a set of numbers, so that no theorem needs an operator as a
parameter.

Only model-checked: the liveness properties, because the prover does not handle
fairness; and the six violated properties, which are refuted by a counterexample. Every
invariant and every action property of a passing run is also the statement of a theorem,
except `PassedOverForOthers`, which counts answers over all ids.

## Not modelled, and the plan

In this order:

1. `OAuth`: codes, rotation, reuse detection and family revocation, with
   concurrent exchanges and lost responses; an abstract family (live or revoked)
   it should implement; theorem: one live refresh token per family while
   requests do not overlap.
2. `Pairing` and `Revocation`: one-time codes, enrolment, slave bindings,
   grants, deletion of a PC; composed with the admission of `Relay`.
3. `Wake`: last value, `since`, long-poll, on the pattern of `Commands`.
4. `SelfUpdate`: look-up, download, verification, probe, renames, with crashes.
5. `IdlePump` and the rate limiters.
6. `Viewer` composed with `Relay`: two pages that displace each other.

Still open in the modules there are: overlapping requests in `Mirror` through two
instances (12 million states) and with faults, an abstract register of a session that
`Mirror` implements while it is served by one instance, a proof of
`PassedOverForOthers`, and the chat lines of the glasses.

Theorems worth proving there: single use where a transaction guards it, that a
runnable binary exists after every crash.

Console pages, configuration, request decoding, message formatting and the
sending of notifications have no state of their own and stay outside.
