------------------------------- MODULE Viewer -------------------------------
(***************************************************************************)
(* The data line of a terminal page as the page drives it                  *)
(* (src/web/static/term.js): when it is opened again, what is sent on it   *)
(* and what becomes of input typed while it is down.  The server closes an *)
(* idle line by design, and the page opens it only when something asks for *)
(* it: input, a change of the session document, the watch tick, the tab    *)
(* coming to the front.                                                    *)
(*                                                                         *)
(* Time is a count of ticks.  A timer fires at or after its time.          *)
(***************************************************************************)
EXTENDS Naturals, Sequences

CONSTANTS
  Base,        \* the first backoff             (1000 ms)
  Cap,         \* the longest                  (30000 ms)
  Retry,       \* the retry timer               (1100 ms)
  WatchTick,   \* the watch interval            (5000 ms)
  Big,         \* size of an image, a key has 1    (8 MB)
  QMax,        \* room for unsent input            (9 MB)
  MaxInputs,   \* bound on the inputs of a run
  MaxStale     \* bound on old sockets still to report their end

ASSUME ViewerAssumption ==
  /\ {Base, Cap, Retry, WatchTick, Big, QMax, MaxInputs, MaxStale} \subseteq Nat
  /\ 0 < Base /\ Base < Retry /\ Retry < 2 * Base /\ Retry < Cap
  /\ 0 < WatchTick
  /\ 1 <= Big /\ Big < QMax

VARIABLES
  ws,             \* readyState of the current socket
  stale,          \* sockets given up while closing, their onclose to come
  attempts,       \* failed attempts in a row, as far as backoff tells them apart
  since,          \* time since lastAttemptAt, as far as a backoff goes
  retry,          \* times left of the retry timers
  watch,          \* time to the next watch tick
  visible,        \* the tab is in front
  sessionActive,  \* the session document says that the session works
  imagePasteOK,   \* ... and whether the PC takes images
  blobs,          \* images being read
  inputQ,         \* input not yet sent
  inputQBytes,    \* its size, as the page counts it
  log,            \* what was sent on the current socket
  accepted,       \* inputs taken, in order
  delivered       \* inputs sent, in order

timers == <<retry, watch>>
page == <<visible, sessionActive, imagePasteOK>>
queue == <<inputQ, inputQBytes, accepted, delivered>>
vars == <<ws, stale, attempts, since, timers, page, blobs, queue, log>>

wsStates == {"connecting", "open", "closing", "closed"}
busy == ws \in {"connecting", "open"}

\* An input is its number and its size.
Input(id, size) == [id |-> id, size |-> size]
Ids(q) == [i \in 1..Len(q) |-> q[i].id]
Frame(id) == [kind |-> "input", id |-> id]

\* The size of the inputs of q together.
Total(q) ==
  LET sum[n \in 0..Len(q)] == IF n = 0 THEN 0 ELSE sum[n - 1] + q[n].size
  IN sum[Len(q)]

Least(a, b) == IF a <= b THEN a ELSE b

\* The first backoff, doubled n times.
Doubled[n \in 0..Cap] == IF n = 0 THEN Base ELSE 2 * Doubled[n - 1]
Backoff(n) == Least(Cap, Doubled[n])

\* From here on more failures make no difference.
Saturated == CHOOSE n \in 0..Cap : Backoff(n) = Cap /\ \A m \in 0..(n - 1) : Backoff(m) < Cap

\* The page opens its line when it is loaded.
Init ==
  /\ ws = "connecting" /\ stale = 0
  /\ attempts = 0 /\ since = 0
  /\ retry = {} /\ watch = WatchTick
  /\ visible \in BOOLEAN /\ sessionActive = FALSE /\ imagePasteOK = "unknown"
  /\ blobs = 0
  /\ inputQ = <<>> /\ inputQBytes = 0 /\ log = <<>>
  /\ accepted = <<>> /\ delivered = <<>>

-----------------------------------------------------------------------------
(* Opening the line *)

cmReconnectGate == ~busy /\ since >= Backoff(attempts)

\* A socket still closing reports its end later and is not listened to.
connect ==
  /\ stale' = IF ws = "closing" THEN stale + 1 ELSE stale
  /\ stale' <= MaxStale
  /\ ws' = "connecting"
  /\ log' = <<>>

requestConnect ==
  IF cmReconnectGate
    THEN /\ attempts' = Least(attempts + 1, Saturated)
         /\ since' = 0
         /\ connect
    ELSE UNCHANGED <<ws, stale, attempts, since, log>>

\* The handshake; that the page may ask for no history in between is in Wire.
HelloV2 == [kind |-> "HELLO_V2", id |-> 0]
Resize == [kind |-> "RESIZE", id |-> 0]
Hello == <<HelloV2, Resize>>

\* Mutant of flushQ: what waited goes out before the handshake.
flushQFirst ==
  /\ log' = [i \in 1..Len(inputQ) |-> Frame(inputQ[i].id)] \o Hello
  /\ delivered' = delivered \o Ids(inputQ)
  /\ inputQ' = <<>>
  /\ inputQBytes' = inputQBytes - Total(inputQ)

\* Mutant of flushQ: what waited goes on waiting.
flushQNothing ==
  /\ log' = Hello
  /\ UNCHANGED <<inputQ, inputQBytes, delivered>>

\* Mutant of flushQ: the room is not given back.
flushQKeepsRoom ==
  /\ log' = Hello \o [i \in 1..Len(inputQ) |-> Frame(inputQ[i].id)]
  /\ delivered' = delivered \o Ids(inputQ)
  /\ inputQ' = <<>>
  /\ UNCHANGED inputQBytes

flushQ ==
  /\ log' = Hello \o [i \in 1..Len(inputQ) |-> Frame(inputQ[i].id)]
  /\ delivered' = delivered \o Ids(inputQ)
  /\ inputQ' = <<>>
  /\ inputQBytes' = inputQBytes - Total(inputQ)

onopen ==
  /\ ws = "connecting"
  /\ ws' = "open"
  /\ attempts' = 0
  /\ flushQ
  /\ UNCHANGED <<stale, since, timers, page, blobs, accepted>>

\* The server closes the line, or the network does.
Closing ==
  /\ ws = "open"
  /\ ws' = "closing"
  /\ UNCHANGED <<stale, attempts, since, timers, page, blobs, queue, log>>

\* What is still to be sent is tried again after a while.
onclose ==
  /\ ws # "closed"
  /\ ws' = "closed"
  /\ retry' = IF inputQ # <<>> THEN retry \cup {Retry} ELSE retry
  /\ UNCHANGED <<stale, attempts, since, watch, page, blobs, queue, log>>

\* Not the current socket: nothing happens.
oncloseStale ==
  /\ stale > 0
  /\ stale' = stale - 1
  /\ UNCHANGED <<ws, attempts, since, timers, page, blobs, queue, log>>

-----------------------------------------------------------------------------
(* Input *)

sendBytes(b) ==
  \/ /\ ws = "open"
     /\ log' = Append(log, Frame(b.id))
     /\ accepted' = Append(accepted, b.id)
     /\ delivered' = Append(delivered, b.id)
     /\ UNCHANGED <<ws, stale, attempts, since, inputQ, inputQBytes>>
  \/ /\ ws # "open"
     /\ inputQBytes + b.size > QMax
     /\ UNCHANGED <<ws, stale, attempts, since, queue, log>>
  \/ /\ ws # "open"
     /\ inputQBytes + b.size <= QMax
     /\ inputQ' = Append(inputQ, b)
     /\ inputQBytes' = inputQBytes + b.size
     /\ accepted' = Append(accepted, b.id)
     /\ requestConnect
     /\ UNCHANGED delivered

next == Len(accepted) + 1

\* A key, the pad, the Esc button.
onData ==
  /\ next <= MaxInputs
  /\ sendBytes(Input(next, 1))
  /\ UNCHANGED <<timers, page, blobs>>

\* An image is picked; its bytes are there later.
pickImage ==
  /\ blobs = 0
  /\ blobs' = 1
  /\ UNCHANGED <<ws, stale, attempts, since, timers, page, queue, log>>

sendImageBlob ==
  /\ blobs = 1 /\ next <= MaxInputs
  /\ blobs' = 0
  /\ IF imagePasteOK = "no"
       THEN UNCHANGED <<ws, stale, attempts, since, queue, log>>
       ELSE sendBytes(Input(next, Big))
  /\ UNCHANGED <<timers, page>>

-----------------------------------------------------------------------------
(* What else asks for the line *)

\* The session document changed, or is there for the first time; it may be
\* gone as well.
onSnapshot ==
  /\ \/ UNCHANGED <<sessionActive, imagePasteOK>>
     \/ sessionActive' \in BOOLEAN /\ imagePasteOK' \in {"yes", "no"}
  /\ requestConnect
  /\ UNCHANGED <<timers, visible, blobs, queue>>

visibilitychange ==
  /\ visible' = ~visible
  /\ IF visible' THEN requestConnect
                 ELSE UNCHANGED <<ws, stale, attempts, since, log>>
  /\ UNCHANGED <<timers, sessionActive, imagePasteOK, blobs, queue>>

\* Mutant of cmWatchGate: a socket that is closing counts as a line.
cmWatchGateClosed == visible /\ sessionActive /\ ws = "closed"

cmWatchGate == visible /\ sessionActive /\ ~busy

watchFires ==
  /\ watch = 0
  /\ watch' = WatchTick
  /\ IF cmWatchGate THEN requestConnect
                    ELSE UNCHANGED <<ws, stale, attempts, since, log>>
  /\ UNCHANGED <<retry, page, blobs, queue>>

retryFires ==
  /\ 0 \in retry
  /\ retry' = retry \ {0}
  /\ requestConnect
  /\ UNCHANGED <<watch, page, blobs, queue>>

Less(t) == IF t = 0 THEN 0 ELSE t - 1

Tick ==
  /\ since' = Least(since + 1, Cap)
  /\ retry' = {Less(t) : t \in retry}
  /\ watch' = Less(watch)
  /\ UNCHANGED <<ws, stale, attempts, page, blobs, queue, log>>

Next ==
  \/ onopen \/ Closing \/ onclose \/ oncloseStale
  \/ onData \/ pickImage \/ sendImageBlob
  \/ onSnapshot \/ visibilitychange
  \/ watchFires \/ retryFires \/ Tick

Spec == Init /\ [][Next]_vars

\* Time passes, due timers fire and a socket that is closing ends; nothing
\* else is promised: no line comes up by itself and nobody need type.
FairSpec ==
  /\ Spec
  /\ WF_vars(Tick) /\ WF_vars(watchFires) /\ WF_vars(retryFires)
  /\ WF_vars(oncloseStale)

-----------------------------------------------------------------------------
\* The room taken is what waits.
RoomGivenBack == inputQBytes = Total(inputQ)

\* Types; the room counted beside the queue is what waits in it, so that the
\* limit never shuts out input when nothing does (term.js 474, 496 and 562-567).
TypeOK ==
  /\ ws \in wsStates /\ stale \in 0..MaxStale
  /\ attempts \in 0..Saturated /\ since \in 0..Cap
  /\ retry \subseteq 0..Retry /\ watch \in 0..WatchTick
  /\ visible \in BOOLEAN /\ sessionActive \in BOOLEAN
  /\ imagePasteOK \in {"unknown", "yes", "no"} /\ blobs \in 0..1
  /\ inputQ \in Seq([id : 1..MaxInputs, size : {1, Big}]) /\ inputQBytes \in 0..QMax
  /\ log \in Seq([kind : {"HELLO_V2", "RESIZE", "input"}, id : 0..MaxInputs])
  /\ accepted \in Seq(1..MaxInputs) /\ delivered \in Seq(1..MaxInputs)
  /\ RoomGivenBack

\* Input the page accepted is sent or waiting, each once and in the order it
\* was given, over any number of lines: nothing overtakes what waits (term.js
\* 493-499 and 555-570).
InputInOrder == accepted = delivered \o Ids(inputQ)

\* Each line starts with the handshake, which is sent once, and no input
\* goes before it or onto a line that is not open yet (term.js 516-523, "once
\* per connection").
HelloFirst ==
  /\ ws = "connecting" => log = <<>>
  /\ ws = "open" => SubSeq(log, 1, 2) = Hello
  /\ \A i \in 3..Len(log) : log[i].kind = "input"

\* A session at work that is being looked at gets its line back, however
\* often opening it failed before (term.js 767-784).
WatchedReconnects ==
  (visible /\ sessionActive /\ ~busy) ~> (busy \/ ~visible \/ ~sessionActive)

\* When a line closes with input waiting, one is opened again: "if unsent
\* input is left, an automatic retry after the backoff, so that input is not
\* lost" (term.js 533-535).
UnsentInputRetried == (inputQ # <<>> /\ Retry \in retry /\ ~busy) ~> busy
=============================================================================
