-------------------------------- MODULE Wire --------------------------------
(***************************************************************************)
(* The way of a byte from the data line to the terminal of a browser       *)
(* (src/web/static/term.js): a message goes through the META filter, which *)
(* takes the control sequences of wire v2 out, drops a history the page    *)
(* already has and tells onMeta; what is left goes through the frame       *)
(* filter of Sync to the terminal.  The line may be cut after any message  *)
(* and opened again; the page asks the producer to leave the history out   *)
(* once it has one.                                                        *)
(*                                                                         *)
(* The terminal, xterm, queues what it is given and parses it in a timer   *)
(* of its own; term.reset() wipes what it has parsed, not the queue.       *)
(*                                                                         *)
(* A message is handled to its end before the next event: a filter goes on *)
(* only when the one behind it is idle, the line and the timer only when   *)
(* both are.                                                               *)
(***************************************************************************)
EXTENDS Sync

CONSTANTS OSC, ST,      \* the markers around a control sequence
          Streams,      \* what a producer may send, by what it was asked for
          Lines,        \* the lines a history is made of
          MaxConns      \* bound on the connections of the page

\* Payloads are single symbols: the METAs and the end of the history.  A
\* history may be there and have no lines.
WithHistory == "v=2;hist=1"
EmptyHistory == "v=2;hist=1;hlines=0"
NoHistory == "v=2;hist=0"
HistEnd == "hist_end"

ASSUME WireAssumption ==
  /\ Marker(OSC) /\ Marker(ST)
  /\ Streams \in [BOOLEAN -> SUBSET Seq(Byte)]
  /\ Lines \subseteq Byte
  /\ MaxConns \in Nat

\* Neither marker begins inside the other, or where the other does: each has
\* one ESC, in front (term.js 132-133).
ASSUME ControlMarkers ==
  /\ \A k \in 2..Len(OSC) : OSC[k] # ST[1]
  /\ \A k \in 2..Len(ST) : ST[k] # OSC[1]
  /\ \E k \in 1..Len(OSC) : k <= Len(ST) /\ OSC[k] # ST[k]

VARIABLES
  line,          \* of the current socket: "closed", "connecting", "open"
  conns,         \* sockets opened so far
  nohist,        \* this connection asked for no history
  todo,          \* what the producer has still to send on it
  received,      \* what arrived on it
  mcarry, inMeta, macc,             \* the META filter's hold
  mrest,                            \* its data behind pos, as Sync's rest
  inHist, histDone, blockHasHist,   \* its memory of histories
  histGot,       \* onMeta has seen a META that announces a history
  painted,       \* something was written to the terminal
  over,          \* the terminal: what its last reset found unparsed, ...
  past,          \* ... what earlier connections wrote after that, ...
  from,          \* ... and this filter's output from here on
  pending,       \* of all that, the bytes at the end which are not yet parsed,
  queued,        \* and how far from the end each write that is queued begins
  had,           \* histDone when the connection began
  torn           \* a connection was cut inside a history

meta == <<mcarry, inMeta, macc, inHist, histDone, blockHasHist>>
screen == <<painted, over, past, from, pending, queued>>
conn == <<line, conns, nohist, todo, received>>
ghost == <<had, torn>>
vars == <<syncVars, conn, meta, mrest, histGot, screen, ghost>>

\* What was written since the last reset, and all that the terminal shows or
\* is still going to show.
Renewed == past \o From(out, from + 1)
Written == over \o Renewed

Unparsed == From(Written, Len(Written) - pending + 1)

Init ==
  /\ SyncInit
  /\ line = "closed" /\ conns = 0 /\ nohist = FALSE
  /\ todo = <<>> /\ received = <<>>
  /\ mcarry = <<>> /\ inMeta = FALSE /\ macc = <<>> /\ mrest = <<>>
  /\ inHist = FALSE /\ histDone = FALSE /\ blockHasHist = FALSE
  /\ histGot = FALSE /\ painted = FALSE
  /\ over = <<>> /\ past = <<>> /\ from = 0 /\ pending = 0 /\ queued = {}
  /\ had = FALSE /\ torn = FALSE

quiet == idle /\ mrest = <<>>

-----------------------------------------------------------------------------
(* The line *)

\* Mutant of reset: the hold of the old connection stays.
resetNothing == UNCHANGED meta

\* feed.reset(): nothing of the old connection is continued.
reset ==
  /\ mcarry' = <<>> /\ inMeta' = FALSE /\ macc' = <<>> /\ inHist' = FALSE
  /\ UNCHANGED <<histDone, blockHasHist>>

connect ==
  /\ line = "closed" /\ quiet
  /\ conns < MaxConns
  /\ line' = "connecting"
  /\ conns' = conns + 1
  /\ past' = Renewed
  /\ from' = 0
  /\ makeSyncFilter
  /\ reset
  /\ received' = <<>>
  /\ had' = histDone
  /\ UNCHANGED <<nohist, todo, mrest, histGot, painted, over, pending, queued,
                 torn>>

\* HELLO_V2, then HELLO_V2_NOHIST if the page has a history; the producer's
\* answer is one of Streams.
onopen ==
  /\ line = "connecting"
  /\ line' = "open"
  /\ nohist' = histGot
  /\ todo' \in Streams[histGot]
  /\ UNCHANGED <<syncVars, conns, received, meta, mrest, histGot, screen, ghost>>

\* Mutant of onmessage: what was held is put in front, and held on.
onmessageKeeps(n) ==
  /\ line = "open" /\ quiet
  /\ n \in 1..Len(todo)
  /\ mrest' = mcarry \o First(todo, n)
  /\ received' = received \o First(todo, n)
  /\ todo' = From(todo, n + 1)
  /\ UNCHANGED <<syncVars, line, conns, nohist, mcarry, inMeta, macc, inHist, histDone,
                 blockHasHist, histGot, screen, ghost>>

onmessage(n) ==
  /\ line = "open" /\ quiet
  /\ n \in 1..Len(todo)
  /\ mrest' = mcarry \o First(todo, n)
  /\ mcarry' = <<>>
  /\ received' = received \o First(todo, n)
  /\ todo' = From(todo, n + 1)
  /\ UNCHANGED <<syncVars, line, conns, nohist, inMeta, macc, inHist, histDone,
                 blockHasHist, histGot, screen, ghost>>

\* Quiescence, a restart of the relay, a lost network: what was not yet
\* delivered is gone.
onclose ==
  /\ line # "closed" /\ quiet
  /\ line' = "closed"
  /\ todo' = <<>>
  /\ torn' = (torn \/ (inHist /\ blockHasHist /\ ~histDone))
  /\ UNCHANGED <<syncVars, conns, nohist, received, meta, mrest, histGot, screen, had>>

-----------------------------------------------------------------------------
(* The META filter, a turn of its loop at a time *)

turn == idle /\ mrest # <<>>

\* Text goes on, unless it is of a history the page already has.
pass(b) ==
  IF b = <<>> \/ (inHist /\ histDone) THEN UNCHANGED syncVars ELSE feed(b)

MetaBegins ==
  LET i == indexOf(mrest, OSC) IN
  /\ turn /\ ~inMeta /\ i > 0
  /\ pass(First(mrest, i - 1))
  /\ inMeta' = TRUE
  /\ macc' = <<>>
  /\ mrest' = From(mrest, i + Len(OSC))
  /\ UNCHANGED <<conn, mcarry, inHist, histDone, blockHasHist, histGot, screen, ghost>>

OnlyText ==
  LET cut == Len(mrest) - tailPrefix(mrest, OSC) IN
  /\ turn /\ ~inMeta /\ indexOf(mrest, OSC) = 0
  /\ pass(First(mrest, cut))
  /\ mcarry' = From(mrest, cut + 1)
  /\ mrest' = <<>>
  /\ UNCHANGED <<conn, inMeta, macc, inHist, histDone, blockHasHist, histGot, screen, ghost>>

announces(payload) == payload \in {<<WithHistory>>, <<EmptyHistory>>}

\* Mutant of onMeta: the history is written below what is there.
onMetaBelow(payload) ==
  /\ histGot' = (histGot \/ announces(payload))
  /\ UNCHANGED <<over, past, from>>

\* Before the first history the terminal is reset; what it has not parsed yet
\* it parses after that.
onMeta(payload) ==
  IF announces(payload) /\ ~histGot
    THEN /\ histGot' = TRUE
         /\ IF painted /\ payload = <<WithHistory>>
              THEN over' = Unparsed /\ past' = <<>> /\ from' = Len(out)
              ELSE UNCHANGED <<over, past, from>>
    ELSE UNCHANGED <<histGot, over, past, from>>

MetaEnds ==
  LET j == indexOf(mrest, ST)
      payload == macc \o First(mrest, j - 1)
      begins == announces(payload) \/ payload = <<NoHistory>>
      ends == payload = <<HistEnd>>
  IN
  /\ turn /\ inMeta /\ j > 0
  /\ macc' = payload
  /\ inMeta' = FALSE
  /\ mrest' = From(mrest, j + Len(ST))
  /\ inHist' = ((inHist \/ begins) /\ ~ends)
  /\ blockHasHist' = IF begins THEN announces(payload) ELSE blockHasHist
  /\ histDone' = (histDone \/ (ends /\ blockHasHist))
  /\ onMeta(payload)
  /\ UNCHANGED <<syncVars, conn, mcarry, painted, pending, queued, ghost>>

MetaGoesOn ==
  LET cut == Len(mrest) - tailPrefix(mrest, ST) IN
  /\ turn /\ inMeta /\ indexOf(mrest, ST) = 0
  /\ macc' = macc \o First(mrest, cut)
  /\ mcarry' = From(mrest, cut + 1)
  /\ mrest' = <<>>
  /\ UNCHANGED <<syncVars, conn, inMeta, inHist, histDone, blockHasHist, histGot, screen, ghost>>

\* term.write(b): b is queued; nothing else being queued, it is parsed at once
\* if the user has just typed.
write(n) ==
  \/ /\ pending' = pending + n
     /\ queued' = {k + n : k \in queued} \cup {n}
  \/ pending = 0 /\ UNCHANGED <<pending, queued>>

\* The frame filter behind it; what it emits is written to the terminal.
Write ==
  /\ SyncStep
  /\ painted' = (painted \/ out' # out)
  /\ IF out' = out THEN UNCHANGED <<pending, queued>> ELSE write(Len(out') - Len(out))
  /\ UNCHANGED <<conn, meta, mrest, histGot, over, past, from, ghost>>

\* The terminal's timer: some of the queued writes are parsed.
Parse ==
  /\ quiet
  /\ pending' \in queued \cup {0} /\ pending' < pending
  /\ queued' = {k \in queued : k <= pending'}
  /\ UNCHANGED <<syncVars, conn, meta, mrest, histGot, painted, over, past, from, ghost>>

Next ==
  \/ connect \/ onopen \/ onclose
  \/ \E n \in 1..Len(todo) : onmessage(n)
  \/ MetaBegins \/ OnlyText \/ MetaEnds \/ MetaGoesOn
  \/ Write \/ Parse

Spec == Init /\ [][Next]_vars

-----------------------------------------------------------------------------
(* What the stream s says, defined on the whole of it *)

\* A control sequence that begins before p does not end before p.
Unended(s, p) ==
  \E i \in Places(s, OSC) :
    i < p /\ \A j \in Places(s, ST) : ~(i + Len(OSC) <= j /\ j + Len(ST) <= p)

InControl(s, p) == p \in Places(s, OSC) \/ Unended(s, p)

\* Where a control sequence with one of these payloads ends.
Ends(s, words) ==
  {j + Len(ST) - 1 : j \in
     {j \in Places(s, ST) : \E i \in Places(s, OSC) :
        /\ ~Unended(s, i)
        /\ i + Len(OSC) <= j
        /\ \A k \in Places(s, ST) : ~(i + Len(OSC) <= k /\ k < j)
        /\ SubSeq(s, i + Len(OSC), j - 1) \in words}}

Announced(s) == Ends(s, {<<WithHistory>>, <<EmptyHistory>>})
Without(s) == Ends(s, {<<NoHistory>>})
Finished(s) == Ends(s, {<<HistEnd>>})

\* A producer ends a history only after it has begun one on this connection
\* (term.js 116-118).
ASSUME Histories ==
  \A asked \in BOOLEAN : \A s \in Streams[asked] :
    \A e \in Finished(s) : \E b \in Announced(s) \cup Without(s) : b < e

\* The symbols of s at these places.
Pick(s, places) ==
  LET pick[n \in 0..Len(s)] ==
        IF n = 0 THEN <<>>
        ELSE IF n \in places THEN Append(pick[n - 1], s[n])
        ELSE pick[n - 1]
  IN pick[Len(s)]

\* p is behind the announcement of a history with a body that is not yet
\* finished.
InBody(s, p) ==
  \E b \in Ends(s, {<<WithHistory>>}) :
    b < p /\ \A e \in Finished(s) : ~(b < e /\ e < p)

\* A producer finishes a history before it announces another; a line stands
\* once in its stream, in a history with a body, and no frame is above it
\* (term.js 116-120, "at the head of the stream").
ASSUME LinesInHistories ==
  /\ \A k \in 1..Len(BSU) : BSU[k] \notin Lines
  /\ \A asked \in BOOLEAN : \A s \in Streams[asked] :
       /\ \A b, d \in Announced(s) \cup Without(s) :
            b < d => \E e \in Finished(s) : b < e /\ e < d
       /\ \A p \in 1..Len(s) : s[p] \in Lines =>
            /\ \A q \in 1..Len(s) : s[q] = s[p] => q = p
            /\ InBody(s, p)
            /\ Places(Pick(First(s, p), {q \in 1..p : ~InControl(s, q)}), BSU) = {}

InHistory(s, p) ==
  \E b \in Announced(s) \cup Without(s) :
    b < p /\ \A e \in Finished(s) : ~(b < e /\ e < p)

\* A history with a body ended before p, on this connection or before it.
HadBefore(s, p) ==
  \/ had
  \/ \E b \in Announced(s), e \in Finished(s) :
       /\ b < e /\ e < p
       /\ \A n \in Without(s) : ~(b < n /\ n < e)

Shown(s) ==
  {p \in 1..(Len(s) - tailPrefix(s, OSC)) :
     ~InControl(s, p) /\ ~(InHistory(s, p) /\ HadBefore(s, p))}

-----------------------------------------------------------------------------
\* Types; what the META filter held of one message is in the data of the next,
\* and what the terminal queues is a part of what it was given.
TypeOK ==
  /\ carry \in Seq(Byte) /\ acc \in Seq(Byte) /\ rest \in Seq(Byte)
  /\ sent \in Seq(Byte) /\ out \in Seq(Byte) /\ cuts \subseteq 0..Len(out)
  /\ syncing \in BOOLEAN
  /\ line \in {"closed", "connecting", "open"} /\ conns \in 0..MaxConns
  /\ nohist \in BOOLEAN /\ todo \in Seq(Byte) /\ received \in Seq(Byte)
  /\ mcarry \in Seq(Byte) /\ macc \in Seq(Byte) /\ mrest \in Seq(Byte)
  /\ mrest # <<>> => mcarry = <<>>
  /\ inMeta \in BOOLEAN /\ inHist \in BOOLEAN /\ histDone \in BOOLEAN
  /\ blockHasHist \in BOOLEAN /\ histGot \in BOOLEAN /\ painted \in BOOLEAN
  /\ over \in Seq(Byte) /\ past \in Seq(Byte) /\ from \in 0..Len(out)
  /\ pending \in 0..Len(Written) /\ queued \subseteq 1..pending
  /\ had \in BOOLEAN /\ torn \in BOOLEAN

\* Between two messages the frame filter has been given exactly the text of
\* this connection: no control sequence, no history the page has, nothing of
\* another connection, however the messages were cut (term.js 128-220).
ExactlyTheText == quiet => sent = Pick(received, Shown(received))

\* As long as no connection was cut inside a history, the terminal has each of
\* its lines once, above every frame but those that the reset before it found
\* unparsed (term.js 119-122 and 441-449).
HistoryOnceOnTop ==
  ~torn =>
    \A p, q \in 1..Len(Written) :
      Written[p] \in Lines =>
        /\ Written[q] = Written[p] => q = p
        /\ q > Len(over) /\ q \in Places(Written, BSU) => p < q

\* The page asks for no history only after it received one (term.js
\* 396-401, "the reconnections after it received the history with its body").
NoHistAfterHistory == nohist => histDone

\* It asks for none too early only after a connection was cut inside a history:
\* at the end of every other one an announced history has been received (term.js
\* 396-401, 441-449).
NoHistUnlessTorn == ~torn => NoHistAfterHistory
=============================================================================
