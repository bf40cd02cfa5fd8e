-------------------------------- MODULE Sync --------------------------------
(***************************************************************************)
(* The synchronized-update filter of src/web/static/sync.js: it holds a    *)
(* frame between its opening and its closing marker back until it is       *)
(* whole, so that the terminal never draws half a frame.  One action is    *)
(* one turn of feed's loop; `rest` is the part of the data of the running  *)
(* call that lies behind pos, empty when no call is running.               *)
(***************************************************************************)
EXTENDS Naturals, Sequences

CONSTANTS Byte,       \* symbols of the stream
          BSU, ESU    \* the markers ESC[?2026h and ESC[?2026l

Marker(m) == m \in Seq(Byte) /\ Len(m) > 0

ASSUME SyncAssumption == Marker(BSU) /\ Marker(ESU)

\* They have one length, and the ESC that begins the one is not further back in
\* the other (sync.js 10-11).
ASSUME FrameMarkers ==
  /\ Len(ESU) = Len(BSU)
  /\ \A k \in 2..Len(ESU) : ESU[k] # BSU[1]

VARIABLES carry,      \* tail of the previous call that may begin a marker
          syncing,    \* inside a frame
          acc,        \* the part of the frame collected so far
          rest,
          sent,       \* all the bytes this filter was fed
          out,        \* all the bytes it emitted ...
          cuts        \* ... and where in them each emit ended

hold == <<carry, syncing, acc>>
syncVars == <<hold, rest, sent, out, cuts>>

P == INSTANCE Pipe WITH sent <- sent, got <- out

First(s, n) == SubSeq(s, 1, n)
From(s, i) == SubSeq(s, i, Len(s))

Occurs(s, m, i) == i + Len(m) <= Len(s) + 1 /\ SubSeq(s, i, i + Len(m) - 1) = m
Places(s, m) == {i \in 1..Len(s) : Occurs(s, m, i)}

\* The first place of m in s, 0 if there is none (the code's -1).
indexOf(s, m) ==
  IF Places(s, m) = {} THEN 0
  ELSE CHOOSE i \in Places(s, m) : \A j \in Places(s, m) : i <= j

\* The length of the longest proper prefix of m that ends s.
tailPrefix(s, m) ==
  LET fits == {k \in 0..(Len(m) - 1) :
                 k <= Len(s) /\ From(s, Len(s) - k + 1) = First(m, k)}
  IN CHOOSE k \in fits : \A j \in fits : j <= k

idle == rest = <<>>

SyncInit ==
  /\ carry = <<>> /\ syncing = FALSE /\ acc = <<>>
  /\ rest = <<>> /\ sent = <<>> /\ out = <<>> /\ cuts = {}

\* Mutant of makeSyncFilter: one filter for all connections.
makeSyncFilterOnce ==
  /\ rest' = <<>> /\ sent' = <<>> /\ out' = <<>> /\ cuts' = {}
  /\ UNCHANGED hold

\* A filter of its own for each connection.
makeSyncFilter ==
  /\ carry' = <<>> /\ syncing' = FALSE /\ acc' = <<>>
  /\ rest' = <<>> /\ sent' = <<>> /\ out' = <<>> /\ cuts' = {}

emit(b) ==
  /\ out' = out \o b
  /\ cuts' = cuts \cup {Len(out) + Len(b)}

emitIfAny(b) == IF b = <<>> THEN UNCHANGED <<out, cuts>> ELSE emit(b)

feed(chunk) ==
  /\ idle
  /\ rest' = carry \o chunk
  /\ carry' = <<>>
  /\ sent' = sent \o chunk
  /\ UNCHANGED <<syncing, acc, out, cuts>>

\* Up to the next frame the bytes go straight through.
OpenFrame ==
  LET i == indexOf(rest, BSU) IN
  /\ ~idle /\ ~syncing /\ i > 0
  /\ emitIfAny(First(rest, i - 1))
  /\ syncing' = TRUE
  /\ acc' = <<>>
  /\ rest' = From(rest, i)
  /\ UNCHANGED <<carry, sent>>

\* Mutant of PassText: a marker that is cut in two is not waited for.
PassTextAll ==
  /\ ~idle /\ ~syncing /\ indexOf(rest, BSU) = 0
  /\ emitIfAny(rest)
  /\ rest' = <<>>
  /\ UNCHANGED <<carry, syncing, acc, sent>>

\* No frame begins, except perhaps in the last bytes.
PassText ==
  LET cut == Len(rest) - tailPrefix(rest, BSU) IN
  /\ ~idle /\ ~syncing /\ indexOf(rest, BSU) = 0
  /\ emitIfAny(First(rest, cut))
  /\ carry' = From(rest, cut + 1)
  /\ rest' = <<>>
  /\ UNCHANGED <<syncing, acc, sent>>

\* The frame is whole: one emit.
CloseFrame ==
  LET end == indexOf(rest, ESU) + Len(ESU) - 1 IN
  /\ ~idle /\ syncing /\ indexOf(rest, ESU) > 0
  /\ emit(acc \o First(rest, end))
  /\ acc' = <<>>
  /\ syncing' = FALSE
  /\ rest' = From(rest, end + 1)
  /\ UNCHANGED <<carry, sent>>

\* Mutant of HoldFrame: what there is of a frame is shown at the end of a message.
HoldFrameShows ==
  LET cut == Len(rest) - tailPrefix(rest, ESU) IN
  /\ ~idle /\ syncing /\ indexOf(rest, ESU) = 0
  /\ emit(acc \o First(rest, cut))
  /\ acc' = <<>>
  /\ carry' = From(rest, cut + 1)
  /\ rest' = <<>>
  /\ UNCHANGED <<syncing, sent>>

\* It is not: collect and emit nothing.
HoldFrame ==
  LET cut == Len(rest) - tailPrefix(rest, ESU) IN
  /\ ~idle /\ syncing /\ indexOf(rest, ESU) = 0
  /\ acc' = acc \o First(rest, cut)
  /\ carry' = From(rest, cut + 1)
  /\ rest' = <<>>
  /\ UNCHANGED <<syncing, sent, out, cuts>>

SyncStep == OpenFrame \/ PassText \/ CloseFrame \/ HoldFrame

-----------------------------------------------------------------------------
\* Every byte fed is at one place and in its order, whatever the chunks:
\* emitted, collected, carried or still to be read (sync.js 40-44, "the
\* emitted pieces together are exactly the input").
Lossless == sent = out \o (acc \o (carry \o rest))

\* The places where a frame of s opens that is not closed within s.
Unclosed(s) ==
  {i \in Places(s, BSU) : \A j \in Places(s, ESU) : j < i}

\* How much of s may be shown: up to an unclosed frame, or else all but a
\* tail that may begin one.
Settled(s) ==
  IF Unclosed(s) # {}
    THEN (CHOOSE i \in Unclosed(s) : \A j \in Unclosed(s) : i <= j) - 1
    ELSE Len(s) - tailPrefix(s, BSU)

\* The terminal depends on the bytes and not on how they were cut into
\* messages: between two messages it has everything that may be shown and
\* nothing else, so neither half a frame nor a stuck byte (sync.js 50-87).
ChunkingInvisible == idle => out = First(sent, Settled(sent))

\* No emit ends inside a frame or inside its opening marker: a frame reaches
\* the terminal in one write (sync.js 41-43).
FrameInOneWrite ==
  \A c \in cuts :
    /\ Unclosed(First(out, c)) = {}
    /\ \A i \in Places(out, BSU) : ~(i <= c /\ c < i + Len(BSU) - 1)

\* The filter implements the pipe: see Pipe.
PipeSpec == P!PipeSpec
=============================================================================
