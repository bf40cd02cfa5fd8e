------------------------------- MODULE Relay -------------------------------
(***************************************************************************)
(* The pairing relay of src/relay/relay.go.  Server.serve runs once per    *)
(* accepted WebSocket, as the only reader of that connection, and forwards *)
(* every chunk to whatever connection holds the opposite slot of its       *)
(* session at that moment.  A reconnect takes the slot over and closes the *)
(* connection it replaced.                                                 *)
(*                                                                         *)
(* Every critical section of Server.mu is one step; everything between two *)
(* critical sections (Close, Read, Write, select) is a step of its own.    *)
(* A session object (sess) is named  after the connection whose serve call *)
(* allocated it, so a deleted and a later session of one sid stay distinct *)
(* exactly as two Go pointers do.  The two 2-minute limits may expire at   *)
(* any moment after they are armed.                                        *)
(***************************************************************************)
EXTENDS Naturals, Sequences

CONSTANTS Sids,      \* session keys
          Sources,   \* connections that dial in with role=source
          Viewers,   \* connections that dial in with role=viewer
          SidOf,     \* the key each connection asks for
          None,      \* Go's nil
          MaxChunks, \* bound: how many chunks each remote end sends
          Aging      \* bound: connections that live to see a 2-minute limit

Conns == Sources \cup Viewers

ASSUME RelayAssumption ==
  /\ Sources \cap Viewers = {}
  /\ None \notin Conns
  /\ SidOf \in [Conns -> Sids]
  /\ MaxChunks \in [Conns -> Nat]
  /\ Aging \subseteq Conns

VARIABLES
  sessions,   \* Server.sessions: key -> session or None
  slot,       \* sess.source / sess.viewer of each session object
  pc,         \* where the goroutine of each connection stands
  se,         \* the session object serve works on
  tgt,        \* the connection it took from a slot under the lock (old / peer)
  signalled,  \* the change channel held in writePeer's select was closed
  why,        \* what ended the read loop, until the exit section
  timer,      \* loneTimer
  closed,     \* the relay closed its end
  dead,       \* the remote end is gone
  nread,      \* chunks the reader has read; it holds chunk nread
  out         \* chunks written to each connection, in order

vars == <<sessions, slot, pc, se, tgt, signalled, why, timer, closed, dead,
          nread, out>>

Roles == {"source", "viewer"}
RoleOf(c) == IF c \in Sources THEN "source" ELSE "viewer"
Other(r) == IF r = "source" THEN "viewer" ELSE "source"

PCs == {"new", "closeOld", "read", "lock", "wait", "send", "exit",
        "closeSelf", "closePeer", "done"}

\* The goroutine is between registering its connection and its exit section.
Serving == {"closeOld", "read", "lock", "wait", "send", "exit"}

\* s.sessions[sid] == se && s.isCurrentLocked(se, role, nc)
IsCurrent(c) ==
  /\ se[c] # None
  /\ sessions[SidOf[c]] = se[c]
  /\ slot[se[c]][RoleOf(c)] = c

\* The opposite slot of the session c works on.
PeerOf(c) == slot[se[c]][Other(RoleOf(c))]

\* close(se.change); se.change = make(chan struct{})
Broadcast(e) ==
  signalled' = [d \in Conns |->
                  signalled[d] \/ (pc[d] = "wait" /\ se[d] = e)]

----------------------------------------------------------------------------

Init ==
  /\ sessions = [k \in Sids |-> None]
  /\ slot = [e \in Conns |-> [r \in Roles |-> None]]
  /\ pc = [c \in Conns |-> "new"]
  /\ se = [c \in Conns |-> None]
  /\ tgt = [c \in Conns |-> None]
  /\ signalled = [c \in Conns |-> FALSE]
  /\ why = [c \in Conns |-> "none"]
  /\ timer = [c \in Conns |-> "off"]
  /\ closed = [c \in Conns |-> FALSE]
  /\ dead = [c \in Conns |-> FALSE]
  /\ nread = [c \in Conns |-> 0]
  /\ out = [c \in Conns |-> <<>>]

\* Mutant of Accept: the slot is overwritten and the old connection forgotten.
AcceptForgetsOld(c) ==
  LET k == SidOf[c]
      e == IF sessions[k] = None THEN c ELSE sessions[k]
  IN  /\ pc[c] = "new"
      /\ sessions' = [sessions EXCEPT ![k] = e]
      /\ slot' = [slot EXCEPT ![e][RoleOf(c)] = c]
      /\ se' = [se EXCEPT ![c] = e]
      /\ Broadcast(e)
      /\ pc' = [pc EXCEPT ![c] = "closeOld"]
      /\ UNCHANGED <<tgt, why, timer, closed, dead, nread, out>>

\* First critical section of serve: find or create the session, take the slot.
Accept(c) ==
  LET k == SidOf[c]
      e == IF sessions[k] = None THEN c ELSE sessions[k]
  IN  /\ pc[c] = "new"
      /\ sessions' = [sessions EXCEPT ![k] = e]
      /\ slot' = [slot EXCEPT ![e][RoleOf(c)] = c]
      /\ se' = [se EXCEPT ![c] = e]
      /\ tgt' = [tgt EXCEPT ![c] = slot[e][RoleOf(c)]]
      /\ Broadcast(e)
      /\ pc' = [pc EXCEPT ![c] = "closeOld"]
      /\ UNCHANGED <<why, timer, closed, dead, nread, out>>

\* if old != nil { old.Close() }; loneTimer := time.AfterFunc(...)
CloseOld(c) ==
  /\ pc[c] = "closeOld"
  /\ closed' = IF tgt[c] = None THEN closed
                                ELSE [closed EXCEPT ![tgt[c]] = TRUE]
  /\ tgt' = [tgt EXCEPT ![c] = None]
  /\ timer' = [timer EXCEPT ![c] = "armed"]
  /\ pc' = [pc EXCEPT ![c] = "read"]
  /\ UNCHANGED <<sessions, slot, se, signalled, why, dead, nread, out>>

\* nc.Read returns n > 0: the remote end sent a chunk, perhaps before it went
Read(c) ==
  /\ pc[c] = "read"
  /\ ~closed[c]
  /\ nread[c] < MaxChunks[c]
  /\ nread' = [nread EXCEPT ![c] = @ + 1]
  /\ pc' = [pc EXCEPT ![c] = "lock"]
  /\ UNCHANGED <<sessions, slot, se, tgt, signalled, why, timer, closed, dead,
                 out>>

\* Mutant of ReadErr: a locally closed connection is not taken as an error.
ReadErrIgnoresClose(c) ==
  /\ pc[c] = "read"
  /\ dead[c]
  /\ why' = [why EXCEPT ![c] = "readErr"]
  /\ pc' = [pc EXCEPT ![c] = "exit"]
  /\ UNCHANGED <<sessions, slot, se, tgt, signalled, timer, closed, dead,
                 nread, out>>

\* nc.Read returns an error: closed by the relay, or lost
ReadErr(c) ==
  /\ pc[c] = "read"
  /\ closed[c] \/ dead[c]
  /\ why' = [why EXCEPT ![c] = "readErr"]
  /\ pc' = [pc EXCEPT ![c] = "exit"]
  /\ UNCHANGED <<sessions, slot, se, tgt, signalled, timer, closed, dead,
                 nread, out>>

\* Mutant of WritePeer: the peer is not tested for nil.
WritePeerNilPeer(c) ==
  /\ pc[c] = "lock"
  /\ \/ /\ ~IsCurrent(c)
        /\ why' = [why EXCEPT ![c] = "notCurrent"]
        /\ pc' = [pc EXCEPT ![c] = "exit"]
        /\ tgt' = tgt
     \/ /\ IsCurrent(c)
        /\ tgt' = [tgt EXCEPT ![c] = PeerOf(c)]
        /\ pc' = [pc EXCEPT ![c] = "send"]
        /\ why' = why
  /\ UNCHANGED <<sessions, slot, se, signalled, timer, closed, dead, nread, out>>

\* Mutant of WritePeer: the peer comes from whatever session the key maps to.
WritePeerByKey(c) ==
  LET e == sessions[SidOf[c]]
      p == IF e = None THEN None ELSE slot[e][Other(RoleOf(c))]
  IN  /\ pc[c] = "lock"
      /\ tgt' = [tgt EXCEPT ![c] = p]
      /\ pc' = [pc EXCEPT ![c] = IF p = None THEN "exit" ELSE "send"]
      /\ UNCHANGED <<sessions, slot, se, signalled, why, timer, closed, dead,
                     nread, out>>

\* Critical section of writePeer: leave, wait for a peer, or pick it.
WritePeer(c) ==
  /\ pc[c] = "lock"
  /\ \/ /\ ~IsCurrent(c)
        /\ why' = [why EXCEPT ![c] = "notCurrent"]
        /\ pc' = [pc EXCEPT ![c] = "exit"]
        /\ UNCHANGED <<tgt, signalled>>
     \/ /\ IsCurrent(c)
        /\ PeerOf(c) = None
        /\ signalled' = [signalled EXCEPT ![c] = FALSE]
        /\ pc' = [pc EXCEPT ![c] = "wait"]
        /\ UNCHANGED <<tgt, why>>
     \/ /\ IsCurrent(c)
        /\ PeerOf(c) # None
        /\ tgt' = [tgt EXCEPT ![c] = PeerOf(c)]
        /\ pc' = [pc EXCEPT ![c] = "send"]
        /\ UNCHANGED <<signalled, why>>
  /\ UNCHANGED <<sessions, slot, se, timer, closed, dead, nread, out>>

\* case <-ch
Wake(c) ==
  /\ pc[c] = "wait"
  /\ signalled[c]
  /\ pc' = [pc EXCEPT ![c] = "lock"]
  /\ signalled' = [signalled EXCEPT ![c] = FALSE]
  /\ UNCHANGED <<sessions, slot, se, tgt, why, timer, closed, dead, nread, out>>

\* case <-deadline.C
Deadline(c) ==
  /\ c \in Aging
  /\ pc[c] = "wait"
  /\ why' = [why EXCEPT ![c] = "deadline"]
  /\ pc' = [pc EXCEPT ![c] = "exit"]
  /\ signalled' = [signalled EXCEPT ![c] = FALSE]
  /\ UNCHANGED <<sessions, slot, se, tgt, timer, closed, dead, nread, out>>

\* Mutant of WriteOk: writePeer's loop goes round again after a write.
WriteOkLoops(c) ==
  /\ pc[c] = "send"
  /\ ~closed[tgt[c]]
  /\ out' = [out EXCEPT ![tgt[c]] = Append(@, [src |-> c, n |-> nread[c]])]
  /\ tgt' = [tgt EXCEPT ![c] = None]
  /\ pc' = [pc EXCEPT ![c] = "lock"]
  /\ UNCHANGED <<sessions, slot, se, signalled, why, timer, closed, dead, nread>>

\* peer.Write succeeds; writes to a lost remote may still be buffered
WriteOk(c) ==
  /\ pc[c] = "send"
  /\ ~closed[tgt[c]]
  /\ out' = [out EXCEPT ![tgt[c]] = Append(@, [src |-> c, n |-> nread[c]])]
  /\ tgt' = [tgt EXCEPT ![c] = None]
  /\ pc' = [pc EXCEPT ![c] = "read"]
  /\ UNCHANGED <<sessions, slot, se, signalled, why, timer, closed, dead, nread>>

\* Mutant of WriteErr: writePeer reports success whatever Write returned.
WriteErrIgnored(c) ==
  /\ pc[c] = "send"
  /\ closed[tgt[c]] \/ dead[tgt[c]]
  /\ tgt' = [tgt EXCEPT ![c] = None]
  /\ pc' = [pc EXCEPT ![c] = "read"]
  /\ UNCHANGED <<sessions, slot, se, signalled, why, timer, closed, dead,
                 nread, out>>

\* peer.Write fails: the peer was closed by the relay, or is lost
WriteErr(c) ==
  /\ pc[c] = "send"
  /\ closed[tgt[c]] \/ dead[tgt[c]]
  /\ why' = [why EXCEPT ![c] = "writeErr"]
  /\ tgt' = [tgt EXCEPT ![c] = None]
  /\ pc' = [pc EXCEPT ![c] = "exit"]
  /\ UNCHANGED <<sessions, slot, se, signalled, timer, closed, dead, nread, out>>

\* Mutant of Exit: the session stays in the map.
ExitKeepsSession(c) ==
  /\ pc[c] = "exit"
  /\ tgt' = [tgt EXCEPT ![c] = IF IsCurrent(c) THEN PeerOf(c) ELSE None]
  /\ why' = [why EXCEPT ![c] = "none"]
  /\ pc' = [pc EXCEPT ![c] = "closeSelf"]
  /\ UNCHANGED <<sessions, slot, se, signalled, timer, closed, dead, nread, out>>

\* Mutant of Exit: a replaced reader closes the other side as well.
ExitUnchecked(c) ==
  /\ pc[c] = "exit"
  /\ tgt' = [tgt EXCEPT ![c] = PeerOf(c)]
  /\ \/ /\ IsCurrent(c)
        /\ sessions' = [sessions EXCEPT ![SidOf[c]] = None]
        /\ Broadcast(se[c])
     \/ /\ ~IsCurrent(c)
        /\ UNCHANGED <<sessions, signalled>>
  /\ why' = [why EXCEPT ![c] = "none"]
  /\ pc' = [pc EXCEPT ![c] = "closeSelf"]
  /\ UNCHANGED <<slot, se, timer, closed, dead, nread, out>>

\* Last critical section of serve: a current connection ends its session.
Exit(c) ==
  /\ pc[c] = "exit"
  /\ \/ /\ IsCurrent(c)
        /\ tgt' = [tgt EXCEPT ![c] = PeerOf(c)]
        /\ sessions' = [sessions EXCEPT ![SidOf[c]] = None]
        /\ Broadcast(se[c])
     \/ /\ ~IsCurrent(c)
        /\ UNCHANGED <<sessions, tgt, signalled>>
  /\ why' = [why EXCEPT ![c] = "none"]
  /\ pc' = [pc EXCEPT ![c] = "closeSelf"]
  /\ UNCHANGED <<slot, se, timer, closed, dead, nread, out>>

\* nc.Close()
CloseSelf(c) ==
  /\ pc[c] = "closeSelf"
  /\ closed' = [closed EXCEPT ![c] = TRUE]
  /\ pc' = [pc EXCEPT ![c] = "closePeer"]
  /\ UNCHANGED <<sessions, slot, se, tgt, signalled, why, timer, dead, nread, out>>

\* Mutant of ClosePeer: the other side is not closed.
ClosePeerForgotten(c) ==
  /\ pc[c] = "closePeer"
  /\ tgt' = [tgt EXCEPT ![c] = None]
  /\ timer' = [timer EXCEPT ![c] = IF @ = "armed" THEN "off" ELSE @]
  /\ pc' = [pc EXCEPT ![c] = "done"]
  /\ UNCHANGED <<sessions, slot, se, signalled, why, closed, dead, nread, out>>

\* if peer != nil { peer.Close() }; deferred loneTimer.Stop()
ClosePeer(c) ==
  /\ pc[c] = "closePeer"
  /\ closed' = IF tgt[c] = None THEN closed
                                ELSE [closed EXCEPT ![tgt[c]] = TRUE]
  /\ tgt' = [tgt EXCEPT ![c] = None]
  /\ timer' = [timer EXCEPT ![c] = IF @ = "armed" THEN "off" ELSE @]
  /\ pc' = [pc EXCEPT ![c] = "done"]
  /\ UNCHANGED <<sessions, slot, se, signalled, why, dead, nread, out>>

\* loneTimer's callback under the lock ...
LoneCheck(c) ==
  /\ c \in Aging
  /\ timer[c] = "armed"
  /\ timer' = [timer EXCEPT ![c] =
                 IF IsCurrent(c) /\ PeerOf(c) = None THEN "firing" ELSE "off"]
  /\ UNCHANGED <<sessions, slot, pc, se, tgt, signalled, why, closed, dead,
                 nread, out>>

\* Mutant of LoneClose: the timer callback closes nothing.
LoneCloseForgotten(c) ==
  /\ timer[c] = "firing"
  /\ timer' = [timer EXCEPT ![c] = "fired"]
  /\ UNCHANGED <<sessions, slot, pc, se, tgt, signalled, why, closed, dead,
                 nread, out>>

\* ... and after it: a peer may have arrived in between
LoneClose(c) ==
  /\ timer[c] = "firing"
  /\ closed' = [closed EXCEPT ![c] = TRUE]
  /\ timer' = [timer EXCEPT ![c] = "fired"]
  /\ UNCHANGED <<sessions, slot, pc, se, tgt, signalled, why, dead, nread, out>>

----------------------------------------------------------------------------
(* The remote ends go away at any moment.                                  *)

RemoteGone(c) ==
  /\ pc[c] # "new"
  /\ ~closed[c]
  /\ ~dead[c]
  /\ dead' = [dead EXCEPT ![c] = TRUE]
  /\ UNCHANGED <<sessions, slot, pc, se, tgt, signalled, why, timer, closed,
                 nread, out>>

\* Every connection of the instance has come and gone.
Finished ==
  /\ \A c \in Conns : pc[c] = "done" /\ timer[c] \notin {"armed", "firing"}
  /\ UNCHANGED vars

\* What the goroutine of c does on its own; Read also needs the remote end.
Serve(c) ==
  \/ CloseOld(c) \/ ReadErr(c) \/ WritePeer(c) \/ Wake(c)
  \/ Deadline(c) \/ WriteOk(c) \/ WriteErr(c) \/ Exit(c) \/ CloseSelf(c)
  \/ ClosePeer(c)

LoneTimer(c) == LoneCheck(c) \/ LoneClose(c)

Next ==
  \/ \E c \in Conns : \/ Accept(c) \/ Serve(c) \/ LoneTimer(c)
                      \/ Read(c) \/ RemoteGone(c)
  \/ Finished

Spec == Init /\ [][Next]_vars

\* The goroutine and the timer of each connection keep running; the remote
\* ends owe nothing.
Fairness == \A c \in Conns : WF_vars(Serve(c)) /\ WF_vars(LoneTimer(c))

FairSpec == Spec /\ Fairness

----------------------------------------------------------------------------

\* Types of the variables; a write always has a connection to write to
\* (writePeer tests peer != nil before peer.Write).
TypeOK ==
  /\ sessions \in [Sids -> Conns \cup {None}]
  /\ slot \in [Conns -> [Roles -> Conns \cup {None}]]
  /\ pc \in [Conns -> PCs]
  /\ se \in [Conns -> Conns \cup {None}]
  /\ tgt \in [Conns -> Conns \cup {None}]
  /\ signalled \in [Conns -> BOOLEAN]
  /\ why \in [Conns -> {"none", "readErr", "notCurrent", "deadline", "writeErr"}]
  /\ timer \in [Conns -> {"off", "armed", "firing", "fired"}]
  /\ closed \in [Conns -> BOOLEAN]
  /\ dead \in [Conns -> BOOLEAN]
  /\ nread \in [Conns -> Nat]
  /\ out \in [Conns -> Seq([src : Conns, n : Nat])]
  /\ \A c \in Conns : nread[c] <= MaxChunks[c]
  /\ \A c \in Conns : pc[c] = "send" => tgt[c] # None

\* A session that can be found in the map is served: whoever holds one of its
\* slots belongs to it by key and role, and its goroutine has not yet run the
\* exit section that would remove the session (serve, delete(s.sessions, sid)).
NoZombieSession ==
  \A k \in Sids, r \in Roles :
    sessions[k] # None =>
      LET c == slot[sessions[k]][r]
      IN  c # None => /\ SidOf[c] = k
                      /\ RoleOf(c) = r
                      /\ se[c] = sessions[k]
                      /\ pc[c] \in Serving

\* Somebody holds c and is going to close it.
WillClose(d, c) == tgt[d] = c /\ pc[d] \in {"closeOld", "closeSelf", "closePeer"}

\* No reader is left behind: a goroutine that still serves but lost its slot,
\* to a takeover or because the session ended, has its connection closed
\* already or about to be closed by the goroutine that displaced it, so its
\* Read cannot block for ever.
NoOrphanReader ==
  \A c \in Conns :
    (pc[c] \in Serving /\ ~IsCurrent(c)) =>
      closed[c] \/ \E d \in Conns : WillClose(d, c)

\* Only its own lone timer closes a connection that is still current: neither
\* a replaced reader nor one of an older session ever closes it (the comment on
\* serve records this as a failure of the earlier implementation).
CurrentClosedOnlyByLoneTimer ==
  \A c \in Conns : IsCurrent(c) /\ closed[c] => timer[c] = "fired"

\* Bytes flow between two connections only if they hold opposite roles of the
\* same session object, never across keys or across generations of one key.
SameSessionOnly ==
  \A v \in Conns : \A i \in 1..Len(out[v]) :
    LET s == out[v][i].src
    IN  se[s] = se[v] /\ SidOf[s] = SidOf[v] /\ RoleOf(s) = Other(RoleOf(v))

\* The chunks of c that have been handed to some connection.
Delivered(c) ==
  {n \in 1..MaxChunks[c] :
     \E v \in Conns : \E i \in 1..Len(out[v]) : out[v][i] = [src |-> c, n |-> n]}

\* The goroutine has a chunk in its buffer.
Held == {"lock", "wait", "send"}
Holding(c) == pc[c] \in Held

\* While a reader is serving, every chunk it has read except the one it holds
\* has been written, however often the other side was replaced in between.
NothingLost ==
  \A c \in Conns :
    pc[c] \in {"closeOld", "read", "lock", "wait", "send"} =>
      Delivered(c) = 1..(IF Holding(c) THEN nread[c] - 1 ELSE nread[c])

\* The stream each connection receives from one reader has no hole, no
\* duplicate and no reordering, and no chunk goes to two connections.
InOrderOnce ==
  \A v, w \in Conns : \A i \in 1..Len(out[v]), j \in 1..Len(out[w]) :
    out[v][i].src = out[w][j].src =>
      /\ out[v][i].n = out[w][j].n => v = w /\ i = j
      /\ (v = w /\ i < j) => out[v][i].n < out[w][j].n

\* What the comment on serve claims: only the natural death of a current
\* connection (its remote or its peer's is gone, or a 2-minute limit expired)
\* ends a session; a takeover does not spread to the other side.
OnlyNaturalDeathEndsSession ==
  \A c \in Conns :
    (pc[c] = "exit" /\ IsCurrent(c)) =>
      \/ why[c] = "deadline"
      \/ closed[c]
      \/ \E d \in Conns : SidOf[d] = SidOf[c] /\ dead[d]

\* A connection the relay closed is let go: its reader returns from serve.
ClosedReaderReturns ==
  \A c \in Conns : closed[c] /\ pc[c] # "done" ~> pc[c] = "done"

\* The 2-minute rule: a current connection without a peer gets one, or is gone.
Lone(c) == IsCurrent(c) /\ PeerOf(c) = None

LoneConnectionResolved == \A c \in Aging : Lone(c) ~> ~Lone(c)

\* c was never replaced in its session, and its last peer there is still open.
PeerLeftOpen(c) ==
  /\ se[c] # None
  /\ slot[se[c]][RoleOf(c)] = c
  /\ PeerOf(c) # None
  /\ ~closed[PeerOf(c)]

\* When the remote of a current connection dies, the peer of that connection
\* is closed too, unless a reconnect takes the dead connection's slot first.
DeathClosesPeer ==
  \A c \in Conns :
    (IsCurrent(c) /\ dead[c] /\ PeerLeftOpen(c)) ~> ~PeerLeftOpen(c)
=============================================================================
