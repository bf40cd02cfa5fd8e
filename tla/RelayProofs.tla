---------------------------- MODULE RelayProofs ----------------------------
(***************************************************************************)
(* Proofs about Relay for any number of keys and connections.  The safety  *)
(* properties of Relay are not inductive: they need to know what the       *)
(* locals of the goroutines (se, tgt) may point to between two critical    *)
(* sections.  Inv collects those facts.                                    *)
(***************************************************************************)
EXTENDS Relay, TLAPS

\* A connection that has not arrived is known to nobody.
Fresh ==
  \A c \in Conns : pc[c] = "new" =>
    /\ se[c] = None
    /\ ~closed[c]
    /\ out[c] = <<>>
    /\ \A v \in Conns : \A i \in 1..Len(out[v]) : out[v][i].src # c
    /\ \A d \in Conns : se[d] # c /\ tgt[d] # c
    /\ \A r \in Roles : slot[c][r] = None
    /\ \A k \in Sids : sessions[k] # c

\* Whoever has arrived works on a session of its own key.
Joined ==
  \A c \in Conns : pc[c] # "new" =>
    se[c] \in Conns /\ SidOf[se[c]] = SidOf[c] /\ pc[se[c]] # "new"

MapByKey ==
  \A k \in Sids : sessions[k] # None =>
    SidOf[sessions[k]] = k /\ pc[sessions[k]] # "new"

\* Slots, of live and of ended sessions, hold members of the right role.
SlotMembers ==
  \A e \in Conns, r \in Roles : slot[e][r] # None =>
    /\ se[slot[e][r]] = e
    /\ RoleOf(slot[e][r]) = r
    /\ pc[slot[e][r]] # "new"

CurrentIsServing == \A c \in Conns : IsCurrent(c) => pc[c] \in Serving

\* What the connection taken out of a slot may be, by what it was taken for.
Targets ==
  \A c \in Conns :
    /\ pc[c] \in {"new", "read", "lock", "wait", "exit", "done"} => tgt[c] = None
    /\ (pc[c] \in {"closeOld", "closeSelf", "closePeer"} /\ tgt[c] # None)
         => ~IsCurrent(tgt[c])
    /\ pc[c] = "send" => /\ tgt[c] # None
                         /\ se[tgt[c]] = se[c]
                         /\ RoleOf(tgt[c]) = Other(RoleOf(c))

TimerOff == \A c \in Conns : pc[c] \in {"new", "closeOld"} => timer[c] = "off"

Inv ==
  /\ TypeOK
  /\ Fresh
  /\ Joined
  /\ MapByKey
  /\ SlotMembers
  /\ CurrentIsServing
  /\ Targets
  /\ TimerOff
  /\ NoOrphanReader
  /\ CurrentClosedOnlyByLoneTimer
  /\ SameSessionOnly

USE RelayAssumption

----------------------------------------------------------------------------
(* Type correctness.                                                       *)

LEMMA ConnFacts ==
  /\ \A c \in Conns : RoleOf(c) \in Roles /\ Other(RoleOf(c)) \in Roles
  /\ \A c \in Conns : SidOf[c] \in Sids
  /\ \A c \in Conns : Other(RoleOf(c)) # RoleOf(c)
BY DEF Conns, RoleOf, Other, Roles

\* Every step keeps the variables in their types and never writes to a nil peer.
LEMMA TypeStep == TypeOK /\ [Next]_vars => TypeOK'
<1> SUFFICES ASSUME TypeOK, [Next]_vars PROVE TypeOK'
  OBVIOUS
<1> USE ConnFacts DEF TypeOK, PCs
<1>1. ASSUME NEW c \in Conns, Accept(c) PROVE TypeOK'
  BY <1>1 DEF Accept, Broadcast
<1>2. ASSUME NEW c \in Conns, CloseOld(c) PROVE TypeOK'
  BY <1>2 DEF CloseOld
<1>3. ASSUME NEW c \in Conns, Read(c) PROVE TypeOK'
  BY <1>3 DEF Read
<1>4. ASSUME NEW c \in Conns, ReadErr(c) PROVE TypeOK'
  BY <1>4 DEF ReadErr
<1>5. ASSUME NEW c \in Conns, WritePeer(c) PROVE TypeOK'
  <2>1. IsCurrent(c) => PeerOf(c) \in Conns \cup {None}
    BY DEF PeerOf, IsCurrent
  <2>2. pc' \in [Conns -> PCs]
    <3>1. \E q \in PCs : pc' = [pc EXCEPT ![c] = q]
      BY <1>5, Zenon DEF WritePeer
    <3> QED
      BY <3>1
  <2>3. tgt' \in [Conns -> Conns \cup {None}]
    <3>1. tgt' = tgt \/ (IsCurrent(c) /\ tgt' = [tgt EXCEPT ![c] = PeerOf(c)])
      BY <1>5, Zenon DEF WritePeer
    <3> QED
      BY <2>1, <3>1
  <2>4. signalled' \in [Conns -> BOOLEAN]
    BY <1>5 DEF WritePeer
  <2>5. why' \in [Conns -> {"none", "readErr", "notCurrent", "deadline", "writeErr"}]
    BY <1>5 DEF WritePeer
  <2>6. \A d \in Conns : pc'[d] = "send" => tgt'[d] # None
    BY <1>5, <2>1 DEF WritePeer
  <2> QED
    BY <1>5, <2>2, <2>3, <2>4, <2>5, <2>6 DEF WritePeer
<1>6. ASSUME NEW c \in Conns, Wake(c) PROVE TypeOK'
  BY <1>6 DEF Wake
<1>7. ASSUME NEW c \in Conns, Deadline(c) PROVE TypeOK'
  BY <1>7 DEF Deadline
<1>8. ASSUME NEW c \in Conns, WriteOk(c) PROVE TypeOK'
  BY <1>8 DEF WriteOk
<1>9. ASSUME NEW c \in Conns, WriteErr(c) PROVE TypeOK'
  BY <1>9 DEF WriteErr
<1>10. ASSUME NEW c \in Conns, Exit(c) PROVE TypeOK'
  <2>1. IsCurrent(c) => PeerOf(c) \in Conns \cup {None}
    BY DEF PeerOf, IsCurrent
  <2>2. tgt' \in [Conns -> Conns \cup {None}]
    <3>1. tgt' = tgt \/ (IsCurrent(c) /\ tgt' = [tgt EXCEPT ![c] = PeerOf(c)])
      BY <1>10, Zenon DEF Exit
    <3> QED
      BY <2>1, <3>1
  <2>3. signalled' \in [Conns -> BOOLEAN]
    BY <1>10 DEF Exit, Broadcast
  <2>4. sessions' \in [Sids -> Conns \cup {None}]
    BY <1>10 DEF Exit
  <2>5. pc' = [pc EXCEPT ![c] = "closeSelf"]
    BY <1>10 DEF Exit
  <2>6. \A d \in Conns : pc'[d] = "send" => tgt'[d] # None
    BY <1>10, <2>5 DEF Exit
  <2>7. /\ why' \in [Conns -> {"none", "readErr", "notCurrent", "deadline", "writeErr"}]
        /\ UNCHANGED <<slot, se, timer, closed, dead, nread, out>>
    BY <1>10 DEF Exit
  <2> QED
    BY <2>2, <2>3, <2>4, <2>5, <2>6, <2>7
<1>11. ASSUME NEW c \in Conns, CloseSelf(c) PROVE TypeOK'
  BY <1>11 DEF CloseSelf
<1>12. ASSUME NEW c \in Conns, ClosePeer(c) PROVE TypeOK'
  BY <1>12 DEF ClosePeer
<1>13. ASSUME NEW c \in Conns, LoneCheck(c) PROVE TypeOK'
  BY <1>13 DEF LoneCheck
<1>14. ASSUME NEW c \in Conns, LoneClose(c) PROVE TypeOK'
  BY <1>14 DEF LoneClose
<1>15. ASSUME NEW c \in Conns, RemoteGone(c) PROVE TypeOK'
  BY <1>15 DEF RemoteGone
<1>16. CASE UNCHANGED vars
  BY <1>16 DEF vars
<1> QED
  BY <1>1, <1>2, <1>3, <1>4, <1>5, <1>6, <1>7, <1>8, <1>9, <1>10, <1>11,
     <1>12, <1>13, <1>14, <1>15, <1>16 DEF Next, Serve, LoneTimer, Finished

\* Type correctness of the relay: no execution of serve, writePeer or the lone
\* timer leaves the types, and peer.Write is never reached with a nil peer.
THEOREM TypeCorrect == Spec => []TypeOK
<1>1. Init => TypeOK
  BY DEF Init, TypeOK, PCs
<1> QED
  BY <1>1, TypeStep, PTL DEF Spec

----------------------------------------------------------------------------
(* Facts about slots and currency used by several actions.                 *)

LEMMA ElementOfSeq ==
  ASSUME NEW R, NEW s \in Seq(R), NEW i \in 1..Len(s)
  PROVE  s[i] \in R
OBVIOUS

\* The opposite slot holds a member of the same session and the other role.
LEMMA PeerFacts ==
  ASSUME TypeOK, SlotMembers, NEW c \in Conns, se[c] \in Conns,
         PeerOf(c) # None
  PROVE  /\ PeerOf(c) \in Conns
         /\ se[PeerOf(c)] = se[c]
         /\ RoleOf(PeerOf(c)) = Other(RoleOf(c))
         /\ pc[PeerOf(c)] # "new"
BY ConnFacts DEF TypeOK, SlotMembers, PeerOf

\* Currency only depends on the map, the slots and se.
LEMMA CurrentFrame ==
  ASSUME UNCHANGED <<sessions, slot, se>>
  PROVE  \A c \in Conns : IsCurrent(c)' = IsCurrent(c)
BY DEF IsCurrent

\* A step that changes neither map nor slots, starts no goroutine and drops no
\* pending Close without closing leaves no orphan.
LEMMA OrphanFrame ==
  ASSUME NoOrphanReader,
         UNCHANGED <<sessions, slot, se>>,
         \A c \in Conns : pc'[c] \in Serving => pc[c] \in Serving,
         \A c \in Conns : closed[c] => closed'[c],
         \A c, d \in Conns : WillClose(d, c) => closed'[c] \/ WillClose(d, c)'
  PROVE  NoOrphanReader'
<1> SUFFICES ASSUME NEW c \in Conns, pc'[c] \in Serving, ~IsCurrent(c)'
             PROVE  closed'[c] \/ \E d \in Conns : WillClose(d, c)'
  BY DEF NoOrphanReader
<1>1. ~IsCurrent(c)
  BY DEF IsCurrent
<1>2. closed[c] \/ \E d \in Conns : WillClose(d, c)
  BY <1>1 DEF NoOrphanReader
<1> QED
  BY <1>2

\* The same for a step that moves the program counter of one goroutine.
LEMMA OrphanMove ==
  ASSUME TypeOK, NoOrphanReader, NEW c \in Conns, NEW q,
         UNCHANGED <<sessions, slot, se>>,
         pc' = [pc EXCEPT ![c] = q],
         q \in Serving => pc[c] \in Serving,
         \A d \in Conns : closed[d] => closed'[d],
         \A d \in Conns : d # c => tgt'[d] = tgt[d],
         \A d \in Conns : WillClose(c, d) => closed'[d] \/ WillClose(c, d)'
  PROVE  NoOrphanReader'
<1>1. pc'[c] = q /\ \A d \in Conns : d # c => pc'[d] = pc[d]
  BY DEF TypeOK
<1>2. \A d \in Conns : pc'[d] \in Serving => pc[d] \in Serving
  BY <1>1
<1>3. \A b, d \in Conns : WillClose(d, b) => closed'[b] \/ WillClose(d, b)'
  <2> SUFFICES ASSUME NEW b \in Conns, NEW d \in Conns, WillClose(d, b), d # c
               PROVE  WillClose(d, b)'
    OBVIOUS
  <2> QED
    BY <1>1 DEF WillClose
<1> QED
  BY <1>2, <1>3, OrphanFrame

LEMMA FreshFrame ==
  ASSUME Fresh, UNCHANGED <<sessions, slot, se, tgt, out>>,
         \A d \in Conns : pc'[d] = "new" => pc[d] = "new" /\ closed'[d] = closed[d]
  PROVE  Fresh'
BY DEF Fresh

\* A goroutine that moves on without touching the table, the records or what
\* it took out of a slot.
LEMMA FreshMove ==
  ASSUME TypeOK, Fresh, NEW c \in Conns, NEW q,
         UNCHANGED <<sessions, slot, se, tgt, out>>,
         pc[c] # "new", q # "new",
         pc' = [pc EXCEPT ![c] = q],
         \A d \in Conns : d # c => closed'[d] = closed[d]
  PROVE  Fresh'
<1>1. \A d \in Conns : pc'[d] = "new" => d # c /\ pc[d] = "new"
  BY DEF TypeOK
<1> QED
  BY <1>1, FreshFrame

LEMMA TargetsMove ==
  ASSUME TypeOK, Targets, NEW c \in Conns, NEW q,
         UNCHANGED <<sessions, slot, se, tgt>>,
         pc' = [pc EXCEPT ![c] = q],
         \/ tgt[c] = None /\ q # "send"
         \/ pc[c] = "closeSelf" /\ q = "closePeer"
  PROVE  Targets'
<1>1. pc'[c] = q /\ \A d \in Conns : d # c => pc'[d] = pc[d]
  BY DEF TypeOK
<1>2. \A d : IsCurrent(d)' <=> IsCurrent(d)
  BY DEF IsCurrent
<1>3. ASSUME NEW d \in Conns, d # c
      PROVE  /\ pc'[d] \in {"new", "read", "lock", "wait", "exit", "done"} => tgt'[d] = None
             /\ (pc'[d] \in {"closeOld", "closeSelf", "closePeer"} /\ tgt'[d] # None)
                  => ~IsCurrent(tgt[d])'
             /\ pc'[d] = "send" => /\ tgt'[d] # None
                                   /\ se'[tgt'[d]] = se'[d]
                                   /\ RoleOf(tgt'[d]) = Other(RoleOf(d))
  BY <1>1, <1>2, <1>3 DEF Targets
<1>4. /\ pc'[c] \in {"new", "read", "lock", "wait", "exit", "done"} => tgt'[c] = None
      /\ (pc'[c] \in {"closeOld", "closeSelf", "closePeer"} /\ tgt'[c] # None)
           => ~IsCurrent(tgt[c])'
      /\ pc'[c] # "send"
  BY <1>1, <1>2 DEF Targets
<1> QED
  BY <1>3, <1>4 DEF Targets

----------------------------------------------------------------------------
(* One lemma per action: it preserves Inv.                                 *)

LEMMA ReadStep ==
  ASSUME NEW c \in Conns, Inv, TypeOK', Read(c)
  PROVE  Inv'
<1> USE ConnFacts DEF Inv
<1>0. /\ pc' = [pc EXCEPT ![c] = "lock"]
      /\ UNCHANGED <<sessions, slot, se, tgt, out>>
      /\ \A d \in Conns : d # c => closed'[d] = closed[d]
      /\ pc[c] # "new"
      /\ tgt[c] = None \/ pc[c] = "closeSelf"
  BY DEF Read, TypeOK, Targets
<1>1. Fresh'
  BY <1>0, FreshMove
<1>2. Joined' /\ MapByKey' /\ SlotMembers'
  BY DEF Read, TypeOK, Joined, MapByKey, SlotMembers
<1>3. CurrentIsServing' /\ TimerOff'
  BY DEF Read, TypeOK, CurrentIsServing, TimerOff, IsCurrent, Serving
<1>4. Targets'
  BY <1>0, TargetsMove DEF Read
<1>5. NoOrphanReader'
  BY OrphanFrame DEF Read, TypeOK, Serving, WillClose, Targets
<1>6. CurrentClosedOnlyByLoneTimer'
  BY DEF Read, TypeOK, CurrentClosedOnlyByLoneTimer, IsCurrent
<1>7. SameSessionOnly'
  BY DEF Read, TypeOK, SameSessionOnly
<1> QED
  BY <1>1, <1>2, <1>3, <1>4, <1>5, <1>6, <1>7

LEMMA ReadErrStep ==
  ASSUME NEW c \in Conns, Inv, TypeOK', ReadErr(c)
  PROVE  Inv'
<1> USE ConnFacts DEF Inv
<1>0. /\ pc' = [pc EXCEPT ![c] = "exit"]
      /\ UNCHANGED <<sessions, slot, se, tgt, out>>
      /\ \A d \in Conns : d # c => closed'[d] = closed[d]
      /\ pc[c] # "new"
      /\ tgt[c] = None \/ pc[c] = "closeSelf"
  BY DEF ReadErr, TypeOK, Targets
<1>1. Fresh'
  BY <1>0, FreshMove
<1>2. Joined' /\ MapByKey' /\ SlotMembers'
  BY DEF ReadErr, TypeOK, Joined, MapByKey, SlotMembers
<1>3. CurrentIsServing' /\ TimerOff'
  BY DEF ReadErr, TypeOK, CurrentIsServing, TimerOff, IsCurrent, Serving
<1>4. Targets'
  BY <1>0, TargetsMove DEF ReadErr
<1>5. NoOrphanReader'
  <2>1. /\ pc' = [pc EXCEPT ![c] = "exit"]
        /\ UNCHANGED <<sessions, slot, se>>
        /\ \A d \in Conns : d # c => tgt'[d] = tgt[d]
        /\ \A d \in Conns : closed[d] => closed'[d]
    BY DEF ReadErr, TypeOK
  <2>2. pc[c] \in Serving \/ "exit" \notin Serving
    BY DEF ReadErr, Serving
  <2>3. \A d \in Conns : WillClose(c, d) => closed'[d] \/ WillClose(c, d)'
    BY <2>1 DEF ReadErr, WillClose, TypeOK
  <2> QED
    BY <2>1, <2>2, <2>3, OrphanMove
<1>6. CurrentClosedOnlyByLoneTimer'
  BY DEF ReadErr, TypeOK, CurrentClosedOnlyByLoneTimer, IsCurrent
<1>7. SameSessionOnly'
  BY DEF ReadErr, TypeOK, SameSessionOnly
<1> QED
  BY <1>1, <1>2, <1>3, <1>4, <1>5, <1>6, <1>7

LEMMA WakeStep ==
  ASSUME NEW c \in Conns, Inv, TypeOK', Wake(c)
  PROVE  Inv'
<1> USE ConnFacts DEF Inv
<1>0. /\ pc' = [pc EXCEPT ![c] = "lock"]
      /\ UNCHANGED <<sessions, slot, se, tgt, out>>
      /\ \A d \in Conns : d # c => closed'[d] = closed[d]
      /\ pc[c] # "new"
      /\ tgt[c] = None \/ pc[c] = "closeSelf"
  BY DEF Wake, TypeOK, Targets
<1>1. Fresh'
  BY <1>0, FreshMove
<1>2. Joined' /\ MapByKey' /\ SlotMembers'
  BY DEF Wake, TypeOK, Joined, MapByKey, SlotMembers
<1>3. CurrentIsServing' /\ TimerOff'
  BY DEF Wake, TypeOK, CurrentIsServing, TimerOff, IsCurrent, Serving
<1>4. Targets'
  BY <1>0, TargetsMove DEF Wake
<1>5. NoOrphanReader'
  <2>1. /\ pc' = [pc EXCEPT ![c] = "lock"]
        /\ UNCHANGED <<sessions, slot, se>>
        /\ \A d \in Conns : d # c => tgt'[d] = tgt[d]
        /\ \A d \in Conns : closed[d] => closed'[d]
    BY DEF Wake, TypeOK
  <2>2. pc[c] \in Serving \/ "lock" \notin Serving
    BY DEF Wake, Serving
  <2>3. \A d \in Conns : WillClose(c, d) => closed'[d] \/ WillClose(c, d)'
    BY <2>1 DEF Wake, WillClose, TypeOK
  <2> QED
    BY <2>1, <2>2, <2>3, OrphanMove
<1>6. CurrentClosedOnlyByLoneTimer'
  BY DEF Wake, TypeOK, CurrentClosedOnlyByLoneTimer, IsCurrent
<1>7. SameSessionOnly'
  BY DEF Wake, TypeOK, SameSessionOnly
<1> QED
  BY <1>1, <1>2, <1>3, <1>4, <1>5, <1>6, <1>7

LEMMA DeadlineStep ==
  ASSUME NEW c \in Conns, Inv, TypeOK', Deadline(c)
  PROVE  Inv'
<1> USE ConnFacts DEF Inv
<1>1. Fresh'
  BY DEF Deadline, TypeOK, Fresh
<1>2. Joined' /\ MapByKey' /\ SlotMembers'
  BY DEF Deadline, TypeOK, Joined, MapByKey, SlotMembers
<1>3. CurrentIsServing' /\ TimerOff'
  BY DEF Deadline, TypeOK, CurrentIsServing, TimerOff, IsCurrent, Serving
<1>4. Targets'
  <2>1. /\ pc[c] = "wait" /\ pc' = [pc EXCEPT ![c] = "exit"]
        /\ UNCHANGED <<sessions, slot, se, tgt>>
    BY DEF Deadline
  <2> QED
    BY <2>1 DEF TypeOK, Targets, IsCurrent
<1>5. NoOrphanReader'
  BY OrphanFrame DEF Deadline, TypeOK, Serving, WillClose, Targets
<1>6. CurrentClosedOnlyByLoneTimer'
  BY DEF Deadline, TypeOK, CurrentClosedOnlyByLoneTimer, IsCurrent
<1>7. SameSessionOnly'
  BY DEF Deadline, TypeOK, SameSessionOnly
<1> QED
  BY <1>1, <1>2, <1>3, <1>4, <1>5, <1>6, <1>7

LEMMA WriteErrStep ==
  ASSUME NEW c \in Conns, Inv, TypeOK', WriteErr(c)
  PROVE  Inv'
<1> USE ConnFacts DEF Inv
<1>1. Fresh'
  BY DEF WriteErr, TypeOK, Fresh
<1>2. Joined' /\ MapByKey' /\ SlotMembers'
  BY DEF WriteErr, TypeOK, Joined, MapByKey, SlotMembers
<1>3. CurrentIsServing' /\ TimerOff'
  BY DEF WriteErr, TypeOK, CurrentIsServing, TimerOff, IsCurrent, Serving
<1>4. Targets'
  BY DEF WriteErr, TypeOK, Targets, IsCurrent
<1>5. NoOrphanReader'
  BY OrphanFrame DEF WriteErr, TypeOK, Serving, WillClose, Targets
<1>6. CurrentClosedOnlyByLoneTimer'
  BY DEF WriteErr, TypeOK, CurrentClosedOnlyByLoneTimer, IsCurrent
<1>7. SameSessionOnly'
  BY DEF WriteErr, TypeOK, SameSessionOnly
<1> QED
  BY <1>1, <1>2, <1>3, <1>4, <1>5, <1>6, <1>7

LEMMA RemoteGoneStep ==
  ASSUME NEW c \in Conns, Inv, TypeOK', RemoteGone(c)
  PROVE  Inv'
<1> USE ConnFacts DEF Inv
<1>1. Fresh'
  BY DEF RemoteGone, TypeOK, Fresh
<1>2. Joined' /\ MapByKey' /\ SlotMembers'
  BY DEF RemoteGone, TypeOK, Joined, MapByKey, SlotMembers
<1>3. CurrentIsServing' /\ TimerOff'
  BY DEF RemoteGone, TypeOK, CurrentIsServing, TimerOff, IsCurrent, Serving
<1>4. Targets'
  BY DEF RemoteGone, TypeOK, Targets, IsCurrent
<1>5. NoOrphanReader'
  BY OrphanFrame DEF RemoteGone, TypeOK, Serving, WillClose, Targets
<1>6. CurrentClosedOnlyByLoneTimer'
  BY DEF RemoteGone, TypeOK, CurrentClosedOnlyByLoneTimer, IsCurrent
<1>7. SameSessionOnly'
  BY DEF RemoteGone, TypeOK, SameSessionOnly
<1> QED
  BY <1>1, <1>2, <1>3, <1>4, <1>5, <1>6, <1>7

LEMMA LoneCheckStep ==
  ASSUME NEW c \in Conns, Inv, TypeOK', LoneCheck(c)
  PROVE  Inv'
<1> USE ConnFacts DEF Inv
<1>1. Fresh'
  BY DEF LoneCheck, TypeOK, Fresh
<1>2. Joined' /\ MapByKey' /\ SlotMembers'
  BY DEF LoneCheck, TypeOK, Joined, MapByKey, SlotMembers
<1>3. CurrentIsServing' /\ TimerOff'
  BY DEF LoneCheck, TypeOK, CurrentIsServing, TimerOff, IsCurrent, Serving
<1>4. Targets'
  BY DEF LoneCheck, TypeOK, Targets, IsCurrent
<1>5. NoOrphanReader'
  BY OrphanFrame DEF LoneCheck, TypeOK, Serving, WillClose, Targets
<1>6. CurrentClosedOnlyByLoneTimer'
  BY DEF LoneCheck, TypeOK, CurrentClosedOnlyByLoneTimer, IsCurrent
<1>7. SameSessionOnly'
  BY DEF LoneCheck, TypeOK, SameSessionOnly
<1> QED
  BY <1>1, <1>2, <1>3, <1>4, <1>5, <1>6, <1>7

LEMMA LoneCloseStep ==
  ASSUME NEW c \in Conns, Inv, TypeOK', LoneClose(c)
  PROVE  Inv'
<1> USE ConnFacts DEF Inv
<1>1. Fresh'
  BY DEF LoneClose, TypeOK, Fresh, TimerOff
<1>2. Joined' /\ MapByKey' /\ SlotMembers'
  BY DEF LoneClose, TypeOK, Joined, MapByKey, SlotMembers
<1>3. CurrentIsServing' /\ TimerOff'
  BY DEF LoneClose, TypeOK, CurrentIsServing, TimerOff, IsCurrent, Serving
<1>4. Targets'
  BY DEF LoneClose, TypeOK, Targets, IsCurrent
<1>5. NoOrphanReader'
  BY OrphanFrame DEF LoneClose, TypeOK, Serving, WillClose, Targets
<1>6. CurrentClosedOnlyByLoneTimer'
  BY DEF LoneClose, TypeOK, CurrentClosedOnlyByLoneTimer, IsCurrent
<1>7. SameSessionOnly'
  BY DEF LoneClose, TypeOK, SameSessionOnly
<1> QED
  BY <1>1, <1>2, <1>3, <1>4, <1>5, <1>6, <1>7

LEMMA CloseOldStep ==
  ASSUME NEW c \in Conns, Inv, TypeOK', CloseOld(c)
  PROVE  Inv'
<1> USE ConnFacts DEF Inv
<1>1. Fresh'
  BY DEF CloseOld, TypeOK, Fresh
<1>2. Joined' /\ MapByKey' /\ SlotMembers'
  BY DEF CloseOld, TypeOK, Joined, MapByKey, SlotMembers
<1>3. CurrentIsServing' /\ TimerOff'
  BY DEF CloseOld, TypeOK, CurrentIsServing, TimerOff, IsCurrent, Serving
<1>4. Targets'
  BY DEF CloseOld, TypeOK, Targets, IsCurrent
<1>5. NoOrphanReader'
  BY OrphanFrame DEF CloseOld, TypeOK, Serving, WillClose, Targets
<1>6. CurrentClosedOnlyByLoneTimer'
  <2> SUFFICES ASSUME NEW d \in Conns, IsCurrent(d), closed'[d]
               PROVE  timer'[d] = "fired"
    BY CurrentFrame DEF CloseOld, CurrentClosedOnlyByLoneTimer
  <2>1. closed[d]
    BY DEF CloseOld, TypeOK, Targets
  <2>2. pc[d] \in Serving /\ timer[d] = "fired"
    BY <2>1 DEF CurrentClosedOnlyByLoneTimer, CurrentIsServing
  <2> QED
    BY <2>2 DEF CloseOld, TypeOK, TimerOff, Serving
<1>7. SameSessionOnly'
  BY DEF CloseOld, TypeOK, SameSessionOnly
<1> QED
  BY <1>1, <1>2, <1>3, <1>4, <1>5, <1>6, <1>7

LEMMA ClosePeerStep ==
  ASSUME NEW c \in Conns, Inv, TypeOK', ClosePeer(c)
  PROVE  Inv'
<1> USE ConnFacts DEF Inv
<1>1. Fresh'
  BY DEF ClosePeer, TypeOK, Fresh
<1>2. Joined' /\ MapByKey' /\ SlotMembers'
  BY DEF ClosePeer, TypeOK, Joined, MapByKey, SlotMembers
<1>3. CurrentIsServing' /\ TimerOff'
  BY DEF ClosePeer, TypeOK, CurrentIsServing, TimerOff, IsCurrent, Serving
<1>4. Targets'
  BY DEF ClosePeer, TypeOK, Targets, IsCurrent
<1>5. NoOrphanReader'
  BY OrphanFrame DEF ClosePeer, TypeOK, Serving, WillClose, Targets
<1>6. CurrentClosedOnlyByLoneTimer'
  <2> SUFFICES ASSUME NEW d \in Conns, IsCurrent(d), closed'[d]
               PROVE  timer'[d] = "fired"
    BY CurrentFrame DEF ClosePeer, CurrentClosedOnlyByLoneTimer
  <2>1. closed[d]
    BY DEF ClosePeer, TypeOK, Targets
  <2>2. pc[d] \in Serving /\ timer[d] = "fired"
    BY <2>1 DEF CurrentClosedOnlyByLoneTimer, CurrentIsServing
  <2> QED
    BY <2>2 DEF ClosePeer, TypeOK, TimerOff, Serving
<1>7. SameSessionOnly'
  BY DEF ClosePeer, TypeOK, SameSessionOnly
<1> QED
  BY <1>1, <1>2, <1>3, <1>4, <1>5, <1>6, <1>7

LEMMA CloseSelfStep ==
  ASSUME NEW c \in Conns, Inv, TypeOK', CloseSelf(c)
  PROVE  Inv'
<1> USE ConnFacts DEF Inv
<1>0. /\ pc' = [pc EXCEPT ![c] = "closePeer"]
      /\ UNCHANGED <<sessions, slot, se, tgt, out>>
      /\ \A d \in Conns : d # c => closed'[d] = closed[d]
      /\ pc[c] # "new"
      /\ tgt[c] = None \/ pc[c] = "closeSelf"
  BY DEF CloseSelf, TypeOK, Targets
<1>1. Fresh'
  BY <1>0, FreshMove
<1>2. Joined' /\ MapByKey' /\ SlotMembers'
  BY DEF CloseSelf, TypeOK, Joined, MapByKey, SlotMembers
<1>3. CurrentIsServing' /\ TimerOff'
  BY DEF CloseSelf, TypeOK, CurrentIsServing, TimerOff, IsCurrent, Serving
<1>4. Targets'
  BY <1>0, TargetsMove DEF CloseSelf
<1>5. NoOrphanReader'
  <2>1. /\ pc' = [pc EXCEPT ![c] = "closePeer"]
        /\ UNCHANGED <<sessions, slot, se>>
        /\ \A d \in Conns : d # c => tgt'[d] = tgt[d]
        /\ \A d \in Conns : closed[d] => closed'[d]
    BY DEF CloseSelf, TypeOK
  <2>2. pc[c] \in Serving \/ "closePeer" \notin Serving
    BY DEF CloseSelf, Serving
  <2>3. \A d \in Conns : WillClose(c, d) => closed'[d] \/ WillClose(c, d)'
    BY <2>1 DEF CloseSelf, WillClose, TypeOK
  <2> QED
    BY <2>1, <2>2, <2>3, OrphanMove
<1>6. CurrentClosedOnlyByLoneTimer'
  <2> SUFFICES ASSUME NEW d \in Conns, IsCurrent(d), closed'[d]
               PROVE  timer'[d] = "fired"
    BY CurrentFrame DEF CloseSelf, CurrentClosedOnlyByLoneTimer
  <2>1. closed[d]
    BY DEF CloseSelf, TypeOK, CurrentIsServing, Serving
  <2>2. pc[d] \in Serving /\ timer[d] = "fired"
    BY <2>1 DEF CurrentClosedOnlyByLoneTimer, CurrentIsServing
  <2> QED
    BY <2>2 DEF CloseSelf, TypeOK, TimerOff, Serving
<1>7. SameSessionOnly'
  BY DEF CloseSelf, TypeOK, SameSessionOnly
<1> QED
  BY <1>1, <1>2, <1>3, <1>4, <1>5, <1>6, <1>7

LEMMA WritePeerStep ==
  ASSUME NEW c \in Conns, Inv, TypeOK', WritePeer(c)
  PROVE  Inv'
<1> USE ConnFacts DEF Inv
<1>1. se[c] \in Conns
  BY DEF WritePeer, Joined
<1>2. /\ pc[c] = "lock" /\ tgt[c] = None
      /\ UNCHANGED <<sessions, slot, se, timer, closed, out>>
  BY DEF WritePeer, Targets
<1>3. PICK q \in {"exit", "wait", "send"} : pc' = [pc EXCEPT ![c] = q]
  BY Zenon DEF WritePeer
<1>4. PICK p \in Conns \cup {None} :
        /\ tgt' = [tgt EXCEPT ![c] = p]
        /\ q # "send" => p = None
        /\ q = "send" => p # None
        /\ p # None => /\ pc[p] # "new"
                       /\ se[p] = se[c] /\ RoleOf(p) = Other(RoleOf(c))
  <2>1. CASE IsCurrent(c) /\ PeerOf(c) # None
    <3>1. pc' = [pc EXCEPT ![c] = "send"] /\ tgt' = [tgt EXCEPT ![c] = PeerOf(c)]
      BY <2>1, Zenon DEF WritePeer
    <3>2. q = "send"
      BY <1>3, <3>1 DEF TypeOK
    <3>3. /\ PeerOf(c) \in Conns /\ pc[PeerOf(c)] # "new"
          /\ se[PeerOf(c)] = se[c] /\ RoleOf(PeerOf(c)) = Other(RoleOf(c))
      BY <1>1, <2>1, PeerFacts
    <3> QED
      BY <2>1, <3>1, <3>2, <3>3
  <2>2. CASE ~(IsCurrent(c) /\ PeerOf(c) # None)
    <3>1. /\ tgt' = tgt
          /\ pc' = [pc EXCEPT ![c] = "exit"] \/ pc' = [pc EXCEPT ![c] = "wait"]
      BY <2>2, Zenon DEF WritePeer
    <3>2. q # "send"
      BY <1>3, <3>1 DEF TypeOK
    <3>3. tgt' = [tgt EXCEPT ![c] = None]
      BY <1>2, <3>1 DEF TypeOK
    <3> QED
      BY <3>2, <3>3
  <2> QED
    BY <2>1, <2>2
<1>10. Fresh'
  BY <1>2, <1>3, <1>4 DEF TypeOK, Fresh
<1>5. Joined' /\ MapByKey' /\ SlotMembers'
  BY <1>2, <1>3 DEF TypeOK, Joined, MapByKey, SlotMembers
<1>6. CurrentIsServing' /\ TimerOff'
  BY <1>2, <1>3 DEF TypeOK, CurrentIsServing, TimerOff, IsCurrent, Serving
<1>7. Targets'
  <2>1. /\ pc'[c] = q /\ tgt'[c] = p
        /\ \A d \in Conns : d # c => pc'[d] = pc[d] /\ tgt'[d] = tgt[d]
    BY <1>3, <1>4 DEF TypeOK
  <2>2. se' = se /\ \A d : IsCurrent(d)' <=> IsCurrent(d)
    BY <1>2 DEF IsCurrent
  <2>3. ASSUME NEW d \in Conns, d # c
        PROVE  /\ pc'[d] \in {"new", "read", "lock", "wait", "exit", "done"} => tgt'[d] = None
               /\ (pc'[d] \in {"closeOld", "closeSelf", "closePeer"} /\ tgt'[d] # None)
                    => ~IsCurrent(tgt[d])'
               /\ pc'[d] = "send" => /\ tgt'[d] # None
                                     /\ se'[tgt'[d]] = se'[d]
                                     /\ RoleOf(tgt'[d]) = Other(RoleOf(d))
    BY <2>1, <2>2, <2>3 DEF Targets
  <2>4. ASSUME NEW d \in Conns, d = c
        PROVE  /\ pc'[d] \in {"new", "read", "lock", "wait", "exit", "done"} => tgt'[d] = None
               /\ pc'[d] \notin {"closeOld", "closeSelf", "closePeer"}
               /\ pc'[d] = "send" => /\ tgt'[d] # None
                                     /\ se'[tgt'[d]] = se'[d]
                                     /\ RoleOf(tgt'[d]) = Other(RoleOf(d))
    BY <1>3, <1>4, <2>1, <2>2, <2>4
  <2>5. \A d \in Conns : d = c \/ d # c
    OBVIOUS
  <2>6. \A d \in Conns : tgt'[d] = tgt[d] \/ d = c
    BY <2>1
  <2> QED
    BY <2>1, <2>2, <2>3, <2>4, <2>6 DEF Targets
<1>8. NoOrphanReader'
  <2>1. q \in Serving /\ pc[c] \in Serving
    BY <1>2 DEF Serving
  <2>2. \A d \in Conns : d # c => tgt'[d] = tgt[d]
    BY <1>4 DEF TypeOK
  <2>3. \A d \in Conns : ~WillClose(c, d)
    BY <1>2 DEF WillClose
  <2> QED
    BY <1>2, <1>3, <2>1, <2>2, <2>3, OrphanMove
<1>9. CurrentClosedOnlyByLoneTimer' /\ SameSessionOnly'
  BY <1>2 DEF CurrentClosedOnlyByLoneTimer, SameSessionOnly, IsCurrent
<1> QED
  BY <1>5, <1>6, <1>7, <1>8, <1>9, <1>10

LEMMA WriteOkStep ==
  ASSUME NEW c \in Conns, Inv, TypeOK', WriteOk(c)
  PROVE  Inv'
<1> USE ConnFacts DEF Inv
<1>1. /\ tgt[c] \in Conns
      /\ se[tgt[c]] = se[c] /\ RoleOf(tgt[c]) = Other(RoleOf(c))
      /\ pc[tgt[c]] # "new"
  BY DEF WriteOk, TypeOK, Targets, Fresh
<1>2. SidOf[tgt[c]] = SidOf[c]
  BY <1>1 DEF WriteOk, Joined
<1>3. Fresh'
  <2> SUFFICES ASSUME NEW d \in Conns, pc'[d] = "new" PROVE Fresh!(d)!2'
    BY DEF Fresh
  <2>1. pc[d] = "new" /\ d # c /\ d # tgt[c]
    BY <1>1 DEF WriteOk, TypeOK
  <2>2. out'[d] = <<>>
    BY <2>1 DEF WriteOk, TypeOK, Fresh
  <2>3. \A v \in Conns : \A i \in 1..Len(out'[v]) : out'[v][i].src # d
    <3> SUFFICES ASSUME NEW v \in Conns, NEW i \in 1..Len(out'[v])
                 PROVE  out'[v][i].src # d
      OBVIOUS
    <3>1. CASE v # tgt[c]
      BY <2>1, <3>1 DEF WriteOk, TypeOK, Fresh
    <3>2. CASE v = tgt[c]
      <4>a. out' = [out EXCEPT ![tgt[c]] = Append(@, [src |-> c, n |-> nread[c]])]
        BY DEF WriteOk
      <4>b. out \in [Conns -> Seq([src : Conns, n : Nat])] /\ nread[c] \in Nat
        BY DEF TypeOK
      <4>1. /\ out'[v] = Append(out[v], [src |-> c, n |-> nread[c]])
            /\ out[v] \in Seq([src : Conns, n : Nat])
            /\ [src |-> c, n |-> nread[c]] \in [src : Conns, n : Nat]
        BY <3>2, <4>a, <4>b
      <4>2. \/ out'[v][i] = [src |-> c, n |-> nread[c]]
            \/ i \in 1..Len(out[v]) /\ out'[v][i] = out[v][i]
        BY <4>1
      <4> QED
        BY <2>1, <4>2 DEF Fresh
    <3> QED
      BY <3>1, <3>2
  <2>4. UNCHANGED <<sessions, slot, se, closed>>
    BY DEF WriteOk
  <2>5. /\ se[d] = None /\ ~closed[d]
        /\ \A r \in Roles : slot[d][r] = None
        /\ \A x \in Conns : se[x] # d /\ tgt[x] # d
        /\ \A k \in Sids : sessions[k] # d
    BY <2>1 DEF Fresh
  <2>6. \A x \in Conns : tgt'[x] # d
    BY <2>5 DEF WriteOk, TypeOK
  <2> QED
    BY <2>2, <2>3, <2>4, <2>5, <2>6
<1>4. Joined' /\ MapByKey' /\ SlotMembers'
  BY DEF WriteOk, TypeOK, Joined, MapByKey, SlotMembers
<1>5. CurrentIsServing' /\ TimerOff'
  BY DEF WriteOk, TypeOK, CurrentIsServing, TimerOff, IsCurrent, Serving
<1>6. Targets'
  BY DEF WriteOk, TypeOK, Targets, IsCurrent
<1>7. NoOrphanReader'
  <2>1. /\ pc' = [pc EXCEPT ![c] = "read"]
        /\ UNCHANGED <<sessions, slot, se>>
        /\ \A d \in Conns : d # c => tgt'[d] = tgt[d]
        /\ \A d \in Conns : closed[d] => closed'[d]
    BY DEF WriteOk, TypeOK
  <2>2. pc[c] \in Serving \/ "read" \notin Serving
    BY DEF WriteOk, Serving
  <2>3. \A d \in Conns : WillClose(c, d) => closed'[d] \/ WillClose(c, d)'
    BY <2>1 DEF WriteOk, WillClose, TypeOK
  <2> QED
    BY <2>1, <2>2, <2>3, OrphanMove
<1>8. CurrentClosedOnlyByLoneTimer'
  BY DEF WriteOk, TypeOK, CurrentClosedOnlyByLoneTimer, IsCurrent
<1>9. SameSessionOnly'
  <2> SUFFICES ASSUME NEW v \in Conns, NEW i \in 1..Len(out'[v])
               PROVE  LET s == out'[v][i].src
                      IN  /\ se[s] = se[v]
                          /\ SidOf[s] = SidOf[v]
                          /\ RoleOf(s) = Other(RoleOf(v))
    BY DEF WriteOk, SameSessionOnly
  <2>1. CASE v = tgt[c] /\ i = Len(out[v]) + 1
    <3>1. out'[v][i].src = c
      BY <2>1 DEF WriteOk, TypeOK
    <3>2. RoleOf(c) = Other(RoleOf(tgt[c]))
      BY <1>1 DEF Other, RoleOf
    <3> QED
      BY <1>1, <1>2, <2>1, <3>1, <3>2
  <2>2. CASE ~(v = tgt[c] /\ i = Len(out[v]) + 1)
    <3>1. CASE v # tgt[c]
      <4>1. out'[v] = out[v] /\ se' = se
        BY <3>1 DEF WriteOk, TypeOK
      <4> QED
        BY <4>1 DEF SameSessionOnly
    <3>2. CASE v = tgt[c]
      <4>a. out' = [out EXCEPT ![tgt[c]] = Append(@, [src |-> c, n |-> nread[c]])]
        BY DEF WriteOk
      <4>b. out \in [Conns -> Seq([src : Conns, n : Nat])] /\ nread[c] \in Nat
        BY DEF TypeOK
      <4>1. /\ out'[v] = Append(out[v], [src |-> c, n |-> nread[c]])
            /\ out[v] \in Seq([src : Conns, n : Nat])
            /\ [src |-> c, n |-> nread[c]] \in [src : Conns, n : Nat]
        BY <3>2, <4>a, <4>b
      <4>2. i \in 1..Len(out[v]) /\ out'[v][i] = out[v][i]
        BY <2>2, <3>2, <4>1
      <4> QED
        BY <4>2 DEF SameSessionOnly
    <3> QED
      BY <3>1, <3>2
  <2> QED
    BY <2>1, <2>2
<1> QED
  BY <1>3, <1>4, <1>5, <1>6, <1>7, <1>8, <1>9

LEMMA AcceptStep ==
  ASSUME NEW c \in Conns, Inv, TypeOK', Accept(c)
  PROVE  Inv'
<1> USE ConnFacts DEF Inv
<1> DEFINE k == SidOf[c]
           e == IF sessions[k] = None THEN c ELSE sessions[k]
           old == slot[e][RoleOf(c)]
<1>1. /\ pc[c] = "new"
      /\ sessions' = [sessions EXCEPT ![k] = e]
      /\ slot' = [slot EXCEPT ![e][RoleOf(c)] = c]
      /\ se' = [se EXCEPT ![c] = e]
      /\ tgt' = [tgt EXCEPT ![c] = old]
      /\ pc' = [pc EXCEPT ![c] = "closeOld"]
      /\ UNCHANGED <<timer, closed, out>>
  BY DEF Accept
<1>2. /\ e \in Conns
      /\ SidOf[e] = k
      /\ e = c \/ (pc[e] # "new" /\ sessions[k] = e)
      /\ e = c => sessions[k] = None
  BY <1>1 DEF TypeOK, MapByKey, Fresh
<1>3. old # None => /\ old \in Conns /\ se[old] = e
                    /\ RoleOf(old) = RoleOf(c) /\ pc[old] # "new"
  BY <1>2 DEF TypeOK, SlotMembers
<1> HIDE DEF k, e, old
<1>4. \A d \in Conns : d # c => (IsCurrent(d)' <=> IsCurrent(d) /\ d # old)
  <2> SUFFICES ASSUME NEW d \in Conns, d # c
               PROVE  IsCurrent(d)' <=> IsCurrent(d) /\ d # old
    OBVIOUS
  <2>1. se'[d] = se[d]
    BY <1>1 DEF TypeOK
  <2>2. CASE se[d] = None
    BY <2>1, <2>2 DEF IsCurrent
  <2>3. CASE se[d] # None
    <3>1. pc[d] # "new" /\ se[d] \in Conns /\ SidOf[se[d]] = SidOf[d]
      BY <2>3 DEF Fresh, Joined
    <3>2. se[d] # c
      BY <1>1 DEF Fresh
    <3>3. CASE se[d] # e
      <4>1. slot'[se[d]] = slot[se[d]]
        BY <1>1, <3>1, <3>3 DEF TypeOK
      <4>2. sessions[SidOf[d]] = se[d] <=> sessions'[SidOf[d]] = se[d]
        BY <1>1, <1>2, <3>1, <3>3 DEF TypeOK
      <4>3. d # old
        BY <1>3, <3>3
      <4> QED
        BY <2>1, <4>1, <4>2, <4>3 DEF IsCurrent
    <3>4. CASE se[d] = e
      <4>1. SidOf[d] = k /\ sessions[k] = e /\ sessions'[k] = e
        BY <1>1, <1>2, <3>1, <3>2, <3>4 DEF TypeOK
      <4>2. CASE RoleOf(d) = RoleOf(c)
        <5>1. slot'[e][RoleOf(d)] = c
          BY <1>1, <1>2, <4>2 DEF TypeOK
        <5>2. slot[e][RoleOf(d)] = old
          BY <4>2 DEF old
        <5> QED
          BY <2>1, <3>4, <5>1, <5>2 DEF IsCurrent
      <4>3. CASE RoleOf(d) # RoleOf(c)
        <5>1. slot'[e][RoleOf(d)] = slot[e][RoleOf(d)]
          BY <1>1, <1>2, <4>3 DEF TypeOK
        <5>2. d # old
          BY <1>3, <4>3
        <5> QED
          BY <2>1, <3>4, <4>1, <5>1, <5>2 DEF IsCurrent
      <4> QED
        BY <4>2, <4>3
    <3> QED
      BY <3>3, <3>4
  <2> QED
    BY <2>2, <2>3
<1>5. Fresh'
  BY <1>1, <1>2, <1>3 DEF TypeOK, Fresh
<1>6. Joined'
  <2> SUFFICES ASSUME NEW d \in Conns, pc'[d] # "new"
               PROVE  se'[d] \in Conns /\ SidOf[se'[d]] = SidOf[d] /\ pc'[se'[d]] # "new"
    BY DEF Joined
  <2>1. CASE d = c
    BY <1>1, <1>2, <2>1 DEF TypeOK, k
  <2>2. CASE d # c
    BY <1>1, <1>2, <2>2 DEF TypeOK, Joined
  <2> QED
    BY <2>1, <2>2
<1>7. MapByKey'
  BY <1>1, <1>2 DEF TypeOK, MapByKey
<1>8. SlotMembers'
  BY <1>1, <1>2 DEF TypeOK, SlotMembers
<1>9. CurrentIsServing'
  BY <1>1, <1>4 DEF TypeOK, CurrentIsServing, Serving
<1>10. Targets'
  <2> SUFFICES ASSUME NEW d \in Conns
               PROVE  Targets!(d)'
    BY DEF Targets
  <2>1. CASE d = c
    BY <1>1, <1>3, <1>4, <2>1 DEF TypeOK, Fresh
  <2>2. CASE d # c
    <3>1. pc'[d] = pc[d] /\ tgt'[d] = tgt[d] /\ tgt[d] # c
      BY <1>1, <2>2 DEF TypeOK, Fresh
    <3>2. tgt[d] # None => tgt[d] \in Conns /\ se'[tgt[d]] = se[tgt[d]]
      BY <1>1, <3>1 DEF TypeOK
    <3>3. se'[d] = se[d]
      BY <1>1, <2>2 DEF TypeOK
    <3> QED
      BY <1>4, <3>1, <3>2, <3>3 DEF Targets
  <2> QED
    BY <2>1, <2>2
<1>11. TimerOff'
  BY <1>1 DEF TypeOK, TimerOff
<1>12. NoOrphanReader'
  <2> SUFFICES ASSUME NEW d \in Conns, pc'[d] \in Serving, ~IsCurrent(d)'
               PROVE  closed'[d] \/ \E x \in Conns : WillClose(x, d)'
    BY DEF NoOrphanReader
  <2>1. CASE d = c
    BY <1>1, <1>2, <2>1 DEF IsCurrent, TypeOK, k
  <2>2. CASE d # c /\ d = old
    BY <1>1, <2>2 DEF TypeOK, WillClose
  <2>3. CASE d # c /\ d # old
    <3>1. pc[d] \in Serving /\ ~IsCurrent(d)
      BY <1>1, <1>4, <2>3 DEF TypeOK
    <3>2. closed[d] \/ \E x \in Conns : WillClose(x, d)
      BY <3>1 DEF NoOrphanReader
    <3>3. \A x \in Conns : WillClose(x, d) => WillClose(x, d)'
      BY <1>1 DEF TypeOK, WillClose
    <3> QED
      BY <1>1, <3>2, <3>3
  <2> QED
    BY <2>1, <2>2, <2>3
<1>13. CurrentClosedOnlyByLoneTimer'
  BY <1>1, <1>4 DEF TypeOK, CurrentClosedOnlyByLoneTimer, Fresh
<1>14. SameSessionOnly'
  <2> SUFFICES ASSUME NEW v \in Conns, NEW i \in 1..Len(out[v])
               PROVE  LET s == out[v][i].src
                      IN  /\ se'[s] = se'[v]
                          /\ SidOf[s] = SidOf[v]
                          /\ RoleOf(s) = Other(RoleOf(v))
    BY <1>1 DEF SameSessionOnly
  <2>1. v # c /\ out[v][i].src # c
    BY <1>1 DEF Fresh
  <2>2. out[v] \in Seq([src : Conns, n : Nat])
    BY DEF TypeOK
  <2>3. out[v][i] \in [src : Conns, n : Nat]
    BY <2>2, ElementOfSeq
  <2>4. se'[v] = se[v] /\ se'[out[v][i].src] = se[out[v][i].src]
    BY <1>1, <2>1, <2>3 DEF TypeOK
  <2> QED
    BY <2>4 DEF SameSessionOnly
<1> QED
  BY <1>5, <1>6, <1>7, <1>8, <1>9, <1>10, <1>11, <1>12, <1>13, <1>14

LEMMA ExitStep ==
  ASSUME NEW c \in Conns, Inv, TypeOK', Exit(c)
  PROVE  Inv'
<1> USE ConnFacts DEF Inv
<1>1. /\ pc[c] = "exit" /\ pc' = [pc EXCEPT ![c] = "closeSelf"]
      /\ tgt[c] = None /\ se[c] \in Conns
      /\ UNCHANGED <<slot, se, timer, closed, out>>
  BY DEF Exit, Targets, Joined
<1>2. PICK p \in Conns \cup {None} :
        /\ tgt' = [tgt EXCEPT ![c] = p]
        /\ p # None => pc[p] # "new" /\ SidOf[p] = SidOf[c] /\ IsCurrent(c)
        /\ IsCurrent(c) => p = PeerOf(c)
  <2>1. CASE IsCurrent(c)
    <3>1. tgt' = [tgt EXCEPT ![c] = PeerOf(c)]
      BY <2>1, Zenon DEF Exit
    <3>2. PeerOf(c) # None => /\ PeerOf(c) \in Conns /\ pc[PeerOf(c)] # "new"
                              /\ se[PeerOf(c)] = se[c]
      BY <1>1, PeerFacts
    <3>3. PeerOf(c) # None => SidOf[PeerOf(c)] = SidOf[c]
      BY <1>1, <3>2 DEF Joined
    <3>4. PeerOf(c) \in Conns \cup {None}
      BY <3>2
    <3> QED
      BY <2>1, <3>1, <3>2, <3>3, <3>4
  <2>2. CASE ~IsCurrent(c)
    <3>1. tgt' = tgt
      BY <2>2, Zenon DEF Exit
    <3>2. tgt' = [tgt EXCEPT ![c] = None]
      BY <1>1, <3>1 DEF TypeOK
    <3> QED
      BY <2>2, <3>2
  <2> QED
    BY <2>1, <2>2
<1>3. \A d \in Conns :
        IsCurrent(d)' <=> IsCurrent(d) /\ ~(IsCurrent(c) /\ SidOf[d] = SidOf[c])
  <2>1. CASE IsCurrent(c)
    <3>1. sessions' = [sessions EXCEPT ![SidOf[c]] = None]
      BY <2>1, Zenon DEF Exit
    <3> QED
      BY <1>1, <2>1, <3>1 DEF IsCurrent, TypeOK
  <2>2. CASE ~IsCurrent(c)
    <3>1. sessions' = sessions
      BY <2>2, Zenon DEF Exit
    <3> QED
      BY <1>1, <2>2, <3>1 DEF IsCurrent
  <2> QED
    BY <2>1, <2>2
<1>4. \A k \in Sids : sessions'[k] \in {sessions[k], None}
  BY DEF Exit, TypeOK
<1>5. Fresh'
  BY <1>1, <1>2, <1>4 DEF TypeOK, Fresh
<1>6. Joined' /\ MapByKey' /\ SlotMembers'
  BY <1>1, <1>4 DEF TypeOK, Joined, MapByKey, SlotMembers
<1>7. CurrentIsServing'
  <2> SUFFICES ASSUME NEW d \in Conns, IsCurrent(d)' PROVE pc'[d] \in Serving
    BY DEF CurrentIsServing
  <2>1. IsCurrent(d) /\ d # c
    BY <1>3
  <2> QED
    BY <1>1, <2>1 DEF TypeOK, CurrentIsServing
<1>8. TimerOff'
  BY <1>1 DEF TypeOK, TimerOff
<1>9. Targets'
  <2> SUFFICES ASSUME NEW d \in Conns
               PROVE  Targets!(d)'
    BY DEF Targets
  <2>1. CASE d = c
    BY <1>1, <1>2, <1>3, <2>1 DEF TypeOK
  <2>2. CASE d # c
    <3>1. pc'[d] = pc[d] /\ tgt'[d] = tgt[d] /\ tgt[d] \in Conns \cup {None}
      BY <1>1, <1>2, <2>2 DEF TypeOK
    <3> QED
      BY <1>1, <1>3, <3>1 DEF Targets
  <2> QED
    BY <2>1, <2>2
<1>10. NoOrphanReader'
  <2> SUFFICES ASSUME NEW d \in Conns, pc'[d] \in Serving, ~IsCurrent(d)'
               PROVE  closed'[d] \/ \E x \in Conns : WillClose(x, d)'
    BY DEF NoOrphanReader
  <2>1. d # c /\ pc[d] \in Serving
    BY <1>1 DEF TypeOK, Serving
  <2>2. CASE IsCurrent(d)
    <3>1. IsCurrent(c) /\ SidOf[d] = SidOf[c]
      BY <1>3, <2>2
    <3>2. se[d] = se[c] /\ RoleOf(d) # RoleOf(c)
      BY <2>1, <2>2, <3>1 DEF IsCurrent
    <3>3. RoleOf(d) = Other(RoleOf(c))
      BY <3>2 DEF RoleOf, Other
    <3>4. PeerOf(c) = d
      BY <2>2, <3>2, <3>3 DEF PeerOf, IsCurrent
    <3>5. tgt'[c] = d /\ pc'[c] = "closeSelf"
      BY <1>1, <1>2, <3>1, <3>4 DEF TypeOK
    <3> QED
      BY <3>5 DEF WillClose
  <2>3. CASE ~IsCurrent(d)
    <3>1. closed[d] \/ \E x \in Conns : WillClose(x, d)
      BY <2>1, <2>3 DEF NoOrphanReader
    <3>2. \A x \in Conns : WillClose(x, d) => WillClose(x, d)'
      BY <1>1, <1>2 DEF TypeOK, WillClose
    <3> QED
      BY <1>1, <3>1, <3>2
  <2> QED
    BY <2>2, <2>3
<1>11. CurrentClosedOnlyByLoneTimer' /\ SameSessionOnly'
  BY <1>1, <1>3 DEF CurrentClosedOnlyByLoneTimer, SameSessionOnly
<1> QED
  BY <1>5, <1>6, <1>7, <1>8, <1>9, <1>10, <1>11

----------------------------------------------------------------------------
(* The theorems.                                                           *)

LEMMA InvStep == Inv /\ [Next]_vars => Inv'
<1> SUFFICES ASSUME Inv, [Next]_vars PROVE Inv'
  OBVIOUS
<1>1. TypeOK'
  BY TypeStep DEF Inv
<1>2. CASE UNCHANGED vars
  <2> USE <1>2 DEF vars, Inv
  <2>1. Fresh' /\ Joined' /\ MapByKey' /\ SlotMembers'
    BY DEF Fresh, Joined, MapByKey, SlotMembers
  <2>2. CurrentIsServing' /\ TimerOff' /\ CurrentClosedOnlyByLoneTimer'
    BY DEF CurrentIsServing, TimerOff, CurrentClosedOnlyByLoneTimer, IsCurrent
  <2>3. Targets'
    BY DEF Targets, IsCurrent
  <2>4. NoOrphanReader'
    BY OrphanFrame DEF WillClose
  <2>5. SameSessionOnly'
    BY DEF SameSessionOnly
  <2> QED
    BY <1>1, <2>1, <2>2, <2>3, <2>4, <2>5
<1>3. ASSUME NEW c \in Conns,
             Accept(c) \/ Serve(c) \/ LoneTimer(c) \/ Read(c) \/ RemoteGone(c)
      PROVE  Inv'
  BY <1>1, <1>3, AcceptStep, CloseOldStep, ReadStep, ReadErrStep, WritePeerStep,
     WakeStep, DeadlineStep, WriteOkStep, WriteErrStep, ExitStep, CloseSelfStep,
     ClosePeerStep, LoneCheckStep, LoneCloseStep, RemoteGoneStep
     DEF Serve, LoneTimer
<1> QED
  BY <1>2, <1>3 DEF Next, Finished

LEMMA InvInit == Init => Inv
<1> SUFFICES ASSUME Init PROVE Inv
  OBVIOUS
<1>1. TypeOK
  BY DEF Init, TypeOK, PCs
<1>2. \A c \in Conns : ~IsCurrent(c)
  BY DEF Init, IsCurrent
<1>3. Fresh /\ Joined /\ MapByKey /\ SlotMembers
  BY ConnFacts DEF Init, Fresh, Joined, MapByKey, SlotMembers
<1>4. CurrentIsServing /\ Targets /\ TimerOff /\ NoOrphanReader
      /\ CurrentClosedOnlyByLoneTimer
  BY <1>2 DEF Init, CurrentIsServing, Targets, TimerOff, NoOrphanReader,
     CurrentClosedOnlyByLoneTimer, Serving
<1>5. SameSessionOnly
  BY DEF Init, SameSessionOnly
<1> QED
  BY <1>1, <1>3, <1>4, <1>5 DEF Inv

LEMMA InvAlways == Spec => []Inv
BY InvInit, InvStep, PTL DEF Spec

\* Every session in Server.sessions is served: its slots hold connections of
\* its key and role whose serve call has not yet run the exit section.
THEOREM NoZombieSessionHolds == Spec => []NoZombieSession
<1>1. Inv => NoZombieSession
  <2> SUFFICES ASSUME Inv, NEW k \in Sids, NEW r \in Roles, sessions[k] # None,
                      slot[sessions[k]][r] # None
               PROVE  LET c == slot[sessions[k]][r]
                      IN  /\ SidOf[c] = k
                          /\ RoleOf(c) = r
                          /\ se[c] = sessions[k]
                          /\ pc[c] \in Serving
    BY DEF NoZombieSession
  <2> DEFINE c == slot[sessions[k]][r]
  <2>1. /\ c \in Conns /\ se[c] = sessions[k]
        /\ RoleOf(c) = r /\ pc[c] # "new" /\ SidOf[sessions[k]] = k
    BY DEF Inv, TypeOK, SlotMembers, MapByKey
  <2>2. SidOf[c] = k
    BY <2>1 DEF Inv, Joined
  <2>3. IsCurrent(c)
    BY <2>1, <2>2 DEF IsCurrent
  <2> QED
    BY <2>1, <2>2, <2>3 DEF Inv, CurrentIsServing
<1> QED
  BY <1>1, InvAlways, PTL

\* No reader is left behind by a takeover or by the end of its session.
THEOREM NoOrphanReaderHolds == Spec => []NoOrphanReader
<1>1. Inv => NoOrphanReader
  BY DEF Inv
<1> QED
  BY <1>1, InvAlways, PTL

\* Only its own lone timer closes a connection that still holds its slot.
THEOREM CurrentClosedOnlyByLoneTimerHolds ==
  Spec => []CurrentClosedOnlyByLoneTimer
<1>1. Inv => CurrentClosedOnlyByLoneTimer
  BY DEF Inv
<1> QED
  BY <1>1, InvAlways, PTL

\* Bytes only flow between the two roles of one session object.
THEOREM SameSessionOnlyHolds == Spec => []SameSessionOnly
<1>1. Inv => SameSessionOnly
  BY DEF Inv
<1> QED
  BY <1>1, InvAlways, PTL
=============================================================================
