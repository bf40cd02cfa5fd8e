---------------------------- MODULE MirrorProofs ----------------------------
(***************************************************************************)
(* Proofs about module Mirror, for any sets of sessions, processes and     *)
(* requests and any number of changes and faults.                          *)
(***************************************************************************)
EXTENDS Mirror, TLAPS

\* The request is between its read of the old statuses and its end.
Past == {"items", "get", "set", "keep", "drop", "notify"}
OnKey == {"get", "set", "keep", "drop"}

\* What each request knows of itself.
Local ==
  \A r \in Reqs :
    /\ rpc[r] \in {"idle", "old", "delete"} => \A k \in Keys : old[r][k] = Nil
    /\ rpc[r] = "old" => \A k \in Keys : body[r][k] # Nil => k \in todo[r]
    /\ \A k \in todo[r] : body[r][k] # Nil
    /\ rpc[r] \in OnKey => body[r][cur[r]] # Nil /\ cur[r] \notin todo[r]
    /\ rpc[r] = "set" => r \in chg
    /\ rpc[r] = "notify" => todo[r] = {}
    /\ rpc[r] = "drop" => faults > 0

\* One request, one process, and no deletion by the owner beside it.
Solo ==
  Alone =>
    /\ \A r, q \in Reqs : rpc[r] # "idle" /\ rpc[q] # "idle" => r = q
    /\ \A r \in Reqs : rpc[r] # "idle" => opc \in {"idle", "done"} /\ rproc[r] = last
    /\ \A p \in Procs, k \in Keys : cache[p][k] # Nil => p = last

\* What is about to be remembered is what is stored.
KeptIsStored ==
  Alone => \A r \in Reqs : rpc[r] = "keep" => doc[cur[r]] = body[r][cur[r]]

\* Of a session that works nothing has been told yet.
WorkingIsQuiet == Alone => \A k \in Keys : doc[k] = "working" => note[k] = "quiet"

\* A transition a request is going to tell is not stored yet, or is due.
PendingAt(r, k) ==
  rpc[r] \in Past /\ Transition(r, k) =>
    \/ /\ doc[k] = "working"
       /\ k \in todo[r] \/ (cur[r] = k /\ rpc[r] \in {"get", "set", "drop"})
    \/ doc[k] = "done" /\ note[k] = "due"

TransitionPending == Alone => \A r \in Reqs, k \in Keys : PendingAt(r, k)

\* A step that writes nothing and remembers nothing new.
LeavesMemory ==
  /\ mode' = "alone" => mode = "alone"
  /\ \A p \in Procs, k \in Keys : cache'[p][k] \in {cache[p][k], Nil}
  /\ \A k \in Keys : doc'[k] \in {doc[k], Nil}
  /\ \A r \in Reqs : rpc[r] \in {"keep", "drop"} =>
       rpc'[r] = rpc[r] /\ rproc'[r] = rproc[r] /\ cur'[r] = cur[r]

SoloInv ==
  /\ Local
  /\ Solo
  /\ KeptIsStored
  /\ CacheTruthful
  /\ WorkingIsQuiet
  /\ TransitionPending
  /\ NoDuplicateWebhookAlone

\* No call has failed so far.
Sound == Alone /\ faults = 0

\* A write is going to give the next version.
VersionReady ==
  Sound =>
    \A r \in Reqs :
      rpc[r] = "set" => \/ doc[cur[r]] = Nil
                        \/ doc[cur[r]] # body[r][cur[r]] /\ ver[r] = dver[cur[r]] + 1

\* The old statuses are those of the documents not yet written.
OldIsStored ==
  Sound =>
    \A r \in Reqs, k \in Keys :
      rpc[r] \in Past /\ (k \in todo[r] \/ (cur[r] = k /\ rpc[r] \in {"get", "set"}))
        => old[r][k] = doc[k]

\* Whoever stored a transition is still going to tell it.
DueHasTeller ==
  Sound =>
    \A k \in Keys :
      note[k] = "due" => \E r \in Reqs : rpc[r] \in Past /\ Transition(r, k)

\* Documents have a parent, or whoever wrote them is going to write it.
ParentPending ==
  Sound =>
    \A k \in Keys :
      doc[k] # Nil =>
        \/ parent = "drover"
        \/ \E r \in chg : rpc[r] \in {"items", "get", "set", "keep"}

\* The owner's deletion reaches every document before the parent.
OwnerReachesAll ==
  Sound /\ opc = "delete" => \A k \in Keys : doc[k] # Nil => k \in oleft

SoundInv ==
  /\ VersionReady
  /\ OldIsStored
  /\ DueHasTeller
  /\ ParentPending
  /\ OwnerReachesAll

----------------------------------------------------------------------------
(* The steps of Next, one by one. *)


\* A step of Next is a step of one of the actions: what the case distinctions
\* below rest on.
LEMMA Cases ==
  ASSUME Next
  PROVE  \/ \E k \in Keys : Change(k) \/ DeleteListed(k)
         \/ \E r \in Reqs, p \in Procs : Push(r, p)
         \/ \E r \in Reqs, p \in Procs, k \in Keys : DeleteSession(r, p, k)
         \/ SeedFromMirror \/ TouchLastSeen \/ ListDocs \/ DeleteParent
         \/ \E r \in Reqs : \/ sessionStatusByKey(r) \/ Get(r) \/ Set(r) \/ Remember(r)
                            \/ Forget(r) \/ Tail(r) \/ Dispatch(r) \/ DeleteDoc(r)
         \/ \E r \in Reqs, k \in Keys : Lookup(r, k)
         \/ \E p \in Procs : Restart(p) \/ forgetPC(p)
         \/ \E p \in Procs, k \in Keys : Age(p, k)
  BY Zenon DEF Next, Producer, Handle, Owner


\* Every step keeps the types.
LEMMA TypeStep ==
  ASSUME TypeOK, [Next]_vars
  PROVE  TypeOK'
<1>1. ASSUME NEW k \in Keys, Change(k)
      PROVE  TypeOK'
  BY <1>1, MirrorAssumption DEF TypeOK, Statuses, Live, Existing,
     agent, mirror, memory, request, owner, ghost, Change
<1>2. ASSUME NEW r \in Reqs, NEW p \in Procs, Push(r, p)
      PROVE  TypeOK'
  BY <1>2, MirrorAssumption DEF TypeOK, Statuses, Live, Existing,
     agent, mirror, memory, request, owner, ghost, Push, Arrive
<1>3. ASSUME NEW r \in Reqs, NEW p \in Procs, NEW k \in Keys, DeleteSession(r, p, k)
      PROVE  TypeOK'
  BY <1>3, MirrorAssumption DEF TypeOK, Statuses, Live, Existing,
     agent, mirror, memory, request, owner, ghost, DeleteSession, Arrive, ForgetKeys
<1>4. ASSUME SeedFromMirror
      PROVE  TypeOK'
  BY <1>4, MirrorAssumption DEF TypeOK, Statuses, Live, Existing,
     agent, mirror, memory, request, owner, ghost, SeedFromMirror
<1>5. ASSUME TouchLastSeen
      PROVE  TypeOK'
  BY <1>5, MirrorAssumption DEF TypeOK, Statuses, Live, Existing,
     agent, mirror, memory, request, owner, ghost, TouchLastSeen
<1>6. ASSUME NEW r \in Reqs, sessionStatusByKey(r)
      PROVE  TypeOK'
  <2>1. CASE old' = [old EXCEPT ![r] = doc] /\ faults' = faults
    BY <1>6, <2>1, MirrorAssumption DEF TypeOK, Statuses, Live, Existing,
       agent, mirror, memory, request, owner, ghost, sessionStatusByKey, Fault
  <2>2. CASE old' = old /\ Fault
    BY <1>6, <2>2, MirrorAssumption DEF TypeOK, Statuses, Live, Existing,
       agent, mirror, memory, request, owner, ghost, sessionStatusByKey, Fault
  <2>3. QED
    BY <1>6, <2>1, <2>2 DEF sessionStatusByKey
<1>7. ASSUME NEW r \in Reqs, NEW k \in Keys, Lookup(r, k)
      PROVE  TypeOK'
  <2>1. CASE cache[rproc[r]][k] = body[r][k] /\ UNCHANGED <<rpc, cur>>
    BY <1>7, <2>1, MirrorAssumption DEF TypeOK, Statuses, Live, Existing,
       agent, mirror, memory, request, owner, ghost, Lookup
  <2>2. CASE /\ rpc' = [rpc EXCEPT ![r] = "get"]
             /\ cur' = [cur EXCEPT ![r] = k]
    BY <1>7, <2>2, MirrorAssumption DEF TypeOK, Statuses, Live, Existing,
       agent, mirror, memory, request, owner, ghost, Lookup
  <2>3. QED
    BY <1>7, <2>1, <2>2 DEF Lookup, Unchanged
<1>8. ASSUME NEW r \in Reqs, Get(r)
      PROVE  TypeOK'
  <2>1. CASE /\ doc[cur[r]] = body[r][cur[r]]
             /\ rpc' = [rpc EXCEPT ![r] = "keep"]
             /\ UNCHANGED <<ver, chg, faults>>
    BY <1>8, <2>1, MirrorAssumption DEF TypeOK, Statuses, Live, Existing,
       agent, mirror, memory, request, owner, ghost, Get, Fault
  <2>2. CASE /\ doc[cur[r]] # body[r][cur[r]]
             /\ rpc' = [rpc EXCEPT ![r] = "set"]
             /\ ver' = [ver EXCEPT ![r] = dver[cur[r]] + 1]
             /\ chg' = chg \cup {r}
             /\ faults' = faults
    BY <1>8, <2>2, MirrorAssumption DEF TypeOK, Statuses, Live, Existing,
       agent, mirror, memory, request, owner, ghost, Get, Fault
  <2>3. CASE /\ (doc[cur[r]] = Nil /\ faults' = faults) \/ Fault
             /\ rpc' = [rpc EXCEPT ![r] = "set"]
             /\ ver' = [ver EXCEPT ![r] = 1]
             /\ chg' = chg \cup {r}
    BY <1>8, <2>3, MirrorAssumption DEF TypeOK, Statuses, Live, Existing,
       agent, mirror, memory, request, owner, ghost, Get, Fault
  <2>4. QED
    BY <1>8, <2>1, <2>2, <2>3 DEF Get
<1>9. ASSUME NEW r \in Reqs, Set(r)
      PROVE  TypeOK'
  <2>1. CASE Written(r) /\ rpc' = [rpc EXCEPT ![r] = "keep"] /\ faults' = faults
    BY <1>9, <2>1, MirrorAssumption DEF TypeOK, Statuses, Live, Existing,
       agent, mirror, memory, request, owner, ghost, Set, Written, Fault
  <2>2. CASE Fault /\ rpc' = [rpc EXCEPT ![r] = "drop"] /\ Written(r)
    BY <1>9, <2>2, MirrorAssumption DEF TypeOK, Statuses, Live, Existing,
       agent, mirror, memory, request, owner, ghost, Set, Written, Fault
  <2>3. CASE Fault /\ rpc' = [rpc EXCEPT ![r] = "drop"] /\ UNCHANGED <<mirror, note>>
    BY <1>9, <2>3, MirrorAssumption DEF TypeOK, Statuses, Live, Existing,
       agent, mirror, memory, request, owner, ghost, Set, Written, Fault
  <2>4. QED
    BY <1>9, <2>1, <2>2, <2>3 DEF Set
<1>10. ASSUME NEW r \in Reqs, Remember(r)
      PROVE  TypeOK'
  BY <1>10, MirrorAssumption DEF TypeOK, Statuses, Live, Existing,
     agent, mirror, memory, request, owner, ghost, Remember
<1>11. ASSUME NEW r \in Reqs, Forget(r)
      PROVE  TypeOK'
  BY <1>11, MirrorAssumption DEF TypeOK, Statuses, Live, Existing,
     agent, mirror, memory, request, owner, ghost, Forget, ForgetKeys, Done
<1>12. ASSUME NEW r \in Reqs, Tail(r)
      PROVE  TypeOK'
  BY <1>12, MirrorAssumption DEF TypeOK, Statuses, Live, Existing,
     agent, mirror, memory, request, owner, ghost, Tail, Fault
<1>13. ASSUME NEW r \in Reqs, Dispatch(r)
      PROVE  TypeOK'
  <2>1. note' \in [Keys -> {"quiet", "due", "sent", "twice"}] /\ faults' \in 0..MaxFaults
    <3>1. CASE note' = note /\ Fault
      BY <3>1, MirrorAssumption DEF TypeOK, Fault
    <3>2. CASE /\ note' = [k \in Keys |->
                             IF ~Transition(r, k) THEN note[k]
                             ELSE IF note[k] \in {"quiet", "due"} THEN "sent" ELSE "twice"]
               /\ faults' = faults
      BY <3>2 DEF TypeOK
    <3>3. QED BY <1>13, <3>1, <3>2 DEF Dispatch
  <2>2. QED
    BY <1>13, <2>1 DEF TypeOK, agent, mirror, memory, owner, ghost, Dispatch, Done
<1>14. ASSUME NEW r \in Reqs, DeleteDoc(r)
      PROVE  TypeOK'
  <2>1. CASE Deleted(cur[r]) /\ prev' = prev \ {cur[r]} /\ faults' = faults
    BY <1>14, <2>1, MirrorAssumption DEF TypeOK, Statuses, Live, Existing,
       agent, mirror, memory, request, owner, ghost, DeleteDoc, Deleted, Done, Fault
  <2>2. CASE Deleted(cur[r]) /\ prev' = prev /\ Fault
    BY <1>14, <2>2, MirrorAssumption DEF TypeOK, Statuses, Live, Existing,
       agent, mirror, memory, request, owner, ghost, DeleteDoc, Deleted, Done, Fault
  <2>3. CASE UNCHANGED <<mirror, note>> /\ prev' = prev /\ Fault
    BY <1>14, <2>3, MirrorAssumption DEF TypeOK, Statuses, Live, Existing,
       agent, mirror, memory, request, owner, ghost, DeleteDoc, Deleted, Done, Fault
  <2>4. QED
    BY <1>14, <2>1, <2>2, <2>3 DEF DeleteDoc
<1>15. ASSUME NEW p \in Procs, NEW k \in Keys, Age(p, k)
      PROVE  TypeOK'
  BY <1>15, MirrorAssumption DEF TypeOK, Statuses, Live, Existing,
     agent, mirror, memory, request, owner, ghost, Age
<1>16. ASSUME NEW p \in Procs, Restart(p)
      PROVE  TypeOK'
  BY <1>16, MirrorAssumption DEF TypeOK, Statuses, Live, Existing,
     agent, mirror, memory, request, owner, ghost, Restart, ForgetKeys, Fault
<1>17. ASSUME NEW p \in Procs, forgetPC(p)
      PROVE  TypeOK'
  BY <1>17, MirrorAssumption DEF TypeOK, Statuses, Live, Existing,
     agent, mirror, memory, request, owner, ghost, forgetPC, ForgetKeys
<1>18. ASSUME ListDocs
      PROVE  TypeOK'
  BY <1>18, MirrorAssumption DEF TypeOK, Statuses, Live, Existing,
     agent, mirror, memory, request, owner, ghost, ListDocs, Fault
<1>19. ASSUME NEW k \in Keys, DeleteListed(k)
      PROVE  TypeOK'
  <2>1. CASE Deleted(k) /\ faults' = faults
    BY <1>19, <2>1, MirrorAssumption DEF TypeOK, Statuses, Live, Existing,
       agent, mirror, memory, request, owner, ghost, DeleteListed, Deleted, Fault
  <2>2. CASE UNCHANGED <<mirror, note>> /\ Fault
    BY <1>19, <2>2, MirrorAssumption DEF TypeOK, Statuses, Live, Existing,
       agent, mirror, memory, request, owner, ghost, DeleteListed, Deleted, Fault
  <2>3. QED
    BY <1>19, <2>1, <2>2 DEF DeleteListed
<1>20. ASSUME DeleteParent
      PROVE  TypeOK'
  BY <1>20, MirrorAssumption DEF TypeOK, Statuses, Live, Existing,
     agent, mirror, memory, request, owner, ghost, DeleteParent, Fault
<1>21. CASE UNCHANGED vars
  BY <1>21 DEF TypeOK, vars, agent, mirror, memory, request, owner, ghost
<1>22. QED
  BY <1>1, <1>2, <1>3, <1>4, <1>5, <1>6, <1>7, <1>8, <1>9, <1>10, <1>11, <1>12, <1>13, <1>14, <1>15, <1>16, <1>17, <1>18, <1>19, <1>20, <1>21, Cases, Zenon


\* The mirror's state is well typed, and a request at work knows its session
\* and its process (pushSessions).
THEOREM TypeCorrect == Spec => []TypeOK
<1>1. Init => TypeOK
  BY MirrorAssumption DEF Init, TypeOK, Statuses
<1>2. TypeOK /\ [Next]_vars => TypeOK'
  BY TypeStep
<1>3. QED
  BY <1>1, <1>2, PTL DEF Spec


\* A request keeps its own bookkeeping straight: the old statuses, the sessions
\* still to handle and the one it is at (the loop of pushSessions).
LEMMA LocalStep ==
  ASSUME TypeOK, Local, [Next]_vars
  PROVE  Local'
<1>1. CASE UNCHANGED <<rpc, old, body, todo, cur, chg, faults>>
  BY <1>1 DEF Local, OnKey
<1>2. ASSUME NEW r \in Reqs, NEW p \in Procs, Push(r, p)
      PROVE  Local'
  BY <1>2, MirrorAssumption DEF TypeOK, Local, OnKey, Live, Statuses, Push,
     Arrive
<1>3. ASSUME NEW r \in Reqs, NEW p \in Procs, NEW k \in Keys, DeleteSession(r, p, k)
      PROVE  Local'
  BY <1>3, MirrorAssumption DEF TypeOK, Local, OnKey, Live, Statuses,
     DeleteSession, Arrive, ForgetKeys
<1>4. ASSUME NEW r \in Reqs, sessionStatusByKey(r)
      PROVE  Local'
  BY <1>4, MirrorAssumption DEF TypeOK, Local, OnKey, Live, Statuses,
     sessionStatusByKey, Fault
<1>5. ASSUME NEW r \in Reqs, NEW k \in Keys, Lookup(r, k)
      PROVE  Local'
  BY <1>5, MirrorAssumption DEF TypeOK, Local, OnKey, Live, Statuses, Lookup
<1>6. ASSUME NEW r \in Reqs, Get(r)
      PROVE  Local'
  BY <1>6, MirrorAssumption DEF TypeOK, Local, OnKey, Live, Statuses, Get,
     Fault
<1>7. ASSUME NEW r \in Reqs, Set(r)
      PROVE  Local'
  BY <1>7, MirrorAssumption DEF TypeOK, Local, OnKey, Live, Statuses, Set,
     Written, Fault
<1>8. ASSUME NEW r \in Reqs, Remember(r)
      PROVE  Local'
  BY <1>8, MirrorAssumption DEF TypeOK, Local, OnKey, Live, Statuses, Remember
<1>9. ASSUME NEW r \in Reqs, Forget(r)
      PROVE  Local'
  BY <1>9, MirrorAssumption DEF TypeOK, Local, OnKey, Live, Statuses, Forget,
     ForgetKeys, Done
<1>10. ASSUME NEW r \in Reqs, Tail(r)
      PROVE  Local'
  BY <1>10, MirrorAssumption DEF TypeOK, Local, OnKey, Live, Statuses, Tail,
     Fault
<1>11. ASSUME NEW r \in Reqs, Dispatch(r)
      PROVE  Local'
  BY <1>11, MirrorAssumption DEF TypeOK, Local, OnKey, Live, Statuses,
     Dispatch, Done, Fault
<1>12. ASSUME NEW r \in Reqs, DeleteDoc(r)
      PROVE  Local'
  BY <1>12, MirrorAssumption DEF TypeOK, Local, OnKey, Live, Statuses,
     DeleteDoc, Deleted, Done, Fault
<1>13. ASSUME NEW p \in Procs, Restart(p)
      PROVE  Local'
  BY <1>13, MirrorAssumption DEF TypeOK, Local, OnKey, Live, Statuses,
     Restart, ForgetKeys, Fault
<1>14. ASSUME ListDocs
      PROVE  Local'
  BY <1>14, MirrorAssumption DEF TypeOK, request, Local, OnKey, Live,
     Statuses, ListDocs, Fault
<1>15. ASSUME NEW k \in Keys, DeleteListed(k)
      PROVE  Local'
  BY <1>15, MirrorAssumption DEF TypeOK, request, Local, OnKey, Live,
     Statuses, DeleteListed, Deleted, Fault
<1>16. ASSUME DeleteParent
      PROVE  Local'
  BY <1>16, MirrorAssumption DEF TypeOK, request, Local, OnKey, Live,
     Statuses, DeleteParent, Fault
<1>17. ASSUME \/ (\E k \in Keys : Change(k))
            \/ SeedFromMirror \/ TouchLastSeen
            \/ (\E p \in Procs, k \in Keys : Age(p, k))
            \/ (\E p \in Procs : forgetPC(p))
            \/ UNCHANGED vars
      PROVE  Local'
  BY <1>1, <1>17 DEF vars, agent, mirror, memory, request, owner, ghost,
     Change, SeedFromMirror, TouchLastSeen, Age, forgetPC, ForgetKeys
<1>18. QED
  BY <1>1, <1>2, <1>3, <1>4, <1>5, <1>6, <1>7, <1>8, <1>9, <1>10, <1>11,
     <1>12, <1>13, <1>14, <1>15, <1>16, <1>17, Cases, Zenon


\* While requests come one at a time to one process, one at most is under way,
\* none beside the owner's deletion, and only that process remembers anything.
LEMMA SoloStep ==
  ASSUME TypeOK, Solo, [Next]_vars
  PROVE  Solo'
<1>1. CASE UNCHANGED <<mode, rpc, rproc, opc, last, cache>>
  BY <1>1 DEF Solo, Alone, Quiet
<1>2. ASSUME NEW r \in Reqs, NEW p \in Procs, Push(r, p)
      PROVE  Solo'
  BY <1>2, MirrorAssumption DEF TypeOK, owner, memory, Solo, Alone, Quiet,
     Push, Arrive
<1>3. ASSUME NEW r \in Reqs, NEW p \in Procs, NEW k \in Keys, DeleteSession(r, p, k)
      PROVE  Solo'
  BY <1>3, MirrorAssumption DEF TypeOK, owner, Solo, Alone, Quiet,
     DeleteSession, Arrive, ForgetKeys
<1>4. ASSUME NEW r \in Reqs, sessionStatusByKey(r)
      PROVE  Solo'
  BY <1>4, MirrorAssumption DEF TypeOK, owner, ghost, memory, Solo, Alone,
     Quiet, sessionStatusByKey, Fault
<1>5. ASSUME NEW r \in Reqs, NEW k \in Keys, Lookup(r, k)
      PROVE  Solo'
  <2>1. CASE cache[rproc[r]][k] = body[r][k] /\ UNCHANGED <<rpc, cur>>
    BY <1>5, <2>1, MirrorAssumption DEF TypeOK, owner, ghost, memory, Solo,
       Alone, Quiet, Lookup
  <2>2. CASE /\ rpc' = [rpc EXCEPT ![r] = "get"]
             /\ cur' = [cur EXCEPT ![r] = k]
    BY <1>5, <2>2, MirrorAssumption DEF TypeOK, owner, ghost, memory, Solo,
       Alone, Quiet, Lookup
  <2>3. QED BY <1>5, <2>1, <2>2 DEF Lookup, Unchanged
<1>6. ASSUME NEW r \in Reqs, Get(r)
      PROVE  Solo'
  <2>1. CASE /\ doc[cur[r]] = body[r][cur[r]]
             /\ rpc' = [rpc EXCEPT ![r] = "keep"]
             /\ UNCHANGED <<ver, chg, faults>>
    BY <1>6, <2>1, MirrorAssumption DEF TypeOK, owner, ghost, memory, Solo,
       Alone, Quiet, Get, Fault
  <2>2. CASE /\ doc[cur[r]] # body[r][cur[r]]
             /\ rpc' = [rpc EXCEPT ![r] = "set"]
             /\ ver' = [ver EXCEPT ![r] = dver[cur[r]] + 1]
             /\ chg' = chg \cup {r}
             /\ faults' = faults
    BY <1>6, <2>2, MirrorAssumption DEF TypeOK, owner, ghost, memory, Solo,
       Alone, Quiet, Get, Fault
  <2>3. CASE /\ (doc[cur[r]] = Nil /\ faults' = faults) \/ Fault
             /\ rpc' = [rpc EXCEPT ![r] = "set"]
             /\ ver' = [ver EXCEPT ![r] = 1]
             /\ chg' = chg \cup {r}
    BY <1>6, <2>3, MirrorAssumption DEF TypeOK, owner, ghost, memory, Solo,
       Alone, Quiet, Get, Fault
  <2>4. QED BY <1>6, <2>1, <2>2, <2>3 DEF Get
<1>7. ASSUME NEW r \in Reqs, Set(r)
      PROVE  Solo'
  <2>1. CASE Written(r) /\ rpc' = [rpc EXCEPT ![r] = "keep"] /\ faults' = faults
    BY <1>7, <2>1, MirrorAssumption DEF TypeOK, owner, ghost, memory, Solo,
       Alone, Quiet, Set, Written, Fault
  <2>2. CASE Fault /\ rpc' = [rpc EXCEPT ![r] = "drop"] /\ Written(r)
    BY <1>7, <2>2, MirrorAssumption DEF TypeOK, owner, ghost, memory, Solo,
       Alone, Quiet, Set, Written, Fault
  <2>3. CASE Fault /\ rpc' = [rpc EXCEPT ![r] = "drop"] /\ UNCHANGED <<mirror, note>>
    BY <1>7, <2>3, MirrorAssumption DEF TypeOK, owner, ghost, memory, Solo,
       Alone, Quiet, Set, Written, Fault
  <2>4. QED BY <1>7, <2>1, <2>2, <2>3 DEF Set
<1>8. ASSUME NEW r \in Reqs, Remember(r)
      PROVE  Solo'
  BY <1>8, MirrorAssumption DEF TypeOK, owner, ghost, Solo, Alone, Quiet,
     Remember
<1>9. ASSUME NEW r \in Reqs, Forget(r)
      PROVE  Solo'
  BY <1>9, MirrorAssumption DEF TypeOK, owner, ghost, Solo, Alone, Quiet,
     Forget, ForgetKeys, Done
<1>10. ASSUME NEW r \in Reqs, Tail(r)
      PROVE  Solo'
  BY <1>10, MirrorAssumption DEF TypeOK, owner, ghost, memory, Solo, Alone,
     Quiet, Tail, Fault
<1>11. ASSUME NEW r \in Reqs, Dispatch(r)
      PROVE  Solo'
  BY <1>11, MirrorAssumption DEF TypeOK, owner, ghost, memory, Solo, Alone,
     Quiet, Dispatch, Done, Fault
<1>12. ASSUME NEW r \in Reqs, DeleteDoc(r)
      PROVE  Solo'
  BY <1>12, MirrorAssumption DEF TypeOK, owner, ghost, memory, Solo, Alone,
     Quiet, DeleteDoc, Deleted, Done, Fault
<1>13. ASSUME NEW p \in Procs, Restart(p)
      PROVE  Solo'
  BY <1>13, MirrorAssumption DEF TypeOK, owner, ghost, Solo, Alone, Quiet,
     Restart, ForgetKeys, Fault
<1>14. ASSUME NEW p \in Procs, forgetPC(p)
      PROVE  Solo'
  BY <1>14, MirrorAssumption DEF TypeOK, request, Solo, Alone, Quiet,
     forgetPC, ForgetKeys
<1>15. ASSUME ListDocs
      PROVE  Solo'
  BY <1>15, MirrorAssumption DEF TypeOK, request, ghost, memory, Solo, Alone,
     Quiet, ListDocs, Fault
<1>16. ASSUME DeleteParent
      PROVE  Solo'
  BY <1>16, MirrorAssumption DEF TypeOK, request, ghost, memory, Solo, Alone,
     Quiet, DeleteParent, Fault
<1>17. ASSUME \/ (\E k \in Keys : Change(k) \/ DeleteListed(k))
            \/ SeedFromMirror \/ TouchLastSeen
            \/ (\E p \in Procs, k \in Keys : Age(p, k))
            \/ UNCHANGED vars
      PROVE  Solo'
  BY <1>1, <1>17 DEF vars, agent, mirror, memory, request, owner, ghost,
     Change, SeedFromMirror, TouchLastSeen, Age, DeleteListed, Deleted, Fault
<1>18. QED
  BY <1>1, <1>2, <1>3, <1>4, <1>5, <1>6, <1>7, <1>8, <1>9, <1>10, <1>11,
     <1>12, <1>13, <1>14, <1>15, <1>16, <1>17, Cases, Zenon


\* What pushSessions is about to remember is what it read or has just written.
LEMMA KeptStep ==
  ASSUME TypeOK, Local, Solo, KeptIsStored, [Next]_vars
  PROVE  KeptIsStored'
<1>1. CASE UNCHANGED <<mode, rpc, doc, cur, body>>
  BY <1>1 DEF KeptIsStored, Solo, Alone, Quiet
<1>2. ASSUME NEW r \in Reqs, NEW p \in Procs, Push(r, p)
      PROVE  KeptIsStored'
  BY <1>2, MirrorAssumption DEF TypeOK, mirror, KeptIsStored, Solo, Alone,
     Quiet, Push, Arrive
<1>3. ASSUME NEW r \in Reqs, NEW p \in Procs, NEW k \in Keys, DeleteSession(r, p, k)
      PROVE  KeptIsStored'
  BY <1>3, MirrorAssumption DEF TypeOK, mirror, KeptIsStored, Solo, Alone,
     Quiet, DeleteSession, Arrive, ForgetKeys
<1>4. ASSUME NEW r \in Reqs, sessionStatusByKey(r)
      PROVE  KeptIsStored'
  BY <1>4, MirrorAssumption DEF TypeOK, ghost, mirror, KeptIsStored, Solo,
     Alone, Quiet, sessionStatusByKey, Fault
<1>5. ASSUME NEW r \in Reqs, NEW k \in Keys, Lookup(r, k)
      PROVE  KeptIsStored'
  BY <1>5, MirrorAssumption DEF TypeOK, ghost, mirror, KeptIsStored, Solo,
     Alone, Quiet, Lookup
<1>6. ASSUME NEW r \in Reqs, Get(r)
      PROVE  KeptIsStored'
  BY <1>6, MirrorAssumption DEF TypeOK, ghost, mirror, KeptIsStored, Solo,
     Alone, Quiet, Local, OnKey, Get, Fault
<1>7. ASSUME NEW r \in Reqs, Set(r)
      PROVE  KeptIsStored'
  BY <1>7, MirrorAssumption DEF TypeOK, ghost, mirror, KeptIsStored, Solo,
     Alone, Quiet, Local, OnKey, Set, Written, Fault
<1>8. ASSUME NEW r \in Reqs, Remember(r)
      PROVE  KeptIsStored'
  BY <1>8, MirrorAssumption DEF TypeOK, ghost, mirror, KeptIsStored, Solo,
     Alone, Quiet, Remember
<1>9. ASSUME NEW r \in Reqs, Forget(r)
      PROVE  KeptIsStored'
  BY <1>9, MirrorAssumption DEF TypeOK, ghost, mirror, KeptIsStored, Solo,
     Alone, Quiet, Forget, ForgetKeys, Done
<1>10. ASSUME NEW r \in Reqs, Tail(r)
      PROVE  KeptIsStored'
  BY <1>10, MirrorAssumption DEF TypeOK, ghost, mirror, KeptIsStored, Solo,
     Alone, Quiet, Tail, Fault
<1>11. ASSUME NEW r \in Reqs, Dispatch(r)
      PROVE  KeptIsStored'
  BY <1>11, MirrorAssumption DEF TypeOK, ghost, mirror, KeptIsStored, Solo,
     Alone, Quiet, Dispatch, Done, Fault
<1>12. ASSUME NEW r \in Reqs, DeleteDoc(r)
      PROVE  KeptIsStored'
  BY <1>12, MirrorAssumption DEF TypeOK, ghost, mirror, KeptIsStored, Solo,
     Alone, Quiet, DeleteDoc, Deleted, Done, Fault
<1>13. ASSUME NEW p \in Procs, Restart(p)
      PROVE  KeptIsStored'
  BY <1>13, MirrorAssumption DEF TypeOK, ghost, mirror, KeptIsStored, Solo,
     Alone, Quiet, Restart, ForgetKeys, Fault
<1>14. ASSUME NEW p \in Procs, forgetPC(p)
      PROVE  KeptIsStored'
  BY <1>14, MirrorAssumption DEF TypeOK, request, mirror, KeptIsStored, Solo,
     Alone, Quiet, forgetPC, ForgetKeys
<1>15. ASSUME NEW k \in Keys, DeleteListed(k)
      PROVE  KeptIsStored'
  BY <1>15, MirrorAssumption DEF TypeOK, request, ghost, mirror, KeptIsStored,
     Solo, Alone, Quiet, DeleteListed, Deleted, Fault
<1>16. ASSUME \/ (\E k \in Keys : Change(k))
            \/ SeedFromMirror \/ TouchLastSeen \/ ListDocs \/ DeleteParent
            \/ (\E p \in Procs, k \in Keys : Age(p, k))
            \/ UNCHANGED vars
      PROVE  KeptIsStored'
  BY <1>1, <1>16 DEF vars, agent, mirror, memory, request, owner, ghost,
     Change, SeedFromMirror, TouchLastSeen, Age, ListDocs, Fault, DeleteParent
<1>17. QED
  BY <1>1, <1>2, <1>3, <1>4, <1>5, <1>6, <1>7, <1>8, <1>9, <1>10, <1>11,
     <1>12, <1>13, <1>14, <1>15, <1>16, Cases, Zenon


\* Only Set writes and only Remember learns (pushSessions): both keep the memory
\* of the only process truthful, and every other step leaves it alone.
LEMMA CacheStep ==
  ASSUME TypeOK, Local, Solo, KeptIsStored, CacheTruthful, [Next]_vars
  PROVE  CacheTruthful'
<1>1. CASE LeavesMemory
  <2> SUFFICES ASSUME Alone', NEW p \in Procs, NEW k \in Keys, cache'[p][k] # Nil
               PROVE  doc'[k] = Nil \/ doc'[k] = cache'[p][k] \/ Correcting(p, k)'
    BY DEF CacheTruthful
  <2>1. Alone /\ cache[p][k] = cache'[p][k] /\ doc'[k] \in {doc[k], Nil}
    BY <1>1 DEF LeavesMemory, Alone
  <2>2. CASE doc[k] = Nil \/ doc[k] = cache[p][k]
    BY <2>1, <2>2
  <2>3. CASE Correcting(p, k)
    BY <1>1, <2>3 DEF Correcting, LeavesMemory
  <2>4. QED BY <2>1, <2>2, <2>3 DEF CacheTruthful
<1>2. ASSUME NEW r \in Reqs, NEW p \in Procs, Push(r, p)
      PROVE  CacheTruthful'
  BY <1>1, <1>2, MirrorAssumption DEF TypeOK, mirror, memory, LeavesMemory,
     Push, Arrive
<1>3. ASSUME NEW r \in Reqs, NEW p \in Procs, NEW k \in Keys, DeleteSession(r, p, k)
      PROVE  CacheTruthful'
  BY <1>1, <1>3, MirrorAssumption DEF TypeOK, mirror, LeavesMemory,
     DeleteSession, Arrive, ForgetKeys
<1>4. ASSUME NEW r \in Reqs, sessionStatusByKey(r)
      PROVE  CacheTruthful'
  BY <1>1, <1>4, MirrorAssumption DEF TypeOK, ghost, mirror, memory,
     LeavesMemory, sessionStatusByKey, Fault
<1>5. ASSUME NEW r \in Reqs, NEW k \in Keys, Lookup(r, k)
      PROVE  CacheTruthful'
  BY <1>1, <1>5, MirrorAssumption DEF TypeOK, ghost, mirror, memory,
     LeavesMemory, Lookup
<1>6. ASSUME NEW r \in Reqs, Get(r)
      PROVE  CacheTruthful'
  BY <1>1, <1>6, MirrorAssumption DEF TypeOK, ghost, mirror, memory,
     LeavesMemory, Get, Fault
<1>7. ASSUME NEW r \in Reqs, Set(r)
      PROVE  CacheTruthful'
  <2>1. CASE Written(r) /\ rpc' = [rpc EXCEPT ![r] = "keep"] /\ faults' = faults
    BY <1>7, <2>1, MirrorAssumption DEF TypeOK, ghost, mirror, memory,
       CacheTruthful, Correcting, Alone, Solo, Set, Written, Fault
  <2>2. CASE Fault /\ rpc' = [rpc EXCEPT ![r] = "drop"] /\ Written(r)
    BY <1>7, <2>2, MirrorAssumption DEF TypeOK, ghost, mirror, memory,
       CacheTruthful, Correcting, Alone, Solo, Set, Written, Fault
  <2>3. CASE Fault /\ rpc' = [rpc EXCEPT ![r] = "drop"] /\ UNCHANGED <<mirror, note>>
    BY <1>7, <2>3, MirrorAssumption DEF TypeOK, ghost, mirror, memory,
       CacheTruthful, Correcting, Alone, Solo, Set, Written, Fault
  <2>4. QED BY <1>7, <2>1, <2>2, <2>3 DEF Set
<1>8. ASSUME NEW r \in Reqs, Remember(r)
      PROVE  CacheTruthful'
  BY <1>8, MirrorAssumption DEF TypeOK, ghost, mirror, CacheTruthful,
     Correcting, Alone, KeptIsStored, Remember
<1>9. ASSUME NEW r \in Reqs, Forget(r)
      PROVE  CacheTruthful'
  BY <1>9, MirrorAssumption DEF TypeOK, ghost, mirror, CacheTruthful,
     Correcting, Alone, Forget, ForgetKeys, Done
<1>10. ASSUME NEW r \in Reqs, Tail(r)
      PROVE  CacheTruthful'
  BY <1>1, <1>10, MirrorAssumption DEF TypeOK, ghost, mirror, memory,
     LeavesMemory, Tail, Fault
<1>11. ASSUME NEW r \in Reqs, Dispatch(r)
      PROVE  CacheTruthful'
  BY <1>1, <1>11, MirrorAssumption DEF TypeOK, ghost, mirror, memory,
     LeavesMemory, Dispatch, Done, Fault
<1>12. ASSUME NEW r \in Reqs, DeleteDoc(r)
      PROVE  CacheTruthful'
  BY <1>1, <1>12, MirrorAssumption DEF TypeOK, ghost, mirror, memory,
     LeavesMemory, DeleteDoc, Deleted, Done, Fault
<1>13. ASSUME NEW p \in Procs, Restart(p)
      PROVE  CacheTruthful'
  BY <1>13, MirrorAssumption DEF TypeOK, ghost, mirror, CacheTruthful,
     Correcting, Alone, Restart, ForgetKeys, Fault
<1>14. ASSUME NEW p \in Procs, forgetPC(p)
      PROVE  CacheTruthful'
  BY <1>1, <1>14, MirrorAssumption DEF TypeOK, request, mirror, LeavesMemory,
     Quiet, forgetPC, ForgetKeys
<1>15. ASSUME NEW k \in Keys, DeleteListed(k)
      PROVE  CacheTruthful'
  BY <1>1, <1>15, MirrorAssumption DEF TypeOK, request, ghost, mirror, memory,
     LeavesMemory, DeleteListed, Deleted, Fault
<1>16. ASSUME \/ (\E k \in Keys : Change(k))
            \/ SeedFromMirror \/ TouchLastSeen \/ ListDocs \/ DeleteParent
            \/ (\E p \in Procs, k \in Keys : Age(p, k))
            \/ UNCHANGED vars
      PROVE  CacheTruthful'
  BY <1>1, <1>16 DEF LeavesMemory, vars, agent, mirror, memory, request,
     owner, ghost, Change, SeedFromMirror, TouchLastSeen, Age, ListDocs,
     Fault, DeleteParent
<1>17. QED
  BY <1>1, <1>2, <1>3, <1>4, <1>5, <1>6, <1>7, <1>8, <1>9, <1>10, <1>11,
     <1>12, <1>13, <1>14, <1>15, <1>16, Cases, Zenon


\* A write that makes a session working starts a new change, of which nothing
\* has been told (pushSessions, dispatchWebhooksForTransitions).
LEMMA WorkingStep ==
  ASSUME TypeOK, Local, Solo, WorkingIsQuiet, TransitionPending, [Next]_vars
  PROVE  WorkingIsQuiet'
<1>1. CASE UNCHANGED <<mode, doc, note>>
  BY <1>1 DEF WorkingIsQuiet, Alone, Quiet, NotifyStates
<1>2. ASSUME NEW r \in Reqs, NEW p \in Procs, Push(r, p)
      PROVE  WorkingIsQuiet'
  BY <1>2, MirrorAssumption DEF TypeOK, mirror, WorkingIsQuiet, Alone, Quiet,
     NotifyStates, Push, Arrive
<1>3. ASSUME NEW r \in Reqs, NEW p \in Procs, NEW k \in Keys, DeleteSession(r, p, k)
      PROVE  WorkingIsQuiet'
  BY <1>3, MirrorAssumption DEF TypeOK, mirror, WorkingIsQuiet, Alone, Quiet,
     NotifyStates, DeleteSession, Arrive, ForgetKeys
<1>4. ASSUME NEW r \in Reqs, Set(r)
      PROVE  WorkingIsQuiet'
  <2>1. CASE Written(r) /\ rpc' = [rpc EXCEPT ![r] = "keep"] /\ faults' = faults
    BY <1>4, <2>1, MirrorAssumption DEF TypeOK, ghost, mirror, WorkingIsQuiet,
       Alone, Quiet, NotifyStates, Set, Written, Fault
  <2>2. CASE Fault /\ rpc' = [rpc EXCEPT ![r] = "drop"] /\ Written(r)
    BY <1>4, <2>2, MirrorAssumption DEF TypeOK, ghost, mirror, WorkingIsQuiet,
       Alone, Quiet, NotifyStates, Set, Written, Fault
  <2>3. CASE Fault /\ rpc' = [rpc EXCEPT ![r] = "drop"] /\ UNCHANGED <<mirror, note>>
    BY <1>4, <2>3, MirrorAssumption DEF TypeOK, ghost, mirror, WorkingIsQuiet,
       Alone, Quiet, NotifyStates, Set, Written, Fault
  <2>4. QED BY <1>4, <2>1, <2>2, <2>3 DEF Set
<1>5. ASSUME NEW r \in Reqs, Dispatch(r)
      PROVE  WorkingIsQuiet'
  BY <1>5, MirrorAssumption DEF TypeOK, ghost, mirror, WorkingIsQuiet, Alone,
     Quiet, NotifyStates, Local, TransitionPending, PendingAt, Past, Dispatch,
     Done, Fault
<1>6. ASSUME NEW r \in Reqs, DeleteDoc(r)
      PROVE  WorkingIsQuiet'
  BY <1>6, MirrorAssumption DEF TypeOK, ghost, mirror, WorkingIsQuiet, Alone,
     Quiet, NotifyStates, DeleteDoc, Deleted, Done, Fault
<1>7. ASSUME NEW p \in Procs, forgetPC(p)
      PROVE  WorkingIsQuiet'
  BY <1>7, MirrorAssumption DEF TypeOK, mirror, WorkingIsQuiet, Alone, Quiet,
     NotifyStates, forgetPC, ForgetKeys
<1>8. ASSUME NEW k \in Keys, DeleteListed(k)
      PROVE  WorkingIsQuiet'
  BY <1>8, MirrorAssumption DEF TypeOK, ghost, mirror, WorkingIsQuiet, Alone,
     Quiet, NotifyStates, DeleteListed, Deleted, Fault
<1>9. ASSUME \/ (\E k \in Keys : Change(k))
            \/ SeedFromMirror \/ TouchLastSeen \/ ListDocs \/ DeleteParent
            \/ (\E r \in Reqs : sessionStatusByKey(r) \/ Get(r) \/ Remember(r) \/ Forget(r) \/ Tail(r))
            \/ (\E r \in Reqs, k \in Keys : Lookup(r, k))
            \/ (\E p \in Procs, k \in Keys : Age(p, k))
            \/ (\E p \in Procs : Restart(p))
            \/ UNCHANGED vars
      PROVE  WorkingIsQuiet'
  BY <1>1, <1>9 DEF vars, agent, mirror, memory, request, owner, ghost,
     Change, SeedFromMirror, TouchLastSeen, sessionStatusByKey, Fault, Lookup,
     Get, Remember, Forget, ForgetKeys, Done, Tail, Age, Restart, ListDocs,
     DeleteParent
<1>10. QED
  BY <1>1, <1>2, <1>3, <1>4, <1>5, <1>6, <1>7, <1>8, <1>9, Cases, Zenon


\* From its read of the old statuses to its webhooks, a request has a transition
\* still to write or has made it due (slavePush).
LEMMA PendingStep ==
  ASSUME TypeOK, Local, Solo, CacheTruthful, TransitionPending, [Next]_vars
  PROVE  TransitionPending'
<1>1. CASE UNCHANGED <<mode, rpc, doc, note, old, body, cur, todo>>
  BY <1>1 DEF TransitionPending, PendingAt, Transition, NotifyStates, Past,
    Alone
<1>2. ASSUME NEW r \in Reqs, NEW p \in Procs, Push(r, p)
      PROVE  TransitionPending'
  BY <1>2, MirrorAssumption DEF TypeOK, mirror, TransitionPending, PendingAt,
     Transition, NotifyStates, Past, Alone, Push, Arrive
<1>3. ASSUME NEW r \in Reqs, NEW p \in Procs, NEW k \in Keys, DeleteSession(r, p, k)
      PROVE  TransitionPending'
  BY <1>3, MirrorAssumption DEF TypeOK, mirror, TransitionPending, PendingAt,
     Transition, NotifyStates, Past, Alone, DeleteSession, Arrive, ForgetKeys
<1>4. ASSUME NEW r \in Reqs, sessionStatusByKey(r)
      PROVE  TransitionPending'
  BY <1>4, MirrorAssumption DEF TypeOK, ghost, mirror, TransitionPending,
     PendingAt, Transition, NotifyStates, Past, Alone, Local,
     sessionStatusByKey, Fault
<1>5. ASSUME NEW r \in Reqs, NEW k \in Keys, Lookup(r, k)
      PROVE  TransitionPending'
  <2>1. CASE cache[rproc[r]][k] = body[r][k] /\ UNCHANGED <<rpc, cur>>
    <3> SUFFICES ASSUME Alone', NEW q \in Reqs, NEW j \in Keys PROVE PendingAt(q, j)'
      BY DEF TransitionPending
    <3>1. Alone /\ PendingAt(q, j)
      BY <1>5 DEF Alone, Lookup, ghost, TransitionPending
    <3>2. CASE q = r /\ j = k /\ doc[k] = "working" /\ Transition(r, k)
      <4>1. ~Correcting(rproc[r], k)
        BY <1>5, <3>1 DEF Correcting, Solo, Lookup
      <4>2. QED BY <1>5, <2>1, <3>1, <3>2, <4>1, MirrorAssumption
            DEF TypeOK, CacheTruthful, Lookup, Transition, NotifyStates
    <3>3. CASE ~(q = r /\ j = k /\ doc[k] = "working" /\ Transition(r, k))
      BY <1>5, <2>1, <3>1, <3>3
      DEF TypeOK, PendingAt, Transition, Lookup, mirror, memory, request
    <3>4. QED BY <3>2, <3>3
  <2>2. CASE /\ rpc' = [rpc EXCEPT ![r] = "get"]
             /\ cur' = [cur EXCEPT ![r] = k]
    BY <1>5, <2>2 DEF TypeOK, mirror, ghost, TransitionPending, PendingAt, Transition,
       Past, Alone, Lookup
  <2>3. QED BY <1>5, <2>1, <2>2 DEF Lookup, Unchanged
<1>6. ASSUME NEW r \in Reqs, Get(r)
      PROVE  TransitionPending'
  BY <1>6, MirrorAssumption DEF TypeOK, ghost, mirror, TransitionPending,
     PendingAt, Transition, NotifyStates, Past, Alone, Get, Fault
<1>7. ASSUME NEW r \in Reqs, Set(r)
      PROVE  TransitionPending'
  <2> SUFFICES ASSUME Alone', NEW q \in Reqs, NEW j \in Keys PROVE PendingAt(q, j)'
    BY DEF TransitionPending
  <2>1. Alone /\ PendingAt(q, j)
    BY <1>7 DEF Alone, Set, ghost, TransitionPending
  <2>2. CASE q # r
    BY <1>7, <2>1, <2>2 DEF TypeOK, Solo, PendingAt, Past, Set
  <2>3. CASE q = r /\ Written(r)
    <3>1. CASE j = cur[r]
      BY <1>7, <2>1, <2>3, <3>1, MirrorAssumption DEF TypeOK, PendingAt, Past, Transition,
         NotifyStates, Set, Written
    <3>2. CASE j # cur[r]
      BY <1>7, <2>1, <2>3, <3>2 DEF TypeOK, PendingAt, Past, Transition, Set, Written
    <3>3. QED BY <3>1, <3>2
  <2>4. CASE q = r /\ UNCHANGED <<mirror, note>> /\ rpc' = [rpc EXCEPT ![r] = "drop"]
    BY <1>7, <2>1, <2>4 DEF TypeOK, mirror, PendingAt, Past, Transition, Set
  <2>5. QED BY <1>7, <2>2, <2>3, <2>4 DEF Set
<1>8. ASSUME NEW r \in Reqs, Remember(r)
      PROVE  TransitionPending'
  BY <1>8, MirrorAssumption DEF TypeOK, ghost, mirror, TransitionPending,
     PendingAt, Transition, NotifyStates, Past, Alone, Remember
<1>9. ASSUME NEW r \in Reqs, Forget(r)
      PROVE  TransitionPending'
  BY <1>9, MirrorAssumption DEF TypeOK, ghost, mirror, TransitionPending,
     PendingAt, Transition, NotifyStates, Past, Alone, Forget, ForgetKeys,
     Done
<1>10. ASSUME NEW r \in Reqs, Tail(r)
      PROVE  TransitionPending'
  BY <1>10, MirrorAssumption DEF TypeOK, ghost, mirror, TransitionPending,
     PendingAt, Transition, NotifyStates, Past, Alone, Tail, Fault
<1>11. ASSUME NEW r \in Reqs, Dispatch(r)
      PROVE  TransitionPending'
  BY <1>11, MirrorAssumption DEF TypeOK, ghost, mirror, TransitionPending,
     PendingAt, Transition, NotifyStates, Past, Alone, Solo, Dispatch, Done,
     Fault
<1>12. ASSUME NEW r \in Reqs, DeleteDoc(r)
      PROVE  TransitionPending'
  <2> SUFFICES ASSUME Alone', NEW q \in Reqs, NEW j \in Keys PROVE PendingAt(q, j)'
    BY DEF TransitionPending
  <2>1. Alone /\ rpc' = [rpc EXCEPT ![r] = "idle"]
    BY <1>12 DEF Alone, DeleteDoc, Done, ghost
  <2>2. rpc'[q] = "idle"
    BY <1>12, <2>1 DEF TypeOK, Solo, DeleteDoc
  <2>3. QED BY <2>2 DEF PendingAt, Past
<1>13. ASSUME NEW p \in Procs, Restart(p)
      PROVE  TransitionPending'
  BY <1>13, MirrorAssumption DEF TypeOK, ghost, mirror, TransitionPending,
     PendingAt, Transition, NotifyStates, Past, Alone, Restart, ForgetKeys,
     Fault
<1>14. ASSUME NEW p \in Procs, forgetPC(p)
      PROVE  TransitionPending'
  BY <1>14, MirrorAssumption DEF TypeOK, request, mirror, TransitionPending,
     PendingAt, Transition, NotifyStates, Past, Alone, Solo, forgetPC,
     ForgetKeys
<1>15. ASSUME NEW k \in Keys, DeleteListed(k)
      PROVE  TransitionPending'
  BY <1>15, MirrorAssumption DEF TypeOK, request, ghost, mirror,
     TransitionPending, PendingAt, Transition, NotifyStates, Past, Alone,
     Solo, DeleteListed, Deleted, Fault
<1>16. ASSUME \/ (\E k \in Keys : Change(k))
            \/ SeedFromMirror \/ TouchLastSeen \/ ListDocs \/ DeleteParent
            \/ (\E p \in Procs, k \in Keys : Age(p, k))
            \/ UNCHANGED vars
      PROVE  TransitionPending'
  BY <1>1, <1>16 DEF vars, agent, mirror, memory, request, owner, ghost,
     Change, SeedFromMirror, TouchLastSeen, Age, ListDocs, Fault, DeleteParent
<1>17. QED
  BY <1>1, <1>2, <1>3, <1>4, <1>5, <1>6, <1>7, <1>8, <1>9, <1>10, <1>11,
     <1>12, <1>13, <1>14, <1>15, <1>16, Cases, Zenon


\* A webhook is only sent for a change that is due, hence not for one that was
\* told already (dispatchWebhooksForTransitions).
LEMMA DuplicateStep ==
  ASSUME TypeOK, Local, TransitionPending, NoDuplicateWebhookAlone,
         [Next]_vars
  PROVE  NoDuplicateWebhookAlone'
<1>1. CASE UNCHANGED <<mode, note>>
  BY <1>1 DEF NoDuplicateWebhookAlone, NoDuplicateWebhook, Alone, Quiet
<1>2. ASSUME NEW r \in Reqs, NEW p \in Procs, Push(r, p)
      PROVE  NoDuplicateWebhookAlone'
  BY <1>2, MirrorAssumption DEF TypeOK, NoDuplicateWebhookAlone,
     NoDuplicateWebhook, Alone, Quiet, Push, Arrive
<1>3. ASSUME NEW r \in Reqs, NEW p \in Procs, NEW k \in Keys, DeleteSession(r, p, k)
      PROVE  NoDuplicateWebhookAlone'
  BY <1>3, MirrorAssumption DEF TypeOK, NoDuplicateWebhookAlone,
     NoDuplicateWebhook, Alone, Quiet, DeleteSession, Arrive, ForgetKeys
<1>4. ASSUME NEW r \in Reqs, Set(r)
      PROVE  NoDuplicateWebhookAlone'
  BY <1>4, MirrorAssumption DEF TypeOK, ghost, NoDuplicateWebhookAlone,
     NoDuplicateWebhook, Alone, Quiet, Set, Written, Fault
<1>5. ASSUME NEW r \in Reqs, Dispatch(r)
      PROVE  NoDuplicateWebhookAlone'
  <2>1. mode' = mode /\ rpc[r] = "notify" /\ todo[r] = {}
    BY <1>5 DEF ghost, Dispatch, Local
  <2>2. SUFFICES ASSUME mode = "alone", NEW k \in Keys PROVE note'[k] # "twice"
    BY <2>1 DEF NoDuplicateWebhookAlone, NoDuplicateWebhook, Alone
  <2>3. note[k] # "twice" /\ (Transition(r, k) => note[k] = "due")
    BY <2>1, <2>2 DEF NoDuplicateWebhookAlone, NoDuplicateWebhook, Alone,
       TransitionPending, PendingAt, Past
  <2>4. \/ note' = note
        \/ note'[k] = IF ~Transition(r, k) THEN note[k]
                      ELSE IF note[k] \in {"quiet", "due"} THEN "sent" ELSE "twice"
    BY <1>5 DEF Dispatch
  <2> QED
    BY <2>3, <2>4
<1>6. ASSUME NEW r \in Reqs, DeleteDoc(r)
      PROVE  NoDuplicateWebhookAlone'
  BY <1>6, MirrorAssumption DEF TypeOK, ghost, NoDuplicateWebhookAlone,
     NoDuplicateWebhook, Alone, Quiet, DeleteDoc, Deleted, Done, Fault
<1>7. ASSUME NEW p \in Procs, forgetPC(p)
      PROVE  NoDuplicateWebhookAlone'
  BY <1>7, MirrorAssumption DEF TypeOK, NoDuplicateWebhookAlone,
     NoDuplicateWebhook, Alone, Quiet, forgetPC, ForgetKeys
<1>8. ASSUME NEW k \in Keys, DeleteListed(k)
      PROVE  NoDuplicateWebhookAlone'
  BY <1>8, MirrorAssumption DEF TypeOK, ghost, NoDuplicateWebhookAlone,
     NoDuplicateWebhook, Alone, Quiet, DeleteListed, Deleted, Fault
<1>9. ASSUME \/ (\E k \in Keys : Change(k))
            \/ SeedFromMirror \/ TouchLastSeen \/ ListDocs \/ DeleteParent
            \/ (\E r \in Reqs : sessionStatusByKey(r) \/ Get(r) \/ Remember(r) \/ Forget(r) \/ Tail(r))
            \/ (\E r \in Reqs, k \in Keys : Lookup(r, k))
            \/ (\E p \in Procs, k \in Keys : Age(p, k))
            \/ (\E p \in Procs : Restart(p))
            \/ UNCHANGED vars
      PROVE  NoDuplicateWebhookAlone'
  BY <1>1, <1>9 DEF vars, agent, mirror, memory, request, owner, ghost,
     Change, SeedFromMirror, TouchLastSeen, sessionStatusByKey, Fault, Lookup,
     Get, Remember, Forget, ForgetKeys, Done, Tail, Age, Restart, ListDocs,
     DeleteParent
<1>10. QED
  BY <1>1, <1>2, <1>3, <1>4, <1>5, <1>6, <1>7, <1>8, <1>9, Cases, Zenon


\* The version computed from the document read is still the next one when
\* pushSessions writes, short of failures.
LEMMA VersionStep ==
  ASSUME TypeOK, Solo, VersionReady, [Next]_vars
  PROVE  VersionReady'
<1>1. CASE UNCHANGED <<mode, faults, rpc, doc, dver, body, cur, ver>>
  BY <1>1 DEF VersionReady, Sound, Alone
<1>2. ASSUME NEW r \in Reqs, NEW p \in Procs, Push(r, p)
      PROVE  VersionReady'
  BY <1>2, MirrorAssumption DEF TypeOK, mirror, VersionReady, Sound, Alone,
     Push, Arrive
<1>3. ASSUME NEW r \in Reqs, NEW p \in Procs, NEW k \in Keys, DeleteSession(r, p, k)
      PROVE  VersionReady'
  BY <1>3, MirrorAssumption DEF TypeOK, mirror, VersionReady, Sound, Alone,
     DeleteSession, Arrive, ForgetKeys
<1>4. ASSUME NEW r \in Reqs, sessionStatusByKey(r)
      PROVE  VersionReady'
  BY <1>4, MirrorAssumption DEF TypeOK, ghost, mirror, VersionReady, Sound,
     Alone, sessionStatusByKey, Fault
<1>5. ASSUME NEW r \in Reqs, NEW k \in Keys, Lookup(r, k)
      PROVE  VersionReady'
  BY <1>5, MirrorAssumption DEF TypeOK, ghost, mirror, VersionReady, Sound,
     Alone, Lookup
<1>6. ASSUME NEW r \in Reqs, Get(r)
      PROVE  VersionReady'
  <2>1. mode' = mode /\ doc' = doc /\ dver' = dver /\ body' = body /\ cur' = cur
    BY <1>6 DEF ghost, mirror, Get
  <2>2. faults' = faults \/ faults' = faults + 1
    BY <1>6 DEF Get, Fault
  <2>3. \A q \in Reqs : q # r => rpc'[q] = rpc[q] /\ ver'[q] = ver[q]
    BY <1>6 DEF Get, TypeOK
  <2>4. faults' = 0 /\ rpc'[r] = "set" =>
          \/ doc[cur[r]] = Nil
          \/ doc[cur[r]] # body[r][cur[r]] /\ ver'[r] = dver[cur[r]] + 1
    <3>1. CASE doc[cur[r]] = Nil
      BY <3>1
    <3>2. CASE doc[cur[r]] # Nil /\ doc[cur[r]] = body[r][cur[r]] /\ rpc' = [rpc EXCEPT ![r] = "keep"]
      BY <3>2 DEF TypeOK
    <3>3. CASE doc[cur[r]] # body[r][cur[r]] /\ ver' = [ver EXCEPT ![r] = dver[cur[r]] + 1]
      BY <3>3 DEF TypeOK
    <3>4. CASE faults' = faults + 1
      BY <3>4 DEF TypeOK
    <3> QED
      BY <1>6, <3>1, <3>2, <3>3, <3>4, Zenon DEF Get, Fault
  <2>5. faults \in Nat
    BY MirrorAssumption DEF TypeOK
  <2>6. Sound' => Sound
    BY <2>1, <2>2, <2>5 DEF Sound, Alone
  <2> QED
    BY <2>1, <2>3, <2>4, <2>6 DEF VersionReady, Sound
<1>7. ASSUME NEW r \in Reqs, Set(r)
      PROVE  VersionReady'
  <2>1. CASE Written(r) /\ rpc' = [rpc EXCEPT ![r] = "keep"] /\ faults' = faults
    BY <1>7, <2>1, MirrorAssumption DEF TypeOK, ghost, mirror, VersionReady,
       Sound, Alone, Solo, Set, Written, Fault
  <2>2. CASE Fault /\ rpc' = [rpc EXCEPT ![r] = "drop"] /\ Written(r)
    BY <1>7, <2>2, MirrorAssumption DEF TypeOK, ghost, mirror, VersionReady,
       Sound, Alone, Solo, Set, Written, Fault
  <2>3. CASE Fault /\ rpc' = [rpc EXCEPT ![r] = "drop"] /\ UNCHANGED <<mirror, note>>
    BY <1>7, <2>3, MirrorAssumption DEF TypeOK, ghost, mirror, VersionReady,
       Sound, Alone, Solo, Set, Written, Fault
  <2>4. QED BY <1>7, <2>1, <2>2, <2>3 DEF Set
<1>8. ASSUME NEW r \in Reqs, Remember(r)
      PROVE  VersionReady'
  BY <1>8, MirrorAssumption DEF TypeOK, ghost, mirror, VersionReady, Sound,
     Alone, Remember
<1>9. ASSUME NEW r \in Reqs, Forget(r)
      PROVE  VersionReady'
  BY <1>9, MirrorAssumption DEF TypeOK, ghost, mirror, VersionReady, Sound,
     Alone, Forget, ForgetKeys, Done
<1>10. ASSUME NEW r \in Reqs, Tail(r)
      PROVE  VersionReady'
  BY <1>10, MirrorAssumption DEF TypeOK, ghost, mirror, VersionReady, Sound,
     Alone, Tail, Fault
<1>11. ASSUME NEW r \in Reqs, Dispatch(r)
      PROVE  VersionReady'
  BY <1>11, MirrorAssumption DEF TypeOK, ghost, mirror, VersionReady, Sound,
     Alone, Dispatch, Done, Fault
<1>12. ASSUME NEW r \in Reqs, DeleteDoc(r)
      PROVE  VersionReady'
  <2>1. CASE Deleted(cur[r]) /\ prev' = prev \ {cur[r]} /\ faults' = faults
    BY <1>12, <2>1, MirrorAssumption DEF TypeOK, ghost, mirror, VersionReady,
       Sound, Alone, DeleteDoc, Deleted, Done, Fault
  <2>2. CASE Deleted(cur[r]) /\ prev' = prev /\ Fault
    BY <1>12, <2>2, MirrorAssumption DEF TypeOK, ghost, mirror, VersionReady,
       Sound, Alone, DeleteDoc, Deleted, Done, Fault
  <2>3. CASE UNCHANGED <<mirror, note>> /\ prev' = prev /\ Fault
    BY <1>12, <2>3, MirrorAssumption DEF TypeOK, ghost, mirror, VersionReady,
       Sound, Alone, DeleteDoc, Deleted, Done, Fault
  <2>4. QED BY <1>12, <2>1, <2>2, <2>3 DEF DeleteDoc
<1>13. ASSUME NEW p \in Procs, Restart(p)
      PROVE  VersionReady'
  BY <1>13, MirrorAssumption DEF TypeOK, ghost, mirror, VersionReady, Sound,
     Alone, Restart, ForgetKeys, Fault
<1>14. ASSUME NEW p \in Procs, forgetPC(p)
      PROVE  VersionReady'
  BY <1>14, MirrorAssumption DEF TypeOK, request, mirror, VersionReady, Sound,
     Alone, forgetPC, ForgetKeys
<1>15. ASSUME ListDocs
      PROVE  VersionReady'
  BY <1>15, MirrorAssumption DEF TypeOK, request, ghost, mirror, VersionReady,
     Sound, Alone, ListDocs, Fault
<1>16. ASSUME NEW k \in Keys, DeleteListed(k)
      PROVE  VersionReady'
  BY <1>16, MirrorAssumption DEF TypeOK, request, ghost, mirror, VersionReady,
     Sound, Alone, DeleteListed, Deleted, Fault
<1>17. ASSUME DeleteParent
      PROVE  VersionReady'
  BY <1>17, MirrorAssumption DEF TypeOK, request, ghost, mirror, VersionReady,
     Sound, Alone, DeleteParent, Fault
<1>18. ASSUME \/ (\E k \in Keys : Change(k))
            \/ SeedFromMirror \/ TouchLastSeen
            \/ (\E p \in Procs, k \in Keys : Age(p, k))
            \/ UNCHANGED vars
      PROVE  VersionReady'
  BY <1>1, <1>18 DEF vars, agent, mirror, memory, request, owner, ghost,
     Change, SeedFromMirror, TouchLastSeen, Age
<1>19. QED
  BY <1>1, <1>2, <1>3, <1>4, <1>5, <1>6, <1>7, <1>8, <1>9, <1>10, <1>11,
     <1>12, <1>13, <1>14, <1>15, <1>16, <1>17, <1>18, Cases, Zenon


\* Short of failures the old statuses of sessions not yet written are the stored
\* ones (sessionStatusByKey).
LEMMA OldStep ==
  ASSUME TypeOK, Local, Solo, OldIsStored, [Next]_vars
  PROVE  OldIsStored'
<1>1. CASE UNCHANGED <<mode, faults, rpc, todo, cur, old, doc>>
  BY <1>1 DEF OldIsStored, Sound, Alone, Past
<1>2. ASSUME NEW r \in Reqs, NEW p \in Procs, Push(r, p)
      PROVE  OldIsStored'
  BY <1>2, MirrorAssumption DEF TypeOK, mirror, OldIsStored, Sound, Alone,
     Past, Push, Arrive
<1>3. ASSUME NEW r \in Reqs, NEW p \in Procs, NEW k \in Keys, DeleteSession(r, p, k)
      PROVE  OldIsStored'
  BY <1>3, MirrorAssumption DEF TypeOK, mirror, OldIsStored, Sound, Alone,
     Past, DeleteSession, Arrive, ForgetKeys
<1>4. ASSUME NEW r \in Reqs, sessionStatusByKey(r)
      PROVE  OldIsStored'
  BY <1>4, MirrorAssumption DEF TypeOK, ghost, mirror, OldIsStored, Sound,
     Alone, Past, sessionStatusByKey, Fault
<1>5. ASSUME NEW r \in Reqs, NEW k \in Keys, Lookup(r, k)
      PROVE  OldIsStored'
  BY <1>5, MirrorAssumption DEF TypeOK, ghost, mirror, OldIsStored, Sound,
     Alone, Past, Lookup
<1>6. ASSUME NEW r \in Reqs, Get(r)
      PROVE  OldIsStored'
  BY <1>6, MirrorAssumption DEF TypeOK, ghost, mirror, OldIsStored, Sound,
     Alone, Past, Get, Fault
<1>7. ASSUME NEW r \in Reqs, Set(r)
      PROVE  OldIsStored'
  BY <1>7, MirrorAssumption DEF TypeOK, ghost, mirror, OldIsStored, Sound,
     Alone, Past, Solo, Local, OnKey, Set, Written, Fault
<1>8. ASSUME NEW r \in Reqs, Remember(r)
      PROVE  OldIsStored'
  BY <1>8, MirrorAssumption DEF TypeOK, ghost, mirror, OldIsStored, Sound,
     Alone, Past, Remember
<1>9. ASSUME NEW r \in Reqs, Forget(r)
      PROVE  OldIsStored'
  BY <1>9, MirrorAssumption DEF TypeOK, ghost, mirror, OldIsStored, Sound,
     Alone, Past, Forget, ForgetKeys, Done
<1>10. ASSUME NEW r \in Reqs, Tail(r)
      PROVE  OldIsStored'
  BY <1>10, MirrorAssumption DEF TypeOK, ghost, mirror, OldIsStored, Sound,
     Alone, Past, Tail, Fault
<1>11. ASSUME NEW r \in Reqs, Dispatch(r)
      PROVE  OldIsStored'
  BY <1>11, MirrorAssumption DEF TypeOK, ghost, mirror, OldIsStored, Sound,
     Alone, Past, Dispatch, Done, Fault
<1>12. ASSUME NEW r \in Reqs, DeleteDoc(r)
      PROVE  OldIsStored'
  BY <1>12, MirrorAssumption DEF TypeOK, ghost, mirror, OldIsStored, Sound,
     Alone, Past, Solo, DeleteDoc, Deleted, Done, Fault
<1>13. ASSUME NEW p \in Procs, Restart(p)
      PROVE  OldIsStored'
  BY <1>13, MirrorAssumption DEF TypeOK, ghost, mirror, OldIsStored, Sound,
     Alone, Past, Restart, ForgetKeys, Fault
<1>14. ASSUME NEW p \in Procs, forgetPC(p)
      PROVE  OldIsStored'
  BY <1>14, MirrorAssumption DEF TypeOK, request, mirror, OldIsStored, Sound,
     Alone, Past, forgetPC, ForgetKeys
<1>15. ASSUME ListDocs
      PROVE  OldIsStored'
  BY <1>15, MirrorAssumption DEF TypeOK, request, ghost, mirror, OldIsStored,
     Sound, Alone, Past, ListDocs, Fault
<1>16. ASSUME NEW k \in Keys, DeleteListed(k)
      PROVE  OldIsStored'
  BY <1>16, MirrorAssumption DEF TypeOK, request, ghost, mirror, OldIsStored,
     Sound, Alone, Past, Solo, DeleteListed, Deleted, Fault
<1>17. ASSUME DeleteParent
      PROVE  OldIsStored'
  BY <1>17, MirrorAssumption DEF TypeOK, request, ghost, mirror, OldIsStored,
     Sound, Alone, Past, DeleteParent, Fault
<1>18. ASSUME \/ (\E k \in Keys : Change(k))
            \/ SeedFromMirror \/ TouchLastSeen
            \/ (\E p \in Procs, k \in Keys : Age(p, k))
            \/ UNCHANGED vars
      PROVE  OldIsStored'
  BY <1>1, <1>18 DEF vars, agent, mirror, memory, request, owner, ghost,
     Change, SeedFromMirror, TouchLastSeen, Age
<1>19. QED
  BY <1>1, <1>2, <1>3, <1>4, <1>5, <1>6, <1>7, <1>8, <1>9, <1>10, <1>11,
     <1>12, <1>13, <1>14, <1>15, <1>16, <1>17, <1>18, Cases, Zenon


\* Short of failures a change that is due belongs to a request that is still on
\* its way to its webhooks (slavePush).
LEMMA TellerStep ==
  ASSUME TypeOK, Local, Solo, OldIsStored, DueHasTeller, [Next]_vars
  PROVE  DueHasTeller'
<1>1. CASE UNCHANGED <<mode, faults, note, rpc, old, body>>
  BY <1>1 DEF DueHasTeller, Transition, Sound, Alone, Past
<1>2. ASSUME NEW r \in Reqs, NEW p \in Procs, Push(r, p)
      PROVE  DueHasTeller'
  BY <1>2, MirrorAssumption DEF TypeOK, DueHasTeller, Transition, Sound,
     Alone, Past, Push, Arrive
<1>3. ASSUME NEW r \in Reqs, NEW p \in Procs, NEW k \in Keys, DeleteSession(r, p, k)
      PROVE  DueHasTeller'
  BY <1>3, MirrorAssumption DEF TypeOK, DueHasTeller, Transition, Sound,
     Alone, Past, DeleteSession, Arrive, ForgetKeys
<1>4. ASSUME NEW r \in Reqs, sessionStatusByKey(r)
      PROVE  DueHasTeller'
  <2>1. CASE old' = [old EXCEPT ![r] = doc] /\ faults' = faults
    BY <1>4, <2>1, MirrorAssumption DEF TypeOK, ghost, DueHasTeller,
       Transition, Sound, Alone, Past, sessionStatusByKey, Fault
  <2>2. CASE old' = old /\ Fault
    BY <1>4, <2>2, MirrorAssumption DEF TypeOK, ghost, DueHasTeller,
       Transition, Sound, Alone, Past, sessionStatusByKey, Fault
  <2>3. QED BY <1>4, <2>1, <2>2 DEF sessionStatusByKey
<1>5. ASSUME NEW r \in Reqs, NEW k \in Keys, Lookup(r, k)
      PROVE  DueHasTeller'
  BY <1>5, MirrorAssumption DEF TypeOK, ghost, DueHasTeller, Transition,
     Sound, Alone, Past, Lookup
<1>6. ASSUME NEW r \in Reqs, Get(r)
      PROVE  DueHasTeller'
  <2>1. CASE /\ doc[cur[r]] = body[r][cur[r]]
             /\ rpc' = [rpc EXCEPT ![r] = "keep"]
             /\ UNCHANGED <<ver, chg, faults>>
    BY <1>6, <2>1, MirrorAssumption DEF TypeOK, ghost, DueHasTeller,
       Transition, Sound, Alone, Past, Get, Fault
  <2>2. CASE /\ doc[cur[r]] # body[r][cur[r]]
             /\ rpc' = [rpc EXCEPT ![r] = "set"]
             /\ ver' = [ver EXCEPT ![r] = dver[cur[r]] + 1]
             /\ chg' = chg \cup {r}
             /\ faults' = faults
    BY <1>6, <2>2, MirrorAssumption DEF TypeOK, ghost, DueHasTeller,
       Transition, Sound, Alone, Past, Get, Fault
  <2>3. CASE /\ (doc[cur[r]] = Nil /\ faults' = faults) \/ Fault
             /\ rpc' = [rpc EXCEPT ![r] = "set"]
             /\ ver' = [ver EXCEPT ![r] = 1]
             /\ chg' = chg \cup {r}
    BY <1>6, <2>3, MirrorAssumption DEF TypeOK, ghost, DueHasTeller,
       Transition, Sound, Alone, Past, Get, Fault
  <2>4. QED BY <1>6, <2>1, <2>2, <2>3 DEF Get
<1>7. ASSUME NEW r \in Reqs, Set(r)
      PROVE  DueHasTeller'
  BY <1>7, MirrorAssumption DEF TypeOK, ghost, DueHasTeller, Transition,
     Sound, Alone, Past, OldIsStored, Set, Written, Fault
<1>8. ASSUME NEW r \in Reqs, Remember(r)
      PROVE  DueHasTeller'
  BY <1>8, MirrorAssumption DEF TypeOK, ghost, DueHasTeller, Transition,
     Sound, Alone, Past, Remember
<1>9. ASSUME NEW r \in Reqs, Forget(r)
      PROVE  DueHasTeller'
  BY <1>9, MirrorAssumption DEF TypeOK, ghost, DueHasTeller, Transition,
     Sound, Alone, Past, Local, Forget, ForgetKeys, Done
<1>10. ASSUME NEW r \in Reqs, Tail(r)
      PROVE  DueHasTeller'
  BY <1>10, MirrorAssumption DEF TypeOK, ghost, DueHasTeller, Transition,
     Sound, Alone, Past, Tail, Fault
<1>11. ASSUME NEW r \in Reqs, Dispatch(r)
      PROVE  DueHasTeller'
  <2>1. CASE note' = [k \in Keys |->
                      IF ~Transition(r, k) THEN note[k]
                      ELSE IF note[k] \in {"quiet", "due"} THEN "sent" ELSE "twice"]
             /\ faults' = faults
    BY <1>11, <2>1, MirrorAssumption DEF TypeOK, ghost, DueHasTeller,
       Transition, Sound, Alone, Past, Solo, Dispatch, Done, Fault
  <2>2. CASE note' = note /\ Fault
    BY <1>11, <2>2, MirrorAssumption DEF TypeOK, ghost, DueHasTeller,
       Transition, Sound, Alone, Past, Solo, Dispatch, Done, Fault
  <2>3. QED BY <1>11, <2>1, <2>2 DEF Dispatch
<1>12. ASSUME NEW r \in Reqs, DeleteDoc(r)
      PROVE  DueHasTeller'
  <2> SUFFICES ASSUME Sound', NEW k \in Keys, note'[k] = "due" PROVE FALSE
    BY DEF DueHasTeller
  <2>1. Sound /\ note[k] = "due"
    BY <1>12 DEF TypeOK, Sound, Alone, DeleteDoc, Deleted, Done, Fault, mirror, ghost
  <2>2. PICK q \in Reqs : rpc[q] \in Past
    BY <2>1 DEF DueHasTeller
  <2>3. QED BY <1>12, <2>1, <2>2 DEF Solo, Sound, DeleteDoc, Past
<1>13. ASSUME NEW p \in Procs, Restart(p)
      PROVE  DueHasTeller'
  BY <1>13, MirrorAssumption DEF TypeOK, ghost, DueHasTeller, Transition,
     Sound, Alone, Past, Restart, ForgetKeys, Fault
<1>14. ASSUME NEW p \in Procs, forgetPC(p)
      PROVE  DueHasTeller'
  BY <1>14, MirrorAssumption DEF TypeOK, request, DueHasTeller, Transition,
     Sound, Alone, Past, forgetPC, ForgetKeys
<1>15. ASSUME ListDocs
      PROVE  DueHasTeller'
  BY <1>15, MirrorAssumption DEF TypeOK, request, ghost, DueHasTeller,
     Transition, Sound, Alone, Past, ListDocs, Fault
<1>16. ASSUME NEW k \in Keys, DeleteListed(k)
      PROVE  DueHasTeller'
  <2>1. CASE Deleted(k) /\ faults' = faults
    BY <1>16, <2>1, MirrorAssumption DEF TypeOK, request, ghost, DueHasTeller,
       Transition, Sound, Alone, Past, DeleteListed, Deleted, Fault
  <2>2. CASE UNCHANGED <<mirror, note>> /\ Fault
    BY <1>16, <2>2, MirrorAssumption DEF TypeOK, request, ghost, DueHasTeller,
       Transition, Sound, Alone, Past, DeleteListed, Deleted, Fault
  <2>3. QED BY <1>16, <2>1, <2>2 DEF DeleteListed
<1>17. ASSUME DeleteParent
      PROVE  DueHasTeller'
  BY <1>17, MirrorAssumption DEF TypeOK, request, ghost, DueHasTeller,
     Transition, Sound, Alone, Past, DeleteParent, Fault
<1>18. ASSUME \/ (\E k \in Keys : Change(k))
            \/ SeedFromMirror \/ TouchLastSeen
            \/ (\E p \in Procs, k \in Keys : Age(p, k))
            \/ UNCHANGED vars
      PROVE  DueHasTeller'
  BY <1>1, <1>18 DEF vars, agent, mirror, memory, request, owner, ghost,
     Change, SeedFromMirror, TouchLastSeen, Age
<1>19. QED
  BY <1>1, <1>2, <1>3, <1>4, <1>5, <1>6, <1>7, <1>8, <1>9, <1>10, <1>11,
     <1>12, <1>13, <1>14, <1>15, <1>16, <1>17, <1>18, Cases, Zenon


\* Short of failures documents without a listed parent belong to a push on its
\* way to its tail (pushSessions).
LEMMA ParentStep ==
  ASSUME TypeOK, Local, ParentPending, OwnerReachesAll, [Next]_vars
  PROVE  ParentPending'
<1>1. CASE UNCHANGED <<mode, faults, doc, parent, rpc, chg>>
  BY <1>1 DEF ParentPending, Sound, Alone
<1>2. ASSUME NEW r \in Reqs, NEW p \in Procs, Push(r, p)
      PROVE  ParentPending'
  BY <1>2, MirrorAssumption DEF TypeOK, mirror, ParentPending, Sound, Alone,
     Push, Arrive
<1>3. ASSUME NEW r \in Reqs, NEW p \in Procs, NEW k \in Keys, DeleteSession(r, p, k)
      PROVE  ParentPending'
  BY <1>3, MirrorAssumption DEF TypeOK, mirror, ParentPending, Sound, Alone,
     DeleteSession, Arrive, ForgetKeys
<1>4. ASSUME SeedFromMirror
      PROVE  ParentPending'
  BY <1>4, MirrorAssumption DEF TypeOK, request, ghost, mirror, ParentPending,
     Sound, Alone, SeedFromMirror
<1>5. ASSUME TouchLastSeen
      PROVE  ParentPending'
  BY <1>5, MirrorAssumption DEF TypeOK, request, ghost, mirror, ParentPending,
     Sound, Alone, TouchLastSeen
<1>6. ASSUME NEW r \in Reqs, sessionStatusByKey(r)
      PROVE  ParentPending'
  BY <1>6, MirrorAssumption DEF TypeOK, ghost, mirror, ParentPending, Sound,
     Alone, sessionStatusByKey, Fault
<1>7. ASSUME NEW r \in Reqs, NEW k \in Keys, Lookup(r, k)
      PROVE  ParentPending'
  BY <1>7, MirrorAssumption DEF TypeOK, ghost, mirror, ParentPending, Sound,
     Alone, Lookup
<1>8. ASSUME NEW r \in Reqs, Get(r)
      PROVE  ParentPending'
  BY <1>8, MirrorAssumption DEF TypeOK, ghost, mirror, ParentPending, Sound,
     Alone, Get, Fault
<1>9. ASSUME NEW r \in Reqs, Set(r)
      PROVE  ParentPending'
  BY <1>9, MirrorAssumption DEF TypeOK, ghost, mirror, ParentPending, Sound,
     Alone, Local, Set, Written, Fault
<1>10. ASSUME NEW r \in Reqs, Remember(r)
      PROVE  ParentPending'
  BY <1>10, MirrorAssumption DEF TypeOK, ghost, mirror, ParentPending, Sound,
     Alone, Remember
<1>11. ASSUME NEW r \in Reqs, Forget(r)
      PROVE  ParentPending'
  BY <1>11, MirrorAssumption DEF TypeOK, ghost, mirror, ParentPending, Sound,
     Alone, Forget, ForgetKeys, Done
<1>12. ASSUME NEW r \in Reqs, Tail(r)
      PROVE  ParentPending'
  BY <1>12, MirrorAssumption DEF TypeOK, ghost, mirror, ParentPending, Sound,
     Alone, Tail, Fault
<1>13. ASSUME NEW r \in Reqs, Dispatch(r)
      PROVE  ParentPending'
  <2>1. CASE note' = [k \in Keys |->
                      IF ~Transition(r, k) THEN note[k]
                      ELSE IF note[k] \in {"quiet", "due"} THEN "sent" ELSE "twice"]
             /\ faults' = faults
    BY <1>13, <2>1, MirrorAssumption DEF TypeOK, ghost, mirror, ParentPending,
       Sound, Alone, Dispatch, Done, Fault
  <2>2. CASE note' = note /\ Fault
    BY <1>13, <2>2, MirrorAssumption DEF TypeOK, ghost, mirror, ParentPending,
       Sound, Alone, Dispatch, Done, Fault
  <2>3. QED BY <1>13, <2>1, <2>2 DEF Dispatch
<1>14. ASSUME NEW r \in Reqs, DeleteDoc(r)
      PROVE  ParentPending'
  <2>1. CASE Deleted(cur[r]) /\ prev' = prev \ {cur[r]} /\ faults' = faults
    BY <1>14, <2>1, MirrorAssumption DEF TypeOK, ghost, mirror, ParentPending,
       Sound, Alone, DeleteDoc, Deleted, Done, Fault
  <2>2. CASE Deleted(cur[r]) /\ prev' = prev /\ Fault
    BY <1>14, <2>2, MirrorAssumption DEF TypeOK, ghost, mirror, ParentPending,
       Sound, Alone, DeleteDoc, Deleted, Done, Fault
  <2>3. CASE UNCHANGED <<mirror, note>> /\ prev' = prev /\ Fault
    BY <1>14, <2>3, MirrorAssumption DEF TypeOK, ghost, mirror, ParentPending,
       Sound, Alone, DeleteDoc, Deleted, Done, Fault
  <2>4. QED BY <1>14, <2>1, <2>2, <2>3 DEF DeleteDoc
<1>15. ASSUME NEW p \in Procs, Restart(p)
      PROVE  ParentPending'
  BY <1>15, MirrorAssumption DEF TypeOK, ghost, mirror, ParentPending, Sound,
     Alone, Restart, ForgetKeys, Fault
<1>16. ASSUME NEW p \in Procs, forgetPC(p)
      PROVE  ParentPending'
  BY <1>16, MirrorAssumption DEF TypeOK, request, mirror, ParentPending,
     Sound, Alone, forgetPC, ForgetKeys
<1>17. ASSUME ListDocs
      PROVE  ParentPending'
  BY <1>17, MirrorAssumption DEF TypeOK, request, ghost, mirror,
     ParentPending, Sound, Alone, ListDocs, Fault
<1>18. ASSUME NEW k \in Keys, DeleteListed(k)
      PROVE  ParentPending'
  BY <1>18, MirrorAssumption DEF TypeOK, request, ghost, mirror,
     ParentPending, Sound, Alone, DeleteListed, Deleted, Fault
<1>19. ASSUME DeleteParent
      PROVE  ParentPending'
  BY <1>19, MirrorAssumption DEF TypeOK, request, ghost, mirror,
     ParentPending, Sound, Alone, OwnerReachesAll, DeleteParent, Fault
<1>20. ASSUME \/ (\E k \in Keys : Change(k))
            \/ (\E p \in Procs, k \in Keys : Age(p, k))
            \/ UNCHANGED vars
      PROVE  ParentPending'
  BY <1>1, <1>20 DEF vars, agent, mirror, memory, request, owner, ghost,
     Change, Age
<1>21. QED
  BY <1>1, <1>2, <1>3, <1>4, <1>5, <1>6, <1>7, <1>8, <1>9, <1>10, <1>11,
     <1>12, <1>13, <1>14, <1>15, <1>16, <1>17, <1>18, <1>19, <1>20, Cases,
     Zenon


\* Short of failures deletePC has listed every document that exists, so that the
\* parent goes last.
LEMMA OwnerStep ==
  ASSUME TypeOK, Solo, OwnerReachesAll, [Next]_vars
  PROVE  OwnerReachesAll'
<1>1. CASE UNCHANGED <<mode, faults, opc, doc, oleft>>
  BY <1>1 DEF OwnerReachesAll, Sound, Alone
<1>2. ASSUME NEW r \in Reqs, NEW p \in Procs, Push(r, p)
      PROVE  OwnerReachesAll'
  BY <1>2, MirrorAssumption DEF TypeOK, owner, mirror, OwnerReachesAll, Sound,
     Alone, Push, Arrive
<1>3. ASSUME NEW r \in Reqs, NEW p \in Procs, NEW k \in Keys, DeleteSession(r, p, k)
      PROVE  OwnerReachesAll'
  BY <1>3, MirrorAssumption DEF TypeOK, owner, mirror, OwnerReachesAll, Sound,
     Alone, DeleteSession, Arrive, ForgetKeys
<1>4. ASSUME NEW r \in Reqs, sessionStatusByKey(r)
      PROVE  OwnerReachesAll'
  BY <1>4, MirrorAssumption DEF TypeOK, owner, ghost, mirror, OwnerReachesAll,
     Sound, Alone, sessionStatusByKey, Fault
<1>5. ASSUME NEW r \in Reqs, Get(r)
      PROVE  OwnerReachesAll'
  BY <1>5, MirrorAssumption DEF TypeOK, owner, ghost, mirror, OwnerReachesAll,
     Sound, Alone, Get, Fault
<1>6. ASSUME NEW r \in Reqs, Set(r)
      PROVE  OwnerReachesAll'
  BY <1>6, MirrorAssumption DEF TypeOK, owner, ghost, mirror, OwnerReachesAll,
     Sound, Alone, Solo, Set, Written, Fault
<1>7. ASSUME NEW r \in Reqs, Tail(r)
      PROVE  OwnerReachesAll'
  BY <1>7, MirrorAssumption DEF TypeOK, owner, ghost, mirror, OwnerReachesAll,
     Sound, Alone, Tail, Fault
<1>8. ASSUME NEW r \in Reqs, Dispatch(r)
      PROVE  OwnerReachesAll'
  BY <1>8, MirrorAssumption DEF TypeOK, owner, ghost, mirror, OwnerReachesAll,
     Sound, Alone, Dispatch, Done, Fault
<1>9. ASSUME NEW r \in Reqs, DeleteDoc(r)
      PROVE  OwnerReachesAll'
  BY <1>9, MirrorAssumption DEF TypeOK, owner, ghost, mirror, OwnerReachesAll,
     Sound, Alone, DeleteDoc, Deleted, Done, Fault
<1>10. ASSUME NEW p \in Procs, Restart(p)
      PROVE  OwnerReachesAll'
  BY <1>10, MirrorAssumption DEF TypeOK, owner, ghost, mirror,
     OwnerReachesAll, Sound, Alone, Restart, ForgetKeys, Fault
<1>11. ASSUME NEW p \in Procs, forgetPC(p)
      PROVE  OwnerReachesAll'
  BY <1>11, MirrorAssumption DEF TypeOK, mirror, OwnerReachesAll, Sound,
     Alone, forgetPC, ForgetKeys
<1>12. ASSUME ListDocs
      PROVE  OwnerReachesAll'
  BY <1>12, MirrorAssumption DEF TypeOK, ghost, mirror, OwnerReachesAll,
     Sound, Alone, Existing, ListDocs, Fault
<1>13. ASSUME NEW k \in Keys, DeleteListed(k)
      PROVE  OwnerReachesAll'
  BY <1>13, MirrorAssumption DEF TypeOK, ghost, mirror, OwnerReachesAll,
     Sound, Alone, DeleteListed, Deleted, Fault
<1>14. ASSUME DeleteParent
      PROVE  OwnerReachesAll'
  BY <1>14, MirrorAssumption DEF TypeOK, ghost, mirror, OwnerReachesAll,
     Sound, Alone, DeleteParent, Fault
<1>15. ASSUME \/ (\E k \in Keys : Change(k))
            \/ SeedFromMirror \/ TouchLastSeen
            \/ (\E r \in Reqs, k \in Keys : Lookup(r, k))
            \/ (\E r \in Reqs : Remember(r) \/ Forget(r))
            \/ (\E p \in Procs, k \in Keys : Age(p, k))
            \/ UNCHANGED vars
      PROVE  OwnerReachesAll'
  BY <1>1, <1>15 DEF vars, agent, mirror, memory, request, owner, ghost,
     Change, SeedFromMirror, TouchLastSeen, Lookup, Remember, Forget,
     ForgetKeys, Done, Age
<1>16. QED
  BY <1>1, <1>2, <1>3, <1>4, <1>5, <1>6, <1>7, <1>8, <1>9, <1>10, <1>11,
     <1>12, <1>13, <1>14, <1>15, Cases, Zenon

----------------------------------------------------------------------------
(* The theorems. *)

InductiveInv == TypeOK /\ SoloInv /\ SoundInv

\* The inductive invariant holds of the mirror, whatever the numbers of
\* sessions, processes, requests, changes and failures.
THEOREM Inductive == Spec => []InductiveInv
<1>1. Init => InductiveInv
  <2> SUFFICES ASSUME Init PROVE InductiveInv
    OBVIOUS
  <2>1. TypeOK
    BY MirrorAssumption DEF Init, TypeOK, Statuses
  <2>2. SoloInv
    BY MirrorAssumption DEF Init, SoloInv, Local, OnKey, Solo, KeptIsStored, CacheTruthful,
       WorkingIsQuiet, TransitionPending, PendingAt, Past, NoDuplicateWebhookAlone,
       NoDuplicateWebhook
  <2>3. SoundInv
    BY MirrorAssumption DEF Init, SoundInv, VersionReady, OldIsStored, Past, DueHasTeller,
       ParentPending, OwnerReachesAll
  <2>4. QED BY <2>1, <2>2, <2>3 DEF InductiveInv
<1>2. InductiveInv /\ [Next]_vars => InductiveInv'
  <2> SUFFICES ASSUME InductiveInv, [Next]_vars PROVE InductiveInv'
    OBVIOUS
  <2>1. TypeOK'
    BY TypeStep DEF InductiveInv
  <2>2. SoloInv'
    BY LocalStep, SoloStep, KeptStep, CacheStep, WorkingStep, PendingStep, DuplicateStep
    DEF InductiveInv, SoloInv
  <2>3. SoundInv'
    BY VersionStep, OldStep, TellerStep, ParentStep, OwnerStep
    DEF InductiveInv, SoloInv, SoundInv
  <2>4. QED BY <2>1, <2>2, <2>3 DEF InductiveInv
<1>3. QED BY <1>1, <1>2, PTL DEF Spec

\* While one process serves a PC, what it remembers is what is stored, so that a
\* session it skips is up to date (pushSessions).
THEOREM CacheIsTruthful == Spec => []CacheTruthful
<1>1. InductiveInv => CacheTruthful
  BY DEF InductiveInv, SoloInv
<1>2. QED BY <1>1, Inductive, PTL

\* While one process serves a PC, no change of a session is told twice
\* (dispatchWebhooksForTransitions).
THEOREM NothingToldTwice == Spec => []NoDuplicateWebhookAlone
<1>1. InductiveInv => NoDuplicateWebhookAlone
  BY DEF InductiveInv, SoloInv
<1>2. QED BY <1>1, Inductive, PTL

\* Short of failures every change from working to done is told when the request
\* that stored it is over (slavePush).
THEOREM TransitionsAreTold == Spec => []TransitionNotified
<1>1. InductiveInv => TransitionNotified
  BY DEF InductiveInv, SoundInv, DueHasTeller, Sound, TransitionNotified, Quiet, Past
<1>2. QED BY <1>1, Inductive, PTL

\* Short of failures a PC with mirrored sessions has its agent_kind when its
\* request is over, even after a deletion by the owner (the tail of pushSessions).
THEOREM MirroredPCIsListed == Spec => []MirroredIsListed
<1>1. InductiveInv => MirroredIsListed
  BY DEF InductiveInv, TypeOK, SoundInv, ParentPending, Sound, MirroredIsListed, Quiet, Existing
<1>2. QED BY <1>1, Inductive, PTL

\* Short of failures a stored session gets the next version exactly when its
\* content changes (pushSessions).
THEOREM VersionsFollowContent == Spec => VersionFollowsContent
<1> DEFINE Follows ==
      \A k \in Keys :
        (faults' = 0 /\ mode' = "alone" /\ doc[k] # Nil /\ doc'[k] # Nil)
          => dver'[k] = IF doc'[k] = doc[k] THEN dver[k] ELSE dver[k] + 1
<1>1. InductiveInv /\ [Next]_vars => [Follows]_vars
  <2> SUFFICES ASSUME InductiveInv, [Next]_vars, ~UNCHANGED vars PROVE Follows
    OBVIOUS
  <2>1. CASE UNCHANGED mirror
    BY <2>1 DEF mirror
  <2>2. ASSUME NEW r \in Reqs, Set(r) PROVE Follows
    BY <2>2 DEF InductiveInv, TypeOK, SoundInv, VersionReady, Sound, Alone, Set, Written,
       Fault, ghost, mirror
  <2>3. ASSUME NEW r \in Reqs, DeleteDoc(r) PROVE Follows
    BY <2>3 DEF InductiveInv, TypeOK, DeleteDoc, Deleted, mirror
  <2>4. ASSUME NEW k \in Keys, DeleteListed(k) PROVE Follows
    BY <2>4 DEF InductiveInv, TypeOK, DeleteListed, Deleted, mirror
  <2>5. (\E r \in Reqs : Set(r) \/ DeleteDoc(r)) \/ (\E k \in Keys : DeleteListed(k))
          \/ UNCHANGED mirror
    BY Cases DEF Change, Push, DeleteSession, SeedFromMirror, TouchLastSeen, sessionStatusByKey,
       Lookup, Get, Remember, Forget, Tail, Dispatch, Age, Restart, forgetPC, ListDocs,
       DeleteParent
  <2>6. QED BY <2>1, <2>2, <2>3, <2>4, <2>5
<1>2. QED BY <1>1, Inductive, PTL DEF Spec, VersionFollowsContent
=============================================================================
