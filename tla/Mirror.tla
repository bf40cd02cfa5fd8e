------------------------------- MODULE Mirror -------------------------------
(***************************************************************************)
(* The mirror of one PC's terminal sessions in Firestore: the documents    *)
(* pcs/{pc}/sessions/{key} and their parent pcs/{pc}, written by           *)
(* pushSessions of src/state/pushcache.go through the cache each process   *)
(* keeps, the webhooks sent by slavePush (src/web/slave.go), DeleteSession *)
(* and the owner's DeletePCByID.                                           *)
(*                                                                         *)
(* A session's content is its agent status; contentHash tells contents     *)
(* apart.  A database call and a cache access are one step each.  Several  *)
(* processes may serve one PC: Cloud Run starts up to four instances, each *)
(* with its own cache.  The program on the PC is not part of the           *)
(* repository: it pushes its live sessions again and again, deletes those  *)
(* that ended, and after a restart deletes what the mirror still shows.    *)
(* A PC the owner deleted is enrolled again and goes on pushing; that it   *)
(* is turned away in between (slaveGuard) is left out.                     *)
(***************************************************************************)
EXTENDS Naturals

CONSTANTS Keys,        \* sessions of the PC
          Procs,       \* processes that push on its behalf
          Reqs,        \* requests of the PC that may be under way at once
          Nil,
          MaxChanges,  \* bound: changes of the PC's sessions
          MaxFaults    \* bound: failed calls and restarts

ASSUME MirrorAssumption ==
  /\ Nil \notin {"working", "done"}
  /\ Nil \notin Procs /\ Nil \notin Keys
  /\ MaxChanges \in Nat /\ MaxFaults \in Nat

Statuses == {"working", "done"}
NotifyStates == {"done"}

VARIABLES
  want,     \* the live sessions of the PC and their status
  changes,  \* how often they have changed
  prev,     \* sessions the program on the PC has to delete when they end
  doc,      \* the content of each session document
  dver,     \* and its version
  parent,   \* pcs/{pc}: absent, without or with agent_kind
  cache,    \* pushCache.entries of each process: the content pushed last
  fresh,    \* the entries verified less than PushVerifyEvery ago
  rpc,      \* where each request stands
  rproc,    \* the process that serves it
  body,     \* the sessions it pushes; the session it deletes
  old,      \* statuses read before the push
  todo,     \* sessions not yet handled
  cur,      \* the session being handled
  ver,      \* the version it is going to get
  chg,      \* requests with changed > 0
  opc,      \* where the owner's DeletePCByID stands
  oleft,    \* documents it has yet to delete
  note,     \* webhooks since the document last changed
  last,     \* the process that served the latest request
  mode,     \* "mixed" once two processes or two activities served the PC
  faults

agent == <<want, changes, prev>>
request == <<rpc, rproc, body, old, todo, cur, ver, chg>>
owner == <<opc, oleft>>
ghost == <<last, mode>>
mirror == <<doc, dver>>
memory == <<cache, fresh>>
vars == <<agent, mirror, parent, memory, request, owner, note, ghost, faults>>

Live == {k \in Keys : want[k] # Nil}
Existing == {k \in Keys : doc[k] # Nil}
\* One process has served the PC, one activity at a time.
Alone == mode = "alone"
Quiet == \A r \in Reqs : rpc[r] = "idle"

\* pushCache.forget and forgetPC
ForgetKeys(p, S) ==
  /\ cache' = [cache EXCEPT ![p] = [k \in Keys |-> IF k \in S THEN Nil ELSE cache[p][k]]]
  /\ fresh' = [fresh EXCEPT ![p] = @ \ S]

\* A call fails, or a process dies.
Fault == faults < MaxFaults /\ faults' = faults + 1

----------------------------------------------------------------------------

Init ==
  /\ want = [k \in Keys |-> Nil]
  /\ changes = 0
  /\ prev = {}
  /\ doc = [k \in Keys |-> Nil]
  /\ dver = [k \in Keys |-> 0]
  /\ parent = "drover"
  /\ cache = [p \in Procs |-> [k \in Keys |-> Nil]]
  /\ fresh = [p \in Procs |-> {}]
  /\ rpc = [r \in Reqs |-> "idle"]
  /\ rproc = [r \in Reqs |-> Nil]
  /\ body = [r \in Reqs |-> [k \in Keys |-> Nil]]
  /\ old = [r \in Reqs |-> [k \in Keys |-> Nil]]
  /\ todo = [r \in Reqs |-> {}]
  /\ cur = [r \in Reqs |-> Nil]
  /\ ver = [r \in Reqs |-> 0]
  /\ chg = {}
  /\ opc = "idle"
  /\ oleft = {}
  /\ note = [k \in Keys |-> "quiet"]
  /\ last = Nil
  /\ mode = "alone"
  /\ faults = 0

----------------------------------------------------------------------------
(* The program on the PC.                                                  *)

\* A session starts, changes its status or ends.
Change(k) ==
  /\ changes < MaxChanges
  /\ changes' = changes + 1
  /\ \E s \in (Statuses \cup {Nil}) \ {want[k]} : want' = [want EXCEPT ![k] = s]
  /\ UNCHANGED <<prev, mirror, parent, memory, request, owner, note, ghost, faults>>

\* A request reaches process p.
Arrive(r, p) ==
  /\ rpc[r] = "idle"
  /\ rproc' = [rproc EXCEPT ![r] = p]
  /\ last' = p
  /\ mode' = IF Quiet /\ opc \in {"idle", "done"} /\ last \in {Nil, p}
               THEN mode ELSE "mixed"

\* PushStatusFor with the sessions that are live now
Push(r, p) ==
  /\ Arrive(r, p)
  /\ rpc' = [rpc EXCEPT ![r] = "old"]
  /\ body' = [body EXCEPT ![r] = want]
  /\ todo' = [todo EXCEPT ![r] = Live]
  /\ prev' = prev \cup Live
  /\ UNCHANGED <<want, changes, mirror, parent, memory, old, cur, ver, chg, owner,
                 note, faults>>

\* DeleteSessionFor of a session that ended; the cache forgets it first
DeleteSession(r, p, k) ==
  /\ Arrive(r, p)
  /\ k \in prev \ Live
  /\ rpc' = [rpc EXCEPT ![r] = "delete"]
  /\ cur' = [cur EXCEPT ![r] = k]
  /\ ForgetKeys(p, {k})
  /\ UNCHANGED <<agent, mirror, parent, body, old, todo, ver, chg, owner, note, faults>>

\* The program starts again while none of its requests is under way: it seeds
\* its set from the mirror (OwnSessionKeys) and registers the PC.
SeedFromMirror ==
  /\ Quiet
  /\ prev' = Existing
  /\ parent' = "drover"
  /\ UNCHANGED <<want, changes, mirror, memory, request, owner, note, ghost, faults>>

\* TouchLastSeen merges a heartbeat into pcs/{pc}.
TouchLastSeen ==
  /\ parent = "absent"
  /\ parent' = "bare"
  /\ UNCHANGED <<agent, mirror, memory, request, owner, note, ghost, faults>>

----------------------------------------------------------------------------
(* slavePush and pushSessions.                                             *)

\* The request is over.
Done(r) ==
  /\ rpc' = [rpc EXCEPT ![r] = "idle"]
  /\ rproc' = [rproc EXCEPT ![r] = Nil]
  /\ body' = [body EXCEPT ![r] = [k \in Keys |-> Nil]]
  /\ old' = [old EXCEPT ![r] = [k \in Keys |-> Nil]]
  /\ todo' = [todo EXCEPT ![r] = {}]
  /\ cur' = [cur EXCEPT ![r] = Nil]
  /\ ver' = [ver EXCEPT ![r] = 0]
  /\ chg' = chg \ {r}

\* sessionStatusByKey; what cannot be read counts as unknown
sessionStatusByKey(r) ==
  /\ rpc[r] = "old"
  /\ \/ /\ old' = [old EXCEPT ![r] = doc]
        /\ faults' = faults
     \/ old' = old /\ Fault
  /\ rpc' = [rpc EXCEPT ![r] = "items"]
  /\ UNCHANGED <<agent, mirror, parent, memory, rproc, body, todo, cur, ver, chg,
                 owner, note, ghost>>

\* Mutant of Unchanged: what is remembered is never verified again.
UnchangedForever(r, k) == cache[rproc[r]][k] = body[r][k]

\* The remembered hash is the same and younger than PushVerifyEvery.
Unchanged(r, k) ==
  cache[rproc[r]][k] = body[r][k] /\ k \in fresh[rproc[r]]

\* Mutant of Lookup: the loop variable is not set.
LookupNoKey(r, k) ==
  /\ rpc[r] = "items"
  /\ k \in todo[r]
  /\ todo' = [todo EXCEPT ![r] = @ \ {k}]
  /\ rpc' = [rpc EXCEPT ![r] = IF Unchanged(r, k) THEN @ ELSE "get"]
  /\ UNCHANGED <<agent, mirror, parent, memory, rproc, body, old, cur, ver, chg,
                 owner, note, ghost, faults>>

\* c.push.get: skip the session, or look at its document
Lookup(r, k) ==
  /\ rpc[r] = "items"
  /\ k \in todo[r]
  /\ todo' = [todo EXCEPT ![r] = @ \ {k}]
  /\ IF Unchanged(r, k)
       THEN UNCHANGED <<rpc, cur>>
       ELSE /\ rpc' = [rpc EXCEPT ![r] = "get"]
            /\ cur' = [cur EXCEPT ![r] = k]
  /\ UNCHANGED <<agent, mirror, parent, memory, rproc, body, old, ver, chg, owner,
                 note, ghost, faults>>

\* Mutant of Get: the version is not increased.
GetSameVersion(r) ==
  LET k == cur[r]
  IN  /\ rpc[r] = "get"
      /\ \/ /\ doc[k] # Nil
            /\ doc[k] = body[r][k]
            /\ rpc' = [rpc EXCEPT ![r] = "keep"]
            /\ UNCHANGED <<ver, chg, faults>>
         \/ /\ doc[k] # Nil
            /\ doc[k] # body[r][k]
            /\ rpc' = [rpc EXCEPT ![r] = "set"]
            /\ ver' = [ver EXCEPT ![r] = dver[k]]
            /\ chg' = chg \cup {r}
            /\ faults' = faults
         \/ /\ \/ doc[k] = Nil /\ faults' = faults
               \/ doc[k] # Nil /\ Fault
            /\ rpc' = [rpc EXCEPT ![r] = "set"]
            /\ ver' = [ver EXCEPT ![r] = 1]
            /\ chg' = chg \cup {r}
      /\ UNCHANGED <<agent, mirror, parent, memory, rproc, body, old, todo, cur,
                     owner, note, ghost>>

\* ref.Get: same content, other content, or none; an error counts as none
Get(r) ==
  LET k == cur[r]
  IN  /\ rpc[r] = "get"
      /\ \/ /\ doc[k] # Nil
            /\ doc[k] = body[r][k]
            /\ rpc' = [rpc EXCEPT ![r] = "keep"]
            /\ UNCHANGED <<ver, chg, faults>>
         \/ /\ doc[k] # Nil
            /\ doc[k] # body[r][k]
            /\ rpc' = [rpc EXCEPT ![r] = "set"]
            /\ ver' = [ver EXCEPT ![r] = dver[k] + 1]
            /\ chg' = chg \cup {r}
            /\ faults' = faults
         \/ /\ \/ doc[k] = Nil /\ faults' = faults
               \/ doc[k] # Nil /\ Fault
            /\ rpc' = [rpc EXCEPT ![r] = "set"]
            /\ ver' = [ver EXCEPT ![r] = 1]
            /\ chg' = chg \cup {r}
      /\ UNCHANGED <<agent, mirror, parent, memory, rproc, body, old, todo, cur,
                     owner, note, ghost>>

\* The document of the current session is written.
Written(r) ==
  LET k == cur[r]
  IN  /\ doc' = [doc EXCEPT ![k] = body[r][k]]
      /\ dver' = [dver EXCEPT ![k] = ver[r]]
      /\ note' = [note EXCEPT ![k] =
                    IF doc[k] = body[r][k] THEN @
                    ELSE IF doc[k] = "working" /\ body[r][k] \in NotifyStates
                         THEN "due" ELSE "quiet"]

\* ref.Set; when it fails nobody knows whether it took effect
Set(r) ==
  /\ rpc[r] = "set"
  /\ \/ /\ Written(r)
        /\ rpc' = [rpc EXCEPT ![r] = "keep"]
        /\ faults' = faults
     \/ /\ Fault
        /\ rpc' = [rpc EXCEPT ![r] = "drop"]
        /\ Written(r) \/ UNCHANGED <<mirror, note>>
  /\ UNCHANGED <<agent, parent, memory, rproc, body, old, todo, cur, ver, chg,
                 owner, ghost>>

\* c.push.set
Remember(r) ==
  /\ rpc[r] = "keep"
  /\ cache' = [cache EXCEPT ![rproc[r]][cur[r]] = body[r][cur[r]]]
  /\ fresh' = [fresh EXCEPT ![rproc[r]] = @ \cup {cur[r]}]
  /\ rpc' = [rpc EXCEPT ![r] = "items"]
  /\ cur' = [cur EXCEPT ![r] = Nil]
  /\ UNCHANGED <<agent, mirror, parent, rproc, body, old, todo, ver, chg, owner,
                 note, ghost, faults>>

\* Mutant of Forget: after a failed write the old memory is kept.
ForgetNothing(r) ==
  /\ rpc[r] = "drop"
  /\ Done(r)
  /\ UNCHANGED <<agent, mirror, memory, parent, owner, note, ghost, faults>>

\* c.push.forget; the push ends with the error and sends no webhook
Forget(r) ==
  /\ rpc[r] = "drop"
  /\ ForgetKeys(rproc[r], {cur[r]})
  /\ Done(r)
  /\ UNCHANGED <<agent, mirror, parent, owner, note, ghost, faults>>

\* Mutant of Tail: the merge does not name agent_kind.
TailNoKind(r) ==
  /\ rpc[r] = "items"
  /\ todo[r] = {}
  /\ \/ /\ r \in chg
        /\ parent' = IF parent = "absent" THEN "bare" ELSE parent
        /\ faults' = faults
     \/ /\ r \in chg
        /\ parent' = parent
        /\ Fault
     \/ /\ r \notin chg
        /\ UNCHANGED <<parent, faults>>
  /\ rpc' = [rpc EXCEPT ![r] = "notify"]
  /\ UNCHANGED <<agent, mirror, memory, rproc, body, old, todo, cur, ver, chg,
                 owner, note, ghost>>

\* The parent is merged if something changed; a failure is not looked at.
Tail(r) ==
  /\ rpc[r] = "items"
  /\ todo[r] = {}
  /\ \/ /\ r \in chg
        /\ parent' = "drover"
        /\ faults' = faults
     \/ /\ r \in chg
        /\ parent' = parent
        /\ Fault
     \/ /\ r \notin chg
        /\ UNCHANGED <<parent, faults>>
  /\ rpc' = [rpc EXCEPT ![r] = "notify"]
  /\ UNCHANGED <<agent, mirror, memory, rproc, body, old, todo, cur, ver, chg,
                 owner, note, ghost>>

\* Mutant of Transition: the status before the push is not looked at.
TransitionFromAny(r, k) == body[r][k] \in NotifyStates

\* working before, and now a status the owner wants to hear of
Transition(r, k) == old[r][k] = "working" /\ body[r][k] \in NotifyStates

\* Mutant of Dispatch: the old status is read after the push.
DispatchLate(r) ==
  /\ rpc[r] = "notify"
  /\ note' = [k \in Keys |->
                IF doc[k] = "working" /\ body[r][k] \in NotifyStates
                  THEN "sent" ELSE note[k]]
  /\ Done(r)
  /\ UNCHANGED <<agent, mirror, parent, memory, owner, ghost, faults>>

\* dispatchWebhooksForTransitions; nothing is sent without the settings
Dispatch(r) ==
  /\ rpc[r] = "notify"
  /\ \/ /\ note' = [k \in Keys |->
                      IF ~Transition(r, k) THEN note[k]
                      ELSE IF note[k] \in {"quiet", "due"} THEN "sent" ELSE "twice"]
        /\ faults' = faults
     \/ note' = note /\ Fault
  /\ Done(r)
  /\ UNCHANGED <<agent, mirror, parent, memory, owner, ghost>>

\* The document of session k is deleted.
Deleted(k) ==
  /\ doc' = [doc EXCEPT ![k] = Nil]
  /\ dver' = [dver EXCEPT ![k] = 0]
  /\ note' = [note EXCEPT ![k] = "quiet"]

\* DeleteSession after its forget; after an error, whether or not it took
\* effect, the program on the PC tries again
DeleteDoc(r) ==
  /\ rpc[r] = "delete"
  /\ \/ Deleted(cur[r]) /\ prev' = prev \ {cur[r]} /\ faults' = faults
     \/ (Deleted(cur[r]) \/ UNCHANGED <<mirror, note>>) /\ prev' = prev /\ Fault
  /\ Done(r)
  /\ UNCHANGED <<want, changes, parent, memory, owner, ghost>>

\* now.Sub(e.verifiedAt) reaches PushVerifyEvery
Age(p, k) ==
  /\ cache[p][k] # Nil
  /\ k \in fresh[p]
  /\ fresh' = [fresh EXCEPT ![p] = @ \ {k}]
  /\ UNCHANGED <<agent, mirror, cache, parent, request, owner, note, ghost, faults>>

\* A process stops and is started again: its cache and its requests are gone.
Restart(p) ==
  LET Mine(r) == rproc[r] = p
      Nothing == [k \in Keys |-> Nil]
  IN  /\ Fault
      /\ ForgetKeys(p, Keys)
      /\ rpc' = [r \in Reqs |-> IF Mine(r) THEN "idle" ELSE rpc[r]]
      /\ rproc' = [r \in Reqs |-> IF Mine(r) THEN Nil ELSE rproc[r]]
      /\ body' = [r \in Reqs |-> IF Mine(r) THEN Nothing ELSE body[r]]
      /\ old' = [r \in Reqs |-> IF Mine(r) THEN Nothing ELSE old[r]]
      /\ todo' = [r \in Reqs |-> IF Mine(r) THEN {} ELSE todo[r]]
      /\ cur' = [r \in Reqs |-> IF Mine(r) THEN Nil ELSE cur[r]]
      /\ ver' = [r \in Reqs |-> IF Mine(r) THEN 0 ELSE ver[r]]
      /\ chg' = {r \in chg : ~Mine(r)}
      /\ UNCHANGED <<agent, mirror, parent, owner, note, ghost>>

----------------------------------------------------------------------------
(* DeletePCByID, once, in one of the processes.                            *)

forgetPC(p) ==
  /\ opc = "idle"
  /\ opc' = "list"
  /\ ForgetKeys(p, Keys)
  /\ mode' = IF Quiet THEN mode ELSE "mixed"
  /\ UNCHANGED <<agent, mirror, parent, request, oleft, note, last, faults>>

\* deletePC: the query for the documents; an error counts as none
ListDocs ==
  /\ opc = "list"
  /\ opc' = "delete"
  /\ \/ oleft' = Existing /\ faults' = faults
     \/ oleft' = {} /\ Fault
  /\ UNCHANGED <<agent, mirror, parent, memory, request, note, ghost>>

\* deletePC: one document; an error is not looked at
DeleteListed(k) ==
  /\ opc = "delete"
  /\ k \in oleft
  /\ oleft' = oleft \ {k}
  /\ \/ Deleted(k) /\ faults' = faults
     \/ UNCHANGED <<mirror, note>> /\ Fault
  /\ UNCHANGED <<agent, parent, memory, request, opc, ghost>>

\* deletePC: the parent, after them; an error is not looked at
DeleteParent ==
  /\ opc = "delete"
  /\ oleft = {}
  /\ opc' = "done"
  /\ \/ parent' = "absent" /\ faults' = faults
     \/ parent' = parent /\ Fault
  /\ UNCHANGED <<agent, mirror, memory, request, oleft, note, ghost>>

----------------------------------------------------------------------------

Producer == \E r \in Reqs, p \in Procs : Push(r, p) \/ \E k \in Keys : DeleteSession(r, p, k)

Handle(r) ==
  \/ sessionStatusByKey(r) \/ Get(r) \/ Set(r) \/ Remember(r) \/ Forget(r)
  \/ Tail(r) \/ Dispatch(r) \/ DeleteDoc(r) \/ \E k \in Keys : Lookup(r, k)

Owner ==
  \/ \E p \in Procs : forgetPC(p)
  \/ ListDocs \/ DeleteParent \/ \E k \in Keys : DeleteListed(k)

Next ==
  \/ \E k \in Keys : Change(k)
  \/ Producer \/ SeedFromMirror \/ TouchLastSeen
  \/ \E r \in Reqs : Handle(r)
  \/ \E p \in Procs : Restart(p) \/ \E k \in Keys : Age(p, k)
  \/ Owner

Spec == Init /\ [][Next]_vars

\* Handlers run to their end, remembered hashes grow old, and the program on
\* the PC goes on pushing and deleting.
Fairness ==
  /\ \A r \in Reqs : WF_vars(Handle(r))
  /\ \A p \in Procs, k \in Keys : WF_vars(Age(p, k))
  /\ SF_vars(\E r \in Reqs, p \in Procs : Push(r, p))
  /\ \A k \in Keys : SF_vars(\E r \in Reqs, p \in Procs : DeleteSession(r, p, k))
  /\ WF_vars(ListDocs \/ DeleteParent \/ \E k \in Keys : DeleteListed(k))

FairSpec == Spec /\ Fairness

----------------------------------------------------------------------------

\* Types of the variables; a request at work on a session knows which one and
\* runs in some process (the loop variables of pushSessions).
TypeOK ==
  /\ want \in [Keys -> Statuses \cup {Nil}]
  /\ changes \in 0..MaxChanges
  /\ prev \subseteq Keys
  /\ doc \in [Keys -> Statuses \cup {Nil}]
  /\ dver \in [Keys -> Nat]
  /\ parent \in {"absent", "bare", "drover"}
  /\ cache \in [Procs -> [Keys -> Statuses \cup {Nil}]]
  /\ fresh \in [Procs -> SUBSET Keys]
  /\ rpc \in [Reqs -> {"idle", "old", "items", "get", "set", "keep", "drop",
                       "notify", "delete"}]
  /\ rproc \in [Reqs -> Procs \cup {Nil}]
  /\ body \in [Reqs -> [Keys -> Statuses \cup {Nil}]]
  /\ old \in [Reqs -> [Keys -> Statuses \cup {Nil}]]
  /\ todo \in [Reqs -> SUBSET Keys]
  /\ cur \in [Reqs -> Keys \cup {Nil}]
  /\ ver \in [Reqs -> Nat]
  /\ chg \subseteq Reqs
  /\ opc \in {"idle", "list", "delete", "done"}
  /\ oleft \subseteq Keys
  /\ note \in [Keys -> {"quiet", "due", "sent", "twice"}]
  /\ last \in Procs \cup {Nil}
  /\ mode \in {"alone", "mixed"}
  /\ faults \in 0..MaxFaults
  /\ \A r \in Reqs :
       /\ rpc[r] # "idle" => rproc[r] \in Procs
       /\ rpc[r] \in {"get", "set", "keep", "drop", "delete"} => cur[r] \in Keys

\* Somebody is about to correct what process p remembers of session k.
Correcting(p, k) ==
  \E r \in Reqs : rpc[r] \in {"keep", "drop"} /\ rproc[r] = p /\ cur[r] = k

\* What the only process serving a PC remembers of a session is what is stored,
\* unless the document was deleted behind its back: so a skipped session is up
\* to date, whichever write failed (pushSessions: forget after a failed Set).
CacheTruthful ==
  Alone =>
    \A p \in Procs, k \in Keys :
      cache[p][k] # Nil =>
        doc[k] = Nil \/ doc[k] = cache[p][k] \/ Correcting(p, k)

\* Content and version move together: while no call fails and one process
\* serves the PC, a document that changes gets the next version.
VersionFollowsContent ==
  [][\A k \in Keys :
       (faults' = 0 /\ mode' = "alone" /\ doc[k] # Nil /\ doc'[k] # Nil)
         => dver'[k] = IF doc'[k] = doc[k] THEN dver[k] ELSE dver[k] + 1]_vars

\* "同じ状態への重複は送らない" (dispatchWebhooksForTransitions): between two
\* changes of a stored session at most one webhook is sent for it.
NoDuplicateWebhook == \A k \in Keys : note[k] # "twice"

\* That holds while one process serves the PC, one request at a time, whatever
\* fails and is tried again.
NoDuplicateWebhookAlone == Alone => NoDuplicateWebhook

\* Short of a failure every stored change from working is told: a push reads
\* the status before it writes and sends after it (slavePush).
TransitionNotified ==
  (faults = 0 /\ Alone /\ Quiet) => \A k \in Keys : note[k] # "due"

\* A PC whose sessions are mirrored can be found by its agent_kind (the comment
\* on the tail of pushSessions), short of failures and crossing deletions.
MirroredIsListed ==
  (faults = 0 /\ Alone /\ Quiet /\ Existing # {}) => parent = "drover"

\* Two requests of the PC are under way at once.
Overlap == \E r, q \in Reqs : r # q /\ rpc[r] # "idle" /\ rpc[q] # "idle"

\* As long as the PC sends one request after the other, the mirror shows exactly
\* its sessions once they stop changing: failures, restarts, deletions by the
\* owner and instances that remember something else only delay it
\* (PushVerifyEvery).
MirrorConverges == [](~Overlap) => <>[](\A k \in Keys : doc[k] = want[k])
=============================================================================
