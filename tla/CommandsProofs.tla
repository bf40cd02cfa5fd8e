--------------------------- MODULE CommandsProofs ---------------------------
(***************************************************************************)
(* Proofs about Commands for any number of commands, agents, polls and     *)
(* faults: types, at-most-once execution, no claimed command dropped and   *)
(* no wake-up lost short of a fault, and that the queue implements Job.    *)
(***************************************************************************)
EXTENDS Commands, TLAPS

\* A command somebody holds is claimed and has not been started ...
HeldFresh ==
  /\ \A w \in Watchers : wcur[w] # Nil => status[wcur[w]] = "running" /\ ran[wcur[w]] = 0
  /\ \A p \in Polls : \A c \in pgot[p] : status[c] = "running" /\ ran[c] = 0

\* ... and has one holder.
HeldOnce ==
  /\ \A v, w \in Watchers : wcur[v] # Nil /\ wcur[v] = wcur[w] => v = w
  /\ \A p, q \in Polls : \A c \in pgot[p] : c \in pgot[q] => p = q
  /\ \A w \in Watchers, p \in Polls : wcur[w] \notin pgot[p]

\* Claims are kept only between the query and the response.
KeptInClaim ==
  \A p \in Polls : pgot[p] # {} => ppc[p] = "claim"

\* How far a command got in the store, on the PC and with its submitter.
Stages ==
  \A c \in Cmds :
    /\ call[c] = "idle" => status[c] = "absent"
    /\ ran[c] \in {0, 1}
    /\ status[c] \in {"absent", "pending"} => ran[c] = 0
    /\ result[c] # "none" => ran[c] = 1
    /\ status[c] \in Outcomes => status[c] = result[c]

\* A client that went away is a fault.
GoneIsFault == \A p \in Polls : gone[p] => faults # 0

\* Between the query and the select, a pending command is still to be tried,
\* or will fill the channel.
Attended ==
  \A p \in Polls : \A c \in Cmds :
    status[c] = "pending" /\ faults = 0 /\ psub[p] = "up" =>
      /\ ppc[p] = "claim" => fired[p] \/ c \in pnew[p] \/ c \in psnap[p]
      /\ ppc[p] = "hold" => fired[p] \/ c \in pnew[p]

ClaimInv == HeldFresh /\ HeldOnce /\ KeptInClaim /\ Stages

USE DEF Outcomes

LEMMA TypeInit == Init => TypeOK
<1> SUFFICES ASSUME Init PROVE TypeOK
  OBVIOUS
<1>1. faults \in 0..MaxFaults
  BY CommandsAssumption DEF Init
<1>2. revoked \in BOOLEAN
  BY DEF Init
<1> QED BY <1>1, <1>2, Zenon DEF Init, TypeOK

LEMMA TypeStep == TypeOK /\ [Next]_vars => TypeOK'
<1> SUFFICES ASSUME TypeOK, [Next]_vars PROVE TypeOK'
  OBVIOUS
<1> USE CommandsAssumption
<1>0. CASE UNCHANGED vars
  BY <1>0 DEF TypeOK, vars, subs, poll, exec
<1>1. CASE \E c \in Cmds : Submitter(c) \/ Execute(c) \/ AckCommand(c)
  <2> PICK c \in Cmds : Submitter(c) \/ Execute(c) \/ AckCommand(c)
    BY <1>1
  <2>1. CASE PushCommandArgs(c)
    <3>1. /\ UNCHANGED <<wsub, wcur, ppc, psub, fired, psnap, pgot, gone, revoked, exec>>
          /\ faults' = faults \/ (faults < MaxFaults /\ faults' = faults + 1)
          /\ \E v \in {"waiting", "failed"} : call' = [call EXCEPT ![c] = v]
          /\ Publish(c) \/ UNCHANGED <<status, wnew, pnew>>
      BY <2>1 DEF PushCommandArgs, Fails
    <3>2. status' \in [Cmds -> {"absent", "pending", "running"} \cup Outcomes]
      BY <3>1 DEF TypeOK, Publish
    <3>4. call' \in [Cmds -> {"idle", "waiting", "failed", "timedOut"} \cup Outcomes]
      BY <3>1 DEF TypeOK
    <3>5. faults' \in 0..MaxFaults
      BY <3>1 DEF TypeOK
    <3>3. /\ wnew' \in [Watchers -> SUBSET Cmds]
          /\ pnew' \in [Polls -> SUBSET Cmds]
      BY <3>1 DEF TypeOK, Publish
    <3> QED
      BY <3>1, <3>2, <3>3, <3>4, <3>5 DEF TypeOK, exec
  <2>2. CASE WaitCommand(c)
    BY <2>2 DEF TypeOK, WaitCommand, Fails, exec, subs, poll
  <2>3. CASE GetCommand(c)
    BY <2>3 DEF TypeOK, GetCommand, exec, subs, poll
  <2>4. CASE Execute(c)
    BY <2>4 DEF TypeOK, Execute, subs, poll
  <2>5. CASE AckCommand(c)
    BY <2>5 DEF TypeOK, AckCommand, subs, poll, exec
  <2> QED BY <2>1, <2>2, <2>3, <2>4, <2>5 DEF Submitter
<1>2. CASE \E w \in Watchers : Agent(w)
  <2> PICK w \in Watchers : Agent(w)
    BY <1>2
  <2>1. CASE Subscribe(w)
    BY <2>1 DEF TypeOK, Subscribe, Pending, exec, poll
  <2>2. CASE Handle(w)
    BY <2>2 DEF TypeOK, Handle, poll
  <2>3. CASE EndSubscription(w)
    BY <2>3 DEF TypeOK, EndSubscription, poll, exec
  <2>4. CASE GoSilent(w)
    BY <2>4 DEF TypeOK, GoSilent, Fails, poll, exec
  <2>5. CASE AgentRestarts(w)
    BY <2>5 DEF TypeOK, AgentRestarts, Fails, poll, exec
  <2>6. CASE \E c \in Cmds : ClaimChange(w, c)
    BY <2>6 DEF TypeOK, ClaimChange, claimCommand, Fails, poll, exec
  <2> QED BY <2>1, <2>2, <2>3, <2>4, <2>5, <2>6 DEF Agent
<1>3. CASE \E p \in Polls : slaveGuard(p) \/ Handler(p) \/ Notifier(p) \/ ClientGone(p)
  <2> PICK p \in Polls : slaveGuard(p) \/ Handler(p) \/ Notifier(p) \/ ClientGone(p)
    BY <1>3
  <2>1. CASE slaveGuard(p)
    BY <2>1 DEF TypeOK, slaveGuard, NotRevoked, Fails, subs, exec
  <2>2. CASE QueryPending(p)
    BY <2>2 DEF TypeOK, QueryPending, Pending, Fails, subs, exec
  <2>3. CASE Reply(p)
    BY <2>3 DEF TypeOK, Reply, Return, subs
  <2>4. CASE Hold(p)
    BY <2>4 DEF TypeOK, Hold, subs, exec
  <2>5. CASE Wake(p)
    <3>1. faults' \in 0..MaxFaults
      BY <2>5 DEF TypeOK, Wake, NotRevoked, Fails
    <3>2. CASE Return(p)
      BY <2>5, <3>1, <3>2 DEF TypeOK, Wake, Return, subs, exec
    <3>3. CASE ~Return(p)
      BY <2>5, <3>1, <3>3 DEF TypeOK, Wake, subs, exec
    <3> QED BY <3>2, <3>3
  <2>6. CASE HoldEnds(p)
    BY <2>6 DEF TypeOK, HoldEnds, Return, subs, exec
  <2>7. CASE \E c \in Cmds : ClaimNext(p, c)
    BY <2>7 DEF TypeOK, ClaimNext, claimCommandFor, Fails, subs, exec
  <2>8. CASE NotifierSubscribes(p)
    BY <2>8 DEF TypeOK, NotifierSubscribes, Pending, subs, exec
  <2>9. CASE NotifierFails(p)
    BY <2>9 DEF TypeOK, NotifierFails, Fails, subs, exec
  <2>10. CASE Notify(p)
    BY <2>10 DEF TypeOK, Notify, subs, exec
  <2>11. CASE ClientGone(p)
    BY <2>11 DEF TypeOK, ClientGone, Fails, subs, exec
  <2> QED BY <2>1, <2>2, <2>3, <2>4, <2>5, <2>6, <2>7, <2>8, <2>9, <2>10, <2>11
             DEF Handler, Notifier
<1>4. CASE SetRevoked
  BY <1>4 DEF TypeOK, SetRevoked, subs, poll, exec
<1> QED BY <1>0, <1>1, <1>2, <1>3, <1>4 DEF Next, slaveAckCommand

\* The variables keep their types: TypeOK holds in every reachable state.
THEOREM TypeCorrect == Spec => []TypeOK
  BY TypeInit, TypeStep, PTL DEF Spec

----------------------------------------------------------------------------
(* Claims.  A step touches them by claiming, by passing on, by dropping, or *)
(* by acknowledging what was passed on.                                    *)

LEMMA ClaimInit == Init => ClaimInv
  BY CommandsAssumption DEF Init, ClaimInv, HeldFresh, HeldOnce, KeptInClaim, Stages

\* A step that leaves the store, the PC and the holders alone.
LEMMA ClaimFrame ==
  ASSUME ClaimInv, UNCHANGED <<status, wcur, pgot, ran, result, call>>,
         KeptInClaim'
  PROVE  ClaimInv'
  BY DEF ClaimInv, HeldFresh, HeldOnce, Stages

LEMMA PushClaims ==
  ASSUME TypeOK, ClaimInv, NEW c \in Cmds, PushCommandArgs(c)
  PROVE  ClaimInv'
<1>0. call[c] = "idle" /\ status[c] = "absent"
  BY DEF PushCommandArgs, ClaimInv, Stages
<1>1. /\ call[c] = "idle" /\ status[c] = "absent"
      /\ call' \in [Cmds -> {"idle", "waiting", "failed", "timedOut"} \cup Outcomes]
      /\ call'[c] # "idle"
      /\ \A d \in Cmds : d # c => call'[d] = call[d] /\ status'[d] = status[d]
      /\ status'[c] \in {"absent", "pending"}
      /\ UNCHANGED <<wcur, pgot, ppc, ran, result>>
  <2>1. /\ \E v \in {"waiting", "failed"} : call' = [call EXCEPT ![c] = v]
        /\ status' = status \/ status' = [status EXCEPT ![c] = "pending"]
        /\ UNCHANGED <<wcur, pgot, ppc, ran, result>>
    BY DEF PushCommandArgs, Publish, exec
  <2>2. call \in [Cmds -> {"idle", "waiting", "failed", "timedOut"} \cup Outcomes]
    BY DEF TypeOK
  <2>3. DOMAIN status = Cmds
    BY DEF TypeOK
  <2> QED
    BY <1>0, <2>1, <2>2, <2>3
<1>2. HeldFresh'
  <2>1. \A w \in Watchers : wcur[w] # Nil => wcur[w] # c /\ wcur[w] \in Cmds
    BY <1>1 DEF ClaimInv, HeldFresh, TypeOK
  <2>2. \A p \in Polls : \A d \in pgot[p] : d # c /\ d \in Cmds
    BY <1>1 DEF ClaimInv, HeldFresh, TypeOK
  <2> QED BY <1>1, <2>1, <2>2 DEF ClaimInv, HeldFresh
<1>3. HeldOnce' /\ KeptInClaim'
  BY <1>1 DEF ClaimInv, HeldOnce, KeptInClaim
<1>4. Stages'
  BY <1>1 DEF ClaimInv, Stages, TypeOK
<1> QED BY <1>2, <1>3, <1>4 DEF ClaimInv

\* A claim whose caller sees success hands c to one fresh holder.
LEMMA AgentClaims ==
  ASSUME TypeOK, ClaimInv, NEW w \in Watchers, NEW c \in Cmds, ClaimChange(w, c)
  PROVE  ClaimInv'
<1>1. PICK ok \in BOOLEAN :
        /\ claimCommand(c, ok)
        /\ wcur' = [wcur EXCEPT ![w] = IF ok THEN c ELSE Nil]
  BY DEF ClaimChange
<1>2. UNCHANGED <<call, ppc, pgot, ran, result>> /\ wcur[w] = Nil
  BY DEF ClaimChange, poll, exec
<1>3. /\ ok => status[c] = "pending" /\ status' = [status EXCEPT ![c] = "running"]
      /\ status' = status \/ (status[c] = "pending" /\ status' = [status EXCEPT ![c] = "running"])
  BY <1>1 DEF claimCommand
<1>4. status[c] = "pending" =>
        /\ ran[c] = 0
        /\ \A v \in Watchers : wcur[v] # c
        /\ \A p \in Polls : c \notin pgot[p]
  BY CommandsAssumption DEF ClaimInv, HeldFresh, Stages
<1>5. \A d \in Cmds : status[d] = "running" => status'[d] = "running"
  BY <1>3 DEF TypeOK
<1>6. /\ wcur' \in [Watchers -> Cmds \cup {Nil}]
      /\ wcur'[w] = IF ok THEN c ELSE Nil
      /\ \A v \in Watchers : v # w => wcur'[v] = wcur[v]
  BY <1>1 DEF TypeOK
<1>7. ok => status'[c] = "running"
  BY <1>3 DEF TypeOK
<1>8. HeldFresh'
  <2>1. \A v \in Watchers : wcur'[v] # Nil => status'[wcur'[v]] = "running" /\ ran'[wcur'[v]] = 0
    <3> SUFFICES ASSUME NEW v \in Watchers, wcur'[v] # Nil
                 PROVE  status'[wcur'[v]] = "running" /\ ran'[wcur'[v]] = 0
      OBVIOUS
    <3>1. CASE v = w
      BY <3>1, <1>2, <1>3, <1>4, <1>6, <1>7
    <3>2. CASE v # w
      BY <3>2, <1>2, <1>5, <1>6 DEF ClaimInv, HeldFresh, TypeOK
    <3> QED BY <3>1, <3>2
  <2>2. \A p \in Polls : \A d \in pgot'[p] : status'[d] = "running" /\ ran'[d] = 0
    BY <1>2, <1>5 DEF ClaimInv, HeldFresh, TypeOK
  <2> QED BY <2>1, <2>2 DEF HeldFresh
<1>9. HeldOnce'
  BY <1>2, <1>3, <1>4, <1>6 DEF ClaimInv, HeldOnce, TypeOK
<1>10. KeptInClaim'
  BY <1>2 DEF ClaimInv, KeptInClaim
<1>11. Stages'
  BY <1>2, <1>3, <1>4 DEF ClaimInv, Stages, TypeOK
<1> QED BY <1>8, <1>9, <1>10, <1>11 DEF ClaimInv

LEMMA PollClaims ==
  ASSUME TypeOK, ClaimInv, NEW p \in Polls, NEW c \in Cmds, ClaimNext(p, c)
  PROVE  ClaimInv'
<1>1. PICK ok \in BOOLEAN :
        /\ claimCommandFor(p, c, ok)
        /\ pgot' = [pgot EXCEPT ![p] = IF ok THEN @ \cup {c} ELSE @]
  BY DEF ClaimNext
<1>2. UNCHANGED <<call, ppc, wcur, ran, result>> /\ ppc[p] = "claim"
  BY DEF ClaimNext, subs, exec
<1>3. /\ ok => status[c] = "pending" /\ status' = [status EXCEPT ![c] = "running"]
      /\ status' = status \/ (status[c] = "pending" /\ status' = [status EXCEPT ![c] = "running"])
  BY <1>1 DEF claimCommandFor
<1>4. status[c] = "pending" =>
        /\ ran[c] = 0
        /\ \A v \in Watchers : wcur[v] # c
        /\ \A q \in Polls : c \notin pgot[q]
  BY CommandsAssumption DEF ClaimInv, HeldFresh, Stages
<1>5. \A d \in Cmds : status[d] = "running" => status'[d] = "running"
  BY <1>3 DEF TypeOK
<1>6. /\ \A q \in Polls : q # p => pgot'[q] = pgot[q]
      /\ \A d : d \in pgot'[p] => d \in pgot[p] \/ (ok /\ d = c)
  BY <1>1 DEF TypeOK
<1>7. ok => status'[c] = "running"
  BY <1>3 DEF TypeOK
<1>8. HeldFresh'
  <2>1. \A v \in Watchers : wcur'[v] # Nil => status'[wcur'[v]] = "running" /\ ran'[wcur'[v]] = 0
    BY <1>2, <1>5 DEF ClaimInv, HeldFresh, TypeOK
  <2>2. \A q \in Polls : \A d \in pgot'[q] : status'[d] = "running" /\ ran'[d] = 0
    BY <1>2, <1>3, <1>4, <1>5, <1>6, <1>7 DEF ClaimInv, HeldFresh, TypeOK
  <2> QED BY <2>1, <2>2 DEF HeldFresh
<1>9. HeldOnce'
  BY <1>2, <1>3, <1>4, <1>6 DEF ClaimInv, HeldOnce, TypeOK
<1>10. KeptInClaim'
  BY <1>2, <1>6 DEF ClaimInv, KeptInClaim
<1>11. Stages'
  BY <1>2, <1>3, <1>4 DEF ClaimInv, Stages, TypeOK
<1> QED BY <1>8, <1>9, <1>10, <1>11 DEF ClaimInv

\* fn(cm): the only holder lets go of the command it starts.
LEMMA AgentStarts ==
  ASSUME TypeOK, ClaimInv, NEW w \in Watchers, Handle(w)
  PROVE  /\ ClaimInv'
         /\ status[wcur[w]] = "running" /\ ran[wcur[w]] = 0 /\ wcur[w] \in Cmds
         /\ ran' = [ran EXCEPT ![wcur[w]] = 1]
<1> DEFINE c == wcur[w]
<1>1. c \in Cmds /\ status[c] = "running" /\ ran[c] = 0
  BY DEF Handle, ClaimInv, HeldFresh, TypeOK
<1>2. /\ ran' = [ran EXCEPT ![c] = 1]
      /\ wcur' = [wcur EXCEPT ![w] = Nil]
      /\ UNCHANGED <<status, call, pgot, ppc, result>>
  BY <1>1 DEF Handle, poll, TypeOK
<1>3. /\ \A v \in Watchers : wcur'[v] # Nil => v # w /\ wcur'[v] = wcur[v] /\ wcur[v] # c
      /\ \A p \in Polls : c \notin pgot[p]
  BY <1>1, <1>2 DEF ClaimInv, HeldOnce, TypeOK
<1>4. \A d \in Cmds : d # c => ran'[d] = ran[d]
  BY <1>2 DEF TypeOK
<1>5. HeldFresh'
  BY <1>2, <1>3, <1>4 DEF ClaimInv, HeldFresh, TypeOK
<1>6. HeldOnce'
  <2>1. \A v \in Watchers, p \in Polls : wcur'[v] \notin pgot'[p]
    BY <1>2, <1>3, CommandsAssumption DEF ClaimInv, HeldOnce, TypeOK
  <2>2. \A v, u \in Watchers : wcur'[v] # Nil /\ wcur'[v] = wcur'[u] => v = u
    BY <1>3 DEF ClaimInv, HeldOnce
  <2> QED BY <1>2, <2>1, <2>2 DEF ClaimInv, HeldOnce
<1>7. KeptInClaim'
  BY <1>2 DEF ClaimInv, KeptInClaim
<1>8. Stages'
  BY <1>1, <1>2 DEF ClaimInv, Stages, TypeOK
<1> QED BY <1>1, <1>2, <1>5, <1>6, <1>7, <1>8 DEF ClaimInv

\* The response: what the client gets, it gets once.
LEMMA PollStarts ==
  ASSUME TypeOK, ClaimInv, NEW p \in Polls, Reply(p)
  PROVE  /\ ClaimInv'
         /\ \A c \in pgot[p] : c \in Cmds /\ status[c] = "running" /\ ran[c] = 0
         /\ ran' = [c \in Cmds |-> IF c \in pgot[p] /\ ~gone[p] THEN 1 ELSE ran[c]]
<1>1. \A c \in pgot[p] : c \in Cmds /\ status[c] = "running" /\ ran[c] = 0
  BY DEF ClaimInv, HeldFresh, TypeOK
<1>2. ran' = [c \in Cmds |-> IF c \in pgot[p] /\ ~gone[p] THEN 1 ELSE ran[c]]
  BY <1>1 DEF Reply, TypeOK
<1>3. /\ pgot' = [pgot EXCEPT ![p] = {}]
      /\ ppc' = [ppc EXCEPT ![p] = "idle"]
      /\ UNCHANGED <<status, call, wcur, result>>
  BY DEF Reply, Return, subs
<1>4. \A q \in Polls : \A c \in pgot'[q] : q # p /\ c \in pgot[q] /\ c \notin pgot[p]
  BY <1>3 DEF ClaimInv, HeldOnce, TypeOK
<1>5. \A c \in Cmds : c \notin pgot[p] => ran'[c] = ran[c]
  BY <1>2
<1>6. HeldFresh'
  <2>1. \A v \in Watchers : wcur'[v] # Nil => status'[wcur'[v]] = "running" /\ ran'[wcur'[v]] = 0
    BY <1>3, <1>5 DEF ClaimInv, HeldFresh, HeldOnce, TypeOK
  <2>2. \A q \in Polls : \A c \in pgot'[q] : status'[c] = "running" /\ ran'[c] = 0
    BY <1>3, <1>4, <1>5 DEF ClaimInv, HeldFresh, TypeOK
  <2> QED BY <2>1, <2>2 DEF HeldFresh
<1>7. HeldOnce'
  BY <1>3, <1>4 DEF ClaimInv, HeldOnce, TypeOK
<1>8. KeptInClaim'
  BY <1>3, <1>4 DEF ClaimInv, KeptInClaim, TypeOK
<1>9. Stages'
  BY <1>1, <1>2, <1>3 DEF ClaimInv, Stages, TypeOK
<1> QED BY <1>1, <1>2, <1>6, <1>7, <1>8, <1>9 DEF ClaimInv

\* The handler of a poll that holds nothing returns.
LEMMA ReturnClaims ==
  ASSUME TypeOK, ClaimInv, NEW p \in Polls, Return(p), pgot[p] = {},
         UNCHANGED <<status, call, wcur, ran, result>>
  PROVE  ClaimInv'
<1>1. pgot' = pgot
  BY DEF Return, TypeOK
<1>2. KeptInClaim'
  BY <1>1 DEF Return, ClaimInv, KeptInClaim, TypeOK
<1> QED BY <1>1, <1>2, ClaimFrame

LEMMA ExecuteClaims ==
  ASSUME TypeOK, ClaimInv, NEW c \in Cmds, Execute(c)
  PROVE  ClaimInv'
<1>1. UNCHANGED <<status, call, wcur, pgot, ppc, ran>>
  BY DEF Execute, subs, poll
<1>2. Stages'
  BY <1>1 DEF Execute, ClaimInv, Stages, TypeOK
<1> QED BY <1>1, <1>2 DEF ClaimInv, HeldFresh, HeldOnce, KeptInClaim

\* An acknowledgement, first or repeated, concerns a command nobody holds.
LEMMA AckClaims ==
  ASSUME TypeOK, ClaimInv, NEW c \in Cmds, AckCommand(c)
  PROVE  ClaimInv' /\ status[c] \in {"running", result[c]} /\ ran[c] = 1
<1>1. /\ UNCHANGED <<call, wcur, pgot, ppc, ran, result>>
      /\ status' = [status EXCEPT ![c] = result[c]]
      /\ result[c] # "none"
  BY DEF AckCommand, subs, poll, exec
<1>2. ran[c] = 1 /\ status[c] \in {"running", result[c]}
  BY <1>1 DEF ClaimInv, Stages, TypeOK
<1>3. \A d \in Cmds : ran[d] = 0 => status'[d] = status[d]
  BY <1>1, <1>2 DEF TypeOK
<1>4. HeldFresh'
  BY <1>1, <1>3 DEF ClaimInv, HeldFresh, TypeOK
<1>5. Stages'
  BY <1>1, <1>2 DEF ClaimInv, Stages, TypeOK
<1>6. HeldOnce' /\ KeptInClaim'
  BY <1>1 DEF ClaimInv, HeldOnce, KeptInClaim
<1> QED BY <1>2, <1>4, <1>5, <1>6 DEF ClaimInv

\* Answers to the submitter.
LEMMA CallClaims ==
  ASSUME TypeOK, ClaimInv, NEW c \in Cmds, WaitCommand(c) \/ GetCommand(c)
  PROVE  ClaimInv'
<1>1. UNCHANGED <<status, wcur, pgot, ppc, ran, result>>
  BY DEF WaitCommand, GetCommand, subs, poll, exec
<1>2. \A d \in Cmds : call'[d] = "idle" => call[d] = "idle"
  BY DEF WaitCommand, GetCommand, TypeOK
<1>3. Stages'
  BY <1>1, <1>2 DEF ClaimInv, Stages
<1> QED BY <1>1, <1>3 DEF ClaimInv, HeldFresh, HeldOnce, KeptInClaim

LEMMA ClaimStep == TypeOK /\ ClaimInv /\ [Next]_vars => ClaimInv'
<1> SUFFICES ASSUME TypeOK, ClaimInv, [Next]_vars PROVE ClaimInv'
  OBVIOUS
<1>0. CASE UNCHANGED vars
  BY <1>0 DEF vars, subs, poll, exec, ClaimInv, HeldFresh, HeldOnce, KeptInClaim, Stages
<1>1. CASE \E c \in Cmds : Submitter(c) \/ Execute(c) \/ AckCommand(c)
  BY <1>1, PushClaims, CallClaims, ExecuteClaims, AckClaims DEF Submitter
<1>2. CASE \E w \in Watchers : Agent(w)
  <2> PICK w \in Watchers : Agent(w)
    BY <1>2
  <2>1. CASE Subscribe(w) \/ EndSubscription(w) \/ GoSilent(w)
    <3>1. UNCHANGED <<status, call, wcur, pgot, ppc, ran, result>>
      BY <2>1 DEF Subscribe, EndSubscription, GoSilent, poll, exec
    <3> QED BY <3>1, ClaimFrame DEF ClaimInv, KeptInClaim
  <2>2. CASE AgentRestarts(w)
    <3>1. /\ UNCHANGED <<status, call, pgot, ppc, ran, result>>
          /\ wcur' = [wcur EXCEPT ![w] = Nil]
      BY <2>2 DEF AgentRestarts, poll, exec
    <3>2. \A v \in Watchers : wcur'[v] \in {wcur[v], Nil}
      BY <3>1 DEF TypeOK
    <3>3. HeldFresh' /\ Stages' /\ KeptInClaim'
      BY <3>1, <3>2 DEF ClaimInv, HeldFresh, Stages, KeptInClaim
    <3>4. HeldOnce'
      BY <3>1, <3>2, CommandsAssumption DEF ClaimInv, HeldOnce, TypeOK
    <3> QED BY <3>3, <3>4 DEF ClaimInv
  <2> QED BY <2>1, <2>2, AgentClaims, AgentStarts DEF Agent
<1>3. CASE \E p \in Polls : slaveGuard(p) \/ Handler(p) \/ Notifier(p) \/ ClientGone(p)
  <2> PICK p \in Polls : slaveGuard(p) \/ Handler(p) \/ Notifier(p) \/ ClientGone(p)
    BY <1>3
  <2>1. CASE NotifierSubscribes(p) \/ NotifierFails(p) \/ Notify(p) \/ ClientGone(p)
    <3>1. UNCHANGED <<status, call, wcur, pgot, ppc, ran, result>>
      BY <2>1 DEF NotifierSubscribes, NotifierFails, Notify, ClientGone, subs, exec
    <3> QED BY <3>1, ClaimFrame DEF ClaimInv, KeptInClaim
  <2>2. CASE slaveGuard(p) \/ QueryPending(p) \/ Hold(p) \/ (Wake(p) /\ pgot' = pgot)
    <3>1. UNCHANGED <<status, call, wcur, pgot, ran, result>>
      BY <2>2 DEF slaveGuard, QueryPending, Hold, Wake, subs, exec
    <3>2. pgot[p] = {} /\ \A q \in Polls : q # p => ppc'[q] = ppc[q]
      BY <2>2 DEF slaveGuard, QueryPending, Hold, Wake, Return, ClaimInv, KeptInClaim, TypeOK
    <3>3. KeptInClaim'
      BY <3>1, <3>2 DEF ClaimInv, KeptInClaim
    <3> QED BY <3>1, <3>3, ClaimFrame
  <2>3. CASE HoldEnds(p) \/ (Wake(p) /\ Return(p))
    <3>1. UNCHANGED <<status, call, wcur, ran, result>> /\ pgot[p] = {} /\ Return(p)
      BY <2>3 DEF HoldEnds, Wake, subs, exec, ClaimInv, KeptInClaim
    <3> QED BY <3>1, ReturnClaims
  <2>4. Wake(p) => pgot' = pgot \/ Return(p)
    BY DEF Wake
  <2> QED BY <2>1, <2>2, <2>3, <2>4, PollClaims, PollStarts DEF Handler, Notifier
<1>4. CASE SetRevoked
  <2>1. UNCHANGED <<status, call, wcur, pgot, ppc, ran, result>>
    BY <1>4 DEF SetRevoked, subs, poll, exec
  <2> QED BY <2>1, ClaimFrame DEF ClaimInv, KeptInClaim
<1> QED BY <1>0, <1>1, <1>2, <1>3, <1>4 DEF Next, slaveAckCommand

LEMMA ClaimsHold == Spec => [](TypeOK /\ ClaimInv)
  BY TypeInit, TypeStep, ClaimInit, ClaimStep, PTL DEF Spec

\* A command reaches the PC at most once: the claim transaction gives it to
\* one holder, and a holder passes it on once.
THEOREM AtMostOnceHolds == Spec => []AtMostOnce
<1>1. ClaimInv => \A c \in Cmds : ran[c] = 0 \/ ran[c] = 1
  BY Zenon DEF ClaimInv, Stages
<1>2. ClaimInv => AtMostOnce
  <2> SUFFICES ASSUME ClaimInv, NEW c \in Cmds PROVE ran[c] <= 1
    BY DEF AtMostOnce
  <2>1. ran[c] = 0 \/ ran[c] = 1
    BY <1>1
  <2> QED BY <2>1
<1> QED BY <1>2, ClaimsHold, PTL

----------------------------------------------------------------------------
(* The queue implements Job.                                               *)

LEMMA JobInitial == Init => J!JobInit
  BY DEF Init, J!JobInit

\* Every step of the queue is a step of Job or leaves its variables alone.
LEMMA JobStep ==
  TypeOK /\ ClaimInv /\ [Next]_vars => [J!JobNext]_(J!jobVars)
<1> SUFFICES ASSUME TypeOK, ClaimInv, [Next]_vars PROVE [J!JobNext]_(J!jobVars)
  OBVIOUS
<1> USE DEF J!Outcomes
<1>0. CASE UNCHANGED <<status, ran, result, call>>
  BY <1>0 DEF J!jobVars
<1>1. ASSUME NEW c \in Cmds, PushCommandArgs(c)
      PROVE  J!Submit(c)
  BY <1>1 DEF PushCommandArgs, Publish, exec, J!Submit
<1>2. ASSUME NEW c \in Cmds, WaitCommand(c)
      PROVE  J!Answer(c) \/ J!GiveUp(c)
  <2>1. UNCHANGED <<status, ran, result>> /\ call[c] = "waiting"
    BY <1>2 DEF WaitCommand, exec
  <2>2. CASE status[c] \in Outcomes /\ call' = [call EXCEPT ![c] = status[c]]
    BY <2>1, <2>2 DEF J!Answer, ClaimInv, Stages
  <2>3. CASE call' = [call EXCEPT ![c] = "timedOut"]
    BY <2>1, <2>3 DEF J!GiveUp
  <2>4. CASE call' = [call EXCEPT ![c] = "failed"]
    BY <2>1, <2>4 DEF J!GiveUp
  <2> QED BY <1>2, <2>2, <2>3, <2>4 DEF WaitCommand
<1>3. ASSUME NEW c \in Cmds, GetCommand(c)
      PROVE  J!Answer(c)
  BY <1>3 DEF GetCommand, exec, J!Answer, ClaimInv, Stages
<1>4. ASSUME NEW c \in Cmds, Execute(c)
      PROVE  J!Finish(c)
  <2>1. ran[c] = 1
    BY <1>4 DEF Execute, ClaimInv, Stages
  <2> QED BY <1>4, <2>1 DEF Execute, J!Finish
<1>5. ASSUME NEW c \in Cmds, AckCommand(c)
      PROVE  J!Report(c) \/ UNCHANGED <<status, ran, result, call>>
  <2>1. status[c] \in {"running", result[c]}
    BY <1>5, AckClaims
  <2>2. CASE status[c] = "running"
    BY <1>5, <2>2 DEF AckCommand, exec, J!Report
  <2>3. CASE status[c] = result[c]
    BY <1>5, <2>3 DEF AckCommand, exec, TypeOK
  <2> QED BY <2>1, <2>2, <2>3
<1>6. ASSUME NEW w \in Watchers, NEW c \in Cmds, ClaimChange(w, c)
      PROVE  J!Claim(c) \/ UNCHANGED <<status, ran, result, call>>
  BY <1>6 DEF ClaimChange, claimCommand, exec, J!Claim
<1>7. ASSUME NEW p \in Polls, NEW c \in Cmds, ClaimNext(p, c)
      PROVE  J!Claim(c) \/ UNCHANGED <<status, ran, result, call>>
  BY <1>7 DEF ClaimNext, claimCommandFor, exec, J!Claim
<1>8. ASSUME NEW w \in Watchers, Handle(w)
      PROVE  \E S \in SUBSET Cmds : J!Start(S)
  <2>1. /\ status[wcur[w]] = "running" /\ ran[wcur[w]] = 0 /\ wcur[w] \in Cmds
        /\ ran' = [ran EXCEPT ![wcur[w]] = 1]
    BY <1>8, AgentStarts
  <2>2. J!Start({wcur[w]})
    BY <1>8, <2>1 DEF Handle, J!Start, TypeOK
  <2> QED BY <2>1, <2>2
<1>9. ASSUME NEW p \in Polls, Reply(p)
      PROVE  \E S \in SUBSET Cmds : J!Start(S)
  <2>1. /\ \A c \in pgot[p] : c \in Cmds /\ status[c] = "running" /\ ran[c] = 0
        /\ ran' = [c \in Cmds |-> IF c \in pgot[p] /\ ~gone[p] THEN 1 ELSE ran[c]]
    BY <1>9, PollStarts
  <2>2. UNCHANGED <<status, call, result>>
    BY <1>9 DEF Reply
  <2>3. CASE gone[p]
    <3>1. J!Start({})
      BY <2>1, <2>2, <2>3 DEF J!Start, TypeOK
    <3> QED BY <3>1
  <2>4. CASE ~gone[p]
    <3>1. J!Start(pgot[p]) /\ pgot[p] \in SUBSET Cmds
      BY <2>1, <2>2, <2>4 DEF J!Start, TypeOK
    <3> QED BY <3>1
  <2> QED BY <2>3, <2>4
<1>10. ASSUME NEW w \in Watchers,
              Subscribe(w) \/ EndSubscription(w) \/ GoSilent(w) \/ AgentRestarts(w)
       PROVE  UNCHANGED <<status, ran, result, call>>
  BY <1>10 DEF Subscribe, EndSubscription, GoSilent, AgentRestarts, exec
<1>11. ASSUME NEW p \in Polls,
              \/ slaveGuard(p) \/ QueryPending(p) \/ Hold(p) \/ Wake(p)
              \/ HoldEnds(p) \/ Notifier(p) \/ ClientGone(p)
       PROVE  UNCHANGED <<status, ran, result, call>>
  BY <1>11 DEF slaveGuard, QueryPending, Hold, Wake, HoldEnds, Notifier,
               NotifierSubscribes, NotifierFails, Notify, ClientGone, exec
<1>12. ASSUME SetRevoked
       PROVE  UNCHANGED <<status, ran, result, call>>
  BY <1>12 DEF SetRevoked, exec
<1>13. J!JobNext \/ UNCHANGED <<status, ran, result, call>>
  <2>1. CASE \E c \in Cmds : Submitter(c) \/ Execute(c) \/ AckCommand(c)
    BY <2>1, <1>1, <1>2, <1>3, <1>4, <1>5, Zenon DEF Submitter, J!JobNext
  <2>2. CASE \E w \in Watchers : Agent(w)
    BY <2>2, <1>6, <1>8, <1>10, Zenon DEF Agent, J!JobNext
  <2>3. CASE \E p \in Polls : slaveGuard(p) \/ Handler(p) \/ Notifier(p) \/ ClientGone(p)
    BY <2>3, <1>7, <1>9, <1>11, Zenon DEF Handler, J!JobNext
  <2>4. CASE UNCHANGED vars
    BY <2>4 DEF vars, exec
  <2> QED BY <2>1, <2>2, <2>3, <2>4, <1>12, Zenon DEF Next, slaveAckCommand
<1> QED BY <1>0, <1>13

\* The queue implements what Job promises, for any mix of agents and polls.
THEOREM ImplementsJob == Spec => JobSpec
<1>1. Init => J!JobInit
  BY JobInitial
<1>2. TypeOK /\ ClaimInv /\ [Next]_vars => [J!JobNext]_(J!jobVars)
  BY JobStep
<1> QED BY <1>1, <1>2, ClaimsHold, PTL DEF Spec, JobSpec, J!JobSpec

----------------------------------------------------------------------------
(* Short of a fault.                                                       *)

\* Faults are only counted up.
LEMMA FaultsGrow == TypeOK /\ [Next]_vars /\ faults' = 0 => faults = 0
<1> SUFFICES ASSUME TypeOK, [Next]_vars, faults' = 0 PROVE faults = 0
  OBVIOUS
<1>1. faults \in Nat
  BY CommandsAssumption DEF TypeOK
<1>2. faults' = faults \/ faults' = faults + 1
  <2>1. CASE \E c \in Cmds : Submitter(c) \/ Execute(c) \/ AckCommand(c)
    BY <2>1 DEF Submitter, PushCommandArgs, WaitCommand, GetCommand, Execute,
                AckCommand, Fails
  <2>2. CASE \E w \in Watchers : Agent(w)
    BY <2>2 DEF Agent, Subscribe, Handle, EndSubscription, GoSilent, AgentRestarts,
                ClaimChange, claimCommand, Fails
  <2>3. CASE \E p \in Polls : slaveGuard(p) \/ Handler(p) \/ Notifier(p) \/ ClientGone(p)
    <3> PICK p \in Polls : slaveGuard(p) \/ Handler(p) \/ Notifier(p) \/ ClientGone(p)
      BY <2>3
    <3>1. CASE slaveGuard(p) \/ Wake(p)
      BY <3>1 DEF slaveGuard, Wake, NotRevoked, Fails
    <3>2. CASE \E c \in Cmds : ClaimNext(p, c)
      BY <3>2 DEF ClaimNext, claimCommandFor, Fails
    <3>3. CASE QueryPending(p) \/ Reply(p) \/ Hold(p) \/ HoldEnds(p)
      BY <3>3 DEF QueryPending, Reply, Hold, HoldEnds, Fails
    <3>4. CASE Notifier(p) \/ ClientGone(p)
      BY <3>4 DEF Notifier, NotifierSubscribes, NotifierFails, Notify, ClientGone, Fails
    <3> QED BY <3>1, <3>2, <3>3, <3>4 DEF Handler
  <2>4. CASE SetRevoked \/ UNCHANGED vars
    BY <2>4 DEF SetRevoked, vars
  <2> QED BY <2>1, <2>2, <2>3, <2>4 DEF Next, slaveAckCommand
<1> QED BY <1>1, <1>2

DeliveryInv == GoneIsFault /\ ClaimedNotDropped

LEMMA DeliveryInit == Init => DeliveryInv
  BY DEF Init, DeliveryInv, GoneIsFault, ClaimedNotDropped, ClaimMeansDelivery

LEMMA GoneStep == TypeOK /\ GoneIsFault /\ [Next]_vars => GoneIsFault'
<1> SUFFICES ASSUME TypeOK, GoneIsFault, [Next]_vars, faults' = 0,
                    NEW q \in Polls, gone'[q]
             PROVE  FALSE
  BY DEF GoneIsFault
<1>1. faults = 0
  BY FaultsGrow
<1>2. ~gone[q]
  BY <1>1 DEF GoneIsFault
<1>3. PICK p \in Polls : ClientGone(p) \/ (Return(p) /\ gone' # gone)
  <2>1. gone' # gone
    BY <1>2
  <2>2. CASE \E c \in Cmds : Submitter(c) \/ Execute(c) \/ AckCommand(c)
    BY <2>1, <2>2 DEF Submitter, PushCommandArgs, WaitCommand, GetCommand, Execute,
                AckCommand, poll
  <2>3. CASE \E w \in Watchers : Agent(w)
    BY <2>1, <2>3 DEF Agent, Subscribe, Handle, EndSubscription, GoSilent,
                AgentRestarts, ClaimChange, poll
  <2>4. CASE \E p \in Polls : slaveGuard(p) \/ Handler(p) \/ Notifier(p) \/ ClientGone(p)
    BY <2>1, <2>4 DEF slaveGuard, Handler, Notifier, QueryPending, ClaimNext, Reply,
                Hold, Wake, HoldEnds, NotifierSubscribes, NotifierFails, Notify
  <2>5. CASE SetRevoked \/ UNCHANGED vars
    BY <2>1, <2>5 DEF SetRevoked, vars, poll
  <2> QED BY <2>2, <2>3, <2>4, <2>5 DEF Next, slaveAckCommand
<1>4. CASE ClientGone(p)
  BY <1>1, <1>4 DEF ClientGone, Fails
<1>5. CASE Return(p)
  BY <1>2, <1>5 DEF Return, TypeOK
<1> QED BY <1>3, <1>4, <1>5

LEMMA DeliveryStep ==
  TypeOK /\ ClaimInv /\ DeliveryInv /\ [Next]_vars => DeliveryInv'
<1> SUFFICES ASSUME TypeOK, ClaimInv, DeliveryInv, [Next]_vars PROVE DeliveryInv'
  OBVIOUS
<1>1. GoneIsFault'
  BY GoneStep DEF DeliveryInv
<1>2. ASSUME faults' = 0, NEW c \in Cmds, status'[c] = "running"
      PROVE  (ran[c] > 0 \/ Held(c))'
  <2>0. faults = 0 /\ (status[c] = "running" => ran[c] > 0 \/ Held(c))
    BY <1>2, FaultsGrow DEF DeliveryInv, ClaimedNotDropped, ClaimMeansDelivery
  <2>1. CASE UNCHANGED <<status, wcur, pgot, ran>>
    BY <1>2, <2>0, <2>1 DEF Held
  <2>2. ASSUME NEW d \in Cmds, PushCommandArgs(d)
        PROVE  (ran[c] > 0 \/ Held(c))'
    <3>a. /\ UNCHANGED <<wcur, pgot, ran>>
          /\ status' = status \/ status' = [status EXCEPT ![d] = "pending"]
      BY <2>2, Zenon DEF PushCommandArgs, Publish, exec
    <3>1. UNCHANGED <<wcur, pgot, ran>> /\ (status'[c] = "running" => status[c] = "running")
      BY <3>a DEF TypeOK
    <3> QED BY <1>2, <2>0, <3>1 DEF Held
  <2>3. ASSUME NEW d \in Cmds, AckCommand(d)
        PROVE  (ran[c] > 0 \/ Held(c))'
    <3>1. UNCHANGED <<wcur, pgot, ran>> /\ (status'[c] = "running" => status[c] = "running")
      BY <2>3 DEF AckCommand, subs, poll, exec, TypeOK
    <3> QED BY <1>2, <2>0, <3>1 DEF Held
  <2>4. ASSUME NEW w \in Watchers, NEW d \in Cmds, ClaimChange(w, d)
        PROVE  (ran[c] > 0 \/ Held(c))'
    <3>1. UNCHANGED <<pgot, ran>> /\ wcur[w] = Nil
      BY <2>4 DEF ClaimChange, poll, exec
    <3>2. \/ status' = [status EXCEPT ![d] = "running"] /\ wcur' = [wcur EXCEPT ![w] = d]
          \/ status' = status /\ wcur' = [wcur EXCEPT ![w] = Nil]
      <4>1. ~Fails(FALSE)
        BY <1>2, <2>0 DEF Fails
      <4>2. PICK ok \in BOOLEAN :
              /\ claimCommand(d, ok)
              /\ wcur' = [wcur EXCEPT ![w] = IF ok THEN d ELSE Nil]
        BY <2>4 DEF ClaimChange
      <4>3. \/ status' = [status EXCEPT ![d] = "running"] /\ ok
            \/ status' = status /\ ~ok
        BY <4>1, <4>2, Zenon DEF claimCommand
      <4> QED BY <4>2, <4>3
    <3>3. CASE c = d /\ status' # status
      BY <3>2, <3>3 DEF Held, TypeOK
    <3>4. CASE c # d \/ status' = status
      <4>1. status[c] = "running"
        BY <1>2, <3>2, <3>4 DEF TypeOK
      <4>2. \A v \in Watchers : wcur[v] = c => wcur'[v] = c
        BY <3>1, <3>2, CommandsAssumption DEF TypeOK
      <4> QED BY <2>0, <3>1, <4>1, <4>2 DEF Held
    <3> QED BY <3>3, <3>4
  <2>5. ASSUME NEW w \in Watchers, Handle(w)
        PROVE  (ran[c] > 0 \/ Held(c))'
    <3>1. /\ wcur[w] \in Cmds
          /\ ran' = [ran EXCEPT ![wcur[w]] = 1]
          /\ wcur' = [wcur EXCEPT ![w] = Nil]
          /\ UNCHANGED <<status, pgot>>
      BY <2>5, AgentStarts DEF Handle, poll
    <3>2. CASE c = wcur[w]
      BY <3>1, <3>2 DEF TypeOK
    <3>3. CASE c # wcur[w]
      <4>1. ran'[c] = ran[c] /\ \A v \in Watchers : wcur[v] = c => wcur'[v] = c
        BY <3>1, <3>3 DEF TypeOK
      <4> QED BY <1>2, <2>0, <3>1, <4>1 DEF Held
    <3> QED BY <3>2, <3>3
  <2>6. ASSUME NEW p \in Polls, NEW d \in Cmds, ClaimNext(p, d)
        PROVE  (ran[c] > 0 \/ Held(c))'
    <3>1. UNCHANGED <<wcur, ran>> /\ ~gone[p]
      BY <2>0, <2>6 DEF ClaimNext, subs, exec, DeliveryInv, GoneIsFault
    <3>2. \/ status' = [status EXCEPT ![d] = "running"] /\ pgot' = [pgot EXCEPT ![p] = @ \cup {d}]
          \/ status' = status /\ pgot' = [pgot EXCEPT ![p] = @]
      <4>1. ~Fails(gone[p])
        BY <1>2, <2>0, <3>1 DEF Fails
      <4>2. PICK ok \in BOOLEAN :
              /\ claimCommandFor(p, d, ok)
              /\ pgot' = [pgot EXCEPT ![p] = IF ok THEN @ \cup {d} ELSE @]
        BY <2>6 DEF ClaimNext
      <4>3. \/ status' = [status EXCEPT ![d] = "running"] /\ ok
            \/ status' = status /\ ~ok
        BY <4>1, <4>2, Zenon DEF claimCommandFor
      <4> QED BY <4>2, <4>3
    <3>3. CASE c = d /\ status' # status
      BY <3>2, <3>3 DEF Held, TypeOK
    <3>4. CASE c # d \/ status' = status
      <4>1. status[c] = "running"
        BY <1>2, <3>2, <3>4 DEF TypeOK
      <4>2. \A q \in Polls : c \in pgot[q] => c \in pgot'[q]
        BY <3>2 DEF TypeOK
      <4> QED BY <2>0, <3>1, <4>1, <4>2 DEF Held
    <3> QED BY <3>3, <3>4
  <2>7. ASSUME NEW p \in Polls, Reply(p)
        PROVE  (ran[c] > 0 \/ Held(c))'
    <3>1. /\ ran' = [d \in Cmds |-> IF d \in pgot[p] /\ ~gone[p] THEN 1 ELSE ran[d]]
          /\ pgot' = [pgot EXCEPT ![p] = {}]
          /\ UNCHANGED <<status, wcur>>
          /\ ~gone[p]
      BY <2>0, <2>7, PollStarts DEF Reply, Return, subs, DeliveryInv, GoneIsFault
    <3>2. CASE c \in pgot[p]
      BY <3>1, <3>2 DEF TypeOK
    <3>3. CASE c \notin pgot[p]
      <4>1. ran'[c] = ran[c] /\ \A q \in Polls : c \in pgot[q] => c \in pgot'[q]
        BY <3>1, <3>3 DEF TypeOK
      <4> QED BY <1>2, <2>0, <3>1, <4>1 DEF Held
    <3> QED BY <3>2, <3>3
  <2>8. ASSUME NEW p \in Polls, HoldEnds(p) \/ Wake(p)
        PROVE  UNCHANGED <<status, wcur, pgot, ran>>
    <3>1. pgot[p] = {} /\ UNCHANGED <<status, wcur, ran>>
      BY <2>8 DEF HoldEnds, Wake, ClaimInv, KeptInClaim, subs, exec
    <3>2. Return(p) => pgot' = pgot
      BY <3>1 DEF Return, TypeOK
    <3>3. Return(p) \/ pgot' = pgot
      BY <2>8, Zenon DEF HoldEnds, Wake
    <3> QED BY <3>1, <3>2, <3>3
  <2>9. ASSUME NEW p \in Polls,
               \/ slaveGuard(p) \/ QueryPending(p) \/ Hold(p) \/ Notifier(p)
               \/ ClientGone(p)
        PROVE  UNCHANGED <<status, wcur, pgot, ran>>
    BY <2>9 DEF slaveGuard, QueryPending, Hold, Notifier, NotifierSubscribes,
                NotifierFails, Notify, ClientGone, subs, exec
  <2>10. ASSUME NEW w \in Watchers, GoSilent(w) \/ AgentRestarts(w)
         PROVE  FALSE
    BY <1>2, <2>0, <2>10 DEF GoSilent, AgentRestarts, Fails
  <2>11. ASSUME NEW w \in Watchers, Subscribe(w) \/ EndSubscription(w)
         PROVE  UNCHANGED <<status, wcur, pgot, ran>>
    BY <2>11 DEF Subscribe, EndSubscription, poll, exec
  <2>12. ASSUME NEW d \in Cmds, WaitCommand(d) \/ GetCommand(d) \/ Execute(d)
         PROVE  UNCHANGED <<status, wcur, pgot, ran>>
    BY <2>12 DEF WaitCommand, GetCommand, Execute, subs, poll, exec
  <2>13. CASE SetRevoked \/ UNCHANGED vars
    BY <2>1, <2>13 DEF SetRevoked, vars, subs, poll, exec
  <2>14. CASE \E d \in Cmds : Submitter(d) \/ Execute(d) \/ AckCommand(d)
    BY <2>1, <2>2, <2>3, <2>12, <2>14, Zenon DEF Submitter
  <2>15. CASE \E w \in Watchers : Agent(w)
    BY <2>1, <2>4, <2>5, <2>10, <2>11, <2>15, Zenon DEF Agent
  <2>16. CASE \E p \in Polls : slaveGuard(p) \/ Handler(p) \/ Notifier(p) \/ ClientGone(p)
    BY <2>1, <2>6, <2>7, <2>8, <2>9, <2>16, Zenon DEF Handler
  <2> QED BY <2>13, <2>14, <2>15, <2>16, Zenon DEF Next, slaveAckCommand
<1>3. ClaimedNotDropped'
  BY <1>2 DEF ClaimedNotDropped, ClaimMeansDelivery, Held
<1> QED BY <1>1, <1>3 DEF DeliveryInv

\* Short of a fault every claimed command is started or about to be.
THEOREM ClaimedNotDroppedHolds == Spec => []ClaimedNotDropped
<1>1. Spec => []DeliveryInv
  BY ClaimsHold, DeliveryInit, DeliveryStep, PTL DEF Spec
<1>2. DeliveryInv => ClaimedNotDropped
  BY DEF DeliveryInv
<1> QED BY <1>1, <1>2, PTL

\* What Attended says of one poll and one command.
Awake(p, c) ==
  /\ ppc[p] = "claim" => fired[p] \/ c \in pnew[p] \/ c \in psnap[p]
  /\ ppc[p] = "hold" => fired[p] \/ c \in pnew[p]

LEMMA AttendedStep ==
  TypeOK /\ Attended /\ GoneIsFault /\ [Next]_vars => Attended'
<1> SUFFICES ASSUME TypeOK, Attended, GoneIsFault, [Next]_vars, faults' = 0,
                    NEW p \in Polls, NEW c \in Cmds,
                    status'[c] = "pending", psub'[p] = "up"
             PROVE  Awake(p, c)'
  BY DEF Attended, Awake
<1>0. /\ faults = 0
      /\ status[c] = "pending" /\ psub[p] = "up" => Awake(p, c)
      /\ ~gone[p]
  BY FaultsGrow DEF Attended, Awake, GoneIsFault
<1>1. ASSUME UNCHANGED <<status, ppc, psub, pnew, fired, psnap>>
      PROVE  Awake(p, c)'
  BY <1>0, <1>1 DEF Awake
<1>2. ~Fails(FALSE) /\ ~Fails(gone[p])
  BY <1>0 DEF Fails
<1>3. ASSUME NEW d \in Cmds, PushCommandArgs(d)
      PROVE  Awake(p, c)'
  <2>1. Publish(d) /\ UNCHANGED <<ppc, psub, fired, psnap>>
    BY <1>2, <1>3, Zenon DEF PushCommandArgs
  <2>2. CASE d = c
    BY <2>1, <2>2 DEF Publish, Awake, TypeOK
  <2>3. CASE d # c
    <3>1. status[c] = "pending" /\ pnew[p] \subseteq pnew'[p]
      BY <2>1, <2>3 DEF Publish, TypeOK
    <3> QED BY <1>0, <2>1, <3>1 DEF Awake
  <2> QED BY <2>2, <2>3
<1>4. ASSUME NEW d \in Cmds, AckCommand(d)
      PROVE  Awake(p, c)'
  <2>1. status[c] = "pending" /\ UNCHANGED poll
    BY <1>4 DEF AckCommand, TypeOK
  <2> QED BY <1>0, <2>1 DEF Awake, poll
<1>5. ASSUME NEW w \in Watchers, NEW d \in Cmds, ClaimChange(w, d)
      PROVE  Awake(p, c)'
  <2>1. status[c] = "pending" /\ UNCHANGED poll
    BY <1>5 DEF ClaimChange, claimCommand, TypeOK
  <2> QED BY <1>0, <2>1 DEF Awake, poll
<1>6. ASSUME NEW q \in Polls, q # p,
             slaveGuard(q) \/ Handler(q) \/ Notifier(q) \/ ClientGone(q)
      PROVE  Awake(p, c)'
  <2>1. /\ ppc'[p] = ppc[p] /\ psub'[p] = psub[p] /\ pnew'[p] = pnew[p]
        /\ fired'[p] = fired[p] /\ psnap'[p] = psnap[p]
    <3>1. CASE slaveGuard(q) \/ ClientGone(q)
      BY <1>6, <3>1 DEF slaveGuard, ClientGone, TypeOK
    <3>4. CASE NotifierSubscribes(q) \/ Notify(q)
      BY <1>6, <3>4 DEF NotifierSubscribes, Notify, TypeOK
    <3>5. CASE NotifierFails(q)
      <4>1. /\ UNCHANGED <<ppc, fired, psnap>>
            /\ \E s \in {"down", "silent"} : psub' = [psub EXCEPT ![q] = s]
            /\ pnew' = [pnew EXCEPT ![q] = {}]
        BY <3>5 DEF NotifierFails
      <4> QED
        BY <1>6, <4>1 DEF TypeOK
    <3>2. CASE Reply(q) \/ HoldEnds(q) \/ Wake(q)
      BY <1>6, <3>2 DEF Reply, HoldEnds, Wake, Return, TypeOK
    <3>3. CASE QueryPending(q) \/ Hold(q) \/ \E d \in Cmds : ClaimNext(q, d)
      BY <1>6, <3>3 DEF QueryPending, Hold, ClaimNext, TypeOK
    <3> QED BY <1>6, <3>1, <3>2, <3>3, <3>4, <3>5 DEF Handler, Notifier
  <2>2. status[c] = "pending"
    <3>1. CASE \E d \in Cmds : ClaimNext(q, d)
      BY <3>1 DEF ClaimNext, claimCommandFor, TypeOK
    <3>2. CASE ~\E d \in Cmds : ClaimNext(q, d)
      BY <1>6, <3>2 DEF slaveGuard, Handler, Notifier, NotifierSubscribes,
           NotifierFails, Notify, ClientGone, QueryPending, Reply, Hold, Wake, HoldEnds
    <3> QED BY <3>1, <3>2
  <2> QED BY <1>0, <2>1, <2>2 DEF Awake
<1>7. CASE slaveGuard(p) \/ Reply(p) \/ HoldEnds(p)
  BY <1>7 DEF slaveGuard, Reply, HoldEnds, Return, Awake, TypeOK
<1>8. CASE Wake(p)
  BY <1>8 DEF Wake, Return, Awake, TypeOK
<1>9. CASE QueryPending(p)
  <2>1. psnap' = [psnap EXCEPT ![p] = Pending] /\ ppc' = [ppc EXCEPT ![p] = "claim"]
        /\ status' = status
    BY <1>2, <1>9, Zenon DEF QueryPending
  <2> QED BY <2>1 DEF Pending, Awake, TypeOK
<1>10. ASSUME NEW d \in Cmds, ClaimNext(p, d)
       PROVE  Awake(p, c)'
  <2>1. status'[d] # "pending" /\ status[c] = "pending"
    <3>1. PICK ok \in BOOLEAN : claimCommandFor(p, d, ok)
      BY <1>10 DEF ClaimNext
    <3>2. \/ status' = [status EXCEPT ![d] = "running"]
          \/ status' = status /\ status[d] # "pending"
      BY <1>2, <3>1, Zenon DEF claimCommandFor
    <3> QED BY <3>2 DEF TypeOK
  <2>2. c # d
    BY <2>1
  <2> QED BY <1>0, <1>10, <2>1, <2>2 DEF ClaimNext, Awake, TypeOK
<1>11. CASE Hold(p)
  <2>1. /\ psub'[p] = IF psub[p] = "none" THEN "down" ELSE psub[p]
        /\ ppc[p] = "claim" /\ psnap[p] = {} /\ ppc'[p] = "hold"
        /\ UNCHANGED <<status, pnew, fired>>
    BY <1>11 DEF Hold, TypeOK
  <2> QED BY <1>0, <2>1 DEF Awake
<1>12. CASE Notifier(p)
  <2>1. CASE NotifierSubscribes(p)
    BY <2>1 DEF NotifierSubscribes, Pending, Awake, TypeOK
  <2>2. CASE NotifierFails(p)
    BY <1>2, <2>2 DEF NotifierFails
  <2>3. CASE Notify(p)
    BY <1>0, <2>3 DEF Notify, Awake, TypeOK
  <2> QED BY <1>12, <2>1, <2>2, <2>3 DEF Notifier
<1>13. ASSUME \/ \E d \in Cmds : WaitCommand(d) \/ GetCommand(d) \/ Execute(d)
              \/ \E w \in Watchers : \/ Subscribe(w) \/ Handle(w) \/ GoSilent(w)
                                     \/ EndSubscription(w) \/ AgentRestarts(w)
              \/ \E q \in Polls : ClientGone(q)
              \/ SetRevoked
              \/ UNCHANGED vars
       PROVE  UNCHANGED <<status, ppc, psub, pnew, fired, psnap>>
  BY <1>13 DEF WaitCommand, GetCommand, Execute, Subscribe, Handle, GoSilent,
       EndSubscription, AgentRestarts, ClientGone, SetRevoked, vars, poll
<1>14. CASE \E d \in Cmds : Submitter(d) \/ Execute(d) \/ AckCommand(d)
  BY <1>1, <1>3, <1>4, <1>13, <1>14, Zenon DEF Submitter
<1>15. CASE \E w \in Watchers : Agent(w)
  BY <1>1, <1>5, <1>13, <1>15, Zenon DEF Agent
<1>16. CASE \E q \in Polls : slaveGuard(q) \/ Handler(q) \/ Notifier(q) \/ ClientGone(q)
  <2>1. PICK q \in Polls : slaveGuard(q) \/ Handler(q) \/ Notifier(q) \/ ClientGone(q)
    BY <1>16
  <2>2. CASE q # p
    BY <1>6, <2>1, <2>2
  <2>3. CASE q = p
    BY <1>1, <1>7, <1>8, <1>9, <1>10, <1>11, <1>12, <1>13, <2>1, <2>3, Zenon DEF Handler
  <2> QED BY <2>2, <2>3
<1> QED BY <1>1, <1>13, <1>14, <1>15, <1>16, Zenon DEF Next, slaveAckCommand

\* Short of a fault no hold sleeps on a pending command.
THEOREM NoLostWakeupHolds == Spec => []NoLostWakeup
<1>1. Init => Attended
  BY DEF Init, Attended
<1>2. Init => GoneIsFault
  BY DEF Init, GoneIsFault
<1>3. Attended => NoLostWakeup
  BY DEF Attended, NoLostWakeup, Pending
<1> QED BY <1>1, <1>2, <1>3, TypeCorrect, GoneStep, AttendedStep, PTL DEF Spec
=============================================================================
