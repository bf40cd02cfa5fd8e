----------------------------- MODULE Commands ------------------------------
(***************************************************************************)
(* The remote-command queue of one PC: documents commands/{pc}/q/{id} of   *)
(* src/state/commands.go, the MCP handlers that submit a command and wait  *)
(* for it (src/mcp/tools_input.go), the resident WatchCommands loops of    *)
(* the PC's agents, and the long-polls a PC without database credentials   *)
(* makes instead (slaveCommands of src/web/slave.go).                      *)
(*                                                                         *)
(* A database call is one step.  A snapshot listener is the set of pending *)
(* documents it has yet to report: all of them when it subscribes, later   *)
(* each new one; a document it reports may have changed since.  A listener *)
(* may fail, or go silent without failing.  A transaction may fail, before *)
(* or after its commit took effect.  The program on the PC that runs the   *)
(* commands is not part of the repository: it runs what it is handed and   *)
(* acknowledges only that.                                                 *)
(***************************************************************************)
EXTENDS Naturals

CONSTANTS Cmds,       \* commands, each submitted by a handler of its own
          Watchers,   \* agents of the PC that run WatchCommands
          Polls,      \* clients of the PC that long-poll /slave/commands
          Nil,
          MaxFaults   \* bound: failed calls, lost clients, silent listeners

ASSUME CommandsAssumption ==
  /\ Nil \notin Cmds
  /\ MaxFaults \in Nat

VARIABLES
  status,   \* the status field of each document
  call,     \* what the submitting handler has answered
  wsub,     \* each agent's subscription
  wnew,     \* pending documents it has yet to report
  wcur,     \* the command claimed and about to be passed to fn
  ppc,      \* where each poll's handler stands
  psub,     \* subscription of the poll's notifier; "none" before the hold
  pnew,     \* pending documents that subscription has yet to report
  fired,    \* the one-place channel between notifier and handler
  psnap,    \* documents of the query that are still to be claimed
  pgot,     \* commands claimed for the response
  gone,     \* the client of the poll has gone away
  revoked,  \* the PC is revoked
  ran,      \* how often each command was started on the PC
  result,   \* how it ended there
  faults

subs == <<wsub, wnew, wcur>>
poll == <<ppc, psub, pnew, fired, psnap, pgot, gone>>
exec == <<ran, result>>
vars == <<status, call, subs, poll, revoked, exec, faults>>

\* The promise this component implements, over its stored and executed state.
J == INSTANCE Job WITH status <- status, ran <- ran, result <- result, call <- call

Outcomes == {"done", "error"}
Pending == {c \in Cmds : status[c] = "pending"}

\* A call fails: for nothing if its context is cancelled, else as a fault.
Fails(cancelled) ==
  IF cancelled THEN faults' = faults
               ELSE faults < MaxFaults /\ faults' = faults + 1

----------------------------------------------------------------------------

Init ==
  /\ status = [c \in Cmds |-> "absent"]
  /\ call = [c \in Cmds |-> "idle"]
  /\ wsub = [w \in Watchers |-> "down"]
  /\ wnew = [w \in Watchers |-> {}]
  /\ wcur = [w \in Watchers |-> Nil]
  /\ ppc = [p \in Polls |-> "idle"]
  /\ psub = [p \in Polls |-> "none"]
  /\ pnew = [p \in Polls |-> {}]
  /\ fired = [p \in Polls |-> FALSE]
  /\ psnap = [p \in Polls |-> {}]
  /\ pgot = [p \in Polls |-> {}]
  /\ gone = [p \in Polls |-> FALSE]
  /\ revoked = FALSE
  /\ ran = [c \in Cmds |-> 0]
  /\ result = [c \in Cmds |-> "none"]
  /\ faults = 0

----------------------------------------------------------------------------
(* Submitting and waiting.                                                 *)

\* The document of c becomes pending and every live listener will report it.
Publish(c) ==
  /\ status' = [status EXCEPT ![c] = "pending"]
  /\ wnew' = [w \in Watchers |->
                IF wsub[w] = "up" THEN wnew[w] \cup {c} ELSE wnew[w]]
  /\ pnew' = [p \in Polls |->
                IF psub[p] = "up" THEN pnew[p] \cup {c} ELSE pnew[p]]

\* A validated command gets a fresh id and is stored with status=pending.
PushCommandArgs(c) ==
  /\ call[c] = "idle"
  /\ \/ /\ Publish(c)
        /\ call' = [call EXCEPT ![c] = "waiting"]
        /\ faults' = faults
     \/ /\ Publish(c)
        /\ Fails(FALSE)
        /\ call' = [call EXCEPT ![c] = "failed"]
     \/ /\ Fails(FALSE)
        /\ call' = [call EXCEPT ![c] = "failed"]
        /\ UNCHANGED <<status, wnew, pnew>>
  /\ UNCHANGED <<wsub, wcur, ppc, psub, fired, psnap, pgot, gone, revoked, exec>>

\* Mutant of WaitCommand: any status but pending ends the wait.
WaitCommandAnyStatus(c) ==
  /\ call[c] = "waiting"
  /\ status[c] # "pending"
  /\ call' = [call EXCEPT ![c] = status[c]]
  /\ UNCHANGED <<status, subs, poll, revoked, exec, faults>>

\* WaitCommand: a terminal status, the 20 s limit, or a failed listener
WaitCommand(c) ==
  /\ call[c] = "waiting"
  /\ \/ /\ status[c] \in Outcomes
        /\ call' = [call EXCEPT ![c] = status[c]]
        /\ faults' = faults
     \/ /\ call' = [call EXCEPT ![c] = "timedOut"]
        /\ faults' = faults
     \/ /\ Fails(FALSE)
        /\ call' = [call EXCEPT ![c] = "failed"]
  /\ UNCHANGED <<status, subs, poll, revoked, exec>>

\* get_command_result after a timeout; any other status changes nothing
GetCommand(c) ==
  /\ call[c] = "timedOut"
  /\ status[c] \in Outcomes
  /\ call' = [call EXCEPT ![c] = status[c]]
  /\ UNCHANGED <<status, subs, poll, revoked, exec, faults>>

----------------------------------------------------------------------------
(* The claim transactions.                                                 *)

\* pending -> running; ok is the result the caller sees
claimCommand(c, ok) ==
  \/ /\ status[c] = "pending"
     /\ ok
     /\ status' = [status EXCEPT ![c] = "running"]
     /\ faults' = faults
  \/ /\ status[c] # "pending"
     /\ ~ok
     /\ UNCHANGED <<status, faults>>
  \/ /\ status[c] = "pending"
     /\ ~ok
     /\ Fails(FALSE)
     /\ \/ status' = status
        \/ status' = [status EXCEPT ![c] = "running"]

\* Mutant of claimCommandFor: the status is not read again.
claimCommandForBlind(p, c, ok) ==
  /\ ok
  /\ status' = [status EXCEPT ![c] = "running"]
  /\ faults' = faults

\* The same on behalf of poll p, whose request context ends with its client.
claimCommandFor(p, c, ok) ==
  \/ /\ status[c] = "pending"
     /\ ok
     /\ status' = [status EXCEPT ![c] = "running"]
     /\ faults' = faults
  \/ /\ status[c] # "pending"
     /\ ~ok
     /\ UNCHANGED <<status, faults>>
  \/ /\ status[c] = "pending"
     /\ ~ok
     /\ Fails(gone[p])
     /\ \/ status' = status
        \/ status' = [status EXCEPT ![c] = "running"]

----------------------------------------------------------------------------
(* WatchCommands under keepSubscribed.                                     *)

Subscribe(w) ==
  /\ wsub[w] = "down"
  /\ wsub' = [wsub EXCEPT ![w] = "up"]
  /\ wnew' = [wnew EXCEPT ![w] = Pending]
  /\ UNCHANGED <<status, call, wcur, poll, revoked, exec, faults>>

\* One reported change: claim it, and remember it for fn if that succeeded.
ClaimChange(w, c) ==
  /\ wsub[w] = "up"
  /\ wcur[w] = Nil
  /\ c \in wnew[w]
  /\ \E ok \in BOOLEAN :
       /\ claimCommand(c, ok)
       /\ wcur' = [wcur EXCEPT ![w] = IF ok THEN c ELSE Nil]
  /\ wnew' = [wnew EXCEPT ![w] = @ \ {c}]
  /\ UNCHANGED <<call, wsub, poll, revoked, exec>>

\* fn(cm)
Handle(w) ==
  /\ wcur[w] # Nil
  /\ ran' = [ran EXCEPT ![wcur[w]] = @ + 1]
  /\ wcur' = [wcur EXCEPT ![w] = Nil]
  /\ UNCHANGED <<status, call, wsub, wnew, poll, revoked, result, faults>>

\* Mutant of EndSubscription: only a stream that ends by itself is renewed.
EndSubscriptionOnErrorOnly(w) ==
  /\ wsub[w] = "up"
  /\ wcur[w] = Nil
  /\ wsub' = [wsub EXCEPT ![w] = "down"]
  /\ wnew' = [wnew EXCEPT ![w] = {}]
  /\ UNCHANGED <<status, call, wcur, poll, revoked, exec, faults>>

\* pump returns, on an error or when watchMaxLifetime expires: stop, back off
EndSubscription(w) ==
  /\ wsub[w] # "down"
  /\ wcur[w] = Nil
  /\ wsub' = [wsub EXCEPT ![w] = "down"]
  /\ wnew' = [wnew EXCEPT ![w] = {}]
  /\ UNCHANGED <<status, call, wcur, poll, revoked, exec, faults>>

\* The stream dies without an error: Next blocks and reports nothing more.
GoSilent(w) ==
  /\ wsub[w] = "up"
  /\ Fails(FALSE)
  /\ wsub' = [wsub EXCEPT ![w] = "silent"]
  /\ wnew' = [wnew EXCEPT ![w] = {}]
  /\ UNCHANGED <<status, call, wcur, poll, revoked, exec>>

\* The agent process dies and is started again (restart-agent does just that).
AgentRestarts(w) ==
  /\ Fails(FALSE)
  /\ wsub' = [wsub EXCEPT ![w] = "down"]
  /\ wnew' = [wnew EXCEPT ![w] = {}]
  /\ wcur' = [wcur EXCEPT ![w] = Nil]
  /\ UNCHANGED <<status, call, poll, revoked, exec>>

----------------------------------------------------------------------------
(* The long-poll handler slaveCommands and its notifier.                   *)

\* The handler returns: its context is cancelled and the notifier with it.
Return(p) ==
  /\ ppc' = [ppc EXCEPT ![p] = "idle"]
  /\ psub' = [psub EXCEPT ![p] = "none"]
  /\ pnew' = [pnew EXCEPT ![p] = {}]
  /\ fired' = [fired EXCEPT ![p] = FALSE]
  /\ psnap' = [psnap EXCEPT ![p] = {}]
  /\ pgot' = [pgot EXCEPT ![p] = {}]
  /\ gone' = [gone EXCEPT ![p] = FALSE]

\* IsRevoked || SlaveRevoked is false; a failed read counts as not revoked
NotRevoked(p) ==
  \/ ~revoked /\ faults' = faults
  \/ revoked /\ Fails(gone[p])

\* Mutant of slaveGuard: revocation is not looked up.
slaveGuardOpen(p) ==
  /\ ppc[p] = "idle"
  /\ faults' = faults
  /\ ppc' = [ppc EXCEPT ![p] = "query"]
  /\ UNCHANGED <<status, call, subs, psub, pnew, fired, psnap, pgot, gone,
                 revoked, exec>>

\* A request passes slaveGuard; a refused one changes nothing.
slaveGuard(p) ==
  /\ ppc[p] = "idle"
  /\ NotRevoked(p)
  /\ ppc' = [ppc EXCEPT ![p] = "query"]
  /\ UNCHANGED <<status, call, subs, psub, pnew, fired, psnap, pgot, gone,
                 revoked, exec>>

\* ClaimPendingCommands: the query; an error counts as no commands
QueryPending(p) ==
  /\ ppc[p] = "query"
  /\ \/ psnap' = [psnap EXCEPT ![p] = Pending] /\ faults' = faults
     \/ psnap' = psnap /\ Fails(gone[p])
  /\ ppc' = [ppc EXCEPT ![p] = "claim"]
  /\ UNCHANGED <<status, call, subs, psub, pnew, fired, pgot, gone, revoked, exec>>

\* ClaimPendingCommands: one document of its loop
ClaimNext(p, c) ==
  /\ ppc[p] = "claim"
  /\ c \in psnap[p]
  /\ \E ok \in BOOLEAN :
       /\ claimCommandFor(p, c, ok)
       /\ pgot' = [pgot EXCEPT ![p] = IF ok THEN @ \cup {c} ELSE @]
  /\ psnap' = [psnap EXCEPT ![p] = @ \ {c}]
  /\ UNCHANGED <<call, subs, ppc, psub, pnew, fired, gone, revoked, exec>>

\* Something was claimed: the response is written, to nobody if gone.
Reply(p) ==
  /\ ppc[p] = "claim"
  /\ psnap[p] = {}
  /\ pgot[p] # {}
  /\ ran' = [c \in Cmds |-> IF c \in pgot[p] /\ ~gone[p] THEN ran[c] + 1 ELSE ran[c]]
  /\ Return(p)
  /\ UNCHANGED <<status, call, subs, revoked, result, faults>>

\* Mutant of Hold: whatever was notified during the claim is drained.
HoldDrains(p) ==
  /\ ppc[p] = "claim"
  /\ psnap[p] = {}
  /\ pgot[p] = {}
  /\ ppc' = [ppc EXCEPT ![p] = "hold"]
  /\ psub' = [psub EXCEPT ![p] = IF @ = "none" THEN "down" ELSE @]
  /\ fired' = [fired EXCEPT ![p] = FALSE]
  /\ UNCHANGED <<status, call, subs, pnew, psnap, pgot, gone, revoked, exec, faults>>

\* Nothing was claimed: (start the notifier and) wait in the select.
Hold(p) ==
  /\ ppc[p] = "claim"
  /\ psnap[p] = {}
  /\ pgot[p] = {}
  /\ ppc' = [ppc EXCEPT ![p] = "hold"]
  /\ psub' = [psub EXCEPT ![p] = IF @ = "none" THEN "down" ELSE @]
  /\ UNCHANGED <<status, call, subs, pnew, fired, psnap, pgot, gone, revoked,
                 exec, faults>>

\* WatchPendingCommands subscribes, again if its stream ended with an error.
NotifierSubscribes(p) ==
  /\ psub[p] = "down"
  /\ psub' = [psub EXCEPT ![p] = "up"]
  /\ pnew' = [pnew EXCEPT ![p] = Pending]
  /\ UNCHANGED <<status, call, subs, ppc, fired, psnap, pgot, gone, revoked,
                 exec, faults>>

\* ... fails, or goes silent (a hold ends before watchMaxLifetime does) ...
NotifierFails(p) ==
  /\ psub[p] = "up"
  /\ Fails(FALSE)
  /\ \E s \in {"down", "silent"} : psub' = [psub EXCEPT ![p] = s]
  /\ pnew' = [pnew EXCEPT ![p] = {}]
  /\ UNCHANGED <<status, call, subs, ppc, fired, psnap, pgot, gone, revoked, exec>>

\* ... and puts a token in the channel unless there is one.
Notify(p) ==
  /\ pnew[p] # {}
  /\ fired' = [fired EXCEPT ![p] = TRUE]
  /\ pnew' = [pnew EXCEPT ![p] = {}]
  /\ UNCHANGED <<status, call, subs, ppc, psub, psnap, pgot, gone, revoked,
                 exec, faults>>

\* case <-fired: revoked in the meantime, or query again
Wake(p) ==
  /\ ppc[p] = "hold"
  /\ fired[p]
  /\ \/ /\ NotRevoked(p)
        /\ fired' = [fired EXCEPT ![p] = FALSE]
        /\ ppc' = [ppc EXCEPT ![p] = "query"]
        /\ UNCHANGED <<psub, pnew, psnap, pgot, gone>>
     \/ /\ revoked
        /\ Return(p)
        /\ faults' = faults
  /\ UNCHANGED <<status, call, subs, revoked, exec>>

\* Mutant of HoldEnds: the time limit also cuts a claim short.
HoldEndsAnywhere(p) ==
  /\ psub[p] # "none"
  /\ Return(p)
  /\ UNCHANGED <<status, call, subs, revoked, exec, faults>>

\* case <-ctx.Done(): the 25 s are over or the client has gone
HoldEnds(p) ==
  /\ ppc[p] = "hold"
  /\ Return(p)
  /\ UNCHANGED <<status, call, subs, revoked, exec, faults>>

\* The client goes away before it has the response; the server may not notice.
ClientGone(p) ==
  /\ ppc[p] # "idle"
  /\ ~gone[p]
  /\ Fails(FALSE)
  /\ gone' = [gone EXCEPT ![p] = TRUE]
  /\ UNCHANGED <<status, call, subs, ppc, psub, pnew, fired, psnap, pgot,
                 revoked, exec>>

----------------------------------------------------------------------------
(* The program on the PC, and the owner.                                   *)

Execute(c) ==
  /\ ran[c] > 0
  /\ result[c] = "none"
  /\ \E o \in Outcomes : result' = [result EXCEPT ![c] = o]
  /\ UNCHANGED <<status, call, subs, poll, revoked, ran, faults>>

\* An unconditional merge, repeated if the answer to the first one was lost.
AckCommand(c) ==
  /\ result[c] # "none"
  /\ status' = [status EXCEPT ![c] = result[c]]
  /\ UNCHANGED <<call, subs, poll, revoked, exec, faults>>

\* The same for a PC that polls, through AckCommandFor.
slaveAckCommand(c) == AckCommand(c)

\* apiDeletePC
SetRevoked ==
  /\ ~revoked
  /\ revoked' = TRUE
  /\ UNCHANGED <<status, call, subs, poll, exec, faults>>

----------------------------------------------------------------------------

Submitter(c) == PushCommandArgs(c) \/ WaitCommand(c) \/ GetCommand(c)

Agent(w) ==
  \/ Subscribe(w) \/ Handle(w) \/ EndSubscription(w) \/ GoSilent(w)
  \/ AgentRestarts(w) \/ \E c \in Cmds : ClaimChange(w, c)

\* What the handler does once the request is in.
Handler(p) ==
  \/ QueryPending(p) \/ Reply(p) \/ Hold(p) \/ Wake(p) \/ HoldEnds(p)
  \/ \E c \in Cmds : ClaimNext(p, c)

Notifier(p) == NotifierSubscribes(p) \/ NotifierFails(p) \/ Notify(p)

Next ==
  \/ \E c \in Cmds : \/ Submitter(c) \/ Execute(c)
                     \/ AckCommand(c) \/ slaveAckCommand(c)
  \/ \E w \in Watchers : Agent(w)
  \/ \E p \in Polls : slaveGuard(p) \/ Handler(p) \/ Notifier(p) \/ ClientGone(p)
  \/ SetRevoked

Spec == Init /\ [][Next]_vars

\* Loops and handlers keep running, and the 5-minute lifetime of a
\* subscription leaves an agent time to try what the subscription reported.
\* Clients need not poll and the PC need not acknowledge.
Fairness ==
  /\ \A w \in Watchers :
       /\ WF_vars(Subscribe(w)) /\ WF_vars(Handle(w)) /\ WF_vars(EndSubscription(w))
       /\ \A c \in Cmds : SF_vars(ClaimChange(w, c))
  /\ \A p \in Polls : WF_vars(Handler(p))

FairSpec == Spec /\ Fairness

----------------------------------------------------------------------------

\* Types of the variables: in particular a handler never answers with a status
\* that is not terminal (WaitCommand's switch on done and error).
TypeOK ==
  /\ status \in [Cmds -> {"absent", "pending", "running"} \cup Outcomes]
  /\ call \in [Cmds -> {"idle", "waiting", "failed", "timedOut"} \cup Outcomes]
  /\ wsub \in [Watchers -> {"down", "up", "silent"}]
  /\ wnew \in [Watchers -> SUBSET Cmds]
  /\ wcur \in [Watchers -> Cmds \cup {Nil}]
  /\ ppc \in [Polls -> {"idle", "query", "claim", "hold"}]
  /\ psub \in [Polls -> {"none", "down", "up", "silent"}]
  /\ pnew \in [Polls -> SUBSET Cmds]
  /\ fired \in [Polls -> BOOLEAN]
  /\ psnap \in [Polls -> SUBSET Cmds]
  /\ pgot \in [Polls -> SUBSET Cmds]
  /\ gone \in [Polls -> BOOLEAN]
  /\ revoked \in BOOLEAN
  /\ ran \in [Cmds -> Nat]
  /\ result \in [Cmds -> {"none"} \cup Outcomes]
  /\ faults \in 0..MaxFaults

\* A command reaches the PC at most once, whatever the listeners report again
\* and however many agents and polls compete for it ("二重実行しない",
\* WatchCommands and ClaimPendingCommands).
AtMostOnce == \A c \in Cmds : ran[c] <= 1

\* Somebody has claimed c and will still pass it on.
Held(c) == \/ \E w \in Watchers : wcur[w] = c
           \/ \E p \in Polls : c \in pgot[p]

\* The comment on WatchPendingCommands: claim and delivery go together, so a
\* running command is on the PC or about to be handed to it.
ClaimMeansDelivery ==
  \A c \in Cmds : status[c] = "running" => ran[c] > 0 \/ Held(c)

\* Short of a fault that is so: neither the 25 s limit, nor a revocation, nor
\* the renewal of a subscription drops a command that was claimed.
ClaimedNotDropped == faults = 0 => ClaimMeansDelivery

\* Short of a fault a hold never sleeps on a pending command: the one-place
\* channel holds a token, or the notifier has still to report the command.
NoLostWakeup ==
  \A p \in Polls, c \in Pending :
    faults = 0 /\ ppc[p] = "hold" /\ psub[p] = "up" => fired[p] \/ c \in pnew[p]

\* The promise of module Job: claim once, start at most once and only after
\* the claim, report after the run, answer what was reported.
JobSpec == J!JobSpec

\* A pending command is claimed even if a listener goes silent, a transaction
\* fails or the agent restarts (watchMaxLifetime, the incident of watch.go).
PendingIsClaimed ==
  \A c \in Cmds : status[c] = "pending" ~> status[c] # "pending"

\* After a revocation the polls of the PC come to an end and none gets in.
RevocationDrains == revoked ~> [](\A p \in Polls : ppc[p] = "idle")
=============================================================================
