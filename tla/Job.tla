-------------------------------- MODULE Job --------------------------------
(***************************************************************************)
(* What the remote-command channel of src/state/commands.go promises to    *)
(* whoever submits a command and to the PC that runs it: a command is      *)
(* claimed once, started at most once and only after the claim, reported   *)
(* only after it ran, and answered only with what was reported.  A command *)
(* may get stuck at any stage; it never goes back.                         *)
(***************************************************************************)
EXTENDS Naturals

CONSTANT Cmds        \* the commands submitted to one PC

VARIABLES status,    \* the stored status
          ran,       \* how often the PC started the command
          result,    \* how it ended there
          call       \* what the submitter has been told

jobVars == <<status, ran, result, call>>

Outcomes == {"done", "error"}

JobInit ==
  /\ status = [c \in Cmds |-> "absent"]
  /\ ran = [c \in Cmds |-> 0]
  /\ result = [c \in Cmds |-> "none"]
  /\ call = [c \in Cmds |-> "idle"]

\* Stored or not, the submitter may be told of a failure.
Submit(c) ==
  /\ call[c] = "idle"
  /\ \/ /\ status' = [status EXCEPT ![c] = "pending"]
        /\ call' = [call EXCEPT ![c] = "waiting"]
     \/ /\ status' = [status EXCEPT ![c] = "pending"]
        /\ call' = [call EXCEPT ![c] = "failed"]
     \/ /\ status' = status
        /\ call' = [call EXCEPT ![c] = "failed"]
  /\ UNCHANGED <<ran, result>>

Claim(c) ==
  /\ status[c] = "pending"
  /\ status' = [status EXCEPT ![c] = "running"]
  /\ UNCHANGED <<ran, result, call>>

\* A batch of claimed commands reaches the PC.
Start(S) ==
  /\ \A c \in S : status[c] = "running" /\ ran[c] = 0
  /\ ran' = [c \in Cmds |-> IF c \in S THEN 1 ELSE ran[c]]
  /\ UNCHANGED <<status, result, call>>

Finish(c) ==
  /\ ran[c] = 1
  /\ result[c] = "none"
  /\ \E o \in Outcomes : result' = [result EXCEPT ![c] = o]
  /\ UNCHANGED <<status, ran, call>>

Report(c) ==
  /\ status[c] = "running"
  /\ result[c] # "none"
  /\ status' = [status EXCEPT ![c] = result[c]]
  /\ UNCHANGED <<ran, result, call>>

Answer(c) ==
  /\ call[c] \in {"waiting", "timedOut"}
  /\ status[c] \in Outcomes
  /\ call' = [call EXCEPT ![c] = result[c]]
  /\ UNCHANGED <<status, ran, result>>

GiveUp(c) ==
  /\ call[c] = "waiting"
  /\ \E o \in {"timedOut", "failed"} : call' = [call EXCEPT ![c] = o]
  /\ UNCHANGED <<status, ran, result>>

JobNext ==
  \/ \E c \in Cmds : \/ Submit(c) \/ Claim(c) \/ Finish(c) \/ Report(c)
                     \/ Answer(c) \/ GiveUp(c)
  \/ \E S \in SUBSET Cmds : Start(S)

JobSpec == JobInit /\ [][JobNext]_jobVars
=============================================================================
