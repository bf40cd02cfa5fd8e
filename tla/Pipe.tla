-------------------------------- MODULE Pipe --------------------------------
(***************************************************************************)
(* What the filters between a browser's data line and its terminal owe to  *)
(* the byte stream: the terminal receives a prefix of what was handed in,  *)
(* in order, without loss, repetition or invention; a new connection       *)
(* starts an empty stream.  The promise is the comment of makeSyncFilter   *)
(* in src/web/static/sync.js.                                              *)
(***************************************************************************)
EXTENDS Naturals, Sequences

VARIABLES sent,   \* the bytes handed in on this connection
          got     \* the bytes the terminal was given of them

pipeVars == <<sent, got>>

Extends(s, t) == Len(s) <= Len(t) /\ SubSeq(t, 1, Len(s)) = s

PipeInit == sent = <<>> /\ got = <<>>

Send == Extends(sent, sent') /\ UNCHANGED got

Deliver == Extends(got, got') /\ Extends(got', sent) /\ UNCHANGED sent

Reopen == sent' = <<>> /\ got' = <<>>

PipeNext == Send \/ Deliver \/ Reopen

PipeSpec == PipeInit /\ [][PipeNext]_pipeVars
=============================================================================
