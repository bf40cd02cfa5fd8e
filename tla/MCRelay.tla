------------------------------ MODULE MCRelay ------------------------------
(* Finite instances of Relay for TLC. *)
EXTENDS Relay, TLC

CONSTANTS s1, v1, v2, k1,         \* model values
          FromSource, FromViewer  \* chunks a source / a viewer sends

OneSid == [c \in Conns |-> k1]

Chunks == [c \in Conns |-> IF c \in Sources THEN FromSource ELSE FromViewer]

\* Connections of one role are interchangeable.
Interchangeable == Permutations(Sources) \cup Permutations(Viewers)
=============================================================================
