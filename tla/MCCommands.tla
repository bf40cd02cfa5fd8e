---------------------------- MODULE MCCommands -----------------------------
(* Finite instances of Commands for TLC. *)
EXTENDS Commands

CONSTANTS c1, c2, w1, p1, p2   \* model values
=============================================================================
