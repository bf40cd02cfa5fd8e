------------------------------ MODULE MCMirror ------------------------------
(* Finite instances of Mirror for TLC. *)
EXTENDS Mirror, TLC

CONSTANTS k1, k2, p1, p2, r1, r2   \* model values
=============================================================================
