----------------------------- MODULE MCGlasses ------------------------------
(* Finite instances of Glasses for TLC. *)
EXTENDS Glasses, TLC

CONSTANTS h1, h2, t1, t2   \* model values

TakeSymmetry == Permutations(Takes)
=============================================================================
