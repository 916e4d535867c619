----------------------------- MODULE MCTrigger -----------------------------
(* A small instance of Trigger: two callbacks of any kind.                 *)
EXTENDS Trigger, TLC

Symmetry == Permutations(Callbacks)
=============================================================================
