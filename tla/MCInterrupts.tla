----------------------------- MODULE MCInterrupts -----------------------------
(* Interrupts on small instances. *)
EXTENDS Interrupts, TLC

Symmetry == Permutations(Fds)
================================================================================
