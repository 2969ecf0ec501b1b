------------------------------- MODULE MCCarts -------------------------------
(* Model checking of Carts: the workers are interchangeable. *)
EXTENDS Carts, TLC

WorkerSymmetry == Permutations(Workers)
=============================================================================
