----------------------------- MODULE MCShipping -----------------------------
(* Model checking of Shipping by itself. *)
EXTENDS Shipping, TLC

ConsumerSymmetry == Permutations(Consumers)
=============================================================================
