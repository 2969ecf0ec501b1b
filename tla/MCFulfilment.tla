---------------------------- MODULE MCFulfilment ----------------------------
(* Model checking of Fulfilment. *)
EXTENDS Fulfilment

MCTotals == {10001}
=============================================================================
