------------------------------ MODULE MCOrders ------------------------------
(* Model checking of Orders.  With the fee of 4.99 the totals lead to the  *)
(* amounts 0, 105.00 (the limit) and 105.01.                               *)
EXTENDS Orders, TLC

MCTotals == {-499, 10001, 10002}
OrderSymmetry == Permutations(Orders)
=============================================================================
