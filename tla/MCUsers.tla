------------------------------ MODULE MCUsers ------------------------------
(* Model checking of Users: a database with one customer. *)
EXTENDS Users, TLC

CONSTANTS user, n

MCSeeded == <<user>>
HandlerSymmetry == Permutations(Handlers)
=============================================================================
