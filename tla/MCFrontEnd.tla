----------------------------- MODULE MCFrontEnd -----------------------------
(* Model checking of FrontEnd: each browser wants an item of its own. *)
EXTENDS FrontEnd, TLC

CONSTANTS b1, b2, i1, i2

MCWants == (b1 :> {i1}) @@ (b2 :> {i2})

\* The browsers trade places, each with its item; so do the handlers, and the sessions.
Swap == (b1 :> b2) @@ (b2 :> b1) @@ (i1 :> i2) @@ (i2 :> i1)
Stay == [x \in {b1, b2, i1, i2} |-> x]
FrontEndSymmetry ==
    {p @@ q @@ r : p \in Permutations(Handlers), q \in Permutations(Sessions), r \in {Stay, Swap}}
=============================================================================
