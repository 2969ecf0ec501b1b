---------------------------- MODULE OrderOutcome ----------------------------
(***************************************************************************)
(* What the orders service promises: an order that is answered as placed   *)
(* has been charged and handed to shipping, one that is answered as        *)
(* refused never was and never will be, nothing is shipped that was not    *)
(* charged, and nothing is charged twice.  Of an order that fails nothing  *)
(* is promised: it may still be charged, and shipped, afterwards.          *)
(***************************************************************************)
CONSTANT Orders

VARIABLES
    outcome,   \* what the client knows of each order
    charged,   \* the orders the payment service has authorised
    shipped    \* the orders the shipping service has taken

outcomeVars == <<outcome, charged, shipped>>

Outcomes == {"open", "placed", "refused", "failed"}

Init ==
    /\ outcome = [o \in Orders |-> "open"]
    /\ charged = {}
    /\ shipped = {}

Undecided(o) == outcome[o] \in {"open", "failed"}

Charge(o) ==
    /\ Undecided(o) /\ o \notin charged
    /\ charged' = charged \cup {o}
    /\ UNCHANGED <<outcome, shipped>>

Ship(o) ==
    /\ Undecided(o) /\ o \in charged /\ o \notin shipped
    /\ shipped' = shipped \cup {o}
    /\ UNCHANGED <<outcome, charged>>

Answer(o, result) ==
    /\ outcome[o] = "open"
    /\ outcome' = [outcome EXCEPT ![o] = result]
    /\ UNCHANGED <<charged, shipped>>

Place(o) == o \in charged \cap shipped /\ Answer(o, "placed")
Refuse(o) == o \notin charged /\ Answer(o, "refused")
GiveUp(o) == Answer(o, "failed")

Next == \E o \in Orders : Charge(o) \/ Ship(o) \/ Place(o) \/ Refuse(o) \/ GiveUp(o)

Spec == Init /\ [][Next]_outcomeVars
=============================================================================
