----------------------------- MODULE CartsAsked -----------------------------
(***************************************************************************)
(* Carts with a record of what it was asked for: what the carts of one     *)
(* customer may hold when requests overlap, reads lag and handlers are     *)
(* killed.  FrontEnd assumes no more of the carts service than this.  The  *)
(* property is proved for all constants in CartsProofs.                    *)
(***************************************************************************)
EXTENDS Carts

VARIABLES
    asked,     \* the items that were to be added for each customer
    merged     \* the carts that were to be merged: <<customer, session>>

askedVars == <<vars, asked, merged>>

AskedInit == Init /\ asked = [c \in Customers |-> {}] /\ merged = {}

\* A request is recorded when it comes in, whatever becomes of it.
Ask(w, req) ==
    /\ Receive(w, req)
    /\ asked' = [asked EXCEPT ![req.cust] = @ \cup (IF req.op = "add" THEN {req.itemId} ELSE {})]
    /\ merged' = merged \cup (IF req.op = "merge" THEN {<<req.cust, req.other>>} ELSE {})

AskedNext ==
    \/ \E w \in Workers, req \in Requests : Ask(w, req)
    \/ (\E w \in Workers : Handle(w) \/ Abort(w)) /\ UNCHANGED <<asked, merged>>
    \/ (CatchUp \/ Quiesce) /\ UNCHANGED <<asked, merged>>

AskedSpec == AskedInit /\ [][AskedNext]_askedVars

-----------------------------------------------------------------------------
(* Properties *)

MayHold(c) == asked[c] \cup UNION {asked[s] : s \in {s \in Sessions : <<c, s>> \in merged}}

\* However the requests of several customers overlap and whatever states their reads
\* see, saves of whole cart documents included: a cart never shows an item that was not
\* asked for by its customer, or in a session that was to be merged into it.
OnlyAsked ==
    \A d \in carts, i \in items : i.id \in Range(d.refs) => i.itemId \in MayHold(d.cust)
=============================================================================
