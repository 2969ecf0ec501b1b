----------------------------- MODULE Fulfilment -----------------------------
(***************************************************************************)
(* Orders, payment, shipping and queue-master together.  The call with     *)
(* which newOrder posts a shipment is the shipping service's request       *)
(* handler; everything else happens in one of the two parts.               *)
(***************************************************************************)
EXTENDS Orders, Shipping

ASSUME FulfilmentAssumption == Shipments = Orders

allVars == <<vars, shippingVars>>

FulfilmentInit == Init /\ ShippingInit

Post(o) == ServeShipment(o) /\ PostShipping(o)

OrdersStep == (\E o \in Orders : Step(o)) /\ UNCHANGED shippingVars

ShippingStep == BrokerAndConsumers /\ UNCHANGED vars

AllQuiet == Quiesce /\ up /\ Queued = {} /\ UNCHANGED shippingVars

FulfilmentNext ==
    OrdersStep \/ (\E o \in Orders : Post(o)) \/ ShippingStep \/ AllQuiet

FulfilmentSpec == FulfilmentInit /\ [][FulfilmentNext]_allVars

FairFulfilment ==
    /\ FulfilmentSpec
    /\ \A o \in Orders : WF_vars(Handler(o))
    /\ ShippingFairness

-----------------------------------------------------------------------------
(* Properties *)

\* The queue-master never handles a shipment that was not paid for, however
\* late the calls of an order that has failed are acted on.
HandledWasPaid ==
    \A o \in Orders : handled[o] > 0 => o \in Authorised /\ 0 < Amount(o)

\* The customer's order that is stored is on its way, or was lost on the way to
\* the broker or with it: the answer 201 of the shipping service, which it gives in
\* each case, is all newOrder has seen.
SavedIsOnItsWay ==
    \A s \in saved :
        s.order \in Queued \/ handled[s.order] > 0 \/ s.order \in dropped

\* A placed order is eventually handled, unless its shipment was lost.
PlacedIsHandled ==
    \A o \in Orders : pc[o] = "created" ~> handled[o] > 0 \/ o \in dropped

-----------------------------------------------------------------------------
(* Why they hold: the invariants of the two parts, and that a shipment is *)
(* accepted by the one when it is taken from the other.                   *)

FulfilmentInv == OrdersInv /\ ShippingInv /\ accepted = taken
=============================================================================
