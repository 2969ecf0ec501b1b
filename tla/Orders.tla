------------------------------- MODULE Orders -------------------------------
(***************************************************************************)
(* The orders service: OrdersController.newOrder and the calls it makes    *)
(* through AsyncGetService.  A call runs on a thread of its own, so it     *)
(* goes on when the handler stops waiting for it: the service it was sent  *)
(* to may act on it after the order has been answered.  Nothing is retried *)
(* and nothing is undone.                                                  *)
(*                                                                         *)
(* Amounts are in cents.  Addresses, cards and customers are left out: an  *)
(* order needs their calls to return, and does not look into the answers.  *)
(***************************************************************************)
EXTENDS Payment, FiniteSets

CONSTANTS
    Orders,   \* the POST /orders requests
    Totals,   \* what the items of a cart may add up to
    Fee,      \* the shipping fee calculateTotal adds
    None

ASSUME OrdersAssumption ==
    /\ Totals \subseteq Int
    /\ Fee \in Nat

ASSUME NoneAssumption == None \notin {"authorised", "declined", "error"}

VARIABLES
    pc,       \* what the handler of each order waits for, or how it ended
    call,     \* the progress of each call of each order
    total,    \* what the items read for the order add up to
    verdict,  \* the payment service's decision on the order
    taken,    \* the orders whose shipment the shipping service has taken
    saved     \* the stored orders: [order, amount]

vars == <<pc, call, total, verdict, taken, saved>>

Reads == {"items", "address", "card", "customer"}
Calls == Reads \cup {"payment", "shipment"}
Waits == Calls \cup {"save"}
Answers == {"created", "declined", "invalid", "error"}

\* "sent": not yet acted on.  "served": acted on, the response is on its way.
Progress == {"idle", "sent", "served", "returned", "failed"}

Amount(o) == total[o] + Fee

Settled(o, c) == call[o][c] \in {"returned", "failed"}
Waiting(o) == pc[o] \in Calls
Running(o) == pc[o] \in Waits

-----------------------------------------------------------------------------

Init ==
    /\ pc = [o \in Orders |-> "new"]
    /\ call = [o \in Orders |-> [c \in Calls |-> "idle"]]
    /\ total = [o \in Orders |-> None]
    /\ verdict = [o \in Orders |-> None]
    /\ taken = {}
    /\ saved = {}

GoTo(o, next) == pc' = [pc EXCEPT ![o] = next]
CallBecomes(o, c, p) == call' = [call EXCEPT ![o][c] = p]

\* The request names all four resources: they are fetched in parallel.
NewOrder(o) ==
    /\ pc[o] = "new"
    /\ call' = [call EXCEPT ![o] = [c \in Calls |-> IF c \in Reads THEN "sent" ELSE "idle"]]
    /\ GoTo(o, "items")
    /\ UNCHANGED <<total, verdict, taken, saved>>

InvalidOrder(o) ==
    /\ pc[o] = "new"
    /\ GoTo(o, "invalid")
    /\ UNCHANGED <<call, total, verdict, taken, saved>>

\* The handler waits for the reads in this order, whichever returns first.
NextRead == [items |-> "address", address |-> "card", card |-> "customer"]

GotRead(o) ==
    /\ pc[o] \in DOMAIN NextRead
    /\ call[o][pc[o]] = "returned"
    /\ GoTo(o, NextRead[pc[o]])
    /\ UNCHANGED <<call, total, verdict, taken, saved>>

\* Mutant of RequestPayment: the payment is asked for when the customer
\* arrives, whether or not the handler still waits for it.
PayOnCustomer(o) ==
    /\ call[o]["customer"] = "returned" /\ call[o]["payment"] = "idle"
    /\ CallBecomes(o, "payment", "sent")
    /\ IF pc[o] = "customer" THEN GoTo(o, "payment") ELSE UNCHANGED pc
    /\ UNCHANGED <<total, verdict, taken, saved>>

\* Mutant of RequestPayment: the shipment is asked for at the same time.
PayAndShip(o) ==
    /\ pc[o] = "customer" /\ call[o]["customer"] = "returned"
    /\ call' = [call EXCEPT ![o]["payment"] = "sent", ![o]["shipment"] = "sent"]
    /\ GoTo(o, "payment")
    /\ UNCHANGED <<total, verdict, taken, saved>>

\* The last of them is there: ask for the payment.
RequestPayment(o) ==
    /\ pc[o] = "customer" /\ call[o]["customer"] = "returned"
    /\ CallBecomes(o, "payment", "sent")
    /\ GoTo(o, "payment")
    /\ UNCHANGED <<total, verdict, taken, saved>>

\* Mutant of PaymentDeclined: every answer is taken for a refusal.
DeclineAny(o) ==
    /\ pc[o] = "payment" /\ call[o]["payment"] = "returned"
    /\ GoTo(o, "declined")
    /\ UNCHANGED <<call, total, verdict, taken, saved>>

\* Only an HTTP 200 makes the call return, and the payment service writes a JSON body
\* into each of its answers (encodeResponse): so there is a verdict, one of the two, and
\* "Unable to parse authorisation packet" is never said.
PaymentDeclined(o) ==
    /\ pc[o] = "payment" /\ call[o]["payment"] = "returned"
    /\ verdict[o] = "declined"
    /\ GoTo(o, "declined")
    /\ UNCHANGED <<call, total, verdict, taken, saved>>

\* Mutant of PaymentAuthorised: every answer is taken for an approval.
ShipAny(o) ==
    /\ pc[o] = "payment" /\ call[o]["payment"] = "returned"
    /\ CallBecomes(o, "shipment", "sent")
    /\ GoTo(o, "shipment")
    /\ UNCHANGED <<total, verdict, taken, saved>>

PaymentAuthorised(o) ==
    /\ pc[o] = "payment" /\ call[o]["payment"] = "returned"
    /\ verdict[o] = "authorised"
    /\ CallBecomes(o, "shipment", "sent")
    /\ GoTo(o, "shipment")
    /\ UNCHANGED <<total, verdict, taken, saved>>

\* parseId finds no id at the end of the customer's link.
NoCustomerId(o) ==
    /\ pc[o] = "payment" /\ call[o]["payment"] = "returned"
    /\ verdict[o] = "authorised"
    /\ GoTo(o, "error")
    /\ UNCHANGED <<call, total, verdict, taken, saved>>

\* Mutant of GotShipment: the shipment is not waited for.
SkipShipment(o) ==
    /\ pc[o] = "shipment"
    /\ GoTo(o, "save")
    /\ UNCHANGED <<call, total, verdict, taken, saved>>

GotShipment(o) ==
    /\ pc[o] = "shipment" /\ call[o]["shipment"] = "returned"
    /\ GoTo(o, "save")
    /\ UNCHANGED <<call, total, verdict, taken, saved>>

SaveOrder(o) ==
    /\ pc[o] = "save"
    /\ saved' = saved \cup {[order |-> o, amount |-> Amount(o)]}
    /\ GoTo(o, "created")
    /\ UNCHANGED <<call, total, verdict, taken>>

\* The save throws, before or after the database has stored the order.
SaveFails(o) ==
    /\ pc[o] = "save"
    /\ \/ saved' = saved \cup {[order |-> o, amount |-> Amount(o)]}
       \/ UNCHANGED saved
    /\ GoTo(o, "error")
    /\ UNCHANGED <<call, total, verdict, taken>>

\* get(timeout): the call has thrown (ExecutionException)...
CallThrows(o) ==
    /\ Waiting(o) /\ call[o][pc[o]] = "failed"
    /\ GoTo(o, "error")
    /\ UNCHANGED <<call, total, verdict, taken, saved>>

\* Mutant of Timeout: the shipment is waited for without a timeout.
TimeoutButShipment(o) ==
    /\ Waiting(o) /\ ~Settled(o, pc[o]) /\ pc[o] # "shipment"
    /\ GoTo(o, "error")
    /\ UNCHANGED <<call, total, verdict, taken, saved>>

\* ... or has not ended in time (TimeoutException).
Timeout(o) ==
    /\ Waiting(o) /\ ~Settled(o, pc[o])
    /\ GoTo(o, "error")
    /\ UNCHANGED <<call, total, verdict, taken, saved>>

\* The pod dies: its client sees the connection break.
Crash(o) ==
    /\ Running(o)
    /\ GoTo(o, "error")
    /\ UNCHANGED <<call, total, verdict, taken, saved>>

-----------------------------------------------------------------------------
(* The other end of the calls, which does not know what the handler does *)

\* The cart may hold anything by the time it is read.
ServeRead(o, c) ==
    /\ c \in Reads /\ call[o][c] = "sent"
    /\ CallBecomes(o, c, "returned")
    /\ IF c = "items" THEN \E t \in Totals : total' = [total EXCEPT ![o] = t]
                      ELSE UNCHANGED total
    /\ UNCHANGED <<pc, verdict, taken, saved>>

ServePayment(o) ==
    /\ call[o]["payment"] = "sent"
    /\ verdict' = [verdict EXCEPT ![o] = PaymentAuth(Amount(o))]
    /\ CallBecomes(o, "payment", "served")
    /\ UNCHANGED <<pc, total, taken, saved>>

\* POST /shipping answers 201 whether or not it could queue the shipment.
ServeShipment(o) ==
    /\ call[o]["shipment"] = "sent"
    /\ taken' = taken \cup {o}
    /\ CallBecomes(o, "shipment", "served")
    /\ UNCHANGED <<pc, total, verdict, saved>>

\* A response arrives; RestTemplate throws on the status of an error.
Respond(o, c) ==
    /\ call[o][c] = "served"
    /\ CallBecomes(o, c, IF c = "payment" /\ verdict[o] = "error" THEN "failed" ELSE "returned")
    /\ UNCHANGED <<pc, total, verdict, taken, saved>>

\* A call fails before it is acted on, or its response is lost.
LoseCall(o, c) ==
    /\ call[o][c] \in {"sent", "served"}
    /\ CallBecomes(o, c, "failed")
    /\ UNCHANGED <<pc, total, verdict, taken, saved>>

-----------------------------------------------------------------------------

Handler(o) ==
    \/ GotRead(o) \/ RequestPayment(o) \/ PaymentDeclined(o) \/ PaymentAuthorised(o)
    \/ NoCustomerId(o) \/ GotShipment(o) \/ SaveOrder(o) \/ SaveFails(o)
    \/ CallThrows(o) \/ Timeout(o)

Network(o) ==
    \/ ServePayment(o)
    \/ \E c \in Reads : ServeRead(o, c)
    \/ \E c \in Calls : Respond(o, c) \/ LoseCall(o, c)

\* Every request has been answered and no call is under way.
Quiesce ==
    /\ \A o \in Orders : pc[o] \in Answers
    /\ \A o \in Orders, c \in Calls : call[o][c] \notin {"sent", "served"}
    /\ UNCHANGED vars

Step(o) ==
    \/ NewOrder(o) \/ InvalidOrder(o) \/ Handler(o) \/ Crash(o) \/ Network(o)

Next == (\E o \in Orders : Step(o) \/ ServeShipment(o)) \/ Quiesce

Spec == Init /\ [][Next]_vars

\* A handler is never stuck: it may always stop waiting.  Of the services it
\* calls nothing is assumed.
FairSpec == Spec /\ \A o \in Orders : WF_vars(Handler(o))
-----------------------------------------------------------------------------
(* Properties *)

\* Every variable keeps its type; a verdict was reached on a known amount.
TypeOK ==
    /\ pc \in [Orders -> {"new"} \cup Waits \cup Answers]
    /\ call \in [Orders -> [Calls -> Progress]]
    /\ total \in [Orders -> Totals \cup {None}]
    /\ verdict \in [Orders -> {"authorised", "declined", "error", None}]
    /\ taken \subseteq Orders
    /\ saved \subseteq [order : Orders, amount : Int]

Authorised == {o \in Orders : verdict[o] = "authorised"}

\* A stored order has been paid for, in full and within the limit, and its
\* shipment has been taken, although each was done by a call that newOrder
\* could have stopped waiting for.
SavedWasPaid ==
    \A s \in saved :
        /\ s.order \in Authorised \cap taken
        /\ s.amount = Amount(s.order)
        /\ s.amount \in 1..DeclineOver

\* The client is told the truth: "created" means stored; "declined" and
\* "invalid" mean not charged, not shipped and not stored, then or later.
AnswerTruthful ==
    \A o \in Orders :
        LET stored == \E s \in saved : s.order = o
        IN  /\ pc[o] = "created" => stored
            /\ pc[o] \in {"declined", "invalid"} =>
                   ~stored /\ o \notin Authorised /\ o \notin taken
            /\ stored => pc[o] \in {"created", "error"}

\* No call outlives the order that made it by more than its own effect: once
\* an order is answered, no payment and no shipment is asked for any more.
NothingStartsLate ==
    [][\A o \in Orders, c \in Calls :
          pc[o] \in Answers /\ call[o][c] = "idle" => call'[o][c] = "idle"]_vars

\* newOrder ends, whether or not the services it calls ever answer.
Ended == \A o \in Orders : Running(o) ~> pc[o] \in Answers

-----------------------------------------------------------------------------
(* Why they hold: the inductive invariant *)

\* A verdict is the payment service's, on the total of the items that were
\* read before the payment was asked for and are not read again.
PaymentInv(o) ==
    /\ call[o]["items"] # "served"
    /\ call[o]["items"] = "returned" => total[o] \in Totals
    /\ pc[o] \in {"address", "card", "customer"} => call[o]["items"] = "returned"
    /\ call[o]["payment"] # "idle" => call[o]["items"] = "returned"
    /\ call[o]["payment"] \in {"idle", "sent"} => verdict[o] = None
    /\ call[o]["payment"] = "served" => verdict[o] # None
    /\ call[o]["payment"] = "returned" => verdict[o] \in {"authorised", "declined"}
    /\ verdict[o] # None => /\ call[o]["items"] = "returned"
                            /\ verdict[o] = PaymentAuth(Amount(o))

\* The shipment is posted once the payment is authorised.
ShipmentInv(o) ==
    /\ call[o]["shipment"] # "idle" => verdict[o] = "authorised"
    /\ call[o]["shipment"] \in {"served", "returned"} => o \in taken
    /\ call[o]["shipment"] \in {"idle", "sent"} => o \notin taken
    /\ pc[o] \in {"save", "created"} => call[o]["shipment"] = "returned"

\* What the handler has not reached yet, it has not asked for.
HandlerInv(o) ==
    /\ pc[o] \in {"new", "invalid"} => \A c \in Calls : call[o][c] = "idle"
    /\ pc[o] \in Reads => call[o]["payment"] = "idle"
    /\ pc[o] \in Reads \cup {"payment", "declined"} => call[o]["shipment"] = "idle"
    /\ pc[o] = "declined" => verdict[o] = "declined"
    /\ pc[o] = "created" => \E s \in saved : s.order = o

StoredInv ==
    \A s \in saved :
        /\ pc[s.order] \in {"created", "error"}
        /\ call[s.order]["shipment"] = "returned"
        /\ s.amount = Amount(s.order)

OrdersInv ==
    /\ TypeOK
    /\ \A o \in Orders : PaymentInv(o) /\ ShipmentInv(o) /\ HandlerInv(o)
    /\ StoredInv

-----------------------------------------------------------------------------
(* Refinement of OrderOutcome *)

Outcome(o) ==
    CASE pc[o] = "created"                 -> "placed"
      [] pc[o] \in {"declined", "invalid"} -> "refused"
      [] pc[o] = "error"                   -> "failed"
      [] OTHER                             -> "open"

Promise == INSTANCE OrderOutcome WITH
    outcome <- [o \in Orders |-> Outcome(o)],
    charged <- Authorised,
    shipped <- taken

\* With its timeouts, lost calls and late effects, the service keeps the
\* promise of OrderOutcome.
PromiseKept == Promise!Spec
=============================================================================
