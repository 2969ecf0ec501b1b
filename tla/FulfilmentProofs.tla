-------------------------- MODULE FulfilmentProofs --------------------------
(***************************************************************************)
(* Proofs about Orders, for every set of orders, every total and every     *)
(* limit; about the shipping service, for every set of shipments, any      *)
(* number of consumers, and any number of broker crashes and dead          *)
(* consumers; and about Fulfilment: what the orders service and the        *)
(* shipping service promise each, and what the two together promise.       *)
(***************************************************************************)
EXTENDS Fulfilment, TLAPS

-----------------------------------------------------------------------------
(* The orders service: OrdersInv is inductive, each action keeps it.  The   *)
(* properties follow from it, and so does the refinement of OrderOutcome.  *)

\* The four reads are sent; nothing else has been asked for.
LEMMA NewOrderKeeps ==
    ASSUME OrdersInv, NEW o \in Orders, NewOrder(o)
    PROVE  OrdersInv'
<1>1. TypeOK'
    BY NoneAssumption DEF OrdersInv, TypeOK, NewOrder, GoTo, Reads,
          Calls, Waits, Answers, Progress
<1>2. ASSUME NEW p \in Orders
      PROVE  PaymentInv(p)' /\ ShipmentInv(p)' /\ HandlerInv(p)'
    BY NoneAssumption DEF OrdersInv, PaymentInv, ShipmentInv,
          HandlerInv, TypeOK, NewOrder, GoTo, Reads, Calls, Waits,
          Answers, Progress, Amount
<1>3. StoredInv'
    BY NoneAssumption DEF OrdersInv, StoredInv, PaymentInv, ShipmentInv,
          HandlerInv, TypeOK, NewOrder, GoTo, Reads, Calls, Waits,
          Answers, Progress, Amount
<1>4. QED  BY <1>1, <1>2, <1>3 DEF OrdersInv

\* A refused request makes no call.
LEMMA InvalidOrderKeeps ==
    ASSUME OrdersInv, NEW o \in Orders, InvalidOrder(o)
    PROVE  OrdersInv'
<1>1. TypeOK'
    BY NoneAssumption DEF OrdersInv, TypeOK, InvalidOrder, GoTo, Reads,
          Calls, Waits, Answers, Progress
<1>2. ASSUME NEW p \in Orders
      PROVE  PaymentInv(p)' /\ ShipmentInv(p)' /\ HandlerInv(p)'
    BY NoneAssumption DEF OrdersInv, PaymentInv, ShipmentInv,
          HandlerInv, TypeOK, InvalidOrder, GoTo, Reads, Calls, Waits,
          Answers, Progress, Amount
<1>3. StoredInv'
    BY NoneAssumption DEF OrdersInv, StoredInv, PaymentInv, ShipmentInv,
          HandlerInv, TypeOK, InvalidOrder, GoTo, Reads, Calls, Waits,
          Answers, Progress, Amount
<1>4. QED  BY <1>1, <1>2, <1>3 DEF OrdersInv

\* The handler moves on to the next read: the items came first.
LEMMA GotReadKeeps ==
    ASSUME OrdersInv, NEW o \in Orders, GotRead(o)
    PROVE  OrdersInv'
<1>1. TypeOK'
    BY NoneAssumption DEF OrdersInv, TypeOK, GotRead, GoTo, NextRead,
          Reads, Calls, Waits, Answers, Progress
<1>2. ASSUME NEW p \in Orders
      PROVE  PaymentInv(p)' /\ ShipmentInv(p)' /\ HandlerInv(p)'
    BY NoneAssumption DEF OrdersInv, PaymentInv, ShipmentInv,
          HandlerInv, TypeOK, GotRead, GoTo, NextRead, Reads, Calls,
          Waits, Answers, Progress, Amount
<1>3. StoredInv'
    BY NoneAssumption DEF OrdersInv, StoredInv, PaymentInv, ShipmentInv,
          HandlerInv, TypeOK, GotRead, GoTo, NextRead, Reads, Calls,
          Waits, Answers, Progress, Amount
<1>4. QED  BY <1>1, <1>2, <1>3 DEF OrdersInv

\* The payment is asked for when the items have returned.
LEMMA RequestPaymentKeeps ==
    ASSUME OrdersInv, NEW o \in Orders, RequestPayment(o)
    PROVE  OrdersInv'
<1>1. TypeOK'
    BY NoneAssumption DEF OrdersInv, TypeOK, RequestPayment, GoTo,
          CallBecomes, Reads, Calls, Waits, Answers, Progress
<1>2. ASSUME NEW p \in Orders
      PROVE  PaymentInv(p)' /\ ShipmentInv(p)' /\ HandlerInv(p)'
    BY NoneAssumption DEF OrdersInv, PaymentInv, ShipmentInv,
          HandlerInv, TypeOK, RequestPayment, GoTo, CallBecomes, Reads,
          Calls, Waits, Answers, Progress, Amount
<1>3. StoredInv'
    BY NoneAssumption DEF OrdersInv, StoredInv, PaymentInv, ShipmentInv,
          HandlerInv, TypeOK, RequestPayment, GoTo, CallBecomes, Reads,
          Calls, Waits, Answers, Progress, Amount
<1>4. QED  BY <1>1, <1>2, <1>3 DEF OrdersInv

\* The verdict that comes back is the one that was reached.
LEMMA PaymentDeclinedKeeps ==
    ASSUME OrdersInv, NEW o \in Orders, PaymentDeclined(o)
    PROVE  OrdersInv'
<1>1. TypeOK'
    BY NoneAssumption DEF OrdersInv, TypeOK, PaymentDeclined, GoTo,
          Reads, Calls, Waits, Answers, Progress
<1>2. ASSUME NEW p \in Orders
      PROVE  PaymentInv(p)' /\ ShipmentInv(p)' /\ HandlerInv(p)'
    BY NoneAssumption DEF OrdersInv, PaymentInv, ShipmentInv,
          HandlerInv, TypeOK, PaymentDeclined, GoTo, Reads, Calls,
          Waits, Answers, Progress, Amount
<1>3. StoredInv'
    BY NoneAssumption DEF OrdersInv, StoredInv, PaymentInv, ShipmentInv,
          HandlerInv, TypeOK, PaymentDeclined, GoTo, Reads, Calls,
          Waits, Answers, Progress, Amount
<1>4. QED  BY <1>1, <1>2, <1>3 DEF OrdersInv

\* The shipment is posted on an authorised payment.
LEMMA PaymentAuthorisedKeeps ==
    ASSUME OrdersInv, NEW o \in Orders, PaymentAuthorised(o)
    PROVE  OrdersInv'
<1>1. TypeOK'
    BY NoneAssumption DEF OrdersInv, TypeOK, PaymentAuthorised, GoTo,
          CallBecomes, Reads, Calls, Waits, Answers, Progress
<1>2. ASSUME NEW p \in Orders
      PROVE  PaymentInv(p)' /\ ShipmentInv(p)' /\ HandlerInv(p)'
    BY NoneAssumption DEF OrdersInv, PaymentInv, ShipmentInv,
          HandlerInv, TypeOK, PaymentAuthorised, GoTo, CallBecomes,
          Reads, Calls, Waits, Answers, Progress, Amount
<1>3. StoredInv'
    BY NoneAssumption DEF OrdersInv, StoredInv, PaymentInv, ShipmentInv,
          HandlerInv, TypeOK, PaymentAuthorised, GoTo, CallBecomes,
          Reads, Calls, Waits, Answers, Progress, Amount
<1>4. QED  BY <1>1, <1>2, <1>3 DEF OrdersInv

\* The handler stops before it posts a shipment.
LEMMA NoCustomerIdKeeps ==
    ASSUME OrdersInv, NEW o \in Orders, NoCustomerId(o)
    PROVE  OrdersInv'
<1>1. TypeOK'
    BY NoneAssumption DEF OrdersInv, TypeOK, NoCustomerId, GoTo, Reads,
          Calls, Waits, Answers, Progress
<1>2. ASSUME NEW p \in Orders
      PROVE  PaymentInv(p)' /\ ShipmentInv(p)' /\ HandlerInv(p)'
    BY NoneAssumption DEF OrdersInv, PaymentInv, ShipmentInv,
          HandlerInv, TypeOK, NoCustomerId, GoTo, Reads, Calls, Waits,
          Answers, Progress, Amount
<1>3. StoredInv'
    BY NoneAssumption DEF OrdersInv, StoredInv, PaymentInv, ShipmentInv,
          HandlerInv, TypeOK, NoCustomerId, GoTo, Reads, Calls, Waits,
          Answers, Progress, Amount
<1>4. QED  BY <1>1, <1>2, <1>3 DEF OrdersInv

\* The shipment has been taken when its call returns.
LEMMA GotShipmentKeeps ==
    ASSUME OrdersInv, NEW o \in Orders, GotShipment(o)
    PROVE  OrdersInv'
<1>1. TypeOK'
    BY NoneAssumption DEF OrdersInv, TypeOK, GotShipment, GoTo, Reads,
          Calls, Waits, Answers, Progress
<1>2. ASSUME NEW p \in Orders
      PROVE  PaymentInv(p)' /\ ShipmentInv(p)' /\ HandlerInv(p)'
    BY NoneAssumption DEF OrdersInv, PaymentInv, ShipmentInv,
          HandlerInv, TypeOK, GotShipment, GoTo, Reads, Calls, Waits,
          Answers, Progress, Amount
<1>3. StoredInv'
    BY NoneAssumption DEF OrdersInv, StoredInv, PaymentInv, ShipmentInv,
          HandlerInv, TypeOK, GotShipment, GoTo, Reads, Calls, Waits,
          Answers, Progress, Amount
<1>4. QED  BY <1>1, <1>2, <1>3 DEF OrdersInv

\* The stored amount is the one the payment service was asked about.
LEMMA SaveOrderKeeps ==
    ASSUME OrdersInv, NEW o \in Orders, SaveOrder(o)
    PROVE  OrdersInv'
<1> DEFINE order == [order |-> o, amount |-> Amount(o)]
<1>1. /\ Amount(o) \in Int
      /\ pc[o] = "save" /\ call[o]["shipment"] = "returned" /\ o \in taken
  <2>1. pc[o] = "save" /\ call[o]["shipment"] = "returned"
      BY DEF OrdersInv, SaveOrder, ShipmentInv
  <2>2. verdict[o] = "authorised" /\ o \in taken
      BY <2>1 DEF OrdersInv, ShipmentInv
  <2>3. total[o] \in Totals
      BY <2>2, NoneAssumption DEF OrdersInv, PaymentInv
  <2>4. total[o] \in Int
      BY <2>3, OrdersAssumption
  <2>5. Fee \in Int
      BY OrdersAssumption
  <2>6. QED  BY <2>1, <2>2, <2>4, <2>5 DEF Amount
<1>2. /\ saved' \in {saved, saved \cup {order}}
      /\ pc' = [pc EXCEPT ![o] = "created"]
      /\ UNCHANGED <<call, total, verdict, taken>>
    BY DEF SaveOrder, GoTo
<1>3. order \in saved'
    BY DEF SaveOrder
<1>4. TypeOK'
    BY <1>1, <1>2 DEF OrdersInv, TypeOK, Waits, Answers
<1>5. ASSUME NEW p \in Orders
      PROVE  PaymentInv(p)' /\ ShipmentInv(p)' /\ HandlerInv(p)'
    BY <1>1, <1>2, <1>3 DEF OrdersInv, PaymentInv, ShipmentInv,
          HandlerInv, TypeOK, Reads, Calls, Amount
<1>6. ASSUME NEW s \in saved'
      PROVE  /\ pc'[s.order] \in {"created", "error"}
             /\ call'[s.order]["shipment"] = "returned"
             /\ s.amount = Amount(s.order)'
  <2>1. CASE s \in saved
      BY <2>1, <1>1, <1>2 DEF OrdersInv, StoredInv, TypeOK, Amount
  <2>2. CASE s = order
      BY <2>2, <1>1, <1>2 DEF OrdersInv, TypeOK, Amount
  <2>3. QED  BY <1>2, <2>1, <2>2
<1>7. QED  BY <1>4, <1>5, <1>6 DEF OrdersInv, StoredInv

\* As SaveOrder, except that the order may not be stored.
LEMMA SaveFailsKeeps ==
    ASSUME OrdersInv, NEW o \in Orders, SaveFails(o)
    PROVE  OrdersInv'
<1> DEFINE order == [order |-> o, amount |-> Amount(o)]
<1>1. /\ Amount(o) \in Int
      /\ pc[o] = "save" /\ call[o]["shipment"] = "returned" /\ o \in taken
  <2>1. pc[o] = "save" /\ call[o]["shipment"] = "returned"
      BY DEF OrdersInv, SaveFails, ShipmentInv
  <2>2. verdict[o] = "authorised" /\ o \in taken
      BY <2>1 DEF OrdersInv, ShipmentInv
  <2>3. total[o] \in Totals
      BY <2>2, NoneAssumption DEF OrdersInv, PaymentInv
  <2>4. total[o] \in Int
      BY <2>3, OrdersAssumption
  <2>5. Fee \in Int
      BY OrdersAssumption
  <2>6. QED  BY <2>1, <2>2, <2>4, <2>5 DEF Amount
<1>2. /\ saved' \in {saved, saved \cup {order}}
      /\ pc' = [pc EXCEPT ![o] = "error"]
      /\ UNCHANGED <<call, total, verdict, taken>>
    BY DEF SaveFails, GoTo
<1>3. TypeOK'
    BY <1>1, <1>2 DEF OrdersInv, TypeOK, Waits, Answers
<1>4. ASSUME NEW p \in Orders
      PROVE  PaymentInv(p)' /\ ShipmentInv(p)' /\ HandlerInv(p)'
    BY <1>1, <1>2 DEF OrdersInv, PaymentInv, ShipmentInv, HandlerInv,
          TypeOK, Reads, Calls, Amount
<1>5. ASSUME NEW s \in saved'
      PROVE  /\ pc'[s.order] \in {"created", "error"}
             /\ call'[s.order]["shipment"] = "returned"
             /\ s.amount = Amount(s.order)'
  <2>1. CASE s \in saved
      BY <2>1, <1>1, <1>2 DEF OrdersInv, StoredInv, TypeOK, Amount
  <2>2. CASE s = order
      BY <2>2, <1>1, <1>2 DEF OrdersInv, TypeOK, Amount
  <2>3. QED  BY <1>2, <2>1, <2>2
<1>6. QED  BY <1>3, <1>4, <1>5 DEF OrdersInv, StoredInv

\* The handler stops.
LEMMA CallThrowsKeeps ==
    ASSUME OrdersInv, NEW o \in Orders, CallThrows(o)
    PROVE  OrdersInv'
<1>1. TypeOK'
    BY NoneAssumption DEF OrdersInv, TypeOK, CallThrows, GoTo, Waiting,
          Reads, Calls, Waits, Answers, Progress
<1>2. ASSUME NEW p \in Orders
      PROVE  PaymentInv(p)' /\ ShipmentInv(p)' /\ HandlerInv(p)'
    BY NoneAssumption DEF OrdersInv, PaymentInv, ShipmentInv,
          HandlerInv, TypeOK, CallThrows, GoTo, Waiting, Reads, Calls,
          Waits, Answers, Progress, Amount
<1>3. StoredInv'
    BY NoneAssumption DEF OrdersInv, StoredInv, PaymentInv, ShipmentInv,
          HandlerInv, TypeOK, CallThrows, GoTo, Waiting, Reads, Calls,
          Waits, Answers, Progress, Amount
<1>4. QED  BY <1>1, <1>2, <1>3 DEF OrdersInv

\* The handler stops, and its call goes on.
LEMMA TimeoutKeeps ==
    ASSUME OrdersInv, NEW o \in Orders, Timeout(o)
    PROVE  OrdersInv'
<1>1. TypeOK'
    BY NoneAssumption DEF OrdersInv, TypeOK, Timeout, GoTo, Waiting,
          Settled, Reads, Calls, Waits, Answers, Progress
<1>2. ASSUME NEW p \in Orders
      PROVE  PaymentInv(p)' /\ ShipmentInv(p)' /\ HandlerInv(p)'
    BY NoneAssumption DEF OrdersInv, PaymentInv, ShipmentInv,
          HandlerInv, TypeOK, Timeout, GoTo, Waiting, Settled, Reads,
          Calls, Waits, Answers, Progress, Amount
<1>3. StoredInv'
    BY NoneAssumption DEF OrdersInv, StoredInv, PaymentInv, ShipmentInv,
          HandlerInv, TypeOK, Timeout, GoTo, Waiting, Settled, Reads,
          Calls, Waits, Answers, Progress, Amount
<1>4. QED  BY <1>1, <1>2, <1>3 DEF OrdersInv

\* The handler stops.
LEMMA CrashKeeps ==
    ASSUME OrdersInv, NEW o \in Orders, Crash(o)
    PROVE  OrdersInv'
<1>1. TypeOK'
    BY NoneAssumption DEF OrdersInv, TypeOK, Crash, GoTo, Running,
          Reads, Calls, Waits, Answers, Progress
<1>2. ASSUME NEW p \in Orders
      PROVE  PaymentInv(p)' /\ ShipmentInv(p)' /\ HandlerInv(p)'
    BY NoneAssumption DEF OrdersInv, PaymentInv, ShipmentInv,
          HandlerInv, TypeOK, Crash, GoTo, Running, Reads, Calls, Waits,
          Answers, Progress, Amount
<1>3. StoredInv'
    BY NoneAssumption DEF OrdersInv, StoredInv, PaymentInv, ShipmentInv,
          HandlerInv, TypeOK, Crash, GoTo, Running, Reads, Calls, Waits,
          Answers, Progress, Amount
<1>4. QED  BY <1>1, <1>2, <1>3 DEF OrdersInv

\* A read returns; the total is set once, when the items are read.
LEMMA ServeReadKeeps ==
    ASSUME OrdersInv, NEW o \in Orders, NEW c \in Calls, ServeRead(o, c)
    PROVE  OrdersInv'
<1>1. TypeOK'
    BY NoneAssumption DEF OrdersInv, TypeOK, ServeRead, CallBecomes,
          Reads, Calls, Waits, Answers, Progress
<1>2. ASSUME NEW p \in Orders
      PROVE  PaymentInv(p)' /\ ShipmentInv(p)' /\ HandlerInv(p)'
    BY NoneAssumption DEF OrdersInv, PaymentInv, ShipmentInv,
          HandlerInv, TypeOK, ServeRead, CallBecomes, Reads, Calls,
          Waits, Answers, Progress, Amount
<1>3. StoredInv'
    BY NoneAssumption DEF OrdersInv, StoredInv, PaymentInv, ShipmentInv,
          HandlerInv, TypeOK, ServeRead, CallBecomes, Reads, Calls,
          Waits, Answers, Progress, Amount
<1>4. QED  BY <1>1, <1>2, <1>3 DEF OrdersInv

\* The verdict is reached on the total that was read.
LEMMA ServePaymentKeeps ==
    ASSUME OrdersInv, NEW o \in Orders, ServePayment(o)
    PROVE  OrdersInv'
<1>1. TypeOK'
    BY NoneAssumption, PaymentAssumption DEF OrdersInv, TypeOK,
          ServePayment, CallBecomes, Reads, Calls, Waits, Answers,
          Progress, PaymentAuth, Authorise, Amount
<1>2. ASSUME NEW p \in Orders
      PROVE  PaymentInv(p)' /\ ShipmentInv(p)' /\ HandlerInv(p)'
    BY NoneAssumption, PaymentAssumption DEF OrdersInv, PaymentInv,
          ShipmentInv, HandlerInv, TypeOK, ServePayment, CallBecomes,
          Reads, Calls, Waits, Answers, Progress, PaymentAuth,
          Authorise, Amount
<1>3. StoredInv'
    BY NoneAssumption DEF OrdersInv, StoredInv, PaymentInv, ShipmentInv,
          HandlerInv, TypeOK, ServePayment, CallBecomes, Reads, Calls,
          Waits, Answers, Progress, Amount
<1>4. QED  BY <1>1, <1>2, <1>3 DEF OrdersInv

\* The shipment is taken.
LEMMA ServeShipmentKeeps ==
    ASSUME OrdersInv, NEW o \in Orders, ServeShipment(o)
    PROVE  OrdersInv'
<1>1. TypeOK'
    BY NoneAssumption DEF OrdersInv, TypeOK, ServeShipment, CallBecomes,
          Reads, Calls, Waits, Answers, Progress
<1>2. ASSUME NEW p \in Orders
      PROVE  PaymentInv(p)' /\ ShipmentInv(p)' /\ HandlerInv(p)'
    BY NoneAssumption DEF OrdersInv, PaymentInv, ShipmentInv,
          HandlerInv, TypeOK, ServeShipment, CallBecomes, Reads, Calls,
          Waits, Answers, Progress, Amount
<1>3. StoredInv'
    BY NoneAssumption DEF OrdersInv, StoredInv, PaymentInv, ShipmentInv,
          HandlerInv, TypeOK, ServeShipment, CallBecomes, Reads, Calls,
          Waits, Answers, Progress, Amount
<1>4. QED  BY <1>1, <1>2, <1>3 DEF OrdersInv

\* A call returns what it was served, or fails.
LEMMA RespondKeeps ==
    ASSUME OrdersInv, NEW o \in Orders, NEW c \in Calls, Respond(o, c)
    PROVE  OrdersInv'
<1>1. TypeOK'
    BY NoneAssumption DEF OrdersInv, TypeOK, Respond, CallBecomes,
          Reads, Calls, Waits, Answers, Progress
<1>2. ASSUME NEW p \in Orders
      PROVE  PaymentInv(p)' /\ ShipmentInv(p)' /\ HandlerInv(p)'
    BY NoneAssumption DEF OrdersInv, PaymentInv, ShipmentInv,
          HandlerInv, TypeOK, Respond, CallBecomes, Reads, Calls, Waits,
          Answers, Progress, Amount
<1>3. StoredInv'
    BY NoneAssumption DEF OrdersInv, StoredInv, PaymentInv, ShipmentInv,
          HandlerInv, TypeOK, Respond, CallBecomes, Reads, Calls, Waits,
          Answers, Progress, Amount
<1>4. QED  BY <1>1, <1>2, <1>3 DEF OrdersInv

\* A call fails.
LEMMA LoseCallKeeps ==
    ASSUME OrdersInv, NEW o \in Orders, NEW c \in Calls, LoseCall(o, c)
    PROVE  OrdersInv'
<1>1. TypeOK'
    BY NoneAssumption DEF OrdersInv, TypeOK, LoseCall, CallBecomes,
          Reads, Calls, Waits, Answers, Progress
<1>2. ASSUME NEW p \in Orders
      PROVE  PaymentInv(p)' /\ ShipmentInv(p)' /\ HandlerInv(p)'
    BY NoneAssumption DEF OrdersInv, PaymentInv, ShipmentInv,
          HandlerInv, TypeOK, LoseCall, CallBecomes, Reads, Calls,
          Waits, Answers, Progress, Amount
<1>3. StoredInv'
    BY NoneAssumption DEF OrdersInv, StoredInv, PaymentInv, ShipmentInv,
          HandlerInv, TypeOK, LoseCall, CallBecomes, Reads, Calls,
          Waits, Answers, Progress, Amount
<1>4. QED  BY <1>1, <1>2, <1>3 DEF OrdersInv

-----------------------------------------------------------------------------

\* Before any request nothing has been asked for, charged or stored.
LEMMA InitInv == Init => OrdersInv
BY DEF Init, OrdersInv, TypeOK, PaymentInv, ShipmentInv, HandlerInv, StoredInv,
       Reads, Calls, Waits, Answers, Progress

\* Every step of a handler, of a called service or of the network keeps OrdersInv.
LEMMA NextInv == OrdersInv /\ [Next]_vars => OrdersInv'
<1> SUFFICES ASSUME OrdersInv, [Next]_vars PROVE OrdersInv'
    OBVIOUS
<1>1. CASE UNCHANGED vars
    BY <1>1 DEF vars, OrdersInv, TypeOK, PaymentInv, ShipmentInv, HandlerInv,
                StoredInv, Amount
<1>2. CASE Quiesce
    BY <1>1, <1>2 DEF Quiesce
<1>3. ASSUME NEW o \in Orders, Step(o) \/ ServeShipment(o)
      PROVE  OrdersInv'
  <2>1. CASE NewOrder(o) \/ InvalidOrder(o) \/ Crash(o)
      BY <2>1, NewOrderKeeps, InvalidOrderKeeps, CrashKeeps
  <2>2. CASE Handler(o)
      BY <2>2, GotReadKeeps, RequestPaymentKeeps, PaymentDeclinedKeeps,
         PaymentAuthorisedKeeps, NoCustomerIdKeeps, GotShipmentKeeps, SaveOrderKeeps,
         SaveFailsKeeps, CallThrowsKeeps, TimeoutKeeps
         DEF Handler
  <2>3. CASE Network(o)
    <3>1. Reads \subseteq Calls
        BY DEF Calls
    <3>2. QED  BY <2>3, <3>1, ServePaymentKeeps, ServeReadKeeps, RespondKeeps, LoseCallKeeps
                  DEF Network
  <2>4. QED  BY <1>3, <2>1, <2>2, <2>3, ServeShipmentKeeps DEF Step
<1>4. QED  BY <1>1, <1>2, <1>3 DEF Next

\* OrdersInv holds in every state of every run.
THEOREM Invariance == Spec => []OrdersInv
BY InitInv, NextInv, PTL DEF Spec

\* Every variable keeps its type.
THEOREM TypeCorrect == Spec => []TypeOK
<1>1. OrdersInv => TypeOK
    BY DEF OrdersInv
<1>2. QED  BY <1>1, Invariance, PTL

\* A stored order has been paid for, in full and within the limit, and its
\* shipment has been taken.
THEOREM StoredOrdersArePaid == Spec => []SavedWasPaid
<1>1. OrdersInv => SavedWasPaid
  <2> SUFFICES ASSUME OrdersInv, NEW s \in saved
               PROVE  /\ s.order \in Authorised \cap taken
                      /\ s.amount = Amount(s.order)
                      /\ s.amount \in 1..DeclineOver
      BY DEF SavedWasPaid
  <2>1. s.order \in Orders /\ s.amount \in Int
      BY DEF OrdersInv, TypeOK
  <2>2. call[s.order]["shipment"] = "returned" /\ s.amount = Amount(s.order)
      BY DEF OrdersInv, StoredInv
  <2>3. verdict[s.order] = "authorised" /\ s.order \in taken
      BY <2>1, <2>2 DEF OrdersInv, ShipmentInv
  <2>4. PaymentAuth(s.amount) = "authorised"
      BY <2>1, <2>2, <2>3, NoneAssumption DEF OrdersInv, PaymentInv
  <2>5. s.amount \in 1..DeclineOver
      BY <2>1, <2>4, PaymentAssumption DEF PaymentAuth, Authorise
  <2>6. QED  BY <2>1, <2>2, <2>3, <2>5 DEF Authorised
<1>2. QED  BY <1>1, Invariance, PTL

\* The client is told the truth.
THEOREM AnswersAreTruthful == Spec => []AnswerTruthful
<1>1. OrdersInv => AnswerTruthful
    BY NoneAssumption DEF OrdersInv, AnswerTruthful, Authorised, TypeOK, PaymentInv,
       ShipmentInv, HandlerInv, StoredInv, Calls
<1>2. QED  BY <1>1, Invariance, PTL

\* No payment and no shipment is asked for once the order is answered.
THEOREM NothingAskedLate == Spec => NothingStartsLate
<1>1. ASSUME TypeOK, [Next]_vars, NEW o \in Orders, NEW c \in Calls,
             pc[o] \in Answers, call[o][c] = "idle"
      PROVE  call'[o][c] = "idle"
  <2>1. CASE UNCHANGED vars \/ Quiesce
      BY <1>1, <2>1 DEF vars, Quiesce
  <2>2. ASSUME NEW p \in Orders, Step(p) \/ ServeShipment(p)
        PROVE  call'[o][c] = "idle"
    <3>1. CASE NewOrder(p)
        BY <1>1, <3>1 DEF NewOrder, TypeOK, Answers
    <3>2. CASE RequestPayment(p) \/ PaymentAuthorised(p)
        BY <1>1, <3>2 DEF RequestPayment, PaymentAuthorised, CallBecomes, TypeOK, Answers
    <3>3. CASE Network(p) \/ ServeShipment(p)
        BY <1>1, <3>3 DEF Network, ServePayment, ServeRead, Respond, LoseCall,
                          ServeShipment, CallBecomes, TypeOK
    <3>4. CASE UNCHANGED call
        BY <1>1, <3>4
    <3>5. QED
        BY <2>2, <3>1, <3>2, <3>3, <3>4 DEF Step, Handler, InvalidOrder, GotRead,
           PaymentDeclined, NoCustomerId, GotShipment, SaveOrder, SaveFails, CallThrows,
           Timeout, Crash
  <2>3. QED  BY <1>1, <2>1, <2>2 DEF Next
<1>2. TypeOK /\ [Next]_vars =>
          [\A o \in Orders, c \in Calls :
              pc[o] \in Answers /\ call[o][c] = "idle" => call'[o][c] = "idle"]_vars
    BY <1>1
<1>3. QED  BY <1>2, TypeCorrect, PTL DEF Spec, NothingStartsLate

-----------------------------------------------------------------------------
(* The refinement.  Abbreviations of the mapped variables: *)

Outcomes == [o \in Orders |-> Outcome(o)]

\* No order has been asked for: the client sees every outcome as open.
LEMMA RefinesInit == Init => Promise!Init
BY NoneAssumption DEF Init, Promise!Init, Outcome, Authorised, Calls, Reads

\* A handler that goes on, or a call that does not decide anything, is not
\* seen by the client.
LEMMA Unseen ==
    ASSUME OrdersInv, NEW o \in Orders,
           UNCHANGED <<verdict, taken>>,
           \/ UNCHANGED pc
           \/ /\ pc[o] \in {"new"} \cup Waits
              /\ \E next \in Waits : GoTo(o, next)
    PROVE  UNCHANGED Promise!outcomeVars
<1>1. Outcomes' = Outcomes
    BY DEF Outcomes, Outcome, OrdersInv, TypeOK, GoTo, Waits, Calls, Reads
<1>2. Authorised' = Authorised
    BY DEF Authorised
<1>3. QED  BY <1>1, <1>2 DEF Promise!outcomeVars, Outcomes

\* A handler that ends is seen as an answer.
LEMMA Seen ==
    ASSUME OrdersInv, NEW o \in Orders, NEW end \in Answers,
           UNCHANGED <<verdict, taken>>,
           pc[o] \in {"new"} \cup Waits,
           GoTo(o, end)
    PROVE  /\ end = "created" => Promise!Answer(o, "placed")
           /\ end \in {"declined", "invalid"} => Promise!Answer(o, "refused")
           /\ end = "error" => Promise!Answer(o, "failed")
<1>1. Outcomes[o] = "open"
    BY DEF Outcomes, Outcome, Waits, Calls, Reads
<1>2. /\ end = "created" => Outcomes' = [Outcomes EXCEPT ![o] = "placed"]
      /\ end \in {"declined", "invalid"} => Outcomes' = [Outcomes EXCEPT ![o] = "refused"]
      /\ end = "error" => Outcomes' = [Outcomes EXCEPT ![o] = "failed"]
    BY DEF Outcomes, Outcome, OrdersInv, TypeOK, GoTo, Answers
<1>3. Authorised' = Authorised
    BY DEF Authorised
<1>4. QED  BY <1>1, <1>2, <1>3 DEF Promise!Answer, Outcomes

\* Every step of Orders is a step of OrderOutcome, or is not seen by the client.
LEMMA RefinesStep ==
    ASSUME OrdersInv, NEW o \in Orders, Step(o) \/ ServeShipment(o)
    PROVE  Promise!Next \/ UNCHANGED Promise!outcomeVars
<1>1. CASE NewOrder(o) \/ GotRead(o) \/ RequestPayment(o) \/ PaymentAuthorised(o)
           \/ GotShipment(o)
  <2>1. /\ UNCHANGED <<verdict, taken>>
        /\ pc[o] \in {"new"} \cup Waits
        /\ \E next \in Waits : GoTo(o, next)
      BY <1>1 DEF NewOrder, GotRead, NextRead, RequestPayment, PaymentAuthorised,
                  GotShipment, Waits, Calls, Reads
  <2>2. QED  BY <2>1, Unseen
<1>2. CASE InvalidOrder(o) \/ PaymentDeclined(o)
  <2>1. o \notin Authorised
      BY <1>2, NoneAssumption DEF InvalidOrder, PaymentDeclined, OrdersInv, PaymentInv,
                  HandlerInv, Authorised, Calls
  <2>2. PICK end \in {"declined", "invalid"} : GoTo(o, end)
      BY <1>2 DEF InvalidOrder, PaymentDeclined
  <2>3. UNCHANGED <<verdict, taken>> /\ pc[o] \in {"new"} \cup Waits
      BY <1>2 DEF InvalidOrder, PaymentDeclined, Waits, Calls
  <2>4. Promise!Answer(o, "refused")
      BY <2>2, <2>3, Seen DEF Answers
  <2>5. QED  BY <2>1, <2>4 DEF Promise!Refuse, Promise!Next
<1>3. CASE SaveOrder(o)
  <2>1. o \in Authorised \cap taken
      BY <1>3 DEF SaveOrder, OrdersInv, ShipmentInv, Authorised
  <2>2. Promise!Answer(o, "placed")
      BY <1>3, Seen DEF SaveOrder, Answers, Waits
  <2>3. QED  BY <2>1, <2>2 DEF Promise!Place, Promise!Next
<1>4. CASE NoCustomerId(o) \/ SaveFails(o) \/ CallThrows(o) \/ Timeout(o) \/ Crash(o)
  <2>1. Promise!Answer(o, "failed")
      BY <1>4, Seen DEF NoCustomerId, SaveFails, CallThrows, Timeout, Crash, Waiting,
                        Running, Answers, Waits, Calls
  <2>2. QED  BY <2>1 DEF Promise!GiveUp, Promise!Next
<1>5. CASE ServePayment(o)
  <2>1. verdict[o] = None /\ pc[o] \notin {"created", "declined", "invalid"}
      BY <1>5, NoneAssumption DEF ServePayment, OrdersInv, PaymentInv, ShipmentInv,
                  HandlerInv, Calls
  <2>2. Outcomes' = Outcomes /\ Outcomes[o] \in {"open", "failed"} /\ UNCHANGED taken
      BY <1>5, <2>1 DEF ServePayment, Outcomes, Outcome
  <2>3. CASE verdict'[o] = "authorised"
    <3>1. Authorised' = Authorised \cup {o} /\ o \notin Authorised
        BY <1>5, <2>1, <2>3, NoneAssumption DEF ServePayment, Authorised, OrdersInv, TypeOK
    <3>2. QED  BY <2>2, <3>1 DEF Promise!Charge, Promise!Undecided, Promise!Next, Outcomes
  <2>4. CASE verdict'[o] # "authorised"
    <3>1. Authorised' = Authorised
        BY <1>5, <2>1, <2>4, NoneAssumption DEF ServePayment, Authorised, OrdersInv, TypeOK
    <3>2. QED  BY <2>2, <3>1 DEF Promise!outcomeVars, Outcomes
  <2>5. QED  BY <2>3, <2>4
<1>6. CASE ServeShipment(o)
  <2>1. /\ o \in Authorised /\ o \notin taken
        /\ pc[o] \notin {"created", "declined", "invalid"}
      BY <1>6 DEF ServeShipment, OrdersInv, ShipmentInv, HandlerInv, Authorised, Calls
  <2>2. Outcomes' = Outcomes /\ Outcomes[o] \in {"open", "failed"}
      BY <1>6, <2>1 DEF ServeShipment, Outcomes, Outcome
  <2>3. taken' = taken \cup {o} /\ Authorised' = Authorised
      BY <1>6 DEF ServeShipment, Authorised
  <2>4. QED  BY <2>1, <2>2, <2>3 DEF Promise!Ship, Promise!Undecided, Promise!Next, Outcomes
<1>7. CASE \/ \E c \in Reads : ServeRead(o, c)
           \/ \E c \in Calls : Respond(o, c) \/ LoseCall(o, c)
  <2>1. UNCHANGED <<pc, verdict, taken>>
      BY <1>7 DEF ServeRead, Respond, LoseCall
  <2>2. QED  BY <2>1, Unseen
<1>8. QED  BY <1>1, <1>2, <1>3, <1>4, <1>5, <1>6, <1>7 DEF Step, Handler, Network

\* The orders service implements OrderOutcome: what is placed was charged and
\* taken by shipping, what is refused never is, nothing is charged twice.
THEOREM OutcomePromised == Spec => PromiseKept
<1>1. ASSUME OrdersInv, [Next]_vars
      PROVE  [Promise!Next]_(Promise!outcomeVars)
  <2>1. CASE UNCHANGED vars \/ Quiesce
    <3>1. UNCHANGED <<pc, verdict, taken>>
        BY <2>1 DEF Quiesce, vars
    <3>2. Outcomes' = Outcomes /\ Authorised' = Authorised
        BY <3>1 DEF Outcomes, Outcome, Authorised
    <3>3. QED  BY <3>1, <3>2 DEF Promise!outcomeVars, Outcomes
  <2>2. CASE \E o \in Orders : Step(o) \/ ServeShipment(o)
      BY <2>2, <1>1, RefinesStep
  <2>3. QED  BY <1>1, <2>1, <2>2 DEF Next
<1>2. QED  BY <1>1, RefinesInit, Invariance, PTL DEF Spec, PromiseKept, Promise!Spec

-----------------------------------------------------------------------------
(* The queue *)

\* A published message is at the end of the queue.
LEMMA AppendRange ==
    ASSUME NEW S, NEW q \in Seq(S), NEW e \in S
    PROVE  /\ Append(q, e) \in Seq(S)
           /\ Range(Append(q, e)) = Range(q) \cup {e}
           /\ IsInjective(q) /\ e \notin Range(q) => IsInjective(Append(q, e))
<1>1. /\ Append(q, e) \in Seq(S)
      /\ Len(q) \in Nat
      /\ DOMAIN q = 1..Len(q)
      /\ DOMAIN Append(q, e) = 1..(Len(q) + 1)
      /\ \A k \in 1..Len(q) : Append(q, e)[k] = q[k]
      /\ Append(q, e)[Len(q) + 1] = e
    OBVIOUS
<1>2. Range(Append(q, e)) = Range(q) \cup {e}
    BY <1>1 DEF Range
<1>3. IsInjective(q) /\ e \notin Range(q) => IsInjective(Append(q, e))
    BY <1>1 DEF Range, IsInjective
<1>4. QED  BY <1>1, <1>2, <1>3

\* A message that is delivered again is at its head.
LEMMA PushRange ==
    ASSUME NEW S, NEW q \in Seq(S), NEW e \in S
    PROVE  /\ <<e>> \o q \in Seq(S)
           /\ Range(<<e>> \o q) = Range(q) \cup {e}
           /\ IsInjective(q) /\ e \notin Range(q) => IsInjective(<<e>> \o q)
<1> DEFINE p == <<e>> \o q
<1>1. /\ p \in Seq(S)
      /\ Len(q) \in Nat
      /\ DOMAIN q = 1..Len(q)
      /\ DOMAIN p = 1..(Len(q) + 1)
      /\ p[1] = e
      /\ \A k \in 1..Len(q) : p[k + 1] = q[k]
    OBVIOUS
<1>2. \A k \in 2..(Len(q) + 1) : k - 1 \in 1..Len(q) /\ p[k] = q[k - 1]
    BY <1>1
<1> HIDE DEF p
<1>3. Range(p) = Range(q) \cup {e}
  <2>1. Range(p) \subseteq Range(q) \cup {e}
    <3>1. ASSUME NEW k \in DOMAIN p  PROVE  p[k] \in Range(q) \cup {e}
      <4>1. CASE k = 1
          BY <1>1, <4>1
      <4>2. CASE k \in 2..(Len(q) + 1)
        <5>1. k - 1 \in DOMAIN q /\ p[k] = q[k - 1]
            BY <1>1, <1>2, <4>2
        <5>2. QED  BY <5>1 DEF Range
      <4>3. k = 1 \/ k \in 2..(Len(q) + 1)
          BY <1>1
      <4>4. QED  BY <4>1, <4>2, <4>3
    <3>2. QED  BY <3>1 DEF Range
  <2>2. e \in Range(p)
      BY <1>1 DEF Range
  <2>3. Range(q) \subseteq Range(p)
    <3>1. \A k \in 1..Len(q) : k + 1 \in DOMAIN p /\ p[k + 1] = q[k]
        BY <1>1
    <3>2. QED  BY <1>1, <3>1 DEF Range
  <2>4. QED  BY <2>1, <2>2, <2>3
<1>4. ASSUME IsInjective(q), e \notin Range(q)
      PROVE  IsInjective(p)
  <2>1. \A k \in 2..(Len(q) + 1) : p[k] \in Range(q)
      BY <1>1, <1>2 DEF Range
  <2>2. ASSUME NEW j \in 2..(Len(q) + 1), NEW k \in 2..(Len(q) + 1), p[j] = p[k]
        PROVE  j = k
    <3>1. j - 1 \in DOMAIN q /\ k - 1 \in DOMAIN q /\ q[j - 1] = q[k - 1]
        BY <1>1, <1>2, <2>2
    <3>2. j - 1 = k - 1
        BY <1>4, <3>1 DEF IsInjective
    <3>3. QED  BY <3>2
  <2>3. \A k \in 1..(Len(q) + 1) : k = 1 \/ k \in 2..(Len(q) + 1)
      BY <1>1
  <2>4. QED  BY <1>1, <1>4, <2>1, <2>2, <2>3 DEF IsInjective
<1>5. QED  BY <1>1, <1>3, <1>4 DEF p

\* The message that is delivered is taken from the head, and was there once.
LEMMA PopRange ==
    ASSUME NEW S, NEW q \in Seq(S), q # <<>>
    PROVE  /\ Tail(q) \in Seq(S) /\ Head(q) \in S
           /\ Range(q) = Range(Tail(q)) \cup {Head(q)}
           /\ IsInjective(q) => IsInjective(Tail(q)) /\ Head(q) \notin Range(Tail(q))
<1>1. /\ Tail(q) \in Seq(S) /\ Head(q) \in S
      /\ Len(q) \in Nat \ {0}
      /\ DOMAIN q = 1..Len(q)
      /\ DOMAIN Tail(q) = 1..(Len(q) - 1)
      /\ Head(q) = q[1]
      /\ \A k \in 1..(Len(q) - 1) : Tail(q)[k] = q[k + 1]
    OBVIOUS
<1>2. Range(q) = Range(Tail(q)) \cup {Head(q)}
  <2>1. \A k \in 2..Len(q) : k - 1 \in 1..(Len(q) - 1) /\ Tail(q)[k - 1] = q[k]
      BY <1>1
  <2>2. Range(q) \subseteq Range(Tail(q)) \cup {Head(q)}
    <3>1. ASSUME NEW k \in 1..Len(q)  PROVE  q[k] \in Range(Tail(q)) \cup {Head(q)}
      <4>1. CASE k = 1
          BY <1>1, <4>1
      <4>2. CASE k \in 2..Len(q)
        <5>1. k - 1 \in DOMAIN Tail(q) /\ Tail(q)[k - 1] = q[k]
            BY <1>1, <2>1, <4>2
        <5>2. QED  BY <5>1 DEF Range
      <4>3. QED  BY <1>1, <4>1, <4>2
    <3>2. QED  BY <1>1, <3>1 DEF Range
  <2>3. Head(q) \in Range(q)
      BY <1>1 DEF Range
  <2>4. \A k \in 1..(Len(q) - 1) : k + 1 \in DOMAIN q /\ Tail(q)[k] = q[k + 1]
      BY <1>1
  <2>5. Range(Tail(q)) \subseteq Range(q)
      BY <1>1, <2>4 DEF Range
  <2>6. QED  BY <2>2, <2>3, <2>5
<1>3. IsInjective(q) => IsInjective(Tail(q)) /\ Head(q) \notin Range(Tail(q))
    BY <1>1 DEF Range, IsInjective
<1>4. QED  BY <1>1, <1>2, <1>3

-----------------------------------------------------------------------------
(* The steps *)

\* A new shipment is in no other place; if the broker does not get it, in none.
LEMMA PostKeeps ==
    ASSUME ShippingInv, NEW s \in Shipments \ accepted, PostShipping(s)
    PROVE  ShippingInv'
<1> USE ShippingAssumption DEF ShippingInv, PostShipping
<1>1. queue \in Seq(Shipments) /\ s \notin Range(queue) /\ s \notin InDelivery
    BY DEF ShippingTypeOK, HandledInv, Queued
<1>2. /\ queue' \in Seq(Shipments)
      /\ IsInjective(queue) => IsInjective(queue')
      /\ \/ Range(queue') = Range(queue) \cup {s} /\ up /\ dropped' = dropped
         \/ Range(queue') = Range(queue) /\ dropped' = dropped \cup {s}
  <2>1. CASE up /\ queue' = Append(queue, s) /\ UNCHANGED dropped
      BY <1>1, <2>1, AppendRange
  <2>2. CASE dropped' = dropped \cup {s} /\ UNCHANGED queue
      BY <1>1, <2>2
  <2>3. QED  BY <2>1, <2>2
<1>3. InDelivery' = InDelivery
    BY DEF InDelivery
<1>4. ShippingTypeOK'
    BY <1>2, <1>3 DEF ShippingTypeOK, Queued
<1>5. OnePlace'
    BY <1>1, <1>2, <1>3 DEF OnePlace
<1>6. HandledInv'
  <2>1. handled[s] = 0 /\ kills \in Nat
      BY DEF HandledInv, ShippingTypeOK
  <2>2. Queued' \subseteq Queued \cup {s}
      BY <1>2, <1>3 DEF Queued
  <2>3. QED  BY <2>1, <2>2 DEF HandledInv
<1>7. LostForGood'
  <2>1. s \notin dropped /\ s \notin Queued /\ handled[s] = 0
      BY <1>1 DEF LostForGood, HandledInv, Queued
  <2>2. QED  BY <1>2, <1>3, <2>1 DEF LostForGood, Queued
<1>8. AccountedFor'
    BY <1>2, <1>3 DEF AccountedFor, Queued
<1>9. QED  BY <1>4, <1>5, <1>6, <1>7, <1>8

\* A message goes from the head of the queue to a consumer: it stays queued.
LEMMA DeliverKeeps ==
    ASSUME ShippingInv, NEW k \in Consumers, Deliver(k)
    PROVE  ShippingInv'
<1> USE ShippingAssumption DEF ShippingInv, Deliver
<1> DEFINE s == Head(queue)
<1>1. /\ queue' \in Seq(Shipments) /\ s \in Shipments
      /\ Range(queue) = Range(queue') \cup {s}
      /\ IsInjective(queue) => IsInjective(queue') /\ s \notin Range(queue')
    BY PopRange DEF ShippingTypeOK
<1>2. /\ delivery' \in [Consumers -> Shipments \cup {NoDelivery}]
      /\ delivery'[k] = s /\ s # NoDelivery
      /\ \A l \in Consumers \ {k} : delivery'[l] = delivery[l]
    BY <1>1 DEF ShippingTypeOK
<1>3. InDelivery' = InDelivery \cup {s}
    BY <1>2 DEF InDelivery
<1>4. Queued' = Queued
    BY <1>1, <1>3 DEF Queued
<1>5. ShippingTypeOK'
    BY <1>1, <1>2, <1>4 DEF ShippingTypeOK
<1>6. OnePlace'
  <2>1. s \notin InDelivery /\ s \notin Range(queue')
      BY <1>1 DEF OnePlace
  <2>2. \A l \in Consumers : delivery[l] # s
      BY <1>2, <2>1 DEF InDelivery
  <2>3. QED  BY <1>1, <1>2, <1>3, <2>1, <2>2 DEF OnePlace
<1>7. HandledInv'
    BY <1>4 DEF HandledInv
<1>8. LostForGood'
    BY <1>4 DEF LostForGood
<1>9. AccountedFor'
    BY <1>4 DEF AccountedFor
<1>10. QED  BY <1>5, <1>6, <1>7, <1>8, <1>9

\* A consumer gives its shipment away: nobody else has it.
LEMMA Released ==
    ASSUME ShippingTypeOK, OnePlace, NEW k \in Consumers, delivery[k] # NoDelivery,
           delivery' = [delivery EXCEPT ![k] = NoDelivery]
    PROVE  /\ delivery[k] \in Shipments \cap InDelivery
           /\ delivery' \in [Consumers -> Shipments \cup {NoDelivery}]
           /\ InDelivery' = InDelivery \ {delivery[k]}
           /\ \A l, m \in Consumers :
                  delivery'[l] = delivery'[m] /\ delivery'[l] # NoDelivery => l = m
<1>1. /\ delivery \in [Consumers -> Shipments \cup {NoDelivery}]
      /\ delivery'[k] = NoDelivery
      /\ \A l \in Consumers \ {k} : delivery'[l] = delivery[l]
    BY DEF ShippingTypeOK
<1>2. \A l \in Consumers \ {k} : delivery[l] # delivery[k]
    BY DEF OnePlace
<1>3. InDelivery' = InDelivery \ {delivery[k]}
    BY <1>1, <1>2 DEF InDelivery
<1>4. QED  BY <1>1, <1>3 DEF InDelivery, OnePlace

\* A shipment that is handled and acknowledged is queued no more.
LEMMA HandleKeeps ==
    ASSUME ShippingInv, NEW k \in Consumers, HandleMessage(k)
    PROVE  ShippingInv'
<1> USE ShippingAssumption DEF ShippingInv, HandleMessage
<1> DEFINE s == delivery[k]
<1>1. /\ s \in Shipments \cap InDelivery
      /\ delivery' \in [Consumers -> Shipments \cup {NoDelivery}]
      /\ InDelivery' = InDelivery \ {s}
      /\ \A l, m \in Consumers :
             delivery'[l] = delivery'[m] /\ delivery'[l] # NoDelivery => l = m
    BY Released
<1>2. /\ handled \in [Shipments -> Nat] /\ handled' \in [Shipments -> Nat]
      /\ handled'[s] = handled[s] + 1
      /\ \A r \in Shipments \ {s} : handled'[r] = handled[r]
    BY <1>1 DEF ShippingTypeOK
<1>3. s \notin Range(queue) /\ Queued' = Queued \ {s}
    BY <1>1 DEF OnePlace, Queued
<1>4. ShippingTypeOK'
    BY <1>1, <1>2, <1>3 DEF ShippingTypeOK
<1>5. OnePlace'
    BY <1>1 DEF OnePlace
<1>6. HandledInv'
    BY <1>1, <1>2, <1>3 DEF HandledInv, Queued, ShippingTypeOK
<1>7. LostForGood'
    BY <1>1, <1>2, <1>3 DEF LostForGood, Queued, ShippingTypeOK
<1>8. AccountedFor'
  <2>1. ASSUME NEW r \in accepted, r \in Shipments
        PROVE  r \in Queued' \/ handled'[r] > 0 \/ r \in dropped
    <3>1. CASE r = s
        BY <1>2, <3>1
    <3>2. CASE r # s
        BY <1>2, <1>3, <2>1, <3>2 DEF AccountedFor
    <3>3. QED  BY <3>1, <3>2
  <2>2. accepted \subseteq Shipments
      BY DEF ShippingTypeOK
  <2>3. QED  BY <2>1, <2>2 DEF AccountedFor
<1>9. QED  BY <1>4, <1>5, <1>6, <1>7, <1>8

\* A dead consumer's shipment is queued again, handled at the cost of one death.
LEMMA KillKeeps ==
    ASSUME ShippingInv, NEW k \in Consumers, KillConsumer(k)
    PROVE  ShippingInv'
<1> USE ShippingAssumption DEF ShippingInv, KillConsumer
<1> DEFINE s == delivery[k]
<1>1. /\ s \in Shipments \cap InDelivery
      /\ delivery' \in [Consumers -> Shipments \cup {NoDelivery}]
      /\ InDelivery' = InDelivery \ {s}
      /\ \A l, m \in Consumers :
             delivery'[l] = delivery'[m] /\ delivery'[l] # NoDelivery => l = m
    BY Released
<1>2. /\ handled \in [Shipments -> Nat] /\ handled' \in [Shipments -> Nat]
      /\ handled'[s] \in {handled[s], handled[s] + 1}
      /\ \A r \in Shipments \ {s} : handled'[r] = handled[r]
    BY <1>1 DEF ShippingTypeOK
<1>3. s \notin Range(queue)
    BY <1>1 DEF OnePlace
<1>4. /\ queue' \in Seq(Shipments)
      /\ Range(queue') = Range(queue) \cup {s}
      /\ IsInjective(queue')
    BY <1>1, <1>3, PushRange DEF ShippingTypeOK, OnePlace
<1>5. Queued' = Queued
    BY <1>1, <1>4 DEF Queued
<1>6. ShippingTypeOK'
    BY <1>1, <1>2, <1>4, <1>5 DEF ShippingTypeOK, Queued
<1>7. OnePlace'
    BY <1>1, <1>4 DEF OnePlace
<1>8. HandledInv'
  <2>1. s \in Queued /\ s \in accepted /\ kills \in Nat
      BY <1>1 DEF Queued, HandledInv, ShippingTypeOK
  <2>2. ASSUME NEW r \in Shipments
        PROVE  /\ r \in Queued => handled'[r] <= kills'
               /\ handled'[r] <= 1 + kills'
               /\ r \notin accepted => handled'[r] = 0
    <3>1. CASE r = s
        BY <1>2, <2>1, <3>1 DEF HandledInv
    <3>2. CASE r # s
        BY <1>2, <2>1, <3>2 DEF HandledInv
    <3>3. QED  BY <3>1, <3>2
  <2>3. QED  BY <1>5, <2>2 DEF HandledInv
<1>9. LostForGood'
  <2>1. \A r \in dropped : r \in Shipments \ {s} /\ r \notin Queued /\ handled[r] = 0
      BY <1>1 DEF LostForGood, Queued, ShippingTypeOK
  <2>2. \A r \in dropped : r \notin Queued' /\ handled'[r] = 0
      BY <1>2, <1>5, <2>1
  <2>3. dropped' = dropped /\ accepted' = accepted /\ dropped \subseteq accepted
      BY DEF LostForGood
  <2>4. QED  BY <2>2, <2>3 DEF LostForGood
<1>10. AccountedFor'
  <2>1. ASSUME NEW r \in accepted
        PROVE  r \in Queued \/ handled'[r] > 0 \/ r \in dropped
    <3>1. r \in Shipments
        BY DEF ShippingTypeOK
    <3>2. handled'[r] >= handled[r]
        BY <1>2, <3>1
    <3>3. QED  BY <1>2, <3>1, <3>2 DEF AccountedFor
  <2>2. QED  BY <1>5, <2>1 DEF AccountedFor
<1>11. QED  BY <1>6, <1>7, <1>8, <1>9, <1>10

\* What was queued is lost, unless its handler was running and has finished.
LEMMA CrashBrokerKeeps ==
    ASSUME ShippingInv, CrashBroker
    PROVE  ShippingInv'
<1> USE ShippingAssumption DEF ShippingInv
<1>1. PICK done \in SUBSET {k \in Consumers : delivery[k] # NoDelivery} :
          LET finished == {delivery[k] : k \in done}
          IN  /\ handled' = [s \in Shipments |->
                                IF s \in finished THEN handled[s] + 1 ELSE handled[s]]
              /\ dropped' = dropped \cup {s \in Queued : handled'[s] = 0}
    BY DEF CrashBroker
<1> DEFINE finished == {delivery[k] : k \in done}
<1>2. finished \subseteq Queued
    BY DEF Queued, InDelivery
<1> HIDE DEF finished
<1>3. /\ handled \in [Shipments -> Nat] /\ handled' \in [Shipments -> Nat]
      /\ \A s \in Shipments :
             handled'[s] = IF s \in finished THEN handled[s] + 1 ELSE handled[s]
    BY <1>1 DEF ShippingTypeOK, finished
<1>4. /\ up' = FALSE /\ crashes' = crashes + 1 /\ crashes < MaxBrokerCrashes
      /\ UNCHANGED <<accepted, kills>>
      /\ queue' = <<>> /\ delivery' = [k \in Consumers |-> NoDelivery]
      /\ dropped' = dropped \cup {s \in Queued : handled'[s] = 0}
    BY <1>1 DEF CrashBroker
<1>5. Range(queue') = {} /\ InDelivery' = {} /\ Queued' = {}
    BY <1>4 DEF Range, InDelivery, Queued
<1>6. Queued \subseteq accepted /\ accepted \subseteq Shipments
    BY DEF HandledInv, ShippingTypeOK
<1>7. ShippingTypeOK'
  <2>1. queue' \in Seq(Shipments)
      BY <1>4
  <2>2. delivery' \in [Consumers -> Shipments \cup {NoDelivery}]
      BY <1>4
  <2>3. accepted' \subseteq Shipments /\ dropped' \subseteq Shipments
      BY <1>4, <1>6 DEF ShippingTypeOK
  <2>4. crashes' \in 0..MaxBrokerCrashes /\ kills' \in 0..MaxKills
      BY <1>4 DEF ShippingTypeOK
  <2>5. QED  BY <1>3, <1>4, <1>5, <2>1, <2>2, <2>3, <2>4 DEF ShippingTypeOK
<1>8. OnePlace'
    BY <1>4, <1>5 DEF OnePlace, IsInjective
<1>9. HandledInv'
  <2>1. kills \in Nat
      BY DEF ShippingTypeOK
  <2>2. ASSUME NEW s \in Shipments
        PROVE  handled'[s] <= 1 + kills /\ (s \notin accepted => handled'[s] = 0)
    <3>1. CASE s \in finished
        BY <1>2, <1>3, <1>6, <2>1, <3>1 DEF HandledInv
    <3>2. CASE s \notin finished
        BY <1>3, <2>1, <3>2 DEF HandledInv
    <3>3. QED  BY <3>1, <3>2
  <2>3. QED  BY <1>4, <1>5, <2>2 DEF HandledInv
<1>10. LostForGood'
    BY <1>2, <1>3, <1>4, <1>5, <1>6 DEF LostForGood, ShippingTypeOK
<1>11. AccountedFor'
  <2>1. ASSUME NEW s \in accepted
        PROVE  handled'[s] > 0 \/ s \in dropped'
    <3>1. s \in Shipments /\ handled'[s] \in Nat /\ handled[s] \in Nat
        BY <1>3, <1>6
    <3>2. handled'[s] >= handled[s]
        BY <1>3, <3>1
    <3>3. CASE s \in Queued
        BY <1>4, <3>1, <3>3
    <3>4. CASE s \notin Queued
        BY <1>4, <3>1, <3>2, <3>4 DEF AccountedFor
    <3>5. QED  BY <3>3, <3>4
  <2>2. QED  BY <1>4, <2>1 DEF AccountedFor
<1>12. QED  BY <1>7, <1>8, <1>9, <1>10, <1>11

\* A broker that restarts has an empty queue.
LEMMA RestartKeeps ==
    ASSUME ShippingInv, RestartBroker
    PROVE  ShippingInv'
BY DEF ShippingInv, RestartBroker, ShippingTypeOK, OnePlace, HandledInv, LostForGood,
       AccountedFor, Queued, InDelivery

-----------------------------------------------------------------------------
(* The whole service *)

\* Before any shipment there is nothing to account for.
LEMMA ShippingInitInv == ShippingInit => ShippingInv
BY ShippingAssumption DEF ShippingInit, ShippingInv, ShippingTypeOK, OnePlace,
       HandledInv, LostForGood, AccountedFor, Queued, InDelivery, Range, IsInjective

\* The broker and the consumers keep ShippingInv, whoever posts the shipments.
LEMMA BrokerAndConsumersKeep ==
    ASSUME ShippingInv, BrokerAndConsumers
    PROVE  ShippingInv'
BY DeliverKeeps, HandleKeeps, KillKeeps, CrashBrokerKeeps, RestartKeeps
   DEF BrokerAndConsumers, Consume

\* A step that touches nothing of shipping keeps ShippingInv.
LEMMA ShippingStutters ==
    ASSUME ShippingInv, UNCHANGED shippingVars
    PROVE  ShippingInv'
<1>1. Queued' = Queued /\ InDelivery' = InDelivery
    <2>1. queue' = queue /\ delivery' = delivery
        BY DEF shippingVars
    <2>2. Range(queue') = Range(queue)
        BY <2>1 DEF Range
    <2>3. QED  BY <2>1, <2>2, Zenon DEF Queued, InDelivery
<1>2. ShippingTypeOK' /\ OnePlace'
    <2>1. /\ up' = up /\ queue' = queue /\ delivery' = delivery /\ accepted' = accepted
          /\ dropped' = dropped /\ handled' = handled /\ crashes' = crashes /\ kills' = kills
        BY DEF shippingVars
    <2>2. ShippingTypeOK'
        BY <1>1, <2>1 DEF ShippingInv, ShippingTypeOK
    <2>3. OnePlace'
        BY <1>1, <2>1, Zenon DEF ShippingInv, OnePlace, IsInjective
    <2>4. QED  BY <2>2, <2>3
<1>3. HandledInv' /\ LostForGood' /\ AccountedFor'
    BY <1>1 DEF shippingVars, ShippingInv, HandledInv, LostForGood, AccountedFor
<1>4. QED  BY <1>2, <1>3 DEF ShippingInv

\* ShippingInv holds in every state of every run of the service.
THEOREM ShippingInvariance == ShippingSpec => []ShippingInv
<1>1. ShippingInv /\ [ShippingNext]_shippingVars => ShippingInv'
  <2> SUFFICES ASSUME ShippingInv, [ShippingNext]_shippingVars
               PROVE  ShippingInv'
      OBVIOUS
  <2>1. CASE \E s \in Shipments \ accepted : PostShipping(s)
      BY <2>1, PostKeeps
  <2>2. CASE BrokerAndConsumers
      BY <2>2, BrokerAndConsumersKeep
  <2>3. CASE Dispatched \/ UNCHANGED shippingVars
      BY <2>3, ShippingStutters DEF Dispatched
  <2>4. QED  BY <2>1, <2>2, <2>3 DEF ShippingNext
<1>2. QED  BY <1>1, ShippingInitInv, PTL DEF ShippingSpec

\* Every accepted shipment is queued, or handled, or lost.
THEOREM ShipmentsAccountedFor == ShippingSpec => []AccountedFor
<1>1. ShippingInv => AccountedFor
    BY DEF ShippingInv
<1>2. QED  BY <1>1, ShippingInvariance, PTL

\* Nothing is handled more often than once and once for each dead consumer.
THEOREM RedeliveryBounded == ShippingSpec => []HandledAgainOnlyAfterKill
<1>1. ShippingInv => HandledAgainOnlyAfterKill
    BY DEF ShippingInv, HandledInv, HandledAgainOnlyAfterKill
<1>2. QED  BY <1>1, ShippingInvariance, PTL

\* What was lost is neither queued nor ever handled, and was answered with 201.
THEOREM LossIsFinal == ShippingSpec => []LostForGood
<1>1. ShippingInv => LostForGood
    BY DEF ShippingInv
<1>2. QED  BY <1>1, ShippingInvariance, PTL

-----------------------------------------------------------------------------
(* The two together *)

\* Nothing is ordered, nothing shipped.
LEMMA FulfilmentInitInv == FulfilmentInit => FulfilmentInv
<1> SUFFICES ASSUME FulfilmentInit
             PROVE  FulfilmentInv
    OBVIOUS
<1>1. OrdersInv /\ ShippingInv
    BY InitInv, ShippingInitInv DEF FulfilmentInit
<1>2. accepted = taken
    BY DEF FulfilmentInit, Init, ShippingInit
<1>3. QED  BY <1>1, <1>2 DEF FulfilmentInv

\* A step of the orders service other than the posting takes no shipment.
LEMMA StepTakesNothing ==
    ASSUME NEW o \in Orders, Step(o)
    PROVE  UNCHANGED taken
BY DEF Step, Handler, Network, NewOrder, InvalidOrder, GotRead, RequestPayment,
       PaymentDeclined, PaymentAuthorised, NoCustomerId, GotShipment, SaveOrder,
       SaveFails, CallThrows, Timeout, Crash, ServeRead, ServePayment, Respond, LoseCall

\* Only a posting makes shipping accept anything.
LEMMA BrokerAcceptsNothing ==
    ASSUME BrokerAndConsumers
    PROVE  UNCHANGED accepted
BY DEF BrokerAndConsumers, Consume, Deliver, HandleMessage, KillConsumer, CrashBroker,
       RestartBroker

\* Each step keeps the invariants of both parts and what joins them.
LEMMA FulfilmentNextInv == FulfilmentInv /\ [FulfilmentNext]_allVars => FulfilmentInv'
<1> SUFFICES ASSUME FulfilmentInv, [FulfilmentNext]_allVars
             PROVE  FulfilmentInv'
    OBVIOUS
<1>0. OrdersInv /\ ShippingInv /\ accepted = taken
    BY DEF FulfilmentInv
<1>1. CASE OrdersStep
  <2>1. OrdersInv'
      BY <1>0, <1>1, NextInv DEF OrdersStep, Next
  <2>2. ShippingInv'
      BY <1>0, <1>1, ShippingStutters DEF OrdersStep
  <2>3. accepted' = taken'
      BY <1>0, <1>1, StepTakesNothing DEF OrdersStep, shippingVars
  <2>4. QED  BY <2>1, <2>2, <2>3 DEF FulfilmentInv
<1>2. ASSUME NEW o \in Orders, Post(o)
      PROVE  FulfilmentInv'
  <2>1. OrdersInv'
      BY <1>0, <1>2, NextInv DEF Post, Next
  <2>2. o \notin taken
      BY <1>0, <1>2 DEF Post, ServeShipment, OrdersInv, ShipmentInv
  <2>3. o \in Shipments \ accepted
      BY <1>0, <2>2, FulfilmentAssumption
  <2>4. ShippingInv'
      BY <1>0, <1>2, <2>3, PostKeeps DEF Post
  <2>5. accepted' = taken'
      BY <1>0, <1>2 DEF Post, ServeShipment, PostShipping
  <2>6. QED  BY <2>1, <2>4, <2>5 DEF FulfilmentInv
<1>3. CASE ShippingStep
  <2>1. OrdersInv'
      BY <1>0, <1>3, NextInv DEF ShippingStep
  <2>2. ShippingInv'
      BY <1>0, <1>3, BrokerAndConsumersKeep DEF ShippingStep
  <2>3. accepted' = taken'
      BY <1>0, <1>3, BrokerAcceptsNothing DEF ShippingStep, vars
  <2>4. QED  BY <2>1, <2>2, <2>3 DEF FulfilmentInv
<1>4. CASE AllQuiet \/ UNCHANGED allVars
  <2>1. UNCHANGED vars /\ UNCHANGED shippingVars
      BY <1>4 DEF AllQuiet, Quiesce, allVars
  <2>2. OrdersInv' /\ ShippingInv'
      BY <1>0, <2>1, NextInv, ShippingStutters
  <2>3. QED  BY <1>0, <2>1, <2>2 DEF FulfilmentInv, vars, shippingVars
<1>5. QED  BY <1>1, <1>2, <1>3, <1>4 DEF FulfilmentNext

\* FulfilmentInv holds in every state of every run of the two services.
THEOREM FulfilmentInvariance == FulfilmentSpec => []FulfilmentInv
BY FulfilmentInitInv, FulfilmentNextInv, PTL DEF FulfilmentSpec

\* Nothing is handled that was not paid for.
THEOREM HandledIsPaid == FulfilmentSpec => []HandledWasPaid
<1>1. FulfilmentInv => HandledWasPaid
  <2> SUFFICES ASSUME FulfilmentInv, NEW o \in Orders, handled[o] > 0
               PROVE  o \in Authorised /\ 0 < Amount(o)
      BY DEF HandledWasPaid
  <2>1. o \in taken
    <3>1. handled[o] # 0 /\ o \in Shipments
        BY FulfilmentAssumption
    <3>2. QED  BY <3>1 DEF FulfilmentInv, ShippingInv, HandledInv
  <2>2. verdict[o] = "authorised" /\ PaymentInv(o) /\ TypeOK
      BY <2>1 DEF FulfilmentInv, OrdersInv, TypeOK, ShipmentInv, Calls, Progress
  <2>3. PaymentAuth(Amount(o)) = "authorised" /\ total[o] \in Totals
      BY <2>2, NoneAssumption DEF PaymentInv
  <2>4. Amount(o) \in Int
    <3>1. total[o] \in Int
        BY <2>3, OrdersAssumption
    <3>2. QED  BY <3>1, OrdersAssumption DEF Amount
  <2>5. 0 < Amount(o)
      BY <2>3, <2>4, PaymentAssumption DEF PaymentAuth, Authorise
  <2>6. QED  BY <2>2, <2>5 DEF Authorised
<1>2. QED  BY <1>1, FulfilmentInvariance, PTL

\* A stored order is on its way, or has arrived, or was lost on its way.
THEOREM SavedOnItsWay == FulfilmentSpec => []SavedIsOnItsWay
<1>1. FulfilmentInv => SavedIsOnItsWay
  <2> SUFFICES ASSUME FulfilmentInv, NEW s \in saved
               PROVE  \/ s.order \in Queued \/ handled[s.order] > 0
                      \/ s.order \in dropped
      BY DEF SavedIsOnItsWay
  <2>1. s.order \in Orders
      BY DEF FulfilmentInv, OrdersInv, TypeOK
  <2>2. s.order \in taken
      BY <2>1 DEF FulfilmentInv, OrdersInv, StoredInv, ShipmentInv
  <2>3. QED  BY <2>2 DEF FulfilmentInv, ShippingInv, AccountedFor
<1>2. QED  BY <1>1, FulfilmentInvariance, PTL
=============================================================================
