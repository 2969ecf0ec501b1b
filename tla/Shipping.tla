------------------------------ MODULE Shipping ------------------------------
(***************************************************************************)
(* The shipping service, the broker's queue "shipping-task" and the        *)
(* queue-master that consumes it.  The shipping service accepts every      *)
(* shipment, also when it cannot be queued, whatever the reason.  The      *)
(* queue is not durable and publishing is not confirmed: what is on its    *)
(* way may be lost, and a broker that stops forgets what it holds.         *)
(* A delivery is acknowledged after handleMessage returns, so a consumer   *)
(* that dies in between has the shipment delivered again.                  *)
(***************************************************************************)
EXTENDS Naturals, Sequences, SequencesExt

CONSTANTS
    Shipments,
    Consumers,         \* replicas of queue-master
    MaxBrokerCrashes,  \* bound
    MaxKills,          \* bound: consumers that die with a delivery
    NoDelivery

ASSUME ShippingAssumption ==
    /\ NoDelivery \notin Shipments
    /\ MaxBrokerCrashes \in Nat /\ MaxKills \in Nat

VARIABLES
    up,        \* is the broker running?
    queue,     \* ready messages
    delivery,  \* the unacknowledged delivery of each consumer: prefetch is 1
    accepted,  \* the shipments answered with 201
    dropped,   \* those of them that never were in the queue, or that it forgot unhandled
    handled,   \* how often handleMessage has run for each shipment
    crashes, kills

shippingVars == <<up, queue, delivery, accepted, dropped, handled, crashes, kills>>

InDelivery == {delivery[k] : k \in Consumers} \ {NoDelivery}
Queued == Range(queue) \cup InDelivery

ShippingInit ==
    /\ up = TRUE
    /\ queue = <<>>
    /\ delivery = [k \in Consumers |-> NoDelivery]
    /\ accepted = {} /\ dropped = {}
    /\ handled = [s \in Shipments |-> 0]
    /\ crashes = 0 /\ kills = 0

\* convertAndSend, inside a catch of every exception: the shipment is queued if
\* the broker gets it (the call may fail all the same), and lost if not, because the
\* broker is down, or because its connection breaks or times out.
PostShipping(s) ==
    /\ accepted' = accepted \cup {s}
    /\ \/ up /\ queue' = Append(queue, s) /\ UNCHANGED dropped
       \/ dropped' = dropped \cup {s} /\ UNCHANGED queue
    /\ UNCHANGED <<up, delivery, handled, crashes, kills>>

\* Mutant of Deliver: messages are delivered once there are two of them.
DeliverPairs(k) ==
    /\ up /\ Len(queue) > 1 /\ delivery[k] = NoDelivery
    /\ delivery' = [delivery EXCEPT ![k] = Head(queue)]
    /\ queue' = Tail(queue)
    /\ UNCHANGED <<up, accepted, dropped, handled, crashes, kills>>

Deliver(k) ==
    /\ up /\ queue # <<>> /\ delivery[k] = NoDelivery
    /\ delivery' = [delivery EXCEPT ![k] = Head(queue)]
    /\ queue' = Tail(queue)
    /\ UNCHANGED <<up, accepted, dropped, handled, crashes, kills>>

\* Mutant of HandleMessage: the delivery is not acknowledged.
HandleUnacked(k) ==
    /\ delivery[k] # NoDelivery
    /\ handled' = [handled EXCEPT ![delivery[k]] = @ + 1]
    /\ UNCHANGED <<up, queue, delivery, accepted, dropped, crashes, kills>>

\* handleMessage returns and the delivery is acknowledged.
HandleMessage(k) ==
    /\ delivery[k] # NoDelivery
    /\ handled' = [handled EXCEPT ![delivery[k]] = @ + 1]
    /\ delivery' = [delivery EXCEPT ![k] = NoDelivery]
    /\ UNCHANGED <<up, queue, accepted, dropped, crashes, kills>>

\* Mutant of KillConsumer: deliveries are acknowledged as they are sent.
KillAcked(k) ==
    /\ delivery[k] # NoDelivery
    /\ kills < MaxKills
    /\ kills' = kills + 1
    /\ delivery' = [delivery EXCEPT ![k] = NoDelivery]
    /\ UNCHANGED <<up, queue, accepted, dropped, handled, crashes>>

\* The consumer dies, or loses its connection, before handleMessage or between
\* it and the acknowledgement: the broker puts the message back where it was.
KillConsumer(k) ==
    /\ delivery[k] # NoDelivery
    /\ kills < MaxKills
    /\ kills' = kills + 1
    /\ \/ handled' = [handled EXCEPT ![delivery[k]] = @ + 1]
       \/ UNCHANGED handled
    /\ queue' = <<delivery[k]>> \o queue
    /\ delivery' = [delivery EXCEPT ![k] = NoDelivery]
    /\ UNCHANGED <<up, accepted, dropped, crashes>>

\* Mutant of CrashBroker: the consumers keep their deliveries.
CrashQueueOnly ==
    /\ up
    /\ crashes < MaxBrokerCrashes
    /\ crashes' = crashes + 1
    /\ up' = FALSE
    /\ queue' = <<>>
    /\ dropped' = dropped \cup Range(queue)
    /\ UNCHANGED <<delivery, accepted, handled, kills>>

\* The broker stops.  A handler that is running finishes, or does not.
CrashBroker ==
    /\ up
    /\ crashes < MaxBrokerCrashes
    /\ crashes' = crashes + 1
    /\ up' = FALSE
    /\ queue' = <<>>
    /\ \E done \in SUBSET {k \in Consumers : delivery[k] # NoDelivery} :
           LET finished == {delivery[k] : k \in done}
           IN  /\ handled' = [s \in Shipments |->
                                 IF s \in finished THEN handled[s] + 1 ELSE handled[s]]
               /\ dropped' = dropped \cup {s \in Queued : handled'[s] = 0}
    /\ delivery' = [k \in Consumers |-> NoDelivery]
    /\ UNCHANGED <<accepted, kills>>

\* RabbitAdmin declares the queue again when a connection is opened.
RestartBroker ==
    /\ ~up
    /\ up' = TRUE
    /\ UNCHANGED <<queue, delivery, accepted, dropped, handled, crashes, kills>>

Consume(k) == Deliver(k) \/ HandleMessage(k)

BrokerAndConsumers ==
    \/ \E k \in Consumers : Consume(k) \/ KillConsumer(k)
    \/ CrashBroker \/ RestartBroker

\* The service by itself, each shipment posted once.
Dispatched ==
    /\ accepted = Shipments /\ up /\ Queued = {}
    /\ UNCHANGED shippingVars

ShippingNext ==
    \/ \E s \in Shipments \ accepted : PostShipping(s)
    \/ BrokerAndConsumers
    \/ Dispatched

\* A running consumer goes on consuming; the cluster restarts the broker.
ShippingFairness ==
    /\ \A k \in Consumers : WF_shippingVars(Consume(k))
    /\ WF_shippingVars(RestartBroker)

ShippingSpec == ShippingInit /\ [][ShippingNext]_shippingVars /\ ShippingFairness

-----------------------------------------------------------------------------
(* Properties *)

\* Every variable keeps its type, and a stopped broker holds nothing.
ShippingTypeOK ==
    /\ up \in BOOLEAN
    /\ queue \in Seq(Shipments)
    /\ delivery \in [Consumers -> Shipments \cup {NoDelivery}]
    /\ accepted \subseteq Shipments /\ dropped \subseteq Shipments
    /\ handled \in [Shipments -> Nat]
    /\ crashes \in 0..MaxBrokerCrashes /\ kills \in 0..MaxKills
    /\ ~up => Queued = {}

\* A shipment that was answered with 201 is waiting, or being delivered, or
\* handled, or was lost on its way to the broker or with it: there is no other way.
AccountedFor ==
    \A s \in accepted : s \in Queued \/ handled[s] > 0 \/ s \in dropped

\* The redelivery of one shipment costs the death of one consumer.
HandledAgainOnlyAfterKill == \A s \in Shipments : handled[s] <= 1 + kills

\* A shipment that was lost is lost for good: no broker that restarts, no dying
\* consumer and no handler that was running as the broker stopped brings it back,
\* and none that was handled is counted among the lost.
LostForGood ==
    /\ dropped \subseteq accepted
    /\ \A s \in dropped : s \notin Queued /\ handled[s] = 0

\* Every accepted shipment is handled, unless it was lost.
Delivered == \A s \in Shipments : s \in accepted ~> handled[s] > 0 \/ s \in dropped

-----------------------------------------------------------------------------
(* Why they hold: the inductive invariant *)

\* A shipment is at one place at a time: in the queue once, or with one consumer.
OnePlace ==
    /\ IsInjective(queue)
    /\ \A k, l \in Consumers : delivery[k] = delivery[l] /\ delivery[k] # NoDelivery => k = l
    /\ Range(queue) \cap InDelivery = {}

\* What is queued has been accepted, and was handled by consumers that died only;
\* what is not, was handled once more at most, and not at all before its time.
HandledInv ==
    /\ Queued \subseteq accepted
    /\ \A s \in Shipments :
           /\ s \in Queued => handled[s] <= kills
           /\ handled[s] <= 1 + kills
           /\ s \notin accepted => handled[s] = 0

ShippingInv == ShippingTypeOK /\ OnePlace /\ HandledInv /\ LostForGood /\ AccountedFor
=============================================================================
