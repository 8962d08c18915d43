----------------------------- MODULE Marketplace -----------------------------
(***************************************************************************)
(* Booking and payment together, from an order's creation to its charge.   *)
(* The services share nothing but the order_confirmed topic: the booking   *)
(* service's producer appends to it, the payment service's consumer group  *)
(* reads it.  The gateway's callbacks, which come after the charge and     *)
(* touch neither the orders nor the topic, are left to Payments.           *)
(***************************************************************************)
EXTENDS Orders

CONSTANTS
  Replicas, Refs, MaxLog, MaxFailures,     \* the payment service: see Payments
  Nobody, NoOrder, NoRef, NoPayment

VARIABLES committed, owner, consumer, dropped, failures, intents, payments

paymentVars == <<committed, owner, consumer, dropped, failures, intents, payments>>

\* What the payment service sees of the topic: the order of each message.
Confirmations ==
  [i \in DOMAIN topic["order_confirmed"] |-> topic["order_confirmed"][i].order]

P == INSTANCE Payments WITH
       log <- Confirmations,
       Callbacks <- {}, request <- [r \in {} |-> Waiting], sent <- {}, processed <- <<>>

\* What stands for none is none of them, as Payments assumes.
ASSUME PaymentNones ==
  Nobody \notin Replicas /\ NoOrder \notin OrderIds /\ NoPayment \notin P!Payment

MarketInit == Init /\ P!Init

BookingStep == Next /\ UNCHANGED paymentVars

PaymentStep == UNCHANGED vars /\ P!ConsumerStep

MarketNext == BookingStep \/ PaymentStep

marketVars == <<vars, paymentVars>>

\* People may ask for anything or for nothing and every part may fail, but a
\* request under way is carried on, and so is the consumer.
MarketFairness ==
  /\ \A r \in Requests : WF_marketVars(Handle(r) /\ UNCHANGED paymentVars)
  /\ \A k \in Replicas : /\ WF_marketVars(UNCHANGED vars /\ P!Consume(k))
                         /\ WF_marketVars(UNCHANGED vars /\ P!Leave(k))
  /\ WF_marketVars(/\ UNCHANGED vars
                   /\ owner = Nobody
                   /\ \E k \in Replicas : P!Assign(k))

MarketSpec == MarketInit /\ [][MarketNext]_marketVars /\ MarketFairness

\* The order has its payment.
Charged(o) == P!PaymentsOf(o) # {}

\* No confirmation of the order is in the topic and no request has one to send:
\* the producer was down, or the replica went away with the confirmation saved.
Unannounced(o) ==
  /\ \A i \in DOMAIN Confirmations : Confirmations[i] # o
  /\ \A r \in Requests :
       request[r].phase \in Busy => request[r].entity.status # "CONFIRMED"

\* The payment service gave up a confirmation of the order.
GivenUp(o) == \E i \in dropped : Confirmations[i] = o

-----------------------------------------------------------------------------
\* Nobody is charged for a service its two parties did not agree on, whatever
\* the services overwrite, repeat or lose: a payment for an order exists only
\* if its provider confirmed the date its client asked for, or its client
\* accepted a date its provider proposed (updateStatus's checks, which the
\* payment service takes on trust).
ChargeHasConsent ==
  \A ref \in Refs : payments[ref] # NoPayment => BothAgreed(payments[ref].order)

\* Every confirmed order is charged, unless the booking service never got to
\* announce it or the payment service met an error and gave it up; a later
\* cancellation does not stop the charge.
ConfirmedIsChargedOrLost ==
  \A o \in OrderIds :
    (orders[o] # NoRow /\ orders[o].status = "CONFIRMED")
      ~> (Charged(o) \/ Unannounced(o) \/ GivenUp(o))
=============================================================================
