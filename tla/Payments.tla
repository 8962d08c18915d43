------------------------------ MODULE Payments ------------------------------
(***************************************************************************)
(* The payment service: the order_confirmed consumer (PaymentsConsumer,    *)
(* handleOrderConfirmed) and the gateway's callbacks (POST                 *)
(* /payments/webhook, POST /payments/:id/pay, applyGatewayEvent).          *)
(*                                                                         *)
(* Up to four replicas share one Kafka consumer group and one database.    *)
(* A replica reads the partition from the committed offset on:             *)
(*                                                                         *)
(*   out -> ready -> (findOne) -> intent -> (createPaymentIntent)          *)
(*                -> insert -> (repo.save) -> ready, at the next offset    *)
(*                                                                         *)
(* and an error on the way is swallowed, so the message is given up.  A    *)
(* replica the broker has already replaced goes on until it notices; only  *)
(* the broker's owner can commit.  A callback is an async handler:         *)
(*                                                                         *)
(*   waiting -> apply -> (findOne, terminal check, edit) -> select         *)
(*           -> update -> emit -> done                                     *)
(*                                                                         *)
(* with select and update the two statements of repo.save.  Abstracted:    *)
(* amounts, currency, client and provider, copied and never compared; the  *)
(* signature, since a callback that does not verify changes nothing.       *)
(***************************************************************************)
EXTENDS Sequences, Naturals

CONSTANTS
  OrderIds,     \* the orders the booking service confirms
  Replicas,     \* replicas of the service whose consumer has started
  Refs,         \* the PaymentIntent ids the gateway may draw
  Callbacks,    \* the webhook and pay requests that ever arrive
  MaxLog,       \* bound: messages ever published to order_confirmed
  MaxFailures,  \* bound: crashes, swallowed errors and rebalances
  Nobody,       \* the partition has no owner
  NoOrder,      \* the intent does not exist
  NoRef,        \* no intent yet
  NoPayment     \* findOne's null

ASSUME BoundsAssumption == MaxLog \in Nat /\ MaxFailures \in Nat
ASSUME NoneAssumption ==
  Nobody \notin Replicas /\ NoOrder \notin OrderIds /\ NoRef \notin Refs

Outcomes == {"succeeded", "failed"}
Terminal == {"PAID", "FAILED"}
PaymentStatus == Terminal \cup {"REQUIRES_PAYMENT"}

\* A row of the payments table; its primary key is as good as its providerRef.
Payment == [order: OrderIds, status: PaymentStatus, reason: {"none", "declined"}]

ASSUME NoPaymentAssumption == NoPayment \notin Payment

\* The columns a callback may change.
Column == {"status", "reason"}

\* What the gateway tells the service about an intent.
GatewayEvent == [ref: Refs, order: OrderIds, outcome: Outcomes]

\* The payload of payment_processed.
Processed == [order: OrderIds, payment: Refs, status: Terminal]

VARIABLES
  log,        \* the order_confirmed partition, oldest first
  committed,  \* the group's committed offset: messages it will not see again
  owner,      \* the replica the broker has given the partition to
  consumer,   \* where each replica's consumer stands
  dropped,    \* history: positions the owner gave up after an error
  failures,   \* crashes, swallowed errors and rebalances so far
  intents,    \* the gateway's PaymentIntents: the order each was drawn for
  payments,   \* the payments table, by providerRef
  sent,       \* what the gateway has reported
  request,    \* where each callback stands
  processed   \* the payment_processed log

feed == <<log, committed, owner, consumer, dropped, failures, intents>>
calls == <<sent, request, processed>>
vars == <<log, committed, owner, consumer, dropped, failures, intents,
          payments, sent, request, processed>>

Out == [phase |-> "out", at |-> 0, ref |-> NoRef]

Waiting == [phase |-> "waiting"]
Over    == [phase |-> "over"]

\* The callbacks that have an event in hand, and those that hold an entity.
Applying == [phase: {"apply"}, event: GatewayEvent]
Settling == [phase: {"select", "update", "emit", "done"}, ref: Refs,
             entity: Payment, changed: SUBSET Column]

Init ==
  /\ log = <<>>
  /\ committed = 0
  /\ owner = Nobody
  /\ consumer = [k \in Replicas |-> Out]
  /\ dropped = {}
  /\ failures = 0
  /\ intents = [ref \in Refs |-> NoOrder]
  /\ payments = [ref \in Refs |-> NoPayment]
  /\ sent = {}
  /\ request = [r \in Callbacks |-> Waiting]
  /\ processed = <<>>

\* The payments findOne({ where: { orderId } }) may return.
PaymentsOf(order) ==
  {ref \in Refs : payments[ref] # NoPayment /\ payments[ref].order = order}

-----------------------------------------------------------------------------
(* order_confirmed -> payment.                                             *)

(* WHO: the booking service's producer, which may repeat itself.           *)
Publish(o) ==
  /\ Len(log) < MaxLog
  /\ log' = Append(log, o)
  /\ UNCHANGED <<committed, owner, consumer, dropped, failures, intents, payments>>
  /\ UNCHANGED calls

\* Slip: the group starts at the end of the log (fromBeginning forgotten).
AssignAtEnd(k) ==
  /\ consumer[k].phase = "out"
  /\ owner' = k
  /\ consumer' = [consumer EXCEPT ![k] = [phase |-> "ready", at |-> Len(log), ref |-> NoRef]]
  /\ \/ owner = Nobody /\ UNCHANGED failures
     \/ owner # Nobody /\ failures < MaxFailures /\ failures' = failures + 1
  /\ UNCHANGED <<log, committed, dropped, intents, payments>>
  /\ UNCHANGED calls

(* WHO: the broker.  It gives the partition to a replica, which reads from *)
(* the committed offset: when nobody owns it, and when the owner's session *)
(* times out or the group rebalances.                                      *)
Assign(k) ==
  /\ consumer[k].phase = "out"
  /\ owner' = k
  /\ consumer' = [consumer EXCEPT ![k] = [phase |-> "ready", at |-> committed, ref |-> NoRef]]
  /\ \/ owner = Nobody /\ UNCHANGED failures
     \/ owner # Nobody /\ failures < MaxFailures /\ failures' = failures + 1
  /\ UNCHANGED <<log, committed, dropped, intents, payments>>
  /\ UNCHANGED calls

\* The message a consumer is at, and its consumer once that message is behind.
Message(k) == log[consumer[k].at + 1]
Past(k) == [phase |-> "ready", at |-> consumer[k].at + 1, ref |-> NoRef]

\* Slip: the test for a replay asks the gateway for an intent.
FindIntent(k) ==
  /\ consumer[k].phase = "ready"
  /\ consumer[k].at < Len(log)
  /\ consumer' = [consumer EXCEPT ![k] =
       IF \E ref \in Refs : intents[ref] = Message(k)
       THEN Past(k) ELSE [@ EXCEPT !.phase = "intent"]]
  /\ UNCHANGED <<log, committed, owner, dropped, failures, intents, payments>>
  /\ UNCHANGED calls

(* WHO: handleMessage.  findOne by orderId: a payment that exists already  *)
(* makes the message a replay, to be skipped.                              *)
FindPayment(k) ==
  /\ consumer[k].phase = "ready"
  /\ consumer[k].at < Len(log)
  /\ consumer' = [consumer EXCEPT ![k] =
       IF PaymentsOf(Message(k)) # {} THEN Past(k) ELSE [@ EXCEPT !.phase = "intent"]]
  /\ UNCHANGED <<log, committed, owner, dropped, failures, intents, payments>>
  /\ UNCHANGED calls

(* WHO: handleMessage.  The gateway draws a fresh PaymentIntent.           *)
CreateIntent(k, ref) ==
  /\ consumer[k].phase = "intent"
  /\ intents[ref] = NoOrder
  /\ intents' = [intents EXCEPT ![ref] = Message(k)]
  /\ consumer' = [consumer EXCEPT ![k] = [@ EXCEPT !.phase = "insert", !.ref = ref]]
  /\ UNCHANGED <<log, committed, owner, dropped, failures, payments>>
  /\ UNCHANGED calls

\* Slip: the unique index on orderId is missing.
InsertUnindexed(k) ==
  /\ consumer[k].phase = "insert"
  /\ payments' = [payments EXCEPT ![consumer[k].ref] =
       [order |-> Message(k), status |-> "REQUIRES_PAYMENT", reason |-> "none"]]
  /\ consumer' = [consumer EXCEPT ![k] = Past(k)]
  /\ UNCHANGED <<log, committed, owner, dropped, failures, intents>>
  /\ UNCHANGED calls

(* WHO: handleMessage.  repo.save inserts the payment; when a payment for  *)
(* the order got there first the unique index refuses it and the error is  *)
(* swallowed.  The message is behind either way.                           *)
Insert(k) ==
  /\ consumer[k].phase = "insert"
  /\ payments' =
       IF PaymentsOf(Message(k)) # {} THEN payments
       ELSE [payments EXCEPT ![consumer[k].ref] =
               [order |-> Message(k), status |-> "REQUIRES_PAYMENT", reason |-> "none"]]
  /\ consumer' = [consumer EXCEPT ![k] = Past(k)]
  /\ UNCHANGED <<log, committed, owner, dropped, failures, intents>>
  /\ UNCHANGED calls

(* WHO: handleMessage.  A statement throws (the database is away) and the  *)
(* catch around handleOrderConfirmed only logs it: the message is behind,  *)
(* and nothing will bring it back once its offset is committed.            *)
Swallow(k) ==
  /\ consumer[k].phase \in {"ready", "insert"}
  /\ consumer[k].at < Len(log)
  /\ failures < MaxFailures
  /\ failures' = failures + 1
  /\ dropped' = IF owner = k THEN dropped \cup {consumer[k].at + 1} ELSE dropped
  /\ consumer' = [consumer EXCEPT ![k] = Past(k)]
  /\ UNCHANGED <<log, committed, owner, intents, payments>>
  /\ UNCHANGED calls

(* WHO: kafkajs's auto-commit, between two messages.  The broker takes it  *)
(* from the partition's owner only.                                        *)
Commit(k) ==
  /\ consumer[k].phase = "ready"
  /\ owner = k
  /\ committed < consumer[k].at
  /\ committed' = consumer[k].at
  /\ UNCHANGED <<log, owner, consumer, dropped, failures, intents, payments>>
  /\ UNCHANGED calls

(* WHO: kafkajs's heartbeat, between two messages.  A replica that has     *)
(* been replaced learns of it and waits for its next assignment.           *)
Leave(k) ==
  /\ consumer[k].phase = "ready"
  /\ owner # k
  /\ consumer' = [consumer EXCEPT ![k] = Out]
  /\ UNCHANGED <<log, committed, owner, dropped, failures, intents, payments>>
  /\ UNCHANGED calls

(* WHO: the replica.  It stops wherever it is and starts afresh.           *)
Crash(k) ==
  /\ consumer[k].phase # "out"
  /\ failures < MaxFailures
  /\ failures' = failures + 1
  /\ consumer' = [consumer EXCEPT ![k] = Out]
  /\ owner' = IF owner = k THEN Nobody ELSE owner
  /\ UNCHANGED <<log, committed, dropped, intents, payments>>
  /\ UNCHANGED calls

Consume(k) ==
  \/ FindPayment(k)
  \/ \E ref \in Refs : CreateIntent(k, ref)
  \/ Insert(k)

-----------------------------------------------------------------------------
(* callback -> settled payment -> payment_processed.                       *)

\* buildSignedWebhook: the gateway's word on a payment, signed.
SignedWebhook(ref, outcome) ==
  [ref |-> ref, order |-> payments[ref].order, outcome |-> outcome]

\* verifyAndParseWebhook: a signature the gateway never made is a 400, and one
\* of over five minutes as well (Webhook need not be taken).
Verified(event) == event \in sent

(* WHO: a client.  simulateClientPayment finds the payment by its id and   *)
(* has the gateway build a signed event about it.                          *)
Pay(r, ref, outcome) ==
  LET event == SignedWebhook(ref, outcome)
  IN  /\ request[r] = Waiting
      /\ payments[ref] # NoPayment
      /\ sent' = sent \cup {event}
      /\ request' = [request EXCEPT ![r] = [phase |-> "apply", event |-> event]]
      /\ UNCHANGED <<payments, processed>>
      /\ UNCHANGED feed

(* WHO: the gateway.  It delivers an event again: processWebhook.          *)
Webhook(r, event) ==
  /\ request[r] = Waiting
  /\ Verified(event)
  /\ request' = [request EXCEPT ![r] = [phase |-> "apply", event |-> event]]
  /\ UNCHANGED <<payments, sent, processed>>
  /\ UNCHANGED feed

\* Slip: a failure may be tried again.
IgnoredOncePaid(status) == status = "PAID"

\* The duplicate test at the head of applyGatewayEvent.
Ignored(status) == status \in Terminal

\* Slip: the gateway's word is stored as it comes.
SettledVerbatim(payment, event) ==
  [payment EXCEPT !.status = event.outcome]

\* The entity with the event applied; failureReason comes with a failure.
Settled(payment, event) ==
  [payment EXCEPT !.status = IF event.outcome = "succeeded" THEN "PAID" ELSE "FAILED",
                  !.reason = IF event.outcome = "failed" THEN "declined" ELSE "none"]

(* WHO: applyGatewayEvent.  It finds the payment by the event's orderId;   *)
(* a settled one is left alone.                                            *)
Apply(r) ==
  /\ request[r].phase = "apply"
  /\ \E ref \in PaymentsOf(request[r].event.order) :
       request' = [request EXCEPT ![r] =
         IF Ignored(payments[ref].status) THEN Over
         ELSE [phase |-> "select", ref |-> ref,
               entity |-> Settled(payments[ref], request[r].event), changed |-> {}]]
  /\ UNCHANGED <<payments, sent, processed>>
  /\ UNCHANGED feed

\* The columns repo.save finds different from the row it selects.
Changed(entity, row) == {c \in Column : entity[c] # row[c]}

\* The row after the UPDATE of those columns.
Overlay(row, entity, columns) ==
  [row EXCEPT !.status = IF "status" \in columns THEN entity.status ELSE @,
              !.reason = IF "reason" \in columns THEN entity.reason ELSE @]

(* WHO: repo.save's SELECT.                                                *)
SelectRow(r) ==
  /\ request[r].phase = "select"
  /\ request' = [request EXCEPT
       ![r].phase = "update",
       ![r].changed = Changed(request[r].entity, payments[request[r].ref])]
  /\ UNCHANGED <<payments, sent, processed>>
  /\ UNCHANGED feed

(* WHO: repo.save's UPDATE.                                                *)
UpdateRow(r) ==
  LET q == request[r]
  IN  /\ q.phase = "update"
      /\ payments' = [payments EXCEPT ![q.ref] = Overlay(@, q.entity, q.changed)]
      /\ request' = [request EXCEPT ![r].phase = "emit"]
      /\ UNCHANGED <<sent, processed>>
      /\ UNCHANGED feed

\* Slip: only PAID is told apart, with the test the wrong way round.
ProcessedInverted(q) ==
  [order |-> q.entity.order, payment |-> q.ref,
   status |-> IF q.entity.status = "PAID" THEN "FAILED" ELSE "PAID"]

\* emitPaymentProcessed's event, built from what save returned.
ProcessedOf(q) ==
  [order |-> q.entity.order, payment |-> q.ref,
   status |-> IF q.entity.status = "PAID" THEN "PAID" ELSE "FAILED"]

(* WHO: the Kafka producer; a retried send may append the event twice.     *)
Emit(r) ==
  LET event == ProcessedOf(request[r])
  IN  /\ request[r].phase = "emit"
      /\ \E copies \in {<<event>>, <<event, event>>} : processed' = processed \o copies
      /\ request' = [request EXCEPT ![r].phase = "done"]
      /\ UNCHANGED <<payments, sent>>
      /\ UNCHANGED feed

(* WHO: the Kafka producer, not connected or out of retries; the catch     *)
(* logs it and the callback is answered as settled.                        *)
EmitFails(r) ==
  /\ request[r].phase = "emit"
  /\ request' = [request EXCEPT ![r].phase = "done"]
  /\ UNCHANGED <<payments, sent, processed>>
  /\ UNCHANGED feed

(* WHO: the replica stops, or a statement throws: the callback is over.    *)
Abort(r) ==
  /\ request[r].phase \in {"apply", "select", "update"}
  /\ request' = [request EXCEPT ![r] = Over]
  /\ UNCHANGED <<payments, sent, processed>>
  /\ UNCHANGED feed

Answer(r) == SelectRow(r) \/ UpdateRow(r) \/ Emit(r) \/ EmitFails(r) \/ Abort(r)

-----------------------------------------------------------------------------
ConsumerStep ==
  \E k \in Replicas :
    Assign(k) \/ Consume(k) \/ Swallow(k) \/ Commit(k) \/ Leave(k) \/ Crash(k)

\* The order a callback is about.
About(q) == IF q.phase = "apply" THEN q.event.order ELSE q.entity.order

\* No callback about the order is between its arrival and its answer.
Quiet(o) ==
  \A r \in Callbacks :
    request[r].phase \in {"apply", "select", "update", "emit"} => About(request[r]) # o

CallbackStep ==
  \E r \in Callbacks :
    \/ \E ref \in Refs, outcome \in Outcomes : Pay(r, ref, outcome)
    \/ \E event \in GatewayEvent : Webhook(r, event)
    \/ Apply(r)
    \/ Answer(r)

Next == (\E o \in OrderIds : Publish(o)) \/ ConsumerStep \/ CallbackStep

Spec == Init /\ [][Next]_vars

\* The service when callbacks about one order come one after the other.
SerialCallbackStep ==
  \E r \in Callbacks :
    \/ \E ref \in Refs, outcome \in Outcomes :
         /\ payments[ref] # NoPayment
         /\ Quiet(payments[ref].order)
         /\ Pay(r, ref, outcome)
    \/ \E event \in GatewayEvent : Quiet(event.order) /\ Webhook(r, event)
    \/ Apply(r)
    \/ Answer(r)

SerialNext == (\E o \in OrderIds : Publish(o)) \/ ConsumerStep \/ SerialCallbackStep

SerialSpec == Init /\ [][SerialNext]_vars

-----------------------------------------------------------------------------
(* What holds however replicas and callbacks interleave.                   *)

ConsumerState ==
  [phase: {"out", "ready", "intent", "insert"}, at: Nat, ref: Refs \cup {NoRef}]

TypeOK ==
  /\ log \in Seq(OrderIds) /\ Len(log) <= MaxLog
  /\ committed \in 0 .. Len(log)
  /\ owner \in Replicas \cup {Nobody}
  /\ consumer \in [Replicas -> ConsumerState]
  /\ dropped \subseteq 1 .. Len(log)
  /\ failures \in 0 .. MaxFailures
  /\ intents \in [Refs -> OrderIds \cup {NoOrder}]
  /\ payments \in [Refs -> Payment \cup {NoPayment}]
  /\ sent \subseteq GatewayEvent
  /\ request \in [Callbacks -> Applying \cup Settling \cup {Waiting, Over}]
  /\ processed \in Seq(Processed)

\* An order is never charged twice, whatever is redelivered and however many
\* replicas handle its confirmation at once (findOne before the insert is not
\* enough for that: the unique index on orderId decides).
OnePaymentPerOrder ==
  \A a, b \in Refs :
    (payments[a] # NoPayment /\ payments[b] # NoPayment
       /\ payments[a].order = payments[b].order) => a = b

\* The group never moves past a confirmation it has not acted on: behind the
\* committed offset every order has its payment, unless the owner met an error
\* on it and gave it up (handleMessage's catch).  Crashes, rebalances and
\* replicas that do not know they were replaced lose nothing.
CommittedIsCharged ==
  \A i \in 1 .. committed : PaymentsOf(log[i]) # {} \/ i \in dropped

\* A payment exists only for an order announced as confirmed, under an intent
\* drawn for that very order, and it is PAID or FAILED only if the gateway has
\* said so of that intent; payment_processed says nothing else, and says it
\* only of a payment already settled in the table.
SettledAsReported ==
  /\ \A ref \in Refs : payments[ref] # NoPayment =>
       LET row == payments[ref]
       IN  /\ intents[ref] = row.order
           /\ \E i \in DOMAIN log : log[i] = row.order
           /\ row.status = "PAID" =>
                [ref |-> ref, order |-> row.order, outcome |-> "succeeded"] \in sent
           /\ row.status = "FAILED" =>
                [ref |-> ref, order |-> row.order, outcome |-> "failed"] \in sent
  /\ \A i \in DOMAIN processed :
       LET e == processed[i]
       IN  /\ payments[e.payment] # NoPayment
           /\ payments[e.payment].order = e.order
           /\ payments[e.payment].status \in Terminal
           /\ [ref |-> e.payment, order |-> e.order,
               outcome |-> IF e.status = "PAID" THEN "succeeded" ELSE "failed"] \in sent

\* No callback has an entity of this payment still to save or announce.
Untouched(ref) ==
  \A r \in Callbacks :
    request[r].phase \in {"select", "update", "emit"} => request[r].ref # ref

\* Once a payment is settled and the callbacks that had already loaded it have
\* ended, no later callback changes it or announces it again, whatever the
\* gateway repeats or the client retries.
SettledIsFinal ==
  [][\A ref \in Refs :
       (payments[ref] # NoPayment /\ payments[ref].status \in Terminal
          /\ Untouched(ref))
         => payments'[ref] = payments[ref] /\ Untouched(ref)']_vars

-----------------------------------------------------------------------------
(* What holds when callbacks about one order do not overlap, and only then.*)

\* One callback settles the payment of an order, and it alone announces it
\* ("one state transition, one payment_processed emission",
\* payments.service.spec.ts).
AppliedOnce ==
  \A r, s \in Callbacks :
    (/\ request[r].phase \in {"emit", "done"}
     /\ request[s].phase \in {"emit", "done"}
     /\ request[r].entity.order = request[s].entity.order) => r = s

Announced == {log[i] : i \in DOMAIN log}

Standing ==
  [o \in OrderIds |->
     IF PaymentsOf(o) = {} THEN "none"
     ELSE payments[CHOOSE ref \in PaymentsOf(o) : TRUE].status]

Ledger == INSTANCE PaymentLedger WITH confirmed <- Announced, ledger <- Standing

\* The service implements the ledger: confirmed, then charged once, then
\* settled once.
ImplementsLedger == Ledger!Spec
=============================================================================
