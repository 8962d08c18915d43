------------------------------- MODULE Orders -------------------------------
(***************************************************************************)
(* The booking service: POST /orders (createOrder) and                     *)
(* PATCH /orders/:id/status (updateStatus).                                *)
(*                                                                         *)
(* A request is an async handler on one of the service's replicas.  Every  *)
(* await in it lets the other requests run, so it is a process with these  *)
(* steps:                                                                  *)
(*                                                                         *)
(*   waiting -> (findOne, checks, edit of the entity)                      *)
(*           -> select -> (TypeORM's SELECT inside repo.save, and its diff)*)
(*           -> update -> (the UPDATE of the columns that differ)          *)
(*           -> emit   -> (producer.send, its failure swallowed)           *)
(*           -> over                                                       *)
(*                                                                         *)
(* Nothing serialises two requests on one order: the row has no version    *)
(* column, no statement locks it, and up to four replicas run at once.     *)
(* Spec lets requests interleave freely; SerialSpec is the same service    *)
(* used by people who never have two requests on one order in flight.      *)
(*                                                                         *)
(* Which request goes through, and what it makes of the row, is OrderRules. *)
(*                                                                         *)
(* Abstracted: items, notes, totalAmount and createdAt, which updateStatus *)
(* copies and never changes.  A refused request changes nothing, hence is  *)
(* a stuttering step.                                                      *)
(***************************************************************************)
EXTENDS OrderRules, Sequences, Naturals

CONSTANTS
  OrderIds,   \* the uuids createOrder may draw
  Requests,   \* the requests that ever arrive, each handled once
  NoRow       \* findOne's null

Topics == {"order_created", "order_confirmed", "order_cancelled", "order_rescheduled"}

\* TOPIC_MAP, and the order_created of createOrder; the other statuses are
\* saved without an event.
TopicOf ==
  [s \in Status |->
     CASE s = "PENDING"             -> "order_created"
       [] s = "CONFIRMED"           -> "order_confirmed"
       [] s = "CANCELLED"           -> "order_cancelled"
       [] s = "RESCHEDULE_PROPOSED" -> "order_rescheduled"
       [] OTHER                     -> "none"]

-----------------------------------------------------------------------------
VARIABLES
  orders,    \* the orders table
  request,   \* where each request stands
  topic,     \* the Kafka log of each topic, oldest first
  deeds      \* history: every write to an order, with who asked for it

vars == <<orders, request, topic, deeds>>

Row == [client: Users, provider: Users, status: Status,
        scheduled: Dates, proposed: Dates \cup {NoDate}]

ASSUME NoRowAssumption == NoRow \notin Row

\* The phases of a request whose handler is running.
Busy == {"select", "update", "emit"}

InFlight == [phase: Busy, order: OrderIds, actor: Users,
             previous: Status \cup {"NONE"}, entity: Row, changed: SUBSET Column]

Waiting == [phase |-> "waiting"]
Over    == [phase |-> "over"]

Event == [order: OrderIds, status: Status, scheduled: Dates,
          proposed: Dates \cup {NoDate}, actor: Users, previous: Status \cup {"NONE"}]

Deed == [from: Status \cup {"NONE"}, to: Status, actor: Users,
         date: Dates \cup {NoDate}]

Init ==
  /\ orders  = [o \in OrderIds |-> NoRow]
  /\ request = [r \in Requests |-> Waiting]
  /\ topic   = [t \in Topics |-> <<>>]
  /\ deeds   = [o \in OrderIds |-> {}]

-----------------------------------------------------------------------------
(* The event.                                                              *)

\* Slip: previousStatus is read after the entity was edited.
EventWithNewStatusTwice(q) ==
  [order |-> q.order, status |-> q.entity.status, scheduled |-> q.entity.scheduled,
   proposed |-> q.entity.proposed, actor |-> q.actor, previous |-> q.entity.status]

\* The event is built from what save returned: the handler's own entity.
EventOf(q) ==
  [order |-> q.order, status |-> q.entity.status, scheduled |-> q.entity.scheduled,
   proposed |-> q.entity.proposed, actor |-> q.actor, previous |-> q.previous]

-----------------------------------------------------------------------------
(* WHO: a client.  createOrder inserts the row under a fresh uuid.         *)
CreateOrder(r, o, client, provider, date) ==
  LET row == [client |-> client, provider |-> provider, status |-> "PENDING",
              scheduled |-> date, proposed |-> NoDate]
  IN  /\ request[r] = Waiting
      /\ orders[o] = NoRow
      /\ orders' = [orders EXCEPT ![o] = row]
      /\ request' = [request EXCEPT ![r] =
           [phase |-> "emit", order |-> o, actor |-> client, previous |-> "NONE",
            entity |-> row, changed |-> {}]]
      /\ deeds' = [deeds EXCEPT ![o] = @ \cup
           {[from |-> "NONE", to |-> "PENDING", actor |-> client, date |-> date]}]
      /\ UNCHANGED topic

(* WHO: either party.  updateStatus reads the row, checks the request      *)
(* against it and edits its own copy.                                      *)
LoadOrder(r, o, actor, to, date) ==
  /\ request[r] = Waiting
  /\ orders[o] # NoRow
  /\ Permitted(orders[o], actor, to, date)
  /\ request' = [request EXCEPT ![r] =
       [phase |-> "select", order |-> o, actor |-> actor,
        previous |-> orders[o].status, entity |-> Edited(orders[o], to, date),
        changed |-> {}]]
  /\ UNCHANGED <<orders, topic, deeds>>

(* WHO: repo.save.  It selects the row again and keeps the columns in      *)
(* which the handler's entity differs from it.                             *)
SelectRow(r) ==
  /\ request[r].phase = "select"
  /\ request' = [request EXCEPT
       ![r].phase = "update",
       ![r].changed = Changed(request[r].entity, orders[request[r].order])]
  /\ UNCHANGED <<orders, topic, deeds>>

(* WHO: repo.save.  It updates those columns, whatever the row is by now;  *)
(* the handler goes on to the event when the new status has a topic.       *)
UpdateRow(r) ==
  LET q == request[r]
  IN  /\ q.phase = "update"
      /\ orders' = [orders EXCEPT ![q.order] = Overlay(@, q.entity, q.changed)]
      /\ deeds' = [deeds EXCEPT ![q.order] = @ \cup
           {[from |-> q.previous, to |-> q.entity.status, actor |-> q.actor,
             date |-> IF q.entity.status = "RESCHEDULE_PROPOSED"
                      THEN q.entity.proposed ELSE NoDate]}]
      /\ request' = [request EXCEPT ![r] =
           IF TopicOf[q.entity.status] = "none" THEN Over
           ELSE [q EXCEPT !.phase = "emit"]]
      /\ UNCHANGED topic

(* WHO: the Kafka producer.  The event is appended to the topic's log,     *)
(* twice when kafkajs retries a send whose acknowledgement was lost.       *)
Emit(r) ==
  LET q == request[r]
  IN  /\ q.phase = "emit"
      /\ \E copies \in {<<EventOf(q)>>, <<EventOf(q), EventOf(q)>>} :
           topic' = [topic EXCEPT ![TopicOf[q.entity.status]] = @ \o copies]
      /\ request' = [request EXCEPT ![r] = Over]
      /\ UNCHANGED <<orders, deeds>>

(* WHO: the Kafka producer.  It never connected, or the send failed: the   *)
(* catch logs the error and the request is answered as if all were well.   *)
EmitFails(r) ==
  /\ request[r].phase = "emit"
  /\ request' = [request EXCEPT ![r] = Over]
  /\ UNCHANGED <<orders, topic, deeds>>

(* WHO: the replica.  It stops, or a statement throws: what the request    *)
(* had still to do is lost and nothing takes it up again.                  *)
Abort(r) ==
  /\ request[r].phase \in {"select", "update"}
  /\ request' = [request EXCEPT ![r] = Over]
  /\ UNCHANGED <<orders, topic, deeds>>

Handle(r) == SelectRow(r) \/ UpdateRow(r) \/ Emit(r) \/ EmitFails(r) \/ Abort(r)

\* No request on the order is between its findOne and its answer.
Quiet(o) == \A r \in Requests : request[r].phase \in Busy => request[r].order # o

Next ==
  \E r \in Requests :
    \/ \E o \in OrderIds, c, p \in Users, d \in Dates : CreateOrder(r, o, c, p, d)
    \/ \E o \in OrderIds, u \in Users, s \in AllowedTransition,
          d \in Dates \cup {NoDate} : LoadOrder(r, o, u, s, d)
    \/ Handle(r)

Spec == Init /\ [][Next]_vars

SerialNext ==
  \E r \in Requests :
    \/ \E o \in OrderIds, c, p \in Users, d \in Dates : CreateOrder(r, o, c, p, d)
    \/ \E o \in OrderIds, u \in Users, s \in AllowedTransition,
          d \in Dates \cup {NoDate} : Quiet(o) /\ LoadOrder(r, o, u, s, d)
    \/ Handle(r)

SerialSpec == Init /\ [][SerialNext]_vars

-----------------------------------------------------------------------------
(* What holds however the requests interleave.                             *)

TypeOK ==
  /\ orders  \in [OrderIds -> Row \cup {NoRow}]
  /\ request \in [Requests -> InFlight \cup {Waiting, Over}]
  /\ topic   \in [Topics -> Seq(Event)]
  /\ deeds   \in [OrderIds -> SUBSET Deed]

\* Both sides have said yes to the service: the provider confirmed the
\* client's date, or proposed one that the client accepted.
BothAgreed(o) ==
  \E yes \in deeds[o] :
    /\ yes.to = "CONFIRMED"
    /\ \/ yes.from = "PENDING" /\ yes.actor = orders[o].provider
       \/ /\ yes.from = "RESCHEDULE_PROPOSED" /\ yes.actor = orders[o].client
          /\ \E offer \in deeds[o] : /\ offer.to = "RESCHEDULE_PROPOSED"
                                    /\ offer.actor = orders[o].provider

\* An order is never confirmed, under way or completed unless both sides
\* agreed to it, and never completed unless its provider started it, even
\* when requests write over each other's rows (updateStatus's checks run on
\* a copy of the row that may be out of date).
Consent ==
  \A o \in OrderIds : orders[o] # NoRow =>
    /\ orders[o].status \in {"CONFIRMED", "IN_PROGRESS", "COMPLETED"} => BothAgreed(o)
    /\ orders[o].status = "COMPLETED" =>
         \E start \in deeds[o] : /\ start.to = "IN_PROGRESS"
                                 /\ start.actor = orders[o].provider

\* The date of the service is the one the client asked for in createOrder, or
\* one its provider proposed and the client accepted afterwards: no mixture of
\* concurrent saves makes up a date or moves the service unasked.
DateWasAgreed ==
  \A o \in OrderIds : orders[o] # NoRow =>
    \/ \E ask \in deeds[o] : ask.to = "PENDING" /\ ask.date = orders[o].scheduled
    \/ /\ \E offer \in deeds[o] : /\ offer.to = "RESCHEDULE_PROPOSED"
                                  /\ offer.actor = orders[o].provider
                                  /\ offer.date = orders[o].scheduled
       /\ \E yes \in deeds[o] : /\ yes.from = "RESCHEDULE_PROPOSED"
                                /\ yes.to = "CONFIRMED"
                                /\ yes.actor = orders[o].client

\* A consumer that acts on an event acts on something that happened: the write
\* it tells of was committed first, by the actor it names and from the status
\* it names; an order_confirmed event never carries a date still under
\* discussion, and an order_rescheduled event always does.
EventsTellTheTruth ==
  \A t \in Topics : \A i \in DOMAIN topic[t] :
    LET e == topic[t][i]
    IN  /\ TopicOf[e.status] = t
        /\ \E d \in deeds[e.order] :
             d.to = e.status /\ d.from = e.previous /\ d.actor = e.actor
        /\ e.status = "CONFIRMED" => e.proposed = NoDate
        /\ e.status = "RESCHEDULE_PROPOSED" => e.proposed # NoDate

\* Once an order is completed or cancelled and the requests on it that were
\* already running have ended, no later request changes it.
SettledIsFinal ==
  [][\A o \in OrderIds :
       (orders[o] # NoRow /\ orders[o].status \in Terminal /\ Quiet(o))
         => orders'[o] = orders[o] /\ Quiet(o)']_vars

-----------------------------------------------------------------------------
(* What holds when no two requests on one order overlap, and only then.    *)

Lifecycle == INSTANCE OrderLifecycle

\* The service implements the one-step-at-a-time state machine of the orders.
ImplementsLifecycle == Lifecycle!Spec

\* The payment service charges an order for its first order_confirmed event
\* and ignores the others: all of them must say the same, whatever the
\* producer's retries repeat.
ConfirmedOnce ==
  \A i, j \in DOMAIN topic["order_confirmed"] :
    LET e == topic["order_confirmed"][i]
        f == topic["order_confirmed"][j]
    IN  e.order = f.order => e = f
=============================================================================
