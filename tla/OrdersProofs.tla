---------------------------- MODULE OrdersProofs ----------------------------
(***************************************************************************)
(* Theorems about the orders, for any sets of orders, users, dates and     *)
(* requests: of Orders, of Orders when no two requests on one order        *)
(* overlap, and of Marketplace, the orders and the payments together.      *)
(***************************************************************************)
EXTENDS Marketplace, TLAPS

-----------------------------------------------------------------------------
(* The shape of the state.                                                 *)

LEMMA EditedType ==
  ASSUME NEW row \in Row, NEW to \in AllowedTransition, NEW date \in Dates \cup {NoDate}
  PROVE  /\ Edited(row, to, date) \in Row
         /\ Edited(row, to, date).client = row.client
         /\ Edited(row, to, date).provider = row.provider
         /\ Edited(row, to, date).status = to
  BY DEF Edited, Row, AllowedTransition

LEMMA OverlayType ==
  ASSUME NEW row \in Row, NEW entity \in Row, NEW columns \in SUBSET Column
  PROVE  /\ Overlay(row, entity, columns) \in Row
         /\ Overlay(row, entity, columns).client = row.client
         /\ Overlay(row, entity, columns).provider = row.provider
         /\ Overlay(row, entity, columns).status =
              (IF "status" \in columns THEN entity.status ELSE row.status)
         /\ Overlay(row, entity, columns).scheduled =
              (IF "scheduled" \in columns THEN entity.scheduled ELSE row.scheduled)
         /\ Overlay(row, entity, columns).proposed =
              (IF "proposed" \in columns THEN entity.proposed ELSE row.proposed)
  BY DEF Overlay, Row

\* A topic is missing for the two statuses that are saved in silence, only.
LEMMA TopicOfStatus ==
  ASSUME NEW s \in Status
  PROVE  TopicOf[s] = "none" \/ TopicOf[s] \in Topics
  BY DEF TopicOf, Topics, Status

\* The phases tell the three kinds of request state apart.
LEMMA Phases ==
  /\ Waiting.phase = "waiting" /\ Over.phase = "over"
  /\ Waiting.phase \notin Busy /\ Over.phase \notin Busy
  /\ \A q \in InFlight : q.phase \in Busy /\ q # Waiting /\ q # Over
  BY DEF Waiting, Over, Busy, InFlight

\* A busy request has a topic for its event when it is about to emit.
EmitsSomething ==
  \A r \in Requests :
    request[r].phase = "emit" => TopicOf[request[r].entity.status] \in Topics

\* A busy request works on an order that exists; orders are never deleted.
HasRow ==
  \A r \in Requests : request[r].phase \in Busy => orders[request[r].order] # NoRow

TypeInv == TypeOK /\ EmitsSomething /\ HasRow

LEMMA EventType ==
  ASSUME NEW q \in InFlight
  PROVE  EventOf(q) \in Event
  BY DEF EventOf, Event, InFlight, Row

\* One copy of an event or two, a topic's log stays a log of events.
LEMMA LogType ==
  ASSUME NEW e \in Event, NEW log \in Seq(Event), NEW copies \in {<<e>>, <<e, e>>}
  PROVE  log \o copies \in Seq(Event)
<1>1. <<e>> \in Seq(Event) /\ <<e, e>> \in Seq(Event)
  OBVIOUS
<1>2. copies \in Seq(Event)
  BY <1>1
<1> QED
  BY <1>2

LEMMA TypeInvStep ==
  ASSUME TypeInv, [Next]_vars
  PROVE  TypeInv'
<1> USE Phases DEF TypeInv
<1>1. ASSUME NEW r \in Requests, NEW o \in OrderIds, NEW c \in Users, NEW p \in Users,
             NEW d \in Dates, CreateOrder(r, o, c, p, d)
      PROVE  TypeInv'
  <2> DEFINE row == [client |-> c, provider |-> p, status |-> "PENDING",
                     scheduled |-> d, proposed |-> NoDate]
             q == [phase |-> "emit", order |-> o, actor |-> c, previous |-> "NONE",
                   entity |-> row, changed |-> {}]
  <2>1. row \in Row
    BY DEF Row, Status
  <2>2. q \in InFlight
    BY <2>1 DEF InFlight, Busy
  <2>3. [from |-> "NONE", to |-> "PENDING", actor |-> c, date |-> d] \in Deed
    BY DEF Deed, Status
  <2>4. orders' \in [OrderIds -> Row \cup {NoRow}] /\ deeds' \in [OrderIds -> SUBSET Deed]
    BY <1>1, <2>1, <2>3 DEF CreateOrder, TypeOK
  <2>5. request' = [request EXCEPT ![r] = q] /\ topic' = topic
    BY <1>1 DEF CreateOrder
  <2>6. TypeOK'
    BY <2>2, <2>4, <2>5 DEF TypeOK
  <2>7. TopicOf[q.entity.status] \in Topics
    BY DEF TopicOf, Topics, Status
  <2>8. EmitsSomething'
    BY <2>5, <2>7 DEF EmitsSomething, TypeOK
  <2>9. HasRow'
    BY <1>1, <2>1, <2>5, NoRowAssumption DEF HasRow, TypeOK, CreateOrder
  <2> QED BY <2>6, <2>8, <2>9
<1>2. ASSUME NEW r \in Requests, NEW o \in OrderIds, NEW u \in Users,
             NEW s \in AllowedTransition, NEW d \in Dates \cup {NoDate},
             LoadOrder(r, o, u, s, d)
      PROVE  TypeInv'
  <2> DEFINE q == [phase |-> "select", order |-> o, actor |-> u,
                   previous |-> orders[o].status, entity |-> Edited(orders[o], s, d),
                   changed |-> {}]
  <2>1. orders[o] \in Row
    BY <1>2 DEF LoadOrder, TypeOK
  <2>2. orders[o].status \in Status
    BY <2>1 DEF Row
  <2>3. q \in InFlight
    BY <2>1, <2>2, EditedType DEF InFlight, Busy
  <2>4. request' = [request EXCEPT ![r] = q] /\ UNCHANGED <<orders, topic, deeds>>
    BY <1>2 DEF LoadOrder
  <2> QED
    BY <2>1, <2>3, <2>4, NoRowAssumption DEF TypeOK, EmitsSomething, HasRow
<1>3. ASSUME NEW r \in Requests, Handle(r)
      PROVE  TypeInv'
  <2>1. request[r].phase \in Busy
    BY <1>3 DEF Handle, SelectRow, UpdateRow, Emit, EmitFails, Abort, Busy
  <2>2. request[r] \in InFlight
    BY <2>1 DEF TypeOK
  <2> DEFINE q == request[r]
  <2>3. q.order \in OrderIds /\ q.entity \in Row /\ q.entity.status \in Status
    BY <2>2 DEF InFlight, Row
  <2>4. CASE SelectRow(r)
    <3> DEFINE n == [q EXCEPT !.phase = "update",
                              !.changed = Changed(q.entity, orders[q.order])]
    <3>1. Changed(q.entity, orders[q.order]) \in SUBSET Column
      BY DEF Changed
    <3>2. n \in InFlight /\ n.phase = "update"
      BY <2>2, <3>1 DEF InFlight, Busy
    <3>3. request' = [request EXCEPT ![r] = n] /\ UNCHANGED <<orders, topic, deeds>>
      BY <2>4 DEF SelectRow, TypeOK
    <3> QED
      BY <2>1, <2>2, <3>2, <3>3 DEF TypeOK, EmitsSomething, HasRow
  <2>5. CASE UpdateRow(r)
    <3> DEFINE n == IF TopicOf[q.entity.status] = "none" THEN Over
                    ELSE [q EXCEPT !.phase = "emit"]
               deed == [from |-> q.previous, to |-> q.entity.status, actor |-> q.actor,
                        date |-> IF q.entity.status = "RESCHEDULE_PROPOSED"
                                 THEN q.entity.proposed ELSE NoDate]
    <3>1. deed \in Deed
      BY <2>2, <2>3 DEF Deed, InFlight, Row
    <3>2. /\ n \in InFlight \cup {Over}
          /\ n.phase = "emit" => TopicOf[n.entity.status] \in Topics
      BY <2>2, <2>3, TopicOfStatus DEF InFlight, Busy
    <3>3. /\ request' = [request EXCEPT ![r] = n]
          /\ orders' = [orders EXCEPT ![q.order] = Overlay(@, q.entity, q.changed)]
          /\ deeds' = [deeds EXCEPT ![q.order] = @ \cup {deed}]
          /\ topic' = topic
      BY <2>5 DEF UpdateRow
    <3> DEFINE row == Overlay(orders[q.order], q.entity, q.changed)
    <3>0. orders[q.order] \in Row /\ row \in Row
      BY <2>1, <2>2, <2>3, OverlayType DEF TypeOK, HasRow, InFlight
    <3>4. /\ orders' = [orders EXCEPT ![q.order] = row]
          /\ orders' \in [OrderIds -> Row \cup {NoRow}]
      BY <3>0, <3>3 DEF TypeOK
    <3>6. HasRow'
      BY <2>2, <3>0, <3>2, <3>3, <3>4, NoRowAssumption DEF TypeOK, HasRow
    <3>5. deeds' \in [OrderIds -> SUBSET Deed]
      BY <2>3, <3>1, <3>3 DEF TypeOK
    <3> QED
      BY <3>2, <3>3, <3>4, <3>5, <3>6 DEF TypeOK, EmitsSomething
  <2>6. CASE Emit(r)
    <3>1. PICK copies \in {<<EventOf(q)>>, <<EventOf(q), EventOf(q)>>} :
            topic' = [topic EXCEPT ![TopicOf[q.entity.status]] = @ \o copies]
      BY <2>6 DEF Emit
    <3>2. TopicOf[q.entity.status] \in Topics
      BY <2>6 DEF EmitsSomething, Emit
    <3>3. topic[TopicOf[q.entity.status]] \o copies \in Seq(Event)
      BY <2>2, <3>2, EventType, LogType DEF TypeOK
    <3>5. topic' \in [Topics -> Seq(Event)]
      BY <3>1, <3>3 DEF TypeOK
    <3>4. request' = [request EXCEPT ![r] = Over] /\ UNCHANGED <<orders, deeds>>
      BY <2>6 DEF Emit
    <3> QED
      BY <3>4, <3>5 DEF TypeOK, EmitsSomething, HasRow
  <2>7. CASE EmitFails(r) \/ Abort(r)
    BY <2>7 DEF EmitFails, Abort, TypeOK, EmitsSomething, HasRow
  <2> QED
    BY <1>3, <2>4, <2>5, <2>6, <2>7 DEF Handle
<1>4. CASE UNCHANGED vars
  BY <1>4 DEF vars, TypeOK, EmitsSomething, HasRow
<1> QED
  BY <1>1, <1>2, <1>3, <1>4 DEF Next

\* The state always has the shape TypeOK gives it.
THEOREM TypeCorrect == Spec => []TypeOK
<1>1. Init => TypeInv
  BY Phases DEF Init, TypeInv, TypeOK, EmitsSomething, HasRow
<1>2. TypeInv /\ [Next]_vars => TypeInv'
  BY TypeInvStep
<1>3. TypeInv => TypeOK
  BY DEF TypeInv
<1> QED
  BY <1>1, <1>2, <1>3, PTL DEF Spec

-----------------------------------------------------------------------------
(* Consent, dates and events.                                              *)
(*                                                                         *)
(* The checks of updateStatus run on a copy of the row, and the row may    *)
(* have moved on when the copy is saved.  What survives is history: every  *)
(* status a request has read is one that an earlier write, entitled to     *)
(* it, gave to the order; so each deed rests on an earlier deed, down to   *)
(* the creation of the order.  The invariant carries these facts in the    *)
(* deeds, in the row and in the entity of every request under way.         *)

Did(o, s) == \E d \in deeds[o] : d.to = s

Asked(o, date) == \E ask \in deeds[o] : ask.to = "PENDING" /\ ask.date = date

Offered(o, date) ==
  \E offer \in deeds[o] : /\ offer.to = "RESCHEDULE_PROPOSED"
                          /\ offer.actor = orders[o].provider
                          /\ offer.date = date

Accepted(o) ==
  \E yes \in deeds[o] : /\ yes.from = "RESCHEDULE_PROPOSED"
                        /\ yes.to = "CONFIRMED"
                        /\ yes.actor = orders[o].client

\* What Permitted has established of a step, on the parties of the order.
Entitled(o, from, to, actor) ==
  /\ <<from, to>> \in Transitions
  /\ <<from, to>> \in ProviderOnly => actor = orders[o].provider
  /\ <<from, to>> \in ClientOnly   => actor = orders[o].client

DeedsInv(o) ==
  \A d \in deeds[o] : \/ d.from = "NONE" /\ d.to = "PENDING"
                      \/ Entitled(o, d.from, d.to, d.actor) /\ Did(o, d.from)

RowInv(o) ==
  /\ Did(o, orders[o].status)
  /\ orders[o].status = "PENDING" => orders[o].proposed = NoDate
  /\ orders[o].proposed # NoDate => Offered(o, orders[o].proposed)
  /\ Asked(o, orders[o].scheduled) \/ (Offered(o, orders[o].scheduled) /\ Accepted(o))

OrderInv ==
  \A o \in OrderIds : IF orders[o] = NoRow THEN deeds[o] = {} ELSE DeedsInv(o) /\ RowInv(o)

SavingInv(q) ==
  /\ Entitled(q.order, q.previous, q.entity.status, q.actor)
  /\ Did(q.order, q.previous)
  /\ q.entity.status = "CONFIRMED" => q.entity.proposed = NoDate
  /\ q.entity.status = "RESCHEDULE_PROPOSED" => q.entity.proposed # NoDate
  /\ \/ q.entity.status = "RESCHEDULE_PROPOSED"
     \/ q.entity.proposed = NoDate
     \/ Offered(q.order, q.entity.proposed)
  /\ \/ Asked(q.order, q.entity.scheduled)
     \/ /\ Offered(q.order, q.entity.scheduled)
        /\ \/ Accepted(q.order)
           \/ q.previous = "RESCHEDULE_PROPOSED" /\ q.entity.status = "CONFIRMED"
  /\ (q.phase = "update" /\ "status" \notin q.changed) => orders[q.order].status # "PENDING"

EmittingInv(q) ==
  /\ \E d \in deeds[q.order] :
       d.to = q.entity.status /\ d.from = q.previous /\ d.actor = q.actor
  /\ q.entity.status = "CONFIRMED" => q.entity.proposed = NoDate
  /\ q.entity.status = "RESCHEDULE_PROPOSED" => q.entity.proposed # NoDate

RequestInv ==
  \A r \in Requests :
    /\ request[r].phase \in {"select", "update"} => SavingInv(request[r])
    /\ request[r].phase = "emit" => EmittingInv(request[r])

IInv == TypeInv /\ OrderInv /\ RequestInv /\ EventsTellTheTruth

\* A step forgets no deed, deletes no order, changes no party and makes no
\* order PENDING again.
LEMMA Persist ==
  ASSUME TypeInv, RequestInv, [Next]_vars, NEW o \in OrderIds, orders[o] # NoRow
  PROVE  /\ deeds[o] \subseteq deeds'[o]
         /\ orders'[o] # NoRow
         /\ orders'[o].client = orders[o].client
         /\ orders'[o].provider = orders[o].provider
         /\ orders[o].status # "PENDING" => orders'[o].status # "PENDING"
<1> USE DEF TypeInv
<1>1. CASE UNCHANGED <<orders, deeds>>
  BY <1>1
<1>2. ASSUME NEW r \in Requests, NEW n \in OrderIds, NEW c \in Users, NEW p \in Users,
             NEW d \in Dates, CreateOrder(r, n, c, p, d)
      PROVE  UNCHANGED <<orders[o], deeds[o]>>
  BY <1>2 DEF CreateOrder, TypeOK
<1>3. ASSUME NEW r \in Requests, UpdateRow(r)
      PROVE  /\ deeds[o] \subseteq deeds'[o]
             /\ orders'[o] # NoRow
             /\ orders'[o].client = orders[o].client
             /\ orders'[o].provider = orders[o].provider
             /\ orders[o].status # "PENDING" => orders'[o].status # "PENDING"
  <2> DEFINE q == request[r]
  <2>1. q \in InFlight /\ q.phase = "update" /\ SavingInv(q)
    BY <1>3, Phases DEF UpdateRow, TypeOK, RequestInv, Waiting, Over
  <2>2. q.order \in OrderIds /\ q.entity \in Row /\ q.changed \in SUBSET Column
    BY <2>1 DEF InFlight
  <2>3. q.entity.status # "PENDING"
    BY <2>1 DEF SavingInv, Entitled, Transitions, Table
  <2>4. orders[o] \in Row
    BY DEF TypeOK
  <2>5. CASE q.order # o
    BY <1>3, <2>2, <2>5 DEF UpdateRow, TypeOK
  <2>6. CASE q.order = o
    <3>1. orders'[o] = Overlay(orders[o], q.entity, q.changed)
      BY <1>3, <2>6 DEF UpdateRow, TypeOK
    <3>2. deeds[o] \subseteq deeds'[o]
      BY <1>3, <2>6 DEF UpdateRow, TypeOK
    <3> QED
      BY <2>2, <2>3, <2>4, <3>1, <3>2, OverlayType, NoRowAssumption
  <2> QED BY <2>5, <2>6
<1> QED
  BY <1>1, <1>2, <1>3
  DEF Next, vars, Handle, LoadOrder, SelectRow, Emit, EmitFails, Abort

\* So what is known of an order stays known.
LEMMA KnownForever ==
  ASSUME TypeInv, RequestInv, [Next]_vars, NEW o \in OrderIds, orders[o] # NoRow
  PROVE  /\ \A s : Did(o, s) => Did(o, s)'
         /\ \A d : Asked(o, d) => Asked(o, d)'
         /\ \A d : Offered(o, d) => Offered(o, d)'
         /\ Accepted(o) => Accepted(o)'
         /\ \A from, to, actor : Entitled(o, from, to, actor) <=> Entitled(o, from, to, actor)'
  BY Persist DEF Did, Asked, Offered, Accepted, Entitled

LEMMA SavingPersists ==
  ASSUME TypeInv, RequestInv, [Next]_vars, NEW q \in InFlight,
         orders[q.order] # NoRow, SavingInv(q)
  PROVE  SavingInv(q)'
<1>1. q.order \in OrderIds
  BY DEF InFlight
<1> QED
  BY <1>1, Persist, KnownForever DEF SavingInv

LEMMA EmittingPersists ==
  ASSUME TypeInv, RequestInv, [Next]_vars, NEW q \in InFlight,
         orders[q.order] # NoRow, EmittingInv(q)
  PROVE  EmittingInv(q)'
<1>1. q.order \in OrderIds
  BY DEF InFlight
<1> QED
  BY <1>1, Persist DEF EmittingInv

\* A request that does not move keeps what is known of it.
LEMMA OthersPersist ==
  ASSUME TypeInv, RequestInv, [Next]_vars, NEW r \in Requests, request'[r] = request[r]
  PROVE  /\ (request[r].phase \in {"select", "update"} => SavingInv(request[r]))'
         /\ (request[r].phase = "emit" => EmittingInv(request[r]))'
<1>1. PICK q : q = request[r]
  OBVIOUS
<1>2. request'[r] = q
  BY <1>1
<1>3. CASE q.phase \in Busy
  <2>1. q \in InFlight /\ orders[q.order] # NoRow
    BY <1>1, <1>3, Phases DEF TypeInv, TypeOK, HasRow
  <2>2. ASSUME q.phase \in {"select", "update"} PROVE SavingInv(q)'
    BY <1>1, <2>1, <2>2, SavingPersists DEF RequestInv
  <2>3. ASSUME q.phase = "emit" PROVE EmittingInv(q)'
    BY <1>1, <2>1, <2>3, EmittingPersists DEF RequestInv
  <2>4. (q.phase \in {"select", "update"} => SavingInv(q)')
        /\ (q.phase = "emit" => EmittingInv(q)')
    BY <2>2, <2>3
  <2> QED
    BY <1>2, <2>4 DEF SavingInv, EmittingInv
<1>4. CASE q.phase \notin Busy
  BY <1>2, <1>4 DEF Busy
<1> QED BY <1>3, <1>4

\* What the deeds say of an event's order they go on saying.
LEMMA TruthPersists ==
  ASSUME TypeInv, OrderInv, RequestInv, EventsTellTheTruth, [Next]_vars, UNCHANGED topic
  PROVE  EventsTellTheTruth'
<1> SUFFICES ASSUME NEW t \in Topics, NEW i \in DOMAIN topic[t]
             PROVE  LET e == topic[t][i]
                    IN  /\ TopicOf[e.status] = t
                        /\ (\E d \in deeds'[e.order] :
                             d.to = e.status /\ d.from = e.previous /\ d.actor = e.actor)
                        /\ e.status = "CONFIRMED" => e.proposed = NoDate
                        /\ e.status = "RESCHEDULE_PROPOSED" => e.proposed # NoDate
  BY DEF EventsTellTheTruth
<1> DEFINE e == topic[t][i]
<1>1. e \in Event
  BY DEF TypeInv, TypeOK
<1>2. e.order \in OrderIds
  BY <1>1 DEF Event
<1>3. \E d \in deeds[e.order] :
        d.to = e.status /\ d.from = e.previous /\ d.actor = e.actor
  BY DEF EventsTellTheTruth
<1>4. orders[e.order] # NoRow
  BY <1>2, <1>3 DEF OrderInv
<1>5. deeds[e.order] \subseteq deeds'[e.order]
  BY <1>2, <1>4, Persist
<1> QED
  BY <1>3, <1>5 DEF EventsTellTheTruth

LEMMA IInvCreate ==
  ASSUME IInv, [Next]_vars, NEW r \in Requests, NEW o \in OrderIds, NEW c \in Users,
         NEW p \in Users, NEW d \in Dates, CreateOrder(r, o, c, p, d)
  PROVE  OrderInv' /\ RequestInv' /\ EventsTellTheTruth'
<1> USE DEF IInv, TypeInv
<1> DEFINE row == [client |-> c, provider |-> p, status |-> "PENDING",
                   scheduled |-> d, proposed |-> NoDate]
           q == [phase |-> "emit", order |-> o, actor |-> c, previous |-> "NONE",
                 entity |-> row, changed |-> {}]
           deed == [from |-> "NONE", to |-> "PENDING", actor |-> c, date |-> d]
<1>1. /\ orders[o] = NoRow /\ deeds[o] = {}
      /\ orders' = [orders EXCEPT ![o] = row]
      /\ request' = [request EXCEPT ![r] = q]
      /\ deeds' = [deeds EXCEPT ![o] = @ \cup {deed}]
      /\ topic' = topic
  BY DEF CreateOrder, OrderInv
<1>2. orders'[o] = row /\ deeds'[o] = {deed} /\ request'[r] = q
  BY <1>1 DEF TypeOK
<1>3. row # NoRow
  BY NoRowAssumption DEF Row, Status
<1>4. DeedsInv(o)' /\ RowInv(o)'
  BY <1>2 DEF DeedsInv, RowInv, Did, Asked
<1>5. OrderInv'
  <2> SUFFICES ASSUME NEW x \in OrderIds
               PROVE  (IF orders[x] = NoRow THEN deeds[x] = {} ELSE DeedsInv(x) /\ RowInv(x))'
    BY DEF OrderInv
  <2>1. CASE x = o
    BY <1>2, <1>3, <1>4, <2>1
  <2>2. CASE x # o
    <3>1. orders'[x] = orders[x] /\ deeds'[x] = deeds[x]
      BY <1>1, <2>2 DEF TypeOK
    <3> QED
      BY <3>1 DEF OrderInv, DeedsInv, RowInv, Did, Asked, Offered, Accepted, Entitled
  <2> QED BY <2>1, <2>2
<1>6. EmittingInv(request[r])'
  <2>1. /\ q.order = o /\ q.entity.status = "PENDING"
        /\ deed.to = q.entity.status /\ deed.from = q.previous /\ deed.actor = q.actor
    OBVIOUS
  <2>2. deed \in deeds'[q.order]
    BY <1>2, <2>1
  <2> HIDE DEF deed, q
  <2> QED
    BY <1>2, <2>1, <2>2 DEF EmittingInv
<1>7. RequestInv'
  <2> SUFFICES ASSUME NEW x \in Requests
               PROVE  /\ (request[x].phase \in {"select", "update"} => SavingInv(request[x]))'
                      /\ (request[x].phase = "emit" => EmittingInv(request[x]))'
    BY DEF RequestInv
  <2>1. CASE x = r
    BY <1>2, <1>6, <2>1
  <2>2. CASE x # r
    BY <1>1, <2>2, OthersPersist DEF TypeOK
  <2> QED BY <2>1, <2>2
<1> QED
  BY <1>1, <1>5, <1>7, TruthPersists

\* The entity of a request that has passed the checks.
LEMMA LoadedEntity ==
  ASSUME IInv, NEW o \in OrderIds, orders[o] # NoRow, NEW u \in Users,
         NEW s \in AllowedTransition, NEW d \in Dates \cup {NoDate},
         Permitted(orders[o], u, s, d),
         NEW q, q = [phase |-> "select", order |-> o, actor |-> u,
                     previous |-> orders[o].status, entity |-> Edited(orders[o], s, d),
                     changed |-> {}]
  PROVE  SavingInv(q)
<1> USE DEF IInv, TypeInv
<1> DEFINE row == orders[o]
<1>1. row \in Row /\ RowInv(o)
  BY DEF TypeOK, OrderInv
<1>2. Entitled(o, row.status, s, u)
  BY DEF Permitted, Entitled
<1>3. Edited(row, s, d).status = s
  BY <1>1, EditedType
<1>4. Edited(row, s, d).proposed =
        IF s = "RESCHEDULE_PROPOSED" THEN d
        ELSE IF row.status = "RESCHEDULE_PROPOSED" /\ s = "CONFIRMED" THEN NoDate
        ELSE row.proposed
  BY <1>1 DEF Edited, Row
<1>5. Edited(row, s, d).scheduled =
        IF row.status = "RESCHEDULE_PROPOSED" /\ s = "CONFIRMED" /\ row.proposed # NoDate
        THEN row.proposed ELSE row.scheduled
  BY <1>1 DEF Edited, Row
<1>6. s = "CONFIRMED" => row.status \in {"PENDING", "RESCHEDULE_PROPOSED"}
  BY <1>2 DEF Entitled, Transitions, Table
<1>7. s = "RESCHEDULE_PROPOSED" => d # NoDate
  BY DEF Permitted
<1>8. Did(o, row.status)
  BY <1>1 DEF RowInv
<1>9. s = "CONFIRMED" => Edited(row, s, d).proposed = NoDate
  BY <1>1, <1>4, <1>6 DEF RowInv
<1>10. \/ s = "RESCHEDULE_PROPOSED"
       \/ Edited(row, s, d).proposed = NoDate
       \/ Offered(o, Edited(row, s, d).proposed)
  BY <1>1, <1>4 DEF RowInv
<1>11. \/ Asked(o, Edited(row, s, d).scheduled)
       \/ /\ Offered(o, Edited(row, s, d).scheduled)
          /\ \/ Accepted(o)
             \/ row.status = "RESCHEDULE_PROPOSED" /\ s = "CONFIRMED"
  BY <1>1, <1>5 DEF RowInv
<1> QED
  BY <1>2, <1>3, <1>4, <1>7, <1>8, <1>9, <1>10, <1>11 DEF SavingInv

LEMMA IInvLoad ==
  ASSUME IInv, [Next]_vars, NEW r \in Requests, NEW o \in OrderIds, NEW u \in Users,
         NEW s \in AllowedTransition, NEW d \in Dates \cup {NoDate},
         LoadOrder(r, o, u, s, d)
  PROVE  OrderInv' /\ RequestInv' /\ EventsTellTheTruth'
<1> USE DEF IInv, TypeInv
<1>1. PICK q : q = [phase |-> "select", order |-> o, actor |-> u,
                    previous |-> orders[o].status, entity |-> Edited(orders[o], s, d),
                    changed |-> {}]
  OBVIOUS
<1>2. request' = [request EXCEPT ![r] = q] /\ UNCHANGED <<orders, deeds, topic>>
  BY <1>1 DEF LoadOrder
<1>3. SavingInv(q)
  BY <1>1, LoadedEntity DEF LoadOrder
<1>4. q.phase = "select"
  BY <1>1
<1>5. SavingInv(q)'
  BY <1>2, <1>3 DEF SavingInv, Entitled, Did, Offered, Accepted, Asked
<1>6. OrderInv'
  BY <1>2 DEF OrderInv, DeedsInv, RowInv, Did, Asked, Offered, Accepted, Entitled
<1>7. RequestInv'
  <2> SUFFICES ASSUME NEW x \in Requests
               PROVE  /\ (request[x].phase \in {"select", "update"} => SavingInv(request[x]))'
                      /\ (request[x].phase = "emit" => EmittingInv(request[x]))'
    BY DEF RequestInv
  <2>1. CASE x = r
    BY <1>2, <1>4, <1>5, <2>1 DEF TypeOK, SavingInv
  <2>2. CASE x # r
    BY <1>2, <2>2, OthersPersist DEF TypeOK
  <2> QED BY <2>1, <2>2
<1> QED
  BY <1>2, <1>6, <1>7, TruthPersists

LEMMA IInvSelect ==
  ASSUME IInv, [Next]_vars, NEW r \in Requests, SelectRow(r)
  PROVE  OrderInv' /\ RequestInv' /\ EventsTellTheTruth'
<1> USE DEF IInv, TypeInv
<1>1. PICK q : q = request[r]
  OBVIOUS
<1>2. PICK n : n = [q EXCEPT !.phase = "update",
                             !.changed = Changed(q.entity, orders[q.order])]
  OBVIOUS
<1>3. q \in InFlight /\ q.phase = "select" /\ SavingInv(q) /\ orders[q.order] # NoRow
  BY <1>1, Phases DEF SelectRow, TypeOK, RequestInv, HasRow, Waiting, Over, Busy
<1>4. request' = [request EXCEPT ![r] = n] /\ UNCHANGED <<orders, deeds, topic>>
  BY <1>1, <1>2 DEF SelectRow, TypeOK
<1>5. /\ n.phase = "update" /\ n.order = q.order /\ n.actor = q.actor
      /\ n.previous = q.previous /\ n.entity = q.entity
      /\ n.changed = Changed(q.entity, orders[q.order])
  BY <1>2, <1>3 DEF InFlight
<1>6. q.entity.status # "PENDING"
  BY <1>3 DEF SavingInv, Entitled, Transitions, Table
<1>7. "status" \notin n.changed => orders[n.order].status # "PENDING"
  BY <1>5, <1>6 DEF Changed, Column
<1>8. SavingInv(n)
  BY <1>3, <1>5, <1>7 DEF SavingInv
<1>9. SavingInv(n)'
  BY <1>4, <1>8 DEF SavingInv, Entitled, Did, Offered, Accepted, Asked
<1>10. OrderInv'
  BY <1>4 DEF OrderInv, DeedsInv, RowInv, Did, Asked, Offered, Accepted, Entitled
<1>11. RequestInv'
  <2> SUFFICES ASSUME NEW x \in Requests
               PROVE  /\ (request[x].phase \in {"select", "update"} => SavingInv(request[x]))'
                      /\ (request[x].phase = "emit" => EmittingInv(request[x]))'
    BY DEF RequestInv
  <2>1. CASE x = r
    BY <1>4, <1>5, <1>9, <2>1 DEF TypeOK, SavingInv
  <2>2. CASE x # r
    BY <1>4, <2>2, OthersPersist DEF TypeOK
  <2> QED BY <2>1, <2>2
<1> QED
  BY <1>4, <1>10, <1>11, TruthPersists

\* A request's end: what it leaves is what it found.
LEMMA IInvOver ==
  ASSUME IInv, [Next]_vars, NEW r \in Requests,
         request' = [request EXCEPT ![r] = Over], UNCHANGED <<orders, deeds>>
  PROVE  OrderInv' /\ RequestInv'
<1> USE DEF IInv, TypeInv
<1>1. OrderInv'
  BY DEF OrderInv, DeedsInv, RowInv, Did, Asked, Offered, Accepted, Entitled
<1>2. RequestInv'
  <2> SUFFICES ASSUME NEW x \in Requests
               PROVE  /\ (request[x].phase \in {"select", "update"} => SavingInv(request[x]))'
                      /\ (request[x].phase = "emit" => EmittingInv(request[x]))'
    BY DEF RequestInv
  <2>1. CASE x = r
    BY <2>1, Phases DEF TypeOK
  <2>2. CASE x # r
    BY <2>2, OthersPersist DEF TypeOK
  <2> QED BY <2>1, <2>2
<1> QED
  BY <1>1, <1>2

LEMMA IInvEmit ==
  ASSUME IInv, [Next]_vars, NEW r \in Requests, Emit(r)
  PROVE  OrderInv' /\ RequestInv' /\ EventsTellTheTruth'
<1> USE DEF IInv, TypeInv
<1> DEFINE q == request[r]
           kind == TopicOf[q.entity.status]
           event == EventOf(q)
<1>1. PICK copies \in {<<event>>, <<event, event>>} :
        topic' = [topic EXCEPT ![kind] = @ \o copies]
  BY DEF Emit
<1>2. request' = [request EXCEPT ![r] = Over] /\ UNCHANGED <<orders, deeds>>
  BY DEF Emit
<1>3. q \in InFlight /\ EmittingInv(q) /\ kind \in Topics
  BY Phases DEF Emit, TypeOK, RequestInv, EmitsSomething, Waiting, Over
<1>4. /\ event \in Event /\ event.status = q.entity.status /\ event.order = q.order
      /\ event.previous = q.previous /\ event.actor = q.actor
      /\ event.proposed = q.entity.proposed
  BY <1>3, EventType DEF EventOf
<1>5. EventsTellTheTruth'
  <2> SUFFICES ASSUME NEW t \in Topics, NEW i \in DOMAIN topic'[t]
               PROVE  LET e == topic'[t][i]
                      IN  /\ TopicOf[e.status] = t
                          /\ (\E d \in deeds[e.order] :
                               d.to = e.status /\ d.from = e.previous /\ d.actor = e.actor)
                          /\ e.status = "CONFIRMED" => e.proposed = NoDate
                          /\ e.status = "RESCHEDULE_PROPOSED" => e.proposed # NoDate
    BY <1>2 DEF EventsTellTheTruth
  <2>1. CASE t # kind
    BY <1>1, <2>1 DEF TypeOK, EventsTellTheTruth
  <2>2. CASE t = kind
    <3>1. topic'[t] = topic[t] \o copies
      BY <1>1, <1>3, <2>2 DEF TypeOK
    <3>2. topic[t] \in Seq(Event) /\ copies \in Seq(Event)
      <4>1. <<event>> \in Seq(Event) /\ <<event, event>> \in Seq(Event)
        BY <1>4
      <4> HIDE DEF event, kind
      <4> QED BY <4>1 DEF TypeOK
    <3>3. \A k \in DOMAIN copies : copies[k] = event
      OBVIOUS
    <3>4. CASE i \in DOMAIN topic[t]
      <4>1. topic'[t][i] = topic[t][i]
        BY <3>1, <3>2, <3>4
      <4> QED
        BY <3>4, <4>1 DEF EventsTellTheTruth
    <3>5. CASE i \notin DOMAIN topic[t]
      <4>1. i - Len(topic[t]) \in DOMAIN copies
            /\ topic'[t][i] = copies[i - Len(topic[t])]
        BY <3>1, <3>2, <3>5
      <4>2. topic'[t][i] = event
        BY <3>3, <4>1
      <4> HIDE DEF event, q
      <4>3. \E d \in deeds[event.order] :
              d.to = event.status /\ d.from = event.previous /\ d.actor = event.actor
        BY <1>3, <1>4 DEF EmittingInv
      <4> QED
        BY <1>3, <1>4, <2>2, <4>2, <4>3 DEF EmittingInv
    <3> QED BY <3>4, <3>5
  <2> QED BY <2>1, <2>2
<1> QED
  BY <1>2, <1>5, IInvOver

LEMMA IInvUpdate ==
  ASSUME IInv, [Next]_vars, NEW r \in Requests, UpdateRow(r)
  PROVE  OrderInv' /\ RequestInv' /\ EventsTellTheTruth'
<1> USE DEF IInv, TypeInv
<1>1. PICK q : q = request[r]
  OBVIOUS
<1>2. PICK deed : deed = [from |-> q.previous, to |-> q.entity.status, actor |-> q.actor,
                          date |-> IF q.entity.status = "RESCHEDULE_PROPOSED"
                                   THEN q.entity.proposed ELSE NoDate]
  OBVIOUS
<1>3. PICK o : o = q.order
  OBVIOUS
<1>4. PICK row : row = Overlay(orders[o], q.entity, q.changed)
  OBVIOUS
<1>5. q \in InFlight /\ q.phase = "update" /\ SavingInv(q) /\ orders[o] # NoRow
  BY <1>1, <1>3, Phases DEF UpdateRow, TypeOK, RequestInv, HasRow, Waiting, Over, Busy
<1>6. /\ o \in OrderIds /\ q.entity \in Row /\ q.changed \in SUBSET Column
      /\ orders[o] \in Row
  BY <1>3, <1>5 DEF InFlight, TypeOK
<1>7. /\ orders' = [orders EXCEPT ![o] = row]
      /\ deeds' = [deeds EXCEPT ![o] = @ \cup {deed}]
      /\ topic' = topic
      /\ \A x \in Requests : x # r => request'[x] = request[x]
  BY <1>1, <1>2, <1>3, <1>4 DEF UpdateRow, TypeOK
<1>8. orders'[o] = row /\ deeds'[o] = deeds[o] \cup {deed}
  BY <1>6, <1>7 DEF TypeOK
<1>9. /\ row # NoRow
      /\ row.client = orders[o].client /\ row.provider = orders[o].provider
      /\ row.status = (IF "status" \in q.changed THEN q.entity.status ELSE orders[o].status)
      /\ row.scheduled =
           (IF "scheduled" \in q.changed THEN q.entity.scheduled ELSE orders[o].scheduled)
      /\ row.proposed =
           (IF "proposed" \in q.changed THEN q.entity.proposed ELSE orders[o].proposed)
  BY <1>4, <1>6, OverlayType, NoRowAssumption
<1>10. DeedsInv(o) /\ RowInv(o)
  BY <1>5, <1>6 DEF OrderInv
<1>11. /\ \A s : Did(o, s) => Did(o, s)'
       /\ \A d : Asked(o, d) => Asked(o, d)'
       /\ \A d : Offered(o, d) => Offered(o, d)'
       /\ Accepted(o) => Accepted(o)'
       /\ \A from, to, actor : Entitled(o, from, to, actor) <=> Entitled(o, from, to, actor)'
  BY <1>5, <1>6, KnownForever
<1>12. /\ deed.from = q.previous /\ deed.to = q.entity.status /\ deed.actor = q.actor
       /\ q.entity.status = "RESCHEDULE_PROPOSED" => deed.date = q.entity.proposed
  BY <1>2
<1>13. deed \in deeds'[o]
  BY <1>8
<1>14. /\ Entitled(o, deed.from, deed.to, deed.actor) /\ Did(o, deed.from)
       /\ Did(o, deed.to)'
  BY <1>3, <1>5, <1>12, <1>13 DEF SavingInv, Did
<1>15. DeedsInv(o)'
  BY <1>8, <1>10, <1>11, <1>14 DEF DeedsInv
<1>16. q.entity.status = "RESCHEDULE_PROPOSED" => Offered(o, q.entity.proposed)'
  <2> SUFFICES ASSUME q.entity.status = "RESCHEDULE_PROPOSED"
               PROVE  Offered(o, q.entity.proposed)'
    OBVIOUS
  <2>1. deed.actor = orders[o].provider
    BY <1>3, <1>5, <1>12 DEF SavingInv, Entitled, Transitions, Table, ProviderOnly
  <2> QED
    BY <1>8, <1>9, <1>12, <1>13, <2>1 DEF Offered
<1>17. (q.previous = "RESCHEDULE_PROPOSED" /\ q.entity.status = "CONFIRMED") => Accepted(o)'
  <2> SUFFICES ASSUME q.previous = "RESCHEDULE_PROPOSED", q.entity.status = "CONFIRMED"
               PROVE  Accepted(o)'
    OBVIOUS
  <2>1. deed.actor = orders[o].client
    BY <1>3, <1>5, <1>12 DEF SavingInv, Entitled, ClientOnly
  <2> QED
    BY <1>8, <1>9, <1>12, <1>13, <2>1 DEF Accepted
<1>18. RowInv(o)'
  <2>1. Did(o, row.status)'
    BY <1>9, <1>10, <1>11, <1>12, <1>14 DEF RowInv
  <2>2. row.status # "PENDING"
    BY <1>3, <1>5, <1>9 DEF SavingInv, Entitled, Transitions, Table
  <2>3. row.proposed # NoDate => Offered(o, row.proposed)'
    <3>1. q.entity.proposed # NoDate => Offered(o, q.entity.proposed)'
      BY <1>3, <1>5, <1>11, <1>16 DEF SavingInv
    <3>2. PICK d : d = orders[o].proposed
      OBVIOUS
    <3>3. d # NoDate => Offered(o, d)'
      BY <1>10, <1>11, <3>2 DEF RowInv
    <3> QED BY <1>9, <3>1, <3>2, <3>3
  <2>4. Asked(o, row.scheduled)' \/ (Offered(o, row.scheduled)' /\ Accepted(o)')
    <3>1. \/ Asked(o, q.entity.scheduled)'
          \/ Offered(o, q.entity.scheduled)' /\ Accepted(o)'
      BY <1>3, <1>5, <1>11, <1>17 DEF SavingInv
    <3>2. PICK d : d = orders[o].scheduled
      OBVIOUS
    <3>3. Asked(o, d)' \/ (Offered(o, d)' /\ Accepted(o)')
      BY <1>10, <1>11, <3>2 DEF RowInv
    <3> QED BY <1>9, <3>1, <3>2, <3>3
  <2> QED
    BY <1>8, <2>1, <2>2, <2>3, <2>4 DEF RowInv, Did, Offered, Asked, Accepted
<1>19. OrderInv'
  <2> SUFFICES ASSUME NEW x \in OrderIds
               PROVE  (IF orders[x] = NoRow THEN deeds[x] = {} ELSE DeedsInv(x) /\ RowInv(x))'
    BY DEF OrderInv
  <2>1. CASE x = o
    BY <1>8, <1>9, <1>15, <1>18, <2>1
  <2>2. CASE x # o
    <3>1. orders'[x] = orders[x] /\ deeds'[x] = deeds[x]
      BY <1>7, <2>2 DEF TypeOK
    <3> QED
      BY <3>1 DEF OrderInv, DeedsInv, RowInv, Did, Asked, Offered, Accepted, Entitled
  <2> QED BY <2>1, <2>2
<1>20. PICK n : n = request'[r]
  OBVIOUS
<1>21. /\ n.phase \notin {"select", "update"}
       /\ n.phase = "emit" => n.order = q.order /\ n.entity = q.entity
                              /\ n.previous = q.previous /\ n.actor = q.actor
  <2>1. n = IF TopicOf[q.entity.status] = "none" THEN Over ELSE [q EXCEPT !.phase = "emit"]
    BY <1>1, <1>20 DEF UpdateRow, TypeOK
  <2> QED BY <1>5, <2>1, Phases DEF InFlight
<1>22. n.phase = "emit" => EmittingInv(n)'
  BY <1>3, <1>5, <1>12, <1>13, <1>21 DEF EmittingInv, SavingInv
<1>23. RequestInv'
  <2> SUFFICES ASSUME NEW x \in Requests
               PROVE  /\ (request[x].phase \in {"select", "update"} => SavingInv(request[x]))'
                      /\ (request[x].phase = "emit" => EmittingInv(request[x]))'
    BY DEF RequestInv
  <2>1. CASE x = r
    BY <1>20, <1>21, <1>22, <2>1 DEF EmittingInv
  <2>2. CASE x # r
    BY <1>7, <2>2, OthersPersist
  <2> QED BY <2>1, <2>2
<1> QED
  BY <1>7, <1>19, <1>23, TruthPersists

LEMMA IInvStep ==
  ASSUME IInv, [Next]_vars
  PROVE  IInv'
<1>1. TypeInv'
  BY TypeInvStep DEF IInv
<1>2. CASE UNCHANGED vars
  BY <1>2 DEF vars, IInv, OrderInv, RequestInv, EventsTellTheTruth, TypeInv, TypeOK,
              EmitsSomething, HasRow, DeedsInv, RowInv, SavingInv, EmittingInv, Did,
              Asked, Offered, Accepted, Entitled
<1>3. ASSUME NEW r \in Requests, EmitFails(r) \/ Abort(r)
      PROVE  OrderInv' /\ RequestInv' /\ EventsTellTheTruth'
  <2>1. request' = [request EXCEPT ![r] = Over] /\ UNCHANGED <<orders, deeds, topic>>
    BY <1>3 DEF EmitFails, Abort
  <2> QED
    BY <2>1, IInvOver, TruthPersists DEF IInv
<1>4. CASE Next
  BY <1>1, <1>3, <1>4, IInvCreate, IInvLoad, IInvSelect, IInvUpdate, IInvEmit
  DEF Next, Handle, IInv
<1> QED
  BY <1>2, <1>4

LEMMA IInvInit == Init => IInv
<1> SUFFICES ASSUME Init PROVE IInv
  OBVIOUS
<1>1. TypeInv
  BY Phases DEF Init, TypeInv, TypeOK, EmitsSomething, HasRow
<1>2. OrderInv
  BY DEF Init, OrderInv
<1>3. RequestInv
  BY Phases DEF Init, RequestInv
<1>4. EventsTellTheTruth
  BY DEF Init, EventsTellTheTruth
<1> QED
  BY <1>1, <1>2, <1>3, <1>4 DEF IInv

LEMMA Invariance == Spec => []IInv
  BY IInvInit, IInvStep, PTL DEF Spec

-----------------------------------------------------------------------------
(* What follows from the invariant.                                        *)

LEMMA IInvConsent == IInv => Consent
<1> SUFFICES ASSUME IInv, NEW o \in OrderIds, orders[o] # NoRow
             PROVE  /\ orders[o].status \in {"CONFIRMED", "IN_PROGRESS", "COMPLETED"}
                         => BothAgreed(o)
                    /\ orders[o].status = "COMPLETED" =>
                         \E start \in deeds[o] : /\ start.to = "IN_PROGRESS"
                                                 /\ start.actor = orders[o].provider
  BY DEF Consent
<1>1. DeedsInv(o) /\ Did(o, orders[o].status)
  BY DEF IInv, OrderInv, RowInv
<1>2. Did(o, "RESCHEDULE_PROPOSED") =>
        \E offer \in deeds[o] : /\ offer.to = "RESCHEDULE_PROPOSED"
                                /\ offer.actor = orders[o].provider
  BY <1>1 DEF Did, DeedsInv, Entitled, Transitions, Table, ProviderOnly
<1>3. Did(o, "CONFIRMED") => BothAgreed(o)
  <2> SUFFICES ASSUME NEW yes \in deeds[o], yes.to = "CONFIRMED"
               PROVE  BothAgreed(o)
    BY DEF Did
  <2>1. /\ Entitled(o, yes.from, yes.to, yes.actor) /\ Did(o, yes.from)
        /\ yes.from \in {"PENDING", "RESCHEDULE_PROPOSED"}
    BY <1>1 DEF DeedsInv, Entitled, Transitions, Table
  <2>2. CASE yes.from = "PENDING"
    BY <2>1, <2>2 DEF BothAgreed, Entitled, ProviderOnly
  <2>3. CASE yes.from = "RESCHEDULE_PROPOSED"
    BY <1>2, <2>1, <2>3 DEF BothAgreed, Entitled, ClientOnly
  <2> QED BY <2>1, <2>2, <2>3
<1>4. Did(o, "IN_PROGRESS") =>
        /\ Did(o, "CONFIRMED")
        /\ \E start \in deeds[o] : /\ start.to = "IN_PROGRESS"
                                   /\ start.actor = orders[o].provider
  BY <1>1 DEF Did, DeedsInv, Entitled, Transitions, Table, ProviderOnly
<1>5. Did(o, "COMPLETED") => Did(o, "IN_PROGRESS")
  BY <1>1 DEF Did, DeedsInv, Entitled, Transitions, Table
<1> QED
  BY <1>1, <1>3, <1>4, <1>5

\* However requests interleave, no order is confirmed, under way or completed
\* without the agreement of both sides (updateStatus).
THEOREM ConsentHolds == Spec => []Consent
  BY Invariance, IInvConsent, PTL

\* However requests interleave, the date of the service was agreed.
THEOREM DateWasAgreedHolds == Spec => []DateWasAgreed
<1>1. IInv => DateWasAgreed
  BY DEF IInv, OrderInv, RowInv, Asked, Offered, Accepted, DateWasAgreed
<1> QED
  BY <1>1, Invariance, PTL

\* However requests interleave, an event published by the booking service
\* tells of a write that was committed before it.
THEOREM EventsTellTheTruthHolds == Spec => []EventsTellTheTruth
<1>1. IInv => EventsTellTheTruth
  BY DEF IInv
<1> QED
  BY <1>1, Invariance, PTL

\* However requests interleaved, an order that is completed or cancelled and
\* has no request left under way never changes again.
THEOREM SettledIsFinalHolds == Spec => SettledIsFinal
<1> DEFINE Settled(o) == orders[o] # NoRow /\ orders[o].status \in Terminal /\ Quiet(o)
           Stays(o) == orders'[o] = orders[o] /\ Quiet(o)'
<1>1. ASSUME TypeOK, [Next]_vars, NEW o \in OrderIds, Settled(o)
      PROVE  Stays(o)
  <2> USE Phases DEF Quiet, Busy, TypeOK
  <2>1. ASSUME NEW r \in Requests, NEW n \in OrderIds, NEW c \in Users, NEW p \in Users,
               NEW d \in Dates, CreateOrder(r, n, c, p, d)
        PROVE  Stays(o)
    BY <1>1, <2>1 DEF CreateOrder
  <2>2. ASSUME NEW r \in Requests, NEW n \in OrderIds, NEW u \in Users,
               NEW s \in AllowedTransition, NEW d \in Dates \cup {NoDate},
               LoadOrder(r, n, u, s, d)
        PROVE  Stays(o)
    <3>1. n # o
      BY <1>1, <2>2 DEF LoadOrder, Permitted, Transitions, Table, Terminal
    <3> QED BY <1>1, <2>2, <3>1 DEF LoadOrder
  <2>3. ASSUME NEW r \in Requests, Handle(r)
        PROVE  Stays(o)
    <3>1. request[r].order # o /\ request[r] \in InFlight
      BY <1>1, <2>3 DEF Handle, SelectRow, UpdateRow, Emit, EmitFails, Abort
    <3>2. CASE UpdateRow(r)
      BY <1>1, <2>3, <3>1, <3>2 DEF UpdateRow, InFlight
    <3>3. CASE SelectRow(r)
      BY <1>1, <3>1, <3>3 DEF SelectRow, InFlight
    <3>4. CASE Emit(r) \/ EmitFails(r) \/ Abort(r)
      BY <1>1, <3>1, <3>4 DEF Emit, EmitFails, Abort
    <3> QED BY <2>3, <3>2, <3>3, <3>4 DEF Handle
  <2>4. CASE UNCHANGED vars
    BY <1>1, <2>4 DEF vars
  <2> QED
    BY <1>1, <2>1, <2>2, <2>3, <2>4 DEF Next
<1>2. TypeOK /\ [Next]_vars => [\A o \in OrderIds : Settled(o) => Stays(o)]_vars
  BY <1>1
<1> QED
  BY <1>2, TypeCorrect, PTL DEF Spec, SettledIsFinal

-----------------------------------------------------------------------------
(* Requests that do not overlap: the service implements OrderLifecycle,    *)
(* and one confirmation of an order is ever announced.  A request that is  *)
(* alone with its order (Turns) still has the row it read when it saves    *)
(* (Fresh), so the two statements of repo.save amount to the step the      *)
(* checks allowed.                                                         *)

Turns ==
  \A r, s \in Requests :
    (/\ request[r].phase \in Busy /\ request[s].phase \in Busy
     /\ request[r].order = request[s].order) => r = s

\* What the request will save is what it may make of the row as it is now.
HoldsFresh(q) ==
  /\ \E to \in AllowedTransition, date \in Dates \cup {NoDate} :
       /\ Permitted(orders[q.order], q.actor, to, date)
       /\ q.entity = Edited(orders[q.order], to, date)
  /\ q.phase = "update" => q.changed = Changed(q.entity, orders[q.order])

Fresh ==
  \A r \in Requests : request[r].phase \in {"select", "update"} => HoldsFresh(request[r])

ProposalsDated ==
  \A o \in OrderIds : (orders[o] # NoRow /\ orders[o].status = "RESCHEDULE_PROPOSED") =>
    orders[o].proposed # NoDate

\* The statuses from which no order is confirmed any more.
Beyond == {"CONFIRMED", "IN_PROGRESS", "COMPLETED", "CANCELLED"}

confirmations == topic["order_confirmed"]

ConfirmedBeyond ==
  \A i \in DOMAIN confirmations :
    orders[confirmations[i].order] # NoRow /\ orders[confirmations[i].order].status \in Beyond

\* A request about to announce a confirmation is the first to.
FirstToSay ==
  \A r \in Requests : (request[r].phase = "emit" /\ request[r].entity.status = "CONFIRMED") =>
    /\ orders[request[r].order].status \in Beyond
    /\ \A i \in DOMAIN confirmations : confirmations[i].order # request[r].order

SInv ==
  TypeInv /\ Turns /\ Fresh /\ ProposalsDated /\ ConfirmedBeyond /\ FirstToSay /\ ConfirmedOnce

LEMMA SInvInit ==
  ASSUME Init
  PROVE  SInv
  <1>1. TypeInv
    BY Phases DEF Init, TypeInv, TypeOK, EmitsSomething, HasRow, Busy, Waiting
  <1>2. confirmations = <<>>
    BY DEF Init, confirmations, Topics
  <1>3. Turns /\ Fresh /\ FirstToSay
    BY DEF Init, Turns, Fresh, FirstToSay, Waiting, Busy
  <1>4. ProposalsDated
    BY DEF Init, ProposalsDated
  <1>5. ConfirmedBeyond /\ ConfirmedOnce
    BY <1>2 DEF ConfirmedBeyond, ConfirmedOnce, confirmations
  <1> QED
    BY <1>1, <1>3, <1>4, <1>5 DEF SInv

LEMMA SerialStepIsStep ==
  ASSUME [SerialNext]_vars
  PROVE  [Next]_vars
  BY DEF SerialNext, Next

-----------------------------------------------------------------------------
(* The shape of a request under way, and of a save.                        *)

LEMMA BusyShape ==
  ASSUME TypeInv, NEW r \in Requests, request[r].phase \in Busy
  PROVE  /\ request[r] \in InFlight /\ request[r].order \in OrderIds
         /\ request[r].entity \in Row /\ orders[request[r].order] \in Row
  <1>1. request[r] \in InFlight
    BY Phases DEF TypeInv, TypeOK
  <1>2. orders[request[r].order] # NoRow
    BY DEF TypeInv, HasRow
  <1> QED
    BY <1>1, <1>2 DEF InFlight, TypeInv, TypeOK

\* Writing the columns that differ makes the row what the request holds.
LEMMA OverlayAll ==
  ASSUME NEW row \in Row, NEW entity \in Row,
         entity.client = row.client, entity.provider = row.provider
  PROVE  Overlay(row, entity, Changed(entity, row)) = entity
  <1>1. Overlay(row, entity, Changed(entity, row)) \in Row
    BY OverlayType DEF Changed
  <1>2. PICK saved \in Row : saved = Overlay(row, entity, Changed(entity, row))
    BY <1>1
  <1>3. /\ saved.client = entity.client /\ saved.provider = entity.provider
        /\ saved.status = entity.status
        /\ saved.scheduled = entity.scheduled /\ saved.proposed = entity.proposed
    BY <1>2, OverlayType DEF Changed, Column
  <1>4. saved = entity
    BY <1>3 DEF Row
  <1> QED
    BY <1>2, <1>4

\* The save is the step that the checks allowed.
LEMMA SaveIsStep ==
  ASSUME SInv, NEW r \in Requests, UpdateRow(r)
  PROVE  \E to \in AllowedTransition, date \in Dates \cup {NoDate} :
           /\ Permitted(orders[request[r].order], request[r].actor, to, date)
           /\ request[r].entity = Edited(orders[request[r].order], to, date)
           /\ request[r].entity.status = to
           /\ orders' = [orders EXCEPT ![request[r].order] = request[r].entity]
  <1>1. PICK q : q = request[r]
    OBVIOUS
  <1>2. q.phase = "update" /\ orders' = [orders EXCEPT ![q.order] = Overlay(@, q.entity, q.changed)]
    BY <1>1 DEF UpdateRow
  <1>3. q.order \in OrderIds /\ q.entity \in Row /\ orders[q.order] \in Row
    BY <1>1, <1>2, BusyShape DEF Busy, SInv
  <1>4. PICK to \in AllowedTransition, date \in Dates \cup {NoDate} :
          /\ Permitted(orders[q.order], q.actor, to, date)
          /\ q.entity = Edited(orders[q.order], to, date)
          /\ q.changed = Changed(q.entity, orders[q.order])
    BY <1>1, <1>2 DEF SInv, Fresh, HoldsFresh
  <1>5. /\ q.entity.client = orders[q.order].client
        /\ q.entity.provider = orders[q.order].provider
        /\ q.entity.status = to
    BY <1>3, <1>4, EditedType
  <1>6. Overlay(orders[q.order], q.entity, q.changed) = q.entity
    BY <1>3, <1>4, <1>5, OverlayAll
  <1>7. orders' = [orders EXCEPT ![q.order] = q.entity]
    BY <1>2, <1>6 DEF SInv, TypeInv, TypeOK
  <1> QED
    BY <1>1, <1>4, <1>5, <1>7

\* The other requests have other orders.
LEMMA OthersKept ==
  ASSUME SInv, NEW o \in OrderIds, NEW s \in Requests,
         \A p \in OrderIds \ {o} : orders'[p] = orders[p],
         request'[s] = request[s], request[s].phase \in Busy => request[s].order # o
  PROVE  /\ request[s].phase \in Busy => orders'[request[s].order] = orders[request[s].order]
         /\ request[s].phase \in {"select", "update"} => HoldsFresh(request[s])'
  <1>1. request[s].phase \in Busy => request[s].order \in OrderIds
    BY BusyShape DEF SInv
  <1>2. request[s].phase \in Busy => orders'[request[s].order] = orders[request[s].order]
    BY <1>1
  <1>3. request[s].phase \in {"select", "update"} => HoldsFresh(request[s])
    BY DEF SInv, Fresh
  <1>4. request[s].phase \in {"select", "update"} => HoldsFresh(request[s])'
    BY <1>2, <1>3 DEF HoldsFresh, Busy
  <1> QED
    BY <1>2, <1>4

\* A request that is new to its order, goes on with it, or leaves it.
LEMMA TurnsKept ==
  ASSUME SInv, NEW r \in Requests, NEW v, request' = [request EXCEPT ![r] = v],
         v.phase \in Busy =>
           \/ request[r].phase \in Busy /\ request[r].order = v.order
           \/ Quiet(v.order)
  PROVE  Turns'
  <1>1. \A s \in Requests : request'[s] = IF s = r THEN v ELSE request[s]
    BY DEF SInv, TypeInv, TypeOK
  <1>2. \A s \in Requests \ {r} :
          (v.phase \in Busy /\ request[s].phase \in Busy) => request[s].order # v.order
    BY DEF SInv, Turns, Quiet
  <1>3. \A s, t \in Requests :
          (/\ request'[s].phase \in Busy /\ request'[t].phase \in Busy
           /\ request'[s].order = request'[t].order) => s = t
    BY <1>1, <1>2 DEF SInv, Turns
  <1> QED
    BY <1>3 DEF Turns, Busy

-----------------------------------------------------------------------------
LEMMA SInvCreate ==
  ASSUME SInv, TypeInv', NEW r \in Requests, NEW o \in OrderIds, NEW c \in Users,
         NEW p \in Users, NEW d \in Dates, CreateOrder(r, o, c, p, d)
  PROVE  SInv'
  <1> DEFINE row == [client |-> c, provider |-> p, status |-> "PENDING",
                     scheduled |-> d, proposed |-> NoDate]
             v == [phase |-> "emit", order |-> o, actor |-> c, previous |-> "NONE",
                   entity |-> row, changed |-> {}]
  <1>1. /\ orders[o] = NoRow /\ orders' = [orders EXCEPT ![o] = row]
        /\ request' = [request EXCEPT ![r] = v] /\ topic' = topic
    BY DEF CreateOrder
  <1>2. row \in Row /\ row # NoRow
    BY NoRowAssumption DEF Row, Status
  <1>3. /\ \A s \in Requests : request'[s] = IF s = r THEN v ELSE request[s]
        /\ \A n \in OrderIds : orders'[n] = IF n = o THEN row ELSE orders[n]
    BY <1>1 DEF SInv, TypeInv, TypeOK
  <1>4. v.phase = "emit" /\ v.order = o /\ v.entity.status = "PENDING" /\ row.status = "PENDING"
    OBVIOUS
  <1>5. Quiet(o)
    BY <1>1 DEF SInv, TypeInv, HasRow, Quiet
  <1> HIDE DEF row, v
  <1>6. Turns'
    BY <1>1, <1>4, <1>5, TurnsKept
  <1>7. \A s \in Requests \ {r} :
          /\ request[s].phase \in Busy => orders'[request[s].order] = orders[request[s].order]
          /\ request[s].phase \in {"select", "update"} => HoldsFresh(request[s])'
    <2> SUFFICES ASSUME NEW s \in Requests \ {r}
                 PROVE /\ request[s].phase \in Busy =>
                            orders'[request[s].order] = orders[request[s].order]
                       /\ request[s].phase \in {"select", "update"} => HoldsFresh(request[s])'
      OBVIOUS
    <2>1. /\ \A n \in OrderIds \ {o} : orders'[n] = orders[n]
          /\ request'[s] = request[s] /\ (request[s].phase \in Busy => request[s].order # o)
      BY <1>3, <1>5 DEF Quiet
    <2> QED
      BY <2>1, OthersKept
  <1>8. Fresh'
    BY <1>3, <1>4, <1>7 DEF Fresh, HoldsFresh
  <1>9. ProposalsDated'
    BY <1>3, <1>4 DEF SInv, ProposalsDated
  <1>10. \A i \in DOMAIN confirmations :
           confirmations[i].order \in OrderIds /\ confirmations[i].order # o
    <2>1. confirmations \in Seq(Event)
      BY DEF SInv, TypeInv, TypeOK, confirmations, Topics
    <2>2. \A i \in DOMAIN confirmations : confirmations[i] \in Event
      BY <2>1
    <2>3. \A i \in DOMAIN confirmations : orders[confirmations[i].order] # NoRow
      BY DEF SInv, ConfirmedBeyond
    <2> QED
      BY <1>1, <2>2, <2>3 DEF Event
  <1>11. ConfirmedBeyond'
    BY <1>1, <1>3, <1>10 DEF SInv, ConfirmedBeyond, confirmations
  <1>12. FirstToSay'
    BY <1>1, <1>3, <1>4, <1>7 DEF SInv, FirstToSay, confirmations, Busy
  <1>13. ConfirmedOnce'
    BY <1>1 DEF SInv, ConfirmedOnce
  <1> QED
    BY <1>6, <1>8, <1>9, <1>11, <1>12, <1>13 DEF SInv

\* A request that neither saves nor emits in this step.
LEMMA SInvMoves ==
  ASSUME SInv, TypeInv', NEW r \in Requests, NEW v, request' = [request EXCEPT ![r] = v],
         UNCHANGED <<orders, topic>>,
         v.phase \in Busy =>
           \/ request[r].phase \in Busy /\ request[r].order = v.order
           \/ Quiet(v.order),
         v.phase # "emit",
         v.phase \in {"select", "update"} => HoldsFresh(v)
  PROVE  SInv'
  <1>1. \A s \in Requests : request'[s] = IF s = r THEN v ELSE request[s]
    BY DEF SInv, TypeInv, TypeOK
  <1>2. Turns'
    BY TurnsKept
  <1>3. Fresh'
    <2> SUFFICES ASSUME NEW s \in Requests, request'[s].phase \in {"select", "update"}
                 PROVE  HoldsFresh(request[s])'
      BY DEF Fresh
    <2>1. PICK w : w = request'[s]
      OBVIOUS
    <2>2. HoldsFresh(w)
      BY <1>1, <2>1 DEF SInv, Fresh
    <2> QED
      BY <2>1, <2>2 DEF HoldsFresh
  <1>4. ProposalsDated' /\ ConfirmedBeyond' /\ ConfirmedOnce'
    BY DEF SInv, ProposalsDated, ConfirmedBeyond, ConfirmedOnce, confirmations
  <1>5. FirstToSay'
    BY <1>1 DEF SInv, FirstToSay, confirmations
  <1> QED
    BY <1>2, <1>3, <1>4, <1>5 DEF SInv

LEMMA SInvLoad ==
  ASSUME SInv, TypeInv', NEW r \in Requests, NEW o \in OrderIds, NEW u \in Users,
         NEW to \in AllowedTransition, NEW date \in Dates \cup {NoDate},
         Quiet(o), LoadOrder(r, o, u, to, date)
  PROVE  SInv'
  <1> DEFINE v == [phase |-> "select", order |-> o, actor |-> u, previous |-> orders[o].status,
                   entity |-> Edited(orders[o], to, date), changed |-> {}]
  <1>1. /\ Permitted(orders[o], u, to, date) /\ request' = [request EXCEPT ![r] = v]
        /\ UNCHANGED <<orders, topic>>
    BY DEF LoadOrder
  <1>2. HoldsFresh(v)
    BY <1>1 DEF HoldsFresh
  <1>3. v.phase = "select" /\ v.order = o
    OBVIOUS
  <1> HIDE DEF v
  <1> QED
    BY <1>1, <1>2, <1>3, SInvMoves

LEMMA SInvSelect ==
  ASSUME SInv, TypeInv', NEW r \in Requests, SelectRow(r)
  PROVE  SInv'
  <1>1. PICK q : q = request[r]
    OBVIOUS
  <1> DEFINE v == [q EXCEPT !.phase = "update", !.changed = Changed(q.entity, orders[q.order])]
  <1>2. q.phase = "select" /\ UNCHANGED <<orders, topic>>
    BY <1>1 DEF SelectRow
  <1>3. q \in InFlight
    BY <1>1, <1>2, BusyShape DEF SInv, Busy
  <1>4. request' = [request EXCEPT ![r] = v]
    BY <1>1, <1>3 DEF SelectRow, SInv, TypeInv, TypeOK
  <1>5. /\ v.phase = "update" /\ v.order = q.order /\ v.actor = q.actor /\ v.entity = q.entity
        /\ v.changed = Changed(q.entity, orders[q.order])
    BY <1>3 DEF InFlight
  <1> HIDE DEF v
  <1>6. HoldsFresh(v)
    BY <1>1, <1>2, <1>5 DEF SInv, Fresh, HoldsFresh
  <1> QED
    BY <1>1, <1>2, <1>4, <1>5, <1>6, SInvMoves DEF Busy

LEMMA SInvOver ==
  ASSUME SInv, TypeInv', NEW r \in Requests, EmitFails(r) \/ Abort(r)
  PROVE  SInv'
  <1>1. request' = [request EXCEPT ![r] = Over] /\ UNCHANGED <<orders, topic>>
    BY DEF EmitFails, Abort
  <1>2. Over.phase = "over"
    BY DEF Over
  <1> QED
    BY <1>1, <1>2, SInvMoves DEF Busy

\* What the save may do to a status: nothing confirms an order for the second
\* time, and none that was confirmed or cancelled is open again.
LEMMA StepBeyond ==
  ASSUME NEW row \in Row, NEW actor, NEW to \in AllowedTransition,
         NEW date \in Dates \cup {NoDate}, Permitted(row, actor, to, date)
  PROVE  /\ row.status \in Beyond => to \in Beyond /\ to # "CONFIRMED"
         /\ to = "CONFIRMED" => row.status \notin Beyond
         /\ to = "RESCHEDULE_PROPOSED" => Edited(row, to, date).proposed # NoDate
  BY DEF Permitted, Transitions, Table, Beyond, Edited, Row

LEMMA SInvUpdate ==
  ASSUME SInv, TypeInv', NEW r \in Requests, UpdateRow(r)
  PROVE  SInv'
  <1>1. PICK q : q = request[r]
    OBVIOUS
  <1>2. PICK to \in AllowedTransition, date \in Dates \cup {NoDate} :
          /\ Permitted(orders[q.order], q.actor, to, date)
          /\ q.entity = Edited(orders[q.order], to, date)
          /\ q.entity.status = to
          /\ orders' = [orders EXCEPT ![q.order] = q.entity]
    BY <1>1, SaveIsStep
  <1>3. /\ q.phase = "update" /\ topic' = topic
        /\ q \in InFlight /\ q.order \in OrderIds /\ q.entity \in Row /\ orders[q.order] \in Row
    BY <1>1, BusyShape DEF UpdateRow, SInv, Busy
  <1>4. PICK v : /\ request' = [request EXCEPT ![r] = v]
                 /\ v.phase = "over" \/ (v.phase = "emit" /\ v.order = q.order /\ v.entity = q.entity)
    <2>1. Over.phase = "over"
      BY DEF Over
    <2>2. PICK w : w = [q EXCEPT !.phase = "emit"]
      OBVIOUS
    <2>3. w.phase = "emit" /\ w.order = q.order /\ w.entity = q.entity
      BY <1>3, <2>2 DEF InFlight
    <2> QED
      BY <1>1, <2>1, <2>2, <2>3 DEF UpdateRow
  <1>5. /\ \A s \in Requests : request'[s] = IF s = r THEN v ELSE request[s]
        /\ \A n \in OrderIds : orders'[n] = IF n = q.order THEN q.entity ELSE orders[n]
    BY <1>2, <1>4 DEF SInv, TypeInv, TypeOK
  <1>6. /\ orders[q.order].status \in Beyond => q.entity.status \in Beyond
        /\ q.entity.status = "CONFIRMED" => orders[q.order].status \notin Beyond
        /\ q.entity.status = "RESCHEDULE_PROPOSED" => q.entity.proposed # NoDate
    BY <1>2, <1>3, StepBeyond
  <1>7. Turns'
    BY <1>1, <1>3, <1>4, TurnsKept DEF Busy
  <1>8. \A s \in Requests \ {r} :
          /\ request[s].phase \in Busy => orders'[request[s].order] = orders[request[s].order]
          /\ request[s].phase \in {"select", "update"} => HoldsFresh(request[s])'
    <2> SUFFICES ASSUME NEW s \in Requests \ {r}
                 PROVE /\ request[s].phase \in Busy =>
                            orders'[request[s].order] = orders[request[s].order]
                       /\ request[s].phase \in {"select", "update"} => HoldsFresh(request[s])'
      OBVIOUS
    <2>1. request[s].phase \in Busy => request[s].order # q.order
      BY <1>1, <1>3 DEF SInv, Turns, Busy
    <2>2. (\A n \in OrderIds \ {q.order} : orders'[n] = orders[n]) /\ request'[s] = request[s]
      BY <1>5
    <2> QED
      BY <1>3, <2>1, <2>2, OthersKept
  <1>9. Fresh'
    BY <1>4, <1>5, <1>8 DEF Fresh, HoldsFresh
  <1>10. ProposalsDated'
    BY <1>5, <1>6 DEF SInv, ProposalsDated
  <1>11. ConfirmedBeyond'
    <2> SUFFICES ASSUME NEW i \in DOMAIN confirmations
                 PROVE  /\ orders'[confirmations[i].order] # NoRow
                        /\ orders'[confirmations[i].order].status \in Beyond
      BY <1>3 DEF ConfirmedBeyond, confirmations
    <2>1. confirmations \in Seq(Event)
      BY DEF SInv, TypeInv, TypeOK, confirmations, Topics
    <2>2. confirmations[i] \in Event
      BY <2>1
    <2>3. confirmations[i].order \in OrderIds
      BY <2>2 DEF Event
    <2>4. /\ orders[confirmations[i].order] # NoRow
          /\ orders[confirmations[i].order].status \in Beyond
      BY DEF SInv, ConfirmedBeyond
    <2> QED
      BY <1>3, <1>5, <1>6, <2>3, <2>4, NoRowAssumption
  <1>12. FirstToSay'
    <2>1. \A i \in DOMAIN confirmations : q.entity.status = "CONFIRMED" =>
            confirmations[i].order # q.order
      BY <1>6 DEF SInv, ConfirmedBeyond
    <2>2. q.entity.status = "CONFIRMED" => orders'[q.order].status \in Beyond
      BY <1>3, <1>5 DEF Beyond
    <2> SUFFICES ASSUME NEW s \in Requests, request'[s].phase = "emit",
                        request'[s].entity.status = "CONFIRMED"
                 PROVE  /\ orders'[request'[s].order].status \in Beyond
                        /\ \A i \in DOMAIN confirmations :
                             confirmations[i].order # request'[s].order
      BY <1>3 DEF FirstToSay, confirmations
    <2>3. CASE s = r
      BY <1>4, <1>5, <2>1, <2>2, <2>3
    <2>4. CASE s # r
      BY <1>5, <1>8, <2>4 DEF SInv, FirstToSay, Busy
    <2> QED
      BY <2>3, <2>4
  <1>13. ConfirmedOnce'
    BY <1>3 DEF SInv, ConfirmedOnce
  <1> QED
    BY <1>7, <1>9, <1>10, <1>11, <1>12, <1>13 DEF SInv

LEMMA SInvEmit ==
  ASSUME SInv, TypeInv', NEW r \in Requests, Emit(r)
  PROVE  SInv'
  <1>1. PICK q : q = request[r]
    OBVIOUS
  <1>2. PICK e : e = EventOf(q)
    OBVIOUS
  <1>3. PICK copies \in {<<e>>, <<e, e>>} :
          topic' = [topic EXCEPT ![TopicOf[q.entity.status]] = @ \o copies]
    BY <1>1, <1>2 DEF Emit
  <1>4. /\ q.phase = "emit" /\ q \in InFlight /\ q.order \in OrderIds /\ q.entity \in Row
        /\ orders' = orders /\ request' = [request EXCEPT ![r] = Over]
        /\ orders[q.order] # NoRow
    BY <1>1, BusyShape DEF Emit, SInv, TypeInv, HasRow, Busy
  <1>5. /\ Over.phase = "over"
        /\ \A s \in Requests : request'[s] = IF s = r THEN Over ELSE request[s]
    BY <1>4 DEF Over, SInv, TypeInv, TypeOK
  <1>6. Turns'
    BY <1>4, <1>5, TurnsKept DEF Busy
  <1>7. Fresh'
    <2> SUFFICES ASSUME NEW s \in Requests, request'[s].phase \in {"select", "update"}
                 PROVE  HoldsFresh(request[s])'
      BY DEF Fresh
    <2>1. request'[s] = request[s] /\ HoldsFresh(request[s])
      BY <1>5 DEF SInv, Fresh
    <2> QED
      BY <1>4, <2>1 DEF HoldsFresh
  <1>8. ProposalsDated'
    BY <1>4 DEF SInv, ProposalsDated
  <1>9. topic \in [Topics -> Seq(Event)] /\ TopicOf[q.entity.status] \in Topics
    BY <1>1, <1>4 DEF SInv, TypeInv, TypeOK, EmitsSomething
  <1>10. CASE q.entity.status # "CONFIRMED"
    <2>1. TopicOf[q.entity.status] # "order_confirmed"
      BY <1>4, <1>10 DEF TopicOf, Row, Status
    <2>2. confirmations' = confirmations
      BY <1>3, <1>9, <2>1 DEF confirmations, Topics
    <2>3. ConfirmedBeyond' /\ ConfirmedOnce'
      BY <1>4, <2>2 DEF SInv, ConfirmedBeyond, ConfirmedOnce, confirmations
    <2>4. FirstToSay'
      BY <1>4, <1>5, <2>2 DEF SInv, FirstToSay
    <2> QED
      BY <1>6, <1>7, <1>8, <2>3, <2>4 DEF SInv
  <1>11. CASE q.entity.status = "CONFIRMED"
    <2>1. TopicOf[q.entity.status] = "order_confirmed" /\ "order_confirmed" \in Topics
      BY <1>11 DEF TopicOf, Status, Topics
    <2>2. confirmations' = confirmations \o copies /\ confirmations \in Seq(Event)
      BY <1>3, <1>9, <2>1 DEF confirmations
    <2>3. e \in Event /\ e.order = q.order
      BY <1>2, <1>4, EventType DEF EventOf
    <2>4. copies \in Seq(Event) /\ \A i \in DOMAIN copies : copies[i] = e
      <3>1. CASE copies = <<e>>
        BY <2>3, <3>1
      <3>2. CASE copies = <<e, e>>
        BY <2>3, <3>2
      <3> QED
        BY <3>1, <3>2
    <2>5. \A i \in DOMAIN confirmations' :
            \/ i \in DOMAIN confirmations /\ confirmations'[i] = confirmations[i]
            \/ confirmations'[i] = e
      BY <2>2, <2>4
    <2>6. /\ orders[q.order].status \in Beyond
          /\ \A i \in DOMAIN confirmations : confirmations[i].order # q.order
      BY <1>1, <1>4, <1>11 DEF SInv, FirstToSay
    <2>7. ConfirmedBeyond'
      <3>1. \A i \in DOMAIN confirmations' :
              /\ orders[confirmations'[i].order] # NoRow
              /\ orders[confirmations'[i].order].status \in Beyond
        BY <1>4, <2>3, <2>5, <2>6 DEF SInv, ConfirmedBeyond
      <3> QED
        BY <1>4, <3>1 DEF ConfirmedBeyond
    <2>8. ConfirmedOnce'
      <3>1. \A i, j \in DOMAIN confirmations' :
              confirmations'[i].order = confirmations'[j].order =>
                confirmations'[i] = confirmations'[j]
        BY <2>3, <2>5, <2>6 DEF SInv, ConfirmedOnce, confirmations
      <3> QED
        BY <3>1 DEF ConfirmedOnce, confirmations
    <2>9. FirstToSay'
      <3> SUFFICES ASSUME NEW s \in Requests, request'[s].phase = "emit",
                          request'[s].entity.status = "CONFIRMED"
                   PROVE  /\ orders'[request'[s].order].status \in Beyond
                          /\ \A i \in DOMAIN confirmations' :
                               confirmations'[i].order # request'[s].order
        BY DEF FirstToSay
      <3>1. s # r /\ request'[s] = request[s]
        BY <1>5
      <3>2. request[s].order # q.order
        BY <1>1, <1>4, <3>1 DEF SInv, Turns, Busy
      <3> QED
        BY <1>4, <2>3, <2>5, <3>1, <3>2 DEF SInv, FirstToSay
    <2> QED
      BY <1>6, <1>7, <1>8, <2>7, <2>8, <2>9 DEF SInv
  <1> QED
    BY <1>10, <1>11

-----------------------------------------------------------------------------
LEMMA SInvStep ==
  ASSUME SInv, [SerialNext]_vars
  PROVE  SInv'
  <1>1. TypeInv'
    BY SerialStepIsStep, TypeInvStep DEF SInv
  <1>2. ASSUME NEW r \in Requests,
               \E o \in OrderIds, c, p \in Users, d \in Dates : CreateOrder(r, o, c, p, d)
        PROVE  SInv'
    BY <1>1, <1>2, SInvCreate
  <1>3. ASSUME NEW r \in Requests,
               \E o \in OrderIds, u \in Users, s \in AllowedTransition,
                 d \in Dates \cup {NoDate} : Quiet(o) /\ LoadOrder(r, o, u, s, d)
        PROVE  SInv'
    BY <1>1, <1>3, SInvLoad
  <1>4. ASSUME NEW r \in Requests, Handle(r)
        PROVE  SInv'
    BY <1>1, <1>4, SInvSelect, SInvUpdate, SInvEmit, SInvOver DEF Handle
  <1>5. CASE UNCHANGED vars
    <2>1. Turns' /\ ProposalsDated' /\ ConfirmedBeyond' /\ FirstToSay' /\ ConfirmedOnce'
      BY <1>5 DEF SInv, vars, Turns, ProposalsDated, ConfirmedBeyond, FirstToSay, ConfirmedOnce,
         confirmations
    <2>2. Fresh'
      BY <1>5 DEF SInv, vars, Fresh, HoldsFresh
    <2> QED
      BY <1>1, <2>1, <2>2 DEF SInv
  <1> QED
    BY <1>2, <1>3, <1>4, <1>5 DEF SerialNext

LEMMA SerialInvariance == SerialSpec => []SInv
  BY SInvInit, SInvStep, PTL DEF SerialSpec

\* However often kafkajs repeats a send, all confirmations of an order that is
\* handled one request at a time say the same.
THEOREM ConfirmedOnceHolds == SerialSpec => []ConfirmedOnce
  BY SerialInvariance, PTL DEF SInv

-----------------------------------------------------------------------------
(* The lifecycle.                                                          *)

\* A row edited as the checks allow has made a step of the lifecycle.
LEMMA EditedIsStep ==
  ASSUME SInv, NEW o \in OrderIds, NEW u \in Users, NEW to \in AllowedTransition,
         NEW date \in Dates \cup {NoDate}, orders[o] \in Row,
         Permitted(orders[o], u, to, date),
         orders' = [orders EXCEPT ![o] = Edited(orders[o], to, date)]
  PROVE  Lifecycle!Next
  <1>1. PICK row \in Row : row = orders[o]
    OBVIOUS
  <1>2. /\ u \in {row.client, row.provider} /\ <<row.status, to>> \in Table
        /\ <<row.status, to>> \in ProviderOnly => u = row.provider
        /\ <<row.status, to>> \in ClientOnly => u = row.client
        /\ to = "RESCHEDULE_PROPOSED" => date \in Dates
        /\ row # NoRow
    BY <1>1, NoRowAssumption DEF Permitted, Transitions
  <1>3. orders \in [OrderIds -> Row \cup {NoRow}]
    BY DEF SInv, TypeInv, TypeOK
  <1>4. CASE to = "RESCHEDULE_PROPOSED"
    <2>1. row.status = "PENDING" /\ u = row.provider
      BY <1>2, <1>4 DEF Table, ProviderOnly
    <2>2. Edited(row, to, date) = [row EXCEPT !.status = to, !.proposed = date]
      BY <1>4 DEF Edited, Row
    <2>3. Lifecycle!Propose(o, u, date)
      BY <1>1, <1>2, <1>3, <1>4, <2>1, <2>2 DEF Lifecycle!Propose, Row
    <2> QED
      BY <1>2, <1>4, <2>3 DEF Lifecycle!Next
  <1>5. CASE row.status = "RESCHEDULE_PROPOSED" /\ to = "CONFIRMED"
    <2>1. u = row.client /\ row.proposed # NoDate
      BY <1>1, <1>2, <1>5 DEF ClientOnly, SInv, ProposalsDated
    <2>2. Edited(row, to, date) =
            [row EXCEPT !.status = to, !.scheduled = row.proposed, !.proposed = NoDate]
      BY <1>5, <2>1 DEF Edited, Row
    <2>3. Lifecycle!Accept(o, u)
      BY <1>1, <1>2, <1>3, <1>5, <2>1, <2>2 DEF Lifecycle!Accept, Row
    <2> QED
      BY <2>3 DEF Lifecycle!Next
  <1>6. CASE to # "RESCHEDULE_PROPOSED" /\ ~(row.status = "RESCHEDULE_PROPOSED" /\ to = "CONFIRMED")
    <2>1. Edited(row, to, date) = [row EXCEPT !.status = to]
      BY <1>6 DEF Edited, Row
    <2>2. Lifecycle!Moves(o, u, row.status, to)
      BY <1>1, <1>2, <1>3, <2>1 DEF Lifecycle!Moves, Row
    <2>3. CASE to = "CONFIRMED"
      BY <1>1, <1>2, <1>6, <2>2, <2>3 DEF Table, ProviderOnly, Lifecycle!Next, Lifecycle!Confirm
    <2>4. CASE to = "IN_PROGRESS"
      BY <1>1, <1>2, <2>2, <2>4 DEF Table, ProviderOnly, Lifecycle!Next, Lifecycle!Start
    <2>5. CASE to = "COMPLETED"
      BY <1>1, <1>2, <2>2, <2>5 DEF Table, ProviderOnly, Lifecycle!Next, Lifecycle!Complete
    <2>6. CASE to = "CANCELLED"
      BY <1>2, <2>2, <2>6 DEF Table, Lifecycle!Next, Lifecycle!Cancel
    <2> QED
      BY <1>6, <2>3, <2>4, <2>5, <2>6 DEF AllowedTransition, Status
  <1> QED
    BY <1>4, <1>5, <1>6

LEMMA LifecycleStep ==
  ASSUME SInv, [SerialNext]_vars
  PROVE  [Lifecycle!Next]_orders
  <1>1. ASSUME NEW r \in Requests, NEW o \in OrderIds, NEW c \in Users, NEW p \in Users,
               NEW d \in Dates, CreateOrder(r, o, c, p, d)
        PROVE  Lifecycle!Next
    <2>1. Lifecycle!Create(o, c, p, d)
      BY <1>1 DEF CreateOrder, Lifecycle!Create
    <2> QED
      BY <2>1 DEF Lifecycle!Next
  <1>2. ASSUME NEW r \in Requests, UpdateRow(r)
        PROVE  Lifecycle!Next
    <2>1. /\ request[r].order \in OrderIds /\ request[r].actor \in Users
          /\ orders[request[r].order] \in Row
      BY <1>2, BusyShape DEF UpdateRow, SInv, Busy, InFlight
    <2> QED
      BY <1>2, <2>1, SaveIsStep, EditedIsStep
  <1>3. ASSUME NEW r \in Requests, Handle(r)
        PROVE  UpdateRow(r) \/ UNCHANGED orders
    BY <1>3 DEF Handle, SelectRow, Emit, EmitFails, Abort
  <1> QED
    BY <1>1, <1>2, <1>3 DEF SerialNext, LoadOrder, vars

\* Handled one request at a time, an order goes through the state machine of
\* TRANSITIONS, PROVIDER_ONLY and CLIENT_ONLY step by indivisible step.
THEOREM Implementation == SerialSpec => ImplementsLifecycle
  <1>1. Init => Lifecycle!Init
    BY DEF Init, Lifecycle!Init
  <1>2. SInv /\ [SerialNext]_vars => [Lifecycle!Next]_orders
    BY LifecycleStep
  <1> QED
    BY <1>1, <1>2, SerialInvariance, PTL DEF SerialSpec, ImplementsLifecycle, Lifecycle!Spec

-----------------------------------------------------------------------------
(* Orders and payments: who is charged has agreed.  The two services share *)
(* a log that only grows, so each can be argued about alone: a payment is  *)
(* for an order confirmed in the log (ChargedAsRead), and a confirmation   *)
(* in the log tells of a confirmation in the table (EventsTellTheTruth).   *)

\* The consumers are at messages of the topic, and a payment is for the order
\* of one.
ChargedAsRead ==
  /\ committed \in Nat
  /\ consumer \in [Replicas -> P!ConsumerState]
  /\ \A k \in Replicas :
       consumer[k].phase \in {"intent", "insert"} => consumer[k].at < Len(Confirmations)
  /\ DOMAIN payments = Refs
  /\ \A ref \in Refs : payments[ref] # NoPayment =>
       \E i \in DOMAIN Confirmations : Confirmations[i] = payments[ref].order

MInv == IInv /\ ChargedAsRead

\* The topic as the payment service sees it is a log of orders.
LEMMA ConfirmationsShape ==
  ASSUME TypeOK
  PROVE  /\ topic["order_confirmed"] \in Seq(Event)
         /\ Confirmations \in Seq(OrderIds)
         /\ Len(Confirmations) = Len(topic["order_confirmed"])
         /\ DOMAIN Confirmations = 1 .. Len(Confirmations)
  <1>1. topic["order_confirmed"] \in Seq(Event)
    BY DEF TypeOK, Topics
  <1>2. \A i \in 1 .. Len(topic["order_confirmed"]) : topic["order_confirmed"][i].order \in OrderIds
    <2>1. \A i \in 1 .. Len(topic["order_confirmed"]) : topic["order_confirmed"][i] \in Event
      BY <1>1
    <2> QED
      BY <2>1 DEF Event
  <1>3. Confirmations = [i \in 1 .. Len(topic["order_confirmed"]) |->
                           topic["order_confirmed"][i].order]
    BY <1>1 DEF Confirmations
  <1>4. Confirmations \in Seq(OrderIds) /\ Len(Confirmations) = Len(topic["order_confirmed"])
    BY <1>1, <1>2, <1>3
  <1> QED
    BY <1>1, <1>4

LEMMA MInvInit ==
  ASSUME MarketInit
  PROVE  MInv
  <1>1. IInv
    BY IInvInit DEF MarketInit
  <1>2. P!Out \in P!ConsumerState
    BY DEF P!Out, P!ConsumerState
  <1>3. ChargedAsRead
    BY <1>2 DEF MarketInit, P!Init, ChargedAsRead, P!Out
  <1> QED
    BY <1>1, <1>3 DEF MInv

\* The booking service only ever adds to the topic.
LEMMA TopicGrows ==
  ASSUME IInv, [Next]_vars, TypeOK'
  PROVE  /\ Len(Confirmations) <= Len(Confirmations')
         /\ \A i \in DOMAIN Confirmations :
              i \in DOMAIN Confirmations' /\ Confirmations'[i] = Confirmations[i]
  <1>1. TypeOK
    BY DEF IInv, TypeInv
  <1>2. CASE topic' = topic
    BY <1>1, <1>2, ConfirmationsShape DEF Confirmations
  <1>3. ASSUME NEW r \in Requests, Emit(r)
        PROVE  /\ Len(Confirmations) <= Len(Confirmations')
               /\ \A i \in DOMAIN Confirmations :
                    i \in DOMAIN Confirmations' /\ Confirmations'[i] = Confirmations[i]
    <2>0. PICK e : e = EventOf(request[r])
      OBVIOUS
    <2>1. PICK copies \in {<<e>>, <<e, e>>} :
            topic' = [topic EXCEPT ![TopicOf[request[r].entity.status]] = @ \o copies]
      BY <1>3, <2>0 DEF Emit
    <2>2. request[r] \in InFlight
      BY <1>1, <1>3, Phases DEF Emit, TypeOK, Waiting, Over
    <2>3. e \in Event
      BY <2>0, <2>2, EventType
    <2>4. copies \in Seq(Event)
      <3>1. CASE copies = <<e>>
        BY <2>3, <3>1
      <3>2. CASE copies = <<e, e>>
        BY <2>3, <3>2
      <3> QED
        BY <2>1, <3>1, <3>2
    <2>5. PICK log : log = topic["order_confirmed"]
      OBVIOUS
    <2>6. PICK new : new = topic'["order_confirmed"]
      OBVIOUS
    <2>7. new = log \/ new = log \o copies
      BY <1>1, <2>1, <2>5, <2>6 DEF TypeOK, Topics
    <2>8. log \in Seq(Event)
      BY <1>1, <2>5, ConfirmationsShape
    <2>9. /\ Len(log) <= Len(new) /\ \A i \in DOMAIN log : i \in DOMAIN new /\ new[i] = log[i]
          /\ new \in Seq(Event)
      <3>1. CASE new = log
        BY <2>8, <3>1
      <3>2. CASE new = log \o copies
        BY <2>4, <2>8, <3>2
      <3> QED
        BY <2>7, <3>1, <3>2
    <2>10. /\ Confirmations = [i \in DOMAIN log |-> log[i].order]
           /\ Confirmations' = [i \in DOMAIN new |-> new[i].order]
      BY <2>5, <2>6 DEF Confirmations
    <2>11. Len(Confirmations) = Len(log) /\ Len(Confirmations') = Len(new)
      BY <2>8, <2>9, <2>10
    <2>12. DOMAIN Confirmations = DOMAIN log /\ DOMAIN Confirmations' = DOMAIN new
      BY <2>10
    <2>13. /\ \A i \in DOMAIN log : Confirmations[i] = log[i].order
           /\ \A i \in DOMAIN new : Confirmations'[i] = new[i].order
      BY <2>10
    <2> QED
      BY <2>9, <2>11, <2>12, <2>13
  <1>4. topic' = topic \/ \E r \in Requests : Emit(r)
    <2>1. \A r \in Requests : \A o, c, u, d : CreateOrder(r, o, c, u, d) => topic' = topic
      BY DEF CreateOrder
    <2>2. \A r \in Requests : \A o, u, s, d : LoadOrder(r, o, u, s, d) => topic' = topic
      BY DEF LoadOrder
    <2>3. \A r \in Requests : Handle(r) => topic' = topic \/ Emit(r)
      BY DEF Handle, SelectRow, UpdateRow, EmitFails, Abort
    <2>4. UNCHANGED vars => topic' = topic
      BY DEF vars
    <2> QED
      BY <2>1, <2>2, <2>3, <2>4 DEF Next
  <1> QED
    BY <1>2, <1>3, <1>4

LEMMA MInvBooking ==
  ASSUME MInv, BookingStep
  PROVE  MInv'
  <1>1. IInv'
    BY IInvStep DEF MInv, BookingStep
  <1>2. /\ Len(Confirmations) <= Len(Confirmations')
        /\ \A i \in DOMAIN Confirmations :
             i \in DOMAIN Confirmations' /\ Confirmations'[i] = Confirmations[i]
    BY <1>1, TopicGrows DEF MInv, BookingStep, IInv, TypeInv
  <1>3. Len(Confirmations) \in Nat /\ Len(Confirmations') \in Nat
    <2>1. Len(Confirmations) \in Nat
      BY ConfirmationsShape DEF MInv, IInv, TypeInv
    <2>2. TypeOK' => Len(Confirmations') \in Nat
      <3>1. TypeOK' => topic'["order_confirmed"] \in Seq(Event)
        BY DEF TypeOK, Topics
      <3>2. PICK new : new = topic'["order_confirmed"]
        OBVIOUS
      <3>3. Confirmations' = [i \in DOMAIN new |-> new[i].order]
        BY <3>2 DEF Confirmations
      <3> QED
        BY <3>1, <3>2, <3>3
    <2> QED
      BY <1>1, <2>1, <2>2 DEF IInv, TypeInv
  <1>4. ChargedAsRead'
    <2>1. UNCHANGED <<committed, consumer, payments>>
      BY DEF BookingStep, paymentVars
    <2>2. \A k \in Replicas : consumer[k].at \in Nat
      BY DEF MInv, ChargedAsRead, P!ConsumerState
    <2> QED
      BY <1>2, <1>3, <2>1, <2>2 DEF MInv, ChargedAsRead
  <1> QED
    BY <1>1, <1>4 DEF MInv

\* A consumer goes somewhere in the topic, and no payment is added.
LEMMA ConsumerGoes ==
  ASSUME MInv, UNCHANGED Confirmations, UNCHANGED payments, committed' \in Nat,
         NEW k \in Replicas, NEW v \in P!ConsumerState,
         consumer' = [consumer EXCEPT ![k] = v],
         v.phase \in {"intent", "insert"} => v.at < Len(Confirmations)
  PROVE  ChargedAsRead'
  <1>1. \A j \in Replicas : consumer'[j] = IF j = k THEN v ELSE consumer[j]
    BY DEF MInv, ChargedAsRead
  <1> QED
    BY <1>1 DEF MInv, ChargedAsRead

LEMMA MInvPayment ==
  ASSUME MInv, PaymentStep
  PROVE  MInv'
  <1>1. vars' = vars /\ UNCHANGED <<orders, request, topic, deeds>>
    BY DEF PaymentStep, vars
  <1>2. IInv'
    BY <1>1, IInvStep DEF MInv
  <1>3. UNCHANGED Confirmations
    BY <1>1 DEF Confirmations
  <1>4. PICK k \in Replicas :
          P!Assign(k) \/ P!Consume(k) \/ P!Swallow(k) \/ P!Commit(k) \/ P!Leave(k) \/ P!Crash(k)
    BY DEF PaymentStep, P!ConsumerStep
  <1>5. /\ committed \in Nat /\ consumer[k] \in P!ConsumerState /\ consumer[k].at \in Nat
        /\ P!Past(k) \in P!ConsumerState /\ P!Past(k).phase = "ready"
        /\ P!Out \in P!ConsumerState /\ P!Out.phase = "out"
    BY DEF MInv, ChargedAsRead, P!ConsumerState, P!Past, P!Out
  <1>6. CASE P!Assign(k)
    <2>1. PICK v \in P!ConsumerState : v.phase = "ready" /\ consumer' = [consumer EXCEPT ![k] = v]
      <3> DEFINE w == [phase |-> "ready", at |-> committed, ref |-> NoRef]
      <3>1. w \in P!ConsumerState /\ w.phase = "ready"
        BY <1>5 DEF P!ConsumerState
      <3> QED
        BY <1>6, <3>1 DEF P!Assign
    <2> QED
      BY <1>2, <1>3, <1>5, <1>6, <2>1, ConsumerGoes DEF P!Assign, MInv
  <1>7. CASE P!FindPayment(k)
    <2>1. PICK v \in P!ConsumerState :
            /\ consumer' = [consumer EXCEPT ![k] = v]
            /\ v.phase = "intent" => v.at < Len(Confirmations)
            /\ v.phase # "insert"
      <3>1. CASE consumer' = [consumer EXCEPT ![k] = P!Past(k)]
        BY <1>5, <3>1
      <3>2. CASE consumer' = [consumer EXCEPT ![k] = [consumer[k] EXCEPT !.phase = "intent"]]
        <4> DEFINE w == [consumer[k] EXCEPT !.phase = "intent"]
        <4>1. w \in P!ConsumerState /\ w.phase = "intent" /\ w.at = consumer[k].at
          BY <1>5 DEF P!ConsumerState
        <4> QED
          BY <1>7, <3>2, <4>1 DEF P!FindPayment
      <3> QED
        BY <1>7, <3>1, <3>2 DEF P!FindPayment, MInv, ChargedAsRead
    <2> QED
      BY <1>2, <1>3, <1>5, <1>7, <2>1, ConsumerGoes DEF P!FindPayment, MInv
  <1>8. CASE \E ref \in Refs : P!CreateIntent(k, ref)
    <2>1. PICK ref \in Refs : P!CreateIntent(k, ref)
      BY <1>8
    <2> DEFINE w == [consumer[k] EXCEPT !.phase = "insert", !.ref = ref]
    <2>2. w \in P!ConsumerState /\ w.at = consumer[k].at
      BY <1>5 DEF P!ConsumerState
    <2>3. consumer' = [consumer EXCEPT ![k] = w]
      BY <2>1 DEF P!CreateIntent, MInv, ChargedAsRead
    <2>4. w.at < Len(Confirmations)
      BY <2>1, <2>2 DEF P!CreateIntent, MInv, ChargedAsRead
    <2>5. UNCHANGED payments /\ committed' \in Nat
      BY <1>5, <2>1 DEF P!CreateIntent
    <2> HIDE DEF w
    <2> QED
      BY <1>2, <1>3, <2>2, <2>3, <2>4, <2>5, ConsumerGoes DEF MInv
  <1>9. CASE P!Insert(k)
    <2>1. /\ consumer' = [consumer EXCEPT ![k] = P!Past(k)] /\ committed' = committed
          /\ consumer[k].phase = "insert" /\ consumer[k].at < Len(Confirmations)
      BY <1>9 DEF P!Insert, MInv, ChargedAsRead
    <2>2. PICK o : o = P!Message(k)
      OBVIOUS
    <2>3. \E i \in DOMAIN Confirmations : Confirmations[i] = o
      BY <1>5, <2>1, <2>2, ConfirmationsShape DEF P!Message, MInv, IInv, TypeInv
    <2>4. \/ payments' = payments
          \/ payments' = [payments EXCEPT ![consumer[k].ref] =
               [order |-> o, status |-> "REQUIRES_PAYMENT", reason |-> "none"]]
      BY <1>9, <2>2 DEF P!Insert
    <2>5. /\ DOMAIN payments' = Refs
          /\ \A ref \in Refs : payments'[ref] = payments[ref] \/ payments'[ref].order = o
      BY <2>4 DEF MInv, ChargedAsRead
    <2>6. \A j \in Replicas : consumer'[j] = IF j = k THEN P!Past(k) ELSE consumer[j]
      BY <2>1 DEF MInv, ChargedAsRead
    <2>7. consumer' \in [Replicas -> P!ConsumerState]
      BY <1>5, <2>1 DEF MInv, ChargedAsRead
    <2>8. ChargedAsRead'
      BY <1>3, <1>5, <2>1, <2>3, <2>5, <2>6, <2>7 DEF MInv, ChargedAsRead
    <2> QED
      BY <1>2, <2>8 DEF MInv
  <1>10. CASE P!Swallow(k)
    BY <1>2, <1>3, <1>5, <1>10, ConsumerGoes DEF P!Swallow, MInv
  <1>11. CASE P!Commit(k)
    BY <1>2, <1>3, <1>5, <1>11 DEF P!Commit, MInv, ChargedAsRead
  <1>12. CASE P!Leave(k) \/ P!Crash(k)
    BY <1>2, <1>3, <1>5, <1>12, ConsumerGoes DEF P!Leave, P!Crash, MInv
  <1> QED
    BY <1>4, <1>6, <1>7, <1>8, <1>9, <1>10, <1>11, <1>12 DEF P!Consume

LEMMA MInvStep ==
  ASSUME MInv, [MarketNext]_marketVars
  PROVE  MInv'
  <1>1. CASE UNCHANGED marketVars
    <2>1. UNCHANGED vars /\ UNCHANGED paymentVars
      BY <1>1 DEF marketVars
    <2>2. IInv'
      BY <2>1, IInvStep DEF MInv
    <2>3. ChargedAsRead'
      BY <2>1 DEF vars, paymentVars, MInv, ChargedAsRead, Confirmations
    <2> QED
      BY <2>2, <2>3 DEF MInv
  <1> QED
    BY <1>1, MInvBooking, MInvPayment DEF MarketNext

\* An order confirmed in the table at some time was confirmed by both sides.
LEMMA ConfirmedAgreed ==
  ASSUME IInv, NEW o \in OrderIds, Did(o, "CONFIRMED")
  PROVE  BothAgreed(o)
  <1>1. DeedsInv(o)
    BY DEF IInv, OrderInv, Did
  <1>2. PICK yes \in deeds[o] :
          /\ yes.to = "CONFIRMED" /\ Entitled(o, yes.from, yes.to, yes.actor) /\ Did(o, yes.from)
          /\ yes.from \in {"PENDING", "RESCHEDULE_PROPOSED"}
    BY <1>1 DEF Did, DeedsInv, Entitled, Transitions, Table
  <1>3. Did(o, "RESCHEDULE_PROPOSED") =>
          \E offer \in deeds[o] : /\ offer.to = "RESCHEDULE_PROPOSED"
                                  /\ offer.actor = orders[o].provider
    BY <1>1 DEF Did, DeedsInv, Entitled, Transitions, Table, ProviderOnly
  <1>4. CASE yes.from = "PENDING"
    BY <1>2, <1>4 DEF BothAgreed, Entitled, ProviderOnly
  <1>5. CASE yes.from = "RESCHEDULE_PROPOSED"
    BY <1>2, <1>3, <1>5 DEF BothAgreed, Entitled, ClientOnly
  <1> QED
    BY <1>2, <1>4, <1>5

\* Nobody is charged for a service its two parties did not agree on, however
\* many orders, requests, replicas and failures there are.
THEOREM ChargeHasConsentHolds == MarketSpec => []ChargeHasConsent
  <1>1. MarketSpec => []MInv
    BY MInvInit, MInvStep, PTL DEF MarketSpec
  <1>2. ASSUME MInv
        PROVE  ChargeHasConsent
    <2> SUFFICES ASSUME NEW ref \in Refs, payments[ref] # NoPayment
                 PROVE  BothAgreed(payments[ref].order)
      BY DEF ChargeHasConsent
    <2>1. TypeOK /\ IInv
      BY <1>2 DEF MInv, IInv, TypeInv
    <2>2. PICK i \in DOMAIN Confirmations : Confirmations[i] = payments[ref].order
      BY <1>2 DEF MInv, ChargedAsRead
    <2>3. PICK e \in Event : /\ e = topic["order_confirmed"][i]
                             /\ e.order = payments[ref].order
      <3>1. i \in DOMAIN topic["order_confirmed"]
        BY <2>2 DEF Confirmations
      <3>2. topic["order_confirmed"] \in Seq(Event)
        BY <2>1, ConfirmationsShape
      <3>3. topic["order_confirmed"][i] \in Event
        BY <3>1, <3>2
      <3> QED
        BY <2>2, <3>1, <3>3 DEF Confirmations
    <2>4. TopicOf[e.status] = "order_confirmed" /\ Did(e.order, e.status)
      BY <2>1, <2>2, <2>3 DEF IInv, EventsTellTheTruth, Confirmations, Topics, Did
    <2>5. e.status = "CONFIRMED" /\ e.order \in OrderIds
      BY <2>4 DEF TopicOf, Event, Status
    <2> QED
      BY <2>1, <2>3, <2>4, <2>5, ConfirmedAgreed
  <1> QED
    BY <1>1, <1>2, PTL

-----------------------------------------------------------------------------
(* Nothing confirmed is skipped, and nothing paid twice, by the services   *)
(* together: the safety half of ConfirmedIsChargedOrLost.  The topic may   *)
(* grow by several messages at a time while the consumers are at work, so  *)
(* the positions they hold and the messages behind them stay what they     *)
(* were.                                                                   *)

WithinTopic ==
  /\ committed <= Len(Confirmations)
  /\ \A k \in Replicas : consumer[k].at <= Len(Confirmations)

\* A consumer about to insert has an intent that is nobody else's.
OwnIntent ==
  \A k \in Replicas : consumer[k].phase = "insert" =>
    /\ consumer[k].ref \in Refs
    /\ intents[consumer[k].ref] = P!Message(k)
    /\ payments[consumer[k].ref] = NoPayment
    /\ \A j \in Replicas \ {k} :
         consumer[j].phase = "insert" => consumer[j].ref # consumer[k].ref

\* The first n confirmations have their payments, or were given up.
ActedOn(n) == \A i \in 1 .. n : Charged(Confirmations[i]) \/ i \in dropped

NoneSkipped ==
  /\ ActedOn(committed)
  /\ owner \in Replicas => ActedOn(consumer[owner].at)

\* A payment is under the intent drawn for its order.
UnderIntent ==
  /\ DOMAIN intents = Refs
  /\ \A ref \in Refs : payments[ref] # NoPayment => intents[ref] = payments[ref].order

CInv ==
  /\ MInv /\ WithinTopic /\ OwnIntent /\ NoneSkipped /\ UnderIntent
  /\ P!OnePaymentPerOrder

LEMMA TopicShape ==
  ASSUME MInv
  PROVE  /\ Len(Confirmations) \in Nat /\ DOMAIN Confirmations = 1 .. Len(Confirmations)
         /\ \A i \in 1 .. Len(Confirmations) : Confirmations[i] \in OrderIds
         /\ committed \in Nat /\ DOMAIN payments = Refs
         /\ \A k \in Replicas :
              /\ consumer[k] \in P!ConsumerState /\ consumer[k].at \in Nat
              /\ P!Past(k) \in P!ConsumerState /\ P!Past(k).phase = "ready"
              /\ P!Past(k).at = consumer[k].at + 1
  <1>1. TypeOK
    BY DEF MInv, IInv, TypeInv
  <1>2. \A k \in Replicas : consumer[k] \in P!ConsumerState /\ consumer[k].at \in Nat
    BY DEF MInv, ChargedAsRead, P!ConsumerState
  <1>3. \A k \in Replicas : P!Past(k) \in P!ConsumerState /\ P!Past(k).phase = "ready"
                              /\ P!Past(k).at = consumer[k].at + 1
    BY <1>2 DEF P!Past, P!ConsumerState
  <1> QED
    BY <1>1, <1>2, <1>3, ConfirmationsShape DEF MInv, ChargedAsRead

LEMMA CInvInit ==
  ASSUME MarketInit
  PROVE  CInv
  <1>1. MInv /\ TypeOK
    BY MInvInit DEF MInv, IInv, TypeInv
  <1>2. /\ committed = 0 /\ \A k \in Replicas : consumer[k].at = 0 /\ consumer[k].phase = "out"
        /\ owner = Nobody /\ DOMAIN intents = Refs
        /\ \A ref \in Refs : payments[ref] = NoPayment
    BY DEF MarketInit, P!Init, P!Out
  <1>3. WithinTopic
    BY <1>1, <1>2, TopicShape DEF WithinTopic
  <1>4. OwnIntent /\ UnderIntent /\ P!OnePaymentPerOrder
    BY <1>2 DEF OwnIntent, UnderIntent, P!OnePaymentPerOrder
  <1>5. NoneSkipped
    BY <1>2, PaymentNones DEF NoneSkipped, ActedOn
  <1> QED
    BY <1>1, <1>3, <1>4, <1>5 DEF CInv

LEMMA CInvBooking ==
  ASSUME CInv, BookingStep
  PROVE  CInv'
  <1>1. MInv /\ MInv'
    BY MInvBooking DEF CInv
  <1>2. UNCHANGED <<committed, owner, consumer, dropped, intents, payments>>
    BY DEF BookingStep, paymentVars
  <1>3. /\ Len(Confirmations) <= Len(Confirmations')
        /\ \A i \in DOMAIN Confirmations :
             i \in DOMAIN Confirmations' /\ Confirmations'[i] = Confirmations[i]
    BY <1>1, TopicGrows DEF MInv, BookingStep, IInv, TypeInv
  <1>4. Len(Confirmations') \in Nat
    <2>1. TypeOK' => topic'["order_confirmed"] \in Seq(Event)
      BY DEF TypeOK, Topics
    <2>2. PICK new : new = topic'["order_confirmed"]
      OBVIOUS
    <2>3. Confirmations' = [i \in DOMAIN new |-> new[i].order]
      BY <2>2 DEF Confirmations
    <2> QED
      BY <1>1, <2>1, <2>2, <2>3 DEF MInv, IInv, TypeInv
  <1>5. /\ Len(Confirmations) \in Nat /\ DOMAIN Confirmations = 1 .. Len(Confirmations)
        /\ committed \in Nat /\ \A k \in Replicas : consumer[k].at \in Nat
    BY <1>1, TopicShape
  <1>6. WithinTopic'
    BY <1>2, <1>3, <1>4, <1>5 DEF CInv, WithinTopic
  <1>7. OwnIntent'
    <2>1. \A k \in Replicas : consumer[k].phase = "insert" => consumer[k].at + 1 \in DOMAIN Confirmations
      BY <1>1, <1>5 DEF MInv, ChargedAsRead
    <2>2. \A k \in Replicas : consumer[k].phase = "insert" => P!Message(k)' = P!Message(k)
      BY <1>2, <1>3, <2>1 DEF P!Message
    <2> QED
      BY <1>2, <2>2 DEF CInv, OwnIntent
  <1>8. NoneSkipped'
    <2>1. \A o : Charged(o)' = Charged(o)
      BY <1>2 DEF Charged, P!PaymentsOf
    <2>2. \A n \in 0 .. Len(Confirmations) : ActedOn(n) => ActedOn(n)'
      BY <1>2, <1>3, <1>5, <2>1 DEF ActedOn
    <2>3. /\ committed \in 0 .. Len(Confirmations)
          /\ \A k \in Replicas : consumer[k].at \in 0 .. Len(Confirmations)
      BY <1>5 DEF CInv, WithinTopic
    <2> QED
      BY <1>2, <2>2, <2>3 DEF CInv, NoneSkipped
  <1>9. UnderIntent' /\ P!OnePaymentPerOrder'
    BY <1>2 DEF CInv, UnderIntent, P!OnePaymentPerOrder
  <1> QED
    BY <1>1, <1>6, <1>7, <1>8, <1>9 DEF CInv

\* A consumer goes to a message, or out, and nothing is inserted.
LEMMA CInvGoes ==
  ASSUME CInv, MInv', UNCHANGED <<Confirmations, intents, payments>>,
         NEW k \in Replicas, NEW v \in P!ConsumerState,
         consumer' = [consumer EXCEPT ![k] = v],
         v.phase # "insert", v.at <= Len(Confirmations),
         committed' <= Len(Confirmations), NoneSkipped'
  PROVE  CInv'
  <1>1. \A j \in Replicas : consumer'[j] = IF j = k THEN v ELSE consumer[j]
    BY DEF CInv, MInv, ChargedAsRead
  <1>2. WithinTopic'
    BY <1>1 DEF CInv, WithinTopic
  <1>3. OwnIntent'
    BY <1>1 DEF CInv, OwnIntent, P!Message
  <1>4. UnderIntent' /\ P!OnePaymentPerOrder'
    BY DEF CInv, UnderIntent, P!OnePaymentPerOrder
  <1> QED
    BY <1>2, <1>3, <1>4 DEF CInv

\* The next message is behind a consumer: it is paid for, or the owner gave
\* it up.
LEMMA ActedOnPast ==
  ASSUME CInv, NEW k \in Replicas, NEW n \in 1 .. Len(Confirmations), n = consumer[k].at + 1,
         consumer' = [consumer EXCEPT ![k] = P!Past(k)],
         UNCHANGED <<Confirmations, committed, owner>>, dropped \subseteq dropped',
         \A o : Charged(o) => Charged(o)',
         Charged(Confirmations[n])' \/ (owner = k => n \in dropped')
  PROVE  NoneSkipped'
  <1>0. MInv
    BY DEF CInv
  <1>1. \A j \in Replicas : consumer'[j] = IF j = k THEN P!Past(k) ELSE consumer[j]
    BY DEF CInv, MInv, ChargedAsRead
  <1>2. P!Past(k).at = n /\ consumer[k].at = n - 1
    BY <1>0, TopicShape
  <1>3. \A m : ActedOn(m) => ActedOn(m)'
    BY DEF ActedOn
  <1>4. (owner = k /\ ActedOn(n - 1)) => ActedOn(n)'
    <2>1. \A i \in 1 .. n : i \in 1 .. n - 1 \/ i = n
      OBVIOUS
    <2> QED
      BY <2>1 DEF ActedOn
  <1>5. ActedOn(committed)'
    BY <1>3 DEF CInv, NoneSkipped
  <1>6. owner \in Replicas => ActedOn(consumer[owner].at)'
    BY <1>1, <1>2, <1>3, <1>4 DEF CInv, NoneSkipped
  <1> QED
    BY <1>5, <1>6 DEF NoneSkipped

LEMMA CInvFind ==
  ASSUME CInv, MInv', UNCHANGED Confirmations, NEW k \in Replicas, P!FindPayment(k)
  PROVE  CInv'
  <1>1. /\ consumer[k].phase = "ready" /\ consumer[k].at < Len(Confirmations)
        /\ UNCHANGED <<committed, owner, dropped, intents, payments>>
    BY DEF P!FindPayment
  <1>2. /\ MInv /\ Len(Confirmations) \in Nat /\ consumer[k] \in P!ConsumerState
        /\ consumer[k].at \in Nat /\ committed \in Nat
        /\ P!Past(k) \in P!ConsumerState /\ P!Past(k).phase = "ready"
        /\ P!Past(k).at = consumer[k].at + 1
    BY TopicShape DEF CInv
  <1>3. committed' <= Len(Confirmations)
    BY <1>1 DEF CInv, WithinTopic
  <1>4. CASE P!PaymentsOf(P!Message(k)) # {}
    <2>1. consumer' = [consumer EXCEPT ![k] = P!Past(k)]
      BY <1>4 DEF P!FindPayment
    <2>2. PICK n \in 1 .. Len(Confirmations) : n = consumer[k].at + 1
      BY <1>1, <1>2
    <2>3. Charged(Confirmations[n]) /\ \A o : Charged(o)' = Charged(o)
      BY <1>1, <1>4, <2>2 DEF Charged, P!PaymentsOf, P!Message
    <2>4. Charged(Confirmations[n])'
      BY <1>1, <2>3 DEF Charged, P!PaymentsOf
    <2>5. NoneSkipped'
      BY <1>1, <2>1, <2>2, <2>3, <2>4, ActedOnPast
    <2>6. P!Past(k).at <= Len(Confirmations) /\ P!Past(k).phase # "insert"
      BY <1>1, <1>2
    <2> QED
      BY <1>1, <1>2, <1>3, <2>1, <2>5, <2>6, CInvGoes
  <1>5. CASE P!PaymentsOf(P!Message(k)) = {}
    <2> DEFINE v == [consumer[k] EXCEPT !.phase = "intent"]
    <2>1. v \in P!ConsumerState /\ v.phase # "insert" /\ v.at = consumer[k].at
      BY <1>2 DEF P!ConsumerState
    <2>2. consumer' = [consumer EXCEPT ![k] = v]
      BY <1>2, <1>5 DEF P!FindPayment, MInv, ChargedAsRead
    <2> HIDE DEF v
    <2>3. NoneSkipped'
      <3>1. \A j \in Replicas : consumer'[j].at = consumer[j].at
        BY <1>2, <2>1, <2>2 DEF MInv, ChargedAsRead
      <3> QED
        BY <1>1, <3>1 DEF CInv, NoneSkipped, ActedOn, Charged, P!PaymentsOf
    <2>4. v.at <= Len(Confirmations)
      BY <1>1, <1>2, <2>1
    <2> QED
      BY <1>1, <1>3, <2>1, <2>2, <2>3, <2>4, CInvGoes
  <1> QED
    BY <1>4, <1>5

LEMMA CInvCreateIntent ==
  ASSUME CInv, MInv', UNCHANGED Confirmations, NEW k \in Replicas, NEW ref \in Refs,
         P!CreateIntent(k, ref)
  PROVE  CInv'
  <1> DEFINE v == [consumer[k] EXCEPT !.phase = "insert", !.ref = ref]
  <1>1. /\ consumer[k].phase = "intent" /\ intents[ref] = NoOrder
        /\ intents' = [intents EXCEPT ![ref] = P!Message(k)]
        /\ UNCHANGED <<committed, owner, dropped, payments>>
    BY DEF P!CreateIntent
  <1>2. MInv
    BY DEF CInv
  <1>3. consumer' = [consumer EXCEPT ![k] = v]
    BY <1>2 DEF P!CreateIntent, MInv, ChargedAsRead
  <1>4. v.at = consumer[k].at /\ v.phase = "insert" /\ v.ref = ref
    BY <1>2, TopicShape DEF P!ConsumerState
  <1> HIDE DEF v
  <1>5. \A j \in Replicas : consumer[j].phase \in {"intent", "insert"} => P!Message(j) \in OrderIds
    <2>1. \A j \in Replicas : consumer[j].phase \in {"intent", "insert"} =>
            consumer[j].at + 1 \in 1 .. Len(Confirmations)
      BY <1>2, TopicShape DEF MInv, ChargedAsRead
    <2> QED
      BY <1>2, <2>1, TopicShape DEF P!Message
  <1>6. /\ \A j \in Replicas : consumer'[j] = IF j = k THEN v ELSE consumer[j]
        /\ \A r \in Refs : intents'[r] = IF r = ref THEN P!Message(k) ELSE intents[r]
        /\ DOMAIN intents' = Refs
    BY <1>1, <1>2, <1>3 DEF CInv, UnderIntent, MInv, ChargedAsRead
  <1>7. payments[ref] = NoPayment
    <2>1. \A i \in DOMAIN Confirmations : Confirmations[i] \in OrderIds
      BY <1>2, TopicShape
    <2>2. payments[ref] # NoPayment => payments[ref].order \in OrderIds
      BY <1>2, <2>1 DEF MInv, ChargedAsRead
    <2> QED
      BY <1>1, <2>2, PaymentNones DEF CInv, UnderIntent
  <1>8. \A j \in Replicas : consumer[j].phase = "insert" => consumer[j].ref # ref
    BY <1>1, <1>5, PaymentNones DEF CInv, OwnIntent
  <1>9. WithinTopic'
    BY <1>1, <1>4, <1>6 DEF CInv, WithinTopic
  <1>10. OwnIntent'
    <2>1. \A j \in Replicas : P!Message(j)' = P!Message(j)
      BY <1>4, <1>6 DEF P!Message
    <2> QED
      BY <1>1, <1>4, <1>6, <1>7, <1>8, <2>1 DEF CInv, OwnIntent
  <1>11. NoneSkipped'
    BY <1>1, <1>4, <1>6 DEF CInv, NoneSkipped, ActedOn, Charged, P!PaymentsOf
  <1>12. UnderIntent' /\ P!OnePaymentPerOrder'
    BY <1>1, <1>6, <1>7 DEF CInv, UnderIntent, P!OnePaymentPerOrder
  <1> QED
    BY <1>9, <1>10, <1>11, <1>12 DEF CInv

LEMMA CInvInsert ==
  ASSUME CInv, MInv', UNCHANGED Confirmations, NEW k \in Replicas, P!Insert(k)
  PROVE  CInv'
  <1>1. /\ consumer[k].phase = "insert" /\ consumer' = [consumer EXCEPT ![k] = P!Past(k)]
        /\ UNCHANGED <<committed, owner, dropped, intents>>
    BY DEF P!Insert
  <1>2. /\ MInv /\ Len(Confirmations) \in Nat /\ consumer[k].at \in Nat /\ DOMAIN payments = Refs
        /\ P!Past(k).phase = "ready" /\ P!Past(k).at = consumer[k].at + 1
    BY TopicShape DEF CInv
  <1>3. consumer[k].at < Len(Confirmations)
    BY <1>1 DEF CInv, MInv, ChargedAsRead
  <1>4. PICK n \in 1 .. Len(Confirmations) : n = consumer[k].at + 1
    BY <1>2, <1>3
  <1>5. P!Message(k) = Confirmations[n] /\ Confirmations[n] \in OrderIds
    BY <1>2, <1>4, TopicShape DEF P!Message
  <1> DEFINE ref == consumer[k].ref
             row == [order |-> Confirmations[n], status |-> "REQUIRES_PAYMENT", reason |-> "none"]
  <1>6. ref \in Refs /\ payments[ref] = NoPayment /\ intents[ref] = Confirmations[n]
    BY <1>1, <1>5 DEF CInv, OwnIntent
  <1>7. payments' = IF P!PaymentsOf(Confirmations[n]) # {} THEN payments
                    ELSE [payments EXCEPT ![ref] = row]
    BY <1>5 DEF P!Insert
  <1>8. row # NoPayment /\ row.order = Confirmations[n]
    BY <1>5, PaymentNones DEF P!Payment, P!PaymentStatus, P!Terminal
  <1>9. \A j \in Replicas : consumer'[j] = IF j = k THEN P!Past(k) ELSE consumer[j]
    BY <1>1, <1>2 DEF MInv, ChargedAsRead
  <1>10. \A j \in Replicas \ {k} : consumer[j].phase = "insert" => consumer[j].ref # ref
    BY <1>1 DEF CInv, OwnIntent
  <1> HIDE DEF ref, row
  <1>11. \A r \in Refs :
           \/ payments'[r] = payments[r]
           \/ /\ r = ref /\ payments'[r] = row /\ payments[r] = NoPayment
              /\ P!PaymentsOf(Confirmations[n]) = {}
    BY <1>2, <1>6, <1>7
  <1>12. WithinTopic'
    BY <1>1, <1>2, <1>3, <1>9 DEF CInv, WithinTopic
  <1>13. OwnIntent'
    <2>1. \A j \in Replicas \ {k} : P!Message(j)' = P!Message(j)
      BY <1>9 DEF P!Message
    <2> QED
      BY <1>1, <1>2, <1>9, <1>10, <1>11, <2>1 DEF CInv, OwnIntent
  <1>14. \A o : Charged(o) => Charged(o)'
    BY <1>11 DEF Charged, P!PaymentsOf
  <1>15. NoneSkipped'
    <2>1. CASE P!PaymentsOf(Confirmations[n]) # {}
      <3>1. Charged(Confirmations[n])
        BY <2>1 DEF Charged
      <3>2. Charged(Confirmations[n])'
        BY <1>7, <2>1 DEF Charged, P!PaymentsOf
      <3> QED
        BY <1>1, <1>4, <1>14, <3>2, ActedOnPast
    <2>2. CASE P!PaymentsOf(Confirmations[n]) = {}
      <3>1. payments'[ref] = row
        BY <1>2, <1>6, <1>7, <2>2
      <3>2. payments'[ref] # NoPayment /\ payments'[ref].order = Confirmations'[n]
        BY <1>8, <3>1
      <3>3. Charged(Confirmations[n])'
        BY <1>6, <3>2 DEF Charged, P!PaymentsOf
      <3> QED
        BY <1>1, <1>4, <1>14, <3>3, ActedOnPast
    <2> QED
      BY <2>1, <2>2
  <1>16. UnderIntent'
    BY <1>1, <1>6, <1>8, <1>11 DEF CInv, UnderIntent
  <1>17. P!OnePaymentPerOrder'
    BY <1>8, <1>11 DEF CInv, P!OnePaymentPerOrder, P!PaymentsOf
  <1> QED
    BY <1>12, <1>13, <1>15, <1>16, <1>17 DEF CInv

LEMMA CInvRest ==
  ASSUME CInv, MInv', UNCHANGED Confirmations, NEW k \in Replicas,
         P!Assign(k) \/ P!Swallow(k) \/ P!Commit(k) \/ P!Leave(k) \/ P!Crash(k)
  PROVE  CInv'
  <1>1. /\ MInv /\ Len(Confirmations) \in Nat /\ committed \in Nat
        /\ consumer[k].at \in Nat /\ P!Past(k) \in P!ConsumerState
        /\ P!Past(k).phase = "ready" /\ P!Past(k).at = consumer[k].at + 1
        /\ P!Out \in P!ConsumerState /\ P!Out.phase = "out" /\ P!Out.at = 0
        /\ UNCHANGED <<intents, payments>>
    BY TopicShape DEF CInv, P!Out, P!ConsumerState, P!Assign, P!Swallow, P!Commit, P!Leave, P!Crash
  <1>2. /\ committed <= Len(Confirmations) /\ consumer[k].at <= Len(Confirmations)
        /\ \A o : Charged(o)' = Charged(o)
    BY <1>1 DEF CInv, WithinTopic, Charged, P!PaymentsOf
  <1>3. CASE P!Assign(k)
    <2> DEFINE v == [phase |-> "ready", at |-> committed, ref |-> NoRef]
    <2>1. v \in P!ConsumerState /\ v.phase # "insert" /\ v.at = committed
      BY <1>1 DEF P!ConsumerState
    <2>2. /\ consumer' = [consumer EXCEPT ![k] = v] /\ owner' = k
          /\ UNCHANGED <<committed, dropped>>
      BY <1>3 DEF P!Assign
    <2> HIDE DEF v
    <2>3. consumer'[k].at = committed
      BY <1>1, <2>1, <2>2 DEF MInv, ChargedAsRead
    <2>4. NoneSkipped'
      BY <1>2, <2>2, <2>3 DEF CInv, NoneSkipped, ActedOn
    <2> QED
      BY <1>1, <1>2, <2>1, <2>2, <2>4, CInvGoes
  <1>4. CASE P!Swallow(k)
    <2>1. /\ consumer[k].at < Len(Confirmations) /\ UNCHANGED <<committed, owner>>
          /\ consumer' = [consumer EXCEPT ![k] = P!Past(k)]
          /\ dropped' = IF owner = k THEN dropped \cup {consumer[k].at + 1} ELSE dropped
      BY <1>4 DEF P!Swallow
    <2>2. PICK n \in 1 .. Len(Confirmations) : n = consumer[k].at + 1
      BY <1>1, <2>1
    <2>3. dropped \subseteq dropped' /\ (owner = k => n \in dropped')
      BY <2>1, <2>2
    <2>4. NoneSkipped'
      BY <1>2, <2>1, <2>2, <2>3, ActedOnPast
    <2>5. P!Past(k).at <= Len(Confirmations) /\ P!Past(k).phase # "insert"
      BY <1>1, <2>1
    <2> QED
      BY <1>1, <1>2, <2>1, <2>4, <2>5, CInvGoes
  <1>5. CASE P!Commit(k)
    <2>1. /\ UNCHANGED <<consumer, owner, dropped>> /\ owner = k /\ committed' = consumer[k].at
      BY <1>5 DEF P!Commit
    <2>2. NoneSkipped'
      BY <1>2, <2>1 DEF CInv, NoneSkipped, ActedOn
    <2>3. WithinTopic'
      BY <1>2, <2>1 DEF CInv, WithinTopic
    <2>4. OwnIntent' /\ UnderIntent' /\ P!OnePaymentPerOrder'
      BY <1>1, <2>1 DEF CInv, OwnIntent, P!Message, UnderIntent, P!OnePaymentPerOrder
    <2> QED
      BY <2>2, <2>3, <2>4 DEF CInv
  <1>6. CASE P!Leave(k) \/ P!Crash(k)
    <2>1. /\ consumer' = [consumer EXCEPT ![k] = P!Out] /\ UNCHANGED <<committed, dropped>>
          /\ owner' = owner \/ owner' = Nobody
          /\ owner' # k
      BY <1>6, PaymentNones DEF P!Leave, P!Crash
    <2>2. \A j \in Replicas \ {k} : consumer'[j] = consumer[j]
      BY <2>1 DEF CInv, MInv, ChargedAsRead
    <2>3. NoneSkipped'
      BY <1>2, <2>1, <2>2, PaymentNones DEF CInv, NoneSkipped, ActedOn
    <2>4. P!Out.at <= Len(Confirmations) /\ P!Out.phase # "insert"
      BY <1>1
    <2> QED
      BY <1>1, <1>2, <2>1, <2>3, <2>4, CInvGoes
  <1> QED
    BY <1>3, <1>4, <1>5, <1>6

LEMMA CInvStep ==
  ASSUME CInv, [MarketNext]_marketVars
  PROVE  CInv'
  <1>1. MInv /\ MInv'
    BY MInvStep DEF CInv
  <1>2. CASE UNCHANGED marketVars
    <2>1. UNCHANGED Confirmations /\ UNCHANGED paymentVars
      BY <1>2 DEF marketVars, vars, Confirmations
    <2> QED
      BY <1>1, <2>1 DEF CInv, paymentVars, WithinTopic, OwnIntent, NoneSkipped, ActedOn, Charged,
         P!PaymentsOf, P!Message, UnderIntent, P!OnePaymentPerOrder
  <1>3. CASE PaymentStep
    <2>1. UNCHANGED Confirmations
      BY <1>3 DEF PaymentStep, vars, Confirmations
    <2> QED
      BY <1>1, <1>3, <2>1, CInvFind, CInvCreateIntent, CInvInsert, CInvRest
         DEF PaymentStep, P!ConsumerStep, P!Consume
  <1> QED
    BY <1>2, <1>3, CInvBooking DEF MarketNext

LEMMA ChargingInvariance == MarketSpec => []CInv
  BY CInvInit, CInvStep, PTL DEF MarketSpec

\* An order confirmed in the topic is charged, given up by the payment service
\* after an error, or still ahead of what the consumer group has committed.
NoneForgotten ==
  \A o \in OrderIds : (\E i \in DOMAIN Confirmations : Confirmations[i] = o) =>
    \/ Charged(o) \/ GivenUp(o)
    \/ \E i \in DOMAIN Confirmations : i > committed /\ Confirmations[i] = o

\* The services together forget no confirmation: whatever the booking service
\* appends, repeats or fails to append, and however the consumers crash, lag
\* and are replaced meanwhile, one behind the committed offset has its payment
\* or was swallowed (handleMessage's catch).
THEOREM NoneForgottenHolds == MarketSpec => []NoneForgotten
  <1>1. ASSUME CInv
        PROVE  NoneForgotten
    <2> SUFFICES ASSUME NEW i \in DOMAIN Confirmations, ~(i > committed)
                 PROVE  Charged(Confirmations[i]) \/ GivenUp(Confirmations[i])
      BY DEF NoneForgotten
    <2>1. MInv
      BY <1>1 DEF CInv
    <2>2. i \in 1 .. committed
      BY <2>1, TopicShape
    <2> QED
      BY <1>1, <2>2 DEF CInv, NoneSkipped, ActedOn, GivenUp
  <1> QED
    BY <1>1, ChargingInvariance, PTL

\* In the marketplace no order is charged twice: the topic repeats
\* confirmations, the booking service confirms an order twice, replicas handle
\* one at once, and the unique index on orderId leaves one payment.
THEOREM ChargedOnceHolds == MarketSpec => []P!OnePaymentPerOrder
  BY ChargingInvariance, PTL DEF CInv
=============================================================================
