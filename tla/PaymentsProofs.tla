--------------------------- MODULE PaymentsProofs ---------------------------
(***************************************************************************)
(* Theorems about the payment service, for any number of orders, replicas, *)
(* intents, callbacks and failures.                                        *)
(*                                                                         *)
(* The rows, the log and the offset are as the properties say because of   *)
(* what those who will change them have in hand: a consumer about to       *)
(* insert holds an intent of its own, drawn for its message (Drawn), the   *)
(* owner has acted on all it has read (NothingSkipped), and a callback     *)
(* holds a settled copy of its payment that the gateway has spoken of      *)
(* (Told).  Steps of the consumers leave existing payments alone           *)
(* (RowsKept), and steps of the callbacks leave everyone's order alone     *)
(* (OrdersKept).                                                           *)
(***************************************************************************)
EXTENDS Payments, TLAPS

\* Every consumer is within the log, and at a message while it handles one.
Positions ==
  \A k \in Replicas :
    /\ consumer[k].at <= Len(log)
    /\ consumer[k].phase \in {"intent", "insert"} => consumer[k].at < Len(log)

\* A consumer about to insert has an intent that is nobody else's.
Drawn ==
  \A k \in Replicas : consumer[k].phase = "insert" =>
    /\ consumer[k].ref \in Refs
    /\ intents[consumer[k].ref] = Message(k)
    /\ payments[consumer[k].ref] = NoPayment
    /\ \A j \in Replicas \ {k} :
         consumer[j].phase = "insert" => consumer[j].ref # consumer[k].ref

\* The first n messages have their payments, or were given up.
Acted(n) == \A i \in 1 .. n : PaymentsOf(log[i]) # {} \/ i \in dropped

NothingSkipped ==
  /\ Acted(committed)
  /\ owner \in Replicas => Acted(consumer[owner].at)

\* A payment belongs to the intent of a confirmed order.
Founded ==
  \A ref \in Refs : payments[ref] # NoPayment =>
    /\ intents[ref] = payments[ref].order
    /\ \E i \in DOMAIN log : log[i] = payments[ref].order

\* The gateway's word behind a status.
Word(ref, order, status) ==
  [ref |-> ref, order |-> order, outcome |-> IF status = "PAID" THEN "succeeded" ELSE "failed"]

\* The payment ref is the order's, and the gateway has reported its status.
ReportedOf(ref, order, status) ==
  /\ payments[ref] # NoPayment
  /\ payments[ref].order = order
  /\ status \in Terminal
  /\ Word(ref, order, status) \in sent

RowsTold ==
  \A ref \in Refs : (payments[ref] # NoPayment /\ payments[ref].status \in Terminal) =>
    Word(ref, payments[ref].order, payments[ref].status) \in sent

EventsTold ==
  \A e \in sent : payments[e.ref] # NoPayment /\ payments[e.ref].order = e.order

\* What a callback holds; a row it has found or made settled stays settled.
HoldsTruth(q) ==
  /\ q.phase = "apply" => q.event \in sent
  /\ q.phase \in {"select", "update", "emit", "done"} =>
       ReportedOf(q.ref, q.entity.order, q.entity.status)
  /\ (q.phase \in {"emit", "done"} \/ (q.phase = "update" /\ "status" \notin q.changed)) =>
       payments[q.ref].status \in Terminal

CallbacksTold == \A r \in Callbacks : HoldsTruth(request[r])

ProcessedTold ==
  \A i \in DOMAIN processed :
    /\ ReportedOf(processed[i].payment, processed[i].order, processed[i].status)
    /\ payments[processed[i].payment].status \in Terminal

Told == RowsTold /\ EventsTold /\ CallbacksTold /\ ProcessedTold

IInv ==
  /\ TypeOK /\ Positions /\ Drawn /\ NothingSkipped
  /\ OnePaymentPerOrder /\ Founded /\ Told

-----------------------------------------------------------------------------
(* Shapes.                                                                 *)

\* A callback with an event in hand has its fields, and so has one with an
\* entity.
LEMMA RequestShape ==
  ASSUME TypeOK, NEW r \in Callbacks
  PROVE  /\ request[r].phase = "apply" => request[r] \in Applying
         /\ request[r].phase \in {"select", "update", "emit", "done"} => request[r] \in Settling
  <1>1. request[r] \in Applying \cup Settling \cup {Waiting, Over}
    BY DEF TypeOK
  <1>2. Waiting.phase = "waiting" /\ Over.phase = "over"
    BY DEF Waiting, Over
  <1>3. \A x \in Applying : x.phase = "apply"
    BY DEF Applying
  <1>4. \A x \in Settling : x.phase \in {"select", "update", "emit", "done"}
    BY DEF Settling
  <1> QED
    BY <1>1, <1>2, <1>3, <1>4

\* A consumer at a message is at one of the log's.
LEMMA MessageShape ==
  ASSUME TypeOK, NEW k \in Replicas, consumer[k].at < Len(log)
  PROVE  /\ consumer[k].at + 1 \in 1 .. Len(log)
         /\ Message(k) = log[consumer[k].at + 1]
         /\ Message(k) \in OrderIds
  BY DEF TypeOK, ConsumerState, Message

LEMMA RowShape ==
  ASSUME TypeOK, NEW ref \in Refs, payments[ref] # NoPayment
  PROVE  /\ payments[ref] \in Payment
         /\ payments[ref].order \in OrderIds
         /\ payments[ref].status \in PaymentStatus
  BY DEF TypeOK, Payment

LEMMA IInvInit ==
  ASSUME Init
  PROVE  IInv
  <1>1. Out \in ConsumerState
    BY DEF Out, ConsumerState
  <1>2. TypeOK
    BY <1>1, BoundsAssumption DEF Init, TypeOK
  <1>3. Positions /\ Drawn
    BY DEF Init, Positions, Drawn, Out
  <1>4. NothingSkipped
    BY NoneAssumption DEF Init, NothingSkipped, Acted
  <1>5. OnePaymentPerOrder /\ Founded
    BY DEF Init, OnePaymentPerOrder, Founded
  <1>6. Told
    BY DEF Init, Told, RowsTold, EventsTold, CallbacksTold, ProcessedTold, HoldsTruth, Waiting
  <1> QED
    BY <1>2, <1>3, <1>4, <1>5, <1>6 DEF IInv

-----------------------------------------------------------------------------
(* What a step leaves alone.                                               *)

\* A step of the consumers adds payments that nothing has been said of.
RowsKept ==
  \A ref \in Refs :
    \/ payments'[ref] = payments[ref]
    \/ payments[ref] = NoPayment /\ payments'[ref].status = "REQUIRES_PAYMENT"

LEMMA ToldKept ==
  ASSUME IInv, RowsKept, UNCHANGED calls
  PROVE  Told'
  <1>1. \A ref \in Refs : payments[ref] # NoPayment => payments'[ref] = payments[ref]
    BY DEF RowsKept
  <1>2. \A ref \in Refs : \A o, s : ReportedOf(ref, o, s) => ReportedOf(ref, o, s)'
    BY <1>1 DEF ReportedOf, calls
  <1>3. RowsTold'
    BY <1>1 DEF RowsKept, IInv, Told, RowsTold, calls, Terminal
  <1>4. EventsTold'
    BY <1>1 DEF IInv, TypeOK, Told, EventsTold, calls, GatewayEvent
  <1>5. CallbacksTold'
    <2> SUFFICES ASSUME NEW r \in Callbacks
                 PROVE  HoldsTruth(request[r])'
      BY DEF CallbacksTold
    <2>1. HoldsTruth(request[r]) /\ request'[r] = request[r] /\ sent' = sent
      BY DEF IInv, Told, CallbacksTold, calls
    <2>2. request[r].phase \in {"select", "update", "emit", "done"} =>
            request[r].ref \in Refs /\ payments[request[r].ref] # NoPayment
      BY <2>1, RequestShape DEF IInv, HoldsTruth, ReportedOf, Settling
    <2> QED
      BY <1>1, <1>2, <2>1, <2>2 DEF HoldsTruth
  <1>6. ProcessedTold'
    <2> SUFFICES ASSUME NEW i \in DOMAIN processed
                 PROVE  /\ ReportedOf(processed[i].payment, processed[i].order, processed[i].status)'
                        /\ payments'[processed[i].payment].status \in Terminal
      BY DEF ProcessedTold, calls
    <2>1. processed' = processed
      BY DEF calls
    <2>2. processed[i].payment \in Refs
      <3>1. processed \in Seq(Processed)
        BY DEF IInv, TypeOK
      <3>2. processed[i] \in Processed
        BY <3>1
      <3> QED
        BY <3>2 DEF Processed
    <2>3. /\ ReportedOf(processed[i].payment, processed[i].order, processed[i].status)
          /\ payments[processed[i].payment].status \in Terminal
      BY DEF IInv, Told, ProcessedTold
    <2> QED
      BY <1>1, <1>2, <2>1, <2>2, <2>3 DEF ReportedOf
  <1> QED
    BY <1>3, <1>4, <1>5, <1>6 DEF Told

\* A step of the callbacks leaves every payment with its order.
OrdersKept ==
  \A ref \in Refs :
    IF payments[ref] = NoPayment THEN payments'[ref] = NoPayment
    ELSE payments'[ref] # NoPayment /\ payments'[ref].order = payments[ref].order

LEMMA FeedKept ==
  ASSUME IInv, TypeOK', OrdersKept, UNCHANGED feed
  PROVE  Positions' /\ Drawn' /\ NothingSkipped' /\ OnePaymentPerOrder' /\ Founded'
  <1>1. \A o : PaymentsOf(o)' = PaymentsOf(o)
    BY DEF OrdersKept, PaymentsOf
  <1>2. Positions'
    BY DEF IInv, Positions, feed
  <1>3. Drawn'
    BY DEF IInv, Drawn, feed, OrdersKept, Message
  <1>4. NothingSkipped'
    BY <1>1 DEF IInv, NothingSkipped, Acted, feed
  <1>5. OnePaymentPerOrder'
    BY DEF IInv, OnePaymentPerOrder, OrdersKept
  <1>6. Founded'
    BY DEF IInv, Founded, OrdersKept, feed
  <1> QED
    BY <1>2, <1>3, <1>4, <1>5, <1>6

-----------------------------------------------------------------------------
(* The consumers.                                                          *)

LEMMA IInvPublish ==
  ASSUME IInv, NEW o \in OrderIds, Publish(o)
  PROVE  IInv'
  <1> USE DEF Publish
  <1>1. /\ log \in Seq(OrderIds) /\ Len(log') = Len(log) + 1
        /\ \A i \in 1 .. Len(log) : log'[i] = log[i]
    BY DEF IInv, TypeOK
  <1>2. TypeOK'
    <2>1. log' \in Seq(OrderIds) /\ Len(log) \in Nat /\ Len(log') <= MaxLog
      BY <1>1, BoundsAssumption DEF IInv, TypeOK
    <2>2. committed' \in 0 .. Len(log') /\ dropped' \subseteq 1 .. Len(log')
      BY <1>1, <2>1 DEF IInv, TypeOK
    <2> QED
      BY <2>1, <2>2 DEF IInv, TypeOK, calls
  <1>3. Positions'
    BY <1>1 DEF IInv, TypeOK, ConsumerState, Positions
  <1>4. Drawn'
    <2>1. \A k \in Replicas : consumer[k].phase = "insert" => Message(k)' = Message(k)
      BY <1>1 DEF IInv, TypeOK, ConsumerState, Positions, Message
    <2> QED
      BY <2>1 DEF IInv, Drawn
  <1>5. NothingSkipped'
    <2>1. \A n \in 0 .. Len(log) : Acted(n) => Acted(n)'
      BY <1>1 DEF Acted, PaymentsOf
    <2>2. /\ committed \in 0 .. Len(log)
          /\ owner \in Replicas => consumer[owner].at \in 0 .. Len(log)
      BY DEF IInv, TypeOK, ConsumerState, Positions
    <2> QED
      BY <2>1, <2>2 DEF IInv, NothingSkipped
  <1>6. OnePaymentPerOrder'
    BY DEF IInv, OnePaymentPerOrder
  <1>7. Founded'
    BY <1>1 DEF IInv, Founded
  <1>8. Told'
    BY ToldKept DEF RowsKept
  <1> QED
    BY <1>2, <1>3, <1>4, <1>5, <1>6, <1>7, <1>8 DEF IInv

\* A consumer is moved to a message, or out, and nothing is inserted.
LEMMA ConsumerMoves ==
  ASSUME IInv, TypeOK', NEW k \in Replicas, NEW v \in ConsumerState,
         consumer' = [consumer EXCEPT ![k] = v],
         v.phase \in {"out", "ready", "intent"},
         v.at <= Len(log), v.phase = "intent" => v.at < Len(log),
         UNCHANGED <<log, intents, payments>>, UNCHANGED calls
  PROVE  Positions' /\ Drawn' /\ OnePaymentPerOrder' /\ Founded' /\ Told'
  <1>1. \A j \in Replicas : consumer'[j] = IF j = k THEN v ELSE consumer[j]
    BY DEF IInv, TypeOK
  <1>2. Positions'
    BY <1>1 DEF IInv, Positions
  <1>3. Drawn'
    BY <1>1 DEF IInv, Drawn, Message
  <1>4. OnePaymentPerOrder' /\ Founded'
    BY DEF IInv, OnePaymentPerOrder, Founded
  <1>5. Told'
    BY ToldKept DEF RowsKept
  <1> QED
    BY <1>2, <1>3, <1>4, <1>5

LEMMA IInvAssign ==
  ASSUME IInv, NEW k \in Replicas, Assign(k)
  PROVE  IInv'
  <1> DEFINE v == [phase |-> "ready", at |-> committed, ref |-> NoRef]
  <1>1. v \in ConsumerState /\ v.at <= Len(log)
    BY DEF IInv, TypeOK, ConsumerState
  <1>2. consumer' = [consumer EXCEPT ![k] = v]
    BY DEF Assign
  <1>3. TypeOK'
    <2>1. failures' \in 0 .. MaxFailures
      BY BoundsAssumption DEF Assign, IInv, TypeOK
    <2> QED
      BY <1>1, <1>2, <2>1 DEF Assign, IInv, TypeOK, calls
  <1>4. Positions' /\ Drawn' /\ OnePaymentPerOrder' /\ Founded' /\ Told'
    BY <1>1, <1>2, <1>3, ConsumerMoves DEF Assign
  <1>5. NothingSkipped'
    BY DEF Assign, IInv, TypeOK, NothingSkipped, Acted, PaymentsOf
  <1> QED
    BY <1>3, <1>4, <1>5 DEF IInv

LEMMA PastShape ==
  ASSUME TypeOK, NEW k \in Replicas
  PROVE  /\ Past(k) \in ConsumerState
         /\ Past(k).phase = "ready" /\ Past(k).at = consumer[k].at + 1
         /\ consumer[k] \in ConsumerState /\ consumer[k].at \in Nat
  BY DEF TypeOK, ConsumerState, Past

\* The next message is behind a consumer: it is paid for, or the owner gave
\* it up.
LEMMA ActedPast ==
  ASSUME IInv, NEW k \in Replicas, NEW n \in 1 .. Len(log), n = consumer[k].at + 1,
         consumer' = [consumer EXCEPT ![k] = Past(k)],
         UNCHANGED <<log, committed, owner>>, dropped \subseteq dropped',
         \A o : PaymentsOf(o) # {} => PaymentsOf(o)' # {},
         PaymentsOf(log[n])' # {} \/ (owner = k => n \in dropped')
  PROVE  NothingSkipped'
  <1>1. \A j \in Replicas : consumer'[j] = IF j = k THEN Past(k) ELSE consumer[j]
    BY DEF IInv, TypeOK
  <1>2. Past(k).at = n /\ consumer[k].at = n - 1
    BY PastShape DEF IInv
  <1>3. \A m : Acted(m) => Acted(m)'
    BY DEF Acted
  <1>4. (owner = k /\ Acted(n - 1)) => Acted(n)'
    <2>1. \A i \in 1 .. n : i \in 1 .. n - 1 \/ i = n
      OBVIOUS
    <2> QED
      BY <2>1 DEF Acted
  <1>5. Acted(committed)'
    BY <1>3 DEF IInv, NothingSkipped
  <1>6. owner \in Replicas => Acted(consumer[owner].at)'
    BY <1>1, <1>2, <1>3, <1>4 DEF IInv, NothingSkipped
  <1> QED
    BY <1>5, <1>6 DEF NothingSkipped

LEMMA IInvFindPayment ==
  ASSUME IInv, NEW k \in Replicas, FindPayment(k)
  PROVE  IInv'
  <1>1. /\ consumer[k].phase = "ready" /\ consumer[k].at < Len(log)
        /\ UNCHANGED <<log, committed, owner, dropped, failures, intents, payments>>
        /\ UNCHANGED calls
    BY DEF FindPayment
  <1>2. Len(log) \in Nat
    BY DEF IInv, TypeOK
  <1>3. CASE PaymentsOf(Message(k)) # {}
    <2>1. consumer' = [consumer EXCEPT ![k] = Past(k)]
      BY <1>3 DEF FindPayment
    <2>2. TypeOK'
      BY <1>1, <2>1, PastShape DEF IInv, TypeOK, calls
    <2> DEFINE v == Past(k)
    <2>a. /\ v \in ConsumerState /\ v.at <= Len(log) /\ v.phase = "ready"
          /\ consumer' = [consumer EXCEPT ![k] = v]
      BY <1>1, <1>2, <2>1, PastShape DEF IInv
    <2> HIDE DEF v
    <2>3. Positions' /\ Drawn' /\ OnePaymentPerOrder' /\ Founded' /\ Told'
      BY <1>1, <2>2, <2>a, ConsumerMoves
    <2>4. NothingSkipped'
      <3>1. consumer[k].at + 1 \in 1 .. Len(log) /\ Message(k) = log[consumer[k].at + 1]
        BY <1>1, MessageShape DEF IInv
      <3>2. \A o : PaymentsOf(o)' = PaymentsOf(o)
        BY <1>1 DEF PaymentsOf
      <3>3. PaymentsOf(log[consumer[k].at + 1]) # {}
        BY <1>3, <3>1
      <3> QED
        BY <1>1, <2>1, <3>1, <3>2, <3>3, ActedPast
    <2> QED
      BY <2>2, <2>3, <2>4 DEF IInv
  <1>4. CASE PaymentsOf(Message(k)) = {}
    <2> DEFINE v == [consumer[k] EXCEPT !.phase = "intent"]
    <2>1. consumer' = [consumer EXCEPT ![k] = v]
      BY <1>4 DEF FindPayment
    <2>2. v \in ConsumerState /\ v.at = consumer[k].at /\ v.phase = "intent"
      BY DEF IInv, TypeOK, ConsumerState
    <2> HIDE DEF v
    <2>3. TypeOK'
      BY <1>1, <2>1, <2>2 DEF IInv, TypeOK, calls
    <2>a. v.at <= Len(log) /\ v.at < Len(log)
      BY <1>1, <1>2, <2>2, PastShape DEF IInv
    <2>4. Positions' /\ Drawn' /\ OnePaymentPerOrder' /\ Founded' /\ Told'
      BY <1>1, <2>1, <2>2, <2>3, <2>a, ConsumerMoves
    <2>5. NothingSkipped'
      BY <1>1, <2>1, <2>2 DEF IInv, TypeOK, NothingSkipped, Acted, PaymentsOf
    <2> QED
      BY <2>3, <2>4, <2>5 DEF IInv
  <1> QED
    BY <1>3, <1>4

\* The intent was nobody's: no payment stands under it, no consumer holds it.
LEMMA IInvCreateIntent ==
  ASSUME IInv, NEW k \in Replicas, NEW ref \in Refs, CreateIntent(k, ref)
  PROVE  IInv'
  <1> DEFINE v == [consumer[k] EXCEPT !.phase = "insert", !.ref = ref]
  <1>1. /\ consumer[k].phase = "intent" /\ intents[ref] = NoOrder
        /\ intents' = [intents EXCEPT ![ref] = Message(k)]
        /\ consumer' = [consumer EXCEPT ![k] = v]
        /\ UNCHANGED <<log, committed, owner, dropped, failures, payments>>
        /\ UNCHANGED calls
    BY DEF CreateIntent
  <1>2. /\ v \in ConsumerState /\ v.at = consumer[k].at /\ v.phase = "insert" /\ v.ref = ref
        /\ consumer[k].at < Len(log)
    BY <1>1 DEF IInv, TypeOK, ConsumerState, Positions
  <1> HIDE DEF v
  <1>3. Message(k) \in OrderIds
    BY <1>2, MessageShape DEF IInv
  <1>4. /\ \A j \in Replicas : consumer'[j] = IF j = k THEN v ELSE consumer[j]
        /\ \A r \in Refs : intents'[r] = IF r = ref THEN Message(k) ELSE intents[r]
    BY <1>1 DEF IInv, TypeOK
  <1>5. TypeOK'
    BY <1>1, <1>2, <1>3 DEF IInv, TypeOK, calls
  <1>6. Positions'
    BY <1>1, <1>2, <1>4 DEF IInv, Positions
  <1>7. payments[ref] = NoPayment
    BY <1>1, NoneAssumption, RowShape DEF IInv, Founded
  <1>8. \A j \in Replicas : consumer[j].phase = "insert" =>
          consumer[j].ref # ref /\ Message(j) \in OrderIds
    BY <1>1, MessageShape, NoneAssumption DEF IInv, Drawn, Positions
  <1>9. Drawn'
    <2>1. \A j \in Replicas : Message(j)' = Message(j)
      BY <1>1, <1>2, <1>4 DEF Message
    <2> QED
      BY <1>1, <1>2, <1>4, <1>7, <1>8, <2>1 DEF IInv, Drawn
  <1>10. NothingSkipped'
    BY <1>1, <1>2, <1>4 DEF IInv, NothingSkipped, Acted, PaymentsOf
  <1>11. OnePaymentPerOrder'
    BY <1>1 DEF IInv, OnePaymentPerOrder
  <1>12. Founded'
    BY <1>1, <1>4, <1>7 DEF IInv, Founded
  <1>13. Told'
    BY <1>1, ToldKept DEF RowsKept
  <1> QED
    BY <1>5, <1>6, <1>9, <1>10, <1>11, <1>12, <1>13 DEF IInv

\* The unique index keeps orders apart; the consumer's own intent keeps an
\* existing payment from being overwritten.
LEMMA IInvInsert ==
  ASSUME IInv, NEW k \in Replicas, Insert(k)
  PROVE  IInv'
  <1>a. PICK n \in 1 .. Len(log) : n = consumer[k].at + 1
    BY MessageShape DEF IInv, Positions, Insert
  <1> DEFINE ref == consumer[k].ref
             row == [order |-> log[n], status |-> "REQUIRES_PAYMENT", reason |-> "none"]
  <1>1. /\ consumer[k].phase = "insert" /\ consumer' = [consumer EXCEPT ![k] = Past(k)]
        /\ UNCHANGED <<log, committed, owner, dropped, failures, intents>>
        /\ UNCHANGED calls
    BY DEF Insert
  <1>2. /\ consumer[k].at < Len(log) /\ Len(log) \in Nat
        /\ Message(k) = log[n] /\ log[n] \in OrderIds
    BY <1>a, <1>1, MessageShape DEF IInv, Positions, TypeOK
  <1>3. ref \in Refs /\ payments[ref] = NoPayment /\ intents[ref] = log[n]
    BY <1>1, <1>2 DEF IInv, Drawn
  <1>4. payments' = IF PaymentsOf(log[n]) # {} THEN payments
                    ELSE [payments EXCEPT ![ref] = row]
    BY <1>2 DEF Insert
  <1>5. /\ row \in Payment /\ row # NoPayment /\ row.order = log[n]
        /\ row.status = "REQUIRES_PAYMENT"
    BY <1>2, NoPaymentAssumption DEF Payment, PaymentStatus
  <1>6. /\ Past(k) \in ConsumerState /\ Past(k).phase = "ready"
        /\ Past(k).at = n /\ Past(k).at <= Len(log)
        /\ \A j \in Replicas : consumer'[j] = IF j = k THEN Past(k) ELSE consumer[j]
    BY <1>a, <1>1, <1>2, PastShape DEF IInv, TypeOK
  <1> HIDE DEF ref, row
  <1>7. \A r \in Refs :
          \/ payments'[r] = payments[r]
          \/ r = ref /\ payments'[r] = row /\ payments[r] = NoPayment /\ PaymentsOf(log[n]) = {}
    BY <1>3, <1>4 DEF IInv, TypeOK
  <1>8. TypeOK'
    BY <1>1, <1>3, <1>4, <1>5, <1>6 DEF IInv, TypeOK, calls
  <1>9. Positions'
    BY <1>1, <1>6 DEF IInv, Positions
  <1>10. Drawn'
    <2>1. \A j \in Replicas \ {k} : Message(j)' = Message(j)
      BY <1>1, <1>6 DEF Message
    <2>2. \A j \in Replicas \ {k} : consumer[j].phase = "insert" => consumer[j].ref # ref
      BY <1>1 DEF IInv, Drawn, ref
    <2> QED
      BY <1>1, <1>6, <1>7, <2>1, <2>2 DEF IInv, Drawn
  <1>11. \A o : PaymentsOf(o) # {} => PaymentsOf(o)' # {}
    BY <1>7 DEF PaymentsOf
  <1>12. NothingSkipped'
    <2>1. PaymentsOf(log[n])' # {}
      <3>1. CASE PaymentsOf(log[n]) # {}
        BY <1>1, <1>11, <3>1
      <3>2. CASE PaymentsOf(log[n]) = {}
        <4>1. payments'[ref] = row
          BY <1>3, <1>4, <3>2 DEF IInv, TypeOK
        <4>2. ref \in PaymentsOf(log[n])'
          BY <1>1, <1>3, <1>5, <4>1 DEF PaymentsOf
        <4> QED
          BY <4>2
      <3> QED
        BY <3>1, <3>2
    <2> QED
      BY <1>a, <1>1, <1>11, <2>1, ActedPast
  <1>13. OnePaymentPerOrder'
    BY <1>5, <1>7 DEF IInv, OnePaymentPerOrder, PaymentsOf
  <1>14. Founded'
    BY <1>1, <1>2, <1>3, <1>5, <1>7 DEF IInv, Founded, TypeOK
  <1>15. Told'
    BY <1>1, <1>5, <1>7, ToldKept DEF RowsKept
  <1> QED
    BY <1>8, <1>9, <1>10, <1>12, <1>13, <1>14, <1>15 DEF IInv

LEMMA IInvSwallow ==
  ASSUME IInv, NEW k \in Replicas, Swallow(k)
  PROVE  IInv'
  <1> DEFINE n == consumer[k].at + 1
             v == Past(k)
  <1>1. /\ consumer[k].at < Len(log) /\ Len(log) \in Nat
        /\ consumer' = [consumer EXCEPT ![k] = Past(k)]
        /\ dropped' = IF owner = k THEN dropped \cup {n} ELSE dropped
        /\ UNCHANGED <<log, committed, owner, intents, payments>>
        /\ UNCHANGED calls
    BY DEF Swallow, IInv, TypeOK
  <1>2. /\ v \in ConsumerState /\ v.phase = "ready" /\ v.at <= Len(log)
        /\ n \in 1 .. Len(log)
    BY <1>1, PastShape DEF IInv
  <1>3. failures' \in 0 .. MaxFailures
    BY BoundsAssumption DEF Swallow, IInv, TypeOK
  <1>4. TypeOK'
    <2>1. consumer' \in [Replicas -> ConsumerState] /\ dropped' \subseteq 1 .. Len(log)
      BY <1>1, <1>2 DEF IInv, TypeOK
    <2> QED
      BY <1>1, <1>3, <2>1 DEF IInv, TypeOK, calls
  <1>5. Positions' /\ Drawn' /\ OnePaymentPerOrder' /\ Founded' /\ Told'
    <2> HIDE DEF v
    <2>1. consumer' = [consumer EXCEPT ![k] = v]
      BY <1>1 DEF v
    <2> QED
      BY <1>1, <1>2, <1>4, <2>1, ConsumerMoves
  <1>6. NothingSkipped'
    <2>1. \A o : PaymentsOf(o)' = PaymentsOf(o)
      BY <1>1 DEF PaymentsOf
    <2>2. dropped \subseteq dropped' /\ (owner = k => n \in dropped')
      BY <1>1
    <2> QED
      BY <1>1, <1>2, <2>1, <2>2, ActedPast
  <1> QED
    BY <1>4, <1>5, <1>6 DEF IInv

LEMMA IInvCommit ==
  ASSUME IInv, NEW k \in Replicas, Commit(k)
  PROVE  IInv'
  <1>1. /\ owner = k /\ committed' = consumer[k].at
        /\ UNCHANGED <<log, owner, consumer, dropped, failures, intents, payments>>
        /\ UNCHANGED calls
    BY DEF Commit
  <1>2. consumer[k].at \in 0 .. Len(log)
    BY PastShape DEF IInv, Positions, TypeOK
  <1>3. TypeOK'
    BY <1>1, <1>2 DEF IInv, TypeOK, calls
  <1>4. Positions' /\ Drawn' /\ OnePaymentPerOrder' /\ Founded'
    BY <1>1 DEF IInv, Positions, Drawn, OnePaymentPerOrder, Founded, Message
  <1>5. NothingSkipped'
    BY <1>1 DEF IInv, NothingSkipped, Acted, PaymentsOf
  <1>6. Told'
    BY <1>1, ToldKept DEF RowsKept
  <1> QED
    BY <1>3, <1>4, <1>5, <1>6 DEF IInv

LEMMA OutShape == Out \in ConsumerState /\ Out.phase = "out" /\ Out.at = 0
  BY DEF Out, ConsumerState

LEMMA IInvLeave ==
  ASSUME IInv, NEW k \in Replicas, Leave(k)
  PROVE  IInv'
  <1>1. /\ owner # k /\ consumer' = [consumer EXCEPT ![k] = Out]
        /\ UNCHANGED <<log, committed, owner, dropped, failures, intents, payments>>
        /\ UNCHANGED calls
    BY DEF Leave
  <1>2. TypeOK'
    BY <1>1, OutShape DEF IInv, TypeOK, calls
  <1>3. Out.at <= Len(log)
    BY OutShape DEF IInv, TypeOK
  <1>4. Positions' /\ Drawn' /\ OnePaymentPerOrder' /\ Founded' /\ Told'
    BY <1>1, <1>2, <1>3, OutShape, ConsumerMoves
  <1>5. NothingSkipped'
    BY <1>1 DEF IInv, TypeOK, NothingSkipped, Acted, PaymentsOf
  <1> QED
    BY <1>2, <1>4, <1>5 DEF IInv

LEMMA IInvCrash ==
  ASSUME IInv, NEW k \in Replicas, Crash(k)
  PROVE  IInv'
  <1>1. /\ consumer' = [consumer EXCEPT ![k] = Out]
        /\ owner' = IF owner = k THEN Nobody ELSE owner
        /\ UNCHANGED <<log, committed, dropped, intents, payments>>
        /\ UNCHANGED calls
    BY DEF Crash
  <1>2. failures' \in 0 .. MaxFailures
    BY BoundsAssumption DEF Crash, IInv, TypeOK
  <1>3. TypeOK'
    BY <1>1, <1>2, OutShape DEF IInv, TypeOK, calls
  <1>4. Out.at <= Len(log)
    BY OutShape DEF IInv, TypeOK
  <1>5. Positions' /\ Drawn' /\ OnePaymentPerOrder' /\ Founded' /\ Told'
    BY <1>1, <1>3, <1>4, OutShape, ConsumerMoves
  <1>6. NothingSkipped'
    BY <1>1, NoneAssumption DEF IInv, TypeOK, NothingSkipped, Acted, PaymentsOf
  <1> QED
    BY <1>3, <1>5, <1>6 DEF IInv

-----------------------------------------------------------------------------
(* The callbacks.                                                          *)

\* A callback goes from one state to the next; nothing else changes but,
\* perhaps, what the gateway has said of existing payments.
LEMMA CallbackMoves ==
  ASSUME IInv, NEW r \in Callbacks,
         NEW v \in Applying \cup Settling \cup {Waiting, Over},
         request' = [request EXCEPT ![r] = v],
         sent \subseteq sent', sent' \subseteq GatewayEvent, EventsTold',
         HoldsTruth(v)',
         UNCHANGED <<payments, processed>>, UNCHANGED feed
  PROVE  IInv'
  <1>1. \A s \in Callbacks : request'[s] = IF s = r THEN v ELSE request[s]
    BY DEF IInv, TypeOK
  <1>2. TypeOK'
    BY DEF IInv, TypeOK, feed
  <1>3. Positions' /\ Drawn' /\ NothingSkipped' /\ OnePaymentPerOrder' /\ Founded'
    BY <1>2, FeedKept DEF OrdersKept
  <1>4. RowsTold'
    BY DEF IInv, Told, RowsTold
  <1>5. CallbacksTold'
    <2> SUFFICES ASSUME NEW s \in Callbacks, s # r
                 PROVE  HoldsTruth(request[s])'
      BY <1>1 DEF CallbacksTold, HoldsTruth, ReportedOf
    <2>1. HoldsTruth(request[s]) /\ request'[s] = request[s]
      BY <1>1 DEF IInv, Told, CallbacksTold
    <2> QED
      BY <2>1 DEF HoldsTruth, ReportedOf
  <1>6. ProcessedTold'
    BY DEF IInv, Told, ProcessedTold, ReportedOf
  <1> QED
    BY <1>2, <1>3, <1>4, <1>5, <1>6 DEF IInv, Told

LEMMA IInvPay ==
  ASSUME IInv, NEW r \in Callbacks, NEW ref \in Refs, NEW outcome \in Outcomes,
         Pay(r, ref, outcome)
  PROVE  IInv'
  <1> DEFINE event == SignedWebhook(ref, outcome)
             v == [phase |-> "apply", event |-> event]
  <1>1. /\ payments[ref] # NoPayment /\ sent' = sent \cup {event}
        /\ request' = [request EXCEPT ![r] = v]
        /\ UNCHANGED <<payments, processed>> /\ UNCHANGED feed
    BY DEF Pay
  <1>2. event \in GatewayEvent /\ event.ref = ref /\ event.order = payments[ref].order
    BY <1>1, RowShape DEF IInv, SignedWebhook, GatewayEvent
  <1>3. v \in Applying /\ v.phase = "apply" /\ v.event = event
    BY <1>2 DEF Applying
  <1> HIDE DEF event, v
  <1>4. sent \subseteq sent' /\ sent' \subseteq GatewayEvent
    BY <1>1, <1>2 DEF IInv, TypeOK
  <1>5. EventsTold'
    BY <1>1, <1>2 DEF IInv, Told, EventsTold
  <1>6. PICK w : w = v
    OBVIOUS
  <1>7. HoldsTruth(w)'
    BY <1>1, <1>3, <1>6 DEF HoldsTruth
  <1> QED
    BY <1>1, <1>3, <1>4, <1>5, <1>6, <1>7, CallbackMoves

LEMMA IInvWebhook ==
  ASSUME IInv, NEW r \in Callbacks, NEW event \in GatewayEvent, Webhook(r, event)
  PROVE  IInv'
  <1> DEFINE v == [phase |-> "apply", event |-> event]
  <1>1. /\ event \in sent /\ request' = [request EXCEPT ![r] = v]
        /\ UNCHANGED <<payments, sent, processed>> /\ UNCHANGED feed
    BY DEF Webhook, Verified
  <1>2. v \in Applying /\ v.phase = "apply" /\ v.event = event
    BY DEF Applying
  <1> HIDE DEF v
  <1>3. EventsTold' /\ sent' \subseteq GatewayEvent
    BY <1>1 DEF IInv, TypeOK, Told, EventsTold
  <1>4. PICK w : w = v
    OBVIOUS
  <1>5. HoldsTruth(w)'
    BY <1>1, <1>2, <1>4 DEF HoldsTruth
  <1> QED
    BY <1>1, <1>2, <1>3, <1>4, <1>5, CallbackMoves

\* An answer without an entity, or an end: nothing is claimed of it.
LEMMA IInvOver ==
  ASSUME IInv, NEW r \in Callbacks, request' = [request EXCEPT ![r] = Over],
         UNCHANGED <<payments, sent, processed>>, UNCHANGED feed
  PROVE  IInv'
  <1>1. HoldsTruth(Over)'
    BY DEF HoldsTruth, Over
  <1>2. EventsTold' /\ sent' \subseteq GatewayEvent
    BY DEF IInv, TypeOK, Told, EventsTold
  <1> QED
    BY <1>1, <1>2, CallbackMoves

\* The payment that findOne returns is the one the gateway spoke of, because
\* an order has only one.
LEMMA IInvApply ==
  ASSUME IInv, NEW r \in Callbacks, Apply(r)
  PROVE  IInv'
  <1> DEFINE event == request[r].event
  <1>1. request[r].phase = "apply" /\ request[r] \in Applying
    BY RequestShape DEF IInv, Apply
  <1>2. event \in sent /\ event \in GatewayEvent
    BY <1>1 DEF IInv, Told, CallbacksTold, HoldsTruth, Applying
  <1>3. UNCHANGED <<payments, sent, processed>> /\ UNCHANGED feed
    BY DEF Apply
  <1>4. PICK ref \in PaymentsOf(event.order) :
          request' = [request EXCEPT ![r] =
            IF Ignored(payments[ref].status) THEN Over
            ELSE [phase |-> "select", ref |-> ref,
                  entity |-> Settled(payments[ref], event), changed |-> {}]]
    BY DEF Apply
  <1>5. CASE Ignored(payments[ref].status)
    BY <1>3, <1>4, <1>5, IInvOver
  <1>6. CASE ~Ignored(payments[ref].status)
    <2>1. /\ ref \in Refs /\ payments[ref] # NoPayment
          /\ payments[ref].order = event.order /\ payments[ref] \in Payment
      BY RowShape DEF IInv, PaymentsOf
    <2>2. event.ref \in Refs /\ payments[event.ref] # NoPayment
            /\ payments[event.ref].order = event.order
      BY <1>2 DEF IInv, Told, EventsTold, GatewayEvent
    <2>3. event.ref = ref
      BY <2>1, <2>2 DEF IInv, OnePaymentPerOrder
    <2>4. PICK entity : entity = Settled(payments[ref], event)
      OBVIOUS
    <2>5. /\ entity \in Payment /\ entity.order = event.order
          /\ entity.status = IF event.outcome = "succeeded" THEN "PAID" ELSE "FAILED"
      BY <2>1, <2>4 DEF Settled, Payment, PaymentStatus, Terminal
    <2>6. Word(ref, entity.order, entity.status) = event
      BY <1>2, <2>3, <2>5 DEF Word, GatewayEvent, Outcomes
    <2> DEFINE v == [phase |-> "select", ref |-> ref, entity |-> entity, changed |-> {}]
    <2>7. /\ v \in Settling /\ v.phase = "select" /\ v.ref = ref /\ v.entity = entity
      BY <2>1, <2>5 DEF Settling
    <2>8. request' = [request EXCEPT ![r] = v]
      BY <1>4, <1>6, <2>4
    <2> HIDE DEF v
    <2>9. ReportedOf(ref, entity.order, entity.status)
      BY <1>2, <2>1, <2>5, <2>6 DEF ReportedOf, Terminal
    <2>10. HoldsTruth(v)'
      BY <1>3, <2>7, <2>9 DEF HoldsTruth, ReportedOf
    <2>11. EventsTold' /\ sent' \subseteq GatewayEvent
      BY <1>3 DEF IInv, TypeOK, Told, EventsTold
    <2> QED
      BY <1>3, <2>7, <2>8, <2>10, <2>11, CallbackMoves
  <1> QED
    BY <1>5, <1>6

\* What a callback that holds an entity knows.
LEMMA Settles ==
  ASSUME IInv, NEW r \in Callbacks,
         request[r].phase \in {"select", "update", "emit", "done"}
  PROVE  /\ request[r] \in Settling /\ request[r].ref \in Refs
         /\ ReportedOf(request[r].ref, request[r].entity.order, request[r].entity.status)
         /\ payments[request[r].ref] \in Payment
  <1>1. request[r] \in Settling /\ HoldsTruth(request[r])
    BY RequestShape DEF IInv, Told, CallbacksTold
  <1> QED
    BY <1>1, RowShape DEF IInv, Settling, HoldsTruth, ReportedOf

LEMMA IInvSelect ==
  ASSUME IInv, NEW r \in Callbacks, SelectRow(r)
  PROVE  IInv'
  <1>1. PICK q : q = request[r]
    OBVIOUS
  <1>2. PICK columns : columns = Changed(q.entity, payments[q.ref])
    OBVIOUS
  <1> DEFINE v == [q EXCEPT !.phase = "update", !.changed = columns]
  <1>3. /\ q \in Settling /\ q.ref \in Refs /\ payments[q.ref] \in Payment
        /\ ReportedOf(q.ref, q.entity.order, q.entity.status)
    BY <1>1, Settles DEF SelectRow
  <1>4. UNCHANGED <<payments, sent, processed>> /\ UNCHANGED feed
    BY DEF SelectRow
  <1>5. request' = [request EXCEPT ![r] = v]
    BY <1>1, <1>2 DEF SelectRow, IInv, TypeOK
  <1>6. /\ v \in Settling /\ v.phase = "update" /\ v.ref = q.ref /\ v.entity = q.entity
        /\ v.changed = columns
    BY <1>2, <1>3 DEF Settling, Changed
  <1> HIDE DEF v
  <1>7. "status" \notin columns => payments[q.ref].status \in Terminal
    BY <1>2, <1>3 DEF Changed, Column, ReportedOf
  <1>8. HoldsTruth(v)'
    BY <1>3, <1>4, <1>6, <1>7 DEF HoldsTruth, ReportedOf
  <1>9. EventsTold' /\ sent' \subseteq GatewayEvent
    BY <1>4 DEF IInv, TypeOK, Told, EventsTold
  <1> QED
    BY <1>4, <1>5, <1>6, <1>8, <1>9, CallbackMoves

\* The row becomes settled, or stays so, with a status the gateway reported:
\* the one this callback carries, or the one that is there.
LEMMA IInvUpdate ==
  ASSUME IInv, NEW r \in Callbacks, UpdateRow(r)
  PROVE  IInv'
  <1>1. PICK q : q = request[r]
    OBVIOUS
  <1>2. PICK row : row = Overlay(payments[q.ref], q.entity, q.changed)
    OBVIOUS
  <1> DEFINE v == [q EXCEPT !.phase = "emit"]
  <1>3. /\ q.phase = "update" /\ q \in Settling /\ q.ref \in Refs
        /\ payments[q.ref] \in Payment /\ q.entity \in Payment
        /\ ReportedOf(q.ref, q.entity.order, q.entity.status)
    BY <1>1, Settles DEF UpdateRow, Settling
  <1>4. "status" \notin q.changed => payments[q.ref].status \in Terminal
    BY <1>1, <1>3 DEF IInv, Told, CallbacksTold, HoldsTruth
  <1>5. /\ payments' = [payments EXCEPT ![q.ref] = row]
        /\ request' = [request EXCEPT ![r] = v]
        /\ UNCHANGED <<sent, processed>> /\ UNCHANGED feed
    BY <1>1, <1>2 DEF UpdateRow, IInv, TypeOK
  <1>6. /\ row \in Payment /\ row # NoPayment /\ row.order = payments[q.ref].order
        /\ row.status = IF "status" \in q.changed THEN q.entity.status
                        ELSE payments[q.ref].status
    BY <1>2, <1>3, NoPaymentAssumption DEF Overlay, Payment
  <1>7. /\ v \in Settling /\ v.phase = "emit" /\ v.ref = q.ref /\ v.entity = q.entity
    BY <1>3 DEF Settling
  <1> HIDE DEF v
  <1>8. /\ \A ref \in Refs : payments'[ref] = IF ref = q.ref THEN row ELSE payments[ref]
        /\ \A s \in Callbacks : request'[s] = IF s = r THEN v ELSE request[s]
        /\ payments[q.ref] # NoPayment /\ payments[q.ref].order = q.entity.order
    BY <1>3, <1>5 DEF IInv, TypeOK, ReportedOf
  <1>9. row.status \in Terminal /\ Word(q.ref, row.order, row.status) \in sent
    <2>1. CASE "status" \in q.changed
      BY <1>3, <1>6, <1>8, <2>1 DEF ReportedOf
    <2>2. CASE "status" \notin q.changed
      BY <1>3, <1>4, <1>6, <1>8, <2>2 DEF IInv, Told, RowsTold
    <2> QED
      BY <2>1, <2>2
  <1>10. TypeOK'
    BY <1>3, <1>5, <1>6, <1>7 DEF IInv, TypeOK, feed
  <1>11. Positions' /\ Drawn' /\ NothingSkipped' /\ OnePaymentPerOrder' /\ Founded'
    BY <1>5, <1>6, <1>8, <1>10, FeedKept DEF OrdersKept
  <1>12. \A ref \in Refs : \A o, s : ReportedOf(ref, o, s) => ReportedOf(ref, o, s)'
    BY <1>5, <1>6, <1>8 DEF ReportedOf
  <1>13. \A ref \in Refs : (payments[ref] # NoPayment /\ payments[ref].status \in Terminal)
                            => payments'[ref].status \in Terminal
    BY <1>8, <1>9
  <1>14. RowsTold'
    BY <1>5, <1>8, <1>9 DEF IInv, Told, RowsTold
  <1>15. EventsTold'
    BY <1>5, <1>6, <1>8 DEF IInv, TypeOK, GatewayEvent, Told, EventsTold
  <1>16. CallbacksTold'
    <2>1. HoldsTruth(v)'
      BY <1>3, <1>7, <1>8, <1>9, <1>12 DEF HoldsTruth
    <2>2. \A s \in Callbacks \ {r} : HoldsTruth(request[s])'
      <3> SUFFICES ASSUME NEW s \in Callbacks \ {r}
                   PROVE  HoldsTruth(request[s])'
        OBVIOUS
      <3>1. HoldsTruth(request[s]) /\ request'[s] = request[s]
        BY <1>8 DEF IInv, Told, CallbacksTold
      <3>2. request[s].phase \in {"select", "update", "emit", "done"} =>
              request[s].ref \in Refs /\ payments[request[s].ref] # NoPayment
        BY Settles DEF ReportedOf
      <3> QED
        BY <1>5, <1>12, <1>13, <3>1, <3>2 DEF HoldsTruth
    <2> QED
      BY <1>8, <2>1, <2>2 DEF CallbacksTold, HoldsTruth, ReportedOf
  <1>17. ProcessedTold'
    <2> SUFFICES ASSUME NEW i \in DOMAIN processed
                 PROVE  /\ ReportedOf(processed[i].payment, processed[i].order, processed[i].status)'
                        /\ payments'[processed[i].payment].status \in Terminal
      BY <1>5 DEF ProcessedTold
    <2>1. processed \in Seq(Processed)
      BY DEF IInv, TypeOK
    <2>2. processed[i] \in Processed
      BY <2>1
    <2>3. processed[i].payment \in Refs
      BY <2>2 DEF Processed
    <2>4. /\ ReportedOf(processed[i].payment, processed[i].order, processed[i].status)
          /\ payments[processed[i].payment].status \in Terminal
      BY DEF IInv, Told, ProcessedTold
    <2> QED
      BY <1>5, <1>12, <1>13, <2>3, <2>4 DEF ReportedOf
  <1> QED
    BY <1>10, <1>11, <1>14, <1>15, <1>16, <1>17 DEF IInv, Told

\* The callback's own part of the answer, whatever becomes of the event.
LEMMA IInvAnswered ==
  ASSUME IInv, NEW r \in Callbacks, request[r].phase = "emit",
         request' = [request EXCEPT ![r].phase = "done"],
         UNCHANGED <<payments, sent>>, UNCHANGED feed,
         processed' \in Seq(Processed), ProcessedTold'
  PROVE  IInv'
  <1> DEFINE v == [request[r] EXCEPT !.phase = "done"]
  <1>1. request[r] \in Settling /\ HoldsTruth(request[r])
    BY Settles DEF IInv, Told, CallbacksTold
  <1>2. /\ v \in Settling /\ v.phase = "done" /\ v.ref = request[r].ref
        /\ v.entity = request[r].entity
    BY <1>1 DEF Settling
  <1>3. \A s \in Callbacks : request'[s] = IF s = r THEN v ELSE request[s]
    BY DEF IInv, TypeOK
  <1>4. request' = [request EXCEPT ![r] = v]
    BY DEF IInv, TypeOK
  <1> HIDE DEF v
  <1>5. TypeOK'
    BY <1>2, <1>4 DEF IInv, TypeOK, feed
  <1>6. Positions' /\ Drawn' /\ NothingSkipped' /\ OnePaymentPerOrder' /\ Founded'
    BY <1>5, FeedKept DEF OrdersKept
  <1>7. RowsTold' /\ EventsTold'
    BY DEF IInv, Told, RowsTold, EventsTold
  <1>8. CallbacksTold'
    <2> SUFFICES ASSUME NEW s \in Callbacks
                 PROVE  HoldsTruth(request[s])'
      BY DEF CallbacksTold
    <2>1. HoldsTruth(request[s])
      BY DEF IInv, Told, CallbacksTold
    <2>2. PICK w : w = request'[s]
      OBVIOUS
    <2>3. /\ w.phase = "apply" => request[s].phase = "apply" /\ w.event = request[s].event
          /\ w.phase \in {"select", "update", "emit", "done"} =>
               /\ request[s].phase \in {"select", "update", "emit", "done"}
               /\ w.ref = request[s].ref /\ w.entity = request[s].entity
          /\ w.phase \in {"emit", "done"} => request[s].phase \in {"emit", "done"}
          /\ w.phase = "update" =>
               request[s].phase = "update" /\ w.changed = request[s].changed
      BY <1>2, <1>3, <2>2
    <2>4. HoldsTruth(w)'
      BY <2>1, <2>3 DEF HoldsTruth, ReportedOf
    <2> QED
      BY <2>2, <2>4 DEF HoldsTruth, ReportedOf
  <1> QED
    BY <1>5, <1>6, <1>7, <1>8 DEF IInv, Told

LEMMA IInvEmit ==
  ASSUME IInv, NEW r \in Callbacks, Emit(r)
  PROVE  IInv'
  <1> DEFINE q == request[r]
             event == ProcessedOf(q)
  <1>1. /\ q.phase = "emit" /\ request' = [request EXCEPT ![r].phase = "done"]
        /\ UNCHANGED <<payments, sent>> /\ UNCHANGED feed
    BY DEF Emit
  <1>2. PICK copies \in {<<event>>, <<event, event>>} : processed' = processed \o copies
    BY DEF Emit
  <1>3. /\ q \in Settling /\ ReportedOf(q.ref, q.entity.order, q.entity.status)
        /\ payments[q.ref].status \in Terminal
    BY <1>1, Settles DEF IInv, Told, CallbacksTold, HoldsTruth
  <1>4. /\ event \in Processed /\ event.payment = q.ref /\ event.order = q.entity.order
        /\ event.status = q.entity.status
    BY <1>3 DEF ProcessedOf, Processed, Settling, Payment, ReportedOf, Terminal
  <1>5. /\ ReportedOf(event.payment, event.order, event.status)
        /\ payments[event.payment].status \in Terminal
    BY <1>3, <1>4
  <1> HIDE DEF event
  <1>6. processed \in Seq(Processed) /\ copies \in Seq(Processed)
          /\ \A i \in DOMAIN copies : copies[i] = event
    <2>1. CASE copies = <<event>>
      BY <1>4, <2>1 DEF IInv, TypeOK
    <2>2. CASE copies = <<event, event>>
      BY <1>4, <2>2 DEF IInv, TypeOK
    <2> QED
      BY <2>1, <2>2
  <1>7. /\ processed' \in Seq(Processed)
        /\ \A i \in DOMAIN processed' :
             (i \in DOMAIN processed /\ processed'[i] = processed[i]) \/ processed'[i] = event
    BY <1>2, <1>6
  <1>8. ProcessedTold'
    <2> SUFFICES ASSUME NEW i \in DOMAIN processed'
                 PROVE  /\ ReportedOf(processed'[i].payment, processed'[i].order,
                                      processed'[i].status)
                        /\ payments[processed'[i].payment].status \in Terminal
      BY <1>1 DEF ProcessedTold, ReportedOf
    <2> QED
      BY <1>5, <1>7 DEF IInv, Told, ProcessedTold
  <1> QED
    BY <1>1, <1>7, <1>8, IInvAnswered

LEMMA IInvEmitFails ==
  ASSUME IInv, NEW r \in Callbacks, EmitFails(r)
  PROVE  IInv'
  <1>1. /\ request[r].phase = "emit" /\ request' = [request EXCEPT ![r].phase = "done"]
        /\ UNCHANGED <<payments, sent, processed>> /\ UNCHANGED feed
    BY DEF EmitFails
  <1>2. processed' \in Seq(Processed) /\ ProcessedTold'
    BY <1>1 DEF IInv, TypeOK, Told, ProcessedTold, ReportedOf
  <1> QED
    BY <1>1, <1>2, IInvAnswered

-----------------------------------------------------------------------------
LEMMA IInvStep ==
  ASSUME IInv, [Next]_vars
  PROVE  IInv'
  <1>1. CASE \E o \in OrderIds : Publish(o)
    BY <1>1, IInvPublish
  <1>2. CASE ConsumerStep
    BY <1>2, IInvAssign, IInvFindPayment, IInvCreateIntent, IInvInsert, IInvSwallow,
       IInvCommit, IInvLeave, IInvCrash DEF ConsumerStep, Consume
  <1>3. CASE CallbackStep
    <2> SUFFICES ASSUME NEW r \in Callbacks,
                        \/ \E ref \in Refs, outcome \in Outcomes : Pay(r, ref, outcome)
                        \/ \E event \in GatewayEvent : Webhook(r, event)
                        \/ Apply(r)
                        \/ Answer(r)
                 PROVE  IInv'
      BY <1>3 DEF CallbackStep
    <2>1. Abort(r) => IInv'
      BY IInvOver DEF Abort
    <2> QED
      BY <2>1, IInvPay, IInvWebhook, IInvApply, IInvSelect, IInvUpdate, IInvEmit,
         IInvEmitFails DEF Answer
  <1>4. CASE UNCHANGED vars
    <2>1. TypeOK' /\ OnePaymentPerOrder' /\ Founded' /\ Positions' /\ Drawn'
      BY <1>4 DEF vars, IInv, TypeOK, OnePaymentPerOrder, Founded, Positions, Drawn, Message
    <2>2. NothingSkipped'
      BY <1>4 DEF vars, IInv, NothingSkipped, Acted, PaymentsOf
    <2>3. Told'
      BY <1>4, ToldKept DEF vars, calls, RowsKept
    <2> QED
      BY <2>1, <2>2, <2>3 DEF IInv
  <1> QED
    BY <1>1, <1>2, <1>3, <1>4 DEF Next

LEMMA Invariant == Spec => []IInv
  BY IInvInit, IInvStep, PTL DEF Spec

-----------------------------------------------------------------------------
\* Every reachable state of the payment service is well typed: a consumer never
\* runs past its log, a callback only ever saves a status of the table.
THEOREM TypeCorrect == Spec => []TypeOK
  BY Invariant, PTL DEF IInv

\* The unique index, and the consumer's own intent, keep an order from being
\* charged twice, for any number of replicas and redeliveries.
THEOREM OnePaymentPerOrderHolds == Spec => []OnePaymentPerOrder
  BY Invariant, PTL DEF IInv

\* No crash, rebalance or replaced replica takes the group past a confirmation
\* that is neither paid for nor given up.
THEOREM CommittedIsChargedHolds == Spec => []CommittedIsCharged
  <1>1. IInv => CommittedIsCharged
    BY DEF IInv, NothingSkipped, Acted, CommittedIsCharged
  <1> QED
    BY <1>1, Invariant, PTL

\* What the table says of a payment, and what is announced of it, the gateway
\* has reported, however callbacks overlap.
THEOREM SettledAsReportedHolds == Spec => []SettledAsReported
  <1>1. ASSUME IInv
        PROVE  SettledAsReported
    <2>1. ASSUME NEW ref \in Refs, payments[ref] # NoPayment
          PROVE  LET row == payments[ref]
                 IN  /\ intents[ref] = row.order
                     /\ \E i \in DOMAIN log : log[i] = row.order
                     /\ row.status = "PAID" =>
                          [ref |-> ref, order |-> row.order, outcome |-> "succeeded"] \in sent
                     /\ row.status = "FAILED" =>
                          [ref |-> ref, order |-> row.order, outcome |-> "failed"] \in sent
      BY <1>1, <2>1 DEF IInv, Founded, Told, RowsTold, Word, Terminal
    <2>2. ASSUME NEW i \in DOMAIN processed
          PROVE  LET e == processed[i]
                 IN  /\ payments[e.payment] # NoPayment
                     /\ payments[e.payment].order = e.order
                     /\ payments[e.payment].status \in Terminal
                     /\ [ref |-> e.payment, order |-> e.order,
                         outcome |-> IF e.status = "PAID" THEN "succeeded" ELSE "failed"] \in sent
      BY <1>1 DEF IInv, Told, ProcessedTold, ReportedOf, Word
    <2> QED
      BY <2>1, <2>2 DEF SettledAsReported
  <1> QED
    BY <1>1, Invariant, PTL

-----------------------------------------------------------------------------
(* A settled payment that no callback holds.                               *)

LEMMA SettledStep ==
  ASSUME IInv, [Next]_vars, NEW ref \in Refs, payments[ref] # NoPayment,
         payments[ref].status \in Terminal, Untouched(ref)
  PROVE  payments'[ref] = payments[ref] /\ Untouched(ref)'
  <1>1. CASE \E o \in OrderIds : Publish(o)
    BY <1>1 DEF Publish, calls, Untouched
  <1>2. CASE ConsumerStep
    <2> SUFFICES ASSUME NEW k \in Replicas,
                        Assign(k) \/ Consume(k) \/ Swallow(k) \/ Commit(k) \/ Leave(k) \/ Crash(k)
                 PROVE  payments'[ref] = payments[ref] /\ request' = request
      BY <1>2 DEF ConsumerStep, Untouched
    <2>1. CASE Insert(k)
      <3>1. consumer[k].ref # ref
        BY <2>1 DEF Insert, IInv, Drawn
      <3> QED
        BY <2>1, <3>1 DEF Insert, IInv, TypeOK, calls
    <2>2. CASE Assign(k) \/ Swallow(k) \/ Commit(k) \/ Leave(k) \/ Crash(k)
      BY <2>2 DEF Assign, Swallow, Commit, Leave, Crash, calls
    <2>3. CASE FindPayment(k) \/ \E i \in Refs : CreateIntent(k, i)
      BY <2>3 DEF FindPayment, CreateIntent, calls
    <2> QED
      BY <2>1, <2>2, <2>3 DEF Consume
  <1>3. CASE CallbackStep
    <2> SUFFICES ASSUME NEW r \in Callbacks,
                        \/ \E i \in Refs, outcome \in Outcomes : Pay(r, i, outcome)
                        \/ \E event \in GatewayEvent : Webhook(r, event)
                        \/ Apply(r)
                        \/ Answer(r)
                 PROVE  payments'[ref] = payments[ref] /\ Untouched(ref)'
      BY <1>3 DEF CallbackStep
    <2>1. CASE \/ \E i \in Refs, outcome \in Outcomes : Pay(r, i, outcome)
               \/ \E event \in GatewayEvent : Webhook(r, event)
      <3>1. PICK event : request' = [request EXCEPT ![r] = [phase |-> "apply", event |-> event]]
        BY <2>1 DEF Pay, Webhook
      <3>2. payments' = payments
        BY <2>1 DEF Pay, Webhook
      <3> QED
        BY <3>1, <3>2 DEF IInv, TypeOK, Untouched
    <2>2. CASE Apply(r)
      BY <2>2 DEF Apply, Ignored, Over, IInv, TypeOK, Untouched
    <2>3. CASE SelectRow(r) \/ Emit(r) \/ EmitFails(r) \/ Abort(r)
      <3>1. payments' = payments
        BY <2>3 DEF SelectRow, Emit, EmitFails, Abort
      <3>2. \A s \in Callbacks : request'[s].phase \in {"select", "update", "emit"} =>
              request[s].phase \in {"select", "update", "emit"} /\ request'[s].ref = request[s].ref
        <4>1. CASE SelectRow(r)
          <5>1. request[r] \in Settling
            BY <4>1, RequestShape DEF SelectRow, IInv
          <5> QED
            BY <4>1, <5>1 DEF SelectRow, IInv, TypeOK, Settling
        <4>2. CASE Emit(r) \/ EmitFails(r)
          <5>1. request[r] \in Settling
            BY <4>2, RequestShape DEF Emit, EmitFails, IInv
          <5> QED
            BY <4>2, <5>1 DEF Emit, EmitFails, IInv, TypeOK, Settling
        <4>3. CASE Abort(r)
          BY <4>3 DEF Abort, Over, IInv, TypeOK
        <4> QED
          BY <2>3, <4>1, <4>2, <4>3
      <3> QED
        BY <3>1, <3>2 DEF Untouched
    <2>4. CASE UpdateRow(r)
      <3>1. request[r] \in Settling /\ request[r].ref # ref
        BY <2>4, RequestShape DEF UpdateRow, IInv, Untouched
      <3> QED
        BY <2>4, <3>1 DEF UpdateRow, IInv, TypeOK, Untouched, Settling
    <2> QED
      BY <2>1, <2>2, <2>3, <2>4 DEF Answer
  <1>4. CASE UNCHANGED vars
    BY <1>4 DEF vars, Untouched
  <1> QED
    BY <1>1, <1>2, <1>3, <1>4 DEF Next

\* Once settled and let go of, a payment is never changed or announced again.
THEOREM SettledIsFinalHolds == Spec => SettledIsFinal
  <1>1. (IInv /\ [Next]_vars) =>
          [\A ref \in Refs :
             (payments[ref] # NoPayment /\ payments[ref].status \in Terminal
                /\ Untouched(ref))
               => payments'[ref] = payments[ref] /\ Untouched(ref)']_vars
    BY SettledStep
  <1> QED
    BY <1>1, Invariant, PTL DEF Spec, SettledIsFinal

-----------------------------------------------------------------------------
(* Callbacks about one order that come one after the other: the payment of *)
(* an order is settled by one callback, and the service implements         *)
(* PaymentLedger.  What the serial order adds to IInv is that a callback   *)
(* about to save is alone with its order (InTurn), and so the payment is   *)
(* still as it found it, unsettled (Pristine).                             *)

UnderWay(q) == q.phase \in {"apply", "select", "update", "emit"}

InTurn ==
  \A r, s \in Callbacks :
    (UnderWay(request[r]) /\ UnderWay(request[s]) /\ About(request[r]) = About(request[s]))
      => r = s

Pristine ==
  \A r \in Callbacks : request[r].phase \in {"select", "update"} =>
    payments[request[r].ref].status = "REQUIRES_PAYMENT"

SerialInv == IInv /\ InTurn /\ Pristine /\ AppliedOnce

LEMMA SerialInvInit ==
  ASSUME Init
  PROVE  SerialInv
  BY IInvInit DEF Init, SerialInv, InTurn, Pristine, AppliedOnce, UnderWay, Waiting

\* Taking turns is one way of going about it.
LEMMA SerialStepIsStep ==
  ASSUME [SerialNext]_vars
  PROVE  [Next]_vars
  BY DEF SerialNext, Next, SerialCallbackStep, CallbackStep

\* What a callback with an entity knows of its payment.
LEMMA EntityShape ==
  ASSUME IInv, NEW r \in Callbacks, request[r].phase \in {"select", "update", "emit", "done"}
  PROVE  /\ request[r] \in Settling /\ request[r].ref \in Refs
         /\ About(request[r]) = request[r].entity.order
         /\ payments[request[r].ref] # NoPayment
         /\ payments[request[r].ref].order = request[r].entity.order
         /\ request[r].entity.status \in Terminal
         /\ request[r].phase \in {"emit", "done"} => payments[request[r].ref].status \in Terminal
  <1>1. request[r] \in Settling
    BY RequestShape DEF IInv
  <1>2. HoldsTruth(request[r])
    BY DEF IInv, Told, CallbacksTold
  <1> QED
    BY <1>1, <1>2 DEF Settling, HoldsTruth, ReportedOf, About

\* Two callbacks with entities of one order have them of one payment.
LEMMA SamePayment ==
  ASSUME IInv, NEW r \in Callbacks, NEW s \in Callbacks,
         request[r].phase \in {"select", "update", "emit", "done"},
         request[s].phase \in {"select", "update", "emit", "done"},
         request[r].entity.order = request[s].entity.order
  PROVE  request[r].ref = request[s].ref
  BY EntityShape DEF IInv, OnePaymentPerOrder

-----------------------------------------------------------------------------
(* Steps that keep the callbacks in turn.                                  *)

\* A step of the consumers.
LEMMA SerialConsumers ==
  ASSUME SerialInv, RowsKept, UNCHANGED calls
  PROVE  InTurn' /\ Pristine' /\ AppliedOnce'
  <1>1. request' = request
    BY DEF calls
  <1>2. InTurn' /\ AppliedOnce'
    BY <1>1 DEF SerialInv, InTurn, AppliedOnce, UnderWay, About
  <1>3. \A r \in Callbacks : request[r].phase \in {"select", "update"} =>
          payments'[request[r].ref] = payments[request[r].ref]
    BY EntityShape DEF SerialInv, RowsKept
  <1> QED
    BY <1>1, <1>2, <1>3 DEF SerialInv, Pristine

\* A callback that arrives finds no other about its order.
LEMMA SerialArrives ==
  ASSUME SerialInv, NEW r \in Callbacks, NEW event, Quiet(event.order),
         request' = [request EXCEPT ![r] = [phase |-> "apply", event |-> event]],
         UNCHANGED payments
  PROVE  InTurn' /\ Pristine' /\ AppliedOnce'
  <1>1. \A s \in Callbacks : request'[s] =
          IF s = r THEN [phase |-> "apply", event |-> event] ELSE request[s]
    BY DEF SerialInv, IInv, TypeOK
  <1>2. InTurn'
    <2> SUFFICES ASSUME NEW s \in Callbacks, NEW t \in Callbacks, s # t,
                        UnderWay(request'[s]), UnderWay(request'[t])
                 PROVE  About(request'[s]) # About(request'[t])
      BY DEF InTurn, UnderWay, About
    <2>1. \A u \in Callbacks \ {r} : UnderWay(request[u]) => About(request[u]) # event.order
      BY DEF Quiet, UnderWay
    <2>2. About(request'[r]) = event.order
      BY <1>1 DEF About
    <2>3. \A u \in Callbacks \ {r} : request'[u] = request[u]
      BY <1>1
    <2> QED
      BY <2>1, <2>2, <2>3 DEF SerialInv, InTurn
  <1>3. Pristine' /\ AppliedOnce'
    BY <1>1 DEF SerialInv, Pristine, AppliedOnce
  <1> QED
    BY <1>2, <1>3

\* A callback that ends, or goes on with what it has, without saving.
LEMMA SerialGoesOn ==
  ASSUME SerialInv, NEW r \in Callbacks, NEW v, request' = [request EXCEPT ![r] = v],
         UNCHANGED payments,
         UnderWay(v) => UnderWay(request[r]) /\ About(v) = About(request[r]),
         v.phase \in {"select", "update"} => payments[v.ref].status = "REQUIRES_PAYMENT",
         v.phase \in {"emit", "done"} =>
           request[r].phase \in {"emit", "done"} /\ v.entity = request[r].entity
  PROVE  InTurn' /\ Pristine' /\ AppliedOnce'
  <1>1. \A s \in Callbacks : request'[s] = IF s = r THEN v ELSE request[s]
    BY DEF SerialInv, IInv, TypeOK
  <1>2. InTurn'
    <2>1. \A s \in Callbacks : UnderWay(request'[s]) =>
            UnderWay(request[s]) /\ About(request'[s]) = About(request[s])
      BY <1>1
    <2>2. \A s, t \in Callbacks :
            (UnderWay(request'[s]) /\ UnderWay(request'[t]) /\ About(request'[s]) = About(request'[t]))
              => s = t
      BY <2>1 DEF SerialInv, InTurn
    <2> QED
      BY <2>2 DEF InTurn, UnderWay, About
  <1>3. Pristine'
    BY <1>1 DEF SerialInv, Pristine
  <1>4. AppliedOnce'
    <2>1. \A s \in Callbacks : request'[s].phase \in {"emit", "done"} =>
            request[s].phase \in {"emit", "done"} /\ request'[s].entity = request[s].entity
      BY <1>1
    <2> QED
      BY <2>1 DEF SerialInv, AppliedOnce
  <1> QED
    BY <1>2, <1>3, <1>4

LEMMA SerialApply ==
  ASSUME SerialInv, NEW r \in Callbacks, Apply(r)
  PROVE  InTurn' /\ Pristine' /\ AppliedOnce'
  <1>1. /\ request[r].phase = "apply" /\ UNCHANGED payments
        /\ About(request[r]) = request[r].event.order
    BY DEF Apply, About
  <1>2. PICK ref \in PaymentsOf(request[r].event.order) :
          request' = [request EXCEPT ![r] =
            IF Ignored(payments[ref].status) THEN Over
            ELSE [phase |-> "select", ref |-> ref,
                  entity |-> Settled(payments[ref], request[r].event), changed |-> {}]]
    BY DEF Apply
  <1>3. CASE Ignored(payments[ref].status)
    <2>1. request' = [request EXCEPT ![r] = Over]
      BY <1>2, <1>3
    <2>2. Over.phase = "over"
      BY DEF Over
    <2> QED
      BY <1>1, <2>1, <2>2, SerialGoesOn DEF UnderWay
  <1>4. CASE ~Ignored(payments[ref].status)
    <2> DEFINE v == [phase |-> "select", ref |-> ref,
                     entity |-> Settled(payments[ref], request[r].event), changed |-> {}]
    <2>1. request' = [request EXCEPT ![r] = v]
      BY <1>2, <1>4
    <2>2. ref \in Refs /\ payments[ref] # NoPayment /\ payments[ref].order = request[r].event.order
      BY <1>2 DEF PaymentsOf
    <2>3. payments[ref] \in Payment /\ payments[ref].status = "REQUIRES_PAYMENT"
      BY <1>4, <2>2, RowShape DEF Ignored, PaymentStatus, SerialInv, IInv
    <2>4. v.entity.order = payments[ref].order
      BY <2>3 DEF Settled, Payment
    <2>5. UnderWay(request[r]) /\ About(v) = About(request[r])
      BY <1>1, <2>2, <2>4 DEF About, UnderWay
    <2>6. v.phase = "select" /\ v.ref = ref
      OBVIOUS
    <2> HIDE DEF v
    <2> QED
      BY <1>1, <2>1, <2>3, <2>5, <2>6, SerialGoesOn
  <1> QED
    BY <1>3, <1>4

LEMMA SerialSelect ==
  ASSUME SerialInv, NEW r \in Callbacks, SelectRow(r)
  PROVE  InTurn' /\ Pristine' /\ AppliedOnce'
  <1> DEFINE v == [request[r] EXCEPT !.phase = "update",
                     !.changed = Changed(request[r].entity, payments[request[r].ref])]
  <1>1. request[r].phase = "select" /\ UNCHANGED payments
    BY DEF SelectRow
  <1>2. request[r] \in Settling
    BY <1>1, RequestShape DEF SerialInv, IInv
  <1>3. request' = [request EXCEPT ![r] = v]
    BY <1>2 DEF SelectRow, SerialInv, IInv, TypeOK
  <1>4. v.phase = "update" /\ v.ref = request[r].ref /\ v.entity = request[r].entity
    BY <1>2 DEF Settling
  <1>5. UnderWay(request[r]) /\ About(v) = About(request[r])
    BY <1>1, <1>4 DEF About, UnderWay
  <1>6. payments[v.ref].status = "REQUIRES_PAYMENT"
    BY <1>1, <1>4 DEF SerialInv, Pristine
  <1> HIDE DEF v
  <1> QED
    BY <1>1, <1>3, <1>4, <1>5, <1>6, SerialGoesOn

LEMMA SerialEnds ==
  ASSUME SerialInv, NEW r \in Callbacks, Emit(r) \/ EmitFails(r) \/ Abort(r)
  PROVE  InTurn' /\ Pristine' /\ AppliedOnce'
  <1>1. CASE Emit(r) \/ EmitFails(r)
    <2> DEFINE v == [request[r] EXCEPT !.phase = "done"]
    <2>1. request[r].phase = "emit" /\ UNCHANGED payments
      BY <1>1 DEF Emit, EmitFails
    <2>2. request[r] \in Settling
      BY <2>1, RequestShape DEF SerialInv, IInv
    <2>3. request' = [request EXCEPT ![r] = v]
      BY <1>1, <2>2 DEF Emit, EmitFails, SerialInv, IInv, TypeOK
    <2>4. v.phase = "done" /\ v.entity = request[r].entity
      BY <2>2 DEF Settling
    <2> HIDE DEF v
    <2> QED
      BY <2>1, <2>3, <2>4, SerialGoesOn DEF UnderWay
  <1>2. CASE Abort(r)
    <2>1. request' = [request EXCEPT ![r] = Over] /\ UNCHANGED payments
      BY <1>2 DEF Abort
    <2>2. Over.phase = "over"
      BY DEF Over
    <2> QED
      BY <2>1, <2>2, SerialGoesOn DEF UnderWay
  <1> QED
    BY <1>1, <1>2

-----------------------------------------------------------------------------
(* The save.                                                               *)

\* The callback settles the payment: an unsettled row gets its status, and no
\* other row changes.
LEMMA SaveSettles ==
  ASSUME SerialInv, NEW r \in Callbacks, UpdateRow(r)
  PROVE  /\ payments[request[r].ref].status = "REQUIRES_PAYMENT"
         /\ payments'[request[r].ref].status = request[r].entity.status
         /\ payments'[request[r].ref].order = payments[request[r].ref].order
         /\ payments'[request[r].ref] # NoPayment
         /\ \A ref \in Refs \ {request[r].ref} : payments'[ref] = payments[ref]
  <1>1. PICK q : q = request[r]
    OBVIOUS
  <1>2. q.phase = "update" /\ payments' = [payments EXCEPT ![q.ref] = Overlay(@, q.entity, q.changed)]
    BY <1>1 DEF UpdateRow
  <1>3. /\ q.ref \in Refs /\ q.entity.status \in Terminal /\ payments[q.ref] \in Payment
    BY <1>1, <1>2, EntityShape, RowShape DEF SerialInv, IInv
  <1>4. payments[q.ref].status = "REQUIRES_PAYMENT"
    BY <1>1, <1>2 DEF SerialInv, Pristine
  <1>5. "status" \in q.changed
    BY <1>1, <1>2, <1>4 DEF SerialInv, IInv, Told, CallbacksTold, HoldsTruth, Terminal
  <1>6. payments \in [Refs -> Payment \cup {NoPayment}]
    BY DEF SerialInv, IInv, TypeOK
  <1>7. payments'[q.ref] = Overlay(payments[q.ref], q.entity, q.changed)
    BY <1>2, <1>3, <1>6
  <1>8. /\ payments'[q.ref].status = q.entity.status
        /\ payments'[q.ref].order = payments[q.ref].order
    BY <1>3, <1>5, <1>7 DEF Overlay, Payment
  <1>9. payments'[q.ref] # NoPayment
    <2>1. q \in Settling
      BY <1>1, <1>2, EntityShape DEF SerialInv
    <2>2. payments'[q.ref] \in Payment
      BY <1>3, <1>7, <2>1 DEF Overlay, Payment, Settling
    <2> QED
      BY <2>2, NoPaymentAssumption
  <1> QED
    BY <1>1, <1>2, <1>4, <1>6, <1>8, <1>9

LEMMA SerialUpdate ==
  ASSUME SerialInv, NEW r \in Callbacks, UpdateRow(r)
  PROVE  InTurn' /\ Pristine' /\ AppliedOnce'
  <1> DEFINE v == [request[r] EXCEPT !.phase = "emit"]
  <1>1. request[r].phase = "update"
    BY DEF UpdateRow
  <1>2. /\ request[r] \in Settling /\ request[r].ref \in Refs
        /\ About(request[r]) = request[r].entity.order
    BY <1>1, EntityShape DEF SerialInv
  <1>3. /\ v.phase = "emit" /\ v.ref = request[r].ref /\ v.entity = request[r].entity
        /\ About(v) = About(request[r])
    BY <1>1, <1>2 DEF Settling, About
  <1>4. \A s \in Callbacks : request'[s] = IF s = r THEN v ELSE request[s]
    BY <1>2 DEF UpdateRow, SerialInv, IInv, TypeOK
  <1> HIDE DEF v
  <1>5. InTurn'
    <2>1. \A s \in Callbacks : UnderWay(request'[s]) =>
            UnderWay(request[s]) /\ About(request'[s]) = About(request[s])
      BY <1>1, <1>3, <1>4 DEF UnderWay
    <2>2. \A s, t \in Callbacks :
            (UnderWay(request'[s]) /\ UnderWay(request'[t]) /\ About(request'[s]) = About(request'[t]))
              => s = t
      BY <2>1 DEF SerialInv, InTurn
    <2> QED
      BY <2>2 DEF InTurn, UnderWay, About
  <1>6. Pristine'
    <2> SUFFICES ASSUME NEW s \in Callbacks, request'[s].phase \in {"select", "update"}
                 PROVE  payments'[request'[s].ref].status = "REQUIRES_PAYMENT"
      BY DEF Pristine
    <2>1. s # r /\ request'[s] = request[s]
      BY <1>3, <1>4
    <2>2. /\ request[s].ref \in Refs /\ About(request[s]) = request[s].entity.order
          /\ payments[request[s].ref].order = request[s].entity.order
          /\ payments[request[r].ref].order = request[r].entity.order
      BY <1>1, <2>1, EntityShape DEF SerialInv
    <2>3. About(request[s]) # About(request[r])
      BY <1>1, <2>1 DEF SerialInv, InTurn, UnderWay
    <2>4. request[s].ref # request[r].ref
      BY <1>2, <2>2, <2>3
    <2>5. payments'[request[s].ref] = payments[request[s].ref]
      BY <2>2, <2>4, SaveSettles
    <2> QED
      BY <2>1, <2>5 DEF SerialInv, Pristine
  <1>7. AppliedOnce'
    <2>1. \A s \in Callbacks \ {r} : request[s].phase \in {"emit", "done"} =>
            request[s].entity.order # request[r].entity.order
      <3> SUFFICES ASSUME NEW s \in Callbacks \ {r}, request[s].phase \in {"emit", "done"},
                          request[s].entity.order = request[r].entity.order
                   PROVE  FALSE
        OBVIOUS
      <3>1. request[s].ref = request[r].ref
        BY <1>1, SamePayment DEF SerialInv
      <3>2. payments[request[s].ref].status \in Terminal
        BY EntityShape DEF SerialInv
      <3>3. payments[request[r].ref].status = "REQUIRES_PAYMENT"
        BY <1>1 DEF SerialInv, Pristine
      <3> QED
        BY <3>1, <3>2, <3>3 DEF Terminal
    <2>2. \A s \in Callbacks : request'[s].phase \in {"emit", "done"} =>
            /\ request'[s].entity = request[s].entity
            /\ s = r \/ request[s].phase \in {"emit", "done"}
      BY <1>3, <1>4
    <2> QED
      BY <2>1, <2>2 DEF SerialInv, AppliedOnce
  <1> QED
    BY <1>5, <1>6, <1>7

-----------------------------------------------------------------------------
\* Only an insert changes the table on the consumers' side.
LEMMA ConsumersKeepRows ==
  ASSUME IInv, ConsumerStep
  PROVE  RowsKept /\ UNCHANGED calls
  <1> SUFFICES ASSUME NEW k \in Replicas,
                      Assign(k) \/ Consume(k) \/ Swallow(k) \/ Commit(k) \/ Leave(k) \/ Crash(k)
               PROVE  RowsKept /\ UNCHANGED calls
    BY DEF ConsumerStep
  <1>1. CASE Assign(k) \/ Swallow(k) \/ Commit(k) \/ Leave(k) \/ Crash(k)
    BY <1>1 DEF Assign, Swallow, Commit, Leave, Crash, RowsKept
  <1>2. CASE FindPayment(k) \/ \E ref \in Refs : CreateIntent(k, ref)
    BY <1>2 DEF FindPayment, CreateIntent, RowsKept
  <1>3. CASE Insert(k)
    <2>1. payments[consumer[k].ref] = NoPayment
      BY <1>3 DEF Insert, IInv, Drawn
    <2> QED
      BY <1>3, <2>1 DEF Insert, RowsKept, IInv, TypeOK
  <1> QED
    BY <1>1, <1>2, <1>3 DEF Consume

LEMMA SerialInvStep ==
  ASSUME SerialInv, [SerialNext]_vars
  PROVE  SerialInv'
  <1>1. IInv'
    BY SerialStepIsStep, IInvStep DEF SerialInv
  <1>2. CASE (\E o \in OrderIds : Publish(o)) \/ UNCHANGED vars
    <2>1. RowsKept /\ UNCHANGED calls
      BY <1>2 DEF Publish, RowsKept, vars, calls
    <2> QED
      BY <1>1, <2>1, SerialConsumers DEF SerialInv
  <1>3. CASE ConsumerStep
    BY <1>1, <1>3, ConsumersKeepRows, SerialConsumers DEF SerialInv
  <1>4. CASE SerialCallbackStep
    <2> SUFFICES ASSUME NEW r \in Callbacks,
                        \/ \E ref \in Refs, outcome \in Outcomes :
                             /\ payments[ref] # NoPayment
                             /\ Quiet(payments[ref].order)
                             /\ Pay(r, ref, outcome)
                        \/ \E event \in GatewayEvent : Quiet(event.order) /\ Webhook(r, event)
                        \/ Apply(r)
                        \/ Answer(r)
                 PROVE  InTurn' /\ Pristine' /\ AppliedOnce'
      BY <1>1, <1>4 DEF SerialCallbackStep, SerialInv
    <2>1. CASE \E ref \in Refs, outcome \in Outcomes :
                 payments[ref] # NoPayment /\ Quiet(payments[ref].order) /\ Pay(r, ref, outcome)
      <3>1. PICK ref \in Refs, outcome \in Outcomes :
              Quiet(payments[ref].order) /\ Pay(r, ref, outcome)
        BY <2>1
      <3>2. PICK event : event = SignedWebhook(ref, outcome)
        OBVIOUS
      <3>3. /\ Quiet(event.order) /\ UNCHANGED payments
            /\ request' = [request EXCEPT ![r] = [phase |-> "apply", event |-> event]]
        BY <3>1, <3>2 DEF Pay, SignedWebhook
      <3> QED
        BY <3>3, SerialArrives
    <2>2. CASE \E event \in GatewayEvent : Quiet(event.order) /\ Webhook(r, event)
      BY <2>2, SerialArrives DEF Webhook
    <2> QED
      BY <2>1, <2>2, SerialApply, SerialSelect, SerialUpdate, SerialEnds DEF Answer
  <1> QED
    BY <1>2, <1>3, <1>4 DEF SerialNext

LEMMA SerialInvariant == SerialSpec => []SerialInv
  BY SerialInvInit, SerialInvStep, PTL DEF SerialSpec

\* One callback settles the payment of an order and it alone announces it, for
\* any number of callbacks that take turns.
THEOREM AppliedOnceHolds == SerialSpec => []AppliedOnce
  BY SerialInvariant, PTL DEF SerialInv

-----------------------------------------------------------------------------
(* The ledger.                                                             *)

\* Standing is a function of the orders, one of which moves.
LEMMA StandingMoves ==
  ASSUME NEW o \in OrderIds, \A p \in OrderIds \ {o} : Standing'[p] = Standing[p]
  PROVE  Standing' = [Standing EXCEPT ![o] = Standing'[o]]
  <1>1. Standing = [p \in OrderIds |-> Standing[p]]
    BY DEF Standing
  <1>2. Standing' = [p \in OrderIds |-> Standing'[p]]
    BY DEF Standing
  <1>3. PICK f, g : f = Standing /\ g = Standing'
    OBVIOUS
  <1> QED
    BY <1>1, <1>2, <1>3

\* An order with a payment stands where that payment does.
StandsAt(o, ref) == PaymentsOf(o) = {ref}

LEMMA OnlyPayment ==
  ASSUME OnePaymentPerOrder, NEW ref \in Refs, payments[ref] # NoPayment
  PROVE  StandsAt(payments[ref].order, ref)
  BY DEF OnePaymentPerOrder, PaymentsOf, StandsAt

\* The standing of an order depends on its payments' statuses alone.
LEMMA StandingKept ==
  ASSUME IInv, NEW o \in OrderIds, PaymentsOf(o)' = PaymentsOf(o),
         \A ref \in PaymentsOf(o) : payments'[ref].status = payments[ref].status
  PROVE  Standing'[o] = Standing[o]
  <1>1. PaymentsOf(o) # {} => (CHOOSE ref \in PaymentsOf(o) : TRUE) \in PaymentsOf(o)
    OBVIOUS
  <1> QED
    BY <1>1 DEF Standing

LEMMA LedgerInit ==
  ASSUME Init
  PROVE  Ledger!Init
  <1>1. \A o : PaymentsOf(o) = {}
    BY DEF Init, PaymentsOf
  <1>2. Announced = {}
    BY DEF Init, Announced
  <1> QED
    BY <1>1, <1>2 DEF Ledger!Init, Standing

\* A confirmation is announced.
LEMMA LedgerPublish ==
  ASSUME IInv, NEW o \in OrderIds, Publish(o)
  PROVE  Ledger!Announce(o)
  <1>1. Announced' = Announced \cup {o}
    <2>1. log \in Seq(OrderIds) /\ log' = Append(log, o)
      BY DEF IInv, TypeOK, Publish
    <2>2. /\ DOMAIN log' = DOMAIN log \cup {Len(log) + 1}
          /\ \A i \in DOMAIN log : log'[i] = log[i]
          /\ log'[Len(log) + 1] = o
      BY <2>1
    <2> QED
      BY <2>2 DEF Announced
  <1>2. UNCHANGED Standing
    BY DEF Publish, Standing, PaymentsOf
  <1> QED
    BY <1>1, <1>2 DEF Ledger!Announce

\* The charge is opened, unless it was before.
LEMMA LedgerInsert ==
  ASSUME IInv, IInv', NEW k \in Replicas, Insert(k)
  PROVE  \/ \E o \in OrderIds : Ledger!Open(o)
         \/ UNCHANGED <<Announced, Standing>>
  <1>1. UNCHANGED Announced
    BY DEF Insert, Announced
  <1>2. CASE PaymentsOf(Message(k)) # {}
    <2>1. payments' = payments
      BY <1>2 DEF Insert
    <2> QED
      BY <1>1, <2>1 DEF Standing, PaymentsOf
  <1>3. CASE PaymentsOf(Message(k)) = {}
    <2>1. PICK ref : ref = consumer[k].ref
      OBVIOUS
    <2>2. PICK o : o = Message(k)
      OBVIOUS
    <2> DEFINE row == [order |-> o, status |-> "REQUIRES_PAYMENT", reason |-> "none"]
    <2>3. /\ ref \in Refs /\ payments[ref] = NoPayment /\ payments \in [Refs -> Payment \cup {NoPayment}]
          /\ payments' = [payments EXCEPT ![ref] = row]
      BY <1>3, <2>1, <2>2 DEF Insert, IInv, Drawn, TypeOK
    <2>4. o \in OrderIds /\ o \in Announced
      <3>1. consumer[k].at < Len(log) /\ log \in Seq(OrderIds)
        BY DEF Insert, IInv, Positions, TypeOK
      <3>2. consumer[k].at + 1 \in DOMAIN log /\ o = log[consumer[k].at + 1] /\ o \in OrderIds
        BY <2>2, <3>1, MessageShape DEF IInv
      <3> QED
        BY <3>2 DEF Announced
    <2>5. row # NoPayment
      <3>1. row \in Payment
        BY <2>4 DEF Payment, PaymentStatus
      <3> QED
        BY <3>1, NoPaymentAssumption
    <2>6. payments'[ref] = row /\ \A i \in Refs \ {ref} : payments'[i] = payments[i]
      BY <2>3
    <2>7. PaymentsOf(o)' = {ref} /\ \A p \in OrderIds \ {o} : PaymentsOf(p)' = PaymentsOf(p)
      BY <1>3, <2>2, <2>3, <2>5, <2>6 DEF PaymentsOf
    <2>8. Standing[o] = "none" /\ Standing'[o] = "REQUIRES_PAYMENT"
      BY <1>3, <2>2, <2>4, <2>6, <2>7 DEF Standing
    <2>9. \A p \in OrderIds \ {o} : Standing'[p] = Standing[p]
      <3> SUFFICES ASSUME NEW p \in OrderIds \ {o}
                   PROVE  Standing'[p] = Standing[p]
        OBVIOUS
      <3>1. \A i \in PaymentsOf(p) : i # ref /\ i \in Refs
        BY <2>3 DEF PaymentsOf
      <3> QED
        BY <2>6, <2>7, <3>1, StandingKept
    <2>10. Standing' = [Standing EXCEPT ![o] = "REQUIRES_PAYMENT"]
      BY <2>4, <2>8, <2>9, StandingMoves
    <2> QED
      BY <1>1, <2>4, <2>8, <2>10 DEF Ledger!Open
  <1> QED
    BY <1>2, <1>3

\* The charge is settled.
LEMMA LedgerUpdate ==
  ASSUME SerialInv, NEW r \in Callbacks, UpdateRow(r)
  PROVE  \E o \in OrderIds : \E s \in {"PAID", "FAILED"} : Ledger!Settle(o, s)
  <1>1. PICK ref : ref = request[r].ref
    OBVIOUS
  <1>2. PICK o : o = payments[ref].order
    OBVIOUS
  <1>3. PICK s : s = request[r].entity.status
    OBVIOUS
  <1>4. ref \in Refs /\ payments[ref] # NoPayment /\ s \in {"PAID", "FAILED"} /\ o \in OrderIds
    BY <1>1, <1>2, <1>3, EntityShape, RowShape DEF UpdateRow, SerialInv, IInv, Terminal
  <1>5. /\ payments[ref].status = "REQUIRES_PAYMENT" /\ payments'[ref].status = s
        /\ payments'[ref].order = o /\ payments'[ref] # NoPayment
        /\ \A i \in Refs \ {ref} : payments'[i] = payments[i]
    BY <1>1, <1>2, <1>3, SaveSettles
  <1>6. PaymentsOf(o) = {ref}
    BY <1>2, <1>4, OnlyPayment DEF StandsAt, SerialInv, IInv
  <1>7. \A p \in OrderIds : PaymentsOf(p)' = PaymentsOf(p)
    BY <1>2, <1>4, <1>5 DEF PaymentsOf
  <1>8. Standing[o] = "REQUIRES_PAYMENT" /\ Standing'[o] = s
    BY <1>4, <1>5, <1>6, <1>7 DEF Standing
  <1>9. \A p \in OrderIds \ {o} : Standing'[p] = Standing[p]
    <2> SUFFICES ASSUME NEW p \in OrderIds \ {o}
                 PROVE  Standing'[p] = Standing[p]
      OBVIOUS
    <2>1. \A i \in PaymentsOf(p) : i # ref /\ i \in Refs
      BY <1>2 DEF PaymentsOf
    <2> QED
      BY <1>5, <1>7, <2>1, StandingKept DEF SerialInv
  <1>10. Standing' = [Standing EXCEPT ![o] = s]
    BY <1>4, <1>8, <1>9, StandingMoves
  <1>11. UNCHANGED Announced
    BY DEF UpdateRow, feed, Announced
  <1> QED
    BY <1>4, <1>8, <1>10, <1>11 DEF Ledger!Settle

LEMMA LedgerStep ==
  ASSUME SerialInv, SerialInv', [SerialNext]_vars
  PROVE  [Ledger!Next]_<<Announced, Standing>>
  <1>1. CASE \E o \in OrderIds : Publish(o)
    BY <1>1, LedgerPublish DEF SerialInv, Ledger!Next
  <1>2. CASE \E k \in Replicas : Insert(k)
    BY <1>2, LedgerInsert DEF SerialInv, Ledger!Next
  <1>3. CASE \E r \in Callbacks : UpdateRow(r)
    BY <1>3, LedgerUpdate DEF Ledger!Next
  <1>4. ASSUME UNCHANGED <<log, payments>>
        PROVE  UNCHANGED <<Announced, Standing>>
    BY <1>4 DEF Announced, Standing, PaymentsOf
  <1>5. CASE ConsumerStep
    <2>1. \/ \E k \in Replicas : Insert(k)
          \/ UNCHANGED <<log, payments>>
      BY <1>5 DEF ConsumerStep, Consume, Assign, FindPayment, CreateIntent, Swallow, Commit,
         Leave, Crash
    <2> QED
      BY <1>2, <1>4, <2>1
  <1>6. CASE SerialCallbackStep
    <2>1. \/ \E r \in Callbacks : UpdateRow(r)
          \/ UNCHANGED <<log, payments>>
      BY <1>6 DEF SerialCallbackStep, Pay, Webhook, Apply, Answer, SelectRow, Emit, EmitFails,
         Abort, feed
    <2> QED
      BY <1>3, <1>4, <2>1
  <1>7. CASE UNCHANGED vars
    BY <1>4, <1>7 DEF vars
  <1> QED
    BY <1>1, <1>5, <1>6, <1>7 DEF SerialNext

\* Seen as standings of orders, the service does what the ledger may do:
\* confirmed, then charged once, then settled once.
THEOREM Implementation == SerialSpec => ImplementsLedger
  <1>1. ASSUME SerialInv, SerialInv', [SerialNext]_vars
        PROVE  [Ledger!Next]_<<Announced, Standing>>
    BY <1>1, LedgerStep
  <1> QED
    BY <1>1, LedgerInit, SerialInvariant, PTL DEF SerialSpec, ImplementsLedger, Ledger!Spec
=============================================================================
