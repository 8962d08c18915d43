---------------------------- MODULE OrderScreens ----------------------------
(***************************************************************************)
(* The two screens from which people act on orders: the client's           *)
(* MyRequests and the provider's OrdersDashboard.  Each shows a copy of    *)
(* the orders, fetched on mount, every ten seconds, on a notification and  *)
(* by hand, and offers the steps that suit the copy; the answer to a step  *)
(* replaces the copy of its order.                                         *)
(*                                                                         *)
(* A step is a request to updateStatus, whose awaits are steps as they are *)
(* in Orders; nothing serialises it with the others, and the screen may    *)
(* have given it up long before it is through:                             *)
(*                                                                         *)
(*   the service:  coming -> select -> update -> done                      *)
(*   the screen:   sent -> saved | refused | denied -> over                *)
(*                      -> abandoned -> over                               *)
(*                                                                         *)
(* A screen sends the access token its person signed in with, for as long  *)
(* as it stays open: the web apps never renew it.                          *)
(***************************************************************************)
EXTENDS OrderRules, Naturals, Sequences

CONSTANTS
  OrderIds,
  Client, Provider,   \* the user on either screen
  AskedDate,          \* the date orders are asked for
  NoOrder,            \* an order not created yet, or no order's id
  MaxClicks,          \* how many status changes people ask for
  Fetches,            \* the fetches one screen may have in flight
  NotAsked            \* no fetch

ASSUME PartiesAssumption == {Client, Provider} \subseteq Users /\ Client # Provider
ASSUME AskedDateAssumption == AskedDate \in Dates
ASSUME NoOrderAssumption == NoOrder \notin OrderIds
ASSUME MaxClicksAssumption == MaxClicks \in Nat

Screens == {"requests", "dashboard"}

\* The bearer of the screen's token, whom JwtAuthGuard makes the actor.
ActorOf == [s \in Screens |-> IF s = "requests" THEN Client ELSE Provider]

Row == [client: {Client}, provider: {Provider}, status: Status,
        scheduled: Dates, proposed: Dates \cup {NoDate}]

ASSUME NoOrderIsNoRow == NoOrder \notin Row

OrderTable == [OrderIds -> Row \cup {NoOrder}]
Nothing    == [o \in OrderIds |-> NoOrder]

VARIABLES
  orders,    \* the orders table
  shown,     \* the copy on each screen
  asked,     \* the answers on their way to each screen, as they were read
  click,     \* the PATCH requests, in the order of their sending
  spent,     \* the screens whose access token has run out
  busy,      \* actionLoading
  picker,    \* rescheduling: the order whose date picker is open
  payments,  \* the payments MyRequests has: ids of orders with one
  forgot,    \* history: the screen lost count of its own requests
  late,      \* history: proposals read before another one was saved
  crossed    \* history: orders on which a late proposal was saved

history == <<late, crossed>>
vars == <<orders, shown, asked, click, spent, busy, picker, payments, forgot, history>>
screen == <<shown, asked, busy, picker, payments, forgot>>

Over == [phase |-> "over"]

\* What an order's card tells: a proposed date only while it is proposed.
Card(row) ==
  [status |-> row.status, scheduled |-> row.scheduled,
   proposed |-> IF row.status = "RESCHEDULE_PROPOSED" THEN row.proposed ELSE NoDate]

CardOf == [status: Status, scheduled: Dates, proposed: Dates \cup {NoDate}]

\* row is the handler's copy of the order, and what the answer carries.
Request == [phase: {"sent", "abandoned", "saved", "refused", "denied"}, on: Screens,
            order: OrderIds, to: AllowedTransition, date: Dates \cup {NoDate}, seen: CardOf,
            stage: {"coming", "select", "update", "done"}, row: Row, changed: SUBSET Column]

Init ==
  /\ orders   = Nothing
  /\ shown    = [s \in Screens |-> Nothing]
  /\ asked    = [s \in Screens |-> [f \in Fetches |-> NotAsked]]
  /\ click    = <<>>
  /\ busy     = [s \in Screens |-> NoOrder]
  /\ picker   = NoOrder
  /\ payments = {}
  /\ spent    = {}
  /\ forgot   = [s \in Screens |-> FALSE]
  /\ late     = {}
  /\ crossed  = {}

-----------------------------------------------------------------------------
(* What the screens offer.                                                 *)

\* Slip: MyRequests offers the acceptance on a new request as well.
MyRequestsOffersEarly(status) ==
  IF status \in {"PENDING", "RESCHEDULE_PROPOSED"} THEN {"CONFIRMED", "CANCELLED"} ELSE {}

MyRequestsOffers(status) ==
  CASE status = "RESCHEDULE_PROPOSED" -> {"CONFIRMED", "CANCELLED"}
    [] status = "PENDING"             -> {"CANCELLED"}
    [] OTHER                          -> {}

DashboardOffers(status) ==
  CASE status = "PENDING"     -> {"CONFIRMED", "CANCELLED"}
    [] status = "CONFIRMED"   -> {"IN_PROGRESS"}
    [] status = "IN_PROGRESS" -> {"COMPLETED"}
    [] OTHER                  -> {}

\* An open picker stands in place of the buttons, whatever the status.
Offers(s, o) ==
  IF s = "requests" THEN MyRequestsOffers(shown[s][o].status)
  ELSE IF picker = o THEN {"RESCHEDULE_PROPOSED"}
  ELSE DashboardOffers(shown[s][o].status)

\* Slip: no button is disabled while its order's request is under way.
EnabledAlways(s, o) == shown[s][o] # NoOrder

\* actionLoading holds one id: the order acted on last.
Enabled(s, o) == shown[s][o] # NoOrder /\ busy[s] # o

-----------------------------------------------------------------------------
(* WHO: the client, elsewhere (createOrder's insert).                      *)
Book(o) ==
  /\ orders[o] = NoOrder
  /\ orders' = [orders EXCEPT ![o] =
       [client |-> Client, provider |-> Provider, status |-> "PENDING",
        scheduled |-> AskedDate, proposed |-> NoDate]]
  /\ UNCHANGED <<screen, click, spent, history>>

\* The orders u is a party to, on either side.
FindAllForUser(u) ==
  [o \in OrderIds |->
     IF orders[o] # NoOrder /\ u \in {orders[o].client, orders[o].provider}
     THEN orders[o] ELSE NoOrder]

(* WHO: a screen.  fetchOrders: what matters of the request is what the    *)
(* orders were when the service read them.  With a token that has run out  *)
(* it is answered 401, of which a silent fetch says nothing.               *)
Fetch(s, f) ==
  /\ s \notin spent
  /\ asked[s][f] = NotAsked
  /\ asked' = [asked EXCEPT ![s][f] = FindAllForUser(ActorOf[s])]
  /\ UNCHANGED <<orders, shown, click, spent, busy, picker, payments, forgot, history>>

\* getMyPayments sends no token, payment-route asks for one, and the 401 is
\* caught as an empty list.  Held against it: the payments of what it read.
SendsToken == FALSE
MyPayments(table) ==
  IF SendsToken
  THEN {o \in OrderIds : table[o] # NoOrder
                           /\ table[o].status \in {"CONFIRMED", "IN_PROGRESS", "COMPLETED"}}
  ELSE {}

\* Slip: a silent fetch adds what is new and keeps what is shown.
ShowNewOnly(old, answer) ==
  [o \in OrderIds |-> IF old[o] = NoOrder THEN answer[o] ELSE old[o]]

\* setOrders(data)
Show(old, answer) == answer

Arrive(s, f) ==
  /\ asked[s][f] # NotAsked
  /\ shown' = [shown EXCEPT ![s] = Show(shown[s], asked[s][f])]
  /\ payments' = IF s = "requests" THEN MyPayments(asked[s][f]) ELSE payments
  /\ asked' = [asked EXCEPT ![s][f] = NotAsked]
  /\ UNCHANGED <<orders, click, spent, busy, picker, forgot, history>>

(* WHO: the network, or Kong's rate limit.                                 *)
Drop(s, f) ==
  /\ asked[s][f] # NotAsked
  /\ asked' = [asked EXCEPT ![s][f] = NotAsked]
  /\ UNCHANGED <<orders, shown, click, spent, busy, picker, payments, forgot, history>>

(* WHO: the provider.  openReschedule, and the picker's own cancel.        *)
OpenPicker(o) ==
  /\ Enabled("dashboard", o)
  /\ shown["dashboard"][o].status = "PENDING"
  /\ picker # o
  /\ picker' = o
  /\ UNCHANGED <<orders, shown, asked, click, spent, busy, payments, forgot, history>>

ClosePicker ==
  /\ picker # NoOrder
  /\ Enabled("dashboard", picker)
  /\ picker' = NoOrder
  /\ UNCHANGED <<orders, shown, asked, click, spent, busy, payments, forgot, history>>

(* WHO: a person.  A button sends the step and disables its order's        *)
(* buttons, those of the order acted on before coming back to life.        *)
Press(s, o, to, d) ==
  /\ Len(click) < MaxClicks
  /\ Enabled(s, o)
  /\ to \in Offers(s, o)
  /\ (d # NoDate) <=> (to = "RESCHEDULE_PROPOSED")
  /\ click' = Append(click,
       [phase |-> "sent", on |-> s, order |-> o, to |-> to, date |-> d,
        seen |-> Card(shown[s][o]), stage |-> "coming", row |-> shown[s][o], changed |-> {}])
  /\ busy' = [busy EXCEPT ![s] = o]
  /\ forgot' = [forgot EXCEPT ![s] = @ \/ busy[s] \notin {NoOrder, o}]
  /\ UNCHANGED <<orders, shown, asked, spent, picker, payments, history>>

(* WHO: time.  An access token lasts 15 minutes.                           *)
Expire(s) ==
  /\ s \notin spent
  /\ spent' = spent \cup {s}
  /\ UNCHANGED <<orders, screen, click, history>>

(* WHO: a person, who signs in again in another tab of the browser: the    *)
(* tabs share the token.                                                   *)
SignInAgain(s) ==
  /\ s \in spent
  /\ spent' = spent \ {s}
  /\ UNCHANGED <<orders, screen, click, history>>

\* A request the service has yet to answer, on its way there or being handled.
UnderWay(q, stage) == q.phase \in {"sent", "abandoned"} /\ q.stage = stage

\* ... and one whose order the service has read, and may still save.
Working(q) == UnderWay(q, "select") \/ UnderWay(q, "update")

\* What becomes of a request the service is through with: an answer, or
\* nothing when the screen has given it up.
Through(q, phase, row) ==
  IF q.phase = "abandoned" THEN Over
  ELSE [q EXCEPT !.phase = phase, !.stage = "done", !.row = row, !.changed = {}]

(* WHO: Kong, or JwtAuthGuard.  401: the token has run out.                *)
Deny(k) ==
  LET q == click[k]
  IN  /\ UnderWay(q, "coming")
      /\ q.on \in spent
      /\ click' = [click EXCEPT ![k] = Through(q, "denied", q.row)]
      /\ UNCHANGED <<orders, screen, spent, history>>

(* WHO: the service.  updateStatus finds the order, checks the request and *)
(* edits its own copy, or refuses.                                         *)
Load(k) ==
  LET q   == click[k]
      row == orders[q.order]
  IN  /\ UnderWay(q, "coming")
      /\ q.on \notin spent
      /\ click' = [click EXCEPT ![k] =
           IF Permitted(row, ActorOf[q.on], q.to, q.date)
           THEN [q EXCEPT !.stage = "select", !.row = Edited(row, q.to, q.date)]
           ELSE Through(q, "refused", row)]
      /\ UNCHANGED <<orders, screen, spent, history>>

(* WHO: the service.  repo.save selects the row again.                     *)
Select(k) ==
  LET q == click[k]
  IN  /\ UnderWay(q, "select")
      /\ click' = [click EXCEPT ![k] =
           [q EXCEPT !.stage = "update", !.changed = Changed(q.row, orders[q.order])]]
      /\ UNCHANGED <<orders, screen, spent, history>>

\* The other proposals on the order that the service has read and not saved.
Rivals(k) ==
  IF click[k].to # "RESCHEDULE_PROPOSED" THEN {}
  ELSE {j \in DOMAIN click \ {k} :
          /\ Working(click[j])
          /\ click[j].order = click[k].order
          /\ click[j].to = "RESCHEDULE_PROPOSED"}

(* WHO: the service.  repo.save updates those columns, whatever the row is *)
(* by now, and the copy is the answer.                                     *)
Update(k) ==
  LET q == click[k]
  IN  /\ UnderWay(q, "update")
      /\ orders' = [orders EXCEPT ![q.order] = Overlay(@, q.row, q.changed)]
      /\ click' = [click EXCEPT ![k] = Through(q, "saved", q.row)]
      /\ late' = late \cup Rivals(k)
      /\ crossed' = IF k \in late THEN crossed \cup {q.order} ELSE crossed
      /\ UNCHANGED <<screen, spent>>

(* WHO: a screen.  The answer takes its order's place in the list, if the  *)
(* list has it; on the dashboard it closes the picker, whosever it is.     *)
Answer(k) ==
  LET q == click[k]
  IN  /\ q.phase = "saved"
      /\ shown' = [shown EXCEPT ![q.on][q.order] = IF @ = NoOrder THEN @ ELSE q.row]
      /\ picker' = IF q.on = "dashboard" THEN NoOrder ELSE picker
      /\ busy' = [busy EXCEPT ![q.on] = NoOrder]
      /\ click' = [click EXCEPT ![k] = Over]
      /\ UNCHANGED <<orders, asked, spent, payments, forgot, history>>

(* WHO: a screen.  A refusal, or an answer that never comes: an error is   *)
(* shown, the copy stays.  A request given up after axios's ten seconds    *)
(* may still be carried out, from wherever it is by then, or never be.     *)
Fail(k) ==
  LET q == click[k]
  IN  /\ q.phase \in {"sent", "saved", "refused", "denied"}
      /\ click' = [click EXCEPT ![k] =
           IF q.phase = "sent" THEN [q EXCEPT !.phase = "abandoned"] ELSE Over]
      /\ busy' = [busy EXCEPT ![q.on] = NoOrder]
      /\ forgot' = [forgot EXCEPT ![q.on] = @ \/ q.phase = "sent"]
      /\ UNCHANGED <<orders, shown, asked, spent, picker, payments, history>>

Handle(k) == Load(k) \/ Select(k) \/ Update(k)

Settle(k) == Deny(k) \/ Handle(k) \/ Answer(k) \/ Fail(k)

Next ==
  \/ \E o \in OrderIds : Book(o)
  \/ \E s \in Screens, f \in Fetches : Fetch(s, f) \/ Arrive(s, f) \/ Drop(s, f)
  \/ \E o \in OrderIds : OpenPicker(o)
  \/ ClosePicker
  \/ \E s \in Screens, o \in OrderIds, to \in AllowedTransition,
        d \in Dates \cup {NoDate} : Press(s, o, to, d)
  \/ \E s \in Screens : Expire(s) \/ SignInAgain(s)
  \/ \E k \in DOMAIN click : Settle(k)

\* The interval asks again for ever, many times in the life of a token; neither
\* the network nor the rate limit loses every answer; a request ends as well.
\* Nobody has to sign in again.
Fairness ==
  /\ \A s \in Screens, f \in Fetches : SF_vars(Fetch(s, f)) /\ SF_vars(Arrive(s, f))
  /\ \A k \in 1..MaxClicks :
       WF_vars(k \in DOMAIN click /\ click[k].phase # "abandoned" /\ Settle(k))

Spec == Init /\ [][Next]_vars /\ Fairness

-----------------------------------------------------------------------------
TypeOK ==
  /\ orders   \in OrderTable
  /\ shown    \in [Screens -> OrderTable]
  /\ asked    \in [Screens -> [Fetches -> OrderTable \cup {NotAsked}]]
  /\ click    \in Seq(Request \cup {Over}) /\ Len(click) <= MaxClicks
  /\ busy     \in [Screens -> OrderIds \cup {NoOrder}]
  /\ picker   \in OrderIds \cup {NoOrder}
  /\ payments \in SUBSET OrderIds
  /\ spent    \in SUBSET Screens
  /\ forgot   \in [Screens -> BOOLEAN]
  /\ late     \in SUBSET (1 .. MaxClicks)
  /\ crossed  \in SUBSET OrderIds

\* A step a screen offers is refused only because the order was no longer as
\* its card told (the checks of updateStatus know nothing of the copy), or
\* because the picker was left open over an order that has moved on.
RefusedOnlyIfStale ==
  \A k \in DOMAIN click : click[k].phase = "refused" =>
    \/ click[k].seen # Card(click[k].row)
    \/ click[k].to = "RESCHEDULE_PROPOSED" /\ click[k].seen.status # "PENDING"

\* A confirmation that goes through fixes the date the person had on the card,
\* however old the copy and whatever else the service was at: the one proposed
\* if the card showed a proposal, else the one asked for.  The request carries
\* no date, the service picks it.  The exception is a proposal that was saved
\* over another one, which the service had saved since it read the order: the
\* provider asked twice, having given the first request up.
ConfirmsTheDateSeen ==
  \A k \in DOMAIN click :
    (click[k].phase = "saved" /\ click[k].to = "CONFIRMED" /\ click[k].order \notin crossed) =>
      click[k].row.scheduled = IF click[k].seen.status = "RESCHEDULE_PROPOSED"
                               THEN click[k].seen.proposed ELSE click[k].seen.scheduled

\* A screen has two requests on one order under way only after losing count:
\* it acted on another order in between (actionLoading holds one id) or timed
\* out.
OneRequestPerOrder ==
  \A j, k \in DOMAIN click :
    ( /\ j # k
      /\ {click[j].phase, click[k].phase} \subseteq {"sent", "abandoned"}
      /\ click[j].on = click[k].on
      /\ click[j].order = click[k].order ) => forgot[click[k].on]

\* When people stop acting, both screens come to show the orders as they are
\* and never again anything else, whatever late answers are still to come, but
\* for a screen whose token has run out: its fetches fail in silence and it
\* goes on showing what it last had (fetchOrders(true) in both screens).
ScreensSettle == <>[](\A s \in Screens : s \in spent \/ shown[s] = orders)

-----------------------------------------------------------------------------
\* The payment is shown with its order, once that has left negotiation.
PaymentBox(o) ==
  /\ o \in payments
  /\ shown["requests"][o].status \notin {"PENDING", "RESCHEDULE_PROPOSED"}

\* "Payment (visible once the provider confirmed)" (MyRequests.tsx:199): an
\* order that stays confirmed on the screen of a client whose token is good
\* comes to show its payment.
PaymentShown ==
  \A o \in OrderIds :
    <>[](/\ "requests" \notin spent
         /\ shown["requests"][o] # NoOrder /\ shown["requests"][o].status = "CONFIRMED")
      => <>PaymentBox(o)
=============================================================================
