------------------------- MODULE OrderScreensProofs -------------------------
(***************************************************************************)
(* Theorems of OrderScreens, for any number of orders, dates, clicks and   *)
(* fetches: what a person confirms is what the card said, and a step the   *)
(* screen offered is refused only if the card was out of date.             *)
(*                                                                         *)
(* A copy may be of any age.  What keeps it useful is that an order is     *)
(* asked for one date and, but for proposals that cross, proposed one      *)
(* (OneDate): the status that lets a confirmation through fixes the date   *)
(* there is to confirm.  A proposal is read while the order is new; once   *)
(* one is saved all the others are late, and none of the other steps can   *)
(* then bring the order back with another date (Unheard, Entities).        *)
(***************************************************************************)
EXTENDS OrderScreens, TLAPS

\* What is told of the order o somewhere: its row, the copies on the screens, on
\* their way there and in the answers, and the cards people acted on.
CopyOf(c, o) ==
  \/ /\ c # NoOrder
     /\ \/ c = orders[o]
        \/ \E s \in Screens : c = shown[s][o]
        \/ \E s \in Screens, f \in Fetches : asked[s][f] # NotAsked /\ c = asked[s][f][o]
  \/ \E k \in DOMAIN click :
       /\ click[k].phase # "over" /\ click[k].order = o
       /\ c = click[k].seen \/ (~Working(click[k]) /\ c = click[k].row)

\* Nothing but a new order is told of an order that is new still.
Real(c, o) ==
  /\ orders[o] # NoOrder
  /\ c.status = "PENDING" => c.scheduled = AskedDate /\ c.proposed = NoDate
  /\ c.status # "PENDING" => orders[o].status # "PENDING"

CopiesReal == \A o \in OrderIds : \A c : CopyOf(c, o) => Real(c, o)

\* Wherever a proposal is told of an order, it is the same one.
OneDate ==
  \A o \in OrderIds \ crossed : \A b, c :
    ( /\ CopyOf(b, o) /\ b.status = "RESCHEDULE_PROPOSED"
      /\ CopyOf(c, o) /\ c.status = "RESCHEDULE_PROPOSED" ) =>
    b.proposed = c.proposed /\ c.proposed # NoDate

Proposing(q) == Working(q) /\ q.to = "RESCHEDULE_PROPOSED"

\* No proposal on the order has been saved.
Unproposed(o) ==
  /\ orders[o].proposed = NoDate
  /\ \A c : CopyOf(c, o) => c.status # "RESCHEDULE_PROPOSED"
  /\ \A j \in DOMAIN click :
       ( /\ Working(click[j]) /\ click[j].order = o
         /\ click[j].to # "RESCHEDULE_PROPOSED" ) => click[j].row.proposed = NoDate

AllLate(o) ==
  \A j \in DOMAIN click : Proposing(click[j]) /\ click[j].order = o => j \in late

\* A proposal that is not late was read before any was saved, when the order
\* was new.
Unheard ==
  \A o \in OrderIds :
    (orders[o] # NoOrder /\ (orders[o].status = "PENDING" \/ ~AllLate(o))) => Unproposed(o)

\* The order has left negotiation, and only a late proposal brings it back.
Settled(o) == AllLate(o) /\ orders[o].status \notin {"PENDING", "RESCHEDULE_PROPOSED"}

\* The handler's copy, and the columns it is about to save.
Entity(q, k) ==
  /\ orders[q.order] # NoOrder
  /\ q.row.status = q.to
  /\ q.to = "RESCHEDULE_PROPOSED" => q.row.proposed # NoDate
  /\ q.stage = "update" =>
       /\ orders[q.order].status = "PENDING" => "status" \in q.changed
       /\ q.to = "RESCHEDULE_PROPOSED" /\ k \notin late => "proposed" \in q.changed
       /\ ( /\ q.to # "RESCHEDULE_PROPOSED" /\ q.order \notin crossed
            /\ "status" \notin q.changed /\ "proposed" \in q.changed ) => Settled(q.order)

Entities == \A k \in DOMAIN click : Working(click[k]) => Entity(click[k], k)

\* A button the card had: the picker's stands whatever the card says.
WasOffered(q) ==
  /\ q.to = "RESCHEDULE_PROPOSED" <=> q.date # NoDate
  /\ q.on = "requests"  => q.to \in MyRequestsOffers(q.seen.status)
  /\ q.on = "dashboard" => \/ q.to = "RESCHEDULE_PROPOSED"
                           \/ q.to \in DashboardOffers(q.seen.status)

Offered == \A k \in DOMAIN click : click[k].phase # "over" => WasOffered(click[k])

\* The date on the card a person acted on.
SeenDate(q) ==
  IF q.seen.status = "RESCHEDULE_PROPOSED" THEN q.seen.proposed ELSE q.seen.scheduled

\* The handler of a confirmation has the date on the card from its findOne on.
Confirming ==
  \A k \in DOMAIN click :
    ( /\ Working(click[k]) \/ click[k].phase = "saved"
      /\ click[k].to = "CONFIRMED" /\ click[k].order \notin crossed ) =>
    click[k].row.scheduled = SeenDate(click[k])

Told == CopiesReal /\ OneDate /\ Unheard /\ Entities

Pending(q) == q.phase \in {"sent", "saved", "refused", "denied"}

\* A screen that has not lost count has one request under way, and knows it.
Counted ==
  \A s \in Screens : ~forgot[s] =>
    /\ \A k \in DOMAIN click : (Pending(click[k]) /\ click[k].on = s) =>
         /\ busy[s] = click[k].order
         /\ \A j \in DOMAIN click : (Pending(click[j]) /\ click[j].on = s) => j = k
    /\ \A k \in DOMAIN click : click[k].phase = "abandoned" => click[k].on # s

IInv == TypeOK /\ Told /\ Offered /\ Confirming /\ RefusedOnlyIfStale /\ Counted

-----------------------------------------------------------------------------
(* Shapes.                                                                 *)

LEMMA ClickShape ==
  ASSUME TypeOK, NEW k \in DOMAIN click, click[k].phase # "over"
  PROVE  /\ click[k] \in Request /\ click[k].on \in Screens /\ click[k].order \in OrderIds
         /\ click[k].to \in AllowedTransition /\ click[k].date \in Dates \cup {NoDate}
         /\ click[k].seen \in CardOf /\ click[k].row \in Row
         /\ click[k].stage \in {"coming", "select", "update", "done"}
         /\ click[k].changed \in SUBSET Column
  <1>1. click \in Seq(Request \cup {Over})
    BY DEF TypeOK
  <1>2. click[k] \in Request \cup {Over}
    BY <1>1
  <1>3. Over.phase = "over"
    BY DEF Over
  <1> QED
    BY <1>2, <1>3 DEF Request

LEMMA ClickChanges ==
  ASSUME TypeOK, NEW k \in DOMAIN click, NEW v \in Request \cup {Over},
         click' = [click EXCEPT ![k] = v]
  PROVE  /\ click' \in Seq(Request \cup {Over}) /\ Len(click') <= MaxClicks
         /\ DOMAIN click' = DOMAIN click
         /\ \A j \in DOMAIN click : click'[j] = IF j = k THEN v ELSE click[j]
  <1>1. click \in Seq(Request \cup {Over}) /\ Len(click) <= MaxClicks
    BY DEF TypeOK
  <1> QED
    BY <1>1

LEMMA EditedShape ==
  ASSUME NEW row \in Row, NEW to \in AllowedTransition, NEW date \in Dates \cup {NoDate}
  PROVE  Edited(row, to, date) \in Row /\ Edited(row, to, date).status = to
  BY DEF Edited, Row, AllowedTransition

\* What a request keeps of itself to its end.
SameClick(p, q) ==
  /\ p.on = q.on /\ p.order = q.order /\ p.to = q.to /\ p.date = q.date /\ p.seen = q.seen

LEMMA IInvInit ==
  ASSUME Init
  PROVE  IInv
  <1>1. Nothing \in OrderTable
    BY DEF Nothing, OrderTable
  <1>2. TypeOK
    BY <1>1, MaxClicksAssumption DEF Init, TypeOK
  <1>3. \A o \in OrderIds : orders[o] = NoOrder /\ \A c : ~CopyOf(c, o)
    BY DEF Init, CopyOf, Nothing
  <1>4. CopiesReal /\ OneDate /\ Unheard
    BY <1>3 DEF CopiesReal, OneDate, Unheard
  <1>5. Entities /\ Offered /\ Confirming /\ RefusedOnlyIfStale /\ Counted
    BY DEF Init, Entities, Offered, Confirming, RefusedOnlyIfStale, Counted
  <1> QED
    BY <1>2, <1>4, <1>5 DEF IInv, Told

-----------------------------------------------------------------------------
(* Steps that save nothing.                                                *)

\* What holds of the orders and their copies lasts while no order changes, no
\* handler goes on and nothing new is told of an order.
LEMMA Quiet ==
  ASSUME IInv, UNCHANGED <<orders, late, crossed>>,
         \A o \in OrderIds : \A c :
           CopyOf(c, o)' => CopyOf(c, o) \/ \E b : CopyOf(b, o) /\ c = Card(b),
         \A j \in DOMAIN click' : Working(click[j])' =>
           /\ j \in DOMAIN click /\ Working(click[j]) /\ SameClick(click[j], click'[j])
           /\ click'[j].stage = click[j].stage /\ click'[j].row = click[j].row
           /\ click'[j].changed = click[j].changed,
         \A j \in DOMAIN click' : click'[j].phase = "saved" =>
           j \in DOMAIN click /\ click'[j] = click[j]
  PROVE  Told' /\ Confirming'
  <1>1. \A o \in OrderIds : \A c : CopyOf(c, o)' => \E b :
          /\ CopyOf(b, o) /\ c.status = b.status /\ c.scheduled = b.scheduled
          /\ c.proposed = b.proposed \/ (b.status # "RESCHEDULE_PROPOSED" /\ c.proposed = NoDate)
    <2> SUFFICES ASSUME NEW o \in OrderIds, NEW c, CopyOf(c, o)'
                 PROVE  \E b :
          /\ CopyOf(b, o) /\ c.status = b.status /\ c.scheduled = b.scheduled
          /\ c.proposed = b.proposed \/ (b.status # "RESCHEDULE_PROPOSED" /\ c.proposed = NoDate)
      OBVIOUS
    <2>1. CASE CopyOf(c, o)
      BY <2>1
    <2>2. CASE \E b : CopyOf(b, o) /\ c = Card(b)
      BY <2>2 DEF Card
    <2> QED
      BY <2>1, <2>2
  <1>2. CopiesReal'
    <2> SUFFICES ASSUME NEW o \in OrderIds, NEW c, CopyOf(c, o)'
                 PROVE  Real(c, o)'
      BY DEF CopiesReal
    <2>1. PICK b :
          /\ CopyOf(b, o) /\ c.status = b.status /\ c.scheduled = b.scheduled
          /\ c.proposed = b.proposed \/ (b.status # "RESCHEDULE_PROPOSED" /\ c.proposed = NoDate)
      BY <1>1
    <2>2. Real(b, o)
      BY <2>1 DEF IInv, Told, CopiesReal
    <2> QED
      BY <2>1, <2>2 DEF Real
  <1>3. OneDate'
    <2> SUFFICES ASSUME NEW o \in OrderIds \ crossed, NEW b, NEW c, CopyOf(b, o)', CopyOf(c, o)',
                        b.status = "RESCHEDULE_PROPOSED", c.status = "RESCHEDULE_PROPOSED"
                 PROVE  b.proposed = c.proposed /\ c.proposed # NoDate
      BY DEF OneDate
    <2>1. PICK b0 : CopyOf(b0, o) /\ b0.status = b.status /\ b0.proposed = b.proposed
      BY <1>1
    <2>2. PICK c0 : CopyOf(c0, o) /\ c0.status = c.status /\ c0.proposed = c.proposed
      BY <1>1
    <2>3. b0.proposed = c0.proposed /\ c0.proposed # NoDate
      BY <2>1, <2>2 DEF IInv, Told, OneDate
    <2> QED
      BY <2>1, <2>2, <2>3
  <1>4. \A o \in OrderIds : AllLate(o) => AllLate(o)'
    BY DEF AllLate, Proposing, SameClick
  <1>5. Unheard'
    <2> SUFFICES ASSUME NEW o \in OrderIds, orders[o] # NoOrder, Unproposed(o)
                 PROVE  Unproposed(o)'
      BY <1>4 DEF IInv, Told, Unheard
    <2>1. \A c : CopyOf(c, o)' => c.status # "RESCHEDULE_PROPOSED"
      BY <1>1 DEF Unproposed
    <2>2. \A j \in DOMAIN click' :
            (Working(click[j])' /\ click'[j].order = o /\ click'[j].to # "RESCHEDULE_PROPOSED")
              => click'[j].row.proposed = NoDate
      BY DEF Unproposed, SameClick
    <2> QED
      BY <2>1, <2>2 DEF Unproposed
  <1>6. Entities'
    <2> SUFFICES ASSUME NEW j \in DOMAIN click', Working(click[j])'
                 PROVE  Entity(click[j], j)'
      BY DEF Entities
    <2>1. PICK p : p = click[j]
      OBVIOUS
    <2>2. PICK q : q = click'[j]
      OBVIOUS
    <2>3. /\ j \in DOMAIN click /\ Working(p) /\ SameClick(p, q) /\ q.stage = p.stage
          /\ q.row = p.row /\ q.changed = p.changed
      BY <2>1, <2>2
    <2>4. p.order \in OrderIds /\ Entity(p, j)
      BY <2>1, <2>3, ClickShape DEF IInv, Told, Entities, Working, UnderWay
    <2>5. Settled(p.order) => Settled(p.order)'
      BY <1>4, <2>4 DEF Settled
    <2>6. Entity(p, j)'
      BY <2>4, <2>5 DEF Entity
    <2>7. Entity(q, j)'
      BY <2>3, <2>6 DEF Entity, SameClick, Settled, AllLate
    <2> QED
      BY <2>2, <2>7
  <1>7. Confirming'
    <2> SUFFICES ASSUME NEW j \in DOMAIN click',
                        Working(click[j])' \/ click'[j].phase = "saved",
                        click'[j].to = "CONFIRMED", click'[j].order \notin crossed
                 PROVE  click'[j].row.scheduled = SeenDate(click'[j])
      BY DEF Confirming, SeenDate
    <2>1. /\ j \in DOMAIN click
          /\ Working(click[j]) \/ click[j].phase = "saved"
          /\ click'[j].to = click[j].to /\ click'[j].order = click[j].order
          /\ click'[j].row = click[j].row /\ click'[j].seen = click[j].seen
      BY DEF SameClick
    <2>2. click[j].row.scheduled = SeenDate(click[j])
      BY <2>1 DEF IInv, Confirming
    <2> QED
      BY <2>1, <2>2 DEF SeenDate
  <1> QED
    BY <1>2, <1>3, <1>5, <1>6, <1>7 DEF Told

\* ... and while the requests are what they were.
LEMMA CopiesMove ==
  ASSUME IInv, UNCHANGED <<orders, click, busy, forgot, history>>, TypeOK',
         \A o \in OrderIds : \A c : CopyOf(c, o)' => CopyOf(c, o)
  PROVE  IInv'
  <1>1. \A j \in DOMAIN click : Working(click[j])' <=> Working(click[j])
    BY DEF Working, UnderWay
  <1>2. Told' /\ Confirming'
    BY <1>1, Quiet DEF SameClick, history
  <1>3. Offered' /\ RefusedOnlyIfStale' /\ Counted'
    BY DEF IInv, Offered, WasOffered, RefusedOnlyIfStale, Counted, Pending
  <1> QED
    BY <1>2, <1>3 DEF IInv

LEMMA IInvFetch ==
  ASSUME IInv, NEW s \in Screens, NEW f \in Fetches, Fetch(s, f)
  PROVE  IInv'
  <1> DEFINE table == FindAllForUser(ActorOf[s])
  <1>1. table \in OrderTable /\ \A o \in OrderIds : table[o] # NoOrder => table[o] = orders[o]
    BY DEF FindAllForUser, IInv, TypeOK, OrderTable
  <1>2. /\ UNCHANGED <<orders, click, busy, forgot, history>>
        /\ UNCHANGED <<shown, spent, picker, payments>>
        /\ asked' = [asked EXCEPT ![s][f] = table]
    BY DEF Fetch
  <1> HIDE DEF table
  <1>3. asked' \in [Screens -> [Fetches -> OrderTable \cup {NotAsked}]]
    BY <1>1, <1>2 DEF IInv, TypeOK
  <1>4. \A t \in Screens, g \in Fetches : asked'[t][g] = asked[t][g] \/ asked'[t][g] = table
    BY <1>2 DEF IInv, TypeOK
  <1>5. \A o \in OrderIds : \A c : CopyOf(c, o)' => CopyOf(c, o)
    BY <1>1, <1>2, <1>4 DEF CopyOf, Working, UnderWay
  <1>6. TypeOK'
    BY <1>2, <1>3 DEF IInv, TypeOK, history
  <1> QED
    BY <1>2, <1>5, <1>6, CopiesMove

LEMMA IInvArrive ==
  ASSUME IInv, NEW s \in Screens, NEW f \in Fetches, Arrive(s, f) \/ Drop(s, f)
  PROVE  IInv'
  <1>1. /\ UNCHANGED <<orders, click, busy, forgot, history>> /\ UNCHANGED <<spent, picker>>
        /\ asked' = [asked EXCEPT ![s][f] = NotAsked]
        /\ asked[s][f] # NotAsked
    BY DEF Arrive, Drop
  <1>2. /\ asked' \in [Screens -> [Fetches -> OrderTable \cup {NotAsked}]]
        /\ \A t \in Screens, g \in Fetches :
             asked'[t][g] = asked[t][g] \/ asked'[t][g] = NotAsked
    BY <1>1 DEF IInv, TypeOK
  <1>3. asked[s][f] \in OrderTable
    BY <1>1 DEF IInv, TypeOK
  <1>4. shown' = shown \/ shown' = [shown EXCEPT ![s] = asked[s][f]]
    BY DEF Arrive, Drop, Show
  <1>5. shown' \in [Screens -> OrderTable]
    BY <1>3, <1>4 DEF IInv, TypeOK
  <1>6. \A t \in Screens : shown'[t] = shown[t] \/ shown'[t] = asked[s][f]
    BY <1>4 DEF IInv, TypeOK
  <1>7. \A o \in OrderIds : \A c : CopyOf(c, o)' => CopyOf(c, o)
    BY <1>1, <1>2, <1>6 DEF CopyOf, Working, UnderWay
  <1>8. payments' \in SUBSET OrderIds
    BY DEF Arrive, Drop, MyPayments, IInv, TypeOK
  <1>9. TypeOK'
    BY <1>1, <1>2, <1>5, <1>8 DEF IInv, TypeOK, history
  <1> QED
    BY <1>1, <1>7, <1>9, CopiesMove

\* The pickers, the token, and steps of nobody.
LEMMA IInvAside ==
  ASSUME IInv, UNCHANGED <<orders, shown, asked, click, busy, payments, forgot, history>>,
         picker' \in OrderIds \cup {NoOrder}, spent' \in SUBSET Screens
  PROVE  IInv'
  <1>1. \A o \in OrderIds : \A c : CopyOf(c, o)' => CopyOf(c, o)
    BY DEF CopyOf, Working, UnderWay
  <1>2. TypeOK'
    BY DEF IInv, TypeOK, history
  <1> QED
    BY <1>1, <1>2, CopiesMove

-----------------------------------------------------------------------------
(* A new order.                                                            *)

LEMMA IInvBook ==
  ASSUME IInv, NEW o \in OrderIds, Book(o)
  PROVE  IInv'
  <1> DEFINE row == [client |-> Client, provider |-> Provider, status |-> "PENDING",
                     scheduled |-> AskedDate, proposed |-> NoDate]
  <1>1. /\ orders[o] = NoOrder /\ orders' = [orders EXCEPT ![o] = row] /\ click' = click
        /\ UNCHANGED <<shown, asked, busy, picker, payments, spent, forgot, late, crossed>>
    BY DEF Book, screen, history
  <1>2. /\ row \in Row /\ row # NoOrder /\ row.status = "PENDING" /\ row.scheduled = AskedDate
        /\ row.proposed = NoDate
    <2>1. row \in Row
      BY AskedDateAssumption DEF Row, Status
    <2> QED
      BY <2>1, NoOrderIsNoRow
  <1> HIDE DEF row
  <1>3. \A p \in OrderIds : orders'[p] = IF p = o THEN row ELSE orders[p]
    BY <1>1 DEF IInv, TypeOK, OrderTable
  <1>4. TypeOK'
    BY <1>1, <1>2 DEF IInv, TypeOK, OrderTable
  <1>5. \A c : ~CopyOf(c, o)
    BY <1>1 DEF IInv, Told, CopiesReal, Real
  <1>6. \A p \in OrderIds : \A c : CopyOf(c, p)' => IF p = o THEN c = row ELSE CopyOf(c, p)
    <2>1. \A p \in OrderIds : \A c : CopyOf(c, p)' =>
            CopyOf(c, p) \/ (c # NoOrder /\ c = orders'[p])
      BY <1>1 DEF CopyOf, Working, UnderWay
    <2>2. \A p \in OrderIds : p # o => \A c : (c # NoOrder /\ c = orders'[p]) => CopyOf(c, p)
      BY <1>3 DEF CopyOf
    <2> QED
      BY <1>3, <1>5, <2>1, <2>2
  <1>7. \A j \in DOMAIN click : Working(click[j]) =>
          click[j].order \in OrderIds /\ click[j].order # o /\ Entity(click[j], j)
    BY <1>1, ClickShape DEF IInv, Told, Entities, Entity, Working, UnderWay
  <1>8. CopiesReal'
    BY <1>2, <1>3, <1>6 DEF IInv, Told, CopiesReal, Real
  <1>9. OneDate'
    <2> SUFFICES ASSUME NEW p \in OrderIds \ crossed, NEW b, NEW c, CopyOf(b, p)', CopyOf(c, p)',
                        b.status = "RESCHEDULE_PROPOSED", c.status = "RESCHEDULE_PROPOSED"
                 PROVE  b.proposed = c.proposed /\ c.proposed # NoDate
      BY <1>1 DEF OneDate
    <2>1. p # o /\ CopyOf(b, p) /\ CopyOf(c, p)
      BY <1>2, <1>6
    <2> QED
      BY <2>1 DEF IInv, Told, OneDate
  <1>10. Unheard'
    <2> SUFFICES ASSUME NEW p \in OrderIds, orders'[p] # NoOrder,
                        orders'[p].status = "PENDING" \/ ~AllLate(p)'
                 PROVE  Unproposed(p)'
      BY DEF Unheard
    <2>1. AllLate(p)' <=> AllLate(p)
      BY <1>1 DEF AllLate, Proposing, Working, UnderWay
    <2>2. CASE p = o
      <3>1. \A j \in DOMAIN click : Working(click[j])' => click'[j].order # o
        BY <1>1, <1>7 DEF Working, UnderWay
      <3>2. \A c : CopyOf(c, o)' => c.status # "RESCHEDULE_PROPOSED"
        BY <1>2, <1>6
      <3> QED
        BY <1>1, <1>2, <1>3, <2>2, <3>1, <3>2 DEF Unproposed
    <2>3. CASE p # o
      <3>1. Unproposed(p) /\ orders'[p] = orders[p]
        BY <1>3, <2>1, <2>3 DEF IInv, Told, Unheard
      <3>2. \A c : CopyOf(c, p)' => CopyOf(c, p)
        BY <1>6, <2>3
      <3> QED
        BY <1>1, <3>1, <3>2 DEF Unproposed, Working, UnderWay
    <2> QED
      BY <2>2, <2>3
  <1>11. Entities'
    <2> SUFFICES ASSUME NEW j \in DOMAIN click, Working(click[j])
                 PROVE  Entity(click[j], j)'
      BY <1>1 DEF Entities, Working, UnderWay
    <2>1. PICK q : q = click[j]
      OBVIOUS
    <2>2. Entity(q, j) /\ orders'[q.order] = orders[q.order]
      BY <1>3, <1>7, <2>1
    <2>3. Settled(q.order) => Settled(q.order)'
      BY <1>1, <2>2 DEF Settled, AllLate, Proposing, Working, UnderWay
    <2>4. Entity(q, j)'
      BY <1>1, <2>2, <2>3 DEF Entity
    <2> QED
      BY <1>1, <2>1, <2>4 DEF Entity, Settled, AllLate
  <1>12. Offered' /\ Confirming' /\ RefusedOnlyIfStale' /\ Counted'
    BY <1>1 DEF IInv, Offered, WasOffered, Confirming, SeenDate, Working, UnderWay,
       RefusedOnlyIfStale, Counted, Pending
  <1> QED
    BY <1>4, <1>8, <1>9, <1>10, <1>11, <1>12 DEF IInv, Told

-----------------------------------------------------------------------------
(* The screens' part of a request.                                         *)

LEMMA IInvPress ==
  ASSUME IInv, NEW s \in Screens, NEW o \in OrderIds, NEW to \in AllowedTransition,
         NEW d \in Dates \cup {NoDate}, Press(s, o, to, d)
  PROVE  IInv'
  <1>1. PICK row : row = shown[s][o]
    OBVIOUS
  <1>2. PICK q : q = [phase |-> "sent", on |-> s, order |-> o, to |-> to, date |-> d,
                      seen |-> Card(row), stage |-> "coming", row |-> row, changed |-> {}]
    OBVIOUS
  <1>3. /\ row \in Row /\ row # NoOrder /\ busy[s] # o
        /\ Len(click) < MaxClicks /\ click' = Append(click, q)
        /\ busy' = [busy EXCEPT ![s] = o]
        /\ forgot' = [forgot EXCEPT ![s] = @ \/ busy[s] \notin {NoOrder, o}]
        /\ UNCHANGED <<orders, shown, asked, spent, picker, payments, late, crossed>>
    BY <1>1, <1>2 DEF Press, Enabled, IInv, TypeOK, OrderTable, history
  <1>4. Card(row) \in CardOf /\ q \in Request
    BY <1>2, <1>3 DEF Card, CardOf, Row, Request
  <1>5. click \in Seq(Request \cup {Over})
    BY DEF IInv, TypeOK
  <1>6. /\ click' \in Seq(Request \cup {Over}) /\ Len(click') <= MaxClicks
        /\ \A j \in DOMAIN click' : (j \in DOMAIN click /\ click'[j] = click[j])
                                      \/ (j = Len(click) + 1 /\ click'[j] = q)
    BY <1>3, <1>4, <1>5, MaxClicksAssumption
  <1>7. TypeOK'
    <2>1. forgot' \in [Screens -> BOOLEAN] /\ busy' \in [Screens -> OrderIds \cup {NoOrder}]
      BY <1>3 DEF IInv, TypeOK
    <2> QED
      BY <1>3, <1>6, <2>1 DEF IInv, TypeOK
  <1>8. ~Working(q) /\ q.phase = "sent"
    BY <1>2 DEF Working, UnderWay
  <1>9. Told' /\ Confirming'
    <2>1. \A p \in OrderIds : \A c :
            CopyOf(c, p)' => CopyOf(c, p) \/ \E b : CopyOf(b, p) /\ c = Card(b)
      <3>1. CopyOf(row, o) /\ q.order = o /\ q.row = row /\ q.seen = Card(row)
        BY <1>1, <1>2, <1>3 DEF CopyOf
      <3>2. \A p \in OrderIds : \A c : CopyOf(c, p)' =>
              CopyOf(c, p) \/ (p = q.order /\ (c = q.seen \/ c = q.row))
        BY <1>3, <1>6 DEF CopyOf, Working, UnderWay
      <3> QED
        BY <3>1, <3>2
    <2>2. \A j \in DOMAIN click' : Working(click[j])' =>
            j \in DOMAIN click /\ Working(click[j]) /\ click'[j] = click[j]
      BY <1>6, <1>8 DEF Working, UnderWay
    <2>3. \A j \in DOMAIN click' : click'[j].phase = "saved" =>
            j \in DOMAIN click /\ click'[j] = click[j]
      BY <1>6, <1>8
    <2> QED
      BY <1>3, <2>1, <2>2, <2>3, Quiet DEF SameClick
  <1>10. Offered'
    <2>1. Card(row).status = row.status
      BY DEF Card
    <2>2. WasOffered(q)
      BY <1>1, <1>2, <2>1 DEF Press, Offers, WasOffered
    <2> QED
      BY <1>6, <2>2 DEF IInv, Offered, WasOffered
  <1>11. RefusedOnlyIfStale'
    BY <1>6, <1>8 DEF IInv, RefusedOnlyIfStale
  <1>12. Counted'
    <2> SUFFICES ASSUME NEW t \in Screens, ~forgot'[t]
                 PROVE  /\ \A i \in DOMAIN click' : (Pending(click'[i]) /\ click'[i].on = t) =>
                             /\ busy'[t] = click'[i].order
                             /\ \A j \in DOMAIN click' : (Pending(click'[j]) /\ click'[j].on = t) => j = i
                        /\ \A i \in DOMAIN click' : click'[i].phase = "abandoned" => click'[i].on # t
      BY DEF Counted, Pending
    <2>1. ~forgot[t] /\ (t = s => busy[s] = NoOrder)
      BY <1>3 DEF IInv, TypeOK
    <2>2. \A i \in DOMAIN click : Pending(click[i]) => click[i].order # NoOrder
      BY ClickShape, NoOrderAssumption DEF IInv, Pending
    <2>3. t = s => \A i \in DOMAIN click : ~(Pending(click[i]) /\ click[i].on = s)
      BY <2>1, <2>2 DEF IInv, Counted
    <2>4. busy'[t] = IF t = s THEN o ELSE busy[t]
      BY <1>3 DEF IInv, TypeOK
    <2>5. q.phase = "sent" /\ q.on = s /\ q.order = o
      BY <1>2
    <2> QED
      BY <1>6, <2>1, <2>3, <2>4, <2>5 DEF IInv, Counted, Pending
  <1> QED
    BY <1>7, <1>9, <1>10, <1>11, <1>12 DEF IInv

\* A click ends, or is given up, without a change of an order.
LEMMA ClickEnds ==
  ASSUME IInv, NEW k \in DOMAIN click, NEW v \in Request \cup {Over},
         click[k].phase \in {"sent", "saved", "refused", "denied"},
         click' = [click EXCEPT ![k] = v],
         \/ v = Over
         \/ click[k].phase = "sent" /\ v = [click[k] EXCEPT !.phase = "abandoned"],
         UNCHANGED <<orders, payments, asked, spent, late, crossed>>,
         picker' \in OrderIds \cup {NoOrder}, shown' \in [Screens -> OrderTable],
         \A s \in Screens, o \in OrderIds :
           shown'[s][o] = shown[s][o] \/ CopyOf(shown'[s][o], o),
         busy' = [busy EXCEPT ![click[k].on] = NoOrder],
         forgot' = [forgot EXCEPT ![click[k].on] = @ \/ v.phase = "abandoned"]
  PROVE  IInv'
  <1>1. /\ click' \in Seq(Request \cup {Over}) /\ Len(click') <= MaxClicks
        /\ DOMAIN click' = DOMAIN click
        /\ \A j \in DOMAIN click : click'[j] = IF j = k THEN v ELSE click[j]
    BY ClickChanges DEF IInv
  <1>2. click[k] \in Request /\ click[k].on \in Screens /\ click[k].order \in OrderIds
    BY ClickShape DEF IInv
  <1>3. Over.phase = "over"
    BY DEF Over
  <1>4. \/ v.phase = "over"
        \/ /\ v.phase = "abandoned" /\ click[k].phase = "sent" /\ SameClick(click[k], v)
           /\ v.stage = click[k].stage /\ v.row = click[k].row /\ v.changed = click[k].changed
    BY <1>2, <1>3 DEF Request, SameClick
  <1>5. TypeOK'
    <2>1. forgot' \in [Screens -> BOOLEAN]
      BY DEF IInv, TypeOK
    <2>2. busy' \in [Screens -> OrderIds \cup {NoOrder}]
      BY DEF IInv, TypeOK
    <2> QED
      BY <1>1, <2>1, <2>2 DEF IInv, TypeOK
  <1>6. \A j \in DOMAIN click' : Working(click[j])' =>
          /\ Working(click[j]) /\ SameClick(click[j], click'[j])
          /\ click'[j].stage = click[j].stage /\ click'[j].row = click[j].row
          /\ click'[j].changed = click[j].changed
    BY <1>1, <1>4 DEF Working, UnderWay, SameClick
  <1>7. \A o \in OrderIds : \A c : CopyOf(c, o)' => CopyOf(c, o)
    <2> SUFFICES ASSUME NEW o \in OrderIds, NEW c, CopyOf(c, o)'
                 PROVE  CopyOf(c, o)
      OBVIOUS
    <2>1. CASE c # NoOrder /\ \E s \in Screens : c = shown'[s][o]
      BY <2>1 DEF CopyOf
    <2>2. ASSUME NEW j \in DOMAIN click', click'[j].phase # "over", click'[j].order = o,
                 c = click'[j].seen \/ (~Working(click'[j]) /\ c = click'[j].row)
          PROVE  CopyOf(c, o)
      <3>1. /\ j \in DOMAIN click /\ click[j].phase # "over" /\ click[j].order = o
            /\ click'[j].seen = click[j].seen /\ click'[j].row = click[j].row
            /\ Working(click'[j]) <=> Working(click[j])
        BY <1>1, <1>4, <2>2 DEF SameClick, Working, UnderWay
      <3> QED
        BY <2>2, <3>1 DEF CopyOf
    <2> QED
      BY <2>1, <2>2 DEF CopyOf, Working, UnderWay
  <1>8. Told' /\ Confirming'
    BY <1>1, <1>4, <1>6, <1>7, Quiet
  <1>9. Offered' /\ RefusedOnlyIfStale'
    BY <1>1, <1>4 DEF IInv, Offered, WasOffered, SameClick, RefusedOnlyIfStale
  <1>10. Counted'
    <2> SUFFICES ASSUME NEW s \in Screens, ~forgot'[s]
                 PROVE  /\ \A i \in DOMAIN click : (Pending(click'[i]) /\ click'[i].on = s) =>
                             /\ busy'[s] = click'[i].order
                             /\ \A j \in DOMAIN click : (Pending(click'[j]) /\ click'[j].on = s) => j = i
                        /\ \A i \in DOMAIN click : click'[i].phase = "abandoned" => click'[i].on # s
      BY <1>1 DEF Counted, Pending
    <2>1. ~forgot[s] /\ (s = click[k].on => v.phase # "abandoned")
      BY DEF IInv, TypeOK
    <2>2. busy'[s] = IF s = click[k].on THEN NoOrder ELSE busy[s]
      BY DEF IInv, TypeOK
    <2>3. \A i \in DOMAIN click : (Pending(click'[i]) /\ click'[i].on = s) =>
            i # k /\ s # click[k].on /\ click'[i] = click[i]
      BY <1>1, <1>4, <2>1 DEF IInv, Counted, Pending
    <2>4. \A i \in DOMAIN click : click'[i].phase = "abandoned" => click'[i].on # s
      BY <1>1, <1>4, <2>1 DEF IInv, Counted, SameClick
    <2> QED
      BY <2>1, <2>2, <2>3, <2>4 DEF IInv, Counted
  <1> QED
    BY <1>5, <1>8, <1>9, <1>10 DEF IInv

LEMMA IInvAnswer ==
  ASSUME IInv, NEW k \in DOMAIN click, Answer(k)
  PROVE  IInv'
  <1>1. PICK q : q = click[k]
    OBVIOUS
  <1>2. /\ q.phase = "saved" /\ q.on \in Screens /\ q.order \in OrderIds /\ q.row \in Row
        /\ CopyOf(q.row, q.order)
    BY <1>1, ClickShape DEF Answer, IInv, CopyOf, Working, UnderWay
  <1>3. shown' = [shown EXCEPT ![q.on][q.order] = IF @ = NoOrder THEN @ ELSE q.row]
    BY <1>1 DEF Answer
  <1>4. shown' \in [Screens -> OrderTable]
    BY <1>2, <1>3 DEF IInv, TypeOK, OrderTable
  <1>5. \A s \in Screens, o \in OrderIds :
          shown'[s][o] = shown[s][o] \/ CopyOf(shown'[s][o], o)
    BY <1>2, <1>3 DEF IInv, TypeOK, OrderTable
  <1>6. /\ click' = [click EXCEPT ![k] = Over] /\ Over.phase = "over"
        /\ busy' = [busy EXCEPT ![click[k].on] = NoOrder]
        /\ UNCHANGED <<orders, asked, payments, spent, late, crossed, forgot>>
        /\ picker' \in OrderIds \cup {NoOrder}
    BY DEF Answer, Over, IInv, TypeOK, history
  <1>7. forgot' = [forgot EXCEPT ![click[k].on] = @ \/ Over.phase = "abandoned"]
    BY <1>1, <1>2, <1>6 DEF IInv, TypeOK
  <1> QED
    BY <1>1, <1>2, <1>4, <1>5, <1>6, <1>7, ClickEnds

LEMMA IInvFail ==
  ASSUME IInv, NEW k \in DOMAIN click, Fail(k)
  PROVE  IInv'
  <1>1. PICK q : q = click[k]
    OBVIOUS
  <1>2. q.phase \in {"sent", "saved", "refused", "denied"} /\ q \in Request /\ q.on \in Screens
    BY <1>1, ClickShape DEF Fail, IInv
  <1>3. PICK v : v = IF q.phase = "sent" THEN [q EXCEPT !.phase = "abandoned"] ELSE Over
    OBVIOUS
  <1>4. /\ v \in Request \cup {Over}
        /\ \/ v = Over
           \/ q.phase = "sent" /\ v = [q EXCEPT !.phase = "abandoned"]
        /\ v.phase = "abandoned" <=> q.phase = "sent"
    BY <1>2, <1>3 DEF Request, Over
  <1>5. /\ click' = [click EXCEPT ![k] = v]
        /\ busy' = [busy EXCEPT ![q.on] = NoOrder]
        /\ UNCHANGED <<orders, shown, asked, spent, picker, payments, late, crossed>>
    BY <1>1, <1>3 DEF Fail, history
  <1>6. forgot' = [forgot EXCEPT ![q.on] = @ \/ v.phase = "abandoned"]
    BY <1>1, <1>4 DEF Fail
  <1>7. /\ shown' \in [Screens -> OrderTable] /\ picker' \in OrderIds \cup {NoOrder}
        /\ \A s \in Screens, o \in OrderIds :
             shown'[s][o] = shown[s][o] \/ CopyOf(shown'[s][o], o)
    BY <1>5 DEF IInv, TypeOK
  <1> QED
    BY <1>1, <1>2, <1>4, <1>5, <1>6, <1>7, ClickEnds

-----------------------------------------------------------------------------
(* The service's part of a request.                                        *)

\* What a step of the service makes of a request: the screens know nothing yet.
LEMMA ServiceStep ==
  ASSUME IInv, NEW k \in DOMAIN click, NEW v \in Request \cup {Over},
         click' = [click EXCEPT ![k] = v], UNCHANGED <<screen, spent>>,
         click[k].phase \in {"sent", "abandoned"},
         v.phase = "over" \/ SameClick(click[k], v),
         v.phase = "abandoned" => click[k].phase = "abandoned",
         click[k].phase = "abandoned" => v.phase \in {"over", "abandoned"},
         v.phase = "refused" =>
           \/ v.seen # Card(v.row)
           \/ v.to = "RESCHEDULE_PROPOSED" /\ v.seen.status # "PENDING",
         orders' \in OrderTable, late' \in SUBSET (1 .. MaxClicks), crossed' \in SUBSET OrderIds
  PROVE  /\ TypeOK' /\ Offered' /\ RefusedOnlyIfStale' /\ Counted'
         /\ DOMAIN click' = DOMAIN click
         /\ \A j \in DOMAIN click : click'[j] = IF j = k THEN v ELSE click[j]
  <1>1. /\ click' \in Seq(Request \cup {Over}) /\ Len(click') <= MaxClicks
        /\ DOMAIN click' = DOMAIN click
        /\ \A j \in DOMAIN click : click'[j] = IF j = k THEN v ELSE click[j]
    BY ClickChanges DEF IInv
  <1>2. TypeOK'
    BY <1>1 DEF IInv, TypeOK, screen
  <1>3. Offered' /\ RefusedOnlyIfStale'
    BY <1>1 DEF IInv, Offered, WasOffered, SameClick, RefusedOnlyIfStale
  <1>4. Counted'
    <2>1. \A j \in DOMAIN click :
            /\ Pending(click'[j]) => /\ Pending(click[j]) /\ click'[j].on = click[j].on
                                     /\ click'[j].order = click[j].order
            /\ click'[j].phase = "abandoned" =>
                 click[j].phase = "abandoned" /\ click'[j].on = click[j].on
      BY <1>1 DEF Pending, SameClick
    <2> QED
      BY <1>1, <2>1 DEF IInv, Counted, Pending, screen
  <1> QED
    BY <1>1, <1>2, <1>3, <1>4

\* An answer that says nothing new: nothing becomes of the orders.
LEMMA NothingSaved ==
  ASSUME IInv, NEW k \in DOMAIN click, UnderWay(click[k], "coming"),
         NEW phase \in {"refused", "denied"}, NEW row \in Row, CopyOf(row, click[k].order),
         phase = "refused" =>
           \/ click[k].seen # Card(row)
           \/ click[k].to = "RESCHEDULE_PROPOSED" /\ click[k].seen.status # "PENDING",
         click' = [click EXCEPT ![k] = Through(click[k], phase, row)],
         UNCHANGED <<orders, screen, spent, history>>
  PROVE  IInv'
  <1>1. PICK q : q = click[k]
    OBVIOUS
  <1>2. PICK v : v = Through(q, phase, row)
    OBVIOUS
  <1>3. /\ q \in Request /\ q.phase \in {"sent", "abandoned"} /\ q.stage = "coming"
    BY <1>1, ClickShape DEF UnderWay, IInv
  <1>4. /\ v \in Request \cup {Over}
        /\ \/ v.phase = "over"
           \/ /\ q.phase = "sent" /\ v.phase = phase /\ SameClick(q, v) /\ v.row = row
              /\ v.on = q.on /\ v.to = q.to /\ v.seen = q.seen
    BY <1>2, <1>3 DEF Through, Request, Over, SameClick
  <1>5. click' = [click EXCEPT ![k] = v]
    BY <1>1, <1>2
  <1>6. orders' \in OrderTable /\ late' \in SUBSET (1 .. MaxClicks) /\ crossed' \in SUBSET OrderIds
    BY DEF history, IInv, TypeOK
  <1>7. /\ TypeOK' /\ Offered' /\ RefusedOnlyIfStale' /\ Counted'
        /\ DOMAIN click' = DOMAIN click
        /\ \A j \in DOMAIN click : click'[j] = IF j = k THEN v ELSE click[j]
    <2>1. /\ click[k].phase \in {"sent", "abandoned"}
          /\ v.phase = "over" \/ SameClick(click[k], v)
      BY <1>1, <1>3, <1>4
    <2>2. /\ v.phase = "abandoned" => click[k].phase = "abandoned"
          /\ click[k].phase = "abandoned" => v.phase \in {"over", "abandoned"}
      BY <1>1, <1>4
    <2>3. v.phase = "refused" =>
            \/ v.seen # Card(v.row)
            \/ v.to = "RESCHEDULE_PROPOSED" /\ v.seen.status # "PENDING"
      BY <1>1, <1>4
    <2>4. v \in Request \cup {Over} /\ UNCHANGED <<screen, spent>>
      BY <1>4
    <2> QED
      BY <1>5, <1>6, <2>1, <2>2, <2>3, <2>4, ServiceStep
  <1>8. \A o \in OrderIds : \A c : CopyOf(c, o)' => CopyOf(c, o)
    <2> SUFFICES ASSUME NEW o \in OrderIds, NEW c, CopyOf(c, o)'
                 PROVE  CopyOf(c, o)
      OBVIOUS
    <2>1. ASSUME NEW j \in DOMAIN click, click'[j].phase # "over", click'[j].order = o,
                 c = click'[j].seen \/ (~Working(click'[j]) /\ c = click'[j].row)
          PROVE  CopyOf(c, o)
      <3>1. CASE j # k
        BY <1>7, <2>1, <3>1 DEF CopyOf
      <3>2. CASE j = k
        BY <1>1, <1>3, <1>4, <1>7, <2>1, <3>2 DEF CopyOf, SameClick
      <3> QED
        BY <3>1, <3>2
    <2> QED
      BY <1>7, <2>1 DEF CopyOf, Working, UnderWay, screen
  <1>9. \A j \in DOMAIN click' : Working(click[j])' => click'[j] = click[j] /\ Working(click[j])
    BY <1>4, <1>7 DEF Working, UnderWay
  <1>10. \A j \in DOMAIN click' : click'[j].phase = "saved" => click'[j] = click[j]
    BY <1>4, <1>7
  <1>11. Told' /\ Confirming'
    BY <1>7, <1>8, <1>9, <1>10, Quiet DEF SameClick, history
  <1> QED
    BY <1>7, <1>11 DEF IInv

LEMMA IInvDeny ==
  ASSUME IInv, NEW k \in DOMAIN click, Deny(k)
  PROVE  IInv'
  <1>1. /\ UnderWay(click[k], "coming") /\ UNCHANGED <<orders, screen, spent, history>>
        /\ click' = [click EXCEPT ![k] = Through(click[k], "denied", click[k].row)]
    BY DEF Deny
  <1>2. click[k].row \in Row /\ CopyOf(click[k].row, click[k].order)
    BY <1>1, ClickShape DEF UnderWay, Working, CopyOf, IInv
  <1> QED
    BY <1>1, <1>2, NothingSaved

\* A step offered on a card that is as the order is will be carried out, but
\* for a proposal from a picker left open.
LEMMA OfferedIsPermitted ==
  ASSUME NEW q \in Request, NEW row \in Row, WasOffered(q), q.seen = Card(row),
         ~(q.to = "RESCHEDULE_PROPOSED" /\ q.seen.status # "PENDING")
  PROVE  Permitted(row, ActorOf[q.on], q.to, q.date)
  <1>1. q.seen.status = row.status /\ row.status \in Status /\ q.on \in Screens
    BY DEF Card, Row, Request
  <1>2. row.client = Client /\ row.provider = Provider
    BY DEF Row
  <1>3. CASE q.on = "requests"
    <2>1. ActorOf[q.on] = Client /\ q.to \in MyRequestsOffers(row.status)
      BY <1>1, <1>3 DEF ActorOf, Screens, WasOffered
    <2>2. \/ row.status = "RESCHEDULE_PROPOSED" /\ q.to \in {"CONFIRMED", "CANCELLED"}
          \/ row.status = "PENDING" /\ q.to = "CANCELLED"
      BY <1>1, <2>1 DEF MyRequestsOffers, Status
    <2> QED
      BY <1>2, <2>1, <2>2 DEF Permitted, Transitions, Table, ProviderOnly, ClientOnly
  <1>4. CASE q.on = "dashboard"
    <2>1. ActorOf[q.on] = Provider
      BY <1>4 DEF ActorOf, Screens
    <2>2. CASE q.to = "RESCHEDULE_PROPOSED"
      BY <1>1, <1>2, <2>1, <2>2
      DEF WasOffered, Permitted, Transitions, Table, ProviderOnly, ClientOnly
    <2>3. CASE q.to # "RESCHEDULE_PROPOSED"
      <3>1. \/ row.status = "PENDING" /\ q.to \in {"CONFIRMED", "CANCELLED"}
            \/ row.status = "CONFIRMED" /\ q.to = "IN_PROGRESS"
            \/ row.status = "IN_PROGRESS" /\ q.to = "COMPLETED"
        BY <1>1, <1>4, <2>3 DEF WasOffered, DashboardOffers, Status
      <3> QED
        BY <1>2, <2>1, <2>3, <3>1 DEF Permitted, Transitions, Table, ProviderOnly, ClientOnly
    <2> QED
      BY <2>2, <2>3
  <1> QED
    BY <1>1, <1>3, <1>4 DEF Screens

\* The copy a confirmation is read into has the date that the card had.
LEMMA ConfirmedAsSeen ==
  ASSUME IInv, NEW q \in Request, WasOffered(q), CopyOf(q.seen, q.order), q.to = "CONFIRMED",
         q.order \notin crossed, orders[q.order] \in Row, orders[q.order] # NoOrder,
         Permitted(orders[q.order], ActorOf[q.on], q.to, q.date)
  PROVE  Edited(orders[q.order], q.to, q.date).scheduled = SeenDate(q)
  <1>1. PICK row \in Row : row = orders[q.order]
    OBVIOUS
  <1>2. /\ q.on \in Screens /\ q.order \in OrderIds /\ q.seen.status \in Status
        /\ row.client = Client /\ row.provider = Provider
    BY DEF Request, CardOf, Row
  <1>3. /\ <<row.status, "CONFIRMED">> \in Table
        /\ row.status = "PENDING" => ActorOf[q.on] = Provider
        /\ row.status = "RESCHEDULE_PROPOSED" => ActorOf[q.on] = Client
    BY <1>1, <1>2 DEF Permitted, Transitions, ProviderOnly, ClientOnly
  <1>4. row.status \in {"PENDING", "RESCHEDULE_PROPOSED"}
    BY <1>3 DEF Table
  <1>5. CopyOf(row, q.order)
    BY <1>1 DEF CopyOf
  <1>6. CASE q.on = "requests"
    <2>1. q.seen.status = "RESCHEDULE_PROPOSED"
      BY <1>2, <1>6 DEF WasOffered, MyRequestsOffers, Status
    <2>2. row.status = "RESCHEDULE_PROPOSED"
      BY <1>3, <1>4, <1>6, PartiesAssumption DEF ActorOf, Screens
    <2>3. row.proposed = q.seen.proposed /\ row.proposed # NoDate
      BY <1>2, <1>5, <2>1, <2>2 DEF IInv, Told, OneDate
    <2> QED
      BY <1>1, <2>1, <2>2, <2>3 DEF Edited, Row, SeenDate
  <1>7. CASE q.on = "dashboard"
    <2>1. q.seen.status = "PENDING"
      BY <1>2, <1>7 DEF WasOffered, DashboardOffers, Status
    <2>2. row.status = "PENDING"
      BY <1>3, <1>4, <1>7, PartiesAssumption DEF ActorOf, Screens
    <2>3. row.scheduled = AskedDate /\ q.seen.scheduled = AskedDate
      BY <1>2, <1>5, <2>1, <2>2 DEF IInv, Told, CopiesReal, Real
    <2> QED
      BY <1>1, <2>1, <2>2, <2>3 DEF Edited, Row, SeenDate
  <1> QED
    BY <1>2, <1>6, <1>7 DEF Screens

\* A request the service takes on has read the order as it is.
LEMMA IInvTakenOn ==
  ASSUME IInv, NEW k \in DOMAIN click, NEW q, q = click[k], UnderWay(q, "coming"),
         Permitted(orders[q.order], ActorOf[q.on], q.to, q.date),
         click' = [click EXCEPT ![k] =
           [q EXCEPT !.stage = "select", !.row = Edited(orders[q.order], q.to, q.date)]],
         UNCHANGED <<orders, screen, spent, history>>
  PROVE  IInv'
  <1>1. PICK row : row = orders[q.order]
    OBVIOUS
  <1>2. PICK new : new = Edited(row, q.to, q.date)
    OBVIOUS
  <1>3. PICK v : v = [q EXCEPT !.stage = "select", !.row = new]
    OBVIOUS
  <1>4. /\ q \in Request /\ q.phase \in {"sent", "abandoned"} /\ q.stage = "coming"
        /\ q.order \in OrderIds /\ q.to \in AllowedTransition /\ q.date \in Dates \cup {NoDate}
        /\ WasOffered(q) /\ CopyOf(q.seen, q.order)
    BY ClickShape DEF UnderWay, IInv, Offered, CopyOf
  <1>5. row \in Row /\ row # NoOrder
    BY <1>1, <1>4 DEF IInv, Told, CopiesReal, Real, TypeOK, OrderTable
  <1>6. new \in Row /\ new.status = q.to
    BY <1>2, <1>4, <1>5, EditedShape
  <1>7. /\ v \in Request /\ v.phase = q.phase /\ v.stage = "select" /\ v.row = new
        /\ v.on = q.on /\ v.order = q.order /\ v.to = q.to /\ v.date = q.date /\ v.seen = q.seen
    BY <1>3, <1>4, <1>6 DEF Request
  <1>8. click' = [click EXCEPT ![k] = v] /\ UNCHANGED <<late, crossed>>
    BY <1>1, <1>2, <1>3 DEF history
  <1>9. /\ TypeOK' /\ Offered' /\ RefusedOnlyIfStale' /\ Counted'
        /\ DOMAIN click' = DOMAIN click
        /\ \A j \in DOMAIN click : click'[j] = IF j = k THEN v ELSE click[j]
    <2>1. orders' \in OrderTable /\ late' \in SUBSET (1 .. MaxClicks) /\ crossed' \in SUBSET OrderIds
      BY DEF history, IInv, TypeOK
    <2>2. SameClick(click[k], v) /\ v \in Request \cup {Over}
      BY <1>7 DEF SameClick
    <2>3. click[k].phase \in {"sent", "abandoned"} /\ v.phase = click[k].phase
      BY <1>4, <1>7
    <2> QED
      BY <1>8, <2>1, <2>2, <2>3, ServiceStep
  <1>10. Working(v) /\ ~Working(q)
    BY <1>4, <1>7 DEF Working, UnderWay
  <1>11. \A o \in OrderIds : \A c : CopyOf(c, o)' => CopyOf(c, o)
    <2> SUFFICES ASSUME NEW o \in OrderIds, NEW c, CopyOf(c, o)'
                 PROVE  CopyOf(c, o)
      OBVIOUS
    <2>1. ASSUME NEW j \in DOMAIN click, click'[j].phase # "over", click'[j].order = o,
                 c = click'[j].seen \/ (~Working(click'[j]) /\ c = click'[j].row)
          PROVE  CopyOf(c, o)
      <3>1. CASE j # k
        BY <1>9, <2>1, <3>1 DEF CopyOf
      <3>2. CASE j = k
        <4>1. click'[j] = v
          BY <1>9, <3>2
        <4>2. o = q.order
          BY <1>7, <2>1, <4>1
        <4>3. Working(click'[j])
          BY <1>10, <4>1
        <4>4. c = q.seen
          BY <1>7, <2>1, <4>1, <4>3
        <4> QED
          BY <1>4, <4>2, <4>4
      <3> QED
        BY <3>1, <3>2
    <2> QED
      BY <1>9, <2>1 DEF CopyOf, Working, UnderWay, screen
  <1>12. CopiesReal' /\ OneDate'
    BY <1>8, <1>11 DEF IInv, Told, CopiesReal, Real, OneDate
  <1>13. /\ <<row.status, q.to>> \in Table
         /\ q.to = "RESCHEDULE_PROPOSED" =>
              row.status = "PENDING" /\ new.proposed = q.date /\ q.date # NoDate
         /\ q.to # "RESCHEDULE_PROPOSED" => new.proposed \in {row.proposed, NoDate}
    BY <1>1, <1>2, <1>4, <1>5 DEF Permitted, Transitions, Table, Edited, Row
  <1>14. ASSUME NEW o \in OrderIds
         PROVE  AllLate(o) /\ (orders[o].status # "PENDING" \/ o # q.order) => AllLate(o)'
    <2>1. (o = q.order /\ orders[o].status # "PENDING") => q.to # "RESCHEDULE_PROPOSED"
      BY <1>1, <1>13
    <2>2. (v.order = o /\ (orders[o].status # "PENDING" \/ o # q.order))
            => v.to # "RESCHEDULE_PROPOSED"
      BY <1>7, <2>1
    <2> SUFFICES ASSUME AllLate(o), orders[o].status # "PENDING" \/ o # q.order,
                        NEW j \in DOMAIN click, Proposing(click'[j]), click'[j].order = o
                 PROVE  j \in late
      BY <1>8, <1>9 DEF AllLate, Proposing, Working, UnderWay
    <2>3. j # k
      BY <1>9, <2>2 DEF Proposing
    <2> QED
      BY <1>9, <2>3 DEF AllLate
  <1>15. Unheard'
    <2> SUFFICES ASSUME NEW o \in OrderIds, orders[o] # NoOrder,
                        orders[o].status = "PENDING" \/ ~AllLate(o)'
                 PROVE  Unproposed(o)'
      BY DEF Unheard
    <2>1. Unproposed(o)
      BY <1>14 DEF IInv, Told, Unheard
    <2>2. \A c : CopyOf(c, o)' => c.status # "RESCHEDULE_PROPOSED"
      BY <1>11, <2>1 DEF Unproposed
    <2>3. \A j \in DOMAIN click : (/\ Working(click'[j]) /\ click'[j].order = o
                                   /\ click'[j].to # "RESCHEDULE_PROPOSED")
                                  => click'[j].row.proposed = NoDate
      <3> SUFFICES ASSUME NEW j \in DOMAIN click, Working(click'[j]), click'[j].order = o,
                          click'[j].to # "RESCHEDULE_PROPOSED"
                   PROVE  click'[j].row.proposed = NoDate
        OBVIOUS
      <3>1. CASE j = k
        <4>1. o = q.order /\ click'[j].row = new /\ new.proposed \in {row.proposed, NoDate}
          BY <1>7, <1>9, <1>13, <3>1
        <4> QED
          BY <1>1, <2>1, <4>1 DEF Unproposed
      <3>2. CASE j # k
        BY <1>9, <2>1, <3>2 DEF Unproposed
      <3> QED
        BY <3>1, <3>2
    <2> QED
      BY <1>9, <2>1, <2>2, <2>3 DEF Unproposed, Working, UnderWay
  <1>16. Entities'
    <2> SUFFICES ASSUME NEW j \in DOMAIN click, Working(click'[j])
                 PROVE  Entity(click[j], j)'
      BY <1>9 DEF Entities, Working, UnderWay
    <2>1. CASE j = k
      <3>1. Entity(v, k)'
        BY <1>1, <1>5, <1>6, <1>7, <1>13 DEF Entity
      <3> QED
        BY <1>9, <2>1, <3>1 DEF Entity, Settled, AllLate
    <2>2. CASE j # k
      <3>1. PICK p : p = click[j]
        OBVIOUS
      <3>2. click'[j] = p /\ Entity(p, j) /\ p.order \in OrderIds
        BY <1>9, <2>2, <3>1, ClickShape DEF IInv, Told, Entities, Working, UnderWay
      <3>3. Settled(p.order) => Settled(p.order)'
        BY <1>14, <3>2 DEF Settled
      <3>4. Entity(p, j)'
        BY <1>8, <3>2, <3>3 DEF Entity
      <3> QED
        BY <3>2, <3>4 DEF Entity, Settled, AllLate
    <2> QED
      BY <2>1, <2>2
  <1>17. Confirming'
    <2>1. (v.to = "CONFIRMED" /\ v.order \notin crossed) => v.row.scheduled = SeenDate(v)
      BY <1>1, <1>2, <1>4, <1>5, <1>7, ConfirmedAsSeen DEF SeenDate
    <2> SUFFICES ASSUME NEW j \in DOMAIN click, Working(click'[j]) \/ click'[j].phase = "saved",
                        click'[j].to = "CONFIRMED", click'[j].order \notin crossed
                 PROVE  click'[j].row.scheduled = SeenDate(click'[j])
      BY <1>8, <1>9 DEF Confirming, SeenDate, Working, UnderWay
    <2>3. CASE j = k
      BY <1>9, <2>1, <2>3
    <2>4. CASE j # k
      BY <1>9, <2>4 DEF IInv, Confirming
    <2> QED
      BY <2>3, <2>4
  <1> QED
    BY <1>9, <1>12, <1>15, <1>16, <1>17 DEF IInv, Told

LEMMA IInvLoad ==
  ASSUME IInv, NEW k \in DOMAIN click, Load(k)
  PROVE  IInv'
  <1>1. PICK q : q = click[k]
    OBVIOUS
  <1>2. /\ q \in Request /\ UnderWay(q, "coming") /\ WasOffered(q) /\ q.order \in OrderIds
        /\ CopyOf(q.seen, q.order)
        /\ UNCHANGED <<orders, screen, spent, history>>
    BY <1>1, ClickShape DEF Load, UnderWay, IInv, Offered, CopyOf
  <1>3. PICK row : row = orders[q.order]
    OBVIOUS
  <1>4. row \in Row /\ row # NoOrder /\ CopyOf(row, q.order)
    BY <1>2, <1>3 DEF IInv, Told, CopiesReal, Real, TypeOK, OrderTable, CopyOf
  <1>5. CASE Permitted(row, ActorOf[q.on], q.to, q.date)
    <2>1. click' = [click EXCEPT ![k] =
            [q EXCEPT !.stage = "select", !.row = Edited(orders[q.order], q.to, q.date)]]
      BY <1>1, <1>3, <1>5 DEF Load
    <2> QED
      BY <1>1, <1>2, <1>3, <1>5, <2>1, IInvTakenOn
  <1>6. CASE ~Permitted(row, ActorOf[q.on], q.to, q.date)
    <2>1. click' = [click EXCEPT ![k] = Through(click[k], "refused", row)]
      BY <1>1, <1>3, <1>6 DEF Load
    <2>2. q.seen # Card(row) \/ (q.to = "RESCHEDULE_PROPOSED" /\ q.seen.status # "PENDING")
      BY <1>2, <1>4, <1>6, OfferedIsPermitted
    <2> QED
      BY <1>1, <1>2, <1>4, <2>1, <2>2, NothingSaved
  <1> QED
    BY <1>5, <1>6

\* The request knows which columns it is to save.
LEMMA IInvSelect ==
  ASSUME IInv, NEW k \in DOMAIN click, Select(k)
  PROVE  IInv'
  <1>1. PICK q : q = click[k]
    OBVIOUS
  <1>2. PICK row : row = orders[q.order]
    OBVIOUS
  <1>3. PICK v : v = [q EXCEPT !.stage = "update", !.changed = Changed(q.row, row)]
    OBVIOUS
  <1>4. /\ q \in Request /\ q.phase \in {"sent", "abandoned"} /\ q.stage = "select" /\ Working(q)
        /\ q.order \in OrderIds /\ q.to \in AllowedTransition
    BY <1>1, ClickShape DEF Select, UnderWay, Working, IInv
  <1>5. /\ click' = [click EXCEPT ![k] = v]
        /\ UNCHANGED <<orders, screen, spent, history>> /\ UNCHANGED <<late, crossed>>
    BY <1>1, <1>2, <1>3 DEF Select, history
  <1>6. /\ v \in Request /\ v.phase = q.phase /\ v.stage = "update" /\ v.row = q.row
        /\ v.changed = Changed(q.row, row) /\ v.to = q.to /\ v.order = q.order /\ v.seen = q.seen
        /\ SameClick(q, v)
    BY <1>3, <1>4 DEF Request, Changed, SameClick
  <1>7. /\ TypeOK' /\ Offered' /\ RefusedOnlyIfStale' /\ Counted'
        /\ DOMAIN click' = DOMAIN click
        /\ \A j \in DOMAIN click : click'[j] = IF j = k THEN v ELSE click[j]
    <2>1. orders' \in OrderTable /\ late' \in SUBSET (1 .. MaxClicks) /\ crossed' \in SUBSET OrderIds
      BY <1>5 DEF IInv, TypeOK
    <2> QED
      BY <1>1, <1>4, <1>5, <1>6, <2>1, ServiceStep
  <1>8. Working(v)
    BY <1>4, <1>6 DEF Working, UnderWay
  <1>9. \A j \in DOMAIN click :
          /\ click'[j].phase = click[j].phase /\ SameClick(click[j], click'[j])
          /\ click'[j].row = click[j].row /\ (Working(click'[j]) <=> Working(click[j]))
    BY <1>1, <1>4, <1>6, <1>7, <1>8 DEF SameClick
  <1>10. \A o \in OrderIds : \A c : CopyOf(c, o)' => CopyOf(c, o)
    BY <1>5, <1>7, <1>9 DEF CopyOf, SameClick, Working, UnderWay, screen
  <1>11. CopiesReal' /\ OneDate'
    BY <1>5, <1>10 DEF IInv, Told, CopiesReal, Real, OneDate
  <1>12. \A o \in OrderIds : AllLate(o)' <=> AllLate(o)
    BY <1>5, <1>7, <1>9 DEF AllLate, Proposing, Working, UnderWay, SameClick
  <1>13. Unheard'
    <2> SUFFICES ASSUME NEW o \in OrderIds, Unproposed(o)
                 PROVE  Unproposed(o)'
      BY <1>5, <1>12 DEF IInv, Told, Unheard
    <2>1. \A c : CopyOf(c, o)' => c.status # "RESCHEDULE_PROPOSED"
      BY <1>10 DEF Unproposed
    <2>2. \A j \in DOMAIN click : (/\ Working(click'[j]) /\ click'[j].order = o
                                   /\ click'[j].to # "RESCHEDULE_PROPOSED")
                                  => click'[j].row.proposed = NoDate
      BY <1>9 DEF Unproposed, SameClick
    <2> QED
      BY <1>5, <1>7, <2>1, <2>2 DEF Unproposed, Working, UnderWay
  <1>14. Entities'
    <2> SUFFICES ASSUME NEW j \in DOMAIN click, Working(click'[j])
                 PROVE  Entity(click[j], j)'
      BY <1>7 DEF Entities, Working, UnderWay
    <2>1. PICK p : p = click[j]
      OBVIOUS
    <2>2. Entity(p, j) /\ p.order \in OrderIds /\ Working(p)
      BY <1>9, <2>1, ClickShape DEF IInv, Told, Entities, Working, UnderWay
    <2>3. CASE j = k
      <3>1. Entity(q, k) /\ p = q
        BY <1>1, <2>1, <2>2, <2>3
      <3>2. q.to # "PENDING" /\ q.row.status = q.to
        BY <1>4, <3>1 DEF Entity, AllowedTransition
      <3>3. row.status = "PENDING" => "status" \in v.changed
        BY <1>6, <3>2 DEF Changed, Column
      <3>4. (q.to = "RESCHEDULE_PROPOSED" /\ k \notin late) => "proposed" \in v.changed
        <4> SUFFICES ASSUME q.to = "RESCHEDULE_PROPOSED", k \notin late
                     PROVE  "proposed" \in v.changed
          OBVIOUS
        <4>1. ~AllLate(q.order)
          BY <1>1, <1>4 DEF AllLate, Proposing
        <4>2. row.proposed = NoDate
          BY <1>2, <1>4, <3>1, <4>1 DEF IInv, Told, Unheard, Unproposed, Entity
        <4>3. q.row.proposed # NoDate
          BY <3>1 DEF Entity
        <4> QED
          BY <1>6, <4>2, <4>3 DEF Changed, Column
      <3>5. (/\ q.to # "RESCHEDULE_PROPOSED" /\ "status" \notin v.changed
             /\ "proposed" \in v.changed) => Settled(q.order)
        <4> SUFFICES ASSUME q.to # "RESCHEDULE_PROPOSED", "status" \notin v.changed,
                            "proposed" \in v.changed
                     PROVE  Settled(q.order)
          OBVIOUS
        <4>1. row.status = q.to /\ row.proposed # q.row.proposed
          BY <1>6, <3>2 DEF Changed, Column
        <4>2. AllLate(q.order)
          <5> SUFFICES ASSUME ~AllLate(q.order)
                       PROVE  FALSE
            OBVIOUS
          <5>1. Unproposed(q.order)
            BY <1>4, <3>1 DEF IInv, Told, Unheard, Entity
          <5>2. row.proposed = NoDate /\ q.row.proposed = NoDate
            BY <1>1, <1>2, <1>4, <5>1 DEF Unproposed
          <5> QED
            BY <4>1, <5>2
        <4> QED
          BY <1>2, <3>2, <4>1, <4>2 DEF Settled
      <3>6. Settled(q.order) => Settled(q.order)'
        BY <1>4, <1>5, <1>12 DEF Settled
      <3>7. Entity(v, k)'
        BY <1>2, <1>5, <1>6, <3>1, <3>3, <3>4, <3>5, <3>6 DEF Entity
      <3> QED
        BY <1>7, <2>3, <3>7 DEF Entity, Settled, AllLate
    <2>4. CASE j # k
      <3>1. Settled(p.order) => Settled(p.order)'
        BY <1>5, <1>12, <2>2 DEF Settled
      <3>2. Entity(p, j)'
        BY <1>5, <2>2, <3>1 DEF Entity
      <3> QED
        BY <1>7, <2>1, <2>4, <3>2 DEF Entity, Settled, AllLate
    <2> QED
      BY <2>3, <2>4
  <1>15. Confirming'
    <2> SUFFICES ASSUME NEW j \in DOMAIN click, Working(click'[j]) \/ click'[j].phase = "saved",
                        click'[j].to = "CONFIRMED", click'[j].order \notin crossed
                 PROVE  click'[j].row.scheduled = SeenDate(click'[j])
      BY <1>5, <1>7 DEF Confirming, SeenDate, Working, UnderWay
    <2> QED
      BY <1>9 DEF IInv, Confirming, SeenDate, SameClick
  <1> QED
    BY <1>7, <1>11, <1>13, <1>14, <1>15 DEF IInv, Told

\* The row is saved, over whatever it is by now.
LEMMA IInvUpdate ==
  ASSUME IInv, NEW k \in DOMAIN click, Update(k)
  PROVE  IInv'
  <1>1. PICK q : q = click[k]
    OBVIOUS
  <1>2. PICK o : o = q.order
    OBVIOUS
  <1>3. PICK row : row = orders[o]
    OBVIOUS
  <1>4. PICK new : new = Overlay(row, q.row, q.changed)
    OBVIOUS
  <1>5. PICK v : v = Through(q, "saved", q.row)
    OBVIOUS
  <1>6. /\ q \in Request /\ q.phase \in {"sent", "abandoned"} /\ q.stage = "update" /\ Working(q)
        /\ o \in OrderIds /\ q.to \in AllowedTransition /\ q.row \in Row /\ Entity(q, k)
    BY <1>1, <1>2, ClickShape DEF Update, UnderWay, Working, IInv, Told, Entities
  <1>7. /\ orders' = [orders EXCEPT ![o] = new] /\ click' = [click EXCEPT ![k] = v]
        /\ late' = late \cup Rivals(k)
        /\ crossed' = IF k \in late THEN crossed \cup {o} ELSE crossed
        /\ UNCHANGED <<screen, spent>>
    BY <1>1, <1>2, <1>3, <1>4, <1>5 DEF Update
  <1>8. row \in Row /\ row # NoOrder /\ CopyOf(row, o)
    BY <1>2, <1>3, <1>6 DEF Entity, IInv, TypeOK, OrderTable, CopyOf
  <1>9. /\ new \in Row /\ new # NoOrder
        /\ new.status = IF "status" \in q.changed THEN q.to ELSE row.status
        /\ new.proposed = IF "proposed" \in q.changed THEN q.row.proposed ELSE row.proposed
    <2>1. q.row.status = q.to
      BY <1>6 DEF Entity
    <2>2. new \in Row
      BY <1>4, <1>6, <1>8 DEF Overlay, Row
    <2> QED
      BY <1>4, <1>8, <2>1, <2>2, NoOrderIsNoRow DEF Overlay, Row
  <1>10. /\ v \in Request \cup {Over}
         /\ \/ v.phase = "over"
            \/ /\ q.phase = "sent" /\ v.phase = "saved" /\ SameClick(q, v) /\ v.row = q.row
               /\ v.on = q.on /\ v.order = o /\ v.to = q.to /\ v.seen = q.seen
    BY <1>2, <1>5, <1>6 DEF Through, Request, Over, SameClick
  <1>11. \A p \in OrderIds : orders'[p] = IF p = o THEN new ELSE orders[p]
    BY <1>7 DEF IInv, TypeOK, OrderTable
  <1>12. late' \in SUBSET (1 .. MaxClicks) /\ crossed' \in SUBSET OrderIds /\ orders' \in OrderTable
    <2>1. click \in Seq(Request \cup {Over}) /\ Len(click) <= MaxClicks /\ Len(click) \in Nat
      BY DEF IInv, TypeOK
    <2>2. DOMAIN click \subseteq 1 .. MaxClicks
      BY <2>1, MaxClicksAssumption
    <2>3. Rivals(k) \subseteq DOMAIN click
      BY DEF Rivals
    <2> QED
      BY <1>6, <1>7, <1>9, <2>2, <2>3 DEF IInv, TypeOK, OrderTable
  <1>13. /\ TypeOK' /\ Offered' /\ RefusedOnlyIfStale' /\ Counted'
         /\ DOMAIN click' = DOMAIN click
         /\ \A j \in DOMAIN click : click'[j] = IF j = k THEN v ELSE click[j]
    BY <1>1, <1>6, <1>7, <1>10, <1>12, ServiceStep
  <1>14. ~Working(v)
    BY <1>10 DEF Working, UnderWay
  <1>15. \A p \in OrderIds : \A c :
           CopyOf(c, p)' => CopyOf(c, p) \/ (p = o /\ (c = new \/ c = q.row))
    <2> SUFFICES ASSUME NEW p \in OrderIds, NEW c, CopyOf(c, p)', ~CopyOf(c, p)
                 PROVE  p = o /\ (c = new \/ c = q.row)
      OBVIOUS
    <2>1. CASE c # NoOrder /\ c = orders'[p]
      BY <1>11, <2>1 DEF CopyOf
    <2>2. ASSUME NEW j \in DOMAIN click, click'[j].phase # "over", click'[j].order = p,
                 c = click'[j].seen \/ (~Working(click'[j]) /\ c = click'[j].row)
          PROVE  p = o /\ (c = new \/ c = q.row)
      <3>1. CASE j # k
        BY <1>13, <2>2, <3>1 DEF CopyOf
      <3>2. CASE j = k
        <4>1. click'[j] = v
          BY <1>13, <3>2
        <4>2. p = o /\ (c = q.seen \/ c = q.row)
          BY <1>10, <2>2, <4>1
        <4>3. CopyOf(q.seen, o)
          BY <1>1, <1>2, <1>6 DEF CopyOf
        <4> QED
          BY <4>2, <4>3
      <3> QED
        BY <3>1, <3>2
    <2> QED
      BY <1>7, <1>13, <2>1, <2>2 DEF CopyOf, Working, UnderWay, screen
  <1>16. new.status # "PENDING" /\ q.row.status # "PENDING" /\ q.row.status = q.to
    BY <1>2, <1>3, <1>6, <1>9 DEF Entity, AllowedTransition
  <1>17. \A p \in OrderIds : AllLate(p) => AllLate(p)'
    BY <1>7, <1>13, <1>14 DEF AllLate, Proposing, Working, UnderWay
  <1>18. q.to = "RESCHEDULE_PROPOSED" => AllLate(o)'
    <2> SUFFICES ASSUME q.to = "RESCHEDULE_PROPOSED", NEW j \in DOMAIN click,
                        Proposing(click'[j]), click'[j].order = o
                 PROVE  j \in late'
      BY <1>13 DEF AllLate, Proposing, Working, UnderWay
    <2>1. j # k
      BY <1>13, <1>14 DEF Proposing
    <2>2. j \in Rivals(k)
      BY <1>1, <1>2, <1>13, <2>1 DEF Rivals, Proposing
    <2> QED
      BY <1>7, <2>2
  <1>19. (q.to = "RESCHEDULE_PROPOSED" /\ o \notin crossed')
           => Unproposed(o) /\ "proposed" \in q.changed /\ q.row.proposed # NoDate
    <2> SUFFICES ASSUME q.to = "RESCHEDULE_PROPOSED", k \notin late
                 PROVE  Unproposed(o) /\ "proposed" \in q.changed /\ q.row.proposed # NoDate
      BY <1>7
    <2>1. ~AllLate(o)
      BY <1>1, <1>2, <1>6 DEF AllLate, Proposing
    <2>2. Unproposed(o)
      BY <1>3, <1>6, <1>8, <2>1 DEF IInv, Told, Unheard
    <2> QED
      BY <1>6, <2>2 DEF Entity
  <1>20. CopiesReal'
    <2> SUFFICES ASSUME NEW p \in OrderIds, NEW c, CopyOf(c, p)'
                 PROVE  Real(c, p)'
      BY DEF CopiesReal
    <2>1. CASE CopyOf(c, p)
      <3>1. Real(c, p)
        BY <2>1 DEF IInv, Told, CopiesReal
      <3> QED
        BY <1>9, <1>11, <1>16, <3>1 DEF Real
    <2>2. CASE p = o /\ (c = new \/ c = q.row)
      BY <1>9, <1>11, <1>16, <2>2 DEF Real
    <2> QED
      BY <1>15, <2>1, <2>2
  <1>21. OneDate'
    <2> SUFFICES ASSUME NEW p \in OrderIds, p \notin crossed', NEW b, NEW c,
                        CopyOf(b, p)', CopyOf(c, p)',
                        b.status = "RESCHEDULE_PROPOSED", c.status = "RESCHEDULE_PROPOSED"
                 PROVE  b.proposed = c.proposed /\ c.proposed # NoDate
      BY DEF OneDate
    <2>1. p \notin crossed
      BY <1>7
    <2>2. CASE p = o /\ q.to = "RESCHEDULE_PROPOSED"
      <3>1. Unproposed(o) /\ "proposed" \in q.changed /\ q.row.proposed # NoDate
        BY <1>19, <2>2
      <3>2. ~CopyOf(b, o) /\ ~CopyOf(c, o)
        BY <3>1 DEF Unproposed
      <3> QED
        BY <1>9, <1>15, <2>2, <3>1, <3>2
    <2>3. CASE p = o /\ q.to # "RESCHEDULE_PROPOSED"
      <3>1. new.status = "RESCHEDULE_PROPOSED" =>
              row.status = "RESCHEDULE_PROPOSED" /\ new.proposed = row.proposed
        <4>1. new.status = "RESCHEDULE_PROPOSED" =>
                "status" \notin q.changed /\ row.status = "RESCHEDULE_PROPOSED"
          BY <1>9, <2>3
        <4>2. ("status" \notin q.changed /\ "proposed" \in q.changed) => Settled(o)
          BY <1>2, <1>6, <2>1, <2>3 DEF Entity
        <4> QED
          BY <1>3, <1>9, <4>1, <4>2 DEF Settled
      <3>2. \E x : CopyOf(x, o) /\ x.status = "RESCHEDULE_PROPOSED" /\ x.proposed = b.proposed
        BY <1>8, <1>15, <1>16, <2>3, <3>1
      <3>3. \E x : CopyOf(x, o) /\ x.status = "RESCHEDULE_PROPOSED" /\ x.proposed = c.proposed
        BY <1>8, <1>15, <1>16, <2>3, <3>1
      <3> QED
        BY <1>6, <2>1, <2>3, <3>2, <3>3 DEF IInv, Told, OneDate
    <2>4. CASE p # o
      BY <1>15, <2>1, <2>4 DEF IInv, Told, OneDate
    <2> QED
      BY <2>2, <2>3, <2>4
  <1>22. Unheard'
    <2> SUFFICES ASSUME NEW p \in OrderIds, orders'[p] # NoOrder,
                        orders'[p].status = "PENDING" \/ ~AllLate(p)'
                 PROVE  Unproposed(p)'
      BY DEF Unheard
    <2>1. \A j \in DOMAIN click : Working(click'[j]) => j # k /\ click'[j] = click[j]
      BY <1>13, <1>14
    <2>2. Unproposed(p)
      <3>1. CASE p = o
        BY <1>3, <1>8, <1>11, <1>16, <1>17, <3>1 DEF IInv, Told, Unheard
      <3>2. CASE p # o
        BY <1>11, <1>17, <3>2 DEF IInv, Told, Unheard
      <3> QED
        BY <3>1, <3>2
    <2>3. p = o => q.to # "RESCHEDULE_PROPOSED"
      BY <1>11, <1>16, <1>18
    <2>4. p = o => new.proposed = NoDate /\ new.status # "RESCHEDULE_PROPOSED"
      <3> SUFFICES ASSUME p = o
                   PROVE  new.proposed = NoDate /\ new.status # "RESCHEDULE_PROPOSED"
        OBVIOUS
      <3>1. row.proposed = NoDate /\ row.status # "RESCHEDULE_PROPOSED"
        <4>1. \A c : CopyOf(c, o) => c.status # "RESCHEDULE_PROPOSED"
          BY <2>2 DEF Unproposed
        <4> QED
          BY <1>3, <1>8, <2>2, <4>1 DEF Unproposed
      <3>2. q.row.proposed = NoDate
        BY <1>1, <1>2, <1>6, <2>2, <2>3 DEF Unproposed
      <3> QED
        BY <1>9, <2>3, <3>1, <3>2
    <2>5. orders'[p].proposed = NoDate
      BY <1>11, <2>2, <2>4 DEF Unproposed
    <2>6. \A c : CopyOf(c, p)' => c.status # "RESCHEDULE_PROPOSED"
      BY <1>15, <1>16, <2>2, <2>3, <2>4 DEF Unproposed
    <2>7. \A j \in DOMAIN click : (/\ Working(click'[j]) /\ click'[j].order = p
                                   /\ click'[j].to # "RESCHEDULE_PROPOSED")
                                  => click'[j].row.proposed = NoDate
      BY <2>1, <2>2 DEF Unproposed
    <2> QED
      BY <1>13, <2>5, <2>6, <2>7 DEF Unproposed, Working, UnderWay
  <1>23. Entities'
    <2> SUFFICES ASSUME NEW j \in DOMAIN click, Working(click'[j])
                 PROVE  Entity(click[j], j)'
      BY <1>13 DEF Entities, Working, UnderWay
    <2>1. PICK p : p = click[j]
      OBVIOUS
    <2>2. j # k /\ click'[j] = p
      BY <1>13, <1>14, <2>1
    <2>3. Working(p)
      BY <2>2
    <2>4. Entity(p, j) /\ p.order \in OrderIds
      BY <2>1, <2>3, ClickShape DEF IInv, Told, Entities, Working, UnderWay
    <2>5. p.order \notin crossed' => p.order \notin crossed
      BY <1>7
    <2>6. p.order \notin crossed' /\ Settled(p.order) => Settled(p.order)'
      <3> SUFFICES ASSUME p.order \notin crossed', Settled(p.order)
                   PROVE  Settled(p.order)'
        OBVIOUS
      <3>1. AllLate(p.order)'
        BY <1>17, <2>4 DEF Settled
      <3>2. CASE p.order = o
        <4>1. q.to # "RESCHEDULE_PROPOSED"
          <5>1. AllLate(o) /\ k \notin late
            BY <1>7, <3>2 DEF Settled
          <5> QED
            BY <1>1, <1>2, <1>6, <5>1 DEF AllLate, Proposing
        <4>2. row.status # "RESCHEDULE_PROPOSED"
          BY <1>3, <3>2 DEF Settled
        <4>3. orders'[p.order] = new
          BY <1>11, <2>4, <3>2
        <4> QED
          BY <1>9, <1>16, <3>1, <4>1, <4>2, <4>3 DEF Settled
      <3>3. CASE p.order # o
        <4>1. orders'[p.order] = orders[p.order]
          BY <1>11, <2>4, <3>3
        <4> QED
          BY <3>1, <4>1 DEF Settled
      <3> QED
        BY <3>2, <3>3
    <2>7. /\ orders'[p.order] # NoOrder
          /\ orders'[p.order].status = "PENDING" => orders[p.order].status = "PENDING"
      BY <1>9, <1>11, <1>16, <2>4 DEF Entity
    <2>8. j \notin late' => j \notin late
      BY <1>7
    <2>9. Entity(p, j)'
      BY <2>4, <2>5, <2>6, <2>7, <2>8 DEF Entity
    <2> QED
      BY <2>2, <2>9 DEF Entity, Settled, AllLate
  <1>24. Confirming'
    <2> SUFFICES ASSUME NEW j \in DOMAIN click, Working(click'[j]) \/ click'[j].phase = "saved",
                        click'[j].to = "CONFIRMED", click'[j].order \notin crossed'
                 PROVE  click'[j].row.scheduled = SeenDate(click'[j])
      BY <1>13 DEF Confirming, SeenDate, Working, UnderWay
    <2>0. click'[j].order \notin crossed
      BY <1>7
    <2>1. CASE j = k
      <3>1. /\ click'[j] = v /\ v.phase = "saved" /\ v.order = o /\ v.to = q.to /\ v.row = q.row
            /\ v.seen = q.seen
        BY <1>10, <1>13, <1>14, <2>1
      <3>2. q.row.scheduled = SeenDate(q)
        BY <1>1, <1>2, <1>6, <2>0, <3>1 DEF IInv, Confirming
      <3> QED
        BY <3>1, <3>2 DEF SeenDate
    <2>2. CASE j # k
      BY <1>13, <2>0, <2>2 DEF IInv, Confirming
    <2> QED
      BY <2>1, <2>2
  <1> QED
    BY <1>13, <1>20, <1>21, <1>22, <1>23, <1>24 DEF IInv, Told

-----------------------------------------------------------------------------
LEMMA IInvStep ==
  ASSUME IInv, [Next]_vars
  PROVE  IInv'
  <1>1. CASE UNCHANGED vars
    BY <1>1, IInvAside DEF vars, IInv, TypeOK
  <1>2. ASSUME \/ \E o \in OrderIds : OpenPicker(o)
               \/ ClosePicker
               \/ \E s \in Screens : Expire(s) \/ SignInAgain(s)
        PROVE  IInv'
    <2>1. /\ UNCHANGED <<orders, shown, asked, click, busy, payments, forgot, history>>
          /\ picker' \in OrderIds \cup {NoOrder} /\ spent' \in SUBSET Screens
      BY <1>2 DEF OpenPicker, ClosePicker, Expire, SignInAgain, screen, IInv, TypeOK
    <2> QED
      BY <2>1, IInvAside
  <1>3. CASE Next
    BY <1>2, <1>3, IInvBook, IInvFetch, IInvArrive, IInvPress, IInvDeny, IInvLoad, IInvSelect,
       IInvUpdate, IInvAnswer, IInvFail DEF Next, Settle, Handle
  <1> QED
    BY <1>1, <1>3

LEMMA Invariance == Spec => []IInv
  BY IInvInit, IInvStep, PTL DEF Spec

\* The screens and their requests are well typed.
THEOREM TypeCorrect == Spec => []TypeOK
  BY Invariance, PTL DEF IInv

\* However old the copy it acts on, and whatever else the service is handling,
\* a confirmation that goes through fixes the date that was on the card, but on
\* an order on which a late proposal was saved over another (updateStatus's
\* findOne, SELECT and UPDATE, under the retries of two screens).
THEOREM ConfirmsTheDateSeenHolds == Spec => []ConfirmsTheDateSeen
  <1>1. IInv => ConfirmsTheDateSeen
    BY DEF IInv, Confirming, ConfirmsTheDateSeen, SeenDate
  <1> QED
    BY <1>1, Invariance, PTL

\* What the screens offer, the service refuses only to an old copy, or to a
\* picker left open (handleStatus on either screen, the checks of updateStatus).
THEOREM RefusedOnlyIfStaleHolds == Spec => []RefusedOnlyIfStale
  BY Invariance, PTL DEF IInv

\* A screen that has not lost count of its requests has one on an order
\* (actionLoading).
THEOREM OneRequestPerOrderHolds == Spec => []OneRequestPerOrder
  <1>1. ASSUME IInv
        PROVE  OneRequestPerOrder
    <2> SUFFICES ASSUME NEW j \in DOMAIN click, NEW k \in DOMAIN click, j # k,
                        {click[j].phase, click[k].phase} \subseteq {"sent", "abandoned"},
                        click[j].on = click[k].on, click[j].order = click[k].order,
                        ~forgot[click[k].on]
                 PROVE  FALSE
      BY DEF OneRequestPerOrder
    <2>1. click[k].on \in Screens
      BY <1>1, ClickShape DEF IInv
    <2>2. click[j].phase = "sent" /\ click[k].phase = "sent"
      BY <1>1, <2>1 DEF IInv, Counted
    <2> QED
      BY <1>1, <2>1, <2>2 DEF IInv, Counted, Pending
  <1> QED
    BY <1>1, Invariance, PTL

-----------------------------------------------------------------------------
(* What the screens show at all times: the safety half of ScreensSettle.   *)

\* A screen is behind the table, in dates as in statuses: of an order that is
\* new it shows nothing but the new order, so that a step is shown only when it
\* was saved; and two screens that show a proposal show the same one, the one in
\* the table if it has one, but for proposals that cross (updateOrderStatus's
\* answer and fetchOrders' race for the list, setOrders either way).
ScreensAgree ==
  \A s \in Screens, o \in OrderIds : shown[s][o] # NoOrder =>
    /\ orders[o] # NoOrder
    /\ orders[o].status = "PENDING" => shown[s][o] = orders[o]
    /\ (o \notin crossed /\ shown[s][o].status = "RESCHEDULE_PROPOSED") =>
         /\ orders[o].status = "RESCHEDULE_PROPOSED" =>
              orders[o].proposed = shown[s][o].proposed
         /\ \A t \in Screens :
              (shown[t][o] # NoOrder /\ shown[t][o].status = "RESCHEDULE_PROPOSED") =>
                shown[t][o].proposed = shown[s][o].proposed

\* The screens agree with the table in this, whatever requests, answers and
\* fetches overtake one another.
THEOREM ScreensAgreeHolds == Spec => []ScreensAgree
  <1>1. ASSUME IInv
        PROVE  ScreensAgree
    <2> SUFFICES ASSUME NEW s \in Screens, NEW o \in OrderIds, shown[s][o] # NoOrder
                 PROVE  /\ orders[o] # NoOrder
                        /\ orders[o].status = "PENDING" => shown[s][o] = orders[o]
                        /\ (o \notin crossed /\ shown[s][o].status = "RESCHEDULE_PROPOSED") =>
                             /\ orders[o].status = "RESCHEDULE_PROPOSED" =>
                                  orders[o].proposed = shown[s][o].proposed
                             /\ \A t \in Screens :
                                  (/\ shown[t][o] # NoOrder
                                   /\ shown[t][o].status = "RESCHEDULE_PROPOSED") =>
                                    shown[t][o].proposed = shown[s][o].proposed
      BY DEF ScreensAgree
    <2>1. CopyOf(shown[s][o], o)
      BY DEF CopyOf
    <2>2. Real(shown[s][o], o)
      BY <1>1, <2>1 DEF IInv, Told, CopiesReal
    <2>3. CopyOf(orders[o], o)
      BY <2>2 DEF CopyOf, Real
    <2>4. orders[o].status = "PENDING" => shown[s][o] = orders[o]
      <3> SUFFICES ASSUME orders[o].status = "PENDING"
                   PROVE  shown[s][o] = orders[o]
        OBVIOUS
      <3>1. Real(orders[o], o)
        BY <1>1, <2>3 DEF IInv, Told, CopiesReal
      <3>2. shown[s][o] \in Row /\ orders[o] \in Row
        BY <1>1, <2>2 DEF Real, IInv, TypeOK, OrderTable
      <3>3. /\ shown[s][o].status = "PENDING"
            /\ shown[s][o].scheduled = AskedDate /\ shown[s][o].proposed = NoDate
            /\ orders[o].scheduled = AskedDate /\ orders[o].proposed = NoDate
        BY <2>2, <3>1 DEF Real
      <3> QED
        BY <3>2, <3>3 DEF Row
    <2>5. ASSUME NEW t \in Screens, shown[t][o] # NoOrder
          PROVE  CopyOf(shown[t][o], o)
      BY <2>5 DEF CopyOf
    <2> QED
      BY <1>1, <2>1, <2>2, <2>3, <2>4, <2>5 DEF Real, IInv, Told, OneDate
  <1> QED
    BY <1>1, Invariance, PTL
=============================================================================
