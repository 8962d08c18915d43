--------------------------- MODULE OrderLifecycle ---------------------------
(***************************************************************************)
(* What the booking service promises about one order: the state machine of *)
(* TRANSITIONS, PROVIDER_ONLY and CLIENT_ONLY taken one indivisible step   *)
(* at a time, each by a person entitled to it.  No request is ever half    *)
(* done, so COMPLETED and CANCELLED are final and a date under discussion  *)
(* exists exactly while a proposal is open (or was cancelled while open).  *)
(***************************************************************************)
CONSTANTS OrderIds, Users, Dates, NoDate, NoRow

VARIABLE orders

\* A person entitled to the step takes an order from one status to another.
Moves(o, actor, from, to) ==
  /\ orders[o] # NoRow
  /\ orders[o].status = from
  /\ actor \in {orders[o].client, orders[o].provider}
  /\ orders' = [orders EXCEPT ![o].status = to]

Create(o, client, provider, date) ==
  /\ orders[o] = NoRow
  /\ orders' = [orders EXCEPT ![o] =
       [client |-> client, provider |-> provider, status |-> "PENDING",
        scheduled |-> date, proposed |-> NoDate]]

Confirm(o, actor) ==
  Moves(o, actor, "PENDING", "CONFIRMED") /\ actor = orders[o].provider

Propose(o, actor, date) ==
  /\ orders[o] # NoRow
  /\ orders[o].status = "PENDING"
  /\ actor = orders[o].provider
  /\ orders' = [orders EXCEPT ![o].status = "RESCHEDULE_PROPOSED",
                              ![o].proposed = date]

Accept(o, actor) ==
  /\ orders[o] # NoRow
  /\ orders[o].status = "RESCHEDULE_PROPOSED"
  /\ actor = orders[o].client
  /\ orders' = [orders EXCEPT ![o].status = "CONFIRMED",
                              ![o].scheduled = orders[o].proposed,
                              ![o].proposed = NoDate]

Start(o, actor) ==
  Moves(o, actor, "CONFIRMED", "IN_PROGRESS") /\ actor = orders[o].provider

Complete(o, actor) ==
  Moves(o, actor, "IN_PROGRESS", "COMPLETED") /\ actor = orders[o].provider

Cancel(o, actor) ==
  \E from \in {"PENDING", "RESCHEDULE_PROPOSED", "CONFIRMED", "IN_PROGRESS"} :
    Moves(o, actor, from, "CANCELLED")

Init == orders = [o \in OrderIds |-> NoRow]

Next ==
  \E o \in OrderIds, u \in Users :
    \/ \E p \in Users, d \in Dates : Create(o, u, p, d)
    \/ Confirm(o, u)
    \/ \E d \in Dates : Propose(o, u, d)
    \/ Accept(o, u)
    \/ Start(o, u)
    \/ Complete(o, u)
    \/ Cancel(o, u)

Spec == Init /\ [][Next]_orders
=============================================================================
