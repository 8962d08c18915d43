----------------------------- MODULE Directory -----------------------------
(***************************************************************************)
(* The services on offer: the rows of the catalog service, their demo seed *)
(* at start-up, and the client's Catalog screen with the BookingModal that *)
(* turns a row it shows into an order.                                     *)
(*                                                                         *)
(* A write reads the row, checks the actor and edits its copy, and saves   *)
(* it as TypeORM does: SELECT again, then UPDATE the columns that differ.  *)
(* Several replicas run; a row has no version and nothing locks it.        *)
(*                                                                         *)
(* Abstracted: name, description, category, image, which behave as price   *)
(* does; the cache, which is CatalogCache: Browse reads the table.  The    *)
(* actor is the x-actor-id header, an input that provider-app never sends. *)
(***************************************************************************)
EXTENDS Naturals, Sequences, FiniteSets

CONSTANTS
  ServiceIds,   \* the uuids a service may get
  Providers,    \* the users who publish services
  Unknown,      \* the actor of a request without the header
  Prices,
  NoRow,        \* a uuid not drawn yet, or nothing chosen
  Replicas,     \* of the catalog service
  MaxRequests,  \* how many writes and orders are ever sent, together
  MaxRestarts   \* how often a replica stops

ASSUME BoundsAssumption == {MaxRequests, MaxRestarts} \subseteq Nat
ASSUME UnknownAssumption == Unknown \notin Providers

Row == [owner: Providers, price: Prices, active: BOOLEAN]

ASSUME NoRowAssumption == NoRow \notin Row

\* What update's dto may hold; remove's edit, active = FALSE, is one of them.
Body == [price: Prices] \cup [active: BOOLEAN] \cup [price: Prices, active: BOOLEAN]

VARIABLES
  services,   \* the services table
  write,      \* the PATCH and DELETE requests under way or over
  replica,    \* where each replica's start stands
  restarts,
  said,       \* history: what each row's providers asked for, as <<id, actor, body>>
  seeds,      \* history: times the demo rows were saved
  together,   \* history: a replica counted while another was about to seed
  listed,     \* Catalog: the services shown
  modal,      \* BookingModal
  send,       \* the POST /orders requests, in the order of their sending
  placed,     \* the orders saved, each by the visit to the modal it came from
  failed      \* history: the visits that were told their order was not sent

table  == <<services, write, said>>
start  == <<replica, restarts, seeds, together>>
booking == <<listed, modal, send, placed, failed>>
vars   == <<table, start, booking>>

Over == [phase |-> "over"]

Writing == [phase: {"select", "update"}, id: ServiceIds, body: Body, entity: Row,
            changed: SUBSET {"owner", "price", "active"}]

\* CreateOrderDto, with one item; the date and the notes are left out.
Sending == [phase: {"sent", "abandoned", "saved"}, id: ServiceIds, price: Prices, visit: Nat]

Closed == [phase |-> "closed", id |-> NoRow, visit |-> 0]

Init ==
  /\ services = [i \in ServiceIds |-> NoRow]
  /\ write    = <<>>
  /\ replica  = [r \in Replicas |-> "off"]
  /\ restarts = 0
  /\ said     = {}
  /\ seeds    = 0
  /\ together = FALSE
  /\ listed   = [i \in ServiceIds |-> NoRow]
  /\ modal    = Closed
  /\ send     = <<>>
  /\ placed   = <<>>
  /\ failed   = {}

-----------------------------------------------------------------------------
(* WHO: a replica that starts (onModuleInit).                              *)

\* Slip: only the services still on offer are counted.
RowsOnOffer == {i \in ServiceIds : services[i] # NoRow /\ services[i].active}

\* repo.count(): remove deletes no row.
RowsCounted == {i \in ServiceIds : services[i] # NoRow}

Count(r) ==
  /\ replica[r] = "off"
  /\ replica' = [replica EXCEPT ![r] = IF RowsCounted = {} THEN "seeding" ELSE "up"]
  /\ together' = (together \/ (RowsCounted = {} /\ "seeding" \in {replica[q] : q \in Replicas}))
  /\ UNCHANGED <<table, restarts, seeds, booking>>

\* DEMO_SERVICES, of the demo providers, on offer as every new row is.
DemoServices == {row \in Row : row.active}

\* One row for all of them, under a uuid of its own.
Seed(r, i, row) ==
  /\ replica[r] = "seeding"
  /\ services[i] = NoRow
  /\ services' = [services EXCEPT ![i] = row]
  /\ said' = said \cup {<<i, row.owner, [price |-> row.price, active |-> TRUE]>>}
  /\ replica' = [replica EXCEPT ![r] = "up"]
  /\ seeds' = seeds + 1
  /\ UNCHANGED <<write, restarts, together, booking>>

\* A write the replica was at is lost: see Abort.
Restart(r) ==
  /\ restarts < MaxRestarts
  /\ replica[r] # "off"
  /\ replica' = [replica EXCEPT ![r] = "off"]
  /\ restarts' = restarts + 1
  /\ UNCHANGED <<table, seeds, together, booking>>

Serving == \E r \in Replicas : replica[r] = "up"

-----------------------------------------------------------------------------
(* WHO: whoever calls the catalog service.                                 *)

\* create, for an actor the header names: 400 without it.
Create(i, actor, price) ==
  /\ Serving
  /\ Len(write) + Len(send) < MaxRequests
  /\ actor # Unknown
  /\ services[i] = NoRow
  /\ services' = [services EXCEPT ![i] = [owner |-> actor, price |-> price, active |-> TRUE]]
  /\ said' = said \cup {<<i, actor, [price |-> price, active |-> TRUE]>>}
  /\ write' = Append(write, Over)
  /\ UNCHANGED <<start, booking>>

\* Slip: update has lost its assertOwnership.
OwnsAny(row, actor) == actor # Unknown

\* assertOwnership
Owns(row, actor) == row.owner = actor

\* Slips: the dto itself is saved; an update puts the service back on offer.
EditedToBody(row, body) == body
EditedOnOffer(row, body) ==
  [c \in DOMAIN row |-> IF c \in DOMAIN body THEN body[c]
                        ELSE IF c = "active" THEN TRUE ELSE row[c]]

\* Object.assign(service, dto)
Edited(row, body) == [c \in DOMAIN row |-> IF c \in DOMAIN body THEN body[c] ELSE row[c]]

\* update and remove up to their save: 404, 403, and the edit of the copy.
Load(i, actor, body) ==
  /\ Serving
  /\ Len(write) + Len(send) < MaxRequests
  /\ services[i] # NoRow
  /\ Owns(services[i], actor)
  /\ write' = Append(write, [phase |-> "select", id |-> i, body |-> body,
                             entity |-> Edited(services[i], body), changed |-> {}])
  /\ said' = said \cup {<<i, actor, body>>}
  /\ UNCHANGED <<services, start, booking>>

\* repo.save: the columns in which the copy differs from the row as it is now.
SelectRow(w) ==
  /\ write[w].phase = "select"
  /\ write' = [write EXCEPT ![w].phase = "update",
       ![w].changed = {c \in {"owner", "price", "active"} :
                         write[w].entity[c] # services[write[w].id][c]}]
  /\ UNCHANGED <<services, said, start, booking>>

\* repo.save: those columns are written, whatever the row is by now.
UpdateRow(w) ==
  LET q == write[w]
  IN  /\ q.phase = "update"
      /\ services' = [services EXCEPT ![q.id] =
           [c \in DOMAIN @ |-> IF c \in q.changed THEN q.entity[c] ELSE @[c]]]
      /\ write' = [write EXCEPT ![w] = Over]
      /\ UNCHANGED <<said, start, booking>>

\* The replica stops, or a statement throws.
Abort(w) ==
  /\ write[w].phase \in {"select", "update"}
  /\ write' = [write EXCEPT ![w] = Over]
  /\ UNCHANGED <<services, said, start, booking>>

-----------------------------------------------------------------------------
(* WHO: the client, in Catalog and BookingModal.                           *)

\* Catalog mounts: getAllServices, once.  A failure leaves it empty.
Browse ==
  /\ modal = Closed
  /\ Serving
  /\ listed' = [i \in ServiceIds |->
       IF services[i] # NoRow /\ services[i].active THEN services[i] ELSE NoRow]
  /\ UNCHANGED <<table, start, modal, send, placed, failed>>

\* setSelected(service): a new modal, with an empty form.
Choose(i) ==
  /\ modal.phase = "closed"
  /\ listed[i] # NoRow
  /\ modal' = [phase |-> "form", id |-> i, visit |-> Len(send) + 1]
  /\ UNCHANGED <<table, start, listed, send, placed, failed>>

\* Slip: the button stays enabled while the order is being sent.
MaySubmitAgain == modal.phase \in {"form", "failed", "sending"}

\* The button is disabled while submitting; an error invites another try.
MaySubmit == modal.phase \in {"form", "failed"}

\* handleSubmit: nothing in the request tells a second try from a new order.
Submit ==
  /\ MaySubmit
  /\ Len(write) + Len(send) < MaxRequests
  /\ send' = Append(send, [phase |-> "sent", id |-> modal.id,
                           price |-> listed[modal.id].price, visit |-> modal.visit])
  /\ modal' = [modal EXCEPT !.phase = "sending"]
  /\ UNCHANGED <<table, start, listed, placed, failed>>

\* createOrder takes the price from the request and asks the catalog nothing.
Place(n) ==
  /\ send[n].phase \in {"sent", "abandoned"}
  /\ placed' = Append(placed, [id |-> send[n].id, price |-> send[n].price,
                               visit |-> send[n].visit])
  /\ send' = [send EXCEPT ![n] =
       IF @.phase = "sent" THEN [@ EXCEPT !.phase = "saved"] ELSE Over]
  /\ UNCHANGED <<table, start, listed, modal, failed>>

\* The modal the answer is for, if it is still there.
Awaiting(n) == modal.phase = "sending" /\ modal.visit = send[n].visit

Booked(n) ==
  /\ send[n].phase = "saved"
  /\ send' = [send EXCEPT ![n] = Over]
  /\ modal' = IF Awaiting(n) THEN [modal EXCEPT !.phase = "booked"] ELSE modal
  /\ UNCHANGED <<table, start, listed, placed, failed>>

\* A lost answer, or ten seconds without one: the order may be saved already,
\* or be saved yet.
SendFails(n) ==
  /\ send[n].phase \in {"sent", "saved"}
  /\ send' = [send EXCEPT ![n] =
       IF @.phase = "sent" THEN [@ EXCEPT !.phase = "abandoned"] ELSE Over]
  /\ IF Awaiting(n) THEN /\ modal' = [modal EXCEPT !.phase = "failed"]
                         /\ failed' = failed \cup {send[n].visit}
                    ELSE UNCHANGED <<modal, failed>>
  /\ UNCHANGED <<table, start, listed, placed>>

\* onClose, or onBooked; a request under way goes on.
Close ==
  /\ modal # Closed
  /\ modal' = Closed
  /\ UNCHANGED <<table, start, listed, send, placed, failed>>

Next ==
  \/ \E r \in Replicas : Count(r) \/ Restart(r)
  \/ \E r \in Replicas, i \in ServiceIds, row \in DemoServices : Seed(r, i, row)
  \/ \E i \in ServiceIds, a \in Providers \cup {Unknown}, p \in Prices : Create(i, a, p)
  \/ \E i \in ServiceIds, a \in Providers \cup {Unknown}, b \in Body : Load(i, a, b)
  \/ \E w \in DOMAIN write : SelectRow(w) \/ UpdateRow(w) \/ Abort(w)
  \/ Browse
  \/ \E i \in ServiceIds : Choose(i)
  \/ Submit
  \/ \E n \in DOMAIN send : Place(n) \/ Booked(n) \/ SendFails(n)
  \/ Close

Spec == Init /\ [][Next]_vars

-----------------------------------------------------------------------------
TypeOK ==
  /\ services \in [ServiceIds -> Row \cup {NoRow}]
  /\ write    \in Seq(Writing \cup {Over})
  /\ replica  \in [Replicas -> {"off", "seeding", "up"}]
  /\ said     \in SUBSET (ServiceIds \X Providers \X Body)
  /\ listed   \in [ServiceIds -> Row \cup {NoRow}]
  /\ modal.phase \in {"closed", "form", "sending", "failed", "booked"}
  /\ modal.phase # "closed" => modal.id \in ServiceIds
  /\ send     \in Seq(Sending \cup {Over})
  /\ placed   \in Seq([id: ServiceIds, price: Prices, visit: Nat])
  /\ seeds + restarts \in Nat /\ together \in BOOLEAN /\ failed \in SUBSET Nat

\* The columns of a service are always ones its own provider asked for, even
\* when saves of copies overlap: nobody else sets its price, hides it or puts
\* it on offer (assertOwnership runs on a copy of the row).
AsItsProviderSaid ==
  \A i \in ServiceIds : services[i] # NoRow =>
    \A c \in {"price", "active"} :
      \E s \in said : /\ s[1] = i /\ s[2] = services[i].owner
                      /\ c \in DOMAIN s[3] /\ s[3][c] = services[i][c]

Quiet(i) == \A w \in DOMAIN write : write[w].phase # "over" => write[w].id # i

\* A service taken off the catalog, with no write on it still under way, comes
\* back only by a request that asks for it by name: a PATCH of its price alone
\* does not bring it back (one that overlaps the DELETE does).
RemovedStays ==
  [][\A i \in ServiceIds :
       ( /\ services[i] # NoRow /\ ~services[i].active /\ Quiet(i) )
         => /\ ~services'[i].active
            /\ \A w \in DOMAIN write' :
                 (write'[w].phase # "over" /\ write'[w].id = i /\ "active" \notin DOMAIN write'[w].body)
                   => ~write'[w].entity.active]_vars

\* The demo services appear again only if two replicas started on the empty
\* table together; never because a provider took every service off.
SeededTwiceOnlyTogether == seeds > 1 => together

\* A visit to the booking form makes a second order only after the client was
\* told that the first was not sent.
SecondOrderOnlyAfterError ==
  \A v \in 1..MaxRequests :
    Cardinality({n \in DOMAIN placed : placed[n].visit = v}) > 1 => v \in failed
=============================================================================
