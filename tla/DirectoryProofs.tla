-------------------------- MODULE DirectoryProofs --------------------------
(***************************************************************************)
(* Theorems of Directory, for any number of services, providers, replicas, *)
(* requests and restarts.                                                  *)
(*                                                                         *)
(* A write holds a copy of its row between two statements.  That it can do *)
(* no harm but bring an old value back rests on two facts: a row keeps its *)
(* owner for good, and every value a copy holds was asked for by that      *)
(* owner (Backed).                                                         *)
(***************************************************************************)
EXTENDS Directory, FiniteSetTheorems, TLAPS

Column == {"owner", "price", "active"}

\* Someone under the name of the owner asked for value v of column c.
Backed(i, owner, c, v) ==
  \E s \in said : s[1] = i /\ s[2] = owner /\ c \in DOMAIN s[3] /\ s[3][c] = v

RowBacked(i, row) ==
  \A c \in {"price", "active"} : Backed(i, row.owner, c, row[c])

RowsBacked == \A i \in ServiceIds : services[i] # NoRow => RowBacked(i, services[i])

CopiesBacked ==
  \A w \in DOMAIN write : write[w].phase # "over" =>
    /\ services[write[w].id] # NoRow
    /\ write[w].entity.owner = services[write[w].id].owner
    /\ RowBacked(write[w].id, write[w].entity)

\* Replicas that did not start together seed once, and one at a time.
OneSeeds ==
  ~together =>
    /\ \A r, q \in Replicas : replica[r] = "seeding" /\ replica[q] = "seeding" => r = q
    /\ \A r \in Replicas : replica[r] = "seeding" => seeds = 0
    /\ seeds <= 1
    /\ seeds > 0 => RowsCounted # {}

Coming(n) == n \in DOMAIN send /\ send[n].phase \in {"sent", "abandoned"}

\* A visit that was told of no failure has one order, on its way or saved, and
\* none before it is sent; a new visit has a number of its own.
OnePerVisit ==
  /\ \A m, n \in DOMAIN send :
       Coming(m) /\ Coming(n) /\ send[m].visit = send[n].visit /\ m # n => send[m].visit \in failed
  /\ \A m \in DOMAIN send, n \in DOMAIN placed :
       Coming(m) /\ send[m].visit = placed[n].visit => send[m].visit \in failed
  /\ \A m, n \in DOMAIN placed :
       placed[m].visit = placed[n].visit /\ m # n => placed[m].visit \in failed
  /\ modal.phase = "form" => /\ \A n \in DOMAIN send : Coming(n) => send[n].visit # modal.visit
                             /\ \A n \in DOMAIN placed : placed[n].visit # modal.visit
  /\ modal.phase = "failed" => modal.visit \in failed
  /\ modal.phase # "closed" => modal.visit <= Len(send) + 1
  /\ \A n \in DOMAIN send : Coming(n) => send[n].visit <= Len(send)
  /\ \A n \in DOMAIN placed : placed[n].visit <= Len(send)

Modal == [phase: {"closed", "form", "sending", "failed", "booked"},
          id: ServiceIds \cup {NoRow}, visit: Nat]

TypeInv ==
  /\ TypeOK
  /\ modal \in Modal /\ seeds \in Nat /\ restarts \in Nat
  /\ modal.phase # "closed" => listed[modal.id] # NoRow

IInv == TypeInv /\ RowsBacked /\ CopiesBacked /\ OneSeeds /\ OnePerVisit

-----------------------------------------------------------------------------
(* Shapes.                                                                 *)

LEMMA WriteShape ==
  ASSUME TypeOK, NEW w \in DOMAIN write, write[w].phase # "over"
  PROVE  /\ write[w] \in Writing /\ write[w].id \in ServiceIds /\ write[w].entity \in Row
         /\ write[w].changed \subseteq Column
  <1>1. write[w] \in Writing \cup {Over}
    BY DEF TypeOK
  <1>2. Over.phase = "over"
    BY DEF Over
  <1> QED
    BY <1>1, <1>2 DEF Writing, Column

LEMMA SendShape ==
  ASSUME TypeOK, NEW n \in DOMAIN send, send[n].phase # "over"
  PROVE  /\ send[n] \in Sending /\ send[n].id \in ServiceIds /\ send[n].price \in Prices
         /\ send[n].visit \in Nat
  <1>1. send[n] \in Sending \cup {Over}
    BY DEF TypeOK
  <1>2. Over.phase = "over"
    BY DEF Over
  <1> QED
    BY <1>1, <1>2 DEF Sending

LEMMA PlacedShape ==
  ASSUME TypeOK, NEW n \in DOMAIN placed
  PROVE  placed[n].visit \in Nat
  <1> DEFINE Order == [id: ServiceIds, price: Prices, visit: Nat]
  <1>1. placed \in Seq(Order)
    BY DEF TypeOK
  <1> HIDE DEF Order
  <1>2. placed[n] \in Order
    BY <1>1
  <1> QED
    BY <1>2 DEF Order

\* A row is a function of its columns.
LEMMA RowShape ==
  ASSUME NEW row \in Row
  PROVE  /\ DOMAIN row = Column /\ row = [c \in Column |-> row[c]]
         /\ row["owner"] = row.owner /\ row["price"] = row.price /\ row["active"] = row.active
         /\ row.owner \in Providers /\ row.price \in Prices /\ row.active \in BOOLEAN
  BY DEF Row, Column

LEMMA MixShape ==
  ASSUME NEW f, f = [c \in Column |-> f[c]],
         f["owner"] \in Providers, f["price"] \in Prices, f["active"] \in BOOLEAN
  PROVE  f \in Row
  <1>1. f = [owner |-> f["owner"], price |-> f["price"], active |-> f["active"]]
    BY DEF Column
  <1> QED
    BY <1>1 DEF Row

LEMMA EditedShape ==
  ASSUME NEW row \in Row, NEW body \in Body
  PROVE  /\ Edited(row, body) \in Row /\ Edited(row, body).owner = row.owner
         /\ \A c \in {"price", "active"} :
              Edited(row, body)[c] = IF c \in DOMAIN body THEN body[c] ELSE row[c]
  <1> DEFINE f == [c \in Column |-> IF c \in DOMAIN body THEN body[c] ELSE row[c]]
  <1>1. Edited(row, body) = f
    BY RowShape DEF Edited
  <1>2. /\ "owner" \notin DOMAIN body
        /\ "price" \in DOMAIN body => body["price"] \in Prices
        /\ "active" \in DOMAIN body => body["active"] \in BOOLEAN
    BY DEF Body
  <1>3. f = [c \in Column |-> f[c]]
    OBVIOUS
  <1>4. f["owner"] = row.owner /\ f["price"] \in Prices /\ f["active"] \in BOOLEAN
    BY <1>2, RowShape DEF Column
  <1>5. f \in Row
    <2> HIDE DEF f
    <2> QED
      BY <1>3, <1>4, RowShape, MixShape
  <1>6. \A c \in {"price", "active"} : f[c] = IF c \in DOMAIN body THEN body[c] ELSE row[c]
    BY DEF Column
  <1>7. f.owner = f["owner"]
    BY <1>5, RowShape
  <1> QED
    BY <1>1, <1>4, <1>5, <1>6, <1>7

\* What UpdateRow makes of a row.
Overlaid(row, entity, changed) ==
  [c \in DOMAIN row |-> IF c \in changed THEN entity[c] ELSE row[c]]

LEMMA OverlaidShape ==
  ASSUME NEW row \in Row, NEW entity \in Row, NEW changed
  PROVE  /\ Overlaid(row, entity, changed) \in Row
         /\ \A c \in Column : \/ Overlaid(row, entity, changed)[c] = entity[c]
                              \/ Overlaid(row, entity, changed)[c] = row[c]
  <1> DEFINE f == [c \in Column |-> IF c \in changed THEN entity[c] ELSE row[c]]
  <1>1. Overlaid(row, entity, changed) = f
    BY RowShape DEF Overlaid
  <1>2. f = [c \in Column |-> f[c]] /\ \A c \in Column : f[c] = entity[c] \/ f[c] = row[c]
    OBVIOUS
  <1>3. f["owner"] \in Providers /\ f["price"] \in Prices /\ f["active"] \in BOOLEAN
    BY RowShape DEF Column
  <1> HIDE DEF f
  <1> QED
    BY <1>1, <1>2, <1>3, MixShape

\* The row a provider, or the seed, starts with.
LEMMA NewRow ==
  ASSUME NEW p \in Providers, NEW x \in Prices, NEW b \in BOOLEAN
  PROVE  /\ [owner |-> p, price |-> x, active |-> b] \in Row
         /\ [price |-> x, active |-> b] \in Body
  BY DEF Row, Body

LEMMA Appended ==
  ASSUME NEW S, NEW s \in Seq(S), NEW v \in S
  PROVE  /\ Append(s, v) \in Seq(S) /\ Len(Append(s, v)) = Len(s) + 1 /\ Len(s) \in Nat
         /\ DOMAIN s = 1..Len(s)
         /\ DOMAIN Append(s, v) = DOMAIN s \cup {Len(s) + 1} /\ Len(s) + 1 \notin DOMAIN s
         /\ \A n \in DOMAIN s : Append(s, v)[n] = s[n]
         /\ Append(s, v)[Len(s) + 1] = v
  OBVIOUS

LEMMA Replaced ==
  ASSUME NEW S, NEW s \in Seq(S), NEW k \in DOMAIN s, NEW v \in S,
         NEW t, t = [s EXCEPT ![k] = v]
  PROVE  /\ t \in Seq(S) /\ DOMAIN t = DOMAIN s /\ Len(t) = Len(s)
         /\ \A n \in DOMAIN s : t[n] = IF n = k THEN v ELSE s[n]
  OBVIOUS

LEMMA IInvInit ==
  ASSUME Init
  PROVE  IInv
  <1>1. TypeInv
    <2>1. modal \in Modal /\ modal.phase = "closed"
      BY DEF Init, Modal, Closed
    <2>2. write \in Seq(Writing \cup {Over}) /\ send \in Seq(Sending \cup {Over})
      BY DEF Init
    <2>3. placed \in Seq([id: ServiceIds, price: Prices, visit: Nat])
      BY DEF Init
    <2>4. /\ services \in [ServiceIds -> Row \cup {NoRow}]
          /\ listed \in [ServiceIds -> Row \cup {NoRow}]
          /\ replica \in [Replicas -> {"off", "seeding", "up"}]
          /\ said \in SUBSET (ServiceIds \X Providers \X Body) /\ failed \in SUBSET Nat
          /\ seeds = 0 /\ restarts = 0 /\ together \in BOOLEAN
      BY DEF Init
    <2> QED
      BY <2>1, <2>2, <2>3, <2>4 DEF TypeInv, TypeOK
  <1>2. RowsBacked /\ CopiesBacked
    BY DEF Init, RowsBacked, CopiesBacked
  <1>3. OneSeeds
    BY DEF Init, OneSeeds
  <1>4. OnePerVisit
    BY DEF Init, OnePerVisit, Closed
  <1> QED
    BY <1>1, <1>2, <1>3, <1>4 DEF IInv

-----------------------------------------------------------------------------
(* The two halves of the state, and what each step leaves alone.           *)

LEMMA NatSum ==
  ASSUME NEW m \in Nat, NEW n \in Nat
  PROVE  m + n \in Nat
  OBVIOUS

LEMMA CatalogMoves ==
  ASSUME IInv, UNCHANGED booking,
         services' \in [ServiceIds -> Row \cup {NoRow}],
         write' \in Seq(Writing \cup {Over}),
         said' \in SUBSET (ServiceIds \X Providers \X Body),
         replica' \in [Replicas -> {"off", "seeding", "up"}],
         seeds' \in Nat, restarts' \in Nat, together' \in BOOLEAN,
         RowsBacked', CopiesBacked', OneSeeds'
  PROVE  IInv'
  <1>1. UNCHANGED <<listed, modal, send, placed, failed>>
    BY DEF booking
  <1>2. TypeOK'
    <2>1. seeds' + restarts' \in Nat
      BY NatSum
    <2> QED
      BY <1>1, <2>1 DEF IInv, TypeInv, TypeOK
  <1>3. TypeInv'
    BY <1>1, <1>2 DEF IInv, TypeInv
  <1>4. OnePerVisit'
    BY <1>1 DEF IInv, OnePerVisit, Coming
  <1> QED
    BY <1>3, <1>4 DEF IInv

LEMMA BookingMoves ==
  ASSUME IInv, UNCHANGED <<table, start>>,
         listed' \in [ServiceIds -> Row \cup {NoRow}], modal' \in Modal,
         modal'.phase # "closed" => modal'.id \in ServiceIds /\ listed'[modal'.id] # NoRow,
         send' \in Seq(Sending \cup {Over}),
         placed' \in Seq([id: ServiceIds, price: Prices, visit: Nat]),
         failed' \in SUBSET Nat,
         OnePerVisit'
  PROVE  IInv'
  <1>1. UNCHANGED <<services, write, said, replica, restarts, seeds, together>>
    BY DEF table, start
  <1>2. modal'.phase \in {"closed", "form", "sending", "failed", "booked"}
    BY DEF Modal
  <1>3. TypeOK'
    BY <1>1, <1>2 DEF IInv, TypeInv, TypeOK
  <1>4. TypeInv'
    BY <1>1, <1>3 DEF IInv, TypeInv
  <1>5. RowsBacked' /\ CopiesBacked'
    BY <1>1 DEF IInv, RowsBacked, CopiesBacked, RowBacked, Backed
  <1>6. OneSeeds'
    BY <1>1 DEF IInv, OneSeeds, RowsCounted
  <1> QED
    BY <1>4, <1>5, <1>6 DEF IInv

\* What was asked for stays asked for.
LEMMA StaysBacked ==
  ASSUME NEW i, NEW row, said \subseteq said', RowBacked(i, row)
  PROVE  RowBacked(i, row)'
  BY DEF RowBacked, Backed

LEMMA StartKept ==
  ASSUME IInv, UNCHANGED start, \A i \in ServiceIds : services[i] # NoRow => services'[i] # NoRow
  PROVE  /\ OneSeeds' /\ replica' \in [Replicas -> {"off", "seeding", "up"}]
         /\ seeds' \in Nat /\ restarts' \in Nat /\ together' \in BOOLEAN
  <1>1. UNCHANGED <<replica, restarts, seeds, together>>
    BY DEF start
  <1>2. RowsCounted # {} => RowsCounted' # {}
    BY DEF RowsCounted
  <1> QED
    BY <1>1, <1>2 DEF IInv, TypeInv, TypeOK, OneSeeds

-----------------------------------------------------------------------------
(* The start of a replica.                                                 *)

LEMMA IInvCount ==
  ASSUME IInv, NEW r \in Replicas, Count(r) \/ Restart(r)
  PROVE  IInv'
  <1>1. /\ UNCHANGED <<services, write, said>> /\ UNCHANGED booking /\ seeds' = seeds
    BY DEF Count, Restart, table
  <1>2. PICK p \in {"off", "seeding", "up"} : replica' = [replica EXCEPT ![r] = p]
    BY DEF Count, Restart
  <1>3. /\ replica' \in [Replicas -> {"off", "seeding", "up"}]
        /\ \A q \in Replicas : replica'[q] = IF q = r THEN p ELSE replica[q]
    BY <1>2 DEF IInv, TypeInv, TypeOK
  <1>4. together' \in BOOLEAN /\ restarts' \in Nat /\ (together => together')
    <2>1. restarts \in Nat /\ together \in BOOLEAN
      BY DEF IInv, TypeInv, TypeOK
    <2>2. restarts' = restarts \/ restarts' = restarts + 1
      BY DEF Count, Restart
    <2>3. (together' \in BOOLEAN) /\ (together => together')
      <3>1. CASE Count(r)
        <4>1. together' = (together \/ (RowsCounted = {} /\ "seeding" \in {replica[q] : q \in Replicas}))
          BY <3>1 DEF Count
        <4> QED
          BY <4>1
      <3>2. CASE Restart(r)
        BY <2>1, <3>2 DEF Restart
      <3> QED
        BY <3>1, <3>2
    <2> QED
      BY <2>1, <2>2, <2>3
  <1>5. (~together' /\ p = "seeding") =>
          RowsCounted = {} /\ \A q \in Replicas : replica[q] # "seeding"
    <2>1. CASE Count(r)
      BY <1>2, <1>3, <2>1 DEF Count
    <2>2. CASE Restart(r)
      BY <1>2, <1>3, <2>2 DEF Restart, IInv, TypeInv, TypeOK
    <2> QED
      BY <2>1, <2>2
  <1>6. RowsCounted' = RowsCounted
    BY <1>1 DEF RowsCounted
  <1>7. OneSeeds'
    BY <1>1, <1>3, <1>4, <1>5, <1>6 DEF OneSeeds, IInv, TypeInv
  <1>8. RowsBacked' /\ CopiesBacked'
    BY <1>1 DEF IInv, RowsBacked, CopiesBacked, RowBacked, Backed
  <1> QED
    BY <1>1, <1>3, <1>4, <1>7, <1>8, CatalogMoves DEF IInv, TypeInv, TypeOK

LEMMA IInvSeed ==
  ASSUME IInv, NEW r \in Replicas, NEW i \in ServiceIds, NEW row \in DemoServices, Seed(r, i, row)
  PROVE  IInv'
  <1> DEFINE body == [price |-> row.price, active |-> TRUE]
  <1>1. /\ replica[r] = "seeding" /\ services[i] = NoRow
        /\ services' = [services EXCEPT ![i] = row]
        /\ said' = said \cup {<<i, row.owner, body>>}
        /\ replica' = [replica EXCEPT ![r] = "up"] /\ seeds' = seeds + 1
        /\ UNCHANGED <<write, restarts, together>> /\ UNCHANGED booking
    BY DEF Seed
  <1>2. row \in Row /\ row.active = TRUE /\ row # NoRow
    BY NoRowAssumption DEF DemoServices, Row
  <1>3. /\ services' \in [ServiceIds -> Row \cup {NoRow}]
        /\ \A j \in ServiceIds : services'[j] = IF j = i THEN row ELSE services[j]
    BY <1>1, <1>2 DEF IInv, TypeInv, TypeOK
  <1>4. said' \in SUBSET (ServiceIds \X Providers \X Body) /\ said \subseteq said'
    <2>1. body \in Body /\ row.owner \in Providers
      BY <1>2, RowShape, NewRow
    <2> HIDE DEF body
    <2> QED
      BY <1>1, <2>1 DEF IInv, TypeInv, TypeOK
  <1>5. RowBacked(i, row)'
    <2>1. <<i, row.owner, body>> \in said'
      BY <1>1
    <2>2. \A c \in {"price", "active"} : c \in DOMAIN body /\ body[c] = row[c]
      <3>1. row["price"] = row.price /\ row["active"] = TRUE
        BY <1>2, RowShape
      <3>2. DOMAIN body = {"price", "active"} /\ body["price"] = row.price /\ body["active"] = TRUE
        OBVIOUS
      <3> HIDE DEF body
      <3> QED
        BY <3>1, <3>2
    <2> HIDE DEF body
    <2> QED
      BY <2>1, <2>2 DEF RowBacked, Backed
  <1>6. RowsBacked'
    <2> SUFFICES ASSUME NEW j \in ServiceIds, services'[j] # NoRow
                 PROVE  RowBacked(j, services[j])'
      BY DEF RowsBacked
    <2>1. PICK rw : rw = services'[j]
      OBVIOUS
    <2>2. RowBacked(j, rw)'
      BY <1>3, <1>4, <1>5, <2>1, StaysBacked DEF IInv, RowsBacked
    <2> QED
      BY <2>1, <2>2 DEF RowBacked, Backed
  <1>7. CopiesBacked'
    <2> SUFFICES ASSUME NEW w \in DOMAIN write, write[w].phase # "over"
                 PROVE  /\ services'[write[w].id] # NoRow
                        /\ write[w].entity.owner = services'[write[w].id].owner
                        /\ RowBacked(write[w].id, write[w].entity)'
      BY <1>1 DEF CopiesBacked, RowBacked, Backed
    <2>1. PICK q : q = write[w]
      OBVIOUS
    <2>2. /\ q.id \in ServiceIds /\ services[q.id] # NoRow
          /\ q.entity.owner = services[q.id].owner /\ RowBacked(q.id, q.entity)
      BY <2>1, WriteShape DEF IInv, TypeInv, CopiesBacked
    <2>3. services'[q.id] = services[q.id] /\ RowBacked(q.id, q.entity)'
      BY <1>1, <1>3, <1>4, <2>2, StaysBacked
    <2> QED
      BY <1>1, <2>1, <2>2, <2>3 DEF RowBacked, Backed
  <1>8. /\ replica' \in [Replicas -> {"off", "seeding", "up"}]
        /\ \A q \in Replicas : replica'[q] = IF q = r THEN "up" ELSE replica[q]
    BY <1>1 DEF IInv, TypeInv, TypeOK
  <1>9. OneSeeds'
    <2>1. RowsCounted' # {}
      BY <1>2, <1>3 DEF RowsCounted
    <2>2. ~together => seeds = 0 /\ \A q \in Replicas : replica'[q] # "seeding"
      BY <1>1, <1>8 DEF IInv, OneSeeds
    <2> QED
      BY <1>1, <2>1, <2>2 DEF OneSeeds
  <1> QED
    BY <1>1, <1>3, <1>4, <1>6, <1>7, <1>8, <1>9, CatalogMoves DEF IInv, TypeInv, TypeOK

-----------------------------------------------------------------------------
(* The writes.                                                             *)

\* A row of the new service, and nothing of any other.
LEMMA IInvCreate ==
  ASSUME IInv, NEW i \in ServiceIds, NEW actor \in Providers \cup {Unknown}, NEW price \in Prices,
         Create(i, actor, price)
  PROVE  IInv'
  <1> DEFINE row  == [owner |-> actor, price |-> price, active |-> TRUE]
             body == [price |-> price, active |-> TRUE]
  <1>1. /\ actor \in Providers /\ services[i] = NoRow
        /\ services' = [services EXCEPT ![i] = row]
        /\ said' = said \cup {<<i, actor, body>>} /\ write' = Append(write, Over)
        /\ UNCHANGED start /\ UNCHANGED booking
    BY DEF Create
  <1>2. row \in Row /\ body \in Body /\ row.owner = actor
    BY <1>1, NewRow
  <1>3. \A c \in {"price", "active"} : c \in DOMAIN body /\ body[c] = row[c]
    <2>1. row["price"] = price /\ row["active"] = TRUE
      OBVIOUS
    <2>2. DOMAIN body = {"price", "active"} /\ body["price"] = price /\ body["active"] = TRUE
      OBVIOUS
    <2> HIDE DEF row, body
    <2> QED
      BY <2>1, <2>2
  <1> HIDE DEF row, body
  <1>4. /\ services' \in [ServiceIds -> Row \cup {NoRow}] /\ row # NoRow
        /\ \A j \in ServiceIds : services'[j] = IF j = i THEN row ELSE services[j]
    BY <1>1, <1>2, NoRowAssumption DEF IInv, TypeInv, TypeOK
  <1>5. said' \in SUBSET (ServiceIds \X Providers \X Body) /\ said \subseteq said'
    BY <1>1, <1>2 DEF IInv, TypeInv, TypeOK
  <1>6. RowBacked(i, row)'
    <2>1. <<i, row.owner, body>> \in said'
      BY <1>1, <1>2
    <2> QED
      BY <1>3, <2>1 DEF RowBacked, Backed
  <1>7. RowsBacked'
    <2> SUFFICES ASSUME NEW j \in ServiceIds, services'[j] # NoRow
                 PROVE  RowBacked(j, services[j])'
      BY DEF RowsBacked
    <2>1. PICK rw : rw = services'[j]
      OBVIOUS
    <2>2. RowBacked(j, rw)'
      BY <1>4, <1>5, <1>6, <2>1, StaysBacked DEF IInv, RowsBacked
    <2> QED
      BY <2>1, <2>2 DEF RowBacked, Backed
  <1>8. /\ write' \in Seq(Writing \cup {Over})
        /\ \A w \in DOMAIN write' : write'[w].phase # "over" =>
             w \in DOMAIN write /\ write'[w] = write[w]
    <2>1. Over.phase = "over"
      BY DEF Over
    <2> QED
      BY <1>1, <2>1, Appended DEF IInv, TypeInv, TypeOK
  <1>9. CopiesBacked'
    <2> SUFFICES ASSUME NEW w \in DOMAIN write', write'[w].phase # "over"
                 PROVE  /\ services'[write'[w].id] # NoRow
                        /\ write'[w].entity.owner = services'[write'[w].id].owner
                        /\ RowBacked(write[w].id, write[w].entity)'
      BY DEF CopiesBacked
    <2>1. PICK q : q = write'[w]
      OBVIOUS
    <2>2. /\ q.id \in ServiceIds /\ services[q.id] # NoRow
          /\ q.entity.owner = services[q.id].owner /\ RowBacked(q.id, q.entity)
      BY <1>8, <2>1, WriteShape DEF IInv, TypeInv, CopiesBacked
    <2>3. services'[q.id] = services[q.id] /\ RowBacked(q.id, q.entity)'
      BY <1>1, <1>4, <1>5, <2>2, StaysBacked
    <2> QED
      BY <2>1, <2>2, <2>3 DEF RowBacked, Backed
  <1>10. \A j \in ServiceIds : services[j] # NoRow => services'[j] # NoRow
    BY <1>4
  <1> QED
    BY <1>1, <1>4, <1>5, <1>7, <1>8, <1>9, <1>10, StartKept, CatalogMoves

LEMMA IInvLoad ==
  ASSUME IInv, NEW i \in ServiceIds, NEW actor \in Providers \cup {Unknown}, NEW body \in Body,
         Load(i, actor, body)
  PROVE  IInv'
  <1>0. PICK copy : copy = Edited(services[i], body)
    OBVIOUS
  <1>9. PICK new : new = [phase |-> "select", id |-> i, body |-> body, entity |-> copy,
                          changed |-> {}]
    OBVIOUS
  <1>1. /\ services[i] # NoRow /\ actor = services[i].owner /\ services' = services
        /\ said' = said \cup {<<i, actor, body>>} /\ write' = Append(write, new)
        /\ UNCHANGED start /\ UNCHANGED booking
    BY <1>0, <1>9 DEF Load, Owns
  <1>2. /\ services[i] \in Row /\ actor \in Providers
        /\ copy \in Row /\ copy.owner = actor
        /\ \A c \in {"price", "active"} :
             copy[c] = IF c \in DOMAIN body THEN body[c] ELSE services[i][c]
    <2>1. services[i] \in Row
      BY <1>1 DEF IInv, TypeInv, TypeOK
    <2> QED
      BY <1>0, <1>1, <2>1, RowShape, EditedShape
  <1>3. /\ new \in Writing /\ new.phase # "over" /\ new.id = i /\ new.entity = copy
    BY <1>9, <1>2 DEF Writing
  <1>4. said' \in SUBSET (ServiceIds \X Providers \X Body) /\ said \subseteq said'
    BY <1>1, <1>2 DEF IInv, TypeInv, TypeOK
  <1>5. RowBacked(i, copy)'
    <2> SUFFICES ASSUME NEW c \in {"price", "active"}
                 PROVE  Backed(i, copy.owner, c, copy[c])'
      BY DEF RowBacked
    <2>1. PICK r : r = <<i, actor, body>>
      OBVIOUS
    <2>2. r[1] = i /\ r[2] = actor /\ r[3] = body /\ r \in said'
      BY <1>1, <2>1
    <2>3. CASE c \in DOMAIN body
      BY <1>2, <2>2, <2>3 DEF Backed
    <2>4. CASE c \notin DOMAIN body
      <3>1. Backed(i, services[i].owner, c, services[i][c])
        BY <1>1 DEF IInv, RowsBacked, RowBacked
      <3>2. Backed(i, copy.owner, c, copy[c])
        BY <1>1, <1>2, <2>4, <3>1
      <3> QED
        BY <1>4, <3>2 DEF Backed
    <2> QED
      BY <2>3, <2>4
  <1>6. RowsBacked'
    <2> SUFFICES ASSUME NEW j \in ServiceIds, services[j] # NoRow
                 PROVE  RowBacked(j, services[j])'
      BY <1>1 DEF RowsBacked
    <2>1. PICK rw : rw = services[j]
      OBVIOUS
    <2>2. RowBacked(j, rw)'
      BY <1>4, <2>1, StaysBacked DEF IInv, RowsBacked
    <2> QED
      BY <1>1, <2>1, <2>2 DEF RowBacked, Backed
  <1>7. /\ write' \in Seq(Writing \cup {Over})
        /\ \A w \in DOMAIN write' : write'[w] = new \/ (w \in DOMAIN write /\ write'[w] = write[w])
    BY <1>1, <1>3, Appended DEF IInv, TypeInv, TypeOK
  <1>8. CopiesBacked'
    <2> SUFFICES ASSUME NEW w \in DOMAIN write', write'[w].phase # "over"
                 PROVE  /\ services'[write'[w].id] # NoRow
                        /\ write'[w].entity.owner = services'[write'[w].id].owner
                        /\ RowBacked(write[w].id, write[w].entity)'
      BY DEF CopiesBacked
    <2>1. PICK q : q = write'[w]
      OBVIOUS
    <2>2. /\ q.id \in ServiceIds /\ services[q.id] # NoRow
          /\ q.entity.owner = services[q.id].owner /\ RowBacked(q.id, q.entity)'
      <3>1. CASE q = new
        BY <1>1, <1>2, <1>3, <1>5, <3>1
      <3>2. CASE w \in DOMAIN write /\ q = write[w]
        BY <1>4, <2>1, <3>2, WriteShape, StaysBacked DEF IInv, TypeInv, CopiesBacked
      <3> QED
        BY <1>7, <2>1, <3>1, <3>2
    <2> QED
      BY <1>1, <2>1, <2>2 DEF RowBacked, Backed
  <1> QED
    BY <1>1, <1>4, <1>6, <1>7, <1>8, StartKept, CatalogMoves DEF IInv, TypeInv, TypeOK

LEMMA IInvSave ==
  ASSUME IInv, NEW w \in DOMAIN write, SelectRow(w) \/ UpdateRow(w) \/ Abort(w)
  PROVE  IInv'
  <1>1. PICK q : q = write[w]
    OBVIOUS
  <1>2. PICK row : row = services[q.id]
    OBVIOUS
  <1>3. /\ q \in Writing /\ q.id \in ServiceIds /\ q.entity \in Row /\ q.changed \subseteq Column
        /\ row # NoRow /\ q.entity.owner = row.owner /\ RowBacked(q.id, q.entity)
    BY <1>1, <1>2, WriteShape DEF SelectRow, UpdateRow, Abort, IInv, TypeInv, CopiesBacked
  <1>4. row \in Row /\ RowBacked(q.id, row)
    BY <1>2, <1>3 DEF IInv, TypeInv, TypeOK, RowsBacked
  <1>5. said' = said /\ UNCHANGED start /\ UNCHANGED booking
    BY DEF SelectRow, UpdateRow, Abort
  <1>6. PICK v \in Writing \cup {Over} :
          /\ write' = [write EXCEPT ![w] = v]
          /\ v.phase # "over" => v.id = q.id /\ v.entity = q.entity
    <2>1. CASE SelectRow(w)
      <3> DEFINE diff == {c \in {"owner", "price", "active"} : q.entity[c] # row[c]}
                 v    == [q EXCEPT !.phase = "update", !.changed = diff]
      <3>1. write' = [write EXCEPT ![w].phase = "update", ![w].changed = diff]
        BY <1>1, <1>2, <2>1 DEF SelectRow
      <3>2. diff \in SUBSET {"owner", "price", "active"}
        OBVIOUS
      <3> HIDE DEF diff
      <3>3. write' = [write EXCEPT ![w] = v]
        BY <1>1, <3>1
      <3>4. v \in Writing /\ v.id = q.id /\ v.entity = q.entity
        BY <1>3, <3>2 DEF Writing
      <3> QED
        BY <3>3, <3>4
    <2>2. CASE UpdateRow(w) \/ Abort(w)
      BY <2>2 DEF UpdateRow, Abort, Over
    <2> QED
      BY <2>1, <2>2
  <1>7. PICK new \in Row :
          /\ services' = [services EXCEPT ![q.id] = new]
          /\ new.owner = row.owner
          /\ \A c \in {"price", "active"} : new[c] = q.entity[c] \/ new[c] = row[c]
    <2>1. CASE UpdateRow(w)
      <3>1. services' = [services EXCEPT ![q.id] = Overlaid(row, q.entity, q.changed)]
        BY <1>1, <1>2, <2>1 DEF UpdateRow, Overlaid
      <3>2. PICK new : new = Overlaid(row, q.entity, q.changed)
        OBVIOUS
      <3>3. /\ new \in Row /\ \A c \in Column : new[c] = q.entity[c] \/ new[c] = row[c]
        BY <1>3, <1>4, <3>2, OverlaidShape
      <3>4. new["owner"] = row.owner
        BY <1>3, <1>4, <3>3, RowShape DEF Column
      <3> QED
        BY <3>1, <3>2, <3>3, <3>4, RowShape DEF Column
    <2>2. CASE SelectRow(w) \/ Abort(w)
      BY <1>2, <1>3, <1>4, <2>2 DEF SelectRow, Abort, IInv, TypeInv, TypeOK
    <2> QED
      BY <2>1, <2>2
  <1>8. /\ services' \in [ServiceIds -> Row \cup {NoRow}] /\ new # NoRow
        /\ \A j \in ServiceIds : services'[j] = IF j = q.id THEN new ELSE services[j]
    BY <1>3, <1>7, NoRowAssumption DEF IInv, TypeInv, TypeOK
  <1>9. RowBacked(q.id, new)
    BY <1>3, <1>4, <1>7 DEF RowBacked
  <1>10. RowsBacked'
    BY <1>5, <1>8, <1>9 DEF IInv, RowsBacked, RowBacked, Backed
  <1>11. /\ write' \in Seq(Writing \cup {Over}) /\ DOMAIN write' = DOMAIN write
         /\ \A x \in DOMAIN write : write'[x] = IF x = w THEN v ELSE write[x]
    BY <1>6, Replaced DEF IInv, TypeInv, TypeOK
  <1>12. CopiesBacked'
    <2> SUFFICES ASSUME NEW x \in DOMAIN write, write'[x].phase # "over"
                 PROVE  /\ services'[write'[x].id] # NoRow
                        /\ write'[x].entity.owner = services'[write'[x].id].owner
                        /\ RowBacked(write[x].id, write[x].entity)'
      BY <1>11 DEF CopiesBacked
    <2>1. PICK z : z = write'[x]
      OBVIOUS
    <2>2. /\ z.id \in ServiceIds /\ services[z.id] # NoRow
          /\ z.entity.owner = services[z.id].owner /\ RowBacked(z.id, z.entity)
      <3>1. CASE x = w
        BY <1>2, <1>3, <1>6, <1>11, <2>1, <3>1
      <3>2. CASE x # w
        BY <1>11, <2>1, <3>2, WriteShape DEF IInv, TypeInv, CopiesBacked
      <3> QED
        BY <3>1, <3>2
    <2>3. services'[z.id] # NoRow /\ z.entity.owner = services'[z.id].owner
      BY <1>2, <1>7, <1>8, <2>2
    <2> QED
      BY <1>5, <2>1, <2>2, <2>3 DEF RowBacked, Backed
  <1>13. \A j \in ServiceIds : services[j] # NoRow => services'[j] # NoRow
    BY <1>8
  <1> QED
    BY <1>5, <1>8, <1>10, <1>11, <1>12, <1>13, StartKept, CatalogMoves DEF IInv, TypeInv, TypeOK
-----------------------------------------------------------------------------
(* The screen and its orders.                                              *)

LEMMA IInvBrowse ==
  ASSUME IInv, Browse \/ (\E i \in ServiceIds : Choose(i)) \/ Close
  PROVE  IInv'
  <1>1. UNCHANGED <<table, start>> /\ UNCHANGED <<send, placed, failed>>
    BY DEF Browse, Choose, Close
  <1>2. /\ listed' \in [ServiceIds -> Row \cup {NoRow}]
        /\ \/ modal' = modal /\ modal = Closed
           \/ modal' = Closed /\ listed' = listed
           \/ /\ listed' = listed
              /\ \E i \in ServiceIds :
                   /\ listed[i] # NoRow
                   /\ modal' = [phase |-> "form", id |-> i, visit |-> Len(send) + 1]
    <2>1. \A i \in ServiceIds : services[i] \in Row \cup {NoRow}
      BY DEF IInv, TypeInv, TypeOK
    <2> QED
      BY <2>1 DEF Browse, Choose, Close, IInv, TypeInv, TypeOK
  <1>3. Closed \in Modal /\ Closed.phase = "closed"
    BY DEF Closed, Modal
  <1>4. Len(send) \in Nat
    BY DEF IInv, TypeInv, TypeOK
  <1>5. /\ modal' \in Modal
        /\ modal'.phase # "closed" => modal'.id \in ServiceIds /\ listed'[modal'.id] # NoRow
        /\ modal'.phase # "failed"
        /\ modal'.phase = "form" => modal'.visit = Len(send) + 1
        /\ modal'.phase # "closed" => modal'.visit <= Len(send) + 1
    BY <1>2, <1>3, <1>4 DEF Modal
  <1>6. OnePerVisit'
    <2>1. /\ \A n \in DOMAIN send : Coming(n) => send[n].visit \in Nat
          /\ \A n \in DOMAIN placed : placed[n].visit \in Nat
      <3>1. \A n \in DOMAIN send : Coming(n) => send[n].visit \in Nat
        BY SendShape DEF Coming, IInv, TypeInv
      <3>2. \A n \in DOMAIN placed : placed[n].visit \in Nat
        BY PlacedShape DEF IInv, TypeInv
      <3> QED
        BY <3>1, <3>2
    <2>2. modal'.phase = "form" =>
            /\ \A n \in DOMAIN send : Coming(n) => send[n].visit # modal'.visit
            /\ \A n \in DOMAIN placed : placed[n].visit # modal'.visit
      BY <1>4, <1>5, <2>1 DEF IInv, OnePerVisit
    <2> QED
      BY <1>1, <1>5, <2>2 DEF IInv, OnePerVisit, Coming
  <1> QED
    BY <1>1, <1>2, <1>5, <1>6, BookingMoves DEF IInv, TypeInv, TypeOK

LEMMA IInvSubmit ==
  ASSUME IInv, Submit
  PROVE  IInv'
  <1>1. PICK q : q = [phase |-> "sent", id |-> modal.id, price |-> listed[modal.id].price,
                      visit |-> modal.visit]
    OBVIOUS
  <1>2. /\ modal.phase \in {"form", "failed"} /\ send' = Append(send, q)
        /\ modal' = [modal EXCEPT !.phase = "sending"]
        /\ UNCHANGED <<table, start>> /\ UNCHANGED <<listed, placed, failed>>
    BY <1>1 DEF Submit, MaySubmit
  <1>3. modal \in Modal /\ modal.id \in ServiceIds /\ modal.visit \in Nat
    BY <1>2 DEF IInv, TypeInv, TypeOK, Modal
  <1>4. listed[modal.id] \in Row
    BY <1>2, <1>3 DEF IInv, TypeInv, TypeOK
  <1>5. q \in Sending /\ q.visit = modal.visit
    BY <1>1, <1>3, <1>4, RowShape DEF Sending
  <1>6. /\ modal' \in Modal /\ modal'.phase = "sending" /\ modal'.id = modal.id
    BY <1>2, <1>3 DEF Modal
  <1>7. /\ send' \in Seq(Sending \cup {Over}) /\ Len(send') = Len(send) + 1 /\ Len(send) \in Nat
        /\ DOMAIN send' = DOMAIN send \cup {Len(send) + 1} /\ Len(send) + 1 \notin DOMAIN send
        /\ \A n \in DOMAIN send : send'[n] = send[n]
        /\ send'[Len(send) + 1] = q
    BY <1>2, <1>5, Appended DEF IInv, TypeInv, TypeOK
  <1>8. modal.visit \in failed \/
          /\ \A n \in DOMAIN send : Coming(n) => send[n].visit # modal.visit
          /\ \A n \in DOMAIN placed : placed[n].visit # modal.visit
    BY <1>2 DEF IInv, OnePerVisit
  <1>9. modal.visit <= Len(send) + 1
    BY <1>2 DEF IInv, OnePerVisit
  <1>10. OnePerVisit'
    <2>1. \A n \in DOMAIN send' : Coming(n)' =>
            \/ n \in DOMAIN send /\ Coming(n) /\ send'[n] = send[n]
            \/ n = Len(send) + 1 /\ send'[n].visit = modal.visit
      BY <1>5, <1>7 DEF Coming
    <2>2. \A m, n \in DOMAIN send' :
            Coming(m)' /\ Coming(n)' /\ send'[m].visit = send'[n].visit /\ m # n
              => send'[m].visit \in failed
      BY <1>8, <2>1 DEF IInv, OnePerVisit
    <2>3. \A m \in DOMAIN send', n \in DOMAIN placed :
            Coming(m)' /\ send'[m].visit = placed[n].visit => send'[m].visit \in failed
      BY <1>8, <2>1 DEF IInv, OnePerVisit
    <2>4. /\ \A n \in DOMAIN send' : Coming(n)' => send'[n].visit <= Len(send')
          /\ \A n \in DOMAIN placed : placed[n].visit <= Len(send')
      <3>1. \A n \in DOMAIN placed : placed[n].visit \in Nat
        BY PlacedShape DEF IInv, TypeInv
      <3>2. \A n \in DOMAIN send : Coming(n) => send[n].visit \in Nat
        BY SendShape DEF Coming, IInv, TypeInv
      <3>3. \A n \in DOMAIN placed : placed[n].visit \in Nat /\ placed[n].visit <= Len(send)
        BY <3>1 DEF IInv, OnePerVisit
      <3>4. \A n \in DOMAIN send : Coming(n) => send[n].visit <= Len(send)
        BY DEF IInv, OnePerVisit
      <3> QED
        BY <1>3, <1>7, <1>9, <2>1, <3>2, <3>3, <3>4
    <2>5. modal'.visit <= Len(send') + 1
      BY <1>2, <1>3, <1>7, <1>9 DEF Modal
    <2> QED
      BY <1>2, <1>6, <2>2, <2>3, <2>4, <2>5 DEF IInv, OnePerVisit
  <1> QED
    BY <1>2, <1>3, <1>4, <1>6, <1>7, <1>10, NoRowAssumption, BookingMoves DEF IInv, TypeInv, TypeOK

LEMMA IInvPlace ==
  ASSUME IInv, NEW n \in DOMAIN send, Place(n)
  PROVE  IInv'
  <1>1. PICK q : q = send[n]
    OBVIOUS
  <1>2. /\ Coming(n) /\ q.phase \in {"sent", "abandoned"}
        /\ q \in Sending /\ q.id \in ServiceIds /\ q.price \in Prices /\ q.visit \in Nat
    BY <1>1, SendShape DEF Place, Coming, IInv, TypeInv
  <1>3. PICK v : v = IF q.phase = "sent" THEN [q EXCEPT !.phase = "saved"] ELSE Over
    OBVIOUS
  <1>4. v \in Sending \cup {Over} /\ v.phase \in {"saved", "over"}
    BY <1>2, <1>3 DEF Sending, Over
  <1>5. PICK p : p = [id |-> q.id, price |-> q.price, visit |-> q.visit]
    OBVIOUS
  <1>6. p \in [id: ServiceIds, price: Prices, visit: Nat] /\ p.visit = q.visit
    BY <1>2, <1>5
  <1>7. /\ send' = [send EXCEPT ![n] = v] /\ placed' = Append(placed, p)
        /\ UNCHANGED <<table, start>> /\ UNCHANGED <<listed, modal, failed>>
    BY <1>1, <1>3, <1>5 DEF Place
  <1>8. /\ send' \in Seq(Sending \cup {Over}) /\ DOMAIN send' = DOMAIN send /\ Len(send') = Len(send)
        /\ \A m \in DOMAIN send : send'[m] = IF m = n THEN v ELSE send[m]
    BY <1>4, <1>7, Replaced DEF IInv, TypeInv, TypeOK
  <1>9. /\ placed' \in Seq([id: ServiceIds, price: Prices, visit: Nat])
        /\ DOMAIN placed' = DOMAIN placed \cup {Len(placed) + 1}
        /\ Len(placed) + 1 \notin DOMAIN placed
        /\ \A m \in DOMAIN placed : placed'[m] = placed[m]
        /\ placed'[Len(placed) + 1] = p
    <2> DEFINE Order == [id: ServiceIds, price: Prices, visit: Nat]
    <2>1. placed \in Seq(Order)
      BY DEF IInv, TypeInv, TypeOK
    <2>2. p \in Order
      BY <1>6
    <2> HIDE DEF Order
    <2>3. /\ placed' \in Seq(Order) /\ DOMAIN placed' = DOMAIN placed \cup {Len(placed) + 1}
          /\ Len(placed) + 1 \notin DOMAIN placed
          /\ \A m \in DOMAIN placed : placed'[m] = placed[m]
          /\ placed'[Len(placed) + 1] = p
      BY <1>7, <2>1, <2>2, Appended
    <2> QED
      BY <2>3 DEF Order
  <1>10. \A m \in DOMAIN send : Coming(m)' => m # n /\ Coming(m) /\ send'[m] = send[m]
    BY <1>4, <1>8 DEF Coming
  <1>11. OnePerVisit'
    <2>1. \A m, k \in DOMAIN send' :
            Coming(m)' /\ Coming(k)' /\ send'[m].visit = send'[k].visit /\ m # k
              => send'[m].visit \in failed
      BY <1>8, <1>10 DEF IInv, OnePerVisit
    <2>2. \A m \in DOMAIN send', k \in DOMAIN placed' :
            Coming(m)' /\ send'[m].visit = placed'[k].visit => send'[m].visit \in failed
      BY <1>1, <1>2, <1>6, <1>8, <1>9, <1>10 DEF IInv, OnePerVisit
    <2>3. \A m, k \in DOMAIN placed' :
            placed'[m].visit = placed'[k].visit /\ m # k => placed'[m].visit \in failed
      <3>1. \A m \in DOMAIN placed : placed[m].visit = q.visit => q.visit \in failed
        BY <1>1, <1>2 DEF IInv, OnePerVisit
      <3> QED
        BY <1>6, <1>9, <3>1 DEF IInv, OnePerVisit
    <2>4. modal.phase = "form" =>
            /\ \A m \in DOMAIN send' : Coming(m)' => send'[m].visit # modal.visit
            /\ \A m \in DOMAIN placed' : placed'[m].visit # modal.visit
      BY <1>1, <1>2, <1>6, <1>8, <1>9, <1>10 DEF IInv, OnePerVisit
    <2>5. /\ \A m \in DOMAIN send' : Coming(m)' => send'[m].visit <= Len(send')
          /\ \A m \in DOMAIN placed' : placed'[m].visit <= Len(send')
      BY <1>1, <1>2, <1>6, <1>8, <1>9, <1>10 DEF IInv, OnePerVisit
    <2> QED
      BY <1>7, <1>8, <2>1, <2>2, <2>3, <2>4, <2>5 DEF IInv, OnePerVisit
  <1> QED
    BY <1>7, <1>8, <1>9, <1>11, BookingMoves DEF IInv, TypeInv, TypeOK

LEMMA IInvAnswer ==
  ASSUME IInv, NEW n \in DOMAIN send, Booked(n) \/ SendFails(n)
  PROVE  IInv'
  <1>1. PICK q : q = send[n]
    OBVIOUS
  <1>2. q.phase \in {"sent", "saved"} /\ q \in Sending /\ q.visit \in Nat
    BY <1>1, SendShape DEF Booked, SendFails, IInv, TypeInv
  <1>3. modal \in Modal
    BY DEF IInv, TypeInv
  <1>4. PICK v : v = IF q.phase = "sent" THEN [q EXCEPT !.phase = "abandoned"] ELSE Over
    OBVIOUS
  <1>5. /\ v \in Sending \cup {Over}
        /\ v.phase \in {"sent", "abandoned"} => Coming(n) /\ v.visit = q.visit
    BY <1>1, <1>2, <1>4 DEF Sending, Over, Coming
  <1>6. send' = [send EXCEPT ![n] = v] /\ UNCHANGED <<table, start>> /\ UNCHANGED <<listed, placed>>
    BY <1>1, <1>2, <1>4 DEF Booked, SendFails
  <1>7. /\ send' \in Seq(Sending \cup {Over}) /\ DOMAIN send' = DOMAIN send /\ Len(send') = Len(send)
        /\ \A m \in DOMAIN send : send'[m] = IF m = n THEN v ELSE send[m]
    BY <1>5, <1>6, Replaced DEF IInv, TypeInv, TypeOK
  <1>8. \A m \in DOMAIN send : Coming(m)' => Coming(m) /\ send'[m].visit = send[m].visit
    BY <1>1, <1>5, <1>7 DEF Coming
  <1>9. /\ failed \subseteq failed' /\ failed' \in SUBSET Nat
        /\ \/ modal' = modal
           \/ modal.phase = "sending" /\ modal' = [modal EXCEPT !.phase = "booked"]
           \/ /\ modal.phase = "sending" /\ modal' = [modal EXCEPT !.phase = "failed"]
              /\ modal.visit \in failed'
    BY <1>1, <1>2 DEF Booked, SendFails, Awaiting, IInv, TypeInv, TypeOK
  <1>10. /\ modal' \in Modal /\ modal'.id = modal.id /\ modal'.visit = modal.visit
         /\ modal'.phase # "closed" => modal.phase # "closed"
         /\ modal'.phase = "form" => modal.phase = "form"
         /\ modal'.phase = "failed" => modal' = modal \/ modal.visit \in failed'
    BY <1>3, <1>9 DEF Modal
  <1>11. OnePerVisit'
    <2>1. \A m, k \in DOMAIN send' :
            Coming(m)' /\ Coming(k)' /\ send'[m].visit = send'[k].visit /\ m # k
              => send'[m].visit \in failed'
      BY <1>7, <1>8, <1>9 DEF IInv, OnePerVisit
    <2>2. \A m \in DOMAIN send', k \in DOMAIN placed :
            Coming(m)' /\ send'[m].visit = placed[k].visit => send'[m].visit \in failed'
      BY <1>7, <1>8, <1>9 DEF IInv, OnePerVisit
    <2>3. modal'.phase = "form" =>
            /\ \A m \in DOMAIN send' : Coming(m)' => send'[m].visit # modal'.visit
            /\ \A m \in DOMAIN placed : placed[m].visit # modal'.visit
      BY <1>7, <1>8, <1>10 DEF IInv, OnePerVisit
    <2>4. \A m \in DOMAIN send' : Coming(m)' => send'[m].visit <= Len(send')
      BY <1>7, <1>8 DEF IInv, OnePerVisit
    <2>5. /\ modal'.phase = "failed" => modal'.visit \in failed'
          /\ modal'.phase # "closed" => modal'.visit <= Len(send') + 1
      BY <1>7, <1>9, <1>10 DEF IInv, OnePerVisit
    <2> QED
      BY <1>6, <1>7, <1>9, <2>1, <2>2, <2>3, <2>4, <2>5 DEF IInv, OnePerVisit
  <1> QED
    BY <1>6, <1>7, <1>9, <1>10, <1>11, BookingMoves DEF IInv, TypeInv, TypeOK

-----------------------------------------------------------------------------
LEMMA IInvStep ==
  ASSUME IInv, [Next]_vars
  PROVE  IInv'
  <1>1. CASE UNCHANGED vars
    <2>1. /\ UNCHANGED <<services, write, said, replica, restarts, seeds, together>>
          /\ UNCHANGED booking
      BY <1>1 DEF vars, table, start
    <2>2. RowsBacked' /\ CopiesBacked'
      BY <2>1 DEF IInv, RowsBacked, CopiesBacked, RowBacked, Backed
    <2>3. OneSeeds'
      BY <2>1 DEF IInv, OneSeeds, RowsCounted
    <2> QED
      BY <2>1, <2>2, <2>3, CatalogMoves DEF IInv, TypeInv, TypeOK
  <1>2. CASE Next
    BY <1>2, IInvCount, IInvSeed, IInvCreate, IInvLoad, IInvSave, IInvBrowse, IInvSubmit, IInvPlace,
       IInvAnswer DEF Next
  <1> QED
    BY <1>1, <1>2

LEMMA Invariance == Spec => []IInv
  BY IInvInit, IInvStep, PTL DEF Spec

\* The tables, the requests and the screen are well typed.
THEOREM TypeCorrect == Spec => []TypeOK
  BY Invariance, PTL DEF IInv, TypeInv

\* However the saves of copies overlap, a service shows what its own provider
\* asked for.
THEOREM AsItsProviderSaidHolds == Spec => []AsItsProviderSaid
  <1>1. IInv => AsItsProviderSaid
    BY DEF IInv, RowsBacked, RowBacked, Backed, AsItsProviderSaid
  <1> QED
    BY <1>1, Invariance, PTL

\* The demo services appear twice only if two replicas started together.
THEOREM SeededTwiceOnlyTogetherHolds == Spec => []SeededTwiceOnlyTogether
  <1>1. IInv => SeededTwiceOnlyTogether
    BY DEF IInv, TypeInv, OneSeeds, SeededTwiceOnlyTogether
  <1> QED
    BY <1>1, Invariance, PTL

\* A set in which nothing differs from anything has one element at most.
LEMMA OneElement ==
  ASSUME NEW S, \A x, y \in S : x = y
  PROVE  Cardinality(S) <= 1
  <1>1. CASE S = {}
    BY <1>1, FS_EmptySet
  <1>2. CASE S # {}
    <2>1. PICK x \in S : TRUE
      BY <1>2
    <2>2. S = {x}
      BY <2>1
    <2> QED
      BY <2>2, FS_Singleton
  <1> QED
    BY <1>1, <1>2

\* A visit to the booking form makes a second order only after an error.
THEOREM SecondOrderOnlyAfterErrorHolds == Spec => []SecondOrderOnlyAfterError
  <1>1. ASSUME IInv
        PROVE  SecondOrderOnlyAfterError
    <2> SUFFICES ASSUME NEW v \in 1..MaxRequests, v \notin failed
                 PROVE  ~(Cardinality({n \in DOMAIN placed : placed[n].visit = v}) > 1)
      BY DEF SecondOrderOnlyAfterError
    <2> DEFINE S == {n \in DOMAIN placed : placed[n].visit = v}
    <2>1. \A m, n \in S : m = n
      BY <1>1 DEF IInv, OnePerVisit
    <2>2. Cardinality(S) <= 1 /\ Cardinality(S) \in Nat
      <3>1. S \subseteq DOMAIN placed /\ DOMAIN placed = 1..Len(placed) /\ Len(placed) \in Nat
        BY <1>1 DEF IInv, TypeInv, TypeOK
      <3> HIDE DEF S
      <3>2. IsFiniteSet(DOMAIN placed)
        BY <3>1, FS_Interval
      <3>3. IsFiniteSet(S)
        BY <3>1, <3>2, FS_Subset
      <3> QED
        BY <2>1, <3>3, OneElement, FS_CardinalityType
    <2> HIDE DEF S
    <2>3. ~(Cardinality(S) > 1)
      BY <2>2
    <2> QED
      BY <2>3 DEF S
  <1> QED
    BY <1>1, Invariance, PTL

\* A step on a service that was taken off, with no write on it under way: only
\* a request that says so puts it on offer.
LEMMA RemovedStep ==
  ASSUME IInv, [Next]_vars, NEW i \in ServiceIds,
         services[i] # NoRow, ~services[i].active, Quiet(i)
  PROVE  /\ ~services'[i].active
         /\ \A w \in DOMAIN write' :
              (write'[w].phase # "over" /\ write'[w].id = i /\ "active" \notin DOMAIN write'[w].body)
                => ~write'[w].entity.active
  <1>0. services \in [ServiceIds -> Row \cup {NoRow}] /\ write \in Seq(Writing \cup {Over})
    BY DEF IInv, TypeInv, TypeOK
  <1>1. CASE UNCHANGED <<services, write>>
    BY <1>1 DEF Quiet
  <1>2. ASSUME NEW r \in Replicas, NEW j \in ServiceIds, NEW row \in DemoServices, Seed(r, j, row)
        PROVE  services'[i] = services[i] /\ write' = write
    BY <1>0, <1>2 DEF Seed
  <1>3. ASSUME NEW j \in ServiceIds, NEW a \in Providers \cup {Unknown}, NEW p \in Prices,
               Create(j, a, p)
        PROVE  /\ services'[i] = services[i]
               /\ \A w \in DOMAIN write' : write'[w].phase # "over" =>
                    w \in DOMAIN write /\ write'[w] = write[w]
    <2>1. Over.phase = "over"
      BY DEF Over
    <2>2. services'[i] = services[i] /\ write' = Append(write, Over)
      BY <1>0, <1>3 DEF Create
    <2> QED
      BY <1>0, <2>1, <2>2, Appended
  <1>4. ASSUME NEW j \in ServiceIds, NEW a \in Providers \cup {Unknown}, NEW b \in Body, Load(j, a, b)
        PROVE  /\ services'[i] = services[i]
               /\ \A w \in DOMAIN write' :
                    \/ w \in DOMAIN write /\ write'[w] = write[w]
                    \/ /\ write'[w].id = j /\ write'[w].body = b
                       /\ write'[w].entity = Edited(services[j], b)
    <2>1. PICK q : q = [phase |-> "select", id |-> j, body |-> b,
                        entity |-> Edited(services[j], b), changed |-> {}]
      OBVIOUS
    <2>2. services[j] \in Row
      BY <1>0, <1>4 DEF Load
    <2>3. q \in Writing
      BY <2>1, <2>2, EditedShape DEF Writing
    <2>4. services' = services /\ write' = Append(write, q)
      BY <1>4, <2>1 DEF Load
    <2> QED
      BY <1>0, <2>1, <2>3, <2>4, Appended
  <1>5. ASSUME NEW w \in DOMAIN write, SelectRow(w) \/ UpdateRow(w) \/ Abort(w)
        PROVE  /\ services'[i] = services[i]
               /\ \A x \in DOMAIN write' : write'[x].phase # "over" => write'[x].id # i
    <2>1. write[w].phase # "over" /\ write[w].id # i
      BY <1>5 DEF SelectRow, UpdateRow, Abort, Quiet
    <2>2. write[w] \in Writing
      BY <2>1, WriteShape DEF IInv, TypeInv
    <2>3. services'[i] = services[i]
      BY <1>0, <1>5, <2>1 DEF SelectRow, UpdateRow, Abort
    <2>4. /\ DOMAIN write' = DOMAIN write
          /\ \A x \in DOMAIN write : x # w => write'[x] = write[x]
          /\ write'[w].phase = "over" \/ write'[w].id = write[w].id
      BY <1>0, <1>5, <2>2 DEF SelectRow, UpdateRow, Abort, Over, Writing
    <2> QED
      BY <2>1, <2>3, <2>4 DEF Quiet
  <1>6. ASSUME NEW j \in ServiceIds, NEW a \in Providers \cup {Unknown}, NEW b \in Body, Load(j, a, b)
        PROVE  /\ ~services'[i].active
               /\ \A w \in DOMAIN write' :
                    (write'[w].phase # "over" /\ write'[w].id = i /\ "active" \notin DOMAIN write'[w].body)
                      => ~write'[w].entity.active
    <2> SUFFICES ASSUME NEW w \in DOMAIN write', write'[w].phase # "over", write'[w].id = i,
                        "active" \notin DOMAIN write'[w].body
                 PROVE  ~write'[w].entity.active
      BY <1>4, <1>6
    <2>1. write'[w].entity = Edited(services[i], write'[w].body) /\ write'[w].body = b
      BY <1>4, <1>6 DEF Quiet
    <2>2. services[i] \in Row
      BY <1>0
    <2>3. /\ Edited(services[i], b) \in Row
          /\ Edited(services[i], b)["active"] = services[i]["active"]
      BY <2>1, <2>2, EditedShape
    <2> QED
      BY <2>1, <2>2, <2>3, RowShape
  <1>7. CASE Next
    <2>1. CASE \E r \in Replicas, j \in ServiceIds, row \in DemoServices : Seed(r, j, row)
      BY <1>2, <2>1 DEF Quiet
    <2>2. CASE \E j \in ServiceIds, a \in Providers \cup {Unknown}, p \in Prices : Create(j, a, p)
      BY <1>3, <2>2 DEF Quiet
    <2>3. CASE \E j \in ServiceIds, a \in Providers \cup {Unknown}, b \in Body : Load(j, a, b)
      BY <1>6, <2>3
    <2>4. CASE \E w \in DOMAIN write : SelectRow(w) \/ UpdateRow(w) \/ Abort(w)
      BY <1>5, <2>4
    <2>5. CASE \/ \E r \in Replicas : Count(r) \/ Restart(r)
               \/ Browse \/ (\E j \in ServiceIds : Choose(j)) \/ Submit \/ Close
               \/ \E n \in DOMAIN send : Place(n) \/ Booked(n) \/ SendFails(n)
      <3>1. UNCHANGED <<services, write>>
        BY <2>5 DEF Count, Restart, Browse, Choose, Submit, Close, Place, Booked, SendFails, table
      <3> QED
        BY <1>1, <3>1
    <2> QED
      BY <1>7, <2>1, <2>2, <2>3, <2>4, <2>5 DEF Next
  <1> QED
    BY <1>1, <1>7 DEF vars, table

\* A service that was taken off the catalog comes back only by name.
THEOREM RemovedStaysHolds == Spec => RemovedStays
  <1>1. ASSUME IInv, [Next]_vars
        PROVE  \A i \in ServiceIds :
                 ( /\ services[i] # NoRow /\ ~services[i].active /\ Quiet(i) )
                   => /\ ~services'[i].active
                      /\ \A w \in DOMAIN write' :
                           (write'[w].phase # "over" /\ write'[w].id = i
                              /\ "active" \notin DOMAIN write'[w].body)
                             => ~write'[w].entity.active
    BY <1>1, RemovedStep
  <1> QED
    BY <1>1, Invariance, PTL DEF Spec, RemovedStays
=============================================================================
