-------------------------- MODULE EventFeedProofs --------------------------
(***************************************************************************)
(* Theorems about the activity screen and the notification service, for    *)
(* any partitions, replicas, lengths of the history and disturbances.      *)
(*                                                                         *)
(* The ids tell when a notification was made: they fall along a history    *)
(* and rise along the stream.  So what is still to be delivered is newer   *)
(* than anything on the screen that the history did not bring              *)
(* (ListBeforeInbox), and what is on the screen for having been read is    *)
(* what the replica remembered then (AnswerComplete, KnownShown).          *)
(***************************************************************************)
EXTENDS EventFeed, TLAPS

FallingIds(s) == \A i, j \in DOMAIN s : i < j => s[i].id > s[j].id
RisingIds(s)  == \A i, j \in DOMAIN s : i < j => s[i].id < s[j].id

IdsWithin(s, n) == \A i \in DOMAIN s : s[i].id \in 1 .. n

\* Of the stream and the screen, the records they are.
Stream == [to: Replicas \cup {Nobody}, inbox: Seq(Notification)]

Feed == [open: BOOLEAN, list: Seq(Notification), answer: Seq(Notification),
         fetch: {"none", "asked", "answered", "done", "failed"},
         status: {"disconnected", "connecting", "connected"},
         from: Replicas \cup {Nobody}, read: Nat, blind: Nat]

\* What TypeOK leaves to the reader, and the broker's part: no offset is
\* committed of a message that is not there.
Shape ==
  /\ consumed \in Nat
  /\ DOMAIN cursor = Replicas
  /\ history \in [Replicas -> Seq(Notification)]
  /\ stream \in Stream
  /\ feed \in Feed
  /\ \A p \in Partitions : committed[p] <= published[p]

Numbered ==
  /\ \A r \in Replicas : IdsWithin(history[r], consumed) /\ FallingIds(history[r])
  /\ IdsWithin(stream.inbox, consumed) /\ RisingIds(stream.inbox)
  /\ IdsWithin(feed.list, consumed)

\* The history that was loaded may have held it.
Known(n) == feed.fetch = "done" /\ n.id <= feed.read

ListBeforeInbox ==
  \A i \in DOMAIN feed.list, j \in DOMAIN stream.inbox :
    feed.list[i].id < stream.inbox[j].id \/ Known(feed.list[i])

TwiceIfKnown ==
  \A i, j \in DOMAIN feed.list :
    i < j /\ feed.list[i] = feed.list[j] => Known(feed.list[i])

AnswerComplete ==
  feed.fetch = "answered" =>
    /\ FallingIds(feed.answer) /\ Len(feed.answer) <= MaxHistory
    /\ IdsWithin(feed.answer, feed.read)
    /\ feed.from \in Replicas
    /\ \A n \in ToSet(history[feed.from]) :
         n.id <= feed.read => n \in ToSet(feed.answer)

KnownShown ==
  feed.fetch = "done" =>
    /\ feed.from \in Replicas
    /\ \A n \in ToSet(history[feed.from]) :
         n.id <= feed.read => n \in ToSet(feed.list) \/ Len(feed.list) = MaxHistory

Typed == TypeOK /\ Shape

IInv ==
  /\ Typed
  /\ Numbered /\ ListBeforeInbox /\ TwiceIfKnown
  /\ AnswerComplete /\ KnownShown /\ FeedComplete

-----------------------------------------------------------------------------
(* Lemmas about the sequences.                                             *)

\* A card in front of a list that is capped: the list one place on, without
\* what no longer fits.
LEMMA CappedFront ==
  ASSUME NEW S, NEW n \in S, NEW s \in Seq(S), Len(s) <= MaxHistory
  PROVE  LET c == Capped(<<n>> \o s)
         IN  /\ c \in Seq(S)
             /\ Len(c) = IF Len(s) = MaxHistory THEN MaxHistory ELSE Len(s) + 1
             /\ 1 \in DOMAIN c /\ c[1] = n
             /\ \A i \in DOMAIN c : i # 1 => i - 1 \in DOMAIN s /\ c[i] = s[i - 1]
  <1> DEFINE w == <<n>> \o s
  <1>1. /\ w \in Seq(S) /\ Len(w) = Len(s) + 1 /\ w[1] = n
        /\ \A i \in 1..Len(w) : i # 1 => i - 1 \in 1..Len(s) /\ w[i] = s[i - 1]
    OBVIOUS
  <1> HIDE DEF w
  <1>2. CASE Len(w) > MaxHistory
    <2>1. Capped(w) = SubSeq(w, 1, MaxHistory)
      BY <1>2 DEF Capped
    <2> QED BY <1>1, <1>2, <2>1, HistoryAssumption DEF w
  <1>3. CASE ~(Len(w) > MaxHistory)
    <2>1. Capped(w) = SubSeq(w, 1, Len(w))
      BY <1>3 DEF Capped
    <2>2. SubSeq(w, 1, Len(w)) = w
      BY <1>1
    <2>3. Len(w) <= MaxHistory /\ Len(s) # MaxHistory
      BY <1>1, <1>3, HistoryAssumption
    <2>4. Capped(<<n>> \o s) = w
      BY <2>1, <2>2 DEF w
    <2> QED BY <1>1, <2>3, <2>4
  <1> QED BY <1>2, <1>3 DEF w

\* What was in the list is still there, unless it is full now.
LEMMA CappedKeeps ==
  ASSUME NEW S, NEW n \in S, NEW s \in Seq(S), Len(s) <= MaxHistory
  PROVE  LET c == Capped(<<n>> \o s)
         IN  /\ n \in ToSet(c)
             /\ ToSet(c) \subseteq {n} \cup ToSet(s)
             /\ \/ Len(c) = MaxHistory
                \/ ToSet(c) = {n} \cup ToSet(s)
  <1> DEFINE c == Capped(<<n>> \o s)
  <1>1. /\ c \in Seq(S)
        /\ Len(c) = IF Len(s) = MaxHistory THEN MaxHistory ELSE Len(s) + 1
        /\ 1 \in DOMAIN c /\ c[1] = n
        /\ \A i \in DOMAIN c : i # 1 => i - 1 \in DOMAIN s /\ c[i] = s[i - 1]
    BY CappedFront
  <1> HIDE DEF c
  <1>2. n \in ToSet(c) /\ ToSet(c) \subseteq {n} \cup ToSet(s)
    BY <1>1 DEF ToSet
  <1>3. ASSUME Len(c) # MaxHistory, NEW m \in ToSet(s)
        PROVE  m \in ToSet(c)
    <2>1. PICK i \in DOMAIN s : m = s[i]
      BY DEF ToSet
    <2>2. i + 1 \in DOMAIN c /\ i + 1 # 1 /\ (i + 1) - 1 = i
      BY <1>1, <1>3, <2>1
    <2>3. c[i + 1] = m
      BY <1>1, <2>1, <2>2
    <2> QED BY <2>2, <2>3 DEF ToSet
  <1> QED BY <1>2, <1>3 DEF c

LEMMA AppendShape ==
  ASSUME NEW S, NEW n \in S, NEW s \in Seq(S)
  PROVE  /\ Append(s, n) \in Seq(S)
         /\ DOMAIN Append(s, n) = 1 .. Len(s) + 1
         /\ \A i \in DOMAIN s : i \in 1 .. Len(s) /\ Append(s, n)[i] = s[i]
         /\ Append(s, n)[Len(s) + 1] = n
         /\ ToSet(Append(s, n)) = ToSet(s) \cup {n}
  BY DEF ToSet

LEMMA TailShape ==
  ASSUME NEW S, NEW s \in Seq(S), s # <<>>
  PROVE  /\ Head(s) \in S /\ Tail(s) \in Seq(S)
         /\ 1 \in DOMAIN s /\ Head(s) = s[1]
         /\ \A i \in DOMAIN Tail(s) : i + 1 \in DOMAIN s /\ Tail(s)[i] = s[i + 1]
         /\ ToSet(s) = {Head(s)} \cup ToSet(Tail(s))
  <1>1. /\ Head(s) \in S /\ Tail(s) \in Seq(S) /\ Len(s) \in Nat \ {0}
        /\ Len(Tail(s)) = Len(s) - 1
        /\ 1 \in DOMAIN s /\ Head(s) = s[1]
        /\ \A i \in DOMAIN Tail(s) : i + 1 \in DOMAIN s /\ Tail(s)[i] = s[i + 1]
    OBVIOUS
  <1>2. ASSUME NEW m \in ToSet(s), m # Head(s)
        PROVE  m \in ToSet(Tail(s))
    <2>1. PICK i \in DOMAIN s : m = s[i]
      BY DEF ToSet
    <2>2. i - 1 \in DOMAIN Tail(s) /\ Tail(s)[i - 1] = m
      BY <1>1, <1>2, <2>1
    <2> QED BY <2>2 DEF ToSet
  <1>3. ToSet(Tail(s)) \subseteq ToSet(s) /\ Head(s) \in ToSet(s)
    BY <1>1 DEF ToSet
  <1> QED BY <1>1, <1>2, <1>3

\* A newer notification keeps the order of the ids, in front of a history ...
LEMMA FrontIds ==
  ASSUME NEW m \in Nat, NEW n \in Notification, n.id = m + 1,
         NEW s \in Seq(Notification), Len(s) <= MaxHistory, IdsWithin(s, m), FallingIds(s)
  PROVE  LET c == Capped(<<n>> \o s) IN IdsWithin(c, m + 1) /\ FallingIds(c)
  <1> DEFINE c == Capped(<<n>> \o s)
  <1>1. /\ c \in Seq(Notification) /\ c[1] = n
        /\ \A i \in DOMAIN c : i \in Nat \ {0} /\ (i # 1 => i - 1 \in DOMAIN s /\ c[i] = s[i - 1])
    BY CappedFront
  <1> HIDE DEF c
  <1>2. \A i \in DOMAIN s : s[i].id \in 1 .. m
    BY DEF IdsWithin
  <1>3. \A i \in DOMAIN c : i # 1 => c[i].id \in 1 .. m
    BY <1>1, <1>2
  <1>4. IdsWithin(c, m + 1)
    BY <1>1, <1>3 DEF IdsWithin
  <1>5. ASSUME NEW i \in DOMAIN c, NEW j \in DOMAIN c, i < j
        PROVE  c[i].id > c[j].id
    <2>1. CASE i = 1
      BY <1>1, <1>3, <1>5, <2>1
    <2>2. CASE i # 1
      <3>1. /\ i - 1 \in DOMAIN s /\ j - 1 \in DOMAIN s /\ i - 1 < j - 1
            /\ c[i] = s[i - 1] /\ c[j] = s[j - 1]
        BY <1>1, <1>5, <2>2
      <3> QED BY <3>1 DEF FallingIds
    <2> QED BY <2>1, <2>2
  <1> QED BY <1>4, <1>5 DEF FallingIds, c

\* ... and at the end of a stream.
LEMMA AppendIds ==
  ASSUME NEW m \in Nat, NEW n \in Notification, n.id = m + 1,
         NEW s \in Seq(Notification), IdsWithin(s, m), RisingIds(s)
  PROVE  IdsWithin(Append(s, n), m + 1) /\ RisingIds(Append(s, n))
  <1> DEFINE a == Append(s, n)
  <1>0. /\ DOMAIN s = 1 .. Len(s) /\ Len(s) \in Nat
        /\ DOMAIN a = 1 .. Len(s) + 1 /\ a[Len(s) + 1] = n
        /\ \A i \in DOMAIN s : a[i] = s[i]
    BY AppendShape
  <1> HIDE DEF a
  <1>1. /\ \A i \in DOMAIN a : (i \in DOMAIN s /\ a[i] = s[i]) \/ (i = Len(s) + 1 /\ a[i] = n)
        /\ \A i \in DOMAIN s : i <= Len(s) /\ i \in Nat
        /\ \A i \in DOMAIN a : i \in Nat /\ i <= Len(s) + 1
        /\ Len(s) \in Nat
    BY <1>0
  <1>2. \A i \in DOMAIN s : s[i].id \in 1 .. m
    BY DEF IdsWithin
  <1>3. IdsWithin(a, m + 1)
    BY <1>1, <1>2 DEF IdsWithin
  <1>4. ASSUME NEW i \in DOMAIN a, NEW j \in DOMAIN a, i < j
        PROVE  a[i].id < a[j].id
    <2>1. i \in DOMAIN s /\ a[i] = s[i]
      BY <1>1, <1>4
    <2>2. CASE j \in DOMAIN s /\ a[j] = s[j]
      BY <1>4, <2>1, <2>2 DEF RisingIds
    <2>3. CASE a[j] = n
      BY <1>2, <2>1, <2>3
    <2> QED BY <1>1, <2>2, <2>3
  <1> QED BY <1>3, <1>4 DEF RisingIds, a

LEMMA EmptyShape ==
  /\ \A S : <<>> \in Seq(S)
  /\ ToSet(<<>>) = {} /\ FallingIds(<<>>) /\ RisingIds(<<>>)
  /\ \A n : IdsWithin(<<>>, n)
  BY DEF ToSet, FallingIds, RisingIds, IdsWithin

-----------------------------------------------------------------------------
(* The types.                                                              *)

LEMMA TypedInit ==
  ASSUME Init
  PROVE  Typed
  <1> USE HistoryAssumption, FeedBounds, EmptyShape
  <1>1. ServiceTypeOK
    BY DEF Init, ServiceInit, ServiceTypeOK, NoStream
  <1>2. TypeOK
    BY <1>1 DEF Init, ServiceInit, TypeOK, Closed
  <1>3. Shape
    BY DEF Init, ServiceInit, Shape, Stream, NoStream, Feed, Closed
  <1> QED BY <1>2, <1>3 DEF Typed

\* What a message makes of the history and the stream.
Note(r, p) == [id |-> consumed + 1, part |-> p, offset |-> cursor[r][p] + 1]

LEMMA Recording ==
  ASSUME Typed, NEW r \in Replicas, NEW p \in Partitions, HandleMessage(r, p)
  PROVE  /\ Note(r, p) \in Notification /\ Note(r, p).id = consumed + 1
         /\ consumed' = consumed + 1
         /\ history' \in [Replicas -> Seq(Notification)]
         /\ history'[r] = Capped(<<Note(r, p)>> \o history[r])
         /\ Len(history[r]) <= MaxHistory /\ Len(history'[r]) <= MaxHistory
         /\ \A k \in Replicas \ {r} : history'[k] = history[k]
         /\ stream' \in Stream /\ stream'.to = stream.to
         /\ stream'.inbox = IF stream.to = r THEN Append(stream.inbox, Note(r, p))
                            ELSE stream.inbox
  <1> DEFINE n == Note(r, p)
  <1>1. /\ history \in [Replicas -> Seq(Notification)] /\ Len(history[r]) <= MaxHistory
        /\ stream \in Stream
    BY DEF Typed, TypeOK, ServiceTypeOK, Shape
  <1>2. n \in Notification /\ n.id = consumed + 1 /\ consumed' = consumed + 1
    BY DEF Typed, TypeOK, ServiceTypeOK, Shape, HandleMessage, Notification, Note
  <1>3. /\ history' = [history EXCEPT ![r] = Capped(<<n>> \o @)]
        /\ stream' = IF stream.to = r THEN [stream EXCEPT !.inbox = Append(@, n)] ELSE stream
    BY DEF HandleMessage, Record, Note
  <1> HIDE DEF n
  <1>4. /\ Capped(<<n>> \o history[r]) \in Seq(Notification)
        /\ Len(Capped(<<n>> \o history[r])) <= MaxHistory
    BY <1>1, <1>2, CappedFront, HistoryAssumption
  <1>5. Append(stream.inbox, n) \in Seq(Notification)
    BY <1>1, <1>2, AppendShape DEF Stream
  <1>6. /\ history' \in [Replicas -> Seq(Notification)]
        /\ history'[r] = Capped(<<n>> \o history[r])
        /\ \A k \in Replicas \ {r} : history'[k] = history[k]
    BY <1>1, <1>3, <1>4
  <1>7. /\ stream' \in Stream /\ stream'.to = stream.to
        /\ stream'.inbox = IF stream.to = r THEN Append(stream.inbox, n) ELSE stream.inbox
    BY <1>1, <1>3, <1>5 DEF Stream
  <1> QED BY <1>1, <1>2, <1>4, <1>6, <1>7 DEF n

LEMMA TypedService ==
  ASSUME Typed, ServiceNext, UNCHANGED feed
  PROVE  Typed'
  <1> USE DEF Typed
  <1>0. Disturb => disturbances' \in 0 .. MaxDisturbances
    BY FeedBounds DEF Disturb, TypeOK, ServiceTypeOK
  <1>1. ASSUME NEW p \in Partitions, Publish(p)
        PROVE  Typed'
    BY <1>1, FeedBounds DEF Publish, TypeOK, ServiceTypeOK, Shape
  <1>2. ASSUME NEW r \in Replicas, Start(r)
        PROVE  Typed'
    BY <1>2 DEF Start, TypeOK, ServiceTypeOK, Shape
  <1>3. ASSUME NEW r \in Replicas, Crash(r)
        PROVE  Typed'
    BY <1>0, <1>3, EmptyShape, HistoryAssumption
       DEF Crash, TypeOK, ServiceTypeOK, Shape, NoStream, Stream
  <1>4. ASSUME NEW r \in Replicas, Clear(r)
        PROVE  Typed'
    BY <1>0, <1>4, EmptyShape, HistoryAssumption DEF Clear, TypeOK, ServiceTypeOK, Shape
  <1>5. ASSUME NEW r \in Replicas, NEW p \in Partitions, Assign(p, r)
        PROVE  Typed'
    <2> DEFINE f == Reading(cursor[r], p, committed[p])
    <2>1. /\ DOMAIN f = {p} \cup DOMAIN cursor[r]
          /\ f[p] = committed[p]
          /\ \A q \in DOMAIN cursor[r] : q # p => f[q] = cursor[r][q]
      BY DEF Reading
    <2> HIDE DEF f
    <2>2. cursor' = [cursor EXCEPT ![r] = f]
      BY <1>5 DEF Assign, f
    <2>3. /\ UNCHANGED <<published, committed, replica, history, consumed, stream, recorded>>
          /\ owner' = [owner EXCEPT ![p] = r]
          /\ disturbances' \in 0 .. MaxDisturbances
      BY <1>0, <1>5 DEF Assign, TypeOK, ServiceTypeOK
    <2>4. \A k \in Replicas : /\ DOMAIN cursor'[k] \subseteq Partitions
                              /\ \A q \in DOMAIN cursor'[k] : cursor'[k][q] \in 0 .. published[q]
      <3>1. committed[p] \in 0 .. published[p]
        BY DEF TypeOK, ServiceTypeOK, Shape
      <3> QED
        BY <2>1, <2>2, <3>1 DEF TypeOK, ServiceTypeOK, Shape
    <2> QED
      BY <2>2, <2>3, <2>4 DEF TypeOK, ServiceTypeOK, Shape
  <1>6. ASSUME NEW r \in Replicas, NEW p \in Partitions, Revoked(r, p)
        PROVE  Typed'
    BY <1>6 DEF Revoked, TypeOK, ServiceTypeOK, Shape
  <1>7. ASSUME NEW r \in Replicas, NEW p \in Partitions, HandleMessage(r, p)
        PROVE  Typed'
    <2> DEFINE o == cursor[r][p] + 1
    <2>1. /\ o \in 1 .. published[p] /\ o \in 1 .. MaxPublished
          /\ p \in DOMAIN cursor[r]
      BY <1>7, FeedBounds DEF HandleMessage, TypeOK, ServiceTypeOK
    <2>2. /\ cursor' = [cursor EXCEPT ![r] = [cursor[r] EXCEPT ![p] = o]]
          /\ recorded' = recorded \cup {<<p, o>>}
          /\ UNCHANGED <<published, owner, replica, disturbances>>
      BY <1>7 DEF HandleMessage
    <2>3. cursor'[r][p] = o
      BY <2>1, <2>2 DEF Shape
    <2>4. committed' = committed \/ committed' = [committed EXCEPT ![p] = o]
      BY <1>7, <2>3 DEF HandleMessage
    <2> HIDE DEF o
    <2>5. \A k \in Replicas : /\ DOMAIN cursor'[k] \subseteq Partitions
                              /\ \A q \in DOMAIN cursor'[k] : cursor'[k][q] \in 0 .. published[q]
      BY <2>1, <2>2 DEF TypeOK, ServiceTypeOK, Shape
    <2>6. /\ committed' \in [Partitions -> 0 .. MaxPublished]
          /\ \A q \in Partitions : committed'[q] <= published[q]
      <3>1. /\ committed \in [Partitions -> 0 .. MaxPublished]
            /\ \A q \in Partitions : committed[q] <= published[q]
            /\ o \in 0 .. MaxPublished /\ o <= published[p]
        BY <2>1, FeedBounds DEF TypeOK, ServiceTypeOK, Shape
      <3>2. CASE committed' = committed
        BY <3>1, <3>2
      <3>3. CASE committed' = [committed EXCEPT ![p] = o]
        BY <3>1, <3>3
      <3> QED BY <2>4, <3>2, <3>3
    <2>7. recorded' \subseteq Events
      BY <2>1, <2>2 DEF TypeOK, ServiceTypeOK, Events
    <2>8. \A k \in Replicas : history'[k] \in Seq(Notification) /\ Len(history'[k]) <= MaxHistory
      BY <1>7, Recording DEF TypeOK, ServiceTypeOK
    <2>9. ServiceTypeOK'
      BY <1>7, <2>2, <2>5, <2>6, <2>7, <2>8, Recording DEF TypeOK, ServiceTypeOK, Stream
    <2>10. consumed' = consumed + 1 /\ consumed' \in Nat
      BY <1>7 DEF HandleMessage, Shape
    <2>11. TypeOK'
      BY <2>9, <2>10 DEF TypeOK, Shape
    <2>12. DOMAIN cursor' = Replicas
      BY <2>2 DEF Shape
    <2> QED
      BY <1>7, <2>2, <2>6, <2>10, <2>11, <2>12, Recording DEF Shape
  <1> QED
    BY <1>1, <1>2, <1>3, <1>4, <1>5, <1>6, <1>7 DEF ServiceNext

LEMMA TypedScreen ==
  ASSUME Typed,
         \/ Open \/ Leave \/ Limpiar \/ LoadHistory \/ FetchFails \/ Deliver \/ Break
         \/ \E r \in Replicas : ReadHistory(r) \/ Subscribe(r),
         feed.fetch = "answered" => Len(feed.answer) <= MaxHistory
  PROVE  Typed'
  <1> USE DEF Typed
  <1>0. Disturb => disturbances' \in 0 .. MaxDisturbances
    BY FeedBounds DEF Disturb, TypeOK, ServiceTypeOK
  <1>1. ASSUME feed' \in Feed, UNCHANGED <<service>>, stream' \in Stream,
               disturbances' \in 0 .. MaxDisturbances,
               Len(feed'.list) <= MaxHistory,
               feed'.read <= consumed, feed'.blind <= consumed
        PROVE  Typed'
    <2>1. ServiceTypeOK'
      BY <1>1 DEF TypeOK, ServiceTypeOK, service, Stream
    <2>2. Shape'
      BY <1>1 DEF Shape, service
    <2>3. consumed' = consumed /\ consumed \in Nat
      BY <1>1 DEF Shape, service
    <2> QED
      BY <1>1, <2>1, <2>2, <2>3 DEF TypeOK, Feed
  <1>2. /\ feed \in Feed /\ stream \in Stream /\ disturbances \in 0 .. MaxDisturbances
        /\ Len(feed.list) <= MaxHistory /\ consumed \in Nat
        /\ feed.read <= consumed /\ feed.blind <= consumed
        /\ \A r \in Replicas : history[r] \in Seq(Notification)
    BY DEF TypeOK, ServiceTypeOK, Shape
  <1>3. Closed \in Feed /\ Closed.list = <<>> /\ Closed.read = 0 /\ Closed.blind = 0
        /\ NoStream \in Stream /\ <<>> \in Seq(Notification)
    BY EmptyShape DEF Closed, Feed, NoStream, Stream
  <1>4. CASE Open
    <2>1. /\ feed' \in Feed /\ feed'.list = <<>> /\ feed'.read = 0 /\ feed'.blind = 0
      BY <1>3, <1>4 DEF Open, Closed, Feed
    <2> QED BY <1>1, <1>2, <1>4, <2>1, HistoryAssumption DEF Open
  <1>5. CASE Leave
    BY <1>1, <1>2, <1>3, <1>5, HistoryAssumption DEF Leave
  <1>6. CASE Limpiar
    <2>1. /\ feed' \in Feed /\ feed'.list = <<>> /\ feed'.blind = consumed
          /\ feed'.read \in {0, feed.read}
      BY <1>2, <1>3, <1>6 DEF Limpiar, Feed
    <2> QED BY <1>1, <1>2, <1>6, <2>1, HistoryAssumption DEF Limpiar
  <1>7. CASE LoadHistory
    <2>1. /\ feed' \in Feed /\ feed'.list = feed.answer /\ feed'.blind = consumed
          /\ feed'.read = feed.read
      BY <1>2, <1>3, <1>7 DEF LoadHistory, Feed
    <2> QED BY <1>1, <1>2, <1>7, <2>1 DEF LoadHistory
  <1>8. CASE FetchFails
    <2>1. /\ feed' \in Feed /\ feed'.list = feed.list /\ feed'.blind = feed.blind
          /\ feed'.read = 0
      BY <1>2, <1>3, <1>8 DEF FetchFails, Feed
    <2> QED BY <1>1, <1>2, <1>8, <2>1 DEF FetchFails
  <1>9. CASE Deliver
    <2>1. /\ stream.inbox \in Seq(Notification) /\ stream.inbox # <<>>
          /\ feed.list \in Seq(Notification)
      BY <1>2, <1>9 DEF Deliver, Stream, Feed
    <2>2. Head(stream.inbox) \in Notification /\ Tail(stream.inbox) \in Seq(Notification)
      BY <2>1, TailShape
    <2> DEFINE c == Capped(<<Head(stream.inbox)>> \o feed.list)
    <2>3. c \in Seq(Notification) /\ Len(c) <= MaxHistory
      BY <1>2, <2>1, <2>2, CappedFront, HistoryAssumption
    <2>4. /\ feed' = [feed EXCEPT !.list = c]
          /\ stream' = [stream EXCEPT !.inbox = Tail(stream.inbox)]
          /\ UNCHANGED <<service, disturbances>>
      BY <1>9 DEF Deliver
    <2> HIDE DEF c
    <2> QED
      BY <1>1, <1>2, <2>2, <2>3, <2>4 DEF Feed, Stream
  <1>10. CASE Break
    <2>1. /\ feed' \in Feed /\ feed'.list = feed.list /\ feed'.blind = feed.blind
          /\ feed'.read = feed.read
      BY <1>2, <1>10 DEF Break, Feed
    <2> QED BY <1>0, <1>1, <1>2, <1>3, <1>10, <2>1 DEF Break
  <1>11. ASSUME NEW r \in Replicas, ReadHistory(r)
         PROVE  Typed'
    <2>1. /\ feed' \in Feed /\ feed'.list = feed.list /\ feed'.blind = feed.blind
          /\ feed'.read = consumed
      BY <1>2, <1>11 DEF ReadHistory, Feed
    <2>2. /\ Len(feed'.list) <= MaxHistory
          /\ feed'.read <= consumed /\ feed'.blind <= consumed
      BY <1>2, <2>1
    <2>3. UNCHANGED <<service, stream, disturbances>>
      BY <1>11 DEF ReadHistory
    <2> QED BY <1>1, <1>2, <2>1, <2>2, <2>3
  <1>12. ASSUME NEW r \in Replicas, Subscribe(r)
         PROVE  Typed'
    <2>1. /\ feed' \in Feed /\ feed'.list = feed.list /\ feed'.blind = consumed
          /\ feed'.read = feed.read
      BY <1>2, <1>12 DEF Subscribe, Feed
    <2>2. stream' \in Stream
      BY <1>3, <1>12 DEF Subscribe, Stream
    <2> QED BY <1>1, <1>2, <1>12, <2>1, <2>2 DEF Subscribe
  <1> QED
    BY <1>4, <1>5, <1>6, <1>7, <1>8, <1>9, <1>10, <1>11, <1>12

-----------------------------------------------------------------------------
(* The invariant: the steps of the service.                                *)

LEMMA IInvInit ==
  ASSUME Init
  PROVE  IInv
  <1>1. /\ \A r \in Replicas : history[r] = <<>>
        /\ stream.inbox = <<>> /\ feed.list = <<>> /\ feed.fetch = "none"
    BY DEF Init, ServiceInit, NoStream, Closed
  <1> QED
    BY <1>1, TypedInit, EmptyShape
       DEF IInv, Numbered, ListBeforeInbox, TwiceIfKnown, AnswerComplete, KnownShown,
           FeedComplete

\* A crash, a DELETE or the broker takes from the histories and the stream at
\* most all they have.
LEMMA IInvForgets ==
  ASSUME IInv, Typed', UNCHANGED <<feed, consumed>>,
         \A r \in Replicas : history'[r] \in {history[r], <<>>},
         stream' \in {stream, NoStream}
  PROVE  IInv'
  <1> USE DEF IInv
  <1>1. Numbered'
    BY EmptyShape DEF Numbered, NoStream, IdsWithin, RisingIds
  <1>2. ListBeforeInbox'
    BY DEF ListBeforeInbox, Known, NoStream
  <1>3. TwiceIfKnown'
    BY DEF TwiceIfKnown, Known
  <1>4. AnswerComplete'
    BY EmptyShape DEF AnswerComplete
  <1>5. KnownShown'
    BY EmptyShape DEF KnownShown
  <1>6. FeedComplete'
    <2>1. CASE stream' = NoStream
      BY <2>1 DEF FeedComplete, NoStream
    <2>2. CASE stream' = stream
      <3>1. stream.to # Nobody => stream.to \in Replicas
        BY DEF Typed, TypeOK, ServiceTypeOK
      <3> QED
        BY <2>2, <3>1, EmptyShape DEF FeedComplete
    <2> QED BY <2>1, <2>2
  <1> QED
    BY <1>1, <1>2, <1>3, <1>4, <1>5, <1>6

\* A message is recorded: its notification is newer than all others, in front
\* of the history and at the end of the stream.
LEMMA IInvRecords ==
  ASSUME IInv, Typed', NEW r \in Replicas, NEW p \in Partitions, HandleMessage(r, p),
         UNCHANGED feed
  PROVE  IInv'
  <1> DEFINE n == Note(r, p)
             old == history[r]
             new == Capped(<<n>> \o old)
  <1>1. /\ n \in Notification /\ n.id = consumed + 1 /\ consumed' = consumed + 1
        /\ history'[r] = new /\ Len(old) <= MaxHistory
        /\ \A k \in Replicas \ {r} : history'[k] = history[k]
        /\ stream'.to = stream.to
        /\ stream'.inbox = IF stream.to = r THEN Append(stream.inbox, n) ELSE stream.inbox
    BY Recording DEF IInv
  <1>2. /\ old \in Seq(Notification) /\ stream.inbox \in Seq(Notification)
        /\ feed.list \in Seq(Notification) /\ consumed \in Nat
        /\ feed.read \in 0 .. consumed /\ feed.blind \in 0 .. consumed
    BY DEF IInv, Typed, TypeOK, ServiceTypeOK, Shape
  <1>3. /\ new \in Seq(Notification) /\ 1 \in DOMAIN new /\ new[1] = n
        /\ \A i \in DOMAIN new : i # 1 => i - 1 \in DOMAIN old /\ new[i] = old[i - 1]
        /\ ToSet(new) \subseteq {n} \cup ToSet(old)
    BY <1>1, <1>2, CappedFront, CappedKeeps
  <1>4. LET a == Append(stream.inbox, n)
        IN  /\ DOMAIN a = 1 .. Len(stream.inbox) + 1 /\ a[Len(stream.inbox) + 1] = n
            /\ \A i \in DOMAIN stream.inbox : i \in 1 .. Len(stream.inbox) /\ a[i] = stream.inbox[i]
            /\ ToSet(a) = ToSet(stream.inbox) \cup {n}
    BY <1>1, <1>2, AppendShape
  <1>5. \A m : m.id \in 1 .. consumed => m.id \in 1 .. consumed + 1 /\ m.id < n.id
    BY <1>1, <1>2
  <1> HIDE DEF n, new, old
  <1>6. Numbered'
    <2>1. IdsWithin(new, consumed + 1) /\ FallingIds(new)
      BY <1>1, <1>2, FrontIds DEF IInv, Numbered, old, new
    <2>2. \A k \in Replicas \ {r} : IdsWithin(history[k], consumed + 1) /\ FallingIds(history[k])
      BY <1>5 DEF IInv, Numbered, IdsWithin
    <2>3. IdsWithin(stream.inbox, consumed + 1) /\ RisingIds(stream.inbox)
      BY <1>5 DEF IInv, Numbered, IdsWithin
    <2>4. IdsWithin(Append(stream.inbox, n), consumed + 1) /\ RisingIds(Append(stream.inbox, n))
      BY <1>1, <1>2, AppendIds DEF IInv, Numbered
    <2>5. IdsWithin(feed.list, consumed + 1)
      BY <1>5 DEF IInv, Numbered, IdsWithin
    <2> QED
      BY <1>1, <2>1, <2>2, <2>3, <2>4, <2>5 DEF Numbered
  <1>7. ListBeforeInbox'
    <2>1. \A i \in DOMAIN feed.list : feed.list[i].id < n.id
      BY <1>5 DEF IInv, Numbered, IdsWithin
    <2> QED
      BY <1>1, <1>2, <1>4, <2>1 DEF IInv, ListBeforeInbox, Known
  <1>8. TwiceIfKnown'
    BY DEF IInv, TwiceIfKnown, Known
  <1>9. \A k \in Replicas : ToSet(history'[k]) \subseteq ToSet(history[k]) \cup {n}
    BY <1>1, <1>3 DEF old
  <1>10. ~(n.id <= feed.read)
    BY <1>1, <1>2
  <1>11. AnswerComplete'
    BY <1>9, <1>10 DEF IInv, AnswerComplete
  <1>12. KnownShown'
    BY <1>9, <1>10 DEF IInv, KnownShown
  <1>13. FeedComplete'
    <2> SUFFICES ASSUME feed.fetch = "done", stream.to # Nobody, stream.to = feed.from,
                        NEW m \in ToSet(history'[stream.to])
                 PROVE  \/ m \in ToSet(feed.list) \/ m \in ToSet(stream'.inbox)
                        \/ Len(feed.list) = MaxHistory
                        \/ feed.read < m.id /\ m.id <= feed.blind
      BY <1>1 DEF FeedComplete
    <2>1. stream.to \in Replicas
      BY DEF IInv, Typed, TypeOK, ServiceTypeOK
    <2>2. CASE m = n /\ stream.to = r
      BY <1>1, <1>4, <2>2
    <2>3. CASE m \in ToSet(history[stream.to])
      <3>1. ToSet(stream.inbox) \subseteq ToSet(stream'.inbox)
        BY <1>1, <1>4
      <3> QED BY <2>3, <3>1 DEF IInv, FeedComplete
    <2> QED
      BY <1>1, <1>3, <2>1, <2>2, <2>3 DEF old
  <1> QED
    BY <1>6, <1>7, <1>8, <1>11, <1>12, <1>13 DEF IInv

LEMMA IInvService ==
  ASSUME IInv, ServiceNext, UNCHANGED feed
  PROVE  IInv'
  <1>1. Typed'
    BY TypedService DEF IInv
  <1>2. CASE \E r \in Replicas, p \in Partitions : HandleMessage(r, p)
    BY <1>1, <1>2, IInvRecords
  <1>3. CASE \/ \E p \in Partitions : Publish(p)
             \/ \E r \in Replicas : \/ Start(r) \/ Crash(r) \/ Clear(r)
                                   \/ \E p \in Partitions : Assign(p, r) \/ Revoked(r, p)
    <2>1. /\ consumed' = consumed /\ stream' \in {stream, NoStream}
          /\ \/ history' = history
             \/ \E r \in Replicas : history' = [history EXCEPT ![r] = <<>>]
      BY <1>3 DEF Publish, Start, Crash, Clear, Assign, Revoked
    <2>2. \A r \in Replicas : history'[r] \in {history[r], <<>>}
      BY <2>1 DEF IInv, Typed, Shape
    <2> QED
      BY <1>1, <2>1, <2>2, IInvForgets
  <1> QED
    BY <1>2, <1>3 DEF ServiceNext

-----------------------------------------------------------------------------
(* The invariant: the steps of the screen.                                 *)

\* What a step of the screen leaves alone.
LEMMA ScreenFacts ==
  ASSUME IInv
  PROVE  /\ feed \in Feed /\ stream \in Stream /\ consumed \in Nat
         /\ history \in [Replicas -> Seq(Notification)]
         /\ \A r \in Replicas : Len(history[r]) <= MaxHistory
         /\ Len(feed.list) <= MaxHistory
         /\ feed.read \in 0 .. consumed /\ feed.blind \in 0 .. consumed
         /\ stream.to \in Replicas \cup {Nobody}
         /\ \A n : IdsWithin(<<>>, n)
         /\ RisingIds(<<>>) /\ FallingIds(<<>>) /\ ToSet(<<>>) = {}
  BY EmptyShape DEF IInv, Typed, TypeOK, ServiceTypeOK, Shape, Stream

\* Every notification a replica remembers has been made.
LEMMA Remembered ==
  ASSUME IInv, NEW r \in Replicas, NEW n \in ToSet(history[r])
  PROVE  n.id \in 1 .. consumed
  BY DEF IInv, Numbered, IdsWithin, ToSet

\* The screen goes: nothing is on it, nor on its way.
LEMMA IInvLeft ==
  ASSUME IInv, Typed', Open \/ Leave
  PROVE  IInv'
  <1>1. /\ feed'.list = <<>> /\ feed'.fetch \in {"none", "asked"}
        /\ stream' \in {stream, NoStream} /\ UNCHANGED <<consumed, history>>
    <2>1. CASE Open
      BY <2>1 DEF Open, Closed, service
    <2>2. CASE Leave
      BY <2>2 DEF Leave, Closed, service
    <2> QED BY <2>1, <2>2
  <1>2. Numbered'
    BY <1>1, ScreenFacts DEF IInv, Numbered, NoStream
  <1> QED
    BY <1>1, <1>2
       DEF IInv, ListBeforeInbox, TwiceIfKnown, AnswerComplete, KnownShown, FeedComplete

LEMMA IInvLimpiar ==
  ASSUME IInv, Typed', Limpiar
  PROVE  IInv'
  <1>1. /\ feed'.list = <<>> /\ feed'.blind = consumed
        /\ feed'.fetch = feed.fetch /\ feed'.answer = feed.answer /\ feed'.from = feed.from
        /\ feed'.read = IF feed.fetch = "done" THEN 0 ELSE feed.read
        /\ UNCHANGED <<consumed, history, stream>>
    BY ScreenFacts DEF Limpiar, service, Feed
  <1>2. Numbered'
    BY <1>1, ScreenFacts DEF IInv, Numbered
  <1>3. ListBeforeInbox' /\ TwiceIfKnown'
    BY <1>1 DEF ListBeforeInbox, TwiceIfKnown
  <1>4. AnswerComplete'
    BY <1>1 DEF IInv, AnswerComplete
  <1>5. KnownShown'
    BY <1>1, Remembered DEF IInv, KnownShown
  <1>6. FeedComplete'
    BY <1>1, Remembered, ScreenFacts DEF FeedComplete
  <1> QED
    BY <1>2, <1>3, <1>4, <1>5, <1>6 DEF IInv

LEMMA IInvReadHistory ==
  ASSUME IInv, Typed', NEW r \in Replicas, ReadHistory(r)
  PROVE  IInv'
  <1>1. /\ feed.fetch = "asked" /\ feed'.fetch = "answered"
        /\ feed'.answer = history[r] /\ feed'.from = r /\ feed'.read = consumed
        /\ feed'.list = feed.list
        /\ UNCHANGED <<consumed, history, stream>>
    BY ScreenFacts DEF ReadHistory, service, Feed
  <1>2. Numbered'
    BY <1>1 DEF IInv, Numbered
  <1>3. ListBeforeInbox' /\ TwiceIfKnown'
    BY <1>1 DEF IInv, ListBeforeInbox, TwiceIfKnown, Known
  <1>4. AnswerComplete'
    BY <1>1, ScreenFacts DEF IInv, Numbered, AnswerComplete
  <1> QED
    BY <1>1, <1>2, <1>3, <1>4 DEF IInv, KnownShown, FeedComplete

\* The history that was read comes on the screen: its notifications fall, so
\* none of them is there twice, and what the stream delivered meanwhile is lost
\* (the blind spot).
LEMMA IInvLoadHistory ==
  ASSUME IInv, Typed', LoadHistory
  PROVE  IInv'
  <1>1. /\ feed.fetch = "answered" /\ feed'.fetch = "done"
        /\ feed'.list = feed.answer /\ feed'.from = feed.from
        /\ feed'.read = feed.read /\ feed'.blind = consumed
        /\ UNCHANGED <<consumed, history, stream>>
    BY ScreenFacts DEF LoadHistory, service, Feed
  <1>2. /\ FallingIds(feed.answer) /\ IdsWithin(feed.answer, feed.read)
        /\ feed.from \in Replicas
        /\ \A n \in ToSet(history[feed.from]) : n.id <= feed.read => n \in ToSet(feed.answer)
    BY <1>1 DEF IInv, AnswerComplete
  <1>3. /\ feed.answer \in Seq(Notification)
        /\ \A i \in DOMAIN feed.answer :
             /\ feed.answer[i].id \in 1 .. consumed /\ feed.answer[i].id <= feed.read
    BY <1>2, ScreenFacts DEF IdsWithin, Feed
  <1>4. Numbered'
    BY <1>1, <1>3 DEF IInv, Numbered, IdsWithin
  <1>5. ListBeforeInbox'
    BY <1>1, <1>3 DEF ListBeforeInbox, Known
  <1>6. TwiceIfKnown'
    BY <1>1, <1>3 DEF TwiceIfKnown, Known
  <1>7. KnownShown'
    BY <1>1, <1>2 DEF KnownShown
  <1>8. FeedComplete'
    <2> SUFFICES ASSUME NEW n \in ToSet(history[feed.from])
                 PROVE  \/ n \in ToSet(feed.answer)
                        \/ feed.read < n.id /\ n.id <= consumed
      BY <1>1 DEF FeedComplete
    <2>1. n.id \in 1 .. consumed
      BY <1>2, Remembered
    <2> QED BY <1>2, <2>1, ScreenFacts
  <1> QED
    BY <1>1, <1>4, <1>5, <1>6, <1>7, <1>8 DEF IInv, AnswerComplete

LEMMA IInvFetchFails ==
  ASSUME IInv, Typed', FetchFails
  PROVE  IInv'
  <1>1. /\ feed.fetch \in {"asked", "answered"} /\ feed'.fetch = "failed"
        /\ feed'.list = feed.list
        /\ UNCHANGED <<consumed, history, stream>>
    BY ScreenFacts DEF FetchFails, service, Feed
  <1>2. Numbered'
    BY <1>1 DEF IInv, Numbered
  <1>3. ListBeforeInbox' /\ TwiceIfKnown'
    BY <1>1 DEF IInv, ListBeforeInbox, TwiceIfKnown, Known
  <1> QED
    BY <1>1, <1>2, <1>3 DEF IInv, AnswerComplete, KnownShown, FeedComplete

\* A stream is opened: all that is remembered was made before it was.
LEMMA IInvSubscribe ==
  ASSUME IInv, Typed', NEW r \in Replicas, Subscribe(r)
  PROVE  IInv'
  <1>1. /\ feed' = [feed EXCEPT !.status = "connected", !.blind = consumed]
        /\ stream' = [to |-> r, inbox |-> <<>>]
        /\ UNCHANGED <<consumed, history>>
    BY DEF Subscribe, service
  <1>2. /\ feed'.list = feed.list /\ feed'.fetch = feed.fetch /\ feed'.answer = feed.answer
        /\ feed'.from = feed.from /\ feed'.read = feed.read /\ feed'.blind = consumed
        /\ stream'.to = r /\ stream'.inbox = <<>>
    BY <1>1, ScreenFacts DEF Feed
  <1>3. Numbered'
    BY <1>1, <1>2, ScreenFacts DEF IInv, Numbered
  <1>4. ListBeforeInbox' /\ TwiceIfKnown'
    BY <1>2 DEF IInv, ListBeforeInbox, TwiceIfKnown, Known
  <1>5. AnswerComplete' /\ KnownShown'
    BY <1>1, <1>2 DEF IInv, AnswerComplete, KnownShown
  <1>6. FeedComplete'
    <2> SUFFICES ASSUME feed.fetch = "done", r = feed.from, NEW n \in ToSet(history[r])
                 PROVE  \/ n \in ToSet(feed.list)
                        \/ Len(feed.list) = MaxHistory
                        \/ feed.read < n.id /\ n.id <= consumed
      BY <1>1, <1>2 DEF FeedComplete
    <2>1. n.id \in 1 .. consumed
      BY Remembered
    <2> QED BY <2>1, ScreenFacts DEF IInv, KnownShown
  <1> QED
    BY <1>3, <1>4, <1>5, <1>6 DEF IInv

LEMMA IInvBreak ==
  ASSUME IInv, Typed', Break
  PROVE  IInv'
  <1>1. /\ feed'.list = feed.list /\ feed'.fetch = feed.fetch /\ feed'.answer = feed.answer
        /\ feed'.from = feed.from /\ feed'.read = feed.read
        /\ stream' = NoStream /\ UNCHANGED <<consumed, history>>
    BY ScreenFacts DEF Break, service, Feed
  <1>2. stream'.to = Nobody /\ stream'.inbox = <<>>
    BY <1>1 DEF NoStream
  <1>3. Numbered'
    BY <1>1, <1>2, ScreenFacts DEF IInv, Numbered
  <1>4. ListBeforeInbox' /\ TwiceIfKnown'
    BY <1>1, <1>2 DEF IInv, ListBeforeInbox, TwiceIfKnown, Known
  <1>5. AnswerComplete' /\ KnownShown'
    BY <1>1 DEF IInv, AnswerComplete, KnownShown
  <1> QED
    BY <1>2, <1>3, <1>4, <1>5 DEF IInv, FeedComplete

\* The first notification of the stream comes to the front of the list: newer
\* than all there that the history did not bring, older than all behind it.
LEMMA IInvDeliver ==
  ASSUME IInv, Typed', Deliver
  PROVE  IInv'
  <1> DEFINE h == Head(stream.inbox)
             rest == Tail(stream.inbox)
             c == Capped(<<h>> \o feed.list)
  <1>1. /\ stream.inbox \in Seq(Notification) /\ stream.inbox # <<>>
        /\ feed.list \in Seq(Notification) /\ Len(feed.list) <= MaxHistory
    BY ScreenFacts DEF Deliver, Stream, Feed
  <1>2. /\ h \in Notification /\ rest \in Seq(Notification)
        /\ 1 \in DOMAIN stream.inbox /\ h = stream.inbox[1]
        /\ \A i \in DOMAIN rest : i + 1 \in DOMAIN stream.inbox /\ rest[i] = stream.inbox[i + 1]
        /\ ToSet(stream.inbox) = {h} \cup ToSet(rest)
    BY <1>1, TailShape
  <1>3. /\ c \in Seq(Notification)
        /\ Len(c) = IF Len(feed.list) = MaxHistory THEN MaxHistory ELSE Len(feed.list) + 1
        /\ 1 \in DOMAIN c /\ c[1] = h
        /\ \A i \in DOMAIN c : i # 1 => i - 1 \in DOMAIN feed.list /\ c[i] = feed.list[i - 1]
    BY <1>1, <1>2, CappedFront
  <1>4. /\ h \in ToSet(c)
        /\ Len(c) = MaxHistory \/ ToSet(c) = {h} \cup ToSet(feed.list)
    BY <1>1, <1>2, CappedKeeps
  <1>5. /\ feed' = [feed EXCEPT !.list = c] /\ stream' = [stream EXCEPT !.inbox = rest]
        /\ UNCHANGED <<consumed, history>>
    BY DEF Deliver, service
  <1> HIDE DEF h, rest, c
  <1>6. /\ feed'.list = c /\ feed'.fetch = feed.fetch /\ feed'.answer = feed.answer
        /\ feed'.from = feed.from /\ feed'.read = feed.read /\ feed'.blind = feed.blind
        /\ stream'.to = stream.to /\ stream'.inbox = rest
    BY <1>5, ScreenFacts DEF Feed, Stream
  <1>7. \A i \in DOMAIN rest : h.id < rest[i].id
    <2> SUFFICES ASSUME NEW i \in DOMAIN rest
                 PROVE  h.id < rest[i].id
      OBVIOUS
    <2>1. 1 < i + 1
      BY <1>2
    <2> QED BY <1>2, <2>1 DEF IInv, Numbered, RisingIds
  <1>8. Numbered'
    <2>1. IdsWithin(rest, consumed)
      BY <1>2 DEF IInv, Numbered, IdsWithin
    <2>2. RisingIds(rest)
      <3> SUFFICES ASSUME NEW i \in DOMAIN rest, NEW j \in DOMAIN rest, i < j
                   PROVE  rest[i].id < rest[j].id
        BY DEF RisingIds
      <3>1. i + 1 < j + 1
        BY <1>2
      <3> QED BY <1>2, <3>1 DEF IInv, Numbered, RisingIds
    <2>3. IdsWithin(c, consumed)
      BY <1>2, <1>3 DEF IInv, Numbered, IdsWithin
    <2> QED
      BY <1>5, <1>6, <2>1, <2>2, <2>3 DEF IInv, Numbered
  <1>9. \A i \in DOMAIN feed.list : feed.list[i].id < h.id \/ Known(feed.list[i])
    BY <1>2 DEF IInv, ListBeforeInbox
  <1>10. ListBeforeInbox'
    <2> SUFFICES ASSUME NEW i \in DOMAIN c, NEW j \in DOMAIN rest
                 PROVE  c[i].id < rest[j].id \/ Known(c[i])
      BY <1>6 DEF ListBeforeInbox, Known
    <2>1. CASE i = 1
      BY <1>3, <1>7, <2>1
    <2>2. CASE i # 1
      BY <1>2, <1>3, <2>2 DEF IInv, ListBeforeInbox
    <2> QED BY <2>1, <2>2
  <1>11. TwiceIfKnown'
    <2> SUFFICES ASSUME NEW i \in DOMAIN c, NEW j \in DOMAIN c, i < j, c[i] = c[j]
                 PROVE  Known(c[i])
      BY <1>6 DEF TwiceIfKnown, Known
    <2>1. j # 1 /\ j - 1 \in DOMAIN feed.list /\ c[j] = feed.list[j - 1]
      BY <1>3
    <2>2. CASE i = 1
      <3>1. feed.list[j - 1] = h
        BY <1>3, <2>1, <2>2
      <3>2. ~(h.id < h.id)
        BY <1>2 DEF Notification
      <3> QED BY <1>3, <1>9, <2>1, <2>2, <3>1, <3>2
    <2>3. CASE i # 1
      <3>1. i - 1 \in DOMAIN feed.list /\ c[i] = feed.list[i - 1] /\ i - 1 < j - 1
        BY <1>3, <2>3
      <3> QED BY <2>1, <3>1 DEF IInv, TwiceIfKnown
    <2> QED BY <2>2, <2>3
  <1>12. AnswerComplete'
    BY <1>5, <1>6 DEF IInv, AnswerComplete
  <1>13. KnownShown'
    BY <1>1, <1>3, <1>4, <1>5, <1>6 DEF IInv, KnownShown
  <1>14. FeedComplete'
    BY <1>1, <1>2, <1>3, <1>4, <1>5, <1>6 DEF IInv, FeedComplete
  <1> QED
    BY <1>8, <1>10, <1>11, <1>12, <1>13, <1>14 DEF IInv

LEMMA IInvStep ==
  ASSUME IInv, [Next]_vars
  PROVE  IInv'
  <1>1. CASE ServiceNext /\ UNCHANGED feed
    BY <1>1, IInvService
  <1>2. CASE \/ Open \/ Leave \/ Limpiar \/ LoadHistory \/ FetchFails \/ Deliver \/ Break
             \/ \E r \in Replicas : ReadHistory(r) \/ Subscribe(r)
    <2>1. Typed'
      BY <1>2, TypedScreen DEF IInv, AnswerComplete
    <2> QED
      BY <1>2, <2>1, IInvLeft, IInvLimpiar, IInvLoadHistory, IInvFetchFails, IInvDeliver,
         IInvBreak, IInvReadHistory, IInvSubscribe
  <1>3. CASE UNCHANGED vars
    <2>1. UNCHANGED <<feed, consumed, history, stream>> /\ Typed'
      BY <1>3 DEF vars, service, IInv, Typed, TypeOK, ServiceTypeOK, Shape
    <2> QED
      BY <2>1, IInvForgets
  <1> QED
    BY <1>1, <1>2, <1>3 DEF Next

LEMMA Invariance == Spec => []IInv
  BY IInvInit, IInvStep, PTL DEF Spec

-----------------------------------------------------------------------------
(* What has been read has been recorded.                                   *)

\* No offset, committed or of a replica, is past an event nobody recorded.
ReadIsRecorded ==
  /\ \A p \in Partitions : \A o \in 1 .. committed[p] : <<p, o>> \in recorded
  /\ \A r \in Replicas : \A p \in DOMAIN cursor[r] : \A o \in 1 .. cursor[r][p] :
       <<p, o>> \in recorded

LEMMA ReadIsRecordedStep ==
  ASSUME Typed, ReadIsRecorded, [Next]_vars
  PROVE  ReadIsRecorded'
  <1>1. ASSUME NEW r \in Replicas, NEW p \in Partitions, HandleMessage(r, p)
        PROVE  ReadIsRecorded'
    <2> DEFINE o == cursor[r][p] + 1
    <2>1. /\ p \in DOMAIN cursor[r] /\ cursor[r][p] \in Nat
          /\ cursor' = [cursor EXCEPT ![r] = [cursor[r] EXCEPT ![p] = o]]
          /\ recorded' = recorded \cup {<<p, o>>}
      BY <1>1 DEF HandleMessage, Typed, TypeOK, ServiceTypeOK
    <2>2. cursor'[r][p] = o
      BY <2>1 DEF Typed, Shape
    <2>3. committed' = committed \/ committed' = [committed EXCEPT ![p] = o]
      BY <1>1, <2>2 DEF HandleMessage
    <2>4. \A i \in 1 .. o : <<p, i>> \in recorded'
      <3>1. \A i \in 1 .. o : i \in 1 .. cursor[r][p] \/ i = o
        BY <2>1
      <3> QED BY <2>1, <3>1 DEF ReadIsRecorded
    <2> HIDE DEF o
    <2>5. \A k \in Replicas : \A q \in DOMAIN cursor'[k] :
             q \in DOMAIN cursor[k] /\ (cursor'[k][q] = cursor[k][q] \/ (q = p /\ cursor'[k][q] = o))
      BY <2>1 DEF Typed, Shape
    <2>6. \A q \in Partitions : committed'[q] = committed[q] \/ (q = p /\ committed'[q] = o)
      BY <2>3 DEF Typed, TypeOK, ServiceTypeOK
    <2> QED
      BY <2>1, <2>4, <2>5, <2>6 DEF ReadIsRecorded
  <1>2. ASSUME NEW r \in Replicas, NEW p \in Partitions, Assign(p, r)
        PROVE  ReadIsRecorded'
    <2>1. /\ cursor' = [cursor EXCEPT ![r] = Reading(cursor[r], p, committed[p])]
          /\ UNCHANGED <<committed, recorded>>
      BY <1>2 DEF Assign
    <2> QED
      BY <2>1 DEF ReadIsRecorded, Reading, Typed, Shape
  <1>3. ASSUME NEW r \in Replicas, NEW p \in Partitions, Revoked(r, p)
        PROVE  ReadIsRecorded'
    BY <1>3 DEF Revoked, ReadIsRecorded, Typed, Shape
  <1>4. ASSUME NEW r \in Replicas, Crash(r)
        PROVE  ReadIsRecorded'
    BY <1>4 DEF Crash, ReadIsRecorded, Typed, Shape
  <1>5. ASSUME UNCHANGED <<committed, cursor, recorded>>
        PROVE  ReadIsRecorded'
    BY <1>5 DEF ReadIsRecorded
  <1> QED
    BY <1>1, <1>2, <1>3, <1>4, <1>5
       DEF Next, ServiceNext, Publish, Start, Clear, Open, Leave, Limpiar, LoadHistory,
           FetchFails, Deliver, Break, ReadHistory, Subscribe, service, vars

-----------------------------------------------------------------------------
(* The theorems.                                                           *)

\* Whatever crashes, rebalances and reconnections come between, no consumer is
\* past the end of its partition, no history and no list past its cap.
THEOREM TypeCorrect == Spec => []TypeOK
  BY Invariance, PTL DEF IInv, Typed

\* What the replica the screen listens to remembers is on the screen or on its
\* way, but for a full list, Limpiar and the blind spot (the two effects of
\* EventFeed.tsx, record and findAll of NotificationsService).
THEOREM FeedCompleteHolds == Spec => []FeedComplete
  BY Invariance, PTL DEF IInv

\* Two cards of one notification: the history had it and the stream too (the
\* setEvents of fetch and of onmessage in EventFeed.tsx).
THEOREM TwiceOnlyIfReadHolds == Spec => []TwiceOnlyIfRead
  <1>1. TwiceIfKnown => TwiceOnlyIfRead
    BY DEF TwiceIfKnown, TwiceOnlyIfRead, Known
  <1> QED
    BY <1>1, Invariance, PTL DEF IInv

\* However replicas crash and partitions change hands, and however late or
\* often offsets are committed, the group never passes over an event that no
\* replica recorded (handleMessage records before the offset is committed): the
\* safety half of EventsConsumed.
THEOREM ReadIsRecordedHolds == Spec => []ReadIsRecorded
  <1>1. Init => ReadIsRecorded
    BY DEF Init, ServiceInit, ReadIsRecorded
  <1>2. Typed /\ ReadIsRecorded /\ [Next]_vars => ReadIsRecorded'
    BY ReadIsRecordedStep
  <1> QED
    BY <1>1, <1>2, Invariance, PTL DEF Spec, IInv
=============================================================================
