--------------------------- MODULE Notifications ---------------------------
(***************************************************************************)
(* The notification service: its Kafka consumer (KafkaConsumerService) and *)
(* the history and stream it feeds (NotificationsService).                 *)
(*                                                                         *)
(* The one or two replicas share a consumer group, so each sees only the   *)
(* partitions the broker gives it, and keeps what it saw in memory.  An    *)
(* event is named by its partition and offset; what a notification copies  *)
(* from it (order, people, amounts) is left out.  handleMessage awaits     *)
(* nothing: a message is recorded in one step.  Its two skips, for an      *)
(* empty message and for one that is not JSON, are left out: the producers *)
(* of this repository send neither.                                        *)
(***************************************************************************)
EXTENDS Naturals, Sequences, SequencesExt

CONSTANTS
  Partitions,       \* the partitions of the five topics
  Replicas,         \* the replicas of the deployment
  MaxHistory,       \* MAX_HISTORY: the cap on a replica's history
  MaxPublished,     \* bound: events published in each partition
  MaxDisturbances,  \* bound: crashes, rebalances, lost connections, DELETEs
  Nobody            \* no replica

ASSUME HistoryAssumption == MaxHistory \in Nat \ {0}
ASSUME FeedBounds == MaxPublished \in Nat /\ MaxDisturbances \in Nat
ASSUME NobodyAssumption == Nobody \notin Replicas

VARIABLES
  published,     \* Kafka: events in each partition
  committed,     \* Kafka: the group's committed offsets
  owner,         \* Kafka: the replica each partition is assigned to
  replica,       \* off, on, or deaf: up although its consumer never started
  cursor,        \* each replica's next offset in the partitions it reads
  history,       \* each replica's history, newest first
  consumed,      \* notifications made so far: the next one's id
  stream,        \* the subscription of the one screen, and what is on its way
  recorded,      \* history variable: the events some replica has recorded
  disturbances   \* crashes, rebalances, lost connections, DELETEs

service == <<published, committed, owner, replica, cursor, history, consumed, recorded>>

Notification == [id: Nat, part: Partitions, offset: Nat]

Events == Partitions \X (1 .. MaxPublished)

NoStream == [to |-> Nobody, inbox |-> <<>>]

ServiceInit ==
  /\ published = [p \in Partitions |-> 0]
  /\ committed = [p \in Partitions |-> 0]
  /\ owner = [p \in Partitions |-> Nobody]
  /\ replica = [r \in Replicas |-> "on"]
  /\ cursor = [r \in Replicas |-> <<>>]
  /\ history = [r \in Replicas |-> <<>>]
  /\ consumed = 0
  /\ stream = NoStream
  /\ recorded = {}
  /\ disturbances = 0

Disturb ==
  /\ disturbances < MaxDisturbances
  /\ disturbances' = disturbances + 1

-----------------------------------------------------------------------------
(* WHO: the booking and the payment service.                               *)
Publish(p) ==
  /\ published[p] < MaxPublished
  /\ published' = [published EXCEPT ![p] = @ + 1]
  /\ UNCHANGED <<committed, owner, replica, cursor, history, consumed, stream,
                 recorded, disturbances>>

(* WHO: the deployment.  onModuleInit connects and subscribes; when that   *)
(* fails the error is logged and the replica serves without a consumer.    *)
Start(r) ==
  /\ replica[r] = "off"
  /\ \E mode \in {"on", "deaf"} : replica' = [replica EXCEPT ![r] = mode]
  /\ UNCHANGED <<published, committed, owner, cursor, history, consumed, stream,
                 recorded, disturbances>>

(* A replica stops: its history and its subscriptions are gone.            *)
Crash(r) ==
  /\ replica[r] # "off"
  /\ Disturb
  /\ replica' = [replica EXCEPT ![r] = "off"]
  /\ cursor' = [cursor EXCEPT ![r] = <<>>]
  /\ history' = [history EXCEPT ![r] = <<>>]
  /\ owner' = [p \in Partitions |-> IF owner[p] = r THEN Nobody ELSE owner[p]]
  /\ stream' = IF stream.to = r THEN NoStream ELSE stream
  /\ UNCHANGED <<published, committed, consumed, recorded>>

\* The offsets a replica reads on from, once that of p is n.
Reading(offsets, p, n) ==
  [q \in {p} \cup DOMAIN offsets |-> IF q = p THEN n ELSE offsets[q]]

\* Slip: a new owner starts at the end of the partition.
AssignAtEnd(p, r) ==
  /\ replica[r] = "on"
  /\ owner[p] # r \/ p \in DOMAIN cursor[r]
  /\ IF owner[p] = Nobody THEN UNCHANGED disturbances ELSE Disturb
  /\ owner' = [owner EXCEPT ![p] = r]
  /\ cursor' = [cursor EXCEPT ![r] = Reading(@, p, published[p])]
  /\ UNCHANGED <<published, committed, replica, history, consumed, stream, recorded>>

(* WHO: the broker.  A partition without owner is given to a replica, and  *)
(* a rebalance may give one away, or anew, at any time; the new owner      *)
(* reads on from the committed offset.                                     *)
Assign(p, r) ==
  /\ replica[r] = "on"
  /\ owner[p] # r \/ p \in DOMAIN cursor[r]
  /\ IF owner[p] = Nobody THEN UNCHANGED disturbances ELSE Disturb
  /\ owner' = [owner EXCEPT ![p] = r]
  /\ cursor' = [cursor EXCEPT ![r] = Reading(@, p, committed[p])]
  /\ UNCHANGED <<published, committed, replica, history, consumed, stream, recorded>>

(* A replica learns that a partition is no longer its own.                 *)
Revoked(r, p) ==
  /\ p \in DOMAIN cursor[r]
  /\ owner[p] # r
  /\ cursor' = [cursor EXCEPT ![r] = [q \in DOMAIN @ \ {p} |-> @[q]]]
  /\ UNCHANGED <<published, committed, owner, replica, history, consumed, stream,
                 recorded, disturbances>>

\* Slip: the cap is tested before the insertion, off by one.
CappedLate(s) == SubSeq(s, 1, IF Len(s) > MaxHistory + 1 THEN MaxHistory ELSE Len(s))

\* unshift, then pop beyond the cap; slice(0, 200) on the screen does the same.
Capped(s) == SubSeq(s, 1, IF Len(s) > MaxHistory THEN MaxHistory ELSE Len(s))

\* Slip: record returns once the history is full, before it reaches the stream.
RecordQuietly(r, p) ==
  LET n == [id |-> consumed + 1, part |-> p, offset |-> cursor[r][p] + 1] IN
  /\ history' = [history EXCEPT ![r] = Capped(<<n>> \o @)]
  /\ stream' = IF stream.to = r /\ Len(history[r]) < MaxHistory
               THEN [stream EXCEPT !.inbox = Append(@, n)] ELSE stream

\* record: a fresh id; into the history, and to every subscriber.
Record(r, p) ==
  LET n == [id |-> consumed + 1, part |-> p, offset |-> cursor[r][p] + 1] IN
  /\ history' = [history EXCEPT ![r] = Capped(<<n>> \o @)]
  /\ stream' = IF stream.to = r THEN [stream EXCEPT !.inbox = Append(@, n)] ELSE stream

(* WHO: a replica's consumer, also one that does not know yet that its     *)
(* partition has a new owner.  The offset may be committed behind the      *)
(* message, for the owner only; a later commit makes no difference, as     *)
(* only a crash or a rebalance looks at it.                                *)
HandleMessage(r, p) ==
  /\ p \in DOMAIN cursor[r]
  /\ cursor[r][p] < published[p]
  /\ Record(r, p)
  /\ consumed' = consumed + 1
  /\ cursor' = [cursor EXCEPT ![r][p] = @ + 1]
  /\ recorded' = recorded \cup {<<p, cursor[r][p] + 1>>}
  /\ \/ UNCHANGED committed
     \/ owner[p] = r /\ committed' = [committed EXCEPT ![p] = cursor'[r][p]]
  /\ UNCHANGED <<published, owner, replica, disturbances>>

(* DELETE /notifications, the development utility.                         *)
Clear(r) ==
  /\ history[r] # <<>>
  /\ Disturb
  /\ history' = [history EXCEPT ![r] = <<>>]
  /\ UNCHANGED <<published, committed, owner, replica, cursor, consumed, stream, recorded>>

ServiceNext ==
  \/ \E p \in Partitions : Publish(p)
  \/ \E r \in Replicas :
       \/ Start(r) \/ Crash(r) \/ Clear(r)
       \/ \E p \in Partitions :
            Assign(p, r) \/ Revoked(r, p) \/ HandleMessage(r, p)

-----------------------------------------------------------------------------
ServiceTypeOK ==
  /\ published \in [Partitions -> 0 .. MaxPublished]
  /\ committed \in [Partitions -> 0 .. MaxPublished]
  /\ owner \in [Partitions -> Replicas \cup {Nobody}]
  /\ replica \in [Replicas -> {"off", "on", "deaf"}]
  /\ \A r \in Replicas :
       /\ DOMAIN cursor[r] \subseteq Partitions
       /\ \A p \in DOMAIN cursor[r] : cursor[r][p] \in 0 .. published[p]
       /\ history[r] \in Seq(Notification) /\ Len(history[r]) <= MaxHistory
  /\ stream.to \in Replicas \cup {Nobody} /\ stream.inbox \in Seq(Notification)
  /\ recorded \subseteq Events
  /\ disturbances \in 0 .. MaxDisturbances

\* Every event that is published is recorded by some replica, whatever crashes
\* and rebalances come between (handleMessage before the offset commit,
\* fromBeginning), unless no consumer of the deployment ever started: nothing
\* starts a failed one again (onModuleInit's catch).
EventsConsumed ==
  \A e \in Events :
    (published[e[1]] >= e[2]) ~>
      (e \in recorded \/ \A r \in Replicas : replica[r] = "deaf")
=============================================================================
