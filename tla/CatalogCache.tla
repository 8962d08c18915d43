---------------------------- MODULE CatalogCache ----------------------------
(***************************************************************************)
(* The catalog service's cache-aside reads (findAll, findOne) and its      *)
(* writes (create, update, remove) over Postgres and Redis.                *)
(*                                                                         *)
(* Every cache key carries the namespace version `catalog:ver`; a write    *)
(* saves its row and then INCRs the version, which orphans every entry     *)
(* made under an older one.  Each await lets other requests run:           *)
(*                                                                         *)
(*   reader: waiting -> (key)  get -> (getJson)  find -> (Postgres)        *)
(*                   -> set -> (setJson)  done         or: hit             *)
(*   writer: waiting -> (save)  incr -> (invalidate)  done                 *)
(*                                                                         *)
(* Abstracted: the rows.  A state of the table is the number of writes it  *)
(* has seen, its generation, and a cached value is the generation it was   *)
(* computed from.  The keys of one version (the list of each filter, each  *)
(* id) never mix and are treated alike, so one stands for all.             *)
(*                                                                         *)
(* Redis may be away for a while, or be replaced: its pod has no volume,   *)
(* so the new one is empty and counts the versions from 0 again.           *)
(***************************************************************************)
EXTENDS Naturals

CONSTANTS
  Readers,     \* the read requests that ever arrive
  Writers,     \* the write requests that ever arrive and pass their checks
  MaxOutages   \* bound: times Redis goes away

ASSUME OutagesAssumption == MaxOutages \in Nat

VARIABLES
  generation,  \* Postgres: the writes committed so far
  up,          \* Redis answers
  version,     \* Redis: catalog:ver
  store,       \* Redis: the entries under each version
  reader,      \* where each read stands
  writer,      \* where each write stands
  answered,    \* history: the newest generation whose write was answered
  missed,      \* history: an INCR failed and was swallowed
  outages      \* times Redis went away

vars == <<generation, up, version, store, reader, writer, answered, missed, outages>>

Waiting == [phase |-> "waiting"]

\* The fields blind, adrift and floor are history: the key was made with the
\* fallback version, or before Redis was replaced (of a read that hit: that of
\* the entry was); what had been answered when the read began.
Entry == [ver: Nat, gen: Nat, adrift: BOOLEAN]

Reading == [phase: {"get", "find", "set", "hit", "done"}, ver: Nat, blind: BOOLEAN,
            adrift: BOOLEAN, floor: Nat, gen: Nat]
Writing == [phase: {"incr", "done"}, gen: Nat]

Init ==
  /\ generation = 0
  /\ up = TRUE
  /\ version = 0
  /\ store = {}
  /\ reader = [r \in Readers |-> Waiting]
  /\ writer = [w \in Writers |-> Waiting]
  /\ answered = 0
  /\ missed = FALSE
  /\ outages = 0

-----------------------------------------------------------------------------
(* WHO: key.  The read begins; safeVersion takes version 0 when Redis does *)
(* not answer, which makes the key a blind one.                            *)
ReadVersion(r) ==
  /\ reader[r] = Waiting
  /\ reader' = [reader EXCEPT ![r] =
       [phase |-> "get", ver |-> IF up THEN version ELSE 0, blind |-> ~up,
        adrift |-> FALSE, floor |-> answered, gen |-> 0]]
  /\ UNCHANGED <<generation, up, version, store, writer, answered, missed, outages>>

(* WHO: getJson.  A hit is the answer; an error is a miss.                 *)
Get(r) ==
  /\ reader[r].phase = "get"
  /\ \/ /\ up
        /\ \E e \in store :
             /\ e.ver = reader[r].ver
             /\ reader' = [reader EXCEPT ![r].phase = "hit", ![r].gen = e.gen,
                                         ![r].adrift = e.adrift]
     \/ /\ up => \A e \in store : e.ver # reader[r].ver
        /\ reader' = [reader EXCEPT ![r].phase = "find"]
  /\ UNCHANGED <<generation, up, version, store, writer, answered, missed, outages>>

(* WHO: repo.find, repo.findOne.  A service that is not there is a 404 and *)
(* is not cached.                                                          *)
Find(r) ==
  /\ reader[r].phase = "find"
  /\ \E next \in {"set", "done"} :
       reader' = [reader EXCEPT ![r].phase = next, ![r].gen = generation]
  /\ UNCHANGED <<generation, up, version, store, writer, answered, missed, outages>>

\* Slips: the key is built again from the version of the moment; the entry
\* does not replace the one under the same key.
SetUnderNewVersion(r) ==
  /\ reader[r].phase = "set"
  /\ store' = IF up THEN {e \in store : e.ver # version}
                           \cup {[ver |-> version, gen |-> reader[r].gen,
                                  adrift |-> reader[r].adrift]}
              ELSE store
  /\ reader' = [reader EXCEPT ![r].phase = "done"]
  /\ UNCHANGED <<generation, up, version, writer, answered, missed, outages>>

SetBeside(r) ==
  /\ reader[r].phase = "set"
  /\ store' = IF up THEN store \cup {[ver |-> reader[r].ver, gen |-> reader[r].gen,
                                      adrift |-> reader[r].adrift]}
              ELSE store
  /\ reader' = [reader EXCEPT ![r].phase = "done"]
  /\ UNCHANGED <<generation, up, version, writer, answered, missed, outages>>

(* WHO: setJson, under the key the read began with; an error is skipped.   *)
Set(r) ==
  LET entry == [ver |-> reader[r].ver, gen |-> reader[r].gen, adrift |-> reader[r].adrift]
  IN  /\ reader[r].phase = "set"
      /\ store' = IF up THEN {e \in store : e.ver # entry.ver} \cup {entry} ELSE store
      /\ reader' = [reader EXCEPT ![r].phase = "done"]
      /\ UNCHANGED <<generation, up, version, writer, answered, missed, outages>>

(* WHO: create, update, remove.  repo.save commits the row.  A write that  *)
(* goes no further is one whose replica stopped, and was never answered.   *)
Save(w) ==
  /\ writer[w] = Waiting
  /\ generation' = generation + 1
  /\ writer' = [writer EXCEPT ![w] = [phase |-> "incr", gen |-> generation + 1]]
  /\ UNCHANGED <<up, version, store, reader, answered, missed, outages>>

(* WHO: invalidate.  INCR when Redis answers; otherwise the error is       *)
(* swallowed, and the write is answered as done.                           *)
Invalidate(w) ==
  /\ writer[w].phase = "incr"
  /\ writer' = [writer EXCEPT ![w].phase = "done"]
  /\ answered' = IF answered < writer[w].gen THEN writer[w].gen ELSE answered
  /\ IF up THEN version' = version + 1 /\ UNCHANGED missed
           ELSE missed' = TRUE /\ UNCHANGED version
  /\ UNCHANGED <<generation, up, store, reader, outages>>

(* WHO: Redis, or the network to it.  It goes away; it comes back with     *)
(* what it held, or a new pod takes its place, with nothing; an entry      *)
(* expires.                                                                *)
GoAway ==
  /\ up
  /\ outages < MaxOutages
  /\ up' = FALSE
  /\ outages' = outages + 1
  /\ UNCHANGED <<generation, version, store, reader, writer, answered, missed>>

ComeBack ==
  /\ ~up
  /\ up' = TRUE
  /\ UNCHANGED <<generation, version, store, reader, writer, answered, missed, outages>>

\* A read with a key in its hands.
Pending == {"get", "find", "set"}

Replaced ==
  /\ ~up
  /\ up' = TRUE
  /\ version' = 0
  /\ store' = {}
  /\ reader' = [r \in Readers |-> IF reader[r].phase \in Pending
                                 THEN [reader[r] EXCEPT !.adrift = TRUE] ELSE reader[r]]
  /\ UNCHANGED <<generation, writer, answered, missed, outages>>

Expire(e) ==
  /\ store' = store \ {e}
  /\ UNCHANGED <<generation, up, version, reader, writer, answered, missed, outages>>

Next ==
  \/ \E r \in Readers : ReadVersion(r) \/ Get(r) \/ Find(r) \/ Set(r)
  \/ \E w \in Writers : Save(w) \/ Invalidate(w)
  \/ GoAway
  \/ ComeBack
  \/ Replaced
  \/ \E e \in store : Expire(e)

Spec == Init /\ [][Next]_vars

-----------------------------------------------------------------------------
TypeOK ==
  /\ generation \in Nat
  /\ up \in BOOLEAN
  /\ version \in Nat
  /\ store \subseteq Entry
  /\ \A d, e \in store : d.ver = e.ver => d = e
  /\ reader \in [Readers -> Reading \cup {Waiting}]
  /\ writer \in [Writers -> Writing \cup {Waiting}]
  /\ answered \in Nat
  /\ missed \in BOOLEAN
  /\ outages \in 0 .. MaxOutages

\* A read that begins after a write was answered shows that write or a later
\* one, however slow readers, expired entries and writers interleave and
\* whenever Redis goes, comes back or is replaced.  It does always when it comes
\* from Postgres; when it comes from Redis, except for what the code hides: an
\* INCR that failed, a version that fell back to 0, and an entry whose key was
\* made before Redis was replaced, since the new one counts from 0 again.
FreshUnlessDegraded ==
  \A r \in Readers :
    ( \/ reader[r].phase = "done"
      \/ reader[r].phase = "hit" /\ ~missed /\ ~reader[r].blind /\ ~reader[r].adrift )
      => reader[r].floor <= reader[r].gen
=============================================================================
