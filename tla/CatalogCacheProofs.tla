------------------------- MODULE CatalogCacheProofs -------------------------
(***************************************************************************)
(* Theorems about the catalog's cache, for any number of reads, writes and *)
(* outages.                                                                *)
(*                                                                         *)
(* FreshUnlessDegraded speaks of reads that are over.  What makes it hold  *)
(* is said of the entries and of the values still to be stored: those      *)
(* under the current version are no older than the last answered write     *)
(* (Current), and those under the version a read began with are no older   *)
(* than the writes answered before it (Served).  A write makes no entry    *)
(* stale because no entry and no read is ahead of the version (Bounds).    *)
(* None of this is said of what is adrift, whose key a Redis made that is  *)
(* gone: a replacement leaves no entry, and sets every key adrift that is  *)
(* still in use, so all of it holds again.                                 *)
(***************************************************************************)
EXTENDS CatalogCache, TLAPS

Running(r) == reader[r].phase # "waiting"

HasKey(r) == reader[r].phase \in Pending

\* A value that will be stored under a key of this Redis.
Storing(s) == reader[s].phase = "set" /\ ~reader[s].adrift

\* What r may find under its key: if the key is adrift, anything.
Sees(r, ver) == reader[r].adrift \/ ver = reader[r].ver

\* Nothing is newer than the table, nothing is ahead of the version.
Bounds ==
  /\ answered <= generation
  /\ \A w \in Writers : writer[w].phase # "waiting" => writer[w].gen <= generation
  /\ \A e \in store : ~e.adrift => e.ver <= version
  /\ \A r \in Readers : Running(r) => reader[r].floor <= answered
  /\ \A r \in Readers : (HasKey(r) /\ ~reader[r].adrift) => reader[r].ver <= version

\* What Postgres gave is fresh.
Found ==
  \A r \in Readers : reader[r].phase \in {"set", "done"} => reader[r].floor <= reader[r].gen

\* What a read that begins now may be served is fresh.
Current ==
  /\ \A e \in store : (~e.adrift /\ e.ver = version) => answered <= e.gen
  /\ \A s \in Readers : (Storing(s) /\ reader[s].ver = version) => answered <= reader[s].gen

\* What the reads under way may be served, and were served, is fresh.
Served ==
  /\ \A r \in Readers : (HasKey(r) /\ ~reader[r].blind) =>
       /\ \A e \in store : (~e.adrift /\ Sees(r, e.ver)) => reader[r].floor <= e.gen
       /\ \A s \in Readers :
            (Storing(s) /\ Sees(r, reader[s].ver)) => reader[r].floor <= reader[s].gen
  /\ \A r \in Readers :
       (reader[r].phase = "hit" /\ ~reader[r].blind /\ ~reader[r].adrift)
         => reader[r].floor <= reader[r].gen

Fresher == ~missed => Current /\ Served

IInv == TypeOK /\ Bounds /\ Found /\ Fresher

-----------------------------------------------------------------------------
(* Shapes.                                                                 *)

\* A read that has begun has all its fields; one that has not is Waiting.
LEMMA ReaderShape ==
  ASSUME TypeOK, NEW r \in Readers
  PROVE  /\ Running(r) => reader[r] \in Reading
         /\ reader[r] = Waiting <=> ~Running(r)
  <1>1. reader[r] \in Reading \cup {Waiting}
    BY DEF TypeOK
  <1>2. \A x \in Reading : x.phase # "waiting"
    BY DEF Reading
  <1>3. Waiting.phase = "waiting"
    BY DEF Waiting
  <1> QED
    BY <1>1, <1>2, <1>3 DEF Running

LEMMA WriterShape ==
  ASSUME TypeOK, NEW w \in Writers
  PROVE  /\ writer[w].phase # "waiting" => writer[w] \in Writing
         /\ writer[w] = Waiting <=> writer[w].phase = "waiting"
  <1>1. writer[w] \in Writing \cup {Waiting}
    BY DEF TypeOK
  <1>2. \A x \in Writing : x.phase # "waiting"
    BY DEF Writing
  <1>3. Waiting.phase = "waiting"
    BY DEF Waiting
  <1> QED
    BY <1>1, <1>2, <1>3

-----------------------------------------------------------------------------
(* A read goes from one state to the next and nothing else changes.        *)

\* What the next state of a read must satisfy.
Allowed(r, v) ==
  /\ v.floor <= answered
  /\ (v.phase \in Pending /\ ~v.adrift) => v.ver <= version
  /\ v.phase \in {"set", "done"} => v.floor <= v.gen
  /\ ~missed =>
       /\ (v.phase = "set" /\ ~v.adrift) =>
            /\ v.ver = version => answered <= v.gen
            /\ \A q \in Readers \ {r} :
                 (HasKey(q) /\ ~reader[q].blind /\ Sees(q, v.ver)) => reader[q].floor <= v.gen
       /\ (v.phase \in Pending /\ ~v.blind) =>
            /\ \A e \in store : (~e.adrift /\ (v.adrift \/ e.ver = v.ver)) => v.floor <= e.gen
            /\ \A s \in Readers \ {r} :
                 (Storing(s) /\ (v.adrift \/ reader[s].ver = v.ver)) => v.floor <= reader[s].gen
       /\ (v.phase = "hit" /\ ~v.blind /\ ~v.adrift) => v.floor <= v.gen

LEMMA ReaderMoves ==
  ASSUME IInv, NEW r \in Readers, NEW v \in Reading, Allowed(r, v),
         reader' = [reader EXCEPT ![r] = v],
         UNCHANGED <<generation, up, version, store, writer, answered, missed, outages>>
  PROVE  IInv'
  <1>1. \A q \in Readers : reader'[q] = IF q = r THEN v ELSE reader[q]
    BY DEF IInv, TypeOK
  <1>2. v.phase # "waiting"
    BY DEF Reading
  <1>3. TypeOK'
    BY DEF IInv, TypeOK
  <1>4. Bounds'
    BY <1>1, <1>2 DEF IInv, Bounds, Running, HasKey, Allowed
  <1>5. Found'
    BY <1>1 DEF IInv, Found, Allowed
  <1>6. ASSUME ~missed
        PROVE  Current'
    BY <1>1, <1>6 DEF IInv, Fresher, Current, Storing, Allowed
  <1>7. ASSUME ~missed
        PROVE  Served'
    <2>1. ASSUME NEW q \in Readers, HasKey(q)', ~reader'[q].blind
          PROVE  /\ \A e \in store : (~e.adrift /\ Sees(q, e.ver)') => reader'[q].floor <= e.gen
                 /\ \A s \in Readers :
                      (Storing(s)' /\ Sees(q, reader[s].ver)') => reader'[q].floor <= reader'[s].gen
      <3>1. CASE q = r
        <4>1. \A e \in store : (~e.adrift /\ Sees(q, e.ver)') => reader'[q].floor <= e.gen
          BY <1>1, <1>7, <2>1, <3>1 DEF Allowed, HasKey, Sees
        <4>2. ASSUME NEW s \in Readers, s # r, Storing(s)', Sees(q, reader[s].ver)'
              PROVE  reader'[q].floor <= reader'[s].gen
          BY <1>1, <1>7, <2>1, <3>1, <4>2 DEF Allowed, HasKey, Sees, Storing
        <4>3. Storing(r)' => reader'[q].floor <= reader'[r].gen
          BY <1>1, <3>1 DEF Allowed, Storing
        <4> QED
          BY <4>1, <4>2, <4>3
      <3>2. CASE q # r
        <4>1. HasKey(q) /\ ~reader[q].blind /\ reader'[q] = reader[q]
          BY <1>1, <2>1, <3>2 DEF HasKey
        <4>2. \A e \in store : (~e.adrift /\ Sees(q, e.ver)') => reader'[q].floor <= e.gen
          BY <1>7, <4>1 DEF IInv, Fresher, Served, Sees
        <4>3. ASSUME NEW s \in Readers, s # r, Storing(s)', Sees(q, reader[s].ver)'
              PROVE  reader'[q].floor <= reader'[s].gen
          BY <1>1, <1>7, <4>1, <4>3 DEF IInv, Fresher, Served, Sees, Storing
        <4>4. (Storing(r)' /\ Sees(q, reader[r].ver)') => reader'[q].floor <= reader'[r].gen
          BY <1>1, <1>7, <3>2, <4>1 DEF Allowed, Storing, Sees
        <4> QED
          BY <4>2, <4>3, <4>4
      <3> QED
        BY <3>1, <3>2
    <2>2. ASSUME NEW q \in Readers, reader'[q].phase = "hit", ~reader'[q].blind,
                 ~reader'[q].adrift
          PROVE  reader'[q].floor <= reader'[q].gen
      BY <1>1, <1>7, <2>2 DEF IInv, Fresher, Served, Allowed
    <2> QED
      BY <2>1, <2>2 DEF Served
  <1> QED
    BY <1>3, <1>4, <1>5, <1>6, <1>7 DEF IInv, Fresher

LEMMA IInvReadVersion ==
  ASSUME IInv, NEW r \in Readers, ReadVersion(r)
  PROVE  IInv'
  <1> DEFINE v == [phase |-> "get", ver |-> IF up THEN version ELSE 0, blind |-> ~up,
                   adrift |-> FALSE, floor |-> answered, gen |-> 0]
  <1>1. v \in Reading
    BY DEF IInv, TypeOK, Reading
  <1>2. v.ver <= version /\ v.floor <= answered
    BY DEF IInv, TypeOK
  <1>3. (~missed /\ ~v.blind) =>
           /\ \A e \in store : (~e.adrift /\ e.ver = v.ver) => v.floor <= e.gen
           /\ \A s \in Readers \ {r} :
                (Storing(s) /\ reader[s].ver = v.ver) => v.floor <= reader[s].gen
    BY DEF IInv, TypeOK, Fresher, Current
  <1>4. Allowed(r, v)
    BY <1>2, <1>3 DEF Allowed
  <1>5. reader' = [reader EXCEPT ![r] = v]
    BY DEF ReadVersion
  <1>6. UNCHANGED <<generation, up, version, store, writer, answered, missed, outages>>
    BY DEF ReadVersion
  <1> HIDE DEF v
  <1> QED
    BY <1>1, <1>4, <1>5, <1>6, ReaderMoves

LEMMA IInvGet ==
  ASSUME IInv, NEW r \in Readers, Get(r)
  PROVE  IInv'
  <1>1. Running(r) /\ HasKey(r) /\ reader[r] \in Reading /\ reader[r].phase = "get"
    BY ReaderShape DEF Get, IInv, Running, HasKey, Pending
  <1>2. /\ reader[r].floor <= answered
        /\ ~reader[r].adrift => reader[r].ver <= version
    BY <1>1 DEF IInv, Bounds
  <1>3. UNCHANGED <<generation, up, version, store, writer, answered, missed, outages>>
    BY DEF Get
  <1>4. ASSUME NEW e \in store, e.ver = reader[r].ver,
               reader' = [reader EXCEPT ![r].phase = "hit", ![r].gen = e.gen,
                                        ![r].adrift = e.adrift]
        PROVE  IInv'
    <2> DEFINE v == [reader[r] EXCEPT !.phase = "hit", !.gen = e.gen, !.adrift = e.adrift]
    <2>1. v \in Reading
      BY <1>1 DEF IInv, TypeOK, Entry, Reading
    <2>2. /\ v.phase = "hit" /\ v.gen = e.gen /\ v.adrift = e.adrift
          /\ v.floor = reader[r].floor /\ v.blind = reader[r].blind
      BY <1>1 DEF Reading
    <2>3. reader' = [reader EXCEPT ![r] = v]
      BY <1>4 DEF IInv, TypeOK
    <2> HIDE DEF v
    <2>4. (~missed /\ ~v.blind /\ ~v.adrift) => v.floor <= v.gen
      BY <1>1, <1>4, <2>2 DEF IInv, Fresher, Served, Sees
    <2>5. Allowed(r, v)
      BY <1>2, <2>2, <2>4 DEF Allowed, Pending
    <2> QED
      BY <1>3, <2>1, <2>3, <2>5, ReaderMoves
  <1>5. ASSUME reader' = [reader EXCEPT ![r].phase = "find"]
        PROVE  IInv'
    <2> DEFINE v == [reader[r] EXCEPT !.phase = "find"]
    <2>1. v \in Reading
      BY <1>1 DEF Reading
    <2>2. /\ v.phase = "find" /\ v.ver = reader[r].ver /\ v.adrift = reader[r].adrift
          /\ v.floor = reader[r].floor /\ v.blind = reader[r].blind
      BY <1>1 DEF Reading
    <2>3. reader' = [reader EXCEPT ![r] = v]
      BY <1>5 DEF IInv, TypeOK
    <2> HIDE DEF v
    <2>4. Allowed(r, v)
      BY <1>1, <1>2, <2>2 DEF Allowed, IInv, Fresher, Served, Sees
    <2> QED
      BY <1>3, <2>1, <2>3, <2>4, ReaderMoves
  <1> QED
    BY <1>4, <1>5 DEF Get

LEMMA IInvFind ==
  ASSUME IInv, NEW r \in Readers, Find(r)
  PROVE  IInv'
  <1>1. Running(r) /\ HasKey(r) /\ reader[r] \in Reading
    BY ReaderShape DEF Find, IInv, Running, HasKey, Pending
  <1>2. /\ reader[r].floor <= answered
        /\ ~reader[r].adrift => reader[r].ver <= version
    BY <1>1 DEF IInv, Bounds
  <1>3. UNCHANGED <<generation, up, version, store, writer, answered, missed, outages>>
    BY DEF Find
  <1>4. PICK next \in {"set", "done"} :
          reader' = [reader EXCEPT ![r].phase = next, ![r].gen = generation]
    BY DEF Find
  <1> DEFINE v == [reader[r] EXCEPT !.phase = next, !.gen = generation]
  <1>5. v \in Reading
    BY <1>1 DEF IInv, TypeOK, Reading
  <1>6. /\ v.ver = reader[r].ver /\ v.floor = reader[r].floor /\ v.blind = reader[r].blind
        /\ v.adrift = reader[r].adrift /\ v.gen = generation /\ v.phase = next
    BY <1>1 DEF Reading
  <1>7. \A q \in Readers : Running(q) => reader[q].floor <= generation
    <2> SUFFICES ASSUME NEW q \in Readers, Running(q)
                 PROVE  reader[q].floor <= generation
      OBVIOUS
    <2>1. reader[q].floor \in Nat /\ answered \in Nat /\ generation \in Nat
      BY ReaderShape DEF IInv, TypeOK, Reading
    <2>2. reader[q].floor <= answered /\ answered <= generation
      BY DEF IInv, Bounds
    <2> QED
      BY <2>1, <2>2
  <1>8. \A q \in Readers : HasKey(q) => Running(q)
    BY DEF HasKey, Running, Pending
  <1>9. answered <= generation
    BY DEF IInv, Bounds
  <1>10. reader' = [reader EXCEPT ![r] = v]
    BY <1>4 DEF IInv, TypeOK
  <1> HIDE DEF v
  <1>11. ASSUME ~missed, ~v.blind
         PROVE  /\ \A e \in store : (~e.adrift /\ (v.adrift \/ e.ver = v.ver)) => v.floor <= e.gen
                /\ \A s \in Readers \ {r} :
                     (Storing(s) /\ (v.adrift \/ reader[s].ver = v.ver)) => v.floor <= reader[s].gen
    BY <1>1, <1>6, <1>11 DEF IInv, Fresher, Served, Sees
  <1>12. Allowed(r, v)
    BY <1>1, <1>2, <1>6, <1>7, <1>8, <1>9, <1>11 DEF Allowed
  <1> QED
    BY <1>3, <1>5, <1>10, <1>12, ReaderMoves

-----------------------------------------------------------------------------
(* A read stores what it found, and a write commits or is answered.        *)

\* The entry takes over what was known of the value in the reader's hands.
LEMMA IInvSet ==
  ASSUME IInv, NEW r \in Readers, Set(r)
  PROVE  IInv'
  <1> DEFINE entry == [ver |-> reader[r].ver, gen |-> reader[r].gen, adrift |-> reader[r].adrift]
             v == [reader[r] EXCEPT !.phase = "done"]
  <1>1. Running(r) /\ HasKey(r) /\ reader[r] \in Reading /\ reader[r].phase = "set"
    BY ReaderShape DEF Set, IInv, Running, HasKey, Pending
  <1>2. v \in Reading /\ entry \in Entry
    BY <1>1 DEF Reading, Entry
  <1>3. /\ v.phase = "done" /\ v.ver = reader[r].ver /\ v.gen = reader[r].gen
        /\ v.floor = reader[r].floor /\ v.blind = reader[r].blind /\ v.adrift = reader[r].adrift
        /\ entry.ver = reader[r].ver /\ entry.gen = reader[r].gen
        /\ entry.adrift = reader[r].adrift
    BY <1>1 DEF Reading
  <1>4. reader' = [reader EXCEPT ![r] = v]
    BY DEF Set, IInv, TypeOK
  <1>5. store' = IF up THEN {e \in store : e.ver # entry.ver} \cup {entry} ELSE store
    BY DEF Set
  <1>6. UNCHANGED <<generation, up, version, writer, answered, missed, outages>>
    BY DEF Set
  <1> HIDE DEF entry, v
  <1>7. \A q \in Readers : reader'[q] = IF q = r THEN v ELSE reader[q]
    BY <1>4 DEF IInv, TypeOK
  <1>8. \A e \in store' : e \in store \/ e = entry
    BY <1>5
  <1>9. TypeOK'
    BY <1>2, <1>4, <1>5, <1>6 DEF IInv, TypeOK
  <1>10. ~HasKey(r)' /\ ~Storing(r)'
    BY <1>3, <1>7 DEF HasKey, Storing, Pending
  <1>11. \A q \in Readers : q # r => reader'[q] = reader[q]
    BY <1>7
  <1>12. Bounds'
    <2>1. \A e \in store' : ~e.adrift => e.ver <= version
      BY <1>1, <1>3, <1>8 DEF IInv, Bounds
    <2>2. \A q \in Readers : Running(q)' => reader'[q].floor <= answered
      BY <1>1, <1>3, <1>7 DEF IInv, Bounds, Running
    <2>3. \A q \in Readers : (HasKey(q)' /\ ~reader'[q].adrift) => reader'[q].ver <= version
      BY <1>10, <1>11 DEF IInv, Bounds, HasKey
    <2> QED
      BY <1>6, <2>1, <2>2, <2>3 DEF IInv, Bounds
  <1>13. Found'
    BY <1>1, <1>3, <1>7 DEF IInv, Found
  <1>14. ASSUME ~missed
         PROVE  Current'
    <2>1. \A e \in store' : (~e.adrift /\ e.ver = version) => answered <= e.gen
      BY <1>1, <1>3, <1>8, <1>14 DEF IInv, Fresher, Current, Storing
    <2>2. \A s \in Readers : (Storing(s)' /\ reader'[s].ver = version) => answered <= reader'[s].gen
      BY <1>10, <1>11, <1>14 DEF IInv, Fresher, Current, Storing
    <2> QED
      BY <1>6, <2>1, <2>2 DEF Current
  <1>15. ASSUME ~missed
         PROVE  Served'
    <2>1. Served
      BY <1>15 DEF IInv, Fresher
    <2>2. ASSUME NEW q \in Readers, HasKey(q)', ~reader'[q].blind
          PROVE  /\ \A e \in store' : (~e.adrift /\ Sees(q, e.ver)') => reader'[q].floor <= e.gen
                 /\ \A s \in Readers :
                      (Storing(s)' /\ Sees(q, reader[s].ver)') => reader'[q].floor <= reader'[s].gen
      <3>1. q # r /\ HasKey(q) /\ ~reader[q].blind /\ reader'[q] = reader[q]
        BY <1>10, <1>11, <2>2 DEF HasKey
      <3>2. (~entry.adrift /\ Sees(q, entry.ver)) => reader[q].floor <= entry.gen
        BY <1>1, <1>3, <2>1, <3>1 DEF Served, Storing
      <3>3. \A e \in store' : (~e.adrift /\ Sees(q, e.ver)') => reader'[q].floor <= e.gen
        BY <1>8, <2>1, <3>1, <3>2 DEF Served, Sees
      <3>4. \A s \in Readers :
              (Storing(s)' /\ Sees(q, reader[s].ver)') => reader'[q].floor <= reader'[s].gen
        BY <1>10, <1>11, <2>1, <3>1 DEF Served, Sees, Storing
      <3> QED
        BY <3>3, <3>4
    <2>3. \A q \in Readers : (reader'[q].phase = "hit" /\ ~reader'[q].blind /\ ~reader'[q].adrift)
                               => reader'[q].floor <= reader'[q].gen
      BY <1>3, <1>7, <2>1 DEF Served
    <2> QED
      BY <2>2, <2>3 DEF Served
  <1> QED
    BY <1>6, <1>9, <1>12, <1>13, <1>14, <1>15 DEF IInv, Fresher

LEMMA IInvSave ==
  ASSUME IInv, NEW w \in Writers, Save(w)
  PROVE  IInv'
  <1> DEFINE v == [phase |-> "incr", gen |-> generation + 1]
  <1>1. generation \in Nat /\ generation' = generation + 1
    BY DEF IInv, TypeOK, Save
  <1>2. v \in Writing /\ v.gen = generation + 1
    BY <1>1 DEF Writing
  <1>3. writer' = [writer EXCEPT ![w] = v]
    BY DEF Save
  <1>4. UNCHANGED <<up, version, store, reader, answered, missed, outages>>
    BY DEF Save
  <1> HIDE DEF v
  <1>5. TypeOK'
    BY <1>1, <1>2, <1>3, <1>4 DEF IInv, TypeOK
  <1>6. Bounds'
    <2>1. \A x \in Writers : writer'[x] = IF x = w THEN v ELSE writer[x]
      BY <1>3 DEF IInv, TypeOK
    <2>2. \A x \in Writers : writer[x].phase # "waiting" => writer[x].gen \in Nat
      BY WriterShape DEF IInv, Writing
    <2>3. \A x \in Writers : writer'[x].phase # "waiting" => writer'[x].gen <= generation'
      BY <1>1, <1>2, <2>1, <2>2 DEF IInv, Bounds
    <2>4. answered <= generation'
      BY <1>1 DEF IInv, Bounds, TypeOK
    <2> QED
      BY <1>4, <2>3, <2>4 DEF IInv, Bounds, Running, HasKey
  <1>7. Found' /\ Fresher'
    BY <1>4 DEF IInv, Found, Fresher, Current, Served, HasKey, Storing, Sees
  <1> QED
    BY <1>5, <1>6, <1>7 DEF IInv

\* The new version has no entry and no reader yet, so nothing under it is
\* stale; what is under the old one is not asked to be any fresher.
LEMMA IInvInvalidate ==
  ASSUME IInv, NEW w \in Writers, Invalidate(w)
  PROVE  IInv'
  <1> DEFINE v == [writer[w] EXCEPT !.phase = "done"]
  <1>1. writer[w].phase # "waiting" /\ writer[w] \in Writing
    BY WriterShape DEF Invalidate, IInv
  <1>2. /\ v \in Writing /\ v.gen = writer[w].gen
        /\ writer[w].gen \in Nat /\ writer[w].gen <= generation
    BY <1>1 DEF Writing, IInv, Bounds
  <1>3. writer' = [writer EXCEPT ![w] = v]
    BY DEF Invalidate, IInv, TypeOK
  <1>4. UNCHANGED <<generation, up, store, reader, outages>>
    BY DEF Invalidate
  <1>5. answered' = IF answered < writer[w].gen THEN writer[w].gen ELSE answered
    BY DEF Invalidate
  <1>6. \/ version' = version + 1 /\ missed' = missed
        \/ version' = version /\ missed' = TRUE
    BY DEF Invalidate
  <1> HIDE DEF v
  <1>7. version \in Nat /\ answered \in Nat /\ generation \in Nat
    BY DEF IInv, TypeOK
  <1>8. version' \in Nat /\ version <= version' /\ answered' \in Nat /\ answered <= answered'
    BY <1>2, <1>5, <1>6, <1>7
  <1>9. TypeOK'
    BY <1>2, <1>3, <1>4, <1>6, <1>8 DEF IInv, TypeOK
  <1>10. Bounds'
    <2>1. \A x \in Writers : writer'[x] = IF x = w THEN v ELSE writer[x]
      BY <1>3 DEF IInv, TypeOK
    <2>2. answered' <= generation
      BY <1>2, <1>5, <1>7 DEF IInv, Bounds
    <2>3. \A x \in Writers : writer'[x].phase # "waiting" => writer'[x].gen <= generation
      BY <1>1, <1>2, <2>1 DEF IInv, Bounds
    <2>4. \A e \in store : ~e.adrift => e.ver <= version'
      BY <1>7, <1>8 DEF IInv, Bounds, TypeOK, Entry
    <2>5. ASSUME NEW q \in Readers, Running(q)
          PROVE  reader[q].floor <= answered'
      <3>1. reader[q].floor \in Nat /\ reader[q].floor <= answered
        BY <2>5, ReaderShape DEF IInv, Reading, Bounds
      <3> QED
        BY <1>7, <1>8, <3>1
    <2>6. ASSUME NEW q \in Readers, HasKey(q), ~reader[q].adrift
          PROVE  reader[q].ver <= version'
      <3>1. Running(q)
        BY <2>6 DEF HasKey, Running, Pending
      <3>2. reader[q].ver \in Nat /\ reader[q].ver <= version
        BY <2>6, <3>1, ReaderShape DEF IInv, Reading, Bounds
      <3> QED
        BY <1>7, <1>8, <3>2
    <2> QED
      BY <1>4, <2>2, <2>3, <2>4, <2>5, <2>6 DEF Bounds, Running, HasKey
  <1>11. Found'
    BY <1>4 DEF IInv, Found
  <1>12. ASSUME ~missed'
         PROVE  Current' /\ Served'
    <2>1. version' = version + 1 /\ ~missed
      BY <1>6, <1>12
    <2>2. \A e \in store : ~e.adrift => e.ver # version'
      BY <1>7, <2>1 DEF IInv, Bounds, TypeOK, Entry
    <2>3. ASSUME NEW q \in Readers, Storing(q)
          PROVE  reader[q].ver # version'
      <3>1. Running(q) /\ HasKey(q) /\ ~reader[q].adrift
        BY <2>3 DEF Storing, Running, HasKey, Pending
      <3>2. reader[q].ver \in Nat /\ reader[q].ver <= version
        BY <3>1, ReaderShape DEF IInv, Bounds, Reading
      <3> QED
        BY <1>7, <2>1, <3>2
    <2>4. Current'
      BY <1>4, <2>2, <2>3 DEF Current, Storing
    <2>5. Served'
      BY <1>4, <2>1 DEF IInv, Fresher, Served, HasKey, Storing, Sees
    <2> QED
      BY <2>4, <2>5
  <1> QED
    BY <1>9, <1>10, <1>11, <1>12 DEF IInv, Fresher

-----------------------------------------------------------------------------
(* Redis.                                                                  *)

\* Fewer entries, the same table, version and reads.
LEMMA IInvRedis ==
  ASSUME IInv, store' \subseteq store, up' \in BOOLEAN, outages' \in 0 .. MaxOutages,
         UNCHANGED <<generation, version, reader, writer, answered, missed>>
  PROVE  IInv'
  <1>1. TypeOK'
    BY DEF IInv, TypeOK
  <1>2. Bounds'
    BY DEF IInv, Bounds, Running, HasKey
  <1>3. Found' /\ Fresher'
    BY DEF IInv, Found, Fresher, Current, Served, HasKey, Storing, Sees
  <1> QED
    BY <1>1, <1>2, <1>3 DEF IInv

\* A new Redis has no entry, and no key in use is its own.
LEMMA IInvReplaced ==
  ASSUME IInv, Replaced
  PROVE  IInv'
  <1>1. /\ up' = TRUE /\ version' = 0 /\ store' = {}
        /\ UNCHANGED <<generation, writer, answered, missed, outages>>
    BY DEF Replaced
  <1>2. ASSUME NEW q \in Readers
        PROVE  /\ reader'[q] \in Reading \cup {Waiting}
               /\ reader'[q].phase = reader[q].phase
               /\ Running(q) => /\ reader'[q].floor = reader[q].floor
                                /\ reader'[q].gen = reader[q].gen
                                /\ reader'[q].blind = reader[q].blind
                                /\ ~HasKey(q) => reader'[q] = reader[q]
                                /\ HasKey(q) => reader'[q].adrift
    <2>1. reader'[q] = IF HasKey(q) THEN [reader[q] EXCEPT !.adrift = TRUE] ELSE reader[q]
      BY DEF Replaced, HasKey
    <2>2. CASE HasKey(q)
      <3>1. reader[q] \in Reading
        BY <2>2, ReaderShape DEF IInv, HasKey, Running, Pending
      <3> QED
        BY <2>1, <2>2, <3>1 DEF Reading
    <2>3. CASE ~HasKey(q)
      BY <2>1, <2>3 DEF IInv, TypeOK
    <2> QED
      BY <2>2, <2>3
  <1>3. TypeOK'
    <2>1. reader' \in [Readers -> Reading \cup {Waiting}]
      BY <1>2 DEF Replaced
    <2> QED
      BY <1>1, <2>1 DEF IInv, TypeOK
  <1>4. \A q \in Readers : /\ (HasKey(q)' <=> HasKey(q)) /\ ~Storing(q)'
                           /\ Running(q)' <=> Running(q)
                           /\ HasKey(q)' => reader'[q].adrift
    BY <1>2 DEF HasKey, Storing, Running, Pending
  <1>5. Bounds'
    BY <1>1, <1>2, <1>4 DEF IInv, Bounds
  <1>6. Found'
    BY <1>2 DEF IInv, Found, Running
  <1>7. Fresher'
    <2>1. ASSUME ~missed, NEW q \in Readers, reader'[q].phase = "hit", ~reader'[q].blind,
                 ~reader'[q].adrift
          PROVE  reader'[q].floor <= reader'[q].gen
      <3>1. Running(q) /\ ~HasKey(q)
        BY <1>2, <2>1 DEF Running, HasKey, Pending
      <3> QED
        BY <1>2, <2>1, <3>1 DEF IInv, Fresher, Served
    <2> QED
      BY <1>1, <1>4, <2>1 DEF Fresher, Current, Served
  <1> QED
    BY <1>3, <1>5, <1>6, <1>7 DEF IInv

LEMMA IInvInit == Init => IInv
  <1> SUFFICES ASSUME Init PROVE IInv
    OBVIOUS
  <1>1. \A r \in Readers : reader[r] = Waiting
    BY DEF Init
  <1>2. \A w \in Writers : writer[w] = Waiting
    BY DEF Init
  <1>3. Waiting.phase = "waiting"
    BY DEF Waiting
  <1>4. TypeOK
    <2>1. 0 \in 0 .. MaxOutages
      BY OutagesAssumption
    <2>2. /\ reader \in [Readers -> Reading \cup {Waiting}]
          /\ writer \in [Writers -> Writing \cup {Waiting}]
      BY DEF Init
    <2>3. store \subseteq Entry /\ \A d, e \in store : d.ver = e.ver => d = e
      BY DEF Init
    <2> QED
      BY <2>1, <2>2, <2>3 DEF Init, TypeOK
  <1>5. Bounds
    BY <1>1, <1>2, <1>3 DEF Init, Bounds, Running, HasKey, Pending
  <1>6. Found /\ Current /\ Served
    BY <1>1, <1>3 DEF Init, Found, Current, Served, Storing, HasKey, Pending
  <1> QED
    BY <1>4, <1>5, <1>6 DEF IInv, Fresher

LEMMA IInvStep == IInv /\ [Next]_vars => IInv'
  <1> SUFFICES ASSUME IInv, [Next]_vars PROVE IInv'
    OBVIOUS
  <1>1. CASE \E r \in Readers : ReadVersion(r) \/ Get(r) \/ Find(r) \/ Set(r)
    BY <1>1, IInvReadVersion, IInvGet, IInvFind, IInvSet
  <1>2. CASE \E w \in Writers : Save(w) \/ Invalidate(w)
    BY <1>2, IInvSave, IInvInvalidate
  <1>3. CASE GoAway
    <2>1. outages' \in 0 .. MaxOutages
      BY <1>3, OutagesAssumption DEF GoAway, IInv, TypeOK
    <2>2. store' \subseteq store /\ up' \in BOOLEAN
      BY <1>3 DEF GoAway
    <2>3. UNCHANGED <<generation, version, reader, writer, answered, missed>>
      BY <1>3 DEF GoAway
    <2> QED
      BY <2>1, <2>2, <2>3, IInvRedis
  <1>4. CASE ComeBack
    BY <1>4, IInvRedis DEF ComeBack, IInv, TypeOK
  <1>5. CASE \E e \in store : Expire(e)
    BY <1>5, IInvRedis DEF Expire, IInv, TypeOK
  <1>6. CASE Replaced
    BY <1>6, IInvReplaced
  <1>7. CASE UNCHANGED vars
    BY <1>7, IInvRedis DEF vars, IInv, TypeOK
  <1> QED
    BY <1>1, <1>2, <1>3, <1>4, <1>5, <1>6, <1>7 DEF Next

LEMMA Invariance == Spec => []IInv
  BY IInvInit, IInvStep, PTL DEF Spec

\* Every reachable state of the cache and its readers is well typed; among
\* others Redis never holds two entries under one key.
THEOREM TypeCorrect == Spec => []TypeOK
  <1>1. IInv => TypeOK
    BY DEF IInv
  <1> QED
    BY <1>1, Invariance, PTL

\* For any number of readers, writers, outages and replacements of Redis, a
\* read shows every write answered before it began, always when it comes from
\* Postgres and otherwise what the code hides apart.
THEOREM FreshHolds == Spec => []FreshUnlessDegraded
  <1>1. IInv => FreshUnlessDegraded
    BY DEF IInv, Found, Fresher, Served, FreshUnlessDegraded
  <1> QED
    BY <1>1, Invariance, PTL
=============================================================================
