--------------------------- MODULE LivioAppProofs ---------------------------
(***************************************************************************)
(* Theorems about the Livio client and the auth service's refresh, for any *)
(* number of calls, sign-ins, expiries and disturbances.                   *)
(***************************************************************************)
EXTENDS LivioApp, FiniteSetTheorems, TLAPS

-----------------------------------------------------------------------------
(* The types: what TypeOK leaves to the reader.  The service is at finitely *)
(* many exchanges, so there is a number for the next one; and every token   *)
(* that is anywhere was issued.                                             *)

Tokens ==
  /\ IsFiniteSet(exchanges)
  /\ \A x \in exchanges : x.token \in 1 .. issued
  /\ flight.phase \in {"write access", "write refresh"} => flight.token \in 1 .. issued
  /\ \A n \in Entries :
       entry[n].phase \in {"write access", "write refresh"} => entry[n].token \in 1 .. issued

\* A sign-out of the three kinds, and _restore's entry, which signs nobody in.
Roles ==
  /\ entry[Restoring].phase \in {"begin", "me", "asked", "over"}
  /\ \A n \in SignIns : entry[n].phase # "begin"

Typed == TypeOK /\ Tokens /\ Roles

\* A number of a token stays one as more are issued.
LEMMA MoreIssued ==
  ASSUME NEW a \in Nat, NEW b \in Nat, a <= b
  PROVE  /\ \A i \in 1 .. a : i \in 1 .. b /\ i \in 0 .. b
         /\ \A i \in 0 .. a : i \in 0 .. b
  OBVIOUS

\* A token signed now: no older than the last, and not expired.
LEMMA SignedShape ==
  ASSUME Typed, NEW t \in Signed
  PROVE  /\ t \in Nat /\ t > expired /\ t >= current
         /\ issued' = (IF t > issued THEN t ELSE issued)
              => /\ issued' \in Nat /\ issued <= issued' /\ t \in 1 .. issued'
  BY DEF Typed, TypeOK, SessionTypeOK, Signed

LEMMA CallShape ==
  /\ \A phase \in {"new", "sent", "join", "retry", "clear access", "clear refresh",
                   "ok", "failed", "expired"} :
       At(phase) \in Call /\ At(phase).phase = phase /\ At(phase).retried = FALSE
  /\ NoFlight \in Flight /\ NoFlight.phase = "none" /\ NoFlight.token = 0 
  /\ \A phase : Stands(phase).phase = phase /\ Stands(phase).token = 0
  /\ \A phase \in {"idle", "begin", "login", "write access", "write refresh", "me",
                   "asked", "over", "kept"} : Stands(phase) \in Entry
  BY DEF At, Call, NoFlight, Flight, Stands, Entry

\* There is a number no exchange has: more numbers are tried than there are
\* exchanges.
LEMMA UnusedIsUnused ==
  ASSUME Typed
  PROVE  Unused \in Nat /\ \A x \in exchanges : x.id # Unused
  <1> DEFINE n == Cardinality(exchanges)
             S == 1 .. n + 1
  <1>1. n \in Nat /\ IsFiniteSet(exchanges)
    BY FS_CardinalityType DEF Typed, Tokens
  <1>2. \E i \in S : \A x \in exchanges : x.id # i
    <2> SUFFICES ASSUME \A i \in S : \E x \in exchanges : x.id = i
                 PROVE  FALSE
      OBVIOUS
    <2> DEFINE f == [i \in S |-> CHOOSE x \in exchanges : x.id = i]
    <2>1. \A i \in S : f[i] \in exchanges /\ f[i].id = i
      OBVIOUS
    <2>2. f \in [S -> exchanges]
      BY <2>1
    <2>3. IsFiniteSet(S) /\ Cardinality(S) = n + 1
      <3>1. 1 \in Int /\ n + 1 \in Int
        BY <1>1
      <3> QED BY <1>1, <3>1, FS_Interval
    <2>4. Cardinality(exchanges) < Cardinality(S)
      BY <1>1, <2>3
    <2> HIDE DEF f, S, n
    <2>5. \E i, j \in S : i # j /\ f[i] = f[j]
      BY <1>1, <2>2, <2>3, <2>4, FS_PigeonHole
    <2> QED BY <2>1, <2>5
  <1>3. Unused \in S /\ \A x \in exchanges : x.id # Unused
    BY <1>2 DEF Unused
  <1> QED BY <1>1, <1>3

LEMMA TypedInit ==
  ASSUME Init
  PROVE  Typed
  <1> USE SessionBounds, EntriesAssumption
  <1>0. store \in [access: 0 .. 1, refresh: 0 .. 1]
    BY DEF Init, SessionInit, Pair
  <1>1. SessionTypeOK
    <2>1. At("new") \in Call /\ NoFlight \in Flight
      BY CallShape
    <2>2. /\ current = 1 /\ issued = 1 /\ expired = 0 /\ lapsed = 0 /\ exchanges = {} /\ flight = NoFlight
          /\ call = [c \in Calls |-> At("new")] /\ expiries = 0 /\ disturbances = 0
      BY DEF Init, SessionInit
    <2> QED
      BY <1>0, <2>1, <2>2 DEF SessionTypeOK
  <1>2. TypeOK
    BY <1>1, CallShape DEF Init, TypeOK, Screens, Entries
  <1>3. Tokens /\ Roles
    <2>1. /\ exchanges = {} /\ flight.phase = "none"
          /\ \A n \in Entries : entry[n] = Stands(IF n = Restoring THEN "begin" ELSE "idle")
      BY CallShape DEF Init, SessionInit
    <2>2. \A n \in Entries : entry[n].phase = IF n = Restoring THEN "begin" ELSE "idle"
      BY <2>1, CallShape
    <2>3. Tokens
      BY <2>1, <2>2, FS_EmptySet DEF Tokens
    <2>4. Roles
      BY <2>2 DEF Roles, Entries
    <2> QED BY <2>3, <2>4
  <1> QED BY <1>2, <1>3 DEF Typed

-----------------------------------------------------------------------------
(* The types: the steps of Sessions.                                       *)

\* A step that leaves the screens alone.
LEMMA TypedApp ==
  ASSUME Typed, SessionTypeOK', Tokens', UNCHANGED app,
         {left', crossed'} \subseteq BOOLEAN
  PROVE  Typed'
  BY DEF Typed, TypeOK, Roles, app

\* What was a token's number, with more tokens, still is.
LEMMA TokensGrow ==
  ASSUME Typed, issued' \in Nat, issued <= issued', UNCHANGED <<flight, entry>>,
         IsFiniteSet(exchanges'), \A x \in exchanges' : x \in exchanges \/ x.token \in 1 .. issued'
  PROVE  Tokens'
  <1>1. \A i \in 1 .. issued : i \in 1 .. issued'
    BY DEF Typed, TypeOK, SessionTypeOK
  <1> QED
    BY <1>1 DEF Typed, Tokens

\* The exchanges after one of them has gone on, or been removed.
LEMMA ExchangeGoesOn ==
  ASSUME Typed, NEW x \in exchanges, NEW y \in Exchange, y.id = x.id,
         NEW E, E = exchanges \ {x} \/ E = (exchanges \ {x}) \cup {y}
  PROVE  /\ E \subseteq Exchange /\ IsFiniteSet(E)
         /\ \A a, b \in E : a.id = b.id => a = b
         /\ \A a \in E : a \in exchanges \/ a = y
  <1>1. IsFiniteSet(exchanges \ {x})
    BY FS_RemoveElement DEF Typed, Tokens
  <1>2. IsFiniteSet((exchanges \ {x}) \cup {y})
    BY <1>1, FS_AddElement
  <1>3. IsFiniteSet(E)
    BY <1>1, <1>2
  <1> QED
    BY <1>3 DEF Typed, TypeOK, SessionTypeOK

LEMMA TypedService ==
  ASSUME Typed, ServiceStep \/ LoginElsewhere, UNCHANGED app
  PROVE  SessionTypeOK' /\ Tokens'
  <1> USE DEF Typed, TypeOK
  <1>1. ASSUME NEW x \in exchanges, Verify(x)
        PROVE  SessionTypeOK' /\ Tokens'
    <2>1. x \in Exchange /\ x.token \in 1 .. issued
      BY DEF SessionTypeOK, Tokens
    <2>2. PICK y \in Exchange :
            /\ y.id = x.id /\ y.token = x.token
            /\ exchanges' = exchanges \ {x} \/ exchanges' = (exchanges \ {x}) \cup {y}
      <3> DEFINE a == [x EXCEPT !.phase = "save"]
                 b == [x EXCEPT !.phase = "refused"]
      <3>1. /\ a \in Exchange /\ a.id = x.id /\ a.token = x.token
            /\ b \in Exchange /\ b.id = x.id /\ b.token = x.token
        BY <2>1 DEF Exchange
      <3>2. \/ exchanges' = (exchanges \ {x}) \cup {a}
            \/ exchanges' = (exchanges \ {x}) \cup Replied(b)
        BY <1>1 DEF Verify
      <3>3. Replied(b) = {} \/ Replied(b) = {b}
        BY DEF Replied
      <3> HIDE DEF a, b
      <3>4. \/ exchanges' = exchanges \ {x}
            \/ exchanges' = (exchanges \ {x}) \cup {a}
            \/ exchanges' = (exchanges \ {x}) \cup {b}
        BY <3>2, <3>3
      <3> QED BY <3>1, <3>4
    <2>3. /\ exchanges' \subseteq Exchange /\ IsFiniteSet(exchanges')
          /\ \A c, d \in exchanges' : c.id = d.id => c = d
          /\ \A c \in exchanges' : c \in exchanges \/ c = y
      BY <2>2, ExchangeGoesOn
    <2>4. UNCHANGED <<current, issued, expired, lapsed, store, flight, call, expiries, disturbances>>
      BY <1>1 DEF Verify
    <2>5. SessionTypeOK'
      BY <2>3, <2>4 DEF SessionTypeOK
    <2>6. Tokens'
      BY <2>1, <2>2, <2>3, <2>4 DEF Tokens, app
    <2> QED BY <2>5, <2>6
  <1>2. ASSUME NEW x \in exchanges, Issue(x)
        PROVE  SessionTypeOK' /\ Tokens'
    <2>1. x \in Exchange
      BY DEF SessionTypeOK
    <2>2. PICK t \in Signed :
            /\ current' = t /\ issued' = (IF t > issued THEN t ELSE issued)
            /\ exchanges' = (exchanges \ {x}) \cup Replied([x EXCEPT !.phase = "issued", !.token = t])
      BY <1>2 DEF Issue
    <2>3. /\ t \in Nat /\ t > expired /\ issued' \in Nat /\ issued <= issued' /\ t \in 1 .. issued'
      BY <2>2, SignedShape
    <2> DEFINE y == [x EXCEPT !.phase = "issued", !.token = t]
    <2>4. /\ y \in Exchange /\ y.id = x.id /\ y.token = t
          /\ exchanges' = exchanges \ {x} \/ exchanges' = (exchanges \ {x}) \cup {y}
      BY <2>1, <2>2, <2>3 DEF Exchange, Replied
    <2> HIDE DEF y
    <2>5. /\ exchanges' \subseteq Exchange /\ IsFiniteSet(exchanges')
          /\ \A c, d \in exchanges' : c.id = d.id => c = d
          /\ \A c \in exchanges' : c \in exchanges \/ c = y
      BY <2>4, ExchangeGoesOn
    <2>6. UNCHANGED <<expired, lapsed, store, flight, call, expiries, disturbances>>
      BY <1>2 DEF Issue
    <2>7. SessionTypeOK'
      BY <2>2, <2>3, <2>5, <2>6 DEF SessionTypeOK
    <2>8. Tokens'
      BY <2>3, <2>4, <2>5, <2>6, TokensGrow DEF app
    <2> QED BY <2>7, <2>8
  <1>3. CASE LoginElsewhere
    <2>1. PICK t \in Signed : current' = t /\ issued' = (IF t > issued THEN t ELSE issued)
      BY <1>3 DEF LoginElsewhere
    <2>2. /\ t \in Nat /\ issued' \in Nat /\ issued <= issued' /\ t \in 1 .. issued'
      BY <2>1, SignedShape
    <2>3. UNCHANGED <<expired, lapsed, exchanges, store, flight, call, expiries>>
      BY <1>3 DEF LoginElsewhere
    <2>4. disturbances' \in 0 .. MaxDisturbances
      BY <1>3, SessionBounds DEF LoginElsewhere, SessionTypeOK
    <2>5. SessionTypeOK'
      BY <2>1, <2>2, <2>3, <2>4 DEF SessionTypeOK
    <2>6. Tokens'
      BY <2>2, <2>3, TokensGrow DEF Tokens, app
    <2> QED BY <2>5, <2>6
  <1> QED BY <1>1, <1>2, <1>3 DEF ServiceStep

\* A shared exchange that has ended tells every call that awaits it.
LEMMA LandedShape ==
  ASSUME Typed, NEW ok \in BOOLEAN
  PROVE  /\ Landed(call, ok) \in [Calls -> Call]
         /\ \A c \in Calls : Landed(call, ok)[c] =
              IF call[c].phase = "join" THEN At(IF ok THEN "retry" ELSE "clear access")
              ELSE call[c]
  BY CallShape DEF Landed, Typed, TypeOK, SessionTypeOK

LEMMA TypedFlight ==
  ASSUME Typed, FlightStep \/ LoseConnection, UNCHANGED app
  PROVE  SessionTypeOK' /\ Tokens'
  <1> USE DEF Typed, TypeOK
  <1>1. CASE ReadRefresh
    <2>1. CASE store.refresh = 0
      <3>1. /\ flight' = NoFlight /\ call' = Landed(call, FALSE)
            /\ UNCHANGED <<current, issued, expired, lapsed, exchanges, store, expiries, disturbances>>
            /\ UNCHANGED app
        BY <1>1, <2>1 DEF ReadRefresh, Land
      <3>2. call' \in [Calls -> Call] /\ flight' \in Flight /\ flight'.phase = "none"
        BY <3>1, LandedShape, CallShape
      <3> QED BY <3>1, <3>2 DEF SessionTypeOK, Tokens, app
    <2>2. CASE store.refresh # 0
      <3> DEFINE y == [id |-> Unused, token |-> store.refresh, phase |-> "verify"]
      <3>1. y \in Exchange /\ y.id = Unused /\ y.token \in 1 .. issued
        BY <2>2, UnusedIsUnused DEF Exchange, SessionTypeOK
      <3>2. /\ exchanges' = exchanges \cup {y}
            /\ flight' = [flight EXCEPT !.phase = "wait", !.id = Unused]
            /\ UNCHANGED <<current, issued, expired, lapsed, store, call, expiries, disturbances>>
        BY <1>1, <2>2 DEF ReadRefresh
      <3> HIDE DEF y
      <3>3. IsFiniteSet(exchanges')
        BY <3>2, FS_AddElement DEF Tokens
      <3>4. flight' \in Flight /\ flight'.phase = "wait"
        BY <3>2, UnusedIsUnused DEF SessionTypeOK, Flight
      <3>5. \A c, d \in exchanges' : c.id = d.id => c = d
        BY <3>1, <3>2, UnusedIsUnused DEF SessionTypeOK
      <3>6. SessionTypeOK'
        BY <3>1, <3>2, <3>4, <3>5 DEF SessionTypeOK
      <3> QED BY <3>1, <3>2, <3>3, <3>4, <3>6 DEF Tokens, app
    <2> QED BY <2>1, <2>2
  <1>2. ASSUME NEW x \in exchanges, Receive(x)
        PROVE  SessionTypeOK' /\ Tokens'
    <2>1. IsFiniteSet(exchanges') /\ exchanges' \subseteq exchanges
      BY <1>2, FS_RemoveElement DEF Receive, Tokens
    <2>2. x \in Exchange /\ x.token \in 1 .. issued
      BY DEF SessionTypeOK, Tokens
    <2>3. UNCHANGED <<current, issued, expired, lapsed, store, expiries, disturbances>>
      BY <1>2 DEF Receive
    <2>4. /\ flight' \in Flight /\ call' \in [Calls -> Call]
          /\ flight'.phase \in {"write access", "write refresh"} => flight'.token \in 1 .. issued
      <3>1. CASE x.phase = "refused"
        BY <1>2, <3>1, LandedShape, CallShape DEF Receive, Land
      <3>2. CASE x.phase # "refused"
        <4>1. flight' = [phase |-> "write access", id |-> 0, token |-> x.token] /\ call' = call
          BY <1>2, <3>2 DEF Receive
        <4> QED BY <2>2, <4>1 DEF Flight, SessionTypeOK, Exchange
      <3> QED BY <3>1, <3>2
    <2>5. SessionTypeOK'
      BY <2>1, <2>3, <2>4 DEF SessionTypeOK
    <2> QED BY <2>1, <2>3, <2>4, <2>5 DEF Tokens, app
  <1>3. CASE Write
    <2>1. flight.token \in 1 .. issued
      BY <1>3 DEF Write, Tokens
    <2>2. UNCHANGED <<current, issued, expired, lapsed, exchanges, expiries, disturbances>>
      BY <1>3 DEF Write
    <2>3. store' \in [access: 0 .. issued, refresh: 0 .. issued]
      <3>1. \A v \in 0 .. issued : /\ [store EXCEPT !.access = v] \in [access: 0 .. issued, refresh: 0 .. issued]
                                   /\ [store EXCEPT !.refresh = v] \in [access: 0 .. issued, refresh: 0 .. issued]
        BY DEF SessionTypeOK
      <3>2. flight.token \in 0 .. issued
        BY <2>1
      <3> QED BY <1>3, <3>1, <3>2 DEF Write
    <2>4. /\ flight' \in Flight /\ call' \in [Calls -> Call]
          /\ flight'.phase \in {"none", "write refresh"}
          /\ flight'.phase = "write refresh" => flight'.token = flight.token
      <3>1. CASE flight.phase = "write access"
        BY <1>3, <3>1 DEF Write, SessionTypeOK, Flight
      <3>2. CASE flight.phase = "write refresh"
        BY <1>3, <3>2, LandedShape, CallShape DEF Write, Land
      <3> QED BY <1>3, <3>1, <3>2 DEF Write
    <2>5. SessionTypeOK'
      BY <2>2, <2>3, <2>4 DEF SessionTypeOK
    <2> QED BY <2>1, <2>2, <2>4, <2>5 DEF Tokens, app
  <1>4. CASE LoseConnection
    <2>1. exchanges' \subseteq exchanges
      BY <1>4 DEF LoseConnection
    <2>2. IsFiniteSet(exchanges')
      BY <2>1, FS_Subset DEF Tokens
    <2>3. /\ UNCHANGED <<current, issued, expired, lapsed, store, expiries>>
          /\ disturbances' \in 0 .. MaxDisturbances
      BY <1>4, SessionBounds DEF LoseConnection, SessionTypeOK
    <2>4. flight' = NoFlight /\ call' \in [Calls -> Call]
      BY <1>4, LandedShape DEF LoseConnection, Land
    <2>5. SessionTypeOK'
      BY <2>1, <2>3, <2>4, CallShape DEF SessionTypeOK
    <2> QED BY <2>1, <2>2, <2>3, <2>4, <2>5, CallShape DEF Tokens, app
  <1> QED BY <1>1, <1>2, <1>3, <1>4 DEF FlightStep

\* The steps of the calls, and the clock.
LEMMA TypedCalls ==
  ASSUME Typed, UNCHANGED entry,
         \/ Expire \/ Lapse
         \/ \E c \in Calls : Answered(c) \/ Unauthorized(c) \/ Send(c) \/ Clear(c)
  PROVE  SessionTypeOK' /\ Tokens'
  <1> USE DEF Typed, TypeOK
  <1>1. CASE Expire
    <2>1. /\ UNCHANGED <<current, issued, lapsed, exchanges, store, flight, call, disturbances>>
          /\ expired' = store.access /\ expired' > expired /\ expiries' \in 0 .. MaxExpiries
      BY <1>1, SessionBounds DEF Expire, SessionTypeOK
    <2>2. SessionTypeOK'
      BY <2>1 DEF SessionTypeOK
    <2> QED BY <2>1, <2>2 DEF Tokens
  <1>8. CASE Lapse
    <2>1. /\ UNCHANGED <<current, issued, expired, exchanges, store, flight, call, expiries>>
          /\ lapsed' = store.refresh /\ store.refresh <= expired
          /\ disturbances' \in 0 .. MaxDisturbances
      BY <1>8, SessionBounds DEF Lapse, SessionTypeOK
    <2>2. SessionTypeOK'
      BY <2>1 DEF SessionTypeOK
    <2> QED BY <2>1, <2>2 DEF Tokens
  <1>2. ASSUME UNCHANGED <<current, issued, expired, lapsed, exchanges, expiries>>,
               NEW c \in Calls, NEW q \in Call, call' = [call EXCEPT ![c] = q],
               flight' \in {flight, [NoFlight EXCEPT !.phase = "read"]},
               disturbances' \in 0 .. MaxDisturbances,
               store' \in [access: 0 .. issued, refresh: 0 .. issued]
        PROVE  SessionTypeOK' /\ Tokens'
    <2>1. /\ flight' \in Flight
          /\ flight' = flight \/ flight'.phase = "read"
      <3>1. flight \in Flight
        BY DEF SessionTypeOK
      <3>2. /\ [NoFlight EXCEPT !.phase = "read"] \in Flight
            /\ [NoFlight EXCEPT !.phase = "read"].phase = "read"
        BY DEF NoFlight, Flight
      <3> QED BY <1>2, <3>1, <3>2
    <2>2. SessionTypeOK'
      BY <1>2, <2>1 DEF SessionTypeOK
    <2> QED BY <1>2, <2>1, <2>2 DEF Tokens
  <1>3. /\ store \in [access: 0 .. issued, refresh: 0 .. issued]
        /\ disturbances \in 0 .. MaxDisturbances /\ call \in [Calls -> Call]
    BY DEF SessionTypeOK
  <1>4. ASSUME NEW c \in Calls, Answered(c)
        PROVE  SessionTypeOK' /\ Tokens'
    <2>1. /\ UNCHANGED <<current, issued, expired, lapsed, exchanges, store, flight, expiries>>
          /\ disturbances' \in 0 .. MaxDisturbances
      BY <1>3, <1>4, SessionBounds DEF Answered
    <2>2. At("ok") \in Call /\ At("failed") \in Call
      BY CallShape
    <2>3. call' = [call EXCEPT ![c] = At("ok")] \/ call' = [call EXCEPT ![c] = At("failed")]
      BY <1>4 DEF Answered
    <2> QED BY <1>2, <1>3, <2>1, <2>2, <2>3
  <1>5. ASSUME NEW c \in Calls, Unauthorized(c)
        PROVE  SessionTypeOK' /\ Tokens'
    <2>1. /\ UNCHANGED <<current, issued, expired, lapsed, exchanges, store, expiries, disturbances>>
          /\ flight' \in {flight, [NoFlight EXCEPT !.phase = "read"]}
      BY <1>5 DEF Unauthorized
    <2>2. At("join") \in Call /\ At("failed") \in Call
      BY CallShape
    <2>3. call' = [call EXCEPT ![c] = At("join")] \/ call' = [call EXCEPT ![c] = At("failed")]
      BY <1>5 DEF Unauthorized
    <2> QED BY <1>2, <1>3, <2>1, <2>2, <2>3
  <1>6. ASSUME NEW c \in Calls, Send(c)
        PROVE  SessionTypeOK' /\ Tokens'
    <2> DEFINE q == [phase |-> "sent", token |-> store.access, retried |-> call[c].phase = "retry"]
    <2>1. q \in Call
      <3>1. store.access \in Nat
        BY DEF SessionTypeOK
      <3> QED BY <3>1 DEF Call
    <2>2. /\ UNCHANGED <<current, issued, expired, lapsed, exchanges, store, flight, expiries, disturbances>>
          /\ call' = [call EXCEPT ![c] = q]
      BY <1>6 DEF Send
    <2> HIDE DEF q
    <2> QED BY <1>2, <1>3, <2>1, <2>2
  <1>7. ASSUME NEW c \in Calls, Clear(c)
        PROVE  SessionTypeOK' /\ Tokens'
    <2>1. UNCHANGED <<current, issued, expired, lapsed, exchanges, flight, expiries, disturbances>>
      BY <1>7 DEF Clear
    <2>2. store' \in [access: 0 .. issued, refresh: 0 .. issued]
      <3>1. /\ [store EXCEPT !.access = 0] \in [access: 0 .. issued, refresh: 0 .. issued]
            /\ [store EXCEPT !.refresh = 0] \in [access: 0 .. issued, refresh: 0 .. issued]
        BY <1>3 DEF SessionTypeOK
      <3> QED BY <1>7, <3>1 DEF Clear
    <2>3. PICK p \in {"clear refresh", "expired"} : call' = [call EXCEPT ![c].phase = p]
      BY <1>7 DEF Clear
    <2>4. /\ [call[c] EXCEPT !.phase = p] \in Call
          /\ call' = [call EXCEPT ![c] = [call[c] EXCEPT !.phase = p]]
      BY <1>3, <2>3 DEF Call
    <2> QED BY <1>2, <1>3, <2>1, <2>2, <2>4
  <1> QED BY <1>1, <1>4, <1>5, <1>6, <1>7, <1>8

-----------------------------------------------------------------------------
(* The types: the steps of LivioApp.                                       *)

\* An entry that goes on.
LEMMA EntryGoesOn ==
  ASSUME Typed, NEW n \in Entries, NEW e \in Entry, entry' = [entry EXCEPT ![n] = e],
         n = Restoring => e.phase \in {"begin", "me", "asked", "over"},
         n # Restoring => e.phase # "begin",
         e.phase \in {"write access", "write refresh"} => e.token \in 1 .. issued',
         issued \in Nat, issued' \in Nat, issued <= issued',
         UNCHANGED <<exchanges, flight>>
  PROVE  entry' \in [Entries -> Entry] /\ Tokens' /\ Roles'
  <1>1. entry' \in [Entries -> Entry] /\ \A m \in Entries : entry'[m] = IF m = n THEN e ELSE entry[m]
    BY DEF Typed, TypeOK
  <1>2. \A i \in 1 .. issued : i \in 1 .. issued'
    BY MoreIssued
  <1>3. Tokens'
    BY <1>1, <1>2 DEF Typed, Tokens
  <1>4. Roles'
    BY <1>1, EntriesAssumption DEF Typed, Roles, Entries
  <1> QED BY <1>1, <1>3, <1>4

LEMMA TypedEntries ==
  ASSUME Typed, UNCHANGED left, crossed' \in BOOLEAN,
         \/ Restore \/ (\E n \in SignIns : SignIn(n)) \/ (\E n \in Entries : EntryStep(n))
  PROVE  Typed'
  <1>0. /\ SessionTypeOK /\ Tokens /\ Roles
        /\ screen \in Screens /\ leaving \in [Leavers -> {"none", "access", "refresh"}]
    BY DEF Typed, TypeOK
  <1>1. /\ issued \in Nat /\ issued <= issued
        /\ Restoring \in Entries /\ \A n \in SignIns : n \in Entries /\ n # Restoring
        /\ \A n \in Entries : n \in Calls /\ entry[n] \in Entry
        /\ store.access \in Nat /\ call \in [Calls -> Call]
        /\ {"in", "out", "signing in"} \subseteq Screens
    <2>1. issued \in Nat /\ store.access \in Nat /\ call \in [Calls -> Call]
      BY <1>0 DEF SessionTypeOK
    <2>2. /\ Restoring \in Entries /\ \A n \in SignIns : n \in Entries /\ n # Restoring
          /\ \A n \in Entries : n \in Calls
      BY EntriesAssumption DEF Entries
    <2>3. entry \in [Entries -> Entry]
      BY DEF Typed, TypeOK
    <2> QED BY <2>1, <2>2, <2>3 DEF Screens
  <1>9. ASSUME SessionTypeOK', entry' \in [Entries -> Entry], Tokens', Roles',
               screen' \in Screens, leaving' \in [Leavers -> {"none", "access", "refresh"}]
        PROVE  Typed'
    BY <1>9 DEF Typed, TypeOK
  <1>10. UNCHANGED vars => SessionTypeOK' /\ UNCHANGED <<issued, exchanges, flight>>
    BY <1>0 DEF vars, SessionTypeOK
  <1>2. CASE Restore
    <2>1. /\ UNCHANGED <<vars, leaving>> /\ screen' \in {screen, "out"}
          /\ \/ entry' = [entry EXCEPT ![Restoring] = Stands("over")]
             \/ entry' = [entry EXCEPT ![Restoring] = [entry[Restoring] EXCEPT !.phase = "me"]]
      BY <1>2 DEF Restore
    <2>2. /\ [entry[Restoring] EXCEPT !.phase = "me"] \in Entry
          /\ [entry[Restoring] EXCEPT !.phase = "me"].phase = "me"
      BY <1>1 DEF Entry
    <2>3. Stands("over") \in Entry /\ Stands("over").phase = "over"
      BY CallShape
    <2>4. PICK e \in Entry : /\ entry' = [entry EXCEPT ![Restoring] = e]
                             /\ e.phase \in {"over", "me"}
      BY <2>1, <2>2, <2>3
    <2>5. entry' \in [Entries -> Entry] /\ Tokens' /\ Roles'
      BY <1>1, <1>10, <2>1, <2>4, EntryGoesOn
    <2> QED BY <1>0, <1>1, <1>9, <1>10, <2>1, <2>5
  <1>3. ASSUME NEW n \in SignIns, SignIn(n)
        PROVE  Typed'
    <2> DEFINE e == [entry[n] EXCEPT !.phase = "login"]
    <2>1. UNCHANGED <<vars, leaving>> /\ screen' = "signing in" /\ entry' = [entry EXCEPT ![n] = e]
      BY <1>3 DEF SignIn
    <2>2. e \in Entry /\ e.phase = "login"
      BY <1>1 DEF Entry
    <2> HIDE DEF e
    <2>3. entry' \in [Entries -> Entry] /\ Tokens' /\ Roles'
      BY <1>1, <1>10, <2>1, <2>2, EntryGoesOn
    <2> QED BY <1>0, <1>1, <1>9, <1>10, <2>1, <2>3
  <1>4. ASSUME NEW n \in Entries, LoginAnswered(n)
        PROVE  Typed'
    <2>1. PICK t \in Signed :
            /\ current' = t /\ issued' = (IF t > issued THEN t ELSE issued)
            /\ entry' = [entry EXCEPT ![n].phase = "write access", ![n].token = t]
      BY <1>4 DEF LoginAnswered
    <2>2. t \in Nat /\ issued' \in Nat /\ issued <= issued' /\ t \in 1 .. issued'
      BY <2>1, SignedShape
    <2> DEFINE e == [entry[n] EXCEPT !.phase = "write access", !.token = t]
    <2>3. e \in Entry /\ e.phase = "write access" /\ e.token = t /\ entry' = [entry EXCEPT ![n] = e]
      BY <1>1, <2>1, <2>2 DEF Entry
    <2> HIDE DEF e
    <2>4. UNCHANGED <<expired, lapsed, exchanges, store, flight, call, expiries, disturbances, screen, leaving>>
      BY <1>4 DEF LoginAnswered
    <2>5. n # Restoring
      BY <1>0, <1>4 DEF LoginAnswered, Roles
    <2>6. entry' \in [Entries -> Entry] /\ Tokens' /\ Roles'
      BY <1>1, <2>2, <2>3, <2>4, <2>5, EntryGoesOn
    <2>7. SessionTypeOK'
      <3>1. \A i \in 0 .. issued : i \in 0 .. issued'
        BY <1>1, <2>2, MoreIssued
      <3>2. /\ current' \in 1 .. issued' /\ issued' \in Nat
            /\ expired' \in 0 .. issued' /\ lapsed' \in 0 .. expired'
            /\ store' \in [access: 0 .. issued', refresh: 0 .. issued']
        BY <1>0, <2>1, <2>2, <2>4, <3>1 DEF SessionTypeOK
      <3> QED BY <1>0, <2>4, <3>1, <3>2 DEF SessionTypeOK
    <2> QED BY <1>0, <1>9, <2>4, <2>6, <2>7
  <1>5. ASSUME NEW n \in Entries, LoginFails(n)
        PROVE  Typed'
    <2>1. UNCHANGED <<vars, leaving>> /\ screen' = "out" /\ entry' = [entry EXCEPT ![n] = Stands("over")]
      BY <1>5 DEF LoginFails
    <2>2. Stands("over") \in Entry /\ Stands("over").phase = "over"
      BY CallShape
    <2>3. entry' \in [Entries -> Entry] /\ Tokens' /\ Roles'
      BY <1>1, <1>10, <2>1, <2>2, EntryGoesOn
    <2> QED BY <1>0, <1>1, <1>9, <1>10, <2>1, <2>3
  <1>6. ASSUME NEW n \in Entries, WriteTokens(n)
        PROVE  Typed'
    <2>1. /\ UNCHANGED <<current, issued, expired, lapsed, exchanges, flight, call, expiries, disturbances>>
          /\ UNCHANGED <<screen, leaving>>
      BY <1>6 DEF WriteTokens
    <2>2. entry[n].phase \in {"write access", "write refresh"} /\ entry[n].token \in 1 .. issued
      BY <1>0, <1>6 DEF WriteTokens, Tokens
    <2>3. store' \in [access: 0 .. issued, refresh: 0 .. issued]
      <3>1. \A v \in 0 .. issued : /\ [store EXCEPT !.access = v] \in [access: 0 .. issued, refresh: 0 .. issued]
                                   /\ [store EXCEPT !.refresh = v] \in [access: 0 .. issued, refresh: 0 .. issued]
        BY <1>0 DEF SessionTypeOK
      <3>2. entry[n].token \in 0 .. issued
        BY <1>1, <2>2, MoreIssued
      <3> QED BY <1>6, <3>1, <3>2 DEF WriteTokens
    <2> DEFINE e == [entry[n] EXCEPT !.phase = "write refresh"]
    <2>4. /\ e \in Entry /\ e.phase = "write refresh" /\ e.token = entry[n].token
          /\ Stands("me") \in Entry /\ Stands("me").phase = "me"
          /\ entry' = [entry EXCEPT ![n] = e] \/ entry' = [entry EXCEPT ![n] = Stands("me")]
      <3>1. e \in Entry /\ e.phase = "write refresh" /\ e.token = entry[n].token
        BY <1>1 DEF Entry
      <3>2. entry' = [entry EXCEPT ![n] = e] \/ entry' = [entry EXCEPT ![n] = Stands("me")]
        BY <1>6 DEF WriteTokens
      <3> QED BY <3>1, <3>2, CallShape
    <2> HIDE DEF e
    <2>5. n # Restoring
      BY <1>0, <2>2 DEF Roles
    <2>6. entry' \in [Entries -> Entry] /\ Tokens' /\ Roles'
      BY <1>1, <2>1, <2>2, <2>4, <2>5, EntryGoesOn
    <2>7. SessionTypeOK'
      BY <1>0, <2>1, <2>3 DEF SessionTypeOK
    <2> QED BY <1>0, <1>9, <2>1, <2>6, <2>7
  <1>7. ASSUME NEW n \in Entries, Me(n)
        PROVE  Typed'
    <2> DEFINE e == [entry[n] EXCEPT !.phase = "asked"]
    <2>1. e \in Entry /\ e.phase = "asked" /\ entry' = [entry EXCEPT ![n] = e]
      BY <1>1, <1>7 DEF Me, Entry
    <2> HIDE DEF e
    <2>2. /\ Send(n) /\ UNCHANGED <<screen, leaving>> 
          /\ UNCHANGED <<current, issued, expired, lapsed, exchanges, store, flight, expiries, disturbances>>
      BY <1>7 DEF Me, Send
    <2>3. entry' \in [Entries -> Entry] /\ Tokens' /\ Roles'
      BY <1>1, <2>1, <2>2, EntryGoesOn
    <2>4. call' \in [Calls -> Call]
      <3>1. [phase |-> "sent", token |-> store.access, retried |-> call[n].phase = "retry"] \in Call
        BY <1>1 DEF Call
      <3> QED BY <1>1, <2>2, <3>1 DEF Send
    <2>5. SessionTypeOK'
      BY <1>0, <2>2, <2>4 DEF SessionTypeOK
    <2> QED BY <1>0, <1>9, <2>2, <2>3, <2>5
  <1>8. ASSUME NEW n \in Entries, Conclude(n)
        PROVE  Typed'
    <2>1. /\ UNCHANGED vars /\ screen' \in {screen, "in", "out"}
          /\ leaving' = leaving \/ leaving' = [leaving EXCEPT !["restore"] = "access"]
      BY <1>8 DEF Conclude, Rejected
    <2>2. \/ entry' = [entry EXCEPT ![n] = Stands("over")]
          \/ entry' = [entry EXCEPT ![n] = Stands("kept")] /\ n # Restoring
      BY <1>1, <1>8 DEF Conclude
    <2>3. /\ Stands("over") \in Entry /\ Stands("over").phase = "over"
          /\ Stands("kept") \in Entry /\ Stands("kept").phase = "kept"
      BY CallShape
    <2>4. entry' \in [Entries -> Entry] /\ Tokens' /\ Roles'
      <3> HIDE DEF Stands
      <3>1. CASE entry' = [entry EXCEPT ![n] = Stands("over")]
        BY <1>1, <1>10, <2>1, <2>3, <3>1, EntryGoesOn
      <3>2. CASE entry' = [entry EXCEPT ![n] = Stands("kept")] /\ n # Restoring
        BY <1>1, <1>10, <2>1, <2>3, <3>2, EntryGoesOn
      <3> QED BY <2>2, <3>1, <3>2
    <2>5. leaving' \in [Leavers -> {"none", "access", "refresh"}]
      BY <1>0, <2>1 DEF Leavers
    <2> QED BY <1>0, <1>1, <1>9, <1>10, <2>1, <2>4, <2>5
  <1> QED
    BY <1>2, <1>3, <1>4, <1>5, <1>6, <1>7, <1>8 DEF EntryStep

LEMMA TypedLeavers ==
  ASSUME Typed, {left', crossed'} \subseteq BOOLEAN,
         SignOut \/ (\E c \in Calls : ClearStep(c)) \/ (\E k \in Leavers : Leave(k))
  PROVE  Typed'
  <1>0. /\ SessionTypeOK /\ Tokens /\ Roles /\ "person" \in Leavers
        /\ screen \in Screens /\ leaving \in [Leavers -> {"none", "access", "refresh"}]
        /\ "out" \in Screens /\ \A c \in Calls : c \in Leavers
    BY DEF Typed, TypeOK, Leavers, Screens
  <1>1. ASSUME SessionTypeOK', Tokens', UNCHANGED entry, screen' \in Screens,
               leaving' \in [Leavers -> {"none", "access", "refresh"}]
        PROVE  Typed'
    BY <1>1 DEF Typed, TypeOK, Roles
  <1>2. CASE SignOut
    <2>1. /\ UNCHANGED <<vars, screen, entry>>
          /\ leaving' = [leaving EXCEPT !["person"] = "access"]
      BY <1>2 DEF SignOut
    <2>2. SessionTypeOK' /\ Tokens'
      BY <1>0, <2>1 DEF vars, SessionTypeOK, Tokens
    <2> QED BY <1>0, <1>1, <2>1, <2>2
  <1>3. ASSUME NEW c \in Calls, ClearStep(c)
        PROVE  Typed'
    <2>1. Clear(c) /\ UNCHANGED <<screen, entry>>
      BY <1>3 DEF ClearStep
    <2>2. SessionTypeOK' /\ Tokens'
      BY <2>1, TypedCalls
    <2>3. leaving' \in [Leavers -> {"none", "access", "refresh"}]
      BY <1>0, <1>3 DEF ClearStep
    <2> QED BY <1>0, <1>1, <2>1, <2>2, <2>3
  <1>4. ASSUME NEW k \in Leavers, Leave(k)
        PROVE  Typed'
    <2>1. /\ UNCHANGED <<current, issued, expired, lapsed, exchanges, flight, call, expiries, disturbances>>
          /\ UNCHANGED entry
      BY <1>4 DEF Leave
    <2>2. screen' \in Screens /\ leaving' \in [Leavers -> {"none", "access", "refresh"}]
      BY <1>0, <1>4 DEF Leave
    <2>3. store' \in [access: 0 .. issued, refresh: 0 .. issued]
      <3>1. /\ [store EXCEPT !.access = 0] \in [access: 0 .. issued, refresh: 0 .. issued]
            /\ [store EXCEPT !.refresh = 0] \in [access: 0 .. issued, refresh: 0 .. issued]
        BY <1>0 DEF SessionTypeOK
      <3> QED BY <1>4, <3>1 DEF Leave, Cleared
    <2>4. SessionTypeOK'
      BY <1>0, <2>1, <2>3 DEF SessionTypeOK
    <2>5. Tokens'
      BY <1>0, <2>1 DEF Tokens
    <2> QED BY <1>1, <2>1, <2>2, <2>4, <2>5
  <1> QED BY <1>2, <1>3, <1>4

\* Where the app that starts again finds its entries.
LEMMA Restarted ==
  ASSUME Typed, Restart
  PROVE  \E p \in [Entries -> {"idle", "begin", "over", "kept"}] :
           /\ entry' = [n \in Entries |-> Stands(p[n])]
           /\ \A n \in Entries :
                /\ p[n] = "begin" <=> n = Restoring
                /\ n # Restoring => (p[n] = "idle" <=> entry[n].phase = "idle")
                /\ n # Restoring /\ entry[n].phase \in Storing /\ HalfPair => p[n] = "kept"
                /\ p[n] = "kept" => entry[n].phase \in Storing /\ HalfPair
  <1> DEFINE p == [n \in Entries |->
                     CASE n = Restoring                         -> "begin"
                       [] entry[n].phase = "idle"                -> "idle"
                       [] entry[n].phase \in Storing /\ HalfPair -> "kept"
                       [] OTHER                                  -> "over"]
  <1>1. p \in [Entries -> {"idle", "begin", "over", "kept"}]
    OBVIOUS
  <1>2. entry' = [n \in Entries |-> Stands(p[n])]
    BY DEF Restart
  <1>3. ASSUME NEW n \in Entries
        PROVE  /\ p[n] = "begin" <=> n = Restoring
               /\ n # Restoring => (p[n] = "idle" <=> entry[n].phase = "idle")
               /\ n # Restoring /\ entry[n].phase \in Storing /\ HalfPair => p[n] = "kept"
               /\ p[n] = "kept" => entry[n].phase \in Storing /\ HalfPair
    <2>1. CASE n = Restoring
      <3>1. p[n] = "begin"
        <4>1. entry[n].phase \notin {"idle"} \cup Storing
          BY <2>1 DEF Typed, Roles, Storing
        <4> QED BY <2>1, <4>1
      <3> HIDE DEF p
      <3> QED BY <2>1, <3>1
    <2>2. CASE n # Restoring /\ entry[n].phase = "idle"
      BY <2>2 DEF Storing
    <2>3. CASE n # Restoring /\ entry[n].phase # "idle" /\ entry[n].phase \in Storing /\ HalfPair
      <3>1. p[n] = "kept"
        BY <2>3
      <3> QED BY <2>3, <3>1
    <2>4. CASE n # Restoring /\ entry[n].phase # "idle" /\ ~(entry[n].phase \in Storing /\ HalfPair)
      <3>1. p[n] = "over"
        BY <2>4
      <3> QED BY <2>4, <3>1
    <2> QED BY <2>1, <2>2, <2>3, <2>4
  <1> QED BY <1>1, <1>2, <1>3

LEMMA TypedRestart ==
  ASSUME Typed, Restart, {left', crossed'} \subseteq BOOLEAN
  PROVE  Typed'
  <1>1. PICK p \in [Entries -> {"idle", "begin", "over", "kept"}] :
           /\ entry' = [n \in Entries |-> Stands(p[n])]
           /\ \A n \in Entries : p[n] = "begin" <=> n = Restoring
    BY Restarted
  <1>2. p[Restoring] = "begin" /\ \A n \in SignIns : p[n] # "begin"
    <2>1. Restoring \in Entries /\ \A n \in SignIns : n \in Entries /\ n # Restoring
      BY EntriesAssumption DEF Entries
    <2> QED BY <1>1, <2>1
  <1>3. /\ \A n \in Entries : entry'[n] \in Entry /\ entry'[n].phase = p[n]
        /\ entry' \in [Entries -> Entry]
    <2>1. \A n \in Entries : Stands(p[n]) \in Entry /\ Stands(p[n]).phase = p[n]
      BY CallShape
    <2> HIDE DEF Stands
    <2> QED BY <1>1, <2>1
  <1>4. Roles'
    <2>1. Restoring \in Entries /\ \A n \in SignIns : n \in Entries
      BY DEF Entries
    <2> QED BY <1>2, <1>3, <2>1 DEF Roles
  <1>5. /\ UNCHANGED <<current, issued, expired, lapsed, store, expiries>> /\ flight' = NoFlight
        /\ exchanges' \subseteq exchanges /\ screen' = "unknown"
        /\ leaving' = [k \in Leavers |-> "none"]
    BY DEF Restart
  <1>6. SessionTypeOK'
    <2>1. disturbances' \in 0 .. MaxDisturbances
      BY SessionBounds DEF Restart, Typed, TypeOK, SessionTypeOK
    <2>2. call' \in [Calls -> Call]
      <3>1. At("failed") \in Call /\ call \in [Calls -> Call]
        BY CallShape DEF Typed, TypeOK, SessionTypeOK
      <3>2. call' = [c \in Calls |-> IF call[c].phase \in Ended THEN call[c] ELSE At("failed")]
        BY DEF Restart
      <3> QED BY <3>1, <3>2
    <2>3. SessionTypeOK /\ NoFlight \in Flight
      BY CallShape DEF Typed, TypeOK
    <2> QED BY <1>5, <2>1, <2>2, <2>3 DEF SessionTypeOK
  <1>7. Tokens'
    <2>1. IsFiniteSet(exchanges')
      BY <1>5, FS_Subset DEF Typed, Tokens
    <2>2. \A n \in Entries : entry'[n].phase \notin {"write access", "write refresh"}
      BY <1>1, <1>3
    <2> QED BY <1>5, <2>1, <2>2, CallShape DEF Typed, Tokens
  <1> QED BY <1>3, <1>4, <1>5, <1>6, <1>7 DEF Typed, TypeOK, Screens

\* Every step keeps the types.
LEMMA TypedStep ==
  ASSUME Typed, [Next]_all
  PROVE  Typed'
  <1>1. CASE UNCHANGED all
    BY <1>1 DEF all, state, vars, app, Typed, TypeOK, SessionTypeOK, Tokens, Roles
  <1>2. CASE Next
    <2>0. Step /\ left \in BOOLEAN
      BY <1>2 DEF Next, Typed, TypeOK
    <2>1. crossed' \in BOOLEAN
      BY <1>2 DEF Next, Typed, TypeOK
    <2>2. CASE Restore \/ (\E n \in SignIns : SignIn(n)) \/ (\E n \in Entries : EntryStep(n))
      <3>1. UNCHANGED left
        BY <2>2 DEF Restore, SignIn, EntryStep, LoginAnswered, LoginFails, WriteTokens, Me, Conclude
      <3> QED BY <2>1, <2>2, <3>1, TypedEntries
    <2>3. CASE SignOut \/ (\E c \in Calls : ClearStep(c)) \/ (\E k \in Leavers : Leave(k))
      <3>1. left' \in BOOLEAN
        BY <2>0, <2>3 DEF SignOut, ClearStep, Leave
      <3> QED BY <2>1, <2>3, <3>1, TypedLeavers
    <2>4. CASE Restart
      <3>1. left' \in BOOLEAN
        BY <2>0, <2>4 DEF Restart
      <3> QED BY <2>1, <2>4, <3>1, TypedRestart
    <2>5. ASSUME NEW c \in Calls \ Entries, Probe(c)
          PROVE  Typed'
      <3>1. Send(c) /\ UNCHANGED app /\ UNCHANGED left
        BY <2>5 DEF Probe
      <3>2. SessionTypeOK' /\ Tokens'
        BY <3>1, TypedCalls DEF app
      <3> QED BY <2>0, <2>1, <3>1, <3>2, TypedApp
    <2>6. CASE Background
      <3>1. UNCHANGED app /\ UNCHANGED left
        BY <2>6 DEF Background
      <3>2. CASE ServiceStep \/ LoginElsewhere
        BY <2>0, <2>1, <3>1, <3>2, TypedService, TypedApp
      <3>3. CASE FlightStep \/ LoseConnection
        BY <2>0, <2>1, <3>1, <3>3, TypedFlight, TypedApp
      <3>4. CASE Expire \/ Lapse \/ \E c \in Calls : Answered(c) \/ Unauthorized(c) \/ Repeat(c)
        <4>1. SessionTypeOK' /\ Tokens'
          BY <3>1, <3>4, TypedCalls DEF Repeat, app
        <4> QED BY <2>0, <2>1, <3>1, <4>1, TypedApp
      <3> QED BY <2>6, <3>2, <3>3, <3>4 DEF Background
    <2> QED BY <2>0, <2>2, <2>3, <2>4, <2>5, <2>6 DEF Step
  <1> QED BY <1>1, <1>2

\* Types: whatever the calls, the exchange and the sign-ins do to one another,
\* every token in the store or at the service is one that was issued, and the
\* service tells its exchanges apart.
THEOREM TypeCorrect == Spec => []TypeOK
  <1>1. Typed => TypeOK
    BY DEF Typed
  <1> QED BY <1>1, TypedInit, TypedStep, PTL DEF Spec

-----------------------------------------------------------------------------
(* Signed out stays out: the invariant.                                    *)

Kept == \E n \in Entries : entry[n].phase = "kept"
Busy(n) == entry[n].phase \in {"login", "write access", "write refresh"}
Exchanging == flight.phase \in {"wait", "write access", "write refresh"}
Clearing(c) == call[c].phase \in {"clear access", "clear refresh"}
Empty == store.access = 0 /\ store.refresh = 0

\* Until _restore has looked, nothing else is under way.
Starting ==
  entry[Restoring].phase = "begin" =>
    /\ screen = "unknown"
    /\ flight.phase = "none"
    /\ \A n \in SignIns : entry[n].phase \in {"idle", "over", "kept"}
    /\ \A k \in Leavers : leaving[k] = "none"
    /\ \A c \in Calls : call[c].phase \in Ended

\* Deletions and new tokens have not met, so a deletion finds its first key
\* still gone when it comes to the second; an access token without its refresh
\* token is a sign-in's, and an exchange has the refresh token it began with.
Ordered ==
  /\ ~(Deleting /\ Obtaining)
  /\ \A k \in Leavers : leaving[k] = "refresh" => store.access = 0
  /\ \A c \in Calls : call[c].phase = "clear refresh" => store.access = 0
  /\ HalfPair => Kept \/ \E n \in Entries : entry[n].phase = "write refresh"
  /\ Exchanging => store.refresh # 0

\* A sign-in is alone, from an empty store on; and the login screen has an
\* empty store behind it, or a deletion on the way.
Alone ==
  /\ \A n \in SignIns : Busy(n) => screen \in {"signing in", "in"}
  /\ \A n, m \in SignIns : Busy(n) /\ Busy(m) => n = m
  /\ \A n \in SignIns : entry[n].phase \in {"login", "write access"} => Empty
  /\ screen = "out" => Empty \/ Deleting

OutInv ==
  /\ Starting
  /\ ~crossed => Ordered
  /\ ~crossed /\ ~Kept => Alone

Crossing == crossed' = (crossed \/ (Deleting' /\ Obtaining'))

LEMMA RolesShape ==
  ASSUME Typed
  PROVE  /\ Restoring \in Entries /\ Restoring \notin SignIns
         /\ \A n \in SignIns : n \in Entries
         /\ \A n \in Entries : n \in SignIns \/ n = Restoring
         /\ \A n \in Entries : Busy(n) => n \in SignIns
         /\ \A n \in Entries : n \in Calls /\ entry[n] \in Entry
         /\ \A c \in Calls : c \in Leavers
         /\ "restore" \in Leavers /\ "person" \in Leavers
         /\ \A n \in SignIns : entry[n].phase # "begin"
  BY EntriesAssumption DEF Typed, TypeOK, Roles, Entries, Leavers, Busy

\* A deletion has begun, and no tokens are being obtained; or the other way.
LEMMA ApartShape ==
  ASSUME Typed, ~(Deleting /\ Obtaining)
  PROVE  /\ \A k \in Leavers : leaving[k] # "none" => ~Exchanging /\ \A n \in Entries : ~Busy(n)
         /\ \A c \in Calls : Clearing(c) => ~Exchanging /\ \A n \in Entries : ~Busy(n)
         /\ Deleting => ~Exchanging /\ \A n \in Entries : ~Busy(n)
  BY DEF Deleting, Obtaining, Exchanging, Busy, Clearing

LEMMA OutInit ==
  ASSUME Init
  PROVE  OutInv
  <1>1. Typed
    BY TypedInit
  <1>2. /\ screen = "unknown" /\ flight = NoFlight
        /\ entry[Restoring].phase = "begin" /\ \A n \in SignIns : entry[n].phase = "idle"
        /\ \A k \in Leavers : leaving[k] = "none"
        /\ \A c \in Calls : call[c].phase = "new"
        /\ store.access = store.refresh
    <2>1. store.access = store.refresh
      BY DEF Init, SessionInit, Pair
    <2>2. \A c \in Calls : call[c].phase = "new"
      BY CallShape DEF Init, SessionInit
    <2>3. \A n \in Entries : entry[n].phase = IF n = Restoring THEN "begin" ELSE "idle"
      <3>1. \A n \in Entries : entry[n] = Stands(IF n = Restoring THEN "begin" ELSE "idle")
        BY DEF Init
      <3> QED BY <3>1, CallShape
    <2> QED BY <1>1, <2>1, <2>2, <2>3, RolesShape DEF Init, SessionInit
  <1>3. /\ \A n \in Entries : ~Busy(n) /\ entry[n].phase # "kept"
        /\ flight.phase = "none"
    BY <1>1, <1>2, RolesShape, CallShape DEF Busy
  <1>4. Starting
    BY <1>2, <1>3 DEF Starting, Ended
  <1>5. ~Deleting /\ ~Exchanging
    BY <1>2, <1>3 DEF Deleting, Exchanging
  <1>6. Ordered
    BY <1>2, <1>3, <1>5 DEF Ordered, HalfPair
  <1>7. Alone
    BY <1>1, <1>2, <1>3, RolesShape DEF Alone, Busy
  <1> QED BY <1>4, <1>6, <1>7 DEF OutInv

-----------------------------------------------------------------------------
(* Signed out stays out: the steps.                                        *)

\* A step that neither stores tokens nor starts or ends a deletion's last key.
LEMMA OutQuiet ==
  ASSUME Typed, OutInv, Crossing, UNCHANGED <<store, screen, entry, leaving>>,
         \A c \in Calls : Clearing(c) => call'[c].phase = call[c].phase,
         \A c \in Calls : call'[c].phase = "clear refresh" => call[c].phase = "clear refresh",
         Exchanging' => Exchanging \/ store.refresh # 0,
         entry[Restoring].phase = "begin" =>
           flight'.phase = "none" /\ \A c \in Calls : call'[c].phase \in Ended
  PROVE  OutInv'
  <1>1. Starting'
    BY DEF OutInv, Starting
  <1>2. Deleting => Deleting'
    BY DEF Deleting, Clearing
  <1>3. ~crossed' => ~crossed /\ ~(Deleting /\ Obtaining)'
    BY DEF Crossing
  <1>4. ~crossed' => Ordered'
    BY <1>3 DEF OutInv, Ordered, HalfPair, Kept
  <1>5. ~crossed' /\ ~Kept' => Alone'
    BY <1>2, <1>3 DEF OutInv, Alone, Kept, Busy, Empty
  <1> QED BY <1>1, <1>4, <1>5 DEF OutInv

LEMMA LandedQuietly ==
  ASSUME Typed, NEW ok \in BOOLEAN, call' = Landed(call, ok)
  PROVE  /\ \A c \in Calls : Clearing(c) => call'[c].phase = call[c].phase
         /\ \A c \in Calls : call'[c].phase = "clear refresh" => call[c].phase = "clear refresh"
  <1>1. \A c \in Calls : call'[c] = IF call[c].phase = "join"
                                    THEN At(IF ok THEN "retry" ELSE "clear access") ELSE call[c]
    BY LandedShape
  <1>2. At("retry").phase = "retry" /\ At("clear access").phase = "clear access"
    BY CallShape
  <1> QED BY <1>1, <1>2 DEF Clearing

LEMMA OutFlight ==
  ASSUME Typed, OutInv, Crossing, FlightStep \/ LoseConnection, UNCHANGED app
  PROVE  OutInv'
  <1>0. /\ flight.phase = "none" => FALSE
        /\ entry[Restoring].phase # "begin"
    BY DEF FlightStep, LoseConnection, ReadRefresh, Receive, Write, OutInv, Starting
  <1>1. CASE ReadRefresh
    <2>1. /\ UNCHANGED <<store, screen, entry, leaving>>
          /\ call' = call \/ call' = Landed(call, FALSE)
          /\ flight' = NoFlight \/ store.refresh # 0
      BY <1>1 DEF ReadRefresh, Land, app
    <2>2. Exchanging' => Exchanging \/ store.refresh # 0
      BY <2>1, CallShape DEF Exchanging
    <2>3. /\ \A c \in Calls : Clearing(c) => call'[c].phase = call[c].phase
          /\ \A c \in Calls : call'[c].phase = "clear refresh" => call[c].phase = "clear refresh"
      BY <2>1, LandedQuietly
    <2> QED BY <1>0, <2>1, <2>2, <2>3, OutQuiet
  <1>2. CASE LoseConnection \/ \E x \in exchanges : Receive(x)
    <2>1. /\ UNCHANGED <<store, screen, entry, leaving>>
          /\ call' = call \/ call' = Landed(call, FALSE)
          /\ Exchanging
      BY <1>2 DEF Receive, LoseConnection, Land, app, Exchanging
    <2>2. /\ \A c \in Calls : Clearing(c) => call'[c].phase = call[c].phase
          /\ \A c \in Calls : call'[c].phase = "clear refresh" => call[c].phase = "clear refresh"
      BY <2>1, LandedQuietly
    <2> QED BY <1>0, <2>1, <2>2, OutQuiet
  <1>3. CASE Write
    <2>1. /\ UNCHANGED <<screen, entry, leaving>> /\ Exchanging
          /\ call' = call \/ call' = Landed(call, TRUE)
      BY <1>3 DEF Write, Land, app, Exchanging
    <2>2. /\ \A c \in Calls : Clearing(c) => call'[c].phase = call[c].phase
          /\ \A c \in Calls : call'[c].phase = "clear refresh" => call[c].phase = "clear refresh"
      BY <2>1, LandedQuietly
    <2>3. flight.token # 0 /\ store \in [access: 0 .. issued, refresh: 0 .. issued]
      <3>1. flight.token \in 1 .. issued /\ issued \in Nat
        BY <1>3 DEF Write, Typed, TypeOK, Tokens, SessionTypeOK
      <3> QED BY <3>1 DEF Typed, TypeOK, SessionTypeOK
    <2>4. store.refresh # 0 => store'.refresh # 0
      BY <1>3, <2>3 DEF Write
    <2>5. Starting'
      BY <1>0, <2>1 DEF Starting
    <2>6. ~crossed' => ~crossed /\ ~(Deleting /\ Obtaining)'
      BY DEF Crossing
    <2>7. ~crossed => ~Deleting /\ store.refresh # 0
      BY <2>1, ApartShape DEF OutInv, Ordered
    <2>8. ~crossed => (\A k \in Leavers : leaving[k] = "none") /\ \A c \in Calls : ~Clearing(c)
      BY <2>7 DEF Deleting, Clearing
    <2>9. ~crossed' => Ordered'
      BY <2>1, <2>2, <2>4, <2>6, <2>7, <2>8 DEF Ordered, HalfPair, Clearing
    <2>10. ~crossed' /\ ~Kept' => Alone'
      <3>1. ~crossed' /\ ~Kept' => Alone /\ ~Empty /\ ~Deleting
        BY <2>1, <2>6, <2>7 DEF OutInv, Kept, Empty
      <3> QED BY <2>1, <3>1 DEF Alone, Busy
    <2> QED BY <2>5, <2>9, <2>10 DEF OutInv
  <1> QED BY <1>1, <1>2, <1>3 DEF FlightStep

LEMMA OutCalls ==
  ASSUME Typed, OutInv, Crossing,
         \/ (ServiceStep \/ LoginElsewhere \/ Expire \/ Lapse) /\ UNCHANGED app
         \/ (\E c \in Calls : Answered(c) \/ Unauthorized(c) \/ Repeat(c)) /\ UNCHANGED app
         \/ \E c \in Calls \ Entries : Probe(c)
  PROVE  OutInv'
  <1>0. UNCHANGED <<store, screen, entry, leaving>>
    BY DEF app, ServiceStep, Verify, Issue, LoginElsewhere, Expire, Lapse, Answered,
           Unauthorized, Repeat, Send, Probe
  <1>1. CASE ServiceStep \/ LoginElsewhere \/ Expire \/ Lapse
    <2>1. UNCHANGED <<flight, call>>
      BY <1>1 DEF ServiceStep, Verify, Issue, LoginElsewhere, Expire, Lapse
    <2> QED BY <1>0, <2>1, OutQuiet DEF Exchanging, OutInv, Starting
  <1>2. ASSUME NEW c \in Calls, Answered(c) \/ Unauthorized(c) \/ Repeat(c) \/ Probe(c)
        PROVE  OutInv'
    <2>1. /\ call[c].phase \in {"sent", "retry", "new"}
          /\ entry[Restoring].phase # "begin"
      BY <1>2 DEF Answered, Unauthorized, Repeat, Probe, OutInv, Starting, Ended
    <2>2. PICK q : /\ call' = [call EXCEPT ![c] = q]
                   /\ q.phase \in {"ok", "failed", "join", "sent"}
      <3>1. /\ At("ok").phase = "ok" /\ At("failed").phase = "failed" /\ At("join").phase = "join"
        BY CallShape
      <3> DEFINE q == [phase |-> "sent", token |-> store.access, retried |-> call[c].phase = "retry"]
      <3>2. Send(c) => call' = [call EXCEPT ![c] = q] /\ q.phase = "sent"
        BY DEF Send
      <3> HIDE DEF q
      <3> QED BY <1>2, <3>1, <3>2 DEF Answered, Unauthorized, Repeat, Probe
    <2>3. \A d \in Calls : call'[d] = IF d = c THEN q ELSE call[d]
      BY <2>2 DEF Typed, TypeOK, SessionTypeOK
    <2>4. Exchanging' => Exchanging
      BY <1>2 DEF Answered, Unauthorized, Repeat, Send, Probe, Exchanging, NoFlight
    <2> QED BY <1>0, <2>1, <2>2, <2>3, <2>4, OutQuiet DEF Clearing
  <1> QED BY <1>1, <1>2

LEMMA OutRestart ==
  ASSUME Typed, OutInv, Crossing, Restart
  PROVE  OutInv'
  <1>1. PICK p \in [Entries -> {"idle", "begin", "over", "kept"}] :
           /\ entry' = [n \in Entries |-> Stands(p[n])]
           /\ \A n \in Entries :
                /\ p[n] = "begin" <=> n = Restoring
                /\ n # Restoring => (p[n] = "idle" <=> entry[n].phase = "idle")
                /\ n # Restoring /\ entry[n].phase \in Storing /\ HalfPair => p[n] = "kept"
                /\ p[n] = "kept" => entry[n].phase \in Storing /\ HalfPair
    BY Restarted
  <1>2. \A n \in Entries : entry'[n].phase = p[n]
    BY <1>1, CallShape
  <1>3. /\ screen' = "unknown" /\ flight'.phase = "none" /\ UNCHANGED store
        /\ \A k \in Leavers : leaving'[k] = "none"
        /\ \A c \in Calls : call'[c].phase \in Ended
    <2>1. At("failed").phase \in Ended
      BY CallShape DEF Ended
    <2>2. \A c \in Calls : call'[c] = IF call[c].phase \in Ended THEN call[c] ELSE At("failed")
      BY DEF Restart
    <2> QED BY <2>1, <2>2, CallShape DEF Restart
  <1>4. \A n \in SignIns : n \in Entries /\ n # Restoring
    BY RolesShape
  <1>5. Starting'
    BY <1>1, <1>2, <1>3, <1>4 DEF Starting
  <1>6. \A n \in Entries : ~Busy(n)'
    BY <1>1, <1>2 DEF Busy
  <1>7. ~Deleting' /\ ~Exchanging'
    BY <1>3 DEF Deleting, Exchanging, Ended
  <1>8. ~crossed' => Ordered'
    <2>1. ~crossed' => ~crossed
      BY DEF Crossing
    <2>2. HalfPair' /\ ~crossed' => \E n \in Entries : entry[n].phase \in Storing /\ HalfPair
      BY <1>3, <2>1 DEF OutInv, Ordered, HalfPair, Kept, Storing
    <2>3. \A n \in Entries : entry[n].phase \in Storing => n # Restoring
      BY DEF Typed, Roles, Storing
    <2>4. HalfPair' /\ ~crossed' => Kept'
      BY <1>1, <1>2, <2>2, <2>3 DEF Kept
    <2> QED BY <1>3, <1>7, <2>4 DEF Ordered, Ended
  <1>9. Alone'
    BY <1>3, <1>4, <1>6 DEF Alone, Busy
  <1> QED BY <1>5, <1>8, <1>9 DEF OutInv

LEMMA OutLeavers ==
  ASSUME Typed, OutInv, Crossing,
         SignOut \/ (\E c \in Calls : ClearStep(c)) \/ (\E k \in Leavers : Leave(k))
  PROVE  OutInv'
  <1>0. /\ UNCHANGED <<entry, flight>>
        /\ leaving \in [Leavers -> {"none", "access", "refresh"}]
        /\ call \in [Calls -> Call] /\ store \in [access: 0 .. issued, refresh: 0 .. issued]
    BY DEF SignOut, ClearStep, Clear, Leave, vars, Typed, TypeOK, SessionTypeOK
  <1>1. entry[Restoring].phase # "begin"
    BY DEF SignOut, ClearStep, Clear, Leave, OutInv, Starting, Ended
  <1>2. Starting'
    BY <1>0, <1>1 DEF Starting
  <1>3. ~crossed' => ~crossed /\ ~(Deleting /\ Obtaining)'
    BY DEF Crossing
  <1>4. CASE SignOut
    <2>1. /\ UNCHANGED <<store, call, screen>> /\ screen = "in"
          /\ \A k \in Leavers : leaving'[k] = IF k = "person" THEN "access" ELSE leaving[k]
      BY <1>0, <1>4 DEF SignOut, vars
    <2>2. ~crossed' => Ordered'
      BY <1>0, <1>3, <2>1 DEF OutInv, Ordered, HalfPair, Kept, Exchanging
    <2>3. ~crossed' /\ ~Kept' => Alone'
      BY <1>0, <1>3, <2>1 DEF OutInv, Alone, Busy, Kept, Empty
    <2> QED BY <1>2, <2>2, <2>3 DEF OutInv
  <1>5. ASSUME NEW c \in Calls, ClearStep(c)
        PROVE  OutInv'
    <2>1. /\ Clearing(c) /\ UNCHANGED screen
          /\ \/ /\ call[c].phase = "clear access" /\ UNCHANGED leaving
                /\ store'.access = 0 /\ store'.refresh = store.refresh
                /\ \A d \in Calls : call'[d].phase = IF d = c THEN "clear refresh" ELSE call[d].phase
             \/ /\ call[c].phase = "clear refresh"
                /\ store'.refresh = 0 /\ store'.access = store.access
                /\ \A d \in Calls : call'[d].phase = IF d = c THEN "expired" ELSE call[d].phase
                /\ \A k \in Leavers : leaving'[k] = IF k = c THEN "access" ELSE leaving[k]
      <3>0. ASSUME NEW p, call' = [call EXCEPT ![c].phase = p]
            PROVE  \A d \in Calls : call'[d].phase = IF d = c THEN p ELSE call[d].phase
        <4>1. [call[c] EXCEPT !.phase = p].phase = p
          BY <1>0 DEF Call
        <4> QED BY <1>0, <3>0, <4>1
      <3>1. CASE call[c].phase = "clear access"
        <4>1. /\ store' = [store EXCEPT !.access = 0] /\ call' = [call EXCEPT ![c].phase = "clear refresh"]
              /\ UNCHANGED <<leaving, screen>>
          BY <1>5, <3>1 DEF ClearStep, Clear
        <4>2. store'.access = 0 /\ store'.refresh = store.refresh
          BY <1>0, <4>1
        <4> QED BY <3>0, <3>1, <4>1, <4>2 DEF Clearing
      <3>2. CASE call[c].phase = "clear refresh"
        <4>1. /\ store' = [store EXCEPT !.refresh = 0] /\ call' = [call EXCEPT ![c].phase = "expired"]
              /\ leaving' = [leaving EXCEPT ![c] = "access"] /\ UNCHANGED screen
          BY <1>5, <3>2 DEF ClearStep, Clear
        <4>2. store'.refresh = 0 /\ store'.access = store.access
          BY <1>0, <4>1
        <4>3. \A k \in Leavers : leaving'[k] = IF k = c THEN "access" ELSE leaving[k]
          BY <1>0, <4>1
        <4> QED BY <3>0, <3>2, <4>1, <4>2, <4>3 DEF Clearing
      <3> QED BY <1>5, <3>1, <3>2 DEF ClearStep, Clear
    <2>2. ~crossed => ~Exchanging /\ \A n \in Entries : ~Busy(n)
      BY <2>1, ApartShape DEF OutInv, Ordered
    <2>3. Deleting'
      BY <2>1, RolesShape DEF Deleting
    <2>4. ~crossed' => Ordered'
      BY <1>0, <1>3, <2>1, <2>2 DEF OutInv, Ordered, HalfPair, Kept, Exchanging
    <2>5. ~crossed' /\ ~Kept' => Alone'
      BY <1>0, <1>3, <2>2, <2>3, RolesShape DEF Alone, Busy
    <2> QED BY <1>2, <2>4, <2>5 DEF OutInv
  <1>6. ASSUME NEW k \in Leavers, Leave(k)
        PROVE  OutInv'
    <2>1. /\ UNCHANGED call
          /\ \/ /\ leaving[k] = "access" /\ UNCHANGED screen
                /\ store'.access = 0 /\ store'.refresh = store.refresh
                /\ \A l \in Leavers : leaving'[l] = IF l = k THEN "refresh" ELSE leaving[l]
             \/ /\ leaving[k] = "refresh"
                /\ store'.refresh = 0 /\ store'.access = store.access
                /\ \A l \in Leavers : leaving'[l] = IF l = k THEN "none" ELSE leaving[l]
      <3>1. CASE leaving[k] = "access"
        BY <1>0, <1>6, <3>1 DEF Leave, Cleared
      <3>2. CASE leaving[k] = "refresh"
        BY <1>0, <1>6, <3>2 DEF Leave, Cleared
      <3> QED BY <1>0, <1>6, <3>1, <3>2 DEF Leave
    <2>2. ~crossed => ~Exchanging /\ \A n \in Entries : ~Busy(n)
      BY <2>1, ApartShape DEF OutInv, Ordered
    <2>3. ~crossed' => Ordered'
      BY <1>0, <1>3, <2>1, <2>2 DEF OutInv, Ordered, HalfPair, Kept, Exchanging
    <2>4. ~crossed => Deleting' \/ Empty'
      BY <2>1 DEF Deleting, OutInv, Ordered, Empty
    <2>5. ~crossed' /\ ~Kept' => Alone'
      BY <1>0, <1>3, <2>2, <2>4, RolesShape DEF Alone, Busy
    <2> QED BY <1>2, <2>3, <2>5 DEF OutInv
  <1> QED BY <1>4, <1>5, <1>6

LEMMA OutEntries ==
  ASSUME Typed, OutInv, Crossing,
         \/ Restore \/ (\E n \in SignIns : SignIn(n)) \/ (\E n \in Entries : EntryStep(n))
  PROVE  OutInv'
  <1>0. /\ entry \in [Entries -> Entry] /\ call \in [Calls -> Call] /\ UNCHANGED flight
        /\ leaving \in [Leavers -> {"none", "access", "refresh"}]
        /\ store \in [access: 0 .. issued, refresh: 0 .. issued]
    BY DEF Restore, SignIn, EntryStep, LoginAnswered, LoginFails, WriteTokens, Me, Conclude, Send,
           vars, Typed, TypeOK, SessionTypeOK
  <1>3. ~crossed' => ~crossed /\ ~(Deleting /\ Obtaining)'
    BY DEF Crossing
  <1>2. CASE Restore
    <2>1. /\ UNCHANGED <<store, call, leaving>> /\ entry[Restoring].phase = "begin"
          /\ screen = "unknown" /\ \A n \in SignIns : ~Busy(n)
      BY <1>2 DEF Restore, vars, OutInv, Starting, Busy
    <2>2. /\ \A n \in Entries : n # Restoring => entry'[n] = entry[n]
          /\ entry'[Restoring].phase \in {"over", "me"}
          /\ (screen' = "out" /\ store.refresh = 0) \/ screen' = screen
      <3>1. [entry[Restoring] EXCEPT !.phase = "me"].phase = "me" /\ Stands("over").phase = "over"
        BY <1>0, RolesShape DEF Stands, Entry
      <3>2. \/ entry' = [entry EXCEPT ![Restoring] = Stands("over")]
            \/ entry' = [entry EXCEPT ![Restoring] = [entry[Restoring] EXCEPT !.phase = "me"]]
        BY <1>2 DEF Restore
      <3>3. (screen' = "out" /\ store.refresh = 0) \/ screen' = screen
        BY <1>2 DEF Restore
      <3> HIDE DEF Stands
      <3> QED BY <1>0, <3>1, <3>2, <3>3, RolesShape
    <2>3. \A n \in Entries : /\ ~Busy(n) /\ ~Busy(n)'
                             /\ entry'[n].phase = "kept" <=> entry[n].phase = "kept"
      BY <2>1, <2>2, RolesShape DEF Busy
    <2>4. Starting'
      BY <2>2 DEF Starting
    <2>5. ~crossed' => Ordered'
      BY <1>0, <1>3, <2>1, <2>3 DEF OutInv, Ordered, HalfPair, Kept, Exchanging, Busy
    <2>6. ~crossed' /\ ~Kept' => Alone'
      <3>1. ~crossed' /\ ~Kept' /\ screen' = "out" => Empty'
        BY <1>3, <2>1, <2>2, <2>3 DEF OutInv, Ordered, HalfPair, Kept, Busy, Empty
      <3> QED BY <2>3, <3>1, RolesShape DEF Alone, Busy
    <2> QED BY <2>4, <2>5, <2>6 DEF OutInv
  <1>4. ASSUME NEW n \in SignIns, SignIn(n)
        PROVE  OutInv'
    <2>1. /\ UNCHANGED <<store, call, leaving>> /\ screen = "out" /\ screen' = "signing in"
          /\ entry[n].phase = "idle"
      BY <1>4 DEF SignIn, vars
    <2>2. \A m \in Entries : entry'[m].phase = IF m = n THEN "login" ELSE entry[m].phase
      <3>1. /\ [entry[n] EXCEPT !.phase = "login"].phase = "login"
            /\ entry' = [entry EXCEPT ![n] = [entry[n] EXCEPT !.phase = "login"]]
        BY <1>0, <1>4, RolesShape DEF SignIn, Entry
      <3> QED BY <1>0, <3>1
    <2>3. Starting'
      BY <2>1, <2>2, RolesShape DEF OutInv, Starting
    <2>4. ~Deleting' \/ crossed'
      BY <1>3, <2>2, RolesShape DEF Obtaining
    <2>5. ~crossed' => Ordered' /\ ~Deleting
      BY <1>0, <1>3, <2>1, <2>2, <2>4 DEF OutInv, Ordered, HalfPair, Kept, Exchanging, Deleting
    <2>6. ~crossed' /\ ~Kept' => Alone'
      <3>1. Kept => Kept'
        BY <2>1, <2>2, RolesShape DEF Kept
      <3>2. ~crossed' /\ ~Kept' => Empty /\ \A m \in SignIns : ~Busy(m)
        BY <1>3, <2>1, <2>5, <3>1 DEF OutInv, Alone
      <3> QED BY <2>1, <2>2, <3>2, RolesShape DEF Alone, Busy, Empty
    <2> QED BY <2>3, <2>5, <2>6 DEF OutInv
  <1>5. ASSUME NEW n \in Entries, LoginAnswered(n)
        PROVE  OutInv'
    <2>1. UNCHANGED <<store, call, leaving, screen>> /\ entry[n].phase = "login"
      BY <1>5 DEF LoginAnswered
    <2>2. \A m \in Entries : entry'[m].phase = IF m = n THEN "write access" ELSE entry[m].phase
      <3>1. PICK t \in Signed : entry' = [entry EXCEPT ![n].phase = "write access", ![n].token = t]
        BY <1>5 DEF LoginAnswered
      <3>2. /\ [entry[n] EXCEPT !.phase = "write access", !.token = t].phase = "write access"
            /\ entry' = [entry EXCEPT ![n] = [entry[n] EXCEPT !.phase = "write access", !.token = t]]
        BY <1>0, <3>1 DEF Entry
      <3> QED BY <1>0, <3>2
    <2>3. Starting'
      BY <2>1, <2>2, RolesShape DEF OutInv, Starting
    <2>4. ~crossed' => Ordered'
      BY <1>0, <1>3, <2>1, <2>2 DEF OutInv, Ordered, HalfPair, Kept, Exchanging
    <2>5. ~crossed' /\ ~Kept' => Alone'
      <3>1. (Kept => Kept') /\ (Deleting => Deleting')
        BY <2>1, <2>2 DEF Kept, Deleting
      <3> QED BY <1>3, <2>1, <2>2, <3>1, RolesShape DEF OutInv, Alone, Busy, Empty
    <2> QED BY <2>3, <2>4, <2>5 DEF OutInv
  <1>6. ASSUME NEW n \in Entries, LoginFails(n)
        PROVE  OutInv'
    <2>1. UNCHANGED <<store, call, leaving>> /\ screen' = "out" /\ entry[n].phase = "login"
      BY <1>6 DEF LoginFails, vars
    <2>2. \A m \in Entries : entry'[m].phase = IF m = n THEN "over" ELSE entry[m].phase
      <3>1. Stands("over").phase = "over" /\ entry' = [entry EXCEPT ![n] = Stands("over")]
        BY <1>6, CallShape DEF LoginFails
      <3> HIDE DEF Stands
      <3> QED BY <1>0, <3>1
    <2>3. Starting'
      BY <2>1, <2>2, RolesShape DEF OutInv, Starting
    <2>4. ~crossed' => Ordered'
      BY <1>0, <1>3, <2>1, <2>2 DEF OutInv, Ordered, HalfPair, Kept, Exchanging
    <2>5. ~crossed' /\ ~Kept' => Alone'
      <3>1. Kept => Kept'
        BY <2>1, <2>2 DEF Kept
      <3>2. ~crossed' /\ ~Kept' => Empty /\ \A m \in SignIns : Busy(m) => m = n
        BY <1>3, <2>1, <3>1, RolesShape DEF OutInv, Alone, Busy
      <3> QED BY <2>1, <2>2, <3>2, RolesShape DEF Alone, Busy, Empty
    <2> QED BY <2>3, <2>4, <2>5 DEF OutInv
  <1>7. ASSUME NEW n \in Entries, WriteTokens(n)
        PROVE  OutInv'
    <2>0. entry[n].token # 0 /\ Busy(n) /\ n \in SignIns
      <3>1. entry[n].token \in 1 .. issued /\ issued \in Nat
        BY <1>7 DEF WriteTokens, Typed, TypeOK, Tokens, SessionTypeOK
      <3>2. Busy(n)
        BY <1>7 DEF WriteTokens, Busy
      <3> QED BY <3>1, <3>2, RolesShape
    <2>1. /\ UNCHANGED <<call, leaving, screen>>
          /\ \/ /\ entry[n].phase = "write access"
                /\ store'.access = entry[n].token /\ store'.refresh = store.refresh
                /\ \A m \in Entries : entry'[m].phase = IF m = n THEN "write refresh" ELSE entry[m].phase
             \/ /\ entry[n].phase = "write refresh"
                /\ store'.refresh = entry[n].token /\ store'.access = store.access
                /\ \A m \in Entries : entry'[m].phase = IF m = n THEN "me" ELSE entry[m].phase
      <3>1. CASE entry[n].phase = "write access"
        <4>1. /\ store' = [store EXCEPT !.access = entry[n].token]
              /\ entry' = [entry EXCEPT ![n] = [entry[n] EXCEPT !.phase = "write refresh"]]
          BY <1>7, <3>1 DEF WriteTokens
        <4>2. [entry[n] EXCEPT !.phase = "write refresh"].phase = "write refresh"
          BY <1>0 DEF Entry
        <4>3. \A m \in Entries : entry'[m].phase = IF m = n THEN "write refresh" ELSE entry[m].phase
          BY <1>0, <4>1, <4>2
        <4>4. store'.access = entry[n].token /\ store'.refresh = store.refresh
          BY <1>0, <4>1
        <4> QED BY <1>7, <3>1, <4>3, <4>4 DEF WriteTokens
      <3>2. CASE entry[n].phase = "write refresh"
        <4>1. /\ store' = [store EXCEPT !.refresh = entry[n].token]
              /\ entry' = [entry EXCEPT ![n] = Stands("me")]
          BY <1>7, <3>2 DEF WriteTokens
        <4>2. Stands("me").phase = "me"
          BY CallShape
        <4> HIDE DEF Stands
        <4>3. \A m \in Entries : entry'[m].phase = IF m = n THEN "me" ELSE entry[m].phase
          BY <1>0, <4>1, <4>2
        <4>4. store'.refresh = entry[n].token /\ store'.access = store.access
          BY <1>0, <4>1
        <4> QED BY <1>7, <3>2, <4>3, <4>4 DEF WriteTokens
      <3> QED BY <1>7, <3>1, <3>2 DEF WriteTokens
    <2>2. Starting'
      BY <2>0, <2>1, RolesShape DEF OutInv, Starting, Busy
    <2>3. ~crossed => ~Deleting
      BY <2>0, ApartShape DEF OutInv, Ordered
    <2>4. ~crossed => /\ \A k \in Leavers : leaving[k] = "none"
                      /\ \A c \in Calls : call[c].phase # "clear refresh"
      BY <2>3 DEF Deleting
    <2>5. ~crossed' => Ordered'
      BY <1>0, <1>3, <2>0, <2>1, <2>4 DEF OutInv, Ordered, HalfPair, Kept, Exchanging
    <2>6. ~crossed' /\ ~Kept' => Alone'
      <3>1. Kept => Kept'
        BY <2>1 DEF Kept
      <3>2. ~crossed' /\ ~Kept' => Alone /\ \A m \in SignIns : Busy(m) => m = n
        BY <1>3, <2>0, <3>1 DEF OutInv, Alone
      <3> QED BY <2>0, <2>1, <3>2, RolesShape DEF Alone, Busy
    <2> QED BY <2>2, <2>5, <2>6 DEF OutInv
  <1>8. ASSUME NEW n \in Entries, Me(n)
        PROVE  OutInv'
    <2>1. /\ UNCHANGED <<store, leaving, screen>> /\ entry[n].phase = "me"
          /\ call[n].phase \in Ended
      BY <1>8 DEF Me, Send, Free
    <2>2. \A m \in Entries : entry'[m].phase = IF m = n THEN "asked" ELSE entry[m].phase
      <3>1. /\ [entry[n] EXCEPT !.phase = "asked"].phase = "asked"
            /\ entry' = [entry EXCEPT ![n] = [entry[n] EXCEPT !.phase = "asked"]]
        BY <1>0, <1>8 DEF Me, Entry
      <3> QED BY <1>0, <3>1
    <2>3. \A c \in Calls : call'[c].phase = IF c = n THEN "sent" ELSE call[c].phase
      <3> DEFINE q == [phase |-> "sent", token |-> store.access, retried |-> call[n].phase = "retry"]
      <3>1. call' = [call EXCEPT ![n] = q] /\ q.phase = "sent"
        BY <1>8 DEF Me, Send
      <3> HIDE DEF q
      <3> QED BY <1>0, <3>1
    <2>4. Starting'
      BY <2>1, <2>2, <2>3, RolesShape DEF OutInv, Starting
    <2>5. ~crossed' => Ordered'
      BY <1>0, <1>3, <2>1, <2>2, <2>3 DEF OutInv, Ordered, HalfPair, Kept, Exchanging
    <2>6. ~crossed' /\ ~Kept' => Alone'
      <3>1. (Kept => Kept') /\ (Deleting => Deleting')
        BY <2>1, <2>2, <2>3 DEF Kept, Deleting, Ended
      <3> QED BY <1>3, <2>1, <2>2, <3>1, RolesShape DEF OutInv, Alone, Busy, Empty
    <2> QED BY <2>4, <2>5, <2>6 DEF OutInv
  <1>9. ASSUME NEW n \in Entries, Conclude(n)
        PROVE  OutInv'
    <2>1. UNCHANGED <<store, call>> /\ entry[n].phase = "asked" /\ call[n].phase \in Ended
      BY <1>9 DEF Conclude, vars
    <2>2. /\ \A m \in Entries : m # n => entry'[m] = entry[m]
          /\ entry'[n].phase \in {"kept", "over"}
      <3>1. Stands("over").phase = "over" /\ Stands("kept").phase = "kept"
        BY CallShape
      <3>2. entry' = [entry EXCEPT ![n] = Stands("over")] \/ entry' = [entry EXCEPT ![n] = Stands("kept")]
        BY <1>9 DEF Conclude
      <3> HIDE DEF Stands
      <3> QED BY <1>0, <3>1, <3>2
    <2>3. \/ screen' = "in" /\ UNCHANGED leaving
          \/ /\ UNCHANGED screen
             /\ \A k \in Leavers : leaving'[k] = IF k = "restore" THEN "access" ELSE leaving[k]
          \/ Kept' /\ UNCHANGED leaving
      <3>1. CASE call[n].phase = "ok"
        BY <1>9, <3>1 DEF Conclude
      <3>2. CASE call[n].phase # "ok" /\ n = Restoring
        BY <1>0, <1>9, <3>2 DEF Conclude, Rejected
      <3>3. CASE call[n].phase # "ok" /\ n # Restoring
        <4>1. entry' = [entry EXCEPT ![n] = Stands("kept")] /\ UNCHANGED leaving
          BY <1>9, <3>3, RolesShape DEF Conclude, Rejected
        <4>2. Stands("kept").phase = "kept"
          BY CallShape
        <4> HIDE DEF Stands
        <4>3. Kept'
          BY <1>0, <4>1, <4>2 DEF Kept
        <4> QED BY <4>1, <4>3
      <3> QED BY <3>1, <3>2, <3>3
    <2>4. Starting'
      BY <2>1, <2>2, RolesShape DEF OutInv, Starting
    <2>5. /\ \A m \in Entries : Busy(m)' => Busy(m) /\ entry'[m] = entry[m]
          /\ \A m \in Entries : Busy(m) => entry'[m] = entry[m]
          /\ Kept => Kept'
      BY <2>1, <2>2 DEF Busy, Kept
    <2>6. ~crossed' => Ordered'
      <3>1. \A k \in Leavers : leaving'[k] = "refresh" => leaving[k] = "refresh"
        BY <1>0, <2>3
      <3>2. (\E m \in Entries : entry[m].phase = "write refresh") => \E m \in Entries : entry'[m].phase = "write refresh"
        BY <2>5 DEF Busy
      <3> QED BY <1>0, <1>3, <2>1, <2>5, <3>1, <3>2 DEF OutInv, Ordered, HalfPair, Exchanging
    <2>7. ~crossed' /\ ~Kept' => Alone'
      <3>1. ~Kept' => /\ screen' = screen \/ screen' = "in"
                      /\ Deleting => Deleting'
        BY <2>1, <2>3 DEF Deleting
      <3> QED BY <1>3, <2>1, <2>5, <3>1, RolesShape DEF OutInv, Alone, Busy, Empty
    <2> QED BY <2>4, <2>6, <2>7 DEF OutInv
  <1> QED BY <1>2, <1>4, <1>5, <1>6, <1>7, <1>8, <1>9 DEF EntryStep

LEMMA OutStep ==
  ASSUME Typed, OutInv, [Next]_all
  PROVE  OutInv'
  <1>1. CASE UNCHANGED all
    BY <1>1 DEF all, state, vars, app, OutInv, Starting, Ordered, Alone, HalfPair, Kept, Busy,
                Exchanging, Empty, Deleting, Obtaining
  <1>2. CASE Next
    <2>1. Step /\ Crossing
      BY <1>2 DEF Next, Crossing
    <2>2. CASE Background
      BY <2>1, <2>2, OutFlight, OutCalls DEF Background
    <2> QED BY <2>1, <2>2, OutCalls, OutEntries, OutLeavers, OutRestart DEF Step
  <1> QED BY <1>1, <1>2

\* Once every sign-out and sign-in is through, the login screen has an empty
\* store behind it, unless a deletion crossed an exchange or a sign-in, or a
\* sign-in was left with its tokens stored: however many calls, sign-outs and
\* restarts came in between (TokenStorage.clear, AuthController).
THEOREM SignedOutStaysOutHolds == Spec => []SignedOutStaysOut
  <1>1. Typed /\ OutInv => SignedOutStaysOut
    <2>1. Typed => \A v : store = Pair(v) <=> store.access = v /\ store.refresh = v
      BY DEF Typed, TypeOK, SessionTypeOK, Pair
    <2> QED BY <2>1 DEF OutInv, Alone, Kept, Empty, SignedOutStaysOut
  <1> QED BY <1>1, TypedInit, TypedStep, OutInit, OutStep, PTL DEF Spec

-----------------------------------------------------------------------------
(* The session survives: the invariant.                                    *)

Undisturbed == disturbances = 0 /\ ~left

\* No call fails, none is to clear the store, and nobody puts the app out; a
\* call that is repeated has, or will read, a token that has not run out.
Calm ==
  /\ \A k \in Leavers : leaving[k] = "none"
  /\ \A c \in Calls : call[c].phase \in {"new", "sent", "join", "retry", "ok"}
  /\ \A n \in Entries : entry[n].phase # "kept"
  /\ \A n \in Entries : entry[n].phase = "asked" => call[n].phase # "new"
  /\ store.access <= current
  /\ \A c \in Calls : call[c].phase = "retry" => store.access > expired
  /\ \A c \in Calls : call[c].phase = "sent" /\ call[c].retried => call[c].token > expired

\* Without a refresh token no call has been made, and the one sign-in that may
\* be under way holds the token the service would take.
Outside ==
  /\ flight.phase = "none" /\ exchanges = {}
  /\ \A c \in Calls : call[c].phase = "new"
  /\ screen # "in"
  /\ \A n \in Entries : entry[n].phase \notin {"me", "asked"}
  /\ \A n \in Entries : Busy(n) => screen = "signing in"
  /\ \A n, m \in Entries : Busy(n) /\ Busy(m) => n = m
  /\ \A n \in Entries :
       entry[n].phase \in {"write access", "write refresh"} => entry[n].token = current
  /\ \A n \in Entries : entry[n].phase = "write refresh" => store.access = current
  /\ (\A n \in Entries : entry[n].phase # "write refresh") => store.access = 0

\* With one, the token the service would take is in the store, in the one
\* exchange, or on its way from there into the store.
Inside ==
  /\ \A n \in Entries : ~Busy(n)
  /\ screen # "out"
  /\ screen = "signing in" => \E n \in SignIns : entry[n].phase \in {"me", "asked"}
  /\ flight.phase \in {"none", "read"} =>
       store.access = current /\ store.refresh = current /\ exchanges = {}
  /\ flight.phase = "wait" =>
       \E x \in exchanges :
         /\ exchanges = {x} /\ x.id = flight.id /\ x.token = current
         /\ x.phase \in {"verify", "save"} => store.access = current /\ store.refresh = current
         /\ x.phase = "issued" => current > expired
         /\ x.phase # "refused"
  /\ flight.phase \in {"write access", "write refresh"} =>
       /\ exchanges = {} /\ flight.token = current /\ current > expired
       /\ flight.phase = "write refresh" => store.access = current

Surviving == Calm /\ (store.refresh = 0 => Outside) /\ (store.refresh # 0 => Inside)

SurvInv == Undisturbed => Surviving /\ lapsed = 0

LEMMA Numbers ==
  ASSUME Typed
  PROVE  /\ current \in Nat /\ current > 0 /\ expired \in Nat
         /\ store.access \in Nat /\ store.refresh \in Nat
         /\ disturbances \in Nat
  <1>1. /\ issued \in Nat /\ current \in 1 .. issued /\ expired \in 0 .. issued
        /\ store \in [access: 0 .. issued, refresh: 0 .. issued]
        /\ disturbances \in 0 .. MaxDisturbances
    BY DEF Typed, TypeOK, SessionTypeOK
  <1>2. store.access \in 0 .. issued /\ store.refresh \in 0 .. issued
    BY <1>1
  <1> QED BY <1>1, <1>2, SessionBounds

LEMMA Shapes ==
  ASSUME Typed
  PROVE  /\ store \in [access: 0 .. issued, refresh: 0 .. issued]
         /\ call \in [Calls -> Call] /\ entry \in [Entries -> Entry]
         /\ leaving \in [Leavers -> {"none", "access", "refresh"}]
         /\ flight.phase \in {"none", "read", "wait", "write access", "write refresh"}
         /\ exchanges \subseteq Exchange
  BY DEF Typed, TypeOK, SessionTypeOK, Flight

LEMMA SurvInit ==
  ASSUME Init
  PROVE  SurvInv
  <1>1. Typed
    BY TypedInit
  <1>2. \A c \in Calls : call[c].phase = "new" /\ call[c].retried = FALSE
    BY CallShape DEF Init, SessionInit
  <1>3. \A n \in Entries : entry[n].phase \in {"begin", "idle"}
    <2>1. \A n \in Entries : entry[n] = Stands(IF n = Restoring THEN "begin" ELSE "idle")
      BY DEF Init
    <2> QED BY <2>1, CallShape
  <1>4. /\ screen = "unknown" /\ flight.phase = "none" /\ exchanges = {}
        /\ current = 1 /\ expired = 0 /\ lapsed = 0
        /\ \A k \in Leavers : leaving[k] = "none"
    BY CallShape DEF Init, SessionInit
  <1>5. \/ store.access = 0 /\ store.refresh = 0
        \/ store.access = 1 /\ store.refresh = 1
    BY DEF Init, SessionInit, Pair
  <1>6. Calm
    BY <1>2, <1>3, <1>4, <1>5 DEF Calm
  <1>7. store.refresh = 0 => Outside
    BY <1>2, <1>3, <1>4, <1>5 DEF Outside, Busy
  <1>8. store.refresh # 0 => Inside
    BY <1>3, <1>4, <1>5 DEF Inside, Busy
  <1> QED BY <1>4, <1>6, <1>7, <1>8 DEF SurvInv, Surviving

-----------------------------------------------------------------------------
(* The session survives: the steps.                                        *)

\* Nothing disturbs what was not disturbed before.
LEMMA UndisturbedBefore ==
  ASSUME Typed, SurvInv, Step, Undisturbed'
  PROVE  /\ Undisturbed /\ Surviving /\ lapsed = 0
         /\ disturbances' = disturbances /\ lapsed' = lapsed
         /\ ~SignOut /\ ~Restart /\ ~LoginElsewhere /\ ~LoseConnection /\ ~Lapse
  <1>1. disturbances \in Nat /\ disturbances + 1 # 0
    BY Numbers
  <1>2. ~SignOut /\ ~Restart /\ ~LoginElsewhere /\ ~LoseConnection /\ ~Lapse
    BY <1>1 DEF Undisturbed, SignOut, Restart, LoginElsewhere, LoseConnection, Lapse
  <1>3. left' = left
    BY <1>2 DEF Step, Undisturbed, Restore, Background, SignIn, EntryStep, LoginAnswered,
                LoginFails, WriteTokens, Me, Conclude, Probe, ClearStep, Leave
  <1>4. lapsed' = lapsed /\ (disturbances' = disturbances \/ disturbances' = disturbances + 1)
    <2>1. CASE Restore \/ (\E n \in SignIns : SignIn(n)) \/ (\E n \in Entries : EntryStep(n))
      BY <2>1 DEF Restore, SignIn, EntryStep, LoginAnswered, LoginFails, WriteTokens, Me, Send,
                  Conclude, vars
    <2>2. CASE (\E c \in Calls \ Entries : Probe(c)) \/ (\E c \in Calls : ClearStep(c))
               \/ (\E k \in Leavers : Leave(k))
      BY <2>2 DEF Probe, Send, ClearStep, Clear, Leave
    <2>3. CASE Background
      BY <1>2, <2>3 DEF Background, ServiceStep, Verify, Issue, FlightStep, ReadRefresh, Receive,
                        Write, Expire, Answered, Unauthorized, Repeat, Send
    <2> QED BY <1>2, <2>1, <2>2, <2>3 DEF Step
  <1> QED BY <1>1, <1>2, <1>3, <1>4 DEF Undisturbed, SurvInv

LEMMA SurvService ==
  ASSUME Typed, Surviving, lapsed = 0, ServiceStep, UNCHANGED app
  PROVE  Surviving'
  <1>0. UNCHANGED <<expired, lapsed, store, flight, call, screen, entry, leaving>>
    BY DEF ServiceStep, Verify, Issue, app
  <1>1. PICK x \in exchanges : Verify(x) \/ Issue(x)
    BY DEF ServiceStep
  <1>2. store.refresh # 0 /\ flight.phase = "wait"
    BY <1>1, Shapes DEF Surviving, Outside, Inside
  <1>3. /\ exchanges = {x} /\ x.id = flight.id /\ x.token = current
        /\ x.phase \in {"verify", "save"} => store.access = current /\ store.refresh = current
    BY <1>1, <1>2 DEF Surviving, Inside
  <1>4. x \in Exchange
    BY Shapes
  <1>5. CASE Verify(x)
    <2> DEFINE y == [x EXCEPT !.phase = "save"]
    <2>1. y.id = x.id /\ y.token = x.token /\ y.phase = "save"
      BY <1>4 DEF Exchange
    <2>2. exchanges' = (exchanges \ {x}) \cup {y} /\ current' = current /\ x.phase = "verify"
      <3>1. x.token > lapsed
        BY <1>3, Numbers
      <3> QED BY <1>3, <1>5, <3>1 DEF Verify
    <2> HIDE DEF y
    <2>3. exchanges' = {y}
      BY <1>3, <2>2
    <2>4. Calm'
      BY <1>0, <2>2 DEF Surviving, Calm
    <2>5. Inside'
      BY <1>0, <1>2, <1>3, <2>1, <2>2, <2>3 DEF Surviving, Inside, Busy
    <2> QED BY <1>0, <1>2, <2>4, <2>5 DEF Surviving
  <1>6. CASE Issue(x)
    <2>1. PICK t \in Signed :
            /\ current' = t /\ x.phase = "save"
            /\ exchanges' = (exchanges \ {x}) \cup Replied([x EXCEPT !.phase = "issued", !.token = t])
      BY <1>6 DEF Issue
    <2>2. t \in Nat /\ t > expired /\ t >= current
      BY SignedShape
    <2> DEFINE y == [x EXCEPT !.phase = "issued", !.token = t]
    <2>3. y.id = x.id /\ y.token = t /\ y.phase = "issued"
      BY <1>4 DEF Exchange
    <2>4. exchanges' = (exchanges \ {x}) \cup Replied(y)
      BY <2>1
    <2> HIDE DEF y
    <2>5. exchanges' = {y}
      BY <1>2, <1>3, <2>3, <2>4 DEF Replied
    <2>6. store.access <= current'
      <3>1. store.access <= current /\ store.access \in Nat /\ current \in Nat
        BY Numbers DEF Surviving, Calm
      <3> QED BY <2>1, <2>2, <3>1
    <2>7. Calm'
      BY <1>0, <2>6 DEF Surviving, Calm
    <2>8. Inside'
      BY <1>0, <1>2, <1>3, <2>1, <2>2, <2>3, <2>5 DEF Surviving, Inside, Busy
    <2> QED BY <1>0, <1>2, <2>7, <2>8 DEF Surviving
  <1> QED BY <1>1, <1>5, <1>6

\* The calls that awaited the exchange read a token that has not run out.
LEMMA SurvLanded ==
  ASSUME Typed, Surviving, call' = Landed(call, TRUE), UNCHANGED <<entry, leaving, expired>>,
         store'.access <= current', store'.access > expired
  PROVE  Calm'
  <1>1. \A c \in Calls : call'[c] = IF call[c].phase = "join" THEN At("retry") ELSE call[c]
    BY LandedShape
  <1>2. At("retry").phase = "retry"
    BY CallShape
  <1>3. \A c \in Calls : \/ call'[c] = call[c]
                         \/ call'[c].phase = "retry"
    BY <1>1, <1>2
  <1>4. \A n \in Entries : entry'[n].phase = "asked" => call'[n].phase # "new"
    BY <1>3, RolesShape DEF Surviving, Calm
  <1>5. \A c \in Calls : /\ call'[c].phase \in {"new", "sent", "join", "retry", "ok"}
                         /\ call'[c].phase = "sent" /\ call'[c].retried => call'[c].token > expired
    BY <1>3 DEF Surviving, Calm
  <1> QED BY <1>4, <1>5 DEF Surviving, Calm

LEMMA SurvFlight ==
  ASSUME Typed, Surviving, FlightStep, UNCHANGED app
  PROVE  Surviving'
  <1>0. UNCHANGED <<current, expired, screen, entry, leaving>>
    BY DEF FlightStep, ReadRefresh, Receive, Write, app
  <1>9. current \in Nat /\ current # 0 /\ expired \in Nat /\ current <= current
    <2>1. current \in Nat /\ current > 0 /\ expired \in Nat
      BY Numbers
    <2> QED BY <2>1
  <1>1. store.refresh # 0 /\ Inside /\ Calm
    <2>1. flight.phase # "none"
      BY DEF FlightStep, ReadRefresh, Receive, Write
    <2> QED BY <2>1 DEF Surviving, Outside
  <1>2. CASE ReadRefresh
    <2> DEFINE y == [id |-> Unused, token |-> store.refresh, phase |-> "verify"]
    <2>1. /\ y.id = Unused /\ y.token = store.refresh /\ y.phase = "verify"
          /\ UNCHANGED <<store, call>> /\ exchanges' = exchanges \cup {y}
          /\ flight' = [flight EXCEPT !.phase = "wait", !.id = Unused]
          /\ store.refresh = current /\ store.access = current /\ exchanges = {}
      BY <1>1, <1>2 DEF ReadRefresh, Inside
    <2>2. flight'.phase = "wait" /\ flight'.id = Unused
      BY <2>1 DEF Typed, TypeOK, SessionTypeOK, Flight
    <2> HIDE DEF y
    <2>3. exchanges' = {y}
      BY <2>1
    <2>4. Inside'
      BY <1>0, <1>1, <2>1, <2>2, <2>3 DEF Inside, Busy
    <2>5. Calm'
      BY <1>0, <1>1, <2>1 DEF Calm
    <2> QED BY <1>1, <2>1, <2>4, <2>5 DEF Surviving
  <1>3. ASSUME NEW x \in exchanges, Receive(x)
        PROVE  Surviving'
    <2>1. /\ exchanges = {x} /\ x.token = current /\ x.phase = "issued" /\ current > expired
      BY <1>1, <1>3 DEF Receive, Inside
    <2>2. /\ UNCHANGED <<store, call>> /\ exchanges' = {}
          /\ flight'.phase = "write access" /\ flight'.token = current
      <3>1. /\ UNCHANGED <<store, call>> /\ exchanges' = exchanges \ {x}
            /\ flight' = [phase |-> "write access", id |-> 0, token |-> x.token]
        BY <1>3, <2>1 DEF Receive
      <3> QED BY <2>1, <3>1
    <2>3. Inside'
      BY <1>0, <1>1, <2>1, <2>2 DEF Inside, Busy
    <2>4. Calm'
      BY <1>0, <1>1, <2>2 DEF Calm
    <2> QED BY <1>1, <2>2, <2>3, <2>4 DEF Surviving
  <1>4. CASE Write
    <2>1. /\ exchanges = {} /\ UNCHANGED exchanges
          /\ flight.token = current /\ current > expired
          /\ flight.phase = "write refresh" => store.access = current
      BY <1>1, <1>4 DEF Write, Inside
    <2>2. CASE flight.phase = "write access"
      <3>1. /\ store' = [store EXCEPT !.access = current] /\ UNCHANGED call
            /\ flight' = [flight EXCEPT !.phase = "write refresh"]
        BY <1>4, <2>1, <2>2 DEF Write
      <3>2. store'.access = current /\ store'.refresh = store.refresh
        BY <3>1, Shapes
      <3>3. flight'.phase = "write refresh" /\ flight'.token = current
        BY <2>1, <3>1 DEF Typed, TypeOK, SessionTypeOK, Flight
      <3>4. Inside'
        BY <1>0, <1>1, <2>1, <3>2, <3>3 DEF Inside, Busy
      <3>5. store'.access <= current' /\ store'.access > expired'
        BY <1>0, <1>9, <2>1, <3>2
      <3>6. Calm'
        BY <1>0, <1>1, <3>1, <3>5 DEF Calm
      <3> QED BY <1>1, <3>2, <3>4, <3>6 DEF Surviving
    <2>3. CASE flight.phase = "write refresh"
      <3>1. /\ store' = [store EXCEPT !.refresh = current]
            /\ flight'.phase = "none" /\ call' = Landed(call, TRUE)
        BY <1>4, <2>1, <2>3, CallShape DEF Write, Land
      <3>2. store'.access = current /\ store'.refresh = current /\ current # 0
        <4>1. store \in [access: 0 .. issued, refresh: 0 .. issued]
          BY Shapes
        <4> QED BY <1>9, <2>1, <2>3, <3>1, <4>1
      <3>3. Inside'
        BY <1>0, <1>1, <2>1, <3>1, <3>2 DEF Inside, Busy
      <3>4. store'.access <= current' /\ store'.access > expired
        BY <1>0, <1>9, <2>1, <3>2
      <3>5. Calm'
        BY <1>0, <3>1, <3>4, SurvLanded
      <3> QED BY <3>2, <3>3, <3>5 DEF Surviving
    <2> QED BY <1>4, <2>2, <2>3 DEF Write
  <1> QED BY <1>2, <1>3, <1>4 DEF FlightStep

\* The token that runs out is not one that an exchange has just obtained.
LEMMA SurvExpire ==
  ASSUME Typed, Surviving, Expire, UNCHANGED app
  PROVE  Surviving'
  <1>0. UNCHANGED <<current, store, flight, call, exchanges, screen, entry, leaving>>
    BY DEF Expire, app
  <1>1. /\ expired' = store.access
        /\ \A c \in Calls : call[c].phase # "retry" /\ ~call[c].retried
    BY DEF Expire
  <1>2. \A v : v = current /\ v # store.access => v > store.access
    BY Numbers DEF Surviving, Calm
  <1>3. Calm'
    BY <1>0, <1>1 DEF Surviving, Calm
  <1>4. store.refresh = 0 => Outside'
    BY <1>0 DEF Surviving, Outside, Busy
  <1>5. store.refresh # 0 => Inside'
    <2>1. /\ flight.token = current => current > expired'
          /\ \A x \in exchanges : x.phase = "issued" /\ x.token = current => current > expired'
      BY <1>1, <1>2 DEF Expire
    <2> QED BY <1>0, <2>1 DEF Surviving, Inside, Busy
  <1> QED BY <1>0, <1>3, <1>4, <1>5 DEF Surviving

LEMMA SurvCalls ==
  ASSUME Typed, Surviving, disturbances' = disturbances,
         \/ (\E c \in Calls : Answered(c) \/ Unauthorized(c) \/ Repeat(c)) /\ UNCHANGED app
         \/ \E c \in Calls \ Entries : Probe(c)
  PROVE  Surviving'
  <1>0. UNCHANGED <<current, expired, lapsed, exchanges, store, screen, entry, leaving>>
    BY DEF app, Answered, Unauthorized, Repeat, Send, Probe
  <1>1. PICK c \in Calls : \/ Answered(c) \/ Unauthorized(c) \/ Repeat(c)
                           \/ c \notin Entries /\ Probe(c)
    OBVIOUS
  <1>2. store.refresh # 0 /\ Inside /\ Calm
    <2>1. CASE call[c].phase # "new"
      BY <2>1 DEF Surviving, Outside
    <2>2. CASE screen = "in"
      BY <2>2 DEF Surviving, Outside
    <2> QED BY <1>1, <2>1, <2>2 DEF Answered, Unauthorized, Repeat, Probe
  <1>3. ASSUME NEW q, call' = [call EXCEPT ![c] = q],
               q.phase \in {"ok", "join"} \/ (q.phase = "sent" /\ (q.retried => q.token > expired)),
               flight' = flight \/ (flight.phase = "none" /\ flight'.phase = "read")
        PROVE  Surviving'
    <2>1. \A d \in Calls : call'[d] = IF d = c THEN q ELSE call[d]
      BY <1>3, Shapes
    <2>2. Calm'
      BY <1>0, <1>2, <1>3, <2>1, RolesShape DEF Calm
    <2>3. Inside'
      BY <1>0, <1>2, <1>3 DEF Inside, Busy
    <2> QED BY <1>0, <1>2, <2>2, <2>3 DEF Surviving
  <1>4. CASE Answered(c)
    <2>1. call' = [call EXCEPT ![c] = At("ok")] /\ UNCHANGED flight
      <3>1. disturbances + 1 # disturbances
        BY Numbers
      <3> QED BY <1>4, <3>1 DEF Answered
    <2>2. At("ok").phase = "ok"
      BY CallShape
    <2> QED BY <1>3, <2>1, <2>2
  <1>5. CASE Unauthorized(c)
    <2>1. call[c].phase = "sent" /\ ~call[c].retried
      <3>1. call[c].token \in Nat /\ expired \in Nat
        BY Shapes, Numbers DEF Call
      <3>2. call[c].phase = "sent" /\ ~(call[c].token > expired)
        BY <1>5, <3>1 DEF Unauthorized
      <3> QED BY <1>2, <3>2 DEF Calm
    <2>2. /\ call' = [call EXCEPT ![c] = At("join")]
          /\ flight' = flight \/ (flight.phase = "none" /\ flight'.phase = "read")
      <3>1. [NoFlight EXCEPT !.phase = "read"].phase = "read"
        BY DEF NoFlight
      <3> QED BY <1>5, <2>1, <3>1 DEF Unauthorized
    <2>3. At("join").phase = "join"
      BY CallShape
    <2> QED BY <1>3, <2>2, <2>3
  <1>6. CASE Repeat(c) \/ (c \notin Entries /\ Probe(c))
    <2> DEFINE q == [phase |-> "sent", token |-> store.access, retried |-> call[c].phase = "retry"]
    <2>1. /\ call' = [call EXCEPT ![c] = q] /\ UNCHANGED flight
          /\ q.phase = "sent" /\ (q.retried => q.token > expired)
      BY <1>2, <1>6 DEF Repeat, Probe, Send, Calm
    <2> HIDE DEF q
    <2> QED BY <1>3, <2>1
  <1> QED BY <1>1, <1>4, <1>5, <1>6

\* An entry that goes on, in a step that leaves the calls and the store alone.
LEMMA SurvCalm ==
  ASSUME Typed, Surviving, NEW n \in Entries, NEW p, p \notin {"kept", "asked"},
         \A m \in Entries : entry'[m].phase = IF m = n THEN p ELSE entry[m].phase,
         UNCHANGED <<leaving, call, store, expired>>, store.access <= current'
  PROVE  Calm'
  BY DEF Surviving, Calm

LEMMA SurvEntries ==
  ASSUME Typed, OutInv, Surviving,
         \/ Restore \/ (\E n \in SignIns : SignIn(n)) \/ (\E n \in Entries : EntryStep(n))
  PROVE  Surviving'
  <1>0. /\ UNCHANGED <<flight, expired, lapsed, exchanges>>
        /\ store.access <= current /\ store.access <= store.access /\ current <= current
    <2>1. store.access \in Nat /\ current \in Nat
      BY Numbers
    <2>2. UNCHANGED <<flight, expired, lapsed, exchanges>>
      BY DEF Restore, SignIn, EntryStep, LoginAnswered, LoginFails, WriteTokens, Me, Conclude, Send,
             vars
    <2> QED BY <2>1, <2>2 DEF Surviving, Calm
  <1>1. ASSUME NEW n \in Entries, NEW e, entry' = [entry EXCEPT ![n] = e]
        PROVE  \A m \in Entries : entry'[m] = IF m = n THEN e ELSE entry[m]
    BY <1>1, Shapes
  <1>2. \A n \in Entries : Busy(n) => store.refresh = 0 /\ Outside
    BY DEF Surviving, Inside
  <1>3. CASE Restore
    <2>1. /\ UNCHANGED <<current, store, call, leaving>> /\ entry[Restoring].phase = "begin"
          /\ screen = "unknown" /\ \A n \in SignIns : ~Busy(n)
      BY <1>3 DEF Restore, vars, OutInv, Starting, Busy
    <2>2. CASE store.refresh = 0
      <3>1. entry' = [entry EXCEPT ![Restoring] = Stands("over")] /\ screen' = "out"
        BY <1>3, <2>2 DEF Restore
      <3>2. Stands("over").phase = "over"
        BY CallShape
      <3> HIDE DEF Stands
      <3>3. \A m \in Entries : entry'[m] = IF m = Restoring THEN Stands("over") ELSE entry[m]
        BY <1>1, <3>1, RolesShape
      <3>4. Calm'
        BY <1>0, <2>1, <3>2, <3>3, RolesShape, SurvCalm
      <3>5. \A m \in Entries : ~Busy(m)' /\ ~Busy(m)
        BY <2>1, <3>2, <3>3, RolesShape DEF Busy
      <3>6. Outside'
        BY <1>0, <2>1, <2>2, <3>1, <3>2, <3>3, <3>5 DEF Surviving, Outside, Busy
      <3> QED BY <2>1, <2>2, <3>4, <3>6 DEF Surviving
    <2>3. CASE store.refresh # 0
      <3> DEFINE e == [entry[Restoring] EXCEPT !.phase = "me"]
      <3>1. entry' = [entry EXCEPT ![Restoring] = e] /\ UNCHANGED screen
        BY <1>3, <2>3 DEF Restore
      <3>2. e.phase = "me"
        BY RolesShape DEF Entry
      <3> HIDE DEF e
      <3>3. \A m \in Entries : entry'[m] = IF m = Restoring THEN e ELSE entry[m]
        BY <1>1, <3>1, RolesShape
      <3>4. Calm'
        BY <1>0, <2>1, <3>2, <3>3, RolesShape, SurvCalm
      <3>5. Inside'
        BY <1>0, <2>1, <2>3, <3>1, <3>2, <3>3 DEF Surviving, Inside, Busy
      <3> QED BY <2>1, <2>3, <3>4, <3>5 DEF Surviving
    <2> QED BY <2>2, <2>3
  <1>4. ASSUME NEW n \in SignIns, SignIn(n)
        PROVE  Surviving'
    <2> DEFINE e == [entry[n] EXCEPT !.phase = "login"]
    <2>1. /\ UNCHANGED <<current, store, call, leaving>> /\ screen = "out" /\ screen' = "signing in"
          /\ entry' = [entry EXCEPT ![n] = e]
      BY <1>4 DEF SignIn, vars
    <2>2. e.phase = "login" /\ n \in Entries
      BY RolesShape DEF Entry
    <2> HIDE DEF e
    <2>3. \A m \in Entries : entry'[m] = IF m = n THEN e ELSE entry[m]
      BY <1>1, <2>1, <2>2
    <2>8. /\ \A m \in Entries : entry'[m].phase = IF m = n THEN "login" ELSE entry[m].phase
          /\ store.access <= current'
      <3>1. \A m \in Entries : entry'[m].phase = IF m = n THEN "login" ELSE entry[m].phase
        BY <2>2, <2>3
      <3>2. current' = current
        BY <2>1
      <3> QED BY <1>0, <3>1, <3>2
    <2>4. Calm'
      BY <2>1, <2>2, <2>8, <1>0, SurvCalm
    <2>5. store.refresh = 0 /\ Outside
      BY <2>1 DEF Surviving, Inside
    <2>6. \A m \in Entries : ~Busy(m)
      BY <2>1, <2>5 DEF Outside
    <2>9. \A m \in Entries : /\ Busy(m)' => m = n
                             /\ entry'[m].phase \notin {"write access", "write refresh", "me", "asked"}
      BY <2>5, <2>6, <2>8 DEF Outside, Busy
    <2>10. store.access = 0
      BY <2>5, <2>6 DEF Outside, Busy
    <2>7. Outside'
      BY <1>0, <2>1, <2>5, <2>9, <2>10 DEF Outside
    <2> QED BY <2>1, <2>4, <2>5, <2>7 DEF Surviving
  <1>5. ASSUME NEW n \in Entries, LoginAnswered(n)
        PROVE  Surviving'
    <2>1. PICK t \in Signed :
            /\ current' = t
            /\ entry' = [entry EXCEPT ![n] = [entry[n] EXCEPT !.phase = "write access", !.token = t]]
      BY <1>5 DEF LoginAnswered
    <2> DEFINE e == [entry[n] EXCEPT !.phase = "write access", !.token = t]
    <2>2. e.phase = "write access" /\ e.token = t
      BY RolesShape DEF Entry
    <2>3. entry' = [entry EXCEPT ![n] = e]
      BY <2>1
    <2> HIDE DEF e
    <2>4. \A m \in Entries : entry'[m] = IF m = n THEN e ELSE entry[m]
      BY <1>1, <2>3
    <2>5. UNCHANGED <<store, call, leaving, screen>> /\ entry[n].phase = "login" /\ Busy(n)
      BY <1>5 DEF LoginAnswered, Busy
    <2>6. /\ store.refresh = 0 /\ Outside
          /\ \A m \in Entries : m # n => ~Busy(m)
      BY <1>2, <2>5 DEF Outside
    <2>7. store.access = 0 /\ store.access <= t
      <3>1. t \in Nat
        BY SignedShape
      <3>2. store.access = 0
        BY <2>5, <2>6 DEF Outside, Busy
      <3> QED BY <3>1, <3>2
    <2>10. /\ \A m \in Entries : entry'[m].phase = IF m = n THEN "write access" ELSE entry[m].phase
           /\ store.access <= current'
      <3>1. \A m \in Entries : entry'[m].phase = IF m = n THEN "write access" ELSE entry[m].phase
        BY <2>2, <2>4
      <3>2. current' = t
        BY <2>1
      <3> QED BY <2>7, <3>1, <3>2
    <2>8. Calm'
      BY <2>5, <2>10, <1>0, SurvCalm
    <2>11. \A m \in Entries : /\ Busy(m)' => m = n
                              /\ entry'[m].phase \notin {"write refresh", "me", "asked"}
                              /\ entry'[m].phase = "write access" => entry'[m].token = current'
      <3>1. \A m \in Entries : m # n => entry'[m].phase \notin {"login", "write access", "write refresh"}
        BY <2>6, <2>10 DEF Busy
      <3>2. \A m \in Entries : entry'[m].phase \notin {"write refresh", "me", "asked"}
        BY <2>6, <2>10, <3>1 DEF Outside
      <3>3. entry'[n].token = current'
        BY <2>1, <2>2, <2>4
      <3> QED BY <3>1, <3>2, <3>3 DEF Busy
    <2>12. screen = "signing in"
      BY <2>5, <2>6 DEF Outside
    <2>9. Outside'
      BY <1>0, <2>5, <2>6, <2>7, <2>11, <2>12 DEF Outside
    <2> QED BY <2>5, <2>6, <2>8, <2>9 DEF Surviving
  <1>6. ASSUME NEW n \in Entries, LoginFails(n)
        PROVE  Surviving'
    <2>1. /\ UNCHANGED <<current, store, call, leaving>> /\ screen' = "out"
          /\ entry[n].phase = "login" /\ Busy(n)
          /\ entry' = [entry EXCEPT ![n] = Stands("over")]
      BY <1>6 DEF LoginFails, vars, Busy
    <2>2. Stands("over").phase = "over"
      BY CallShape
    <2> HIDE DEF Stands
    <2>3. \A m \in Entries : entry'[m] = IF m = n THEN Stands("over") ELSE entry[m]
      BY <1>1, <2>1
    <2>4. Calm'
      BY <1>0, <2>1, <2>2, <2>3, SurvCalm
    <2>5. /\ store.refresh = 0 /\ Outside
          /\ \A m \in Entries : m # n => ~Busy(m)
      BY <1>2, <2>1 DEF Outside
    <2>6. \A m \in Entries : ~Busy(m)' /\ (entry'[m].phase = "write refresh" <=> entry[m].phase = "write refresh")
      BY <2>1, <2>2, <2>3, <2>5 DEF Busy
    <2>7. Outside'
      BY <1>0, <2>1, <2>2, <2>3, <2>5, <2>6 DEF Outside, Busy
    <2> QED BY <2>1, <2>4, <2>5, <2>7 DEF Surviving
  <1>7. ASSUME NEW n \in Entries, WriteTokens(n)
        PROVE  Surviving'
    <2>1. UNCHANGED <<current, call, leaving, screen>> /\ Busy(n) /\ n \in SignIns
      BY <1>7, RolesShape DEF WriteTokens, Busy
    <2>2. /\ store.refresh = 0 /\ Outside /\ entry[n].token = current
          /\ \A m \in Entries : m # n => ~Busy(m)
          /\ screen = "signing in"
      BY <1>2, <1>7, <2>1 DEF Outside, WriteTokens
    <2>3. CASE entry[n].phase = "write access"
      <3> DEFINE e == [entry[n] EXCEPT !.phase = "write refresh"]
      <3>1. e.phase = "write refresh" /\ e.token = current
        BY <2>2, RolesShape DEF Entry
      <3>2. entry' = [entry EXCEPT ![n] = e] /\ store' = [store EXCEPT !.access = current]
        BY <1>7, <2>2, <2>3 DEF WriteTokens
      <3> HIDE DEF e
      <3>3. \A m \in Entries : entry'[m] = IF m = n THEN e ELSE entry[m]
        BY <1>1, <3>2
      <3>4. store'.access = current /\ store'.refresh = 0
        BY <2>2, <3>2, Shapes
      <3>5. Calm'
        BY <1>0, <2>1, <2>2, <3>1, <3>3, <3>4 DEF Surviving, Calm, Outside
      <3>6. Outside'
        BY <1>0, <2>1, <2>2, <3>1, <3>3, <3>4 DEF Outside, Busy
      <3> QED BY <3>4, <3>5, <3>6 DEF Surviving
    <2>4. CASE entry[n].phase = "write refresh"
      <3>1. entry' = [entry EXCEPT ![n] = Stands("me")] /\ store' = [store EXCEPT !.refresh = current]
        BY <1>7, <2>2, <2>4 DEF WriteTokens
      <3>2. Stands("me").phase = "me"
        BY CallShape
      <3> HIDE DEF Stands
      <3>3. \A m \in Entries : entry'[m] = IF m = n THEN Stands("me") ELSE entry[m]
        BY <1>1, <3>1
      <3>4. store'.access = current /\ store'.refresh = current /\ current # 0
        <4>1. store \in [access: 0 .. issued, refresh: 0 .. issued]
          BY Shapes
        <4>2. current # 0
          BY Numbers
        <4>3. store.access = current
          BY <2>2, <2>4 DEF Outside
        <4> QED BY <3>1, <4>1, <4>2, <4>3
      <3>5. Calm'
        BY <1>0, <2>1, <2>2, <3>2, <3>3, <3>4 DEF Surviving, Calm, Outside
      <3>6. Inside'
        BY <1>0, <2>1, <2>2, <3>2, <3>3, <3>4 DEF Outside, Inside, Busy
      <3> QED BY <3>4, <3>5, <3>6 DEF Surviving
    <2> QED BY <1>7, <2>3, <2>4 DEF WriteTokens
  <1>8. ASSUME NEW n \in Entries, Me(n)
        PROVE  Surviving'
    <2> DEFINE e == [entry[n] EXCEPT !.phase = "asked"]
               q == [phase |-> "sent", token |-> store.access, retried |-> call[n].phase = "retry"]
    <2>1. /\ UNCHANGED <<current, store, leaving, screen>> /\ entry[n].phase = "me"
          /\ call[n].phase \in Ended
          /\ entry' = [entry EXCEPT ![n] = e] /\ call' = [call EXCEPT ![n] = q]
      BY <1>8 DEF Me, Send, Free
    <2>2. e.phase = "asked" /\ q.phase = "sent" /\ ~q.retried
      BY <2>1, RolesShape DEF Entry, Ended
    <2> HIDE DEF e, q
    <2>3. \A m \in Entries : entry'[m] = IF m = n THEN e ELSE entry[m]
      BY <1>1, <2>1
    <2>4. \A c \in Calls : call'[c] = IF c = n THEN q ELSE call[c]
      BY <2>1, Shapes
    <2>5. store.refresh # 0 /\ Inside
      BY <2>1 DEF Surviving, Outside
    <2>6. Calm'
      BY <1>0, <2>1, <2>2, <2>3, <2>4, RolesShape DEF Surviving, Calm
    <2>7. Inside'
      <3>1. \A m \in Entries : entry[m].phase \in {"me", "asked"} => entry'[m].phase \in {"me", "asked"}
        BY <2>2, <2>3
      <3>2. \A m \in Entries : ~Busy(m)'
        BY <2>2, <2>3, <2>5 DEF Inside, Busy
      <3> QED BY <1>0, <2>1, <2>5, <3>1, <3>2, RolesShape DEF Inside
    <2> QED BY <2>1, <2>5, <2>6, <2>7 DEF Surviving
  <1>9. ASSUME NEW n \in Entries, Conclude(n)
        PROVE  Surviving'
    <2>1. UNCHANGED <<current, store, call>> /\ entry[n].phase = "asked" /\ call[n].phase = "ok"
      BY <1>9, RolesShape DEF Conclude, vars, Surviving, Calm, Ended
    <2>2. entry' = [entry EXCEPT ![n] = Stands("over")] /\ UNCHANGED leaving /\ screen' = "in"
      BY <1>9, <2>1 DEF Conclude
    <2>3. Stands("over").phase = "over"
      BY CallShape
    <2> HIDE DEF Stands
    <2>4. \A m \in Entries : entry'[m] = IF m = n THEN Stands("over") ELSE entry[m]
      BY <1>1, <2>2
    <2>5. store.refresh # 0 /\ Inside
      BY <2>1 DEF Surviving, Outside
    <2>6. Calm'
      BY <1>0, <2>1, <2>2, <2>3, <2>4, SurvCalm
    <2>7. Inside'
      BY <1>0, <2>1, <2>2, <2>3, <2>4, <2>5 DEF Inside, Busy
    <2> QED BY <2>1, <2>5, <2>6, <2>7 DEF Surviving
  <1> QED BY <1>3, <1>4, <1>5, <1>6, <1>7, <1>8, <1>9 DEF EntryStep

LEMMA SurvStep ==
  ASSUME Typed, OutInv, SurvInv, [Next]_all
  PROVE  SurvInv'
  <1>1. CASE UNCHANGED all
    BY <1>1 DEF all, state, vars, app, SurvInv, Undisturbed, Surviving, Calm, Outside, Inside, Busy
  <1>2. ASSUME Next, Undisturbed'
        PROVE  Surviving' /\ lapsed' = 0
    <2>1. /\ Step /\ Surviving /\ disturbances' = disturbances /\ lapsed = 0 /\ lapsed' = 0
          /\ ~SignOut /\ ~Restart /\ ~LoginElsewhere /\ ~LoseConnection /\ ~Lapse
      BY <1>2, UndisturbedBefore DEF Next
    <2>2. CASE Background
      <3>1. CASE ServiceStep
        BY <2>1, <2>2, <3>1, SurvService DEF Background
      <3>2. CASE FlightStep
        BY <2>1, <2>2, <3>2, SurvFlight DEF Background
      <3>3. CASE Expire
        BY <2>1, <2>2, <3>3, SurvExpire DEF Background
      <3>4. CASE \E c \in Calls : Answered(c) \/ Unauthorized(c) \/ Repeat(c)
        BY <2>1, <2>2, <3>4, SurvCalls DEF Background
      <3> QED BY <2>1, <2>2, <3>1, <3>2, <3>3, <3>4 DEF Background
    <2>3. CASE \E c \in Calls \ Entries : Probe(c)
      BY <2>1, <2>3, SurvCalls
    <2>4. /\ \A c \in Calls : ~ClearStep(c)
          /\ \A k \in Leavers : ~Leave(k)
      BY <2>1 DEF ClearStep, Clear, Leave, Surviving, Calm
    <2>5. CASE Restore \/ (\E n \in SignIns : SignIn(n)) \/ (\E n \in Entries : EntryStep(n))
      BY <2>1, <2>5, SurvEntries
    <2> QED BY <2>1, <2>2, <2>3, <2>4, <2>5 DEF Step
  <1> QED BY <1>1, <1>2 DEF SurvInv

\* The session survives however many calls meet an expired token at once and
\* however often that happens: undisturbed from outside, no call of a person who
\* stays fails, and at rest the catalog screen's app holds the service's token
\* (_refreshOnce and _onError, api_client.dart).
THEOREM SessionSurvivesHolds == Spec => []SessionSurvives
  <1>1. Typed /\ SurvInv => SessionSurvives
    <2>1. Typed => \A v : store = Pair(v) <=> store.access = v /\ store.refresh = v
      BY DEF Typed, TypeOK, SessionTypeOK, Pair
    <2> QED BY <2>1 DEF SurvInv, Surviving, Calm, Outside, Inside, Undisturbed, SessionSurvives
  <1> QED BY <1>1, TypedInit, TypedStep, OutInit, OutStep, SurvInit, SurvStep, PTL DEF Spec

-----------------------------------------------------------------------------
(* Whoever waits has somebody to wait for: the safety half of WaitingEnds. *)

\* A call that awaits the shared exchange has one, and an exchange that awaits
\* the service's answer is one the service is at or has answered.
Served ==
  /\ \A c \in Calls : call[c].phase = "join" => flight.phase # "none"
  /\ flight.phase = "wait" => \E x \in exchanges : x.id = flight.id

\* The splash screen and a sign-in's spinner have a routine that will replace
\* them.
UnderWay(n) == entry[n].phase \in {"login", "write access", "write refresh", "me", "asked"}
Attended ==
  /\ screen = "unknown" => \/ entry[Restoring].phase \in {"begin", "me", "asked"}
                           \/ leaving["restore"] # "none"
  /\ screen = "signing in" => \E n \in SignIns : UnderWay(n)

\* The exchange ends, or goes on without more calls to await it.
LEMMA ServedCalls ==
  ASSUME Typed, Served, UNCHANGED exchanges,
         \/ UNCHANGED flight
         \/ flight.phase = "none" /\ flight' = [NoFlight EXCEPT !.phase = "read"],
         \A c \in Calls : call'[c].phase = "join" => call[c].phase = "join" \/ flight'.phase # "none"
  PROVE  Served'
  <1>1. NoFlight \in Flight
    BY CallShape
  <1>2. flight' = [NoFlight EXCEPT !.phase = "read"] => flight'.phase = "read"
    BY <1>1 DEF Flight
  <1> QED BY <1>2 DEF Served

LEMMA ServedFlight ==
  ASSUME Typed, Served, FlightStep \/ LoseConnection
  PROVE  Served'
  <1>1. ASSUME NEW ok \in BOOLEAN, Land(ok)
        PROVE  Served'
    <2>1. \A c \in Calls : call'[c] = IF call[c].phase = "join"
                                      THEN At(IF ok THEN "retry" ELSE "clear access") ELSE call[c]
      BY <1>1, LandedShape DEF Land
    <2>2. \A c \in Calls : call'[c].phase # "join"
      BY <2>1, CallShape
    <2>3. flight'.phase = "none"
      BY <1>1, CallShape DEF Land
    <2> QED BY <2>2, <2>3 DEF Served
  <1>2. CASE ReadRefresh
    <2>1. CASE store.refresh = 0
      BY <1>1, <1>2, <2>1 DEF ReadRefresh
    <2>2. CASE store.refresh # 0
      <3>1. /\ flight' = [flight EXCEPT !.phase = "wait", !.id = Unused] /\ UNCHANGED call
            /\ exchanges' = exchanges \cup
                 {[id |-> Unused, token |-> store.refresh, phase |-> "verify"]}
        BY <1>2, <2>2 DEF ReadRefresh
      <3>2. flight'.phase = "wait" /\ flight'.id = Unused
        BY <3>1 DEF Typed, TypeOK, SessionTypeOK, Flight
      <3> DEFINE y == [id |-> Unused, token |-> store.refresh, phase |-> "verify"]
      <3>3. y \in exchanges' /\ y.id = Unused
        BY <3>1
      <3> HIDE DEF y
      <3> QED BY <3>1, <3>2, <3>3 DEF Served
    <2> QED BY <2>1, <2>2
  <1>3. ASSUME NEW x \in exchanges, Receive(x)
        PROVE  Served'
    <2>1. CASE x.phase = "refused"
      BY <1>1, <1>3, <2>1 DEF Receive
    <2>2. CASE x.phase # "refused"
      <3>1. flight' = [phase |-> "write access", id |-> 0, token |-> x.token] /\ UNCHANGED call
        BY <1>3, <2>2 DEF Receive
      <3>2. flight'.phase = "write access"
        BY <3>1
      <3> QED BY <3>1, <3>2 DEF Served
    <2> QED BY <2>1, <2>2
  <1>4. CASE LoseConnection
    BY <1>1, <1>4 DEF LoseConnection
  <1>5. CASE Write
    <2>1. CASE flight.phase = "write access"
      <3>1. flight' = [flight EXCEPT !.phase = "write refresh"] /\ UNCHANGED call
        BY <1>5, <2>1 DEF Write
      <3>2. flight'.phase = "write refresh"
        BY <3>1 DEF Typed, TypeOK, SessionTypeOK, Flight
      <3> QED BY <3>1, <3>2 DEF Served
    <2>2. CASE flight.phase = "write refresh"
      BY <1>1, <1>5, <2>2 DEF Write
    <2> QED BY <1>5, <2>1, <2>2 DEF Write
  <1> QED BY <1>2, <1>3, <1>4, <1>5 DEF FlightStep

\* The service forgets no exchange the client is waiting for.
LEMMA ServedService ==
  ASSUME Typed, Served, ServiceStep
  PROVE  Served'
  <1>1. PICK x \in exchanges : Verify(x) \/ Issue(x)
    BY DEF ServiceStep
  <1>2. UNCHANGED <<flight, call>>
    BY <1>1 DEF Verify, Issue
  <1>3. PICK y : /\ y.id = x.id
                 /\ flight.phase = "wait" /\ flight.id = x.id => y \in exchanges'
                 /\ exchanges \ {x} \subseteq exchanges'
    <2>0. x \in Exchange
      BY DEF Typed, TypeOK, SessionTypeOK
    <2>1. CASE Verify(x) /\ x.token > lapsed /\ x.token = current
      <3> DEFINE y == [x EXCEPT !.phase = "save"]
      <3>1. y.id = x.id /\ exchanges' = (exchanges \ {x}) \cup {y}
        BY <2>0, <2>1 DEF Verify, Exchange
      <3> HIDE DEF y
      <3> QED BY <3>1
    <2>2. CASE Verify(x) /\ ~(x.token > lapsed /\ x.token = current)
      <3> DEFINE y == [x EXCEPT !.phase = "refused"]
      <3>1. y.id = x.id /\ exchanges' = (exchanges \ {x}) \cup Replied(y)
        BY <2>0, <2>2 DEF Verify, Exchange
      <3> HIDE DEF y
      <3> QED BY <3>1 DEF Replied
    <2>3. CASE Issue(x)
      <3>1. PICK t \in Signed :
              exchanges' = (exchanges \ {x}) \cup Replied([x EXCEPT !.phase = "issued", !.token = t])
        BY <2>3 DEF Issue
      <3> DEFINE y == [x EXCEPT !.phase = "issued", !.token = t]
      <3>2. y.id = x.id /\ exchanges' = (exchanges \ {x}) \cup Replied(y)
        BY <2>0, <3>1 DEF Exchange
      <3> HIDE DEF y
      <3> QED BY <3>2 DEF Replied
    <2> QED BY <1>1, <2>1, <2>2, <2>3
  <1>4. flight.phase = "wait" => \E z \in exchanges' : z.id = flight.id
    BY <1>3 DEF Served
  <1> QED BY <1>2, <1>4 DEF Served

LEMMA ServedStep ==
  ASSUME Typed, Served, [Next]_all
  PROVE  Served'
  <1>1. CASE UNCHANGED all
    BY <1>1 DEF all, state, vars, Served
  <1>2. CASE \/ Restore \/ SignOut \/ (\E n \in SignIns : SignIn(n))
             \/ (\E n \in Entries : LoginAnswered(n) \/ LoginFails(n) \/ WriteTokens(n) \/ Conclude(n))
             \/ (\E k \in Leavers : Leave(k)) \/ LoginElsewhere \/ Expire
    <2>1. UNCHANGED <<flight, call, exchanges>>
      BY <1>2 DEF Restore, SignOut, SignIn, LoginAnswered, LoginFails, WriteTokens, Conclude,
                  Leave, LoginElsewhere, Expire, vars
    <2> QED BY <2>1 DEF Served
  <1>3. ASSUME NEW c \in Calls, Send(c)
        PROVE  Served'
    <2> DEFINE q == [phase |-> "sent", token |-> store.access, retried |-> call[c].phase = "retry"]
    <2>1. UNCHANGED <<flight, exchanges>> /\ call' = [call EXCEPT ![c] = q] /\ q.phase = "sent"
      BY <1>3 DEF Send
    <2> HIDE DEF q
    <2>2. \A d \in Calls : call'[d] = IF d = c THEN q ELSE call[d]
      BY <2>1 DEF Typed, TypeOK, SessionTypeOK
    <2> QED BY <2>1, <2>2 DEF Served
  <1>4. ASSUME NEW c \in Calls, Answered(c) \/ Unauthorized(c)
        PROVE  Served'
    <2>1. PICK q : call' = [call EXCEPT ![c] = q] /\ (q.phase = "join" => flight'.phase # "none")
      <3>1. CASE Answered(c)
        <4>1. call' = [call EXCEPT ![c] = At("ok")] \/ call' = [call EXCEPT ![c] = At("failed")]
          BY <3>1 DEF Answered
        <4>2. At("ok").phase # "join" /\ At("failed").phase # "join"
          BY CallShape
        <4> QED BY <4>1, <4>2
      <3>2. CASE Unauthorized(c) /\ call[c].retried
        <4>1. call' = [call EXCEPT ![c] = At("failed")]
          BY <3>2 DEF Unauthorized
        <4>2. At("failed").phase # "join"
          BY CallShape
        <4> QED BY <4>1, <4>2
      <3>3. CASE Unauthorized(c) /\ ~call[c].retried
        <4>1. [NoFlight EXCEPT !.phase = "read"].phase = "read"
          BY CallShape DEF Flight
        <4>2. call' = [call EXCEPT ![c] = At("join")]
          BY <3>3 DEF Unauthorized
        <4>3. flight' = [NoFlight EXCEPT !.phase = "read"] \/ flight'.phase # "none"
          BY <3>3 DEF Unauthorized
        <4> QED BY <4>1, <4>2, <4>3
      <3> QED BY <1>4, <3>1, <3>2, <3>3
    <2>2. \A d \in Calls : call'[d] = IF d = c THEN q ELSE call[d]
      BY <2>1 DEF Typed, TypeOK, SessionTypeOK
    <2>3. /\ UNCHANGED exchanges
          /\ \/ UNCHANGED flight
             \/ flight.phase = "none" /\ flight' = [NoFlight EXCEPT !.phase = "read"]
      BY <1>4 DEF Answered, Unauthorized
    <2> QED BY <2>1, <2>2, <2>3, ServedCalls
  <1>5. ASSUME NEW c \in Calls, Clear(c)
        PROVE  Served'
    <2>1. PICK p \in {"clear refresh", "expired"} : call' = [call EXCEPT ![c].phase = p]
      BY <1>5 DEF Clear
    <2>2. [call[c] EXCEPT !.phase = p].phase = p
      BY DEF Typed, TypeOK, SessionTypeOK, Call
    <2>3. \A d \in Calls : call'[d].phase = IF d = c THEN p ELSE call[d].phase
      BY <2>1, <2>2 DEF Typed, TypeOK, SessionTypeOK
    <2>4. UNCHANGED <<flight, exchanges>>
      BY <1>5 DEF Clear
    <2> QED BY <2>3, <2>4 DEF Served
  <1>6. CASE Restart
    <2>1. \A c \in Calls : call'[c] = IF call[c].phase \in Ended THEN call[c] ELSE At("failed")
      BY <1>6 DEF Restart
    <2>2. \A c \in Calls : call'[c].phase # "join"
      BY <2>1, CallShape DEF Ended
    <2>3. flight'.phase = "none"
      BY <1>6, CallShape DEF Restart
    <2> QED BY <2>2, <2>3 DEF Served
  <1>7. CASE Background
    <2>1. Lapse => Served'
      BY DEF Lapse, Served
    <2> QED
      BY <1>2, <1>3, <1>4, <1>7, <2>1, ServedFlight, ServedService DEF Background, Repeat
  <1>8. \A c \in Calls : ClearStep(c) \/ Probe(c) => Served'
    BY <1>3, <1>5 DEF ClearStep, Probe
  <1>9. \A n \in Entries : Me(n) => Served'
    BY <1>3, EntriesAssumption DEF Me, Entries
  <1> QED BY <1>1, <1>2, <1>6, <1>7, <1>8, <1>9 DEF Next, Step, EntryStep

\* Nobody waits on an exchange that is not there: a call that awaits the shared
\* exchange is told of its end because there is one, and the exchange is with
\* the service or answered, whoever signs in or out, restarts the app or loses
\* the connection meanwhile (_refreshOnce's whenComplete, api_client.dart).
THEOREM ServedHolds == Spec => []Served
  <1>1. Init => Served
    <2>1. Init => \A c \in Calls : call[c].phase = "new"
      BY CallShape DEF Init, SessionInit
    <2>2. Init => flight.phase = "none"
      BY CallShape DEF Init, SessionInit
    <2> QED BY <2>1, <2>2 DEF Served
  <1> QED BY <1>1, TypedInit, TypedStep, ServedStep, PTL DEF Spec

LEMMA AttendedStep ==
  ASSUME Typed, Attended, [Next]_all
  PROVE  Attended'
  <1>0. /\ entry \in [Entries -> Entry] /\ leaving \in [Leavers -> {"none", "access", "refresh"}]
        /\ Restoring \in Entries /\ Restoring \notin SignIns /\ SignIns \subseteq Entries
        /\ "restore" \in Leavers
    BY RolesShape DEF Typed, TypeOK
  <1>1. CASE UNCHANGED app
    BY <1>1 DEF app, Attended, UnderWay
  <1>2. ASSUME NEW n \in Entries, NEW p, entry' = [entry EXCEPT ![n].phase = p],
               UNCHANGED <<screen, leaving>>,
               p \in {"write access", "write refresh", "me", "asked"},
               n = Restoring => p \in {"me", "asked"}
        PROVE  Attended'
    <2>1. [entry[n] EXCEPT !.phase = p].phase = p
      BY <1>0 DEF Entry
    <2>2. \A m \in Entries : entry'[m].phase = IF m = n THEN p ELSE entry[m].phase
      BY <1>0, <1>2, <2>1
    <2>3. \A m \in SignIns : UnderWay(m) => UnderWay(m)'
      BY <1>0, <1>2, <2>2 DEF UnderWay
    <2>4. entry[Restoring].phase \in {"begin", "me", "asked"} =>
            entry'[Restoring].phase \in {"begin", "me", "asked"}
      BY <1>0, <1>2, <2>2
    <2> QED BY <1>2, <2>3, <2>4 DEF Attended
  <1>3. CASE Restore
    <2>1. CASE store.refresh = 0
      BY <1>3, <2>1 DEF Restore, Attended
    <2>2. CASE store.refresh # 0
      BY <1>0, <1>2, <1>3, <2>2 DEF Restore
    <2> QED BY <2>1, <2>2
  <1>4. ASSUME NEW n \in SignIns, SignIn(n)
        PROVE  Attended'
    <2>1. [entry[n] EXCEPT !.phase = "login"].phase = "login"
      BY <1>0 DEF Entry
    <2>2. entry'[n].phase = "login"
      BY <1>0, <1>4, <2>1 DEF SignIn
    <2>3. screen' = "signing in"
      BY <1>4 DEF SignIn
    <2> QED BY <2>2, <2>3 DEF Attended, UnderWay
  <1>5. CASE SignOut
    BY <1>5 DEF SignOut, Attended
  <1>6. ASSUME NEW c \in Calls, ClearStep(c)
        PROVE  Attended'
    <2>1. UNCHANGED <<screen, entry>>
      BY <1>6 DEF ClearStep
    <2>2. leaving["restore"] # "none" => leaving'["restore"] # "none"
      BY <1>0, <1>6 DEF ClearStep
    <2> QED BY <2>1, <2>2 DEF Attended, UnderWay
  <1>7. ASSUME NEW k \in Leavers, Leave(k)
        PROVE  Attended'
    <2>1. CASE leaving[k] = "access"
      <3>1. UNCHANGED <<screen, entry>> /\ leaving' = [leaving EXCEPT ![k] = "refresh"]
        BY <1>7, <2>1 DEF Leave
      <3>2. leaving["restore"] # "none" => leaving'["restore"] # "none"
        BY <1>0, <3>1
      <3> QED BY <3>1, <3>2 DEF Attended, UnderWay
    <2>2. CASE leaving[k] # "access"
      BY <1>7, <2>2 DEF Leave, Attended
    <2> QED BY <2>1, <2>2
  <1>8. CASE Restart
    <2>1. PICK p \in [Entries -> {"idle", "begin", "over", "kept"}] :
             /\ entry' = [n \in Entries |-> Stands(p[n])]
             /\ \A n \in Entries : p[n] = "begin" <=> n = Restoring
      BY <1>8, Restarted
    <2>2. entry'[Restoring].phase = "begin"
      BY <1>0, <2>1, CallShape
    <2>3. screen' = "unknown"
      BY <1>8 DEF Restart
    <2> QED BY <2>2, <2>3 DEF Attended
  <1>9. ASSUME NEW n \in Entries, LoginAnswered(n) \/ WriteTokens(n)
        PROVE  Attended'
    <2>1. entry'[n].phase \in {"write access", "write refresh", "me"}
      <3>1. CASE WriteTokens(n) /\ entry[n].phase = "write refresh"
        <4>1. entry' = [entry EXCEPT ![n] = Stands("me")]
          BY <3>1 DEF WriteTokens
        <4>2. entry'[n] = Stands("me")
          BY <1>0, <4>1
        <4> QED BY <4>2, CallShape
      <3>2. CASE WriteTokens(n) /\ entry[n].phase = "write access"
        <4>1. [entry[n] EXCEPT !.phase = "write refresh"].phase = "write refresh"
          BY <1>0 DEF Entry
        <4>2. entry' = [entry EXCEPT ![n].phase = "write refresh"]
          BY <3>2 DEF WriteTokens
        <4> QED BY <1>0, <4>1, <4>2
      <3>3. ASSUME NEW t, entry' = [entry EXCEPT ![n].phase = "write access", ![n].token = t]
            PROVE  entry'[n].phase = "write access"
        <4>1. [[entry[n] EXCEPT !.phase = "write access"] EXCEPT !.token = t].phase = "write access"
          BY <1>0 DEF Entry
        <4> QED BY <1>0, <3>3, <4>1
      <3>4. CASE LoginAnswered(n)
        BY <3>3, <3>4 DEF LoginAnswered
      <3> QED BY <1>9, <3>1, <3>2, <3>4 DEF WriteTokens
    <2>2. UNCHANGED <<screen, leaving>> /\ entry[n].phase \notin {"begin", "me", "asked"}
      BY <1>9 DEF LoginAnswered, WriteTokens
    <2>3. \A m \in Entries \ {n} : entry'[m] = entry[m]
      BY <1>0, <1>9 DEF LoginAnswered, WriteTokens
    <2>4. n # Restoring
      BY <1>9 DEF LoginAnswered, WriteTokens, Typed, Roles
    <2>5. \A m \in SignIns : UnderWay(m) => UnderWay(m)'
      BY <1>0, <2>1, <2>3 DEF UnderWay
    <2> QED BY <1>0, <2>2, <2>3, <2>4, <2>5 DEF Attended
  <1>10. ASSUME NEW n \in Entries, Me(n)
         PROVE  Attended'
    BY <1>2, <1>10 DEF Me
  <1>11. ASSUME NEW n \in Entries, LoginFails(n)
         PROVE  Attended'
    BY <1>11 DEF LoginFails, Attended
  <1>12. ASSUME NEW n \in Entries, Conclude(n)
         PROVE  Attended'
    <2>1. CASE n # Restoring \/ call[n].phase = "ok"
      <3>1. screen' \in {"in", "out"}
        BY <1>12, <2>1 DEF Conclude, Rejected
      <3> QED BY <3>1 DEF Attended
    <2>2. CASE n = Restoring /\ call[n].phase # "ok"
      <3>1. leaving' = [leaving EXCEPT !["restore"] = "access"] /\ UNCHANGED screen
        BY <1>12, <2>2 DEF Conclude, Rejected
      <3>2. leaving'["restore"] = "access"
        BY <1>0, <3>1
      <3>3. \A m \in SignIns : entry'[m] = entry[m]
        BY <1>0, <1>12, <2>2 DEF Conclude
      <3> QED BY <3>1, <3>2, <3>3 DEF Attended, UnderWay
    <2> QED BY <2>1, <2>2
  <1>13. CASE Background \/ \E c \in Calls \ Entries : Probe(c)
    BY <1>1, <1>13 DEF Background, Probe
  <1> QED BY <1>1, <1>3, <1>4, <1>5, <1>6, <1>7, <1>8, <1>9, <1>10, <1>11, <1>12, <1>13
          DEF Next, Step, EntryStep, all, state

\* No screen is left spinning: while the splash screen shows, _restore is at
\* work or giving its tokens up, and while a sign-in shows, one is under way,
\* though every routine sets the screen whatever the others are doing
\* (AuthController, auth_controller.dart).
THEOREM AttendedHolds == Spec => []Attended
  <1>1. Init => Attended
    <2>1. Init => entry[Restoring].phase = "begin" /\ screen = "unknown"
      BY CallShape DEF Init, Entries
    <2> QED BY <2>1 DEF Attended
  <1> QED BY <1>1, TypedInit, TypedStep, AttendedStep, PTL DEF Spec

=============================================================================
