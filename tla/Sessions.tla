------------------------------ MODULE Sessions ------------------------------
(***************************************************************************)
(* Livio's client of the API (ApiClient) and the auth service's refresh.   *)
(*                                                                         *)
(* The service keeps one refresh token per user: refresh exchanges it for  *)
(* a new pair, and login replaces it.  The client's calls run side by      *)
(* side.  One that is answered 401 awaits _refreshOnce, which all such     *)
(* calls share while it runs, and is then repeated once with the new       *)
(* token; when the exchange fails it clears the stored tokens instead.     *)
(*                                                                         *)
(*   call:   sent -> join -> retry -> sent -> ok | failed                  *)
(*                        -> clear access -> clear refresh -> expired      *)
(*   flight: none -> read -> wait -> write access -> write refresh -> none *)
(*   exchange (the service): verify -> save -> issued, or refused          *)
(*                                                                         *)
(* Tokens are numbered as they are issued, the access and the refresh      *)
(* token of a pair alike; 0 is none.  Who makes the calls, and signs in    *)
(* and out, is LivioApp, which puts these steps together with its own.     *)
(***************************************************************************)
EXTENDS Naturals, FiniteSets

CONSTANTS
  Calls,            \* the places for the API calls the app makes
  MaxExpiries,      \* bound: times the stored access token runs out
  MaxDisturbances   \* bound: what disturbs the session from outside

ASSUME SessionBounds == MaxExpiries \in Nat /\ MaxDisturbances \in Nat

VARIABLES
  current,       \* service: the token whose hash is in refreshTokenHash
  issued,        \* service: tokens issued so far
  expired,       \* access tokens up to this one have run out
  lapsed,        \* refresh tokens up to this one have run out
  exchanges,     \* service: the refresh requests it has received
  store,         \* client: the two keys of its secure storage
  flight,        \* client: _refreshInFlight
  call,          \* client: where each call stands
  expiries,      \* times the stored access token ran out
  disturbances   \* connections lost, restarts, logins elsewhere, weeks unused

vars ==
  <<current, issued, expired, lapsed, exchanges, store, flight, call, expiries, disturbances>>

\* What a person's tokens look like in the store; Pair(0) is none.
Pair(n) == [access |-> n, refresh |-> n]

NoFlight == [phase |-> "none", id |-> 0, token |-> 0]

Flight == [phase: {"none", "read", "wait", "write access", "write refresh"},
           id: Nat, token: Nat]

Exchange == [id: Nat, token: Nat, phase: {"verify", "save", "issued", "refused"}]

Call == [phase: {"new", "sent", "join", "retry", "clear access", "clear refresh",
                 "ok", "failed", "expired"},
         token: Nat, retried: BOOLEAN]

\* The token and the repetition of a call matter while it is at the service.
At(phase) == [phase |-> phase, token |-> 0, retried |-> FALSE]

\* A call that is over; its place is free for another.
Ended == {"new", "ok", "failed", "expired"}

\* Signed in, on this device or on another.
SessionInit ==
  /\ current = 1
  /\ issued = 1
  /\ expired = 0
  /\ lapsed = 0
  /\ exchanges = {}
  /\ store \in {Pair(0), Pair(1)}
  /\ flight = NoFlight
  /\ call = [c \in Calls |-> At("new")]
  /\ expiries = 0
  /\ disturbances = 0

-----------------------------------------------------------------------------
(* WHO: the auth service.                                                  *)

\* An answer is kept for whom it reaches; the client may have stopped waiting.
Replied(x) == IF flight.phase = "wait" /\ flight.id = x.id THEN {x} ELSE {}

\* refresh: the token must not have run out (jwt.verify), and the hash loaded
\* must be its own.
Verify(x) ==
  /\ x.phase = "verify"
  /\ exchanges' = (exchanges \ {x}) \cup
       IF x.token > lapsed /\ x.token = current
       THEN {[x EXCEPT !.phase = "save"]}
       ELSE Replied([x EXCEPT !.phase = "refused"])
  /\ UNCHANGED <<current, issued, expired, lapsed, store, flight, call, expiries, disturbances>>

\* Slip: the old pair is revoked and none is signed in its place.
SignedNone == {0}

\* issueTokens signs a new pair.  The claims tell two pairs of a user apart by
\* the second: a pair issued at once after another is that same pair.
Signed ==
  {issued + 1} \cup {t \in {current} : t > expired}

\* ... and its hash replaces whatever is stored by now.
Issue(x) ==
  /\ x.phase = "save"
  /\ \E t \in Signed :
       /\ current' = t
       /\ issued' = IF t > issued THEN t ELSE issued
       /\ exchanges' = (exchanges \ {x}) \cup Replied([x EXCEPT !.phase = "issued", !.token = t])
  /\ UNCHANGED <<expired, lapsed, store, flight, call, expiries, disturbances>>

\* login, on another device.
LoginElsewhere ==
  /\ disturbances < MaxDisturbances
  /\ disturbances' = disturbances + 1
  /\ \E t \in Signed :
       /\ current' = t
       /\ issued' = IF t > issued THEN t ELSE issued
  /\ UNCHANGED <<expired, lapsed, exchanges, store, flight, call, expiries>>

\* Time: the stored access token runs out.  It lasts 15 minutes: longer than
\* the rest of the exchange that has just issued it and the repetitions of the
\* calls that waited for it.
Expire ==
  /\ expiries < MaxExpiries
  /\ store.access > expired
  /\ flight.token # store.access
  /\ \A x \in exchanges : x.phase = "issued" => x.token # store.access
  /\ \A c \in Calls : call[c].phase # "retry" /\ ~call[c].retried
  /\ expired' = store.access
  /\ expiries' = expiries + 1
  /\ UNCHANGED <<current, issued, lapsed, exchanges, store, flight, call, disturbances>>

\* Time: nobody used the app for the 7 days a refresh token lasts, and the one
\* in store runs out, long after the access token of its pair.  One that runs
\* out during a call is as good as run out before it: it is only looked at once.
Lapse ==
  /\ lapsed < store.refresh
  /\ store.refresh <= expired
  /\ \A c \in Calls : call[c].phase \in Ended
  /\ disturbances < MaxDisturbances
  /\ disturbances' = disturbances + 1
  /\ lapsed' = store.refresh
  /\ UNCHANGED <<current, issued, expired, exchanges, store, flight, call, expiries>>

-----------------------------------------------------------------------------
(* WHO: a call.                                                            *)

\* _onRequest, and the repetition in _onError: the token is read from storage.
Send(c) ==
  /\ call[c].phase \in Ended \cup {"retry"}
  /\ call' = [call EXCEPT ![c] = [phase |-> "sent", token |-> store.access,
                                  retried |-> call[c].phase = "retry"]]
  /\ UNCHANGED <<current, issued, expired, lapsed, exchanges, store, flight, expiries, disturbances>>

Repeat(c) == call[c].phase = "retry" /\ Send(c)

\* The service behind Kong takes the token, or the call fails some other way.
Answered(c) ==
  /\ call[c].phase = "sent"
  /\ \/ /\ call[c].token > expired
        /\ call' = [call EXCEPT ![c] = At("ok")]
        /\ UNCHANGED disturbances
     \/ /\ disturbances < MaxDisturbances
        /\ disturbances' = disturbances + 1
        /\ call' = [call EXCEPT ![c] = At("failed")]
  /\ UNCHANGED <<current, issued, expired, lapsed, exchanges, store, flight, expiries>>

\* Slip: every call starts an exchange of its own.
UnauthorizedAlone(c) ==
  /\ call[c].phase = "sent"
  /\ call[c].token <= expired
  /\ IF call[c].retried
     THEN call' = [call EXCEPT ![c] = At("failed")] /\ UNCHANGED flight
     ELSE /\ call' = [call EXCEPT ![c] = At("join")]
          /\ flight' = [NoFlight EXCEPT !.phase = "read"]
  /\ UNCHANGED <<current, issued, expired, lapsed, exchanges, store, expiries, disturbances>>

\* A 401 in _onError: the second one of a call is its answer; the first makes
\* it await _refreshOnce, which starts an exchange unless one is in flight.
Unauthorized(c) ==
  /\ call[c].phase = "sent"
  /\ call[c].token <= expired
  /\ IF call[c].retried
     THEN call' = [call EXCEPT ![c] = At("failed")] /\ UNCHANGED flight
     ELSE /\ call' = [call EXCEPT ![c] = At("join")]
          /\ flight' = IF flight.phase = "none"
                       THEN [NoFlight EXCEPT !.phase = "read"]
                       ELSE flight
  /\ UNCHANGED <<current, issued, expired, lapsed, exchanges, store, expiries, disturbances>>

\* The exchange failed: _tokens.clear(), key after key, then onSessionExpired.
Clear(c) ==
  /\ \/ /\ call[c].phase = "clear access"
        /\ store' = [store EXCEPT !.access = 0]
        /\ call' = [call EXCEPT ![c].phase = "clear refresh"]
     \/ /\ call[c].phase = "clear refresh"
        /\ store' = [store EXCEPT !.refresh = 0]
        /\ call' = [call EXCEPT ![c].phase = "expired"]
  /\ UNCHANGED <<current, issued, expired, lapsed, exchanges, flight, expiries, disturbances>>

-----------------------------------------------------------------------------
(* WHO: _performRefresh.                                                   *)

\* Slip: only one of the calls that share the exchange is told of its end.
LandedForOne(calls, ok) ==
  LET first == CHOOSE c \in Calls : calls[c].phase = "join"
  IN  [calls EXCEPT ![first] = At(IF ok THEN "retry" ELSE "clear access")]

\* whenComplete: every call that awaits the exchange is told how it ended.
Landed(calls, ok) ==
  [c \in Calls |->
     IF calls[c].phase = "join" THEN At(IF ok THEN "retry" ELSE "clear access")
     ELSE calls[c]]

Land(ok) ==
  /\ flight' = NoFlight
  /\ call' = Landed(call, ok)

\* A number that tells an exchange from those the service is still at.
Unused == CHOOSE i \in 1 .. Cardinality(exchanges) + 1 : \A x \in exchanges : x.id # i

\* Without a refresh token there is nothing to exchange.
ReadRefresh ==
  /\ flight.phase = "read"
  /\ IF store.refresh = 0
     THEN Land(FALSE) /\ UNCHANGED exchanges
     ELSE /\ flight' = [flight EXCEPT !.phase = "wait", !.id = Unused]
          /\ exchanges' = exchanges \cup
               {[id |-> Unused, token |-> store.refresh, phase |-> "verify"]}
          /\ UNCHANGED call
  /\ UNCHANGED <<current, issued, expired, lapsed, store, expiries, disturbances>>

\* The service's answer to this exchange.
Receive(x) ==
  /\ flight.phase = "wait"
  /\ x.id = flight.id
  /\ x.phase \in {"issued", "refused"}
  /\ IF x.phase = "refused"
     THEN Land(FALSE)
     ELSE flight' = [phase |-> "write access", id |-> 0, token |-> x.token]
          /\ UNCHANGED call
  /\ exchanges' = exchanges \ {x}
  /\ UNCHANGED <<current, issued, expired, lapsed, store, expiries, disturbances>>

\* A DioException: the request never arrived, or its answer did not, and then
\* the service carries on all the same.
LoseConnection ==
  /\ flight.phase = "wait"
  /\ disturbances < MaxDisturbances
  /\ disturbances' = disturbances + 1
  /\ \E atService \in {{"save"}, {"verify", "save"}} :
       exchanges' = {x \in exchanges : x.id # flight.id \/ x.phase \in atService}
  /\ Land(FALSE)
  /\ UNCHANGED <<current, issued, expired, lapsed, store, expiries>>

\* _tokens.save, key after key.
Write ==
  /\ \/ /\ flight.phase = "write access"
        /\ store' = [store EXCEPT !.access = flight.token]
        /\ flight' = [flight EXCEPT !.phase = "write refresh"]
        /\ UNCHANGED call
     \/ /\ flight.phase = "write refresh"
        /\ store' = [store EXCEPT !.refresh = flight.token]
        /\ Land(TRUE)
  /\ UNCHANGED <<current, issued, expired, lapsed, exchanges, expiries, disturbances>>

ServiceStep == \E x \in exchanges : Verify(x) \/ Issue(x)

FlightStep == ReadRefresh \/ (\E x \in exchanges : Receive(x)) \/ Write

CallStep(c) == Answered(c) \/ Unauthorized(c) \/ Clear(c)

-----------------------------------------------------------------------------
SessionTypeOK ==
  /\ current \in 1 .. issued
  /\ issued \in Nat
  /\ expired \in 0 .. issued
  /\ lapsed \in 0 .. expired
  /\ exchanges \subseteq Exchange
  /\ \A x, y \in exchanges : x.id = y.id => x = y
  /\ store \in [access: 0 .. issued, refresh: 0 .. issued]
  /\ flight \in Flight
  /\ call \in [Calls -> Call]
  /\ expiries \in 0 .. MaxExpiries
  /\ disturbances \in 0 .. MaxDisturbances
=============================================================================
