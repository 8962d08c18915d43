------------------------------ MODULE LivioApp ------------------------------
(***************************************************************************)
(* The Livio client: its screens (AuthController, _Root) over the calls    *)
(* and the token store of Sessions.                                        *)
(*                                                                         *)
(*   screen: unknown -> in | out;  out -> signing in -> in | out           *)
(*                                                                         *)
(* The app starts by asking who it is with the stored tokens (_restore),   *)
(* and a person signs in and out.  Each of these is a routine of its own   *)
(* that sets the screen when it ends, whatever the others are doing; so is *)
(* the sign-out that follows a call whose session is beyond renewal.       *)
(***************************************************************************)
EXTENDS Sessions

CONSTANTS
  SignIns,     \* the sign-ins, each with its call for the profile
  Restoring    \* _restore, and its call

ASSUME EntriesAssumption == SignIns \cup {Restoring} \subseteq Calls /\ Restoring \notin SignIns

Screens == {"unknown", "out", "signing in", "in"}

\* The routines that bring the app in; the other calls are the person's.
Entries == SignIns \cup {Restoring}

\* Those that put it out: a call's onSessionExpired, _restore's, the button's.
Leavers == Calls \cup {"restore", "person"}

VARIABLES
  screen,    \* the AuthState
  entry,     \* where each routine that brings the app in stands
  leaving,   \* the key each sign-out deletes next, or none
  left,      \* history: the person has signed out
  crossed    \* history: tokens were being deleted while others were obtained

app == <<screen, entry, leaving>>
state == <<vars, app>>
all == <<state, left, crossed>>

Entry == [phase: {"idle", "begin", "login", "write access", "write refresh", "me",
                  "asked", "over", "kept"}, token: Nat]

Stands(phase) == [phase |-> phase, token |-> 0]

Init ==
  /\ SessionInit
  /\ screen = "unknown"
  /\ entry = [n \in Entries |-> Stands(IF n = Restoring THEN "begin" ELSE "idle")]
  /\ leaving = [k \in Leavers |-> "none"]
  /\ left = FALSE
  /\ crossed = FALSE

\* A call may be made in this place.
Free(c) ==
  /\ call[c].phase \in Ended
  /\ leaving[c] = "none"

-----------------------------------------------------------------------------
(* WHO: the app, as it starts.                                             *)

\* _restore: hasSession looks at the refresh token.
Restore ==
  /\ entry[Restoring].phase = "begin"
  /\ IF store.refresh = 0
     THEN screen' = "out" /\ entry' = [entry EXCEPT ![Restoring] = Stands("over")]
     ELSE UNCHANGED screen /\ entry' = [entry EXCEPT ![Restoring].phase = "me"]
  /\ UNCHANGED <<vars, leaving, left>>

-----------------------------------------------------------------------------
(* WHO: the person.                                                        *)

\* "Entrar" on the login screen, disabled while a sign-in is on.
SignIn(n) ==
  /\ screen = "out"
  /\ entry[n].phase = "idle"
  /\ screen' = "signing in"
  /\ entry' = [entry EXCEPT ![n].phase = "login"]
  /\ UNCHANGED <<vars, leaving, left>>

\* "Cerrar sesión", or "Probar ruta protegida", on the catalog screen.
SignOut ==
  /\ screen = "in"
  /\ leaving["person"] = "none"
  /\ leaving' = [leaving EXCEPT !["person"] = "access"]
  /\ left' = TRUE
  /\ UNCHANGED <<vars, screen, entry>>

Probe(c) ==
  /\ screen = "in"
  /\ call[c].phase = "new"
  /\ Send(c)
  /\ UNCHANGED <<app, left>>

-----------------------------------------------------------------------------
(* WHO: a routine that brings the app in.                                  *)

\* login at the service: a new pair.
LoginAnswered(n) ==
  /\ entry[n].phase = "login"
  /\ \E t \in Signed :
       /\ current' = t
       /\ issued' = IF t > issued THEN t ELSE issued
       /\ entry' = [entry EXCEPT ![n].phase = "write access", ![n].token = t]
  /\ UNCHANGED <<expired, lapsed, exchanges, store, flight, call, expiries, disturbances>>
  /\ UNCHANGED <<screen, leaving, left>>

\* Wrong credentials, or no answer (LoginElsewhere, if the service gave one):
\* AuthFailure.
LoginFails(n) ==
  /\ entry[n].phase = "login"
  /\ screen' = "out"
  /\ entry' = [entry EXCEPT ![n] = Stands("over")]
  /\ UNCHANGED <<vars, leaving, left>>

\* _tokens.save, before the profile is read.
WriteTokens(n) ==
  /\ \/ /\ entry[n].phase = "write access"
        /\ store' = [store EXCEPT !.access = entry[n].token]
        /\ entry' = [entry EXCEPT ![n].phase = "write refresh"]
     \/ /\ entry[n].phase = "write refresh"
        /\ store' = [store EXCEPT !.refresh = entry[n].token]
        /\ entry' = [entry EXCEPT ![n] = Stands("me")]
  /\ UNCHANGED <<current, issued, expired, lapsed, exchanges, flight, call, expiries, disturbances>>
  /\ UNCHANGED <<screen, leaving, left>>

\* me: GET /auth/me, a call like any other.
Me(n) ==
  /\ entry[n].phase = "me"
  /\ Free(n)
  /\ Send(n)
  /\ entry' = [entry EXCEPT ![n].phase = "asked"]
  /\ UNCHANGED <<screen, leaving, left>>

\* _restore gives the tokens up, be it for a lost connection; signIn keeps
\* those it has just stored.
Rejected(n) ==
  IF n = Restoring
  THEN leaving' = [leaving EXCEPT !["restore"] = "access"] /\ UNCHANGED screen
  ELSE screen' = "out" /\ UNCHANGED leaving

Conclude(n) ==
  /\ entry[n].phase = "asked"
  /\ call[n].phase \in Ended
  /\ IF call[n].phase = "ok" THEN screen' = "in" /\ UNCHANGED leaving ELSE Rejected(n)
  /\ entry' = [entry EXCEPT ![n] =
       Stands(IF call[n].phase # "ok" /\ n \in SignIns THEN "kept" ELSE "over")]
  /\ UNCHANGED <<vars, left>>

-----------------------------------------------------------------------------
(* WHO: a sign-out.                                                        *)

\* A call whose session could not be renewed: its last deletion is followed by
\* onSessionExpired, which _Root turns into a signOut.
ClearStep(c) ==
  /\ Clear(c)
  /\ leaving' = IF call[c].phase = "clear refresh"
                THEN [leaving EXCEPT ![c] = "access"] ELSE leaving
  /\ UNCHANGED <<screen, entry, left>>

\* Slip: clear deletes the access token alone.
ClearedAccessOnly(k) ==
  IF leaving[k] = "access" THEN [store EXCEPT !.access = 0] ELSE store

\* _tokens.clear, key after key.
Cleared(k) ==
  IF leaving[k] = "access" THEN [store EXCEPT !.access = 0] ELSE [store EXCEPT !.refresh = 0]

\* logout, then AuthSignedOut, whatever the screen was by then.
Leave(k) ==
  /\ leaving[k] # "none"
  /\ store' = Cleared(k)
  /\ IF leaving[k] = "access"
     THEN leaving' = [leaving EXCEPT ![k] = "refresh"] /\ UNCHANGED screen
     ELSE leaving' = [leaving EXCEPT ![k] = "none"] /\ screen' = "out"
  /\ UNCHANGED <<current, issued, expired, lapsed, exchanges, flight, call, expiries, disturbances>>
  /\ UNCHANGED <<entry, left>>

-----------------------------------------------------------------------------
\* A sign-in that was stopped between its two keys has left one of them.
Storing  == {"write refresh", "kept"}
HalfPair == store.refresh = 0 /\ store.access # 0

\* WHO: the phone.  It stops the app, which starts again with what is stored;
\* what was under way is lost.
Restart ==
  /\ disturbances < MaxDisturbances
  /\ disturbances' = disturbances + 1
  /\ flight' = NoFlight
  /\ call' = [c \in Calls |-> IF call[c].phase \in Ended THEN call[c]
                              ELSE At("failed")]
  /\ exchanges' = {x \in exchanges : x.phase \in {"verify", "save"}}
  /\ UNCHANGED <<current, issued, expired, lapsed, store, expiries>>
  /\ screen' = "unknown"
  /\ entry' = [n \in Entries |->
       Stands(CASE n = Restoring                          -> "begin"
                [] entry[n].phase = "idle"                 -> "idle"
                [] entry[n].phase \in Storing /\ HalfPair -> "kept"
                [] OTHER                                   -> "over")]
  /\ leaving' = [k \in Leavers |-> "none"]
  /\ UNCHANGED left

\* The steps of Sessions that do not concern the screens.
Background ==
  /\ \/ ServiceStep \/ FlightStep
     \/ LoginElsewhere \/ Expire \/ Lapse \/ LoseConnection
     \/ \E c \in Calls : Answered(c) \/ Unauthorized(c) \/ Repeat(c)
  /\ UNCHANGED <<app, left>>

\* Tokens are being deleted, and others are being obtained.
Deleting ==
  \/ \E k \in Leavers : leaving[k] # "none"
  \/ \E c \in Calls : call[c].phase \in {"clear access", "clear refresh"}
Obtaining ==
  \/ flight.phase \in {"wait", "write access", "write refresh"}
  \/ \E n \in Entries : entry[n].phase \in {"login", "write access", "write refresh"}

EntryStep(n) ==
  LoginAnswered(n) \/ LoginFails(n) \/ WriteTokens(n) \/ Me(n) \/ Conclude(n)

Step ==
  \/ Restore \/ SignOut \/ Restart \/ Background
  \/ \E n \in SignIns : SignIn(n)
  \/ \E n \in Entries : EntryStep(n)
  \/ \E c \in Calls \ Entries : Probe(c)
  \/ \E c \in Calls : ClearStep(c)
  \/ \E k \in Leavers : Leave(k)

Next == Step /\ crossed' = (crossed \/ (Deleting' /\ Obtaining'))

\* Everything begun goes on: the service answers, the app's futures run, one
\* or another.  The person need not do anything.
Progress ==
  \/ (ServiceStep \/ FlightStep) /\ UNCHANGED app
  \/ \E c \in Calls : \/ (Answered(c) \/ Unauthorized(c) \/ Repeat(c)) /\ UNCHANGED app
                      \/ ClearStep(c)
  \/ Restore
  \/ \E n \in Entries : EntryStep(n)
  \/ \E k \in Leavers : Leave(k)

Spec == Init /\ [][Next]_all /\ WF_state(Progress)

-----------------------------------------------------------------------------
TypeOK ==
  /\ SessionTypeOK
  /\ screen \in Screens
  /\ entry \in [Entries -> Entry]
  /\ leaving \in [Leavers -> {"none", "access", "refresh"}]
  /\ {left, crossed} \subseteq BOOLEAN

\* However many calls meet an expired token at once, and however late their
\* 401s arrive, the session survives: as long as nothing disturbs it from
\* outside (no lost connection, restart or login elsewhere, and no refresh
\* token left unused for its 7 days, which auth.service.ts:79-85 then refuses)
\* no call of a person who stays fails, none clears the tokens, and on the
\* catalog screen, whenever no exchange is in flight, the app holds the very
\* token the service would take (_refreshOnce, api_client.dart).
SessionSurvives ==
  (disturbances = 0 /\ ~left) =>
    /\ \A c \in Calls : call[c].phase \in {"new", "sent", "join", "retry", "ok"}
    /\ (screen = "in" /\ flight.phase = "none") => store = Pair(current)

\* Once every sign-out and sign-in is through, the login screen has no tokens
\* behind it: the next start will not bring the person back in.  It may, when
\* the deletion crossed an exchange that wrote its tokens after it, and when a
\* sign-in stored its tokens and then could not read the profile.
SignedOutStaysOut ==
  ( /\ screen = "out"
    /\ ~Deleting /\ ~Obtaining /\ ~crossed
    /\ \A n \in Entries : entry[n].phase # "kept" ) => store = Pair(0)

\* Whatever has begun ends: a call in an answer or at the login screen, the
\* splash screen and a sign-in at the login or the catalog.  Nobody waits for
\* ever on the shared exchange, and no call renews and repeats without end.
WaitingEnds ==
  []<>(/\ \A c \in Calls : call[c].phase \in Ended
       /\ screen \in {"in", "out"})
=============================================================================
