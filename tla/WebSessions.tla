---------------------------- MODULE WebSessions ----------------------------
(***************************************************************************)
(* Signing in and out of the three web applications.  The tabs of one      *)
(* application share localStorage, which holds the token every call sends; *)
(* the user a tab shows is the tab's own, found once by getMe.             *)
(*                                                                         *)
(* The applications differ in what they check and what they clear; they    *)
(* run on origins of their own, so one of them is taken at a time.  None   *)
(* uses the refresh token: a token that expired is noticed on the next     *)
(* mount only.                                                             *)
(***************************************************************************)
EXTENDS Naturals, Sequences, FiniteSets

CONSTANTS
  Tabs,
  Users,
  RoleOf,       \* a function of Users to roles
  Nobody,       \* no user
  MaxSignIns    \* how many pairs of tokens are ever issued

ASSUME RoleAssumption == RoleOf \in [Users -> {"CLIENT", "PROVIDER", "ADMIN"}]
ASSUME NobodyAssumption == Nobody \notin Users /\ MaxSignIns \in Nat

Apps == {"client", "provider", "admin"}

VARIABLES
  app,       \* the application
  stored,    \* its token in localStorage, as a number; 0 when there is none
  issued,    \* auth-service: whose each token is
  expired,   \* the tokens past their fifteen minutes
  tab,       \* what each tab shows, and the call it waits for
  data,      \* whose orders are on each tab
  foreign    \* history: another tab has changed the stored token since

vars == <<app, stored, issued, expired, tab, data, foreign>>

Form   == [phase |-> "form", user |-> Nobody, token |-> 0, restored |-> FALSE]
Absent == [Form EXCEPT !.phase = "closed"]

Tab == [phase: {"closed", "checking", "form", "entering", "proving", "in"},
        user: Users \cup {Nobody}, token: Nat, restored: BOOLEAN]

Init ==
  /\ app \in Apps
  /\ stored = 0
  /\ issued = <<>>
  /\ expired = {}
  /\ tab = [t \in Tabs |-> Absent]
  /\ data = [t \in Tabs |-> Nobody]
  /\ foreign = [t \in Tabs |-> FALSE]

\* A tab goes on as s, with a token in the store; what it listed is unmounted.
Goes(t, s, token) ==
  /\ tab' = [tab EXCEPT ![t] = s]
  /\ stored' = token
  /\ data' = [data EXCEPT ![t] = Nobody]
  /\ foreign' = [u \in Tabs |-> IF u = t THEN FALSE ELSE foreign[u] \/ token # stored]

\* auth-service's me: the token verifies, and has not expired.
Valid(n) == n \in DOMAIN issued /\ n \notin expired

\* JwtAuthGuard: a call with such a token is its subject's, one without any or
\* with another is a 401.
CanActivate(n, u) == n # 0 /\ Valid(n) /\ issued[n] = u

-----------------------------------------------------------------------------
(* WHO: the person.                                                        *)

\* A tab is opened, or loaded again: the stored token is checked, if any.
Open(t) ==
  /\ IF stored = 0 THEN Goes(t, Form, stored)
     ELSE Goes(t, [Form EXCEPT !.phase = "checking", !.token = stored], stored)
  /\ UNCHANGED <<app, issued, expired>>

\* The form's button is disabled while loading: from its press until getMe has
\* been answered.
MaySubmit(t) == tab[t].phase = "form"

\* handleSubmit
Submit(t, u) ==
  /\ MaySubmit(t)
  /\ tab' = [tab EXCEPT ![t].phase = "entering", ![t].user = u]
  /\ UNCHANGED <<app, stored, issued, expired, data, foreign>>

\* logout: this tab's state and the keys all tabs share.
Logout(t) ==
  /\ tab[t].phase = "in"
  /\ Goes(t, Form, 0)
  /\ UNCHANGED <<app, issued, expired>>

-----------------------------------------------------------------------------
(* WHO: the calls of a tab, as they are answered.                          *)

\* Slip: the check of a stored token does not look at the role.
RestoresAny(u) == TRUE

\* provider-app and the admin console look at the role of a restored session.
Restores(u) ==
  CASE app = "client"   -> TRUE
    [] app = "provider" -> RoleOf[u] \in {"PROVIDER", "ADMIN"}
    [] app = "admin"    -> RoleOf[u] = "ADMIN"

\* Only the admin console looks at it after a sign-in.
Enters(u) == app = "admin" => RoleOf[u] = "ADMIN"

\* getMe on mount.  Any failure, a role that will not do included, clears the
\* store, whatever it holds by now.
Restored(t) ==
  /\ tab[t].phase = "checking"
  /\ Valid(tab[t].token)
  /\ LET u == issued[tab[t].token]
     IN  IF Restores(u)
         THEN /\ tab' = [tab EXCEPT ![t] = [Form EXCEPT !.phase = "in", !.user = u,
                                                        !.restored = TRUE]]
              /\ UNCHANGED <<stored, data, foreign>>
         ELSE Goes(t, Form, 0)
  /\ UNCHANGED <<app, issued, expired>>

CheckFails(t) ==
  /\ tab[t].phase = "checking"
  /\ Goes(t, Form, 0)
  /\ UNCHANGED <<app, issued, expired>>

\* Slips: login's two tokens are swapped, and refresh tokens are numbered past
\* the access tokens; a token found in the store is kept.
StoredRefresh(n) == n + MaxSignIns
StoredFirst(n) == IF stored = 0 THEN n ELSE stored

\* setItem
Stored(n) == n

\* login or register, of auth-service: wrong credentials and a taken address
\* aside, the user gets tokens, whatever tokens are about.
SignedIn(u) ==
  /\ Len(issued) < MaxSignIns
  /\ issued' = Append(issued, u)

\* POST /login or /register succeeds: the token is stored before getMe.
Issued(t) ==
  LET n == Len(issued) + 1
  IN  /\ tab[t].phase = "entering"
      /\ SignedIn(tab[t].user)
      /\ Goes(t, [Form EXCEPT !.phase = "proving", !.token = n], Stored(n))
      /\ UNCHANGED <<app, expired>>

\* Wrong credentials, or no answer.  The admin console clears the token even
\* then, be it another tab's.
SignInFails(t) ==
  /\ tab[t].phase = "entering"
  /\ Goes(t, Form, IF app = "admin" THEN 0 ELSE stored)
  /\ UNCHANGED <<app, issued, expired>>

\* getMe after the sign-in.
Proven(t) ==
  /\ tab[t].phase = "proving"
  /\ Valid(tab[t].token)
  /\ LET u == issued[tab[t].token]
     IN  IF Enters(u)
         THEN /\ tab' = [tab EXCEPT ![t] = [Form EXCEPT !.phase = "in", !.user = u]]
              /\ UNCHANGED <<stored, data, foreign>>
         ELSE Goes(t, Form, 0)
  /\ UNCHANGED <<app, issued, expired>>

\* It fails: only the admin console gives the new token up.
ProofFails(t) ==
  /\ tab[t].phase = "proving"
  /\ Goes(t, Form, IF app = "admin" THEN 0 ELSE stored)
  /\ UNCHANGED <<app, issued, expired>>

\* The interceptor: a call carries the token in the store as it is made.
Bearer == stored

\* The lists of orders; a refusal leaves what was there.
List(t) ==
  /\ tab[t].phase = "in"
  /\ \E u \in Users : /\ CanActivate(Bearer, u)
                      /\ data' = [data EXCEPT ![t] = u]
  /\ UNCHANGED <<app, stored, issued, expired, tab, foreign>>

(* WHO: the clock.                                                         *)
Expire(n) ==
  /\ Valid(n)
  /\ expired' = expired \cup {n}
  /\ UNCHANGED <<app, stored, issued, tab, data, foreign>>

Next ==
  \/ \E t \in Tabs : \/ Open(t) \/ Logout(t) \/ Restored(t) \/ CheckFails(t) \/ Issued(t)
                     \/ SignInFails(t) \/ Proven(t) \/ ProofFails(t) \/ List(t)
  \/ \E t \in Tabs, u \in Users : Submit(t, u)
  \/ \E n \in 1..MaxSignIns : Expire(n)

Spec == Init /\ [][Next]_vars

-----------------------------------------------------------------------------
TypeOK ==
  /\ app     \in Apps
  /\ stored  \in 0..Len(issued)
  /\ issued  \in Seq(Users) /\ Len(issued) <= MaxSignIns
  /\ expired \in SUBSET (1..Len(issued))
  /\ tab     \in [Tabs -> Tab]
  /\ data    \in [Tabs -> Users \cup {Nobody}]
  /\ foreign \in [Tabs -> BOOLEAN]

\* A tab shows somebody else's orders only after another tab has changed the
\* token they share (the calls read localStorage, the user is the tab's own).
OrdersOfTheUserShown ==
  \A t \in Tabs : data[t] \notin {Nobody, tab[t].user} => foreign[t]

\* Nobody is inside an application that is not for their role ("Only
\* providers/admins can use this app"), except in provider-app between the
\* sign-in, which looks at no role, and the next mount; whatever other tabs do.
InsideByRole ==
  \A t \in Tabs : tab[t].phase = "in" =>
    \/ app = "client"
    \/ RoleOf[tab[t].user] = "ADMIN"
    \/ app = "provider" /\ (RoleOf[tab[t].user] = "PROVIDER" \/ ~tab[t].restored)
=============================================================================
