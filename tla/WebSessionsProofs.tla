------------------------- MODULE WebSessionsProofs -------------------------
(***************************************************************************)
(* Theorems about the three web applications, for any number of tabs,      *)
(* users and sign-ins.                                                     *)
(*                                                                         *)
(* Whose orders a tab shows depends on the token all tabs share, so the    *)
(* invariant says what the token is for a tab that has it to itself: the   *)
(* one the tab is checking, and later the one of the user it shows         *)
(* (OwnToken).                                                             *)
(***************************************************************************)
EXTENDS WebSessions, TLAPS

\* Nothing is listed but inside.
ListedInside == \A t \in Tabs : data[t] # Nobody => tab[t].phase = "in"

\* What the stored token is to a tab while no other tab has touched it.
OwnToken ==
  \A t \in Tabs : ~foreign[t] =>
    /\ tab[t].phase \in {"checking", "proving"} => stored = tab[t].token
    /\ tab[t].phase = "in" /\ stored # 0 => issued[stored] = tab[t].user

\* Who signs in is a person.
EnteringIsSomebody == \A t \in Tabs : tab[t].phase = "entering" => tab[t].user \in Users

IInv ==
  /\ TypeOK /\ EnteringIsSomebody
  /\ InsideByRole /\ ListedInside
  /\ OwnToken /\ OrdersOfTheUserShown

-----------------------------------------------------------------------------
(* Lemmas about the operators.                                             *)

LEMMA FormShape ==
  /\ Form \in Tab /\ Absent \in Tab
  /\ Form.phase = "form" /\ Absent.phase = "closed"
  /\ Form.user = Nobody
  BY DEF Form, Absent, Tab

\* What a tab may go on as.
LEMMA Forms ==
  /\ \A n \in Nat : /\ [Form EXCEPT !.phase = "checking", !.token = n] \in Tab
                    /\ [Form EXCEPT !.phase = "proving", !.token = n] \in Tab
  /\ \A u \in Users : /\ [Form EXCEPT !.phase = "in", !.user = u, !.restored = TRUE] \in Tab
                      /\ [Form EXCEPT !.phase = "in", !.user = u] \in Tab
  BY DEF Form, Tab

\* A token once issued stays its user's.
LEMMA SignedInGrows ==
  ASSUME TypeOK, NEW u \in Users, SignedIn(u)
  PROVE  /\ issued' \in Seq(Users) /\ Len(issued') <= MaxSignIns
         /\ Len(issued') = Len(issued) + 1
         /\ \A i \in 1..Len(issued) : issued'[i] = issued[i]
  BY NobodyAssumption DEF TypeOK, SignedIn

\* A valid token is somebody's.
LEMMA ValidIsSomebodys ==
  ASSUME TypeOK, NEW n \in Nat, Valid(n)
  PROVE  n \in 1..Len(issued) /\ issued[n] \in Users
  BY DEF TypeOK, Valid

\* A tab that goes on keeps nothing it has listed, and the others learn of a
\* new token.
LEMMA Goings ==
  ASSUME IInv, NEW t \in Tabs, NEW s \in Tab, NEW token \in Nat, Goes(t, s, token)
  PROVE  /\ tab' \in [Tabs -> Tab]
         /\ data' \in [Tabs -> Users \cup {Nobody}]
         /\ foreign' \in [Tabs -> BOOLEAN]
         /\ tab'[t] = s /\ data'[t] = Nobody /\ ~foreign'[t] /\ stored' = token
         /\ \A u \in Tabs \ {t} :
              /\ tab'[u] = tab[u] /\ data'[u] = data[u]
              /\ foreign[u] => foreign'[u]
              /\ ~foreign'[u] => stored' = stored
  BY DEF IInv, TypeOK, Goes

\* It preserves the invariant if it fits the application and the token.
LEMMA IInvGoes ==
  ASSUME IInv, NEW t \in Tabs, NEW s \in Tab, NEW token \in Nat, Goes(t, s, token),
         issued' \in Seq(Users), Len(issued') <= MaxSignIns, Len(issued) <= Len(issued'),
         \A i \in 1..Len(issued) : issued'[i] = issued[i],
         token <= Len(issued'), UNCHANGED <<app, expired>>,
         s.phase \notin {"in", "entering"},
         s.phase \in {"checking", "proving"} => token = s.token
  PROVE  IInv'
  <1> USE Goings
  <1>1. TypeOK'
    BY DEF IInv, TypeOK
  <1>2. InsideByRole'
    BY DEF IInv, InsideByRole
  <1>3. ListedInside'
    BY DEF IInv, ListedInside
  <1>4. OwnToken'
    BY DEF IInv, OwnToken, TypeOK
  <1>5. OrdersOfTheUserShown'
    BY DEF IInv, OrdersOfTheUserShown
  <1>6. EnteringIsSomebody'
    BY DEF IInv, EnteringIsSomebody
  <1> QED
    BY <1>1, <1>2, <1>3, <1>4, <1>5, <1>6 DEF IInv

\* A tab that lets the user of its token in.
LEMMA IInvEnters ==
  ASSUME IInv, NEW t \in Tabs, NEW s \in Tab,
         tab[t].phase \in {"checking", "proving"}, Valid(tab[t].token),
         tab' = [tab EXCEPT ![t] = s],
         s.phase = "in", s.user = issued[tab[t].token],
         s.restored => Restores(s.user), Enters(s.user) \/ Restores(s.user),
         UNCHANGED <<app, stored, issued, expired, data, foreign>>
  PROVE  IInv'
  <1> USE DEF IInv
  <1>1. /\ tab[t].token \in Nat
        /\ tab' \in [Tabs -> Tab] /\ tab'[t] = s
        /\ \A u \in Tabs \ {t} : tab'[u] = tab[u]
    BY DEF TypeOK, Tab
  <1>2. s.user \in Users
    BY <1>1, ValidIsSomebodys
  <1>3. data[t] = Nobody
    BY DEF ListedInside
  <1>4. TypeOK'
    BY <1>1 DEF TypeOK
  <1>5. InsideByRole'
    <2> SUFFICES ASSUME app # "client" 
                 PROVE  \/ RoleOf[s.user] = "ADMIN"
                        \/ app = "provider" /\ (RoleOf[s.user] = "PROVIDER" \/ ~s.restored)
      BY <1>1 DEF InsideByRole
    <2>1. CASE app = "provider"
      BY <2>1 DEF Restores
    <2>2. CASE app = "admin"
      BY <2>2 DEF Restores, Enters
    <2> QED
      BY <2>1, <2>2 DEF TypeOK, Apps
  <1>6. ListedInside'
    BY <1>1 DEF ListedInside
  <1>7. OwnToken'
    BY <1>1 DEF OwnToken
  <1>8. OrdersOfTheUserShown'
    BY <1>1, <1>3 DEF OrdersOfTheUserShown
  <1>9. EnteringIsSomebody'
    BY <1>1 DEF EnteringIsSomebody
  <1> QED
    BY <1>4, <1>5, <1>6, <1>7, <1>8, <1>9

-----------------------------------------------------------------------------
(* The invariant.                                                          *)

LEMMA IInvInit ==
  ASSUME Init
  PROVE  IInv
  <1>1. TypeOK
    BY FormShape, NobodyAssumption DEF Init, TypeOK
  <1>2. \A t \in Tabs : tab[t] = Absent /\ data[t] = Nobody
    BY DEF Init
  <1> QED
    BY <1>1, <1>2, FormShape
       DEF IInv, EnteringIsSomebody, InsideByRole, ListedInside, OwnToken, OrdersOfTheUserShown

\* Every step of a tab but its sign-in and its listing of orders goes on, or in.
LEMMA IInvPerson ==
  ASSUME IInv, NEW t \in Tabs,
         Open(t) \/ Logout(t) \/ CheckFails(t) \/ SignInFails(t) \/ ProofFails(t)
  PROVE  IInv'
  <1> USE DEF IInv
  <1>1. stored \in Nat /\ stored <= Len(issued) /\ Len(issued) \in Nat
    BY DEF TypeOK
  <1>2. /\ issued \in Seq(Users) /\ Len(issued) <= MaxSignIns
    BY DEF TypeOK
  <1>3. PICK s \in Tab, token \in {0, stored} :
          /\ Goes(t, s, token)
          /\ s.phase \notin {"in", "entering"} /\ (s.phase \in {"checking", "proving"} => token = s.token)
    <2>1. CASE Open(t) /\ stored # 0
      <3> DEFINE s == [Form EXCEPT !.phase = "checking", !.token = stored]
      <3>1. s \in Tab /\ s.phase = "checking" /\ s.token = stored
        BY <1>1, Forms DEF Form
      <3> QED BY <2>1, <3>1 DEF Open
    <2>2. CASE ~(Open(t) /\ stored # 0)
      <3>1. \E token \in {0, stored} : Goes(t, Form, token)
        BY <2>2 DEF Open, Logout, CheckFails, SignInFails, ProofFails
      <3> QED BY <3>1, FormShape
    <2> QED BY <2>1, <2>2
  <1>4. UNCHANGED <<app, issued, expired>>
    BY DEF Open, Logout, CheckFails, SignInFails, ProofFails
  <1> QED
    BY <1>1, <1>2, <1>3, <1>4, IInvGoes

LEMMA IInvIssued ==
  ASSUME IInv, NEW t \in Tabs, Issued(t)
  PROVE  IInv'
  <1> DEFINE n == Len(issued) + 1
             s == [Form EXCEPT !.phase = "proving", !.token = n]
  <1>1. n \in Nat
    BY DEF IInv, TypeOK
  <1>2. s \in Tab /\ s.phase = "proving" /\ s.token = n
    BY <1>1, Forms DEF Form
  <1>3. Goes(t, s, n) /\ SignedIn(tab[t].user) /\ UNCHANGED <<app, expired>>
    BY DEF Issued, Stored
  <1>4. tab[t].user \in Users
    BY DEF IInv, EnteringIsSomebody, Issued
  <1>5. /\ issued' \in Seq(Users) /\ Len(issued') <= MaxSignIns /\ Len(issued') = n
        /\ \A i \in 1..Len(issued) : issued'[i] = issued[i]
    BY <1>3, <1>4, SignedInGrows DEF IInv
  <1>6. s.phase \notin {"in", "entering"}
    BY <1>2
  <1> HIDE DEF s
  <1> QED
    BY <1>1, <1>2, <1>3, <1>5, <1>6, IInvGoes

\* getMe, on mount or after the sign-in, lets the user in or signs out.
LEMMA IInvAnswered ==
  ASSUME IInv, NEW t \in Tabs, Restored(t) \/ Proven(t)
  PROVE  IInv'
  <1> DEFINE u == issued[tab[t].token]
  <1>1. /\ tab[t].phase \in {"checking", "proving"} /\ Valid(tab[t].token)
        /\ UNCHANGED <<app, issued, expired>>
    BY DEF Restored, Proven
  <1>2. tab[t].token \in Nat
    BY DEF IInv, TypeOK, Tab
  <1>3. u \in Users
    BY <1>1, <1>2, ValidIsSomebodys DEF IInv
  <1>4. CASE Restored(t) /\ Restores(u)
    <2> DEFINE s == [Form EXCEPT !.phase = "in", !.user = u, !.restored = TRUE]
    <2>1. s \in Tab /\ s.phase = "in" /\ s.user = u
      BY <1>3, Forms DEF Form
    <2>2. tab' = [tab EXCEPT ![t] = s] /\ UNCHANGED <<stored, data, foreign>>
      BY <1>4 DEF Restored
    <2> HIDE DEF s
    <2> QED BY <1>1, <1>4, <2>1, <2>2, IInvEnters
  <1>5. CASE Proven(t) /\ Enters(u)
    <2> DEFINE s == [Form EXCEPT !.phase = "in", !.user = u]
    <2>1. s \in Tab /\ s.phase = "in" /\ s.user = u /\ ~s.restored
      BY <1>3, Forms DEF Form
    <2>2. tab' = [tab EXCEPT ![t] = s] /\ UNCHANGED <<stored, data, foreign>>
      BY <1>5 DEF Proven
    <2> HIDE DEF s
    <2> QED BY <1>1, <1>5, <2>1, <2>2, IInvEnters
  <1>6. CASE \/ Restored(t) /\ ~Restores(u)
             \/ Proven(t) /\ ~Enters(u)
    <2>1. Goes(t, Form, 0)
      BY <1>6 DEF Restored, Proven
    <2> QED
      BY <1>1, <2>1, FormShape, IInvGoes DEF IInv, TypeOK
  <1> QED
    BY <1>4, <1>5, <1>6

\* The call goes out with the shared token: unless another tab has changed it,
\* that is the token of the user shown.
LEMMA IInvList ==
  ASSUME IInv, NEW t \in Tabs, List(t)
  PROVE  IInv'
  <1>1. PICK u \in Users : /\ CanActivate(stored, u)
                          /\ data' = [data EXCEPT ![t] = u]
    BY DEF List, Bearer
  <1>2. /\ tab[t].phase = "in"
        /\ UNCHANGED <<app, stored, issued, expired, tab, foreign>>
    BY DEF List
  <1>3. ~foreign[t] => u = tab[t].user
    BY <1>1, <1>2 DEF IInv, OwnToken, CanActivate
  <1> QED
    BY <1>1, <1>2, <1>3
       DEF IInv, TypeOK, EnteringIsSomebody, InsideByRole, ListedInside, OwnToken,
           OrdersOfTheUserShown

LEMMA IInvSubmit ==
  ASSUME IInv, NEW t \in Tabs, NEW u \in Users, Submit(t, u)
  PROVE  IInv'
  <1>1. /\ tab' = [tab EXCEPT ![t] = [tab[t] EXCEPT !.phase = "entering", !.user = u]]
        /\ UNCHANGED <<app, stored, issued, expired, data, foreign>>
        /\ tab[t].phase = "form"
    BY DEF Submit, MaySubmit
  <1>2. /\ [tab[t] EXCEPT !.phase = "entering", !.user = u] \in Tab
        /\ tab'[t].phase = "entering" /\ tab'[t].user = u
        /\ \A v \in Tabs \ {t} : tab'[v] = tab[v]
    BY <1>1 DEF IInv, TypeOK, Tab
  <1>3. data[t] = Nobody
    BY <1>1 DEF IInv, ListedInside
  <1> QED
    BY <1>1, <1>2, <1>3
       DEF IInv, TypeOK, EnteringIsSomebody, InsideByRole, ListedInside, OwnToken,
           OrdersOfTheUserShown

LEMMA IInvUnmoved ==
  ASSUME IInv, UNCHANGED <<app, stored, issued, tab, data, foreign>>,
         expired' \in SUBSET (1..Len(issued))
  PROVE  IInv'
  BY DEF IInv, TypeOK, EnteringIsSomebody, InsideByRole, Restores, ListedInside, OwnToken,
         OrdersOfTheUserShown

LEMMA IInvStep ==
  ASSUME IInv, [Next]_vars
  PROVE  IInv'
  <1>1. ASSUME NEW t \in Tabs,
               \/ Open(t) \/ Logout(t) \/ Restored(t) \/ CheckFails(t) \/ Issued(t)
               \/ SignInFails(t) \/ Proven(t) \/ ProofFails(t) \/ List(t)
        PROVE  IInv'
    BY <1>1, IInvPerson, IInvIssued, IInvAnswered, IInvList
  <1>2. ASSUME NEW t \in Tabs, NEW u \in Users, Submit(t, u)
        PROVE  IInv'
    BY <1>2, IInvSubmit
  <1>3. ASSUME NEW n \in 1..MaxSignIns, Expire(n)
        PROVE  IInv'
    <2>1. n \in 1..Len(issued)
      BY <1>3, NobodyAssumption, ValidIsSomebodys DEF IInv, Expire
    <2> QED
      BY <1>3, <2>1, IInvUnmoved DEF IInv, TypeOK, Expire
  <1>4. CASE UNCHANGED vars
    BY <1>4, IInvUnmoved DEF vars, IInv, TypeOK
  <1> QED
    BY <1>1, <1>2, <1>3, <1>4 DEF Next

LEMMA Invariance == Spec => []IInv
  BY IInvInit, IInvStep, PTL DEF Spec

-----------------------------------------------------------------------------
(* The theorems.                                                           *)

\* The stored token is one that was issued, and every tab is at a stage the
\* three applications know.
THEOREM TypeCorrect == Spec => []TypeOK
  BY Invariance, PTL DEF IInv

\* Nobody is inside an application that is not for their role, whatever other
\* tabs of it do, except in provider-app between the sign-in and the next mount
\* (handleSubmit and the effects of the three applications that call getMe).
THEOREM InsideByRoleHolds == Spec => []InsideByRole
  BY Invariance, PTL DEF IInv

\* A tab that shows somebody else's orders shares its token with a tab that has
\* changed it: alone, each of the three applications shows the orders of the
\* user it names, however tokens expire and calls fail.
THEOREM OrdersOfTheUserShownHolds == Spec => []OrdersOfTheUserShown
  BY Invariance, PTL DEF IInv
=============================================================================
