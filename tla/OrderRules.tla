----------------------------- MODULE OrderRules -----------------------------
(***************************************************************************)
(* The rules of an order, which updateStatus applies to the row it read:   *)
(* who may take it from which status to which, and what becomes of its     *)
(* dates.  Nothing here has a state.                                       *)
(***************************************************************************)
CONSTANTS
  Users,      \* the identities a bearer token may carry (JwtAuthGuard)
  Dates,      \* dates a client asks for or a provider proposes
  NoDate      \* SQL NULL in proposedDate

ASSUME NoDateAssumption == NoDate \notin Dates

Status == {"PENDING", "CONFIRMED", "IN_PROGRESS", "COMPLETED", "CANCELLED",
           "RESCHEDULE_PROPOSED"}

\* A status update-order-status.dto.ts lets a caller ask for.
AllowedTransition == Status \ {"PENDING"}

\* TRANSITIONS, as pairs of a status and one it may go to.
Table ==
  {<<"PENDING", "CONFIRMED">>, <<"PENDING", "CANCELLED">>,
   <<"PENDING", "RESCHEDULE_PROPOSED">>,
   <<"RESCHEDULE_PROPOSED", "CONFIRMED">>, <<"RESCHEDULE_PROPOSED", "CANCELLED">>,
   <<"CONFIRMED", "IN_PROGRESS">>, <<"CONFIRMED", "CANCELLED">>,
   <<"IN_PROGRESS", "COMPLETED">>, <<"IN_PROGRESS", "CANCELLED">>}

\* Slips: a cancelled order that can be confirmed again, a confirmed one that
\* can be rescheduled again.
TransitionsReopening   == Table \cup {<<"CANCELLED", "CONFIRMED">>}
TransitionsReproposing == Table \cup {<<"CONFIRMED", "RESCHEDULE_PROPOSED">>}

Transitions == Table

ProviderOnly ==
  {<<"PENDING", "CONFIRMED">>, <<"PENDING", "RESCHEDULE_PROPOSED">>,
   <<"CONFIRMED", "IN_PROGRESS">>, <<"IN_PROGRESS", "COMPLETED">>}

ClientOnly == {<<"RESCHEDULE_PROPOSED", "CONFIRMED">>}

\* The statuses TRANSITIONS gives no way out of.
Terminal == {"COMPLETED", "CANCELLED"}

-----------------------------------------------------------------------------
(* The checks and edits updateStatus makes between its findOne and its     *)
(* save, with no await among them.                                         *)

\* Slip: the client's acceptance may come from the provider.
PermittedToEither(row, actor, to, date) ==
  /\ actor \in {row.client, row.provider}
  /\ <<row.status, to>> \in Transitions
  /\ <<row.status, to>> \in ProviderOnly => actor = row.provider
  /\ to = "RESCHEDULE_PROPOSED" => date # NoDate

\* 404, 403 for a stranger, 400 for a transition, 403 for the wrong party,
\* 400 for a proposal without a date: the request goes on when none applies.
Permitted(row, actor, to, date) ==
  LET step == <<row.status, to>>
  IN  /\ actor \in {row.client, row.provider}
      /\ step \in Transitions
      /\ step \in ProviderOnly => actor = row.provider
      /\ step \in ClientOnly   => actor = row.client
      /\ to = "RESCHEDULE_PROPOSED" => date # NoDate

\* Slips: any confirmation takes over the proposed date, null or not; a
\* proposal moves the service at once; an accepted proposal stays open.
EditedOnAnyConfirmation(row, to, date) ==
  [row EXCEPT !.status    = to,
              !.scheduled = IF to = "CONFIRMED" THEN row.proposed ELSE @,
              !.proposed  = IF to = "RESCHEDULE_PROPOSED" THEN date ELSE NoDate]
EditedAtOnce(row, to, date) ==
  [row EXCEPT !.status    = to,
              !.scheduled = IF to = "RESCHEDULE_PROPOSED" THEN date ELSE @,
              !.proposed  = IF to = "RESCHEDULE_PROPOSED" THEN date ELSE NoDate]
EditedLeavingProposal(row, to, date) ==
  [row EXCEPT !.status    = to,
              !.scheduled = IF row.proposed # NoDate /\ to = "CONFIRMED"
                            THEN row.proposed ELSE @,
              !.proposed  = IF to = "RESCHEDULE_PROPOSED" THEN date ELSE @]

\* A proposal stores its date; accepting one moves it to scheduledDate.
Edited(row, to, date) ==
  LET accepts == row.status = "RESCHEDULE_PROPOSED" /\ to = "CONFIRMED"
  IN  [row EXCEPT
         !.status    = to,
         !.scheduled = IF accepts /\ row.proposed # NoDate THEN row.proposed ELSE @,
         !.proposed  = IF to = "RESCHEDULE_PROPOSED" THEN date
                       ELSE IF accepts THEN NoDate ELSE @]

-----------------------------------------------------------------------------
(* What repo.save then does with the edited copy: a SELECT of the row, and *)
(* an UPDATE of the columns that differ from it.                           *)

\* The columns updateStatus may change.
Column == {"status", "scheduled", "proposed"}

\* The columns repo.save finds different from the row it selects.
Changed(entity, row) == {c \in Column : entity[c] # row[c]}

\* The row after the UPDATE of those columns.
Overlay(row, entity, columns) ==
  [row EXCEPT
     !.status    = IF "status"    \in columns THEN entity.status    ELSE @,
     !.scheduled = IF "scheduled" \in columns THEN entity.scheduled ELSE @,
     !.proposed  = IF "proposed"  \in columns THEN entity.proposed  ELSE @]
=============================================================================
