----------------------------- MODULE EventFeed -----------------------------
(***************************************************************************)
(* The activity screen of the client application (EventFeed), over the     *)
(* notification service.  Opening it does two things at once: it fetches   *)
(* the history, whose answer replaces the list, and it subscribes to the   *)
(* stream, whose messages go in front of it.  A broken stream is closed    *)
(* and opened again three seconds later; the history is not fetched again. *)
(* Each of the two requests is answered by any replica that is up.         *)
(***************************************************************************)
EXTENDS Notifications

VARIABLE feed    \* the screen

vars == <<service, stream, disturbances, feed>>

\* from, read and blind are history: who answered the fetch, how many
\* notifications there were when it read, and how many when its answer came or
\* the stream was opened, whichever was last.  Limpiar gives up what was loaded.
Closed == [open |-> FALSE, list |-> <<>>, fetch |-> "none", answer |-> <<>>,
           status |-> "disconnected", from |-> Nobody, read |-> 0, blind |-> 0]

Init == ServiceInit /\ feed = Closed

-----------------------------------------------------------------------------
(* WHO: the user.                                                          *)

\* The tab is chosen: the component mounts with an empty list.
Open ==
  /\ ~feed.open
  /\ feed' = [Closed EXCEPT !.open = TRUE, !.fetch = "asked", !.status = "connecting"]
  /\ UNCHANGED <<service, stream, disturbances>>

\* The cleanup closes the stream.  The fetch goes on, to nobody's use.
Leave ==
  /\ feed.open
  /\ feed' = Closed
  /\ stream' = NoStream
  /\ UNCHANGED <<service, disturbances>>

Limpiar ==
  /\ feed.list # <<>>
  /\ feed' = [feed EXCEPT !.list = <<>>, !.blind = consumed,
                          !.read = IF feed.fetch = "done" THEN 0 ELSE @]
  /\ UNCHANGED <<service, stream, disturbances>>

-----------------------------------------------------------------------------
(* WHO: the fetch of the history.                                          *)

\* findAll
ReadHistory(r) ==
  /\ feed.fetch = "asked"
  /\ replica[r] # "off"
  /\ feed' = [feed EXCEPT !.fetch = "answered", !.answer = history[r],
                          !.from = r, !.read = consumed]
  /\ UNCHANGED <<service, stream, disturbances>>

\* setEvents(body.data)
LoadHistory ==
  /\ feed.fetch = "answered"
  /\ feed' = [feed EXCEPT !.list = feed.answer, !.answer = <<>>,
                          !.fetch = "done", !.blind = consumed]
  /\ UNCHANGED <<service, stream, disturbances>>

\* .catch(() => {})
FetchFails ==
  /\ feed.fetch \in {"asked", "answered"}
  /\ feed' = [feed EXCEPT !.fetch = "failed", !.answer = <<>>, !.from = Nobody, !.read = 0]
  /\ UNCHANGED <<service, stream, disturbances>>

-----------------------------------------------------------------------------
(* WHO: the EventSource.                                                   *)

\* Slip: the service's Subject is a ReplaySubject.
SubscribeReplay(r) ==
  /\ feed.status = "connecting"
  /\ replica[r] # "off"
  /\ stream' = [to |-> r, inbox |-> Reverse(history[r])]
  /\ feed' = [feed EXCEPT !.status = "connected", !.blind = consumed]
  /\ UNCHANGED <<service, disturbances>>

\* connect, as the service sees it: from now on the subscriber gets what is new.
Subscribe(r) ==
  /\ feed.status = "connecting"
  /\ replica[r] # "off"
  /\ stream' = [to |-> r, inbox |-> <<>>]
  /\ feed' = [feed EXCEPT !.status = "connected", !.blind = consumed]
  /\ UNCHANGED <<service, disturbances>>

\* onmessage
Deliver ==
  /\ stream.inbox # <<>>
  /\ feed' = [feed EXCEPT !.list = Capped(<<Head(stream.inbox)>> \o @)]
  /\ stream' = [stream EXCEPT !.inbox = Tail(@)]
  /\ UNCHANGED <<service, disturbances>>

\* onerror, and setTimeout(connect, 3000): the connection is lost, or its
\* replica is gone, and with it what was on its way.
Break ==
  /\ feed.status = "connected"
  /\ IF stream.to = Nobody THEN UNCHANGED disturbances ELSE Disturb
  /\ stream' = NoStream
  /\ feed' = [feed EXCEPT !.status = "connecting"]
  /\ UNCHANGED service

-----------------------------------------------------------------------------
Next ==
  \/ ServiceNext /\ UNCHANGED feed
  \/ Open \/ Leave \/ Limpiar
  \/ LoadHistory \/ FetchFails \/ Deliver \/ Break
  \/ \E r \in Replicas : ReadHistory(r) \/ Subscribe(r)

\* Kubernetes starts what has stopped, the broker assigns a partition without
\* an owner, consumers go on.  Nothing is said of people or of the screen.
Spec ==
  /\ Init /\ [][Next]_vars
  /\ \A r \in Replicas :
       /\ WF_vars(Start(r) /\ UNCHANGED feed)
       /\ \A p \in Partitions : WF_vars(HandleMessage(r, p) /\ UNCHANGED feed)
  /\ \A p \in Partitions :
       WF_vars(owner[p] = Nobody /\ (\E r \in Replicas : Assign(p, r)) /\ UNCHANGED feed)

-----------------------------------------------------------------------------
TypeOK ==
  /\ ServiceTypeOK
  /\ feed.open \in BOOLEAN
  /\ feed.list \in Seq(Notification) /\ Len(feed.list) <= MaxHistory
  /\ feed.answer \in Seq(Notification)
  /\ feed.fetch \in {"none", "asked", "answered", "done", "failed"}
  /\ feed.status \in {"disconnected", "connecting", "connected"}
  /\ feed.from \in Replicas \cup {Nobody}
  /\ feed.read \in 0 .. consumed /\ feed.blind \in 0 .. consumed

\* A screen whose history has been loaded shows every notification that the
\* replica it listens to remembers, or will in a moment, unless the list is
\* full, Limpiar removed it, or it was made in the blind spot: after the
\* history was read, and before its answer replaced the list or before the
\* stream was last opened (the effects of EventFeed.tsx).
FeedComplete ==
  feed.fetch = "done" /\ stream.to # Nobody /\ stream.to = feed.from =>
    \A n \in ToSet(history[stream.to]) :
      \/ n \in ToSet(feed.list) \/ n \in ToSet(stream.inbox)
      \/ Len(feed.list) = MaxHistory
      \/ feed.read < n.id /\ n.id <= feed.blind

\* A notification has two cards only when the history that was read already
\* held it and the stream delivered it as well; opening the stream again repeats
\* none (EventFeed.tsx, where the two cards get the same React key).
TwiceOnlyIfRead ==
  \A i, j \in DOMAIN feed.list :
    i < j /\ feed.list[i] = feed.list[j] => feed.list[i].id <= feed.read
=============================================================================
