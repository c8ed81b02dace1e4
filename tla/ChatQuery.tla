----------------------------- MODULE ChatQuery -----------------------------
(***************************************************************************)
(* The read side of the chat: the JetStream consumer "chat-projection"     *)
(* created by chat/query/main.go and the projection it builds with         *)
(* chat/query/service/consumer.go in the table message_projections.        *)
(*                                                                         *)
(* The consumer is configured with a Name and no Durable name, so it lives *)
(* on the server only while the process is there or came back within the   *)
(* inactive threshold (5 s). It starts with the next new event             *)
(* (DeliverNewPolicy), and the stream keeps an event only for the          *)
(* consumers that exist (InterestPolicy).                                  *)
(***************************************************************************)
EXTENDS Naturals, Sequences

CONSTANTS
    Messages, Contents, None,
    MaxDeliver,          \* MaxDeliver of the consumer (3)
    Faults, MaxFaults    \* failures a run may meet, and how many

VARIABLES
    stream,      \* the events of CHAT_EVENTS, in order; written by ChatCommand
    consumer,    \* the consumer exists on the server
    next,        \* stream position it delivers next
    unacked,     \* the deliveries it waits to be acknowledged
    up,          \* the query service is running
    inbox,       \* stream positions delivered to its client library, in order
    handled,     \* the handler is done with the first of them, not yet acked
    view,        \* message_projections
    seen,        \* history: positions the handler has been called with
    faults

queryVars == <<consumer, next, unacked, up, inbox, handled, view, seen>>

NoView == [status |-> "absent", content |-> None]

Fault(kind) == kind \in Faults /\ faults < MaxFaults /\ faults' = faults + 1

\* Mutant of Upsert: ON CONFLICT also sets deleted_at = NULL.
Upsert_Revives(ev) ==
    view' = [view EXCEPT ![ev.id] = [status |-> "live", content |-> ev.content]]

\* ON CONFLICT DO UPDATE leaves deleted_at as it is.
Upsert(ev) ==
    view' = [view EXCEPT ![ev.id] =
                [status |-> IF @.status = "deleted" THEN "deleted" ELSE "live",
                 content |-> ev.content]]

\* Both require deleted_at IS NULL; the error of a missing row is only logged.
UpdateContent(ev) ==
    view' = IF view[ev.id].status = "live"
            THEN [view EXCEPT ![ev.id].content = ev.content] ELSE view

\* Mutant of SoftDelete: the deletion is dropped.
SoftDelete_Dropped(ev) == UNCHANGED view

SoftDelete(ev) ==
    view' = IF view[ev.id].status = "live"
            THEN [view EXCEPT ![ev.id].status = "deleted"] ELSE view

\* Handle dispatches on the type of the event.
Apply(ev) ==
    \/ ev.type = "new_message"     /\ Upsert(ev)
    \/ ev.type = "updated_message" /\ UpdateContent(ev)
    \/ ev.type = "deleted_message" /\ SoftDelete(ev)

\* A delivery the server waits to be acknowledged: the n-th of the event at
\* pos, and whether AckWait (30 s) has elapsed, so that it is to be repeated.
Delivery == [pos : Nat, n : Nat, due : BOOLEAN]

\* Mutant of Deliver: AckNonePolicy.
Deliver_AckNone ==
    /\ up /\ next <= Len(stream)
    /\ inbox' = Append(inbox, next)
    /\ next' = next + 1
    /\ UNCHANGED <<stream, consumer, unacked, up, handled, view, seen, faults>>

\* The server sends the next event to the connected client.
Deliver ==
    /\ up /\ next <= Len(stream)
    /\ unacked' = unacked \cup {[pos |-> next, n |-> 1, due |-> FALSE]}
    /\ inbox' = Append(inbox, next)
    /\ next' = next + 1
    /\ UNCHANGED <<stream, consumer, up, handled, view, seen, faults>>

\* The callback runs Handle on one delivery at a time. A failed statement is
\* logged and the handler returns as if it had succeeded.
Handle ==
    /\ up /\ inbox # <<>> /\ ~handled
    /\ \/ Apply(stream[Head(inbox)]) /\ UNCHANGED faults
       \/ Fault("projectionDb") /\ UNCHANGED view
    /\ handled' = TRUE
    /\ seen' = seen \cup {Head(inbox)}
    /\ UNCHANGED <<stream, consumer, next, unacked, up, inbox>>

\* msg.Ack() follows Handle unconditionally; the acknowledgement may get lost.
Ack ==
    /\ up /\ handled
    /\ \/ /\ unacked' = {d \in unacked : d.pos # Head(inbox)}
          /\ UNCHANGED faults
       \/ Fault("ackLost") /\ UNCHANGED unacked
    /\ inbox' = Tail(inbox)
    /\ handled' = FALSE
    /\ UNCHANGED <<stream, consumer, next, up, view, seen>>

\* AckWait elapses: nobody works on the delivery any more (the process that
\* had it is gone, its acknowledgement was lost), or the client is slow.
AckWaitElapses(d) ==
    /\ ~d.due
    /\ \/ ~(\E k \in DOMAIN inbox : inbox[k] = d.pos) /\ UNCHANGED faults
       \/ Fault("slow")
    /\ unacked' = (unacked \ {d}) \cup {[d EXCEPT !.due = TRUE]}
    /\ UNCHANGED <<stream, consumer, next, up, inbox, handled, view, seen>>

\* A due delivery is repeated, in stream order, until MaxDeliver: then the
\* server gives the event up.
Redeliver(d) ==
    /\ up /\ d.due
    /\ \A e \in unacked : e.due => d.pos <= e.pos
    /\ IF d.n < MaxDeliver
       THEN /\ inbox' = Append(inbox, d.pos)
            /\ unacked' = (unacked \ {d})
                   \cup {[pos |-> d.pos, n |-> d.n + 1, due |-> FALSE]}
       ELSE /\ unacked' = unacked \ {d}
            /\ UNCHANGED inbox
    /\ UNCHANGED <<stream, consumer, next, up, handled, view, seen, faults>>

\* The query service stops, with whatever its client library held.
QueryStop ==
    /\ up /\ Fault("queryCrash")
    /\ up' = FALSE
    /\ inbox' = <<>> /\ handled' = FALSE
    /\ UNCHANGED <<stream, consumer, next, unacked, view, seen>>

\* It stays away longer than the inactive threshold.
ConsumerExpires ==
    /\ ~up /\ consumer /\ "consumerExpires" \in Faults
    /\ consumer' = FALSE
    /\ unacked' = {}
    /\ UNCHANGED <<stream, next, up, inbox, handled, view, seen, faults>>

\* main: CreateOrUpdateConsumer finds the consumer or makes a new one.
QueryStart ==
    /\ ~up
    /\ up' = TRUE /\ consumer' = TRUE
    /\ next' = IF consumer THEN next ELSE Len(stream) + 1
    /\ UNCHANGED <<stream, unacked, inbox, handled, view, seen, faults>>

QueryInit ==
    /\ consumer = TRUE /\ next = 1 /\ unacked = {}
    /\ up = TRUE /\ inbox = <<>> /\ handled = FALSE
    /\ view = [m \in Messages |-> NoView]
    /\ seen = {}

QueryNext ==
    \/ Deliver \/ Handle \/ Ack
    \/ \E d \in unacked : AckWaitElapses(d) \/ Redeliver(d)
    \/ QueryStop \/ ConsumerExpires \/ QueryStart
=============================================================================
