--------------------------- MODULE ChatPipeline ---------------------------
(***************************************************************************)
(* The chat end to end: ChatCommand writes rows and events, the stream     *)
(* carries the events, ChatQuery turns them back into rows. The two        *)
(* services share nothing but the stream.                                  *)
(***************************************************************************)
EXTENDS ChatCommand

CONSTANT MaxDeliver

\* A body is told apart from the state of a message that has none.
ASSUME PipelineConstants ==
    /\ MaxDeliver \in Nat
    /\ "absent" \notin Contents /\ "deleted" \notin Contents

VARIABLES consumer, next, unacked, up, inbox, handled, view, seen

\* CHAT_EVENTS: the payloads of the outbox rows published so far.
Stream == [k \in DOMAIN log |-> outbox[log[k]].event]

Q == INSTANCE ChatQuery WITH stream <- Stream

queryVars    == <<consumer, next, unacked, up, inbox, handled, view, seen>>
pipelineVars == <<commandVars, queryVars>>

PipelineInit == CommandInit /\ Q!QueryInit

CommandStep == CommandNext /\ UNCHANGED queryVars

\* What the query service never writes.
commandSide == <<dbVars, roomVars, req, publisherVars, log>>

QueryStep == UNCHANGED commandSide /\ Q!QueryNext

PipelineNext == CommandStep \/ QueryStep

PipelineSpec == PipelineInit /\ [][PipelineNext]_pipelineVars

\* Weak fairness of what runs on its own: the publisher loop, the server's
\* deliveries and the callback. No failure, request or restart is fair, but a
\* process that stopped is started again (restartPolicy of its deployment).
PipelineFairness ==
    /\ WF_pipelineVars((Poll \/ SkipBackoff \/ PublishOk \/ IncrementRetry
                        \/ MarkPublished) /\ UNCHANGED queryVars)
    /\ WF_pipelineVars((\E i \in backoff : BackoffElapses(i))
                        /\ UNCHANGED queryVars)
    /\ WF_pipelineVars(UNCHANGED commandSide
                       /\ (Q!Deliver \/ Q!QueryStart))
    /\ WF_pipelineVars(UNCHANGED commandSide
                       /\ (Q!Handle \/ Q!Ack))
    /\ WF_pipelineVars(UNCHANGED commandSide
                       /\ (\E d \in unacked : Q!AckWaitElapses(d) \/ Q!Redeliver(d)))

FairPipelineSpec == PipelineSpec /\ PipelineFairness

----------------------------------------------------------------------------
(* Properties *)

\* What the projection shows of a message: GetById, ListByRoomId and the rest
\* filter on deleted_at IS NULL.
Shown(m) == CASE view[m].status = "live" -> view[m].content
              [] OTHER -> view[m].status

\* Everything a message has been: the outbox is a complete account of it.
Past(m) == {"absent"} \cup {Says(outbox[i].event) : i \in EventsOf(m)}

MV == INSTANCE MessageView WITH
          source <- [m \in Messages |-> Stored(m)],
          past   <- [m \in Messages |-> Past(m)],
          view   <- [m \in Messages |-> Shown(m)]

\* The pipeline implements the promise to readers, whatever fails: no torn,
\* invented or resurrected message (chat.go and consumer.go together).
ViewIsOfThePast == MV!ViewSpec

\* Everything committed has gone through every stage there is.
Drained ==
    /\ Pending = {} /\ batch = <<>>
    /\ next = Len(log) + 1 /\ unacked = {} /\ inbox = <<>> /\ up

\* If nothing failed and the transactions of each message did not overlap,
\* the projection equals chat_messages once the pipeline is drained: creating,
\* editing and deleting commute with publishing and consuming.
CalmConvergence ==
    faults = 0 /\ InCommitOrder /\ Drained
        => \A m \in Messages : Shown(m) = Stored(m)

\* As long as the consumer survives and the process died fewer than MaxDeliver
\* times, every event of the stream was handled or will be delivered: the
\* at-least-once part of the pipeline that the code does have.
AtLeastOnceWhileConsumerLives ==
    "consumerExpires" \notin Faults /\ faults < MaxDeliver =>
        \A k \in DOMAIN log :
            k \in seen \/ k >= next \/ \E d \in unacked : d.pos = k

\* Under fair scheduling the projection settles on the contents of
\* chat_messages, unless a failure or an overlap of transactions got in.
CalmEventuallyConverges ==
    <>[](faults = 0 /\ InCommitOrder
            => \A m \in Messages : Shown(m) = Stored(m))

\* chat.go: "The deletion is still propagated to the projection via the outbox
\* so the query side stays consistent".
DeletionIsPropagated ==
    Drained => \A m \in Messages :
                  rows[m].status = "deleted" => view[m].status # "live"
=============================================================================
