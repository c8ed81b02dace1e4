---------------------------- MODULE ChatCommand ----------------------------
(***************************************************************************)
(* The write side of the chat: the request handlers of                     *)
(* chat/command/service/chat.go, the chat_messages and outbox_events       *)
(* tables, and the outbox publisher of chat/command/service/outbox.go,     *)
(* which copies outbox rows to the JetStream stream CHAT_EVENTS.           *)
(*                                                                         *)
(* One room is modelled: handlers of different rooms share only the        *)
(* publisher, and the subject of an event plays no part in its order.      *)
(* The popped flag and the member list belong to the room service; a       *)
(* handler reads them over HTTP before its transaction starts.             *)
(***************************************************************************)
EXTENDS Naturals, Sequences, FiniteSets

CONSTANTS
    Messages,    \* message ids, chosen by the clients
    Contents,    \* message bodies
    Users,       \* user ids
    Requests,    \* request handlers that may be running at the same time
    None,        \* the absent value of a column
    MaxTx,       \* bound: transactions a run may start
    MaxRetry,    \* retry_count from which PollPending no longer sees a row (20)
    BatchSize,   \* LIMIT of PollPending (50)
    Faults,      \* the kinds of failure a run may meet
    MaxFaults    \* bound: failures a run may meet

ASSUME CommandConstants ==
    /\ MaxTx \in Nat
    /\ MaxRetry \in Nat \ {0}
    /\ BatchSize \in Nat \ {0}
    /\ MaxFaults \in Nat
    /\ None \notin Contents \cup Users

VARIABLES
    rows,      \* chat_messages
    outbox,    \* outbox_events, in the order their transactions committed
    popped,    \* popped_at of the room is set
    members,   \* current members of the room
    req,       \* what each request handler has read and not yet written
    now,       \* the database clock: the start times given to transactions
    batch,     \* events that processBatch has polled and not gone through
    stage,     \* where processBatch stands with the first event of the batch
    backoff,   \* events whose retryTimers entry has not elapsed
    log,       \* the events the stream has accepted, in stream order
    faults     \* failures met so far

dbVars        == <<rows, outbox, now>>
roomVars      == <<popped, members>>
publisherVars == <<batch, stage, backoff>>
commandVars   == <<dbVars, roomVars, req, publisherVars, log, faults>>

----------------------------------------------------------------------------
(* Tables *)

Row == [status : {"absent", "live", "deleted"},
        author : Users \cup {None}, content : Contents \cup {None}]

NoRow == [status |-> "absent", author |-> None, content |-> None]

\* The payload of an event. A deletion carries the message id only.
Event == [type : {"new_message", "updated_message", "deleted_message"},
          id : Messages, content : Contents \cup {None}]

\* created_at is not a parameter of the INSERT: the column default NOW() is
\* the start of the transaction, whatever CreatedAt the service filled in.
OutboxRow == [event : Event, created_at : Nat, published : BOOLEAN,
              retry_count : Nat]

OutboxInsert(ev, startedAt) ==
    outbox' = Append(outbox, [event |-> ev, created_at |-> startedAt,
                              published |-> FALSE, retry_count |-> 0])

\* Mutants of Pending: the retry cap, then the published filter, is dropped.
Pending_NoRetryCap == {i \in DOMAIN outbox : ~outbox[i].published}
Pending_Published  == {i \in DOMAIN outbox : outbox[i].retry_count < MaxRetry}

\* The rows a poll may return: published_at IS NULL AND retry_count < 20.
Pending == {i \in DOMAIN outbox : ~outbox[i].published
                                  /\ outbox[i].retry_count < MaxRetry}

Earlier(i, S) == {j \in S : outbox[j].created_at < outbox[i].created_at}

\* LIMIT batchSize: the oldest of them.
Oldest == {i \in Pending : Cardinality(Earlier(i, Pending)) < BatchSize}

\* Mutant of InOrder: ORDER BY created_at DESC.
InOrder_Desc(b) ==
    \A k, l \in DOMAIN b :
        k < l => outbox[b[k]].created_at > outbox[b[l]].created_at

\* ORDER BY created_at ASC. No two transactions start at the same time.
InOrder(b) ==
    \A k, l \in DOMAIN b :
        k < l => outbox[b[k]].created_at < outbox[b[l]].created_at

PollPending == {b \in [1..Cardinality(Oldest) -> Oldest] : InOrder(b)}

----------------------------------------------------------------------------
(* Request handlers *)

Idle == [pc |-> "idle", op |-> None, id |-> None, user |-> None,
         content |-> None, startedAt |-> 0]

Admit(r, op, m, u, c) ==
    /\ req[r].pc = "idle"
    /\ req' = [req EXCEPT ![r] = [pc |-> "admitted", op |-> op, id |-> m,
                                  user |-> u, content |-> c, startedAt |-> 0]]
    /\ UNCHANGED <<dbVars, roomVars, publisherVars, log, faults>>

\* CreateMessage: the room is not popped and the author is a member.
AdmitCreate(r, m, u, c) ==
    /\ ~popped
    /\ u \in members
    /\ Admit(r, "create", m, u, c)

\* UpdateMessage: a request without a content writes back the content that
\* GetMessageById returned.
AdmitUpdate(r, m, u, c) ==
    /\ rows[m].status = "live"
    /\ ~popped
    /\ rows[m].author = u
    /\ Admit(r, "update", m, u, IF c = None THEN rows[m].content ELSE c)

AdmitDelete(r, m, u) ==
    /\ rows[m].status = "live"
    /\ ~popped
    /\ rows[m].author = u
    /\ Admit(r, "delete", m, u, None)

\* AdminDeleteMessage skips the author and the popped-room guards.
AdmitAdminDelete(r, m) ==
    /\ rows[m].status = "live"
    /\ Admit(r, "adminDelete", m, None, None)

\* uow.Do: BeginTxx.
BeginTx(r) ==
    /\ req[r].pc = "admitted"
    /\ now < MaxTx
    /\ now' = now + 1
    /\ req' = [req EXCEPT ![r].pc = "inTx", ![r].startedAt = now + 1]
    /\ UNCHANGED <<rows, outbox, roomVars, publisherVars, log, faults>>

\* The body of each transaction: the statement on chat_messages, which must
\* find its row (or, for an INSERT, must not), and the outbox row.
WriteCreate(q) ==
    /\ rows[q.id].status = "absent"
    /\ rows' = [rows EXCEPT ![q.id] = [status |-> "live", author |-> q.user,
                                       content |-> q.content]]
    /\ OutboxInsert([type |-> "new_message", id |-> q.id,
                     content |-> q.content], q.startedAt)

WriteUpdate(q) ==
    /\ rows[q.id].status = "live"
    /\ rows' = [rows EXCEPT ![q.id].content = q.content]
    /\ OutboxInsert([type |-> "updated_message", id |-> q.id,
                     content |-> q.content], q.startedAt)

\* Mutant of WriteDelete: the row is deleted outside the unit of work.
WriteDelete_NoEvent(q) ==
    /\ rows[q.id].status = "live"
    /\ rows' = [rows EXCEPT ![q.id].status = "deleted"]
    /\ UNCHANGED outbox

WriteDelete(q) ==
    /\ rows[q.id].status = "live"
    /\ rows' = [rows EXCEPT ![q.id].status = "deleted"]
    /\ OutboxInsert([type |-> "deleted_message", id |-> q.id,
                     content |-> None], q.startedAt)

CommitTx(r) ==
    /\ req[r].pc = "inTx"
    /\ \/ req[r].op = "create" /\ WriteCreate(req[r])
       \/ req[r].op = "update" /\ WriteUpdate(req[r])
       \/ req[r].op \in {"delete", "adminDelete"} /\ WriteDelete(req[r])
    /\ req' = [req EXCEPT ![r] = Idle]
    /\ UNCHANGED <<now, roomVars, publisherVars, log, faults>>

\* A duplicate id, a row that is gone, a cancelled context, a failed COMMIT:
\* neither table changes and the client gets an error.
RollbackTx(r) ==
    /\ req[r].pc = "inTx"
    /\ req' = [req EXCEPT ![r] = Idle]
    /\ UNCHANGED <<dbVars, roomVars, publisherVars, log, faults>>

----------------------------------------------------------------------------
(* The room service, as seen from here *)

PopRoom ==
    /\ ~popped
    /\ popped' = TRUE
    /\ UNCHANGED <<dbVars, members, req, publisherVars, log, faults>>

\* KickUser, and AdminKickUser, which also works in a popped room. Nobody who
\* left comes back: the primary key of room_member still holds the old row.
LeaveRoom(u) ==
    /\ u \in members
    /\ members' = members \ {u}
    /\ UNCHANGED <<dbVars, popped, req, publisherVars, log, faults>>

----------------------------------------------------------------------------
(* The outbox publisher: one goroutine, one replica of the service *)

Fault(kind) == kind \in Faults /\ faults < MaxFaults /\ faults' = faults + 1

\* The event processBatch is at.
Current == Head(batch)

\* A tick of the poll interval. A failed poll changes nothing.
Poll ==
    /\ batch = <<>>
    /\ Pending # {}
    /\ batch' \in PollPending
    /\ UNCHANGED <<dbVars, roomVars, req, stage, backoff, log, faults>>

\* continue: the loop leaves the current event and takes the next one.
NextEvent == batch' = Tail(batch) /\ stage' = "publish"

SkipBackoff ==
    /\ batch # <<>> /\ stage = "publish"
    /\ Current \in backoff
    /\ NextEvent
    /\ UNCHANGED <<dbVars, roomVars, req, backoff, log, faults>>

PublishOk ==
    /\ batch # <<>> /\ stage = "publish"
    /\ Current \notin backoff
    /\ log' = Append(log, Current)
    /\ backoff' = backoff \ {Current}
    /\ stage' = "mark"
    /\ UNCHANGED <<dbVars, roomVars, req, batch, faults>>

\* Mutant of PublishFail: the error branch falls through to MarkPublished.
PublishFail_NoContinue ==
    /\ batch # <<>> /\ stage = "publish"
    /\ Current \notin backoff
    /\ Fault("publish")
    /\ stage' = "mark"
    /\ UNCHANGED <<dbVars, roomVars, req, batch, backoff, log>>

\* PublishRaw fails before the stream has the event, or after: the publish
\* acknowledgement is lost or late.
PublishFail ==
    /\ batch # <<>> /\ stage = "publish"
    /\ Current \notin backoff
    /\ \/ Fault("publish") /\ UNCHANGED log
       \/ Fault("puback") /\ log' = Append(log, Current)
    /\ stage' = "retry"
    /\ UNCHANGED <<dbVars, roomVars, req, batch, backoff>>

IncrementRetry ==
    /\ batch # <<>> /\ stage = "retry"
    /\ \/ /\ outbox' = [outbox EXCEPT ![Current].retry_count = @ + 1]
          /\ UNCHANGED faults
       \/ Fault("db") /\ UNCHANGED outbox
    /\ backoff' = backoff \cup {Current}
    /\ NextEvent
    /\ UNCHANGED <<rows, now, roomVars, req, log>>

\* Mutant of MarkPublished: the UPDATE matches no row.
MarkPublished_NoRow ==
    /\ batch # <<>> /\ stage = "mark"
    /\ NextEvent
    /\ UNCHANGED <<dbVars, roomVars, req, backoff, log, faults>>

MarkPublished ==
    /\ batch # <<>> /\ stage = "mark"
    /\ \/ /\ outbox' = [outbox EXCEPT ![Current].published = TRUE]
          /\ UNCHANGED faults
       \/ Fault("db") /\ UNCHANGED outbox
    /\ NextEvent
    /\ UNCHANGED <<rows, now, roomVars, req, backoff, log>>

\* Mutant of BackoffElapses: the timer is never dropped.
BackoffElapses_Never(i) ==
    /\ i \in backoff
    /\ UNCHANGED commandVars

\* The backoff of an event has elapsed (inBackoff is false, cleanupBackoff
\* drops the timer).
BackoffElapses(i) ==
    /\ i \in backoff
    /\ backoff' = backoff \ {i}
    /\ UNCHANGED <<dbVars, roomVars, req, batch, stage, log, faults>>

\* chat-command stops at any point and starts again: open transactions roll
\* back; the batch and the timers, kept in memory only, are gone.
CommandRestart ==
    /\ Fault("commandCrash")
    /\ req' = [r \in Requests |-> Idle]
    /\ batch' = <<>> /\ stage' = "publish" /\ backoff' = {}
    /\ UNCHANGED <<dbVars, roomVars, log>>

----------------------------------------------------------------------------

CommandInit ==
    /\ rows = [m \in Messages |-> NoRow]
    /\ outbox = <<>>
    /\ popped = FALSE
    /\ members = Users
    /\ req = [r \in Requests |-> Idle]
    /\ now = 0
    /\ batch = <<>> /\ stage = "publish" /\ backoff = {}
    /\ log = <<>>
    /\ faults = 0

Handlers ==
    \E r \in Requests :
        \/ \E m \in Messages, u \in Users :
              \/ \E c \in Contents : AdmitCreate(r, m, u, c)
              \/ \E c \in Contents \cup {None} : AdmitUpdate(r, m, u, c)
              \/ AdmitDelete(r, m, u)
        \/ \E m \in Messages : AdmitAdminDelete(r, m)
        \/ BeginTx(r)
        \/ CommitTx(r)
        \/ RollbackTx(r)

RoomService == PopRoom \/ \E u \in Users : LeaveRoom(u)

Publisher ==
    \/ Poll \/ SkipBackoff \/ PublishOk \/ PublishFail
    \/ IncrementRetry \/ MarkPublished
    \/ \E i \in backoff : BackoffElapses(i)

CommandNext == Handlers \/ RoomService \/ Publisher \/ CommandRestart

CommandSpec == CommandInit /\ [][CommandNext]_commandVars

----------------------------------------------------------------------------
(* Properties *)

\* Every variable has its type; in particular the publisher never counts a
\* retry of an event that PollPending no longer returns (outboxRepo.go).
CommandTypeOK ==
    /\ rows \in [Messages -> Row]
    /\ outbox \in Seq([event : Event, created_at : 1..MaxTx,
                       published : BOOLEAN, retry_count : 0..MaxRetry])
    /\ popped \in BOOLEAN /\ members \subseteq Users
    /\ req \in [Requests ->
                   [pc : {"idle", "admitted", "inTx"},
                    op : {"create", "update", "delete", "adminDelete", None},
                    id : Messages \cup {None}, user : Users \cup {None},
                    content : Contents \cup {None}, startedAt : 0..MaxTx]]
    /\ now \in 0..MaxTx
    /\ batch \in Seq(DOMAIN outbox)
    /\ stage \in {"publish", "mark", "retry"}
    /\ backoff \subseteq DOMAIN outbox
    /\ log \in Seq(DOMAIN outbox)
    /\ faults \in 0..MaxFaults

\* What an event says of its message.
Says(ev) == CASE ev.type = "deleted_message" -> "deleted"
              [] OTHER -> ev.content

\* What a row says of its message.
Stored(m) == CASE rows[m].status = "live" -> rows[m].content
               [] OTHER -> rows[m].status

EventsOf(m) == {i \in DOMAIN outbox : outbox[i].event.id = m}

IsLast(i, S) == i \in S /\ \A j \in S : j <= i

\* The outbox is a complete account of chat_messages: for each message the
\* event committed last says what the row holds, and a message without
\* events has no row. One transaction writes both (uow.Do in chat.go).
OutboxIsComplete ==
    \A m \in Messages :
        \/ EventsOf(m) = {} /\ rows[m].status = "absent"
        \/ \E i \in EventsOf(m) : /\ IsLast(i, EventsOf(m))
                                 /\ Says(outbox[i].event) = Stored(m)

SentEvents == {log[k] : k \in DOMAIN log}

\* published_at is set only on events the stream has: whatever fails and
\* wherever the process stops, no event is dropped between the two calls of
\* processBatch.
MarkedWasSent == \A i \in DOMAIN outbox : outbox[i].published => i \in SentEvents

\* Once MarkPublished has succeeded the event is never sent again, not even
\* from a batch that was polled before.
MarkedIsNotResent ==
    [][log' # log => ~outbox[log'[Len(log')]].published]_commandVars

\* Each duplicate in the stream is the work of one failure: an acknowledgement
\* lost, a mark that failed or a restart between PublishRaw and MarkPublished.
DuplicatesNeedFaults == Len(log) <= Cardinality(SentEvents) + faults

\* The transactions of each message committed in the order they started in.
InCommitOrder ==
    \A i, j \in DOMAIN outbox :
        /\ i < j
        /\ outbox[i].event.id = outbox[j].event.id
        => outbox[i].created_at < outbox[j].created_at

\* ORDER BY created_at keeps the stream in commit order, message by message,
\* as long as nothing fails and the transactions of a message do not overlap.
\* Neither condition can be dropped: MC_ChatPipeline shows what happens then.
FaultFreeFifo ==
    faults = 0 /\ InCommitOrder =>
        \A k, l \in DOMAIN log :
            /\ k < l
            /\ outbox[log[k]].event.id = outbox[log[l]].event.id
            => log[k] < log[l]

\* Every committed event is in the end marked published, or its retry count
\* has reached the cap of PollPending: an event in backoff, however often it
\* is polled and skipped, cannot block itself or the events behind it forever.
EveryEventSettles ==
    \A i \in 1..MaxTx :
        (i \in DOMAIN outbox) ~> /\ i \in DOMAIN outbox
                               /\ \/ outbox[i].published
                                  \/ outbox[i].retry_count = MaxRetry
=============================================================================
