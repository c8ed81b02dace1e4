------------------------- MODULE ChatCommandProofs -------------------------
(***************************************************************************)
(* Proofs about ChatCommand, for every value of its constants.             *)
(*                                                                         *)
(* The inductive invariant adds to the type invariant what a request       *)
(* handler has read, what processBatch knows of the events it holds, and   *)
(* what its stage says of the current one.                                 *)
(***************************************************************************)
EXTENDS ChatCommand, TLAPS, SequenceTheorems, FiniteSetTheorems

Outbox == [event : Event, created_at : 1..MaxTx, published : BOOLEAN,
           retry_count : 0..MaxRetry]

Request == [pc : {"idle", "admitted", "inTx"},
            op : {"create", "update", "delete", "adminDelete", None},
            id : Messages \cup {None}, user : Users \cup {None},
            content : Contents \cup {None}, startedAt : 0..MaxTx]

\* A live row has a body, so an update that keeps the old one has one too.
RowsOK == \A m \in Messages : rows[m].status = "live" => rows[m].content \in Contents

\* A handler that is past its checks holds what its statements will write.
RequestsOK ==
    \A r \in Requests : req[r].pc # "idle" =>
        /\ req[r].op \in {"create", "update", "delete", "adminDelete"}
        /\ req[r].id \in Messages
        /\ req[r].op \in {"create", "update"} => req[r].content \in Contents
        /\ req[r].pc = "inTx" => req[r].startedAt \in 1..MaxTx

\* The events of a batch are still pending: only the publisher changes them,
\* and it moves past each event it has changed.
BatchOK ==
    \A k \in DOMAIN batch :
        /\ ~outbox[batch[k]].published
        /\ outbox[batch[k]].retry_count < MaxRetry

\* After PublishRaw there is a current event, and after a success the stream
\* has it.
StageOK ==
    /\ stage # "publish" => batch # <<>>
    /\ stage = "mark" => Current \in SentEvents

CommandInv ==
    /\ CommandTypeOK /\ RowsOK /\ RequestsOK
    /\ BatchOK /\ InOrder(batch) /\ StageOK /\ MarkedWasSent

----------------------------------------------------------------------------
(* Lemmas on the operators *)

\* A poll yields a sequence of pending events, strictly ordered by age.
LEMMA PollProperties ==
    ASSUME CommandTypeOK, NEW b \in PollPending
    PROVE  /\ b \in Seq(DOMAIN outbox)
           /\ InOrder(b)
           /\ \A k \in DOMAIN b : b[k] \in Pending
<1>1. Oldest \subseteq Pending /\ Pending \subseteq DOMAIN outbox
  BY DEF Oldest, Pending
<1>2. IsFiniteSet(Oldest)
  <2>1. Len(outbox) \in Nat /\ DOMAIN outbox = 1..Len(outbox)
    BY DEF CommandTypeOK
  <2>2. IsFiniteSet(1..Len(outbox))
    BY <2>1, FS_Interval
  <2> QED
    BY <1>1, <2>1, <2>2, FS_Subset
<1>3. Cardinality(Oldest) \in Nat
  BY <1>2, FS_CardinalityType
<1>4. b \in [1..Cardinality(Oldest) -> Oldest] /\ InOrder(b)
  BY DEF PollPending
<1>5. b \in Seq(Oldest)
  BY <1>3, <1>4, SeqDef
<1> QED
  BY <1>1, <1>4, <1>5, SeqMonotonic

\* The event after the current one is another event: created_at tells them
\* apart.
LEMMA CurrentIsNotAhead ==
    ASSUME CommandTypeOK, InOrder(batch), batch # <<>>
    PROVE  /\ Current \in DOMAIN outbox
           /\ Current = batch[1]
           /\ Tail(batch) \in Seq(DOMAIN outbox)
           /\ InOrder(Tail(batch))
           /\ \A k \in DOMAIN Tail(batch) :
                 /\ k + 1 \in DOMAIN batch
                 /\ Tail(batch)[k] = batch[k + 1]
                 /\ Tail(batch)[k] # Current
<1>1. batch \in Seq(DOMAIN outbox) /\ outbox \in Seq(Outbox)
  BY DEF CommandTypeOK, Outbox
<1>2. /\ Current = batch[1] /\ Current \in DOMAIN outbox
      /\ Tail(batch) \in Seq(DOMAIN outbox)
      /\ Len(batch) \in Nat \ {0} /\ DOMAIN batch = 1..Len(batch)
      /\ DOMAIN Tail(batch) = 1 .. Len(batch) - 1
      /\ \A k \in 1 .. Len(batch) - 1 : Tail(batch)[k] = batch[k + 1]
  BY <1>1 DEF Current
<1>3. \A i \in DOMAIN outbox : outbox[i].created_at \in Nat
  <2>1. \A i \in DOMAIN outbox : outbox[i] \in Outbox
    BY <1>1
  <2> QED
    BY <2>1, CommandConstants DEF Outbox
<1>4. \A k \in DOMAIN Tail(batch) : k + 1 \in DOMAIN batch /\ 1 < k + 1
  BY <1>2
<1>5. \A k \in DOMAIN Tail(batch) : outbox[batch[1]].created_at
                                     < outbox[batch[k + 1]].created_at
  BY <1>2, <1>4 DEF InOrder
<1>6. \A k \in DOMAIN Tail(batch) : batch[k + 1] # batch[1]
  BY <1>1, <1>2, <1>3, <1>4, <1>5
<1>7. InOrder(Tail(batch))
  BY <1>2, <1>4 DEF InOrder
<1> QED
  BY <1>2, <1>4, <1>6, <1>7

----------------------------------------------------------------------------
(* Steps of the request handlers *)

\* What the publisher knows holds on while outbox, batch and stream stand still.
LEMMA PublisherUntouched ==
    ASSUME CommandInv, UNCHANGED <<outbox, batch, stage, log>>
    PROVE  BatchOK' /\ InOrder(batch)' /\ StageOK' /\ MarkedWasSent'
BY DEF CommandInv, BatchOK, InOrder, StageOK, Current, SentEvents, MarkedWasSent

LEMMA AdmitStep ==
    ASSUME CommandInv, NEW r \in Requests, NEW m \in Messages,
           NEW op \in {"create", "update", "delete", "adminDelete"},
           NEW u \in Users \cup {None}, NEW c \in Contents \cup {None},
           op \in {"create", "update"} => c \in Contents,
           Admit(r, op, m, u, c)
    PROVE  CommandInv'
<1>1. UNCHANGED <<rows, outbox, now, popped, members, batch, stage, backoff, log,
                  faults>>
  BY DEF Admit, dbVars, roomVars, publisherVars
<1>2. req' = [req EXCEPT ![r] = [pc |-> "admitted", op |-> op, id |-> m,
                                 user |-> u, content |-> c, startedAt |-> 0]]
  BY DEF Admit
<1>3. CommandTypeOK'
  BY <1>1, <1>2, CommandConstants DEF CommandInv, CommandTypeOK
<1>4. RowsOK'
  BY <1>1 DEF CommandInv, RowsOK
<1>5. RequestsOK'
  <2>1. req \in [Requests -> Request]
    BY DEF CommandInv, CommandTypeOK, Request
  <2> QED
    BY <1>2, <2>1 DEF CommandInv, RequestsOK
<1> QED
  BY <1>1, <1>3, <1>4, <1>5, PublisherUntouched DEF CommandInv

LEMMA BeginTxStep ==
    ASSUME CommandInv, NEW r \in Requests, BeginTx(r)
    PROVE  CommandInv'
<1>1. UNCHANGED <<rows, outbox, popped, members, batch, stage, backoff, log, faults>>
  BY DEF BeginTx, roomVars, publisherVars
<1>2. /\ req[r].pc = "admitted" /\ now' = now + 1 /\ now + 1 \in 1..MaxTx
      /\ req' = [req EXCEPT ![r].pc = "inTx", ![r].startedAt = now + 1]
  BY CommandConstants DEF BeginTx, CommandInv, CommandTypeOK
<1>3. CommandTypeOK'
  <2>1. req \in [Requests -> Request] /\ now' \in 0..MaxTx
    BY <1>2, CommandConstants DEF CommandInv, CommandTypeOK, Request
  <2>2. [req[r] EXCEPT !.pc = "inTx", !.startedAt = now + 1] \in Request
    BY <1>2, <2>1, CommandConstants DEF Request
  <2>3. req' = [req EXCEPT ![r] = [req[r] EXCEPT !.pc = "inTx",
                                                 !.startedAt = now + 1]]
    BY <1>2, <2>1 DEF Request
  <2>4. req' \in [Requests -> Request]
    BY <2>1, <2>2, <2>3
  <2> QED
    BY <1>1, <2>1, <2>4 DEF CommandInv, CommandTypeOK, Request
<1>4. RowsOK'
  BY <1>1 DEF CommandInv, RowsOK
<1>5. RequestsOK'
  <2>1. req \in [Requests -> Request]
    BY DEF CommandInv, CommandTypeOK, Request
  <2> QED
    BY <1>2, <2>1 DEF CommandInv, RequestsOK
<1> QED
  BY <1>1, <1>3, <1>4, <1>5, PublisherUntouched DEF CommandInv

\* A new outbox row is unpublished and leaves the others where they are.
LEMMA OutboxGrows ==
    ASSUME CommandInv, NEW ev \in Event, NEW t \in 1..MaxTx,
           OutboxInsert(ev, t), UNCHANGED <<batch, stage, backoff, log>>
    PROVE  /\ outbox' \in Seq(Outbox)
           /\ Len(outbox') = Len(outbox) + 1
           /\ \A i \in DOMAIN outbox : i \in DOMAIN outbox' /\ outbox'[i] = outbox[i]
           /\ outbox'[Len(outbox) + 1].event = ev
           /\ batch' \in Seq(DOMAIN outbox') /\ log' \in Seq(DOMAIN outbox')
           /\ backoff' \subseteq DOMAIN outbox'
           /\ BatchOK' /\ InOrder(batch)' /\ StageOK' /\ MarkedWasSent'
<1> DEFINE new == [event |-> ev, created_at |-> t, published |-> FALSE,
                   retry_count |-> 0]
<1>1. /\ outbox \in Seq(Outbox) /\ batch \in Seq(DOMAIN outbox)
      /\ log \in Seq(DOMAIN outbox) /\ backoff \subseteq DOMAIN outbox
  BY DEF CommandInv, CommandTypeOK, Outbox
<1>2. new \in Outbox
  BY CommandConstants DEF Outbox
<1>3. outbox' = Append(outbox, new)
  BY DEF OutboxInsert
<1> HIDE DEF new
<1>4. /\ outbox' \in Seq(Outbox) /\ Len(outbox') = Len(outbox) + 1
      /\ \A i \in DOMAIN outbox : i \in DOMAIN outbox' /\ outbox'[i] = outbox[i]
      /\ outbox'[Len(outbox) + 1] = new
      /\ \A i \in DOMAIN outbox' : i \in DOMAIN outbox \/ i = Len(outbox) + 1
  BY <1>1, <1>2, <1>3
<1>5. DOMAIN outbox \subseteq DOMAIN outbox'
  BY <1>4
<1>6. batch' \in Seq(DOMAIN outbox') /\ log' \in Seq(DOMAIN outbox')
  BY <1>1, <1>5, SeqMonotonic
<1>7. \A k \in DOMAIN batch : batch[k] \in DOMAIN outbox
  BY <1>1
<1>8. BatchOK' /\ InOrder(batch)'
  BY <1>4, <1>7 DEF CommandInv, BatchOK, InOrder
<1>9. StageOK' /\ SentEvents' = SentEvents
  BY DEF CommandInv, StageOK, Current, SentEvents
<1>10. new.event = ev /\ ~new.published
  BY DEF new
<1>11. MarkedWasSent'
  BY <1>4, <1>9, <1>10 DEF CommandInv, MarkedWasSent
<1> QED
  BY <1>1, <1>4, <1>5, <1>6, <1>8, <1>9, <1>10, <1>11

\* What event ev stands for: the status of its message turns from old to new.
Turns(ev, old, new) ==
    \/ /\ ev.type = "new_message" /\ old = "absent" /\ new = "live"
       /\ ev.content \in Contents
    \/ /\ ev.type = "updated_message" /\ old = "live" /\ new = "live"
       /\ ev.content \in Contents
    \/ ev.type = "deleted_message" /\ old = "live" /\ new = "deleted"

\* The bodies of the three kinds of transaction, as far as the invariant goes.
LEMMA WriteStep ==
    ASSUME CommandInv, NEW r \in Requests, req[r].pc = "inTx",
           NEW id \in Messages, id = req[r].id,
           \/ req[r].op = "create" /\ WriteCreate(req[r])
           \/ req[r].op = "update" /\ WriteUpdate(req[r])
           \/ req[r].op \in {"delete", "adminDelete"} /\ WriteDelete(req[r])
    PROVE  /\ rows' \in [Messages -> Row] /\ RowsOK'
           /\ \A m \in Messages : m # id => rows'[m] = rows[m]
           /\ \E ev \in Event : /\ ev.id = id /\ Says(ev) = Stored(id)'
                                /\ Turns(ev, rows[id].status, rows'[id].status)
                                /\ OutboxInsert(ev, req[r].startedAt)
<1> DEFINE q == req[r]
<1>1. /\ q \in Request /\ q.id \in Messages
      /\ q.op \in {"create", "update"} => q.content \in Contents
      /\ rows \in [Messages -> Row]
  BY DEF CommandInv, CommandTypeOK, RequestsOK, Request
<1> DEFINE Goal == /\ rows' \in [Messages -> Row] /\ RowsOK'
                   /\ \A m \in Messages : m # id => rows'[m] = rows[m]
                   /\ \E ev \in Event : /\ ev.id = id /\ Says(ev) = Stored(id)'
                                        /\ Turns(ev, rows[id].status, rows'[id].status)
                                        /\ OutboxInsert(ev, q.startedAt)
<1>2. CASE q.op = "create" /\ WriteCreate(q)
  <2> DEFINE row == [status |-> "live", author |-> q.user, content |-> q.content]
             new == [type |-> "new_message", id |-> q.id, content |-> q.content]
  <2>1. row \in Row /\ row.status = "live" /\ row.content = q.content
    BY <1>1 DEF Request, Row
  <2>2. /\ new \in Event /\ new.id = id /\ Says(new) = q.content
    BY <1>1, <1>2 DEF Event, Request, Says
  <2>3. rows' = [rows EXCEPT ![q.id] = row] /\ OutboxInsert(new, q.startedAt)
    BY <1>2 DEF WriteCreate
  <2>4. Turns(new, rows[id].status, row.status)
    BY <1>1, <1>2, <2>1 DEF Turns, WriteCreate
  <2> HIDE DEF row, new
  <2>5. /\ rows' \in [Messages -> Row] /\ rows'[id] = row
        /\ \A m \in Messages : m # id => rows'[m] = rows[m]
    BY <1>1, <2>1, <2>3
  <2>6. RowsOK'
    BY <1>1, <1>2, <2>1, <2>5 DEF CommandInv, RowsOK
  <2>7. Stored(id)' = q.content
    BY <2>1, <2>5 DEF Stored
  <2> QED
    BY <2>2, <2>3, <2>5, <2>6, <2>7, <2>4
<1>3. CASE q.op = "update" /\ WriteUpdate(q)
  <2> DEFINE row == [rows[q.id] EXCEPT !.content = q.content]
             new == [type |-> "updated_message", id |-> q.id, content |-> q.content]
  <2>1. row \in Row /\ row.status = "live" /\ row.content = q.content
    BY <1>1, <1>3 DEF Request, Row, WriteUpdate
  <2>2. /\ new \in Event /\ new.id = id /\ Says(new) = q.content
    BY <1>1, <1>3 DEF Event, Request, Says
  <2>3. rows' = [rows EXCEPT ![q.id] = row] /\ OutboxInsert(new, q.startedAt)
    BY <1>1, <1>3 DEF WriteUpdate
  <2>4. Turns(new, rows[id].status, row.status)
    BY <1>1, <1>3, <2>1 DEF Turns, WriteUpdate
  <2> HIDE DEF row, new
  <2>5. /\ rows' \in [Messages -> Row] /\ rows'[id] = row
        /\ \A m \in Messages : m # id => rows'[m] = rows[m]
    BY <1>1, <2>1, <2>3
  <2>6. RowsOK'
    BY <1>1, <1>3, <2>1, <2>5 DEF CommandInv, RowsOK
  <2>7. Stored(id)' = q.content
    BY <2>1, <2>5 DEF Stored
  <2> QED
    BY <2>2, <2>3, <2>5, <2>6, <2>7, <2>4
<1>4. CASE q.op \in {"delete", "adminDelete"} /\ WriteDelete(q)
  <2> DEFINE row == [rows[q.id] EXCEPT !.status = "deleted"]
             new == [type |-> "deleted_message", id |-> q.id, content |-> None]
  <2>1. row \in Row /\ row.status = "deleted"
    BY <1>1 DEF Row
  <2>2. /\ new \in Event /\ new.id = id /\ Says(new) = "deleted"
    BY <1>1 DEF Event, Says
  <2>3. rows' = [rows EXCEPT ![q.id] = row] /\ OutboxInsert(new, q.startedAt)
    BY <1>1, <1>4 DEF WriteDelete
  <2>4. Turns(new, rows[id].status, row.status)
    BY <1>1, <1>4, <2>1 DEF Turns, WriteDelete
  <2> HIDE DEF row, new
  <2>5. /\ rows' \in [Messages -> Row] /\ rows'[id] = row
        /\ \A m \in Messages : m # id => rows'[m] = rows[m]
    BY <1>1, <2>1, <2>3
  <2>6. RowsOK'
    BY <1>1, <2>1, <2>5 DEF CommandInv, RowsOK
  <2>7. Stored(id)' = "deleted"
    BY <2>1, <2>5 DEF Stored
  <2> QED
    BY <2>2, <2>3, <2>5, <2>6, <2>7, <2>4
<1>5. Goal
  BY <1>2, <1>3, <1>4
<1> QED
  BY <1>5

LEMMA CommitTxStep ==
    ASSUME CommandInv, NEW r \in Requests, CommitTx(r)
    PROVE  CommandInv'
<1>1. /\ req[r].pc = "inTx" /\ req' = [req EXCEPT ![r] = Idle]
      /\ UNCHANGED <<now, popped, members, batch, stage, backoff, log, faults>>
  BY DEF CommitTx, roomVars, publisherVars
<1> DEFINE id == req[r].id
<1> id \in Messages
  BY <1>1 DEF CommandInv, RequestsOK
<1>2. rows' \in [Messages -> Row] /\ RowsOK'
  BY WriteStep DEF CommitTx
<1>3. PICK ev \in Event : OutboxInsert(ev, req[r].startedAt)
  BY WriteStep DEF CommitTx
<1>4. req[r].startedAt \in 1..MaxTx
  BY <1>1 DEF CommandInv, RequestsOK
<1>5. /\ outbox' \in Seq(Outbox)
      /\ batch' \in Seq(DOMAIN outbox') /\ log' \in Seq(DOMAIN outbox')
      /\ backoff' \subseteq DOMAIN outbox'
      /\ BatchOK' /\ InOrder(batch)' /\ StageOK' /\ MarkedWasSent'
  BY <1>1, <1>3, <1>4, OutboxGrows
<1>6. /\ req' \in [Requests -> Request] /\ RequestsOK'
  <2>1. req \in [Requests -> Request]
    BY DEF CommandInv, CommandTypeOK, Request
  <2>2. Idle \in Request /\ Idle.pc = "idle"
    BY CommandConstants DEF Idle, Request
  <2> QED
    BY <1>1, <2>1, <2>2 DEF CommandInv, RequestsOK
<1>7. CommandTypeOK'
  BY <1>1, <1>2, <1>5, <1>6 DEF CommandInv, CommandTypeOK, Request, Outbox
<1> QED
  BY <1>2, <1>5, <1>6, <1>7 DEF CommandInv

LEMMA RollbackTxStep ==
    ASSUME CommandInv, NEW r \in Requests, RollbackTx(r)
    PROVE  CommandInv'
<1>1. /\ req' = [req EXCEPT ![r] = Idle]
      /\ UNCHANGED <<rows, outbox, now, popped, members, batch, stage, backoff, log,
                     faults>>
  BY DEF RollbackTx, dbVars, roomVars, publisherVars
<1>2. req' \in [Requests -> Request] /\ RequestsOK'
  <2>1. req \in [Requests -> Request]
    BY DEF CommandInv, CommandTypeOK, Request
  <2>2. Idle \in Request /\ Idle.pc = "idle"
    BY CommandConstants DEF Idle, Request
  <2> QED
    BY <1>1, <2>1, <2>2 DEF CommandInv, RequestsOK
<1>3. CommandTypeOK' /\ RowsOK'
  BY <1>1, <1>2 DEF CommandInv, CommandTypeOK, Request, RowsOK
<1> QED
  BY <1>1, <1>2, <1>3, PublisherUntouched DEF CommandInv

LEMMA HandlersStep ==
    ASSUME CommandInv, Handlers
    PROVE  CommandInv'
<1>1. ASSUME NEW r \in Requests, NEW m \in Messages, NEW u \in Users,
             NEW c \in Contents, AdmitCreate(r, m, u, c)
      PROVE  CommandInv'
  BY <1>1, AdmitStep DEF AdmitCreate
<1>2. ASSUME NEW r \in Requests, NEW m \in Messages, NEW u \in Users,
             NEW c \in Contents \cup {None}, AdmitUpdate(r, m, u, c)
      PROVE  CommandInv'
  <2> DEFINE body == IF c = None THEN rows[m].content ELSE c
  <2>1. body \in Contents
    BY <1>2 DEF AdmitUpdate, CommandInv, RowsOK
  <2>2. Admit(r, "update", m, u, body)
    BY <1>2 DEF AdmitUpdate
  <2> QED
    BY <2>1, <2>2, AdmitStep
<1>3. ASSUME NEW r \in Requests, NEW m \in Messages, NEW u \in Users,
             AdmitDelete(r, m, u)
      PROVE  CommandInv'
  BY <1>3, AdmitStep DEF AdmitDelete
<1>4. ASSUME NEW r \in Requests, NEW m \in Messages, AdmitAdminDelete(r, m)
      PROVE  CommandInv'
  BY <1>4, AdmitStep DEF AdmitAdminDelete
<1> QED
  BY <1>1, <1>2, <1>3, <1>4, BeginTxStep, CommitTxStep, RollbackTxStep DEF Handlers

----------------------------------------------------------------------------
(* Steps of the room service and of the publisher *)

\* What no step of the room service or the publisher changes.
handlerVars == <<rows, req, now>>

LEMMA HandlersUntouched ==
    ASSUME CommandInv, UNCHANGED handlerVars
    PROVE  RowsOK' /\ RequestsOK'
BY DEF CommandInv, RowsOK, RequestsOK, handlerVars

LEMMA RoomServiceStep ==
    ASSUME CommandInv, RoomService
    PROVE  CommandInv'
<1>1. /\ UNCHANGED <<rows, outbox, now, req, batch, stage, backoff, log, faults>>
      /\ popped' \in BOOLEAN /\ members' \subseteq Users
  BY DEF RoomService, PopRoom, LeaveRoom, dbVars, publisherVars, CommandInv,
         CommandTypeOK
<1>2. CommandTypeOK'
  BY <1>1 DEF CommandInv, CommandTypeOK
<1> QED
  BY <1>1, <1>2, HandlersUntouched, PublisherUntouched DEF CommandInv, handlerVars

LEMMA FaultCounts ==
    ASSUME CommandTypeOK, NEW kind, Fault(kind)
    PROVE  faults' \in 0..MaxFaults
BY CommandConstants DEF CommandTypeOK, Fault

LEMMA PollStep ==
    ASSUME CommandInv, Poll
    PROVE  CommandInv'
<1>1. /\ UNCHANGED <<rows, outbox, now, popped, members, req, stage, backoff, log,
                     faults>>
      /\ batch = <<>> /\ batch' \in PollPending
  BY DEF Poll, dbVars, roomVars
<1>2. /\ batch' \in Seq(DOMAIN outbox) /\ InOrder(batch')
      /\ \A k \in DOMAIN batch' : batch'[k] \in Pending
  BY <1>1, PollProperties DEF CommandInv
<1>3. CommandTypeOK'
  BY <1>1, <1>2 DEF CommandInv, CommandTypeOK
<1>4. BatchOK' /\ InOrder(batch)'
  BY <1>1, <1>2 DEF BatchOK, Pending, InOrder
<1>5. stage' = "publish"
  BY <1>1 DEF CommandInv, StageOK, CommandTypeOK
<1>6. StageOK' /\ MarkedWasSent'
  BY <1>1, <1>5 DEF CommandInv, StageOK, MarkedWasSent, SentEvents
<1> QED
  BY <1>1, <1>3, <1>4, <1>6, HandlersUntouched DEF CommandInv, handlerVars

\* Going on to the next event while the outbox stands still.
LEMMA SkipBackoffStep ==
    ASSUME CommandInv, SkipBackoff
    PROVE  CommandInv'
<1>1. /\ UNCHANGED <<rows, outbox, now, popped, members, req, backoff, log, faults>>
      /\ batch # <<>> /\ batch' = Tail(batch) /\ stage' = "publish"
  BY DEF SkipBackoff, NextEvent, dbVars, roomVars
<1>2. CommandTypeOK /\ InOrder(batch) /\ BatchOK
  BY DEF CommandInv
<1>3. CommandTypeOK'
  BY <1>1, <1>2, CurrentIsNotAhead DEF CommandTypeOK
<1>4. BatchOK' /\ InOrder(batch)'
  BY <1>1, <1>2, CurrentIsNotAhead DEF BatchOK, InOrder
<1>5. StageOK' /\ MarkedWasSent'
  BY <1>1 DEF CommandInv, StageOK, MarkedWasSent, SentEvents
<1> QED
  BY <1>1, <1>3, <1>4, <1>5, HandlersUntouched DEF CommandInv, handlerVars

\* The stream takes the current event, whichever stage comes next.
LEMMA StreamGrows ==
    ASSUME CommandInv, batch # <<>>, log' = Append(log, Current)
    PROVE  /\ Current \in DOMAIN outbox
           /\ log' \in Seq(DOMAIN outbox)
           /\ SentEvents' = SentEvents \cup {Current}
           /\ ~outbox[log'[Len(log')]].published
<1>1. /\ Current \in DOMAIN outbox /\ Current = batch[1] /\ 1 \in DOMAIN batch
      /\ log \in Seq(DOMAIN outbox)
  <2>1. batch \in Seq(DOMAIN outbox) /\ log \in Seq(DOMAIN outbox)
    BY DEF CommandInv, CommandTypeOK
  <2>2. 1 \in DOMAIN batch
    BY <2>1
  <2> QED
    BY <2>1, <2>2, CurrentIsNotAhead DEF CommandInv
<1>2. /\ log' \in Seq(DOMAIN outbox) /\ Len(log') = Len(log) + 1
      /\ \A k \in DOMAIN log : k \in DOMAIN log' /\ log'[k] = log[k]
      /\ log'[Len(log')] = Current /\ Len(log') \in DOMAIN log'
      /\ \A k \in DOMAIN log' : k \in DOMAIN log \/ k = Len(log')
  BY <1>1
<1>3. SentEvents' = SentEvents \cup {Current}
  BY <1>2 DEF SentEvents
<1>4. ~outbox[Current].published
  BY <1>1 DEF CommandInv, BatchOK
<1> QED
  BY <1>1, <1>2, <1>3, <1>4

LEMMA PublishOkStep ==
    ASSUME CommandInv, PublishOk
    PROVE  CommandInv'
<1>1. /\ UNCHANGED <<rows, outbox, now, popped, members, req, batch, faults>>
      /\ batch # <<>> /\ log' = Append(log, Current)
      /\ backoff' \subseteq backoff /\ stage' = "mark"
  BY DEF PublishOk, dbVars, roomVars
<1>2. /\ log' \in Seq(DOMAIN outbox) /\ SentEvents' = SentEvents \cup {Current}
  BY <1>1, StreamGrows
<1>3. CommandTypeOK'
  BY <1>1, <1>2 DEF CommandInv, CommandTypeOK
<1>4. BatchOK' /\ InOrder(batch)'
  BY <1>1 DEF CommandInv, BatchOK, InOrder
<1>5. Current' = Current
  BY <1>1 DEF Current
<1>6. StageOK' /\ MarkedWasSent'
  BY <1>1, <1>2, <1>5 DEF CommandInv, StageOK, MarkedWasSent
<1> QED
  BY <1>1, <1>3, <1>4, <1>6, HandlersUntouched DEF CommandInv, handlerVars

LEMMA PublishFailStep ==
    ASSUME CommandInv, PublishFail
    PROVE  CommandInv'
<1>1. /\ UNCHANGED <<rows, outbox, now, popped, members, req, batch, backoff>>
      /\ batch # <<>> /\ stage' = "retry" /\ faults' \in 0..MaxFaults
      /\ log' = log \/ log' = Append(log, Current)
  BY FaultCounts DEF PublishFail, dbVars, roomVars, CommandInv
<1>2. /\ log' \in Seq(DOMAIN outbox) /\ SentEvents \subseteq SentEvents'
  <2>1. CASE log' = log
    BY <2>1 DEF CommandInv, CommandTypeOK, SentEvents
  <2>2. CASE log' = Append(log, Current)
    BY <1>1, <2>2, StreamGrows
  <2> QED
    BY <1>1, <2>1, <2>2
<1>3. CommandTypeOK'
  BY <1>1, <1>2 DEF CommandInv, CommandTypeOK
<1>4. BatchOK' /\ InOrder(batch)'
  BY <1>1 DEF CommandInv, BatchOK, InOrder
<1>5. StageOK' /\ MarkedWasSent'
  BY <1>1, <1>2 DEF CommandInv, StageOK, MarkedWasSent
<1> QED
  BY <1>1, <1>3, <1>4, <1>5, HandlersUntouched DEF CommandInv, handlerVars

\* Writing to the row of the current event, and going on to the next one.
LEMMA EventSettled ==
    ASSUME CommandInv, batch # <<>>, NextEvent, NEW e \in Outbox,
           e.created_at = outbox[Current].created_at,
           outbox' = outbox \/ outbox' = [outbox EXCEPT ![Current] = e]
    PROVE  /\ outbox' \in Seq(Outbox) /\ DOMAIN outbox' = DOMAIN outbox
           /\ \A i \in DOMAIN outbox : i # Current => outbox'[i] = outbox[i]
           /\ batch' \in Seq(DOMAIN outbox') /\ stage' = "publish"
           /\ BatchOK' /\ InOrder(batch)' /\ StageOK'
<1>1. CommandTypeOK /\ InOrder(batch) /\ BatchOK
  BY DEF CommandInv
<1>2. batch' = Tail(batch) /\ stage' = "publish"
  BY DEF NextEvent
<1>3. outbox \in Seq(Outbox) /\ Current \in DOMAIN outbox
  BY <1>1, CurrentIsNotAhead DEF CommandTypeOK, Outbox
<1>4. /\ outbox' \in Seq(Outbox) /\ DOMAIN outbox' = DOMAIN outbox
      /\ \A i \in DOMAIN outbox : i # Current => outbox'[i] = outbox[i]
      /\ \A i \in DOMAIN outbox : outbox'[i].created_at = outbox[i].created_at
  <2>1. CASE outbox' = outbox
    BY <1>3, <2>1
  <2>2. CASE outbox' = [outbox EXCEPT ![Current] = e]
    <3>1. outbox' \in Seq(Outbox) /\ DOMAIN outbox' = DOMAIN outbox
      BY <1>3, <2>2, ExceptSeq, LenProperties
    <3>2. \A i \in DOMAIN outbox : outbox'[i] = IF i = Current THEN e ELSE outbox[i]
      BY <1>3, <2>2
    <3> QED
      BY <3>1, <3>2
  <2> QED
    BY <2>1, <2>2
<1>5. batch' \in Seq(DOMAIN outbox')
  BY <1>1, <1>2, <1>4, CurrentIsNotAhead
<1>6. \A k \in DOMAIN batch' : /\ k + 1 \in DOMAIN batch /\ batch'[k] = batch[k + 1]
                               /\ batch'[k] \in DOMAIN outbox
                               /\ batch'[k] # Current
  BY <1>1, <1>2, <1>4, <1>5, CurrentIsNotAhead
<1>7. BatchOK'
  BY <1>1, <1>4, <1>6 DEF BatchOK
<1>8. InOrder(batch)'
  <2>1. InOrder(batch')
    BY <1>1, <1>2, CurrentIsNotAhead
  <2> QED
    BY <1>4, <1>6, <2>1 DEF InOrder
<1> QED
  BY <1>2, <1>4, <1>5, <1>7, <1>8 DEF StageOK

LEMMA IncrementRetryStep ==
    ASSUME CommandInv, IncrementRetry
    PROVE  CommandInv'
<1> DEFINE e == [outbox[Current] EXCEPT !.retry_count = @ + 1]
<1>1. /\ UNCHANGED <<rows, now, popped, members, req, log>>
      /\ batch # <<>> /\ NextEvent /\ backoff' = backoff \cup {Current}
      /\ faults' \in 0..MaxFaults
  BY FaultCounts DEF IncrementRetry, roomVars, CommandInv, CommandTypeOK
<1>2. /\ outbox \in Seq(Outbox) /\ batch \in Seq(DOMAIN outbox)
      /\ Current \in DOMAIN outbox /\ Current = batch[1]
  BY <1>1, CurrentIsNotAhead DEF CommandInv, CommandTypeOK, Outbox
<1>3. outbox[Current] \in Outbox /\ 1 \in DOMAIN batch
  BY <1>1, <1>2
<1>4. outbox[Current].retry_count < MaxRetry /\ ~outbox[Current].published
  BY <1>2, <1>3 DEF CommandInv, BatchOK
<1>5. /\ e \in Outbox /\ e.created_at = outbox[Current].created_at
      /\ ~e.published
  BY <1>3, <1>4, CommandConstants DEF Outbox
<1>6. outbox' = outbox \/ outbox' = [outbox EXCEPT ![Current] = e]
  BY <1>2 DEF IncrementRetry
<1> HIDE DEF e
<1>7. /\ outbox' \in Seq(Outbox) /\ DOMAIN outbox' = DOMAIN outbox
      /\ \A i \in DOMAIN outbox : i # Current => outbox'[i] = outbox[i]
      /\ batch' \in Seq(DOMAIN outbox') /\ stage' = "publish"
      /\ BatchOK' /\ InOrder(batch)' /\ StageOK'
  BY <1>1, <1>5, <1>6, EventSettled
<1>8. CommandTypeOK'
  BY <1>1, <1>2, <1>7 DEF CommandInv, CommandTypeOK, Outbox
<1>9. MarkedWasSent'
  <2>1. ~outbox'[Current].published
    BY <1>2, <1>4, <1>5, <1>6
  <2> QED
    BY <1>1, <1>7, <2>1 DEF CommandInv, MarkedWasSent, SentEvents
<1> QED
  BY <1>1, <1>7, <1>8, <1>9, HandlersUntouched DEF CommandInv, handlerVars

LEMMA MarkPublishedStep ==
    ASSUME CommandInv, MarkPublished
    PROVE  CommandInv'
<1> DEFINE e == [outbox[Current] EXCEPT !.published = TRUE]
<1>1. /\ UNCHANGED <<rows, now, popped, members, req, backoff, log>>
      /\ batch # <<>> /\ NextEvent /\ stage = "mark"
      /\ faults' \in 0..MaxFaults
  BY FaultCounts DEF MarkPublished, roomVars, CommandInv, CommandTypeOK
<1>2. /\ outbox \in Seq(Outbox) /\ Current \in DOMAIN outbox
  BY <1>1, CurrentIsNotAhead DEF CommandInv, CommandTypeOK, Outbox
<1>3. outbox[Current] \in Outbox
  BY <1>2
<1>4. e \in Outbox /\ e.created_at = outbox[Current].created_at
  BY <1>3 DEF Outbox
<1>5. outbox' = outbox \/ outbox' = [outbox EXCEPT ![Current] = e]
  BY <1>2 DEF MarkPublished
<1> HIDE DEF e
<1>6. /\ outbox' \in Seq(Outbox) /\ DOMAIN outbox' = DOMAIN outbox
      /\ \A i \in DOMAIN outbox : i # Current => outbox'[i] = outbox[i]
      /\ batch' \in Seq(DOMAIN outbox') /\ stage' = "publish"
      /\ BatchOK' /\ InOrder(batch)' /\ StageOK'
  BY <1>1, <1>4, <1>5, EventSettled
<1>7. CommandTypeOK'
  BY <1>1, <1>6 DEF CommandInv, CommandTypeOK, Outbox
<1>8. MarkedWasSent'
  <2>1. Current \in SentEvents
    BY <1>1 DEF CommandInv, StageOK
  <2> QED
    BY <1>1, <1>6, <2>1 DEF CommandInv, MarkedWasSent, SentEvents
<1> QED
  BY <1>1, <1>6, <1>7, <1>8, HandlersUntouched DEF CommandInv, handlerVars

LEMMA BackoffElapsesStep ==
    ASSUME CommandInv, NEW i \in backoff, BackoffElapses(i)
    PROVE  CommandInv'
<1>1. /\ UNCHANGED <<rows, outbox, now, popped, members, req, batch, stage, log, faults>>
      /\ backoff' \subseteq backoff
  BY DEF BackoffElapses, dbVars, roomVars
<1>2. CommandTypeOK'
  BY <1>1 DEF CommandInv, CommandTypeOK
<1> QED
  BY <1>1, <1>2, HandlersUntouched, PublisherUntouched DEF CommandInv, handlerVars

\* A restart forgets the batch, the timers and every open transaction.
LEMMA CommandRestartStep ==
    ASSUME CommandInv, CommandRestart
    PROVE  CommandInv'
<1>1. /\ UNCHANGED <<rows, outbox, now, popped, members, log>>
      /\ req' = [r \in Requests |-> Idle]
      /\ batch' = <<>> /\ stage' = "publish" /\ backoff' = {}
      /\ faults' \in 0..MaxFaults
  BY FaultCounts DEF CommandRestart, dbVars, roomVars, CommandInv
<1>2. Idle \in Request /\ Idle.pc = "idle"
  BY CommandConstants DEF Idle, Request
<1>3. CommandTypeOK'
  BY <1>1, <1>2 DEF CommandInv, CommandTypeOK, Request
<1>4. RowsOK' /\ RequestsOK'
  BY <1>1, <1>2 DEF CommandInv, RowsOK, RequestsOK
<1>5. BatchOK' /\ InOrder(batch)' /\ StageOK' /\ MarkedWasSent'
  BY <1>1 DEF CommandInv, BatchOK, InOrder, StageOK, MarkedWasSent, SentEvents
<1> QED
  BY <1>3, <1>4, <1>5 DEF CommandInv

----------------------------------------------------------------------------
(* Theorems *)

LEMMA CommandInitInv == CommandInit => CommandInv
<1> SUFFICES ASSUME CommandInit PROVE CommandInv
  OBVIOUS
<1>1. /\ rows = [m \in Messages |-> NoRow] /\ outbox = <<>> /\ log = <<>>
      /\ popped = FALSE /\ members = Users /\ now = 0 /\ faults = 0
      /\ req = [r \in Requests |-> Idle]
      /\ batch = <<>> /\ stage = "publish" /\ backoff = {}
  BY DEF CommandInit
<1>2. NoRow \in Row /\ NoRow.status = "absent"
  BY DEF NoRow, Row
<1>3. Idle \in Request /\ Idle.pc = "idle"
  BY CommandConstants DEF Idle, Request
<1>4. CommandTypeOK
  <2>1. rows \in [Messages -> Row] /\ req \in [Requests -> Request]
    BY <1>1, <1>2, <1>3
  <2>2. /\ outbox \in Seq(Outbox) /\ batch \in Seq(DOMAIN outbox)
        /\ log \in Seq(DOMAIN outbox)
    BY <1>1, EmptySeq
  <2>3. now \in 0..MaxTx /\ faults \in 0..MaxFaults
    BY <1>1, CommandConstants
  <2>4. popped \in BOOLEAN
    BY <1>1
  <2>5. members \subseteq Users /\ stage \in {"publish", "mark", "retry"}
    BY <1>1
  <2>6. backoff \subseteq DOMAIN outbox
    BY <1>1
  <2> QED
    BY <2>1, <2>2, <2>3, <2>4, <2>5, <2>6 DEF CommandTypeOK, Request, Outbox
<1>5. RowsOK /\ RequestsOK
  BY <1>1, <1>2, <1>3 DEF RowsOK, RequestsOK
<1>6. BatchOK /\ InOrder(batch) /\ StageOK /\ MarkedWasSent
  BY <1>1 DEF BatchOK, InOrder, StageOK, MarkedWasSent
<1> QED
  BY <1>4, <1>5, <1>6 DEF CommandInv

LEMMA CommandStepInv == CommandInv /\ [CommandNext]_commandVars => CommandInv'
<1> SUFFICES ASSUME CommandInv, [CommandNext]_commandVars PROVE CommandInv'
  OBVIOUS
<1>1. CASE Handlers
  BY <1>1, HandlersStep
<1>2. CASE RoomService
  BY <1>2, RoomServiceStep
<1>3. CASE Publisher
  BY <1>3, PollStep, SkipBackoffStep, PublishOkStep, PublishFailStep,
     IncrementRetryStep, MarkPublishedStep, BackoffElapsesStep DEF Publisher
<1>4. CASE CommandRestart
  BY <1>4, CommandRestartStep
<1>5. CASE UNCHANGED commandVars
  <2>1. UNCHANGED <<rows, outbox, now, popped, members, req, batch, stage, backoff,
                    log, faults>>
    BY <1>5 DEF commandVars, dbVars, roomVars, publisherVars
  <2>2. CommandTypeOK'
    BY <2>1 DEF CommandInv, CommandTypeOK
  <2> QED
    BY <2>1, <2>2, HandlersUntouched, PublisherUntouched DEF CommandInv, handlerVars
<1> QED
  BY <1>1, <1>2, <1>3, <1>4, <1>5 DEF CommandNext

\* The invariant that the theorems below rest on.
THEOREM CommandInvariant == CommandSpec => []CommandInv
<1> QED
  BY CommandInitInv, CommandStepInv, PTL DEF CommandSpec

\* Whatever requests, failures and restarts happen, every variable keeps its
\* type; in particular processBatch never counts a retry beyond the cap of
\* PollPending (outbox.go, outboxRepo.go).
THEOREM CommandTypeCorrect == CommandSpec => []CommandTypeOK
<1>1. CommandInv => CommandTypeOK
  BY DEF CommandInv
<1> QED
  BY <1>1, CommandInvariant, PTL

\* published_at is never set on an event that the stream does not have
\* (processBatch, outbox.go).
THEOREM MarkedWasSentAlways == CommandSpec => []MarkedWasSent
<1>1. CommandInv => MarkedWasSent
  BY DEF CommandInv
<1> QED
  BY <1>1, CommandInvariant, PTL

\* An event that has been marked is never sent again, not even from a batch
\* polled before (processBatch, outbox.go).
THEOREM MarkedStaysUnsent == CommandSpec => MarkedIsNotResent
<1>1. CommandInv /\ [CommandNext]_commandVars =>
          [log' # log => ~outbox[log'[Len(log')]].published]_commandVars
  <2> SUFFICES ASSUME CommandInv, CommandNext, log' # log
               PROVE  ~outbox[log'[Len(log')]].published
    OBVIOUS
  <2>1. PublishOk \/ PublishFail
    BY DEF CommandNext, Handlers, AdmitCreate, AdmitUpdate, AdmitDelete,
           AdmitAdminDelete, Admit, BeginTx, CommitTx, RollbackTx, RoomService,
           PopRoom, LeaveRoom, Publisher, Poll, SkipBackoff, IncrementRetry,
           MarkPublished, BackoffElapses, CommandRestart
  <2>2. batch # <<>> /\ log' = Append(log, Current)
    BY <2>1 DEF PublishOk, PublishFail
  <2> QED
    BY <2>2, StreamGrows
<1> QED
  BY <1>1, CommandInvariant, PTL DEF CommandSpec, MarkedIsNotResent

\* Every step but a commit leaves the rows and the events as they are.
LEMMA OnlyCommitsWrite ==
    ASSUME CommandInv, [CommandNext]_commandVars,
           ~ \E r \in Requests : CommitTx(r)
    PROVE  /\ rows' = rows /\ DOMAIN outbox' = DOMAIN outbox
           /\ \A i \in DOMAIN outbox : outbox'[i].event = outbox[i].event
<1> DEFINE Kept == /\ rows' = rows /\ DOMAIN outbox' = DOMAIN outbox
                   /\ \A i \in DOMAIN outbox : outbox'[i].event = outbox[i].event
<1>1. CASE UNCHANGED <<rows, outbox>>
  BY <1>1
<1>2. CASE IncrementRetry \/ MarkPublished
  <2>1. /\ rows' = rows /\ batch # <<>> /\ outbox \in Seq(Outbox)
        /\ \/ outbox' = outbox
           \/ outbox' = [outbox EXCEPT ![Current].retry_count = @ + 1]
           \/ outbox' = [outbox EXCEPT ![Current].published = TRUE]
    BY <1>2 DEF IncrementRetry, MarkPublished, CommandInv, CommandTypeOK, Outbox
  <2>2. Current \in DOMAIN outbox
    BY <2>1, CurrentIsNotAhead DEF CommandInv
  <2>3. \A i \in DOMAIN outbox : outbox[i] \in Outbox
    BY <2>1
  <2> QED
    BY <2>1, <2>2, <2>3 DEF Outbox
<1>3. UNCHANGED <<rows, outbox>> \/ IncrementRetry \/ MarkPublished
  <2>1. CASE Handlers
    BY <2>1 DEF Handlers, AdmitCreate, AdmitUpdate, AdmitDelete, AdmitAdminDelete,
                Admit, BeginTx, RollbackTx, dbVars
  <2>2. CASE RoomService
    BY <2>2 DEF RoomService, PopRoom, LeaveRoom, dbVars
  <2>3. CASE Publisher
    BY <2>3 DEF Publisher, Poll, SkipBackoff, PublishOk, PublishFail,
                BackoffElapses, dbVars
  <2>4. CASE CommandRestart \/ UNCHANGED commandVars
    BY <2>4 DEF CommandRestart, commandVars, dbVars
  <2> QED
    BY <2>1, <2>2, <2>3, <2>4 DEF CommandNext
<1> QED
  BY <1>1, <1>2, <1>3

LEMMA CompleteStep ==
    ASSUME CommandInv, OutboxIsComplete, [CommandNext]_commandVars
    PROVE  OutboxIsComplete'
<1>1. CASE \E r \in Requests : CommitTx(r)
  <2>1. PICK r \in Requests : CommitTx(r)
    BY <1>1
  <2> DEFINE id == req[r].id
             n  == Len(outbox) + 1
  <2>2. /\ req[r].pc = "inTx" /\ id \in Messages
        /\ req[r].startedAt \in 1..MaxTx
        /\ UNCHANGED <<batch, stage, backoff, log>>
    BY <2>1 DEF CommitTx, publisherVars, CommandInv, RequestsOK
  <2>3. PICK id0 \in Messages : id0 = id
    BY <2>2
  <2>4. /\ \A m \in Messages : m # id0 => rows'[m] = rows[m]
        /\ \E ev \in Event : /\ ev.id = id0 /\ Says(ev) = Stored(id0)'
                             /\ OutboxInsert(ev, req[r].startedAt)
    BY <2>1, <2>2, <2>3, WriteStep DEF CommitTx
  <2>5. PICK ev \in Event : /\ ev.id = id0 /\ Says(ev) = Stored(id0)'
                            /\ OutboxInsert(ev, req[r].startedAt)
    BY <2>4
  <2>6. /\ outbox' \in Seq(Outbox) /\ Len(outbox') = n
        /\ \A i \in DOMAIN outbox : i \in DOMAIN outbox' /\ outbox'[i] = outbox[i]
        /\ outbox'[n].event = ev
    BY <2>2, <2>5, OutboxGrows
  <2>7. outbox \in Seq(Outbox)
    BY DEF CommandInv, CommandTypeOK, Outbox
  <2>8. /\ n \in Nat \ {0} /\ DOMAIN outbox' = 1..n /\ DOMAIN outbox = 1..(n - 1)
    BY <2>6, <2>7
  <2> HIDE DEF n
  <2>9. ASSUME NEW m \in Messages, m # id0
        PROVE  EventsOf(m)' = EventsOf(m) /\ Stored(m)' = Stored(m)
    BY <2>4, <2>5, <2>6, <2>8, <2>9 DEF EventsOf, Stored
  <2>10. ASSUME NEW m \in Messages
         PROVE  \/ EventsOf(m)' = {} /\ rows'[m].status = "absent"
                \/ \E i \in EventsOf(m)' :
                      /\ IsLast(i, EventsOf(m)')
                      /\ Says(outbox'[i].event) = Stored(m)'
    <3>1. CASE m = id0
      <4>1. n \in EventsOf(m)'
        BY <2>5, <2>6, <2>8, <3>1 DEF EventsOf
      <4>2. \A j \in EventsOf(m)' : j <= n
        BY <2>8 DEF EventsOf
      <4> QED
        BY <2>5, <2>6, <3>1, <4>1, <4>2 DEF IsLast
    <3>2. CASE m # id0
      <4>1. EventsOf(m)' = EventsOf(m) /\ Stored(m)' = Stored(m)
        BY <2>9, <3>2
      <4>2. \A i \in EventsOf(m) : outbox'[i].event = outbox[i].event
        BY <2>6 DEF EventsOf
      <4>3. rows'[m] = rows[m]
        BY <2>4, <3>2
      <4> QED
        BY <4>1, <4>2, <4>3 DEF OutboxIsComplete
    <3> QED
      BY <3>1, <3>2
  <2> QED
    BY <2>10 DEF OutboxIsComplete, IsLast
<1>2. CASE ~ \E r \in Requests : CommitTx(r)
  <2>1. /\ rows' = rows /\ DOMAIN outbox' = DOMAIN outbox
        /\ \A i \in DOMAIN outbox : outbox'[i].event = outbox[i].event
    BY <1>2, OnlyCommitsWrite
  <2>2. ASSUME NEW m \in Messages
        PROVE  EventsOf(m)' = EventsOf(m) /\ Stored(m)' = Stored(m)
    BY <2>1 DEF EventsOf, Stored
  <2>3. \A m \in Messages : \A i \in EventsOf(m) :
            outbox'[i].event = outbox[i].event
    BY <2>1 DEF EventsOf
  <2> QED
    BY <2>1, <2>2, <2>3 DEF OutboxIsComplete, IsLast
<1> QED
  BY <1>1, <1>2

\* The outbox is a complete account of chat_messages: the last event of each
\* message says what its row holds (the transactions of chat.go).
THEOREM OutboxIsCompleteAlways == CommandSpec => []OutboxIsComplete
<1>1. CommandInit => OutboxIsComplete
  BY DEF CommandInit, OutboxIsComplete, EventsOf, NoRow
<1>2. CommandInv /\ OutboxIsComplete /\ [CommandNext]_commandVars => OutboxIsComplete'
  BY CompleteStep
<1> QED
  BY <1>1, <1>2, CommandInvariant, PTL DEF CommandSpec

----------------------------------------------------------------------------
(* The life of a message, as its events tell it *)

\* Event i comes before event j of the same message.
Before(i, j) == i < j /\ outbox[i].event.id = outbox[j].event.id

\* A message is created once and first, and deleted last if at all; its row is
\* there from the first event on and deleted after the last.
HistoryOK ==
    /\ \A i, j \in DOMAIN outbox : Before(i, j) =>
          outbox[i].event.type # "deleted_message" /\ outbox[j].event.type # "new_message"
    /\ \A i \in DOMAIN outbox :
          /\ outbox[i].event.type = "new_message" \/ \E j \in DOMAIN outbox : Before(j, i)
          /\ outbox[i].event.type = "deleted_message" \/ outbox[i].event.content \in Contents
          /\ rows[outbox[i].event.id].status # "absent"
          /\ outbox[i].event.type = "deleted_message"
                => rows[outbox[i].event.id].status = "deleted"
    /\ \A m \in Messages : rows[m].status = "absent" \/ EventsOf(m) # {}

\* Everything a commit does: one row turns, one event joins the others.
Commits(m, ev) ==
    /\ ev.id = m /\ Says(ev) = Stored(m)'
    /\ Turns(ev, rows[m].status, rows'[m].status)
    /\ \A o \in Messages : o # m => rows'[o] = rows[o]
    /\ Len(outbox) \in Nat
    /\ DOMAIN outbox = 1..Len(outbox) /\ DOMAIN outbox' = 1..(Len(outbox) + 1)
    /\ \A i \in DOMAIN outbox : outbox'[i] = outbox[i]
    /\ outbox'[Len(outbox) + 1].event = ev
    /\ ~outbox'[Len(outbox) + 1].published /\ outbox'[Len(outbox) + 1].retry_count = 0
    /\ UNCHANGED <<batch, stage, backoff, log, faults>>

LEMMA CommitAdds ==
    ASSUME CommandInv, NEW r \in Requests, CommitTx(r)
    PROVE  \E m \in Messages, ev \in Event : Commits(m, ev)
<1>1. /\ req[r].pc = "inTx" /\ req[r].id \in Messages
      /\ UNCHANGED <<batch, stage, backoff, log, faults>>
  BY DEF CommitTx, publisherVars, CommandInv, RequestsOK
<1>2. PICK m \in Messages : m = req[r].id
  BY <1>1
<1>3. /\ \A o \in Messages : o # m => rows'[o] = rows[o]
      /\ \E ev \in Event : /\ ev.id = m /\ Says(ev) = Stored(m)'
                           /\ Turns(ev, rows[m].status, rows'[m].status)
                           /\ OutboxInsert(ev, req[r].startedAt)
  BY <1>1, <1>2, WriteStep DEF CommitTx
<1>4. PICK ev \in Event : /\ ev.id = m /\ Says(ev) = Stored(m)'
                          /\ Turns(ev, rows[m].status, rows'[m].status)
                          /\ OutboxInsert(ev, req[r].startedAt)
  BY <1>3
<1> DEFINE new == [event |-> ev, created_at |-> req[r].startedAt, published |-> FALSE,
                   retry_count |-> 0]
<1>5. new.event = ev /\ ~new.published /\ new.retry_count = 0
  OBVIOUS
<1>6. outbox \in Seq(Outbox) /\ outbox' = Append(outbox, new)
  BY <1>4 DEF CommandInv, CommandTypeOK, Outbox, OutboxInsert
<1> HIDE DEF new
<1>7. /\ Len(outbox) \in Nat
      /\ DOMAIN outbox = 1..Len(outbox) /\ DOMAIN outbox' = 1..(Len(outbox) + 1)
      /\ \A i \in DOMAIN outbox : outbox'[i] = outbox[i]
      /\ outbox'[Len(outbox) + 1] = new
  BY <1>6
<1>8. Commits(m, ev)
  BY <1>1, <1>3, <1>4, <1>5, <1>7 DEF Commits
<1> QED
  BY <1>8

LEMMA EventsTyped ==
    ASSUME CommandInv
    PROVE  \A i \in DOMAIN outbox : outbox[i] \in Outbox /\ outbox[i].event \in Event
<1>1. outbox \in Seq(Outbox)
  BY DEF CommandInv, CommandTypeOK, Outbox
<1>2. \A i \in DOMAIN outbox : outbox[i] \in Outbox
  BY <1>1
<1> QED
  BY <1>2 DEF Outbox

LEMMA HistoryStep ==
    ASSUME CommandInv, HistoryOK, [CommandNext]_commandVars
    PROVE  HistoryOK'
<1>1. CASE \E r \in Requests : CommitTx(r)
  <2>1. PICK m \in Messages, ev \in Event : Commits(m, ev)
    BY <1>1, CommitAdds
  <2>2. PICK n \in Nat :
        /\ \A i \in DOMAIN outbox : i \in DOMAIN outbox' /\ i < n
        /\ n \in DOMAIN outbox' /\ n \notin DOMAIN outbox
        /\ \A i \in DOMAIN outbox' : i \in DOMAIN outbox \/ i = n
        /\ \A i \in DOMAIN outbox : outbox'[i] = outbox[i]
        /\ outbox'[n].event = ev /\ ev.id = m
        /\ \A i \in DOMAIN outbox' : i \in Nat
    BY <2>1 DEF Commits
  <2>3. \A i \in DOMAIN outbox : outbox[i].event.id \in Messages
    BY EventsTyped DEF Event
  <2>4. /\ Turns(ev, rows[m].status, rows'[m].status)
        /\ \A o \in Messages : o # m => rows'[o] = rows[o]
    BY <2>1 DEF Commits
  <2>5. /\ \A i \in DOMAIN outbox : Before(i, n)' <=> i \in EventsOf(m)
        /\ \A i, j \in DOMAIN outbox : Before(i, j)' <=> Before(i, j)
        /\ \A i \in DOMAIN outbox' : ~Before(n, i)'
    BY <2>2 DEF Before, EventsOf
  <2>6. ASSUME NEW i \in EventsOf(m)
        PROVE  outbox[i].event.type # "deleted_message" /\ ev.type # "new_message"
    BY <2>4, <2>6 DEF HistoryOK, EventsOf, Turns
  <2>7. \A i, j \in DOMAIN outbox' : Before(i, j)' =>
            outbox'[i].event.type # "deleted_message" /\ outbox'[j].event.type # "new_message"
    BY <2>2, <2>5, <2>6 DEF HistoryOK, EventsOf
  <2>8. ev.type = "new_message" \/ EventsOf(m) # {}
    BY <2>4 DEF HistoryOK, Turns
  <2>9. \A i \in DOMAIN outbox' :
            outbox'[i].event.type = "new_message" \/ \E j \in DOMAIN outbox' : Before(j, i)'
    <3>1. outbox'[n].event.type = "new_message" \/ \E j \in DOMAIN outbox' : Before(j, n)'
      BY <2>2, <2>5, <2>8 DEF EventsOf
    <3>2. \A i \in DOMAIN outbox :
            outbox'[i].event.type = "new_message" \/ \E j \in DOMAIN outbox' : Before(j, i)'
      BY <2>2, <2>5 DEF HistoryOK
    <3> QED
      BY <2>2, <3>1, <3>2
  <2>10. \A i \in DOMAIN outbox' :
          /\ outbox'[i].event.type = "deleted_message" \/ outbox'[i].event.content \in Contents
          /\ rows'[outbox'[i].event.id].status # "absent"
          /\ outbox'[i].event.type = "deleted_message"
                => rows'[outbox'[i].event.id].status = "deleted"
    <3>1. /\ ev.type = "deleted_message" \/ ev.content \in Contents
          /\ rows'[m].status # "absent"
          /\ ev.type = "deleted_message" => rows'[m].status = "deleted"
      BY <2>4 DEF Turns
    <3>2. ASSUME NEW i \in DOMAIN outbox
          PROVE  /\ rows'[outbox[i].event.id].status # "absent"
                 /\ outbox[i].event.type = "deleted_message"
                       => rows'[outbox[i].event.id].status = "deleted"
      <4>1. CASE outbox[i].event.id = m
        BY <2>6, <3>1, <4>1 DEF EventsOf
      <4>2. CASE outbox[i].event.id # m
        BY <2>3, <2>4, <4>2 DEF HistoryOK
      <4> QED
        BY <4>1, <4>2
    <3> QED
      BY <2>2, <3>1, <3>2 DEF HistoryOK
  <2>11. \A o \in Messages : rows'[o].status = "absent" \/ EventsOf(o)' # {}
    BY <2>2, <2>4 DEF HistoryOK, EventsOf
  <2> QED
    BY <2>7, <2>9, <2>10, <2>11 DEF HistoryOK
<1>2. CASE ~ \E r \in Requests : CommitTx(r)
  <2>1. /\ rows' = rows /\ DOMAIN outbox' = DOMAIN outbox
        /\ \A i \in DOMAIN outbox : outbox'[i].event = outbox[i].event
    BY <1>2, OnlyCommitsWrite
  <2>2. /\ \A i, j \in DOMAIN outbox : Before(i, j)' <=> Before(i, j)
        /\ \A m \in Messages : EventsOf(m)' = EventsOf(m)
    BY <2>1 DEF Before, EventsOf
  <2> QED
    BY <2>1, <2>2 DEF HistoryOK
<1> QED
  BY <1>1, <1>2

----------------------------------------------------------------------------
(* The publisher while nothing has failed *)

\* Nothing waits for a timer, an event is marked as soon as it is sent, and none
\* is sent twice.
QuietOK ==
    faults = 0 =>
        /\ backoff = {} /\ stage \in {"publish", "mark"}
        /\ \A i \in DOMAIN outbox : outbox[i].retry_count = 0
        /\ \A i \in SentEvents : outbox[i].published \/ (stage = "mark" /\ i = Current)
        /\ \A k, l \in DOMAIN log : log[k] = log[l] => k = l

\* Whatever is sent or about to be sent, the earlier events of its message were
\* sent before it.
OrderOK ==
    faults = 0 /\ InCommitOrder =>
        /\ \A l \in DOMAIN log, i \in DOMAIN outbox :
              Before(i, log[l]) => \E k \in DOMAIN log : k < l /\ log[k] = i
        /\ \A l \in DOMAIN batch, i \in DOMAIN outbox :
              Before(i, batch[l]) => \/ i \in SentEvents
                                     \/ \E k \in DOMAIN batch : k < l /\ batch[k] = i

publisherSide == <<outbox, batch, stage, backoff, log, faults>>

\* How the publisher sees a step.
LEMMA KindsOfSteps ==
    ASSUME [CommandNext]_commandVars
    PROVE  \/ UNCHANGED publisherSide
           \/ \E r \in Requests : CommitTx(r)
           \/ Poll \/ SkipBackoff \/ PublishOk \/ PublishFail
           \/ IncrementRetry \/ MarkPublished
           \/ \E i \in backoff : BackoffElapses(i)
           \/ CommandRestart
<1>1. CASE Handlers
  BY <1>1 DEF Handlers, AdmitCreate, AdmitUpdate, AdmitDelete, AdmitAdminDelete,
              Admit, BeginTx, RollbackTx, dbVars, publisherVars, publisherSide
<1>2. CASE RoomService
  BY <1>2 DEF RoomService, PopRoom, LeaveRoom, dbVars, publisherVars, publisherSide
<1>3. CASE Publisher
  BY <1>3 DEF Publisher
<1>4. CASE UNCHANGED commandVars
  BY <1>4 DEF commandVars, dbVars, publisherVars, publisherSide
<1> QED
  BY <1>1, <1>2, <1>3, <1>4 DEF CommandNext

\* What the publisher's variables are, for the lemmas below.
LEMMA PublisherTyped ==
    ASSUME CommandInv
    PROVE  /\ outbox \in Seq(Outbox) /\ batch \in Seq(DOMAIN outbox)
           /\ log \in Seq(DOMAIN outbox) /\ backoff \subseteq DOMAIN outbox
           /\ SentEvents \subseteq DOMAIN outbox
           /\ faults \in Nat
           /\ batch # <<>> => /\ Current \in DOMAIN outbox /\ Current = batch[1]
                              /\ 1 \in DOMAIN batch
                              /\ ~outbox[Current].published
           /\ stage # "publish" => batch # <<>>
<1>1. /\ outbox \in Seq(Outbox) /\ batch \in Seq(DOMAIN outbox)
      /\ log \in Seq(DOMAIN outbox) /\ backoff \subseteq DOMAIN outbox
      /\ faults \in Nat
  BY CommandConstants DEF CommandInv, CommandTypeOK, Outbox
<1>2. SentEvents \subseteq DOMAIN outbox
  BY <1>1 DEF SentEvents
<1>3. batch # <<>> => Current \in DOMAIN outbox /\ Current = batch[1] /\ 1 \in DOMAIN batch
  BY <1>1 DEF Current
<1> QED
  BY <1>1, <1>2, <1>3 DEF CommandInv, BatchOK, StageOK

LEMMA FaultsGrow ==
    ASSUME CommandInv, NEW kind, Fault(kind)
    PROVE  faults' = faults + 1 /\ faults' # 0
BY PublisherTyped DEF Fault

\* The current event is settled: what changes in the outbox.
LEMMA MarkChanges ==
    ASSUME CommandInv, MarkPublished, UNCHANGED faults
    PROVE  /\ DOMAIN outbox' = DOMAIN outbox /\ Current \in DOMAIN outbox
           /\ outbox'[Current].published
           /\ \A i \in DOMAIN outbox :
                 /\ i # Current => outbox'[i] = outbox[i]
                 /\ outbox'[i].event = outbox[i].event
                 /\ outbox'[i].created_at = outbox[i].created_at
                 /\ outbox'[i].retry_count = outbox[i].retry_count
           /\ batch' = Tail(batch) /\ stage' = "publish"
           /\ UNCHANGED <<log, backoff>>
<1>1. /\ batch # <<>> /\ NextEvent /\ UNCHANGED <<log, backoff>>
      /\ outbox' = [outbox EXCEPT ![Current].published = TRUE] \/ faults' = faults + 1
  BY FaultsGrow DEF MarkPublished
<1>2. outbox' = [outbox EXCEPT ![Current].published = TRUE]
  BY <1>1, PublisherTyped
<1>3. outbox \in Seq(Outbox) /\ Current \in DOMAIN outbox
  BY <1>1, PublisherTyped
<1>4. \A i \in DOMAIN outbox : outbox[i] \in Outbox
  BY <1>3
<1> QED
  BY <1>1, <1>2, <1>3, <1>4 DEF NextEvent, Outbox

LEMMA QuietStep ==
    ASSUME CommandInv, QuietOK, [CommandNext]_commandVars
    PROVE  QuietOK'
<1> SUFFICES ASSUME faults' = 0
             PROVE  /\ backoff' = {} /\ stage' \in {"publish", "mark"}
                    /\ \A i \in DOMAIN outbox' : outbox'[i].retry_count = 0
                    /\ \A i \in SentEvents' :
                          outbox'[i].published \/ (stage' = "mark" /\ i = Current')
                    /\ \A k, l \in DOMAIN log' : log'[k] = log'[l] => k = l
  BY DEF QuietOK
<1> DEFINE Goal == /\ backoff' = {} /\ stage' \in {"publish", "mark"}
                   /\ \A i \in DOMAIN outbox' : outbox'[i].retry_count = 0
                   /\ \A i \in SentEvents' :
                         outbox'[i].published \/ (stage' = "mark" /\ i = Current')
                   /\ \A k, l \in DOMAIN log' : log'[k] = log'[l] => k = l
<1>1. CASE UNCHANGED publisherSide
  BY <1>1 DEF QuietOK, publisherSide, SentEvents, Current
<1>2. CASE \E r \in Requests : CommitTx(r)
  <2>1. PICK m \in Messages, ev \in Event : Commits(m, ev)
    BY <1>2, CommitAdds
  <2>2. /\ SentEvents' = SentEvents /\ Current' = Current
        /\ UNCHANGED <<batch, stage, backoff, log, faults>>
    BY <2>1 DEF SentEvents, Current, Commits
  <2>3. PICK n \in Nat : /\ DOMAIN outbox' = DOMAIN outbox \cup {n}
                        /\ outbox'[n].retry_count = 0
                        /\ \A i \in DOMAIN outbox : outbox'[i] = outbox[i]
    BY <2>1 DEF Commits
  <2>4. \A i \in DOMAIN outbox' : outbox'[i].retry_count = 0
    BY <2>2, <2>3 DEF QuietOK
  <2>5. \A i \in SentEvents' : outbox'[i] = outbox[i]
    BY <2>2, <2>3, PublisherTyped
  <2> QED
    BY <2>2, <2>4, <2>5 DEF QuietOK
<1>3. CASE Poll
  <2>1. batch = <<>> /\ UNCHANGED <<outbox, stage, backoff, log, faults>>
    BY <1>3 DEF Poll, dbVars
  <2>2. stage = "publish" /\ SentEvents' = SentEvents
    BY <2>1, PublisherTyped DEF SentEvents
  <2> QED
    BY <2>1, <2>2 DEF QuietOK
<1>4. CASE SkipBackoff
  BY <1>4 DEF QuietOK, SkipBackoff
<1>5. CASE PublishOk
  <2>1. /\ batch # <<>> /\ stage = "publish" /\ log' = Append(log, Current)
        /\ backoff' = backoff \ {Current} /\ stage' = "mark"
        /\ UNCHANGED <<outbox, batch, faults>>
    BY <1>5 DEF PublishOk, dbVars
  <2>2. SentEvents' = SentEvents \cup {Current} /\ Current' = Current
    BY <2>1, StreamGrows DEF Current
  <2>3. Current \notin SentEvents
    BY <2>1, PublisherTyped DEF QuietOK
  <2>4. \A k, l \in DOMAIN log' : log'[k] = log'[l] => k = l
    <3>1. /\ \A k \in DOMAIN log' : k \in DOMAIN log \/ k = Len(log) + 1
          /\ \A k \in DOMAIN log : log'[k] = log[k] /\ log[k] \in SentEvents
          /\ log'[Len(log) + 1] = Current
      BY <2>1, PublisherTyped DEF SentEvents
    <3> QED
      BY <2>1, <2>3, <3>1 DEF QuietOK
  <2> QED
    BY <2>1, <2>2, <2>4 DEF QuietOK
<1>6. CASE PublishFail \/ CommandRestart
  BY <1>6, FaultsGrow DEF PublishFail, CommandRestart
<1>7. CASE IncrementRetry
  <2>1. faults = 0
    BY <1>7, FaultsGrow DEF IncrementRetry
  <2> QED
    BY <1>7, <2>1 DEF IncrementRetry, QuietOK
<1>8. CASE MarkPublished
  <2>1. UNCHANGED faults
    BY <1>8, FaultsGrow DEF MarkPublished
  <2>2. SentEvents' = SentEvents
    BY <1>8, <2>1, MarkChanges DEF SentEvents
  <2> QED
    BY <1>8, <2>1, <2>2, MarkChanges, PublisherTyped DEF QuietOK
<1>9. CASE \E i \in backoff : BackoffElapses(i)
  BY <1>9 DEF BackoffElapses, QuietOK
<1>10. Goal
  BY <1>1, <1>2, <1>3, <1>4, <1>5, <1>6, <1>7, <1>8, <1>9, KindsOfSteps
<1> QED
  BY <1>10

LEMMA OutboxIsFinite ==
    ASSUME CommandInv
    PROVE  outbox \in Seq(Outbox) /\ IsFiniteSet(DOMAIN outbox)
<1>1. outbox \in Seq(Outbox) /\ Len(outbox) \in Nat /\ DOMAIN outbox = 1..Len(outbox)
  BY PublisherTyped
<1>2. IsFiniteSet(1..Len(outbox))
  BY <1>1, FS_Interval
<1> QED
  BY <1>1, <1>2

\* A poll takes the oldest pending events, each once, in the order of their
\* creation.
LEMMA PollTakesAll ==
    ASSUME CommandInv, Poll
    PROVE  /\ batch' \in Seq(DOMAIN outbox)
           /\ \A k \in DOMAIN batch' : batch'[k] \in Oldest
           /\ \A i \in Oldest : \E k \in DOMAIN batch' : batch'[k] = i
           /\ \A k, l \in DOMAIN batch' :
                 k < l => outbox[batch'[k]].created_at < outbox[batch'[l]].created_at
<1>1. PICK b \in PollPending : b = batch'
  BY DEF Poll
<1>2. outbox \in Seq(Outbox) /\ IsFiniteSet(DOMAIN outbox)
  BY OutboxIsFinite
<1>3. IsFiniteSet(Oldest) /\ Oldest \subseteq DOMAIN outbox
  <2>1. Oldest \subseteq DOMAIN outbox
    BY DEF Oldest, Pending
  <2> QED
    BY <1>2, <2>1, FS_Subset
<1> DEFINE n == Cardinality(Oldest)
<1>4. n \in Nat
  BY <1>3, FS_CardinalityType
<1>5. b \in [1..n -> Oldest] /\ InOrder(b)
  BY <1>1 DEF PollPending
<1>6. \A k \in 1..n : outbox[b[k]].created_at \in Nat
  <2>1. \A i \in DOMAIN outbox : outbox[i] \in Outbox
    BY <1>2
  <2>2. \A i \in DOMAIN outbox : outbox[i].created_at \in Nat
    BY <2>1, CommandConstants DEF Outbox
  <2> QED
    BY <1>3, <1>5, <2>2
<1>7. ASSUME NEW k \in 1..n, NEW l \in 1..n, b[k] = b[l]
      PROVE  k = l
  <2>1. k < l \/ l < k \/ k = l
    BY <1>4
  <2> QED
    BY <1>5, <1>6, <1>7, <2>1 DEF InOrder
<1>8. b \in Injection(1..n, Oldest)
  BY <1>5, <1>7 DEF Injection, IsInjective
<1>9. IsFiniteSet(1..n) /\ Cardinality(1..n) = n
  BY <1>4, FS_Interval
<1>10. b \in Surjection(1..n, Oldest)
  BY <1>3, <1>8, <1>9, FS_Injection
<1>11. \A i \in Oldest : \E k \in 1..n : b[k] = i
  BY <1>10 DEF Surjection
<1>12. b \in Seq(DOMAIN outbox) /\ DOMAIN b = 1..n
  BY <1>3, <1>4, <1>5
<1> QED
  BY <1>1, <1>5, <1>11, <1>12 DEF InOrder

\* Of two pending events the earlier is polled whenever the later is.
LEMMA OldestIsClosed ==
    ASSUME CommandInv, NEW i \in Pending, NEW j \in Oldest,
           outbox[i].created_at < outbox[j].created_at
    PROVE  i \in Oldest
<1>1. outbox \in Seq(Outbox) /\ IsFiniteSet(DOMAIN outbox)
  BY OutboxIsFinite
<1>2. Pending \subseteq DOMAIN outbox /\ IsFiniteSet(Pending) /\ j \in Pending
  <2>1. Pending \subseteq DOMAIN outbox /\ j \in Pending
    BY DEF Pending, Oldest
  <2> QED
    BY <1>1, <2>1, FS_Subset
<1>3. \A h \in Pending : outbox[h].created_at \in Nat
  <2>1. \A h \in DOMAIN outbox : outbox[h] \in Outbox
    BY <1>1
  <2> QED
    BY <1>2, <2>1, CommandConstants DEF Outbox
<1>4. Earlier(i, Pending) \subseteq Earlier(j, Pending)
  BY <1>2, <1>3 DEF Earlier
<1>5. IsFiniteSet(Earlier(j, Pending))
  <2>1. Earlier(j, Pending) \subseteq Pending
    BY DEF Earlier
  <2> QED
    BY <1>2, <2>1, FS_Subset
<1>6. Cardinality(Earlier(i, Pending)) <= Cardinality(Earlier(j, Pending))
  BY <1>4, <1>5, FS_Subset
<1>7. Cardinality(Earlier(i, Pending)) \in Nat /\ Cardinality(Earlier(j, Pending)) \in Nat
  BY <1>4, <1>5, FS_Subset, FS_CardinalityType
<1>8. Cardinality(Earlier(j, Pending)) < BatchSize
  BY DEF Oldest
<1> QED
  BY <1>6, <1>7, <1>8, CommandConstants DEF Oldest

\* A step neither mends the order of the commits nor takes back a failure.
LEMMA CalmIsInherited ==
    ASSUME CommandInv, [CommandNext]_commandVars, faults' = 0
    PROVE  faults = 0 /\ (InCommitOrder' => InCommitOrder)
<1>1. CASE \E r \in Requests : CommitTx(r)
  <2>1. PICK m \in Messages, ev \in Event : Commits(m, ev)
    BY <1>1, CommitAdds
  <2> QED
    BY <2>1 DEF Commits, InCommitOrder
<1>2. CASE ~ \E r \in Requests : CommitTx(r)
  <2>1. DOMAIN outbox' = DOMAIN outbox
    BY <1>2, OnlyCommitsWrite
  <2>2. \A i \in DOMAIN outbox : outbox'[i].event = outbox[i].event
    BY <1>2, OnlyCommitsWrite
  <2>3. faults = 0 /\ \A i \in DOMAIN outbox : outbox'[i].created_at = outbox[i].created_at
    <3>1. CASE UNCHANGED publisherSide
      BY <3>1 DEF publisherSide
    <3>2. CASE Poll \/ SkipBackoff \/ PublishOk \/ \E i \in backoff : BackoffElapses(i)
      BY <3>2 DEF Poll, SkipBackoff, PublishOk, BackoffElapses, dbVars
    <3>3. CASE PublishFail \/ CommandRestart
      BY <3>3, FaultsGrow DEF PublishFail, CommandRestart
    <3>4. CASE IncrementRetry
      <4>1. /\ faults = 0
            /\ outbox' = [outbox EXCEPT ![Current].retry_count = @ + 1]
        BY <3>4, FaultsGrow DEF IncrementRetry
      <4>2. \A i \in DOMAIN outbox : outbox[i] \in Outbox
        BY PublisherTyped
      <4> QED
        BY <4>1, <4>2 DEF Outbox
    <3>5. CASE MarkPublished
      <4>1. UNCHANGED faults
        BY <3>5, FaultsGrow DEF MarkPublished
      <4> QED
        BY <3>5, <4>1, MarkChanges
    <3> QED
      BY <1>2, <3>1, <3>2, <3>3, <3>4, <3>5, KindsOfSteps
  <2> QED
    BY <2>1, <2>2, <2>3 DEF InCommitOrder
<1> QED
  BY <1>1, <1>2

LEMMA OrderStep ==
    ASSUME CommandInv, QuietOK, OrderOK, [CommandNext]_commandVars
    PROVE  OrderOK'
<1> DEFINE Sorted(lg) == \A l \in DOMAIN lg, i \in DOMAIN outbox :
                   Before(i, lg[l]) => \E k \in DOMAIN lg : k < l /\ lg[k] = i
           Queued(bt, S) == \A l \in DOMAIN bt, i \in DOMAIN outbox :
                   Before(i, bt[l]) => \/ i \in S
                                       \/ \E k \in DOMAIN bt : k < l /\ bt[k] = i
<1> SUFFICES ASSUME faults' = 0, InCommitOrder'
             PROVE  OrderOK'
  BY DEF OrderOK
<1>0. faults = 0 /\ InCommitOrder /\ Sorted(log) /\ Queued(batch, SentEvents)
  BY CalmIsInherited DEF OrderOK
<1>1. CASE \E r \in Requests : CommitTx(r)
  <2>1. PICK m \in Messages, ev \in Event : Commits(m, ev)
    BY <1>1, CommitAdds
  <2>2. UNCHANGED <<log, batch>> /\ SentEvents' = SentEvents
    BY <2>1 DEF Commits, SentEvents
  <2>3. /\ \A l \in DOMAIN log : log[l] \in DOMAIN outbox
        /\ \A l \in DOMAIN batch : batch[l] \in DOMAIN outbox
    BY PublisherTyped
  <2>4. \A j \in DOMAIN outbox, i \in DOMAIN outbox' :
            Before(i, j)' => i \in DOMAIN outbox /\ Before(i, j)
    BY <2>1 DEF Before, Commits
  <2> QED
    BY <1>0, <2>2, <2>3, <2>4 DEF OrderOK
<1>2. CASE ~ \E r \in Requests : CommitTx(r)
  <2>1. /\ DOMAIN outbox' = DOMAIN outbox
        /\ \A i, j \in DOMAIN outbox : Before(i, j)' <=> Before(i, j)
    BY <1>2, OnlyCommitsWrite DEF Before
  <2>2. SUFFICES Sorted(log') /\ Queued(batch', SentEvents') /\
                 log' \in Seq(DOMAIN outbox) /\ batch' \in Seq(DOMAIN outbox)
    <3>1. /\ log' \in Seq(DOMAIN outbox) => \A l \in DOMAIN log' : log'[l] \in DOMAIN outbox
          /\ batch' \in Seq(DOMAIN outbox) => \A l \in DOMAIN batch' : batch'[l] \in DOMAIN outbox
      OBVIOUS
    <3> QED
      BY <2>1, <2>2, <3>1 DEF OrderOK
  <2>3. /\ log \in Seq(DOMAIN outbox) /\ batch \in Seq(DOMAIN outbox)
        /\ batch # <<>> => /\ Current \in DOMAIN outbox /\ Current = batch[1]
                           /\ 1 \in DOMAIN batch
    BY PublisherTyped
  <2>4. CASE UNCHANGED publisherSide
    BY <1>0, <2>3, <2>4 DEF publisherSide, SentEvents
  <2>5. CASE Poll
    <3>1. UNCHANGED log /\ SentEvents' = SentEvents
      BY <2>5 DEF Poll, SentEvents
    <3>2. ASSUME NEW l \in DOMAIN batch', NEW i \in DOMAIN outbox,
                 Before(i, batch'[l]), i \notin SentEvents
          PROVE  \E k \in DOMAIN batch' : k < l /\ batch'[k] = i
      <4> DEFINE j == batch'[l]
      <4>1. j \in Oldest /\ j \in DOMAIN outbox
        BY <2>5, PollTakesAll DEF Oldest, Pending
      <4>2. i \in Pending
        BY <1>0, <3>2, CommandConstants DEF Pending, CommandInv, MarkedWasSent, QuietOK
      <4>3. outbox[i].created_at < outbox[j].created_at
        BY <1>0, <3>2, <4>1 DEF InCommitOrder, Before
      <4>4. i \in Oldest
        BY <4>1, <4>2, <4>3, OldestIsClosed
      <4>5. PICK k \in DOMAIN batch' : batch'[k] = i
        BY <2>5, <4>4, PollTakesAll
      <4>6. /\ outbox[i].created_at \in Nat /\ outbox[j].created_at \in Nat
            /\ k \in Nat /\ l \in Nat
        <5>1. outbox[i] \in Outbox /\ outbox[j] \in Outbox
          BY <4>1, PublisherTyped
        <5>2. batch' \in Seq(DOMAIN outbox)
          BY <2>5, PollTakesAll
        <5> QED
          BY <5>1, <5>2, CommandConstants DEF Outbox
      <4>7. ~(l < k) /\ k # l
        BY <2>5, <4>3, <4>5, <4>6, PollTakesAll
      <4> QED
        BY <4>5, <4>6, <4>7
    <3> QED
      BY <1>0, <2>3, <2>5, <3>1, <3>2, PollTakesAll
  <2>6. CASE SkipBackoff
    BY <1>0, <2>6 DEF SkipBackoff, QuietOK
  <2>7. CASE PublishOk
    <3>1. /\ batch # <<>> /\ log' = Append(log, Current) /\ UNCHANGED batch
          /\ SentEvents' = SentEvents \cup {Current}
      BY <2>7, <2>3, StreamGrows DEF PublishOk
    <3>2. \A i \in DOMAIN outbox : Before(i, Current) => \E k \in DOMAIN log : log[k] = i
      BY <1>0, <2>3, <3>1 DEF SentEvents
    <3>3. /\ Len(log) \in Nat /\ DOMAIN log = 1..Len(log)
          /\ DOMAIN log' = 1..(Len(log) + 1) /\ log'[Len(log) + 1] = Current
          /\ \A k \in DOMAIN log : log'[k] = log[k]
          /\ log' \in Seq(DOMAIN outbox)
      BY <2>3, <3>1
    <3>4. Sorted(log')
      BY <1>0, <3>2, <3>3
    <3> QED
      BY <1>0, <2>3, <3>1, <3>3, <3>4
  <2>8. CASE PublishFail \/ CommandRestart
    BY <2>8, FaultsGrow DEF PublishFail, CommandRestart
  <2>9. CASE IncrementRetry
    BY <1>0, <2>9 DEF IncrementRetry, QuietOK
  <2>10. CASE MarkPublished
    <3>1. /\ batch # <<>> /\ batch' = Tail(batch) /\ UNCHANGED log
          /\ SentEvents' = SentEvents
      <4>1. UNCHANGED faults
        BY <1>0
      <4> QED
        BY <2>10, <4>1, MarkChanges DEF MarkPublished, SentEvents
    <3>2. Current \in SentEvents
      BY <2>10 DEF MarkPublished, CommandInv, StageOK
    <3>3. /\ batch' \in Seq(DOMAIN outbox)
          /\ \A l \in DOMAIN batch' : /\ l + 1 \in DOMAIN batch /\ l \in Nat
                                      /\ batch'[l] = batch[l + 1]
          /\ \A k \in DOMAIN batch : k = 1 \/ (k - 1 \in DOMAIN batch' /\ k \in Nat
                                                /\ batch'[k - 1] = batch[k])
      BY <2>3, <3>1
    <3>4. ASSUME NEW l \in DOMAIN batch', NEW i \in DOMAIN outbox,
                 Before(i, batch'[l]), i \notin SentEvents
          PROVE  \E k \in DOMAIN batch' : k < l /\ batch'[k] = i
      <4>1. PICK k \in DOMAIN batch : k < l + 1 /\ batch[k] = i
        BY <1>0, <3>3, <3>4
      <4>2. k # 1
        BY <2>3, <3>1, <3>2, <3>4, <4>1
      <4> QED
        BY <3>3, <4>1, <4>2
    <3> QED
      BY <1>0, <2>3, <3>1, <3>3, <3>4
  <2>11. CASE \E i \in backoff : BackoffElapses(i)
    BY <1>0, <2>3, <2>11 DEF BackoffElapses, SentEvents
  <2> QED
    BY <1>2, <2>4, <2>5, <2>6, <2>7, <2>8, <2>9, <2>10, <2>11, KindsOfSteps
<1> QED
  BY <1>1, <1>2

\* While nothing has failed, and the transactions of each message committed in
\* the order they started in, the stream has them in commit order (ORDER BY
\* created_at in PollPending and the in-order loop of processBatch).
THEOREM FaultFreeFifoAlways == CommandSpec => []FaultFreeFifo
<1>1. CommandInit => QuietOK /\ OrderOK
  BY DEF CommandInit, QuietOK, OrderOK, SentEvents
<1>2. CommandInv /\ QuietOK /\ OrderOK /\ [CommandNext]_commandVars => QuietOK' /\ OrderOK'
  BY QuietStep, OrderStep
<1>3. CommandInv /\ QuietOK /\ OrderOK => FaultFreeFifo
  <2> SUFFICES ASSUME CommandInv, QuietOK, OrderOK, faults = 0, InCommitOrder,
                      NEW k \in DOMAIN log, NEW l \in DOMAIN log, k < l,
                      outbox[log[k]].event.id = outbox[log[l]].event.id
               PROVE  log[k] < log[l]
    BY DEF FaultFreeFifo
  <2>1. /\ log[k] \in DOMAIN outbox /\ log[l] \in DOMAIN outbox
        /\ k \in Nat /\ l \in Nat /\ log[k] \in Nat /\ log[l] \in Nat
    BY PublisherTyped
  <2>2. log[k] # log[l]
    BY <2>1 DEF QuietOK
  <2>3. ASSUME log[l] < log[k] PROVE FALSE
    <3>1. Before(log[l], log[k])
      BY <2>1, <2>3 DEF Before
    <3>2. PICK h \in DOMAIN log : h < k /\ log[h] = log[l]
      BY <2>1, <3>1 DEF OrderOK
    <3>3. h = l
      BY <3>2 DEF QuietOK
    <3> QED
      BY <2>1, <3>2, <3>3
  <2> QED
    BY <2>1, <2>2, <2>3
<1> QED
  BY <1>1, <1>2, <1>3, CommandInvariant, PTL DEF CommandSpec

----------------------------------------------------------------------------
(* What a failure may cost *)

\* Events the stream has and the publisher would send again.
Unmarked == {i \in SentEvents : ~outbox[i].published /\ ~(stage = "mark" /\ i = Current)}

\* A failure pays for one duplicate: one in the stream, or one still to come.
DebtOK == Len(log) + Cardinality(Unmarked) <= Cardinality(SentEvents) + faults

LEMMA SentIsFinite ==
    ASSUME CommandInv
    PROVE  /\ IsFiniteSet(SentEvents) /\ IsFiniteSet(Unmarked)
           /\ Cardinality(SentEvents) \in Nat /\ Cardinality(Unmarked) \in Nat
           /\ Len(log) \in Nat /\ faults \in Nat
<1>1. SentEvents \subseteq DOMAIN outbox /\ IsFiniteSet(DOMAIN outbox)
  BY PublisherTyped, OutboxIsFinite
<1>2. IsFiniteSet(SentEvents)
  BY <1>1, FS_Subset
<1>3. Unmarked \subseteq SentEvents
  BY DEF Unmarked
<1>4. IsFiniteSet(Unmarked)
  BY <1>2, <1>3, FS_Subset
<1>5. Len(log) \in Nat /\ faults \in Nat
  BY PublisherTyped
<1> QED
  BY <1>2, <1>4, <1>5, FS_CardinalityType

\* Nothing new is owed.
LEMMA NothingOwed ==
    ASSUME CommandInv, CommandInv', DebtOK, UNCHANGED log,
           Unmarked' \subseteq Unmarked,
           faults' = faults \/ faults' = faults + 1
    PROVE  DebtOK'
<1>1. SentEvents' = SentEvents
  BY DEF SentEvents
<1>2. Cardinality(Unmarked') <= Cardinality(Unmarked)
  BY SentIsFinite, FS_Subset
<1>3. Cardinality(Unmarked') \in Nat /\ Cardinality(SentEvents') = Cardinality(SentEvents)
  BY <1>1, SentIsFinite, FS_Subset, FS_CardinalityType
<1> QED
  BY <1>2, <1>3, SentIsFinite DEF DebtOK

\* One failure, and one event more that will be sent again.
LEMMA OneOwed ==
    ASSUME CommandInv, CommandInv', DebtOK, UNCHANGED log, NEW x,
           Unmarked' \subseteq Unmarked \cup {x},
           faults' = faults + 1
    PROVE  DebtOK'
<1>1. SentEvents' = SentEvents
  BY DEF SentEvents
<1>2. /\ IsFiniteSet(Unmarked \cup {x})
      /\ Cardinality(Unmarked \cup {x}) \in Nat
      /\ Cardinality(Unmarked \cup {x}) <= Cardinality(Unmarked) + 1
  <2>1. /\ IsFiniteSet(Unmarked \cup {x})
        /\ Cardinality(Unmarked \cup {x}) =
              IF x \in Unmarked THEN Cardinality(Unmarked) ELSE Cardinality(Unmarked) + 1
    BY SentIsFinite, FS_AddElement
  <2> QED
    BY <2>1, SentIsFinite
<1>3. Cardinality(Unmarked') <= Cardinality(Unmarked \cup {x}) /\ IsFiniteSet(Unmarked')
  BY <1>2, FS_Subset
<1>4. Cardinality(Unmarked') \in Nat /\ Cardinality(SentEvents') = Cardinality(SentEvents)
  BY <1>1, <1>3, FS_CardinalityType
<1> QED
  BY <1>2, <1>3, <1>4, SentIsFinite DEF DebtOK

\* The stream gets one event more: it settles one debt, or a failure pays.
LEMMA OneSent ==
    ASSUME CommandInv, CommandInv', DebtOK, batch # <<>>, log' = Append(log, Current),
           Current \in SentEvents => Current \in Unmarked,
           \/ Unmarked' = Unmarked \ {Current} /\ faults' = faults
           \/ Unmarked' = Unmarked \cup {Current} /\ faults' = faults + 1
    PROVE  DebtOK'
<1>1. SentEvents' = SentEvents \cup {Current}
  BY StreamGrows
<1>2. Len(log') = Len(log) + 1
  BY PublisherTyped
<1>3. /\ Cardinality(SentEvents') = IF Current \in SentEvents THEN Cardinality(SentEvents)
                                                             ELSE Cardinality(SentEvents) + 1
      /\ Cardinality(Unmarked \cup {Current}) = IF Current \in Unmarked THEN Cardinality(Unmarked)
                                                             ELSE Cardinality(Unmarked) + 1
      /\ Cardinality(Unmarked \ {Current}) = IF Current \in Unmarked THEN Cardinality(Unmarked) - 1
                                                             ELSE Cardinality(Unmarked)
  BY <1>1, SentIsFinite, FS_AddElement, FS_RemoveElement
<1>4. Current \in SentEvents <=> Current \in Unmarked
  BY DEF Unmarked
<1>5. CASE Unmarked' = Unmarked \ {Current} /\ faults' = faults
  BY <1>2, <1>3, <1>4, <1>5, SentIsFinite DEF DebtOK
<1>6. CASE Unmarked' = Unmarked \cup {Current} /\ faults' = faults + 1
  BY <1>2, <1>3, <1>4, <1>6, SentIsFinite DEF DebtOK
<1> QED
  BY <1>5, <1>6

LEMMA DebtStep ==
    ASSUME CommandInv, CommandInv', DebtOK, [CommandNext]_commandVars
    PROVE  DebtOK'
<1>0. /\ \A i \in SentEvents : i \in DOMAIN outbox
      /\ \A i \in DOMAIN outbox : outbox[i] \in Outbox
      /\ batch # <<>> => Current \in DOMAIN outbox /\ ~outbox[Current].published
      /\ stage # "publish" => batch # <<>>
  BY PublisherTyped
<1>1. CASE UNCHANGED publisherSide
  <2>1. Unmarked' = Unmarked /\ UNCHANGED <<log, faults>>
    BY <1>1 DEF publisherSide, Unmarked, SentEvents, Current
  <2> QED
    BY <2>1, NothingOwed
<1>2. CASE \E r \in Requests : CommitTx(r)
  <2>1. PICK m \in Messages, ev \in Event : Commits(m, ev)
    BY <1>2, CommitAdds
  <2>2. /\ UNCHANGED <<log, faults, stage>> /\ SentEvents' = SentEvents /\ Current' = Current
        /\ \A i \in DOMAIN outbox : outbox'[i] = outbox[i]
    BY <2>1 DEF Commits, SentEvents, Current
  <2>3. Unmarked' = Unmarked
    BY <1>0, <2>2 DEF Unmarked
  <2> QED
    BY <2>2, <2>3, NothingOwed
<1>3. CASE Poll \/ SkipBackoff \/ \E i \in backoff : BackoffElapses(i)
  <2>1. UNCHANGED <<log, faults, outbox>> /\ SentEvents' = SentEvents
    BY <1>3 DEF Poll, SkipBackoff, BackoffElapses, dbVars, SentEvents
  <2>2. \/ stage = "publish" /\ stage' = "publish"
        \/ stage' = stage /\ Current' = Current
    BY <1>0, <1>3 DEF Poll, SkipBackoff, NextEvent, BackoffElapses, Current
  <2>3. Unmarked' = Unmarked
    BY <2>1, <2>2 DEF Unmarked
  <2> QED
    BY <2>1, <2>3, NothingOwed
<1>4. CASE PublishOk
  <2>1. /\ batch # <<>> /\ stage = "publish" /\ log' = Append(log, Current)
        /\ stage' = "mark" /\ UNCHANGED <<outbox, batch, faults>>
    BY <1>4 DEF PublishOk, dbVars
  <2>2. SentEvents' = SentEvents \cup {Current} /\ Current' = Current
    BY <2>1, StreamGrows DEF Current
  <2>3. Unmarked' = Unmarked \ {Current}
    BY <2>1, <2>2 DEF Unmarked
  <2>4. Current \in SentEvents => Current \in Unmarked
    BY <1>0, <2>1 DEF Unmarked
  <2> QED
    BY <2>1, <2>3, <2>4, OneSent
<1>5. CASE PublishFail
  <2>1. /\ batch # <<>> /\ stage = "publish" /\ stage' = "retry"
        /\ UNCHANGED <<outbox, batch>> /\ faults' = faults + 1
        /\ log' = log \/ log' = Append(log, Current)
    BY <1>5, FaultsGrow DEF PublishFail, dbVars
  <2>2. CASE log' = log
    <3>1. Unmarked' = Unmarked
      BY <2>1, <2>2 DEF Unmarked, SentEvents
    <3> QED
      BY <2>1, <2>2, <3>1, NothingOwed
  <2>3. CASE log' = Append(log, Current)
    <3>1. SentEvents' = SentEvents \cup {Current}
      BY <2>1, <2>3, StreamGrows
    <3>2. Unmarked' = Unmarked \cup {Current}
      BY <1>0, <2>1, <3>1 DEF Unmarked
    <3>3. Current \in SentEvents => Current \in Unmarked
      BY <1>0, <2>1 DEF Unmarked
    <3> QED
      BY <2>1, <2>3, <3>2, <3>3, OneSent
  <2> QED
    BY <2>1, <2>2, <2>3
<1>6. CASE IncrementRetry
  <2>1. /\ stage = "retry" /\ stage' = "publish" /\ UNCHANGED log
        /\ SentEvents' = SentEvents
        /\ faults' = faults \/ faults' = faults + 1
        /\ \A i \in DOMAIN outbox : outbox'[i].published = outbox[i].published
    <3>1. /\ stage = "retry" /\ stage' = "publish" /\ UNCHANGED log
          /\ \/ /\ outbox' = [outbox EXCEPT ![Current].retry_count = @ + 1]
                /\ faults' = faults
             \/ faults' = faults + 1 /\ UNCHANGED outbox
      BY <1>6, FaultsGrow DEF IncrementRetry, NextEvent
    <3>2. \A i \in DOMAIN outbox : outbox'[i].published = outbox[i].published
      BY <1>0, <3>1 DEF Outbox
    <3> QED
      BY <3>1, <3>2 DEF SentEvents
  <2>2. Unmarked' = Unmarked
    BY <1>0, <2>1 DEF Unmarked
  <2> QED
    BY <2>1, <2>2, NothingOwed
<1>7. CASE MarkPublished
  <2>1. /\ batch # <<>> /\ stage = "mark" /\ stage' = "publish" /\ UNCHANGED log
        /\ SentEvents' = SentEvents
        /\ UNCHANGED faults \/ (faults' = faults + 1 /\ UNCHANGED outbox)
    BY <1>7, FaultsGrow DEF MarkPublished, NextEvent, SentEvents
  <2>2. CASE UNCHANGED faults
    <3>1. /\ outbox'[Current].published
          /\ \A i \in DOMAIN outbox : i # Current => outbox'[i] = outbox[i]
      BY <1>7, <2>2, MarkChanges
    <3>2. Unmarked' \subseteq Unmarked
      BY <1>0, <2>1, <3>1 DEF Unmarked
    <3> QED
      BY <2>1, <2>2, <3>2, NothingOwed
  <2>3. CASE faults' = faults + 1 /\ UNCHANGED outbox
    <3>1. Unmarked' \subseteq Unmarked \cup {Current}
      BY <2>1, <2>3 DEF Unmarked
    <3> QED
      BY <2>1, <2>3, <3>1, OneOwed
  <2> QED
    BY <2>1, <2>2, <2>3
<1>8. CASE CommandRestart
  <2>1. /\ stage' = "publish" /\ UNCHANGED <<log, outbox>> /\ faults' = faults + 1
    BY <1>8, FaultsGrow DEF CommandRestart, dbVars
  <2>2. Unmarked' \subseteq Unmarked \cup {Current}
    BY <2>1 DEF Unmarked, SentEvents
  <2> QED
    BY <2>1, <2>2, OneOwed
<1> QED
  BY <1>1, <1>2, <1>3, <1>4, <1>5, <1>6, <1>7, <1>8, KindsOfSteps

\* The stream holds no more duplicates than there were failures: an event is
\* sent twice only when an acknowledgement was lost, a mark failed, or the
\* process stopped between PublishRaw and MarkPublished (processBatch).
THEOREM DuplicatesNeedFaultsAlways == CommandSpec => []DuplicatesNeedFaults
<1>1. CommandInit => DebtOK
  <2>1. SUFFICES ASSUME CommandInit PROVE DebtOK
    OBVIOUS
  <2>2. SentEvents = {} /\ log = <<>> /\ faults = 0
    BY <2>1 DEF CommandInit, SentEvents
  <2>3. Unmarked = {}
    BY <2>2 DEF Unmarked
  <2> QED
    BY <2>2, <2>3, FS_EmptySet DEF DebtOK
<1>2. CommandInv /\ CommandInv' /\ DebtOK /\ [CommandNext]_commandVars => DebtOK'
  BY DebtStep
<1>3. CommandInv /\ DebtOK => DuplicatesNeedFaults
  BY SentIsFinite DEF DebtOK, DuplicatesNeedFaults
<1> QED
  BY <1>1, <1>2, <1>3, CommandInvariant, PTL DEF CommandSpec
=============================================================================
