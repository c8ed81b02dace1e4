------------------------- MODULE ChatPipelineProofs -------------------------
(***************************************************************************)
(* Proofs about ChatPipeline, for every value of its constants.            *)
(*                                                                         *)
(* The write side keeps the invariants of ChatCommandProofs: a step of the *)
(* query service changes nothing of it but the count of failures. To them  *)
(* the inductive invariant adds what the consumer holds, what it still     *)
(* owes the handler, and how the projection relates to the stream while    *)
(* nothing has failed.                                                     *)
(***************************************************************************)
EXTENDS ChatPipeline, ChatCommandProofs

\* What the write side promises to the stream and to its readers.
WriteSideInv ==
    /\ CommandInv /\ HistoryOK /\ OutboxIsComplete
    /\ QuietOK /\ OrderOK

\* The deliveries the server waits for, as its client library has them.
Deliveries == [pos : DOMAIN log, n : Nat, due : BOOLEAN]

ConsumerOK ==
    /\ next \in 1..(Len(log) + 1)
    /\ inbox \in Seq(DOMAIN log)
    /\ unacked \subseteq Deliveries
    /\ handled => inbox # <<>> /\ Head(inbox) \in seen

ViewRow == [status : {"absent", "live", "deleted"}, content : Contents \cup {None}]

\* A row the readers see has a body.
ViewOK ==
    /\ view \in [Messages -> ViewRow]
    /\ \A m \in Messages : view[m].status = "live" => view[m].content \in Contents

----------------------------------------------------------------------------
(* The write side under the steps of the pipeline *)

LEMMA QueryFaults ==
    ASSUME CommandInv, QueryStep
    PROVE  faults' = faults \/ (faults' = faults + 1 /\ faults' \in 0..MaxFaults)
<1>1. faults \in Nat
  BY PublisherTyped
<1>2. \A kind : Q!Fault(kind) => faults' = faults + 1 /\ faults' \in 0..MaxFaults
  BY <1>1, CommandConstants DEF Q!Fault
<1> QED
  BY <1>2 DEF QueryStep, Q!QueryNext, Q!Deliver, Q!Handle, Q!Ack, Q!AckWaitElapses,
              Q!Redeliver, Q!QueryStop, Q!ConsumerExpires, Q!QueryStart

LEMMA WriteSideStep ==
    ASSUME WriteSideInv, [PipelineNext]_pipelineVars
    PROVE  WriteSideInv'
<1>1. CASE [CommandNext]_commandVars
  BY <1>1, CommandStepInv, HistoryStep, CompleteStep, QuietStep, OrderStep DEF WriteSideInv
<1>2. CASE QueryStep
  <2>1. UNCHANGED <<rows, outbox, now, popped, members, req, batch, stage, backoff, log>>
    BY <1>2 DEF QueryStep, commandSide, dbVars, roomVars, publisherVars
  <2>2. faults' \in 0..MaxFaults /\ (faults' = 0 => faults = 0) /\ CommandInv
    <3>1. CommandInv /\ faults \in Nat /\ faults \in 0..MaxFaults
      BY PublisherTyped DEF WriteSideInv, CommandInv, CommandTypeOK
    <3> QED
      BY <1>2, <3>1, QueryFaults
  <2>3. CommandTypeOK'
    BY <2>1, <2>2 DEF CommandInv, CommandTypeOK
  <2>4. CommandInv'
    BY <2>1, <2>2, <2>3 DEF CommandInv, RowsOK, RequestsOK, BatchOK, InOrder, StageOK,
                            MarkedWasSent, SentEvents, Current
  <2>5. /\ \A i, j \in DOMAIN outbox : Before(i, j)' <=> Before(i, j)
        /\ \A m \in Messages : EventsOf(m)' = EventsOf(m) /\ Stored(m)' = Stored(m)
        /\ SentEvents' = SentEvents /\ Current' = Current
        /\ InCommitOrder' <=> InCommitOrder
    BY <2>1 DEF Before, EventsOf, Stored, SentEvents, Current, InCommitOrder
  <2>6. HistoryOK' /\ OutboxIsComplete'
    BY <2>1, <2>5 DEF WriteSideInv, HistoryOK, OutboxIsComplete
  <2>7. QuietOK'
    BY <2>1, <2>2, <2>5 DEF WriteSideInv, QuietOK
  <2>8. OrderOK'
    <3>1. \A i \in DOMAIN outbox :
            /\ \A l \in DOMAIN log : Before(i, log[l])' <=> Before(i, log[l])
            /\ \A l \in DOMAIN batch : Before(i, batch[l])' <=> Before(i, batch[l])
      BY <2>1 DEF Before
    <3> QED
      BY <2>1, <2>2, <2>5, <3>1 DEF WriteSideInv, OrderOK
  <2> QED
    BY <2>4, <2>6, <2>7, <2>8 DEF WriteSideInv
<1> QED
  BY <1>1, <1>2 DEF PipelineNext, CommandStep, pipelineVars

LEMMA WriteSideInit == CommandInit => WriteSideInv
<1> SUFFICES ASSUME CommandInit PROVE WriteSideInv
  OBVIOUS
<1>1. CommandInv
  BY CommandInitInv
<1>2. /\ outbox = <<>> /\ log = <<>> /\ batch = <<>> /\ backoff = {} /\ stage = "publish"
      /\ \A m \in Messages : rows[m].status = "absent"
  BY DEF CommandInit, NoRow
<1> QED
  BY <1>1, <1>2 DEF WriteSideInv, HistoryOK, OutboxIsComplete, QuietOK, OrderOK,
                    EventsOf, SentEvents

THEOREM WriteSideInvariant == PipelineSpec => []WriteSideInv
BY WriteSideInit, WriteSideStep, PTL DEF PipelineSpec, PipelineInit

----------------------------------------------------------------------------
(* The stream as the query service sees it *)

LEMMA StreamIsLog ==
    ASSUME CommandInv
    PROVE  /\ Len(Stream) = Len(log) /\ Len(log) \in Nat /\ DOMAIN log = 1..Len(log)
           /\ \A k \in DOMAIN log : /\ Stream[k] = outbox[log[k]].event
                                    /\ Stream[k] \in Event /\ log[k] \in DOMAIN outbox
<1>1. /\ log \in Seq(DOMAIN outbox) /\ Len(log) \in Nat /\ DOMAIN log = 1..Len(log)
      /\ \A k \in DOMAIN log : log[k] \in DOMAIN outbox
  BY PublisherTyped
<1>2. \A k \in DOMAIN log : Stream[k] = outbox[log[k]].event /\ Stream[k] \in Event
  BY <1>1, EventsTyped DEF Stream
<1>3. Stream \in Seq(Event)
  <2>1. Stream \in [1..Len(log) -> Event]
    BY <1>1, <1>2 DEF Stream
  <2> QED
    BY <1>1, <2>1, SeqDef
<1>4. Len(Stream) = Len(log)
  BY <1>1, <1>3 DEF Stream
<1> QED
  BY <1>1, <1>2, <1>4

\* The stream only grows, and what it holds stays what it is.
LEMMA StreamStays ==
    ASSUME CommandInv, CommandInv', [CommandNext]_commandVars
    PROVE  /\ Len(log) \in Nat /\ Len(log') \in Nat /\ Len(log') >= Len(log)
           /\ \A k \in DOMAIN log : k \in DOMAIN log' /\ log'[k] = log[k]
           /\ \A i \in DOMAIN outbox : i \in DOMAIN outbox' /\ outbox'[i].event = outbox[i].event
<1>1. /\ log \in Seq(DOMAIN outbox)
      /\ batch # <<>> => Current \in DOMAIN outbox
  BY PublisherTyped
<1>2. log' = log \/ (batch # <<>> /\ log' = Append(log, Current))
  BY KindsOfSteps, CommitAdds
     DEF publisherSide, Commits, Poll, SkipBackoff, PublishOk, PublishFail,
         IncrementRetry, MarkPublished, BackoffElapses, CommandRestart
<1>3. \A i \in DOMAIN outbox : i \in DOMAIN outbox' /\ outbox'[i].event = outbox[i].event
  <2>1. CASE \E r \in Requests : CommitTx(r)
    <3>1. PICK m \in Messages, ev \in Event : Commits(m, ev)
      BY <2>1, CommitAdds
    <3> QED
      BY <3>1 DEF Commits
  <2>2. CASE ~ \E r \in Requests : CommitTx(r)
    BY <2>2, OnlyCommitsWrite
  <2> QED
    BY <2>1, <2>2
<1> QED
  BY <1>1, <1>2, <1>3

----------------------------------------------------------------------------
(* What the consumer holds *)

\* A step of the write side, as the query service sees it.
LEMMA WriterSteps ==
    ASSUME WriteSideInv, WriteSideInv', [PipelineNext]_pipelineVars, ~QueryStep
    PROVE  /\ UNCHANGED <<consumer, next, unacked, up, inbox, handled, view, seen>>
           /\ [CommandNext]_commandVars
           /\ Len(log) \in Nat /\ Len(log') \in Nat /\ Len(log') >= Len(log)
           /\ DOMAIN log = 1..Len(log) /\ DOMAIN log' = 1..Len(log')
           /\ \A k \in DOMAIN log : log'[k] = log[k]
           /\ \A i \in DOMAIN outbox : i \in DOMAIN outbox' /\ outbox'[i].event = outbox[i].event
<1>1. /\ UNCHANGED <<consumer, next, unacked, up, inbox, handled, view, seen>>
      /\ [CommandNext]_commandVars
  BY DEF PipelineNext, CommandStep, pipelineVars, queryVars
<1>2. CommandInv /\ CommandInv'
  BY DEF WriteSideInv
<1>3. log \in Seq(DOMAIN outbox) /\ log' \in Seq(DOMAIN outbox')
  BY <1>2 DEF CommandInv, CommandTypeOK
<1> QED
  BY <1>1, <1>2, <1>3, StreamStays

\* A step of the query service, as the write side sees it.
LEMMA ReaderSteps ==
    ASSUME WriteSideInv, QueryStep
    PROVE  /\ UNCHANGED <<rows, outbox, batch, stage, backoff, log>>
           /\ faults \in Nat /\ faults' \in Nat
           /\ faults' = faults \/ faults' = faults + 1
           /\ Len(log) \in Nat /\ DOMAIN log = 1..Len(log) /\ Len(Stream) = Len(log)
           /\ Q!QueryNext
<1>1. CommandInv /\ faults \in Nat
  BY PublisherTyped DEF WriteSideInv
<1> QED
  BY <1>1, QueryFaults, StreamIsLog DEF QueryStep, commandSide, dbVars, publisherVars

LEMMA ConsumerStep ==
    ASSUME WriteSideInv, WriteSideInv', ConsumerOK, [PipelineNext]_pipelineVars
    PROVE  ConsumerOK'
<1>1. CASE ~QueryStep
  <2>1. next' \in 1..(Len(log') + 1) /\ inbox' \in Seq(DOMAIN log')
    BY <1>1, WriterSteps DEF ConsumerOK
  <2>2. unacked' \subseteq [pos : DOMAIN log', n : Nat, due : BOOLEAN]
    BY <1>1, WriterSteps DEF ConsumerOK, Deliveries
  <2> QED
    BY <1>1, <2>1, <2>2, WriterSteps DEF ConsumerOK, Deliveries
<1>2. CASE QueryStep
  <2>1. /\ log' = log /\ Len(log) \in Nat /\ DOMAIN log = 1..Len(log) /\ Len(Stream) = Len(log)
        /\ Q!QueryNext
    BY <1>2, ReaderSteps
  <2>2. /\ next \in 1..(Len(log) + 1) /\ inbox \in Seq(DOMAIN log)
        /\ unacked \subseteq Deliveries
        /\ handled => inbox # <<>> /\ Head(inbox) \in seen
        /\ Deliveries' = Deliveries
    BY <2>1 DEF ConsumerOK, Deliveries
  <2>3. CASE Q!Deliver
    <3>1. /\ next \in 1..Len(log) /\ next' = next + 1 /\ inbox' = Append(inbox, next)
          /\ unacked' = unacked \cup {[pos |-> next, n |-> 1, due |-> FALSE]}
          /\ UNCHANGED <<handled, seen>>
      BY <2>1, <2>2, <2>3 DEF Q!Deliver
    <3>2. [pos |-> next, n |-> 1, due |-> FALSE] \in Deliveries
      BY <2>1, <3>1 DEF Deliveries
    <3>3. /\ inbox' \in Seq(DOMAIN log) /\ inbox' # <<>>
          /\ inbox # <<>> => Head(inbox') = Head(inbox)
      BY <2>1, <2>2, <3>1
    <3>4. next' \in 1..(Len(log') + 1)
      BY <2>1, <2>2, <3>1
    <3>5. unacked' \subseteq Deliveries'
      BY <2>2, <3>1, <3>2
    <3>6. handled' => inbox' # <<>> /\ Head(inbox') \in seen'
      BY <2>2, <3>1, <3>3
    <3> QED
      BY <2>1, <3>3, <3>4, <3>5, <3>6 DEF ConsumerOK
  <2>4. CASE Q!Handle
    BY <2>1, <2>2, <2>4 DEF ConsumerOK, Q!Handle
  <2>5. CASE Q!Ack
    <3>1. /\ handled' = FALSE /\ inbox' = Tail(inbox) /\ next' = next
          /\ unacked' \subseteq unacked
      BY <2>5 DEF Q!Ack
    <3>2. inbox # <<>>
      BY <2>2, <2>5 DEF Q!Ack
    <3> QED
      BY <2>1, <2>2, <3>1, <3>2 DEF ConsumerOK
  <2>6. CASE \E d \in unacked : Q!AckWaitElapses(d)
    <3>1. PICK d \in unacked : Q!AckWaitElapses(d)
      BY <2>6
    <3>2. /\ unacked' = (unacked \ {d}) \cup {[d EXCEPT !.due = TRUE]}
          /\ UNCHANGED <<next, inbox, handled, seen>>
      BY <3>1 DEF Q!AckWaitElapses
    <3>3. [d EXCEPT !.due = TRUE] \in Deliveries
      BY <2>2 DEF Deliveries
    <3> QED
      BY <2>1, <2>2, <3>2, <3>3 DEF ConsumerOK
  <2>7. CASE \E d \in unacked : Q!Redeliver(d)
    <3>1. PICK d \in unacked : Q!Redeliver(d)
      BY <2>7
    <3>2. d \in Deliveries /\ d.pos \in DOMAIN log /\ d.n \in Nat
      BY <2>2 DEF Deliveries
    <3>3. /\ UNCHANGED <<next, handled, seen>>
          /\ \/ /\ inbox' = Append(inbox, d.pos)
                /\ unacked' = (unacked \ {d})
                       \cup {[pos |-> d.pos, n |-> d.n + 1, due |-> FALSE]}
             \/ unacked' \subseteq unacked /\ UNCHANGED inbox
      BY <3>1 DEF Q!Redeliver
    <3>4. [pos |-> d.pos, n |-> d.n + 1, due |-> FALSE] \in Deliveries
      BY <3>2 DEF Deliveries
    <3>5. /\ Append(inbox, d.pos) \in Seq(DOMAIN log) /\ Append(inbox, d.pos) # <<>>
          /\ inbox # <<>> => Head(Append(inbox, d.pos)) = Head(inbox)
      <4>1. PICK p \in DOMAIN log : p = d.pos
        BY <3>2
      <4>2. /\ Append(inbox, p) \in Seq(DOMAIN log) /\ Append(inbox, p) # <<>>
            /\ inbox # <<>> => Head(Append(inbox, p)) = Head(inbox)
        <5>1. /\ Append(inbox, p) \in Seq(DOMAIN log)
              /\ Len(Append(inbox, p)) = Len(inbox) + 1 /\ Len(inbox) \in Nat
          BY <2>2
        <5>2. inbox # <<>> => Len(inbox) # 0 /\ Append(inbox, p)[1] = inbox[1]
          BY <2>2
        <5> QED
          BY <2>2, <5>1, <5>2
      <4> QED
        BY <4>1, <4>2
    <3>6. inbox' \in Seq(DOMAIN log) /\ (handled' => inbox' # <<>> /\ Head(inbox') \in seen')
      BY <2>2, <3>3, <3>5
    <3>7. unacked' \subseteq Deliveries'
      BY <2>2, <3>3, <3>4
    <3> QED
      BY <2>1, <2>2, <3>3, <3>6, <3>7 DEF ConsumerOK
  <2>8. CASE Q!QueryStop
    BY <2>1, <2>2, <2>8 DEF ConsumerOK, Q!QueryStop
  <2>9. CASE Q!ConsumerExpires
    BY <2>1, <2>2, <2>9 DEF ConsumerOK, Q!ConsumerExpires
  <2>10. CASE Q!QueryStart
    BY <2>1, <2>2, <2>10 DEF ConsumerOK, Q!QueryStart
  <2> QED
    BY <2>1, <2>3, <2>4, <2>5, <2>6, <2>7, <2>8, <2>9, <2>10 DEF Q!QueryNext
<1> QED
  BY <1>1, <1>2

\* What Handle does to the projection: nothing, or the effect of one event of
\* the stream on the row of its message.
LEMMA HandleSteps ==
    ASSUME WriteSideInv, ConsumerOK, QueryStep, Q!Handle
    PROVE  /\ inbox # <<>> /\ ~handled /\ handled' /\ UNCHANGED <<next, inbox, up, unacked>>
           /\ Head(inbox) \in DOMAIN log /\ Head(inbox) = inbox[1] /\ 1 \in DOMAIN inbox
           /\ seen' = seen \cup {Head(inbox)}
           /\ \/ faults' = faults + 1 /\ UNCHANGED view
              \/ /\ UNCHANGED faults
                 /\ \E ev \in Event : /\ ev = outbox[log[Head(inbox)]].event
                                      /\ Q!Apply(ev)
<1>1. /\ inbox # <<>> /\ ~handled /\ handled' /\ UNCHANGED <<next, inbox, up, unacked>>
      /\ seen' = seen \cup {Head(inbox)}
      /\ \/ faults' = faults + 1 /\ UNCHANGED view
         \/ Q!Apply(Stream[Head(inbox)]) /\ UNCHANGED faults
  BY DEF Q!Handle, Q!Fault
<1>2. Head(inbox) \in DOMAIN log /\ Head(inbox) = inbox[1] /\ 1 \in DOMAIN inbox
  BY <1>1 DEF ConsumerOK
<1>3. Stream[Head(inbox)] \in Event /\ Stream[Head(inbox)] = outbox[log[Head(inbox)]].event
  BY <1>2, StreamIsLog DEF WriteSideInv
<1> QED
  BY <1>1, <1>2, <1>3

----------------------------------------------------------------------------
(* At least once, while the consumer survives *)

InInbox(k) == \E j \in DOMAIN inbox : inbox[j] = k

\* Each repetition of an unhandled event is the work of a failure: the count of
\* a delivery stays within the failures, plus one while the client has it.
OwedOK ==
    "consumerExpires" \notin Faults =>
        /\ consumer
        /\ \A d \in unacked : d.pos \notin seen =>
              /\ d.n <= faults + 1
              /\ d.due \/ ~InInbox(d.pos) => d.n <= faults
        /\ faults < MaxDeliver =>
              \A k \in DOMAIN log :
                  k \in seen \/ k >= next \/ \E d \in unacked : d.pos = k

LEMMA OwedStep ==
    ASSUME WriteSideInv, WriteSideInv', ConsumerOK, OwedOK, [PipelineNext]_pipelineVars
    PROVE  OwedOK'
<1> SUFFICES ASSUME "consumerExpires" \notin Faults
             PROVE  OwedOK'
  BY DEF OwedOK
<1> DEFINE Counted(d) == d.pos \notin seen => /\ d.n <= faults + 1
                                              /\ d.due \/ ~InInbox(d.pos) => d.n <= faults
           Owed(k) == k \in seen \/ k >= next \/ \E d \in unacked : d.pos = k
<1>0. /\ consumer /\ \A d \in unacked : Counted(d)
      /\ faults < MaxDeliver => \A k \in DOMAIN log : Owed(k)
      /\ next \in 1..(Len(log) + 1) /\ inbox \in Seq(DOMAIN log)
      /\ handled => inbox # <<>> /\ Head(inbox) \in seen
  BY DEF OwedOK, ConsumerOK
<1>1. /\ \A d \in unacked : d.pos \in DOMAIN log /\ d.n \in Nat /\ d.due \in BOOLEAN
      /\ \A d \in unacked : d = [pos |-> d.pos, n |-> d.n, due |-> d.due]
  BY DEF ConsumerOK, Deliveries
<1>2. CASE ~QueryStep
  <2>1. /\ UNCHANGED <<consumer, next, unacked, inbox, seen>>
        /\ Len(log) \in Nat /\ Len(log') \in Nat /\ Len(log') >= Len(log)
        /\ DOMAIN log = 1..Len(log) /\ DOMAIN log' = 1..Len(log')
    BY <1>2, WriterSteps
  <2>2. faults \in Nat /\ faults' \in Nat /\ faults' >= faults
    <3>1. CommandInv /\ faults \in Nat
      BY PublisherTyped DEF WriteSideInv
    <3>2. faults' = faults \/ faults' = faults + 1
      <4>1. [CommandNext]_commandVars
        BY <1>2, WriterSteps
      <4>2. CASE UNCHANGED publisherSide
        BY <4>2 DEF publisherSide
      <4>3. CASE \E r \in Requests : CommitTx(r)
        BY <4>3 DEF CommitTx
      <4>4. CASE Poll \/ SkipBackoff \/ PublishOk \/ (\E i \in backoff : BackoffElapses(i))
        BY <4>4 DEF Poll, SkipBackoff, PublishOk, BackoffElapses
      <4>5. CASE PublishFail \/ IncrementRetry \/ MarkPublished \/ CommandRestart
        BY <3>1, <4>5, FaultsGrow DEF PublishFail, IncrementRetry, MarkPublished, CommandRestart
      <4> QED
        BY <3>1, <4>1, <4>2, <4>3, <4>4, <4>5, KindsOfSteps
    <3> QED
      BY <3>1, <3>2
  <2>3. \A d \in unacked' : Counted(d)'
    BY <1>0, <1>1, <2>1, <2>2 DEF InInbox
  <2>4. faults' < MaxDeliver => \A k \in DOMAIN log' : Owed(k)'
    BY <1>0, <2>1, <2>2, PipelineConstants
  <2> QED
    BY <1>0, <2>1, <2>3, <2>4 DEF OwedOK
<1>3. CASE QueryStep
  <2>1. /\ log' = log /\ Len(log) \in Nat /\ DOMAIN log = 1..Len(log)
        /\ faults \in Nat /\ faults' \in Nat
        /\ faults' = faults \/ faults' = faults + 1
        /\ Len(Stream) = Len(log) /\ Q!QueryNext
    BY <1>3, ReaderSteps
  <2>2. SUFFICES /\ consumer' /\ \A d \in unacked' : Counted(d)'
                 /\ faults' < MaxDeliver => \A k \in DOMAIN log : Owed(k)'
    BY <2>1 DEF OwedOK
  <2>3. faults' < MaxDeliver => \A k \in DOMAIN log : Owed(k)
    BY <1>0, <2>1, PipelineConstants
  <2>4. CASE Q!Deliver
    <3>1. /\ next \in 1..Len(log) /\ next' = next + 1 /\ inbox' = Append(inbox, next)
          /\ unacked' = unacked \cup {[pos |-> next, n |-> 1, due |-> FALSE]}
          /\ UNCHANGED <<consumer, seen, faults>>
      BY <1>0, <2>1, <2>4 DEF Q!Deliver
    <3>2. /\ \A j \in DOMAIN inbox : j \in DOMAIN inbox' /\ inbox'[j] = inbox[j]
          /\ \E j \in DOMAIN inbox' : inbox'[j] = next
      BY <1>0, <2>1, <3>1
    <3>3. ASSUME NEW d \in unacked' PROVE Counted(d)'
      <4>1. CASE d \in unacked
        BY <1>0, <3>1, <3>2, <4>1 DEF InInbox
      <4>2. CASE d = [pos |-> next, n |-> 1, due |-> FALSE]
        <5>1. d.pos = next /\ d.n = 1 /\ d.due = FALSE
          BY <4>2
        <5> QED
          BY <2>1, <3>2, <5>1 DEF InInbox
      <4> QED
        BY <3>1, <4>1, <4>2
    <3>4. ASSUME NEW k \in DOMAIN log, Owed(k) PROVE Owed(k)'
      <4>1. CASE k = next
        <5>1. [pos |-> next, n |-> 1, due |-> FALSE] \in unacked'
          BY <3>1
        <5> QED
          BY <4>1, <5>1
      <4>2. CASE k # next /\ k >= next
        BY <1>0, <2>1, <3>1, <4>2
      <4>3. CASE k \in seen \/ \E d \in unacked : d.pos = k
        BY <3>1, <4>3
      <4> QED
        BY <3>4, <4>1, <4>2, <4>3
    <3> QED
      BY <1>0, <2>3, <3>1, <3>3, <3>4
  <2>5. CASE Q!Handle
    <3>1. UNCHANGED <<consumer, next, unacked, inbox>> /\ seen' = seen \cup {Head(inbox)}
      BY <2>5 DEF Q!Handle
    <3> QED
      BY <1>0, <1>1, <2>1, <2>3, <3>1 DEF InInbox
  <2>6. CASE Q!Ack
    <3>1. /\ handled /\ inbox' = Tail(inbox) /\ UNCHANGED <<consumer, next, seen>>
          /\ unacked' = {d \in unacked : d.pos # Head(inbox)} \/ unacked' = unacked
      BY <2>6 DEF Q!Ack
    <3>2. inbox # <<>> /\ Head(inbox) \in seen
      BY <1>0, <3>1
    <3>3. ASSUME NEW k \in DOMAIN log, InInbox(k)
          PROVE  k = Head(inbox) \/ InInbox(k)'
      <4>1. PICK j \in DOMAIN inbox : inbox[j] = k
        BY <3>3 DEF InInbox
      <4>2. CASE j # 1
        <5>1. j - 1 \in DOMAIN Tail(inbox) /\ Tail(inbox)[j - 1] = k
          BY <1>0, <3>2, <4>1, <4>2
        <5> QED
          BY <3>1, <5>1 DEF InInbox
      <4>3. CASE j = 1
        BY <1>0, <3>2, <4>1, <4>3
      <4> QED
        BY <4>2, <4>3
    <3>4. \A k \in DOMAIN log : k \notin seen /\ InInbox(k) => InInbox(k)'
      BY <3>2, <3>3
    <3>5. \A d \in unacked' : Counted(d)'
      BY <1>0, <1>1, <2>1, <3>1, <3>4
    <3>6. \A k \in DOMAIN log : Owed(k) => Owed(k)'
      BY <3>1, <3>2
    <3> QED
      BY <1>0, <2>3, <3>1, <3>5, <3>6
  <2>7. CASE \E d \in unacked : Q!AckWaitElapses(d)
    <3>1. PICK d \in unacked : Q!AckWaitElapses(d)
      BY <2>7
    <3> DEFINE late == [d EXCEPT !.due = TRUE]
    <3>2. /\ unacked' = (unacked \ {d}) \cup {late}
          /\ UNCHANGED <<consumer, next, inbox, seen>>
          /\ ~InInbox(d.pos) \/ faults' = faults + 1
      BY <3>1 DEF Q!AckWaitElapses, Q!Fault, InInbox
    <3>3. late.pos = d.pos /\ late.n = d.n
      BY <1>1
    <3>4. Counted(late)'
      BY <1>0, <1>1, <2>1, <3>2, <3>3 DEF InInbox
    <3> HIDE DEF late
    <3>5. ASSUME NEW e \in unacked PROVE Counted(e)'
      <4>1. e.n \in Nat /\ Counted(e)
        BY <1>0, <1>1
      <4>2. InInbox(e.pos)' <=> InInbox(e.pos)
        BY <3>2 DEF InInbox
      <4>3. faults' >= faults
        BY <2>1
      <4> QED
        BY <2>1, <3>2, <4>1, <4>2, <4>3
    <3>6. \A e \in unacked' : Counted(e)'
      BY <3>2, <3>4, <3>5
    <3>7. \A k \in DOMAIN log : Owed(k) => Owed(k)'
      BY <3>2, <3>3
    <3> QED
      BY <1>0, <2>3, <3>2, <3>6, <3>7
  <2>8. CASE \E d \in unacked : Q!Redeliver(d)
    <3>1. PICK d \in unacked : Q!Redeliver(d)
      BY <2>8
    <3>2. d.due /\ UNCHANGED <<consumer, next, seen, faults>>
      BY <3>1 DEF Q!Redeliver
    <3>3. d.pos \notin seen => d.n <= faults
      BY <1>0, <3>2
    <3>4. CASE d.n < MaxDeliver
      <4> DEFINE again == [pos |-> d.pos, n |-> d.n + 1, due |-> FALSE]
      <4>1. /\ inbox' = Append(inbox, d.pos)
            /\ unacked' = (unacked \ {d}) \cup {again}
        BY <3>1, <3>4 DEF Q!Redeliver
      <4>2. again.pos = d.pos /\ again.n = d.n + 1 /\ again.due = FALSE
        OBVIOUS
      <4>3. /\ InInbox(d.pos)'
            /\ \A k \in DOMAIN log : InInbox(k) => InInbox(k)'
        <5>1. PICK p \in DOMAIN log : p = d.pos
          BY <1>1
        <5>2. /\ inbox' = Append(inbox, p)
              /\ \A j \in DOMAIN inbox : j \in DOMAIN inbox' /\ inbox'[j] = inbox[j]
              /\ \E j \in DOMAIN inbox' : inbox'[j] = p
          <6>1. inbox' = Append(inbox, p)
            BY <4>1, <5>1
          <6> QED
            BY <1>0, <6>1
        <5> QED
          BY <5>1, <5>2 DEF InInbox
      <4> HIDE DEF again
      <4>4. Counted(again)'
        BY <1>1, <2>1, <3>2, <3>3, <4>2, <4>3
      <4>5. \A e \in unacked' : Counted(e)'
        BY <1>0, <1>1, <2>1, <3>2, <4>1, <4>3, <4>4
      <4>6. \A k \in DOMAIN log : Owed(k) => Owed(k)'
        BY <3>2, <4>1, <4>2
      <4> QED
        BY <1>0, <2>3, <3>2, <4>5, <4>6
    <3>5. CASE ~(d.n < MaxDeliver)
      <4>1. unacked' = unacked \ {d} /\ UNCHANGED inbox
        BY <3>1, <3>5 DEF Q!Redeliver
      <4>2. faults < MaxDeliver => d.pos \in seen
        BY <1>1, <2>1, <3>3, <3>5, PipelineConstants
      <4>3. \A e \in unacked' : Counted(e)'
        BY <1>0, <3>2, <4>1 DEF InInbox
      <4>4. faults < MaxDeliver => \A k \in DOMAIN log : Owed(k) => Owed(k)'
        BY <3>2, <4>1, <4>2
      <4> QED
        BY <1>0, <2>3, <3>2, <4>3, <4>4
    <3> QED
      BY <3>4, <3>5
  <2>9. CASE Q!QueryStop
    <3>1. UNCHANGED <<consumer, next, unacked, seen>> /\ faults' = faults + 1
      BY <2>9 DEF Q!QueryStop, Q!Fault
    <3> QED
      BY <1>0, <1>1, <2>1, <2>3, <3>1
  <2>10. CASE Q!ConsumerExpires
    BY <2>10 DEF Q!ConsumerExpires
  <2>11. CASE Q!QueryStart
    <3>1. UNCHANGED <<next, unacked, inbox, seen, faults>> /\ consumer'
      BY <1>0, <2>11 DEF Q!QueryStart
    <3> QED
      BY <1>0, <2>3, <3>1 DEF InInbox
  <2> QED
    BY <2>1, <2>4, <2>5, <2>6, <2>7, <2>8, <2>9, <2>10, <2>11 DEF Q!QueryNext
<1> QED
  BY <1>2, <1>3

LEMMA ConsumerInit == PipelineInit => ConsumerOK /\ OwedOK
<1> SUFFICES ASSUME PipelineInit PROVE ConsumerOK /\ OwedOK
  OBVIOUS
<1>1. /\ log = <<>> /\ next = 1 /\ inbox = <<>> /\ unacked = {} /\ handled = FALSE /\ consumer
  BY DEF PipelineInit, CommandInit, Q!QueryInit
<1> QED
  BY <1>1 DEF ConsumerOK, OwedOK, Deliveries

THEOREM ConsumerInvariant == PipelineSpec => []ConsumerOK
<1>1. ConsumerOK /\ WriteSideInv /\ WriteSideInv' /\ [PipelineNext]_pipelineVars => ConsumerOK'
  BY ConsumerStep
<1> QED
  BY <1>1, ConsumerInit, WriteSideInvariant, PTL DEF PipelineSpec

\* As long as the server keeps the consumer and the failures stay below
\* MaxDeliver, no event of the stream is lost to the handler: it was handled,
\* is still to be delivered, or waits to be acknowledged (Ack, AckWait and
\* MaxDeliver of the consumer that chat/query/main.go creates).
THEOREM AtLeastOnceAlways == PipelineSpec => []AtLeastOnceWhileConsumerLives
<1>1. OwedOK /\ ConsumerOK /\ WriteSideInv /\ WriteSideInv' /\ [PipelineNext]_pipelineVars
         => OwedOK'
  BY OwedStep
<1>2. OwedOK => AtLeastOnceWhileConsumerLives
  BY DEF OwedOK, AtLeastOnceWhileConsumerLives
<1> QED
  BY <1>1, <1>2, ConsumerInit, ConsumerInvariant, WriteSideInvariant, PTL DEF PipelineSpec

----------------------------------------------------------------------------
(* The projection shows what the message was *)

\* What one event of the stream does to the rows: at most the row of its own
\* message changes, and never one that is deleted.
LEMMA ApplySays ==
    ASSUME ViewOK, NEW ev \in Event, Q!Apply(ev),
           ev.type # "deleted_message" => ev.content \in Contents
    PROVE  /\ ViewOK'
           /\ \A o \in Messages : o # ev.id => view'[o] = view[o]
           /\ Shown(ev.id)' = Shown(ev.id) \/ (view[ev.id].status # "deleted"
                                                 /\ Shown(ev.id)' = Says(ev))
           /\ view[ev.id].status # "deleted" /\ ev.type = "new_message"
                 => Shown(ev.id)' = Says(ev)
           /\ view[ev.id].status = "live" => Shown(ev.id)' = Says(ev)
<1>1. PICK m \in Messages : m = ev.id
  BY DEF Event
<1>2. /\ view \in [Messages -> ViewRow]
      /\ \A o \in Messages : /\ view[o].status \in {"absent", "live", "deleted"}
                             /\ view[o].status = "live" => view[o].content \in Contents
  <2>1. \A o \in Messages : view[o] \in ViewRow
    BY DEF ViewOK
  <2> QED
    BY <2>1 DEF ViewOK, ViewRow
<1>3. CASE ev.type = "new_message" /\ Q!Upsert(ev)
  <2> DEFINE row == [status |-> IF view[m].status = "deleted" THEN "deleted" ELSE "live",
                     content |-> ev.content]
  <2>1. view' = [view EXCEPT ![m] = row] /\ ev.content \in Contents
    BY <1>1, <1>3 DEF Q!Upsert
  <2>2. /\ row \in ViewRow /\ row.content = ev.content
        /\ row.status = IF view[m].status = "deleted" THEN "deleted" ELSE "live"
    BY <2>1 DEF ViewRow
  <2> HIDE DEF row
  <2>3. view' \in [Messages -> ViewRow] /\ view'[m] = row
        /\ \A o \in Messages : o # m => view'[o] = view[o]
    BY <1>2, <2>1, <2>2
  <2>4. ViewOK'
    BY <1>2, <2>1, <2>2, <2>3 DEF ViewOK
  <2> QED
    BY <1>1, <1>2, <1>3, <2>2, <2>3, <2>4 DEF Shown, Says
<1>4. CASE ev.type = "updated_message" /\ Q!UpdateContent(ev)
  <2>1. CASE view[m].status = "live"
    <3>1. view' = [view EXCEPT ![m].content = ev.content] /\ ev.content \in Contents
      BY <1>1, <1>4, <2>1 DEF Q!UpdateContent
    <3>2. /\ view' \in [Messages -> ViewRow]
          /\ view'[m].content = ev.content /\ view'[m].status = "live"
          /\ \A o \in Messages : o # m => view'[o] = view[o]
      BY <1>2, <2>1, <3>1 DEF ViewRow
    <3>3. ViewOK'
      BY <1>2, <3>1, <3>2 DEF ViewOK
    <3> QED
      BY <1>1, <1>2, <1>4, <2>1, <3>2, <3>3 DEF Shown, Says
  <2>2. CASE view[m].status # "live"
    <3>1. view' = view
      BY <1>1, <1>4, <2>2 DEF Q!UpdateContent
    <3> QED
      BY <1>1, <1>4, <2>2, <3>1 DEF Shown, ViewOK
  <2> QED
    BY <2>1, <2>2
<1>5. CASE ev.type = "deleted_message" /\ Q!SoftDelete(ev)
  <2>1. CASE view[m].status = "live"
    <3>1. view' = [view EXCEPT ![m].status = "deleted"]
      BY <1>1, <1>5, <2>1 DEF Q!SoftDelete
    <3>2. /\ view' \in [Messages -> ViewRow]
          /\ view'[m].status = "deleted"
          /\ \A o \in Messages : o # m => view'[o] = view[o]
      BY <1>2, <2>1, <3>1 DEF ViewRow
    <3>3. ViewOK'
      BY <1>2, <3>1, <3>2 DEF ViewOK
    <3> QED
      BY <1>1, <1>2, <1>5, <2>1, <3>2, <3>3 DEF Shown, Says
  <2>2. CASE view[m].status # "live"
    <3>1. view' = view
      BY <1>1, <1>5, <2>2 DEF Q!SoftDelete
    <3> QED
      BY <1>1, <1>5, <2>2, <3>1 DEF Shown, ViewOK
  <2> QED
    BY <2>1, <2>2
<1> QED
  BY <1>3, <1>4, <1>5 DEF Q!Apply

\* The events of the stream, with a body unless they delete.
LEMMA EventsHaveBodies ==
    ASSUME WriteSideInv, NEW i \in DOMAIN outbox
    PROVE  /\ outbox[i].event \in Event /\ outbox[i].event.id \in Messages
           /\ outbox[i].event.type # "deleted_message" => outbox[i].event.content \in Contents
<1>1. outbox[i].event \in Event
  BY EventsTyped DEF WriteSideInv
<1> QED
  BY <1>1 DEF Event, WriteSideInv, HistoryOK

\* Only the handler writes the projection.
LEMMA OnlyHandleShows ==
    ASSUME [PipelineNext]_pipelineVars
    PROVE  UNCHANGED view \/ (QueryStep /\ Q!Handle)
BY DEF PipelineNext, CommandStep, pipelineVars, queryVars, QueryStep, Q!QueryNext,
       Q!Deliver, Q!Ack, Q!AckWaitElapses, Q!Redeliver, Q!QueryStop,
       Q!ConsumerExpires, Q!QueryStart

LEMMA ViewStep ==
    ASSUME WriteSideInv, ConsumerOK, ViewOK, [PipelineNext]_pipelineVars
    PROVE  ViewOK'
<1>1. CASE UNCHANGED view
  BY <1>1 DEF ViewOK, ViewRow
<1>2. CASE QueryStep /\ Q!Handle /\ ~UNCHANGED view
  <2>1. PICK ev \in Event : /\ ev = outbox[log[Head(inbox)]].event
                            /\ Q!Apply(ev)
    BY <1>2, HandleSteps
  <2>2. log[Head(inbox)] \in DOMAIN outbox
    BY <1>2, HandleSteps, StreamIsLog DEF WriteSideInv
  <2> QED
    BY <2>1, <2>2, EventsHaveBodies, ApplySays
<1> QED
  BY <1>1, <1>2, OnlyHandleShows

LEMMA ViewInitOK == PipelineInit => ViewOK
BY DEF PipelineInit, Q!QueryInit, Q!NoView, ViewOK, ViewRow

THEOREM ViewInvariant == PipelineSpec => []ViewOK
<1>1. ViewOK /\ ConsumerOK /\ WriteSideInv /\ [PipelineNext]_pipelineVars => ViewOK'
  BY ViewStep
<1> QED
  BY <1>1, ViewInitOK, ConsumerInvariant, WriteSideInvariant, PTL DEF PipelineSpec

----------------------------------------------------------------------------
(* The refinement of MessageView *)

source == [m \in Messages |-> Stored(m)]
past   == [m \in Messages |-> Past(m)]
shown  == [m \in Messages |-> Shown(m)]

\* A commit is a Write of the message it is about.
LEMMA CommitWrites ==
    ASSUME WriteSideInv, NEW m \in Messages, NEW ev \in Event, Commits(m, ev), UNCHANGED view
    PROVE  \E s \in Contents \cup {"deleted"} : MV!Write(m, s)
<1> DEFINE s == Says(ev)
<1>1. s \in Contents \cup {"deleted"} /\ (s = "deleted" <=> ev.type = "deleted_message")
  BY PipelineConstants DEF Commits, Turns, Says
<1>2. /\ Stored(m) # "deleted"
      /\ s = "deleted" => Stored(m) \in Contents
  <2>1. rows[m].status = "live" => rows[m].content \in Contents
    BY DEF WriteSideInv, CommandInv, RowsOK
  <2> QED
    BY <1>1, <2>1, PipelineConstants DEF Commits, Turns, Stored
<1>3. Stored(m)' = s /\ \A o \in Messages : o # m => Stored(o)' = Stored(o)
  BY DEF Commits, Stored
<1>4. /\ Past(m)' = Past(m) \cup {s}
      /\ \A o \in Messages : o # m => Past(o)' = Past(o)
  <2>1. PICK n \in Nat :
          /\ DOMAIN outbox' = DOMAIN outbox \cup {n} /\ n \notin DOMAIN outbox
          /\ \A i \in DOMAIN outbox : outbox'[i] = outbox[i]
          /\ outbox'[n].event = ev /\ ev.id = m
    BY DEF Commits
  <2>2. EventsOf(m)' = EventsOf(m) \cup {n} /\ \A o \in Messages : o # m => EventsOf(o)' = EventsOf(o)
    BY <2>1 DEF EventsOf
  <2>3. \A o \in Messages : \A i \in EventsOf(o) : outbox'[i].event = outbox[i].event
    BY <2>1 DEF EventsOf
  <2>4. Past(m)' = Past(m) \cup {s}
    <3>1. {Says(outbox'[i].event) : i \in EventsOf(m) \cup {n}}
             = {Says(outbox[i].event) : i \in EventsOf(m)} \cup {s}
      BY <2>1, <2>3
    <3> QED
      BY <2>2, <3>1 DEF Past
  <2>5. ASSUME NEW o \in Messages, o # m PROVE Past(o)' = Past(o)
    <3>1. {Says(outbox'[i].event) : i \in EventsOf(o)} = {Says(outbox[i].event) : i \in EventsOf(o)}
      BY <2>3
    <3> QED
      BY <2>2, <2>5, <3>1 DEF Past
  <2> QED
    BY <2>4, <2>5
<1>5. shown' = shown
  BY DEF shown, Shown
<1>6. source' = [source EXCEPT ![m] = s]
  BY <1>3 DEF source
<1>7. past' = [past EXCEPT ![m] = @ \cup {s}]
  BY <1>4 DEF past
<1>8. source[m] = Stored(m)
  BY DEF source
<1> HIDE DEF s
<1>9. MV!Write(m, s)
  BY <1>2, <1>5, <1>6, <1>7, <1>8 DEF MV!Write, source, past, shown
<1> QED
  BY <1>1, <1>9

\* An event that changes what readers see is a Show of its message.
LEMMA HandleShows ==
    ASSUME WriteSideInv, ConsumerOK, ViewOK, QueryStep, Q!Handle
    PROVE  \/ shown' = shown
           \/ \E m \in Messages : \E s \in Contents \cup {"deleted"} : MV!Show(m, s)
<1>1. UNCHANGED <<rows, outbox>>
  BY ReaderSteps
<1>2. source' = source /\ past' = past
  <2>1. \A m \in Messages : Stored(m)' = Stored(m) /\ Past(m)' = Past(m)
    BY <1>1 DEF Stored, Past, EventsOf
  <2> QED
    BY <2>1 DEF source, past
<1>3. CASE UNCHANGED view
  BY <1>3 DEF shown, Shown
<1>4. CASE ~UNCHANGED view
  <2>1. PICK ev \in Event : ev = outbox[log[Head(inbox)]].event /\ Q!Apply(ev)
    BY <1>4, HandleSteps
  <2>2. log[Head(inbox)] \in DOMAIN outbox
    BY HandleSteps, StreamIsLog DEF WriteSideInv
  <2>3. PICK m \in Messages : m = ev.id
    BY DEF Event
  <2>4. ev.type # "deleted_message" => ev.content \in Contents
    BY <2>1, <2>2, EventsHaveBodies
  <2>5. /\ \A o \in Messages : o # m => view'[o] = view[o]
        /\ Shown(m)' = Shown(m) \/ (view[m].status # "deleted" /\ Shown(m)' = Says(ev))
    <3>1. /\ \A o \in Messages : o # ev.id => view'[o] = view[o]
          /\ Shown(ev.id)' = Shown(ev.id) \/ (view[ev.id].status # "deleted"
                                                /\ Shown(ev.id)' = Says(ev))
      BY <2>1, <2>4, ApplySays
    <3>2. Shown(ev.id)' = Shown(m)'
      BY <2>1, <2>3, <1>1 DEF Shown
    <3> QED
      BY <2>3, <3>1
  <2>6. \A o \in Messages : o # m => Shown(o)' = Shown(o)
    BY <2>5 DEF Shown
  <2>7. CASE Shown(m)' = Shown(m)
    BY <2>6, <2>7 DEF shown
  <2>8. CASE view[m].status # "deleted" /\ Shown(m)' = Says(ev)
    <3> DEFINE s == Says(ev)
    <3>1. s \in Contents \cup {"deleted"}
      BY <2>4 DEF Says, Event
    <3>2. shown' = [shown EXCEPT ![m] = s]
      BY <2>6, <2>8 DEF shown
    <3>3. shown[m] # "deleted"
      BY <2>8, PipelineConstants DEF shown, Shown, ViewOK
    <3>4. s \in past[m]
      <4>1. log[Head(inbox)] \in EventsOf(m)
        BY <2>1, <2>2, <2>3 DEF EventsOf
      <4> QED
        BY <2>1, <4>1 DEF past, Past
    <3> HIDE DEF s
    <3>5. MV!Show(m, s)
      BY <1>2, <3>2, <3>3, <3>4 DEF MV!Show, source, past, shown
    <3> QED
      BY <3>1, <3>5
  <2> QED
    BY <2>5, <2>7, <2>8
<1> QED
  BY <1>3, <1>4

LEMMA ViewSimulation ==
    ASSUME WriteSideInv, ConsumerOK, ViewOK, [PipelineNext]_pipelineVars
    PROVE  [MV!ViewNext]_(MV!viewVars)
<1>1. CASE QueryStep
  <2>1. UNCHANGED <<source, past>>
    <3>1. UNCHANGED <<rows, outbox>>
      BY <1>1, ReaderSteps
    <3>2. \A m \in Messages : Stored(m)' = Stored(m) /\ Past(m)' = Past(m)
      BY <3>1 DEF Stored, Past, EventsOf
    <3> QED
      BY <3>2 DEF source, past
  <2>2. shown' = shown \/ \E m \in Messages : \E s \in Contents \cup {"deleted"} : MV!Show(m, s)
    <3>1. UNCHANGED view => shown' = shown
      BY DEF shown, Shown
    <3> QED
      BY <3>1, OnlyHandleShows, HandleShows
  <2> QED
    BY <2>1, <2>2 DEF MV!ViewNext, MV!viewVars, source, past, shown
<1>2. CASE ~QueryStep
  <2>1. UNCHANGED view /\ [CommandNext]_commandVars
    BY <1>2 DEF PipelineNext, CommandStep, pipelineVars, queryVars
  <2>2. CASE \E r \in Requests : CommitTx(r)
    <3>1. PICK m \in Messages, ev \in Event : Commits(m, ev)
      BY <2>2, CommitAdds DEF WriteSideInv
    <3> QED
      BY <2>1, <3>1, CommitWrites DEF MV!ViewNext
  <2>3. CASE ~ \E r \in Requests : CommitTx(r)
    <3>1. /\ rows' = rows /\ DOMAIN outbox' = DOMAIN outbox
          /\ \A i \in DOMAIN outbox : outbox'[i].event = outbox[i].event
      BY <2>1, <2>3, OnlyCommitsWrite DEF WriteSideInv
    <3>2. \A m \in Messages : Stored(m)' = Stored(m) /\ EventsOf(m)' = EventsOf(m)
      BY <3>1 DEF Stored, EventsOf
    <3>3. ASSUME NEW m \in Messages PROVE Past(m)' = Past(m)
      <4>1. \A i \in EventsOf(m) : outbox'[i].event = outbox[i].event
        BY <3>1 DEF EventsOf
      <4>2. {Says(outbox'[i].event) : i \in EventsOf(m)} = {Says(outbox[i].event) : i \in EventsOf(m)}
        BY <4>1
      <4> QED
        BY <3>2, <4>2 DEF Past
    <3>4. UNCHANGED <<source, past, shown>>
      BY <2>1, <3>2, <3>3 DEF source, past, shown, Shown
    <3> QED
      BY <3>4 DEF MV!viewVars, source, past, shown
  <2> QED
    BY <2>2, <2>3
<1> QED
  BY <1>1, <1>2

\* Whatever is lost, repeated, reordered or restarted, readers are only ever
\* shown what a message really was, and never again one they saw deleted: the
\* pipeline of chat.go, outbox.go and consumer.go implements MessageView.
THEOREM ViewIsOfThePastAlways == PipelineSpec => ViewIsOfThePast
<1>1. PipelineInit => MV!ViewInit
  <2> SUFFICES ASSUME PipelineInit PROVE MV!ViewInit
    OBVIOUS
  <2>1. /\ \A m \in Messages : rows[m].status = "absent" /\ view[m].status = "absent"
        /\ outbox = <<>>
    BY DEF PipelineInit, CommandInit, Q!QueryInit, Q!NoView, NoRow
  <2>2. \A m \in Messages : Stored(m) = "absent" /\ Shown(m) = "absent" /\ Past(m) = {"absent"}
    BY <2>1 DEF Stored, Shown, Past, EventsOf
  <2> QED
    BY <2>2 DEF MV!ViewInit
<1>2. WriteSideInv /\ ConsumerOK /\ ViewOK /\ [PipelineNext]_pipelineVars
         => [MV!ViewNext]_(MV!viewVars)
  BY ViewSimulation
<1> QED
  BY <1>1, <1>2, WriteSideInvariant, ConsumerInvariant, ViewInvariant, PTL
     DEF PipelineSpec, ViewIsOfThePast, MV!ViewSpec

----------------------------------------------------------------------------
(* The projection while nothing has failed *)

\* The client library holds the last positions delivered, in order, and the
\* server waits for none but these.
CalmInboxOK ==
    faults = 0 =>
        /\ up
        /\ Len(inbox) < next
        /\ \A k \in DOMAIN inbox : inbox[k] + Len(inbox) + 1 = next + k
        /\ \A d \in unacked : ~d.due /\ InInbox(d.pos)

\* How far the handler has come in the stream.
HandledUpTo == (next - 1 - Len(inbox)) + (IF handled THEN 1 ELSE 0)

Done(m) == {k \in DOMAIN log : k <= HandledUpTo /\ outbox[log[k]].event.id = m}

\* A row shows what the last handled event of its message says.
CalmViewOK ==
    faults = 0 /\ InCommitOrder =>
        \A m \in Messages :
            \/ Done(m) = {} /\ view[m].status = "absent"
            \/ \E k \in Done(m) : /\ IsLast(k, Done(m))
                                  /\ Shown(m) = Says(outbox[log[k]].event)

LEMMA CalmInboxStep ==
    ASSUME WriteSideInv, WriteSideInv', ConsumerOK, ConsumerOK', CalmInboxOK,
           [PipelineNext]_pipelineVars, faults' = 0
    PROVE  /\ faults = 0 /\ CalmInboxOK'
           /\ HandledUpTo' = HandledUpTo
                \/ (QueryStep /\ Q!Handle /\ HandledUpTo' = Head(inbox)
                      /\ Head(inbox) = HandledUpTo + 1)
<1>1. CASE ~QueryStep
  <2>1. CommandInv /\ [CommandNext]_commandVars /\ UNCHANGED <<next, unacked, up, inbox, handled>>
    BY <1>1, WriterSteps DEF WriteSideInv
  <2>2. faults = 0
    BY <2>1, CalmIsInherited
  <2> QED
    BY <2>1, <2>2 DEF CalmInboxOK, InInbox, HandledUpTo
<1>2. CASE QueryStep
  <2>1. /\ faults = 0 /\ Len(log) \in Nat /\ DOMAIN log = 1..Len(log) /\ log' = log
        /\ Len(Stream) = Len(log) /\ Q!QueryNext /\ \A kind : ~Q!Fault(kind)
    BY <1>2, ReaderSteps DEF Q!Fault
  <2>2. /\ next \in Nat /\ inbox \in Seq(DOMAIN log) /\ up /\ Len(inbox) < next
        /\ \A k \in DOMAIN inbox : inbox[k] + Len(inbox) + 1 = next + k
        /\ \A d \in unacked : ~d.due /\ InInbox(d.pos) /\ d.pos \in DOMAIN log
        /\ handled => inbox # <<>>
    BY <2>1 DEF CalmInboxOK, ConsumerOK, Deliveries
  <2>3. Len(inbox) \in Nat /\ DOMAIN inbox = 1..Len(inbox)
    BY <2>2
  <2>4. CASE Q!Deliver
    <3>1. /\ next' = next + 1 /\ inbox' = Append(inbox, next)
          /\ unacked' = unacked \cup {[pos |-> next, n |-> 1, due |-> FALSE]}
          /\ UNCHANGED <<up, handled>> /\ next \in DOMAIN log
      BY <2>1, <2>2, <2>4 DEF Q!Deliver, ConsumerOK
    <3>2. /\ Len(inbox') = Len(inbox) + 1 /\ DOMAIN inbox' = 1..(Len(inbox) + 1)
          /\ \A j \in DOMAIN inbox : j \in DOMAIN inbox' /\ inbox'[j] = inbox[j]
          /\ inbox'[Len(inbox) + 1] = next
      BY <2>2, <3>1
    <3>3. \A k \in DOMAIN inbox' : inbox'[k] + Len(inbox') + 1 = next' + k
      <4>1. \A k \in DOMAIN inbox' : k \in DOMAIN inbox \/ k = Len(inbox) + 1
        BY <2>3, <3>2
      <4>2. \A k \in DOMAIN inbox : inbox[k] \in Nat /\ k \in Nat
        BY <2>1, <2>2
      <4>3. \A k \in DOMAIN inbox : inbox'[k] + Len(inbox') + 1 = next' + k
        BY <2>2, <2>3, <3>1, <3>2, <4>2
      <4>4. inbox'[Len(inbox) + 1] + Len(inbox') + 1 = next' + (Len(inbox) + 1)
        BY <2>2, <2>3, <3>1, <3>2
      <4> QED
        BY <4>1, <4>3, <4>4
    <3>4. ASSUME NEW d \in unacked' PROVE ~d.due /\ InInbox(d.pos)'
      <4>1. CASE d \in unacked
        BY <2>2, <3>2, <4>1 DEF InInbox
      <4>2. CASE d = [pos |-> next, n |-> 1, due |-> FALSE]
        <5>1. d.pos = next /\ d.due = FALSE
          BY <4>2
        <5>2. Len(inbox) + 1 \in DOMAIN inbox'
          BY <2>3, <3>2
        <5> QED
          BY <3>2, <5>1, <5>2 DEF InInbox
      <4> QED
        BY <3>1, <4>1, <4>2
    <3>5. Len(inbox') < next'
      BY <2>2, <2>3, <3>1, <3>2
    <3>6. HandledUpTo' = HandledUpTo
      BY <2>2, <2>3, <3>1, <3>2 DEF HandledUpTo
    <3> QED
      BY <2>1, <2>2, <3>1, <3>3, <3>4, <3>5, <3>6 DEF CalmInboxOK
  <2>5. CASE Q!Handle
    <3>1. UNCHANGED <<next, inbox, up, unacked>> /\ ~handled /\ handled' /\ inbox # <<>>
      BY <1>2, <2>5, HandleSteps
    <3>2. /\ HandledUpTo' = next - Len(inbox) /\ HandledUpTo = next - 1 - Len(inbox)
      BY <2>2, <2>3, <3>1 DEF HandledUpTo
    <3>3. Head(inbox) = inbox[1] /\ inbox[1] \in Nat /\ inbox[1] + Len(inbox) = next
      <4>1. 1 \in DOMAIN inbox /\ Head(inbox) = inbox[1]
        BY <2>2, <2>3, <3>1
      <4>2. inbox[1] \in DOMAIN log
        BY <2>2, <4>1
      <4>3. inbox[1] + Len(inbox) + 1 = next + 1
        BY <2>2, <4>1
      <4> QED
        BY <2>1, <2>2, <2>3, <4>1, <4>2, <4>3
    <3>4. CalmInboxOK'
      BY <2>2, <3>1 DEF CalmInboxOK, InInbox
    <3> QED
      BY <1>2, <2>1, <2>2, <2>3, <2>5, <3>2, <3>3, <3>4
  <2>6. CASE Q!Ack
    <3>1. /\ handled /\ inbox' = Tail(inbox) /\ handled' = FALSE
          /\ unacked' = {d \in unacked : d.pos # Head(inbox)}
          /\ UNCHANGED <<next, up>>
      BY <2>1, <2>6 DEF Q!Ack
    <3>2. /\ Len(inbox') = Len(inbox) - 1 /\ DOMAIN inbox' = 1..(Len(inbox) - 1)
          /\ \A k \in DOMAIN inbox' : inbox'[k] = inbox[k + 1] /\ k + 1 \in DOMAIN inbox
          /\ Head(inbox) = inbox[1] /\ Len(inbox) >= 1
      BY <2>2, <2>3, <3>1
    <3>3. \A k \in DOMAIN inbox' : inbox'[k] + Len(inbox') + 1 = next' + k
      <4>1. \A k \in DOMAIN inbox : inbox[k] \in Nat /\ k \in Nat
        BY <2>1, <2>2
      <4>2. SUFFICES ASSUME NEW k \in DOMAIN inbox'
                     PROVE  inbox'[k] + Len(inbox') + 1 = next' + k
        OBVIOUS
      <4>3. PICK l \in DOMAIN inbox : /\ inbox'[k] = inbox[l] /\ l = k + 1 /\ k \in Nat
                                      /\ Len(inbox') = Len(inbox) - 1 /\ next' = next
        BY <2>3, <3>1, <3>2
      <4>4. inbox[l] + Len(inbox) + 1 = next + l /\ inbox[l] \in Nat
        BY <2>2, <4>1
      <4>5. next \in Nat /\ Len(inbox) \in Nat
        BY <2>2, <2>3
      <4>6. PICK e \in Nat, n \in Nat : e = inbox[l] /\ n = Len(inbox) /\ e + n + 1 = next + (k + 1)
        BY <4>3, <4>4, <4>5
      <4>7. k \in Nat /\ next \in Nat
        BY <4>3, <4>5
      <4>8. e + n = next + k
        BY <4>6, <4>7
      <4>9. e + (n - 1) + 1 = next + k
        BY <4>8
      <4> QED
        BY <4>3, <4>6, <4>9
    <3>4. ASSUME NEW d \in unacked' PROVE ~d.due /\ InInbox(d.pos)'
      <4>1. PICK j \in DOMAIN inbox : inbox[j] = d.pos
        BY <2>2, <3>1 DEF InInbox
      <4>2. j # 1 /\ j \in 1..Len(inbox)
        BY <2>3, <3>1, <3>2, <4>1
      <4>3. j - 1 \in DOMAIN inbox' /\ inbox'[j - 1] = inbox[j]
        BY <2>2, <2>3, <3>1, <3>2, <4>2
      <4> QED
        BY <2>2, <3>1, <4>1, <4>3 DEF InInbox
    <3>5. HandledUpTo' = HandledUpTo /\ Len(inbox') < next'
      BY <2>2, <2>3, <3>1, <3>2 DEF HandledUpTo
    <3> QED
      BY <2>1, <2>2, <3>1, <3>3, <3>4, <3>5 DEF CalmInboxOK
  <2>7. CASE \E d \in unacked : Q!AckWaitElapses(d) \/ Q!Redeliver(d)
    BY <2>1, <2>2, <2>7 DEF Q!AckWaitElapses, Q!Redeliver, InInbox
  <2>8. CASE Q!QueryStop \/ Q!ConsumerExpires \/ Q!QueryStart
    BY <2>1, <2>2, <2>8 DEF Q!QueryStop, Q!ConsumerExpires, Q!QueryStart
  <2> QED
    BY <2>1, <2>4, <2>5, <2>6, <2>7, <2>8 DEF Q!QueryNext
<1> QED
  BY <1>1, <1>2

\* In a calm run the stream has the events of a message in commit order, each
\* once, and none before those that precede it.
LEMMA StreamInOrder ==
    ASSUME WriteSideInv, faults = 0, InCommitOrder
    PROVE  /\ \A k, l \in DOMAIN log :
                 /\ k < l
                 /\ outbox[log[k]].event.id = outbox[log[l]].event.id
                 => Before(log[k], log[l])
           /\ \A l \in DOMAIN log, i \in DOMAIN outbox :
                 Before(i, log[l]) => \E k \in DOMAIN log : k < l /\ log[k] = i
<1>1. /\ \A k \in DOMAIN log : log[k] \in DOMAIN outbox /\ log[k] \in Nat /\ k \in Nat
  <2>1. log \in Seq(DOMAIN outbox) /\ outbox \in Seq(Outbox)
    BY PublisherTyped DEF WriteSideInv
  <2> QED
    BY <2>1
<1>2. /\ \A k, l \in DOMAIN log : log[k] = log[l] => k = l
      /\ \A l \in DOMAIN log, i \in DOMAIN outbox :
            Before(i, log[l]) => \E k \in DOMAIN log : k < l /\ log[k] = i
  BY DEF WriteSideInv, QuietOK, OrderOK
<1>3. ASSUME NEW k \in DOMAIN log, NEW l \in DOMAIN log, k < l,
             outbox[log[k]].event.id = outbox[log[l]].event.id
      PROVE  Before(log[k], log[l])
  <2>1. log[k] # log[l]
    BY <1>1, <1>2, <1>3
  <2>2. ASSUME log[l] < log[k] PROVE FALSE
    <3>1. Before(log[l], log[k])
      BY <1>3, <2>2 DEF Before
    <3>2. PICK h \in DOMAIN log : h < k /\ log[h] = log[l]
      BY <1>1, <1>2, <3>1
    <3>3. h = l
      BY <1>2, <3>2
    <3> QED
      BY <1>1, <1>3, <3>2, <3>3
  <2> QED
    BY <1>1, <1>3, <2>1, <2>2 DEF Before
<1> QED
  BY <1>2, <1>3

LEMMA CalmViewStep ==
    ASSUME WriteSideInv, WriteSideInv', ConsumerOK, ConsumerOK', ViewOK,
           CalmInboxOK, CalmViewOK, [PipelineNext]_pipelineVars
    PROVE  CalmViewOK'
<1> SUFFICES ASSUME faults' = 0, InCommitOrder'
             PROVE  \A m \in Messages :
                       \/ Done(m)' = {} /\ view'[m].status = "absent"
                       \/ \E k \in Done(m)' : /\ IsLast(k, Done(m)')
                                              /\ Shown(m)' = Says(outbox'[log'[k]].event)
  BY DEF CalmViewOK, IsLast
<1>1. /\ faults = 0 /\ CalmInboxOK'
      /\ HandledUpTo' = HandledUpTo
            \/ (QueryStep /\ Q!Handle /\ HandledUpTo' = Head(inbox)
                  /\ Head(inbox) = HandledUpTo + 1)
  BY CalmInboxStep
<1>2. InCommitOrder
  <2>1. CASE QueryStep
    BY <2>1, ReaderSteps DEF InCommitOrder
  <2>2. CASE ~QueryStep
    BY <2>2, WriterSteps, CalmIsInherited DEF WriteSideInv
  <2> QED
    BY <2>1, <2>2
<1>3. /\ \A k \in DOMAIN log : k \in DOMAIN log' /\ log'[k] = log[k] /\ log[k] \in DOMAIN outbox
      /\ \A i \in DOMAIN outbox : outbox'[i].event = outbox[i].event
      /\ Len(log) \in Nat /\ Len(log') \in Nat
      /\ DOMAIN log = 1..Len(log) /\ DOMAIN log' = 1..Len(log')
  <2>1. \A k \in DOMAIN log : log[k] \in DOMAIN outbox
    BY StreamIsLog DEF WriteSideInv
  <2>2. CASE QueryStep
    BY <2>1, <2>2, ReaderSteps
  <2>3. CASE ~QueryStep
    BY <2>1, <2>3, WriterSteps
  <2> QED
    BY <2>2, <2>3
<1>4. HandledUpTo <= Len(log) /\ HandledUpTo \in Int
  <2>1. Len(inbox) \in Nat /\ next \in 1..(Len(log) + 1) /\ (handled => Len(inbox) >= 1)
    BY DEF ConsumerOK
  <2> QED
    BY <1>3, <2>1 DEF HandledUpTo
<1>5. CASE HandledUpTo' = HandledUpTo /\ UNCHANGED view
  <2>1. ASSUME NEW m \in Messages PROVE Done(m)' = Done(m)
    BY <1>3, <1>4, <1>5 DEF Done
  <2>2. \A m \in Messages : \A k \in Done(m) : outbox'[log'[k]].event = outbox[log[k]].event
    BY <1>3 DEF Done
  <2>3. \A m \in Messages : Shown(m)' = Shown(m)
    BY <1>5 DEF Shown
  <2> QED
    BY <1>1, <1>2, <1>5, <2>1, <2>2, <2>3 DEF CalmViewOK
<1>6. CASE QueryStep /\ Q!Handle
  <2>1. /\ UNCHANGED <<log, outbox>> /\ faults' = faults
    BY <1>1, <1>6, ReaderSteps
  <2>2. PICK ev \in Event : ev = outbox[log[Head(inbox)]].event /\ Q!Apply(ev)
    BY <1>1, <1>6, HandleSteps
  <2>3. PICK p \in DOMAIN log : p = Head(inbox)
    BY <1>6, HandleSteps
  <2>4. HandledUpTo' = p /\ p = HandledUpTo + 1
    <3>1. UNCHANGED <<next, inbox>> /\ ~handled /\ handled' /\ inbox # <<>>
      BY <1>6, HandleSteps
    <3>2. HandledUpTo' = HandledUpTo + 1
      <4>1. Len(inbox) \in Nat /\ next \in Nat
        BY <1>3 DEF ConsumerOK
      <4> QED
        BY <3>1, <4>1 DEF HandledUpTo
    <3> QED
      BY <1>1, <1>4, <2>3, <3>2
  <2>5. PICK m \in Messages : m = ev.id
    BY DEF Event
  <2>6. ev.type # "deleted_message" => ev.content \in Contents
    BY <1>3, <2>2, <2>3, EventsHaveBodies
  <2>7. /\ \A o \in Messages : o # m => view'[o] = view[o]
        /\ view[m].status # "deleted" /\ ev.type = "new_message" => Shown(m)' = Says(ev)
        /\ view[m].status = "live" => Shown(m)' = Says(ev)
    <3>1. Shown(ev.id)' = Shown(m)'
      BY <2>1, <2>2, <2>5 DEF Shown
    <3> QED
      BY <2>2, <2>5, <2>6, <3>1, ApplySays
  <2>8. /\ Done(m)' = Done(m) \cup {p}
        /\ \A k \in Done(m) : k < p
        /\ \A o \in Messages : o # m => Done(o)' = Done(o)
    BY <1>3, <1>4, <2>1, <2>2, <2>3, <2>4, <2>5 DEF Done
  <2>9. \A k \in Done(m) : Before(log[k], log[p])
    <3>1. \A k \in Done(m) : k \in DOMAIN log /\ k < p
                             /\ outbox[log[k]].event.id = outbox[log[p]].event.id
      BY <2>2, <2>3, <2>5, <2>8 DEF Done
    <3> QED
      BY <1>1, <1>2, <3>1, StreamInOrder
  <2>10. \A k \in Done(m) : Says(outbox[log[k]].event) \in Contents
    <3>1. ASSUME NEW k \in Done(m) PROVE Says(outbox[log[k]].event) \in Contents
      <4>1. log[k] \in DOMAIN outbox /\ log[p] \in DOMAIN outbox
        BY <1>3 DEF Done
      <4>2. outbox[log[k]].event.type # "deleted_message"
        BY <2>9, <4>1 DEF WriteSideInv, HistoryOK
      <4> QED
        BY <4>1, <4>2, EventsHaveBodies DEF Says
    <3> QED
      BY <3>1
  <2>11. view[m].status # "deleted" /\ (Done(m) # {} => view[m].status = "live")
    <3>1. CASE Done(m) = {}
      BY <1>1, <1>2, <3>1 DEF CalmViewOK
    <3>2. CASE Done(m) # {}
      <4>1. Shown(m) \in Contents
        BY <1>1, <1>2, <2>10, <3>2 DEF CalmViewOK, IsLast
      <4>2. view[m].status \in {"absent", "live", "deleted"}
        <5>1. view[m] \in ViewRow
          BY DEF ViewOK
        <5> QED
          BY <5>1 DEF ViewRow
      <4> QED
        BY <4>1, <4>2, PipelineConstants DEF Shown
    <3> QED
      BY <3>1, <3>2
  <2>12. ev.type # "new_message" => Done(m) # {}
    <3> SUFFICES ASSUME ev.type # "new_message" PROVE Done(m) # {}
      OBVIOUS
    <3>1. PICK j \in DOMAIN outbox : Before(j, log[p])
      BY <1>3, <2>2, <2>3 DEF WriteSideInv, HistoryOK
    <3>2. PICK k \in DOMAIN log : k < p /\ log[k] = j
      BY <1>1, <1>2, <3>1, StreamInOrder
    <3>3. k \in Done(m)
      BY <1>3, <1>4, <2>2, <2>3, <2>4, <2>5, <3>1, <3>2 DEF Done, Before
    <3> QED
      BY <3>3
  <2>13. Shown(m)' = Says(outbox'[log'[p]].event)
    BY <2>1, <2>2, <2>3, <2>7, <2>11, <2>12
  <2>14. p \in Done(m)' /\ IsLast(p, Done(m)')
    BY <1>3, <2>8 DEF IsLast, Done
  <2>15. ASSUME NEW o \in Messages, o # m
         PROVE  \/ Done(o)' = {} /\ view'[o].status = "absent"
                \/ \E k \in Done(o)' : /\ IsLast(k, Done(o)')
                                       /\ Shown(o)' = Says(outbox'[log'[k]].event)
    <3>1. Done(o)' = Done(o) /\ view'[o] = view[o] /\ Shown(o)' = Shown(o)
      BY <2>7, <2>8, <2>15 DEF Shown
    <3> QED
      BY <1>1, <1>2, <2>1, <3>1 DEF CalmViewOK
  <2> QED
    BY <2>13, <2>14, <2>15
<1> QED
  BY <1>1, <1>5, <1>6, OnlyHandleShows

LEMMA CalmInit == PipelineInit => CalmInboxOK /\ CalmViewOK
<1> SUFFICES ASSUME PipelineInit PROVE CalmInboxOK /\ CalmViewOK
  OBVIOUS
<1>1. /\ log = <<>> /\ next = 1 /\ inbox = <<>> /\ unacked = {} /\ up
      /\ \A m \in Messages : view[m].status = "absent"
  BY DEF PipelineInit, CommandInit, Q!QueryInit, Q!NoView
<1>2. \A m \in Messages : Done(m) = {}
  BY <1>1 DEF Done
<1> QED
  BY <1>1, <1>2 DEF CalmInboxOK, CalmViewOK

\* Nothing is left to do, so every event has been sent and handled.
LEMMA DrainedIsDone ==
    ASSUME WriteSideInv, ConsumerOK, faults = 0, Drained
    PROVE  /\ \A i \in DOMAIN outbox : i \in SentEvents
           /\ \A m \in Messages : Done(m) = {k \in DOMAIN log : log[k] \in EventsOf(m)}
<1>1. ASSUME NEW i \in DOMAIN outbox PROVE i \in SentEvents
  <2>1. outbox[i].retry_count = 0 /\ i \notin Pending
    BY DEF WriteSideInv, QuietOK, Drained
  <2>2. outbox[i].published
    BY <2>1, CommandConstants DEF Pending
  <2> QED
    BY <2>2 DEF WriteSideInv, CommandInv, MarkedWasSent
<1>2. HandledUpTo = Len(log) /\ Len(log) \in Nat /\ DOMAIN log = 1..Len(log)
  <2>1. Len(log) \in Nat /\ DOMAIN log = 1..Len(log)
    BY StreamIsLog DEF WriteSideInv
  <2>2. next = Len(log) + 1 /\ Len(inbox) = 0 /\ ~handled
    BY DEF Drained, ConsumerOK
  <2> QED
    BY <2>1, <2>2 DEF HandledUpTo
<1>3. \A k \in DOMAIN log : log[k] \in DOMAIN outbox
  BY StreamIsLog DEF WriteSideInv
<1> QED
  BY <1>1, <1>2, <1>3 DEF Done, EventsOf

LEMMA DrainedAgrees ==
    ASSUME WriteSideInv, ConsumerOK, CalmViewOK,
           faults = 0, InCommitOrder, Drained, NEW m \in Messages
    PROVE  Shown(m) = Stored(m)
<1>1. /\ \A i \in DOMAIN outbox : i \in SentEvents
      /\ Done(m) = {k \in DOMAIN log : log[k] \in EventsOf(m)}
  BY DrainedIsDone
<1>2. CASE EventsOf(m) = {} /\ rows[m].status = "absent"
  <2>1. view[m].status = "absent"
    BY <1>1, <1>2 DEF CalmViewOK
  <2> QED
    BY <1>2, <2>1 DEF Shown, Stored
<1>3. CASE \E i \in EventsOf(m) : /\ IsLast(i, EventsOf(m))
                                 /\ Says(outbox[i].event) = Stored(m)
  <2>1. PICK i \in EventsOf(m) : /\ IsLast(i, EventsOf(m))
                                 /\ Says(outbox[i].event) = Stored(m)
    BY <1>3
  <2>2. PICK h \in DOMAIN log : log[h] = i
    BY <1>1 DEF SentEvents, EventsOf
  <2>3. h \in Done(m)
    BY <1>1, <2>2
  <2>4. PICK k \in Done(m) : /\ IsLast(k, Done(m))
                             /\ Shown(m) = Says(outbox[log[k]].event)
    BY <2>3 DEF CalmViewOK
  <2>5. /\ h <= k /\ h \in Nat /\ k \in Nat /\ k \in DOMAIN log
        /\ log[k] \in EventsOf(m) /\ log[k] \in Nat /\ i \in Nat
    <3>1. log \in Seq(DOMAIN outbox) /\ outbox \in Seq(Outbox)
      BY PublisherTyped DEF WriteSideInv
    <3> QED
      BY <1>1, <2>3, <2>4, <3>1 DEF IsLast, EventsOf
  <2>6. CASE h < k
    <3>1. Before(log[h], log[k])
      BY <2>2, <2>5, <2>6, StreamInOrder DEF EventsOf
    <3> QED
      BY <2>1, <2>2, <2>5, <3>1 DEF Before, IsLast
  <2>7. CASE h = k
    BY <2>1, <2>2, <2>4, <2>7
  <2> QED
    BY <2>5, <2>6, <2>7
<1> QED
  BY <1>2, <1>3 DEF WriteSideInv, OutboxIsComplete

\* When nothing failed and the transactions of each message did not overlap,
\* the projection equals chat_messages once everything committed has gone
\* through the outbox, the stream and the consumer (chat.go to consumer.go).
THEOREM CalmConvergenceAlways == PipelineSpec => []CalmConvergence
<1>1. WriteSideInv /\ WriteSideInv' /\ ConsumerOK /\ ConsumerOK' /\ CalmInboxOK
         /\ [PipelineNext]_pipelineVars => CalmInboxOK'
  <2> SUFFICES ASSUME WriteSideInv, WriteSideInv', ConsumerOK, ConsumerOK', CalmInboxOK,
                      [PipelineNext]_pipelineVars, faults' = 0
               PROVE  CalmInboxOK'
    BY DEF CalmInboxOK
  <2> QED
    BY CalmInboxStep
<1>2. WriteSideInv /\ WriteSideInv' /\ ConsumerOK /\ ConsumerOK' /\ ViewOK
         /\ CalmInboxOK /\ CalmViewOK /\ [PipelineNext]_pipelineVars => CalmViewOK'
  BY CalmViewStep
<1>3. WriteSideInv /\ ConsumerOK /\ CalmViewOK => CalmConvergence
  BY DrainedAgrees DEF CalmConvergence
<1> QED
  BY <1>1, <1>2, <1>3, CalmInit, WriteSideInvariant, ConsumerInvariant, ViewInvariant, PTL
     DEF PipelineSpec
=============================================================================
