# Chinwag: a verification project

TLA+ models of the parts of Chinwag whose correctness depends on interleavings,
failures and order, TLC runs that check them on small instances, and TLAPS
proofs of the properties that matter most for every size of the system.
Paths below are relative to the repository; `services/` is
`src/backend/services/`.

Contents: [inventory](#1-inventory), [plan](#2-plan),
[modules](#3-the-modules-and-the-code), [runs](#4-the-runs),
[bounds and fairness](#5-bounds-and-fairness), [proofs](#6-proofs),
[disagreements](#7-where-code-and-documentation-disagree),
[limits](#8-what-is-not-covered).

## 1. Inventory

Chinwag is a chat platform of Go services behind a gateway, with a Next.js
frontend. Writes and reads of messages are separate services (CQRS) joined by a
transactional outbox and a JetStream stream.

| Component | State | Operations | Talks to |
|---|---|---|---|
| chat-command, messages (`services/chat/command/service/chat.go`, `repo/`) | `chat_messages`, `outbox_events` | create, update, delete, admin delete; each a guard phase over HTTP and one transaction | room service (popped flag, members), auth (names), PostgreSQL |
| chat-command, outbox publisher (`service/outbox.go`) | `published_at`, `retry_count`; batch and retry timers in memory | poll, publish, mark, retry with backoff | PostgreSQL, JetStream stream `CHAT_EVENTS` |
| chat-command, WebSocket hub and tickets (`ws/hub.go`, `handler/websocket.go`) | rooms → clients, a 256-slot channel per client; one-use tickets in Redis | register, unregister, broadcast, evict, ping/pong; issue and consume ticket | JetStream fan-out consumer, browsers |
| chat-query, projection consumer (`services/chat/query/main.go`, `service/consumer.go`) | `message_projections`; consumer state in JetStream | handle one event, acknowledge | JetStream, PostgreSQL |
| chat-query, reads (`service/query.go`) | cached pages in Redis | list, list after a cursor, count | projection, room service |
| chat-query, repair tools (`cmd/gap-sync`, `cmd/backfill`, `service/gap_sync_scheduler.go`) | none of their own | copy missing or changed rows | both databases; the scheduler has no caller |
| auth, refresh tokens (`services/auth/service/refreshTokenService.go`, `handler/refreshHandler.go`) | Redis: a record per token, lineage, members, two session indexes, a lock per token | issue, rotate (Lua), revoke a lineage, revoke a user's sessions, list | browsers, admin, two replicas |
| auth, accounts (`service/userService.go`, `handler/adminUserHandler.go`, `service/auditService.go`) | `users`, `audit_events` | sign up, login, profile; create, role, disable, restore by an administrator, each with an audit record | refresh tokens, admin pages |
| auth, signing keys (`service/jwksService.go`, `scheduler/`) | `signing_keys`, a version, an in-memory key set | load, rotate at midnight or on expiry | both replicas, verifiers |
| auth, Google OAuth (`oauth/google.go`) | state cookie, `users` | redirect, callback, find or create | Google, users |
| shared DPoP and JWKS client (`src/backend/shared/auth/`) | nonces and jtis in Redis; a key cache | validate proof, fetch keys | every service |
| room service (`services/room/`) | `rooms`, `room_member`, invite links in Redis | create, update, delete, pop (by hand and by schedule), invite, join, kick, roles | chat services |
| gateway (`src/backend/gateway/`) | token buckets (memory and Redis), a circuit breaker | rate limit, forward | every service |
| frontend, message list (`src/frontend/src/features/chat/hooks/use-messages.ts`, `services/websocket-client.ts`) | the cached pages of a room, a cursor; socket, ticket request, reconnect timer | fetch, apply socket events, resync after a reconnect, send with an optimistic copy; connect, disconnect, reconnect | chat-query, chat-command, hub |
| frontend, API client (`lib/api-client.ts`, `lib/dpop.ts`) | access token, nonce, shared refresh promise, DPoP gate; key pair in IndexedDB | request with refresh and nonce retry | gateway |
| frontend, session (`features/auth/hooks/use-auth.tsx`, login, register and callback pages, guards) | user, cached user, loading, read-only mode | restore, poll, log in, register, log out, Google | API client |
| frontend, room pages (`features/room/`, `app/(main)/chat/[roomId]/`, `app/invite/`, `components/sidebar.tsx`) | react-query entries for room, role, members, rooms; open dialogs | create, settings, pop, delete, roles, kick, invite, join | room service |
| frontend, admin pages (`features/admin/`, `app/admin/`) | react-query entries of six pages; filter, dialog | accounts, sessions, rooms, members, messages, audit | auth, room and chat services |
| observability, deployment | manifests | none | – |

What is hard, component by component, and what makes each correct:

- **Outbox and projection.** Handlers overlap; the publisher can fail or stop
  between two calls; JetStream repeats, delays and loses deliveries; either
  service restarts. *Correct* means: the outbox accounts for every change;
  nothing is dropped between publishing and marking; the projection shows only
  states the message has been in, never revives a deleted message and, when
  nothing went wrong, ends equal to the source.
- **Refresh tokens.** Two tabs, an old copy of a cookie, an admin, an expiring
  lock and Redis failures meet on one lineage. *Correct* means: at most one
  token of a lineage can be exchanged; reuse kills the lineage at once; no race
  with a revocation or an expiry revives it; replays are recognised as long as
  the token would verify; a well-behaved browser is never logged out.
- **Hub.** Channels are closed by the hub while read pumps send on them, and a
  full channel blocks or evicts. *Correct*: no send on a closed channel, no
  close twice, the hub never blocks, a registered client gets every message or
  is cut off, pumps and connections end together.
- **Message list.** Three writers (the query, the socket, the resync) and an
  optimistic copy interleave, and what they write is of different ages.
  *Correct*: nothing shown twice, the list converges when nothing overlapped, the
  socket comes back.
- **Session.** A shared refresh, single-use nonces and cookies, and operations
  that overlap in one tab. *Correct*: no nonce and no cookie goes out twice; the
  user on screen is the one the token acts for; a logout is final; loading ends.
- **Rooms.** Check-then-act over two statements, statements on members that look at
  the room without locking it, popping by hand and by schedule, and pages that decide
  on cached data what to offer. *Correct*: nothing starts to change in a popped room;
  nobody takes the room from its owner; caches end up right.
- **Administration.** Several administrators at once, statements that fail between
  a change and its record, lists under several filters. *Correct*: one who can act
  remains; changes are on record; lists end up right.
- **Signing keys, gateway.** Two replicas rotate at once; late results reach the
  breaker. *Correct*: tokens stay verifiable until they expire; the breaker works
  on current evidence.

Every hazard with its line is in `PROJECT.json`, `hazards`.

## 2. Plan

In order, the most important first.

1. `ChatCommand`, `ChatQuery`, `ChatPipeline`, with the abstract
   `MessageView` – *done*, with every safety property and the refinement proved.
2. `RefreshTokens` – *done*, with its safety properties proved.
3. `WsHub`: hub, pumps and tickets; liveness of distribution – *done*, with every
   safety property proved.
4. `UseMessages`: the browser's message list and its sockets over several visits of
   a room, first page – *done*, with every safety property proved.
5. `ApiClient` and `AuthSession`: the tab's tokens and who is signed in – *done*,
   with every safety property proved.
6. `Rooms` and `RoomPages`: the room service under overlapping requests, and the
   pages in front of it – *done*, with every safety property proved.
7. `Admins` and `AdminPages`: accounts, audit and the admin pages – *done*, with
   every safety property proved.
8. More proofs: every safety property that a run checks has its theorem. Left are the
   two abstract specifications named below, with the refinements that `TokenIInv` and
   `OrderIInv` should carry.
9. Smaller components: signing keys under two replicas, the breaker, the message
   cache of chat-query; older pages in `UseMessages`.

Abstract specifications: `MessageView` is what readers of the projection are
promised. Worth stating next: a lineage as a register of the one usable token, and
the hub as a set of subscribed clients.

## 3. The modules and the code

| Module | Models |
|---|---|
| `ChatCommand` | message handlers, the two tables, the publisher |
| `ChatQuery` | the JetStream consumer, the callback, the projection |
| `ChatPipeline` | both together, joined by the stream; refinement of `MessageView` |
| `MessageView` | abstract: what readers are promised |
| `RefreshTokens` | rotation, revocation, the browser's cookie |
| `WsHub` | tickets, the hub's goroutine, read and write pumps |
| `UseMessages` | the list of a room in the browser, and the socket of each visit to it |
| `ApiClient` | requests of a tab: refresh, gate, nonces, retries |
| `AuthSession` | who is signed in, on top of `ApiClient` |
| `Rooms` | one room, its members and its invite link in the service |
| `RoomPages` | one person's tab on that room, on top of `Rooms` |
| `Admins` | accounts, what administrators remove, and the audit log |
| `AdminPages` | one administrator's tab, on top of `Admins` |
| `ChatCommandProofs`, `ChatPipelineProofs`, `RefreshTokensProofs`, `WsHubProofs`, `UseMessagesProofs`, `AuthSessionProofs`, `RoomPagesProofs`, `AdminPagesProofs` | theorems about the module they are named for; `ChatPipelineProofs` builds on `ChatCommandProofs` |
| `MC_*` | constants for TLC |

### ChatCommand

State: `rows` is `chat_messages` (status, author, content); `outbox` is
`outbox_events` in commit order; `popped`, `members` are the room as the room
service answers; `req` is what each running handler has read; `now` numbers the
transactions by their start; `batch`, `stage`, `backoff` are the local variables
and `retryTimers` of the publisher; `log` is the stream, as positions in
`outbox`.

- `AdmitCreate/Update/Delete/AdminDelete` are the guards of a handler up to
  `uow.Do`. A handler reads the message (or the popped flag) first and the rest
  later; one atomic read stands for both because a popped room stays popped and
  a member who left does not come back (`room_member`'s primary key keeps the
  row), so what the later read allows held at the earlier one too.
- `BeginTx`, `CommitTx`, `RollbackTx` are the transaction. `created_at` is the
  column default `NOW()`, the start of the transaction; this is why the outbox
  is kept in commit order and sorted by `created_at` only when polled. The
  statements of a transaction and its commit are one step: they become visible
  together, and the row lock of the first one orders transactions of a message.
- `Poll` … `MarkPublished` are `processBatch`, one step per call to PostgreSQL or
  JetStream. A failed publish either never reached the stream or lost its
  acknowledgement. `BackoffElapses` is a timer; `CommandRestart` keeps the
  tables and the stream and forgets the rest.

A soft-deleted room refuses user requests as a popped one does, so `popped`
stands for both. Payload fields other than type, id and content are left out.

### ChatQuery and ChatPipeline

`consumer`, `next`, `unacked` are the consumer on the JetStream server (an
external component, modelled from the configuration in `query/main.go`):
deliveries in stream order, a deadline per delivery, `MaxDeliver`, and expiry of
a consumer that nobody uses. `inbox`, `handled` are the client library and the
callback. `Handle` runs one of the three statements, which may fail unnoticed;
`Ack` always follows. `view` is `message_projections`.

`ChatPipeline` extends `ChatCommand` and instantiates `ChatQuery` with the
payloads of the published rows as its stream. `ViewIsOfThePast` is the
refinement: `Stored`, `Past` and `Shown` map rows, outbox and projection to
`MessageView`'s variables.

### RefreshTokens

State: one variable per kind of Redis key (`rec`, `lin`, `members`, `userIndex`,
`sessions`, `lock`), `jwt` for what a token says of itself, `handed` and
`cookie` for who has it, `call` per running `POST /refresh` and `admin` for a
revocation under way. A Lua script is one step, `RevokeLineage` one step per
command. Every key carries its expiry; `Tick` drops what has expired, and an
HSET on an expired key brings it back without a TTL, as Redis does. `disturbed`
and `reused` are history variables: lineages to which a failure, a replay, a
race or a revocation happened, and lineages reported REUSED.

`Present` lets a request come with any token ever handed out, so replays and
copies are included. `Rotate` has the three ways it ends: a reply, no contact
with Redis, and a reply that is lost.

### WsHub

State: `ticket` is `ws:ticket:*` in Redis; `client`, `link`, `send`, `closed` are
a `Client`, its TCP connection, its channel and whether that is closed; `reader`
and `writer` are the program counters of its pumps; `rooms` and `queue` are the
hub's map and its broadcast channel; `fanout` is the event the hub's goroutine
is ranging over clients with. `panic` stops every action, as a panic in any
goroutine stops the process. `fanned`, `since` and `got` are histories.

A step is one communication: `HubRegister`, `HubUnregister`, `HubTake` are the
cases of the select, `HubDistribute` one turn of the range (in any order: Go
ranges over a map at random). The sends on a client's channel, by the
hub and by `readPump`, distinguish a closed channel (a panic, `default` case or not), a free
slot and a full one. `ReadFails` and `WriteFails` may come at any time: they are
also the deadlines.

### UseMessages

State: `list` is the first page of the query's data, `cursor`
`lastMessageCursorRef`; `fetch`, `resyncs`, `mutation` are requests under way with
what the server has read for them; `ws` … `timer` are the fields of `WsClient`;
`hub` and `wire` are the server's end. A request is three steps – asked, read on
the server, applied in the browser – so that socket events and other answers get
in between. `SetList` also moves the cursor, as the effect on `allMessages` does.
Behind it stand the room's events in commit order, of which the hub has
distributed `sent` and the projection shows `projected`, each at its own pace.
`calm` is a history variable: it turns false when a failure happens or when an
event or an answer is applied to a list that another request is about to
replace; `CalmListConverges` is about the other runs.

A visit is a run of the effect that makes a `WsClient`, so the fields of the client
are functions of `Client`, the visits. `Leave` is the effect's cleanup with
`disconnect`: the ticket request, the requests of the page and the mutation go on,
and so does the cached list, until the query library drops it (`Forget`). `Enter`
makes the next client, reads the list again when it is absent, invalidated
(`invalid`) or stale, and makes `calm` true again when the new reading replaces
whatever went wrong before.

### ApiClient and AuthSession

`token`, `nonce`, `gate` are `accessToken`, `dpopNonce` and the waiting line that
`dpopGate` makes of promises; `request` is, per caller, the request it awaits; the
caller `Refresher` is the operation behind `refreshPromise`. A call of `apiRequest`
is asked (`Ask`), waits for the shared refresh or for the gate, is sent with the
nonce of that moment (`Send`), served (`Serve`), and received (`Receive`,
`RetryWithNonce`, `RefreshEnds`). Everything the code does between two awaits is
one step; `Quiet` says that the code after an await runs before the next answer
comes in. The services are what the code relies on: they take a nonce and a
refresh cookie once. `keys` and `making` are `getOrCreateDPoPKey`, which looks in
IndexedDB, makes a key and stores it in separate steps.

`AuthSession` adds `AuthProvider`'s state, the page, and the operation of each of
two threads: what the provider does by itself (restore, poll) and what the person
starts. A reload or the way to Google loses the memory and what was under way,
keeps cookie, key and cached user, and may leave a refresh that is still served.

### Rooms and RoomPages

`room`, `members`, `invite` are the rows and the link; `call` holds the requests
under way. A request has a `Check`, which reads and may refuse, and later a
statement with the WHERE clause of the code, so that two requests can pass their
checks before either writes. A statement on the room is one step (`Commit`): it takes
the lock on the room's row and looks at the row again after waiting for it, and only
its COMMIT makes the change seen. A statement on `room_member` is two, because its
`EXISTS (SELECT 1 FROM rooms ...)` reads another table as it was when the statement
started and takes no lock there: `Execute` is the start, with `Writable` and the
member's row as they are; `Commit` is when the change is seen, and looks again at the
member's row, which the statement may have waited for, but not at the room. `NoRow` is
a statement that finds no row, and the rollback after it. A join goes on after its
COMMIT: `LinkUsed` deletes a single-use link, or fails to, unnoticed. `UserUnknown` is
a join whose user the auth service does not return.

The reads before a statement are one step: a popped room stays popped, so the second
look of `InviteUser` and of the handlers changes at most which error is answered. The
popper and the expiry of a link are steps of the service.

`RoomPages` is one person's tab: `query` has an entry per react-query key with what
it shows, what a fetch under way has read, and whether it is stale; `tab` is the
page with its dialogs, their fields and their pending flags. Other people's
browsers are the requests of anyone to the service, limited to what some page
offers on the data they hold. `generating` is the request that the button of the
invite dialog waits for; closing the dialog resets the mutation, and a link that comes
later is shown the next time it opens. `overtaken` marks the one case in which the query
library itself shows old data: an answer, read before an invalidation, to a query
no page is using. `failed` and `foreign` are histories.

### Admins and AdminPages

A handler is a step per statement: the read, `CountAdmins`, the UPDATE, the audit
record. `claim` is the role in the token a browser holds; access is decided on it
and not on the account, as `RequireRole` does. `raced` is a history: two changes
of accounts were between their first read and their UPDATE at the same time.
What administrators remove besides accounts (sessions, rooms, members, messages)
is an `Item` that is there or not; the message list is read from the projection,
which follows later (`Project`). `AdminPages` has a key per filter of the users
page, because invalidation and mounting treat them apart.

## 4. The runs

| Run | Expect | Shows |
|---|---|---|
| `command_safety` | pass | outbox complete, nothing dropped between publish and mark, marked events not resent, duplicates only from failures, order without failures |
| `pipeline_safety` | pass | the projection refines `MessageView` under every failure; calm runs converge |
| `pipeline_delivery` | pass | every committed event is marked or reaches the cap, even with batches of one; at least once while the consumer lives; convergence under fairness |
| `refresh_safety` | pass | one usable token, reuse kills, indexes complete, calm sessions survive, replays stay detectable, revocation is final across expiry |
| `hub_safety` | pass | a ticket opens one connection; no gap within a connection; the one panic that can happen |
| `hub_liveness` | pass | no browser holds up the hub; pumps and connections end |
| `messages_list` | pass | nothing shown twice, and calm runs end with the server's list, also when the room is left and opened again |
| `messages_socket` | pass | one connection attempt at a time and none after the room was left; the socket of the open page comes back |
| `auth_session` | pass | nonces and cookies go out once, user and token agree, a logout is final, a good cookie keeps its owner signed in, loading ends |
| `rooms` | pass | a popped or deleted room stays as it is but for the late COMMITs of statements on members, the owner stays a manager, calm pages converge |
| `admins` | pass | an administrator remains unless two changes raced, no more changes without record than failures, lists converge under any filter |
| `pipeline_deletion` | violation | section 7 |

Each property has a mutant, an operator of the same module that is wrong the way
a plausible bug would be (a filter dropped, a `continue` missing, a wrong sort
order); the run finds the property violated under it.

`CHECK_DEADLOCK FALSE` throughout: the transactions, operations, failures and time
of a run are bounded, so every run ends somewhere.

## 5. Bounds and fairness

- `MaxTx` (2 or 3) transactions: three are a create, an edit and a delete of one
  message, or two overlapping edits; every property of a message concerns one
  message, and messages share only the publisher.
- `MaxRetry` 1 or 2 for 20, `BatchSize` 1 or 2 for 50, `MaxDeliver` 2 or 3: the
  caps are reached within the run; batches of one make events wait behind others.
- `MaxFaults` 1 or 2: each property about failures is violated by one or two of
  them if at all; the theorems hold for any number.
- Refresh tokens: three tokens are a lineage of three generations, two handlers a
  race; with `TTL` 1 and `MaxTime` 1 old tokens and markers expire while a token
  issued after the tick lives. One lineage, because lineages share no key
  except the indexes, which are sets; the theorems hold for any number.
- Hub: two connections, two rooms (safety) or one (liveness), channels of one slot
  in place of 256, so that any send may find the channel full; two events, one
  to fill it and one to be lost or to evict; one ping (none for liveness: a pong
  occupies a slot as an event does). A connection needs a ticket, so there are
  two.
- Message list: one message of another user and one own, two commits (creation of
  both, or creation and edit or deletion of one), one reconnect attempt, one
  failure, and a room that is left once (`MaxLeaves`). `Skew` 1 puts the browser's
  clock ahead of the server's, past the next commit. For the socket: one message,
  two attempts and three failures, so that the attempts may be used up. The
  list with three commits and no failure (`MaxCommits` 3, `MaxFaults` 0, 6.3 million
  states) takes too long for a run that is repeated, and passes as well.
- Session: two users, one of them an administrator; two operations besides the
  restoring of the session that every run begins with, so that three overlap with
  the shared refresh; one failure or expiry. Five nonces: one more than the tab
  and its requests can hold, so that a fresh one always exists.
- Rooms: three users (this person, another manager or owner, and someone who is
  managed), two requests at once, `MaxSteps` 2 requests, losses and visits in all.
  A run starts without a room, or with one in which the others are managers,
  members or strangers, and in which this person is the owner or one of them;
  `MaxReads` 1 keeps one answer on its way at a time. Two steps suffice for a check
  and the statement it loses to; the theorems hold for any number.
- Admins: two administrators and an account to be created, two requests at once,
  two steps and one fault.
- Symmetry is used for handlers, contents, tokens and slots in runs without liveness.

Fairness. `FairPipelineSpec`: weak fairness of the publisher's own steps (a
ticker every 100 ms), of the backoff timers, of the server's deliveries, the
restart of the query service (its deployment restarts it), the callback and
redelivery. `FairHubSpec`: the hub's goroutine and each pump run (Go's scheduler),
a broken connection fails its read within the deadline of 60 s, a write ends
within 10 s; that each waiting register and unregister is served in turn is
select's random choice among ready cases. `FairMessagesSpec`: timers fire, ticket
requests and handshakes end one way or the other. `FairSessionSpec`: requests go
on until they are answered or fail, and the code after an await runs. Requests of
users, room operations, failures, crashes, events and pings are never fair.
`ChatCommand` on its own, `RefreshTokens`, `RoomPages` and `AdminPages` state
safety only.

## 6. Proofs

All theorems hold for every value of the constants that the named assumptions
allow; those say only what kinds of things the constants are (naturals, finite
sets where something is counted, `None` not among the values it stands beside).

`ChatCommandProofs`, from `CommandConstants`: `CommandTypeCorrect`,
`OutboxIsCompleteAlways`, `MarkedWasSentAlways`, `MarkedStaysUnsent`,
`FaultFreeFifoAlways`, `DuplicatesNeedFaultsAlways`. The invariant
is `CommandInv`. Type correctness is not inductive alone: that `retry_count` stays
within the cap, and that an event is not sent once marked, depend on what the
publisher knows of a batch it polled earlier. `CommandInv` therefore adds that the
events of a batch are distinct, that those from the current one on are still
pending (unpublished and below the cap; the publisher is the only writer of these
columns), and that at stage `mark` the current event is in the stream.
Completeness of the outbox is inductive with the row types, because the
transaction writes row and event in one step.

The order of the stream is about three places: an event waits in the outbox, in
the batch, or is in the stream. `HistoryOK` is the life of a message told by its
events (created first, deleted last); `QuietOK` says that without failures nothing
is backed off and that what was sent is marked, but for the current event;
`OrderOK` says that the earlier events of a message are ahead of each one, in the
stream or in the batch. A poll keeps this because it takes the oldest pending
events: whatever it leaves out is later. Both hold only while commit order agrees
with `created_at` (`InCommitOrder`), as the property does. For duplicates,
`DebtOK` counts: the length of the stream and the events sent but not marked
exceed the events sent by no more than the failures, since only a failure leaves
an event sent and unmarked.

`ChatPipelineProofs`, from `PipelineConstants` as well: `AtLeastOnceAlways`,
`CalmConvergenceAlways`, and the refinement `ViewIsOfThePastAlways`. The write side
keeps its invariants, for the query service changes nothing of it but the count
of failures (`WriteSideStep`). `ConsumerOK` says what the server, the client library
and the callback hold; `OwedOK` that a delivery is repeated only after a failure,
so that with fewer failures than `MaxDeliver` whatever was delivered and not handled
is still owed. For the refinement `CommitWrites` maps a commit to a `Write` of the
abstract view and `ViewSimulation` the callback to a `Show` of something the message
once was, or to a stutter; every other step stutters. Convergence needs that without
failures the client library holds a contiguous piece of the stream
(`CalmInboxOK`), so that the projection shows the last handled event of each
message (`CalmViewOK`), and that the last event of the stream is the last of the
outbox.

`RefreshTokensProofs`, from `RefreshConstants`: `TokensTyped`, `SingleUse`,
`ReuseIsFatal`, `ReplayIsRecognised`, `SessionsInSight`, `NothingComesBack`,
`CalmSessionAlwaysSurvives` – every safety property of the module. None of them is
inductive.
`TokenIInv` adds that a record of a token that was not revoked says what its JWT
says, and outlives it (`RecordsOK`: Redis may drop keys, but none that is needed);
that the lineage, its members and the indexes of an active record are there and
expire no earlier (`ActiveOK`); that nothing is known of lineages that have not
begun (`FreshOK`); and that once the admin reads the members of a lineage, nothing
of it can be exchanged (`AdminOK`, on which removing it from the indexes relies).
`Descent` is what every step does to the tokens: one that can be exchanged could
be exchanged before, or comes of a login or of one that could. That is
`NothingComesBack`, and it is also why `AdminOK` survives a rotation. A lemma per
script and command (`ActivateStep` for what both scripts write, `RevokeStep` for
every kind of revocation, `TickStep` for expiry) proves the part about Redis;
`CallsStep`, `AdminStep` and `OthersStep` the rest. A second invariant,
`CalmInvariant`, is about the browser: as long as nothing disturbed a lineage, one
call at a time works on it, with the token the browser holds (`CalmOK`). Up to the
exchange that token is the good one; from then on the good one is the new token, and
the reply brings it. `BelongOK` keeps the lineages apart.

`RoomPagesProofs`, from `RoomConstants` and `PageConstants`: `OwnerAlwaysAdmin`,
`ClosedRoomStaysButForLateCommits` and `CalmPagesAlwaysConverge`. The service would let any
manager remove or demote the owner, so the owner's safety is a property of pages:
`RoomIInv` says, of every request on its way, of the dialog's target and of every
query entry, that it cannot hurt the owner as long as no request failed (`CallSafe`, `Spared`,
`EntrySafe`), and that a page of the room without the room is one whose room was
deleted (`PageSafe`). A failed query is a real exception (section 7).
`ClosedRoomStaysButForLateCommits` goes through every step of the service. A statement
on the room looks at its row under the lock, so a closed room keeps its settings
(`Kept`). A statement on a member looks at the room only when it starts
(`AnswersFacts`), so none starts in a closed room, while one that had started may
still COMMIT, ends with that, and changes no other row than its own (`StatementFacts`,
`CommitEnds`): the exception the property names. `PagesInvariant` is about the cache while only this person
acts and nothing fails: each entry holds what the service would answer now, or is
marked stale or overtaken, or a request of this tab has changed it and has yet to
invalidate it (`Fits`, `DueBy`). What makes this inductive is what one person cannot
do alone (`AloneOK`): nobody removes or demotes themselves (`SelfOK`), somebody who is
not in the room can only join it (`OutsiderOK`), and a tab that has just been loaded
from a link, or that no room exists for, has asked for nothing (`EmptyOK`).
`PageConstants` says of `None` that no answer is written that way.

`AdminPagesProofs`, from `AdminConstants` and `PageConstants`: `AdminAlwaysRemains`.
`AdminIInv` says what a handler at its UPDATE may rely on while it is the only one
to decide (`Guarded`, `Spared`): another administrator is active, its target is no
administrator, or it makes one. When two decide at once this fails, and so does
the rule in the code; the theorem is about all other histories.
`ChangesAreAlwaysAudited` has an invariant of its own, `AuditOK`: changes without a
record and without a handler that is still to write it (`Lost`) are no more than the
faults. A handler's last step either writes the record or costs a fault; a record
once written stays. `AdminListsAlwaysConverge` is about the cache of the tab: as long
as only this administrator acts and nothing fails, each entry of a list holds what
the services would answer now, or is marked stale or overtaken, or a request of this
tab has changed the list and has yet to invalidate it (`Fits`, `Due`); what the page
shows is neither empty nor marked. `MeOK` is why nothing else can turn a reading
away: nobody else's request is served, and none of the own ones takes the role away.
`PageConstants` says of `None` that no list is written that way.

`WsHubProofs`, from `HubConstants`: `HubTyped`, `TicketsAreSingleUse` and
`HubPanicsOnlyOnEvictedPong`. `HubIInv` says what the goroutines rely on without a lock: a
client is in the map of its room exactly as long as its channel is open
(`MembershipOK`, so a close never meets a closed channel), whoever the hub has
still to serve in the round under way is registered (`FanoutOK`: the hub neither
registers nor unregisters between two turns of the range), and a ticket that some
client was opened with is gone (`TicketsOK`). The pong is the one send that none of
this covers.

The second half of the module is `NoGaps`. `OrderIInv` follows an event from the hub's round
through the client's channel and the write pump to the browser: what a client was
given (`GivenEvents`: received, being written, queued) is what was distributed to
its room since it registered, but for the event of the round it still waits for
(`Complete`), and the three places are in order, one after the other (`Ordered`).
A client whose channel was closed keeps an initial part of it. Both theorems hold for
channels of any capacity.

`UseMessagesProofs`, from `MessagesConstants`: `OneAttemptAtATime`, `ShownOnceAlways`,
`CalmListAlwaysConverges`. `SocketIInv` adds to `OneAttempt` that visits that have not
begun asked for nothing, and that a socket is being closed only after its room was
left, so that its `onclose` schedules nothing.

`ListIInv` is about everything that is or may become the list: the data of the query,
the copy kept for `onError`, the page fetched, the pages of the resyncs. Each is a
`Page`: its messages are known ones, and none is there twice. That this survives
depends on where a message comes from. A page read from the projection has every
message once because no event happens twice (`HistoryOK`); the socket's event and the
resync leave out what the list has; and the optimistic copy, which looks at nothing, is
of an id that no list has yet, since it was not `Known` before (`MutationOK` keeps it
from being committed twice).

`CalmIInv` says what a list is worth. It `Represents` the first *a* events of the
history: its messages are real and not known to be deleted (`Genuine`), it has those
created by then that stay (`Complete`), with their time and text (`UpToDate`), the
newest first (`Ordered`). It may also have messages created later, because the
projection may be ahead of the socket; and of a message that is going to be edited or
deleted it says nothing about what those events will settle. *a* is `Arrived`: what the
hub has distributed less what is on the wire. A projection that shows at least what was
distributed gives such a list (`LiveRepresents`), an event takes it from *a* to
*a* + 1 (`HandledRepresents`), the resync only puts `Genuine` messages in front that
the list does not have (`MissingRepresents`), and a list that represents the whole history is the
server's (`FullList`). The last step needs that there is one way to sort
(`AscendingUnique`): an element's place is the number of keys below its own. This is
why the module says what it means to sort and to filter (`Ascending`, `Kept`) and does not
use `SortSeq` and `SelectSeq`, whose recursion over data the provers cannot follow.
`MessagesConstants` says of `None` that it is no list of messages.

`AuthSessionProofs`, from `ClientConstants` and `SessionConstants`:
`RefreshCookieIsFresh`, `NonceIsAlwaysSentOnce`, `LogoutAlwaysSticks`,
`ShownUserAlwaysOwnsToken`, `UserAlwaysStaysSignedIn`. The invariants are levels,
each resting on those before it.

- `RefreshIInv`: between the exchange and the browser's taking the new cookie, the
  old one is stale. As long as nothing failed this is the case only while the shared
  refresh has its answer (`Exchanged`), and no other operation sends a refresh.
  `Asked` is why overlapping operations cannot disturb it: whoever asks for a request
  leaves a refresh under way as it is.
- `ClientOK`, `OpsOK`: the gate holds whoever asked for it, once; its first one alone
  is on the wire, with the nonce in memory; an operation under way has a request, of
  the kind of the operation; and the code behind an answer runs before the next one
  is taken.
- `NoncesOK`: after e expiries a request is challenged at most e + 1 times, and the
  last of these challenges brings a good nonce. Since `doFetch` repeats a request
  twice, more than one expiry may turn a request away that should have passed.
- `CalmTokensOK`: the token in memory is one of the session whose cookie the browser
  holds (`Matches`). Requests may carry a token of the session before
  (`Foreign`) only while a login is being completed, and then they are ahead of the
  login's own check at the gate, so they are answered before it (`ForeignOK`). This
  is also why a logout is final.
- `CalmUserOK`: a request that needs the session is turned away only for a foreign
  token or a cookie that cannot be used (`RejectedOK`); with that, the user on
  screen is the cookie's (`OwnerOK`), and somebody is on screen when loading has
  ended (`PresentOK`).

Logins, logouts and returns from Google replace the cookie by a good one or none; a
reload that interrupts the refresh counts as a failure, and section 7 says what
follows from it.

Only model-checked: every liveness property (fairness and ENABLED are outside the
prover's reach): `EveryEventSettles`, `CalmEventuallyConverges`,
`EveryEventIsDistributed`, `ConnectionsAreReleased`, `SocketComesBack` and
`LoadingEnds`. Every invariant and every action property that a run checks is proved.

## 7. Where code and documentation disagree

`pipeline_deletion`: backoff lets `deleted_message` overtake `new_message`, and the
projection keeps the deleted message (`outbox.go:101`), against `chat.go:241`.

Met while modelling; no run is spent on it. Where a property has an exception below,
its statement names it.

Messages:

- An event whose publish failed 20 times is never polled again
  (`outboxRepo.go:53`), against README.md:166; `EveryEventSettles` names that end.
- The consumer is not durable, so events published while the query service is away
  for long are never handled (`query/main.go:178`), against README.md:168.
- A message can be written to a room popped after the guard read it
  (`chat.go:47`), against README.md:173: `CommitTx` after `PopRoom`.
- A ping from a browser that was just evicted is answered on a closed channel and
  kills the process (`hub.go:132` and 81). `OnlyEvictedPongPanics` says that this
  is the only panic.
- The list fetched after a message was sent may be read before the projection has
  the message, and then removes it from the screen (`use-messages.ts:237`), against
  the comment at 235.
- The resync page is oldest first and goes in front of a list that is newest
  first (`use-messages.ts:161`), after which the cursor is that of the oldest
  missed message and not of the newest one (comment at 182).
- Sending a message cancels the list query, and success reads the list again (comment
  at `use-messages.ts:235`). When the room was left in between, the next visit should
  do that; but a resync that is answered meanwhile writes the list (line 153) and so
  takes the invalidation back, and the messages of the cancelled query stay missing.
- The resync, too, may read a projection behind the hub, and then brings a message
  back whose deletion the socket has already delivered (line 149).
- `jetstream.go:121` sets the consumer's `Name` where `command/main.go:291` speaks of
  a durable consumer.

Tokens and sessions:

- `RevokeUserSessions` misses lineages whose first listed token has expired
  (`refreshTokenService.go:453`), against the comment at 538.
- A dependency error may follow a rotation that took place, when the reply of the
  script is lost (`refreshTokenService.go:259`), against the comment at 153.
- `CountSessions` counts expired lineages as well (`refreshTokenService.go:552`),
  because `refresh:sessions` has no TTL.
- A session check that was asked for before a logout and waits behind it for the
  gate goes out with the old access token and puts the user on screen and in
  localStorage again. `LogoutSticks` is about token and cookie, which stay gone.
- A login whose `whoami` fails leaves the user of before on screen with the new
  token; the properties of `AuthSession` are about runs without failures.
- A request is repeated twice at most, so a challenge and two nonces that expire on
  the way turn it away, and the person with it (`api-client.ts`, `doFetch`):
  `ShownUserOwnsToken` and `UserStaysSignedIn` allow one expiry. README.md:105 speaks
  of one retry at most on a challenge; the code makes up to two.
- A reload, or a lost answer, in the middle of a refresh leaves the browser with
  the cookie it has already presented; the next refresh is a reuse and ends the
  session everywhere.
- A refresh that meets a 5xx ends as a 401 of the request that waited for it.
- Two callers that find no DPoP key each make one, and the one stored first is
  overwritten; a token bound to it is refused. `UserStaysSignedIn` is about cookies
  bound to the key in use.

Rooms:

- Only the pages keep managers from demoting or removing the owner; a page whose
  room query failed shows no owner and offers both (`settings/page.tsx:318`).
- A removal, a change of role or a joining whose statement began before the room was
  popped or deleted may COMMIT after it, and so changes a room that is read-only
  according to README.md:173: the EXISTS of `roomMemberRepo.go:71-148` takes no lock on
  the room, and the COMMIT is a round trip of its own (`unit_of_work.go:60`).
  `OnlyLateCommitsChangeClosedRoom` says that nothing else does, and of each of them
  that it changes one row, once. The checks alone would allow more: a statement may
  start long after its check, and then its WHERE clause refuses.
- A kicked member keeps a row and cannot join again. `max_members` is stored and
  never enforced. A description cannot be cleared: an empty field is not sent, and
  the page still says that the settings were updated.
- A single-use link is read, used and then deleted, so two people can join with it
  (`invite-link-dialog.tsx:120` says "one person").
- After a kick the role query answers 404 and the page keeps the old role.

Administration:

- Two administrators can demote or disable each other between `CountAdmins` and the
  UPDATE, against "protect the last one" (`userService.go:316`).
- A change is committed before its audit record, whose failure is not reported; a
  role change or a restore whose read-back fails is not recorded at all.
- Creating an account with a role is two statements: when the second fails there is
  an ordinary account and an error answer.
- A demoted or disabled administrator goes on acting until the token expires.
- Signing in with Google re-enables a disabled account.
- The message list is read from the projection right after the deletion was
  requested and may still show the message; overview and audit pages are not
  invalidated at all. `AdminListsConverge` is about the other lists.

## 8. What is not covered

- Components with status `not_modelled` in `PROJECT.json`, each with its reason. The
  ones with behaviour of their own are signing keys, the gateway's breaker and
  limiter, the message cache and the repair tools of chat-query.
- Signatures, password hashing, and what a DPoP proof says beyond nonce and key.
- SQL isolation below whole transactions, except that statements on members of a room
  read it before they COMMIT (`Rooms`); a database that fails in the middle of a
  request to the room service; JetStream's internals, Redis failover.
- The browser's list beyond its first page, the limit of a resync page (200).
- The retries and garbage collection of the query library; searching and paging
  on the admin pages, which only make more keys of the same kind.
- More than one room, link or tab at once in `RoomPages`; rooms are independent in
  the service and in the cache.
- Operations on rooms by site administrators, which skip the check of `popped_at`,
  except as removals in `Admins`.
- `DELETE /user/:id`, which has no last-administrator rule and which no page uses.
- Redis errors while a WebSocket ticket is issued or consumed: they change nothing.
