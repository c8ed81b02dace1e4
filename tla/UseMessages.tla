---------------------------- MODULE UseMessages ----------------------------
(***************************************************************************)
(* The message list of a room in the browser: the hook useMessages         *)
(* (frontend/src/features/chat/hooks/use-messages.ts) on top of WsClient   *)
(* (frontend/src/services/websocket-client.ts). Every visit to the room    *)
(* makes a client of its own; the one before it may still have a ticket    *)
(* request or a closing socket when the next one starts. The list itself   *)
(* outlives the page in the query library's cache.                         *)
(*                                                                         *)
(* Three sources write the list: the list query, which replaces it; events *)
(* from the socket, which edit it; and the resync after a (re)connect,     *)
(* which adds to it. The server behind them is kept simple on purpose:     *)
(* events reach the hub and the projection in the order of commit, each at *)
(* its own pace (ChatPipeline and WsHub model what can go wrong there).    *)
(***************************************************************************)
EXTENDS Naturals, Sequences, SequencesExt, FiniteSets, FiniteSetsExt

CONSTANTS
    Others,        \* messages of other users
    Own,           \* messages this user sends
    None,
    MaxAttempts,   \* maxReconnectAttempts (10)
    MaxCommits,    \* bound: events a run commits
    MaxLeaves,     \* bound: how often the room is left
    Skew,          \* how far ahead the browser's clock is, in commits
    Faults, MaxFaults   \* kinds of failure, and how many a run may meet

\* None is neither a message nor a list of messages.
ASSUME MessagesConstants ==
    /\ MaxAttempts \in Nat /\ MaxCommits \in Nat /\ MaxFaults \in Nat
    /\ MaxLeaves \in Nat /\ Skew \in Nat
    /\ Others \cap Own = {} /\ None \notin Others \cup Own
    /\ None \notin Seq([id : Others \cup Own, edited : BOOLEAN, at : Nat])

VARIABLES
    source,      \* the room's events in commit order
    sent,        \* how many of them the hub has distributed
    projected,   \* how many of them the projection shows
    visit,       \* the visit under way or the last one, and its WsClient
    left,        \* WsClient.intentionalClose: the visits that have ended
    ws,          \* WsClient.ws: "none", "connecting", "open" or "closing"
    inFlight,    \* WsClient.connectInFlight
    asking,      \* the request for a ticket is under way
    attempt,     \* WsClient.reconnectAttempt
    timer,       \* WsClient.reconnectTimeout is set
    hub,         \* the server's end: "none", "upgraded", "registered", "gone"
    wire,        \* events on their way to the page that is open
    list,        \* the first page of the query's data, None while undefined
    cursor,      \* lastMessageCursorRef
    invalid,     \* isInvalidated: the list is to be read again
    fetch,       \* the list query under way
    resyncs,     \* the resync requests under way, at most one per connection
    mutation,    \* createMsg
    used,        \* own ids used so far: crypto.randomUUID() never repeats one
    calm,        \* history: nothing overlapped or failed (see CalmListConverges)
    faults

serverVars == <<source, sent, projected>>
visitVars  == <<visit, left>>
clientVars == <<ws, inFlight, asking, attempt, timer>>
socketVars == <<clientVars, hub, wire>>
listVars   == <<list, cursor, invalid>>
queryVars  == <<listVars, fetch, resyncs, mutation, used>>
pageVars   == <<serverVars, visitVars, socketVars, queryVars, calm, faults>>

Msg    == Others \cup Own
Client == 1 .. MaxLeaves + 1

\* The page is there, and visit is its client.
Open == visit \notin left

NoFetch    == [pc |-> "none", page |-> <<>>]
NoMutation == [pc |-> "none", id |-> None, previous |-> None]

Fault(kind) == kind \in Faults /\ faults < MaxFaults /\ faults' = faults + 1

----------------------------------------------------------------------------
(* The server *)

Entry(id, edited, at) == [id |-> id, edited |-> edited, at |-> at]

\* created_at of the i-th event on the clock of the server; the odd instants in
\* between are left to the browser's clock.
At(i) == 2 * i

Committed(type, id) == \E i \in DOMAIN source : source[i] = [type |-> type, id |-> id]

\* The messages that the first p events leave.
Live(p) ==
    LET Has(type, id) == \E i \in 1..p : source[i] = [type |-> type, id |-> id]
    IN {Entry(source[i].id, Has("updated", source[i].id), At(i)) :
           i \in {i \in 1..p : /\ source[i].type = "new"
                               /\ ~Has("deleted", source[i].id)}}

\* The elements of S in the order of their keys, and those of list l at the places
\* in I. (The proof system has no definition of SortSeq and SelectSeq to expand.)
Rank(S, key, x) == Cardinality({y \in S : key[y] < key[x]})

Ascending(S, key) ==
    [k \in 1..Cardinality(S) |-> CHOOSE x \in S : Rank(S, key, x) = k - 1]

Kept(l, I) ==
    LET place == Ascending(I, [i \in I |-> i]) IN [k \in DOMAIN place |-> l[place[k]]]

OldestFirst(S) == Ascending(S, [e \in S |-> e.at])
NewestFirst(S) == Reverse(OldestFirst(S))

\* Another user, or another tab of this one, creates, edits or deletes.
Commit(type, id) ==
    /\ Len(source) < MaxCommits
    /\ ~Committed(type, id) /\ ~Committed("deleted", id)
    /\ type = "new" <=> ~Committed("new", id)
    /\ type = "new" => id \in Others
    /\ source' = Append(source, [type |-> type, id |-> id])
    /\ UNCHANGED <<sent, projected, visitVars, socketVars, queryVars, calm, faults>>

\* The hub distributes the next event to whoever is registered. Missing it is
\* harmless only while the list has still to be read.
Distribute ==
    /\ sent < Len(source)
    /\ sent' = sent + 1
    /\ wire' = IF hub = "registered" THEN Append(wire, source[sent + 1]) ELSE wire
    /\ calm' = (calm /\ (hub = "registered" \/ fetch.pc = "asked"))
    /\ UNCHANGED <<source, projected, visitVars, clientVars, hub, queryVars, faults>>

Project ==
    /\ projected < Len(source)
    /\ projected' = projected + 1
    /\ UNCHANGED <<source, sent, visitVars, socketVars, queryVars, calm, faults>>

----------------------------------------------------------------------------
(* WsClient: one per visit *)

\* connect, then openSocket up to its await.
ReconnectTimer(c) ==
    /\ timer[c]
    /\ timer' = [timer EXCEPT ![c] = FALSE]
    /\ IF inFlight[c] \/ ws[c] \in {"connecting", "open"} THEN UNCHANGED <<inFlight, asking, left>>
       ELSE /\ left' = left \ {c}
            /\ inFlight' = [inFlight EXCEPT ![c] = TRUE]
            /\ asking' = [asking EXCEPT ![c] = TRUE]
    /\ UNCHANGED <<serverVars, visit, ws, attempt, hub, wire, queryVars, calm, faults>>

ScheduleReconnect(c) ==
    IF c \in left \/ attempt[c] >= MaxAttempts THEN UNCHANGED <<attempt, timer>>
    ELSE /\ attempt' = [attempt EXCEPT ![c] = @ + 1]
         /\ timer' = [timer EXCEPT ![c] = TRUE]

\* Mutant of TicketArrives: intentionalClose is not looked at after the await.
TicketArrives_Anyway(c) ==
    /\ asking[c] /\ asking' = [asking EXCEPT ![c] = FALSE]
    /\ inFlight' = [inFlight EXCEPT ![c] = FALSE]
    /\ ws' = [ws EXCEPT ![c] = "connecting"]
    /\ UNCHANGED <<serverVars, visitVars, attempt, timer, hub, wire, queryVars, calm, faults>>

\* The room may have been left while the ticket was on its way.
TicketArrives(c) ==
    /\ asking[c] /\ asking' = [asking EXCEPT ![c] = FALSE]
    /\ inFlight' = [inFlight EXCEPT ![c] = FALSE]
    /\ ws' = IF c \in left THEN ws ELSE [ws EXCEPT ![c] = "connecting"]
    /\ UNCHANGED <<serverVars, visitVars, attempt, timer, hub, wire, queryVars, calm, faults>>

\* Mutant of TicketFails: connectInFlight is not reset.
TicketFails_StaysInFlight(c) ==
    /\ asking[c] /\ asking' = [asking EXCEPT ![c] = FALSE]
    /\ Fault("ticket")
    /\ ScheduleReconnect(c)
    /\ calm' = FALSE
    /\ UNCHANGED <<serverVars, visitVars, ws, inFlight, hub, wire, queryVars>>

\* No ticket in the answer, or the request throws.
TicketFails(c) ==
    /\ asking[c] /\ asking' = [asking EXCEPT ![c] = FALSE]
    /\ Fault("ticket")
    /\ inFlight' = [inFlight EXCEPT ![c] = FALSE]
    /\ ScheduleReconnect(c)
    /\ calm' = FALSE
    /\ UNCHANGED <<serverVars, visitVars, ws, hub, wire, queryVars>>

\* The server answers the handshake, and registers the connection afterwards.
Upgrade ==
    /\ ws[visit] = "connecting" /\ hub = "none"
    /\ hub' = "upgraded"
    /\ UNCHANGED <<serverVars, visitVars, clientVars, wire, queryVars, calm, faults>>

Register ==
    /\ hub = "upgraded"
    /\ hub' = "registered"
    /\ UNCHANGED <<serverVars, visitVars, clientVars, wire, queryVars, calm, faults>>

\* The connection is lost: refused, evicted by the hub, or broken; what was on
\* the wire may be lost with it.
ConnectionLost ==
    /\ ws[visit] \in {"connecting", "open"} /\ hub # "gone"
    /\ Fault("connection")
    /\ hub' = "gone"
    /\ wire' \in {wire, <<>>}
    /\ calm' = FALSE
    /\ UNCHANGED <<serverVars, visitVars, clientVars, queryVars>>

\* onclose, of the socket that was lost or of one that disconnect has closed.
OnClose(c) ==
    /\ ws' = [ws EXCEPT ![c] = "none"]
    /\ \/ /\ ws[c] = "closing"
          /\ UNCHANGED <<hub, wire>>
       \/ /\ c = visit /\ ws[c] \in {"connecting", "open"} /\ hub = "gone"
          /\ hub' = "none" /\ wire' = <<>>
    /\ ScheduleReconnect(c)
    /\ UNCHANGED <<serverVars, visitVars, inFlight, asking, queryVars, calm, faults>>

----------------------------------------------------------------------------
(* useMessages: every change of the list also moves lastMessageCursorRef to *)
(* the first message of the list, if there is one (lines 189-197), and     *)
(* whatever is written to the list counts as read from the server.         *)

SetList(l) ==
    /\ list' = l
    /\ cursor' = IF l \in {None, <<>>} THEN cursor ELSE l[1].at
    /\ invalid' = FALSE

Without(l, id) == Kept(l, {i \in DOMAIN l : l[i].id # id})

\* onopen, and onStatusChange("connected"): messages after the last one known
\* are requested, if there is a list with messages.
OnOpen ==
    /\ ws[visit] = "connecting" /\ hub \in {"upgraded", "registered"}
    /\ ws' = [ws EXCEPT ![visit] = "open"]
    /\ attempt' = [attempt EXCEPT ![visit] = 0]
    /\ resyncs' = IF cursor = None \/ list \in {None, <<>>} THEN resyncs
                  ELSE Append(resyncs,
                              [pc |-> "asked", after |-> cursor, page |-> <<>>])
    /\ UNCHANGED <<serverVars, visitVars, inFlight, asking, timer, hub, wire, listVars,
                   fetch, mutation, calm, faults, used>>

\* Mutant of Handled: a new message goes to the end of the list.
Handled_Appends(l, ev, at) ==
    LET m == Entry(ev.id, FALSE, at)
    IN CASE l = None -> IF ev.type = "new" THEN <<m>> ELSE None
         [] l # None /\ ev.type = "new" -> Append(Without(l, ev.id), m)
         [] l # None /\ ev.type = "updated" ->
               [i \in DOMAIN l |->
                   IF l[i].id = ev.id THEN Entry(ev.id, TRUE, at) ELSE l[i]]
         [] l # None /\ ev.type = "deleted" -> Without(l, ev.id)

\* handleWsMessage, as a function of the list and the event.
Handled(l, ev, at) ==
    LET m == Entry(ev.id, FALSE, at)
    IN CASE l = None -> IF ev.type = "new" THEN <<m>> ELSE None
         [] l # None /\ ev.type = "new" -> <<m>> \o Without(l, ev.id)
         [] l # None /\ ev.type = "updated" ->
               [i \in DOMAIN l |->
                   IF l[i].id = ev.id THEN Entry(ev.id, TRUE, at) ELSE l[i]]
         [] l # None /\ ev.type = "deleted" -> Without(l, ev.id)

\* created_at of message id, as its events carry it.
CreatedAt(id) ==
    At(CHOOSE i \in DOMAIN source : source[i] = [type |-> "new", id |-> id])

Busy == fetch.pc # "none" \/ resyncs # <<>> \/ mutation.pc # "none"

OnMessage ==
    /\ ws[visit] = "open" /\ wire # <<>>
    /\ LET ev == Head(wire)
       IN SetList(Handled(list, ev, CreatedAt(ev.id)))
    /\ wire' = Tail(wire)
    /\ calm' = (calm /\ ~Busy)
    /\ UNCHANGED <<serverVars, visitVars, clientVars, hub, fetch, resyncs, mutation,
                   faults, used>>

----------------------------------------------------------------------------
(* Resync: GET messages?after=cursor *)

ResyncRead(i) ==
    /\ resyncs[i].pc = "asked"
    /\ LET missed == {e \in Live(projected) : e.at > resyncs[i].after}
       IN resyncs' = [resyncs EXCEPT ![i].pc = "read", ![i].page = OldestFirst(missed)]
    /\ calm' = (calm /\ projected >= sent)
    /\ UNCHANGED <<serverVars, visitVars, socketVars, listVars, fetch, mutation, faults, used>>

\* Mutant of Missing: the messages already in the list are not left out.
Missing_All(page, l) == page

Missing(page, l) == Kept(page, {i \in DOMAIN page : \A j \in DOMAIN l : l[j].id # page[i].id})

\* The page is put in front of the list as it came, the oldest message first. If that
\* happens after the room was left, a refetch that was due is forgotten.
ResyncApply(i) ==
    /\ resyncs[i].pc = "read"
    /\ IF list = None \/ resyncs[i].page = <<>> THEN UNCHANGED <<listVars, calm>>
       ELSE /\ SetList(Missing(resyncs[i].page, list) \o list)
            /\ calm' = (calm /\ (Open \/ ~invalid))
    /\ resyncs' = RemoveAt(resyncs, i)
    /\ UNCHANGED <<serverVars, visitVars, socketVars, fetch, mutation, faults, used>>

\* The error is only logged.
ResyncFails(i) ==
    /\ Fault("request")
    /\ resyncs' = RemoveAt(resyncs, i)
    /\ calm' = FALSE
    /\ UNCHANGED <<serverVars, visitVars, socketVars, listVars, fetch, mutation, used>>

----------------------------------------------------------------------------
(* The list query: GET messages *)

FetchRead ==
    /\ fetch.pc = "asked"
    /\ fetch' = [pc |-> "read", page |-> NewestFirst(Live(projected))]
    /\ calm' = (calm /\ projected >= sent)
    /\ UNCHANGED <<serverVars, visitVars, socketVars, listVars, resyncs, mutation, faults, used>>

\* The answer replaces the data, whatever was written to it in the meantime.
FetchApply ==
    /\ fetch.pc = "read"
    /\ SetList(fetch.page)
    /\ fetch' = NoFetch
    /\ calm' = (calm /\ resyncs = <<>>)
    /\ UNCHANGED <<serverVars, visitVars, socketVars, resyncs, mutation, faults, used>>

FetchFails ==
    /\ fetch.pc # "none"
    /\ Fault("request")
    /\ fetch' = NoFetch
    /\ calm' = FALSE
    /\ UNCHANGED <<serverVars, visitVars, socketVars, listVars, resyncs, mutation, used>>

----------------------------------------------------------------------------
(* createMsg *)

\* onMutate: the list query is cancelled, the message is shown at once with the
\* time of the browser's clock, and the list before it is kept for onError.
CreateMessage(o) ==
    /\ Open /\ mutation.pc = "none" /\ Len(source) < MaxCommits
    /\ o \notin used /\ used' = used \cup {o}
    /\ LET shown == Entry(o, FALSE, At(Len(source)) + 1 + 2 * Skew)
       IN SetList(IF list = None THEN <<shown>> ELSE <<shown>> \o list)
    /\ fetch' = NoFetch
    /\ mutation' = [pc |-> "posting", id |-> o, previous |-> list]
    /\ UNCHANGED <<serverVars, visitVars, socketVars, resyncs, calm, faults>>

\* The server commits the message.
PostCommits ==
    /\ mutation.pc = "posting" /\ Len(source) < MaxCommits
    /\ source' = Append(source, [type |-> "new", id |-> mutation.id])
    /\ mutation' = [mutation EXCEPT !.pc = "stored"]
    /\ UNCHANGED <<sent, projected, visitVars, socketVars, listVars, fetch, resyncs,
                   calm, faults, used>>

\* onSuccess: invalidateQueries fetches the list again, or has the next visit do so.
\* A request under way is only replaced when there is a list already.
OnSuccess ==
    /\ mutation.pc = "stored"
    /\ mutation' = NoMutation
    /\ invalid' = TRUE
    /\ fetch' = IF Open /\ (list # None \/ fetch.pc = "none")
                THEN [pc |-> "asked", page |-> <<>>] ELSE fetch
    /\ UNCHANGED <<serverVars, visitVars, socketVars, list, cursor, resyncs, calm,
                   faults, used>>

\* onError: refused, or committed and the answer lost. The list kept by onMutate
\* comes back, unless there was none.
OnError ==
    /\ mutation.pc # "none"
    /\ Fault("request")
    /\ IF mutation.previous = None THEN UNCHANGED listVars
       ELSE SetList(mutation.previous)
    /\ mutation' = NoMutation
    /\ calm' = FALSE
    /\ UNCHANGED <<serverVars, visitVars, socketVars, fetch, resyncs, used>>

----------------------------------------------------------------------------
(* Visits *)

\* disconnect. A ticket request under way goes on.
Disconnect ==
    /\ left' = left \cup {visit}
    /\ timer' = [timer EXCEPT ![visit] = FALSE]
    /\ ws' = [ws EXCEPT ![visit] = IF @ = "none" THEN @ ELSE "closing"]

\* The page goes away; requests, the mutation and the cached list stay.
Leave ==
    /\ Open /\ visit <= MaxLeaves
    /\ Disconnect
    /\ hub' = "none" /\ wire' = <<>>
    /\ calm' = (calm /\ wire = <<>>)
    /\ UNCHANGED <<serverVars, visit, inFlight, asking, attempt, queryVars, faults>>

\* gcTime passes without a page that shows the list.
Forget ==
    /\ ~Open /\ fetch.pc = "none" /\ list # None
    /\ list' = None /\ invalid' = FALSE
    /\ UNCHANGED <<serverVars, visitVars, socketVars, cursor, fetch, resyncs, mutation,
                   used, calm, faults>>

\* The page comes back with a client and a cursor of its own. The list is read again
\* when there is none, when it was invalidated, or when staleTime has passed since it
\* was last written; from then on nothing that went wrong before matters, unless
\* another request is still under way.
Enter ==
    /\ ~Open
    /\ visit' = visit + 1
    /\ inFlight' = [inFlight EXCEPT ![visit + 1] = TRUE]
    /\ asking' = [asking EXCEPT ![visit + 1] = TRUE]
    /\ cursor' = IF list \in {None, <<>>} THEN None ELSE list[1].at
    /\ \/ /\ fetch.pc = "none"
          /\ fetch' = [pc |-> "asked", page |-> <<>>]
          /\ calm' = (calm \/ (resyncs = <<>> /\ mutation.pc = "none"))
       \/ /\ fetch.pc # "none" \/ (list # None /\ ~invalid)
          /\ UNCHANGED <<fetch, calm>>
    /\ UNCHANGED <<serverVars, left, ws, attempt, timer, hub, wire, list, invalid, resyncs,
                   mutation, used, faults>>

----------------------------------------------------------------------------

\* The room is opened: the query and connect start together.
MessagesInit ==
    /\ source = <<>> /\ sent = 0 /\ projected = 0
    /\ visit = 1 /\ left = {}
    /\ ws = [c \in Client |-> "none"]
    /\ inFlight = [c \in Client |-> c = 1] /\ asking = [c \in Client |-> c = 1]
    /\ attempt = [c \in Client |-> 0] /\ timer = [c \in Client |-> FALSE]
    /\ hub = "none" /\ wire = <<>>
    /\ list = None /\ cursor = None /\ invalid = FALSE
    /\ fetch = [pc |-> "asked", page |-> <<>>]
    /\ resyncs = <<>> /\ mutation = NoMutation /\ used = {}
    /\ calm = TRUE /\ faults = 0

Server ==
    \/ \E type \in {"new", "updated", "deleted"}, id \in Msg : Commit(type, id)
    \/ Distribute \/ Project

Socket ==
    \/ \E c \in Client : \/ ReconnectTimer(c) \/ TicketArrives(c) \/ TicketFails(c)
                         \/ OnClose(c)
    \/ Upgrade \/ Register \/ ConnectionLost \/ OnOpen

Requests ==
    \/ \E i \in DOMAIN resyncs : ResyncRead(i) \/ ResyncApply(i) \/ ResyncFails(i)
    \/ FetchRead \/ FetchApply \/ FetchFails
    \/ \E o \in Own : CreateMessage(o)
    \/ PostCommits \/ OnSuccess \/ OnError

Visits == Leave \/ Forget \/ Enter

MessagesNext == Server \/ Socket \/ OnMessage \/ Requests \/ Visits

MessagesSpec == MessagesInit /\ [][MessagesNext]_pageVars

\* Timers fire, requests and handshakes end one way or the other, and a broken
\* connection is noticed in the end. Nobody has to leave the room or come back.
MessagesFairness ==
    /\ \A c \in Client :
          /\ WF_pageVars(ReconnectTimer(c))
          /\ WF_pageVars(TicketArrives(c) \/ TicketFails(c))
          /\ WF_pageVars(OnClose(c))
    /\ WF_pageVars(Upgrade \/ Register)
    /\ WF_pageVars(OnOpen)

FairMessagesSpec == MessagesSpec /\ MessagesFairness

----------------------------------------------------------------------------
(* Properties *)

\* A ticket request, the reconnect timer and a live socket of a client exclude each
\* other, and a client whose room was left never comes back to life, so that there is
\* one connection at most, whatever fails when and however often the room is left
\* and opened again while a ticket is on its way.
OneAttempt ==
    \A c \in Client :
        LET live == ws[c] \in {"connecting", "open"}
        IN /\ ~(asking[c] /\ timer[c]) /\ ~(asking[c] /\ live) /\ ~(timer[c] /\ live)
           /\ c # visit => c \in left \/ c > visit
           /\ c \in left \/ c > visit => ~timer[c] /\ ~live

\* No message is shown twice, however the answers of the query and the resync,
\* the socket's events and the optimistic copy of an own message interleave
\* ("deduplicating by id").
ShownOnce ==
    list # None => \A i, j \in DOMAIN list : list[i].id = list[j].id => i = j

Settled ==
    /\ Open /\ ws[visit] = "open" /\ hub = "registered" /\ wire = <<>>
    /\ sent = Len(source) /\ projected = Len(source)
    /\ ~Busy

\* When everything has arrived the list is what the server has, newest first,
\* provided that since the list was last read anew nothing failed, no event or list
\* was taken over while another request was under way, neither list nor resync was
\* read from a projection behind the hub, no event was distributed after that and before the
\* registration with it, and no late answer to a page that was left cancelled the
\* refetch that was due. A visit that reads the list again heals what went wrong
\* before it.
CalmListConverges ==
    calm /\ Settled => list = NewestFirst(Live(Len(source)))

\* While the page is open the socket comes back after every loss, unless the attempts
\* are used up; no flag or timer left over from an earlier attempt or an earlier visit
\* keeps it from trying.
SocketComesBack ==
    \A c \in Client :
        c = visit /\ ws[c] = "none"
            ~> \/ ws[c] = "open" \/ c \in left
               \/ attempt[c] = MaxAttempts /\ ~inFlight[c] /\ ~timer[c]
=============================================================================
