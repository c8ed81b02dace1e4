------------------------------- MODULE WsHub -------------------------------
(***************************************************************************)
(* The WebSocket side of chat-command: single-use tickets                  *)
(* (chat/command/handler/websocket.go), the hub with its goroutine, and    *)
(* the read and write pump of each connection (chat/command/ws/hub.go).    *)
(*                                                                         *)
(* The goroutines meet on channels: three that the hub selects on, and     *)
(* one per connection, "send", which the hub fills and closes, the read    *)
(* pump fills with pongs and the write pump empties. Sending on a closed   *)
(* channel or closing it again is a panic of the whole process.            *)
(***************************************************************************)
EXTENDS Naturals, Sequences, SequencesExt

CONSTANTS
    Conn,           \* WebSocket connections
    Ticket,         \* ticket ids (UUIDv7: never used twice)
    Room,
    None,
    SendCap,        \* capacity of Client.send (256)
    BroadcastCap,   \* capacity of Hub.broadcast (256)
    MaxEvents,      \* bound: events the JetStream consumer hands over
    MaxPings        \* bound: pings the browsers send

ASSUME HubConstants ==
    /\ SendCap \in Nat \ {0} /\ BroadcastCap \in Nat \ {0}
    /\ MaxEvents \in Nat /\ MaxPings \in Nat
    /\ None \notin Conn \cup Ticket \cup Room \cup (0..MaxEvents)

VARIABLES
    ticket,      \* ws:ticket:{id} in Redis: the room it is bound to, or None
    issued,      \* tickets issued so far
    client,      \* the room of each connection, and the ticket it came with
    link,        \* its TCP connection: "none", "open" or "broken"
    send,        \* Client.send
    closed,      \* connections whose send channel is closed
    reader,      \* readPump
    writer,      \* writePump
    rooms,       \* Hub.rooms; a nil map and an empty one behave alike
    queue,       \* Hub.broadcast
    fanout,      \* the event the hub distributes, and to whom still
    panic,       \* why the process died, or "no"
    fanned,      \* history: per room, the events taken for distribution
    since,       \* history: Len(fanned) when a connection was registered
    got,         \* history: events a connection's peer was sent
    events, pings

ticketVars == <<ticket, issued>>
pumpVars   == <<link, send, closed, reader, writer, got>>
hubVars    == <<ticketVars, client, pumpVars, rooms, queue, fanout, panic, fanned,
                since, events, pings>>

----------------------------------------------------------------------------

Pong    == 0
Event   == 1..MaxEvents
Frame   == Event \cup {Pong}

NoClient == [room |-> None, ticket |-> None]
NoFanout == [event |-> None, room |-> None, todo |-> {}]
NoWriter == [pc |-> "none", frame |-> None]
Ready    == [pc |-> "ready", frame |-> None]

Running == panic = "no"

HasRoom(k) == Len(send[k]) < SendCap

Close(k) == closed' = closed \cup {k}

----------------------------------------------------------------------------
(* Tickets *)

\* POST /ws-ticket, with a new id: ids are only compared, so any unused one does.
IssueWsTicket(r) ==
  LET t == CHOOSE t \in Ticket \ issued : TRUE IN
    /\ Running
    /\ Ticket \ issued # {}
    /\ issued' = issued \cup {t}
    /\ ticket' = [ticket EXCEPT ![t] = r]
    /\ UNCHANGED <<client, pumpVars, rooms, queue, fanout, panic, fanned, since,
                   events, pings>>

\* wsTicketTTL has passed.
TicketExpires(t) ==
    /\ Running
    /\ ticket[t] # None
    /\ ticket' = [ticket EXCEPT ![t] = None]
    /\ UNCHANGED <<issued, client, pumpVars, rooms, queue, fanout, panic, fanned,
                   since, events, pings>>

\* Mutant of ConsumeWsTicket: the script reads the ticket without deleting it.
ConsumeWsTicket_Get(t) == UNCHANGED ticket

\* consumeWsTicketScript: GET and DEL in one step.
ConsumeWsTicket(t) == ticket' = [ticket EXCEPT ![t] = None]

\* GET /ws?ticket=t for room r. The ticket is gone even when it turns out to be
\* for another room. After the upgrade HandleConnection waits until the hub
\* takes the client from the unbuffered register channel, and only then starts
\* the pumps.
ServeWS(t, r) ==
  LET unused == {k \in Conn : client[k] = NoClient}
      k      == CHOOSE k \in unused : TRUE IN
    /\ Running
    /\ unused # {}
    /\ ticket[t] # None
    /\ ConsumeWsTicket(t)
    /\ IF ticket[t] = r
       THEN /\ client' = [client EXCEPT ![k] = [room |-> r, ticket |-> t]]
            /\ link' = [link EXCEPT ![k] = "open"]
       ELSE UNCHANGED <<client, link>>
    /\ UNCHANGED <<issued, send, closed, reader, writer, got, rooms, queue, fanout,
                   panic, fanned, since, events, pings>>

----------------------------------------------------------------------------
(* The hub's goroutine: one select, three cases *)

Selecting == Running /\ fanout = NoFanout

HubRegister(k) ==
    /\ Selecting
    /\ client[k] # NoClient /\ reader[k] = "none"
    /\ rooms' = [rooms EXCEPT ![client[k].room] = @ \cup {k}]
    /\ since' = [since EXCEPT ![k] = Len(fanned[client[k].room])]
    /\ reader' = [reader EXCEPT ![k] = "reading"]
    /\ writer' = [writer EXCEPT ![k] = Ready]
    /\ UNCHANGED <<ticketVars, client, link, send, closed, got, queue, fanout, panic,
                   fanned, events, pings>>

\* Mutants of Unregister: the channel stays open; or the hub does not look whether the client is registered.
Unregister_KeepsChannel(k) ==
    /\ rooms' = [rooms EXCEPT ![client[k].room] = @ \ {k}]
    /\ UNCHANGED <<closed, panic>>

Unregister_Always(k) ==
    /\ rooms' = [rooms EXCEPT ![client[k].room] = @ \ {k}]
    /\ Close(k)
    /\ panic' = IF k \in closed THEN "close of a closed channel" ELSE panic

\* Only a registered client is removed and its channel closed: one that was
\* evicted is neither.
Unregister(k) ==
    LET r == client[k].room
    IN IF k \in rooms[r]
       THEN /\ rooms' = [rooms EXCEPT ![r] = @ \ {k}]
            /\ Close(k)
            /\ panic' = IF k \in closed THEN "close of a closed channel" ELSE panic
       ELSE UNCHANGED <<rooms, closed, panic>>

\* The deferred "unregister <- c" of readPump, received by the hub.
HubUnregister(k) ==
    /\ Selecting
    /\ reader[k] = "leaving"
    /\ Unregister(k)
    /\ reader' = [reader EXCEPT ![k] = "closing"]
    /\ UNCHANGED <<ticketVars, client, link, send, writer, got, queue, fanout, fanned,
                   since, events, pings>>

\* The hub takes an event and ranges over the clients of its room.
HubTake ==
    /\ Selecting
    /\ queue # <<>>
    /\ LET m == Head(queue)
       IN /\ fanned' = [fanned EXCEPT ![m.room] = Append(@, m.event)]
          /\ fanout' = IF rooms[m.room] = {} THEN NoFanout
                       ELSE [m EXCEPT !.todo = rooms[m.room]]
    /\ queue' = Tail(queue)
    /\ UNCHANGED <<ticketVars, client, pumpVars, rooms, panic, since, events, pings>>

\* Mutants of HubSend: the default case skips a slow client; there is none.
HubSend_Skip(k) ==
    /\ \/ /\ HasRoom(k)
          /\ send' = [send EXCEPT ![k] = Append(@, fanout.event)]
       \/ /\ ~HasRoom(k)
          /\ UNCHANGED send
    /\ UNCHANGED <<rooms, closed, panic>>

HubSend_Blocks(k) ==
    /\ HasRoom(k)
    /\ send' = [send EXCEPT ![k] = Append(@, fanout.event)]
    /\ UNCHANGED <<rooms, closed, panic>>

\* "select { case client.send <- msg: default: evict }"
HubSend(k) ==
    \/ /\ k \in closed
       /\ panic' = "send on a closed channel"
       /\ UNCHANGED <<send, rooms, closed>>
    \/ /\ k \notin closed /\ HasRoom(k)
       /\ send' = [send EXCEPT ![k] = Append(@, fanout.event)]
       /\ UNCHANGED <<rooms, closed, panic>>
    \/ /\ k \notin closed /\ ~HasRoom(k)
       /\ rooms' = [rooms EXCEPT ![client[k].room] = @ \ {k}]
       /\ Close(k)
       /\ UNCHANGED <<send, panic>>

\* One turn of the range, in the order of the map: any.
HubDistribute(k) ==
    /\ Running
    /\ k \in fanout.todo
    /\ HubSend(k)
    /\ fanout' = IF fanout.todo = {k} THEN NoFanout
                 ELSE [fanout EXCEPT !.todo = @ \ {k}]
    /\ UNCHANGED <<ticketVars, client, link, reader, writer, got, queue, fanned, since,
                   events, pings>>

\* The consumer's callback: Hub.Broadcast, which waits while the channel is full.
Broadcast(r) ==
    /\ Running
    /\ events < MaxEvents
    /\ Len(queue) < BroadcastCap
    /\ events' = events + 1
    /\ queue' = Append(queue, [event |-> events + 1, room |-> r, todo |-> {}])
    /\ UNCHANGED <<ticketVars, client, pumpVars, rooms, fanout, panic, fanned, since,
                   pings>>

----------------------------------------------------------------------------
(* readPump *)

ReaderUnchanged == UNCHANGED <<ticketVars, client, rooms, queue, fanout, fanned,
                               since, events, writer, got>>

\* The browser's ping is answered with a pong, or with nothing when the channel
\* is full. The select has a default case, which does not help against a channel
\* that the hub has closed.
ReadPing(k) ==
    /\ Running
    /\ reader[k] = "reading" /\ link[k] = "open"
    /\ pings < MaxPings
    /\ pings' = pings + 1
    /\ panic' = IF k \in closed THEN "pong on a closed channel" ELSE panic
    /\ send' = IF k \notin closed /\ HasRoom(k)
               THEN [send EXCEPT ![k] = Append(@, Pong)] ELSE send
    /\ UNCHANGED <<link, closed, reader>> /\ ReaderUnchanged

\* ReadMessage fails: the connection is broken, or its read deadline has passed.
ReadFails(k) ==
    /\ Running
    /\ reader[k] = "reading"
    /\ reader' = [reader EXCEPT ![k] = "leaving"]
    /\ UNCHANGED <<link, send, closed, panic, pings>> /\ ReaderUnchanged

ReaderCloses(k) ==
    /\ Running
    /\ reader[k] = "closing"
    /\ reader' = [reader EXCEPT ![k] = "done"]
    /\ link' = [link EXCEPT ![k] = "broken"]
    /\ UNCHANGED <<send, closed, panic, pings>> /\ ReaderUnchanged

----------------------------------------------------------------------------
(* writePump *)

WriterUnchanged == UNCHANGED <<ticketVars, client, closed, reader, rooms, queue, fanout,
                               panic, fanned, since, events, pings>>

WriterTake(k) ==
    /\ Running
    /\ writer[k].pc = "ready" /\ send[k] # <<>>
    /\ writer' = [writer EXCEPT ![k] = [pc |-> "writing", frame |-> Head(send[k])]]
    /\ send' = [send EXCEPT ![k] = Tail(@)]
    /\ UNCHANGED <<link, got>> /\ WriterUnchanged

WriterWrites(k) ==
    /\ Running
    /\ writer[k].pc = "writing" /\ link[k] = "open"
    /\ got' = IF writer[k].frame = Pong THEN got
              ELSE [got EXCEPT ![k] = Append(@, writer[k].frame)]
    /\ writer' = [writer EXCEPT ![k] = Ready]
    /\ UNCHANGED <<link, send>> /\ WriterUnchanged

\* Mutant of WriterEnds: the deferred conn.Close is missing.
WriterEnds_NoClose(k) ==
    /\ writer' = [writer EXCEPT ![k].pc = "done"]
    /\ UNCHANGED link

\* The deferred conn.Close of writePump.
WriterEnds(k) ==
    /\ writer' = [writer EXCEPT ![k].pc = "done"]
    /\ link' = [link EXCEPT ![k] = "broken"]

\* A write fails: on a broken connection, or after its deadline of 10 s.
WriteFails(k) ==
    /\ Running
    /\ writer[k].pc = "writing"
    /\ WriterEnds(k)
    /\ UNCHANGED <<send, got>> /\ WriterUnchanged

\* The ticker's ping on a broken connection. A ping that succeeds changes nothing.
PingFails(k) ==
    /\ Running
    /\ writer[k].pc = "ready" /\ link[k] = "broken"
    /\ WriterEnds(k)
    /\ UNCHANGED <<send, got>> /\ WriterUnchanged

\* The channel is closed and empty: the write pump sends a close frame and ends.
WriterSeesClose(k) ==
    /\ Running
    /\ writer[k].pc = "ready" /\ send[k] = <<>> /\ k \in closed
    /\ WriterEnds(k)
    /\ UNCHANGED <<send, got>> /\ WriterUnchanged

\* The browser closes the connection, or the network does.
PeerBreaks(k) ==
    /\ Running
    /\ link[k] = "open"
    /\ link' = [link EXCEPT ![k] = "broken"]
    /\ UNCHANGED <<send, writer, got>> /\ WriterUnchanged

----------------------------------------------------------------------------

HubInit ==
    /\ ticket = [t \in Ticket |-> None] /\ issued = {}
    /\ client = [k \in Conn |-> NoClient]
    /\ link = [k \in Conn |-> "none"]
    /\ send = [k \in Conn |-> <<>>] /\ closed = {}
    /\ reader = [k \in Conn |-> "none"] /\ writer = [k \in Conn |-> NoWriter]
    /\ rooms = [r \in Room |-> {}]
    /\ queue = <<>> /\ fanout = NoFanout
    /\ panic = "no"
    /\ fanned = [r \in Room |-> <<>>] /\ since = [k \in Conn |-> 0]
    /\ got = [k \in Conn |-> <<>>]
    /\ events = 0 /\ pings = 0

Hub == HubTake \/ \E k \in Conn : HubRegister(k) \/ HubUnregister(k) \/ HubDistribute(k)

ReadPump(k)  == ReadPing(k) \/ ReadFails(k) \/ ReaderCloses(k)
WritePump(k) == \/ WriterTake(k) \/ WriterWrites(k) \/ WriteFails(k)
                \/ PingFails(k) \/ WriterSeesClose(k)

HubNext ==
    \/ \E r \in Room : \/ IssueWsTicket(r) \/ Broadcast(r)
                       \/ \E t \in Ticket : ServeWS(t, r)
    \/ \E t \in Ticket : TicketExpires(t)
    \/ Hub
    \/ \E k \in Conn : ReadPump(k) \/ WritePump(k) \/ PeerBreaks(k)

HubSpec == HubInit /\ [][HubNext]_hubVars

\* The scheduler runs the goroutines, a broken connection fails its read, and
\* a write ends by its deadline. Nothing makes a browser, an event or a ping come.
HubFairness ==
    /\ WF_hubVars(Hub)
    /\ \A k \in Conn :
          /\ WF_hubVars(HubRegister(k) \/ HubUnregister(k))
          /\ WF_hubVars(ReaderCloses(k) \/ (link[k] = "broken" /\ ReadFails(k)))
          /\ WF_hubVars(WritePump(k))

FairHubSpec == HubSpec /\ HubFairness

----------------------------------------------------------------------------
(* Properties *)

\* Every variable has its type, no channel holds more than its capacity, and a
\* client is registered exactly as long as its channel is open.
HubTypeOK ==
    /\ ticket \in [Ticket -> Room \cup {None}] /\ issued \subseteq Ticket
    /\ client \in [Conn -> [room : Room \cup {None}, ticket : Ticket \cup {None}]]
    /\ link \in [Conn -> {"none", "open", "broken"}]
    /\ \A k \in Conn : Len(send[k]) <= SendCap /\ Range(send[k]) \subseteq Frame
    /\ closed \subseteq Conn
    /\ reader \in [Conn -> {"none", "reading", "leaving", "closing", "done"}]
    /\ writer \in [Conn -> [pc : {"none", "ready", "writing", "done"},
                            frame : Frame \cup {None}]]
    /\ rooms \in [Room -> SUBSET Conn]
    /\ Len(queue) <= BroadcastCap
    /\ fanout.todo \subseteq Conn
    /\ panic \in {"no", "pong on a closed channel", "send on a closed channel",
                 "close of a closed channel"}
    /\ since \in [Conn -> 0..MaxEvents]
    /\ events \in 0..MaxEvents /\ pings \in 0..MaxPings
    /\ \A k \in Conn : reader[k] # "none" =>
          (k \in rooms[client[k].room] <=> k \notin closed)

\* A ticket opens at most one connection (websocket.go: "consumed atomically at
\* the WebSocket upgrade so it cannot be replayed").
TicketOpensOneConnection ==
    \A k, l \in Conn :
        client[k].ticket = client[l].ticket => k = l \/ client[k] = NoClient

\* The events the hub has taken for the room of k since it registered k.
Distributed(k) ==
    LET s == fanned[client[k].room] IN {s[i] : i \in since[k] + 1 .. Len(s)}

\* What k has been given, oldest first: sent to its browser, in the hands of its
\* write pump, in its channel. There may be pongs in between.
Given(k) == got[k] \o <<writer[k].frame>> \o send[k]

GivenEvents(k) == (Range(got[k]) \cup {writer[k].frame} \cup Range(send[k])) \cap Event

InOrder(s) ==
    \A i, j \in DOMAIN s : i < j /\ s[i] \in Event /\ s[j] \in Event => s[i] < s[j]

\* A browser never misses an event in the middle: a registered connection is
\* given every event of its room once and in order, the one being distributed
\* excepted, and one that is too slow is cut off, so that it has all of them up to
\* a point and none after it.
NoGapWithinConnection ==
    \A k \in Conn : reader[k] # "none" =>
        /\ InOrder(Given(k))
        /\ k \notin closed =>
              GivenEvents(k) = Distributed(k) \ {e \in {fanout.event} : k \in fanout.todo}
        /\ k \in closed =>
              /\ GivenEvents(k) \subseteq Distributed(k)
              /\ \A e \in Distributed(k), g \in GivenEvents(k) : e < g => e \in GivenEvents(k)

\* The hub itself never sends on a closed channel and never closes one twice,
\* whatever order evictions, disconnects and events come in. The one way the
\* process dies is a ping read from a browser that was evicted and whose
\* connection is not closed yet.
OnlyEvictedPongPanics ==
    \/ Running
    \/ /\ panic = "pong on a closed channel"
       /\ \E k \in closed : reader[k] = "reading" /\ link[k] = "open"

\* Distribution never stops: no browser, however slow or broken, holds up the
\* hub, so every event that Broadcast accepted is dealt with.
EveryEventIsDistributed ==
    \A e \in Event :
        events >= e ~> \/ ~Running
                       \/ /\ \A i \in DOMAIN queue : queue[i].event # e
                          /\ fanout.event # e

\* No goroutine and no connection leaks: once a connection is broken or evicted
\* both pumps end and the connection is closed.
ConnectionsAreReleased ==
    \A k \in Conn :
        link[k] = "broken" \/ k \in closed
            ~> ~Running \/ (/\ reader[k] = "done" /\ writer[k].pc = "done"
                           /\ link[k] = "broken")
=============================================================================
