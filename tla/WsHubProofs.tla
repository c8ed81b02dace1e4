---------------------------- MODULE WsHubProofs ----------------------------
(***************************************************************************)
(* Theorems about WsHub, for any number of connections, tickets, rooms and *)
(* events and for channels of any capacity. The invariant says what the    *)
(* goroutines rely on without a lock: a client is in the map of its room   *)
(* exactly as long as its channel is open, and whoever the hub has still   *)
(* to serve in the round under way is registered, because the hub neither  *)
(* registers nor unregisters between two turns of the range. The second    *)
(* half of the module is about the order and completeness of delivery.     *)
(***************************************************************************)
EXTENDS WsHub, TLAPS

TicketsOK ==
    /\ ticket \in [Ticket -> Room \cup {None}] /\ issued \subseteq Ticket
    /\ client \in [Conn -> [room : Room \cup {None}, ticket : Ticket \cup {None}]]
    /\ \A t \in Ticket : ticket[t] # None => t \in issued
    /\ \A k \in Conn : client[k] # NoClient =>
          /\ client[k].room \in Room /\ client[k].ticket \in issued
          /\ ticket[client[k].ticket] = None
    /\ TicketOpensOneConnection

\* A connection that is not registered yet has an open channel and no room; one
\* that was is in its room, and in no other, until its channel is closed.
MembershipOK ==
    /\ closed \subseteq Conn /\ rooms \in [Room -> SUBSET Conn]
    /\ reader \in [Conn -> {"none", "reading", "leaving", "closing", "done"}]
    /\ \A k \in Conn : reader[k] = "none" =>
          k \notin closed /\ \A r \in Room : k \notin rooms[r]
    /\ \A k \in Conn : reader[k] # "none" =>
          client[k] # NoClient /\ (k \in rooms[client[k].room] <=> k \notin closed)
    /\ \A k \in Conn : \A r \in Room : k \in rooms[r] => r = client[k].room

Round == [event : Event, room : Room, todo : SUBSET Conn]

FanoutOK == fanout = NoFanout \/ (fanout \in Round /\ fanout.todo \subseteq rooms[fanout.room])

ChannelsOK ==
    /\ send \in [Conn -> Seq(Frame)] /\ \A k \in Conn : Len(send[k]) <= SendCap
    /\ queue \in Seq(Round) /\ Len(queue) <= BroadcastCap

PumpsOK ==
    /\ link \in [Conn -> {"none", "open", "broken"}]
    /\ writer \in [Conn -> [pc : {"none", "ready", "writing", "done"},
                            frame : Frame \cup {None}]]

CountsOK ==
    /\ fanned \in [Room -> Seq(Event)] /\ since \in [Conn -> 0..MaxEvents]
    /\ events \in 0..MaxEvents /\ pings \in 0..MaxPings
    /\ \A r \in Room : Len(fanned[r]) + Len(queue) <= events

PanicOK ==
    /\ panic \in {"no", "pong on a closed channel"}
    /\ OnlyEvictedPongPanics

HubIInv ==
    TicketsOK /\ MembershipOK /\ FanoutOK /\ ChannelsOK /\ PumpsOK /\ CountsOK /\ PanicOK

----------------------------------------------------------------------------

LEMMA HubInitOK == HubInit => HubIInv
<1> SUFFICES ASSUME HubInit PROVE HubIInv
    OBVIOUS
<1> USE HubConstants
<1>1. TicketsOK
    BY DEF HubInit, TicketsOK, TicketOpensOneConnection, NoClient
<1>2. MembershipOK /\ FanoutOK
    BY DEF HubInit, MembershipOK, FanoutOK
<1>3. ChannelsOK /\ PumpsOK
    BY DEF HubInit, ChannelsOK, PumpsOK, NoWriter
<1>4. CountsOK /\ PanicOK
    BY DEF HubInit, CountsOK, PanicOK, OnlyEvictedPongPanics, Running
<1> QED
    BY <1>1, <1>2, <1>3, <1>4 DEF HubIInv

\* A round under way is about a room, and no round is NoFanout.
LEMMA RoundFacts ==
    ASSUME FanoutOK, NEW k \in fanout.todo
    PROVE  /\ fanout \in Round /\ fanout.event \in Event /\ fanout.room \in Room
           /\ k \in rooms[fanout.room] /\ fanout # NoFanout
BY DEF FanoutOK, Round, NoFanout

\* Who has still to be served is registered, with its channel open.
LEMMA ServedIsOpen ==
    ASSUME MembershipOK, FanoutOK, NEW k \in fanout.todo
    PROVE  /\ k \in Conn /\ k \notin closed /\ reader[k] # "none"
           /\ client[k].room = fanout.room /\ client[k].room \in Room
<1>1. k \in rooms[fanout.room] /\ fanout.room \in Room
    BY RoundFacts
<1>2. k \in Conn /\ client[k].room = fanout.room
    BY <1>1 DEF MembershipOK
<1> QED
    BY <1>1, <1>2 DEF MembershipOK

----------------------------------------------------------------------------
(* One lemma per goroutine, one step per action *)

LEMMA IssueStep ==
    ASSUME HubIInv, NEW r \in Room, IssueWsTicket(r)
    PROVE  HubIInv'
<1> DEFINE t == CHOOSE t \in Ticket \ issued : TRUE
<1>1. t \in Ticket \ issued /\ issued' = issued \cup {t}
      /\ ticket' = [ticket EXCEPT ![t] = r]
    BY DEF IssueWsTicket
<1>2. TicketsOK'
    <2> HIDE DEF t
    <2>1. \A u \in Ticket : ticket'[u] = IF u = t THEN r ELSE ticket[u]
        BY <1>1 DEF HubIInv, TicketsOK
    <2>2. client' = client
        BY DEF IssueWsTicket
    <2> QED
        BY <1>1, <2>1, <2>2 DEF HubIInv, TicketsOK, TicketOpensOneConnection
<1>3. (MembershipOK /\ FanoutOK /\ ChannelsOK /\ PumpsOK /\ CountsOK)'
    BY DEF HubIInv, MembershipOK, FanoutOK, ChannelsOK, PumpsOK, CountsOK, IssueWsTicket, pumpVars
<1>4. PanicOK'
    BY DEF HubIInv, PanicOK, OnlyEvictedPongPanics, Running, IssueWsTicket, pumpVars
<1> QED
    BY <1>2, <1>3, <1>4 DEF HubIInv

LEMMA ExpireStep ==
    ASSUME HubIInv, NEW t \in Ticket, TicketExpires(t)
    PROVE  HubIInv'
<1>1. TicketsOK'
    BY DEF HubIInv, TicketsOK, TicketOpensOneConnection, TicketExpires
<1>2. (MembershipOK /\ FanoutOK /\ ChannelsOK /\ PumpsOK /\ CountsOK)'
    BY DEF HubIInv, MembershipOK, FanoutOK, ChannelsOK, PumpsOK, CountsOK, TicketExpires, pumpVars
<1>3. PanicOK'
    BY DEF HubIInv, PanicOK, OnlyEvictedPongPanics, Running, TicketExpires, pumpVars
<1> QED
    BY <1>1, <1>2, <1>3 DEF HubIInv

LEMMA ServeStep ==
    ASSUME HubIInv, NEW t \in Ticket, NEW r \in Room, ServeWS(t, r)
    PROVE  HubIInv'
<1> DEFINE k == CHOOSE k \in {k \in Conn : client[k] = NoClient} : TRUE
<1>1. /\ k \in Conn /\ client[k] = NoClient /\ ticket[t] # None
      /\ ticket' = [ticket EXCEPT ![t] = None] /\ issued' = issued
      /\ IF ticket[t] = r
         THEN /\ client' = [client EXCEPT ![k] = [room |-> r, ticket |-> t]]
              /\ link' = [link EXCEPT ![k] = "open"]
         ELSE UNCHANGED <<client, link>>
      /\ UNCHANGED <<send, closed, reader, writer, got, rooms, queue, fanout,
                     panic, fanned, since, events, pings>>
    BY DEF ServeWS, ConsumeWsTicket
<1> HIDE DEF k
<1>2. /\ \A u \in Ticket : ticket'[u] = IF u = t THEN None ELSE ticket[u]
      /\ ticket' \in [Ticket -> Room \cup {None}]
    BY <1>1 DEF HubIInv, TicketsOK
<1>3. /\ client' \in [Conn -> [room : Room \cup {None}, ticket : Ticket \cup {None}]]
      /\ \A l \in Conn : \/ client'[l] = client[l]
                         \/ /\ l = k /\ client'[l].room = r /\ client'[l].ticket = t
                            /\ client[l] = NoClient
    BY <1>1 DEF HubIInv, TicketsOK
<1>4. t \in issued /\ \A l \in Conn : client[l] # NoClient => client[l].ticket # t
    BY <1>1 DEF HubIInv, TicketsOK
<1>5. \A l \in Conn : client[l].ticket = t => FALSE
    BY <1>4, HubConstants DEF NoClient
<1>6. TicketsOK'
    <2>1. TicketOpensOneConnection'
        BY <1>3, <1>5 DEF HubIInv, TicketsOK, TicketOpensOneConnection
    <2>2. \A l \in Conn : client'[l] # NoClient =>
             /\ client'[l].room \in Room /\ client'[l].ticket \in issued
             /\ ticket'[client'[l].ticket] = None
        BY <1>2, <1>3, <1>4 DEF HubIInv, TicketsOK
    <2> QED
        BY <1>1, <1>2, <1>3, <2>1, <2>2 DEF HubIInv, TicketsOK
<1>7. MembershipOK'
    <2>1. \A l \in Conn : reader[l] # "none" => client'[l] = client[l]
        BY <1>3 DEF HubIInv, MembershipOK
    <2>2. \A l \in Conn : \A q \in Room : l \in rooms[q] => reader[l] # "none"
        BY DEF HubIInv, MembershipOK
    <2> QED
        BY <1>1, <2>1, <2>2 DEF HubIInv, MembershipOK
<1>8. (FanoutOK /\ ChannelsOK /\ CountsOK)'
    BY <1>1 DEF HubIInv, FanoutOK, ChannelsOK, CountsOK
<1>9. PumpsOK'
    BY <1>1 DEF HubIInv, PumpsOK
<1>10. PanicOK'
    BY <1>1 DEF HubIInv, PanicOK, OnlyEvictedPongPanics, Running, ServeWS
<1> QED
    BY <1>6, <1>7, <1>8, <1>9, <1>10 DEF HubIInv
LEMMA RegisterStep ==
    ASSUME HubIInv, NEW k \in Conn, HubRegister(k)
    PROVE  HubIInv'
<1> DEFINE r == client[k].room
<1>1. client[k] # NoClient /\ reader[k] = "none" /\ fanout = NoFanout /\ Running
    BY DEF HubRegister, Selecting
<1>2. r \in Room /\ Len(fanned[r]) \in 0..MaxEvents
    <2>1. r \in Room
        BY <1>1 DEF HubIInv, TicketsOK
    <2>2. fanned[r] \in Seq(Event) /\ Len(fanned[r]) + Len(queue) <= events /\ queue \in Seq(Round)
        BY <2>1 DEF HubIInv, CountsOK, ChannelsOK
    <2>3. Len(fanned[r]) \in Nat /\ Len(queue) \in Nat
        BY <2>2
    <2> QED
        BY <2>1, <2>2, <2>3, HubConstants DEF HubIInv, CountsOK
<1>3. /\ rooms' = [rooms EXCEPT ![r] = @ \cup {k}]
      /\ since' = [since EXCEPT ![k] = Len(fanned[r])]
      /\ reader' = [reader EXCEPT ![k] = "reading"]
      /\ writer' = [writer EXCEPT ![k] = Ready]
      /\ UNCHANGED <<ticketVars, client, link, send, closed, got, queue, fanout, panic,
                     fanned, events, pings>>
    BY DEF HubRegister
<1> HIDE DEF r
<1>4. MembershipOK'
    <2>1. /\ reader' \in [Conn -> {"none", "reading", "leaving", "closing", "done"}]
          /\ rooms' \in [Room -> SUBSET Conn]
        BY <1>2, <1>3 DEF HubIInv, MembershipOK
    <2>2. \A q \in Room : rooms'[q] = IF q = r THEN rooms[q] \cup {k} ELSE rooms[q]
        BY <1>2, <1>3 DEF HubIInv, MembershipOK
    <2>3. \A l \in Conn : reader'[l] = IF l = k THEN "reading" ELSE reader[l]
        BY <1>3 DEF HubIInv, MembershipOK
    <2>4. k \notin closed /\ client' = client /\ closed' = closed
        BY <1>1, <1>3 DEF HubIInv, MembershipOK
    <2>5. \A l \in Conn : client[l] # NoClient => client[l].room \in Room
        BY DEF HubIInv, TicketsOK
    <2>6. \A l \in Conn : reader'[l] # "none" =>
              client[l] # NoClient /\ (l \in rooms'[client[l].room] <=> l \notin closed)
        <3>1. client[k].room = r /\ k \in rooms'[r]
            BY <1>2, <2>2 DEF r
        <3>2. ASSUME NEW l \in Conn \ {k}, reader'[l] # "none"
              PROVE  client[l] # NoClient /\ (l \in rooms'[client[l].room] <=> l \notin closed)
            <4>1. client[l] # NoClient /\ (l \in rooms[client[l].room] <=> l \notin closed)
                BY <2>3, <3>2 DEF HubIInv, MembershipOK
            <4>2. client[l].room \in Room
                BY <2>5, <4>1
            <4> QED
                BY <2>2, <3>2, <4>1, <4>2
        <3> QED
            BY <1>1, <2>4, <3>1, <3>2
    <2>7. \A l \in Conn : \A q \in Room : l \in rooms'[q] => q = client[l].room
        <3> SUFFICES ASSUME NEW l \in Conn, NEW q \in Room, l \in rooms'[q]
                     PROVE  q = client[l].room
            OBVIOUS
        <3>1. l \in rooms[q] \/ (q = r /\ l = k)
            BY <2>2
        <3>2. r = client[k].room
            BY DEF r
        <3> QED
            BY <3>1, <3>2 DEF HubIInv, MembershipOK
    <2> QED
        BY <2>1, <2>2, <2>3, <2>4, <2>6, <2>7 DEF HubIInv, MembershipOK
<1>5. (TicketsOK /\ FanoutOK /\ ChannelsOK)'
    BY <1>1, <1>3 DEF HubIInv, TicketsOK, TicketOpensOneConnection, FanoutOK, ChannelsOK, ticketVars
<1>6. (PumpsOK /\ CountsOK)'
    BY <1>2, <1>3 DEF HubIInv, PumpsOK, CountsOK, Ready
<1>7. PanicOK'
    BY <1>1, <1>3 DEF HubIInv, PanicOK, OnlyEvictedPongPanics, Running
<1> QED
    BY <1>4, <1>5, <1>6, <1>7 DEF HubIInv

\* The hub closes the channel of a client it removes, and of no other: the channel
\* of one that was evicted is not closed again.
LEMMA UnregisterStep ==
    ASSUME HubIInv, NEW k \in Conn, HubUnregister(k)
    PROVE  HubIInv'
<1> DEFINE r == client[k].room
<1>1. /\ reader[k] = "leaving" /\ fanout = NoFanout /\ Running
      /\ reader' = [reader EXCEPT ![k] = "closing"]
      /\ UNCHANGED <<ticketVars, client, link, send, writer, got, queue, fanout, fanned,
                     since, events, pings>>
    BY DEF HubUnregister, Selecting
<1>2. /\ client[k] # NoClient /\ r \in Room /\ (k \in rooms[r] <=> k \notin closed)
    BY <1>1 DEF HubIInv, MembershipOK, TicketsOK
<1>3. /\ rooms' = [rooms EXCEPT ![r] = @ \ {k}] /\ closed' = closed \cup {k}
      /\ panic' = panic
    <2>1. CASE k \in rooms[r]
        BY <1>2, <2>1 DEF HubUnregister, Unregister, Close
    <2>2. CASE k \notin rooms[r]
        <3>1. UNCHANGED <<rooms, closed, panic>> /\ k \in closed
            BY <1>2, <2>2 DEF HubUnregister, Unregister
        <3>2. rooms = [rooms EXCEPT ![r] = @ \ {k}]
            BY <1>2, <2>2 DEF HubIInv, MembershipOK
        <3> QED
            BY <3>1, <3>2
    <2> QED
        BY <2>1, <2>2
<1> HIDE DEF r
<1>4. MembershipOK'
    <2>1. \A q \in Room : rooms'[q] = IF q = r THEN rooms[q] \ {k} ELSE rooms[q]
        BY <1>2, <1>3 DEF HubIInv, MembershipOK
    <2>2. \A l \in Conn : reader'[l] = IF l = k THEN "closing" ELSE reader[l]
        BY <1>1 DEF HubIInv, MembershipOK
    <2>3. \A l \in Conn : reader[l] # "none" => client[l] # NoClient /\ client[l].room \in Room
        BY DEF HubIInv, TicketsOK, MembershipOK
    <2>4. k \notin rooms'[client[k].room]
        BY <1>2, <2>1 DEF r
    <2>5. \A l \in Conn : reader'[l] # "none" =>
              client[l] # NoClient /\ (l \in rooms'[client[l].room] <=> l \notin closed')
        BY <1>1, <1>3, <2>1, <2>2, <2>3, <2>4 DEF HubIInv, MembershipOK
    <2> QED
        BY <1>1, <1>2, <1>3, <2>1, <2>2, <2>5 DEF HubIInv, MembershipOK
<1>5. (TicketsOK /\ FanoutOK /\ ChannelsOK /\ PumpsOK /\ CountsOK)'
    BY <1>1 DEF HubIInv, TicketsOK, TicketOpensOneConnection, FanoutOK, ChannelsOK, PumpsOK,
                CountsOK, ticketVars
<1>6. PanicOK'
    BY <1>1, <1>3 DEF HubIInv, PanicOK, OnlyEvictedPongPanics, Running
<1> QED
    BY <1>4, <1>5, <1>6 DEF HubIInv

LEMMA TakeStep ==
    ASSUME HubIInv, HubTake
    PROVE  HubIInv'
<1> DEFINE m == Head(queue)
<1>1. /\ queue # <<>> /\ Running /\ queue' = Tail(queue)
      /\ fanned' = [fanned EXCEPT ![m.room] = Append(@, m.event)]
      /\ fanout' = IF rooms[m.room] = {} THEN NoFanout
                   ELSE [m EXCEPT !.todo = rooms[m.room]]
      /\ UNCHANGED <<ticketVars, client, pumpVars, rooms, panic, since, events, pings>>
    BY DEF HubTake, Selecting
<1>2. queue \in Seq(Round) /\ Len(queue) \in Nat \ {0} /\ Len(queue) <= BroadcastCap
    BY <1>1 DEF HubIInv, ChannelsOK
<1>3. /\ m \in Round /\ Tail(queue) \in Seq(Round) /\ Len(Tail(queue)) = Len(queue) - 1
    BY <1>1, <1>2
<1> HIDE DEF m
<1>4. m.room \in Room /\ m.event \in Event
    BY <1>3 DEF Round
<1>5. FanoutOK'
    <2>1. rooms[m.room] \subseteq Conn /\ rooms' = rooms
        BY <1>1, <1>4 DEF HubIInv, MembershipOK
    <2>2. [m EXCEPT !.todo = rooms[m.room]] \in Round
          /\ [m EXCEPT !.todo = rooms[m.room]].todo = rooms[m.room]
          /\ [m EXCEPT !.todo = rooms[m.room]].room = m.room
        BY <1>3, <2>1 DEF Round
    <2> QED
        BY <1>1, <2>1, <2>2 DEF FanoutOK
<1>6. ChannelsOK'
    BY <1>1, <1>2, <1>3, HubConstants DEF HubIInv, ChannelsOK, pumpVars
<1>7. CountsOK'
    <2>1. fanned[m.room] \in Seq(Event) /\ Append(fanned[m.room], m.event) \in Seq(Event)
          /\ Len(Append(fanned[m.room], m.event)) = Len(fanned[m.room]) + 1
        BY <1>4 DEF HubIInv, CountsOK
    <2>2. /\ fanned' \in [Room -> Seq(Event)]
          /\ \A r \in Room : fanned'[r] = IF r = m.room THEN Append(fanned[r], m.event) ELSE fanned[r]
        BY <1>1, <2>1 DEF HubIInv, CountsOK
    <2>3. ASSUME NEW r \in Room PROVE Len(fanned'[r]) + Len(queue') <= events'
        <3>1. Len(fanned[r]) \in Nat /\ Len(fanned[r]) + Len(queue) <= events /\ events \in Nat
            BY HubConstants DEF HubIInv, CountsOK
        <3>2. Len(fanned'[r]) = Len(fanned[r]) \/ Len(fanned'[r]) = Len(fanned[r]) + 1
            BY <2>1, <2>2
        <3>3. Len(queue') = Len(queue) - 1 /\ events' = events
            BY <1>1, <1>3
        <3> QED
            BY <1>2, <3>1, <3>2, <3>3
    <2> QED
        BY <1>1, <2>2, <2>3 DEF HubIInv, CountsOK
<1>8. (TicketsOK /\ MembershipOK /\ PumpsOK)'
    BY <1>1 DEF HubIInv, TicketsOK, TicketOpensOneConnection, MembershipOK, PumpsOK, ticketVars, pumpVars
<1>9. PanicOK'
    BY <1>1 DEF HubIInv, PanicOK, OnlyEvictedPongPanics, Running
<1> QED
    BY <1>5, <1>6, <1>7, <1>8, <1>9 DEF HubIInv

\* Who is served is registered, so its channel is open; who is evicted leaves the
\* round with the map.
LEMMA DistributeStep ==
    ASSUME HubIInv, NEW k \in Conn, HubDistribute(k)
    PROVE  HubIInv'
<1> DEFINE r == fanout.room
<1>1. /\ k \in fanout.todo /\ Running
      /\ fanout' = IF fanout.todo = {k} THEN NoFanout ELSE [fanout EXCEPT !.todo = @ \ {k}]
      /\ UNCHANGED <<ticketVars, client, link, reader, writer, got, queue, fanned, since,
                     events, pings>>
    BY DEF HubDistribute
<1>2. /\ k \notin closed /\ reader[k] # "none" /\ client[k].room = r /\ r \in Room
      /\ fanout \in Round /\ fanout.event \in Event /\ fanout.todo \subseteq rooms[r]
    BY <1>1, ServedIsOpen, RoundFacts DEF HubIInv, FanoutOK
<1>3. panic' = panic
      /\ \/ /\ Len(send[k]) < SendCap /\ send' = [send EXCEPT ![k] = Append(@, fanout.event)]
            /\ UNCHANGED <<rooms, closed>>
         \/ /\ rooms' = [rooms EXCEPT ![r] = @ \ {k}]
            /\ closed' = closed \cup {k}
            /\ send' = send
    BY <1>2 DEF HubDistribute, HubSend, HasRoom, Close
<1>4. \/ fanout' = NoFanout
      \/ /\ fanout' \in Round /\ fanout'.room = r
         /\ fanout'.todo = fanout.todo \ {k}
    BY <1>1, <1>2 DEF Round
<1> HIDE DEF r
<1>5. \/ rooms' = rooms /\ closed' = closed
      \/ /\ closed' = closed \cup {k} /\ rooms' \in [Room -> SUBSET Conn]
         /\ \A q \in Room : rooms'[q] = IF q = r THEN rooms[q] \ {k} ELSE rooms[q]
    <2>1. rooms \in [Room -> SUBSET Conn]
        BY DEF HubIInv, MembershipOK
    <2>2. CASE UNCHANGED <<rooms, closed>>
        BY <2>2
    <2>3. CASE rooms' = [rooms EXCEPT ![r] = @ \ {k}] /\ closed' = closed \cup {k}
        BY <1>2, <2>1, <2>3
    <2> QED
        BY <1>3, <2>2, <2>3
<1>6. MembershipOK'
    <2>1. CASE rooms' = rooms /\ closed' = closed
        BY <1>1, <2>1 DEF HubIInv, MembershipOK
    <2>2. CASE /\ closed' = closed \cup {k} /\ rooms' \in [Room -> SUBSET Conn]
               /\ \A q \in Room : rooms'[q] = IF q = r THEN rooms[q] \ {k} ELSE rooms[q]
        <3>1. \A l \in Conn : reader[l] # "none" => client[l] # NoClient /\ client[l].room \in Room
            BY DEF HubIInv, TicketsOK, MembershipOK
        <3>2. \A l \in Conn : reader[l] # "none" =>
                 client[l] # NoClient /\ (l \in rooms'[client[l].room] <=> l \notin closed')
            BY <1>2, <2>2, <3>1 DEF HubIInv, MembershipOK
        <3> QED
            BY <1>1, <1>2, <2>2, <3>2 DEF HubIInv, MembershipOK
    <2> QED
        BY <1>5, <2>1, <2>2
<1>7. FanoutOK'
    BY <1>2, <1>4, <1>5 DEF FanoutOK
<1>8. ChannelsOK'
    <2>1. queue' = queue
        BY <1>1
    <2>2. send[k] \in Seq(Frame) /\ fanout.event \in Frame
        BY <1>2 DEF HubIInv, ChannelsOK, Frame
    <2>3. Append(send[k], fanout.event) \in Seq(Frame)
          /\ Len(Append(send[k], fanout.event)) = Len(send[k]) + 1 /\ Len(send[k]) \in Nat
        BY <2>2
    <2>4. send' \in [Conn -> Seq(Frame)]
        BY <1>3, <2>3 DEF HubIInv, ChannelsOK
    <2>5. ASSUME NEW l \in Conn PROVE Len(send'[l]) <= SendCap
        <3>1. send'[l] = send[l] \/ (Len(send'[l]) = Len(send[k]) + 1 /\ Len(send[k]) < SendCap)
            BY <1>3, <2>3 DEF HubIInv, ChannelsOK
        <3> QED
            BY <2>3, <3>1, HubConstants DEF HubIInv, ChannelsOK
    <2> QED
        BY <2>1, <2>4, <2>5 DEF HubIInv, ChannelsOK
<1>9. (TicketsOK /\ PumpsOK /\ CountsOK)'
    BY <1>1 DEF HubIInv, TicketsOK, TicketOpensOneConnection, PumpsOK, CountsOK, ticketVars
<1>10. PanicOK'
    BY <1>1, <1>3 DEF HubIInv, PanicOK, OnlyEvictedPongPanics, Running
<1> QED
    BY <1>6, <1>7, <1>8, <1>9, <1>10 DEF HubIInv

LEMMA BroadcastStep ==
    ASSUME HubIInv, NEW r \in Room, Broadcast(r)
    PROVE  HubIInv'
<1> DEFINE m == [event |-> events + 1, room |-> r, todo |-> {}]
<1>1. /\ Running /\ events < MaxEvents /\ Len(queue) < BroadcastCap /\ events' = events + 1
      /\ queue' = Append(queue, m)
      /\ UNCHANGED <<ticketVars, client, pumpVars, rooms, fanout, panic, fanned, since, pings>>
    BY DEF Broadcast
<1>2. m \in Round /\ events + 1 \in 0..MaxEvents
    BY <1>1, HubConstants DEF HubIInv, CountsOK, Round, Event
<1> HIDE DEF m
<1>3. queue \in Seq(Round) /\ queue' \in Seq(Round) /\ Len(queue) \in Nat
      /\ Len(queue') = Len(queue) + 1
    BY <1>1, <1>2 DEF HubIInv, ChannelsOK
<1>4. ChannelsOK'
    BY <1>1, <1>3, HubConstants DEF HubIInv, ChannelsOK, pumpVars
<1>5. CountsOK'
    <2>1. ASSUME NEW q \in Room PROVE Len(fanned'[q]) + Len(queue') <= events'
        <3>1. fanned[q] \in Seq(Event) /\ Len(fanned[q]) + Len(queue) <= events /\ events \in Nat
            BY HubConstants DEF HubIInv, CountsOK
        <3>2. Len(fanned[q]) \in Nat
            BY <3>1
        <3>3. fanned' = fanned /\ events' = events + 1
            BY <1>1
        <3>4. Len(queue') = Len(queue) + 1 /\ Len(queue) \in Nat
            BY <1>3
        <3>5. Len(fanned[q]) + Len(queue') <= events + 1
            <4>1. Len(fanned[q]) + Len(queue) <= events /\ events \in Nat
                BY <3>1
            <4>2. \A a, b, c, d \in Nat : a + b <= c /\ d = b + 1 => a + d <= c + 1
                OBVIOUS
            <4>3. Len(queue') \in Nat
                BY <3>4
            <4> QED
                BY <3>2, <3>4, <4>1, <4>2, <4>3, Zenon
        <3> QED
            BY <3>3, <3>5
    <2> QED
        BY <1>1, <1>2, <2>1 DEF HubIInv, CountsOK
<1>6. (TicketsOK /\ MembershipOK /\ FanoutOK /\ PumpsOK)'
    BY <1>1 DEF HubIInv, TicketsOK, TicketOpensOneConnection, MembershipOK, FanoutOK, PumpsOK,
                ticketVars, pumpVars
<1>7. PanicOK'
    BY <1>1 DEF HubIInv, PanicOK, OnlyEvictedPongPanics, Running
<1> QED
    BY <1>4, <1>5, <1>6, <1>7 DEF HubIInv
\* A pong on a closed channel is the one panic there is, and the reader that met it
\* is still at its open connection.
LEMMA PingStep ==
    ASSUME HubIInv, NEW k \in Conn, ReadPing(k)
    PROVE  HubIInv'
<1>1. /\ reader[k] = "reading" /\ link[k] = "open" /\ pings < MaxPings /\ pings' = pings + 1
      /\ panic = "no"
      /\ panic' = IF k \in closed THEN "pong on a closed channel" ELSE panic
      /\ send' = IF k \notin closed /\ Len(send[k]) < SendCap
                 THEN [send EXCEPT ![k] = Append(@, Pong)] ELSE send
      /\ UNCHANGED <<link, closed, reader>>
      /\ UNCHANGED <<ticketVars, client, rooms, queue, fanout, fanned, since, events, writer, got>>
    BY DEF ReadPing, HasRoom, Running, ReaderUnchanged
<1>2. ChannelsOK'
    <2>1. send[k] \in Seq(Frame) /\ Pong \in Frame
        BY DEF HubIInv, ChannelsOK, Frame
    <2>2. Append(send[k], Pong) \in Seq(Frame)
          /\ Len(Append(send[k], Pong)) = Len(send[k]) + 1 /\ Len(send[k]) \in Nat
        BY <2>1
    <2>3. send' \in [Conn -> Seq(Frame)]
        BY <1>1, <2>2 DEF HubIInv, ChannelsOK
    <2>4. ASSUME NEW l \in Conn PROVE Len(send'[l]) <= SendCap
        <3>1. send'[l] = send[l] \/ (Len(send'[l]) = Len(send[k]) + 1 /\ Len(send[k]) < SendCap)
            BY <1>1, <2>2 DEF HubIInv, ChannelsOK
        <3> QED
            BY <2>2, <3>1, HubConstants DEF HubIInv, ChannelsOK
    <2>5. queue' = queue
        BY <1>1
    <2> QED
        BY <2>3, <2>4, <2>5 DEF HubIInv, ChannelsOK
<1>3. CountsOK'
    <2>1. pings' \in 0..MaxPings
        <3>1. pings \in 0..MaxPings /\ MaxPings \in Nat
            BY HubConstants DEF HubIInv, CountsOK
        <3>2. pings < MaxPings /\ pings' = pings + 1
            BY <1>1
        <3> QED
            BY <3>1, <3>2
    <2>2. UNCHANGED <<fanned, since, events, queue>>
        BY <1>1
    <2> QED
        BY <2>1, <2>2 DEF HubIInv, CountsOK
<1>4. (TicketsOK /\ MembershipOK /\ FanoutOK /\ PumpsOK)'
    BY <1>1 DEF HubIInv, TicketsOK, TicketOpensOneConnection, MembershipOK, FanoutOK, PumpsOK,
                ticketVars
<1>5. PanicOK'
    BY <1>1 DEF PanicOK, OnlyEvictedPongPanics, Running
<1> QED
    BY <1>2, <1>3, <1>4, <1>5 DEF HubIInv

\* The other steps of a reader move it along or break the connection.
LEMMA ReaderStep ==
    ASSUME HubIInv, NEW k \in Conn, ReadFails(k) \/ ReaderCloses(k)
    PROVE  HubIInv'
<1>1. /\ Running /\ reader[k] \in {"reading", "closing"}
      /\ \/ reader' = [reader EXCEPT ![k] = "leaving"] /\ link' = link
         \/ reader' = [reader EXCEPT ![k] = "done"] /\ link' = [link EXCEPT ![k] = "broken"]
      /\ UNCHANGED <<send, closed, panic, pings>>
      /\ UNCHANGED <<ticketVars, client, rooms, queue, fanout, fanned, since, events, writer, got>>
    BY DEF ReadFails, ReaderCloses, ReaderUnchanged
<1>2. MembershipOK'
    <2>1. /\ reader' \in [Conn -> {"none", "reading", "leaving", "closing", "done"}]
          /\ \A l \in Conn : reader'[l] = "none" <=> reader[l] = "none"
        BY <1>1 DEF HubIInv, MembershipOK
    <2> QED
        BY <1>1, <2>1 DEF HubIInv, MembershipOK
<1>3. PumpsOK'
    BY <1>1 DEF HubIInv, PumpsOK
<1>4. (TicketsOK /\ FanoutOK /\ ChannelsOK /\ CountsOK)'
    BY <1>1 DEF HubIInv, TicketsOK, TicketOpensOneConnection, FanoutOK, ChannelsOK, CountsOK,
                ticketVars
<1>5. PanicOK'
    BY <1>1 DEF HubIInv, PanicOK, OnlyEvictedPongPanics, Running
<1> QED
    BY <1>2, <1>3, <1>4, <1>5 DEF HubIInv

\* A write pump only takes from its channel and works on its connection.
LEMMA WriterStep ==
    ASSUME HubIInv, NEW k \in Conn, WritePump(k) \/ PeerBreaks(k)
    PROVE  HubIInv'
<1>1. /\ Running
      /\ \/ send' = send
         \/ send[k] # <<>> /\ send' = [send EXCEPT ![k] = Tail(@)]
      /\ \/ UNCHANGED writer
         \/ writer' = [writer EXCEPT ![k] = Ready]
         \/ writer' = [writer EXCEPT ![k].pc = "done"]
         \/ /\ send[k] # <<>>
            /\ writer' = [writer EXCEPT ![k] = [pc |-> "writing", frame |-> Head(send[k])]]
      /\ link' = link \/ link' = [link EXCEPT ![k] = "broken"]
      /\ UNCHANGED <<ticketVars, client, closed, reader, rooms, queue, fanout,
                     panic, fanned, since, events, pings>>
    BY DEF WritePump, WriterTake, WriterWrites, WriteFails, PingFails, WriterSeesClose,
           WriterEnds, PeerBreaks, WriterUnchanged
<1>2. send[k] # <<>> => /\ Tail(send[k]) \in Seq(Frame) /\ Head(send[k]) \in Frame
                        /\ Len(Tail(send[k])) = Len(send[k]) - 1 /\ Len(send[k]) \in Nat
    BY DEF HubIInv, ChannelsOK
<1>3. ChannelsOK'
    <2>1. send' \in [Conn -> Seq(Frame)]
        BY <1>1, <1>2 DEF HubIInv, ChannelsOK
    <2>2. ASSUME NEW l \in Conn PROVE Len(send'[l]) <= SendCap
        <3>1. \/ send'[l] = send[l]
              \/ l = k /\ send[k] # <<>> /\ send'[l] = Tail(send[k])
            BY <1>1 DEF HubIInv, ChannelsOK
        <3>2. Len(send[l]) <= SendCap /\ Len(send[k]) <= SendCap /\ SendCap \in Nat
            BY HubConstants DEF HubIInv, ChannelsOK
        <3>3. send[k] # <<>> => /\ Len(Tail(send[k])) = Len(send[k]) - 1
                                /\ Len(send[k]) \in Nat
            BY <1>2
        <3>4. \A n \in Nat : n <= SendCap => n - 1 <= SendCap
            BY <3>2
        <3> QED
            BY <3>1, <3>2, <3>3, <3>4, Zenon
    <2> QED
        BY <1>1, <2>1, <2>2 DEF HubIInv, ChannelsOK
<1>4. PumpsOK'
    <2>1. link' \in [Conn -> {"none", "open", "broken"}]
        BY <1>1 DEF HubIInv, PumpsOK
    <2>2. writer' \in [Conn -> [pc : {"none", "ready", "writing", "done"},
                                frame : Frame \cup {None}]]
        BY <1>1, <1>2 DEF HubIInv, PumpsOK, Ready
    <2> QED
        BY <2>1, <2>2 DEF PumpsOK
<1>5. (TicketsOK /\ MembershipOK /\ FanoutOK /\ CountsOK)'
    BY <1>1 DEF HubIInv, TicketsOK, TicketOpensOneConnection, MembershipOK, FanoutOK, CountsOK,
                ticketVars
<1>6. PanicOK'
    BY <1>1 DEF HubIInv, PanicOK, OnlyEvictedPongPanics, Running
<1> QED
    BY <1>3, <1>4, <1>5, <1>6 DEF HubIInv

----------------------------------------------------------------------------

LEMMA HubStepOK == HubIInv /\ [HubNext]_hubVars => HubIInv'
<1> SUFFICES ASSUME HubIInv, [HubNext]_hubVars PROVE HubIInv'
    OBVIOUS
<1>1. CASE \E r \in Room : IssueWsTicket(r) \/ Broadcast(r)
    BY <1>1, IssueStep, BroadcastStep
<1>2. CASE \E r \in Room, t \in Ticket : ServeWS(t, r)
    BY <1>2, ServeStep
<1>3. CASE \E t \in Ticket : TicketExpires(t)
    BY <1>3, ExpireStep
<1>4. CASE Hub
    BY <1>4, RegisterStep, UnregisterStep, TakeStep, DistributeStep DEF Hub
<1>5. CASE \E k \in Conn : ReadPump(k)
    BY <1>5, PingStep, ReaderStep DEF ReadPump
<1>6. CASE \E k \in Conn : WritePump(k) \/ PeerBreaks(k)
    BY <1>6, WriterStep
<1>7. CASE UNCHANGED hubVars
    <2>1. (TicketsOK /\ MembershipOK /\ FanoutOK /\ ChannelsOK /\ PumpsOK /\ CountsOK)'
        BY <1>7 DEF HubIInv, TicketsOK, TicketOpensOneConnection, MembershipOK, FanoutOK,
                    ChannelsOK, PumpsOK, CountsOK, hubVars, ticketVars, pumpVars
    <2>2. PanicOK'
        BY <1>7 DEF HubIInv, PanicOK, OnlyEvictedPongPanics, Running, hubVars, pumpVars
    <2> QED
        BY <2>1, <2>2 DEF HubIInv
<1> QED
    BY <1>1, <1>2, <1>3, <1>4, <1>5, <1>6, <1>7 DEF HubNext

\* The inductive invariant of the hub, its pumps and the tickets.
THEOREM HubInvariant == HubSpec => []HubIInv
<1>1. HubInit => HubIInv
    BY HubInitOK
<1>2. HubIInv /\ [HubNext]_hubVars => HubIInv'
    BY HubStepOK
<1> QED
    BY <1>1, <1>2, PTL DEF HubSpec

\* Every channel of the hub holds frames and events within its capacity, and a client
\* is in the map of its room exactly as long as its channel is open.
THEOREM HubTyped == HubSpec => []HubTypeOK
<1>1. HubIInv => HubTypeOK
    <2> SUFFICES ASSUME HubIInv PROVE HubTypeOK
        OBVIOUS
    <2>1. ASSUME NEW k \in Conn PROVE Len(send[k]) <= SendCap /\ Range(send[k]) \subseteq Frame
        <3>1. send[k] \in Seq(Frame) /\ Len(send[k]) <= SendCap
            BY DEF HubIInv, ChannelsOK
        <3> QED
            BY <3>1 DEF Range
    <2>2. fanout.todo \subseteq Conn
        BY DEF HubIInv, FanoutOK, NoFanout, Round
    <2> QED
        BY <2>1, <2>2 DEF HubIInv, HubTypeOK, TicketsOK, MembershipOK, PumpsOK, ChannelsOK,
                          CountsOK, PanicOK
<1> QED
    BY <1>1, HubInvariant, PTL

\* ConsumeWsTicket is one step, so a ticket never opens a second connection.
THEOREM TicketsAreSingleUse == HubSpec => []TicketOpensOneConnection
<1>1. HubIInv => TicketOpensOneConnection
    BY DEF HubIInv, TicketsOK
<1> QED
    BY <1>1, HubInvariant, PTL

\* Neither HubSend nor Unregister ever meets a closed channel: the process dies only of
\* a pong that readPump has for a browser that was evicted.
THEOREM HubPanicsOnlyOnEvictedPong == HubSpec => []OnlyEvictedPongPanics
<1>1. HubIInv => OnlyEvictedPongPanics
    BY DEF HubIInv, PanicOK
<1> QED
    BY <1>1, HubInvariant, PTL

----------------------------------------------------------------------------
(***************************************************************************)
(* What a browser is given, for any number of connections, rooms and       *)
(* events: all the events of its room since it was registered, in order,   *)
(* up to a point (NoGapWithinConnection). The hub numbers nothing, so the  *)
(* argument is about order alone: what waits in the queue is newer than    *)
(* what was taken from it, and what is being distributed is the newest     *)
(* event of its room.                                                      *)
(***************************************************************************)

Events(s) == Range(s) \cap Event

\* Events reach the hub with rising numbers, and leave the queue in that order.
QueueOK ==
    /\ \A i, j \in DOMAIN queue : i < j => queue[i].event < queue[j].event
    /\ \A i \in DOMAIN queue : queue[i].event <= events
    /\ \A r \in Room : \A e \in Range(fanned[r]) : e <= events
    /\ \A r \in Room : \A e \in Range(fanned[r]), i \in DOMAIN queue : e < queue[i].event

RoundOK == fanout # NoFanout => \A e \in Range(fanned[fanout.room]) : e <= fanout.event

Ordered(k) ==
    /\ InOrder(got[k]) /\ InOrder(send[k])
    /\ \A e \in Events(got[k]), f \in ({writer[k].frame} \cup Range(send[k])) \cap Event : e < f
    /\ writer[k].frame \in Event => \A f \in Events(send[k]) : writer[k].frame < f

Awaited(k) == {e \in {fanout.event} : k \in fanout.todo}

Complete(k) ==
    /\ k \notin closed => GivenEvents(k) = Distributed(k) \ Awaited(k)
    /\ k \in closed =>
          /\ GivenEvents(k) \subseteq Distributed(k)
          /\ \A e \in Distributed(k), g \in GivenEvents(k) : e < g => e \in GivenEvents(k)

\* A write pump holds a frame exactly while it writes it, and keeps what it failed to
\* write.
PumpOK(k) ==
    /\ writer[k].pc = "ready" => writer[k].frame = None
    /\ writer[k].pc = "writing" => writer[k].frame \in Frame

\* A connection that waits for the hub was given nothing yet; one that is registered
\* was given its events; the one the hub serves next lacks the newest.
ConnectionOK(k) ==
    /\ reader[k] = "none" => got[k] = <<>> /\ send[k] = <<>> /\ writer[k] = NoWriter
    /\ reader[k] # "none" =>
          /\ since[k] <= Len(fanned[client[k].room])
          /\ PumpOK(k) /\ Ordered(k) /\ Complete(k)
    /\ k \in fanout.todo => fanout.event \in Distributed(k)

OrderIInv ==
    /\ got \in [Conn -> Seq(Event)]
    /\ QueueOK /\ RoundOK
    /\ \A k \in Conn : ConnectionOK(k)

----------------------------------------------------------------------------
(* Sequences *)

LEMMA RangeAppend ==
    ASSUME NEW S, NEW s \in Seq(S), NEW e \in S
    PROVE  Range(Append(s, e)) = Range(s) \cup {e}
<1>1. /\ Len(Append(s, e)) = Len(s) + 1 /\ Len(s) \in Nat
      /\ \A i \in 1..Len(s) : Append(s, e)[i] = s[i]
      /\ Append(s, e)[Len(s) + 1] = e
    OBVIOUS
<1>2. DOMAIN s = 1..Len(s) /\ DOMAIN Append(s, e) = 1 .. Len(s) + 1
    BY <1>1
<1>3. 1 .. Len(s) + 1 = 1..Len(s) \cup {Len(s) + 1}
    BY <1>1
<1> QED
    BY <1>1, <1>2, <1>3 DEF Range

LEMMA RangeTail ==
    ASSUME NEW S, NEW s \in Seq(S), s # <<>>
    PROVE  Range(s) = {Head(s)} \cup Range(Tail(s))
<1>1. /\ Len(s) \in Nat \ {0} /\ Len(Tail(s)) = Len(s) - 1 /\ Head(s) = s[1]
      /\ \A i \in 1 .. Len(s) - 1 : Tail(s)[i] = s[i + 1]
      /\ Tail(s) \in Seq(S)
    OBVIOUS
<1>2. DOMAIN s = 1..Len(s) /\ DOMAIN Tail(s) = 1 .. Len(s) - 1
    BY <1>1
<1>3. \A i \in 1..Len(s) : i = 1 \/ (i - 1 \in 1 .. Len(s) - 1 /\ s[i] = Tail(s)[i - 1])
    BY <1>1
<1>4. \A i \in 1 .. Len(s) - 1 : i + 1 \in 1..Len(s)
    BY <1>1
<1>5. ASSUME NEW i \in 1..Len(s) PROVE s[i] \in {Head(s)} \cup Range(Tail(s))
    BY <1>1, <1>2, <1>3 DEF Range
<1>6. Head(s) \in Range(s)
    BY <1>1, <1>2 DEF Range
<1>7. ASSUME NEW i \in 1 .. Len(s) - 1 PROVE Tail(s)[i] \in Range(s)
    BY <1>1, <1>2, <1>4 DEF Range
<1>8. \A x \in Range(s) : x \in {Head(s)} \cup Range(Tail(s))
    BY <1>2, <1>5 DEF Range
<1>9. \A x \in Range(Tail(s)) : x \in Range(s)
    BY <1>2, <1>7 DEF Range
<1> QED
    BY <1>6, <1>8, <1>9

LEMMA InOrderAppend ==
    ASSUME NEW S, NEW s \in Seq(S), NEW e \in S, InOrder(s),
           e \in Event => \A x \in Events(s) : x < e
    PROVE  InOrder(Append(s, e))
<1> DEFINE t == Append(s, e)
<1>1. /\ DOMAIN t = 1 .. Len(s) + 1 /\ Len(s) \in Nat /\ DOMAIN s = 1..Len(s)
      /\ \A i \in 1..Len(s) : t[i] = s[i]
      /\ t[Len(s) + 1] = e
    OBVIOUS
<1> SUFFICES ASSUME NEW i \in DOMAIN t, NEW j \in DOMAIN t, i < j, t[i] \in Event, t[j] \in Event
             PROVE  t[i] < t[j]
    BY DEF InOrder
<1> HIDE DEF t
<1>2. i \in 1..Len(s) /\ (j \in 1..Len(s) \/ j = Len(s) + 1)
    BY <1>1
<1>3. CASE j \in 1..Len(s)
    BY <1>1, <1>2, <1>3 DEF InOrder
<1>4. CASE j = Len(s) + 1
    <2>1. t[i] \in Range(s) /\ t[i] = s[i]
        BY <1>1, <1>2 DEF Range
    <2>2. t[j] = e
        BY <1>1, <1>4
    <2> QED
        BY <2>1, <2>2 DEF Events
<1> QED
    BY <1>2, <1>3, <1>4

LEMMA InOrderTail ==
    ASSUME NEW S, NEW s \in Seq(S), s # <<>>, InOrder(s)
    PROVE  /\ InOrder(Tail(s))
           /\ Head(s) \in Event => \A x \in Events(Tail(s)) : Head(s) < x
<1> DEFINE t == Tail(s)
<1>1. /\ Len(s) \in Nat \ {0} /\ Head(s) = s[1] /\ DOMAIN s = 1..Len(s)
      /\ DOMAIN t = 1 .. Len(s) - 1
      /\ \A i \in 1 .. Len(s) - 1 : t[i] = s[i + 1]
    OBVIOUS
<1> HIDE DEF t
<1>2. InOrder(t)
    <2> SUFFICES ASSUME NEW i \in DOMAIN t, NEW j \in DOMAIN t, i < j, t[i] \in Event, t[j] \in Event
                 PROVE  t[i] < t[j]
        BY DEF InOrder
    <2>1. i + 1 \in DOMAIN s /\ j + 1 \in DOMAIN s /\ i + 1 < j + 1
          /\ t[i] = s[i + 1] /\ t[j] = s[j + 1]
        BY <1>1
    <2> QED
        BY <2>1 DEF InOrder
<1>3. ASSUME Head(s) \in Event, NEW x \in Events(t) PROVE Head(s) < x
    <2>1. PICK i \in DOMAIN t : x = t[i]
        BY <1>3 DEF Events, Range
    <2>2. 1 \in DOMAIN s /\ i + 1 \in DOMAIN s /\ 1 < i + 1 /\ x = s[i + 1] /\ x \in Event
        BY <1>1, <1>3, <2>1 DEF Events
    <2> QED
        BY <1>1, <1>3, <2>2 DEF InOrder
<1> QED
    BY <1>2, <1>3 DEF t

LEMMA ConcatFacts ==
    ASSUME NEW S, NEW a \in Seq(S), NEW b \in Seq(S), NEW f \in S
    PROVE  LET s == a \o <<f>> \o b
           IN /\ DOMAIN s = 1 .. Len(a) + 1 + Len(b) /\ Len(a) \in Nat /\ Len(b) \in Nat
              /\ DOMAIN a = 1..Len(a) /\ DOMAIN b = 1..Len(b)
              /\ \A i \in 1..Len(a) : s[i] = a[i]
              /\ s[Len(a) + 1] = f
              /\ \A i \in 1..Len(b) : s[Len(a) + 1 + i] = b[i]
<1> DEFINE c == a \o <<f>>
<1>1. /\ c \in Seq(S) /\ Len(c) = Len(a) + 1 /\ Len(a) \in Nat /\ Len(b) \in Nat
      /\ DOMAIN a = 1..Len(a) /\ DOMAIN b = 1..Len(b)
      /\ \A i \in 1..Len(a) : c[i] = a[i]
      /\ c[Len(a) + 1] = f
    OBVIOUS
<1> HIDE DEF c
<1>2. /\ DOMAIN (c \o b) = 1 .. Len(c) + Len(b)
      /\ \A i \in 1..Len(c) : (c \o b)[i] = c[i]
      /\ \A i \in 1..Len(b) : (c \o b)[Len(c) + i] = b[i]
    BY <1>1
<1> QED
    BY <1>1, <1>2 DEF c

\* The parts are in order, and so is the whole.
LEMMA InOrderGiven ==
    ASSUME HubIInv, OrderIInv, NEW k \in Conn, reader[k] # "none"
    PROVE  InOrder(Given(k))
<1> DEFINE a == got[k]
           f == writer[k].frame
           b == send[k]
           s == Given(k)
<1>1. a \in Seq(Event) /\ b \in Seq(Frame) /\ Ordered(k)
    BY DEF HubIInv, ChannelsOK, OrderIInv, ConnectionOK
<1>2. /\ DOMAIN s = 1 .. Len(a) + 1 + Len(b) /\ Len(a) \in Nat /\ Len(b) \in Nat
      /\ DOMAIN a = 1..Len(a) /\ DOMAIN b = 1..Len(b)
      /\ \A i \in 1..Len(a) : s[i] = a[i]
      /\ s[Len(a) + 1] = f
      /\ \A i \in 1..Len(b) : s[Len(a) + 1 + i] = b[i]
    <2>1. /\ a \in Seq(Frame \cup {None}) /\ b \in Seq(Frame \cup {None})
          /\ f \in Frame \cup {None}
        BY <1>1 DEF HubIInv, PumpsOK, Frame
    <2>2. s = a \o <<f>> \o b
        BY DEF Given
    <2> HIDE DEF a, b, f, s
    <2> QED
        BY <2>1, <2>2, ConcatFacts
<1> HIDE DEF a, b, f, s
<1>3. ASSUME NEW n \in DOMAIN s
      PROVE  \/ n \in DOMAIN a /\ s[n] = a[n]
             \/ n = Len(a) + 1 /\ s[n] = f
             \/ n - Len(a) - 1 \in DOMAIN b /\ s[n] = b[n - Len(a) - 1] /\ n > Len(a) + 1
    <2>1. n \in 1..Len(a) \/ n = Len(a) + 1 \/ n \in Len(a) + 2 .. Len(a) + 1 + Len(b)
        BY <1>2
    <2>2. CASE n \in Len(a) + 2 .. Len(a) + 1 + Len(b)
        <3>1. n - Len(a) - 1 \in 1..Len(b) /\ n = Len(a) + 1 + (n - Len(a) - 1)
            BY <1>2, <2>2
        <3> QED
            BY <1>2, <2>2, <3>1
    <2> QED
        BY <1>2, <2>1, <2>2
<1>4. /\ \A n \in DOMAIN a : a[n] \in Range(a)
      /\ \A n \in DOMAIN b : b[n] \in Range(b)
    BY DEF Range
<1>5. /\ InOrder(a) /\ InOrder(b)
      /\ \A x \in Range(a) \cap Event, y \in ({f} \cup Range(b)) \cap Event : x < y
      /\ f \in Event => \A y \in Range(b) \cap Event : f < y
    BY <1>1 DEF Ordered, Events, a, b, f
<1> SUFFICES ASSUME NEW i \in DOMAIN s, NEW j \in DOMAIN s, i < j, s[i] \in Event, s[j] \in Event
             PROVE  s[i] < s[j]
    BY DEF InOrder, s
<1>6. CASE i \in DOMAIN a /\ s[i] = a[i]
    <2>1. CASE j \in DOMAIN a /\ s[j] = a[j]
        BY <1>5, <1>6, <2>1 DEF InOrder
    <2>2. CASE s[j] \in {f} \cup Range(b)
        BY <1>4, <1>5, <1>6, <2>2
    <2> QED
        BY <1>3, <1>4, <2>1, <2>2
<1>7. CASE i = Len(a) + 1 /\ s[i] = f
    <2>1. j - Len(a) - 1 \in DOMAIN b /\ s[j] = b[j - Len(a) - 1]
        BY <1>2, <1>3, <1>7
    <2> QED
        BY <1>4, <1>5, <1>7, <2>1
<1>8. CASE i - Len(a) - 1 \in DOMAIN b /\ s[i] = b[i - Len(a) - 1] /\ i > Len(a) + 1
    <2>1. j - Len(a) - 1 \in DOMAIN b /\ s[j] = b[j - Len(a) - 1]
        BY <1>2, <1>3, <1>8
    <2>2. i - Len(a) - 1 < j - Len(a) - 1
        BY <1>2
    <2> QED
        BY <1>5, <1>8, <2>1, <2>2 DEF InOrder
<1> QED
    BY <1>3, <1>6, <1>7, <1>8

----------------------------------------------------------------------------
(* What a step leaves alone *)

\* Nothing that concerns connection k changes.
Same(k) ==
    /\ reader'[k] = "none" <=> reader[k] = "none"
    /\ UNCHANGED <<got[k], send[k], writer[k], since[k], client[k], fanned[client[k].room]>>
    /\ k \in closed <=> k \in closed'
    /\ k \in fanout.todo <=> k \in fanout'.todo
    /\ k \in fanout.todo => fanout'.event = fanout.event

LEMMA SameOK ==
    ASSUME NEW k \in Conn, ConnectionOK(k), Same(k)
    PROVE  ConnectionOK(k)'
<1>1. Distributed(k)' = Distributed(k) /\ GivenEvents(k)' = GivenEvents(k) /\ Awaited(k)' = Awaited(k)
    BY DEF Same, Distributed, GivenEvents, Awaited
<1>2. Ordered(k)' <=> Ordered(k)
    BY DEF Same, Ordered, InOrder, Events
<1>3. Complete(k)' <=> Complete(k)
    BY <1>1 DEF Same, Complete
<1> QED
    BY <1>1, <1>2, <1>3 DEF Same, ConnectionOK, PumpOK

\* Given(k) is cut into its parts in another way, and pongs come and go.
LEMMA RecutOK ==
    ASSUME NEW k \in Conn, ConnectionOK(k), Ordered(k)', PumpOK(k)', reader[k] # "none", reader'[k] # "none",
           GivenEvents(k)' = GivenEvents(k),
           UNCHANGED <<since, fanned, fanout, closed>>, client'[k] = client[k]
    PROVE  ConnectionOK(k)'
<1>1. Distributed(k)' = Distributed(k) /\ Awaited(k)' = Awaited(k)
    BY DEF Distributed, Awaited
<1>2. Complete(k)' <=> Complete(k)
    BY <1>1 DEF Complete
<1> QED
    BY <1>1, <1>2 DEF ConnectionOK

\* A connection that waits for the hub may change its client record, no more.
LEMMA WaitingOK ==
    ASSUME NEW k \in Conn, ConnectionOK(k), reader[k] = "none", reader'[k] = "none",
           UNCHANGED <<got[k], send[k], writer[k]>>, k \notin fanout'.todo
    PROVE  ConnectionOK(k)'
BY DEF ConnectionOK

LEMMA HubOnlySame ==
    ASSUME OrderIInv, UNCHANGED <<got, queue, events, fanned, fanout>>,
           \A k \in Conn : ConnectionOK(k)'
    PROVE  OrderIInv'
BY DEF OrderIInv, QueueOK, RoundOK

----------------------------------------------------------------------------
(* One lemma per goroutine *)

LEMMA OrderInitOK == HubInit => OrderIInv
<1> SUFFICES ASSUME HubInit PROVE OrderIInv
    OBVIOUS
<1>1. got \in [Conn -> Seq(Event)]
    BY DEF HubInit
<1>2. QueueOK
    BY DEF HubInit, QueueOK, Range
<1>3. RoundOK /\ \A k \in Conn : ConnectionOK(k)
    BY DEF HubInit, RoundOK, ConnectionOK, NoFanout
<1> QED
    BY <1>1, <1>2, <1>3 DEF OrderIInv

LEMMA OutsideKeepsOrder ==
    ASSUME HubIInv, OrderIInv,
           \/ \E r \in Room : IssueWsTicket(r) \/ \E t \in Ticket : ServeWS(t, r)
           \/ \E t \in Ticket : TicketExpires(t)
    PROVE  OrderIInv'
<1>1. UNCHANGED <<got, send, reader, writer, closed, queue, events, since, fanned, fanout>>
    BY DEF IssueWsTicket, TicketExpires, ServeWS, pumpVars
<1>2. ASSUME NEW k \in Conn, reader[k] # "none" PROVE client'[k] = client[k]
    <2>1. CASE client' = client
        BY <2>1
    <2>2. CASE \E t \in Ticket, r \in Room : ServeWS(t, r)
        <3>1. PICK t \in Ticket, r \in Room : ServeWS(t, r)
            BY <2>2
        <3> DEFINE l == CHOOSE l \in {l \in Conn : client[l] = NoClient} : TRUE
        <3>2. /\ l \in Conn /\ client[l] = NoClient
              /\ client' = client \/ client' = [client EXCEPT ![l] = [room |-> r, ticket |-> t]]
            BY <3>1 DEF ServeWS
        <3> HIDE DEF l
        <3>3. k # l
            BY <1>2, <3>2 DEF HubIInv, MembershipOK
        <3> QED
            BY <3>2, <3>3 DEF HubIInv, TicketsOK
    <2> QED
        BY <2>1, <2>2 DEF IssueWsTicket, TicketExpires
<1>3. ASSUME NEW k \in Conn PROVE ConnectionOK(k)'
    <2>1. ConnectionOK(k)
        BY DEF OrderIInv
    <2>2. CASE reader[k] # "none"
        BY <1>1, <1>2, <2>1, <2>2, SameOK DEF Same
    <2>3. CASE reader[k] = "none"
        <3>1. k \notin fanout.todo
            BY <2>3, ServedIsOpen DEF HubIInv
        <3> QED
            BY <1>1, <2>1, <2>3, <3>1, WaitingOK
    <2> QED
        BY <2>2, <2>3
<1> QED
    BY <1>1, <1>3, HubOnlySame

LEMMA ReaderKeepsOrder ==
    ASSUME HubIInv, OrderIInv, NEW k \in Conn,
           ReadFails(k) \/ ReaderCloses(k) \/ PeerBreaks(k)
    PROVE  OrderIInv'
<1>1. /\ reader' = reader
         \/ /\ reader[k] # "none"
            /\ \E pc \in {"leaving", "done"} : reader' = [reader EXCEPT ![k] = pc]
      /\ UNCHANGED <<client, got, send, writer, closed, queue, events, since, fanned, fanout>>
    BY DEF ReadFails, ReaderCloses, PeerBreaks, ReaderUnchanged, WriterUnchanged
<1>2. \A l \in Conn : reader'[l] = "none" <=> reader[l] = "none"
    BY <1>1 DEF HubIInv, MembershipOK
<1>3. ASSUME NEW l \in Conn PROVE ConnectionOK(l)'
    BY <1>1, <1>2, SameOK DEF Same, OrderIInv
<1> QED
    BY <1>1, <1>3, HubOnlySame

\* A pong in the channel is not an event.
LEMMA PingKeepsOrder ==
    ASSUME HubIInv, OrderIInv, NEW k \in Conn, ReadPing(k)
    PROVE  OrderIInv'
<1>1. /\ reader[k] = "reading"
      /\ send' = send \/ send' = [send EXCEPT ![k] = Append(@, Pong)]
      /\ UNCHANGED <<reader, client, got, writer, closed, queue, events, since, fanned, fanout>>
    BY DEF ReadPing, ReaderUnchanged
<1>2. send[k] \in Seq(Frame) /\ Pong \in Frame /\ Pong \notin Event
    BY DEF HubIInv, ChannelsOK, Frame, Event, Pong
<1>3. \A l \in Conn \ {k} : send'[l] = send[l]
    BY <1>1 DEF HubIInv, ChannelsOK
<1>4. send'[k] = send[k] \/ send'[k] = Append(send[k], Pong)
    BY <1>1 DEF HubIInv, ChannelsOK
<1>5. Events(send'[k]) = Events(send[k]) /\ (InOrder(send[k]) => InOrder(send'[k]))
    <2>1. CASE send'[k] = send[k]
        BY <2>1
    <2>2. CASE send'[k] = Append(send[k], Pong)
        <3>1. Range(send'[k]) = Range(send[k]) \cup {Pong}
            BY <1>2, <2>2, RangeAppend
        <3>2. InOrder(send[k]) => InOrder(send'[k])
            BY <1>2, <2>2, InOrderAppend
        <3> QED
            BY <1>2, <3>1, <3>2 DEF Events
    <2> QED
        BY <1>4, <2>1, <2>2
<1>6. ConnectionOK(k)'
    <2>1. Ordered(k) /\ ConnectionOK(k) /\ reader[k] # "none"
        BY <1>1 DEF OrderIInv, ConnectionOK
    <2>2. Ordered(k)' /\ PumpOK(k)'
        BY <1>1, <1>5, <2>1 DEF Ordered, Events, ConnectionOK, PumpOK
    <2>3. GivenEvents(k)' = GivenEvents(k)
        BY <1>1, <1>5 DEF GivenEvents, Events
    <2> QED
        BY <1>1, <2>1, <2>2, <2>3, RecutOK
<1>7. ASSUME NEW l \in Conn \ {k} PROVE ConnectionOK(l)'
    BY <1>1, <1>3, SameOK DEF Same, OrderIInv
<1> QED
    BY <1>1, <1>6, <1>7, HubOnlySame

\* The write pump takes the oldest frame and sends it: the order stays.
LEMMA WriterKeepsOrder ==
    ASSUME HubIInv, OrderIInv, NEW k \in Conn, WritePump(k)
    PROVE  OrderIInv'
<1>1. /\ UNCHANGED <<reader, client, closed, queue, events, since, fanned, fanout>>
      /\ \/ /\ writer[k].pc = "ready" /\ send[k] # <<>>
            /\ writer' = [writer EXCEPT ![k] = [pc |-> "writing", frame |-> Head(send[k])]]
            /\ send' = [send EXCEPT ![k] = Tail(@)]
            /\ got' = got
         \/ /\ got' = IF writer[k].frame = Pong THEN got
                      ELSE [got EXCEPT ![k] = Append(@, writer[k].frame)]
            /\ writer[k].pc = "writing"
            /\ writer' = [writer EXCEPT ![k] = Ready] /\ send' = send
         \/ /\ writer[k].pc \in {"ready", "writing"}
            /\ writer' = [writer EXCEPT ![k].pc = "done"] /\ UNCHANGED <<send, got>>
    BY DEF WritePump, WriterTake, WriterWrites, WriteFails, PingFails, WriterSeesClose,
           WriterEnds, WriterUnchanged
<1>2. reader[k] # "none" /\ ConnectionOK(k) /\ Ordered(k)
    <2>1. writer[k].pc # "none"
        BY <1>1
    <2> QED
        BY <2>1 DEF OrderIInv, ConnectionOK, NoWriter
<1>3. send[k] \in Seq(Frame) /\ got[k] \in Seq(Event) /\ Pong \notin Event /\ None \notin Frame
    BY HubConstants DEF HubIInv, ChannelsOK, OrderIInv, Event, Pong, Frame
<1>4. /\ \A l \in Conn \ {k} : UNCHANGED <<send[l], writer[l], got[l]>>
      /\ got' \in [Conn -> Seq(Event)]
      /\ GivenEvents(k)' = GivenEvents(k) /\ Ordered(k)' /\ PumpOK(k)'
    <2>1. CASE /\ writer[k].pc = "ready" /\ send[k] # <<>>
               /\ writer' = [writer EXCEPT ![k] = [pc |-> "writing", frame |-> Head(send[k])]]
               /\ send' = [send EXCEPT ![k] = Tail(@)]
               /\ got' = got
        <3>1. writer[k].frame = None
            BY <1>2, <2>1 DEF ConnectionOK, PumpOK
        <3>2. /\ writer'[k] = [pc |-> "writing", frame |-> Head(send[k])]
              /\ send'[k] = Tail(send[k])
              /\ \A l \in Conn \ {k} : UNCHANGED <<send[l], writer[l], got[l]>>
            BY <2>1 DEF HubIInv, ChannelsOK, PumpsOK
        <3>3. /\ Range(send[k]) = {Head(send[k])} \cup Range(Tail(send[k]))
              /\ InOrder(send[k]) => InOrder(Tail(send[k]))
              /\ InOrder(send[k]) /\ Head(send[k]) \in Event =>
                    \A x \in Events(Tail(send[k])) : Head(send[k]) < x
              /\ Head(send[k]) \in Frame
            BY <1>3, <2>1, RangeTail, InOrderTail
        <3>4. GivenEvents(k)' = GivenEvents(k)
            BY <1>3, <2>1, <3>1, <3>2, <3>3 DEF GivenEvents, Frame
        <3>5. Ordered(k)'
            BY <1>2, <2>1, <3>2, <3>3 DEF Ordered, Events
        <3> QED
            BY <2>1, <3>2, <3>3, <3>4, <3>5 DEF PumpOK, OrderIInv
    <2>2. CASE /\ got' = IF writer[k].frame = Pong THEN got
                         ELSE [got EXCEPT ![k] = Append(@, writer[k].frame)]
               /\ writer[k].pc = "writing"
               /\ writer' = [writer EXCEPT ![k] = Ready] /\ send' = send
        <3> DEFINE f == writer[k].frame
        <3>1. f \in Frame
            BY <1>2, <2>2 DEF ConnectionOK, PumpOK
        <3>2. writer'[k] = Ready /\ \A l \in Conn \ {k} : writer'[l] = writer[l]
            BY <2>2 DEF HubIInv, PumpsOK
        <3>3. CASE f = Pong
            <4>1. got' = got
                BY <2>2, <3>3
            <4>2. None \notin Event
                BY <1>3 DEF Frame
            <4> QED
                BY <1>2, <1>3, <2>2, <3>2, <3>3, <4>1, <4>2
                   DEF GivenEvents, Ordered, Events, PumpOK, Ready, OrderIInv
        <3>4. CASE f \in Event
            <4>1. got'[k] = Append(got[k], f) /\ got' \in [Conn -> Seq(Event)]
                  /\ \A l \in Conn \ {k} : got'[l] = got[l]
                BY <1>3, <2>2, <3>4 DEF OrderIInv
            <4>2. Range(got'[k]) = Range(got[k]) \cup {f}
                BY <1>3, <3>4, <4>1, RangeAppend
            <4>3. InOrder(got'[k])
                BY <1>2, <1>3, <3>4, <4>1, InOrderAppend DEF Ordered
            <4>4. None \notin Event
                BY <1>3 DEF Frame
            <4>5. GivenEvents(k)' = GivenEvents(k)
                BY <2>2, <3>2, <4>2, <4>4 DEF GivenEvents, Ready
            <4>6. Ordered(k)'
                BY <1>2, <2>2, <3>2, <3>4, <4>2, <4>3, <4>4 DEF Ordered, Events, Ready
            <4> QED
                BY <2>2, <3>2, <4>1, <4>5, <4>6 DEF PumpOK, Ready
        <3> QED
            BY <3>1, <3>3, <3>4 DEF Frame
    <2>3. CASE /\ writer[k].pc \in {"ready", "writing"}
               /\ writer' = [writer EXCEPT ![k].pc = "done"] /\ UNCHANGED <<send, got>>
        <3>1. writer'[k].frame = writer[k].frame /\ writer'[k].pc = "done"
              /\ \A l \in Conn \ {k} : writer'[l] = writer[l]
            BY <2>3 DEF HubIInv, PumpsOK
        <3> QED
            BY <1>2, <2>3, <3>1 DEF GivenEvents, Ordered, Events, PumpOK, OrderIInv
    <2> QED
        BY <1>1, <2>1, <2>2, <2>3
<1>5. ConnectionOK(k)'
    BY <1>1, <1>2, <1>4, RecutOK
<1>6. ASSUME NEW l \in Conn \ {k} PROVE ConnectionOK(l)'
    BY <1>1, <1>4, SameOK DEF Same, OrderIInv
<1> QED
    BY <1>1, <1>4, <1>5, <1>6 DEF OrderIInv, QueueOK, RoundOK

LEMMA RegisterKeepsOrder ==
    ASSUME HubIInv, OrderIInv, NEW k \in Conn, HubRegister(k)
    PROVE  OrderIInv'
<1> DEFINE r == client[k].room
<1>1. /\ reader[k] = "none" /\ fanout = NoFanout
      /\ reader' = [reader EXCEPT ![k] = "reading"]
      /\ writer' = [writer EXCEPT ![k] = Ready]
      /\ since' = [since EXCEPT ![k] = Len(fanned[r])]
      /\ UNCHANGED <<client, send, closed, got, queue, fanout, fanned, events>>
    BY DEF HubRegister, Selecting
<1>2. /\ got[k] = <<>> /\ send[k] = <<>> /\ k \notin closed
    BY <1>1 DEF OrderIInv, ConnectionOK, HubIInv, MembershipOK
<1>3. /\ reader'[k] = "reading" /\ writer'[k] = Ready /\ since'[k] = Len(fanned[r])
      /\ \A l \in Conn \ {k} : UNCHANGED <<reader[l], writer[l], since[l]>>
    BY <1>1 DEF HubIInv, MembershipOK, PumpsOK, CountsOK
<1>4. None \notin Event /\ r \in Room /\ Len(fanned[r]) \in Nat
    <2>1. r \in Room
        BY <1>1 DEF HubRegister, HubIInv, TicketsOK
    <2>2. fanned[r] \in Seq(Event)
        BY <2>1 DEF HubIInv, CountsOK
    <2> QED
        BY <2>1, <2>2, HubConstants DEF Event
<1>5. ConnectionOK(k)'
    <2>1. Range(<<>>) = {} /\ \A x : x \notin Events(<<>>)
        BY DEF Events, Range
    <2>2. GivenEvents(k)' = {}
        BY <1>1, <1>2, <1>3, <1>4, <2>1 DEF GivenEvents, Ready
    <2>3. Distributed(k)' = {}
        BY <1>1, <1>3, <1>4 DEF Distributed
    <2>4. PumpOK(k)' /\ Ordered(k)'
        BY <1>1, <1>2, <1>3, <1>4, <2>1 DEF PumpOK, Ordered, InOrder, Events, Ready
    <2>5. Complete(k)'
        BY <1>1, <1>2, <2>2, <2>3 DEF Complete
    <2> QED
        BY <1>1, <1>3, <1>4, <2>4, <2>5 DEF ConnectionOK, NoFanout
<1>6. ASSUME NEW l \in Conn \ {k} PROVE ConnectionOK(l)'
    BY <1>1, <1>3, SameOK DEF Same, OrderIInv
<1> QED
    BY <1>1, <1>5, <1>6, HubOnlySame

\* A client that is removed has been given everything so far.
LEMMA UnregisterKeepsOrder ==
    ASSUME HubIInv, OrderIInv, NEW k \in Conn, HubUnregister(k)
    PROVE  OrderIInv'
<1>1. /\ reader[k] = "leaving" /\ fanout = NoFanout
      /\ reader' = [reader EXCEPT ![k] = "closing"]
      /\ closed' = closed \/ closed' = closed \cup {k}
      /\ UNCHANGED <<client, send, writer, got, queue, fanout, fanned, since, events>>
    BY DEF HubUnregister, Selecting, Unregister, Close
<1>2. \A l \in Conn : reader'[l] = "none" <=> reader[l] = "none"
    BY <1>1 DEF HubIInv, MembershipOK
<1>3. ConnectionOK(k)'
    <2>1. Ordered(k) /\ PumpOK(k) /\ ConnectionOK(k) /\ Complete(k)
        BY <1>1 DEF OrderIInv, ConnectionOK
    <2>2. Distributed(k)' = Distributed(k) /\ GivenEvents(k)' = GivenEvents(k)
          /\ Awaited(k) = {} /\ Awaited(k)' = {}
        BY <1>1 DEF Distributed, GivenEvents, Awaited, NoFanout
    <2>3. Complete(k)'
        BY <1>1, <2>1, <2>2 DEF Complete
    <2>4. Ordered(k)' /\ PumpOK(k)'
        BY <1>1, <2>1 DEF Ordered, PumpOK
    <2> QED
        BY <1>1, <1>2, <2>1, <2>2, <2>3, <2>4 DEF ConnectionOK
<1>4. ASSUME NEW l \in Conn \ {k} PROVE ConnectionOK(l)'
    BY <1>1, <1>2, SameOK DEF Same, OrderIInv
<1> QED
    BY <1>1, <1>3, <1>4, HubOnlySame

LEMMA BroadcastKeepsOrder ==
    ASSUME HubIInv, OrderIInv, NEW r \in Room, Broadcast(r)
    PROVE  OrderIInv'
<1> DEFINE m == [event |-> events + 1, room |-> r, todo |-> {}]
<1>1. /\ events < MaxEvents /\ events' = events + 1 /\ queue' = Append(queue, m)
      /\ UNCHANGED <<client, send, closed, reader, writer, got, fanout, fanned, since>>
    BY DEF Broadcast, pumpVars
<1>2. /\ events \in Nat /\ m \in Round /\ m.event = events + 1
    BY <1>1, HubConstants DEF HubIInv, CountsOK, Round, Event
<1> HIDE DEF m
<1>3. /\ Len(queue) \in Nat /\ DOMAIN queue = 1..Len(queue) /\ DOMAIN queue' = 1 .. Len(queue) + 1
      /\ \A i \in 1..Len(queue) : queue'[i] = queue[i]
      /\ queue'[Len(queue) + 1] = m
    BY <1>1, <1>2 DEF HubIInv, ChannelsOK
<1>4. ASSUME NEW i \in DOMAIN queue'
      PROVE  \/ i \in DOMAIN queue /\ queue'[i] = queue[i] /\ i <= Len(queue)
             \/ i = Len(queue) + 1 /\ queue'[i].event = events + 1
    BY <1>2, <1>3
<1>5. /\ \A i \in DOMAIN queue : queue[i].event \in Nat
      /\ \A q \in Room : \A e \in Range(fanned[q]) : e \in Nat
    <2>1. \A i \in DOMAIN queue : queue[i] \in Round
        BY DEF HubIInv, ChannelsOK
    <2>2. \A q \in Room : fanned[q] \in Seq(Event)
        BY DEF HubIInv, CountsOK
    <2>3. \A q \in Room : Range(fanned[q]) \subseteq Event
        BY <2>2 DEF Range
    <2>4. Event \subseteq Nat
        BY HubConstants DEF Event
    <2> QED
        BY <2>1, <2>3, <2>4 DEF Round
<1>6. QueueOK'
    <2>1. ASSUME NEW i \in DOMAIN queue', NEW j \in DOMAIN queue', i < j
          PROVE  queue'[i].event < queue'[j].event
        <3>1. i \in DOMAIN queue /\ queue'[i] = queue[i]
            BY <1>3, <1>4, <2>1
        <3>2. CASE j \in DOMAIN queue /\ queue'[j] = queue[j]
            BY <2>1, <3>1, <3>2 DEF OrderIInv, QueueOK
        <3>3. CASE queue'[j].event = events + 1
            <4>1. queue[i].event <= events /\ queue[i].event \in Nat
                BY <1>5, <3>1 DEF OrderIInv, QueueOK
            <4> QED
                BY <1>2, <3>1, <3>3, <4>1
        <3> QED
            BY <1>4, <3>2, <3>3
    <2>2. ASSUME NEW i \in DOMAIN queue' PROVE queue'[i].event <= events'
        <3>1. CASE i \in DOMAIN queue /\ queue'[i] = queue[i]
            <4>1. queue[i].event <= events /\ queue[i].event \in Nat
                BY <1>5, <3>1 DEF OrderIInv, QueueOK
            <4> QED
                BY <1>1, <1>2, <3>1, <4>1
        <3>2. CASE queue'[i].event = events + 1
            BY <1>1, <1>2, <3>2
        <3> QED
            BY <1>4, <3>1, <3>2
    <2>3. ASSUME NEW q \in Room, NEW e \in Range(fanned[q])
          PROVE  e <= events' /\ e < events + 1
        <3>1. e <= events /\ e \in Nat
            BY <1>5 DEF OrderIInv, QueueOK
        <3> QED
            BY <1>1, <1>2, <3>1
    <2>4. ASSUME NEW q \in Room, NEW e \in Range(fanned[q]), NEW i \in DOMAIN queue'
          PROVE  e < queue'[i].event
        <3>1. CASE i \in DOMAIN queue /\ queue'[i] = queue[i]
            BY <3>1 DEF OrderIInv, QueueOK
        <3> QED
            BY <1>4, <2>3, <3>1
    <2> QED
        BY <1>1, <2>1, <2>2, <2>3, <2>4 DEF QueueOK
<1>7. ASSUME NEW l \in Conn PROVE ConnectionOK(l)'
    BY <1>1, SameOK DEF Same, OrderIInv
<1> QED
    BY <1>1, <1>6, <1>7 DEF OrderIInv, RoundOK

\* The event taken is newer than all of its room, and becomes the newest. Whoever is
\* in the room has still to get it.
LEMMA TakeKeepsOrder ==
    ASSUME HubIInv, OrderIInv, HubTake
    PROVE  OrderIInv'
<1> DEFINE m == Head(queue)
<1>1. /\ queue # <<>> /\ fanout = NoFanout /\ queue' = Tail(queue)
      /\ fanned' = [fanned EXCEPT ![m.room] = Append(@, m.event)]
      /\ fanout' = IF rooms[m.room] = {} THEN NoFanout
                   ELSE [m EXCEPT !.todo = rooms[m.room]]
      /\ UNCHANGED <<client, send, closed, reader, writer, got, since, events, rooms>>
    BY DEF HubTake, Selecting, pumpVars
<1>2. queue \in Seq(Round)
    BY DEF HubIInv, ChannelsOK
<1>3. /\ Len(queue) \in Nat \ {0} /\ m = queue[1] /\ m \in Round
      /\ DOMAIN queue = 1..Len(queue) /\ DOMAIN queue' = 1 .. Len(queue) - 1
      /\ \A i \in DOMAIN queue' : queue'[i] = queue[i + 1] /\ i + 1 \in DOMAIN queue
    BY <1>1, <1>2
<1> HIDE DEF m
<1>4. m.room \in Room /\ m.event \in Event /\ 1 \in DOMAIN queue
    BY <1>3 DEF Round
<1>5. \A r \in Room : fanned[r] \in Seq(Event) /\ Len(fanned[r]) \in Nat
    BY DEF HubIInv, CountsOK
<1>6. /\ fanned'[m.room] = Append(fanned[m.room], m.event)
      /\ \A r \in Room \ {m.room} : fanned'[r] = fanned[r]
    BY <1>1, <1>4 DEF HubIInv, CountsOK
<1>7. /\ Range(fanned'[m.room]) = Range(fanned[m.room]) \cup {m.event}
      /\ \A e \in Range(fanned[m.room]) : e < m.event
      /\ m.event <= events
    <2>1. Range(Append(fanned[m.room], m.event)) = Range(fanned[m.room]) \cup {m.event}
        BY <1>4, <1>5, RangeAppend
    <2> QED
        BY <1>3, <1>4, <1>6, <2>1 DEF OrderIInv, QueueOK
<1>8. QueueOK'
    <2>1. ASSUME NEW i \in DOMAIN queue'
          PROVE  /\ i + 1 \in DOMAIN queue /\ queue'[i] = queue[i + 1] /\ i \in Nat
                 /\ m.event < queue'[i].event
        <3>1. i + 1 \in DOMAIN queue /\ queue'[i] = queue[i + 1] /\ i \in Nat /\ 1 < i + 1
            BY <1>3
        <3> QED
            BY <1>3, <1>4, <3>1 DEF OrderIInv, QueueOK
    <2>2. ASSUME NEW i \in DOMAIN queue', NEW j \in DOMAIN queue', i < j
          PROVE  queue'[i].event < queue'[j].event
        <3>1. i + 1 < j + 1
            BY <2>1, <2>2
        <3> QED
            BY <2>1, <3>1 DEF OrderIInv, QueueOK
    <2>3. \A r \in Room : \A e \in Range(fanned'[r]) : e \in Range(fanned[r]) \/ e = m.event
        BY <1>6, <1>7
    <2>4. \A i \in DOMAIN queue' : queue'[i].event <= events
        BY <2>1 DEF OrderIInv, QueueOK
    <2>5. \A r \in Room : \A e \in Range(fanned'[r]) : e <= events
        BY <1>7, <2>3 DEF OrderIInv, QueueOK
    <2>6. \A r \in Room : \A e \in Range(fanned'[r]), i \in DOMAIN queue' : e < queue'[i].event
        BY <2>1, <2>3 DEF OrderIInv, QueueOK
    <2>7. events' = events
        BY <1>1
    <2> QED
        BY <2>2, <2>4, <2>5, <2>6, <2>7 DEF QueueOK
<1>9. /\ fanout' = NoFanout \/ (fanout'.event = m.event /\ fanout'.room = m.room)
      /\ fanout'.todo = rooms[m.room]
      /\ fanout'.todo # {} => fanout'.event = m.event
    BY <1>1, <1>3 DEF Round, NoFanout
<1>10. RoundOK'
    <2>1. m.event \in Nat /\ m.event <= m.event
        BY <1>4, HubConstants DEF Event
    <2>2. \A e \in Range(fanned'[m.room]) : e <= m.event
        <3>1. \A e \in Range(fanned[m.room]) : e \in Event
            BY <1>4, <1>5 DEF Range
        <3>2. \A e \in Event : e < m.event => e <= m.event
            BY <2>1 DEF Event
        <3> QED
            BY <1>7, <2>1, <3>1, <3>2
    <2> QED
        BY <1>9, <2>2 DEF RoundOK
<1>11. ASSUME NEW l \in Conn PROVE ConnectionOK(l)'
    <2> DEFINE r == client[l].room
               d == Distributed(l)
    <2>1. ConnectionOK(l) /\ Awaited(l) = {}
        BY <1>1 DEF OrderIInv, Awaited, NoFanout
    <2>2. CASE reader[l] = "none"
        <3>1. l \notin fanout'.todo
            BY <1>4, <1>9, <2>2 DEF HubIInv, MembershipOK
        <3> QED
            BY <1>1, <2>1, <2>2, <3>1, WaitingOK
    <2>3. CASE reader[l] # "none" /\ r # m.room
        <3>1. l \notin fanout'.todo /\ l \notin fanout.todo
            BY <1>1, <1>4, <1>9, <2>3 DEF HubIInv, MembershipOK, NoFanout
        <3>2. fanned'[r] = fanned[r]
            <4>1. r \in Room
                BY <2>3 DEF HubIInv, MembershipOK, TicketsOK
            <4> QED
                BY <1>6, <2>3, <4>1
        <3> QED
            BY <1>1, <2>1, <3>1, <3>2, SameOK DEF Same
    <2>4. CASE reader[l] # "none" /\ r = m.room
        <3>1. /\ since[l] <= Len(fanned[r]) /\ Ordered(l) /\ PumpOK(l) /\ Complete(l)
            BY <2>1, <2>4 DEF ConnectionOK
        <3>2. since[l] \in Nat /\ r \in Room /\ Len(fanned[r]) \in Nat
            BY <1>4, <1>5, <2>4, HubConstants DEF HubIInv, CountsOK
        <3>3. /\ Len(fanned'[r]) = Len(fanned[r]) + 1
              /\ \A i \in 1..Len(fanned[r]) : fanned'[r][i] = fanned[r][i]
              /\ fanned'[r][Len(fanned[r]) + 1] = m.event
            BY <1>4, <1>5, <1>6, <2>4
        <3>4. Distributed(l)' = d \cup {m.event} /\ \A e \in d : e < m.event
            <4> DEFINE n == Len(fanned[r])
            <4>1. since[l] + 1 .. n + 1 = (since[l] + 1 .. n) \cup {n + 1}
                BY <3>1, <3>2
            <4>2. Distributed(l)' = {fanned'[r][i] : i \in since[l] + 1 .. n + 1}
                BY <1>1, <3>3 DEF Distributed
            <4>3. d = {fanned[r][i] : i \in since[l] + 1 .. n}
                BY DEF Distributed
            <4>4. \A i \in since[l] + 1 .. n : i \in 1..n /\ fanned'[r][i] = fanned[r][i]
                BY <3>2, <3>3
            <4>5. d \subseteq Range(fanned[r])
                BY <1>5, <3>2, <4>3, <4>4 DEF Range
            <4>6. fanned'[r][n + 1] = m.event
                BY <3>3
            <4>7. \A e \in d : e < m.event
                BY <1>7, <2>4, <4>5
            <4> HIDE DEF n, d, r
            <4>8. {fanned'[r][i] : i \in since[l] + 1 .. n + 1}
                     = {fanned'[r][i] : i \in since[l] + 1 .. n} \cup {fanned'[r][n + 1]}
                BY <4>1
            <4>9. {fanned'[r][i] : i \in since[l] + 1 .. n} = d
                BY <4>3, <4>4
            <4> QED
                BY <4>2, <4>6, <4>7, <4>8, <4>9
        <3>5. m.event \notin d
            BY <1>4, <3>4, HubConstants DEF Event
        <3>6. GivenEvents(l)' = GivenEvents(l) /\ Ordered(l)' /\ PumpOK(l)'
            BY <1>1, <3>1 DEF GivenEvents, Ordered, PumpOK
        <3>7. l \in fanout'.todo <=> l \notin closed
            BY <1>9, <2>4 DEF HubIInv, MembershipOK
        <3>8. Complete(l)'
            <4>1. CASE l \notin closed
                <5>1. Awaited(l)' = {m.event} /\ GivenEvents(l) = d
                    BY <1>9, <2>1, <3>1, <3>7, <4>1 DEF Awaited, Complete
                <5> HIDE DEF d
                <5> QED
                    BY <1>1, <3>4, <3>5, <3>6, <4>1, <5>1 DEF Complete
            <4>2. CASE l \in closed
                <5>1. /\ GivenEvents(l) \subseteq d
                      /\ \A e \in d, g \in GivenEvents(l) : e < g => e \in GivenEvents(l)
                    BY <3>1, <4>2 DEF Complete
                <5>2. \A g \in GivenEvents(l) : ~(m.event < g)
                    <6>1. GivenEvents(l) \subseteq Event /\ \A g \in GivenEvents(l) : g < m.event
                        BY <3>4, <5>1 DEF GivenEvents
                    <6> QED
                        BY <1>4, <6>1, HubConstants DEF Event
                <5> HIDE DEF d
                <5> QED
                    BY <1>1, <3>4, <3>6, <4>2, <5>1, <5>2 DEF Complete
            <4> QED
                BY <4>1, <4>2
        <3>9. since'[l] <= Len(fanned'[client'[l].room])
            BY <1>1, <3>1, <3>2, <3>3
        <3>10. l \in fanout'.todo => fanout'.event \in Distributed(l)'
            BY <1>9, <3>4
        <3> QED
            BY <1>1, <2>4, <3>6, <3>8, <3>9, <3>10 DEF ConnectionOK
    <2> QED
        BY <2>2, <2>3, <2>4
<1> QED
    BY <1>1, <1>8, <1>10, <1>11 DEF OrderIInv

\* The event distributed is the newest of the room: it goes to the end of the channel,
\* or it is what a client that is cut off does not get.
LEMMA DistributeKeepsOrder ==
    ASSUME HubIInv, OrderIInv, NEW k \in Conn, HubDistribute(k)
    PROVE  OrderIInv'
<1> DEFINE r == fanout.room
           v == fanout.event
           d == Distributed(k)
           g == GivenEvents(k)
<1>1. /\ k \in fanout.todo
      /\ fanout' = IF fanout.todo = {k} THEN NoFanout ELSE [fanout EXCEPT !.todo = @ \ {k}]
      /\ UNCHANGED <<client, reader, writer, got, queue, fanned, since, events>>
    BY DEF HubDistribute
<1>2. /\ k \notin closed /\ reader[k] # "none" /\ client[k].room = r /\ r \in Room
      /\ fanout \in Round /\ v \in Event /\ fanout # NoFanout
    BY <1>1, ServedIsOpen, RoundFacts DEF HubIInv
<1>3. \/ send' = [send EXCEPT ![k] = Append(@, v)] /\ closed' = closed
      \/ send' = send /\ closed' = closed \cup {k}
    BY <1>2 DEF HubDistribute, HubSend, Close
<1>4. /\ k \notin fanout'.todo
      /\ fanout' = NoFanout \/ (fanout'.event = v /\ fanout'.room = r)
      /\ \A l \in Conn \ {k} : /\ l \in fanout.todo <=> l \in fanout'.todo
                               /\ l \in fanout.todo => fanout'.event = v
    <2>1. CASE fanout.todo = {k}
        <3>1. fanout' = NoFanout /\ NoFanout.todo = {}
            BY <1>1, <2>1 DEF NoFanout
        <3> QED
            BY <2>1, <3>1
    <2>2. CASE fanout.todo # {k}
        <3>1. fanout' = [fanout EXCEPT !.todo = @ \ {k}]
            BY <1>1, <2>2
        <3>2. fanout'.todo = fanout.todo \ {k} /\ fanout'.event = v /\ fanout'.room = r
            BY <1>2, <3>1 DEF Round
        <3> QED
            BY <3>2
    <2> QED
        BY <2>1, <2>2
<1>5. ConnectionOK(k) /\ Ordered(k) /\ PumpOK(k) /\ v \in d /\ g = d \ {v}
    <2>1. Awaited(k) = {v}
        BY <1>1 DEF Awaited
    <2> QED
        BY <1>1, <1>2, <2>1 DEF OrderIInv, ConnectionOK, Complete
<1>6. \A e \in d : e <= v /\ e \in Nat
    <2>1. fanned[r] \in Seq(Event) /\ since[k] \in Nat
        BY <1>2, HubConstants DEF HubIInv, CountsOK
    <2>2. d \subseteq Range(fanned[r]) /\ Range(fanned[r]) \subseteq Event
        BY <1>2, <2>1 DEF Distributed, Range
    <2>3. Event \subseteq Nat
        BY HubConstants DEF Event
    <2> QED
        BY <1>2, <2>2, <2>3 DEF OrderIInv, RoundOK
<1>7. v \in Nat /\ \A e \in g : e < v
    <2> HIDE DEF d, g, v
    <2>1. \A e, f \in Nat : e <= f /\ e # f => e < f
        OBVIOUS
    <2> QED
        BY <1>5, <1>6, <2>1
<1>8. Distributed(k)' = d /\ Awaited(k)' = {}
    BY <1>1, <1>4 DEF Distributed, Awaited
<1>9. send[k] \in Seq(Frame) /\ v \in Frame
    BY <1>2 DEF HubIInv, ChannelsOK, Frame
<1>10. ConnectionOK(k)'
    <2>1. CASE send' = [send EXCEPT ![k] = Append(@, v)] /\ closed' = closed
        <3>1. send'[k] = Append(send[k], v) /\ Range(send'[k]) = Range(send[k]) \cup {v}
            BY <1>9, <2>1, RangeAppend DEF HubIInv, ChannelsOK
        <3>2. GivenEvents(k)' = g \cup {v}
            BY <1>1, <1>2, <3>1 DEF GivenEvents
        <3>3. \A e \in Events(got[k]) \cup Events(send[k]) : e < v
            BY <1>7 DEF GivenEvents, Events
        <3>4. writer[k].frame \in Event => writer[k].frame < v
            BY <1>7 DEF GivenEvents
        <3>5. InOrder(send'[k])
            BY <1>5, <1>9, <3>1, <3>3, InOrderAppend DEF Ordered
        <3>6. Ordered(k)' /\ PumpOK(k)'
            BY <1>1, <1>5, <3>1, <3>3, <3>4, <3>5 DEF Ordered, Events, PumpOK
        <3>7. Complete(k)'
            BY <1>2, <1>5, <1>8, <2>1, <3>2 DEF Complete
        <3> QED
            BY <1>1, <1>2, <1>4, <1>5, <3>6, <3>7 DEF ConnectionOK
    <2>2. CASE send' = send /\ closed' = closed \cup {k}
        <3>1. GivenEvents(k)' = g /\ Ordered(k)' /\ PumpOK(k)'
            BY <1>1, <1>5, <2>2 DEF GivenEvents, Ordered, PumpOK
        <3>2. \A e \in d, f \in g : e < f => e \in g
            <4> HIDE DEF d, g, v
            <4>1. ASSUME NEW e \in d, NEW f \in g, e < f PROVE e # v
                BY <1>5, <1>6, <1>7, <4>1
            <4> QED
                BY <1>5, <4>1
        <3>3. Complete(k)'
            BY <1>5, <1>8, <2>2, <3>1, <3>2 DEF Complete
        <3> QED
            BY <1>1, <1>2, <1>4, <1>5, <3>1, <3>3 DEF ConnectionOK
    <2> QED
        BY <1>3, <2>1, <2>2
<1>11. ASSUME NEW l \in Conn \ {k} PROVE ConnectionOK(l)'
    <2>1. send'[l] = send[l]
        BY <1>3 DEF HubIInv, ChannelsOK
    <2>2. l \in closed <=> l \in closed'
        BY <1>3
    <2>3. Same(l)
        <3>1. UNCHANGED <<reader[l], got[l], writer[l], since[l], client[l], fanned[client[l].room]>>
            BY <1>1
        <3>2. /\ l \in fanout.todo <=> l \in fanout'.todo
              /\ l \in fanout.todo => fanout'.event = fanout.event
            BY <1>4
        <3> QED
            BY <2>1, <2>2, <3>1, <3>2 DEF Same
    <2> QED
        BY <2>3, SameOK DEF OrderIInv
<1>12. RoundOK'
    BY <1>1, <1>2, <1>4 DEF OrderIInv, RoundOK
<1> QED
    BY <1>1, <1>10, <1>11, <1>12 DEF OrderIInv, QueueOK

----------------------------------------------------------------------------

LEMMA OrderStepOK == HubIInv /\ OrderIInv /\ [HubNext]_hubVars => OrderIInv'
<1> SUFFICES ASSUME HubIInv, OrderIInv, [HubNext]_hubVars PROVE OrderIInv'
    OBVIOUS
<1>1. CASE \E r \in Room : IssueWsTicket(r) \/ \E t \in Ticket : ServeWS(t, r)
    BY <1>1, OutsideKeepsOrder
<1>2. CASE \E t \in Ticket : TicketExpires(t)
    BY <1>2, OutsideKeepsOrder
<1>3. CASE \E r \in Room : Broadcast(r)
    BY <1>3, BroadcastKeepsOrder
<1>4. CASE Hub
    BY <1>4, RegisterKeepsOrder, UnregisterKeepsOrder, TakeKeepsOrder, DistributeKeepsOrder DEF Hub
<1>5. CASE \E k \in Conn : ReadPump(k) \/ PeerBreaks(k)
    BY <1>5, PingKeepsOrder, ReaderKeepsOrder DEF ReadPump
<1>6. CASE \E k \in Conn : WritePump(k)
    BY <1>6, WriterKeepsOrder
<1>7. CASE UNCHANGED hubVars
    <2>1. UNCHANGED <<client, got, send, writer, reader, closed, queue, events, since, fanned, fanout>>
        BY <1>7 DEF hubVars, pumpVars
    <2>2. ASSUME NEW k \in Conn PROVE ConnectionOK(k)'
        BY <2>1, SameOK DEF Same, OrderIInv
    <2> QED
        BY <2>1, <2>2, HubOnlySame
<1> QED
    BY <1>1, <1>2, <1>3, <1>4, <1>5, <1>6, <1>7 DEF HubNext

\* What every connection was given, tied to what waits in the queue and to the round of
\* HubDistribute under way.
THEOREM OrderInvariant == HubSpec => []OrderIInv
<1>1. HubIInv /\ OrderIInv /\ [HubNext]_hubVars => OrderIInv'
    BY OrderStepOK
<1> QED
    BY <1>1, OrderInitOK, HubInvariant, PTL DEF HubSpec

\* HubSend gives a browser every event of its room, once and in order, until it is cut
\* off, and nothing after that.
THEOREM NoGaps == HubSpec => []NoGapWithinConnection
<1>1. HubIInv /\ OrderIInv => NoGapWithinConnection
    <2> SUFFICES ASSUME HubIInv, OrderIInv, NEW k \in Conn, reader[k] # "none"
                 PROVE  InOrder(Given(k)) /\ Complete(k)
        BY DEF NoGapWithinConnection, Complete, Awaited
    <2> QED
        BY InOrderGiven DEF OrderIInv, ConnectionOK
<1> QED
    BY <1>1, OrderInvariant, HubInvariant, PTL
=============================================================================
