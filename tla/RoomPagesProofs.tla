-------------------------- MODULE RoomPagesProofs --------------------------
(***************************************************************************)
(* Theorems about Rooms and RoomPages, for any number of users, requests   *)
(* and answers under way. The room service lets any manager remove the     *)
(* owner; that no page leads there rests on what the query cache and the   *)
(* dialogs of the tab hold while the room changes, which is the invariant. *)
(* A second one, about a tab whose user is the only one to act, says that  *)
(* its pages come to show the room as it is.                               *)
(***************************************************************************)
EXTENDS RoomPages, TLAPS

Kinds    == {"create", "update", "delete", "pop", "kick", "role", "invite", "join"}
Statuses == {"none", "ok", "invalid", "notFound", "forbidden", "popped", "conflict", "lost"}
Progress == {"none", "sent", "checked", "writing", "joined", "answered"}

Creation == [settings : Settings, popAt : {"none", "future", "due"}]
Values   == Settings \cup Creation \cup {None, "member", "admin", "single", "many"}

Calls ==
    [pc : Progress, kind : Kinds \cup {"none"}, by : User \cup {None},
     target : User \cup {None}, value : Values, status : Statuses, seen : BOOLEAN]

\* A request has a kind, and values of that kind.
Proper(q) ==
    /\ q.pc # "none" => q.kind \in Kinds
    /\ q.kind = "create" => q.by \in User /\ q.value \in Creation
    /\ q.kind = "join" => q.by \in User
    /\ q.kind = "update" => q.value \in Settings

\* Past its check there is a room.
Past(q) == q.pc \in {"writing", "joined"} \/ (q.pc = "checked" /\ q.kind # "create")

RoomsTypeOK ==
    /\ room # None => room \in RoomRow
    /\ members = [u \in User |-> members[u]]
    /\ call \in [Slot -> Calls]
    /\ \A s \in Slot : Proper(call[s])
    /\ \A s \in Slot : Past(call[s]) => room # None

Entries ==
    [pc : {"idle", "asked", "read"}, data : RoomData \cup {None},
     read : RoomData \cup {None}, stale : BOOLEAN, overtaken : BOOLEAN]

Tabs ==
    [page : {"home", "chat", "settings", "invite"},
     dialog : {"none", "create", "delete", "kick", "members", "invite"},
     target : User \cup {None}, autoPop : BOOLEAN,
     inviteUrl : Values \cup {"none"}, generating : Slot \cup {None},
     notice : Statuses \cup {"updated", "error"}]

PagesTypeOK ==
    /\ query = [k \in Query |-> query[k]]
    /\ query["room"] \in Entries
    /\ tab \in Tabs

\* There is a room, or it is gone; a user who is not its owner, while it is there.
There     == room # None
Gone      == room # None /\ room.deleted
Spared(u) == There /\ (room.deleted \/ u # room.owner)

\* A request of one of the two kinds that could hurt the owner spares them, in any
\* case once it has seen the room open, and a success that leads to the chat page
\* means that there is a room.
CallSafe(q) ==
    /\ q.kind \in {"kick", "role"} /\ q.pc = "sent" => Spared(q.target)
    /\ q.kind \in {"kick", "role"} /\ q.pc \in {"checked", "writing"} =>
          There /\ q.target # room.owner
    /\ q.kind \in {"create", "join"} /\ q.pc = "answered" /\ q.status = "ok" => There

\* The cached room names the owner; that there is none is only answered later.
EntrySafe(e) ==
    /\ e.data # None => There /\ e.data.owner = room.owner
    /\ e.pc = "asked" => There
    /\ e.pc = "read" => IF e.read = None THEN Gone
                        ELSE There /\ e.read.owner = room.owner

\* A page of the room without the room: it has been deleted, or is being fetched.
PageSafe(p, e) ==
    p \in RoomPage => There /\ (e.pc = "idle" /\ e.data = None => Gone)

OwnerSafe ==
    /\ There => Manager(room.owner)
    /\ \A s \in Slot : CallSafe(call[s])
    /\ EntrySafe(query["room"])
    /\ PageSafe(tab.page, query["room"])
    /\ tab.target # None => Spared(tab.target)

RoomIInv == RoomsTypeOK /\ PagesTypeOK /\ (~failed => OwnerSafe)

----------------------------------------------------------------------------
(* The room *)

\* A room stays, with its owner, and does not come back once it is deleted.
Later ==
    There => There' /\ room'.owner = room.owner /\ (room.deleted => room'.deleted)

LEMMA SameRoomIsLater ==
    ASSUME room' = room
    PROVE  Later
BY DEF Later, There

\* What was safe for the room is safe for what becomes of it.
LEMMA SafeLater ==
    ASSUME Later
    PROVE  /\ \A u : Spared(u) => Spared(u)'
           /\ Gone => Gone'
           /\ There => There'
           /\ \A e : EntrySafe(e) => (EntrySafe(e))'
           /\ \A page, e : PageSafe(page, e) => (PageSafe(page, e))'
BY DEF Later, Spared, Gone, There, EntrySafe, PageSafe

\* A room that is popped or deleted keeps its row.
Kept == Closed => room' = [room EXCEPT !.popAt = room'.popAt]

LEMMA SameRoomIsKept ==
    ASSUME RoomsTypeOK, room' = room
    PROVE  Kept
<1> SUFFICES ASSUME room # None PROVE room = [room EXCEPT !.popAt = room.popAt]
    BY DEF Kept, Closed
<1> QED
    BY DEF RoomsTypeOK, RoomRow

\* Nothing changes but requests, none of which starts a statement.
LEMMA SameRoomStays ==
    ASSUME RoomsTypeOK, UNCHANGED <<room, members>>,
           \A s \in Slot : call'[s].pc = "writing" /\ Closed => call[s].pc = "writing"
    PROVE  StaysButForLateCommits
BY SameRoomIsKept DEF Kept, StaysButForLateCommits

\* The WHERE clauses of the statements, whatever was checked before. A statement on a
\* member is for one row, and is the only kind that changes a member of a closed room.
LEMMA StatementFacts ==
    ASSUME RoomsTypeOK, NEW q \in Calls, Proper(q), q.pc \in {"checked", "writing"},
           Statement(q), q.kind # "create" => room # None
    PROVE  /\ room' # None => room' \in RoomRow
           /\ members' = [u \in User |-> members'[u]]
           /\ Later /\ Kept
           /\ Closed /\ q.kind \notin MemberKinds => members' = members
           /\ q.kind \in MemberKinds => \A u \in User \ {Row(q)} : members'[u] = members[u]
           /\ q.kind = "create" => There'
           /\ CallSafe(q) /\ (There => Manager(room.owner)) =>
                 (There' => Manager(room.owner)')
<1>1. q.kind \in Kinds
    BY DEF Proper
<1>2. CASE q.kind = "create"
    <2>1. room = None /\ CreateRoom(q)
        BY <1>2 DEF Statement
    <2>2. q.by \in User /\ q.value \in Creation
        BY <1>2 DEF Proper
    <2>3. room' \in RoomRow /\ room'.owner = q.by
        BY <2>1, <2>2 DEF CreateRoom, RoomRow, Creation
    <2>4. members' = [u \in User |-> IF u = q.by THEN "admin" ELSE "none"]
        BY <2>1 DEF CreateRoom
    <2> QED
        BY <1>2, <2>1, <2>2, <2>3, <2>4, RoomConstants
           DEF Later, Kept, Closed, There, Manager, MemberKinds
<1>3. CASE q.kind = "update"
    <2>1. UpdateRoom(q) /\ q.value \in Settings
        BY <1>3 DEF Statement, Proper
    <2>2. room # None /\ ~Closed /\ room \in RoomRow
        BY <2>1 DEF UpdateRoom, Writable, Open, Found, Closed, RoomsTypeOK
    <2>3. room' \in RoomRow /\ room'.owner = room.owner /\ room'.deleted = room.deleted
        BY <2>1, <2>2 DEF UpdateRoom, RoomRow
    <2> QED
        BY <1>3, <2>1, <2>2, <2>3, RoomConstants
           DEF UpdateRoom, Later, Kept, There, Manager, RoomsTypeOK, MemberKinds
<1>4. CASE q.kind = "delete"
    <2>1. DeleteRoom
        BY <1>4 DEF Statement
    <2>2. room # None /\ room \in RoomRow /\ ~room.popped
        BY <1>4, <2>1 DEF DeleteRoom, RoomsTypeOK
    <2>3. room' \in RoomRow /\ room'.owner = room.owner /\ room'.deleted
        BY <2>1, <2>2 DEF DeleteRoom, RoomRow
    <2>4. room.deleted => room' = [room EXCEPT !.popAt = room'.popAt]
        BY <2>1, <2>2 DEF DeleteRoom, RoomRow
    <2> QED
        BY <1>4, <2>1, <2>2, <2>3, <2>4, RoomConstants
           DEF DeleteRoom, Later, Kept, Closed, There, Manager, RoomsTypeOK, MemberKinds
<1>5. CASE q.kind = "pop"
    <2>1. PopRoom
        BY <1>5 DEF Statement
    <2>2. room # None /\ ~Closed /\ room \in RoomRow
        BY <2>1 DEF PopRoom, Writable, Open, Found, Closed, RoomsTypeOK
    <2>3. room' \in RoomRow /\ room'.owner = room.owner /\ room'.deleted = room.deleted
        BY <2>1, <2>2 DEF PopRoom, RoomRow
    <2> QED
        BY <1>5, <2>1, <2>2, <2>3, RoomConstants
           DEF PopRoom, Later, Kept, There, Manager, RoomsTypeOK, MemberKinds
<1>6. CASE q.kind \in MemberKinds
    <2>1. room # None /\ room' = room /\ MemberStatement(q)
        BY <1>6 DEF Statement, MemberStatement, MemberKinds
    <2>2. /\ members' = [u \in User |-> members'[u]]
          /\ \A u \in User \ {Row(q)} : members'[u] = members[u]
        BY <1>6, <2>1 DEF MemberStatement, RemoveMember, UpdateMember, JoinByInviteLink,
           RoomsTypeOK, MemberKinds, Row
    <2>3. ASSUME Manager(room.owner), CallSafe(q) PROVE Manager(room.owner)'
        <3>1. room.owner \in User
            BY <2>1 DEF RoomsTypeOK, RoomRow
        <3>2. Row(q) # room.owner
            <4>1. CASE q.kind \in {"kick", "role"}
                BY <2>3, <4>1 DEF CallSafe, Row
            <4>2. CASE q.kind = "join"
                BY <2>1, <2>3, <4>2 DEF MemberStatement, RowMatches, Manager, Row
            <4> QED
                BY <1>6, <4>1, <4>2 DEF MemberKinds
        <3> QED
            BY <2>1, <2>2, <2>3, <3>1, <3>2 DEF Manager
    <2> QED
        BY <1>6, <2>1, <2>2, <2>3, SameRoomIsKept DEF Later, There, RoomsTypeOK, MemberKinds
<1>7. CASE q.kind = "invite"
    <2>1. UNCHANGED <<room, members>>
        BY <1>7 DEF Statement, CreateInviteLink
    <2> QED
        BY <1>7, <2>1, SameRoomIsKept DEF Later, There, Manager, RoomsTypeOK, MemberKinds
<1> QED
    BY <1>1, <1>2, <1>3, <1>4, <1>5, <1>6, <1>7 DEF Kinds, MemberKinds

LEMMA AnswerFacts ==
    ASSUME NEW q \in Calls, Proper(q), q.pc # "none", NEW status \in Statuses
    PROVE  /\ Answer(q, status) \in Calls /\ Proper(Answer(q, status))
           /\ Answer(q, status).pc = "answered" /\ Answer(q, status).status = status
           /\ Answer(q, status).kind = q.kind /\ Answer(q, status).target = q.target
<1>1. [q EXCEPT !.pc = "answered", !.status = status] \in Calls
    BY DEF Calls, Progress
<1> QED
    BY <1>1 DEF Calls, Answer, Proper

\* The steps that change no row of the room or its members.
Answers(s) == Check(s) \/ Execute(s) \/ LinkUsed(s) \/ NoRow(s) \/ UserUnknown(s)

LEMMA AnswersFacts ==
    ASSUME RoomsTypeOK, NEW s \in Slot, Answers(s)
    PROVE  /\ UNCHANGED <<room, members>>
           /\ \E r \in Calls :
                 /\ call' = [call EXCEPT ![s] = r] /\ Proper(r)
                 /\ r.kind = call[s].kind /\ r.target = call[s].target
                 /\ r.pc = "answered" /\ r.status = "ok" => room # None
                 /\ r.pc \in {"checked", "writing", "answered"}
                 /\ r.pc = "checked" => /\ call[s].pc = "sent"
                                        /\ r.kind # "create" => Found
                 /\ r.pc = "writing" => call[s].pc = "checked" /\ Open
<1> PICK q \in Calls : q = call[s]
    BY DEF RoomsTypeOK
<1> DEFINE Becomes(r) ==
              /\ call' = [call EXCEPT ![s] = r] /\ Proper(r)
              /\ r.kind = q.kind /\ r.target = q.target
              /\ r.pc = "answered" /\ r.status = "ok" => room # None
              /\ r.pc \in {"checked", "writing", "answered"}
              /\ r.pc = "checked" => q.pc = "sent" /\ (r.kind # "create" => Found)
              /\ r.pc = "writing" => q.pc = "checked" /\ Open
<1>1. UNCHANGED <<room, members>> /\ Proper(q) /\ (Past(q) => room # None)
    BY DEF Answers, Check, Execute, LinkUsed, NoRow, UserUnknown, RoomsTypeOK
<1> SUFFICES \E r \in Calls : Becomes(r)
    BY <1>1
<1>2. ASSUME NEW status \in Statuses, call' = [call EXCEPT ![s] = Answer(q, status)],
             q.pc # "none", status = "ok" => room # None
      PROVE  \E r \in Calls : Becomes(r)
    <2>1. /\ Answer(q, status) \in Calls /\ Proper(Answer(q, status))
          /\ Answer(q, status).pc = "answered" /\ Answer(q, status).status = status
          /\ Answer(q, status).kind = q.kind /\ Answer(q, status).target = q.target
        BY <1>1, <1>2, AnswerFacts
    <2> QED
        BY <1>2, <2>1
<1>3. CASE Check(s) /\ Refusal(q) # "none"
    <2>1. call' = [call EXCEPT ![s] = Answer(q, Refusal(q))] /\ q.pc = "sent"
        BY <1>3 DEF Check
    <2>2. Refusal(q) \in Statuses \ {"ok"}
        BY DEF Refusal, Statuses
    <2> QED
        BY <1>2, <2>1, <2>2
<1>4. CASE Check(s) /\ Refusal(q) = "none"
    <2>1. q.pc = "sent" /\ (q.kind # "create" => Found)
        BY <1>4 DEF Refusal, Check
    <2>2. CASE q.kind = "update"
        <3>1. room # None /\ room \in RoomRow
            BY <2>1, <2>2 DEF Found, RoomsTypeOK
        <3>2. q.value \in Settings
            BY <1>1, <2>2 DEF Proper
        <3>3. Patched(q.value, room.settings) \in Settings
            BY <3>1, <3>2 DEF Patched, Settings, RoomRow
        <3> DEFINE r == [q EXCEPT !.pc = "checked", !.value = Patched(q.value, room.settings)]
        <3>4. call' = [call EXCEPT ![s] = r]
            BY <1>4, <2>2 DEF Check, Calls
        <3>5. r \in Calls /\ r.kind = q.kind /\ r.target = q.target
              /\ r.pc = "checked" /\ r.value \in Settings
            BY <3>3 DEF Calls, Progress, Values
        <3>6. Proper(r)
            BY <2>2, <3>5 DEF Proper, Kinds
        <3> QED
            BY <2>1, <3>4, <3>5, <3>6
    <2>3. CASE q.kind # "update"
        <3> DEFINE r == [q EXCEPT !.pc = "checked"]
        <3>1. call' = [call EXCEPT ![s] = r]
            BY <1>4, <2>3 DEF Check
        <3>2. r \in Calls /\ r.kind = q.kind /\ r.target = q.target
              /\ r.pc = "checked" /\ r.value = q.value /\ r.by = q.by
            BY DEF Calls, Progress
        <3>3. Proper(r)
            BY <1>1, <2>1, <2>3, <3>2 DEF Proper
        <3> QED
            BY <2>1, <3>1, <3>2, <3>3
    <2> QED
        BY <2>2, <2>3
<1>5. CASE Execute(s)
    <2> DEFINE r == [q EXCEPT !.pc = "writing"]
    <2>1. /\ q.pc = "checked" /\ Open /\ call' = [call EXCEPT ![s] = r]
        BY <1>5 DEF Execute, Writable, RoomsTypeOK
    <2>2. r \in Calls /\ r.kind = q.kind /\ r.target = q.target
          /\ r.pc = "writing" /\ r.value = q.value /\ r.by = q.by
        BY DEF Calls, Progress
    <2>3. Proper(r)
        BY <1>1, <2>1, <2>2 DEF Proper
    <2> QED
        BY <2>1, <2>2, <2>3
<1>6. CASE LinkUsed(s)
    <2>1. call' = [call EXCEPT ![s] = Answer(q, "ok")] /\ q.pc = "joined"
        BY <1>6 DEF LinkUsed, RoomsTypeOK
    <2> QED
        BY <1>1, <1>2, <2>1 DEF Past, Statuses
<1>7. CASE NoRow(s) \/ UserUnknown(s)
    <2>1. /\ q.pc \in {"sent", "checked", "writing"}
          /\ \E status \in {"conflict", "notFound"} :
                call' = [call EXCEPT ![s] = Answer(q, status)]
        BY <1>7 DEF NoRow, UserUnknown
    <2> QED
        BY <1>2, <2>1 DEF Statuses
<1> QED
    BY <1>3, <1>4, <1>5, <1>6, <1>7 DEF Answers

\* A statement that takes effect is at its end: it starts no more.
LEMMA CommitEnds ==
    ASSUME RoomsTypeOK, NEW s \in Slot, Commit(s)
    PROVE  /\ call[s].pc = IF call[s].kind \in MemberKinds THEN "writing" ELSE "checked"
           /\ \E r \in Calls :
                 /\ call' = [call EXCEPT ![s] = r] /\ Proper(r)
                 /\ r.kind = call[s].kind /\ r.by = call[s].by /\ r.target = call[s].target
                 /\ IF r.kind = "join" THEN r.pc = "joined"
                                       ELSE r.pc = "answered" /\ r.status = "ok"
<1> PICK q \in Calls : q = call[s]
    BY DEF RoomsTypeOK
<1>1. /\ Proper(q) /\ q.pc \in {"checked", "writing"}
      /\ q.pc = IF q.kind \in MemberKinds THEN "writing" ELSE "checked"
    BY DEF Commit, RoomsTypeOK
<1>2. CASE q.kind = "join"
    <2> DEFINE r == [q EXCEPT !.pc = "joined"]
    <2>1. call' = [call EXCEPT ![s] = r]
        BY <1>2 DEF Commit
    <2>2. r \in Calls /\ r.kind = q.kind /\ r.target = q.target
          /\ r.pc = "joined" /\ r.value = q.value /\ r.by = q.by
        BY DEF Calls, Progress
    <2>3. Proper(r)
        BY <1>1, <2>2 DEF Proper
    <2> QED
        BY <1>1, <1>2, <2>1, <2>2, <2>3
<1>3. CASE q.kind # "join"
    <2>1. call' = [call EXCEPT ![s] = Answer(q, "ok")]
        BY <1>3 DEF Commit
    <2>2. /\ Answer(q, "ok") \in Calls /\ Proper(Answer(q, "ok"))
          /\ Answer(q, "ok").pc = "answered" /\ Answer(q, "ok").status = "ok"
          /\ Answer(q, "ok").kind = q.kind /\ Answer(q, "ok").target = q.target
        BY <1>1, AnswerFacts DEF Statuses
    <2>3. Answer(q, "ok").by = q.by
        BY DEF Answer, Calls
    <2> QED
        BY <1>1, <1>3, <2>1, <2>2, <2>3
<1> QED
    BY <1>2, <1>3

\* Each step of the service: a request's, or the clock's.
LEMMA ServeFacts ==
    ASSUME RoomsTypeOK, (\E s \in Slot : Serve(s) \/ UserUnknown(s)) \/ Clock
    PROVE  /\ RoomsTypeOK' /\ Later /\ StaysButForLateCommits
           /\ (\A s \in Slot : CallSafe(call[s])) /\ (There => Manager(room.owner)) =>
                 /\ (There => Manager(room.owner))'
                 /\ (\A s \in Slot : CallSafe(call[s]))'
<1>1. ASSUME NEW s \in Slot, Answers(s)
      PROVE  /\ RoomsTypeOK' /\ Later /\ StaysButForLateCommits
             /\ (There => Manager(room.owner)) => (There => Manager(room.owner))'
             /\ (\A t \in Slot : CallSafe(call[t])) => (\A t \in Slot : CallSafe(call[t]))'
    <2>1. UNCHANGED <<room, members>>
        BY <1>1, AnswersFacts
    <2>2. PICK r \in Calls :
             /\ call' = [call EXCEPT ![s] = r] /\ Proper(r)
             /\ r.kind = call[s].kind /\ r.target = call[s].target
             /\ r.pc = "answered" /\ r.status = "ok" => room # None
             /\ r.pc \in {"checked", "writing", "answered"}
             /\ r.pc = "checked" => call[s].pc = "sent" /\ (r.kind # "create" => Found)
             /\ r.pc = "writing" => call[s].pc = "checked" /\ Open
        BY <1>1, AnswersFacts
    <2>3. \A t \in Slot : call'[t] = IF t = s THEN r ELSE call[t]
        BY <2>2 DEF RoomsTypeOK
    <2>4. call' \in [Slot -> Calls]
        BY <2>2 DEF RoomsTypeOK
    <2>5. RoomsTypeOK'
        <3>1. \A t \in Slot : Past(call'[t]) => room # None
            BY <2>2, <2>3 DEF RoomsTypeOK, Past, Open, Found
        <3>2. \A t \in Slot : Proper(call'[t])
            BY <2>2, <2>3 DEF RoomsTypeOK
        <3> QED
            BY <2>1, <2>4, <3>1, <3>2 DEF RoomsTypeOK
    <2>6. \A x : CallSafe(x)' <=> CallSafe(x)
        BY <2>1 DEF CallSafe, Spared, There
    <2>7. CallSafe(call[s]) => CallSafe(r)
        BY <2>2 DEF CallSafe, Spared, There, Found
    <2>8. StaysButForLateCommits
        BY <2>1, <2>2, <2>3, SameRoomStays DEF Open, Found, Closed
    <2> QED
        BY <2>1, <2>3, <2>5, <2>6, <2>7, <2>8, SameRoomIsLater DEF There, Manager
<1>2. ASSUME NEW s \in Slot, Commit(s)
      PROVE  /\ RoomsTypeOK' /\ Later /\ StaysButForLateCommits
             /\ (\A t \in Slot : CallSafe(call[t])) /\ (There => Manager(room.owner)) =>
                   /\ (There => Manager(room.owner))'
                   /\ (\A t \in Slot : CallSafe(call[t]))'
    <2> PICK q \in Calls : q = call[s]
        BY DEF RoomsTypeOK
    <2>1. /\ q \in Calls /\ Proper(q) /\ Statement(q)
          /\ (q.kind # "create" => room # None)
          /\ q.pc = IF q.kind \in MemberKinds THEN "writing" ELSE "checked"
        BY <1>2 DEF Commit, RoomsTypeOK, Past
    <2>2. PICK r \in Calls :
             /\ call' = [call EXCEPT ![s] = r] /\ Proper(r) /\ r.kind = q.kind
             /\ IF r.kind = "join" THEN r.pc = "joined"
                                   ELSE r.pc = "answered" /\ r.status = "ok"
        BY <1>2, CommitEnds
    <2>3. \A t \in Slot : call'[t] = IF t = s THEN r ELSE call[t]
        BY <2>2 DEF RoomsTypeOK
    <2>4. call' \in [Slot -> Calls]
        BY <2>2 DEF RoomsTypeOK
    <2>5. /\ room' # None => room' \in RoomRow
          /\ members' = [u \in User |-> members'[u]]
          /\ Later /\ Kept
          /\ Closed /\ q.kind \notin MemberKinds => members' = members
          /\ q.kind \in MemberKinds => \A u \in User \ {Row(q)} : members'[u] = members[u]
          /\ q.kind = "create" => There'
          /\ CallSafe(q) /\ (There => Manager(room.owner)) =>
                (There' => Manager(room.owner)')
        BY <2>1, StatementFacts
    <2>6. RoomsTypeOK'
        <3>1. \A t \in Slot : Past(call'[t]) => room' # None
            BY <2>1, <2>2, <2>3, <2>5 DEF RoomsTypeOK, Past, Later, There
        <3>2. \A t \in Slot : Proper(call'[t])
            BY <2>2, <2>3 DEF RoomsTypeOK
        <3> QED
            BY <2>4, <2>5, <3>1, <3>2 DEF RoomsTypeOK
    <2>7. CallSafe(r)'
        BY <2>2, <2>5 DEF CallSafe, Later
    <2>8. \A x : CallSafe(x) => CallSafe(x)'
        BY <2>5, SafeLater DEF CallSafe, Later
    <2>9. StaysButForLateCommits
        <3>1. \A t \in Slot : call'[t].pc = "writing" => call[t].pc = "writing"
            BY <2>2, <2>3
        <3>2. ASSUME Closed, NEW u \in User, members'[u] # members[u]
              PROVE  call[s].pc = "writing" /\ Row(call[s]) = u /\ call'[s].pc # "writing"
            BY <2>1, <2>2, <2>3, <2>5, <3>2
        <3> QED
            BY <2>5, <3>1, <3>2 DEF Kept, StaysButForLateCommits
    <2> QED
        BY <2>3, <2>5, <2>6, <2>7, <2>8, <2>9
<1>3. CASE Clock
    <2>1. UNCHANGED <<members, call>>
        BY <1>3 DEF Clock, PopTimeComes, PopRooms, InviteExpires
    <2>2. CASE room' = room
        BY <2>1, <2>2, SameRoomIsLater, SameRoomStays
           DEF RoomsTypeOK, CallSafe, Spared, There, Manager
    <2>3. CASE PopTimeComes \/ PopRooms
        <3>1. room # None /\ room \in RoomRow
            BY <2>3 DEF PopTimeComes, PopRooms, Writable, Open, Found, RoomsTypeOK
        <3>2. /\ room' \in RoomRow /\ room'.owner = room.owner /\ room'.deleted = room.deleted
              /\ Closed => room' = [room EXCEPT !.popAt = room'.popAt]
            BY <2>3, <3>1 DEF PopTimeComes, PopRooms, Writable, Open, Found, Closed, RoomRow
        <3>3. Later /\ StaysButForLateCommits
            BY <2>1, <3>1, <3>2, RoomConstants DEF Later, StaysButForLateCommits, There
        <3>4. RoomsTypeOK'
            BY <2>1, <3>1, <3>2, RoomConstants DEF RoomsTypeOK
        <3>5. \A x : CallSafe(x) => CallSafe(x)'
            BY <3>3, SafeLater DEF CallSafe, Later
        <3> QED
            BY <2>1, <3>1, <3>2, <3>3, <3>4, <3>5 DEF There, Manager
    <2> QED
        BY <1>3, <2>2, <2>3 DEF Clock, InviteExpires
<1> QED
    BY <1>1, <1>2, <1>3 DEF Serve, Answers

----------------------------------------------------------------------------
(* The query cache *)

\* The room is in use on its own pages, and only there.
LEMMA RoomIsMounted ==
    /\ \A page : "room" \in MountedOn(page) <=> page \in RoomPage
    /\ "room" \in Query
<1>1. "room" \in Query
    BY DEF Query, RoomQuery
<1>2. ASSUME NEW page PROVE "room" \in MountedOn(page) <=> page \in RoomPage
    <2>1. CASE page \in RoomPage
        BY <1>1, <2>1 DEF MountedOn, RoomPage
    <2>2. CASE page \notin RoomPage /\ page = "home"
        BY <2>2 DEF MountedOn
    <2>3. CASE page \notin RoomPage /\ page # "home"
        BY <2>3 DEF MountedOn
    <2> QED
        BY <2>1, <2>2, <2>3
<1> QED
    BY <1>1, <1>2

LEMMA AskedFacts ==
    ASSUME NEW e \in Entries
    PROVE  /\ Asked(e) \in Entries /\ Asked(e).pc = "asked" /\ Asked(e).data = e.data
           /\ Outdated(e) \in Entries /\ Outdated(e).pc = e.pc
           /\ Outdated(e).data = e.data /\ Outdated(e).read = e.read
BY DEF Entries, Asked, Outdated

LEMMA InvalidatedFacts ==
    ASSUME PagesTypeOK, NEW Q, NEW c, c = Invalidated(query, Q)
    PROVE  /\ c = [k \in Query |-> c[k]] /\ c["room"] \in Entries
           /\ EntrySafe(query["room"]) /\ PageSafe(tab.page, query["room"]) =>
                 EntrySafe(c["room"]) /\ PageSafe(tab.page, c["room"])
<1> DEFINE e == query["room"]
<1>1. c = [k \in Query |-> c[k]]
    BY DEF Invalidated
<1>2. e \in Entries
    BY DEF PagesTypeOK
<1>3. c["room"] = IF "room" \notin Q THEN e
                  ELSE IF tab.page \in RoomPage THEN Asked(e) ELSE Outdated(e)
    BY RoomIsMounted DEF Invalidated, Mounted
<1>4. c["room"] \in Entries
    BY <1>2, <1>3, AskedFacts
<1>5. CASE "room" \notin Q
    BY <1>1, <1>4, <1>3, <1>5
<1>6. CASE "room" \in Q /\ tab.page \in RoomPage
    BY <1>1, <1>2, <1>3, <1>4, <1>6, AskedFacts DEF EntrySafe, PageSafe
<1>7. CASE "room" \in Q /\ tab.page \notin RoomPage
    BY <1>1, <1>2, <1>3, <1>4, <1>7, AskedFacts DEF EntrySafe, PageSafe
<1> QED
    BY <1>5, <1>6, <1>7

LEMMA MountedCacheFacts ==
    ASSUME NEW cache, cache["room"] \in Entries, NEW page, NEW old \in BOOLEAN,
           NEW c, c = MountedCache(cache, page, old)
    PROVE  /\ c = [k \in Query |-> c[k]] /\ c["room"] \in Entries
           /\ /\ EntrySafe(cache["room"]) /\ PageSafe(tab.page, cache["room"])
              /\ page \in RoomPage => There
              => EntrySafe(c["room"]) /\ PageSafe(page, c["room"])
<1> DEFINE e == cache["room"]
<1>1. c = [k \in Query |-> c[k]]
    BY DEF MountedCache
<1>2. c["room"] = IF /\ page \in RoomPage /\ tab.page \notin RoomPage
                     /\ e.pc = "idle" /\ (e.data = None \/ e.stale \/ old)
                  THEN Asked(e) ELSE e
    BY RoomIsMounted DEF MountedCache
<1>3. c["room"] \in Entries
    BY <1>2, AskedFacts
<1> QED
    BY <1>1, <1>2, <1>3, AskedFacts DEF EntrySafe, PageSafe

----------------------------------------------------------------------------
(* Steps of the tab *)

\* What becomes of a request when the service does nothing about it.
Follows(q, r) ==
    \/ /\ q.pc = r.pc /\ q.kind = r.kind /\ q.status = r.status
       /\ q.target = r.target
    \/ q.pc = "none"
    \/ q.pc = "sent" /\ (~failed /\ q.kind \in {"kick", "role"} => Spared(q.target))
    \/ q.pc = "answered" /\ q.status # "ok"

LEMMA TabStep ==
    ASSUME RoomIInv, UNCHANGED <<room, members>>, failed => failed',
           call' \in [Slot -> Calls],
           \A s \in Slot : Proper(call'[s]) /\ Follows(call'[s], call[s]),
           PagesTypeOK',
           ~failed' => /\ EntrySafe(query'["room"])
                       /\ PageSafe(tab'.page, query'["room"])
                       /\ tab'.target # None => Spared(tab'.target)
    PROVE  RoomIInv'
<1>1. RoomsTypeOK'
    BY DEF RoomIInv, RoomsTypeOK, Past, Follows
<1>2. ASSUME ~failed' PROVE OwnerSafe'
    <2>1. OwnerSafe /\ ~failed
        BY <1>2 DEF RoomIInv
    <2>2. /\ There' = There /\ Gone' = Gone
          /\ \A u : Spared(u)' = Spared(u)
          /\ Manager(room.owner)' = Manager(room.owner)
        BY DEF There, Gone, Spared, Manager
    <2>3. \A s \in Slot : CallSafe(call'[s])
        BY <2>1 DEF OwnerSafe, CallSafe, Follows
    <2>4. (\A s \in Slot : CallSafe(call[s]))'
        BY <2>2, <2>3 DEF CallSafe, There, Spared
    <2>5. EntrySafe(query["room"])' /\ PageSafe(tab.page, query["room"])'
        BY <1>2, <2>2 DEF EntrySafe, PageSafe, There, Gone
    <2>6. (tab.target # None => Spared(tab.target))'
        BY <1>2, <2>2 DEF Spared, There
    <2> QED
        BY <2>1, <2>2, <2>4, <2>5, <2>6 DEF OwnerSafe, There, Manager
<1> QED
    BY <1>1, <1>2 DEF RoomIInv

\* The cache and the tab stand still: a request leaves, or is let go.
LEMMA RequestStep ==
    ASSUME RoomIInv, UNCHANGED <<room, members, query>>, failed => failed',
           call' \in [Slot -> Calls],
           \A s \in Slot : Proper(call'[s]) /\ Follows(call'[s], call[s]),
           tab' \in Tabs, tab'.page = tab.page,
           ~failed' => (tab'.target # None => Spared(tab'.target))
    PROVE  RoomIInv'
BY TabStep DEF RoomIInv, PagesTypeOK, OwnerSafe

LEMMA SendFacts ==
    ASSUME RoomIInv, NEW kind \in Kinds, NEW u \in User, NEW t \in User \cup {None},
           NEW v \in Values, Send(Request(kind, u, t, v)),
           kind = "create" => v \in Creation,
           kind = "update" => v \in Settings,
           ~failed /\ kind \in {"kick", "role"} => Spared(t)
    PROVE  /\ call' \in [Slot -> Calls]
           /\ \A s \in Slot : Proper(call'[s]) /\ Follows(call'[s], call[s])
<1> DEFINE q == Request(kind, u, t, v)
<1>1. PICK s \in Slot : call' = [call EXCEPT ![s] = q]
    BY DEF Send
<1>2. /\ q \in Calls
      /\ q.kind = kind /\ q.by = u /\ q.target = t /\ q.value = v /\ q.pc = "sent"
    BY DEF Request, NoCall, Calls, Kinds, Progress, Statuses, Values
<1>3. Proper(q)
    BY <1>2 DEF Proper
<1>4. Follows(q, call[s])
    BY <1>2 DEF Follows
<1> HIDE DEF q
<1> QED
    BY <1>1, <1>2, <1>3, <1>4 DEF RoomIInv, RoomsTypeOK, Follows

\* The requests of a tab that has gone on are the same.
LEMMA DoneFacts ==
    ASSUME RoomIInv, NEW s \in Slot
    PROVE  /\ Done(s) \in [Slot -> Calls]
           /\ \A t \in Slot : Proper(Done(s)[t]) /\ Follows(Done(s)[t], call[t])
<1>1. NoCall \in Calls /\ Proper(NoCall) /\ NoCall.pc = "none"
    BY DEF NoCall, Calls, Kinds, Progress, Statuses, Values, Proper
<1> QED
    BY <1>1 DEF Done, RoomIInv, RoomsTypeOK, Follows

LEMMA UnseenFacts ==
    ASSUME NEW requests \in [Slot -> Calls], \A t \in Slot : Proper(requests[t]),
           NEW seen \in [Slot -> BOOLEAN],
           \A t \in Slot : Follows(requests[t], call[t]),
           call' = [t \in Slot |-> [requests[t] EXCEPT !.seen = seen[t]]]
    PROVE  /\ call' \in [Slot -> Calls]
           /\ \A t \in Slot : Proper(call'[t]) /\ Follows(call'[t], call[t])
<1>1. ASSUME NEW t \in Slot
      PROVE  /\ call'[t] \in Calls
             /\ call'[t].pc = requests[t].pc /\ call'[t].kind = requests[t].kind
             /\ call'[t].status = requests[t].status /\ call'[t].target = requests[t].target
             /\ call'[t].by = requests[t].by /\ call'[t].value = requests[t].value
    BY DEF Calls
<1>2. call' \in [Slot -> Calls]
    BY <1>1
<1>3. \A t \in Slot : Proper(call'[t])
    BY <1>1 DEF Proper
<1>4. \A t \in Slot : Follows(call'[t], call[t])
    BY <1>1 DEF Follows
<1> QED
    BY <1>2, <1>3, <1>4

LEMMA FreshTabFacts ==
    ASSUME tab \in Tabs, NEW page \in {"home", "chat", "settings", "invite"}
    PROVE  FreshTab(page) \in Tabs /\ FreshTab(page).page = page /\ FreshTab(page).target = None
<1> DEFINE d == IF tab.dialog = "create" THEN tab.dialog ELSE "none"
<1>1. d \in {"none", "create", "delete", "kick", "members", "invite"}
    OBVIOUS
<1>2. FreshTab(page) = [tab EXCEPT !.page = page, !.dialog = d, !.target = None,
                                  !.inviteUrl = "none", !.generating = None,
                                  !.notice = "none"]
    BY DEF FreshTab, Tabs
<1> HIDE DEF d
<1> QED
    BY <1>1, <1>2 DEF Tabs, Statuses

LEMMA CreatedFacts ==
    ASSUME tab \in Tabs
    PROVE  Created \in Tabs /\ Created.page = "chat" /\ Created.target = None
<1> PICK t \in Tabs : t = FreshTab("chat") /\ t.page = "chat" /\ t.target = None
    BY FreshTabFacts
<1>1. Created = [t EXCEPT !.dialog = "none", !.autoPop = TRUE]
    BY DEF Created
<1> QED
    BY <1>1 DEF Tabs

\* Going to a page, after an answer or not: what was loaded stays, the rest is
\* fetched.
LEMMA GoToStep ==
    ASSUME RoomIInv, NEW t \in Tabs, t.target = None, NEW cache, NEW requests,
           cache = query \/ \E Q : cache = Invalidated(query, Q),
           requests = call \/ \E s \in Slot : requests = Done(s),
           GoTo(t, cache, requests), UNCHANGED <<room, members>>, failed => failed',
           ~failed /\ t.page \in RoomPage => There
    PROVE  RoomIInv'
<1>1. PagesTypeOK /\ RoomsTypeOK /\ (~failed => OwnerSafe)
    BY DEF RoomIInv
<1>2. /\ cache["room"] \in Entries
      /\ ~failed => EntrySafe(cache["room"]) /\ PageSafe(tab.page, cache["room"])
    BY <1>1, InvalidatedFacts DEF PagesTypeOK, OwnerSafe
<1>3. /\ requests \in [Slot -> Calls]
      /\ \A s \in Slot : Proper(requests[s]) /\ Follows(requests[s], call[s])
    BY <1>1, DoneFacts DEF RoomsTypeOK, Follows
<1>4. PICK old \in BOOLEAN : query' = MountedCache(cache, t.page, old)
    BY DEF GoTo
<1>5. /\ query' = [k \in Query |-> query'[k]] /\ query'["room"] \in Entries
      /\ ~failed => EntrySafe(query'["room"]) /\ PageSafe(t.page, query'["room"])
    BY <1>2, <1>4, MountedCacheFacts
<1>6. tab' = t
    BY DEF GoTo
<1>7. /\ call' \in [Slot -> Calls]
      /\ \A s \in Slot : Proper(call'[s]) /\ Follows(call'[s], call[s])
    <2> DEFINE seen == [s \in Slot |-> requests[s].seen /\ requests[s].by # Me]
    <2>1. seen \in [Slot -> BOOLEAN]
        OBVIOUS
    <2>2. call' = [s \in Slot |-> [requests[s] EXCEPT !.seen = seen[s]]]
        BY <1>3 DEF GoTo, Calls
    <2> HIDE DEF seen
    <2> QED
        BY <1>3, <2>1, <2>2, UnseenFacts
<1>8. PagesTypeOK'
    BY <1>5, <1>6 DEF PagesTypeOK
<1> QED
    BY <1>5, <1>6, <1>7, <1>8, TabStep

\* A page that stays takes the answer.
LEMMA StayStep ==
    ASSUME RoomIInv, NEW s \in Slot, NEW t \in Tabs, Stay(s, t), t.page = tab.page,
           t.target \in {None, tab.target}
    PROVE  RoomIInv'
<1>1. PagesTypeOK /\ (~failed => OwnerSafe)
    BY DEF RoomIInv
<1>2. /\ call' = Done(s) /\ query' = Settled(s) /\ tab' = t
      /\ UNCHANGED <<room, members, failed>>
    BY DEF Stay, Keep, bounds
<1>3. /\ query' = [k \in Query |-> query'[k]] /\ query'["room"] \in Entries
      /\ ~failed => EntrySafe(query'["room"]) /\ PageSafe(tab.page, query'["room"])
    BY <1>1, <1>2, InvalidatedFacts DEF Settled, PagesTypeOK, OwnerSafe
<1>4. PagesTypeOK'
    BY <1>2, <1>3 DEF PagesTypeOK
<1>5. ~failed' => (tab'.target # None => Spared(tab'.target))
    BY <1>1, <1>2 DEF OwnerSafe
<1> QED
    BY <1>2, <1>3, <1>4, <1>5, DoneFacts, TabStep

----------------------------------------------------------------------------
(* The actions *)

\* Who can be managed on the settings page is not the owner of a room that is
\* still there.
LEMMA ManagedIsSpared ==
    ASSUME RoomIInv, ~failed, NEW u, CanManage(u)
    PROVE  Spared(u)
<1>1. /\ EntrySafe(query["room"]) /\ PageSafe(tab.page, query["room"])
      /\ query["room"] \in Entries
    BY DEF RoomIInv, OwnerSafe, PagesTypeOK
<1>2. tab.page \in RoomPage /\ ~Loading("room")
    BY DEF CanManage, OnSettings, RoomPage
<1>3. CASE query["room"].data # None
    BY <1>1, <1>3 DEF CanManage, EntrySafe, Spared
<1>4. CASE query["room"].data = None
    BY <1>1, <1>2, <1>4 DEF Loading, PageSafe, Gone, Spared, There, Entries
<1> QED
    BY <1>3, <1>4

LEMMA FetchStep ==
    ASSUME RoomIInv, NEW k \in Query, FetchRead(k) \/ FetchEnds(k) \/ FetchFails(k)
    PROVE  RoomIInv'
<1> DEFINE e == query["room"]
<1>1. /\ PagesTypeOK /\ RoomsTypeOK /\ (~failed => OwnerSafe)
      /\ UNCHANGED <<room, members, call, tab>> /\ (failed => failed')
    BY DEF RoomIInv, FetchRead, FetchEnds, FetchFails, roomVars, bounds
<1>2. query' = [j \in Query |-> query'[j]]
    BY <1>1 DEF FetchRead, FetchEnds, FetchFails, PagesTypeOK
<1>3. query'["room"] \in Entries
      /\ (~failed' => EntrySafe(query'["room"]) /\ PageSafe(tab.page, query'["room"]))
    <2>1. CASE k # "room"
        <3>1. query'["room"] = e
            BY <1>1, <2>1, RoomIsMounted DEF FetchRead, FetchEnds, FetchFails, PagesTypeOK
        <3> QED
            BY <1>1, <3>1 DEF PagesTypeOK, OwnerSafe
    <2>2. CASE k = "room" /\ FetchRead(k)
        <3>1. e.pc = "asked" /\ query'["room"] = [e EXCEPT !.pc = "read", !.read = Read("room")]
            BY <1>1, <2>2, RoomIsMounted DEF FetchRead, PagesTypeOK
        <3>2. IF Found THEN Read("room") \in RoomData /\ Read("room").owner = room.owner
              ELSE Read("room") = None
            BY <1>1 DEF Read, Found, RoomsTypeOK, RoomRow, RoomData
        <3>3. query'["room"] \in Entries /\ query'["room"].pc = "read"
              /\ query'["room"].read = Read("room") /\ query'["room"].data = e.data
            BY <1>1, <3>1, <3>2 DEF PagesTypeOK, Entries
        <3>4. ASSUME ~failed'
              PROVE  EntrySafe(query'["room"]) /\ PageSafe(tab.page, query'["room"])
            <4>1. EntrySafe(e) /\ PageSafe(tab.page, e) /\ There
                BY <1>1, <3>1, <3>4 DEF OwnerSafe, EntrySafe
            <4> QED
                BY <3>2, <3>3, <4>1, RoomConstants DEF EntrySafe, PageSafe, Gone, There, Found
        <3> QED
            BY <3>3, <3>4
    <2>3. CASE k = "room" /\ FetchEnds(k)
        <3>1. /\ e.pc = "read"
              /\ query'["room"] =
                    IF e.read = None THEN [e EXCEPT !.pc = "idle", !.stale = TRUE]
                    ELSE [e EXCEPT !.pc = "idle", !.read = None, !.data = e.read, !.stale = FALSE]
            BY <1>1, <2>3, RoomIsMounted DEF FetchEnds, PagesTypeOK
        <3>2. query'["room"] \in Entries /\ query'["room"].pc = "idle"
              /\ query'["room"].data = IF e.read = None THEN e.data ELSE e.read
            <4>1. e \in Entries
                BY <1>1 DEF PagesTypeOK
            <4> HIDE DEF e
            <4>2. CASE e.read = None
                <5>1. query'["room"] = [e EXCEPT !.pc = "idle", !.stale = TRUE]
                    BY <3>1, <4>2
                <5> QED
                    BY <4>1, <4>2, <5>1 DEF Entries
            <4>3. CASE e.read # None
                <5>1. query'["room"] = [e EXCEPT !.pc = "idle", !.read = None, !.data = e.read,
                                                 !.stale = FALSE]
                    BY <3>1, <4>3
                <5> QED
                    BY <4>1, <4>3, <5>1 DEF Entries
            <4> QED
                BY <4>2, <4>3
        <3>3. ASSUME ~failed'
              PROVE  EntrySafe(query'["room"]) /\ PageSafe(tab.page, query'["room"])
            <4>1. EntrySafe(e) /\ PageSafe(tab.page, e)
                BY <1>1, <3>3 DEF OwnerSafe
            <4> QED
                BY <3>1, <3>2, <4>1 DEF EntrySafe, PageSafe, Gone
        <3> QED
            BY <3>2, <3>3
    <2>4. CASE k = "room" /\ FetchFails(k)
        <3>1. query'["room"] = [e EXCEPT !.pc = "idle", !.read = None, !.stale = TRUE]
            BY <1>1, <2>4, RoomIsMounted DEF FetchFails, PagesTypeOK
        <3> QED
            BY <1>1, <2>4, <3>1 DEF PagesTypeOK, Entries, FetchFails
    <2> QED
        BY <2>1, <2>2, <2>3, <2>4
<1>4. \A s \in Slot : Proper(call'[s]) /\ Follows(call'[s], call[s])
    BY <1>1 DEF RoomsTypeOK, Follows
<1>5. PagesTypeOK' /\ call' \in [Slot -> Calls]
    BY <1>1, <1>2, <1>3 DEF PagesTypeOK, RoomsTypeOK
<1>6. ~failed' => (tab'.target # None => Spared(tab'.target))
    BY <1>1 DEF OwnerSafe
<1> QED
    BY <1>1, <1>3, <1>4, <1>5, <1>6, TabStep

\* Only the tab's own state changes, and the target at most to nobody.
LEMMA DialogStep ==
    ASSUME RoomIInv, UNCHANGED <<roomVars, query, bounds>>, tab' \in Tabs,
           tab'.page = tab.page,
           ~failed => (tab'.target # None => Spared(tab'.target))
    PROVE  RoomIInv'
<1>1. call' = call /\ UNCHANGED <<room, members, query, failed>>
    BY DEF roomVars, bounds
<1>2. call' \in [Slot -> Calls]
      /\ \A s \in Slot : Proper(call'[s]) /\ Follows(call'[s], call[s])
    BY <1>1 DEF RoomIInv, RoomsTypeOK, Follows
<1> QED
    BY <1>1, <1>2, RequestStep

LEMMA DialogsStep ==
    ASSUME RoomIInv,
           \/ OpenCreate \/ CloseCreate \/ ToggleAutoPop \/ OpenDelete \/ CloseDelete
           \/ OpenMembers \/ CloseMembers \/ OpenInvite \/ CloseInvite
    PROVE  RoomIInv'
<1>1. tab \in Tabs /\ (~failed => (tab.target # None => Spared(tab.target)))
    BY DEF RoomIInv, PagesTypeOK, OwnerSafe
<1>2. UNCHANGED <<roomVars, query, bounds>>
    BY DEF OpenCreate, CloseCreate, ToggleAutoPop, OpenDelete, CloseDelete, OpenMembers,
       CloseMembers, OpenInvite, CloseInvite, Dialog
<1>3. tab' \in Tabs /\ tab'.page = tab.page /\ tab'.target = tab.target
    <2>1. CASE \E d \in {"none", "create", "delete", "members", "invite"} :
                 tab' = [tab EXCEPT !.dialog = d]
        BY <1>1, <2>1 DEF Tabs
    <2>2. CASE CloseCreate \/ ToggleAutoPop \/ CloseInvite
        BY <1>1, <2>2 DEF CloseCreate, ToggleAutoPop, CloseInvite, Tabs
    <2> QED
        BY <2>1, <2>2 DEF OpenCreate, OpenDelete, CloseDelete, OpenMembers, CloseMembers,
           OpenInvite, Dialog
<1> QED
    BY <1>1, <1>2, <1>3, DialogStep

LEMMA SetKickTargetStep ==
    ASSUME RoomIInv, NEW u \in User \cup {None}, SetKickTarget(u)
    PROVE  RoomIInv'
<1>1. tab \in Tabs
    BY DEF RoomIInv, PagesTypeOK
<1>2. tab' \in Tabs /\ tab'.page = tab.page /\ tab'.target = u
    BY <1>1 DEF SetKickTarget, Tabs
<1>3. ~failed => (u # None => Spared(u))
    BY ManagedIsSpared DEF SetKickTarget
<1> QED
    BY <1>2, <1>3, DialogStep DEF SetKickTarget

\* A mutation leaves; only the notice of the page may change, or what a button waits for.
LEMMA MutateStep ==
    ASSUME RoomIInv, NEW kind \in Kinds, NEW t \in User \cup {None}, NEW v \in Values,
           Mutate(kind, t, v),
           kind = "create" => v \in Creation,
           kind = "update" => v \in Settings,
           ~failed /\ kind \in {"kick", "role"} => Spared(t),
           \/ tab' = tab \/ tab' = [tab EXCEPT !.notice = "none"]
           \/ \E s \in Slot : tab' = [tab EXCEPT !.generating = s]
    PROVE  RoomIInv'
<1>1. UNCHANGED <<room, members, query, failed>> /\ Send(Request(kind, Me, t, v))
    BY DEF Mutate
<1>2. /\ call' \in [Slot -> Calls]
      /\ \A s \in Slot : Proper(call'[s]) /\ Follows(call'[s], call[s])
    BY <1>1, SendFacts, PageConstants
<1>3. tab' \in Tabs /\ tab'.page = tab.page /\ tab'.target = tab.target
    <2>1. tab \in Tabs
        BY DEF RoomIInv, PagesTypeOK
    <2>2. ASSUME NEW s \in Slot, tab' = [tab EXCEPT !.generating = s]
          PROVE  tab' \in Tabs /\ tab'.page = tab.page /\ tab'.target = tab.target
        BY <2>1, <2>2 DEF Tabs
    <2> QED
        BY <2>1, <2>2 DEF Tabs, Statuses
<1>4. ~failed' => (tab'.target # None => Spared(tab'.target))
    BY <1>1, <1>3 DEF RoomIInv, OwnerSafe
<1> QED
    BY <1>1, <1>2, <1>3, <1>4, RequestStep

LEMMA ClickStep ==
    ASSUME RoomIInv,
           \/ \E settings \in Settings :
                 \/ SubmitSettings(settings)
                 \/ \E popAt \in {"none", "future", "due"} : SubmitCreate(settings, popAt)
           \/ HandleDelete \/ HandleKick \/ ClickPop
           \/ \E uses \in {"single", "many"} : HandleGenerate(uses)
           \/ \E u \in User : HandleRoleToggle(u)
    PROVE  RoomIInv'
<1>1. ASSUME NEW settings \in Settings, SubmitSettings(settings)
      PROVE  RoomIInv'
    BY <1>1, MutateStep DEF SubmitSettings, Kinds, Values
<1>2. ASSUME NEW settings \in Settings, NEW popAt \in {"none", "future", "due"},
             SubmitCreate(settings, popAt)
      PROVE  RoomIInv'
    <2>1. [settings |-> settings, popAt |-> popAt] \in Creation
        BY DEF Creation
    <2> QED
        BY <1>2, <2>1, MutateStep DEF SubmitCreate, Kinds, Values
<1>3. CASE HandleDelete \/ ClickPop
    BY <1>3, MutateStep DEF HandleDelete, ClickPop, Kinds, Values
<1>4. CASE HandleKick
    <2>1. tab.target \in User \cup {None} /\ (~failed => Spared(tab.target))
        BY <1>4 DEF HandleKick, RoomIInv, PagesTypeOK, Tabs, OwnerSafe
    <2> QED
        BY <1>4, <2>1, MutateStep DEF HandleKick, Kinds, Values
<1>5. ASSUME NEW uses \in {"single", "many"}, HandleGenerate(uses)
      PROVE  RoomIInv'
    <2>1. \E s \in Slot : tab' = [tab EXCEPT !.generating = s]
        BY <1>5 DEF HandleGenerate
    <2> QED
        BY <1>5, <2>1, MutateStep DEF HandleGenerate, Kinds, Values
<1>6. ASSUME NEW u \in User, HandleRoleToggle(u)
      PROVE  RoomIInv'
    <2>1. ~failed => Spared(u)
        BY <1>6, ManagedIsSpared DEF HandleRoleToggle
    <2> QED
        BY <1>6, <2>1, MutateStep DEF HandleRoleToggle, Kinds, Values
<1> QED
    BY <1>1, <1>2, <1>3, <1>4, <1>5, <1>6

\* An earlier request to join is forgotten for the new one.
LEMMA PostJoinStep ==
    ASSUME RoomIInv, PostJoin
    PROVE  RoomIInv'
<1>1. call \in [Slot -> Calls] /\ \A t \in Slot : Proper(call[t])
    BY DEF RoomIInv, RoomsTypeOK
<1> DEFINE q == Request("join", Me, None, None)
<1>2. PICK s \in Slot :
        call' = [t \in Slot |-> IF t = s THEN q
                                 ELSE [call[t] EXCEPT !.seen = @ /\ t \notin Mine]]
    BY DEF PostJoin
<1>3. q \in Calls /\ Proper(q) /\ q.pc = "sent" /\ q.kind = "join"
    BY PageConstants DEF Request, NoCall, Calls, Kinds, Progress, Statuses, Values, Proper
<1>4. ASSUME NEW t \in Slot, t # s
      PROVE  call'[t] \in Calls /\ Proper(call'[t]) /\ Follows(call'[t], call[t])
    <2> DEFINE w == call[t].seen /\ t \notin Mine
    <2>1. w \in BOOLEAN
        OBVIOUS
    <2>2. call'[t] = [call[t] EXCEPT !.seen = w]
        BY <1>1, <1>2, <1>4 DEF Calls
    <2> HIDE DEF w
    <2>3. call'[t] \in Calls /\ call'[t].pc = call[t].pc /\ call'[t].kind = call[t].kind
          /\ call'[t].status = call[t].status /\ call'[t].target = call[t].target
          /\ call'[t].by = call[t].by /\ call'[t].value = call[t].value
        BY <1>1, <2>1, <2>2 DEF Calls
    <2> QED
        BY <1>1, <2>3 DEF Proper, Follows
<1>5. call'[s] = q
    BY <1>2
<1>6. Follows(call'[s], call[s])
    BY <1>3, <1>5 DEF Follows
<1> HIDE DEF q
<1>7. /\ call' \in [Slot -> Calls]
      /\ \A t \in Slot : Proper(call'[t]) /\ Follows(call'[t], call[t])
    BY <1>2, <1>3, <1>4, <1>5, <1>6
<1> QED
    BY <1>7, RequestStep DEF PostJoin, RoomIInv, PagesTypeOK, OwnerSafe

LEMMA SaysFacts ==
    ASSUME tab \in Tabs, NEW s, NEW good \in Statuses \cup {"updated", "error"}
    PROVE  /\ Says(s, good) \in Tabs /\ Says(s, good).page = tab.page
           /\ Says(s, good).target = tab.target
BY DEF Says, Tabs

LEMMA EndsStep ==
    ASSUME RoomIInv, NEW s \in Slot,
           \/ CreateEnds(s) \/ UpdateEnds(s) \/ DeleteEnds(s) \/ RoleEnds(s)
           \/ KickEnds(s) \/ PopEnds(s) \/ InviteEnds(s) \/ JoinEnds(s)
    PROVE  RoomIInv'
<1>1. tab \in Tabs /\ call[s] \in Calls /\ (~failed => CallSafe(call[s]))
    BY DEF RoomIInv, RoomsTypeOK, PagesTypeOK, OwnerSafe
<1>2. Keep => UNCHANGED <<room, members, failed>>
    BY DEF Keep, bounds
<1>3. Settled(s) = query \/ \E Q : Settled(s) = Invalidated(query, Q)
    BY DEF Settled
<1>4. ASSUME NEW t \in Tabs, t.target = None, t.page \in {"home", "chat"},
             GoTo(t, Settled(s), Done(s)), Keep, ~failed /\ t.page = "chat" => There
      PROVE  RoomIInv'
    BY <1>2, <1>3, <1>4, GoToStep DEF RoomPage
<1>5. CASE CreateEnds(s) \/ JoinEnds(s)
    <2>1. ASSUME NEW t, t = Created \/ t = FreshTab("chat"),
                 GoTo(t, Settled(s), Done(s)), Keep, Succeeded(s)
          PROVE  RoomIInv'
        <3>1. ~failed => There
            BY <1>1, <1>5, <2>1 DEF CallSafe, CreateEnds, JoinEnds, Ended, Succeeded
        <3>2. t \in Tabs /\ t.page = "chat" /\ t.target = None
            BY <1>1, <2>1, FreshTabFacts, CreatedFacts
        <3> QED
            BY <1>4, <2>1, <3>1, <3>2
    <2>2. CASE Stay(s, tab)
        BY <1>1, <2>2, StayStep
    <2>3. CASE Stay(s, [tab EXCEPT !.notice = call[s].status])
        <3>1. [tab EXCEPT !.notice = call[s].status] \in Tabs
              /\ [tab EXCEPT !.notice = call[s].status].page = tab.page
              /\ [tab EXCEPT !.notice = call[s].status].target = tab.target
            BY <1>1 DEF Tabs, Calls
        <3> QED
            BY <2>3, <3>1, StayStep
    <2> QED
        BY <1>5, <2>1, <2>2, <2>3 DEF CreateEnds, JoinEnds
<1>6. CASE UpdateEnds(s)
    BY <1>1, <1>6, SaysFacts, StayStep DEF UpdateEnds
<1>7. CASE DeleteEnds(s)
    <2>1. CASE Succeeded(s)
        BY <1>1, <1>4, <1>7, <2>1, FreshTabFacts DEF DeleteEnds
    <2>2. CASE ~Succeeded(s)
        <3> DEFINE d == IF call[s].seen /\ Says(s, "none").dialog = "delete" THEN "none"
                        ELSE Says(s, "none").dialog
                   t == [Says(s, "none") EXCEPT !.dialog = d]
        <3>1. /\ Says(s, "none") \in Tabs /\ Says(s, "none").page = tab.page
              /\ Says(s, "none").target = tab.target
            BY <1>1, SaysFacts DEF Statuses
        <3>2. Stay(s, t)
            BY <1>7, <2>2, <3>1 DEF DeleteEnds, Tabs
        <3>3. d \in {"none", "create", "delete", "kick", "members", "invite"}
            BY <3>1 DEF Tabs
        <3> HIDE DEF d
        <3>4. t \in Tabs /\ t.page = tab.page /\ t.target = tab.target
            BY <3>1, <3>3 DEF Tabs
        <3> QED
            BY <3>2, <3>4, StayStep
    <2> QED
        BY <2>1, <2>2
<1>8. CASE RoleEnds(s)
    <2>1. tab.notice \in Statuses \cup {"updated", "error"}
        BY <1>1 DEF Tabs
    <2> QED
        BY <1>1, <1>8, <2>1, SaysFacts, StayStep DEF RoleEnds
<1>9. CASE KickEnds(s)
    <2> DEFINE d == IF Says(s, tab.notice).dialog = "kick" THEN "none"
                    ELSE Says(s, tab.notice).dialog
               t == [Says(s, tab.notice) EXCEPT !.target = None, !.dialog = d]
    <2>1. /\ Says(s, tab.notice) \in Tabs /\ Says(s, tab.notice).page = tab.page
          /\ Says(s, tab.notice).target = tab.target
        <3>1. tab.notice \in Statuses \cup {"updated", "error"}
            BY <1>1 DEF Tabs
        <3> QED
            BY <1>1, <3>1, SaysFacts
    <2>2. Stay(s, t) \/ Stay(s, tab)
        BY <1>9, <2>1 DEF KickEnds, Tabs
    <2>3. d \in {"none", "create", "delete", "kick", "members", "invite"}
        BY <2>1 DEF Tabs
    <2> HIDE DEF d
    <2>4. t \in Tabs /\ t.page = tab.page /\ t.target = None
        BY <2>1, <2>3 DEF Tabs
    <2> QED
        BY <1>1, <2>2, <2>4, StayStep
<1>10. CASE PopEnds(s)
    BY <1>1, <1>10, StayStep DEF PopEnds
<1>11. CASE InviteEnds(s)
    <2>1. PICK g \in Slot \cup {None}, l \in Values \cup {"none"} :
             Stay(s, [tab EXCEPT !.generating = g, !.inviteUrl = l])
        <3>1. PICK g : g = IF tab.generating = s THEN None ELSE tab.generating
            OBVIOUS
        <3>2. PICK l : l = IF Succeeded(s) /\ call[s].seen THEN call[s].value
                           ELSE tab.inviteUrl
            OBVIOUS
        <3>3. g \in Slot \cup {None} /\ l \in Values \cup {"none"}
            BY <1>1, <3>1, <3>2 DEF Tabs, Calls
        <3>4. Stay(s, [tab EXCEPT !.generating = g, !.inviteUrl = l])
            BY <1>1, <1>11, <3>1, <3>2 DEF InviteEnds, Tabs
        <3> QED
            BY <3>3, <3>4
    <2> DEFINE t == [tab EXCEPT !.generating = g, !.inviteUrl = l]
    <2>2. t \in Tabs /\ t.page = tab.page /\ t.target = tab.target
        BY <1>1 DEF Tabs
    <2> QED
        BY <2>1, <2>2, StayStep
<1> QED
    BY <1>5, <1>6, <1>7, <1>8, <1>9, <1>10, <1>11

LEMMA VisitStep ==
    ASSUME RoomIInv, (\E page \in {"home"} \cup RoomPage : Visit(page)) \/ OpenLink
    PROVE  RoomIInv'
<1>1. ASSUME NEW page \in {"home"} \cup RoomPage, Visit(page)
      PROVE  RoomIInv'
    <2>1. /\ FreshTab(page) \in Tabs /\ FreshTab(page).page = page
          /\ FreshTab(page).target = None
        BY FreshTabFacts DEF RoomIInv, PagesTypeOK, RoomPage
    <2> QED
        BY <1>1, <2>1, GoToStep DEF Visit, There
<1>2. CASE OpenLink
    <2>1. /\ UNCHANGED <<room, members, call, failed>> /\ tab' = FreshTab("invite")
          /\ query' = [k \in Query |-> NoEntry]
        BY <1>2 DEF OpenLink, roomVars
    <2>2. tab' \in Tabs /\ tab'.page = "invite" /\ tab'.target = None
        BY <2>1, FreshTabFacts DEF RoomIInv, PagesTypeOK
    <2>3. query'["room"] = NoEntry
        BY <2>1, RoomIsMounted
    <2>4. NoEntry \in Entries /\ NoEntry.pc = "idle" /\ NoEntry.data = None
        BY DEF NoEntry, Entries
    <2>5. PagesTypeOK'
        BY <2>1, <2>2, <2>3, <2>4 DEF PagesTypeOK
    <2>6. EntrySafe(query'["room"]) /\ PageSafe(tab'.page, query'["room"])
        BY <2>2, <2>3, <2>4 DEF EntrySafe, PageSafe, RoomPage
    <2>7. /\ call' \in [Slot -> Calls]
          /\ \A s \in Slot : Proper(call'[s]) /\ Follows(call'[s], call[s])
        BY <2>1 DEF RoomIInv, RoomsTypeOK, Follows
    <2> QED
        BY <2>1, <2>2, <2>5, <2>6, <2>7, TabStep
<1> QED
    BY <1>1, <1>2

\* The other browsers, and the network.
LEMMA OtherStep ==
    ASSUME RoomIInv,
           \/ \E u \in User : OtherActs(u)
           \/ \E s \in Slot : ConnectionFails(s) \/ OtherEnds(s)
    PROVE  RoomIInv'
<1>1. /\ UNCHANGED <<room, members, query, tab>> /\ (failed => failed')
      /\ tab \in Tabs /\ (~failed => (tab.target # None => Spared(tab.target)))
    BY DEF RoomIInv, PagesTypeOK, OwnerSafe, OtherActs, ConnectionFails, OtherEnds, bounds
<1>2. ASSUME /\ call' \in [Slot -> Calls]
             /\ \A s \in Slot : Proper(call'[s]) /\ Follows(call'[s], call[s])
      PROVE  RoomIInv'
    <2>1. ~failed' => (tab'.target # None => Spared(tab'.target))
        BY <1>1
    <2> QED
        BY <1>1, <1>2, <2>1, RequestStep
<1>3. ASSUME NEW u \in User, OtherActs(u)
      PROVE  RoomIInv'
    <2>1. CASE Send(Request("join", u, None, None))
        BY <2>1, <1>2, SendFacts DEF Kinds, Values
    <2>2. ASSUME NEW kind \in {"delete", "pop"}, Send(Request(kind, u, None, None))
          PROVE  RoomIInv'
        BY <2>2, <1>2, SendFacts DEF Kinds, Values
    <2>3. ASSUME NEW settings \in Settings, Send(Request("update", u, None, settings))
          PROVE  RoomIInv'
        BY <2>3, <1>2, SendFacts DEF Kinds, Values
    <2>4. ASSUME NEW t \in User, t # room.owner, There,
                 \/ Send(Request("kick", u, t, None))
                 \/ Send(Request("role", u, t, IF Manager(t) THEN "member" ELSE "admin"))
          PROVE  RoomIInv'
        <3>1. Spared(t)
            BY <2>4 DEF Spared
        <3> QED
            BY <2>4, <3>1, <1>2, SendFacts DEF Kinds, Values
    <2> QED
        BY <1>3, <2>1, <2>2, <2>3, <2>4 DEF OtherActs, Found, There
<1>4. ASSUME NEW s \in Slot, ConnectionFails(s)
      PROVE  RoomIInv'
    <2>1. /\ call[s] \in Calls /\ Proper(call[s]) /\ call[s].pc # "none"
          /\ call' = [call EXCEPT ![s] = Answer(call[s], "lost")]
        BY <1>4 DEF ConnectionFails, RoomIInv, RoomsTypeOK
    <2>2. /\ Answer(call[s], "lost") \in Calls /\ Proper(Answer(call[s], "lost"))
          /\ Answer(call[s], "lost").pc = "answered"
          /\ Answer(call[s], "lost").status = "lost"
        BY <2>1, AnswerFacts DEF Statuses
    <2>3. Follows(Answer(call[s], "lost"), call[s])
        BY <2>2 DEF Follows
    <2> QED
        BY <1>2, <2>1, <2>2, <2>3 DEF RoomIInv, RoomsTypeOK, Follows
<1>5. ASSUME NEW s \in Slot, OtherEnds(s)
      PROVE  RoomIInv'
    BY <1>2, <1>5, DoneFacts DEF OtherEnds
<1> QED
    BY <1>3, <1>4, <1>5

LEMMA ServiceKeeps ==
    ASSUME RoomIInv, ServiceStep
    PROVE  RoomIInv' /\ StaysButForLateCommits
<1>1. RoomsTypeOK /\ UNCHANGED <<query, tab, failed>>
      /\ ((\E s \in Slot : Serve(s) \/ UserUnknown(s)) \/ Clock)
    BY DEF RoomIInv, ServiceStep
<1>2. /\ RoomsTypeOK' /\ Later /\ StaysButForLateCommits
      /\ (\A s \in Slot : CallSafe(call[s])) /\ (There => Manager(room.owner)) =>
            /\ (There => Manager(room.owner))'
            /\ (\A s \in Slot : CallSafe(call[s]))'
    BY <1>1, ServeFacts
<1>3. ASSUME ~failed' PROVE OwnerSafe'
    <2>1. OwnerSafe
        BY <1>1, <1>3 DEF RoomIInv
    <2>2. /\ \A u : Spared(u) => Spared(u)'
          /\ Gone => Gone' /\ (There => There')
          /\ \A e : EntrySafe(e) => (EntrySafe(e))'
          /\ \A page, e : PageSafe(page, e) => (PageSafe(page, e))'
        BY <1>2, SafeLater
    <2>3. EntrySafe(query["room"])'
        BY <1>1, <2>1, <2>2 DEF OwnerSafe, EntrySafe
    <2>4. PageSafe(tab.page, query["room"])'
        <3>1. PICK page, e : page = tab.page /\ e = query["room"]
            OBVIOUS
        <3>2. (PageSafe(page, e))'
            BY <2>1, <2>2, <3>1 DEF OwnerSafe
        <3>3. page = tab'.page /\ e = query'["room"]
            BY <1>1, <3>1
        <3> QED
            BY <3>2, <3>3 DEF PageSafe
    <2>5. (tab.target # None => Spared(tab.target))'
        BY <1>1, <2>1, <2>2 DEF OwnerSafe, Spared
    <2> QED
        BY <1>2, <2>1, <2>3, <2>4, <2>5 DEF OwnerSafe
<1> QED
    BY <1>1, <1>2, <1>3 DEF RoomIInv, PagesTypeOK

LEMMA NextKeepsRoom ==
    ASSUME RoomIInv, [Next]_vars
    PROVE  RoomIInv'
<1>1. CASE ServiceStep
    BY <1>1, ServiceKeeps
<1>2. CASE UNCHANGED vars
    BY <1>2 DEF vars, roomVars, bounds, RoomIInv, RoomsTypeOK, PagesTypeOK, OwnerSafe,
       CallSafe, EntrySafe, PageSafe, Spared, There, Gone, Manager
<1>3. CASE \E u \in User \cup {None} : SetKickTarget(u)
    BY <1>3, SetKickTargetStep
<1>4. CASE \E k \in Query : FetchRead(k) \/ FetchEnds(k) \/ FetchFails(k)
    BY <1>4, FetchStep
<1>5. CASE (\E page \in {"home"} \cup RoomPage : Visit(page)) \/ OpenLink
    BY <1>5, VisitStep
<1>6. CASE \/ OpenCreate \/ CloseCreate \/ ToggleAutoPop \/ OpenDelete \/ CloseDelete
          \/ OpenMembers \/ CloseMembers \/ OpenInvite \/ CloseInvite
    BY <1>6, DialogsStep
<1>7. CASE \/ \E settings \in Settings :
                 \/ SubmitSettings(settings)
                 \/ \E popAt \in {"none", "future", "due"} : SubmitCreate(settings, popAt)
           \/ HandleDelete \/ HandleKick \/ ClickPop
           \/ \E uses \in {"single", "many"} : HandleGenerate(uses)
           \/ \E u \in User : HandleRoleToggle(u)
    BY <1>7, ClickStep
<1>8. CASE PostJoin
    BY <1>8, PostJoinStep
<1>9. CASE \E s \in Slot :
             \/ CreateEnds(s) \/ UpdateEnds(s) \/ DeleteEnds(s) \/ RoleEnds(s)
             \/ KickEnds(s) \/ PopEnds(s) \/ InviteEnds(s) \/ JoinEnds(s)
    BY <1>9, EndsStep
<1>10. CASE \/ \E u \in User : OtherActs(u)
           \/ \E s \in Slot : ConnectionFails(s) \/ OtherEnds(s)
    BY <1>10, OtherStep
<1> QED
    BY <1>1, <1>2, <1>3, <1>4, <1>5, <1>6, <1>7, <1>8, <1>9, <1>10 DEF Next

LEMMA InitRoom ==
    Init => RoomIInv
<1> SUFFICES ASSUME Init PROVE RoomIInv
    OBVIOUS
<1>1. /\ room # None => room \in RoomRow /\ ~room.deleted /\ Manager(room.owner)
      /\ members = [u \in User |-> members[u]]
    <2>1. CASE room = None
        BY <2>1 DEF Init
    <2>2. CASE room # None
        <3>1. PICK owner \in User, name \in Name, role \in {"admin", "member", "none"} :
                 /\ room = [owner |-> owner, settings |-> [name |-> name, text |-> NoText],
                            popAt |-> "future", popped |-> FALSE, deleted |-> FALSE]
                 /\ members = [u \in User |-> IF u = owner THEN "admin" ELSE role]
            BY <2>2 DEF Init
        <3>2. [name |-> name, text |-> NoText] \in Settings
            BY DEF Settings
        <3>3. room \in RoomRow /\ ~room.deleted /\ room.owner = owner
            BY <3>1, <3>2 DEF RoomRow
        <3> QED
            BY <3>1, <3>3 DEF Manager
    <2> QED
        BY <2>1, <2>2
<1>2. call = [s \in Slot |-> NoCall]
    BY DEF Init
<1>3. NoCall \in Calls /\ Proper(NoCall) /\ NoCall.pc = "none" /\ NoCall.kind = "none"
    BY DEF NoCall, Calls, Kinds, Progress, Statuses, Values, Proper
<1>4. RoomsTypeOK
    BY <1>1, <1>2, <1>3 DEF RoomsTypeOK, Past
<1>5. PICK page \in {"home", "chat", "settings", "invite"} :
        /\ page \in RoomPage => room # None
        /\ tab = [page |-> page, dialog |-> "none", target |-> None, autoPop |-> TRUE,
                  inviteUrl |-> "none", generating |-> None, notice |-> "none"]
        /\ query = [k \in Query |-> IF k \in MountedOn(page)
                                    THEN [NoEntry EXCEPT !.data = Read(k)] ELSE NoEntry]
    BY DEF Init, RoomPage
<1>6. tab \in Tabs /\ tab.page = page /\ tab.target = None
    BY <1>5 DEF Tabs, Statuses
<1>7. query["room"] = IF page \in RoomPage THEN [NoEntry EXCEPT !.data = Read("room")]
                      ELSE NoEntry
    BY <1>5, RoomIsMounted
<1>8. room # None => /\ Read("room") \in RoomData /\ Read("room").owner = room.owner
    BY <1>1 DEF Read, Found, RoomRow, RoomData
<1>9. /\ query["room"] \in Entries /\ query["room"].pc = "idle"
      /\ query["room"].data = IF page \in RoomPage THEN Read("room") ELSE None
    <2>1. CASE page \in RoomPage
        <3>1. Read("room") \in RoomData
            BY <1>5, <1>8, <2>1
        <3>2. query["room"] = [NoEntry EXCEPT !.data = Read("room")]
            BY <1>7, <2>1
        <3> QED
            BY <2>1, <3>1, <3>2 DEF NoEntry, Entries
    <2>2. CASE page \notin RoomPage
        <3>1. query["room"] = NoEntry
            BY <1>7, <2>2
        <3> QED
            BY <2>2, <3>1 DEF NoEntry, Entries
    <2> QED
        BY <2>1, <2>2
<1>10. PagesTypeOK
    BY <1>5, <1>6, <1>9 DEF PagesTypeOK
<1>11. EntrySafe(query["room"]) /\ PageSafe(tab.page, query["room"])
    BY <1>5, <1>6, <1>8, <1>9, RoomConstants DEF EntrySafe, PageSafe, There
<1>12. \A s \in Slot : CallSafe(call[s])
    BY <1>2, <1>3 DEF CallSafe
<1> QED
    BY <1>1, <1>4, <1>6, <1>10, <1>11, <1>12 DEF RoomIInv, OwnerSafe, There

----------------------------------------------------------------------------
(* What the pages show *)

\* The entries of the cache, of the shape of one and in their places.
EntryShape(e) ==
    e \in [pc : {e.pc}, data : {e.data}, read : {e.read}, stale : {e.stale},
           overtaken : {e.overtaken}]

CacheShape(cache) ==
    cache = [k \in Query |-> cache[k]] /\ \A k \in Query : EntryShape(cache[k])

\* Nobody changes the own role or removes the own account from the room.
SelfSafe(q) == q.by = Me /\ q.kind \in {"kick", "role"} => q.target # Me

SelfOK == tab.target # Me /\ \A s \in Slot : SelfSafe(call[s])

\* A link loads the tab anew; nothing of the room is asked for before there is one.
Empty(e) == e.pc = "idle" /\ e.data = None

EmptyOK ==
    /\ tab.page = "invite" => \A k \in Query : Empty(query[k])
    /\ room = None => \A k \in RoomQuery : Empty(query[k])

\* A person who is not in the room has no way to change it but to join, and waits
\* for that on the page of the link.
Outsider ==
    /\ Open /\ invite # "none" /\ members[Me] = "none"
    /\ query["role"].data = None /\ (query["role"].pc = "read" => query["role"].read = None)
    /\ tab.dialog \in {"none", "create", "members"} /\ tab.target = None
    /\ tab.page = "invite" => tab.notice = "none"
    /\ \A s \in Slot : call[s].by = Me =>
          /\ call[s].kind = "join" /\ call[s].pc \in {"sent", "checked", "writing"}
          /\ tab.page = "invite"

OutsiderOK == There /\ ~Active(Me) => Outsider

\* A request of this tab that has changed what k shows and has yet to invalidate it.
DueBy(q, k) == q.by = Me /\ q.pc = "answered" /\ q.status = "ok" /\ k \in Keys(q.kind)
Due(k)      == \E s \in Slot : DueBy(call[s], k)

\* What an entry holds is what the service would answer now, r, or a request is yet
\* to invalidate it, or it is marked; what is in use is not empty and marked only
\* if there is nothing to show (gone: the room was deleted).
Fits(e, r, due, gone, mounted) ==
    /\ e.pc = "read" => e.overtaken \/ e.read = r \/ due \/ gone
    /\ e.pc = "idle" => \/ e.overtaken \/ e.data = r \/ due \/ gone
                        \/ ~mounted /\ (e.data = None \/ e.stale)

FitsOK == \A k \in Query : Fits(query[k], Read(k), Due(k), Gone, Mounted(k))

\* Nobody else has acted, and no request failed.
Alone   == ~foreign /\ ~failed
TabOK   == CacheShape(query) /\ SelfOK /\ EmptyOK /\ OutsiderOK /\ FitsOK
AloneOK == Alone => TabOK

----------------------------------------------------------------------------
(* Steps of a tab that is alone *)

Still == UNCHANGED <<room, members, invite, failed, foreign>>

\* The request in a slot is the same, but for who waits for it.
SameRequest(q, r) ==
    /\ q.pc = r.pc /\ q.kind = r.kind /\ q.by = r.by /\ q.target = r.target
    /\ q.status = r.status

\* Requests are sent, others' end, dialogs open and close.
Sits ==
    /\ query' = query /\ tab'.page = tab.page
    /\ \A t \in Slot : \/ SameRequest(call'[t], call[t])
                       \/ call[t] = NoCall /\ call'[t].pc = "sent"
                       \/ call'[t] = NoCall /\ call[t].by # Me

\* The tab goes on to another page.
Arrives(page, cache) ==
    /\ \E old \in BOOLEAN : query' = MountedCache(cache, page, old)
    /\ tab'.page = page /\ page # "invite" /\ (page \in RoomPage => There)

Moves ==
    /\ \E page : Arrives(page, query)
    /\ \A t \in Slot : SameRequest(call'[t], call[t])

\* A request of the tab ends, here or on another page.
Finishes(s) ==
    /\ call[s].by = Me /\ call[s].pc = "answered"
    /\ \/ query' = Settled(s) /\ tab'.page = tab.page
       \/ \E page : Arrives(page, Settled(s))
    /\ call'[s].by # Me /\ \A t \in Slot \ {s} : SameRequest(call'[t], call[t])

\* The tab goes to a page with its requests as they are, or one of them done.
LEMMA GoToCalls ==
    ASSUME NEW next, NEW cache, NEW requests \in [Slot -> Calls], GoTo(next, cache, requests)
    PROVE  \A t \in Slot : SameRequest(call'[t], requests[t])
<1>1. ASSUME NEW t \in Slot PROVE SameRequest(call'[t], requests[t])
    <2>1. PICK w : call'[t] = [requests[t] EXCEPT !.seen = w]
        BY DEF GoTo
    <2>2. requests[t] \in Calls
        OBVIOUS
    <2> QED
        BY <2>1, <2>2 DEF Calls, SameRequest
<1> QED
    BY <1>1

LEMMA DoneCalls ==
    ASSUME RoomsTypeOK, NEW s \in Slot
    PROVE  /\ Done(s) \in [Slot -> Calls] /\ Done(s)[s].by # Me
           /\ \A t \in Slot \ {s} : Done(s)[t] = call[t]
<1>1. NoCall \in Calls /\ NoCall.by = None
    BY DEF NoCall, Calls, Kinds, Progress, Statuses, Values
<1>2. None # Me
    BY RoomConstants, PageConstants
<1> QED
    BY <1>1, <1>2 DEF Done, RoomsTypeOK

LEMMA FinishesStep ==
    ASSUME RoomIInv, ~failed, NEW s \in Slot,
           \/ CreateEnds(s) \/ UpdateEnds(s) \/ DeleteEnds(s) \/ RoleEnds(s)
           \/ KickEnds(s) \/ PopEnds(s) \/ InviteEnds(s) \/ JoinEnds(s)
    PROVE  Still /\ Finishes(s)
<1>1. /\ RoomsTypeOK /\ tab \in Tabs /\ CallSafe(call[s])
      /\ Done(s) \in [Slot -> Calls] /\ Done(s)[s].by # Me
      /\ \A t \in Slot \ {s} : Done(s)[t] = call[t]
    BY DoneCalls DEF RoomIInv, PagesTypeOK, OwnerSafe
<1>2. call[s].by = Me /\ call[s].pc = "answered"
    BY DEF CreateEnds, UpdateEnds, DeleteEnds, RoleEnds, KickEnds, PopEnds, InviteEnds,
       JoinEnds, Ended, Mine
<1>3. ASSUME NEW next, next.page \in {"home", "chat"},
             GoTo(next, Settled(s), Done(s)), Keep, next.page = "chat" => There
      PROVE  Still /\ Finishes(s)
    <2>1. \A t \in Slot : SameRequest(call'[t], Done(s)[t])
        BY <1>1, <1>3, GoToCalls
    <2>2. Arrives(next.page, Settled(s))
        BY <1>3 DEF GoTo, Arrives, RoomPage
    <2> QED
        BY <1>1, <1>2, <1>3, <2>1, <2>2 DEF Finishes, Still, Keep, bounds, SameRequest
<1>4. ASSUME NEW t, Stay(s, t), t.page = tab.page
      PROVE  Still /\ Finishes(s)
    BY <1>1, <1>2, <1>4 DEF Stay, Keep, bounds, Still, Finishes, SameRequest
<1>5. CASE CreateEnds(s) \/ JoinEnds(s)
    <2>1. ASSUME NEW t, t = Created \/ t = FreshTab("chat"),
                 GoTo(t, Settled(s), Done(s)), Keep, Succeeded(s)
          PROVE  Still /\ Finishes(s)
        <3>1. There
            BY <1>1, <1>5, <2>1 DEF CallSafe, CreateEnds, JoinEnds, Ended, Succeeded
        <3>2. t.page = "chat"
            BY <1>1, <2>1, FreshTabFacts, CreatedFacts
        <3> QED
            BY <1>3, <2>1, <3>1, <3>2
    <2>2. ASSUME NEW t, Stay(s, t), t = tab \/ t = [tab EXCEPT !.notice = call[s].status]
          PROVE  Still /\ Finishes(s)
        BY <1>1, <1>4, <2>2 DEF Tabs
    <2> QED
        BY <1>5, <2>1, <2>2 DEF CreateEnds, JoinEnds
<1>6. \A good : Says(s, good).page = tab.page
    BY <1>1 DEF Says, Tabs
<1>7. CASE UpdateEnds(s) \/ RoleEnds(s) \/ PopEnds(s)
    BY <1>4, <1>6, <1>7 DEF UpdateEnds, RoleEnds, PopEnds
<1>8. CASE DeleteEnds(s)
    <2>1. CASE Succeeded(s)
        BY <1>1, <1>3, <1>8, <2>1, FreshTabFacts DEF DeleteEnds
    <2>2. CASE ~Succeeded(s)
        <3>1. PICK d : Stay(s, [Says(s, "none") EXCEPT !.dialog = d])
            BY <1>8, <2>2 DEF DeleteEnds
        <3>2. Says(s, "none") \in Tabs
            BY <1>1, SaysFacts DEF Statuses
        <3>3. [Says(s, "none") EXCEPT !.dialog = d].page = tab.page
            BY <1>6, <3>2 DEF Tabs
        <3> QED
            BY <1>4, <3>1, <3>3
    <2> QED
        BY <2>1, <2>2
<1>9. CASE KickEnds(s)
    <2>1. PICK d : \/ Stay(s, [Says(s, tab.notice) EXCEPT !.target = None, !.dialog = d])
                   \/ Stay(s, tab)
        BY <1>9 DEF KickEnds
    <2>2. Says(s, tab.notice) \in Tabs
        BY <1>1, SaysFacts DEF Tabs
    <2>3. [Says(s, tab.notice) EXCEPT !.target = None, !.dialog = d].page = tab.page
        BY <1>6, <2>2 DEF Tabs
    <2> QED
        BY <1>4, <2>1, <2>3
<1>10. CASE InviteEnds(s)
    <2>1. PICK t, g, l : Stay(s, t) /\ t = [tab EXCEPT !.generating = g, !.inviteUrl = l]
        BY <1>10 DEF InviteEnds
    <2> QED
        BY <1>1, <1>4, <2>1 DEF Tabs
<1> QED
    BY <1>5, <1>7, <1>8, <1>9, <1>10

LEMMA MovesStep ==
    ASSUME RoomIInv, NEW page \in {"home"} \cup RoomPage, Visit(page)
    PROVE  Still /\ Moves
<1>1. call \in [Slot -> Calls] /\ tab \in Tabs
    BY DEF RoomIInv, RoomsTypeOK, PagesTypeOK
<1>2. \A t \in Slot : SameRequest(call'[t], call[t])
    BY <1>1, GoToCalls DEF Visit
<1>3. Arrives(page, query)
    BY <1>1, FreshTabFacts DEF Visit, GoTo, Arrives, RoomPage, There
<1> QED
    BY <1>2, <1>3 DEF Visit, Moves, Still

\* A request takes a free slot.
LEMMA SendSits ==
    ASSUME RoomsTypeOK, NEW kind, NEW u, NEW x, NEW v, Send(Request(kind, u, x, v))
    PROVE  \A t \in Slot : \/ SameRequest(call'[t], call[t])
                           \/ call[t] = NoCall /\ call'[t].pc = "sent"
<1>1. Request(kind, u, x, v).pc = "sent"
    BY DEF Request, NoCall
<1> QED
    BY <1>1 DEF Send, SameRequest, RoomsTypeOK

LEMMA ClickSits ==
    ASSUME RoomIInv,
           \/ \E settings \in Settings :
                 \/ SubmitSettings(settings)
                 \/ \E popAt \in {"none", "future", "due"} : SubmitCreate(settings, popAt)
           \/ HandleDelete \/ HandleKick \/ ClickPop
           \/ \E uses \in {"single", "many"} : HandleGenerate(uses)
           \/ \E u \in User : HandleRoleToggle(u) \/ OtherActs(u)
    PROVE  Still /\ Sits
<1> DEFINE Sends == \E kind, u, x, v : Send(Request(kind, u, x, v))
<1>1. tab \in Tabs /\ RoomsTypeOK
    BY DEF RoomIInv, PagesTypeOK
<1>2. tab'.page = tab.page
    BY <1>1 DEF SubmitSettings, SubmitCreate, HandleDelete, HandleKick, ClickPop, HandleGenerate,
       HandleRoleToggle, OtherActs, Tabs
<1>3. Still /\ query' = query
    BY DEF SubmitSettings, SubmitCreate, HandleDelete, HandleKick, ClickPop, HandleGenerate,
       HandleRoleToggle, OtherActs, Mutate, Still
<1>4. Sends
    BY DEF SubmitSettings, SubmitCreate, HandleDelete, HandleKick, ClickPop, HandleGenerate,
       HandleRoleToggle, OtherActs, Mutate
<1> QED
    BY <1>1, <1>2, <1>3, <1>4, SendSits DEF Sits

LEMMA DialogsSit ==
    ASSUME RoomIInv,
           \/ OpenCreate \/ CloseCreate \/ ToggleAutoPop \/ OpenDelete \/ CloseDelete
           \/ OpenMembers \/ CloseMembers \/ OpenInvite \/ CloseInvite
           \/ \E u \in User \cup {None} : SetKickTarget(u)
    PROVE  Still /\ Sits
<1>1. UNCHANGED <<roomVars, query, bounds>>
    BY DEF OpenCreate, CloseCreate, ToggleAutoPop, OpenDelete, CloseDelete, OpenMembers,
       CloseMembers, OpenInvite, CloseInvite, Dialog, SetKickTarget
<1>2. tab \in Tabs
    BY DEF RoomIInv, PagesTypeOK
<1>3. tab'.page = tab.page
    <2>1. CASE OpenCreate \/ CloseCreate \/ ToggleAutoPop \/ OpenDelete \/ CloseDelete
        BY <1>2, <2>1 DEF OpenCreate, CloseCreate, ToggleAutoPop, OpenDelete, CloseDelete,
           Dialog, Tabs
    <2>2. CASE OpenMembers \/ CloseMembers \/ OpenInvite \/ CloseInvite
        BY <1>2, <2>2 DEF OpenMembers, CloseMembers, OpenInvite, CloseInvite, Dialog, Tabs
    <2>3. CASE \E u \in User \cup {None} : SetKickTarget(u)
        BY <1>2, <2>3 DEF SetKickTarget, Tabs
    <2> QED
        BY <2>1, <2>2, <2>3
<1> QED
    BY <1>1, <1>3 DEF roomVars, bounds, Still, Sits, SameRequest

LEMMA PostJoinSits ==
    ASSUME RoomIInv, PostJoin
    PROVE  Still /\ Sits
<1>1. call \in [Slot -> Calls]
    BY DEF RoomIInv, RoomsTypeOK
<1>2. PICK s \in Slot :
         /\ call[s] = NoCall
         /\ call' = [t \in Slot |-> IF t = s THEN Request("join", Me, None, None)
                                    ELSE [call[t] EXCEPT !.seen = @ /\ t \notin Mine]]
    BY DEF PostJoin
<1>3. call'[s].pc = "sent"
    BY <1>2 DEF Request, NoCall
<1>4. ASSUME NEW t \in Slot \ {s} PROVE SameRequest(call'[t], call[t])
    <2>1. PICK w : call'[t] = [call[t] EXCEPT !.seen = w]
        BY <1>2
    <2>2. call[t] \in Calls
        BY <1>1
    <2> QED
        BY <2>1, <2>2 DEF Calls, SameRequest
<1> QED
    BY <1>2, <1>3, <1>4 DEF PostJoin, Still, Sits

LEMMA AloneSteps ==
    ASSUME RoomIInv, [Next]_vars, Alone'
    PROVE  /\ Alone
           /\ \/ \E s \in Slot : Serve(s) /\ call[s].by = Me /\ UNCHANGED <<query, tab>>
              \/ /\ Still
                 /\ \/ \E k \in Query : FetchRead(k) \/ FetchEnds(k)
                    \/ OpenLink \/ Sits \/ Moves
                    \/ \E s \in Slot : Finishes(s)
<1> DEFINE Serves == \E s \in Slot : Serve(s) /\ call[s].by = Me /\ UNCHANGED <<query, tab>>
           Stills == /\ Still
                     /\ \/ \E k \in Query : FetchRead(k) \/ FetchEnds(k)
                        \/ OpenLink \/ Sits \/ Moves
                        \/ \E s \in Slot : Finishes(s)
<1> SUFFICES Alone /\ (Serves \/ Stills)
    OBVIOUS
<1>1. Stills => Alone
    BY DEF Still, Alone
<1>2. CASE ServiceStep
    <2>1. CASE foreign' = TRUE
        BY <2>1 DEF Alone
    <2>2. ASSUME NEW s \in Slot, Serve(s), foreign' = (foreign \/ s \notin Mine),
                 UNCHANGED <<query, tab, failed>>
          PROVE  Alone /\ Serves
        BY <2>2 DEF Alone, Mine
    <2> QED
        BY <1>2, <2>1, <2>2 DEF ServiceStep
<1>3. CASE UNCHANGED vars
    BY <1>1, <1>3 DEF vars, roomVars, bounds, Still, Sits, SameRequest
<1>4. CASE \/ \E u \in User \cup {None} : SetKickTarget(u)
           \/ OpenCreate \/ CloseCreate \/ ToggleAutoPop \/ OpenDelete \/ CloseDelete
           \/ OpenMembers \/ CloseMembers \/ OpenInvite \/ CloseInvite
    BY <1>1, <1>4, DialogsSit
<1>5. ASSUME NEW k \in Query, FetchRead(k) \/ FetchEnds(k)
      PROVE  Stills
    BY <1>5 DEF FetchRead, FetchEnds, roomVars, bounds, Still
<1>6. ASSUME NEW k \in Query, FetchFails(k)
      PROVE  FALSE
    BY <1>6 DEF FetchFails, Alone
<1>7. ASSUME NEW page \in {"home"} \cup RoomPage, Visit(page)
      PROVE  Stills
    BY <1>7, MovesStep
<1>8. CASE OpenLink
    BY <1>1, <1>8 DEF OpenLink, roomVars, Still
<1>9. CASE \/ \E settings \in Settings :
                 \/ SubmitSettings(settings)
                 \/ \E popAt \in {"none", "future", "due"} : SubmitCreate(settings, popAt)
           \/ HandleDelete \/ HandleKick \/ ClickPop
           \/ \E uses \in {"single", "many"} : HandleGenerate(uses)
           \/ \E u \in User : HandleRoleToggle(u) \/ OtherActs(u)
    BY <1>1, <1>9, ClickSits
<1>10. CASE PostJoin
    BY <1>1, <1>10, PostJoinSits
<1>11. ASSUME NEW s \in Slot,
              \/ CreateEnds(s) \/ UpdateEnds(s) \/ DeleteEnds(s) \/ RoleEnds(s)
              \/ KickEnds(s) \/ PopEnds(s) \/ InviteEnds(s) \/ JoinEnds(s)
      PROVE  Stills
    <2>1. ~failed
        BY <1>11 DEF Alone, CreateEnds, UpdateEnds, DeleteEnds, RoleEnds, KickEnds, PopEnds,
           InviteEnds, JoinEnds, Stay, Keep, bounds
    <2> QED
        BY <1>11, <2>1, FinishesStep
<1>12. ASSUME NEW s \in Slot, ConnectionFails(s)
      PROVE  FALSE
    BY <1>12 DEF ConnectionFails, Alone
<1>13. ASSUME NEW s \in Slot, OtherEnds(s)
      PROVE  Stills
    BY <1>13 DEF OtherEnds, bounds, Still, Sits, SameRequest, Mine, Done, RoomIInv, RoomsTypeOK
<1> HIDE DEF Serves, Stills
<1> QED
    BY <1>1, <1>2, <1>3, <1>4, <1>5, <1>6, <1>7, <1>8, <1>9, <1>10, <1>11, <1>12, <1>13 DEF Next

----------------------------------------------------------------------------
(* The shape of the cache *)

LEMMA EntryFacts ==
    ASSUME NEW e, EntryShape(e), NEW a
    PROVE  /\ EntryShape(Asked(e)) /\ Asked(e).pc = "asked" /\ Asked(e).data = e.data
           /\ EntryShape(Outdated(e))
           /\ EntryShape([e EXCEPT !.pc = "read", !.read = a])
           /\ EntryShape([e EXCEPT !.pc = "idle", !.stale = TRUE])
           /\ EntryShape([e EXCEPT !.pc = "idle", !.read = None, !.data = a, !.stale = FALSE])
<1>1. EntryShape(Asked(e)) /\ Asked(e).pc = "asked" /\ Asked(e).data = e.data
    BY DEF EntryShape, Asked
<1>2. EntryShape(Outdated(e))
    <2>1. PICK b : b = (e.pc = "read")
        OBVIOUS
    <2>2. EntryShape([e EXCEPT !.stale = TRUE, !.overtaken = b])
        BY DEF EntryShape
    <2> QED
        BY <2>1, <2>2 DEF Outdated
<1>3. EntryShape([e EXCEPT !.pc = "read", !.read = a])
    BY DEF EntryShape
<1>4. EntryShape([e EXCEPT !.pc = "idle", !.stale = TRUE])
    BY DEF EntryShape
<1>5. EntryShape([e EXCEPT !.pc = "idle", !.read = None, !.data = a, !.stale = FALSE])
    BY DEF EntryShape
<1> QED
    BY <1>1, <1>2, <1>3, <1>4, <1>5

\* A mark changes nothing else, but that an answer under way is of the past.
LEMMA OutdatedFacts ==
    ASSUME NEW e, EntryShape(e)
    PROVE  /\ Outdated(e).pc = e.pc /\ Outdated(e).data = e.data /\ Outdated(e).stale
           /\ e.pc = "read" => Outdated(e).overtaken
<1>1. PICK b : b = (e.pc = "read")
    OBVIOUS
<1>2. Outdated(e) = [e EXCEPT !.stale = TRUE, !.overtaken = b]
    BY <1>1 DEF Outdated
<1>3. /\ Outdated(e).pc = e.pc /\ Outdated(e).data = e.data /\ Outdated(e).stale
      /\ Outdated(e).overtaken = b
    BY <1>2 DEF EntryShape
<1> QED
    BY <1>1, <1>3

LEMMA MountShape ==
    ASSUME NEW cache, CacheShape(cache), NEW page, NEW old
    PROVE  CacheShape(MountedCache(cache, page, old))
<1>1. ASSUME NEW k \in Query PROVE EntryShape(MountedCache(cache, page, old)[k])
    BY EntryFacts DEF MountedCache, CacheShape
<1>2. MountedCache(cache, page, old) = [k \in Query |-> MountedCache(cache, page, old)[k]]
    BY DEF MountedCache
<1> QED
    BY <1>1, <1>2 DEF CacheShape

\* What a success invalidates is fetched again, or marked; the rest stays.
LEMMA SettledFacts ==
    ASSUME CacheShape(query), NEW s
    PROVE  /\ CacheShape(Settled(s))
           /\ \A k \in Query :
                Settled(s)[k] = IF ~(Succeeded(s) /\ k \in Keys(call[s].kind)) THEN query[k]
                                ELSE IF Mounted(k) THEN Asked(query[k])
                                ELSE Outdated(query[k])
<1>1. ASSUME NEW k \in Query
      PROVE  Settled(s)[k] = IF ~(Succeeded(s) /\ k \in Keys(call[s].kind)) THEN query[k]
                             ELSE IF Mounted(k) THEN Asked(query[k])
                             ELSE Outdated(query[k])
    BY DEF Settled, Invalidated
<1>2. \A k \in Query : EntryShape(Settled(s)[k])
    BY <1>1, EntryFacts DEF CacheShape
<1>3. Settled(s) = [k \in Query |-> Settled(s)[k]]
    BY DEF Settled, Invalidated, CacheShape
<1> QED
    BY <1>1, <1>2, <1>3 DEF CacheShape

LEMMA FetchShape ==
    ASSUME CacheShape(query), NEW k \in Query, FetchRead(k) \/ FetchEnds(k)
    PROVE  CacheShape(query') /\ \A j \in Query \ {k} : query'[j] = query[j]
<1>1. PICK r : r = Read(k)
    OBVIOUS
<1>2. PICK d : d = query[k].read
    OBVIOUS
<1>3. EntryShape(query[k])
    BY DEF CacheShape
<1>4. PICK e : EntryShape(e) /\ query' = [query EXCEPT ![k] = e]
    <2>1. CASE FetchRead(k)
        <3>1. query' = [query EXCEPT ![k] = [query[k] EXCEPT !.pc = "read", !.read = r]]
            BY <1>1, <2>1 DEF FetchRead
        <3> QED
            BY <1>3, <3>1, EntryFacts
    <2>2. CASE FetchEnds(k) /\ d = None
        <3>1. query' = [query EXCEPT ![k] = [query[k] EXCEPT !.pc = "idle", !.stale = TRUE]]
            BY <1>2, <2>2 DEF FetchEnds
        <3> QED
            BY <1>3, <3>1, EntryFacts
    <2>3. CASE FetchEnds(k) /\ d # None
        <3>1. query' = [query EXCEPT ![k] = [query[k] EXCEPT !.pc = "idle", !.read = None,
                                                             !.data = d, !.stale = FALSE]]
            BY <1>2, <2>3 DEF FetchEnds
        <3> QED
            BY <1>3, <3>1, EntryFacts
    <2> QED
        BY <2>1, <2>2, <2>3
<1> QED
    BY <1>4 DEF CacheShape

LEMMA CacheStep ==
    ASSUME CacheShape(query),
           \/ UNCHANGED query \/ OpenLink \/ Moves
           \/ \E k \in Query : FetchRead(k) \/ FetchEnds(k)
           \/ \E s \in Slot : Finishes(s)
    PROVE  CacheShape(query')
<1>1. CASE OpenLink
    <2>1. EntryShape(NoEntry)
        BY DEF NoEntry, EntryShape
    <2> QED
        BY <1>1, <2>1 DEF OpenLink, CacheShape
<1>2. CASE \E s \in Slot : Finishes(s)
    BY <1>2, SettledFacts, MountShape DEF Finishes, Arrives
<1>3. CASE Moves
    BY <1>3, MountShape DEF Moves, Arrives
<1>4. CASE \E k \in Query : FetchRead(k) \/ FetchEnds(k)
    BY <1>4, FetchShape
<1> QED
    BY <1>1, <1>2, <1>3, <1>4

----------------------------------------------------------------------------
(* What a tab does next *)

\* The end of a request leaves the target of the dialog, or clears it.
LEMMA EndsTarget ==
    ASSUME RoomIInv, NEW s \in Slot,
           \/ CreateEnds(s) \/ UpdateEnds(s) \/ DeleteEnds(s) \/ RoleEnds(s)
           \/ KickEnds(s) \/ PopEnds(s) \/ InviteEnds(s) \/ JoinEnds(s)
    PROVE  tab'.target \in {None, tab.target}
<1>1. tab \in Tabs
    BY DEF RoomIInv, PagesTypeOK
<1>2. ASSUME tab' \in {FreshTab("home"), FreshTab("chat"), Created}
      PROVE  tab'.target = None
    BY <1>1, <1>2, FreshTabFacts, CreatedFacts
<1>3. \A good : Says(s, good).target = tab.target
    BY <1>1 DEF Says, Tabs
<1>4. CASE CreateEnds(s) \/ JoinEnds(s)
    BY <1>1, <1>2, <1>4 DEF CreateEnds, JoinEnds, GoTo, Stay, Tabs
<1>5. CASE UpdateEnds(s) \/ RoleEnds(s) \/ PopEnds(s)
    BY <1>3, <1>5 DEF UpdateEnds, RoleEnds, PopEnds, Stay
<1>6. CASE DeleteEnds(s)
    <2>1. CASE Succeeded(s)
        BY <1>2, <1>6, <2>1 DEF DeleteEnds, GoTo
    <2>2. CASE ~Succeeded(s)
        <3>1. PICK d : tab' = [Says(s, "none") EXCEPT !.dialog = d]
            BY <1>6, <2>2 DEF DeleteEnds, Stay
        <3>2. Says(s, "none") \in Tabs
            BY <1>1, SaysFacts DEF Statuses
        <3> QED
            BY <1>3, <3>1, <3>2 DEF Tabs
    <2> QED
        BY <2>1, <2>2
<1>7. CASE KickEnds(s)
    <2>1. PICK d : \/ tab' = [Says(s, tab.notice) EXCEPT !.target = None, !.dialog = d]
                   \/ tab' = tab
        BY <1>7 DEF KickEnds, Stay
    <2>2. Says(s, tab.notice) \in Tabs
        BY <1>1, SaysFacts DEF Tabs
    <2> QED
        BY <2>1, <2>2 DEF Tabs
<1>8. CASE InviteEnds(s)
    BY <1>1, <1>8 DEF InviteEnds, Stay, Tabs
<1> QED
    BY <1>4, <1>5, <1>6, <1>7, <1>8

\* An answer of this tab's requests ends, or the tab shows another page, or only
\* a dialog, its target and a notice change, as the page allows.
AnswerEnds == \E s \in Slot : call[s].by = Me /\ call[s].pc = "answered"

GoesOn ==
    /\ tab'.dialog \in {tab.dialog, "none"} /\ tab'.target = None
    /\ \/ tab'.page # "invite" /\ (tab.page = "invite" => tab.notice # "none")
       \/ tab.page # "invite" /\ tab'.notice = "none"

Remains ==
    /\ tab'.page = tab.page /\ tab'.notice \in {tab.notice, "none"}
    /\ tab'.dialog \in {tab.dialog, "none", "create", "members"} \/ IsAdmin
    /\ \/ tab'.target \in {None, tab.target}
       \/ \E u \in User : CanManage(u) /\ tab'.target = u

LEMMA TabFacts ==
    ASSUME RoomIInv, [Next]_vars
    PROVE  \/ AnswerEnds /\ tab'.target \in {None, tab.target}
           \/ GoesOn \/ Remains
<1> DEFINE Goal == \/ AnswerEnds /\ tab'.target \in {None, tab.target}
                   \/ GoesOn \/ Remains
<1> SUFFICES Goal
    OBVIOUS
<1>1. tab \in Tabs
    BY DEF RoomIInv, PagesTypeOK
<1>2. tab' = tab => Goal
    BY DEF Remains
<1>3. ASSUME NEW settings \in Settings, SubmitSettings(settings)
      PROVE  Goal
    BY <1>1, <1>3 DEF SubmitSettings, Remains, Tabs
<1>4. ASSUME NEW d \in {"none", "create", "members", "delete", "invite"},
             tab' = [tab EXCEPT !.dialog = d], d \in {"delete", "invite"} => IsAdmin
      PROVE  Goal
    BY <1>1, <1>4 DEF Remains, Tabs
<1>5. CASE OpenCreate \/ OpenMembers \/ CloseMembers \/ OpenDelete \/ CloseDelete \/ OpenInvite
    BY <1>4, <1>5 DEF OpenCreate, OpenMembers, CloseMembers, OpenDelete, CloseDelete, OpenInvite,
       Dialog
<1>6. CASE CloseCreate \/ ToggleAutoPop \/ CloseInvite
    BY <1>1, <1>6 DEF CloseCreate, ToggleAutoPop, CloseInvite, Remains, Tabs
<1>7. ASSUME NEW u \in User \cup {None}, SetKickTarget(u)
      PROVE  Goal
    <2>1. CASE u = None
        BY <1>1, <1>7, <2>1 DEF SetKickTarget, Remains, Tabs
    <2>2. CASE u # None
        BY <1>1, <1>7, <2>2 DEF SetKickTarget, CanManage, Remains, Tabs
    <2> QED
        BY <2>1, <2>2
<1>8. ASSUME NEW page \in {"home", "chat", "settings", "invite"}, tab' = FreshTab(page)
      PROVE  /\ tab'.page = page /\ tab'.notice = "none" /\ tab'.target = None
             /\ tab'.dialog \in {tab.dialog, "none"}
    BY <1>1, <1>8 DEF FreshTab, Tabs
<1>9. ASSUME NEW page \in {"home"} \cup RoomPage, Visit(page)
      PROVE  Goal
    <2>1. tab' = FreshTab(page) /\ page \in {"home", "chat", "settings"}
        BY <1>9 DEF Visit, GoTo, RoomPage
    <2> QED
        BY <1>8, <1>9, <2>1 DEF Visit, GoesOn
<1>10. CASE OpenLink
    BY <1>8, <1>10 DEF OpenLink, GoesOn
<1>11. ASSUME NEW s \in Slot,
              \/ CreateEnds(s) \/ UpdateEnds(s) \/ DeleteEnds(s) \/ RoleEnds(s)
              \/ KickEnds(s) \/ PopEnds(s) \/ InviteEnds(s) \/ JoinEnds(s)
      PROVE  Goal
    <2>1. AnswerEnds
        BY <1>11 DEF CreateEnds, UpdateEnds, DeleteEnds, RoleEnds, KickEnds, PopEnds,
           InviteEnds, JoinEnds, Ended, Mine, AnswerEnds
    <2> QED
        BY <1>11, <2>1, EndsTarget
<1>12. CASE \/ \E settings \in Settings, popAt \in {"none", "future", "due"} :
                  SubmitCreate(settings, popAt)
            \/ HandleDelete \/ HandleKick \/ ClickPop \/ PostJoin
            \/ \E u \in User : HandleRoleToggle(u) \/ OtherActs(u)
    <2>1. tab' = tab
        BY <1>12 DEF SubmitCreate, HandleDelete, HandleKick, ClickPop, PostJoin, HandleRoleToggle,
           OtherActs
    <2> QED
        BY <1>2, <2>1
<1>13. ASSUME NEW uses \in {"single", "many"}, HandleGenerate(uses)
       PROVE  Goal
    <2>1. PICK s : tab' = [tab EXCEPT !.generating = s]
        BY <1>13 DEF HandleGenerate
    <2> QED
        BY <1>1, <2>1 DEF Remains, Tabs
<1>14. CASE \/ ServiceStep \/ UNCHANGED vars
            \/ \E k \in Query : FetchRead(k) \/ FetchEnds(k) \/ FetchFails(k)
            \/ \E s \in Slot : ConnectionFails(s) \/ OtherEnds(s)
    <2>1. tab' = tab
        BY <1>14 DEF ServiceStep, vars, FetchRead, FetchEnds, FetchFails, ConnectionFails,
           OtherEnds
    <2> QED
        BY <1>2, <2>1
<1> HIDE DEF Goal
<1> QED
    BY <1>3, <1>5, <1>6, <1>7, <1>9, <1>10, <1>11, <1>12, <1>13, <1>14 DEF Next

\* What a request of this tab tells of the page that sent it.
Offered(q) ==
    \/ q.kind = "join" /\ tab.page = "invite" /\ tab'.page = "invite"
    \/ q.kind = "create" /\ room = None
    \/ q.kind \in {"update", "role", "pop"} /\ IsAdmin /\ (q.kind = "role" => q.target # Me)
    \/ q.kind \in {"delete", "invite"} /\ tab.dialog = q.kind
    \/ q.kind = "kick" /\ q.target = tab.target /\ tab.target # None

LEMMA SentFacts ==
    ASSUME RoomIInv, [Next]_vars, Alone', NEW t \in Slot,
           call[t] = NoCall, call'[t].pc = "sent", call'[t].by = Me
    PROVE  Offered(call'[t])
<1>1. NoCall.pc = "none" /\ NoCall.by = None /\ None # Me
    BY RoomConstants, PageConstants DEF NoCall
<1>2. call \in [Slot -> Calls]
    BY DEF RoomIInv, RoomsTypeOK
<1>3. ASSUME NEW kind, NEW u, NEW x, NEW v, Send(Request(kind, u, x, v))
      PROVE  call'[t].kind = kind /\ call'[t].by = u /\ call'[t].target = x
    <2>1. call'[t] = Request(kind, u, x, v)
        BY <1>1, <1>2, <1>3 DEF Send
    <2> QED
        BY <2>1 DEF Request, NoCall
<1>4. ASSUME SameRequest(call'[t], call[t]) \/ call'[t] = NoCall
      PROVE  FALSE
    BY <1>1, <1>4 DEF SameRequest
<1>5. CASE \E settings \in Settings : SubmitSettings(settings)
    BY <1>3, <1>5 DEF SubmitSettings, Mutate, Offered
<1>6. CASE \E settings \in Settings, popAt \in {"none", "future", "due"} :
              SubmitCreate(settings, popAt)
    BY <1>3, <1>6 DEF SubmitCreate, Mutate, Offered
<1>7. CASE HandleDelete
    BY <1>3, <1>7 DEF HandleDelete, Mutate, Offered
<1>8. CASE HandleKick
    BY <1>3, <1>8 DEF HandleKick, Mutate, Offered
<1>9. CASE ClickPop
    BY <1>3, <1>9 DEF ClickPop, Mutate, Offered
<1>10. CASE \E uses \in {"single", "many"} : HandleGenerate(uses)
    BY <1>3, <1>10 DEF HandleGenerate, Mutate, Offered
<1>11. ASSUME NEW u \in User, HandleRoleToggle(u)
       PROVE  Offered(call'[t])
    <2>1. PICK v : Send(Request("role", Me, u, v))
        BY <1>11 DEF HandleRoleToggle, Mutate
    <2>2. IsAdmin /\ u # Me
        BY <1>11 DEF HandleRoleToggle, CanManage
    <2> QED
        BY <1>3, <2>1, <2>2 DEF Offered
<1>12. ASSUME NEW u \in User, OtherActs(u)
       PROVE  FALSE
    <2>1. PICK kind, x, v : Send(Request(kind, u, x, v))
        BY <1>12 DEF OtherActs
    <2> QED
        BY <1>3, <1>12, <2>1 DEF OtherActs
<1>13. CASE PostJoin
    <2>1. PICK s \in Slot :
            call' = [r \in Slot |-> IF r = s THEN Request("join", Me, None, None)
                                    ELSE [call[r] EXCEPT !.seen = @ /\ r \notin Mine]]
        BY <1>13 DEF PostJoin
    <2>2. CASE t = s
        BY <1>13, <2>1, <2>2 DEF PostJoin, Request, NoCall, Offered
    <2>3. CASE t # s
        <3>1. PICK w : call'[t] = [call[t] EXCEPT !.seen = w]
            BY <2>1, <2>3
        <3>2. call'[t].pc = "none"
            BY <3>1 DEF NoCall
        <3> QED
            BY <3>2
    <2> QED
        BY <2>2, <2>3
<1>14. ASSUME NEW s \in Slot, Serve(s) \/ UserUnknown(s)
       PROVE  FALSE
    <2>1. t # s /\ call'[t] = call[t]
        BY <1>1, <1>2, <1>14 DEF Serve, Check, Execute, Commit, LinkUsed, NoRow, UserUnknown
    <2> QED
        BY <1>1, <2>1
<1>15. CASE ServiceStep
    <2>1. ~Clock
        BY <1>1 DEF Clock, PopTimeComes, PopRooms, InviteExpires
    <2> QED
        BY <1>14, <1>15, <2>1 DEF ServiceStep
<1>16. ASSUME NEW page \in {"home"} \cup RoomPage, Visit(page)
       PROVE  FALSE
    BY <1>4, <1>16, MovesStep DEF Moves
<1>17. ASSUME NEW s \in Slot,
              \/ CreateEnds(s) \/ UpdateEnds(s) \/ DeleteEnds(s) \/ RoleEnds(s)
              \/ KickEnds(s) \/ PopEnds(s) \/ InviteEnds(s) \/ JoinEnds(s)
       PROVE  FALSE
    <2>1. ~failed
        BY <1>17 DEF Alone, CreateEnds, UpdateEnds, DeleteEnds, RoleEnds, KickEnds, PopEnds,
           InviteEnds, JoinEnds, Stay, Keep, bounds
    <2>2. Finishes(s)
        BY <1>17, <2>1, FinishesStep
    <2> QED
        BY <1>4, <2>2 DEF Finishes
<1>18. CASE \/ OpenCreate \/ CloseCreate \/ ToggleAutoPop \/ OpenDelete \/ CloseDelete
            \/ OpenMembers \/ CloseMembers \/ OpenInvite \/ CloseInvite
            \/ (\E u \in User \cup {None} : SetKickTarget(u)) \/ OpenLink \/ UNCHANGED vars
            \/ \E k \in Query : FetchRead(k) \/ FetchEnds(k) \/ FetchFails(k)
    <2>1. call' = call
        BY <1>18 DEF OpenCreate, CloseCreate, ToggleAutoPop, OpenDelete, CloseDelete, OpenMembers,
           CloseMembers, OpenInvite, CloseInvite, Dialog, SetKickTarget, OpenLink, vars, roomVars,
           FetchRead, FetchEnds, FetchFails
    <2> QED
        BY <1>1, <2>1
<1>19. ASSUME NEW s \in Slot, ConnectionFails(s) \/ OtherEnds(s)
       PROVE  FALSE
    BY <1>2, <1>4, <1>19 DEF ConnectionFails, Alone, OtherEnds, Done
<1> QED
    BY <1>5, <1>6, <1>7, <1>8, <1>9, <1>10, <1>11, <1>12, <1>13, <1>15, <1>16, <1>17, <1>18,
       <1>19 DEF Next

\* The service answers whom a request is of.
LEMMA ServeCalls ==
    ASSUME RoomsTypeOK, NEW s \in Slot, Serve(s)
    PROVE  /\ call[s].pc \in {"sent", "checked", "writing", "joined"}
           /\ \A t \in Slot \ {s} : call'[t] = call[t]
           /\ call'[s].kind = call[s].kind /\ call'[s].by = call[s].by
           /\ call'[s].target = call[s].target
<1>1. call[s] \in Calls
    BY DEF RoomsTypeOK
<1>2. PICK q : q = call'[s]
    OBVIOUS
<1>3. /\ call[s].pc \in {"sent", "checked", "writing", "joined"}
      /\ \A t \in Slot \ {s} : call'[t] = call[t]
    BY DEF Serve, Check, Execute, Commit, LinkUsed, NoRow, RoomsTypeOK
<1>4. \/ \E status : q = Answer(call[s], status)
      \/ \E pc : q = [call[s] EXCEPT !.pc = pc]
      \/ \E v : q = [call[s] EXCEPT !.pc = "checked", !.value = v]
    <2>1. CASE Check(s) \/ NoRow(s)
        BY <1>1, <1>2, <2>1 DEF Check, NoRow, RoomsTypeOK
    <2>2. CASE Execute(s) \/ LinkUsed(s)
        BY <1>1, <1>2, <2>2 DEF Execute, LinkUsed, RoomsTypeOK
    <2>3. CASE Commit(s)
        BY <1>1, <1>2, <2>3 DEF Commit, RoomsTypeOK
    <2> QED
        BY <2>1, <2>2, <2>3 DEF Serve
<1>5. q.kind = call[s].kind /\ q.by = call[s].by /\ q.target = call[s].target
    BY <1>1, <1>4 DEF Answer, Calls
<1> QED
    BY <1>2, <1>3, <1>5

LEMMA SelfStep ==
    ASSUME RoomIInv, [Next]_vars, Alone', SelfOK
    PROVE  SelfOK'
<1>1. RoomsTypeOK /\ None # Me
    BY RoomConstants, PageConstants DEF RoomIInv
<1>2. tab'.target # Me
    BY <1>1, TabFacts DEF GoesOn, Remains, CanManage, SelfOK
<1>3. ASSUME NEW t \in Slot PROVE SelfSafe(call'[t])
    <2>1. SelfSafe(call[t])
        BY DEF SelfOK
    <2>2. CASE SameRequest(call'[t], call[t])
        BY <2>1, <2>2 DEF SameRequest, SelfSafe
    <2>3. CASE call'[t].by # Me
        BY <2>3 DEF SelfSafe
    <2>4. CASE call[t] = NoCall /\ call'[t].pc = "sent"
        BY <2>3, <2>4, SentFacts DEF Offered, SelfSafe, SelfOK
    <2>5. NoCall.by # Me
        BY <1>1 DEF NoCall
    <2>6. CASE \E s \in Slot : Serve(s)
        <3>1. PICK s \in Slot : Serve(s)
            BY <2>6
        <3>2. /\ call'[t].kind = call[t].kind /\ call'[t].by = call[t].by
              /\ call'[t].target = call[t].target
            BY <1>1, <3>1, ServeCalls
        <3> QED
            BY <2>1, <3>2 DEF SelfSafe
    <2>7. CASE Sits
        BY <2>2, <2>3, <2>4, <2>5, <2>7 DEF Sits
    <2>8. CASE Moves
        BY <2>2, <2>8 DEF Moves
    <2>9. CASE \E s \in Slot : Finishes(s)
        BY <2>2, <2>3, <2>9 DEF Finishes
    <2>10. CASE OpenLink \/ \E k \in Query : FetchRead(k) \/ FetchEnds(k)
        <3>1. call' = call
            BY <2>10 DEF OpenLink, FetchRead, FetchEnds, roomVars
        <3> QED
            BY <2>1, <3>1
    <2> QED
        BY <2>6, <2>7, <2>8, <2>9, <2>10, AloneSteps
<1> QED
    BY <1>2, <1>3 DEF SelfOK, SelfSafe

----------------------------------------------------------------------------
(* What is empty, and who is not in the room *)

LEMMA MountedFacts ==
    /\ MountedOn("invite") = {}
    /\ \A page : \A k \in RoomQuery : page \notin RoomPage => k \notin MountedOn(page)
    /\ \A k \in RoomQuery : k \in Query
<1>1. MountedOn("invite") = {}
    BY DEF MountedOn, RoomPage
<1>2. ASSUME NEW page, NEW k \in RoomQuery, page \notin RoomPage
      PROVE  k \notin MountedOn(page)
    <2>1. CASE page = "home"
        BY <1>2, <2>1 DEF MountedOn, RoomQuery, RoomPage
    <2>2. CASE page # "home"
        BY <1>2, <2>2 DEF MountedOn
    <2> QED
        BY <2>1, <2>2
<1> QED
    BY <1>1, <1>2 DEF Query

\* What is not in use is marked at most.
LEMMA SettledEmpty ==
    ASSUME CacheShape(query), NEW s, NEW k \in Query, Empty(query[k]), ~Mounted(k)
    PROVE  Empty(Settled(s)[k])
<1>1. Settled(s)[k] \in {query[k], Outdated(query[k])} /\ EntryShape(query[k])
    BY SettledFacts DEF CacheShape
<1> QED
    BY <1>1, OutdatedFacts DEF Empty

LEMMA EmptyStep ==
    ASSUME RoomIInv, [Next]_vars, Alone', TabOK
    PROVE  EmptyOK'
<1>1. /\ RoomsTypeOK /\ OwnerSafe /\ EmptyOK /\ CacheShape(query) /\ Alone
    BY AloneSteps DEF RoomIInv, Alone, TabOK
<1> DEFINE StillEmpty(k) == Empty(query[k]) => Empty(query'[k])
<1>2. ASSUME tab'.page = "invite" => tab.page = "invite" /\ \A k \in Query : StillEmpty(k),
             room' = None => room = None /\ \A k \in RoomQuery : StillEmpty(k)
      PROVE  EmptyOK'
    <2>1. tab'.page = "invite" => \A k \in Query : Empty(query'[k])
        BY <1>1, <1>2 DEF EmptyOK
    <2>2. room' = None => \A k \in RoomQuery : Empty(query'[k])
        BY <1>1, <1>2 DEF EmptyOK
    <2> QED
        BY <2>1, <2>2 DEF EmptyOK, Empty
<1>3. room = None => ~There /\ tab.page \notin RoomPage
    BY <1>1 DEF There, OwnerSafe, PageSafe
<1>4. ASSUME NEW s \in Slot, Serve(s), UNCHANGED <<query, tab>>
      PROVE  EmptyOK'
    <2>1. There => There'
        BY <1>1, <1>4, ServeFacts DEF Later
    <2> QED
        BY <1>2, <1>4, <2>1 DEF There
<1>5. ASSUME Still, NEW k \in Query, FetchRead(k) \/ FetchEnds(k)
      PROVE  EmptyOK'
    <2>1. \A j \in Query \ {k} : query'[j] = query[j]
        BY <1>1, <1>5, FetchShape
    <2>2. ~Empty(query[k]) /\ tab' = tab
        BY <1>5 DEF FetchRead, FetchEnds, Empty
    <2>3. \A j \in Query : StillEmpty(j)
        BY <2>1, <2>2
    <2> QED
        BY <1>2, <1>5, <2>2, <2>3, MountedFacts DEF Still
<1>6. CASE OpenLink
    <2>1. \A k \in Query : query'[k] = NoEntry
        BY <1>6 DEF OpenLink
    <2>2. Empty(NoEntry)
        BY DEF NoEntry, Empty
    <2>3. \A k \in Query : Empty(query'[k])
        BY <2>1, <2>2
    <2> QED
        BY <2>3, MountedFacts DEF EmptyOK, Empty
<1>7. CASE Still /\ Sits
    BY <1>2, <1>7 DEF Still, Sits
\* On the way to a page that does not need the room.
<1>8. ASSUME Still, NEW cache, NEW page, Arrives(page, cache),
             room = None => \A k \in RoomQuery : Empty(cache[k])
      PROVE  EmptyOK'
    <2>1. PICK old : query' = MountedCache(cache, page, old)
        BY <1>8 DEF Arrives
    <2>2. ASSUME room = None, NEW k \in RoomQuery
          PROVE  Empty(query'[k])
        <3>1. k \in Query /\ k \notin MountedOn(page)
            <4>1. page \notin RoomPage
                BY <1>3, <1>8, <2>2 DEF Arrives
            <4> QED
                BY <2>2, <4>1, MountedFacts
        <3>2. query'[k] = cache[k]
            BY <2>1, <3>1 DEF MountedCache
        <3> QED
            BY <1>8, <2>2, <3>2
    <2>3. room' = None => \A k \in RoomQuery : Empty(query'[k])
        BY <1>8, <2>2 DEF Still
    <2>4. tab'.page # "invite"
        BY <1>8 DEF Arrives
    <2> QED
        BY <2>3, <2>4 DEF EmptyOK, Empty
<1>9. CASE Still /\ Moves
    BY <1>1, <1>8, <1>9 DEF Moves, EmptyOK
<1>10. ASSUME Still, NEW s \in Slot, Finishes(s)
       PROVE  EmptyOK'
    <2>1. ASSUME NEW k \in RoomQuery, room = None PROVE Empty(Settled(s)[k])
        <3>1. Empty(query[k]) /\ k \in Query
            BY <1>1, <2>1, MountedFacts DEF EmptyOK
        <3>2. ~Mounted(k)
            BY <1>3, <2>1, MountedFacts DEF Mounted
        <3> QED
            BY <1>1, <3>1, <3>2, SettledEmpty
    <2>2. ASSUME NEW k \in Query, tab.page = "invite" PROVE Empty(Settled(s)[k])
        BY <1>1, <2>2, SettledEmpty, MountedFacts DEF EmptyOK, Mounted
    <2>3. CASE query' = Settled(s) /\ tab'.page = tab.page
        BY <1>2, <1>10, <2>1, <2>2, <2>3 DEF Still
    <2>4. CASE \E page : Arrives(page, Settled(s))
        BY <1>8, <1>10, <2>1, <2>4
    <2> QED
        BY <1>10, <2>3, <2>4 DEF Finishes
<1> QED
    BY <1>4, <1>5, <1>6, <1>7, <1>9, <1>10, AloneSteps

----------------------------------------------------------------------------

LEMMA OutsiderCannot ==
    ASSUME RoomIInv, Alone, There, ~Active(Me), Outsider
    PROVE  ~IsAdmin /\ ~AnswerEnds
<1>1. /\ query["room"].data # None => query["room"].data.owner = room.owner
      /\ Manager(room.owner)
    BY DEF RoomIInv, Alone, OwnerSafe, EntrySafe
<1>2. room.owner # Me
    BY <1>1 DEF Manager, Active
<1> QED
    BY <1>1, <1>2, PageConstants DEF IsAdmin, Outsider, AnswerEnds

\* What the statements of this tab's own requests do.
LEMMA CommitFacts ==
    ASSUME RoomIInv, SelfOK, NEW s \in Slot, Commit(s), call[s].by = Me
    PROVE  /\ call'[s].by = Me /\ call'[s].kind = call[s].kind
           /\ call[s].kind # "join" => call'[s].pc = "answered" /\ call'[s].status = "ok"
           /\ \/ call[s].kind = "create" /\ room = None /\ Active(Me)'
              \/ call[s].kind \in {"update", "pop"} /\ There /\ members' = members
              \/ call[s].kind = "delete" /\ There /\ Gone' /\ members' = members
              \/ /\ call[s].kind \in {"kick", "role"} /\ There
                 /\ room' = room /\ members'[Me] = members[Me]
              \/ call[s].kind = "invite" /\ There /\ UNCHANGED <<room, members>>
              \/ /\ call[s].kind = "join" /\ There
                 /\ room' = room /\ ~Active(Me) /\ Active(Me)'
<1> PICK q \in Calls : q = call[s]
    BY DEF RoomIInv, RoomsTypeOK
<1>1. /\ q.pc \in {"checked", "writing"} /\ q.by = Me /\ Statement(q) /\ Me \in User
    BY PageConstants DEF Commit, RoomIInv, RoomsTypeOK
<1>2. q.kind \in Kinds /\ (q.kind # "create" => There) /\ (room # None => room \in RoomRow)
      /\ members = [u \in User |-> members[u]] /\ SelfSafe(q)
    BY <1>1 DEF RoomIInv, RoomsTypeOK, Proper, Past, There, SelfOK
<1>3. /\ call'[s].by = q.by /\ call'[s].kind = q.kind
      /\ q.kind # "join" => call'[s].pc = "answered" /\ call'[s].status = "ok"
    <2>1. PICK r \in Calls :
             /\ call' = [call EXCEPT ![s] = r] /\ r.kind = q.kind /\ r.by = q.by
             /\ IF r.kind = "join" THEN r.pc = "joined"
                                   ELSE r.pc = "answered" /\ r.status = "ok"
        BY CommitEnds DEF RoomIInv
    <2> QED
        BY <2>1 DEF RoomIInv, RoomsTypeOK
<1>4. CASE q.kind = "create"
    BY <1>1, <1>3, <1>4 DEF Statement, CreateRoom, Active
<1>5. CASE q.kind \in {"update", "pop"}
    BY <1>1, <1>2, <1>3, <1>5 DEF Statement, UpdateRoom, PopRoom
<1>6. CASE q.kind = "delete"
    <2>1. room' = [room EXCEPT !.deleted = TRUE] /\ members' = members
        BY <1>1, <1>6 DEF Statement, DeleteRoom
    <2>2. room \in RoomRow
        BY <1>2, <1>6 DEF There
    <2>3. room' # None /\ room'.deleted
        <3>1. room' \in RoomRow /\ room'.deleted
            BY <2>1, <2>2 DEF RoomRow
        <3> QED
            BY <3>1, RoomConstants
    <2> QED
        BY <1>1, <1>2, <1>3, <1>6, <2>1, <2>3 DEF Gone
<1>7. CASE q.kind \in {"kick", "role"}
    <2>1. q.target # Me
        BY <1>1, <1>2, <1>7 DEF SelfSafe
    <2>2. room' = room /\ members'[Me] = members[Me]
        BY <1>1, <1>2, <1>7, <2>1 DEF Statement, MemberStatement, RemoveMember, UpdateMember
    <2> QED
        BY <1>1, <1>2, <1>3, <1>7, <2>2
<1>8. CASE q.kind = "invite"
    BY <1>1, <1>2, <1>3, <1>8 DEF Statement, CreateInviteLink
<1>9. CASE q.kind = "join"
    BY <1>1, <1>2, <1>3, <1>9 DEF Statement, MemberStatement, RowMatches, JoinByInviteLink,
       Active
<1> QED
    BY <1>1, <1>2, <1>3, <1>4, <1>5, <1>6, <1>7, <1>8, <1>9 DEF Kinds

\* Who is not in the room has not been before: this tab does not put out its user.
LEMMA OutsiderBefore ==
    ASSUME RoomIInv, [Next]_vars, Alone', SelfOK, There', ~Active(Me)'
    PROVE  There /\ ~Active(Me)
<1>1. ASSUME NEW s \in Slot, Serve(s), call[s].by = Me
      PROVE  There /\ ~Active(Me)
    <2>1. CASE Commit(s)
        <3>1. There /\ members'[Me] = members[Me]
            BY <1>1, <2>1, CommitFacts
        <3> QED
            BY <3>1 DEF Active
    <2>2. CASE UNCHANGED <<room, members>>
        BY <2>2 DEF There, Active
    <2> QED
        BY <1>1, <2>1, <2>2 DEF Serve, Check, Execute, LinkUsed, NoRow
<1>2. CASE Still
    BY <1>2 DEF Still, There, Active
<1> QED
    BY <1>1, <1>2, AloneSteps

\* The only request of an outsider passes its check, and makes a member of them.
LEMMA OutsiderServed ==
    ASSUME RoomIInv, NEW s \in Slot, Serve(s), call[s].by = Me, There, ~Active(Me), Outsider,
           ~Active(Me)'
    PROVE  call'[s].pc \in {"checked", "writing"} /\ UNCHANGED <<room, members, invite>>
<1> PICK q \in Calls : q = call[s]
    BY DEF RoomIInv, RoomsTypeOK
<1>1. /\ q.kind = "join" /\ q.by = Me /\ Open /\ invite # "none" /\ members[Me] = "none"
      /\ q.pc # "joined" /\ Me \in User
    BY PageConstants DEF Outsider
<1>2. /\ call \in [Slot -> Calls] /\ members = [u \in User |-> members[u]]
    BY DEF RoomIInv, RoomsTypeOK
<1>3. CASE Check(s)
    <2>1. Refusal(q) = "none"
        <3>1. q.kind # "create" /\ ~(q.kind = "join" /\ invite = "none") /\ Found
              /\ ~(q.kind \in {"pop", "kick", "role"}) /\ ~room.popped
              /\ q.kind # "invite" /\ ~Active(q.by) /\ q.kind # "role"
            BY <1>1 DEF Open, Active
        <3> QED
            BY <3>1 DEF Refusal
    <2>2. call'[s] = [q EXCEPT !.pc = "checked"]
        BY <1>1, <1>2, <1>3, <2>1 DEF Check
    <2> QED
        BY <1>3, <2>2 DEF Check, Calls
<1>4. CASE Commit(s)
    <2>1. JoinByInviteLink(q.by)
        BY <1>1, <1>4 DEF Commit, Statement, MemberStatement
    <2>2. members'[Me] = "member"
        BY <1>1, <1>2, <2>1 DEF JoinByInviteLink
    <2> QED
        BY <2>2 DEF Active
<1>5. CASE Execute(s)
    BY <1>2, <1>5 DEF Execute, Calls
<1>6. ~NoRow(s) /\ ~LinkUsed(s)
    BY <1>1 DEF NoRow, LinkUsed, Writable, RowMatches, MemberKinds
<1> QED
    BY <1>3, <1>4, <1>5, <1>6 DEF Serve

\* Nothing answers what only a member may see.
RoleUnknown(e) == e.data = None /\ (e.pc = "read" => e.read = None)

LEMMA OutsiderQuery ==
    ASSUME RoomIInv, [Next]_vars, Alone', TabOK, ~Active(Me), Outsider, ~AnswerEnds
    PROVE  RoleUnknown(query'["role"])
<1>1. /\ CacheShape(query) /\ EntryShape(query["role"]) /\ RoleUnknown(query["role"])
      /\ "role" \in Query /\ Read("role") = None
    BY DEF TabOK, CacheShape, Query, RoomQuery, Outsider, RoleUnknown, Read
<1>2. ASSUME NEW k \in Query, FetchRead(k) \/ FetchEnds(k)
      PROVE  RoleUnknown(query'["role"])
    <2>1. CASE k # "role"
        BY <1>1, <1>2, <2>1, FetchShape
    <2>2. CASE k = "role" /\ FetchRead(k)
        <3>1. query'["role"] = [query["role"] EXCEPT !.pc = "read", !.read = None]
            BY <1>1, <2>2 DEF FetchRead, CacheShape
        <3> QED
            BY <1>1, <3>1 DEF EntryShape, RoleUnknown
    <2>3. CASE k = "role" /\ FetchEnds(k)
        <3>1. query["role"].read = None
            BY <1>1, <2>3 DEF FetchEnds, RoleUnknown
        <3>2. query'["role"] = [query["role"] EXCEPT !.pc = "idle", !.stale = TRUE]
            BY <1>1, <2>3, <3>1 DEF FetchEnds, CacheShape
        <3> QED
            BY <1>1, <3>2 DEF EntryShape, RoleUnknown
    <2> QED
        BY <1>2, <2>1, <2>2, <2>3
<1>3. CASE OpenLink
    BY <1>1, <1>3 DEF OpenLink, NoEntry, RoleUnknown
<1>4. CASE Moves
    <2>1. query'["role"] \in {query["role"], Asked(query["role"])}
        BY <1>1, <1>4 DEF Moves, Arrives, MountedCache
    <2> QED
        BY <1>1, <2>1, EntryFacts DEF RoleUnknown
<1>5. CASE query' = query
    BY <1>1, <1>5
<1>6. ~\E s \in Slot : Finishes(s)
    BY DEF AnswerEnds, Finishes
<1> QED
    BY <1>2, <1>3, <1>4, <1>5, <1>6, AloneSteps DEF Sits

LEMMA OutsiderStep ==
    ASSUME RoomIInv, [Next]_vars, Alone', TabOK
    PROVE  OutsiderOK'
<1> SUFFICES ASSUME There', ~Active(Me)' PROVE Outsider'
    BY DEF OutsiderOK
<1>1. /\ Alone /\ There /\ ~Active(Me) /\ Outsider /\ RoomsTypeOK
      /\ ~IsAdmin /\ ~AnswerEnds
    BY AloneSteps, OutsiderBefore, OutsiderCannot DEF TabOK, OutsiderOK, RoomIInv
<1>2. RoleUnknown(query'["role"])
    BY <1>1, OutsiderQuery
<1>3. UNCHANGED <<room, members, invite>>
    BY <1>1, OutsiderServed, AloneSteps DEF Still
<1>4. GoesOn \/ Remains
    BY <1>1, TabFacts
<1>5. /\ tab'.dialog \in {"none", "create", "members"} /\ tab'.target = None
      /\ tab'.page = "invite" => tab'.notice = "none"
    BY <1>1, <1>4 DEF GoesOn, Remains, CanManage, Outsider
<1>6. ASSUME NEW t \in Slot, call'[t].by = Me
      PROVE  /\ call'[t].kind = "join" /\ call'[t].pc \in {"sent", "checked", "writing"}
             /\ tab'.page = "invite"
    <2> DEFINE Waits(q) == /\ q.kind = "join" /\ q.pc \in {"sent", "checked", "writing"}
                           /\ tab'.page = "invite"
    <2>1. ASSUME call[t].by = Me
          PROVE  Waits(call[t])
        BY <1>1, <1>4, <2>1 DEF GoesOn, Remains, Outsider
    <2>2. ASSUME SameRequest(call'[t], call[t])
          PROVE  Waits(call'[t])
        BY <1>6, <2>1, <2>2 DEF SameRequest
    <2>3. ASSUME call[t] = NoCall, call'[t].pc = "sent"
          PROVE  Waits(call'[t])
        <3>1. Offered(call'[t])
            BY <1>6, <2>3, SentFacts
        <3> QED
            BY <1>1, <2>3, <3>1 DEF Offered, Outsider, There
    <2>4. call'[t] # NoCall
        BY <1>6, RoomConstants, PageConstants DEF NoCall
    <2>5. ASSUME NEW s \in Slot, Serve(s), call[s].by = Me
          PROVE  Waits(call'[t])
        <3>1. CASE t = s
            BY <1>1, <2>1, <2>5, <3>1, OutsiderServed, ServeCalls
        <3>2. CASE t # s
            BY <1>1, <1>6, <2>1, <2>5, <3>2, ServeCalls
        <3> QED
            BY <3>1, <3>2
    <2>6. CASE OpenLink \/ \E k \in Query : FetchRead(k) \/ FetchEnds(k)
        <3>1. call' = call
            BY <2>6 DEF OpenLink, FetchRead, FetchEnds, roomVars
        <3> QED
            BY <1>6, <2>1, <3>1
    <2>7. CASE Sits
        BY <2>2, <2>3, <2>4, <2>7 DEF Sits
    <2>8. CASE Moves
        BY <2>2, <2>8 DEF Moves
    <2>9. ~\E s \in Slot : Finishes(s)
        BY <1>1 DEF AnswerEnds, Finishes
    <2> QED
        BY <2>5, <2>6, <2>7, <2>8, <2>9, AloneSteps
<1> QED
    BY <1>1, <1>2, <1>3, <1>5, <1>6 DEF Outsider, RoleUnknown, Open, Found

----------------------------------------------------------------------------
(* What the entries hold *)

LEMMA KeysFacts ==
    /\ \A kind : kind \in {"create", "update", "pop", "kick"} => "rooms" \in Keys(kind)
    /\ \A kind : kind \in {"update", "pop"} => "room" \in Keys(kind)
    /\ \A kind : kind \in {"kick", "role"} => "members" \in Keys(kind)
BY DEF Keys

LEMMA ReadStays ==
    ASSUME NEW k \in Query, room' = room, members'[Me] = members[Me],
           k = "members" => members' = members
    PROVE  Read(k)' = Read(k)
<1>1. Found' = Found /\ Active(Me)' = Active(Me)
    BY DEF Found, Active
<1>2. CASE k = "room"
    BY <1>1, <1>2 DEF Read
<1>3. CASE k = "role"
    BY <1>1, <1>3 DEF Read
<1>4. CASE k = "members"
    BY <1>4 DEF Read, Active
<1>5. CASE k = "rooms"
    BY <1>1, <1>5 DEF Read
<1> QED
    BY <1>2, <1>3, <1>4, <1>5 DEF Query, RoomQuery

\* What a request of this tab changes is due to be shown, or nothing is shown yet.
LEMMA ServedRead ==
    ASSUME RoomIInv, Alone, TabOK, NEW s \in Slot, Serve(s), call[s].by = Me, NEW k \in Query
    PROVE  Read(k)' = Read(k) \/ Due(k)' \/ Gone' \/ (Empty(query[k]) /\ ~Mounted(k))
<1>1. SelfOK /\ EmptyOK /\ OutsiderOK /\ OwnerSafe /\ Query = {"room", "role", "members", "rooms"}
    BY DEF TabOK, RoomIInv, Alone, Query, RoomQuery
<1>2. CASE UNCHANGED <<room, members>>
    BY <1>2, ReadStays
<1>3. CASE Commit(s)
    <2> DEFINE kind == call[s].kind
    <2>1. ASSUME k \in Keys(kind), kind # "join" PROVE Due(k)'
        <3>1. DueBy(call'[s], k)
            BY <1>1, <1>3, <2>1, CommitFacts DEF DueBy
        <3> QED
            BY <3>1 DEF Due
    <2>2. CASE kind = "create" /\ room = None
        <3>1. tab.page \notin RoomPage
            BY <1>1, <2>2 DEF OwnerSafe, PageSafe, There
        <3>2. CASE k \in RoomQuery
            BY <1>1, <2>2, <3>1, <3>2, MountedFacts DEF EmptyOK, Mounted
        <3>3. CASE k = "rooms"
            BY <2>1, <2>2, <3>3, KeysFacts
        <3> QED
            BY <3>2, <3>3 DEF Query
    <2>3. CASE kind \in {"update", "pop"} /\ There /\ members' = members
        <3>1. CASE k \in {"room", "rooms"}
            BY <2>1, <2>3, <3>1, KeysFacts
        <3>2. CASE k \in {"role", "members"}
            BY <2>3, <3>2 DEF Read, Active
        <3> QED
            BY <1>1, <3>1, <3>2
    <2>4. CASE kind \in {"kick", "role"} /\ room' = room /\ members'[Me] = members[Me]
        <3>1. CASE k = "members"
            BY <2>1, <2>4, <3>1, KeysFacts
        <3>2. CASE k # "members"
            BY <2>4, <3>2, ReadStays
        <3> QED
            BY <3>1, <3>2
    <2>5. CASE kind = "join" /\ There /\ ~Active(Me)
        <3>1. tab.page = "invite"
            BY <1>1, <2>5 DEF OutsiderOK, Outsider
        <3> QED
            BY <1>1, <3>1, MountedFacts DEF EmptyOK, Mounted
    <2> QED
        BY <1>1, <1>2, <1>3, <2>2, <2>3, <2>4, <2>5, CommitFacts
<1> QED
    BY <1>2, <1>3 DEF Serve, Check, Execute, LinkUsed, NoRow

\* Requests that are to invalidate stay until they have.
LEMMA DueStays ==
    ASSUME NEW k, \A t \in Slot : SameRequest(call'[t], call[t]) \/ ~DueBy(call[t], k), Due(k)
    PROVE  Due(k)'
<1>1. PICK t \in Slot : DueBy(call[t], k)
    BY DEF Due
<1>2. DueBy(call'[t], k)
    BY <1>1 DEF DueBy, SameRequest
<1> QED
    BY <1>2 DEF Due

\* What comes into use is fetched, or fits.
LEMMA MountFits ==
    ASSUME NEW cache, CacheShape(cache), NEW page, NEW old, NEW k \in Query, NEW r, NEW due,
           NEW gone, Fits(cache[k], r, due, gone, Mounted(k))
    PROVE  Fits(MountedCache(cache, page, old)[k], r, due, gone, k \in MountedOn(page))
<1> DEFINE Asks == /\ k \in MountedOn(page) \ MountedOn(tab.page) /\ cache[k].pc = "idle"
                   /\ (cache[k].data = None \/ cache[k].stale \/ old)
<1>1. EntryShape(cache[k])
    BY DEF CacheShape
<1>2. CASE Asks
    <2>1. MountedCache(cache, page, old)[k] = Asked(cache[k])
        BY <1>2 DEF MountedCache
    <2> QED
        BY <1>1, <2>1, EntryFacts DEF Fits
<1>3. CASE ~Asks
    <2>1. MountedCache(cache, page, old)[k] = cache[k]
        BY <1>3 DEF MountedCache
    <2> QED
        BY <1>3, <2>1 DEF Fits, Mounted
<1> QED
    BY <1>2, <1>3

\* What a fetch that found nothing leaves is what there was to show.
LEMMA NothingFound ==
    ASSUME RoomIInv, Alone, TabOK, NEW k \in Query, query[k].pc = "read", query[k].read = None,
           Read(k) = None
    PROVE  query[k].data = None \/ Gone
<1>1. /\ RoomsTypeOK /\ EmptyOK /\ OutsiderOK
      /\ Query = {"room", "role", "members", "rooms"} /\ RoomQuery = {"room", "role", "members"}
    BY DEF TabOK, RoomIInv, Query, RoomQuery
<1>2. k \in RoomQuery => There
    BY <1>1 DEF EmptyOK, Empty, There
<1>3. CASE k = "room"
    <2>1. room \in RoomRow
        BY <1>1, <1>2, <1>3 DEF RoomsTypeOK, There
    <2>2. Found => [owner |-> room.owner, settings |-> room.settings,
                    popped |-> room.popped] \in RoomData
        BY <2>1 DEF RoomData, RoomRow
    <2>3. ~Found
        BY <1>3, <2>2, RoomConstants DEF Read
    <2> QED
        BY <1>1, <1>2, <1>3, <2>3 DEF Found, Gone, There
<1>4. CASE k = "role"
    <2>1. ~Active(Me)
        BY <1>4, PageConstants DEF Read, Active
    <2> QED
        BY <1>1, <1>2, <1>4, <2>1 DEF OutsiderOK, Outsider
<1>5. CASE k = "members"
    <2>1. PICK S : S = {v \in User : Active(v)}
        OBVIOUS
    <2>2. S \in SUBSET User /\ \A v \in S : members[v] \in {"member", "admin"}
        BY <2>1 DEF Active
    <2>3. Read(k) \in [S -> {"member", "admin"}]
        BY <1>5, <2>1, <2>2 DEF Read
    <2> QED
        BY <2>2, <2>3, PageConstants
<1>6. CASE k = "rooms"
    <2>1. Found => [settings |-> room.settings, popped |-> room.popped]
                       \in [settings : Settings, popped : BOOLEAN]
        BY <1>1 DEF Found, RoomsTypeOK, RoomRow
    <2>2. Read(k) \in SUBSET [settings : Settings, popped : BOOLEAN]
        BY <1>6, <2>1 DEF Read
    <2> QED
        BY <2>2, PageConstants
<1> QED
    BY <1>1, <1>3, <1>4, <1>5, <1>6

LEMMA FetchFits ==
    ASSUME RoomIInv, Alone, TabOK, NEW j \in Query, FetchRead(j) \/ FetchEnds(j), NEW k \in Query,
           NEW r, r = Read(k), NEW due, due = Due(k), NEW gone, gone = Gone,
           NEW mounted, mounted = Mounted(k)
    PROVE  Fits(query'[k], r, due, gone, mounted)
<1>1. CacheShape(query) /\ EntryShape(query[k]) /\ Fits(query[k], r, due, gone, mounted)
    BY DEF TabOK, CacheShape, FitsOK
<1>2. CASE k # j
    BY <1>1, <1>2, FetchShape
<1>3. CASE k = j /\ FetchRead(k)
    <2>1. query'[k] = [query[k] EXCEPT !.pc = "read", !.read = r]
        BY <1>1, <1>3 DEF FetchRead, CacheShape
    <2>2. query'[k].pc = "read" /\ query'[k].read = r
        BY <1>1, <2>1 DEF EntryShape
    <2> QED
        BY <2>2 DEF Fits
<1>4. CASE k = j /\ FetchEnds(k)
    <2>1. query[k].pc = "read"
        BY <1>4 DEF FetchEnds
    <2>2. PICK d : d = query[k].read
        OBVIOUS
    <2>3. query[k].overtaken \/ d = r \/ due \/ gone
        BY <1>1, <2>1, <2>2 DEF Fits
    <2>4. CASE d # None
        <3>1. query'[k] = [query[k] EXCEPT !.pc = "idle", !.read = None, !.data = d,
                                           !.stale = FALSE]
            BY <1>1, <1>4, <2>2, <2>4 DEF FetchEnds, CacheShape
        <3>2. /\ query'[k].pc = "idle" /\ query'[k].data = d
              /\ query'[k].overtaken = query[k].overtaken
            BY <1>1, <3>1 DEF EntryShape
        <3> QED
            BY <2>3, <3>2 DEF Fits
    <2>5. CASE d = None
        <3>1. query'[k] = [query[k] EXCEPT !.pc = "idle", !.stale = TRUE]
            BY <1>1, <1>4, <2>2, <2>5 DEF FetchEnds, CacheShape
        <3>2. /\ query'[k].pc = "idle" /\ query'[k].data = query[k].data
              /\ query'[k].overtaken = query[k].overtaken
            BY <1>1, <3>1 DEF EntryShape
        <3>3. r = None => query[k].data = None \/ gone
            BY <2>1, <2>2, <2>5, NothingFound
        <3> QED
            BY <2>3, <2>5, <3>2, <3>3 DEF Fits
    <2> QED
        BY <2>4, <2>5
<1> QED
    BY <1>2, <1>3, <1>4

\* A request that ends has invalidated what it changed.
LEMMA SettledFits ==
    ASSUME RoomIInv, Alone, TabOK, NEW s \in Slot, Finishes(s), NEW k \in Query,
           NEW r, r = Read(k), NEW due, due = Due(k)', NEW gone, gone = Gone,
           NEW mounted, mounted = Mounted(k)
    PROVE  Fits(Settled(s)[k], r, due, gone, mounted)
<1>1. /\ CacheShape(query) /\ EntryShape(query[k])
      /\ Fits(query[k], Read(k), Due(k), Gone, Mounted(k))
    BY DEF TabOK, CacheShape, FitsOK
<1>2. CASE DueBy(call[s], k)
    <2>1. Succeeded(s) /\ k \in Keys(call[s].kind)
        BY <1>2 DEF DueBy, Succeeded
    <2>2. Settled(s)[k] = IF mounted THEN Asked(query[k]) ELSE Outdated(query[k])
        BY <1>1, <2>1, SettledFacts
    <2>3. CASE mounted
        BY <1>1, <2>2, <2>3, EntryFacts DEF Fits
    <2>4. CASE ~mounted
        BY <1>1, <2>2, <2>4, OutdatedFacts DEF Fits
    <2> QED
        BY <2>3, <2>4
<1>3. CASE ~DueBy(call[s], k)
    <2>1. ~(Succeeded(s) /\ k \in Keys(call[s].kind))
        BY <1>3 DEF DueBy, Succeeded, Finishes
    <2>2. Settled(s)[k] = query[k]
        BY <1>1, <2>1, SettledFacts
    <2>3. Due(k) => due
        BY <1>3, DueStays DEF Finishes
    <2> QED
        BY <1>1, <2>2, <2>3 DEF Fits
<1> QED
    BY <1>2, <1>3

LEMMA FitsStep ==
    ASSUME RoomIInv, [Next]_vars, Alone', TabOK
    PROVE  FitsOK'
<1> SUFFICES ASSUME NEW k \in Query
             PROVE  Fits(query'[k], Read(k)', Due(k)', Gone', Mounted(k)')
    BY DEF FitsOK
<1>1. /\ Alone /\ CacheShape(query) /\ RoomsTypeOK
      /\ Fits(query[k], Read(k), Due(k), Gone, Mounted(k))
    BY AloneSteps DEF TabOK, FitsOK, RoomIInv
<1>2. ASSUME Still PROVE Read(k)' = Read(k) /\ Gone' = Gone
    BY <1>2, ReadStays DEF Still, Gone
<1>3. ASSUME tab'.page = tab.page PROVE Mounted(k)' = Mounted(k)
    BY <1>3 DEF Mounted
<1>4. ASSUME NEW s \in Slot, Serve(s), call[s].by = Me, UNCHANGED <<query, tab>>
      PROVE  Fits(query'[k], Read(k)', Due(k)', Gone', Mounted(k)')
    <2>1. Read(k)' = Read(k) \/ Due(k)' \/ Gone' \/ (Empty(query[k]) /\ ~Mounted(k))
        BY <1>1, <1>4, ServedRead
    <2>2. Due(k) => Due(k)'
        <3>1. \A t \in Slot : SameRequest(call'[t], call[t]) \/ ~DueBy(call[t], k)
            BY <1>1, <1>4, ServeCalls DEF SameRequest, DueBy
        <3> QED
            BY <3>1, DueStays
    <2>3. Gone => Gone'
        BY <1>1, <1>4, ServeFacts, SafeLater
    <2> QED
        BY <1>1, <1>3, <1>4, <2>1, <2>2, <2>3 DEF Fits, Empty
<1>5. ASSUME Still, NEW j \in Query, FetchRead(j) \/ FetchEnds(j)
      PROVE  Fits(query'[k], Read(k)', Due(k)', Gone', Mounted(k)')
    <2>1. call' = call /\ tab' = tab
        BY <1>5 DEF FetchRead, FetchEnds, roomVars
    <2>2. Due(k)' = Due(k)
        BY <2>1 DEF Due
    <2>3. Fits(query'[k], Read(k), Due(k), Gone, Mounted(k))
        BY <1>1, <1>5, FetchFits
    <2> QED
        BY <1>2, <1>3, <1>5, <2>1, <2>2, <2>3 DEF Fits
<1>6. CASE OpenLink
    <2>1. query'[k] = NoEntry
        BY <1>6 DEF OpenLink
    <2>2. tab'.page = "invite"
        BY <1>6, FreshTabFacts DEF OpenLink, RoomIInv, PagesTypeOK
    <2>3. ~Mounted(k)'
        BY <2>2, MountedFacts DEF Mounted
    <2> QED
        BY <2>1, <2>3 DEF NoEntry, Fits
<1>7. CASE Still /\ Sits
    <2>1. \A t \in Slot : SameRequest(call'[t], call[t]) \/ ~DueBy(call[t], k)
        BY <1>7 DEF Sits, DueBy, NoCall
    <2>2. Due(k) => Due(k)'
        BY <2>1, DueStays
    <2> QED
        BY <1>1, <1>2, <1>3, <1>7, <2>2 DEF Sits, Fits
<1>8. ASSUME Still, NEW page, NEW cache, Arrives(page, cache), CacheShape(cache),
             NEW due, Fits(cache[k], Read(k), due, Gone, Mounted(k)), due => Due(k)'
      PROVE  Fits(query'[k], Read(k)', Due(k)', Gone', Mounted(k)')
    <2>1. PICK old : query' = MountedCache(cache, page, old)
        BY <1>8 DEF Arrives
    <2>2. Fits(query'[k], Read(k), due, Gone, k \in MountedOn(page))
        BY <1>8, <2>1, MountFits
    <2>3. Mounted(k)' = (k \in MountedOn(page))
        BY <1>8 DEF Arrives, Mounted
    <2> QED
        BY <1>2, <1>8, <2>2, <2>3 DEF Fits
<1>9. CASE Still /\ Moves
    <2>1. Due(k) => Due(k)'
        BY <1>9, DueStays DEF Moves
    <2> QED
        BY <1>1, <1>8, <1>9, <2>1 DEF Moves
<1>10. ASSUME Still, NEW s \in Slot, Finishes(s)
       PROVE  Fits(query'[k], Read(k)', Due(k)', Gone', Mounted(k)')
    <2>1. PICK due : due = Due(k)'
        OBVIOUS
    <2>2. Fits(Settled(s)[k], Read(k), due, Gone, Mounted(k)) /\ CacheShape(Settled(s))
        BY <1>1, <1>10, <2>1, SettledFits, SettledFacts
    <2>3. CASE \E page : Arrives(page, Settled(s))
        BY <1>8, <1>10, <2>1, <2>2, <2>3
    <2>4. CASE query' = Settled(s) /\ tab'.page = tab.page
        BY <1>2, <1>3, <1>10, <2>1, <2>2, <2>4 DEF Fits
    <2> QED
        BY <1>10, <2>3, <2>4 DEF Finishes
<1> QED
    BY <1>4, <1>5, <1>6, <1>7, <1>9, <1>10, AloneSteps

LEMMA PagesStep ==
    ASSUME RoomIInv, [Next]_vars, AloneOK
    PROVE  AloneOK'
<1> SUFFICES ASSUME Alone' PROVE TabOK'
    BY DEF AloneOK
<1>1. TabOK
    BY AloneSteps DEF AloneOK
<1>2. CacheShape(query')
    BY <1>1, CacheStep, AloneSteps DEF TabOK, Sits
<1>3. CacheShape(query)'
    BY <1>2 DEF CacheShape
<1> QED
    BY <1>1, <1>3, SelfStep, EmptyStep, OutsiderStep, FitsStep DEF TabOK

LEMMA InitPages ==
    Init => AloneOK
<1> SUFFICES ASSUME Init PROVE TabOK
    BY DEF AloneOK
<1>1. PICK page \in {"home", "chat", "settings", "invite"} :
        /\ page = "invite" => invite # "none"
        /\ page \in RoomPage => room # None /\ Active(Me)
        /\ tab = [page |-> page, dialog |-> "none", target |-> None, autoPop |-> TRUE,
                  inviteUrl |-> "none", generating |-> None, notice |-> "none"]
        /\ query = [k \in Query |-> IF k \in MountedOn(page)
                                    THEN [NoEntry EXCEPT !.data = Read(k)] ELSE NoEntry]
    BY DEF Init, RoomPage
<1>2. None # Me
    BY RoomConstants, PageConstants
<1>3. ASSUME NEW k \in Query
      PROVE  /\ EntryShape(query[k]) /\ query[k].pc = "idle"
             /\ query[k].data = IF k \in MountedOn(page) THEN Read(k) ELSE None
    <2>1. PICK d : d = IF k \in MountedOn(page) THEN Read(k) ELSE None
        OBVIOUS
    <2>2. CASE k \in MountedOn(page)
        <3>1. query[k] = [NoEntry EXCEPT !.data = d] /\ d = Read(k)
            BY <1>1, <2>1, <2>2
        <3> QED
            BY <2>2, <3>1 DEF NoEntry, EntryShape
    <2>3. CASE k \notin MountedOn(page)
        <3>1. query[k] = NoEntry
            BY <1>1, <2>3
        <3> QED
            BY <2>3, <3>1 DEF NoEntry, EntryShape
    <2> QED
        BY <2>2, <2>3
<1>4. CacheShape(query)
    BY <1>1, <1>3 DEF CacheShape
<1>5. \A s \in Slot : call[s] = NoCall
    BY DEF Init
<1>6. SelfOK
    BY <1>1, <1>2, <1>5 DEF SelfOK, SelfSafe, NoCall
<1>7. EmptyOK
    <2>1. tab.page = page
        BY <1>1
    <2> QED
        BY <1>1, <1>3, <2>1, MountedFacts DEF EmptyOK, Empty
<1>8. ASSUME There, ~Active(Me)
      PROVE  Outsider
    <2>1. PICK owner \in User, name \in Name, role \in {"admin", "member", "none"} :
             /\ room = [owner |-> owner, settings |-> [name |-> name, text |-> NoText],
                        popAt |-> "future", popped |-> FALSE, deleted |-> FALSE]
             /\ members = [u \in User |-> IF u = owner THEN "admin" ELSE role]
             /\ invite = IF role = "none" THEN "many" ELSE "none"
        BY <1>8 DEF Init, There
    <2>2. members[Me] = "none" /\ role = "none"
        BY <1>8, <2>1, PageConstants DEF Active
    <2>3. Open /\ invite # "none"
        BY <1>8, <2>1, <2>2 DEF Open, Found, There
    <2>4. page \notin RoomPage
        BY <1>1, <1>8
    <2>5. "role" \in Query /\ "role" \notin MountedOn(page)
        BY <2>4, MountedFacts DEF RoomQuery
    <2>6. query["role"].data = None /\ query["role"].pc = "idle"
        BY <1>3, <2>5
    <2> QED
        BY <1>1, <1>2, <1>5, <2>2, <2>3, <2>6 DEF Outsider, NoCall
<1>9. FitsOK
    <2>1. tab.page = page
        BY <1>1
    <2> QED
        BY <1>3, <2>1 DEF FitsOK, Fits, Mounted
<1> QED
    BY <1>4, <1>6, <1>7, <1>8, <1>9 DEF TabOK, OutsiderOK

----------------------------------------------------------------------------
(* The theorems *)

\* While no request failed, neither a request on its way nor the target of a
\* dialog nor a page that has no room could hurt the owner.
THEOREM RoomInvariant == Spec => []RoomIInv
<1>1. Init => RoomIInv
    BY InitRoom
<1>2. RoomIInv /\ [Next]_vars => RoomIInv'
    BY NextKeepsRoom
<1> QED
    BY <1>1, <1>2, PTL DEF Spec

\* The owner of a room stays one of its managers, although RemoveMember and
\* UpdateMember of the service would let any manager change that.
THEOREM OwnerAlwaysAdmin == Spec => []OwnerStaysAdmin
<1>1. RoomIInv => OwnerStaysAdmin
    BY DEF RoomIInv, OwnerSafe, OwnerStaysAdmin, There
<1> QED
    BY <1>1, RoomInvariant, PTL

\* Only the service changes a room, and starts statements.
Leaves == /\ UNCHANGED <<room, members>>
          /\ \A s \in Slot : call'[s].pc = "writing" => call[s].pc = "writing"

LEMMA OthersLeaveRoom ==
    ASSUME RoomIInv, [Next]_vars
    PROVE  ServiceStep \/ Leaves
<1>1. RoomsTypeOK /\ (UNCHANGED <<room, members, call>> => Leaves)
    BY DEF RoomIInv, Leaves
<1>2. ASSUME NEW kind, NEW u, NEW x, NEW v, Send(Request(kind, u, x, v)),
             UNCHANGED <<room, members>>
      PROVE  Leaves
    <2>1. \A t \in Slot : SameRequest(call'[t], call[t]) \/ call'[t].pc = "sent"
        BY <1>1, <1>2, SendSits
    <2> QED
        BY <1>2, <2>1 DEF Leaves, SameRequest
<1>3. ASSUME NEW s \in Slot, call' = Done(s), UNCHANGED <<room, members>>
      PROVE  Leaves
    BY <1>1, <1>3 DEF Done, NoCall, Leaves, RoomsTypeOK
<1>4. ASSUME NEW next, NEW cache, NEW requests \in [Slot -> Calls], GoTo(next, cache, requests),
             UNCHANGED <<room, members>>,
             requests = call \/ \E s \in Slot : requests = Done(s)
      PROVE  Leaves
    <2>1. \A t \in Slot : requests[t].pc \in {call[t].pc, "none"}
        BY <1>1, <1>4 DEF Done, NoCall, RoomsTypeOK
    <2>2. \A t \in Slot : call'[t].pc = requests[t].pc
        BY <1>4, GoToCalls DEF SameRequest
    <2> QED
        BY <1>4, <2>1, <2>2 DEF Leaves
<1>5. ASSUME NEW page \in {"home"} \cup RoomPage, Visit(page)
      PROVE  Leaves
    BY <1>1, <1>4, <1>5 DEF Visit, RoomsTypeOK
<1>6. CASE \/ OpenLink \/ UNCHANGED vars
           \/ \E u \in User \cup {None} : SetKickTarget(u)
           \/ \E k \in Query : FetchRead(k) \/ FetchEnds(k) \/ FetchFails(k)
           \/ OpenCreate \/ CloseCreate \/ ToggleAutoPop \/ OpenDelete \/ CloseDelete
           \/ OpenMembers \/ CloseMembers \/ OpenInvite \/ CloseInvite
    BY <1>1, <1>6 DEF OpenLink, vars, SetKickTarget, FetchRead, FetchEnds, FetchFails, OpenCreate,
       CloseCreate, ToggleAutoPop, OpenDelete, CloseDelete, OpenMembers, CloseMembers, OpenInvite,
       CloseInvite, Dialog, roomVars
<1>7. CASE \/ \E settings \in Settings :
                 \/ SubmitSettings(settings)
                 \/ \E popAt \in {"none", "future", "due"} : SubmitCreate(settings, popAt)
           \/ HandleDelete \/ HandleKick \/ ClickPop
           \/ \E uses \in {"single", "many"} : HandleGenerate(uses)
           \/ \E u \in User : HandleRoleToggle(u) \/ OtherActs(u)
    <2>1. UNCHANGED <<room, members>>
        BY <1>7 DEF SubmitSettings, SubmitCreate, HandleDelete, HandleKick, ClickPop,
           HandleGenerate, HandleRoleToggle, OtherActs, Mutate
    <2>2. \E kind, u, x, v : Send(Request(kind, u, x, v))
        BY <1>7 DEF SubmitSettings, SubmitCreate, HandleDelete, HandleKick, ClickPop,
           HandleGenerate, HandleRoleToggle, OtherActs, Mutate
    <2> QED
        BY <1>2, <2>1, <2>2
<1>8. CASE PostJoin
    <2>1. \A t \in Slot : \/ SameRequest(call'[t], call[t])
                          \/ call'[t].pc \in {"sent", "none"}
        BY <1>8, PostJoinSits DEF Sits, NoCall
    <2> QED
        BY <1>8, <2>1 DEF PostJoin, Leaves, SameRequest
<1>9. ASSUME NEW s \in Slot,
             \/ CreateEnds(s) \/ UpdateEnds(s) \/ DeleteEnds(s) \/ RoleEnds(s)
             \/ KickEnds(s) \/ PopEnds(s) \/ InviteEnds(s) \/ JoinEnds(s) \/ OtherEnds(s)
      PROVE  Leaves
    <2>1. \/ \E next, cache : GoTo(next, cache, Done(s)) /\ UNCHANGED <<room, members>>
          \/ call' = Done(s) /\ UNCHANGED <<room, members>>
        BY <1>9 DEF CreateEnds, UpdateEnds, DeleteEnds, RoleEnds, KickEnds, PopEnds, InviteEnds,
           JoinEnds, OtherEnds, Stay, Keep
    <2> QED
        BY <1>1, <1>3, <1>4, <2>1, DoneCalls
<1>10. ASSUME NEW s \in Slot, ConnectionFails(s)
       PROVE  Leaves
    <2>1. PICK q \in Calls : q = call[s]
        BY <1>1 DEF RoomsTypeOK
    <2>2. /\ call' = [call EXCEPT ![s] = Answer(q, "lost")] /\ UNCHANGED <<room, members>>
        BY <1>10, <2>1 DEF ConnectionFails
    <2>3. Answer(q, "lost").pc = "answered"
        BY DEF Answer, Calls
    <2> QED
        BY <1>1, <2>2, <2>3 DEF Leaves, RoomsTypeOK
<1> HIDE DEF Leaves
<1> QED
    BY <1>5, <1>6, <1>7, <1>8, <1>9, <1>10 DEF Next

\* The statements on a closed room find no row, whatever was checked before, and those
\* on its members do not start: what still changes in it are the members whose
\* statement saw the room open and had yet to COMMIT, each once.
THEOREM ClosedRoomStaysButForLateCommits == Spec => OnlyLateCommitsChangeClosedRoom
<1>1. ASSUME RoomIInv, [Next]_vars
      PROVE  [StaysButForLateCommits]_vars
    <2>1. CASE ServiceStep
        BY <1>1, <2>1, ServiceKeeps
    <2>2. CASE Leaves
        BY <1>1, <2>2, SameRoomStays DEF Leaves, RoomIInv
    <2> QED
        BY <1>1, <2>1, <2>2, OthersLeaveRoom
<1> QED
    BY <1>1, RoomInvariant, PTL DEF Spec, OnlyLateCommitsChangeClosedRoom

\* As long as nobody else acts and no request fails, the entries hold what the
\* service would answer, are marked, or wait for the request that changed it.
THEOREM PagesInvariant == Spec => []AloneOK
<1>1. Init => AloneOK
    BY InitPages
<1>2. RoomIInv /\ AloneOK /\ [Next]_vars => AloneOK'
    BY PagesStep
<1> QED
    BY <1>1, <1>2, RoomInvariant, PTL DEF Spec

\* What invalidateQueries leaves alone is what no mutation changes: once nothing is
\* under way, every query in use shows the room as it is.
THEOREM CalmPagesAlwaysConverge == Spec => []CalmPagesConverge
<1>1. AloneOK => CalmPagesConverge
    <2> SUFFICES ASSUME AloneOK, Calm, NEW k \in Query, query[k].pc = "idle", Mounted(k), Found,
                        ~query[k].overtaken
                 PROVE  query[k].data = Read(k)
        BY DEF CalmPagesConverge
    <2>1. Fits(query[k], Read(k), Due(k), Gone, Mounted(k))
        BY DEF AloneOK, Alone, Calm, TabOK, FitsOK
    <2>2. ~Due(k)
        BY DEF Due, DueBy, Calm, NoCall
    <2>3. ~Gone
        BY DEF Gone, Found
    <2> QED
        BY <2>1, <2>2, <2>3 DEF Fits
<1> QED
    BY <1>1, PagesInvariant, PTL
=============================================================================
