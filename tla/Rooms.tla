------------------------------- MODULE Rooms -------------------------------
(***************************************************************************)
(* The room service: one room, its members and an invite link, under       *)
(* requests that overlap. A request first reads what it depends on and     *)
(* answers with an error if that forbids it; its statement runs later,     *)
(* and repeats in its WHERE clause what must still hold then. A statement  *)
(* on the room waits for its row and looks at it again. A statement on a   *)
(* member waits for the member's row alone: what it says of the room is    *)
(* what it saw when it started, whatever has been committed since.         *)
(*                                                                         *)
(* Operations of site administrators, which skip the check of popped_at,   *)
(* are not in this module.                                                 *)
(***************************************************************************)
EXTENDS Naturals

CONSTANTS
    User, None,
    Name, Text, NoText,  \* names of a room; its description, or none
    Slot                 \* requests that may be under way at the same time

Settings == [name : Name, text : Text \cup {NoText}]

\* A row of the rooms table (popAt: whether pop_at is set, and has come), and
\* what GET /rooms/:id answers.
RoomRow  == [owner : User, settings : Settings, popAt : {"none", "future", "due"},
             popped : BOOLEAN, deleted : BOOLEAN]
RoomData == [owner : User, settings : Settings, popped : BOOLEAN]

ASSUME RoomConstants ==
    /\ None \notin User /\ NoText \notin Text
    /\ None \notin RoomRow /\ None \notin RoomData

VARIABLES
    room,      \* the row of the room, or None
    members,   \* for each user, the row in room_member
    invite,    \* the invite link: "none", "single" or "many"
    call       \* for each slot, its request

roomVars == <<room, members, invite, call>>

\* seen: whether the page that sent the request still waits for the answer.
NoCall == [pc |-> "none", kind |-> "none", by |-> None, target |-> None,
           value |-> None, status |-> "none", seen |-> TRUE]

Request(kind, by, target, value) ==
    [NoCall EXCEPT !.pc = "sent", !.kind = kind, !.by = by, !.target = target,
                   !.value = value]

Answer(q, status) == [q EXCEPT !.pc = "answered", !.status = status]

\* The requests that write a row of room_member, and whose row that is.
MemberKinds == {"kick", "role", "join"}
Row(q)      == IF q.kind = "join" THEN q.by ELSE q.target

\* What a SELECT on the room finds.
Found == room # None /\ ~room.deleted
Open  == Found /\ ~room.popped

Active(u)  == members[u] \in {"member", "admin"}
Manager(u) == members[u] = "admin"

----------------------------------------------------------------------------
(* What a request reads, and the error it ends with there *)

Refusal(q) ==
    CASE q.kind = "create"                          -> IF q.value.popAt = "due"
                                                       THEN "invalid" ELSE "none"
      [] q.kind = "join" /\ invite = "none"         -> "notFound"
      [] q.kind \in {"pop", "kick", "role"} /\ ~Manager(q.by) -> "forbidden"
      [] ~Found                                     -> "notFound"
      [] room.popped                                -> "popped"
      [] q.kind = "invite" /\ ~Manager(q.by)        -> "forbidden"
      [] q.kind = "join" /\ Active(q.by)            -> "conflict"
      [] q.kind = "role" /\ ~Active(q.target)       -> "notFound"
      [] OTHER                                      -> "none"

\* An update carries what it was given on top of what it read; an empty field
\* was not sent.
Patched(given, read) ==
    [given EXCEPT !.text = IF @ = NoText THEN read.text ELSE @]

Check(s) ==
    LET q == call[s]
    IN /\ q.pc = "sent"
       /\ call' = [call EXCEPT ![s] =
             IF Refusal(q) # "none" THEN Answer(q, Refusal(q))
             ELSE IF q.kind = "update"
             THEN [q EXCEPT !.pc = "checked", !.value = Patched(@, room.settings)]
             ELSE [q EXCEPT !.pc = "checked"]]
       /\ UNCHANGED <<room, members, invite>>

\* The user who joins has been deleted, or auth does not answer.
UserUnknown(s) ==
    LET q == call[s]
    IN /\ q.pc = "sent" /\ q.kind = "join" /\ Refusal(q) \in {"none", "conflict"}
       /\ call' = [call EXCEPT ![s] = Answer(q, "notFound")]
       /\ UNCHANGED <<room, members, invite>>

----------------------------------------------------------------------------
(* Statements *)

\* Mutant of Writable: the check before the statement is taken to be enough.
Writable_Checked == Found

\* popped_at IS NULL AND deleted_at IS NULL
Writable == Open

CreateRoom(q) ==
    /\ room' = [owner |-> q.by, settings |-> q.value.settings, popAt |-> q.value.popAt,
                popped |-> FALSE, deleted |-> FALSE]
    /\ members' = [u \in User |-> IF u = q.by THEN "admin" ELSE "none"]
    /\ UNCHANGED invite

UpdateRoom(q) ==
    Writable /\ room' = [room EXCEPT !.settings = q.value] /\ UNCHANGED <<members, invite>>

DeleteRoom ==
    ~room.popped /\ room' = [room EXCEPT !.deleted = TRUE] /\ UNCHANGED <<members, invite>>

PopRoom ==
    Writable /\ room' = [room EXCEPT !.popped = TRUE] /\ UNCHANGED <<members, invite>>

\* What the WHERE clause says of the member's row. The key of room_member is
\* (room, user): who has left cannot be added again.
RowMatches(q) ==
    CASE q.kind = "kick" -> members[q.target] # "none"
      [] q.kind = "role" -> Active(q.target)
      [] q.kind = "join" -> members[q.by] = "none"

RemoveMember(u)       == members' = [members EXCEPT ![u] = "left"]
UpdateMember(u, role) == members' = [members EXCEPT ![u] = role]
JoinByInviteLink(u)   == members' = [members EXCEPT ![u] = "member"]

CreateInviteLink(single) ==
    invite' = single /\ UNCHANGED <<room, members>>

\* The EXISTS on rooms of a statement on a member: without a lock on the room.
Execute(s) ==
    /\ call[s].pc = "checked" /\ call[s].kind \in MemberKinds
    /\ Writable /\ RowMatches(call[s])
    /\ call' = [call EXCEPT ![s].pc = "writing"]
    /\ UNCHANGED <<room, members, invite>>

MemberStatement(q) ==
    /\ RowMatches(q)
    /\ CASE q.kind = "kick" -> RemoveMember(q.target)
         [] q.kind = "role" -> UpdateMember(q.target, q.value)
         [] q.kind = "join" -> JoinByInviteLink(q.by)
    /\ UNCHANGED <<room, invite>>

Statement(q) ==
    CASE q.kind = "create" -> room = None /\ CreateRoom(q)
      [] q.kind = "update" -> UpdateRoom(q)
      [] q.kind = "delete" -> DeleteRoom
      [] q.kind = "pop"    -> PopRoom
      [] q.kind = "invite" -> CreateInviteLink(q.value)
      [] OTHER             -> MemberStatement(q)

\* A statement on a member is seen from its COMMIT on; until then it holds the
\* member's row, or waits for it and then looks at it again.
Commit(s) ==
    LET q == call[s]
    IN /\ q.pc = IF q.kind \in MemberKinds THEN "writing" ELSE "checked"
       /\ Statement(q)
       /\ call' = [call EXCEPT ![s] =
             IF q.kind = "join" THEN [q EXCEPT !.pc = "joined"] ELSE Answer(q, "ok")]

\* A link for one use is deleted after it was used; that this fails is ignored.
LinkUsed(s) ==
    /\ call[s].pc = "joined"
    /\ invite' = invite \/ (invite = "single" /\ invite' = "none")
    /\ call' = [call EXCEPT ![s] = Answer(@, "ok")]
    /\ UNCHANGED <<room, members>>

\* No row was affected, or the row is there already.
NoRow(s) ==
    LET q == call[s]
    IN /\ \/ /\ q.pc = "checked"
             /\ CASE q.kind = "delete"            -> room.popped
                  [] q.kind \in {"update", "pop"}   -> ~Writable
                  [] q.kind \in MemberKinds         -> ~Writable \/ ~RowMatches(q)
                  [] OTHER                          -> FALSE
          \/ q.pc = "writing" /\ ~RowMatches(q)
       /\ call' = [call EXCEPT ![s] =
             Answer(q, IF q.kind = "join" THEN "conflict" ELSE "notFound")]
       /\ UNCHANGED <<room, members, invite>>

----------------------------------------------------------------------------
(* Time *)

PopTimeComes ==
    /\ room # None /\ room.popAt = "future"
    /\ room' = [room EXCEPT !.popAt = "due"]
    /\ UNCHANGED <<members, invite, call>>

\* PopScheduler's next tick.
PopRooms ==
    /\ Writable /\ room.popAt = "due"
    /\ room' = [room EXCEPT !.popped = TRUE]
    /\ UNCHANGED <<members, invite, call>>

InviteExpires ==
    /\ invite # "none"
    /\ invite' = "none"
    /\ UNCHANGED <<room, members, call>>

Serve(s) == Check(s) \/ Execute(s) \/ Commit(s) \/ LinkUsed(s) \/ NoRow(s)

Clock == PopTimeComes \/ PopRooms \/ InviteExpires
=============================================================================
