----------------------------- MODULE RoomPages -----------------------------
(***************************************************************************)
(* One person's tab on the pages of a room: the queries of use-rooms.ts    *)
(* and what invalidates them, the chat page's header, the settings page,   *)
(* the dialogs, and the page an invite link leads to. The room service is  *)
(* Rooms, and other people's browsers use it at the same time.             *)
(***************************************************************************)
EXTENDS Rooms, FiniteSets

CONSTANTS
    Me,                       \* who is signed in in this tab
    MaxSteps,                 \* bound: mutations of all browsers, lost requests, visits
    MaxReads                  \* bound: answers to queries on their way at once

\* None is told from everything the service answers with.
ASSUME PageConstants ==
    /\ Me \in User /\ MaxSteps \in Nat /\ MaxReads \in Nat
    /\ None \notin {"member", "admin"}
    /\ \A R \in SUBSET [settings : Settings, popped : BOOLEAN] : None # R
    /\ \A S \in SUBSET User : \A f \in [S -> {"member", "admin"}] : None # f

RoomQuery == {"room", "role", "members"}
Query     == RoomQuery \cup {"rooms"}
RoomPage  == {"chat", "settings"}

VARIABLES
    query,   \* for each query key, its entry in the query cache
    tab,     \* the page, its dialogs and what the person has entered
    steps,           \* how many of MaxSteps there have been
    failed, foreign  \* whether a request was lost; whether someone else has acted

bounds   == <<steps, failed, foreign>>
Counted  == steps < MaxSteps /\ steps' = steps + 1
vars     == <<roomVars, query, tab, bounds>>

\* What the service answers a query with now; None is a 404.
Read(k) ==
    CASE k = "room"    -> IF Found THEN [owner |-> room.owner, settings |-> room.settings,
                                         popped |-> room.popped] ELSE None
      [] k = "role"    -> IF Active(Me) THEN members[Me] ELSE None
      [] k = "members" -> [u \in {v \in User : Active(v)} |-> members[u]]
      [] k = "rooms"   -> IF Found /\ (room.owner = Me \/ Active(Me))
                          THEN {[settings |-> room.settings, popped |-> room.popped]}
                          ELSE {}

\* The list of rooms is in the sidebar, which the invite page does not have.
MountedOn(p) == CASE p \in RoomPage -> Query [] p = "home" -> {"rooms"} [] OTHER -> {}
Mounted(k)   == k \in MountedOn(tab.page)

\* overtaken: the answer under way was read before an invalidation that did not
\* start it again, and will pass for fresh.
NoEntry  == [pc |-> "idle", data |-> None, read |-> None, stale |-> FALSE, overtaken |-> FALSE]
Asked(e) == [e EXCEPT !.pc = "asked", !.read = None, !.stale = FALSE, !.overtaken = FALSE]

Outdated(e) == [e EXCEPT !.stale = TRUE, !.overtaken = e.pc = "read"]

\* Mutant of Invalidated: a fetch under way is taken to be good enough.
Invalidated_Joins(cache, Q) ==
    [k \in Query |->
        IF k \notin Q \/ cache[k].pc # "idle" THEN cache[k]
        ELSE IF Mounted(k) THEN Asked(cache[k]) ELSE Outdated(cache[k])]

\* invalidateQueries: a query in use is fetched again, whatever is under way.
Invalidated(cache, Q) ==
    [k \in Query |->
        IF k \notin Q THEN cache[k]
        ELSE IF Mounted(k) THEN Asked(cache[k]) ELSE Outdated(cache[k])]

\* Mounting fetches what has no data, was invalidated, or (old) is older than
\* 30 seconds.
MountedCache(cache, p, old) ==
    [k \in Query |->
        IF /\ k \in MountedOn(p) \ MountedOn(tab.page)
           /\ cache[k].pc = "idle"
           /\ (cache[k].data = None \/ cache[k].stale \/ old)
        THEN Asked(cache[k]) ELSE cache[k]]

FetchRead(k) ==
    /\ query[k].pc = "asked"
    /\ Cardinality({j \in Query : query[j].pc = "read"}) < MaxReads
    /\ query' = [query EXCEPT ![k].pc = "read", ![k].read = Read(k)]
    /\ UNCHANGED <<roomVars, tab, bounds>>

\* An error leaves the data as it is, and outdated.
FetchEnds(k) ==
    /\ query[k].pc = "read"
    /\ query' = [query EXCEPT ![k] =
           IF @.read = None THEN [@ EXCEPT !.pc = "idle", !.stale = TRUE]
           ELSE [@ EXCEPT !.pc = "idle", !.read = None, !.data = query[k].read, !.stale = FALSE]]
    /\ UNCHANGED <<roomVars, tab, bounds>>

FetchFails(k) ==
    /\ query[k].pc # "idle" /\ Counted /\ failed' = TRUE
    /\ query' = [query EXCEPT ![k].pc = "idle", ![k].read = None, ![k].stale = TRUE]
    /\ UNCHANGED <<roomVars, tab, foreign>>

----------------------------------------------------------------------------
(* Pages and what they show *)

Loading(k) == query[k].data = None /\ query[k].pc # "idle"

\* useIsAdmin
IsAdmin ==
    \/ query["room"].data # None /\ query["room"].data.owner = Me
    \/ query["role"].data = "admin"

IsPopped == query["room"].data # None /\ query["room"].data.popped

Rows == IF query["members"].data = None THEN {} ELSE DOMAIN query["members"].data

OnChat     == tab.page = "chat" /\ ~Loading("room")
OnSettings == tab.page = "settings" /\ ~Loading("room") /\ ~Loading("role")

\* Mutant of CanManage: an admin manages everyone else.
CanManage_AnyAdmin(u) == OnSettings /\ u \in Rows /\ IsAdmin /\ u # Me

CanManage(u) ==
    /\ OnSettings /\ u \in Rows /\ IsAdmin /\ u # Me
    /\ query["room"].data # None => u # query["room"].data.owner

\* A page starts with its own state; the dialog that creates a room belongs to
\* the sidebar. What is typed into a form is left to SubmitSettings.
FreshTab(p) ==
    [tab EXCEPT !.page = p, !.dialog = IF @ = "create" THEN @ ELSE "none", !.target = None,
                !.inviteUrl = "none", !.generating = None, !.notice = "none"]

Mine == {s \in Slot : call[s].by = Me}

\* The tab goes to the page of t: no page waits for what was sent before.
GoTo(t, cache, requests) ==
    /\ \E old \in BOOLEAN : query' = MountedCache(cache, t.page, old)
    /\ tab' = t
    /\ call' = [s \in Slot |->
                   [requests[s] EXCEPT !.seen = @ /\ requests[s].by # Me]]

Visit(p) ==
    /\ p # tab.page
    /\ tab.page = "invite" => p = "home" /\ tab.notice # "none"
    /\ p \in RoomPage => room # None
    /\ Counted /\ GoTo(FreshTab(p), query, call)
    /\ UNCHANGED <<room, members, invite, failed, foreign>>

\* The link loads the tab anew.
OpenLink ==
    /\ tab.page # "invite" /\ room # None
    /\ Mine = {} /\ Counted
    /\ query' = [k \in Query |-> NoEntry]
    /\ tab' = FreshTab("invite")
    /\ UNCHANGED <<roomVars, failed, foreign>>

----------------------------------------------------------------------------
(* Mutations of this tab *)

Waiting(kind) == \E s \in Mine : call[s].kind = kind /\ call[s].seen

Send(q) == \E s \in Slot : call[s] = NoCall /\ call' = [call EXCEPT ![s] = q]

Mutate(kind, t, v) ==
    /\ Counted
    /\ Send(Request(kind, Me, t, v))
    /\ UNCHANGED <<room, members, invite, query, failed, foreign>>

Ended(s, kind) == s \in Mine /\ call[s].pc = "answered" /\ call[s].kind = kind
Succeeded(s)   == call[s].status = "ok"

\* What the hook of a mutation invalidates when it succeeds.
Keys(kind) ==
    CASE kind \in {"create", "delete", "join"} -> {"rooms"}
      [] kind \in {"update", "pop"}            -> {"room", "rooms"}
      [] kind = "role"                         -> {"members"}
      [] kind = "kick"                         -> {"members", "rooms"}
      [] kind = "invite"                       -> {}

Settled(s) == IF Succeeded(s) THEN Invalidated(query, Keys(call[s].kind)) ELSE query
Done(s)    == [call EXCEPT ![s] = NoCall]
Keep       == UNCHANGED <<room, members, invite, bounds>>

\* The page stays and changes to t.
Stay(s, t) == call' = Done(s) /\ query' = Settled(s) /\ tab' = t /\ Keep

\* What the settings page says, unless it has gone.
Says(s, good) ==
    IF call[s].seen THEN [tab EXCEPT !.notice = IF Succeeded(s) THEN good ELSE "error"]
    ELSE tab

\* A dialog is modal: behind it, nothing can be clicked.
Dialog(from, to) ==
    /\ tab.dialog = from /\ tab' = [tab EXCEPT !.dialog = to]
    /\ UNCHANGED <<roomVars, query, bounds>>

(* CreateRoomDialog; the model follows one room *)

OpenCreate == room = None /\ tab.page # "invite" /\ Dialog("none", "create")

CloseCreate ==
    /\ tab.dialog = "create"
    /\ tab' = [tab EXCEPT !.dialog = "none", !.autoPop = TRUE]
    /\ UNCHANGED <<roomVars, query, bounds>>

ToggleAutoPop ==
    /\ tab.dialog = "create"
    /\ tab' = [tab EXCEPT !.autoPop = ~@]
    /\ UNCHANGED <<roomVars, query, bounds>>

\* The form refuses a time that is past; it may pass before the service looks.
SubmitCreate(settings, popAt) ==
    /\ room = None /\ tab.dialog = "create"
    /\ \A s \in Mine : call[s].kind # "create"
    /\ popAt \in IF tab.autoPop THEN {"future", "due"} ELSE {"none"}
    /\ Mutate("create", None, [settings |-> settings, popAt |-> popAt])
    /\ UNCHANGED tab

\* The room is shown; the dialog closes and is as new.
Created == [FreshTab("chat") EXCEPT !.dialog = "none", !.autoPop = TRUE]

CreateEnds(s) ==
    /\ Ended(s, "create")
    /\ IF Succeeded(s) THEN GoTo(Created, Settled(s), Done(s)) /\ Keep ELSE Stay(s, tab)

(* RoomSettingsPage *)

SubmitSettings(settings) ==
    /\ OnSettings /\ tab.dialog = "none" /\ IsAdmin /\ ~Waiting("update")
    /\ Mutate("update", None, settings)
    /\ tab' = [tab EXCEPT !.notice = "none"]

UpdateEnds(s) == Ended(s, "update") /\ Stay(s, Says(s, "updated"))

OpenDelete  == OnSettings /\ IsAdmin /\ Dialog("none", "delete")
CloseDelete == Dialog("delete", "none")

HandleDelete ==
    /\ tab.dialog = "delete" /\ ~Waiting("delete")
    /\ Mutate("delete", None, None)
    /\ UNCHANGED tab

\* Wherever the tab is by now, it goes to the home page.
DeleteEnds(s) ==
    /\ Ended(s, "delete")
    /\ IF Succeeded(s)
       THEN GoTo(FreshTab("home"), Settled(s), Done(s)) /\ Keep
       ELSE Stay(s, [Says(s, "none") EXCEPT
                            !.dialog = IF call[s].seen /\ @ = "delete" THEN "none" ELSE @])

\* The menu of a row is not disabled while a change of its role is under way.
HandleRoleToggle(u) ==
    /\ CanManage(u) /\ tab.dialog = "none"
    /\ Mutate("role", u, IF query["members"].data[u] = "admin" THEN "member" ELSE "admin")
    /\ UNCHANGED tab

RoleEnds(s) == Ended(s, "role") /\ Stay(s, Says(s, tab.notice))

SetKickTarget(u) ==
    /\ IF u = None THEN tab.dialog = "kick" ELSE tab.dialog = "none" /\ CanManage(u)
    /\ tab' = [tab EXCEPT !.target = u, !.dialog = IF u = None THEN "none" ELSE "kick"]
    /\ UNCHANGED <<roomVars, query, bounds>>

HandleKick ==
    /\ tab.target # None /\ ~Waiting("kick")
    /\ Mutate("kick", tab.target, None)
    /\ UNCHANGED tab

\* The target is cleared, whoever it is by now.
KickEnds(s) ==
    /\ Ended(s, "kick")
    /\ Stay(s,
            IF call[s].seen
            THEN [Says(s, tab.notice) EXCEPT !.target = None,
                                             !.dialog = IF @ = "kick" THEN "none" ELSE @]
            ELSE tab)

(* ChatPage, MembersDialog and InviteLinkDialog *)

OpenMembers  == OnChat /\ Dialog("none", "members")
CloseMembers == Dialog("members", "none")

ClickPop ==
    /\ OnChat /\ tab.dialog = "none" /\ IsAdmin /\ ~IsPopped /\ ~Waiting("pop")
    /\ Mutate("pop", None, None)
    /\ UNCHANGED tab

PopEnds(s) == Ended(s, "pop") /\ Stay(s, tab)

OpenInvite == OnChat /\ IsAdmin /\ Dialog("none", "invite")

\* A link, or a new one in its place; generating is the request its button waits for.
HandleGenerate(uses) ==
    /\ tab.dialog = "invite" /\ tab.generating = None
    /\ Mutate("invite", None, uses)
    /\ \E s \in Slot : call'[s] # call[s] /\ tab' = [tab EXCEPT !.generating = s]

\* Also after the dialog was closed: it opens with this link the next time.
InviteEnds(s) ==
    /\ Ended(s, "invite")
    /\ Stay(s,
            [tab EXCEPT !.generating = IF @ = s THEN None ELSE @,
                        !.inviteUrl = IF Succeeded(s) /\ call[s].seen THEN call[s].value ELSE @])

\* The mutation is reset: the button waits no longer for a request under way.
CloseInvite ==
    /\ tab.dialog = "invite"
    /\ tab' = [tab EXCEPT !.dialog = "none", !.inviteUrl = "none", !.generating = None]
    /\ UNCHANGED <<roomVars, query, bounds>>

(* InvitePage *)

\* The effect depends on the mutation object, which is new on every render: the
\* page posts again and again, and hears only about its last request.
PostJoin ==
    /\ tab.page = "invite" /\ Counted
    /\ \E s \in Slot :
         /\ call[s] = NoCall
         /\ call' = [t \in Slot |-> IF t = s THEN Request("join", Me, None, None)
                                    ELSE [call[t] EXCEPT !.seen = @ /\ t \notin Mine]]
    /\ UNCHANGED <<room, members, invite, query, tab, failed, foreign>>

JoinEnds(s) ==
    /\ Ended(s, "join")
    /\ IF Succeeded(s) /\ call[s].seen
       THEN GoTo(FreshTab("chat"), Settled(s), Done(s)) /\ Keep
       ELSE Stay(s,
                 IF call[s].seen THEN [tab EXCEPT !.notice = call[s].status] ELSE tab)

\* The request or its answer is lost on the way.
ConnectionFails(s) ==
    /\ s \in Mine /\ call[s].pc \in {"sent", "answered"} /\ call[s].status # "lost"
    /\ Counted /\ failed' = TRUE
    /\ call' = [call EXCEPT ![s] = Answer(@, "lost")]
    /\ UNCHANGED <<room, members, invite, query, tab, foreign>>

----------------------------------------------------------------------------
(* Everyone else *)

\* Another browser offers what its page shows, which is up to date here.
OtherActs(u) ==
    /\ Counted /\ u # Me /\ Found
    /\ \/ ~Active(u) /\ Send(Request("join", u, None, None))
       \/ /\ Manager(u)
          /\ \/ \E kind \in {"delete", "pop"} : Send(Request(kind, u, None, None))
             \/ \E settings \in Settings : Send(Request("update", u, None, settings))
             \/ \E t \in {v \in User : Active(v)} \ {u, room.owner} :
                  \/ Send(Request("kick", u, t, None))
                  \/ Send(Request("role", u, t, IF Manager(t) THEN "member" ELSE "admin"))
    /\ UNCHANGED <<room, members, invite, query, tab, failed, foreign>>

OtherEnds(s) ==
    /\ call[s].pc = "answered" /\ s \notin Mine
    /\ call' = Done(s)
    /\ UNCHANGED <<room, members, invite, query, tab, bounds>>

\* Steps of the service; what others did, and what time did, is foreign.
ServiceStep ==
    /\ \/ \E s \in Slot : Serve(s) /\ foreign' = (foreign \/ s \notin Mine)
       \/ (Clock \/ \E s \in Slot : UserUnknown(s)) /\ foreign' = TRUE
    /\ UNCHANGED <<query, tab, steps, failed>>
----------------------------------------------------------------------------

\* There is no room yet, or this tab has loaded a page of the room, or is about
\* to join it.
Init ==
    /\ \/ room = None /\ members = [u \in User |-> "none"] /\ invite = "none"
       \/ \E owner \in User, name \in Name, role \in {"admin", "member", "none"} :
            /\ room = [owner |-> owner, settings |-> [name |-> name, text |-> NoText],
                       popAt |-> "future", popped |-> FALSE, deleted |-> FALSE]
            /\ members = [u \in User |-> IF u = owner THEN "admin" ELSE role]
            /\ invite = IF role = "none" THEN "many" ELSE "none"
    /\ call = [s \in Slot |-> NoCall]
    /\ \E p \in IF room # None /\ Active(Me) THEN RoomPage ELSE {"home", "invite"} :
         /\ p = "invite" => invite # "none"
         /\ tab = [page |-> p, dialog |-> "none", target |-> None, autoPop |-> TRUE,
                   inviteUrl |-> "none", generating |-> None, notice |-> "none"]
         /\ query = [k \in Query |-> IF k \in MountedOn(p)
                                     THEN [NoEntry EXCEPT !.data = Read(k)] ELSE NoEntry]
    /\ steps = 0 /\ failed = FALSE /\ foreign = FALSE

Next ==
    \/ ServiceStep \/ OpenLink
    \/ \E u \in User : OtherActs(u) \/ HandleRoleToggle(u)
    \/ \E u \in User \cup {None} : SetKickTarget(u)
    \/ \E k \in Query : FetchRead(k) \/ FetchEnds(k) \/ FetchFails(k)
    \/ \E p \in {"home"} \cup RoomPage : Visit(p)
    \/ OpenCreate \/ CloseCreate \/ ToggleAutoPop
    \/ \E settings \in Settings :
         \/ SubmitSettings(settings)
         \/ \E popAt \in {"none", "future", "due"} : SubmitCreate(settings, popAt)
    \/ OpenDelete \/ CloseDelete \/ HandleDelete \/ HandleKick
    \/ OpenMembers \/ CloseMembers \/ ClickPop \/ OpenInvite \/ CloseInvite \/ PostJoin
    \/ \E uses \in {"single", "many"} : HandleGenerate(uses)
    \/ \E s \in Slot :
         \/ CreateEnds(s) \/ UpdateEnds(s) \/ DeleteEnds(s) \/ RoleEnds(s) \/ KickEnds(s)
         \/ PopEnds(s) \/ InviteEnds(s) \/ JoinEnds(s) \/ ConnectionFails(s) \/ OtherEnds(s)

Spec == Init /\ [][Next]_vars

----------------------------------------------------------------------------
(* Properties *)

Closed == room # None /\ (room.popped \/ room.deleted)

StaysButForLateCommits ==
    Closed =>
        /\ room' = [room EXCEPT !.popAt = room'.popAt]
        /\ \A s \in Slot : call'[s].pc = "writing" => call[s].pc = "writing"
        /\ \A u \in User : members'[u] # members[u] =>
              \E s \in Slot :
                 call[s].pc = "writing" /\ Row(call[s]) = u /\ call'[s].pc # "writing"

\* Once a room is popped or deleted, its settings stay as they are, whichever
\* requests were past their check by then, and no statement on a member starts any
\* more. One exception: a removal, a change of role or a joining whose statement saw
\* the room open may still COMMIT, and changes the row it was for, once.
OnlyLateCommitsChangeClosedRoom == [][StaysButForLateCommits]_vars

\* The service lets any manager remove or demote the owner, and only what the
\* pages offer prevents it: as long as no request failed, the owner of a room is
\* one of its managers.
OwnerStaysAdmin == room # None /\ ~failed => Manager(room.owner)

\* Only this person has acted, nothing failed and nothing is under way: as long as
\* the room has not been deleted (Found: after that nothing is claimed), every query
\* in use shows what the service would answer. (An answer that was under way while
\* no page used it, when it was invalidated, is the other exception.)
Calm == ~foreign /\ ~failed /\ \A s \in Slot : call[s] = NoCall

CalmPagesConverge ==
    Calm /\ (\A k \in Query : query[k].pc = "idle") =>
        \A k \in Query : Mounted(k) /\ Found /\ ~query[k].overtaken => query[k].data = Read(k)
=============================================================================
