----------------------------- MODULE AdminPages -----------------------------
(***************************************************************************)
(* One administrator's tab on the pages under /admin: the queries of       *)
(* use-admin.ts, what its mutations invalidate, and the pages. Admins is   *)
(* what the tab talks to, with the other administrators' requests.         *)
(***************************************************************************)
EXTENDS Admins

CONSTANTS
    Me,              \* the administrator whose tab this is
    Filter,          \* the choices of "Active only", "Include disabled", "Disabled only"
    MaxSteps,        \* bound: requests of all tabs, visits and changes of the filter
    MaxFaults        \* bound: faults

\* None is told from every list the services answer with.
ASSUME PageConstants ==
    /\ Me \in User /\ Initially[Me] = "ADMIN"
    /\ Filter \subseteq {"active", "include", "only"} /\ "active" \in Filter
    /\ MaxSteps \in Nat /\ MaxFaults \in Nat
    /\ \A S \in SUBSET Item : S # None
    /\ \A S \in SUBSET User : None \notin [S -> [role : Role \cup {None}, disabled : BOOLEAN]]

Page      == {"overview", "users", "sessions", "rooms", "messages", "audit"}
UserQuery == {<<"users", f>> : f \in Filter}
Query     == UserQuery \cup
             {<<p>> : p \in {"stats", "sessions", "rooms", "members", "messages", "audit"}}

VARIABLES
    query,    \* for each query key, its entry in the query cache
    tab,      \* the page, the filter of the users page, the dialog
    steps,    \* how many of MaxSteps there have been
    foreign   \* history: whether someone else has acted

vars    == <<adminVars, query, tab, steps, foreign>>
Counted == steps < MaxSteps /\ steps' = steps + 1
Backend == <<account, claim, removed, projected, audit, raced>>

Listed(u, f) ==
    Exists(u) /\ (f = "include" \/ (account[u].disabled <=> f = "only"))

Left(x) == IF x \in removed THEN {} ELSE {x}

\* What is counted on the overview: active accounts, sessions and rooms.
Counts == <<{v \in User : Listed(v, "active")}, Left("session"), Left("room")>>

\* What the services answer a query with now.
Read(k) ==
    CASE k[1] = "users"    -> [u \in {v \in User : Listed(v, k[2])} |-> account[u]]
      [] k[1] = "sessions" -> Left("session")
      [] k[1] = "rooms"    -> Left("room")
      [] k[1] = "members"  -> Left("member")
      [] k[1] = "messages" -> IF projected THEN {} ELSE {"message"}
      [] k[1] = "audit"    -> audit
      [] k[1] = "stats"    -> Counts

\* overtaken: the answer under way was read before an invalidation that did not
\* start it again, and will pass for fresh.
NoEntry  == [pc |-> "idle", data |-> None, read |-> None, stale |-> FALSE, overtaken |-> FALSE]
Asked(e) == [e EXCEPT !.pc = "asked", !.read = None, !.stale = FALSE, !.overtaken = FALSE]

Shown(k, cache) == IF cache[k].data = None THEN {} ELSE cache[k].data

\* Every row of the rooms page holds the dialog with its members, open or not.
MountedOn(t, cache) ==
    CASE t.page = "overview" -> {<<"stats">>}
      [] t.page = "users"    -> {<<"users", t.filter>>}
      [] t.page = "rooms"    -> {<<"rooms">>} \cup {<<"members">> : x \in Shown(<<"rooms">>, cache)}
      [] OTHER               -> {<<t.page>>}

Mounted(k) == k \in MountedOn(tab, query)

\* What the page has a row for; the members are in the row of their room.
Rows(t, cache) ==
    CASE t.page = "users" ->
             LET k == <<"users", t.filter>>
             IN  IF cache[k].data = None THEN {} ELSE DOMAIN cache[k].data
      [] t.page \in {"sessions", "messages"} -> Shown(<<t.page>>, cache)
      [] t.page = "rooms" ->
             UNION {{x, "member"} : x \in Shown(<<"rooms">>, cache)}
      [] OTHER -> {}

\* Mounting fetches what has no data, was invalidated, or (old) is older than
\* 30 seconds.
Mount(cache, new, old) ==
    [k \in Query |->
        IF /\ k \in new \ MountedOn(tab, query)
           /\ cache[k].pc = "idle"
           /\ (cache[k].data = None \/ cache[k].stale \/ old)
        THEN Asked(cache[k]) ELSE cache[k]]

\* invalidateQueries: a query in use is fetched again, whatever is under way.
Invalidated(cache, Q) ==
    [k \in Query |->
        IF k \notin Q \/ cache[k] = NoEntry THEN cache[k]
        ELSE IF Mounted(k) THEN Asked(cache[k])
        ELSE [cache[k] EXCEPT !.stale = TRUE, !.overtaken = cache[k].pc = "read"]]

\* A row or a page that has gone no longer waits for the requests it sent.
Waits(c) ==
    /\ c.seen
    /\ c.by = Me => IF c.kind = "create" THEN tab'.page = "users" ELSE c.target \in Rows(tab', query')

Remaining(calls) == call' = [s \in Slot |-> [calls[s] EXCEPT !.seen = Waits(calls[s])]]

FetchRead(k) ==
    /\ query[k].pc = "asked" /\ \A j \in Query : query[j].pc # "read"
    /\ query' = [query EXCEPT ![k].pc = "read",
                              ![k].read = IF claim[Me] = "ADMIN" THEN Read(k) ELSE None]
    /\ UNCHANGED <<adminVars, tab, steps, foreign>>

\* An error leaves the data as it is, and outdated. The rows of a list may come and go with it.
FetchEnds(k) ==
    /\ query[k].pc = "read"
    /\ LET e == IF query[k].read = None THEN [query[k] EXCEPT !.pc = "idle", !.stale = TRUE]
                ELSE [query[k] EXCEPT !.pc = "idle", !.read = None, !.data = query[k].read,
                                      !.stale = FALSE]
           q == [query EXCEPT ![k] = e]
       IN  /\ \E old \in BOOLEAN : query' = Mount(q, MountedOn(tab, q), old)
           /\ tab' = [tab EXCEPT !.dialog = IF @ = "members" /\ Shown(<<"rooms">>, q) = {}
                                            THEN "none" ELSE @]
    /\ Remaining(call)
    /\ UNCHANGED <<Backend, faults, steps, foreign>>

FetchFails(k) ==
    /\ query[k].pc # "idle" /\ faults < MaxFaults /\ faults' = faults + 1
    /\ query' = [query EXCEPT ![k].pc = "idle", ![k].read = None, ![k].stale = TRUE]
    /\ UNCHANGED <<Backend, call, tab, steps, foreign>>

----------------------------------------------------------------------------
(* Pages, the filter and the dialogs *)

FreshTab(p) == [page |-> p, filter |-> "active", dialog |-> "none"]

Show(t) ==
    /\ \E old \in BOOLEAN : query' = Mount(query, MountedOn(t, query), old)
    /\ tab' = t
    /\ Remaining(call)
    /\ UNCHANGED <<Backend, faults, foreign>>

Visit(p) == p # tab.page /\ Counted /\ Show(FreshTab(p))

\* A dialog is modal: behind it, nothing can be clicked.
Free(p) == tab.page = p /\ tab.dialog = "none"

SetDeleted(f) ==
    /\ Free("users") /\ f # tab.filter
    /\ Counted /\ Show([tab EXCEPT !.filter = f])

Dialog(p, from, to) ==
    /\ tab.page = p /\ tab.dialog = from /\ tab' = [tab EXCEPT !.dialog = to]
    /\ UNCHANGED <<adminVars, query, steps, foreign>>

OpenCreate   == Dialog("users", "none", "create")
CloseCreate  == Dialog("users", "create", "none")
OpenMembers  == Rows(tab, query) # {} /\ Dialog("rooms", "none", "members")
CloseMembers == Dialog("rooms", "members", "none")

\* "Apply" fetches the list again, unless that is under way.
Apply(p) ==
    /\ tab.page = p /\ query[<<p>>].pc = "idle"
    /\ Counted
    /\ query' = [query EXCEPT ![<<p>>] = Asked(@)]
    /\ UNCHANGED <<adminVars, tab, foreign>>

ApplyMessages == Apply("messages")
ApplyAudit    == Apply("audit")

----------------------------------------------------------------------------
(* Mutations of this tab *)

Mine == {s \in Slot : call[s].by = Me}

Waiting(kind, x) ==
    \E s \in Mine : call[s].kind = kind /\ call[s].seen /\ (kind = "create" \/ call[s].target = x)

Send(q) == \E s \in Slot : call[s] = NoCall /\ call' = [call EXCEPT ![s] = q]

Mutate(kind, x, v) ==
    /\ ~Waiting(kind, x)
    /\ Counted /\ Send(Request(kind, Me, x, v))
    /\ UNCHANGED <<Backend, faults, query, tab, foreign>>

Row(u) == query[<<"users", tab.filter>>].data[u]

SubmitCreate(u, role) ==
    /\ tab.dialog = "create"
    /\ Mutate("create", u, role)

ChangeRole(u, role) ==
    /\ Free("users") /\ u \in Rows(tab, query)
    /\ ~Row(u).disabled /\ role # Row(u).role
    /\ Mutate("role", u, role)

ClickDisable(u) ==
    /\ Free("users") /\ u \in Rows(tab, query) /\ ~Row(u).disabled
    /\ Mutate("disable", u, None)

ClickRestore(u) ==
    /\ Free("users") /\ u \in Rows(tab, query) /\ Row(u).disabled
    /\ Mutate("restore", u, None)

ClickRemove(p, x) ==
    /\ Free(p) /\ x \in Rows(tab, query)
    /\ Mutate("remove", x, None)

ClickRevoke        == ClickRemove("sessions", "session")
ClickDeleteRoom    == ClickRemove("rooms", "room")
ClickDeleteMessage == ClickRemove("messages", "message")

ClickRemoveMember ==
    /\ tab.dialog = "members" /\ "member" \in Shown(<<"members">>, query)
    /\ Mutate("remove", "member", None)

\* Mutant of Keys: the list that is shown, not the same list with other filters.
Keys_ShownFilter(c) ==
    CASE c.kind # "remove"      -> {<<"users", tab.filter>>}
      [] c.target = "session"   -> {<<"sessions">>}
      [] c.target = "room"      -> {<<"rooms">>}
      [] c.target = "member"    -> {<<"members">>}
      [] c.target = "message"   -> {<<"messages">>}

\* What the hook of a mutation invalidates when it succeeds.
Keys(c) ==
    CASE c.kind # "remove"      -> UserQuery
      [] c.target = "session"   -> {<<"sessions">>}
      [] c.target = "room"      -> {<<"rooms">>}
      [] c.target = "member"    -> {<<"members">>}
      [] c.target = "message"   -> {<<"messages">>}

\* The dialog closes when the account is there, also if it was opened again since.
MutationEnds(s) ==
    LET c == call[s] IN
    /\ s \in Mine /\ c.pc = "answered"
    /\ query' = IF c.status = "ok" THEN Invalidated(query, Keys(c)) ELSE query
    /\ tab' = [tab EXCEPT !.dialog = IF /\ c.kind = "create" /\ c.status = "ok" /\ c.seen
                                        /\ @ = "create"
                                     THEN "none" ELSE @]
    /\ Remaining([call EXCEPT ![s] = NoCall])
    /\ UNCHANGED <<Backend, faults, steps, foreign>>

----------------------------------------------------------------------------
(* Other administrators, and what happens to a request *)

\* Another tab offers every change there is.
OtherActs(u) ==
    /\ u # Me /\ claim[u] = "ADMIN" /\ Counted
    /\ \/ \E t \in User, r \in Role, kind \in {"create", "role"} : Send(Request(kind, u, t, r))
       \/ \E t \in User, kind \in {"disable", "restore"} : Send(Request(kind, u, t, None))
       \/ \E x \in Item : Send(Request("remove", u, x, None))
    /\ UNCHANGED <<Backend, faults, query, tab, foreign>>

OtherEnds(s) ==
    /\ s \notin Mine /\ call[s].pc = "answered"
    /\ call' = [call EXCEPT ![s] = NoCall]
    /\ UNCHANGED <<Backend, faults, query, tab, steps, foreign>>

\* The answer is lost on the way.
AnswerLost(s) ==
    /\ call[s].pc = "answered" /\ call[s].status # "lost"
    /\ Reply(s, "lost") /\ faults' = faults + 1
    /\ UNCHANGED Backend

Server ==
    /\ \/ \E s \in Slot :
             /\ Serve(s) \/ (faults < MaxFaults /\ (Fail(s) \/ AnswerLost(s)))
             /\ foreign' = (foreign \/ s \notin Mine)
       \/ Project /\ UNCHANGED foreign
       \/ \E u \in User : RenewToken(u) /\ UNCHANGED foreign
       \/ \E u \in User \ {Me} : SignInWithGoogle(u) /\ foreign' = TRUE
    /\ UNCHANGED <<query, tab, steps>>
----------------------------------------------------------------------------

\* The tab has loaded one of its lists, or has been on every page before, and on
\* the users page with any filter.
Init ==
    /\ AdminsInit
    /\ \E p \in {"users", "rooms"}, f \in Filter :
         /\ p = "rooms" => f = "active"
         /\ tab = [FreshTab(p) EXCEPT !.filter = f]
         /\ \E loaded \in {Query, {k \in Query : k[1] = p \/ (p = "rooms" /\ k[1] = "members")}} :
              query = [k \in Query |-> IF k \in loaded THEN [NoEntry EXCEPT !.data = Read(k)]
                                       ELSE NoEntry]
    /\ steps = 0 /\ foreign = FALSE

Next ==
    \/ Server
    \/ \E k \in Query : FetchRead(k) \/ FetchEnds(k) \/ FetchFails(k)
    \/ \E p \in Page : Visit(p)
    \/ \E f \in Filter : SetDeleted(f)
    \/ OpenCreate \/ CloseCreate \/ OpenMembers \/ CloseMembers
    \/ ApplyMessages \/ ApplyAudit
    \/ ClickRevoke \/ ClickDeleteRoom \/ ClickRemoveMember \/ ClickDeleteMessage
    \/ \E u \in User :
         \/ \E role \in Role : SubmitCreate(u, role) \/ ChangeRole(u, role)
         \/ ClickDisable(u) \/ ClickRestore(u) \/ OtherActs(u)
    \/ \E s \in Slot : MutationEnds(s) \/ OtherEnds(s)

Spec == Init /\ [][Next]_vars

----------------------------------------------------------------------------
(* Properties *)

\* Only this administrator has acted, nothing failed and nothing is under way:
\* the lists of accounts, sessions, rooms and members on the page are what the
\* services would answer, whatever was changed on which page and with which
\* filter. The overview and the audit log are not invalidated, and the removal of
\* a message takes its time. (An answer that was under way while no page used it,
\* when it was invalidated, is the exception.)
Calm ==
    /\ ~foreign /\ faults = 0 /\ claim[Me] = "ADMIN"
    /\ \A s \in Slot : call[s] = NoCall
    /\ \A k \in Query : query[k].pc = "idle"

AdminListsConverge ==
    Calm => \A k \in MountedOn(tab, query) :
        k[1] \in {"users", "sessions", "rooms", "members"} /\ ~query[k].overtaken =>
            query[k].data = Read(k)
=============================================================================
