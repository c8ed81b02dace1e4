------------------------------- MODULE Admins -------------------------------
(***************************************************************************)
(* The administration of the platform as the administrators' browsers use  *)
(* it: the accounts of the auth service, the sessions, rooms, members and  *)
(* messages they remove, and the audit log. A request takes one step per   *)
(* statement of its handler, so requests of several administrators         *)
(* interleave. The pages are in AdminPages.                                *)
(***************************************************************************)
EXTENDS Integers, FiniteSets

CONSTANTS
    User,            \* accounts, there already or created by an administrator
    Role,            \* the roles an account can have
    Initially,       \* the role of each account at the start, or None: no account
    Slot,            \* requests under way at once
    None

\* What else than an account an administrator can remove.
Item == {"session", "room", "member", "message"}

ASSUME AdminConstants ==
    /\ IsFiniteSet(User) /\ None \notin User \cup Role
    /\ {"USER", "ADMIN"} \subseteq Role
    /\ Initially \in [User -> Role \cup {None}]
    /\ \E u \in User : Initially[u] = "ADMIN"
    /\ User \cap Item = {}

VARIABLES
    account,    \* [User -> [role, disabled]]; without an account, the role is None
    claim,      \* the role in the access token each user's browser holds, or None
    removed,    \* the items that were removed
    projected,  \* whether chat-query knows of the removal of the message
    audit,      \* the audit log: [action, target, value]
    call,       \* for each slot, a request and how far its handler is
    faults,     \* history: how many statements, requests or answers were lost
    raced       \* history: whether two changes of accounts were decided at once

adminVars == <<account, claim, removed, projected, audit, call, faults, raced>>

NoCall == [kind |-> "none", by |-> None, claim |-> None, target |-> None, value |-> None,
           pc |-> "idle", status |-> "none", seen |-> FALSE]

\* A request leaves with the token its browser holds.
Request(kind, u, t, v) ==
    [kind |-> kind, by |-> u, claim |-> claim[u], target |-> t, value |-> v,
     pc |-> "sent", status |-> "none", seen |-> TRUE]

Answer(c, status) == [c EXCEPT !.pc = "answered", !.status = status]
At(s, kind, pc)   == call[s].kind = kind /\ call[s].pc = pc
Reply(s, status)  == call' = [call EXCEPT ![s] = Answer(@, status)]
GoOn(s, pc)       == call' = [call EXCEPT ![s].pc = pc]

Exists(u)    == account[u].role # None
ActiveAdmins == {u \in User : account[u].role = "ADMIN" /\ ~account[u].disabled}

\* Handlers that have read what they decide on and have not written yet.
Deciding == {s \in Slot : call[s].kind \in {"create", "role", "disable"}
                          /\ call[s].pc \in {"count", "write"}}

----------------------------------------------------------------------------
(* Access *)

\* RequireRole looks at the token, not at the account.
Allowed(c) == c.claim = "ADMIN"

Refuse(s) ==
    /\ call[s].pc = "sent" /\ ~Allowed(call[s])
    /\ Reply(s, "denied")
    /\ UNCHANGED <<account, claim, removed, projected, audit, faults, raced>>

\* A refresh puts the role of the day into the token; a disabled account gets none.
RenewToken(u) ==
    /\ claim[u] # None
    /\ claim' = [claim EXCEPT ![u] = IF account[u].disabled THEN None ELSE account[u].role]
    /\ claim' # claim
    /\ UNCHANGED <<account, removed, projected, audit, call, faults, raced>>

\* Signing in with Google clears deleted_at.
SignInWithGoogle(u) ==
    /\ Exists(u) /\ account[u].disabled
    /\ account' = [account EXCEPT ![u].disabled = FALSE]
    /\ claim' = [claim EXCEPT ![u] = account[u].role]
    /\ UNCHANGED <<removed, projected, audit, call, faults, raced>>

----------------------------------------------------------------------------
(* Accounts *)

Arrived(s, kind) == At(s, kind, "sent") /\ Allowed(call[s])
Enter            == raced' = (raced \/ Deciding # {})

\* AdminCreateUser: the account is a USER's, and what else it is to be is a
\* statement of its own. The e-mail address is taken when the account exists.
CreateUser(s) ==
    LET u == call[s].target IN
    /\ Arrived(s, "create")
    /\ IF Exists(u)
       THEN Reply(s, "error") /\ UNCHANGED <<account, raced>>
       ELSE /\ account' = [account EXCEPT ![u] = [role |-> "USER", disabled |-> FALSE]]
            /\ IF call[s].value = "USER" THEN GoOn(s, "audit") /\ UNCHANGED raced
               ELSE GoOn(s, "write") /\ Enter
    /\ UNCHANGED <<claim, removed, projected, audit, faults>>

\* AdminSetRole up to the count: the account as it is now.
SetRole(s) ==
    LET c == call[s] IN
    /\ Arrived(s, "role")
    /\ \/ /\ c.target = c.by /\ c.value # "ADMIN"
          /\ Reply(s, "selfDemotion") /\ UNCHANGED raced
       \/ /\ c.target # c.by \/ c.value = "ADMIN"
          /\ ~Exists(c.target) /\ Reply(s, "error") /\ UNCHANGED raced
       \/ /\ c.target # c.by \/ c.value = "ADMIN"
          /\ Exists(c.target)
          /\ GoOn(s, IF account[c.target].role = "ADMIN" /\ c.value # "ADMIN"
                     THEN "count" ELSE "write")
          /\ Enter
    /\ UNCHANGED <<account, claim, removed, projected, audit, faults>>

\* AdminDisableUser; whoever it is, also the one who asks.
DisableUser(s) ==
    LET u == call[s].target IN
    /\ Arrived(s, "disable")
    /\ IF ~Exists(u) THEN Reply(s, "error") /\ UNCHANGED raced
       ELSE GoOn(s, IF account[u].role = "ADMIN" THEN "count" ELSE "write") /\ Enter
    /\ UNCHANGED <<account, claim, removed, projected, audit, faults>>

\* Mutant of CountAdmins: disabled administrators count.
CountAdmins_Disabled(s) ==
    /\ call[s].kind \in {"role", "disable"} /\ call[s].pc = "count"
    /\ IF Cardinality({u \in User : account[u].role = "ADMIN"}) <= 1
       THEN Reply(s, "lastAdmin") ELSE GoOn(s, "write")
    /\ UNCHANGED <<account, claim, removed, projected, audit, faults, raced>>

CountAdmins(s) ==
    /\ call[s].kind \in {"role", "disable"} /\ call[s].pc = "count"
    /\ IF Cardinality(ActiveAdmins) <= 1 THEN Reply(s, "lastAdmin") ELSE GoOn(s, "write")
    /\ UNCHANGED <<account, claim, removed, projected, audit, faults, raced>>

\* The UPDATE, which asks nothing again.
Write(s) ==
    LET c == call[s] IN
    /\ c.kind \in {"create", "role", "disable"} /\ c.pc = "write"
    /\ account' = IF c.kind = "disable" THEN [account EXCEPT ![c.target].disabled = TRUE]
                  ELSE [account EXCEPT ![c.target].role = c.value]
    /\ GoOn(s, "audit")
    /\ UNCHANGED <<claim, removed, projected, audit, faults, raced>>

RestoreUser(s) ==
    LET u == call[s].target IN
    /\ Arrived(s, "restore")
    /\ IF Exists(u)
       THEN account' = [account EXCEPT ![u].disabled = FALSE] /\ GoOn(s, "audit")
       ELSE Reply(s, "error") /\ UNCHANGED account
    /\ UNCHANGED <<claim, removed, projected, audit, faults, raced>>

----------------------------------------------------------------------------
(* Sessions, rooms, members, messages *)

\* A message is found once only; the others are removed again without complaint.
Remove(s) ==
    LET x == call[s].target IN
    /\ Arrived(s, "remove")
    /\ IF x = "message" /\ x \in removed
       THEN Reply(s, "error") /\ UNCHANGED removed
       ELSE removed' = removed \cup {x} /\ GoOn(s, "audit")
    /\ UNCHANGED <<account, claim, projected, audit, faults, raced>>

\* The removal of a message reaches chat-query through the outbox.
Project ==
    /\ "message" \in removed /\ ~projected
    /\ projected' = TRUE
    /\ UNCHANGED <<account, claim, removed, audit, call, faults, raced>>

----------------------------------------------------------------------------
(* The audit log *)

Event(c) == [action |-> c.kind, target |-> c.target, value |-> c.value]

\* Mutant of Record: removals of accounts are not recorded.
Record_NotDisabled(s) ==
    /\ call[s].pc = "audit"
    /\ audit' = IF call[s].kind = "disable" THEN audit ELSE audit \cup {Event(call[s])}
    /\ Reply(s, "ok")
    /\ UNCHANGED <<account, claim, removed, projected, faults, raced>>

Record(s) ==
    /\ call[s].pc = "audit"
    /\ audit' = audit \cup {Event(call[s])}
    /\ Reply(s, "ok")
    /\ UNCHANGED <<account, claim, removed, projected, faults, raced>>

\* What cannot be recorded is answered all the same, unless it is a role and
\* the account cannot be read again either.
RecordFails(s) ==
    /\ call[s].pc = "audit"
    /\ \/ Reply(s, "ok")
       \/ call[s].kind \in {"role", "restore"} /\ Reply(s, "error")
    /\ faults' = faults + 1
    /\ UNCHANGED <<account, claim, removed, projected, audit, raced>>

\* A statement fails, or its request is cancelled with the connection.
StatementFails(s) ==
    /\ call[s].pc \in {"sent", "count", "write"}
    /\ Reply(s, "error")
    /\ faults' = faults + 1
    /\ UNCHANGED <<account, claim, removed, projected, audit, raced>>
----------------------------------------------------------------------------

AdminsInit ==
    /\ account = [u \in User |-> [role |-> Initially[u], disabled |-> FALSE]]
    /\ claim = [u \in User |-> Initially[u]]
    /\ removed = {} /\ projected = FALSE /\ audit = {}
    /\ call = [s \in Slot |-> NoCall]
    /\ faults = 0 /\ raced = FALSE

Serve(s) ==
    \/ Refuse(s) \/ CreateUser(s) \/ SetRole(s) \/ DisableUser(s) \/ CountAdmins(s)
    \/ Write(s) \/ RestoreUser(s) \/ Remove(s) \/ Record(s)

Fail(s) == RecordFails(s) \/ StatementFails(s)

----------------------------------------------------------------------------
(* Properties *)

\* "Protect the last one": as long as no two changes of accounts were decided at
\* the same time, there is an administrator who can still act.
AdminRemains == ~raced => ActiveAdmins # {}

\* What the audit log does not explain: accounts and items that are not as they
\* were at the start, without an event that says so.
Explained(u) ==
    /\ account[u].role = Initially[u] \/ (\E e \in audit :
           e.target = u /\ e.action \in {"create", "role"} /\ e.value = account[u].role)
    /\ account[u].disabled => \E e \in audit : e.target = u /\ e.action = "disable"

Unexplained ==
    {u \in User : ~Explained(u)}
        \cup {x \in removed : \A e \in audit : e.target # x \/ e.action # "remove"}

\* Handlers ignore what becomes of the audit record: once they are done, there
\* are never more changes without a record than failures.
ChangesAreAudited ==
    (\A s \in Slot : call[s].pc \in {"idle", "answered"}) => Cardinality(Unexplained) <= faults
=============================================================================
