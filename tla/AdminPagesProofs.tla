-------------------------- MODULE AdminPagesProofs --------------------------
(***************************************************************************)
(* Theorems about Admins and AdminPages, for any number of accounts, roles *)
(* and requests under way. That an administrator remains is not inductive: *)
(* between the count and the UPDATE a handler relies on what it counted.   *)
(* The invariant says what it may rely on while it is alone. The audit log *)
(* is about something else: which changes have no record, and how many     *)
(* faults, and handlers that are not done, there are to account for them.  *)
(* The lists of the tab are about what a request that is still to be       *)
(* answered will invalidate.                                               *)
(***************************************************************************)
EXTENDS AdminPages, FiniteSetTheorems, TLAPS

Kinds    == {"none", "create", "role", "disable", "restore", "remove"}
Statuses == {"none", "ok", "error", "denied", "selfDemotion", "lastAdmin", "lost"}
Progress == {"idle", "sent", "count", "write", "audit", "answered"}

Accounts == [role : Role \cup {None}, disabled : BOOLEAN]

Calls ==
    [kind : Kinds, by : User \cup {None}, claim : Role \cup {None},
     target : User \cup Item \cup {None}, value : Role \cup {None},
     pc : Progress, status : Statuses, seen : BOOLEAN]

\* A request about an account names one, and a role where it is about a role.
NamesAccount(c) ==
    /\ c.kind \in {"create", "role", "disable", "restore"} => c.target \in User
    /\ c.kind \in {"create", "role"} => c.value \in Role

AdminTypeOK ==
    /\ account \in [User -> Accounts]
    /\ claim \in [User -> Role \cup {None}]
    /\ call \in [Slot -> Calls]
    /\ \A s \in Slot : NamesAccount(call[s])

\* What a handler at its UPDATE may rely on: it makes or leaves an administrator
\* of its target, its target is none, or there is another one who is active.
Spared(c) ==
    \/ c.kind # "disable" /\ c.value = "ADMIN"
    \/ account[c.target].role # "ADMIN"
    \/ \E v \in ActiveAdmins : v # c.target

\* As long as no two handlers decided at once.
Guarded ==
    /\ ActiveAdmins # {}
    /\ \A s, t \in Deciding : s = t
    /\ \A s \in Deciding : call[s].pc = "write" => Spared(call[s])

AdminIInv == AdminTypeOK /\ (~raced => Guarded)

----------------------------------------------------------------------------
(* Lemmas on the operators *)

\* The request in a slot is the same, at most further on.
Same(c, d) == c.kind = d.kind /\ c.by = d.by /\ c.target = d.target /\ c.value = d.value

\* An answer ends a request and leaves the others alone.
LEMMA ReplyFacts ==
    ASSUME AdminTypeOK, NEW s \in Slot, NEW status \in Statuses, Reply(s, status)
    PROVE  /\ call' \in [Slot -> Calls] /\ \A t \in Slot : NamesAccount(call'[t])
           /\ call'[s].pc = "answered" /\ call'[s].status = status
           /\ \A t \in Slot : Same(call'[t], call[t])
           /\ \A t \in Slot \ {s} : call'[t] = call[t]
<1>1. [call[s] EXCEPT !.pc = "answered", !.status = status] \in Calls
    BY DEF AdminTypeOK, Calls, Progress
<1>2. /\ Answer(call[s], status) \in Calls
      /\ Answer(call[s], status).pc = "answered" /\ Answer(call[s], status).status = status
      /\ Same(Answer(call[s], status), call[s])
    BY <1>1 DEF AdminTypeOK, Calls, Answer, Same
<1>3. call' = [call EXCEPT ![s] = Answer(call[s], status)]
    BY DEF Reply
<1> QED
    BY <1>2, <1>3 DEF AdminTypeOK, Same, NamesAccount

\* So does moving on.
LEMMA GoOnFacts ==
    ASSUME AdminTypeOK, NEW s \in Slot, NEW pc \in Progress, GoOn(s, pc)
    PROVE  /\ call' \in [Slot -> Calls] /\ \A t \in Slot : NamesAccount(call'[t])
           /\ call'[s].pc = pc
           /\ \A t \in Slot : Same(call'[t], call[t])
           /\ \A t \in Slot \ {s} : call'[t] = call[t]
BY DEF AdminTypeOK, GoOn, Calls, NamesAccount, Same

\* Rows that go only lose sight of their requests.
LEMMA RemainingFacts ==
    ASSUME NEW calls \in [Slot -> Calls], \A t \in Slot : NamesAccount(calls[t]),
           Remaining(calls)
    PROVE  /\ call' \in [Slot -> Calls] /\ \A t \in Slot : NamesAccount(call'[t])
           /\ \A t \in Slot : /\ Same(call'[t], calls[t]) /\ call'[t].pc = calls[t].pc
                               /\ call'[t].status = calls[t].status
<1>1. \A t \in Slot : Waits(calls[t]) \in BOOLEAN
    BY DEF Waits
<1>2. \A t \in Slot : call'[t] = [calls[t] EXCEPT !.seen = Waits(calls[t])]
    BY DEF Remaining
<1>3. call' = [t \in Slot |-> [calls[t] EXCEPT !.seen = Waits(calls[t])]]
    BY DEF Remaining
<1>4. ASSUME NEW t \in Slot, NEW w \in BOOLEAN
      PROVE  /\ [calls[t] EXCEPT !.seen = w] \in Calls
             /\ [calls[t] EXCEPT !.seen = w].kind = calls[t].kind
             /\ [calls[t] EXCEPT !.seen = w].by = calls[t].by
             /\ [calls[t] EXCEPT !.seen = w].status = calls[t].status
             /\ [calls[t] EXCEPT !.seen = w].target = calls[t].target
             /\ [calls[t] EXCEPT !.seen = w].value = calls[t].value
             /\ [calls[t] EXCEPT !.seen = w].pc = calls[t].pc
    BY DEF Calls
<1> HIDE DEF Calls, Waits
<1>5. call' \in [Slot -> Calls]
    BY <1>1, <1>3, <1>4
<1>6. \A t \in Slot : /\ Same(call'[t], calls[t]) /\ call'[t].pc = calls[t].pc
                       /\ call'[t].status = calls[t].status
    <2>1. ASSUME NEW t \in Slot
          PROVE  /\ Same(call'[t], calls[t]) /\ call'[t].pc = calls[t].pc
                 /\ call'[t].status = calls[t].status
        <3>1. PICK w \in BOOLEAN : call'[t] = [calls[t] EXCEPT !.seen = w]
            BY <1>1, <1>2
        <3> QED
            BY <1>4, <3>1 DEF Same
    <2> QED
        BY <2>1
<1>7. ASSUME NEW t \in Slot PROVE NamesAccount(call'[t])
    BY <1>6 DEF Same, NamesAccount
<1> QED
    BY <1>5, <1>6, <1>7

\* A slot is free or taken by a request that leaves.
LEMMA SendFacts ==
    ASSUME AdminTypeOK, NEW q \in Calls, NamesAccount(q), q.pc = "sent", Send(q)
    PROVE  /\ call' \in [Slot -> Calls] /\ \A t \in Slot : NamesAccount(call'[t])
           /\ \A t \in Slot : call'[t].pc = "sent" \/ call'[t] = call[t]
<1>1. PICK s \in Slot : call' = [call EXCEPT ![s] = q]
    BY DEF Send
<1> QED
    BY <1>1 DEF AdminTypeOK

----------------------------------------------------------------------------
(* The guard *)

\* A step that takes no administrator away and brings no request to its
\* decision: all those of a page, and most of the handlers'.
Aside ==
    /\ raced' = raced
    /\ ActiveAdmins \subseteq ActiveAdmins'
    /\ \A u \in User : account'[u].role = "ADMIN" => account[u].role = "ADMIN"
    /\ \A s \in Slot : \/ Same(call'[s], call[s]) /\ call'[s].pc = call[s].pc
                       \/ call'[s].pc \notin {"count", "write"}

LEMMA AsideKeepsGuard ==
    ASSUME AdminTypeOK, Guarded, Aside
    PROVE  Guarded'
<1>1. \A s \in Deciding' : s \in Deciding /\ Same(call'[s], call[s])
                           /\ call'[s].pc = call[s].pc
    BY DEF Aside, Deciding, Same
<1>2. ASSUME NEW s \in Deciding', call'[s].pc = "write"
      PROVE  Spared(call[s])'
    <2>1. Spared(call[s]) /\ call[s].target \in User
        BY <1>1, <1>2 DEF Guarded, Deciding, AdminTypeOK, NamesAccount
    <2> QED
        BY <2>1, <1>1, <1>2 DEF Spared, Aside, Same
<1> QED
    BY <1>1, <1>2 DEF Guarded, Aside

\* A handler that begins its decision while no other is at its own.
LEMMA EnterKeepsGuard ==
    ASSUME AdminTypeOK, AdminTypeOK', ~raced => Guarded, NEW s \in Slot,
           Enter, ActiveAdmins' = ActiveAdmins,
           \A t \in Slot \ {s} : call'[t] = call[t],
           call'[s].pc = "write" => Spared(call[s])'
    PROVE  ~raced' => Guarded'
<1> SUFFICES ASSUME ~raced' PROVE Guarded'
    OBVIOUS
<1>1. Guarded /\ Deciding = {}
    BY DEF Enter
<1>2. \A t \in Deciding' : t = s
    BY <1>1 DEF Deciding
<1> QED
    BY <1>1, <1>2 DEF Guarded

----------------------------------------------------------------------------
(* Steps of the handlers *)

\* Every administrator that counts is counted: the sets are finite.
LEMMA AdminsAreFinite ==
    IsFiniteSet(ActiveAdmins)
BY AdminConstants, FS_Subset DEF ActiveAdmins

\* Steps after which nothing but the answer, the audit log or the items differ.
LEMMA AnswerStep ==
    ASSUME AdminIInv, NEW s \in Slot, UNCHANGED <<account, claim, raced>>,
           \/ \E status \in Statuses : Reply(s, status)
           \/ GoOn(s, "audit")
    PROVE  AdminIInv'
<1>1. AdminTypeOK
    BY DEF AdminIInv
<1>2. /\ call' \in [Slot -> Calls] /\ \A t \in Slot : NamesAccount(call'[t])
      /\ call'[s].pc \in {"answered", "audit"}
      /\ \A t \in Slot : Same(call'[t], call[t])
      /\ \A t \in Slot \ {s} : call'[t] = call[t]
    <2>1. CASE \E status \in Statuses : Reply(s, status)
        BY <1>1, <2>1, ReplyFacts
    <2>2. CASE GoOn(s, "audit")
        BY <1>1, <2>2, GoOnFacts DEF Progress
    <2> QED
        BY <2>1, <2>2
<1>3. AdminTypeOK'
    BY <1>1, <1>2 DEF AdminTypeOK
<1>4. Aside
    BY <1>2 DEF Aside, ActiveAdmins
<1> QED
    BY <1>1, <1>3, <1>4, AsideKeepsGuard DEF AdminIInv, Aside

LEMMA CreateUserStep ==
    ASSUME AdminIInv, NEW s \in Slot, CreateUser(s)
    PROVE  AdminIInv'
<1>1. AdminTypeOK /\ (~raced => Guarded)
    BY DEF AdminIInv
<1>2. CASE Exists(call[s].target)
    BY <1>2, AnswerStep DEF CreateUser, Statuses
<1>3. CASE ~Exists(call[s].target)
    <2> DEFINE u == call[s].target
    <2>1. u \in User /\ call[s].value \in Role
        BY <1>1 DEF CreateUser, Arrived, At, AdminTypeOK, NamesAccount
    <2>2. /\ account' = [account EXCEPT ![u] = [role |-> "USER", disabled |-> FALSE]]
          /\ claim' = claim
        BY <1>3 DEF CreateUser
    <2>3. GoOn(s, "audit") \/ GoOn(s, "write")
        BY <1>3 DEF CreateUser
    <2>4. /\ call' \in [Slot -> Calls] /\ \A t \in Slot : NamesAccount(call'[t])
          /\ \A t \in Slot : Same(call'[t], call[t])
          /\ \A t \in Slot \ {s} : call'[t] = call[t]
        BY <1>1, <2>3, GoOnFacts DEF Progress
    <2>5. account' \in [User -> Accounts]
        BY <1>1, <2>1, <2>2, AdminConstants DEF AdminTypeOK, Accounts
    <2>6. AdminTypeOK'
        BY <1>1, <2>2, <2>4, <2>5 DEF AdminTypeOK
    <2>7. account[u].role = None
        BY <1>3 DEF Exists
    <2>8. /\ \A v \in User : account'[v].role = "ADMIN" <=> account[v].role = "ADMIN"
          /\ \A v \in User : account[v].role = "ADMIN" => account'[v] = account[v]
        BY <1>1, <2>1, <2>2, <2>7, AdminConstants DEF AdminTypeOK
    <2>9. ActiveAdmins' = ActiveAdmins
        BY <2>8 DEF ActiveAdmins
    <2>10. CASE call[s].value = "USER"
        <3>1. GoOn(s, "audit") /\ raced' = raced
            BY <1>3, <2>10 DEF CreateUser
        <3>2. call'[s].pc = "audit"
            BY <1>1, <3>1, GoOnFacts DEF Progress
        <3>3. Aside
            BY <2>4, <2>8, <2>9, <3>1, <3>2 DEF Aside
        <3> QED
            BY <1>1, <2>6, <3>1, <3>3, AsideKeepsGuard DEF AdminIInv
    <2>11. CASE call[s].value # "USER"
        <3>1. Enter
            BY <1>3, <2>11 DEF CreateUser
        <3>2. account'[u].role # "ADMIN"
            BY <1>1, <2>1, <2>2 DEF AdminTypeOK
        <3>3. Spared(call[s])'
            BY <2>4, <3>2 DEF Spared, Same
        <3> QED
            BY <1>1, <2>4, <2>6, <2>9, <3>1, <3>3, EnterKeepsGuard DEF AdminIInv
    <2> QED
        BY <2>10, <2>11
<1> QED
    BY <1>2, <1>3

\* Both decide on the account as it is when they are let in.
LEMMA DecisionStep ==
    ASSUME AdminIInv, NEW s \in Slot, SetRole(s) \/ DisableUser(s)
    PROVE  AdminIInv'
<1>1. AdminTypeOK /\ (~raced => Guarded)
    BY DEF AdminIInv
<1>2. UNCHANGED <<account, claim>>
    BY DEF SetRole, DisableUser
<1>3. CASE raced' = raced /\ \E status \in Statuses : Reply(s, status)
    BY <1>2, <1>3, AnswerStep
<1>4. ASSUME NEW pc \in {"count", "write"}, GoOn(s, pc), Enter,
             pc = "write" => /\ call[s].target \in User
                             /\ \/ account[call[s].target].role # "ADMIN"
                                \/ call[s].kind = "role" /\ call[s].value = "ADMIN"
      PROVE  AdminIInv'
    <2>1. /\ call' \in [Slot -> Calls] /\ \A t \in Slot : NamesAccount(call'[t])
          /\ call'[s].pc = pc
          /\ \A t \in Slot : Same(call'[t], call[t])
          /\ \A t \in Slot \ {s} : call'[t] = call[t]
        BY <1>1, <1>4, GoOnFacts DEF Progress
    <2>2. AdminTypeOK'
        BY <1>1, <1>2, <2>1 DEF AdminTypeOK
    <2>3. ActiveAdmins' = ActiveAdmins
        BY <1>2 DEF ActiveAdmins
    <2>4. call'[s].pc = "write" => Spared(call[s])'
        BY <1>2, <1>4, <2>1 DEF Spared, Same
    <2> QED
        BY <1>1, <1>4, <2>1, <2>2, <2>3, <2>4, EnterKeepsGuard DEF AdminIInv
<1>5. CASE SetRole(s)
    <2>1. call[s].kind = "role" /\ call[s].target \in User
        BY <1>1, <1>5 DEF SetRole, Arrived, At, AdminTypeOK, NamesAccount
    <2>2. \/ raced' = raced /\ (Reply(s, "selfDemotion") \/ Reply(s, "error"))
          \/ /\ Enter
             /\ GoOn(s, IF account[call[s].target].role = "ADMIN" /\ call[s].value # "ADMIN"
                        THEN "count" ELSE "write")
        BY <1>5 DEF SetRole
    <2> QED
        BY <1>3, <1>4, <2>1, <2>2 DEF Statuses
<1>6. CASE DisableUser(s)
    <2>1. call[s].target \in User
        BY <1>1, <1>6 DEF DisableUser, Arrived, At, AdminTypeOK, NamesAccount
    <2>2. \/ raced' = raced /\ Reply(s, "error")
          \/ /\ Enter
             /\ GoOn(s, IF account[call[s].target].role = "ADMIN" THEN "count" ELSE "write")
        BY <1>6 DEF DisableUser
    <2> QED
        BY <1>3, <1>4, <2>1, <2>2 DEF Statuses
<1> QED
    BY <1>5, <1>6

\* More than one administrator: one of them is not the target.
LEMMA CountAdminsStep ==
    ASSUME AdminIInv, NEW s \in Slot, CountAdmins(s)
    PROVE  AdminIInv'
<1>1. AdminTypeOK /\ (~raced => Guarded)
    BY DEF AdminIInv
<1>2. UNCHANGED <<account, claim, raced>>
    BY DEF CountAdmins
<1>3. CASE Cardinality(ActiveAdmins) <= 1
    BY <1>2, <1>3, AnswerStep DEF CountAdmins, Statuses
<1>4. CASE ~(Cardinality(ActiveAdmins) <= 1)
    <2>1. /\ call' \in [Slot -> Calls] /\ \A t \in Slot : NamesAccount(call'[t])
          /\ \A t \in Slot : Same(call'[t], call[t])
          /\ \A t \in Slot \ {s} : call'[t] = call[t]
        BY <1>1, <1>4, GoOnFacts DEF CountAdmins, Progress
    <2>2. AdminTypeOK'
        BY <1>1, <1>2, <2>1 DEF AdminTypeOK
    <2>3. ActiveAdmins' = ActiveAdmins
        BY <1>2 DEF ActiveAdmins
    <2>4. \E v \in ActiveAdmins : v # call[s].target
        <3> SUFFICES ASSUME ActiveAdmins \subseteq {call[s].target} PROVE FALSE
            OBVIOUS
        <3>1. Cardinality(ActiveAdmins) <= Cardinality({call[s].target})
            BY FS_Singleton, FS_Subset
        <3> QED
            BY <3>1, <1>4, AdminsAreFinite, FS_Singleton, FS_CardinalityType
    <2>5. ASSUME ~raced PROVE Guarded'
        <3>1. Guarded /\ s \in Deciding
            BY <1>1, <2>5 DEF CountAdmins, Deciding
        <3>2. \A t \in Deciding' : t \in Deciding
            BY <2>1, <3>1 DEF Deciding, Same
        <3>3. \A t \in Deciding' : t = s
            BY <3>1, <3>2 DEF Guarded
        <3>4. Spared(call[s])'
            BY <2>1, <2>3, <2>4 DEF Spared, Same
        <3> QED
            BY <2>3, <3>1, <3>3, <3>4 DEF Guarded
    <2> QED
        BY <1>2, <2>2, <2>5 DEF AdminIInv
<1> QED
    BY <1>3, <1>4

\* The UPDATE of the one that decides; what it relied on is what leaves an
\* administrator.
LEMMA WriteStep ==
    ASSUME AdminIInv, NEW s \in Slot, Write(s)
    PROVE  AdminIInv'
<1> DEFINE u == call[s].target
<1>1. AdminTypeOK /\ (~raced => Guarded)
    BY DEF AdminIInv
<1>2. /\ call[s].kind \in {"create", "role", "disable"} /\ call[s].pc = "write"
      /\ GoOn(s, "audit") /\ UNCHANGED <<claim, raced>>
      /\ u \in User
    BY <1>1 DEF Write, AdminTypeOK, NamesAccount
<1>3. account' = IF call[s].kind = "disable" THEN [account EXCEPT ![u].disabled = TRUE]
                 ELSE [account EXCEPT ![u].role = call[s].value]
    BY DEF Write
<1>4. /\ call' \in [Slot -> Calls] /\ \A t \in Slot : NamesAccount(call'[t])
      /\ call'[s].pc = "audit"
      /\ \A t \in Slot \ {s} : call'[t] = call[t]
    BY <1>1, <1>2, GoOnFacts DEF Progress
<1>5. call[s].kind # "disable" => call[s].value \in Role
    BY <1>1, <1>2 DEF AdminTypeOK, NamesAccount
<1>6. account' \in [User -> Accounts]
    BY <1>1, <1>2, <1>3, <1>5 DEF AdminTypeOK, Accounts
<1>7. AdminTypeOK'
    BY <1>1, <1>2, <1>4, <1>6 DEF AdminTypeOK
<1>8. ASSUME ~raced PROVE Guarded'
    <2>1. Guarded /\ s \in Deciding
        BY <1>1, <1>2, <1>8 DEF Deciding
    <2>2. Deciding' = {}
        BY <1>4, <2>1 DEF Deciding, Guarded
    <2>3. Spared(call[s]) /\ ActiveAdmins # {}
        BY <1>2, <2>1 DEF Guarded
    <2>4. \A v \in User \ {u} : account'[v] = account[v]
        BY <1>1, <1>3 DEF AdminTypeOK
    <2>5. ActiveAdmins' # {}
        <3>1. CASE \E v \in ActiveAdmins : v # u
            BY <2>4, <3>1 DEF ActiveAdmins
        <3>2. CASE ~(\E v \in ActiveAdmins : v # u)
            <4>1. u \in ActiveAdmins /\ call[s].kind # "disable" /\ call[s].value = "ADMIN"
                BY <2>3, <3>2 DEF Spared, ActiveAdmins
            <4>2. account'[u].role = "ADMIN" /\ account'[u].disabled = account[u].disabled
                BY <1>1, <1>2, <1>3, <4>1 DEF AdminTypeOK, Accounts
            <4> QED
                BY <1>2, <4>1, <4>2 DEF ActiveAdmins
        <3> QED
            BY <3>1, <3>2
    <2> QED
        BY <2>2, <2>5 DEF Guarded
<1> QED
    BY <1>2, <1>7, <1>8 DEF AdminIInv

\* Coming back makes no fewer administrators.
LEMMA ReturnStep ==
    ASSUME AdminIInv, NEW u \in User,
           account' = [account EXCEPT ![u].disabled = FALSE], raced' = raced,
           claim' \in [User -> Role \cup {None}],
           call' \in [Slot -> Calls], \A t \in Slot : NamesAccount(call'[t]),
           \A s \in Slot : \/ Same(call'[s], call[s]) /\ call'[s].pc = call[s].pc
                           \/ call'[s].pc \notin {"count", "write"}
    PROVE  AdminIInv'
<1>1. AdminTypeOK /\ (~raced => Guarded)
    BY DEF AdminIInv
<1>2. AdminTypeOK'
    BY <1>1 DEF AdminTypeOK, Accounts
<1>3. \A v \in User : /\ account'[v].role = account[v].role
                      /\ ~account[v].disabled => ~account'[v].disabled
    BY <1>1 DEF AdminTypeOK, Accounts
<1>4. Aside
    BY <1>3 DEF Aside, ActiveAdmins
<1> QED
    BY <1>1, <1>2, <1>4, AsideKeepsGuard DEF AdminIInv

LEMMA ServeStep ==
    ASSUME AdminIInv, NEW s \in Slot, Serve(s) \/ Fail(s) \/ AnswerLost(s)
    PROVE  AdminIInv'
<1>1. AdminTypeOK
    BY DEF AdminIInv
<1>2. CASE Refuse(s)
    BY <1>2, AnswerStep DEF Refuse, Statuses
<1>3. CASE RestoreUser(s)
    <2>1. CASE ~Exists(call[s].target)
        BY <1>3, <2>1, AnswerStep DEF RestoreUser, Statuses
    <2>2. CASE Exists(call[s].target)
        <3>1. call[s].target \in User
            BY <1>1, <1>3 DEF RestoreUser, Arrived, At, AdminTypeOK, NamesAccount
        <3>2. /\ account' = [account EXCEPT ![call[s].target].disabled = FALSE]
              /\ GoOn(s, "audit") /\ UNCHANGED <<claim, raced>>
            BY <1>3, <2>2 DEF RestoreUser
        <3>3. /\ call' \in [Slot -> Calls] /\ \A t \in Slot : NamesAccount(call'[t])
              /\ call'[s].pc = "audit"
              /\ \A t \in Slot \ {s} : call'[t] = call[t]
            BY <1>1, <3>2, GoOnFacts DEF Progress
        <3>4. claim' \in [User -> Role \cup {None}]
            BY <1>1, <3>2 DEF AdminTypeOK
        <3>5. \A t \in Slot : \/ Same(call'[t], call[t]) /\ call'[t].pc = call[t].pc
                             \/ call'[t].pc \notin {"count", "write"}
            BY <3>3 DEF Same
        <3> QED
            BY <3>1, <3>2, <3>3, <3>4, <3>5, ReturnStep
    <2> QED
        BY <2>1, <2>2
<1>4. CASE Remove(s)
    BY <1>4, AnswerStep DEF Remove, Statuses
<1>5. CASE Record(s)
    BY <1>5, AnswerStep DEF Record, Statuses
<1>6. CASE Fail(s)
    BY <1>6, AnswerStep DEF Fail, RecordFails, StatementFails, Statuses
<1>7. CASE AnswerLost(s)
    BY <1>7, AnswerStep DEF AnswerLost, Backend, Statuses
<1> QED
    BY <1>2, <1>3, <1>4, <1>5, <1>6, <1>7, CreateUserStep, DecisionStep,
       CountAdminsStep, WriteStep DEF Serve

----------------------------------------------------------------------------
(* Steps of the accounts' owners and of the page *)

\* Accounts stand still and no request is brought to its decision.
LEMMA AsideStep ==
    ASSUME AdminIInv, UNCHANGED <<account, raced>>,
           claim' \in [User -> Role \cup {None}],
           call' \in [Slot -> Calls], \A t \in Slot : NamesAccount(call'[t]),
           \A s \in Slot : \/ Same(call'[s], call[s]) /\ call'[s].pc = call[s].pc
                           \/ call'[s].pc \notin {"count", "write"}
    PROVE  AdminIInv'
<1>1. AdminTypeOK /\ AdminTypeOK'
    BY DEF AdminIInv, AdminTypeOK
<1>2. Aside
    BY DEF Aside, ActiveAdmins
<1> QED
    BY <1>1, <1>2, AsideKeepsGuard DEF AdminIInv, Aside

LEMMA QuietStep ==
    ASSUME AdminIInv, UNCHANGED <<account, claim, call, raced>>
    PROVE  AdminIInv'
BY AsideStep DEF AdminIInv, AdminTypeOK, Same

LEMMA ShowStep ==
    ASSUME AdminIInv, UNCHANGED Backend, Remaining(call)
    PROVE  AdminIInv'
BY AsideStep, RemainingFacts DEF AdminIInv, AdminTypeOK, Backend

LEMMA SendStep ==
    ASSUME AdminIInv, UNCHANGED Backend, NEW kind \in Kinds, NEW u \in User,
           NEW t \in User \cup Item, NEW v \in Role \cup {None},
           kind \in {"create", "role", "disable", "restore"} => t \in User,
           kind \in {"create", "role"} => v \in Role,
           Send(Request(kind, u, t, v))
    PROVE  AdminIInv'
<1>1. /\ Request(kind, u, t, v) \in Calls /\ NamesAccount(Request(kind, u, t, v))
      /\ Request(kind, u, t, v).pc = "sent"
    BY DEF AdminIInv, AdminTypeOK, Request, Calls, Progress, Statuses, NamesAccount
<1>2. /\ call' \in [Slot -> Calls] /\ \A x \in Slot : NamesAccount(call'[x])
      /\ \A x \in Slot : call'[x].pc = "sent" \/ call'[x] = call[x]
    BY <1>1, SendFacts DEF AdminIInv
<1> QED
    BY <1>2, AsideStep DEF AdminIInv, AdminTypeOK, Backend, Same

LEMMA ServerStep ==
    ASSUME AdminIInv, Server
    PROVE  AdminIInv'
<1>1. CASE \E s \in Slot : Serve(s) \/ Fail(s) \/ AnswerLost(s)
    BY <1>1, ServeStep
<1>2. CASE Project
    BY <1>2, QuietStep DEF Project
<1>3. ASSUME NEW u \in User, RenewToken(u)
      PROVE  AdminIInv'
    <2>1. claim' \in [User -> Role \cup {None}]
        BY <1>3 DEF RenewToken, AdminIInv, AdminTypeOK, Accounts
    <2> QED
        BY <1>3, <2>1, AsideStep DEF RenewToken, AdminIInv, AdminTypeOK, Same
<1>4. ASSUME NEW u \in User, SignInWithGoogle(u)
      PROVE  AdminIInv'
    <2>1. claim' \in [User -> Role \cup {None}]
        BY <1>4 DEF SignInWithGoogle, AdminIInv, AdminTypeOK, Accounts
    <2> QED
        BY <1>4, <2>1, ReturnStep DEF SignInWithGoogle, AdminIInv, AdminTypeOK, Same
<1> QED
    BY <1>1, <1>2, <1>3, <1>4 DEF Server

\* Answered requests are let go; the rows that are left see what remains.
LEMMA EndsStep ==
    ASSUME AdminIInv, NEW s \in Slot, MutationEnds(s) \/ OtherEnds(s)
    PROVE  AdminIInv'
<1> DEFINE calls == [call EXCEPT ![s] = NoCall]
<1>1. AdminTypeOK /\ UNCHANGED Backend
    BY DEF AdminIInv, MutationEnds, OtherEnds
<1>2. NoCall \in Calls /\ NamesAccount(NoCall) /\ NoCall.pc = "idle"
    BY DEF NoCall, Calls, Kinds, Progress, Statuses, NamesAccount
<1>3. calls \in [Slot -> Calls] /\ \A t \in Slot : NamesAccount(calls[t])
    BY <1>1, <1>2 DEF AdminTypeOK
<1>4. \A t \in Slot : calls[t] = call[t] \/ calls[t].pc = "idle"
    BY <1>1, <1>2 DEF AdminTypeOK
<1>5. /\ call' \in [Slot -> Calls] /\ \A t \in Slot : NamesAccount(call'[t])
      /\ \A t \in Slot : Same(call'[t], calls[t]) /\ call'[t].pc = calls[t].pc
    <2>1. CASE MutationEnds(s)
        BY <2>1, <1>3, RemainingFacts DEF MutationEnds
    <2>2. CASE OtherEnds(s)
        BY <2>2, <1>3 DEF OtherEnds, Same
    <2> QED
        BY <2>1, <2>2
<1> QED
    BY <1>1, <1>4, <1>5, AsideStep DEF AdminTypeOK, Backend, Same

LEMMA ClickStep ==
    ASSUME AdminIInv, NEW u \in User, NEW role \in Role,
           \/ SubmitCreate(u, role) \/ ChangeRole(u, role)
           \/ ClickDisable(u) \/ ClickRestore(u) \/ OtherActs(u)
           \/ ClickRevoke \/ ClickDeleteRoom \/ ClickRemoveMember \/ ClickDeleteMessage
    PROVE  AdminIInv'
<1>1. Me \in User /\ UNCHANGED Backend
    BY PageConstants DEF SubmitCreate, ChangeRole, ClickDisable, ClickRestore, OtherActs,
       ClickRevoke, ClickDeleteRoom, ClickRemoveMember, ClickDeleteMessage, ClickRemove, Mutate
<1>2. CASE SubmitCreate(u, role) \/ ChangeRole(u, role) \/ ClickDisable(u) \/ ClickRestore(u)
    BY <1>1, <1>2, SendStep DEF SubmitCreate, ChangeRole, ClickDisable, ClickRestore, Mutate, Kinds
<1>3. CASE OtherActs(u)
    BY <1>1, <1>3, SendStep DEF OtherActs, Kinds
<1>4. CASE ClickRevoke \/ ClickDeleteRoom \/ ClickRemoveMember \/ ClickDeleteMessage
    <2>1. \E x \in {"session", "room", "member", "message"} :
             Send(Request("remove", Me, x, None))
        BY <1>4 DEF ClickRevoke, ClickDeleteRoom, ClickRemoveMember, ClickDeleteMessage,
           ClickRemove, Mutate
    <2> QED
        BY <1>1, <2>1, SendStep DEF Kinds, Item
<1> QED
    BY <1>2, <1>3, <1>4

LEMMA NextKeepsAdmins ==
    ASSUME AdminIInv, [Next]_vars
    PROVE  AdminIInv'
<1>1. CASE Server
    BY <1>1, ServerStep
<1>2. CASE \E k \in Query : FetchRead(k) \/ FetchEnds(k) \/ FetchFails(k)
    BY <1>2, QuietStep, ShowStep DEF FetchRead, FetchEnds, FetchFails, adminVars, Backend
<1>3. CASE \/ \E p \in Page : Visit(p)
          \/ \E f \in Filter : SetDeleted(f)
    BY <1>3, ShowStep DEF Visit, SetDeleted, Show
<1>4. CASE \/ OpenCreate \/ CloseCreate \/ OpenMembers \/ CloseMembers
          \/ ApplyMessages \/ ApplyAudit
    BY <1>4, QuietStep DEF OpenCreate, CloseCreate, OpenMembers, CloseMembers, Dialog,
       ApplyMessages, ApplyAudit, Apply, adminVars
<1>5. CASE ClickRevoke \/ ClickDeleteRoom \/ ClickRemoveMember \/ ClickDeleteMessage
    BY <1>5, ClickStep, AdminConstants, PageConstants
<1>6. CASE \E u \in User :
             \/ \E role \in Role : SubmitCreate(u, role) \/ ChangeRole(u, role)
             \/ ClickDisable(u) \/ ClickRestore(u) \/ OtherActs(u)
    BY <1>6, ClickStep, AdminConstants
<1>7. CASE \E s \in Slot : MutationEnds(s) \/ OtherEnds(s)
    BY <1>7, EndsStep
<1>8. CASE UNCHANGED vars
    BY <1>8, QuietStep DEF vars, adminVars
<1> QED
    BY <1>1, <1>2, <1>3, <1>4, <1>5, <1>6, <1>7, <1>8 DEF Next

----------------------------------------------------------------------------
(* The audit log *)

\* The audit log says that the account has the role it has, and that it was
\* removed if it is.
RoleTold(u) ==
    account[u].role = Initially[u] \/ \E e \in audit :
        e.target = u /\ e.action \in {"create", "role"} /\ e.value = account[u].role
DisableTold(u) == account[u].disabled => \E e \in audit : e.target = u /\ e.action = "disable"
RemoveTold(x)  == \E e \in audit : e.target = x /\ e.action = "remove"

\* A handler that is about to tell; the one that creates an account also while
\* the role is still to be written.
TellsRole(c, u) ==
    /\ c.target = u /\ c.kind \in {"create", "role"}
    /\ \/ c.pc = "audit" /\ c.value = account[u].role
       \/ c.kind = "create" /\ c.pc = "write"
Tells(kind, c, x) == c.target = x /\ c.kind = kind /\ c.pc = "audit"

RoleLost(u)    == ~RoleTold(u) /\ \A s \in Slot : ~TellsRole(call[s], u)
DisableLost(u) == ~DisableTold(u) /\ \A s \in Slot : ~Tells("disable", call[s], u)
RemoveLost(x)  == ~RemoveTold(x) /\ \A s \in Slot : ~Tells("remove", call[s], x)

\* The changes nobody has told of and nobody will. Each costs a fault.
Lost == {u \in User : RoleLost(u) \/ DisableLost(u)} \cup {x \in removed : RemoveLost(x)}

AuditOK ==
    /\ faults \in Nat
    /\ removed \subseteq User \cup Item \cup {None}
    /\ Cardinality(Lost) <= faults

LEMMA LostIsFinite ==
    ASSUME AuditOK
    PROVE  IsFiniteSet(Lost) /\ Cardinality(Lost) \in Nat
<1>1. IsFiniteSet(Item)
    <2>1. Item = {"session"} \cup {"room"} \cup {"member"} \cup {"message"}
        BY DEF Item
    <2>2. /\ IsFiniteSet({"session"}) /\ IsFiniteSet({"room"})
          /\ IsFiniteSet({"member"}) /\ IsFiniteSet({"message"})
        BY FS_Singleton
    <2> QED
        BY <2>1, <2>2, FS_Union
<1>2. IsFiniteSet(User \cup Item \cup {None})
    BY <1>1, AdminConstants, FS_Union, FS_Singleton
<1>3. Lost \subseteq User \cup Item \cup {None}
    BY DEF Lost, AuditOK
<1> QED
    BY <1>2, <1>3, FS_Subset, FS_CardinalityType

\* A step after which no more is lost, whether it is a fault or not.
LEMMA NoneLost ==
    ASSUME AuditOK, faults' = faults \/ faults' = faults + 1,
           removed' \subseteq User \cup Item \cup {None}, Lost' \subseteq Lost
    PROVE  AuditOK'
<1>1. /\ IsFiniteSet(Lost') /\ Cardinality(Lost') \in Nat
      /\ Cardinality(Lost') <= Cardinality(Lost)
    BY LostIsFinite, FS_Subset, FS_CardinalityType
<1> QED
    BY <1>1, LostIsFinite DEF AuditOK

\* A fault loses one change at most.
LEMMA OneLost ==
    ASSUME AuditOK, faults' = faults + 1, removed' = removed,
           NEW x, Lost' \subseteq Lost \cup {x}
    PROVE  AuditOK'
<1>1. IsFiniteSet(Lost \cup {x}) /\ Cardinality(Lost \cup {x}) <= Cardinality(Lost) + 1
    BY LostIsFinite, FS_AddElement
<1>2. /\ Cardinality(Lost') <= Cardinality(Lost \cup {x})
      /\ Cardinality(Lost') \in Nat /\ Cardinality(Lost \cup {x}) \in Nat
    BY <1>1, FS_Subset, FS_CardinalityType
<1> QED
    BY <1>1, <1>2, LostIsFinite DEF AuditOK

\* Whoever was about to tell still is, and nothing has changed that was told.
LEMMA StillTelling ==
    ASSUME UNCHANGED <<account, removed, audit>>,
           \A t \in Slot : \/ Same(call'[t], call[t]) /\ call'[t].pc = call[t].pc
                           \/ call[t].pc \notin {"audit", "write"}
    PROVE  Lost' \subseteq Lost
<1>1. ASSUME NEW u, NEW t \in Slot, TellsRole(call[t], u) PROVE TellsRole(call[t], u)'
    BY <1>1 DEF TellsRole, Same
<1>2. ASSUME NEW kind, NEW x, NEW t \in Slot, Tells(kind, call[t], x)
      PROVE  Tells(kind, call[t], x)'
    BY <1>2 DEF Tells, Same
<1>3. ASSUME NEW u, RoleLost(u)' PROVE RoleLost(u)
    BY <1>1, <1>3 DEF RoleLost, RoleTold
<1>4. ASSUME NEW u, DisableLost(u)' PROVE DisableLost(u)
    BY <1>2, <1>4 DEF DisableLost, DisableTold
<1>5. ASSUME NEW x, RemoveLost(x)' PROVE RemoveLost(x)
    BY <1>2, <1>5 DEF RemoveLost, RemoveTold
<1> QED
    BY <1>3, <1>4, <1>5 DEF Lost

LEMMA StillTellingStep ==
    ASSUME AuditOK, UNCHANGED <<account, removed, audit>>,
           faults' = faults \/ faults' = faults + 1,
           \A t \in Slot : \/ Same(call'[t], call[t]) /\ call'[t].pc = call[t].pc
                           \/ call[t].pc \notin {"audit", "write"}
    PROVE  AuditOK'
BY StillTelling, NoneLost DEF AuditOK

\* A change and its handler, on its way to the log.
LEMMA ChangeTells ==
    ASSUME AuditOK, NEW s \in Slot, UNCHANGED <<audit, faults>>,
           \A t \in Slot \ {s} : call'[t] = call[t],
           Same(call'[s], call[s]), call[s].pc # "audit",
           NEW x, call[s].target = x,
           removed' \subseteq User \cup Item \cup {None},
           \A u \in User \ {x} : account'[u] = account[u],
           x \in User => /\ \/ account'[x].role = account[x].role
                                /\ ~TellsRole(call[s], x)
                            \/ TellsRole(call[s], x)'
                         /\ \/ account'[x].disabled => account[x].disabled
                            \/ Tells("disable", call[s], x)',
           removed' \subseteq removed \cup {x},
           x \in removed' \ removed => Tells("remove", call[s], x)'
    PROVE  AuditOK'
<1>1. ASSUME NEW u \in User, RoleLost(u)' PROVE RoleLost(u)
    <2>1. u # x => ~TellsRole(call[s], u)
        BY DEF TellsRole
    <2>2. ~TellsRole(call[s], u) /\ account'[u].role = account[u].role
        BY <1>1, <2>1 DEF RoleLost
    <2>3. \A t \in Slot \ {s} : TellsRole(call[t], u) => TellsRole(call[t], u)'
        BY <2>2 DEF TellsRole
    <2>4. RoleTold(u) => RoleTold(u)'
        BY <2>2 DEF RoleTold
    <2> QED
        BY <1>1, <2>2, <2>3, <2>4 DEF RoleLost
<1>2. ASSUME NEW u \in User, DisableLost(u)' PROVE DisableLost(u)
    <2>1. account'[u].disabled => account[u].disabled
        BY <1>2 DEF DisableLost
    <2>2. DisableTold(u) => DisableTold(u)'
        BY <2>1 DEF DisableTold
    <2>3. \A t \in Slot : Tells("disable", call[t], u) => Tells("disable", call[t], u)'
        BY DEF Tells
    <2> QED
        BY <1>2, <2>2, <2>3 DEF DisableLost
<1>3. ASSUME NEW y \in removed', RemoveLost(y)' PROVE y \in removed /\ RemoveLost(y)
    <2>1. y \in removed
        BY <1>3 DEF RemoveLost
    <2>2. \A t \in Slot : Tells("remove", call[t], y) => Tells("remove", call[t], y)'
        BY DEF Tells
    <2> QED
        BY <1>3, <2>1, <2>2 DEF RemoveLost, RemoveTold
<1>4. Lost' \subseteq Lost
    BY <1>1, <1>2, <1>3 DEF Lost
<1> QED
    BY <1>4, NoneLost

\* What the log has been told is no longer to be told.
LEMMA RecordTells ==
    ASSUME AdminTypeOK, AuditOK, NEW s \in Slot, Record(s)
    PROVE  AuditOK'
<1>1. /\ call[s].pc = "audit" /\ audit' = audit \cup {Event(call[s])}
      /\ UNCHANGED <<account, removed, faults>>
      /\ \A t \in Slot \ {s} : call'[t] = call[t]
    BY ReplyFacts DEF Record, Statuses
<1>e. PICK e \in audit' : /\ e.action = call[s].kind /\ e.target = call[s].target
                            /\ e.value = call[s].value
    <2>1. Event(call[s]) \in audit'
        BY <1>1
    <2> QED
        BY <2>1 DEF Event
<1>2. ASSUME NEW u \in User, RoleLost(u)' PROVE RoleLost(u)
    <2>1. RoleTold(u) => RoleTold(u)'
        BY <1>1 DEF RoleTold
    <2>2. TellsRole(call[s], u) => RoleTold(u)'
        BY <1>1, <1>e DEF TellsRole, RoleTold
    <2>3. \A t \in Slot \ {s} : TellsRole(call[t], u) => TellsRole(call[t], u)'
        BY <1>1 DEF TellsRole
    <2> QED
        BY <1>2, <2>1, <2>2, <2>3 DEF RoleLost
<1>3. ASSUME NEW u \in User, DisableLost(u)' PROVE DisableLost(u)
    <2>1. DisableTold(u) => DisableTold(u)'
        BY <1>1 DEF DisableTold
    <2>2. Tells("disable", call[s], u) => DisableTold(u)'
        BY <1>1, <1>e DEF Tells, DisableTold
    <2>3. \A t \in Slot \ {s} : Tells("disable", call[t], u) => Tells("disable", call[t], u)'
        BY <1>1 DEF Tells
    <2> QED
        BY <1>3, <2>1, <2>2, <2>3 DEF DisableLost
<1>4. ASSUME NEW x \in removed, RemoveLost(x)' PROVE RemoveLost(x)
    <2>1. RemoveTold(x) => RemoveTold(x)'
        BY <1>1 DEF RemoveTold
    <2>2. Tells("remove", call[s], x) => RemoveTold(x)'
        BY <1>1, <1>e DEF Tells, RemoveTold
    <2>3. \A t \in Slot \ {s} : Tells("remove", call[t], x) => Tells("remove", call[t], x)'
        BY <1>1 DEF Tells
    <2> QED
        BY <1>4, <2>1, <2>2, <2>3 DEF RemoveLost
<1>5. Lost' \subseteq Lost
    BY <1>1, <1>2, <1>3, <1>4 DEF Lost
<1> QED
    BY <1>1, <1>5, NoneLost DEF AuditOK

\* A handler that fails takes what it had to tell with it, and no more.
LEMMA FailStep ==
    ASSUME AdminTypeOK, AuditOK, NEW s \in Slot, Fail(s) \/ AnswerLost(s)
    PROVE  AuditOK'
<1>1. /\ faults' = faults + 1
      /\ UNCHANGED <<account, removed, audit>>
      /\ \A t \in Slot \ {s} : call'[t] = call[t]
    BY ReplyFacts DEF Fail, RecordFails, StatementFails, AnswerLost, Backend, Statuses
<1> DEFINE x == call[s].target
<1>2. ASSUME NEW u \in User, u # x, RoleLost(u)' PROVE RoleLost(u)
    <2>1. \A t \in Slot : TellsRole(call[t], u) => TellsRole(call[t], u)'
        BY <1>1, <1>2 DEF TellsRole
    <2> QED
        BY <1>1, <1>2, <2>1 DEF RoleLost, RoleTold
<1>3. ASSUME NEW u \in User, u # x, DisableLost(u)' PROVE DisableLost(u)
    <2>1. \A t \in Slot : Tells("disable", call[t], u) => Tells("disable", call[t], u)'
        BY <1>1, <1>3 DEF Tells
    <2> QED
        BY <1>1, <1>3, <2>1 DEF DisableLost, DisableTold
<1>4. ASSUME NEW y \in removed, y # x, RemoveLost(y)' PROVE RemoveLost(y)
    <2>1. \A t \in Slot : Tells("remove", call[t], y) => Tells("remove", call[t], y)'
        BY <1>1, <1>4 DEF Tells
    <2> QED
        BY <1>1, <1>4, <2>1 DEF RemoveLost, RemoveTold
<1>5. Lost' \subseteq Lost \cup {x}
    BY <1>1, <1>2, <1>3, <1>4 DEF Lost
<1> QED
    BY <1>1, <1>5, OneLost

LEMMA ServeTells ==
    ASSUME AdminTypeOK, AuditOK, NEW s \in Slot, Serve(s)
    PROVE  AuditOK'
<1>0. PICK x : x = call[s].target
    OBVIOUS
<1>1. call[s] \in Calls /\ NamesAccount(call[s]) /\ x \in User \cup Item \cup {None}
    BY <1>0 DEF AdminTypeOK, Calls
<1>2. ASSUME NEW status \in Statuses, Reply(s, status), call[s].pc \notin {"audit", "write"},
             UNCHANGED <<account, removed, audit, faults>>
      PROVE  AuditOK'
    <2>1. \A t \in Slot \ {s} : call'[t] = call[t]
        BY <1>2, ReplyFacts
    <2> QED
        BY <1>2, <2>1, StillTellingStep DEF Same
<1>3. ASSUME NEW pc \in Progress, GoOn(s, pc)
      PROVE  /\ call'[s].pc = pc /\ Same(call'[s], call[s])
             /\ \A t \in Slot \ {s} : call'[t] = call[t]
    BY <1>3, GoOnFacts
<1>4. ASSUME NEW pc \in Progress, GoOn(s, pc), call[s].pc \notin {"audit", "write"},
             UNCHANGED <<account, removed, audit, faults>>
      PROVE  AuditOK'
    BY <1>3, <1>4, StillTellingStep DEF Same
<1>5. CASE Refuse(s)
    BY <1>2, <1>5 DEF Refuse, Statuses
<1>6. CASE CreateUser(s)
    <2>1. CASE Exists(x)
        BY <1>0, <1>2, <1>6, <2>1 DEF CreateUser, Arrived, At, Statuses
    <2>2. CASE ~Exists(x)
        <3>1. /\ call[s].kind = "create" /\ call[s].pc = "sent" /\ x \in User
              /\ account' = [account EXCEPT ![x] = [role |-> "USER", disabled |-> FALSE]]
              /\ UNCHANGED <<removed, audit, faults>>
              /\ \/ GoOn(s, "audit") /\ call[s].value = "USER"
                 \/ GoOn(s, "write")
            BY <1>0, <1>1, <1>6, <2>2 DEF CreateUser, Arrived, At, NamesAccount
        <3>2. /\ Same(call'[s], call[s]) /\ \A t \in Slot \ {s} : call'[t] = call[t]
              /\ \/ call'[s].pc = "audit" /\ call[s].value = "USER"
                 \/ call'[s].pc = "write"
            BY <1>3, <3>1 DEF Progress
        <3>3. /\ account'[x] = [role |-> "USER", disabled |-> FALSE]
              /\ \A u \in User \ {x} : account'[u] = account[u]
            BY <3>1 DEF AdminTypeOK
        <3>4. TellsRole(call[s], x)'
            BY <1>0, <3>1, <3>2, <3>3 DEF TellsRole, Same
        <3> QED
            BY <1>0, <3>1, <3>2, <3>3, <3>4, ChangeTells DEF AuditOK
    <2> QED
        BY <2>1, <2>2
<1>7. CASE SetRole(s) \/ DisableUser(s)
    <2>1. /\ call[s].pc = "sent" /\ UNCHANGED <<account, removed, audit, faults>>
          /\ \/ \E status \in Statuses : Reply(s, status)
             \/ \E pc \in Progress : GoOn(s, pc)
        BY <1>7 DEF SetRole, DisableUser, Arrived, At, Statuses, Progress
    <2> QED
        BY <1>2, <1>4, <2>1
<1>8. CASE CountAdmins(s)
    BY <1>2, <1>4, <1>8 DEF CountAdmins, Statuses, Progress
<1>9. CASE Write(s)
    <2>1. /\ call[s].kind \in {"create", "role", "disable"} /\ call[s].pc = "write"
          /\ x \in User /\ UNCHANGED <<removed, audit, faults>> /\ GoOn(s, "audit")
        BY <1>0, <1>1, <1>9 DEF Write, NamesAccount
    <2>2. account' = IF call[s].kind = "disable" THEN [account EXCEPT ![x].disabled = TRUE]
                     ELSE [account EXCEPT ![x].role = call[s].value]
        BY <1>0, <1>9 DEF Write
    <2>3. /\ call'[s].pc = "audit" /\ Same(call'[s], call[s])
          /\ \A t \in Slot \ {s} : call'[t] = call[t]
        BY <1>3, <2>1 DEF Progress
    <2>4. /\ \A u \in User \ {x} : account'[u] = account[u]
          /\ call[s].kind = "disable" => account'[x].role = account[x].role
          /\ call[s].kind # "disable" => /\ account'[x].disabled = account[x].disabled
                                         /\ account'[x].role = call[s].value
        BY <2>1, <2>2 DEF AdminTypeOK, Accounts
    <2>5. CASE call[s].kind = "disable"
        <3>1. Tells("disable", call[s], x)' /\ ~TellsRole(call[s], x)
            BY <1>0, <2>3, <2>5 DEF Tells, TellsRole, Same
        <3> QED
            BY <1>0, <2>1, <2>3, <2>4, <2>5, <3>1, ChangeTells DEF AuditOK
    <2>6. CASE call[s].kind # "disable"
        <3>1. TellsRole(call[s], x)'
            BY <1>0, <2>1, <2>3, <2>4, <2>6 DEF TellsRole, Same
        <3> QED
            BY <1>0, <2>1, <2>3, <2>4, <2>6, <3>1, ChangeTells DEF AuditOK
    <2> QED
        BY <2>5, <2>6
<1>10. CASE RestoreUser(s)
    <2>1. CASE Exists(x)
        <3>1. /\ call[s].kind = "restore" /\ call[s].pc = "sent" /\ x \in User
              /\ account' = [account EXCEPT ![x].disabled = FALSE]
              /\ GoOn(s, "audit") /\ UNCHANGED <<removed, audit, faults>>
            BY <1>0, <1>1, <1>10, <2>1 DEF RestoreUser, Arrived, At, NamesAccount
        <3>2. /\ \A u \in User \ {x} : account'[u] = account[u]
              /\ account'[x].role = account[x].role /\ ~account'[x].disabled
            BY <3>1 DEF AdminTypeOK, Accounts
        <3>3. ~TellsRole(call[s], x)
            BY <3>1 DEF TellsRole
        <3>4. Same(call'[s], call[s]) /\ \A t \in Slot \ {s} : call'[t] = call[t]
            BY <1>3, <3>1 DEF Progress
        <3> QED
            BY <1>0, <3>1, <3>2, <3>3, <3>4, ChangeTells DEF AuditOK
    <2>2. CASE ~Exists(x)
        BY <1>0, <1>2, <1>10, <2>2 DEF RestoreUser, Arrived, At, Statuses
    <2> QED
        BY <2>1, <2>2
<1>11. CASE Remove(s)
    <2>1. call[s].kind = "remove" /\ call[s].pc = "sent" /\ UNCHANGED <<account, audit, faults>>
        BY <1>11 DEF Remove, Arrived, At
    <2>2. CASE Reply(s, "error") /\ removed' = removed
        BY <1>2, <2>1, <2>2 DEF Statuses
    <2>3. CASE removed' = removed \cup {x} /\ GoOn(s, "audit")
        <3>1. /\ call'[s].pc = "audit" /\ Same(call'[s], call[s])
              /\ \A t \in Slot \ {s} : call'[t] = call[t]
            BY <1>3, <2>3 DEF Progress
        <3>2. Tells("remove", call[s], x)' /\ ~TellsRole(call[s], x)
            BY <1>0, <2>1, <3>1 DEF Tells, TellsRole, Same
        <3> QED
            BY <1>0, <1>1, <2>1, <2>3, <3>1, <3>2, ChangeTells DEF AuditOK
    <2> QED
        BY <1>0, <1>11, <2>2, <2>3 DEF Remove
<1> QED
    BY <1>5, <1>6, <1>7, <1>8, <1>9, <1>10, <1>11, RecordTells DEF Serve

\* A return is no change that has to be told of.
LEMMA ReturnTells ==
    ASSUME AdminTypeOK, AuditOK, NEW u \in User, SignInWithGoogle(u)
    PROVE  AuditOK'
<1>1. /\ account' = [account EXCEPT ![u].disabled = FALSE]
      /\ UNCHANGED <<removed, audit, call, faults>>
    BY DEF SignInWithGoogle
<1>2. \A v \in User : /\ account'[v].role = account[v].role
                      /\ account'[v].disabled => account[v].disabled
    BY <1>1 DEF AdminTypeOK, Accounts
<1>3. ASSUME NEW v \in User, RoleLost(v)' PROVE RoleLost(v)
    BY <1>1, <1>2, <1>3 DEF RoleLost, RoleTold, TellsRole
<1>4. ASSUME NEW v \in User, DisableLost(v)' PROVE DisableLost(v)
    BY <1>1, <1>2, <1>4 DEF DisableLost, DisableTold, Tells
<1>5. ASSUME NEW x \in removed, RemoveLost(x)' PROVE RemoveLost(x)
    BY <1>1, <1>5 DEF RemoveLost, RemoveTold, Tells
<1>6. Lost' \subseteq Lost
    BY <1>1, <1>3, <1>4, <1>5 DEF Lost
<1> QED
    BY <1>1, <1>6, NoneLost DEF AuditOK

LEMMA ShowTells ==
    ASSUME AdminTypeOK, AuditOK, UNCHANGED <<Backend, faults>>, Remaining(call)
    PROVE  AuditOK'
BY RemainingFacts, StillTellingStep DEF AdminTypeOK, Backend

\* A request takes a slot in which nothing was to be told.
LEMMA SendTells ==
    ASSUME AuditOK, UNCHANGED <<Backend, faults>>, NEW q, Send(q), call \in [Slot -> Calls]
    PROVE  AuditOK'
<1>1. PICK s \in Slot : call[s] = NoCall /\ call' = [call EXCEPT ![s] = q]
    BY DEF Send
<1>2. call[s].pc \notin {"audit", "write"}
    BY <1>1 DEF NoCall
<1>3. \A t \in Slot \ {s} : call'[t] = call[t]
    BY <1>1
<1> QED
    BY <1>2, <1>3, StillTellingStep DEF Backend, Same

LEMMA EndsTells ==
    ASSUME AdminTypeOK, AuditOK, NEW s \in Slot, MutationEnds(s) \/ OtherEnds(s)
    PROVE  AuditOK'
<1> DEFINE calls == [call EXCEPT ![s] = NoCall]
<1>1. /\ call[s].pc = "answered" /\ UNCHANGED <<Backend, faults>>
      /\ \A t \in Slot \ {s} : calls[t] = call[t]
    BY DEF MutationEnds, OtherEnds, AdminTypeOK
<1>2. \A t \in Slot : Same(call'[t], calls[t]) /\ call'[t].pc = calls[t].pc
    <2>1. CASE MutationEnds(s)
        <3>1. NoCall \in Calls /\ NamesAccount(NoCall)
            BY DEF NoCall, Calls, Kinds, Progress, Statuses, NamesAccount
        <3>2. calls \in [Slot -> Calls] /\ \A t \in Slot : NamesAccount(calls[t])
            BY <3>1 DEF AdminTypeOK
        <3> QED
            BY <2>1, <3>2, RemainingFacts DEF MutationEnds
    <2>2. CASE OtherEnds(s)
        BY <2>2 DEF OtherEnds, Same
    <2> QED
        BY <2>1, <2>2
<1> QED
    BY <1>1, <1>2, StillTellingStep DEF Backend, Same

LEMMA ClickTells ==
    ASSUME AdminTypeOK, AuditOK, NEW u, NEW role,
           \/ SubmitCreate(u, role) \/ ChangeRole(u, role)
           \/ ClickDisable(u) \/ ClickRestore(u) \/ OtherActs(u)
           \/ ClickRevoke \/ ClickDeleteRoom \/ ClickRemoveMember \/ ClickDeleteMessage
    PROVE  AuditOK'
<1>1. (\E q : Send(q)) /\ UNCHANGED <<Backend, faults>>
    BY DEF SubmitCreate, ChangeRole, ClickDisable, ClickRestore, OtherActs,
       ClickRevoke, ClickDeleteRoom, ClickRemoveMember, ClickDeleteMessage, ClickRemove, Mutate
<1> QED
    BY <1>1, SendTells DEF AdminTypeOK

LEMMA NextTells ==
    ASSUME AdminTypeOK, AuditOK, [Next]_vars
    PROVE  AuditOK'
<1>1. ASSUME UNCHANGED <<account, removed, audit, call>>, faults' = faults \/ faults' = faults + 1
      PROVE  AuditOK'
    BY <1>1, StillTellingStep DEF Same
<1>2. CASE Server
    <2>1. CASE \E s \in Slot : Serve(s) \/ Fail(s) \/ AnswerLost(s)
        BY <2>1, ServeTells, FailStep
    <2>2. CASE Project
        BY <1>1, <2>2 DEF Project
    <2>3. CASE \E u \in User : RenewToken(u)
        BY <1>1, <2>3 DEF RenewToken
    <2>4. CASE \E u \in User \ {Me} : SignInWithGoogle(u)
        BY <2>4, ReturnTells
    <2> QED
        BY <1>2, <2>1, <2>2, <2>3, <2>4 DEF Server
<1>3. CASE \E k \in Query : FetchRead(k) \/ FetchFails(k)
    BY <1>1, <1>3 DEF FetchRead, FetchFails, adminVars, Backend
<1>4. CASE \E k \in Query : FetchEnds(k)
    BY <1>4, ShowTells DEF FetchEnds, Backend
<1>5. CASE \/ \E p \in Page : Visit(p)
          \/ \E f \in Filter : SetDeleted(f)
    BY <1>5, ShowTells DEF Visit, SetDeleted, Show, Backend
<1>6. CASE \/ OpenCreate \/ CloseCreate \/ OpenMembers \/ CloseMembers
          \/ ApplyMessages \/ ApplyAudit
    BY <1>1, <1>6 DEF OpenCreate, CloseCreate, OpenMembers, CloseMembers, Dialog,
       ApplyMessages, ApplyAudit, Apply, adminVars
<1>7. CASE \/ ClickRevoke \/ ClickDeleteRoom \/ ClickRemoveMember \/ ClickDeleteMessage
          \/ \E u \in User :
               \/ \E role \in Role : SubmitCreate(u, role) \/ ChangeRole(u, role)
               \/ ClickDisable(u) \/ ClickRestore(u) \/ OtherActs(u)
    BY <1>7, ClickTells
<1>8. CASE \E s \in Slot : MutationEnds(s) \/ OtherEnds(s)
    BY <1>8, EndsTells
<1>9. CASE UNCHANGED vars
    BY <1>1, <1>9 DEF vars, adminVars
<1> QED
    BY <1>2, <1>3, <1>4, <1>5, <1>6, <1>7, <1>8, <1>9 DEF Next

----------------------------------------------------------------------------
(* The lists of the tab *)

\* The lists the property is about: what their pages show is invalidated.
List == UserQuery \cup {<<"sessions">>, <<"rooms">>, <<"members">>}

EntryShape(e) ==
    e \in [pc : {e.pc}, data : {e.data}, read : {e.read}, stale : {e.stale},
           overtaken : {e.overtaken}]

TabOK ==
    /\ query = [k \in Query |-> query[k]] /\ \A k \in Query : EntryShape(query[k])
    /\ tab \in [page : Page, filter : Filter, dialog : {"none", "create", "members"}]
    /\ foreign \in BOOLEAN

\* As long as nobody else acts, this administrator is one, nothing of the others
\* is served, and none of the own requests would change that.
MineOK(c) ==
    /\ c.by # Me => c.pc \in {"idle", "sent"}
    /\ c.pc \in {"count", "write"} /\ c.target = Me
          => \/ c.kind = "disable"
             \/ c.kind = "role" /\ c.value = "ADMIN"

MeOK ==
    ~foreign => /\ account[Me].role = "ADMIN" /\ claim[Me] \in {"ADMIN", None}
                /\ \A s \in Slot : MineOK(call[s])

\* A request of this tab that has changed what k shows and has yet to invalidate it.
DueBy(c, k) ==
    /\ c.by = Me /\ k \in Keys(c)
    /\ \/ c.pc = "audit"
       \/ c.kind = "create" /\ c.pc = "write"
       \/ c.pc = "answered" /\ c.status = "ok"

Due(k) == \E s \in Slot : DueBy(call[s], k)

\* What an entry holds is what the services would answer now, r, or a request is
\* yet to invalidate it, or it is marked. An entry in use is neither empty nor marked.
Fits(e, r, due, mounted) ==
    /\ e.pc = "read" => e.read # None /\ (e.overtaken \/ e.read = r \/ due)
    /\ e.pc = "idle" => e.data = None \/ e.stale \/ e.overtaken \/ e.data = r \/ due
    /\ e.pc = "idle" /\ mounted => e.data # None /\ ~e.stale

Quiet == ~foreign /\ faults = 0 /\ claim[Me] = "ADMIN"

ListsOK == Quiet => \A k \in List : Fits(query[k], Read(k), Due(k), Mounted(k))

ListIInv == TabOK /\ MeOK /\ ListsOK /\ faults \in Nat

LEMMA ListFacts ==
    /\ List \subseteq Query
    /\ \A k \in Query : k[1] \in {"users", "sessions", "rooms", "members"} => k \in List
    /\ <<"messages">> \notin List /\ <<"audit">> \notin List
BY DEF List, Query, UserQuery

\* What the lists are read from.
LEMMA ReadFacts ==
    ASSUME NEW k \in List
    PROVE  \/ \E f \in Filter : k = <<"users", f>>
                 /\ Read(k) = [u \in {v \in User : Listed(v, f)} |-> account[u]]
           \/ k = <<"sessions">> /\ Read(k) = Left("session")
           \/ k = <<"rooms">> /\ Read(k) = Left("room")
           \/ k = <<"members">> /\ Read(k) = Left("member")
<1>1. CASE k \in UserQuery
    BY <1>1 DEF UserQuery, Read
<1>2. CASE k = <<"sessions">>
    BY <1>2 DEF Read
<1>3. CASE k = <<"rooms">>
    BY <1>3 DEF Read
<1>4. CASE k = <<"members">>
    BY <1>4 DEF Read
<1> QED
    BY <1>1, <1>2, <1>3, <1>4 DEF List

LEMMA ReadIsSomething ==
    ASSUME AdminTypeOK, NEW k \in List
    PROVE  Read(k) # None
<1>1. \A x \in Item : Left(x) \in SUBSET Item
    BY DEF Left
<1>2. \A x \in Item : Left(x) # None
    BY <1>1, PageConstants
<1>3. ASSUME NEW f \in Filter
      PROVE  [u \in {v \in User : Listed(v, f)} |-> account[u]] # None
    <2>1. PICK S \in SUBSET User : S = {v \in User : Listed(v, f)}
        OBVIOUS
    <2>2. [u \in S |-> account[u]] \in [S -> Accounts]
        BY DEF AdminTypeOK
    <2> QED
        BY <2>1, <2>2, PageConstants DEF Accounts
<1>4. {"session", "room", "member"} \subseteq Item
    BY DEF Item
<1> QED
    BY <1>2, <1>3, <1>4, ReadFacts

\* Accounts and items stand still.
LEMMA ReadStays ==
    ASSUME NEW k \in List, account' = account,
           \A x \in {"session", "room", "member"} : x \in removed' <=> x \in removed
    PROVE  Read(k)' = Read(k)
<1>1. CASE k \in UserQuery
    BY <1>1 DEF UserQuery, Read, Listed, Exists
<1>2. CASE k = <<"sessions">>
    BY <1>2 DEF Read, Left
<1>3. CASE k = <<"rooms">>
    BY <1>3 DEF Read, Left
<1>4. CASE k = <<"members">>
    BY <1>4 DEF Read, Left
<1> QED
    BY <1>1, <1>2, <1>3, <1>4 DEF List

\* What a page mounts depends on the page, the filter, and the rooms it shows.
LEMMA SamePage ==
    ASSUME NEW t1, NEW t2, NEW c1, NEW c2, t1.page = t2.page, t1.filter = t2.filter,
           c1[<<"rooms">>].data = c2[<<"rooms">>].data
    PROVE  MountedOn(t1, c1) = MountedOn(t2, c2)
BY DEF MountedOn, Shown

\* Only the lists of accounts depend on accounts, and an item is in one list.
LEMMA KeysFacts ==
    ASSUME NEW c, NEW k \in List, c.kind # "remove" => c.target \in User
    PROVE  /\ k \in UserQuery /\ c.kind # "remove" => k \in Keys(c)
           /\ k = <<"sessions">> /\ c.kind = "remove" /\ c.target = "session" => k \in Keys(c)
           /\ k = <<"rooms">> /\ c.kind = "remove" /\ c.target = "room" => k \in Keys(c)
           /\ k = <<"members">> /\ c.kind = "remove" /\ c.target = "member" => k \in Keys(c)
<1>1. CASE c.kind # "remove"
    <2>1. c.target \notin {"session", "room", "member", "message"}
        BY <1>1, AdminConstants DEF Item
    <2>2. Keys(c) = UserQuery
        BY <1>1, <2>1 DEF Keys
    <2> QED
        BY <1>1, <2>2
<1>2. CASE c.kind = "remove" /\ c.target = "session"
    <2>1. Keys(c) = {<<"sessions">>}
        BY <1>2 DEF Keys
    <2> QED
        BY <1>2, <2>1
<1>3. CASE c.kind = "remove" /\ c.target = "room"
    <2>1. Keys(c) = {<<"rooms">>}
        BY <1>3 DEF Keys
    <2> QED
        BY <1>3, <2>1
<1>4. CASE c.kind = "remove" /\ c.target = "member"
    <2>1. Keys(c) = {<<"members">>}
        BY <1>4 DEF Keys
    <2> QED
        BY <1>4, <2>1
<1> QED
    BY <1>1, <1>2, <1>3, <1>4

LEMMA SameDue ==
    ASSUME NEW c, NEW d, Same(c, d), NEW k, c.pc = d.pc, c.status = d.status, DueBy(d, k)
    PROVE  DueBy(c, k)
<1>1. Keys(c) = Keys(d)
    BY DEF Same, Keys
<1> QED
    BY <1>1 DEF Same, DueBy

----------------------------------------------------------------------------
(* The requests of this tab *)

\* A request of this tab that is served.
LEMMA ServedDue ==
    ASSUME AdminTypeOK, NEW s \in Slot, Serve(s), NEW k, Due(k)
    PROVE  Due(k)'
<1>1. PICK t \in Slot : DueBy(call[t], k)
    BY DEF Due
<1>2. CASE t # s
    <2>1. call'[t] = call[t]
        BY <1>2 DEF Serve, Refuse, CreateUser, SetRole, DisableUser, CountAdmins, Write,
           RestoreUser, Remove, Record, Reply, GoOn, AdminTypeOK
    <2> QED
        BY <1>1, <2>1 DEF Due
<1>3. CASE t = s
    <2>1. Keys(call'[s]) = Keys(call[s]) /\ call'[s].by = Me
          /\ (call'[s].pc = "audit" \/ (call'[s].pc = "answered" /\ call'[s].status = "ok"))
        <3>1. CASE call[s].pc = "audit"
            <4>1. Reply(s, "ok")
                BY <3>1 DEF Serve, Refuse, CreateUser, SetRole, DisableUser, CountAdmins, Write,
                   RestoreUser, Remove, Record, Arrived, At
            <4>2. /\ call'[s].pc = "answered" /\ call'[s].status = "ok"
                  /\ Same(call'[s], call[s])
                BY <4>1, ReplyFacts DEF Statuses
            <4> QED
                BY <1>1, <1>3, <4>2 DEF Same, Keys, DueBy
        <3>2. CASE call[s].kind = "create" /\ call[s].pc = "write"
            <4>1. GoOn(s, "audit")
                BY <3>2 DEF Serve, Refuse, CreateUser, SetRole, DisableUser, CountAdmins, Write,
                   RestoreUser, Remove, Record, Arrived, At
            <4>2. call'[s].pc = "audit" /\ Same(call'[s], call[s])
                BY <4>1, GoOnFacts DEF Progress
            <4> QED
                BY <1>1, <1>3, <4>2 DEF Same, Keys, DueBy
        <3>3. CASE call[s].pc = "answered"
            BY <3>3 DEF Serve, Refuse, CreateUser, SetRole, DisableUser, CountAdmins, Write,
               RestoreUser, Remove, Record, Arrived, At
        <3> QED
            BY <1>1, <1>3, <3>1, <3>2, <3>3 DEF DueBy
    <2> QED
        BY <1>1, <1>3, <2>1 DEF Due, DueBy
<1> QED
    BY <1>2, <1>3

\* A change is due to be shown.
LEMMA ServedRead ==
    ASSUME AdminTypeOK, NEW s \in Slot, Serve(s), call[s].by = Me, NEW k \in List
    PROVE  Read(k)' = Read(k) \/ Due(k)'
<1>1. call[s] \in Calls
    BY DEF AdminTypeOK
<1>2. ASSUME call[s].kind # "remove", call[s].target \in User,
             GoOn(s, "audit") \/ (call[s].kind = "create" /\ GoOn(s, "write")),
             removed' = removed
      PROVE  Read(k)' = Read(k) \/ Due(k)'
    <2>1. /\ call'[s].by = Me /\ call'[s].kind = call[s].kind
          /\ call'[s].pc = "audit" \/ (call'[s].kind = "create" /\ call'[s].pc = "write")
          /\ call'[s].target = call[s].target
        BY <1>2, GoOnFacts DEF Same, Progress
    <2>2. CASE k \in UserQuery
        <3>1. k \in Keys(call'[s])
            BY <1>2, <2>1, <2>2, KeysFacts
        <3> QED
            BY <2>1, <3>1 DEF Due, DueBy
    <2>3. CASE k \notin UserQuery
        BY <1>2, <2>3 DEF List, Read, Left
    <2> QED
        BY <2>2, <2>3
<1>3. CASE CreateUser(s)
    <2> call[s].target \in User
        BY <1>3 DEF CreateUser, Arrived, At, AdminTypeOK, NamesAccount
    <2>1. CASE Exists(call[s].target)
        BY <1>3, <2>1, ReadStays DEF CreateUser
    <2>2. CASE ~Exists(call[s].target)
        BY <1>2, <1>3, <2>2 DEF CreateUser, Arrived, At
    <2> QED
        BY <2>1, <2>2
<1>4. CASE Write(s)
    BY <1>2, <1>4 DEF Write, AdminTypeOK, NamesAccount
<1>5. CASE RestoreUser(s)
    <2> call[s].target \in User
        BY <1>5 DEF RestoreUser, Arrived, At, AdminTypeOK, NamesAccount
    <2>1. CASE ~Exists(call[s].target)
        BY <1>5, <2>1, ReadStays DEF RestoreUser
    <2>2. CASE Exists(call[s].target)
        BY <1>2, <1>5, <2>2 DEF RestoreUser, Arrived, At
    <2> QED
        BY <2>1, <2>2
<1>6. CASE Remove(s)
    <2>1. PICK x : x = call[s].target
        OBVIOUS
    <2>2. CASE removed' = removed
        BY <1>6, <2>2, ReadStays DEF Remove
    <2>3. CASE removed' = removed \cup {x} /\ GoOn(s, "audit")
        <3>1. /\ call[s].kind = "remove" /\ account' = account
              /\ call'[s].by = Me /\ call'[s].kind = "remove" /\ call'[s].target = x
              /\ call'[s].pc = "audit"
            BY <1>6, <2>1, <2>3, GoOnFacts DEF Remove, Arrived, At, Same, Progress
        <3>2. k \in Keys(call'[s]) => Due(k)'
            BY <3>1 DEF Due, DueBy
        <3>3. CASE k \in UserQuery
            BY <3>1, <3>3 DEF UserQuery, Read, Listed, Exists
        <3>4. CASE k = <<"sessions">>
            <4>1. CASE x = "session"
                BY <3>1, <3>2, <3>4, <4>1, KeysFacts
            <4>2. CASE x # "session"
                BY <2>3, <3>4, <4>2 DEF Read, Left
            <4> QED
                BY <4>1, <4>2
        <3>5. CASE k = <<"rooms">>
            <4>1. CASE x = "room"
                BY <3>1, <3>2, <3>5, <4>1, KeysFacts
            <4>2. CASE x # "room"
                BY <2>3, <3>5, <4>2 DEF Read, Left
            <4> QED
                BY <4>1, <4>2
        <3>6. CASE k = <<"members">>
            <4>1. CASE x = "member"
                BY <3>1, <3>2, <3>6, <4>1, KeysFacts
            <4>2. CASE x # "member"
                BY <2>3, <3>6, <4>2 DEF Read, Left
            <4> QED
                BY <4>1, <4>2
        <3> QED
            BY <3>3, <3>4, <3>5, <3>6 DEF List
    <2> QED
        BY <1>6, <2>1, <2>2, <2>3 DEF Remove
<1>7. CASE Refuse(s) \/ SetRole(s) \/ DisableUser(s) \/ CountAdmins(s) \/ Record(s)
    BY <1>7, ReadStays DEF Refuse, SetRole, DisableUser, CountAdmins, Record
<1> QED
    BY <1>3, <1>4, <1>5, <1>6, <1>7 DEF Serve

----------------------------------------------------------------------------
(* This administrator *)

\* What every step does to what the lists rely on.
LEMMA StepFacts ==
    ASSUME TabOK, [Next]_vars
    PROVE  /\ foreign' \in BOOLEAN /\ (foreign => foreign')
           /\ faults' = faults \/ faults' = faults + 1
           /\ claim' = claim \/ foreign' \/ \E u \in User : RenewToken(u)
<1> DEFINE Facts == /\ foreign' \in BOOLEAN /\ (foreign => foreign')
                    /\ faults' = faults \/ faults' = faults + 1
                    /\ claim' = claim \/ foreign' \/ \E u \in User : RenewToken(u)
<1> SUFFICES Facts
    OBVIOUS
<1>1. CASE Server
    <2>1. ASSUME NEW s \in Slot, Serve(s) \/ Fail(s) \/ AnswerLost(s)
          PROVE  claim' = claim /\ (faults' = faults \/ faults' = faults + 1)
        BY <2>1 DEF Serve, Refuse, CreateUser, SetRole, DisableUser, CountAdmins, Write,
           RestoreUser, Remove, Record, Fail, RecordFails, StatementFails, AnswerLost, Backend
    <2>2. CASE \E s \in Slot : /\ Serve(s) \/ Fail(s) \/ AnswerLost(s)
                               /\ foreign' = (foreign \/ s \notin Mine)
        BY <2>1, <2>2 DEF TabOK
    <2>3. CASE \/ Project /\ UNCHANGED foreign
               \/ \E u \in User : RenewToken(u) /\ UNCHANGED foreign
               \/ \E u \in User \ {Me} : SignInWithGoogle(u) /\ foreign' = TRUE
        BY <2>3 DEF TabOK, Project, RenewToken, SignInWithGoogle
    <2> QED
        BY <1>1, <2>2, <2>3 DEF Server
<1>2. CASE \E k \in Query : FetchRead(k) \/ FetchEnds(k) \/ FetchFails(k)
    BY <1>2 DEF FetchRead, FetchEnds, FetchFails, Backend, adminVars, TabOK
<1>3. CASE \/ \E p \in Page : Visit(p)
          \/ \E f \in Filter : SetDeleted(f)
    BY <1>3 DEF Visit, SetDeleted, Show, Backend, TabOK
<1>7. CASE \/ OpenCreate \/ CloseCreate \/ OpenMembers \/ CloseMembers
          \/ ApplyMessages \/ ApplyAudit
    BY <1>7 DEF OpenCreate, CloseCreate, OpenMembers, CloseMembers,
       Dialog, ApplyMessages, ApplyAudit, Apply, Backend, adminVars, TabOK
<1>4. CASE \/ ClickRevoke \/ ClickDeleteRoom \/ ClickRemoveMember \/ ClickDeleteMessage
          \/ \E u \in User :
               \/ \E role \in Role : SubmitCreate(u, role) \/ ChangeRole(u, role)
               \/ ClickDisable(u) \/ ClickRestore(u) \/ OtherActs(u)
    BY <1>4 DEF ClickRevoke, ClickDeleteRoom, ClickRemoveMember, ClickDeleteMessage, ClickRemove,
       SubmitCreate, ChangeRole, ClickDisable, ClickRestore, OtherActs, Mutate, Backend, TabOK
<1>5. CASE \E s \in Slot : MutationEnds(s) \/ OtherEnds(s)
    BY <1>5 DEF MutationEnds, OtherEnds, Backend, TabOK
<1>6. CASE UNCHANGED vars
    BY <1>6 DEF vars, adminVars, TabOK
<1> HIDE DEF Facts
<1> QED
    BY <1>1, <1>2, <1>3, <1>4, <1>5, <1>6, <1>7 DEF Next

\* The handlers serve this administrator, who cannot take the own role away.
LEMMA MeServed ==
    ASSUME AdminTypeOK, NEW s \in Slot, Serve(s), call[s].by = Me,
           account[Me].role = "ADMIN", \A t \in Slot : MineOK(call[t])
    PROVE  account'[Me].role = "ADMIN" /\ \A t \in Slot : MineOK(call'[t])
<1>1. ASSUME call' \in [Slot -> Calls], Same(call'[s], call[s]),
             \A t \in Slot \ {s} : call'[t] = call[t],
             \/ call'[s].pc \in {"answered", "audit"}
             \/ call'[s].target # Me
             \/ call'[s].kind = "disable"
             \/ call'[s].kind = "role" /\ call'[s].value = "ADMIN"
      PROVE  \A t \in Slot : MineOK(call'[t])
    <2>1. MineOK(call'[s])
        BY <1>1 DEF MineOK, Same
    <2> QED
        BY <1>1, <2>1
<1>2. ASSUME NEW status \in Statuses, Reply(s, status)
      PROVE  \A t \in Slot : MineOK(call'[t])
    BY <1>1, <1>2, ReplyFacts
<1>3. ASSUME NEW pc \in Progress, GoOn(s, pc),
             \/ pc = "audit" \/ call[s].target # Me \/ call[s].kind = "disable"
             \/ call[s].kind = "role" /\ call[s].value = "ADMIN"
      PROVE  \A t \in Slot : MineOK(call'[t])
    <2>1. /\ call' \in [Slot -> Calls] /\ Same(call'[s], call[s]) /\ call'[s].pc = pc
          /\ \A t \in Slot \ {s} : call'[t] = call[t]
        BY <1>3, GoOnFacts
    <2> QED
        BY <1>1, <1>3, <2>1 DEF Same
<1>4. CASE Refuse(s) \/ Record(s) \/ Remove(s)
    <2>1. account' = account
        BY <1>4 DEF Refuse, Record, Remove
    <2>2. GoOn(s, "audit") \/ \E status \in Statuses : Reply(s, status)
        BY <1>4 DEF Refuse, Record, Remove, Statuses
    <2> QED
        BY <1>2, <1>3, <2>1, <2>2 DEF Progress
<1>5. CASE CreateUser(s)
    <2>1. CASE Exists(call[s].target)
        BY <1>2, <1>5, <2>1 DEF CreateUser, Statuses
    <2>2. CASE ~Exists(call[s].target)
        <3>1. call[s].target # Me
            BY <2>2, AdminConstants, PageConstants DEF Exists
        <3>2. account'[Me] = account[Me]
            BY <1>5, <2>2, <3>1, PageConstants DEF CreateUser, AdminTypeOK
        <3> QED
            BY <1>3, <1>5, <2>2, <3>1, <3>2 DEF CreateUser, Progress
    <2> QED
        BY <2>1, <2>2
<1>6. CASE SetRole(s) \/ DisableUser(s)
    <2>1. account' = account
        BY <1>6 DEF SetRole, DisableUser
    <2>2. \/ \E status \in Statuses : Reply(s, status)
          \/ \E pc \in Progress : /\ GoOn(s, pc)
                                  /\ \/ call[s].target # Me \/ call[s].kind = "disable"
                                     \/ call[s].kind = "role" /\ call[s].value = "ADMIN"
        BY <1>6 DEF SetRole, DisableUser, Arrived, At, Statuses, Progress
    <2> QED
        BY <1>2, <1>3, <2>1, <2>2
<1>7. CASE CountAdmins(s)
    <2>1. \/ Reply(s, "lastAdmin")
          \/ GoOn(s, "write")
        BY <1>7 DEF CountAdmins
    <2>2. /\ account' = account /\ call[s].pc = "count"
          /\ MineOK(call[s])
        BY <1>7 DEF CountAdmins
    <2>3. \/ call[s].target # Me \/ call[s].kind = "disable"
          \/ call[s].kind = "role" /\ call[s].value = "ADMIN"
        BY <2>2 DEF MineOK
    <2> QED
        BY <1>2, <1>3, <2>1, <2>2, <2>3 DEF Statuses, Progress
<1>8. CASE Write(s)
    <2>1. \A t \in Slot : MineOK(call'[t])
        BY <1>3, <1>8 DEF Write, Progress
    <2>2. \/ call[s].target # Me \/ call[s].kind = "disable"
          \/ call[s].kind = "role" /\ call[s].value = "ADMIN"
        <3>1. MineOK(call[s])
            OBVIOUS
        <3> QED
            BY <1>8, <3>1 DEF Write, MineOK
    <2>3. account'[Me].role = "ADMIN"
        BY <1>8, <2>2, PageConstants DEF Write, AdminTypeOK, Accounts
    <2> QED
        BY <2>1, <2>3
<1>9. CASE RestoreUser(s)
    <2>1. account'[Me].role = "ADMIN"
        BY <1>9, PageConstants DEF RestoreUser, AdminTypeOK, Accounts
    <2>2. GoOn(s, "audit") \/ Reply(s, "error")
        BY <1>9 DEF RestoreUser
    <2> QED
        BY <1>2, <1>3, <2>1, <2>2 DEF Statuses, Progress
<1> QED
    BY <1>4, <1>5, <1>6, <1>7, <1>8, <1>9 DEF Serve

\* Requests that are sent, that end and that nobody waits for any more are not
\* at a decision.
LEMMA MineMoves ==
    ASSUME NEW calls, \A t \in Slot : MineOK(calls[t]),
           \A t \in Slot : \/ Same(call'[t], calls[t]) /\ call'[t].pc = calls[t].pc
                           \/ call'[t].pc \in {"idle", "sent"}
                           \/ call'[t].pc = "answered" /\ call'[t].by = Me
    PROVE  \A t \in Slot : MineOK(call'[t])
<1>1. ASSUME NEW t \in Slot PROVE MineOK(call'[t])
    BY DEF MineOK, Same
<1> QED
    BY <1>1

LEMMA MeStep ==
    ASSUME AdminTypeOK, TabOK, MeOK, [Next]_vars
    PROVE  MeOK'
<1> SUFFICES ASSUME ~foreign'
             PROVE  /\ account'[Me].role = "ADMIN" /\ claim'[Me] \in {"ADMIN", None}
                    /\ \A s \in Slot : MineOK(call'[s])
    BY DEF MeOK
<1>1. /\ ~foreign /\ account[Me].role = "ADMIN" /\ claim[Me] \in {"ADMIN", None}
      /\ \A s \in Slot : MineOK(call[s])
    BY StepFacts DEF MeOK
<1>2. claim'[Me] \in {"ADMIN", None}
    <2>1. CASE claim' = claim
        BY <1>1, <2>1
    <2>2. ASSUME NEW u \in User, RenewToken(u)
          PROVE  claim'[Me] \in {"ADMIN", None}
        BY <1>1, <2>2, PageConstants DEF RenewToken, AdminTypeOK
    <2> QED
        BY <2>1, <2>2, StepFacts
<1> DEFINE Kept == account'[Me].role = "ADMIN" /\ \A s \in Slot : MineOK(call'[s])
<1> SUFFICES Kept
    BY <1>2
<1>3. CASE Server
    <2>1. ASSUME NEW s \in Slot, Serve(s) \/ Fail(s) \/ AnswerLost(s), s \in Mine
          PROVE  Kept
        <3>1. CASE Serve(s)
            BY <1>1, <2>1, <3>1, MeServed DEF Mine
        <3>2. CASE Fail(s) \/ AnswerLost(s)
            <4>1. account' = account /\ \E status \in Statuses : Reply(s, status)
                BY <3>2 DEF Fail, RecordFails, StatementFails, AnswerLost, Backend, Statuses
            <4>2. /\ call'[s].pc = "answered" /\ call'[s].by = Me
                  /\ \A t \in Slot \ {s} : call'[t] = call[t]
                BY <2>1, <4>1, ReplyFacts DEF Same, Mine
            <4> QED
                BY <1>1, <4>1, <4>2, MineMoves DEF Same
        <3> QED
            BY <2>1, <3>1, <3>2
    <2>2. CASE Project \/ \E u \in User : RenewToken(u)
        BY <1>1, <2>2 DEF Project, RenewToken
    <2> HIDE DEF Kept
    <2> QED
        BY <1>3, <2>1, <2>2 DEF Server
<1>4. CASE \E k \in Query : FetchEnds(k)
    <2>1. account' = account /\ Remaining(call)
        BY <1>4 DEF FetchEnds, Backend
    <2> QED
        BY <1>1, <2>1, RemainingFacts, MineMoves DEF AdminTypeOK
<1>5. CASE \/ \E p \in Page : Visit(p)
          \/ \E f \in Filter : SetDeleted(f)
    <2>1. account' = account /\ Remaining(call)
        BY <1>5 DEF Visit, SetDeleted, Show, Backend
    <2> QED
        BY <1>1, <2>1, RemainingFacts, MineMoves DEF AdminTypeOK
<1>6. CASE \/ \E k \in Query : FetchRead(k) \/ FetchFails(k)
          \/ OpenCreate \/ CloseCreate \/ OpenMembers \/ CloseMembers
          \/ ApplyMessages \/ ApplyAudit \/ UNCHANGED vars
    BY <1>1, <1>6 DEF FetchRead, FetchFails, OpenCreate, CloseCreate, OpenMembers, CloseMembers,
       Dialog, ApplyMessages, ApplyAudit, Apply, Backend, adminVars, vars
<1>7. CASE \/ ClickRevoke \/ ClickDeleteRoom \/ ClickRemoveMember \/ ClickDeleteMessage
          \/ \E u \in User :
               \/ \E role \in Role : SubmitCreate(u, role) \/ ChangeRole(u, role)
               \/ ClickDisable(u) \/ ClickRestore(u) \/ OtherActs(u)
    <2> DEFINE Sends == \E kind, u, x, v : Send(Request(kind, u, x, v))
    <2>1. account' = account /\ Sends
        BY <1>7 DEF ClickRevoke, ClickDeleteRoom, ClickRemoveMember, ClickDeleteMessage,
           ClickRemove, SubmitCreate, ChangeRole, ClickDisable, ClickRestore, OtherActs, Mutate,
           Backend
    <2>2. \A t \in Slot : call'[t] = call[t] \/ call'[t].pc = "sent"
        BY <2>1 DEF Send, Request, AdminTypeOK
    <2> QED
        BY <1>1, <2>1, <2>2, MineMoves DEF Same
<1>8. CASE \E s \in Slot : MutationEnds(s) \/ OtherEnds(s)
    <2>1. PICK s \in Slot : MutationEnds(s) \/ OtherEnds(s)
        BY <1>8
    <2>2. PICK calls : calls = [call EXCEPT ![s] = NoCall]
        OBVIOUS
    <2>3. NoCall \in Calls /\ NamesAccount(NoCall) /\ MineOK(NoCall)
        BY DEF NoCall, Calls, Kinds, Progress, Statuses, NamesAccount, MineOK
    <2>4. /\ calls \in [Slot -> Calls] /\ \A t \in Slot : NamesAccount(calls[t])
          /\ \A t \in Slot : MineOK(calls[t])
        BY <1>1, <2>2, <2>3 DEF AdminTypeOK
    <2>5. account' = account /\ (Remaining(calls) \/ call' = calls)
        BY <2>1, <2>2 DEF MutationEnds, OtherEnds, Backend
    <2> QED
        BY <1>1, <2>4, <2>5, RemainingFacts, MineMoves DEF Same
<1> HIDE DEF Kept
<1> QED
    BY <1>3, <1>4, <1>5, <1>6, <1>7, <1>8 DEF Next

----------------------------------------------------------------------------
(* The entries of the query cache *)

LEMMA Shapes ==
    ASSUME NEW e, EntryShape(e), NEW a, NEW b, NEW c
    PROVE  /\ EntryShape(Asked(e)) /\ Asked(e).pc = "asked" /\ Asked(e).data = e.data
           /\ EntryShape([e EXCEPT !.pc = a, !.read = b])
           /\ EntryShape([e EXCEPT !.pc = a, !.read = b, !.stale = c])
           /\ EntryShape([e EXCEPT !.pc = a, !.stale = c])
           /\ EntryShape([e EXCEPT !.pc = "idle", !.read = None, !.data = a, !.stale = FALSE])
           /\ EntryShape([e EXCEPT !.stale = a, !.overtaken = b])
<1>2. EntryShape(Asked(e)) /\ Asked(e).pc = "asked" /\ Asked(e).data = e.data
    BY DEF EntryShape, Asked
<1>3. EntryShape([e EXCEPT !.pc = a, !.read = b])
    BY DEF EntryShape
<1>4. EntryShape([e EXCEPT !.pc = a, !.read = b, !.stale = c])
    BY DEF EntryShape
<1>5. EntryShape([e EXCEPT !.pc = a, !.stale = c])
    BY DEF EntryShape
<1>6. EntryShape([e EXCEPT !.pc = "idle", !.read = None, !.data = a, !.stale = FALSE])
    BY DEF EntryShape
<1>7. EntryShape([e EXCEPT !.stale = a, !.overtaken = b])
    BY DEF EntryShape
<1> QED
    BY <1>2, <1>3, <1>4, <1>5, <1>6, <1>7

\* A cache whose entries are what they should be.
CacheOK(cache) == cache = [k \in Query |-> cache[k]] /\ \A k \in Query : EntryShape(cache[k])

LEMMA MountFacts ==
    ASSUME NEW cache, CacheOK(cache), NEW new, NEW old
    PROVE  /\ CacheOK(Mount(cache, new, old))
           /\ \A k \in Query : /\ Mount(cache, new, old)[k].data = cache[k].data
                               /\ Mount(cache, new, old)[k] \in {cache[k], Asked(cache[k])}
<1>1. ASSUME NEW k \in Query
      PROVE  /\ Mount(cache, new, old)[k] \in {cache[k], Asked(cache[k])}
             /\ EntryShape(cache[k]) /\ EntryShape(Asked(cache[k]))
             /\ Asked(cache[k]).data = cache[k].data
    BY Shapes DEF Mount, CacheOK
<1>2. Mount(cache, new, old) = [k \in Query |-> Mount(cache, new, old)[k]]
    BY DEF Mount
<1> HIDE DEF Mount
<1> QED
    BY <1>1, <1>2 DEF CacheOK

\* What is fetched again, what is marked, and what is left alone.
LEMMA InvalidatedFacts ==
    ASSUME NEW cache, CacheOK(cache), NEW Q
    PROVE  /\ CacheOK(Invalidated(cache, Q))
           /\ \A k \in Query :
                LET e == Invalidated(cache, Q)[k]
                IN  /\ e.data = cache[k].data
                    /\ \/ e = cache[k] /\ (k \notin Q \/ cache[k] = NoEntry)
                       \/ e.pc = "asked"
                       \/ /\ ~Mounted(k) /\ e.stale /\ e.overtaken = (cache[k].pc = "read")
                          /\ e.pc = cache[k].pc /\ e.read = cache[k].read
<1>1. ASSUME NEW k \in Query
      PROVE  LET e == Invalidated(cache, Q)[k]
             IN  /\ EntryShape(e) /\ e.data = cache[k].data
                 /\ \/ e = cache[k] /\ (k \notin Q \/ cache[k] = NoEntry)
                    \/ e.pc = "asked"
                    \/ /\ ~Mounted(k) /\ e.stale /\ e.overtaken = (cache[k].pc = "read")
                       /\ e.pc = cache[k].pc /\ e.read = cache[k].read
    <2>1. EntryShape(cache[k])
        BY DEF CacheOK
    <2>2. CASE k \notin Q \/ cache[k] = NoEntry
        BY <2>1, <2>2 DEF Invalidated
    <2>3. CASE ~(k \notin Q \/ cache[k] = NoEntry) /\ Mounted(k)
        <3>1. Invalidated(cache, Q)[k] = Asked(cache[k])
            BY <2>3 DEF Invalidated
        <3> QED
            BY <2>1, <3>1, Shapes
    <2>4. CASE ~(k \notin Q \/ cache[k] = NoEntry) /\ ~Mounted(k)
        <3>1. Invalidated(cache, Q)[k]
                  = [cache[k] EXCEPT !.stale = TRUE, !.overtaken = (cache[k].pc = "read")]
            BY <2>4 DEF Invalidated
        <3>2. EntryShape(Invalidated(cache, Q)[k])
            <4>1. PICK e, b : e = cache[k] /\ b = (cache[k].pc = "read")
                OBVIOUS
            <4>2. EntryShape([e EXCEPT !.stale = TRUE, !.overtaken = b])
                BY <2>1, <4>1, Shapes
            <4> QED
                BY <3>1, <4>1, <4>2
        <3> QED
            BY <2>1, <2>4, <3>1, <3>2 DEF EntryShape
    <2> QED
        BY <2>2, <2>3, <2>4
<1>2. Invalidated(cache, Q) = [k \in Query |-> Invalidated(cache, Q)[k]]
    BY DEF Invalidated
<1> QED
    BY <1>1, <1>2 DEF CacheOK

LEMMA TabStep ==
    ASSUME TabOK, [Next]_vars
    PROVE  TabOK'
<1>1. CacheOK(query) /\ foreign' \in BOOLEAN
    BY StepFacts DEF TabOK, CacheOK
<1> DEFINE TabFits == tab' \in [page : Page, filter : Filter, dialog : {"none", "create", "members"}]
           Kept    == CacheOK(query') /\ TabFits
<1> SUFFICES Kept
    BY <1>1 DEF TabOK, CacheOK
<1>2. ASSUME NEW k \in Query, NEW e, EntryShape(e), query' = [query EXCEPT ![k] = e]
      PROVE  CacheOK(query')
    BY <1>1, <1>2 DEF CacheOK
<1>3. ASSUME NEW k \in Query, FetchRead(k) \/ FetchFails(k)
      PROVE  Kept
    <2>1. PICK r : r = IF claim[Me] = "ADMIN" THEN Read(k) ELSE None
        OBVIOUS
    <2>2. EntryShape(query[k])
        BY <1>1 DEF CacheOK
    <2>3. /\ EntryShape([query[k] EXCEPT !.pc = "read", !.read = r])
          /\ EntryShape([query[k] EXCEPT !.pc = "idle", !.read = None, !.stale = TRUE])
        BY <2>2, Shapes
    <2>4. \/ query' = [query EXCEPT ![k] = [query[k] EXCEPT !.pc = "read", !.read = r]]
          \/ query' = [query EXCEPT ![k] =
                          [query[k] EXCEPT !.pc = "idle", !.read = None, !.stale = TRUE]]
        BY <1>3, <2>1 DEF FetchRead, FetchFails
    <2>5. tab' = tab
        BY <1>3 DEF FetchRead, FetchFails
    <2> QED
        BY <1>2, <2>3, <2>4, <2>5 DEF TabOK
<1>4. ASSUME NEW k \in Query, FetchEnds(k)
      PROVE  Kept
    <2>1. PICK r : r = query[k].read
        OBVIOUS
    <2>2. EntryShape(query[k])
        BY <1>1 DEF CacheOK
    <2>3. PICK e : e = IF r = None THEN [query[k] EXCEPT !.pc = "idle", !.stale = TRUE]
                       ELSE [query[k] EXCEPT !.pc = "idle", !.read = None, !.data = r,
                                             !.stale = FALSE]
        OBVIOUS
    <2>4. EntryShape(e)
        BY <2>2, <2>3, Shapes
    <2>5. PICK q : q = [query EXCEPT ![k] = e]
        OBVIOUS
    <2>6. CacheOK(q)
        BY <1>1, <2>4, <2>5 DEF CacheOK
    <2>7. \E old : query' = Mount(q, MountedOn(tab, q), old)
        BY <1>4, <2>1, <2>3, <2>5 DEF FetchEnds
    <2>8. TabFits
        BY <1>4 DEF FetchEnds, TabOK
    <2> QED
        BY <2>6, <2>7, <2>8, MountFacts
<1>5. ASSUME NEW t \in [page : Page, filter : Filter, dialog : {"none", "create", "members"}],
             Show(t)
      PROVE  Kept
    BY <1>1, <1>5, MountFacts DEF Show
<1>6. CASE \E p \in Page : Visit(p)
    <2>1. PICK p \in Page : Visit(p)
        BY <1>6
    <2>2. FreshTab(p) \in [page : Page, filter : Filter, dialog : {"none", "create", "members"}]
        BY PageConstants DEF FreshTab
    <2> QED
        BY <1>5, <2>1, <2>2 DEF Visit
<1>7. CASE \E f \in Filter : SetDeleted(f)
    <2>1. PICK f \in Filter : SetDeleted(f)
        BY <1>7
    <2>2. [tab EXCEPT !.filter = f]
              \in [page : Page, filter : Filter, dialog : {"none", "create", "members"}]
        BY DEF TabOK
    <2> QED
        BY <1>5, <2>1, <2>2 DEF SetDeleted
<1>8. CASE OpenCreate \/ CloseCreate \/ OpenMembers \/ CloseMembers
    BY <1>1, <1>8 DEF OpenCreate, CloseCreate, OpenMembers, CloseMembers, Dialog, TabOK
<1>9. CASE ApplyMessages \/ ApplyAudit
    <2>1. PICK k \in Query : query' = [query EXCEPT ![k] = Asked(query[k])] /\ tab' = tab
        BY <1>9 DEF ApplyMessages, ApplyAudit, Apply, Query
    <2>2. EntryShape(Asked(query[k]))
        BY <1>1, Shapes DEF CacheOK
    <2> QED
        BY <1>2, <2>1, <2>2 DEF TabOK
<1>10. CASE \/ ClickRevoke \/ ClickDeleteRoom \/ ClickRemoveMember \/ ClickDeleteMessage
           \/ \E u \in User :
                \/ \E role \in Role : SubmitCreate(u, role) \/ ChangeRole(u, role)
                \/ ClickDisable(u) \/ ClickRestore(u) \/ OtherActs(u)
    BY <1>1, <1>10 DEF ClickRevoke, ClickDeleteRoom, ClickRemoveMember, ClickDeleteMessage,
       ClickRemove, SubmitCreate, ChangeRole, ClickDisable, ClickRestore, OtherActs, Mutate, TabOK
<1>11. CASE \E s \in Slot : MutationEnds(s) \/ OtherEnds(s)
    <2>1. PICK s \in Slot : MutationEnds(s) \/ OtherEnds(s)
        BY <1>11
    <2>2. query' = query \/ query' = Invalidated(query, Keys(call[s]))
        BY <2>1 DEF MutationEnds, OtherEnds
    <2>3. TabFits
        BY <2>1 DEF MutationEnds, OtherEnds, TabOK
    <2> QED
        BY <1>1, <2>2, <2>3, InvalidatedFacts
<1>12. CASE Server \/ UNCHANGED vars
    BY <1>1, <1>12 DEF Server, vars, TabOK
<1> HIDE DEF Kept
<1> QED
    BY <1>3, <1>4, <1>6, <1>7, <1>8, <1>9, <1>10, <1>11, <1>12 DEF Next

----------------------------------------------------------------------------
(* What the entries hold *)

LEMMA QuietBefore ==
    ASSUME AdminTypeOK, TabOK, MeOK, faults \in Nat, [Next]_vars, Quiet'
    PROVE  Quiet
<1>1. ~foreign /\ ~foreign' /\ claim'[Me] = "ADMIN"
    BY StepFacts DEF Quiet
<1>2. faults = 0
    BY StepFacts DEF Quiet
<1>3. claim[Me] = "ADMIN"
    <2>1. ASSUME NEW u \in User, RenewToken(u)
          PROVE  claim[Me] = "ADMIN"
        BY <1>1, <2>1, AdminConstants, PageConstants DEF RenewToken, AdminTypeOK, MeOK
    <2> QED
        BY <1>1, <2>1, StepFacts
<1> QED
    BY <1>1, <1>2, <1>3 DEF Quiet

LEMMA FitsStays ==
    ASSUME NEW e, NEW r, NEW r2, NEW due, NEW due2, NEW m, NEW m2,
           Fits(e, r, due, m), r2 = r \/ due2, due => due2, m2 => m
    PROVE  Fits(e, r2, due2, m2)
BY DEF Fits

\* The entries stand still, and what changes is due to be shown.
LEMMA EntriesStay ==
    ASSUME ListsOK, Quiet' => Quiet,
           \A k \in List : /\ query'[k] = query[k] /\ (Mounted(k)' => Mounted(k))
                           /\ Read(k)' = Read(k) \/ Due(k)'
                           /\ Due(k) => Due(k)'
    PROVE  ListsOK'
<1> SUFFICES ASSUME Quiet', NEW k \in List
             PROVE  Fits(query'[k], Read(k)', Due(k)', Mounted(k)')
    BY DEF ListsOK
<1>1. Fits(query[k], Read(k), Due(k), Mounted(k))
    BY DEF ListsOK
<1> QED
    BY <1>1, FitsStays

LEMMA SameMounted ==
    ASSUME tab'.page = tab.page, tab'.filter = tab.filter,
           query'[<<"rooms">>].data = query[<<"rooms">>].data, NEW k
    PROVE  Mounted(k)' <=> Mounted(k)
<1>1. MountedOn(tab', query') = MountedOn(tab, query)
    BY SamePage
<1> QED
    BY <1>1 DEF Mounted

\* Only requests change, and those that are to invalidate stay.
LEMMA DueStays ==
    ASSUME NEW k, \A t \in Slot : \/ call'[t] = call[t]
                                  \/ /\ Same(call'[t], call[t]) /\ call'[t].pc = call[t].pc
                                     /\ call'[t].status = call[t].status
                                  \/ ~DueBy(call[t], k),
           Due(k)
    PROVE  Due(k)'
<1>1. PICK t \in Slot : DueBy(call[t], k)
    BY DEF Due
<1>2. DueBy(call'[t], k)
    <2>1. PICK c, d : c = call'[t] /\ d = call[t]
        OBVIOUS
    <2>2. c = d \/ (Same(c, d) /\ c.pc = d.pc /\ c.status = d.status)
        BY <1>1, <2>1
    <2> QED
        BY <1>1, <2>1, <2>2, SameDue
<1> QED
    BY <1>2 DEF Due

LEMMA ServerKeepsLists ==
    ASSUME AdminTypeOK, TabOK, MeOK, ListsOK, faults \in Nat, Server
    PROVE  ListsOK'
<1> SUFFICES ASSUME Quiet' PROVE ListsOK'
    BY DEF ListsOK
<1>1. Quiet /\ query' = query /\ tab' = tab
    BY QuietBefore DEF Server, Next
<1>2. ASSUME NEW k \in List
      PROVE  query'[k] = query[k] /\ (Mounted(k)' => Mounted(k))
    BY <1>1, SameMounted
<1>3. ASSUME NEW s \in Slot, Serve(s), foreign' = (foreign \/ s \notin Mine)
      PROVE  ListsOK'
    <2>1. call[s].by = Me
        BY <1>3 DEF Quiet, Mine
    <2>2. \A k \in List : (Read(k)' = Read(k) \/ Due(k)') /\ (Due(k) => Due(k)')
        BY <1>3, <2>1, ServedRead, ServedDue
    <2> QED
        BY <1>1, <1>2, <2>2, EntriesStay
<1>4. ASSUME NEW s \in Slot, Fail(s) \/ AnswerLost(s)
      PROVE  FALSE
    <2>1. faults' = faults + 1
        BY <1>4 DEF Fail, RecordFails, StatementFails, AnswerLost
    <2> QED
        BY <1>1, <2>1 DEF Quiet
<1>5. CASE Project \/ \E u \in User : RenewToken(u)
    <2>1. account' = account /\ removed' = removed /\ call' = call
        BY <1>5 DEF Project, RenewToken
    <2>2. \A k \in List : Read(k)' = Read(k)
        BY <2>1, ReadStays
    <2>3. \A k \in List : Due(k) => Due(k)'
        BY <2>1, DueStays
    <2> QED
        BY <1>1, <1>2, <2>2, <2>3, EntriesStay
<1>6. CASE \E u \in User \ {Me} : SignInWithGoogle(u) /\ foreign' = TRUE
    BY <1>6 DEF Quiet
<1> QED
    BY <1>3, <1>4, <1>5, <1>6 DEF Server

LEMMA ReadKeepsLists ==
    ASSUME AdminTypeOK, TabOK, MeOK, ListsOK, faults \in Nat, NEW j \in Query, FetchRead(j)
    PROVE  ListsOK'
<1> SUFFICES ASSUME Quiet', NEW k \in List
             PROVE  Fits(query'[k], Read(k)', Due(k)', Mounted(k)')
    BY DEF ListsOK
<1>1. Quiet /\ Fits(query[k], Read(k), Due(k), Mounted(k))
    BY QuietBefore DEF ListsOK, Next
<1>2. PICK r : r = Read(j)
    OBVIOUS
<1>3. /\ query' = [query EXCEPT ![j].pc = "read", ![j].read = r]
      /\ UNCHANGED <<adminVars, tab>>
    BY <1>1, <1>2 DEF FetchRead, Quiet
<1>4. account' = account /\ removed' = removed /\ call' = call
    BY <1>3 DEF adminVars
<1>5. Read(k)' = Read(k) /\ (Due(k) => Due(k)')
    BY <1>4, ReadStays, DueStays
<1>6. \A i \in Query : EntryShape(query[i])
    BY DEF TabOK
<1>7. query'[<<"rooms">>].data = query[<<"rooms">>].data
    BY <1>3, <1>6 DEF TabOK, EntryShape, Query
<1>8. Mounted(k)' <=> Mounted(k)
    BY <1>3, <1>7, SameMounted
<1>9. CASE k # j
    <2>1. query'[k] = query[k]
        BY <1>3, <1>9, ListFacts DEF TabOK
    <2> QED
        BY <1>1, <1>5, <1>8, <2>1, FitsStays
<1>10. CASE k = j
    <2>1. query'[k].pc = "read" /\ query'[k].read = r
        BY <1>3, <1>6, <1>10 DEF TabOK, EntryShape
    <2>2. r # None
        BY <1>2, <1>10, ReadIsSomething
    <2> QED
        BY <1>2, <1>5, <1>10, <2>1, <2>2 DEF Fits
<1> QED
    BY <1>9, <1>10

\* What newly comes into use is fetched.
LEMMA MountFits ==
    ASSUME NEW cache, CacheOK(cache), NEW new, NEW old, NEW k \in Query, NEW r, NEW due, NEW m,
           Fits(cache[k], r, due, m), k \in new => m \/ k \notin MountedOn(tab, query)
    PROVE  Fits(Mount(cache, new, old)[k], r, due, k \in new)
<1>1. EntryShape(cache[k])
    BY DEF CacheOK
<1>2. CASE /\ k \in new \ MountedOn(tab, query) /\ cache[k].pc = "idle"
           /\ (cache[k].data = None \/ cache[k].stale \/ old)
    <2>1. Mount(cache, new, old)[k] = Asked(cache[k])
        BY <1>2 DEF Mount
    <2>2. Mount(cache, new, old)[k].pc = "asked"
        BY <1>1, <2>1, Shapes
    <2> QED
        BY <2>2 DEF Fits
<1>3. CASE ~(/\ k \in new \ MountedOn(tab, query) /\ cache[k].pc = "idle"
             /\ (cache[k].data = None \/ cache[k].stale \/ old))
    <2>1. Mount(cache, new, old)[k] = cache[k]
        BY <1>3 DEF Mount
    <2> QED
        BY <1>3, <2>1 DEF Fits
<1> QED
    BY <1>2, <1>3

LEMMA EndsKeepsLists ==
    ASSUME AdminTypeOK, TabOK, MeOK, ListsOK, faults \in Nat, NEW j \in Query, FetchEnds(j)
    PROVE  ListsOK'
<1> SUFFICES ASSUME Quiet', NEW k \in List
             PROVE  Fits(query'[k], Read(k)', Due(k)', Mounted(k)')
    BY DEF ListsOK
<1>1. Quiet /\ Fits(query[k], Read(k), Due(k), Mounted(k))
    BY QuietBefore DEF ListsOK, Next
<1>2. /\ CacheOK(query) /\ EntryShape(query[j])
      /\ query[j].pc = "read" /\ k \in Query /\ <<"rooms">> \in Query
    BY ListFacts DEF TabOK, CacheOK, FetchEnds, Query
<1>3. PICK e : e = IF query[j].read = None THEN [query[j] EXCEPT !.pc = "idle", !.stale = TRUE]
                   ELSE [query[j] EXCEPT !.pc = "idle", !.read = None, !.data = query[j].read,
                                         !.stale = FALSE]
    OBVIOUS
<1>4. PICK q : q = [query EXCEPT ![j] = e]
    OBVIOUS
<1>5. EntryShape(e)
    <2>1. PICK r : r = query[j].read
        OBVIOUS
    <2> QED
        BY <1>2, <1>3, <2>1, Shapes
<1>6. CacheOK(q)
    BY <1>2, <1>4, <1>5 DEF CacheOK
<1>7. PICK old : query' = Mount(q, MountedOn(tab, q), old)
    BY <1>3, <1>4 DEF FetchEnds
<1>8. /\ tab'.page = tab.page /\ tab'.filter = tab.filter
      /\ account' = account /\ removed' = removed /\ Remaining(call)
    BY DEF FetchEnds, TabOK, Backend
<1>9. Read(k)' = Read(k) /\ (Due(k) => Due(k)')
    BY <1>8, ReadStays, RemainingFacts, DueStays DEF AdminTypeOK
<1>10. Mounted(k)' <=> k \in MountedOn(tab, q)
    <2>1. query'[<<"rooms">>].data = q[<<"rooms">>].data
        BY <1>2, <1>6, <1>7, MountFacts
    <2>2. MountedOn(tab', query') = MountedOn(tab, q)
        BY <1>8, <2>1, SamePage
    <2> QED
        BY <2>2 DEF Mounted
<1>11. Fits(q[k], Read(k), Due(k), Mounted(k))
    <2>1. CASE k # j
        BY <1>1, <1>2, <1>4, <2>1 DEF TabOK
    <2>2. CASE k = j
        <3>1. q[k] = e /\ query[k].read # None
              /\ (query[k].overtaken \/ query[k].read = Read(k) \/ Due(k))
            BY <1>1, <1>2, <1>4, <2>2 DEF Fits, TabOK
        <3>2. e = [query[j] EXCEPT !.pc = "idle", !.read = None, !.data = query[j].read,
                                   !.stale = FALSE]
            BY <1>3, <2>2, <3>1
        <3>3. /\ e.pc = "idle" /\ e.data = query[k].read /\ ~e.stale
              /\ e.overtaken = query[k].overtaken
            BY <1>2, <2>2, <3>2 DEF EntryShape
        <3> QED
            BY <3>1, <3>3 DEF Fits
    <2> QED
        BY <2>1, <2>2
<1>12. Fits(query'[k], Read(k), Due(k), k \in MountedOn(tab, q))
    <2>1. PICK new, r, due, m : new = MountedOn(tab, q) /\ r = Read(k)
                                /\ due = Due(k) /\ m = Mounted(k)
        OBVIOUS
    <2>2. Fits(q[k], r, due, m) /\ (m <=> k \in MountedOn(tab, query))
        BY <1>11, <2>1 DEF Mounted
    <2>3. Fits(Mount(q, new, old)[k], r, due, k \in new)
        BY <1>2, <1>6, <2>2, MountFits
    <2> QED
        BY <1>7, <2>1, <2>3
<1> QED
    BY <1>9, <1>10, <1>12 DEF Fits

LEMMA ShowKeepsLists ==
    ASSUME AdminTypeOK, TabOK, MeOK, ListsOK, faults \in Nat, NEW t, Show(t), Quiet' => Quiet
    PROVE  ListsOK'
<1> SUFFICES ASSUME Quiet', NEW k \in List
             PROVE  Fits(query'[k], Read(k)', Due(k)', Mounted(k)')
    BY DEF ListsOK
<1>1. Fits(query[k], Read(k), Due(k), Mounted(k)) /\ CacheOK(query) /\ k \in Query
      /\ <<"rooms">> \in Query
    BY ListFacts DEF ListsOK, TabOK, CacheOK, Query
<1>2. PICK old : query' = Mount(query, MountedOn(t, query), old)
    BY DEF Show
<1>3. Read(k)' = Read(k) /\ (Due(k) => Due(k)')
    BY ReadStays, RemainingFacts, DueStays DEF AdminTypeOK, Show, Backend
<1>4. Mounted(k)' <=> k \in MountedOn(t, query)
    <2>1. query'[<<"rooms">>].data = query[<<"rooms">>].data
        BY <1>1, <1>2, MountFacts
    <2>2. MountedOn(tab', query') = MountedOn(t, query)
        BY <2>1, SamePage DEF Show
    <2> QED
        BY <2>2 DEF Mounted
<1>5. Fits(query'[k], Read(k), Due(k), k \in MountedOn(t, query))
    <2>1. PICK new, r, due, m : new = MountedOn(t, query) /\ r = Read(k)
                                /\ due = Due(k) /\ m = Mounted(k)
        OBVIOUS
    <2>2. Fits(query[k], r, due, m) /\ (m <=> k \in MountedOn(tab, query))
        BY <1>1, <2>1 DEF Mounted
    <2>3. Fits(Mount(query, new, old)[k], r, due, k \in new)
        BY <1>1, <2>2, MountFits
    <2> QED
        BY <1>2, <2>1, <2>3
<1> QED
    BY <1>3, <1>4, <1>5 DEF Fits

LEMMA InvalidationKeepsLists ==
    ASSUME AdminTypeOK, TabOK, MeOK, ListsOK, faults \in Nat, NEW s \in Slot, MutationEnds(s)
    PROVE  ListsOK'
<1> SUFFICES ASSUME Quiet', NEW k \in List
             PROVE  Fits(query'[k], Read(k)', Due(k)', Mounted(k)')
    BY DEF ListsOK
<1>1. /\ Fits(query[k], Read(k), Due(k), Mounted(k))
      /\ CacheOK(query) /\ k \in Query /\ <<"rooms">> \in Query
    BY QuietBefore, ListFacts DEF ListsOK, Next, TabOK, CacheOK, Query
<1>2. PICK c : c = call[s]
    OBVIOUS
<1>3. /\ query' = IF c.status = "ok" THEN Invalidated(query, Keys(c)) ELSE query
      /\ tab'.page = tab.page /\ tab'.filter = tab.filter
      /\ account' = account /\ removed' = removed /\ c.pc = "answered"
    BY <1>2 DEF MutationEnds, TabOK, Backend
<1>4. Read(k)' = Read(k)
    BY <1>3, ReadStays
<1>5. Mounted(k)' <=> Mounted(k)
    BY <1>1, <1>3, InvalidatedFacts, SameMounted
<1>6. ASSUME ~DueBy(c, k)
      PROVE  Due(k) => Due(k)'
    <2>1. PICK calls : calls = [call EXCEPT ![s] = NoCall]
        OBVIOUS
    <2>2. NoCall \in Calls /\ NamesAccount(NoCall)
        BY DEF NoCall, Calls, Kinds, Progress, Statuses, NamesAccount
    <2>3. calls \in [Slot -> Calls] /\ \A t \in Slot : NamesAccount(calls[t])
        BY <2>1, <2>2 DEF AdminTypeOK
    <2>4. \A t \in Slot : /\ Same(call'[t], calls[t]) /\ call'[t].pc = calls[t].pc
                          /\ call'[t].status = calls[t].status
        BY <2>1, <2>3, RemainingFacts DEF MutationEnds
    <2>5. \A t \in Slot \ {s} : calls[t] = call[t]
        BY <2>1 DEF AdminTypeOK
    <2> QED
        BY <1>2, <1>6, <2>4, <2>5, DueStays
<1>7. CASE c.status = "ok" /\ k \in Keys(c)
    <2>1. PICK e : e = Invalidated(query, Keys(c))[k]
        OBVIOUS
    <2>2. query'[k] = e
        BY <1>3, <1>7, <2>1
    <2>3. \/ e = query[k] /\ query[k] = NoEntry
          \/ e.pc = "asked"
          \/ /\ ~Mounted(k) /\ e.stale /\ e.overtaken = (query[k].pc = "read")
             /\ e.pc = query[k].pc /\ e.read = query[k].read
        BY <1>1, <1>7, <2>1, InvalidatedFacts
    <2>4. CASE e = query[k] /\ query[k] = NoEntry
        <3>1. e.pc = "idle" /\ e.data = None
            BY <2>4 DEF NoEntry
        <3>2. ~Mounted(k)
            BY <1>1, <2>4, <3>1 DEF Fits
        <3> QED
            BY <1>5, <2>2, <3>1, <3>2 DEF Fits
    <2>5. CASE e.pc = "asked"
        BY <2>2, <2>5 DEF Fits
    <2>6. CASE /\ ~Mounted(k) /\ e.stale /\ e.overtaken = (query[k].pc = "read")
               /\ e.pc = query[k].pc /\ e.read = query[k].read
        BY <1>1, <1>5, <2>2, <2>6 DEF Fits
    <2> QED
        BY <2>3, <2>4, <2>5, <2>6
<1>8. CASE ~(c.status = "ok" /\ k \in Keys(c))
    <2>1. query'[k] = query[k]
        <3>1. CASE c.status = "ok"
            <4>1. Invalidated(query, Keys(c))[k] = query[k]
                BY <1>1, <1>8, <3>1 DEF Invalidated
            <4> QED
                BY <1>3, <3>1, <4>1
        <3>2. CASE c.status # "ok"
            BY <1>3, <3>2
        <3> QED
            BY <3>1, <3>2
    <2>2. Due(k) => Due(k)'
        BY <1>3, <1>6, <1>8 DEF DueBy
    <2> QED
        BY <1>1, <1>4, <1>5, <2>1, <2>2 DEF Fits
<1> QED
    BY <1>7, <1>8

\* Requests that are sent or were others' have nothing to invalidate.
LEMMA CallsKeepLists ==
    ASSUME AdminTypeOK, TabOK, ListsOK, Quiet' => Quiet, NEW s \in Slot, NEW q,
           UNCHANGED <<account, removed, query, tab>>,
           call' = [call EXCEPT ![s] = q], call[s] = NoCall \/ call[s].by # Me
    PROVE  ListsOK'
<1>1. call[s].by # Me
    BY AdminConstants, PageConstants DEF NoCall
<1>2. \A k : Due(k) => Due(k)'
    <2>1. ASSUME NEW k, Due(k) PROVE Due(k)'
        <3>1. \A t \in Slot : call'[t] = call[t] \/ ~DueBy(call[t], k)
            BY <1>1 DEF AdminTypeOK, DueBy
        <3> QED
            BY <2>1, <3>1, DueStays
    <2> QED
        BY <2>1
<1>3. \A k \in List : Read(k)' = Read(k) /\ query'[k] = query[k] /\ (Mounted(k)' => Mounted(k))
    BY ReadStays, SameMounted
<1> QED
    BY <1>2, <1>3, EntriesStay

LEMMA ListsStep ==
    ASSUME AdminTypeOK, TabOK, MeOK, ListsOK, faults \in Nat, [Next]_vars
    PROVE  ListsOK'
<1>1. Quiet' => Quiet
    BY QuietBefore
<1>2. ASSUME UNCHANGED <<account, removed, call>>, tab'.page = tab.page, tab'.filter = tab.filter,
             query'[<<"rooms">>].data = query[<<"rooms">>].data,
             \A k \in List : query'[k] = query[k]
      PROVE  ListsOK'
    <2>1. \A k \in List : /\ Read(k)' = Read(k) /\ (Mounted(k)' => Mounted(k))
                          /\ Due(k) => Due(k)'
        BY <1>2, ReadStays, SameMounted, DueStays
    <2> QED
        BY <1>1, <1>2, <2>1, EntriesStay
<1>3. CASE Server
    BY <1>3, ServerKeepsLists
<1>4. CASE \E k \in Query : FetchRead(k) \/ FetchEnds(k) \/ FetchFails(k)
    <2>1. ASSUME NEW k \in Query, FetchFails(k)
          PROVE  ListsOK'
        <3>1. ~Quiet'
            BY <1>1, <2>1 DEF FetchFails, Quiet
        <3> QED
            BY <3>1 DEF ListsOK
    <2> QED
        BY <1>4, <2>1, ReadKeepsLists, EndsKeepsLists
<1>5. CASE \/ \E p \in Page : Visit(p)
           \/ \E f \in Filter : SetDeleted(f)
    <2>1. PICK t : Show(t)
        BY <1>5 DEF Visit, SetDeleted
    <2> QED
        BY <1>1, <2>1, ShowKeepsLists
<1>6. CASE OpenCreate \/ CloseCreate \/ OpenMembers \/ CloseMembers
    BY <1>2, <1>6 DEF OpenCreate, CloseCreate, OpenMembers, CloseMembers, Dialog, TabOK, adminVars
<1>7. CASE ApplyMessages \/ ApplyAudit
    <2>1. PICK p \in {"messages", "audit"} : Apply(p)
        BY <1>7 DEF ApplyMessages, ApplyAudit
    <2>2. \A k \in Query : k # <<p>> => query'[k] = query[k]
        BY <2>1 DEF Apply, TabOK
    <2>3. \A k \in List : k \in Query /\ k # <<p>>
        BY <2>1, ListFacts
    <2>4. <<"rooms">> \in List
        BY DEF List
    <2> QED
        BY <1>2, <2>1, <2>2, <2>3, <2>4 DEF Apply, adminVars
<1>8. CASE \/ ClickRevoke \/ ClickDeleteRoom \/ ClickRemoveMember \/ ClickDeleteMessage
           \/ \E u \in User :
                \/ \E role \in Role : SubmitCreate(u, role) \/ ChangeRole(u, role)
                \/ ClickDisable(u) \/ ClickRestore(u) \/ OtherActs(u)
    <2>1. (\E q : Send(q)) /\ UNCHANGED <<Backend, query, tab>>
        BY <1>8 DEF ClickRevoke, ClickDeleteRoom, ClickRemoveMember, ClickDeleteMessage,
           ClickRemove, SubmitCreate, ChangeRole, ClickDisable, ClickRestore, OtherActs, Mutate
    <2>2. PICK q : Send(q)
        BY <2>1
    <2>3. PICK s \in Slot : call[s] = NoCall /\ call' = [call EXCEPT ![s] = q]
        BY <2>2 DEF Send
    <2> QED
        BY <1>1, <2>1, <2>3, CallsKeepLists DEF Backend
<1>9. CASE \E s \in Slot : MutationEnds(s)
    BY <1>9, InvalidationKeepsLists
<1>10. CASE \E s \in Slot : OtherEnds(s)
    BY <1>1, <1>10, CallsKeepLists DEF OtherEnds, Backend, Mine
<1>11. CASE UNCHANGED vars
    BY <1>2, <1>11 DEF vars, adminVars
<1> QED
    BY <1>3, <1>4, <1>5, <1>6, <1>7, <1>8, <1>9, <1>10, <1>11 DEF Next

----------------------------------------------------------------------------
(* The theorems *)

LEMMA InitAdmins ==
    Init => AdminIInv
<1> SUFFICES ASSUME Init PROVE AdminIInv
    OBVIOUS
<1>1. /\ account = [u \in User |-> [role |-> Initially[u], disabled |-> FALSE]]
      /\ claim = [u \in User |-> Initially[u]]
      /\ call = [s \in Slot |-> NoCall]
    BY DEF Init, AdminsInit
<1>2. NoCall \in Calls /\ NamesAccount(NoCall) /\ NoCall.pc = "idle"
    BY DEF NoCall, Calls, Kinds, Progress, Statuses, NamesAccount
<1>3. AdminTypeOK
    BY <1>1, <1>2, AdminConstants DEF AdminTypeOK, Accounts
<1>4. ActiveAdmins # {}
    BY <1>1, AdminConstants DEF ActiveAdmins
<1>5. Deciding = {}
    BY <1>1, <1>2 DEF Deciding
<1> QED
    BY <1>3, <1>4, <1>5 DEF AdminIInv, Guarded

\* Accounts, tokens and requests keep their types, and a handler at its UPDATE
\* that is alone there can rely on what it counted.
THEOREM AdminInvariant == Spec => []AdminIInv
<1>1. Init => AdminIInv
    BY InitAdmins
<1>2. AdminIInv /\ [Next]_vars => AdminIInv'
    BY NextKeepsAdmins
<1> QED
    BY <1>1, <1>2, PTL DEF Spec

\* AdminSetRole and AdminDisableUser protect the last administrator from every
\* history of creations, demotions, removals, returns, failures and lost
\* answers in which no two of them decide at the same time.
THEOREM AdminAlwaysRemains == Spec => []AdminRemains
<1>1. AdminIInv => AdminRemains
    BY DEF AdminIInv, Guarded, AdminRemains
<1> QED
    BY <1>1, AdminInvariant, PTL

LEMMA InitAudit ==
    Init => AuditOK
<1> SUFFICES ASSUME Init PROVE AuditOK
    OBVIOUS
<1>1. /\ account = [u \in User |-> [role |-> Initially[u], disabled |-> FALSE]]
      /\ removed = {} /\ faults = 0
    BY DEF Init, AdminsInit
<1>2. \A u \in User : RoleTold(u) /\ DisableTold(u)
    BY <1>1 DEF RoleTold, DisableTold
<1>3. Lost = {}
    BY <1>1, <1>2 DEF Lost, RoleLost, DisableLost
<1> QED
    BY <1>1, <1>3, FS_EmptySet DEF AuditOK

\* The handlers of the administration write down what they changed as their last
\* statement and ignore what becomes of it: whatever they interleave with, once
\* they are done there are never more accounts and items that are not as the log
\* says than there were failures.
THEOREM ChangesAreAlwaysAudited == Spec => []ChangesAreAudited
<1>1. AdminIInv => AdminTypeOK
    BY DEF AdminIInv
<1>2. Init => AuditOK
    BY InitAudit
<1>3. AdminTypeOK /\ AuditOK /\ [Next]_vars => AuditOK'
    BY NextTells
<1>4. AuditOK => ChangesAreAudited
    <2> SUFFICES ASSUME AuditOK, \A s \in Slot : call[s].pc \in {"idle", "answered"}
                 PROVE  Cardinality(Unexplained) <= faults
        BY DEF ChangesAreAudited
    <2>1. \A s \in Slot : \A x : /\ ~TellsRole(call[s], x)
                                 /\ \A kind : ~Tells(kind, call[s], x)
        BY DEF TellsRole, Tells
    <2>2. Unexplained = Lost
        BY <2>1 DEF Unexplained, Explained, Lost, RoleLost, DisableLost, RemoveLost,
           RoleTold, DisableTold, RemoveTold
    <2> QED
        BY <2>2 DEF AuditOK
<1> QED
    BY <1>1, <1>2, <1>3, <1>4, AdminInvariant, PTL DEF Spec

LEMMA InitLists ==
    Init => TabOK /\ MeOK /\ ListsOK
<1> SUFFICES ASSUME Init PROVE TabOK /\ MeOK /\ ListsOK
    OBVIOUS
<1>1. AdminTypeOK
    BY InitAdmins DEF AdminIInv
<1>2. PICK p \in {"users", "rooms"}, f \in Filter :
          /\ tab = [FreshTab(p) EXCEPT !.filter = f]
          /\ \E loaded \in {Query, {k \in Query : k[1] = p \/ (p = "rooms" /\ k[1] = "members")}} :
               query = [k \in Query |-> IF k \in loaded THEN [NoEntry EXCEPT !.data = Read(k)]
                                        ELSE NoEntry]
    BY DEF Init
<1>3. PICK loaded \in {Query, {k \in Query : k[1] = p \/ (p = "rooms" /\ k[1] = "members")}} :
          query = [k \in Query |-> IF k \in loaded THEN [NoEntry EXCEPT !.data = Read(k)]
                                   ELSE NoEntry]
    BY <1>2
<1>4. tab.page = p /\ tab.filter = f
    BY <1>2 DEF FreshTab
<1>5. ASSUME NEW k \in Query
      PROVE  /\ EntryShape(query[k]) /\ query[k].pc = "idle" /\ query[k].stale = FALSE
             /\ k \in loaded => query[k].data = Read(k)
             /\ k \notin loaded => query[k].data = None
    <2>1. PICK r : r = Read(k)
        OBVIOUS
    <2>2. \/ query[k] = [NoEntry EXCEPT !.data = r] /\ k \in loaded
          \/ query[k] = NoEntry /\ k \notin loaded
        BY <1>3, <2>1
    <2> QED
        BY <2>1, <2>2 DEF NoEntry, EntryShape
<1>6. TabOK
    <2>1. query = [k \in Query |-> query[k]]
        BY <1>3
    <2>2. tab \in [page : Page, filter : Filter, dialog : {"none", "create", "members"}]
        BY <1>2 DEF FreshTab, Page
    <2> QED
        BY <1>5, <2>1, <2>2 DEF TabOK, Init
<1>7. MeOK
    <2>1. /\ account = [u \in User |-> [role |-> Initially[u], disabled |-> FALSE]]
          /\ claim = [u \in User |-> Initially[u]] /\ call = [s \in Slot |-> NoCall]
        BY DEF Init, AdminsInit
    <2>2. MineOK(NoCall)
        BY DEF MineOK, NoCall
    <2> QED
        BY <2>1, <2>2, PageConstants DEF MeOK
<1>8. ASSUME NEW k \in List, Mounted(k)
      PROVE  k \in loaded
    <2>1. k \in Query
        BY ListFacts
    <2>2. CASE p = "users"
        <3>1. k[1] = "users"
            BY <1>4, <1>8, <2>2 DEF Mounted, MountedOn
        <3> QED
            BY <2>1, <2>2, <3>1
    <2>3. CASE p = "rooms"
        <3>1. k[1] \in {"rooms", "members"}
            BY <1>4, <1>8, <2>3 DEF Mounted, MountedOn
        <3> QED
            BY <2>1, <2>3, <3>1
    <2> QED
        BY <2>2, <2>3
<1>9. ListsOK
    <2>1. ASSUME NEW k \in List
          PROVE  Fits(query[k], Read(k), Due(k), Mounted(k))
        <3>1. k \in Query /\ Read(k) # None
            BY <1>1, ListFacts, ReadIsSomething
        <3> QED
            BY <1>5, <1>8, <3>1 DEF Fits
    <2> QED
        BY <2>1 DEF ListsOK
<1> QED
    BY <1>6, <1>7, <1>9

LEMMA CalmLists ==
    ASSUME TabOK, ListsOK
    PROVE  AdminListsConverge
<1> SUFFICES ASSUME Calm, NEW k \in MountedOn(tab, query),
                    k[1] \in {"users", "sessions", "rooms", "members"}, ~query[k].overtaken
             PROVE  query[k].data = Read(k)
    BY DEF AdminListsConverge
<1>1. k \in Query
    BY DEF MountedOn, Query, UserQuery, TabOK, Page
<1>2. k \in List /\ Mounted(k)
    BY <1>1, ListFacts DEF Mounted
<1>3. ~Due(k)
    BY AdminConstants, PageConstants DEF Due, DueBy, Calm, NoCall
<1>4. Fits(query[k], Read(k), Due(k), Mounted(k)) /\ query[k].pc = "idle"
    BY <1>1, <1>2 DEF ListsOK, Calm, Quiet
<1> QED
    BY <1>2, <1>3, <1>4 DEF Fits

\* As long as only this administrator acts and nothing fails, every entry of the
\* cache of lists is up to date, marked, or about to be invalidated by one of the
\* tab's own requests, and the lists of the page are neither empty nor marked.
THEOREM ListsInvariant == Spec => [](TabOK /\ MeOK /\ ListsOK)
<1>1. AdminIInv => AdminTypeOK
    BY DEF AdminIInv
<1>2. AuditOK => faults \in Nat
    BY DEF AuditOK
<1>3. Init => AuditOK /\ TabOK /\ MeOK /\ ListsOK
    BY InitAudit, InitLists
<1>4. /\ AdminTypeOK /\ AuditOK /\ TabOK /\ MeOK /\ ListsOK /\ [Next]_vars
      => AuditOK' /\ TabOK' /\ MeOK' /\ ListsOK'
    BY <1>2, NextTells, TabStep, MeStep, ListsStep
<1> QED
    BY <1>1, <1>3, <1>4, AdminInvariant, PTL DEF Spec

\* What an administrator changed is what the pages show once nothing is under
\* way: whichever of the mutations of use-admin.ts ran, in whatever order their
\* requests were served and answered, and wherever the tab was meanwhile.
THEOREM AdminListsAlwaysConverge == Spec => []AdminListsConverge
<1>1. TabOK /\ ListsOK => AdminListsConverge
    BY CalmLists
<1> QED
    BY <1>1, ListsInvariant, PTL
=============================================================================
