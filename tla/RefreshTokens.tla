--------------------------- MODULE RefreshTokens ---------------------------
(***************************************************************************)
(* Refresh-token rotation in the auth service: the Redis records and Lua   *)
(* scripts of auth/service/refreshTokenService.go, the handler that calls  *)
(* them (auth/handler/refreshHandler.go), the admin's revocations and the  *)
(* browser that holds the cookie.                                          *)
(*                                                                         *)
(* A Lua script is one atomic step of Redis. RevokeLineage is not one: it  *)
(* is a sequence of commands, each of which may fail. Time is the number   *)
(* of units, of which a token lives TTL; Redis drops a key when its time   *)
(* comes, a JWT carries its own expiry.                                    *)
(***************************************************************************)
EXTENDS Naturals, FiniteSets

CONSTANTS
    Jti,         \* ids of refresh tokens (UUIDv7: never used twice)
    Sid,         \* ids of lineages, one per login
    User,
    Handler,     \* concurrent calls of POST /refresh
    None,
    TTL,         \* RefreshTokenTTL
    MaxTime,     \* bound: units of time a run lasts
    Faults, MaxFaults   \* kinds of failure, and how many a run may meet

ASSUME RefreshConstants ==
    /\ TTL \in Nat \ {0} /\ MaxTime \in Nat /\ MaxFaults \in Nat
    /\ None \notin Jti \cup Sid \cup User \cup Handler

VARIABLES
    now,
    jwt,         \* what each token that Redis has accepted says
    handed,      \* the tokens that reached a browser
    rec,         \* refresh:{jti}
    lin,         \* refresh:lineage:{sid}
    members,     \* refresh:lineage:{sid}:members
    userIndex,   \* refresh:user:{uid}
    sessions,    \* refresh:sessions
    lock,        \* refresh:lock:{hash of the token}: the handler holding it
    call,        \* where each handler stands
    admin,       \* where the admin's revocation stands
    cookie,      \* the token the browser of each login holds
    disturbed,   \* history: lineages something unusual happened to
    reused,      \* history: lineages the script reported REUSED for
    faults

redisVars == <<rec, lin, members, userIndex, sessions>>
tokenVars == <<now, jwt, handed, redisVars, lock, call, admin, cookie, disturbed,
               reused, faults>>

----------------------------------------------------------------------------
(* Keys *)

Never == MaxTime + TTL + 1   \* expiry of a key without a TTL

Jwt    == [sid : Sid, user : User, exp : 1 .. MaxTime + TTL]
Record == [status : {"none", "active", "consumed", "revoked"},
           sid : Sid \cup {None}, user : User \cup {None}, exp : 0..Never]
Lineage == [status : {"none", "active", "revoked"}, exp : 0..Never]
Members == [jtis : SUBSET Jti, exp : 0..Never]

NoRecord  == [status |-> "none", sid |-> None, user |-> None, exp |-> 0]
NoLineage == [status |-> "none", exp |-> 0]
NoMembers == [jtis |-> {}, exp |-> 0]
NoCall    == [pc |-> "idle", jti |-> None, new |-> None, out |-> None]
NoAdmin   == [pc |-> "idle", user |-> None, found |-> {}, queue |-> {},
              sid |-> None, read |-> {}, todo |-> {}]

NoJwt     == [sid |-> None, user |-> None, exp |-> 0]

FreshJti == {j \in Jti : jwt[j] = NoJwt}
FreshSid == {s \in Sid : \A j \in Jti : jwt[j].sid # s}

\* HSET status revoked: an existing key keeps its fields and its TTL, a key
\* that has expired comes back with this field alone and without a TTL.
RevokedRecord(r) ==
    IF r.status = "none"
    THEN [status |-> "revoked", sid |-> None, user |-> None, exp |-> Never]
    ELSE [r EXCEPT !.status = "revoked"]

RevokedLineage(l) ==
    [status |-> "revoked", exp |-> IF l.status = "none" THEN Never ELSE l.exp]

\* A token that the rotation script would accept.
Usable(j) == rec[j].status = "active" /\ lin[rec[j].sid].status # "revoked"

Fault(kind) == kind \in Faults /\ faults < MaxFaults /\ faults' = faults + 1

Disturb(s) == disturbed' = disturbed \cup {s}

----------------------------------------------------------------------------
(* Login: issueRefreshTokenScript *)

\* Mutant of Enlist: only the first token of a lineage becomes a member.
Enlist_FirstOnly(j, s, u) ==
    /\ members' = [members EXCEPT
                      ![s] = [jtis |-> IF @.jtis = {} THEN {j} ELSE @.jtis,
                              exp |-> now + TTL]]
    /\ userIndex' = [userIndex EXCEPT ![u] = @ \cup {s}]
    /\ sessions' = sessions \cup {s}

\* SADD and EXPIRE of the members, ZADD to the two indexes.
Enlist(j, s, u) ==
    /\ members' = [members EXCEPT ![s] = [jtis |-> @.jtis \cup {j},
                                          exp |-> now + TTL]]
    /\ userIndex' = [userIndex EXCEPT ![u] = @ \cup {s}]
    /\ sessions' = sessions \cup {s}

\* Mutant of NewRecord: PEXPIRE is forgotten.
NewRecord_NoTTL(s, u) == [status |-> "active", sid |-> s, user |-> u, exp |-> Never]

\* HSET and PEXPIRE.
NewRecord(s, u) == [status |-> "active", sid |-> s, user |-> u, exp |-> now + TTL]

\* What both scripts write for a new token, the record of the old one apart.
Activate(j, s, u) ==
    /\ jwt' = [jwt EXCEPT ![j] = [sid |-> s, user |-> u, exp |-> now + TTL]]
    /\ lin' = [lin EXCEPT ![s] = [status |-> "active", exp |-> now + TTL]]
    /\ Enlist(j, s, u)

\* Login and the OAuth callback call IssueRefreshToken with an empty sid: each
\* login starts a lineage of its own. When the reply of Redis is lost the login
\* fails, and its lineage stays behind.
Login(j, s, u) ==
    /\ j \in FreshJti /\ s \in FreshSid
    /\ Activate(j, s, u)
    /\ rec' = [rec EXCEPT ![j] = NewRecord(s, u)]
    /\ \/ /\ cookie' = [cookie EXCEPT ![s] = j]
          /\ handed' = handed \cup {j}
          /\ UNCHANGED faults
       \/ Fault("reply") /\ UNCHANGED <<cookie, handed>>
    /\ UNCHANGED <<now, lock, call, admin, disturbed, reused>>

----------------------------------------------------------------------------
(* POST /refresh *)

Busy(s) == \E h \in Handler : /\ call[h].pc \in {"validated", "locked", "rotated"}
                              /\ jwt[call[h].jti].sid = s

\* A request arrives with any token handed out so far: the cookie, an older
\* one, a copy. ValidateRefreshToken looks at the JWT only, never at Redis.
Present(h, j) ==
    /\ call[h].pc = "idle"
    /\ j \in handed /\ now < jwt[j].exp
    /\ call' = [call EXCEPT ![h] = [NoCall EXCEPT !.pc = "validated", !.jti = j]]
    /\ IF cookie[jwt[j].sid] # j \/ Busy(jwt[j].sid)
       THEN Disturb(jwt[j].sid) ELSE UNCHANGED disturbed
    /\ UNCHANGED <<now, jwt, handed, redisVars, lock, admin, cookie, reused, faults>>

\* The handler has its answer; the deferred ReleaseLock is still to come.
Answer(h, out) == call' = [call EXCEPT ![h].pc = "releasing", ![h].out = out]

Return(h) == call' = [call EXCEPT ![h] = NoCall]

\* AcquireLock: SET NX with a TTL of 5 s. Busy is answered with 429.
AcquireLock(h) ==
    /\ call[h].pc = "validated"
    /\ \/ /\ lock[call[h].jti] = None
          /\ lock' = [lock EXCEPT ![call[h].jti] = h]
          /\ call' = [call EXCEPT ![h].pc = "locked"]
          /\ UNCHANGED <<disturbed, faults>>
       \/ /\ lock[call[h].jti] # None
          /\ Return(h)
          /\ UNCHANGED <<lock, disturbed, faults>>
       \/ /\ Fault("redis")
          /\ Return(h)
          /\ Disturb(jwt[call[h].jti].sid)
          /\ UNCHANGED lock
    /\ UNCHANGED <<now, jwt, handed, redisVars, admin, cookie, reused>>

\* Mutant of Accepted: the status of the lineage is not looked at.
Accepted_AnyLineage(j) == rec[j].status = "active"

\* The checks of the rotation script, against the lineage the JWT names.
Accepted(j) == rec[j].status = "active" /\ lin[jwt[j].sid].status # "revoked"

\* Mutants of Consumed: the old token stays active; its record is deleted.
Consumed_NotMarked(r) == [r EXCEPT !.exp = now + TTL]
Consumed_Deleted(r)   == NoRecord

\* The record of the old token is kept, and its TTL starts again.
Consumed(r) == [r EXCEPT !.status = "consumed", !.exp = now + TTL]

\* rotateRefreshTokenScript, one operator per reply. The lineage and the user
\* of the new token are those of the JWT.
RotateOk(j, new) ==
    LET s == jwt[j].sid
        u == jwt[j].user
    IN /\ Accepted(j)
       /\ new \in FreshJti
       /\ Activate(new, s, u)
       /\ rec' = [rec EXCEPT ![j] = Consumed(@), ![new] = NewRecord(s, u)]
       /\ UNCHANGED reused

\* Mutant of RotateReused: only the token that was replayed is revoked.
RotateReused_OneToken(j) ==
    /\ rec[j].status = "consumed"
    /\ rec' = [rec EXCEPT ![j] = RevokedRecord(@)]
    /\ reused' = reused \cup {rec[j].sid}
    /\ UNCHANGED <<jwt, lin, members, userIndex, sessions>>

RotateReused(j) ==
    LET s == rec[j].sid
    IN /\ rec[j].status = "consumed"
       /\ lin' = [lin EXCEPT ![s] = RevokedLineage(@)]
       /\ rec' = [k \in Jti |-> IF k \in members[s].jtis
                                THEN RevokedRecord(rec[k]) ELSE rec[k]]
       /\ userIndex' = [userIndex EXCEPT ![rec[j].user] = @ \ {s}]
       /\ sessions' = sessions \ {s}
       /\ reused' = reused \cup {s}
       /\ UNCHANGED <<jwt, members>>

RotateRefused(j) ==
    /\ \/ rec[j].status \in {"none", "revoked"}
       \/ rec[j].status = "active" /\ ~Accepted(j)
    /\ UNCHANGED <<jwt, redisVars, reused>>

Outcome(j) == CASE rec[j].status = "none"     -> "not_found"
                [] rec[j].status = "consumed" -> "reused"
                [] Accepted(j)              -> "ok"
                [] OTHER -> "revoked"

RotateScript(j, new) ==
    \/ RotateOk(j, new) \/ RotateReused(j) \/ RotateRefused(j)

\* RotateRefreshToken signs the next token, then runs the script. Redis may be
\* out of reach, or may run the script and its reply be lost: the handler sees
\* the same error.
Rotate(h, new) ==
    LET j   == call[h].jti
        out == Outcome(j)
    IN /\ call[h].pc = "locked"
       /\ \/ /\ RotateScript(j, new)
             /\ call' = [call EXCEPT
                            ![h].pc = IF out = "ok" THEN "rotated" ELSE "releasing",
                            ![h].new = IF out = "ok" THEN new ELSE None,
                            ![h].out = out]
             /\ UNCHANGED <<disturbed, faults>>
          \/ /\ \/ Fault("redis") /\ UNCHANGED <<jwt, redisVars, reused>>
                \/ Fault("reply") /\ RotateScript(j, new)
             /\ Answer(h, "dependency")
             /\ Disturb(jwt[j].sid)
       /\ UNCHANGED <<now, handed, lock, admin, cookie>>

\* Mutant of Respond: the cookie is set after the answer was written.
Respond_NoCookie(h) ==
    /\ call[h].pc = "rotated"
    /\ Answer(h, call[h].out)
    /\ UNCHANGED <<now, jwt, handed, redisVars, lock, admin, cookie, disturbed,
                   reused, faults>>

\* GetUser, NewAccessToken, SetCookie and the 200 answer. When the account is
\* unavailable, or the answer does not arrive, the browser keeps its old token.
Respond(h) ==
    LET s == jwt[call[h].jti].sid
    IN /\ call[h].pc = "rotated"
       /\ Answer(h, call[h].out)
       /\ \/ /\ cookie' = [cookie EXCEPT ![s] = call[h].new]
             /\ handed' = handed \cup {call[h].new}
             /\ UNCHANGED <<disturbed, faults>>
          \/ /\ Fault("response")
             /\ Disturb(s)
             /\ UNCHANGED <<cookie, handed>>
       /\ UNCHANGED <<now, jwt, redisVars, lock, admin, reused>>

\* The deferred ReleaseLock: compare and delete.
ReleaseLock(h) ==
    /\ call[h].pc = "releasing"
    /\ lock' = [lock EXCEPT ![call[h].jti] = IF @ = h THEN None ELSE @]
    /\ Return(h)
    /\ UNCHANGED <<now, jwt, handed, redisVars, admin, cookie, disturbed, reused, faults>>

\* The lock's TTL runs out, whether or not its holder is done.
LockExpires(j) ==
    /\ lock[j] # None
    /\ lock' = [lock EXCEPT ![j] = None]
    /\ UNCHANGED <<now, jwt, handed, redisVars, call, admin, cookie, disturbed, reused,
                   faults>>

\* A replica stops in the middle of a call.
HandlerCrash(h) ==
    /\ call[h].pc # "idle"
    /\ Fault("crash")
    /\ Disturb(jwt[call[h].jti].sid)
    /\ Return(h)
    /\ UNCHANGED <<now, jwt, handed, redisVars, lock, admin, cookie, reused>>

----------------------------------------------------------------------------
(* The admin: RevokeLineage, alone or for each session of a user *)

\* DELETE /admin/sessions/:id
RevokeSession(s) ==
    /\ admin.pc = "idle"
    /\ s \notin FreshSid
    /\ admin' = [NoAdmin EXCEPT !.pc = "next", !.queue = {s}]
    /\ UNCHANGED <<now, jwt, handed, redisVars, lock, call, cookie, disturbed, reused,
                   faults>>

\* SMEMBERS returns the members in no particular order, and the code looks at
\* the first. A lineage without members, or whose first member has expired, is
\* left out of the list.
Listed(s, first) ==
    members[s].jtis # {} /\ rec[first[s]].status # "none"

\* RevokeUserSessions: ListSessionsByUser.
RevokeUserSessions(u) ==
    /\ admin.pc = "idle"
    /\ \E first \in [Sid -> Jti] :
          /\ \A s \in Sid : members[s].jtis # {} => first[s] \in members[s].jtis
          /\ admin' = [NoAdmin EXCEPT
                         !.pc = "next", !.user = u, !.found = userIndex[u],
                         !.queue = {s \in userIndex[u] : Listed(s, first)}]
    /\ UNCHANGED <<now, jwt, handed, redisVars, lock, call, cookie, disturbed, reused,
                   faults>>

\* HSET lineage status revoked.
RevokeLineage(s) ==
    /\ admin.pc = "next" /\ s \in admin.queue
    /\ lin' = [lin EXCEPT ![s] = RevokedLineage(@)]
    /\ admin' = [admin EXCEPT !.pc = "members", !.sid = s, !.queue = @ \ {s}]
    /\ Disturb(s)
    /\ UNCHANGED <<now, jwt, handed, rec, members, userIndex, sessions, lock, call,
                   cookie, reused, faults>>

ReadMembers ==
    /\ admin.pc = "members"
    /\ admin' = [admin EXCEPT !.pc = "tokens", !.read = members[admin.sid].jtis,
                              !.todo = members[admin.sid].jtis]
    /\ UNCHANGED <<now, jwt, handed, redisVars, lock, call, cookie, disturbed, reused,
                   faults>>

RevokeMember(j) ==
    /\ admin.pc = "tokens" /\ j \in admin.todo
    /\ rec' = [rec EXCEPT ![j] = RevokedRecord(@)]
    /\ admin' = [admin EXCEPT !.todo = @ \ {j}]
    /\ UNCHANGED <<now, jwt, handed, lin, members, userIndex, sessions, lock, call,
                   cookie, disturbed, reused, faults>>

\* ZREM from the index of the user on record for the first member, if any.
UnlistUser ==
    \/ \E j \in admin.read :
          userIndex' = [u \in User |-> IF rec[j].user = u
                                       THEN userIndex[u] \ {admin.sid}
                                       ELSE userIndex[u]]
    \/ admin.read = {} /\ UNCHANGED userIndex

\* The lineage leaves both indexes; the errors of these commands are ignored.
Unlist ==
    /\ admin.pc = "tokens" /\ admin.todo = {}
    /\ \/ /\ UnlistUser
          /\ sessions' = sessions \ {admin.sid}
          /\ UNCHANGED faults
       \/ /\ Fault("redis")
          /\ \/ UNCHANGED userIndex /\ sessions' = sessions \ {admin.sid}
             \/ UnlistUser /\ UNCHANGED sessions
    /\ admin' = [admin EXCEPT !.pc = "next", !.sid = None, !.read = {}]
    /\ UNCHANGED <<now, jwt, handed, rec, lin, members, lock, call, cookie, disturbed,
                   reused>>

RevocationDone ==
    /\ admin.pc = "next" /\ admin.queue = {}
    /\ admin' = NoAdmin
    /\ UNCHANGED <<now, jwt, handed, redisVars, lock, call, cookie, disturbed, reused,
                   faults>>

\* Redis does not answer one of the commands: the revocation stops there.
RevocationFails ==
    /\ admin.pc \in {"next", "members", "tokens"}
    /\ Fault("redis")
    /\ admin' = NoAdmin
    /\ UNCHANGED <<now, jwt, handed, redisVars, lock, call, cookie, disturbed, reused>>

----------------------------------------------------------------------------

\* Time passes and Redis drops the keys whose TTL has run out.
Tick ==
    /\ now < MaxTime
    /\ now' = now + 1
    /\ rec' = [j \in Jti |-> IF rec[j].exp > now + 1 THEN rec[j] ELSE NoRecord]
    /\ lin' = [s \in Sid |-> IF lin[s].exp > now + 1 THEN lin[s] ELSE NoLineage]
    /\ members' = [s \in Sid |-> IF members[s].exp > now + 1
                                 THEN members[s] ELSE NoMembers]
    /\ UNCHANGED <<jwt, handed, userIndex, sessions, lock, call, admin, cookie,
                   disturbed, reused, faults>>

TokenInit ==
    /\ now = 0
    /\ jwt = [j \in Jti |-> NoJwt] /\ handed = {}
    /\ rec = [j \in Jti |-> NoRecord]
    /\ lin = [s \in Sid |-> NoLineage]
    /\ members = [s \in Sid |-> NoMembers]
    /\ userIndex = [u \in User |-> {}]
    /\ sessions = {}
    /\ lock = [j \in Jti |-> None]
    /\ call = [h \in Handler |-> NoCall]
    /\ admin = NoAdmin
    /\ cookie = [s \in Sid |-> None]
    /\ disturbed = {} /\ reused = {} /\ faults = 0

TokenNext ==
    \/ \E j \in Jti, s \in Sid, u \in User : Login(j, s, u)
    \/ \E h \in Handler :
          \/ \E j \in Jti : Present(h, j) \/ Rotate(h, j)
          \/ AcquireLock(h) \/ Respond(h) \/ ReleaseLock(h) \/ HandlerCrash(h)
    \/ \E j \in Jti : LockExpires(j) \/ RevokeMember(j)
    \/ \E s \in Sid : RevokeSession(s) \/ RevokeLineage(s)
    \/ \E u \in User : RevokeUserSessions(u)
    \/ ReadMembers \/ Unlist \/ RevocationDone \/ RevocationFails
    \/ Tick

TokenSpec == TokenInit /\ [][TokenNext]_tokenVars

----------------------------------------------------------------------------
(* Properties *)

\* Every variable has its type, and no record of a token that was issued or
\* exchanged stays longer than a TTL: only a revoked marker can lack one.
TokenTypeOK ==
    /\ now \in 0..MaxTime
    /\ jwt \in [Jti -> Jwt \cup {NoJwt}] /\ handed \subseteq Jti
    /\ rec \in [Jti -> Record] /\ lin \in [Sid -> Lineage]
    /\ members \in [Sid -> Members]
    /\ userIndex \in [User -> SUBSET Sid] /\ sessions \subseteq Sid
    /\ lock \in [Jti -> Handler \cup {None}]
    /\ call \in [Handler ->
                    [pc : {"idle", "validated", "locked", "rotated", "releasing"},
                     jti : Jti \cup {None}, new : Jti \cup {None},
                     out : {None, "dependency", "ok", "not_found", "reused",
                            "revoked"}]]
    /\ admin \in [pc : {"idle", "next", "members", "tokens"},
                  user : User \cup {None}, found : SUBSET Sid,
                  queue : SUBSET Sid, sid : Sid \cup {None},
                  read : SUBSET Jti, todo : SUBSET Jti]
    /\ cookie \in [Sid -> Jti \cup {None}]
    /\ disturbed \subseteq Sid /\ reused \subseteq Sid
    /\ faults \in 0..MaxFaults
    /\ \A j \in Jti : rec[j].status \in {"active", "consumed"}
                        => rec[j].exp \in now + 1 .. now + TTL

\* Refresh tokens are single-use: whatever calls race, at most one token of a
\* lineage can be exchanged at any time (README.md, "Refresh tokens are
\* single-use").
OneUsablePerLineage ==
    \A i, j \in Jti :
        /\ rec[i].status = "active" /\ rec[j].status = "active"
        /\ rec[i].sid = rec[j].sid
        => i = j

\* Revocation is final: no rotation that raced with RevokeLineage brings the
\* lineage back, and a token that once stopped being exchangeable never becomes
\* so again, not even when the revoked marker of its lineage expires first.
RevocationIsFinal ==
    [][/\ \A s \in Sid : lin[s].status = "revoked" => lin'[s].status # "active"
       /\ \A j \in Jti : jwt[j] # NoJwt /\ ~Usable(j) => ~Usable(j)']_tokenVars

\* On reuse the entire lineage is dead at once and stays dead, the token the
\* replaying party or its victim got last included (rotate script, RFC 9700).
ReuseKillsLineage ==
    \A j \in Jti : Usable(j) => rec[j].sid \notin reused

\* A token that would still pass ValidateRefreshToken is on record, used or
\* not: a replay is always recognised, never taken for an unknown token
\* ("stays detectable", refreshTokenService.go).
ValidTokenIsOnRecord ==
    \A j \in Jti : now < jwt[j].exp => rec[j].status # "none"

\* A token that can be exchanged belongs to a lineage that both session indexes
\* list, and its lineage lists it: no session is out of the admin's sight.
UsableIsListed ==
    \A j \in Jti : Usable(j) =>
        LET s == rec[j].sid
        IN /\ j \in members[s].jtis
           /\ s \in userIndex[rec[j].user]
           /\ s \in sessions

\* A browser that sends one refresh at a time, and meets no failure and no
\* revocation, always holds a token it can exchange until it expires.
CalmSessionSurvives ==
    \A s \in Sid :
        /\ s \notin disturbed
        /\ cookie[s] # None /\ now < jwt[cookie[s]].exp
        /\ ~Busy(s)
        => Usable(cookie[s])
=============================================================================
