------------------------ MODULE RefreshTokensProofs ------------------------
(***************************************************************************)
(* Theorems about RefreshTokens, for any number of tokens, lineages, users *)
(* and concurrent calls. The invariant ties the keys of Redis to each      *)
(* other: what a record says is what its JWT says, and the lineage, its    *)
(* members and the two indexes outlive every record that can still be      *)
(* exchanged. The expiry of keys makes that more than bookkeeping: a       *)
(* revoked marker that expired first would bring a lineage back. A second  *)
(* invariant is about lineages nothing unusual happened to: who works on   *)
(* one, and with which token.                                              *)
(***************************************************************************)
EXTENDS RefreshTokens, TLAPS

Issued(j) == jwt[j] # NoJwt
Active(j) == rec[j].status = "active"

RedisTypeOK ==
    /\ now \in 0..MaxTime
    /\ jwt \in [Jti -> Jwt \cup {NoJwt}]
    /\ rec \in [Jti -> Record] /\ lin \in [Sid -> Lineage]
    /\ members \in [Sid -> Members]
    /\ userIndex \in [User -> SUBSET Sid] /\ sessions \subseteq Sid
    /\ reused \subseteq Sid
    /\ \A j \in Jti : rec[j].status \in {"active", "consumed"}
                        => rec[j].exp \in now + 1 .. now + TTL

\* A record says what its JWT says, and is there as long as the JWT is valid.
RecordsOK ==
    \A j \in Jti :
        /\ rec[j].status \in {"active", "consumed"} =>
              Issued(j) /\ rec[j].sid = jwt[j].sid /\ rec[j].user = jwt[j].user
        /\ jwt[j].exp <= now + TTL
        /\ now < jwt[j].exp => rec[j].status # "none" /\ jwt[j].exp <= rec[j].exp

\* What belongs to an active record is there, and expires no earlier.
ActiveOK ==
    \A j \in Jti : Active(j) =>
        LET s == rec[j].sid
        IN /\ lin[s].status # "none" /\ rec[j].exp <= lin[s].exp
           /\ j \in members[s].jtis /\ rec[j].exp <= members[s].exp
           /\ lin[s].status # "revoked" => s \in userIndex[rec[j].user] /\ s \in sessions

\* Nothing is known of a lineage that has not begun.
FreshOK ==
    \A s \in FreshSid : lin[s].status # "revoked" /\ s \notin reused
                        /\ \A u \in User : s \notin userIndex[u]

ReusedOK == \A j \in Jti : Active(j) => rec[j].sid \notin reused

RedisInv ==
    RedisTypeOK /\ RecordsOK /\ ActiveOK /\ OneUsablePerLineage /\ FreshOK /\ ReusedOK

\* What every step of Redis leaves as it is: the tokens issued, and that what can
\* be exchanged comes of a login or of what could be exchanged.
Descent ==
    /\ \A j \in Jti : Issued(j) => jwt'[j] = jwt[j]
    /\ \A s \in Sid : s \in FreshSid' => s \in FreshSid
    /\ \A s \in Sid : lin[s].status = "revoked" => lin'[s].status # "active"
    /\ \A j \in Jti : Usable(j)' =>
          \/ Usable(j) /\ rec'[j].sid = rec[j].sid
          \/ /\ ~Issued(j)
             /\ \/ rec'[j].sid \in FreshSid
                \/ \E i \in Jti : Usable(i) /\ rec[i].sid = rec'[j].sid

Call == [pc : {"idle", "validated", "locked", "rotated", "releasing"},
         jti : Jti \cup {None}, new : Jti \cup {None},
         out : {None, "dependency", "ok", "not_found", "reused", "revoked"}]

Revocation == [pc : {"idle", "next", "members", "tokens"}, user : User \cup {None},
               found : SUBSET Sid, queue : SUBSET Sid, sid : Sid \cup {None},
               read : SUBSET Jti, todo : SUBSET Jti]

\* A call is about a token that was issued.
CallsOK ==
    /\ call \in [Handler ->
                    Call]
    /\ \A h \in Handler : /\ call[h].pc # "idle" => call[h].jti \in Jti /\ Issued(call[h].jti)
                          /\ call[h].pc = "rotated" => call[h].new \in Jti

Dead(s) == \A j \in Jti : Usable(j) => rec[j].sid # s

\* The admin revokes lineages that have begun, and when the members are read
\* nothing of the lineage can be exchanged, nor will be.
AdminOK ==
    /\ admin \in Revocation
    /\ admin.queue \cap FreshSid = {}
    /\ admin.pc \in {"members", "tokens"} =>
          admin.sid \in Sid \ FreshSid /\ Dead(admin.sid)

OthersOK ==
    /\ handed \subseteq Jti /\ lock \in [Jti -> Handler \cup {None}]
    /\ cookie \in [Sid -> Jti \cup {None}] /\ disturbed \subseteq Sid
    /\ faults \in 0..MaxFaults

TokenIInv == RedisInv /\ CallsOK /\ AdminOK /\ OthersOK

----------------------------------------------------------------------------
(* Keys *)

LEMMA RevokedRecordFacts ==
    ASSUME NEW r \in Record
    PROVE  /\ RevokedRecord(r) \in Record /\ RevokedRecord(r).status = "revoked"
           /\ RevokedRecord(r).exp = IF r.status = "none" THEN Never ELSE r.exp
BY RefreshConstants DEF RevokedRecord, Record, Never

LEMMA RevokedLineageFacts ==
    ASSUME NEW l \in Lineage
    PROVE  /\ RevokedLineage(l) \in Lineage /\ RevokedLineage(l).status = "revoked"
           /\ RevokedLineage(l).exp = IF l.status = "none" THEN Never ELSE l.exp
BY RefreshConstants DEF RevokedLineage, Lineage, Never

LEMMA JwtFacts ==
    ASSUME RedisTypeOK, NEW j \in Jti
    PROVE  /\ jwt[j].exp \in 0 .. MaxTime + TTL
           /\ Issued(j) => jwt[j].sid \in Sid /\ jwt[j].user \in User /\ jwt[j].sid \notin FreshSid
           /\ ~Issued(j) => jwt[j].exp = 0 /\ jwt[j].sid = None
BY RefreshConstants DEF RedisTypeOK, Issued, Jwt, NoJwt, FreshSid

----------------------------------------------------------------------------
(* Steps of Redis *)

\* A new token of lineage s, whose other active token, if any, is consumed.
LEMMA ActivateStep ==
    ASSUME RedisInv, NEW j \in Jti, NEW s \in Sid, NEW u \in User,
           ~Issued(j), Activate(j, s, u), UNCHANGED <<now, reused>>,
           rec' \in [Jti -> Record], rec'[j] = NewRecord(s, u),
           \A k \in Jti \ {j} :
               \/ rec'[k] = rec[k] /\ ~(Active(k) /\ rec[k].sid = s)
               \/ rec'[k] = Consumed(rec[k]) /\ Active(k),
           s \notin reused, lin[s].status # "revoked",
           s \in FreshSid \/ \E i \in Jti : Usable(i) /\ rec[i].sid = s
    PROVE  RedisInv' /\ Descent
<1>1. /\ now \in Nat /\ now <= MaxTime /\ TTL \in Nat \ {0} /\ MaxTime \in Nat
      /\ now + TTL \in 1 .. MaxTime + TTL /\ now + TTL \in 0..Never
    BY RefreshConstants DEF RedisInv, RedisTypeOK, Never
<1>2. /\ jwt' = [jwt EXCEPT ![j] = [sid |-> s, user |-> u, exp |-> now + TTL]]
      /\ lin' = [lin EXCEPT ![s] = [status |-> "active", exp |-> now + TTL]]
      /\ members' = [members EXCEPT ![s] = [jtis |-> @.jtis \cup {j}, exp |-> now + TTL]]
      /\ userIndex' = [userIndex EXCEPT ![u] = @ \cup {s}]
      /\ sessions' = sessions \cup {s}
    BY DEF Activate, Enlist
<1>3. /\ jwt'[j] = [sid |-> s, user |-> u, exp |-> now + TTL] /\ jwt'[j] # NoJwt
      /\ \A k \in Jti \ {j} : jwt'[k] = jwt[k]
      /\ jwt' \in [Jti -> Jwt \cup {NoJwt}]
    BY <1>1, <1>2, RefreshConstants DEF RedisInv, RedisTypeOK, Jwt, NoJwt
<1>4. /\ lin' \in [Sid -> Lineage] /\ lin'[s] = [status |-> "active", exp |-> now + TTL]
      /\ \A t \in Sid \ {s} : lin'[t] = lin[t]
    BY <1>1, <1>2 DEF RedisInv, RedisTypeOK, Lineage
<1>5. /\ members' \in [Sid -> Members]
      /\ members'[s].jtis = members[s].jtis \cup {j} /\ members'[s].exp = now + TTL
      /\ \A t \in Sid \ {s} : members'[t] = members[t]
    BY <1>1, <1>2 DEF RedisInv, RedisTypeOK, Members
<1>6. /\ userIndex' \in [User -> SUBSET Sid] /\ sessions' \subseteq Sid
      /\ s \in userIndex'[u] /\ s \in sessions'
      /\ \A v \in User : userIndex[v] \subseteq userIndex'[v] /\ userIndex'[v] \subseteq userIndex[v] \cup {s}
    BY <1>2 DEF RedisInv, RedisTypeOK
<1>7. /\ rec'[j].status = "active" /\ rec'[j].sid = s /\ rec'[j].user = u
      /\ rec'[j].exp = now + TTL
    BY DEF NewRecord
<1>8. ASSUME NEW k \in Jti \ {j}
      PROVE  /\ rec'[k].sid = rec[k].sid /\ rec'[k].user = rec[k].user
             /\ \/ rec'[k] = rec[k]
                \/ Active(k) /\ rec'[k].status = "consumed" /\ rec'[k].exp = now + TTL
             /\ rec'[k].status = "active" => rec'[k] = rec[k] /\ rec[k].sid # s
    BY DEF RedisInv, RedisTypeOK, Record, Consumed, Active
<1>9. RedisTypeOK'
    <2>1. \A k \in Jti : rec'[k].status \in {"active", "consumed"}
                            => rec'[k].exp \in now + 1 .. now + TTL
        BY <1>1, <1>7, <1>8 DEF RedisInv, RedisTypeOK
    <2> QED
        BY <2>1, <1>3, <1>4, <1>5, <1>6 DEF RedisInv, RedisTypeOK
<1>10. RecordsOK'
    <2>1. ASSUME NEW k \in Jti \ {j}
          PROVE  /\ rec'[k].status \in {"active", "consumed"} =>
                      /\ jwt'[k] # NoJwt /\ rec'[k].sid = jwt'[k].sid
                      /\ rec'[k].user = jwt'[k].user
                 /\ jwt'[k].exp <= now + TTL
                 /\ now < jwt'[k].exp => rec'[k].status # "none" /\ jwt'[k].exp <= rec'[k].exp
        BY <1>1, <1>3, <1>8 DEF RedisInv, RecordsOK, Active, Issued
    <2>2. /\ rec'[j].sid = jwt'[j].sid /\ rec'[j].user = jwt'[j].user
          /\ jwt'[j].exp = now + TTL /\ rec'[j].exp = now + TTL /\ rec'[j].status = "active"
        BY <1>3, <1>7
    <2> QED
        BY <1>1, <1>3, <2>1, <2>2 DEF RecordsOK, Issued
<1>11. ActiveOK'
    <2>1. ASSUME NEW k \in Jti, rec'[k].status = "active"
          PROVE  LET t == rec'[k].sid
                 IN /\ lin'[t].status # "none" /\ rec'[k].exp <= lin'[t].exp
                    /\ k \in members'[t].jtis /\ rec'[k].exp <= members'[t].exp
                    /\ lin'[t].status # "revoked" =>
                          t \in userIndex'[rec'[k].user] /\ t \in sessions'
        <3>1. CASE k = j
            BY <1>1, <1>4, <1>5, <1>6, <1>7, <3>1
        <3>2. CASE k # j
            <4>1. Active(k) /\ rec'[k] = rec[k] /\ rec[k].sid # s
                BY <1>8, <2>1, <3>2 DEF Active
            <4>2. rec[k].sid \in Sid /\ rec[k].user \in User
                BY <4>1, JwtFacts DEF RedisInv, RecordsOK, Active
            <4> QED
                BY <1>2, <1>4, <1>5, <1>6, <4>1, <4>2 DEF RedisInv, ActiveOK
        <3> QED
            BY <3>1, <3>2
    <2> QED
        BY <2>1 DEF ActiveOK, Active
<1>12. OneUsablePerLineage'
    BY <1>7, <1>8 DEF RedisInv, OneUsablePerLineage
<1>13. \A t \in Sid : t \in FreshSid' => t \in FreshSid /\ t # s
    <2>1. jwt'[j].sid = s
        BY <1>3
    <2>2. \A k \in Jti : jwt[k].sid # jwt'[k].sid => k = j
        BY <1>3
    <2>3. ~(jwt[j].sid \in Sid)
        BY JwtFacts, RefreshConstants DEF RedisInv
    <2> QED
        BY <2>1, <2>2, <2>3 DEF FreshSid
<1>14. FreshOK'
    BY <1>4, <1>6, <1>13 DEF RedisInv, FreshOK, FreshSid
<1>15. ReusedOK'
    BY <1>7, <1>8 DEF RedisInv, ReusedOK, Active
<1>16. Descent
    <2>1. \A k \in Jti : Issued(k) => jwt'[k] = jwt[k]
        BY <1>3
    <2>2. \A t \in Sid : lin[t].status = "revoked" => lin'[t].status # "active"
        BY <1>4
    <2>3. ASSUME NEW k \in Jti \ {j}, Usable(k)'
          PROVE  Usable(k) /\ rec'[k].sid = rec[k].sid
        <3>1. Active(k) /\ rec'[k] = rec[k] /\ rec[k].sid # s
            BY <1>8, <2>3 DEF Active, Usable
        <3>2. rec[k].sid \in Sid
            BY <3>1, JwtFacts DEF RedisInv, RecordsOK, Active
        <3> QED
            BY <1>4, <2>3, <3>1, <3>2 DEF Usable, Active
    <2> QED
        BY <1>7, <1>13, <2>1, <2>2, <2>3 DEF Descent
<1> QED
    BY <1>9, <1>10, <1>11, <1>12, <1>14, <1>15, <1>16 DEF RedisInv

LEMMA LoginStep ==
    ASSUME RedisInv, NEW j \in Jti, NEW s \in Sid, NEW u \in User, Login(j, s, u)
    PROVE  RedisInv' /\ Descent
<1>1. ~Issued(j) /\ s \in FreshSid
    BY DEF Login, FreshJti, Issued
<1>2. rec' = [rec EXCEPT ![j] = NewRecord(s, u)] /\ Activate(j, s, u)
      /\ UNCHANGED <<now, reused>>
    BY DEF Login
<1>3. NewRecord(s, u) \in Record
    BY RefreshConstants DEF RedisInv, RedisTypeOK, NewRecord, Record, Never
<1>4. rec' \in [Jti -> Record] /\ rec'[j] = NewRecord(s, u)
      /\ \A k \in Jti \ {j} : rec'[k] = rec[k]
    BY <1>2, <1>3 DEF RedisInv, RedisTypeOK
<1>5. \A k \in Jti : ~(Active(k) /\ rec[k].sid = s)
    BY <1>1, JwtFacts DEF RedisInv, RecordsOK, Active
<1>6. s \notin reused /\ lin[s].status # "revoked"
    BY <1>1 DEF RedisInv, FreshOK
<1> QED
    BY <1>1, <1>2, <1>4, <1>5, <1>6, ActivateStep

\* The lineage that the JWT names is the one on record.
LEMMA RotateOkStep ==
    ASSUME RedisInv, NEW j \in Jti, NEW new \in Jti, RotateOk(j, new), now' = now
    PROVE  RedisInv' /\ Descent
<1> DEFINE s == jwt[j].sid
           u == jwt[j].user
<1>1. Active(j) /\ lin[s].status # "revoked" /\ ~Issued(new) /\ UNCHANGED <<now, reused>>
      /\ Activate(new, s, u)
      /\ rec' = [rec EXCEPT ![j] = Consumed(@), ![new] = NewRecord(s, u)]
    BY DEF RotateOk, Accepted, FreshJti, Active, Issued
<1>2. Issued(j) /\ rec[j].sid = s /\ s \in Sid /\ u \in User
    BY <1>1, JwtFacts DEF RedisInv, RecordsOK, Active
<1>3. NewRecord(s, u) \in Record /\ Consumed(rec[j]) \in Record
    <2>1. now + TTL \in 0..Never
        BY RefreshConstants DEF RedisInv, RedisTypeOK, Never
    <2>2. rec[j] \in Record
        BY DEF RedisInv, RedisTypeOK
    <2> HIDE DEF s, u
    <2> QED
        BY <1>2, <2>1, <2>2 DEF NewRecord, Consumed, Record
<1>4. j # new
    BY <1>1, <1>2
<1>5. rec' \in [Jti -> Record] /\ rec'[new] = NewRecord(s, u) /\ rec'[j] = Consumed(rec[j])
      /\ \A k \in Jti \ {j, new} : rec'[k] = rec[k]
    BY <1>1, <1>3, <1>4 DEF RedisInv, RedisTypeOK
<1>6. \A k \in Jti \ {j} : ~(Active(k) /\ rec[k].sid = s)
    BY <1>1, <1>2 DEF RedisInv, OneUsablePerLineage, Active
<1>7. s \notin reused
    BY <1>1, <1>2 DEF RedisInv, ReusedOK
<1>8. Usable(j) /\ rec[j].sid = s
    BY <1>1, <1>2 DEF Usable, Active
<1>9. \A k \in Jti \ {new} : \/ rec'[k] = rec[k] /\ ~(Active(k) /\ rec[k].sid = s)
                             \/ rec'[k] = Consumed(rec[k]) /\ Active(k)
    BY <1>1, <1>5, <1>6
<1> HIDE DEF s, u
<1> QED
    BY <1>1, <1>2, <1>5, <1>7, <1>8, <1>9, ActivateStep

\* Some records and lineages are revoked, and one lineage may leave the indexes
\* when nothing of it can be exchanged any more.
LEMMA RevokeStep ==
    ASSUME RedisInv, NEW s, UNCHANGED <<now, jwt, members>>,
           rec' \in [Jti -> Record],
           \A k \in Jti : rec'[k] = rec[k] \/ rec'[k] = RevokedRecord(rec[k]),
           lin' \in [Sid -> Lineage],
           \A t \in Sid : \/ lin'[t] = lin[t]
                          \/ t \notin FreshSid /\ lin'[t] = RevokedLineage(lin[t]),
           userIndex' \in [User -> SUBSET Sid], sessions' \subseteq Sid,
           \A v \in User : /\ userIndex[v] \ {s} \subseteq userIndex'[v]
                           /\ userIndex'[v] \subseteq userIndex[v],
           sessions \ {s} \subseteq sessions',
           \/ UNCHANGED <<userIndex, sessions>>
           \/ \A k \in Jti : Usable(k)' => rec'[k].sid # s,
           \/ reused' = reused
           \/ /\ reused' = reused \cup {s} /\ s \in Sid \ FreshSid
              /\ \A k \in Jti : Active(k)' => rec'[k].sid # s
    PROVE  RedisInv' /\ Descent
<1>1. ASSUME NEW k \in Jti
      PROVE  /\ rec'[k] = rec[k] \/ rec'[k].status = "revoked"
             /\ rec'[k].exp = rec[k].exp \/ (rec[k].status = "none" /\ rec'[k].exp = Never)
             /\ rec[k].status # "none" => rec'[k].status # "none"
    <2>1. rec[k] \in Record /\ (rec'[k] = rec[k] \/ rec'[k] = RevokedRecord(rec[k]))
        BY DEF RedisInv, RedisTypeOK
    <2>2. CASE rec'[k] = rec[k]
        BY <2>2
    <2>3. CASE rec'[k] = RevokedRecord(rec[k])
        BY <2>1, <2>3, RevokedRecordFacts
    <2> QED
        BY <2>1, <2>2, <2>3
<1>2. ASSUME NEW t \in Sid
      PROVE  /\ lin'[t] = lin[t] \/ (lin'[t].status = "revoked" /\ t \notin FreshSid)
             /\ lin[t].status # "none" => lin'[t].status # "none" /\ lin'[t].exp = lin[t].exp
             /\ lin'[t].status # "revoked" => lin'[t] = lin[t]
             /\ lin[t].status = "revoked" => lin'[t].status = "revoked"
    <2>1. lin[t] \in Lineage
          /\ (lin'[t] = lin[t] \/ (t \notin FreshSid /\ lin'[t] = RevokedLineage(lin[t])))
        BY DEF RedisInv, RedisTypeOK
    <2>2. CASE lin'[t] = lin[t]
        BY <2>2
    <2>3. CASE t \notin FreshSid /\ lin'[t] = RevokedLineage(lin[t])
        <3>1. lin'[t].status = "revoked" /\ (lin[t].status # "none" => lin'[t].exp = lin[t].exp)
            BY <2>1, <2>3, RevokedLineageFacts
        <3> QED
            BY <2>3, <3>1
    <2> QED
        BY <2>1, <2>2, <2>3
<1>3. FreshSid' = FreshSid /\ \A k \in Jti : Issued(k)' = Issued(k)
    BY DEF FreshSid, Issued, NoJwt
<1>4. RedisTypeOK'
    <2>1. reused' \subseteq Sid
        BY DEF RedisInv, RedisTypeOK
    <2> QED
        BY <1>1, <2>1 DEF RedisInv, RedisTypeOK
<1>5. RecordsOK'
    BY <1>1, <1>3 DEF RedisInv, RecordsOK
<1>6. \A k \in Jti : Active(k)' => Active(k) /\ rec'[k] = rec[k] /\ rec[k].sid \in Sid
                                 /\ rec[k].user \in User
    BY <1>1, JwtFacts DEF RedisInv, RecordsOK, Active
<1>7. ActiveOK'
    <2>1. ASSUME NEW k \in Jti, Active(k)'
          PROVE  LET t == rec'[k].sid
                 IN /\ lin'[t].status # "none" /\ rec'[k].exp <= lin'[t].exp
                    /\ k \in members'[t].jtis /\ rec'[k].exp <= members'[t].exp
                    /\ lin'[t].status # "revoked" =>
                          t \in userIndex'[rec'[k].user] /\ t \in sessions'
        <3> DEFINE t == rec[k].sid
        <3>1. Active(k) /\ rec'[k] = rec[k] /\ t \in Sid /\ rec[k].user \in User
            BY <1>6, <2>1
        <3>2. /\ lin'[t].status # "none" /\ rec[k].exp <= lin'[t].exp
              /\ k \in members'[t].jtis /\ rec[k].exp <= members'[t].exp
            BY <1>2, <3>1 DEF RedisInv, ActiveOK
        <3>3. ASSUME lin'[t].status # "revoked"
              PROVE  t \in userIndex'[rec[k].user] /\ t \in sessions'
            <4>1. t \in userIndex[rec[k].user] /\ t \in sessions
                BY <1>2, <3>1, <3>3 DEF RedisInv, ActiveOK
            <4>2. CASE UNCHANGED <<userIndex, sessions>>
                BY <4>1, <4>2
            <4>3. CASE \A i \in Jti : Usable(i)' => rec'[i].sid # s
                <5>1. Usable(k)'
                    BY <2>1, <3>1, <3>3 DEF Usable, Active
                <5> QED
                    BY <3>1, <4>1, <4>3, <5>1
            <4> QED
                BY <4>2, <4>3
        <3> QED
            BY <3>1, <3>2, <3>3
    <2> QED
        BY <2>1 DEF ActiveOK
<1>8. OneUsablePerLineage'
    BY <1>6 DEF RedisInv, OneUsablePerLineage, Active
<1>9. FreshOK'
    BY <1>2, <1>3 DEF RedisInv, FreshOK, FreshSid
<1>10. ReusedOK'
    BY <1>6 DEF RedisInv, ReusedOK
<1>11. Descent
    <2>1. ASSUME NEW k \in Jti, Usable(k)'
          PROVE  Usable(k) /\ rec'[k].sid = rec[k].sid
        <3>1. Active(k)'
            BY <2>1 DEF Usable, Active
        <3> QED
            BY <1>2, <1>6, <2>1, <3>1 DEF Usable, Active
    <2> QED
        BY <1>2, <1>3, <2>1 DEF Descent
<1> QED
    BY <1>4, <1>5, <1>7, <1>8, <1>9, <1>10, <1>11 DEF RedisInv

\* Keys expire, and none before the records that need it.
LEMMA TickStep ==
    ASSUME RedisInv, Tick
    PROVE  RedisInv' /\ Descent
<1>1. /\ now \in Nat /\ now' = now + 1 /\ now' \in 0..MaxTime /\ TTL \in Nat \ {0}
      /\ MaxTime \in Nat /\ UNCHANGED <<jwt, userIndex, sessions, reused>>
    BY RefreshConstants DEF RedisInv, RedisTypeOK, Tick
<1>2. \A j \in Jti : rec'[j] = IF rec[j].exp > now + 1 THEN rec[j] ELSE NoRecord
    BY DEF Tick
<1>3. \A s \in Sid : /\ lin'[s] = IF lin[s].exp > now + 1 THEN lin[s] ELSE NoLineage
                     /\ members'[s] = IF members[s].exp > now + 1 THEN members[s] ELSE NoMembers
    BY DEF Tick
<1>4. NoRecord \in Record /\ NoLineage \in Lineage /\ NoMembers \in Members
      /\ NoRecord.status = "none" /\ NoLineage.status = "none"
    BY RefreshConstants DEF NoRecord, NoLineage, NoMembers, Record, Lineage, Members, Never
<1>5. /\ \A j \in Jti : rec[j] \in Record /\ rec[j].exp \in Nat
      /\ \A s \in Sid : lin[s] \in Lineage /\ lin[s].exp \in Nat
                        /\ members[s] \in Members /\ members[s].exp \in Nat
    BY RefreshConstants DEF RedisInv, RedisTypeOK, Record, Lineage, Members, Never
<1>6. RedisTypeOK'
    <2>1. rec' \in [Jti -> Record]
        BY <1>4, <1>5 DEF Tick
    <2>2. lin' \in [Sid -> Lineage] /\ members' \in [Sid -> Members]
        BY <1>4, <1>5 DEF Tick
    <2>3. \A j \in Jti : rec'[j].status \in {"active", "consumed"}
                            => rec'[j].exp \in now' + 1 .. now' + TTL
        BY <1>1, <1>2, <1>4, <1>5 DEF RedisInv, RedisTypeOK
    <2> QED
        BY <1>1, <2>1, <2>2, <2>3 DEF RedisInv, RedisTypeOK
<1>7. RecordsOK'
    <2>1. ASSUME NEW j \in Jti
          PROVE  /\ rec'[j].status \in {"active", "consumed"} => rec'[j] = rec[j]
                 /\ jwt[j].exp <= now' + TTL
                 /\ now' < jwt[j].exp => rec'[j].status # "none" /\ jwt[j].exp <= rec'[j].exp
        BY <1>1, <1>2, <1>4, <1>5, JwtFacts DEF RedisInv, RecordsOK
    <2> QED
        BY <1>1, <2>1 DEF RedisInv, RecordsOK, Issued
<1>8. ASSUME NEW j \in Jti, Active(j)'
      PROVE  /\ Active(j) /\ rec'[j] = rec[j] /\ rec[j].sid \in Sid
             /\ lin'[rec[j].sid] = lin[rec[j].sid] /\ members'[rec[j].sid] = members[rec[j].sid]
    <2>1. Active(j) /\ rec'[j] = rec[j] /\ rec[j].exp > now + 1
        BY <1>2, <1>4, <1>8 DEF Active
    <2>2. rec[j].sid \in Sid
        BY <2>1, JwtFacts DEF RedisInv, RecordsOK, Active
    <2>3. rec[j].exp <= lin[rec[j].sid].exp /\ rec[j].exp <= members[rec[j].sid].exp
        BY <2>1 DEF RedisInv, ActiveOK
    <2>4. lin[rec[j].sid].exp > now + 1 /\ members[rec[j].sid].exp > now + 1
        BY <1>1, <1>5, <2>1, <2>2, <2>3
    <2> QED
        BY <1>3, <2>1, <2>2, <2>4
<1>9. ActiveOK'
    BY <1>1, <1>8 DEF RedisInv, ActiveOK
<1>10. OneUsablePerLineage'
    BY <1>8 DEF RedisInv, OneUsablePerLineage, Active
<1>11. FreshSid' = FreshSid
    BY <1>1 DEF FreshSid
<1>12. FreshOK'
    BY <1>1, <1>3, <1>4, <1>11 DEF RedisInv, FreshOK, FreshSid
<1>13. ReusedOK'
    BY <1>1, <1>8 DEF RedisInv, ReusedOK
<1>14. Descent
    <2>1. ASSUME NEW k \in Jti, Usable(k)'
          PROVE  Usable(k) /\ rec'[k].sid = rec[k].sid
        <3>1. Active(k)'
            BY <2>1 DEF Usable, Active
        <3> QED
            BY <1>8, <2>1, <3>1 DEF Usable, Active
    <2> QED
        BY <1>1, <1>3, <1>4, <1>11, <2>1 DEF Descent
<1> QED
    BY <1>6, <1>7, <1>9, <1>10, <1>12, <1>13, <1>14 DEF RedisInv
\* Nothing happens to the keys.
LEMMA QuietStep ==
    ASSUME RedisInv, UNCHANGED <<now, jwt, redisVars, reused>>
    PROVE  RedisInv' /\ Descent
<1>1. RedisInv'
    BY DEF redisVars, RedisInv, RedisTypeOK, RecordsOK, ActiveOK, OneUsablePerLineage,
           FreshOK, ReusedOK, Issued, Active, FreshSid
<1>2. Descent
    BY DEF redisVars, Descent, Usable, Issued, FreshSid
<1> QED
    BY <1>1, <1>2

\* The members of a lineage hold every token of it that is active, so that none is
\* left when all of them are revoked.
LEMMA RotateReusedStep ==
    ASSUME RedisInv, NEW j \in Jti, RotateReused(j), now' = now
    PROVE  RedisInv' /\ Descent
<1> DEFINE s == rec[j].sid
<1>1. /\ rec[j].status = "consumed" /\ UNCHANGED <<now, jwt, members>>
      /\ lin' = [lin EXCEPT ![s] = RevokedLineage(@)]
      /\ rec' = [k \in Jti |-> IF k \in members[s].jtis THEN RevokedRecord(rec[k]) ELSE rec[k]]
      /\ userIndex' = [userIndex EXCEPT ![rec[j].user] = @ \ {s}]
      /\ sessions' = sessions \ {s} /\ reused' = reused \cup {s}
    BY DEF RotateReused
<1>2. Issued(j) /\ s = jwt[j].sid /\ s \in Sid \ FreshSid /\ rec[j].user \in User
    BY <1>1, JwtFacts DEF RedisInv, RecordsOK
<1>3. ASSUME NEW k \in Jti
      PROVE  RevokedRecord(rec[k]) \in Record /\ RevokedRecord(rec[k]).status = "revoked"
    <2>1. rec[k] \in Record
        BY DEF RedisInv, RedisTypeOK
    <2> QED
        BY <2>1, RevokedRecordFacts
<1>4. RevokedLineage(lin[s]) \in Lineage
    <2>1. lin[s] \in Lineage
        BY <1>2 DEF RedisInv, RedisTypeOK
    <2> QED
        BY <2>1, RevokedLineageFacts
<1>5. /\ rec' \in [Jti -> Record]
      /\ \A k \in Jti : rec'[k] = rec[k] \/ rec'[k] = RevokedRecord(rec[k])
    BY <1>1, <1>3 DEF RedisInv, RedisTypeOK
<1>6. /\ lin' \in [Sid -> Lineage]
      /\ \A t \in Sid : lin'[t] = lin[t] \/ (t \notin FreshSid /\ lin'[t] = RevokedLineage(lin[t]))
    <2> HIDE DEF s
    <2> QED
        BY <1>1, <1>2, <1>4 DEF RedisInv, RedisTypeOK
<1>7. /\ userIndex' \in [User -> SUBSET Sid] /\ sessions' \subseteq Sid
      /\ \A v \in User : userIndex[v] \ {s} \subseteq userIndex'[v] /\ userIndex'[v] \subseteq userIndex[v]
      /\ sessions \ {s} \subseteq sessions'
    <2> HIDE DEF s
    <2> QED
        BY <1>1, <1>2 DEF RedisInv, RedisTypeOK
<1>8. \A k \in Jti : Active(k)' => rec'[k].sid # s
    <2>1. ASSUME NEW k \in Jti, Active(k)', rec'[k].sid = s PROVE FALSE
        <3>1. CASE k \in members[s].jtis
            <4>1. rec'[k] = RevokedRecord(rec[k])
                BY <1>1, <3>1
            <4> QED
                BY <1>3, <2>1, <4>1 DEF Active
        <3>2. CASE k \notin members[s].jtis
            <4>1. rec'[k] = rec[k]
                BY <1>1, <3>2
            <4> QED
                BY <2>1, <3>2, <4>1 DEF RedisInv, ActiveOK, Active
        <3> QED
            BY <3>1, <3>2
    <2> QED
        BY <2>1
<1>9. \A k \in Jti : Usable(k)' => rec'[k].sid # s
    BY <1>8 DEF Active, Usable
<1> HIDE DEF s
<1> QED
    BY <1>1, <1>2, <1>5, <1>6, <1>7, <1>8, <1>9, RevokeStep

LEMMA RotateStep ==
    ASSUME RedisInv, NEW j \in Jti, NEW new \in Jti, RotateScript(j, new), now' = now
    PROVE  RedisInv' /\ Descent
<1>1. CASE RotateOk(j, new)
    BY <1>1, RotateOkStep
<1>2. CASE RotateReused(j)
    BY <1>2, RotateReusedStep
<1>3. CASE RotateRefused(j)
    BY <1>3, QuietStep DEF RotateRefused
<1> QED
    BY <1>1, <1>2, <1>3 DEF RotateScript

LEMMA RevokeLineageStep ==
    ASSUME RedisInv, AdminOK, NEW s \in Sid, RevokeLineage(s)
    PROVE  RedisInv' /\ Descent /\ s \in Sid \ FreshSid /\ (Dead(s))'
<1>1. /\ s \in Sid \ FreshSid /\ lin' = [lin EXCEPT ![s] = RevokedLineage(@)]
      /\ UNCHANGED <<now, jwt, rec, members, userIndex, sessions, reused>>
    BY DEF RevokeLineage, AdminOK
<1>2. RevokedLineage(lin[s]) \in Lineage /\ RevokedLineage(lin[s]).status = "revoked"
    <2>1. lin[s] \in Lineage
        BY DEF RedisInv, RedisTypeOK
    <2> QED
        BY <2>1, RevokedLineageFacts
<1>3. /\ lin' \in [Sid -> Lineage] /\ lin'[s].status = "revoked"
      /\ \A t \in Sid : lin'[t] = lin[t] \/ (t \notin FreshSid /\ lin'[t] = RevokedLineage(lin[t]))
    BY <1>1, <1>2 DEF RedisInv, RedisTypeOK
<1>4. (Dead(s))'
    BY <1>3 DEF Dead, Usable
<1>5. /\ rec' \in [Jti -> Record] /\ userIndex' \in [User -> SUBSET Sid] /\ sessions' \subseteq Sid
      /\ \A k \in Jti : rec'[k] = rec[k]
      /\ \A v \in User : userIndex[v] \ {s} \subseteq userIndex'[v] /\ userIndex'[v] \subseteq userIndex[v]
      /\ sessions \ {s} \subseteq sessions'
    BY <1>1 DEF RedisInv, RedisTypeOK
<1>6. RedisInv' /\ Descent
    BY <1>1, <1>3, <1>5, RevokeStep
<1> QED
    BY <1>1, <1>4, <1>6

LEMMA RevokeMemberStep ==
    ASSUME RedisInv, NEW j \in Jti, RevokeMember(j)
    PROVE  RedisInv' /\ Descent
<1>1. /\ rec' = [rec EXCEPT ![j] = RevokedRecord(@)]
      /\ UNCHANGED <<now, jwt, lin, members, userIndex, sessions, reused>>
    BY DEF RevokeMember
<1>2. RevokedRecord(rec[j]) \in Record
    <2>1. rec[j] \in Record
        BY DEF RedisInv, RedisTypeOK
    <2> QED
        BY <2>1, RevokedRecordFacts
<1>3. /\ rec' \in [Jti -> Record]
      /\ \A k \in Jti : rec'[k] = rec[k] \/ rec'[k] = RevokedRecord(rec[k])
    BY <1>1, <1>2 DEF RedisInv, RedisTypeOK
<1>4. /\ lin' \in [Sid -> Lineage] /\ userIndex' \in [User -> SUBSET Sid] /\ sessions' \subseteq Sid
      /\ \A t \in Sid : lin'[t] = lin[t]
      /\ \A v \in User : userIndex[v] \ {None} \subseteq userIndex'[v] /\ userIndex'[v] \subseteq userIndex[v]
      /\ sessions \ {None} \subseteq sessions'
    BY <1>1 DEF RedisInv, RedisTypeOK
<1> QED
    BY <1>1, <1>3, <1>4, RevokeStep

\* The lineage leaves the indexes when its members are revoked.
LEMMA UnlistStep ==
    ASSUME RedisInv, AdminOK, Unlist
    PROVE  RedisInv' /\ Descent
<1> DEFINE s == admin.sid
<1>1. /\ s \in Sid /\ Dead(s) /\ UNCHANGED <<now, jwt, rec, lin, members, reused>>
    BY DEF Unlist, AdminOK
<1>2. /\ userIndex' \in [User -> SUBSET Sid]
      /\ \A v \in User : userIndex[v] \ {s} \subseteq userIndex'[v] /\ userIndex'[v] \subseteq userIndex[v]
    <2>1. userIndex \in [User -> SUBSET Sid]
        BY DEF RedisInv, RedisTypeOK
    <2>2. UNCHANGED userIndex \/ UnlistUser
        BY DEF Unlist
    <2>3. CASE UNCHANGED userIndex
        BY <2>1, <2>3
    <2>4. CASE UnlistUser
        <3>1. CASE UNCHANGED userIndex
            BY <2>1, <3>1
        <3>2. CASE \E j \in admin.read :
                      userIndex' = [u \in User |-> IF rec[j].user = u THEN userIndex[u] \ {s}
                                                   ELSE userIndex[u]]
            BY <2>1, <3>2
        <3> QED
            BY <2>4, <3>1, <3>2 DEF UnlistUser
    <2> QED
        BY <2>2, <2>3, <2>4
<1>3. sessions' \subseteq Sid /\ sessions \ {s} \subseteq sessions'
    BY DEF Unlist, RedisInv, RedisTypeOK
<1>4. \A k \in Jti : Usable(k)' => rec'[k].sid # s
    BY <1>1 DEF Dead, Usable
<1>5. /\ rec' \in [Jti -> Record] /\ lin' \in [Sid -> Lineage]
      /\ \A k \in Jti : rec'[k] = rec[k]
      /\ \A t \in Sid : lin'[t] = lin[t]
    BY <1>1 DEF RedisInv, RedisTypeOK
<1> HIDE DEF s
<1> QED
    BY <1>1, <1>2, <1>3, <1>4, <1>5, RevokeStep

\* Every step of the system is one of these for Redis.
LEMMA RedisStep ==
    ASSUME TokenIInv, [TokenNext]_tokenVars
    PROVE  RedisInv' /\ Descent
<1> USE DEF TokenIInv
<1>1. CASE UNCHANGED tokenVars
    BY <1>1, QuietStep DEF tokenVars
<1>2. ASSUME NEW j \in Jti, NEW s \in Sid, NEW u \in User, Login(j, s, u)
      PROVE  RedisInv' /\ Descent
    BY <1>2, LoginStep
<1>3. ASSUME NEW h \in Handler, NEW j \in Jti, Rotate(h, j)
      PROVE  RedisInv' /\ Descent
    <2>1. call[h].jti \in Jti /\ now' = now
        BY <1>3 DEF Rotate, CallsOK
    <2>2. \/ RotateScript(call[h].jti, j)
          \/ UNCHANGED <<jwt, redisVars, reused>>
        BY <1>3 DEF Rotate
    <2> QED
        BY <2>1, <2>2, RotateStep, QuietStep
<1>4. ASSUME NEW h \in Handler,
             \/ \E j \in Jti : Present(h, j)
             \/ AcquireLock(h) \/ Respond(h) \/ ReleaseLock(h) \/ HandlerCrash(h)
      PROVE  RedisInv' /\ Descent
    <2>1. UNCHANGED <<now, jwt, redisVars, reused>>
        BY <1>4 DEF Present, AcquireLock, Respond, ReleaseLock, HandlerCrash
    <2> QED
        BY <2>1, QuietStep
<1>5. ASSUME \/ \E j \in Jti : LockExpires(j)
             \/ \E s \in Sid : RevokeSession(s)
             \/ \E u \in User : RevokeUserSessions(u)
             \/ ReadMembers \/ RevocationDone \/ RevocationFails
      PROVE  RedisInv' /\ Descent
    <2>1. UNCHANGED <<now, jwt, redisVars, reused>>
        BY <1>5 DEF LockExpires, RevokeSession, RevokeUserSessions, ReadMembers,
                    RevocationDone, RevocationFails
    <2> QED
        BY <2>1, QuietStep
<1> QED
    BY <1>1, <1>2, <1>3, <1>4, <1>5, RevokeLineageStep, RevokeMemberStep, UnlistStep,
       TickStep DEF TokenNext

----------------------------------------------------------------------------
(* The calls and the admin *)

LEMMA DeadStays ==
    ASSUME RedisInv, Descent, NEW s \in Sid \ FreshSid, Dead(s)
    PROVE  s \notin FreshSid' /\ (Dead(s))'
<1>1. s \notin FreshSid'
    BY DEF Descent
<1>2. ASSUME NEW k \in Jti, Usable(k)', rec'[k].sid = s PROVE FALSE
    BY <1>2 DEF Descent, Dead
<1> QED
    BY <1>1, <1>2 DEF Dead

LEMMA CallsStep ==
    ASSUME TokenIInv, [TokenNext]_tokenVars, Descent
    PROVE  CallsOK'
<1> USE DEF Call
<1>1. \A j \in Jti : Issued(j) => Issued(j)'
    BY DEF Descent, Issued, NoJwt
<1>2. CASE call' = call
    BY <1>1, <1>2 DEF TokenIInv, CallsOK, Issued
<1>3. ASSUME NEW h \in Handler, NEW c,
             call' = [call EXCEPT ![h] = c],
             c \in Call,
             c.pc # "idle" => c.jti \in Jti /\ Issued(c.jti),
             c.pc = "rotated" => c.new \in Jti
      PROVE  CallsOK'
    BY <1>1, <1>3 DEF TokenIInv, CallsOK, Issued
<1>4. ASSUME NEW h \in Handler
      PROVE  /\ NoCall \in Call
             /\ NoCall.pc = "idle"
             /\ Return(h) => CallsOK'
    <2>1. /\ NoCall \in Call
          /\ NoCall.pc = "idle"
        BY DEF NoCall
    <2> HIDE DEF NoCall
    <2> QED
        BY <1>3, <2>1 DEF Return
<1>5. ASSUME NEW h \in Handler, NEW j \in Jti, Present(h, j)
      PROVE  CallsOK'
    <2> DEFINE c == [NoCall EXCEPT !.pc = "validated", !.jti = j]
    <2>1. call' = [call EXCEPT ![h] = c] /\ now < jwt[j].exp
        BY <1>5 DEF Present
    <2>2. Issued(j)
        BY <2>1, JwtFacts DEF TokenIInv, RedisInv, RedisTypeOK
    <2>3. /\ c \in Call
          /\ c.pc = "validated" /\ c.jti = j
        BY DEF NoCall
    <2> HIDE DEF c
    <2> QED
        BY <1>3, <2>1, <2>2, <2>3
<1>6. ASSUME NEW h \in Handler, AcquireLock(h)
      PROVE  CallsOK'
    <2>1. \/ call' = [call EXCEPT ![h] = [call[h] EXCEPT !.pc = "locked"]] \/ Return(h)
        BY <1>6 DEF AcquireLock, TokenIInv, CallsOK
    <2>2. /\ [call[h] EXCEPT !.pc = "locked"] \in Call
          /\ call[h].jti \in Jti /\ Issued(call[h].jti)
        BY <1>6 DEF AcquireLock, TokenIInv, CallsOK
    <2> QED
        BY <1>3, <1>4, <2>1, <2>2
<1>7. ASSUME NEW h \in Handler, NEW out \in {"dependency", "ok"} \cup {call[h].out},
             call[h].pc # "idle", Answer(h, out)
      PROVE  CallsOK'
    <2>1. call' = [call EXCEPT ![h] = [call[h] EXCEPT !.pc = "releasing", !.out = out]]
        BY <1>7 DEF Answer, TokenIInv, CallsOK
    <2>2. /\ [call[h] EXCEPT !.pc = "releasing", !.out = out] \in Call
          /\ call[h].jti \in Jti /\ Issued(call[h].jti)
        BY <1>7 DEF TokenIInv, CallsOK
    <2> QED
        BY <1>3, <2>1, <2>2
<1>8. ASSUME NEW h \in Handler, NEW j \in Jti, Rotate(h, j)
      PROVE  CallsOK'
    <2> DEFINE out == Outcome(call[h].jti)
               c == [call[h] EXCEPT !.pc = IF out = "ok" THEN "rotated" ELSE "releasing",
                                    !.new = IF out = "ok" THEN j ELSE None,
                                    !.out = out]
    <2>1. call[h].pc = "locked"
        BY <1>8 DEF Rotate
    <2>2. call' = [call EXCEPT ![h] = c] \/ Answer(h, "dependency")
        BY <1>8 DEF Rotate, TokenIInv, CallsOK
    <2>3. out \in {"not_found", "reused", "ok", "revoked"}
        BY DEF Outcome
    <2> HIDE DEF out
    <2>4. /\ c \in Call
          /\ c.jti \in Jti /\ Issued(c.jti) /\ (c.pc = "rotated" => c.new \in Jti)
        BY <2>1, <2>3 DEF TokenIInv, CallsOK
    <2> HIDE DEF c
    <2> QED
        BY <1>3, <1>7, <2>1, <2>2, <2>4
<1>9. ASSUME NEW h \in Handler, Respond(h)
      PROVE  CallsOK'
    BY <1>7, <1>9 DEF Respond
<1>10. ASSUME NEW h \in Handler, ReleaseLock(h) \/ HandlerCrash(h)
       PROVE  CallsOK'
    BY <1>4, <1>10 DEF ReleaseLock, HandlerCrash
<1>11. ASSUME \/ \E j \in Jti, s \in Sid, u \in User : Login(j, s, u)
              \/ \E j \in Jti : LockExpires(j) \/ RevokeMember(j)
              \/ \E s \in Sid : RevokeSession(s) \/ RevokeLineage(s)
              \/ \E u \in User : RevokeUserSessions(u)
              \/ ReadMembers \/ Unlist \/ RevocationDone \/ RevocationFails
              \/ Tick \/ UNCHANGED tokenVars
       PROVE  call' = call
    BY <1>11 DEF Login, LockExpires, RevokeMember, RevokeSession, RevokeLineage,
                 RevokeUserSessions, ReadMembers, Unlist, RevocationDone, RevocationFails,
                 Tick, tokenVars
<1> QED
    BY <1>2, <1>5, <1>6, <1>8, <1>9, <1>10, <1>11 DEF TokenNext

LEMMA AdminStep ==
    ASSUME TokenIInv, [TokenNext]_tokenVars, Descent
    PROVE  AdminOK'
<1> USE DEF Revocation
<1>1. CASE admin' = admin
    <2>1. admin.queue \cap FreshSid' = {}
        BY DEF TokenIInv, AdminOK, Descent
    <2>2. admin.pc \in {"members", "tokens"} =>
              admin.sid \in Sid \ FreshSid' /\ (Dead(admin.sid))'
        BY <1>1, DeadStays DEF TokenIInv, AdminOK, Dead
    <2> QED
        BY <1>1, <2>1, <2>2 DEF TokenIInv, AdminOK, Dead
<1>2. NoAdmin.pc = "idle" /\ NoAdmin \in Revocation /\ NoAdmin.queue = {}
    BY DEF NoAdmin
<1>3. CASE RevocationDone \/ RevocationFails
    <2>1. admin' = NoAdmin
        BY <1>3 DEF RevocationDone, RevocationFails
    <2> HIDE DEF NoAdmin
    <2> QED
        BY <1>2, <2>1 DEF AdminOK
<1>4. ASSUME NEW s \in Sid, RevokeSession(s)
      PROVE  AdminOK'
    <2>1. FreshSid' = FreshSid /\ s \notin FreshSid
          /\ admin' = [NoAdmin EXCEPT !.pc = "next", !.queue = {s}]
        BY <1>4 DEF RevokeSession, FreshSid
    <2> QED
        BY <2>1 DEF AdminOK, NoAdmin
<1>5. ASSUME NEW u \in User, RevokeUserSessions(u)
      PROVE  AdminOK'
    <2>1. FreshSid' = FreshSid /\ userIndex[u] \in SUBSET (Sid \ FreshSid)
        BY <1>5 DEF RevokeUserSessions, FreshSid, TokenIInv, RedisInv, RedisTypeOK, FreshOK
    <2>2. PICK first \in [Sid -> Jti] :
              admin' = [NoAdmin EXCEPT
                         !.pc = "next", !.user = u, !.found = userIndex[u],
                         !.queue = {s \in userIndex[u] : Listed(s, first)}]
        BY <1>5 DEF RevokeUserSessions
    <2> QED
        BY <2>1, <2>2 DEF AdminOK, NoAdmin
<1>6. ASSUME NEW s \in Sid, RevokeLineage(s)
      PROVE  AdminOK'
    <2>1. s \in Sid \ FreshSid /\ (Dead(s))' /\ FreshSid' = FreshSid
        BY <1>6, RevokeLineageStep DEF TokenIInv, RevokeLineage, FreshSid
    <2>2. admin' = [admin EXCEPT !.pc = "members", !.sid = s, !.queue = @ \ {s}]
        BY <1>6 DEF RevokeLineage
    <2>3. admin'.sid = s /\ admin'.queue \subseteq admin.queue
          /\ admin' \in Revocation
        BY <2>2 DEF TokenIInv, AdminOK
    <2> QED
        BY <2>1, <2>3 DEF TokenIInv, AdminOK, Dead
<1>7. CASE ReadMembers \/ \E j \in Jti : RevokeMember(j)
    <2>1. /\ admin' \in Revocation
          /\ admin.pc \in {"members", "tokens"} /\ admin'.sid = admin.sid
          /\ admin'.queue = admin.queue
        <3>1. CASE ReadMembers
            <4>1. members[admin.sid].jtis \in SUBSET Jti
                BY <3>1 DEF ReadMembers, TokenIInv, AdminOK, RedisInv, RedisTypeOK, Members
            <4> QED
                BY <3>1, <4>1 DEF ReadMembers, TokenIInv, AdminOK
        <3>2. CASE \E j \in Jti : RevokeMember(j)
            BY <3>2 DEF RevokeMember, TokenIInv, AdminOK
        <3> QED
            BY <1>7, <3>1, <3>2
    <2>2. PICK s \in Sid \ FreshSid : s = admin.sid /\ Dead(s)
        BY <2>1 DEF TokenIInv, AdminOK
    <2>3. s \notin FreshSid' /\ (Dead(s))'
        BY <2>2, DeadStays DEF TokenIInv
    <2>4. admin'.queue \cap FreshSid' = {}
        BY <2>1 DEF TokenIInv, AdminOK, Descent
    <2> QED
        BY <2>1, <2>2, <2>3, <2>4 DEF AdminOK, Dead
<1>8. CASE Unlist
    <2>1. FreshSid' = FreshSid
          /\ admin' = [admin EXCEPT !.pc = "next", !.sid = None, !.read = {}]
        BY <1>8 DEF Unlist, FreshSid
    <2>2. admin'.pc = "next" /\ admin'.queue = admin.queue
          /\ admin' \in Revocation
        BY <2>1 DEF TokenIInv, AdminOK
    <2> QED
        BY <2>1, <2>2 DEF TokenIInv, AdminOK
<1>9. ASSUME \/ \E j \in Jti, s \in Sid, u \in User : Login(j, s, u)
             \/ \E h \in Handler :
                   \/ \E j \in Jti : Present(h, j) \/ Rotate(h, j)
                   \/ AcquireLock(h) \/ Respond(h) \/ ReleaseLock(h) \/ HandlerCrash(h)
             \/ \E j \in Jti : LockExpires(j)
             \/ Tick \/ UNCHANGED tokenVars
      PROVE  admin' = admin
    BY <1>9 DEF Login, Present, Rotate, AcquireLock, Respond, ReleaseLock, HandlerCrash,
                LockExpires, Tick, tokenVars
<1> QED
    BY <1>1, <1>3, <1>4, <1>5, <1>6, <1>7, <1>8, <1>9 DEF TokenNext

LEMMA OthersStep ==
    ASSUME TokenIInv, [TokenNext]_tokenVars
    PROVE  OthersOK'
<1> USE DEF TokenIInv, OthersOK
<1>1. \A j \in Jti : Issued(j) => jwt[j].sid \in Sid
    BY JwtFacts DEF RedisInv
<1>2. \A h \in Handler : call[h].pc # "idle" =>
          call[h].jti \in Jti /\ jwt[call[h].jti].sid \in Sid
    BY <1>1 DEF CallsOK
<1>3. \A kind : Fault(kind) => faults' \in 0..MaxFaults
    BY RefreshConstants DEF Fault
<1>4. ASSUME NEW j \in Jti, NEW s \in Sid, NEW u \in User, Login(j, s, u)
      PROVE  OthersOK'
    BY <1>3, <1>4 DEF Login
<1>5. ASSUME NEW h \in Handler, NEW j \in Jti, Present(h, j)
      PROVE  OthersOK'
    <2>1. jwt[j].sid \in Sid
        BY <1>5, <1>1, JwtFacts DEF Present, RedisInv, RedisTypeOK
    <2> QED
        BY <1>5, <2>1 DEF Present, Disturb
<1>6. ASSUME NEW h \in Handler, NEW j \in Jti, Rotate(h, j)
      PROVE  OthersOK'
    BY <1>2, <1>3, <1>6 DEF Rotate, Disturb
<1>7. ASSUME NEW h \in Handler, AcquireLock(h)
      PROVE  OthersOK'
    BY <1>2, <1>3, <1>7 DEF AcquireLock, Disturb
<1>8. ASSUME NEW h \in Handler, Respond(h)
      PROVE  OthersOK'
    <2>1. call[h].new \in Jti
        BY <1>8 DEF Respond, CallsOK
    <2> QED
        BY <1>2, <1>3, <1>8, <2>1 DEF Respond, Disturb
<1>9. ASSUME NEW h \in Handler, ReleaseLock(h) \/ HandlerCrash(h)
      PROVE  OthersOK'
    BY <1>2, <1>3, <1>9 DEF ReleaseLock, HandlerCrash, Disturb
<1>10. CASE \/ \E j \in Jti : LockExpires(j) \/ RevokeMember(j)
            \/ \E s \in Sid : RevokeSession(s) \/ RevokeLineage(s)
            \/ \E u \in User : RevokeUserSessions(u)
            \/ ReadMembers \/ RevocationDone \/ Tick \/ UNCHANGED tokenVars
    BY <1>10 DEF LockExpires, RevokeMember, RevokeSession, RevokeLineage, Disturb,
                 RevokeUserSessions, ReadMembers, RevocationDone, Tick, tokenVars
<1>11. CASE Unlist \/ RevocationFails
    BY <1>3, <1>11 DEF Unlist, RevocationFails
<1> QED
    BY <1>4, <1>5, <1>6, <1>7, <1>8, <1>9, <1>10, <1>11 DEF TokenNext

----------------------------------------------------------------------------
(* Theorems *)

LEMMA InitOK == TokenInit => TokenIInv
<1> SUFFICES ASSUME TokenInit
             PROVE  TokenIInv
    OBVIOUS
<1> USE RefreshConstants DEF TokenInit
<1>1. \A j \in Jti : rec[j].status = "none" /\ jwt[j].exp = 0 /\ ~Issued(j)
    BY DEF NoRecord, NoJwt, Issued
<1>2. RedisTypeOK
    BY <1>1 DEF RedisTypeOK, NoRecord, NoLineage, NoMembers, Record, Lineage, Members, Never
<1>3. RecordsOK /\ ActiveOK /\ OneUsablePerLineage /\ ReusedOK
    BY <1>1 DEF RecordsOK, ActiveOK, OneUsablePerLineage, ReusedOK, Active
<1>4. FreshOK
    BY DEF FreshOK, FreshSid, NoLineage
<1>5. CallsOK /\ AdminOK /\ OthersOK
    BY DEF CallsOK, Call, NoCall, AdminOK, Revocation, NoAdmin, OthersOK
<1> QED
    BY <1>2, <1>3, <1>4, <1>5 DEF TokenIInv, RedisInv

LEMMA NextOK ==
    ASSUME TokenIInv, [TokenNext]_tokenVars
    PROVE  TokenIInv' /\ Descent
BY RedisStep, CallsStep, AdminStep, OthersStep DEF TokenIInv

\* In every behaviour the keys of Redis fit each other, and what a call and the
\* admin's revocation hold fits the keys.
THEOREM TokenInvariant == TokenSpec => []TokenIInv
BY InitOK, NextOK, PTL DEF TokenSpec

\* Every variable has its type, and no record of a token issued or exchanged stays
\* longer than a TTL (NewRecord and Consumed, the PEXPIRE of both scripts).
THEOREM TokensTyped == TokenSpec => []TokenTypeOK
<1>1. TokenIInv => TokenTypeOK
    BY DEF TokenIInv, RedisInv, RedisTypeOK, CallsOK, Call, AdminOK, Revocation,
           OthersOK, TokenTypeOK
<1> QED
    BY <1>1, TokenInvariant, PTL

\* Refresh tokens are single-use: at most one token of a lineage can be exchanged,
\* whatever handlers race, locks expire or replies are lost (RotateScript).
THEOREM SingleUse == TokenSpec => []OneUsablePerLineage
<1>1. TokenIInv => OneUsablePerLineage
    BY DEF TokenIInv, RedisInv
<1> QED
    BY <1>1, TokenInvariant, PTL

\* The replay of a consumed token leaves no token of its lineage that can be
\* exchanged, then or ever after (RotateReused).
THEOREM ReuseIsFatal == TokenSpec => []ReuseKillsLineage
<1>1. TokenIInv => ReuseKillsLineage
    BY DEF TokenIInv, RedisInv, ReusedOK, ReuseKillsLineage, Usable, Active
<1> QED
    BY <1>1, TokenInvariant, PTL

\* A token whose JWT is valid is on record, so that its replay is recognised: no key
\* expires before the JWT that needs it (Consumed, Tick).
THEOREM ReplayIsRecognised == TokenSpec => []ValidTokenIsOnRecord
<1>1. TokenIInv => ValidTokenIsOnRecord
    BY DEF TokenIInv, RedisInv, RecordsOK, ValidTokenIsOnRecord
<1> QED
    BY <1>1, TokenInvariant, PTL

\* The indexes and the members list whatever can be exchanged (Enlist, and the order
\* in which RevokeLineage revokes before it removes).
THEOREM SessionsInSight == TokenSpec => []UsableIsListed
<1>1. TokenIInv => UsableIsListed
    BY DEF TokenIInv, RedisInv, ActiveOK, UsableIsListed, Usable, Active
<1> QED
    BY <1>1, TokenInvariant, PTL

\* A revoked lineage does not come back, and a token that cannot be exchanged never
\* can again: what can be exchanged comes of a login or of what could be exchanged
\* before (Descent), though the marker of a revoked lineage expires.
THEOREM NothingComesBack == TokenSpec => RevocationIsFinal
<1>1. TokenIInv /\ [TokenNext]_tokenVars =>
          [/\ \A s \in Sid : lin[s].status = "revoked" => lin'[s].status # "active"
           /\ \A j \in Jti : jwt[j] # NoJwt /\ ~Usable(j) => ~Usable(j)']_tokenVars
    <2> SUFFICES ASSUME TokenIInv, [TokenNext]_tokenVars
                 PROVE  /\ \A s \in Sid : lin[s].status = "revoked" => lin'[s].status # "active"
                        /\ \A j \in Jti : jwt[j] # NoJwt /\ ~Usable(j) => ~Usable(j)'
        OBVIOUS
    <2>1. Descent
        BY NextOK
    <2> QED
        BY <2>1 DEF Descent, Issued
<1> QED
    BY <1>1, TokenInvariant, PTL DEF TokenSpec, RevocationIsFinal

----------------------------------------------------------------------------
(* Calm sessions *)

\* What the browser, the calls and the admin hold of a lineage is of that lineage,
\* and the lineage whose tokens the admin revokes one by one is disturbed.
BelongOK ==
    /\ \A s \in Sid : \A j \in members[s].jtis : jwt[j].sid = s
    /\ \A s \in Sid : cookie[s] # None => jwt[cookie[s]].sid = s
    /\ \A h \in Handler : call[h].pc = "rotated" => jwt[call[h].new].sid = jwt[call[h].jti].sid
    /\ admin.pc \in {"members", "tokens"} => admin.sid \in disturbed
    /\ admin.pc = "tokens" => \A j \in admin.todo : jwt[j].sid = admin.sid

Working(h, s) == call[h].pc \in {"validated", "locked", "rotated"} /\ jwt[call[h].jti].sid = s

\* A token that can be exchanged for as long as its JWT is valid.
Good(j) == now < jwt[j].exp => Usable(j)

\* One call at a time works on a calm lineage, and on the browser's token. Once it
\* has exchanged that, the new one is good, and before that the browser's is.
CalmOK(s) ==
    s \notin disturbed =>
        /\ \A h \in Handler : Working(h, s) =>
              /\ call[h].jti = cookie[s]
              /\ \A g \in Handler : Working(g, s) => g = h
              /\ call[h].pc = "rotated" => Good(call[h].new)
        /\ cookie[s] # None /\ (\A h \in Handler : Working(h, s) => call[h].pc # "rotated")
              => Good(cookie[s])

CalmSessions == \A s \in Sid : CalmOK(s)

CalmInv == BelongOK /\ CalmSessions

\* The lineage of a call, and the tokens it and the browser may rely on.
LEMMA CallFacts ==
    ASSUME TokenIInv, NEW h \in Handler, call[h].pc # "idle"
    PROVE  /\ call[h].jti \in Jti /\ Issued(call[h].jti)
           /\ jwt[call[h].jti].sid \in Sid /\ jwt[call[h].jti].sid \notin FreshSid
           /\ jwt[call[h].jti].user \in User
           /\ call[h].pc = "rotated" => call[h].new \in Jti
BY JwtFacts DEF TokenIInv, CallsOK, RedisInv

LEMMA CookieFacts ==
    ASSUME TokenIInv, BelongOK, NEW s \in Sid, cookie[s] # None
    PROVE  cookie[s] \in Jti /\ jwt[cookie[s]].sid = s /\ Issued(cookie[s])
<1>1. cookie[s] \in Jti /\ jwt[cookie[s]].sid = s
    BY DEF TokenIInv, OthersOK, BelongOK
<1> QED
    BY <1>1, RefreshConstants DEF Issued, NoJwt

\* A step that leaves the keys of a lineage alone leaves its good tokens good.
LEMMA SparedStaysGood ==
    ASSUME TokenIInv, NEW s \in Sid, NEW j \in Jti, jwt[j].sid = s,
           now' = now, lin'[s] = lin[s], rec'[j] = rec[j], jwt'[j] = jwt[j], Good(j)
    PROVE  Good(j)'
<1>1. rec[j].status = "active" => rec[j].sid = s
    BY DEF TokenIInv, RedisInv, RecordsOK
<1> QED
    BY <1>1 DEF Good, Usable

LEMMA TickStaysGood ==
    ASSUME TokenIInv, Tick, NEW j \in Jti, Good(j)
    PROVE  Good(j)'
<1>1. /\ now \in Nat /\ now' = now + 1 /\ jwt' = jwt
      /\ rec'[j] = IF rec[j].exp > now + 1 THEN rec[j] ELSE NoRecord
      /\ \A s \in Sid : lin'[s] = IF lin[s].exp > now + 1 THEN lin[s] ELSE NoLineage
    BY DEF Tick, TokenIInv, RedisInv, RedisTypeOK
<1>2. jwt[j].exp \in Nat
    BY JwtFacts, RefreshConstants DEF TokenIInv, RedisInv
<1>3. SUFFICES ASSUME now' < jwt[j].exp
               PROVE  Usable(j)'
    BY <1>1 DEF Good
<1>4. Usable(j) /\ rec[j].exp >= jwt[j].exp /\ rec[j].exp \in Nat
    BY <1>1, <1>2, <1>3 DEF Good, TokenIInv, RedisInv, RedisTypeOK, RecordsOK, Record
<1>5. /\ rec[j].sid \in Sid /\ rec[j].exp <= lin[rec[j].sid].exp
      /\ lin[rec[j].sid].exp \in Nat
    <2>1. Active(j)
        BY <1>4 DEF Usable, Active
    <2>2. rec[j].sid \in Sid
        BY <2>1, JwtFacts DEF Active, TokenIInv, RedisInv, RecordsOK
    <2> QED
        BY <2>1, <2>2 DEF TokenIInv, RedisInv, RedisTypeOK, ActiveOK, Lineage
<1>6. rec'[j] = rec[j] /\ lin'[rec[j].sid] = lin[rec[j].sid]
    BY <1>1, <1>2, <1>3, <1>4, <1>5
<1> QED
    BY <1>4, <1>6 DEF Usable

\* What a step may do to a lineage without the calls that work on it noticing.
LEMMA CalmIsKept ==
    ASSUME NEW s \in Sid, CalmOK(s), disturbed \subseteq disturbed', cookie'[s] = cookie[s],
           \A h \in Handler : Working(h, s)' =>
               /\ Working(h, s) /\ call'[h].jti = call[h].jti
               /\ call'[h].pc = "rotated" => call[h].pc = "rotated" /\ call'[h].new = call[h].new,
           \A h \in Handler : Working(h, s) /\ call[h].pc = "rotated" =>
               Working(h, s)' /\ call'[h].pc = "rotated",
           cookie[s] # None /\ Good(cookie[s]) => cookie[s] \in Jti,
           \A h \in Handler : Working(h, s) /\ call[h].pc = "rotated" => call[h].new \in Jti,
           \A j \in Jti : Good(j) /\ (j = cookie[s] \/ \E h \in Handler :
                   Working(h, s) /\ call[h].pc = "rotated" /\ j = call[h].new)
               => Good(j)'
    PROVE  CalmOK(s)'
<1>1. SUFFICES ASSUME s \notin disturbed'
               PROVE  /\ \A h \in Handler : Working(h, s)' =>
                            /\ call'[h].jti = cookie'[s]
                            /\ \A g \in Handler : Working(g, s)' => g = h
                            /\ call'[h].pc = "rotated" => Good(call[h].new)'
                      /\ cookie'[s] # None
                           /\ (\A h \in Handler : Working(h, s)' => call'[h].pc # "rotated")
                            => Good(cookie[s])'
    BY DEF CalmOK
<1>2. s \notin disturbed
    BY <1>1
<1>3. ASSUME NEW h \in Handler, Working(h, s)'
      PROVE  /\ call'[h].jti = cookie'[s]
             /\ \A g \in Handler : Working(g, s)' => g = h
             /\ call'[h].pc = "rotated" => Good(call[h].new)'
    <2>1. Working(h, s) /\ call'[h].jti = call[h].jti /\ call[h].jti = cookie[s]
        BY <1>2, <1>3 DEF CalmOK
    <2>2. \A g \in Handler : Working(g, s)' => g = h
        BY <1>2, <2>1 DEF CalmOK
    <2>3. ASSUME call'[h].pc = "rotated"
          PROVE  Good(call[h].new)'
        <3>1. PICK j \in Jti : j = call[h].new
            BY <1>3, <2>3
        <3>2. j = call'[h].new /\ Good(j)
            BY <1>2, <1>3, <2>1, <2>3, <3>1 DEF CalmOK
        <3>3. Good(j)'
            BY <1>3, <2>1, <2>3, <3>1, <3>2
        <3> QED
            BY <3>2, <3>3 DEF Good, Usable
    <2> QED
        BY <2>1, <2>2, <2>3
<1>4. ASSUME cookie'[s] # None,
             \A h \in Handler : Working(h, s)' => call'[h].pc # "rotated"
      PROVE  Good(cookie[s])'
    <2>1. \A h \in Handler : Working(h, s) => call[h].pc # "rotated"
        BY <1>4
    <2>2. PICK j \in Jti : j = cookie[s]
        BY <1>2, <1>4, <2>1 DEF CalmOK
    <2>3. Good(j) /\ cookie'[s] = j
        BY <1>2, <1>4, <2>1, <2>2 DEF CalmOK
    <2>4. Good(j)'
        BY <2>2, <2>3
    <2> QED
        BY <2>3, <2>4 DEF Good, Usable
<1> QED
    BY <1>3, <1>4

\* The same, for a step that changes no key of the lineage, and no call but one
\* that goes on or ends before it has exchanged anything.
LEMMA CalmIsSpared ==
    ASSUME TokenIInv, BelongOK, NEW s \in Sid, CalmOK(s),
           disturbed \subseteq disturbed', cookie'[s] = cookie[s], now' = now,
           lin'[s] = lin[s],
           \A j \in Jti : Issued(j) => jwt'[j] = jwt[j],
           \A j \in Jti : jwt[j].sid = s => rec'[j] = rec[j],
           \A h \in Handler :
               \/ call'[h] = call[h]
               \/ ~(Working(h, s) \/ Working(h, s)')
               \/ /\ call[h].pc \in {"validated", "locked"} /\ call'[h].pc # "rotated"
                  /\ call'[h].pc \in {"validated", "locked"} => call'[h].jti = call[h].jti
    PROVE  CalmOK(s)'
<1>1. \A h \in Handler : call[h].pc # "idle" =>
          call[h].jti \in Jti /\ jwt'[call[h].jti] = jwt[call[h].jti]
    BY CallFacts
<1>2. \A h \in Handler : call'[h] = call[h] => (Working(h, s)' <=> Working(h, s))
    BY <1>1 DEF Working
<1>3. ASSUME NEW h \in Handler, Working(h, s)'
      PROVE  /\ Working(h, s) /\ call'[h].jti = call[h].jti
             /\ call'[h].pc = "rotated" => call[h].pc = "rotated" /\ call'[h].new = call[h].new
    <2>1. CASE call'[h] = call[h]
        BY <1>2, <1>3, <2>1
    <2>2. CASE /\ call[h].pc \in {"validated", "locked"} /\ call'[h].pc # "rotated"
               /\ call'[h].pc \in {"validated", "locked"} => call'[h].jti = call[h].jti
        <3>1. call'[h].pc \in {"validated", "locked"}
            BY <1>3, <2>2 DEF Working
        <3> QED
            BY <1>1, <1>3, <2>2, <3>1 DEF Working
    <2> QED
        BY <1>3, <2>1, <2>2
<1>4. ASSUME NEW h \in Handler, Working(h, s), call[h].pc = "rotated"
      PROVE  Working(h, s)' /\ call'[h].pc = "rotated" /\ call[h].new \in Jti
    BY <1>2, <1>4, CallFacts DEF Working
<1>5. ASSUME NEW j \in Jti, Good(j),
             j = cookie[s] \/ \E h \in Handler :
                 Working(h, s) /\ call[h].pc = "rotated" /\ j = call[h].new
      PROVE  Good(j)'
    <2>1. jwt[j].sid = s
        BY <1>5, RefreshConstants DEF BelongOK, Working
    <2>2. Issued(j)
        BY <2>1, RefreshConstants DEF Issued, NoJwt
    <2> QED
        BY <1>5, <2>1, <2>2, SparedStaysGood
<1>6. cookie[s] # None => cookie[s] \in Jti
    BY CookieFacts
<1> QED
    BY <1>3, <1>4, <1>5, <1>6, CalmIsKept

\* The login of a lineage.
LEMMA CalmLogin ==
    ASSUME TokenIInv, BelongOK, CalmSessions, NEW j \in Jti, NEW t \in Sid, NEW u \in User,
           Login(j, t, u)
    PROVE  CalmSessions'
<1>1. /\ ~Issued(j) /\ t \in FreshSid /\ UNCHANGED <<now, call, disturbed>>
      /\ jwt' = [jwt EXCEPT ![j] = [sid |-> t, user |-> u, exp |-> now + TTL]]
      /\ lin' = [lin EXCEPT ![t] = [status |-> "active", exp |-> now + TTL]]
      /\ rec' = [rec EXCEPT ![j] = NewRecord(t, u)]
      /\ cookie' = [cookie EXCEPT ![t] = j] \/ cookie' = cookie
    BY DEF Login, Activate, FreshJti, Issued
<1>2. ~Issued(j) => jwt[j].sid = None
    BY DEF Issued, NoJwt
<1>3. ASSUME NEW s \in Sid, s # t
      PROVE  CalmOK(s)'
    <2>1. /\ cookie'[s] = cookie[s] /\ lin'[s] = lin[s]
          /\ \A k \in Jti : Issued(k) => jwt'[k] = jwt[k]
          /\ \A k \in Jti : jwt[k].sid = s => rec'[k] = rec[k]
        BY <1>1, <1>2, <1>3, RefreshConstants DEF TokenIInv, RedisInv, RedisTypeOK, OthersOK
    <2> QED
        BY <1>1, <2>1, CalmIsSpared DEF CalmSessions
<1>4. CalmOK(t)'
    <2>1. ASSUME NEW h \in Handler PROVE ~Working(h, t)'
        <3>1. call[h].pc # "idle" => jwt'[call[h].jti].sid # t
            BY <1>1, CallFacts DEF TokenIInv, RedisInv, RedisTypeOK
        <3> QED
            BY <1>1, <3>1 DEF Working
    <2>2. cookie[t] = None
        BY <1>1, CookieFacts DEF FreshSid
    <2>3. cookie'[t] = None \/ cookie'[t] = j
        BY <1>1, <2>2 DEF TokenIInv, OthersOK
    <2>4. (Usable(j))'
        <3>1. rec'[j] = NewRecord(t, u) /\ lin'[t].status = "active"
            BY <1>1 DEF TokenIInv, RedisInv, RedisTypeOK
        <3> QED
            BY <3>1 DEF Usable, NewRecord
    <2> QED
        BY <2>1, <2>3, <2>4 DEF CalmOK, Good, Usable
<1> QED
    BY <1>3, <1>4 DEF CalmSessions

\* A request arrives: on a calm lineage it is the only one, with the browser's token.
LEMMA CalmPresent ==
    ASSUME TokenIInv, BelongOK, CalmSessions, NEW h \in Handler, NEW j \in Jti, Present(h, j)
    PROVE  CalmSessions'
<1>1. /\ call[h].pc = "idle" /\ UNCHANGED <<now, jwt, rec, lin, cookie>>
      /\ call' = [call EXCEPT ![h] = [NoCall EXCEPT !.pc = "validated", !.jti = j]]
      /\ disturbed \subseteq disturbed'
      /\ jwt[j].sid \notin disturbed' => cookie[jwt[j].sid] = j /\ ~Busy(jwt[j].sid)
    BY DEF Present, redisVars, Disturb
<1>2. /\ call'[h].pc = "validated" /\ call'[h].jti = j
      /\ \A g \in Handler : g # h => call'[g] = call[g]
    BY <1>1 DEF NoCall, TokenIInv, CallsOK
<1>3. ASSUME NEW s \in Sid, s # jwt[j].sid
      PROVE  CalmOK(s)'
    <2>1. \A g \in Handler : call'[g] = call[g] \/ ~(Working(g, s) \/ Working(g, s)')
        BY <1>1, <1>2, <1>3 DEF Working
    <2> QED
        BY <1>1, <2>1, CalmIsSpared DEF CalmSessions
<1>4. ASSUME NEW s \in Sid, s = jwt[j].sid, s \notin disturbed'
      PROVE  CalmOK(s)'
    <2>1. cookie[s] = j /\ \A g \in Handler : ~Working(g, s)
        BY <1>1, <1>4 DEF Busy, Working
    <2>2. Good(j)
        BY <1>1, <1>4, <2>1, RefreshConstants DEF CalmSessions, CalmOK
    <2>3. \A g \in Handler : Working(g, s)' => g = h
        BY <1>1, <1>2, <2>1 DEF Working
    <2>4. Good(j)'
        BY <1>1, <2>2 DEF Good, Usable
    <2>5. cookie'[s] = j
        BY <1>1, <2>1
    <2> QED
        BY <1>2, <2>3, <2>4, <2>5 DEF CalmOK, Good, Usable
<1> QED
    BY <1>3, <1>4 DEF CalmSessions, CalmOK

\* The script: it touches no key of another lineage than its token's.
LEMMA RotateSpares ==
    ASSUME TokenIInv, BelongOK, NEW j \in Jti, NEW new \in Jti, RotateScript(j, new),
           Issued(j), NEW s \in Sid, s # jwt[j].sid
    PROVE  /\ lin'[s] = lin[s]
           /\ \A k \in Jti : jwt[k].sid = s => rec'[k] = rec[k]
<1>1. ~Issued(new) => jwt[new].sid # s
    BY RefreshConstants DEF Issued, NoJwt
<1>2. CASE RotateOk(j, new)
    BY <1>1, <1>2 DEF RotateOk, Activate, FreshJti, Issued, TokenIInv, RedisInv, RedisTypeOK
<1>3. CASE RotateReused(j)
    <2>1. rec[j].sid = jwt[j].sid
        BY <1>3 DEF RotateReused, TokenIInv, RedisInv, RecordsOK
    <2>2. rec[j].sid \in Sid
        BY <2>1, JwtFacts DEF TokenIInv, RedisInv
    <2> QED
        BY <1>3, <2>1, <2>2 DEF RotateReused, BelongOK, TokenIInv, RedisInv, RedisTypeOK
<1>4. CASE RotateRefused(j)
    BY <1>4 DEF RotateRefused, redisVars
<1> QED
    BY <1>2, <1>3, <1>4 DEF RotateScript

\* On a calm lineage the token is the browser's. Either it is exchanged, and the new
\* one is good, or it has expired.
LEMMA CalmRotate ==
    ASSUME TokenIInv, BelongOK, CalmSessions, NEW h \in Handler, NEW new \in Jti, Rotate(h, new)
    PROVE  CalmSessions'
<1>0. PICK j \in Jti : j = call[h].jti
    BY CallFacts DEF Rotate
<1>2. PICK t \in Sid : t = jwt[j].sid /\ Issued(j)
    BY <1>0, CallFacts DEF Rotate
<1>1. /\ call[h].pc = "locked" /\ UNCHANGED <<now, cookie>> /\ disturbed \subseteq disturbed'
      /\ RotateScript(j, new) \/ UNCHANGED <<jwt, redisVars, reused>>
      /\ \A g \in Handler : g # h => call'[g] = call[g]
      /\ call'[h].pc \in {"rotated", "releasing"}
    <2>1. call \in [Handler -> Call]
        BY DEF TokenIInv, CallsOK
    <2> QED
        BY <1>0, <2>1 DEF Rotate, Answer, Disturb, Call
<1>3. /\ \A k \in Jti : Issued(k) => jwt'[k] = jwt[k]
      /\ \A s \in Sid : s # t => lin'[s] = lin[s]
                                 /\ \A k \in Jti : jwt[k].sid = s => rec'[k] = rec[k]
    <2>1. CASE RotateScript(j, new)
        BY <1>1, <1>2, <2>1, RotateStep, RotateSpares DEF Descent, TokenIInv
    <2>2. CASE UNCHANGED <<jwt, redisVars, reused>>
        BY <2>2 DEF redisVars
    <2> QED
        BY <1>1, <2>1, <2>2
<1>4. jwt'[j] = jwt[j] /\ call'[h].jti = j
    <2>1. call'[h].jti = j
        <3>1. call \in [Handler -> Call]
            BY DEF TokenIInv, CallsOK
        <3> QED
            BY <1>0, <3>1 DEF Rotate, Answer, Call
    <2> QED
        BY <1>2, <1>3, <2>1
<1>5. ASSUME NEW s \in Sid, s # t
      PROVE  CalmOK(s)'
    <2>1. ~Working(h, s) /\ ~Working(h, s)'
        BY <1>0, <1>2, <1>4, <1>5 DEF Working
    <2> QED
        BY <1>1, <1>3, <1>5, <2>1, CalmIsSpared DEF CalmSessions
<1>6. ASSUME t \notin disturbed'
      PROVE  CalmOK(t)'
    <2>1. /\ RotateScript(j, new)
          /\ call' = [call EXCEPT
                         ![h].pc = IF Outcome(j) = "ok" THEN "rotated" ELSE "releasing",
                         ![h].new = IF Outcome(j) = "ok" THEN new ELSE None,
                         ![h].out = Outcome(j)]
        BY <1>0, <1>2, <1>6 DEF Rotate, Disturb
    <2>2. /\ cookie[t] = j /\ Good(j)
          /\ \A g \in Handler : Working(g, t) => g = h
        <3>1. Working(h, t) /\ t \notin disturbed
            BY <1>0, <1>1, <1>2, <1>6 DEF Working
        <3>2. cookie[t] = j /\ \A g \in Handler : Working(g, t) => g = h
            BY <1>0, <3>1 DEF CalmSessions, CalmOK
        <3>3. j # None
            BY <1>2, RefreshConstants
        <3> QED
            BY <1>1, <1>2, <3>1, <3>2, <3>3 DEF CalmSessions, CalmOK
    <2>3. \A g \in Handler : Working(g, t)' => g = h
        <3>1. \A g \in Handler : call[g].pc # "idle" => jwt'[call[g].jti] = jwt[call[g].jti]
            BY <1>3, CallFacts
        <3>2. \A g \in Handler : g # h => (Working(g, t)' => Working(g, t))
            BY <1>1, <3>1 DEF Working
        <3> QED
            BY <2>2, <3>2
    <2>4. CASE RotateOk(j, new)
        <3>1. Outcome(j) = "ok"
            BY <2>4 DEF RotateOk, Accepted, Outcome
        <3>2. call'[h].pc = "rotated" /\ call'[h].new = new
            BY <2>1, <3>1 DEF TokenIInv, CallsOK, Call
        <3>3. (Usable(new))'
            <4>1. rec'[new] = NewRecord(t, jwt[j].user) /\ lin'[t].status = "active"
                BY <1>2, <2>4 DEF RotateOk, Activate, TokenIInv, RedisInv, RedisTypeOK
            <4> QED
                BY <4>1 DEF Usable, NewRecord
        <3>4. Good(call[h].new)'
            BY <3>2, <3>3 DEF Good, Usable
        <3>5. Working(h, t)' /\ cookie'[t] = j
            BY <1>1, <1>2, <1>4, <2>2, <3>2 DEF Working
        <3> QED
            BY <1>4, <2>3, <3>2, <3>4, <3>5 DEF CalmOK
    <2>5. CASE ~RotateOk(j, new)
        <3>1. (Outcome(j) # "ok" /\ ~Usable(j)) \/ RotateRefused(j)
            BY <2>1, <2>5 DEF RotateScript, RotateReused, Outcome, Usable, Accepted
        <3>2. CASE RotateRefused(j)
            <4>1. Outcome(j) # "ok" /\ UNCHANGED <<jwt, rec, lin>>
                BY <3>2 DEF RotateRefused, Outcome, redisVars, Accepted
            <4>2. call'[h].pc = "releasing"
                BY <2>1, <4>1 DEF TokenIInv, CallsOK, Call
            <4>3. Good(j)' /\ cookie'[t] = j
                BY <1>1, <2>2, <4>1 DEF Good, Usable
            <4>4. \A g \in Handler : ~Working(g, t)'
                BY <2>3, <4>2 DEF Working
            <4> QED
                BY <4>3, <4>4 DEF CalmOK, Good, Usable
        <3>3. CASE Outcome(j) # "ok" /\ ~Usable(j)
            <4>1. call'[h].pc = "releasing"
                BY <2>1, <3>3 DEF TokenIInv, CallsOK, Call
            <4>2. Good(j)' /\ cookie'[t] = j
                BY <1>1, <1>4, <2>2, <3>3 DEF Good
            <4>3. \A g \in Handler : ~Working(g, t)'
                BY <2>3, <4>1 DEF Working
            <4> QED
                BY <4>2, <4>3 DEF CalmOK, Good, Usable
        <3> QED
            BY <3>1, <3>2, <3>3
    <2> QED
        BY <2>4, <2>5
<1> QED
    BY <1>2, <1>5, <1>6 DEF CalmSessions, CalmOK

\* The answer carries the new token to the browser.
LEMMA CalmRespond ==
    ASSUME TokenIInv, BelongOK, CalmSessions, NEW h \in Handler, Respond(h)
    PROVE  CalmSessions'
<1>2. PICK t \in Sid : t = jwt[call[h].jti].sid
    BY CallFacts DEF Respond
<1>1. /\ call[h].pc = "rotated" /\ UNCHANGED <<now, jwt, rec, lin>>
      /\ disturbed \subseteq disturbed'
      /\ \A g \in Handler : g # h => call'[g] = call[g]
      /\ call'[h].pc = "releasing"
      /\ \A s \in Sid : s # t => cookie'[s] = cookie[s]
    BY <1>2 DEF Respond, Answer, Disturb, redisVars, TokenIInv, CallsOK, Call, OthersOK
<1>0. call'[h].jti = call[h].jti /\ call[h].new \in Jti
    BY <1>1, CallFacts DEF Respond, Answer, TokenIInv, CallsOK, Call
<1>3. ASSUME NEW s \in Sid, s # t
      PROVE  CalmOK(s)'
    <2>1. ~Working(h, s) /\ ~Working(h, s)'
        BY <1>1, <1>2, <1>3 DEF Working
    <2> QED
        BY <1>1, <1>3, <2>1, CalmIsSpared DEF CalmSessions
<1>4. ASSUME t \notin disturbed'
      PROVE  CalmOK(t)'
    <2>1. cookie' = [cookie EXCEPT ![t] = call[h].new]
        BY <1>2, <1>4 DEF Respond, Disturb
    <2>2. Working(h, t) /\ t \notin disturbed
        BY <1>1, <1>2, <1>4 DEF Working
    <2>3. Good(call[h].new) /\ \A g \in Handler : Working(g, t) => g = h
        BY <1>1, <1>2, <2>2 DEF CalmSessions, CalmOK
    <2>4. PICK new \in Jti : new = call[h].new
        BY <1>0
    <2>5. Good(new)' /\ cookie'[t] = new
        BY <1>1, <1>2, <2>1, <2>3, <2>4 DEF Good, Usable, TokenIInv, OthersOK
    <2>6. \A g \in Handler : ~Working(g, t)'
        BY <1>1, <2>3 DEF Working
    <2> QED
        BY <2>5, <2>6 DEF CalmOK, Good, Usable
<1> QED
    BY <1>2, <1>3, <1>4 DEF CalmSessions, CalmOK

\* A call waits, gives up or ends.
LEMMA CalmCall ==
    ASSUME TokenIInv, BelongOK, CalmSessions, NEW h \in Handler,
           AcquireLock(h) \/ ReleaseLock(h) \/ HandlerCrash(h)
    PROVE  CalmSessions'
<1>1. /\ call[h].pc # "idle" /\ UNCHANGED <<now, jwt, rec, lin, cookie>>
      /\ disturbed \subseteq disturbed'
      /\ \A g \in Handler : g # h => call'[g] = call[g]
    BY DEF AcquireLock, ReleaseLock, HandlerCrash, Disturb, Return, redisVars, TokenIInv,
           CallsOK
<1>2. ASSUME NEW s \in Sid, s \notin disturbed'
      PROVE  CalmOK(s)'
    <2>1. CASE AcquireLock(h)
        <3>1. /\ call[h].pc = "validated"
              /\ \/ call'[h].pc = "idle"
                 \/ call'[h].pc = "locked" /\ call'[h].jti = call[h].jti
            BY <2>1 DEF AcquireLock, Return, NoCall, TokenIInv, CallsOK, Call
        <3>2. /\ call[h].pc \in {"validated", "locked"} /\ call'[h].pc # "rotated"
              /\ call'[h].pc \in {"validated", "locked"} => call'[h].jti = call[h].jti
            BY <3>1
        <3> QED
            BY <1>1, <3>2, CalmIsSpared DEF CalmSessions
    <2>2. CASE ReleaseLock(h)
        <3>1. ~Working(h, s) /\ ~Working(h, s)'
            BY <2>2 DEF ReleaseLock, Return, NoCall, TokenIInv, CallsOK, Working
        <3> QED
            BY <1>1, <3>1, CalmIsSpared DEF CalmSessions
    <2>3. CASE HandlerCrash(h)
        <3>1. ~Working(h, s) /\ ~Working(h, s)'
            BY <1>2, <2>3 DEF HandlerCrash, Disturb, Return, NoCall, TokenIInv, CallsOK, Working
        <3> QED
            BY <1>1, <3>1, CalmIsSpared DEF CalmSessions
    <2> QED
        BY <2>1, <2>2, <2>3
<1> QED
    BY <1>2 DEF CalmSessions, CalmOK

\* Everything else leaves the calls and the browsers alone, and the keys of a
\* lineage that the admin does not revoke.
LEMMA CalmOthers ==
    ASSUME TokenIInv, BelongOK, CalmSessions,
           \/ \E j \in Jti : LockExpires(j) \/ RevokeMember(j)
           \/ \E s \in Sid : RevokeSession(s) \/ RevokeLineage(s)
           \/ \E u \in User : RevokeUserSessions(u)
           \/ ReadMembers \/ Unlist \/ RevocationDone \/ RevocationFails
           \/ Tick \/ UNCHANGED tokenVars
    PROVE  CalmSessions'
<1>1. UNCHANGED <<jwt, call, cookie>> /\ disturbed \subseteq disturbed'
    BY DEF LockExpires, RevokeMember, RevokeSession, RevokeLineage, RevokeUserSessions,
           ReadMembers, Unlist, RevocationDone, RevocationFails, Tick, tokenVars, Disturb
<1>2. ASSUME NEW s \in Sid, s \notin disturbed'
      PROVE  CalmOK(s)'
    <2>1. CASE Tick
        <3>1. \A h \in Handler : Working(h, s)' <=> Working(h, s)
            BY <1>1 DEF Working
        <3>2. \A j \in Jti : Good(j) => Good(j)'
            BY <2>1, TickStaysGood
        <3>3. cookie[s] # None => cookie[s] \in Jti
            BY CookieFacts
        <3>4. \A h \in Handler : call[h].pc = "rotated" => call[h].new \in Jti
            BY CallFacts
        <3> QED
            BY <1>1, <3>1, <3>2, <3>3, <3>4, CalmIsKept DEF CalmSessions
    <2>2. CASE ~Tick
        <3>1. now' = now
            BY <2>2 DEF LockExpires, RevokeMember, RevokeSession, RevokeLineage,
                        RevokeUserSessions, ReadMembers, Unlist, RevocationDone,
                        RevocationFails, tokenVars
        <3>2. lin'[s] = lin[s]
            <4>1. CASE \E t \in Sid : RevokeLineage(t)
                BY <1>2, <4>1 DEF RevokeLineage, Disturb, TokenIInv, RedisInv, RedisTypeOK
            <4>2. CASE ~\E t \in Sid : RevokeLineage(t)
                BY <2>2, <4>2 DEF LockExpires, RevokeMember, RevokeSession,
                        RevokeUserSessions, ReadMembers, Unlist, RevocationDone,
                        RevocationFails, tokenVars, redisVars
            <4> QED
                BY <4>1, <4>2
        <3>3. \A j \in Jti : jwt[j].sid = s => rec'[j] = rec[j]
            <4>1. CASE \E k \in Jti : RevokeMember(k)
                <5>1. PICK k \in Jti : RevokeMember(k)
                    BY <4>1
                <5>2. jwt[k].sid \in disturbed /\ disturbed' = disturbed
                    BY <5>1 DEF RevokeMember, BelongOK
                <5> QED
                    BY <1>2, <5>1, <5>2 DEF RevokeMember, TokenIInv, RedisInv, RedisTypeOK
            <4>2. CASE ~\E k \in Jti : RevokeMember(k)
                BY <2>2, <4>2 DEF LockExpires, RevokeSession, RevokeLineage,
                        RevokeUserSessions, ReadMembers, Unlist, RevocationDone,
                        RevocationFails, tokenVars, redisVars
            <4> QED
                BY <4>1, <4>2
        <3> QED
            BY <1>1, <3>1, <3>2, <3>3, CalmIsSpared DEF CalmSessions
    <2> QED
        BY <2>1, <2>2
<1> QED
    BY <1>2 DEF CalmSessions, CalmOK

LEMMA CalmStep ==
    ASSUME TokenIInv, BelongOK, CalmSessions, [TokenNext]_tokenVars
    PROVE  CalmSessions'
<1>1. CASE UNCHANGED tokenVars
    BY <1>1, CalmOthers
<1>2. ASSUME NEW j \in Jti, NEW s \in Sid, NEW u \in User, Login(j, s, u)
      PROVE  CalmSessions'
    BY <1>2, CalmLogin
<1>3. ASSUME NEW h \in Handler, NEW j \in Jti, Present(h, j) \/ Rotate(h, j)
      PROVE  CalmSessions'
    BY <1>3, CalmPresent, CalmRotate
<1>4. ASSUME NEW h \in Handler, AcquireLock(h) \/ ReleaseLock(h) \/ HandlerCrash(h)
      PROVE  CalmSessions'
    BY <1>4, CalmCall
<1>5. ASSUME NEW h \in Handler, Respond(h)
      PROVE  CalmSessions'
    BY <1>5, CalmRespond
<1>6. CASE \/ \E j \in Jti : LockExpires(j) \/ RevokeMember(j)
           \/ \E s \in Sid : RevokeSession(s) \/ RevokeLineage(s)
           \/ \E u \in User : RevokeUserSessions(u)
           \/ ReadMembers \/ Unlist \/ RevocationDone \/ RevocationFails
           \/ Tick
    BY <1>6, CalmOthers
<1> QED
    BY <1>1, <1>2, <1>3, <1>4, <1>5, <1>6 DEF TokenNext

\* The new members of a lineage are its tokens.
LEMMA BelongMembers ==
    ASSUME TokenIInv, BelongOK, [TokenNext]_tokenVars, Descent
    PROVE  \A s \in Sid : \A j \in members'[s].jtis : jwt'[j].sid = s
<1> USE DEF TokenIInv, RedisInv, RedisTypeOK
<1>1. ASSUME NEW s \in Sid, NEW j \in members[s].jtis
      PROVE  jwt'[j].sid = s
    <2>1. j \in Jti /\ jwt[j].sid = s
        BY <1>1 DEF BelongOK, Members
    <2>2. Issued(j)
        BY <2>1, RefreshConstants DEF Issued, NoJwt
    <2> QED
        BY <2>1, <2>2 DEF Descent
<1>2. ASSUME NEW k \in Jti, NEW t \in Sid, NEW u \in User, Activate(k, t, u)
      PROVE  \A s \in Sid : \A j \in members'[s].jtis : jwt'[j].sid = s
    <2>1. jwt'[k].sid = t
        BY <1>2 DEF Activate
    <2>2. \A s \in Sid : members'[s].jtis \subseteq members[s].jtis \cup {k}
                         /\ (s # t => members'[s] = members[s])
        BY <1>2 DEF Activate, Enlist
    <2> QED
        BY <1>1, <2>1, <2>2
<1>3. ASSUME NEW k \in Jti, NEW t \in Sid, NEW u \in User, Login(k, t, u)
      PROVE  \A s \in Sid : \A j \in members'[s].jtis : jwt'[j].sid = s
    BY <1>2, <1>3 DEF Login
<1>4. ASSUME NEW h \in Handler, NEW new \in Jti, Rotate(h, new)
      PROVE  \A s \in Sid : \A j \in members'[s].jtis : jwt'[j].sid = s
    <2>1. call[h].jti \in Jti /\ jwt[call[h].jti].sid \in Sid /\ jwt[call[h].jti].user \in User
        BY <1>4, CallFacts DEF Rotate
    <2>2. CASE RotateOk(call[h].jti, new)
        BY <1>2, <2>1, <2>2 DEF RotateOk
    <2>3. CASE members' = members
        BY <1>1, <2>3
    <2> QED
        BY <1>4, <2>2, <2>3 DEF Rotate, RotateScript, RotateReused, RotateRefused, redisVars
<1>5. CASE Tick
    <2>1. \A s \in Sid : members'[s].jtis \subseteq members[s].jtis
        BY <1>5 DEF Tick, NoMembers
    <2> QED
        BY <1>1, <2>1
<1>6. CASE members' = members
    BY <1>1, <1>6
<1> QED
    BY <1>3, <1>4, <1>5, <1>6
       DEF TokenNext, Present, AcquireLock, Respond, ReleaseLock, HandlerCrash, LockExpires,
           RevokeMember, RevokeSession, RevokeLineage, RevokeUserSessions, ReadMembers,
           Unlist, RevocationDone, RevocationFails, redisVars, tokenVars

\* The admin has read the members of a lineage that is disturbed.
LEMMA BelongAdmin ==
    ASSUME TokenIInv, BelongOK, [TokenNext]_tokenVars, Descent
    PROVE  /\ admin'.pc \in {"members", "tokens"} => admin'.sid \in disturbed'
           /\ admin'.pc = "tokens" => \A j \in admin'.todo : jwt'[j].sid = admin'.sid
<1> USE DEF Revocation
<1>1. disturbed \subseteq disturbed'
    BY DEF TokenNext, Login, Present, Rotate, AcquireLock, Respond, ReleaseLock,
           HandlerCrash, LockExpires, RevokeMember, RevokeSession, RevokeLineage,
           RevokeUserSessions, ReadMembers, Unlist, RevocationDone, RevocationFails, Tick,
           Disturb, tokenVars
<1>2. admin \in Revocation
    BY DEF TokenIInv, AdminOK
<1>3. ASSUME admin.pc \in {"members", "tokens"}, NEW j \in Jti, jwt[j].sid = admin.sid
      PROVE  jwt'[j] = jwt[j]
    <2>1. admin.sid \in Sid
        BY <1>3 DEF TokenIInv, AdminOK
    <2>2. Issued(j)
        BY <1>3, <2>1, RefreshConstants DEF Issued, NoJwt
    <2> QED
        BY <2>2 DEF Descent
<1>4. CASE admin' = admin
    BY <1>1, <1>2, <1>3, <1>4 DEF BelongOK
<1>5. CASE ReadMembers
    <2>1. /\ admin.pc = "members" /\ admin.sid \in Sid /\ jwt' = jwt
          /\ admin' = [admin EXCEPT !.pc = "tokens", !.read = members[admin.sid].jtis,
                                    !.todo = members[admin.sid].jtis]
        BY <1>5 DEF ReadMembers, TokenIInv, AdminOK
    <2>2. admin'.sid = admin.sid /\ admin'.todo = members[admin.sid].jtis
        BY <1>2, <2>1
    <2> QED
        BY <1>1, <2>1, <2>2 DEF BelongOK
<1>6. ASSUME NEW k \in Jti, RevokeMember(k)
      PROVE  /\ admin'.pc \in {"members", "tokens"} => admin'.sid \in disturbed'
             /\ admin'.pc = "tokens" => \A j \in admin'.todo : jwt'[j].sid = admin'.sid
    BY <1>1, <1>2, <1>6 DEF RevokeMember, BelongOK
<1>7. ASSUME NEW s \in Sid, RevokeLineage(s)
      PROVE  admin'.pc = "members" /\ admin'.sid \in disturbed'
    BY <1>2, <1>7 DEF RevokeLineage, Disturb
<1>8. CASE \/ \E s \in Sid : RevokeSession(s)
           \/ \E u \in User : RevokeUserSessions(u)
           \/ Unlist \/ RevocationDone \/ RevocationFails
    <2>1. admin'.pc \in {"idle", "next"}
        <3>1. CASE \E s \in Sid : RevokeSession(s)
            BY <3>1 DEF RevokeSession, NoAdmin
        <3>2. CASE \E u \in User : RevokeUserSessions(u)
            BY <3>2 DEF RevokeUserSessions, NoAdmin
        <3>3. CASE Unlist
            BY <1>2, <3>3 DEF Unlist
        <3>4. CASE RevocationDone \/ RevocationFails
            BY <3>4 DEF RevocationDone, RevocationFails, NoAdmin
        <3> QED
            BY <1>8, <3>1, <3>2, <3>3, <3>4
    <2> QED
        BY <2>1
<1> QED
    BY <1>4, <1>5, <1>6, <1>7, <1>8
       DEF TokenNext, Login, Present, Rotate, AcquireLock, Respond, ReleaseLock,
           HandlerCrash, LockExpires, Tick, tokenVars

\* The cookie, and the new token of a call, are of their lineage.
LEMMA BelongTokens ==
    ASSUME TokenIInv, BelongOK, [TokenNext]_tokenVars, Descent
    PROVE  /\ \A s \in Sid : cookie'[s] # None => jwt'[cookie'[s]].sid = s
           /\ \A h \in Handler : call'[h].pc = "rotated"
                                    => jwt'[call'[h].new].sid = jwt'[call'[h].jti].sid
<1> USE DEF TokenIInv
<1>1. ASSUME NEW j \in Jti, jwt[j].sid \in Sid
      PROVE  jwt'[j] = jwt[j]
    BY <1>1, RefreshConstants DEF Descent, Issued, NoJwt
<1>2. ASSUME NEW s \in Sid, cookie'[s] = cookie[s], cookie[s] # None
      PROVE  jwt'[cookie'[s]].sid = s
    BY <1>1, <1>2, CookieFacts
<1>3. ASSUME NEW h \in Handler, call'[h] = call[h], call[h].pc = "rotated"
      PROVE  jwt'[call'[h].new].sid = jwt'[call'[h].jti].sid
    <2>1. jwt[call[h].new].sid = jwt[call[h].jti].sid
        BY <1>3 DEF BelongOK
    <2> QED
        BY <1>1, <1>3, <2>1, CallFacts
<1>4. ASSUME NEW j \in Jti, NEW t \in Sid, NEW u \in User, Login(j, t, u)
      PROVE  /\ \A s \in Sid : cookie'[s] # None => jwt'[cookie'[s]].sid = s
             /\ call' = call
    <2>1. /\ call' = call
          /\ cookie' = [cookie EXCEPT ![t] = j] \/ cookie' = cookie
          /\ jwt' = [jwt EXCEPT ![j] = [sid |-> t, user |-> u, exp |-> now + TTL]]
        BY <1>4 DEF Login, Activate
    <2>2. jwt'[j].sid = t
        BY <2>1 DEF RedisInv, RedisTypeOK
    <2>3. \A s \in Sid : cookie'[s] = cookie[s] \/ (s = t /\ cookie'[s] = j)
        BY <2>1 DEF OthersOK
    <2> QED
        BY <1>2, <1>4, <2>2, <2>3 DEF Login
<1>5. ASSUME NEW h \in Handler, NEW new \in Jti, Rotate(h, new)
      PROVE  /\ cookie' = cookie
             /\ \A g \in Handler : call'[g].pc = "rotated"
                                      => jwt'[call'[g].new].sid = jwt'[call'[g].jti].sid
    <2>1. PICK j \in Jti : j = call[h].jti /\ jwt[j].sid \in Sid
        BY <1>5, CallFacts DEF Rotate
    <2>2. \A g \in Handler : g # h => call'[g] = call[g]
        BY <1>5 DEF Rotate, Answer, CallsOK
    <2>3. ASSUME call'[h].pc = "rotated"
          PROVE  jwt'[call'[h].new].sid = jwt'[call'[h].jti].sid
        <3>1. /\ Outcome(j) = "ok" /\ RotateScript(j, new)
              /\ call'[h].new = new /\ call'[h].jti = j
            BY <1>5, <2>1, <2>3 DEF Rotate, Answer, CallsOK, Call
        <3>2. RotateOk(j, new)
            BY <3>1 DEF RotateScript, RotateReused, RotateRefused, Outcome, Accepted
        <3>3. jwt'[new].sid = jwt[j].sid
            BY <3>2 DEF RotateOk, Activate, RedisInv, RedisTypeOK
        <3> QED
            BY <1>1, <2>1, <3>1, <3>3
    <2> QED
        BY <1>3, <1>5, <2>2, <2>3 DEF Rotate
<1>6. ASSUME NEW h \in Handler, Respond(h)
      PROVE  /\ \A s \in Sid : cookie'[s] # None => jwt'[cookie'[s]].sid = s
             /\ \A g \in Handler : call'[g] = call[g] \/ call'[g].pc # "rotated"
    <2>1. PICK new \in Jti : new = call[h].new /\ jwt[new].sid = jwt[call[h].jti].sid
        BY <1>6, CallFacts DEF Respond, BelongOK
    <2>2. PICK t \in Sid : t = jwt[new].sid
        BY <1>6, <2>1, CallFacts DEF Respond
    <2>3. \A s \in Sid : cookie'[s] = cookie[s] \/ (s = t /\ cookie'[s] = new)
        BY <1>6, <2>1, <2>2 DEF Respond, OthersOK
    <2>4. \A g \in Handler : call'[g] = call[g] \/ call'[g].pc # "rotated"
        BY <1>6 DEF Respond, Answer, CallsOK, Call
    <2>5. jwt'[new].sid = t
        BY <1>1, <2>2
    <2> QED
        BY <1>2, <2>3, <2>4, <2>5
<1>7. ASSUME NEW h \in Handler,
             \/ \E j \in Jti : Present(h, j)
             \/ AcquireLock(h) \/ ReleaseLock(h) \/ HandlerCrash(h)
      PROVE  cookie' = cookie /\ \A g \in Handler : call'[g] = call[g] \/ call'[g].pc # "rotated"
    <2>1. cookie' = cookie /\ \A g \in Handler : g # h => call'[g] = call[g]
        BY <1>7 DEF Present, AcquireLock, ReleaseLock, HandlerCrash, Return, CallsOK
    <2>2. CASE \E j \in Jti : Present(h, j)
        BY <2>1, <2>2 DEF Present, NoCall, CallsOK
    <2>3. CASE AcquireLock(h)
        BY <2>1, <2>3 DEF AcquireLock, Return, NoCall, CallsOK, Call
    <2>4. CASE ReleaseLock(h) \/ HandlerCrash(h)
        BY <2>1, <2>4 DEF ReleaseLock, HandlerCrash, Return, NoCall, CallsOK
    <2> QED
        BY <1>7, <2>2, <2>3, <2>4
<1>8. CASE UNCHANGED <<cookie, call>>
    BY <1>2, <1>3, <1>8
<1> QED
    BY <1>2, <1>3, <1>4, <1>5, <1>6, <1>7, <1>8
       DEF TokenNext, LockExpires, RevokeMember, RevokeSession, RevokeLineage,
           RevokeUserSessions, ReadMembers, Unlist, RevocationDone, RevocationFails, Tick,
           tokenVars

LEMMA CalmInit == TokenInit => CalmInv
<1> SUFFICES ASSUME TokenInit
             PROVE  CalmInv
    OBVIOUS
<1>1. \A h \in Handler : call[h].pc = "idle"
    BY DEF TokenInit, NoCall
<1>2. BelongOK
    BY <1>1 DEF TokenInit, NoMembers, NoAdmin, BelongOK
<1>3. CalmSessions
    BY <1>1 DEF TokenInit, CalmSessions, CalmOK, Working
<1> QED
    BY <1>2, <1>3 DEF CalmInv

LEMMA CalmNext ==
    ASSUME TokenIInv, CalmInv, [TokenNext]_tokenVars
    PROVE  CalmInv'
<1>1. Descent
    BY NextOK
<1> QED
    BY <1>1, CalmStep, BelongMembers, BelongAdmin, BelongTokens DEF CalmInv, BelongOK

\* What belongs to a lineage, and one call at a time on a calm one.
THEOREM CalmInvariant == TokenSpec => []CalmInv
BY CalmInit, CalmNext, TokenInvariant, PTL DEF TokenSpec

\* The handler behind the browser's cookie: as long as a session meets no failure,
\* no overlapping refresh and no revocation, the browser holds a token it can
\* exchange, until that expires.
THEOREM CalmSessionAlwaysSurvives == TokenSpec => []CalmSessionSurvives
<1>1. TokenIInv /\ CalmInv => CalmSessionSurvives
    <2> SUFFICES ASSUME TokenIInv, CalmInv, NEW s \in Sid, s \notin disturbed,
                        cookie[s] # None, now < jwt[cookie[s]].exp, ~Busy(s)
                 PROVE  Usable(cookie[s])
        BY DEF CalmSessionSurvives
    <2>1. \A h \in Handler : ~Working(h, s)
        BY DEF Busy, Working
    <2> QED
        BY <2>1 DEF CalmInv, CalmSessions, CalmOK, Good
<1> QED
    BY <1>1, TokenInvariant, CalmInvariant, PTL
=============================================================================
