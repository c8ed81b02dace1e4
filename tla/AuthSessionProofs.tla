------------------------- MODULE AuthSessionProofs -------------------------
(***************************************************************************)
(* Theorems about AuthSession, for any number of threads, users, nonces    *)
(* and operations. The invariants build on each other:                     *)
(*                                                                         *)
(*   RefreshIInv    a cookie is stale only between the service's answer to *)
(*                  the shared refresh and the moment the browser takes    *)
(*                  that answer;                                           *)
(*   ClientOK,      the gate holds whoever asked for it, its first one is  *)
(*   OpsOK          on the wire, and requests belong to operations;        *)
(*   NoncesOK       how often a request is challenged;                     *)
(*   CalmTokensOK   whose tokens are in memory and in the requests, beside *)
(*                  the cookie, before, during and after logins, logouts;  *)
(*   CalmUserOK     who is on screen, and who was turned away.             *)
(***************************************************************************)
EXTENDS AuthSession, FiniteSetTheorems, TLAPS

\* The fields of a request.
Shape(q) ==
    q = [pc |-> q.pc, call |-> q.call, who |-> q.who, token |-> q.token, nonce |-> q.nonce,
         retries |-> q.retries, second |-> q.second,
         answer |-> [status |-> q.answer.status, nonce |-> q.answer.nonce]]

\* The refresh is asked for by the operation behind refreshPromise and no other.
RequestOK(c, q) ==
    /\ Shape(q)
    /\ c # Refresher => q.call # "refresh"
    /\ c = Refresher => (q.pc = "none" \/ q.call = "refresh")

RequestsOK(r) ==
    /\ r = [c \in Caller |-> r[c]]
    /\ \A c \in Caller : RequestOK(c, r[c])

Stale == cookie # None /\ ~cookie.current

Exchanged(q) == q.pc = "answered" /\ q.answer.status = "ok"

RefreshIInv ==
    /\ RequestsOK(request)
    /\ failures \in Nat
    /\ failures = 0 /\ Stale => Exchanged(request[Refresher])

----------------------------------------------------------------------------
(* Requests *)

LEMMA RefresherIsCaller == Refresher \in Caller /\ Refresher \notin Thread
BY ClientConstants DEF Caller

LEMMA NoRequestOK == ASSUME NEW c PROVE RequestOK(c, NoRequest) /\ NoRequest.pc = "none"
BY DEF RequestOK, Shape, NoRequest, NoAnswer

(* A field of a request changes *)

LEMMA CallOfRefresher ==
    ASSUME NEW c, NEW q, RequestOK(c, q), q.pc # "none", c = Refresher
    PROVE  q.call = "refresh"
BY DEF RequestOK

LEMMA SetPc ==
    ASSUME NEW c, NEW q, RequestOK(c, q), c = Refresher => q.call = "refresh", NEW x
    PROVE  /\ RequestOK(c, [q EXCEPT !.pc = x])
           /\ [q EXCEPT !.pc = x].pc = x /\ [q EXCEPT !.pc = x].call = q.call
           /\ [q EXCEPT !.pc = x].answer = q.answer
BY DEF RequestOK, Shape

LEMMA SetToken ==
    ASSUME NEW c, NEW q, RequestOK(c, q), c = Refresher => q.call = "refresh", NEW x
    PROVE  /\ RequestOK(c, [q EXCEPT !.token = x])
           /\ [q EXCEPT !.token = x].token = x /\ [q EXCEPT !.token = x].call = q.call
           /\ [q EXCEPT !.token = x].pc = q.pc
           /\ [q EXCEPT !.token = x].answer = q.answer
BY DEF RequestOK, Shape

LEMMA SetNonce ==
    ASSUME NEW c, NEW q, RequestOK(c, q), c = Refresher => q.call = "refresh", NEW x
    PROVE  /\ RequestOK(c, [q EXCEPT !.nonce = x])
           /\ [q EXCEPT !.nonce = x].nonce = x /\ [q EXCEPT !.nonce = x].call = q.call
           /\ [q EXCEPT !.nonce = x].pc = q.pc
           /\ [q EXCEPT !.nonce = x].answer = q.answer
BY DEF RequestOK, Shape

LEMMA SetRetries ==
    ASSUME NEW c, NEW q, RequestOK(c, q), c = Refresher => q.call = "refresh", NEW x
    PROVE  /\ RequestOK(c, [q EXCEPT !.retries = x])
           /\ [q EXCEPT !.retries = x].retries = x /\ [q EXCEPT !.retries = x].call = q.call
           /\ [q EXCEPT !.retries = x].pc = q.pc
           /\ [q EXCEPT !.retries = x].answer = q.answer
BY DEF RequestOK, Shape

LEMMA SetAnswer ==
    ASSUME NEW c, NEW q, RequestOK(c, q), c = Refresher => q.call = "refresh", NEW x,
           x = [status |-> x.status, nonce |-> x.nonce]
    PROVE  /\ RequestOK(c, [q EXCEPT !.answer = x])
           /\ [q EXCEPT !.answer = x].answer = x /\ [q EXCEPT !.answer = x].call = q.call
           /\ [q EXCEPT !.answer = x].pc = q.pc
BY DEF RequestOK, Shape

\* The request of caller c becomes q, and the others stay.
Moves(r, s, c, q) == s = [r EXCEPT ![c] = q]

LEMMA ReplaceOne ==
    ASSUME NEW r, RequestsOK(r), NEW c \in Caller, NEW q, RequestOK(c, q),
           NEW s, Moves(r, s, c, q)
    PROVE  /\ RequestsOK(s) /\ s[c] = q
           /\ \A d \in Caller : d # c => s[d] = r[d]
<1>1. /\ s[c] = q /\ \A d \in Caller : d # c => s[d] = r[d]
      /\ s = [d \in Caller |-> s[d]]
    BY DEF RequestsOK, Moves
<1>2. \A d \in Caller : RequestOK(d, s[d])
    BY <1>1 DEF RequestsOK
<1> QED
    BY <1>1, <1>2 DEF RequestsOK

\* What a call of apiRequest by an operation does to the requests r: its own is
\* asked for or waits, and a refresh that is under way stays as it is.
Asked(r, n, c) ==
    /\ RequestsOK(n.request)
    /\ r[Refresher].pc # "none" => n.request[Refresher] = r[Refresher]

LEMMA EnqueueOK ==
    ASSUME NEW r, RequestsOK(r), NEW g, NEW c \in Thread, NEW q, RequestOK(c, q)
    PROVE  Asked(r, Enqueue(r, g, c, q), c)
<1>1. c \in Caller /\ c # Refresher /\ Moves(r, Enqueue(r, g, c, q).request, c, q)
    BY RefresherIsCaller DEF Caller, Enqueue, Moves
<1> QED
    BY <1>1, ReplaceOne, RefresherIsCaller DEF Asked

LEMMA AwaitRefreshOK ==
    ASSUME NEW r, RequestsOK(r), NEW g, NEW c \in Thread, NEW q, RequestOK(c, q)
    PROVE  Asked(r, AwaitRefresh(r, g, c, q), c)
<1> DEFINE w == [q EXCEPT !.pc = "waiting"]
           waiting == [r EXCEPT ![c] = w]
           refresh == Queued("refresh", None, None, FALSE)
<1>1. RequestOK(c, w) /\ c \in Caller /\ c # Refresher
    BY RefresherIsCaller DEF RequestOK, Shape, Caller
<1> HIDE DEF w
<1>2. RequestsOK(waiting) /\ waiting[Refresher] = r[Refresher]
    <2>1. Moves(r, waiting, c, w)
        BY DEF Moves
    <2> HIDE DEF waiting
    <2> QED
        BY <1>1, <2>1, ReplaceOne, RefresherIsCaller
<1> HIDE DEF waiting
<1>3. CASE r[Refresher].pc # "none"
    <2>1. AwaitRefresh(r, g, c, q) = [request |-> waiting, gate |-> g]
        BY <1>3 DEF AwaitRefresh, waiting, w
    <2> QED
        BY <1>2, <2>1 DEF Asked
<1>4. CASE r[Refresher].pc = "none"
    <2>1. RequestOK(Refresher, refresh)
        BY DEF RequestOK, Queued, Shape, NoAnswer
    <2> HIDE DEF refresh
    <2>2. AwaitRefresh(r, g, c, q) = Enqueue(waiting, g, Refresher, refresh)
        BY <1>4 DEF AwaitRefresh, waiting, w, refresh
    <2>3. Moves(waiting, AwaitRefresh(r, g, c, q).request, Refresher, refresh)
        BY <2>2 DEF Enqueue, Moves
    <2> QED
        BY <1>2, <1>4, <2>1, <2>3, ReplaceOne, RefresherIsCaller DEF Asked
<1> QED
    BY <1>3, <1>4

LEMMA AskOK ==
    ASSUME NEW r, RequestsOK(r), NEW g, NEW c \in Thread, NEW call, call # "refresh",
           NEW u, NEW t
    PROVE  Asked(r, Ask(r, g, c, call, u, t), c)
<1>1. \A v, s : RequestOK(c, Queued(call, v, s, FALSE))
    BY RefresherIsCaller DEF RequestOK, Queued, Shape, NoAnswer
<1>2. CASE Authenticated(call) /\ ~Usable(t)
    <2>1. Ask(r, g, c, call, u, t) = AwaitRefresh(r, g, c, Queued(call, u, None, FALSE))
        BY <1>2 DEF Ask
    <2> QED
        BY <1>1, <2>1, AwaitRefreshOK
<1>3. CASE ~(Authenticated(call) /\ ~Usable(t))
    <2>1. \E s : Ask(r, g, c, call, u, t) = Enqueue(r, g, c, Queued(call, u, s, FALSE))
        BY <1>3 DEF Ask
    <2> QED
        BY <1>1, <2>1, EnqueueOK
<1> QED
    BY <1>2, <1>3

----------------------------------------------------------------------------
(* One lemma per action of ApiClient *)

\* What a step must show.
LEMMA Keeps ==
    ASSUME RefreshIInv, RequestsOK(request'), failures' \in Nat,
           failures' = 0 /\ Stale' =>
              /\ failures = 0
              /\ \/ Exchanged(request'[Refresher])
                 \/ Stale /\ (Exchanged(request[Refresher]) => Exchanged(request'[Refresher]))
    PROVE  RefreshIInv'
BY DEF RefreshIInv

\* A step that leaves requests and cookie alone.
LEMMA Elsewhere ==
    ASSUME RefreshIInv, UNCHANGED <<request, cookie, failures>>
    PROVE  RefreshIInv'
BY DEF RefreshIInv, Stale

\* A caller's request is replaced by q, and the cookie stays.
LEMMA OneRequestMoves ==
    ASSUME RefreshIInv, NEW c \in Caller, NEW q, RequestOK(c, q),
           Moves(request, request', c, q), cookie' = cookie,
           failures' \in Nat, failures' = 0 => failures = 0,
           c = Refresher /\ failures' = 0 => ~Exchanged(request[c])
    PROVE  RefreshIInv'
<1>1. /\ RequestsOK(request')
      /\ \A d \in Caller : d # c => request'[d] = request[d]
    BY ReplaceOne DEF RefreshIInv
<1>2. failures' = 0 /\ Stale' => failures = 0 /\ Stale /\ Exchanged(request[Refresher])
    BY DEF RefreshIInv, Stale
<1>3. failures' = 0 /\ Stale' => request'[Refresher] = request[Refresher]
    BY <1>1, <1>2, RefresherIsCaller
<1> QED
    BY <1>1, <1>2, <1>3, Keeps

LEMMA SendStep ==
    ASSUME RefreshIInv, NEW c \in Caller, Send(c)
    PROVE  RefreshIInv'
<1> DEFINE q == [request[c] EXCEPT !.pc = "sent", !.nonce = nonce]
<1>1. request[c].pc = "queued" /\ RequestOK(c, request[c])
    BY DEF Send, NeedsKey, RefreshIInv, RequestsOK
<1>2. RequestOK(c, q)
    <2> DEFINE q1 == [request[c] EXCEPT !.pc = "sent"]
    <2>1. q = [q1 EXCEPT !.nonce = nonce]
        BY <1>1 DEF RequestOK, Shape
    <2>2. RequestOK(c, q1) /\ q1.call = request[c].call
        BY <1>1, SetPc DEF RequestOK
    <2> HIDE DEF q1, q
    <2> QED
        BY <1>1, <2>1, <2>2, SetNonce DEF RequestOK
<1>3. Moves(request, request', c, q) /\ cookie' = cookie /\ failures' = failures
    BY DEF Send, Moves
<1> HIDE DEF q
<1> QED
    BY <1>1, <1>2, <1>3, OneRequestMoves DEF RefreshIInv, Exchanged

LEMMA ServeStep ==
    ASSUME RefreshIInv, NEW c \in Caller, Serve(c)
    PROVE  RefreshIInv'
<1>1. PICK status, n :
          /\ request' = [request EXCEPT ![c].pc = "answered",
                                        ![c].answer = [status |-> status, nonce |-> n]]
          /\ cookie' = IF request[c].call = "refresh" /\ status = "ok"
                       THEN [cookie EXCEPT !.current = FALSE] ELSE cookie
    BY DEF Serve
<1> DEFINE q == [request[c] EXCEPT !.pc = "answered",
                                   !.answer = [status |-> status, nonce |-> n]]
<1>2. request[c].pc = "sent" /\ RequestOK(c, request[c]) /\ failures' = failures
    BY DEF Serve, RefreshIInv, RequestsOK
<1>3. RequestOK(c, q) /\ q.pc = "answered" /\ q.answer.status = status
    <2> DEFINE q1 == [request[c] EXCEPT !.pc = "answered"]
               an == [status |-> status, nonce |-> n]
    <2>1. q = [q1 EXCEPT !.answer = an]
        BY <1>1, <1>2 DEF RequestOK, Shape
    <2>2. RequestOK(c, q1) /\ q1.call = request[c].call /\ q1.pc = "answered"
        BY <1>1, <1>2, SetPc DEF RequestOK
    <2>3. an = [status |-> an.status, nonce |-> an.nonce]
        OBVIOUS
    <2> HIDE DEF q1, q, an
    <2>4. RequestOK(c, q) /\ q.pc = "answered" /\ q.answer = an
        BY <1>1, <1>2, <2>1, <2>2, <2>3, SetAnswer DEF RequestOK
    <2> QED
        BY <2>4 DEF an
<1>4. Moves(request, request', c, q)
    BY <1>1 DEF Moves
<1> HIDE DEF q
<1>5. CASE request[c].call = "refresh" /\ status = "ok"
    <2>1. c = Refresher
        BY <1>2, <1>5 DEF RequestOK
    <2>2. RequestsOK(request') /\ Exchanged(request'[Refresher])
        BY <1>3, <1>4, <1>5, <2>1, ReplaceOne DEF RefreshIInv, Exchanged
    <2> QED
        BY <1>2, <2>2, Keeps DEF RefreshIInv
<1>6. CASE ~(request[c].call = "refresh" /\ status = "ok")
    BY <1>1, <1>2, <1>3, <1>4, <1>6, OneRequestMoves DEF RefreshIInv, Exchanged
<1> QED
    BY <1>5, <1>6

LEMMA FailsStep ==
    ASSUME RefreshIInv, NEW c \in Caller, Unavailable(c) \/ ConnectionFails(c)
    PROVE  RefreshIInv'
<1>1. RequestOK(c, request[c]) /\ failures \in Nat /\ cookie' = cookie
      /\ request[c].pc \in {"sent", "answered"}
    BY DEF Unavailable, ConnectionFails, RefreshIInv, RequestsOK
<1>2. failures' = failures + 1
    BY DEF Unavailable, ConnectionFails, Fail
<1>3. failures' \in Nat /\ failures' # 0
    BY <1>1, <1>2
<1>4. \E q : RequestOK(c, q) /\ Moves(request, request', c, q)
    <2>1. CASE Unavailable(c)
        <3> DEFINE q == [request[c] EXCEPT !.pc = "answered",
                                           !.answer = [status |-> "unavailable", nonce |-> None]]
        <3>1. RequestOK(c, q)
            <4> DEFINE q1 == [request[c] EXCEPT !.pc = "answered"]
                       an == [status |-> "unavailable", nonce |-> None]
            <4>1. q = [q1 EXCEPT !.answer = an]
                BY <1>1, <1>2 DEF RequestOK, Shape
            <4>2. RequestOK(c, q1) /\ q1.call = request[c].call /\ q1.pc = "answered"
                BY <1>1, <1>2, SetPc, CallOfRefresher
            <4>3. an = [status |-> an.status, nonce |-> an.nonce]
                OBVIOUS
            <4> HIDE DEF q1, q, an
            <4>4. RequestOK(c, q) /\ q.pc = "answered" /\ q.answer = an
                BY <1>1, <1>2, <4>1, <4>2, <4>3, SetAnswer DEF RequestOK
            <4> QED
                BY <4>4 DEF an
        <3>2. Moves(request, request', c, q)
            BY <2>1 DEF Unavailable, Moves
        <3> QED
            BY <3>1, <3>2
    <2>2. CASE ConnectionFails(c)
        <3> DEFINE q == [request[c] EXCEPT !.pc = "answered",
                                           !.answer = [status |-> "lost", nonce |-> None]]
        <3>1. RequestOK(c, q)
            <4> DEFINE q1 == [request[c] EXCEPT !.pc = "answered"]
                       an == [status |-> "lost", nonce |-> None]
            <4>1. q = [q1 EXCEPT !.answer = an]
                BY <1>1, <1>2 DEF RequestOK, Shape
            <4>2. RequestOK(c, q1) /\ q1.call = request[c].call /\ q1.pc = "answered"
                BY <1>1, <1>2, SetPc, CallOfRefresher
            <4>3. an = [status |-> an.status, nonce |-> an.nonce]
                OBVIOUS
            <4> HIDE DEF q1, q, an
            <4>4. RequestOK(c, q) /\ q.pc = "answered" /\ q.answer = an
                BY <1>1, <1>2, <4>1, <4>2, <4>3, SetAnswer DEF RequestOK
            <4> QED
                BY <4>4 DEF an
        <3>2. Moves(request, request', c, q)
            BY <2>2 DEF ConnectionFails, Moves
        <3> QED
            BY <3>1, <3>2
    <2> QED
        BY <2>1, <2>2
<1> QED
    BY <1>1, <1>3, <1>4, OneRequestMoves

LEMMA TokenExpiresStep ==
    ASSUME RefreshIInv, TokenExpires
    PROVE  RefreshIInv'
<1>1. failures' = failures /\ cookie' = cookie
    BY DEF TokenExpires, Expire
<1>2. request' = [c \in Caller |->
            IF request[c].token = None THEN request[c]
            ELSE [request[c] EXCEPT !.token.fresh = FALSE]]
    BY DEF TokenExpires
<1>3. ASSUME NEW c \in Caller
      PROVE  /\ RequestOK(c, request'[c])
             /\ request'[c].pc = request[c].pc /\ request'[c].answer = request[c].answer
    <2> DEFINE q == request[c]
    <2>1. RequestOK(c, q)
        BY DEF RefreshIInv, RequestsOK
    <2>2. request'[c] = q \/ \E t : request'[c] = [q EXCEPT !.token = t]
        BY <1>2
    <2> HIDE DEF q
    <2>3. \A t : RequestOK(c, [q EXCEPT !.token = t]) /\ [q EXCEPT !.token = t].pc = q.pc
                 /\ [q EXCEPT !.token = t].answer = q.answer
        BY <2>1 DEF RequestOK, Shape
    <2> QED
        BY <2>1, <2>2, <2>3 DEF q
<1>4. request' = [c \in Caller |-> request'[c]]
    BY <1>2
<1>5. RequestsOK(request')
    BY <1>3, <1>4 DEF RequestsOK
<1> QED
    BY <1>1, <1>3, <1>5, Keeps, RefresherIsCaller DEF RefreshIInv, Stale, Exchanged

LEMMA RetryStep ==
    ASSUME RefreshIInv, NEW c \in Caller, RetryWithNonce(c)
    PROVE  RefreshIInv'
<1> DEFINE q == [request[c] EXCEPT !.pc = "sent", !.nonce = Captured(c), !.retries = @ + 1,
                                   !.answer = NoAnswer]
<1>1. /\ request[c].pc = "answered" /\ RequestOK(c, request[c])
      /\ request[c].answer.status = "challenge"
    BY DEF RetryWithNonce, Challenged, RefreshIInv, RequestsOK
<1>2. RequestOK(c, q)
    <2> DEFINE q1 == [request[c] EXCEPT !.pc = "sent"]
               q2 == [q1 EXCEPT !.nonce = Captured(c)]
               q3 == [q2 EXCEPT !.retries = request[c].retries + 1]
    <2>0. c = Refresher => request[c].call = "refresh"
        BY <1>1, CallOfRefresher
    <2>1. q = [q3 EXCEPT !.answer = NoAnswer]
        BY <1>1 DEF RequestOK, Shape
    <2>2. RequestOK(c, q1) /\ q1.call = request[c].call
        BY <1>1, <2>0, SetPc
    <2> HIDE DEF q, q1
    <2>3. RequestOK(c, q2) /\ q2.call = request[c].call
        BY <2>0, <2>2, SetNonce
    <2> HIDE DEF q2
    <2>4. RequestOK(c, q3) /\ q3.call = request[c].call
        BY <2>0, <2>3, SetRetries
    <2>5. NoAnswer = [status |-> NoAnswer.status, nonce |-> NoAnswer.nonce]
        BY DEF NoAnswer
    <2> HIDE DEF q3
    <2> QED
        BY <2>0, <2>1, <2>4, <2>5, SetAnswer
<1>3. Moves(request, request', c, q) /\ cookie' = cookie /\ failures' = failures
    BY DEF RetryWithNonce, Moves
<1> HIDE DEF q
<1> QED
    BY <1>1, <1>2, <1>3, OneRequestMoves DEF RefreshIInv, Exchanged

\* Requests asked for, and a cookie that is not stale unless it was.
LEMMA AskedMoves ==
    ASSUME RefreshIInv, NEW c, NEW n, Asked(request, n, c), request' = n.request,
           failures' = failures, Stale' => Stale
    PROVE  RefreshIInv'
<1>1. RequestsOK(request')
    BY DEF Asked
<1>2. Exchanged(request[Refresher]) => request'[Refresher] = request[Refresher]
    BY DEF Asked, Exchanged
<1> QED
    BY <1>1, <1>2, Keeps DEF RefreshIInv

LEMMA ReceiveStep ==
    ASSUME RefreshIInv, NEW c \in Caller, Receive(c)
    PROVE  RefreshIInv'
<1>1. c \in Thread /\ RequestOK(c, request[c]) /\ request[c].call # "refresh"
    BY DEF Receive, Caller, RefreshIInv, RequestsOK, RequestOK
<1>2. failures' = failures /\ cookie' = CookieAfter(c, request[c].answer.status)
    BY DEF Receive
<1>3. Stale' => Stale
    BY <1>1, <1>2 DEF Stale, CookieAfter, Cookie
<1>4. CASE request[c].answer.status = "unauthorized" /\ ~request[c].second
    <2> DEFINE q == Queued(request[c].call, None, None, TRUE)
               n == AwaitRefresh(request, Leave(c), c, q)
    <2>1. RequestOK(c, q)
        BY <1>1, RefresherIsCaller DEF RequestOK, Queued, Shape, NoAnswer
    <2>2. request' = n.request
        BY <1>4 DEF Receive
    <2>3. Asked(request, n, c)
        BY <1>1, <2>1, AwaitRefreshOK DEF RefreshIInv
    <2> QED
        BY <1>2, <1>3, <2>2, <2>3, AskedMoves
<1>5. CASE ~(request[c].answer.status = "unauthorized" /\ ~request[c].second)
    <2> DEFINE q == [request[c] EXCEPT !.pc = "done", !.nonce = None,
                                       !.answer = [status |-> request[c].answer.status,
                                                   nonce |-> None]]
    <2>1. RequestOK(c, q)
        <3> DEFINE q1 == [request[c] EXCEPT !.pc = "done"]
                   q2 == [q1 EXCEPT !.nonce = None]
                   an == [status |-> request[c].answer.status, nonce |-> None]
        <3>1. q = [q2 EXCEPT !.answer = an]
            BY <1>1 DEF RequestOK, Shape
        <3>2. RequestOK(c, q1) /\ c # Refresher
            BY <1>1, SetPc, RefresherIsCaller
        <3> HIDE DEF q, q1
        <3>3. RequestOK(c, q2)
            BY <3>2, SetNonce
        <3>4. an = [status |-> an.status, nonce |-> an.nonce]
            OBVIOUS
        <3> HIDE DEF q2, an
        <3> QED
            BY <3>1, <3>2, <3>3, <3>4, SetAnswer
    <2>2. Moves(request, request', c, q)
        BY <1>5 DEF Receive, Moves
    <2> HIDE DEF q
    <2>3. RequestsOK(request') /\ request'[Refresher] = request[Refresher]
        BY <1>1, <2>1, <2>2, ReplaceOne, RefresherIsCaller DEF RefreshIInv
    <2> QED
        BY <1>2, <1>3, <2>3, Keeps DEF RefreshIInv
<1> QED
    BY <1>4, <1>5

LEMMA RefreshEndsStep ==
    ASSUME RefreshIInv, RefreshEnds
    PROVE  RefreshIInv'
<1> DEFINE q == request[Refresher]
           t == IF q.answer.status = "ok" THEN Token(cookie.who, TRUE) ELSE None
<1>1. /\ q.pc = "answered" /\ q.call = "refresh" /\ failures' = failures
      /\ cookie' = CookieAfter(Refresher, q.answer.status)
    BY RefresherIsCaller DEF RefreshEnds, RefreshIInv, RequestsOK, RequestOK
<1>2. failures = 0 => ~Stale'
    <2>1. CASE q.answer.status = "ok"
        BY <1>1, <2>1 DEF Stale, CookieAfter, Cookie
    <2>2. CASE q.answer.status # "ok"
        BY <1>1, <2>2 DEF RefreshIInv, Exchanged, Stale, CookieAfter
    <2> QED
        BY <2>1, <2>2
<1>3. request' = [c \in Caller |->
               CASE c = Refresher -> NoRequest
                 [] c \in Waiting -> Resumed(request[c], t)
                 [] OTHER         -> request[c]]
    BY DEF RefreshEnds
<1> HIDE DEF t
<1>4. ASSUME NEW c \in Caller PROVE RequestOK(c, request'[c])
    <2>1. RequestOK(c, request[c])
        BY DEF RefreshIInv, RequestsOK
    <2>2. CASE c = Refresher
        <3>1. request'[c] = NoRequest
            <4>1. Refresher \notin Waiting
                BY RefresherIsCaller DEF Waiting
            <4> QED
                BY <1>3, <2>2, <4>1
        <3> QED
            BY <3>1, NoRequestOK
    <2>3. CASE c # Refresher /\ c \in Waiting
        <3>1. request'[c] = Resumed(request[c], t)
            BY <1>3, <2>3
        <3> DEFINE r == request[c]
                   an == [status |-> "unauthorized", nonce |-> None]
                   r1 == [r EXCEPT !.pc = "done"]
                   r2 == [r EXCEPT !.pc = "queued"]
        <3>2. Resumed(r, t) \in {[r1 EXCEPT !.answer = an], [r2 EXCEPT !.token = t]}
            BY <2>1 DEF Resumed, RequestOK, Shape
        <3>3. RequestOK(c, r1) /\ RequestOK(c, r2)
            BY <2>1, <2>3, SetPc
        <3>4. an = [status |-> an.status, nonce |-> an.nonce]
            OBVIOUS
        <3> HIDE DEF r1, r2, an
        <3>5. RequestOK(c, [r1 EXCEPT !.answer = an]) /\ RequestOK(c, [r2 EXCEPT !.token = t])
            BY <2>3, <3>3, <3>4, SetAnswer, SetToken
        <3> QED
            BY <3>1, <3>2, <3>5
    <2>4. CASE c # Refresher /\ c \notin Waiting
        BY <1>3, <2>1, <2>4
    <2> QED
        BY <2>2, <2>3, <2>4
<1>5. RequestsOK(request')
    BY <1>3, <1>4 DEF RequestsOK
<1> QED
    BY <1>1, <1>2, <1>5, Keeps DEF RefreshIInv

LEMMA ClientStepOK ==
    ASSUME RefreshIInv, ClientStep
    PROVE  RefreshIInv'
<1>1. ASSUME NEW c \in Caller, MakeKey(c) \/ StoreKey(c) PROVE RefreshIInv'
    BY <1>1, Elsewhere DEF MakeKey, StoreKey
<1>2. CASE NonceExpires
    BY <1>2, Elsewhere DEF NonceExpires, Expire
<1> QED
    BY <1>1, <1>2, SendStep, ServeStep, FailsStep, TokenExpiresStep, RetryStep, ReceiveStep,
       RefreshEndsStep DEF ClientStep, Progress

----------------------------------------------------------------------------
(* One lemma per action of AuthSession that moves requests or the cookie *)

LEMMA StartStep ==
    ASSUME RefreshIInv, NEW t \in Thread, NEW kind, NEW call, call # "refresh", NEW u,
           Start(t, kind, call, u)
    PROVE  RefreshIInv'
<1> DEFINE n == Ask(request, gate, t, call, u, token)
<1>1. request' = n.request /\ cookie' = cookie /\ failures' = failures
    BY DEF Start
<1>2. Asked(request, n, t)
    BY AskOK DEF RefreshIInv
<1> HIDE DEF n
<1>3. Stale' => Stale
    BY <1>1 DEF Stale
<1> QED
    BY <1>1, <1>2, <1>3, AskedMoves

LEMMA ContinueStep ==
    ASSUME RefreshIInv, NEW t \in Thread, NEW kind, NEW call, call # "refresh", NEW tok,
           Continue(t, kind, call, tok)
    PROVE  RefreshIInv'
<1> DEFINE n == Ask(request, gate, t, call, op[t].who, tok)
<1>1. request' = n.request /\ cookie' = cookie /\ failures' = failures
    BY DEF Continue
<1>2. Asked(request, n, t)
    BY AskOK DEF RefreshIInv
<1> HIDE DEF n
<1>3. Stale' => Stale
    BY <1>1 DEF Stale
<1> QED
    BY <1>1, <1>2, <1>3, AskedMoves

LEMMA FinishStep ==
    ASSUME RefreshIInv, NEW t \in Thread, Finish(t)
    PROVE  RefreshIInv'
<1>1. t \in Caller /\ t # Refresher
    BY RefresherIsCaller DEF Caller
<1>2. Moves(request, request', t, NoRequest) /\ cookie' = cookie /\ failures' = failures
    BY DEF Finish, Moves
<1> QED
    BY <1>1, <1>2, NoRequestOK, OneRequestMoves DEF RefreshIInv

LEMMA EndsStep ==
    ASSUME RefreshIInv, Ends
    PROVE  RefreshIInv'
<1>1. PICK t \in Thread : \/ SessionChecked(t) \/ Registered(t) \/ LoginAnswered(t)
                          \/ LoginEnds(t) \/ LogoutEnds(t) \/ QueryEnds(t)
    BY DEF Ends
<1>2. CASE Registered(t)
    BY <1>2, ContinueStep, FinishStep DEF Registered
<1>3. CASE LoginAnswered(t)
    BY <1>3, ContinueStep, FinishStep DEF LoginAnswered
<1>4. CASE SessionChecked(t) \/ LoginEnds(t) \/ LogoutEnds(t) \/ QueryEnds(t)
    BY <1>4, FinishStep DEF SessionChecked, LoginEnds, LogoutEnds, QueryEnds
<1> QED
    BY <1>1, <1>2, <1>3, <1>4

LEMMA NothingAsked ==
    ASSUME NEW r, r = [c \in Caller |-> NoRequest]
    PROVE  RequestsOK(r)
BY NoRequestOK DEF RequestsOK

\* A page that is loaded holds no answer to a refresh, and its cookie k is not stale.
LEMMA LoadStep ==
    ASSUME NEW p, NEW tok, NEW k, Load(p, tok, k), failures' \in Nat,
           failures' = 0 /\ k # None => k.current
    PROVE  RefreshIInv'
<1> DEFINE none == [c \in Caller |-> NoRequest]
           n1 == Ask(none, <<>>, "form", "whoami", None, tok)
           n2 == IF p = "callback" THEN Ask(n1.request, n1.gate, "session", "whoami", None, tok)
                 ELSE Ask(none, <<>>, "session", "whoami", None, tok)
<1>1. request' = n2.request /\ cookie' = k
    BY DEF Load
<1>2. RequestsOK(none)
    BY NothingAsked
<1> HIDE DEF none
<1>3. "form" \in Thread /\ "session" \in Thread
    BY SessionConstants
<1>4. RequestsOK(n1.request)
    BY <1>2, <1>3, AskOK DEF Asked
<1> HIDE DEF n1
<1>5. RequestsOK(n2.request)
    BY <1>2, <1>3, <1>4, AskOK DEF Asked
<1> HIDE DEF n2
<1>6. ~(failures' = 0 /\ Stale')
    BY <1>1 DEF Stale
<1> QED
    BY <1>1, <1>5, <1>6 DEF RefreshIInv

LEMMA ReloadStep ==
    ASSUME RefreshIInv, Reload
    PROVE  RefreshIInv'
<1>1. PICK k \in KeptCookie : Load(page, None, k)
    BY DEF Reload
<1>2. failures \in Nat /\ IF InterruptedRefresh THEN failures' = failures + 1
                          ELSE failures' = failures
    BY DEF Reload, Fail, RefreshIInv
<1>3. failures' \in Nat /\ (failures' = 0 => failures = 0 /\ ~InterruptedRefresh)
    BY <1>2
<1>4. failures' = 0 => k = cookie /\ ~Stale
    BY <1>3 DEF InterruptedRefresh, KeptCookie, RefreshIInv, Exchanged
<1> QED
    BY <1>1, <1>3, <1>4, LoadStep DEF Stale

LEMMA GoogleReturnsStep ==
    ASSUME RefreshIInv, NEW u, GoogleReturns(u)
    PROVE  RefreshIInv'
<1> DEFINE k == Cookie(u, urlKey = keys)
<1>1. Load("callback", Token(u, urlKey = keys), k) /\ failures' = failures
    BY DEF GoogleReturns
<1>2. k.current
    BY DEF Cookie
<1> HIDE DEF k
<1> QED
    BY <1>1, <1>2, LoadStep DEF RefreshIInv

----------------------------------------------------------------------------

LEMMA SessionInitOK ==
    ASSUME SessionInit
    PROVE  RefreshIInv
<1> DEFINE none == [c \in Caller |-> NoRequest]
           n == Ask(none, <<>>, "session", "whoami", None, None)
<1>1. PICK u \in User \cup {None} :
          ClientInit(n, IF u = None THEN None ELSE Cookie(u, TRUE))
    BY DEF SessionInit
<1>2. request = n.request /\ failures = 0 /\ ~Stale
    BY <1>1 DEF ClientInit, Stale, Cookie
<1>3. RequestsOK(none)
    BY NothingAsked
<1> HIDE DEF none
<1>4. RequestsOK(n.request)
    BY <1>3, AskOK, SessionConstants DEF Asked
<1> HIDE DEF n
<1> QED
    BY <1>2, <1>4 DEF RefreshIInv

LEMMA SessionStep ==
    ASSUME RefreshIInv, [SessionNext]_sessionVars
    PROVE  RefreshIInv'
<1>1. CASE Transport
    BY <1>1, ClientStepOK DEF Transport
<1>2. CASE Ends
    BY <1>2, EndsStep
<1>3. CASE Poll \/ Logout
    BY <1>3, StartStep, SessionConstants DEF Poll, Logout
<1>4. ASSUME NEW u \in User, LoginPage(u) \/ RegisterPage(u) PROVE RefreshIInv'
    BY <1>4, StartStep, SessionConstants DEF LoginPage, RegisterPage
<1>5. CASE Reload
    BY <1>5, ReloadStep
<1>6. ASSUME NEW u \in User, GoogleReturns(u) PROVE RefreshIInv'
    BY <1>6, GoogleReturnsStep
<1>7. CASE Redirect \/ GoogleClick \/ GoogleKey
    BY <1>7, Elsewhere DEF Redirect, GoogleClick, GoogleKey, MakeKey, StoreKey, clientVars
<1>8. ASSUME NEW p \in Pages, Navigate(p) PROVE RefreshIInv'
    BY <1>8, Elsewhere DEF Navigate, clientVars
<1>9. CASE UNCHANGED sessionVars
    BY <1>9, Elsewhere DEF sessionVars, clientVars
<1> QED
    BY <1>1, <1>2, <1>3, <1>4, <1>5, <1>6, <1>7, <1>8, <1>9 DEF SessionNext

(***************************************************************************)
(* refreshAccessToken, /auth/refresh: a cookie that the service has        *)
(* already exchanged stays in the browser only while the answer to that    *)
(* exchange is on its way, and until then every caller shares it - whatever *)
(* logins, logouts, polls, reloads and returns from Google overlap.        *)
(***************************************************************************)
THEOREM RefreshInvariant == SessionSpec => []RefreshIInv
<1>1. SessionInit => RefreshIInv
    BY SessionInitOK
<1>2. RefreshIInv /\ [SessionNext]_sessionVars => RefreshIInv'
    BY SessionStep
<1> QED
    BY <1>1, <1>2, PTL DEF SessionSpec

(***************************************************************************)
(* refreshPromise: as long as nothing fails, the refresh that a tab sends  *)
(* carries a cookie that the service has not exchanged before, which it    *)
(* would take for a stolen one and end the session.                        *)
(***************************************************************************)
THEOREM RefreshCookieIsFresh == SessionSpec => []CookieIsPresentedOnce
<1>1. RefreshIInv => CookieIsPresentedOnce
    BY DEF RefreshIInv, CookieIsPresentedOnce, Exchanged, Stale
<1> QED
    BY <1>1, RefreshInvariant, PTL

----------------------------------------------------------------------------
(* The client: requests, their places in the gate, their answers *)

Tokens  == [who : User, fresh : BOOLEAN, bound : BOOLEAN]
Cookies == [who : User, current : BOOLEAN, bound : BOOLEAN]
Answers ==
    [status : {"none", "ok", "refused", "unauthorized", "challenge", "unavailable", "lost"},
     nonce : Nonce \cup {None}]

Calls == {"none", "whoami", "query", "login", "register", "logout", "refresh"}

Requests ==
    [pc : {"none", "queued", "sent", "answered", "waiting", "done"}, call : Calls,
     who : User \cup {None}, token : Tokens \cup {None}, nonce : Nonce \cup {None},
     retries : Nat, second : BOOLEAN, answer : Answers]

OnWire(q)    == q.pc \in {"sent", "answered"}
Asking(q)    == q.pc = "queued" \/ OnWire(q)
Within(g, c) == \E i \in DOMAIN g : g[i] = c

\* The gate g holds every caller of r once that has asked for it, and lets the
\* first one out.
GateFor(r, g) ==
    /\ g \in Seq(Caller)
    /\ \A i, j \in DOMAIN g : g[i] = g[j] => i = j
    /\ \A c \in Caller : Within(g, c) <=> Asking(r[c])
    /\ \A c \in Caller : OnWire(r[c]) => g[1] = c

\* What a request carries, by how far it is.
FieldsOK(c, q) ==
    /\ q.pc = "none" <=> q = NoRequest
    /\ q.pc # "none" => q.call # "none" /\ (q.call = "refresh" <=> c = Refresher)
    /\ c = Refresher => q.pc \notin {"waiting", "done"}
    /\ q.pc \in {"queued", "waiting"} => q.retries = 0
    /\ ~OnWire(q) => q.nonce = None /\ q.answer.nonce = None
    /\ q.pc = "sent" => q.answer.nonce = None
    /\ q.pc = "waiting" => q.token = None /\ Authenticated(q.call)
    /\ ~Authenticated(q.call) => q.token = None /\ ~q.second
    /\ q.second /\ q.token # None => q.token.fresh
    /\ q.second /\ Asking(q) => q.token # None

ClientFor(r, g) ==
    /\ r \in [Caller -> Requests]
    /\ \A c \in Caller : FieldsOK(c, r[c])
    /\ GateFor(r, g)

----------------------------------------------------------------------------
(* Lemmas on records *)

LEMMA NoneIsNone ==
    /\ None \notin Tokens /\ None \notin Cookies /\ None \notin User /\ None \notin Nonce
BY ClientConstants DEF Tokens, Cookies

LEMMA NoRequestFacts ==
    /\ NoRequest \in Requests /\ \A c : FieldsOK(c, NoRequest)
    /\ NoRequest.pc = "none" /\ ~Asking(NoRequest) /\ ~OnWire(NoRequest)
    /\ NoRequest.token = None /\ NoRequest.answer.nonce = None
    /\ NoRequest.answer.status = "none"
    /\ NoRequest.answer = NoAnswer /\ NoRequest.nonce = None
    /\ NoAnswer \in Answers /\ NoAnswer.nonce = None /\ NoAnswer.status = "none"
<1>1. NoAnswer \in Answers /\ NoAnswer.nonce = None /\ NoAnswer.status = "none"
    BY DEF NoAnswer, Answers
<1>2. NoRequest \in Requests
    BY <1>1 DEF NoRequest, Requests, Calls
<1>3. /\ NoRequest.pc = "none" /\ NoRequest.call = "none" /\ NoRequest.token = None
      /\ NoRequest.nonce = None /\ NoRequest.second = FALSE /\ NoRequest.answer = NoAnswer
    BY DEF NoRequest
<1> QED
    BY <1>1, <1>2, <1>3 DEF FieldsOK, Asking, OnWire, Authenticated

\* The pc of a request, alone.
LEMMA PcFacts ==
    ASSUME NEW q \in Requests, NEW x \in {"none", "queued", "sent", "answered", "waiting", "done"}
    PROVE  LET p == [q EXCEPT !.pc = x] IN
           /\ p \in Requests /\ p.pc = x
           /\ p.call = q.call /\ p.who = q.who /\ p.token = q.token /\ p.nonce = q.nonce
           /\ p.retries = q.retries /\ p.second = q.second /\ p.answer = q.answer
BY DEF Requests

LEMMA AnswerFacts ==
    ASSUME NEW q \in Requests, NEW a \in Answers, NEW x \in {"answered", "done"}
    PROVE  LET p == [q EXCEPT !.pc = x, !.answer = a] IN
           /\ p \in Requests /\ p.pc = x /\ p.answer = a
           /\ p.call = q.call /\ p.who = q.who /\ p.token = q.token /\ p.nonce = q.nonce
           /\ p.retries = q.retries /\ p.second = q.second
BY DEF Requests

LEMMA TokenFacts ==
    ASSUME NEW q \in Requests, NEW t \in Tokens \cup {None}
    PROVE  LET p == [q EXCEPT !.token = t] IN
           /\ p \in Requests /\ p.token = t
           /\ p.pc = q.pc /\ p.call = q.call /\ p.who = q.who /\ p.nonce = q.nonce
           /\ p.retries = q.retries /\ p.second = q.second /\ p.answer = q.answer
BY DEF Requests

LEMMA SentFacts ==
    ASSUME NEW q \in Requests, NEW n \in Nonce \cup {None}
    PROVE  LET p == [q EXCEPT !.pc = "sent", !.nonce = n] IN
           /\ p \in Requests /\ p.pc = "sent" /\ p.nonce = n
           /\ p.call = q.call /\ p.who = q.who /\ p.token = q.token
           /\ p.retries = q.retries /\ p.second = q.second /\ p.answer = q.answer
BY DEF Requests

LEMMA RetryFacts ==
    ASSUME NEW q \in Requests, NEW n \in Nonce \cup {None}
    PROVE  LET p == [q EXCEPT !.pc = "sent", !.nonce = n, !.retries = @ + 1,
                              !.answer = NoAnswer] IN
           /\ p \in Requests /\ p.pc = "sent" /\ p.nonce = n /\ p.retries = q.retries + 1
           /\ p.answer = NoAnswer
           /\ p.call = q.call /\ p.who = q.who /\ p.token = q.token /\ p.second = q.second
<1>1. /\ q.retries + 1 \in Nat /\ NoAnswer \in Answers
    BY NoRequestFacts DEF Requests
<1> HIDE DEF NoAnswer
<1>2. ASSUME NEW k \in Nat, NEW a \in Answers
      PROVE  LET p == [q EXCEPT !.pc = "sent", !.nonce = n, !.retries = k, !.answer = a] IN
             /\ p \in Requests /\ p.pc = "sent" /\ p.nonce = n /\ p.retries = k
             /\ p.answer = a
             /\ p.call = q.call /\ p.who = q.who /\ p.token = q.token /\ p.second = q.second
    BY DEF Requests
<1> QED
    BY <1>1, <1>2

LEMMA DoneFacts ==
    ASSUME NEW q \in Requests, NEW a \in Answers
    PROVE  LET p == [q EXCEPT !.pc = "done", !.nonce = None, !.answer = a] IN
           /\ p \in Requests /\ p.pc = "done" /\ p.nonce = None /\ p.answer = a
           /\ p.call = q.call /\ p.who = q.who /\ p.token = q.token
           /\ p.retries = q.retries /\ p.second = q.second
BY DEF Requests

LEMMA ResumedFacts ==
    ASSUME NEW q \in Requests, NEW t \in Tokens \cup {None}
    PROVE  LET p == [q EXCEPT !.pc = "queued", !.token = t] IN
           /\ p \in Requests /\ p.pc = "queued" /\ p.token = t
           /\ p.call = q.call /\ p.who = q.who /\ p.nonce = q.nonce
           /\ p.retries = q.retries /\ p.second = q.second /\ p.answer = q.answer
BY DEF Requests

----------------------------------------------------------------------------
(* Lemmas on the gate *)

\* Callers move along in their places.
LEMMA GateStays ==
    ASSUME NEW r, NEW s, NEW g, GateFor(r, g),
           \A c \in Caller : Asking(s[c]) <=> Asking(r[c]),
           \A c \in Caller : OnWire(s[c]) => g[1] = c
    PROVE  GateFor(s, g)
BY DEF GateFor

LEMMA GateTail ==
    ASSUME NEW r, NEW s, NEW g, GateFor(r, g), NEW c \in Caller, OnWire(r[c]),
           ~Asking(s[c]), \A d \in Caller \ {c} : s[d] = r[d]
    PROVE  /\ GateFor(s, Tail(g))
           /\ \A d \in Caller : ~OnWire(s[d])
           /\ g # <<>> /\ g[1] = c /\ Tail(g) \in Seq(Caller) /\ Len(Tail(g)) = Len(g) - 1
           /\ \A i \in DOMAIN Tail(g) : i + 1 \in DOMAIN g /\ Tail(g)[i] = g[i + 1]
           /\ \A i \in DOMAIN g : i # 1 => i - 1 \in DOMAIN Tail(g) /\ Tail(g)[i - 1] = g[i]
<1>1. g \in Seq(Caller) /\ Within(g, c) /\ g[1] = c
    BY DEF GateFor, Asking
<1>2. g # <<>>
    BY <1>1 DEF Within
<1>3. /\ Tail(g) \in Seq(Caller) /\ Len(Tail(g)) = Len(g) - 1 /\ Len(g) \in Nat
      /\ DOMAIN g = 1..Len(g) /\ DOMAIN Tail(g) = 1..(Len(g) - 1)
      /\ \A i \in 1..(Len(g) - 1) : Tail(g)[i] = g[i + 1]
    BY <1>1, <1>2
<1>4. \A i \in DOMAIN Tail(g) : i + 1 \in DOMAIN g /\ Tail(g)[i] = g[i + 1]
    BY <1>3
<1>5. \A i \in DOMAIN g : i # 1 => i - 1 \in DOMAIN Tail(g) /\ Tail(g)[i - 1] = g[i]
    BY <1>3
<1>6. \A i, j \in DOMAIN Tail(g) : Tail(g)[i] = Tail(g)[j] => i = j
    <2> SUFFICES ASSUME NEW i \in DOMAIN Tail(g), NEW j \in DOMAIN Tail(g),
                        Tail(g)[i] = Tail(g)[j]
                 PROVE  i = j
        OBVIOUS
    <2>1. i + 1 = j + 1
        BY <1>4 DEF GateFor
    <2> QED
        BY <1>3, <2>1
<1>7. ASSUME NEW d \in Caller PROVE Within(Tail(g), d) <=> Within(g, d) /\ d # c
    <2>1. ASSUME NEW i \in DOMAIN Tail(g), Tail(g)[i] = d PROVE Within(g, d) /\ d # c
        <3>1. i + 1 \in DOMAIN g /\ g[i + 1] = d /\ i + 1 # 1 /\ 1 \in DOMAIN g
            BY <1>3, <1>4, <2>1
        <3> QED
            BY <1>1, <3>1 DEF GateFor, Within
    <2>2. ASSUME NEW i \in DOMAIN g, g[i] = d, d # c PROVE Within(Tail(g), d)
        BY <1>1, <1>5, <2>2 DEF Within
    <2> QED
        BY <2>1, <2>2 DEF Within
<1>8. \A d \in Caller : ~OnWire(s[d])
    BY <1>1 DEF GateFor, Asking
<1>9. \A d \in Caller : Within(Tail(g), d) <=> Asking(s[d])
    BY <1>7 DEF GateFor
<1> QED
    BY <1>1, <1>2, <1>3, <1>4, <1>5, <1>6, <1>8, <1>9 DEF GateFor

LEMMA GateAppend ==
    ASSUME NEW r, NEW s, NEW g, GateFor(r, g), NEW c \in Caller, ~Asking(r[c]),
           s[c].pc = "queued",
           \A d \in Caller \ {c} : /\ Asking(s[d]) <=> Asking(r[d])
                                   /\ OnWire(s[d]) => OnWire(r[d])
    PROVE  GateFor(s, Append(g, c))
<1> DEFINE h == Append(g, c)
<1>1. /\ g \in Seq(Caller) /\ h \in Seq(Caller) /\ Len(h) = Len(g) + 1 /\ Len(g) \in Nat
      /\ DOMAIN g = 1..Len(g) /\ DOMAIN h = 1..(Len(g) + 1)
      /\ \A i \in 1..Len(g) : h[i] = g[i]
      /\ h[Len(g) + 1] = c
    BY DEF GateFor
<1> HIDE DEF h
<1>2. ~Within(g, c)
    BY DEF GateFor
<1>3. ASSUME NEW i \in DOMAIN h, NEW j \in DOMAIN h, h[i] = h[j] PROVE i = j
    <2>1. CASE i \in DOMAIN g /\ j \in DOMAIN g
        BY <1>1, <1>3, <2>1 DEF GateFor
    <2>2. CASE ~(i \in DOMAIN g /\ j \in DOMAIN g)
        <3>1. (i \in DOMAIN g \/ i = Len(g) + 1) /\ (j \in DOMAIN g \/ j = Len(g) + 1)
            BY <1>1
        <3>2. \A k \in DOMAIN g : h[k] # c
            BY <1>1, <1>2 DEF Within
        <3> QED
            BY <1>1, <1>3, <2>2, <3>1, <3>2
    <2> QED
        BY <2>1, <2>2
<1>4. \A d \in Caller : Within(h, d) <=> Within(g, d) \/ d = c
    <2>1. \A i \in DOMAIN g : i \in DOMAIN h /\ h[i] = g[i]
        BY <1>1
    <2>2. \A i \in DOMAIN h : i \in DOMAIN g \/ h[i] = c
        BY <1>1
    <2>3. Within(h, c)
        BY <1>1 DEF Within
    <2> QED
        BY <2>1, <2>2, <2>3 DEF Within
<1>5. Asking(s[c]) /\ ~OnWire(s[c])
    BY DEF Asking, OnWire
<1>6. \A d \in Caller : Within(h, d) <=> Asking(s[d])
    BY <1>4, <1>5 DEF GateFor
<1>7. ASSUME NEW d \in Caller, OnWire(s[d]) PROVE h[1] = d
    <2>1. g[1] = d /\ Within(g, d)
        BY <1>5, <1>7 DEF GateFor, Asking
    <2>2. 1 \in DOMAIN g
        BY <1>1, <2>1 DEF Within
    <2> QED
        BY <1>1, <2>1, <2>2
<1>8. GateFor(s, h)
    BY <1>1, <1>3, <1>6, <1>7 DEF GateFor
<1> QED
    BY <1>8 DEF h

\* Whoever is in the gate g is at the same place in h.
Grows(g, h) == \A i \in DOMAIN g : i \in DOMAIN h /\ h[i] = g[i]

Before(g, c, d) == \E i, j \in DOMAIN g : i < j /\ g[i] = c /\ g[j] = d

LEMMA GrowsKeeps ==
    ASSUME NEW g, NEW h, Grows(g, h)
    PROVE  /\ \A c : Within(g, c) => Within(h, c)
           /\ \A c, d : Before(g, c, d) => Before(h, c, d)
BY DEF Grows, Within, Before

LEMMA AppendGrows ==
    ASSUME NEW g \in Seq(Caller), NEW c \in Caller
    PROVE  /\ Grows(g, Append(g, c))
           /\ \A d : Within(g, d) => Before(Append(g, c), d, c)
<1> DEFINE h == Append(g, c)
<1>1. /\ Len(g) \in Nat /\ DOMAIN g = 1..Len(g) /\ DOMAIN h = 1..(Len(g) + 1)
      /\ \A i \in 1..Len(g) : h[i] = g[i]
      /\ h[Len(g) + 1] = c
    OBVIOUS
<1> HIDE DEF h
<1>2. Grows(g, h)
    BY <1>1 DEF Grows
<1>3. ASSUME NEW d, Within(g, d) PROVE Before(h, d, c)
    <2>1. PICK i \in DOMAIN g : g[i] = d
        BY <1>3 DEF Within
    <2>2. i \in DOMAIN h /\ Len(g) + 1 \in DOMAIN h /\ i < Len(g) + 1 /\ h[i] = d
        BY <1>1, <2>1
    <2> QED
        BY <1>1, <2>2 DEF Before
<1> QED
    BY <1>2, <1>3 DEF h

\* The first caller of g has left, and the others have moved up.
LEMMA TailKeeps ==
    ASSUME NEW g, NEW h,
           DOMAIN g \subseteq Nat \ {0},
           \A i \in DOMAIN g : i # 1 => i - 1 \in DOMAIN h /\ h[i - 1] = g[i]
    PROVE  /\ \A d : Within(g, d) /\ g[1] # d => Within(h, d)
           /\ \A d, e : Before(g, d, e) /\ g[1] # d => Before(h, d, e)
<1>1. ASSUME NEW d, Within(g, d), g[1] # d PROVE Within(h, d)
    BY <1>1 DEF Within
<1>2. ASSUME NEW d, NEW e, Before(g, d, e), g[1] # d PROVE Before(h, d, e)
    <2>1. PICK i \in DOMAIN g : \E j \in DOMAIN g : i < j /\ g[i] = d /\ g[j] = e
        BY <1>2 DEF Before
    <2>2. PICK j \in DOMAIN g : i < j /\ g[i] = d /\ g[j] = e
        BY <2>1
    <2>3. i # 1 /\ i \in Nat /\ j \in Nat
        BY <1>2, <2>2
    <2>4. j # 1
        BY <2>2, <2>3
    <2>5. i - 1 \in DOMAIN h /\ h[i - 1] = d /\ j - 1 \in DOMAIN h /\ h[j - 1] = e
        BY <2>2, <2>3, <2>4
    <2>6. i - 1 < j - 1
        BY <2>2, <2>3
    <2> QED
        BY <2>5, <2>6 DEF Before
<1> QED
    BY <1>1, <1>2

\* The callers of W come after those of g, in any order.
LEMMA GateConcat ==
    ASSUME NEW r, NEW s, NEW g, GateFor(r, g), NEW W \in SUBSET Caller,
           NEW order \in SetToSeqs(W), IsFiniteSet(W),
           \A c \in W : ~Asking(r[c]) /\ s[c].pc = "queued",
           \A c \in Caller \ W : Asking(s[c]) <=> Asking(r[c]),
           \A c \in Caller : ~OnWire(s[c])
    PROVE  GateFor(s, g \o order) /\ Grows(g, g \o order)
<1> DEFINE h == g \o order
           n == Cardinality(W)
<1>1. /\ n \in Nat /\ order \in [1..n -> W]
      /\ \A i, j \in 1..n : i # j => order[i] # order[j]
    BY FS_CardinalityType DEF SetToSeqs
<1>2. \A c \in W : \E i \in 1..n : order[i] = c
    <2>1. IsFiniteSet(1..n) /\ Cardinality(1..n) = n
        BY <1>1, FS_Interval
    <2>2. order \in Injection(1..n, W)
        BY <1>1 DEF Injection, IsInjective
    <2>3. order \in Surjection(1..n, W)
        BY <2>1, <2>2, FS_Injection
    <2> QED
        BY <2>3 DEF Surjection
<1> HIDE DEF n
<1>3. order \in Seq(Caller) /\ Len(order) = n
    BY <1>1
<1>4. /\ g \in Seq(Caller) /\ h \in Seq(Caller) /\ Len(g) \in Nat
      /\ DOMAIN g = 1..Len(g) /\ DOMAIN h = 1..(Len(g) + n)
      /\ \A i \in 1..Len(g) : h[i] = g[i]
      /\ \A i \in 1..n : h[Len(g) + i] = order[i]
    BY <1>1, <1>3 DEF GateFor
<1> HIDE DEF h
<1>5. \A i \in DOMAIN h : \/ i \in DOMAIN g /\ h[i] = g[i]
                          \/ \E k \in 1..n : i = Len(g) + k /\ h[i] = order[k]
    <2> SUFFICES ASSUME NEW i \in DOMAIN h, i \notin DOMAIN g
                 PROVE  \E k \in 1..n : i = Len(g) + k /\ h[i] = order[k]
        BY <1>4
    <2>1. i - Len(g) \in 1..n /\ i = Len(g) + (i - Len(g))
        BY <1>1, <1>4
    <2> QED
        BY <1>4, <2>1
<1>6. \A i \in DOMAIN g : g[i] \notin W
    BY DEF GateFor, Within
<1>7. \A k \in 1..n : order[k] \in W
    BY <1>1
<1>8. ASSUME NEW i \in DOMAIN h, NEW j \in DOMAIN h, h[i] = h[j] PROVE i = j
    <2>1. CASE i \in DOMAIN g /\ j \in DOMAIN g /\ h[i] = g[i] /\ h[j] = g[j]
        BY <1>8, <2>1 DEF GateFor
    <2>2. ASSUME NEW k \in 1..n, NEW l \in 1..n, i = Len(g) + k, h[i] = order[k],
                 j = Len(g) + l, h[j] = order[l]
          PROVE  i = j
        <3>1. k = l
            BY <1>1, <1>8, <2>2
        <3> QED
            BY <2>2, <3>1
    <2> QED
        BY <1>5, <1>6, <1>7, <1>8, <2>1, <2>2
<1>9. \A c \in Caller : Within(h, c) <=> Within(g, c) \/ c \in W
    <2>1. \A i \in DOMAIN g : i \in DOMAIN h /\ h[i] = g[i]
        BY <1>1, <1>4
    <2>2. \A k \in 1..n : Len(g) + k \in DOMAIN h /\ h[Len(g) + k] = order[k]
        BY <1>1, <1>4
    <2>3. \A c \in W : Within(h, c)
        BY <1>2, <2>2 DEF Within
    <2> QED
        BY <1>5, <1>7, <2>1, <2>3 DEF Within
<1>10. \A c \in Caller : Within(h, c) <=> Asking(s[c])
    BY <1>9 DEF GateFor, Asking
<1>11. GateFor(s, h)
    BY <1>4, <1>8, <1>10 DEF GateFor
<1>12. Grows(g, h)
    BY <1>1, <1>4 DEF Grows
<1> QED
    BY <1>11, <1>12 DEF h

----------------------------------------------------------------------------
(* apiRequest *)

\* What a call by c that has none in the gate g does to the requests r.
AskedFor(r, g, n, c) ==
    /\ ClientFor(n.request, n.gate) /\ Grows(g, n.gate)
    /\ \A d \in Thread \ {c} : n.request[d] = r[d]
    /\ \/ n.request[Refresher] = r[Refresher]
       \/ /\ r[Refresher].pc = "none" /\ n.request[Refresher].pc = "queued"
          /\ n.request[Refresher].token = None
          /\ n.request[Refresher].answer = NoAnswer

LEMMA QueuedOK ==
    ASSUME NEW c \in Caller, NEW q \in Requests, q.pc = "queued", q.retries = 0,
           q.nonce = None, q.answer = NoAnswer, q.call # "none", q.call = "refresh" <=> c = Refresher,
           ~Authenticated(q.call) => q.token = None /\ ~q.second,
           q.second => q.token # None /\ q.token.fresh
    PROVE  FieldsOK(c, q)
BY NoRequestFacts DEF FieldsOK, OnWire, Asking

LEMMA EnqueueResult ==
    ASSUME NEW r, NEW g, ClientFor(r, g), NEW c \in Caller, ~Asking(r[c]),
           NEW q \in Requests, q.pc = "queued", FieldsOK(c, q)
    PROVE  LET n == Enqueue(r, g, c, q) IN
           /\ ClientFor(n.request, n.gate)
           /\ Grows(g, n.gate) /\ n.gate = Append(g, c)
           /\ n.request[c] = q /\ \A d \in Caller \ {c} : n.request[d] = r[d]
<1> DEFINE n == Enqueue(r, g, c, q)
<1>1. n.request = [r EXCEPT ![c] = q] /\ n.gate = Append(g, c)
    BY DEF Enqueue
<1> HIDE DEF n
<1>2. /\ n.request \in [Caller -> Requests] /\ n.request[c] = q
      /\ \A d \in Caller \ {c} : n.request[d] = r[d]
    BY <1>1 DEF ClientFor
<1>3. \A d \in Caller : FieldsOK(d, n.request[d])
    BY <1>2 DEF ClientFor
<1>4. GateFor(n.request, n.gate)
    <2>1. PICK s : s = n.request
        OBVIOUS
    <2>2. s[c] = q /\ \A d \in Caller \ {c} : s[d] = r[d]
        BY <1>2, <2>1
    <2>3. GateFor(r, g)
        BY DEF ClientFor
    <2>4. s[c].pc = "queued"
        BY <2>2
    <2>5. \A d \in Caller \ {c} : /\ Asking(s[d]) <=> Asking(r[d])
                                  /\ OnWire(s[d]) => OnWire(r[d])
        BY <2>2
    <2>6. GateFor(s, Append(g, c))
        BY <2>3, <2>4, <2>5, GateAppend
    <2> QED
        BY <1>1, <2>1, <2>6
<1>5. Grows(g, n.gate)
    BY <1>1, AppendGrows DEF ClientFor, GateFor
<1> QED
    BY <1>1, <1>2, <1>3, <1>4, <1>5 DEF ClientFor, n

\* A caller that awaits the refresh.
LEMMA AwaitResult ==
    ASSUME NEW r, NEW g, ClientFor(r, g), NEW c \in Thread, ~Asking(r[c]),
           NEW q \in Requests, q.token = None, q.nonce = None, q.retries = 0,
           q.answer = NoAnswer, Authenticated(q.call)
    PROVE  LET n == AwaitRefresh(r, g, c, q) IN
           /\ AskedFor(r, g, n, c)
           /\ n.request[c] = [q EXCEPT !.pc = "waiting"]
<1> DEFINE n == AwaitRefresh(r, g, c, q)
           w == [q EXCEPT !.pc = "waiting"]
           s == [r EXCEPT ![c] = w]
           a == Queued("refresh", None, None, FALSE)
<1>0. /\ c \in Caller /\ c # Refresher /\ Refresher \in Caller
      /\ Thread \subseteq Caller \ {Refresher}
    BY RefresherIsCaller DEF Caller
<1>1. /\ w \in Requests /\ w.pc = "waiting" /\ w.call = q.call /\ w.token = None
      /\ w.nonce = None /\ w.retries = 0 /\ w.answer = NoAnswer
    BY PcFacts
<1>2. FieldsOK(c, w)
    BY <1>0, <1>1, NoRequestFacts DEF FieldsOK, OnWire, Asking, Authenticated
<1> HIDE DEF w
<1>3. /\ s \in [Caller -> Requests] /\ s[c] = w
      /\ \A d \in Caller \ {c} : s[d] = r[d]
    BY <1>0, <1>1 DEF ClientFor
<1>n. n = IF r[Refresher].pc # "none" THEN [request |-> s, gate |-> g]
          ELSE Enqueue(s, g, Refresher, a)
    BY DEF AwaitRefresh, w
<1> HIDE DEF s, n
<1>4. ~Asking(w) /\ ~OnWire(w)
    BY <1>1 DEF Asking, OnWire
<1>5. GateFor(s, g)
    <2>1. \A d \in Caller : Asking(s[d]) <=> Asking(r[d])
        BY <1>3, <1>4
    <2>2. \A d \in Caller : OnWire(s[d]) => OnWire(r[d])
        BY <1>3, <1>4
    <2> QED
        BY <2>1, <2>2, GateStays DEF ClientFor, GateFor
<1>6. ClientFor(s, g)
    BY <1>2, <1>3, <1>5 DEF ClientFor
<1>7. CASE r[Refresher].pc # "none"
    <2>1. n.request = s /\ n.gate = g
        BY <1>7, <1>n
    <2> QED
        BY <1>0, <1>3, <1>6, <2>1 DEF AskedFor, Grows, n, w
<1>8. CASE r[Refresher].pc = "none"
    <2>1. /\ a \in Requests /\ a.pc = "queued" /\ a.call = "refresh" /\ a.token = None
          /\ a.nonce = None /\ a.retries = 0 /\ a.second = FALSE /\ a.answer = NoAnswer
        BY NoRequestFacts DEF Queued, Requests, Calls
    <2>2. n = Enqueue(s, g, Refresher, a)
        BY <1>8, <1>n
    <2> HIDE DEF a
    <2>3. FieldsOK(Refresher, a)
        BY <1>0, <2>1, QueuedOK
    <2>4. s[Refresher] = r[Refresher] /\ ~Asking(s[Refresher])
        BY <1>0, <1>3, <1>8 DEF Asking, OnWire
    <2>5. /\ ClientFor(n.request, n.gate) /\ Grows(g, n.gate)
          /\ n.request[Refresher] = a
          /\ \A d \in Caller \ {Refresher} : n.request[d] = s[d]
        BY <1>0, <1>6, <2>1, <2>2, <2>3, <2>4, EnqueueResult
    <2>6. n.request[c] = w /\ \A d \in Thread \ {c} : n.request[d] = r[d]
        BY <1>0, <1>3, <2>5
    <2> QED
        BY <1>8, <2>1, <2>5, <2>6 DEF AskedFor, n, w
<1> QED
    BY <1>7, <1>8

\* A call of operation c for user u, with token t in memory.
LEMMA AskResult ==
    ASSUME NEW r, NEW g, ClientFor(r, g), NEW c \in Thread, ~Asking(r[c]),
           NEW call \in Calls \ {"none", "refresh"}, NEW u \in User \cup {None},
           NEW t \in Tokens \cup {None}
    PROVE  LET n == Ask(r, g, c, call, u, t)
               q == n.request[c]
           IN  /\ AskedFor(r, g, n, c)
               /\ q.call = call /\ q.who = u /\ ~q.second /\ q.token \in {t, None}
               /\ q.answer = NoAnswer /\ q.nonce = None
               /\ q.pc = "queued" \/ (q.pc = "waiting" /\ q.token = None)
               /\ Authenticated(call) /\ Usable(t) => q.token = t
               /\ q.pc = "queued" => n.gate = Append(g, c)
<1> DEFINE n == Ask(r, g, c, call, u, t)
<1>0. /\ c \in Caller /\ c # Refresher /\ Refresher \in Caller
      /\ Thread \subseteq Caller \ {Refresher}
    BY RefresherIsCaller DEF Caller
<1>1. CASE Authenticated(call) /\ ~Usable(t)
    <2> DEFINE q == Queued(call, u, None, FALSE)
    <2>1. /\ q \in Requests /\ q.call = call /\ q.who = u /\ q.token = None
          /\ q.nonce = None /\ q.retries = 0 /\ q.second = FALSE /\ q.answer = NoAnswer
        BY NoRequestFacts DEF Queued, Requests
    <2>2. n = AwaitRefresh(r, g, c, q)
        BY <1>1 DEF Ask
    <2> HIDE DEF q, n
    <2>3. AskedFor(r, g, n, c) /\ n.request[c] = [q EXCEPT !.pc = "waiting"]
        BY <1>1, <2>1, <2>2, AwaitResult
    <2>4. /\ n.request[c].pc = "waiting" /\ n.request[c].call = call /\ n.request[c].who = u
          /\ n.request[c].token = None /\ n.request[c].nonce = None
          /\ n.request[c].second = FALSE /\ n.request[c].answer = NoAnswer
        BY <2>1, <2>3, PcFacts
    <2> QED
        BY <1>1, <2>3, <2>4 DEF n
<1>2. CASE ~(Authenticated(call) /\ ~Usable(t))
    <2> DEFINE k == IF Authenticated(call) THEN t ELSE None
               q == Queued(call, u, k, FALSE)
    <2>1. k \in Tokens \cup {None} /\ k \in {t, None} /\ (~Authenticated(call) => k = None)
        OBVIOUS
    <2>2. n = Enqueue(r, g, c, q)
        BY <1>2 DEF Ask
    <2>6. Authenticated(call) => k = t
        OBVIOUS
    <2> HIDE DEF k
    <2>3. /\ q \in Requests /\ q.pc = "queued" /\ q.call = call /\ q.who = u /\ q.token = k
          /\ q.nonce = None /\ q.retries = 0 /\ q.second = FALSE /\ q.answer = NoAnswer
        BY <2>1, NoRequestFacts DEF Queued, Requests
    <2> HIDE DEF q, n
    <2>4. FieldsOK(c, q)
        BY <1>0, <2>1, <2>3, QueuedOK
    <2>5. /\ ClientFor(n.request, n.gate) /\ Grows(g, n.gate) /\ n.gate = Append(g, c)
          /\ n.request[c] = q /\ \A d \in Caller \ {c} : n.request[d] = r[d]
        BY <1>0, <2>2, <2>3, <2>4, EnqueueResult
    <2> QED
        BY <1>0, <2>1, <2>3, <2>5, <2>6 DEF AskedFor, n
<1> QED
    BY <1>1, <1>2

\* A request that was answered with a status, also once its operation can go on.
Answered(q, status) == q.pc \in {"answered", "done"} /\ q.answer.status = status

\* What may be concluded from an answer, after f failures.
AnswersOK(q, f) ==
    /\ Answered(q, "ok") /\ Authenticated(q.call) => q.token # None
    /\ Answered(q, "unauthorized") => Authenticated(q.call)
    /\ Answered(q, "refused") => ~Authenticated(q.call)
    /\ q.pc = "answered" /\ Answered(q, "unauthorized") /\ q.second => ~q.token.bound
    /\ q.pc = "answered" /\ Answered(q, "challenge") => q.answer.nonce # None
    /\ f = 0 =>
         /\ \A status \in {"none", "unavailable", "lost"} : ~Answered(q, status)
         /\ q.pc \in {"answered", "done"} /\ q.call = "logout" => Answered(q, "ok")

\* One answer at most waits for its operation to go on, but for those that a
\* refresh in vain has left.
Alone ==
    \A c, d \in Caller :
        /\ request[c].pc = "done" /\ ~Answered(request[c], "unauthorized")
        /\ request[d].pc = "done"
        => d = c

ClientOK ==
    /\ token \in Tokens \cup {None} /\ nonce \in Nonce \cup {None}
    /\ cookie \in Cookies \cup {None}
    /\ failures \in Nat /\ expiries \in Nat
    /\ ClientFor(request, gate)
    /\ \A c \in Caller : request[c].pc = "sent" => request[c].nonce = nonce
    /\ \A c \in Caller : AnswersOK(request[c], failures)
    /\ Answered(request[Refresher], "ok") => cookie # None /\ cookie.bound
    /\ Alone

\* The operations' requests go on, whatever their answers.
ThreadsGoOn ==
    \A t \in Thread :
        /\ request'[t].pc = "none" <=> request[t].pc = "none"
        /\ request'[t].call = request[t].call
        /\ request'[t].who = request[t].who \/ Authenticated(request[t].call)

\* Only the request of c changes, to q.
Becomes(c, q) == request'[c] = q /\ \A d \in Caller \ {c} : request'[d] = request[d]

----------------------------------------------------------------------------

LEMMA ClientFacts ==
    ASSUME ClientOK, NEW c \in Caller
    PROVE  /\ request[c] \in Requests /\ FieldsOK(c, request[c]) /\ AnswersOK(request[c], failures)
           /\ OnWire(request[c]) => gate[1] = c /\ gate # <<>>
BY DEF ClientOK, ClientFor, GateFor, Asking, Within

\* While a request is sent, the tab holds one nonce at most.
LEMMA FreshNonceIsNew ==
    ASSUME ClientOK, NEW c \in Caller, request[c].pc = "sent"
    PROVE  FreshNonce \in Nonce /\ FreshNonce \notin Held /\ Held \subseteq {nonce, None}
<1>1. \A d \in Caller : request[d].nonce \in {nonce, None} /\ request[d].answer.nonce = None
    <2> SUFFICES ASSUME NEW d \in Caller
                 PROVE  request[d].nonce \in {nonce, None} /\ request[d].answer.nonce = None
        OBVIOUS
    <2>1. CASE OnWire(request[d])
        <3>1. d = c
            BY <2>1, ClientFacts DEF OnWire
        <3> QED
            BY <3>1, ClientFacts DEF ClientOK, FieldsOK
    <2>2. CASE ~OnWire(request[d])
        BY <2>2, ClientFacts DEF FieldsOK
    <2> QED
        BY <2>1, <2>2
<1>2. Held \subseteq {nonce, None}
    BY <1>1 DEF Held
<1>3. ~(Nonce \subseteq {nonce, None})
    <2> SUFFICES ASSUME Nonce \subseteq {nonce, None} PROVE FALSE
        OBVIOUS
    <2>1. Nonce \subseteq {nonce}
        BY NoneIsNone
    <2>2. Cardinality(Nonce) <= 1
        <3>1. \A x : IsFiniteSet({x}) /\ Cardinality({x}) = 1
            BY FS_Singleton
        <3>2. PICK x : x = nonce
            OBVIOUS
        <3>3. Nonce \in SUBSET {x}
            BY <2>1, <3>2
        <3>4. Cardinality(Nonce) <= Cardinality({x})
            BY <3>1, <3>3, FS_Subset
        <3> QED
            BY <3>1, <3>4
    <2>3. Cardinality(Thread) \in Nat /\ Cardinality(Nonce) \in Nat
        BY ClientConstants, FS_CardinalityType
    <2> QED
        BY <2>2, <2>3, ClientConstants
<1>4. \E n \in Nonce : n \notin Held
    BY <1>2, <1>3
<1> QED
    BY <1>2, <1>4 DEF FreshNonce

\* The answers the services give.
LEMMA StatusFacts ==
    ASSUME NEW q \in Requests, q.call # "none", NEW status \in Statuses(q)
    PROVE  /\ status \in {"ok", "refused", "unauthorized", "challenge"}
           /\ status = "ok" /\ Authenticated(q.call) => Usable(q.token) /\ q.token.bound
           /\ status = "unauthorized" =>
                Authenticated(q.call) /\ (~Usable(q.token) \/ ~q.token.bound)
           /\ status = "challenge" => Validated(q) /\ q.nonce \notin live
           /\ q.call = "logout" => status = "ok"
           /\ status = "refused" => ~Authenticated(q.call)
           /\ q.call = "refresh" /\ status = "ok" =>
                cookie # None /\ cookie.current /\ cookie.bound
           /\ q.call = "refresh" /\ status # "challenge" /\ status # "ok" =>
                ~(cookie # None /\ cookie.current /\ cookie.bound)
<1>1. CASE Authenticated(q.call)
    <2>1. q.call \notin {"refresh", "login", "register", "logout"}
        BY <1>1 DEF Authenticated
    <2>2. CASE ~Usable(q.token)
        BY <1>1, <2>1, <2>2 DEF Statuses, Validated
    <2>3. CASE Usable(q.token) /\ q.nonce \notin live
        BY <1>1, <2>1, <2>3 DEF Statuses, Validated
    <2>4. CASE Usable(q.token) /\ q.nonce \in live
        BY <1>1, <2>1, <2>4 DEF Statuses, Validated
    <2> QED
        BY <2>2, <2>3, <2>4
<1>2. CASE ~Authenticated(q.call)
    <2>1. q.call \in {"refresh", "login", "register", "logout"}
        BY <1>2 DEF Authenticated, Requests, Calls
    <2>2. CASE q.call = "register" \/ q.call = "logout"
        BY <1>2, <2>2 DEF Statuses, Validated
    <2>3. CASE q.call = "refresh" /\ q.nonce \notin live
        BY <1>2, <2>3 DEF Statuses, Validated
    <2>4. CASE q.call = "login" /\ q.nonce \notin live
        BY <1>2, <2>4 DEF Statuses, Validated
    <2>5. CASE q.call = "refresh" /\ q.nonce \in live
        BY <1>2, <2>5 DEF Statuses, Validated
    <2>6. CASE q.call = "login" /\ q.nonce \in live
        BY <1>2, <2>6 DEF Statuses, Validated
    <2> QED
        BY <2>1, <2>2, <2>3, <2>4, <2>5, <2>6
<1> QED
    BY <1>1, <1>2

----------------------------------------------------------------------------
(* What each step of the client does *)

\* The request that the gate lets out moves, and stays at the gate.
LEMMA WireMoves ==
    ASSUME ClientOK, NEW c \in Caller, Asking(request[c]), gate[1] = c,
           NEW q \in Requests, FieldsOK(c, q), OnWire(q),
           request' = [request EXCEPT ![c] = q], gate' = gate
    PROVE  ClientFor(request', gate') /\ Becomes(c, q)
<1>1. Becomes(c, q) /\ request' \in [Caller -> Requests]
    BY DEF ClientOK, ClientFor, Becomes
<1>2. \A d \in Caller : FieldsOK(d, request'[d])
    BY <1>1 DEF ClientOK, ClientFor, Becomes
<1>3. \A d \in Caller : Asking(request'[d]) <=> Asking(request[d])
    BY <1>1 DEF Becomes, Asking
<1>4. \A d \in Caller : OnWire(request'[d]) => gate[1] = d
    BY <1>1, ClientFacts DEF Becomes
<1>5. GateFor(request', gate')
    BY <1>3, <1>4, GateStays DEF ClientOK, ClientFor
<1> QED
    BY <1>1, <1>2, <1>5 DEF ClientFor

LEMMA SendEffect ==
    ASSUME ClientOK, NEW c \in Caller, Send(c)
    PROVE  /\ ClientFor(request', gate') /\ \A d \in Caller \ {c} : request'[d] = request[d]
           /\ request[c].pc = "queued" /\ \A d \in Caller : ~OnWire(request[d])
           /\ request'[c].pc = "sent" /\ request'[c].nonce = nonce
           /\ request'[c].call = request[c].call /\ request'[c].who = request[c].who
           /\ request'[c].token = request[c].token /\ request'[c].retries = 0
           /\ request'[c].second = request[c].second /\ request'[c].answer = request[c].answer
<1> DEFINE q == [request[c] EXCEPT !.pc = "sent", !.nonce = nonce]
<1>1. /\ request[c].pc = "queued" /\ gate # <<>> /\ c = Head(gate)
      /\ request' = [request EXCEPT ![c].pc = "sent", ![c].nonce = nonce] /\ gate' = gate
    BY DEF Send, NeedsKey, HasGate
<1>2. request[c] \in Requests /\ FieldsOK(c, request[c]) /\ nonce \in Nonce \cup {None}
    BY ClientFacts DEF ClientOK
<1>3. /\ q \in Requests /\ q.pc = "sent" /\ q.nonce = nonce
      /\ q.call = request[c].call /\ q.who = request[c].who /\ q.token = request[c].token
      /\ q.retries = request[c].retries /\ q.second = request[c].second
      /\ q.answer = request[c].answer
    BY <1>2, SentFacts
<1>4. request' = [request EXCEPT ![c] = q]
    BY <1>1
<1> HIDE DEF q
<1>5. gate[1] = c
    BY <1>1 DEF ClientOK, ClientFor, GateFor
<1>6. FieldsOK(c, q) /\ OnWire(q) /\ Asking(request[c]) /\ q.retries = 0
    BY <1>1, <1>2, <1>3, NoRequestFacts DEF FieldsOK, OnWire, Asking
<1>7. ClientFor(request', gate') /\ Becomes(c, q)
    BY <1>1, <1>3, <1>4, <1>5, <1>6, WireMoves
<1>8. \A d \in Caller : ~OnWire(request[d])
    BY <1>1, <1>5, ClientFacts DEF OnWire
<1> QED
    BY <1>1, <1>3, <1>6, <1>7, <1>8 DEF Becomes

\* An answer, from a service or the network.
LEMMA AnswerEffect ==
    ASSUME ClientOK, NEW c \in Caller, OnWire(request[c]), NEW a \in Answers,
           request' = [request EXCEPT ![c].pc = "answered", ![c].answer = a], gate' = gate
    PROVE  /\ ClientFor(request', gate') /\ \A d \in Caller \ {c} : request'[d] = request[d]
           /\ request'[c].pc = "answered" /\ request'[c].answer = a
           /\ request'[c].call = request[c].call /\ request'[c].who = request[c].who
           /\ request'[c].token = request[c].token /\ request'[c].nonce = request[c].nonce
           /\ request'[c].retries = request[c].retries /\ request'[c].second = request[c].second
<1> DEFINE q == [request[c] EXCEPT !.pc = "answered", !.answer = a]
<1>2. request[c] \in Requests /\ FieldsOK(c, request[c]) /\ gate[1] = c
    BY ClientFacts
<1>3. /\ q \in Requests /\ q.pc = "answered" /\ q.answer = a
      /\ q.call = request[c].call /\ q.who = request[c].who /\ q.token = request[c].token
      /\ q.nonce = request[c].nonce /\ q.retries = request[c].retries
      /\ q.second = request[c].second
    BY <1>2 DEF Requests
<1>4. request' = [request EXCEPT ![c] = q]
    OBVIOUS
<1> HIDE DEF q
<1>6. FieldsOK(c, q) /\ OnWire(q) /\ Asking(request[c])
    BY <1>2, <1>3, NoRequestFacts DEF FieldsOK, OnWire, Asking
<1>7. ClientFor(request', gate') /\ Becomes(c, q)
    BY <1>2, <1>3, <1>4, <1>6, WireMoves
<1> QED
    BY <1>3, <1>7 DEF Becomes

LEMMA RetryEffect ==
    ASSUME ClientOK, NEW c \in Caller, RetryWithNonce(c)
    PROVE  /\ ClientFor(request', gate') /\ \A d \in Caller \ {c} : request'[d] = request[d]
           /\ Answered(request[c], "challenge") /\ request[c].pc = "answered"
           /\ request[c].answer.nonce # None /\ nonce' = request[c].answer.nonce
           /\ request'[c].pc = "sent" /\ request'[c].nonce = nonce'
           /\ request'[c].call = request[c].call /\ request'[c].who = request[c].who
           /\ request'[c].token = request[c].token
           /\ request'[c].retries = request[c].retries + 1
           /\ request'[c].second = request[c].second /\ request'[c].answer = NoAnswer
<1> DEFINE n == request[c].answer.nonce
           q == [request[c] EXCEPT !.pc = "sent", !.nonce = n, !.retries = @ + 1,
                                   !.answer = NoAnswer]
<1>1. /\ request[c].pc = "answered" /\ Answered(request[c], "challenge")
      /\ gate' = gate /\ nonce' = Captured(c)
      /\ request' = [request EXCEPT ![c].pc = "sent", ![c].nonce = Captured(c),
                                    ![c].retries = @ + 1, ![c].answer = NoAnswer]
    BY DEF RetryWithNonce, Challenged, Answered
<1>2. /\ request[c] \in Requests /\ FieldsOK(c, request[c]) /\ gate[1] = c
      /\ OnWire(request[c]) /\ n # None /\ n \in Nonce \cup {None}
    BY <1>1, ClientFacts DEF OnWire, AnswersOK, Requests, Answers
<1>3. Captured(c) = n
    BY <1>2 DEF Captured
<1>4. /\ q \in Requests /\ q.pc = "sent" /\ q.nonce = n /\ q.retries = request[c].retries + 1
      /\ q.answer = NoAnswer
      /\ q.call = request[c].call /\ q.who = request[c].who /\ q.token = request[c].token
      /\ q.second = request[c].second
    BY <1>2, RetryFacts
<1>5. request' = [request EXCEPT ![c] = q]
    BY <1>1, <1>3
<1> HIDE DEF q
<1>6. FieldsOK(c, q) /\ OnWire(q) /\ Asking(request[c])
    BY <1>1, <1>2, <1>4, NoRequestFacts DEF FieldsOK, OnWire, Asking
<1>7. ClientFor(request', gate') /\ Becomes(c, q)
    BY <1>1, <1>2, <1>4, <1>5, <1>6, WireMoves
<1> QED
    BY <1>1, <1>2, <1>3, <1>4, <1>7 DEF Becomes

\* Tokens that expire are still there, and whose they were.
LEMMA ExpireEffect ==
    ASSUME ClientOK, TokenExpires
    PROVE  /\ ClientFor(request', gate')
           /\ token # None /\ token' \in Tokens /\ token' # None
           /\ token'.who = token.who /\ token'.bound = token.bound
           /\ \A c \in Caller :
                /\ request'[c].pc = request[c].pc /\ request'[c].call = request[c].call
                /\ request'[c].who = request[c].who /\ request'[c].nonce = request[c].nonce
                /\ request'[c].retries = request[c].retries /\ ~request[c].second
                /\ request'[c].second = request[c].second
                /\ request'[c].answer = request[c].answer
                /\ request'[c].token = None <=> request[c].token = None
                /\ request'[c].token.who = request[c].token.who
                /\ request'[c].token.bound = request[c].token.bound
<1>1. token # None /\ token \in Tokens /\ token' = [token EXCEPT !.fresh = FALSE] /\ gate' = gate
    BY DEF TokenExpires, Usable, ClientOK
<1>2. token' \in Tokens /\ token'.who = token.who /\ token'.bound = token.bound
    BY <1>1 DEF Tokens
<1>3. ASSUME NEW c \in Caller
      PROVE  /\ request'[c] \in Requests
             /\ request'[c].pc = request[c].pc /\ request'[c].call = request[c].call
             /\ request'[c].who = request[c].who /\ request'[c].nonce = request[c].nonce
             /\ request'[c].retries = request[c].retries /\ ~request[c].second
             /\ request'[c].second = request[c].second
             /\ request'[c].answer = request[c].answer
             /\ request'[c].token = None <=> request[c].token = None
             /\ request'[c].token.who = request[c].token.who
             /\ request'[c].token.bound = request[c].token.bound
             /\ request[c].token = None => request'[c] = request[c]
    <2> DEFINE q == request[c]
    <2>1. q \in Requests /\ ~q.second
        BY ClientFacts DEF TokenExpires
    <2>2. request'[c] = IF q.token = None THEN q ELSE [q EXCEPT !.token.fresh = FALSE]
        BY DEF TokenExpires
    <2>3. CASE q.token = None
        BY <2>1, <2>2, <2>3
    <2>4. CASE q.token # None
        <3> DEFINE t == [q.token EXCEPT !.fresh = FALSE]
        <3>1. q.token \in Tokens
            BY <2>1, <2>4 DEF Requests
        <3>2. t \in Tokens /\ t.who = q.token.who /\ t.bound = q.token.bound
            BY <3>1 DEF Tokens
        <3>3. request'[c] = [q EXCEPT !.token = t]
            BY <2>2, <2>4
        <3> HIDE DEF t, q
        <3>4. t # None
            BY <3>2, NoneIsNone
        <3> QED
            BY <2>1, <2>4, <3>2, <3>3, <3>4, TokenFacts DEF q
    <2> QED
        BY <2>3, <2>4
<1>4. request' \in [Caller -> Requests]
    BY <1>3 DEF TokenExpires
<1>5. ASSUME NEW c \in Caller PROVE FieldsOK(c, request'[c])
    <2>1. request'[c].pc = "none" => request'[c] = NoRequest
        BY <1>3, ClientFacts, NoRequestFacts DEF FieldsOK
    <2> QED
        BY <1>3, <2>1, ClientFacts, NoRequestFacts DEF FieldsOK, OnWire, Asking
<1>6. GateFor(request', gate')
    <2>1. \A c \in Caller : /\ Asking(request'[c]) <=> Asking(request[c])
                            /\ OnWire(request'[c]) => gate[1] = c
        BY <1>3, ClientFacts DEF Asking, OnWire
    <2> QED
        BY <1>1, <2>1, GateStays DEF ClientOK, ClientFor
<1> QED
    BY <1>1, <1>2, <1>3, <1>4, <1>5, <1>6, NoneIsNone DEF ClientFor

\* Whoever is in the gate g, but for c, keeps the places in h.
KeepsPlaces(g, h, c) ==
    \A d : d # c => /\ Within(g, d) => Within(h, d)
                    /\ \A e : Before(g, d, e) => Before(h, d, e)

LEMMA GrowsPlaces ==
    ASSUME NEW g, NEW h, NEW k, NEW c, KeepsPlaces(g, h, c), Grows(h, k)
    PROVE  KeepsPlaces(g, k, c)
BY GrowsKeeps DEF KeepsPlaces

\* The caller that ran leaves the gate, with the requests r.
LEMMA Leaving ==
    ASSUME ClientOK, NEW c \in Caller, OnWire(request[c]),
           NEW r \in [Caller -> Requests], ~Asking(r[c]), FieldsOK(c, r[c]),
           \A d \in Caller \ {c} : r[d] = request[d]
    PROVE  /\ ClientFor(r, Tail(gate)) /\ \A d \in Caller : ~OnWire(r[d])
           /\ KeepsPlaces(gate, Tail(gate), c)
           /\ gate[1] = c /\ \A d \in Caller \ {c} : ~OnWire(request[d])
<1>1. GateFor(request, gate)
    BY DEF ClientOK, ClientFor
<1>2. /\ GateFor(r, Tail(gate)) /\ \A d \in Caller : ~OnWire(r[d])
      /\ gate[1] = c
      /\ \A i \in DOMAIN gate : i # 1 => i - 1 \in DOMAIN Tail(gate) /\ Tail(gate)[i - 1] = gate[i]
    <2>1. PICK g : g = gate
        OBVIOUS
    <2>2. PICK q : q = request
        OBVIOUS
    <2>3. GateFor(q, g) /\ OnWire(q[c]) /\ \A d \in Caller \ {c} : r[d] = q[d]
        BY <1>1, <2>1, <2>2
    <2>4. GateFor(r, Tail(g)) /\ \A d \in Caller : ~OnWire(r[d])
        BY <2>3, GateTail
    <2>5. \A i \in DOMAIN g : i # 1 => i - 1 \in DOMAIN Tail(g) /\ Tail(g)[i - 1] = g[i]
        BY <2>3, GateTail
    <2>6. g[1] = c
        BY <2>3 DEF GateFor
    <2> QED
        BY <2>1, <2>4, <2>5, <2>6
<1>3. DOMAIN gate \subseteq Nat \ {0}
    BY <1>1 DEF GateFor
<1>4. KeepsPlaces(gate, Tail(gate), c)
    <2>1. PICK g : g = gate
        OBVIOUS
    <2>2. PICK h : h = Tail(gate)
        OBVIOUS
    <2>3. /\ DOMAIN g \subseteq Nat \ {0}
          /\ \A i \in DOMAIN g : i # 1 => i - 1 \in DOMAIN h /\ h[i - 1] = g[i]
          /\ g[1] = c
        BY <1>2, <1>3, <2>1, <2>2
    <2>4. /\ \A d : Within(g, d) /\ g[1] # d => Within(h, d)
          /\ \A d, e : Before(g, d, e) /\ g[1] # d => Before(h, d, e)
        BY <2>3, TailKeeps
    <2> QED
        BY <2>1, <2>2, <2>3, <2>4 DEF KeepsPlaces
<1>5. ClientFor(r, Tail(gate))
    BY <1>2 DEF ClientOK, ClientFor
<1>6. \A d \in Caller \ {c} : ~OnWire(request[d])
    BY <1>2, ClientFacts
<1> QED
    BY <1>2, <1>4, <1>5, <1>6

\* What is common to the answers that operations and the refresh receive.
Captures(c) ==
    /\ nonce' = IF request[c].answer.nonce = None THEN nonce ELSE request[c].answer.nonce
    /\ request[c].pc = "answered"
    /\ \A d \in Caller : request[d].pc # "done"
    /\ \A d \in Caller \ {c} : ~OnWire(request[d])
    /\ \A d \in Caller : ~OnWire(request'[d])
    /\ ClientFor(request', gate') /\ KeepsPlaces(gate, gate', c) /\ gate[1] = c

\* An answer that the operation goes on with.
LEMMA ReceivedEffect ==
    ASSUME ClientOK, NEW c \in Caller, Receive(c),
           ~(request[c].answer.status = "unauthorized" /\ ~request[c].second)
    PROVE  /\ c \in Thread /\ Captures(c)
           /\ \A d \in Caller \ {c} : request'[d] = request[d]
           /\ request'[c].pc = "done" /\ request'[c].call = request[c].call
           /\ request'[c].who = request[c].who /\ request'[c].token = request[c].token
           /\ request'[c].second = request[c].second
           /\ request'[c].answer.status = request[c].answer.status
<1> DEFINE a == [status |-> request[c].answer.status, nonce |-> None]
           q == [request[c] EXCEPT !.pc = "done", !.nonce = None, !.answer = a]
<1>1. /\ c \in Thread /\ request[c].pc = "answered" /\ nonce' = Captured(c) /\ Quiet
      /\ request' = [request EXCEPT ![c].pc = "done", ![c].nonce = None, ![c].answer = a]
      /\ gate' = Tail(gate)
    BY DEF Receive, Caller, Leave
<1>2. request[c] \in Requests /\ FieldsOK(c, request[c]) /\ OnWire(request[c]) /\ c # Refresher
    BY <1>1, ClientFacts, RefresherIsCaller DEF OnWire
<1>3. a \in Answers /\ a.status = request[c].answer.status /\ a.nonce = None
    BY <1>2 DEF Requests, Answers
<1>4. request' = [request EXCEPT ![c] = q]
    BY <1>1
<1> HIDE DEF a
<1>5. /\ q \in Requests /\ q.pc = "done" /\ q.nonce = None /\ q.answer = a
      /\ q.call = request[c].call /\ q.who = request[c].who /\ q.token = request[c].token
      /\ q.retries = request[c].retries /\ q.second = request[c].second
    BY <1>2, <1>3 DEF Requests
<1> HIDE DEF q
<1>6. FieldsOK(c, q) /\ ~Asking(q)
    BY <1>2, <1>3, <1>5, NoRequestFacts DEF FieldsOK, OnWire, Asking
<1>7. /\ request' \in [Caller -> Requests] /\ request'[c] = q
      /\ \A d \in Caller \ {c} : request'[d] = request[d]
    BY <1>4, <1>5 DEF ClientOK, ClientFor
<1>8. /\ ClientFor(request', Tail(gate)) /\ \A d \in Caller : ~OnWire(request'[d])
      /\ KeepsPlaces(gate, Tail(gate), c)
      /\ gate[1] = c /\ \A d \in Caller \ {c} : ~OnWire(request[d])
    <2>1. PICK r : r = request'
        OBVIOUS
    <2>2. /\ r \in [Caller -> Requests] /\ ~Asking(r[c]) /\ FieldsOK(c, r[c])
          /\ \A d \in Caller \ {c} : r[d] = request[d]
        BY <1>6, <1>7, <2>1
    <2>3. /\ ClientFor(r, Tail(gate)) /\ \A d \in Caller : ~OnWire(r[d])
          /\ KeepsPlaces(gate, Tail(gate), c)
          /\ gate[1] = c /\ \A d \in Caller \ {c} : ~OnWire(request[d])
        BY <1>2, <2>2, Leaving
    <2> QED
        BY <2>1, <2>3
<1> QED
    BY <1>1, <1>3, <1>5, <1>7, <1>8 DEF Captures, Captured, Quiet

\* A 401 that asks for a new token and a second attempt.
LEMMA AskedAgainEffect ==
    ASSUME ClientOK, NEW c \in Caller, Receive(c),
           request[c].answer.status = "unauthorized", ~request[c].second
    PROVE  /\ c \in Thread /\ Captures(c) /\ Authenticated(request[c].call)
           /\ \A d \in Thread \ {c} : request'[d] = request[d]
           /\ request'[c].pc = "waiting" /\ request'[c].call = request[c].call
           /\ request'[c].who = None /\ request'[c].token = None /\ request'[c].second
           /\ request'[c].answer = NoAnswer
           /\ \/ request'[Refresher] = request[Refresher]
              \/ /\ request[Refresher].pc = "none" /\ request'[Refresher].pc = "queued"
                 /\ request'[Refresher].token = None
                 /\ request'[Refresher].answer = NoAnswer
<1> DEFINE q == Queued(request[c].call, None, None, TRUE)
           n == AwaitRefresh(request, Tail(gate), c, q)
           r == [request EXCEPT ![c] = NoRequest]
<1>1. /\ c \in Thread /\ request[c].pc = "answered" /\ nonce' = Captured(c) /\ Quiet
      /\ request' = n.request /\ gate' = n.gate
    BY DEF Receive, Caller, Leave
<1>2. /\ request[c] \in Requests /\ AnswersOK(request[c], failures) /\ OnWire(request[c])
      /\ c # Refresher /\ Refresher \in Caller
    BY <1>1, ClientFacts, RefresherIsCaller DEF OnWire
<1>3. Authenticated(request[c].call)
    BY <1>1, <1>2 DEF AnswersOK, Answered
<1>4. /\ q \in Requests /\ q.call = request[c].call /\ q.who = None /\ q.token = None
      /\ q.nonce = None /\ q.retries = 0 /\ q.second = TRUE /\ q.answer = NoAnswer
    BY <1>2, NoRequestFacts DEF Queued, Requests
<1>5. /\ r \in [Caller -> Requests] /\ r[c] = NoRequest
      /\ \A d \in Caller \ {c} : r[d] = request[d]
    BY NoRequestFacts DEF ClientOK, ClientFor
<1>6. n = AwaitRefresh(r, Tail(gate), c, q)
    <2>1. [r EXCEPT ![c] = [q EXCEPT !.pc = "waiting"]]
            = [request EXCEPT ![c] = [q EXCEPT !.pc = "waiting"]]
        <3> HIDE DEF q
        <3> QED
            BY DEF ClientOK, ClientFor
    <2>2. r[Refresher] = request[Refresher]
        BY <1>2, <1>5
    <2> HIDE DEF q, r
    <2> QED
        BY <2>1, <2>2 DEF AwaitRefresh
<1> HIDE DEF q, n, r
<1>7. /\ ClientFor(r, Tail(gate)) /\ \A d \in Caller : ~OnWire(r[d])
      /\ KeepsPlaces(gate, Tail(gate), c)
      /\ gate[1] = c /\ \A d \in Caller \ {c} : ~OnWire(request[d])
    BY <1>2, <1>5, NoRequestFacts, Leaving
<1>8. AskedFor(r, Tail(gate), n, c) /\ n.request[c] = [q EXCEPT !.pc = "waiting"]
    <2>1. ~Asking(r[c]) /\ Authenticated(q.call)
        BY <1>3, <1>4, <1>5, NoRequestFacts
    <2> QED
        BY <1>1, <1>4, <1>6, <1>7, <2>1, AwaitResult
<1>9. /\ request'[c].pc = "waiting" /\ request'[c].call = request[c].call
      /\ request'[c].who = None /\ request'[c].token = None /\ request'[c].second = TRUE
      /\ request'[c].answer = NoAnswer
    BY <1>1, <1>4, <1>8, PcFacts
<1>10. /\ ClientFor(request', gate') /\ Grows(Tail(gate), gate')
       /\ \A d \in Thread \ {c} : request'[d] = request[d]
       /\ \/ request'[Refresher] = request[Refresher]
          \/ /\ request[Refresher].pc = "none" /\ request'[Refresher].pc = "queued"
             /\ request'[Refresher].token = None
             /\ request'[Refresher].answer = NoAnswer
    <2>1. \A d \in Thread : d \in Caller
        BY DEF Caller
    <2> QED
        BY <1>1, <1>2, <1>5, <1>8, <2>1 DEF AskedFor
<1>11. \A d \in Caller : ~OnWire(request'[d])
    <2>1. ~OnWire(request'[c]) /\ ~OnWire(request'[Refresher])
        BY <1>2, <1>7, <1>9, <1>10 DEF OnWire
    <2> QED
        BY <1>7, <1>10, <2>1 DEF Caller
<1>12. KeepsPlaces(gate, gate', c)
    BY <1>7, <1>10, GrowsPlaces
<1> QED
    BY <1>1, <1>3, <1>7, <1>9, <1>10, <1>11, <1>12 DEF Captures, Captured, Quiet

\* What the refresh leaves in memory.
RefreshedToken ==
    IF request[Refresher].answer.status = "ok" THEN Token(cookie.who, TRUE) ELSE None

LEMMA RefreshedTokenFacts ==
    ASSUME ClientOK, request[Refresher].pc = "answered"
    PROVE  /\ RefreshedToken \in Tokens \cup {None}
           /\ RefreshedToken # None <=> request[Refresher].answer.status = "ok"
           /\ RefreshedToken # None =>
                /\ RefreshedToken.fresh /\ RefreshedToken.bound
                /\ RefreshedToken.who = cookie.who
                /\ cookie # None /\ cookie.bound
<1>1. CASE request[Refresher].answer.status = "ok"
    <2>1. cookie # None /\ cookie.bound /\ cookie \in Cookies
        BY <1>1 DEF ClientOK, Answered
    <2>2. cookie.who \in User
        BY <2>1 DEF Cookies
    <2>3. /\ RefreshedToken \in Tokens /\ RefreshedToken.fresh /\ RefreshedToken.bound
          /\ RefreshedToken.who = cookie.who
        BY <1>1, <2>2 DEF RefreshedToken, Token, Tokens
    <2> QED
        BY <1>1, <2>1, <2>3, NoneIsNone
<1>2. CASE request[Refresher].answer.status # "ok"
    BY <1>2 DEF RefreshedToken
<1> QED
    BY <1>1, <1>2

\* What a caller that waited has when the refresh has left token t.
LEMMA ResumedOK ==
    ASSUME NEW c \in Thread, NEW q \in Requests, FieldsOK(c, q), q.pc = "waiting",
           NEW t \in Tokens \cup {None}, t # None => t.fresh
    PROVE  LET p == Resumed(q, t) IN
           /\ p \in Requests /\ FieldsOK(c, p)
           /\ p.call = q.call /\ p.who = q.who /\ p.second = q.second /\ Authenticated(p.call)
           /\ p.token = t
           /\ q.second /\ t = None => p.pc = "done" /\ p.answer.status = "unauthorized"
           /\ ~(q.second /\ t = None) => p.pc = "queued" /\ p.answer = q.answer
<1>0. c \in Caller /\ c # Refresher
    BY RefresherIsCaller DEF Caller
<1>1. /\ q.token = None /\ q.retries = 0 /\ q.nonce = None /\ q.answer.nonce = None
      /\ Authenticated(q.call) /\ q.call # "none" /\ q.call # "refresh"
    BY <1>0 DEF FieldsOK, OnWire
<1>2. CASE q.second /\ t = None
    <2> DEFINE a == [status |-> "unauthorized", nonce |-> None]
               p == [q EXCEPT !.pc = "done", !.answer = a]
    <2>1. a \in Answers /\ a.nonce = None /\ a.status = "unauthorized"
        BY DEF Answers
    <2>2. Resumed(q, t) = p
        BY <1>2 DEF Resumed
    <2> HIDE DEF a
    <2>3. /\ p \in Requests /\ p.pc = "done" /\ p.answer = a
          /\ p.call = q.call /\ p.who = q.who /\ p.token = q.token /\ p.nonce = q.nonce
          /\ p.retries = q.retries /\ p.second = q.second
        BY <2>1 DEF Requests
    <2> HIDE DEF p
    <2>4. FieldsOK(c, p)
        BY <1>0, <1>1, <2>1, <2>3, NoRequestFacts DEF FieldsOK, OnWire, Asking
    <2> QED
        BY <1>1, <1>2, <2>1, <2>2, <2>3, <2>4
<1>3. CASE ~(q.second /\ t = None)
    <2> DEFINE p == [q EXCEPT !.pc = "queued", !.token = t]
    <2>2. Resumed(q, t) = p
        BY <1>3 DEF Resumed
    <2>3. /\ p \in Requests /\ p.pc = "queued" /\ p.token = t
          /\ p.call = q.call /\ p.who = q.who /\ p.nonce = q.nonce
          /\ p.retries = q.retries /\ p.second = q.second /\ p.answer = q.answer
        BY ResumedFacts
    <2> HIDE DEF p
    <2>4. FieldsOK(c, p)
        BY <1>0, <1>1, <1>3, <2>3, NoRequestFacts DEF FieldsOK, OnWire, Asking
    <2> QED
        BY <1>1, <1>3, <2>2, <2>3, <2>4
<1> QED
    BY <1>2, <1>3

\* The shared refresh has ended: who waited goes on, in some order, or is done.
LEMMA RefreshEndsEffect ==
    ASSUME ClientOK, RefreshEnds
    PROVE  /\ Captures(Refresher) /\ token' = RefreshedToken
           /\ request'[Refresher] = NoRequest
           /\ \A c \in Thread : request[c].pc # "waiting" => request'[c] = request[c]
           /\ \A c \in Thread : request[c].pc = "waiting" =>
                 /\ request'[c].call = request[c].call /\ request'[c].who = request[c].who
                 /\ request'[c].second = request[c].second
                 /\ request'[c].token = RefreshedToken
                 /\ request[c].second /\ RefreshedToken = None =>
                      request'[c].pc = "done" /\ request'[c].answer.status = "unauthorized"
                 /\ ~(request[c].second /\ RefreshedToken = None) =>
                      request'[c].pc = "queued" /\ request'[c].answer = request[c].answer
<1> DEFINE W == {c \in Waiting : ~request[c].second \/ RefreshedToken # None}
           r == [request EXCEPT ![Refresher] = NoRequest]
<1>0. Refresher \in Caller /\ Refresher \notin Thread /\ Thread \subseteq Caller
    BY RefresherIsCaller DEF Caller
<1>1. /\ request[Refresher].pc = "answered" /\ Quiet /\ nonce' = Captured(Refresher)
      /\ token' = RefreshedToken
      /\ request' = [c \in Caller |->
               CASE c = Refresher -> NoRequest
                 [] c \in Waiting -> Resumed(request[c], RefreshedToken)
                 [] OTHER         -> request[c]]
      /\ \E order \in SetToSeqs(W) : gate' = Tail(gate) \o order
    BY DEF RefreshEnds, RefreshedToken, Leave
<1> HIDE DEF W
<1>2. PICK t \in Tokens \cup {None} : t = RefreshedToken /\ (t # None => t.fresh)
    BY <1>1, RefreshedTokenFacts
<1>3. request'[Refresher] = NoRequest
    <2>1. Refresher \notin Waiting
        BY <1>0 DEF Waiting
    <2> QED
        BY <1>0, <1>1, <2>1
<1>4. ASSUME NEW c \in Thread, request[c].pc # "waiting" PROVE request'[c] = request[c]
    BY <1>0, <1>1, <1>4 DEF Waiting
<1>5. ASSUME NEW c \in Thread, request[c].pc = "waiting"
      PROVE  /\ request'[c] \in Requests /\ FieldsOK(c, request'[c])
             /\ request'[c].call = request[c].call /\ request'[c].who = request[c].who
             /\ request'[c].second = request[c].second /\ request'[c].token = t
             /\ request[c].second /\ t = None =>
                  request'[c].pc = "done" /\ request'[c].answer.status = "unauthorized"
             /\ ~(request[c].second /\ t = None) =>
                  request'[c].pc = "queued" /\ request'[c].answer = request[c].answer
    <2>1. request[c] \in Requests /\ FieldsOK(c, request[c])
        BY <1>0, ClientFacts
    <2>2. request'[c] = Resumed(request[c], t)
        BY <1>0, <1>1, <1>2, <1>5 DEF Waiting
    <2> QED
        BY <1>2, <1>5, <2>1, <2>2, ResumedOK
<1>6. request' \in [Caller -> Requests] /\ \A c \in Caller : FieldsOK(c, request'[c])
    <2>1. \A c \in Caller : c = Refresher \/ c \in Thread
        BY DEF Caller
    <2>2. \A c \in Caller : request'[c] \in Requests /\ FieldsOK(c, request'[c])
        BY <1>3, <1>4, <1>5, <2>1, ClientFacts, NoRequestFacts
    <2> QED
        BY <1>1, <2>2
<1>7. /\ ClientFor(r, Tail(gate)) /\ \A d \in Caller : ~OnWire(r[d])
      /\ KeepsPlaces(gate, Tail(gate), Refresher)
      /\ gate[1] = Refresher /\ \A d \in Caller \ {Refresher} : ~OnWire(request[d])
      /\ r[Refresher] = NoRequest /\ \A d \in Caller \ {Refresher} : r[d] = request[d]
    <2>1. /\ r \in [Caller -> Requests] /\ r[Refresher] = NoRequest
          /\ \A d \in Caller \ {Refresher} : r[d] = request[d]
        BY <1>0, NoRequestFacts DEF ClientOK, ClientFor
    <2>2. OnWire(request[Refresher])
        BY <1>1 DEF OnWire
    <2> HIDE DEF r
    <2> QED
        BY <1>0, <2>1, <2>2, NoRequestFacts, Leaving
<1> HIDE DEF r
<1>8. GateFor(request', gate') /\ Grows(Tail(gate), gate') /\ \A d \in Caller : ~OnWire(request'[d])
    <2>1. PICK order \in SetToSeqs(W) : gate' = Tail(gate) \o order
        BY <1>1
    <2>2. W \in SUBSET Caller /\ IsFiniteSet(W)
        <3>1. W \subseteq Thread
            BY DEF W, Waiting
        <3> QED
            BY <1>0, <3>1, ClientConstants, FS_Subset
    <2>3. \A c \in W : ~Asking(r[c]) /\ request'[c].pc = "queued" /\ ~OnWire(request'[c])
        <3> SUFFICES ASSUME NEW c \in W
                     PROVE  ~Asking(r[c]) /\ request'[c].pc = "queued" /\ ~OnWire(request'[c])
            OBVIOUS
        <3>1. c \in Thread /\ request[c].pc = "waiting" /\ ~(request[c].second /\ t = None)
            BY <1>2 DEF W, Waiting
        <3>2. request'[c].pc = "queued" /\ r[c] = request[c]
            BY <1>0, <1>5, <1>7, <3>1
        <3> QED
            BY <3>1, <3>2 DEF Asking, OnWire
    <2>4. \A c \in Caller \ W : (Asking(request'[c]) <=> Asking(r[c])) /\ ~OnWire(request'[c])
        <3> SUFFICES ASSUME NEW c \in Caller \ W
                     PROVE  (Asking(request'[c]) <=> Asking(r[c])) /\ ~OnWire(request'[c])
            OBVIOUS
        <3>1. CASE c = Refresher
            BY <1>3, <1>7, <3>1, NoRequestFacts
        <3>2. CASE c \in Thread /\ request[c].pc # "waiting"
            BY <1>0, <1>4, <1>7, <3>2
        <3>3. CASE c \in Thread /\ request[c].pc = "waiting"
            <4>1. request[c].second /\ t = None
                BY <1>2, <3>3 DEF W, Waiting
            <4>2. request'[c].pc = "done" /\ r[c] = request[c]
                BY <1>0, <1>5, <1>7, <3>3, <4>1
            <4> QED
                BY <3>3, <4>2 DEF Asking, OnWire
        <3> QED
            BY <3>1, <3>2, <3>3 DEF Caller
    <2>5. PICK s : s = request'
        OBVIOUS
    <2>6. PICK g : g = Tail(gate)
        OBVIOUS
    <2>7. PICK V \in SUBSET Caller : V = W
        BY <2>2
    <2>8. GateFor(r, g)
        BY <1>7, <2>6 DEF ClientFor
    <2>9. /\ order \in SetToSeqs(V) /\ IsFiniteSet(V)
          /\ \A c \in V : ~Asking(r[c]) /\ s[c].pc = "queued"
          /\ \A c \in Caller \ V : Asking(s[c]) <=> Asking(r[c])
          /\ \A c \in Caller : ~OnWire(s[c])
        BY <2>2, <2>3, <2>4, <2>5, <2>7
    <2>10. GateFor(s, g \o order) /\ Grows(g, g \o order)
        BY <2>8, <2>9, GateConcat
    <2> QED
        BY <2>1, <2>5, <2>6, <2>9, <2>10
<1>9. ClientFor(request', gate') /\ KeepsPlaces(gate, gate', Refresher)
    BY <1>6, <1>7, <1>8, GrowsPlaces DEF ClientFor
<1> QED
    BY <1>1, <1>2, <1>3, <1>4, <1>5, <1>7, <1>8, <1>9 DEF Captures, Captured, Quiet

Kinds == {"idle", "restore", "check", "callback", "login", "loginCheck", "register",
          "logout", "query", "google"}
CallOf(kind) ==
    IF kind \in {"restore", "check", "callback", "loginCheck"} THEN "whoami" ELSE kind

\* An operation that is under way has a request, and the session's thread runs
\* nothing but the restoring and the polling of the session.
OpOK(t) ==
    /\ op[t].kind \in {"restore", "check"} => t = "session"
    /\ op[t].kind \in {"idle", "restore", "check"} \/ t = "form"
    /\ request[t].pc = "none" <=> op[t].kind \in {"idle", "google"}
    /\ request[t].pc # "none" => request[t].call = CallOf(op[t].kind)
    /\ op[t].kind \in {"register", "login", "loginCheck"} => op[t].who \in User
    /\ op[t].kind = "login" => request[t].who = op[t].who

OpsOK ==
    /\ op \in [Thread -> [kind : Kinds, who : User \cup {None}]]
    /\ \A t \in Thread : OpOK(t)

Threads == "session" \in Thread /\ "form" \in Thread /\ "session" # "form"

LEMMA ThreadFacts ==
    /\ Threads /\ Thread \subseteq Caller /\ Refresher \in Caller /\ Refresher \notin Thread
    /\ \A c \in Caller : c = Refresher \/ c \in Thread
BY SessionConstants, RefresherIsCaller DEF Threads, Caller

RefresherStays ==
    \/ request'[Refresher] = request[Refresher]
    \/ /\ request[Refresher].pc = "none" /\ request'[Refresher].pc = "queued"
       /\ request'[Refresher].token = None /\ request'[Refresher].answer = NoAnswer

\* Thread t calls apiRequest with token tok in memory.
Asks(t, call, u, tok) ==
    /\ ClientFor(request', gate') /\ Grows(gate, gate')
    /\ \A d \in Thread \ {t} : request'[d] = request[d]
    /\ RefresherStays
    /\ request'[t].call = call /\ request'[t].who = u /\ ~request'[t].second
    /\ request'[t].token \in {tok, None} /\ request'[t].answer = NoAnswer
    /\ request'[t].pc \in {"queued", "waiting"}
    /\ Authenticated(call) /\ Usable(tok) =>
         request'[t].token = tok /\ (request'[t].pc = "queued" => gate' = Append(gate, t))
    /\ request'[t].pc = "waiting" => request'[t].token = None

LEMMA AskEffect ==
    ASSUME ClientOK, NEW t \in Thread, ~Asking(request[t]),
           NEW call \in Calls \ {"none", "refresh"}, NEW u \in User \cup {None},
           NEW tok \in Tokens \cup {None},
           request' = Ask(request, gate, t, call, u, tok).request,
           gate' = Ask(request, gate, t, call, u, tok).gate
    PROVE  Asks(t, call, u, tok)
<1>1. PICK r : r = request
    OBVIOUS
<1>2. PICK g : g = gate
    OBVIOUS
<1>3. ClientFor(r, g) /\ ~Asking(r[t])
    BY <1>1, <1>2 DEF ClientOK
<1> DEFINE n == Ask(r, g, t, call, u, tok)
           q == n.request[t]
<1>4. /\ AskedFor(r, g, n, t)
      /\ q.call = call /\ q.who = u /\ ~q.second /\ q.token \in {tok, None}
      /\ q.answer = NoAnswer /\ q.nonce = None
      /\ q.pc = "queued" \/ (q.pc = "waiting" /\ q.token = None)
      /\ Authenticated(call) /\ Usable(tok) => q.token = tok
      /\ q.pc = "queued" => n.gate = Append(g, t)
    BY <1>3, AskResult
<1>5. request' = n.request /\ gate' = n.gate
    BY <1>1, <1>2
<1> HIDE DEF n
<1> QED
    BY <1>1, <1>2, <1>4, <1>5 DEF AskedFor, Asks, RefresherStays

LEMMA StartEffect ==
    ASSUME ClientOK, OpsOK, NEW t \in Thread, NEW kind \in Kinds,
           NEW call \in Calls \ {"none", "refresh"}, NEW u \in User \cup {None},
           Start(t, kind, call, u)
    PROVE  /\ Asks(t, call, u, token) /\ request[t].pc = "none" /\ op[t].kind = "idle"
           /\ op' \in [Thread -> [kind : Kinds, who : User \cup {None}]]
           /\ op'[t] = Op(kind, u) /\ \A s \in Thread \ {t} : op'[s] = op[s]
<1>1. op[t].kind = "idle" /\ op' = [op EXCEPT ![t] = Op(kind, u)]
    BY DEF Start, CanStart
<1>2. request[t].pc = "none"
    BY <1>1 DEF OpsOK, OpOK
<1>3. ~Asking(request[t]) /\ token \in Tokens \cup {None}
    BY <1>2 DEF Asking, OnWire, ClientOK
<1>4. Asks(t, call, u, token)
    <2>1. PICK tok \in Tokens \cup {None} : tok = token
        BY <1>3
    <2>2. /\ request' = Ask(request, gate, t, call, u, tok).request
          /\ gate' = Ask(request, gate, t, call, u, tok).gate
        BY <2>1 DEF Start
    <2>3. Asks(t, call, u, tok)
        BY <1>3, <2>2, AskEffect
    <2> QED
        BY <2>1, <2>3
<1>5. Op(kind, u) \in [kind : Kinds, who : User \cup {None}]
    BY DEF Op
<1> QED
    BY <1>1, <1>2, <1>4, <1>5 DEF OpsOK

LEMMA ContinueEffect ==
    ASSUME ClientOK, OpsOK, NEW t \in Thread, request[t].pc = "done", NEW kind \in Kinds,
           NEW call \in Calls \ {"none", "refresh"}, NEW tok \in Tokens \cup {None},
           Continue(t, kind, call, tok)
    PROVE  /\ Asks(t, call, op[t].who, tok)
           /\ op' \in [Thread -> [kind : Kinds, who : User \cup {None}]]
           /\ op'[t].kind = kind /\ op'[t].who = op[t].who
           /\ \A s \in Thread \ {t} : op'[s] = op[s]
<1>1. op' = [op EXCEPT ![t].kind = kind]
    BY DEF Continue
<1>2. op[t] \in [kind : Kinds, who : User \cup {None}]
    BY DEF OpsOK
<1>3. PICK u \in User \cup {None} : u = op[t].who
    BY <1>2
<1>4. ~Asking(request[t])
    BY DEF Asking, OnWire
<1>5. /\ request' = Ask(request, gate, t, call, u, tok).request
      /\ gate' = Ask(request, gate, t, call, u, tok).gate
    BY <1>3 DEF Continue
<1>6. Asks(t, call, u, tok)
    BY <1>4, <1>5, AskEffect
<1> QED
    BY <1>1, <1>2, <1>3, <1>6 DEF OpsOK

LEMMA FinishEffect ==
    ASSUME ClientOK, OpsOK, NEW t \in Thread, request[t].pc = "done", Finish(t)
    PROVE  /\ ClientFor(request', gate') /\ gate' = gate
           /\ request'[t] = NoRequest /\ \A d \in Caller \ {t} : request'[d] = request[d]
           /\ op' \in [Thread -> [kind : Kinds, who : User \cup {None}]]
           /\ op'[t] = Idle /\ \A s \in Thread \ {t} : op'[s] = op[s]
<1>1. t \in Caller
    BY ThreadFacts
<1>2. /\ request' \in [Caller -> Requests] /\ request'[t] = NoRequest
      /\ \A d \in Caller \ {t} : request'[d] = request[d]
    BY <1>1, NoRequestFacts DEF Finish, ClientOK, ClientFor
<1>3. \A d \in Caller : FieldsOK(d, request'[d])
    BY <1>2, NoRequestFacts, ClientFacts
<1>4. GateFor(request', gate')
    <2>1. ~Asking(request[t]) /\ gate' = gate
        BY DEF Asking, OnWire, Finish
    <2>2. \A d \in Caller : /\ Asking(request'[d]) <=> Asking(request[d])
                            /\ OnWire(request'[d]) => gate[1] = d
        BY <1>2, <2>1, NoRequestFacts, ClientFacts
    <2> QED
        BY <2>1, <2>2, GateStays DEF ClientOK, ClientFor
<1>5. Idle \in [kind : Kinds, who : User \cup {None}]
    BY DEF Idle, Kinds
<1> QED
    BY <1>2, <1>3, <1>4, <1>5 DEF ClientFor, Finish, OpsOK

----------------------------------------------------------------------------
(* A page is loaded *)

\* The requests r and the gate g of page p, loaded with token tok in memory.
Loaded(r, g, p, tok) ==
    /\ ClientFor(r, g)
    /\ \A c \in Caller :
         /\ r[c].pc \in {"none", "queued", "waiting"}
         /\ r[c].token \in {tok, None} /\ r[c].answer = NoAnswer /\ r[c].nonce = None
    /\ \A c \in Thread : r[c].pc # "none" <=> c = "session" \/ (c = "form" /\ p = "callback")
    /\ \A c \in Thread : r[c].pc # "none" => r[c].call = "whoami"

LEMMA NothingAskedFor ==
    ASSUME NEW r, r = [c \in Caller |-> NoRequest]
    PROVE  ClientFor(r, <<>>)
<1>1. \A c \in Caller : r[c] = NoRequest
    OBVIOUS
<1>2. r \in [Caller -> Requests] /\ \A c \in Caller : FieldsOK(c, r[c])
    BY <1>1, NoRequestFacts
<1>3. GateFor(r, <<>>)
    BY <1>1, NoRequestFacts DEF GateFor, Within
<1> QED
    BY <1>2, <1>3 DEF ClientFor

LEMMA LoadResult ==
    ASSUME NEW p, NEW tok \in Tokens \cup {None}
    PROVE  LET none == [c \in Caller |-> NoRequest]
               n1 == Ask(none, <<>>, "form", "whoami", None, tok)
               n2 == IF p = "callback" THEN Ask(n1.request, n1.gate, "session", "whoami", None, tok)
                     ELSE Ask(none, <<>>, "session", "whoami", None, tok)
           IN  Loaded(n2.request, n2.gate, p, tok)
<1>1. PICK none : none = [c \in Caller |-> NoRequest]
    OBVIOUS
<1>2. PICK e : e = <<>>
    OBVIOUS
<1>3. ClientFor(none, e) /\ \A c \in Caller : none[c] = NoRequest
    BY <1>1, <1>2, NothingAskedFor
<1>4. /\ "whoami" \in Calls \ {"none", "refresh"} /\ None \in User \cup {None}
      /\ Threads /\ ~Asking(NoRequest) /\ Authenticated("whoami")
    BY NoRequestFacts, ThreadFacts DEF Calls, Authenticated
<1>5. ASSUME NEW r, NEW g, ClientFor(r, g), NEW t \in Thread, r[t] = NoRequest
      PROVE  LET n == Ask(r, g, t, "whoami", None, tok) IN
             /\ AskedFor(r, g, n, t)
             /\ n.request[t].pc \in {"queued", "waiting"} /\ n.request[t].call = "whoami"
             /\ n.request[t].token \in {tok, None} /\ n.request[t].answer = NoAnswer
             /\ n.request[t].nonce = None
    <2>1. PICK call \in Calls \ {"none", "refresh"} : call = "whoami"
        BY <1>4
    <2>2. PICK u \in User \cup {None} : u = None
        OBVIOUS
    <2>3. ~Asking(r[t])
        BY <1>4, <1>5
    <2> DEFINE n == Ask(r, g, t, call, u, tok)
               q == n.request[t]
    <2>4. /\ AskedFor(r, g, n, t)
          /\ q.call = call /\ q.who = u /\ ~q.second /\ q.token \in {tok, None}
          /\ q.answer = NoAnswer /\ q.nonce = None
          /\ q.pc = "queued" \/ (q.pc = "waiting" /\ q.token = None)
          /\ Authenticated(call) /\ Usable(tok) => q.token = tok
          /\ q.pc = "queued" => n.gate = Append(g, t)
        BY <1>5, <2>3, AskResult
    <2> HIDE DEF n
    <2>5. q.pc \in {"queued", "waiting"}
        BY <2>4
    <2> QED
        BY <2>1, <2>2, <2>4, <2>5 DEF n
<1> DEFINE n1 == Ask(none, e, "form", "whoami", None, tok)
           n2 == Ask(n1.request, n1.gate, "session", "whoami", None, tok)
           n3 == Ask(none, e, "session", "whoami", None, tok)
<1>6. /\ AskedFor(none, e, n1, "form")
      /\ n1.request["form"].pc \in {"queued", "waiting"}
      /\ n1.request["form"].call = "whoami"
      /\ n1.request["form"].token \in {tok, None} /\ n1.request["form"].answer = NoAnswer
    BY <1>3, <1>4, <1>5, ThreadFacts DEF Threads
<1>7. /\ AskedFor(none, e, n3, "session")
      /\ n3.request["session"].pc \in {"queued", "waiting"}
      /\ n3.request["session"].call = "whoami"
      /\ n3.request["session"].token \in {tok, None} /\ n3.request["session"].answer = NoAnswer
    BY <1>3, <1>4, <1>5, ThreadFacts DEF Threads
<1>8. /\ AskedFor(n1.request, n1.gate, n2, "session")
      /\ n2.request["session"].pc \in {"queued", "waiting"}
      /\ n2.request["session"].call = "whoami"
      /\ n2.request["session"].token \in {tok, None} /\ n2.request["session"].answer = NoAnswer
    <2>1. PICK r : r = n1.request
        OBVIOUS
    <2>2. PICK g : g = n1.gate
        OBVIOUS
    <2> HIDE DEF n1
    <2>3. ClientFor(r, g) /\ r["session"] = NoRequest
        BY <1>3, <1>4, <1>6, <2>1, <2>2, ThreadFacts DEF AskedFor, Threads
    <2> QED
        BY <1>4, <1>5, <2>1, <2>2, <2>3 DEF Threads
<1>9. \A n, t : ClientFor(n.request, n.gate) /\ t \in Caller /\ n.request[t].pc \in {"none", "queued", "waiting"}
                 => n.request[t].nonce = None
    BY DEF ClientFor, FieldsOK, OnWire
<1> HIDE DEF n1, n2, n3
<1>10. Loaded(n3.request, n3.gate, p, tok) \/ p = "callback"
    <2>1. ClientFor(n3.request, n3.gate)
        BY <1>7 DEF AskedFor
    <2>2. /\ \A c \in Thread \ {"session"} : n3.request[c] = NoRequest
          /\ n3.request[Refresher].pc \in {"none", "queued"}
          /\ n3.request[Refresher].token = None
          /\ n3.request[Refresher].answer = NoAnswer
        BY <1>3, <1>7, ThreadFacts, NoRequestFacts DEF AskedFor
    <2>3. ASSUME NEW c \in Caller
          PROVE  /\ n3.request[c].pc \in {"none", "queued", "waiting"}
                 /\ n3.request[c].token \in {tok, None} /\ n3.request[c].answer = NoAnswer
        <3>1. CASE c = "session"
            BY <1>7, <3>1
        <3>2. CASE c = Refresher
            BY <2>2, <3>2
        <3>3. CASE c \in Thread \ {"session"}
            BY <2>2, <3>3, NoRequestFacts
        <3> QED
            BY <3>1, <3>2, <3>3, ThreadFacts
    <2>4. \A c \in Caller : n3.request[c].nonce = None
        BY <1>9, <2>1, <2>3
    <2> QED
        BY <1>4, <1>7, <2>1, <2>2, <2>3, <2>4, NoRequestFacts DEF Loaded, Threads
<1>11. p = "callback" => Loaded(n2.request, n2.gate, p, tok)
    <2>1. ClientFor(n2.request, n2.gate)
        BY <1>8 DEF AskedFor
    <2>2. /\ \A c \in Thread \ {"session", "form"} : n2.request[c] = NoRequest
          /\ n2.request["form"] = n1.request["form"]
        BY <1>3, <1>4, <1>6, <1>8, ThreadFacts DEF AskedFor, Threads
    <2>3. /\ n2.request[Refresher].pc \in {"none", "queued"}
          /\ n2.request[Refresher].token = None
          /\ n2.request[Refresher].answer = NoAnswer
        <3>1. /\ n1.request[Refresher].pc \in {"none", "queued"}
              /\ n1.request[Refresher].token = None
              /\ n1.request[Refresher].answer = NoAnswer
            BY <1>3, <1>6, ThreadFacts, NoRequestFacts DEF AskedFor
        <3> QED
            BY <1>8, <3>1 DEF AskedFor
    <2>4. ASSUME NEW c \in Caller
          PROVE  /\ n2.request[c].pc \in {"none", "queued", "waiting"}
                 /\ n2.request[c].token \in {tok, None} /\ n2.request[c].answer = NoAnswer
        BY <1>6, <1>8, <2>2, <2>3, ThreadFacts, NoRequestFacts
    <2>5. \A c \in Caller : n2.request[c].nonce = None
        BY <1>9, <2>1, <2>4
    <2> QED
        BY <1>4, <1>6, <1>8, <2>1, <2>2, <2>4, <2>5, NoRequestFacts DEF Loaded, Threads
<1> QED
    BY <1>1, <1>2, <1>10, <1>11 DEF n1, n2, n3

LEMMA LoadEffect ==
    ASSUME NEW p, NEW tok \in Tokens \cup {None}, NEW k, Load(p, tok, k)
    PROVE  /\ Loaded(request', gate', p, tok)
           /\ op' \in [Thread -> [kind : Kinds, who : User \cup {None}]]
           /\ op'["session"].kind = "restore"
           /\ op'["form"].kind = IF p = "callback" THEN "callback" ELSE "idle"
           /\ \A t \in Thread \ {"session", "form"} : op'[t].kind = "idle"
<1>1. Loaded(request', gate', p, tok)
    BY LoadResult DEF Load
<1>2. op' = [t \in Thread |->
                    CASE t = "session" -> Op("restore", None)
                      [] t = "form" /\ p = "callback" -> Op("callback", None)
                      [] OTHER -> Idle]
    BY DEF Load
<1>3. /\ Op("restore", None) \in [kind : Kinds, who : User \cup {None}]
      /\ Op("callback", None) \in [kind : Kinds, who : User \cup {None}]
      /\ Idle \in [kind : Kinds, who : User \cup {None}]
      /\ Op("restore", None).kind = "restore" /\ Op("callback", None).kind = "callback"
      /\ Idle.kind = "idle"
    BY DEF Op, Idle, Kinds
<1>4. ASSUME NEW t \in Thread
      PROVE  /\ t = "session" => op'[t] = Op("restore", None)
             /\ t = "form" /\ p = "callback" => op'[t] = Op("callback", None)
             /\ t # "session" /\ ~(t = "form" /\ p = "callback") => op'[t] = Idle
    BY <1>2
<1>5. op' \in [Thread -> [kind : Kinds, who : User \cup {None}]]
    BY <1>2, <1>3, <1>4
<1> QED
    BY <1>1, <1>3, <1>4, <1>5, ThreadFacts DEF Threads

\* The cookie is stale or not, and otherwise the one it was.
SameCookie ==
    /\ cookie' \in Cookies \cup {None} /\ (cookie' = None <=> cookie = None)
    /\ cookie'.who = cookie.who /\ cookie'.bound = cookie.bound

LEMMA ServeEffect ==
    ASSUME ClientOK, NEW c \in Caller, Serve(c)
    PROVE  /\ ClientFor(request', gate') /\ \A d \in Caller \ {c} : request'[d] = request[d]
           /\ request[c].pc = "sent" /\ request'[c].pc = "answered"
           /\ request'[c].call = request[c].call /\ request'[c].who = request[c].who
           /\ request'[c].token = request[c].token /\ request'[c].nonce = request[c].nonce
           /\ request'[c].retries = request[c].retries /\ request'[c].second = request[c].second
           /\ request'[c].answer.status \in Statuses(request[c])
           /\ request'[c].answer.nonce = IF Validated(request[c]) THEN FreshNonce ELSE None
           /\ SameCookie
<1>1. PICK status \in Statuses(request[c]) :
          /\ request' = [request EXCEPT ![c].pc = "answered",
                  ![c].answer = [status |-> status,
                                 nonce |-> IF Validated(request[c]) THEN FreshNonce ELSE None]]
          /\ cookie' = IF request[c].call = "refresh" /\ status = "ok"
                       THEN [cookie EXCEPT !.current = FALSE] ELSE cookie
    BY DEF Serve
<1>2. PICK n : n = IF Validated(request[c]) THEN FreshNonce ELSE None
    OBVIOUS
<1>3. PICK a : a = [status |-> status, nonce |-> n]
    OBVIOUS
<1>4. request[c].pc = "sent" /\ OnWire(request[c]) /\ gate' = gate
    BY DEF Serve, OnWire
<1>5. request[c] \in Requests /\ FieldsOK(c, request[c]) /\ request[c].call # "none"
    BY <1>4, ClientFacts DEF FieldsOK
<1>6. status \in {"ok", "refused", "unauthorized", "challenge"}
    BY <1>5, StatusFacts
<1>7. n \in Nonce \cup {None}
    BY <1>2, <1>4, FreshNonceIsNew
<1>8. a \in Answers /\ a.status = status /\ a.nonce = n
    BY <1>3, <1>6, <1>7 DEF Answers
<1>9. request' = [request EXCEPT ![c].pc = "answered", ![c].answer = a]
    BY <1>1, <1>2, <1>3
<1>10. /\ ClientFor(request', gate') /\ \A d \in Caller \ {c} : request'[d] = request[d]
       /\ request'[c].pc = "answered" /\ request'[c].answer = a
       /\ request'[c].call = request[c].call /\ request'[c].who = request[c].who
       /\ request'[c].token = request[c].token /\ request'[c].nonce = request[c].nonce
       /\ request'[c].retries = request[c].retries /\ request'[c].second = request[c].second
    BY <1>4, <1>8, <1>9, AnswerEffect
<1>11. SameCookie
    <2>1. CASE request[c].call = "refresh" /\ status = "ok"
        <3>1. cookie \in Cookies
            BY <1>5, <2>1, StatusFacts DEF ClientOK
        <3>2. cookie' = [cookie EXCEPT !.current = FALSE]
            BY <1>1, <2>1
        <3>3. cookie' \in Cookies /\ cookie'.who = cookie.who /\ cookie'.bound = cookie.bound
            BY <3>1, <3>2 DEF Cookies
        <3> QED
            BY <3>1, <3>3, NoneIsNone DEF SameCookie
    <2>2. CASE ~(request[c].call = "refresh" /\ status = "ok")
        BY <1>1, <2>2 DEF SameCookie, ClientOK
    <2> QED
        BY <2>1, <2>2
<1> QED
    BY <1>2, <1>4, <1>8, <1>10, <1>11

LEMMA FailEffect ==
    ASSUME ClientOK, NEW c \in Caller, Unavailable(c) \/ ConnectionFails(c)
    PROVE  /\ ClientFor(request', gate') /\ \A d \in Caller \ {c} : request'[d] = request[d]
           /\ OnWire(request[c]) /\ request'[c].pc = "answered"
           /\ request'[c].answer.status \in {"unavailable", "lost"}
           /\ request'[c].answer.nonce = None
           /\ request'[c].call = request[c].call /\ request'[c].who = request[c].who
           /\ request'[c].token = request[c].token /\ request'[c].second = request[c].second
           /\ UNCHANGED <<token, nonce, gate, cookie>>
           /\ failures' = failures + 1 /\ failures' \in Nat /\ failures' # 0
           /\ expiries' = expiries
<1>1. PICK status \in {"unavailable", "lost"} :
         request' = [request EXCEPT ![c].pc = "answered",
                         ![c].answer = [status |-> status, nonce |-> None]]
    BY DEF Unavailable, ConnectionFails
<1>2. PICK a : a = [status |-> status, nonce |-> None]
    OBVIOUS
<1>3. a \in Answers /\ a.status = status /\ a.nonce = None
    BY <1>2 DEF Answers
<1>4. OnWire(request[c]) /\ UNCHANGED <<token, nonce, gate, cookie>>
    BY DEF Unavailable, ConnectionFails, OnWire
<1>5. /\ ClientFor(request', gate') /\ \A d \in Caller \ {c} : request'[d] = request[d]
      /\ request'[c].pc = "answered" /\ request'[c].answer = a
      /\ request'[c].call = request[c].call /\ request'[c].who = request[c].who
      /\ request'[c].token = request[c].token /\ request'[c].nonce = request[c].nonce
      /\ request'[c].retries = request[c].retries /\ request'[c].second = request[c].second
    <2>1. request' = [request EXCEPT ![c].pc = "answered", ![c].answer = a] /\ gate' = gate
        BY <1>1, <1>2, <1>4
    <2> QED
        BY <1>3, <1>4, <2>1, AnswerEffect
<1>6. failures' = failures + 1 /\ expiries' = expiries /\ failures \in Nat
    BY DEF Unavailable, ConnectionFails, Fail, ClientOK
<1>7. failures' \in Nat /\ failures' # 0
    BY <1>6
<1> QED
    BY <1>3, <1>4, <1>5, <1>6, <1>7

----------------------------------------------------------------------------
(* The client's invariant *)

LEMMA AnswersStay ==
    ASSUME NEW q, NEW p, NEW f, NEW g, AnswersOK(q, f), g = 0 => f = 0,
           p.pc = q.pc, p.call = q.call, p.answer = q.answer, p.second = q.second,
           p.token = None <=> q.token = None, p.token.bound = q.token.bound
    PROVE  AnswersOK(p, g)
BY DEF AnswersOK, Answered

LEMMA AnswersOfNone ==
    ASSUME NEW p, NEW g, p.pc \notin {"answered", "done"}
    PROVE  AnswersOK(p, g) /\ \A status : ~Answered(p, status)
BY DEF AnswersOK, Answered

LEMMA AloneStays ==
    ASSUME Alone,
           \A c \in Caller : request'[c].pc = "done" =>
               request[c].pc = "done" /\ request'[c].answer.status = request[c].answer.status
    PROVE  Alone'
BY DEF Alone, Answered

\* The request of c moves on the wire.
LEMMA WireClient ==
    ASSUME ClientOK, NEW c \in Caller, ClientFor(request', gate'),
           \A d \in Caller \ {c} : request'[d] = request[d],
           request'[c].pc \in {"sent", "answered"},
           token' \in Tokens \cup {None}, nonce' \in Nonce \cup {None},
           cookie' \in Cookies \cup {None}, failures' \in Nat, expiries' \in Nat,
           failures' = 0 => failures = 0,
           request'[c].pc = "sent" => request'[c].nonce = nonce',
           AnswersOK(request'[c], failures'),
           cookie # None /\ cookie.bound => cookie' # None /\ cookie'.bound,
           c = Refresher /\ Answered(request'[c], "ok") => cookie' # None /\ cookie'.bound
    PROVE  ClientOK'
<1>1. \A d \in Caller : request'[d].pc = "sent" => request'[d].nonce = nonce'
    <2>1. OnWire(request'[c])
        BY DEF OnWire
    <2>2. \A d \in Caller : OnWire(request'[d]) => d = c
        BY <2>1 DEF ClientFor, GateFor
    <2> QED
        BY <2>2 DEF OnWire
<1>2. \A d \in Caller : AnswersOK(request'[d], failures')
    <2>1. \A d \in Caller \ {c} : AnswersOK(request[d], failures')
        BY ClientFacts, AnswersStay
    <2> QED
        BY <2>1
<1>3. Answered(request'[Refresher], "ok") => cookie' # None /\ cookie'.bound
    BY ThreadFacts DEF ClientOK
<1>4. Alone'
    BY AloneStays DEF ClientOK
<1> QED
    BY <1>1, <1>2, <1>3, <1>4 DEF ClientOK

LEMMA SendClient ==
    ASSUME ClientOK, NEW c \in Caller, Send(c)
    PROVE  ClientOK' /\ ThreadsGoOn
<1>1. /\ ClientFor(request', gate') /\ \A d \in Caller \ {c} : request'[d] = request[d]
      /\ request[c].pc = "queued" /\ request'[c].pc = "sent" /\ request'[c].nonce = nonce
      /\ request'[c].call = request[c].call /\ request'[c].who = request[c].who
    BY SendEffect
<1>2. UNCHANGED <<token, nonce, cookie, failures, expiries>>
    BY DEF Send
<1>3. AnswersOK(request'[c], failures') /\ ~Answered(request'[c], "ok")
    BY <1>1, AnswersOfNone
<1>4. ClientOK'
    BY <1>1, <1>2, <1>3, WireClient DEF ClientOK
<1> QED
    BY <1>1, <1>4, ThreadFacts DEF ThreadsGoOn

LEMMA ServeClient ==
    ASSUME ClientOK, NEW c \in Caller, Serve(c)
    PROVE  ClientOK' /\ ThreadsGoOn
<1>1. /\ ClientFor(request', gate') /\ \A d \in Caller \ {c} : request'[d] = request[d]
      /\ request[c].pc = "sent" /\ request'[c].pc = "answered"
      /\ request'[c].call = request[c].call /\ request'[c].who = request[c].who
      /\ request'[c].token = request[c].token /\ request'[c].second = request[c].second
      /\ request'[c].answer.status \in Statuses(request[c])
      /\ request'[c].answer.nonce = IF Validated(request[c]) THEN FreshNonce ELSE None
      /\ SameCookie
    BY ServeEffect
<1>2. UNCHANGED <<token, nonce, failures, expiries>>
    BY DEF Serve
<1>3. /\ request[c] \in Requests /\ FieldsOK(c, request[c]) /\ request[c].call # "none"
      /\ OnWire(request[c])
    BY <1>1, ClientFacts DEF FieldsOK, OnWire
<1>4. FreshNonce # None
    BY <1>1, FreshNonceIsNew, NoneIsNone
<1>5. PICK status \in Statuses(request[c]) : status = request'[c].answer.status
    BY <1>1
<1>6. /\ status \in {"ok", "refused", "unauthorized", "challenge"}
      /\ status = "ok" /\ Authenticated(request[c].call) =>
           Usable(request[c].token) /\ request[c].token.bound
      /\ status = "unauthorized" =>
           Authenticated(request[c].call)
           /\ (~Usable(request[c].token) \/ ~request[c].token.bound)
      /\ status = "challenge" => Validated(request[c])
      /\ request[c].call = "logout" => status = "ok"
      /\ status = "refused" => ~Authenticated(request[c].call)
      /\ request[c].call = "refresh" /\ status = "ok" => cookie # None /\ cookie.bound
    BY <1>3, StatusFacts
<1>7. request[c].second => Usable(request[c].token)
    BY <1>3 DEF FieldsOK, Asking, Usable
<1>8. AnswersOK(request'[c], failures')
    BY <1>1, <1>4, <1>5, <1>6, <1>7 DEF AnswersOK, Answered, Usable
<1>9. c = Refresher => request[c].call = "refresh"
    BY <1>1, <1>3 DEF FieldsOK
<1>10. c = Refresher /\ Answered(request'[c], "ok") => cookie' # None /\ cookie'.bound
    BY <1>1, <1>5, <1>6, <1>9 DEF Answered, SameCookie
<1>11. ClientOK'
    BY <1>1, <1>2, <1>8, <1>10, WireClient DEF ClientOK, SameCookie
<1> QED
    BY <1>1, <1>11, ThreadFacts DEF ThreadsGoOn

LEMMA FailClient ==
    ASSUME ClientOK, NEW c \in Caller, Unavailable(c) \/ ConnectionFails(c)
    PROVE  ClientOK' /\ ThreadsGoOn /\ failures' # 0
<1>1. /\ ClientFor(request', gate') /\ \A d \in Caller \ {c} : request'[d] = request[d]
      /\ OnWire(request[c]) /\ request'[c].pc = "answered"
      /\ request'[c].answer.status \in {"unavailable", "lost"}
      /\ request'[c].call = request[c].call /\ request'[c].who = request[c].who
      /\ UNCHANGED <<token, nonce, gate, cookie>>
      /\ failures' \in Nat /\ failures' # 0 /\ expiries' = expiries
    BY FailEffect
<1>2. AnswersOK(request'[c], failures') /\ ~Answered(request'[c], "ok")
    BY <1>1 DEF AnswersOK, Answered
<1>3. ClientOK'
    BY <1>1, <1>2, WireClient DEF ClientOK
<1> QED
    BY <1>1, <1>3, ThreadFacts DEF ThreadsGoOn, OnWire

LEMMA RetryClient ==
    ASSUME ClientOK, NEW c \in Caller, RetryWithNonce(c)
    PROVE  ClientOK' /\ ThreadsGoOn
<1>1. /\ ClientFor(request', gate') /\ \A d \in Caller \ {c} : request'[d] = request[d]
      /\ request[c].pc = "answered" /\ request'[c].pc = "sent"
      /\ nonce' = request[c].answer.nonce /\ request'[c].nonce = nonce'
      /\ request'[c].call = request[c].call /\ request'[c].who = request[c].who
    BY RetryEffect
<1>2. UNCHANGED <<token, cookie, failures, expiries>>
    BY DEF RetryWithNonce
<1>3. nonce' \in Nonce \cup {None}
    BY <1>1, ClientFacts DEF Requests, Answers
<1>4. AnswersOK(request'[c], failures') /\ ~Answered(request'[c], "ok")
    BY <1>1, AnswersOfNone
<1>5. ClientOK'
    BY <1>1, <1>2, <1>3, <1>4, WireClient DEF ClientOK
<1> QED
    BY <1>1, <1>5, ThreadFacts DEF ThreadsGoOn

LEMMA ExpireClient ==
    ASSUME ClientOK, TokenExpires
    PROVE  ClientOK' /\ ThreadsGoOn
<1>1. /\ ClientFor(request', gate') /\ token' \in Tokens
      /\ \A c \in Caller :
           /\ request'[c].pc = request[c].pc /\ request'[c].call = request[c].call
           /\ request'[c].who = request[c].who /\ request'[c].nonce = request[c].nonce
           /\ request'[c].second = request[c].second
           /\ request'[c].answer = request[c].answer
           /\ request'[c].token = None <=> request[c].token = None
           /\ request'[c].token.bound = request[c].token.bound
    BY ExpireEffect
<1>2. UNCHANGED <<nonce, cookie, failures>> /\ expiries' \in Nat
    BY DEF TokenExpires, Expire, ClientOK
<1>3. \A c \in Caller : AnswersOK(request'[c], failures')
    BY <1>1, <1>2, ClientFacts, AnswersStay
<1>4. Alone'
    BY <1>1, AloneStays DEF ClientOK
<1>5. ClientOK'
    BY <1>1, <1>2, <1>3, <1>4, ThreadFacts DEF ClientOK, Answered
<1> QED
    BY <1>1, <1>5, ThreadFacts DEF ThreadsGoOn

\* Steps that leave the requests, the tokens, the nonce and the cookie alone.
LEMMA ElsewhereClient ==
    ASSUME ClientOK, UNCHANGED <<token, nonce, gate, request, cookie, failures>>,
           expiries' \in Nat
    PROVE  ClientOK' /\ ThreadsGoOn
BY DEF ClientOK, Alone, ThreadsGoOn

LEMMA CapturedNonce ==
    ASSUME ClientOK, NEW c \in Caller, Captures(c)
    PROVE  nonce' \in Nonce \cup {None} /\ \A d \in Caller : request'[d].pc # "sent"
BY ClientFacts DEF Captures, ClientOK, Requests, Answers, OnWire

\* Which operation asks for what.
LEMMA CallFacts ==
    ASSUME OpsOK, NEW t \in Thread, request[t].pc # "none"
    PROVE  /\ op[t].kind \in Kinds \ {"idle", "google"}
           /\ request[t].call = "login" <=> op[t].kind = "login"
           /\ request[t].call = "logout" <=> op[t].kind = "logout"
           /\ request[t].call = "register" <=> op[t].kind = "register"
           /\ request[t].call # "refresh"
           /\ Authenticated(request[t].call) <=>
                op[t].kind \in {"restore", "check", "callback", "loginCheck", "query"}
           /\ request[t].call = "login" => request[t].who = op[t].who /\ request[t].who \in User
           /\ op[t].kind \notin {"restore", "check"} => t = "form"
BY DEF OpsOK, OpOK, CallOf, Kinds, Authenticated

LEMMA ReceivedClient ==
    ASSUME ClientOK, OpsOK, NEW c \in Caller, Receive(c),
           ~(request[c].answer.status = "unauthorized" /\ ~request[c].second)
    PROVE  ClientOK' /\ ThreadsGoOn
<1>1. /\ c \in Thread /\ Captures(c)
      /\ \A d \in Caller \ {c} : request'[d] = request[d]
      /\ request'[c].pc = "done" /\ request'[c].call = request[c].call
      /\ request'[c].who = request[c].who /\ request'[c].token = request[c].token
      /\ request'[c].second = request[c].second
      /\ request'[c].answer.status = request[c].answer.status
    BY ReceivedEffect
<1>2. UNCHANGED <<token, failures, expiries>> /\ cookie' = CookieAfter(c, request[c].answer.status)
    BY DEF Receive
<1>3. /\ request[c] \in Requests /\ FieldsOK(c, request[c]) /\ AnswersOK(request[c], failures)
      /\ request[c].pc = "answered" /\ c # Refresher
    BY <1>1, ClientFacts, ThreadFacts DEF Captures
<1>4. cookie' \in Cookies \cup {None}
    <2>1. request[c].call = "login" => request[c].who \in User
        BY <1>1, <1>3, CallFacts
    <2>2. request[c].who \in User => Cookie(request[c].who, TRUE) \in Cookies
        BY DEF Cookie, Cookies
    <2>3. request[c].call # "refresh"
        BY <1>3 DEF FieldsOK
    <2> QED
        BY <1>2, <2>1, <2>2, <2>3 DEF CookieAfter, ClientOK
<1>5. \A d \in Caller : AnswersOK(request'[d], failures')
    <2>1. AnswersOK(request'[c], failures')
        BY <1>1, <1>2, <1>3 DEF AnswersOK, Answered
    <2>2. \A d \in Caller \ {c} : AnswersOK(request'[d], failures')
        BY <1>1, <1>2, ClientFacts
    <2> QED
        BY <2>1, <2>2
<1>6. ~Answered(request'[Refresher], "ok")
    BY <1>1, <1>3, ThreadFacts DEF Captures, Answered, OnWire
<1>7. Alone'
    BY <1>1 DEF Alone, Captures
<1>8. nonce' \in Nonce \cup {None} /\ \A d \in Caller : request'[d].pc # "sent"
    BY <1>1, CapturedNonce
<1>9. ClientFor(request', gate')
    BY <1>1 DEF Captures
<1>10. ClientOK'
    BY <1>2, <1>4, <1>5, <1>6, <1>7, <1>8, <1>9 DEF ClientOK
<1> QED
    BY <1>1, <1>3, <1>10, ThreadFacts DEF ThreadsGoOn

LEMMA AskedAgainClient ==
    ASSUME ClientOK, NEW c \in Caller, Receive(c),
           request[c].answer.status = "unauthorized", ~request[c].second
    PROVE  ClientOK' /\ ThreadsGoOn
<1>1. /\ c \in Thread /\ Captures(c) /\ Authenticated(request[c].call)
      /\ \A d \in Thread \ {c} : request'[d] = request[d]
      /\ request'[c].pc = "waiting" /\ request'[c].call = request[c].call
      /\ \/ request'[Refresher] = request[Refresher]
         \/ request[Refresher].pc = "none" /\ request'[Refresher].pc = "queued"
    BY AskedAgainEffect
<1>2. UNCHANGED <<token, cookie, failures, expiries>>
    BY DEF Receive, CookieAfter
<1>3. request[c].pc = "answered" /\ \A d \in Caller : request[d].pc # "done"
    BY <1>1 DEF Captures
<1>4. \A d \in Caller : AnswersOK(request'[d], failures')
    BY <1>1, <1>2, ClientFacts, AnswersOfNone, ThreadFacts
<1>5. ~Answered(request'[Refresher], "ok")
    <2>1. ~OnWire(request[Refresher])
        BY <1>1, ThreadFacts DEF Captures
    <2> QED
        BY <1>1, <1>3, <2>1, ThreadFacts DEF Answered, OnWire
<1>6. Alone'
    BY <1>1, <1>3, ThreadFacts DEF Alone
<1>7. nonce' \in Nonce \cup {None} /\ \A d \in Caller : request'[d].pc # "sent"
    BY <1>1, CapturedNonce, ThreadFacts
<1>8. ClientFor(request', gate')
    BY <1>1 DEF Captures
<1>9. ClientOK'
    BY <1>2, <1>4, <1>5, <1>6, <1>7, <1>8 DEF ClientOK
<1> QED
    BY <1>1, <1>3, <1>9 DEF ThreadsGoOn

LEMMA RefreshEndsClient ==
    ASSUME ClientOK, RefreshEnds
    PROVE  ClientOK' /\ ThreadsGoOn
<1>1. /\ Captures(Refresher) /\ token' = RefreshedToken
      /\ request'[Refresher] = NoRequest
      /\ \A c \in Thread : request[c].pc # "waiting" => request'[c] = request[c]
      /\ \A c \in Thread : request[c].pc = "waiting" =>
            /\ request'[c].call = request[c].call /\ request'[c].who = request[c].who
            /\ request[c].second /\ RefreshedToken = None =>
                 request'[c].pc = "done" /\ request'[c].answer.status = "unauthorized"
            /\ ~(request[c].second /\ RefreshedToken = None) => request'[c].pc = "queued"
    BY RefreshEndsEffect
<1>2. request[Refresher].pc = "answered" /\ \A d \in Caller : request[d].pc # "done"
    BY <1>1 DEF Captures
<1>3. /\ RefreshedToken \in Tokens \cup {None}
      /\ RefreshedToken # None <=> request[Refresher].answer.status = "ok"
      /\ RefreshedToken # None => cookie # None /\ cookie.bound
    BY <1>2, RefreshedTokenFacts
<1>4. UNCHANGED <<failures, expiries>>
      /\ cookie' = CookieAfter(Refresher, request[Refresher].answer.status)
    BY DEF RefreshEnds
<1>5. cookie' \in Cookies \cup {None}
    <2>1. request[Refresher].call = "refresh"
        BY <1>2, ClientFacts, ThreadFacts DEF FieldsOK
    <2>2. CASE request[Refresher].answer.status = "ok"
        <3>1. cookie.who \in User
            BY <1>3, <2>2 DEF ClientOK, Cookies
        <3> QED
            BY <1>4, <2>1, <2>2, <3>1 DEF CookieAfter, Cookie, Cookies
    <2>3. CASE request[Refresher].answer.status # "ok"
        BY <1>4, <2>1, <2>3 DEF CookieAfter, ClientOK
    <2> QED
        BY <2>2, <2>3
<1>6. ASSUME NEW c \in Thread
      PROVE  /\ AnswersOK(request'[c], failures')
             /\ request'[c].pc = "done" => Answered(request'[c], "unauthorized")
    <2>1. c \in Caller
        BY ThreadFacts
    <2>2. CASE request[c].pc # "waiting"
        BY <1>1, <1>2, <1>4, <2>1, <2>2, ClientFacts
    <2>3. CASE request[c].pc = "waiting" /\ request[c].second /\ RefreshedToken = None
        <3>1. Authenticated(request[c].call)
            BY <2>1, <2>3, ClientFacts DEF FieldsOK
        <3>2. Authenticated(request'[c].call) /\ request'[c].call # "logout"
            BY <1>1, <2>3, <3>1 DEF Authenticated
        <3> QED
            BY <1>1, <2>3, <3>2 DEF AnswersOK, Answered
    <2>4. CASE request[c].pc = "waiting" /\ ~(request[c].second /\ RefreshedToken = None)
        BY <1>1, <2>4, AnswersOfNone
    <2> QED
        BY <2>2, <2>3, <2>4
<1>7. \A d \in Caller : AnswersOK(request'[d], failures')
    BY <1>1, <1>6, NoRequestFacts, AnswersOfNone, ThreadFacts
<1>8. ~Answered(request'[Refresher], "ok")
    BY <1>1, NoRequestFacts DEF Answered
<1>9. Alone'
    BY <1>1, <1>6, NoRequestFacts, ThreadFacts DEF Alone
<1>10. nonce' \in Nonce \cup {None} /\ \A d \in Caller : request'[d].pc # "sent"
    BY <1>1, CapturedNonce, ThreadFacts
<1>11. ClientFor(request', gate')
    BY <1>1 DEF Captures
<1>12. token' \in Tokens \cup {None}
    BY <1>1, <1>3
<1>13. ClientOK'
    BY <1>4, <1>5, <1>7, <1>8, <1>9, <1>10, <1>11, <1>12 DEF ClientOK
<1>14. ThreadsGoOn
    <2> SUFFICES ASSUME NEW t \in Thread
                 PROVE  /\ request'[t].pc = "none" <=> request[t].pc = "none"
                        /\ request'[t].call = request[t].call
                        /\ request'[t].who = request[t].who \/ Authenticated(request[t].call)
        BY DEF ThreadsGoOn
    <2> QED
        BY <1>1
<1> QED
    BY <1>13, <1>14

\* A request asked for by thread t.
LEMMA AskClient ==
    ASSUME ClientOK, NEW t \in Thread, NEW call, NEW u, NEW tok, Asks(t, call, u, tok),
           token' \in Tokens \cup {None}, UNCHANGED <<nonce, cookie, failures, expiries>>
    PROVE  ClientOK'
<1>1. \A d \in Caller : \/ d \in Thread \ {t} /\ request'[d] = request[d]
                        \/ d = Refresher /\ request'[d] = request[d]
                        \/ request'[d].pc \in {"queued", "waiting"}
    BY ThreadFacts DEF Asks, RefresherStays
<1>2. \A d \in Caller : AnswersOK(request'[d], failures')
    BY <1>1, ClientFacts, AnswersOfNone
<1>3. \A d \in Caller : request'[d].pc = "sent" => request'[d].nonce = nonce'
    BY <1>1 DEF ClientOK
<1>4. Answered(request'[Refresher], "ok") => cookie' # None /\ cookie'.bound
    BY <1>1, ThreadFacts DEF ClientOK, Answered
<1>5. Alone'
    <2>1. \A c \in Caller : request'[c].pc = "done" =>
               request[c].pc = "done" /\ request'[c].answer.status = request[c].answer.status
        BY <1>1
    <2> QED
        BY <2>1, AloneStays DEF ClientOK
<1> QED
    BY <1>2, <1>3, <1>4, <1>5 DEF ClientOK, Asks

LEMMA FinishClient ==
    ASSUME ClientOK, OpsOK, NEW t \in Thread, request[t].pc = "done", Finish(t),
           token' \in Tokens \cup {None}
    PROVE  ClientOK'
<1>1. /\ ClientFor(request', gate')
      /\ request'[t] = NoRequest /\ \A d \in Caller \ {t} : request'[d] = request[d]
    BY FinishEffect
<1>2. UNCHANGED <<nonce, cookie, failures, expiries>>
    BY DEF Finish
<1>3. \A d \in Caller : AnswersOK(request'[d], failures')
    BY <1>1, <1>2, ClientFacts, NoRequestFacts, AnswersOfNone
<1>4. \A d \in Caller : request'[d].pc = "sent" => request'[d].nonce = nonce'
    BY <1>1, <1>2, NoRequestFacts DEF ClientOK
<1>5. Answered(request'[Refresher], "ok") => cookie' # None /\ cookie'.bound
    BY <1>1, <1>2, ThreadFacts DEF ClientOK, Answered
<1>6. Alone'
    <2>1. \A c \in Caller : request'[c].pc = "done" =>
               request[c].pc = "done" /\ request'[c].answer.status = request[c].answer.status
        BY <1>1, NoRequestFacts
    <2> QED
        BY <2>1, AloneStays DEF ClientOK
<1> QED
    BY <1>1, <1>2, <1>3, <1>4, <1>5, <1>6 DEF ClientOK

LEMMA LoadClient ==
    ASSUME NEW p, NEW tok \in Tokens \cup {None}, NEW k \in Cookies \cup {None},
           Load(p, tok, k), failures' \in Nat, expiries' \in Nat
    PROVE  ClientOK'
<1>1. Loaded(request', gate', p, tok) /\ token' = tok /\ nonce' = None /\ cookie' = k
    BY LoadEffect DEF Load
<1>2. /\ ClientFor(request', gate')
      /\ \A c \in Caller : request'[c].pc \in {"none", "queued", "waiting"}
    BY <1>1 DEF Loaded
<1>3. \A c \in Caller : AnswersOK(request'[c], failures')
    BY <1>2, AnswersOfNone
<1>4. Alone' /\ ~Answered(request'[Refresher], "ok")
    BY <1>2, ThreadFacts DEF Alone, Answered
<1> QED
    BY <1>1, <1>2, <1>3, <1>4 DEF ClientOK

----------------------------------------------------------------------------
(* The operations and their requests *)

LEMMA OpsStay ==
    ASSUME OpsOK, ThreadsGoOn, op' = op
    PROVE  OpsOK'
<1>1. ASSUME NEW t \in Thread PROVE OpOK(t)'
    <2>1. OpOK(t)
        BY DEF OpsOK
    <2>2. Authenticated(request[t].call) => request[t].call # "login"
        BY DEF Authenticated
    <2>3. op[t].kind = "login" /\ request[t].pc # "none" => request[t].call = "login"
        BY <2>1 DEF OpOK, CallOf
    <2>4. op[t].kind = "login" => request[t].pc # "none"
        BY <2>1 DEF OpOK
    <2> QED
        BY <2>1, <2>2, <2>3, <2>4 DEF OpOK, ThreadsGoOn
<1> QED
    BY <1>1 DEF OpsOK

\* Thread t runs an operation of another kind now.
LEMMA OpsChange ==
    ASSUME OpsOK, NEW t \in Thread,
           op' \in [Thread -> [kind : Kinds, who : User \cup {None}]],
           \A s \in Thread \ {t} : op'[s] = op[s] /\ request'[s] = request[s],
           OpOK(t)'
    PROVE  OpsOK'
<1>1. \A s \in Thread \ {t} : OpOK(s)'
    BY DEF OpsOK, OpOK
<1> QED
    BY <1>1 DEF OpsOK

LEMMA LoadOps ==
    ASSUME NEW p, NEW tok \in Tokens \cup {None}, NEW k, Load(p, tok, k)
    PROVE  OpsOK'
<1>1. /\ Loaded(request', gate', p, tok)
      /\ op' \in [Thread -> [kind : Kinds, who : User \cup {None}]]
      /\ op'["session"].kind = "restore"
      /\ op'["form"].kind = IF p = "callback" THEN "callback" ELSE "idle"
      /\ \A t \in Thread \ {"session", "form"} : op'[t].kind = "idle"
    BY LoadEffect
<1>2. ASSUME NEW t \in Thread PROVE OpOK(t)'
    <2>1. CASE t = "session"
        BY <1>1, <2>1, ThreadFacts DEF Loaded, OpOK, CallOf
    <2>2. CASE t = "form" /\ p = "callback"
        BY <1>1, <2>2, ThreadFacts DEF Loaded, OpOK, CallOf, Threads
    <2>3. CASE t # "session" /\ ~(t = "form" /\ p = "callback")
        BY <1>1, <2>3, ThreadFacts DEF Loaded, OpOK, CallOf, Threads
    <2> QED
        BY <2>1, <2>2, <2>3
<1> QED
    BY <1>1, <1>2 DEF OpsOK

LEMMA ClientStepKeeps ==
    ASSUME ClientOK, OpsOK, ClientStep
    PROVE  ClientOK' /\ ThreadsGoOn
<1>1. ASSUME NEW c \in Caller, MakeKey(c) \/ StoreKey(c) PROVE ClientOK' /\ ThreadsGoOn
    BY <1>1, ElsewhereClient DEF MakeKey, StoreKey, ClientOK
<1>2. CASE NonceExpires
    <2>1. expiries' \in Nat /\ UNCHANGED <<token, nonce, gate, request, cookie, failures>>
        BY <1>2 DEF NonceExpires, Expire, ClientOK
    <2> QED
        BY <2>1, ElsewhereClient
<1>3. ASSUME NEW c \in Caller, Receive(c) PROVE ClientOK' /\ ThreadsGoOn
    BY <1>3, ReceivedClient, AskedAgainClient
<1> QED
    BY <1>1, <1>2, <1>3, SendClient, ServeClient, FailClient, ExpireClient, RetryClient,
       RefreshEndsClient DEF ClientStep, Progress

LEMMA StartKeeps ==
    ASSUME ClientOK, OpsOK, NEW t \in Thread, NEW kind \in Kinds \ {"idle", "google"},
           NEW call \in Calls \ {"none", "refresh"}, NEW u \in User \cup {None},
           Start(t, kind, call, u), call = CallOf(kind),
           IF kind \in {"restore", "check"} THEN t = "session" ELSE t = "form",
           kind \in {"register", "login", "loginCheck"} => u \in User
    PROVE  ClientOK' /\ OpsOK'
<1>1. /\ Asks(t, call, u, token)
      /\ op' \in [Thread -> [kind : Kinds, who : User \cup {None}]]
      /\ op'[t] = Op(kind, u) /\ \A s \in Thread \ {t} : op'[s] = op[s]
    BY StartEffect
<1>2. UNCHANGED <<token, nonce, cookie, failures, expiries>>
    BY DEF Start
<1>3. ClientOK'
    BY <1>1, <1>2, AskClient DEF ClientOK
<1>4. OpOK(t)'
    BY <1>1 DEF Asks, OpOK, Op
<1>5. OpsOK'
    BY <1>1, <1>4, OpsChange DEF Asks
<1> QED
    BY <1>3, <1>5

LEMMA ContinueKeeps ==
    ASSUME ClientOK, OpsOK, NEW kind \in {"login", "loginCheck"},
           request["form"].pc = "done", op["form"].kind \in {"register", "login"},
           NEW tok \in Tokens \cup {None}, Continue("form", kind, CallOf(kind), tok),
           token' \in Tokens \cup {None}
    PROVE  ClientOK' /\ OpsOK'
<1>1. /\ kind \in Kinds /\ CallOf(kind) \in Calls \ {"none", "refresh"} /\ "form" \in Thread
    BY ThreadFacts DEF Kinds, CallOf, Calls, Threads
<1>2. PICK call \in Calls \ {"none", "refresh"} : call = CallOf(kind)
    BY <1>1
<1>3. /\ Asks("form", call, op["form"].who, tok)
      /\ op' \in [Thread -> [kind : Kinds, who : User \cup {None}]]
      /\ op'["form"].kind = kind /\ op'["form"].who = op["form"].who
      /\ \A s \in Thread \ {"form"} : op'[s] = op[s]
    <2>1. Continue("form", kind, call, tok)
        BY <1>2
    <2> QED
        BY <1>1, <2>1, ContinueEffect
<1>4. UNCHANGED <<nonce, cookie, failures, expiries>>
    BY DEF Continue
<1>5. ClientOK'
    BY <1>1, <1>3, <1>4, AskClient
<1>6. op["form"].who \in User
    BY <1>1 DEF OpsOK, OpOK
<1>7. OpOK("form")'
    BY <1>1, <1>2, <1>3, <1>6 DEF Asks, OpOK
<1>8. OpsOK'
    BY <1>1, <1>3, <1>7, OpsChange DEF Asks
<1> QED
    BY <1>5, <1>8

LEMMA FinishKeeps ==
    ASSUME ClientOK, OpsOK, NEW t \in Thread, request[t].pc = "done", Finish(t),
           token' \in Tokens \cup {None}
    PROVE  ClientOK' /\ OpsOK'
<1>1. /\ request'[t] = NoRequest /\ \A d \in Caller \ {t} : request'[d] = request[d]
      /\ op' \in [Thread -> [kind : Kinds, who : User \cup {None}]]
      /\ op'[t] = Idle /\ \A s \in Thread \ {t} : op'[s] = op[s]
    BY FinishEffect
<1>2. OpOK(t)'
    BY <1>1, NoRequestFacts DEF OpOK, Idle
<1>3. OpsOK'
    BY <1>1, <1>2, OpsChange, ThreadFacts
<1> QED
    BY <1>3, FinishClient

LEMMA EndsKeeps ==
    ASSUME ClientOK, OpsOK, Ends
    PROVE  ClientOK' /\ OpsOK'
<1>1. PICK t \in Thread : \/ SessionChecked(t) \/ Registered(t) \/ LoginAnswered(t)
                          \/ LoginEnds(t) \/ LogoutEnds(t) \/ QueryEnds(t)
    BY DEF Ends
<1>2. request[t].pc = "done"
    BY <1>1 DEF SessionChecked, Registered, LoginAnswered, LoginEnds, LogoutEnds, QueryEnds, Done
<1>3. token \in Tokens \cup {None}
    BY DEF ClientOK
<1>4. op[t].kind \in {"register", "login"} => t = "form" /\ op[t].who \in User
    BY DEF OpsOK, OpOK
<1>5. CASE Registered(t) /\ Status(t) = "ok"
    <2>1. PICK tok \in Tokens \cup {None} : tok = token
        BY <1>3
    <2>2. t = "form" /\ op["form"].kind = "register"
        BY <1>4, <1>5 DEF Registered, Done
    <2>3. Continue("form", "login", CallOf("login"), tok) /\ token' = tok
        BY <1>5, <2>1, <2>2 DEF Registered, CallOf
    <2> QED
        BY <1>2, <2>2, <2>3, ContinueKeeps
<1>6. CASE LoginAnswered(t) /\ Status(t) = "ok"
    <2>1. t = "form" /\ op["form"].kind = "login" /\ op["form"].who \in User
        BY <1>4, <1>6 DEF LoginAnswered, Done
    <2>2. Token(op["form"].who, TRUE) \in Tokens
        BY <2>1 DEF Token, Tokens
    <2>3. PICK tok \in Tokens \cup {None} : tok = Token(op["form"].who, TRUE)
        BY <2>2
    <2>4. Continue("form", "loginCheck", CallOf("loginCheck"), tok) /\ token' = tok
        BY <1>6, <2>1, <2>3 DEF LoginAnswered, CallOf
    <2> QED
        BY <1>2, <2>1, <2>4, ContinueKeeps
<1>7. CASE (Registered(t) \/ LoginAnswered(t)) /\ Status(t) # "ok"
    <2>1. Finish(t) /\ token' = token
        BY <1>7 DEF Registered, LoginAnswered
    <2> QED
        BY <1>2, <1>3, <2>1, FinishKeeps
<1>8. CASE SessionChecked(t) \/ LoginEnds(t) \/ LogoutEnds(t) \/ QueryEnds(t)
    <2>1. Finish(t) /\ token' \in {token, None}
        BY <1>8 DEF SessionChecked, LoginEnds, LogoutEnds, QueryEnds
    <2> QED
        BY <1>2, <1>3, <2>1, FinishKeeps
<1> QED
    BY <1>1, <1>5, <1>6, <1>7, <1>8

\* What a reload and a return from Google load.
LEMMA ReloadFacts ==
    ASSUME ClientOK, Reload
    PROVE  \E k \in Cookies \cup {None} :
              /\ Load(page, None, k) /\ ((cookie # None /\ k # None) \/ k = cookie)
              /\ failures' \in Nat /\ expiries' \in Nat
              /\ failures' = 0 => failures = 0 /\ expiries' = expiries /\ k = cookie
<1>1. PICK k \in KeptCookie : Load(page, None, k)
    BY DEF Reload
<1>2. cookie \in Cookies \cup {None}
    BY DEF ClientOK
<1>3. CASE k = cookie
    <2>1. /\ failures' \in Nat /\ expiries' \in Nat
          /\ failures' = 0 => failures = 0 /\ expiries' = expiries
        <3>1. CASE InterruptedRefresh
            <4>1. failures' = failures + 1 /\ expiries' = expiries
                BY <3>1 DEF Reload, Fail
            <4> QED
                BY <4>1 DEF ClientOK
        <3>2. CASE ~InterruptedRefresh
            BY <3>2 DEF Reload, ClientOK
        <3> QED
            BY <3>1, <3>2
    <2> QED
        BY <1>1, <1>2, <1>3, <2>1
<1>4. CASE k # cookie
    <2>1. cookie \in Cookies /\ InterruptedRefresh /\ k = [cookie EXCEPT !.current = FALSE]
        BY <1>1, <1>2, <1>4 DEF KeptCookie, InterruptedRefresh
    <2>2. k \in Cookies /\ k # None /\ cookie # None
        BY <2>1, NoneIsNone DEF Cookies
    <2>3. failures' = failures + 1 /\ expiries' = expiries
        BY <2>1 DEF Reload, Fail
    <2>4. failures' \in Nat /\ failures' # 0 /\ expiries' \in Nat
        BY <2>3 DEF ClientOK
    <2> QED
        BY <1>1, <2>2, <2>4
<1> QED
    BY <1>3, <1>4

LEMMA GoogleFacts ==
    ASSUME ClientOK, NEW u \in User, GoogleReturns(u)
    PROVE  \E k \in Cookies, tok \in Tokens :
              /\ Load("callback", tok, k) /\ k # None /\ tok # None
              /\ k.who = u /\ tok.who = u /\ tok.bound = k.bound
              /\ UNCHANGED <<failures, expiries>>
<1>1. PICK b \in BOOLEAN : b = (urlKey = keys)
    OBVIOUS
<1>2. Cookie(u, b) \in Cookies /\ Token(u, b) \in Tokens
    BY DEF Cookie, Cookies, Token, Tokens
<1>3. /\ Cookie(u, b).who = u /\ Token(u, b).who = u
      /\ Token(u, b).bound = Cookie(u, b).bound
    BY DEF Cookie, Token
<1>4. Load("callback", Token(u, b), Cookie(u, b)) /\ UNCHANGED <<failures, expiries>>
    BY <1>1 DEF GoogleReturns
<1> QED
    BY <1>2, <1>3, <1>4, NoneIsNone

LEMMA InitKeeps ==
    ASSUME SessionInit
    PROVE  ClientOK /\ OpsOK
<1>1. PICK u \in User \cup {None} :
          LET n == Ask([c \in Caller |-> NoRequest], <<>>, "session", "whoami", None, None)
              k == IF u = None THEN None ELSE Cookie(u, TRUE)
          IN  /\ ClientInit(n, k)
              /\ op = [t \in Thread |-> IF t = "session" THEN Op("restore", None) ELSE Idle]
    BY DEF SessionInit
<1>2. PICK k : k = (IF u = None THEN None ELSE Cookie(u, TRUE))
    OBVIOUS
<1>3. k \in Cookies \cup {None}
    BY <1>2 DEF Cookie, Cookies
<1>4. Loaded(request, gate, "main", None)
    <2>1. ASSUME NEW tok \in Tokens \cup {None}
          PROVE  LET n == Ask([c \in Caller |-> NoRequest], <<>>, "session", "whoami", None, tok)
                 IN  Loaded(n.request, n.gate, "main", tok)
        BY LoadResult
    <2> QED
        BY <1>1, <2>1 DEF ClientInit
<1>5. ClientOK
    <2>1. /\ ClientFor(request, gate)
          /\ \A c \in Caller : request[c].pc \in {"none", "queued", "waiting"}
        BY <1>4 DEF Loaded
    <2>2. \A c \in Caller : AnswersOK(request[c], failures)
        BY <2>1, AnswersOfNone
    <2>3. Alone /\ ~Answered(request[Refresher], "ok")
        BY <2>1, ThreadFacts DEF Alone, Answered
    <2>4. token = None /\ nonce = None /\ cookie = k /\ failures = 0 /\ expiries = 0
        BY <1>1, <1>2 DEF ClientInit
    <2> QED
        BY <1>3, <2>1, <2>2, <2>3, <2>4 DEF ClientOK
<1>6. OpsOK
    <2>1. /\ Op("restore", None) \in [kind : Kinds, who : User \cup {None}]
          /\ Idle \in [kind : Kinds, who : User \cup {None}]
          /\ Op("restore", None).kind = "restore" /\ Idle.kind = "idle"
        BY DEF Op, Idle, Kinds
    <2>2. op \in [Thread -> [kind : Kinds, who : User \cup {None}]]
        BY <1>1, <2>1
    <2>3. \A t \in Thread : OpOK(t)
        BY <1>1, <1>4, <2>1, ThreadFacts DEF Loaded, OpOK, CallOf
    <2> QED
        BY <2>2, <2>3 DEF OpsOK
<1> QED
    BY <1>5, <1>6

LEMMA SessionStepKeeps ==
    ASSUME ClientOK, OpsOK, [SessionNext]_sessionVars
    PROVE  ClientOK' /\ OpsOK'
<1>1. CASE Transport
    BY <1>1, ClientStepKeeps, OpsStay DEF Transport
<1>2. CASE Ends
    BY <1>2, EndsKeeps
<1>3. CASE Poll \/ Logout
    <2>1. /\ "session" \in Thread /\ "form" \in Thread /\ None \in User \cup {None}
          /\ "check" \in Kinds \ {"idle", "google"} /\ CallOf("check") = "whoami"
          /\ "query" \in Kinds \ {"idle", "google"} /\ CallOf("query") = "query"
          /\ "logout" \in Kinds \ {"idle", "google"} /\ CallOf("logout") = "logout"
          /\ {"whoami", "query", "logout"} \subseteq Calls \ {"none", "refresh"}
        BY ThreadFacts DEF Threads, Kinds, Calls, CallOf
    <2>2. CASE Start("session", "check", "whoami", None)
        BY <2>1, <2>2, StartKeeps
    <2>3. CASE Start("form", "query", "query", None)
        BY <2>1, <2>3, StartKeeps
    <2>4. CASE Start("form", "logout", "logout", None)
        BY <2>1, <2>4, StartKeeps
    <2> QED
        BY <1>3, <2>2, <2>3, <2>4 DEF Poll, Logout
<1>4. ASSUME NEW u \in User, LoginPage(u) \/ RegisterPage(u) PROVE ClientOK' /\ OpsOK'
    <2>1. /\ "form" \in Thread /\ u \in User \cup {None}
          /\ "login" \in Kinds \ {"idle", "google"} /\ CallOf("login") = "login"
          /\ "register" \in Kinds \ {"idle", "google"} /\ CallOf("register") = "register"
          /\ {"login", "register"} \subseteq Calls \ {"none", "refresh"}
        BY ThreadFacts DEF Threads, Kinds, Calls, CallOf
    <2>2. CASE Start("form", "login", "login", u)
        BY <2>1, <2>2, StartKeeps
    <2>3. CASE Start("form", "register", "register", u)
        BY <2>1, <2>3, StartKeeps
    <2> QED
        BY <1>4, <2>2, <2>3 DEF LoginPage, RegisterPage
<1>5. CASE Reload
    BY <1>5, ReloadFacts, LoadClient, LoadOps
<1>6. ASSUME NEW u \in User, GoogleReturns(u) PROVE ClientOK' /\ OpsOK'
    <2>1. PICK k \in Cookies, tok \in Tokens :
              Load("callback", tok, k) /\ UNCHANGED <<failures, expiries>>
        BY <1>6, GoogleFacts
    <2> QED
        BY <2>1, LoadClient, LoadOps DEF ClientOK
<1>7. CASE GoogleClick
    <2>1. /\ op' = [op EXCEPT !["form"] = Op("google", None)] /\ op["form"].kind = "idle"
          /\ UNCHANGED clientVars /\ "form" \in Thread
        BY <1>7, ThreadFacts DEF GoogleClick, CanStart, Threads
    <2>2. Op("google", None) \in [kind : Kinds, who : User \cup {None}]
          /\ Op("google", None).kind = "google"
        BY DEF Op, Kinds
    <2>3. /\ op' \in [Thread -> [kind : Kinds, who : User \cup {None}]]
          /\ op'["form"] = Op("google", None) /\ \A s \in Thread \ {"form"} : op'[s] = op[s]
        BY <2>1, <2>2 DEF OpsOK
    <2>4. OpOK("form")'
        BY <2>1, <2>2, <2>3 DEF OpOK, OpsOK, clientVars
    <2>5. OpsOK'
        BY <2>1, <2>3, <2>4, OpsChange DEF clientVars
    <2> QED
        BY <2>1, <2>5, ElsewhereClient DEF clientVars, ClientOK
<1>8. ASSUME op' = op, UNCHANGED <<token, nonce, gate, request, cookie, failures, expiries>>
      PROVE  ClientOK' /\ OpsOK'
    BY <1>8, ElsewhereClient, OpsStay DEF ClientOK
<1>9. CASE Redirect \/ GoogleKey \/ (\E p \in Pages : Navigate(p)) \/ UNCHANGED sessionVars
    BY <1>8, <1>9 DEF Redirect, GoogleKey, Navigate, MakeKey, StoreKey, clientVars, sessionVars
<1> QED
    BY <1>1, <1>2, <1>3, <1>4, <1>5, <1>6, <1>7, <1>9 DEF SessionNext

(***************************************************************************)
(* apiRequest, withDPoPGate, AuthProvider: the gate holds every caller     *)
(* that asked for it once, in the order of asking, and only its first one  *)
(* is on the wire; a request belongs to the operation its thread runs, and *)
(* at most one answer at a time waits to be handled.                       *)
(***************************************************************************)
THEOREM ClientInvariant == SessionSpec => [](ClientOK /\ OpsOK)
<1>1. SessionInit => ClientOK /\ OpsOK
    BY InitKeeps
<1>2. (ClientOK /\ OpsOK) /\ [SessionNext]_sessionVars => (ClientOK /\ OpsOK)'
    BY SessionStepKeeps
<1> QED
    BY <1>1, <1>2, PTL DEF SessionSpec

----------------------------------------------------------------------------
(* Nonces and challenges *)

\* After e expiries, with the nonces of l good: a request is challenged once for
\* want of a nonce, and once more for each expiry.
RetriesOK(q, e, l) ==
    /\ q.pc = "sent" => q.retries <= e + 1 /\ (q.retries = e + 1 => q.nonce \in l)
    /\ q.pc = "answered" /\ q.answer.status = "challenge" =>
         q.retries <= e /\ (q.retries = e => q.answer.nonce \in l)

NonceOK ==
    /\ \A c \in Caller : OnWire(request[c]) /\ request[c].answer.nonce # None =>
          request[c].answer.nonce \in live
    /\ (\A c \in Caller : request[c].answer.nonce = None) => nonce \in live \cup {None}

NoncesOK ==
    failures = 0 =>
        /\ \A c \in Caller : RetriesOK(request[c], expiries, live)
        /\ expiries = 0 => NonceOK

LEMMA RetriesOffWire == ASSUME NEW q, NEW e, NEW l, ~OnWire(q) PROVE RetriesOK(q, e, l)
BY DEF RetriesOK, OnWire

\* Whatever happens to requests that are not on the wire.
LEMMA NoncesStay ==
    ASSUME ClientOK, ClientOK', NoncesOK, UNCHANGED <<nonce, live, failures, expiries>>,
           \A c \in Caller : OnWire(request[c]) \/ OnWire(request'[c]) => request'[c] = request[c]
    PROVE  NoncesOK'
<1> SUFFICES ASSUME failures = 0
             PROVE  /\ \A c \in Caller : RetriesOK(request'[c], expiries, live)
                    /\ expiries = 0 => NonceOK'
    BY DEF NoncesOK
<1>1. \A c \in Caller : RetriesOK(request'[c], expiries, live)
    <2> SUFFICES ASSUME NEW c \in Caller PROVE RetriesOK(request'[c], expiries, live)
        OBVIOUS
    <2>1. CASE OnWire(request'[c])
        BY <2>1 DEF NoncesOK
    <2>2. CASE ~OnWire(request'[c])
        BY <2>2, RetriesOffWire
    <2> QED
        BY <2>1, <2>2
<1>2. ASSUME expiries = 0 PROVE NonceOK'
    <2>1. NonceOK
        BY <1>2 DEF NoncesOK
    <2>2. \A c \in Caller : ~OnWire(request[c]) => request[c].answer.nonce = None
        BY ClientFacts DEF FieldsOK
    <2>3. (\A c \in Caller : request'[c].answer.nonce = None) =>
              \A c \in Caller : request[c].answer.nonce = None
        BY <2>2
    <2> QED
        BY <2>1, <2>3 DEF NonceOK
<1> QED
    BY <1>1, <1>2

\* Nothing is on the wire, and the nonce is good if nothing has expired.
LEMMA NoncesOffWire ==
    ASSUME \A c \in Caller : ~OnWire(request'[c]),
           failures' = 0 /\ expiries' = 0 => nonce' \in live' \cup {None}
    PROVE  NoncesOK'
BY RetriesOffWire DEF NoncesOK, NonceOK

LEMMA CaptureNonces ==
    ASSUME ClientOK, NoncesOK, NEW c \in Caller, Captures(c),
           UNCHANGED <<live, failures, expiries>>
    PROVE  NoncesOK'
<1>1. ASSUME failures = 0, expiries = 0 PROVE nonce' \in live \cup {None}
    <2>1. NonceOK
        BY <1>1 DEF NoncesOK
    <2>2. \A d \in Caller \ {c} : request[d].answer.nonce = None
        BY ClientFacts DEF Captures, FieldsOK
    <2>3. OnWire(request[c])
        BY DEF Captures, OnWire
    <2> QED
        BY <2>1, <2>2, <2>3 DEF NonceOK, Captures
<1> QED
    BY <1>1, NoncesOffWire DEF Captures

LEMMA SendNonces ==
    ASSUME ClientOK, NoncesOK, NEW c \in Caller, Send(c)
    PROVE  NoncesOK'
<1>1. /\ \A d \in Caller \ {c} : request'[d] = request[d]
      /\ \A d \in Caller : ~OnWire(request[d])
      /\ request'[c].pc = "sent" /\ request'[c].retries = 0
      /\ request'[c].answer = request[c].answer
    BY SendEffect
<1>2. UNCHANGED <<nonce, live, failures, expiries>> /\ expiries \in Nat
    BY DEF Send, ClientOK
<1>3. RetriesOK(request'[c], expiries, live)
    BY <1>1, <1>2 DEF RetriesOK
<1>4. \A d \in Caller : RetriesOK(request'[d], expiries, live)
    BY <1>1, <1>3, RetriesOffWire
<1>5. \A d \in Caller : request'[d].answer.nonce = None /\ request[d].answer.nonce = None
    BY <1>1, ClientFacts DEF FieldsOK
<1> QED
    BY <1>2, <1>4, <1>5 DEF NoncesOK, NonceOK

LEMMA ServeNonces ==
    ASSUME ClientOK, NoncesOK, NEW c \in Caller, Serve(c)
    PROVE  NoncesOK'
<1>1. /\ \A d \in Caller \ {c} : request'[d] = request[d]
      /\ request[c].pc = "sent" /\ request'[c].pc = "answered"
      /\ request'[c].nonce = request[c].nonce
      /\ request'[c].retries = request[c].retries
      /\ request'[c].answer.status \in Statuses(request[c])
      /\ request'[c].answer.nonce = IF Validated(request[c]) THEN FreshNonce ELSE None
    BY ServeEffect
<1>2. /\ UNCHANGED <<nonce, failures, expiries>> /\ expiries \in Nat
      /\ live' = IF Validated(request[c])
                 THEN ((live \cap Held) \ {request[c].nonce}) \cup {FreshNonce} ELSE live
    BY DEF Serve, ClientOK
<1>3. /\ request[c] \in Requests /\ request[c].call # "none" /\ OnWire(request[c])
      /\ request[c].answer.nonce = None
    BY <1>1, ClientFacts DEF FieldsOK, OnWire
<1>4. \A d \in Caller \ {c} : ~OnWire(request[d]) /\ request[d].answer.nonce = None
    BY <1>3, ClientFacts DEF FieldsOK
<1>5. FreshNonce # None
    BY <1>1, FreshNonceIsNew, NoneIsNone
<1>6. PICK status \in Statuses(request[c]) : status = request'[c].answer.status
    BY <1>1
<1>7. status = "challenge" => Validated(request[c]) /\ request[c].nonce \notin live
    BY <1>3, StatusFacts
<1>8. ASSUME failures = 0 PROVE RetriesOK(request'[c], expiries, live')
    <2> SUFFICES ASSUME status = "challenge"
                 PROVE  /\ request'[c].retries <= expiries
                        /\ request'[c].answer.nonce \in live'
        BY <1>1, <1>6 DEF RetriesOK
    <2>1. request'[c].answer.nonce \in live'
        BY <1>1, <1>2, <1>7
    <2>2. /\ request[c].retries <= expiries + 1
          /\ request[c].retries = expiries + 1 => request[c].nonce \in live
        BY <1>1, <1>8 DEF NoncesOK, RetriesOK
    <2>3. request[c].retries \in Nat
        BY <1>3 DEF Requests
    <2>4. request[c].retries <= expiries
        BY <1>2, <1>7, <2>2, <2>3
    <2> QED
        BY <1>1, <2>1, <2>4
<1>9. ASSUME failures = 0, expiries = 0 PROVE NonceOK'
    <2>1. NonceOK
        BY <1>9 DEF NoncesOK
    <2>2. CASE Validated(request[c])
        <3>1. request'[c].answer.nonce = FreshNonce /\ FreshNonce \in live'
            BY <1>1, <1>2, <2>2
        <3> QED
            BY <1>1, <1>4, <1>5, <3>1 DEF NonceOK
    <2>3. CASE ~Validated(request[c])
        <3>1. \A d \in Caller : request[d].answer.nonce = None
            BY <1>3, <1>4
        <3>2. request'[c].answer.nonce = None /\ live' = live
            BY <1>1, <1>2, <2>3
        <3> QED
            BY <1>1, <1>2, <2>1, <3>1, <3>2 DEF NonceOK
    <2> QED
        BY <2>2, <2>3
<1>10. \A d \in Caller \ {c} : RetriesOK(request'[d], expiries, live')
    BY <1>1, <1>4, RetriesOffWire
<1> QED
    BY <1>2, <1>8, <1>9, <1>10 DEF NoncesOK

LEMMA RetryNonces ==
    ASSUME ClientOK, NoncesOK, NEW c \in Caller, RetryWithNonce(c)
    PROVE  NoncesOK'
<1>1. /\ \A d \in Caller \ {c} : request'[d] = request[d]
      /\ Answered(request[c], "challenge") /\ request[c].pc = "answered"
      /\ request[c].answer.nonce # None /\ nonce' = request[c].answer.nonce
      /\ request'[c].pc = "sent" /\ request'[c].nonce = nonce'
      /\ request'[c].retries = request[c].retries + 1
      /\ request'[c].answer = NoAnswer
    BY RetryEffect
<1>2. UNCHANGED <<live, failures, expiries>> /\ expiries \in Nat
    BY DEF RetryWithNonce, ClientOK
<1>3. request[c].retries \in Nat /\ OnWire(request[c])
    BY <1>1, ClientFacts DEF Requests, OnWire
<1>4. \A d \in Caller \ {c} : ~OnWire(request[d])
    BY <1>3, ClientFacts
<1>5. ASSUME failures = 0 PROVE RetriesOK(request'[c], expiries, live)
    <2>1. /\ request[c].retries <= expiries
          /\ request[c].retries = expiries => request[c].answer.nonce \in live
        BY <1>1, <1>5 DEF NoncesOK, RetriesOK, Answered
    <2>2. /\ request[c].retries + 1 <= expiries + 1
          /\ request[c].retries + 1 = expiries + 1 => request[c].retries = expiries
        BY <1>2, <1>3, <2>1
    <2> QED
        BY <1>1, <2>1, <2>2 DEF RetriesOK
<1>6. ASSUME failures = 0, expiries = 0 PROVE NonceOK'
    <2>1. nonce' \in live
        BY <1>1, <1>3, <1>6 DEF NoncesOK, NonceOK
    <2> QED
        BY <1>1, <1>2, <1>4, <2>1, NoRequestFacts DEF NonceOK
<1>7. \A d \in Caller \ {c} : RetriesOK(request'[d], expiries, live)
    BY <1>1, <1>4, RetriesOffWire
<1> QED
    BY <1>2, <1>5, <1>6, <1>7 DEF NoncesOK

LEMMA NonceExpiresNonces ==
    ASSUME ClientOK, NoncesOK, NonceExpires
    PROVE  NoncesOK'
<1>1. /\ UNCHANGED <<request, failures>> /\ expiries' = expiries + 1 /\ expiries \in Nat
    BY DEF NonceExpires, Expire, ClientOK
<1>2. ASSUME failures = 0, NEW c \in Caller PROVE RetriesOK(request[c], expiries', live')
    <2>1. RetriesOK(request[c], expiries, live) /\ request[c].retries \in Nat
        BY <1>2, ClientFacts DEF NoncesOK, Requests
    <2>2. /\ request[c].retries <= expiries + 1 => request[c].retries < expiries' + 1
          /\ request[c].retries <= expiries => request[c].retries < expiries'
        BY <1>1, <2>1
    <2>3. expiries' \in Nat
        BY <1>1
    <2>4. /\ request[c].retries < expiries' + 1 =>
               request[c].retries <= expiries' + 1 /\ request[c].retries # expiries' + 1
          /\ request[c].retries < expiries' =>
               request[c].retries <= expiries' /\ request[c].retries # expiries'
        BY <2>1, <2>3
    <2> QED
        BY <2>1, <2>2, <2>4 DEF RetriesOK
<1>3. expiries' # 0
    BY <1>1
<1> QED
    BY <1>1, <1>2, <1>3 DEF NoncesOK

LEMMA TokenExpiresNonces ==
    ASSUME ClientOK, NoncesOK, TokenExpires
    PROVE  NoncesOK'
<1>1. UNCHANGED <<nonce, live, failures>> /\ expiries' = expiries + 1 /\ expiries \in Nat
    BY DEF TokenExpires, Expire, ClientOK
<1>2. \A c \in Caller :
          /\ request'[c].pc = request[c].pc /\ request'[c].nonce = request[c].nonce
          /\ request'[c].retries = request[c].retries /\ request'[c].answer = request[c].answer
    BY ExpireEffect
<1>3. ASSUME failures = 0, NEW c \in Caller PROVE RetriesOK(request'[c], expiries', live)
    <2>1. RetriesOK(request[c], expiries, live) /\ request[c].retries \in Nat
        BY <1>3, ClientFacts DEF NoncesOK, Requests
    <2>2. /\ request[c].retries <= expiries + 1 => request[c].retries < expiries' + 1
          /\ request[c].retries <= expiries => request[c].retries < expiries'
        BY <1>1, <2>1
    <2>3. expiries' \in Nat
        BY <1>1
    <2>4. /\ request[c].retries < expiries' + 1 =>
               request[c].retries <= expiries' + 1 /\ request[c].retries # expiries' + 1
          /\ request[c].retries < expiries' =>
               request[c].retries <= expiries' /\ request[c].retries # expiries'
        BY <2>1, <2>3
    <2> QED
        BY <1>2, <2>1, <2>2, <2>4 DEF RetriesOK
<1>4. expiries' # 0
    BY <1>1
<1> QED
    BY <1>1, <1>3, <1>4 DEF NoncesOK

\* A caller's own request, and the refresh, when it asks.
LEMMA AsksOffWire ==
    ASSUME ClientOK, NEW t \in Thread, ~OnWire(request[t]), NEW call, NEW u, NEW tok,
           Asks(t, call, u, tok)
    PROVE  \A c \in Caller : OnWire(request[c]) \/ OnWire(request'[c]) => request'[c] = request[c]
BY ThreadFacts DEF Asks, RefresherStays, OnWire

LEMMA StartNonces ==
    ASSUME ClientOK, ClientOK', OpsOK, NoncesOK, NEW t \in Thread,
           NEW kind \in Kinds, NEW call \in Calls \ {"none", "refresh"},
           NEW u \in User \cup {None}, Start(t, kind, call, u)
    PROVE  NoncesOK'
<1>1. Asks(t, call, u, token) /\ request[t].pc = "none"
    BY StartEffect
<1>2. UNCHANGED <<nonce, live, failures, expiries>>
    BY DEF Start
<1>3. ~OnWire(request[t])
    BY <1>1 DEF OnWire
<1> QED
    BY <1>1, <1>2, <1>3, AsksOffWire, NoncesStay

LEMMA EndsNonces ==
    ASSUME ClientOK, ClientOK', OpsOK, NoncesOK, Ends
    PROVE  NoncesOK'
<1>1. PICK t \in Thread : \/ SessionChecked(t) \/ Registered(t) \/ LoginAnswered(t)
                          \/ LoginEnds(t) \/ LogoutEnds(t) \/ QueryEnds(t)
    BY DEF Ends
<1>2. request[t].pc = "done" /\ ~OnWire(request[t])
    BY <1>1 DEF SessionChecked, Registered, LoginAnswered, LoginEnds, LogoutEnds, QueryEnds,
                Done, OnWire
<1>3. CASE \E kind \in Kinds, call \in Calls \ {"none", "refresh"}, tok \in Tokens \cup {None} :
              Continue(t, kind, call, tok)
    <2>1. PICK kind \in Kinds, call \in Calls \ {"none", "refresh"},
               tok \in Tokens \cup {None} : Continue(t, kind, call, tok)
        BY <1>3
    <2>2. Asks(t, call, op[t].who, tok)
        BY <1>2, <2>1, ContinueEffect
    <2>3. UNCHANGED <<nonce, live, failures, expiries>>
        BY <2>1 DEF Continue
    <2>4. PICK u : u = op[t].who
        OBVIOUS
    <2>5. Asks(t, call, u, tok)
        BY <2>2, <2>4
    <2> QED
        BY <1>2, <2>3, <2>5, AsksOffWire, NoncesStay
<1>4. CASE Finish(t)
    <2>1. /\ request'[t] = NoRequest /\ \A d \in Caller \ {t} : request'[d] = request[d]
        BY <1>2, <1>4, FinishEffect
    <2>2. UNCHANGED <<nonce, live, failures, expiries>>
        BY <1>4 DEF Finish
    <2>3. \A c \in Caller : OnWire(request[c]) \/ OnWire(request'[c]) => request'[c] = request[c]
        BY <1>2, <2>1, NoRequestFacts
    <2> QED
        BY <2>2, <2>3, NoncesStay
<1>5. /\ "login" \in Kinds /\ "loginCheck" \in Kinds
      /\ "login" \in Calls \ {"none", "refresh"} /\ "whoami" \in Calls \ {"none", "refresh"}
    BY DEF Kinds, Calls
<1>6. token \in Tokens \cup {None} /\ token' \in Tokens \cup {None}
    BY DEF ClientOK
<1>7. CASE Registered(t)
    <2>1. Finish(t) \/ Continue(t, "login", "login", token)
        BY <1>7 DEF Registered
    <2>2. PICK tok \in Tokens \cup {None} : tok = token
        BY <1>6
    <2> QED
        BY <1>3, <1>4, <1>5, <2>1, <2>2
<1>8. CASE LoginAnswered(t)
    <2>1. Finish(t) \/ Continue(t, "loginCheck", "whoami", token')
        BY <1>8 DEF LoginAnswered
    <2>2. PICK tok \in Tokens \cup {None} : tok = token'
        BY <1>6
    <2>3. Finish(t) \/ Continue(t, "loginCheck", "whoami", tok)
        BY <2>1, <2>2
    <2> QED
        BY <1>3, <1>4, <1>5, <2>3
<1>9. CASE SessionChecked(t) \/ LoginEnds(t) \/ LogoutEnds(t) \/ QueryEnds(t)
    BY <1>4, <1>9 DEF SessionChecked, LoginEnds, LogoutEnds, QueryEnds
<1> QED
    BY <1>1, <1>7, <1>8, <1>9

LEMMA LoadNonces ==
    ASSUME NEW p, NEW tok \in Tokens \cup {None}, NEW k, Load(p, tok, k)
    PROVE  NoncesOK'
<1>1. Loaded(request', gate', p, tok) /\ nonce' = None
    BY LoadEffect DEF Load
<1>2. \A c \in Caller : ~OnWire(request'[c])
    BY <1>1 DEF Loaded, OnWire
<1> QED
    BY <1>1, <1>2, NoncesOffWire

LEMMA ClientStepNonces ==
    ASSUME ClientOK, ClientOK', NoncesOK, ClientStep
    PROVE  NoncesOK'
<1>1. ASSUME NEW c \in Caller, MakeKey(c) \/ StoreKey(c) PROVE NoncesOK'
    BY <1>1, NoncesStay DEF MakeKey, StoreKey
<1>2. ASSUME NEW c \in Caller, Receive(c) PROVE NoncesOK'
    <2>1. Captures(c)
        BY <1>2, ReceivedEffect, AskedAgainEffect
    <2> QED
        BY <1>2, <2>1, CaptureNonces DEF Receive
<1>3. ASSUME RefreshEnds PROVE NoncesOK'
    <2>1. Captures(Refresher) /\ Refresher \in Caller
        BY <1>3, RefreshEndsEffect, ThreadFacts
    <2> QED
        BY <1>3, <2>1, CaptureNonces DEF RefreshEnds
<1>4. ASSUME NEW c \in Caller, Unavailable(c) \/ ConnectionFails(c) PROVE NoncesOK'
    BY <1>4, FailEffect DEF NoncesOK
<1> QED
    BY <1>1, <1>2, <1>3, <1>4, SendNonces, ServeNonces, RetryNonces, NonceExpiresNonces,
       TokenExpiresNonces DEF ClientStep, Progress

LEMMA SessionStepNonces ==
    ASSUME ClientOK, ClientOK', OpsOK, NoncesOK, [SessionNext]_sessionVars
    PROVE  NoncesOK'
<1>1. CASE Transport
    BY <1>1, ClientStepNonces DEF Transport
<1>2. CASE Ends
    BY <1>2, EndsNonces
<1>3. /\ "session" \in Thread /\ "form" \in Thread /\ None \in User \cup {None}
      /\ {"check", "query", "logout", "login", "register"} \subseteq Kinds
      /\ {"whoami", "query", "logout", "login", "register"} \subseteq Calls \ {"none", "refresh"}
    BY ThreadFacts DEF Threads, Kinds, Calls
<1>4. CASE Poll \/ Logout
    BY <1>3, <1>4, StartNonces DEF Poll, Logout
<1>5. ASSUME NEW u \in User, LoginPage(u) \/ RegisterPage(u) PROVE NoncesOK'
    BY <1>3, <1>5, StartNonces DEF LoginPage, RegisterPage
<1>6. CASE Reload
    BY <1>6, ReloadFacts, LoadNonces
<1>7. ASSUME NEW u \in User, GoogleReturns(u) PROVE NoncesOK'
    BY <1>7, GoogleFacts, LoadNonces
<1>8. CASE \/ Redirect \/ GoogleClick \/ GoogleKey \/ (\E p \in Pages : Navigate(p))
           \/ UNCHANGED sessionVars
    <2>1. UNCHANGED <<nonce, live, failures, expiries, request>>
        BY <1>8 DEF Redirect, GoogleClick, GoogleKey, Navigate, MakeKey, StoreKey, clientVars,
                    sessionVars
    <2> QED
        BY <2>1, NoncesStay
<1> QED
    BY <1>1, <1>2, <1>4, <1>5, <1>6, <1>7, <1>8 DEF SessionNext

LEMMA InitNonces ==
    ASSUME SessionInit, ClientOK
    PROVE  NoncesOK
<1>1. nonce = None /\ \A c \in Caller : request[c].pc \in {"none", "queued", "waiting"}
    <2>1. PICK n : \E k : ClientInit(n, k)
                   /\ n = Ask([c \in Caller |-> NoRequest], <<>>, "session", "whoami", None, None)
        BY DEF SessionInit
    <2>2. Loaded(n.request, n.gate, "main", None)
        <3>1. ASSUME NEW tok \in Tokens \cup {None}
              PROVE  LET m == Ask([c \in Caller |-> NoRequest], <<>>, "session", "whoami", None, tok)
                     IN  Loaded(m.request, m.gate, "main", tok)
            BY LoadResult
        <3> QED
            BY <2>1, <3>1
    <2> QED
        BY <2>1, <2>2 DEF ClientInit, Loaded
<1>2. \A c \in Caller : ~OnWire(request[c])
    BY <1>1 DEF OnWire
<1> QED
    BY <1>1, <1>2, RetriesOffWire DEF NoncesOK, NonceOK

(***************************************************************************)
(* doFetch: as long as no request fails, a request is challenged once for  *)
(* want of a nonce and once more for each nonce that expired, so that the  *)
(* two repetitions of doFetch are enough while at most one expires.        *)
(***************************************************************************)
THEOREM ChallengesAreBounded == SessionSpec => []NoncesOK
<1> DEFINE Inv == ClientOK /\ OpsOK
<1>1. SessionInit => NoncesOK
    BY InitNonces, InitKeeps
<1>2. NoncesOK /\ Inv /\ Inv' /\ [SessionNext]_sessionVars => NoncesOK'
    BY SessionStepNonces
<1>3. SessionSpec => []Inv
    BY ClientInvariant
<1> HIDE DEF Inv
<1> QED
    BY <1>1, <1>2, <1>3, PTL DEF SessionSpec

(***************************************************************************)
(* withDPoPGate: while nothing fails or expires, a proof that is sent with *)
(* a nonce carries one that the services still accept: the gate lets one   *)
(* request out at a time, and each answer brings the nonce of the next.    *)
(***************************************************************************)
THEOREM NonceIsAlwaysSentOnce == SessionSpec => []NonceIsSentOnce
<1>1. ClientOK /\ NoncesOK => NonceIsSentOnce
    <2> SUFFICES ASSUME ClientOK, NoncesOK, failures = 0, expiries = 0,
                        NEW c \in Caller, request[c].pc = "sent", request[c].nonce # None
                 PROVE  request[c].nonce \in live
        BY DEF NonceIsSentOnce
    <2>1. request[c].nonce = nonce
        BY DEF ClientOK
    <2>2. \A d \in Caller : request[d].answer.nonce = None
        <3> SUFFICES ASSUME NEW d \in Caller PROVE request[d].answer.nonce = None
            OBVIOUS
        <3>1. CASE OnWire(request[d])
            <4>1. d = c
                BY <3>1, ClientFacts DEF OnWire
            <4> QED
                BY <4>1, ClientFacts DEF FieldsOK
        <3>2. CASE ~OnWire(request[d])
            BY <3>2, ClientFacts DEF FieldsOK
        <3> QED
            BY <3>1, <3>2
    <2> QED
        BY <2>1, <2>2 DEF NoncesOK, NonceOK
<1> QED
    BY <1>1, ClientInvariant, ChallengesAreBounded, PTL

----------------------------------------------------------------------------
(* Whose tokens the tab holds *)

\* A token for the session whose cookie the browser holds, and a request that
\* carries another one.
Matches(t) == cookie # None /\ t.who = cookie.who /\ t.bound = cookie.bound
Foreign(c) == request[c].token # None /\ ~Matches(request[c].token)

\* Between a login's cookie and its user, and after a logout's answer.
LoggedIn ==
    /\ op["form"].kind = "login" /\ request["form"].pc = "done"
    /\ request["form"].answer.status = "ok"
LoggedOut == op["form"].kind = "logout" /\ request["form"].pc = "done"
Checking  == op["form"].kind = "loginCheck"
Switching == LoggedIn \/ Checking

LoginOK ==
    /\ LoggedIn => cookie # None /\ cookie.who = op["form"].who /\ cookie.bound
    /\ Checking => cookie # None /\ cookie.bound

LogoutOK == LoggedOut => cookie = None

TokenOK == token # None /\ ~LoggedIn /\ ~LoggedOut => Matches(token)

\* Requests of the session before are answered before the login's own check is.
ForeignOK ==
    /\ cookie # None /\ ~Switching => \A c \in Caller : ~Foreign(c)
    /\ Checking => \A c \in Caller : Foreign(c) =>
          \/ Before(gate, c, "form")
          \/ request[c].pc = "done" /\ Within(gate, "form") /\ c # "form"

CookieOK ==
    request[Refresher].pc = "answered" /\ cookie # None /\ cookie.bound =>
        request[Refresher].answer.status \in {"ok", "challenge"}

SignedOutOK ==
    signedOut => /\ op["form"].kind \notin {"register", "login", "loginCheck"}
                 /\ token = None /\ cookie = None

TokensOK == LoginOK /\ LogoutOK /\ TokenOK /\ ForeignOK /\ CookieOK /\ SignedOutOK

CalmTokensOK == failures = 0 => TokensOK

\* Nothing that these depend on changes.
Steady ==
    /\ gate' = gate /\ SameCookie
    /\ token' = None <=> token = None
    /\ token'.who = token.who /\ token'.bound = token.bound
    /\ \A c \in Caller :
         /\ request'[c].token = None <=> request[c].token = None
         /\ request'[c].token.who = request[c].token.who
         /\ request'[c].token.bound = request[c].token.bound
         /\ request'[c].pc = "done" <=> request[c].pc = "done"
         /\ request[c].pc = "done" => request'[c].answer.status = request[c].answer.status
    /\ \/ op'["form"] = op["form"]
       \/ op["form"].kind = "idle" /\ op'["form"].kind = "google"

LEMMA SteadyFacts ==
    ASSUME Steady
    PROVE  /\ \A c \in Caller : Foreign(c)' <=> Foreign(c)
           /\ LoggedIn' <=> LoggedIn
           /\ LoggedOut' <=> LoggedOut
           /\ Checking' <=> Checking
           /\ Switching' <=> Switching
           /\ LoggedIn => op'["form"].who = op["form"].who
<1>1. "form" \in Caller
    BY ThreadFacts DEF Threads
<1>2. /\ LoggedIn' <=> LoggedIn
      /\ LoggedOut' <=> LoggedOut
      /\ Checking' <=> Checking
    BY <1>1 DEF Steady, LoggedIn, LoggedOut, Checking
<1>3. LoggedIn => op'["form"].who = op["form"].who
    BY DEF Steady, LoggedIn
<1>4. \A c \in Caller : Foreign(c)' <=> Foreign(c)
    BY DEF Steady, SameCookie, Foreign, Matches
<1> QED
    BY <1>2, <1>3, <1>4 DEF Switching

LEMMA SteadyTokens ==
    ASSUME TokensOK, Steady, CookieOK', signedOut' = signedOut
    PROVE  TokensOK'
<1>0. /\ \A c \in Caller : Foreign(c)' <=> Foreign(c)
      /\ LoggedIn' <=> LoggedIn
      /\ LoggedOut' <=> LoggedOut
      /\ Checking' <=> Checking
      /\ Switching' <=> Switching
      /\ LoggedIn => op'["form"].who = op["form"].who
    BY SteadyFacts
<1>1. LoginOK'
    BY <1>0 DEF TokensOK, LoginOK, Steady, SameCookie
<1>2. LogoutOK'
    BY <1>0 DEF TokensOK, LogoutOK, Steady, SameCookie
<1>3. TokenOK'
    BY <1>0 DEF TokensOK, TokenOK, Matches, Steady, SameCookie
<1>4. ForeignOK'
    <2>1. gate' = gate /\ \A c \in Caller : request'[c].pc = "done" <=> request[c].pc = "done"
        BY DEF Steady
    <2>2. cookie' = None <=> cookie = None
        BY DEF Steady, SameCookie
    <2> QED
        BY <1>0, <2>1, <2>2 DEF TokensOK, ForeignOK
<1>5. SignedOutOK'
    BY DEF TokensOK, SignedOutOK, Steady, SameCookie
<1> QED
    BY <1>1, <1>2, <1>3, <1>4, <1>5 DEF TokensOK

\* The first at the gate is behind nobody, and who is not there neither.
LEMMA NobodyBefore ==
    ASSUME ClientOK, NEW c, NEW d \in Caller, gate[1] = d \/ ~Asking(request[d])
    PROVE  ~Before(gate, c, d)
<1> SUFFICES ASSUME Before(gate, c, d) PROVE FALSE
    OBVIOUS
<1>1. PICK i \in DOMAIN gate : \E j \in DOMAIN gate : i < j /\ gate[i] = c /\ gate[j] = d
    BY DEF Before
<1>2. PICK j \in DOMAIN gate : i < j /\ gate[j] = d
    BY <1>1
<1>3. Within(gate, d)
    BY <1>2 DEF Within
<1>4. gate[1] = d
    BY <1>3 DEF ClientOK, ClientFor, GateFor
<1>5. DOMAIN gate = 1..Len(gate) /\ Len(gate) \in Nat
    BY DEF ClientOK, ClientFor, GateFor
<1>6. 1 \in DOMAIN gate
    BY <1>2, <1>5
<1>7. j = 1
    BY <1>2, <1>4, <1>6 DEF ClientOK, ClientFor, GateFor
<1> QED
    BY <1>2, <1>5, <1>7

\* Once the login's check is at the head of the gate, or answered, nothing of
\* the session before is left.
LEMMA NothingForeign ==
    ASSUME ClientOK, ForeignOK, Checking,
           \/ gate[1] = "form" /\ \A c \in Caller : request[c].pc # "done"
           \/ ~Asking(request["form"])
    PROVE  \A c \in Caller : ~Foreign(c)
<1> SUFFICES ASSUME NEW c \in Caller, Foreign(c) PROVE FALSE
    OBVIOUS
<1>0. "form" \in Caller
    BY ThreadFacts DEF Threads
<1>1. ~Before(gate, c, "form")
    BY <1>0, NobodyBefore
<1>2. request[c].pc = "done" /\ Within(gate, "form")
    BY <1>1 DEF ForeignOK
<1>3. Asking(request["form"])
    BY <1>0, <1>2 DEF ClientOK, ClientFor, GateFor
<1> QED
    BY <1>2, <1>3

\* Whose place is kept stays before the login's check.
LEMMA StillBefore ==
    ASSUME NEW g, NEW h, NEW d, KeepsPlaces(g, h, d), NEW c, NEW e
    PROVE  /\ c # d /\ Before(g, c, e) => Before(h, c, e)
           /\ c # d /\ Within(g, c) => Within(h, c)
           /\ e # d /\ Before(g, c, e) => Within(h, e)
BY DEF KeepsPlaces, Before, Within

\* Only the request of c moves, and it has not ended before nor after.
LEMMA WireSteady ==
    ASSUME ClientOK, NEW c \in Caller, \A d \in Caller \ {c} : request'[d] = request[d],
           request[c].pc # "done", request'[c].pc # "done",
           request'[c].token = request[c].token,
           gate' = gate, SameCookie, token' = token, op' = op
    PROVE  Steady
BY DEF Steady

LEMMA CookieStays ==
    ASSUME ClientOK, cookie' = cookie \/ cookie' \in Cookies \cup {None}
    PROVE  cookie' = cookie => SameCookie
BY DEF SameCookie, ClientOK

LEMMA SendSteady ==
    ASSUME ClientOK, NEW c \in Caller, Send(c), op' = op, CookieOK
    PROVE  Steady /\ CookieOK'
<1>1. /\ \A d \in Caller \ {c} : request'[d] = request[d]
      /\ request[c].pc = "queued" /\ request'[c].pc = "sent"
      /\ request'[c].token = request[c].token
    BY SendEffect
<1>2. UNCHANGED <<token, gate, cookie>>
    BY DEF Send
<1>3. Steady
    BY <1>1, <1>2, CookieStays, WireSteady
<1>4. CookieOK'
    BY <1>1, <1>2, ThreadFacts DEF CookieOK
<1> QED
    BY <1>3, <1>4

LEMMA RetrySteady ==
    ASSUME ClientOK, NEW c \in Caller, RetryWithNonce(c), op' = op, CookieOK
    PROVE  Steady /\ CookieOK'
<1>1. /\ \A d \in Caller \ {c} : request'[d] = request[d]
      /\ request[c].pc = "answered" /\ request'[c].pc = "sent"
      /\ request'[c].token = request[c].token
    BY RetryEffect
<1>2. UNCHANGED <<token, gate, cookie>>
    BY DEF RetryWithNonce
<1>3. Steady
    BY <1>1, <1>2, CookieStays, WireSteady
<1>4. CookieOK'
    BY <1>1, <1>2, ThreadFacts DEF CookieOK
<1> QED
    BY <1>3, <1>4

LEMMA ServeSteady ==
    ASSUME ClientOK, RefreshIInv, NEW c \in Caller, Serve(c), op' = op, CookieOK, failures = 0
    PROVE  Steady /\ CookieOK'
<1>1. /\ \A d \in Caller \ {c} : request'[d] = request[d]
      /\ request[c].pc = "sent" /\ request'[c].pc = "answered"
      /\ request'[c].token = request[c].token
      /\ request'[c].answer.status \in Statuses(request[c]) /\ SameCookie
    BY ServeEffect
<1>2. UNCHANGED <<token, gate>>
    BY DEF Serve
<1>3. Steady
    BY <1>1, <1>2, WireSteady
<1>4. CASE c = Refresher
    <2>1. request[c] \in Requests /\ request[c].call = "refresh"
        BY <1>1, <1>4, ClientFacts DEF FieldsOK
    <2>2. ~Stale
        BY <1>1, <1>4 DEF RefreshIInv, Exchanged
    <2>3. PICK status \in Statuses(request[c]) : status = request'[c].answer.status
        BY <1>1
    <2>4. status # "challenge" /\ status # "ok" =>
             ~(cookie # None /\ cookie.current /\ cookie.bound)
        BY <2>1, StatusFacts
    <2>5. cookie # None => cookie.current
        BY <2>2 DEF Stale
    <2> QED
        BY <1>1, <1>3, <1>4, <2>3, <2>4, <2>5 DEF CookieOK, SameCookie
<1>5. CASE c # Refresher
    BY <1>1, <1>3, <1>5, ThreadFacts DEF CookieOK, SameCookie
<1> QED
    BY <1>4, <1>5

LEMMA ExpireSteady ==
    ASSUME ClientOK, TokenExpires, op' = op, CookieOK
    PROVE  Steady /\ CookieOK'
<1>1. /\ token # None /\ token' # None
      /\ token'.who = token.who /\ token'.bound = token.bound
      /\ \A c \in Caller :
           /\ request'[c].pc = request[c].pc
           /\ request'[c].answer = request[c].answer
           /\ request'[c].token = None <=> request[c].token = None
           /\ request'[c].token.who = request[c].token.who
           /\ request'[c].token.bound = request[c].token.bound
    BY ExpireEffect
<1>2. UNCHANGED <<gate, cookie>>
    BY DEF TokenExpires
<1>3. Steady
    BY <1>1, <1>2, CookieStays DEF Steady
<1>4. CookieOK'
    BY <1>1, <1>2, ThreadFacts DEF CookieOK
<1> QED
    BY <1>3, <1>4

LEMMA ElsewhereSteady ==
    ASSUME ClientOK, CookieOK, UNCHANGED <<token, gate, request, cookie>>,
           \/ op' = op
           \/ op["form"].kind = "idle" /\ op'["form"].kind = "google"
    PROVE  Steady /\ CookieOK'
BY CookieStays DEF Steady, CookieOK

----------------------------------------------------------------------------
(* Answers *)

\* An answer that the operation goes on with.
LEMMA ReceivedTokens ==
    ASSUME ClientOK, OpsOK, failures = 0, TokensOK, NEW c \in Caller, Receive(c),
           ~(request[c].answer.status = "unauthorized" /\ ~request[c].second),
           op' = op, signedOut' = signedOut
    PROVE  TokensOK'
<1>0. "form" \in Thread /\ "form" \in Caller
    BY ThreadFacts DEF Threads
<1>1. /\ c \in Thread /\ Captures(c)
      /\ \A d \in Caller \ {c} : request'[d] = request[d]
      /\ request'[c].pc = "done" /\ request'[c].call = request[c].call
      /\ request'[c].token = request[c].token
      /\ request'[c].answer.status = request[c].answer.status
    BY ReceivedEffect
<1>2. /\ request[c].pc = "answered" /\ gate[1] = c /\ KeepsPlaces(gate, gate', c)
      /\ \A d \in Caller : request[d].pc # "done"
      /\ \A d \in Caller \ {c} : ~OnWire(request[d])
    BY <1>1 DEF Captures
<1>3. token' = token /\ cookie' = CookieAfter(c, request[c].answer.status)
    BY DEF Receive
<1>4. /\ request[c].call = "login" <=> op[c].kind = "login"
      /\ request[c].call = "logout" <=> op[c].kind = "logout"
      /\ request[c].call # "refresh"
      /\ request[c].call = "login" => request[c].who = op[c].who /\ request[c].who \in User
      /\ op[c].kind \notin {"restore", "check"} => c = "form"
    BY <1>1, <1>2, CallFacts
<1>5. ~LoggedIn /\ ~LoggedOut
    BY <1>0, <1>2 DEF LoggedIn, LoggedOut
<1>6. CookieOK'
    <2>1. request'[Refresher] = request[Refresher] /\ ~OnWire(request[Refresher])
        BY <1>1, <1>2, ThreadFacts
    <2> QED
        BY <2>1 DEF CookieOK, OnWire
<1>7. CASE op[c].kind = "login" /\ request[c].answer.status = "ok"
    <2>1. c = "form" /\ cookie' = Cookie(op["form"].who, TRUE) /\ op["form"].who \in User
        BY <1>3, <1>4, <1>7 DEF CookieAfter
    <2>2. /\ cookie' # None /\ cookie'.who = op["form"].who /\ cookie'.bound
        <3>1. Cookie(op["form"].who, TRUE) \in Cookies
            BY <2>1 DEF Cookie, Cookies
        <3>2. /\ Cookie(op["form"].who, TRUE).who = op["form"].who
              /\ Cookie(op["form"].who, TRUE).bound = TRUE
            BY DEF Cookie
        <3> QED
            BY <2>1, <3>1, <3>2, NoneIsNone
    <2>3. LoggedIn' /\ ~Checking' /\ ~LoggedOut' /\ Switching'
        BY <1>1, <1>7, <2>1 DEF LoggedIn, Checking, LoggedOut, Switching
    <2>4. ~signedOut
        BY <1>7, <2>1 DEF TokensOK, SignedOutOK
    <2> QED
        BY <1>6, <2>2, <2>3, <2>4
           DEF TokensOK, LoginOK, LogoutOK, TokenOK, ForeignOK, SignedOutOK
<1>8. CASE op[c].kind = "logout"
    <2>1. request[c].answer.status = "ok"
        BY <1>2, <1>4, <1>8, ClientFacts DEF AnswersOK, Answered
    <2>2. c = "form" /\ cookie' = None
        BY <1>3, <1>4, <1>8, <2>1 DEF CookieAfter
    <2>3. LoggedOut' /\ ~Checking' /\ ~LoggedIn'
        BY <1>1, <1>8, <2>2 DEF LoggedIn, Checking, LoggedOut
    <2>4. SignedOutOK'
        BY <1>3, <2>2 DEF TokensOK, SignedOutOK
    <2> QED
        BY <1>6, <2>2, <2>3, <2>4 DEF TokensOK, LoginOK, LogoutOK, TokenOK, ForeignOK
<1>9. CASE op[c].kind # "logout" /\ ~(op[c].kind = "login" /\ request[c].answer.status = "ok")
    <2>1. cookie' = cookie
        BY <1>3, <1>4, <1>9 DEF CookieAfter
    <2>2. ~LoggedIn' /\ ~LoggedOut'
        <3>1. CASE c = "form"
            BY <1>1, <1>9, <3>1 DEF LoggedIn, LoggedOut
        <3>2. CASE c # "form"
            BY <1>0, <1>1, <1>2, <3>2 DEF LoggedIn, LoggedOut
        <3> QED
            BY <3>1, <3>2
    <2>3. /\ Checking' <=> Checking
          /\ Switching' <=> Switching
        BY <1>5, <2>2 DEF Checking, Switching
    <2>4. \A d \in Caller : Foreign(d)' <=> Foreign(d)
        BY <1>1, <2>1 DEF Foreign, Matches
    <2>5. TokenOK'
        BY <1>3, <1>5, <2>1 DEF TokensOK, TokenOK, Matches
    <2>6. ForeignOK'
        <3>1. CASE ~Checking
            BY <2>1, <2>3, <2>4, <3>1 DEF TokensOK, ForeignOK, Switching
        <3>2. CASE Checking /\ c = "form"
            <4>1. \A d \in Caller : ~Foreign(d)
                BY <1>2, <3>2, NothingForeign DEF TokensOK
            <4> QED
                BY <2>4, <4>1 DEF ForeignOK
        <3>3. CASE Checking /\ c # "form"
            <4> SUFFICES ASSUME NEW d \in Caller, Foreign(d)'
                         PROVE  \/ Before(gate', d, "form")
                                \/ request'[d].pc = "done" /\ Within(gate', "form") /\ d # "form"
                BY <2>3, <3>3 DEF ForeignOK, Switching
            <4>1. Before(gate, d, "form")
                BY <1>2, <2>4, <3>3 DEF TokensOK, ForeignOK
            <4>2. /\ d # c => Before(gate', d, "form")
                  /\ Within(gate', "form")
                BY <1>2, <3>3, <4>1, StillBefore
            <4> QED
                BY <1>1, <3>3, <4>2
        <3> QED
            BY <3>1, <3>2, <3>3
    <2>7. LoginOK' /\ LogoutOK' /\ SignedOutOK'
        BY <1>3, <2>1, <2>2, <2>3 DEF TokensOK, LoginOK, LogoutOK, SignedOutOK
    <2> QED
        BY <1>6, <2>5, <2>6, <2>7 DEF TokensOK
<1> QED
    BY <1>7, <1>8, <1>9

\* A 401 that asks for a new token.
LEMMA AskedAgainTokens ==
    ASSUME ClientOK, OpsOK, failures = 0, TokensOK, NEW c \in Caller, Receive(c),
           request[c].answer.status = "unauthorized", ~request[c].second,
           op' = op, signedOut' = signedOut
    PROVE  TokensOK'
<1>0. "form" \in Thread /\ "form" \in Caller
    BY ThreadFacts DEF Threads
<1>1. /\ c \in Thread /\ Captures(c)
      /\ \A d \in Thread \ {c} : request'[d] = request[d]
      /\ request'[c].pc = "waiting" /\ request'[c].token = None
      /\ \/ request'[Refresher] = request[Refresher]
         \/ /\ request[Refresher].pc = "none" /\ request'[Refresher].pc = "queued"
            /\ request'[Refresher].token = None
    BY AskedAgainEffect
<1>2. /\ request[c].pc = "answered" /\ gate[1] = c /\ KeepsPlaces(gate, gate', c)
      /\ \A d \in Caller : request[d].pc # "done"
      /\ \A d \in Caller \ {c} : ~OnWire(request[d])
    BY <1>1 DEF Captures
<1>3. token' = token /\ cookie' = cookie
    BY DEF Receive, CookieAfter
<1>5. ~LoggedIn /\ ~LoggedOut
    BY <1>0, <1>2 DEF LoggedIn, LoggedOut
<1>6. CookieOK'
    <2>1. ~OnWire(request[Refresher])
        BY <1>1, <1>2, ThreadFacts
    <2> QED
        BY <1>1, <2>1 DEF CookieOK, OnWire
<1>7. ~LoggedIn' /\ ~LoggedOut'
    BY <1>0, <1>1, <1>2 DEF LoggedIn, LoggedOut
<1>8. /\ Checking' <=> Checking
      /\ Switching' <=> Switching
    BY <1>5, <1>7 DEF Checking, Switching
<1>9. \A d \in Caller : Foreign(d)' => Foreign(d) /\ d # c
    BY <1>1, <1>3, ThreadFacts DEF Foreign, Matches
<1>10. TokenOK'
    BY <1>3, <1>5 DEF TokensOK, TokenOK, Matches
<1>11. ForeignOK'
    <2>1. CASE ~Checking
        BY <1>3, <1>8, <1>9, <2>1 DEF TokensOK, ForeignOK, Switching
    <2>2. CASE Checking /\ c = "form"
        <3>1. \A d \in Caller : ~Foreign(d)
            BY <1>2, <2>2, NothingForeign DEF TokensOK
        <3> QED
            BY <1>9, <3>1 DEF ForeignOK
    <2>3. CASE Checking /\ c # "form"
        <3> SUFFICES ASSUME NEW d \in Caller, Foreign(d)'
                     PROVE  \/ Before(gate', d, "form")
                            \/ request'[d].pc = "done" /\ Within(gate', "form") /\ d # "form"
            BY <1>8, <2>3 DEF ForeignOK, Switching
        <3>1. Before(gate, d, "form") /\ d # c
            BY <1>2, <1>9, <2>3 DEF TokensOK, ForeignOK
        <3> QED
            BY <1>2, <3>1, StillBefore
    <2> QED
        BY <2>1, <2>2, <2>3
<1>12. LoginOK' /\ LogoutOK' /\ SignedOutOK'
    BY <1>3, <1>7, <1>8 DEF TokensOK, LoginOK, LogoutOK, SignedOutOK
<1> QED
    BY <1>6, <1>10, <1>11, <1>12 DEF TokensOK

\* The cookie after the refresh: its owner and key are the ones they were.
LEMMA RefreshedCookie ==
    ASSUME ClientOK, RefreshEnds
    PROVE  SameCookie
<1>1. request[Refresher].pc = "answered" /\ Refresher \in Caller
    BY ThreadFacts DEF RefreshEnds
<1>2. /\ RefreshedToken # None <=> request[Refresher].answer.status = "ok"
      /\ RefreshedToken # None => cookie # None /\ cookie.bound
    BY <1>1, RefreshedTokenFacts
<1>3. cookie' = CookieAfter(Refresher, request[Refresher].answer.status)
    BY DEF RefreshEnds
<1>4. request[Refresher].call = "refresh"
    BY <1>1, ClientFacts DEF FieldsOK
<1>5. CASE request[Refresher].answer.status = "ok"
    <2>1. cookie \in Cookies /\ cookie.bound = TRUE /\ cookie.who \in User
        BY <1>2, <1>5 DEF ClientOK, Cookies
    <2>2. cookie' = Cookie(cookie.who, TRUE)
        BY <1>3, <1>4, <1>5 DEF CookieAfter
    <2>3. cookie' \in Cookies /\ cookie'.who = cookie.who /\ cookie'.bound = cookie.bound
        BY <2>1, <2>2 DEF Cookie, Cookies
    <2> QED
        BY <2>1, <2>3, NoneIsNone DEF SameCookie
<1>6. CASE request[Refresher].answer.status # "ok"
    BY <1>3, <1>4, <1>6 DEF CookieAfter, SameCookie, ClientOK
<1> QED
    BY <1>5, <1>6

\* Whether the form's operation is at one of its turning points is not for a
\* request to say that awaits a refresh.
LEMMA FormWaits ==
    ASSUME ClientOK, OpsOK, request["form"].pc = "waiting"
    PROVE  op["form"].kind \notin {"login", "logout", "register"}
<1>1. "form" \in Thread /\ "form" \in Caller
    BY ThreadFacts DEF Threads
<1>2. Authenticated(request["form"].call)
    BY <1>1, ClientFacts DEF FieldsOK
<1> QED
    BY <1>1, <1>2, CallFacts

LEMMA RefreshEndsTokens ==
    ASSUME ClientOK, OpsOK, failures = 0, TokensOK, RefreshEnds,
           op' = op, signedOut' = signedOut
    PROVE  TokensOK'
<1>0. "form" \in Thread /\ "form" \in Caller /\ "form" # Refresher
    BY ThreadFacts DEF Threads
<1>1. /\ Captures(Refresher) /\ token' = RefreshedToken
      /\ request'[Refresher] = NoRequest
      /\ \A c \in Thread : request[c].pc # "waiting" => request'[c] = request[c]
      /\ \A c \in Thread : request[c].pc = "waiting" => request'[c].token = RefreshedToken
    BY RefreshEndsEffect
<1>2. /\ request[Refresher].pc = "answered" /\ KeepsPlaces(gate, gate', Refresher)
      /\ \A d \in Caller : request[d].pc # "done"
    BY <1>1 DEF Captures
<1>3. SameCookie
    BY RefreshedCookie
<1>4. /\ RefreshedToken # None =>
           /\ RefreshedToken.bound = TRUE /\ RefreshedToken.who = cookie.who
           /\ cookie # None /\ cookie.bound = TRUE
    <2>1. /\ RefreshedToken \in Tokens \cup {None}
          /\ RefreshedToken # None => RefreshedToken.bound /\ RefreshedToken.who = cookie.who
                                      /\ cookie # None /\ cookie.bound
        BY <1>2, RefreshedTokenFacts
    <2> QED
        BY <2>1 DEF Tokens, Cookies, ClientOK
<1>5. ~LoggedIn /\ ~LoggedOut
    BY <1>0, <1>2 DEF LoggedIn, LoggedOut
<1>6. CookieOK'
    BY <1>1, NoRequestFacts DEF CookieOK
<1>7. ~LoggedIn' /\ ~LoggedOut'
    <2>1. CASE request["form"].pc = "waiting"
        BY <2>1, FormWaits DEF LoggedIn, LoggedOut
    <2>2. CASE request["form"].pc # "waiting"
        BY <1>0, <1>1, <1>2, <2>2 DEF LoggedIn, LoggedOut
    <2> QED
        BY <2>1, <2>2
<1>8. /\ Checking' <=> Checking
      /\ Switching' <=> Switching
    BY <1>5, <1>7 DEF Checking, Switching
<1>9. ASSUME NEW d \in Caller, Foreign(d)' PROVE Foreign(d) /\ d # Refresher
    <2>1. d # Refresher
        BY <1>1, <1>9, NoRequestFacts DEF Foreign
    <2>2. request[d].pc # "waiting"
        <3> SUFFICES ASSUME request[d].pc = "waiting" PROVE FALSE
            OBVIOUS
        <3>1. request'[d].token = RefreshedToken /\ RefreshedToken # None
            BY <1>1, <1>9, <2>1, ThreadFacts DEF Foreign
        <3> QED
            BY <1>3, <1>4, <1>9, <3>1 DEF Foreign, Matches, SameCookie
    <2>3. request'[d] = request[d]
        BY <1>1, <2>1, <2>2, ThreadFacts
    <2> QED
        BY <1>3, <1>9, <2>1, <2>3 DEF Foreign, Matches, SameCookie
<1>10. TokenOK'
    BY <1>1, <1>3, <1>4 DEF TokenOK, Matches, SameCookie
<1>11. ForeignOK'
    <2>1. CASE ~Checking
        BY <1>3, <1>8, <1>9, <2>1 DEF TokensOK, ForeignOK, Switching, SameCookie
    <2>2. CASE Checking
        <3> SUFFICES ASSUME NEW d \in Caller, Foreign(d)'
                     PROVE  Before(gate', d, "form")
            BY <1>8, <2>2 DEF ForeignOK, Switching
        <3>1. Before(gate, d, "form") /\ d # Refresher
            BY <1>2, <1>9, <2>2 DEF TokensOK, ForeignOK
        <3> QED
            BY <1>2, <3>1, StillBefore
    <2> QED
        BY <2>1, <2>2
<1>12. LoginOK' /\ LogoutOK'
    BY <1>3, <1>7, <1>8 DEF TokensOK, LoginOK, LogoutOK, SameCookie
<1>13. SignedOutOK'
    BY <1>1, <1>3, <1>4 DEF TokensOK, SignedOutOK, SameCookie
<1> QED
    BY <1>6, <1>10, <1>11, <1>12, <1>13 DEF TokensOK

----------------------------------------------------------------------------
(* Operations start, go on and end *)

\* Which of the requests carries another session's token, after thread t asked
\* with a token of this one.
LEMMA AsksForeign ==
    ASSUME ClientOK, NEW t \in Thread, ~OnWire(request[t]), NEW call, NEW u, NEW tok,
           Asks(t, call, u, tok), SameCookie, tok # None => Matches(tok)'
    PROVE  /\ \A d \in Caller : Foreign(d)' => Foreign(d) /\ d # t /\ request'[d] = request[d]
           /\ request'[Refresher].pc = "answered" => request'[Refresher] = request[Refresher]
<1>1. /\ \A d \in Thread \ {t} : request'[d] = request[d]
      /\ request'[t].token \in {tok, None}
      /\ \/ request'[Refresher] = request[Refresher]
         \/ request'[Refresher].pc = "queued" /\ request'[Refresher].token = None
    BY DEF Asks, RefresherStays
<1>2. ASSUME NEW d \in Caller, Foreign(d)' PROVE Foreign(d) /\ d # t /\ request'[d] = request[d]
    <2>1. d # t
        BY <1>1, <1>2 DEF Foreign
    <2>2. request'[d] = request[d]
        BY <1>1, <1>2, <2>1, ThreadFacts DEF Foreign
    <2> QED
        BY <1>2, <2>1, <2>2 DEF Foreign, Matches, SameCookie
<1> QED
    BY <1>1, <1>2

\* The refresh's answer is there as before.
LEMMA CookieKept ==
    ASSUME CookieOK, SameCookie,
           request'[Refresher].pc = "answered" => request'[Refresher] = request[Refresher]
    PROVE  CookieOK'
BY DEF CookieOK, SameCookie

LEMMA PollTokens ==
    ASSUME ClientOK, OpsOK, TokensOK, Start("session", "check", "whoami", None),
           signedOut' = signedOut
    PROVE  TokensOK'
<1>0. /\ "session" \in Thread /\ "form" \in Thread /\ "session" # "form"
      /\ "check" \in Kinds /\ "whoami" \in Calls \ {"none", "refresh"}
      /\ None \in User \cup {None}
    BY ThreadFacts DEF Threads, Kinds, Calls
<1>1. /\ Asks("session", "whoami", None, token) /\ request["session"].pc = "none"
      /\ op'["form"] = op["form"]
    BY <1>0, StartEffect
<1>2. UNCHANGED <<token, cookie>>
    BY DEF Start
<1>3. SameCookie /\ ~OnWire(request["session"])
    BY <1>1, <1>2, CookieStays DEF OnWire
<1>4. request'["form"] = request["form"] /\ Grows(gate, gate')
    BY <1>0, <1>1 DEF Asks
<1>5. /\ LoggedIn' <=> LoggedIn
      /\ LoggedOut' <=> LoggedOut
      /\ Checking' <=> Checking
      /\ Switching' <=> Switching
    BY <1>1, <1>4 DEF LoggedIn, LoggedOut, Checking, Switching
<1>6. CASE token # None /\ (LoggedIn \/ LoggedOut)
    <2>1. /\ request'[Refresher].pc = "answered" => request'[Refresher] = request[Refresher]
        BY <1>1 DEF Asks, RefresherStays
    <2>2. CookieOK'
        BY <1>3, <2>1, CookieKept DEF TokensOK
    <2>3. ForeignOK' /\ TokenOK'
        BY <1>2, <1>5, <1>6 DEF TokensOK, ForeignOK, TokenOK, LogoutOK, Switching, LoggedIn,
                                Checking, LoggedOut
    <2> QED
        BY <1>1, <1>2, <1>5, <2>2, <2>3 DEF TokensOK, LoginOK, LogoutOK, SignedOutOK
<1>7. CASE ~(token # None /\ (LoggedIn \/ LoggedOut))
    <2>1. token # None => Matches(token)'
        BY <1>2, <1>7 DEF TokensOK, TokenOK, Matches
    <2>2. PICK tok : tok = token
        OBVIOUS
    <2>3. Asks("session", "whoami", None, tok) /\ (tok # None => Matches(tok)')
        BY <1>1, <1>2, <2>1, <2>2 DEF Matches
    <2>4. /\ \A d \in Caller : Foreign(d)' => Foreign(d) /\ request'[d] = request[d]
          /\ request'[Refresher].pc = "answered" => request'[Refresher] = request[Refresher]
        BY <1>0, <1>3, <2>3, AsksForeign
    <2>5. CookieOK'
        BY <1>3, <2>4, CookieKept DEF TokensOK
    <2>6. ForeignOK'
        BY <1>2, <1>4, <1>5, <2>4, GrowsKeeps DEF TokensOK, ForeignOK
    <2>7. TokenOK'
        BY <1>2, <1>5 DEF TokensOK, TokenOK, Matches
    <2> QED
        BY <1>1, <1>2, <1>5, <2>5, <2>6, <2>7 DEF TokensOK, LoginOK, LogoutOK, SignedOutOK
<1> QED
    BY <1>6, <1>7

\* An operation of the form's thread starts.
LEMMA FormTokens ==
    ASSUME ClientOK, OpsOK, TokensOK,
           NEW kind \in {"query", "login", "register", "logout"}, NEW u \in User \cup {None},
           Start("form", kind, kind, u),
           IF kind \in {"login", "register"} THEN signedOut' = FALSE
                                             ELSE signedOut' = signedOut
    PROVE  TokensOK'
<1>0. /\ "form" \in Thread /\ kind \in Kinds /\ kind \in Calls \ {"none", "refresh"}
    BY ThreadFacts DEF Threads, Kinds, Calls
<1>1. /\ Asks("form", kind, u, token) /\ request["form"].pc = "none"
      /\ op["form"].kind = "idle" /\ op'["form"] = Op(kind, u)
    BY <1>0, StartEffect
<1>2. UNCHANGED <<token, cookie>>
    BY DEF Start
<1>3. SameCookie /\ ~OnWire(request["form"])
    BY <1>1, <1>2, CookieStays DEF OnWire
<1>4. /\ ~LoggedIn /\ ~LoggedOut /\ ~Checking /\ ~Switching
      /\ ~LoggedIn' /\ ~LoggedOut' /\ ~Checking' /\ ~Switching'
    BY <1>1 DEF LoggedIn, LoggedOut, Checking, Switching, Asks, Op
<1>5. PICK tok : tok = token
    OBVIOUS
<1>6. Asks("form", kind, u, tok) /\ (tok # None => Matches(tok)')
    BY <1>1, <1>2, <1>4, <1>5 DEF TokensOK, TokenOK, Matches
<1>7. /\ \A d \in Caller : Foreign(d)' => Foreign(d)
      /\ request'[Refresher].pc = "answered" => request'[Refresher] = request[Refresher]
    BY <1>0, <1>3, <1>6, AsksForeign
<1>8. CookieOK'
    BY <1>3, <1>7, CookieKept DEF TokensOK
<1>9. ForeignOK'
    BY <1>2, <1>4, <1>7 DEF TokensOK, ForeignOK
<1>10. TokenOK'
    BY <1>2, <1>4 DEF TokensOK, TokenOK, Matches
<1>11. SignedOutOK'
    <2>1. op'["form"].kind = kind
        BY <1>1 DEF Op
    <2>2. CASE kind \in {"login", "register"}
        BY <2>2 DEF SignedOutOK
    <2>3. CASE kind \notin {"login", "register"}
        <3>1. kind \notin {"register", "login", "loginCheck"} /\ signedOut' = signedOut
            BY <2>3
        <3> QED
            BY <1>2, <2>1, <3>1 DEF TokensOK, SignedOutOK
    <2> QED
        BY <2>2, <2>3
<1> QED
    BY <1>4, <1>8, <1>9, <1>10, <1>11 DEF TokensOK, LoginOK, LogoutOK

\* An account has been registered, and the login follows.
LEMMA RegisteredTokens ==
    ASSUME ClientOK, OpsOK, TokensOK, Registered("form"), Status("form") = "ok"
    PROVE  TokensOK'
<1>0. /\ "form" \in Thread /\ "login" \in Kinds /\ "login" \in Calls \ {"none", "refresh"}
    BY ThreadFacts DEF Threads, Kinds, Calls
<1>1. /\ request["form"].pc = "done" /\ op["form"].kind = "register"
      /\ Continue("form", "login", "login", token)
      /\ UNCHANGED <<token, cookie, signedOut>>
    BY DEF Registered, Done, Continue, histVars
<1>2. PICK tok \in Tokens \cup {None} : tok = token
    BY DEF ClientOK
<1>3. Asks("form", "login", op["form"].who, tok) /\ op'["form"].kind = "login"
    BY <1>0, <1>1, <1>2, ContinueEffect
<1>4. SameCookie /\ ~OnWire(request["form"])
    BY <1>1, CookieStays DEF OnWire
<1>5. /\ ~LoggedIn /\ ~LoggedOut /\ ~Checking /\ ~Switching
      /\ ~LoggedIn' /\ ~LoggedOut' /\ ~Checking' /\ ~Switching'
    BY <1>1, <1>3 DEF LoggedIn, LoggedOut, Checking, Switching, Asks
<1>6. tok # None => Matches(tok)'
    BY <1>1, <1>2, <1>5 DEF TokensOK, TokenOK, Matches
<1>7. /\ \A d \in Caller : Foreign(d)' => Foreign(d)
      /\ request'[Refresher].pc = "answered" => request'[Refresher] = request[Refresher]
    <2>1. PICK u : u = op["form"].who
        OBVIOUS
    <2>2. Asks("form", "login", u, tok)
        BY <1>3, <2>1
    <2> QED
        BY <1>0, <1>4, <1>6, <2>2, AsksForeign
<1>8. CookieOK'
    BY <1>4, <1>7, CookieKept DEF TokensOK
<1>9. ForeignOK' /\ TokenOK'
    BY <1>1, <1>5, <1>7 DEF TokensOK, ForeignOK, TokenOK, Matches
<1>10. SignedOutOK'
    BY <1>1 DEF TokensOK, SignedOutOK
<1> QED
    BY <1>5, <1>8, <1>9, <1>10 DEF TokensOK, LoginOK, LogoutOK

\* A login's token is in memory, and its check is the last at the gate.
LEMMA LoginAnsweredTokens ==
    ASSUME ClientOK, OpsOK, TokensOK, LoginAnswered("form"), Status("form") = "ok"
    PROVE  TokensOK'
<1>0. /\ "form" \in Thread /\ "form" \in Caller /\ "loginCheck" \in Kinds
      /\ "whoami" \in Calls \ {"none", "refresh"}
    BY ThreadFacts DEF Threads, Kinds, Calls
<1>1. /\ request["form"].pc = "done" /\ op["form"].kind = "login"
      /\ token' = Token(op["form"].who, TRUE)
      /\ Continue("form", "loginCheck", "whoami", token')
      /\ UNCHANGED <<cookie, signedOut>> /\ LoggedIn
    BY DEF LoginAnswered, Done, Continue, histVars, LoggedIn, Status
<1>2. op["form"].who \in User
    BY <1>0, <1>1 DEF OpsOK, OpOK
<1>3. PICK tok \in Tokens : tok = token' /\ tok.who = op["form"].who /\ tok.bound = TRUE /\ tok.fresh
    <2>1. PICK u \in User : u = op["form"].who
        BY <1>2
    <2>2. PICK tok \in Tokens : tok = Token(u, TRUE)
        BY DEF Token, Tokens
    <2>3. tok.who = u /\ tok.bound = TRUE /\ tok.fresh
        BY <2>2 DEF Token
    <2> QED
        BY <1>1, <2>1, <2>2, <2>3
<1>4. Asks("form", "whoami", op["form"].who, tok) /\ op'["form"].kind = "loginCheck"
    <2>1. Continue("form", "loginCheck", "whoami", tok)
        BY <1>1, <1>3
    <2> QED
        BY <1>0, <1>1, <2>1, ContinueEffect
<1>5. SameCookie /\ ~OnWire(request["form"])
    BY <1>1, CookieStays DEF OnWire
<1>6. ~LoggedIn' /\ ~LoggedOut' /\ Checking' /\ Switching'
    BY <1>4 DEF LoggedIn, LoggedOut, Checking, Switching
<1>7. cookie # None /\ cookie.who = op["form"].who /\ cookie.bound = TRUE
    BY <1>1 DEF TokensOK, LoginOK, ClientOK, Cookies
<1>8. Matches(tok)' /\ tok # None
    BY <1>1, <1>3, <1>7, NoneIsNone DEF Matches
<1>9. PICK u : u = op["form"].who
    OBVIOUS
<1>10. Asks("form", "whoami", u, tok)
    BY <1>4, <1>9
<1>11. /\ \A d \in Caller : Foreign(d)' => d # "form" /\ request'[d] = request[d]
       /\ request'[Refresher].pc = "answered" => request'[Refresher] = request[Refresher]
    BY <1>0, <1>5, <1>8, <1>10, AsksForeign
<1>12. CookieOK'
    BY <1>5, <1>11, CookieKept DEF TokensOK
<1>13. gate' = Append(gate, "form") /\ gate \in Seq(Caller)
    <2>1. Authenticated("whoami") /\ Usable(tok)
        BY <1>3, <1>8 DEF Authenticated, Usable
    <2>2. request'["form"].token # None
        BY <1>8, <1>10, <2>1 DEF Asks
    <2>3. request'["form"].pc = "queued"
        BY <1>10, <2>2 DEF Asks
    <2> QED
        BY <1>10, <2>1, <2>3 DEF Asks, ClientOK, ClientFor, GateFor
<1>14. ForeignOK'
    <2> SUFFICES ASSUME NEW d \in Caller, Foreign(d)'
                 PROVE  \/ Before(gate', d, "form")
                        \/ request'[d].pc = "done" /\ Within(gate', "form") /\ d # "form"
        BY <1>6 DEF ForeignOK
    <2>1. d # "form" /\ request'[d] = request[d] /\ request[d].token # None
        BY <1>11 DEF Foreign
    <2>2. Within(gate', "form")
        <3>1. Asking(request'["form"])
            <4>1. request'["form"].token # None
                BY <1>3, <1>8, <1>10 DEF Asks, Authenticated, Usable
            <4> QED
                BY <1>10, <4>1 DEF Asks, Asking
        <3> QED
            BY <1>0, <1>10, <3>1 DEF Asks, ClientFor, GateFor
    <2>3. CASE Asking(request[d])
        <3>1. Within(gate, d)
            BY <2>3 DEF ClientOK, ClientFor, GateFor
        <3>2. \A e \in Caller : \A x : Within(gate, x) => Before(Append(gate, e), x, e)
            BY <1>13, AppendGrows
        <3> QED
            BY <1>0, <1>13, <3>1, <3>2
    <2>4. CASE ~Asking(request[d])
        <3>1. FieldsOK(d, request[d]) /\ request[d] \in Requests
            BY ClientFacts
        <3>2. request[d].pc # "none" /\ request[d].pc # "waiting"
            BY <2>1, <3>1, NoRequestFacts DEF FieldsOK
        <3>3. request[d].pc = "done"
            BY <2>4, <3>1, <3>2 DEF Requests, Asking, OnWire
        <3> QED
            BY <2>1, <2>2, <3>3
    <2> QED
        BY <2>3, <2>4
<1>15. TokenOK'
    BY <1>3, <1>8 DEF TokenOK, Matches
<1>16. SignedOutOK'
    BY <1>1 DEF TokensOK, SignedOutOK
<1> QED
    BY <1>1, <1>6, <1>7, <1>12, <1>14, <1>15, <1>16 DEF TokensOK, LoginOK, LogoutOK

\* An operation has ended, other than a logout or a login that got a token.
LEMMA FinishTokens ==
    ASSUME ClientOK, OpsOK, TokensOK, NEW t \in Thread, request[t].pc = "done", Finish(t),
           op[t].kind # "logout", ~(op[t].kind = "login" /\ Status(t) = "ok"),
           token' = token, signedOut' = signedOut
    PROVE  TokensOK'
<1>0. "form" \in Thread /\ "form" \in Caller /\ t \in Caller
    BY ThreadFacts DEF Threads
<1>1. /\ gate' = gate
      /\ request'[t] = NoRequest /\ \A d \in Caller \ {t} : request'[d] = request[d]
      /\ op'[t] = Idle /\ \A s \in Thread \ {t} : op'[s] = op[s]
    BY FinishEffect
<1>2. cookie' = cookie
    BY DEF Finish
<1>3. \A d \in Caller : Foreign(d)' => Foreign(d) /\ d # t
    BY <1>1, <1>2, NoRequestFacts DEF Foreign, Matches
<1>4. CookieOK'
    BY <1>1, <1>2, ThreadFacts DEF TokensOK, CookieOK
<1>5. CASE t = "form"
    <2>1. ~LoggedIn /\ ~LoggedOut
        BY <1>5 DEF LoggedIn, LoggedOut, Status
    <2>2. ~LoggedIn' /\ ~LoggedOut' /\ ~Checking' /\ ~Switching'
        BY <1>1, <1>5 DEF LoggedIn, LoggedOut, Checking, Switching, Idle
    <2>3. cookie # None => \A d \in Caller : ~Foreign(d)
        <3>1. CASE Checking
            <4>1. ~Asking(request["form"])
                BY <1>5 DEF Asking, OnWire
            <4> QED
                BY <3>1, <4>1, NothingForeign DEF TokensOK
        <3>2. CASE ~Checking
            BY <2>1, <3>2 DEF TokensOK, ForeignOK, Switching
        <3> QED
            BY <3>1, <3>2
    <2>4. ForeignOK'
        BY <1>2, <1>3, <2>2, <2>3 DEF ForeignOK
    <2>5. TokenOK'
        BY <1>2, <2>1 DEF TokensOK, TokenOK, Matches
    <2>6. SignedOutOK'
        BY <1>1, <1>2, <1>5 DEF TokensOK, SignedOutOK, Idle
    <2> QED
        BY <1>4, <2>2, <2>4, <2>5, <2>6 DEF TokensOK, LoginOK, LogoutOK
<1>6. CASE t # "form"
    <2>1. request'["form"] = request["form"] /\ op'["form"] = op["form"]
        BY <1>0, <1>1, <1>6
    <2>2. /\ LoggedIn' <=> LoggedIn
          /\ LoggedOut' <=> LoggedOut
          /\ Checking' <=> Checking
          /\ Switching' <=> Switching
        BY <2>1 DEF LoggedIn, LoggedOut, Checking, Switching
    <2>3. ForeignOK'
        <3>1. \A d \in Caller : Foreign(d)' => request'[d] = request[d]
            BY <1>1, <1>3
        <3> QED
            BY <1>1, <1>2, <1>3, <2>2, <3>1 DEF TokensOK, ForeignOK
    <2>4. TokenOK' /\ LoginOK' /\ LogoutOK'
        BY <1>2, <2>1, <2>2 DEF TokensOK, TokenOK, LoginOK, LogoutOK, Matches
    <2>5. SignedOutOK'
        BY <1>2, <2>1 DEF TokensOK, SignedOutOK
    <2> QED
        BY <1>4, <2>3, <2>4, <2>5 DEF TokensOK
<1> QED
    BY <1>5, <1>6

\* A logout has ended: the answer has taken the cookie, and now the token goes.
LEMMA LogoutEndsTokens ==
    ASSUME ClientOK, OpsOK, TokensOK, NEW t \in Thread, LogoutEnds(t)
    PROVE  TokensOK'
<1>0. request[t].pc = "done" /\ op[t].kind = "logout" /\ t = "form"
    BY DEF LogoutEnds, Done, OpsOK, OpOK
<1>1. /\ request'[t] = NoRequest /\ \A d \in Caller \ {t} : request'[d] = request[d]
      /\ op'[t] = Idle
    BY <1>0, FinishEffect DEF LogoutEnds
<1>2. token' = None /\ cookie' = cookie /\ cookie = None
    BY <1>0 DEF LogoutEnds, Finish, TokensOK, LogoutOK, LoggedOut
<1>3. ~LoggedIn' /\ ~LoggedOut' /\ ~Checking' /\ ~Switching'
    BY <1>0, <1>1 DEF LoggedIn, LoggedOut, Checking, Switching, Idle
<1> QED
    BY <1>0, <1>1, <1>2, <1>3
       DEF TokensOK, LoginOK, LogoutOK, TokenOK, ForeignOK, CookieOK, SignedOutOK, Idle

LEMMA EndsTokens ==
    ASSUME ClientOK, OpsOK, TokensOK, Ends
    PROVE  TokensOK'
<1>1. PICK t \in Thread : \/ SessionChecked(t) \/ Registered(t) \/ LoginAnswered(t)
                          \/ LoginEnds(t) \/ LogoutEnds(t) \/ QueryEnds(t)
    BY DEF Ends
<1>2. op[t].kind \in {"register", "login"} => t = "form"
    BY DEF OpsOK, OpOK
<1>3. CASE SessionChecked(t) \/ LoginEnds(t) \/ QueryEnds(t)
    <2>1. /\ Finish(t) /\ token' = token /\ signedOut' = signedOut
          /\ request[t].pc = "done"
          /\ op[t].kind \in {"restore", "check", "callback", "loginCheck", "query"}
        BY <1>3 DEF SessionChecked, LoginEnds, QueryEnds, Done, histVars
    <2> QED
        BY <2>1, FinishTokens
<1>4. CASE Registered(t)
    <2>1. op[t].kind = "register" /\ request[t].pc = "done" /\ t = "form"
        BY <1>2, <1>4 DEF Registered, Done
    <2>2. CASE Status(t) = "ok"
        BY <1>4, <2>1, <2>2, RegisteredTokens
    <2>3. CASE Status(t) # "ok"
        <3>1. Finish(t) /\ token' = token /\ signedOut' = signedOut
            BY <1>4, <2>3 DEF Registered, histVars
        <3> QED
            BY <2>1, <2>3, <3>1, FinishTokens
    <2> QED
        BY <2>2, <2>3
<1>5. CASE LoginAnswered(t)
    <2>1. op[t].kind = "login" /\ request[t].pc = "done" /\ t = "form"
        BY <1>2, <1>5 DEF LoginAnswered, Done
    <2>2. CASE Status(t) = "ok"
        BY <1>5, <2>1, <2>2, LoginAnsweredTokens
    <2>3. CASE Status(t) # "ok"
        <3>1. Finish(t) /\ token' = token /\ signedOut' = signedOut
            BY <1>5, <2>3 DEF LoginAnswered, histVars
        <3> QED
            BY <2>1, <2>3, <3>1, FinishTokens
    <2> QED
        BY <2>2, <2>3
<1> QED
    BY <1>1, <1>3, <1>4, <1>5, LogoutEndsTokens

\* A page that was loaded with a token has one of the session of its cookie.
LEMMA LoadTokens ==
    ASSUME NEW p, NEW tok \in Tokens \cup {None}, NEW k \in Cookies \cup {None},
           Load(p, tok, k),
           tok # None => k # None /\ tok.who = k.who /\ tok.bound = k.bound,
           signedOut' => tok = None /\ k = None
    PROVE  TokensOK'
<1>1. Loaded(request', gate', p, tok) /\ op'["form"].kind \in {"callback", "idle"}
    BY LoadEffect
<1>2. token' = tok /\ cookie' = k
    BY DEF Load
<1>3. ~LoggedIn' /\ ~LoggedOut' /\ ~Checking' /\ ~Switching'
    BY <1>1 DEF LoggedIn, LoggedOut, Checking, Switching
<1>4. \A c \in Caller : request'[c].token \in {tok, None} /\ request'[c].pc # "answered"
    BY <1>1 DEF Loaded
<1>5. \A c \in Caller : ~Foreign(c)'
    BY <1>2, <1>4 DEF Foreign, Matches
<1>6. TokenOK'
    BY <1>2 DEF TokenOK, Matches
<1> QED
    BY <1>1, <1>2, <1>3, <1>4, <1>5, <1>6, ThreadFacts
       DEF TokensOK, LoginOK, LogoutOK, ForeignOK, CookieOK, SignedOutOK

\* Failures and expiries are not taken back.
LEMMA FaultsGrow ==
    ASSUME ClientOK, [SessionNext]_sessionVars
    PROVE  /\ failures' = 0 => failures = 0
           /\ expiries' <= 1 => expiries <= 1
<1>0. failures \in Nat /\ expiries \in Nat
    BY DEF ClientOK
<1>1. \/ UNCHANGED <<failures, expiries>>
      \/ failures' = failures + 1 /\ expiries' = expiries
      \/ failures' = failures /\ expiries' = expiries + 1
    <2>1. CASE Transport
        <3>1. ASSUME ClientStep
              PROVE  \/ UNCHANGED <<failures, expiries>>
                     \/ failures' = failures + 1 /\ expiries' = expiries
                     \/ failures' = failures /\ expiries' = expiries + 1
            <4>1. CASE Progress
                BY <4>1 DEF Progress, MakeKey, StoreKey, Send, Serve, RetryWithNonce, Receive,
                            RefreshEnds
            <4>2. CASE \E c \in Caller : Unavailable(c) \/ ConnectionFails(c)
                BY <4>2 DEF Unavailable, ConnectionFails, Fail
            <4>3. CASE TokenExpires \/ NonceExpires
                BY <4>3 DEF TokenExpires, NonceExpires, Expire
            <4> QED
                BY <3>1, <4>1, <4>2, <4>3 DEF ClientStep
        <3> QED
            BY <2>1, <3>1 DEF Transport
    <2>2. CASE Ends
        BY <2>2 DEF Ends, SessionChecked, Registered, LoginAnswered, LoginEnds, LogoutEnds,
                    QueryEnds, Finish, Continue
    <2>3. CASE Poll \/ Logout \/ (\E u \in User : LoginPage(u) \/ RegisterPage(u))
        BY <2>3 DEF Poll, Logout, LoginPage, RegisterPage, Start
    <2>4. CASE Reload
        BY <2>4 DEF Reload, Fail
    <2>5. CASE Redirect \/ GoogleClick \/ GoogleKey \/ (\E u \in User : GoogleReturns(u))
               \/ (\E p \in Pages : Navigate(p)) \/ UNCHANGED sessionVars
        BY <2>5 DEF Redirect, GoogleClick, GoogleKey, GoogleReturns, Navigate, MakeKey,
                    StoreKey, clientVars, sessionVars
    <2> QED
        BY <2>1, <2>2, <2>3, <2>4, <2>5 DEF SessionNext
<1> QED
    BY <1>0, <1>1

LEMMA ClientStepTokens ==
    ASSUME ClientOK, OpsOK, RefreshIInv, failures = 0, failures' = 0, TokensOK,
           ClientStep, op' = op, signedOut' = signedOut
    PROVE  TokensOK'
<1>0. CookieOK
    BY DEF TokensOK
<1>1. ASSUME NEW c \in Caller, MakeKey(c) \/ StoreKey(c) PROVE TokensOK'
    BY <1>0, <1>1, ElsewhereSteady, SteadyTokens DEF MakeKey, StoreKey
<1>2. CASE NonceExpires
    BY <1>0, <1>2, ElsewhereSteady, SteadyTokens DEF NonceExpires
<1>3. ASSUME NEW c \in Caller, Receive(c) PROVE TokensOK'
    BY <1>3, ReceivedTokens, AskedAgainTokens
<1>4. ASSUME NEW c \in Caller, Unavailable(c) \/ ConnectionFails(c) PROVE TokensOK'
    BY <1>4, FailEffect
<1>5. ASSUME NEW c \in Caller, Send(c) \/ Serve(c) \/ RetryWithNonce(c) PROVE TokensOK'
    BY <1>0, <1>5, SendSteady, ServeSteady, RetrySteady, SteadyTokens
<1>6. CASE TokenExpires
    BY <1>0, <1>6, ExpireSteady, SteadyTokens
<1>7. CASE RefreshEnds
    BY <1>7, RefreshEndsTokens
<1> QED
    BY <1>1, <1>2, <1>3, <1>4, <1>5, <1>6, <1>7 DEF ClientStep, Progress

LEMMA SessionStepTokens ==
    ASSUME ClientOK, OpsOK, RefreshIInv, CalmTokensOK, [SessionNext]_sessionVars
    PROVE  CalmTokensOK'
<1> SUFFICES ASSUME failures' = 0 PROVE TokensOK'
    BY DEF CalmTokensOK
<1>0. failures = 0 /\ TokensOK /\ CookieOK
    BY FaultsGrow DEF CalmTokensOK, TokensOK
<1>1. CASE Transport
    BY <1>0, <1>1, ClientStepTokens DEF Transport, histVars
<1>2. CASE Ends
    BY <1>0, <1>2, EndsTokens
<1>3. None \in User \cup {None}
    OBVIOUS
<1>4. ASSUME NEW kind \in {"query", "logout"}, Start("form", kind, kind, None),
             signedOut' = signedOut
      PROVE  TokensOK'
    BY <1>0, <1>3, <1>4, FormTokens
<1>5. CASE Poll \/ Logout
    BY <1>0, <1>4, <1>5, PollTokens DEF Poll, Logout
<1>6. ASSUME NEW u \in User, LoginPage(u) \/ RegisterPage(u) PROVE TokensOK'
    <2>1. ASSUME NEW kind \in {"login", "register"}, Start("form", kind, kind, u),
                 signedOut' = FALSE
          PROVE  TokensOK'
        BY <1>0, <2>1, FormTokens
    <2> QED
        BY <1>6, <2>1 DEF LoginPage, RegisterPage
<1>7. CASE Reload
    <2>1. PICK k \in Cookies \cup {None} : Load(page, None, k) /\ k = cookie
        BY <1>7, ReloadFacts
    <2>2. signedOut' => None = None /\ k = None
        BY <1>0, <1>7, <2>1 DEF Reload, TokensOK, SignedOutOK
    <2>3. None \in Tokens \cup {None}
        OBVIOUS
    <2> QED
        BY <2>1, <2>2, <2>3, LoadTokens
<1>8. ASSUME NEW u \in User, GoogleReturns(u) PROVE TokensOK'
    <2>1. PICK k \in Cookies, tok \in Tokens :
              /\ Load("callback", tok, k) /\ k # None
              /\ k.who = u /\ tok.who = u /\ tok.bound = k.bound
        BY <1>8, GoogleFacts
    <2>2. signedOut' = FALSE
        BY <1>8 DEF GoogleReturns
    <2> QED
        BY <2>1, <2>2, LoadTokens
<1>9. CASE GoogleClick
    <2>1. /\ op["form"].kind = "idle" /\ op'["form"].kind = "google"
          /\ UNCHANGED <<token, gate, request, cookie, signedOut>>
        BY <1>9, ThreadFacts DEF GoogleClick, CanStart, OpsOK, Op, Threads, clientVars
    <2> QED
        BY <1>0, <2>1, ElsewhereSteady, SteadyTokens
<1>10. CASE Redirect \/ GoogleKey \/ (\E p \in Pages : Navigate(p)) \/ UNCHANGED sessionVars
    <2>1. UNCHANGED <<token, gate, request, cookie, signedOut, op>>
        BY <1>10 DEF Redirect, GoogleKey, Navigate, MakeKey, StoreKey, clientVars, sessionVars,
                     histVars
    <2> QED
        BY <1>0, <2>1, ElsewhereSteady, SteadyTokens
<1> QED
    BY <1>1, <1>2, <1>5, <1>6, <1>7, <1>8, <1>9, <1>10 DEF SessionNext

LEMMA InitTokens ==
    ASSUME SessionInit
    PROVE  CalmTokensOK
<1>1. token = None /\ \A c \in Caller : request[c].token = None /\ request[c].pc # "answered"
    <2>1. PICK n : \E k : ClientInit(n, k)
                   /\ n = Ask([c \in Caller |-> NoRequest], <<>>, "session", "whoami", None, None)
        BY DEF SessionInit
    <2>2. Loaded(n.request, n.gate, "main", None)
        <3>1. ASSUME NEW tok \in Tokens \cup {None}
              PROVE  LET m == Ask([c \in Caller |-> NoRequest], <<>>, "session", "whoami", None, tok)
                     IN  Loaded(m.request, m.gate, "main", tok)
            BY LoadResult
        <3> QED
            BY <2>1, <3>1
    <2> QED
        BY <2>1, <2>2 DEF ClientInit, Loaded
<1>2. op["form"].kind = "idle" /\ ~signedOut
    BY ThreadFacts DEF SessionInit, Idle, Threads
<1>3. ~LoggedIn /\ ~LoggedOut /\ ~Checking /\ ~Switching
    BY <1>2 DEF LoggedIn, LoggedOut, Checking, Switching
<1> QED
    BY <1>1, <1>2, <1>3, ThreadFacts
       DEF CalmTokensOK, TokensOK, LoginOK, LogoutOK, TokenOK, ForeignOK, Foreign, CookieOK,
           SignedOutOK

(***************************************************************************)
(* apiRequest, login, logout: as long as no request fails, the token in    *)
(* memory and those of the requests under way are of the session whose     *)
(* cookie the browser holds, but for the requests of the session before,   *)
(* which the gate lets out ahead of a login's own check.                   *)
(***************************************************************************)
THEOREM TokensInvariant == SessionSpec => []CalmTokensOK
<1> DEFINE Inv == ClientOK /\ OpsOK
<1>1. SessionInit => CalmTokensOK
    BY InitTokens
<1>2. CalmTokensOK /\ Inv /\ RefreshIInv /\ [SessionNext]_sessionVars => CalmTokensOK'
    BY SessionStepTokens
<1>3. SessionSpec => []Inv
    BY ClientInvariant
<1> HIDE DEF Inv
<1> QED
    BY <1>1, <1>2, <1>3, RefreshInvariant, PTL DEF SessionSpec

(***************************************************************************)
(* logout: once it has ended, nothing that was under way signs the tab in  *)
(* again, as long as no request fails and nobody signs in.                 *)
(***************************************************************************)
THEOREM LogoutAlwaysSticks == SessionSpec => []LogoutSticks
<1>1. CalmTokensOK => LogoutSticks
    BY DEF CalmTokensOK, TokensOK, SignedOutOK, LogoutSticks
<1> QED
    BY <1>1, TokensInvariant, PTL

----------------------------------------------------------------------------
(* Who is on screen *)

\* An operation that needs the session did not get it.
Rejected(c) ==
    /\ request[c].pc = "done" /\ Authenticated(request[c].call)
    /\ request[c].answer.status # "ok"

\* A browser that the services would not refresh a token for.
Unkeyed == cookie = None \/ ~cookie.bound

RejectedOK ==
    \A c \in Thread : Rejected(c) =>
        request[c].answer.status = "unauthorized" /\ (Foreign(c) \/ Unkeyed)

OwnerOK == user # None /\ cookie # None /\ ~Switching => user = cookie.who

PresentOK == ~Unkeyed /\ ~loading /\ ~Switching => user # None

\* The answer to the logout has taken the cookie, and not yet the token.
LeavingOK == user # None /\ token # None /\ LoggedOut => user = token.who

UserOK == RejectedOK /\ OwnerOK /\ PresentOK /\ LeavingOK

CalmUserOK == failures = 0 /\ expiries <= 1 => UserOK

LEMMA SteadyUser ==
    ASSUME UserOK, Steady, UNCHANGED <<user, loading>>,
           \A c \in Thread : request'[c].call = request[c].call
    PROVE  UserOK'
<1>0. /\ \A c \in Caller : Foreign(c)' <=> Foreign(c)
      /\ LoggedOut' <=> LoggedOut
      /\ Switching' <=> Switching
    BY SteadyFacts
<1>1. Unkeyed' <=> Unkeyed
    BY DEF Steady, SameCookie, Unkeyed
<1>2. ASSUME NEW c \in Thread, Rejected(c)'
      PROVE  Rejected(c) /\ request'[c].answer.status = request[c].answer.status
    BY <1>2, ThreadFacts DEF Rejected, Steady
<1>3. RejectedOK'
    BY <1>0, <1>1, <1>2, ThreadFacts DEF UserOK, RejectedOK
<1>4. OwnerOK' /\ PresentOK' /\ LeavingOK'
    BY <1>0, <1>1 DEF UserOK, OwnerOK, PresentOK, LeavingOK, Steady, SameCookie
<1> QED
    BY <1>3, <1>4 DEF UserOK

\* Nobody new is turned away, and the session stays.
LEMMA SessionStays ==
    ASSUME UserOK, cookie' = cookie, UNCHANGED <<user, loading>>,
           \A c \in Thread : request'[c].pc = "done" => request'[c] = request[c],
           Switching => Switching',
           LoggedOut' => LoggedOut /\ token' = token
    PROVE  UserOK'
<1>1. ASSUME NEW c \in Thread, Rejected(c)'
      PROVE  request'[c] = request[c] /\ Rejected(c) /\ (Foreign(c) => Foreign(c)')
    BY <1>1 DEF Rejected, Foreign, Matches
<1>2. RejectedOK'
    BY <1>1 DEF UserOK, RejectedOK, Unkeyed
<1>3. OwnerOK' /\ PresentOK' /\ LeavingOK'
    BY DEF UserOK, OwnerOK, PresentOK, LeavingOK, Unkeyed
<1> QED
    BY <1>2, <1>3 DEF UserOK

\* With one expiry at most, a challenge is always answered with another proof.
LEMMA NotChallenged ==
    ASSUME ClientOK, NoncesOK, failures = 0, expiries <= 1, NEW c \in Caller,
           request[c].pc = "answered", ~Challenged(c)
    PROVE  request[c].answer.status # "challenge"
<1> SUFFICES ASSUME request[c].answer.status = "challenge" PROVE FALSE
    OBVIOUS
<1>1. request[c].retries <= expiries
    BY DEF NoncesOK, RetriesOK
<1>2. request[c].retries \in Nat /\ expiries \in Nat
    BY ClientFacts DEF ClientOK, Requests
<1>3. request[c].retries < 2
    BY <1>1, <1>2
<1> QED
    BY <1>3 DEF Challenged

LEMMA ReceivedUser ==
    ASSUME ClientOK, OpsOK, NoncesOK, TokensOK, UserOK, failures = 0, expiries <= 1,
           NEW c \in Caller, Receive(c),
           ~(request[c].answer.status = "unauthorized" /\ ~request[c].second),
           op' = op, UNCHANGED <<user, loading>>
    PROVE  UserOK'
<1>0. "form" \in Thread /\ "form" \in Caller
    BY ThreadFacts DEF Threads
<1>1. /\ c \in Thread /\ Captures(c)
      /\ \A d \in Caller \ {c} : request'[d] = request[d]
      /\ request'[c].pc = "done" /\ request'[c].call = request[c].call
      /\ request'[c].token = request[c].token /\ request'[c].second = request[c].second
      /\ request'[c].answer.status = request[c].answer.status
    BY ReceivedEffect
<1>2. request[c].pc = "answered" /\ \A d \in Caller : request[d].pc # "done"
    BY <1>1 DEF Captures
<1>3. /\ token' = token /\ cookie' = CookieAfter(c, request[c].answer.status)
      /\ ~Challenged(c)
    BY DEF Receive
<1>4. /\ request[c].call = "login" <=> op[c].kind = "login"
      /\ request[c].call = "logout" <=> op[c].kind = "logout"
      /\ request[c].call # "refresh"
      /\ op[c].kind \notin {"restore", "check"} => c = "form"
    BY <1>1, <1>2, CallFacts
<1>5. ~LoggedIn /\ ~LoggedOut
    BY <1>0, <1>2 DEF LoggedIn, LoggedOut
<1>6. RejectedOK'
    <2> SUFFICES ASSUME NEW d \in Thread, Rejected(d)'
                 PROVE  request'[d].answer.status = "unauthorized" /\ (Foreign(d)' \/ Unkeyed')
        BY DEF RejectedOK
    <2>1. d = c /\ Authenticated(request[c].call) /\ request[c].answer.status # "ok"
        BY <1>1, <1>2, ThreadFacts DEF Rejected
    <2>2. request[c].answer.status # "challenge"
        BY <1>2, <1>3, NotChallenged
    <2>3. /\ request[c] \in Requests /\ FieldsOK(c, request[c]) /\ AnswersOK(request[c], failures)
          /\ \A status : Answered(request[c], status) <=> status = request[c].answer.status
        BY <1>2, ClientFacts DEF Answered
    <2>4. request[c].answer.status \in {"none", "ok", "refused", "unauthorized", "challenge",
                                        "unavailable", "lost"}
        BY <2>3 DEF Requests, Answers
    <2>5. request[c].answer.status \notin {"none", "refused", "unavailable", "lost"}
        BY <2>1, <2>3 DEF AnswersOK
    <2>6. request[c].answer.status = "unauthorized" /\ request[c].second
        BY <2>1, <2>2, <2>4, <2>5
    <2>7. request[c].token # None /\ ~request[c].token.bound
        BY <1>2, <2>3, <2>6 DEF FieldsOK, Asking, OnWire, AnswersOK
    <2>8. cookie' = cookie
        BY <1>3, <2>6 DEF CookieAfter
    <2>9. Foreign(c)' \/ Unkeyed'
        <3>1. CASE Matches(request[c].token)
            BY <2>7, <2>8, <3>1 DEF Matches, Unkeyed
        <3>2. CASE ~Matches(request[c].token)
            BY <1>1, <2>7, <2>8, <3>2 DEF Matches, Foreign
        <3> QED
            BY <3>1, <3>2
    <2> QED
        BY <1>1, <2>1, <2>6, <2>9
<1>7. CASE op[c].kind = "login" /\ request[c].answer.status = "ok"
    <2>1. LoggedIn' /\ Switching' /\ ~LoggedOut'
        BY <1>1, <1>4, <1>7 DEF LoggedIn, LoggedOut, Switching
    <2> QED
        BY <1>6, <2>1 DEF UserOK, OwnerOK, PresentOK, LeavingOK
<1>8. CASE op[c].kind = "logout"
    <2>1. request[c].answer.status = "ok" /\ c = "form"
        BY <1>2, <1>4, <1>8, ClientFacts DEF AnswersOK, Answered
    <2>2. cookie' = None
        BY <1>3, <1>4, <1>8, <2>1 DEF CookieAfter
    <2>3. ~Switching
        BY <1>5, <1>8, <2>1 DEF Switching, Checking
    <2>4. LeavingOK'
        <3>1. token # None => Matches(token)
            BY <1>5 DEF TokensOK, TokenOK
        <3> QED
            BY <1>3, <2>3, <3>1 DEF UserOK, OwnerOK, LeavingOK, Matches
    <2> QED
        BY <1>6, <2>2, <2>4 DEF UserOK, OwnerOK, PresentOK, Unkeyed
<1>9. CASE op[c].kind # "logout" /\ ~(op[c].kind = "login" /\ request[c].answer.status = "ok")
    <2>1. cookie' = cookie
        BY <1>3, <1>4, <1>9 DEF CookieAfter
    <2>2. ~LoggedIn' /\ ~LoggedOut'
        <3>1. CASE c = "form"
            BY <1>1, <1>9, <3>1 DEF LoggedIn, LoggedOut
        <3>2. CASE c # "form"
            BY <1>0, <1>1, <1>2, <3>2 DEF LoggedIn, LoggedOut
        <3> QED
            BY <3>1, <3>2
    <2>3. Switching' <=> Switching
        BY <1>5, <2>2 DEF Checking, Switching
    <2> QED
        BY <1>6, <2>1, <2>2, <2>3 DEF UserOK, OwnerOK, PresentOK, LeavingOK, Unkeyed
<1> QED
    BY <1>7, <1>8, <1>9

LEMMA AskedAgainUser ==
    ASSUME ClientOK, OpsOK, UserOK, NEW c \in Caller, Receive(c),
           request[c].answer.status = "unauthorized", ~request[c].second,
           op' = op, UNCHANGED <<user, loading>>
    PROVE  UserOK'
<1>0. "form" \in Thread /\ "form" \in Caller
    BY ThreadFacts DEF Threads
<1>1. /\ c \in Thread /\ Captures(c)
      /\ \A d \in Thread \ {c} : request'[d] = request[d]
      /\ request'[c].pc = "waiting"
    BY AskedAgainEffect
<1>2. \A d \in Caller : request[d].pc # "done"
    BY <1>1 DEF Captures
<1>3. token' = token /\ cookie' = cookie
    BY DEF Receive, CookieAfter
<1>4. \A d \in Thread : request'[d].pc # "done"
    BY <1>1, <1>2, ThreadFacts
<1>5. ~LoggedIn /\ ~LoggedOut'
    BY <1>0, <1>2, <1>4 DEF LoggedIn, LoggedOut
<1>6. Switching => Switching'
    BY <1>5 DEF Switching, Checking
<1> QED
    BY <1>3, <1>4, <1>5, <1>6, SessionStays

LEMMA RefreshEndsUser ==
    ASSUME ClientOK, OpsOK, NoncesOK, TokensOK, UserOK, failures = 0, expiries <= 1,
           RefreshEnds, op' = op, UNCHANGED <<user, loading>>
    PROVE  UserOK'
<1>0. "form" \in Thread /\ "form" \in Caller /\ "form" # Refresher /\ Refresher \in Caller
    BY ThreadFacts DEF Threads
<1>1. /\ Captures(Refresher) /\ token' = RefreshedToken
      /\ \A c \in Thread : request[c].pc # "waiting" => request'[c] = request[c]
      /\ \A c \in Thread : request[c].pc = "waiting" =>
            /\ request[c].second /\ RefreshedToken = None =>
                 request'[c].pc = "done" /\ request'[c].answer.status = "unauthorized"
            /\ ~(request[c].second /\ RefreshedToken = None) => request'[c].pc = "queued"
    BY RefreshEndsEffect
<1>2. request[Refresher].pc = "answered" /\ \A d \in Caller : request[d].pc # "done"
    BY <1>1 DEF Captures
<1>3. SameCookie
    BY RefreshedCookie
<1>4. ~LoggedIn /\ ~LoggedOut
    BY <1>0, <1>2 DEF LoggedIn, LoggedOut
<1>5. ~LoggedIn' /\ ~LoggedOut'
    <2>1. CASE request["form"].pc = "waiting"
        BY <2>1, FormWaits DEF LoggedIn, LoggedOut
    <2>2. CASE request["form"].pc # "waiting"
        BY <1>0, <1>1, <1>2, <2>2 DEF LoggedIn, LoggedOut
    <2> QED
        BY <2>1, <2>2
<1>6. Switching' <=> Switching
    BY <1>4, <1>5 DEF Checking, Switching
<1>7. RefreshedToken = None => Unkeyed
    <2> SUFFICES ASSUME RefreshedToken = None, ~Unkeyed PROVE FALSE
        OBVIOUS
    <2>1. request[Refresher].answer.status \in {"ok", "challenge"}
        BY <1>2 DEF TokensOK, CookieOK, Unkeyed
    <2>2. request[Refresher].answer.status # "challenge"
        BY <1>0, <1>2, NotChallenged DEF RefreshEnds
    <2>3. request[Refresher].answer.status # "ok"
        BY <1>2, RefreshedTokenFacts
    <2> QED
        BY <2>1, <2>2, <2>3
<1>8. Unkeyed' <=> Unkeyed
    BY <1>3 DEF Unkeyed, SameCookie
<1>9. RejectedOK'
    <2> SUFFICES ASSUME NEW d \in Thread, Rejected(d)'
                 PROVE  request'[d].answer.status = "unauthorized" /\ Unkeyed'
        BY DEF RejectedOK
    <2>1. request'[d].pc = "done"
        BY DEF Rejected
    <2>2. request[d].pc = "waiting"
        BY <1>1, <1>2, <2>1, ThreadFacts
    <2>3. RefreshedToken = None /\ request'[d].answer.status = "unauthorized"
        BY <1>1, <2>1, <2>2
    <2> QED
        BY <1>7, <1>8, <2>3
<1>10. OwnerOK' /\ PresentOK' /\ LeavingOK'
    BY <1>3, <1>5, <1>6, <1>8 DEF UserOK, OwnerOK, PresentOK, LeavingOK, SameCookie
<1> QED
    BY <1>9, <1>10 DEF UserOK

LEMMA ClientStepUser ==
    ASSUME ClientOK, OpsOK, RefreshIInv, NoncesOK, TokensOK, UserOK,
           failures = 0, failures' = 0, expiries <= 1,
           ClientStep, op' = op, UNCHANGED <<user, loading>>
    PROVE  UserOK'
<1>0. CookieOK /\ \A c \in Thread : request'[c].call = request[c].call
    BY ClientStepKeeps DEF TokensOK, ThreadsGoOn
<1>1. ASSUME NEW c \in Caller, MakeKey(c) \/ StoreKey(c) PROVE UserOK'
    BY <1>0, <1>1, ElsewhereSteady, SteadyUser DEF MakeKey, StoreKey
<1>2. CASE NonceExpires
    BY <1>0, <1>2, ElsewhereSteady, SteadyUser DEF NonceExpires
<1>3. ASSUME NEW c \in Caller, Receive(c) PROVE UserOK'
    BY <1>3, ReceivedUser, AskedAgainUser
<1>4. ASSUME NEW c \in Caller, Unavailable(c) \/ ConnectionFails(c) PROVE UserOK'
    BY <1>4, FailEffect
<1>5. ASSUME NEW c \in Caller, Send(c) \/ Serve(c) \/ RetryWithNonce(c) PROVE UserOK'
    BY <1>0, <1>5, SendSteady, ServeSteady, RetrySteady, SteadyUser
<1>6. CASE TokenExpires
    BY <1>0, <1>6, ExpireSteady, SteadyUser
<1>7. CASE RefreshEnds
    BY <1>7, RefreshEndsUser
<1> QED
    BY <1>1, <1>2, <1>3, <1>4, <1>5, <1>6, <1>7 DEF ClientStep, Progress

\* An operation of thread t starts.
LEMMA StartUser ==
    ASSUME ClientOK, OpsOK, UserOK, NEW t \in Thread, NEW kind \in Kinds \ {"loginCheck"},
           NEW call \in Calls \ {"none", "refresh"}, NEW u \in User \cup {None},
           Start(t, kind, call, u), UNCHANGED <<user, loading>>
    PROVE  UserOK'
<1>1. /\ Asks(t, call, u, token) /\ request[t].pc = "none" /\ op[t].kind = "idle"
      /\ op'[t] = Op(kind, u) /\ \A s \in Thread \ {t} : op'[s] = op[s]
    BY StartEffect
<1>2. UNCHANGED <<token, cookie>> /\ "form" \in Thread
    BY ThreadFacts DEF Start, Threads
<1>3. /\ \A c \in Thread \ {t} : request'[c] = request[c]
      /\ request'[t].pc \in {"queued", "waiting"}
    BY <1>1 DEF Asks
<1>4. Switching => Switching'
    BY <1>1, <1>2, <1>3 DEF Switching, LoggedIn, Checking
<1>5. LoggedOut' => LoggedOut
    BY <1>1, <1>2, <1>3 DEF LoggedOut
<1> QED
    BY <1>2, <1>3, <1>4, <1>5, SessionStays

\* The form's operation goes on with a second request.
LEMMA ContinueUser ==
    ASSUME ClientOK, OpsOK, UserOK, request["form"].pc = "done",
           NEW kind \in {"login", "loginCheck"}, NEW call \in Calls \ {"none", "refresh"},
           NEW tok \in Tokens \cup {None}, Continue("form", kind, call, tok),
           Switching => kind = "loginCheck", UNCHANGED <<user, loading>>
    PROVE  UserOK'
<1>0. "form" \in Thread /\ kind \in Kinds
    BY ThreadFacts DEF Threads, Kinds
<1>1. Asks("form", call, op["form"].who, tok) /\ op'["form"].kind = kind
    BY <1>0, ContinueEffect
<1>2. cookie' = cookie
    BY DEF Continue
<1>3. /\ \A c \in Thread \ {"form"} : request'[c] = request[c]
      /\ request'["form"].pc \in {"queued", "waiting"}
    BY <1>1 DEF Asks
<1>4. Switching => Switching'
    BY <1>1 DEF Switching, Checking
<1>5. ~LoggedOut'
    BY <1>0, <1>3 DEF LoggedOut
<1> QED
    BY <1>2, <1>3, <1>4, <1>5, SessionStays

\* An operation ends that is about the session neither in its kind nor its answer.
LEMMA FinishUser ==
    ASSUME ClientOK, OpsOK, UserOK, request["form"].pc = "done", Finish("form"),
           ~Switching, UNCHANGED <<user, loading>>
    PROVE  UserOK'
<1>0. "form" \in Thread
    BY ThreadFacts DEF Threads
<1>1. /\ request'["form"] = NoRequest
      /\ \A d \in Caller \ {"form"} : request'[d] = request[d]
    BY <1>0, FinishEffect
<1>2. cookie' = cookie
    BY DEF Finish
<1>3. request'["form"].pc = "none"
    BY <1>1, NoRequestFacts
<1>4. \A c \in Thread : request'[c].pc = "done" => request'[c] = request[c]
    BY <1>1, <1>3, ThreadFacts
<1>5. ~LoggedOut'
    BY <1>3 DEF LoggedOut
<1> QED
    BY <1>2, <1>4, <1>5, SessionStays

\* Who was turned away after an operation has ended was so before.
LEMMA FinishRejected ==
    ASSUME ClientOK, OpsOK, RejectedOK, NEW t \in Thread, request[t].pc = "done", Finish(t)
    PROVE  RejectedOK'
<1>1. request'[t] = NoRequest /\ \A d \in Caller \ {t} : request'[d] = request[d]
    BY FinishEffect
<1>2. cookie' = cookie
    BY DEF Finish
<1>3. ASSUME NEW c \in Thread, Rejected(c)'
      PROVE  request'[c] = request[c] /\ Rejected(c) /\ (Foreign(c) => Foreign(c)')
    <2>1. c # t
        BY <1>1, <1>3, NoRequestFacts DEF Rejected
    <2> QED
        BY <1>1, <1>2, <1>3, <2>1, ThreadFacts DEF Rejected, Foreign, Matches
<1> QED
    BY <1>2, <1>3 DEF RejectedOK, Unkeyed

LEMMA LogoutEndsUser ==
    ASSUME ClientOK, OpsOK, TokensOK, UserOK, NEW t \in Thread, LogoutEnds(t)
    PROVE  UserOK'
<1>1. request[t].pc = "done" /\ op[t].kind = "logout" /\ t = "form"
    BY DEF LogoutEnds, Done, OpsOK, OpOK
<1>2. RejectedOK'
    BY <1>1, FinishRejected DEF LogoutEnds, UserOK
<1>3. user' = None /\ cookie' = None
    BY <1>1 DEF LogoutEnds, Finish, TokensOK, LogoutOK, LoggedOut
<1> QED
    BY <1>2, <1>3 DEF UserOK, OwnerOK, PresentOK, LeavingOK, Unkeyed

\* The user of a token that was taken for the session's.
LEMMA TokensUser ==
    ASSUME ClientOK, NEW c \in Caller, request[c].token # None
    PROVE  request[c].token.who \in User /\ request[c].token.who # None
<1>1. request[c].token \in Tokens
    BY ClientFacts DEF Requests
<1> QED
    BY <1>1, NoneIsNone DEF Tokens

LEMMA LoginEndsUser ==
    ASSUME ClientOK, OpsOK, TokensOK, UserOK, NEW t \in Thread, LoginEnds(t)
    PROVE  UserOK'
<1>1. /\ request[t].pc = "done" /\ op[t].kind = "loginCheck" /\ t = "form"
      /\ t \in Caller /\ Finish(t)
    BY ThreadFacts DEF LoginEnds, Done, OpsOK, OpOK
<1>2. RejectedOK'
    BY <1>1, FinishRejected DEF UserOK
<1>3. Checking /\ ~Asking(request["form"])
    BY <1>1 DEF Checking, Asking, OnWire
<1>4. ~Foreign(t)
    BY <1>1, <1>3, NothingForeign DEF TokensOK
<1>5. ~Unkeyed
    BY <1>3 DEF TokensOK, LoginOK, Unkeyed
<1>6. Authenticated(request[t].call)
    BY <1>1, CallFacts
<1>7. Status(t) = "ok"
    BY <1>1, <1>4, <1>5, <1>6 DEF UserOK, RejectedOK, Rejected, Status
<1>8. request[t].token # None
    BY <1>1, <1>6, <1>7, ClientFacts DEF AnswersOK, Answered, Status
<1>9. user' = request[t].token.who /\ user' # None /\ user' = cookie.who /\ cookie' = cookie
    BY <1>1, <1>4, <1>7, <1>8, TokensUser DEF LoginEnds, SignedIn, Foreign, Matches, Finish
<1>10. ~LoggedOut'
    BY <1>1, NoRequestFacts, FinishEffect DEF LoggedOut
<1> QED
    BY <1>2, <1>9, <1>10 DEF UserOK, OwnerOK, PresentOK, LeavingOK

LEMMA SessionCheckedUser ==
    ASSUME ClientOK, OpsOK, TokensOK, UserOK, failures = 0, NEW t \in Thread, SessionChecked(t)
    PROVE  UserOK'
<1>0. "form" \in Thread /\ "form" \in Caller /\ t \in Caller
    BY ThreadFacts DEF Threads
<1>1. /\ request[t].pc = "done" /\ op[t].kind \in {"restore", "check", "callback"}
      /\ Finish(t) /\ token' = token /\ cookie' = cookie /\ loading' = FALSE
    BY DEF SessionChecked, Done, Finish
<1>2. RejectedOK'
    BY <1>1, FinishRejected DEF UserOK
<1>3. /\ Switching' <=> Switching
      /\ LoggedOut' <=> LoggedOut
      /\ LoggedOut => t # "form"
    <2>1. /\ request'[t] = NoRequest /\ \A d \in Caller \ {t} : request'[d] = request[d]
          /\ op'[t] = Idle /\ \A s \in Thread \ {t} : op'[s] = op[s]
        BY <1>1, FinishEffect
    <2>2. CASE t = "form"
        BY <1>1, <2>1, <2>2 DEF Switching, LoggedIn, Checking, LoggedOut, Idle
    <2>3. CASE t # "form"
        BY <1>0, <2>1, <2>3 DEF Switching, LoggedIn, Checking, LoggedOut
    <2> QED
        BY <2>2, <2>3
<1>4. Authenticated(request[t].call)
    BY <1>1, CallFacts
<1>5. cookie # None /\ ~Switching => ~Foreign(t)
    BY <1>0 DEF TokensOK, ForeignOK
<1>6. CASE Status(t) = "ok"
    <2>1. request[t].token # None
        BY <1>0, <1>1, <1>4, <1>6, ClientFacts DEF AnswersOK, Answered, Status
    <2>2. user' = request[t].token.who /\ user' # None
        BY <1>0, <1>6, <2>1, TokensUser DEF SessionChecked, SessionAnswer, SignedIn
    <2>3. OwnerOK'
        BY <1>1, <1>3, <1>5, <2>1, <2>2 DEF OwnerOK, Foreign, Matches
    <2>4. ~LoggedOut
        <3> SUFFICES ASSUME LoggedOut PROVE FALSE
            OBVIOUS
        <3>1. request["form"].pc = "done" /\ t # "form"
            BY <1>3 DEF LoggedOut
        <3>2. ~Answered(request[t], "unauthorized")
            BY <1>6 DEF Answered, Status
        <3> QED
            BY <1>0, <1>1, <3>1, <3>2 DEF ClientOK, Alone
    <2> QED
        BY <1>2, <1>3, <2>2, <2>3, <2>4 DEF UserOK, PresentOK, LeavingOK
<1>7. CASE Status(t) # "ok"
    <2>1. Status(t) = "unauthorized" /\ (Foreign(t) \/ Unkeyed)
        BY <1>1, <1>4, <1>7 DEF UserOK, RejectedOK, Rejected, Status
    <2>2. user' = None
        BY <1>7, <2>1 DEF SessionChecked, SessionAnswer
    <2>3. Unkeyed \/ Switching
        BY <1>5, <2>1 DEF Unkeyed
    <2>4. PresentOK'
        BY <1>1, <1>3, <2>3 DEF PresentOK, Unkeyed
    <2> QED
        BY <1>2, <2>2, <2>4 DEF UserOK, OwnerOK, LeavingOK
<1> QED
    BY <1>6, <1>7

LEMMA EndsUser ==
    ASSUME ClientOK, ClientOK', OpsOK, TokensOK, UserOK, failures = 0, Ends
    PROVE  UserOK'
<1>1. PICK t \in Thread : \/ SessionChecked(t) \/ Registered(t) \/ LoginAnswered(t)
                          \/ LoginEnds(t) \/ LogoutEnds(t) \/ QueryEnds(t)
    BY DEF Ends
<1>2. op[t].kind \in {"register", "login", "query"} => t = "form"
    BY DEF OpsOK, OpOK
<1>3. /\ "login" \in Calls \ {"none", "refresh"} /\ "whoami" \in Calls \ {"none", "refresh"}
      /\ token \in Tokens \cup {None} /\ token' \in Tokens \cup {None}
    BY DEF Calls, ClientOK
<1>4. CASE QueryEnds(t)
    <2>1. /\ t = "form" /\ request["form"].pc = "done" /\ op["form"].kind = "query"
          /\ Finish("form") /\ UNCHANGED <<user, loading>>
        BY <1>2, <1>4 DEF QueryEnds, Done, uiVars
    <2>2. ~Switching
        BY <2>1 DEF Switching, LoggedIn, Checking
    <2> QED
        BY <2>1, <2>2, FinishUser
<1>5. CASE Registered(t)
    <2>1. /\ t = "form" /\ request["form"].pc = "done" /\ op["form"].kind = "register"
          /\ Finish("form") \/ Continue("form", "login", "login", token)
          /\ UNCHANGED <<user, loading>>
        BY <1>2, <1>5 DEF Registered, Done, uiVars
    <2>2. ~Switching
        BY <2>1 DEF Switching, LoggedIn, Checking
    <2>3. PICK tok \in Tokens \cup {None} : tok = token
        BY <1>3
    <2>4. CASE Continue("form", "login", "login", token)
        BY <1>3, <2>1, <2>2, <2>3, <2>4, ContinueUser
    <2> QED
        BY <2>1, <2>2, <2>4, FinishUser
<1>6. CASE LoginAnswered(t)
    <2>1. /\ t = "form" /\ request["form"].pc = "done" /\ op["form"].kind = "login"
          /\ UNCHANGED <<user, loading>>
        BY <1>2, <1>6 DEF LoginAnswered, Done, uiVars
    <2>2. CASE Status(t) = "ok"
        <3>1. PICK tok \in Tokens \cup {None} : tok = token'
            BY <1>3
        <3>2. Continue("form", "loginCheck", "whoami", tok)
            BY <1>6, <2>1, <2>2, <3>1 DEF LoginAnswered
        <3> QED
            BY <1>3, <2>1, <3>2, ContinueUser
    <2>3. CASE Status(t) # "ok"
        <3>1. Finish("form")
            BY <1>6, <2>1, <2>3 DEF LoginAnswered
        <3>2. ~Switching
            BY <2>1, <2>3 DEF Switching, LoggedIn, Checking, Status
        <3> QED
            BY <2>1, <3>1, <3>2, FinishUser
    <2> QED
        BY <2>2, <2>3
<1> QED
    BY <1>1, <1>4, <1>5, <1>6, SessionCheckedUser, LoginEndsUser, LogoutEndsUser

LEMMA LoadUser ==
    ASSUME NEW p, NEW tok \in Tokens \cup {None}, NEW k, Load(p, tok, k)
    PROVE  UserOK'
<1>1. Loaded(request', gate', p, tok) /\ user' = None /\ loading' = TRUE
    BY LoadEffect DEF Load
<1>2. \A c \in Thread : request'[c].pc # "done"
    BY <1>1, ThreadFacts DEF Loaded
<1> QED
    BY <1>1, <1>2 DEF UserOK, RejectedOK, Rejected, OwnerOK, PresentOK, LeavingOK

LEMMA SessionStepUser ==
    ASSUME ClientOK, ClientOK', OpsOK, RefreshIInv, NoncesOK, CalmTokensOK, CalmUserOK,
           [SessionNext]_sessionVars
    PROVE  CalmUserOK'
<1> SUFFICES ASSUME failures' = 0, expiries' <= 1 PROVE UserOK'
    BY DEF CalmUserOK
<1>0. failures = 0 /\ expiries <= 1 /\ TokensOK /\ CookieOK /\ UserOK
    BY FaultsGrow DEF CalmTokensOK, TokensOK, CalmUserOK
<1>1. CASE Transport
    BY <1>0, <1>1, ClientStepUser DEF Transport, uiVars
<1>2. CASE Ends
    BY <1>0, <1>2, EndsUser
<1>3. /\ "session" \in Thread /\ "form" \in Thread /\ None \in User \cup {None}
      /\ {"check", "query", "logout", "login", "register"} \subseteq Kinds \ {"loginCheck"}
      /\ {"whoami", "query", "logout", "login", "register"} \subseteq Calls \ {"none", "refresh"}
    BY ThreadFacts DEF Threads, Kinds, Calls
<1>4. CASE Poll \/ Logout
    BY <1>0, <1>3, <1>4, StartUser DEF Poll, Logout, uiVars
<1>5. ASSUME NEW u \in User, LoginPage(u) \/ RegisterPage(u) PROVE UserOK'
    BY <1>0, <1>3, <1>5, StartUser DEF LoginPage, RegisterPage, uiVars
<1>6. CASE Reload
    BY <1>6, ReloadFacts, LoadUser
<1>7. ASSUME NEW u \in User, GoogleReturns(u) PROVE UserOK'
    BY <1>7, GoogleFacts, LoadUser
<1>8. CASE GoogleClick
    <2>1. /\ op["form"].kind = "idle" /\ op'["form"].kind = "google"
          /\ UNCHANGED <<token, gate, request, cookie, user, loading>>
        BY <1>8, ThreadFacts DEF GoogleClick, CanStart, OpsOK, Op, Threads, clientVars, uiVars
    <2> QED
        BY <1>0, <2>1, ElsewhereSteady, SteadyUser
<1>9. CASE Redirect \/ GoogleKey \/ (\E p \in Pages : Navigate(p)) \/ UNCHANGED sessionVars
    <2>1. UNCHANGED <<token, gate, request, cookie, user, loading, op>>
        BY <1>9 DEF Redirect, GoogleKey, Navigate, MakeKey, StoreKey, clientVars, sessionVars,
                    uiVars
    <2> QED
        BY <1>0, <2>1, ElsewhereSteady, SteadyUser
<1> QED
    BY <1>1, <1>2, <1>4, <1>5, <1>6, <1>7, <1>8, <1>9 DEF SessionNext

LEMMA InitUser ==
    ASSUME SessionInit
    PROVE  CalmUserOK
<1>1. \A c \in Caller : request[c].pc # "done"
    <2>1. PICK n : \E k : ClientInit(n, k)
                   /\ n = Ask([c \in Caller |-> NoRequest], <<>>, "session", "whoami", None, None)
        BY DEF SessionInit
    <2>2. Loaded(n.request, n.gate, "main", None)
        <3>1. ASSUME NEW tok \in Tokens \cup {None}
              PROVE  LET m == Ask([c \in Caller |-> NoRequest], <<>>, "session", "whoami", None, tok)
                     IN  Loaded(m.request, m.gate, "main", tok)
            BY LoadResult
        <3> QED
            BY <2>1, <3>1
    <2> QED
        BY <2>1, <2>2 DEF ClientInit, Loaded
<1>2. user = None /\ loading = TRUE
    BY DEF SessionInit
<1> QED
    BY <1>1, <1>2, ThreadFacts
       DEF CalmUserOK, UserOK, RejectedOK, Rejected, OwnerOK, PresentOK, LeavingOK

\* The provider's user is the owner of the session, unless a login or a logout
\* is between its answer and its end.
LEMMA UserInvariant == SessionSpec => []CalmUserOK
<1> DEFINE Inv == ClientOK /\ OpsOK
<1>1. SessionInit => CalmUserOK
    BY InitUser
<1>2. CalmUserOK /\ Inv /\ Inv' /\ RefreshIInv /\ NoncesOK /\ CalmTokensOK
        /\ [SessionNext]_sessionVars => CalmUserOK'
    BY SessionStepUser
<1>3. SessionSpec => []Inv
    BY ClientInvariant
<1> HIDE DEF Inv
<1> QED
    BY <1>1, <1>2, <1>3, RefreshInvariant, ChallengesAreBounded, TokensInvariant,
       PTL DEF SessionSpec

(***************************************************************************)
(* AuthProvider: without failures, and with one expiry at most, the user   *)
(* on screen is the one the next request acts for, also while polls,       *)
(* logins, refreshes and a logout overlap.                                 *)
(***************************************************************************)
THEOREM ShownUserAlwaysOwnsToken == SessionSpec => []ShownUserOwnsToken
<1>1. CalmTokensOK /\ CalmUserOK => ShownUserOwnsToken
    <2> SUFFICES ASSUME TokensOK, UserOK, user # None, token # None, ~SigningIn
                 PROVE  user = token.who
        BY DEF CalmTokensOK, CalmUserOK, ShownUserOwnsToken
    <2>1. ~LoggedIn /\ ~Switching
        BY DEF SigningIn, LoggedIn, Checking, Switching
    <2>2. CASE LoggedOut
        BY <2>2 DEF UserOK, LeavingOK
    <2>3. CASE ~LoggedOut
        BY <2>1, <2>3 DEF UserOK, OwnerOK, TokensOK, TokenOK, Matches
    <2> QED
        BY <2>2, <2>3
<1> QED
    BY <1>1, TokensInvariant, UserInvariant, PTL

(***************************************************************************)
(* restoreSession, checkSession, login: a browser that holds a good        *)
(* refresh cookie shows its owner once the provider has loaded, whatever   *)
(* was challenged and whichever token or nonce expired on the way, as long *)
(* as no request fails and one thing at most expires.                      *)
(***************************************************************************)
THEOREM UserAlwaysStaysSignedIn == SessionSpec => []UserStaysSignedIn
<1>1. CalmUserOK => UserStaysSignedIn
    BY DEF CalmUserOK, UserOK, OwnerOK, PresentOK, Unkeyed, UserStaysSignedIn, SigningIn,
           Switching, LoggedIn, Checking
<1> QED
    BY <1>1, UserInvariant, PTL

=============================================================================
