----------------------------- MODULE ApiClient -----------------------------
(***************************************************************************)
(* The browser's API client (frontend/src/lib/api-client.ts) in one tab:   *)
(* the access token in memory, the shared refresh, the gate that lets one  *)
(* request with a DPoP proof out at a time, and the nonce the next proof   *)
(* carries. Nonces, refresh cookies and tokens behave as the services      *)
(* treat them: a nonce and a refresh cookie are accepted once.             *)
(*                                                                         *)
(* An answer is handled with its body: both are taken to arrive together.  *)
(***************************************************************************)
EXTENDS Naturals, Sequences, SequencesExt, FiniteSets

CONSTANTS
    Thread,        \* asynchronous operations of the page that may overlap
    User,
    None,
    Nonce,         \* at least two more than callers, so that one is always free
    MaxFaults      \* bound: failed requests and expiries together

Refresher == "refresh"          \* the operation behind refreshPromise
Caller    == Thread \cup {Refresher}

ASSUME ClientConstants ==
    /\ IsFiniteSet(Thread) /\ Refresher \notin Thread
    /\ IsFiniteSet(Nonce) /\ Cardinality(Nonce) >= Cardinality(Thread) + 3
    /\ None \notin User \cup Nonce
    /\ None \notin [who : User, fresh : BOOLEAN, bound : BOOLEAN]
    /\ None \notin [who : User, current : BOOLEAN, bound : BOOLEAN]
    /\ MaxFaults \in Nat

VARIABLES
    token,      \* accessToken
    nonce,      \* dpopNonce
    gate,       \* callers in dpopGate; the first one is the one that runs
    request,    \* for each caller, its request under way
    cookie,     \* the refresh cookie of the browser
    live,       \* those of the nonces held by the tab that a service would accept
    keys,       \* key pairs stored so far in IndexedDB: the last one is there
    making,     \* callers that found none and are making one
    failures, expiries

keyVars    == <<keys, making>>
clientVars == <<token, nonce, gate, request, cookie, live, keyVars, failures, expiries>>

\* fresh: not expired. bound: issued for the key this browser signs with.
Token(u, bound)  == [who |-> u, fresh |-> TRUE, bound |-> bound]
\* current: the server has not rotated it since.
Cookie(u, bound) == [who |-> u, current |-> TRUE, bound |-> bound]

NoAnswer  == [status |-> "none", nonce |-> None]
NoRequest == [pc |-> "none", call |-> "none", who |-> None, token |-> None,
              nonce |-> None, retries |-> 0, second |-> FALSE, answer |-> NoAnswer]

Fault == failures + expiries < MaxFaults
Fail == Fault /\ failures' = failures + 1 /\ UNCHANGED expiries
Expire == Fault /\ expiries' = expiries + 1 /\ UNCHANGED failures

----------------------------------------------------------------------------
(* apiRequest *)

\* Calls made with auth: the others are login, register, logout and the refresh.
Authenticated(call) == call \in {"whoami", "query"}

Usable(t) == t # None /\ t.fresh

Queued(call, u, t, second) ==
    [pc |-> "queued", call |-> call, who |-> u, token |-> t, nonce |-> None,
     retries |-> 0, second |-> second, answer |-> NoAnswer]

\* Requests r and gate g after caller c asked for the gate with request q.
Enqueue(r, g, c, q) == [request |-> [r EXCEPT ![c] = q], gate |-> Append(g, c)]

\* Mutant of AwaitRefresh: every caller refreshes for itself.
AwaitRefresh_Alone(r, g, c, q) ==
    Enqueue([r EXCEPT ![c] = [q EXCEPT !.pc = "waiting"]], g, Refresher,
            Queued("refresh", None, None, FALSE))

\* refreshAccessToken: the refresh under way is shared.
AwaitRefresh(r, g, c, q) ==
    LET waiting == [r EXCEPT ![c] = [q EXCEPT !.pc = "waiting"]]
    IN IF r[Refresher].pc # "none" THEN [request |-> waiting, gate |-> g]
       ELSE Enqueue(waiting, g, Refresher, Queued("refresh", None, None, FALSE))

\* apiRequest up to its first await; u is the user a login is for.
Ask(r, g, c, call, u, t) ==
    IF Authenticated(call) /\ ~Usable(t)
    THEN AwaitRefresh(r, g, c, Queued(call, u, None, FALSE))
    ELSE Enqueue(r, g, c, Queued(call, u, IF Authenticated(call) THEN t ELSE None, FALSE))

----------------------------------------------------------------------------
(* doFetch and withDPoPGate *)

\* Mutant of HasGate: requests are not serialised.
HasGate_Always(c) == c \in Range(gate)

HasGate(c) == gate # <<>> /\ c = Head(gate)

\* getOrCreateDPoPKey: a caller that finds no key makes one, and stores it some
\* time later without looking again.
MakeKey(c) ==
    /\ keys = 0 /\ c \notin making
    /\ making' = making \cup {c}
    /\ UNCHANGED <<token, nonce, gate, request, cookie, live, keys, failures, expiries>>

StoreKey(c) ==
    /\ c \in making
    /\ keys' = keys + 1 /\ making' = making \ {c}
    /\ UNCHANGED <<token, nonce, gate, request, cookie, live, failures, expiries>>

NeedsKey(c) == HasGate(c) /\ request[c].pc = "queued"

\* fetchWithProof: the proof carries the nonce known at this moment.
Send(c) ==
    /\ NeedsKey(c) /\ keys > 0 /\ c \notin making
    /\ request' = [request EXCEPT ![c].pc = "sent", ![c].nonce = nonce]
    /\ UNCHANGED <<token, nonce, gate, cookie, live, keyVars, failures, expiries>>

Held == {nonce} \cup UNION {{request[c].nonce, request[c].answer.nonce} : c \in Caller}

FreshNonce == CHOOSE n \in Nonce : n \notin Held

\* A proof is validated after the access token and before anything else;
\* register and logout do not look at it.
Validated(q) ==
    \/ q.call \in {"login", "refresh"}
    \/ Authenticated(q.call) /\ Usable(q.token)

\* Which statuses the services may answer request q with, failures aside.
Statuses(q) ==
    CASE Authenticated(q.call) /\ ~Usable(q.token)   -> {"unauthorized"}
      [] Validated(q) /\ q.nonce \notin live         -> {"challenge"}
      [] Authenticated(q.call) /\ Usable(q.token) /\ q.nonce \in live ->
            IF q.token.bound THEN {"ok"} ELSE {"unauthorized"}
      [] q.call = "refresh" /\ q.nonce \in live ->
            IF cookie # None /\ cookie.current /\ cookie.bound THEN {"ok"} ELSE {"refused"}
      [] q.call = "login" /\ q.nonce \in live        -> {"ok", "refused"}
      [] q.call = "register"                         -> {"ok", "refused"}
      [] q.call = "logout"                           -> {"ok"}

\* A service handles the request. Whoever presents a cookie makes it stale.
Serve(c) ==
    LET q == request[c]
    IN /\ q.pc = "sent"
       /\ \E status \in Statuses(q) :
             /\ request' = [request EXCEPT ![c].pc = "answered",
                    ![c].answer = [status |-> status,
                                   nonce |-> IF Validated(q) THEN FreshNonce ELSE None]]
             /\ cookie' = IF q.call = "refresh" /\ status = "ok"
                          THEN [cookie EXCEPT !.current = FALSE] ELSE cookie
       /\ live' = IF Validated(q)
                  THEN ((live \cap Held) \ {q.nonce}) \cup {FreshNonce} ELSE live
       /\ UNCHANGED <<token, nonce, gate, keyVars, failures, expiries>>

\* The gateway or a service is down: 5xx, and no new nonce.
Unavailable(c) ==
    /\ request[c].pc = "sent"
    /\ Fail
    /\ request' = [request EXCEPT ![c].pc = "answered",
                                  ![c].answer = [status |-> "unavailable", nonce |-> None]]
    /\ UNCHANGED <<token, nonce, gate, cookie, live, keyVars>>

\* The connection fails before or after the service handled the request.
ConnectionFails(c) ==
    /\ request[c].pc \in {"sent", "answered"} /\ request[c].answer.status # "lost"
    /\ Fail
    /\ request' = [request EXCEPT ![c].pc = "answered",
                                  ![c].answer = [status |-> "lost", nonce |-> None]]
    /\ UNCHANGED <<token, nonce, gate, cookie, live, keyVars>>

\* An access token lives 15 minutes, long enough for the second attempt of the
\* request it was fetched for; a nonce lives five.
TokenExpires ==
    /\ Usable(token) /\ \A c \in Caller : ~request[c].second
    /\ Expire
    /\ token' = [token EXCEPT !.fresh = FALSE]
    /\ request' = [c \in Caller |->
            IF request[c].token = None THEN request[c]
            ELSE [request[c] EXCEPT !.token.fresh = FALSE]]
    /\ UNCHANGED <<nonce, gate, cookie, live, keyVars>>

NonceExpires ==
    /\ live # {}
    /\ Expire
    /\ live' = {}
    /\ UNCHANGED <<token, nonce, gate, request, cookie, keyVars>>

----------------------------------------------------------------------------
(* Answers. The code after an await runs before the next answer comes in.   *)

Quiet == \A c \in Caller : request[c].pc # "done"

Captured(c) == IF request[c].answer.nonce = None THEN nonce ELSE request[c].answer.nonce

\* Mutant of Challenged: a challenge is an answer like any other.
Challenged_Never(c) == FALSE

Challenged(c) ==
    request[c].answer.status = "challenge" /\ request[c].retries < 2

\* The loop of doFetch: another proof, with the challenge's nonce.
RetryWithNonce(c) ==
    /\ Quiet /\ request[c].pc = "answered" /\ Challenged(c)
    /\ nonce' = Captured(c)
    /\ request' = [request EXCEPT ![c].pc = "sent", ![c].nonce = Captured(c),
                                  ![c].retries = @ + 1, ![c].answer = NoAnswer]
    /\ UNCHANGED <<token, gate, cookie, live, keyVars, failures, expiries>>

\* Mutant of Leave: a request that fails does not open the gate.
Leave_OnSuccess(c) ==
    IF request[c].answer.status = "lost" THEN gate ELSE Tail(gate)

\* Whoever runs is the first, and the next one goes on when it has ended.
Leave(c) == Tail(gate)

\* Set-Cookie is the browser's and comes first.
CookieAfter(c, status) ==
    CASE status = "ok" /\ request[c].call = "refresh" -> Cookie(cookie.who, TRUE)
      [] status = "ok" /\ request[c].call = "login"   -> Cookie(request[c].who, TRUE)
      [] status = "ok" /\ request[c].call = "logout"  -> None
      [] OTHER                                        -> cookie

\* The gate opens; apiRequest refreshes and repeats once after a 401, and is
\* done otherwise.
Receive(c) ==
    LET status == request[c].answer.status
        n == IF status = "unauthorized" /\ ~request[c].second
             THEN AwaitRefresh(request, Leave(c), c,
                               Queued(request[c].call, None, None, TRUE))
             ELSE [request |-> [request EXCEPT ![c].pc = "done", ![c].nonce = None,
                                 ![c].answer = [status |-> status, nonce |-> None]],
                   gate |-> Leave(c)]
    IN /\ c # Refresher /\ Quiet /\ request[c].pc = "answered" /\ ~Challenged(c)
       /\ nonce' = Captured(c)
       /\ cookie' = CookieAfter(c, status)
       /\ request' = n.request /\ gate' = n.gate
       /\ UNCHANGED <<token, live, keyVars, failures, expiries>>

Waiting == {t \in Thread : request[t].pc = "waiting"}

\* A caller that waited goes on with the new token t; without one, the second
\* attempt is not made and the 401 of the first stands.
Resumed(q, t) ==
    IF q.second /\ t = None
    THEN [q EXCEPT !.pc = "done", !.answer = [status |-> "unauthorized", nonce |-> None]]
    ELSE [q EXCEPT !.pc = "queued", !.token = t]

\* The shared refresh ends, and everyone who waits for it gets its result.
RefreshEnds ==
    LET q == request[Refresher]
        t == IF q.answer.status = "ok" THEN Token(cookie.who, TRUE) ELSE None
    IN /\ Quiet /\ q.pc = "answered" /\ ~Challenged(Refresher)
       /\ nonce' = Captured(Refresher)
       /\ token' = t
       /\ cookie' = CookieAfter(Refresher, q.answer.status)
       /\ request' = [c \in Caller |->
               CASE c = Refresher -> NoRequest
                 [] c \in Waiting -> Resumed(request[c], t)
                 [] OTHER         -> request[c]]
       /\ \E order \in SetToSeqs({c \in Waiting : ~request[c].second \/ t # None}) :
             gate' = Leave(Refresher) \o order
       /\ UNCHANGED <<live, keyVars, failures, expiries>>

----------------------------------------------------------------------------

\* A tab with cookie k, and the requests and gate of n.
ClientInit(n, k) ==
    /\ token = None /\ nonce = None /\ cookie = k
    /\ request = n.request /\ gate = n.gate
    /\ live = {} /\ making = {} /\ failures = 0 /\ expiries = 0

\* What the browser, the network and the services do unasked.
Progress ==
    \/ \E c \in Caller : \/ (NeedsKey(c) /\ (MakeKey(c) \/ StoreKey(c))) \/ Send(c) \/ Serve(c)
                         \/ RetryWithNonce(c) \/ Receive(c)
    \/ RefreshEnds

ClientStep ==
    \/ Progress
    \/ \E c \in Caller : Unavailable(c) \/ ConnectionFails(c)
    \/ TokenExpires \/ NonceExpires

=============================================================================
