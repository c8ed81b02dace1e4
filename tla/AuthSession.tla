---------------------------- MODULE AuthSession ----------------------------
(***************************************************************************)
(* Who is signed in, as one browser tab sees it: the AuthProvider          *)
(* (frontend/src/features/auth/hooks/use-auth.tsx), the pages and guards   *)
(* that use it, and the operations that overlap in it - the session being  *)
(* restored or polled, a login, a logout, any other request - on top of    *)
(* ApiClient. A reload or a trip to Google forgets the memory and keeps    *)
(* the cookie and the cached user.                                         *)
(***************************************************************************)
EXTENDS ApiClient

CONSTANTS
    Admins,          \* users whose role is ADMIN
    MaxOperations    \* bound: operations a run starts

ASSUME SessionConstants ==
    /\ Admins \subseteq User /\ MaxOperations \in Nat
    /\ {"session", "form"} \subseteq Thread

VARIABLES
    user, cached, loading, readOnly,   \* AuthProvider's state, localStorage
    page,
    op,          \* per thread, the operation it runs
    urlKey,      \* the key that the URL to Google names, 0 before
    started,     \* operations so far
    signedOut    \* history: a logout ended, and no login was begun since

uiVars == <<user, cached, loading, readOnly, page>>
histVars == <<urlKey, started, signedOut>>
sessionVars == <<clientVars, uiVars, op, histVars>>

Idle == [kind |-> "idle", who |-> None]
Op(kind, u) == [kind |-> kind, who |-> u]

Pages == {"root", "login", "main", "admin", "callback"}

----------------------------------------------------------------------------
(* Operations start. "session" and "form" are the two threads.              *)

CanStart(t) == op[t].kind = "idle" /\ started < MaxOperations

Start(t, kind, call, u) ==
    LET n == Ask(request, gate, t, call, u, token)
    IN /\ CanStart(t) /\ started' = started + 1
       /\ op' = [op EXCEPT ![t] = Op(kind, u)]
       /\ request' = n.request /\ gate' = n.gate
       /\ UNCHANGED <<token, nonce, cookie, live, keyVars, failures, expiries>>

\* The chat page asks every 30 seconds; other queries need the user as well.
Poll ==
    /\ page = "main" /\ ~loading /\ user # None
    /\ \/ Start("session", "check", "whoami", None)
       \/ Start("form", "query", "query", None)
    /\ UNCHANGED <<uiVars, urlKey, signedOut>>

\* The forms of the login and the register page; each submits once at a time.
LoginPage(u) ==
    /\ page = "login"
    /\ Start("form", "login", "login", u)
    /\ signedOut' = FALSE
    /\ UNCHANGED <<uiVars, urlKey>>

RegisterPage(u) ==
    /\ page = "login"
    /\ Start("form", "register", "register", u)
    /\ signedOut' = FALSE
    /\ UNCHANGED <<uiVars, urlKey>>

\* The sidebar's button.
Logout ==
    /\ page \in {"main", "admin"} /\ ~loading /\ user # None
    /\ Start("form", "logout", "logout", None)
    /\ UNCHANGED <<uiVars, urlKey, signedOut>>

Navigate(p) ==
    /\ page # "callback" /\ p # "callback" /\ p # page
    /\ page' = p
    /\ UNCHANGED <<clientVars, user, cached, loading, readOnly, op, histVars>>

----------------------------------------------------------------------------
(* Operations end *)

Done(t, kind) == op[t].kind = kind /\ request[t].pc = "done"
Status(t) == request[t].answer.status

Finish(t) ==
    /\ op' = [op EXCEPT ![t] = Idle]
    /\ request' = [request EXCEPT ![t] = NoRequest]
    /\ UNCHANGED <<gate, nonce, cookie, live, keyVars, failures, expiries>>

\* A second request of the same operation, with access token tok.
Continue(t, kind, call, tok) ==
    LET n == Ask(request, gate, t, call, op[t].who, tok)
    IN /\ op' = [op EXCEPT ![t].kind = kind]
       /\ request' = n.request /\ gate' = n.gate
       /\ UNCHANGED <<nonce, cookie, live, keyVars, failures, expiries>>

SignedIn(u) ==
    user' = u /\ cached' = u /\ readOnly' = FALSE

HasCachedUser == cached # None

\* restoreSession and checkSession are the same up to their result.
SessionAnswer(t) ==
    CASE Status(t) = "ok" -> SignedIn(request[t].token.who)
      [] Status(t) = "unavailable" /\ HasCachedUser ->
            user' = cached /\ readOnly' = TRUE /\ UNCHANGED cached
      [] OTHER -> user' = None /\ readOnly' = FALSE /\ UNCHANGED cached

\* Where the callback page goes when its checkSession has set user u.
CallbackHandler(u) == IF u # None THEN "main" ELSE "login"

SessionChecked(t) ==
    /\ Done(t, "restore") \/ Done(t, "check") \/ Done(t, "callback")
    /\ SessionAnswer(t) /\ loading' = FALSE
    /\ page' = IF op[t].kind = "callback" THEN CallbackHandler(user') ELSE page
    /\ Finish(t)
    /\ UNCHANGED <<token, histVars>>

Registered(t) ==
    /\ Done(t, "register")
    /\ IF Status(t) = "ok" THEN Continue(t, "login", "login", token) ELSE Finish(t)
    /\ UNCHANGED <<token, uiVars, histVars>>

\* The login's token is in memory before whoami says whose it is.
LoginAnswered(t) ==
    /\ Done(t, "login")
    /\ IF Status(t) = "ok"
       THEN /\ token' = Token(op[t].who, TRUE)
            /\ Continue(t, "loginCheck", "whoami", token')
       ELSE Finish(t) /\ UNCHANGED token
    /\ UNCHANGED <<uiVars, histVars>>

\* Mutant of LoginEnds: the token is taken and the user is not.
LoginEnds_KeepsUser(t) ==
    /\ Done(t, "loginCheck")
    /\ page' = IF Status(t) = "ok" THEN "main" ELSE page
    /\ Finish(t)
    /\ UNCHANGED <<token, user, cached, readOnly, loading, histVars>>

LoginEnds(t) ==
    /\ Done(t, "loginCheck")
    /\ IF Status(t) = "ok"
       THEN SignedIn(request[t].token.who) /\ page' = "main"
       ELSE UNCHANGED <<user, cached, readOnly, page>>
    /\ Finish(t)
    /\ UNCHANGED <<token, loading, histVars>>

\* Mutant of LogoutEnds: the token stays in memory.
LogoutEnds_KeepsToken(t) ==
    /\ Done(t, "logout")
    /\ user' = None /\ cached' = None /\ readOnly' = FALSE /\ page' = "login"
    /\ signedOut' = TRUE
    /\ Finish(t)
    /\ UNCHANGED <<token, loading, urlKey, started>>

\* Errors are ignored.
LogoutEnds(t) ==
    /\ Done(t, "logout")
    /\ user' = None /\ cached' = None /\ readOnly' = FALSE /\ page' = "login"
    /\ token' = None
    /\ signedOut' = TRUE
    /\ Finish(t)
    /\ UNCHANGED <<loading, urlKey, started>>

QueryEnds(t) ==
    /\ Done(t, "query")
    /\ Finish(t)
    /\ UNCHANGED <<token, uiVars, histVars>>

----------------------------------------------------------------------------
(* Guards, reloads, Google *)

\* Effects that leave a page: where to, from page p.
ProtectedRoute(p) == p = "main" /\ user = None /\ ~readOnly /\ page' = "login"
AdminGuard(p) ==
    /\ p = "admin" /\ user \notin Admins
    /\ page' = IF user = None THEN "login" ELSE "main"
RootPage(p) == p = "root" /\ user # None /\ page' = "main"

Redirect ==
    /\ ~loading
    /\ ProtectedRoute(page) \/ AdminGuard(page) \/ RootPage(page)
    /\ UNCHANGED <<clientVars, user, cached, loading, readOnly, op, histVars>>

\* The page is loaded again, with token tok in memory: what was under way is
\* lost, answers and their Set-Cookie too, and the provider restores the session;
\* a refresh that was sent may still be served. On the callback page the page checks the session first.
Load(p, tok, k) ==
    LET none == [c \in Caller |-> NoRequest]
        n1 == Ask(none, <<>>, "form", "whoami", None, tok)
        n2 == IF p = "callback" THEN Ask(n1.request, n1.gate, "session", "whoami", None, tok)
              ELSE Ask(none, <<>>, "session", "whoami", None, tok)
    IN /\ token' = tok /\ nonce' = None
       /\ request' = n2.request /\ gate' = n2.gate
       /\ op' = [t \in Thread |->
                    CASE t = "session" -> Op("restore", None)
                      [] t = "form" /\ p = "callback" -> Op("callback", None)
                      [] OTHER -> Idle]
       /\ user' = None /\ loading' = TRUE /\ readOnly' = FALSE /\ page' = p
       /\ cookie' = k
       /\ UNCHANGED <<cached, keys>>
       /\ live' = {} /\ making' = {}

InterruptedRefresh == request[Refresher].pc \in {"sent", "answered"}

\* What a reload leaves of the cookie.
KeptCookie ==
    {cookie} \cup
    IF cookie # None /\ request[Refresher].pc = "sent"
    THEN {[cookie EXCEPT !.current = FALSE]} ELSE {}

Reload ==
    /\ started < MaxOperations /\ started' = started + 1
    /\ page # "callback"
    /\ \E k \in KeptCookie : Load(page, None, k)
    /\ IF InterruptedRefresh THEN Fail ELSE UNCHANGED <<failures, expiries>>
    /\ urlKey' = 0
    /\ UNCHANGED signedOut

\* handleGoogleLogin: the URL names the key that the tokens will be bound to.
GoogleClick ==
    /\ page = "login" /\ CanStart("form") /\ started' = started + 1
    /\ op' = [op EXCEPT !["form"] = Op("google", None)]
    /\ UNCHANGED <<clientVars, uiVars, urlKey, signedOut>>

GoogleKey ==
    /\ op["form"].kind = "google" /\ urlKey = 0
    /\ \/ /\ keys > 0 /\ "form" \notin making
          /\ urlKey' = keys /\ UNCHANGED clientVars
       \/ MakeKey("form") /\ UNCHANGED urlKey
       \/ StoreKey("form") /\ urlKey' = keys'
    /\ UNCHANGED <<uiVars, op, started, signedOut>>

\* Back from Google with a token and a cookie; the key is the one stored last.
GoogleReturns(u) ==
    /\ op["form"].kind = "google" /\ urlKey # 0
    /\ Load("callback", Token(u, urlKey = keys), Cookie(u, urlKey = keys))
    /\ urlKey' = 0
    /\ signedOut' = FALSE
    /\ UNCHANGED <<started, failures, expiries>>

----------------------------------------------------------------------------

\* A tab is opened: by a browser that was never here, or by one that was closed
\* while u was signed in. Its provider restores the session.
SessionInit ==
    \E u \in User \cup {None} :
        LET n == Ask([c \in Caller |-> NoRequest], <<>>, "session", "whoami", None, None)
            k == IF u = None THEN None ELSE Cookie(u, TRUE)
        IN /\ ClientInit(n, k) /\ keys = (IF u = None THEN 0 ELSE 1)
           /\ user = None /\ cached = u /\ loading = TRUE /\ readOnly = FALSE
           /\ page = IF u = None THEN "login" ELSE "main"
           /\ op = [t \in Thread |-> IF t = "session" THEN Op("restore", None) ELSE Idle]
           /\ urlKey = 0 /\ started = 0 /\ signedOut = FALSE

Ends ==
    \E t \in Thread : \/ SessionChecked(t) \/ Registered(t) \/ LoginAnswered(t)
                      \/ LoginEnds(t) \/ LogoutEnds(t) \/ QueryEnds(t)

Transport == ClientStep /\ UNCHANGED <<uiVars, op, histVars>>

SessionNext ==
    \/ Transport \/ Ends
    \/ Poll \/ Logout \/ Redirect \/ Reload \/ GoogleClick \/ GoogleKey
    \/ \E u \in User : LoginPage(u) \/ RegisterPage(u) \/ GoogleReturns(u)
    \/ \E p \in Pages : Navigate(p)

SessionSpec == SessionInit /\ [][SessionNext]_sessionVars

\* Requests are sent and end one way or another, and so do their operations.
SessionFairness == WF_sessionVars(Progress /\ UNCHANGED <<uiVars, op, histVars>>) /\ WF_sessionVars(Ends)

FairSessionSpec == SessionSpec /\ SessionFairness

----------------------------------------------------------------------------
(* Properties *)

\* withDPoPGate: while nothing fails or expires, no proof is sent with a nonce
\* that a service has already taken, so only the first request is challenged.
NonceIsSentOnce ==
    failures = 0 /\ expiries = 0 =>
        \A c \in Caller : request[c].pc = "sent" /\ request[c].nonce # None
            => request[c].nonce \in live

\* refreshPromise: the tab does not present a refresh cookie a second time, which
\* would end the session as a reuse, unless an answer was lost.
CookieIsPresentedOnce ==
    failures = 0 /\ request[Refresher].pc = "sent" /\ cookie # None => cookie.current

\* logout: once it has ended, nothing that was under way signs the tab in again.
LogoutSticks == failures = 0 /\ signedOut => token = None /\ cookie = None

SigningIn == op["form"].kind \in {"login", "loginCheck"}

\* AuthProvider: the user on screen is the one the next request acts for, as long as
\* at most one expiry (two use up a request's two repetitions) and no failure happened.
ShownUserOwnsToken ==
    failures = 0 /\ expiries <= 1 /\ user # None /\ token # None /\ ~SigningIn => user = token.who

\* restoreSession, checkSession, login: a browser that holds a good refresh
\* cookie shows its owner, whatever was challenged on the way and whichever one token
\* or nonce expired.
UserStaysSignedIn ==
    failures = 0 /\ expiries <= 1 /\ cookie # None /\ cookie.bound /\ ~loading /\ ~SigningIn
      /\ op["form"].kind # "logout"
        => user = cookie.who

\* restoreSession: the loading state of the provider, behind which every page
\* waits, ends, also when requests fail.
LoadingEnds == loading ~> ~loading
=============================================================================
