------------------------- MODULE UseMessagesProofs -------------------------
(***************************************************************************)
(* Theorems about UseMessages, for any messages, number of visits,         *)
(* attempts and failures, in four parts:                                   *)
(*                                                                         *)
(*   - a client has one attempt at a time, and none after its room was     *)
(*     left. The invariant adds what a client relies on that comes later:  *)
(*     visits that have not begun asked for nothing, and a socket is only  *)
(*     being closed when its room was left, so that its onclose schedules  *)
(*     nothing;                                                            *)
(*   - no message is shown twice. Every list that is shown or on its way   *)
(*     is a Page, and an own message is in none before createMsg has put   *)
(*     it there;                                                           *)
(*   - what a list is worth: it Represents the first events of the         *)
(*     history, and each kind of event takes it to the next one;           *)
(*   - a calm page converges: the list represents the events that have     *)
(*     arrived, those that the hub has distributed and that are not on the *)
(*     wire any more.                                                      *)
(***************************************************************************)
EXTENDS UseMessages, FiniteSetTheorems, TLAPS

VisitsOK ==
    /\ visit \in Client /\ left \subseteq Client
    /\ \A c \in left : c <= visit /\ c <= MaxLeaves

SocketsOK ==
    /\ ws \in [Client -> {"none", "connecting", "open", "closing"}]
    /\ asking \in [Client -> BOOLEAN] /\ timer \in [Client -> BOOLEAN]

Active(c) == ws[c] \in {"connecting", "open"}

\* A client before its visit has nothing, one after its visit at most a ticket
\* request whose answer it will ignore, and a socket that is being closed.
ClientOK(c) ==
    /\ ~(asking[c] /\ timer[c]) /\ ~(asking[c] /\ Active(c)) /\ ~(timer[c] /\ Active(c))
    /\ c # visit => c \in left \/ c > visit
    /\ c \in left => ~timer[c] /\ ~Active(c)
    /\ c > visit => ~timer[c] /\ ~asking[c] /\ ws[c] = "none"
    /\ ws[c] = "closing" => c \in left

SocketIInv == VisitsOK /\ SocketsOK /\ \A c \in Client : ClientOK(c)

----------------------------------------------------------------------------

LEMMA ClientIsNat == Client \subseteq Nat \ {0} /\ 1 \in Client
BY MessagesConstants DEF Client

LEMMA InvImpliesOneAttempt == SocketIInv => OneAttempt
BY DEF SocketIInv, ClientOK, Active, OneAttempt

LEMMA SocketInit == MessagesInit => SocketIInv
<1> SUFFICES ASSUME MessagesInit PROVE SocketIInv
    OBVIOUS
<1>1. VisitsOK /\ SocketsOK
    BY ClientIsNat DEF MessagesInit, VisitsOK, SocketsOK
<1>2. ASSUME NEW c \in Client PROVE ClientOK(c)
    <2>1. c \in Nat \ {0} /\ visit = 1 /\ left = {}
        BY ClientIsNat DEF MessagesInit
    <2>2. ws[c] = "none" /\ timer[c] = FALSE /\ asking[c] = (c = 1)
        BY DEF MessagesInit
    <2>3. (c # visit => c > visit) /\ (c > visit => c # 1)
        BY <2>1
    <2>4. ~Active(c)
        BY <2>2 DEF Active
    <2> QED
        BY <2>1, <2>2, <2>3, <2>4 DEF ClientOK
<1> QED
    BY <1>1, <1>2 DEF SocketIInv

\* What a step of one client must show: the others keep what they have.
LEMMA OneClientMoves ==
    ASSUME SocketIInv, NEW c \in Client, SocketsOK', ClientOK(c)',
           visit' = visit, left' = left,
           \A d \in Client \ {c} :
              ws'[d] = ws[d] /\ asking'[d] = asking[d] /\ timer'[d] = timer[d]
    PROVE  SocketIInv'
<1>1. VisitsOK'
    BY DEF SocketIInv, VisitsOK
<1>2. ASSUME NEW d \in Client \ {c} PROVE ClientOK(d)'
    BY <1>2 DEF SocketIInv, ClientOK, Active
<1> QED
    BY <1>1, <1>2 DEF SocketIInv, Client

LEMMA NothingMoves ==
    ASSUME SocketIInv, UNCHANGED <<visit, left, ws, asking, timer>>
    PROVE  SocketIInv'
BY DEF SocketIInv, VisitsOK, SocketsOK, ClientOK, Active, Client

----------------------------------------------------------------------------
(* One lemma per action that touches a client *)

LEMMA TimerStep ==
    ASSUME SocketIInv, NEW c \in Client, ReconnectTimer(c)
    PROVE  SocketIInv'
<1>1. /\ timer[c] /\ timer' = [timer EXCEPT ![c] = FALSE] /\ ws' = ws /\ visit' = visit
      /\ \/ asking' = asking /\ left' = left
         \/ ~Active(c) /\ asking' = [asking EXCEPT ![c] = TRUE] /\ left' = left \ {c}
    BY DEF ReconnectTimer, Active
<1>2. ClientOK(c) /\ c \notin left /\ SocketsOK
    BY <1>1 DEF SocketIInv, ClientOK
<1>3. left' = left
    BY <1>1, <1>2
<1>4. SocketsOK'
    BY <1>1, <1>2 DEF SocketsOK
<1>5. ~(c > visit)
    BY <1>1, <1>2 DEF ClientOK
<1>6. ClientOK(c)'
    <2>1. timer'[c] = FALSE /\ ws'[c] = ws[c]
        BY <1>1, <1>2 DEF SocketsOK
    <2>2. asking'[c] => ~Active(c)
        BY <1>1, <1>2 DEF SocketsOK, ClientOK
    <2> QED
        BY <1>1, <1>2, <1>3, <1>5, <2>1, <2>2 DEF ClientOK, Active
<1> QED
    BY <1>1, <1>2, <1>3, <1>4, <1>6, OneClientMoves DEF SocketsOK

LEMMA TicketArrivesStep ==
    ASSUME SocketIInv, NEW c \in Client, TicketArrives(c)
    PROVE  SocketIInv'
<1>1. /\ asking[c] /\ asking' = [asking EXCEPT ![c] = FALSE]
      /\ timer' = timer /\ visit' = visit /\ left' = left
      /\ ws' = IF c \in left THEN ws ELSE [ws EXCEPT ![c] = "connecting"]
    BY DEF TicketArrives, visitVars
<1>2. ClientOK(c) /\ SocketsOK
    BY DEF SocketIInv
<1>3. SocketsOK'
    BY <1>1, <1>2 DEF SocketsOK
<1>4. ~(c > visit) /\ timer[c] = FALSE
    BY <1>1, <1>2 DEF ClientOK, SocketsOK
<1>5. ClientOK(c)'
    <2>1. asking'[c] = FALSE /\ timer'[c] = FALSE
        BY <1>1, <1>2, <1>4 DEF SocketsOK
    <2>2. ws'[c] = IF c \in left THEN ws[c] ELSE "connecting"
        BY <1>1, <1>2 DEF SocketsOK
    <2> QED
        BY <1>1, <1>2, <1>4, <2>1, <2>2 DEF ClientOK, Active
<1> QED
    BY <1>1, <1>2, <1>3, <1>5, OneClientMoves DEF SocketsOK

\* scheduleReconnect sets the timer of a client whose room was not left.
LEMMA ScheduleFacts ==
    ASSUME NEW c \in Client, SocketsOK, ScheduleReconnect(c)
    PROVE  \/ timer' = timer
           \/ timer' = [timer EXCEPT ![c] = TRUE] /\ c \notin left
BY DEF ScheduleReconnect

LEMMA TicketFailsStep ==
    ASSUME SocketIInv, NEW c \in Client, TicketFails(c)
    PROVE  SocketIInv'
<1>1. /\ asking[c] /\ asking' = [asking EXCEPT ![c] = FALSE]
      /\ ws' = ws /\ visit' = visit /\ left' = left /\ ScheduleReconnect(c)
    BY DEF TicketFails, visitVars
<1>2. ClientOK(c) /\ SocketsOK
    BY DEF SocketIInv
<1>3. timer' = timer \/ (timer' = [timer EXCEPT ![c] = TRUE] /\ c \notin left)
    BY <1>1, <1>2, ScheduleFacts
<1>4. SocketsOK'
    BY <1>1, <1>2, <1>3 DEF SocketsOK
<1>5. ~(c > visit) /\ ~Active(c)
    BY <1>1, <1>2 DEF ClientOK
<1>6. ClientOK(c)'
    <2>1. asking'[c] = FALSE /\ ws'[c] = ws[c]
        BY <1>1, <1>2 DEF SocketsOK
    <2>2. timer'[c] => timer[c] \/ c \notin left
        BY <1>3
    <2> QED
        BY <1>1, <1>2, <1>5, <2>1, <2>2 DEF ClientOK, Active
<1> QED
    BY <1>1, <1>2, <1>3, <1>4, <1>6, OneClientMoves DEF SocketsOK

LEMMA OnCloseStep ==
    ASSUME SocketIInv, NEW c \in Client, OnClose(c)
    PROVE  SocketIInv'
<1>1. /\ ws' = [ws EXCEPT ![c] = "none"]
      /\ ws[c] = "closing" \/ (c = visit /\ Active(c))
      /\ asking' = asking /\ visit' = visit /\ left' = left /\ ScheduleReconnect(c)
    BY DEF OnClose, Active, visitVars
<1>2. ClientOK(c) /\ SocketsOK
    BY DEF SocketIInv
<1>3. timer' = timer \/ (timer' = [timer EXCEPT ![c] = TRUE] /\ c \notin left)
    BY <1>1, <1>2, ScheduleFacts
<1>4. SocketsOK'
    BY <1>1, <1>2, <1>3 DEF SocketsOK
<1>5. ~(c > visit) /\ (c \notin left => ~asking[c])
    BY <1>1, <1>2 DEF ClientOK, Active
<1>6. ClientOK(c)'
    <2>1. ws'[c] = "none" /\ asking'[c] = asking[c]
        BY <1>1, <1>2 DEF SocketsOK
    <2>2. timer'[c] => timer[c] \/ c \notin left
        BY <1>3
    <2> QED
        BY <1>1, <1>2, <1>5, <2>1, <2>2 DEF ClientOK, Active
<1> QED
    BY <1>1, <1>2, <1>3, <1>4, <1>6, OneClientMoves DEF SocketsOK

LEMMA OnOpenStep ==
    ASSUME SocketIInv, OnOpen
    PROVE  SocketIInv'
<1>1. /\ ws[visit] = "connecting" /\ ws' = [ws EXCEPT ![visit] = "open"]
      /\ asking' = asking /\ timer' = timer /\ visit' = visit /\ left' = left
    BY DEF OnOpen, visitVars
<1>2. visit \in Client /\ ClientOK(visit) /\ SocketsOK
    BY DEF SocketIInv, VisitsOK
<1>3. SocketsOK'
    BY <1>1, <1>2 DEF SocketsOK
<1>4. ws'[visit] = "open"
    BY <1>1, <1>2 DEF SocketsOK
<1>5. ClientOK(visit)'
    BY <1>1, <1>2, <1>4 DEF ClientOK, Active
<1> QED
    BY <1>1, <1>2, <1>3, <1>5, OneClientMoves DEF SocketsOK

LEMMA LeaveStep ==
    ASSUME SocketIInv, Leave
    PROVE  SocketIInv'
<1>1. /\ visit <= MaxLeaves
      /\ visit' = visit /\ left' = left \cup {visit} /\ asking' = asking
      /\ timer' = [timer EXCEPT ![visit] = FALSE]
      /\ ws' = [ws EXCEPT ![visit] = IF @ = "none" THEN @ ELSE "closing"]
    BY DEF Leave, Disconnect
<1>2. VisitsOK /\ SocketsOK /\ visit \in Client /\ visit \in Nat
    BY ClientIsNat DEF SocketIInv, VisitsOK
<1>3. VisitsOK' /\ SocketsOK'
    BY <1>1, <1>2 DEF VisitsOK, SocketsOK, Client
<1>4. ASSUME NEW c \in Client PROVE ClientOK(c)'
    <2>1. ClientOK(c)
        BY DEF SocketIInv
    <2>2. CASE c = visit
        <3>1. timer'[c] = FALSE /\ ws'[c] \in {"none", "closing"} /\ c \in left'
            BY <1>1, <1>2, <2>2 DEF SocketsOK
        <3>2. ~(c > visit')
            BY <1>1, <1>2, <2>2
        <3> QED
            BY <1>1, <2>2, <3>1, <3>2 DEF ClientOK, Active
    <2>3. CASE c # visit
        <3>1. timer'[c] = timer[c] /\ ws'[c] = ws[c] /\ (c \in left' <=> c \in left)
            BY <1>1, <1>2, <2>3 DEF SocketsOK
        <3> QED
            BY <1>1, <2>1, <3>1 DEF ClientOK, Active
    <2> QED
        BY <2>2, <2>3
<1> QED
    BY <1>3, <1>4 DEF SocketIInv, Client

LEMMA EnterStep ==
    ASSUME SocketIInv, Enter
    PROVE  SocketIInv'
<1>1. /\ visit \in left /\ visit' = visit + 1 /\ left' = left /\ ws' = ws /\ timer' = timer
      /\ asking' = [asking EXCEPT ![visit + 1] = TRUE]
    BY DEF Enter, Open
<1>2. VisitsOK /\ SocketsOK /\ visit \in Nat /\ visit + 1 \in Client
    <2>1. VisitsOK /\ SocketsOK /\ visit \in Nat /\ visit <= MaxLeaves
        BY <1>1, ClientIsNat DEF SocketIInv, VisitsOK
    <2> QED
        BY <2>1, MessagesConstants DEF Client
<1>3. VisitsOK' /\ SocketsOK'
    <2>1. \A c \in left : c \in Nat /\ c <= visit + 1
        BY <1>2, ClientIsNat DEF VisitsOK
    <2> QED
        BY <1>1, <1>2, <2>1 DEF VisitsOK, SocketsOK, Client
<1>4. ASSUME NEW c \in Client PROVE ClientOK(c)'
    <2>1. ClientOK(c) /\ c \in Nat
        BY ClientIsNat DEF SocketIInv
    <2>2. CASE c = visit + 1
        <3>1. c > visit /\ ~(c > visit') /\ c = visit'
            BY <1>1, <1>2, <2>2
        <3>2. c \notin left
            BY <1>2, <2>1, <3>1 DEF VisitsOK
        <3> QED
            BY <1>1, <2>1, <3>1, <3>2 DEF ClientOK, Active
    <2>3. CASE c # visit + 1
        <3>1. asking'[c] = asking[c]
            BY <1>1, <1>2, <2>3 DEF SocketsOK
        <3>2. (c > visit' => c > visit) /\ (c = visit \/ c \in left \/ c > visit')
            BY <1>1, <1>2, <2>1, <2>3 DEF ClientOK
        <3> QED
            BY <1>1, <2>1, <3>1, <3>2 DEF ClientOK, Active
    <2> QED
        BY <2>2, <2>3
<1> QED
    BY <1>3, <1>4 DEF SocketIInv, Client

----------------------------------------------------------------------------

LEMMA SocketStep ==
    ASSUME SocketIInv, MessagesNext PROVE SocketIInv'
<1>1. CASE \E c \in Client : ReconnectTimer(c) \/ TicketArrives(c) \/ TicketFails(c) \/ OnClose(c)
    BY <1>1, TimerStep, TicketArrivesStep, TicketFailsStep, OnCloseStep
<1>2. CASE OnOpen
    BY <1>2, OnOpenStep
<1>3. CASE Visits
    <2>1. CASE Leave
        BY <2>1, LeaveStep
    <2>2. CASE Enter
        BY <2>2, EnterStep
    <2>3. CASE Forget
        BY <2>3, NothingMoves DEF Forget, visitVars, socketVars, clientVars
    <2> QED
        BY <1>3, <2>1, <2>2, <2>3 DEF Visits
<1>4. CASE Upgrade \/ Register \/ ConnectionLost \/ OnMessage
    BY <1>4, NothingMoves DEF Upgrade, Register, ConnectionLost, OnMessage, visitVars, clientVars
<1>5. CASE Server
    BY <1>5, NothingMoves
       DEF Server, Commit, Distribute, Project, visitVars, socketVars, clientVars
<1>6. CASE Requests
    <2>1. CASE \E i \in DOMAIN resyncs : ResyncRead(i) \/ ResyncApply(i) \/ ResyncFails(i)
        BY <2>1, NothingMoves
           DEF ResyncRead, ResyncApply, ResyncFails, visitVars, socketVars, clientVars
    <2>2. CASE FetchRead \/ FetchApply \/ FetchFails
        BY <2>2, NothingMoves
           DEF FetchRead, FetchApply, FetchFails, visitVars, socketVars, clientVars
    <2>3. CASE \E o \in Own : CreateMessage(o)
        BY <2>3, NothingMoves DEF CreateMessage, visitVars, socketVars, clientVars
    <2>4. CASE PostCommits \/ OnSuccess \/ OnError
        BY <2>4, NothingMoves
           DEF PostCommits, OnSuccess, OnError, visitVars, socketVars, clientVars
    <2> QED
        BY <1>6, <2>1, <2>2, <2>3, <2>4 DEF Requests
<1> QED
    BY <1>1, <1>2, <1>3, <1>4, <1>5, <1>6 DEF MessagesNext, Socket

\* The inductive invariant of the clients.
THEOREM SocketInvariant == MessagesSpec => []SocketIInv
<1>1. SocketIInv /\ [MessagesNext]_pageVars => SocketIInv'
    <2>1. SocketIInv /\ UNCHANGED pageVars => SocketIInv'
        BY NothingMoves DEF pageVars, visitVars, socketVars, clientVars
    <2> QED
        BY <2>1, SocketStep
<1> QED
    BY SocketInit, <1>1, PTL DEF MessagesSpec

\* However often the room is left and opened again, and whatever fails when, a client
\* has one attempt at a time, and none once its room was left (WsClient.openSocket's
\* look at intentionalClose after its await).
THEOREM OneAttemptAtATime == MessagesSpec => []OneAttempt
BY SocketInvariant, InvImpliesOneAttempt, PTL

----------------------------------------------------------------------------
(* Sorting, and taking some places of a list *)

\* How many keys are below that of x: different for every x, and below the number of
\* elements, so that every place of Ascending(S, key) has its element.
LEMMA Ranks ==
    ASSUME NEW S, IsFiniteSet(S), NEW key \in [S -> Int],
           \A x, y \in S : key[x] = key[y] => x = y
    PROVE  /\ Cardinality(S) \in Nat
           /\ \A x \in S : Rank(S, key, x) \in 0 .. Cardinality(S) - 1
           /\ \A x, y \in S : Rank(S, key, x) < Rank(S, key, y) <=> key[x] < key[y]
           /\ \A x, y \in S : Rank(S, key, x) = Rank(S, key, y) => x = y
           /\ \A k \in 0 .. Cardinality(S) - 1 : \E x \in S : Rank(S, key, x) = k
<1> DEFINE Below(x) == {y \in S : key[y] < key[x]}
<1>1. Cardinality(S) \in Nat
    BY FS_CardinalityType
<1>2. ASSUME NEW x \in S
      PROVE  IsFiniteSet(Below(x)) /\ Rank(S, key, x) \in 0 .. Cardinality(S) - 1
    <2>1. Below(x) \in SUBSET S /\ x \notin Below(x)
        OBVIOUS
    <2>2. /\ IsFiniteSet(Below(x)) /\ Cardinality(Below(x)) <= Cardinality(S)
          /\ Cardinality(S) # Cardinality(Below(x))
        BY <2>1, FS_Subset
    <2>3. Cardinality(Below(x)) \in Nat
        BY <2>2, FS_CardinalityType
    <2>4. Rank(S, key, x) = Cardinality(Below(x))
        BY DEF Rank
    <2> QED
        BY <1>1, <2>2, <2>3, <2>4
<1>3. ASSUME NEW x \in S, NEW y \in S, key[x] < key[y]
      PROVE  Rank(S, key, x) < Rank(S, key, y)
    <2>1. Below(x) \in SUBSET Below(y)
        BY <1>3
    <2>2. x \in Below(y) /\ x \notin Below(x)
        BY <1>3
    <2>3. IsFiniteSet(Below(y))
        BY <1>2
    <2>4. Cardinality(Below(x)) <= Cardinality(Below(y))
          /\ Cardinality(Below(y)) # Cardinality(Below(x))
        BY <2>1, <2>2, <2>3, FS_Subset
    <2>5. Rank(S, key, x) = Cardinality(Below(x)) /\ Rank(S, key, y) = Cardinality(Below(y))
        BY DEF Rank
    <2> HIDE DEF Below
    <2>6. Rank(S, key, x) \in 0 .. Cardinality(S) - 1 /\ Rank(S, key, y) \in 0 .. Cardinality(S) - 1
        BY <1>2
    <2> QED
        BY <1>1, <2>4, <2>5, <2>6
<1> HIDE DEF Below
<1>4. \A x \in S : Rank(S, key, x) \in 0 .. Cardinality(S) - 1
    BY <1>2
<1>5. ASSUME NEW x \in S, NEW y \in S
      PROVE  /\ Rank(S, key, x) < Rank(S, key, y) <=> key[x] < key[y]
             /\ Rank(S, key, x) = Rank(S, key, y) => x = y
    <2>1. CASE key[x] < key[y]
        BY <1>1, <1>3, <1>4, <2>1
    <2>2. CASE key[y] < key[x]
        BY <1>1, <1>3, <1>4, <2>2
    <2>3. CASE key[x] = key[y]
        BY <1>1, <1>4, <2>3
    <2> QED
        BY <2>1, <2>2, <2>3
<1>6. PICK rank : rank = [x \in S |-> Rank(S, key, x)]
    OBVIOUS
<1>7. rank \in Injection(S, 0 .. Cardinality(S) - 1)
    BY <1>4, <1>5, <1>6 DEF Injection, IsInjective
<1>8. IsFiniteSet(0 .. Cardinality(S) - 1) /\ Cardinality(0 .. Cardinality(S) - 1) = Cardinality(S)
    <2>1. 0 \in Int /\ Cardinality(S) - 1 \in Int
        BY <1>1
    <2> QED
        BY <1>1, <2>1, FS_Interval
<1>9. rank \in Surjection(S, 0 .. Cardinality(S) - 1)
    BY <1>7, <1>8, FS_Injection
<1> QED
    BY <1>1, <1>4, <1>5, <1>6, <1>9 DEF Surjection

LEMMA AscendingFacts ==
    ASSUME NEW S, IsFiniteSet(S), NEW key \in [S -> Int],
           \A x, y \in S : key[x] = key[y] => x = y,
           NEW s, s = Ascending(S, key)
    PROVE  /\ Cardinality(S) \in Nat /\ DOMAIN s = 1 .. Cardinality(S)
           /\ s \in Seq(S) /\ Len(s) = Cardinality(S)
           /\ \A i, j \in DOMAIN s : i < j => key[s[i]] < key[s[j]]
           /\ \A x \in S : \E i \in DOMAIN s : s[i] = x
<1>1. /\ Cardinality(S) \in Nat
      /\ \A x \in S : Rank(S, key, x) \in 0 .. Cardinality(S) - 1
      /\ \A x, y \in S : Rank(S, key, x) < Rank(S, key, y) <=> key[x] < key[y]
      /\ \A x, y \in S : Rank(S, key, x) = Rank(S, key, y) => x = y
      /\ \A k \in 0 .. Cardinality(S) - 1 : \E x \in S : Rank(S, key, x) = k
    BY Ranks
<1>2. PICK n : n = Cardinality(S)
    OBVIOUS
<1>3. DOMAIN s = 1 .. n /\ \A k \in 1 .. n : s[k] \in S /\ Rank(S, key, s[k]) = k - 1
    BY <1>1, <1>2 DEF Ascending
<1>4. s = [k \in 1 .. n |-> s[k]]
    BY <1>2 DEF Ascending
<1>5. s \in Seq(S) /\ Len(s) = n
    BY <1>1, <1>2, <1>3, <1>4
<1>6. ASSUME NEW i \in 1 .. n, NEW j \in 1 .. n, i < j PROVE key[s[i]] < key[s[j]]
    BY <1>1, <1>3, <1>6
<1>7. ASSUME NEW x \in S PROVE \E i \in 1 .. n : s[i] = x
    <2>1. Rank(S, key, x) + 1 \in 1 .. n /\ Rank(S, key, x) = (Rank(S, key, x) + 1) - 1
        BY <1>1, <1>2
    <2> QED
        BY <1>1, <1>3, <2>1
<1> QED
    BY <1>1, <1>2, <1>3, <1>5, <1>6, <1>7

\* Kept(l, I) is l at the places in I, in their order.
LEMMA KeptFacts ==
    ASSUME NEW T, NEW l \in Seq(T), NEW I \in SUBSET DOMAIN l
    PROVE  \E place :
              /\ Kept(l, I) \in Seq(T)
              /\ place \in [DOMAIN Kept(l, I) -> I]
              /\ \A k \in DOMAIN Kept(l, I) : Kept(l, I)[k] = l[place[k]]
              /\ \A j, k \in DOMAIN Kept(l, I) : j < k => place[j] < place[k]
              /\ \A j, k \in DOMAIN Kept(l, I) : place[j] = place[k] => j = k
              /\ \A i \in I : \E k \in DOMAIN Kept(l, I) : place[k] = i
<1>1. Len(l) \in Nat /\ DOMAIN l = 1 .. Len(l)
    OBVIOUS
<1>2. IsFiniteSet(I)
    <2>1. IsFiniteSet(1 .. Len(l))
        BY <1>1, FS_Interval
    <2> QED
        BY <1>1, <2>1, FS_Subset
<1>3. PICK key : key = [i \in I |-> i]
    OBVIOUS
<1>4. key \in [I -> Int] /\ \A x, y \in I : key[x] = key[y] => x = y
    BY <1>1, <1>3
<1>5. PICK place : place = Ascending(I, key)
    OBVIOUS
<1>6. /\ Cardinality(I) \in Nat /\ DOMAIN place = 1 .. Cardinality(I)
      /\ place \in Seq(I) /\ Len(place) = Cardinality(I)
      /\ \A i, j \in DOMAIN place : i < j => key[place[i]] < key[place[j]]
      /\ \A x \in I : \E i \in DOMAIN place : place[i] = x
    BY <1>2, <1>4, <1>5, AscendingFacts
<1>7. Kept(l, I) = [k \in DOMAIN place |-> l[place[k]]]
    BY <1>3, <1>5 DEF Kept
<1> HIDE DEF Kept
<1>8. \A k \in DOMAIN place : place[k] \in I /\ l[place[k]] \in T
    BY <1>1, <1>6
<1>9. Kept(l, I) \in Seq(T) /\ DOMAIN Kept(l, I) = DOMAIN place
    <2>1. PICK n \in Nat : n = Cardinality(I)
        BY <1>6
    <2>2. Kept(l, I) = [k \in 1 .. n |-> l[place[k]]]
        BY <1>6, <1>7, <2>1
    <2>3. DOMAIN place = 1 .. n /\ \A k \in 1 .. n : l[place[k]] \in T
        BY <1>6, <1>8, <2>1
    <2>4. [k \in 1 .. n |-> l[place[k]]] \in Seq(T)
        BY <2>3
    <2> QED
        BY <2>2, <2>3, <2>4
<1>10. \A j, k \in DOMAIN place : j < k => place[j] < place[k]
    BY <1>3, <1>6, <1>8
<1>11. \A j, k \in DOMAIN place : place[j] = place[k] => j = k
    BY <1>1, <1>6, <1>8, <1>10
<1>12. place \in [DOMAIN place -> I]
    BY <1>6, <1>8
<1> QED
    BY <1>6, <1>7, <1>8, <1>9, <1>10, <1>11, <1>12

----------------------------------------------------------------------------
(* Lists of messages *)

Entries == [id : Msg, edited : BOOLEAN, at : Nat]

IdsOnce(l) == \A i, j \in DOMAIN l : l[i].id = l[j].id => i = j

\* A list of messages of K, none of them twice.
Page(l, K) ==
    /\ l \in Seq(Entries) /\ IdsOnce(l)
    /\ \A i \in DOMAIN l : l[i].id \in K

LEMMA EntryFacts ==
    ASSUME NEW id \in Msg, NEW edited \in BOOLEAN, NEW at \in Nat
    PROVE  /\ Entry(id, edited, at) \in Entries
           /\ Entry(id, edited, at).id = id /\ Entry(id, edited, at).at = at
           /\ Entry(id, edited, at).edited = edited
BY DEF Entry, Entries

LEMMA OldestFirstFacts ==
    ASSUME NEW S \in SUBSET Entries, IsFiniteSet(S),
           \A x, y \in S : x.at = y.at => x = y
    PROVE  /\ OldestFirst(S) \in Seq(S)
           /\ \A i, j \in DOMAIN OldestFirst(S) : i < j => OldestFirst(S)[i].at < OldestFirst(S)[j].at
           /\ \A x \in S : \E i \in DOMAIN OldestFirst(S) : OldestFirst(S)[i] = x
<1>1. PICK key : key = [e \in S |-> e.at]
    OBVIOUS
<1>2. key \in [S -> Int] /\ \A x, y \in S : key[x] = key[y] => x = y
    BY <1>1 DEF Entries
<1>3. PICK s : s = Ascending(S, key)
    OBVIOUS
<1>4. OldestFirst(S) = s
    BY <1>1, <1>3 DEF OldestFirst
<1>5. /\ s \in Seq(S)
      /\ \A i, j \in DOMAIN s : i < j => key[s[i]] < key[s[j]]
      /\ \A x \in S : \E i \in DOMAIN s : s[i] = x
    BY <1>2, <1>3, AscendingFacts
<1>6. \A i \in DOMAIN s : s[i] \in S
    BY <1>5
<1> QED
    BY <1>1, <1>4, <1>5, <1>6

LEMMA NewestFirstFacts ==
    ASSUME NEW S \in SUBSET Entries, IsFiniteSet(S),
           \A x, y \in S : x.at = y.at => x = y
    PROVE  /\ NewestFirst(S) \in Seq(S)
           /\ \A i, j \in DOMAIN NewestFirst(S) : i < j => NewestFirst(S)[j].at < NewestFirst(S)[i].at
           /\ \A x \in S : \E i \in DOMAIN NewestFirst(S) : NewestFirst(S)[i] = x
<1>1. PICK s : s = OldestFirst(S)
    OBVIOUS
<1>2. /\ s \in Seq(S)
      /\ \A i, j \in DOMAIN s : i < j => s[i].at < s[j].at
      /\ \A x \in S : \E i \in DOMAIN s : s[i] = x
    BY <1>1, OldestFirstFacts
<1>3. PICK n \in Nat : n = Len(s) /\ DOMAIN s = 1 .. n
    BY <1>2
<1>4. PICK r : r = [i \in 1 .. n |-> s[(n - i) + 1]]
    OBVIOUS
<1>5. NewestFirst(S) = r
    BY <1>1, <1>3, <1>4 DEF NewestFirst, Reverse
<1>6. \A i \in 1 .. n : (n - i) + 1 \in 1 .. n /\ r[i] = s[(n - i) + 1]
    BY <1>3, <1>4
<1>7. \A i \in 1 .. n : r[i] \in S
    BY <1>2, <1>3, <1>6
<1>8. r \in Seq(S) /\ DOMAIN r = 1 .. n
    BY <1>4, <1>7
<1>9. ASSUME NEW i \in 1 .. n, NEW j \in 1 .. n, i < j PROVE r[j].at < r[i].at
    <2>1. (n - j) + 1 < (n - i) + 1
        BY <1>9
    <2>2. s[(n - j) + 1].at < s[(n - i) + 1].at
        BY <1>2, <1>3, <1>6, <2>1
    <2> QED
        BY <1>6, <2>2
<1>10. ASSUME NEW x \in S PROVE \E i \in 1 .. n : r[i] = x
    <2>1. PICK k \in 1 .. n : s[k] = x
        BY <1>2, <1>3
    <2>2. (n - k) + 1 \in 1 .. n /\ (n - ((n - k) + 1)) + 1 = k
        BY <1>3
    <2> QED
        BY <1>6, <2>1, <2>2
<1> QED
    BY <1>5, <1>8, <1>9, <1>10

\* A list sorted by time of messages with different ids shows none of them twice.
LEMMA SortedPage ==
    ASSUME NEW S \in SUBSET Entries, NEW l \in Seq(S), NEW K,
           \A x, y \in S : x.id = y.id => x = y,
           \A x \in S : x.id \in K,
           \/ \A i, j \in DOMAIN l : i < j => l[i].at < l[j].at
           \/ \A i, j \in DOMAIN l : i < j => l[j].at < l[i].at
    PROVE  Page(l, K)
<1>1. \A i \in DOMAIN l : l[i] \in S /\ l[i].at \in Nat /\ i \in Nat
    BY DEF Entries
<1>2. l \in Seq(Entries)
    <2>1. PICK n \in Nat : n = Len(l) /\ DOMAIN l = 1 .. n
        OBVIOUS
    <2>2. \A i \in 1 .. n : l[i] \in Entries
        BY <1>1, <2>1
    <2>3. [i \in 1 .. n |-> l[i]] \in Seq(Entries)
        BY <2>2
    <2>4. l = [i \in 1 .. n |-> l[i]]
        BY <2>1
    <2> QED
        BY <2>3, <2>4
<1>3. ASSUME NEW i \in DOMAIN l, NEW j \in DOMAIN l, l[i].id = l[j].id PROVE i = j
    <2>1. l[i].at = l[j].at
        BY <1>1, <1>3
    <2>2. ~(i < j) /\ ~(j < i)
        BY <1>1, <2>1
    <2> QED
        BY <1>1, <2>2
<1> QED
    BY <1>1, <1>2, <1>3 DEF Page, IdsOnce

\* The messages of a page at some of its places make a page.
LEMMA KeptPage ==
    ASSUME NEW K, NEW l, Page(l, K), NEW I \in SUBSET DOMAIN l
    PROVE  /\ Page(Kept(l, I), K)
           /\ \A k \in DOMAIN Kept(l, I) : \E i \in I : Kept(l, I)[k] = l[i]
           /\ \A i \in I : \E k \in DOMAIN Kept(l, I) : Kept(l, I)[k] = l[i]
           /\ \A j, k \in DOMAIN Kept(l, I) : j < k =>
                 \E a, b \in I : a < b /\ Kept(l, I)[j] = l[a] /\ Kept(l, I)[k] = l[b]
<1>1. l \in Seq(Entries)
    BY DEF Page
<1>2. PICK place :
              /\ Kept(l, I) \in Seq(Entries)
              /\ place \in [DOMAIN Kept(l, I) -> I]
              /\ \A k \in DOMAIN Kept(l, I) : Kept(l, I)[k] = l[place[k]]
              /\ \A j, k \in DOMAIN Kept(l, I) : j < k => place[j] < place[k]
              /\ \A j, k \in DOMAIN Kept(l, I) : place[j] = place[k] => j = k
              /\ \A i \in I : \E k \in DOMAIN Kept(l, I) : place[k] = i
    BY <1>1, KeptFacts
<1>3. \A k \in DOMAIN Kept(l, I) : place[k] \in DOMAIN l /\ place[k] \in I
    BY <1>2
<1>4. IdsOnce(Kept(l, I))
    BY <1>2, <1>3 DEF Page, IdsOnce
<1> QED
    BY <1>2, <1>3, <1>4 DEF Page

\* Two pages without a message in common make a page.
LEMMA JoinedPage ==
    ASSUME NEW K, NEW l, NEW m, Page(l, K), Page(m, K),
           \A i \in DOMAIN l : \A j \in DOMAIN m : l[i].id # m[j].id
    PROVE  Page(l \o m, K)
<1>1. l \in Seq(Entries) /\ m \in Seq(Entries) /\ l \o m \in Seq(Entries)
    BY DEF Page
<1>2. /\ DOMAIN (l \o m) = 1 .. Len(l) + Len(m)
      /\ DOMAIN l = 1 .. Len(l) /\ DOMAIN m = 1 .. Len(m) /\ Len(l) \in Nat /\ Len(m) \in Nat
    BY <1>1
<1>3. \A i \in DOMAIN (l \o m) :
         \/ i \in DOMAIN l /\ (l \o m)[i] = l[i]
         \/ i > Len(l) /\ i - Len(l) \in DOMAIN m /\ (l \o m)[i] = m[i - Len(l)]
    BY <1>1, <1>2
<1>4. \A i \in DOMAIN (l \o m) : (l \o m)[i].id \in K
    BY <1>3 DEF Page
<1>5. ASSUME NEW i \in DOMAIN (l \o m), NEW j \in DOMAIN (l \o m),
             (l \o m)[i].id = (l \o m)[j].id
      PROVE  i = j
    <2>1. CASE i \in DOMAIN l /\ j \in DOMAIN l
        <3>1. ~(i > Len(l)) /\ ~(j > Len(l))
            BY <1>2, <2>1
        <3>2. l[i].id = l[j].id
            BY <1>3, <1>5, <3>1
        <3> QED
            BY <2>1, <3>2 DEF Page, IdsOnce
    <2>2. CASE i \notin DOMAIN l /\ j \notin DOMAIN l
        <3>1. m[i - Len(l)].id = m[j - Len(l)].id /\ i - Len(l) \in DOMAIN m /\ j - Len(l) \in DOMAIN m
            BY <1>3, <1>5, <2>2
        <3>2. i - Len(l) = j - Len(l)
            BY <3>1 DEF Page, IdsOnce
        <3> QED
            BY <1>2, <3>2
    <2>3. CASE (i \in DOMAIN l /\ j \notin DOMAIN l) \/ (i \notin DOMAIN l /\ j \in DOMAIN l)
        <3>1. \A k \in DOMAIN l : (l \o m)[k] = l[k]
            BY <1>1, <1>2
        <3> QED
            BY <1>3, <1>5, <2>3, <3>1
    <2> QED
        BY <2>1, <2>2, <2>3
<1> QED
    BY <1>1, <1>4, <1>5 DEF Page, IdsOnce

\* Without(l, id) loses the message id, and nothing else.
LEMMA WithoutFacts ==
    ASSUME NEW K, NEW l, Page(l, K), NEW id
    PROVE  /\ Page(Without(l, id), K)
           /\ \A k \in DOMAIN Without(l, id) :
                 Without(l, id)[k].id # id /\ \E i \in DOMAIN l : Without(l, id)[k] = l[i]
           /\ \A i \in DOMAIN l : l[i].id # id =>
                 \E k \in DOMAIN Without(l, id) : Without(l, id)[k] = l[i]
           /\ \A j, k \in DOMAIN Without(l, id) : j < k =>
                 \E a, b \in DOMAIN l :
                    a < b /\ Without(l, id)[j] = l[a] /\ Without(l, id)[k] = l[b]
<1>1. PICK I : I = {i \in DOMAIN l : l[i].id # id}
    OBVIOUS
<1>2. Without(l, id) = Kept(l, I)
    BY <1>1 DEF Without
<1>3. I \in SUBSET DOMAIN l /\ \A i \in DOMAIN l : i \in I <=> l[i].id # id
    BY <1>1
<1>4. /\ Page(Kept(l, I), K)
      /\ \A k \in DOMAIN Kept(l, I) : \E i \in I : Kept(l, I)[k] = l[i]
      /\ \A i \in I : \E k \in DOMAIN Kept(l, I) : Kept(l, I)[k] = l[i]
      /\ \A j, k \in DOMAIN Kept(l, I) : j < k =>
            \E a, b \in I : a < b /\ Kept(l, I)[j] = l[a] /\ Kept(l, I)[k] = l[b]
    BY <1>3, KeptPage
<1> QED
    BY <1>2, <1>3, <1>4

\* Missing(page, l) has the messages of page that l does not have.
LEMMA MissingFacts ==
    ASSUME NEW K, NEW page, Page(page, K), NEW l
    PROVE  /\ Page(Missing(page, l), K)
           /\ \A k \in DOMAIN Missing(page, l) :
                 /\ \E i \in DOMAIN page : Missing(page, l)[k] = page[i]
                 /\ \A j \in DOMAIN l : l[j].id # Missing(page, l)[k].id
<1>1. PICK I : I = {i \in DOMAIN page : \A j \in DOMAIN l : l[j].id # page[i].id}
    OBVIOUS
<1>2. Missing(page, l) = Kept(page, I)
    BY <1>1 DEF Missing
<1>3. /\ I \in SUBSET DOMAIN page
      /\ \A i \in I : \A j \in DOMAIN l : l[j].id # page[i].id
    BY <1>1
<1>4. /\ Page(Kept(page, I), K)
      /\ \A k \in DOMAIN Kept(page, I) : \E i \in I : Kept(page, I)[k] = page[i]
    BY <1>3, KeptPage
<1> QED
    BY <1>2, <1>3, <1>4

LEMMA SinglePage ==
    ASSUME NEW m \in Entries, NEW K, m.id \in K
    PROVE  Page(<<m>>, K) /\ DOMAIN <<m>> = {1} /\ <<m>>[1] = m
BY DEF Page, IdsOnce

LEMMA FrontPage ==
    ASSUME NEW m \in Entries, NEW K, m.id \in K, NEW l, Page(l, K),
           \A i \in DOMAIN l : l[i].id # m.id
    PROVE  Page(<<m>> \o l, K)
<1>1. Page(<<m>>, K) /\ \A i \in DOMAIN <<m>> : <<m>>[i] = m
    BY SinglePage
<1>2. \A i \in DOMAIN <<m>> : \A j \in DOMAIN l : <<m>>[i].id # l[j].id
    BY <1>1
<1> QED
    BY <1>1, <1>2, JoinedPage, Zenon

LEMMA GrowingPage ==
    ASSUME NEW K, NEW L, K \subseteq L, NEW l, Page(l, K)
    PROVE  Page(l, L)
BY DEF Page

\* handleWsMessage keeps a page a page.
LEMMA HandledPage ==
    ASSUME NEW K \in SUBSET Msg, NEW l, l = None \/ Page(l, K),
           NEW ev, ev.type \in {"new", "updated", "deleted"}, ev.id \in K, NEW at \in Nat
    PROVE  /\ Handled(l, ev, at) = None \/ Page(Handled(l, ev, at), K)
           /\ l # None => Page(Handled(l, ev, at), K)
<1>1. PICK m : m = Entry(ev.id, FALSE, at)
    OBVIOUS
<1>2. m \in Entries /\ m.id = ev.id
    BY <1>1, EntryFacts
<1>3. CASE l = None
    <2>1. Handled(l, ev, at) = IF ev.type = "new" THEN <<m>> ELSE None
        BY <1>1, <1>3 DEF Handled
    <2> QED
        BY <1>2, <1>3, <2>1, SinglePage
<1>4. CASE l # None /\ ev.type = "new"
    <2>1. Handled(l, ev, at) = <<m>> \o Without(l, ev.id)
        BY <1>1, <1>4 DEF Handled
    <2>2. /\ Page(Without(l, ev.id), K)
          /\ \A k \in DOMAIN Without(l, ev.id) : Without(l, ev.id)[k].id # ev.id
        BY <1>4, WithoutFacts
    <2>3. Page(<<m>> \o Without(l, ev.id), K)
        BY <1>2, <2>2, FrontPage
    <2> QED
        BY <2>1, <2>3
<1>5. CASE l # None /\ ev.type = "updated"
    <2>1. PICK r : r = [i \in DOMAIN l |->
                          IF l[i].id = ev.id THEN Entry(ev.id, TRUE, at) ELSE l[i]]
        OBVIOUS
    <2>2. Handled(l, ev, at) = r
        BY <1>5, <2>1 DEF Handled
    <2>3. Page(l, K) /\ l \in Seq(Entries)
        BY <1>5 DEF Page
    <2>4. Entry(ev.id, TRUE, at) \in Entries /\ Entry(ev.id, TRUE, at).id = ev.id
        BY EntryFacts
    <2>5. ASSUME NEW i \in DOMAIN l PROVE r[i] \in Entries /\ r[i].id = l[i].id
        <3>1. l[i] \in Entries
            BY <2>3
        <3>2. CASE l[i].id = ev.id
            BY <2>1, <2>4, <3>2, Zenon
        <3>3. CASE l[i].id # ev.id
            BY <2>1, <3>1, <3>3, Zenon
        <3> QED
            BY <3>2, <3>3
    <2>6. PICK n \in Nat : DOMAIN l = 1 .. n
        BY <2>3
    <2>7. DOMAIN r = 1 .. n /\ r \in Seq(Entries)
        <3>1. r = [i \in 1 .. n |-> r[i]]
            BY <2>1, <2>6
        <3>2. [i \in 1 .. n |-> r[i]] \in Seq(Entries)
            BY <2>5, <2>6
        <3> QED
            BY <2>1, <2>6, <3>1, <3>2
    <2>8. Page(r, K)
        BY <2>3, <2>5, <2>6, <2>7 DEF Page, IdsOnce
    <2> QED
        BY <2>2, <2>8
<1>6. CASE l # None /\ ev.type = "deleted"
    <2>1. Handled(l, ev, at) = Without(l, ev.id)
        BY <1>6 DEF Handled
    <2> QED
        BY <1>6, <2>1, WithoutFacts
<1> QED
    BY <1>3, <1>4, <1>5, <1>6

----------------------------------------------------------------------------
(* The room's history *)

Events == [type : {"new", "updated", "deleted"}, id : Msg]

Event(type, id) == [type |-> type, id |-> id]

\* The ids that have been used.
Known == Others \cup used

\* No event happens twice, and those of a message come between its creation and its
\* deletion.
HistoryOK ==
    /\ source \in Seq(Events) /\ used \subseteq Own
    /\ sent \in 0 .. Len(source) /\ projected \in 0 .. Len(source)
    /\ \A i, j \in DOMAIN source : source[i] = source[j] => i = j
    /\ \A i \in DOMAIN source :
          /\ source[i].id \in Known
          /\ source[i].type # "new" =>
                \E j \in DOMAIN source : j < i /\ source[j] = Event("new", source[i].id)
    /\ \A i, j \in DOMAIN source :
          source[i].type = "deleted" /\ source[j].id = source[i].id => j <= i

LEMMA EventFacts ==
    /\ \A ev \in Events : ev = Event(ev.type, ev.id) /\ ev.type \in {"new", "updated", "deleted"} /\ ev.id \in Msg
    /\ \A type \in {"new", "updated", "deleted"}, id \in Msg : Event(type, id) \in Events
    /\ \A type, id : Event(type, id).type = type /\ Event(type, id).id = id
BY DEF Events, Event

LEMMA HistoryFacts ==
    ASSUME HistoryOK
    PROVE  /\ Len(source) \in Nat /\ DOMAIN source = 1 .. Len(source)
           /\ sent \in Nat /\ projected \in Nat /\ Known \subseteq Msg
           /\ \A i \in DOMAIN source : source[i] \in Events /\ i \in Nat
BY DEF HistoryOK, Known, Msg

\* What the first p events leave: every message once, each with a time of its own.
LEMMA LiveFacts ==
    ASSUME HistoryOK, NEW p \in 0 .. Len(source)
    PROVE  /\ Live(p) \in SUBSET Entries /\ IsFiniteSet(Live(p))
           /\ \A x, y \in Live(p) : x.at = y.at => x = y
           /\ \A x, y \in Live(p) : x.id = y.id => x = y
           /\ \A x \in Live(p) : x.id \in Known /\ Committed("new", x.id)
<1> DEFINE Has(type, id) == \E i \in 1..p : source[i] = [type |-> type, id |-> id]
           New == {i \in 1..p : source[i].type = "new" /\ ~Has("deleted", source[i].id)}
           E(i) == Entry(source[i].id, Has("updated", source[i].id), At(i))
<1>1. Live(p) = {E(i) : i \in New}
    BY DEF Live
<1>2. \A i \in 1 .. p : i \in DOMAIN source /\ i \in Nat
    BY HistoryFacts
<1>3. ASSUME NEW i \in New
      PROVE  /\ E(i) \in Entries /\ E(i).id = source[i].id /\ E(i).at = At(i)
             /\ E(i).id \in Known /\ source[i] = Event("new", E(i).id)
    <2>1. i \in 1 .. p /\ source[i].type = "new"
        OBVIOUS
    <2> HIDE DEF New
    <2>2. At(i) \in Nat /\ source[i].id \in Msg /\ Has("updated", source[i].id) \in BOOLEAN
        BY <1>2, <2>1, HistoryFacts, EventFacts DEF At
    <2> HIDE DEF Has
    <2>3. E(i) \in Entries /\ E(i).id = source[i].id /\ E(i).at = At(i)
        BY <2>2, EntryFacts
    <2> QED
        BY <1>2, <2>1, <2>3, HistoryFacts, EventFacts DEF HistoryOK
<1>4. \A i \in New : i \in 1 .. p
    OBVIOUS
<1> HIDE DEF E, New
<1>5. \A x \in Live(p) : \E i \in New : x = E(i)
    BY <1>1
<1>6. Live(p) \in SUBSET Entries
    BY <1>3, <1>5
<1>7. IsFiniteSet(Live(p))
    <2>1. PICK f : f = [i \in New |-> E(i)]
        OBVIOUS
    <2>2. f \in Surjection(New, Live(p))
        BY <1>1, <2>1 DEF Surjection
    <2>3. p \in Int /\ IsFiniteSet(1 .. p)
        BY HistoryFacts, FS_Interval
    <2>4. IsFiniteSet(New)
        BY <1>4, <2>3, FS_Subset
    <2> QED
        BY <2>2, <2>4, FS_Surjection
<1>8. ASSUME NEW i \in New, NEW j \in New, E(i).at = E(j).at \/ E(i).id = E(j).id
      PROVE  E(i) = E(j)
    <2>1. i \in DOMAIN source /\ j \in DOMAIN source /\ i \in Nat /\ j \in Nat
        BY <1>2, <1>4
    <2>2. At(i) = At(j) => i = j
        BY <2>1 DEF At
    <2>3. source[i] = source[j] => i = j
        BY <2>1 DEF HistoryOK
    <2> QED
        BY <1>3, <1>8, <2>2, <2>3
<1>9. \A x \in Live(p) : x.id \in Known /\ Committed("new", x.id)
    BY <1>2, <1>3, <1>4, <1>5 DEF Committed, Event
<1> QED
    BY <1>5, <1>6, <1>7, <1>8, <1>9

----------------------------------------------------------------------------
(* The invariant of the lists *)

WireOK ==
    /\ wire \in Seq(Events)
    /\ \A i \in DOMAIN wire : \E j \in DOMAIN source : wire[i] = source[j]

ListOK ==
    /\ list = None \/ Page(list, Known)
    /\ cursor \in Nat \cup {None}

FetchOK ==
    /\ fetch.pc \in {"none", "asked", "read"}
    /\ Page(fetch.page, Known)

ResyncRequest == [pc : {"asked", "read"}, after : Nat, page : Seq(Entries)]

ResyncsOK ==
    /\ resyncs \in Seq(ResyncRequest)
    /\ \A i \in DOMAIN resyncs : Page(resyncs[i].page, Known)

\* An own message is new to the server until it is committed.
MutationOK ==
    /\ mutation \in [pc : {"none", "posting", "stored"}, id : {mutation.id},
                     previous : {mutation.previous}]
    /\ mutation.previous = None \/ Page(mutation.previous, Known)
    /\ mutation.pc # "none" => mutation.id \in used
    /\ mutation.pc = "posting" => ~Committed("new", mutation.id)

ListIInv == HistoryOK /\ WireOK /\ ListOK /\ FetchOK /\ ResyncsOK /\ MutationOK

LEMMA InvImpliesShownOnce == ListIInv => ShownOnce
BY DEF ListIInv, ListOK, Page, IdsOnce, ShownOnce

LEMMA EmptyPage == \A K : Page(<<>>, K)
BY DEF Page, IdsOnce

LEMMA ListInit == MessagesInit => ListIInv
<1> SUFFICES ASSUME MessagesInit PROVE ListIInv
    OBVIOUS
<1>1. HistoryOK /\ WireOK
    BY DEF MessagesInit, HistoryOK, WireOK
<1>2. ListOK /\ FetchOK /\ ResyncsOK
    BY EmptyPage DEF MessagesInit, ListOK, FetchOK, ResyncsOK
<1>3. MutationOK
    BY DEF MessagesInit, MutationOK, NoMutation
<1> QED
    BY <1>1, <1>2, <1>3 DEF ListIInv

\* created_at of a message is the time of its creation.
LEMMA CreatedAtFacts ==
    ASSUME HistoryOK, NEW i \in DOMAIN source, NEW id, source[i] = Event("new", id)
    PROVE  CreatedAt(id) = At(i) /\ CreatedAt(id) \in Nat
<1>1. \A j \in DOMAIN source : source[j] = Event("new", id) <=> j = i
    BY DEF HistoryOK
<1>2. PICK j : j = CHOOSE k \in DOMAIN source : source[k] = [type |-> "new", id |-> id]
    OBVIOUS
<1>3. j = i
    BY <1>1, <1>2 DEF Event
<1>4. CreatedAt(id) = At(j)
    BY <1>2, Zenon DEF CreatedAt
<1> QED
    BY <1>3, <1>4, HistoryFacts DEF At

\* What is written to the list, and the cursor with it.
LEMMA SetListStep ==
    ASSUME ListOK, NEW l, l = None \/ Page(l, Known'), SetList(l)
    PROVE  ListOK'
<1>1. list' = l /\ cursor' = IF l \in {None, <<>>} THEN cursor ELSE l[1].at
    BY DEF SetList
<1>2. CASE l \in {None, <<>>}
    BY <1>1, <1>2 DEF ListOK
<1>3. CASE l \notin {None, <<>>}
    <2>1. l \in Seq(Entries) /\ l # <<>>
        BY <1>3 DEF Page
    <2>2. l[1] \in Entries
        BY <2>1
    <2>3. l[1].at \in Nat
        BY <2>2 DEF Entries
    <2> QED
        BY <1>1, <1>3, <2>3 DEF ListOK
<1> QED
    BY <1>2, <1>3

\* One more event, which has not happened before.
LEMMA HistoryGrows ==
    ASSUME HistoryOK, NEW ev \in Events, source' = Append(source, ev),
           sent' = sent, projected' = projected, used' = used,
           ev.id \in Known, ~Committed(ev.type, ev.id), ~Committed("deleted", ev.id),
           ev.type # "new" => Committed("new", ev.id)
    PROVE  HistoryOK'
<1>1. PICK n \in Nat : n = Len(source) /\ DOMAIN source = 1 .. n /\ source \in Seq(Events)
    BY HistoryFacts DEF HistoryOK
<1>2. /\ source' \in Seq(Events) /\ Len(source') = n + 1 /\ DOMAIN source' = 1 .. n + 1
      /\ source'[n + 1] = ev /\ \A i \in 1 .. n : source'[i] = source[i]
    BY <1>1
<1>3. ev = Event(ev.type, ev.id) /\ \A i \in 1 .. n : source[i] # ev
    BY <1>1, EventFacts DEF Committed, Event
<1>4. \A i \in 1 .. n : ~(source[i].type = "deleted" /\ source[i].id = ev.id)
    <2>1. \A i \in 1 .. n : source[i] = Event(source[i].type, source[i].id)
        BY <1>1, EventFacts
    <2> QED
        BY <1>1, <2>1 DEF Committed, Event
<1>5. Known' = Known
    BY DEF Known
<1>6. sent' \in 0 .. Len(source') /\ projected' \in 0 .. Len(source')
    BY <1>1, <1>2 DEF HistoryOK
<1>7. ASSUME NEW i \in 1 .. n + 1, NEW j \in 1 .. n + 1
      PROVE  /\ source'[i] = source'[j] => i = j
             /\ source'[i].type = "deleted" /\ source'[j].id = source'[i].id => j <= i
    <2>1. CASE i \in 1 .. n /\ j \in 1 .. n
        BY <1>1, <1>2, <2>1 DEF HistoryOK
    <2>2. CASE i = n + 1
        BY <1>1, <1>2, <1>3, <2>2
    <2>3. CASE j = n + 1 /\ i \in 1 .. n
        BY <1>2, <1>3, <1>4, <2>3
    <2> QED
        BY <1>1, <2>1, <2>2, <2>3
<1>8. ASSUME NEW i \in 1 .. n + 1
      PROVE  /\ source'[i].id \in Known
             /\ source'[i].type # "new" =>
                   \E j \in 1 .. n + 1 : j < i /\ source'[j] = Event("new", source'[i].id)
    <2>1. CASE i \in 1 .. n
        <3>1. source'[i] = source[i] /\ source[i].id \in Known
            BY <1>1, <1>2, <2>1 DEF HistoryOK
        <3>2. ASSUME source[i].type # "new"
              PROVE  \E j \in 1 .. n + 1 : j < i /\ source'[j] = Event("new", source'[i].id)
            <4>1. PICK j \in 1 .. n : j < i /\ source[j] = Event("new", source[i].id)
                BY <1>1, <2>1, <3>2 DEF HistoryOK
            <4> QED
                BY <1>2, <2>1, <4>1
        <3> QED
            BY <3>1, <3>2
    <2>2. CASE i = n + 1
        <3>1. ASSUME ev.type # "new"
              PROVE  \E j \in 1 .. n + 1 : j < i /\ source'[j] = Event("new", source'[i].id)
            <4>1. PICK j \in 1 .. n : source[j] = Event("new", ev.id)
                BY <1>1, <3>1 DEF Committed, Event
            <4> QED
                BY <1>2, <2>2, <4>1
        <3> QED
            BY <1>2, <2>2, <3>1
    <2> QED
        BY <1>1, <2>1, <2>2
<1>9. \A i, j \in DOMAIN source' : source'[i] = source'[j] => i = j
    BY <1>2, <1>7
<1>10. \A i, j \in DOMAIN source' :
          source'[i].type = "deleted" /\ source'[j].id = source'[i].id => j <= i
    BY <1>2, <1>7
<1>11. \A i \in DOMAIN source' :
          /\ source'[i].id \in Known'
          /\ source'[i].type # "new" =>
                \E j \in DOMAIN source' : j < i /\ source'[j] = Event("new", source'[i].id)
    BY <1>2, <1>5, <1>8
<1>12. source' \in Seq(Events) /\ used' \subseteq Own
    BY <1>2 DEF HistoryOK
<1> HIDE DEF Event
<1> QED
    BY <1>6, <1>9, <1>10, <1>11, <1>12 DEF HistoryOK

\* What does not change keeps what is said of it.
LEMMA HistoryStays ==
    ASSUME HistoryOK, UNCHANGED <<source, sent, projected, used>> PROVE HistoryOK'
BY DEF HistoryOK, Known

LEMMA ListStays ==
    ASSUME ListOK, UNCHANGED <<list, cursor, used>> PROVE ListOK'
BY DEF ListOK, Known

LEMMA FetchStays ==
    ASSUME FetchOK, UNCHANGED <<fetch, used>> PROVE FetchOK'
BY DEF FetchOK, Known

LEMMA ResyncsStay ==
    ASSUME ResyncsOK, UNCHANGED <<resyncs, used>> PROVE ResyncsOK'
BY DEF ResyncsOK, Known

LEMMA MutationStays ==
    ASSUME MutationOK, UNCHANGED <<source, mutation, used>> PROVE MutationOK'
BY DEF MutationOK, Known, Committed

LEMMA QueriesStay ==
    ASSUME ListOK, FetchOK, ResyncsOK, UNCHANGED <<list, cursor, fetch, resyncs, used>>
    PROVE  ListOK' /\ FetchOK' /\ ResyncsOK'
BY ListStays, FetchStays, ResyncsStay

LEMMA WireStays ==
    ASSUME WireOK, UNCHANGED <<source, wire>> PROVE WireOK'
BY DEF WireOK

LEMMA ListNothingMoves ==
    ASSUME ListIInv,
           UNCHANGED <<source, sent, projected, wire, list, cursor, fetch, resyncs, mutation, used>>
    PROVE  ListIInv'
BY HistoryStays, WireStays, QueriesStay, MutationStays DEF ListIInv

\* The wire may lose its head, or everything.
LEMMA WireShrinks ==
    ASSUME WireOK, UNCHANGED source,
           wire' = wire \/ wire' = <<>> \/ (wire # <<>> /\ wire' = Tail(wire))
    PROVE  WireOK'
<1>1. CASE wire' = wire
    BY <1>1, WireStays
<1>2. CASE wire' = <<>>
    BY <1>2 DEF WireOK
<1>3. CASE wire # <<>> /\ wire' = Tail(wire)
    <2>1. /\ wire' \in Seq(Events) /\ Len(wire') = Len(wire) - 1 /\ Len(wire) \in Nat
          /\ DOMAIN wire' = 1 .. Len(wire) - 1 /\ DOMAIN wire = 1 .. Len(wire)
          /\ \A i \in 1 .. Len(wire) - 1 : wire'[i] = wire[i + 1] /\ i + 1 \in 1 .. Len(wire)
        BY <1>3 DEF WireOK
    <2> QED
        BY <2>1 DEF WireOK
<1> QED
    BY <1>1, <1>2, <1>3

LEMMA WireGrows ==
    ASSUME WireOK, NEW ev \in Events,
           source' = source /\ wire' = Append(wire, ev) /\ (\E j \in DOMAIN source : ev = source[j])
    PROVE  WireOK'
<1>1. /\ wire' \in Seq(Events) /\ Len(wire) \in Nat /\ DOMAIN wire = 1 .. Len(wire)
      /\ DOMAIN wire' = 1 .. Len(wire) + 1 /\ wire'[Len(wire) + 1] = ev
      /\ \A i \in 1 .. Len(wire) : wire'[i] = wire[i]
    BY DEF WireOK
<1>2. ASSUME NEW i \in DOMAIN wire' PROVE \E j \in DOMAIN source' : wire'[i] = source'[j]
    <2>1. i \in 1 .. Len(wire) \/ i = Len(wire) + 1
        BY <1>1
    <2> QED
        BY <1>1, <2>1 DEF WireOK
<1> QED
    BY <1>1, <1>2 DEF WireOK

LEMMA SourceGrowsUnderWire ==
    ASSUME WireOK, source \in Seq(Events), NEW ev \in Events,
           source' = Append(source, ev), wire' = wire
    PROVE  WireOK'
<1>1. \A j \in DOMAIN source : j \in DOMAIN source' /\ source'[j] = source[j]
    OBVIOUS
<1> QED
    BY <1>1 DEF WireOK

----------------------------------------------------------------------------
(* One lemma per action that touches a list or what is written to it *)

LEMMA ListCommit ==
    ASSUME ListIInv, NEW type \in {"new", "updated", "deleted"}, NEW id \in Msg, Commit(type, id)
    PROVE  ListIInv'
<1>1. PICK ev : ev = Event(type, id)
    OBVIOUS
<1>2. /\ source' = Append(source, ev) /\ ev \in Events /\ ev.type = type /\ ev.id = id
      /\ UNCHANGED <<sent, projected, wire, list, cursor, fetch, resyncs, mutation, used>>
    BY <1>1, EventFacts
       DEF Commit, Event, visitVars, socketVars, clientVars, queryVars, listVars
<1>3. /\ ~Committed(type, id) /\ ~Committed("deleted", id)
      /\ type = "new" <=> ~Committed("new", id)
      /\ type = "new" => id \in Others
    BY DEF Commit
<1>4. HistoryOK /\ source \in Seq(Events)
    BY DEF ListIInv, HistoryOK
<1>5. id \in Known
    <2>1. CASE type = "new"
        BY <1>3, <2>1 DEF Known
    <2>2. CASE type # "new"
        <3>1. PICK i \in DOMAIN source : source[i] = Event("new", id)
            BY <1>3, <2>2 DEF Committed, Event
        <3> QED
            BY <1>4, <3>1, EventFacts DEF HistoryOK
    <2> QED
        BY <2>1, <2>2
<1>6. HistoryOK'
    BY <1>2, <1>3, <1>4, <1>5, HistoryGrows
<1>7. WireOK'
    BY <1>2, <1>4, SourceGrowsUnderWire DEF ListIInv
<1>8. MutationOK'
    <2>1. mutation' = mutation /\ Known' = Known /\ used' = used
        BY <1>2 DEF Known
    <2>2. ASSUME mutation.pc = "posting" PROVE ~Committed("new", mutation.id)'
        <3>1. mutation.id \in Own /\ ~Committed("new", mutation.id)
            BY <2>2 DEF ListIInv, MutationOK, HistoryOK
        <3>2. ev # Event("new", mutation.id)
            BY <1>1, <1>3, <3>1, EventFacts, MessagesConstants
        <3>3. \A i \in DOMAIN source' :
                 (i \in DOMAIN source /\ source'[i] = source[i]) \/ source'[i] = ev
            BY <1>2, <1>4
        <3> QED
            BY <2>1, <3>1, <3>2, <3>3 DEF Committed, Event
    <2> QED
        BY <2>1, <2>2 DEF ListIInv, MutationOK
<1> QED
    BY <1>2, <1>6, <1>7, <1>8, QueriesStay DEF ListIInv

LEMMA ListDistribute ==
    ASSUME ListIInv, Distribute PROVE ListIInv'
<1>1. /\ sent < Len(source) /\ sent' = sent + 1
      /\ wire' = IF hub = "registered" THEN Append(wire, source[sent + 1]) ELSE wire
      /\ UNCHANGED <<source, projected, list, cursor, fetch, resyncs, mutation, used>>
    BY DEF Distribute, queryVars, listVars
<1>2. HistoryOK /\ sent \in Nat /\ Len(source) \in Nat /\ sent + 1 \in DOMAIN source
      /\ source[sent + 1] \in Events
    BY <1>1, HistoryFacts DEF ListIInv
<1>3. HistoryOK'
    BY <1>1, <1>2 DEF HistoryOK, Known
<1>4. WireOK'
    <2>1. CASE hub = "registered"
        BY <1>1, <1>2, <2>1, WireGrows DEF ListIInv
    <2>2. CASE hub # "registered"
        BY <1>1, <2>2, WireStays DEF ListIInv
    <2> QED
        BY <2>1, <2>2
<1> QED
    BY <1>1, <1>3, <1>4, QueriesStay, MutationStays DEF ListIInv

LEMMA ListProject ==
    ASSUME ListIInv, Project PROVE ListIInv'
<1>1. /\ projected < Len(source) /\ projected' = projected + 1
      /\ UNCHANGED <<source, sent, wire, list, cursor, fetch, resyncs, mutation, used>>
    BY DEF Project, socketVars, queryVars, listVars
<1>2. HistoryOK /\ projected \in Nat /\ Len(source) \in Nat
    BY HistoryFacts DEF ListIInv
<1>3. HistoryOK'
    BY <1>1, <1>2 DEF HistoryOK, Known
<1> QED
    BY <1>1, <1>3, WireStays, QueriesStay, MutationStays DEF ListIInv

LEMMA ListWireShrinks ==
    ASSUME ListIInv,
           wire' = wire \/ wire' = <<>>,
           UNCHANGED <<source, sent, projected, list, cursor, fetch, resyncs, mutation, used>>
    PROVE  ListIInv'
BY HistoryStays, WireShrinks, QueriesStay, MutationStays DEF ListIInv

LEMMA ListOnOpen ==
    ASSUME ListIInv, OnOpen PROVE ListIInv'
<1>1. /\ resyncs' = IF cursor = None \/ list \in {None, <<>>} THEN resyncs
                    ELSE Append(resyncs, [pc |-> "asked", after |-> cursor, page |-> <<>>])
      /\ UNCHANGED <<source, sent, projected, wire, list, cursor, fetch, mutation, used>>
    BY DEF OnOpen, serverVars, listVars
<1>2. ResyncsOK'
    <2>1. CASE resyncs' = resyncs
        BY <1>1, <2>1, ResyncsStay DEF ListIInv
    <2>2. CASE resyncs' # resyncs
        <3>1. cursor \in Nat
            BY <1>1, <2>2 DEF ListIInv, ListOK
        <3>2. PICK q : q = [pc |-> "asked", after |-> cursor, page |-> <<>>]
            OBVIOUS
        <3>3. q \in ResyncRequest /\ Page(q.page, Known)
            BY <3>1, <3>2, EmptyPage DEF ResyncRequest
        <3>4. resyncs' = Append(resyncs, q) /\ resyncs \in Seq(ResyncRequest) /\ Known' = Known
            BY <1>1, <2>2, <3>2 DEF ListIInv, ResyncsOK, Known
        <3>5. /\ resyncs' \in Seq(ResyncRequest)
              /\ \A i \in DOMAIN resyncs' :
                    (i \in DOMAIN resyncs /\ resyncs'[i] = resyncs[i]) \/ resyncs'[i] = q
            BY <3>3, <3>4
        <3> QED
            BY <3>3, <3>4, <3>5 DEF ListIInv, ResyncsOK
    <2> QED
        BY <2>1, <2>2
<1> QED
    BY <1>1, <1>2, HistoryStays, WireStays, ListStays, FetchStays, MutationStays DEF ListIInv

LEMMA ListOnMessage ==
    ASSUME ListIInv, OnMessage PROVE ListIInv'
<1>1. PICK ev : ev = Head(wire)
    OBVIOUS
<1>2. /\ wire # <<>> /\ wire' = Tail(wire)
      /\ SetList(Handled(list, ev, CreatedAt(ev.id)))
      /\ UNCHANGED <<source, sent, projected, fetch, resyncs, mutation, used>>
    BY <1>1 DEF OnMessage, serverVars
<1>3. HistoryOK /\ WireOK /\ ListOK /\ Known' = Known /\ Known \subseteq Msg
    BY <1>2, HistoryFacts DEF ListIInv, Known
<1>4. PICK j \in DOMAIN source : ev = source[j]
    <2>1. 1 \in DOMAIN wire /\ ev = wire[1]
        BY <1>1, <1>2, <1>3 DEF WireOK
    <2> QED
        BY <1>3, <2>1 DEF WireOK
<1>5. ev \in Events /\ ev.id \in Known
    BY <1>3, <1>4, HistoryFacts DEF HistoryOK
<1>6. CreatedAt(ev.id) \in Nat
    <2>1. PICK i \in DOMAIN source : source[i] = Event("new", ev.id)
        <3>1. CASE ev.type = "new"
            BY <1>4, <1>5, <3>1, EventFacts
        <3>2. CASE ev.type # "new"
            BY <1>3, <1>4, <3>2 DEF HistoryOK
        <3> QED
            BY <3>1, <3>2
    <2> QED
        BY <1>3, <2>1, CreatedAtFacts
<1>7. PICK l : l = Handled(list, ev, CreatedAt(ev.id))
    OBVIOUS
<1>8. l = None \/ Page(l, Known)
    BY <1>3, <1>5, <1>6, <1>7, HandledPage, EventFacts DEF ListOK
<1>9. ListOK'
    BY <1>2, <1>3, <1>7, <1>8, SetListStep
<1> QED
    BY <1>2, <1>3, <1>9, HistoryStays, WireShrinks, FetchStays, ResyncsStay, MutationStays DEF ListIInv

LEMMA RemoveAtFacts ==
    ASSUME NEW T, NEW q \in Seq(T), NEW i \in DOMAIN q
    PROVE  /\ RemoveAt(q, i) \in Seq(T)
           /\ \A k \in DOMAIN RemoveAt(q, i) : \E j \in DOMAIN q : RemoveAt(q, i)[k] = q[j]
<1>1. PICK n \in Nat : n = Len(q) /\ DOMAIN q = 1 .. n
    OBVIOUS
<1>2. PICK h \in Nat : i = h + 1 /\ i - 1 = h /\ h < n /\ i \in Nat
    BY <1>1
<1>3. PICK t \in Nat : n = h + t + 1
    <2>1. n - i \in Nat /\ n = h + (n - i) + 1
        BY <1>1, <1>2
    <2> QED
        BY <2>1
<1>4. PICK a : a = SubSeq(q, 1, i - 1)
    OBVIOUS
<1>5. PICK b : b = SubSeq(q, i + 1, n)
    OBVIOUS
<1>6. a \in Seq(T) /\ Len(a) = h /\ \A k \in 1 .. h : a[k] = q[k]
    BY <1>1, <1>2, <1>4
<1>7. b \in Seq(T) /\ Len(b) = t /\ \A k \in 1 .. t : b[k] = q[i + k]
    BY <1>1, <1>2, <1>3, <1>5
<1>8. RemoveAt(q, i) = a \o b
    BY <1>1, <1>4, <1>5 DEF RemoveAt
<1>9. /\ a \o b \in Seq(T) /\ DOMAIN (a \o b) = 1 .. h + t
      /\ \A k \in 1 .. h + t : (a \o b)[k] = IF k <= h THEN a[k] ELSE b[k - h]
    <2>1. a \in Seq(T) /\ b \in Seq(T) /\ Len(a) = h /\ Len(b) = t
        BY <1>6, <1>7
    <2>2. a \o b \in Seq(T)
        BY <2>1
    <2>3. Len(a \o b) = h + t
        BY <2>1
    <2>4. DOMAIN (a \o b) = 1 .. h + t
        BY <2>1
    <2>5. \A k \in 1 .. h + t : (a \o b)[k] = IF k <= h THEN a[k] ELSE b[k - h]
        BY <2>1
    <2> QED
        BY <2>2, <2>4, <2>5
<1>10. ASSUME NEW k \in 1 .. h + t PROVE \E j \in 1 .. n : (a \o b)[k] = q[j]
    <2>1. CASE k <= h
        <3>1. k \in 1 .. h /\ k \in 1 .. n
            BY <1>2, <2>1
        <3> QED
            BY <1>6, <1>9, <2>1, <3>1
    <2>2. CASE ~(k <= h)
        <3>1. k - h \in 1 .. t /\ i + (k - h) \in 1 .. n
            BY <1>1, <1>2, <1>3, <2>2
        <3> QED
            BY <1>7, <1>9, <2>2, <3>1
    <2> QED
        BY <2>1, <2>2
<1> QED
    BY <1>1, <1>8, <1>9, <1>10

LEMMA ResyncRemoved ==
    ASSUME ResyncsOK, NEW i \in DOMAIN resyncs, resyncs' = RemoveAt(resyncs, i), used' = used
    PROVE  ResyncsOK'
<1>1. /\ resyncs' \in Seq(ResyncRequest)
      /\ \A k \in DOMAIN resyncs' : \E j \in DOMAIN resyncs : resyncs'[k] = resyncs[j]
    BY RemoveAtFacts DEF ResyncsOK
<1> QED
    BY <1>1 DEF ResyncsOK, Known

\* What is read from the projection is a page.
LEMMA LivePages ==
    ASSUME HistoryOK, NEW p \in 0 .. Len(source), NEW S \in SUBSET Live(p)
    PROVE  Page(OldestFirst(S), Known) /\ Page(NewestFirst(S), Known)
<1>1. /\ Live(p) \in SUBSET Entries /\ IsFiniteSet(Live(p))
      /\ \A x, y \in Live(p) : x.at = y.at => x = y
      /\ \A x, y \in Live(p) : x.id = y.id => x = y
      /\ \A x \in Live(p) : x.id \in Known
    BY LiveFacts
<1>2. /\ S \in SUBSET Entries /\ IsFiniteSet(S)
      /\ \A x, y \in S : x.at = y.at => x = y
      /\ \A x, y \in S : x.id = y.id => x = y
      /\ \A x \in S : x.id \in Known
    BY <1>1, FS_Subset
<1>3. /\ OldestFirst(S) \in Seq(S)
      /\ \A i, j \in DOMAIN OldestFirst(S) : i < j => OldestFirst(S)[i].at < OldestFirst(S)[j].at
    BY <1>2, OldestFirstFacts
<1>4. /\ NewestFirst(S) \in Seq(S)
      /\ \A i, j \in DOMAIN NewestFirst(S) : i < j => NewestFirst(S)[j].at < NewestFirst(S)[i].at
    BY <1>2, NewestFirstFacts
<1>5. Page(OldestFirst(S), Known)
    BY <1>2, <1>3, SortedPage
<1>6. Page(NewestFirst(S), Known)
    BY <1>2, <1>4, SortedPage
<1> QED
    BY <1>5, <1>6

LEMMA ListResyncRead ==
    ASSUME ListIInv, NEW i \in DOMAIN resyncs, ResyncRead(i) PROVE ListIInv'
<1>1. PICK page :
         page = OldestFirst({e \in Live(projected) : e.at > resyncs[i].after})
    OBVIOUS
<1>2. /\ resyncs' = [resyncs EXCEPT ![i].pc = "read", ![i].page = page]
      /\ UNCHANGED <<source, sent, projected, wire, list, cursor, fetch, mutation, used>>
    BY <1>1 DEF ResyncRead, serverVars, socketVars, listVars
<1>3. HistoryOK /\ projected \in 0 .. Len(source) /\ Known' = Known
    BY <1>2 DEF ListIInv, HistoryOK, Known
<1>4. Page(page, Known)
    <2>1. {e \in Live(projected) : e.at > resyncs[i].after} \in SUBSET Live(projected)
        OBVIOUS
    <2> QED
        BY <1>1, <1>3, <2>1, LivePages
<1>5. ResyncsOK'
    <2>1. resyncs \in Seq(ResyncRequest) /\ page \in Seq(Entries)
        BY <1>4 DEF ListIInv, ResyncsOK, Page
    <2>2. /\ resyncs' \in Seq(ResyncRequest) /\ DOMAIN resyncs' = DOMAIN resyncs
          /\ \A j \in DOMAIN resyncs :
                resyncs'[j].page = page \/ resyncs'[j].page = resyncs[j].page
        <3>1. PICK q : q = [resyncs[i] EXCEPT !.pc = "read", !.page = page]
            OBVIOUS
        <3>2. q \in ResyncRequest /\ q.page = page
            <4>1. resyncs[i] \in ResyncRequest
                BY <2>1
            <4> QED
                BY <2>1, <3>1, <4>1 DEF ResyncRequest
        <3>3. resyncs' = [resyncs EXCEPT ![i] = q]
            BY <1>2, <3>1
        <3> QED
            BY <2>1, <3>2, <3>3
    <2> QED
        BY <1>3, <1>4, <2>2 DEF ListIInv, ResyncsOK
<1> QED
    BY <1>2, <1>5, HistoryStays, WireStays, ListStays, FetchStays, MutationStays DEF ListIInv

LEMMA ListResyncApply ==
    ASSUME ListIInv, NEW i \in DOMAIN resyncs, ResyncApply(i) PROVE ListIInv'
<1>1. /\ resyncs' = RemoveAt(resyncs, i)
      /\ UNCHANGED <<source, sent, projected, wire, fetch, mutation, used>>
    BY DEF ResyncApply, serverVars, socketVars
<1>2. HistoryOK /\ ListOK /\ ResyncsOK /\ Known' = Known
    BY <1>1 DEF ListIInv, Known
<1>3. ListOK'
    <2>1. CASE list = None \/ resyncs[i].page = <<>>
        BY <1>1, <1>2, <2>1, ListStays DEF ResyncApply, listVars
    <2>2. CASE ~(list = None \/ resyncs[i].page = <<>>)
        <3>1. PICK m : m = Missing(resyncs[i].page, list)
            OBVIOUS
        <3>2. SetList(m \o list)
            BY <2>2, <3>1 DEF ResyncApply
        <3>3. Page(list, Known) /\ Page(resyncs[i].page, Known)
            BY <1>2, <2>2 DEF ListOK, ResyncsOK
        <3>4. Page(m, Known) /\ \A k \in DOMAIN m : \A j \in DOMAIN list : m[k].id # list[j].id
            BY <3>1, <3>3, MissingFacts
        <3>5. Page(m \o list, Known)
            BY <3>3, <3>4, JoinedPage
        <3> QED
            BY <1>2, <3>2, <3>5, SetListStep
    <2> QED
        BY <2>1, <2>2
<1>4. ResyncsOK'
    BY <1>1, <1>2, ResyncRemoved
<1> QED
    BY <1>1, <1>3, <1>4, HistoryStays, WireStays, FetchStays, MutationStays DEF ListIInv

LEMMA ListResyncFails ==
    ASSUME ListIInv, NEW i \in DOMAIN resyncs, ResyncFails(i) PROVE ListIInv'
<1>1. /\ resyncs' = RemoveAt(resyncs, i)
      /\ UNCHANGED <<source, sent, projected, wire, list, cursor, fetch, mutation, used>>
    BY DEF ResyncFails, serverVars, socketVars, listVars
<1>2. ResyncsOK'
    BY <1>1, ResyncRemoved DEF ListIInv
<1> QED
    BY <1>1, <1>2, HistoryStays, WireStays, ListStays, FetchStays, MutationStays DEF ListIInv

LEMMA ListFetchRead ==
    ASSUME ListIInv, FetchRead PROVE ListIInv'
<1>1. PICK page : page = NewestFirst(Live(projected))
    OBVIOUS
<1>2. /\ fetch' = [pc |-> "read", page |-> page]
      /\ UNCHANGED <<source, sent, projected, wire, list, cursor, resyncs, mutation, used>>
    BY <1>1 DEF FetchRead, serverVars, socketVars, listVars
<1>3. HistoryOK /\ projected \in 0 .. Len(source) /\ Known' = Known
    BY <1>2 DEF ListIInv, HistoryOK, Known
<1>4. Page(page, Known)
    BY <1>1, <1>3, LivePages
<1>5. FetchOK'
    BY <1>2, <1>3, <1>4 DEF FetchOK
<1> QED
    BY <1>2, <1>5, HistoryStays, WireStays, ListStays, ResyncsStay, MutationStays DEF ListIInv

LEMMA NoFetchIsOK ==
    ASSUME fetch'.pc \in {"none", "asked"}, fetch'.page = <<>>
    PROVE  FetchOK'
BY EmptyPage DEF FetchOK

LEMMA ListFetchApply ==
    ASSUME ListIInv, FetchApply PROVE ListIInv'
<1>1. /\ SetList(fetch.page) /\ fetch' = NoFetch
      /\ UNCHANGED <<source, sent, projected, wire, resyncs, mutation, used>>
    BY DEF FetchApply, serverVars, socketVars
<1>2. Page(fetch.page, Known') /\ ListOK
    BY <1>1 DEF ListIInv, FetchOK, Known
<1>3. ListOK'
    BY <1>1, <1>2, SetListStep
<1>4. FetchOK'
    BY <1>1, NoFetchIsOK DEF NoFetch
<1> QED
    BY <1>1, <1>3, <1>4, HistoryStays, WireStays, ResyncsStay, MutationStays DEF ListIInv

LEMMA ListFetchFails ==
    ASSUME ListIInv, FetchFails PROVE ListIInv'
<1>1. /\ fetch' = NoFetch
      /\ UNCHANGED <<source, sent, projected, wire, list, cursor, resyncs, mutation, used>>
    BY DEF FetchFails, serverVars, socketVars, listVars
<1>2. FetchOK'
    BY <1>1, NoFetchIsOK DEF NoFetch
<1> QED
    BY <1>1, <1>2, HistoryStays, WireStays, ListStays, ResyncsStay, MutationStays DEF ListIInv

LEMMA ListCreateMessage ==
    ASSUME ListIInv, NEW o \in Own, CreateMessage(o) PROVE ListIInv'
<1>1. PICK m : m = Entry(o, FALSE, At(Len(source)) + 1 + 2 * Skew)
    OBVIOUS
<1>2. /\ o \notin used /\ used' = used \cup {o} /\ mutation.pc = "none"
      /\ SetList(IF list = None THEN <<m>> ELSE <<m>> \o list)
      /\ fetch' = NoFetch
      /\ mutation' = [pc |-> "posting", id |-> o, previous |-> list]
      /\ UNCHANGED <<source, sent, projected, wire, resyncs>>
    BY <1>1 DEF CreateMessage, serverVars, socketVars
<1>3. /\ HistoryOK /\ ListOK /\ Known \subseteq Known' /\ o \in Known' /\ o \notin Known
    BY <1>2, MessagesConstants DEF ListIInv, Known
<1>4. HistoryOK'
    BY <1>2, <1>3 DEF HistoryOK
<1>5. m \in Entries /\ m.id = o
    <2>1. At(Len(source)) + 1 + 2 * Skew \in Nat /\ o \in Msg
        BY <1>3, HistoryFacts, MessagesConstants DEF At, Msg
    <2> QED
        BY <1>1, <2>1, EntryFacts
<1>6. \A l : Page(l, Known) => Page(l, Known')
    BY <1>3, GrowingPage
<1>7. PICK l : l = IF list = None THEN <<m>> ELSE <<m>> \o list
    OBVIOUS
<1>8. Page(l, Known')
    <2>1. CASE list = None
        BY <1>3, <1>5, <1>7, <2>1, SinglePage
    <2>2. CASE list # None
        <3>1. Page(list, Known') /\ \A i \in DOMAIN list : list[i].id # o
            BY <1>3, <1>6, <2>2 DEF ListOK, Page
        <3> QED
            BY <1>3, <1>5, <1>7, <2>2, <3>1, FrontPage
    <2> QED
        BY <2>1, <2>2
<1>9. ListOK'
    BY <1>2, <1>3, <1>7, <1>8, SetListStep
<1>10. FetchOK'
    BY <1>2, NoFetchIsOK DEF NoFetch
<1>11. ResyncsOK'
    BY <1>2, <1>6 DEF ListIInv, ResyncsOK
<1>12. MutationOK'
    <2>1. mutation'.previous = None \/ Page(mutation'.previous, Known')
        BY <1>2, <1>3, <1>6 DEF ListOK
    <2>2. mutation'.id = o /\ o \in used' /\ mutation'.pc = "posting"
        BY <1>2
    <2>3. ~Committed("new", o)'
        <3>1. \A i \in DOMAIN source : source[i].id \in Known
            BY <1>3 DEF HistoryOK
        <3>2. \A i \in DOMAIN source : source[i] # Event("new", o)
            BY <1>3, <3>1, EventFacts
        <3> QED
            BY <1>2, <3>2 DEF Committed, Event
    <2>4. mutation' \in [pc : {"none", "posting", "stored"}, id : {mutation'.id},
                         previous : {mutation'.previous}]
        BY <1>2
    <2> QED
        BY <2>1, <2>2, <2>3, <2>4 DEF MutationOK
<1>13. WireOK'
    BY <1>2, WireStays DEF ListIInv
<1> QED
    BY <1>4, <1>9, <1>10, <1>11, <1>12, <1>13 DEF ListIInv

LEMMA ListPostCommits ==
    ASSUME ListIInv, PostCommits PROVE ListIInv'
<1>1. PICK ev : ev = Event("new", mutation.id)
    OBVIOUS
<1>2. /\ mutation.pc = "posting" /\ source' = Append(source, ev)
      /\ mutation' = [mutation EXCEPT !.pc = "stored"]
      /\ UNCHANGED <<sent, projected, wire, list, cursor, fetch, resyncs, used>>
    BY <1>1 DEF PostCommits, Event, socketVars, listVars
<1>3. /\ HistoryOK /\ mutation.id \in used /\ ~Committed("new", mutation.id)
      /\ mutation.id \in Known /\ mutation.id \in Msg /\ source \in Seq(Events)
    BY <1>2 DEF ListIInv, MutationOK, HistoryOK, Known, Msg
<1>4. ev \in Events /\ ev.type = "new" /\ ev.id = mutation.id
    BY <1>1, <1>3, EventFacts
<1>5. ~Committed("deleted", mutation.id)
    <2> SUFFICES ASSUME Committed("deleted", mutation.id) PROVE FALSE
        OBVIOUS
    <2>1. PICK i \in DOMAIN source : source[i].type # "new" /\ source[i].id = mutation.id
        BY DEF Committed
    <2> QED
        BY <1>3, <2>1 DEF HistoryOK, Committed, Event
<1>6. HistoryOK'
    BY <1>2, <1>3, <1>4, <1>5, HistoryGrows
<1>7. WireOK'
    BY <1>2, <1>3, <1>4, SourceGrowsUnderWire DEF ListIInv
<1>8. MutationOK'
    <2>1. /\ mutation'.pc = "stored" /\ mutation'.id = mutation.id
          /\ mutation'.previous = mutation.previous
          /\ mutation' \in [pc : {"none", "posting", "stored"}, id : {mutation'.id},
                            previous : {mutation'.previous}]
        BY <1>2 DEF ListIInv, MutationOK
    <2>2. Known' = Known
        BY <1>2 DEF Known
    <2> QED
        BY <1>2, <2>1, <2>2 DEF ListIInv, MutationOK
<1> QED
    BY <1>2, <1>6, <1>7, <1>8, QueriesStay DEF ListIInv

LEMMA NoMutationIsOK ==
    ASSUME mutation' = NoMutation PROVE MutationOK'
BY DEF MutationOK, NoMutation

LEMMA ListOnSuccess ==
    ASSUME ListIInv, OnSuccess PROVE ListIInv'
<1>1. /\ mutation' = NoMutation
      /\ fetch' = [pc |-> "asked", page |-> <<>>] \/ fetch' = fetch
      /\ UNCHANGED <<source, sent, projected, wire, list, cursor, resyncs, used>>
    BY DEF OnSuccess, serverVars, socketVars
<1>2. FetchOK'
    BY <1>1, FetchStays, NoFetchIsOK DEF ListIInv
<1> QED
    BY <1>1, <1>2, HistoryStays, WireStays, ListStays, ResyncsStay, NoMutationIsOK DEF ListIInv

LEMMA ListOnError ==
    ASSUME ListIInv, OnError PROVE ListIInv'
<1>1. /\ mutation' = NoMutation
      /\ UNCHANGED <<source, sent, projected, wire, fetch, resyncs, used>>
    BY DEF OnError, serverVars, socketVars
<1>2. ListOK'
    <2>1. CASE mutation.previous = None
        BY <1>1, <2>1, ListStays DEF OnError, listVars, ListIInv
    <2>2. CASE mutation.previous # None
        <3>1. SetList(mutation.previous)
            BY <2>2 DEF OnError
        <3>2. Page(mutation.previous, Known')
            BY <1>1, <2>2 DEF ListIInv, MutationOK, Known
        <3> QED
            BY <3>1, <3>2, SetListStep DEF ListIInv
    <2> QED
        BY <2>1, <2>2
<1> QED
    BY <1>1, <1>2, HistoryStays, WireStays, FetchStays, ResyncsStay, NoMutationIsOK DEF ListIInv

LEMMA ListForget ==
    ASSUME ListIInv, Forget PROVE ListIInv'
<1>1. /\ list' = None
      /\ UNCHANGED <<source, sent, projected, wire, cursor, fetch, resyncs, mutation, used>>
    BY DEF Forget, serverVars, socketVars
<1>2. ListOK'
    BY <1>1 DEF ListIInv, ListOK
<1> QED
    BY <1>1, <1>2, HistoryStays, WireStays, FetchStays, ResyncsStay, MutationStays DEF ListIInv

LEMMA ListEnter ==
    ASSUME ListIInv, Enter PROVE ListIInv'
<1>1. /\ cursor' = IF list \in {None, <<>>} THEN None ELSE list[1].at
      /\ fetch' = [pc |-> "asked", page |-> <<>>] \/ fetch' = fetch
      /\ UNCHANGED <<source, sent, projected, wire, list, resyncs, mutation, used>>
    BY DEF Enter, serverVars
<1>2. ListOK'
    <2>1. CASE list \in {None, <<>>}
        BY <1>1, <2>1 DEF ListIInv, ListOK, Known
    <2>2. CASE list \notin {None, <<>>}
        <3>1. list \in Seq(Entries) /\ list # <<>>
            BY <2>2 DEF ListIInv, ListOK, Page
        <3>2. list[1] \in Entries
            BY <3>1
        <3>3. list[1].at \in Nat
            BY <3>2 DEF Entries
        <3> QED
            BY <1>1, <2>2, <3>3 DEF ListIInv, ListOK, Known
    <2> QED
        BY <2>1, <2>2
<1>3. FetchOK'
    BY <1>1, FetchStays, NoFetchIsOK DEF ListIInv
<1> QED
    BY <1>1, <1>2, <1>3, HistoryStays, WireStays, ResyncsStay, MutationStays DEF ListIInv

LEMMA ListStep ==
    ASSUME ListIInv, MessagesNext PROVE ListIInv'
<1>1. CASE Server
    BY <1>1, ListCommit, ListDistribute, ListProject DEF Server
<1>2. CASE Socket
    <2>1. CASE \E c \in Client : ReconnectTimer(c) \/ TicketArrives(c) \/ TicketFails(c)
        BY <2>1, ListNothingMoves
           DEF ReconnectTimer, TicketArrives, TicketFails, serverVars, queryVars, listVars
    <2>2. CASE \E c \in Client : OnClose(c)
        <3>1. /\ wire' = wire \/ wire' = <<>>
              /\ UNCHANGED <<source, sent, projected, list, cursor, fetch, resyncs, mutation, used>>
            BY <2>2 DEF OnClose, serverVars, queryVars, listVars
        <3> QED
            BY <3>1, ListWireShrinks
    <2>3. CASE Upgrade \/ Register
        BY <2>3, ListNothingMoves DEF Upgrade, Register, serverVars, queryVars, listVars
    <2>4. CASE ConnectionLost
        <3>1. /\ wire' = wire \/ wire' = <<>>
              /\ UNCHANGED <<source, sent, projected, list, cursor, fetch, resyncs, mutation, used>>
            BY <2>4 DEF ConnectionLost, serverVars, queryVars, listVars
        <3> QED
            BY <3>1, ListWireShrinks
    <2>5. CASE OnOpen
        BY <2>5, ListOnOpen
    <2> QED
        BY <1>2, <2>1, <2>2, <2>3, <2>4, <2>5 DEF Socket
<1>3. CASE OnMessage
    BY <1>3, ListOnMessage
<1>4. CASE Requests
    BY <1>4, ListResyncRead, ListResyncApply, ListResyncFails, ListFetchRead, ListFetchApply,
       ListFetchFails, ListCreateMessage, ListPostCommits, ListOnSuccess, ListOnError
       DEF Requests
<1>5. CASE Visits
    <2>1. CASE Leave
        <3>1. /\ wire' = wire \/ wire' = <<>>
              /\ UNCHANGED <<source, sent, projected, list, cursor, fetch, resyncs, mutation, used>>
            BY <2>1 DEF Leave, serverVars, queryVars, listVars
        <3> QED
            BY <3>1, ListWireShrinks
    <2> QED
        BY <1>5, <2>1, ListForget, ListEnter DEF Visits
<1> QED
    BY <1>1, <1>2, <1>3, <1>4, <1>5 DEF MessagesNext

\* The inductive invariant of the lists.
THEOREM ListInvariant == MessagesSpec => []ListIInv
<1>1. ListIInv /\ [MessagesNext]_pageVars => ListIInv'
    <2>1. ListIInv /\ UNCHANGED pageVars => ListIInv'
        BY ListNothingMoves DEF pageVars, serverVars, socketVars, queryVars, listVars
    <2> QED
        BY <2>1, ListStep
<1> QED
    BY ListInit, <1>1, PTL DEF MessagesSpec

\* No message is shown twice, however the answers of the query and the resync, the
\* socket's events and the optimistic copy of an own message interleave.
THEOREM ShownOnceAlways == MessagesSpec => []ShownOnce
BY ListInvariant, InvImpliesShownOnce, PTL

----------------------------------------------------------------------------
(* There is one way to sort *)

\* t has all elements of S in the order of their keys.
Sorts(t, S, key) ==
    /\ t \in Seq(S)
    /\ \A i, j \in DOMAIN t : i < j => key[t[i]] < key[t[j]]
    /\ \A x \in S : \E i \in DOMAIN t : t[i] = x

\* There is one way to sort: a sequence of all elements in the order of their keys is
\* Ascending(S, key), because an element's place is told by the number of those below it.
LEMMA AscendingUnique ==
    ASSUME NEW S, IsFiniteSet(S), NEW key \in [S -> Int],
           \A x, y \in S : key[x] = key[y] => x = y
    PROVE  \A t : Sorts(t, S, key) => t = Ascending(S, key)
<1>1. PICK s : s = Ascending(S, key)
    OBVIOUS
<1>2. /\ Cardinality(S) \in Nat /\ DOMAIN s = 1 .. Cardinality(S)
      /\ s \in Seq(S) /\ Len(s) = Cardinality(S)
      /\ \A i, j \in DOMAIN s : i < j => key[s[i]] < key[s[j]]
      /\ \A x \in S : \E i \in DOMAIN s : s[i] = x
    BY <1>1, AscendingFacts
<1>3. /\ \A x \in S : Rank(S, key, x) \in 0 .. Cardinality(S) - 1
      /\ \A x, y \in S : Rank(S, key, x) = Rank(S, key, y) => x = y
    BY Ranks
<1>4. ASSUME NEW q \in Seq(S), \A x \in S : \E i \in DOMAIN q : q[i] = x,
             \A i, j \in DOMAIN q : i < j => key[q[i]] < key[q[j]]
      PROVE  Len(q) = Cardinality(S) /\ \A k \in DOMAIN q : Rank(S, key, q[k]) = k - 1
    <2>1. PICK len \in Nat : len = Len(q) /\ DOMAIN q = 1 .. len
        OBVIOUS
    <2>2. /\ \A i \in 1 .. len : q[i] \in S /\ key[q[i]] \in Int
          /\ \A i, j \in 1 .. len : i < j => key[q[i]] < key[q[j]]
          /\ \A x \in S : \E i \in 1 .. len : q[i] = x
        <3>1. \A i \in 1 .. len : q[i] \in S /\ key[q[i]] \in Int
            BY <2>1
        <3>2. \A i, j \in 1 .. len : i < j => key[q[i]] < key[q[j]]
            BY <1>4, <2>1, Zenon
        <3>3. \A x \in S : \E i \in 1 .. len : q[i] = x
            BY <1>4, <2>1, Zenon
        <3> QED
            BY <3>1, <3>2, <3>3
    <2>3. \A i, j \in 1 .. len : q[i] = q[j] => i = j
        <3> SUFFICES ASSUME NEW i \in 1 .. len, NEW j \in 1 .. len, q[i] = q[j] PROVE i = j
            OBVIOUS
        <3>1. ~(i < j) /\ ~(j < i)
            <4>1. key[q[i]] \in Int /\ key[q[i]] = key[q[j]]
                BY <2>2
            <4>2. ~(key[q[i]] < key[q[j]]) /\ ~(key[q[j]] < key[q[i]])
                BY <4>1
            <4> QED
                BY <2>2, <4>2
        <3> QED
            BY <3>1
    <2>4. Len(q) = Cardinality(S)
        <3>0. q \in [1 .. len -> S]
            BY <2>1
        <3>1. q \in Bijection(1 .. len, S)
            BY <2>2, <2>3, <3>0 DEF Bijection, Injection, Surjection, IsInjective
        <3>2. IsFiniteSet(1 .. len) /\ Cardinality(1 .. len) = len
            <4>1. 1 \in Int /\ len \in Int
                BY <2>1
            <4>2. IsFiniteSet(1 .. len) /\ Cardinality(1 .. len) = IF 1 > len THEN 0 ELSE len - 1 + 1
                BY <4>1, FS_Interval
            <4> QED
                BY <4>2
        <3>3. ExistsBijection(1 .. len, S)
            BY <3>1 DEF ExistsBijection
        <3> QED
            BY <2>1, <3>2, <3>3, FS_Bijection
    <2>5. ASSUME NEW k \in 1 .. len PROVE Rank(S, key, q[k]) = k - 1
        <3>1. PICK B : B = {y \in S : key[y] < key[q[k]]}
            OBVIOUS
        <3>2. \A i \in 1 .. len : i < k => key[q[i]] < key[q[k]]
            BY <1>4, <2>1, <2>5
        <3>3. \A i \in 1 .. len : k < i => key[q[k]] < key[q[i]]
            BY <1>4, <2>1, <2>5
        <3>4. PICK f : f = [i \in 1 .. k - 1 |-> q[i]]
            OBVIOUS
        <3>5. \A i \in 1 .. k - 1 : i \in 1 .. len /\ i < k /\ f[i] = q[i]
            BY <2>1, <2>5, <3>4
        <3>6. f \in [1 .. k - 1 -> B]
            BY <2>2, <3>1, <3>2, <3>4, <3>5
        <3>7. \A y \in B : \E i \in 1 .. k - 1 : f[i] = y
            <4> SUFFICES ASSUME NEW y \in B PROVE \E i \in 1 .. k - 1 : f[i] = y
                OBVIOUS
            <4>1. y \in S /\ key[y] < key[q[k]]
                BY <3>1
            <4>2. PICK i \in 1 .. len : q[i] = y
                BY <1>4, <2>1, <4>1
            <4>3. ~(k < i) /\ i # k
                <5>1. key[q[i]] \in Int /\ key[q[k]] \in Int /\ key[q[i]] < key[q[k]]
                    BY <2>2, <4>1, <4>2
                <5>2. ~(key[q[k]] < key[q[i]]) /\ q[i] # q[k]
                    BY <5>1
                <5> QED
                    BY <3>3, <5>2
            <4>4. i \in 1 .. k - 1
                BY <2>1, <2>5, <4>3
            <4> QED
                BY <3>5, <4>2, <4>4
        <3>8. \A i, j \in 1 .. k - 1 : f[i] = f[j] => i = j
            BY <2>3, <3>5
        <3>9. f \in Bijection(1 .. k - 1, B)
            BY <3>6, <3>7, <3>8 DEF Bijection, Injection, Surjection, IsInjective
        <3>10. IsFiniteSet(1 .. k - 1) /\ Cardinality(1 .. k - 1) = k - 1
            <4>1. 1 \in Int /\ k - 1 \in Int /\ k >= 1
                BY <2>5
            <4> QED
                BY <4>1, FS_Interval
        <3>11. ExistsBijection(1 .. k - 1, B)
            BY <3>9 DEF ExistsBijection
        <3>12. Cardinality(B) = k - 1
            BY <3>10, <3>11, FS_Bijection
        <3> QED
            BY <3>1, <3>12 DEF Rank
    <2> QED
        BY <2>1, <2>4, <2>5
<1> SUFFICES ASSUME NEW t, Sorts(t, S, key) PROVE  t = Ascending(S, key)
    OBVIOUS
<1>5. /\ t \in Seq(S) /\ Len(t) = Cardinality(S)
      /\ \A k \in DOMAIN t : Rank(S, key, t[k]) = k - 1
    <2>1. /\ t \in Seq(S)
          /\ \A i, j \in DOMAIN t : i < j => key[t[i]] < key[t[j]]
          /\ \A x \in S : \E i \in DOMAIN t : t[i] = x
        BY DEF Sorts
    <2> QED
        BY <1>4, <2>1, Zenon
<1>6. \A k \in DOMAIN s : Rank(S, key, s[k]) = k - 1
    BY <1>2, <1>4
<1>7. ASSUME NEW k \in 1 .. Cardinality(S) PROVE t[k] = s[k]
    <2>1. k \in DOMAIN t /\ k \in DOMAIN s /\ t[k] \in S /\ s[k] \in S
        BY <1>2, <1>5
    <2> QED
        BY <1>3, <1>5, <1>6, <2>1
<1>8. t = s
    BY <1>2, <1>5, <1>7
<1> QED
    BY <1>1, <1>8

LEMMA NewestFirstUnique ==
    ASSUME NEW S \in SUBSET Entries, IsFiniteSet(S),
           \A x, y \in S : x.at = y.at => x = y,
           NEW l \in Seq(S), \A x \in S : \E i \in DOMAIN l : l[i] = x,
           \A i, j \in DOMAIN l : i < j => l[j].at < l[i].at
    PROVE  l = NewestFirst(S)
<1>1. PICK key : key = [e \in S |-> e.at]
    OBVIOUS
<1>2. key \in [S -> Int] /\ \A x, y \in S : key[x] = key[y] => x = y
    BY <1>1 DEF Entries
<1>3. PICK len \in Nat : len = Len(l) /\ DOMAIN l = 1 .. len
    OBVIOUS
<1>4. PICK rev : rev = [i \in 1 .. len |-> l[(len - i) + 1]]
    OBVIOUS
<1>5. \A i \in 1 .. len : (len - i) + 1 \in 1 .. len /\ rev[i] = l[(len - i) + 1] /\ rev[i] \in S
    BY <1>3, <1>4
<1>6. rev \in Seq(S) /\ DOMAIN rev = 1 .. len /\ Len(rev) = len
    BY <1>3, <1>4, <1>5
<1>7. ASSUME NEW i \in 1 .. len, NEW j \in 1 .. len, i < j PROVE key[rev[i]] < key[rev[j]]
    <2>1. (len - j) + 1 < (len - i) + 1
        BY <1>7
    <2>2. l[(len - i) + 1].at < l[(len - j) + 1].at
        BY <1>3, <1>5, <2>1
    <2> QED
        BY <1>1, <1>5, <2>2
<1>8. ASSUME NEW x \in S PROVE \E i \in 1 .. len : rev[i] = x
    <2>1. PICK k \in 1 .. len : l[k] = x
        BY <1>3
    <2>2. (len - k) + 1 \in 1 .. len /\ (len - ((len - k) + 1)) + 1 = k
        BY <1>3
    <2> QED
        BY <1>5, <2>1, <2>2
<1>9. rev = Ascending(S, key)
    <2>1. \A i, j \in DOMAIN rev : i < j => key[rev[i]] < key[rev[j]]
        BY <1>6, <1>7
    <2>2. \A x \in S : \E i \in DOMAIN rev : rev[i] = x
        BY <1>6, <1>8
    <2>3. Sorts(rev, S, key)
        BY <1>6, <2>1, <2>2, Zenon DEF Sorts
    <2> QED
        BY <1>2, <2>3, AscendingUnique
<1>10. OldestFirst(S) = rev
    BY <1>1, <1>9 DEF OldestFirst
<1>11. NewestFirst(S) = [i \in 1 .. len |-> rev[(len - i) + 1]]
    BY <1>6, <1>10 DEF NewestFirst, Reverse
<1>12. ASSUME NEW i \in 1 .. len PROVE rev[(len - i) + 1] = l[i]
    <2>1. (len - i) + 1 \in 1 .. len /\ (len - ((len - i) + 1)) + 1 = i
        BY <1>3
    <2> QED
        BY <1>5, <2>1
<1>13. l = [i \in 1 .. len |-> l[i]]
    BY <1>3
<1> QED
    BY <1>11, <1>12, <1>13

----------------------------------------------------------------------------
(* What a list is worth: it represents the first a events of the history src  *)

Happened(src, p, type, id) == \E i \in 1 .. p : src[i] = Event(type, id)

\* A message that nobody deletes, as far as src goes.
Lasting(src, id) == ~Happened(src, Len(src), "deleted", id)

\* Every message of the list was created, and none was deleted before event a.
Genuine(src, l, a) ==
    \A k \in DOMAIN l :
       /\ Happened(src, Len(src), "new", l[k].id)
       /\ ~Happened(src, a, "deleted", l[k].id)

\* The messages created by then are there, unless they are deleted later,
Complete(src, l, a) ==
    \A i \in 1 .. a, id \in Msg :
       src[i] = Event("new", id) /\ Lasting(src, id) => \E k \in DOMAIN l : l[k].id = id

\* with their time and, unless they are edited later, their text,
UpToDate(src, l, a) ==
    \A i \in 1 .. a, k \in DOMAIN l :
       src[i] = Event("new", l[k].id) /\ Lasting(src, l[k].id) =>
          /\ l[k].at = At(i)
          /\ (Happened(src, Len(src), "updated", l[k].id) => Happened(src, a, "updated", l[k].id)) =>
                (l[k].edited <=> Happened(src, a, "updated", l[k].id))

\* and the newest first. A list read from a projection that is ahead may also have
\* messages created later; their events are still to come.
Ordered(src, l, a) ==
    \A h, i \in 1 .. a, j, k \in DOMAIN l :
       /\ src[h] = Event("new", l[j].id) /\ Lasting(src, l[j].id)
       /\ src[i] = Event("new", l[k].id) /\ Lasting(src, l[k].id)
       /\ j < k
       => i < h

Represents(src, l, a) ==
    Genuine(src, l, a) /\ Complete(src, l, a) /\ UpToDate(src, l, a) /\ Ordered(src, l, a)

LEMMA HappenedNext ==
    ASSUME NEW src, NEW a \in Nat, NEW type, NEW id
    PROVE  Happened(src, a + 1, type, id) <=>
              Happened(src, a, type, id) \/ src[a + 1] = Event(type, id)
<1>1. \A i : i \in 1 .. a + 1 <=> (i \in 1 .. a \/ i = a + 1)
    OBVIOUS
<1> QED
    BY <1>1 DEF Happened

LEMMA HappenedBefore ==
    ASSUME NEW src, NEW a \in Nat, NEW p \in Nat, a <= p, NEW type, NEW id,
           Happened(src, a, type, id)
    PROVE  Happened(src, p, type, id)
<1>1. \A i \in 1 .. a : i \in 1 .. p
    OBVIOUS
<1> QED
    BY <1>1 DEF Happened

\* The other events of a message come after its creation.
LEMMA CreatedFirst ==
    ASSUME HistoryOK, NEW n \in DOMAIN source, NEW id, source[n] = Event("new", id),
           NEW type, type # "new", NEW p \in 0 .. Len(source), Happened(source, p, type, id)
    PROVE  p > n
<1>1. PICK i \in 1 .. p : source[i] = Event(type, id)
    BY DEF Happened
<1>2. Len(source) \in Nat /\ DOMAIN source = 1 .. Len(source)
    BY HistoryFacts
<1>3. i \in DOMAIN source /\ i \in Nat /\ p \in Nat /\ i <= p
    BY <1>2
<1>4. source[i].type # "new" /\ source[i].id = id
    BY <1>1, EventFacts
<1>5. PICK j \in DOMAIN source : j < i /\ source[j] = Event("new", id)
    BY <1>3, <1>4 DEF HistoryOK
<1>6. j = n
    BY <1>5 DEF HistoryOK
<1> QED
    BY <1>2, <1>3, <1>5, <1>6

\* Later events take nothing away from a list that represents earlier ones.
LEMMA RepresentsStays ==
    ASSUME NEW src \in Seq(Events), NEW ev \in Events, NEW next, next = Append(src, ev),
           NEW a \in 0 .. Len(src)
    PROVE  /\ \A l : Genuine(src, l, a) => Genuine(next, l, a)
           /\ \A l : Represents(src, l, a) => Represents(next, l, a)
<1>1. PICK n \in Nat : n = Len(src) /\ DOMAIN src = 1 .. n
    OBVIOUS
<1>2. Len(next) = n + 1 /\ \A i \in 1 .. n : next[i] = src[i]
    BY <1>1
<1>3. \A i \in 1 .. a : i \in 1 .. n
    BY <1>1
<1>4. \A type, id : Happened(next, a, type, id) <=> Happened(src, a, type, id)
    BY <1>2, <1>3 DEF Happened
<1>5. \A type, id : Happened(src, Len(src), type, id) => Happened(next, Len(next), type, id)
    BY <1>1, <1>2 DEF Happened
<1>6. \A id : Lasting(next, id) => Lasting(src, id)
    BY <1>5 DEF Lasting
<1>7. \A i \in 1 .. a : next[i] = src[i]
    BY <1>2, <1>3
<1>8. ASSUME NEW l, Genuine(src, l, a) PROVE Genuine(next, l, a)
    BY <1>4, <1>5, <1>8 DEF Genuine
<1>9. ASSUME NEW l, Represents(src, l, a) PROVE Represents(next, l, a)
    <2>1. Complete(next, l, a)
        BY <1>6, <1>7, <1>9 DEF Represents, Complete
    <2>2. UpToDate(next, l, a)
        BY <1>4, <1>5, <1>6, <1>7, <1>9 DEF Represents, UpToDate
    <2>3. Ordered(next, l, a)
        BY <1>6, <1>7, <1>9 DEF Represents, Ordered
    <2> QED
        BY <1>8, <1>9, <2>1, <2>2, <2>3 DEF Represents
<1> QED
    BY <1>8, <1>9

\* The members of Live(p), one by one.
LEMMA LiveMembers ==
    ASSUME HistoryOK, NEW p \in 0 .. Len(source)
    PROVE  /\ \A x \in Live(p) :
                 /\ \E i \in 1 .. p : source[i] = Event("new", x.id) /\ x.at = At(i)
                 /\ ~Happened(source, p, "deleted", x.id)
                 /\ x.edited <=> Happened(source, p, "updated", x.id)
                 /\ x.edited \in BOOLEAN
           /\ \A i \in 1 .. p, id \in Msg :
                 source[i] = Event("new", id) /\ ~Happened(source, p, "deleted", id) =>
                    Entry(id, Happened(source, p, "updated", id), At(i)) \in Live(p)
<1>1. PICK New : New = {i \in 1..p : source[i].type = "new"
                                       /\ ~Happened(source, p, "deleted", source[i].id)}
    OBVIOUS
<1>2. Live(p) = {Entry(source[i].id, Happened(source, p, "updated", source[i].id), At(i)) : i \in New}
    BY <1>1 DEF Live, Happened, Event
<1>3. \A i \in 1 .. p : source[i] = Event(source[i].type, source[i].id)
    BY HistoryFacts, EventFacts
<1>4. ASSUME NEW x \in Live(p)
      PROVE  /\ \E i \in 1 .. p : source[i] = Event("new", x.id) /\ x.at = At(i)
             /\ ~Happened(source, p, "deleted", x.id)
             /\ x.edited <=> Happened(source, p, "updated", x.id)
             /\ x.edited \in BOOLEAN
    <2>1. PICK i \in New : x = Entry(source[i].id, Happened(source, p, "updated", source[i].id), At(i))
        BY <1>2
    <2>2. i \in 1 .. p /\ source[i].type = "new" /\ ~Happened(source, p, "deleted", source[i].id)
        BY <1>1
    <2>3. /\ x.id = source[i].id /\ x.at = At(i)
          /\ x.edited = Happened(source, p, "updated", source[i].id)
        BY <2>1 DEF Entry
    <2>4. source[i] = Event("new", x.id)
        BY <1>3, <2>2, <2>3
    <2> QED
        BY <2>2, <2>3, <2>4 DEF Happened
<1>5. ASSUME NEW i \in 1 .. p, NEW id \in Msg, source[i] = Event("new", id),
             ~Happened(source, p, "deleted", id)
      PROVE  Entry(id, Happened(source, p, "updated", id), At(i)) \in Live(p)
    <2>1. source[i].id = id /\ source[i].type = "new"
        BY <1>5, EventFacts
    <2>2. i \in New
        BY <1>1, <1>5, <2>1
    <2> QED
        BY <1>2, <2>1, <2>2
<1> QED
    BY <1>4, <1>5

\* A list read from a projection that has everything up to event a represents it.
LEMMA LiveRepresents ==
    ASSUME HistoryOK, NEW p \in 0 .. Len(source), NEW a \in 0 .. p
    PROVE  Represents(source, NewestFirst(Live(p)), a)
<1>1. PICK l : l = NewestFirst(Live(p))
    OBVIOUS
<1>2. PICK n \in Nat : n = Len(source) /\ DOMAIN source = 1 .. n
    BY HistoryFacts
<1>3. /\ Live(p) \in SUBSET Entries /\ IsFiniteSet(Live(p))
      /\ \A x, y \in Live(p) : x.at = y.at => x = y
    BY LiveFacts
<1>4. /\ l \in Seq(Live(p))
      /\ \A i, j \in DOMAIN l : i < j => l[j].at < l[i].at
      /\ \A x \in Live(p) : \E i \in DOMAIN l : l[i] = x
    BY <1>1, <1>3, NewestFirstFacts
<1>5. \A k \in DOMAIN l : l[k] \in Live(p)
    BY <1>4
<1>6. /\ \A k \in DOMAIN l :
            /\ \E i \in 1 .. p : source[i] = Event("new", l[k].id) /\ l[k].at = At(i)
            /\ ~Happened(source, p, "deleted", l[k].id)
            /\ l[k].edited <=> Happened(source, p, "updated", l[k].id)
    BY <1>5, LiveMembers
<1>7. p \in Nat /\ a \in Nat /\ a <= p /\ p <= n /\ \A i \in 1 .. p : i \in DOMAIN source /\ i \in Nat
    BY <1>2
<1>8. \A i \in 1 .. a : i \in 1 .. p
    BY <1>7
<1>9. \A type, id : /\ Happened(source, a, type, id) => Happened(source, p, type, id)
                    /\ Happened(source, p, type, id) => Happened(source, Len(source), type, id)
    BY <1>2, <1>7, HappenedBefore
\* The place of an entry's creation in the history gives its time.
<1>10. ASSUME NEW k \in DOMAIN l, NEW i \in 1 .. p, source[i] = Event("new", l[k].id)
       PROVE  l[k].at = At(i)
    <2>1. PICK j \in 1 .. p : source[j] = Event("new", l[k].id) /\ l[k].at = At(j)
        BY <1>6
    <2>2. i = j
        BY <1>7, <1>10, <2>1 DEF HistoryOK
    <2> QED
        BY <2>1, <2>2
<1>11. Genuine(source, l, a)
    <2> SUFFICES ASSUME NEW k \in DOMAIN l
                 PROVE  /\ Happened(source, Len(source), "new", l[k].id)
                        /\ ~Happened(source, a, "deleted", l[k].id)
        BY DEF Genuine
    <2>1. Happened(source, p, "new", l[k].id)
        BY <1>6 DEF Happened
    <2> QED
        BY <1>6, <1>9, <2>1
<1>12. Complete(source, l, a)
    <2> SUFFICES ASSUME NEW i \in 1 .. a, NEW id \in Msg,
                        source[i] = Event("new", id), Lasting(source, id)
                 PROVE  \E k \in DOMAIN l : l[k].id = id
        BY DEF Complete
    <2>1. i \in 1 .. p /\ ~Happened(source, p, "deleted", id)
        BY <1>8, <1>9 DEF Lasting
    <2>2. Entry(id, Happened(source, p, "updated", id), At(i)) \in Live(p)
        BY <2>1, LiveMembers
    <2>3. Entry(id, Happened(source, p, "updated", id), At(i)).id = id
        BY DEF Entry
    <2> QED
        BY <1>4, <2>2, <2>3
<1>13. UpToDate(source, l, a)
    <2> SUFFICES ASSUME NEW i \in 1 .. a, NEW k \in DOMAIN l, source[i] = Event("new", l[k].id)
                 PROVE  /\ l[k].at = At(i)
                        /\ (Happened(source, Len(source), "updated", l[k].id) =>
                               Happened(source, a, "updated", l[k].id)) =>
                              (l[k].edited <=> Happened(source, a, "updated", l[k].id))
        BY DEF UpToDate
    <2> QED
        BY <1>6, <1>8, <1>9, <1>10
<1>14. Ordered(source, l, a)
    <2> SUFFICES ASSUME NEW h \in 1 .. a, NEW i \in 1 .. a, NEW j \in DOMAIN l, NEW k \in DOMAIN l,
                        source[h] = Event("new", l[j].id), source[i] = Event("new", l[k].id), j < k
                 PROVE  i < h
        BY DEF Ordered
    <2>1. l[j].at = At(h) /\ l[k].at = At(i) /\ l[k].at < l[j].at
        BY <1>4, <1>8, <1>10
    <2>2. h \in Nat /\ i \in Nat
        BY <1>7, <1>8
    <2> QED
        BY <2>1, <2>2 DEF At
<1> QED
    BY <1>1, <1>11, <1>12, <1>13, <1>14 DEF Represents

\* Putting genuine messages that a list does not have in front of it does no harm.
LEMMA MissingRepresents ==
    ASSUME NEW src, NEW a, NEW K, NEW l, Page(l, K), Represents(src, l, a),
           NEW page, Page(page, K), Genuine(src, page, a)
    PROVE  Represents(src, Missing(page, l) \o l, a)
<1>1. PICK m : m = Missing(page, l)
    OBVIOUS
<1>2. /\ Page(m, K)
      /\ \A k \in DOMAIN m :
            /\ \E i \in DOMAIN page : m[k] = page[i]
            /\ \A j \in DOMAIN l : l[j].id # m[k].id
    BY <1>1, MissingFacts
<1>3. l \in Seq(Entries) /\ m \in Seq(Entries)
    BY <1>2 DEF Page
<1>4. PICK n \in Nat : n = Len(m) /\ DOMAIN m = 1 .. n
    BY <1>3
<1>5. PICK r : r = m \o l
    OBVIOUS
<1>6. /\ DOMAIN r = 1 .. n + Len(l) /\ Len(l) \in Nat /\ DOMAIN l = 1 .. Len(l)
      /\ \A k \in DOMAIN r : r[k] = IF k <= n THEN m[k] ELSE l[k - n]
    BY <1>3, <1>4, <1>5
<1>7. \A k \in DOMAIN r : \/ k \in DOMAIN m /\ r[k] = m[k]
                          \/ k - n \in DOMAIN l /\ r[k] = l[k - n] /\ ~(k <= n)
    BY <1>4, <1>6
<1>8. \A k \in DOMAIN l : k + n \in DOMAIN r /\ r[k + n] = l[k]
    <2> SUFFICES ASSUME NEW k \in DOMAIN l PROVE k + n \in DOMAIN r /\ r[k + n] = l[k]
        OBVIOUS
    <2>1. k + n \in DOMAIN r /\ ~(k + n <= n) /\ (k + n) - n = k
        BY <1>4, <1>6
    <2> QED
        BY <1>6, <2>1
\* None of the new ones counts for what Represents asks of the first a events.
<1>9. ASSUME NEW k \in DOMAIN m, NEW i \in 1 .. a, src[i] = Event("new", m[k].id),
             Lasting(src, m[k].id)
      PROVE  FALSE
    <2>1. m[k] \in Entries
        BY <1>3
    <2>2. m[k].id \in Msg
        BY <2>1 DEF Entries
    <2> QED
        BY <1>2, <1>9, <2>2 DEF Represents, Complete
<1>10. Genuine(src, r, a)
    BY <1>2, <1>7 DEF Genuine, Represents
<1>11. Complete(src, r, a)
    <2> SUFFICES ASSUME NEW i \in 1 .. a, NEW id \in Msg,
                        src[i] = Event("new", id), Lasting(src, id)
                 PROVE  \E k \in DOMAIN r : r[k].id = id
        BY DEF Complete
    <2>1. PICK k \in DOMAIN l : l[k].id = id
        BY DEF Represents, Complete
    <2> QED
        BY <1>8, <2>1
<1>12. UpToDate(src, r, a)
    <2> SUFFICES ASSUME NEW i \in 1 .. a, NEW k \in DOMAIN r,
                        src[i] = Event("new", r[k].id), Lasting(src, r[k].id)
                 PROVE  /\ r[k].at = At(i)
                        /\ (Happened(src, Len(src), "updated", r[k].id) =>
                               Happened(src, a, "updated", r[k].id)) =>
                              (r[k].edited <=> Happened(src, a, "updated", r[k].id))
        BY DEF UpToDate
    <2>1. k - n \in DOMAIN l /\ r[k] = l[k - n]
        BY <1>7, <1>9
    <2> QED
        BY <2>1 DEF Represents, UpToDate
<1>13. Ordered(src, r, a)
    <2> SUFFICES ASSUME NEW h \in 1 .. a, NEW i \in 1 .. a, NEW j \in DOMAIN r, NEW k \in DOMAIN r,
                        src[h] = Event("new", r[j].id), Lasting(src, r[j].id),
                        src[i] = Event("new", r[k].id), Lasting(src, r[k].id), j < k
                 PROVE  i < h
        BY DEF Ordered
    <2>1. j - n \in DOMAIN l /\ r[j] = l[j - n] /\ k - n \in DOMAIN l /\ r[k] = l[k - n]
        BY <1>7, <1>9
    <2>2. j - n < k - n
        BY <1>4, <1>6
    <2> QED
        BY <2>1, <2>2 DEF Represents, Ordered
<1> QED
    BY <1>1, <1>5, <1>10, <1>11, <1>12, <1>13 DEF Represents

\* The list that represents the whole history is the one the server would send.
LEMMA FullList ==
    ASSUME HistoryOK, NEW l, Page(l, Known), Represents(source, l, Len(source))
    PROVE  l = NewestFirst(Live(Len(source)))
<1>1. PICK n \in 0 .. Len(source) : n = Len(source) /\ DOMAIN source = 1 .. n /\ n \in Nat
    <2>1. Len(source) \in Nat /\ Len(source) \in 0 .. Len(source)
        BY HistoryFacts
    <2> QED
        BY <2>1, HistoryFacts
<1>2. PICK S : S = Live(n)
    OBVIOUS
<1>3. /\ S \in SUBSET Entries /\ IsFiniteSet(S)
      /\ \A x, y \in S : x.at = y.at => x = y
    BY <1>1, <1>2, LiveFacts
<1>4. /\ \A x \in S :
            /\ \E i \in 1 .. n : source[i] = Event("new", x.id) /\ x.at = At(i)
            /\ ~Happened(source, n, "deleted", x.id)
            /\ x.edited <=> Happened(source, n, "updated", x.id)
            /\ x.edited \in BOOLEAN
      /\ \A i \in 1 .. n, id \in Msg :
            source[i] = Event("new", id) /\ ~Happened(source, n, "deleted", id) =>
               Entry(id, Happened(source, n, "updated", id), At(i)) \in S
    BY <1>1, <1>2, LiveMembers
<1>5. l \in Seq(Entries) /\ IdsOnce(l) /\ \A k \in DOMAIN l : l[k] \in Entries /\ k \in Nat
    BY DEF Page
<1>6. ASSUME NEW k \in DOMAIN l
      PROVE  /\ l[k] \in S
             /\ \E i \in 1 .. n : source[i] = Event("new", l[k].id) /\ l[k].at = At(i)
             /\ Lasting(source, l[k].id)
    <2>1. PICK i \in 1 .. n : source[i] = Event("new", l[k].id)
        BY <1>1 DEF Represents, Genuine, Happened
    <2>2. Lasting(source, l[k].id) /\ ~Happened(source, n, "deleted", l[k].id)
        BY <1>1 DEF Represents, Genuine, Lasting
    <2>3. l[k].at = At(i) /\ (l[k].edited <=> Happened(source, n, "updated", l[k].id))
        BY <1>1, <2>1, <2>2 DEF Represents, UpToDate
    <2>4. l[k].id \in Msg /\ l[k].edited \in BOOLEAN /\ l[k] = Entry(l[k].id, l[k].edited, l[k].at)
        BY <1>5 DEF Entries, Entry
    <2>5. l[k].edited = Happened(source, n, "updated", l[k].id)
        BY <2>3, <2>4 DEF Happened
    <2>6. Entry(l[k].id, Happened(source, n, "updated", l[k].id), At(i)) \in S
        BY <1>4, <2>1, <2>2, <2>4
    <2> QED
        BY <2>1, <2>2, <2>3, <2>4, <2>5, <2>6
<1>7. l \in Seq(S)
    BY <1>5, <1>6
<1>8. ASSUME NEW x \in S PROVE \E k \in DOMAIN l : l[k] = x
    <2>1. PICK i \in 1 .. n : source[i] = Event("new", x.id) /\ x.at = At(i)
        BY <1>4
    <2>2. Lasting(source, x.id) /\ x.id \in Msg
        BY <1>1, <1>3, <1>4 DEF Lasting, Entries
    <2>3. PICK k \in DOMAIN l : l[k].id = x.id
        BY <1>1, <2>1, <2>2 DEF Represents, Complete
    <2>4. l[k] \in S /\ l[k].at = At(i)
        <3>1. PICK j \in 1 .. n : source[j] = Event("new", l[k].id) /\ l[k].at = At(j)
            BY <1>6
        <3>2. i = j
            BY <1>1, <2>1, <2>3, <3>1 DEF HistoryOK
        <3> QED
            BY <1>6, <3>1, <3>2
    <2>5. l[k] = x
        BY <1>3, <2>1, <2>4
    <2> QED
        BY <2>5
<1>9. ASSUME NEW j \in DOMAIN l, NEW k \in DOMAIN l, j < k PROVE l[k].at < l[j].at
    <2>1. PICK h \in 1 .. n : source[h] = Event("new", l[j].id) /\ l[j].at = At(h)
        BY <1>6
    <2>2. PICK i \in 1 .. n : source[i] = Event("new", l[k].id) /\ l[k].at = At(i)
        BY <1>6
    <2>3. Lasting(source, l[j].id) /\ Lasting(source, l[k].id)
        BY <1>6
    <2>4. i < h
        BY <1>1, <1>9, <2>1, <2>2, <2>3 DEF Represents, Ordered
    <2> QED
        BY <1>1, <2>1, <2>2, <2>4 DEF At
<1>10. l = NewestFirst(S)
    BY <1>3, <1>7, <1>8, <1>9, NewestFirstUnique
<1> QED
    BY <1>1, <1>2, <1>10

----------------------------------------------------------------------------
(* The next event: from a list that represents the first a events to one that *)
(* represents a + 1, with one lemma per kind of event                         *)

\* Losing a message that is deleted by then, or that comes anew.
LEMMA WithoutRepresents ==
    ASSUME NEW src, NEW a \in Nat, NEW K, NEW l, Page(l, K), Represents(src, l, a), NEW x,
           NEW r, r = Without(l, x)
    PROVE  /\ Genuine(src, r, a) /\ UpToDate(src, r, a) /\ Ordered(src, r, a)
           /\ \A i \in 1 .. a, id \in Msg :
                 src[i] = Event("new", id) /\ Lasting(src, id) /\ id # x =>
                    \E k \in DOMAIN r : r[k].id = id
           /\ \A k \in DOMAIN r : r[k].id # x
<1>1. /\ \A k \in DOMAIN r : r[k].id # x /\ \E i \in DOMAIN l : r[k] = l[i]
      /\ \A i \in DOMAIN l : l[i].id # x => \E k \in DOMAIN r : r[k] = l[i]
      /\ \A j, k \in DOMAIN r : j < k =>
            \E b, c \in DOMAIN l : b < c /\ r[j] = l[b] /\ r[k] = l[c]
    BY WithoutFacts
<1>2. Genuine(src, r, a)
    BY <1>1 DEF Represents, Genuine
<1>3. UpToDate(src, r, a)
    BY <1>1 DEF Represents, UpToDate
<1>4. Ordered(src, r, a)
    <2> SUFFICES ASSUME NEW h \in 1 .. a, NEW i \in 1 .. a, NEW j \in DOMAIN r, NEW k \in DOMAIN r,
                        src[h] = Event("new", r[j].id), Lasting(src, r[j].id),
                        src[i] = Event("new", r[k].id), Lasting(src, r[k].id), j < k
                 PROVE  i < h
        BY DEF Ordered
    <2>1. PICK b \in DOMAIN l, c \in DOMAIN l : b < c /\ r[j] = l[b] /\ r[k] = l[c]
        BY <1>1
    <2> QED
        BY <2>1 DEF Represents, Ordered
<1>5. ASSUME NEW i \in 1 .. a, NEW id \in Msg, src[i] = Event("new", id), Lasting(src, id), id # x
      PROVE  \E k \in DOMAIN r : r[k].id = id
    <2>1. PICK k \in DOMAIN l : l[k].id = id
        BY <1>5 DEF Represents, Complete
    <2> QED
        BY <1>1, <1>5, <2>1
<1> QED
    BY <1>1, <1>2, <1>3, <1>4, <1>5

\* A new message goes to the front.
LEMMA NewRepresents ==
    ASSUME HistoryOK, NEW a \in Nat, a + 1 \in DOMAIN source,
           NEW x, source[a + 1] = Event("new", x),
           NEW l, Page(l, Known), Represents(source, l, a),
           NEW m \in Entries, m.id = x, m.at = At(a + 1), m.edited = FALSE,
           NEW r, r = <<m>> \o Without(l, x)
    PROVE  Represents(source, r, a + 1)
<1>1. PICK w : w = Without(l, x)
    OBVIOUS
<1>2. /\ Genuine(source, w, a) /\ UpToDate(source, w, a) /\ Ordered(source, w, a)
      /\ \A i \in 1 .. a, id \in Msg :
            source[i] = Event("new", id) /\ Lasting(source, id) /\ id # x =>
               \E k \in DOMAIN w : w[k].id = id
      /\ \A k \in DOMAIN w : w[k].id # x
    BY <1>1, WithoutRepresents
<1>3. w \in Seq(Entries)
    <2>1. Page(w, Known)
        BY <1>1, WithoutFacts
    <2> QED
        BY <2>1 DEF Page
<1>4. /\ DOMAIN r = 1 .. Len(w) + 1 /\ Len(w) \in Nat /\ DOMAIN w = 1 .. Len(w) /\ r[1] = m
      /\ \A k \in DOMAIN r : k # 1 => k - 1 \in DOMAIN w /\ r[k] = w[k - 1]
      /\ \A k \in DOMAIN w : k + 1 \in DOMAIN r /\ r[k + 1] = w[k]
    BY <1>1, <1>3
<1>5. \A k \in DOMAIN r : \/ k = 1 /\ r[k] = m
                          \/ k # 1 /\ k - 1 \in DOMAIN w /\ r[k] = w[k - 1]
    BY <1>4
<1>6. PICK n \in Nat : n = Len(source) /\ DOMAIN source = 1 .. n
    BY HistoryFacts
<1>7. a + 1 \in 0 .. Len(source) /\ a \in 0 .. Len(source) /\ \A i \in 1 .. a + 1 : i \in DOMAIN source
    BY <1>6
\* The only event of x up to a + 1 is its creation.
<1>8. \A type : type # "new" => ~Happened(source, a + 1, type, x)
    <2> SUFFICES ASSUME NEW type, type # "new", Happened(source, a + 1, type, x) PROVE FALSE
        OBVIOUS
    <2>1. a + 1 > a + 1
        BY <1>7, CreatedFirst
    <2> QED
        BY <2>1
<1>9. \A type, id : type # "new" =>
         (Happened(source, a + 1, type, id) <=> Happened(source, a, type, id))
    <2>1. \A type, id : Happened(source, a + 1, type, id) <=>
                           Happened(source, a, type, id) \/ source[a + 1] = Event(type, id)
        BY HappenedNext, Zenon
    <2>2. \A type, id : type # "new" => source[a + 1] # Event(type, id)
        BY EventFacts
    <2> QED
        BY <2>1, <2>2, Zenon
<1>10. \A i \in 1 .. a + 1 : i \in 1 .. a \/ i = a + 1
    OBVIOUS
<1>11. \A i \in 1 .. a + 1 : \A id : source[i] = Event("new", id) /\ id # x => i \in 1 .. a
    BY <1>10, EventFacts
<1>12. \A i \in 1 .. a + 1 : source[i] = Event("new", x) => i = a + 1
    BY <1>7 DEF HistoryOK
<1>13. Genuine(source, r, a + 1)
    <2> SUFFICES ASSUME NEW k \in DOMAIN r
                 PROVE  /\ Happened(source, Len(source), "new", r[k].id)
                        /\ ~Happened(source, a + 1, "deleted", r[k].id)
        BY DEF Genuine
    <2>1. CASE k = 1 /\ r[k] = m
        <3>1. Happened(source, Len(source), "new", x)
            BY <1>6, <1>7 DEF Happened
        <3> QED
            BY <1>8, <2>1, <3>1
    <2>2. CASE k - 1 \in DOMAIN w /\ r[k] = w[k - 1]
        BY <1>2, <1>9, <2>2 DEF Genuine
    <2> QED
        BY <1>5, <2>1, <2>2
<1>14. Complete(source, r, a + 1)
    <2> SUFFICES ASSUME NEW i \in 1 .. a + 1, NEW id \in Msg,
                        source[i] = Event("new", id), Lasting(source, id)
                 PROVE  \E k \in DOMAIN r : r[k].id = id
        BY DEF Complete
    <2>1. CASE id = x
        <3>1. 1 \in DOMAIN r
            BY <1>4
        <3> QED
            BY <1>4, <2>1, <3>1
    <2>2. CASE id # x
        <3>1. PICK k \in DOMAIN w : w[k].id = id
            BY <1>2, <1>11, <2>2
        <3> QED
            BY <1>4, <3>1
    <2> QED
        BY <2>1, <2>2
<1>15. UpToDate(source, r, a + 1)
    <2> SUFFICES ASSUME NEW i \in 1 .. a + 1, NEW k \in DOMAIN r,
                        source[i] = Event("new", r[k].id), Lasting(source, r[k].id)
                 PROVE  /\ r[k].at = At(i)
                        /\ (Happened(source, Len(source), "updated", r[k].id) =>
                               Happened(source, a + 1, "updated", r[k].id)) =>
                              (r[k].edited <=> Happened(source, a + 1, "updated", r[k].id))
        BY DEF UpToDate
    <2>1. CASE k = 1 /\ r[k] = m
        BY <1>8, <1>12, <2>1
    <2>2. CASE k - 1 \in DOMAIN w /\ r[k] = w[k - 1]
        <3>1. i \in 1 .. a
            BY <1>2, <1>11, <2>2
        <3> QED
            BY <1>2, <1>9, <2>2, <3>1 DEF UpToDate
    <2> QED
        BY <1>5, <2>1, <2>2
<1>16. Ordered(source, r, a + 1)
    <2> SUFFICES ASSUME NEW h \in 1 .. a + 1, NEW i \in 1 .. a + 1,
                        NEW j \in DOMAIN r, NEW k \in DOMAIN r,
                        source[h] = Event("new", r[j].id), Lasting(source, r[j].id),
                        source[i] = Event("new", r[k].id), Lasting(source, r[k].id), j < k
                 PROVE  i < h
        BY DEF Ordered
    <2>1. k # 1 /\ j \in Nat /\ k \in Nat /\ k - 1 \in DOMAIN w /\ r[k] = w[k - 1]
        BY <1>4
    <2>2. i \in 1 .. a
        BY <1>2, <1>11, <2>1
    <2>3. CASE j = 1
        <3>1. h = a + 1
            BY <1>4, <1>12, <2>3
        <3> QED
            BY <2>2, <3>1
    <2>4. CASE j # 1
        <3>1. j - 1 \in DOMAIN w /\ r[j] = w[j - 1] /\ j - 1 < k - 1
            BY <1>4, <2>1, <2>4
        <3>2. h \in 1 .. a
            BY <1>2, <1>11, <3>1
        <3> QED
            BY <1>2, <2>1, <2>2, <3>1, <3>2 DEF Ordered
    <2> QED
        BY <2>3, <2>4
<1> QED
    BY <1>13, <1>14, <1>15, <1>16 DEF Represents

\* An edit replaces the message where it is.
Edited(l, x, m) == [k \in DOMAIN l |-> IF l[k].id = x THEN m ELSE l[k]]

LEMMA UpdatedRepresents ==
    ASSUME HistoryOK, NEW a \in Nat, a + 1 \in DOMAIN source,
           NEW x, source[a + 1] = Event("updated", x),
           NEW l, Page(l, Known), Represents(source, l, a),
           NEW m, m.id = x, m.edited = TRUE, m.at = CreatedAt(x),
           NEW r, r = Edited(l, x, m)
    PROVE  Represents(source, r, a + 1)
<1>1. PICK n \in Nat : n = Len(source) /\ DOMAIN source = 1 .. n
    BY HistoryFacts
<1>2. a + 1 \in 0 .. Len(source) /\ \A i \in 1 .. a + 1 : i \in DOMAIN source
    BY <1>1
<1>3. DOMAIN r = DOMAIN l /\ \A k \in DOMAIN l : r[k].id = l[k].id
    BY DEF Edited
<1>4. \A type, id : Happened(source, a + 1, type, id) <=>
                       Happened(source, a, type, id) \/ source[a + 1] = Event(type, id)
    BY HappenedNext, Zenon
<1>5. \A id : Happened(source, a + 1, "deleted", id) <=> Happened(source, a, "deleted", id)
    BY <1>4, EventFacts
<1>6. \A id : id # x =>
         (Happened(source, a + 1, "updated", id) <=> Happened(source, a, "updated", id))
    BY <1>4, EventFacts
<1>7. Happened(source, a + 1, "updated", x)
    BY <1>4
<1>8. \A i \in 1 .. a + 1 : \A id : source[i] = Event("new", id) => i \in 1 .. a
    <2>1. \A id : source[a + 1] # Event("new", id)
        BY EventFacts
    <2>2. \A i \in 1 .. a + 1 : i \in 1 .. a \/ i = a + 1
        OBVIOUS
    <2> QED
        BY <2>1, <2>2
<1>9. Genuine(source, r, a + 1)
    BY <1>3, <1>5 DEF Represents, Genuine
<1>10. Complete(source, r, a + 1)
    <2> SUFFICES ASSUME NEW i \in 1 .. a + 1, NEW id \in Msg,
                        source[i] = Event("new", id), Lasting(source, id)
                 PROVE  \E k \in DOMAIN r : r[k].id = id
        BY DEF Complete
    <2>1. PICK k \in DOMAIN l : l[k].id = id
        BY <1>8 DEF Represents, Complete
    <2> QED
        BY <1>3, <2>1
<1>11. UpToDate(source, r, a + 1)
    <2> SUFFICES ASSUME NEW i \in 1 .. a + 1, NEW k \in DOMAIN r,
                        source[i] = Event("new", r[k].id), Lasting(source, r[k].id)
                 PROVE  /\ r[k].at = At(i)
                        /\ (Happened(source, Len(source), "updated", r[k].id) =>
                               Happened(source, a + 1, "updated", r[k].id)) =>
                              (r[k].edited <=> Happened(source, a + 1, "updated", r[k].id))
        BY DEF UpToDate
    <2>1. i \in 1 .. a /\ k \in DOMAIN l /\ r[k].id = l[k].id
        BY <1>3, <1>8
    <2>2. CASE l[k].id = x
        <3>1. CreatedAt(x) = At(i)
            BY <1>2, <2>1, <2>2, CreatedAtFacts
        <3>2. r[k].at = CreatedAt(x) /\ r[k].edited = TRUE /\ r[k].id = x
            BY <2>1, <2>2 DEF Edited
        <3> QED
            BY <1>7, <3>1, <3>2
    <2>3. CASE l[k].id # x
        <3>1. r[k] = l[k]
            BY <2>1, <2>3 DEF Edited
        <3> QED
            BY <1>6, <2>1, <2>3, <3>1 DEF Represents, UpToDate
    <2> QED
        BY <2>2, <2>3
<1>12. Ordered(source, r, a + 1)
    BY <1>3, <1>8 DEF Represents, Ordered
<1> QED
    BY <1>9, <1>10, <1>11, <1>12 DEF Represents

\* A deletion takes the message away.
LEMMA DeletedRepresents ==
    ASSUME HistoryOK, NEW a \in Nat, a + 1 \in DOMAIN source,
           NEW x, source[a + 1] = Event("deleted", x),
           NEW l, Page(l, Known), Represents(source, l, a),
           NEW r, r = Without(l, x)
    PROVE  Represents(source, r, a + 1)
<1>1. PICK n \in Nat : n = Len(source) /\ DOMAIN source = 1 .. n
    BY HistoryFacts
<1>2. /\ Genuine(source, r, a) /\ UpToDate(source, r, a) /\ Ordered(source, r, a)
      /\ \A i \in 1 .. a, id \in Msg :
            source[i] = Event("new", id) /\ Lasting(source, id) /\ id # x =>
               \E k \in DOMAIN r : r[k].id = id
      /\ \A k \in DOMAIN r : r[k].id # x
    BY WithoutRepresents
<1>3. \A type, id : Happened(source, a + 1, type, id) <=>
                       Happened(source, a, type, id) \/ source[a + 1] = Event(type, id)
    BY HappenedNext, Zenon
<1>4. \A id : Happened(source, a + 1, "updated", id) <=> Happened(source, a, "updated", id)
    BY <1>3, EventFacts
<1>5. \A id : id # x =>
         (Happened(source, a + 1, "deleted", id) <=> Happened(source, a, "deleted", id))
    BY <1>3, EventFacts
<1>6. \A i \in 1 .. a + 1 : \A id : source[i] = Event("new", id) => i \in 1 .. a
    <2>1. \A id : source[a + 1] # Event("new", id)
        BY EventFacts
    <2>2. \A i \in 1 .. a + 1 : i \in 1 .. a \/ i = a + 1
        OBVIOUS
    <2> QED
        BY <2>1, <2>2
<1>7. ~Lasting(source, x)
    BY <1>1 DEF Lasting, Happened
<1>8. Genuine(source, r, a + 1)
    BY <1>2, <1>5 DEF Genuine
<1>9. Complete(source, r, a + 1)
    BY <1>2, <1>6, <1>7 DEF Complete
<1>10. UpToDate(source, r, a + 1)
    BY <1>2, <1>4, <1>6 DEF UpToDate
<1>11. Ordered(source, r, a + 1)
    BY <1>2, <1>6 DEF Ordered
<1> QED
    BY <1>8, <1>9, <1>10, <1>11 DEF Represents

\* handleWsMessage with the next event of the history.
LEMMA HandledRepresents ==
    ASSUME HistoryOK, NEW a \in Nat, a + 1 \in DOMAIN source,
           NEW ev, ev = source[a + 1],
           NEW l, l # None, Page(l, Known), Represents(source, l, a)
    PROVE  Represents(source, Handled(l, ev, CreatedAt(ev.id)), a + 1)
<1>1. PICK x : x = ev.id
    OBVIOUS
<1>2. /\ ev \in Events /\ ev = Event(ev.type, x) /\ ev.type \in {"new", "updated", "deleted"}
      /\ x \in Msg /\ l \in Seq(Entries)
    BY <1>1, HistoryFacts, EventFacts DEF Page
<1>3. PICK at : at = CreatedAt(x)
    OBVIOUS
<1>4. PICK r : r = Handled(l, ev, at)
    OBVIOUS
<1>5. CASE ev.type = "new"
    <2>1. at = At(a + 1) /\ at \in Nat
        BY <1>2, <1>3, <1>5, CreatedAtFacts
    <2>2. PICK m : m = Entry(x, FALSE, at)
        OBVIOUS
    <2>3. m \in Entries /\ m.id = x /\ m.at = At(a + 1) /\ m.edited = FALSE
        BY <1>2, <2>1, <2>2 DEF Entry, Entries
    <2>4. r = <<m>> \o Without(l, x)
        BY <1>1, <1>4, <1>5, <2>2 DEF Handled
    <2> QED
        BY <1>1, <1>2, <1>3, <1>4, <1>5, <2>3, <2>4, NewRepresents
<1>6. CASE ev.type = "updated"
    <2>1. r = [k \in DOMAIN l |-> IF l[k].id = x THEN Entry(x, TRUE, at) ELSE l[k]]
        BY <1>1, <1>4, <1>6 DEF Handled
    <2>2. PICK m : m = Entry(x, TRUE, at)
        OBVIOUS
    <2>3. m.id = x /\ m.edited = TRUE /\ m.at = CreatedAt(x)
        BY <1>3, <2>2 DEF Entry
    <2>4. r = Edited(l, x, m) /\ source[a + 1] = Event("updated", x)
        BY <1>2, <1>6, <2>1, <2>2 DEF Edited
    <2>5. Represents(source, r, a + 1)
        BY <2>3, <2>4, UpdatedRepresents
    <2> QED
        BY <1>1, <1>3, <1>4, <2>5
<1>7. CASE ev.type = "deleted"
    <2>1. r = Without(l, x)
        BY <1>1, <1>4, <1>7 DEF Handled
    <2> QED
        BY <1>1, <1>2, <1>3, <1>4, <1>7, <2>1, DeletedRepresents
<1> QED
    BY <1>2, <1>5, <1>6, <1>7

----------------------------------------------------------------------------
(* The invariant of the calm page *)

\* How many events the page has taken over, while the hub knows it.
Arrived == sent - Len(wire)

\* The wire carries what the hub has distributed last, in order.
HubOK ==
    /\ hub \in {"none", "upgraded", "registered", "gone"} /\ calm \in BOOLEAN
    /\ hub = "none" \/ hub = "upgraded" => wire = <<>>
    /\ ~Open => hub = "none"
    /\ calm => hub # "gone"
    /\ hub # "gone" => /\ Len(wire) <= sent
                       /\ \A i \in DOMAIN wire : wire[i] = source[Arrived + i]

\* The list is worth something: nobody is about to replace it.
Trusted == fetch.pc = "none" /\ mutation.pc = "none" /\ ~invalid /\ list # None

\* While all is calm, the page that was fetched and the list stand for the events that
\* have arrived, an open page without requests has such a list, and the resync has only
\* messages that have not been seen to be deleted.
CalmOK ==
    calm =>
       /\ fetch.pc = "read" => Represents(source, fetch.page, Arrived)
       /\ Open /\ fetch.pc = "none" /\ mutation.pc = "none" => Trusted
       /\ Trusted => Represents(source, list, Arrived)
       /\ Trusted => \A i \in DOMAIN resyncs :
                        resyncs[i].pc = "read" => Genuine(source, resyncs[i].page, Arrived)

CalmIInv == HubOK /\ CalmOK

LEMMA CalmInit == MessagesInit => CalmIInv
<1> SUFFICES ASSUME MessagesInit PROVE CalmIInv
    OBVIOUS
<1>1. HubOK
    BY DEF MessagesInit, HubOK
<1>2. CalmOK
    BY DEF MessagesInit, CalmOK, Trusted
<1> QED
    BY <1>1, <1>2 DEF CalmIInv

LEMMA ActiveMeansOpen ==
    ASSUME SocketIInv, ws[visit] \in {"connecting", "open"}
    PROVE  Open
BY DEF SocketIInv, VisitsOK, ClientOK, Active, Open

LEMMA ArrivedFacts ==
    ASSUME ListIInv, HubOK, hub # "gone"
    PROVE  /\ Arrived \in 0 .. Len(source) /\ Arrived \in Nat /\ Arrived + Len(wire) = sent
           /\ Len(wire) \in Nat /\ DOMAIN wire = 1 .. Len(wire)
           /\ sent \in Nat /\ sent <= Len(source) /\ Len(source) \in Nat
           /\ DOMAIN source = 1 .. Len(source)
<1>1. /\ Len(wire) \in Nat /\ DOMAIN wire = 1 .. Len(wire)
      /\ sent \in Nat /\ sent <= Len(source) /\ Len(source) \in Nat
      /\ DOMAIN source = 1 .. Len(source)
    BY HistoryFacts DEF ListIInv, HistoryOK, WireOK
<1>2. Len(wire) <= sent
    BY DEF HubOK
<1> QED
    BY <1>1, <1>2 DEF Arrived

\* What does not change keeps what is said of it.
LEMMA HubStays ==
    ASSUME HubOK, calm' \in BOOLEAN, calm' => calm, Open' = Open,
           UNCHANGED <<source, sent, hub, wire>>
    PROVE  HubOK'
BY DEF HubOK, Arrived

LEMMA CalmStays ==
    ASSUME CalmOK, calm' => calm, Open' = Open,
           UNCHANGED <<source, sent, wire, list, invalid, fetch, resyncs, mutation>>
    PROVE  CalmOK'
BY DEF CalmOK, Trusted, Arrived

LEMMA PageIsNotNone == \A l, K : Page(l, K) => l # None
BY MessagesConstants DEF Page, Entries, Msg

LEMMA OpenStays == ASSUME UNCHANGED <<visit, left>> PROVE Open' = Open
BY DEF Open

\* One more event.
LEMMA CalmGrows ==
    ASSUME ListIInv, CalmIInv, NEW ev \in Events, source' = Append(source, ev),
           mutation'.pc = "none" <=> mutation.pc = "none",
           UNCHANGED <<sent, visit, left, hub, wire, list, invalid, fetch, resyncs, calm>>
    PROVE  CalmIInv'
<1>1. source \in Seq(Events) /\ Open' = Open /\ HubOK /\ CalmOK
    BY OpenStays DEF ListIInv, HistoryOK, CalmIInv
<1>2. Arrived' = Arrived
    BY DEF Arrived
<1>3. HubOK'
    <2>1. ASSUME hub # "gone", NEW i \in DOMAIN wire PROVE source'[Arrived + i] = source[Arrived + i]
        <3>1. Arrived + i \in 1 .. Len(source)
            BY <1>1, <2>1, ArrivedFacts
        <3> QED
            BY <1>1, <3>1
    <2> QED
        BY <1>1, <1>2, <2>1 DEF HubOK
<1>4. CalmOK'
    <2> SUFFICES ASSUME calm PROVE CalmOK'
        BY DEF CalmOK
    <2>1. Arrived \in 0 .. Len(source)
        BY <1>1, ArrivedFacts DEF HubOK
    <2>2. /\ \A l : Genuine(source, l, Arrived) => Genuine(source', l, Arrived)
          /\ \A l : Represents(source, l, Arrived) => Represents(source', l, Arrived)
        BY <1>1, <2>1, RepresentsStays
    <2>3. Trusted' <=> Trusted
        BY DEF Trusted
    <2> QED
        BY <1>1, <1>2, <2>2, <2>3 DEF CalmOK
<1> QED
    BY <1>3, <1>4 DEF CalmIInv

----------------------------------------------------------------------------
(* One lemma per action *)

LEMMA CalmCommit ==
    ASSUME ListIInv, CalmIInv, NEW type \in {"new", "updated", "deleted"}, NEW id \in Msg,
           Commit(type, id)
    PROVE  CalmIInv'
<1>1. PICK ev \in Events : ev = [type |-> type, id |-> id]
    BY DEF Events
<1>2. /\ source' = Append(source, ev)
      /\ UNCHANGED <<sent, visit, left, hub, wire, list, invalid, fetch, resyncs, mutation, calm>>
    BY <1>1 DEF Commit, visitVars, socketVars, clientVars, queryVars, listVars
<1> QED
    BY <1>2, CalmGrows

LEMMA CalmPostCommits ==
    ASSUME ListIInv, CalmIInv, PostCommits PROVE CalmIInv'
<1>1. /\ mutation.pc = "posting" /\ mutation' = [mutation EXCEPT !.pc = "stored"]
      /\ UNCHANGED <<sent, visit, left, hub, wire, list, invalid, fetch, resyncs, calm>>
      /\ source' = Append(source, [type |-> "new", id |-> mutation.id])
    BY DEF PostCommits, visitVars, socketVars, listVars
<1>2. mutation.id \in Msg /\ mutation'.pc = "stored"
    BY <1>1 DEF ListIInv, MutationOK, HistoryOK, Msg
<1>3. PICK ev \in Events : ev = [type |-> "new", id |-> mutation.id]
    BY <1>2 DEF Events
<1> QED
    BY <1>1, <1>2, <1>3, CalmGrows

LEMMA CalmDistribute ==
    ASSUME ListIInv, CalmIInv, Distribute PROVE CalmIInv'
<1>1. /\ sent < Len(source) /\ sent' = sent + 1
      /\ wire' = IF hub = "registered" THEN Append(wire, source[sent + 1]) ELSE wire
      /\ calm' = (calm /\ (hub = "registered" \/ fetch.pc = "asked"))
      /\ UNCHANGED <<source, visit, left, hub, list, invalid, fetch, resyncs, mutation>>
    BY DEF Distribute, visitVars, queryVars, listVars
<1>2. HubOK /\ CalmOK /\ Open' = Open /\ calm' \in BOOLEAN /\ (calm' => calm)
    BY <1>1, OpenStays DEF CalmIInv, HubOK
<1>3. CASE hub = "registered"
    <2>1. /\ Arrived \in Nat /\ Arrived + Len(wire) = sent /\ Len(wire) \in Nat
          /\ DOMAIN wire = 1 .. Len(wire) /\ wire \in Seq(Events) /\ source[sent + 1] \in Events
          /\ sent \in Nat
        <3>1. sent + 1 \in DOMAIN source
            BY <1>1, <1>2, <1>3, ArrivedFacts
        <3> QED
            BY <1>2, <1>3, <3>1, ArrivedFacts, HistoryFacts DEF ListIInv, WireOK
    <2>2. PICK ev : ev = source[sent + 1]
        OBVIOUS
    <2>3. /\ wire' = Append(wire, ev) /\ Len(wire') = Len(wire) + 1
          /\ DOMAIN wire' = 1 .. Len(wire) + 1
          /\ wire'[Len(wire) + 1] = ev /\ \A i \in 1 .. Len(wire) : wire'[i] = wire[i]
        BY <1>1, <1>3, <2>1, <2>2
    <2>4. Arrived' = Arrived
        BY <1>1, <2>1, <2>3 DEF Arrived
    <2>5. ASSUME NEW i \in DOMAIN wire' PROVE wire'[i] = source[Arrived + i]
        <3>1. CASE i = Len(wire) + 1
            <4>1. Arrived + i = sent + 1
                BY <2>1, <3>1
            <4> QED
                BY <2>2, <2>3, <3>1, <4>1
        <3>2. CASE i \in 1 .. Len(wire)
            BY <1>2, <1>3, <2>1, <2>3, <3>2 DEF HubOK
        <3> QED
            BY <2>1, <2>3, <3>1, <3>2
    <2>6. Len(wire') <= sent'
        BY <1>1, <2>1, <2>3
    <2>7. HubOK'
        BY <1>1, <1>2, <1>3, <2>4, <2>5, <2>6 DEF HubOK
    <2>8. CalmOK'
        BY <1>1, <1>2, <2>4 DEF CalmOK, Trusted
    <2> QED
        BY <2>7, <2>8 DEF CalmIInv
<1>4. CASE hub # "registered"
    <2>1. wire' = wire
        BY <1>1, <1>4
    <2>2. sent \in Nat
        BY HistoryFacts DEF ListIInv
    <2>3. hub # "gone" => wire = <<>>
        BY <1>2, <1>4 DEF HubOK
    <2>4. HubOK'
        BY <1>1, <1>2, <2>1, <2>2, <2>3 DEF HubOK
    <2>5. CalmOK'
        BY <1>1, <1>2, <1>4 DEF CalmOK, Trusted
    <2> QED
        BY <2>4, <2>5 DEF CalmIInv
<1> QED
    BY <1>3, <1>4

LEMMA CalmOnMessage ==
    ASSUME SocketIInv, ListIInv, CalmIInv, OnMessage PROVE CalmIInv'
<1>1. PICK ev : ev = Head(wire)
    OBVIOUS
<1>2. PICK r : r = Handled(list, ev, CreatedAt(ev.id))
    OBVIOUS
<1>3. /\ ws[visit] = "open" /\ wire # <<>> /\ wire' = Tail(wire)
      /\ list' = r /\ invalid' = FALSE /\ calm' = (calm /\ ~Busy)
      /\ UNCHANGED <<source, sent, projected, visit, left, hub, fetch, resyncs, mutation>>
    BY <1>1, <1>2 DEF OnMessage, SetList, serverVars, visitVars
<1>4. HubOK /\ CalmOK /\ Open /\ Open' = Open /\ HistoryOK /\ WireOK
    BY <1>3, ActiveMeansOpen, OpenStays DEF CalmIInv, ListIInv
<1>5. /\ Len(wire) \in Nat /\ Len(wire) > 0 /\ DOMAIN wire = 1 .. Len(wire) /\ ev = wire[1]
      /\ Len(wire') = Len(wire) - 1 /\ DOMAIN wire' = 1 .. Len(wire) - 1
      /\ \A i \in 1 .. Len(wire) - 1 : wire'[i] = wire[i + 1] /\ i + 1 \in 1 .. Len(wire)
    BY <1>1, <1>3, <1>4 DEF WireOK
<1>6. ASSUME hub # "gone"
      PROVE  /\ Arrived' = Arrived + 1 /\ Arrived \in Nat /\ Arrived + 1 \in DOMAIN source
             /\ ev = source[Arrived + 1] /\ Len(wire') <= sent
    <2>1. /\ Arrived \in Nat /\ Arrived + Len(wire) = sent
          /\ sent \in Nat /\ sent <= Len(source) /\ Len(source) \in Nat
          /\ DOMAIN source = 1 .. Len(source)
        BY <1>4, <1>6, ArrivedFacts
    <2>2. Arrived' = sent - Len(wire')
        BY <1>3 DEF Arrived
    <2>3. ev = source[Arrived + 1]
        BY <1>4, <1>5, <1>6 DEF HubOK
    <2>4. PICK len \in Nat : len = Len(wire) /\ len > 0 /\ Len(wire') = len - 1
        BY <1>5
    <2>5. Arrived' = Arrived + 1
        BY <2>1, <2>2, <2>4
    <2>6. Arrived + 1 \in DOMAIN source /\ Len(wire') <= sent
        BY <2>1, <2>4
    <2> QED
        BY <2>1, <2>3, <2>5, <2>6
<1>7. HubOK'
    <2>1. ASSUME hub # "gone", NEW i \in DOMAIN wire' PROVE wire'[i] = source[Arrived' + i]
        <3>1. wire'[i] = wire[i + 1] /\ i + 1 \in DOMAIN wire /\ i \in Nat
            BY <1>5, <2>1
        <3>2. wire[i + 1] = source[Arrived + (i + 1)]
            BY <1>4, <2>1, <3>1 DEF HubOK
        <3>3. Arrived + (i + 1) = Arrived' + i
            BY <1>6, <2>1, <3>1
        <3> QED
            BY <3>1, <3>2, <3>3
    <2>2. calm' \in BOOLEAN /\ (calm' => calm) /\ ~(hub = "none" \/ hub = "upgraded")
        BY <1>3, <1>4 DEF HubOK
    <2> QED
        BY <1>3, <1>4, <1>6, <2>1, <2>2 DEF HubOK
<1>8. CalmOK'
    <2> SUFFICES ASSUME calm' PROVE CalmOK'
        BY DEF CalmOK
    <2>1. calm /\ fetch.pc = "none" /\ resyncs = <<>> /\ mutation.pc = "none" /\ hub # "gone"
        BY <1>3, <1>4 DEF Busy, HubOK
    <2>2. list # None /\ Represents(source, list, Arrived) /\ Page(list, Known)
        BY <1>4, <2>1 DEF CalmOK, Trusted, ListIInv, ListOK
    <2>3. Represents(source, r, Arrived + 1)
        <3>1. PICK a \in Nat : a = Arrived
            BY <1>6, <2>1
        <3>2. PICK l : l = list
            OBVIOUS
        <3>3. /\ a + 1 \in DOMAIN source /\ ev = source[a + 1]
              /\ l # None /\ Page(l, Known) /\ Represents(source, l, a)
            BY <1>6, <2>1, <2>2, <3>1, <3>2
        <3>4. Represents(source, Handled(l, ev, CreatedAt(ev.id)), a + 1)
            BY <1>4, <3>3, HandledRepresents
        <3> QED
            BY <1>2, <3>1, <3>2, <3>4
    <2>4. r # None
        <3>1. ev \in Events /\ ev.id \in Known /\ Known \in SUBSET Msg
            BY <1>4, <1>6, <2>1, HistoryFacts DEF HistoryOK
        <3>2. CreatedAt(ev.id) \in Nat
            <4>1. PICK i \in DOMAIN source : source[i] = Event("new", ev.id)
                <5>1. CASE ev.type = "new"
                    BY <1>6, <2>1, <3>1, <5>1, EventFacts
                <5>2. CASE ev.type # "new"
                    BY <1>4, <1>6, <2>1, <5>2 DEF HistoryOK
                <5> QED
                    BY <5>1, <5>2
            <4> QED
                BY <1>4, <4>1, CreatedAtFacts
        <3>3. Page(r, Known)
            BY <1>2, <2>2, <3>1, <3>2, HandledPage, EventFacts
        <3> QED
            BY <3>3, PageIsNotNone
    <2>5. Trusted'
        BY <1>3, <2>1, <2>4 DEF Trusted
    <2>6. Represents(source, r, Arrived')
        BY <1>6, <2>1, <2>3
    <2> QED
        BY <1>3, <2>1, <2>5, <2>6 DEF CalmOK
<1> QED
    BY <1>7, <1>8 DEF CalmIInv

LEMMA CalmResyncRead ==
    ASSUME ListIInv, CalmIInv, NEW i \in DOMAIN resyncs, ResyncRead(i) PROVE CalmIInv'
<1>1. PICK S : S = {e \in Live(projected) : e.at > resyncs[i].after}
    OBVIOUS
<1>2. PICK page : page = OldestFirst(S)
    OBVIOUS
<1>3. /\ resyncs' = [resyncs EXCEPT ![i].pc = "read", ![i].page = page]
      /\ calm' = (calm /\ projected >= sent)
      /\ UNCHANGED <<source, sent, visit, left, hub, wire, list, invalid, fetch, mutation>>
    BY <1>1, <1>2 DEF ResyncRead, serverVars, visitVars, socketVars, listVars
<1>4. HubOK /\ CalmOK /\ HistoryOK /\ Open' = Open
    BY <1>3, OpenStays DEF CalmIInv, ListIInv
<1>5. HubOK'
    BY <1>3, <1>4, HubStays DEF HubOK
<1>6. CalmOK'
    <2> SUFFICES ASSUME calm' PROVE CalmOK'
        BY DEF CalmOK
    <2>1. calm /\ projected >= sent /\ Arrived' = Arrived
        BY <1>3 DEF Arrived
    <2>2. /\ Arrived \in Nat /\ Arrived <= projected /\ projected \in 0 .. Len(source)
          /\ projected \in Nat /\ Len(source) \in Nat
        <3>1. Arrived \in Nat /\ Arrived + Len(wire) = sent /\ Len(wire) \in Nat
            BY <1>4, <2>1, ArrivedFacts DEF HubOK
        <3>2. projected \in 0 .. Len(source) /\ sent \in Nat /\ Len(source) \in Nat
            BY <1>4, HistoryFacts DEF HistoryOK
        <3> QED
            BY <2>1, <3>1, <3>2
    <2>3. Genuine(source, page, Arrived)
        <3>1. \A k \in DOMAIN page : page[k] \in Live(projected)
            <4>1. /\ Live(projected) \in SUBSET Entries /\ IsFiniteSet(Live(projected))
                  /\ \A x, y \in Live(projected) : x.at = y.at => x = y
                BY <1>4, <2>2, LiveFacts
            <4>2. /\ S \in SUBSET Entries /\ IsFiniteSet(S) /\ S \subseteq Live(projected)
                  /\ \A x, y \in S : x.at = y.at => x = y
                BY <1>1, <4>1, FS_Subset
            <4>3. page \in Seq(S)
                BY <1>2, <4>2, OldestFirstFacts
            <4> QED
                BY <4>2, <4>3
        <3> SUFFICES ASSUME NEW k \in DOMAIN page
                     PROVE  /\ Happened(source, Len(source), "new", page[k].id)
                            /\ ~Happened(source, Arrived, "deleted", page[k].id)
            BY DEF Genuine
        <3>2. /\ \E j \in 1 .. projected : source[j] = Event("new", page[k].id)
              /\ ~Happened(source, projected, "deleted", page[k].id)
            BY <1>4, <2>2, <3>1, LiveMembers
        <3>3. Happened(source, Len(source), "new", page[k].id)
            BY <2>2, <3>2 DEF Happened
        <3>4. PICK a \in Nat : a = Arrived
            BY <2>2
        <3>5. ~Happened(source, a, "deleted", page[k].id)
            BY <2>2, <3>2, <3>4, HappenedBefore
        <3> QED
            BY <3>3, <3>4, <3>5
    <2>4. /\ DOMAIN resyncs' = DOMAIN resyncs
          /\ \A j \in DOMAIN resyncs : resyncs'[j].page = page \/ resyncs'[j] = resyncs[j]
        <3>1. PICK q : q = [resyncs[i] EXCEPT !.pc = "read", !.page = page]
            OBVIOUS
        <3>2. q.page = page
            <4>1. resyncs[i] \in ResyncRequest
                BY DEF ListIInv, ResyncsOK
            <4> QED
                BY <3>1, <4>1 DEF ResyncRequest
        <3>3. resyncs' = [resyncs EXCEPT ![i] = q]
            BY <1>3, <3>1
        <3> QED
            BY <3>2, <3>3
    <2>5. Trusted' <=> Trusted
        BY <1>3 DEF Trusted
    <2> QED
        BY <1>3, <1>4, <2>1, <2>3, <2>4, <2>5 DEF CalmOK
<1> QED
    BY <1>5, <1>6 DEF CalmIInv

LEMMA CalmResyncApply ==
    ASSUME ListIInv, CalmIInv, NEW i \in DOMAIN resyncs, ResyncApply(i) PROVE CalmIInv'
<1>1. /\ resyncs[i].pc = "read" /\ resyncs' = RemoveAt(resyncs, i)
      /\ UNCHANGED <<source, sent, visit, left, hub, wire, fetch, mutation>>
    BY DEF ResyncApply, serverVars, visitVars, socketVars
<1>2. \A k \in DOMAIN resyncs' : \E j \in DOMAIN resyncs : resyncs'[k] = resyncs[j]
    BY <1>1, RemoveAtFacts DEF ListIInv, ResyncsOK
<1>3. HubOK /\ CalmOK /\ Open' = Open /\ Arrived' = Arrived
    BY <1>1, OpenStays DEF CalmIInv, Arrived
<1>4. CASE list = None \/ resyncs[i].page = <<>>
    <2>1. UNCHANGED <<list, invalid, calm>>
        BY <1>4 DEF ResyncApply, listVars
    <2>2. HubOK'
        BY <1>1, <1>3, <2>1, HubStays DEF HubOK
    <2>3. Trusted' <=> Trusted
        BY <1>1, <2>1 DEF Trusted
    <2>4. CalmOK'
        BY <1>1, <1>2, <1>3, <2>1, <2>3 DEF CalmOK
    <2> QED
        BY <2>2, <2>4 DEF CalmIInv
<1>5. CASE ~(list = None \/ resyncs[i].page = <<>>)
    <2>1. PICK r : r = Missing(resyncs[i].page, list) \o list
        OBVIOUS
    <2>2. list' = r /\ invalid' = FALSE /\ calm' = (calm /\ (Open \/ ~invalid))
        BY <1>5, <2>1 DEF ResyncApply, SetList
    <2>3. HubOK'
        BY <1>1, <1>3, <2>2, HubStays DEF HubOK
    <2>4. Page(list, Known) /\ Page(resyncs[i].page, Known)
        BY <1>5 DEF ListIInv, ListOK, ResyncsOK
    <2>5. r # None
        <3>1. PICK m : m = Missing(resyncs[i].page, list)
            OBVIOUS
        <3>2. Page(m, Known) /\ \A k \in DOMAIN m : \A j \in DOMAIN list : m[k].id # list[j].id
            BY <2>4, <3>1, MissingFacts
        <3>3. Page(m \o list, Known)
            BY <2>4, <3>2, JoinedPage
        <3> QED
            BY <2>1, <3>1, <3>3, PageIsNotNone
    <2>6. CalmOK'
        <3> SUFFICES ASSUME calm' PROVE CalmOK'
            BY DEF CalmOK
        <3>1. calm /\ (Open \/ ~invalid)
            BY <2>2
        <3>2. Trusted' => Trusted
            BY <1>1, <1>3, <1>5, <3>1 DEF CalmOK, Trusted
        <3>3. ASSUME Trusted PROVE Represents(source, r, Arrived)
            <4>1. Represents(source, list, Arrived) /\ Genuine(source, resyncs[i].page, Arrived)
                BY <1>1, <1>3, <3>1, <3>3 DEF CalmOK
            <4> QED
                BY <2>1, <2>4, <4>1, MissingRepresents
        <3>4. fetch.pc = "none" /\ mutation.pc = "none" => Trusted'
            BY <1>1, <2>2, <2>5 DEF Trusted
        <3> QED
            BY <1>1, <1>2, <1>3, <2>2, <3>1, <3>2, <3>3, <3>4 DEF CalmOK
    <2> QED
        BY <2>3, <2>6 DEF CalmIInv
<1> QED
    BY <1>4, <1>5

LEMMA CalmFetchRead ==
    ASSUME ListIInv, CalmIInv, FetchRead PROVE CalmIInv'
<1>1. PICK page : page = NewestFirst(Live(projected))
    OBVIOUS
<1>2. /\ fetch' = [pc |-> "read", page |-> page] /\ calm' = (calm /\ projected >= sent)
      /\ UNCHANGED <<source, sent, visit, left, hub, wire, list, invalid, resyncs, mutation>>
    BY <1>1 DEF FetchRead, serverVars, visitVars, socketVars, listVars
<1>3. HubOK /\ CalmOK /\ HistoryOK /\ Open' = Open /\ Arrived' = Arrived
    BY <1>2, OpenStays DEF CalmIInv, ListIInv, Arrived
<1>4. HubOK'
    BY <1>2, <1>3, HubStays DEF HubOK
<1>5. CalmOK'
    <2> SUFFICES ASSUME calm' PROVE CalmOK'
        BY DEF CalmOK
    <2>1. calm /\ projected >= sent
        BY <1>2
    <2>2. /\ Arrived \in Nat /\ Arrived + Len(wire) = sent /\ Len(wire) \in Nat
          /\ sent \in Nat /\ projected \in Nat /\ projected \in 0 .. Len(source)
        BY <1>3, <2>1, ArrivedFacts, HistoryFacts DEF HubOK, HistoryOK
    <2>3. Arrived \in 0 .. projected
        BY <2>1, <2>2
    <2>4. Represents(source, page, Arrived)
        BY <1>1, <1>3, <2>2, <2>3, LiveRepresents
    <2>5. fetch'.pc = "read" /\ fetch'.page = page
        BY <1>2
    <2> QED
        BY <1>2, <1>3, <2>4, <2>5 DEF CalmOK, Trusted
<1> QED
    BY <1>4, <1>5 DEF CalmIInv

LEMMA CalmFetchApply ==
    ASSUME ListIInv, CalmIInv, FetchApply PROVE CalmIInv'
<1>1. /\ fetch.pc = "read" /\ list' = fetch.page /\ invalid' = FALSE /\ fetch' = NoFetch
      /\ calm' = (calm /\ resyncs = <<>>)
      /\ UNCHANGED <<source, sent, visit, left, hub, wire, resyncs, mutation>>
    BY DEF FetchApply, SetList, serverVars, visitVars, socketVars
<1>2. HubOK /\ CalmOK /\ Open' = Open /\ Arrived' = Arrived /\ Page(fetch.page, Known)
    BY <1>1, OpenStays DEF CalmIInv, ListIInv, FetchOK, Arrived
<1>3. HubOK'
    BY <1>1, <1>2, HubStays DEF HubOK
<1>4. fetch'.pc = "none" /\ list' # None
    BY <1>1, <1>2, PageIsNotNone DEF NoFetch
<1>5. CalmOK'
    <2> SUFFICES ASSUME calm' PROVE CalmOK'
        BY DEF CalmOK
    <2>1. calm /\ resyncs' = <<>>
        BY <1>1
    <2>2. Represents(source, fetch.page, Arrived)
        BY <1>1, <1>2, <2>1 DEF CalmOK
    <2>3. Represents(source', list', Arrived')
        BY <1>1, <1>2, <2>2
    <2>4. mutation'.pc = "none" => Trusted'
        BY <1>1, <1>4 DEF Trusted
    <2> QED
        BY <1>4, <2>1, <2>3, <2>4 DEF CalmOK
<1> QED
    BY <1>3, <1>5 DEF CalmIInv

LEMMA CalmCreateMessage ==
    ASSUME CalmIInv, NEW o \in Own, CreateMessage(o) PROVE CalmIInv'
<1>1. /\ fetch'.pc = "none" /\ mutation'.pc = "posting"
      /\ UNCHANGED <<source, sent, visit, left, hub, wire, calm>>
    BY DEF CreateMessage, NoFetch, serverVars, visitVars, socketVars
<1>2. HubOK'
    BY <1>1, HubStays, OpenStays DEF CalmIInv, HubOK
<1>3. CalmOK'
    BY <1>1 DEF CalmOK, Trusted
<1> QED
    BY <1>2, <1>3 DEF CalmIInv

LEMMA CalmOnSuccess ==
    ASSUME CalmIInv, OnSuccess PROVE CalmIInv'
<1>1. /\ invalid' = TRUE
      /\ UNCHANGED <<source, sent, visit, left, hub, wire, list, calm>>
      /\ fetch' = IF Open /\ (list # None \/ fetch.pc = "none")
                  THEN [pc |-> "asked", page |-> <<>>] ELSE fetch
    BY DEF OnSuccess, serverVars, visitVars, socketVars
<1>2. HubOK /\ CalmOK /\ Open' = Open /\ Arrived' = Arrived
    BY <1>1, OpenStays DEF CalmIInv, Arrived
<1>3. HubOK'
    BY <1>1, <1>2, HubStays DEF HubOK
<1>4. CASE fetch' = [pc |-> "asked", page |-> <<>>]
    BY <1>1, <1>3, <1>4 DEF CalmIInv, CalmOK, Trusted
<1>5. CASE fetch' = fetch /\ ~(Open /\ fetch.pc = "none")
    <2>1. CalmOK'
        BY <1>1, <1>2, <1>5 DEF CalmOK, Trusted
    <2> QED
        BY <1>3, <2>1 DEF CalmIInv
<1> QED
    BY <1>1, <1>4, <1>5

\* A failure ends the calm.
LEMMA NoLongerCalm ==
    ASSUME CalmIInv, calm' = FALSE, Open' = Open, UNCHANGED <<source, sent, hub, wire>>
    PROVE  CalmIInv'
BY HubStays DEF CalmIInv, CalmOK

LEMMA CalmConnectionLost ==
    ASSUME SocketIInv, CalmIInv, ConnectionLost PROVE CalmIInv'
<1>1. /\ ws[visit] \in {"connecting", "open"} /\ hub' = "gone" /\ calm' = FALSE
      /\ UNCHANGED <<visit, left>>
    BY DEF ConnectionLost, visitVars
<1>2. Open' = Open /\ Open
    BY <1>1, ActiveMeansOpen, OpenStays
<1> QED
    BY <1>1, <1>2 DEF CalmIInv, CalmOK, HubOK

LEMMA CalmUpgrade ==
    ASSUME SocketIInv, CalmIInv, Upgrade PROVE CalmIInv'
<1>1. /\ ws[visit] \in {"connecting", "open"} /\ hub = "none" /\ hub' = "upgraded"
      /\ UNCHANGED <<source, sent, visit, left, wire, list, invalid, fetch, resyncs, mutation, calm>>
    BY DEF Upgrade, serverVars, visitVars, queryVars, listVars
<1>2. Open' = Open /\ Open /\ HubOK /\ CalmOK /\ Arrived' = Arrived
    BY <1>1, ActiveMeansOpen, OpenStays DEF CalmIInv, Arrived
<1>3. HubOK'
    BY <1>1, <1>2 DEF HubOK
<1> QED
    BY <1>1, <1>2, <1>3, CalmStays DEF CalmIInv

LEMMA CalmRegister ==
    ASSUME CalmIInv, Register PROVE CalmIInv'
<1>1. /\ hub = "upgraded" /\ hub' = "registered"
      /\ UNCHANGED <<source, sent, visit, left, wire, list, invalid, fetch, resyncs, mutation, calm>>
    BY DEF Register, serverVars, visitVars, queryVars, listVars
<1>2. Open' = Open /\ Open /\ HubOK /\ CalmOK /\ Arrived' = Arrived
    BY <1>1, OpenStays DEF CalmIInv, HubOK, Arrived
<1>3. HubOK'
    BY <1>1, <1>2 DEF HubOK
<1> QED
    BY <1>1, <1>2, <1>3, CalmStays DEF CalmIInv

LEMMA CalmOnOpen ==
    ASSUME SocketIInv, ListIInv, CalmIInv, OnOpen PROVE CalmIInv'
<1>1. /\ resyncs' = IF cursor = None \/ list \in {None, <<>>} THEN resyncs
                    ELSE Append(resyncs, [pc |-> "asked", after |-> cursor, page |-> <<>>])
      /\ UNCHANGED <<source, sent, visit, left, hub, wire, list, invalid, fetch, mutation, calm>>
    BY DEF OnOpen, serverVars, visitVars, listVars
<1>2. HubOK /\ CalmOK /\ Open' = Open /\ Arrived' = Arrived
    BY <1>1, OpenStays DEF CalmIInv, Arrived
<1>3. HubOK'
    BY <1>1, <1>2, HubStays DEF HubOK
<1>4. \A i \in DOMAIN resyncs' : \/ resyncs'[i].pc = "asked"
                                 \/ i \in DOMAIN resyncs /\ resyncs'[i] = resyncs[i]
    <2>1. PICK q : q = [pc |-> "asked", after |-> cursor, page |-> <<>>]
        OBVIOUS
    <2>2. resyncs \in Seq(ResyncRequest) /\ q.pc = "asked"
        BY <2>1 DEF ListIInv, ResyncsOK
    <2>3. resyncs' = resyncs \/ resyncs' = Append(resyncs, q)
        BY <1>1, <2>1
    <2> QED
        BY <2>2, <2>3
<1>5. Trusted' <=> Trusted
    BY <1>1 DEF Trusted
<1>6. CalmOK'
    BY <1>1, <1>2, <1>4, <1>5 DEF CalmOK
<1> QED
    BY <1>3, <1>6 DEF CalmIInv

LEMMA CalmOnClose ==
    ASSUME ListIInv, CalmIInv, NEW c \in Client, OnClose(c) PROVE CalmIInv'
<1>1. /\ \/ UNCHANGED <<hub, wire>>
         \/ hub = "gone" /\ hub' = "none" /\ wire' = <<>>
      /\ UNCHANGED <<source, sent, visit, left, list, invalid, fetch, resyncs, mutation, calm>>
    BY DEF OnClose, serverVars, visitVars, queryVars, listVars
<1>2. HubOK /\ CalmOK /\ Open' = Open /\ sent \in Nat
    BY <1>1, OpenStays, HistoryFacts DEF CalmIInv, ListIInv
<1>3. CASE UNCHANGED <<hub, wire>>
    BY <1>1, <1>2, <1>3, HubStays, CalmStays DEF CalmIInv, HubOK
<1>4. CASE hub = "gone" /\ hub' = "none" /\ wire' = <<>>
    <2>1. ~calm /\ calm' = FALSE
        BY <1>1, <1>2, <1>4 DEF HubOK
    <2>2. HubOK'
        BY <1>1, <1>2, <1>4, <2>1 DEF HubOK
    <2> QED
        BY <2>1, <2>2 DEF CalmIInv, CalmOK
<1> QED
    BY <1>1, <1>3, <1>4

LEMMA CalmLeave ==
    ASSUME ListIInv, CalmIInv, Leave PROVE CalmIInv'
<1>1. /\ left' = left \cup {visit} /\ hub' = "none" /\ wire' = <<>>
      /\ calm' = (calm /\ wire = <<>>)
      /\ UNCHANGED <<source, sent, visit, list, invalid, fetch, resyncs, mutation>>
    BY DEF Leave, Disconnect, serverVars, queryVars, listVars
<1>2. HubOK /\ CalmOK /\ sent \in Nat /\ ~Open'
    BY <1>1, HistoryFacts DEF CalmIInv, ListIInv, Open
<1>3. HubOK'
    BY <1>1, <1>2 DEF HubOK
<1>4. CalmOK'
    <2> SUFFICES ASSUME calm' PROVE CalmOK'
        BY DEF CalmOK
    <2>1. calm /\ Arrived' = Arrived
        BY <1>1 DEF Arrived
    <2>2. Trusted' <=> Trusted
        BY <1>1 DEF Trusted
    <2> QED
        BY <1>1, <1>2, <2>1, <2>2 DEF CalmOK
<1> QED
    BY <1>3, <1>4 DEF CalmIInv

LEMMA CalmForget ==
    ASSUME CalmIInv, Forget PROVE CalmIInv'
<1>1. /\ ~Open /\ list' = None /\ fetch.pc = "none"
      /\ UNCHANGED <<source, sent, visit, left, hub, wire, fetch, calm>>
    BY DEF Forget, serverVars, visitVars, socketVars
<1>2. HubOK /\ Open' = Open
    BY <1>1, OpenStays DEF CalmIInv
<1>3. HubOK'
    BY <1>1, <1>2, HubStays DEF HubOK
<1>4. CalmOK'
    BY <1>1, <1>2 DEF CalmOK, Trusted
<1> QED
    BY <1>3, <1>4 DEF CalmIInv

LEMMA CalmEnter ==
    ASSUME SocketIInv, CalmIInv, Enter PROVE CalmIInv'
<1>1. /\ ~Open /\ visit' = visit + 1
      /\ UNCHANGED <<source, sent, left, hub, wire, list, invalid, resyncs, mutation>>
    BY DEF Enter, serverVars
<1>2. \/ fetch' = [pc |-> "asked", page |-> <<>>] /\ calm' \in BOOLEAN
      \/ (fetch.pc # "none" \/ (list # None /\ ~invalid)) /\ UNCHANGED <<fetch, calm>>
    BY DEF Enter, CalmIInv, HubOK
<1>3. HubOK /\ CalmOK /\ hub = "none" /\ Arrived' = Arrived
    BY <1>1 DEF CalmIInv, HubOK, Arrived
<1>4. HubOK'
    BY <1>1, <1>2, <1>3 DEF HubOK
<1>5. CASE fetch' = [pc |-> "asked", page |-> <<>>]
    BY <1>4, <1>5 DEF CalmIInv, CalmOK, Trusted
<1>6. CASE (fetch.pc # "none" \/ (list # None /\ ~invalid)) /\ UNCHANGED <<fetch, calm>>
    <2>1. Trusted' <=> Trusted
        BY <1>1, <1>6 DEF Trusted
    <2>2. fetch.pc = "none" /\ mutation.pc = "none" => Trusted
        BY <1>6 DEF Trusted
    <2>3. CalmOK'
        BY <1>1, <1>3, <1>6, <2>1, <2>2 DEF CalmOK
    <2> QED
        BY <1>4, <2>3 DEF CalmIInv
<1> QED
    BY <1>2, <1>5, <1>6

----------------------------------------------------------------------------

LEMMA CalmNothingMoves ==
    ASSUME CalmIInv,
           UNCHANGED <<source, sent, visit, left, hub, wire, list, invalid, fetch, resyncs,
                       mutation, calm>>
    PROVE  CalmIInv'
BY HubStays, CalmStays, OpenStays DEF CalmIInv, HubOK

LEMMA CalmTimer ==
    ASSUME SocketIInv, CalmIInv, NEW c \in Client, ReconnectTimer(c) PROVE CalmIInv'
<1>1. c \notin left
    BY DEF ReconnectTimer, SocketIInv, ClientOK
<1>2. UNCHANGED <<source, sent, visit, left, hub, wire, list, invalid, fetch, resyncs,
                  mutation, calm>>
    BY <1>1 DEF ReconnectTimer, serverVars, queryVars, listVars
<1> QED
    BY <1>2, CalmNothingMoves

LEMMA CalmStep ==
    ASSUME SocketIInv, ListIInv, CalmIInv, MessagesNext PROVE CalmIInv'
<1>1. CASE Server
    <2>1. CASE Project
        BY <2>1, CalmNothingMoves
           DEF Project, visitVars, socketVars, clientVars, queryVars, listVars
    <2> QED
        BY <1>1, <2>1, CalmCommit, CalmDistribute DEF Server
<1>2. CASE Socket
    <2>1. CASE \E c \in Client : TicketArrives(c)
        BY <2>1, CalmNothingMoves DEF TicketArrives, serverVars, visitVars, queryVars, listVars
    <2>2. CASE \E c \in Client : TicketFails(c)
        BY <2>2, NoLongerCalm, OpenStays DEF TicketFails, serverVars, visitVars
    <2> QED
        BY <1>2, <2>1, <2>2, CalmTimer, CalmOnClose, CalmUpgrade, CalmRegister,
           CalmConnectionLost, CalmOnOpen DEF Socket
<1>3. CASE OnMessage
    BY <1>3, CalmOnMessage
<1>4. CASE Requests
    <2>1. CASE \E i \in DOMAIN resyncs : ResyncFails(i)
        BY <2>1, NoLongerCalm, OpenStays
           DEF ResyncFails, serverVars, visitVars, socketVars
    <2>2. CASE FetchFails \/ OnError
        BY <2>2, NoLongerCalm, OpenStays
           DEF FetchFails, OnError, serverVars, visitVars, socketVars
    <2> QED
        BY <1>4, <2>1, <2>2, CalmResyncRead, CalmResyncApply, CalmFetchRead, CalmFetchApply,
           CalmCreateMessage, CalmPostCommits, CalmOnSuccess DEF Requests
<1>5. CASE Visits
    BY <1>5, CalmLeave, CalmForget, CalmEnter DEF Visits
<1> QED
    BY <1>1, <1>2, <1>3, <1>4, <1>5 DEF MessagesNext

LEMMA InvImpliesCalmListConverges == ListIInv /\ CalmIInv => CalmListConverges
<1> SUFFICES ASSUME ListIInv, CalmIInv, calm, Settled
             PROVE  list = NewestFirst(Live(Len(source)))
    BY DEF CalmListConverges
<1>1. /\ Open /\ wire = <<>> /\ sent = Len(source) /\ fetch.pc = "none" /\ mutation.pc = "none"
    BY DEF Settled, Busy
<1>2. Trusted /\ Represents(source, list, Arrived)
    BY <1>1 DEF CalmIInv, CalmOK
<1>3. HistoryOK /\ Page(list, Known)
    BY <1>2 DEF Trusted, ListIInv, ListOK
<1>4. Arrived = Len(source)
    BY <1>1, <1>3, HistoryFacts DEF Arrived
<1> QED
    BY <1>2, <1>3, <1>4, FullList

\* The invariant of the calm page.
THEOREM CalmListInvariant == MessagesSpec => []CalmIInv
<1>1. SocketIInv /\ ListIInv /\ CalmIInv /\ [MessagesNext]_pageVars => CalmIInv'
    <2>1. CalmIInv /\ UNCHANGED pageVars => CalmIInv'
        BY CalmNothingMoves
           DEF pageVars, serverVars, visitVars, socketVars, queryVars, listVars
    <2> QED
        BY <2>1, CalmStep
<1> QED
    BY CalmInit, <1>1, SocketInvariant, ListInvariant, PTL DEF MessagesSpec

\* When everything has arrived at a page where nothing overlapped or failed since the
\* list was last read anew, the list is what the server has, newest first.
THEOREM CalmListAlwaysConverges == MessagesSpec => []CalmListConverges
BY ListInvariant, CalmListInvariant, InvImpliesCalmListConverges, PTL
=============================================================================
