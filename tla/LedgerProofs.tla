----------------------------- MODULE LedgerProofs -----------------------------
(***************************************************************************)
(* Accounts implements AccountLedger: for an account each request has to   *)
(* itself, a request that reads a row, asks others, and saves the row is   *)
(* one step.  It rests on the copies being true to the rows (CopyInv).     *)
(***************************************************************************)
EXTENDS SubscriptionProofs

\* A request is about to make an account as a first sign-in makes it, and to
\* count a parse only for an account that does not pay.
RowOK(j) ==
  /\ j.pc = "create" => j.row = NewRow(j.row.sub)
  /\ j.pc = "save" /\ j.op = "voice" => j.row.status = "free"

\* Only accounts that were made can be disturbed.
LedgerInv ==
  /\ disturbed \subseteq 1 .. lastUser
  /\ \A c \in Clients : RowOK(job[c])

----------------------------------------------------------------------------
(* What a step does to the request it is a step of, and to the history.    *)

\* u, if anybody, is disturbed.
DisturbsOnly(u) == disturbed' = disturbed \/ (u # Nil /\ disturbed' = disturbed \cup {u})

RequestMoves(c, j) ==
  /\ job' = [job EXCEPT ![c] = j] /\ RowOK(j)
  /\ DisturbsOnly(j.user) \/ DisturbsOnly(job[c].user)

LEMMA StartMoves ==
  ASSUME NEW c, NEW j, Start(c, j), RowOK(j)
  PROVE  RequestMoves(c, j)
<1>1. DisturbsOnly(j.user)
  BY DEF Start, DisturbsOnly
<1> QED
  BY <1>1 DEF Start, RequestMoves

LEMMA EndMoves ==
  ASSUME Inv, NEW c \in Clients, End(c) \/ EndInError(c), ~At(c, "idle")
  PROVE  RequestMoves(c, Idle)
<1>1. RowOK(Idle) /\ Idle.pc = "idle"
  BY DEF Idle, RowOK
<1>2. CASE End(c)
  BY <1>1, <1>2 DEF End, RequestMoves, DisturbsOnly
<1>3. CASE EndInError(c)
  <2>1. JobOK(job[c], lastUser, lastToken)
    BY DEF Inv, JobInv
  <2>2. job[c].op = "voice" => job[c].user # Nil
    BY <2>1 DEF JobOK, At
  <2> QED
    BY <1>1, <1>3, <2>2 DEF EndInError, RequestMoves, DisturbsOnly
<1> QED
  BY <1>2, <1>3

\* The steps of a session.
LEMMA SessionMoves ==
  ASSUME Inv, NEW c \in Clients, SessionStep(c)
  PROVE  UNCHANGED <<users, job, disturbed>> \/ \E j : RequestMoves(c, j)
<1>0. job[c] \in Job /\ job \in [Clients -> Job]
  BY Rows
<1>1. ASSUME NEW s \in Subs, Login(c, s)
      PROVE  \E j : RequestMoves(c, j)
  <2> DEFINE returning(u) == [Idle EXCEPT !.pc = "save", !.op = "login", !.user = u,
                                          !.row = LoginRow(u)]
             new == [Idle EXCEPT !.pc = "create", !.op = "login", !.row = NewRow(s)]
  <2>1. RowOK(new) /\ \A u : RowOK(returning(u))
    BY DEF RowOK, Idle, NewRow
  <2>2. Start(c, new) \/ \E u : Start(c, returning(u))
    BY <1>1 DEF Login
  <2> HIDE DEF new, returning
  <2> QED
    BY <2>1, <2>2, StartMoves
<1>2. ASSUME CreateUser(c)
      PROVE  \E j : RequestMoves(c, j)
  <2> DEFINE j == [job[c] EXCEPT !.pc = "issue", !.user = lastUser + 1, !.row = Nil]
  <2>1. RowOK(j)
    BY <1>0 DEF RowOK, Job
  <2>2. Start(c, j) \/ End(c)
    BY <1>2 DEF CreateUser
  <2>3. ~At(c, "idle")
    BY <1>2 DEF CreateUser, At
  <2> HIDE DEF j
  <2> QED
    BY <2>1, <2>2, <2>3, StartMoves, EndMoves
<1>3. ASSUME SaveLogin(c)
      PROVE  \E j : RequestMoves(c, j)
  <2> DEFINE j == [job[c] EXCEPT !.pc = "issue", !.row = Nil]
  <2>1. RowOK(j)
    BY <1>0 DEF RowOK, Job
  <2>2. (job' = [job EXCEPT ![c] = j] /\ UNCHANGED disturbed) \/ End(c)
    BY <1>0, <1>3 DEF SaveLogin
  <2>3. ~At(c, "idle")
    BY <1>3 DEF SaveLogin, At
  <2> HIDE DEF j
  <2> QED
    BY <2>1, <2>2, <2>3, EndMoves DEF RequestMoves, DisturbsOnly
<1>4. ASSUME IssueToken(c) \/ AppleRefuses(c) \/ DropUser(c)
      PROVE  \E j : RequestMoves(c, j)
  <2>1. End(c) /\ ~At(c, "idle")
    BY <1>4 DEF IssueToken, AppleRefuses, DropUser, At
  <2> QED
    BY <2>1, EndMoves
<1>5. ASSUME NEW t \in DOMAIN tokens, RefreshToken(c, t)
      PROVE  \E j : RequestMoves(c, j)
  <2> DEFINE j == [Idle EXCEPT !.pc = "rotate", !.op = "refresh",
                               !.user = tokens[t].user, !.token = t]
  <2>1. RowOK(j)
    BY DEF RowOK, Idle
  <2>2. Start(c, j)
    BY <1>5 DEF RefreshToken
  <2> HIDE DEF j
  <2> QED
    BY <2>1, <2>2, StartMoves
<1>6. ASSUME Rotate(c) \/ DropTokens(c)
      PROVE  \E j : RequestMoves(c, j)
  <2>1. PICK pc \in {"issue", "dropUser"} : Goto(c, pc)
    BY <1>6 DEF Rotate, DropTokens
  <2> DEFINE j == [job[c] EXCEPT !.pc = pc]
  <2>2. RowOK(j)
    BY <1>0 DEF RowOK, Job
  <2>3. job' = [job EXCEPT ![c] = j] /\ UNCHANGED disturbed
    BY <2>1 DEF Goto
  <2> HIDE DEF j
  <2> QED
    BY <2>2, <2>3 DEF RequestMoves, DisturbsOnly
<1>7. ASSUME NEW u \in UserIds, DeleteAccount(c, u)
      PROVE  \E j : RequestMoves(c, j)
  <2> DEFINE j == [Idle EXCEPT !.pc = "dropTokens", !.op = "delete", !.user = u]
  <2>1. RowOK(j)
    BY DEF RowOK, Idle
  <2>2. Start(c, j)
    BY <1>7 DEF DeleteAccount
  <2> HIDE DEF j
  <2> QED
    BY <2>1, <2>2, StartMoves
<1>8. ASSUME NEW u \in UserIds, Logout(c, u)
      PROVE  UNCHANGED <<users, job, disturbed>>
  BY <1>8 DEF Logout
<1> QED
  BY <1>1, <1>2, <1>3, <1>4, <1>5, <1>6, <1>7, <1>8 DEF SessionStep

\* The steps of a purchase, a notification or a voice parse.
LEMMA SubscriptionMoves ==
  ASSUME Inv, NEW c \in Clients, SubscriptionStep(c)
  PROVE  UNCHANGED <<users, job, disturbed>> \/ \E j : RequestMoves(c, j)
<1>0. job[c] \in Job /\ job \in [Clients -> Job]
  BY Rows
<1>1. ASSUME NEW u \in UserIds, VerifyAndActivate(c, u)
      PROVE  \E j : RequestMoves(c, j)
  <2> DEFINE j == [Idle EXCEPT !.pc = "verify", !.op = "verify", !.user = u, !.row = users[u]]
  <2>1. RowOK(j)
    BY DEF RowOK, Idle
  <2>2. Start(c, j)
    BY <1>1 DEF VerifyAndActivate
  <2> HIDE DEF j
  <2> QED
    BY <2>1, <2>2, StartMoves
<1>2. ASSUME NEW x \in Txns, Activate(c, x)
      PROVE  \E j : RequestMoves(c, j)
  <2> DEFINE j == [job[c] EXCEPT !.pc = "save", !.row = Activated(job[c].row, x)]
  <2>1. job[c].op # "voice"
    BY <1>2 DEF Activate, At, Inv, JobInv, JobOK
  <2>2. j.pc = "save" /\ j.op = job[c].op
    BY <1>0 DEF Job
  <2>3. job' = [job EXCEPT ![c] = j] /\ UNCHANGED disturbed
    BY <1>0, <1>2 DEF Activate, Job
  <2> HIDE DEF j
  <2> QED
    BY <2>1, <2>2, <2>3 DEF RequestMoves, DisturbsOnly, RowOK
<1>3. ASSUME NEW m \in mail, HandleNotification(c, m)
      PROVE  \E j : RequestMoves(c, j)
  <2> DEFINE j(u) == [Idle EXCEPT !.pc = "save", !.op = "webhook", !.user = u, !.notice = m,
                                  !.row = [users[u] EXCEPT !.status = StatusAfter[m.type]]]
  <2>1. \A u : RowOK(j(u))
    BY DEF RowOK, Idle
  <2>2. \E u : Start(c, j(u))
    BY <1>3 DEF HandleNotification
  <2> HIDE DEF j
  <2> QED
    BY <2>1, <2>2, StartMoves
<1>4. ASSUME NEW m \in mail, IgnoreNotification(c, m)
      PROVE  UNCHANGED <<users, job, disturbed>>
  BY <1>4 DEF IgnoreNotification, tables
<1>5. ASSUME NEW u \in UserIds, CheckVoiceParseLimit(c, u)
      PROVE  \E j : RequestMoves(c, j)
  <2> DEFINE j == [Idle EXCEPT !.pc = "parse", !.op = "voice", !.user = u]
  <2>1. RowOK(j)
    BY DEF RowOK, Idle
  <2>2. Start(c, j)
    BY <1>5 DEF CheckVoiceParseLimit
  <2> HIDE DEF j
  <2> QED
    BY <2>1, <2>2, StartMoves
<1>6. ASSUME StoreRefuses(c) \/ ParseFails(c) \/ SaveSubscription(c)
      PROVE  \E j : RequestMoves(c, j)
  <2>1. (End(c) \/ EndInError(c)) /\ ~At(c, "idle")
    BY <1>6 DEF StoreRefuses, ParseFails, SaveSubscription, At
  <2> QED
    BY <2>1, EndMoves
<1>7. ASSUME LeaveUncounted(c)
      PROVE  \E j : RequestMoves(c, j)
  BY <1>7, EndMoves DEF LeaveUncounted, At
<1>8. ASSUME NEW t \in Times, CountParse(c, t)
      PROVE  \E j : RequestMoves(c, j)
  <2> DEFINE u == job[c].user
             j == [job[c] EXCEPT !.pc = "save", !.row = Counted(users[u], t)]
  <2>1. u \in DOMAIN users /\ users[u].status = "free" /\ users[u] \in UserRow
    BY <1>8, Rows DEF CountParse, IsPremium, UserRow
  <2>2. job' = [job EXCEPT ![c] = j] /\ UNCHANGED disturbed
    BY <1>0, <1>8 DEF CountParse, Job
  <2>3. RowOK(j)
    BY <1>0, <1>8, <2>1 DEF CountParse, At, RowOK, Job, Counted, UserRow
  <2> HIDE DEF j
  <2> QED
    BY <2>2, <2>3 DEF RequestMoves, DisturbsOnly
<1> QED
  BY <1>1, <1>2, <1>3, <1>4, <1>5, <1>6, <1>7, <1>8
  DEF SubscriptionStep, PurchaseStep, VoiceStep, IncrementVoiceParseCount

\* Every step moves one request, none, or ends them all.
LEMMA Moves ==
  ASSUME Inv, Next
  PROVE  \/ UNCHANGED <<users, job, disturbed>>
         \/ \E c \in Clients : \E j : RequestMoves(c, j)
         \/ UNCHANGED <<users, lastUser, disturbed>> /\ \A c \in Clients : job'[c] = Idle
<1>1. CASE Signing \/ Subscribing
  BY <1>1, SessionMoves, SubscriptionMoves DEF Signing, Subscribing
<1>2. CASE Failing
  <2>1. PICK c \in Clients : EndInError(c) /\ ~At(c, "idle")
    BY <1>2 DEF Failing, StatementFails
  <2> QED
    BY <2>1, EndMoves
<1>3. CASE Restarting
  BY <1>3 DEF Restarting, Crash, tables
<1>4. CASE Purchasing \/ Passing
  BY <1>4 DEF Purchasing, Passing, Tick, tables
<1> QED
  BY <1>1, <1>2, <1>3, <1>4 DEF Next

\* An account a step disturbs was made before, or by it.
LEMMA LedgerKept ==
  ASSUME Inv, LedgerInv, Inv', [Next]_vars
  PROVE  LedgerInv'
<1>0. /\ job \in [Clients -> Job]
      /\ \A c \in Clients : JobOK(job[c], lastUser, lastToken)
      /\ \A c \in Clients : JobOK(job'[c], lastUser', lastToken')
  BY Rows DEF Inv, JobInv
<1>1. 1 .. lastUser \subseteq 1 .. lastUser'
  <2>1. lastUser' = lastUser \/ lastUser' = lastUser + 1
    BY DEF Next, vars, tables, Signing, Subscribing, Purchasing, Failing, StatementFails,
       Restarting, Crash, Passing, Tick, SessionStep, SubscriptionStep, PurchaseStep, VoiceStep,
       Login, CreateUser, SaveLogin, IssueToken, RefreshToken, Rotate, Logout, DeleteAccount,
       AppleRefuses, DropTokens, DropUser, VerifyAndActivate, Activate, StoreRefuses,
       HandleNotification, IgnoreNotification, CheckVoiceParseLimit, ParseFails,
       IncrementVoiceParseCount, CountParse, LeaveUncounted, SaveSubscription
  <2> QED
    BY <2>1, Rows
<1>2. CASE UNCHANGED <<users, job, disturbed>>
  BY <1>1, <1>2 DEF LedgerInv
<1>3. ASSUME NEW c \in Clients, NEW j, RequestMoves(c, j)
      PROVE  LedgerInv'
  <2>1. job'[c] = j /\ \A d \in Clients \ {c} : job'[d] = job[d]
    BY <1>0, <1>3 DEF RequestMoves
  <2>2. /\ j.user # Nil => j.user \in 1 .. lastUser'
        /\ job[c].user # Nil => job[c].user \in 1 .. lastUser'
    <3>1. JobOK(job[c], lastUser, lastToken) /\ JobOK(job'[c], lastUser', lastToken')
      BY <1>0
    <3> QED
      BY <1>1, <2>1, <3>1 DEF JobOK
  <2>3. disturbed' \subseteq 1 .. lastUser'
    BY <1>1, <1>3, <2>2 DEF LedgerInv, RequestMoves, DisturbsOnly
  <2> QED
    BY <1>3, <2>1, <2>3 DEF LedgerInv, RequestMoves
<1>4. CASE UNCHANGED <<users, lastUser, disturbed>> /\ \A c \in Clients : job'[c] = Idle
  BY <1>4 DEF LedgerInv, RowOK, Idle
<1> QED
  BY <1>2, <1>3, <1>4, Moves DEF vars, tables

LEMMA LedgerInvariance == Spec => []LedgerInv
<1>1. Init => LedgerInv
  BY DEF Init, StoreInit, LedgerInv, RowOK, Idle
<1>2. Inv /\ LedgerInv /\ [Next]_vars => LedgerInv'
  BY NextKeeps, LedgerKept
<1> QED
  BY <1>1, <1>2, Invariance, PTL DEF Spec

----------------------------------------------------------------------------
(* What a step does to the ledger.                                         *)

Quiet == UNCHANGED <<Undisturbed, Closed>>

LEMMA LedgerRows ==
  ASSUME TypeOK
  PROVE  /\ DOMAIN Undisturbed = DOMAIN users \ disturbed
         /\ \A u \in DOMAIN Undisturbed : Undisturbed[u] = users[u]
         /\ Undisturbed = [u \in DOMAIN Undisturbed |-> users[u]]
  BY DEF Undisturbed, Restrict

\* A row is written for an account that is open, or that is made.
LEMMA LedgerWrites ==
  ASSUME Inv, LedgerInv, NEW u, NEW r, PutUser(u, r), u \notin disturbed,
         UNCHANGED disturbed,
         (u \in DOMAIN users /\ UNCHANGED lastUser) \/ (u = lastUser + 1 /\ lastUser' = u)
  PROVE  Ledger!Write(u, r)
<1>1. DOMAIN users' = DOMAIN users \cup {u}
      /\ \A x \in DOMAIN users' : users'[x] = IF x = u THEN r ELSE users[x]
  BY DEF PutUser
<1>2. /\ Undisturbed' = [x \in DOMAIN users' \ disturbed |-> users'[x]]
      /\ Undisturbed = [x \in DOMAIN users \ disturbed |-> users[x]]
  BY DEF Undisturbed, Restrict
<1>3. DOMAIN users' \ disturbed = (DOMAIN users \ disturbed) \cup {u}
  BY <1>1
<1>4. Undisturbed' = [x \in DOMAIN Undisturbed \cup {u} |-> IF x = u THEN r ELSE Undisturbed[x]]
  BY <1>1, <1>2, <1>3
<1>5. Closed' = Closed
  <2>1. (1 .. lastUser') \ DOMAIN users' = (1 .. lastUser) \ DOMAIN users
    <3>1. lastUser \in Nat
      BY Rows
    <3>2. u \in 1 .. lastUser'
      BY <3>1 DEF Inv, TypeOK, StoreTypes
    <3>3. 1 .. lastUser' = (1 .. lastUser) \cup {u}
      BY <3>1, <3>2 DEF Inv, TypeOK, StoreTypes
    <3>4. u \in DOMAIN users \/ u \notin 1 .. lastUser
      BY <3>1
    <3> QED
      BY <1>1, <3>3, <3>4
  <2> QED
    BY <2>1 DEF Closed
<1> QED
  BY <1>4, <1>5 DEF Ledger!Write

\* An account is disturbed, or nothing happens.
LEMMA LedgerLosesSight ==
  ASSUME Inv, LedgerInv, LedgerInv', UNCHANGED <<users, lastUser>>, NEW u, DisturbsOnly(u)
  PROVE  Ledger!Next \/ Quiet
<1>1. CASE disturbed' = disturbed
  BY <1>1 DEF Quiet, Undisturbed, Closed
<1>2. CASE u # Nil /\ disturbed' = disturbed \cup {u}
  <2>1. u \in 1 .. lastUser
    BY <1>2 DEF LedgerInv
  <2>2. /\ Undisturbed' = [x \in DOMAIN users \ disturbed' |-> users[x]]
        /\ Undisturbed = [x \in DOMAIN users \ disturbed |-> users[x]]
    BY DEF Undisturbed, Restrict
  <2>3. CASE u \in DOMAIN users \ disturbed
    <3>1. Closed' = Closed \cup {u}
      BY <1>2, <2>1, <2>3 DEF Closed
    <3>2. Undisturbed' = Restrict(Undisturbed, DOMAIN Undisturbed \ {u})
      BY <1>2, <2>2 DEF Restrict
    <3> QED
      BY <2>2, <2>3, <3>1, <3>2 DEF Ledger!Next, Ledger!Close, Ledger!Restrict, Restrict
  <2>4. CASE u \notin DOMAIN users \ disturbed
    <3>1. DOMAIN users \ disturbed' = DOMAIN users \ disturbed
      BY <1>2, <2>4
    <3>2. Closed' = Closed
      BY <1>2, <2>1, <2>4 DEF Closed
    <3> QED
      BY <2>2, <3>1, <3>2 DEF Quiet
  <2> QED
    BY <2>3, <2>4
<1> QED
  BY <1>1, <1>2 DEF DisturbsOnly

\* A sign-in that saves the row it read, or one that was disturbed, writes
\* nothing that the ledger sees.
LEMMA LedgerUnseen ==
  ASSUME Inv, LedgerInv, NEW u, NEW r, PutUser(u, r), UNCHANGED <<lastUser, disturbed>>,
         u \in disturbed \/ (u \in DOMAIN users /\ r = users[u])
  PROVE  Quiet
<1>1. DOMAIN users' = DOMAIN users \cup {u}
      /\ \A x \in DOMAIN users' : users'[x] = IF x = u THEN r ELSE users[x]
  BY DEF PutUser
<1>2. /\ Undisturbed' = [x \in DOMAIN users' \ disturbed |-> users'[x]]
      /\ Undisturbed = [x \in DOMAIN users \ disturbed |-> users[x]]
  BY DEF Undisturbed, Restrict
<1>3. /\ DOMAIN users' \ disturbed = DOMAIN users \ disturbed
      /\ \A x \in DOMAIN users \ disturbed : users'[x] = users[x]
  BY <1>1
<1>4. Closed' = Closed
  BY <1>1 DEF Closed
<1> QED
  BY <1>2, <1>3, <1>4 DEF Quiet

----------------------------------------------------------------------------
(* The steps that write a row.                                             *)

LEMMA CreateUserOpens ==
  ASSUME Inv, LedgerInv, LedgerInv', NEW c \in Clients, CreateUser(c)
  PROVE  Ledger!Next \/ Quiet
<1> DEFINE u == lastUser + 1
           j == [job[c] EXCEPT !.pc = "issue", !.user = u, !.row = Nil]
<1>1. job[c].pc = "create" /\ job[c] \in Job /\ job[c].row \in UserRow
  BY Rows DEF CreateUser, At, Inv, JobInv, JobOK
<1>2. CASE End(c) /\ UNCHANGED <<users, lastUser>>
  BY <1>2 DEF Quiet, Undisturbed, Closed, End
<1>3. CASE /\ ~SaveRefused(u, job[c].row) /\ u <= MaxUsers /\ lastUser' = u
           /\ PutUser(u, job[c].row) /\ Start(c, j)
  <2>1. j.user = u /\ u \in UserIds /\ u # Nil
    BY <1>1, <1>3, Rows, Nils, AccountBounds DEF Job, UserIds
  <2>2. \A d \in Clients : job[d].user # u
    <3>1. \A d \in Clients : job[d].user # Nil => job[d].user \in 1 .. lastUser
      BY DEF Inv, JobInv, JobOK
    <3> QED
      BY <2>1, <3>1, Rows
  <2>3. UNCHANGED disturbed
    BY <1>3, <2>1, <2>2 DEF Start
  <2>4. u \notin disturbed /\ u \notin DOMAIN users /\ u \notin Closed
    BY Rows DEF LedgerInv, Inv, TypeOK, StoreTypes, Closed
  <2>5. Ledger!Write(u, job[c].row)
    BY <1>3, <2>3, <2>4, LedgerWrites
  <2>6. job[c].row = Ledger!Blank(job[c].row.sub) /\ job[c].row.sub \in Subs
    BY <1>1 DEF LedgerInv, RowOK, NewRow, Ledger!Blank, UserRow
  <2>7. \A v \in DOMAIN Undisturbed : Undisturbed[v].sub # job[c].row.sub
    BY <1>3, <2>4, LedgerRows DEF SaveRefused, Inv
  <2>8. u \notin DOMAIN Undisturbed
    BY <2>4, LedgerRows DEF Inv
  <2>9. Ledger!Open(u)
    BY <2>4, <2>5, <2>6, <2>7, <2>8 DEF Ledger!Open
  <2> QED
    BY <2>1, <2>9 DEF Ledger!Next
<1> QED
  BY <1>2, <1>3 DEF CreateUser

LEMMA SaveLoginWritesNothing ==
  ASSUME Inv, More, LedgerInv, NEW c \in Clients, SaveLogin(c)
  PROVE  Quiet
<1> DEFINE u == job[c].user
<1>1. job[c].pc = "save" /\ job[c].op = "login" /\ UNCHANGED <<lastUser, disturbed>>
  BY DEF SaveLogin, At, End
<1>2. CASE UNCHANGED users
  BY <1>1, <1>2 DEF Quiet, Undisturbed, Closed
<1>3. CASE PutUser(u, job[c].row)
  <2>1. u \in disturbed \/ (u \in DOMAIN users /\ job[c].row = users[u])
    BY <1>1 DEF More, CopyInv, CopyOf, Writes
  <2> QED
    BY <1>1, <1>3, <2>1, LedgerUnseen
<1> QED
  BY <1>2, <1>3 DEF SaveLogin

LEMMA SaveSubscriptionWrites ==
  ASSUME Inv, More, LedgerInv, LedgerInv', NEW c \in Clients, SaveSubscription(c)
  PROVE  Ledger!Next \/ Quiet
<1> DEFINE u == job[c].user
           r == job[c].row
<1>1. /\ job[c].pc = "save" /\ job[c].op \in {"verify", "webhook", "voice"}
      /\ UNCHANGED lastUser
  BY DEF SaveSubscription, At
<1>2. CASE EndInError(c) /\ UNCHANGED users
  <2>1. DisturbsOnly(u)
    <3>1. u # Nil
      BY <1>1, Rows DEF Writes
    <3> QED
      BY <1>2, <3>1 DEF EndInError, DisturbsOnly
  <2> QED
    BY <1>1, <1>2, <2>1, LedgerLosesSight
<1>3. CASE ~SaveRefused(u, r) /\ PutUser(u, r) /\ End(c)
  <2>0. UNCHANGED disturbed
    BY <1>3 DEF End
  <2>1. CASE u \in disturbed
    BY <1>1, <1>3, <2>0, <2>1, LedgerUnseen
  <2>2. CASE u \notin disturbed
    <3>1. /\ u \in DOMAIN users /\ CopyOf(job[c], users[u], now)
          /\ users[u] \in UserRow /\ r \in UserRow /\ job[c] \in Job
      BY <1>1, <2>2, Rows DEF More, CopyInv, Writes
    <3>2. /\ u \in DOMAIN Undisturbed /\ Undisturbed[u] = users[u]
          /\ \A v \in DOMAIN Undisturbed : v \in DOMAIN users /\ Undisturbed[v] = users[v]
      BY <2>2, <3>1, LedgerRows DEF Inv
    <3>3. Ledger!Write(u, r)
      BY <1>1, <1>3, <2>0, <2>2, <3>1, LedgerWrites
    <3>4. CASE job[c].op = "verify"
      <4>1. /\ r.txn # Nil /\ r.txn \in Txns
            /\ r = [users[u] EXCEPT !.status = "premium", !.txn = r.txn]
        BY <1>1, <3>1, <3>4 DEF CopyOf, Activated, UserRow
      <4>2. \A v \in DOMAIN Undisturbed \ {u} : Undisturbed[v].txn # r.txn
        BY <1>3, <3>2, <4>1 DEF SaveRefused
      <4>3. r = [Undisturbed[u] EXCEPT !.status = "premium", !.txn = r.txn]
        BY <3>2, <4>1
      <4>4. PICK x \in Txns : x = r.txn
        BY <4>1
      <4> HIDE DEF r
      <4>5. Ledger!Activate(u)
        BY <3>3, <4>2, <4>3, <4>4 DEF Ledger!Activate
      <4> QED
        BY <3>2, <4>5 DEF Ledger!Next
    <3>5. CASE job[c].op = "webhook"
      <4>1. /\ users[u].txn = job[c].notice.txn
            /\ r = [users[u] EXCEPT !.status = StatusAfter[job[c].notice.type]]
        BY <1>1, <3>1, <3>5 DEF CopyOf
      <4>2. job[c].notice \in Notice
        BY <3>5 DEF Inv, JobInv, JobOK
      <4>3. users[u].txn # Nil /\ StatusAfter[job[c].notice.type] \in {"free", "premium"}
        BY <4>1, <4>2, Nils DEF Notice, StatusAfter
      <4>4. Ledger!Notify(u)
        BY <3>2, <3>3, <4>1, <4>3 DEF Ledger!Notify, Ledger!Statuses
      <4> QED
        BY <3>2, <4>4 DEF Ledger!Next
    <3>6. CASE job[c].op = "voice"
      <4> DEFINE row == Undisturbed[u]
      <4>1. PICK s \in Times :
              /\ row.parsedAt # Nil => row.parsedAt <= s
              /\ s <= r.parsedAt /\ CountAt(row, s) < FreeParses
              /\ r = [row EXCEPT !.count = CountAt(row, s) + 1, !.parsedAt = r.parsedAt]
        BY <1>1, <3>1, <3>2, <3>6 DEF CopyOf
      <4>2. r.parsedAt \in Times
        BY <1>1, <3>1, <3>6 DEF Inv, JobInv, JobOK, UserRow
      <4>3. row.status = "free"
        BY <1>1, <3>1, <3>2, <3>6, <4>1 DEF LedgerInv, RowOK, UserRow
      <4>4. Ledger!Used(row, s) = CountAt(row, s)
        BY DEF Ledger!Used, CountAt, ParseDay
      <4>5. PICK t \in Times : t = r.parsedAt
        BY <4>2
      <4>6. /\ row.status = "free" /\ Ledger!Used(row, s) < FreeParses
            /\ s <= t /\ (row.parsedAt # Nil => row.parsedAt <= s)
            /\ r = [row EXCEPT !.count = Ledger!Used(row, s) + 1, !.parsedAt = t]
        BY <4>1, <4>3, <4>4, <4>5
      <4> HIDE DEF r
      <4>7. Ledger!Count(u)
        BY <3>3, <4>6 DEF Ledger!Count
      <4> QED
        BY <3>2, <4>7 DEF Ledger!Next
    <3> QED
      BY <1>1, <3>4, <3>5, <3>6
  <2> QED
    BY <2>1, <2>2
<1> QED
  BY <1>2, <1>3 DEF SaveSubscription

LEMMA DropUserCloses ==
  ASSUME Inv, LedgerInv, NEW c \in Clients, DropUser(c)
  PROVE  Ledger!Next \/ Quiet
<1> DEFINE u == job[c].user
<1>1. UNCHANGED <<lastUser, disturbed>>
  BY DEF DropUser, End
<1>2. CASE UNCHANGED users
  BY <1>1, <1>2 DEF Quiet, Undisturbed, Closed
<1>3. CASE u \in DOMAIN users /\ DeleteUser(u)
  <2>1. /\ DOMAIN users' = DOMAIN users \ {u}
        /\ \A x \in DOMAIN users' : users'[x] = users[x]
    BY <1>3, UserStatements DEF Inv
  <2>2. /\ Undisturbed' = [x \in DOMAIN users' \ disturbed |-> users'[x]]
        /\ Undisturbed = [x \in DOMAIN users \ disturbed |-> users[x]]
    BY <1>1 DEF Undisturbed, Restrict
  <2>3. u \in 1 .. lastUser
    BY <1>3 DEF Inv, TypeOK, StoreTypes
  <2>4. CASE u \in disturbed
    <3>1. DOMAIN users' \ disturbed = DOMAIN users \ disturbed
      BY <2>1, <2>4
    <3>2. Undisturbed' = Undisturbed
      BY <2>1, <2>2, <3>1
    <3>3. Closed' = Closed
      BY <1>1, <2>1, <2>4 DEF Closed
    <3> QED
      BY <3>2, <3>3 DEF Quiet
  <2>5. CASE u \notin disturbed
    <3>1. Closed' = Closed \cup {u}
      BY <1>1, <2>1, <2>3 DEF Closed
    <3>2. Undisturbed' = Restrict(Undisturbed, DOMAIN Undisturbed \ {u})
      BY <2>1, <2>2 DEF Restrict
    <3> QED
      BY <1>3, <2>2, <2>5, <3>1, <3>2 DEF Ledger!Next, Ledger!Close, Ledger!Restrict, Restrict
  <2> QED
    BY <2>4, <2>5
<1> QED
  BY <1>2, <1>3 DEF DropUser

----------------------------------------------------------------------------
LEMMA LedgerSteps ==
  ASSUME Inv, More, LedgerInv, LedgerInv', [Next]_vars
  PROVE  [Ledger!Next]_<<Undisturbed, Closed>>
<1>1. CASE UNCHANGED <<users, lastUser, disturbed>>
  BY <1>1 DEF Undisturbed, Closed
<1>2. ASSUME NEW c \in Clients, CreateUser(c) \/ SaveLogin(c) \/ SaveSubscription(c) \/ DropUser(c)
      PROVE  Ledger!Next \/ Quiet
  BY <1>2, CreateUserOpens, SaveLoginWritesNothing, SaveSubscriptionWrites, DropUserCloses
<1>3. ASSUME UNCHANGED <<users, lastUser>>, Next
      PROVE  Ledger!Next \/ Quiet
  <2>1. CASE UNCHANGED disturbed
    BY <1>3, <2>1 DEF Quiet, Undisturbed, Closed
  <2>2. ASSUME NEW c \in Clients, NEW j, RequestMoves(c, j)
        PROVE  Ledger!Next \/ Quiet
    BY <1>3, <2>2, LedgerLosesSight DEF RequestMoves
  <2> QED
    BY <1>3, <2>1, <2>2, Moves
<1>4. ASSUME Next
      PROVE  \/ UNCHANGED <<users, lastUser>>
             \/ \E c \in Clients :
                  CreateUser(c) \/ SaveLogin(c) \/ SaveSubscription(c) \/ DropUser(c)
  BY <1>4
  DEF Next, tables, Signing, Subscribing, Purchasing, Failing, StatementFails,
      Restarting, Crash, Passing, Tick, SessionStep, SubscriptionStep, PurchaseStep, VoiceStep,
      Login, IssueToken, RefreshToken, Rotate, Logout, DeleteAccount,
      AppleRefuses, DropTokens, VerifyAndActivate, Activate, StoreRefuses,
      HandleNotification, IgnoreNotification, CheckVoiceParseLimit, ParseFails,
      IncrementVoiceParseCount, CountParse, LeaveUncounted
<1> QED
  BY <1>1, <1>2, <1>3, <1>4 DEF vars, tables, Quiet

(* For any accounts, transactions, clients and limits, and over failures   *)
(* and restarts: as long as no two requests work on an account at once,    *)
(* its row is changed as if every request were one step (AppleLogin,       *)
(* VerifyAndActivate, HandleNotification, IncrementVoiceParseCount,        *)
(* DeleteAccount).                                                         *)
THEOREM AccountsImplementLedger == Spec => ImplementsLedger
<1>1. Init => Ledger!Init
  BY DEF Init, StoreInit, Ledger!Init, Undisturbed, Closed, Restrict
<1> QED
  BY <1>1, LedgerSteps, MoreInvariance, LedgerInvariance, PTL
  DEF Spec, ImplementsLedger, Ledger!Spec

----------------------------------------------------------------------------
(* What a ledger guarantees, whoever keeps it.                             *)

\* A row is sound by itself, and beside the row q of another account.
SoundRow(r) == r \in Ledger!Row /\ (r.status = "premium" => r.txn # Nil)

Apart(r, q) == q.sub # r.sub /\ (q.txn = r.txn => r.txn = Nil)

LEMMA SoundParts ==
  Ledger!Sound <=>
    /\ DOMAIN Undisturbed \cap Closed = {}
    /\ \A u \in DOMAIN Undisturbed : SoundRow(Undisturbed[u])
    /\ \A u \in DOMAIN Undisturbed : \A v \in DOMAIN Undisturbed \ {u} :
         Apart(Undisturbed[u], Undisturbed[v])
  BY DEF Ledger!Sound, SoundRow, Apart

\* A row that is sound, and apart from the others, may be written.
LEMMA WriteIsSound ==
  ASSUME Ledger!Sound, NEW u, NEW r, u \notin Closed, Ledger!Write(u, r), SoundRow(r),
         \A v \in DOMAIN Undisturbed \ {u} : Apart(r, Undisturbed[v])
  PROVE  Ledger!Sound'
<1> DEFINE old == Undisturbed
           new == Undisturbed'
<1>1. /\ Closed' = Closed
      /\ new = [x \in DOMAIN old \cup {u} |-> IF x = u THEN r ELSE old[x]]
  BY DEF Ledger!Write
<1>2. /\ DOMAIN new = DOMAIN old \cup {u} /\ new[u] = r
      /\ \A x \in DOMAIN old \ {u} : new[x] = old[x]
  BY <1>1
<1>3. /\ DOMAIN old \cap Closed = {}
      /\ \A x \in DOMAIN old : SoundRow(old[x])
      /\ \A x \in DOMAIN old : \A v \in DOMAIN old \ {x} : Apart(old[x], old[v])
  BY SoundParts
<1>4. DOMAIN new \cap Closed' = {}
  BY <1>1, <1>2, <1>3
<1>5. \A x \in DOMAIN new : SoundRow(new[x])
  BY <1>2, <1>3
<1>6. ASSUME NEW x \in DOMAIN new, NEW v \in DOMAIN new \ {x}
      PROVE  Apart(new[x], new[v])
  <2>1. CASE x = u
    BY <1>2, <1>6, <2>1
  <2>2. CASE v = u
    <3>1. Apart(r, old[x]) /\ new[x] = old[x] /\ new[v] = r
      BY <1>2, <1>6, <2>2
    <3> QED
      BY <3>1 DEF Apart
  <2>3. CASE x # u /\ v # u
    BY <1>2, <1>3, <1>6, <2>3
  <2> QED
    BY <2>1, <2>2, <2>3
<1> QED
  BY <1>4, <1>5, <1>6 DEF Ledger!Sound, SoundRow, Apart

LEMMA LedgerStepIsSound ==
  ASSUME Ledger!Sound, Ledger!Next
  PROVE  Ledger!Sound'
<1>1. /\ DOMAIN Undisturbed \cap Closed = {}
      /\ \A u \in DOMAIN Undisturbed : SoundRow(Undisturbed[u])
      /\ \A u \in DOMAIN Undisturbed : \A v \in DOMAIN Undisturbed \ {u} :
           Apart(Undisturbed[u], Undisturbed[v])
  BY SoundParts
<1>2. FreeParses \in Nat /\ Nil \notin Txns
  BY AccountBounds, AccountNil DEF FreeParses
<1>3. ASSUME NEW u \in UserIds, Ledger!Open(u)
      PROVE  Ledger!Sound'
  <2>1. PICK s \in Subs : /\ \A v \in DOMAIN Undisturbed : Undisturbed[v].sub # s
                          /\ Ledger!Write(u, Ledger!Blank(s))
    BY <1>3 DEF Ledger!Open
  <2>2. /\ SoundRow(Ledger!Blank(s))
        /\ Ledger!Blank(s).sub = s /\ Ledger!Blank(s).txn = Nil
    BY <1>2 DEF SoundRow, Ledger!Blank, Ledger!Row, Ledger!Statuses
  <2>3. \A v \in DOMAIN Undisturbed \ {u} : Apart(Ledger!Blank(s), Undisturbed[v])
    BY <2>1, <2>2 DEF Apart
  <2>4. u \notin Closed
    BY <1>3 DEF Ledger!Open
  <2> QED
    BY <2>1, <2>2, <2>3, <2>4, WriteIsSound
<1>4. ASSUME NEW u \in DOMAIN Undisturbed, NEW r, Ledger!Write(u, r), SoundRow(r),
             r.sub = Undisturbed[u].sub,
             \/ r.txn = Undisturbed[u].txn
             \/ \A v \in DOMAIN Undisturbed \ {u} : Undisturbed[v].txn # r.txn
      PROVE  Ledger!Sound'
  <2>1. \A v \in DOMAIN Undisturbed \ {u} : Apart(r, Undisturbed[v])
    BY <1>1, <1>4 DEF Apart
  <2>2. u \notin Closed
    BY <1>1, <1>4
  <2> QED
    BY <1>4, <2>1, <2>2, WriteIsSound
<1>5. ASSUME NEW u \in DOMAIN Undisturbed, Ledger!Activate(u)
      PROVE  Ledger!Sound'
  <2>1. PICK x \in Txns :
          /\ \A v \in DOMAIN Undisturbed \ {u} : Undisturbed[v].txn # x
          /\ Ledger!Write(u, [Undisturbed[u] EXCEPT !.status = "premium", !.txn = x])
    BY <1>5 DEF Ledger!Activate
  <2> QED
    BY <1>1, <1>2, <1>4, <2>1 DEF SoundRow, Ledger!Row, Ledger!Statuses
<1>6. ASSUME NEW u \in DOMAIN Undisturbed, Ledger!Notify(u)
      PROVE  Ledger!Sound'
  <2>1. PICK s \in Ledger!Statuses :
          Ledger!Write(u, [Undisturbed[u] EXCEPT !.status = s])
    BY <1>6 DEF Ledger!Notify
  <2>2. Undisturbed[u].txn # Nil
    BY <1>6 DEF Ledger!Notify
  <2> QED
    BY <1>1, <1>4, <2>1, <2>2 DEF SoundRow, Ledger!Row, Ledger!Statuses
<1>7. ASSUME NEW u \in DOMAIN Undisturbed, Ledger!Count(u)
      PROVE  Ledger!Sound'
  <2>1. PICK s \in Times, t \in Times :
          /\ Ledger!Used(Undisturbed[u], s) < FreeParses
          /\ Ledger!Write(u, [Undisturbed[u] EXCEPT !.count = Ledger!Used(Undisturbed[u], s) + 1,
                                                   !.parsedAt = t])
    BY <1>7 DEF Ledger!Count
  <2>2. Ledger!Used(Undisturbed[u], s) \in 0 .. FreeParses
    BY <1>1, <1>2 DEF Ledger!Used, SoundRow, Ledger!Row
  <2> DEFINE n == Ledger!Used(Undisturbed[u], s) + 1
             r == [Undisturbed[u] EXCEPT !.count = n, !.parsedAt = t]
  <2>3. n \in 0 .. FreeParses
    BY <1>2, <2>1, <2>2
  <2>4. SoundRow(Undisturbed[u]) /\ Ledger!Write(u, r)
    BY <1>1, <2>1
  <2> HIDE DEF n
  <2>5. /\ r \in Ledger!Row
        /\ r.sub = Undisturbed[u].sub /\ r.txn = Undisturbed[u].txn
        /\ r.status = Undisturbed[u].status
    BY <2>3, <2>4 DEF SoundRow, Ledger!Row
  <2>6. SoundRow(r)
    BY <2>4, <2>5 DEF SoundRow
  <2> HIDE DEF r
  <2> QED
    BY <1>4, <2>4, <2>5, <2>6
<1>8. ASSUME NEW u \in DOMAIN Undisturbed, Ledger!Close(u)
      PROVE  Ledger!Sound'
  <2>1. /\ Undisturbed' = [x \in DOMAIN Undisturbed \ {u} |-> Undisturbed[x]]
        /\ Closed' = Closed \cup {u}
    BY <1>8 DEF Ledger!Close, Ledger!Restrict
  <2> QED
    BY <1>1, <2>1 DEF Ledger!Sound, SoundRow, Apart
<1> QED
  BY <1>3, <1>5, <1>6, <1>7, <1>8 DEF Ledger!Next

(* A ledger in which every request is one step is sound: a closed account  *)
(* has no row, a premium one has paid, none shares an identity or a        *)
(* transaction, none exceeds the quota (User, VoiceParseLimit).            *)
THEOREM LedgerIsSound == Ledger!Spec => []Ledger!Sound
<1>1. Ledger!Init => Ledger!Sound
  BY DEF Ledger!Init, Ledger!Sound
<1>2. UNCHANGED <<Undisturbed, Closed>> /\ Ledger!Sound => Ledger!Sound'
  BY DEF Ledger!Sound
<1> QED
  BY <1>1, <1>2, LedgerStepIsSound, PTL DEF Ledger!Spec

(* So are the rows of accounts nothing disturbed, however the statements   *)
(* of the requests on all the others interleave (userRepository.Update).   *)
THEOREM UndisturbedRowsAreSound == Spec => []Ledger!Sound
  BY AccountsImplementLedger, LedgerIsSound, PTL DEF ImplementsLedger
===============================================================================
