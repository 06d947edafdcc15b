---------------------------- MODULE Subscriptions ----------------------------
(***************************************************************************)
(* subscriptionService, the App Store it listens to, and the voice         *)
(* endpoint that draws on its quota.                                       *)
(*                                                                         *)
(*   verify   verify -> save        webhook  save                          *)
(*   voice    parse -> save                                                *)
(*                                                                         *)
(* The App Store is asked between the read and the save of a verification, *)
(* and Gemini between the quota check and the count of a voice parse.  The *)
(* count reads the clock for the day it adds to and again for its stamp.   *)
(* The store's notifications arrive in any order.  The answer is always    *)
(* 200, so each arrives once, unless the server dies before it answers.    *)
(***************************************************************************)
EXTENDS AccountStore

VARIABLES
  issued,     \* App Store: transaction -> its notifications, in order
  mail,       \* App Store: the notifications still to be delivered
  astray,     \* history: transactions a word of the store about which was
              \* stale, overtaken or not recorded
  answered,   \* history: account -> the day and number of its free parses
  straddled   \* history: accounts a count of which the end of a day met
              \* between its two readings of the clock

appStore == <<issued, mail>>
subscriptionVars == <<issued, mail, astray, answered, straddled>>

HoursPerDay == 24

\* Truncate(24 * time.Hour) counts from the zero time in UTC, whatever the
\* zone of the value: the days of todayParseCount begin at 09:00 in Korea.
ParseDay(t) == t \div HoursPerDay

KST == 9
CalendarDay(t) == (t + KST) \div HoursPerDay

\* Faulty variant: only an expiry ends a subscription.
StatusUnlessExpired ==
  [type \in TypesOfNotice |-> IF type = "EXPIRED" THEN "free" ELSE "premium"]

StatusAfter ==
  [type \in TypesOfNotice |->
     IF type \in {"DID_RENEW", "SUBSCRIBED"} THEN "premium" ELSE "free"]

SubscriptionTypes ==
  /\ issued \in [Txns -> Seq(TypesOfNotice)]
  /\ mail \subseteq Notice /\ astray \subseteq Txns
  /\ answered \in [UserIds -> [day : Nat, n : Nat]]
  /\ straddled \subseteq UserIds

SubscriptionInit ==
  /\ issued = [x \in Txns |-> << >>]
  /\ mail = {} /\ astray = {} /\ straddled = {}
  /\ answered = [u \in UserIds |-> [day |-> 0, n |-> 0]]

----------------------------------------------------------------------------
IsPremium(row) == row.status = "premium"

ParsedToday(row) == row.parsedAt # Nil /\ ParseDay(row.parsedAt) = ParseDay(now)

TodayParseCount(row) == IF ParsedToday(row) THEN row.count ELSE 0

Allowed(row) == IsPremium(row) \/ ~(TodayParseCount(row) >= VoiceParseLimit)

\* Faulty variant: yesterday's count goes on.
CountedOn(row, t) == [row EXCEPT !.count = @ + 1, !.parsedAt = t]

\* One more than the count of today, stamped with a time t read later.
Counted(row, t) == [row EXCEPT !.count = TodayParseCount(row) + 1, !.parsedAt = t]

\* Faulty variant: the transaction is not recorded.
ActivatedAnonymously(row, x) == [row EXCEPT !.status = "premium"]

Activated(row, x) == [row EXCEPT !.status = "premium", !.txn = x]

\* voiceParseRemaining of ToSubscriptionResponse, which has a today of its own.
Remaining(row) ==
  IF IsPremium(row) THEN VoiceParseLimit
  ELSE LET used == IF ParsedToday(row) THEN row.count ELSE 0
       IN IF VoiceParseLimit < used THEN 0 ELSE VoiceParseLimit - used

----------------------------------------------------------------------------
(* The App Store *)

Last(x) == issued[x][Len(issued[x])]

Bought(x) == issued[x] # << >>

Active(x) == Bought(x) /\ Last(x) \in {"SUBSCRIBED", "DID_RENEW"}

Purchases == {"SUBSCRIBED", "DID_RENEW"}

\* Each purchase or renewal is a transaction of its own, and what is revoked
\* is the latest.  The client presents one that has not been.
Unrevoked(x) ==
  \E k \in DOMAIN issued[x] :
    /\ issued[x][k] \in Purchases
    /\ \A r \in k + 1 .. Len(issued[x]) : issued[x][r] \in {"REVOKE", "REFUND"}
         => \E p \in k + 1 .. r : issued[x][p] \in Purchases

Nth(x, n) == [txn |-> x, n |-> n, type |-> issued[x][n]]

\* A subscription begins, goes on or ends, and a notification is sent.
Issue(x, type) ==
  /\ Len(issued[x]) < MaxNotices
  /\ Bought(x) \/ type = "SUBSCRIBED"
  /\ issued' = [issued EXCEPT ![x] = Append(@, type)]
  /\ mail' = mail \cup {[txn |-> x, n |-> Len(issued[x]) + 1, type |-> type]}
  /\ UNCHANGED <<astray, answered, straddled>>

\* Everything the store has to say about x has been handled.
Delivered(x) ==
  /\ \A m \in mail : m.txn # x
  /\ \A c \in Clients : job[c].notice # Nil => job[c].notice.txn # x

\* A later notification has been handled before m.
Overtaken(m) ==
  \E k \in m.n + 1 .. Len(issued[m.txn]) : Nth(m.txn, k) \notin mail

\* The store has vouched for x to a request that has not saved it yet.
BeingSaved(x) ==
  \E c \in Clients : At(c, "save") /\ job[c].op = "verify" /\ job[c].row.txn = x

GoesAstray(x, bad) == astray' = IF bad THEN astray \cup {x} ELSE astray

----------------------------------------------------------------------------
VerifyAndActivate(c, u) ==
  /\ Ready(c, "verify")
  /\ u \in DOMAIN users
  /\ Start(c, [Idle EXCEPT !.pc = "verify", !.op = "verify", !.user = u, !.row = users[u]])
  /\ UNCHANGED <<tables, now, faults, subscriptionVars>>

\* The App Store knows the transaction, and it is not revoked.  Whether it is
\* the last of its subscription, and when that ended, is not looked at.
Activate(c, x) ==
  /\ At(c, "verify")
  /\ Unrevoked(x)
  /\ job' = [job EXCEPT ![c].pc = "save", ![c].row = Activated(@, x)]
  /\ GoesAstray(x, ~Active(x))
  /\ UNCHANGED <<tables, now, faults, disturbed, appStore, answered, straddled>>

\* It cannot be reached, does not know the transaction or has revoked it.
StoreRefuses(c) ==
  /\ At(c, "verify")
  /\ End(c)
  /\ UNCHANGED <<tables, now, faults, subscriptionVars>>

\* Notification types that change no row are left out.
HandleNotification(c, m) ==
  /\ Ready(c, "webhook")
  /\ \E u \in FindByOriginalTransactionID(m.txn) :
       Start(c, [Idle EXCEPT !.pc = "save", !.op = "webhook", !.user = u, !.notice = m,
                             !.row = [users[u] EXCEPT !.status = StatusAfter[m.type]]])
  /\ mail' = mail \ {m}
  /\ GoesAstray(m.txn, Overtaken(m) \/ BeingSaved(m.txn))
  /\ UNCHANGED <<tables, now, faults, issued, answered, straddled>>

\* No account has the transaction: the error is logged and answered with 200.
IgnoreNotification(c, m) ==
  /\ Ready(c, "webhook")
  /\ FindByOriginalTransactionID(m.txn) = {}
  /\ mail' = mail \ {m}
  /\ GoesAstray(m.txn, BeingSaved(m.txn))
  /\ UNCHANGED <<tables, now, faults, job, disturbed, issued, answered, straddled>>

\* A webhook whose statement fails is answered with 200 all the same.
Unrecorded(c) == GoesAstray(job[c].notice.txn, job[c].op = "webhook")

\* One that is not answered at all is delivered again.
Redelivered == {job[c].notice : c \in {d \in Clients : job[d].op = "webhook"}}

\* A request over the limit is answered with 403 and changes nothing.
CheckVoiceParseLimit(c, u) ==
  /\ Ready(c, "voice")
  /\ u \in DOMAIN users /\ Allowed(users[u])
  /\ Start(c, [Idle EXCEPT !.pc = "parse", !.op = "voice", !.user = u])
  /\ UNCHANGED <<tables, now, faults, subscriptionVars>>

\* Three attempts have failed, or the answer is no event.
ParseFails(c) ==
  /\ At(c, "parse")
  /\ End(c)
  /\ UNCHANGED <<tables, now, faults, subscriptionVars>>

\* Gemini has answered; the row is read again, and counted at t.
CountParse(c, t) ==
  LET u == job[c].user IN
  /\ At(c, "parse")
  /\ u \in DOMAIN users /\ ~IsPremium(users[u])
  /\ TodayParseCount(users[u]) < MaxCount
  /\ now' = t
  /\ job' = [job EXCEPT ![c].pc = "save", ![c].row = Counted(users[u], t)]
  /\ straddled' = IF ParseDay(t) = ParseDay(now) THEN straddled ELSE straddled \cup {u}
  /\ UNCHANGED <<tables, faults, disturbed, issued, mail, astray, answered>>

\* A premium account's is not counted; that of one that is gone can not be.
LeaveUncounted(c) ==
  LET u == job[c].user IN
  /\ At(c, "parse")
  /\ \/ u \in DOMAIN users /\ IsPremium(users[u]) /\ End(c)
     \/ u \notin DOMAIN users /\ EndInError(c)
  /\ UNCHANGED <<tables, now, faults, subscriptionVars>>

IncrementVoiceParseCount(c) ==
  (\E t \in Times : t >= now /\ CountParse(c, t)) \/ LeaveUncounted(c)

\* What the history keeps of a saved row; it counts parses only for accounts
\* nothing disturbed.
Record(op, u, row) ==
  LET day == ParseDay(row.parsedAt)
      before == IF answered[u].day = day THEN answered[u].n ELSE 0
  IN
  answered' = IF op = "voice" /\ u \notin disturbed
              THEN [answered EXCEPT ![u] = [day |-> day, n |-> before + 1]]
              ELSE answered

SaveSubscription(c) ==
  LET u == job[c].user
      row == job[c].row
  IN
  /\ At(c, "save") /\ job[c].op \in {"verify", "webhook", "voice"}
  /\ \/ /\ ~SaveRefused(u, row)
        /\ PutUser(u, row)
        /\ End(c)
        /\ Record(job[c].op, u, row)
        /\ UNCHANGED astray
     \/ /\ SaveRefused(u, row)
        /\ EndInError(c)
        /\ Unrecorded(c)
        /\ UNCHANGED <<users, answered>>
  /\ UNCHANGED <<tokens, lastUser, lastToken, now, faults, appStore, straddled>>

PurchaseStep(c) ==
  \/ \E u \in UserIds : VerifyAndActivate(c, u)
  \/ \E x \in Txns : Activate(c, x)
  \/ StoreRefuses(c)
  \/ \E m \in mail : HandleNotification(c, m) \/ IgnoreNotification(c, m)

VoiceStep(c) ==
  \/ \E u \in UserIds : CheckVoiceParseLimit(c, u)
  \/ ParseFails(c)
  \/ IncrementVoiceParseCount(c)

SubscriptionStep(c) == PurchaseStep(c) \/ VoiceStep(c) \/ SaveSubscription(c)
=============================================================================
