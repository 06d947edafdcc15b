------------------------------ MODULE Accounts -------------------------------
(***************************************************************************)
(* Sign-in, account deletion and subscriptions over one users table, with  *)
(* the clock, failing statements and a process that may be killed.         *)
(***************************************************************************)
EXTENDS Sessions, Subscriptions

vars == <<tables, now, faults, job, disturbed, sessionHistory, subscriptionVars>>

Init == StoreInit /\ SessionInit /\ SubscriptionInit

Signing == (\E c \in Clients : SessionStep(c)) /\ UNCHANGED subscriptionVars

Subscribing == (\E c \in Clients : SubscriptionStep(c)) /\ UNCHANGED sessionHistory

\* The App Store acts by itself.
Purchasing ==
  /\ \E x \in Txns, type \in NoticeTypes : Issue(x, type)
  /\ UNCHANGED <<tables, now, faults, job, disturbed, sessionHistory>>

Failing ==
  /\ \E c \in Clients : StatementFails(c) /\ Unrecorded(c)
  /\ UNCHANGED <<sessionHistory, appStore, answered, straddled>>

Restarting ==
  /\ Crash
  /\ mail' = mail \cup Redelivered
  /\ UNCHANGED <<sessionHistory, issued, astray, answered, straddled>>

Passing == Tick /\ UNCHANGED <<sessionHistory, subscriptionVars>>

Next == Signing \/ Subscribing \/ Purchasing \/ Failing \/ Restarting \/ Passing

Spec == Init /\ [][Next]_vars

----------------------------------------------------------------------------
TypeOK == StoreTypes /\ SessionTypes /\ SubscriptionTypes

(* A refresh token is exchanged for a second pair only if two requests     *)
(* presented it at the same time: rotation lets no session fork otherwise, *)
(* whatever fails half way (authService.RefreshToken).                     *)
ForkOnlyByRace ==
  \A s, t \in TokenIds :
    s # t /\ parent[s] = parent[t] /\ parent[s] # Nil => parent[s] \in shared

(* A refresh token for which a new one was issued is found no more: what   *)
(* presents it from then on is turned down, though a request that had      *)
(* found it before goes on (authService.RefreshToken; docs/api.md:278).    *)
ExchangedIsRevoked == \A t \in TokenIds : parent[t] # Nil => ~FindByToken(parent[t])

(* An account whose deletion was answered with success, and on which no    *)
(* two requests worked at once, has left neither a row nor a session       *)
(* (authService.DeleteAccount).                                            *)
DeletedLeavesNothing ==
  \A u \in deleted \ disturbed : u \notin DOMAIN users /\ TokensOf(u) = {}

(* A premium account always carries the transaction its webhooks are       *)
(* matched by.  It is true of every copy a request may yet save as well,   *)
(* so the last writer winning does not break it.                           *)
PremiumHasTransaction ==
  \A u \in DOMAIN users : IsPremium(users[u]) => users[u].txn # Nil

(* An account that has a transaction keeps one as long as it exists, or    *)
(* its webhooks would find nobody: only two requests on the account at     *)
(* once can take it away (Update, which saves every column).               *)
TransactionKept ==
  [][\A u \in (DOMAIN users \cap DOMAIN users') \ disturbed' :
       users[u].txn # Nil => users'[u].txn # Nil]_vars

(* Once every notification has been handled, an account that carries a     *)
(* transaction is premium exactly if its subscription is active, though    *)
(* sign-ins and voice parses save the whole row too.  The exceptions are   *)
(* an account two requests worked on at once, and a transaction that was   *)
(* verified after it lapsed, whose notifications overtook one another or   *)
(* a verification, or one of whose notifications could not be recorded.    *)
StatusFollowsStore ==
  \A u \in {v \in DOMAIN users \ disturbed : users[v].txn # Nil} :
    LET x == users[u].txn
    IN x \notin astray /\ Delivered(x) => (IsPremium(users[u]) <=> Active(x))

\* A limit below zero leaves as many free parses as a limit of zero.
FreeParses == IF VoiceParseLimit < 0 THEN 0 ELSE VoiceParseLimit

(* The quota of an account nothing disturbed is kept over changes of day   *)
(* and of subscription: its count never exceeds the limit nor falls short  *)
(* of the free parses answered that day, and is their number unless a      *)
(* count met the end of a day between its readings of the clock and took   *)
(* the old day's number into the new; the account is shown what is left    *)
(* (CheckVoiceParseLimit, IncrementVoiceParseCount).                       *)
QuotaExact ==
  \A u \in DOMAIN users \ disturbed :
    LET n == IF answered[u].day = ParseDay(now) THEN answered[u].n ELSE 0
        count == TodayParseCount(users[u])
    IN /\ n <= count /\ count <= FreeParses
       /\ u \notin straddled => count = n
       /\ ~IsPremium(users[u]) => Remaining(users[u]) = FreeParses - count

----------------------------------------------------------------------------
(* The ledger that the rows of accounts nothing disturbed are kept in.     *)

Undisturbed == Restrict(users, DOMAIN users \ disturbed)

Closed == disturbed \cup ((1 .. lastUser) \ DOMAIN users)

Ledger == INSTANCE AccountLedger
            WITH Ids <- UserIds, Limit <- FreeParses, DayLength <- HoursPerDay,
                 row <- Undisturbed, past <- Closed

(* The detailed system implements AccountLedger: handlers that read a row, *)
(* ask Apple, the App Store or Gemini, and save the whole row later act at *)
(* one instant, for an account that each has to itself (Update, which      *)
(* saves every column).                                                    *)
ImplementsLedger == Ledger!Spec

----------------------------------------------------------------------------
(* What the repository's texts say and the code does not do.               *)

(* docs/api.md:278: a refresh token is revoked at once when exchanged, so  *)
(* that it is exchanged once.                                              *)
ExchangedOnce ==
  \A s, t \in TokenIds : s # t /\ parent[s] = parent[t] => parent[s] = Nil

(* docs/api.md:380: deleting an account deletes its row.                   *)
DeletedStaysDeleted == deleted \cap DOMAIN users = {}

(* docs/api.md:936 and internal/model/user.go:27: after EXPIRED the        *)
(* account is free; a premium account has an active subscription.          *)
LapsedIsFree ==
  \A u \in {v \in DOMAIN users : users[v].txn # Nil} :
    LET x == users[u].txn
    IN Delivered(x) /\ Bought(x) /\ Last(x) = "EXPIRED" => ~IsPremium(users[u])

(* docs/api.md:966: the free parses are granted anew at midnight in Korea. *)
GrantedAtMidnight ==
  \A u \in DOMAIN users :
    users[u].parsedAt # Nil /\ CalendarDay(users[u].parsedAt) < CalendarDay(now)
      => Allowed(users[u])
=============================================================================
