---------------------------- MODULE AccountStore -----------------------------
(***************************************************************************)
(* The tables behind sign-in, account deletion and subscriptions, and the  *)
(* requests that work on them.                                             *)
(*                                                                         *)
(*   users    one row per account, keyed by user id                        *)
(*   tokens   one row per refresh token that can still be exchanged        *)
(*                                                                         *)
(* Every handler reads a row, works on its copy and saves the whole copy:  *)
(* job[c] holds the copy of the request that client c has in flight, and   *)
(* its pc the statement it is at.  A client's next request starts when the *)
(* one before it is answered.  A first statement that fails, or finds      *)
(* nothing, ends the request with nothing changed: that is no step here.   *)
(* A webhook is answered all the same then, and its notification lost, as  *)
(* when it finds the account and a later statement fails.                  *)
(*                                                                         *)
(* Times are hours UTC.  User and token ids are numbered as they are made. *)
(***************************************************************************)
EXTENDS Integers, FiniteSets, Functions, Sequences

CONSTANTS
  Subs,             \* OAuth identities: provider and subject
  Txns,             \* App Store original transaction ids
  Clients,
  NoticeTypes,      \* the notification types the App Store sends
  Ops,              \* the endpoints the clients of this instance call
  VoiceParseLimit,  \* free voice parses a day
  EnforceFK,        \* TRUE for PostgreSQL, FALSE for SQLite
  Times,            \* bound: the hours the clock shows
  MaxUsers,         \* bound: accounts ever made
  MaxTokens,        \* bound: refresh tokens ever issued
  MaxCount,         \* bound: voice parses a row counts
  MaxNotices,       \* bound: notifications the App Store issues for a transaction
  MaxFaults,        \* bound: failed statements and crashes
  Nil               \* no value

AllOps == {"login", "refresh", "logout", "delete", "verify", "webhook", "voice"}

\* The notification types that change a row.
TypesOfNotice == {"DID_RENEW", "SUBSCRIBED", "EXPIRED", "REVOKE", "REFUND", "GRACE_PERIOD_EXPIRED"}

ASSUME AccountBounds ==
  /\ Ops \subseteq AllOps
  /\ NoticeTypes \subseteq TypesOfNotice
  /\ VoiceParseLimit \in Int
  /\ EnforceFK \in BOOLEAN
  /\ Times \subseteq Nat /\ 0 \in Times
  /\ MaxUsers \in Nat /\ MaxTokens \in Nat /\ MaxCount \in Nat
  /\ MaxNotices \in Nat /\ MaxFaults \in Nat

UserIds == 1 .. MaxUsers
TokenIds == 1 .. MaxTokens

\* The n-th notification the App Store issues for a transaction.
Notice == [txn : Txns, n : Nat \ {0}, type : TypesOfNotice]

ASSUME AccountNil ==
  /\ Nil \notin AllOps /\ Nil \notin Notice
  /\ Nil \notin Txns \cup Times \cup UserIds \cup TokenIds

UserRow == [sub : Subs, status : {"free", "premium"}, txn : Txns \cup {Nil},
            count : Nat, parsedAt : Times \cup {Nil}]

TokenRow == [user : UserIds, expires : Nat]

VARIABLES
  users, tokens,
  lastUser, lastToken,   \* ids made so far
  now, faults,
  job,                   \* client -> the request it has in flight
  disturbed              \* history: accounts two requests worked on at once,
                         \* or whose voice parse was answered and not counted

tables == <<users, tokens, lastUser, lastToken>>

Job == [pc    : {"idle", "create", "save", "issue", "rotate", "dropTokens", "dropUser",
                 "verify", "parse"},
        op    : AllOps \cup {Nil},
        user  : UserIds \cup {Nil},
        row   : UserRow \cup {Nil},
        token : TokenIds \cup {Nil},     \* the refresh token presented
        notice : Notice \cup {Nil}]      \* the App Store notification delivered

Idle == [pc |-> "idle", op |-> Nil, user |-> Nil, row |-> Nil, token |-> Nil, notice |-> Nil]

StoreTypes ==
  /\ users \in [DOMAIN users -> UserRow] /\ DOMAIN users \subseteq 1 .. lastUser
  /\ tokens \in [DOMAIN tokens -> TokenRow] /\ DOMAIN tokens \subseteq 1 .. lastToken
  /\ lastUser \in 0 .. MaxUsers /\ lastToken \in 0 .. MaxTokens
  /\ now \in Times /\ faults \in 0 .. MaxFaults
  /\ job \in [Clients -> Job]
  /\ disturbed \subseteq UserIds

StoreInit ==
  /\ users = << >> /\ tokens = << >>
  /\ lastUser = 0 /\ lastToken = 0
  /\ now = 0 /\ faults = 0
  /\ job = [c \in Clients |-> Idle]
  /\ disturbed = {}

----------------------------------------------------------------------------
(* Statements.  Unique indexes cover the identity and the transaction id.  *)

SaveRefused(u, row) ==
  \E v \in DOMAIN users \ {u} :
    users[v].sub = row.sub \/ (row.txn # Nil /\ users[v].txn = row.txn)

\* Create, and Save: gorm inserts the row when the update finds none.
PutUser(u, row) ==
  users' = [x \in DOMAIN users \cup {u} |-> IF x = u THEN row ELSE users[x]]

DeleteUser(u) == users' = Restrict(users, DOMAIN users \ {u})

AccountsOf(s) == {u \in DOMAIN users : users[u].sub = s}

FindByOriginalTransactionID(x) == {u \in DOMAIN users : users[u].txn = x}

CreateToken(t, row) ==
  tokens' = [x \in DOMAIN tokens \cup {t} |-> IF x = t THEN row ELSE tokens[x]]

FindByToken(t) == t \in DOMAIN tokens /\ ~(tokens[t].expires < now)

TokensOf(u) == {t \in DOMAIN tokens : tokens[t].user = u}

\* Faulty variant: the delete matches nothing.
KeepTokens(T) == tokens' = tokens

DeleteTokens(T) == tokens' = Restrict(tokens, DOMAIN tokens \ T)

----------------------------------------------------------------------------
(* Requests *)

At(c, pc) == job[c].pc = pc

Ready(c, op) == At(c, "idle") /\ op \in Ops

\* Client c has a request j in flight.
Start(c, j) ==
  /\ job' = [job EXCEPT ![c] = j]
  /\ disturbed' = IF \E d \in Clients : job[d].user = j.user /\ j.user # Nil
                  THEN disturbed \cup {j.user} ELSE disturbed

Goto(c, pc) == job' = [job EXCEPT ![c].pc = pc] /\ UNCHANGED disturbed

End(c) == job' = [job EXCEPT ![c] = Idle] /\ UNCHANGED disturbed

\* A voice parse is answered even when it could not be counted; any other
\* request whose statement fails is answered with an error.
EndInError(c) ==
  /\ job' = [job EXCEPT ![c] = Idle]
  /\ disturbed' = IF job[c].op = "voice" THEN disturbed \cup {job[c].user} ELSE disturbed

Fault ==
  /\ faults < MaxFaults
  /\ faults' = faults + 1

\* The statement that c's request has come to fails.
StatementFails(c) ==
  /\ ~At(c, "idle")
  /\ Fault
  /\ EndInError(c)
  /\ UNCHANGED <<tables, now>>

\* The process is killed and started again.
Crash ==
  /\ Fault
  /\ job' = [c \in Clients |-> Idle]
  /\ UNCHANGED <<tables, now, disturbed>>

Tick ==
  /\ \E t \in Times : t > now /\ now' = t
  /\ UNCHANGED <<tables, faults, job, disturbed>>
=============================================================================
