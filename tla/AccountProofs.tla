---------------------------- MODULE AccountProofs ----------------------------
(***************************************************************************)
(* Theorems about Accounts for every value of its constants, with their    *)
(* TLAPS proofs.  Inv is inductive.  A step either lets a request move on  *)
(* or end (QuietStep), starts one (StartStep), or makes or removes an      *)
(* account or a token.                                                     *)
(***************************************************************************)
EXTENDS Accounts, TLAPS

PremiumRow(row) == IsPremium(row) => row.txn # Nil

(***************************************************************************)
(* What a request j carries at each statement, with u accounts and t       *)
(* tokens made so far.                                                     *)
(***************************************************************************)
JobOK(j, u, t) ==
  /\ j \in Job
  /\ j.pc \in {"create", "save", "verify"} => j.row \in UserRow /\ PremiumRow(j.row)
  /\ j.pc \in {"idle", "create"} <=> j.user = Nil
  /\ j.user # Nil => j.user \in 1 .. u
  /\ j.token # Nil => j.token \in 1 .. t /\ j.pc \in {"rotate", "issue"}
  /\ j.pc = "rotate" => j.token # Nil
  /\ j.pc \in {"create", "verify"} => j.op # "voice"
  /\ j.pc = "save" /\ j.op = "voice" => j.row.parsedAt # Nil
  /\ j.op = "webhook" => j.notice \in Notice

JobInv == \A c \in Clients : JobOK(job[c], lastUser, lastToken)

(***************************************************************************)
(* A refresh token that has been exchanged is in no table any more, and    *)
(* whoever still holds it presented it while another request did.          *)
(***************************************************************************)
ForkInv ==
  /\ \A c, d \in Clients :
       c # d /\ job[c].token = job[d].token /\ job[c].token # Nil => job[c].token \in shared
  /\ \A c \in Clients : job[c].pc = "issue" => job[c].token \notin DOMAIN tokens
  /\ \A s \in TokenIds : parent[s] # Nil =>
       s <= lastToken /\ parent[s] \in 1 .. lastToken /\ parent[s] \notin DOMAIN tokens
  /\ \A s \in TokenIds, c \in Clients :
       parent[s] # Nil /\ job[c].token = parent[s] => parent[s] \in shared
  /\ ForkOnlyByRace

(***************************************************************************)
(* Two requests at work on one account have disturbed it; a request that   *)
(* is about to delete an account nobody disturbed has deleted its tokens;  *)
(* and no request is at work on an account so deleted.                     *)
(***************************************************************************)
DeletedInv ==
  /\ \A t \in DOMAIN tokens : tokens[t].user \in 1 .. lastUser
  /\ \A c, d \in Clients :
       c # d /\ job[c].user = job[d].user /\ job[c].user # Nil => job[c].user \in disturbed
  /\ \A c \in Clients : job[c].pc = "dropUser" /\ job[c].user \notin disturbed
                          => TokensOf(job[c].user) = {}
  /\ deleted \subseteq 1 .. lastUser
  /\ \A u \in deleted \ disturbed : \A c \in Clients : job[c].user # u
  /\ DeletedLeavesNothing

Inv == TypeOK /\ JobInv /\ PremiumHasTransaction /\ ForkInv /\ DeletedInv

----------------------------------------------------------------------------
(* The operators the model is built from *)

\* Nil is no id, no time and no transaction.
LEMMA Nils ==
  /\ Nil \notin UserIds /\ Nil \notin TokenIds /\ Nil \notin Times /\ Nil \notin Txns
  /\ Nil # "webhook"
  BY AccountNil DEF AllOps

\* Ids made so far are ids, and the keys of the tables are among them.
LEMMA Ids ==
  ASSUME TypeOK
  PROVE  /\ lastUser \in Nat /\ lastToken \in Nat
         /\ 1 .. lastUser \subseteq UserIds /\ 1 .. lastToken \subseteq TokenIds
         /\ DOMAIN users \subseteq UserIds /\ DOMAIN tokens \subseteq TokenIds
  BY AccountBounds DEF TypeOK, StoreTypes, UserIds, TokenIds

\* What the statements on users leave in the table.
LEMMA UserStatements ==
  ASSUME TypeOK
  PROVE  /\ \A u, row : u \in UserIds /\ row \in UserRow /\ PutUser(u, row) =>
              /\ users' \in [DOMAIN users' -> UserRow]
              /\ DOMAIN users' = DOMAIN users \cup {u}
              /\ \A x \in DOMAIN users' : users'[x] = IF x = u THEN row ELSE users[x]
         /\ \A u : DeleteUser(u) =>
              /\ users' \in [DOMAIN users' -> UserRow]
              /\ DOMAIN users' = DOMAIN users \ {u}
              /\ \A x \in DOMAIN users' : users'[x] = users[x]
  BY DEF TypeOK, StoreTypes, PutUser, DeleteUser, Restrict

\* What the statements on refresh tokens leave in the table.
LEMMA TokenStatements ==
  ASSUME TypeOK
  PROVE  /\ \A t, row : t \in TokenIds /\ row \in TokenRow /\ CreateToken(t, row) =>
              /\ tokens' \in [DOMAIN tokens' -> TokenRow]
              /\ DOMAIN tokens' = DOMAIN tokens \cup {t}
              /\ \A x \in DOMAIN tokens' : tokens'[x] = IF x = t THEN row ELSE tokens[x]
         /\ \A T : DeleteTokens(T) =>
              /\ tokens' \in [DOMAIN tokens' -> TokenRow]
              /\ DOMAIN tokens' = DOMAIN tokens \ T
              /\ \A x \in DOMAIN tokens' : tokens'[x] = tokens[x]
  BY DEF TypeOK, StoreTypes, CreateToken, DeleteTokens, Restrict

\* A request replaced by an admissible one leaves the others as they are.
LEMMA JobUpdate ==
  ASSUME TypeOK, JobInv, NEW c \in Clients, NEW j,
         job' = [job EXCEPT ![c] = j], JobOK(j, lastUser', lastToken'),
         lastUser' \in Nat, lastToken' \in Nat,
         lastUser <= lastUser', lastToken <= lastToken'
  PROVE  /\ JobInv' /\ job' \in [Clients -> Job]
         /\ job'[c] = j /\ \A d \in Clients \ {c} : job'[d] = job[d]
<1>1. job'[c] = j /\ \A d \in Clients \ {c} : job'[d] = job[d]
  BY DEF TypeOK, StoreTypes
<1>2. j \in Job
  BY DEF JobOK
<1>3. ASSUME NEW d \in Clients, d # c
      PROVE  JobOK(job'[d], lastUser', lastToken')
  <2>1. JobOK(job[d], lastUser, lastToken) /\ job'[d] = job[d]
    BY <1>1, <1>3 DEF JobInv
  <2>2. 1 .. lastUser \subseteq 1 .. lastUser' /\ 1 .. lastToken \subseteq 1 .. lastToken'
    BY Ids
  <2> QED
    BY <2>1, <2>2 DEF JobOK
<1> QED
  BY <1>1, <1>2, <1>3 DEF JobInv, TypeOK, StoreTypes

\* A client with no request is admissible, and so is the request in hand.
LEMMA JobEnd ==
  ASSUME TypeOK, JobInv, NEW c \in Clients
  PROVE  /\ JobOK(Idle, lastUser, lastToken) /\ Idle.pc = "idle" /\ Idle.user = Nil
         /\ Idle.token = Nil
         /\ JobOK(job[c], lastUser, lastToken) /\ job[c] \in Job
         /\ job[c].user # Nil => job[c].user \in UserIds
  BY Ids, Nils DEF JobOK, Idle, Job, JobInv

\* The App Store and the history of subscriptions keep their types.
LEMMA SubscriptionTyping ==
  ASSUME TypeOK
  PROVE  /\ UNCHANGED subscriptionVars => SubscriptionTypes'
         /\ \A x, bad : x \in Txns /\ GoesAstray(x, bad) => astray' \subseteq Txns
         /\ \A m : mail' = mail \ {m} => mail' \subseteq Notice
<1>1. issued \in [Txns -> Seq(TypesOfNotice)] /\ mail \subseteq Notice /\ astray \subseteq Txns
      /\ answered \in [UserIds -> [day : Nat, n : Nat]] /\ straddled \subseteq UserIds
  BY DEF TypeOK, SubscriptionTypes
<1>2. UNCHANGED subscriptionVars => SubscriptionTypes'
  BY <1>1 DEF subscriptionVars, SubscriptionTypes
<1>3. \A x, bad : x \in Txns /\ GoesAstray(x, bad) => astray' \subseteq Txns
  BY <1>1 DEF GoesAstray
<1> QED
  BY <1>1, <1>2, <1>3

\* Only a webhook that could not be recorded leaves its transaction astray.
LEMMA UnrecordedTypes ==
  ASSUME TypeOK, JobInv, NEW c \in Clients, Unrecorded(c)
  PROVE  astray' \subseteq Txns
<1>1. job[c].op = "webhook" => job[c].notice.txn \in Txns
  BY DEF JobInv, JobOK, Notice
<1> QED
  BY <1>1 DEF Unrecorded, GoesAstray, TypeOK, SubscriptionTypes

----------------------------------------------------------------------------
(* Kinds of steps *)

\* Request c moves on or ends, rows may be saved by it, tokens may go.
QuietStep(c, j) ==
  /\ c \in Clients
  /\ job' = [job EXCEPT ![c] = j]
  /\ JobOK(j, lastUser, lastToken)
  /\ j.user \in {job[c].user, Nil} /\ j.token \in {job[c].token, Nil}
  /\ j.pc = "issue" => j.token \notin DOMAIN tokens'
  /\ j.pc = "dropUser" => \A t \in DOMAIN tokens' : tokens'[t].user # j.user
  /\ \A u \in DOMAIN users' :
       \/ u \in DOMAIN users /\ users'[u] = users[u]
       \/ u = job[c].user /\ u # Nil /\ PremiumRow(users'[u])
  /\ DOMAIN tokens' \subseteq DOMAIN tokens
  /\ \A t \in DOMAIN tokens' : tokens'[t] = tokens[t]
  /\ UNCHANGED <<lastUser, lastToken, parent, shared, deleted>> /\ now' \in Times
  /\ disturbed \subseteq disturbed' /\ disturbed' \subseteq UserIds
  /\ users' \in [DOMAIN users' -> UserRow] /\ tokens' \in [DOMAIN tokens' -> TokenRow]
  /\ faults' \in 0 .. MaxFaults /\ SubscriptionTypes'

\* Such a step preserves the invariant.
LEMMA QuietStepKeeps ==
  ASSUME Inv, NEW c \in Clients, NEW j, QuietStep(c, j)
  PROVE  Inv'
<1>1. TypeOK /\ JobInv /\ PremiumHasTransaction /\ ForkInv /\ DeletedInv
  BY DEF Inv
<1>2. /\ job' \in [Clients -> Job] /\ JobInv'
      /\ job'[c] = j /\ \A d \in Clients \ {c} : job'[d] = job[d]
  <2>1. /\ job' = [job EXCEPT ![c] = j] /\ JobOK(j, lastUser', lastToken')
        /\ lastUser' = lastUser /\ lastToken' = lastToken
    BY DEF QuietStep
  <2>2. /\ lastUser' \in Nat /\ lastToken' \in Nat
        /\ lastUser <= lastUser' /\ lastToken <= lastToken'
    BY <1>1, <2>1, Ids
  <2> QED
    BY <1>1, <2>1, <2>2, JobUpdate
<1>3. \A d \in Clients : /\ job'[d].user \in {job[d].user, Nil}
                         /\ job'[d].token \in {job[d].token, Nil}
  BY <1>2 DEF QuietStep
<1>4. PremiumHasTransaction'
  BY <1>1 DEF QuietStep, PremiumHasTransaction, PremiumRow
<1>5. ForkInv'
  <2>1. ForkOnlyByRace'
    BY <1>1 DEF QuietStep, ForkInv, ForkOnlyByRace
  <2>2. \A d \in Clients : job'[d].pc = "issue" => job'[d].token \notin DOMAIN tokens'
    BY <1>1, <1>2 DEF QuietStep, ForkInv
  <2>3. \A d, e \in Clients :
          d # e /\ job'[d].token = job'[e].token /\ job'[d].token # Nil
            => job'[d].token \in shared'
    BY <1>1, <1>3 DEF QuietStep, ForkInv
  <2>4. \A s \in TokenIds : parent'[s] # Nil =>
          s <= lastToken' /\ parent'[s] \in 1 .. lastToken' /\ parent'[s] \notin DOMAIN tokens'
    BY <1>1 DEF QuietStep, ForkInv
  <2>5. \A s \in TokenIds, d \in Clients :
          parent'[s] # Nil /\ job'[d].token = parent'[s] => parent'[s] \in shared'
    BY <1>1, <1>3 DEF QuietStep, ForkInv
  <2> QED
    BY <2>1, <2>2, <2>3, <2>4, <2>5 DEF ForkInv
<1>6. DeletedInv'
  <2>1. \A t \in DOMAIN tokens' : tokens'[t].user \in 1 .. lastUser'
    BY <1>1 DEF QuietStep, DeletedInv
  <2>2. \A d, e \in Clients :
          d # e /\ job'[d].user = job'[e].user /\ job'[d].user # Nil
            => job'[d].user \in disturbed'
    BY <1>1, <1>3 DEF QuietStep, DeletedInv
  <2>3. ASSUME NEW d \in Clients, job'[d].pc = "dropUser", job'[d].user \notin disturbed'
        PROVE  TokensOf(job[d].user)' = {}
    <3>1. CASE d = c
      BY <1>2, <2>3, <3>1 DEF QuietStep, TokensOf
    <3>2. CASE d # c
      <4>1. job'[d] = job[d] /\ TokensOf(job[d].user) = {}
        BY <1>1, <1>2, <2>3, <3>2 DEF QuietStep, DeletedInv
      <4> QED
        BY <4>1 DEF QuietStep, TokensOf
    <3> QED
      BY <3>1, <3>2
  <2>4. ASSUME NEW u \in deleted' \ disturbed'
        PROVE  /\ \A d \in Clients : job'[d].user # u
               /\ u \notin DOMAIN users' /\ TokensOf(u)' = {}
    <3>1. u \in deleted \ disturbed /\ u # Nil
      BY <1>1, Ids, Nils DEF QuietStep, DeletedInv
    <3>2. /\ \A d \in Clients : job[d].user # u
          /\ u \notin DOMAIN users /\ TokensOf(u) = {}
      BY <1>1, <3>1 DEF DeletedInv, DeletedLeavesNothing
    <3> QED
      BY <1>3, <3>1, <3>2 DEF QuietStep, TokensOf
  <2>5. deleted' \subseteq 1 .. lastUser'
    BY <1>1 DEF QuietStep, DeletedInv
  <2> QED
    BY <2>1, <2>2, <2>3, <2>4, <2>5 DEF DeletedInv, DeletedLeavesNothing
<1>7. TypeOK'
  <2>1. DOMAIN users' \subseteq 1 .. lastUser' /\ DOMAIN tokens' \subseteq 1 .. lastToken'
    BY <1>1, JobEnd DEF QuietStep, TypeOK, StoreTypes, JobOK
  <2> QED
    BY <1>1, <1>2, <2>1 DEF QuietStep, TypeOK, StoreTypes, SessionTypes
<1> QED
  BY <1>2, <1>4, <1>5, <1>6, <1>7 DEF Inv

\* An idle client's request starts with an account or a token that exists.
StartStep(c, j) ==
  /\ c \in Clients
  /\ Start(c, j)
  /\ JobOK(j, lastUser, lastToken)
  /\ job[c].pc = "idle"
  /\ j.pc \notin {"issue", "dropUser"}
  /\ j.user = Nil \/ j.user \in DOMAIN users \/ TokensOf(j.user) # {}
  /\ j.token # Nil => /\ j.token \in DOMAIN tokens
                      /\ (\E d \in Clients : job[d].token = j.token) => j.token \in shared'
  /\ shared \subseteq shared' /\ shared' \subseteq TokenIds
  /\ UNCHANGED <<tables, now, faults, parent, deleted>> /\ SubscriptionTypes'

\* Such a step preserves the invariant: whoever it joins, it disturbs.
LEMMA StartStepKeeps ==
  ASSUME Inv, NEW c \in Clients, NEW j, StartStep(c, j)
  PROVE  Inv'
<1>1. TypeOK /\ JobInv /\ PremiumHasTransaction /\ ForkInv /\ DeletedInv
  BY DEF Inv
<1>2. /\ job' \in [Clients -> Job] /\ JobInv'
      /\ job'[c] = j /\ \A d \in Clients \ {c} : job'[d] = job[d]
  <2>1. /\ job' = [job EXCEPT ![c] = j] /\ JobOK(j, lastUser', lastToken')
        /\ lastUser' = lastUser /\ lastToken' = lastToken
    BY DEF StartStep, tables, Start
  <2>2. /\ lastUser' \in Nat /\ lastToken' \in Nat
        /\ lastUser <= lastUser' /\ lastToken <= lastToken'
    BY <1>1, <2>1, Ids
  <2> QED
    BY <1>1, <2>1, <2>2, JobUpdate
<1>3. /\ disturbed \subseteq disturbed'
      /\ j.user # Nil /\ (\E d \in Clients : job[d].user = j.user) => j.user \in disturbed'
  BY DEF StartStep, tables, Start
<1>4. PremiumHasTransaction'
  BY <1>1 DEF StartStep, tables, PremiumHasTransaction
<1>5. ForkInv'
  <2>1. ForkOnlyByRace'
    BY <1>1 DEF StartStep, tables, ForkInv, ForkOnlyByRace
  <2>2. \A d \in Clients : job'[d].pc = "issue" => job'[d].token \notin DOMAIN tokens'
    BY <1>1, <1>2 DEF StartStep, tables, ForkInv
  <2>3. \A d, e \in Clients :
          d # e /\ job'[d].token = job'[e].token /\ job'[d].token # Nil
            => job'[d].token \in shared'
    BY <1>1, <1>2 DEF StartStep, tables, ForkInv
  <2>4. \A s \in TokenIds : parent'[s] # Nil =>
          s <= lastToken' /\ parent'[s] \in 1 .. lastToken' /\ parent'[s] \notin DOMAIN tokens'
    BY <1>1 DEF StartStep, tables, ForkInv
  <2>5. \A s \in TokenIds, d \in Clients :
          parent'[s] # Nil /\ job'[d].token = parent'[s] => parent'[s] \in shared'
    BY <1>1, <1>2 DEF StartStep, tables, ForkInv
  <2> QED
    BY <2>1, <2>2, <2>3, <2>4, <2>5 DEF ForkInv
<1>6. DeletedInv'
  <2>1. \A t \in DOMAIN tokens' : tokens'[t].user \in 1 .. lastUser'
    BY <1>1 DEF StartStep, tables, DeletedInv
  <2>2. \A d, e \in Clients :
          d # e /\ job'[d].user = job'[e].user /\ job'[d].user # Nil
            => job'[d].user \in disturbed'
    BY <1>1, <1>2, <1>3 DEF DeletedInv
  <2>3. ASSUME NEW d \in Clients, job'[d].pc = "dropUser", job'[d].user \notin disturbed'
        PROVE  TokensOf(job[d].user)' = {}
    <3>1. job'[d] = job[d] /\ TokensOf(job[d].user) = {}
      BY <1>1, <1>2, <1>3, <2>3 DEF StartStep, tables, DeletedInv
    <3> QED
      BY <3>1 DEF StartStep, tables, TokensOf
  <2>4. ASSUME NEW u \in deleted' \ disturbed'
        PROVE  /\ \A d \in Clients : job'[d].user # u
               /\ u \notin DOMAIN users' /\ TokensOf(u)' = {}
    <3>1. u \in deleted \ disturbed /\ u # Nil
      BY <1>1, <1>3, Ids, Nils DEF StartStep, tables, DeletedInv
    <3>2. /\ \A d \in Clients : job[d].user # u
          /\ u \notin DOMAIN users /\ TokensOf(u) = {}
      BY <1>1, <3>1 DEF DeletedInv, DeletedLeavesNothing
    <3> QED
      BY <1>2, <3>1, <3>2 DEF StartStep, tables, TokensOf
  <2>5. deleted' \subseteq 1 .. lastUser'
    BY <1>1 DEF StartStep, tables, DeletedInv
  <2> QED
    BY <2>1, <2>2, <2>3, <2>4, <2>5 DEF DeletedInv, DeletedLeavesNothing
<1>7. disturbed' \subseteq UserIds
  BY <1>1, Ids DEF StartStep, tables, Start, TypeOK, StoreTypes, JobOK
<1>8. TypeOK'
  BY <1>1, <1>2, <1>7 DEF StartStep, tables, TypeOK, StoreTypes, SessionTypes
<1> QED
  BY <1>2, <1>4, <1>5, <1>6, <1>8 DEF Inv

\* What the App Store and the history of subscriptions do alone.
LEMMA StoreAloneKeeps ==
  ASSUME Inv, SubscriptionTypes',
         UNCHANGED <<tables, now, faults, job, disturbed, sessionHistory>>
  PROVE  Inv'
<1>1. UNCHANGED <<users, tokens, lastUser, lastToken, now, faults, job, disturbed,
                  parent, shared, deleted>>
  BY DEF tables, sessionHistory
<1> QED
  BY <1>1 DEF Inv, TypeOK, StoreTypes, SessionTypes, JobInv, PremiumHasTransaction, ForkInv,
     ForkOnlyByRace, DeletedInv, DeletedLeavesNothing, TokensOf

----------------------------------------------------------------------------
(* Sign-in, rotation and deletion *)

\* AppleLogin and KakaoLogin, up to their write.
LEMMA LoginKeeps ==
  ASSUME Inv, NEW c \in Clients, NEW s \in Subs, Login(c, s),
         UNCHANGED subscriptionVars
  PROVE  Inv'
<1>1. TypeOK /\ JobInv /\ PremiumHasTransaction
  BY DEF Inv
<1> DEFINE returning(u) == [Idle EXCEPT !.pc = "save", !.op = "login", !.user = u,
                                        !.row = LoginRow(u)]
           new == [Idle EXCEPT !.pc = "create", !.op = "login", !.row = NewRow(s)]
<1>2. ASSUME NEW u \in DOMAIN users
      PROVE  JobOK(returning(u), lastUser, lastToken) /\ returning(u).pc = "save"
             /\ returning(u).user = u /\ returning(u).token = Nil
  <2>1. u \in UserIds /\ u \in 1 .. lastUser /\ u # Nil /\ users[u] \in UserRow
    BY <1>1, Ids, Nils DEF TypeOK, StoreTypes
  <2>2. PremiumRow(users[u])
    BY <1>1 DEF PremiumHasTransaction, PremiumRow
  <2> QED
    BY <2>1, <2>2 DEF JobOK, Job, Idle, LoginRow, AllOps
<1>3. JobOK(new, lastUser, lastToken) /\ new.pc = "create" /\ new.user = Nil /\ new.token = Nil
  BY DEF JobOK, Job, Idle, NewRow, UserRow, PremiumRow, IsPremium, AllOps
<1>4. \/ \E u \in DOMAIN users : Start(c, returning(u))
      \/ Start(c, new)
  BY DEF Login, AccountsOf
<1>5. PICK j : StartStep(c, j)
  <2>1. job[c].pc = "idle" /\ UNCHANGED <<tables, now, faults, sessionHistory, subscriptionVars>>
    BY DEF Login, Ready, At
  <2>2. CASE Start(c, new)
    BY <1>1, <1>3, <2>1, <2>2, SubscriptionTyping
    DEF StartStep, sessionHistory, TypeOK, SessionTypes
  <2>3. ASSUME NEW u \in DOMAIN users, Start(c, returning(u))
        PROVE  StartStep(c, returning(u))
    BY <1>1, <1>2, <2>1, <2>3, SubscriptionTyping
    DEF StartStep, sessionHistory, TypeOK, SessionTypes
  <2> HIDE DEF returning, new
  <2> QED
    BY <1>4, <2>2, <2>3
<1> QED
  BY <1>5, StartStepKeeps

\* RefreshToken, up to its delete.
LEMMA RefreshTokenKeeps ==
  ASSUME Inv, NEW c \in Clients, NEW t \in DOMAIN tokens, RefreshToken(c, t),
         UNCHANGED subscriptionVars
  PROVE  Inv'
<1> DEFINE j == [Idle EXCEPT !.pc = "rotate", !.op = "refresh",
                             !.user = tokens[t].user, !.token = t]
<1>1. /\ t \in 1 .. lastToken /\ t \in TokenIds /\ t # Nil
      /\ tokens[t].user \in 1 .. lastUser /\ tokens[t].user \in UserIds /\ tokens[t].user # Nil
  BY Ids, Nils DEF Inv, TypeOK, StoreTypes, DeletedInv
<1>2. JobOK(j, lastUser, lastToken) /\ j.pc = "rotate" /\ j.user = tokens[t].user /\ j.token = t
  BY <1>1 DEF JobOK, Job, Idle, AllOps
<1>3. t \in TokensOf(j.user)
  BY <1>2 DEF TokensOf
<1>4. /\ Start(c, j) /\ job[c].pc = "idle"
      /\ shared' = IF \E d \in Clients : job[d].token = t THEN shared \cup {t} ELSE shared
      /\ UNCHANGED <<tables, now, faults, parent, deleted, subscriptionVars>>
  BY DEF RefreshToken, Ready, At
<1> HIDE DEF j
<1>5. shared \subseteq TokenIds /\ SubscriptionTypes'
  BY SubscriptionTyping DEF Inv, TypeOK, SessionTypes
<1>6. StartStep(c, j)
  BY <1>1, <1>2, <1>3, <1>4, <1>5 DEF StartStep
<1> QED
  BY <1>6, StartStepKeeps

\* DeleteAccount, up to its first delete.
LEMMA DeleteAccountKeeps ==
  ASSUME Inv, NEW c \in Clients, NEW u \in UserIds, DeleteAccount(c, u),
         UNCHANGED subscriptionVars
  PROVE  Inv'
<1> DEFINE j == [Idle EXCEPT !.pc = "dropTokens", !.op = "delete", !.user = u]
<1>1. u \in DOMAIN users /\ u \in 1 .. lastUser /\ u # Nil
  BY Nils DEF Inv, TypeOK, StoreTypes, DeleteAccount
<1>2. JobOK(j, lastUser, lastToken) /\ j.pc = "dropTokens" /\ j.user = u /\ j.token = Nil
  BY <1>1 DEF JobOK, Job, Idle, AllOps
<1>3. /\ Start(c, j) /\ job[c].pc = "idle"
      /\ UNCHANGED <<tables, now, faults, sessionHistory, subscriptionVars>>
  BY DEF DeleteAccount, Ready, At
<1> HIDE DEF j
<1>4. shared \subseteq TokenIds /\ SubscriptionTypes'
  BY SubscriptionTyping DEF Inv, TypeOK, SessionTypes
<1>5. StartStep(c, j)
  BY <1>1, <1>2, <1>3, <1>4 DEF StartStep, sessionHistory
<1> QED
  BY <1>5, StartStepKeeps

\* VerifyAndActivate, up to the call of the App Store.
LEMMA VerifyKeeps ==
  ASSUME Inv, NEW c \in Clients, NEW u \in UserIds, VerifyAndActivate(c, u),
         UNCHANGED sessionHistory
  PROVE  Inv'
<1> DEFINE j == [Idle EXCEPT !.pc = "verify", !.op = "verify", !.user = u, !.row = users[u]]
<1>1. /\ u \in DOMAIN users /\ u \in 1 .. lastUser /\ u # Nil
      /\ users[u] \in UserRow /\ PremiumRow(users[u])
  BY Nils DEF Inv, TypeOK, StoreTypes, VerifyAndActivate, PremiumHasTransaction, PremiumRow
<1>2. JobOK(j, lastUser, lastToken) /\ j.pc = "verify" /\ j.user = u /\ j.token = Nil
  BY <1>1 DEF JobOK, Job, Idle, AllOps
<1>3. /\ Start(c, j) /\ job[c].pc = "idle"
      /\ UNCHANGED <<tables, now, faults, sessionHistory, subscriptionVars>>
  BY DEF VerifyAndActivate, Ready, At
<1> HIDE DEF j
<1>4. shared \subseteq TokenIds /\ SubscriptionTypes'
  BY SubscriptionTyping DEF Inv, TypeOK, SessionTypes, VerifyAndActivate
<1>5. StartStep(c, j)
  BY <1>1, <1>2, <1>3, <1>4 DEF StartStep, sessionHistory
<1> QED
  BY <1>5, StartStepKeeps

\* HandleNotification, up to its save: the row is found by its transaction.
LEMMA NotificationKeeps ==
  ASSUME Inv, NEW c \in Clients, NEW m \in mail, HandleNotification(c, m),
         UNCHANGED sessionHistory
  PROVE  Inv'
<1> DEFINE row(u) == [users[u] EXCEPT !.status = StatusAfter[m.type]]
           j(u) == [Idle EXCEPT !.pc = "save", !.op = "webhook", !.user = u, !.notice = m,
                                !.row = row(u)]
<1>1. PICK u \in FindByOriginalTransactionID(m.txn) : Start(c, j(u))
  BY DEF HandleNotification
<1>2. /\ u \in DOMAIN users /\ u \in 1 .. lastUser /\ u \in UserIds /\ u # Nil
      /\ users[u] \in UserRow /\ users[u].txn = m.txn
      /\ m \in Notice /\ m.txn \in Txns /\ m.type \in TypesOfNotice
  BY Nils, Ids DEF Inv, TypeOK, StoreTypes, SubscriptionTypes, Notice, FindByOriginalTransactionID
<1>3. StatusAfter[m.type] \in {"free", "premium"}
  BY <1>2 DEF StatusAfter
<1>4. row(u) \in UserRow /\ PremiumRow(row(u))
  BY <1>2, <1>3, Nils DEF UserRow, PremiumRow
<1>5. JobOK(j(u), lastUser, lastToken) /\ j(u).pc = "save" /\ j(u).user = u /\ j(u).token = Nil
  <2> HIDE DEF row
  <2> QED
    BY <1>2, <1>4 DEF JobOK, Job, Idle, AllOps
<1>6. /\ job[c].pc = "idle" /\ UNCHANGED <<tables, now, faults, sessionHistory, issued, answered,
                     straddled>>
      /\ mail' = mail \ {m} /\ GoesAstray(m.txn, Overtaken(m) \/ BeingSaved(m.txn))
  BY DEF HandleNotification, Ready, At
<1> HIDE DEF j, row
<1>7. SubscriptionTypes'
  <2>1. mail' \subseteq Notice /\ astray' \subseteq Txns
    BY <1>2, <1>6, SubscriptionTyping DEF Inv
  <2> QED
    BY <1>6, <2>1 DEF Inv, TypeOK, SubscriptionTypes
<1>8. shared \subseteq TokenIds
  BY DEF Inv, TypeOK, SessionTypes
<1>9. StartStep(c, j(u))
  BY <1>1, <1>2, <1>5, <1>6, <1>7, <1>8 DEF StartStep, sessionHistory
<1> QED
  BY <1>9, StartStepKeeps

\* A notification for no account changes no row.
LEMMA IgnoringKeeps ==
  ASSUME Inv, NEW c \in Clients, NEW m \in mail, IgnoreNotification(c, m),
         UNCHANGED sessionHistory
  PROVE  Inv'
<1>1. TypeOK /\ m.txn \in Txns
  BY DEF Inv, TypeOK, SubscriptionTypes, Notice
<1>2. /\ UNCHANGED <<tables, now, faults, job, disturbed, sessionHistory, issued, answered,
                     straddled>>
      /\ mail' = mail \ {m} /\ GoesAstray(m.txn, BeingSaved(m.txn))
  BY DEF IgnoreNotification
<1>3. SubscriptionTypes'
  <2>1. mail' \subseteq Notice /\ astray' \subseteq Txns
    BY <1>1, <1>2, SubscriptionTyping
  <2> QED
    BY <1>1, <1>2, <2>1 DEF TypeOK, SubscriptionTypes
<1> QED
  BY <1>2, <1>3, StoreAloneKeeps

\* The voice endpoint, up to the call of Gemini.
LEMMA CheckLimitKeeps ==
  ASSUME Inv, NEW c \in Clients, NEW u \in UserIds, CheckVoiceParseLimit(c, u),
         UNCHANGED sessionHistory
  PROVE  Inv'
<1> DEFINE j == [Idle EXCEPT !.pc = "parse", !.op = "voice", !.user = u]
<1>1. u \in DOMAIN users /\ u \in 1 .. lastUser /\ u # Nil
  BY Nils DEF Inv, TypeOK, StoreTypes, CheckVoiceParseLimit
<1>2. JobOK(j, lastUser, lastToken) /\ j.pc = "parse" /\ j.user = u /\ j.token = Nil
  BY <1>1 DEF JobOK, Job, Idle, AllOps
<1>3. /\ Start(c, j) /\ job[c].pc = "idle"
      /\ UNCHANGED <<tables, now, faults, sessionHistory, subscriptionVars>>
  BY DEF CheckVoiceParseLimit, Ready, At
<1> HIDE DEF j
<1>4. shared \subseteq TokenIds /\ SubscriptionTypes'
  BY SubscriptionTyping DEF Inv, TypeOK, SessionTypes, CheckVoiceParseLimit
<1>5. StartStep(c, j)
  BY <1>1, <1>2, <1>3, <1>4 DEF StartStep, sessionHistory
<1> QED
  BY <1>5, StartStepKeeps

----------------------------------------------------------------------------
(* Requests that move on *)

\* A request ends where nothing was saved.
LEMMA EndingKeeps ==
  ASSUME Inv, NEW c \in Clients, job' = [job EXCEPT ![c] = Idle],
         disturbed \subseteq disturbed', disturbed' \subseteq UserIds, faults' \in 0 .. MaxFaults,
         SubscriptionTypes', UNCHANGED <<tables, now, sessionHistory>>
  PROVE  Inv'
<1>1. TypeOK /\ JobInv
  BY DEF Inv
<1>2. /\ UNCHANGED <<users, tokens, lastUser, lastToken, now, parent, shared, deleted>>
      /\ users \in [DOMAIN users -> UserRow] /\ tokens \in [DOMAIN tokens -> TokenRow]
      /\ now \in Times
  BY <1>1 DEF tables, sessionHistory, TypeOK, StoreTypes
<1>3. QuietStep(c, Idle)
  BY <1>1, <1>2, JobEnd DEF QuietStep
<1> QED
  BY <1>3, QuietStepKeeps

\* A request moves on, changing neither rows nor tokens; time may pass.
LEMMA MovingKeeps ==
  ASSUME Inv, NEW c \in Clients, NEW j, job' = [job EXCEPT ![c] = j],
         JobOK(j, lastUser, lastToken), j.user = job[c].user, j.token = job[c].token,
         j.pc \notin {"issue", "dropUser"}, SubscriptionTypes', now' \in Times,
         UNCHANGED <<tables, faults, disturbed, sessionHistory>>
  PROVE  Inv'
<1>1. TypeOK
  BY DEF Inv
<1>2. /\ UNCHANGED <<users, tokens, lastUser, lastToken, parent, shared, deleted>>
      /\ users \in [DOMAIN users -> UserRow] /\ tokens \in [DOMAIN tokens -> TokenRow]
      /\ faults \in 0 .. MaxFaults /\ disturbed \subseteq UserIds
  BY <1>1 DEF tables, sessionHistory, TypeOK, StoreTypes
<1>3. QuietStep(c, j)
  BY <1>2 DEF QuietStep
<1> QED
  BY <1>3, QuietStepKeeps

\* A request saves the row it carries.
LEMMA SavingKeeps ==
  ASSUME Inv, NEW c \in Clients, NEW j, job' = [job EXCEPT ![c] = j],
         JobOK(j, lastUser, lastToken), j.user \in {job[c].user, Nil},
         j.token \in {job[c].token, Nil}, j.pc # "dropUser",
         j.pc = "issue" => j.token \notin DOMAIN tokens,
         job[c].pc = "save", PutUser(job[c].user, job[c].row), SubscriptionTypes',
         UNCHANGED <<tokens, lastUser, lastToken, now, faults, disturbed, sessionHistory>>
  PROVE  Inv'
<1>1. TypeOK /\ JobInv
  BY DEF Inv
<1>2. /\ job[c].user \in UserIds /\ job[c].user # Nil
      /\ job[c].row \in UserRow /\ PremiumRow(job[c].row)
  BY <1>1, JobEnd DEF JobOK
<1>3. /\ users' \in [DOMAIN users' -> UserRow]
      /\ DOMAIN users' = DOMAIN users \cup {job[c].user}
      /\ \A x \in DOMAIN users' : users'[x] = IF x = job[c].user THEN job[c].row ELSE users[x]
  BY <1>1, <1>2, UserStatements
<1>4. /\ UNCHANGED <<tokens, lastUser, lastToken, now, faults, disturbed, parent, shared, deleted>>
      /\ tokens \in [DOMAIN tokens -> TokenRow] /\ faults \in 0 .. MaxFaults
      /\ disturbed \subseteq UserIds /\ now \in Times
  BY <1>1 DEF sessionHistory, TypeOK, StoreTypes
<1>5. QuietStep(c, j)
  BY <1>2, <1>3, <1>4 DEF QuietStep
<1> QED
  BY <1>5, QuietStepKeeps

\* A request deletes tokens T, and may move on.
LEMMA DroppingKeeps ==
  ASSUME Inv, NEW c \in Clients, NEW j, NEW T, job' = [job EXCEPT ![c] = j],
         JobOK(j, lastUser, lastToken), j.user = job[c].user, j.token = job[c].token,
         j.pc = "issue" => j.token \notin DOMAIN tokens \ T,
         j.pc = "dropUser" => TokensOf(j.user) \ T = {},
         DeleteTokens(T),
         UNCHANGED <<users, lastUser, lastToken, now, faults, disturbed, sessionHistory,
                     subscriptionVars>>
  PROVE  Inv'
<1>1. TypeOK
  BY DEF Inv
<1>2. /\ tokens' \in [DOMAIN tokens' -> TokenRow]
      /\ DOMAIN tokens' = DOMAIN tokens \ T
      /\ \A x \in DOMAIN tokens' : tokens'[x] = tokens[x]
  BY <1>1, TokenStatements
<1>3. /\ UNCHANGED <<users, lastUser, lastToken, now, faults, disturbed, parent, shared, deleted,
                     issued, mail, astray, answered, straddled>>
      /\ users \in [DOMAIN users -> UserRow] /\ SubscriptionTypes
      /\ faults \in 0 .. MaxFaults /\ disturbed \subseteq UserIds /\ now \in Times
  BY <1>1 DEF sessionHistory, subscriptionVars, TypeOK, StoreTypes
<1>4. SubscriptionTypes'
  BY <1>3 DEF SubscriptionTypes
<1>5. j.pc = "dropUser" => \A t \in DOMAIN tokens' : tokens'[t].user # j.user
  BY <1>2 DEF TokensOf
<1>6. QuietStep(c, j)
  BY <1>2, <1>3, <1>4, <1>5 DEF QuietStep
<1> QED
  BY <1>6, QuietStepKeeps

\* The later statements of sign-in, rotation and deletion, and Logout.
LEMMA SessionMovesKeep ==
  ASSUME Inv, NEW c \in Clients, UNCHANGED subscriptionVars,
         \/ SaveLogin(c) \/ Rotate(c) \/ AppleRefuses(c) \/ DropTokens(c)
         \/ \E u \in UserIds : Logout(c, u)
  PROVE  Inv'
<1>1. TypeOK /\ JobInv /\ ForkInv /\ DeletedInv
  BY DEF Inv
<1>2. /\ JobOK(job[c], lastUser, lastToken) /\ job[c] \in Job
      /\ disturbed \subseteq UserIds /\ faults \in 0 .. MaxFaults
      /\ job \in [Clients -> Job] /\ SubscriptionTypes'
  BY <1>1, JobEnd, SubscriptionTyping DEF TypeOK, StoreTypes
<1>3. CASE SaveLogin(c)
  <2> DEFINE j == [job[c] EXCEPT !.pc = "issue", !.row = Nil]
  <2>1. CASE End(c) /\ UNCHANGED users
    BY <1>2, <1>3, <2>1, EndingKeeps DEF SaveLogin, End, tables
  <2>2. CASE PutUser(job[c].user, job[c].row) /\ UNCHANGED disturbed
             /\ job' = [job EXCEPT ![c].pc = "issue", ![c].row = Nil]
    <3>1. job[c].pc = "save" /\ job[c].token = Nil
      BY <1>2, <1>3 DEF SaveLogin, At, JobOK
    <3>2. job' = [job EXCEPT ![c] = j]
      BY <1>2, <2>2 DEF Job
    <3>3. JobOK(j, lastUser, lastToken) /\ j.user = job[c].user /\ j.token = Nil /\ j.pc = "issue"
      BY <1>2, <3>1 DEF JobOK, Job
    <3>4. Nil \notin DOMAIN tokens
      BY <1>1, Ids, Nils
    <3>5. UNCHANGED <<tokens, lastUser, lastToken, now, faults, disturbed, sessionHistory>>
      BY <1>3, <2>2 DEF SaveLogin
    <3> HIDE DEF j
    <3> QED
      BY <1>2, <2>2, <3>1, <3>2, <3>3, <3>4, <3>5, SavingKeeps
  <2> QED
    BY <1>3, <2>1, <2>2 DEF SaveLogin
<1>4. CASE Rotate(c)
  <2> DEFINE j == [job[c] EXCEPT !.pc = "issue"]
  <2>1. job' = [job EXCEPT ![c] = j] /\ job[c].pc = "rotate"
    BY <1>2, <1>4 DEF Rotate, Goto, At, Job
  <2>2. /\ JobOK(j, lastUser, lastToken) /\ j.user = job[c].user /\ j.token = job[c].token
        /\ j.pc = "issue"
    BY <1>2, <2>1 DEF JobOK, Job
  <2>3. /\ DeleteTokens({job[c].token})
        /\ UNCHANGED <<users, lastUser, lastToken, now, faults, disturbed, sessionHistory,
                       subscriptionVars>>
    BY <1>4 DEF Rotate, Goto
  <2> HIDE DEF j
  <2> QED
    BY <2>1, <2>2, <2>3, DroppingKeeps
<1>5. CASE AppleRefuses(c)
  BY <1>2, <1>5, EndingKeeps DEF AppleRefuses, End, tables
<1>6. CASE DropTokens(c)
  <2> DEFINE j == [job[c] EXCEPT !.pc = "dropUser"]
  <2>1. job' = [job EXCEPT ![c] = j] /\ job[c].pc = "dropTokens"
    BY <1>2, <1>6 DEF DropTokens, Goto, At, Job
  <2>2. /\ JobOK(j, lastUser, lastToken) /\ j.user = job[c].user /\ j.token = job[c].token
        /\ j.pc = "dropUser"
    BY <1>2, <2>1 DEF JobOK, Job
  <2>3. /\ DeleteTokens(TokensOf(job[c].user))
        /\ UNCHANGED <<users, lastUser, lastToken, now, faults, disturbed, sessionHistory,
                       subscriptionVars>>
    BY <1>6 DEF DropTokens, Goto
  <2> HIDE DEF j
  <2> QED
    BY <2>1, <2>2, <2>3, DroppingKeeps
<1>7. ASSUME NEW u \in UserIds, Logout(c, u)
      PROVE  Inv'
  <2>1. /\ job' = [job EXCEPT ![c] = job[c]] /\ DeleteTokens(TokensOf(u))
        /\ UNCHANGED <<users, lastUser, lastToken, now, faults, disturbed, sessionHistory,
                       subscriptionVars>>
    BY <1>2, <1>7 DEF Logout
  <2>2. job[c].pc = "idle"
    BY <1>7 DEF Logout, Ready, At
  <2> QED
    BY <1>2, <2>1, <2>2, DroppingKeeps
<1> QED
  BY <1>3, <1>4, <1>5, <1>6, <1>7

\* The later statements of a verification, a notification and a voice parse.
LEMMA SubscriptionMovesKeep ==
  ASSUME Inv, NEW c \in Clients, UNCHANGED sessionHistory,
         \/ \E x \in Txns : Activate(c, x)
         \/ StoreRefuses(c) \/ ParseFails(c) \/ IncrementVoiceParseCount(c) \/ SaveSubscription(c)
  PROVE  Inv'
<1>1. TypeOK /\ JobInv /\ PremiumHasTransaction
  BY DEF Inv
<1>2. /\ JobOK(job[c], lastUser, lastToken) /\ job[c] \in Job
      /\ disturbed \subseteq UserIds /\ faults \in 0 .. MaxFaults
      /\ job \in [Clients -> Job] /\ now \in Times
      /\ job[c].user # Nil => job[c].user \in UserIds
  BY <1>1, JobEnd DEF TypeOK, StoreTypes
<1>3. /\ EndInError(c) /\ job[c].user # Nil
           => /\ job' = [job EXCEPT ![c] = Idle]
              /\ disturbed \subseteq disturbed' /\ disturbed' \subseteq UserIds
      /\ End(c) => job' = [job EXCEPT ![c] = Idle] /\ UNCHANGED disturbed
  BY <1>2 DEF EndInError, End
<1>4. ASSUME NEW x \in Txns, Activate(c, x)
      PROVE  Inv'
  <2> DEFINE j == [job[c] EXCEPT !.pc = "save", !.row = Activated(@, x)]
  <2>1. job[c].pc = "verify" /\ job[c].row \in UserRow
    BY <1>2, <1>4 DEF Activate, At, JobOK
  <2>2. job' = [job EXCEPT ![c] = j]
    BY <1>2, <1>4 DEF Activate, Job
  <2>3. /\ Activated(job[c].row, x) \in UserRow /\ PremiumRow(Activated(job[c].row, x))
        /\ Activated(job[c].row, x).parsedAt = job[c].row.parsedAt
    BY <2>1, Nils DEF Activated, UserRow, PremiumRow
  <2>4. /\ j.pc = "save" /\ j.op = job[c].op /\ j.user = job[c].user /\ j.token = job[c].token
        /\ j.row = Activated(job[c].row, x) /\ j.notice = job[c].notice /\ j \in Job
    BY <1>2, <2>3 DEF Job
  <2> HIDE DEF j
  <2>5. JobOK(j, lastUser, lastToken)
    BY <1>2, <2>1, <2>3, <2>4 DEF JobOK
  <2>6. UNCHANGED <<tables, faults, disturbed, sessionHistory>> /\ now' \in Times
    BY <1>2, <1>4 DEF Activate
  <2>7. SubscriptionTypes'
    <3>1. astray' \subseteq Txns /\ UNCHANGED <<issued, mail, answered, straddled>>
      BY <1>1, <1>4, SubscriptionTyping DEF Activate, appStore
    <3> QED
      BY <1>1, <3>1 DEF TypeOK, SubscriptionTypes
  <2> QED
    BY <2>2, <2>4, <2>5, <2>6, <2>7, MovingKeeps
<1>5. CASE StoreRefuses(c) \/ ParseFails(c)
  BY <1>1, <1>2, <1>3, <1>5, EndingKeeps, SubscriptionTyping DEF StoreRefuses, ParseFails
<1>6. CASE IncrementVoiceParseCount(c)
  <2>1. job[c].user # Nil
    BY <1>2, <1>6 DEF IncrementVoiceParseCount, CountParse, LeaveUncounted, At, JobOK
  <2>2. CASE LeaveUncounted(c)
    <3>1. UNCHANGED <<tables, now, faults, sessionHistory>> /\ SubscriptionTypes'
      BY <1>1, <2>2, SubscriptionTyping DEF LeaveUncounted
    <3>2. End(c) \/ EndInError(c)
      BY <2>2 DEF LeaveUncounted
    <3> QED
      BY <1>2, <1>3, <2>1, <3>1, <3>2, EndingKeeps
  <2>3. ASSUME NEW t \in Times, CountParse(c, t)
        PROVE  Inv'
    <3> DEFINE u == job[c].user
               row == Counted(users[u], t)
               j == [job[c] EXCEPT !.pc = "save", !.row = row]
    <3>1. /\ job[c].pc = "parse" /\ u \in DOMAIN users /\ u \in UserIds
          /\ UNCHANGED <<tables, faults, disturbed, sessionHistory>> /\ now' \in Times
      BY <1>1, <2>3, Ids DEF CountParse, At
    <3>2. users[u] \in UserRow /\ PremiumRow(users[u])
      BY <1>1, <3>1 DEF TypeOK, StoreTypes, PremiumHasTransaction, PremiumRow
    <3>3. row \in UserRow /\ PremiumRow(row) /\ row.parsedAt # Nil
      <4>1. row = [users[u] EXCEPT !.count = TodayParseCount(users[u]) + 1, !.parsedAt = t]
        BY DEF Counted
      <4>2. TodayParseCount(users[u]) + 1 \in Nat /\ t # Nil
        BY <3>2, Nils DEF TodayParseCount, UserRow
      <4> HIDE DEF u, row
      <4> QED
        BY <3>2, <4>1, <4>2 DEF UserRow, PremiumRow, IsPremium
    <3>4. job' = [job EXCEPT ![c] = j]
      BY <1>2, <2>3 DEF CountParse, Job
    <3>5. /\ j.pc = "save" /\ j.op = job[c].op /\ j.user = job[c].user /\ j.token = job[c].token
          /\ j.row = row /\ j.notice = job[c].notice /\ j \in Job
      BY <1>2, <3>3 DEF Job
    <3> HIDE DEF j, row
    <3>6. JobOK(j, lastUser, lastToken)
      BY <1>2, <2>1, <3>1, <3>3, <3>5 DEF JobOK
    <3>7. SubscriptionTypes'
      BY <1>1, <2>3, <3>1 DEF CountParse, TypeOK, SubscriptionTypes
    <3> QED
      BY <3>1, <3>4, <3>5, <3>6, <3>7, MovingKeeps
  <2> QED
    BY <1>6, <2>2, <2>3 DEF IncrementVoiceParseCount
<1>7. CASE SaveSubscription(c)
  <2> DEFINE u == job[c].user
             row == job[c].row
  <2>1. /\ job[c].pc = "save" /\ u \in UserIds /\ row \in UserRow /\ job[c].user # Nil
        /\ job[c].op = "voice" => row.parsedAt # Nil
    BY <1>2, <1>7 DEF SaveSubscription, At, JobOK
  <2>2. UNCHANGED <<tokens, lastUser, lastToken, now, faults, issued, mail, straddled>>
    BY <1>7 DEF SaveSubscription, appStore
  <2>3. CASE EndInError(c) /\ Unrecorded(c) /\ UNCHANGED <<users, answered>>
    <3>1. SubscriptionTypes'
      BY <1>1, <2>2, <2>3, UnrecordedTypes DEF TypeOK, SubscriptionTypes
    <3> QED
      BY <1>2, <1>3, <2>1, <2>2, <2>3, <3>1, EndingKeeps DEF tables
  <2>4. CASE PutUser(u, row) /\ End(c) /\ Record(job[c].op, u, row) /\ UNCHANGED astray
    <3>1. answered' \in [UserIds -> [day : Nat, n : Nat]]
      <4>1. CASE job[c].op = "voice"
        <5>1. ParseDay(row.parsedAt) \in Nat
          <6>1. row.parsedAt \in Nat
            BY <2>1, <4>1, AccountBounds DEF UserRow
          <6> HIDE DEF row
          <6> QED
            BY <6>1 DEF ParseDay, HoursPerDay
        <5> QED
          BY <1>1, <2>1, <2>4, <5>1 DEF TypeOK, SubscriptionTypes, Record
      <4>2. CASE job[c].op # "voice"
        BY <1>1, <2>4, <4>2 DEF TypeOK, SubscriptionTypes, Record
      <4> QED
        BY <4>1, <4>2
    <3>2. SubscriptionTypes'
      BY <1>1, <2>2, <2>4, <3>1 DEF TypeOK, SubscriptionTypes
    <3>3. JobOK(Idle, lastUser, lastToken) /\ Idle.user = Nil /\ Idle.token = Nil
          /\ Idle.pc = "idle"
      BY <1>1, JobEnd
    <3>4. job' = [job EXCEPT ![c] = Idle] /\ UNCHANGED disturbed
      BY <1>3, <2>4
    <3> QED
      BY <2>1, <2>2, <2>4, <3>2, <3>3, <3>4, SavingKeeps
  <2> QED
    BY <1>7, <2>3, <2>4 DEF SaveSubscription
<1> QED
  BY <1>4, <1>5, <1>6, <1>7

----------------------------------------------------------------------------
(* Steps that make or remove an account or a token *)

\* A new account's id is in no request, no token and no deletion.
LEMMA CreateUserKeeps ==
  ASSUME Inv, NEW c \in Clients, CreateUser(c), UNCHANGED subscriptionVars
  PROVE  Inv'
<1>1. TypeOK /\ JobInv /\ PremiumHasTransaction /\ ForkInv /\ DeletedInv
  BY DEF Inv
<1>2. /\ JobOK(job[c], lastUser, lastToken) /\ job[c] \in Job
      /\ disturbed \subseteq UserIds /\ faults \in 0 .. MaxFaults
      /\ job \in [Clients -> Job]
  BY <1>1, JobEnd DEF TypeOK, StoreTypes
<1>3. job[c].pc = "create" /\ UNCHANGED <<tokens, lastToken, now, faults, sessionHistory>>
  BY DEF CreateUser, At
<1>4. CASE End(c) /\ UNCHANGED <<users, lastUser>>
  BY <1>1, <1>2, <1>3, <1>4, EndingKeeps, SubscriptionTyping DEF End, tables
<1> DEFINE u == lastUser + 1
           j == [job[c] EXCEPT !.pc = "issue", !.user = u, !.row = Nil]
<1>5. CASE /\ u <= MaxUsers /\ lastUser' = u
           /\ PutUser(u, job[c].row) /\ Start(c, j)
  <2>1. /\ job[c].row \in UserRow /\ PremiumRow(job[c].row)
        /\ job[c].user = Nil /\ job[c].token = Nil
    BY <1>2, <1>3 DEF JobOK
  <2>2. /\ lastUser \in Nat /\ lastToken \in Nat /\ u \in UserIds /\ u # Nil
        /\ u \notin 1 .. lastUser /\ lastUser' \in Nat /\ lastUser <= lastUser'
        /\ u \in 1 .. lastUser' /\ 1 .. lastUser \subseteq 1 .. lastUser'
        /\ lastUser' \in 0 .. MaxUsers /\ lastToken' = lastToken
    BY <1>1, <1>3, <1>5, Ids, Nils, AccountBounds DEF UserIds
  <2>3. /\ j \in Job /\ j.pc = "issue" /\ j.user = u /\ j.token = Nil
        /\ JobOK(j, lastUser', lastToken')
    BY <1>2, <2>1, <2>2 DEF JobOK, Job
  <2>4. /\ users' \in [DOMAIN users' -> UserRow]
        /\ DOMAIN users' = DOMAIN users \cup {u}
        /\ \A x \in DOMAIN users' : users'[x] = IF x = u THEN job[c].row ELSE users[x]
    BY <1>1, <1>5, <2>1, <2>2, UserStatements
  <2> HIDE DEF j
  <2>5. job' = [job EXCEPT ![c] = j]
    BY <1>5 DEF Start
  <2>6. /\ job' \in [Clients -> Job] /\ JobInv'
        /\ job'[c] = j /\ \A d \in Clients \ {c} : job'[d] = job[d]
    <3>1. lastToken' \in Nat /\ lastToken <= lastToken'
      BY <2>2
    <3> QED
      BY <1>1, <2>2, <2>3, <2>5, <3>1, JobUpdate
  <2>7. \A d \in Clients : job[d].user # u
    BY <1>1, <2>2 DEF JobInv, JobOK
  <2>8. UNCHANGED disturbed
    BY <1>5, <2>3, <2>7 DEF Start
  <2>9. UNCHANGED <<tokens, lastToken, now, faults, parent, shared, deleted,
                   issued, mail, astray, answered, straddled>>
    BY <1>3 DEF sessionHistory, subscriptionVars
  <2>10. TypeOK'
    <3>1. DOMAIN users' \subseteq 1 .. lastUser'
      BY <1>1, <2>2, <2>4 DEF TypeOK, StoreTypes
    <3>2. StoreTypes'
      BY <1>1, <2>2, <2>4, <2>6, <2>8, <2>9, <3>1 DEF TypeOK, StoreTypes
    <3> QED
      BY <1>1, <2>9, <3>2 DEF TypeOK, SessionTypes, SubscriptionTypes
  <2>11. PremiumHasTransaction'
    BY <1>1, <2>1, <2>4 DEF PremiumHasTransaction, PremiumRow
  <2>12. ForkInv'
    <3>1. \A d \in Clients : job'[d].token \in {job[d].token, Nil}
      BY <2>3, <2>6
    <3>2. \A d \in Clients : job'[d].pc = "issue" => job'[d].token \notin DOMAIN tokens
      BY <1>1, <2>3, <2>6, Ids, Nils DEF ForkInv
    <3>3. Nil \notin TokenIds
      BY Nils
    <3>4. /\ \A d, e \in Clients :
               d # e /\ job'[d].token = job'[e].token /\ job'[d].token # Nil
                 => job'[d].token \in shared
          /\ \A s \in TokenIds, d \in Clients :
               parent[s] # Nil /\ job'[d].token = parent[s] => parent[s] \in shared
      BY <1>1, <3>1 DEF ForkInv
    <3>5. ForkOnlyByRace'
      BY <1>1, <2>9 DEF ForkInv, ForkOnlyByRace
    <3> QED
      BY <1>1, <2>9, <3>2, <3>4, <3>5 DEF ForkInv
  <2>13. DeletedInv'
    <3>1. \A t \in DOMAIN tokens' : tokens'[t].user \in 1 .. lastUser'
      BY <1>1, <2>2, <2>9 DEF DeletedInv
    <3>2. \A d, e \in Clients :
            d # e /\ job'[d].user = job'[e].user /\ job'[d].user # Nil
              => job'[d].user \in disturbed'
      BY <1>1, <2>3, <2>6, <2>7, <2>8 DEF DeletedInv
    <3>3. \A d \in Clients : job'[d].pc = "dropUser" /\ job'[d].user \notin disturbed'
                               => TokensOf(job[d].user)' = {} /\ job'[d] = job[d]
      BY <1>1, <2>3, <2>6, <2>8, <2>9 DEF DeletedInv, TokensOf
    <3>4. deleted' \subseteq 1 .. lastUser'
      BY <1>1, <2>2, <2>9 DEF DeletedInv
    <3>5. ASSUME NEW v \in deleted' \ disturbed'
          PROVE  /\ \A d \in Clients : job'[d].user # v
                 /\ v \notin DOMAIN users' /\ TokensOf(v)' = {}
      <4>1. v \in deleted \ disturbed /\ v # u
        BY <1>1, <2>2, <2>8, <2>9 DEF DeletedInv
      <4>2. /\ \A d \in Clients : job[d].user # v
            /\ v \notin DOMAIN users /\ TokensOf(v) = {}
        BY <1>1, <4>1 DEF DeletedInv, DeletedLeavesNothing
      <4> QED
        BY <2>3, <2>4, <2>6, <2>9, <4>1, <4>2 DEF TokensOf
    <3> QED
      BY <3>1, <3>2, <3>3, <3>4, <3>5 DEF DeletedInv, DeletedLeavesNothing
  <2> QED
    BY <2>6, <2>10, <2>11, <2>12, <2>13 DEF Inv
<1> QED
  BY <1>4, <1>5 DEF CreateUser

\* A second exchange of one token needs a second request that held it.
LEMMA IssueTokenKeeps ==
  ASSUME Inv, NEW c \in Clients, IssueToken(c), UNCHANGED subscriptionVars
  PROVE  Inv'
<1>1. TypeOK /\ JobInv /\ PremiumHasTransaction /\ ForkInv /\ DeletedInv
  BY DEF Inv
<1> DEFINE u == job[c].user
           t == lastToken + 1
           old == job[c].token
<1>2. /\ JobOK(job[c], lastUser, lastToken) /\ job[c].pc = "issue" /\ u # Nil
      /\ u \in 1 .. lastUser /\ u \in UserIds
      /\ old # Nil => old \in 1 .. lastToken /\ old \in TokenIds
      /\ old \in TokenIds \cup {Nil}
  BY <1>1, JobEnd, Ids DEF IssueToken, At, JobOK, Job
<1>3. /\ UNCHANGED <<users, lastUser, now, faults, disturbed, shared, deleted,
                     issued, mail, astray, answered, straddled>>
      /\ job' = [job EXCEPT ![c] = Idle]
  BY DEF IssueToken, End, subscriptionVars
<1>4. CASE UNCHANGED <<tokens, lastToken, parent>>
  <2>1. disturbed \subseteq UserIds /\ faults \in 0 .. MaxFaults
    BY <1>1 DEF TypeOK, StoreTypes
  <2> QED
    BY <1>1, <1>3, <1>4, <2>1, EndingKeeps, SubscriptionTyping DEF tables, sessionHistory
<1>5. CASE /\ t <= MaxTokens /\ lastToken' = t
           /\ CreateToken(t, [user |-> u, expires |-> now + RefreshTTL])
           /\ parent' = [parent EXCEPT ![t] = old]
  <2>1. /\ lastUser \in Nat /\ lastToken \in Nat /\ t \in TokenIds /\ t # Nil
        /\ t \notin 1 .. lastToken /\ lastToken' \in Nat /\ lastToken <= lastToken'
        /\ t \in 1 .. lastToken' /\ 1 .. lastToken \subseteq 1 .. lastToken'
        /\ lastToken' \in 0 .. MaxTokens /\ lastUser' = lastUser
    BY <1>1, <1>3, <1>5, Ids, Nils, AccountBounds DEF TokenIds
  <2> DEFINE row == [user |-> u, expires |-> now + RefreshTTL]
  <2>2. row \in TokenRow /\ row.user = u
    BY <1>1, <1>2, AccountBounds DEF TypeOK, StoreTypes, TokenRow, RefreshTTL
  <2> HIDE DEF row
  <2>3. /\ tokens' \in [DOMAIN tokens' -> TokenRow]
        /\ DOMAIN tokens' = DOMAIN tokens \cup {t}
        /\ \A x \in DOMAIN tokens' : tokens'[x] = IF x = t THEN row ELSE tokens[x]
    BY <1>1, <1>5, <2>1, <2>2, TokenStatements DEF row
  <2>4. t \notin DOMAIN tokens /\ DOMAIN tokens \subseteq 1 .. lastToken
    BY <1>1, <2>1 DEF TypeOK, StoreTypes
  <2>5. JobOK(Idle, lastUser', lastToken')
    BY <2>1, Ids, Nils DEF JobOK, Idle, Job
  <2>6. /\ job' \in [Clients -> Job] /\ JobInv'
        /\ job'[c] = Idle /\ \A d \in Clients \ {c} : job'[d] = job[d]
    <3>1. lastUser' \in Nat /\ lastUser <= lastUser'
      BY <2>1
    <3> QED
      BY <1>1, <1>3, <2>1, <2>5, <3>1, JobUpdate
  <2>7. \A d \in Clients : /\ job'[d].token \in {job[d].token, Nil}
                           /\ job'[d].user \in {job[d].user, Nil}
                           /\ job'[d].pc # "idle" => job'[d] = job[d] /\ d # c
    BY <2>6 DEF Idle
  <2>8. /\ parent \in [TokenIds -> TokenIds \cup {Nil}]
        /\ parent' \in [TokenIds -> TokenIds \cup {Nil}]
        /\ \A s \in TokenIds : parent'[s] = IF s = t THEN old ELSE parent[s]
    BY <1>1, <1>2, <1>5, <2>1 DEF TypeOK, SessionTypes
  <2>9. TypeOK'
    <3>1. DOMAIN tokens' \subseteq 1 .. lastToken'
      BY <2>1, <2>3, <2>4
    <3>2. StoreTypes'
      BY <1>1, <1>3, <2>1, <2>3, <2>6, <3>1 DEF TypeOK, StoreTypes
    <3> QED
      BY <1>1, <1>3, <2>8, <3>2 DEF TypeOK, SessionTypes, SubscriptionTypes
  <2>10. PremiumHasTransaction'
    BY <1>1, <1>3 DEF PremiumHasTransaction
  <2>11. ForkInv'
    <3>1. \A d, e \in Clients :
            d # e /\ job'[d].token = job'[e].token /\ job'[d].token # Nil
              => job'[d].token \in shared'
      BY <1>1, <1>3, <2>7 DEF ForkInv
    <3>2. \A d \in Clients : job[d].token # Nil => job[d].token \in 1 .. lastToken
      BY <1>1 DEF JobInv, JobOK
    <3>3. \A d \in Clients : job'[d].pc = "issue" => job'[d].token \notin DOMAIN tokens'
      BY <1>1, <2>1, <2>3, <2>7, <3>2 DEF ForkInv
    <3>4. ASSUME NEW s \in TokenIds, parent'[s] # Nil
          PROVE  s <= lastToken' /\ parent'[s] \in 1 .. lastToken' /\ parent'[s] \notin DOMAIN tokens'
      <4>1. CASE s = t
        <5>1. parent'[s] = old /\ old \in 1 .. lastToken /\ old \notin DOMAIN tokens
          BY <1>1, <1>2, <2>8, <3>4, <4>1 DEF ForkInv
        <5> QED
          BY <2>1, <2>3, <4>1, <5>1
      <4>2. CASE s # t
        <5>1. /\ parent'[s] = parent[s] /\ s <= lastToken
              /\ parent[s] \in 1 .. lastToken /\ parent[s] \notin DOMAIN tokens
          BY <1>1, <2>8, <3>4, <4>2 DEF ForkInv
        <5>2. s \in Nat /\ s <= lastToken'
          BY <2>1, <5>1 DEF TokenIds
        <5> QED
          BY <2>1, <2>3, <5>1, <5>2
      <4> QED
        BY <4>1, <4>2
    <3>5. ASSUME NEW s \in TokenIds, NEW d \in Clients,
                 parent'[s] # Nil, job'[d].token = parent'[s]
          PROVE  parent'[s] \in shared'
      <4>1. d # c /\ job[d].token = parent'[s]
        BY <2>6, <3>5 DEF Idle
      <4>2. CASE s = t
        BY <1>1, <1>3, <2>8, <3>5, <4>1, <4>2 DEF ForkInv
      <4>3. CASE s # t
        BY <1>1, <1>3, <2>8, <3>5, <4>1, <4>3 DEF ForkInv
      <4> QED
        BY <4>2, <4>3
    <3>6. ForkOnlyByRace'
      <4> SUFFICES ASSUME NEW r \in TokenIds, NEW s \in TokenIds,
                          r # s, parent'[r] = parent'[s], parent'[r] # Nil
                   PROVE  parent'[r] \in shared'
        BY DEF ForkOnlyByRace
      <4>1. CASE r # t /\ s # t
        BY <1>1, <1>3, <2>8, <4>1 DEF ForkInv, ForkOnlyByRace
      <4>2. CASE r = t
        BY <1>1, <1>3, <2>8, <4>2 DEF ForkInv
      <4>3. CASE s = t
        BY <1>1, <1>3, <2>8, <4>3 DEF ForkInv
      <4> QED
        BY <4>1, <4>2, <4>3
    <3> QED
      BY <3>1, <3>3, <3>4, <3>5, <3>6 DEF ForkInv
  <2>12. DeletedInv'
    <3>1. \A x \in DOMAIN tokens' : tokens'[x].user \in 1 .. lastUser'
      BY <1>1, <1>2, <1>3, <2>2, <2>3 DEF DeletedInv
    <3>2. \A d, e \in Clients :
            d # e /\ job'[d].user = job'[e].user /\ job'[d].user # Nil
              => job'[d].user \in disturbed'
      BY <1>1, <1>3, <2>7 DEF DeletedInv
    <3>3. ASSUME NEW v, TokensOf(v) = {}, v # u
          PROVE  TokensOf(v)' = {}
      BY <2>2, <2>3, <3>3 DEF TokensOf
    <3>4. ASSUME NEW d \in Clients, job'[d].pc = "dropUser", job'[d].user \notin disturbed'
          PROVE  TokensOf(job[d].user)' = {} /\ job'[d] = job[d]
      <4>1. d # c /\ job'[d] = job[d]
        BY <2>7, <3>4
      <4>2. TokensOf(job[d].user) = {} /\ job[d].user # u
        BY <1>1, <1>2, <1>3, <3>4, <4>1 DEF DeletedInv
      <4> QED
        BY <3>3, <4>1, <4>2
    <3>5. ASSUME NEW v \in deleted' \ disturbed'
          PROVE  /\ \A d \in Clients : job'[d].user # v
                 /\ v \notin DOMAIN users' /\ TokensOf(v)' = {}
      <4>1. v \in deleted \ disturbed /\ v # Nil
        BY <1>1, <1>3, Ids, Nils DEF DeletedInv
      <4>2. /\ \A d \in Clients : job[d].user # v
            /\ v \notin DOMAIN users /\ TokensOf(v) = {}
        BY <1>1, <4>1 DEF DeletedInv, DeletedLeavesNothing
      <4> QED
        BY <1>3, <2>7, <3>3, <4>1, <4>2
    <3>6. deleted' \subseteq 1 .. lastUser'
      BY <1>1, <1>3 DEF DeletedInv
    <3> QED
      BY <3>1, <3>2, <3>4, <3>5, <3>6 DEF DeletedInv, DeletedLeavesNothing
  <2> QED
    BY <2>6, <2>9, <2>10, <2>11, <2>12 DEF Inv
<1> QED
  BY <1>4, <1>5 DEF IssueToken

\* A deletion no request joined finds no token and no other request.
LEMMA DropUserKeeps ==
  ASSUME Inv, NEW c \in Clients, DropUser(c), UNCHANGED subscriptionVars
  PROVE  Inv'
<1>1. TypeOK /\ JobInv /\ PremiumHasTransaction /\ ForkInv /\ DeletedInv
  BY DEF Inv
<1> DEFINE u == job[c].user
<1>2. /\ job[c].pc = "dropUser" /\ u # Nil /\ u \in 1 .. lastUser /\ u \in UserIds
  BY <1>1, JobEnd DEF DropUser, At, JobOK
<1>3. /\ UNCHANGED <<tokens, lastUser, lastToken, now, faults, disturbed, parent, shared,
                  issued, mail, astray, answered, straddled>>
      /\ job' = [job EXCEPT ![c] = Idle]
  BY DEF DropUser, End, subscriptionVars
<1>4. CASE UNCHANGED <<users, deleted>>
  <2>1. disturbed \subseteq UserIds /\ faults \in 0 .. MaxFaults
    BY <1>1 DEF TypeOK, StoreTypes
  <2> QED
    BY <1>1, <1>3, <1>4, <2>1, EndingKeeps, SubscriptionTyping DEF tables, sessionHistory
<1>5. CASE DeleteUser(u) /\ deleted' = deleted \cup {u}
  <2>1. /\ users' \in [DOMAIN users' -> UserRow]
        /\ DOMAIN users' = DOMAIN users \ {u}
        /\ \A x \in DOMAIN users' : users'[x] = users[x]
    BY <1>1, <1>5, UserStatements
  <2>2. JobOK(Idle, lastUser', lastToken') /\ Idle.user = Nil /\ Idle.token = Nil /\ Idle.pc = "idle"
    BY <1>1, <1>3, JobEnd
  <2>3. /\ job' \in [Clients -> Job] /\ JobInv'
        /\ job'[c] = Idle /\ \A d \in Clients \ {c} : job'[d] = job[d]
    <3>1. /\ lastUser' \in Nat /\ lastUser <= lastUser'
          /\ lastToken' \in Nat /\ lastToken <= lastToken'
      BY <1>1, <1>3, Ids
    <3> QED
      BY <1>1, <1>3, <2>2, <3>1, JobUpdate
  <2>4. \A d \in Clients : /\ job'[d].token \in {job[d].token, Nil}
                           /\ job'[d].user \in {job[d].user, Nil}
                           /\ job'[d].pc # "idle" => job'[d] = job[d] /\ d # c
    BY <2>2, <2>3
  <2>5. TypeOK'
    <3>1. StoreTypes'
      BY <1>1, <1>3, <2>1, <2>3 DEF TypeOK, StoreTypes
    <3> QED
      BY <1>1, <1>2, <1>3, <1>5, <3>1 DEF TypeOK, SessionTypes, SubscriptionTypes
  <2>6. PremiumHasTransaction'
    BY <1>1, <2>1 DEF PremiumHasTransaction
  <2>7. ForkInv'
    <3>1. ForkOnlyByRace'
      BY <1>1, <1>3 DEF ForkInv, ForkOnlyByRace
    <3> QED
      BY <1>1, <1>3, <2>4, <3>1 DEF ForkInv
  <2>8. DeletedInv'
    <3>1. \A t \in DOMAIN tokens' : tokens'[t].user \in 1 .. lastUser'
      BY <1>1, <1>3 DEF DeletedInv
    <3>2. \A d, e \in Clients :
            d # e /\ job'[d].user = job'[e].user /\ job'[d].user # Nil
              => job'[d].user \in disturbed'
      BY <1>1, <1>3, <2>4 DEF DeletedInv
    <3>3. \A d \in Clients : job'[d].pc = "dropUser" /\ job'[d].user \notin disturbed'
                               => TokensOf(job[d].user)' = {} /\ job'[d] = job[d]
      BY <1>1, <1>3, <2>4 DEF DeletedInv, TokensOf
    <3>4. deleted' \subseteq 1 .. lastUser'
      BY <1>1, <1>2, <1>3, <1>5 DEF DeletedInv
    <3>5. ASSUME NEW v \in deleted' \ disturbed'
          PROVE  /\ \A d \in Clients : job'[d].user # v
                 /\ v \notin DOMAIN users' /\ TokensOf(v)' = {}
      <4>1. CASE v = u
        <5>1. TokensOf(u) = {} /\ \A d \in Clients : d # c => job[d].user # u
          BY <1>1, <1>2, <1>3, <3>5, <4>1 DEF DeletedInv
        <5> QED
          BY <1>2, <1>3, <2>1, <2>2, <2>3, <4>1, <5>1 DEF TokensOf
      <4>2. CASE v # u
        <5>1. v \in deleted \ disturbed /\ v # Nil
          BY <1>1, <1>3, <1>5, <3>5, <4>2, Ids, Nils DEF DeletedInv
        <5>2. /\ \A d \in Clients : job[d].user # v
              /\ v \notin DOMAIN users /\ TokensOf(v) = {}
          BY <1>1, <5>1 DEF DeletedInv, DeletedLeavesNothing
        <5> QED
          BY <1>3, <2>1, <2>4, <5>1, <5>2 DEF TokensOf
      <4> QED
        BY <4>1, <4>2
    <3> QED
      BY <3>1, <3>2, <3>3, <3>4, <3>5 DEF DeletedInv, DeletedLeavesNothing
  <2> QED
    BY <2>3, <2>5, <2>6, <2>7, <2>8 DEF Inv
<1> QED
  BY <1>4, <1>5 DEF DropUser

----------------------------------------------------------------------------
(* Faults and the clock *)

\* A fault stays within its bound.
LEMMA Faults ==
  ASSUME TypeOK, Fault
  PROVE  faults' \in 0 .. MaxFaults
  BY AccountBounds DEF Fault, TypeOK, StoreTypes

\* A statement fails, and with it the request.
LEMMA FailingKeeps ==
  ASSUME Inv, Failing
  PROVE  Inv'
<1>1. TypeOK /\ JobInv
  BY DEF Inv
<1>2. PICK c \in Clients : StatementFails(c) /\ Unrecorded(c)
  BY DEF Failing
<1>3. /\ job[c] \in Job /\ JobOK(job[c], lastUser, lastToken) /\ job[c].pc # "idle"
      /\ disturbed \subseteq UserIds
      /\ job[c].user # Nil => job[c].user \in UserIds
  BY <1>1, <1>2, JobEnd DEF TypeOK, StoreTypes, StatementFails, At
<1>4. job[c].op = "voice" => job[c].user \in UserIds
  BY <1>3 DEF JobOK
<1>5. /\ job' = [job EXCEPT ![c] = Idle]
      /\ disturbed \subseteq disturbed' /\ disturbed' \subseteq UserIds
  BY <1>2, <1>3, <1>4 DEF StatementFails, EndInError
<1>6. UNCHANGED <<tables, now, sessionHistory>> /\ faults' \in 0 .. MaxFaults
  BY <1>1, <1>2, Faults DEF Failing, StatementFails
<1>7. SubscriptionTypes'
  <2>1. astray' \subseteq Txns /\ UNCHANGED <<issued, mail, answered, straddled>>
    BY <1>1, <1>2, UnrecordedTypes DEF Failing, appStore
  <2> QED
    BY <1>1, <2>1 DEF TypeOK, SubscriptionTypes
<1> QED
  BY <1>5, <1>6, <1>7, EndingKeeps

\* The process is killed: its requests are gone, its tables are not.
LEMMA RestartingKeeps ==
  ASSUME Inv, Restarting
  PROVE  Inv'
<1>1. TypeOK /\ JobInv /\ PremiumHasTransaction /\ ForkInv /\ DeletedInv
  BY DEF Inv
<1>2. /\ UNCHANGED <<users, tokens, lastUser, lastToken, now, disturbed, parent, shared, deleted,
                     issued, astray, answered, straddled>>
      /\ faults' \in 0 .. MaxFaults /\ mail' = mail \cup Redelivered
      /\ job' = [c \in Clients |-> Idle]
  BY <1>1, Faults DEF Restarting, Crash, tables, sessionHistory
<1>3. /\ Idle.user = Nil /\ Idle.token = Nil /\ Idle.pc = "idle"
      /\ JobOK(Idle, lastUser', lastToken')
  <2>1. JobOK(Idle, lastUser, lastToken)
    BY <1>1, Ids, Nils DEF JobOK, Idle, Job
  <2> QED
    BY <1>2, <2>1 DEF Idle
<1>4. \A d \in Clients : job'[d] = Idle
  BY <1>2
<1>5. JobInv'
  BY <1>3, <1>4 DEF JobInv
<1>6. TypeOK'
  <2>1. job' \in [Clients -> Job]
    BY <1>2, <1>3 DEF JobOK
  <2>2. StoreTypes'
    BY <1>1, <1>2, <2>1 DEF TypeOK, StoreTypes
  <2>3. Redelivered \subseteq Notice
    BY <1>1 DEF Redelivered, JobInv, JobOK
  <2>4. SubscriptionTypes'
    BY <1>1, <1>2, <2>3 DEF TypeOK, SubscriptionTypes
  <2> QED
    BY <1>1, <1>2, <2>2, <2>4 DEF TypeOK, SessionTypes
<1>7. PremiumHasTransaction'
  BY <1>1, <1>2 DEF PremiumHasTransaction
<1>8. ForkInv'
  <2>1. ForkOnlyByRace'
    BY <1>1, <1>2 DEF ForkInv, ForkOnlyByRace
  <2> QED
    BY <1>1, <1>2, <1>3, <1>4, <2>1 DEF ForkInv
<1>9. DeletedInv'
  <2>1. \A u \in deleted : u # Nil
    BY <1>1, Ids, Nils DEF DeletedInv
  <2>2. DeletedLeavesNothing'
    BY <1>1, <1>2 DEF DeletedInv, DeletedLeavesNothing, TokensOf
  <2> QED
    BY <1>1, <1>2, <1>3, <1>4, <2>1, <2>2 DEF DeletedInv
<1> QED
  BY <1>5, <1>6, <1>7, <1>8, <1>9 DEF Inv

\* The clock goes on.
LEMMA PassingKeeps ==
  ASSUME Inv, Passing
  PROVE  Inv'
<1>1. TypeOK /\ JobInv /\ PremiumHasTransaction /\ ForkInv /\ DeletedInv
  BY DEF Inv
<1>2. /\ UNCHANGED <<users, tokens, lastUser, lastToken, faults, job, disturbed, parent, shared,
                     deleted, issued, mail, astray, answered, straddled>>
      /\ now' \in Times
  BY DEF Passing, Tick, tables, sessionHistory, subscriptionVars
<1>3. TypeOK'
  <2>1. StoreTypes'
    BY <1>1, <1>2 DEF TypeOK, StoreTypes
  <2> QED
    BY <1>1, <1>2, <2>1 DEF TypeOK, SessionTypes, SubscriptionTypes
<1>4. JobInv' /\ PremiumHasTransaction' /\ ForkInv' /\ DeletedInv'
  BY <1>1, <1>2 DEF JobInv, PremiumHasTransaction, ForkInv, ForkOnlyByRace, DeletedInv,
     DeletedLeavesNothing, TokensOf
<1> QED
  BY <1>3, <1>4 DEF Inv

\* The App Store has something to say.
LEMMA PurchasingKeeps ==
  ASSUME Inv, Purchasing
  PROVE  Inv'
<1>1. issued \in [Txns -> Seq(TypesOfNotice)] /\ mail \subseteq Notice
  BY DEF Inv, TypeOK, SubscriptionTypes
<1>2. PICK x \in Txns, type \in NoticeTypes : Issue(x, type)
  BY DEF Purchasing
<1>3. type \in TypesOfNotice /\ Len(issued[x]) + 1 \in Nat \ {0}
  BY <1>1, AccountBounds
<1>4. issued' \in [Txns -> Seq(TypesOfNotice)]
  BY <1>1, <1>2, <1>3 DEF Issue
<1>5. mail' \subseteq Notice
  BY <1>1, <1>2, <1>3 DEF Issue, Notice
<1>6. SubscriptionTypes'
  BY <1>2, <1>4, <1>5 DEF Inv, TypeOK, SubscriptionTypes, Issue
<1> QED
  BY <1>6, StoreAloneKeeps DEF Purchasing

----------------------------------------------------------------------------
\* The empty tables satisfy the invariant.
LEMMA InitInv == Init => Inv
<1> SUFFICES ASSUME Init PROVE Inv
  OBVIOUS
<1>1. /\ users = << >> /\ tokens = << >> /\ DOMAIN users = {} /\ DOMAIN tokens = {}
      /\ lastUser = 0 /\ lastToken = 0 /\ now = 0 /\ faults = 0
      /\ job = [c \in Clients |-> Idle] /\ disturbed = {}
      /\ parent = [t \in TokenIds |-> Nil] /\ shared = {} /\ deleted = {}
  BY DEF Init, StoreInit, SessionInit
<1>2. /\ JobOK(Idle, lastUser, lastToken) /\ Idle \in Job
      /\ Idle.pc = "idle" /\ Idle.user = Nil /\ Idle.token = Nil
  BY <1>1, Nils DEF JobOK, Idle, Job
<1>3. TypeOK
  <2>1. StoreTypes
    BY <1>1, <1>2, AccountBounds DEF StoreTypes
  <2>2. SessionTypes
    BY <1>1 DEF SessionTypes
  <2>3. SubscriptionTypes
    BY DEF Init, SubscriptionInit, SubscriptionTypes
  <2> QED
    BY <2>1, <2>2, <2>3 DEF TypeOK
<1>4. JobInv /\ PremiumHasTransaction
  BY <1>1, <1>2 DEF JobInv, PremiumHasTransaction
<1>5. ForkInv
  BY <1>1, <1>2 DEF ForkInv, ForkOnlyByRace
<1>6. DeletedInv
  BY <1>1, <1>2 DEF DeletedInv, DeletedLeavesNothing
<1> QED
  BY <1>3, <1>4, <1>5, <1>6 DEF Inv

\* So does a step that changes nothing.
LEMMA StutterKeeps ==
  ASSUME Inv, UNCHANGED vars
  PROVE  Inv'
<1>1. UNCHANGED <<users, tokens, lastUser, lastToken, now, faults, job, disturbed, parent, shared,
                  deleted, issued, mail, astray, answered, straddled>>
  BY DEF vars, tables, sessionHistory, subscriptionVars
<1> QED
  BY <1>1 DEF Inv, TypeOK, StoreTypes, SessionTypes, SubscriptionTypes, JobInv,
     PremiumHasTransaction, ForkInv, ForkOnlyByRace, DeletedInv, DeletedLeavesNothing, TokensOf

\* Every step preserves the invariant.
LEMMA NextKeeps == Inv /\ [Next]_vars => Inv'
<1> SUFFICES ASSUME Inv, [Next]_vars PROVE Inv'
  OBVIOUS
<1>1. ASSUME NEW c \in Clients, SessionStep(c), UNCHANGED subscriptionVars
      PROVE  Inv'
  BY <1>1, LoginKeeps, CreateUserKeeps, IssueTokenKeeps, RefreshTokenKeeps, DeleteAccountKeeps,
     DropUserKeeps, SessionMovesKeep DEF SessionStep
<1>2. ASSUME NEW c \in Clients, SubscriptionStep(c), UNCHANGED sessionHistory
      PROVE  Inv'
  BY <1>2, VerifyKeeps, NotificationKeeps, IgnoringKeeps, CheckLimitKeeps, SubscriptionMovesKeep
     DEF SubscriptionStep, PurchaseStep, VoiceStep
<1>3. CASE Signing
  BY <1>1, <1>3 DEF Signing
<1>4. CASE Subscribing
  BY <1>2, <1>4 DEF Subscribing
<1> QED
  BY <1>3, <1>4, PurchasingKeeps, FailingKeeps, RestartingKeeps, PassingKeeps, StutterKeeps
  DEF Next

(* Whatever the endpoints do at once, every request in flight carries a    *)
(* row it may save, every exchanged token is gone, and every account two   *)
(* requests work on is recorded (AppleLogin to HandleNotification).        *)
THEOREM Invariance == Spec => []Inv
  BY InitInv, NextKeeps, PTL DEF Spec

(* The tables and requests hold only values of their types.                *)
THEOREM AccountTypes == Spec => []TypeOK
<1>1. Inv => TypeOK
  BY DEF Inv
<1> QED
  BY <1>1, Invariance, PTL

(* authService.RefreshToken: without two requests presenting one refresh   *)
(* token at once, it is exchanged for one pair at most, whichever          *)
(* statements fail and whenever the process is killed.                     *)
THEOREM RotationForksOnlyByRace == Spec => []ForkOnlyByRace
<1>1. Inv => ForkOnlyByRace
  BY DEF Inv, ForkInv
<1> QED
  BY <1>1, Invariance, PTL

(* authService.RefreshToken: a refresh token for which another was issued  *)
(* is found no more, whatever fails after the exchange and however often   *)
(* the process restarts; only a request that had found it may go on.       *)
THEOREM ExchangedTokensAreRevoked == Spec => []ExchangedIsRevoked
<1>1. Inv => ExchangedIsRevoked
  BY DEF Inv, ForkInv, ExchangedIsRevoked, FindByToken
<1> QED
  BY <1>1, Invariance, PTL

(* authService.DeleteAccount: answered with success, and not interfered    *)
(* with, it has left no row and no session.                                *)
THEOREM DeletionLeavesNothing == Spec => []DeletedLeavesNothing
<1>1. Inv => DeletedLeavesNothing
  BY DEF Inv, DeletedInv
<1> QED
  BY <1>1, Invariance, PTL

(* subscriptionService: a premium account carries the transaction its      *)
(* webhooks are matched by, whichever copy of the row is saved last.       *)
THEOREM PremiumIsMatched == Spec => []PremiumHasTransaction
<1>1. Inv => PremiumHasTransaction
  BY DEF Inv
<1> QED
  BY <1>1, Invariance, PTL
=============================================================================
