------------------------------ MODULE Sessions -------------------------------
(***************************************************************************)
(* authService: sign-in, refresh token rotation, logout and account        *)
(* deletion.                                                               *)
(*                                                                         *)
(*   login    create or save -> issue                                      *)
(*   refresh  rotate -> issue                                              *)
(*   delete   dropTokens -> dropUser                                       *)
(*                                                                         *)
(* An access token is a signed JWT that no table holds, so a request may   *)
(* come in the name of an account that is gone.                            *)
(***************************************************************************)
EXTENDS AccountStore

VARIABLES
  parent,     \* history: token -> the token it was exchanged for
  shared,     \* history: tokens presented by two requests at once
  deleted     \* history: accounts whose deletion was answered with success

sessionHistory == <<parent, shared, deleted>>

RefreshTTL == 720

SessionTypes ==
  /\ parent \in [TokenIds -> TokenIds \cup {Nil}]
  /\ shared \subseteq TokenIds
  /\ deleted \subseteq UserIds

SessionInit ==
  /\ parent = [t \in TokenIds |-> Nil]
  /\ shared = {}
  /\ deleted = {}

\* Faulty variant: the subscription status is not given its default.
BlankRow(s) == [sub |-> s, status |-> "", txn |-> Nil, count |-> 0, parsedAt |-> Nil]

NewRow(s) == [sub |-> s, status |-> "free", txn |-> Nil, count |-> 0, parsedAt |-> Nil]

\* Faulty variant: a returning user is saved from the profile alone.
LoginRowReset(u) == NewRow(users[u].sub)

\* AppleLogin and KakaoLogin change the profile and the last login time of
\* the row they found, and none of the columns modelled.
LoginRow(u) == users[u]

----------------------------------------------------------------------------
\* AppleLogin, KakaoLogin: the identity provider has answered s.
Login(c, s) ==
  /\ Ready(c, "login")
  /\ \/ \E u \in AccountsOf(s) :
          Start(c, [Idle EXCEPT !.pc = "save", !.op = "login", !.user = u,
                                !.row = LoginRow(u)])
     \/ /\ AccountsOf(s) = {}
        /\ Start(c, [Idle EXCEPT !.pc = "create", !.op = "login", !.row = NewRow(s)])
  /\ UNCHANGED <<tables, now, faults, sessionHistory>>

\* Of two first sign-ins at once, the unique index turns the second down.
CreateUser(c) ==
  LET u == lastUser + 1 IN
  /\ At(c, "create")
  /\ \/ /\ ~SaveRefused(u, job[c].row)
        /\ u <= MaxUsers /\ lastUser' = u
        /\ PutUser(u, job[c].row)
        /\ Start(c, [job[c] EXCEPT !.pc = "issue", !.user = u, !.row = Nil])
     \/ /\ SaveRefused(u, job[c].row)
        /\ End(c)
        /\ UNCHANGED <<users, lastUser>>
  /\ UNCHANGED <<tokens, lastToken, now, faults, sessionHistory>>

SaveLogin(c) ==
  /\ At(c, "save") /\ job[c].op = "login"
  /\ \/ /\ ~SaveRefused(job[c].user, job[c].row)
        /\ PutUser(job[c].user, job[c].row)
        /\ job' = [job EXCEPT ![c].pc = "issue", ![c].row = Nil]
        /\ UNCHANGED disturbed
     \/ /\ SaveRefused(job[c].user, job[c].row)
        /\ End(c)
        /\ UNCHANGED users
  /\ UNCHANGED <<tokens, lastUser, lastToken, now, faults, sessionHistory>>

\* The pair is generated, its refresh token stored, and the pair answered.
IssueToken(c) ==
  LET u == job[c].user
      t == lastToken + 1
  IN
  /\ At(c, "issue")
  /\ End(c)
  /\ \/ /\ EnforceFK => u \in DOMAIN users
        /\ t <= MaxTokens /\ lastToken' = t
        /\ CreateToken(t, [user |-> u, expires |-> now + RefreshTTL])
        /\ parent' = [parent EXCEPT ![t] = job[c].token]
     \/ /\ EnforceFK /\ u \notin DOMAIN users
        /\ UNCHANGED <<tokens, lastToken, parent>>
  /\ UNCHANGED <<users, lastUser, now, faults, shared, deleted>>

\* authService.RefreshToken.  The row is read once, here.
RefreshToken(c, t) ==
  /\ Ready(c, "refresh")
  /\ FindByToken(t)
  /\ Start(c, [Idle EXCEPT !.pc = "rotate", !.op = "refresh",
                           !.user = tokens[t].user, !.token = t])
  /\ shared' = IF \E d \in Clients : job[d].token = t THEN shared \cup {t} ELSE shared
  /\ UNCHANGED <<tables, now, faults, parent, deleted>>

\* The delete succeeds whether or not the token is still there.
Rotate(c) ==
  /\ At(c, "rotate")
  /\ DeleteTokens({job[c].token})
  /\ Goto(c, "issue")
  /\ UNCHANGED <<users, lastUser, lastToken, now, faults, sessionHistory>>

\* Logout, once the device token it names is gone; when that fails it stops
\* there, and nothing changes.
Logout(c, u) ==
  /\ Ready(c, "logout")
  /\ TokensOf(u) # {}
  /\ DeleteTokens(TokensOf(u))
  /\ UNCHANGED <<users, lastUser, lastToken, now, faults, job, disturbed, sessionHistory>>

DeleteAccount(c, u) ==
  /\ Ready(c, "delete")
  /\ u \in DOMAIN users
  /\ Start(c, [Idle EXCEPT !.pc = "dropTokens", !.op = "delete", !.user = u])
  /\ UNCHANGED <<tables, now, faults, sessionHistory>>

\* Apple takes part in the deletion of an account that signed in with it, and
\* may decline to revoke its grant.
AppleRefuses(c) ==
  /\ At(c, "dropTokens")
  /\ End(c)
  /\ UNCHANGED <<tables, now, faults, sessionHistory>>

DropTokens(c) ==
  /\ At(c, "dropTokens")
  /\ DeleteTokens(TokensOf(job[c].user))
  /\ Goto(c, "dropUser")
  /\ UNCHANGED <<users, lastUser, lastToken, now, faults, sessionHistory>>

DropUser(c) ==
  LET u == job[c].user
      held == EnforceFK /\ TokensOf(u) # {}
  IN
  /\ At(c, "dropUser")
  /\ End(c)
  /\ \/ /\ u \in DOMAIN users /\ ~held
        /\ DeleteUser(u)
        /\ deleted' = deleted \cup {u}
     \/ /\ u \notin DOMAIN users \/ held
        /\ UNCHANGED <<users, deleted>>
  /\ UNCHANGED <<tokens, lastUser, lastToken, now, faults, parent, shared>>

SessionStep(c) ==
  \/ \E s \in Subs : Login(c, s)
  \/ CreateUser(c)
  \/ SaveLogin(c)
  \/ IssueToken(c)
  \/ \E t \in DOMAIN tokens : RefreshToken(c, t)
  \/ Rotate(c)
  \/ \E u \in UserIds : Logout(c, u) \/ DeleteAccount(c, u)
  \/ AppleRefuses(c)
  \/ DropTokens(c)
  \/ DropUser(c)
=============================================================================
