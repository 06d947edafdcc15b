-------------------------- MODULE SubscriptionProofs --------------------------
(***************************************************************************)
(* More theorems about Accounts: whether the status follows the App Store, *)
(* whether the quota is exact, and whether transactions are kept.  They    *)
(* rest on what the copy a request carries has to do with the row, for an  *)
(* account the request has to itself.                                      *)
(***************************************************************************)
EXTENDS AccountProofs

Writes(j) == j.pc \in {"save", "verify", "parse"}

\* What row counts at time t.
CountAt(row, t) ==
  IF row.parsedAt # Nil /\ ParseDay(row.parsedAt) = ParseDay(t) THEN row.count ELSE 0

(***************************************************************************)
(* What request j, which has an account to itself, knows of its row at     *)
(* time t.                                                                 *)
(***************************************************************************)
CopyOf(j, row, t) ==
  /\ j.pc = "verify" \/ (j.pc = "save" /\ j.op = "login") => j.row = row
  /\ j.pc = "save" /\ j.op = "verify" =>
       j.row.txn # Nil /\ j.row = Activated(row, j.row.txn)
  /\ j.pc = "save" /\ j.op = "webhook" =>
       row.txn = j.notice.txn /\ j.row = [row EXCEPT !.status = StatusAfter[j.notice.type]]
  /\ j.pc = "parse" => IsPremium(row) \/ CountAt(row, t) < FreeParses
  /\ j.pc = "save" /\ j.op = "voice" =>
       /\ j.row.parsedAt <= t
       /\ \E s \in Times :
            /\ row.parsedAt # Nil => row.parsedAt <= s
            /\ s <= j.row.parsedAt /\ CountAt(row, s) < FreeParses
            /\ j.row = [row EXCEPT !.count = CountAt(row, s) + 1, !.parsedAt = j.row.parsedAt]

OpOf(j) ==
  /\ j.pc = "save" => j.op \in {"login", "verify", "webhook", "voice"}
  /\ j.pc = "verify" => j.op = "verify"
  /\ j.pc = "parse" => j.op = "voice"

CopyInv ==
  /\ \A c \in Clients : Writes(job[c]) /\ job[c].user \notin disturbed =>
       job[c].user \in DOMAIN users /\ CopyOf(job[c], users[job[c].user], now)
  /\ \A c \in Clients : job[c].pc = "create" => job[c].row.txn = Nil /\ job[c].row.parsedAt = Nil
  /\ \A c \in Clients : OpOf(job[c])

(***************************************************************************)
(* The count of a row is no less than the parses answered on its day, and  *)
(* is their number where no count met the end of a day.                    *)
(***************************************************************************)
CountOf(row, a, t) ==
  /\ row.parsedAt = Nil => a.n = 0
  /\ row.parsedAt # Nil =>
       /\ row.parsedAt <= t /\ a.day = ParseDay(row.parsedAt)
       /\ a.n <= row.count /\ row.count <= FreeParses

QuotaInv ==
  /\ \A u \in UserIds : u > lastUser => answered[u].n = 0
  /\ \A u \in DOMAIN users \ disturbed : CountOf(users[u], answered[u], now)

CountsVoice(j) == j.pc = "save" /\ j.op = "voice"

ExactInv ==
  /\ \A c \in Clients : CountsVoice(job[c]) /\ job[c].user \notin disturbed \cup straddled =>
       job[c].row.count = CountAt(users[job[c].user], job[c].row.parsedAt) + 1
  /\ \A u \in DOMAIN users \ (disturbed \cup straddled) :
       users[u].parsedAt # Nil => answered[u].n = users[u].count

(***************************************************************************)
(* The notifications in the mail or in a request's hands are what the      *)
(* store said.  A webhook carries a row with its transaction.              *)
(***************************************************************************)
Genuine(m) == m.n <= Len(issued[m.txn]) /\ m.type = issued[m.txn][m.n]

MailInv ==
  /\ \A m \in mail \cup Redelivered : Genuine(m)
  /\ \A c \in Clients : job[c].op = "webhook" =>
       job[c].pc = "save" /\ job[c].row.txn = job[c].notice.txn

(***************************************************************************)
(* The status of a row follows the store's last word, unless that is on    *)
(* its way; so does a status about to be saved.                            *)
(***************************************************************************)
Latest(x) == Nth(x, Len(issued[x]))

WordInv ==
  \A c \in Clients, x \in Txns \ astray : job[c].pc = "save" =>
    /\ job[c].op = "verify" /\ job[c].row.txn = x => Active(x) \/ Latest(x) \in mail
    /\ job[c].op = "webhook" /\ job[c].notice.txn = x /\ job[c].user \notin disturbed =>
         job[c].notice = Latest(x) \/ Latest(x) \in mail

StatusInv ==
  \A u \in DOMAIN users \ disturbed, x \in Txns \ astray :
    users[u].txn = x /\ Latest(x) \notin mail \cup Redelivered => (IsPremium(users[u]) <=> Active(x))

(***************************************************************************)
(* What the unique index on the transaction gives.                         *)
(***************************************************************************)
OneOwner ==
  \A u, v \in DOMAIN users : u # v /\ users[u].txn = users[v].txn => users[u].txn = Nil

More == OneOwner /\ CopyInv /\ QuotaInv /\ ExactInv /\ MailInv /\ WordInv /\ StatusInv

----------------------------------------------------------------------------
(* Helpers *)

\* Rows and the requests that carry them have their types.
LEMMA Rows ==
  ASSUME Inv
  PROVE  /\ \A u \in DOMAIN users : users[u] \in UserRow /\ u \in UserIds /\ u # Nil
         /\ \A c \in Clients : /\ job[c] \in Job
                               /\ job[c].pc \in {"save", "verify"} => job[c].row \in UserRow
                               /\ Writes(job[c]) => job[c].user \in UserIds /\ job[c].user # Nil
         /\ now \in Times /\ now \in Nat /\ Times \subseteq Nat /\ Nil \notin Times
         /\ FreeParses \in Nat /\ lastUser \in Nat
         /\ issued \in [Txns -> Seq(TypesOfNotice)] /\ mail \subseteq Notice
         /\ answered \in [UserIds -> [day : Nat, n : Nat]]
         /\ job \in [Clients -> Job]
<1>1. TypeOK /\ JobInv
  BY DEF Inv
<1>2. ASSUME NEW c \in Clients
      PROVE  /\ job[c] \in Job
             /\ job[c].pc \in {"save", "verify"} => job[c].row \in UserRow
             /\ Writes(job[c]) => job[c].user \in UserIds /\ job[c].user # Nil
  BY <1>1, JobEnd DEF JobOK, Writes
<1>3. \A u \in DOMAIN users : users[u] \in UserRow /\ u \in UserIds /\ u # Nil
  BY <1>1, Ids, Nils DEF TypeOK, StoreTypes
<1>4. FreeParses \in Nat
  BY AccountBounds DEF FreeParses
<1> QED
  BY <1>1, <1>2, <1>3, <1>4, Ids, Nils, AccountBounds DEF TypeOK, StoreTypes, SubscriptionTypes

\* A free parse is allowed where one is left.
LEMMA AllowedIsFree ==
  ASSUME NEW n \in Nat, ~(n >= VoiceParseLimit)
  PROVE  n < FreeParses
  BY AccountBounds DEF FreeParses

\* A request that has an account to itself is the only one at work on it.
LEMMA Alone ==
  ASSUME Inv, NEW c \in Clients, NEW d \in Clients, c # d, job[c].user = job[d].user,
         job[c].user # Nil
  PROVE  job[c].user \in disturbed
  BY DEF Inv, DeletedInv

\* The webhooks in flight carry notifications.
LEMMA InFlight ==
  ASSUME Inv
  PROVE  /\ Redelivered \subseteq Notice
         /\ \A c \in Clients : job[c].op = "webhook" => job[c].notice \in Redelivered
  BY DEF Inv, JobInv, JobOK, Redelivered

\* Days follow one another.
LEMMA DaysPass ==
  ASSUME NEW s \in Nat, NEW t \in Nat, s <= t
  PROVE  ParseDay(s) \in Nat /\ ParseDay(s) <= ParseDay(t)
  BY DEF ParseDay, HoursPerDay

\* A count is a number, and no greater later on.
LEMMA CountsFall ==
  ASSUME NEW row \in UserRow, NEW s \in Nat, NEW t \in Nat, s <= t,
         row.parsedAt # Nil => row.parsedAt <= s, Times \subseteq Nat
  PROVE  CountAt(row, s) \in Nat /\ CountAt(row, t) \in Nat /\ CountAt(row, t) <= CountAt(row, s)
<1>1. row.count \in Nat /\ (row.parsedAt # Nil => row.parsedAt \in Nat)
  BY DEF UserRow
<1>2. CASE row.parsedAt = Nil
  BY <1>2 DEF CountAt
<1>3. CASE row.parsedAt # Nil
  <2>1. /\ ParseDay(row.parsedAt) <= ParseDay(s) /\ ParseDay(s) <= ParseDay(t)
        /\ ParseDay(row.parsedAt) \in Nat /\ ParseDay(s) \in Nat /\ ParseDay(t) \in Nat
    BY <1>1, <1>3, DaysPass
  <2> QED
    BY <1>1, <1>3, <2>1 DEF CountAt
<1> QED
  BY <1>2, <1>3

\* Time leaves what is known of a row as it is: its count can only fall.
LEMMA ClockKeeps ==
  ASSUME Inv, NEW u \in DOMAIN users, CountOf(users[u], answered[u], now), NEW t \in Nat,
         now <= t
  PROVE  /\ CountOf(users[u], answered[u], t)
         /\ \A c \in Clients : CopyOf(job[c], users[u], now) => CopyOf(job[c], users[u], t)
<1> DEFINE row == users[u]
<1>1. row \in UserRow /\ now \in Nat /\ FreeParses \in Nat /\ Times \subseteq Nat
  BY Rows
<1>2. row.parsedAt # Nil => row.parsedAt \in Nat /\ row.parsedAt <= now
  BY <1>1 DEF UserRow, CountOf
<1>3. CountAt(row, now) \in Nat /\ CountAt(row, t) \in Nat /\ CountAt(row, t) <= CountAt(row, now)
  BY <1>1, <1>2, CountsFall
<1>4. ASSUME NEW c \in Clients, job[c].pc = "save", job[c].op = "voice"
      PROVE  job[c].row.parsedAt \in Nat
  BY <1>1, <1>4, Rows DEF Inv, JobInv, JobOK, UserRow
<1>5. CountOf(row, answered[u], t)
  BY <1>1, <1>2 DEF CountOf
<1>6. ASSUME NEW c \in Clients, CopyOf(job[c], row, now)
      PROVE  CopyOf(job[c], row, t)
  <2> HIDE DEF row
  <2>1. job[c].pc = "parse" => IsPremium(row) \/ CountAt(row, t) < FreeParses
    BY <1>1, <1>3, <1>6 DEF CopyOf
  <2>2. job[c].pc = "save" /\ job[c].op = "voice" => job[c].row.parsedAt <= t
    <3>1. job[c].pc = "save" /\ job[c].op = "voice" => job[c].row.parsedAt <= now
      BY <1>6 DEF CopyOf
    <3> QED
      BY <1>1, <1>4, <3>1
  <2> QED
    BY <1>6, <2>1, <2>2 DEF CopyOf
<1> QED
  BY <1>5, <1>6

----------------------------------------------------------------------------
(* Kinds of steps *)

\* Request c becomes j, and no row is written.
CarryStep(c, j) ==
  /\ job' = [job EXCEPT ![c] = j]
  /\ UNCHANGED <<users, lastUser, issued, mail, answered>>
  /\ now' \in Nat /\ now <= now'
  /\ disturbed \subseteq disturbed' /\ astray \subseteq astray' /\ straddled \subseteq straddled'
  /\ job[c].op = "webhook" => job[c].notice.txn \in astray'
  /\ j.op # "webhook"
  /\ Writes(j) /\ j.user \notin disturbed' =>
       j.user \in DOMAIN users /\ CopyOf(j, users[j.user], now')
  /\ CountsVoice(j) /\ j.user \notin disturbed' \cup straddled' =>
       j.row.count = CountAt(users[j.user], j.row.parsedAt) + 1
  /\ j.pc = "create" => j.row.txn = Nil /\ j.row.parsedAt = Nil
  /\ OpOf(j)
  /\ j.pc = "save" /\ j.op = "verify" /\ j.row.txn \in Txns \ astray' =>
       Active(j.row.txn) \/ Latest(j.row.txn) \in mail

\* The store's words on x, when it says nothing new.
LEMMA SameWords ==
  ASSUME UNCHANGED issued
  PROVE  \A x : Latest(x)' = Latest(x) /\ Active(x)' = Active(x)
  BY DEF Latest, Nth, Active, Bought, Last

\* Such a step preserves the invariant.
LEMMA CarryKeeps ==
  ASSUME Inv, More, NEW c \in Clients, NEW j, CarryStep(c, j)
  PROVE  More'
<1>1. OneOwner /\ CopyInv /\ QuotaInv /\ ExactInv /\ MailInv /\ WordInv /\ StatusInv
  BY DEF More
<1>2. job'[c] = j /\ \A d \in Clients \ {c} : job'[d] = job[d]
  BY Rows DEF CarryStep
<1>3. Redelivered' \subseteq Redelivered
  BY <1>2 DEF CarryStep, Redelivered
<1>4. OneOwner'
  BY <1>1 DEF CarryStep, OneOwner
<1>5. CopyInv'
  <2>1. ASSUME NEW d \in Clients \ {c}, Writes(job[d]), job[d].user \notin disturbed
        PROVE  job[d].user \in DOMAIN users /\ CopyOf(job[d], users[job[d].user], now')
    BY <1>1, <2>1, ClockKeeps DEF CarryStep, CopyInv, QuotaInv
  <2> QED
    BY <1>1, <1>2, <2>1 DEF CarryStep, CopyInv
<1>6. QuotaInv'
  BY <1>1, ClockKeeps DEF CarryStep, QuotaInv
<1>10. ExactInv'
  BY <1>1, <1>2 DEF CarryStep, ExactInv
<1>7. MailInv'
  <2>1. \A m : Genuine(m)' = Genuine(m)
    BY DEF CarryStep, Genuine
  <2> QED
    BY <1>1, <1>2, <1>3, <2>1 DEF CarryStep, MailInv
<1>8. WordInv'
  <2>1. \A x : Latest(x)' = Latest(x) /\ Active(x)' = Active(x)
    BY SameWords DEF CarryStep
  <2> SUFFICES ASSUME NEW d \in Clients, NEW x \in Txns \ astray', job'[d].pc = "save"
               PROVE  /\ job'[d].op = "verify" /\ job'[d].row.txn = x =>
                           Active(x) \/ Latest(x) \in mail
                      /\ job'[d].op = "webhook" /\ job'[d].notice.txn = x
                           /\ job'[d].user \notin disturbed' =>
                           job'[d].notice = Latest(x) \/ Latest(x) \in mail
    BY <2>1 DEF CarryStep, WordInv
  <2>2. CASE d = c
    BY <1>2, <2>2 DEF CarryStep
  <2>3. CASE d # c
    BY <1>1, <1>2, <2>3 DEF CarryStep, WordInv
  <2> QED
    BY <2>2, <2>3
<1>9. StatusInv'
  <2>1. \A x : Latest(x)' = Latest(x) /\ Active(x)' = Active(x)
    BY SameWords DEF CarryStep
  <2> SUFFICES ASSUME NEW u \in DOMAIN users' \ disturbed', NEW x \in Txns \ astray',
                      users'[u].txn = x, Latest(x) \notin mail' \cup Redelivered'
               PROVE  IsPremium(users'[u]) <=> Active(x)
    BY <2>1 DEF StatusInv
  <2>2. u \in DOMAIN users \ disturbed /\ users'[u] = users[u] /\ x \in Txns \ astray
        /\ Latest(x) \notin mail
    BY DEF CarryStep
  <2>3. Latest(x) \notin Redelivered
    <3>1. SUFFICES ASSUME Latest(x) \in Redelivered
                   PROVE  FALSE
      OBVIOUS
    <3>2. PICK d \in Clients : job[d].op = "webhook" /\ Latest(x) = job[d].notice
      BY <3>1 DEF Redelivered
    <3>3. d = c
      BY <1>2, <3>2 DEF Redelivered
    <3>4. Latest(x).txn = x
      BY DEF Latest, Nth
    <3> QED
      BY <3>2, <3>3, <3>4 DEF CarryStep
  <2> QED
    BY <1>1, <2>2, <2>3 DEF StatusInv
<1> QED
  BY <1>4, <1>5, <1>6, <1>7, <1>8, <1>9, <1>10 DEF More

\* Nothing More speaks of changes but the tokens.
LEMMA StillKeeps ==
  ASSUME More,
         UNCHANGED <<users, lastUser, now, job, disturbed, issued, mail, astray, answered, straddled>>
  PROVE  More'
<1>1. \A x : Latest(x)' = Latest(x) /\ Active(x)' = Active(x)
  BY SameWords
<1>2. \A m : Genuine(m)' = Genuine(m)
  BY DEF Genuine
<1>3. Redelivered' = Redelivered
  BY DEF Redelivered
<1> QED
  BY <1>1, <1>2, <1>3 DEF More, OneOwner, CopyInv, QuotaInv, ExactInv, MailInv, WordInv, StatusInv

\* Request c saves its row and goes on as j.
SaveStep(c, j) ==
  /\ job[c].pc = "save" /\ ~SaveRefused(job[c].user, job[c].row)
  /\ PutUser(job[c].user, job[c].row)
  /\ job' = [job EXCEPT ![c] = j]
  /\ ~Writes(j) /\ j.pc # "create" /\ j.op # "webhook"
  /\ Record(job[c].op, job[c].user, job[c].row)
  /\ UNCHANGED <<lastUser, now, issued, mail, astray, disturbed, straddled>>

\* Such a step preserves the invariant: the copy was true to the row, or
\* somebody disturbed the account.
LEMMA SaveKeeps ==
  ASSUME Inv, More, NEW c \in Clients, NEW j, SaveStep(c, j)
  PROVE  More'
<1> DEFINE u == job[c].user
           row == job[c].row
<1>1. OneOwner /\ CopyInv /\ QuotaInv /\ ExactInv /\ MailInv /\ WordInv /\ StatusInv
  BY DEF More
<1>2. job'[c] = j /\ \A d \in Clients \ {c} : job'[d] = job[d]
  BY Rows DEF SaveStep
<1>3. u \in UserIds /\ u # Nil /\ row \in UserRow
  BY Rows DEF SaveStep, Writes
<1>4. /\ DOMAIN users' = DOMAIN users \cup {u}
      /\ \A v \in DOMAIN users' : users'[v] = IF v = u THEN row ELSE users[v]
  BY DEF SaveStep, PutUser
<1>5. \A v \in DOMAIN users' \ {u} : row.txn # Nil => users[v].txn # row.txn
  BY <1>4 DEF SaveStep, SaveRefused
<1>6. Redelivered' \subseteq Redelivered
  BY <1>2 DEF SaveStep, Redelivered
<1>7. \A d \in Clients : d # c /\ job[d].user = u => u \in disturbed
  BY <1>3, Alone
<1>8. u \notin disturbed => u \in DOMAIN users /\ CopyOf(job[c], users[u], now)
  BY <1>1 DEF SaveStep, CopyInv, Writes
<1>9. job[c].op \in {"login", "verify", "webhook", "voice"} /\ job[c].pc = "save"
  BY <1>1 DEF SaveStep, CopyInv, OpOf
<1> HIDE DEF u, row
<1>10. OneOwner'
  BY <1>1, <1>4, <1>5 DEF OneOwner
<1>11. CopyInv'
  <2>1. ASSUME NEW d \in Clients, Writes(job'[d]), job'[d].user \notin disturbed'
        PROVE  job'[d].user \in DOMAIN users' /\ CopyOf(job'[d], users'[job'[d].user], now')
    <3>1. d # c /\ job'[d] = job[d] /\ job[d].user # u
      BY <1>2, <1>7, <2>1 DEF SaveStep
    <3> QED
      BY <1>1, <1>4, <2>1, <3>1 DEF SaveStep, CopyInv
  <2> QED
    BY <1>1, <1>2, <2>1 DEF SaveStep, CopyInv, Writes, OpOf
<1>18. ASSUME u \notin disturbed, job[c].op = "voice"
       PROVE  /\ u \in DOMAIN users /\ CountOf(row, answered'[u], now)
              /\ u \notin straddled => answered'[u].n = row.count
              /\ \A v \in UserIds : v # u => answered'[v] = answered[v]
  <2> DEFINE old == users[u]
             t == row.parsedAt
             a == answered[u]
             before == IF a.day = ParseDay(t) THEN a.n ELSE 0
  <2>1. /\ u \in DOMAIN users /\ old \in UserRow /\ t <= now
        /\ a \in [day : Nat, n : Nat] /\ CountOf(old, a, now)
    BY <1>1, <1>3, <1>8, <1>9, <1>18, Rows DEF CopyOf, QuotaInv, row
  <2>2. PICK s \in Times :
          /\ old.parsedAt # Nil => old.parsedAt <= s
          /\ s <= t /\ CountAt(old, s) < FreeParses
          /\ row = [old EXCEPT !.count = CountAt(old, s) + 1, !.parsedAt = t]
    BY <1>8, <1>9, <1>18 DEF CopyOf, row
  <2>3. t \in Nat /\ t # Nil /\ s \in Nat /\ FreeParses \in Nat
    BY <1>3, <1>9, <1>18, Rows DEF Inv, JobInv, JobOK, UserRow, row
  <2>4. row.count = CountAt(old, s) + 1
    BY <2>1, <2>2 DEF UserRow
  <2>5. /\ answered' = [answered EXCEPT ![u] = [day |-> ParseDay(t), n |-> before + 1]]
        /\ answered'[u] = [day |-> ParseDay(t), n |-> before + 1]
        /\ \A v \in UserIds : v # u => answered'[v] = answered[v]
    <3>1. answered' = [answered EXCEPT ![u] = [day |-> ParseDay(t), n |-> before + 1]]
      BY <1>18 DEF SaveStep, Record, u, row
    <3> HIDE DEF before, t
    <3> QED
      BY <1>3, <3>1, Rows
  <2>6. old.parsedAt # Nil =>
          /\ ParseDay(old.parsedAt) \in Nat /\ ParseDay(s) \in Nat /\ ParseDay(t) \in Nat
          /\ ParseDay(old.parsedAt) <= ParseDay(s) /\ ParseDay(s) <= ParseDay(t)
    <3>1. old.parsedAt # Nil => old.parsedAt \in Nat
      BY <2>1, Rows DEF UserRow
    <3> HIDE DEF old, t
    <3> QED
      BY <2>2, <2>3, <3>1, DaysPass
  <2>7. before \in Nat /\ CountAt(old, s) \in Nat /\ before <= CountAt(old, s)
    BY <2>1, <2>6 DEF CountAt, CountOf, UserRow
  <2>8. ASSUME u \notin straddled
        PROVE  row.count = before + 1
    <3>1. row.count = CountAt(old, t) + 1 /\ (old.parsedAt # Nil => a.n = old.count)
      BY <1>1, <1>9, <1>18, <2>1, <2>8 DEF ExactInv, CountsVoice, u, row
    <3>2. CountAt(old, t) = before
      BY <2>1, <3>1 DEF CountAt, CountOf
    <3> QED
      BY <3>1, <3>2
  <2>9. CountOf(row, answered'[u], now)
    <3> DEFINE n == CountAt(old, s)
    <3> HIDE DEF before, n, t
    <3>1. row.parsedAt = t
      BY DEF t
    <3>2. row.count = n + 1 /\ n < FreeParses /\ before <= n /\ n \in Nat /\ before \in Nat
      BY <2>2, <2>4, <2>7 DEF n
    <3> QED
      BY <2>1, <2>3, <2>5, <3>1, <3>2 DEF CountOf
  <2>10. u \notin straddled => answered'[u].n = row.count
    <3> HIDE DEF before, t
    <3> QED
      BY <2>5, <2>8
  <2> QED
    BY <2>1, <2>5, <2>9, <2>10
<1>12. QuotaInv'
  <2>1. CASE u \in disturbed
    <3>1. answered' = answered
      BY <2>1 DEF SaveStep, Record, u
    <3> QED
      BY <1>1, <1>4, <2>1, <3>1 DEF SaveStep, QuotaInv
  <2>2. CASE u \notin disturbed /\ job[c].op # "voice"
    <3>1. answered' = answered
      BY <2>2 DEF SaveStep, Record
    <3>2. row.count = users[u].count /\ row.parsedAt = users[u].parsedAt /\ u \in DOMAIN users
      BY <1>8, <1>9, <2>2, Rows DEF CopyOf, Activated, UserRow, row
    <3>3. CountOf(row, answered[u], now)
      BY <1>1, <2>2, <3>2 DEF QuotaInv, CountOf
    <3> QED
      BY <1>1, <1>4, <3>1, <3>3 DEF SaveStep, QuotaInv
  <2>3. CASE u \notin disturbed /\ job[c].op = "voice"
    <3>1. CountOf(row, answered'[u], now) /\ u \in DOMAIN users
      BY <1>18, <2>3
    <3>2. \A v \in UserIds : v # u => answered'[v] = answered[v]
      BY <1>18, <2>3
    <3>3. u \in 1 .. lastUser /\ lastUser \in Nat
      BY <3>1, Rows DEF Inv, TypeOK, StoreTypes
    <3>4. \A v \in UserIds : v > lastUser => answered'[v].n = 0
      BY <1>1, <3>2, <3>3 DEF QuotaInv
    <3>5. ASSUME NEW v \in DOMAIN users' \ disturbed
          PROVE  CountOf(users'[v], answered'[v], now)
      <4>1. CASE v = u
        BY <1>4, <3>1, <4>1
      <4>2. CASE v # u
        <5>1. v \in DOMAIN users \ disturbed /\ users'[v] = users[v] /\ v \in UserIds
          BY <1>4, <4>2, Rows
        <5> QED
          BY <1>1, <3>2, <4>2, <5>1 DEF QuotaInv
      <4> QED
        BY <4>1, <4>2
    <3> QED
      BY <3>4, <3>5 DEF SaveStep, QuotaInv
  <2> QED
    BY <2>1, <2>2, <2>3
<1>19. ExactInv'
  <2>1. ASSUME NEW d \in Clients, CountsVoice(job'[d]), job'[d].user \notin disturbed \cup straddled
        PROVE  /\ job'[d] = job[d] /\ job[d].user # u
               /\ job[d].user \in DOMAIN users
    <3>1. d # c /\ job'[d] = job[d] /\ job[d].user # u
      BY <1>2, <1>7, <2>1 DEF SaveStep, CountsVoice, Writes
    <3> QED
      BY <1>1, <2>1, <3>1 DEF CopyInv, CountsVoice, Writes
  <2>2. ASSUME u \notin disturbed \cup straddled, row.parsedAt # Nil
        PROVE  answered'[u].n = row.count
    <3>1. CASE job[c].op = "voice"
      BY <1>18, <2>2, <3>1
    <3>2. CASE job[c].op # "voice"
      <4>1. answered' = answered
        BY <3>2 DEF SaveStep, Record
      <4>2. row.count = users[u].count /\ row.parsedAt = users[u].parsedAt /\ u \in DOMAIN users
        BY <1>8, <1>9, <2>2, <3>2, Rows DEF CopyOf, Activated, UserRow, row
      <4> QED
        BY <1>1, <2>2, <4>1, <4>2 DEF ExactInv
    <3> QED
      BY <3>1, <3>2
  <2>3. ASSUME NEW v \in DOMAIN users', v # u, v \notin disturbed \cup straddled,
               users'[v].parsedAt # Nil
        PROVE  answered'[v].n = users'[v].count
    <3>1. v \in DOMAIN users /\ users'[v] = users[v] /\ v \in UserIds
      BY <1>4, <2>3, Rows
    <3>2. answered'[v] = answered[v]
      BY <2>3, <3>1, Rows DEF SaveStep, Record, u
    <3> QED
      BY <1>1, <2>3, <3>1, <3>2 DEF ExactInv
  <2> QED
    BY <1>1, <1>4, <2>1, <2>2, <2>3 DEF SaveStep, ExactInv
<1>13. MailInv'
  <2>1. \A m : Genuine(m)' = Genuine(m)
    BY DEF SaveStep, Genuine
  <2> QED
    BY <1>1, <1>2, <1>6, <2>1 DEF SaveStep, MailInv
<1>14. \A x : Latest(x)' = Latest(x) /\ Active(x)' = Active(x)
  BY SameWords DEF SaveStep
<1>15. WordInv'
  <2> SUFFICES ASSUME NEW d \in Clients, NEW x \in Txns \ astray', job'[d].pc = "save"
               PROVE  /\ job'[d].op = "verify" /\ job'[d].row.txn = x =>
                           Active(x) \/ Latest(x) \in mail
                      /\ job'[d].op = "webhook" /\ job'[d].notice.txn = x
                           /\ job'[d].user \notin disturbed' =>
                           job'[d].notice = Latest(x) \/ Latest(x) \in mail
    BY <1>14 DEF SaveStep, WordInv
  <2>1. d # c /\ job'[d] = job[d]
    BY <1>2 DEF SaveStep, Writes
  <2> QED
    BY <1>1, <2>1 DEF SaveStep, WordInv
<1>16. StatusInv'
  <2> SUFFICES ASSUME NEW v \in DOMAIN users' \ disturbed', NEW x \in Txns \ astray',
                      users'[v].txn = x, Latest(x) \notin mail' \cup Redelivered'
               PROVE  IsPremium(users'[v]) <=> Active(x)
    BY <1>14 DEF StatusInv
  <2>1. /\ v \notin disturbed /\ x \in Txns \ astray /\ Latest(x) \notin mail /\ x # Nil
    BY Nils DEF SaveStep
  <2>2. Latest(x) \in Redelivered => job[c].op = "webhook" /\ job[c].notice = Latest(x)
    BY <1>2 DEF Redelivered
  <2>3. Latest(x).txn = x
    BY DEF Latest, Nth
  <2>4. job[c].op = "webhook" => row.txn = job[c].notice.txn
    BY <1>1 DEF MailInv, row
  <2>5. CASE v # u
    <3>1. v \in DOMAIN users /\ users'[v] = users[v] /\ row.txn # x
      BY <1>4, <1>5, <2>1, <2>5
    <3>2. Latest(x) \notin Redelivered
      BY <2>2, <2>3, <2>4, <3>1
    <3> QED
      BY <1>1, <2>1, <3>1, <3>2 DEF StatusInv
  <2>6. CASE v = u
    <3>1. /\ users'[v] = row /\ row.txn = x /\ u \in DOMAIN users
          /\ users[u] \in UserRow /\ CopyOf(job[c], users[u], now)
      BY <1>4, <1>8, <2>1, <2>6, Rows
    <3>2. CASE job[c].op \in {"login", "voice"}
      <4>1. row.txn = users[u].txn /\ row.status = users[u].status
        BY <1>9, <3>1, <3>2 DEF CopyOf, UserRow, row
      <4> QED
        BY <1>1, <2>1, <2>2, <2>6, <3>1, <3>2, <4>1 DEF StatusInv, IsPremium
    <3>3. CASE job[c].op = "verify"
      <4>1. row.status = "premium"
        BY <1>9, <3>1, <3>3 DEF CopyOf, Activated, UserRow, row
      <4>2. Active(x)
        BY <1>1, <1>9, <2>1, <3>1, <3>3 DEF WordInv, row
      <4> QED
        BY <3>1, <4>1, <4>2 DEF IsPremium
    <3>4. CASE job[c].op = "webhook"
      <4> DEFINE m == job[c].notice
      <4>1. m.txn = x /\ m = Latest(x)
        BY <1>1, <1>9, <2>1, <2>4, <2>6, <3>1, <3>4 DEF WordInv, u
      <4>2. m \in Notice /\ m \in Redelivered
        BY <3>4, InFlight
      <4>3. row.status = StatusAfter[m.type]
        BY <1>9, <3>1, <3>4 DEF CopyOf, UserRow, row
      <4>4. m.type = Last(x) /\ m.type \in TypesOfNotice /\ Len(issued[x]) # 0
        BY <4>1, <4>2 DEF Latest, Nth, Last, Notice
      <4>5. issued[x] # << >>
        BY <4>4
      <4> HIDE DEF m
      <4> QED
        BY <3>1, <4>3, <4>4, <4>5 DEF IsPremium, StatusAfter, Active, Bought
    <3> QED
      BY <1>9, <3>2, <3>3, <3>4
  <2> QED
    BY <2>5, <2>6
<1> QED
  BY <1>10, <1>11, <1>12, <1>13, <1>15, <1>16, <1>19 DEF More

----------------------------------------------------------------------------
(* Sign-in and sessions *)

\* A request moves on, or begins, without a copy of a row.
LEMMA PlainKeeps ==
  ASSUME Inv, More, NEW c \in Clients, NEW j, job' = [job EXCEPT ![c] = j],
         job[c].op # "webhook", j.op # "webhook", ~Writes(j), j.pc # "create",
         disturbed \subseteq disturbed',
         UNCHANGED <<users, lastUser, now, subscriptionVars>>
  PROVE  More'
<1>1. CarryStep(c, j)
  BY Rows DEF CarryStep, Writes, OpOf, CountsVoice, subscriptionVars
<1> QED
  BY <1>1, CarryKeeps

\* An idle client has no webhook in flight, nor has one at another statement.
LEMMA OnlySaves ==
  ASSUME Inv, More, NEW c \in Clients, job[c].pc # "save"
  PROVE  job[c].op # "webhook"
  BY DEF More, MailInv

\* What Start leaves behind.
LEMMA Started ==
  ASSUME NEW c, NEW j, Start(c, j)
  PROVE  job' = [job EXCEPT ![c] = j] /\ disturbed \subseteq disturbed'
  BY DEF Start

\* Idle is no request.
LEMMA Resting == ~Writes(Idle) /\ Idle.pc # "create" /\ Idle.op # "webhook"
  BY Nils DEF Writes, Idle

\* AppleLogin and KakaoLogin read the row they will save.
LEMMA LoginMore ==
  ASSUME Inv, More, NEW c \in Clients, NEW s \in Subs, Login(c, s), UNCHANGED subscriptionVars
  PROVE  More'
<1> DEFINE returning(u) == [Idle EXCEPT !.pc = "save", !.op = "login", !.user = u,
                                        !.row = LoginRow(u)]
           new == [Idle EXCEPT !.pc = "create", !.op = "login", !.row = NewRow(s)]
<1>1. /\ job[c].op # "webhook"
      /\ UNCHANGED <<users, lastUser, now, issued, mail, astray, answered, straddled>>
      /\ now' \in Nat /\ now <= now'
  <2>1. /\ job[c].op # "webhook"
        /\ UNCHANGED <<users, lastUser, now, issued, mail, astray, answered, straddled>>
    BY OnlySaves DEF Login, Ready, At, tables, subscriptionVars
  <2>2. now \in Nat
    BY Rows
  <2> QED
    BY <2>1, <2>2
<1>2. ASSUME NEW u \in DOMAIN users, Start(c, returning(u))
      PROVE  More'
  <2>1. /\ returning(u).pc = "save" /\ returning(u).op = "login" /\ returning(u).user = u
        /\ returning(u).row = users[u]
    BY DEF Idle, LoginRow
  <2> HIDE DEF returning
  <2>2. CarryStep(c, returning(u))
    BY <1>1, <1>2, <2>1, Started DEF CarryStep, CopyOf, OpOf, CountsVoice
  <2> QED
    BY <2>2, CarryKeeps
<1>3. CASE Start(c, new)
  <2>1. /\ new.pc = "create" /\ new.op = "login" /\ new.row.txn = Nil /\ new.row.parsedAt = Nil
    BY DEF Idle, NewRow
  <2> HIDE DEF new
  <2>2. CarryStep(c, new)
    BY <1>1, <1>3, <2>1, Started DEF CarryStep, Writes, OpOf, CountsVoice
  <2> QED
    BY <2>2, CarryKeeps
<1> QED
  BY <1>2, <1>3 DEF Login, AccountsOf

\* A new account has no transaction and has counted nothing.
LEMMA CreateUserMore ==
  ASSUME Inv, More, NEW c \in Clients, CreateUser(c), UNCHANGED subscriptionVars
  PROVE  More'
<1>1. job[c].pc = "create" /\ UNCHANGED <<now, issued, mail, astray, answered, straddled>>
  BY DEF CreateUser, At, subscriptionVars
<1>2. job[c].op # "webhook" /\ job[c].row.txn = Nil /\ job[c].row.parsedAt = Nil
      /\ job[c] \in Job
  BY <1>1, OnlySaves, Rows DEF More, CopyInv
<1>3. CASE End(c) /\ UNCHANGED <<users, lastUser>>
  BY <1>1, <1>2, <1>3, PlainKeeps, Resting DEF End, CreateUser
<1> DEFINE u == lastUser + 1
           j == [job[c] EXCEPT !.pc = "issue", !.user = u, !.row = Nil]
<1>4. CASE /\ ~SaveRefused(u, job[c].row) /\ u <= MaxUsers /\ lastUser' = u
           /\ PutUser(u, job[c].row) /\ Start(c, j)
  <2>1. j.pc = "issue" /\ j.op # "webhook" /\ ~Writes(j)
    BY <1>2 DEF Job, Writes
  <2> HIDE DEF j
  <2>2. job'[c] = j /\ \A d \in Clients \ {c} : job'[d] = job[d]
    BY <1>4, Started, Rows
  <2>3. /\ DOMAIN users' = DOMAIN users \cup {u} /\ users'[u] = job[c].row
        /\ \A v \in DOMAIN users : users'[v] = users[v]
        /\ u \notin DOMAIN users
    <3>1. u \notin DOMAIN users
      BY Rows DEF Inv, TypeOK, StoreTypes
    <3> QED
      BY <1>4, <3>1 DEF PutUser
  <2>4. Redelivered' \subseteq Redelivered
    BY <2>1, <2>2 DEF Redelivered
  <2>5. disturbed \subseteq disturbed'
    BY <1>4, Started
  <2>6. OneOwner /\ CopyInv /\ QuotaInv /\ ExactInv /\ MailInv /\ WordInv /\ StatusInv
    BY DEF More
  <2>7. OneOwner'
    BY <1>2, <2>3, <2>6 DEF OneOwner
  <2>8. CopyInv'
    BY <1>1, <2>1, <2>2, <2>3, <2>5, <2>6 DEF CopyInv, Writes, OpOf
  <2>9. QuotaInv'
    <3>1. CountOf(users'[u], answered[u], now)
      <4>1. u \in UserIds /\ u > lastUser
        BY <1>4, Rows, AccountBounds DEF UserIds
      <4>2. answered[u].n = 0
        BY <2>6, <4>1 DEF QuotaInv
      <4> QED
        BY <1>2, <2>3, <4>2, Rows DEF CountOf
    <3>2. \A v \in UserIds : v > lastUser' => v > lastUser
      BY <1>4, Rows DEF UserIds
    <3> HIDE DEF u
    <3> QED
      BY <1>1, <2>3, <2>5, <2>6, <3>1, <3>2 DEF QuotaInv
  <2>14. ExactInv'
    <3>1. ASSUME NEW d \in Clients, CountsVoice(job'[d]), job'[d].user \notin disturbed \cup straddled
          PROVE  job'[d] = job[d] /\ job[d].user \in DOMAIN users
      BY <2>1, <2>2, <2>6, <3>1 DEF CopyInv, CountsVoice, Writes
    <3> HIDE DEF u
    <3> QED
      BY <1>1, <1>2, <2>3, <2>5, <2>6, <3>1 DEF ExactInv
  <2>10. MailInv'
    <3>1. \A m : Genuine(m)' = Genuine(m)
      BY <1>1 DEF Genuine
    <3> QED
      BY <1>1, <2>1, <2>2, <2>4, <2>6, <3>1 DEF MailInv
  <2>11. \A x : Latest(x)' = Latest(x) /\ Active(x)' = Active(x)
    BY <1>1, SameWords
  <2>12. WordInv'
    BY <1>1, <2>1, <2>2, <2>5, <2>6, <2>11 DEF WordInv
  <2>13. StatusInv'
    <3> SUFFICES ASSUME NEW v \in DOMAIN users' \ disturbed', NEW x \in Txns \ astray',
                        users'[v].txn = x, Latest(x) \notin mail' \cup Redelivered'
                 PROVE  IsPremium(users'[v]) <=> Active(x)
      BY <2>11 DEF StatusInv
    <3>1. v \in DOMAIN users \ disturbed /\ users'[v] = users[v]
      BY <1>2, <2>3, <2>5, Nils
    <3>2. Redelivered' = Redelivered
      BY <1>2, <2>1, <2>2 DEF Redelivered
    <3> QED
      BY <1>1, <2>6, <3>1, <3>2 DEF StatusInv
  <2> QED
    BY <2>7, <2>8, <2>9, <2>10, <2>12, <2>13, <2>14 DEF More
<1> QED
  BY <1>3, <1>4 DEF CreateUser

\* Whoever else is at work on an account that is removed has disturbed it.
LEMMA DropUserMore ==
  ASSUME Inv, More, NEW c \in Clients, DropUser(c), UNCHANGED subscriptionVars
  PROVE  More'
<1> DEFINE u == job[c].user
<1>1. /\ job[c].pc = "dropUser" /\ job[c].op # "webhook" /\ u # Nil
      /\ job' = [job EXCEPT ![c] = Idle]
      /\ UNCHANGED <<lastUser, now, disturbed, issued, mail, astray, answered, straddled>>
  <2>1. job[c].pc = "dropUser"
    BY DEF DropUser, At
  <2>2. u # Nil
    BY <2>1 DEF Inv, JobInv, JobOK
  <2> QED
    BY <2>1, <2>2, OnlySaves DEF DropUser, End, subscriptionVars
<1>2. CASE UNCHANGED users
  BY <1>1, <1>2, PlainKeeps, Resting DEF subscriptionVars
<1>3. CASE DeleteUser(u)
  <2>1. job'[c] = Idle /\ \A d \in Clients \ {c} : job'[d] = job[d]
    BY <1>1, Rows
  <2>2. /\ DOMAIN users' = DOMAIN users \ {u}
        /\ \A v \in DOMAIN users' : users'[v] = users[v]
    BY <1>3, UserStatements DEF Inv
  <2>3. \A d \in Clients : d # c /\ job[d].user = u => u \in disturbed
    BY <1>1, Alone
  <2>4. Redelivered' = Redelivered
    BY <1>1, <2>1, Resting DEF Redelivered
  <2>5. OneOwner /\ CopyInv /\ QuotaInv /\ ExactInv /\ MailInv /\ WordInv /\ StatusInv
    BY DEF More
  <2>6. \A x : Latest(x)' = Latest(x) /\ Active(x)' = Active(x)
    BY <1>1, SameWords
  <2>7. \A m : Genuine(m)' = Genuine(m)
    BY <1>1 DEF Genuine
  <2> HIDE DEF u
  <2>8. OneOwner'
    BY <2>2, <2>5 DEF OneOwner
  <2>9. CopyInv'
    BY <1>1, <2>1, <2>2, <2>3, <2>5, Resting DEF CopyInv, Writes, OpOf, Idle
  <2>10. QuotaInv'
    BY <1>1, <2>2, <2>5 DEF QuotaInv
  <2>14. ExactInv'
    <3>1. ASSUME NEW d \in Clients, CountsVoice(job'[d]), job'[d].user \notin disturbed \cup straddled
          PROVE  job'[d] = job[d] /\ job[d].user \in DOMAIN users'
      BY <2>1, <2>2, <2>3, <2>5, <3>1, Resting DEF CopyInv, CountsVoice, Writes
    <3> QED
      BY <1>1, <2>2, <2>5, <3>1 DEF ExactInv
  <2>11. MailInv'
    BY <1>1, <2>1, <2>4, <2>5, <2>7, Resting DEF MailInv
  <2>12. WordInv'
    BY <1>1, <2>1, <2>5, <2>6, Resting DEF WordInv, Writes
  <2>13. StatusInv'
    BY <1>1, <2>2, <2>4, <2>5, <2>6 DEF StatusInv
  <2> QED
    BY <2>8, <2>9, <2>10, <2>11, <2>12, <2>13, <2>14 DEF More
<1> QED
  BY <1>2, <1>3 DEF DropUser

\* The other statements of sign-in, rotation, logout and deletion.
LEMMA SessionsMore ==
  ASSUME Inv, More, NEW c \in Clients, UNCHANGED subscriptionVars,
         \/ SaveLogin(c) \/ IssueToken(c) \/ Rotate(c) \/ AppleRefuses(c) \/ DropTokens(c)
         \/ \E t \in DOMAIN tokens : RefreshToken(c, t)
         \/ \E u \in UserIds : Logout(c, u) \/ DeleteAccount(c, u)
  PROVE  More'
<1>1. job[c] \in Job /\ UNCHANGED <<issued, mail, astray, answered, straddled>>
  BY Rows DEF subscriptionVars
<1>2. CASE SaveLogin(c)
  <2>1. job[c].pc = "save" /\ job[c].op = "login" /\ UNCHANGED <<lastUser, now>>
    BY <1>2 DEF SaveLogin, At
  <2>2. CASE End(c) /\ UNCHANGED users
    BY <2>1, <2>2, PlainKeeps, Resting DEF End
  <2> DEFINE j == [job[c] EXCEPT !.pc = "issue", !.row = Nil]
  <2>3. CASE /\ ~SaveRefused(job[c].user, job[c].row) /\ PutUser(job[c].user, job[c].row)
             /\ job' = [job EXCEPT ![c].pc = "issue", ![c].row = Nil] /\ UNCHANGED disturbed
    <3>1. job' = [job EXCEPT ![c] = j]
      BY <1>1, <2>3, Rows DEF Job
    <3>2. j.pc = "issue" /\ j.op = "login"
      BY <1>1, <2>1 DEF Job
    <3> HIDE DEF j
    <3>3. SaveStep(c, j)
      BY <1>1, <2>1, <2>3, <3>1, <3>2 DEF SaveStep, Writes, Record
    <3> QED
      BY <3>3, SaveKeeps
  <2> QED
    BY <1>2, <2>2, <2>3 DEF SaveLogin
<1>3. CASE IssueToken(c)
  <2>1. job[c].op # "webhook" /\ UNCHANGED <<users, lastUser, now>>
    BY <1>3, OnlySaves DEF IssueToken, At
  <2> QED
    BY <1>3, <2>1, PlainKeeps, Resting DEF IssueToken, End
<1>4. CASE Rotate(c) \/ DropTokens(c)
  <2>1. job[c].op # "webhook" /\ UNCHANGED <<users, lastUser, now>>
    BY <1>4, OnlySaves DEF Rotate, DropTokens, At
  <2>2. PICK pc \in {"issue", "dropUser"} : Goto(c, pc)
    BY <1>4 DEF Rotate, DropTokens
  <2> DEFINE j == [job[c] EXCEPT !.pc = pc]
  <2>3. j.op = job[c].op /\ j.pc = pc
    BY <1>1 DEF Job
  <2>4. job' = [job EXCEPT ![c] = j] /\ UNCHANGED disturbed
    BY <2>2 DEF Goto
  <2> HIDE DEF j
  <2> QED
    BY <2>1, <2>3, <2>4, PlainKeeps DEF Writes
<1>5. CASE AppleRefuses(c)
  <2>1. job[c].op # "webhook" /\ UNCHANGED <<users, lastUser, now>>
    BY <1>5, OnlySaves DEF AppleRefuses, At, tables
  <2> QED
    BY <1>5, <2>1, PlainKeeps, Resting DEF AppleRefuses, End
<1>6. ASSUME NEW t \in DOMAIN tokens, RefreshToken(c, t)
      PROVE  More'
  <2> DEFINE j == [Idle EXCEPT !.pc = "rotate", !.op = "refresh",
                               !.user = tokens[t].user, !.token = t]
  <2>1. job[c].op # "webhook" /\ UNCHANGED <<users, lastUser, now>> /\ Start(c, j)
    BY <1>6, OnlySaves DEF RefreshToken, Ready, At, tables
  <2>2. j.pc = "rotate" /\ j.op = "refresh"
    BY DEF Idle
  <2> HIDE DEF j
  <2> QED
    BY <2>1, <2>2, PlainKeeps, Started DEF Writes
<1>7. ASSUME NEW u \in UserIds, DeleteAccount(c, u)
      PROVE  More'
  <2> DEFINE j == [Idle EXCEPT !.pc = "dropTokens", !.op = "delete", !.user = u]
  <2>1. job[c].op # "webhook" /\ UNCHANGED <<users, lastUser, now>> /\ Start(c, j)
    BY <1>7, OnlySaves DEF DeleteAccount, Ready, At, tables
  <2>2. j.pc = "dropTokens" /\ j.op = "delete"
    BY DEF Idle
  <2> HIDE DEF j
  <2> QED
    BY <2>1, <2>2, PlainKeeps, Started DEF Writes
<1>8. ASSUME NEW u \in UserIds, Logout(c, u)
      PROVE  More'
  BY <1>1, <1>8, StillKeeps DEF Logout
<1> QED
  BY <1>2, <1>3, <1>4, <1>5, <1>6, <1>7, <1>8

----------------------------------------------------------------------------
(* Verification and the quota *)

\* The row a verification or a voice parse starts from.
LEMMA BeginMore ==
  ASSUME Inv, More, NEW c \in Clients, NEW u \in UserIds, UNCHANGED sessionHistory,
         VerifyAndActivate(c, u) \/ CheckVoiceParseLimit(c, u)
  PROVE  More'
<1> DEFINE verify == [Idle EXCEPT !.pc = "verify", !.op = "verify", !.user = u, !.row = users[u]]
           parse == [Idle EXCEPT !.pc = "parse", !.op = "voice", !.user = u]
<1>1. /\ job[c].op # "webhook" /\ u \in DOMAIN users /\ users[u] \in UserRow
      /\ UNCHANGED <<users, lastUser, now, issued, mail, astray, answered, straddled>>
      /\ now' \in Nat /\ now <= now'
  BY OnlySaves, Rows
  DEF VerifyAndActivate, CheckVoiceParseLimit, Ready, At, tables, subscriptionVars
<1>2. CASE Start(c, verify)
  <2>1. /\ verify.pc = "verify" /\ verify.op = "verify" /\ verify.user = u
        /\ verify.row = users[u]
    BY DEF Idle
  <2> HIDE DEF verify
  <2>2. CarryStep(c, verify)
    BY <1>1, <1>2, <2>1, Started DEF CarryStep, CopyOf, OpOf, CountsVoice
  <2> QED
    BY <2>2, CarryKeeps
<1>3. CASE Start(c, parse) /\ Allowed(users[u])
  <2>1. parse.pc = "parse" /\ parse.op = "voice" /\ parse.user = u
    BY DEF Idle
  <2>2. IsPremium(users[u]) \/ CountAt(users[u], now) < FreeParses
    <3>1. CountAt(users[u], now) = TodayParseCount(users[u]) /\ CountAt(users[u], now) \in Nat
      BY <1>1 DEF TodayParseCount, ParsedToday, CountAt, UserRow
    <3> QED
      BY <1>3, <3>1, AllowedIsFree DEF Allowed
  <2> HIDE DEF parse
  <2>3. CarryStep(c, parse)
    BY <1>1, <1>3, <2>1, <2>2, Started DEF CarryStep, CopyOf, OpOf, CountsVoice
  <2> QED
    BY <2>3, CarryKeeps
<1> QED
  BY <1>2, <1>3 DEF VerifyAndActivate, CheckVoiceParseLimit

\* The App Store vouches for a transaction.
LEMMA ActivateMore ==
  ASSUME Inv, More, NEW c \in Clients, NEW x \in Txns, Activate(c, x)
  PROVE  More'
<1> DEFINE j == [job[c] EXCEPT !.pc = "save", !.row = Activated(@, x)]
<1>1. /\ job[c].pc = "verify" /\ job[c].op # "webhook" /\ job[c] \in Job /\ job[c].row \in UserRow
      /\ UNCHANGED <<users, lastUser, now, disturbed, issued, mail, answered, straddled>>
      /\ x # Nil /\ now' \in Nat /\ now <= now'
  BY OnlySaves, Rows, Nils DEF Activate, At, tables, appStore
<1>2. astray \subseteq astray' /\ (x \notin astray' => Active(x))
  BY DEF Activate, GoesAstray
<1>3. /\ j.pc = "save" /\ j.op = job[c].op /\ j.user = job[c].user
      /\ j.row = Activated(job[c].row, x) /\ job' = [job EXCEPT ![c] = j]
  BY <1>1, Rows DEF Activate, Job
<1>4. Activated(job[c].row, x).txn = x
  BY <1>1 DEF Activated, UserRow
<1>5. job[c].op = "verify"
  BY <1>1 DEF More, CopyInv, OpOf
<1>6. job[c].user \notin disturbed => job[c].user \in DOMAIN users /\ users[job[c].user] = job[c].row
  BY <1>1 DEF More, CopyInv, Writes, CopyOf
<1> HIDE DEF j
<1>7. CarryStep(c, j)
  BY <1>1, <1>2, <1>3, <1>4, <1>5, <1>6 DEF CarryStep, CopyOf, OpOf, CountsVoice
<1> QED
  BY <1>7, CarryKeeps

\* Gemini has answered, and the count goes up.
LEMMA CountMore ==
  ASSUME Inv, More, NEW c \in Clients, NEW t \in Times, t >= now, CountParse(c, t)
  PROVE  More'
<1> DEFINE u == job[c].user
           j == [job[c] EXCEPT !.pc = "save", !.row = Counted(users[u], t)]
<1>1. /\ job[c].pc = "parse" /\ job[c].op # "webhook" /\ job[c] \in Job
      /\ UNCHANGED <<users, lastUser, disturbed, issued, mail, astray, answered>>
      /\ u \in DOMAIN users /\ ~IsPremium(users[u]) /\ users[u] \in UserRow
      /\ now \in Nat /\ now \in Times /\ t \in Nat /\ now' = t /\ now <= t
  BY OnlySaves, Rows DEF CountParse, At, tables
<1>2. TodayParseCount(users[u]) = CountAt(users[u], now)
  BY DEF TodayParseCount, ParsedToday, CountAt
<1>3. /\ j.pc = "save" /\ j.op = job[c].op /\ j.user = u /\ j.row = Counted(users[u], t)
      /\ job' = [job EXCEPT ![c] = j]
  BY <1>1, Rows DEF CountParse, Job
<1>4. /\ j.row = [users[u] EXCEPT !.count = CountAt(users[u], now) + 1, !.parsedAt = t]
      /\ j.row.parsedAt = t /\ j.row.count = CountAt(users[u], now) + 1
  BY <1>1, <1>2, <1>3 DEF Counted, UserRow
<1>5. u \notin disturbed =>
        /\ CountAt(users[u], now) < FreeParses
        /\ users[u].parsedAt # Nil => users[u].parsedAt <= now
  BY <1>1 DEF More, CopyInv, Writes, CopyOf, QuotaInv, CountOf
<1>6. job[c].op = "voice"
  BY <1>1 DEF More, CopyInv, OpOf
<1>7. straddled \subseteq straddled' /\ (u \notin straddled' => ParseDay(t) = ParseDay(now))
  BY DEF CountParse
<1> HIDE DEF j
<1>8. CopyOf(j, users[u], t) \/ u \in disturbed
  <2>1. SUFFICES ASSUME u \notin disturbed
                 PROVE  CopyOf(j, users[u], t)
    OBVIOUS
  <2>2. \E s \in Times :
          /\ users[u].parsedAt # Nil => users[u].parsedAt <= s
          /\ s <= j.row.parsedAt /\ CountAt(users[u], s) < FreeParses
          /\ j.row = [users[u] EXCEPT !.count = CountAt(users[u], s) + 1,
                                      !.parsedAt = j.row.parsedAt]
    <3>1. /\ users[u].parsedAt # Nil => users[u].parsedAt <= now
          /\ now <= j.row.parsedAt /\ CountAt(users[u], now) < FreeParses
          /\ j.row = [users[u] EXCEPT !.count = CountAt(users[u], now) + 1,
                                      !.parsedAt = j.row.parsedAt]
      BY <1>1, <1>4, <1>5, <2>1
    <3> HIDE DEF u
    <3> QED
      BY <1>1, <3>1
  <2>3. j.row.parsedAt <= t
    BY <1>1, <1>4
  <2> QED
    BY <1>3, <1>6, <2>2, <2>3 DEF CopyOf
<1>9. u \notin straddled' => CountAt(users[u], t) = CountAt(users[u], now)
  BY <1>7 DEF CountAt
<1>10. CarryStep(c, j)
  BY <1>1, <1>3, <1>4, <1>6, <1>7, <1>8, <1>9 DEF CarryStep, OpOf, CountsVoice
<1> QED
  BY <1>10, CarryKeeps

LEMMA IncrementMore ==
  ASSUME Inv, More, NEW c \in Clients, IncrementVoiceParseCount(c)
  PROVE  More'
<1>1. ASSUME LeaveUncounted(c)
      PROVE  More'
  <2>1. /\ job[c].op # "webhook" /\ UNCHANGED <<users, lastUser, now, subscriptionVars>>
        /\ job' = [job EXCEPT ![c] = Idle] /\ disturbed \subseteq disturbed'
    BY <1>1, OnlySaves DEF LeaveUncounted, At, tables, End, EndInError
  <2> QED
    BY <2>1, PlainKeeps, Resting
<1> QED
  BY <1>1, CountMore DEF IncrementVoiceParseCount

\* A verification, a notification or a voice parse is saved, or refused.
LEMMA SaveSubscriptionMore ==
  ASSUME Inv, More, NEW c \in Clients, SaveSubscription(c)
  PROVE  More'
<1>1. /\ job[c].pc = "save"
      /\ UNCHANGED <<lastUser, now, issued, mail, straddled>> /\ now' \in Nat /\ now <= now'
  BY Rows DEF SaveSubscription, At, appStore
<1>2. CASE /\ ~SaveRefused(job[c].user, job[c].row) /\ PutUser(job[c].user, job[c].row)
           /\ End(c) /\ Record(job[c].op, job[c].user, job[c].row) /\ UNCHANGED astray
  <2>1. SaveStep(c, Idle)
    BY <1>1, <1>2, Resting DEF SaveStep, End
  <2> QED
    BY <2>1, SaveKeeps
<1>3. CASE EndInError(c) /\ Unrecorded(c) /\ UNCHANGED <<users, answered>>
  <2>1. CarryStep(c, Idle)
    BY <1>1, <1>3, Resting
    DEF CarryStep, EndInError, Unrecorded, GoesAstray, Idle, Writes, OpOf, CountsVoice
  <2> QED
    BY <2>1, CarryKeeps
<1> QED
  BY <1>2, <1>3 DEF SaveSubscription

\* The App Store, or Gemini, declines.
LEMMA DeclinedMore ==
  ASSUME Inv, More, NEW c \in Clients, StoreRefuses(c) \/ ParseFails(c)
  PROVE  More'
<1>1. job[c].op # "webhook" /\ UNCHANGED <<users, lastUser, now, subscriptionVars>>
  BY OnlySaves DEF StoreRefuses, ParseFails, At, tables
<1> QED
  BY <1>1, PlainKeeps, Resting DEF StoreRefuses, ParseFails, End

----------------------------------------------------------------------------
(* The App Store's notifications *)

\* One finds the account its transaction belongs to.
LEMMA NotificationMore ==
  ASSUME Inv, More, NEW c \in Clients, NEW m \in mail, HandleNotification(c, m)
  PROVE  More'
<1> DEFINE j(u) == [Idle EXCEPT !.pc = "save", !.op = "webhook", !.user = u, !.notice = m,
                                !.row = [users[u] EXCEPT !.status = StatusAfter[m.type]]]
<1>1. PICK u \in FindByOriginalTransactionID(m.txn) : Start(c, j(u))
  BY DEF HandleNotification
<1>2. /\ u \in DOMAIN users /\ users[u] \in UserRow /\ users[u].txn = m.txn /\ u # Nil
      /\ m \in Notice /\ m.txn \in Txns /\ m.txn # Nil
  BY Rows, Nils DEF FindByOriginalTransactionID, Notice
<1>3. /\ job[c].pc = "idle" /\ job[c].op # "webhook"
      /\ UNCHANGED <<users, lastUser, now, issued, answered, straddled>>
      /\ mail' = mail \ {m} /\ astray \subseteq astray'
      /\ Overtaken(m) \/ BeingSaved(m.txn) => m.txn \in astray'
  BY OnlySaves DEF HandleNotification, Ready, At, tables, GoesAstray
<1>4. /\ j(u).pc = "save" /\ j(u).op = "webhook" /\ j(u).user = u /\ j(u).notice = m
      /\ j(u).row = [users[u] EXCEPT !.status = StatusAfter[m.type]]
      /\ j(u).row.txn = m.txn
  BY <1>2 DEF Idle, UserRow
<1>5. /\ job' = [job EXCEPT ![c] = j(u)] /\ disturbed \subseteq disturbed'
      /\ (\E d \in Clients : job[d].user = u) => u \in disturbed'
  BY <1>1, <1>2, <1>4 DEF Start
<1> HIDE DEF j
<1>6. job'[c] = j(u) /\ \A d \in Clients \ {c} : job'[d] = job[d]
  BY <1>5, Rows
<1>7. Redelivered' = Redelivered \cup {m}
  BY <1>3, <1>4, <1>6 DEF Redelivered
<1>8. OneOwner /\ CopyInv /\ QuotaInv /\ ExactInv /\ MailInv /\ WordInv /\ StatusInv
  BY DEF More
<1>9. \A x : Latest(x)' = Latest(x) /\ Active(x)' = Active(x) /\ Latest(x).txn = x
  BY <1>3, SameWords DEF Latest, Nth
<1>10. m.txn \notin astray' => m = Latest(m.txn) \/ Latest(m.txn) \in mail'
  <2> DEFINE L == Len(issued[m.txn])
  <2>1. Genuine(m)
    BY <1>8 DEF MailInv
  <2>2. L \in Nat /\ m.n \in Nat /\ m.n <= L /\ m.type = issued[m.txn][m.n]
    BY <1>2, <2>1, Rows DEF Genuine, Notice
  <2>3. CASE m.n = L
    BY <1>2, <2>2, <2>3 DEF Latest, Nth, Notice
  <2>4. CASE m.n # L
    <3>1. L \in m.n + 1 .. L
      BY <2>2, <2>4
    <3>2. m.txn \notin astray' => Latest(m.txn) \in mail
      BY <1>3, <3>1 DEF Overtaken, Latest
    <3>3. Latest(m.txn).n = L
      BY DEF Latest, Nth
    <3> QED
      BY <1>3, <2>4, <3>2, <3>3
  <2> QED
    BY <2>3, <2>4
<1>11. OneOwner'
  BY <1>3, <1>8 DEF OneOwner
<1>12. CopyInv'
  <2>1. CopyOf(j(u), users[u], now)
    BY <1>2, <1>4 DEF CopyOf
  <2> QED
    BY <1>2, <1>3, <1>4, <1>5, <1>6, <1>8, <2>1 DEF CopyInv, OpOf
<1>13. QuotaInv' /\ ExactInv'
  BY <1>3, <1>4, <1>5, <1>6, <1>8 DEF QuotaInv, ExactInv, CountsVoice
<1>14. MailInv'
  <2>1. \A k : Genuine(k)' = Genuine(k)
    BY <1>3 DEF Genuine
  <2> QED
    BY <1>3, <1>4, <1>6, <1>7, <1>8, <2>1 DEF MailInv
<1>15. WordInv'
  <2> SUFFICES ASSUME NEW d \in Clients, NEW x \in Txns \ astray', job'[d].pc = "save"
               PROVE  /\ job'[d].op = "verify" /\ job'[d].row.txn = x =>
                           Active(x) \/ Latest(x) \in mail'
                      /\ job'[d].op = "webhook" /\ job'[d].notice.txn = x
                           /\ job'[d].user \notin disturbed' =>
                           job'[d].notice = Latest(x) \/ Latest(x) \in mail'
    BY <1>9 DEF WordInv
  <2>1. CASE d = c
    BY <1>4, <1>6, <1>10, <2>1
  <2>2. CASE d # c /\ job[d].op = "verify"
    <3>1. job'[d] = job[d] /\ (job[d].row.txn = x => x # m.txn)
      BY <1>3, <1>6, <2>2 DEF BeingSaved, At
    <3> QED
      BY <1>3, <1>8, <1>9, <2>2, <3>1 DEF WordInv
  <2>3. CASE d # c /\ job[d].op = "webhook"
    <3>1. job'[d] = job[d]
      BY <1>6, <2>3
    <3>2. SUFFICES ASSUME job[d].notice.txn = x, job[d].user \notin disturbed'
                   PROVE  job[d].notice = Latest(x) \/ Latest(x) \in mail'
      BY <2>3, <3>1
    <3>3. job[d].user \in DOMAIN users /\ users[job[d].user].txn = x
      BY <1>5, <1>8, <2>3, <3>1, <3>2 DEF CopyInv, Writes, CopyOf
    <3>4. x # m.txn
      BY <1>2, <1>5, <1>8, <3>2, <3>3 DEF OneOwner
    <3> QED
      BY <1>3, <1>5, <1>8, <1>9, <2>3, <3>1, <3>2, <3>4 DEF WordInv
  <2> QED
    BY <1>6, <2>1, <2>2, <2>3
<1>16. StatusInv'
  <2> SUFFICES ASSUME NEW v \in DOMAIN users' \ disturbed', NEW x \in Txns \ astray',
                      users'[v].txn = x, Latest(x) \notin mail' \cup Redelivered'
               PROVE  IsPremium(users'[v]) <=> Active(x)
    BY <1>9 DEF StatusInv
  <2>1. x # m.txn
    BY <1>7, <1>10
  <2>2. Latest(x) \notin mail \cup Redelivered
    BY <1>3, <1>7, <1>9, <2>1
  <2> QED
    BY <1>3, <1>5, <1>8, <2>2 DEF StatusInv
<1> QED
  BY <1>11, <1>12, <1>13, <1>14, <1>15, <1>16 DEF More

\* One finds no account: none is at work with its transaction but those that
\* verify it.
LEMMA IgnoringMore ==
  ASSUME Inv, More, NEW c \in Clients, NEW m \in mail, IgnoreNotification(c, m)
  PROVE  More'
<1>1. /\ UNCHANGED <<users, lastUser, now, job, disturbed, issued, answered, straddled>>
      /\ mail' = mail \ {m} /\ astray \subseteq astray'
      /\ BeingSaved(m.txn) => m.txn \in astray'
      /\ \A u \in DOMAIN users : users[u].txn # m.txn
  BY DEF IgnoreNotification, tables, GoesAstray, FindByOriginalTransactionID
<1>2. Redelivered' = Redelivered
  BY <1>1 DEF Redelivered
<1>3. OneOwner /\ CopyInv /\ QuotaInv /\ ExactInv /\ MailInv /\ WordInv /\ StatusInv
  BY DEF More
<1>4. \A x : Latest(x)' = Latest(x) /\ Active(x)' = Active(x) /\ Latest(x).txn = x
  BY <1>1, SameWords DEF Latest, Nth
<1>5. OneOwner' /\ CopyInv' /\ QuotaInv' /\ ExactInv'
  BY <1>1, <1>3 DEF OneOwner, CopyInv, QuotaInv, ExactInv
<1>6. MailInv'
  <2>1. \A k : Genuine(k)' = Genuine(k)
    BY <1>1 DEF Genuine
  <2> QED
    BY <1>1, <1>2, <1>3, <2>1 DEF MailInv
<1>7. WordInv'
  <2> SUFFICES ASSUME NEW d \in Clients, NEW x \in Txns \ astray', job[d].pc = "save"
               PROVE  /\ job[d].op = "verify" /\ job[d].row.txn = x =>
                           Active(x) \/ Latest(x) \in mail'
                      /\ job[d].op = "webhook" /\ job[d].notice.txn = x
                           /\ job[d].user \notin disturbed =>
                           job[d].notice = Latest(x) \/ Latest(x) \in mail'
    BY <1>1, <1>4 DEF WordInv
  <2>1. job[d].op = "verify" /\ job[d].row.txn = x => x # m.txn
    BY <1>1 DEF BeingSaved, At
  <2>2. ASSUME job[d].op = "webhook", job[d].notice.txn = x, job[d].user \notin disturbed
        PROVE  x # m.txn
    <3>1. /\ job[d].user \in DOMAIN users
          /\ CopyOf(job[d], users[job[d].user], now)
      BY <1>3, <2>2 DEF CopyInv, Writes
    <3>2. users[job[d].user].txn = x
      BY <2>2, <3>1 DEF CopyOf
    <3> QED
      BY <1>1, <3>1, <3>2
  <2> QED
    BY <1>1, <1>3, <1>4, <2>1, <2>2 DEF WordInv
<1>8. StatusInv'
  <2> SUFFICES ASSUME NEW v \in DOMAIN users \ disturbed, NEW x \in Txns \ astray',
                      users[v].txn = x, Latest(x) \notin mail' \cup Redelivered
               PROVE  IsPremium(users[v]) <=> Active(x)
    BY <1>1, <1>2, <1>4 DEF StatusInv
  <2>1. x # m.txn
    BY <1>1
  <2>2. Latest(x) \notin mail \cup Redelivered
    BY <1>1, <1>4, <2>1
  <2> QED
    BY <1>1, <1>3, <2>2 DEF StatusInv
<1> QED
  BY <1>5, <1>6, <1>7, <1>8 DEF More

\* The store has something to say, and its last word is on its way.
LEMMA PurchasingMore ==
  ASSUME Inv, More, Purchasing
  PROVE  More'
<1>1. PICK x \in Txns, type \in NoticeTypes : Issue(x, type)
  BY DEF Purchasing
<1> DEFINE L == Len(issued[x])
<1>2. PICK m :
      /\ m = [txn |-> x, n |-> L + 1, type |-> type]
      /\ UNCHANGED <<users, lastUser, now, job, disturbed, astray, answered, straddled>>
      /\ mail' = mail \cup {m}
      /\ issued' = [issued EXCEPT ![x] = Append(@, type)]
  BY <1>1 DEF Purchasing, Issue, tables
<1>3. /\ L \in Nat /\ type \in TypesOfNotice /\ issued[x] \in Seq(TypesOfNotice)
      /\ issued'[x] = Append(issued[x], type)
      /\ \A y \in Txns \ {x} : issued'[y] = issued[y]
  BY <1>2, Rows, AccountBounds
<1>4. /\ Len(issued'[x]) = L + 1 /\ issued'[x][L + 1] = type
      /\ \A i \in 1 .. L : issued'[x][i] = issued[x][i]
  BY <1>3
<1>5. Latest(x)' = m
  BY <1>2, <1>4 DEF Latest, Nth
<1>6. \A y \in Txns \ {x} : Latest(y)' = Latest(y) /\ Active(y)' = Active(y) /\ Latest(y) # m
  BY <1>2, <1>3 DEF Latest, Nth, Active, Bought, Last
<1>7. Redelivered' = Redelivered
  BY <1>2 DEF Redelivered
<1>8. OneOwner /\ CopyInv /\ QuotaInv /\ ExactInv /\ MailInv /\ WordInv /\ StatusInv
  BY DEF More
<1>9. OneOwner' /\ CopyInv' /\ QuotaInv' /\ ExactInv'
  BY <1>2, <1>8 DEF OneOwner, CopyInv, QuotaInv, ExactInv
<1>10. MailInv'
  <2>1. ASSUME NEW k \in mail \cup Redelivered
        PROVE  Genuine(k)'
    <3>1. k \in Notice /\ Genuine(k)
      BY <1>8, Rows, InFlight DEF MailInv
    <3>2. k.n \in Nat \ {0} /\ k.txn \in Txns /\ k.n <= Len(issued[k.txn])
          /\ k.type = issued[k.txn][k.n]
      BY <3>1 DEF Notice, Genuine
    <3>3. CASE k.txn = x
      BY <1>3, <1>4, <3>2, <3>3 DEF Genuine
    <3>4. CASE k.txn # x
      BY <1>3, <3>2, <3>4 DEF Genuine
    <3> QED
      BY <3>3, <3>4
  <2>2. Genuine(m)'
    BY <1>2, <1>3, <1>4 DEF Genuine
  <2> QED
    BY <1>2, <1>7, <1>8, <2>1, <2>2 DEF MailInv
<1>11. \A y \in Txns : Latest(y) \in mail /\ y # x => Latest(y)' \in mail'
  BY <1>2, <1>6
<1>12. WordInv'
  <2> SUFFICES ASSUME NEW d \in Clients, NEW y \in Txns \ astray, job[d].pc = "save"
               PROVE  /\ job[d].op = "verify" /\ job[d].row.txn = y =>
                           Active(y)' \/ Latest(y)' \in mail'
                      /\ job[d].op = "webhook" /\ job[d].notice.txn = y
                           /\ job[d].user \notin disturbed =>
                           job[d].notice = Latest(y)' \/ Latest(y)' \in mail'
    BY <1>2 DEF WordInv
  <2>1. CASE y = x
    BY <1>2, <1>5, <2>1
  <2>2. CASE y # x
    BY <1>6, <1>8, <1>11, <2>2 DEF WordInv
  <2> QED
    BY <2>1, <2>2
<1>13. StatusInv'
  <2> SUFFICES ASSUME NEW v \in DOMAIN users \ disturbed, NEW y \in Txns \ astray,
                      users[v].txn = y, Latest(y)' \notin mail' \cup Redelivered
               PROVE  IsPremium(users[v]) <=> Active(y)'
    BY <1>2, <1>7 DEF StatusInv
  <2>1. y # x
    BY <1>2, <1>5
  <2> QED
    BY <1>2, <1>6, <1>8, <2>1 DEF StatusInv
<1> QED
  BY <1>9, <1>10, <1>12, <1>13 DEF More

----------------------------------------------------------------------------
(* Faults and the clock *)

\* A statement fails; a webhook's word is lost with it.
LEMMA FailingMore ==
  ASSUME Inv, More, Failing
  PROVE  More'
<1>1. PICK c \in Clients : StatementFails(c) /\ Unrecorded(c)
  BY DEF Failing
<1>2. now' \in Nat /\ now <= now'
  <2>1. UNCHANGED now
    BY <1>1 DEF StatementFails
  <2> QED
    BY <2>1, Rows
<1>3. CarryStep(c, Idle)
  BY <1>1, <1>2, Resting
  DEF Failing, StatementFails, EndInError, Unrecorded, GoesAstray, CarryStep, OpOf, Idle, tables,
      CountsVoice, appStore
<1> QED
  BY <1>3, CarryKeeps

\* The words that were in a request's hands are in the mail again.
LEMMA RestartingMore ==
  ASSUME Inv, More, Restarting
  PROVE  More'
<1>1. /\ UNCHANGED <<users, lastUser, now, disturbed, issued, astray, answered, straddled>>
      /\ mail' = mail \cup Redelivered
      /\ job' = [c \in Clients |-> Idle]
  BY DEF Restarting, Crash, tables
<1>2. Redelivered' = {}
  BY <1>1, Resting DEF Redelivered
<1>3. \A x : Latest(x)' = Latest(x) /\ Active(x)' = Active(x)
  BY <1>1, SameWords
<1>4. \A m : Genuine(m)' = Genuine(m)
  BY <1>1 DEF Genuine
<1>5. OneOwner /\ CopyInv /\ QuotaInv /\ ExactInv /\ MailInv /\ WordInv /\ StatusInv
  BY DEF More
<1>6. OneOwner' /\ QuotaInv'
  BY <1>1, <1>5 DEF OneOwner, QuotaInv
<1>7. CopyInv' /\ WordInv' /\ ExactInv'
  BY <1>1, <1>5, Resting DEF CopyInv, WordInv, ExactInv, CountsVoice, OpOf, Idle
<1>8. MailInv'
  BY <1>1, <1>2, <1>4, <1>5, Resting DEF MailInv
<1>9. StatusInv'
  BY <1>1, <1>2, <1>3, <1>5 DEF StatusInv
<1> QED
  BY <1>6, <1>7, <1>8, <1>9 DEF More

\* As time passes, the count of the day can only fall.
LEMMA PassingMore ==
  ASSUME Inv, More, Passing
  PROVE  More'
<1>1. /\ UNCHANGED <<users, lastUser, job, disturbed, issued, mail, astray, answered, straddled>>
      /\ now \in Nat /\ now' \in Nat /\ now <= now'
  BY Rows, AccountBounds DEF Passing, Tick, tables, subscriptionVars, Inv, TypeOK, StoreTypes
<1>2. OneOwner /\ CopyInv /\ QuotaInv /\ ExactInv /\ MailInv /\ WordInv /\ StatusInv
  BY DEF More
<1>3. OneOwner' /\ ExactInv' /\ MailInv' /\ WordInv' /\ StatusInv'
  <2>1. \A x : Latest(x)' = Latest(x) /\ Active(x)' = Active(x)
    BY <1>1, SameWords
  <2>2. \A m : Genuine(m)' = Genuine(m)
    BY <1>1 DEF Genuine
  <2>3. Redelivered' = Redelivered
    BY <1>1 DEF Redelivered
  <2> QED
    BY <1>1, <1>2, <2>1, <2>2, <2>3 DEF OneOwner, ExactInv, MailInv, WordInv, StatusInv
<1>4. QuotaInv' /\ CopyInv'
  BY <1>1, <1>2, ClockKeeps DEF QuotaInv, CopyInv
<1> QED
  BY <1>3, <1>4 DEF More

----------------------------------------------------------------------------
\* The empty tables and the empty mail satisfy the invariant.
LEMMA InitMore == Init => More
<1> SUFFICES ASSUME Init PROVE More
  OBVIOUS
<1>1. /\ DOMAIN users = {} /\ job = [c \in Clients |-> Idle] /\ mail = {}
      /\ answered = [u \in UserIds |-> [day |-> 0, n |-> 0]]
  BY DEF Init, StoreInit, SubscriptionInit
<1>2. \A c \in Clients : job[c] = Idle
  BY <1>1
<1>3. Redelivered = {}
  BY <1>2, Resting DEF Redelivered
<1> QED
  BY <1>1, <1>2, <1>3, Resting
  DEF More, OneOwner, CopyInv, QuotaInv, ExactInv, MailInv, WordInv, StatusInv, OpOf, Idle,
      CountsVoice

\* Every step preserves the invariant.
LEMMA NextMore == Inv /\ More /\ [Next]_vars => More'
<1> SUFFICES ASSUME Inv, More, [Next]_vars PROVE More'
  OBVIOUS
<1>1. ASSUME NEW c \in Clients, SessionStep(c), UNCHANGED subscriptionVars
      PROVE  More'
  BY <1>1, LoginMore, CreateUserMore, DropUserMore, SessionsMore DEF SessionStep
<1>2. ASSUME NEW c \in Clients, SubscriptionStep(c), UNCHANGED sessionHistory
      PROVE  More'
  BY <1>2, BeginMore, ActivateMore, DeclinedMore, NotificationMore, IgnoringMore, IncrementMore,
     SaveSubscriptionMore
  DEF SubscriptionStep, PurchaseStep, VoiceStep
<1>3. CASE Signing
  BY <1>1, <1>3 DEF Signing
<1>4. CASE Subscribing
  BY <1>2, <1>4 DEF Subscribing
<1>5. CASE UNCHANGED vars
  BY <1>5, StillKeeps DEF vars, tables, subscriptionVars
<1> QED
  BY <1>3, <1>4, <1>5, PurchasingMore, FailingMore, RestartingMore, PassingMore DEF Next

(* Whatever the endpoints do at once, a request that has an account to     *)
(* itself carries a copy true to its row, and what a row says of the quota *)
(* and of the App Store is what was answered and what the store said       *)
(* (AppleLogin to HandleNotification).                                     *)
THEOREM MoreInvariance == Spec => [](Inv /\ More)
<1>1. Init => Inv /\ More
  BY InitInv, InitMore
<1>2. Inv /\ More /\ [Next]_vars => (Inv /\ More)'
  BY NextKeeps, NextMore
<1> QED
  BY <1>1, <1>2, PTL DEF Spec

(* CheckVoiceParseLimit and IncrementVoiceParseCount: the count of an      *)
(* account nothing disturbed is within the limit, no less than the free    *)
(* parses answered on its day, and their number where no count met the end *)
(* of a day; and the account is shown what is left of the limit.           *)
THEOREM QuotaIsExact == Spec => []QuotaExact
<1>1. Inv /\ More => QuotaExact
  <2> SUFFICES ASSUME Inv, More, NEW u \in DOMAIN users \ disturbed
               PROVE  LET n == IF answered[u].day = ParseDay(now) THEN answered[u].n ELSE 0
                          count == TodayParseCount(users[u])
                      IN /\ n <= count /\ count <= FreeParses
                         /\ u \notin straddled => count = n
                         /\ ~IsPremium(users[u]) => Remaining(users[u]) = FreeParses - count
    BY DEF QuotaExact
  <2> DEFINE n == IF answered[u].day = ParseDay(now) THEN answered[u].n ELSE 0
             count == TodayParseCount(users[u])
  <2>1. /\ CountOf(users[u], answered[u], now) /\ answered[u].n \in Nat /\ FreeParses \in Nat
        /\ users[u].count \in Nat
        /\ u \notin straddled /\ users[u].parsedAt # Nil => answered[u].n = users[u].count
    BY Rows DEF More, QuotaInv, ExactInv, UserRow
  <2>2. /\ n <= count /\ count <= FreeParses /\ (u \notin straddled => count = n)
        /\ count \in Nat
    BY <2>1 DEF CountOf, TodayParseCount, ParsedToday
  <2>3. ~IsPremium(users[u]) => Remaining(users[u]) =
          IF VoiceParseLimit < count THEN 0 ELSE VoiceParseLimit - count
    BY DEF Remaining, TodayParseCount
  <2> HIDE DEF n, count
  <2>4. (IF VoiceParseLimit < count THEN 0 ELSE VoiceParseLimit - count) = FreeParses - count
    BY <2>2, AccountBounds DEF FreeParses
  <2> QED
    BY <2>2, <2>3, <2>4 DEF n, count
<1> QED
  BY <1>1, MoreInvariance, PTL

(* HandleNotification and VerifyAndActivate: once the store's words have   *)
(* arrived, the status of an account nothing disturbed is what they say,   *)
(* unless one went astray.                                                 *)
THEOREM StatusFollows == Spec => []StatusFollowsStore
<1>1. Inv /\ More => StatusFollowsStore
  <2> SUFFICES ASSUME Inv, More, NEW u \in DOMAIN users \ disturbed, users[u].txn # Nil,
                      users[u].txn \notin astray, Delivered(users[u].txn)
               PROVE  IsPremium(users[u]) <=> Active(users[u].txn)
    BY DEF StatusFollowsStore
  <2> DEFINE x == users[u].txn
  <2>1. x \in Txns \ astray
    BY Rows DEF UserRow
  <2>2. Latest(x).txn = x
    BY DEF Latest, Nth
  <2>3. Latest(x) \notin mail
    BY <2>2 DEF Delivered
  <2>4. Latest(x) \notin Redelivered
    <3>1. \A c \in Clients : job[c].op = "webhook" => job[c].notice # Nil
      BY InFlight, AccountNil
    <3> QED
      BY <2>2, <3>1 DEF Delivered, Redelivered
  <2> QED
    BY <2>1, <2>3, <2>4 DEF More, StatusInv
<1> QED
  BY <1>1, MoreInvariance, PTL

\* No row but one that request c saves is written, unless it is new.
SavesOnly(c) ==
  \A u \in DOMAIN users \cap DOMAIN users' :
    users'[u] = users[u] \/ (job[c].pc = "save" /\ u = job[c].user /\ users'[u] = job[c].row)

\* What a request does to the rows there are.
LEMMA RowsWritten ==
  ASSUME Inv, NEW c \in Clients, SessionStep(c) \/ SubscriptionStep(c)
  PROVE  SavesOnly(c) /\ disturbed \subseteq disturbed'
<1>1. disturbed \subseteq disturbed'
  BY DEF SessionStep, SubscriptionStep, PurchaseStep, VoiceStep, Login, CreateUser, SaveLogin,
     IssueToken, RefreshToken, Rotate, Logout, DeleteAccount, AppleRefuses, DropTokens, DropUser,
     VerifyAndActivate, Activate, StoreRefuses, HandleNotification, IgnoreNotification,
     CheckVoiceParseLimit, ParseFails, IncrementVoiceParseCount, CountParse, LeaveUncounted,
     SaveSubscription, Start, End, EndInError, Goto
<1>2. ASSUME UNCHANGED users PROVE SavesOnly(c)
  BY <1>2 DEF SavesOnly
<1>3. ASSUME CreateUser(c) PROVE SavesOnly(c)
  <2>1. lastUser + 1 \notin DOMAIN users
    BY Rows DEF Inv, TypeOK, StoreTypes
  <2> QED
    BY <1>2, <1>3, <2>1 DEF CreateUser, PutUser, SavesOnly
<1>4. ASSUME SaveLogin(c) \/ SaveSubscription(c) PROVE SavesOnly(c)
  BY <1>2, <1>4 DEF SaveLogin, SaveSubscription, At, PutUser, SavesOnly
<1>5. ASSUME DropUser(c) PROVE SavesOnly(c)
  BY <1>2, <1>5, UserStatements DEF DropUser, SavesOnly, Inv
<1>6. \/ UNCHANGED users \/ CreateUser(c) \/ SaveLogin(c) \/ SaveSubscription(c) \/ DropUser(c)
  BY DEF SessionStep, SubscriptionStep, PurchaseStep, VoiceStep, Login, IssueToken, RefreshToken,
     Rotate, Logout, DeleteAccount, AppleRefuses, DropTokens, VerifyAndActivate, Activate,
     StoreRefuses, HandleNotification, IgnoreNotification, CheckVoiceParseLimit, ParseFails,
     IncrementVoiceParseCount, CountParse, LeaveUncounted, tables
<1> QED
  BY <1>1, <1>2, <1>3, <1>4, <1>5, <1>6

(* Update, which saves every column: as long as no two requests work on an *)
(* account at once, nothing takes its transaction away.                    *)
THEOREM TransactionsAreKept == Spec => TransactionKept
<1>1. Inv /\ More /\ [Next]_vars =>
        \A u \in (DOMAIN users \cap DOMAIN users') \ disturbed' :
          users[u].txn # Nil => users'[u].txn # Nil
  <2> SUFFICES ASSUME Inv, More, [Next]_vars,
                      NEW u \in (DOMAIN users \cap DOMAIN users') \ disturbed',
                      users[u].txn # Nil
               PROVE  users'[u].txn # Nil
    OBVIOUS
  <2>1. ASSUME NEW c \in Clients, SessionStep(c) \/ SubscriptionStep(c)
        PROVE  users'[u].txn # Nil
    <3>1. SavesOnly(c) /\ u \notin disturbed
      BY <2>1, RowsWritten
    <3>2. CASE users'[u] = users[u]
      BY <3>2
    <3>3. CASE job[c].pc = "save" /\ u = job[c].user /\ users'[u] = job[c].row
      <4>1. CopyOf(job[c], users[u], now) /\ OpOf(job[c]) /\ users[u] \in UserRow
        BY <3>1, <3>3, Rows DEF More, CopyInv, Writes
      <4>2. CASE job[c].op \in {"login", "verify"}
        BY <3>3, <4>1, <4>2 DEF CopyOf
      <4>3. CASE job[c].op \in {"webhook", "voice"}
        <5>1. job[c].row.txn = users[u].txn
          BY <3>3, <4>1, <4>3 DEF CopyOf, UserRow
        <5> QED
          BY <3>3, <5>1
      <4> QED
        BY <3>3, <4>1, <4>2, <4>3 DEF OpOf
    <3> QED
      BY <3>1, <3>2, <3>3 DEF SavesOnly
  <2>2. CASE UNCHANGED users
    BY <2>2
  <2> QED
    BY <2>1, <2>2
    DEF Next, vars, tables, Signing, Subscribing, Purchasing, Failing, StatementFails, Restarting,
        Crash, Passing, Tick
<1> QED
  BY <1>1, MoreInvariance, PTL DEF Spec, TransactionKept
===============================================================================
