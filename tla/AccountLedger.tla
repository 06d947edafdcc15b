----------------------------- MODULE AccountLedger -----------------------------
(***************************************************************************)
(* What the endpoints promise for the row of an account on which no two    *)
(* requests work at once: that each request is one step, as though it had  *)
(* read and saved the row at the same instant.  Nothing that one request   *)
(* wrote is undone by another that had read the row before, a sign-in      *)
(* writes nothing, and each identity and each transaction has one account. *)
(*                                                                         *)
(*   Open -> Activate, Notify, Count -> ... -> Close                       *)
(*                                                                         *)
(* An account is closed when it is deleted, and counts as closed from when *)
(* two requests have been at work on it: it is promised nothing then.      *)
(***************************************************************************)
EXTENDS Integers, Functions

CONSTANTS Ids, Subs, Txns, Times, Limit, DayLength, Nil

VARIABLES
  row,      \* open account -> its row
  past      \* accounts that are closed

Statuses == {"free", "premium"}

Row == [sub : Subs, status : Statuses, txn : Txns \cup {Nil}, count : 0 .. Limit,
        parsedAt : Times \cup {Nil}]

Init == row = << >> /\ past = {}

Blank(s) == [sub |-> s, status |-> "free", txn |-> Nil, count |-> 0, parsedAt |-> Nil]

\* What r has used up of the quota of the day of t.
Used(r, t) ==
  IF r.parsedAt # Nil /\ r.parsedAt \div DayLength = t \div DayLength THEN r.count ELSE 0

Write(u, r) ==
  /\ row' = [x \in DOMAIN row \cup {u} |-> IF x = u THEN r ELSE row[x]]
  /\ UNCHANGED past

\* A first sign-in.
Open(u) ==
  /\ u \notin DOMAIN row \cup past
  /\ \E s \in Subs : (\A v \in DOMAIN row : row[v].sub # s) /\ Write(u, Blank(s))

\* A verified purchase.
Activate(u) ==
  \E x \in Txns :
    /\ \A v \in DOMAIN row \ {u} : row[v].txn # x
    /\ Write(u, [row[u] EXCEPT !.status = "premium", !.txn = x])

\* A notification of the App Store.
Notify(u) ==
  /\ row[u].txn # Nil
  /\ \E s \in Statuses : Write(u, [row[u] EXCEPT !.status = s])

\* A free voice parse out of the quota of s, stamped with t.
Count(u) ==
  \E s, t \in Times :
    /\ row[u].status = "free" /\ Used(row[u], s) < Limit
    /\ s <= t /\ (row[u].parsedAt # Nil => row[u].parsedAt <= s)
    /\ Write(u, [row[u] EXCEPT !.count = Used(row[u], s) + 1, !.parsedAt = t])

Close(u) ==
  /\ row' = Restrict(row, DOMAIN row \ {u})
  /\ past' = past \cup {u}

Next ==
  \/ \E u \in Ids : Open(u)
  \/ \E u \in DOMAIN row : Activate(u) \/ Notify(u) \/ Count(u) \/ Close(u)

Spec == Init /\ [][Next]_<<row, past>>

----------------------------------------------------------------------------
(* What a ledger so kept guarantees: a closed account has no row, one that *)
(* is premium has paid, no two share an identity or a transaction, and     *)
(* none has had more free parses of a day than there are (VoiceParseLimit).*)
Sound ==
  /\ DOMAIN row \cap past = {}
  /\ \A u \in DOMAIN row :
       /\ row[u] \in Row
       /\ row[u].status = "premium" => row[u].txn # Nil
       /\ \A v \in DOMAIN row \ {u} :
            /\ row[v].sub # row[u].sub
            /\ row[v].txn = row[u].txn => row[u].txn = Nil
=============================================================================
