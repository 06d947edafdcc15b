----------------------------- MODULE MCAccounts ------------------------------
(***************************************************************************)
(* Small instances of Accounts for TLC.                                    *)
(***************************************************************************)
EXTENDS Accounts, TLC

SessionOps == {"login", "refresh", "logout", "delete"}
SubscriptionOps == {"login", "delete", "verify", "webhook", "voice"}

\* Without deletion, which the other instances have.
LastingOps == SubscriptionOps \ {"delete"}

NoNotices == {}
SomeNotices == {"SUBSCRIBED", "EXPIRED", "REFUND"}
RefundNotices == {"SUBSCRIBED", "REFUND"}

\* A session older than its refresh token's thirty days.
SessionTimes == {0, 721}

\* 09:00 and 23:00 in Korea, and 01:00 and 10:00 of the next day.
SubscriptionTimes == {0, 14, 16, 25}

Symmetry == Permutations(Clients) \cup Permutations(Subs)
=============================================================================
