SPECIFICATION Spec
CONSTANTS
  Nil = Nil
  Subs = {s1, s2}
  Txns = {x1}
  Clients = {c1, c2}
  Ops <- SubscriptionOps
  NoticeTypes <- SomeNotices
  VoiceParseLimit = 0
  EnforceFK = TRUE
  Times = {0}
  MaxUsers = 2
  MaxTokens = 2
  MaxCount = 1
  MaxNotices = 3
  MaxFaults = 0
INVARIANTS StatusFollowsStore PremiumHasTransaction
PROPERTY TransactionKept
SYMMETRY Symmetry
CHECK_DEADLOCK FALSE
