SPECIFICATION Spec
CONSTANTS
  Nil = Nil
  Subs = {s1}
  Txns = {x1}
  Clients = {c1}
  Ops <- SubscriptionOps
  NoticeTypes <- SomeNotices
  VoiceParseLimit = 2
  EnforceFK = TRUE
  Times = {0, 25}
  MaxUsers = 1
  MaxTokens = 2
  MaxCount = 3
  MaxNotices = 2
  MaxFaults = 0
INVARIANTS LapsedIsFree
CHECK_DEADLOCK FALSE
