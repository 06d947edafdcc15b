SPECIFICATION Spec
CONSTANTS
  Nil = Nil
  Subs = {s1}
  Txns = {x1}
  Clients = {c1, c2}
  Ops <- LastingOps
  NoticeTypes <- RefundNotices
  VoiceParseLimit = 2
  EnforceFK = TRUE
  Times = {0, 25}
  MaxUsers = 1
  MaxTokens = 2
  MaxCount = 2
  MaxNotices = 2
  MaxFaults = 1
INVARIANTS StatusFollowsStore QuotaExact
PROPERTY ImplementsLedger
SYMMETRY Symmetry
CHECK_DEADLOCK FALSE
