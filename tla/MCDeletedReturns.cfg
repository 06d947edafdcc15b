SPECIFICATION Spec
CONSTANTS
  Nil = Nil
  Subs = {s1}
  Txns = {}
  Clients = {c1, c2}
  Ops <- SessionOps
  NoticeTypes <- NoNotices
  VoiceParseLimit = 1
  EnforceFK = TRUE
  Times = {0}
  MaxUsers = 2
  MaxTokens = 3
  MaxCount = 3
  MaxNotices = 0
  MaxFaults = 0
INVARIANTS DeletedStaysDeleted
CHECK_DEADLOCK FALSE
