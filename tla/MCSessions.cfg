SPECIFICATION Spec
CONSTANTS
  Nil = Nil
  Subs = {s1, s2}
  Txns = {}
  Clients = {c1, c2}
  Ops <- SessionOps
  NoticeTypes <- NoNotices
  VoiceParseLimit = 1
  EnforceFK = FALSE
  Times <- SessionTimes
  MaxUsers = 2
  MaxTokens = 3
  MaxCount = 3
  MaxNotices = 0
  MaxFaults = 1
INVARIANTS TypeOK ForkOnlyByRace ExchangedIsRevoked DeletedLeavesNothing
SYMMETRY Symmetry
CHECK_DEADLOCK FALSE
