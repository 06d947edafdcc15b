SPECIFICATION Spec
CONSTANTS
  Nil = Nil
  Users = {u1}
  Devices = {}
  Requests = {r1, r2, r3}
  Forms <- WriterForms
  RetryLimit = 1
  BatchSize = 1
  DefaultOffset = 1
  EnforceFK = FALSE
  MaxOffsets = 2
  MaxTime = 2
  MaxFaults = 1
INVARIANTS TypeOK RemindersMatchEvent ListingsMeet
SYMMETRY Symmetry
CHECK_DEADLOCK FALSE
