SPECIFICATION Spec
CONSTANTS
  Nil = Nil
  Users = {u1}
  Devices = {d1}
  Requests = {r1}
  Forms <- DeliveryForms
  RetryLimit = 2
  BatchSize = 1
  DefaultOffset = 1
  EnforceFK = TRUE
  MaxOffsets = 1
  MaxTime = 1
  MaxFaults = 0
INVARIANTS SentMeansHandled
CHECK_DEADLOCK FALSE
