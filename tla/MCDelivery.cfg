SPECIFICATION FairSpec
CONSTANTS
  Nil = Nil
  Users = {u1}
  Devices = {d1, d2}
  Requests = {r1, r2}
  Forms <- DeliveryForms
  RetryLimit = 2
  BatchSize = 1
  DefaultOffset = 1
  EnforceFK = TRUE
  MaxOffsets = 1
  MaxTime = 1
  MaxFaults = 1
INVARIANTS AttemptsBounded NeverEarly
PROPERTIES DueReminderSettles ImplementsLifecycle SettledIsFinal NoneForgotten PassAdvances
CHECK_DEADLOCK FALSE
