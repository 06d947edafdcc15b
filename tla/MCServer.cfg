SPECIFICATION FairSpec
CONSTANTS
  Calls = {r1, r2}
  MaxRetries = 3
  LLMTimeout = 6
  Grace = 1
INVARIANTS TypeOK OverInTime NotLongAlone StopsInTime OnlyLongCallsCut
PROPERTIES CallsEnd ImplementsService
