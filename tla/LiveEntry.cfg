SPECIFICATION Spec
CONSTANTS
  MaxRetries = 2
  LostAnswers = {"entry", "sl", "tp", "cancel", "close"}
  Repeatable = {"entry", "close"}
  MaxEntries = 2
  MaxCrashes = 1
INVARIANTS
  TypeOK
  NakedAccounted
  StopsAccounted
  NeverOverfilled
PROPERTIES
  AtomicPromise
CHECK_DEADLOCK FALSE
