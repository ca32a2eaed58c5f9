CONSTANTS
  Decorators <- Kinds
  Signals <- IntTerm
  InitialCap = 1
  MaxEntries = 2
  MaxTime = 3
  MaxEvents = 2
  MaxCount = 3
  MaxDepth = 1
SPECIFICATION FairSpec
INVARIANTS OnceIsOnce NeverAhead NothingLost ExitHandlersRan
PROPERTIES FailureStops SignalsServed
CHECK_DEADLOCK FALSE
