CHECK_DEADLOCK FALSE
CONSTANTS
  g1 = g1
  g2 = g2
  main = main
  None = None
  Gens = {g1, g2}
  Calls <- SharedInner
  MaxChans = 4
  InUse = {0, 1, 2, 3, 4}
  MaxYields = 3
SPECIFICATION FairSpec
INVARIANTS ScopeIsMine InOrder ThrowReachesCaller
PROPERTIES NextAlwaysReturns
