CONSTANTS
  t1 = t1
  a = a
  b = b
  NoVal = NoVal
  None = None
  Tables = {t1}
  Vals = {a, b}
  InitCap = 1
  Schemas <- StrictColumn
  MaxRowid <- TwoRows
  MaxFaults = 1
SPECIFICATION Spec
INVARIANTS TypeOK Integrity ConstraintsHold
PROPERTIES ReopenFindsSaved
