CONSTANTS
  t1 = t1
  t2 = t2
  t3 = t3
  a = a
  Null = Null
  NoOne = NoOne
  Threads = {t1, t2, t3}
  Msgs = {a, Null}
  Cap = 1
  MaxLen = 0
  InterpTasks = {t3}
SYMMETRY Symmetry
SPECIFICATION Spec
INVARIANTS TypeOK LockDiscipline NoLostWakeup PairOkIsRight
PROPERTIES ClosedForGood ImplementsFifo
