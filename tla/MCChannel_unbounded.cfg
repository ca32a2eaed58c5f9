CONSTANTS
  t1 = t1
  t2 = t2
  t3 = t3
  a = a
  Null = Null
  NoOne = NoOne
  Threads = {t1, t2, t3}
  Msgs = {a, Null}
  Cap = 0
  MaxLen = 2
  InterpTasks = {t3}
SYMMETRY Symmetry
SPECIFICATION Spec
PROPERTIES ImplementsFifo
