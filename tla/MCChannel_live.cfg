CONSTANTS
  t1 = t1
  t3 = t3
  a = a
  Null = Null
  NoOne = NoOne
  Threads = {t1, t3}
  Msgs = {a}
  Cap = 1
  MaxLen = 0
  InterpTasks = {t3}
SPECIFICATION FairSpec
PROPERTIES CloseReleasesAll CancelReleasesRecv
