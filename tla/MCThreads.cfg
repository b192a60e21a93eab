SPECIFICATION TSpec
CONSTANTS
  NULL = NULL
  Task = {boot, t1, t2}
  Stack = {s1, s2}
  Boot = boot
  MaxTid = 4
  Workers = 3
  Rounds = 2
  Tries = 2
  WorkerTicks = 2
  WaitTicks = 1
INVARIANT ReportsAfterTheLastLine
PROPERTY CommandEnds
