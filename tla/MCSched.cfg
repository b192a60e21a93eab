SPECIFICATION FairSpec
CONSTANTS
  NULL = NULL
  Task = {boot, t1, t2, t3}
  Stack = {s1, s2}
  Boot = boot
  MaxTid = 5
INVARIANTS
  RingIsOneCycle
  NoUseAfterFree
  InterruptDiscipline
PROPERTIES
  FreesOnlyDead
  DeadStaysDead
  EveryReadyTaskRuns
  ZombieIsReaped
  ImplementsRoundRobin
