SPECIFICATION Spec
CONSTANTS
  NULL = NULL
  Task = {boot, t1, t2, t3}
  Stack = {s1, s2, s3}
  Boot = boot
  MaxTid = 5
SYMMETRY Symmetry
INVARIANT ExitedTaskIsReclaimable
