SPECIFICATION Spec
CONSTANTS
  Task = {t1, t2}
  NULL = NULL
  ALIGN = 2
  HEADER = 4
  PAGE_SIZE = 16
  HEAP_INIT_PAGES = 1
  TABLE_PAGES = 2
  FRAMES = 3
  Request = {0, 3, 9, 20}
CHECK_DEADLOCK FALSE
SYMMETRY Symmetry
INVARIANTS
  HeapIsSound
  UsedBytesAreHeld
  CopyFits
PROPERTY ImplementsAllocator
