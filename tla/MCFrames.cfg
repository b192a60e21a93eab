SPECIFICATION Spec
CONSTANTS
  MemoryMaps <- MCMemoryMaps
  PAGE_SIZE = 1
  NULL = NULL
INVARIANTS
  UsedFramesIsExact
  BitmapIsNotGivenAway
PROPERTY ImplementsFramePool
