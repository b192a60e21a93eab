SPECIFICATION Spec
CONSTANTS
  Index <- MCIndex
  KernelIndex <- MCKernelIndex
  Page <- MCPage
  Fixed <- MCFixed
  Frame <- MCFrame
  None = None
  LimineTables <- MCLimineTables
  LimineRoot = 1
  FreeFrames <- MCFreeFrames
  MaxData = 2
INVARIANTS
  TablesAreSound
  TlbIsCoherent
PROPERTY ImplementsAddressSpace
