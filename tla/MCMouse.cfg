SPECIFICATION Spec
CONSTANTS
  ScreenW = 3
  ScreenH = 2
  Delta <- MCDelta
  Buttons <- MCButtons
  MaxGlitches = 2
INVARIANTS
  AlignedReportIsApplied
  UnmistakableReportRealigns
PROPERTY EventsTellAll
