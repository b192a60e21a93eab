SPECIFICATION MSpec
CONSTANTS
  Width = 5
  Height = 5
  CH_W = 2
  CH_H = 2
  Char = {"a"}
  Glyph <- MCGlyph
  Theme <- MCTheme
  PanicTheme <- MCPanicTheme
  Shade <- MCShade
  MaxText = 5
  Point <- MCPoint
  CurW = 2
  CurH = 2
  Shape <- MCShape
  Button = {"l", "r"}
  Left = "l"
  Box <- MCBox
  Boxes <- MCBoxes
  Scene <- MCScene
  White <- MCWhite
  Yellow = 101
  Black <- MCBlack
  Green = 103
  Gray = 104
INVARIANTS
  ScreenShowsTheText
  NoTrail
PROPERTY CursorCatchesUp
