------------------------------ MODULE MCScreen ------------------------------
(* An instance of Cursor, and with it of Console, for TLC: two cells by    *)
(* two, and a strip of pixels left over at the right and at the bottom.    *)
(* Colours are numbers.  Each pixel of the scene has a colour of its own,  *)
(* so that a pixel put back in the wrong place shows.                      *)
EXTENDS Cursor, TLC

MCScene == [p \in Pixel |-> p[2] * Width + p[1]]
Red == 105
MCWhite == 100
MCBlack == 102

MCGlyph == [c \in {"a"} |-> {<<0, 0>>, <<1, 1>>}]
MCTheme == {[fg |-> MCWhite, bg |-> MCBlack], [fg |-> Red, bg |-> 107]}
MCPanicTheme == [fg |-> MCWhite, bg |-> Red]
MCShade == {MCWhite, Red}

MCPoint == {[x |-> 1, y |-> 1], [x |-> 4, y |-> 4]}
MCShape == <<0, 0>> :> "edge" @@ <<0, 1>> :> "fill"
MCBox == [l |-> [x |-> 0, y |-> 0, w |-> 1, h |-> 1],
          r |-> [x |-> 2, y |-> 0, w |-> 1, h |-> 1]]
MCBoxes == [x |-> 0, y |-> 0, w |-> 3, h |-> 1]
=============================================================================
