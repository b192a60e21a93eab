-------------------------------- MODULE Gfx --------------------------------
(***************************************************************************)
(* The drawing operations of src/gui/gfx.c.  A buffer is a function from   *)
(* the screen's pixels <<x, y>> to colours; an operation gives the buffer  *)
(* after it.  Where the code cuts a rectangle at the screen's edge, the    *)
(* rectangle is its intersection with the screen.                          *)
(***************************************************************************)
EXTENDS Integers

CONSTANTS
  Width, Height  \* of the screen, in pixels

ASSUME GfxAssumption == Width \in Nat \ {0} /\ Height \in Nat \ {0}

Pixel == (0..Width-1) \X (0..Height-1)
Rect(x, y, w, h) == {p \in Pixel : p[1] \in x..x+w-1 /\ p[2] \in y..y+h-1}

gfx_fill_rect(fb, x, y, w, h, argb) ==
  [p \in Pixel |-> IF p \in Rect(x, y, w, h) THEN argb ELSE fb[p]]
gfx_clear(argb) == [p \in Pixel |-> argb]

gfx_scroll_up_NoFill(fb, dy, argb) ==
  [p \in Pixel |-> IF p[2] + dy < Height THEN fb[<<p[1], p[2] + dy>>] ELSE fb[p]]
gfx_scroll_up(fb, dy, argb) ==
  [p \in Pixel |-> IF p[2] + dy < Height THEN fb[<<p[1], p[2] + dy>>] ELSE argb]

(* From the back buffer to a block of w columns and h rows, and back.  Only *)
(* the way back is cut at the edge.                                         *)
gfx_copy_out(fb, x, y, w, h) ==
  [q \in (0..w-1) \X (0..h-1) |-> fb[<<x + q[1], y + q[2]>>]]
gfx_blit(fb, src, x, y, w, h) ==
  [p \in Pixel |-> IF p \in Rect(x, y, w, h) THEN src[<<p[1] - x, p[2] - y>>]
                   ELSE fb[p]]

(* A glyph is the set of its lit pixels.                                   *)
gfx_char(fb, glyph, x, y, w, h, fg, bg) ==
  [p \in Pixel |-> IF p \in Rect(x, y, w, h)
                   THEN IF <<p[1] - x, p[2] - y>> \in glyph THEN fg ELSE bg
                   ELSE fb[p]]

(* From the back buffer fb to the screen hw.                               *)
gfx_present_rect(hw, fb, x, y, w, h) ==
  [p \in Pixel |-> IF p \in Rect(x, y, w, h) THEN fb[p] ELSE hw[p]]
=============================================================================
