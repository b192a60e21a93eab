------------------------------- MODULE Console -------------------------------
(***************************************************************************)
(* The text console of src/drivers/fb.c on the drawing operations of       *)
(* src/gui/gfx.c: the shell's colours and texts, and the panic screen of   *)
(* src/cpu/panic.c, which may cut into the middle of a character.          *)
(*                                                                         *)
(* An exception comes between any two writes; what it leaves undone only   *)
(* shows at the boundary of an operation on a whole buffer, so putchar is  *)
(* cut there.  Cursor extends this module: the shell runs the mouse demo.   *)
(***************************************************************************)
EXTENDS Gfx, Sequences

CONSTANTS
  CH_W, CH_H,  \* size of a cell
  Char,        \* the characters that have a glyph
  Glyph,       \* character -> set of lit pixels
  Theme,       \* the pairs [fg, bg] that the themes and the start give
  PanicTheme,  \* white on dark red
  Shade,       \* the foregrounds that the prompt sets
  MaxText      \* bound: how much is printed between two clearings

ASSUME ConsoleAssumption ==
  /\ CH_W \in 1..Width /\ CH_H \in 1..Height
  /\ MaxText \in Nat
  /\ Char \cap {"newline", "return", "backspace"} = {}

VARIABLES
  double,        \* the back buffer could be allocated
  fb, hw,        \* back buffer and screen
  cur_x, cur_y,  \* the cell of the next character
  con_fg, con_bg,
  pc,            \* how far putchar has come
  char,          \* its argument
  page,          \* history: what was printed since the last clearing
  dead           \* panic runs

screen == <<double, fb, hw, cur_x, cur_y, con_fg, con_bg, pc, char, page, dead>>
buffers == <<fb, hw>>
colours == <<con_fg, con_bg>>

NL == "newline"
CR == "return"
BS == "backspace"

Cols == Width \div CH_W
Rows == Height \div CH_H

(* A drawing goes to the back buffer, or straight to the screen if there   *)
(* is none.  A present does nothing in that case.                          *)
Draw(buffer) == fb' = buffer /\ hw' = IF double THEN hw ELSE buffer
Present(x, y, w, h) == hw' = gfx_present_rect(hw, fb, x, y, w, h) /\ UNCHANGED fb

(* gfx_backbuffer_init cleared the back buffer and kmain the screen.       *)
CInit ==
  /\ double \in BOOLEAN
  /\ \E t \in Theme :
       /\ con_fg = t.fg /\ con_bg = t.bg
       /\ fb = gfx_clear(t.bg) /\ hw = fb
  /\ cur_x = 0 /\ cur_y = 0
  /\ pc = "idle" /\ char = NL /\ page = <<>> /\ dead = FALSE

(* putchar begins: what it draws.                                          *)
Begin ==
  /\ pc = "idle" /\ Len(page) < MaxText
  /\ char' \in Char \cup {NL, CR, BS}
  /\ page' = Append(page, [char |-> char', fg |-> con_fg])
  /\ CASE char' = NL ->
            cur_x' = 0 /\ cur_y' = cur_y + 1 /\ pc' = "scroll" /\ UNCHANGED buffers
       [] char' = CR ->
            cur_x' = 0 /\ pc' = "scroll" /\ UNCHANGED <<cur_y, buffers>>
       [] char' = BS ->
            /\ cur_x' = IF cur_x > 0 THEN cur_x - 1 ELSE 0
            /\ Draw(gfx_fill_rect(fb, cur_x' * CH_W, cur_y * CH_H, CH_W, CH_H, con_bg))
            /\ pc' = "present" /\ UNCHANGED cur_y
       [] OTHER ->
            /\ Draw(gfx_char(fb, Glyph[char'], cur_x * CH_W, cur_y * CH_H,
                             CH_W, CH_H, con_fg, con_bg))
            /\ pc' = "present" /\ UNCHANGED <<cur_x, cur_y>>
  /\ UNCHANGED <<double, colours, dead>>

PresentCell ==
  /\ pc = "present"
  /\ Present(cur_x * CH_W, cur_y * CH_H, CH_W, CH_H)
  /\ IF char = BS THEN UNCHANGED <<cur_x, cur_y>>
     ELSE IF cur_x + 1 >= Cols THEN cur_x' = 0 /\ cur_y' = cur_y + 1
     ELSE cur_x' = cur_x + 1 /\ UNCHANGED cur_y
  /\ pc' = "scroll"
  /\ UNCHANGED <<double, colours, char, page, dead>>

(* The loop with con_scroll.                                               *)
Scroll ==
  /\ pc = "scroll" /\ cur_y >= Rows
  /\ Draw(gfx_scroll_up(fb, CH_H, con_bg))
  /\ pc' = "scrolled"
  /\ UNCHANGED <<double, cur_x, cur_y, colours, char, page, dead>>
PresentScrolled ==
  /\ pc = "scrolled"
  /\ Present(0, 0, Width, Height)
  /\ cur_y' = cur_y - 1 /\ pc' = "scroll"
  /\ UNCHANGED <<double, cur_x, colours, char, page, dead>>
End ==
  /\ pc = "scroll" /\ cur_y < Rows
  /\ pc' = "idle"
  /\ UNCHANGED <<double, buffers, cur_x, cur_y, colours, char, page, dead>>

clear_screen(bg) ==
  /\ fb' = gfx_clear(bg) /\ hw' = fb'
  /\ cur_x' = 0 /\ cur_y' = 0
  /\ page' = <<>>

(* The shell's "clear" and "theme", and the start of its colours.          *)
SetTheme ==
  /\ pc = "idle" /\ ~ dead /\ page # <<>>
  /\ \E t \in Theme : con_fg' = t.fg /\ con_bg' = t.bg
  /\ clear_screen(con_bg')
  /\ UNCHANGED <<double, pc, char, dead>>
ClearCommand ==
  /\ pc = "idle" /\ ~ dead /\ page # <<>>
  /\ clear_screen(con_bg)
  /\ UNCHANGED <<double, colours, pc, char, dead>>
Prompt ==
  /\ pc = "idle" /\ ~ dead
  /\ con_fg' \in Shade
  /\ UNCHANGED <<double, buffers, cur_x, cur_y, con_bg, pc, char, page, dead>>

(* An exception, whatever the console was doing: panic prints from the     *)
(* start.                                                                  *)
Panic ==
  /\ ~ dead
  /\ dead' = TRUE /\ pc' = "idle"
  /\ con_fg' = PanicTheme.fg /\ con_bg' = PanicTheme.bg
  /\ clear_screen(con_bg')
  /\ UNCHANGED <<double, char>>

putchar == Begin \/ PresentCell \/ Scroll \/ PresentScrolled \/ End
Halted == dead /\ pc = "idle" /\ UNCHANGED screen
Commands == SetTheme \/ ClearCommand \/ Prompt

-----------------------------------------------------------------------------
(***************************************************************************)
(* What a console should show: the text is laid out on a page without end, *)
(* and the screen is a window on the page that ends where the text came to *)
(* lowest.  Nothing is cut from the page.                                  *)
(***************************************************************************)
Put(cells, c, item) ==
  [cell \in DOMAIN cells \cup {c} |-> IF cell = c THEN item ELSE cells[cell]]
Erase(cells, c) == [cell \in DOMAIN cells \ {c} |-> cells[cell]]
Written(sheet, item) ==
  LET x == sheet.x
      y == sheet.y
      left == IF x > 0 THEN x - 1 ELSE 0
  IN  CASE item.char = NL -> [x |-> 0, y |-> y + 1, cells |-> sheet.cells]
        [] item.char = CR -> [x |-> 0, y |-> y, cells |-> sheet.cells]
        [] item.char = BS ->
             [x |-> left, y |-> y, cells |-> Erase(sheet.cells, <<left, y>>)]
        [] OTHER ->
             [x |-> (x + 1) % Cols, y |-> y + (x + 1) \div Cols,
              cells |-> Put(sheet.cells, <<x, y>>, item)]
Blank == [x |-> 0, y |-> 0, cells |-> <<>>]
Layout(text) ==
  LET sheet[n \in 0..Len(text)] ==
        IF n = 0 THEN Blank ELSE Written(sheet[n - 1], text[n])
  IN  sheet[Len(text)]
Sheet == Layout(page)

(* The screen when row top of the page is its first.                       *)
Shown(cells, cell, dot, bg) ==
  IF cell \in DOMAIN cells /\ dot \in Glyph[cells[cell].char]
  THEN cells[cell].fg ELSE bg
View(cells, top, bg) ==
  [p \in Pixel |-> Shown(cells, <<p[1] \div CH_W, p[2] \div CH_H + top>>,
                         <<p[1] % CH_W, p[2] % CH_H>>, bg)]
Window ==
  View(Sheet.cells, IF Sheet.y < Rows THEN 0 ELSE Sheet.y - Rows + 1, con_bg)

(***************************************************************************)
(* The inductive invariant behind it.  Wraps: the character that is drawn  *)
(* is the last of its row.  Top: the rows that were scrolled away.         *)
(***************************************************************************)
Wraps == IF pc = "present" /\ char # BS /\ cur_x + 1 >= Cols THEN 1 ELSE 0
Top == Sheet.y - cur_y - Wraps
Ink == {t.fg : t \in Theme} \cup Shade \cup {PanicTheme.fg}
Item == [char : Char \cup {NL, CR, BS}, fg : Ink]

(* Where the next character goes, on the screen and on the page.           *)
PlaceInv ==
  /\ cur_x \in 0..Cols-1 /\ cur_y \in 0..Rows /\ Sheet.y \in Nat /\ Top \in Nat
  /\ Top = 0 \/ cur_y >= Rows - 1
  /\ pc = "present" /\ char # BS => Sheet.x = (cur_x + 1) % Cols
  /\ pc # "present" \/ char = BS => Sheet.x = cur_x
  /\ pc \in {"idle", "present"} => cur_y < Rows
  /\ pc = "scrolled" => cur_y = Rows

(* Nothing is on the page below the row that is written.                   *)
CellsInv ==
  \A cell \in DOMAIN Sheet.cells :
    /\ cell \in (0..Cols-1) \X (0..Sheet.y - Wraps)
    /\ cur_y = Rows => cell[2] < Sheet.y

BuffersInv ==
  /\ fb = View(Sheet.cells, IF pc = "scrolled" THEN Top + 1 ELSE Top, con_bg)
  /\ pc \in {"idle", "scroll"} => hw = fb
  /\ pc = "present" =>
       \A p \in Pixel \ Rect(cur_x * CH_W, cur_y * CH_H, CH_W, CH_H) : hw[p] = fb[p]

ConsoleInv ==
  /\ page \in Seq(Item) /\ con_fg \in Ink
  /\ pc \in {"idle", "present", "scroll", "scrolled"}
  /\ PlaceInv /\ CellsInv
=============================================================================
