------------------------------- MODULE Cursor -------------------------------
(***************************************************************************)
(* The mouse demo: cmd_mouse of src/kernel/kernel.c, which redraws the     *)
(* cursor every 10 ms while the mouse interrupt moves the pointer.         *)
(*                                                                         *)
(* cmd_mouse reads the pointer's column, its row and its buttons one after *)
(* the other with interrupts on, so a report may come between two reads.   *)
(* The demo draws on the console's buffers: it is started by the shell and *)
(* gives the screen back, and an exception may end it at any point.        *)
(* Nothing else looks at the buffers meanwhile: a redraw is one step.      *)
(*                                                                         *)
(* Outside the demo nothing reads the pointer: mouse, like the locals, is  *)
(* kept only in it.                                                        *)
(***************************************************************************)
EXTENDS Console

CONSTANTS
  Point,       \* bound: where the pointer gets to: [x, y]
  CurW, CurH,  \* size of the cursor
  Shape,       \* its opaque pixels: <<column, row>> -> "edge" or "fill"
  Button,      \* the mouse's buttons
  Left,        \* the one that colours the cursor
  Box,         \* where each button's state is shown: button -> [x, y, w, h]
  Boxes,       \* the rectangle that encloses the boxes
  Scene,       \* the pixels that are drawn once: <<column, row>> -> colour
  White, Yellow, Black, Green, Gray

ASSUME CursorAssumption ==
  /\ CurW \in 1..Width /\ CurH \in 1..Height
  /\ Left \in Button
  /\ DOMAIN Shape \subseteq (0..CurW-1) \X (0..CurH-1)
  /\ Point \subseteq [x : 0..Width-1, y : 0..Height-1]
  /\ \A b \in Button :
       Rect(Box[b].x, Box[b].y, Box[b].w, Box[b].h)
         \subseteq Rect(Boxes.x, Boxes.y, Boxes.w, Boxes.h)

VARIABLES
  mouse,    \* what mouse.c keeps: [x, y, buttons]
  at,       \* the next thing cmd_mouse does, or "off"
  mx, my,   \* its locals
  ox, oy, ob,
  under     \* the pixels that the cursor hides

demo == <<mouse, at, mx, my, ox, oy, ob, under>>
all == <<screen, demo>>
drawn == <<buffers, ox, oy, ob, under>>
console == <<double, cur_x, cur_y, con_fg, con_bg, pc, char, page, dead>>

MouseState == {[x |-> p.x, y |-> p.y, buttons |-> on] : p \in Point, on \in SUBSET Button}
Smaller(a, b) == IF a < b THEN a ELSE b
Colour(b, on) == IF b \in on THEN Green ELSE Gray

draw_btns(buffer, on) ==
  [p \in Pixel |->
     IF \E b \in Button : p \in Rect(Box[b].x, Box[b].y, Box[b].w, Box[b].h)
     THEN Colour(CHOOSE b \in Button :
                   p \in Rect(Box[b].x, Box[b].y, Box[b].w, Box[b].h), on)
     ELSE buffer[p]]

draw_cursor(buffer, x, y, on) ==
  [p \in Pixel |->
     LET q == <<p[1] - x, p[2] - y>>
     IN  IF q \notin DOMAIN Shape THEN buffer[p]
         ELSE IF Shape[q] = "edge" THEN Black
         ELSE IF Left \in on THEN Yellow ELSE White]

Unread == [x |-> 0, y |-> 0, buttons |-> {}]
Unsaved == [q \in (0..CurW-1) \X (0..CurH-1) |-> Black]

MInit ==
  /\ CInit
  /\ at = "off" /\ mouse = Unread /\ mx = 0 /\ my = 0
  /\ ox = -1 /\ oy = -1 /\ ob = {} /\ under = Unsaved

(* The demo begins: the scene is drawn and presented.  The pointer may be  *)
(* anywhere, and a button may be down already.  As a bound, it begins on   *)
(* a clear screen; a command runs with the colour white.                   *)
Start ==
  /\ at = "off" /\ pc = "idle" /\ ~ dead
  /\ page = <<>> /\ con_fg = White
  /\ fb' = draw_btns(Scene, {}) /\ hw' = fb'
  /\ mouse' \in MouseState
  /\ at' = "read_x"
  /\ UNCHANGED <<console, mx, my, ox, oy, ob, under>>

(* mouse_irq: a report moves the pointer and says what is pressed.         *)
Report ==
  /\ at # "off"
  /\ mouse' \in MouseState
  /\ UNCHANGED <<console, at, mx, my, drawn>>

ReadX ==
  /\ at = "read_x"
  /\ mx' = mouse.x
  /\ at' = "read_y"
  /\ UNCHANGED <<console, mouse, my, drawn>>

ReadY ==
  /\ at = "read_y"
  /\ my' = mouse.y
  /\ at' = "redraw"
  /\ UNCHANGED <<console, mouse, mx, drawn>>

(* The read of the buttons and what follows, up to sleep.                  *)
Moved_OneAxis(nx, ny) == nx # ox
Moved(nx, ny) == nx # ox \/ ny # oy
Changed_Presses(on) == on \ ob # {}
Changed(on) == on # ob

Boxed(on) ==
  IF Changed(on) THEN draw_btns(fb, on) ELSE fb
ScreenBoxed(on) ==
  IF Changed(on)
  THEN gfx_present_rect(hw, Boxed(on), Boxes.x, Boxes.y, Boxes.w, Boxes.h)
  ELSE hw

Redraw ==
  LET on == mouse.buttons
      nx == Smaller(mx, Width - CurW)
      ny == Smaller(my, Height - CurH)
      moved == Moved(nx, ny)
      lift == moved /\ ox >= 0
      fb1 == IF lift THEN gfx_blit(Boxed(on), under, ox, oy, CurW, CurH)
             ELSE Boxed(on)
      hw1 == IF lift THEN gfx_present_rect(ScreenBoxed(on), fb1, ox, oy, CurW, CurH)
             ELSE ScreenBoxed(on)
  IN  /\ at = "redraw"
      /\ IF moved \/ Changed(on)
         THEN /\ under' = IF moved \/ ox < 0
                          THEN gfx_copy_out(fb1, nx, ny, CurW, CurH) ELSE under
              /\ fb' = draw_cursor(fb1, nx, ny, on)
              /\ hw' = IF double THEN gfx_present_rect(hw1, fb', nx, ny, CurW, CurH)
                       ELSE fb'
              /\ ox' = nx /\ oy' = ny
         ELSE UNCHANGED <<under, fb, hw, ox, oy>>
      /\ ob' = on
      /\ at' = "asleep" /\ mx' = 0 /\ my' = 0
      /\ UNCHANGED <<console, mouse>>

(* sleep(10) is over, and no key has come.                                 *)
Wake ==
  /\ at = "asleep"
  /\ at' = "read_x"
  /\ UNCHANGED <<console, mouse, mx, my, drawn>>

(* A key ends the demo: the console gets the screen back.                  *)
Leave ==
  /\ at' = "off" /\ mouse' = Unread /\ mx' = 0 /\ my' = 0
  /\ ox' = -1 /\ oy' = -1 /\ ob' = {} /\ under' = Unsaved

EndDemo ==
  /\ at = "asleep"
  /\ clear_screen(con_bg)
  /\ Leave
  /\ UNCHANGED <<double, colours, pc, char, dead>>

(* An exception, in the demo or outside.                                   *)
Exception == Panic /\ Leave

Demo == ReadX \/ ReadY \/ Redraw \/ Wake
Shell == at = "off" /\ (putchar \/ Commands \/ Halted) /\ UNCHANGED demo
MNext == Shell \/ Start \/ Demo \/ EndDemo \/ Report \/ Exception

(* The demo goes round; nobody has to press a key or to touch the mouse.   *)
MSpec == MInit /\ [][MNext]_all /\ WF_all(Demo)

-----------------------------------------------------------------------------
(* When putchar has returned, the screen shows the end of the text, with   *)
(* or without a back buffer, on a screen whose edges cut cells, after the  *)
(* mouse demo, and also when the text is a panic's and the console or the  *)
(* demo was in the middle of something.                                    *)
ScreenShowsTheText == at = "off" /\ pc = "idle" => hw = Window

Cursor == IF ox < 0 THEN {} ELSE Rect(ox, oy, CurW, CurH)
BoxPixels == UNION {Rect(Box[b].x, Box[b].y, Box[b].w, Box[b].h) : b \in Button}

(* What pixel p shows without the cursor: the scene, or a button's box in  *)
(* one of its two colours.                                                 *)
Backdrop(p, colour) ==
  IF p \in BoxPixels THEN colour \in {Green, Gray} ELSE colour = Scene[p]

(* Between two redraws the screen shows the back buffer, and the cursor    *)
(* has left no trail: wherever it is not, there is the backdrop.           *)
NoTrail ==
  at # "off" => hw = fb /\ \A p \in Pixel \ Cursor : Backdrop(p, fb[p])

(* When the mouse comes to rest, the cursor comes to where it rests, torn  *)
(* reads or not, and has the colour of its left button.                    *)
Shows(m) ==
  LET x == Smaller(m.x, Width - CurW)
      y == Smaller(m.y, Height - CurH)
  IN  hw = draw_cursor(hw, x, y, m.buttons)
CursorCatchesUp ==
  \/ []<>(at = "off")
  \/ []<><<TRUE>>_mouse
  \/ <>[]Shows(mouse)

(* The inductive invariant behind NoTrail: the pixels that were saved are  *)
(* the backdrop of where the cursor is, and that is on the screen.         *)
TrailInv ==
  /\ <<mouse.x, mouse.y>> \in Pixel /\ <<mx, my>> \in Pixel
  /\ \/ ox = -1
     \/ /\ at # "off"
        /\ ox \in 0..Width-CurW /\ oy \in 0..Height-CurH
        /\ \A q \in (0..CurW-1) \X (0..CurH-1) :
             Backdrop(<<ox + q[1], oy + q[2]>>, under[q])
  /\ NoTrail

(* The inductive invariant behind ScreenShowsTheText.                      *)
TextInv ==
  /\ ConsoleInv
  /\ IF at = "off" THEN BuffersInv ELSE page = <<>> /\ pc = "idle"
=============================================================================
