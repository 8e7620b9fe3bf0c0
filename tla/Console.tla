-------------------------------- MODULE Console --------------------------------
(***************************************************************************)
(* The text console of libc/vga.cpp and the three parties that write on    *)
(* it: the kernel's text (with interrupts off while it boots, then panic's *)
(* text with interrupts on, OS/main.cpp:90), the keyboard's echo and the   *)
(* two spinners of the timer and clock handlers.                           *)
(*                                                                         *)
(* The cursor lives in the video chip, behind an index register and a data *)
(* port.  One action of the kernel is one access to a port or to a cell of *)
(* the screen; a handler runs with interrupts off (module Interrupts,      *)
(* NoNesting) and is one action, possible between any two of them.         *)
(***************************************************************************)
EXTENDS Integers, Sequences, FiniteSetsExt

CONSTANTS
  Width, Height,  \* VGA_WIDTH, VGA_HEIGHT
  Byte,           \* values of one cursor register (256)
  Starts,         \* where the BIOS may have left the cursor
  Letters,        \* what is printed besides the control characters
  BootText,       \* what SYSTEM::Init and main print with interrupts off
  PanicText,      \* what panic prints
  ScanCodes,      \* keys that may be pressed
  Presses         \* bound: how many are
ASSUME ConsoleAssumption ==
  /\ Width \in Nat \ {0, 1, 2} /\ Height \in Nat \ {0, 1} /\ Byte \in Nat \ {0}
  /\ Byte * Byte >= Width * Height /\ Starts \subseteq 0 .. Width * Height - 1
  /\ {BootText, PanicText} \subseteq Seq(Letters \cup {"nl", "cr", "bs"})
  /\ "spinner" \notin Letters    \* the mark the spinners leave

LOW == 0   \* 0x0f, the register of the cursor's low byte
HIGH == 1  \* 0x0e

VARIABLES
  cells,           \* the characters on the screen
  index, cursor,   \* the chip's index register and its two cursor registers
  pc, ch, byte, x, y,  \* the kernel's putc: next access and locals
  todo,            \* what it still has to print
  at,              \* next cell of screen_scroll
  iflag, presses,
  start, said, tear  \* history: first position, text put, worst moment of an echo

chip == <<index, cursor>>
locals == <<ch, byte, x, y>>
history == <<start, said, tear>>
vars == <<cells, chip, pc, locals, todo, at, iflag, presses, history>>

Cells == 0 .. Width * Height - 1
Offset(c) == c[HIGH] * Byte + c[LOW]
Registers(p) == LET o == p.y * Width + p.x IN
  [r \in {LOW, HIGH} |-> IF r = LOW THEN o % Byte ELSE (o \div Byte) % Byte]

Init ==
  /\ start \in Starts
  /\ cells = [c \in Cells |-> "old"]
  /\ index = LOW /\ cursor = Registers([x |-> start % Width, y |-> start \div Width])
  /\ pc = "getx_select_low" /\ ch = "nl" /\ byte = 0 /\ x = 0 /\ y = 0 /\ at = 0
  /\ todo = BootText /\ iflag = FALSE /\ presses = Presses
  /\ said = <<>> /\ tear = 0

-------------------------------------------------------------------------------
(* Where a character goes *)

\* Mutant: the last line is left without scrolling.
Line_below(p) ==
  [x |-> 0, y |-> p.y + 1, scroll |-> p.y >= Height - 1]

Line(p) ==
  [x |-> 0, y |-> IF p.y >= Height - 1 THEN p.y ELSE p.y + 1, scroll |-> p.y >= Height - 1]

\* Mutant: the last column is used for text.
Wrap_late(p) == IF p.x >= Width THEN Line(p) ELSE [x |-> p.x, y |-> p.y, scroll |-> FALSE]
Wrap(p) == IF p.x >= Width - 1 THEN Line(p) ELSE [x |-> p.x, y |-> p.y, scroll |-> FALSE]

Control(c) == c \in {"cr", "nl"}
Glyph(c) == IF c = "bs" THEN "blank" ELSE c

\* putchar up to the cell it writes: the control characters, a full line.
Place(p, c) ==
  CASE c = "cr" -> [x |-> 0, y |-> p.y, scroll |-> FALSE]
    [] c = "nl" -> Line(p)
    [] c = "bs" -> Wrap([x |-> Max({p.x - 1, 0}), y |-> p.y])
    [] OTHER -> Wrap(p)

\* A store to a cell; below the screen nothing of it is seen.
Store(s, p, c) ==
  IF p.y * Width + p.x \in Cells THEN [s EXCEPT ![p.y * Width + p.x] = c] ELSE s

Scrolled(s) == [c \in Cells |-> IF c + Width \in Cells THEN s[c + Width] ELSE "blank"]

-------------------------------------------------------------------------------
(* The handlers *)

\* The characters decode may return; 0x1B reads past "qwertzuiop".
decode(code) ==
  CASE code = 28 -> {"nl"}
    [] code = 14 -> {"cr"}
    [] code = 27 -> {"none", "nl", "cr", "bs", "key"}
    [] code \in {57, 180, 181, 41} \cup (2 .. 10) \cup (16 .. 25) \cup (30 .. 38) \cup (44 .. 50) -> {"key"}
    [] OTHER -> {"none"}

\* The accesses between which the two registers of the cursor belong together.
Paired == {"getx_read_low", "getx_select_high", "getx_read_high",
           "gety_read_low", "gety_select_high", "gety_read_high",
           "gotoxy_write_low", "gotoxy_select_high", "gotoxy_write_high"}
Between == {"getx_select_low", "halt"}

\* KBD::irq_handler: a whole putc at the cursor the chip holds.
Echo(code) ==
  /\ iflag /\ presses > 0 /\ presses' = presses - 1
  /\ \E c \in decode(code) \ {"none"} :
       LET place == Place([x |-> Offset(cursor) % Width, y |-> Offset(cursor) \div Width], c)
           clear == IF place.scroll THEN Scrolled(cells) ELSE cells
           next == IF Control(c) THEN place ELSE Wrap([x |-> place.x + 1, y |-> place.y])
           drawn == IF Control(c) THEN clear ELSE Store(clear, place, Glyph(c))
       IN /\ cells' = IF next.scroll /\ ~Control(c) THEN Scrolled(drawn) ELSE drawn
          /\ index' = HIGH /\ cursor' = Registers(next)
          /\ said' = Append(said, c)
  /\ tear' = Max({tear, IF pc \in Between THEN 0 ELSE IF pc \in Paired THEN 2 ELSE 1})
  /\ UNCHANGED <<pc, locals, todo, at, iflag, start>>

\* setchar from PIT::irq_handler (row 0) and RTC::int_handler (the last row).
Spin(row) ==
  /\ iflag
  /\ cells' = Store(cells, [x |-> Width - 1, y |-> row], "spinner")
  /\ UNCHANGED <<chip, pc, locals, todo, at, iflag, presses, history>>

-------------------------------------------------------------------------------
(* The kernel's own text: puts and putc, one access after the other *)

Go(from, to) == pc = from /\ pc' = to /\ UNCHANGED <<iflag, presses, start, tear>>

Select(from, register, to) ==
  /\ Go(from, to) /\ index' = register
  /\ UNCHANGED <<cells, cursor, locals, todo, at, said>>

\* puts takes the next character and calls putc.
Fetch ==
  /\ todo # <<>>
  /\ Go("getx_select_low", "getx_read_low") /\ index' = LOW
  /\ ch' = Head(todo) /\ todo' = Tail(todo)
  /\ UNCHANGED <<cells, cursor, byte, x, y, at, said>>

ReadLow(from, to) ==
  /\ Go(from, to) /\ byte' = cursor[index]
  /\ UNCHANGED <<cells, chip, ch, x, y, todo, at, said>>

getx ==
  /\ Go("getx_read_high", "gety_select_low")
  /\ x' = (cursor[index] * Byte + byte) % Width
  /\ UNCHANGED <<cells, chip, ch, byte, y, todo, at, said>>

gety ==
  /\ Go("gety_read_high", "place")
  /\ y' = (cursor[index] * Byte + byte) \div Width
  /\ UNCHANGED <<cells, chip, ch, byte, x, todo, at, said>>

\* In screen_scroll, by what putchar goes on with.
Scrolling(then) == IF then = "draw" THEN "scroll_then_draw" ELSE "scroll_then_gotoxy"

\* Goes to a position; the cell is the next access unless a scroll is due.
Move(from, p, then) ==
  /\ Go(from, IF p.scroll THEN Scrolling(then) ELSE then)
  /\ x' = p.x /\ y' = p.y
  /\ UNCHANGED <<chip, ch, byte, todo, at, said>>

place_char ==
  /\ Move("place", Place([x |-> x, y |-> y], ch),
          IF Control(ch) THEN "gotoxy_select_low" ELSE "draw")
  /\ UNCHANGED cells

draw ==
  /\ cells' = Store(cells, [x |-> x, y |-> y], Glyph(ch))
  /\ Move("draw", Wrap([x |-> x + 1, y |-> y]), "gotoxy_select_low")

\* Mutant: the line that scrolls in is not cleared.
screen_scroll_uncleared(then) ==
  /\ Go(Scrolling(then), IF at + 1 \in Cells THEN Scrolling(then) ELSE then)
  /\ cells' = [cells EXCEPT ![at] = IF at + Width \in Cells THEN cells[at + Width] ELSE @]
  /\ at' = (at + 1) % (Width * Height)
  /\ UNCHANGED <<chip, locals, todo, said>>

\* screen_scroll(1), one cell at a time: copied from the line below, or cleared.
screen_scroll(then) ==
  /\ Go(Scrolling(then), IF at + 1 \in Cells THEN Scrolling(then) ELSE then)
  /\ cells' = [cells EXCEPT ![at] = IF at + Width \in Cells THEN cells[at + Width] ELSE "blank"]
  /\ at' = (at + 1) % (Width * Height)
  /\ UNCHANGED <<chip, locals, todo, said>>

Write(from, register, to) ==
  /\ Go(from, to)
  /\ cursor' = [cursor EXCEPT ![index] = Registers([x |-> x, y |-> y])[register]]
  /\ said' = IF register = HIGH THEN Append(said, ch) ELSE said
  /\ UNCHANGED <<cells, index, locals, todo, at>>

gotoxy ==
  \/ Select("gotoxy_select_low", LOW, "gotoxy_write_low")
  \/ Write("gotoxy_write_low", LOW, "gotoxy_select_high")
  \/ Select("gotoxy_select_high", HIGH, "gotoxy_write_high")
  \/ Write("gotoxy_write_high", HIGH, "getx_select_low")

\* main: _enable, then panic prints; panic ends in a loop.
Enable ==
  /\ pc = "getx_select_low" /\ todo = <<>> /\ ~iflag
  /\ iflag' = TRUE /\ todo' = PanicText
  /\ UNCHANGED <<cells, chip, pc, locals, at, presses, history>>

Halt ==
  /\ todo = <<>> /\ iflag /\ Go("getx_select_low", "halt")
  /\ UNCHANGED <<cells, chip, locals, todo, at, said>>

Kernel ==
  \/ Fetch \/ ReadLow("getx_read_low", "getx_select_high")
  \/ Select("getx_select_high", HIGH, "getx_read_high") \/ getx
  \/ Select("gety_select_low", LOW, "gety_read_low") \/ ReadLow("gety_read_low", "gety_select_high")
  \/ Select("gety_select_high", HIGH, "gety_read_high") \/ gety
  \/ place_char \/ draw
  \/ screen_scroll("draw") \/ screen_scroll("gotoxy_select_low")
  \/ gotoxy \/ Enable \/ Halt

Next == Kernel \/ (\E code \in ScanCodes : Echo(code)) \/ Spin(0) \/ Spin(Height - 1)

Spec == Init /\ [][Next]_vars

-------------------------------------------------------------------------------
(* What should be on the screen: a roll of paper that never scrolls *)

\* Where character c leaves its mark when the pen is at p.
Mark(p, c) == LET column == IF c = "bs" THEN Max({p.column - 1, 0}) ELSE p.column IN
  IF column = Width - 1 THEN [row |-> p.row + 1, column |-> 0] ELSE [row |-> p.row, column |-> column]

\* Where the pen goes on.
After(p, c) == LET m == Mark(p, c) IN
  CASE c = "nl" -> [row |-> p.row + 1, column |-> 0]
    [] c = "cr" -> [row |-> p.row, column |-> 0]
    [] OTHER -> IF m.column = Width - 2 THEN [row |-> m.row + 1, column |-> 0]
                                        ELSE [row |-> m.row, column |-> m.column + 1]

\* Where the pen stands after the first n characters of a text that begins at
\* position first of the screen.
Pens(first, text) ==
  LET f[n \in 0 .. Len(text)] ==
        IF n = 0 THEN [row |-> first \div Width, column |-> first % Width] ELSE After(f[n - 1], text[n])
  IN f
Pen(first, text) == Pens(first, text)[Len(text)]

\* The characters that leave a mark at a place of the paper.
Marks(first, text, row, column) ==
  {n \in 1 .. Len(text) : /\ ~Control(text[n])
                          /\ Mark(Pens(first, text)[n - 1], text[n]) = [row |-> row, column |-> column]}

\* What the last of them left there.
Ink(first, text, row, column) ==
  LET marks == Marks(first, text, row, column)
  IN IF marks # {} THEN Glyph(text[Max(marks)]) ELSE IF row < Height THEN "old" ELSE "blank"

\* The line of the paper at the top of the screen when the pen is in a row.
Top(row) == Max({row - (Height - 1), 0})

-------------------------------------------------------------------------------
(* Properties *)

\* Between two characters the screen shows the last Height lines of the paper
\* and the cursor stands under the pen, unless a key was echoed in the middle
\* of one of the kernel's own characters: what boot prints is all there, and
\* so is everything typed before or after panic's text (putchar, screen_scroll).
TextShown ==
  pc \in Between /\ tear = 0 =>
    LET pen == Pen(start, said)
        top == Top(pen.row)
    IN /\ \A row \in 0 .. Height - 1, column \in 0 .. Width - 2 :
            cells[row * Width + column] = Ink(start, said, row + top, column)
       /\ Offset(cursor) = (pen.row - top) * Width + pen.column

\* The last column is the spinners': no character is ever printed in it and no
\* spinner is ever drawn or scrolled into the text, wherever the handlers
\* interrupt putchar and screen_scroll.
SpinnersApart ==
  \A c \in Cells : IF c % Width = Width - 1 THEN cells[c] \in {"old", "blank", "spinner"}
                                            ELSE cells[c] # "spinner"

\* The cursor leaves the screen only if a key was echoed between the accesses
\* that read or write its two registers: echoes elsewhere in putc lose text at
\* worst (getx, gety, gotoxy: these are the critical sections).
CursorOnScreen == pc \in Between /\ tear < 2 => Offset(cursor) \in Cells

===============================================================================
