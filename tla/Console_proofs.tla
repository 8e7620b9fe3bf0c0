---------------------------- MODULE Console_proofs ----------------------------
(***************************************************************************)
(* What holds of the console for every screen, every register width, every *)
(* text that is printed and every key, however the handlers interrupt      *)
(* putc: the spinners' column stays apart from the text, the cursor stays  *)
(* on the screen unless an echo splits an access to its registers, and the *)
(* screen shows what was printed unless an echo splits a character.        *)
(***************************************************************************)
EXTENDS Console, SequenceTheorems, WellFoundedInduction, TLAPS

-------------------------------------------------------------------------------
(* Arithmetic of rows and columns *)

LEMMA DivMod ==
  ASSUME NEW n \in Nat, NEW w \in Nat \ {0}
  PROVE  /\ n % w \in 0 .. w - 1 /\ n \div w \in Nat
         /\ n = w * (n \div w) + (n % w)
  OBVIOUS

\* A cell's column and row.
LEMMA CellOf ==
  ASSUME NEW column \in Nat, NEW row \in Nat, NEW w \in Nat \ {0}, column < w
  PROVE  /\ row * w + column \in Nat
         /\ (row * w + column) % w = column /\ (row * w + column) \div w = row
  OBVIOUS

\* The cell below is in the same column.
LEMMA CellBelow ==
  ASSUME NEW n \in Nat, NEW w \in Nat \ {0}
  PROVE  (n + w) % w = n % w
<1>1. /\ n % w \in 0 .. w - 1 /\ n \div w \in Nat
      /\ n = w * (n \div w) + (n % w)
  BY DivMod
<1> DEFINE column == n % w
           row == n \div w
<1>2. n + w = (row + 1) * w + column /\ column \in Nat /\ column < w /\ row + 1 \in Nat
  BY <1>1
<1> HIDE DEF column, row
<1>3. ((row + 1) * w + column) % w = column
  BY <1>2, CellOf
<1> QED
  BY <1>2, <1>3 DEF column

LEMMA MaxOfTwo ==
  ASSUME NEW a \in Int, NEW b \in Int
  PROVE  Max({a, b}) \in {a, b} /\ Max({a, b}) >= a /\ Max({a, b}) >= b
<1>1. \E m \in {a, b} : \A n \in {a, b} : m >= n
  <2>1. CASE a >= b
    BY <2>1
  <2>2. CASE b >= a
    BY <2>2
  <2> QED
    BY <2>1, <2>2
<1> QED
  BY <1>1 DEF Max

LEMMA Sizes ==
  Width \in Nat \ {0, 1, 2} /\ Height \in Nat \ {0, 1} /\ Byte \in Nat \ {0}
  BY ConsoleAssumption

LEMMA CellsAreNumbers ==
  /\ Cells \subseteq Nat /\ 0 \in Cells
  /\ Width * Height \in Nat \ {0} /\ Cells = 0 .. Width * Height - 1
<1>1. Width * Height \in Nat /\ Width * Height > 0
  BY Sizes
<1> QED
  BY <1>1 DEF Cells

LEMMA OnScreen ==
  /\ \A column \in 0 .. Width - 1, row \in 0 .. Height - 1 : row * Width + column \in Cells
  /\ \A o \in Cells : o % Width \in 0 .. Width - 1 /\ o \div Width \in 0 .. Height - 1
<1>1. Width \in Nat \ {0} /\ Height \in Nat \ {0}
  BY ConsoleAssumption
<1>2. ASSUME NEW column \in 0 .. Width - 1, NEW row \in 0 .. Height - 1
      PROVE  row * Width + column \in Cells
  <2>1. row * Width <= (Height - 1) * Width
    BY <1>1
  <2>2. (Height - 1) * Width + Width = Width * Height
    BY <1>1
  <2> QED
    BY <1>1, <2>1, <2>2 DEF Cells
<1>3. ASSUME NEW o \in Cells
      PROVE  o % Width \in 0 .. Width - 1 /\ o \div Width \in 0 .. Height - 1
  <2>1. o \in Nat /\ o < Width * Height
    BY <1>1 DEF Cells
  <2>2. /\ o % Width \in 0 .. Width - 1 /\ o \div Width \in Nat
        /\ o = Width * (o \div Width) + (o % Width)
    BY <1>1, <2>1, DivMod
  <2>3. o \div Width < Height
    BY <1>1, <2>1, <2>2
  <2> QED
    BY <1>1, <2>2, <2>3
<1> QED
  BY <1>2, <1>3

-------------------------------------------------------------------------------
(* Where a character goes *)

LEMMA WrapFacts ==
  ASSUME NEW p, p.x \in Nat, p.y \in Nat
  PROVE  /\ Line(p).x = 0 /\ Line(p).y \in Nat /\ Wrap(p).x \in 0 .. Width - 2 /\ Wrap(p).y \in Nat
         /\ p.y <= Height - 1 => Line(p).y <= Height - 1 /\ Wrap(p).y <= Height - 1
<1>1. Width \in Nat \ {0, 1, 2} /\ Height \in Nat \ {0, 1}
  BY ConsoleAssumption
<1>2. /\ Line(p).x = 0 /\ Line(p).y \in Nat
      /\ p.y <= Height - 1 => Line(p).y <= Height - 1
  BY <1>1 DEF Line
<1>3. CASE p.x >= Width - 1
  <2>1. Wrap(p) = Line(p)
    BY <1>3 DEF Wrap
  <2> QED
    BY <1>1, <1>2, <2>1
<1>4. CASE ~(p.x >= Width - 1)
  <2>1. Wrap(p).x = p.x /\ Wrap(p).y = p.y
    BY <1>4 DEF Wrap
  <2> QED
    BY <1>1, <1>2, <1>4, <2>1
<1> QED
  BY <1>3, <1>4

LEMMA PlaceFacts ==
  ASSUME NEW p, p.x \in Nat, p.y \in Nat, NEW c
  PROVE  /\ Place(p, c).x \in 0 .. Width - 2 /\ Place(p, c).y \in Nat
         /\ p.y <= Height - 1 => Place(p, c).y <= Height - 1
<1>1. Width \in Nat \ {0, 1, 2} /\ Height \in Nat \ {0, 1}
  BY ConsoleAssumption
<1>2. CASE c = "cr"
  BY <1>1, <1>2 DEF Place
<1>3. CASE c = "nl"
  <2>1. Place(p, c) = Line(p)
    BY <1>3 DEF Place
  <2> QED
    BY <1>1, <2>1, WrapFacts
<1>4. CASE c = "bs"
  <2> DEFINE q == [x |-> Max({p.x - 1, 0}), y |-> p.y]
  <2>1. Place(p, c) = Wrap(q)
    BY <1>4 DEF Place
  <2>2. Max({p.x - 1, 0}) \in Nat
    BY MaxOfTwo
  <2>3. q.x \in Nat /\ q.y = p.y
    BY <2>2
  <2> QED
    BY <2>1, <2>3, WrapFacts
<1>5. CASE c \notin {"cr", "nl", "bs"}
  <2>1. Place(p, c) = Wrap(p)
    BY <1>5 DEF Place
  <2> QED
    BY <2>1, WrapFacts
<1> QED
  BY <1>2, <1>3, <1>4, <1>5

Cursor == [{LOW, HIGH} -> 0 .. Byte - 1]

LEMMA OffsetFacts ==
  ASSUME NEW c \in Cursor
  PROVE  Offset(c) \in Nat
<1>1. c[LOW] \in Nat /\ c[HIGH] \in Nat /\ Byte \in Nat
  BY ConsoleAssumption DEF Cursor
<1> QED
  BY <1>1 DEF Offset

\* The registers hold any position of the screen.
LEMMA RegistersFacts ==
  ASSUME NEW p, p.x \in Nat, p.y \in Nat
  PROVE  /\ Registers(p) \in Cursor
         /\ p.x <= Width - 1 /\ p.y <= Height - 1 =>
              Offset(Registers(p)) \in Cells /\ Offset(Registers(p)) = p.y * Width + p.x
<1>1. /\ Width \in Nat \ {0} /\ Height \in Nat \ {0} /\ Byte \in Nat \ {0}
      /\ Byte * Byte >= Width * Height
  BY ConsoleAssumption
<1> DEFINE o == p.y * Width + p.x
           h == o \div Byte
<1>2. o \in Nat
  BY <1>1
<1>3. /\ Registers(p) = [r \in {LOW, HIGH} |-> IF r = LOW THEN o % Byte ELSE h % Byte]
  BY DEF Registers
<1> HIDE DEF o
<1>4. /\ o % Byte \in 0 .. Byte - 1 /\ h \in Nat /\ o = Byte * h + (o % Byte)
  BY <1>1, <1>2, DivMod
<1> HIDE DEF h
<1>5. h % Byte \in 0 .. Byte - 1
  BY <1>1, <1>4, DivMod
<1>6. Registers(p) \in Cursor
  BY <1>3, <1>4, <1>5 DEF Cursor
<1>7. ASSUME p.x <= Width - 1, p.y <= Height - 1
      PROVE  Offset(Registers(p)) \in Cells /\ Offset(Registers(p)) = o
  <2>1. p.x \in 0 .. Width - 1 /\ p.y \in 0 .. Height - 1
    BY <1>1, <1>7
  <2>2. o \in Cells
    BY <2>1, OnScreen DEF o
  <2>3. o < Byte * Byte
    <3>1. o < Width * Height /\ Width * Height \in Nat /\ Byte * Byte \in Nat
      BY <1>1, <2>2 DEF Cells
    <3> QED
      BY <1>1, <1>2, <3>1
  <2>4. h < Byte
    BY <1>1, <1>2, <1>4, <2>3
  <2>5. h % Byte = h
    BY <1>1, <1>4, <2>4
  <2>6. Registers(p)[LOW] = o % Byte /\ Registers(p)[HIGH] = h
    BY <1>3, <2>5 DEF LOW, HIGH
  <2>7. Offset(Registers(p)) = h * Byte + (o % Byte)
    BY <2>6 DEF Offset
  <2>8. h * Byte + (o % Byte) = o
    BY <1>1, <1>4
  <2> QED
    BY <2>2, <2>7, <2>8
<1> QED
  BY <1>6, <1>7 DEF o

-------------------------------------------------------------------------------
(* The screen: text to the left, spinners in the last column *)

\* What is printed or typed, and what a cell may show.
Char == Letters \cup {"nl", "cr", "bs", "key"}
Shown == Char \cup {"old", "blank", "spinner"}

Apart(s) ==
  /\ s \in [Cells -> Shown]
  /\ \A c \in Cells : IF c % Width = Width - 1 THEN s[c] \in {"old", "blank", "spinner"}
                                               ELSE s[c] # "spinner"

LEMMA StoreFacts ==
  ASSUME NEW s, Apart(s), NEW p, p.x \in Nat, p.y \in Nat, NEW c \in Shown,
         \/ p.x <= Width - 2 /\ c # "spinner"
         \/ p.x = Width - 1 /\ c = "spinner"
  PROVE  Apart(Store(s, p, c))
<1> DEFINE o == p.y * Width + p.x
<1>1. Width \in Nat \ {0, 1, 2} /\ p.x < Width
  BY ConsoleAssumption
<1>2. o % Width = p.x
  BY <1>1, CellOf
<1> HIDE DEF o
<1>3. Store(s, p, c) = IF o \in Cells THEN [s EXCEPT ![o] = c] ELSE s
  BY DEF Store, o
<1>4. CASE o \in Cells
  <2> DEFINE t == [s EXCEPT ![o] = c]
  <2>1. t \in [Cells -> Shown] /\ t[o] = c /\ \A d \in Cells : d # o => t[d] = s[d]
    BY <1>4 DEF Apart
  <2>2. Store(s, p, c) = t
    BY <1>3, <1>4
  <2> HIDE DEF t
  <2>3. ASSUME NEW d \in Cells
        PROVE  IF d % Width = Width - 1 THEN t[d] \in {"old", "blank", "spinner"} ELSE t[d] # "spinner"
    <3>1. CASE d = o
      <4>1. p.x = Width - 1 <=> c = "spinner"
        BY <1>1
      <4>2. d % Width = p.x /\ t[d] = c
        BY <1>2, <2>1, <3>1
      <4> QED
        BY <4>1, <4>2
    <3>2. CASE d # o
      BY <2>1, <3>2 DEF Apart
    <3> QED
      BY <3>1, <3>2
  <2> QED
    BY <2>1, <2>2, <2>3 DEF Apart
<1>5. CASE o \notin Cells
  BY <1>3, <1>5
<1> QED
  BY <1>4, <1>5

\* A cell that scrolling moves stays in its column.
LEMMA MovedUp ==
  ASSUME NEW s, Apart(s), NEW c \in Cells, c + Width \in Cells
  PROVE  /\ s[c + Width] \in Shown
         /\ IF c % Width = Width - 1 THEN s[c + Width] \in {"old", "blank", "spinner"}
                                     ELSE s[c + Width] # "spinner"
<1>1. c \in Nat /\ Width \in Nat \ {0}
  BY CellsAreNumbers, Sizes
<1>2. (c + Width) % Width = c % Width
  BY <1>1, CellBelow
<1> QED
  BY <1>2 DEF Apart

LEMMA ScrolledFacts ==
  ASSUME NEW s, Apart(s)
  PROVE  Apart(Scrolled(s))
<1>1. ASSUME NEW c \in Cells
      PROVE  /\ Scrolled(s)[c] \in Shown
             /\ IF c % Width = Width - 1 THEN Scrolled(s)[c] \in {"old", "blank", "spinner"}
                                         ELSE Scrolled(s)[c] # "spinner"
  <2>1. CASE c + Width \in Cells
    <3>1. Scrolled(s)[c] = s[c + Width]
      BY <2>1 DEF Scrolled
    <3> QED
      BY <2>1, <3>1, MovedUp
  <2>2. CASE c + Width \notin Cells
    <3>1. Scrolled(s)[c] = "blank"
      BY <2>2 DEF Scrolled
    <3> QED
      BY <3>1 DEF Shown
  <2> QED
    BY <2>1, <2>2
<1>2. Scrolled(s) \in [Cells -> Shown]
  <2>1. Scrolled(s) = [c \in Cells |-> Scrolled(s)[c]]
    BY DEF Scrolled
  <2> QED
    BY <1>1, <2>1
<1> QED
  BY <1>1, <1>2 DEF Apart

-------------------------------------------------------------------------------
(* The invariant *)

Reading == {"getx_select_low", "getx_read_low", "getx_select_high", "getx_read_high",
            "gety_select_low", "gety_read_low", "gety_select_high", "gety_read_high"}
Placed == {"draw", "scroll_then_draw", "scroll_then_gotoxy",
           "gotoxy_select_low", "gotoxy_write_low", "gotoxy_select_high", "gotoxy_write_high"}

Types ==
  /\ index \in {LOW, HIGH} /\ cursor \in Cursor
  /\ pc \in Reading \cup {"place", "halt"} \cup Placed
  /\ ch \in Char /\ todo \in Seq(Char)
  /\ byte \in Nat /\ x \in 0 .. Width - 1 /\ y \in Nat
  /\ at \in Cells /\ tear \in Nat
  /\ pc \in Placed => x <= Width - 2

\* Until an echo meets a pair of accesses: the chip holds a position of the
\* screen but for the moment between the two writes, and the kernel's locals
\* hold what it has read of that position or has computed from it.
Sound ==
  tear < 2 =>
    /\ pc \notin {"gotoxy_select_high", "gotoxy_write_high"} => Offset(cursor) \in Cells
    /\ pc \in {"getx_read_low", "gety_read_low", "gotoxy_write_low"} => index = LOW
    /\ pc \in {"getx_read_high", "gety_read_high", "gotoxy_write_high"} => index = HIGH
    /\ pc \in {"getx_select_high", "getx_read_high", "gety_select_high", "gety_read_high"} =>
         byte = cursor[LOW]
    /\ pc \in {"place"} \cup Placed => y <= Height - 1
    /\ pc \in {"gotoxy_select_high", "gotoxy_write_high"} =>
         cursor[LOW] = Registers([x |-> x, y |-> y])[LOW]

IInv == Types /\ Apart(cells) /\ Sound

LEMMA InitHolds == Init => IInv
<1> SUFFICES ASSUME Init PROVE IInv
  OBVIOUS
<1>1. start \in Cells
  BY ConsoleAssumption DEF Init, Cells
<1>2. start % Width \in 0 .. Width - 1 /\ start \div Width \in 0 .. Height - 1
  BY <1>1, OnScreen
<1> DEFINE p == [x |-> start % Width, y |-> start \div Width]
<1>3. p.x \in Nat /\ p.y \in Nat /\ p.x <= Width - 1 /\ p.y <= Height - 1
  BY <1>2, Sizes
<1>4. cursor = Registers(p)
  BY DEF Init
<1> HIDE DEF p
<1>5. cursor \in Cursor /\ Offset(cursor) \in Cells
  BY <1>3, <1>4, RegistersFacts
<1>6. Types
  <2>1. todo \in Seq(Char)
    <3> DEFINE Printed == Letters \cup {"nl", "cr", "bs"}
    <3>1. todo \in Seq(Printed) /\ Printed \subseteq Char
      BY ConsoleAssumption DEF Init, Char
    <3> HIDE DEF Printed
    <3> QED
      BY <3>1
  <2>2. ch \in Char /\ pc \in Reading /\ pc \notin Placed
    BY DEF Init, Reading, Placed, Char
  <2>3. x \in 0 .. Width - 1 /\ y \in Nat /\ byte \in Nat /\ tear \in Nat /\ at \in Cells
    <3>1. 0 \in 0 .. Width - 1 /\ 0 \in Cells
      BY CellsAreNumbers, Sizes
    <3> QED
      BY <3>1 DEF Init
  <2>4. index \in {LOW, HIGH}
    BY DEF Init
  <2> QED
    BY <1>5, <2>1, <2>2, <2>3, <2>4 DEF Types
<1>7. Apart(cells)
  BY DEF Init, Apart, Shown
<1>8. Sound
  BY <1>5 DEF Init, Sound, Placed
<1> QED
  BY <1>6, <1>7, <1>8 DEF IInv

-------------------------------------------------------------------------------
(* The kernel's steps *)

Selecting ==
  \/ Select("getx_select_high", HIGH, "getx_read_high")
  \/ Select("gety_select_low", LOW, "gety_read_low")
  \/ Select("gety_select_high", HIGH, "gety_read_high")
  \/ Select("gotoxy_select_low", LOW, "gotoxy_write_low")
  \/ Select("gotoxy_select_high", HIGH, "gotoxy_write_high")

LEMMA SelectKeeps ==
  ASSUME IInv, Selecting
  PROVE  IInv'
<1>1. /\ \/ pc = "getx_select_high" /\ index' = HIGH /\ pc' = "getx_read_high"
         \/ pc = "gety_select_low" /\ index' = LOW /\ pc' = "gety_read_low"
         \/ pc = "gety_select_high" /\ index' = HIGH /\ pc' = "gety_read_high"
         \/ pc = "gotoxy_select_low" /\ index' = LOW /\ pc' = "gotoxy_write_low"
         \/ pc = "gotoxy_select_high" /\ index' = HIGH /\ pc' = "gotoxy_write_high"
      /\ cells' = cells /\ cursor' = cursor /\ ch' = ch /\ byte' = byte /\ x' = x /\ y' = y
      /\ todo' = todo /\ at' = at /\ tear' = tear
  BY DEF Selecting, Select, Go, locals
<1>2. Types'
  BY <1>1 DEF IInv, Types, Reading, Placed
<1>3. Apart(cells)'
  BY <1>1 DEF IInv
<1>4. Sound'
  BY <1>1 DEF IInv, Sound, Placed
<1> QED
  BY <1>2, <1>3, <1>4 DEF IInv

LEMMA HeadTail ==
  ASSUME NEW S, NEW s \in Seq(S), s # <<>>
  PROVE  Head(s) \in S /\ Tail(s) \in Seq(S)
  OBVIOUS

LEMMA FetchKeeps ==
  ASSUME IInv, Fetch
  PROVE  IInv'
<1>1. /\ pc = "getx_select_low" /\ pc' = "getx_read_low" /\ index' = LOW
      /\ cells' = cells /\ cursor' = cursor /\ byte' = byte /\ x' = x /\ y' = y
      /\ at' = at /\ tear' = tear /\ todo # <<>> /\ ch' = Head(todo) /\ todo' = Tail(todo)
  BY DEF Fetch, Go
<1>2. ch' \in Char /\ todo' \in Seq(Char)
  <2>1. todo \in Seq(Char)
    BY DEF IInv, Types
  <2> QED
    BY <1>1, <2>1, HeadTail
<1>3. Types'
  BY <1>1, <1>2 DEF IInv, Types, Reading, Placed
<1>4. Apart(cells)'
  BY <1>1 DEF IInv
<1>5. Sound'
  BY <1>1 DEF IInv, Sound, Placed
<1> QED
  BY <1>3, <1>4, <1>5 DEF IInv

ReadingLow ==
  ReadLow("getx_read_low", "getx_select_high") \/ ReadLow("gety_read_low", "gety_select_high")

LEMMA ReadLowKeeps ==
  ASSUME IInv, ReadingLow
  PROVE  IInv'
<1>1. /\ \/ pc = "getx_read_low" /\ pc' = "getx_select_high"
         \/ pc = "gety_read_low" /\ pc' = "gety_select_high"
      /\ byte' = cursor[index]
      /\ cells' = cells /\ index' = index /\ cursor' = cursor /\ ch' = ch /\ x' = x /\ y' = y
      /\ todo' = todo /\ at' = at /\ tear' = tear
  BY DEF ReadingLow, ReadLow, Go, chip
<1>2. cursor[index] \in Nat
  BY Sizes DEF IInv, Types, Cursor
<1>3. Types'
  BY <1>1, <1>2 DEF IInv, Types, Reading, Placed
<1>4. Apart(cells)'
  BY <1>1 DEF IInv
<1>5. Sound'
  BY <1>1 DEF IInv, Sound, Placed
<1> QED
  BY <1>3, <1>4, <1>5 DEF IInv

LEMMA getxKeeps ==
  ASSUME IInv, getx
  PROVE  IInv'
<1>1. /\ pc = "getx_read_high" /\ pc' = "gety_select_low"
      /\ x' = (cursor[index] * Byte + byte) % Width
      /\ cells' = cells /\ index' = index /\ cursor' = cursor /\ ch' = ch /\ byte' = byte
      /\ y' = y /\ todo' = todo /\ at' = at /\ tear' = tear
  BY DEF getx, Go, chip
<1>2. x' \in 0 .. Width - 1
  <2>1. cursor[index] \in Nat /\ byte \in Nat
    BY Sizes DEF IInv, Types, Cursor
  <2>2. cursor[index] * Byte + byte \in Nat
    BY <2>1, Sizes
  <2> QED
    BY <1>1, <2>2, DivMod, Sizes
<1>3. Types'
  BY <1>1, <1>2 DEF IInv, Types, Reading, Placed
<1>4. Apart(cells)'
  BY <1>1 DEF IInv
<1>5. Sound'
  BY <1>1 DEF IInv, Sound, Placed
<1> QED
  BY <1>3, <1>4, <1>5 DEF IInv

LEMMA getyKeeps ==
  ASSUME IInv, gety
  PROVE  IInv'
<1>1. /\ pc = "gety_read_high" /\ pc' = "place"
      /\ y' = (cursor[index] * Byte + byte) \div Width
      /\ cells' = cells /\ index' = index /\ cursor' = cursor /\ ch' = ch /\ byte' = byte
      /\ x' = x /\ todo' = todo /\ at' = at /\ tear' = tear
  BY DEF gety, Go, chip
<1>2. y' \in Nat
  <2>1. cursor[index] \in Nat /\ byte \in Nat
    BY Sizes DEF IInv, Types, Cursor
  <2>2. cursor[index] * Byte + byte \in Nat
    BY <2>1, Sizes
  <2> QED
    BY <1>1, <2>2, DivMod, Sizes
<1>3. Types'
  BY <1>1, <1>2 DEF IInv, Types, Reading, Placed
<1>4. Apart(cells)'
  BY <1>1 DEF IInv
<1>5. Sound'
  <2>1. ASSUME tear < 2
        PROVE  Offset(cursor) \in Cells /\ y' <= Height - 1
    <3>1. Offset(cursor) \in Cells /\ y' = Offset(cursor) \div Width
      BY <1>1, <2>1 DEF IInv, Sound, Offset
    <3>2. Offset(cursor) \div Width \in 0 .. Height - 1
      BY <3>1, OnScreen
    <3> QED
      BY <3>1, <3>2, Sizes
  <2> QED
    BY <1>1, <2>1 DEF Sound, Placed
<1> QED
  BY <1>3, <1>4, <1>5 DEF IInv

LEMMA GlyphFacts ==
  ASSUME NEW c \in Char
  PROVE  Glyph(c) \in Shown /\ Glyph(c) # "spinner"
<1>1. c \in Shown /\ c # "spinner"
  BY ConsoleAssumption DEF Char, Shown
<1>2. "blank" \in Shown
  BY DEF Shown
<1> QED
  BY <1>1, <1>2 DEF Glyph

\* Going to a position of the text.
LEMMA MoveKeeps ==
  ASSUME IInv, Apart(cells)', NEW from, NEW p, NEW then, Move(from, p, then),
         from \in {"place", "draw"}, then \in {"draw", "gotoxy_select_low"},
         p.x \in 0 .. Width - 2, p.y \in Nat,
         tear < 2 => p.y <= Height - 1
  PROVE  IInv'
<1>1. /\ pc = from /\ pc' \in {"scroll_then_draw", "scroll_then_gotoxy", "draw", "gotoxy_select_low"}
      /\ x' = p.x /\ y' = p.y
      /\ index' = index /\ cursor' = cursor /\ ch' = ch /\ byte' = byte
      /\ todo' = todo /\ at' = at /\ tear' = tear
  <2>1. pc' = IF p.scroll THEN Scrolling(then) ELSE then
    BY DEF Move, Go
  <2>2. Scrolling(then) \in {"scroll_then_draw", "scroll_then_gotoxy"}
    BY DEF Scrolling
  <2>3. pc' \in {Scrolling(then), then}
    BY <2>1
  <2> QED
    BY <2>2, <2>3 DEF Move, Go, chip
<1>2. x' \in 0 .. Width - 1 /\ x' <= Width - 2 /\ y' \in Nat
  BY <1>1, Sizes
<1>3. Types'
  <2>1. pc' \in Placed
    BY <1>1 DEF Placed
  <2> QED
    BY <1>1, <1>2, <2>1 DEF IInv, Types
<1>4. Sound'
  BY <1>1 DEF IInv, Sound, Placed
<1> QED
  BY <1>3, <1>4 DEF IInv

LEMMA place_charKeeps ==
  ASSUME IInv, place_char
  PROVE  IInv'
<1> DEFINE p == [x |-> x, y |-> y]
           to == IF Control(ch) THEN "gotoxy_select_low" ELSE "draw"
<1>1. Move("place", Place(p, ch), to) /\ cells' = cells /\ pc = "place"
  BY DEF place_char, Move, Go
<1>2. p.x \in Nat /\ p.y \in Nat
  BY Sizes DEF IInv, Types
<1>3. tear < 2 => p.y <= Height - 1
  BY <1>1 DEF IInv, Sound
<1>4. to \in {"draw", "gotoxy_select_low"}
  OBVIOUS
<1> HIDE DEF p, to
<1> DEFINE q == Place(p, ch)
<1>5. q.x \in 0 .. Width - 2 /\ q.y \in Nat /\ (tear < 2 => q.y <= Height - 1)
  BY <1>2, <1>3, PlaceFacts
<1>6. Apart(cells)'
  BY <1>1 DEF IInv
<1> HIDE DEF q
<1>7. Move("place", q, to)
  BY <1>1 DEF q
<1> QED
  BY <1>4, <1>5, <1>6, <1>7, MoveKeeps

LEMMA drawKeeps ==
  ASSUME IInv, draw
  PROVE  IInv'
<1> DEFINE p == [x |-> x, y |-> y]
           q == [x |-> x + 1, y |-> y]
           w == Wrap(q)
<1>1. /\ pc = "draw" /\ cells' = Store(cells, p, Glyph(ch))
      /\ Move("draw", w, "gotoxy_select_low")
  <2>1. cells' = Store(cells, p, Glyph(ch)) /\ Move("draw", w, "gotoxy_select_low")
    BY DEF draw
  <2>2. pc = "draw"
    BY <2>1 DEF Move, Go
  <2> QED
    BY <2>1, <2>2
<1>2. x \in Nat /\ y \in Nat /\ x <= Width - 2 /\ ch \in Char
  BY <1>1, Sizes DEF IInv, Types, Placed
<1>3. tear < 2 => y <= Height - 1
  BY <1>1 DEF IInv, Sound, Placed
<1>4. q.x \in Nat /\ q.y \in Nat /\ (tear < 2 => q.y <= Height - 1)
  BY <1>2, <1>3
<1> HIDE DEF q
<1>5. w.x \in 0 .. Width - 2 /\ w.y \in Nat /\ (tear < 2 => w.y <= Height - 1)
  BY <1>4, WrapFacts
<1>6. Apart(Store(cells, p, Glyph(ch)))
  <2>1. p.x \in Nat /\ p.y \in Nat /\ p.x <= Width - 2
    BY <1>2
  <2>2. Apart(cells)
    BY DEF IInv
  <2> HIDE DEF p
  <2> QED
    BY <1>2, <2>1, <2>2, GlyphFacts, StoreFacts
<1>7. Apart(cells)'
  BY <1>1, <1>6
<1> HIDE DEF w
<1> QED
  BY <1>1, <1>5, <1>7, MoveKeeps

\* One cell of screen_scroll.
LEMMA ScrollKeeps ==
  ASSUME IInv, NEW then, then \in {"draw", "gotoxy_select_low"}, screen_scroll(then)
  PROVE  IInv'
<1>1. /\ pc \in {"scroll_then_draw", "scroll_then_gotoxy"}
      /\ pc' \in {"scroll_then_draw", "scroll_then_gotoxy", "draw", "gotoxy_select_low"}
      /\ cells' = [cells EXCEPT ![at] = IF at + Width \in Cells THEN cells[at + Width] ELSE "blank"]
      /\ at' = (at + 1) % (Width * Height)
      /\ index' = index /\ cursor' = cursor /\ ch' = ch /\ byte' = byte /\ x' = x /\ y' = y
      /\ todo' = todo /\ tear' = tear
  BY DEF screen_scroll, Go, chip, locals, Scrolling
<1>2. at' \in Cells
  <2>1. Width * Height \in Nat \ {0}
    BY CellsAreNumbers
  <2>2. at + 1 \in Nat
    <3>1. at \in Nat
      BY CellsAreNumbers DEF IInv, Types
    <3> QED
      BY <3>1
  <2>3. (at + 1) % (Width * Height) \in 0 .. Width * Height - 1
    BY <2>1, <2>2, DivMod
  <2> QED
    BY <1>1, <2>3 DEF Cells
<1>3. Types'
  BY <1>1, <1>2 DEF IInv, Types, Placed
<1>4. Apart(cells)'
  <2> DEFINE e == IF at + Width \in Cells THEN cells[at + Width] ELSE "blank"
  <2>1. Apart(cells) /\ at \in Cells
    BY DEF IInv, Types
  <2>2. /\ e \in Shown
        /\ IF at % Width = Width - 1 THEN e \in {"old", "blank", "spinner"} ELSE e # "spinner"
    <3>1. CASE at + Width \in Cells
      BY <2>1, <3>1, MovedUp
    <3>2. CASE at + Width \notin Cells
      BY <3>2 DEF Shown
    <3> QED
      BY <3>1, <3>2
  <2> HIDE DEF e
  <2>3. cells' = [cells EXCEPT ![at] = e]
    BY <1>1 DEF e
  <2>4. /\ cells' \in [Cells -> Shown] /\ cells'[at] = e
        /\ \A c \in Cells : c # at => cells'[c] = cells[c]
    BY <2>1, <2>2, <2>3 DEF Apart
  <2>5. ASSUME NEW c \in Cells
        PROVE  IF c % Width = Width - 1 THEN cells'[c] \in {"old", "blank", "spinner"}
                                        ELSE cells'[c] # "spinner"
    <3>1. CASE c = at
      BY <2>2, <2>4, <3>1
    <3>2. CASE c # at
      BY <2>1, <2>4, <3>2 DEF Apart
    <3> QED
      BY <3>1, <3>2
  <2> QED
    BY <2>4, <2>5 DEF Apart
<1>5. Sound'
  BY <1>1 DEF IInv, Sound, Placed
<1> QED
  BY <1>3, <1>4, <1>5 DEF IInv

\* The cursor's low byte and then its high byte.
LEMMA WriteKeeps ==
  ASSUME IInv,
         Write("gotoxy_write_low", LOW, "gotoxy_select_high")
           \/ Write("gotoxy_write_high", HIGH, "getx_select_low")
  PROVE  IInv'
<1> DEFINE p == [x |-> x, y |-> y]
           r == Registers(p)
<1>1. p.x \in Nat /\ p.y \in Nat /\ p.x <= Width - 1
  <2>1. x \in 0 .. Width - 1 /\ y \in Nat
    BY DEF IInv, Types
  <2> QED
    BY <2>1, Sizes
<1>2. /\ r \in Cursor
      /\ p.y <= Height - 1 => Offset(r) \in Cells
  <2> HIDE DEF p
  <2> QED
    BY <1>1, RegistersFacts
<1>3. /\ cells' = cells /\ index' = index /\ ch' = ch /\ byte' = byte /\ x' = x /\ y' = y
      /\ todo' = todo /\ at' = at /\ tear' = tear
  BY DEF Write, Go, locals
<1>4. \/ /\ pc = "gotoxy_write_low" /\ pc' = "gotoxy_select_high"
         /\ cursor' = [cursor EXCEPT ![index] = r[LOW]]
      \/ /\ pc = "gotoxy_write_high" /\ pc' = "getx_select_low"
         /\ cursor' = [cursor EXCEPT ![index] = r[HIGH]]
  BY DEF Write, Go
<1> HIDE DEF r
<1>5. cursor' \in Cursor
  BY <1>2, <1>4 DEF IInv, Types, Cursor
<1>6. Types'
  BY <1>3, <1>4, <1>5 DEF IInv, Types, Reading, Placed
<1>7. Apart(cells)'
  BY <1>3 DEF IInv
<1>8. Sound'
  <2>1. CASE pc = "gotoxy_write_low"
    <3>1. tear < 2 => cursor'[LOW] = r[LOW] /\ y <= Height - 1
      BY <1>4, <2>1 DEF IInv, Sound, Types, Cursor, Placed
    <3>2. Registers(p)' = r
      BY <1>3 DEF r, Registers
    <3> QED
      BY <1>3, <1>4, <2>1, <3>1, <3>2 DEF Sound, Placed
  <2>2. CASE pc = "gotoxy_write_high"
    <3>1. tear < 2 => Offset(cursor') \in Cells
      <4>1. SUFFICES ASSUME tear < 2 PROVE Offset(cursor') \in Cells
        OBVIOUS
      <4>2. index = HIGH /\ cursor[LOW] = r[LOW] /\ y <= Height - 1
        BY <2>2, <4>1 DEF IInv, Sound, Placed, r
      <4>3. cursor'[LOW] = r[LOW] /\ cursor'[HIGH] = r[HIGH]
        BY <1>4, <2>2, <4>2 DEF IInv, Types, Cursor, LOW, HIGH
      <4>4. Offset(cursor') = Offset(r)
        BY <4>3 DEF Offset
      <4> QED
        BY <1>2, <4>2, <4>4
    <3> QED
      BY <1>3, <1>4, <2>2, <3>1 DEF Sound, Placed
  <2> QED
    BY <1>4, <2>1, <2>2
<1> QED
  BY <1>6, <1>7, <1>8 DEF IInv

LEMMA EnableKeeps ==
  ASSUME IInv, Enable \/ Halt
  PROVE  IInv'
<1>1. /\ pc = "getx_select_low" /\ pc' \in {"getx_select_low", "halt"}
      /\ cells' = cells /\ index' = index /\ cursor' = cursor
      /\ ch' = ch /\ byte' = byte /\ x' = x /\ y' = y /\ at' = at /\ tear' = tear
      /\ todo' \in {todo, PanicText}
  BY DEF Enable, Halt, Go, chip, locals, history
<1>2. todo' \in Seq(Char)
  <2> DEFINE Printed == Letters \cup {"nl", "cr", "bs"}
  <2>1. PanicText \in Seq(Printed) /\ Printed \subseteq Char
    BY ConsoleAssumption DEF Char
  <2> HIDE DEF Printed
  <2>2. PanicText \in Seq(Char)
    BY <2>1
  <2> QED
    BY <1>1, <2>2 DEF IInv, Types
<1>3. Types'
  BY <1>1, <1>2 DEF IInv, Types, Reading, Placed
<1>4. Apart(cells)'
  BY <1>1 DEF IInv
<1>5. Sound'
  BY <1>1 DEF IInv, Sound, Placed
<1> QED
  BY <1>3, <1>4, <1>5 DEF IInv

-------------------------------------------------------------------------------
(* The handlers *)

LEMMA decodeFacts ==
  ASSUME NEW code, NEW c \in decode(code) \ {"none"}
  PROVE  c \in {"nl", "cr", "bs", "key"}
<1> DEFINE Keys == {57, 180, 181, 41} \cup (2 .. 10) \cup (16 .. 25) \cup (30 .. 38) \cup (44 .. 50)
<1>1. CASE code = 28
  BY <1>1 DEF decode
<1>2. CASE code = 14
  BY <1>2 DEF decode
<1>3. CASE code = 27
  BY <1>3 DEF decode
<1>4. CASE code \notin {28, 14, 27} /\ code \in Keys
  BY <1>4 DEF decode
<1>5. CASE code \notin {28, 14, 27} /\ code \notin Keys
  BY <1>5 DEF decode
<1> QED
  BY <1>1, <1>2, <1>3, <1>4, <1>5

\* A whole putc between two accesses of the kernel's: the cursor it leaves is on
\* the screen if the one it found was.
LEMMA EchoKeeps ==
  ASSUME IInv, NEW code \in ScanCodes, Echo(code)
  PROVE  IInv'
<1> DEFINE p == [x |-> Offset(cursor) % Width, y |-> Offset(cursor) \div Width]
<1>1. PICK c \in decode(code) \ {"none"} :
        LET place == Place(p, c)
            clear == IF place.scroll THEN Scrolled(cells) ELSE cells
            next == IF Control(c) THEN place ELSE Wrap([x |-> place.x + 1, y |-> place.y])
            drawn == IF Control(c) THEN clear ELSE Store(clear, place, Glyph(c))
        IN /\ cells' = IF next.scroll /\ ~Control(c) THEN Scrolled(drawn) ELSE drawn
           /\ index' = HIGH /\ cursor' = Registers(next)
           /\ said' = Append(said, c)
  BY DEF Echo
<1>2. /\ pc' = pc /\ ch' = ch /\ byte' = byte /\ x' = x /\ y' = y /\ todo' = todo /\ at' = at
      /\ tear' = Max({tear, IF pc \in Between THEN 0 ELSE IF pc \in Paired THEN 2 ELSE 1})
  BY DEF Echo, locals
<1> DEFINE place == Place(p, c)
           clear == IF place.scroll THEN Scrolled(cells) ELSE cells
           after == [x |-> place.x + 1, y |-> place.y]
           next == IF Control(c) THEN place ELSE Wrap(after)
           drawn == IF Control(c) THEN clear ELSE Store(clear, place, Glyph(c))
<1>3. /\ cells' = IF next.scroll /\ ~Control(c) THEN Scrolled(drawn) ELSE drawn
      /\ index' = HIGH /\ cursor' = Registers(next)
  BY <1>1
<1>4. c \in Char
  BY decodeFacts DEF Char
<1>5. p.x \in Nat /\ p.y \in Nat /\ (Offset(cursor) \in Cells => p.y <= Height - 1)
  <2>1. Offset(cursor) \in Nat
    BY OffsetFacts DEF IInv, Types
  <2>2. Offset(cursor) % Width \in 0 .. Width - 1 /\ Offset(cursor) \div Width \in Nat
    BY <2>1, DivMod, Sizes
  <2>3. Offset(cursor) \in Cells => Offset(cursor) \div Width \in 0 .. Height - 1
    BY OnScreen
  <2> QED
    BY <2>2, <2>3, Sizes
<1> HIDE DEF p
<1>6. /\ place.x \in 0 .. Width - 2 /\ place.y \in Nat
      /\ Offset(cursor) \in Cells => place.y <= Height - 1
  BY <1>5, PlaceFacts, Sizes
<1> HIDE DEF place
<1>7. /\ next.x \in 0 .. Width - 2 /\ next.y \in Nat
      /\ Offset(cursor) \in Cells => next.y <= Height - 1
  <2>1. after.x \in Nat /\ after.y = place.y
    BY <1>6, Sizes
  <2> HIDE DEF after
  <2>2. CASE Control(c)
    BY <1>6, <2>2
  <2>3. CASE ~Control(c)
    BY <1>6, <2>1, <2>3, WrapFacts, Sizes
  <2> QED
    BY <2>2, <2>3
<1>8. Apart(clear)
  BY ScrolledFacts DEF IInv
<1>9. Apart(drawn)
  <2>1. place.x \in Nat /\ place.y \in Nat /\ place.x <= Width - 2
    BY <1>6, Sizes
  <2> HIDE DEF clear
  <2>2. Apart(Store(clear, place, Glyph(c)))
    BY <1>4, <1>8, <2>1, GlyphFacts, StoreFacts
  <2> QED
    BY <1>8, <2>2
<1> HIDE DEF next, drawn
<1>10. Apart(cells)'
  <2>1. Apart(Scrolled(drawn))
    BY <1>9, ScrolledFacts
  <2> QED
    BY <1>3, <1>9, <2>1
<1>11. next.x \in Nat /\ next.x <= Width - 1
  BY <1>7, Sizes
<1>12. /\ cursor' \in Cursor
       /\ Offset(cursor) \in Cells => Offset(cursor') \in Cells
  BY <1>3, <1>7, <1>11, RegistersFacts
<1>13. tear' \in Nat /\ tear' >= tear /\ (pc \in Paired => tear' >= 2)
  <2> DEFINE worse == IF pc \in Between THEN 0 ELSE IF pc \in Paired THEN 2 ELSE 1
  <2>1. worse \in Nat /\ (pc \in Paired => worse = 2)
    BY DEF Between, Paired
  <2>2. tear' = Max({tear, worse}) /\ tear \in Nat
    BY <1>2 DEF IInv, Types
  <2> HIDE DEF worse
  <2>3. tear' \in {tear, worse} /\ tear' >= tear /\ tear' >= worse
    <3>1. tear \in Int /\ worse \in Int
      BY <2>1, <2>2
    <3>2. /\ Max({tear, worse}) \in {tear, worse}
          /\ Max({tear, worse}) >= tear /\ Max({tear, worse}) >= worse
      BY <3>1, MaxOfTwo
    <3> QED
      BY <2>2, <3>2
  <2> QED
    BY <2>1, <2>2, <2>3
<1>14. Types'
  BY <1>2, <1>3, <1>12, <1>13 DEF IInv, Types
<1>15. Sound'
  <2>1. SUFFICES ASSUME tear' < 2 PROVE Sound'
    BY DEF Sound
  <2>2. pc \notin Paired /\ tear < 2
    <3>1. tear \in Nat
      BY DEF IInv, Types
    <3> QED
      BY <1>13, <2>1, <3>1
  <2>3. Offset(cursor) \in Cells
    BY <2>2 DEF IInv, Sound, Paired
  <2> QED
    BY <1>2, <1>12, <2>2, <2>3 DEF IInv, Sound, Paired, Placed
<1> QED
  BY <1>10, <1>14, <1>15 DEF IInv

LEMMA SpinKeeps ==
  ASSUME IInv, NEW row \in Nat, Spin(row)
  PROVE  IInv'
<1> DEFINE p == [x |-> Width - 1, y |-> row]
<1>1. /\ cells' = Store(cells, p, "spinner")
      /\ index' = index /\ cursor' = cursor /\ pc' = pc /\ ch' = ch /\ byte' = byte
      /\ x' = x /\ y' = y /\ todo' = todo /\ at' = at /\ tear' = tear
  BY DEF Spin, chip, locals, history
<1>2. p.x \in Nat /\ p.y \in Nat /\ p.x = Width - 1
  BY Sizes
<1> HIDE DEF p
<1>3. Apart(Store(cells, p, "spinner"))
  BY <1>2, StoreFacts DEF IInv, Shown
<1>4. Types' /\ Sound'
  BY <1>1 DEF IInv, Types, Sound
<1> QED
  BY <1>1, <1>3, <1>4 DEF IInv

-------------------------------------------------------------------------------
(* The results *)

LEMMA NextKeeps ==
  ASSUME IInv, [Next]_vars
  PROVE  IInv'
<1>1. CASE Kernel
  <2>1. \/ Fetch \/ ReadingLow \/ Selecting \/ getx \/ gety \/ place_char \/ draw
        \/ screen_scroll("draw") \/ screen_scroll("gotoxy_select_low")
        \/ Write("gotoxy_write_low", LOW, "gotoxy_select_high")
        \/ Write("gotoxy_write_high", HIGH, "getx_select_low")
        \/ Enable \/ Halt
    BY <1>1 DEF Kernel, ReadingLow, Selecting, gotoxy
  <2> QED
    BY <2>1, FetchKeeps, ReadLowKeeps, SelectKeeps, getxKeeps, getyKeeps, place_charKeeps,
       drawKeeps, ScrollKeeps, WriteKeeps, EnableKeeps
<1>2. CASE \E code \in ScanCodes : Echo(code)
  BY <1>2, EchoKeeps
<1>3. CASE Spin(0) \/ Spin(Height - 1)
  <2>1. 0 \in Nat /\ Height - 1 \in Nat
    BY Sizes
  <2> QED
    BY <1>3, <2>1, SpinKeeps
<1>4. CASE UNCHANGED vars
  BY <1>4 DEF vars, chip, locals, history, IInv, Types, Sound
<1> QED
  BY <1>1, <1>2, <1>3, <1>4 DEF Next

\* Rows, columns and registers keep their ranges, the two kinds of cells stay
\* apart and the cursor registers hold together.
THEOREM Invariant == Spec => []IInv
<1>1. IInv /\ [Next]_vars => IInv'
  BY NextKeeps
<1> QED
  BY <1>1, InitHolds, PTL DEF Spec

\* No character is printed, echoed or scrolled into the last column, no spinner
\* out of it, on any screen and whatever the handlers interrupt.
THEOREM ColumnsApart == Spec => []SpinnersApart
<1>1. IInv => SpinnersApart
  BY DEF IInv, Apart, Shown, SpinnersApart
<1> QED
  BY <1>1, Invariant, PTL

\* Between two characters the cursor is on the screen, if no echo has split an
\* access to the pair of its registers.
THEOREM CursorStays == Spec => []CursorOnScreen
<1>1. IInv => CursorOnScreen
  BY DEF IInv, Sound, CursorOnScreen, Between
<1> QED
  BY <1>1, Invariant, PTL

-------------------------------------------------------------------------------
(* Induction, and the greatest of some numbers *)

LEMMA Least ==
  ASSUME NEW T \in SUBSET Nat, T # {}
  PROVE  \E m \in T : \A n \in T : m <= n
<1> DEFINE R == {ss \in Nat \X Nat : ss[1] < ss[2]}
<1>1. IsWellFoundedOn(R, Nat)
  BY NatLessThanWellFounded DEF OpToRel
<1>2. PICK m \in T : \A n \in T : <<n, m>> \notin R
  <2> HIDE DEF R
  <2> QED
    BY <1>1, WFMin
<1>3. \A n \in T : m <= n
  <2> SUFFICES ASSUME NEW n \in T PROVE m <= n
    OBVIOUS
  <2>1. <<n, m>> \notin R
    BY <1>2
  <2> QED
    BY <2>1
<1> QED
  BY <1>3

LEMMA Induction ==
  ASSUME NEW T \in SUBSET Nat, 0 \in T, \A n \in T : n + 1 \in T
  PROVE  T = Nat
<1> SUFFICES ASSUME Nat \ T # {} PROVE FALSE
  OBVIOUS
<1>1. PICK m \in Nat \ T : \A n \in Nat \ T : m <= n
  BY Least
<1>2. m - 1 \in Nat /\ m = (m - 1) + 1
  BY <1>1
<1>3. m - 1 \in T
  BY <1>1, <1>2
<1> QED
  BY <1>1, <1>2, <1>3

LEMMA MaxIsGreatest ==
  ASSUME NEW T \in SUBSET Nat, NEW n \in Nat, T # {}, \A k \in T : k <= n
  PROVE  Max(T) \in T /\ \A k \in T : Max(T) >= k
<1> DEFINE D == {n - k : k \in T}
<1>1. D \in SUBSET Nat /\ D # {}
  <2>1. \A k \in T : n - k \in Nat
    OBVIOUS
  <2> QED
    BY <2>1
<1>2. PICK d \in D : \A e \in D : d <= e
  <2> HIDE DEF D
  <2> QED
    BY <1>1, Least
<1>3. PICK m \in T : d = n - m
  BY <1>2
<1>4. \A k \in T : m >= k
  <2> SUFFICES ASSUME NEW k \in T PROVE m >= k
    OBVIOUS
  <2>1. n - k \in D
    OBVIOUS
  <2>2. n - m <= n - k
    BY <1>2, <1>3, <2>1
  <2> QED
    BY <2>2
<1>5. \E g \in T : \A k \in T : g >= k
  BY <1>4
<1> QED
  BY <1>5, Zenon DEF Max

-------------------------------------------------------------------------------
(* The paper *)

\* Where the pen is after each character of a text, up to the n-th.
ArePens(f, p, text, n) == f = [k \in 0 .. n |-> IF k = 0 THEN p ELSE After(f[k - 1], text[k])]

LEMMA PensExist ==
  ASSUME NEW p, NEW text, NEW n \in Nat
  PROVE  \E f : ArePens(f, p, text, n)
<1> DEFINE T == {h \in Nat : \E f : ArePens(f, p, text, h)}
<1>1. 0 \in T
  <2> DEFINE g == [k \in 0 .. 0 |-> p]
  <2>1. g = [k \in 0 .. 0 |-> IF k = 0 THEN p ELSE After(g[k - 1], text[k])]
    OBVIOUS
  <2> HIDE DEF g
  <2>2. ArePens(g, p, text, 0)
    BY <2>1 DEF ArePens
  <2> QED
    BY <2>2
<1>2. ASSUME NEW h \in T PROVE h + 1 \in T
  <2>1. PICK f : f = [k \in 0 .. h |-> IF k = 0 THEN p ELSE After(f[k - 1], text[k])]
    BY DEF ArePens
  <2> DEFINE g == [k \in 0 .. h + 1 |-> IF k = 0 THEN p ELSE After(f[k - 1], text[k])]
  <2>2. \A k \in 0 .. h : g[k] = f[k]
    BY <2>1
  <2>3. \A k \in 0 .. h + 1 : k # 0 => k - 1 \in 0 .. h
    OBVIOUS
  <2>4. \A k \in 0 .. h + 1 : (IF k = 0 THEN p ELSE After(f[k - 1], text[k]))
                              = (IF k = 0 THEN p ELSE After(g[k - 1], text[k]))
    BY <2>2, <2>3
  <2>5. g = [k \in 0 .. h + 1 |-> IF k = 0 THEN p ELSE After(g[k - 1], text[k])]
    BY <2>4
  <2> HIDE DEF g
  <2>6. ArePens(g, p, text, h + 1)
    BY <2>5 DEF ArePens
  <2> QED
    BY <2>6
<1> HIDE DEF T
<1>3. T = Nat
  <2>1. T \in SUBSET Nat
    BY DEF T
  <2> QED
    BY <1>1, <1>2, <2>1, Induction
<1> QED
  BY <1>3 DEF T

First(first) == [row |-> first \div Width, column |-> first % Width]

LEMMA PensAre ==
  ASSUME NEW first, NEW text, Len(text) \in Nat
  PROVE  Pens(first, text)
         = [k \in 0 .. Len(text) |-> IF k = 0 THEN First(first) ELSE After(Pens(first, text)[k - 1], text[k])]
<1>1. \E f : ArePens(f, First(first), text, Len(text))
  BY PensExist
<1>2. \E f : f = [k \in 0 .. Len(text) |-> IF k = 0 THEN First(first) ELSE After(f[k - 1], text[k])]
  BY <1>1, Zenon DEF ArePens
<1> QED
  BY <1>2, Zenon DEF Pens, First

\* A character more moves the pen on from where it was.
LEMMA PensGrow ==
  ASSUME NEW S, NEW first, NEW text \in Seq(S), NEW c \in S
  PROVE  /\ \A n \in 0 .. Len(text) : Pens(first, Append(text, c))[n] = Pens(first, text)[n]
         /\ Pens(first, Append(text, c))[Len(text) + 1] = After(Pens(first, text)[Len(text)], c)
<1> DEFINE more == Append(text, c)
           len == Len(text)
<1>1. /\ more \in Seq(S) /\ Len(more) = len + 1 /\ len \in Nat
      /\ more[len + 1] = c /\ \A n \in 1 .. len : more[n] = text[n]
  BY AppendProperties
<1> DEFINE f == Pens(first, text)
           g == Pens(first, more)
<1> HIDE DEF more
<1>2. f = [k \in 0 .. len |-> IF k = 0 THEN First(first) ELSE After(f[k - 1], text[k])]
  BY <1>1, PensAre
<1>3. g = [k \in 0 .. len + 1 |-> IF k = 0 THEN First(first) ELSE After(g[k - 1], more[k])]
  <2>1. Len(more) \in Nat
    BY <1>1
  <2>2. g = [k \in 0 .. Len(more) |-> IF k = 0 THEN First(first) ELSE After(g[k - 1], more[k])]
    BY <2>1, PensAre
  <2> HIDE DEF g, len
  <2> QED
    BY <1>1, <2>2
<1> HIDE DEF f, g, len
<1> DEFINE T == {n \in Nat : n <= len => g[n] = f[n]}
<1>4. 0 \in T
  BY <1>1, <1>2, <1>3
<1>5. ASSUME NEW n \in T PROVE n + 1 \in T
  <2> SUFFICES ASSUME n + 1 <= len PROVE g[n + 1] = f[n + 1]
    OBVIOUS
  <2>1. n \in Nat /\ n + 1 \in 1 .. len /\ n + 1 \in 0 .. len + 1 /\ (n + 1) - 1 = n /\ n + 1 # 0
    BY <1>1
  <2>2. g[n] = f[n]
    BY <1>1, <2>1
  <2>3. f[n + 1] = After(f[n], text[n + 1]) /\ g[n + 1] = After(g[n], more[n + 1])
    <3>1. n + 1 \in 0 .. len
      BY <2>1
    <3> QED
      BY <1>2, <1>3, <2>1, <3>1
  <2> QED
    BY <1>1, <2>1, <2>2, <2>3
<1>6. T = Nat
  <2> HIDE DEF T
  <2>1. T \in SUBSET Nat
    BY DEF T
  <2> QED
    BY <1>4, <1>5, <2>1, Induction
<1>7. \A n \in 0 .. len : g[n] = f[n]
  BY <1>1, <1>6
<1>8. g[len + 1] = After(f[len], c)
  <2>1. len + 1 \in 0 .. len + 1 /\ (len + 1) - 1 = len /\ len + 1 # 0 /\ len \in 0 .. len
    BY <1>1
  <2>2. g[len + 1] = After(g[len], more[len + 1])
    BY <1>3, <2>1
  <2> QED
    BY <1>1, <1>7, <2>1, <2>2
<1> QED
  BY <1>7, <1>8 DEF f, g, more, len

LEMMA PenGrows ==
  ASSUME NEW S, NEW first, NEW text \in Seq(S), NEW c \in S
  PROVE  Pen(first, Append(text, c)) = After(Pen(first, text), c)
<1>1. Len(Append(text, c)) = Len(text) + 1
  BY AppendProperties
<1> QED
  BY <1>1, PensGrow DEF Pen

LEMMA PenStarts ==
  ASSUME NEW first
  PROVE  Pen(first, <<>>) = First(first)
<1>1. Len(<<>>) = 0
  OBVIOUS
<1>2. Pens(first, <<>>)
      = [k \in 0 .. 0 |-> IF k = 0 THEN First(first) ELSE After(Pens(first, <<>>)[k - 1], <<>>[k])]
  BY <1>1, PensAre
<1>3. Pens(first, <<>>)[0] = First(first)
  BY <1>2
<1> QED
  BY <1>1, <1>3 DEF Pen

\* The last character's mark is on top; the others are where they were.
LEMMA InkGrows ==
  ASSUME NEW S, NEW first, NEW text \in Seq(S), NEW c \in S, NEW row, NEW column
  PROVE  Ink(first, Append(text, c), row, column)
         = IF ~Control(c) /\ Mark(Pen(first, text), c) = [row |-> row, column |-> column]
             THEN Glyph(c) ELSE Ink(first, text, row, column)
<1> DEFINE more == Append(text, c)
           len == Len(text)
           old == Marks(first, text, row, column)
           new == Marks(first, more, row, column)
           place == [row |-> row, column |-> column]
<1>1. /\ Len(more) = len + 1 /\ len \in Nat
      /\ more[len + 1] = c /\ \A n \in 1 .. len : more[n] = text[n]
  BY AppendProperties
<1>2. /\ \A n \in 0 .. len : Pens(first, more)[n] = Pens(first, text)[n]
      /\ Pens(first, text)[len] = Pen(first, text)
  BY PensGrow DEF Pen
<1>3. /\ old = {n \in 1 .. len : ~Control(text[n]) /\ Mark(Pens(first, text)[n - 1], text[n]) = place}
      /\ new = {n \in 1 .. len + 1 : ~Control(more[n]) /\ Mark(Pens(first, more)[n - 1], more[n]) = place}
  BY <1>1 DEF Marks
<1> HIDE DEF old, new, more, place, len
<1>4. \A n \in 1 .. len : n \in new <=> n \in old
  <2> SUFFICES ASSUME NEW n \in 1 .. len PROVE n \in new <=> n \in old
    OBVIOUS
  <2>1. n - 1 \in 0 .. len /\ n \in 1 .. len + 1
    BY <1>1
  <2>2. more[n] = text[n] /\ Pens(first, more)[n - 1] = Pens(first, text)[n - 1]
    BY <1>1, <1>2, <2>1
  <2> QED
    BY <1>3, <2>1, <2>2
<1>5. len + 1 \in new <=> ~Control(c) /\ Mark(Pen(first, text), c) = place
  <2>1. len + 1 \in 1 .. len + 1 /\ (len + 1) - 1 = len /\ len \in 0 .. len
    BY <1>1
  <2> QED
    BY <1>1, <1>2, <1>3, <2>1
<1>6. old \subseteq 1 .. len /\ new \subseteq 1 .. len + 1
  BY <1>3
<1>7. CASE len + 1 \in new
  <2>1. Max(new) \in new /\ \A k \in new : Max(new) >= k
    <3>1. new \in SUBSET Nat /\ len + 1 \in Nat /\ \A k \in new : k <= len + 1
      BY <1>1, <1>6
    <3> QED
      BY <1>7, <3>1, MaxIsGreatest
  <2>2. Max(new) = len + 1
    <3> DEFINE m == Max(new)
    <3>1. m \in 1 .. len + 1 /\ m >= len + 1
      BY <1>6, <1>7, <2>1
    <3> HIDE DEF m
    <3>2. m = len + 1
      BY <1>1, <3>1
    <3> QED
      BY <3>2 DEF m
  <2>3. Ink(first, more, row, column) = Glyph(more[Max(new)])
    BY <1>7 DEF Ink, new
  <2> QED
    BY <1>1, <1>5, <1>7, <2>2, <2>3 DEF more, place
<1>8. CASE len + 1 \notin new
  <2>1. new = old
    <3>1. \A n \in new : n \in 1 .. len
      <4> SUFFICES ASSUME NEW n \in new PROVE n \in 1 .. len
        OBVIOUS
      <4>1. n \in 1 .. len + 1 /\ n # len + 1
        BY <1>6, <1>8
      <4> QED
        BY <1>1, <4>1
    <3>2. \A n : n \in new <=> n \in old
      BY <1>4, <1>6, <3>1
    <3> QED
      BY <3>2
  <2>2. CASE old = {}
    BY <1>5, <1>8, <2>1, <2>2 DEF Ink, new, old, more, place
  <2>3. CASE old # {}
    <3>1. Max(old) \in old
      <4>1. old \in SUBSET Nat /\ \A k \in old : k <= len
        BY <1>1, <1>6
      <4> QED
        BY <1>1, <2>3, <4>1, MaxIsGreatest
    <3>2. more[Max(old)] = text[Max(old)]
      BY <1>1, <1>6, <3>1
    <3>3. Ink(first, more, row, column) = Glyph(more[Max(new)])
      BY <2>1, <2>3 DEF Ink, new
    <3>4. Ink(first, text, row, column) = Glyph(text[Max(old)])
      BY <2>3 DEF Ink, old
    <3> QED
      BY <1>5, <1>8, <2>1, <3>2, <3>3, <3>4 DEF more, place
  <2> QED
    BY <2>2, <2>3
<1> QED
  BY <1>7, <1>8

-------------------------------------------------------------------------------
(* The screen is a window on the paper *)

Places == [row : Nat, column : 0 .. Width - 1]

LEMMA TopFacts ==
  ASSUME NEW row \in Nat
  PROVE  /\ Top(row) \in Nat /\ row - Top(row) \in 0 .. Height - 1
         /\ row < Height + Top(row)
         /\ row - Top(row) = Height - 1 => Top(row + 1) = Top(row) + 1
         /\ row - Top(row) # Height - 1 => Top(row + 1) = Top(row)
         /\ Top(row + 1) > Top(row) => row + 1 = Height + Top(row)
<1>1. Height \in Nat \ {0, 1}
  BY Sizes
<1>2. ASSUME NEW r \in Nat
      PROVE  Top(r) \in {r - (Height - 1), 0} /\ Top(r) >= r - (Height - 1) /\ Top(r) >= 0
  <2>1. r - (Height - 1) \in Int
    BY <1>1
  <2> QED
    BY <2>1, MaxOfTwo DEF Top
<1>3. Top(row) \in {row - (Height - 1), 0} /\ Top(row) >= row - (Height - 1) /\ Top(row) >= 0
  BY <1>2
<1> DEFINE n == row + 1
<1>4. n \in Nat
  OBVIOUS
<1> HIDE DEF n
<1>5. Top(n) \in {n - (Height - 1), 0} /\ Top(n) >= n - (Height - 1) /\ Top(n) >= 0
  BY <1>2, <1>4
<1> SUFFICES /\ Top(row) \in Nat /\ row - Top(row) \in 0 .. Height - 1
             /\ row < Height + Top(row)
             /\ row - Top(row) = Height - 1 => Top(n) = Top(row) + 1
             /\ row - Top(row) # Height - 1 => Top(n) = Top(row)
             /\ Top(n) > Top(row) => n = Height + Top(row)
  BY DEF n
<1>6. n = row + 1
  BY DEF n
<1> QED
  BY <1>1, <1>3, <1>5, <1>6

LEMMA MarkFacts ==
  ASSUME NEW p \in Places, NEW c
  PROVE  /\ Mark(p, c) \in [row : Nat, column : 0 .. Width - 2] /\ After(p, c) \in [row : Nat, column : 0 .. Width - 2]
         /\ Mark(p, c) \in Places /\ After(p, c) \in Places
         /\ p.row <= Mark(p, c).row /\ p.row <= After(p, c).row
         /\ ~Control(c) => Mark(p, c).row <= After(p, c).row
<1>1. Width \in Nat \ {0, 1, 2} /\ p.row \in Nat /\ p.column \in 0 .. Width - 1
  BY Sizes DEF Places
<1> DEFINE column == IF c = "bs" THEN Max({p.column - 1, 0}) ELSE p.column
           m == Mark(p, c)
<1>2. column \in 0 .. Width - 1
  <2>1. Max({p.column - 1, 0}) \in {p.column - 1, 0} /\ Max({p.column - 1, 0}) >= 0
    <3>1. p.column - 1 \in Int /\ 0 \in Int
      BY <1>1
    <3> QED
      BY <3>1, MaxOfTwo
  <2> QED
    BY <1>1, <2>1
<1>3. m = IF column = Width - 1 THEN [row |-> p.row + 1, column |-> 0] ELSE [row |-> p.row, column |-> column]
  BY DEF Mark
<1> HIDE DEF column, m
<1>4. m \in [row : Nat, column : 0 .. Width - 2] /\ p.row <= m.row
  BY <1>1, <1>2, <1>3
<1>5. /\ After(p, c) \in [row : Nat, column : 0 .. Width - 2] /\ p.row <= After(p, c).row
      /\ ~Control(c) => m.row <= After(p, c).row
  <2>1. CASE c = "nl"
    <3>1. After(p, c) = [row |-> p.row + 1, column |-> 0]
      BY <2>1 DEF After
    <3> QED
      BY <1>1, <2>1, <3>1 DEF Control
  <2>2. CASE c = "cr"
    <3>1. After(p, c) = [row |-> p.row, column |-> 0]
      BY <2>2 DEF After
    <3> QED
      BY <1>1, <2>2, <3>1 DEF Control
  <2>3. CASE c \notin {"nl", "cr"}
    <3>1. After(p, c) = IF m.column = Width - 2 THEN [row |-> m.row + 1, column |-> 0]
                                                ELSE [row |-> m.row, column |-> m.column + 1]
      BY <2>3 DEF After, m
    <3> QED
      BY <1>1, <1>4, <3>1
  <2> QED
    BY <2>1, <2>2, <2>3
<1>6. [row : Nat, column : 0 .. Width - 2] \subseteq Places
  BY <1>1 DEF Places
<1> QED
  BY <1>4, <1>5, <1>6 DEF m

\* Position p of the screen shows a place of the paper; it does once the screen
\* has scrolled from line top if that is due.
Under(p, place) == p.x = place.column /\ p.y = place.row - Top(place.row)
Comes(p, place, top) ==
  /\ Under(p, place) /\ p.scroll \in BOOLEAN
  /\ Top(place.row) = IF p.scroll THEN top + 1 ELSE top

LEMMA LineComes ==
  ASSUME NEW p, NEW row \in Nat, p.y = row - Top(row)
  PROVE  Comes(Line(p), [row |-> row + 1, column |-> 0], Top(row))
<1>1. Height \in Nat \ {0, 1} /\ row - Top(row) \in 0 .. Height - 1 /\ Top(row) \in Nat
  BY Sizes, TopFacts
<1> DEFINE q == Line(p)
<1>4. /\ q.x = 0 /\ q.y = IF p.y >= Height - 1 THEN p.y ELSE p.y + 1
      /\ q.scroll \in BOOLEAN /\ (q.scroll <=> p.y >= Height - 1)
  <2>1. q.x = 0 /\ q.y = IF p.y >= Height - 1 THEN p.y ELSE p.y + 1
    BY DEF Line
  <2>2. q.scroll = (p.y >= Height - 1)
    BY DEF Line
  <2>3. (p.y >= Height - 1) \in BOOLEAN
    OBVIOUS
  <2> QED
    BY <2>1, <2>2, <2>3
<1> HIDE DEF q
<1> SUFFICES Comes(q, [row |-> row + 1, column |-> 0], Top(row))
  BY DEF q
<1>2. CASE p.y = Height - 1
  <2>1. q.x = 0 /\ q.y = p.y /\ q.scroll
    BY <1>1, <1>2, <1>4
  <2>2. Top(row + 1) = Top(row) + 1
    BY <1>2, TopFacts
  <2> QED
    BY <1>1, <1>4, <2>1, <2>2 DEF Comes, Under
<1>3. CASE p.y # Height - 1
  <2>1. q.x = 0 /\ q.y = p.y + 1 /\ ~q.scroll
    BY <1>1, <1>3, <1>4
  <2>2. Top(row + 1) = Top(row)
    BY <1>3, TopFacts
  <2> QED
    BY <1>1, <1>4, <2>1, <2>2 DEF Comes, Under
<1> QED
  BY <1>2, <1>3

\* A position in the last column goes to the next line.
LEMMA WrapComes ==
  ASSUME NEW column \in 0 .. Width - 1, NEW row \in Nat
  PROVE  Comes(Wrap([x |-> column, y |-> row - Top(row)]),
               IF column = Width - 1 THEN [row |-> row + 1, column |-> 0] ELSE [row |-> row, column |-> column],
               Top(row))
<1> DEFINE p == [x |-> column, y |-> row - Top(row)]
<1>1. p.x = column /\ p.y = row - Top(row)
  OBVIOUS
<1> HIDE DEF p
<1>2. Width \in Nat \ {0, 1, 2}
  BY Sizes
<1>3. CASE column = Width - 1
  <2>1. Wrap(p) = Line(p)
    BY <1>1, <1>2, <1>3 DEF Wrap
  <2>2. Comes(Line(p), [row |-> row + 1, column |-> 0], Top(row))
    BY <1>1, LineComes
  <2> QED
    BY <1>3, <2>1, <2>2 DEF p
<1>4. CASE column # Width - 1
  <2>1. Wrap(p) = [x |-> column, y |-> row - Top(row), scroll |-> FALSE]
    BY <1>1, <1>2, <1>4 DEF Wrap
  <2>2. Comes(Wrap(p), [row |-> row, column |-> column], Top(row))
    BY <2>1 DEF Comes, Under
  <2> QED
    BY <1>4, <2>2 DEF p
<1> QED
  BY <1>3, <1>4

\* putchar goes to the place of the character's mark, or of the pen after a
\* control character.
LEMMA PlaceComes ==
  ASSUME NEW p \in Places, NEW c
  PROVE  Comes(Place([x |-> p.column, y |-> p.row - Top(p.row)], c),
               IF Control(c) THEN After(p, c) ELSE Mark(p, c), Top(p.row))
<1> DEFINE q == [x |-> p.column, y |-> p.row - Top(p.row)]
<1>1. Width \in Nat \ {0, 1, 2} /\ p.row \in Nat /\ p.column \in 0 .. Width - 1
  BY Sizes DEF Places
<1>2. q.x = p.column /\ q.y = p.row - Top(p.row)
  OBVIOUS
<1> HIDE DEF q
<1> SUFFICES Comes(Place(q, c), IF Control(c) THEN After(p, c) ELSE Mark(p, c), Top(p.row))
  BY DEF q
<1>3. CASE c = "cr"
  <2>1. Place(q, c) = [x |-> 0, y |-> p.row - Top(p.row), scroll |-> FALSE]
    BY <1>2, <1>3 DEF Place
  <2>2. Control(c) /\ After(p, c) = [row |-> p.row, column |-> 0]
    BY <1>3 DEF Control, After
  <2>3. Comes(Place(q, c), [row |-> p.row, column |-> 0], Top(p.row))
    BY <2>1 DEF Comes, Under
  <2> QED
    BY <2>2, <2>3
<1>4. CASE c = "nl"
  <2>1. Place(q, c) = Line(q)
    BY <1>4 DEF Place
  <2>2. Control(c) /\ After(p, c) = [row |-> p.row + 1, column |-> 0]
    BY <1>4 DEF Control, After
  <2>3. Comes(Line(q), [row |-> p.row + 1, column |-> 0], Top(p.row))
    BY <1>1, <1>2, LineComes
  <2> QED
    BY <2>1, <2>2, <2>3
<1>5. CASE c = "bs"
  <2> DEFINE column == Max({p.column - 1, 0})
  <2>1. Place(q, c) = Wrap([x |-> column, y |-> p.row - Top(p.row)]) /\ ~Control(c)
    BY <1>2, <1>5 DEF Place, Control
  <2>2. column \in 0 .. Width - 1
    <3>1. p.column - 1 \in Int /\ 0 \in Int
      BY <1>1
    <3>2. column \in {p.column - 1, 0} /\ column >= 0
      BY <3>1, MaxOfTwo
    <3> HIDE DEF column
    <3> QED
      BY <1>1, <3>2
  <2>3. Mark(p, c) = IF column = Width - 1 THEN [row |-> p.row + 1, column |-> 0]
                                           ELSE [row |-> p.row, column |-> column]
    BY <1>5 DEF Mark
  <2> HIDE DEF column
  <2>4. Comes(Wrap([x |-> column, y |-> p.row - Top(p.row)]), Mark(p, c), Top(p.row))
    BY <1>1, <2>2, <2>3, WrapComes
  <2> QED
    BY <2>1, <2>4
<1>6. CASE c \notin {"cr", "nl", "bs"}
  <2>1. Place(q, c) = Wrap(q) /\ ~Control(c)
    BY <1>6 DEF Place, Control
  <2>2. Mark(p, c) = IF p.column = Width - 1 THEN [row |-> p.row + 1, column |-> 0]
                                             ELSE [row |-> p.row, column |-> p.column]
    BY <1>6 DEF Mark
  <2>3. Comes(Wrap(q), Mark(p, c), Top(p.row))
    BY <1>1, <2>2, WrapComes DEF q
  <2> QED
    BY <2>1, <2>3
<1> QED
  BY <1>3, <1>4, <1>5, <1>6

\* From the mark it goes to where the pen goes on.
LEMMA AfterComes ==
  ASSUME NEW p \in Places, NEW c, ~Control(c)
  PROVE  Comes(Wrap([x |-> Mark(p, c).column + 1, y |-> Mark(p, c).row - Top(Mark(p, c).row)]),
               After(p, c), Top(Mark(p, c).row))
<1> DEFINE m == Mark(p, c)
           column == m.column + 1
<1>1. Width \in Nat \ {0, 1, 2} /\ m.row \in Nat /\ m.column \in 0 .. Width - 2
  <2>1. m \in [row : Nat, column : 0 .. Width - 2]
    BY MarkFacts
  <2> QED
    BY <2>1, Sizes
<1>2. After(p, c) = IF m.column = Width - 2 THEN [row |-> m.row + 1, column |-> 0]
                                            ELSE [row |-> m.row, column |-> m.column + 1]
  BY DEF After, Control
<1> HIDE DEF m
<1>3. column \in 0 .. Width - 1 /\ (m.column = Width - 2 <=> column = Width - 1)
  BY <1>1
<1>4. After(p, c) = IF column = Width - 1 THEN [row |-> m.row + 1, column |-> 0]
                                          ELSE [row |-> m.row, column |-> column]
  BY <1>2, <1>3
<1> HIDE DEF column
<1>5. Comes(Wrap([x |-> column, y |-> m.row - Top(m.row)]), After(p, c), Top(m.row))
  BY <1>1, <1>3, <1>4, WrapComes
<1> QED
  BY <1>5 DEF m, column

\* The screen shows the paper from line top on.
Shows(s, first, text, top) ==
  \A row \in 0 .. Height - 1, column \in 0 .. Width - 2 :
     s[row * Width + column] = Ink(first, text, row + top, column)

\* Its first n cells show one line more: screen_scroll is at work.
Halfway(s, first, text, top, n) ==
  \A row \in 0 .. Height - 1, column \in 0 .. Width - 2 :
     s[row * Width + column] =
       Ink(first, text, IF row * Width + column < n THEN row + 1 + top ELSE row + top, column)

BlankLine(first, text, row) ==
  \A column \in 0 .. Width - 2 : Ink(first, text, row, column) = "blank"

\* Nothing is written below the pen, nor was before the text.
BlankBelow(first, text) ==
  \A row \in Nat : row >= Height /\ row > Pen(first, text).row => BlankLine(first, text, row)

LEMMA TextCell ==
  ASSUME NEW row \in 0 .. Height - 1, NEW column \in 0 .. Width - 2
  PROVE  /\ row * Width + column \in Cells
         /\ (row * Width + column) % Width = column /\ (row * Width + column) \div Width = row
<1>1. column \in Nat /\ row \in Nat /\ Width \in Nat \ {0} /\ column < Width /\ column \in 0 .. Width - 1
  BY Sizes
<1> QED
  BY <1>1, OnScreen, CellOf

LEMMA SameCell ==
  ASSUME NEW row \in 0 .. Height - 1, NEW column \in 0 .. Width - 2,
         NEW r \in 0 .. Height - 1, NEW c \in 0 .. Width - 2,
         row * Width + column = r * Width + c
  PROVE  row = r /\ column = c
  BY TextCell

\* A character's mark on the screen.
LEMMA StoreShows ==
  ASSUME NEW s \in [Cells -> Shown], NEW first, NEW text \in Seq(Char), NEW c \in Char, ~Control(c),
         NEW m, m = Mark(Pen(first, text), c), Pen(first, text) \in Places,
         NEW p, Under(p, m), Shows(s, first, text, Top(m.row))
  PROVE  Shows(Store(s, p, Glyph(c)), first, Append(text, c), Top(m.row))
<1> DEFINE o == p.y * Width + p.x
           top == Top(m.row)
           t == Store(s, p, Glyph(c))
<1>1. m \in [row : Nat, column : 0 .. Width - 2]
  BY MarkFacts
<1>2. p.x \in 0 .. Width - 2 /\ p.y \in 0 .. Height - 1 /\ p.x = m.column /\ p.y + top = m.row /\ top \in Nat
  <2>1. m.row \in Nat /\ m.column \in 0 .. Width - 2
    BY <1>1
  <2>2. top \in Nat /\ m.row - top \in 0 .. Height - 1
    BY <2>1, TopFacts
  <2>3. p.x = m.column /\ p.y = m.row - top
    BY DEF Under
  <2> HIDE DEF top
  <2> QED
    BY <2>1, <2>2, <2>3
<1>3. o \in Cells
  BY <1>2, TextCell
<1>4. t = [s EXCEPT ![o] = Glyph(c)]
  BY <1>3 DEF Store
<1> HIDE DEF o, t
<1>5. t[o] = Glyph(c) /\ \A d \in Cells : d # o => t[d] = s[d]
  BY <1>3, <1>4
<1> HIDE DEF top
<1> SUFFICES ASSUME NEW row \in 0 .. Height - 1, NEW column \in 0 .. Width - 2
             PROVE  t[row * Width + column] = Ink(first, Append(text, c), row + top, column)
  BY DEF Shows, t, top
<1> DEFINE d == row * Width + column
<1>6. Ink(first, Append(text, c), row + top, column)
      = IF m = [row |-> row + top, column |-> column] THEN Glyph(c) ELSE Ink(first, text, row + top, column)
  BY InkGrows
<1>7. CASE row = p.y /\ column = p.x
  <2>1. d = o
    BY <1>7 DEF o
  <2>2. m = [row |-> row + top, column |-> column]
    BY <1>1, <1>2, <1>7
  <2> QED
    BY <1>5, <1>6, <2>1, <2>2
<1>8. CASE ~(row = p.y /\ column = p.x)
  <2>1. d \in Cells /\ d # o
    BY <1>2, <1>8, TextCell, SameCell DEF o
  <2>2. m # [row |-> row + top, column |-> column]
    <3>1. m.row # row + top \/ m.column # column
      BY <1>1, <1>2, <1>8
    <3> QED
      BY <3>1
  <2>3. s[d] = Ink(first, text, row + top, column)
    BY DEF Shows, top
  <2> HIDE DEF d
  <2>4. t[d] = s[d]
    BY <1>5, <2>1
  <2> QED
    BY <1>6, <2>2, <2>3, <2>4 DEF d
<1> QED
  BY <1>7, <1>8

\* A control character leaves none.
LEMMA ControlShows ==
  ASSUME NEW s, NEW first, NEW text \in Seq(Char), NEW c \in Char, Control(c), NEW top \in Nat,
         Shows(s, first, text, top)
  PROVE  Shows(s, first, Append(text, c), top)
<1> SUFFICES ASSUME NEW row \in 0 .. Height - 1, NEW column \in 0 .. Width - 2
             PROVE  s[row * Width + column] = Ink(first, Append(text, c), row + top, column)
  BY DEF Shows
<1> DEFINE r == row + top
<1> HIDE DEF r
<1>1. Ink(first, Append(text, c), r, column)
      = IF ~Control(c) /\ Mark(Pen(first, text), c) = [row |-> r, column |-> column]
          THEN Glyph(c) ELSE Ink(first, text, r, column)
  <2>1. text \in Seq(Char) /\ c \in Char
    OBVIOUS
  <2> QED
    BY ONLY <2>1, InkGrows
<1> QED
  BY <1>1 DEF Shows, r

LEMMA BlankGrows ==
  ASSUME NEW first, NEW text \in Seq(Char), NEW c \in Char, Pen(first, text) \in Places,
         BlankBelow(first, text)
  PROVE  BlankBelow(first, Append(text, c))
<1> DEFINE p == Pen(first, text)
<1>1. Pen(first, Append(text, c)) = After(p, c)
  BY PenGrows
<1>2. /\ p.row <= After(p, c).row /\ (~Control(c) => Mark(p, c).row <= After(p, c).row)
      /\ p.row \in Nat /\ Mark(p, c).row \in Nat /\ After(p, c).row \in Nat
  BY MarkFacts DEF Places
<1> SUFFICES ASSUME NEW row \in Nat, row >= Height, row > After(p, c).row, NEW column \in 0 .. Width - 2
             PROVE  Ink(first, Append(text, c), row, column) = "blank"
  BY <1>1 DEF BlankBelow, BlankLine
<1> HIDE DEF p
<1>3. Control(c) \/ Mark(p, c) # [row |-> row, column |-> column]
  <2> SUFFICES ASSUME ~Control(c), Mark(p, c) = [row |-> row, column |-> column] PROVE FALSE
    OBVIOUS
  <2>1. Mark(p, c).row = row
    OBVIOUS
  <2> QED
    BY <1>2, <2>1
<1>4. Ink(first, Append(text, c), row, column) = Ink(first, text, row, column)
  <2>1. Ink(first, Append(text, c), row, column)
        = IF ~Control(c) /\ Mark(p, c) = [row |-> row, column |-> column] THEN Glyph(c)
                                                              ELSE Ink(first, text, row, column)
    BY InkGrows DEF p
  <2> QED
    BY <1>3, <2>1
<1>5. row > p.row
  BY <1>2
<1>6. BlankLine(first, text, row)
  BY <1>5 DEF BlankBelow, p
<1> QED
  BY <1>4, <1>6 DEF BlankLine

\* The line that scrolls in is blank: before a character's mark and after it.
LEMMA BlankScrollsIn ==
  ASSUME NEW first, NEW text \in Seq(Char), NEW c \in Char, Pen(first, text) \in Places,
         BlankBelow(first, text), NEW top \in Nat
  PROVE  /\ Pen(first, text).row < Height + top => BlankLine(first, text, Height + top)
         /\ Pen(first, text).row < Height + top /\ (Control(c) \/ Mark(Pen(first, text), c).row < Height + top)
              => BlankLine(first, Append(text, c), Height + top)
<1> DEFINE p == Pen(first, text)
           row == Height + top
<1>1. row \in Nat /\ row >= Height
  BY Sizes
<1>2. Pen(first, text).row < row => BlankLine(first, text, row)
  <2> HIDE DEF row
  <2> QED
    BY <1>1 DEF BlankBelow
<1>3. ASSUME p.row < row, Control(c) \/ Mark(p, c).row < row, NEW column \in 0 .. Width - 2
      PROVE  Ink(first, Append(text, c), row, column) = "blank"
  <2> HIDE DEF row
  <2>1. Ink(first, text, row, column) = "blank"
    BY <1>2, <1>3 DEF BlankLine
  <2>2. Control(c) \/ Mark(p, c) # [row |-> row, column |-> column]
    <3> SUFFICES ASSUME ~Control(c), Mark(p, c) = [row |-> row, column |-> column] PROVE FALSE
      OBVIOUS
    <3>1. Mark(p, c).row = row
      OBVIOUS
    <3> HIDE DEF p
    <3> QED
      BY <1>1, <1>3, <3>1
  <2> QED
    BY <2>1, <2>2, InkGrows
<1> QED
  BY <1>2, <1>3 DEF BlankLine

\* screen_scroll, all of it.
LEMMA ScrollShows ==
  ASSUME NEW s \in [Cells -> Shown], NEW first, NEW text, NEW top \in Nat,
         Shows(s, first, text, top), BlankLine(first, text, Height + top)
  PROVE  Shows(Scrolled(s), first, text, top + 1)
<1> SUFFICES ASSUME NEW row \in 0 .. Height - 1, NEW column \in 0 .. Width - 2
             PROVE  Scrolled(s)[row * Width + column] = Ink(first, text, row + (top + 1), column)
  BY DEF Shows
<1> DEFINE d == row * Width + column
<1>1. d \in Cells
  BY TextCell
<1>2. d + Width = (row + 1) * Width + column /\ row + (top + 1) = (row + 1) + top
  BY Sizes
<1>3. CASE row + 1 \in 0 .. Height - 1
  <2>1. d + Width \in Cells
    BY <1>2, <1>3, TextCell
  <2>2. Scrolled(s)[d] = s[d + Width]
    BY <1>1, <2>1 DEF Scrolled
  <2>3. s[(row + 1) * Width + column] = Ink(first, text, (row + 1) + top, column)
    BY <1>3 DEF Shows
  <2> QED
    BY <1>2, <2>2, <2>3
<1>4. CASE row + 1 \notin 0 .. Height - 1
  <2>1. row + 1 = Height
    BY <1>4, Sizes
  <2>2. d + Width \notin Cells
    <3>1. d + Width = Height * Width + column /\ column \in Nat /\ Height * Width = Width * Height
      BY <1>2, <2>1, Sizes
    <3>2. Width * Height \in Nat
      BY Sizes
    <3> HIDE DEF d
    <3> QED
      BY <3>1, <3>2 DEF Cells
  <2>3. Scrolled(s)[d] = "blank"
    BY <1>1, <2>2 DEF Scrolled
  <2>4. Ink(first, text, Height + top, column) = "blank"
    BY DEF BlankLine
  <2>5. row + (top + 1) = Height + top
    BY <2>1, Sizes
  <2> QED
    BY <2>3, <2>4, <2>5
<1> QED
  BY <1>3, <1>4

\* screen_scroll, one cell after the other.
LEMMA HalfwayStarts ==
  ASSUME NEW s, NEW first, NEW text, NEW top \in Nat, Shows(s, first, text, top)
  PROVE  Halfway(s, first, text, top, 0)
<1> SUFFICES ASSUME NEW row \in 0 .. Height - 1, NEW column \in 0 .. Width - 2
             PROVE  s[row * Width + column]
                    = Ink(first, text, IF row * Width + column < 0 THEN row + 1 + top ELSE row + top, column)
  BY DEF Halfway
<1>1. ~(row * Width + column < 0)
  <2>1. row * Width + column \in Nat
    BY TextCell, CellsAreNumbers
  <2> QED
    BY <2>1
<1> QED
  BY <1>1 DEF Shows

LEMMA HalfwayGoesOn ==
  ASSUME NEW s \in [Cells -> Shown], NEW first, NEW text, NEW top \in Nat, NEW n \in Cells,
         Halfway(s, first, text, top, n), BlankLine(first, text, Height + top),
         NEW t, t = [s EXCEPT ![n] = IF n + Width \in Cells THEN s[n + Width] ELSE "blank"]
  PROVE  Halfway(t, first, text, top, n + 1)
<1>1. n \in Nat /\ Width \in Nat \ {0, 1, 2} /\ Height \in Nat \ {0, 1}
  BY CellsAreNumbers, Sizes
<1>2. /\ t[n] = IF n + Width \in Cells THEN s[n + Width] ELSE "blank"
      /\ \A d \in Cells : d # n => t[d] = s[d]
  OBVIOUS
<1> SUFFICES ASSUME NEW row \in 0 .. Height - 1, NEW column \in 0 .. Width - 2
             PROVE  t[row * Width + column]
                    = Ink(first, text, IF row * Width + column < n + 1 THEN row + 1 + top ELSE row + top, column)
  BY DEF Halfway
<1> DEFINE d == row * Width + column
<1>3. d \in Cells /\ d \in Nat
  BY TextCell, CellsAreNumbers
<1>4. s[d] = Ink(first, text, IF d < n THEN row + 1 + top ELSE row + top, column)
  BY DEF Halfway
<1>5. CASE d # n
  <2> HIDE DEF d
  <2>1. t[d] = s[d] /\ (d < n <=> d < n + 1)
    BY <1>1, <1>2, <1>3, <1>5
  <2> QED
    BY <1>4, <2>1 DEF d
<1>6. CASE d = n
  <2>1. d < n + 1
    BY <1>1, <1>6
  <2>2. n + Width = (row + 1) * Width + column
    BY <1>1, <1>6
  <2>3. CASE row + 1 \in 0 .. Height - 1
    <3> DEFINE e == (row + 1) * Width + column
    <3>1. e \in Cells
      BY <2>3, TextCell
    <3>2. s[e] = Ink(first, text, IF e < n THEN row + 1 + 1 + top ELSE row + 1 + top, column)
      <4> DEFINE below == row + 1
      <4> HIDE DEF below
      <4>1. below \in 0 .. Height - 1
        BY <2>3 DEF below
      <4>2. s[below * Width + column] = Ink(first, text, IF below * Width + column < n THEN below + 1 + top ELSE below + top, column)
        BY <4>1 DEF Halfway
      <4> QED
        BY <4>2 DEF below
    <3>3. ~(e < n)
      <4> HIDE DEF e
      <4>1. e = n + Width
        BY <2>2 DEF e
      <4> QED
        BY <1>1, <4>1
    <3>4. t[n] = s[e]
      BY <1>2, <2>2, <3>1
    <3> HIDE DEF e, d
    <3>5. t[d] = Ink(first, text, row + 1 + top, column)
      BY <1>6, <3>2, <3>3, <3>4
    <3> QED
      BY <2>1, <3>5 DEF d
  <2>4. CASE row + 1 \notin 0 .. Height - 1
    <3>1. row + 1 = Height
      BY <1>1, <2>4
    <3>2. n + Width \notin Cells
      <4>1. n + Width = Height * Width + column /\ column \in Nat /\ Height * Width = Width * Height
        BY <1>1, <2>2, <3>1
      <4>2. Width * Height \in Nat
        BY <1>1
      <4> QED
        BY <4>1, <4>2 DEF Cells
    <3>3. t[n] = "blank"
      BY <1>2, <3>2
    <3>4. Ink(first, text, Height + top, column) = "blank"
      BY DEF BlankLine
    <3> HIDE DEF d
    <3>5. t[d] = Ink(first, text, row + 1 + top, column)
      BY <1>6, <3>1, <3>3, <3>4
    <3> QED
      BY <2>1, <3>5 DEF d
  <2> QED
    BY <2>3, <2>4
<1> QED
  BY <1>5, <1>6

LEMMA HalfwayEnds ==
  ASSUME NEW s, NEW first, NEW text, NEW top \in Nat, NEW n \in Cells, n + 1 \notin Cells,
         Halfway(s, first, text, top, n + 1)
  PROVE  Shows(s, first, text, top + 1)
<1>1. Width * Height \in Nat /\ n \in Nat /\ n + 1 = Width * Height
  BY CellsAreNumbers
<1> SUFFICES ASSUME NEW row \in 0 .. Height - 1, NEW column \in 0 .. Width - 2
             PROVE  s[row * Width + column] = Ink(first, text, row + (top + 1), column)
  BY DEF Shows
<1>2. row * Width + column < n + 1
  <2> DEFINE d == row * Width + column
  <2>1. d \in Cells
    BY TextCell
  <2> HIDE DEF d
  <2>2. d < n + 1
    BY <1>1, <2>1 DEF Cells
  <2> QED
    BY <2>2 DEF d
<1>3. row + (top + 1) = row + 1 + top
  OBVIOUS
<1> QED
  BY <1>2, <1>3 DEF Halfway

\* The spinners' column is none of the paper's.
LEMMA SpinnerApart ==
  ASSUME NEW s \in [Cells -> Shown], NEW r \in Nat
  PROVE  \A row \in 0 .. Height - 1, column \in 0 .. Width - 2 :
            Store(s, [x |-> Width - 1, y |-> r], "spinner")[row * Width + column] = s[row * Width + column]
<1> DEFINE p == [x |-> Width - 1, y |-> r]
           o == r * Width + (Width - 1)
<1> SUFFICES ASSUME NEW row \in 0 .. Height - 1, NEW column \in 0 .. Width - 2
             PROVE  Store(s, p, "spinner")[row * Width + column] = s[row * Width + column]
  OBVIOUS
<1>1. Store(s, p, "spinner") = IF o \in Cells THEN [s EXCEPT ![o] = "spinner"] ELSE s
  BY DEF Store
<1>2. o % Width = Width - 1
  <2>1. Width \in Nat \ {0} /\ Width - 1 \in Nat /\ Width - 1 < Width
    BY Sizes
  <2> QED
    BY <2>1, CellOf
<1>3. row * Width + column # o
  <2>1. (row * Width + column) % Width = column /\ column # Width - 1
    BY TextCell, Sizes
  <2> QED
    BY <1>2, <2>1
<1>4. row * Width + column \in Cells
  BY TextCell
<1> HIDE DEF o, p
<1> QED
  BY <1>1, <1>3, <1>4

-------------------------------------------------------------------------------
(* The paper and the steps of putc *)

\* The pen, the mark of the character that is being put, and where the pen goes
\* on; drawn is the last of them that the screen has followed before it goes on.
Here == Pen(start, said)
Mine == Mark(Here, ch)
Beyond == After(Here, ch)
Drawn == IF Control(ch) THEN Here ELSE Mine

Scrolls == {"scroll_then_draw", "scroll_then_gotoxy"}
Finding == Reading \cup {"place", "halt"}
Found == {"gety_select_low", "gety_read_low", "gety_select_high", "gety_read_high", "place"}
Going == {"gotoxy_select_low", "gotoxy_write_low", "gotoxy_select_high", "gotoxy_write_high"}

\* Until putchar moves: the screen shows the paper, the cursor is the pen.
AtPen ==
  pc \in Finding =>
    /\ Shows(cells, start, said, Top(Here.row))
    /\ Offset(cursor) = (Here.row - Top(Here.row)) * Width + Here.column
    /\ pc \in Found => x = Here.column
    /\ pc = "place" => y = Here.row - Top(Here.row)

\* Then it is at the character's mark, scrolling first if that is due.
AtMark ==
  pc \in {"draw", "scroll_then_draw"} =>
    /\ ~Control(ch) /\ Under([x |-> x, y |-> y], Mine)
    /\ pc = "draw" => Shows(cells, start, said, Top(Mine.row))
    /\ pc = "scroll_then_draw" =>
         Top(Mine.row) = Top(Here.row) + 1 /\ Halfway(cells, start, said, Top(Here.row), at)

\* And then, with the character drawn, where the pen goes on.
AtBeyond ==
  pc \in Going \cup {"scroll_then_gotoxy"} =>
    /\ Under([x |-> x, y |-> y], Beyond)
    /\ pc \in Going => Shows(cells, start, Append(said, ch), Top(Beyond.row))
    /\ pc = "scroll_then_gotoxy" =>
         /\ Top(Beyond.row) = Top(Drawn.row) + 1
         /\ Halfway(cells, start, Append(said, ch), Top(Drawn.row), at)

Follows == BlankBelow(start, said) /\ AtPen /\ AtMark /\ AtBeyond

PaperInv ==
  /\ start \in Cells /\ said \in Seq(Char) /\ Here \in Places
  /\ pc \notin Scrolls => at = 0
  /\ tear = 0 => Follows

LEMMA PaperStarts == Init => PaperInv
<1> SUFFICES ASSUME Init PROVE PaperInv
  OBVIOUS
<1>1. start \in Cells /\ said = <<>> /\ tear = 0 /\ at = 0 /\ pc = "getx_select_low" /\ ch = "nl"
  BY ConsoleAssumption DEF Init, Cells
<1>2. said \in Seq(Char) /\ Len(said) = 0
  BY <1>1
<1> DEFINE p == [x |-> start % Width, y |-> start \div Width]
           row == start \div Width
           column == start % Width
<1>3. row \in 0 .. Height - 1 /\ column \in 0 .. Width - 1 /\ row \in Nat
  BY <1>1, OnScreen, Sizes
<1>4. Here = [row |-> row, column |-> column]
  BY <1>1, PenStarts DEF Here, First
<1> HIDE DEF row, column
<1>5. Here \in Places /\ Here.row = row /\ Here.column = column
  BY <1>3, <1>4 DEF Places
<1>6. \A r, c : Ink(start, said, r, c) = IF r < Height THEN "old" ELSE "blank"
  <2> SUFFICES ASSUME NEW r, NEW c PROVE Ink(start, said, r, c) = IF r < Height THEN "old" ELSE "blank"
    OBVIOUS
  <2>1. Marks(start, said, r, c) = {}
    BY <1>2 DEF Marks
  <2> QED
    BY <2>1 DEF Ink
<1>7. BlankBelow(start, said)
  <2> SUFFICES ASSUME NEW r \in Nat, r >= Height, NEW c PROVE Ink(start, said, r, c) = "blank"
    BY DEF BlankBelow, BlankLine
  <2>1. ~(r < Height)
    BY Sizes
  <2> QED
    BY <1>6, <2>1
<1>8. Top(row) = 0
  <2> DEFINE below == row - (Height - 1)
  <2>1. below \in Int /\ below <= 0
    BY <1>3, Sizes
  <2>2. Top(row) = Max({below, 0})
    BY DEF Top
  <2> HIDE DEF below
  <2>3. Max({below, 0}) \in {below, 0} /\ Max({below, 0}) >= 0
    BY <2>1, MaxOfTwo
  <2> QED
    BY <2>1, <2>2, <2>3
<1>9. Shows(cells, start, said, Top(Here.row))
  <2> SUFFICES ASSUME NEW r \in 0 .. Height - 1, NEW c \in 0 .. Width - 2
               PROVE  cells[r * Width + c] = Ink(start, said, r + 0, c)
    BY <1>5, <1>8 DEF Shows
  <2>1. cells[r * Width + c] = "old"
    BY TextCell DEF Init
  <2>2. r + 0 = r /\ r < Height
    BY Sizes
  <2> QED
    BY <1>6, <2>1, <2>2
<1>10. Offset(cursor) = (Here.row - Top(Here.row)) * Width + Here.column
  <2>1. p.x \in Nat /\ p.y \in Nat /\ p.x <= Width - 1 /\ p.y <= Height - 1 /\ p.y * Width + p.x = row * Width + column
    BY <1>3, Sizes DEF row, column
  <2>2. cursor = Registers(p)
    BY DEF Init
  <2> HIDE DEF p
  <2>3. Offset(cursor) = row * Width + column
    BY <2>1, <2>2, RegistersFacts
  <2> QED
    BY <1>3, <1>5, <1>8, <2>3
<1>11. AtPen
  BY <1>1, <1>9, <1>10 DEF AtPen, Found
<1>12. AtMark /\ AtBeyond
  BY <1>1 DEF AtMark, AtBeyond, Going
<1> QED
  BY <1>1, <1>2, <1>5, <1>7, <1>11, <1>12 DEF PaperInv, Follows

\* While the kernel reads the cursor's position and has not used it.
LEMMA FindingStays ==
  ASSUME PaperInv, pc \in Finding, pc' \in Finding \ {"place"}, pc' \in Found => pc \in Found,
         UNCHANGED <<cells, cursor, x, at, start, said, tear>>
  PROVE  PaperInv'
<1>1. Here' = Here /\ cells' = cells /\ cursor' = cursor /\ x' = x /\ at' = at /\ start' = start
      /\ said' = said /\ tear' = tear
  BY DEF Here
<1>2. pc \notin Scrolls /\ pc' \notin Scrolls /\ pc' \notin Going
      /\ pc' \notin {"draw", "scroll_then_draw", "scroll_then_gotoxy"}
  BY DEF Finding, Reading, Scrolls, Going
<1>3. AtPen => AtPen'
  BY <1>1 DEF AtPen
<1>4. AtMark' /\ AtBeyond'
  BY <1>2 DEF AtMark, AtBeyond
<1>5. Follows => Follows'
  BY <1>1, <1>3, <1>4 DEF Follows
<1> QED
  BY <1>1, <1>2, <1>5 DEF PaperInv

Finds ==
  \/ Fetch \/ ReadingLow
  \/ Select("getx_select_high", HIGH, "getx_read_high")
  \/ Select("gety_select_low", LOW, "gety_read_low")
  \/ Select("gety_select_high", HIGH, "gety_read_high")

LEMMA FindsStay ==
  ASSUME PaperInv, Finds \/ Enable \/ Halt
  PROVE  PaperInv'
<1>1. CASE Finds
  <2>1. /\ pc \in Reading /\ pc' \in Reading /\ (pc' \in Found => pc \in Found)
        /\ UNCHANGED <<cells, cursor, x, at, start, said, tear>>
    BY <1>1 DEF Finds, Fetch, ReadingLow, ReadLow, Select, Go, locals, chip, Reading, Found
  <2> QED
    BY <2>1, FindingStays DEF Finding, Reading
<1>2. CASE Enable \/ Halt
  <2>1. /\ pc = "getx_select_low" /\ pc' \in {"getx_select_low", "halt"}
        /\ UNCHANGED <<cells, cursor, x, at, start, said, tear>>
    BY <1>2 DEF Enable, Halt, Go, locals, chip, history
  <2> QED
    BY <2>1, FindingStays DEF Finding, Reading, Found
<1> QED
  BY <1>1, <1>2

\* The pen's position on the screen, read back from its two registers.
LEMMA PenOnScreen ==
  ASSUME PaperInv
  PROVE  LET o == (Here.row - Top(Here.row)) * Width + Here.column
         IN o % Width = Here.column /\ o \div Width = Here.row - Top(Here.row)
<1> DEFINE r == Here.row - Top(Here.row)
<1>1. Here.row \in Nat /\ Here.column \in 0 .. Width - 1
  BY DEF PaperInv, Places
<1>2. r \in Nat
  <2>1. r \in 0 .. Height - 1
    BY <1>1, TopFacts
  <2> HIDE DEF r
  <2> QED
    BY <2>1, Sizes
<1>3. Here.column \in Nat /\ Width \in Nat \ {0} /\ Here.column < Width
  BY <1>1, Sizes
<1> HIDE DEF r
<1>4. (r * Width + Here.column) % Width = Here.column /\ (r * Width + Here.column) \div Width = r
  BY <1>2, <1>3, CellOf
<1> QED
  BY <1>4 DEF r

LEMMA getxFinds ==
  ASSUME IInv, PaperInv, getx
  PROVE  PaperInv'
<1>1. /\ pc = "getx_read_high" /\ pc' = "gety_select_low"
      /\ x' = (cursor[index] * Byte + byte) % Width
      /\ cells' = cells /\ cursor' = cursor /\ at' = at /\ tear' = tear /\ start' = start /\ said' = said
  BY DEF getx, Go, chip
<1>2. Here' = Here
  BY <1>1 DEF Here
<1>3. tear = 0 => x' = Here.column
  <2> SUFFICES ASSUME tear = 0 PROVE x' = Here.column
    OBVIOUS
  <2>1. x' = Offset(cursor) % Width
    BY <1>1 DEF IInv, Sound, Offset
  <2>2. Offset(cursor) = (Here.row - Top(Here.row)) * Width + Here.column
    BY <1>1 DEF PaperInv, Follows, AtPen, Finding, Reading
  <2> QED
    BY <2>1, <2>2, PenOnScreen
<1>4. tear = 0 /\ AtPen => AtPen'
  BY <1>1, <1>2, <1>3 DEF AtPen, Finding, Reading
<1>5. AtMark' /\ AtBeyond'
  BY <1>1 DEF AtMark, AtBeyond, Going
<1> QED
  BY <1>1, <1>2, <1>4, <1>5 DEF PaperInv, Follows, Scrolls

LEMMA getyFinds ==
  ASSUME IInv, PaperInv, gety
  PROVE  PaperInv'
<1>1. /\ pc = "gety_read_high" /\ pc' = "place"
      /\ y' = (cursor[index] * Byte + byte) \div Width
      /\ cells' = cells /\ cursor' = cursor /\ x' = x /\ at' = at /\ tear' = tear /\ start' = start
      /\ said' = said
  BY DEF gety, Go, chip
<1>2. Here' = Here
  BY <1>1 DEF Here
<1>3. tear = 0 => y' = Here.row - Top(Here.row)
  <2> SUFFICES ASSUME tear = 0 PROVE y' = Here.row - Top(Here.row)
    OBVIOUS
  <2>1. y' = Offset(cursor) \div Width
    BY <1>1 DEF IInv, Sound, Offset
  <2>2. Offset(cursor) = (Here.row - Top(Here.row)) * Width + Here.column
    BY <1>1 DEF PaperInv, Follows, AtPen, Finding, Reading
  <2> QED
    BY <2>1, <2>2, PenOnScreen
<1>4. tear = 0 /\ AtPen => AtPen'
  BY <1>1, <1>2, <1>3 DEF AtPen, Finding, Reading, Found
<1>5. AtMark' /\ AtBeyond'
  BY <1>1 DEF AtMark, AtBeyond, Going
<1> QED
  BY <1>1, <1>2, <1>4, <1>5 DEF PaperInv, Follows, Scrolls

\* What the invariant says of the character that is being put.
LEMMA HereFacts ==
  ASSUME IInv, PaperInv
  PROVE  /\ Here \in Places /\ Mine \in Places /\ Beyond \in Places /\ Drawn \in Places
         /\ Here.row \in Nat /\ Mine.row \in Nat /\ Beyond.row \in Nat /\ Drawn.row \in Nat
         /\ Top(Here.row) \in Nat /\ Top(Mine.row) \in Nat /\ Top(Beyond.row) \in Nat /\ Top(Drawn.row) \in Nat
         /\ Here = [row |-> Here.row, column |-> Here.column]
         /\ ch \in Char /\ said \in Seq(Char) /\ Append(said, ch) \in Seq(Char)
         /\ cells \in [Cells -> Shown]
<1>1. Here \in Places /\ ch \in Char /\ said \in Seq(Char) /\ cells \in [Cells -> Shown]
  BY DEF PaperInv, IInv, Types, Apart
<1>2. Mine \in Places /\ Beyond \in Places
  BY <1>1, MarkFacts DEF Mine, Beyond
<1>3. Drawn \in Places
  BY <1>1, <1>2 DEF Drawn
<1>4. Here.row \in Nat /\ Mine.row \in Nat /\ Beyond.row \in Nat /\ Drawn.row \in Nat
  BY <1>1, <1>2, <1>3 DEF Places
<1>5. Here = [row |-> Here.row, column |-> Here.column]
  BY <1>1 DEF Places
<1>6. Append(said, ch) \in Seq(Char)
  BY <1>1
<1> QED
  BY <1>1, <1>2, <1>3, <1>4, <1>5, <1>6, TopFacts

\* putchar at the place where the character goes.
LEMMA place_charFollows ==
  ASSUME IInv, PaperInv, place_char
  PROVE  PaperInv'
<1> DEFINE p == [x |-> x, y |-> y]
           q == Place(p, ch)
           then == IF Control(ch) THEN "gotoxy_select_low" ELSE "draw"
<1>1. /\ pc = "place" /\ pc' = (IF q.scroll THEN Scrolling(then) ELSE then)
      /\ x' = q.x /\ y' = q.y /\ cells' = cells /\ ch' = ch /\ at' = at /\ tear' = tear
      /\ start' = start /\ said' = said
  BY DEF place_char, Move, Go, chip
<1>2. Here' = Here /\ Mine' = Mine /\ Beyond' = Beyond /\ Drawn' = Drawn
  BY <1>1 DEF Here, Mine, Beyond, Drawn
<1>3. pc' \notin Finding /\ (pc' = "place" => FALSE)
  <2>1. pc' \in {"scroll_then_draw", "scroll_then_gotoxy", "draw", "gotoxy_select_low"}
    BY <1>1 DEF Scrolling
  <2> QED
    BY <2>1 DEF Finding, Reading
<1>4. at = 0
  BY <1>1 DEF PaperInv, Scrolls
<1> SUFFICES ASSUME tear = 0 PROVE AtMark' /\ AtBeyond'
  <2>1. tear = 0 => Follows'
    BY <1>1, <1>3 DEF AtPen, PaperInv, Follows
  <2> QED
    BY <1>1, <1>2, <1>4, <2>1 DEF PaperInv
<1>5. x = Here.column /\ y = Here.row - Top(Here.row) /\ Shows(cells, start, said, Top(Here.row))
  BY <1>1 DEF PaperInv, Follows, AtPen, Finding, Found
<1> DEFINE place == IF Control(ch) THEN Beyond ELSE Mine
<1>6. Comes(q, place, Top(Here.row))
  <2>1. p = [x |-> Here.column, y |-> Here.row - Top(Here.row)]
    BY <1>5
  <2> HIDE DEF p
  <2> QED
    BY <2>1, HereFacts, PlaceComes DEF Mine, Beyond
<1> HIDE DEF q, place
<1>7. /\ q.x = place.column /\ q.y = place.row - Top(place.row) /\ q.scroll \in BOOLEAN
      /\ q.scroll => Top(place.row) = Top(Here.row) + 1
      /\ ~q.scroll => Top(place.row) = Top(Here.row)
  BY <1>6 DEF Comes, Under
<1>8. Under([x |-> x', y |-> y'], place)
  BY <1>1, <1>7 DEF Under
<1>9. CASE Control(ch)
  <2>1. pc' = IF q.scroll THEN "scroll_then_gotoxy" ELSE "gotoxy_select_low"
    BY <1>1, <1>9 DEF Scrolling
  <2>2. place = Beyond /\ Drawn = Here
    BY <1>9 DEF place, Drawn
  <2>3. Shows(cells, start, Append(said, ch), Top(Here.row))
    BY <1>5, <1>9, HereFacts, ControlShows
  <2>4. Halfway(cells, start, Append(said, ch), Top(Here.row), 0)
    BY <2>3, HereFacts, HalfwayStarts
  <2>5. AtMark'
    BY <2>1, <1>7 DEF AtMark
  <2>6. CASE q.scroll
    <3>1. pc' = "scroll_then_gotoxy"
      BY <2>1, <2>6
    <3> QED
      BY <1>1, <1>2, <1>4, <1>7, <1>8, <2>2, <2>4, <2>5, <2>6, <3>1 DEF AtBeyond, Going
  <2>7. CASE ~q.scroll
    <3>1. pc' = "gotoxy_select_low"
      BY <2>1, <2>7
    <3> QED
      BY <1>1, <1>2, <1>7, <1>8, <2>2, <2>3, <2>5, <2>7, <3>1 DEF AtBeyond, Going
  <2> QED
    BY <2>6, <2>7
<1>10. CASE ~Control(ch)
  <2>1. pc' = IF q.scroll THEN "scroll_then_draw" ELSE "draw"
    BY <1>1, <1>10 DEF Scrolling
  <2>2. place = Mine
    BY <1>10 DEF place
  <2>3. Halfway(cells, start, said, Top(Here.row), 0)
    BY <1>5, HereFacts, HalfwayStarts
  <2>4. AtBeyond'
    BY <2>1, <1>7 DEF AtBeyond, Going
  <2>5. CASE q.scroll
    <3>1. pc' = "scroll_then_draw"
      BY <2>1, <2>5
    <3> QED
      BY <1>1, <1>2, <1>4, <1>7, <1>8, <1>10, <2>2, <2>3, <2>4, <2>5, <3>1 DEF AtMark
  <2>6. CASE ~q.scroll
    <3>1. pc' = "draw"
      BY <2>1, <2>6
    <3> QED
      BY <1>1, <1>2, <1>5, <1>7, <1>8, <1>10, <2>2, <2>4, <2>6, <3>1 DEF AtMark
  <2> QED
    BY <2>5, <2>6
<1> QED
  BY <1>9, <1>10

LEMMA drawFollows ==
  ASSUME IInv, PaperInv, draw
  PROVE  PaperInv'
<1> DEFINE p == [x |-> x, y |-> y]
           q == Wrap([x |-> x + 1, y |-> y])
<1>1. /\ pc = "draw" /\ pc' = (IF q.scroll THEN "scroll_then_gotoxy" ELSE "gotoxy_select_low")
      /\ cells' = Store(cells, p, Glyph(ch))
      /\ x' = q.x /\ y' = q.y /\ ch' = ch /\ at' = at /\ tear' = tear /\ start' = start /\ said' = said
  BY DEF draw, Move, Go, chip, Scrolling
<1>2. Here' = Here /\ Mine' = Mine /\ Beyond' = Beyond /\ Drawn' = Drawn
  BY <1>1 DEF Here, Mine, Beyond, Drawn
<1>3. pc' \in {"scroll_then_gotoxy", "gotoxy_select_low"}
  BY <1>1
<1>4. at = 0
  BY <1>1 DEF PaperInv, Scrolls
<1> SUFFICES ASSUME tear = 0 PROVE AtBeyond'
  <2>1. AtPen' /\ AtMark'
    BY <1>3 DEF AtPen, AtMark, Finding, Reading
  <2>2. tear = 0 => Follows'
    BY <1>1, <2>1 DEF PaperInv, Follows
  <2> QED
    BY <1>1, <1>2, <1>4, <2>2 DEF PaperInv
<1>5. ~Control(ch) /\ Under(p, Mine) /\ Shows(cells, start, said, Top(Mine.row))
  BY <1>1 DEF PaperInv, Follows, AtMark
<1>6. Drawn = Mine /\ Mine = Mark(Pen(start, said), ch) /\ Beyond = After(Here, ch)
  BY <1>5 DEF Drawn, Mine, Here, Beyond
<1>7. Shows(cells', start, Append(said, ch), Top(Mine.row))
  <2>1. Pen(start, said) \in Places
    BY HereFacts DEF Here
  <2> HIDE DEF p
  <2>2. Shows(Store(cells, p, Glyph(ch)), start, Append(said, ch), Top(Mine.row))
    BY <1>5, <1>6, <2>1, HereFacts, StoreShows
  <2> QED
    BY <1>1, <2>2
<1>8. Halfway(cells', start, Append(said, ch), Top(Mine.row), 0)
  BY <1>7, HereFacts, HalfwayStarts
<1>9. Comes(q, Beyond, Top(Mine.row))
  <2>1. x = Mine.column /\ y = Mine.row - Top(Mine.row)
    BY <1>5 DEF Under
  <2>2. q = Wrap([x |-> Mine.column + 1, y |-> Mine.row - Top(Mine.row)])
    BY <2>1
  <2> HIDE DEF q
  <2> QED
    BY <1>5, <2>2, HereFacts, AfterComes DEF Mine, Beyond
<1> HIDE DEF q
<1>10. /\ q.x = Beyond.column /\ q.y = Beyond.row - Top(Beyond.row) /\ q.scroll \in BOOLEAN
       /\ q.scroll => Top(Beyond.row) = Top(Mine.row) + 1
       /\ ~q.scroll => Top(Beyond.row) = Top(Mine.row)
  BY <1>9 DEF Comes, Under
<1>11. Under([x |-> x', y |-> y'], Beyond)
  BY <1>1, <1>10 DEF Under
<1>12. CASE q.scroll
  <2>1. pc' = "scroll_then_gotoxy"
    BY <1>1, <1>12
  <2> QED
    BY <1>1, <1>2, <1>4, <1>6, <1>8, <1>10, <1>11, <1>12, <2>1 DEF AtBeyond, Going
<1>13. CASE ~q.scroll
  <2>1. pc' = "gotoxy_select_low"
    BY <1>1, <1>10, <1>13
  <2> QED
    BY <1>1, <1>2, <1>6, <1>7, <1>10, <1>11, <1>13, <2>1 DEF AtBeyond, Going
<1> QED
  BY <1>12, <1>13

\* The next cell that screen_scroll writes.
LEMMA NextCell ==
  ASSUME NEW n \in Cells
  PROVE  (n + 1) % (Width * Height) = IF n + 1 \in Cells THEN n + 1 ELSE 0
<1> DEFINE w == Width * Height
<1>1. w \in Nat \ {0} /\ n \in 0 .. w - 1 /\ Cells = 0 .. w - 1
  BY CellsAreNumbers
<1> HIDE DEF w
<1> SUFFICES (n + 1) % w = IF n + 1 \in Cells THEN n + 1 ELSE 0
  BY DEF w
<1>2. CASE n + 1 \in 0 .. w - 1
  <2> DEFINE m == n + 1
  <2>1. m \in 0 .. w - 1 /\ m \in Nat
    BY <1>1, <1>2
  <2> HIDE DEF m
  <2>2. m % w = m
    BY <1>1, <2>1
  <2>3. m \in Cells
    BY <1>1, <2>1
  <2> QED
    BY <2>2, <2>3 DEF m
<1>3. CASE n + 1 \notin 0 .. w - 1
  <2>1. n + 1 = w
    BY <1>1, <1>3
  <2>2. w % w = 0
    BY <1>1
  <2> QED
    BY <1>1, <1>3, <2>1, <2>2
<1> QED
  BY <1>1, <1>2, <1>3

\* A cell of the scroll before the mark, or before the pen goes on.
LEMMA ScrollFollows ==
  ASSUME IInv, PaperInv, NEW then, then \in {"draw", "gotoxy_select_low"}, screen_scroll(then)
  PROVE  PaperInv'
<1>1. /\ pc = Scrolling(then) /\ pc' = IF at + 1 \in Cells THEN Scrolling(then) ELSE then
      /\ cells' = [cells EXCEPT ![at] = IF at + Width \in Cells THEN cells[at + Width] ELSE "blank"]
      /\ at' = (at + 1) % (Width * Height)
      /\ x' = x /\ y' = y /\ ch' = ch /\ tear' = tear /\ start' = start /\ said' = said
  BY DEF screen_scroll, Go, locals
<1>2. Here' = Here /\ Mine' = Mine /\ Beyond' = Beyond /\ Drawn' = Drawn
  BY <1>1 DEF Here, Mine, Beyond, Drawn
<1>3. at \in Cells /\ at' = IF at + 1 \in Cells THEN at + 1 ELSE 0
  BY <1>1, NextCell DEF IInv, Types
<1>4. pc' \notin Finding
  BY <1>1 DEF Finding, Reading, Scrolling
<1>5. pc' \notin Scrolls => at' = 0
  BY <1>1, <1>3 DEF Scrolls, Scrolling
<1> SUFFICES ASSUME tear = 0 PROVE AtMark' /\ AtBeyond'
  <2>1. tear = 0 => Follows'
    BY <1>1, <1>4 DEF AtPen, PaperInv, Follows
  <2> QED
    BY <1>1, <1>2, <1>5, <2>1 DEF PaperInv
<1>6. BlankBelow(start, said) /\ Here.row < Height + Top(Here.row) /\ Mine.row < Height + Top(Mine.row)
      /\ Here.row <= Mine.row /\ Height \in Nat
  <2>1. BlankBelow(start, said)
    BY DEF PaperInv, Follows
  <2>2. Here.row <= Mine.row
    BY HereFacts, MarkFacts DEF Mine
  <2> QED
    BY <2>1, <2>2, HereFacts, TopFacts, Sizes
<1>7. Pen(start, said) = Here /\ Mark(Pen(start, said), ch) = Mine
  BY DEF Here, Mine
<1>8. CASE then = "draw"
  <2>1. pc = "scroll_then_draw" /\ pc' = IF at + 1 \in Cells THEN "scroll_then_draw" ELSE "draw"
    BY <1>1, <1>8 DEF Scrolling
  <2>2. /\ ~Control(ch) /\ Under([x |-> x, y |-> y], Mine)
        /\ Top(Mine.row) = Top(Here.row) + 1 /\ Halfway(cells, start, said, Top(Here.row), at)
    BY <2>1 DEF PaperInv, Follows, AtMark
  <2>3. BlankLine(start, said, Height + Top(Here.row))
    BY <1>6, <1>7, HereFacts, BlankScrollsIn
  <2>4. Halfway(cells', start, said, Top(Here.row), at + 1)
    BY <1>1, <1>3, <2>2, <2>3, HereFacts, HalfwayGoesOn
  <2>5. AtBeyond'
    BY <2>1 DEF AtBeyond, Going
  <2>6. CASE at + 1 \in Cells
    <3>1. pc' = "scroll_then_draw" /\ at' = at + 1
      BY <1>3, <2>1, <2>6
    <3> QED
      BY <1>1, <1>2, <2>2, <2>4, <2>5, <3>1 DEF AtMark
  <2>7. CASE at + 1 \notin Cells
    <3>1. pc' = "draw"
      BY <2>1, <2>7
    <3>2. Shows(cells', start, said, Top(Mine.row))
      BY <1>3, <2>2, <2>4, <2>7, HereFacts, HalfwayEnds
    <3> QED
      BY <1>1, <1>2, <2>2, <2>5, <3>1, <3>2 DEF AtMark
  <2> QED
    BY <2>6, <2>7
<1>9. CASE then = "gotoxy_select_low"
  <2> DEFINE text == Append(said, ch)
  <2>1. pc = "scroll_then_gotoxy" /\ pc' = IF at + 1 \in Cells THEN "scroll_then_gotoxy" ELSE "gotoxy_select_low"
    BY <1>1, <1>9 DEF Scrolling
  <2>2. /\ Under([x |-> x, y |-> y], Beyond)
        /\ Top(Beyond.row) = Top(Drawn.row) + 1 /\ Halfway(cells, start, text, Top(Drawn.row), at)
    BY <2>1 DEF PaperInv, Follows, AtBeyond, Going
  <2>3. BlankLine(start, text, Height + Top(Drawn.row))
    <3>1. Here.row < Height + Top(Drawn.row) /\ (Control(ch) \/ Mine.row < Height + Top(Drawn.row))
      <4>1. CASE Control(ch)
        BY <1>6, <4>1 DEF Drawn
      <4>2. CASE ~Control(ch)
        <5>1. Here.row < Height + Top(Mine.row)
          BY <1>6, HereFacts
        <5> QED
          BY <1>6, <4>2, <5>1 DEF Drawn
      <4> QED
        BY <4>1, <4>2
    <3> QED
      BY <1>6, <1>7, <3>1, HereFacts, BlankScrollsIn
  <2> HIDE DEF text
  <2>4. Halfway(cells', start, text, Top(Drawn.row), at + 1)
    BY <1>1, <1>3, <2>2, <2>3, HereFacts, HalfwayGoesOn
  <2>5. AtMark'
    BY <2>1 DEF AtMark
  <2>6. text' = text
    BY <1>1 DEF text
  <2>7. CASE at + 1 \in Cells
    <3>1. pc' = "scroll_then_gotoxy" /\ at' = at + 1
      BY <1>3, <2>1, <2>7
    <3> QED
      BY <1>1, <1>2, <2>2, <2>4, <2>5, <2>6, <3>1 DEF AtBeyond, Going, text
  <2>8. CASE at + 1 \notin Cells
    <3>1. pc' = "gotoxy_select_low"
      BY <2>1, <2>8
    <3>2. Shows(cells', start, text, Top(Beyond.row))
      BY <1>3, <2>2, <2>4, <2>8, HereFacts, HalfwayEnds
    <3> QED
      BY <1>1, <1>2, <2>2, <2>5, <2>6, <3>1, <3>2 DEF AtBeyond, Going, text
  <2> QED
    BY <2>7, <2>8
<1> QED
  BY <1>8, <1>9

\* The accesses of gotoxy before the last one.
LEMMA GoingStays ==
  ASSUME IInv, PaperInv,
         \/ Select("gotoxy_select_low", LOW, "gotoxy_write_low")
         \/ Select("gotoxy_select_high", HIGH, "gotoxy_write_high")
         \/ Write("gotoxy_write_low", LOW, "gotoxy_select_high")
  PROVE  PaperInv'
<1>1. /\ pc \in Going /\ pc' \in Going
      /\ cells' = cells /\ ch' = ch /\ x' = x /\ y' = y /\ at' = at /\ tear' = tear
      /\ start' = start /\ said' = said
  BY DEF Select, Write, Go, locals, Going, LOW, HIGH
<1>2. Here' = Here /\ Beyond' = Beyond
  BY <1>1 DEF Here, Beyond
<1>3. pc' \notin Finding /\ pc' \notin {"draw", "scroll_then_draw", "scroll_then_gotoxy"}
      /\ pc \notin Scrolls /\ pc' \notin Scrolls
  BY <1>1 DEF Finding, Reading, Going, Scrolls
<1>4. AtPen' /\ AtMark'
  BY <1>3 DEF AtPen, AtMark
<1>5. AtBeyond => AtBeyond'
  BY <1>1, <1>2, <1>3 DEF AtBeyond
<1> QED
  BY <1>1, <1>2, <1>3, <1>4, <1>5 DEF PaperInv, Follows

\* With the cursor's high byte the character is put.
LEMMA LastWriteFollows ==
  ASSUME IInv, PaperInv, Write("gotoxy_write_high", HIGH, "getx_select_low")
  PROVE  PaperInv'
<1> DEFINE p == [x |-> x, y |-> y]
           r == Registers(p)
<1>1. /\ pc = "gotoxy_write_high" /\ pc' = "getx_select_low"
      /\ cursor' = [cursor EXCEPT ![index] = r[HIGH]] /\ said' = Append(said, ch)
      /\ cells' = cells /\ at' = at /\ tear' = tear /\ start' = start
  BY DEF Write, Go, locals
<1>2. Here' = Beyond
  <2>1. Pen(start, Append(said, ch)) = After(Pen(start, said), ch)
    BY HereFacts, PenGrows
  <2> QED
    BY <1>1, <2>1 DEF Here, Beyond
<1>3. said' \in Seq(Char) /\ Here' \in Places /\ start' \in Cells /\ at' = 0
  BY <1>1, <1>2, HereFacts DEF PaperInv, Scrolls
<1> SUFFICES ASSUME tear = 0 PROVE Follows'
  BY <1>1, <1>3 DEF PaperInv
<1>4. BlankBelow(start', said')
  <2>1. Pen(start, said) \in Places
    BY HereFacts DEF Here
  <2>2. BlankBelow(start, said)
    BY DEF PaperInv, Follows
  <2> QED
    BY <1>1, <2>1, <2>2, HereFacts, BlankGrows
<1>5. Under(p, Beyond) /\ Shows(cells, start, Append(said, ch), Top(Beyond.row))
  BY <1>1 DEF PaperInv, Follows, AtBeyond, Going
<1>6. x = Beyond.column /\ y = Beyond.row - Top(Beyond.row)
  BY <1>5 DEF Under
<1>7. Offset(cursor') = y * Width + x
  <2>1. index = HIGH /\ cursor[LOW] = r[LOW] /\ y <= Height - 1
    BY <1>1 DEF IInv, Sound, Placed
  <2>2. p.x \in Nat /\ p.y \in Nat /\ p.x <= Width - 1 /\ p.y <= Height - 1 /\ p.x = x /\ p.y = y
    BY <2>1, Sizes DEF IInv, Types
  <2>3. Offset(Registers(p)) = p.y * Width + p.x
    <3> HIDE DEF p
    <3> QED
      BY <2>2, RegistersFacts
  <2> HIDE DEF r, p
  <2>4. cursor'[LOW] = r[LOW] /\ cursor'[HIGH] = r[HIGH]
    BY <1>1, <2>1 DEF IInv, Types, Cursor, LOW, HIGH
  <2> QED
    BY <2>2, <2>3, <2>4 DEF Offset, r
<1>8. AtPen'
  BY <1>1, <1>2, <1>5, <1>6, <1>7 DEF AtPen, Found
<1>9. AtMark' /\ AtBeyond'
  BY <1>1 DEF AtMark, AtBeyond, Going
<1> QED
  BY <1>4, <1>8, <1>9 DEF Follows

-------------------------------------------------------------------------------
(* The paper and the handlers *)

\* A key echoed between two of the kernel's characters is one more character;
\* after a key echoed elsewhere nothing is promised.
LEMMA EchoFollows ==
  ASSUME IInv, PaperInv, NEW code \in ScanCodes, Echo(code)
  PROVE  PaperInv'
<1> DEFINE p == [x |-> Offset(cursor) % Width, y |-> Offset(cursor) \div Width]
<1>1. PICK c \in decode(code) \ {"none"} :
        LET place == Place(p, c)
            clear == IF place.scroll THEN Scrolled(cells) ELSE cells
            next == IF Control(c) THEN place ELSE Wrap([x |-> place.x + 1, y |-> place.y])
            drawn == IF Control(c) THEN clear ELSE Store(clear, place, Glyph(c))
        IN /\ cells' = IF next.scroll /\ ~Control(c) THEN Scrolled(drawn) ELSE drawn
           /\ index' = HIGH /\ cursor' = Registers(next)
           /\ said' = Append(said, c)
  BY DEF Echo
<1>2. /\ pc' = pc /\ ch' = ch /\ x' = x /\ y' = y /\ at' = at /\ start' = start
      /\ tear' = Max({tear, IF pc \in Between THEN 0 ELSE IF pc \in Paired THEN 2 ELSE 1})
  BY DEF Echo, locals
<1> DEFINE place == Place(p, c)
           clear == IF place.scroll THEN Scrolled(cells) ELSE cells
           over == Wrap([x |-> place.x + 1, y |-> place.y])
           next == IF Control(c) THEN place ELSE over
           drawn == IF Control(c) THEN clear ELSE Store(clear, place, Glyph(c))
           text == Append(said, c)
           mark == Mark(Here, c)
           pen == After(Here, c)
           top == Top(Here.row)
<1>3. /\ cells' = IF next.scroll /\ ~Control(c) THEN Scrolled(drawn) ELSE drawn
      /\ cursor' = Registers(next) /\ said' = text
  BY <1>1
<1>4. c \in Char
  BY decodeFacts DEF Char
<1>5. text \in Seq(Char) /\ Pen(start, text) = pen /\ Pen(start, said) = Here
  BY <1>4, HereFacts, PenGrows DEF Here
<1>6. Here' = pen
  BY <1>2, <1>3, <1>5 DEF Here
<1>7. /\ Here \in Places /\ mark \in Places /\ pen \in Places
      /\ Here.row \in Nat /\ mark.row \in Nat /\ pen.row \in Nat
      /\ Here.row <= mark.row /\ pen \in [row : Nat, column : 0 .. Width - 2]
      /\ top \in Nat /\ Top(mark.row) \in Nat /\ Top(pen.row) \in Nat
      /\ Here.row < Height + top /\ mark.row < Height + Top(mark.row) /\ Height \in Nat
  <2>1. /\ Here \in Places /\ mark \in Places /\ pen \in Places
        /\ Here.row <= mark.row /\ pen \in [row : Nat, column : 0 .. Width - 2]
    BY HereFacts, MarkFacts
  <2> HIDE DEF mark, pen
  <2>2. Here.row \in Nat /\ mark.row \in Nat /\ pen.row \in Nat
    BY <2>1 DEF Places
  <2> QED
    BY <2>1, <2>2, TopFacts, Sizes
<1>8. tear' = 0 => pc \in Between /\ tear = 0
  <2> DEFINE worse == IF pc \in Between THEN 0 ELSE IF pc \in Paired THEN 2 ELSE 1
  <2>1. worse \in Nat /\ (worse = 0 => pc \in Between)
    OBVIOUS
  <2>2. tear' = Max({tear, worse}) /\ tear \in Nat
    BY <1>2 DEF IInv, Types
  <2> HIDE DEF worse
  <2>3. Max({tear, worse}) >= tear /\ Max({tear, worse}) >= worse
    <3>1. tear \in Int /\ worse \in Int
      BY <2>1, <2>2
    <3> QED
      BY <3>1, MaxOfTwo
  <2> QED
    BY <2>1, <2>2, <2>3
<1> SUFFICES ASSUME tear' = 0 PROVE Follows'
  <2>1. start' \in Cells /\ said' \in Seq(Char) /\ Here' \in Places /\ (pc' \notin Scrolls => at' = 0)
    BY <1>2, <1>3, <1>5, <1>6, <1>7 DEF PaperInv
  <2> QED
    BY <2>1 DEF PaperInv
<1>9. pc \in Between /\ tear = 0 /\ pc \in Finding /\ pc \notin Found
      /\ pc' \notin Going \cup {"draw", "scroll_then_draw", "scroll_then_gotoxy"}
  BY <1>2, <1>8 DEF Between, Finding, Reading, Found, Going
<1>10. /\ BlankBelow(start, said) /\ Shows(cells, start, said, top)
       /\ Offset(cursor) = (Here.row - top) * Width + Here.column
  BY <1>9 DEF PaperInv, Follows, AtPen
<1>11. p = [x |-> Here.column, y |-> Here.row - top]
  BY <1>10, PenOnScreen
<1>12. BlankBelow(start, text)
  BY <1>4, <1>5, <1>7, <1>10, HereFacts, BlankGrows
<1>13. Comes(place, IF Control(c) THEN pen ELSE mark, top)
  <2> HIDE DEF p
  <2> QED
    BY <1>7, <1>11, PlaceComes
<1> HIDE DEF p, place, mark, pen, text, top, over
<1>14. place.scroll \in BOOLEAN
  BY <1>13 DEF Comes
<1>15. clear \in [Cells -> Shown]
  <2>1. Apart(cells) /\ Apart(Scrolled(cells))
    BY ScrolledFacts DEF IInv
  <2> QED
    BY <2>1 DEF Apart
<1>16. BlankLine(start, said, Height + top)
  BY <1>4, <1>5, <1>7, <1>10, HereFacts, BlankScrollsIn
<1>17. Shows(clear, start, said, IF place.scroll THEN top + 1 ELSE top)
  <2>1. Shows(Scrolled(cells), start, said, top + 1)
    BY <1>7, <1>10, <1>16, HereFacts, ScrollShows
  <2> QED
    BY <1>10, <1>14, <2>1
<1> HIDE DEF clear
<1>18. Shows(cells', start, text, Top(pen.row)) /\ Under(next, pen)
  <2>1. CASE Control(c)
    <3>1. next = place /\ cells' = clear
      BY <1>3, <2>1
    <3>2. Under(place, pen) /\ Top(pen.row) = IF place.scroll THEN top + 1 ELSE top
      BY <1>13, <2>1 DEF Comes
    <3>3. Shows(clear, start, said, Top(pen.row))
      BY <1>17, <3>2
    <3>4. Shows(clear, start, text, Top(pen.row))
      BY <1>4, <1>7, <2>1, <3>3, HereFacts, ControlShows DEF text
    <3> QED
      BY <3>1, <3>2, <3>4
  <2>2. CASE ~Control(c)
    <3>1. next = over /\ drawn = Store(clear, place, Glyph(c))
          /\ cells' = IF over.scroll THEN Scrolled(drawn) ELSE drawn
      BY <1>3, <2>2
    <3>2. Under(place, mark) /\ Top(mark.row) = IF place.scroll THEN top + 1 ELSE top
      BY <1>13, <2>2 DEF Comes
    <3>3. Shows(clear, start, said, Top(mark.row))
      BY <1>17, <3>2
    <3>4. Shows(drawn, start, text, Top(mark.row))
      <4>1. mark = Mark(Pen(start, said), c) /\ Pen(start, said) \in Places
        BY <1>5, <1>7 DEF mark
      <4> QED
        BY <1>4, <1>15, <2>2, <3>1, <3>2, <3>3, <4>1, HereFacts, StoreShows DEF text
    <3>5. Comes(over, pen, Top(mark.row))
      <4>1. place.x = mark.column /\ place.y = mark.row - Top(mark.row)
        BY <3>2 DEF Under
      <4>2. over = Wrap([x |-> mark.column + 1, y |-> mark.row - Top(mark.row)])
        BY <4>1 DEF over
      <4> QED
        BY <1>7, <2>2, <4>2, AfterComes DEF mark, pen
    <3>6. Under(over, pen) /\ over.scroll \in BOOLEAN
          /\ Top(pen.row) = IF over.scroll THEN Top(mark.row) + 1 ELSE Top(mark.row)
      BY <3>5 DEF Comes
    <3>7. drawn \in [Cells -> Shown]
      <4>1. Glyph(c) \in Shown
        BY <1>4, GlyphFacts
      <4> QED
        BY <1>15, <3>1, <4>1 DEF Store
    <3>8. BlankLine(start, text, Height + Top(mark.row))
      <4>1. Here.row < Height + Top(mark.row) /\ mark.row < Height + Top(mark.row)
        BY <1>7
      <4>2. mark = Mark(Pen(start, said), c)
        BY <1>5 DEF mark
      <4> QED
        BY <1>4, <1>5, <1>7, <1>10, <4>1, <4>2, HereFacts, BlankScrollsIn DEF text
    <3> HIDE DEF drawn
    <3>9. Shows(Scrolled(drawn), start, text, Top(mark.row) + 1)
      BY <1>7, <3>4, <3>7, <3>8, ScrollShows
    <3> QED
      BY <3>1, <3>4, <3>6, <3>9
  <2> QED
    BY <2>1, <2>2
<1> HIDE DEF next
<1>19. Offset(cursor') = (pen.row - Top(pen.row)) * Width + pen.column
  <2>1. next.x = pen.column /\ next.y = pen.row - Top(pen.row)
    BY <1>18 DEF Under
  <2>2. pen.row - Top(pen.row) \in 0 .. Height - 1 /\ pen.column \in 0 .. Width - 2
    BY <1>7, TopFacts
  <2>3. next.x \in Nat /\ next.y \in Nat /\ next.x <= Width - 1 /\ next.y <= Height - 1
    BY <2>1, <2>2, Sizes
  <2> QED
    BY <1>3, <2>1, <2>3, RegistersFacts
<1>20. AtPen'
  BY <1>2, <1>3, <1>6, <1>9, <1>18, <1>19 DEF AtPen, Between, Found
<1>21. AtMark' /\ AtBeyond'
  BY <1>9 DEF AtMark, AtBeyond
<1>22. BlankBelow(start', said')
  BY <1>2, <1>3, <1>12
<1> QED
  BY <1>20, <1>21, <1>22 DEF Follows

LEMMA SpinFollows ==
  ASSUME IInv, PaperInv, NEW row \in Nat, Spin(row)
  PROVE  PaperInv'
<1>1. /\ cells' = Store(cells, [x |-> Width - 1, y |-> row], "spinner")
      /\ cursor' = cursor /\ pc' = pc /\ ch' = ch /\ x' = x /\ y' = y /\ at' = at
      /\ start' = start /\ said' = said /\ tear' = tear
  BY DEF Spin, chip, locals, history
<1>2. Here' = Here /\ Mine' = Mine /\ Beyond' = Beyond /\ Drawn' = Drawn
  BY <1>1 DEF Here, Mine, Beyond, Drawn
<1>3. \A r \in 0 .. Height - 1, c \in 0 .. Width - 2 : cells'[r * Width + c] = cells[r * Width + c]
  <2>1. cells \in [Cells -> Shown]
    BY DEF IInv, Apart
  <2> QED
    BY <1>1, <2>1, SpinnerApart
<1>4. \A text, top : Shows(cells, start, text, top) => Shows(cells', start, text, top)
  BY <1>3 DEF Shows
<1>5. \A text, top, n : Halfway(cells, start, text, top, n) => Halfway(cells', start, text, top, n)
  BY <1>3 DEF Halfway
<1>6. AtPen => AtPen'
  BY <1>1, <1>2, <1>4 DEF AtPen
<1>7. AtMark => AtMark'
  BY <1>1, <1>2, <1>4, <1>5 DEF AtMark
<1>8. AtBeyond => AtBeyond'
  BY <1>1, <1>2, <1>4, <1>5 DEF AtBeyond
<1> QED
  BY <1>1, <1>2, <1>6, <1>7, <1>8 DEF PaperInv, Follows

LEMMA NextFollows ==
  ASSUME IInv, PaperInv, [Next]_vars
  PROVE  PaperInv'
<1>1. CASE Kernel
  <2>1. \/ Finds \/ Enable \/ Halt \/ getx \/ gety \/ place_char \/ draw
        \/ screen_scroll("draw") \/ screen_scroll("gotoxy_select_low")
        \/ Select("gotoxy_select_low", LOW, "gotoxy_write_low")
        \/ Select("gotoxy_select_high", HIGH, "gotoxy_write_high")
        \/ Write("gotoxy_write_low", LOW, "gotoxy_select_high")
        \/ Write("gotoxy_write_high", HIGH, "getx_select_low")
    BY <1>1 DEF Kernel, Finds, ReadingLow, gotoxy
  <2> QED
    BY <2>1, FindsStay, getxFinds, getyFinds, place_charFollows, drawFollows, ScrollFollows,
       GoingStays, LastWriteFollows
<1>2. CASE \E code \in ScanCodes : Echo(code)
  BY <1>2, EchoFollows
<1>3. CASE Spin(0) \/ Spin(Height - 1)
  <2>1. 0 \in Nat /\ Height - 1 \in Nat
    BY Sizes
  <2> QED
    BY <1>3, <2>1, SpinFollows
<1>4. CASE UNCHANGED vars
  <2>1. /\ cells' = cells /\ cursor' = cursor /\ pc' = pc /\ ch' = ch /\ x' = x /\ y' = y /\ at' = at
        /\ start' = start /\ said' = said /\ tear' = tear
    BY <1>4 DEF vars, chip, locals, history
  <2>2. Here' = Here /\ Mine' = Mine /\ Beyond' = Beyond /\ Drawn' = Drawn
    BY <2>1 DEF Here, Mine, Beyond, Drawn
  <2>3. Follows' <=> Follows
    BY <2>1, <2>2 DEF Follows, AtPen, AtMark, AtBeyond
  <2> QED
    BY <2>1, <2>2, <2>3 DEF PaperInv
<1> QED
  BY <1>1, <1>2, <1>3, <1>4 DEF Next

\* On any screen and for any text: what has been printed and typed stands where
\* a roll of paper would have it, the screen shows the end of the roll and the
\* cursor is under its pen, unless an echo has split one of putc's characters.
THEOREM TextStays == Spec => []TextShown
<1>1. IInv /\ PaperInv => TextShown
  <2> SUFFICES ASSUME IInv, PaperInv, pc \in Between, tear = 0 PROVE TextShown
    BY DEF TextShown
  <2>1. /\ Shows(cells, start, said, Top(Here.row))
        /\ Offset(cursor) = (Here.row - Top(Here.row)) * Width + Here.column
    BY DEF PaperInv, Follows, AtPen, Finding, Reading, Between
  <2> QED
    BY <2>1 DEF TextShown, Shows, Here
<1>2. IInv /\ PaperInv /\ [Next]_vars => IInv' /\ PaperInv'
  BY NextKeeps, NextFollows
<1>3. Init => IInv /\ PaperInv
  BY InitHolds, PaperStarts
<1> QED
  BY <1>1, <1>2, <1>3, PTL DEF Spec

===============================================================================
