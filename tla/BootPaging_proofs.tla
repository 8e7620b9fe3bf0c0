--------------------------- MODULE BootPaging_proofs ---------------------------
(***************************************************************************)
(* What holds of the page tables at boot for every kernel image, memory    *)
(* map, size of tables and layout in the order of kernel.h.                *)
(***************************************************************************)
EXTENDS BootPaging, FiniteSetTheorems, TLAPS

-------------------------------------------------------------------------------
(* The invariant *)

Value == Nat \cup {NotPresent}
Self == Slot(PageTableBase)
KernelSlot == Slot(KernelBase)

\* What the tables below directory r, as they are in memory m, make of a page.
WalkIn(m, r, p) ==
  IF m[r][Slot(p)] = NotPresent THEN NotPresent ELSE m[m[r][Slot(p)]][Index(p)]

\* A directory that shows itself, with a table of its own for every slot.
Tree(m, r) ==
  /\ r \in Frame /\ m[r][Self] = r
  /\ \A s \in Entry : m[r][s] \in Frame \cup {NotPresent}
  /\ \A s, u \in Entry : m[r][s] = m[r][u] /\ m[r][s] # NotPresent => s = u

Within(m, r, low, high) ==
  \A s \in Entry : m[r][s] = NotPresent \/ (low <= m[r][s] /\ m[r][s] < high)

Unused(m, r, f) == \A s \in Entry : m[r][s] # f

\* Slots without a table, each of which may still cost a frame.
Absent(m, r) == {s \in Entry : m[r][s] = NotPresent}

Top == Low1M + image  \* the first frame behind the image
LowWindow == PageLow1MBase .. PageLow1MBase + Low1M - 1

\* The entries of the memory map that are mapped, and their pages.
Area(n) == Told(n).begin .. Told(n).end - 1
FirmwarePage(p) == \E n \in 1 .. map_count : Mapped(Told(n)) /\ p \in Area(n)

\* What the new tables may make of a page; for the database's frames see Stored.
Meant(p, f) ==
  \/ p < Low1M /\ f = p
  \/ p \in LowWindow /\ f = p - PageLow1MBase
  \/ p \in Image /\ f = Low1M + p - KernelBase
  \/ p \in Database
  \/ FirmwarePage(p) /\ f = p

Booting == {"loader", "map"}
Asking == {"e820", "real", "answered"}
Filling == {"low", "fill", "image", "table"}
Building == {"rebuild", "clear"} \cup Filling
Running == {"window", "database", "scan", "usable"}

Types ==
  /\ machine \in Machines /\ image \in Images
  /\ mem \in [Frame -> [Entry -> Value]]
  /\ pc \in Booting \cup Asking \cup Building \cup Running
  /\ i \in Nat /\ dir \in Nat /\ table \in Nat /\ frame_min \in Nat
  /\ job \in [frame : Nat, page : Nat, left : Nat]
  /\ fresh \in BOOLEAN /\ ebx \in Nat /\ map_count \in Nat
  /\ paging \in BOOLEAN /\ (paging <=> pc \notin Booting \cup {"real", "answered"})

\* startup_page_mode: the tables of the kernel are consecutive frames.
Started ==
  pc = "map" =>
    /\ i <= LoaderPages
    /\ PT_KERNEL_PA <= table /\ i <= (table - PT_KERNEL_PA + 1) * Entries
    /\ table = PT_KERNEL_PA \/ (table - PT_KERNEL_PA) * Entries < i
    /\ \A s \in Entry :
         mem[PAGE_DIR_PA][s] =
           IF s = Self THEN PAGE_DIR_PA
           ELSE IF s = 0 THEN PT_LOW1M_PA
           ELSE IF KernelSlot <= s /\ s - KernelSlot <= table - PT_KERNEL_PA
             THEN PT_KERNEL_PA + (s - KernelSlot) ELSE NotPresent
    /\ \A p \in 0 .. Low1M - 1 : mem[PT_LOW1M_PA][p] = p
    /\ \A p \in KernelBase .. KernelBase + i - 1 :
         WalkIn(mem, PAGE_DIR_PA, p) = Low1M + p - KernelBase

\* After its last entry the BIOS goes on to answer carry for the same ebx.
EndUntold == machine.last = "carry" /\ Len(machine.map) > 0 /\ ebx = Len(machine.map)

\* A map whose end was told is taken as it is, or with an empty entry behind it.
Counted ==
  IF Complete THEN map_count \in {Len(machine.map), Len(machine.map) + 1}
              ELSE map_count = 0 \/ Len(machine.map) = 0

\* get_mem_info: each entry is asked for once.
Asked ==
  /\ pc \in Booting => ebx = 0
  /\ pc \in {"e820", "real"} =>
       /\ i < MAX_MEM_MAP
       /\ (i <= Len(machine.map) /\ ebx = i) \/ (Len(machine.map) < i /\ EndUntold)
       /\ i = Len(machine.map) /\ i > 0 => machine.last # "zero"
  /\ pc = "answered" =>
       /\ i < MAX_MEM_MAP
       /\ \/ i < Len(machine.map) /\ ebx = IF i + 1 = Len(machine.map) /\ machine.last = "zero" THEN 0 ELSE i + 1
          \/ i = Len(machine.map) /\ ebx = 0 /\ (i = 0 \/ machine.last = "carry_zero")
          \/ Len(machine.map) <= i /\ EndUntold
  /\ pc \in Booting \cup Asking => map_count = 0
  /\ pc \in Building \cup Running => Counted

\* Until CR3 is loaded the loader's tables are in force, and show what they
\* showed but for the temporary pages.
OldTables ==
  pc \in Asking \cup Building =>
    /\ cr3 = PAGE_DIR_PA /\ Tree(mem, cr3) /\ Within(mem, cr3, 0, Low1M)
    /\ \A p \in 0 .. Low1M - 1 : WalkIn(mem, cr3, p) = p
    /\ \A p \in Image \ {TmpDir, TmpTable} : WalkIn(mem, cr3, p) = Low1M + p - KernelBase

\* The frames of the new tables, shown by the temporary pages.
NewFrames ==
  /\ pc \in Booting \cup Asking \cup {"rebuild"} => dir = 0 /\ frame_min = Top
  /\ pc = "clear" => frame_min = Top + 1
  /\ pc \in Filling \cup {"clear"} =>
       /\ Top <= dir /\ dir < frame_min /\ frame_min <= Frames
       /\ WalkIn(mem, cr3, TmpDir) = dir
  /\ pc \in Filling \ {"low"} =>
       /\ Top <= table /\ table < frame_min
       /\ WalkIn(mem, cr3, TmpTable) = table
  /\ pc \in Filling =>
       frame_min + Cardinality(Absent(mem, dir))
         <= Top + Entries + (IF pc \in {"fill", "table"} THEN 1 ELSE 0)
  /\ pc \in Running =>
       frame_min + Cardinality(Absent(mem, dir))
         <= Top + Entries + (IF pc = "window" THEN 0 ELSE DbPages)

\* The new tables while they are filled.
NewTables ==
  pc \in Filling =>
    /\ Tree(mem, dir) /\ Within(mem, dir, Top, frame_min)
    /\ pc \in {"fill", "table"} => Unused(mem, dir, table)
    /\ pc \in {"low", "fill"} => \A s \in Entry \ {Self} : mem[dir][s] = NotPresent
    /\ \A p \in Page : Slot(p) # Self =>
         WalkIn(mem, dir, p) = NotPresent \/ Meant(p, WalkIn(mem, dir, p))
    /\ pc \in {"image", "table"} =>
         /\ i <= image /\ (pc = "table" => i < image)
         /\ \A p \in (0 .. Low1M - 1) \cup (KernelBase .. KernelBase + i - 1) :
              WalkIn(mem, dir, p) # NotPresent
         /\ \A s \in Entry : mem[dir][s] # NotPresent =>
              s = 0 \/ s = Self \/ (KernelSlot <= s /\ s <= Slot(KernelBase + i))
         /\ i < image => mem[dir][Slot(KernelBase + i)] \in {NotPresent, table}
         /\ pc = "table" => mem[dir][Slot(KernelBase + i)] = NotPresent

\* The table of these pages has not been cleared yet.
Off(p) == fresh /\ Slot(p) = Slot(job.page)

\* The pages that have been mapped.
Reached(p) ==
  \/ p < Low1M
  \/ p \in LowWindow /\ (pc = "window" => p < job.page)
  \/ p \in Image
  \/ p \in Database /\ pc # "window" /\ (pc = "database" => p < job.page)
  \/ pc \in {"scan", "usable"} /\ \E n \in 1 .. map_count :
       /\ Mapped(Told(n)) /\ p \in Area(n)
       /\ n < i - 1 \/ (n = i - 1 /\ p < job.page)

\* The new tables in force.
Mapping ==
  pc \in Running =>
    /\ cr3 = dir /\ Tree(mem, dir) /\ Within(mem, dir, Top, frame_min)
    /\ \A p \in Page : Slot(p) # Self /\ ~Off(p) =>
         WalkIn(mem, dir, p) = NotPresent \/ Meant(p, WalkIn(mem, dir, p))
    /\ \A p \in Page : Reached(p) => WalkIn(mem, dir, p) # NotPresent /\ ~Off(p)
    /\ fresh => job.left > 0 /\ mem[dir][Slot(job.page)] # NotPresent

\* The database has frames of its own.
Stored ==
  pc \in Running => \A p \in Database : ~Off(p) /\ WalkIn(mem, dir, p) # NotPresent =>
    LET f == WalkIn(mem, dir, p) IN
    /\ Top <= f /\ f < frame_min /\ Unused(mem, dir, f)
    /\ pc # "window"
    /\ pc = "database" => f < job.frame
    /\ \A q \in Database \ {p} : ~Off(q) => WalkIn(mem, dir, q) # f

\* What the running map_pages maps.
Job ==
  /\ pc \notin Running => ~fresh /\ job.left = 0
  /\ pc = "window" =>
       /\ PageLow1MBase <= job.page /\ job.page + job.left = PageLow1MBase + Low1M
       /\ job.frame = job.page - PageLow1MBase
  /\ pc = "database" =>
       /\ PageFrameBase <= job.page /\ job.page + job.left = PageFrameBase + DbPages
       /\ Top <= job.frame /\ job.frame + job.left <= frame_min
       /\ \A f \in job.frame .. job.frame + job.left - 1 : Unused(mem, dir, f)
  /\ pc = "scan" =>
       /\ 0 < i /\ i <= map_count + 1
       /\ i = 1 => job.left = 0
       /\ i > 1 /\ Mapped(Told(i - 1)) =>
            /\ Told(i - 1).begin <= job.page
            /\ job.page + job.left = Told(i - 1).end
            /\ job.frame = job.page
       /\ i > 1 /\ ~Mapped(Told(i - 1)) => job.left = 0
  /\ pc = "usable" => job.left = 0 /\ i = map_count + 1
       /\ (i > 1 /\ Mapped(Told(i - 1)) => job.page = Told(i - 1).end)

\* What the TLB remembers is what the tables say.
Coherent(c, m, r) ==
  \A p \in DOMAIN c : p \in Page /\ c[p] = WalkIn(m, r, p) /\ c[p] # NotPresent

Cache ==
  /\ pc \in Booting \cup Asking => tlb = <<>>
  /\ paging => Coherent(tlb, mem, cr3)
  /\ pc \in Running => \A p \in DOMAIN tlb :
       (Slot(p) = Self \/ (pc \in {"scan", "usable"} /\ p \in Database)) /\ ~Off(p)

IInv ==
  /\ Types /\ Started /\ Asked /\ OldTables /\ NewFrames /\ NewTables
  /\ Mapping /\ Stored /\ Job /\ Cache

-------------------------------------------------------------------------------
(* Pages, slots and the layout *)

LEMMA DivMod ==
  ASSUME NEW n \in Nat, NEW w \in Nat \ {0}
  PROVE  /\ n % w \in 0 .. w - 1 /\ n \div w \in Nat
         /\ n = w * (n \div w) + (n % w)
  OBVIOUS

LEMMA CellOf ==
  ASSUME NEW e \in Nat, NEW s \in Nat, NEW w \in Nat \ {0}, e < w
  PROVE  /\ s * w + e \in Nat
         /\ (s * w + e) % w = e /\ (s * w + e) \div w = s
  OBVIOUS

LEMMA OfSlot ==
  ASSUME NEW s \in Entry, NEW e \in Entry
  PROVE  /\ s * Entries + e \in Page
         /\ Slot(s * Entries + e) = s /\ Index(s * Entries + e) = e
<1>1. Entries \in Nat \ {0} /\ s \in Nat /\ e \in Nat /\ e < Entries /\ s < Entries
  BY NumbersAssumption DEF Entry
<1>2. Slot(s * Entries + e) = s /\ Index(s * Entries + e) = e /\ s * Entries + e \in Nat
  BY <1>1, CellOf DEF Slot, Index
<1>3. s * Entries + e < Entries * Entries
  <2>1. (s + 1) * Entries <= Entries * Entries
    BY <1>1
  <2>2. (s + 1) * Entries = s * Entries + Entries
    BY <1>1
  <2>3. s * Entries \in Nat /\ Entries * Entries \in Nat
    BY <1>1
  <2> QED
    BY <1>1, <2>1, <2>2, <2>3
<1> QED
  BY <1>1, <1>2, <1>3 DEF Page

LEMMA OfPage ==
  ASSUME NEW p \in Page
  PROVE  /\ Slot(p) \in Entry /\ Index(p) \in Entry
         /\ p = Slot(p) * Entries + Index(p)
<1>1. Entries \in Nat \ {0} /\ p \in Nat /\ p < Entries * Entries
  BY NumbersAssumption DEF Page
<1>2. Slot(p) \in Nat /\ Index(p) \in 0 .. Entries - 1 /\ p = Entries * Slot(p) + Index(p)
  BY <1>1, DivMod DEF Slot, Index
<1>3. Slot(p) < Entries
  <2> SUFFICES ASSUME Slot(p) >= Entries PROVE FALSE
    BY <1>1, <1>2
  <2>1. Entries * Slot(p) >= Entries * Entries
    BY <1>1, <1>2
  <2>2. Entries * Slot(p) \in Nat /\ Entries * Entries \in Nat
    BY <1>1, <1>2
  <2> QED
    BY <1>1, <1>2, <2>1, <2>2
<1>4. Entries * Slot(p) = Slot(p) * Entries
  BY <1>1, <1>2
<1> QED
  BY <1>1, <1>2, <1>3, <1>4 DEF Entry

\* A page is its slot and its index.
LEMMA SamePage ==
  ASSUME NEW p \in Page, NEW q \in Page, Slot(p) = Slot(q), Index(p) = Index(q)
  PROVE  p = q
  BY OfPage

\* Slots come in the order of their pages.
LEMMA SlotBounds ==
  ASSUME NEW p \in Nat, NEW s \in Nat
  PROVE  /\ s * Entries <= p => s <= Slot(p)
         /\ p < s * Entries => Slot(p) < s
         /\ Slot(p) \in Nat
<1>1. Entries \in Nat \ {0}
  BY NumbersAssumption
<1>2. Slot(p) \in Nat /\ Index(p) \in 0 .. Entries - 1 /\ p = Entries * Slot(p) + Index(p)
  BY <1>1, DivMod DEF Slot, Index
<1>3. ASSUME s * Entries <= p PROVE s <= Slot(p)
  <2> SUFFICES ASSUME Slot(p) + 1 <= s PROVE FALSE
    BY <1>2
  <2>1. (Slot(p) + 1) * Entries <= s * Entries
    BY <1>1, <1>2
  <2>2. (Slot(p) + 1) * Entries = Entries * Slot(p) + Entries
    BY <1>1, <1>2
  <2>3. s * Entries \in Nat /\ Entries * Slot(p) \in Nat
    BY <1>1, <1>2
  <2> QED
    BY <1>1, <1>2, <1>3, <2>1, <2>2, <2>3
<1>4. ASSUME p < s * Entries PROVE Slot(p) < s
  <2> SUFFICES ASSUME s <= Slot(p) PROVE FALSE
    BY <1>2
  <2>1. s * Entries <= Slot(p) * Entries
    BY <1>1, <1>2
  <2>2. Slot(p) * Entries = Entries * Slot(p)
    BY <1>1, <1>2
  <2>3. s * Entries \in Nat /\ Entries * Slot(p) \in Nat
    BY <1>1, <1>2
  <2> QED
    BY <1>1, <1>2, <1>4, <2>1, <2>2, <2>3
<1> QED
  BY <1>2, <1>3, <1>4

\* Where the regions of the address space lie.
LEMMA Layout ==
  /\ Self \in Entry /\ KernelSlot \in Entry /\ 0 \in Entry
  /\ KernelBase = KernelSlot * Entries /\ PageTableBase = Self * Entries
  /\ 0 < KernelSlot /\ KernelSlot < Self
  /\ PageLow1MBase + Low1M - 1 \in Page
<1>1. /\ Entries \in Nat \ {0} /\ KernelBase \in Nat \ {0} /\ PageTableBase \in Nat
      /\ PageLow1MBase \in Nat /\ Low1M \in Nat \ {0} /\ Entries * Entries \in Nat
  BY NumbersAssumption
<1>2. /\ KernelBase % Entries = 0 /\ PageTableBase % Entries = 0
      /\ KernelBase < PageTableBase /\ PageTableBase + Entries <= PageLow1MBase
      /\ PageLow1MBase + Low1M <= Entries * Entries
  BY NumbersAssumption, LayoutAssumption
<1>3. KernelBase \in Page /\ PageTableBase \in Page /\ PageLow1MBase + Low1M - 1 \in Page
  BY <1>1, <1>2 DEF Page
<1>4. /\ KernelBase = KernelSlot * Entries /\ KernelSlot \in Entry
      /\ PageTableBase = Self * Entries /\ Self \in Entry
  <2>1. /\ KernelBase = KernelSlot * Entries + Index(KernelBase) /\ KernelSlot \in Entry
        /\ PageTableBase = Self * Entries + Index(PageTableBase) /\ Self \in Entry
    BY <1>3, OfPage DEF KernelSlot, Self
  <2>2. Index(KernelBase) = 0 /\ Index(PageTableBase) = 0
    BY <1>2 DEF Index
  <2>3. KernelSlot * Entries \in Nat /\ Self * Entries \in Nat
    BY <1>1, <2>1 DEF Entry
  <2> QED
    BY <2>1, <2>2, <2>3
<1>5. KernelSlot \in Nat /\ Self \in Nat
  BY <1>4 DEF Entry
<1>6. KernelSlot < Self
  BY <1>1, <1>2, <1>4, <1>5, SlotBounds DEF KernelSlot
<1>7. 0 < KernelSlot
  <2> SUFFICES ASSUME KernelSlot = 0 PROVE FALSE
    BY <1>5
  <2> QED
    BY <1>1, <1>4
<1> QED
  BY <1>1, <1>3, <1>4, <1>6, <1>7 DEF Entry

LEMMA Regions ==
  /\ \A p \in 0 .. Low1M - 1 : p \in Page /\ Slot(p) = 0 /\ Index(p) = p
  /\ \A p \in KernelBase .. PageTableBase - 1 : p \in Page /\ KernelSlot <= Slot(p) /\ Slot(p) < Self
  /\ \A p \in PageFrameBase .. PageLow1MBase + Low1M - 1 : p \in Page /\ Self < Slot(p)
  /\ \A s \in Entry : TableWindow(s) \in Page /\ Slot(TableWindow(s)) = Self /\ Index(TableWindow(s)) = s
<1>1. /\ Entries \in Nat \ {0} /\ KernelBase \in Nat \ {0} /\ PageTableBase \in Nat
      /\ PageLow1MBase \in Nat /\ Low1M \in Nat \ {0} /\ Entries * Entries \in Nat
      /\ Low1M <= Entries /\ PageFrameBase \in Nat
  BY NumbersAssumption, LayoutAssumption
<1>2. /\ KernelBase < PageTableBase /\ PageTableBase + Entries <= PageFrameBase
      /\ PageFrameBase <= PageLow1MBase
      /\ PageLow1MBase + Low1M <= Entries * Entries
  BY NumbersAssumption, LayoutAssumption
<1>3. /\ KernelSlot \in Nat /\ Self \in Nat /\ Self \in Entry /\ 0 \in Entry
      /\ KernelBase = KernelSlot * Entries /\ PageTableBase = Self * Entries
  BY Layout DEF Entry
<1>4. ASSUME NEW p \in 0 .. Low1M - 1 PROVE p \in Page /\ Slot(p) = 0 /\ Index(p) = p
  <2>1. p \in Entry /\ 0 * Entries + p = p
    BY <1>1 DEF Entry
  <2> QED
    BY <1>3, <2>1, OfSlot
<1>5. ASSUME NEW p \in KernelBase .. PageTableBase - 1
      PROVE  p \in Page /\ KernelSlot <= Slot(p) /\ Slot(p) < Self
  <2>1. p \in Nat /\ p \in Page
    BY <1>1, <1>2 DEF Page
  <2> QED
    BY <1>1, <1>3, <2>1, SlotBounds
<1>6. ASSUME NEW p \in PageFrameBase .. PageLow1MBase + Low1M - 1
      PROVE  p \in Page /\ Self < Slot(p)
  <2>1. p \in Nat /\ p \in Page
    BY <1>1, <1>2 DEF Page
  <2>2. (Self + 1) * Entries = PageTableBase + Entries
    BY <1>1, <1>3
  <2>3. Self + 1 <= Slot(p)
    BY <1>1, <1>2, <1>3, <2>1, <2>2, SlotBounds
  <2> QED
    BY <1>3, <2>1, <2>3, SlotBounds
<1>7. ASSUME NEW s \in Entry
      PROVE  TableWindow(s) \in Page /\ Slot(TableWindow(s)) = Self /\ Index(TableWindow(s)) = s
  BY <1>3, OfSlot DEF TableWindow
<1> QED
  BY <1>4, <1>5, <1>6, <1>7

-------------------------------------------------------------------------------
(* Writing to memory *)

Memory == [Frame -> [Entry -> Value]]

LEMMA NoFrame == NotPresent \notin Frame
  BY NumbersAssumption DEF NotPresent, Frame

LEMMA WalkValue ==
  ASSUME NEW m \in Memory, NEW r, Tree(m, r)
  PROVE  /\ \A p \in Page : WalkIn(m, r, p) \in Value
         /\ \A s \in Entry : WalkIn(m, r, TableWindow(s)) = m[r][s]
         /\ \A p \in Page : Slot(p) = Self => WalkIn(m, r, p) = m[r][Index(p)]
<1>1. r \in Frame /\ m[r][Self] = r /\ r # NotPresent
  BY NoFrame DEF Tree
<1>2. ASSUME NEW p \in Page PROVE WalkIn(m, r, p) \in Value
  <2>1. Slot(p) \in Entry /\ Index(p) \in Entry
    BY OfPage
  <2>2. m[r][Slot(p)] \in Frame \cup {NotPresent}
    BY <2>1 DEF Tree
  <2> QED
    BY <2>1, <2>2 DEF WalkIn, Memory, Value
<1>3. ASSUME NEW p \in Page, Slot(p) = Self PROVE WalkIn(m, r, p) = m[r][Index(p)]
  BY <1>1, <1>3 DEF WalkIn
<1>4. ASSUME NEW s \in Entry PROVE WalkIn(m, r, TableWindow(s)) = m[r][s]
  <2>1. TableWindow(s) \in Page /\ Slot(TableWindow(s)) = Self /\ Index(TableWindow(s)) = s
    BY Regions
  <2> QED
    BY <1>3, <2>1
<1> QED
  BY <1>2, <1>3, <1>4

\* Frames that a directory does not use do not matter to it.
LEMMA Elsewhere ==
  ASSUME NEW m \in Memory, NEW m2 \in Memory, NEW r, Tree(m, r),
         \A f \in Frame : ~Unused(m, r, f) => m2[f] = m[f]
  PROVE  /\ Tree(m2, r) /\ m2[r] = m[r]
         /\ \A p \in Page : WalkIn(m2, r, p) = WalkIn(m, r, p)
<1>1. r \in Frame /\ Self \in Entry /\ m[r][Self] = r
  BY Layout DEF Tree
<1>2. m2[r] = m[r]
  BY <1>1 DEF Unused
<1>3. Tree(m2, r)
  BY <1>2 DEF Tree
<1>4. ASSUME NEW p \in Page PROVE WalkIn(m2, r, p) = WalkIn(m, r, p)
  <2>1. Slot(p) \in Entry
    BY OfPage
  <2>2. m[r][Slot(p)] # NotPresent => m2[m[r][Slot(p)]] = m[m[r][Slot(p)]]
    BY <2>1 DEF Tree, Unused
  <2> QED
    BY <1>2, <2>2 DEF WalkIn
<1> QED
  BY <1>2, <1>3, <1>4

\* Writing to one table, which is not the directory.
LEMMA SetTable ==
  ASSUME NEW m \in Memory, NEW m2 \in Memory, NEW r, Tree(m, r),
         NEW s \in Entry \ {Self}, m[r][s] # NotPresent,
         \A f \in Frame : f # m[r][s] => m2[f] = m[f]
  PROVE  /\ Tree(m2, r) /\ m2[r] = m[r]
         /\ \A p \in Page : WalkIn(m2, r, p) =
              IF Slot(p) = s THEN m2[m[r][s]][Index(p)] ELSE WalkIn(m, r, p)
<1>1. r \in Frame /\ Self \in Entry /\ m[r][Self] = r
  BY Layout DEF Tree
<1>2. m[r][s] # r
  BY <1>1 DEF Tree
<1>3. m2[r] = m[r]
  BY <1>1, <1>2
<1>4. Tree(m2, r)
  BY <1>3 DEF Tree
<1>5. ASSUME NEW p \in Page
      PROVE  WalkIn(m2, r, p) = IF Slot(p) = s THEN m2[m[r][s]][Index(p)] ELSE WalkIn(m, r, p)
  <2>1. Slot(p) \in Entry
    BY OfPage
  <2>2. CASE Slot(p) = s
    BY <1>3, <2>2 DEF WalkIn
  <2>3. CASE Slot(p) # s
    <3>1. m[r][Slot(p)] # NotPresent => m[r][Slot(p)] # m[r][s] /\ m[r][Slot(p)] \in Frame
      BY <2>1, <2>3 DEF Tree
    <3> QED
      BY <1>3, <2>3, <3>1 DEF WalkIn
  <2> QED
    BY <2>2, <2>3
<1> QED
  BY <1>3, <1>4, <1>5

\* Giving a slot a table; the other frames in use stay as they are.
LEMMA SetSlot ==
  ASSUME NEW m \in Memory, NEW m2 \in Memory, NEW r, Tree(m, r),
         NEW s \in Entry, m[r][s] = NotPresent,
         NEW f \in Frame, Unused(m, r, f),
         m2[r] = [m[r] EXCEPT ![s] = f],
         \A g \in Frame : ~Unused(m, r, g) /\ g # r => m2[g] = m[g]
  PROVE  /\ Tree(m2, r) /\ s # Self /\ m2[r][s] = f
         /\ \A u \in Entry \ {s} : m2[r][u] = m[r][u]
         /\ \A p \in Page : WalkIn(m2, r, p) =
              IF Slot(p) = s THEN m2[f][Index(p)]
              ELSE IF p = TableWindow(s) THEN f ELSE WalkIn(m, r, p)
         /\ Absent(m2, r) = Absent(m, r) \ {s} /\ s \in Absent(m, r)
<1>1. r \in Frame /\ Self \in Entry /\ m[r][Self] = r /\ f # NotPresent /\ r # NotPresent
  BY Layout, NoFrame DEF Tree
<1>2. s # Self /\ f # r
  BY <1>1 DEF Unused
<1>3. m[r] \in [Entry -> Value]
  BY <1>1 DEF Memory
<1>4. m2[r][s] = f /\ \A u \in Entry \ {s} : m2[r][u] = m[r][u]
  BY <1>3
<1>5. Tree(m2, r)
  <2>1. m2[r][Self] = r
    BY <1>1, <1>2, <1>4
  <2>2. \A u \in Entry : m2[r][u] \in Frame \cup {NotPresent}
    BY <1>4 DEF Tree
  <2>3. \A u, v \in Entry : m2[r][u] = m2[r][v] /\ m2[r][u] # NotPresent => u = v
    <3> SUFFICES ASSUME NEW u \in Entry, NEW v \in Entry, m2[r][u] = m2[r][v], m2[r][u] # NotPresent
                 PROVE  u = v
      OBVIOUS
    <3>1. CASE u = s \/ v = s
      BY <1>4, <3>1 DEF Unused
    <3>2. CASE u # s /\ v # s
      BY <1>4, <3>2 DEF Tree
    <3> QED
      BY <3>1, <3>2
  <2> QED
    BY <1>1, <2>1, <2>2, <2>3 DEF Tree
<1>6. ASSUME NEW p \in Page
      PROVE  WalkIn(m2, r, p) = IF Slot(p) = s THEN m2[f][Index(p)]
                                ELSE IF p = TableWindow(s) THEN f ELSE WalkIn(m, r, p)
  <2>1. Slot(p) \in Entry /\ Index(p) \in Entry
    BY OfPage
  <2>2. TableWindow(s) \in Page /\ Slot(TableWindow(s)) = Self /\ Index(TableWindow(s)) = s
    BY Regions
  <2>3. CASE Slot(p) = s
    BY <1>1, <1>4, <2>3 DEF WalkIn
  <2>4. CASE Slot(p) = Self
    <3>1. m2[r][Self] = r /\ m[r][Self] = r
      BY <1>5 DEF Tree
    <3>4. WalkIn(m2, r, p) = m2[r][Index(p)] /\ WalkIn(m, r, p) = m[r][Index(p)]
      BY <1>1, <2>4, <3>1 DEF WalkIn
    <3>2. Index(p) = s => p = TableWindow(s)
      BY <2>2, <2>4, SamePage
    <3> QED
      BY <1>2, <1>4, <2>1, <2>2, <2>4, <3>4, <3>2
  <2>5. CASE Slot(p) # s /\ Slot(p) # Self
    <3>1. p # TableWindow(s)
      BY <2>2, <2>5
    <3>2. m2[r][Slot(p)] = m[r][Slot(p)]
      BY <1>4, <2>1, <2>5
    <3>3. m[r][Slot(p)] # NotPresent => /\ m[r][Slot(p)] \in Frame /\ m[r][Slot(p)] # r
                                        /\ ~Unused(m, r, m[r][Slot(p)])
      BY <1>1, <2>1, <2>5 DEF Tree, Unused
    <3> QED
      BY <2>5, <3>1, <3>2, <3>3 DEF WalkIn
  <2> QED
    BY <2>3, <2>4, <2>5
<1>7. Absent(m2, r) = Absent(m, r) \ {s} /\ s \in Absent(m, r)
  BY <1>1, <1>4 DEF Absent
<1> QED
  BY <1>2, <1>4, <1>5, <1>6, <1>7

LEMMA AbsentCount ==
  ASSUME NEW m, NEW r
  PROVE  /\ IsFiniteSet(Absent(m, r)) /\ Cardinality(Absent(m, r)) \in Nat
         /\ Cardinality(Absent(m, r)) <= Entries
         /\ \A s \in Absent(m, r) : Cardinality(Absent(m, r) \ {s}) = Cardinality(Absent(m, r)) - 1
<1>1. IsFiniteSet(Entry) /\ Cardinality(Entry) = Entries
  <2>1. Entries \in Nat \ {0} /\ Entries - 1 \in Int /\ 0 \in Int /\ 0 <= Entries - 1
    BY NumbersAssumption
  <2>2. IsFiniteSet(Entry) /\ Cardinality(Entry) = (Entries - 1) - 0 + 1
    BY <2>1, FS_Interval DEF Entry
  <2> QED
    BY <2>1, <2>2
<1>2. Absent(m, r) \subseteq Entry
  BY DEF Absent
<1>3. IsFiniteSet(Absent(m, r)) /\ Cardinality(Absent(m, r)) <= Entries
  BY <1>1, <1>2, FS_Subset
<1>4. Cardinality(Absent(m, r)) \in Nat
  BY <1>3, FS_CardinalityType
<1>5. \A s \in Absent(m, r) : Cardinality(Absent(m, r) \ {s}) = Cardinality(Absent(m, r)) - 1
  BY <1>3, FS_RemoveElement
<1> QED
  BY <1>3, <1>4, <1>5

-------------------------------------------------------------------------------
(* The loader's tables *)

LEMMA Given ==
  ASSUME Types
  PROVE  /\ image \in Nat /\ image <= LoaderPages /\ Top \in Nat
         /\ TmpDir \in Image /\ TmpTable \in Image
         /\ Top + Entries + DbPages <= Frames
         /\ \A p \in Image : p \in KernelBase .. PageTableBase - 1
         /\ \A f \in 0 .. Low1M - 1 : f \in Frame
<1>1. image \in Images /\ Low1M \in Nat /\ KernelBase \in Nat
  BY NumbersAssumption DEF Types
<1>2. /\ image \in Nat /\ image <= LoaderPages
      /\ {TmpDir, TmpTable} \subseteq KernelBase .. KernelBase + image - 1
      /\ Low1M + image + Entries + DbPages <= Frames
  BY <1>1, ImagesAssumption
<1> QED
  BY <1>1, <1>2, NumbersAssumption, LayoutAssumption DEF Top, Image, Frame

LEMMA MapFacts ==
  ASSUME Types
  PROVE  /\ Len(machine.map) \in Nat /\ machine.last \in {"zero", "carry", "carry_zero"}
         /\ DOMAIN machine.map = 1 .. Len(machine.map)
         /\ \A n : /\ Told(n).begin \in Nat /\ Told(n).end \in Nat
                  /\ Told(n).begin <= Told(n).end
         /\ \A n : Mapped(Told(n)) => n \in DOMAIN machine.map /\ Told(n) = machine.map[n]
<1> DEFINE R == [begin : Nat, end : Nat, type : STRING]
           None == [begin |-> 0, end |-> 0, type |-> "NONE"]
<1>1. /\ machine.map \in Seq(R) /\ machine.last \in {"zero", "carry", "carry_zero"}
      /\ \A n \in DOMAIN machine.map : machine.map[n].begin <= machine.map[n].end
  BY MachinesAssumption DEF Types
<1>2. \A e \in R : e.begin \in Nat /\ e.end \in Nat
  OBVIOUS
<1>3. None.begin = 0 /\ None.end = 0 /\ ~Mapped(None)
  BY DEF Mapped
<1>4. \A n : Told(n) = IF n \in DOMAIN machine.map THEN machine.map[n] ELSE None
  BY DEF Told
<1> HIDE DEF R, None
<1>5. /\ Len(machine.map) \in Nat /\ DOMAIN machine.map = 1 .. Len(machine.map)
      /\ \A n \in 1 .. Len(machine.map) : machine.map[n] \in R
  BY <1>1
<1>6. ASSUME NEW n PROVE /\ Told(n).begin \in Nat /\ Told(n).end \in Nat
                        /\ Told(n).begin <= Told(n).end
  <2>1. CASE n \in DOMAIN machine.map
    BY <1>1, <1>2, <1>4, <1>5, <2>1
  <2>2. CASE n \notin DOMAIN machine.map
    BY <1>3, <1>4, <2>2
  <2> QED
    BY <2>1, <2>2
<1>7. ASSUME NEW n, Mapped(Told(n)) PROVE n \in DOMAIN machine.map /\ Told(n) = machine.map[n]
  BY <1>3, <1>4, <1>7
<1> QED
  BY <1>1, <1>5, <1>6, <1>7

LEMMA EmptyTable == Empty \in [Entry -> Value]
  BY DEF Empty, Value

\* Nothing is cached where nothing is.
LEMMA NoCache == tlb = <<>> => DOMAIN tlb = {}
<1> SUFFICES ASSUME tlb = <<>> PROVE DOMAIN tlb = {}
  OBVIOUS
<1>1. DOMAIN <<>> = {}
  OBVIOUS
<1> QED
  BY <1>1

LEMMA InitHolds == Init => IInv
<1> SUFFICES ASSUME Init PROVE IInv
  OBVIOUS
<1> USE DEF Init
<1>1. Types
  <2>1. image \in Nat /\ Low1M \in Nat
    BY ImagesAssumption, NumbersAssumption
  <2>2. Junk \in [Entry -> Value]
    BY DEF Junk, Value
  <2>3. mem \in [Frame -> [Entry -> Value]]
    BY <2>2
  <2>4. job \in [frame : Nat, page : Nat, left : Nat]
    BY DEF NoJob
  <2>5. pc \in Booting /\ paging \in BOOLEAN /\ ~paging
    BY DEF Booting
  <2>6. machine \in Machines /\ image \in Images
    OBVIOUS
  <2>7. paging \in BOOLEAN /\ (paging <=> pc \notin Booting \cup {"real", "answered"})
    BY <2>5
  <2>8. /\ i \in Nat /\ dir \in Nat /\ table \in Nat /\ frame_min \in Nat
        /\ ebx \in Nat /\ map_count \in Nat
    BY <2>1
  <2>9. fresh \in BOOLEAN
    OBVIOUS
  <2> QED
    BY <2>3, <2>4, <2>5, <2>6, <2>7, <2>8, <2>9 DEF Types
<1>2. Started /\ Asked /\ OldTables /\ NewTables /\ Mapping /\ Stored /\ Job
  BY DEF Started, Asked, OldTables, NewTables, Mapping, Stored, Job, NoJob,
         Booting, Asking, Building, Filling, Running
<1>3. NewFrames
  BY DEF NewFrames, Booting, Asking, Filling, Running, Top
<1>4. Cache
  BY DEF Cache, Booting, Asking, Filling, Running
<1> QED
  BY <1>1, <1>2, <1>3, <1>4 DEF IInv

\* The frames of the loader's tables are below 1 MB.
LEMMA LoaderFrames ==
  ASSUME Types
  PROVE  /\ PAGE_DIR_PA \in Frame /\ PT_LOW1M_PA \in Frame /\ PT_KERNEL_PA \in Frame
         /\ PT_KERNEL_PA < Low1M
         /\ \A n \in 0 .. LoaderPages - 1 :
              LET page == KernelBase + n IN
              /\ page \in KernelBase .. PageTableBase - 1
              /\ PT_KERNEL_PA + (Slot(page) - KernelSlot) < Low1M
<1>1. /\ LoaderPages \in Nat \ {0} /\ PT_KERNEL_PA \in Nat /\ Entries \in Nat \ {0}
      /\ KernelBase \in Nat /\ PageTableBase \in Nat /\ Low1M \in Nat
      /\ LoaderPages - 1 \in Nat /\ 0 \in Nat
      /\ PT_KERNEL_PA + Slot(LoaderPages - 1) < Low1M /\ KernelBase + LoaderPages <= PageTableBase
  BY NumbersAssumption, LayoutAssumption DEF Slot
<1>2. ASSUME NEW n \in 0 .. LoaderPages - 1
      PROVE  /\ KernelBase + n \in KernelBase .. PageTableBase - 1
             /\ PT_KERNEL_PA + (Slot(KernelBase + n) - KernelSlot) < Low1M
  <2> DEFINE page == KernelBase + n
             k == Slot(page) - KernelSlot
  <2>1. page \in KernelBase .. PageTableBase - 1
    BY <1>1
  <2>2. page \in Page /\ KernelSlot <= Slot(page)
    BY <2>1, Regions
  <2>3. /\ KernelSlot \in Nat /\ Slot(page) \in Nat /\ KernelBase = KernelSlot * Entries
        /\ Index(page) \in Nat /\ page = Slot(page) * Entries + Index(page)
    BY <2>2, OfPage, Layout DEF Entry
  <2>4. k \in Nat /\ Slot(page) = KernelSlot + k
    BY <2>2, <2>3
  <2>5. k * Entries <= n
    <3> HIDE DEF k
    <3>1. Slot(page) * Entries = KernelSlot * Entries + k * Entries
      BY <1>1, <2>3, <2>4
    <3>2. k * Entries \in Nat
      BY <1>1, <2>4
    <3> QED
      BY <1>1, <2>3, <3>1, <3>2
  <2>6. k * Entries <= LoaderPages - 1
    BY <1>1, <2>4, <2>5
  <2>7. k <= Slot(LoaderPages - 1) /\ Slot(LoaderPages - 1) \in Nat
    BY <1>1, <2>4, <2>6, SlotBounds
  <2> QED
    BY <1>1, <2>1, <2>4, <2>7
<1>3. PT_KERNEL_PA < Low1M
  <2>1. Slot(LoaderPages - 1) \in Nat
    BY <1>1, SlotBounds
  <2> QED
    BY <1>1, <2>1
<1>4. PAGE_DIR_PA \in 0 .. Low1M - 1 /\ PT_LOW1M_PA \in 0 .. Low1M - 1 /\ PT_KERNEL_PA \in 0 .. Low1M - 1
  BY <1>3, NumbersAssumption, LayoutAssumption
<1> QED
  BY <1>2, <1>3, <1>4, Given

LEMMA LoaderDirectoryStep ==
  ASSUME IInv, LoaderDirectory
  PROVE  IInv'
<1> USE DEF LoaderDirectory, given, biosVars
<1>1. Types /\ pc = "loader" /\ pc' = "map" /\ i' = 0
  BY DEF IInv
<1>2. /\ PAGE_DIR_PA \in Frame /\ PT_LOW1M_PA \in Frame /\ PT_KERNEL_PA \in Frame
      /\ PAGE_DIR_PA \in Nat /\ PT_LOW1M_PA \in Nat /\ PT_KERNEL_PA \in Nat /\ Low1M \in Nat
      /\ PAGE_DIR_PA < PT_LOW1M_PA /\ PT_LOW1M_PA < PT_KERNEL_PA
      /\ KernelSlot \in Nat /\ 0 < KernelSlot /\ KernelSlot < Self /\ Self \in Entry
      /\ Low1M <= Entries /\ Entries \in Nat
  BY <1>1, LoaderFrames, NumbersAssumption, LayoutAssumption, Layout DEF Entry
<1> DEFINE Directory == [Empty EXCEPT ![Self] = PAGE_DIR_PA, ![0] = PT_LOW1M_PA,
                                      ![KernelSlot] = PT_KERNEL_PA]
           Low == [e \in Entry |-> IF e < Low1M THEN e ELSE NotPresent]
<1>3. Directory \in [Entry -> Value] /\ Low \in [Entry -> Value]
  BY <1>2, EmptyTable DEF Value, Entry
<1>4. /\ mem' = [mem EXCEPT ![PAGE_DIR_PA] = Directory, ![PT_LOW1M_PA] = Low, ![PT_KERNEL_PA] = Empty]
  BY DEF Self, KernelSlot
<1>5. \A s \in Entry : Directory[s] = IF s = Self THEN PAGE_DIR_PA
                                      ELSE IF s = 0 THEN PT_LOW1M_PA
                                      ELSE IF s = KernelSlot THEN PT_KERNEL_PA ELSE NotPresent
  BY <1>2 DEF Empty
<1>6. \A e \in 0 .. Low1M - 1 : Low[e] = e
  BY <1>2 DEF Entry
<1> HIDE DEF Directory, Low
<1>7. mem \in Memory
  BY <1>1 DEF Types, Memory
<1>8. mem' \in Memory /\ mem'[PAGE_DIR_PA] = Directory /\ mem'[PT_LOW1M_PA] = Low
  BY <1>2, <1>3, <1>4, <1>7, EmptyTable DEF Memory
<1>9. Types'
  BY <1>1, <1>2, <1>8 DEF Types, Memory, Booting, Asking, Building, Filling, Running
<1>10. Started'
  <2>1. table' = PT_KERNEL_PA /\ i' <= LoaderPages /\ i' <= (table' - PT_KERNEL_PA + 1) * Entries
    BY <1>2, NumbersAssumption
  <2>2. \A s \in Entry : (KernelSlot <= s /\ s - KernelSlot <= 0) => s = KernelSlot
    BY <1>2 DEF Entry
  <2>3. \A p \in KernelBase .. KernelBase + i' - 1 : FALSE
    BY <1>1, NumbersAssumption
  <2>4. \A s \in Entry :
         mem'[PAGE_DIR_PA][s] =
           IF s = Self THEN PAGE_DIR_PA
           ELSE IF s = 0 THEN PT_LOW1M_PA
           ELSE IF KernelSlot <= s /\ s - KernelSlot <= table' - PT_KERNEL_PA
             THEN PT_KERNEL_PA + (s - KernelSlot) ELSE NotPresent
    <3> SUFFICES ASSUME NEW s \in Entry
                 PROVE  Directory[s] =
                          IF s = Self THEN PAGE_DIR_PA
                          ELSE IF s = 0 THEN PT_LOW1M_PA
                          ELSE IF KernelSlot <= s /\ s - KernelSlot <= table' - PT_KERNEL_PA
                            THEN PT_KERNEL_PA + (s - KernelSlot) ELSE NotPresent
      BY <1>8
    <3>1. table' - PT_KERNEL_PA = 0 /\ PT_KERNEL_PA + 0 = PT_KERNEL_PA
      BY ONLY <1>2, <2>1
    <3>2. s \in Nat
      BY <1>2 DEF Entry
    <3>3. (KernelSlot <= s /\ s - KernelSlot <= 0) <=> s = KernelSlot
      BY ONLY <1>2, <3>2
    <3>4. s = KernelSlot => PT_KERNEL_PA + (s - KernelSlot) = PT_KERNEL_PA
      BY ONLY <1>2, <3>2
    <3>5. Directory[s] = IF s = Self THEN PAGE_DIR_PA
                         ELSE IF s = 0 THEN PT_LOW1M_PA
                         ELSE IF s = KernelSlot THEN PT_KERNEL_PA ELSE NotPresent
      BY ONLY <1>5
    <3> QED
      BY ONLY <3>1, <3>3, <3>4, <3>5
  <2>5. \A p \in 0 .. Low1M - 1 : mem'[PT_LOW1M_PA][p] = p
    BY <1>6, <1>8
  <2> QED
    BY <1>2, <2>1, <2>3, <2>4, <2>5 DEF Started
<1>11. Asked' /\ OldTables' /\ NewTables' /\ Mapping' /\ Stored' /\ Job'
  BY <1>1 DEF IInv, Asked, OldTables, NewTables, Mapping, Stored, Job,
              Booting, Asking, Building, Filling, Running
<1>12. NewFrames' /\ Cache'
  BY <1>1 DEF IInv, NewFrames, Cache, Types, Top, Booting, Asking, Building, Filling, Running
<1> QED
  BY <1>9, <1>10, <1>11, <1>12 DEF IInv

LEMMA LoaderMapStep ==
  ASSUME IInv, LoaderMap
  PROVE  IInv'
<1> DEFINE page == KernelBase + i
           new == mem[PAGE_DIR_PA][Slot(page)] = NotPresent
           t == IF new THEN table + 1 ELSE table
           K == table - PT_KERNEL_PA
<1>1. /\ pc = "map" /\ i < LoaderPages /\ table' = t
      /\ mem' = [mem EXCEPT
            ![PAGE_DIR_PA][Slot(page)] = IF new THEN t ELSE @,
            ![t] = [(IF new THEN Empty ELSE @) EXCEPT ![Index(page)] = Low1M + i]]
      /\ i' = i + 1
      /\ UNCHANGED <<machine, image, cr3, paging, tlb, pc, dir, frame_min, job, fresh, ebx, map_count>>
  BY DEF LoaderMap, given, biosVars
<1>2. Types /\ Started
  BY DEF IInv
<1>3. /\ i \in Nat /\ i \in 0 .. LoaderPages - 1 /\ mem \in Memory /\ table \in Nat
      /\ PAGE_DIR_PA \in Nat /\ PT_LOW1M_PA \in Nat /\ PT_KERNEL_PA \in Nat /\ Low1M \in Nat
      /\ PAGE_DIR_PA < PT_LOW1M_PA /\ PT_LOW1M_PA < PT_KERNEL_PA
      /\ KernelBase \in Nat /\ Entries \in Nat \ {0} /\ LoaderPages \in Nat
      /\ KernelSlot \in Nat /\ 0 < KernelSlot /\ KernelSlot < Self /\ Self \in Entry /\ Self \in Nat
      /\ KernelBase = KernelSlot * Entries
  BY <1>1, <1>2, NumbersAssumption, LayoutAssumption, Layout DEF Types, Memory, Entry
<1>4. /\ page \in Page /\ page \in Nat /\ Slot(page) \in Entry /\ Slot(page) \in Nat
      /\ KernelSlot <= Slot(page) /\ Slot(page) < Self
      /\ Index(page) \in Entry /\ PT_KERNEL_PA + (Slot(page) - KernelSlot) < Low1M
      /\ page = Slot(page) * Entries + Index(page)
  <2>1. page \in KernelBase .. PageTableBase - 1 /\ PT_KERNEL_PA + (Slot(page) - KernelSlot) < Low1M
    BY <1>2, <1>3, LoaderFrames
  <2>2. page \in Page /\ KernelSlot <= Slot(page) /\ Slot(page) < Self
    BY <2>1, Regions
  <2> QED
    BY <1>3, <2>1, <2>2, OfPage DEF Entry
<1>5. /\ K \in Nat /\ i <= (K + 1) * Entries /\ (K = 0 \/ K * Entries < i)
      /\ \A s \in Entry : mem[PAGE_DIR_PA][s] =
           IF s = Self THEN PAGE_DIR_PA
           ELSE IF s = 0 THEN PT_LOW1M_PA
           ELSE IF KernelSlot <= s /\ s - KernelSlot <= K
             THEN PT_KERNEL_PA + (s - KernelSlot) ELSE NotPresent
      /\ \A p \in 0 .. Low1M - 1 : mem[PT_LOW1M_PA][p] = p
      /\ \A p \in KernelBase .. page - 1 : WalkIn(mem, PAGE_DIR_PA, p) = Low1M + p - KernelBase
  BY <1>1, <1>2, <1>3 DEF Started
<1> HIDE DEF page, new, K
\* The page is in the last table or begins the next.
<1>6. Slot(page) \in {KernelSlot + K, KernelSlot + K + 1}
  <2>1. /\ (KernelSlot + K) * Entries = KernelBase + K * Entries
        /\ (KernelSlot + K + 2) * Entries = KernelBase + (K + 1) * Entries + Entries
        /\ K * Entries \in Nat /\ (K + 1) * Entries \in Nat
    BY <1>3, <1>5
  <2>2. K * Entries <= i
    BY <1>3, <1>5
  <2>3. /\ (KernelSlot + K) * Entries <= page
        /\ page < (KernelSlot + K + 2) * Entries
    BY <1>3, <1>5, <2>1, <2>2 DEF page
  <2>4. KernelSlot + K <= Slot(page) /\ Slot(page) < KernelSlot + K + 2
    <3>1. KernelSlot + K \in Nat /\ KernelSlot + K + 2 \in Nat
      BY <1>3, <1>5
    <3> QED
      BY <1>4, <2>3, <3>1, SlotBounds
  <2> QED
    BY <1>3, <1>4, <1>5, <2>4
<1>7. /\ new <=> Slot(page) = KernelSlot + K + 1
      /\ t = PT_KERNEL_PA + (Slot(page) - KernelSlot)
  <2>1. new <=> ~(Slot(page) - KernelSlot <= K)
    BY <1>3, <1>4, <1>5 DEF new, NotPresent
  <2>2. new <=> Slot(page) = KernelSlot + K + 1
    BY <1>3, <1>4, <1>5, <1>6, <2>1
  <2>3. table = PT_KERNEL_PA + K
    BY <1>3 DEF K
  <2> QED
    BY <1>3, <1>4, <1>5, <1>6, <2>2, <2>3
<1>8. /\ t \in Frame /\ t \in Nat /\ t > PT_LOW1M_PA /\ t >= PT_KERNEL_PA
      /\ PAGE_DIR_PA \in Frame /\ PT_LOW1M_PA \in Frame
  <2>1. t \in 0 .. Low1M - 1
    BY <1>3, <1>4, <1>7
  <2> QED
    BY <1>2, <1>3, <1>4, <1>7, <2>1, Given, LoaderFrames
<1> HIDE DEF t
<1> DEFINE Before == IF new THEN Empty ELSE mem[t]
<1>9. Before \in [Entry -> Value] /\ Low1M + i \in Value /\ t \in Value
  BY <1>3, <1>8, EmptyTable DEF Memory, Value
<1>10. /\ mem'[PAGE_DIR_PA] = [mem[PAGE_DIR_PA] EXCEPT ![Slot(page)] = t]
       /\ mem'[t] = [Before EXCEPT ![Index(page)] = Low1M + i]
       /\ \A f \in Frame : f # PAGE_DIR_PA /\ f # t => mem'[f] = mem[f]
       /\ mem' \in Memory
  <2>1. ~new => mem[PAGE_DIR_PA][Slot(page)] = t
    BY <1>3, <1>4, <1>5, <1>6, <1>7
  <2> DEFINE D == [mem[PAGE_DIR_PA] EXCEPT ![Slot(page)] = IF new THEN t ELSE @]
             T == [Before EXCEPT ![Index(page)] = Low1M + i]
  <2>2. mem[PAGE_DIR_PA] \in [Entry -> Value]
    BY <1>3, <1>8 DEF Memory
  <2>3. D = [mem[PAGE_DIR_PA] EXCEPT ![Slot(page)] = t]
    BY <1>4, <2>1, <2>2
  <2>4. D \in [Entry -> Value] /\ T \in [Entry -> Value]
    BY <1>4, <1>9, <2>2, <2>3
  <2>5. mem' = [[mem EXCEPT ![PAGE_DIR_PA] = D] EXCEPT ![t] = T]
    BY <1>1, <1>3, <1>8 DEF Memory, page, new, t
  <2> HIDE DEF D, T
  <2>6. PAGE_DIR_PA # t
    BY <1>3, <1>8
  <2>7. /\ mem'[PAGE_DIR_PA] = D /\ mem'[t] = T /\ mem' \in Memory
        /\ \A f \in Frame : f # PAGE_DIR_PA /\ f # t => mem'[f] = mem[f]
    BY <1>3, <1>8, <2>4, <2>5, <2>6 DEF Memory
  <2> QED
    BY <2>3, <2>7 DEF T
<1>11. Types'
  <2>1. table' \in Nat /\ i' \in Nat /\ mem' \in Memory
    BY <1>1, <1>3, <1>8, <1>10
  <2> QED
    BY <1>1, <1>2, <2>1 DEF Types, Memory
<1>12. Started'
  <2>1. /\ i' \in Nat /\ i' <= LoaderPages /\ table' = t /\ PT_KERNEL_PA <= t
        /\ KernelBase + i' - 1 = page
    BY <1>1, <1>3, <1>8 DEF page
  <2>2. /\ i' <= (t - PT_KERNEL_PA + 1) * Entries
        /\ (t - PT_KERNEL_PA) * Entries < i'
    <3> DEFINE k == Slot(page) - KernelSlot
    <3>1. k \in Nat /\ t - PT_KERNEL_PA = k /\ Slot(page) = KernelSlot + k
      BY <1>3, <1>4, <1>7
    <3> HIDE DEF k
    <3>2. /\ Slot(page) * Entries = KernelBase + k * Entries
          /\ (k + 1) * Entries = k * Entries + Entries /\ k * Entries \in Nat
      BY <1>3, <3>1
    <3>3. k * Entries <= i /\ i < k * Entries + Entries
      BY <1>3, <1>4, <3>2 DEF page, Entry
    <3> QED
      BY <1>1, <1>3, <3>1, <3>2, <3>3
  <2>3. \A s \in Entry :
         mem'[PAGE_DIR_PA][s] =
           IF s = Self THEN PAGE_DIR_PA
           ELSE IF s = 0 THEN PT_LOW1M_PA
           ELSE IF KernelSlot <= s /\ s - KernelSlot <= t - PT_KERNEL_PA
             THEN PT_KERNEL_PA + (s - KernelSlot) ELSE NotPresent
    <3> SUFFICES ASSUME NEW s \in Entry
                 PROVE  mem'[PAGE_DIR_PA][s] =
                          IF s = Self THEN PAGE_DIR_PA
                          ELSE IF s = 0 THEN PT_LOW1M_PA
                          ELSE IF KernelSlot <= s /\ s - KernelSlot <= t - PT_KERNEL_PA
                            THEN PT_KERNEL_PA + (s - KernelSlot) ELSE NotPresent
      OBVIOUS
    <3>1. mem'[PAGE_DIR_PA][s] = IF s = Slot(page) THEN t ELSE mem[PAGE_DIR_PA][s]
      BY <1>3, <1>4, <1>8, <1>10 DEF Memory
    <3>2. t - PT_KERNEL_PA = Slot(page) - KernelSlot /\ s \in Nat
      BY <1>3, <1>4, <1>7 DEF Entry
    <3>3. CASE s = Slot(page)
      BY <1>3, <1>4, <1>7, <3>1, <3>2, <3>3
    <3>4. CASE s # Slot(page)
      <4>1. (s - KernelSlot <= K) <=> (s - KernelSlot <= t - PT_KERNEL_PA)
        BY <1>3, <1>4, <1>5, <1>6, <3>2, <3>4
      <4> QED
        BY <1>5, <3>1, <3>4, <4>1
    <3> QED
      BY <3>3, <3>4
  <2>4. \A p \in 0 .. Low1M - 1 : mem'[PT_LOW1M_PA][p] = p
    BY <1>3, <1>5, <1>8, <1>10
  <2>5. \A p \in KernelBase .. page :
          WalkIn(mem', PAGE_DIR_PA, p) = Low1M + p - KernelBase
    <3> SUFFICES ASSUME NEW p \in KernelBase .. page
                 PROVE  WalkIn(mem', PAGE_DIR_PA, p) = Low1M + p - KernelBase
      OBVIOUS
    <3>1. mem'[PAGE_DIR_PA][Slot(page)] = t /\ t # NotPresent
      BY <1>3, <1>4, <1>8, <1>10 DEF Memory, NotPresent
    <3>2. mem'[t][Index(page)] = Low1M + i
      BY <1>4, <1>9, <1>10
    <3>3. CASE p = page
      BY <1>3, <3>1, <3>2, <3>3 DEF WalkIn, page
    <3>4. CASE p # page
      <4>1. p \in Page /\ p \in KernelBase .. page - 1
        <5>1. p \in KernelBase .. page - 1
          BY <1>3, <1>4, <3>4
        <5>2. p - KernelBase \in 0 .. LoaderPages - 1 /\ KernelBase + (p - KernelBase) = p
          BY <1>3, <5>1 DEF page
        <5>3. p \in KernelBase .. PageTableBase - 1
          BY <1>2, <5>2, LoaderFrames
        <5> QED
          BY <5>1, <5>3, Regions
      <4>2. Slot(p) \in Entry /\ Index(p) \in Entry /\ Slot(p) \in Nat
        BY <4>1, OfPage DEF Entry
      <4>3. WalkIn(mem, PAGE_DIR_PA, p) = Low1M + p - KernelBase
        BY <1>5, <4>1
      <4>4. WalkIn(mem, PAGE_DIR_PA, p) # NotPresent
        BY <1>3, <4>1, <4>3 DEF NotPresent
      <4>5. mem[PAGE_DIR_PA][Slot(p)] # NotPresent
        BY <4>4 DEF WalkIn
      <4>6. CASE Slot(p) = Slot(page)
        <5>1. ~new /\ Before = mem[t] /\ mem[PAGE_DIR_PA][Slot(p)] = t
          BY <1>3, <1>4, <1>5, <1>7, <4>5, <4>6 DEF new
        <5>2. Index(p) # Index(page)
          BY <1>4, <3>4, <4>1, <4>6, SamePage
        <5>3. mem'[t][Index(p)] = mem[t][Index(p)]
          BY <1>4, <1>9, <1>10, <4>2, <5>1, <5>2
        <5> QED
          BY <3>1, <4>3, <4>6, <5>1, <5>3 DEF WalkIn
      <4>7. CASE Slot(p) # Slot(page)
        <5>1. mem'[PAGE_DIR_PA][Slot(p)] = mem[PAGE_DIR_PA][Slot(p)]
          BY <1>3, <1>4, <1>8, <1>10, <4>2, <4>7 DEF Memory
        <5>2. KernelSlot <= Slot(p) /\ Slot(p) < Self
          <6>1. p - KernelBase \in 0 .. LoaderPages - 1 /\ KernelBase + (p - KernelBase) = p
            BY <1>3, <4>1 DEF page
          <6> QED
            BY <1>2, <6>1, LoaderFrames, Regions
        <5>3. mem[PAGE_DIR_PA][Slot(p)] = PT_KERNEL_PA + (Slot(p) - KernelSlot)
          BY <1>3, <1>5, <4>2, <4>5, <5>2
        <5>4. PT_KERNEL_PA + (Slot(p) - KernelSlot) \in 0 .. Low1M - 1
          <6>1. p - KernelBase \in 0 .. LoaderPages - 1 /\ KernelBase + (p - KernelBase) = p
            BY <1>3, <4>1 DEF page
          <6>2. PT_KERNEL_PA + (Slot(p) - KernelSlot) < Low1M
            BY <1>2, <6>1, LoaderFrames
          <6> QED
            BY <1>3, <4>2, <5>2, <6>2
        <5>5. /\ mem[PAGE_DIR_PA][Slot(p)] \in Frame
              /\ mem[PAGE_DIR_PA][Slot(p)] # t /\ mem[PAGE_DIR_PA][Slot(p)] # PAGE_DIR_PA
          <6>1. PT_KERNEL_PA + (Slot(p) - KernelSlot) # t
            BY <1>3, <1>4, <1>7, <4>2, <4>7
          <6>2. PT_KERNEL_PA + (Slot(p) - KernelSlot) # PAGE_DIR_PA
            BY <1>3, <4>2, <5>2
          <6> QED
            BY <1>2, <5>3, <5>4, <6>1, <6>2, Given
        <5> QED
          BY <1>10, <4>3, <5>1, <5>5 DEF WalkIn
      <4> QED
        BY <4>6, <4>7
    <3> QED
      BY <3>3, <3>4
  <2> QED
    BY <2>1, <2>2, <2>3, <2>4, <2>5 DEF Started
<1>13. Asked' /\ OldTables' /\ NewTables' /\ Mapping' /\ Stored' /\ Job'
  BY <1>1 DEF IInv, Asked, OldTables, NewTables, Mapping, Stored, Job,
              Booting, Asking, Building, Filling, Running
<1>14. NewFrames' /\ Cache'
  BY <1>1 DEF IInv, NewFrames, Cache, Types, Top, Booting, Asking, Building, Filling, Running
<1> QED
  BY <1>11, <1>12, <1>13, <1>14 DEF IInv

LEMMA StartPagingStep ==
  ASSUME IInv, StartPaging
  PROVE  IInv'
<1>1. /\ pc = "map" /\ i = LoaderPages /\ cr3' = PAGE_DIR_PA /\ paging' = TRUE
      /\ pc' = "e820" /\ i' = 0
      /\ UNCHANGED <<machine, image, mem, tlb, dir, table, frame_min, job, fresh, ebx, map_count>>
  BY DEF StartPaging, given, biosVars
<1>2. Types /\ Started
  BY DEF IInv
<1>3. Types'
  <2>1. paging' /\ pc' \notin Booting \cup {"real", "answered"} /\ pc' \in Asking
    BY <1>1 DEF Booting, Asking
  <2>2. paging' \in BOOLEAN
    BY <1>1
  <2> QED
    BY <1>1, <1>2, <2>1, <2>2 DEF Types
<1>4. OldTables'
  <2>1. mem \in Memory /\ table \in Nat /\ image \in Nat /\ image <= LoaderPages
    BY <1>2, Given DEF Types, Memory
  <2>2. /\ PAGE_DIR_PA \in Frame /\ PAGE_DIR_PA \in Nat /\ PT_LOW1M_PA \in Nat /\ PT_KERNEL_PA \in Nat
        /\ PAGE_DIR_PA < PT_LOW1M_PA /\ PT_LOW1M_PA < PT_KERNEL_PA
        /\ KernelSlot \in Nat /\ 0 < KernelSlot /\ KernelSlot < Self /\ Self \in Entry
        /\ Low1M \in Nat /\ PT_KERNEL_PA < Low1M /\ KernelBase \in Nat /\ LoaderPages \in Nat
        /\ Entries \in Nat \ {0} /\ 0 \in Entry
    BY <1>2, LoaderFrames, NumbersAssumption, LayoutAssumption, Layout DEF Entry
  <2>3. /\ table - PT_KERNEL_PA \in Nat
        /\ table = PT_KERNEL_PA \/ (table - PT_KERNEL_PA) * Entries < LoaderPages
        /\ \A s \in Entry : mem[PAGE_DIR_PA][s] =
             IF s = Self THEN PAGE_DIR_PA
             ELSE IF s = 0 THEN PT_LOW1M_PA
             ELSE IF KernelSlot <= s /\ s - KernelSlot <= table - PT_KERNEL_PA
               THEN PT_KERNEL_PA + (s - KernelSlot) ELSE NotPresent
        /\ \A p \in 0 .. Low1M - 1 : mem[PT_LOW1M_PA][p] = p
        /\ \A p \in KernelBase .. KernelBase + LoaderPages - 1 :
             WalkIn(mem, PAGE_DIR_PA, p) = Low1M + p - KernelBase
    BY <1>1, <1>2, <2>1, <2>2 DEF Started
  <2>4. table < Low1M
    <3>1. CASE table = PT_KERNEL_PA
      BY <2>2, <3>1
    <3>2. CASE (table - PT_KERNEL_PA) * Entries < LoaderPages
      <4> DEFINE k == table - PT_KERNEL_PA
      <4>1. k * Entries <= LoaderPages - 1 /\ LoaderPages - 1 \in Nat /\ k \in Nat
        <5>1. k \in Nat
          BY <2>3
        <5> HIDE DEF k
        <5>2. k * Entries \in Nat
          BY <2>2, <5>1
        <5>3. k * Entries < LoaderPages
          BY <3>2 DEF k
        <5> QED
          BY <2>2, <5>1, <5>2, <5>3
      <4>2. k <= Slot(LoaderPages - 1) /\ Slot(LoaderPages - 1) \in Nat
        BY <4>1, SlotBounds
      <4>3. PT_KERNEL_PA + Slot(LoaderPages - 1) < Low1M
        BY LayoutAssumption DEF Slot
      <4> QED
        BY <2>1, <2>2, <4>1, <4>2, <4>3
    <3> QED
      BY <2>3, <3>1, <3>2
  <2>5. \A s \in Entry : mem[PAGE_DIR_PA][s] \in (0 .. Low1M - 1) \cup {NotPresent}
    BY <2>1, <2>2, <2>3, <2>4 DEF Entry
  <2>6. \A s \in Entry : mem[PAGE_DIR_PA][s] \in Frame \cup {NotPresent}
    BY <1>2, <2>5, Given
  <2>7. \A s, u \in Entry : mem[PAGE_DIR_PA][s] = mem[PAGE_DIR_PA][u] /\ mem[PAGE_DIR_PA][s] # NotPresent
          => s = u
    BY <2>2, <2>3 DEF Entry
  <2>8. Tree(mem, PAGE_DIR_PA)
    BY <2>2, <2>3, <2>6, <2>7 DEF Tree
  <2>9. Within(mem, PAGE_DIR_PA, 0, Low1M)
    BY <2>2, <2>5 DEF Within
  <2>10. \A p \in 0 .. Low1M - 1 : WalkIn(mem, PAGE_DIR_PA, p) = p
    <3>1. mem[PAGE_DIR_PA][0] = PT_LOW1M_PA /\ PT_LOW1M_PA # NotPresent
      BY <2>2, <2>3 DEF NotPresent
    <3> QED
      BY <2>3, <3>1, Regions DEF WalkIn
  <2>11. \A p \in Image : WalkIn(mem, PAGE_DIR_PA, p) = Low1M + p - KernelBase
    BY <2>1, <2>2, <2>3 DEF Image
  <2>12. Image' = Image
    BY <1>1 DEF Image
  <2> QED
    BY <1>1, <2>8, <2>9, <2>10, <2>11, <2>12 DEF OldTables
<1>5. Asked'
  <2>1. ebx = 0 /\ map_count = 0
    BY <1>1 DEF IInv, Asked, Booting
  <2>2. 0 <= Len(machine.map) /\ 0 < MAX_MEM_MAP
    BY <1>2, MapFacts, NumbersAssumption
  <2>3. pc' \notin Booting \cup Building \cup Running
    BY <1>1 DEF Booting, Building, Filling, Running
  <2> QED
    BY <1>1, <2>1, <2>2, <2>3 DEF Asked
<1>6. Started' /\ NewTables' /\ Mapping' /\ Stored' /\ Job'
  BY <1>1 DEF IInv, Started, NewTables, Mapping, Stored, Job,
              Booting, Asking, Building, Filling, Running
<1>7. NewFrames'
  BY <1>1 DEF IInv, NewFrames, Top, Booting, Asking, Building, Filling, Running
<1>8. Cache'
  <2>1. tlb = <<>>
    BY <1>1 DEF IInv, Cache, Booting
  <2>2. DOMAIN tlb' = {}
    BY <1>1, <2>1, NoCache
  <2> QED
    BY <1>1, <2>1, <2>2 DEF Cache, Coherent, Running
<1> QED
  BY <1>3, <1>4, <1>5, <1>6, <1>7, <1>8 DEF IInv

-------------------------------------------------------------------------------
(* The memory map *)

LEMMA callbiosStep ==
  ASSUME IInv, callbios
  PROVE  IInv'
<1>1. /\ pc = "e820" /\ pc' = "real" /\ ~paging' /\ paging' \in BOOLEAN
      /\ UNCHANGED <<machine, image, mem, cr3, tlb, i, dir, table, frame_min, job, fresh, ebx, map_count>>
  BY DEF callbios, given, biosVars
<1>2. Types'
  <2>1. pc' \in Asking /\ pc' \in {"real", "answered"}
    BY <1>1 DEF Asking
  <2> QED
    BY <1>1, <2>1 DEF IInv, Types
<1>3. Started' /\ Asked' /\ NewTables' /\ Mapping' /\ Stored' /\ Job'
  BY <1>1 DEF IInv, Started, Asked, EndUntold, NewTables, Mapping, Stored, Job,
              Booting, Asking, Building, Filling, Running
<1>4. OldTables'
  <2>1. Image' = Image
    BY <1>1 DEF Image
  <2> QED
    BY <1>1, <2>1 DEF IInv, OldTables, Tree, Within, WalkIn, Asking
<1>5. NewFrames'
  BY <1>1 DEF IInv, NewFrames, Top, Booting, Asking, Building, Filling, Running
<1>6. Cache'
  <2>1. tlb = <<>>
    BY <1>1 DEF IInv, Cache, Asking
  <2>2. DOMAIN tlb' = {}
    BY <1>1, <2>1, NoCache
  <2> QED
    BY <1>1, <2>1, <2>2 DEF Cache, Coherent, Running
<1> QED
  BY <1>2, <1>3, <1>4, <1>5, <1>6 DEF IInv

LEMMA Int15Step ==
  ASSUME IInv, Int15
  PROVE  IInv'
<1>1. /\ pc = "real" /\ pc' = "answered"
      /\ UNCHANGED <<machine, image, mem, cr3, paging, tlb, i, dir, table, frame_min, job, fresh, map_count>>
      /\ \/ /\ ebx < Len(machine.map)
            /\ ebx' = IF ebx + 1 = Len(machine.map) /\ machine.last = "zero" THEN 0 ELSE ebx + 1
         \/ ebx = Len(machine.map) /\ ebx' = IF machine.last = "carry" THEN ebx ELSE 0
  BY DEF Int15, given
<1>2. /\ i \in Nat /\ ebx \in Nat /\ ~paging /\ paging \in BOOLEAN
      /\ Len(machine.map) \in Nat /\ machine.last \in {"zero", "carry", "carry_zero"}
      /\ map_count = 0
      /\ i < MAX_MEM_MAP
      /\ (i <= Len(machine.map) /\ ebx = i) \/ (Len(machine.map) < i /\ EndUntold)
      /\ i = Len(machine.map) /\ i > 0 => machine.last # "zero"
  BY <1>1, MapFacts DEF IInv, Asked, Types, Asking
<1>3. Types'
  <2>1. pc' \in Asking /\ pc' \in {"real", "answered"}
    BY <1>1 DEF Asking
  <2>2. ebx' \in {0, ebx, ebx + 1}
    BY <1>1
  <2>3. ebx' \in Nat
    BY <1>2, <2>2
  <2> QED
    BY <1>1, <1>2, <2>1, <2>3 DEF IInv, Types
<1>4. Asked'
  <2> DEFINE L == Len(machine.map)
  <2>5. L \in Nat /\ ebx \in Nat /\ i \in Nat
    BY <1>2
  <2>6. \/ i <= L /\ ebx = i
        \/ L < i /\ machine.last = "carry" /\ L > 0 /\ ebx = L
    BY <1>2 DEF EndUntold
  <2>7. i = L /\ i > 0 => machine.last # "zero"
    BY <1>2
  <2>8. \/ /\ ebx < L
           /\ ebx' = IF ebx + 1 = L /\ machine.last = "zero" THEN 0 ELSE ebx + 1
        \/ ebx = L /\ ebx' = IF machine.last = "carry" THEN ebx ELSE 0
    BY <1>1
  <2> HIDE DEF L
  <2>1. \/ i < L /\ ebx' = IF i + 1 = L /\ machine.last = "zero" THEN 0 ELSE i + 1
        \/ i = L /\ ebx' = 0 /\ (i = 0 \/ machine.last = "carry_zero")
        \/ L <= i /\ machine.last = "carry" /\ L > 0 /\ ebx' = L
    <3>1. CASE ebx < L /\ ebx' = IF ebx + 1 = L /\ machine.last = "zero" THEN 0 ELSE ebx + 1
      <4>1. i < L /\ ebx = i
        BY <2>5, <2>6, <3>1
      <4> QED
        BY <3>1, <4>1
    <3>2. CASE ebx = L /\ ebx' = IF machine.last = "carry" THEN ebx ELSE 0
      <4>1. L <= i
        BY <2>5, <2>6, <3>2
      <4>2. CASE machine.last = "carry"
        <5>1. ebx' = L
          BY <3>2, <4>2
        <5>2. L = 0 => i = 0 \/ L < i
          BY <2>5, <4>1
        <5> QED
          BY <2>5, <2>6, <4>1, <4>2, <5>1, <5>2
      <4>3. CASE machine.last # "carry"
        <5>1. i = L /\ ebx' = 0
          BY <2>5, <2>6, <3>2, <4>3
        <5>2. i = 0 \/ machine.last = "carry_zero"
          BY <1>2, <2>5, <2>7, <4>3, <5>1
        <5> QED
          BY <5>1, <5>2
      <4> QED
        BY <4>2, <4>3
    <3> QED
      BY <2>8, <3>1, <3>2
  <2>2. EndUntold' <=> machine.last = "carry" /\ L > 0 /\ ebx' = L
    BY <1>1 DEF EndUntold, L
  <2>3. pc' \notin Booting \cup {"e820", "real"} \cup Building \cup Running
    BY <1>1 DEF Booting, Building, Filling, Running
  <2>4. machine' = machine /\ i' = i /\ map_count' = 0
    BY <1>1, <1>2
  <2> QED
    BY <1>1, <1>2, <2>1, <2>2, <2>3, <2>4 DEF Asked, L
<1>5. Started' /\ NewTables' /\ Mapping' /\ Stored' /\ Job'
  BY <1>1 DEF IInv, Started, NewTables, Mapping, Stored, Job,
              Booting, Asking, Building, Filling, Running
<1>6. OldTables'
  <2>1. Image' = Image
    BY <1>1 DEF Image
  <2> QED
    BY <1>1, <2>1 DEF IInv, OldTables, Tree, Within, WalkIn, Asking
<1>7. NewFrames'
  BY <1>1 DEF IInv, NewFrames, Top, Booting, Asking, Building, Filling, Running
<1>8. Cache'
  <2>1. tlb = <<>>
    BY <1>1 DEF IInv, Cache, Asking
  <2>2. DOMAIN tlb' = {}
    BY <1>1, <2>1, NoCache
  <2> QED
    BY <1>1, <2>1, <2>2 DEF Cache, Coherent, Running
<1> QED
  BY <1>3, <1>4, <1>5, <1>6, <1>7, <1>8 DEF IInv

LEMMA BackToProtectedStep ==
  ASSUME IInv, BackToProtected
  PROVE  IInv'
<1>1. /\ paging' = TRUE /\ tlb' = <<>> /\ pc = "answered" /\ pc' \in {"rebuild", "e820"}
      /\ UNCHANGED <<machine, image, mem, cr3, dir, table, frame_min, job, fresh, ebx>>
  BY DEF BackToProtected, given, Answered
<1> DEFINE L == Len(machine.map)
<1>2. /\ i \in Nat /\ ebx \in Nat /\ map_count \in Nat /\ map_count = 0
      /\ L \in Nat /\ machine.last \in {"zero", "carry", "carry_zero"} /\ MAX_MEM_MAP \in Nat \ {0}
  BY <1>1, MapFacts, NumbersAssumption DEF IInv, Types, Asked, Asking
<1>3. /\ i < MAX_MEM_MAP
      /\ \/ i < L /\ ebx = IF i + 1 = L /\ machine.last = "zero" THEN 0 ELSE i + 1
         \/ i = L /\ ebx = 0 /\ (i = 0 \/ machine.last = "carry_zero")
         \/ L <= i /\ machine.last = "carry" /\ L > 0 /\ ebx = L
  BY <1>1 DEF IInv, Asked, EndUntold
<1>11. Complete <=> CASE machine.last = "zero" -> L <= MAX_MEM_MAP
                      [] machine.last = "carry_zero" -> L < MAX_MEM_MAP
                      [] machine.last = "carry" -> FALSE
  BY DEF Complete
<1> HIDE DEF L
<1>4. /\ i' \in Nat /\ map_count' \in Nat
      /\ pc' # "rebuild" => map_count' = 0
      /\ pc' = "e820" =>
           /\ i' < MAX_MEM_MAP
           /\ (i' <= L /\ ebx = i') \/ (L < i' /\ machine.last = "carry" /\ L > 0 /\ ebx = L)
           /\ i' = L /\ i' > 0 => machine.last # "zero"
      /\ pc' = "rebuild" => IF Complete THEN map_count' \in {L, L + 1} ELSE map_count' = 0 \/ L = 0
  <2>1. CASE ebx = 0
    <3>1. pc' = "rebuild" /\ map_count' = i + 1 /\ i' = 0
      BY <2>1 DEF BackToProtected, Answered
    <3>2. CASE i < L /\ i + 1 = L /\ machine.last = "zero"
      <4>1. Complete
        BY <1>2, <1>3, <1>11, <3>2
      <4> QED
        BY <1>2, <3>1, <3>2, <4>1
    <3>3. CASE i = L /\ i = 0
      BY <1>2, <3>1, <3>3
    <3>4. CASE i = L /\ machine.last = "carry_zero"
      <4>1. Complete
        BY <1>2, <1>3, <1>11, <3>4
      <4> QED
        BY <1>2, <3>1, <3>4, <4>1
    <3> QED
      BY <1>2, <1>3, <2>1, <3>2, <3>3, <3>4
  <2>2. CASE ebx # 0
    <3>1. \/ i < L /\ ebx = i + 1 /\ ~(i + 1 = L /\ machine.last = "zero")
          \/ L <= i /\ machine.last = "carry" /\ L > 0 /\ ebx = L
      BY <1>2, <1>3, <2>2
    <3>2. CASE i + 1 = MAX_MEM_MAP
      <4>1. pc' = "rebuild" /\ i' = 0 /\ map_count' = map_count
        BY <2>2, <3>2 DEF BackToProtected, Answered
      <4>2. ~Complete
        <5>1. machine.last = "zero" => ~(L <= MAX_MEM_MAP)
          BY <1>2, <3>1, <3>2
        <5>2. machine.last = "carry_zero" => ~(L < MAX_MEM_MAP)
          BY <1>2, <3>1, <3>2
        <5> QED
          BY <1>2, <1>11, <5>1, <5>2
      <4> QED
        BY <1>2, <4>1, <4>2
    <3>3. CASE i + 1 # MAX_MEM_MAP
      <4>1. pc' = "e820" /\ i' = i + 1 /\ map_count' = map_count
        BY <2>2, <3>3 DEF BackToProtected, Answered
      <4> QED
        BY <1>2, <1>3, <3>1, <3>3, <4>1
    <3> QED
      BY <3>2, <3>3
  <2> QED
    BY <2>1, <2>2
<1>5. Types'
  <2>1. pc' \in Asking \cup Building /\ pc' \notin Booting \cup {"real", "answered"}
    BY <1>1 DEF Asking, Building, Booting
  <2>2. paging' /\ paging' \in BOOLEAN
    BY <1>1
  <2> QED
    BY <1>1, <1>4, <2>1, <2>2 DEF IInv, Types
<1>6. Asked'
  <2>1. machine' = machine /\ ebx' = ebx /\ (Complete' <=> Complete)
    BY <1>1 DEF Complete
  <2>2. EndUntold' <=> machine.last = "carry" /\ L > 0 /\ ebx = L
    BY <2>1 DEF EndUntold, L
  <2>3. Counted' <=> IF Complete THEN map_count' \in {L, L + 1} ELSE map_count' = 0 \/ L = 0
    BY <2>1 DEF Counted, L
  <2>4. CASE pc' = "e820"
    <3>1. pc' \notin Booting \cup Building \cup Running /\ pc' # "answered"
      BY <2>4 DEF Booting, Building, Filling, Running
    <3> QED
      BY <1>4, <2>1, <2>2, <2>4, <3>1 DEF Asked, L
  <2>5. CASE pc' = "rebuild"
    <3>1. pc' \notin Booting \cup Asking
      BY <2>5 DEF Booting, Asking
    <3> QED
      BY <1>4, <2>3, <2>5, <3>1 DEF Asked, Asking, L
  <2> QED
    BY <1>1, <2>4, <2>5
<1>7. Started' /\ NewTables' /\ Mapping' /\ Stored' /\ Job'
  BY <1>1 DEF IInv, Started, NewTables, Mapping, Stored, Job,
              Booting, Asking, Building, Filling, Running
<1>8. OldTables'
  <2>1. Image' = Image
    BY <1>1 DEF Image
  <2> QED
    BY <1>1, <2>1 DEF IInv, OldTables, Tree, Within, WalkIn, Asking
<1>9. NewFrames'
  BY <1>1 DEF IInv, NewFrames, Top, Booting, Asking, Building, Filling, Running
<1>10. Cache'
  <2>1. DOMAIN <<>> = {}
    OBVIOUS
  <2>2. DOMAIN tlb' = {}
    BY <1>1, <2>1
  <2> QED
    BY <1>1, <2>2 DEF Cache, Coherent, Running
<1> QED
  BY <1>4, <1>5, <1>6, <1>7, <1>8, <1>9, <1>10 DEF IInv

-------------------------------------------------------------------------------
(* Writing through the tables *)

\* With a coherent TLB the processor sees what the tables say.
LEMMA Seen ==
  ASSUME IInv, pc \in Building \cup Running
  PROVE  /\ paging /\ mem \in Memory /\ Coherent(tlb, mem, cr3)
         /\ \A p : Translations(p) = {WalkIn(mem, cr3, p)}
         /\ \A p : Present(p) = {WalkIn(mem, cr3, p)} \ {NotPresent}
<1>1. paging /\ mem \in Memory /\ Coherent(tlb, mem, cr3)
  BY DEF IInv, Types, Cache, Memory, Building, Filling, Running, Booting
<1>2. \A p : Walk(p) = WalkIn(mem, cr3, p)
  BY <1>1 DEF Walk, WalkFrom, WalkIn
<1>3. \A p : Translations(p) = {WalkIn(mem, cr3, p)}
  BY <1>1, <1>2 DEF Translations, Coherent
<1> QED
  BY <1>1, <1>3 DEF Present

\* The TLB stays coherent when the processor uses a page, or forgets one.
LEMMA CachedCoherent ==
  ASSUME NEW c, NEW m, NEW r, Coherent(c, m, r), tlb = c,
         NEW w \in Page, WalkIn(m, r, w) # NotPresent
  PROVE  /\ Coherent(Cached(w, WalkIn(m, r, w)), m, r)
         /\ DOMAIN Cached(w, WalkIn(m, r, w)) = DOMAIN tlb \cup {w}
  BY DEF Coherent, Cached

LEMMA Forgotten ==
  ASSUME NEW c, NEW m, NEW r, Coherent(c, m, r), NEW p
  PROVE  Coherent(invlpg(c, p), m, r) /\ DOMAIN invlpg(c, p) = DOMAIN c \ {p}
  BY DEF Coherent, invlpg

LEMMA StaysCoherent ==
  ASSUME NEW c, NEW m, NEW m2, NEW r, Coherent(c, m, r),
         \A p \in DOMAIN c : WalkIn(m2, r, p) = WalkIn(m, r, p)
  PROVE  Coherent(c, m2, r)
  BY DEF Coherent

\* MAP_PAGE changes what one page shows, and no frame that matters to others.
LEMMA MapPage ==
  ASSUME IInv, pc \in Building, NEW frame \in Nat,
         NEW page \in KernelBase .. PageTableBase - 1, MAP_PAGE(frame, page)
  PROVE  /\ mem' \in Memory /\ Tree(mem', cr3) /\ mem'[cr3] = mem[cr3]
         /\ \A p \in Page : WalkIn(mem', cr3, p) = IF p = page THEN frame ELSE WalkIn(mem, cr3, p)
         /\ \A f \in Frame : Low1M <= f => mem'[f] = mem[f]
         /\ Coherent(tlb', mem', cr3)
<1> DEFINE s == Slot(page)
           w == TableWindow(s)
<1>1. /\ mem \in Memory /\ Coherent(tlb, mem, cr3) /\ Tree(mem, cr3) /\ Within(mem, cr3, 0, Low1M)
      /\ Present(w) = {WalkIn(mem, cr3, w)} \ {NotPresent}
  BY Seen DEF IInv, OldTables
<1>2. /\ page \in Page /\ s \in Entry /\ s # Self /\ Index(page) \in Entry
      /\ w \in Page /\ Slot(w) = Self /\ w # page
  <2>1. page \in Page /\ s < Self
    BY Regions
  <2>2. s \in Entry /\ Index(page) \in Entry /\ s \in Nat
    BY <2>1, OfPage DEF Entry
  <2>3. w \in Page /\ Slot(w) = Self
    BY <2>2, Regions
  <2> QED
    BY <2>1, <2>2, <2>3
<1> DEFINE t == mem[cr3][s]
<1>3. WalkIn(mem, cr3, w) = t
  BY <1>1, <1>2, WalkValue
<1>4. /\ t # NotPresent
      /\ mem' = [mem EXCEPT ![t][Index(page)] = frame]
      /\ tlb' = invlpg(Cached(w, t), page)
  BY <1>1, <1>3 DEF MAP_PAGE
<1>5. t \in Frame /\ t < Low1M
  BY <1>1, <1>2, <1>4 DEF Tree, Within
<1> HIDE DEF t, s, w
<1>6. /\ mem' \in Memory /\ mem'[t] = [mem[t] EXCEPT ![Index(page)] = frame]
      /\ \A f \in Frame : f # t => mem'[f] = mem[f]
  <2> DEFINE T == [mem[t] EXCEPT ![Index(page)] = frame]
  <2>1. T \in [Entry -> Value]
    BY <1>1, <1>2, <1>5 DEF Memory, Value
  <2>2. mem' = [mem EXCEPT ![t] = T]
    BY <1>4
  <2> HIDE DEF T
  <2>3. mem' \in Memory /\ mem'[t] = T /\ \A f \in Frame : f # t => mem'[f] = mem[f]
    BY <1>1, <1>5, <2>1, <2>2 DEF Memory
  <2> QED
    BY <2>3 DEF T
<1>7. /\ Tree(mem', cr3) /\ mem'[cr3] = mem[cr3]
      /\ \A p \in Page : WalkIn(mem', cr3, p) =
           IF Slot(p) = s THEN mem'[t][Index(p)] ELSE WalkIn(mem, cr3, p)
  <2>1. s \in Entry \ {Self} /\ mem[cr3][s] # NotPresent /\ \A f \in Frame : f # mem[cr3][s] => mem'[f] = mem[f]
    BY <1>2, <1>4, <1>6 DEF t
  <2>2. /\ Tree(mem', cr3) /\ mem'[cr3] = mem[cr3]
        /\ \A p \in Page : WalkIn(mem', cr3, p) =
             IF Slot(p) = s THEN mem'[mem[cr3][s]][Index(p)] ELSE WalkIn(mem, cr3, p)
    BY <1>1, <1>6, <2>1, SetTable
  <2> QED
    BY <2>2 DEF t
<1>8. ASSUME NEW p \in Page
      PROVE  WalkIn(mem', cr3, p) = IF p = page THEN frame ELSE WalkIn(mem, cr3, p)
  <2>1. mem[t] \in [Entry -> Value] /\ Index(p) \in Entry
    BY <1>1, <1>5, OfPage DEF Memory
  <2>2. CASE p = page
    BY <1>2, <1>6, <1>7, <2>1, <2>2 DEF s
  <2>3. CASE p # page /\ Slot(p) = s
    <3>1. Index(p) # Index(page)
      BY <1>2, <2>3, SamePage DEF s
    <3>2. WalkIn(mem, cr3, p) = mem[t][Index(p)]
      BY <1>4, <2>3 DEF WalkIn, t
    <3> QED
      BY <1>2, <1>6, <1>7, <2>1, <2>3, <3>1, <3>2
  <2>4. CASE Slot(p) # s
    BY <1>7, <2>4 DEF s
  <2> QED
    BY <2>2, <2>3, <2>4
<1>9. Coherent(tlb', mem', cr3)
  <2> DEFINE c == Cached(w, t)
  <2>1. Coherent(c, mem, cr3)
    BY <1>1, <1>2, <1>3, <1>4, CachedCoherent
  <2> HIDE DEF c
  <2>2. Coherent(invlpg(c, page), mem, cr3) /\ page \notin DOMAIN invlpg(c, page)
    BY <2>1, Forgotten
  <2>3. tlb' = invlpg(c, page)
    BY <1>4 DEF c
  <2>4. \A p \in DOMAIN tlb' : p \in Page /\ p # page
    BY <2>2, <2>3 DEF Coherent
  <2> QED
    BY <1>8, <2>2, <2>3, <2>4, StaysCoherent
<1>10. \A f \in Frame : Low1M <= f => mem'[f] = mem[f]
  BY <1>5, <1>6, NumbersAssumption DEF Frame
<1> QED
  BY <1>6, <1>7, <1>8, <1>9, <1>10

\* The loader's tables after a write above them.
LEMMA OldKept ==
  ASSUME IInv, pc \in Building, mem' \in Memory,
         \A f \in Frame : f < Low1M => mem'[f] = mem[f]
  PROVE  /\ Tree(mem', cr3) /\ mem'[cr3] = mem[cr3]
         /\ \A p \in Page : WalkIn(mem', cr3, p) = WalkIn(mem, cr3, p)
<1>1. mem \in Memory /\ Tree(mem, cr3) /\ Within(mem, cr3, 0, Low1M)
  BY Seen DEF IInv, OldTables
<1>2. \A f \in Frame : ~Unused(mem, cr3, f) => f < Low1M
  BY <1>1, NoFrame DEF Within, Unused
<1> QED
  BY <1>1, <1>2, Elsewhere

LEMMA OldAgain ==
  ASSUME IInv, pc \in Building, UNCHANGED <<image, cr3>>,
         Tree(mem', cr3), mem'[cr3] = mem[cr3],
         \A p \in Page \ {TmpDir, TmpTable} : WalkIn(mem', cr3, p) = WalkIn(mem, cr3, p)
  PROVE  OldTables'
<1>1. /\ cr3 = PAGE_DIR_PA /\ Tree(mem, cr3) /\ Within(mem, cr3, 0, Low1M)
      /\ \A p \in 0 .. Low1M - 1 : WalkIn(mem, cr3, p) = p
      /\ \A p \in Image \ {TmpDir, TmpTable} : WalkIn(mem, cr3, p) = Low1M + p - KernelBase
      /\ Types
  BY DEF IInv, OldTables
<1>2. Image' = Image
  BY DEF Image
<1>3. \A p \in 0 .. Low1M - 1 : p \in Page \ {TmpDir, TmpTable}
  <2>1. Low1M <= KernelBase
    <3>1. KernelBase = KernelSlot * Entries /\ 0 < KernelSlot /\ KernelSlot \in Nat
      BY Layout DEF Entry
    <3>2. Entries <= KernelSlot * Entries
      BY <3>1, NumbersAssumption
    <3> QED
      BY <3>1, <3>2, NumbersAssumption, LayoutAssumption
  <2>2. TmpDir \in KernelBase .. PageTableBase - 1 /\ TmpTable \in KernelBase .. PageTableBase - 1
    BY <1>1, Given
  <2> QED
    BY <2>1, <2>2, Regions, NumbersAssumption
<1>4. \A p \in Image : p \in Page
  BY <1>1, Given, Regions
<1> QED
  BY <1>1, <1>2, <1>3, <1>4 DEF OldTables, Within

-------------------------------------------------------------------------------
(* The new tables *)

LEMMA BuildFacts ==
  ASSUME IInv, pc \in Building
  PROVE  /\ Types /\ paging /\ mem \in Memory /\ frame_min \in Nat /\ dir \in Nat /\ table \in Nat
         /\ i \in Nat /\ Top \in Nat /\ image \in Nat /\ Top + Entries + DbPages <= Frames /\ Low1M <= Top
         /\ Low1M \in Nat /\ Entries \in Nat \ {0} /\ DbPages \in Nat /\ Frames \in Nat
         /\ TmpDir \in KernelBase .. PageTableBase - 1 /\ TmpTable \in KernelBase .. PageTableBase - 1
         /\ TmpDir \in Page /\ TmpTable \in Page /\ TmpDir # TmpTable
         /\ Coherent(tlb, mem, cr3) /\ Tree(mem, cr3)
         /\ Present(TmpDir) = {WalkIn(mem, cr3, TmpDir)} \ {NotPresent}
         /\ Present(TmpTable) = {WalkIn(mem, cr3, TmpTable)} \ {NotPresent}
         /\ ~fresh
<1>1. Types /\ ~fresh
  BY DEF IInv, Job, Building, Filling, Running
<1>2. TmpDir \in KernelBase .. PageTableBase - 1 /\ TmpTable \in KernelBase .. PageTableBase - 1
  BY <1>1, Given
<1>3. TmpDir # TmpTable
  BY ImagesAssumption
<1>4. Coherent(tlb, mem, cr3) /\ Tree(mem, cr3) /\ paging /\ mem \in Memory
  BY Seen DEF IInv, OldTables
<1>5. /\ Present(TmpDir) = {WalkIn(mem, cr3, TmpDir)} \ {NotPresent}
      /\ Present(TmpTable) = {WalkIn(mem, cr3, TmpTable)} \ {NotPresent}
  BY Seen
<1>6. Top \in Nat /\ image \in Nat /\ Low1M <= Top /\ Top + Entries + DbPages <= Frames
  BY <1>1, Given, NumbersAssumption DEF Top
<1> QED
  BY <1>1, <1>2, <1>3, <1>4, <1>5, <1>6, Regions, NumbersAssumption DEF Types

\* What is left unchanged by every step of this part.
Same == UNCHANGED <<machine, image, cr3, paging, job, fresh, ebx, map_count>>

\* The parts of the invariant that no such step disturbs.
LEMMA BuildRest ==
  ASSUME IInv, pc \in Building, pc' \in Building, Same,
         mem' \in Memory, i' \in Nat, dir' \in Nat, table' \in Nat, frame_min' \in Nat,
         Coherent(tlb', mem', cr3), OldTables', NewFrames', NewTables'
  PROVE  IInv'
<1>1. /\ pc \notin Booting \cup Asking \cup Running /\ pc' \notin Booting \cup Asking \cup Running
      /\ pc' \in Building
  BY DEF Booting, Asking, Building, Filling, Running
<1>2. Types'
  <2>1. paging' /\ paging' \in BOOLEAN /\ pc' \notin Booting \cup {"real", "answered"}
    BY <1>1, Seen DEF Same, IInv, Types, Asking
  <2> QED
    BY <1>1, <2>1 DEF IInv, Types, Memory, Same
<1>3. Started' /\ Asked' /\ Mapping' /\ Stored' /\ Job'
  <2>1. pc \notin {"map", "e820", "real", "answered", "window", "database", "scan", "usable"}
    BY <1>1 DEF Booting, Asking, Running
  <2>2. pc' \notin {"map", "e820", "real", "answered", "window", "database", "scan", "usable"}
    BY <1>1 DEF Booting, Asking, Running
  <2>3. Started' /\ Mapping' /\ Stored'
    BY <1>1, <2>2 DEF Started, Mapping, Stored
  <2>4. Asked'
    BY <1>1, <2>2 DEF IInv, Asked, Same, Counted, Complete
  <2>5. Job'
    BY <1>1, <2>2 DEF IInv, Job, Same
  <2> QED
    BY <2>3, <2>4, <2>5
<1>4. Cache'
  BY <1>1 DEF Cache, Same
<1> QED
  BY <1>2, <1>3, <1>4 DEF IInv

LEMMA NewDirectoryStep ==
  ASSUME IInv, NewDirectory
  PROVE  IInv'
<1>1. /\ pc = "rebuild" /\ MAP_PAGE(frame_min, TmpDir)
      /\ dir' = frame_min /\ frame_min' = frame_min + 1 /\ pc' = "clear"
      /\ Same /\ UNCHANGED <<i, table>>
  BY DEF NewDirectory, given, biosVars, Same
<1>2. pc \in Building /\ pc' \in Building /\ pc' \notin Filling
  BY <1>1 DEF Building, Filling
<1>3. frame_min = Top
  BY <1>1 DEF IInv, NewFrames
<1>4. /\ mem' \in Memory /\ Tree(mem', cr3) /\ mem'[cr3] = mem[cr3]
      /\ \A p \in Page : WalkIn(mem', cr3, p) = IF p = TmpDir THEN frame_min ELSE WalkIn(mem, cr3, p)
      /\ Coherent(tlb', mem', cr3)
  BY <1>1, <1>2, BuildFacts, MapPage
<1>5. OldTables'
  BY <1>1, <1>2, <1>4, OldAgain DEF Same
<1>6. NewFrames'
  <2>1. cr3' = cr3 /\ Top' = Top
    BY <1>1 DEF Same, Top
  <2>2. WalkIn(mem', cr3', TmpDir) = frame_min
    BY <1>2, <1>4, <2>1, BuildFacts
  <2>3. dir' = Top /\ frame_min' = Top + 1 /\ Top \in Nat /\ Top + 1 <= Frames
    BY <1>1, <1>2, <1>3, BuildFacts
  <2> QED
    BY <1>1, <1>3, <2>1, <2>2, <2>3 DEF NewFrames, Booting, Asking, Filling, Running
<1>7. NewTables'
  BY <1>2 DEF NewTables
<1> QED
  BY <1>1, <1>2, <1>4, <1>5, <1>6, <1>7, BuildFacts, BuildRest

LEMMA ClearDirectoryStep ==
  ASSUME IInv, ClearDirectory
  PROVE  IInv'
<1>1. /\ pc = "clear" /\ pc' = "low" /\ Same /\ UNCHANGED <<i, dir, table, frame_min>>
      /\ \E d \in Present(TmpDir) :
           /\ mem' = [mem EXCEPT ![d] = [Empty EXCEPT ![Self] = dir]]
           /\ tlb' = Cached(TmpDir, d)
  BY DEF ClearDirectory, given, biosVars, Same, Self
<1>2. pc \in Building /\ pc' \in Building /\ pc \in Filling \cup {"clear"}
  BY <1>1 DEF Building, Filling
<1>3. /\ Top <= dir /\ dir < frame_min /\ frame_min = Top + 1 /\ frame_min <= Frames
      /\ WalkIn(mem, cr3, TmpDir) = dir
  BY <1>1, <1>2 DEF IInv, NewFrames
<1>4. /\ Types /\ mem \in Memory /\ frame_min \in Nat /\ dir \in Nat /\ table \in Nat /\ i \in Nat
      /\ Top \in Nat /\ Low1M <= Top /\ Low1M \in Nat /\ TmpDir \in Page
      /\ Coherent(tlb, mem, cr3) /\ Tree(mem, cr3) /\ Entries \in Nat \ {0} /\ Frames \in Nat
      /\ Present(TmpDir) = {WalkIn(mem, cr3, TmpDir)} \ {NotPresent}
  BY <1>2, BuildFacts
<1>5. dir \in Frame /\ dir # NotPresent /\ dir = Top
  BY <1>3, <1>4 DEF Frame, NotPresent
<1> DEFINE D == [Empty EXCEPT ![Self] = dir]
<1>6. /\ D \in [Entry -> Value] /\ D[Self] = dir
      /\ \A s \in Entry \ {Self} : D[s] = NotPresent
  BY <1>4, EmptyTable, Layout DEF Empty, Value
<1>7. mem' = [mem EXCEPT ![dir] = D] /\ tlb' = Cached(TmpDir, dir)
  BY <1>1, <1>3, <1>4
<1> HIDE DEF D
<1>8. mem' \in Memory /\ mem'[dir] = D /\ \A f \in Frame : f # dir => mem'[f] = mem[f]
  BY <1>4, <1>5, <1>6, <1>7 DEF Memory
<1>9. /\ Tree(mem', cr3) /\ mem'[cr3] = mem[cr3]
      /\ \A p \in Page : WalkIn(mem', cr3, p) = WalkIn(mem, cr3, p)
  <2>1. \A f \in Frame : f < Low1M => mem'[f] = mem[f]
    BY <1>4, <1>5, <1>8 DEF Frame
  <2> QED
    BY <1>2, <1>8, <2>1, OldKept
<1>10. OldTables'
  BY <1>1, <1>2, <1>9, OldAgain DEF Same
<1>11. Coherent(tlb', mem', cr3)
  <2>1. Coherent(tlb', mem, cr3)
    BY <1>3, <1>4, <1>5, <1>7, CachedCoherent
  <2>2. \A p \in DOMAIN tlb' : WalkIn(mem', cr3, p) = WalkIn(mem, cr3, p)
    BY <1>9, <2>1 DEF Coherent
  <2> QED
    BY <2>1, <2>2, StaysCoherent
<1>12. Tree(mem', dir)
  BY <1>5, <1>6, <1>8, Layout DEF Tree
<1>13. NewTables'
  <2>1. dir' = dir /\ frame_min' = frame_min /\ Top' = Top /\ pc' = "low"
    BY <1>1 DEF Same, Top
  <2>2. Within(mem', dir, Top, frame_min)
    BY <1>3, <1>4, <1>5, <1>6, <1>8 DEF Within
  <2>3. \A p \in Page : Slot(p) # Self => WalkIn(mem', dir, p) = NotPresent
    BY <1>6, <1>8, OfPage DEF WalkIn
  <2> QED
    BY <1>6, <1>8, <1>12, <2>1, <2>2, <2>3 DEF NewTables
<1>14. NewFrames'
  <2>1. cr3' = cr3 /\ Top' = Top /\ dir' = dir /\ frame_min' = frame_min
    BY <1>1 DEF Same, Top
  <2>2. Cardinality(Absent(mem', dir)) <= Entries - 1
    <3>1. Self \notin Absent(mem', dir) /\ Self \in Entry
      BY <1>5, <1>6, <1>8, Layout DEF Absent
    <3>2. Absent(mem', dir) \subseteq Entry \ {Self}
      BY <3>1 DEF Absent
    <3>3. /\ IsFiniteSet(Entry \ {Self}) /\ Cardinality(Entry \ {Self}) = Entries - 1
      <4>1. Entries - 1 \in Int /\ 0 \in Int /\ 0 <= Entries - 1
        BY <1>4
      <4>2. IsFiniteSet(Entry) /\ Cardinality(Entry) = (Entries - 1) - 0 + 1
        BY <4>1, FS_Interval DEF Entry
      <4>3. /\ IsFiniteSet(Entry \ {Self}) /\ Cardinality(Entry \ {Self}) = Cardinality(Entry) - 1
        BY <3>1, <4>2, FS_RemoveElement
      <4> QED
        BY <1>4, <4>2, <4>3
    <3>4. Cardinality(Absent(mem', dir)) <= Cardinality(Entry \ {Self})
      BY <3>2, <3>3, FS_Subset
    <3> QED
      BY <3>3, <3>4
  <2>3. Cardinality(Absent(mem', dir)) \in Nat
    BY AbsentCount
  <2>4. frame_min + Cardinality(Absent(mem', dir)) <= Top + Entries + 0
    BY <1>3, <1>4, <2>2, <2>3
  <2>5. WalkIn(mem', cr3, TmpDir) = dir
    BY <1>3, <1>4, <1>9
  <2> QED
    BY <1>1, <1>3, <2>1, <2>4, <2>5 DEF NewFrames, Booting, Asking, Filling, Running
<1> QED
  BY <1>1, <1>2, <1>4, <1>8, <1>10, <1>11, <1>13, <1>14, BuildRest

LEMMA MeantKept ==
  ASSUME UNCHANGED <<machine, image, map_count>>, NEW p, Meant(p, WalkIn(mem', dir', p))
  PROVE  Meant(p, WalkIn(mem, dir, p))'
  BY DEF Meant, LowWindow, Image, FirmwarePage, Area, Told

LEMMA FillFacts ==
  ASSUME IInv, pc \in Filling
  PROVE  /\ pc \in Building
         /\ Top <= dir /\ dir < frame_min /\ frame_min <= Frames
         /\ dir \in Frame /\ dir # NotPresent /\ Low1M <= dir
         /\ WalkIn(mem, cr3, TmpDir) = dir /\ Present(TmpDir) = {dir}
         /\ Tree(mem, dir) /\ Within(mem, dir, Top, frame_min)
         /\ \A p \in Page : Slot(p) # Self =>
              WalkIn(mem, dir, p) = NotPresent \/ Meant(p, WalkIn(mem, dir, p))
         /\ frame_min + Cardinality(Absent(mem, dir))
              <= Top + Entries + (IF pc \in {"fill", "table"} THEN 1 ELSE 0)
         /\ pc # "low" => /\ Top <= table /\ table < frame_min /\ table \in Frame /\ table # NotPresent
                          /\ WalkIn(mem, cr3, TmpTable) = table /\ Present(TmpTable) = {table}
<1>1. pc \in Building
  BY DEF Building
<1>2. /\ Top <= dir /\ dir < frame_min /\ frame_min <= Frames /\ WalkIn(mem, cr3, TmpDir) = dir
      /\ frame_min + Cardinality(Absent(mem, dir))
           <= Top + Entries + (IF pc \in {"fill", "table"} THEN 1 ELSE 0)
  BY DEF IInv, NewFrames
<1>3. pc # "low" => Top <= table /\ table < frame_min /\ WalkIn(mem, cr3, TmpTable) = table
  BY DEF IInv, NewFrames
<1>4. /\ Tree(mem, dir) /\ Within(mem, dir, Top, frame_min)
      /\ \A p \in Page : Slot(p) # Self =>
           WalkIn(mem, dir, p) = NotPresent \/ Meant(p, WalkIn(mem, dir, p))
  BY DEF IInv, NewTables
<1>5. /\ dir \in Nat /\ table \in Nat /\ frame_min \in Nat /\ Frames \in Nat /\ Top \in Nat /\ Low1M \in Nat
      /\ Low1M <= Top
      /\ Present(TmpDir) = {WalkIn(mem, cr3, TmpDir)} \ {NotPresent}
      /\ Present(TmpTable) = {WalkIn(mem, cr3, TmpTable)} \ {NotPresent}
  BY <1>1, BuildFacts
<1>6. dir \in Frame /\ dir # NotPresent /\ Low1M <= dir
  BY <1>2, <1>5 DEF Frame, NotPresent
<1>7. pc # "low" => table \in Frame /\ table # NotPresent
  BY <1>2, <1>3, <1>5 DEF Frame, NotPresent
<1> QED
  BY <1>1, <1>2, <1>3, <1>4, <1>5, <1>6, <1>7

\* Frames below 1 MB do not matter to the new tables, nor others to the old.
LEMMA NewKept ==
  ASSUME IInv, pc \in Filling, mem' \in Memory,
         \A f \in Frame : Low1M <= f => mem'[f] = mem[f]
  PROVE  /\ Tree(mem', dir) /\ mem'[dir] = mem[dir]
         /\ \A p \in Page : WalkIn(mem', dir, p) = WalkIn(mem, dir, p)
<1>1. mem \in Memory /\ Tree(mem, dir) /\ Within(mem, dir, Top, frame_min) /\ Low1M <= Top
      /\ Low1M \in Nat /\ Top \in Nat
  BY FillFacts, BuildFacts
<1>2. \A f \in Frame : ~Unused(mem, dir, f) => Low1M <= f
  <2> SUFFICES ASSUME NEW f \in Frame, NEW s \in Entry, mem[dir][s] = f PROVE Low1M <= f
    BY DEF Unused
  <2>1. f # NotPresent /\ f \in Nat
    BY NoFrame DEF Frame
  <2> QED
    BY <1>1, <2>1 DEF Within
<1> QED
  BY <1>1, <1>2, Elsewhere

\* A frame for a table, shown at tmp_page_table.
LEMMA NewTableFacts ==
  ASSUME IInv, pc \in {"low", "image"}, pc' \in {"fill", "table"}, NewTable, Same, UNCHANGED <<i, dir>>,
         NEW s \in Entry, mem[dir][s] = NotPresent
  PROVE  /\ mem' \in Memory /\ Coherent(tlb', mem', cr3) /\ OldTables' /\ NewFrames'
         /\ Tree(mem', dir) /\ mem'[dir] = mem[dir] /\ Within(mem', dir, Top, frame_min')
         /\ Unused(mem', dir, table')
         /\ \A p \in Page : WalkIn(mem', dir, p) = WalkIn(mem, dir, p)
         /\ table' \in Nat /\ frame_min' \in Nat
<1>1. /\ pc \in Filling /\ pc \in Building /\ pc' \in Filling /\ pc' \in Building /\ pc' # "low"
      /\ pc \notin {"fill", "table"}
  BY DEF Filling, Building
<1>2. MAP_PAGE(frame_min, TmpTable) /\ table' = frame_min /\ frame_min' = frame_min + 1
  BY DEF NewTable
<1>3. /\ frame_min \in Nat /\ TmpTable \in KernelBase .. PageTableBase - 1 /\ TmpDir # TmpTable
      /\ TmpDir \in Page /\ TmpTable \in Page /\ mem \in Memory /\ Top \in Nat /\ Entries \in Nat
      /\ DbPages \in Nat /\ Top + Entries + DbPages <= Frames /\ dir \in Nat /\ Frames \in Nat
  BY <1>1, BuildFacts
<1>4. /\ Top <= dir /\ dir < frame_min /\ WalkIn(mem, cr3, TmpDir) = dir
      /\ Tree(mem, dir) /\ Within(mem, dir, Top, frame_min)
      /\ frame_min + Cardinality(Absent(mem, dir)) <= Top + Entries + 0
  BY <1>1, FillFacts
<1>5. /\ mem' \in Memory /\ Tree(mem', cr3) /\ mem'[cr3] = mem[cr3]
      /\ \A p \in Page : WalkIn(mem', cr3, p) = IF p = TmpTable THEN frame_min ELSE WalkIn(mem, cr3, p)
      /\ \A f \in Frame : Low1M <= f => mem'[f] = mem[f]
      /\ Coherent(tlb', mem', cr3)
  BY <1>1, <1>2, <1>3, MapPage
<1>6. OldTables'
  BY <1>1, <1>5, OldAgain DEF Same
<1>7. /\ Tree(mem', dir) /\ mem'[dir] = mem[dir]
      /\ \A p \in Page : WalkIn(mem', dir, p) = WalkIn(mem, dir, p)
  BY <1>1, <1>5, NewKept
<1>8. /\ Cardinality(Absent(mem, dir)) \in Nat /\ Cardinality(Absent(mem, dir)) >= 1
  <2>1. s \in Absent(mem, dir)
    BY DEF Absent
  <2>2. IsFiniteSet(Absent(mem, dir)) /\ Cardinality(Absent(mem, dir)) \in Nat
    BY AbsentCount
  <2>3. IsFiniteSet(Absent(mem, dir) \ {s})
    BY <2>1, <2>2, FS_RemoveElement
  <2>4. Cardinality(Absent(mem, dir) \ {s}) \in Nat
    BY <2>3, FS_CardinalityType
  <2>5. Cardinality(Absent(mem, dir) \ {s}) = Cardinality(Absent(mem, dir)) - 1
    BY <2>1, AbsentCount
  <2> QED
    BY <2>2, <2>4, <2>5
<1>9. Absent(mem', dir) = Absent(mem, dir)
  BY <1>7 DEF Absent
<1>10. NewFrames'
  <2>1. cr3' = cr3 /\ Top' = Top /\ dir' = dir
    BY DEF Same, Top
  <2>2. WalkIn(mem', cr3, TmpDir) = dir /\ WalkIn(mem', cr3, TmpTable) = frame_min
    BY <1>3, <1>4, <1>5
  <2>3. frame_min + 1 <= Frames /\ dir < frame_min + 1 /\ Top <= frame_min /\ frame_min < frame_min + 1
    BY <1>3, <1>4, <1>8
  <2>4. frame_min + 1 + Cardinality(Absent(mem', dir)) <= Top + Entries + 1
    BY <1>3, <1>4, <1>8, <1>9
  <2>5. pc' \notin Booting \cup Asking \cup {"rebuild", "clear"} \cup Running
    BY DEF Booting, Asking, Running
  <2> QED
    BY <1>2, <1>4, <2>1, <2>2, <2>3, <2>4, <2>5 DEF NewFrames
<1>11. Within(mem', dir, Top, frame_min') /\ Unused(mem', dir, table')
  <2>1. \A u \in Entry : mem[dir][u] \in Frame \cup {NotPresent}
    BY <1>4 DEF Tree
  <2>2. \A f \in Frame : f \in Nat
    BY DEF Frame
  <2>3. \A u \in Entry : mem[dir][u] # frame_min
    BY <1>3, <1>4, <2>1, <2>2 DEF Within, NotPresent
  <2>4. Within(mem', dir, Top, frame_min')
    BY <1>2, <1>3, <1>4, <1>7, <2>1, <2>2 DEF Within
  <2> QED
    BY <1>2, <1>7, <2>3, <2>4 DEF Unused
<1> QED
  BY <1>2, <1>3, <1>5, <1>6, <1>7, <1>10, <1>11

LEMMA LowTableStep ==
  ASSUME IInv, LowTable
  PROVE  IInv'
<1>1. pc = "low" /\ pc' = "fill" /\ NewTable /\ Same /\ UNCHANGED <<i, dir>>
  BY DEF LowTable, given, biosVars, Same
<1>2. pc \in Filling /\ pc \in Building /\ pc' \in Building
  BY <1>1 DEF Filling, Building
<1>3. /\ \A s \in Entry \ {Self} : mem[dir][s] = NotPresent
      /\ \A p \in Page : Slot(p) # Self =>
           WalkIn(mem, dir, p) = NotPresent \/ Meant(p, WalkIn(mem, dir, p))
  BY <1>1, <1>2 DEF IInv, NewTables
<1>4. 0 \in Entry /\ mem[dir][0] = NotPresent
  <2>1. 0 \in Entry /\ 0 < KernelSlot /\ KernelSlot < Self /\ KernelSlot \in Nat /\ Self \in Nat
    BY Layout DEF Entry
  <2> QED
    BY <1>3, <2>1
<1>5. /\ mem' \in Memory /\ Coherent(tlb', mem', cr3) /\ OldTables' /\ NewFrames'
      /\ Tree(mem', dir) /\ mem'[dir] = mem[dir] /\ Within(mem', dir, Top, frame_min')
      /\ Unused(mem', dir, table')
      /\ \A p \in Page : WalkIn(mem', dir, p) = WalkIn(mem, dir, p)
      /\ table' \in Nat /\ frame_min' \in Nat
  BY <1>1, <1>4, NewTableFacts
<1>6. NewTables'
  <2>1. dir' = dir /\ Top' = Top
    BY <1>1 DEF Same, Top
  <2>2. \A p \in Page : Slot(p) # Self => WalkIn(mem', dir', p) = NotPresent
    BY <1>3, <1>5, <2>1, OfPage DEF WalkIn
  <2> QED
    BY <1>1, <1>3, <1>5, <2>1, <2>2 DEF NewTables
<1>7. i' \in Nat /\ dir' \in Nat
  BY <1>1, <1>2, BuildFacts
<1> QED
  BY <1>1, <1>2, <1>5, <1>6, <1>7, BuildRest

LEMMA ImageTableStep ==
  ASSUME IInv, ImageTable
  PROVE  IInv'
<1>1. /\ pc = "image" /\ pc' = "table" /\ i < image /\ Lacks(KernelBase + i)
      /\ NewTable /\ Same /\ UNCHANGED <<i, dir>>
  BY DEF ImageTable, given, biosVars, Same
<1>2. pc \in Filling /\ pc \in Building /\ pc' \in Building
  BY <1>1 DEF Filling, Building
<1> DEFINE s == Slot(KernelBase + i)
<1>3. s \in Entry /\ mem[dir][s] = NotPresent
  <2>1. Present(TmpDir) = {dir}
    BY <1>2, FillFacts
  <2>2. KernelBase + i \in Page
    <3>1. KernelBase + i \in Image
      BY <1>1, <1>2, BuildFacts, NumbersAssumption DEF Image
    <3> QED
      BY <1>2, <3>1, BuildFacts, Given, Regions
  <2> QED
    BY <1>1, <2>1, <2>2, OfPage DEF Lacks
<1> HIDE DEF s
<1>4. /\ mem' \in Memory /\ Coherent(tlb', mem', cr3) /\ OldTables' /\ NewFrames'
      /\ Tree(mem', dir) /\ mem'[dir] = mem[dir] /\ Within(mem', dir, Top, frame_min')
      /\ Unused(mem', dir, table')
      /\ \A p \in Page : WalkIn(mem', dir, p) = WalkIn(mem, dir, p)
      /\ table' \in Nat /\ frame_min' \in Nat
  BY <1>1, <1>3, NewTableFacts
<1>5. NewTables'
  <2>1. dir' = dir /\ Top' = Top /\ i' = i /\ image' = image /\ pc' = "table"
    BY <1>1 DEF Same, Top
  <2>2. /\ i <= image
        /\ \A p \in (0 .. Low1M - 1) \cup (KernelBase .. KernelBase + i - 1) :
              WalkIn(mem, dir, p) # NotPresent
        /\ \A u \in Entry : mem[dir][u] # NotPresent =>
              u = 0 \/ u = Self \/ (KernelSlot <= u /\ u <= Slot(KernelBase + i))
        /\ \A p \in Page : Slot(p) # Self =>
              WalkIn(mem, dir, p) = NotPresent \/ Meant(p, WalkIn(mem, dir, p))
    BY <1>1, <1>2 DEF IInv, NewTables
  <2>3. \A p \in (0 .. Low1M - 1) \cup (KernelBase .. KernelBase + i - 1) : p \in Page
    <3>1. \A p \in KernelBase .. KernelBase + i - 1 : p \in Image
      BY <1>1, <1>2, BuildFacts, NumbersAssumption DEF Image
    <3> QED
      BY <1>2, <3>1, BuildFacts, Given, Regions
  <2>4. \A p \in (0 .. Low1M - 1) \cup (KernelBase .. KernelBase + i - 1) :
          WalkIn(mem', dir', p) # NotPresent
    BY <1>4, <2>1, <2>2, <2>3
  <2>5. \A p \in Page : Slot(p) # Self =>
          WalkIn(mem', dir', p) = NotPresent \/ Meant(p, WalkIn(mem, dir, p))'
    <3> SUFFICES ASSUME NEW p \in Page, Slot(p) # Self, WalkIn(mem', dir', p) # NotPresent
                 PROVE  Meant(p, WalkIn(mem, dir, p))'
      OBVIOUS
    <3>1. Meant(p, WalkIn(mem', dir', p))
      BY <1>4, <2>1, <2>2
    <3>2. UNCHANGED <<machine, image, map_count>>
      BY <1>1 DEF Same
    <3> QED
      BY <3>1, <3>2, MeantKept
  <2>6. mem'[dir'][Slot(KernelBase + i)] = NotPresent
    BY <1>3, <1>4, <2>1 DEF s
  <2> QED
    BY <1>1, <1>4, <2>1, <2>2, <2>4, <2>5, <2>6 DEF NewTables
<1>6. i' \in Nat /\ dir' \in Nat
  BY <1>1, <1>2, BuildFacts
<1> QED
  BY <1>1, <1>2, <1>4, <1>5, <1>6, BuildRest

\* The pages of the kernel's image.
LEMMA ImagePages ==
  ASSUME Types, NEW n \in Nat, n < image
  PROVE  LET p == KernelBase + n IN
         /\ p \in Image /\ p \in Page /\ p \in Nat
         /\ Slot(p) \in Entry /\ Slot(p) \in Nat /\ Index(p) \in Entry
         /\ KernelSlot <= Slot(p) /\ Slot(p) < Self /\ 0 < Slot(p)
<1> DEFINE p == KernelBase + n
<1>1. p \in Image /\ p \in Nat
  BY Given, NumbersAssumption DEF Image
<1>2. p \in KernelBase .. PageTableBase - 1
  BY <1>1, Given
<1>3. p \in Page /\ KernelSlot <= Slot(p) /\ Slot(p) < Self
  BY <1>2, Regions
<1>4. Slot(p) \in Entry /\ Slot(p) \in Nat /\ Index(p) \in Entry
  BY <1>3, OfPage DEF Entry
<1>5. 0 < KernelSlot /\ KernelSlot \in Nat
  BY Layout DEF Entry
<1> QED
  BY <1>1, <1>3, <1>4, <1>5

\* tmp_page_table is filled and the directory gets an entry for it.
LEMMA FillTable ==
  ASSUME IInv, pc \in {"fill", "table"}, NEW s \in Entry, mem[dir][s] = NotPresent,
         NEW contents \in [Entry -> Value], Fill(s, contents),
         Same, UNCHANGED <<dir, table, frame_min>>, pc' = "image"
  PROVE  /\ mem' \in Memory /\ Coherent(tlb', mem', cr3) /\ OldTables' /\ NewFrames'
         /\ Tree(mem', dir) /\ Within(mem', dir, Top, frame_min)
         /\ mem'[dir][s] = table /\ \A u \in Entry \ {s} : mem'[dir][u] = mem[dir][u]
         /\ \A p \in Page : Slot(p) # Self =>
              WalkIn(mem', dir, p) = IF Slot(p) = s THEN contents[Index(p)] ELSE WalkIn(mem, dir, p)
<1>1. pc \in Filling /\ pc \in Building /\ pc # "low"
  BY DEF Filling, Building
<1>2. /\ dir \in Frame /\ table \in Frame /\ dir # NotPresent /\ table # NotPresent
      /\ Top <= dir /\ dir < frame_min /\ frame_min <= Frames
      /\ Top <= table /\ table < frame_min
      /\ Present(TmpDir) = {dir} /\ Present(TmpTable) = {table}
      /\ WalkIn(mem, cr3, TmpDir) = dir /\ WalkIn(mem, cr3, TmpTable) = table
      /\ Tree(mem, dir) /\ Within(mem, dir, Top, frame_min)
      /\ frame_min + Cardinality(Absent(mem, dir)) <= Top + Entries + 1
  BY <1>1, FillFacts
<1>3. /\ mem \in Memory /\ Coherent(tlb, mem, cr3) /\ TmpTable \in Page /\ TmpDir \in Page
      /\ Top \in Nat /\ Low1M \in Nat /\ Low1M <= Top /\ frame_min \in Nat /\ dir \in Nat /\ table \in Nat
      /\ Entries \in Nat
  BY <1>1, BuildFacts
<1>4. Unused(mem, dir, table) /\ table # dir
  <2>1. Unused(mem, dir, table)
    BY <1>1 DEF IInv, NewTables
  <2>2. mem[dir][Self] = dir /\ Self \in Entry
    BY <1>2, Layout DEF Tree
  <2> QED
    BY <2>1, <2>2 DEF Unused
<1> DEFINE D == [mem[dir] EXCEPT ![s] = table]
<1>5. D \in [Entry -> Value]
  BY <1>2, <1>3 DEF Memory, Value
<1>6. mem' = [mem EXCEPT ![table] = contents, ![dir] = D] /\ tlb' = Cached(TmpTable, table)
  BY <1>2, <1>3, <1>4 DEF Fill, Memory
<1>7. /\ mem' \in Memory /\ mem'[table] = contents /\ mem'[dir] = [mem[dir] EXCEPT ![s] = table]
      /\ \A f \in Frame : f # table /\ f # dir => mem'[f] = mem[f]
  <2> HIDE DEF D
  <2>1. /\ mem' \in Memory /\ mem'[table] = contents /\ mem'[dir] = D
        /\ \A f \in Frame : f # table /\ f # dir => mem'[f] = mem[f]
    BY <1>2, <1>3, <1>4, <1>5, <1>6 DEF Memory
  <2> QED
    BY <2>1 DEF D
<1>8. /\ Tree(mem', dir) /\ s # Self /\ mem'[dir][s] = table
      /\ \A u \in Entry \ {s} : mem'[dir][u] = mem[dir][u]
      /\ \A p \in Page : WalkIn(mem', dir, p) =
           IF Slot(p) = s THEN mem'[table][Index(p)]
           ELSE IF p = TableWindow(s) THEN table ELSE WalkIn(mem, dir, p)
      /\ Absent(mem', dir) = Absent(mem, dir) \ {s} /\ s \in Absent(mem, dir)
  <2>1. \A g \in Frame : ~Unused(mem, dir, g) /\ g # dir => mem'[g] = mem[g]
    BY <1>4, <1>7
  <2>2. mem \in Memory /\ mem' \in Memory /\ Tree(mem, dir) /\ table \in Frame /\ Unused(mem, dir, table)
        /\ mem'[dir] = [mem[dir] EXCEPT ![s] = table]
    BY <1>2, <1>3, <1>4, <1>7
  <2> HIDE DEF D
  <2> QED
    BY ONLY <2>1, <2>2, mem[dir][s] = NotPresent, s \in Entry, SetSlot
<1>9. /\ Tree(mem', cr3) /\ mem'[cr3] = mem[cr3]
      /\ \A p \in Page : WalkIn(mem', cr3, p) = WalkIn(mem, cr3, p)
  <2>1. \A f \in Frame : f < Low1M => mem'[f] = mem[f]
    BY <1>2, <1>3, <1>7 DEF Frame
  <2> QED
    BY <1>1, <1>7, <2>1, OldKept
<1>10. OldTables'
  BY <1>1, <1>9, OldAgain DEF Same
<1>11. Coherent(tlb', mem', cr3)
  <2>1. Coherent(tlb', mem, cr3)
    BY <1>2, <1>3, <1>6, CachedCoherent
  <2>2. \A p \in DOMAIN tlb' : WalkIn(mem', cr3, p) = WalkIn(mem, cr3, p)
    BY <1>9, <2>1 DEF Coherent
  <2> QED
    BY <2>1, <2>2, StaysCoherent
<1>12. NewFrames'
  <2>1. cr3' = cr3 /\ Top' = Top /\ dir' = dir /\ frame_min' = frame_min /\ table' = table
    BY DEF Same, Top
  <2>2. WalkIn(mem', cr3, TmpDir) = dir /\ WalkIn(mem', cr3, TmpTable) = table
    BY <1>2, <1>3, <1>9
  <2>3. frame_min + Cardinality(Absent(mem', dir)) <= Top + Entries + 0
    <3>1. Cardinality(Absent(mem', dir)) = Cardinality(Absent(mem, dir)) - 1
      BY <1>8, AbsentCount
    <3>2. Cardinality(Absent(mem, dir)) \in Nat
      BY AbsentCount
    <3> QED
      BY <1>2, <1>3, <3>1, <3>2
  <2>4. pc' \notin Booting \cup Asking \cup {"rebuild", "clear"} \cup Running
    BY DEF Booting, Asking, Running
  <2> QED
    BY <1>2, <2>1, <2>2, <2>3, <2>4 DEF NewFrames
<1>13. Within(mem', dir, Top, frame_min)
  BY <1>2, <1>8 DEF Within
<1>14. ASSUME NEW p \in Page, Slot(p) # Self
       PROVE  WalkIn(mem', dir, p) = IF Slot(p) = s THEN contents[Index(p)] ELSE WalkIn(mem, dir, p)
  <2>1. p # TableWindow(s)
    BY <1>14, Regions
  <2> QED
    BY <1>7, <1>8, <2>1
<1> QED
  BY <1>7, <1>8, <1>10, <1>11, <1>12, <1>13, <1>14

LEMMA FillLowStep ==
  ASSUME IInv, FillLow
  PROVE  IInv'
<1> DEFINE Low == [e \in Entry |-> IF e < Low1M THEN e ELSE NotPresent]
<1>1. /\ pc = "fill" /\ pc' = "image" /\ Fill(0, Low) /\ i' = 0
      /\ Same /\ UNCHANGED <<dir, table, frame_min>>
  BY DEF FillLow, given, biosVars, Same
<1>2. pc \in Filling /\ pc \in Building /\ pc' \in Building
  BY <1>1 DEF Filling, Building
<1>3. /\ 0 \in Entry /\ Self \in Entry /\ KernelSlot \in Entry /\ 0 < KernelSlot /\ KernelSlot < Self
      /\ KernelSlot \in Nat /\ Self \in Nat /\ 0 # Self
  BY Layout DEF Entry
<1>4. /\ \A s \in Entry \ {Self} : mem[dir][s] = NotPresent
      /\ Types
  BY <1>1, <1>2 DEF IInv, NewTables
<1>5. Low \in [Entry -> Value] /\ \A e \in Entry : Low[e] = IF e < Low1M THEN e ELSE NotPresent
  BY NumbersAssumption DEF Value, Entry
<1> HIDE DEF Low
<1>6. /\ mem' \in Memory /\ Coherent(tlb', mem', cr3) /\ OldTables' /\ NewFrames'
      /\ Tree(mem', dir) /\ Within(mem', dir, Top, frame_min)
      /\ mem'[dir][0] = table /\ \A u \in Entry \ {0} : mem'[dir][u] = mem[dir][u]
      /\ \A p \in Page : Slot(p) # Self =>
           WalkIn(mem', dir, p) = IF Slot(p) = 0 THEN Low[Index(p)] ELSE WalkIn(mem, dir, p)
  BY <1>1, <1>3, <1>4, <1>5, FillTable
<1>7. NewTables'
  <2>1. dir' = dir /\ Top' = Top /\ table' = table /\ frame_min' = frame_min /\ image' = image
    BY <1>1 DEF Same, Top
  <2>2. \A p \in 0 .. Low1M - 1 : WalkIn(mem', dir, p) = p /\ p # NotPresent
    <3> SUFFICES ASSUME NEW p \in 0 .. Low1M - 1 PROVE WalkIn(mem', dir, p) = p /\ p # NotPresent
      OBVIOUS
    <3>1. p \in Page /\ Slot(p) = 0 /\ Index(p) = p
      BY Regions
    <3>2. p \in Entry /\ p < Low1M /\ p # NotPresent
      BY NumbersAssumption, LayoutAssumption DEF Entry, NotPresent
    <3> QED
      BY <1>3, <1>5, <1>6, <3>1, <3>2
  <2>3. \A p \in KernelBase .. KernelBase + i' - 1 : FALSE
    BY <1>1, NumbersAssumption
  <2>4. \A p \in Page : Slot(p) # Self =>
          WalkIn(mem', dir, p) = NotPresent \/ (p < Low1M /\ WalkIn(mem', dir, p) = p)
    <3> SUFFICES ASSUME NEW p \in Page, Slot(p) # Self
                 PROVE  WalkIn(mem', dir, p) = NotPresent \/ (p < Low1M /\ WalkIn(mem', dir, p) = p)
      OBVIOUS
    <3>1. Slot(p) \in Entry /\ Index(p) \in Entry /\ p = Slot(p) * Entries + Index(p)
      BY OfPage
    <3>2. CASE Slot(p) = 0
      <4>1. p = Index(p)
        BY <3>1, <3>2, NumbersAssumption DEF Entry
      <4>2. WalkIn(mem', dir, p) = Low[Index(p)]
        BY <1>6, <3>2
      <4>3. Low[Index(p)] = IF Index(p) < Low1M THEN Index(p) ELSE NotPresent
        BY <1>5, <3>1
      <4> QED
        BY <4>1, <4>2, <4>3
    <3>3. CASE Slot(p) # 0
      <4>1. WalkIn(mem', dir, p) = WalkIn(mem, dir, p)
        BY <1>6, <3>3
      <4>2. WalkIn(mem, dir, p) = NotPresent
        BY <1>4, <3>1 DEF WalkIn
      <4> QED
        BY <4>1, <4>2
    <3> QED
      BY <3>2, <3>3
  <2>5. \A p \in Page : Slot(p) # Self =>
          WalkIn(mem', dir', p) = NotPresent \/ Meant(p, WalkIn(mem, dir, p))'
    <3> SUFFICES ASSUME NEW p \in Page, Slot(p) # Self, WalkIn(mem', dir', p) # NotPresent
                 PROVE  Meant(p, WalkIn(mem, dir, p))'
      OBVIOUS
    <3>1. Meant(p, WalkIn(mem', dir', p))
      BY <2>1, <2>4 DEF Meant
    <3>2. UNCHANGED <<machine, image, map_count>>
      BY <1>1 DEF Same
    <3> QED
      BY <3>1, <3>2, MeantKept
  <2>6. \A s \in Entry : mem'[dir'][s] # NotPresent => s = 0 \/ s = Self
    BY <1>4, <1>6, <2>1
  <2>7. i' <= image' /\ Slot(KernelBase + i') = KernelSlot
    <3>1. image \in Nat /\ KernelBase \in Nat
      BY <1>4, Given, NumbersAssumption
    <3> QED
      BY <1>1, <2>1, <3>1 DEF KernelSlot
  <2>8. mem'[dir'][KernelSlot] = NotPresent
    BY <1>3, <1>4, <1>6, <2>1
  <2> QED
    BY <1>1, <1>6, <2>1, <2>2, <2>3, <2>5, <2>6, <2>7, <2>8 DEF NewTables
<1>8. i' \in Nat /\ dir' \in Nat /\ table' \in Nat /\ frame_min' \in Nat
  BY <1>1, <1>2, BuildFacts
<1> QED
  BY <1>1, <1>2, <1>6, <1>7, <1>8, BuildRest

LEMMA ClearTableStep ==
  ASSUME IInv, ClearTable
  PROVE  IInv'
<1> DEFINE s == Slot(KernelBase + i)
<1>1. /\ pc = "table" /\ pc' = "image" /\ Fill(s, Empty)
      /\ Same /\ UNCHANGED <<i, dir, table, frame_min>>
  BY DEF ClearTable, given, biosVars, Same
<1>2. pc \in Filling /\ pc \in Building /\ pc' \in Building
  BY <1>1 DEF Filling, Building
<1>3. /\ Types /\ i < image /\ mem[dir][s] = NotPresent
      /\ \A p \in (0 .. Low1M - 1) \cup (KernelBase .. KernelBase + i - 1) :
            WalkIn(mem, dir, p) # NotPresent
      /\ \A u \in Entry : mem[dir][u] # NotPresent =>
            u = 0 \/ u = Self \/ (KernelSlot <= u /\ u <= s)
      /\ \A p \in Page : Slot(p) # Self =>
            WalkIn(mem, dir, p) = NotPresent \/ Meant(p, WalkIn(mem, dir, p))
  BY <1>1, <1>2 DEF IInv, NewTables
<1>4. /\ i \in Nat /\ image \in Nat /\ s \in Entry /\ s \in Nat /\ KernelSlot <= s /\ s < Self /\ 0 < s
  BY <1>2, <1>3, BuildFacts, ImagePages
<1> HIDE DEF s
<1>5. /\ mem' \in Memory /\ Coherent(tlb', mem', cr3) /\ OldTables' /\ NewFrames'
      /\ Tree(mem', dir) /\ Within(mem', dir, Top, frame_min)
      /\ mem'[dir][s] = table /\ \A u \in Entry \ {s} : mem'[dir][u] = mem[dir][u]
      /\ \A p \in Page : Slot(p) # Self =>
           WalkIn(mem', dir, p) = IF Slot(p) = s THEN Empty[Index(p)] ELSE WalkIn(mem, dir, p)
  BY <1>1, <1>3, <1>4, EmptyTable, FillTable
<1>6. NewTables'
  <2>1. dir' = dir /\ Top' = Top /\ table' = table /\ frame_min' = frame_min /\ image' = image /\ i' = i
    BY <1>1 DEF Same, Top
  <2>2. ASSUME NEW p \in Page, Slot(p) # Self
        PROVE  WalkIn(mem', dir, p) = IF Slot(p) = s THEN NotPresent ELSE WalkIn(mem, dir, p)
    BY <1>5, <2>2, OfPage DEF Empty
  <2>3. \A p \in (0 .. Low1M - 1) \cup (KernelBase .. KernelBase + i - 1) : p \in Page /\ Slot(p) # Self
    <3>1. \A p \in KernelBase .. KernelBase + i - 1 : p \in KernelBase .. PageTableBase - 1
      <4>1. KernelBase + image <= PageTableBase
        BY <1>3, ImagesAssumption, NumbersAssumption, LayoutAssumption DEF Types
      <4> QED
        BY <1>3, <1>4, <4>1, NumbersAssumption
    <3>2. 0 # Self
      BY <1>4
    <3>3. Self \in Nat
      BY Layout DEF Entry
    <3> QED
      BY <3>1, <3>2, <3>3, Regions
  <2>4. \A p \in (0 .. Low1M - 1) \cup (KernelBase .. KernelBase + i - 1) :
          WalkIn(mem', dir', p) # NotPresent
    <3> SUFFICES ASSUME NEW p \in (0 .. Low1M - 1) \cup (KernelBase .. KernelBase + i - 1)
                 PROVE  WalkIn(mem', dir, p) # NotPresent
      BY <2>1
    <3>1. p \in Page /\ Slot(p) # Self /\ WalkIn(mem, dir, p) # NotPresent
      BY <1>3, <2>3
    <3>2. Slot(p) # s
      BY <1>3, <3>1 DEF WalkIn
    <3> QED
      BY <2>2, <3>1, <3>2
  <2>5. \A p \in Page : Slot(p) # Self =>
          WalkIn(mem', dir', p) = NotPresent \/ Meant(p, WalkIn(mem, dir, p))'
    <3> SUFFICES ASSUME NEW p \in Page, Slot(p) # Self, WalkIn(mem', dir', p) # NotPresent
                 PROVE  Meant(p, WalkIn(mem, dir, p))'
      OBVIOUS
    <3>1. Meant(p, WalkIn(mem', dir', p))
      BY <1>3, <2>1, <2>2
    <3>2. UNCHANGED <<machine, image, map_count>>
      BY <1>1 DEF Same
    <3> QED
      BY <3>1, <3>2, MeantKept
  <2>6. \A u \in Entry : mem'[dir'][u] # NotPresent =>
          u = 0 \/ u = Self \/ (KernelSlot <= u /\ u <= s)
    BY <1>3, <1>4, <1>5, <2>1
  <2> QED
    BY <1>1, <1>3, <1>4, <1>5, <2>1, <2>4, <2>5, <2>6 DEF NewTables, s
<1>7. i' \in Nat /\ dir' \in Nat /\ table' \in Nat /\ frame_min' \in Nat
  BY <1>1, <1>2, BuildFacts
<1> QED
  BY <1>1, <1>2, <1>5, <1>6, <1>7, BuildRest

LEMMA MapImageStep ==
  ASSUME IInv, MapImage
  PROVE  IInv'
<1> DEFINE page == KernelBase + i
           s == Slot(page)
<1>1. /\ pc = "image" /\ pc' = "image" /\ i < image /\ ~Lacks(page) /\ i' = i + 1
      /\ Same /\ UNCHANGED <<dir, table, frame_min>>
      /\ \E t \in Present(TmpTable) :
           /\ mem' = [mem EXCEPT ![t][Index(page)] = Low1M + i]
           /\ tlb' = Cached(TmpTable, t)
  BY DEF MapImage, given, biosVars, Same
<1>2. pc \in Filling /\ pc \in Building /\ pc' \in Building /\ pc # "low"
  BY <1>1 DEF Filling, Building
<1>3. /\ Types
      /\ \A p \in (0 .. Low1M - 1) \cup (KernelBase .. KernelBase + i - 1) :
            WalkIn(mem, dir, p) # NotPresent
      /\ \A u \in Entry : mem[dir][u] # NotPresent =>
            u = 0 \/ u = Self \/ (KernelSlot <= u /\ u <= s)
      /\ \A p \in Page : Slot(p) # Self =>
            WalkIn(mem, dir, p) = NotPresent \/ Meant(p, WalkIn(mem, dir, p))
      /\ mem[dir][s] \in {NotPresent, table}
  BY <1>1, <1>2 DEF IInv, NewTables
<1>4. /\ i \in Nat /\ image \in Nat /\ mem \in Memory /\ Coherent(tlb, mem, cr3)
      /\ TmpTable \in Page /\ TmpDir \in Page /\ Low1M \in Nat /\ Low1M <= Top /\ Top \in Nat
      /\ frame_min \in Nat /\ dir \in Nat /\ table \in Nat /\ KernelBase \in Nat
  BY <1>2, BuildFacts, NumbersAssumption
<1>5. /\ page \in Image /\ page \in Page /\ s \in Entry /\ s \in Nat /\ Index(page) \in Entry
      /\ KernelSlot <= s /\ s < Self /\ 0 < s
  BY <1>1, <1>3, <1>4, ImagePages
<1>6. /\ dir \in Frame /\ table \in Frame /\ dir # NotPresent /\ table # NotPresent
      /\ Top <= dir /\ Top <= table /\ frame_min <= Frames
      /\ dir < frame_min /\ table < frame_min
      /\ Present(TmpDir) = {dir} /\ Present(TmpTable) = {table}
      /\ WalkIn(mem, cr3, TmpDir) = dir /\ WalkIn(mem, cr3, TmpTable) = table
      /\ Tree(mem, dir) /\ Within(mem, dir, Top, frame_min)
      /\ frame_min + Cardinality(Absent(mem, dir)) <= Top + Entries + 0
  BY <1>1, <1>2, FillFacts
<1> HIDE DEF page, s
<1>7. mem[dir][s] = table
  BY <1>1, <1>3, <1>6 DEF Lacks, s
<1> DEFINE T == [mem[table] EXCEPT ![Index(page)] = Low1M + i]
<1>8. mem[table] \in [Entry -> Value] /\ T \in [Entry -> Value]
  BY <1>4, <1>5, <1>6 DEF Memory, Value
<1>9. mem' = [mem EXCEPT ![table] = T] /\ tlb' = Cached(TmpTable, table)
  BY <1>1, <1>6
<1>10. /\ mem' \in Memory /\ mem'[table] = [mem[table] EXCEPT ![Index(page)] = Low1M + i]
       /\ \A f \in Frame : f # table => mem'[f] = mem[f]
  <2> HIDE DEF T
  <2>1. mem' \in Memory /\ mem'[table] = T /\ \A f \in Frame : f # table => mem'[f] = mem[f]
    BY <1>4, <1>6, <1>8, <1>9 DEF Memory
  <2> QED
    BY <2>1 DEF T
<1> HIDE DEF T
<1>11. /\ Tree(mem', dir) /\ mem'[dir] = mem[dir]
       /\ \A p \in Page : WalkIn(mem', dir, p) =
            IF Slot(p) = s THEN mem'[table][Index(p)] ELSE WalkIn(mem, dir, p)
  <2>1. s \in Entry \ {Self} /\ mem[dir][s] # NotPresent
    BY <1>5, <1>6, <1>7
  <2>2. \A f \in Frame : f # mem[dir][s] => mem'[f] = mem[f]
    BY <1>7, <1>10
  <2>3. /\ Tree(mem', dir) /\ mem'[dir] = mem[dir]
        /\ \A p \in Page : WalkIn(mem', dir, p) =
             IF Slot(p) = s THEN mem'[mem[dir][s]][Index(p)] ELSE WalkIn(mem, dir, p)
    BY ONLY <1>4, <1>6, <1>10, <2>1, <2>2, SetTable
  <2> QED
    BY <1>7, <2>3
\* One page of the new tables is new.
<1>12. ASSUME NEW p \in Page
       PROVE  WalkIn(mem', dir, p) = IF p = page THEN Low1M + i ELSE WalkIn(mem, dir, p)
  <2>1. Index(p) \in Entry
    BY OfPage
  <2>2. CASE p = page
    BY <1>5, <1>8, <1>10, <1>11, <2>2 DEF s
  <2>3. CASE p # page /\ Slot(p) = s
    <3>1. Index(p) # Index(page)
      BY <1>5, <2>3, SamePage DEF s
    <3>2. WalkIn(mem, dir, p) = mem[table][Index(p)]
      BY <1>6, <1>7, <2>3 DEF WalkIn
    <3> QED
      BY <1>5, <1>8, <1>10, <1>11, <2>1, <2>3, <3>1, <3>2
  <2>4. CASE Slot(p) # s
    BY <1>11, <2>4 DEF s
  <2> QED
    BY <2>2, <2>3, <2>4
<1>13. /\ Tree(mem', cr3) /\ mem'[cr3] = mem[cr3]
       /\ \A p \in Page : WalkIn(mem', cr3, p) = WalkIn(mem, cr3, p)
  <2>1. \A f \in Frame : f < Low1M => mem'[f] = mem[f]
    BY <1>4, <1>6, <1>10 DEF Frame
  <2> QED
    BY <1>2, <1>10, <2>1, OldKept
<1>14. OldTables'
  BY <1>1, <1>2, <1>13, OldAgain DEF Same
<1>15. Coherent(tlb', mem', cr3)
  <2>1. Coherent(tlb', mem, cr3)
    BY <1>4, <1>6, <1>9, CachedCoherent
  <2>2. \A p \in DOMAIN tlb' : WalkIn(mem', cr3, p) = WalkIn(mem, cr3, p)
    BY <1>13, <2>1 DEF Coherent
  <2> QED
    BY <2>1, <2>2, StaysCoherent
<1>16. NewFrames'
  <2>1. cr3' = cr3 /\ Top' = Top /\ dir' = dir /\ frame_min' = frame_min /\ table' = table
    BY <1>1 DEF Same, Top
  <2>2. WalkIn(mem', cr3, TmpDir) = dir /\ WalkIn(mem', cr3, TmpTable) = table
    BY <1>4, <1>6, <1>13
  <2>3. Absent(mem', dir) = Absent(mem, dir)
    BY <1>11 DEF Absent
  <2>4. pc' \notin Booting \cup Asking \cup {"rebuild", "clear", "fill", "table"} \cup Running
    BY <1>1 DEF Booting, Asking, Running
  <2> QED
    BY <1>6, <2>1, <2>2, <2>3, <2>4 DEF NewFrames
<1>17. NewTables'
  <2>1. /\ dir' = dir /\ Top' = Top /\ table' = table /\ frame_min' = frame_min /\ image' = image
        /\ i' = i + 1 /\ pc' = "image"
    BY <1>1 DEF Same, Top
  <2>2. Within(mem', dir, Top, frame_min)
    BY <1>6, <1>11 DEF Within
  <2>3. \A p \in (0 .. Low1M - 1) \cup (KernelBase .. KernelBase + i' - 1) :
          WalkIn(mem', dir', p) # NotPresent
    <3> SUFFICES ASSUME NEW p \in (0 .. Low1M - 1) \cup (KernelBase .. KernelBase + i' - 1)
                 PROVE  WalkIn(mem', dir, p) # NotPresent
      BY <2>1
    <3>1. CASE p = page
      BY <1>4, <1>5, <1>12, <3>1 DEF NotPresent
    <3>2. CASE p # page
      <4>1. p \in (0 .. Low1M - 1) \cup (KernelBase .. KernelBase + i - 1)
        BY <1>1, <1>4, <3>2 DEF page
      <4>2. p \in Page
        <5>1. CASE p \in 0 .. Low1M - 1
          BY <5>1, Regions
        <5>2. CASE p \in KernelBase .. KernelBase + i - 1
          <6>1. p \in Image
            BY <1>1, <1>4, <5>2 DEF Image
          <6> QED
            BY <1>3, <6>1, Given, Regions
        <5> QED
          BY <4>1, <5>1, <5>2
      <4> QED
        BY <1>3, <1>12, <3>2, <4>1, <4>2
    <3> QED
      BY <3>1, <3>2
  <2>4. \A p \in Page : Slot(p) # Self =>
          WalkIn(mem', dir', p) = NotPresent \/ Meant(p, WalkIn(mem, dir, p))'
    <3> SUFFICES ASSUME NEW p \in Page, Slot(p) # Self, WalkIn(mem', dir', p) # NotPresent
                 PROVE  Meant(p, WalkIn(mem, dir, p))'
      OBVIOUS
    <3>1. CASE p = page
      <4>1. WalkIn(mem', dir', p) = Low1M + p - KernelBase
        BY <1>4, <1>12, <2>1, <3>1 DEF page
      <4> QED
        BY <1>1, <1>5, <3>1, <4>1, MeantKept DEF Meant, Same
    <3>2. CASE p # page
      <4>1. Meant(p, WalkIn(mem', dir', p))
        BY <1>3, <1>12, <2>1, <3>2
      <4>2. UNCHANGED <<machine, image, map_count>>
        BY <1>1 DEF Same
      <4> QED
        BY <4>1, <4>2, MeantKept
    <3> QED
      BY <3>1, <3>2
  <2>5. s <= Slot(KernelBase + i') /\ Slot(KernelBase + i') \in Nat
    <3>1. s * Entries <= KernelBase + i' /\ KernelBase + i' \in Nat
      <4>1. page = s * Entries + Index(page)
        BY <1>5, OfPage DEF s
      <4>2. s * Entries \in Nat /\ Index(page) \in Nat
        BY <1>5, NumbersAssumption DEF Entry
      <4> QED
        BY <1>4, <2>1, <4>1, <4>2 DEF page
    <3> QED
      BY <1>5, <3>1, SlotBounds
  <2>6. \A u \in Entry : mem'[dir'][u] # NotPresent =>
          u = 0 \/ u = Self \/ (KernelSlot <= u /\ u <= Slot(KernelBase + i'))
    BY <1>3, <1>5, <1>11, <2>1, <2>5 DEF Entry
  <2>7. i' < image' => mem'[dir'][Slot(KernelBase + i')] \in {NotPresent, table'}
    <3> SUFFICES ASSUME i' < image' PROVE mem[dir][Slot(KernelBase + i')] \in {NotPresent, table}
      BY <1>11, <2>1
    <3> DEFINE u == Slot(KernelBase + i')
    <3>1. u \in Entry /\ u \in Nat /\ u < Self /\ 0 < u
      BY <1>3, <1>4, <2>1, ImagePages
    <3>2. CASE u = s
      BY <1>7, <3>2
    <3>3. CASE u # s
      BY <1>3, <1>5, <2>5, <3>1, <3>3
    <3> QED
      BY <3>2, <3>3
  <2>8. i' <= image'
    BY <1>1, <1>4, <2>1
  <2> QED
    BY <1>11, <2>1, <2>2, <2>3, <2>4, <2>6, <2>7, <2>8 DEF NewTables
<1>18. i' \in Nat /\ dir' \in Nat /\ table' \in Nat /\ frame_min' \in Nat
  BY <1>1, <1>4
<1> QED
  BY <1>1, <1>2, <1>10, <1>14, <1>15, <1>16, <1>17, <1>18, BuildRest

LEMMA LoadCr3Step ==
  ASSUME IInv, LoadCr3
  PROVE  IInv'
<1>1. /\ pc = "image" /\ i = image /\ pc' = "window" /\ cr3' = dir /\ tlb' = <<>>
      /\ job' = [frame |-> 0, page |-> PageLow1MBase, left |-> Low1M]
      /\ UNCHANGED <<machine, image, mem, paging, i, dir, table, frame_min, fresh, ebx, map_count>>
  BY DEF LoadCr3, given, biosVars
<1>2. pc \in Filling /\ pc \in Building /\ pc' \in Running
  BY <1>1 DEF Filling, Building, Running
<1>3. /\ Types /\ ~fresh /\ paging /\ mem \in Memory /\ image \in Nat
      /\ Tree(mem, dir) /\ Within(mem, dir, Top, frame_min)
      /\ \A p \in Page : Slot(p) # Self =>
           WalkIn(mem, dir, p) = NotPresent \/ Meant(p, WalkIn(mem, dir, p))
      /\ frame_min + Cardinality(Absent(mem, dir)) <= Top + Entries + 0
  BY <1>1, <1>2, BuildFacts, FillFacts
<1>4. /\ \A p \in (0 .. Low1M - 1) \cup (KernelBase .. KernelBase + image - 1) :
            WalkIn(mem, dir, p) # NotPresent
      /\ \A u \in Entry : mem[dir][u] # NotPresent =>
            u = 0 \/ u = Self \/ (KernelSlot <= u /\ u <= Slot(KernelBase + image))
  BY <1>1, <1>2 DEF IInv, NewTables
<1>5. /\ KernelBase \in Nat /\ PageTableBase \in Nat /\ Low1M \in Nat \ {0} /\ PageLow1MBase \in Nat
      /\ KernelBase + image <= PageTableBase /\ DbPages \in Nat /\ PageFrameBase \in Nat
      /\ PageFrameBase + DbPages <= PageLow1MBase
  BY <1>3, ImagesAssumption, NumbersAssumption, LayoutAssumption DEF Types
<1>6. ~fresh' /\ job'.page = PageLow1MBase /\ job'.left = Low1M /\ job'.frame = 0
  BY <1>1, <1>3
<1>7. Types'
  <2>1. job' \in [frame : Nat, page : Nat, left : Nat]
    BY <1>1, <1>5
  <2>2. paging' /\ pc' \notin Booting \cup {"real", "answered"}
    BY <1>1, <1>3 DEF Booting
  <2> QED
    BY <1>1, <1>2, <1>3, <2>1, <2>2 DEF Types
<1>8. Started' /\ OldTables' /\ NewTables'
  BY <1>1 DEF Started, OldTables, NewTables, Asking, Building, Filling
<1>9. Asked'
  BY <1>1, <1>2 DEF IInv, Asked, Counted, Complete, Booting, Asking, Running
<1>10. NewFrames'
  <2>1. Top' = Top
    BY <1>1 DEF Top
  <2> QED
    BY <1>1, <1>3, <2>1 DEF NewFrames, Booting, Asking, Filling
<1>11. Mapping'
  <2>1. \A p : ~Off(p)'
    BY <1>6 DEF Off
  <2>2. Top' = Top /\ Image' = Image
    BY <1>1 DEF Top, Image
  <2>3. \A p \in Page : Slot(p) # Self =>
          WalkIn(mem', dir', p) = NotPresent \/ Meant(p, WalkIn(mem, dir, p))'
    <3> SUFFICES ASSUME NEW p \in Page, Slot(p) # Self, WalkIn(mem', dir', p) # NotPresent
                 PROVE  Meant(p, WalkIn(mem, dir, p))'
      OBVIOUS
    <3>1. Meant(p, WalkIn(mem', dir', p))
      BY <1>1, <1>3
    <3> QED
      BY <1>1, <3>1, MeantKept
  <2>4. ASSUME NEW p \in Page, Reached(p)' PROVE WalkIn(mem', dir', p) # NotPresent
    <3>1. p < Low1M \/ p \in Image
      BY <1>1, <1>5, <1>6, <2>2, <2>4 DEF Reached, LowWindow
    <3>2. p \in (0 .. Low1M - 1) \cup (KernelBase .. KernelBase + image - 1)
      BY <1>5, <3>1 DEF Image, Page
    <3> QED
      BY <1>1, <1>4, <3>2
  <2>5. Tree(mem', dir') /\ Within(mem', dir', Top', frame_min')
    BY <1>1, <1>3, <2>2 DEF Tree, Within
  <2> QED
    BY <1>1, <1>6, <2>1, <2>3, <2>4, <2>5 DEF Mapping
<1>12. Stored'
  <2>1. ASSUME NEW p \in Database PROVE WalkIn(mem, dir, p) = NotPresent
    <3>1. p \in PageFrameBase .. PageLow1MBase + Low1M - 1
      BY <1>5 DEF Database
    <3>2. p \in Page /\ Self < Slot(p) /\ Slot(p) \in Entry
      BY <3>1, Regions, OfPage
    <3>3. Slot(KernelBase + image) <= Self /\ Slot(KernelBase + image) \in Nat
      <4>1. KernelBase + image \in Nat /\ Self \in Nat /\ PageTableBase = Self * Entries
        BY <1>3, <1>5, Layout DEF Entry
      <4>2. CASE KernelBase + image < PageTableBase
        BY <4>1, <4>2, SlotBounds
      <4>3. CASE KernelBase + image = PageTableBase
        BY <4>1, <4>3 DEF Self
      <4> QED
        BY <1>3, <1>5, <4>2, <4>3
    <3>4. Self \in Nat /\ Slot(p) \in Nat
      BY <3>2, Layout DEF Entry
    <3> QED
      BY <1>4, <3>2, <3>3, <3>4 DEF WalkIn
  <2> QED
    BY <1>1, <2>1 DEF Stored
<1>13. Job'
  BY <1>1, <1>2, <1>5, <1>6 DEF Job
<1>14. Cache'
  <2>1. DOMAIN <<>> = {}
    OBVIOUS
  <2>2. DOMAIN tlb' = {}
    BY <1>1, <2>1
  <2> QED
    BY <1>1, <2>2 DEF Cache, Coherent, Booting, Asking
<1> QED
  BY <1>7, <1>8, <1>9, <1>10, <1>11, <1>12, <1>13, <1>14 DEF IInv

-------------------------------------------------------------------------------
(* The new tables in force *)

LEMMA RunFacts ==
  ASSUME IInv, pc \in Running
  PROVE  /\ Types /\ mem \in Memory /\ cr3 = dir /\ dir \in Frame /\ dir # NotPresent
         /\ Tree(mem, dir) /\ Within(mem, dir, Top, frame_min) /\ Coherent(tlb, mem, dir)
         /\ \A p : Present(p) = {WalkIn(mem, dir, p)} \ {NotPresent}
         /\ \A p : Walk(p) = WalkIn(mem, dir, p)
         /\ Present(DirWindow) = {dir} /\ DirWindow = TableWindow(Self)
         /\ WalkIn(mem, dir, TableWindow(Self)) = dir
         /\ \A s \in Entry : Pde(s) = {mem[dir][s]}
         /\ \A s \in Entry : Present(TableWindow(s)) = {mem[dir][s]} \ {NotPresent}
         /\ i \in Nat /\ frame_min \in Nat /\ Top \in Nat /\ Low1M \in Nat
         /\ job \in [frame : Nat, page : Nat, left : Nat]
         /\ job.frame \in Nat /\ job.page \in Nat /\ job.left \in Nat
         /\ fresh \in BOOLEAN
<1>1. /\ Types /\ mem \in Memory /\ cr3 = dir
      /\ Tree(mem, dir) /\ Within(mem, dir, Top, frame_min)
      /\ paging /\ Coherent(tlb, mem, dir)
      /\ \A p : Present(p) = {WalkIn(mem, dir, p)} \ {NotPresent}
  BY Seen DEF IInv, Mapping
<1>2. dir \in Frame /\ dir # NotPresent
  BY <1>1, NoFrame DEF Tree
<1>3. \A p : Walk(p) = WalkIn(mem, dir, p)
  BY <1>1 DEF Walk, WalkFrom, WalkIn
<1>4. DirWindow = TableWindow(Self)
  BY DEF DirWindow, Self
<1>5. \A s \in Entry : WalkIn(mem, dir, TableWindow(s)) = mem[dir][s]
  BY <1>1, WalkValue
<1>6. WalkIn(mem, dir, TableWindow(Self)) = dir
  BY <1>1, <1>5, Layout DEF Tree
<1>7. Present(DirWindow) = {dir}
  BY <1>1, <1>2, <1>4, <1>6
<1>8. \A s \in Entry : Pde(s) = {mem[dir][s]}
  BY <1>7 DEF Pde
<1>9. \A s \in Entry : Present(TableWindow(s)) = {mem[dir][s]} \ {NotPresent}
  BY <1>1, <1>5
<1>10. /\ i \in Nat /\ frame_min \in Nat /\ Top \in Nat /\ Low1M \in Nat
       /\ job \in [frame : Nat, page : Nat, left : Nat]
       /\ job.frame \in Nat /\ job.page \in Nat /\ job.left \in Nat
       /\ fresh \in BOOLEAN
  BY <1>1, Given, NumbersAssumption DEF Types
<1> QED
  BY <1>1, <1>2, <1>3, <1>4, <1>6, <1>7, <1>8, <1>9, <1>10

\* The regions that map_pages fills.
LEMMA DatabasePages ==
  /\ \A p \in Database : p \in Page /\ Slot(p) # Self
  /\ \A p \in LowWindow : p \in Page /\ Slot(p) # Self /\ p \notin Database
  /\ DbPages \in Nat /\ PageFrameBase \in Nat /\ PageLow1MBase \in Nat /\ Low1M \in Nat
<1>1. /\ DbPages \in Nat /\ PageFrameBase \in Nat /\ PageLow1MBase \in Nat /\ Low1M \in Nat
      /\ PageFrameBase + DbPages <= PageLow1MBase
  BY NumbersAssumption, LayoutAssumption
<1>2. \A p \in PageFrameBase .. PageLow1MBase + Low1M - 1 : p \in Page /\ Slot(p) # Self
  <2>1. Self \in Nat
    BY Layout DEF Entry
  <2> QED
    BY <2>1, Regions
<1> QED
  BY <1>1, <1>2 DEF Database, LowWindow

\* An area of the memory map, if firmware keeps apart.
LEMMA AreaPages ==
  ASSUME FirmwareApart, Types, NEW n, Mapped(Told(n)),
         NEW p \in Area(n)
  PROVE  p \in Page /\ Slot(p) # Self /\ p \notin Database
<1>1. n \in DOMAIN machine.map /\ Told(n) = machine.map[n] /\ machine \in Machines /\ image \in Images
  BY MapFacts DEF Types
<1>2. p \in Page /\ p \notin PageTableBase .. PageLow1MBase + Low1M - 1
  BY <1>1 DEF FirmwareApart, Area
<1>3. /\ PageTableBase \in Nat /\ PageFrameBase \in Nat /\ PageLow1MBase \in Nat /\ DbPages \in Nat
      /\ Low1M \in Nat \ {0} /\ Entries \in Nat \ {0}
      /\ PageTableBase + Entries <= PageFrameBase /\ PageFrameBase + DbPages <= PageLow1MBase
  BY NumbersAssumption, LayoutAssumption
<1>4. p \notin Database
  BY <1>2, <1>3 DEF Database
<1>5. Slot(p) # Self
  <2> SUFFICES ASSUME Slot(p) = Self PROVE FALSE
    OBVIOUS
  <2>1. p = Self * Entries + Index(p) /\ Index(p) \in Entry /\ PageTableBase = Self * Entries
    BY <1>2, OfPage, Layout
  <2>2. p = PageTableBase + Index(p) /\ Index(p) \in Nat /\ Index(p) < Entries
    BY <1>3, <2>1 DEF Entry
  <2> QED
    BY <1>2, <1>3, <2>2
<1> QED
  BY <1>2, <1>4, <1>5

\* The page that map_pages is at.
LEMMA JobPage ==
  ASSUME FirmwareApart, IInv, pc \in Running, job.left > 0
  PROVE  /\ job.page \in Page /\ Slot(job.page) \in Entry \ {Self} /\ Index(job.page) \in Entry
         /\ Meant(job.page, job.frame)
         /\ pc # "usable" /\ (pc # "database" => job.page \notin Database)
<1>1. /\ Types /\ job.frame \in Nat /\ job.page \in Nat /\ job.left \in Nat /\ i \in Nat
  BY RunFacts
<1>2. pc # "usable"
  BY <1>1 DEF IInv, Job
<1>3. /\ DbPages \in Nat /\ PageFrameBase \in Nat /\ PageLow1MBase \in Nat /\ Low1M \in Nat
  BY DatabasePages
<1>4. CASE pc = "window"
  <2>1. job.page \in LowWindow /\ job.frame = job.page - PageLow1MBase
    BY <1>1, <1>3, <1>4 DEF IInv, Job, LowWindow
  <2> QED
    BY <1>2, <2>1, DatabasePages, OfPage DEF Meant
<1>5. CASE pc = "database"
  <2>1. job.page \in Database
    BY <1>1, <1>3, <1>5 DEF IInv, Job, Database
  <2> QED
    BY <1>2, <1>5, <2>1, DatabasePages, OfPage DEF Meant
<1>6. CASE pc = "scan"
  <2> DEFINE n == i - 1
  <2>1. /\ n \in 1 .. map_count /\ Mapped(Told(n))
        /\ Told(n).begin <= job.page /\ job.page + job.left = Told(n).end
        /\ job.frame = job.page
    <3>1. /\ 0 < i /\ i <= map_count + 1
          /\ i = 1 => job.left = 0
          /\ i > 1 /\ Mapped(Told(i - 1)) =>
               /\ Told(i - 1).begin <= job.page
               /\ job.page + job.left = Told(i - 1).end
               /\ job.frame = job.page
          /\ i > 1 /\ ~Mapped(Told(i - 1)) => job.left = 0
      BY <1>6 DEF IInv, Job
    <3>2. i > 1
      BY <1>1, <3>1
    <3>3. Mapped(Told(i - 1))
      BY <1>1, <3>1, <3>2
    <3>4. map_count \in Nat
      BY <1>1 DEF Types
    <3> QED
      BY <1>1, <3>1, <3>2, <3>3, <3>4
  <2> HIDE DEF n
  <2>3. job.page \in Area(n)
    <3>1. Told(n).begin \in Nat /\ Told(n).end \in Nat
      BY <1>1, MapFacts
    <3> QED
      BY <1>1, <2>1, <3>1 DEF Area
  <2>4. job.page \in Page /\ Slot(job.page) # Self /\ job.page \notin Database
    BY <1>1, <2>1, <2>3, AreaPages
  <2>5. Meant(job.page, job.frame)
    BY <2>1, <2>3 DEF Meant, FirmwarePage
  <2> QED
    BY <1>2, <2>4, <2>5, OfPage
<1> QED
  BY <1>2, <1>4, <1>5, <1>6 DEF Running

\* What every step of this part leaves unchanged.
Steady == UNCHANGED <<machine, image, cr3, paging, dir, table, ebx, map_count>>

LEMMA RunRest ==
  ASSUME IInv, pc \in Running, pc' \in Running, Steady,
         mem' \in Memory, i' \in Nat, frame_min' \in Nat, fresh' \in BOOLEAN,
         job' \in [frame : Nat, page : Nat, left : Nat],
         NewFrames', Mapping', Stored', Job', Cache'
  PROVE  IInv'
<1>1. pc \notin Booting \cup Asking \cup Building /\ pc' \notin Booting \cup Asking \cup Building
  BY DEF Booting, Asking, Building, Filling, Running
<1>2. Types'
  <2>1. paging' /\ paging' \in BOOLEAN /\ pc' \notin Booting \cup {"real", "answered"}
    BY <1>1, Seen DEF Steady, IInv, Types, Asking
  <2> QED
    BY <1>1, <2>1 DEF IInv, Types, Memory, Steady
<1>3. Started' /\ OldTables' /\ NewTables'
  <2>1. pc' # "map" /\ pc' \notin Filling
    BY <1>1 DEF Booting, Building
  <2> QED
    BY <1>1, <2>1 DEF Started, OldTables, NewTables
<1>4. Asked'
  <2>1. pc' \notin {"e820", "real", "answered"}
    BY <1>1 DEF Asking
  <2> QED
    BY <1>1, <2>1 DEF IInv, Asked, Steady, Counted, Complete
<1> QED
  BY <1>2, <1>3, <1>4 DEF IInv

\* Slots without a table and the frames left for them.
LEMMA FramesLeft ==
  ASSUME IInv, pc \in Running, NEW s \in Entry, mem[dir][s] = NotPresent
  PROVE  frame_min \in Frame /\ Unused(mem, dir, frame_min)
<1>1. /\ frame_min + Cardinality(Absent(mem, dir)) <= Top + Entries + (IF pc = "window" THEN 0 ELSE DbPages)
  BY DEF IInv, NewFrames
<1>2. /\ frame_min \in Nat /\ Top \in Nat /\ Entries \in Nat /\ DbPages \in Nat /\ Frames \in Nat
      /\ Top + Entries + DbPages <= Frames /\ Tree(mem, dir) /\ Within(mem, dir, Top, frame_min)
  BY RunFacts, Given, NumbersAssumption
<1>3. Cardinality(Absent(mem, dir)) \in Nat /\ Cardinality(Absent(mem, dir)) >= 1
  <2>1. s \in Absent(mem, dir)
    BY DEF Absent
  <2>2. IsFiniteSet(Absent(mem, dir)) /\ Cardinality(Absent(mem, dir)) \in Nat
    BY AbsentCount
  <2>3. IsFiniteSet(Absent(mem, dir) \ {s})
    BY <2>1, <2>2, FS_RemoveElement
  <2>4. Cardinality(Absent(mem, dir) \ {s}) \in Nat
    BY <2>3, FS_CardinalityType
  <2>5. Cardinality(Absent(mem, dir) \ {s}) = Cardinality(Absent(mem, dir)) - 1
    BY <2>1, AbsentCount
  <2> QED
    BY <2>2, <2>4, <2>5
<1>4. frame_min < Frames
  <2>1. CASE pc = "window"
    BY <1>1, <1>2, <1>3, <2>1
  <2>2. CASE pc # "window"
    BY <1>1, <1>2, <1>3, <2>2
  <2> QED
    BY <2>1, <2>2
<1>5. Unused(mem, dir, frame_min)
  <2> SUFFICES ASSUME NEW u \in Entry, mem[dir][u] = frame_min PROVE FALSE
    BY DEF Unused
  <2>1. mem[dir][u] # NotPresent
    BY <1>2 DEF NotPresent
  <2>2. mem[dir][u] < frame_min
    BY <1>2, <2>1 DEF Within
  <2> QED
    BY <1>2, <2>2
<1> QED
  BY <1>2, <1>4, <1>5 DEF Frame

LEMMA SetPdeStep ==
  ASSUME FirmwareApart, IInv, pc \in Running, SetPde
  PROVE  IInv'
<1> DEFINE s == Slot(job.page)
<1>1. /\ job.left > 0 /\ NotPresent \in Pde(s) /\ fresh' = TRUE /\ frame_min' = frame_min + 1
      /\ \E d \in Present(DirWindow) :
           /\ mem' = [mem EXCEPT ![d][s] = frame_min]
           /\ tlb' = Cached(DirWindow, d)
      /\ Steady /\ UNCHANGED <<pc, i, job>>
  BY DEF SetPde, given, biosVars, Steady
<1>2. /\ Types /\ mem \in Memory /\ cr3 = dir /\ dir \in Frame /\ dir # NotPresent
      /\ Tree(mem, dir) /\ Within(mem, dir, Top, frame_min) /\ Coherent(tlb, mem, dir)
      /\ Present(DirWindow) = {dir} /\ DirWindow = TableWindow(Self)
      /\ WalkIn(mem, dir, TableWindow(Self)) = dir
      /\ \A u \in Entry : Pde(u) = {mem[dir][u]}
      /\ i \in Nat /\ frame_min \in Nat /\ Top \in Nat
      /\ job \in [frame : Nat, page : Nat, left : Nat]
      /\ job.frame \in Nat /\ job.page \in Nat /\ job.left \in Nat
  BY RunFacts
<1>3. job.page \in Page /\ s \in Entry \ {Self}
  BY <1>1, JobPage
<1>4. mem[dir][s] = NotPresent
  BY <1>1, <1>2, <1>3
<1>5. ~fresh
  BY <1>4 DEF IInv, Mapping
<1>6. frame_min \in Frame /\ Unused(mem, dir, frame_min)
  BY <1>3, <1>4, FramesLeft
<1> HIDE DEF s
<1> DEFINE D == [mem[dir] EXCEPT ![s] = frame_min]
<1>7. D \in [Entry -> Value] /\ mem' = [mem EXCEPT ![dir] = D] /\ tlb' = Cached(DirWindow, dir)
  BY <1>1, <1>2 DEF Memory, Value
<1>8. /\ mem' \in Memory /\ mem'[dir] = [mem[dir] EXCEPT ![s] = frame_min]
      /\ \A f \in Frame : f # dir => mem'[f] = mem[f]
  <2> HIDE DEF D
  <2>1. mem' \in Memory /\ mem'[dir] = D /\ \A f \in Frame : f # dir => mem'[f] = mem[f]
    BY <1>2, <1>7 DEF Memory
  <2> QED
    BY <2>1 DEF D
<1> HIDE DEF D
<1>9. /\ Tree(mem', dir) /\ mem'[dir][s] = frame_min
      /\ \A u \in Entry \ {s} : mem'[dir][u] = mem[dir][u]
      /\ \A p \in Page : WalkIn(mem', dir, p) =
           IF Slot(p) = s THEN mem'[frame_min][Index(p)]
           ELSE IF p = TableWindow(s) THEN frame_min ELSE WalkIn(mem, dir, p)
      /\ Absent(mem', dir) = Absent(mem, dir) \ {s} /\ s \in Absent(mem, dir)
  <2>1. \A g \in Frame : ~Unused(mem, dir, g) /\ g # dir => mem'[g] = mem[g]
    BY <1>8
  <2>2. mem \in Memory /\ mem' \in Memory /\ Tree(mem, dir) /\ s \in Entry
        /\ mem'[dir] = [mem[dir] EXCEPT ![s] = frame_min]
    BY <1>2, <1>3, <1>8
  <2> DEFINE f == frame_min
  <2>3. mem[dir][s] = NotPresent /\ f \in Frame /\ Unused(mem, dir, f) /\ mem'[dir] = [mem[dir] EXCEPT ![s] = f]
    BY <1>4, <1>6, <2>2
  <2> HIDE DEF f
  <2>4. Tree(mem', dir)
    BY ONLY <2>1, <2>2, <2>3, SetSlot
  <2>7. mem'[dir][s] = f
    BY <1>2, <2>2, <2>3 DEF Memory
  <2>8. \A u \in Entry \ {s} : mem'[dir][u] = mem[dir][u]
    BY ONLY <2>1, <2>2, <2>3, SetSlot
  <2>5. \A p \in Page : WalkIn(mem', dir, p) =
          IF Slot(p) = s THEN mem'[f][Index(p)]
          ELSE IF p = TableWindow(s) THEN f ELSE WalkIn(mem, dir, p)
    BY ONLY <2>1, <2>2, <2>3, SetSlot
  <2>6. Absent(mem', dir) = Absent(mem, dir) \ {s} /\ s \in Absent(mem, dir)
    BY ONLY <2>1, <2>2, <2>3, SetSlot
  <2> QED
    BY <2>4, <2>5, <2>6, <2>7, <2>8 DEF f
<1>10. /\ \A p : Off(p)' <=> Slot(p) = s
       /\ \A p : ~Off(p)
  BY <1>1, <1>5 DEF Off, s
<1>11. Top' = Top /\ dir' = dir /\ cr3' = dir
  BY <1>1, <1>2 DEF Top, Steady
\* Pages of other slots are translated as before, but for the table's window.
<1>12. ASSUME NEW p \in Page, Slot(p) # s, Slot(p) # Self
       PROVE  WalkIn(mem', dir, p) = WalkIn(mem, dir, p)
  BY <1>3, <1>9, <1>12, Regions
<1>13. NewFrames'
  <2>1. Cardinality(Absent(mem', dir)) = Cardinality(Absent(mem, dir)) - 1
        /\ Cardinality(Absent(mem, dir)) \in Nat
    BY <1>9, AbsentCount
  <2>2. frame_min + Cardinality(Absent(mem, dir)) <= Top + Entries + (IF pc = "window" THEN 0 ELSE DbPages)
    BY DEF IInv, NewFrames
  <2>3. frame_min' + Cardinality(Absent(mem', dir)) = frame_min + Cardinality(Absent(mem, dir))
    BY <1>1, <1>2, <2>1
  <2>4. frame_min' + Cardinality(Absent(mem', dir')) <= Top' + Entries + (IF pc' = "window" THEN 0 ELSE DbPages)
    BY <1>1, <1>11, <2>2, <2>3
  <2>5. pc' \notin Booting \cup Asking \cup {"rebuild", "clear"} \cup Filling
    BY <1>1 DEF Booting, Asking, Filling, Running
  <2> QED
    BY <2>4, <2>5 DEF NewFrames
<1>14. Mapping'
  <2>1. Within(mem', dir, Top, frame_min')
    <3> SUFFICES ASSUME NEW u \in Entry, mem'[dir][u] # NotPresent
                 PROVE  Top <= mem'[dir][u] /\ mem'[dir][u] < frame_min'
      BY DEF Within
    <3>1. CASE u = s
      <4>1. mem[dir][Self] = dir /\ Self \in Entry
        BY <1>2, Layout DEF Tree
      <4>2. Top <= dir /\ dir < frame_min /\ dir \in Nat
        BY <1>2, <4>1 DEF Within, Frame
      <4> QED
        BY <1>1, <1>2, <1>9, <3>1, <4>2
    <3>2. CASE u # s
      <4>1. mem'[dir][u] = mem[dir][u] /\ mem[dir][u] \in Frame
        BY <1>2, <1>9, <3>2 DEF Tree
      <4>2. Top <= mem[dir][u] /\ mem[dir][u] < frame_min /\ mem[dir][u] \in Nat
        BY <1>2, <4>1 DEF Within, Frame
      <4> QED
        BY <1>1, <1>2, <4>1, <4>2
    <3> QED
      BY <3>1, <3>2
  <2>2. ASSUME NEW p \in Page, Slot(p) # Self, ~Off(p)', WalkIn(mem', dir', p) # NotPresent
        PROVE  Meant(p, WalkIn(mem, dir, p))'
    <3>1. WalkIn(mem', dir', p) = WalkIn(mem, dir, p)
      BY <1>10, <1>11, <1>12, <2>2
    <3>2. Meant(p, WalkIn(mem', dir', p))
      BY <1>10, <2>2, <3>1 DEF IInv, Mapping
    <3> QED
      BY <1>1, <3>2, MeantKept DEF Steady
  <2>3. ASSUME NEW p \in Page, Reached(p)'
        PROVE  WalkIn(mem', dir', p) # NotPresent /\ ~Off(p)'
    <3>1. Reached(p)
      BY <1>1, <2>3 DEF Reached, Steady, LowWindow, Image, Area, Told
    <3>2. WalkIn(mem, dir, p) # NotPresent
      BY <3>1 DEF IInv, Mapping
    <3>3. Slot(p) # s
      BY <1>4, <3>2 DEF WalkIn
    <3>4. WalkIn(mem', dir, p) \in {frame_min, WalkIn(mem, dir, p)}
      BY <1>9, <3>3
    <3>5. frame_min # NotPresent
      BY <1>6, NoFrame
    <3> QED
      BY <1>10, <1>11, <3>2, <3>3, <3>4, <3>5
  <2>4. job'.left > 0 /\ mem'[dir'][Slot(job'.page)] # NotPresent
    <3>1. frame_min # NotPresent
      BY <1>6, NoFrame
    <3> QED
      BY <1>1, <1>9, <1>11, <3>1 DEF s
  <2> QED
    BY <1>9, <1>11, <2>1, <2>2, <2>3, <2>4 DEF Mapping
<1>15. Stored'
  <2> SUFFICES ASSUME NEW p \in Database, ~Off(p)', WalkIn(mem', dir', p) # NotPresent
               PROVE  LET f == WalkIn(mem', dir', p) IN
                      /\ Top' <= f /\ f < frame_min' /\ Unused(mem', dir', f)
                      /\ pc' # "window"
                      /\ pc' = "database" => f < job'.frame
                      /\ \A q \in Database \ {p} : ~Off(q)' => WalkIn(mem', dir', q) # f
    BY DEF Stored
  <2> DEFINE f == WalkIn(mem, dir, p)
  <2>1. \A q \in Database : ~Off(q)' => WalkIn(mem', dir', q) = WalkIn(mem, dir, q)
    BY <1>10, <1>11, <1>12, DatabasePages
  <2>2. /\ Top <= f /\ f < frame_min /\ Unused(mem, dir, f)
        /\ pc # "window"
        /\ pc = "database" => f < job.frame
        /\ \A q \in Database \ {p} : WalkIn(mem, dir, q) # f
    BY <1>10, <2>1 DEF IInv, Stored
  <2>3. f \in Nat
    <3>1. f \in Value /\ f # NotPresent
      BY <1>2, <2>1, WalkValue, DatabasePages
    <3> QED
      BY <3>1 DEF Value
  <2> HIDE DEF f
  <2>4. Unused(mem', dir, f)
    BY <1>2, <1>9, <2>2, <2>3 DEF Unused
  <2>5. f < frame_min'
    BY <1>1, <1>2, <2>2, <2>3
  <2>6. WalkIn(mem', dir', p) = f
    BY <2>1 DEF f
  <2> QED
    BY <1>1, <1>11, <2>1, <2>2, <2>4, <2>5, <2>6
<1>16. Job'
  <2>1. pc' = "database" => \A f \in job'.frame .. job'.frame + job'.left - 1 : Unused(mem', dir', f)
    <3> SUFFICES ASSUME pc = "database", NEW f \in job.frame .. job.frame + job.left - 1
                 PROVE  Unused(mem', dir, f)
      BY <1>1, <1>11
    <3>1. Unused(mem, dir, f) /\ job.frame + job.left <= frame_min
      BY DEF IInv, Job
    <3>2. f # frame_min
      BY <1>2, <3>1
    <3> QED
      BY <1>9, <3>1, <3>2 DEF Unused
  <2>2. job'.frame + job'.left <= frame_min => job'.frame + job'.left <= frame_min'
    BY <1>1, <1>2
  <2> QED
    BY <1>1, <1>11, <2>1, <2>2 DEF IInv, Job, Steady, Running, Told
<1>17. Cache'
  <2>1. Coherent(tlb', mem, dir) /\ DOMAIN tlb' = DOMAIN tlb \cup {TableWindow(Self)}
    <3>1. TableWindow(Self) \in Page
      BY Layout, Regions
    <3> QED
      BY <1>2, <1>7, <3>1, CachedCoherent
  <2>2. ASSUME NEW p \in DOMAIN tlb'
        PROVE  p \in Page /\ Slot(p) # s /\ WalkIn(mem', dir, p) = WalkIn(mem, dir, p)
    <3>1. p \in Page /\ WalkIn(mem, dir, p) # NotPresent
      BY <2>1, <2>2 DEF Coherent
    <3>2. Slot(p) # s
      BY <1>4, <3>1 DEF WalkIn
    <3>3. WalkIn(mem, dir, TableWindow(s)) = NotPresent
      BY <1>2, <1>3, <1>4, WalkValue
    <3> QED
      BY <1>9, <3>1, <3>2, <3>3
  <2>3. Coherent(tlb', mem', dir)
    BY <2>1, <2>2, StaysCoherent
  <2>4. Slot(TableWindow(Self)) = Self
    BY Layout, Regions
  <2>5. \A p \in DOMAIN tlb' :
          (Slot(p) = Self \/ (pc' \in {"scan", "usable"} /\ p \in Database)) /\ ~Off(p)'
    BY <1>1, <1>10, <2>1, <2>2, <2>4 DEF IInv, Cache
  <2>6. pc' \notin Booting \cup Asking
    BY <1>1 DEF Booting, Asking, Running
  <2> QED
    BY <1>11, <2>3, <2>5, <2>6 DEF Cache
<1> QED
  BY <1>1, <1>2, <1>8, <1>13, <1>14, <1>15, <1>16, <1>17, RunRest

LEMMA new_page_tableStep ==
  ASSUME FirmwareApart, IInv, pc \in Running, new_page_table
  PROVE  IInv'
<1> DEFINE s == Slot(job.page)
<1>1. /\ fresh /\ fresh' = FALSE
      /\ \E t \in Present(TableWindow(s)) :
           /\ mem' = [mem EXCEPT ![t] = Empty]
           /\ tlb' = Cached(TableWindow(s), t)
      /\ Steady /\ UNCHANGED <<pc, i, job, frame_min>>
  BY DEF new_page_table, given, biosVars, Steady
<1>2. /\ Types /\ mem \in Memory /\ cr3 = dir /\ dir \in Frame /\ dir # NotPresent
      /\ Tree(mem, dir) /\ Within(mem, dir, Top, frame_min) /\ Coherent(tlb, mem, dir)
      /\ \A u \in Entry : Present(TableWindow(u)) = {mem[dir][u]} \ {NotPresent}
      /\ i \in Nat /\ frame_min \in Nat /\ Top \in Nat
      /\ job \in [frame : Nat, page : Nat, left : Nat]
  BY RunFacts
<1>3. job.left > 0 /\ mem[dir][s] # NotPresent
  BY <1>1 DEF IInv, Mapping
<1>4. job.page \in Page /\ s \in Entry \ {Self}
  BY <1>3, JobPage
<1> HIDE DEF s
<1> DEFINE t == mem[dir][s]
<1>5. t \in Frame /\ t # NotPresent /\ WalkIn(mem, dir, TableWindow(s)) = t
  BY <1>2, <1>3, <1>4, WalkValue DEF Tree
<1>6. mem' = [mem EXCEPT ![t] = Empty] /\ tlb' = Cached(TableWindow(s), t)
  BY <1>1, <1>2, <1>4, <1>5
<1>7. mem' \in Memory /\ mem'[t] = Empty /\ \A f \in Frame : f # t => mem'[f] = mem[f]
  BY <1>2, <1>5, <1>6, EmptyTable DEF Memory
<1>8. /\ Tree(mem', dir) /\ mem'[dir] = mem[dir]
      /\ \A p \in Page : WalkIn(mem', dir, p) = IF Slot(p) = s THEN NotPresent ELSE WalkIn(mem, dir, p)
  <2>1. /\ Tree(mem', dir) /\ mem'[dir] = mem[dir]
        /\ \A p \in Page : WalkIn(mem', dir, p) =
             IF Slot(p) = s THEN mem'[mem[dir][s]][Index(p)] ELSE WalkIn(mem, dir, p)
    BY ONLY <1>2, <1>3, <1>4, <1>7, SetTable
  <2>2. \A p \in Page : mem'[t][Index(p)] = NotPresent
    BY <1>7, OfPage DEF Empty
  <2> QED
    BY <2>1, <2>2
<1> HIDE DEF t
<1>9. /\ \A p : ~Off(p)'
      /\ \A p : Off(p) <=> Slot(p) = s
  BY <1>1 DEF Off, s
<1>10. Top' = Top /\ dir' = dir /\ cr3' = dir
  BY <1>1, <1>2 DEF Top, Steady
<1>11. NewFrames'
  <2>1. Absent(mem', dir) = Absent(mem, dir)
    BY <1>8 DEF Absent
  <2>2. frame_min + Cardinality(Absent(mem, dir)) <= Top + Entries + (IF pc = "window" THEN 0 ELSE DbPages)
    BY DEF IInv, NewFrames
  <2>3. pc' \notin Booting \cup Asking \cup {"rebuild", "clear"} \cup Filling
    BY <1>1 DEF Booting, Asking, Filling, Running
  <2> QED
    BY <1>1, <1>10, <2>1, <2>2, <2>3 DEF NewFrames
<1>12. Mapping'
  <2>1. Within(mem', dir, Top, frame_min)
    BY <1>2, <1>8 DEF Within
  <2>2. ASSUME NEW p \in Page, Slot(p) # Self, ~Off(p)', WalkIn(mem', dir', p) # NotPresent
        PROVE  Meant(p, WalkIn(mem, dir, p))'
    <3>1. Slot(p) # s /\ WalkIn(mem', dir', p) = WalkIn(mem, dir, p)
      BY <1>8, <1>10, <2>2
    <3>2. Meant(p, WalkIn(mem', dir', p))
      BY <1>9, <2>2, <3>1 DEF IInv, Mapping
    <3> QED
      BY <1>1, <3>2, MeantKept DEF Steady
  <2>3. ASSUME NEW p \in Page, Reached(p)'
        PROVE  WalkIn(mem', dir', p) # NotPresent /\ ~Off(p)'
    <3>1. Reached(p)
      BY <1>1, <2>3 DEF Reached, Steady, LowWindow, Image, Area, Told
    <3>2. WalkIn(mem, dir, p) # NotPresent /\ ~Off(p)
      BY <3>1 DEF IInv, Mapping
    <3> QED
      BY <1>8, <1>9, <1>10, <3>2
  <2>4. ~fresh'
    BY <1>1
  <2> QED
    BY <1>1, <1>8, <1>10, <2>1, <2>2, <2>3, <2>4 DEF Mapping
<1>13. Stored'
  <2> SUFFICES ASSUME NEW p \in Database, ~Off(p)', WalkIn(mem', dir', p) # NotPresent
               PROVE  LET f == WalkIn(mem', dir', p) IN
                      /\ Top' <= f /\ f < frame_min' /\ Unused(mem', dir', f)
                      /\ pc' # "window"
                      /\ pc' = "database" => f < job'.frame
                      /\ \A q \in Database \ {p} : ~Off(q)' => WalkIn(mem', dir', q) # f
    BY DEF Stored
  <2> DEFINE f == WalkIn(mem, dir, p)
  <2>1. Slot(p) # s /\ WalkIn(mem', dir', p) = f /\ f # NotPresent
    BY <1>8, <1>10, DatabasePages
  <2>2. /\ Top <= f /\ f < frame_min /\ Unused(mem, dir, f)
        /\ pc # "window"
        /\ pc = "database" => f < job.frame
        /\ \A q \in Database \ {p} : ~Off(q) => WalkIn(mem, dir, q) # f
    BY <1>9, <2>1 DEF IInv, Stored
  <2> HIDE DEF f
  <2>3. \A q \in Database \ {p} : WalkIn(mem', dir', q) # f
    BY <1>8, <1>9, <1>10, <2>1, <2>2, DatabasePages
  <2>4. Unused(mem', dir, f)
    BY <1>8, <2>2 DEF Unused
  <2> QED
    BY <1>1, <1>10, <2>1, <2>2, <2>3, <2>4
<1>14. Job'
  <2>1. pc' = "database" => \A f \in job'.frame .. job'.frame + job'.left - 1 : Unused(mem', dir', f)
    BY <1>1, <1>8, <1>10 DEF IInv, Job, Unused
  <2> QED
    BY <1>1, <1>10, <2>1 DEF IInv, Job, Steady, Running, Told
<1>15. Cache'
  <2>1. Coherent(tlb', mem, dir) /\ DOMAIN tlb' = DOMAIN tlb \cup {TableWindow(s)}
    <3>1. TableWindow(s) \in Page
      BY <1>4, Regions
    <3> QED
      BY <1>2, <1>5, <1>6, <3>1, CachedCoherent
  <2>2. Slot(TableWindow(s)) = Self
    BY <1>4, Regions
  <2>3. ASSUME NEW p \in DOMAIN tlb'
        PROVE  p \in Page /\ Slot(p) # s
    <3>1. CASE p \in DOMAIN tlb
      BY <1>2, <1>9, <3>1 DEF Coherent, IInv, Cache
    <3>2. CASE p = TableWindow(s)
      BY <1>4, <2>2, <3>2, Regions
    <3> QED
      BY <2>1, <2>3, <3>1, <3>2
  <2>4. Coherent(tlb', mem', dir)
    BY <1>8, <2>1, <2>3, StaysCoherent
  <2>5. \A p \in DOMAIN tlb' :
          (Slot(p) = Self \/ (pc' \in {"scan", "usable"} /\ p \in Database)) /\ ~Off(p)'
    BY <1>1, <1>9, <2>1, <2>2 DEF IInv, Cache
  <2>6. pc' \notin Booting \cup Asking
    BY <1>1 DEF Booting, Asking, Running
  <2> QED
    BY <1>10, <2>4, <2>5, <2>6 DEF Cache
<1>16. fresh' \in BOOLEAN
  BY <1>1
<1> QED
  BY <1>1, <1>2, <1>7, <1>11, <1>12, <1>13, <1>14, <1>15, <1>16, RunRest

LEMMA map_pagesStep ==
  ASSUME FirmwareApart, IInv, pc \in Running, map_pages
  PROVE  IInv'
<1> DEFINE page == job.page
           s == Slot(page)
<1>1. /\ job.left > 0 /\ ~fresh /\ NotPresent \notin Pde(s)
      /\ \E t \in Present(TableWindow(s)) :
           /\ mem' = [mem EXCEPT ![t][Index(page)] = job.frame]
           /\ tlb' = invlpg(Cached(TableWindow(s), t), Stack)
      /\ job' = [frame |-> job.frame + 1, page |-> job.page + 1, left |-> job.left - 1]
      /\ Steady /\ UNCHANGED <<pc, i, frame_min, fresh>>
  BY DEF map_pages, given, biosVars, Steady
<1>2. /\ Types /\ mem \in Memory /\ cr3 = dir /\ dir \in Frame /\ dir # NotPresent
      /\ Tree(mem, dir) /\ Within(mem, dir, Top, frame_min) /\ Coherent(tlb, mem, dir)
      /\ \A u \in Entry : Pde(u) = {mem[dir][u]}
      /\ \A u \in Entry : Present(TableWindow(u)) = {mem[dir][u]} \ {NotPresent}
      /\ i \in Nat /\ frame_min \in Nat /\ Top \in Nat
      /\ job.frame \in Nat /\ page \in Nat /\ job.left \in Nat /\ fresh \in BOOLEAN
  BY RunFacts
<1>3. /\ page \in Page /\ s \in Entry \ {Self} /\ Index(page) \in Entry
      /\ Meant(page, job.frame)
      /\ pc # "usable" /\ (pc # "database" => page \notin Database)
  BY <1>1, JobPage
<1>4. mem[dir][s] # NotPresent
  BY <1>1, <1>2, <1>3
<1>5. /\ job'.frame = job.frame + 1 /\ job'.page = page + 1 /\ job'.left = job.left - 1
      /\ job' \in [frame : Nat, page : Nat, left : Nat]
  BY <1>1, <1>2
<1> HIDE DEF s, page
<1> DEFINE t == mem[dir][s]
<1>6. t \in Frame /\ t # NotPresent /\ WalkIn(mem, dir, TableWindow(s)) = t
  BY <1>2, <1>3, <1>4, WalkValue DEF Tree
<1>7. mem' = [mem EXCEPT ![t][Index(page)] = job.frame] /\ tlb' = invlpg(Cached(TableWindow(s), t), Stack)
  <2>1. Present(TableWindow(s)) = {t}
    BY <1>2, <1>3, <1>6
  <2> HIDE DEF t
  <2> QED
    BY ONLY <1>1, <2>1 DEF page
<1> HIDE DEF t
<1>8. /\ mem' \in Memory /\ mem'[t] = [mem[t] EXCEPT ![Index(page)] = job.frame]
      /\ \A f \in Frame : f # t => mem'[f] = mem[f]
      /\ mem[t] \in [Entry -> Value]
  <2> DEFINE T == [mem[t] EXCEPT ![Index(page)] = job.frame]
  <2>1. mem[t] \in [Entry -> Value] /\ T \in [Entry -> Value]
    BY <1>2, <1>3, <1>6 DEF Memory, Value
  <2>2. mem' = [mem EXCEPT ![t] = T]
    BY <1>7
  <2> HIDE DEF T
  <2>3. mem' \in Memory /\ mem'[t] = T /\ \A f \in Frame : f # t => mem'[f] = mem[f]
    BY <1>2, <1>6, <2>1, <2>2 DEF Memory
  <2> QED
    BY <2>1, <2>3 DEF T
<1>9. /\ Tree(mem', dir) /\ mem'[dir] = mem[dir]
      /\ \A p \in Page : WalkIn(mem', dir, p) = IF Slot(p) = s THEN mem'[t][Index(p)] ELSE WalkIn(mem, dir, p)
  <2>1. mem \in Memory /\ Tree(mem, dir) /\ \A f \in Frame : f # mem[dir][s] => mem'[f] = mem[f]
    BY <1>2, <1>8 DEF t
  <2>2. /\ Tree(mem', dir) /\ mem'[dir] = mem[dir]
        /\ \A p \in Page : WalkIn(mem', dir, p) =
             IF Slot(p) = s THEN mem'[mem[dir][s]][Index(p)] ELSE WalkIn(mem, dir, p)
    BY ONLY <1>3, <1>4, <1>8, <2>1, SetTable
  <2> QED
    BY <2>2 DEF t
\* One page is mapped.
<1>10. ASSUME NEW p \in Page
       PROVE  WalkIn(mem', dir, p) = IF p = page THEN job.frame ELSE WalkIn(mem, dir, p)
  <2>1. Index(p) \in Entry
    BY OfPage
  <2>2. CASE p = page
    BY <1>3, <1>8, <1>9, <2>2 DEF s
  <2>3. CASE p # page /\ Slot(p) = s
    <3>1. Index(p) # Index(page)
      BY <1>3, <2>3, SamePage DEF s
    <3>2. WalkIn(mem, dir, p) = mem[t][Index(p)]
      BY <1>4, <2>3 DEF WalkIn, t
    <3> QED
      BY <1>3, <1>8, <1>9, <2>1, <2>3, <3>1, <3>2
  <2>4. CASE Slot(p) # s
    BY <1>9, <2>4 DEF s
  <2> QED
    BY <2>2, <2>3, <2>4
<1>11. /\ \A p : ~Off(p)' /\ ~Off(p)
  BY <1>1 DEF Off
<1>12. Top' = Top /\ dir' = dir /\ cr3' = dir
  BY <1>1, <1>2 DEF Top, Steady
<1>13. NewFrames'
  <2>1. Absent(mem', dir) = Absent(mem, dir)
    BY <1>9 DEF Absent
  <2>2. frame_min + Cardinality(Absent(mem, dir)) <= Top + Entries + (IF pc = "window" THEN 0 ELSE DbPages)
    BY DEF IInv, NewFrames
  <2>3. pc' \notin Booting \cup Asking \cup {"rebuild", "clear"} \cup Filling
    BY <1>1 DEF Booting, Asking, Filling, Running
  <2> QED
    BY <1>1, <1>12, <2>1, <2>2, <2>3 DEF NewFrames
<1>14. Mapping'
  <2>1. Within(mem', dir, Top, frame_min)
    BY <1>2, <1>9 DEF Within
  <2>2. ASSUME NEW p \in Page, Slot(p) # Self, WalkIn(mem', dir', p) # NotPresent
        PROVE  Meant(p, WalkIn(mem, dir, p))'
    <3>1. Meant(p, WalkIn(mem', dir', p))
      <4>1. CASE p = page
        BY <1>3, <1>10, <1>12, <4>1
      <4>2. CASE p # page
        <5>1. WalkIn(mem', dir', p) = WalkIn(mem, dir, p)
          BY <1>10, <1>12, <4>2
        <5> QED
          BY <1>11, <2>2, <5>1 DEF IInv, Mapping
      <4> QED
        BY <4>1, <4>2
    <3> QED
      BY <1>1, <3>1, MeantKept DEF Steady
  <2>3. ASSUME NEW p \in Page, Reached(p)'
        PROVE  WalkIn(mem', dir', p) # NotPresent
    <3>1. CASE p = page
      BY <1>2, <1>10, <1>12, <3>1 DEF NotPresent
    <3>2. CASE p # page
      <4>1. p < page + 1 => p < page
        BY <1>2, <3>2 DEF Page
      <4>2. Reached(p)
        BY <1>1, <1>5, <2>3, <4>1 DEF Reached, Steady, LowWindow, Image, Area, Told, page
      <4>3. WalkIn(mem, dir, p) # NotPresent
        BY <4>2 DEF IInv, Mapping
      <4> QED
        BY <1>10, <1>12, <3>2, <4>3
    <3> QED
      BY <3>1, <3>2
  <2>4. ~fresh'
    BY <1>1
  <2> QED
    BY <1>1, <1>9, <1>11, <1>12, <2>1, <2>2, <2>3, <2>4 DEF Mapping
<1>15. Stored'
  <2> SUFFICES ASSUME NEW p \in Database, WalkIn(mem', dir', p) # NotPresent
               PROVE  LET f == WalkIn(mem', dir', p) IN
                      /\ Top' <= f /\ f < frame_min' /\ Unused(mem', dir', f)
                      /\ pc' # "window"
                      /\ pc' = "database" => f < job'.frame
                      /\ \A q \in Database \ {p} : WalkIn(mem', dir', q) # f
    BY DEF Stored
  <2> DEFINE f == WalkIn(mem', dir, p)
  <2>1. \A q \in Database : WalkIn(mem', dir, q) = IF q = page THEN job.frame ELSE WalkIn(mem, dir, q)
    BY <1>10, DatabasePages
  <2>2. \A q \in Database : WalkIn(mem, dir, q) # NotPresent =>
          /\ Top <= WalkIn(mem, dir, q) /\ WalkIn(mem, dir, q) < frame_min
          /\ Unused(mem, dir, WalkIn(mem, dir, q))
          /\ pc # "window"
          /\ pc = "database" => WalkIn(mem, dir, q) < job.frame
          /\ \A u \in Database \ {q} : WalkIn(mem, dir, u) # WalkIn(mem, dir, q)
    BY <1>11 DEF IInv, Stored
  <2>3. \A q \in Database : WalkIn(mem, dir, q) \in Nat \cup {NotPresent}
    BY <1>2, WalkValue, DatabasePages DEF Value
  <2>4. CASE p = page
    <3>1. pc = "database"
      BY <1>3, <2>4
    <3>2. /\ f = job.frame /\ Top <= f /\ job.frame + job.left <= frame_min
          /\ Unused(mem, dir, job.frame)
      <4>1. /\ Top <= job.frame /\ job.frame + job.left <= frame_min
            /\ \A g \in job.frame .. job.frame + job.left - 1 : Unused(mem, dir, g)
        BY <3>1 DEF IInv, Job
      <4>2. job.frame \in job.frame .. job.frame + job.left - 1
        BY <1>1, <1>2
      <4>3. f = job.frame
        BY <2>1, <2>4
      <4> QED
        BY <4>1, <4>2, <4>3
    <3>3. ASSUME NEW q \in Database \ {p} PROVE WalkIn(mem', dir, q) # f
      <4>1. WalkIn(mem', dir, q) = WalkIn(mem, dir, q)
        BY <2>1, <2>4
      <4>2. WalkIn(mem, dir, q) = NotPresent \/ WalkIn(mem, dir, q) < job.frame
        BY <2>2, <3>1
      <4>3. NotPresent # job.frame
        BY <1>2 DEF NotPresent
      <4> QED
        BY <1>2, <2>3, <3>2, <4>1, <4>2, <4>3
    <3>4. f < frame_min /\ f < job'.frame
      BY <1>1, <1>2, <1>5, <3>2
    <3>5. Unused(mem', dir, f)
      BY <1>9, <3>2 DEF Unused
    <3> QED
      BY <1>1, <1>12, <3>1, <3>2, <3>3, <3>4, <3>5
  <2>5. CASE p # page
    <3>1. f = WalkIn(mem, dir, p) /\ f # NotPresent /\ f \in Nat
      BY <1>12, <2>1, <2>3, <2>5
    <3> HIDE DEF f
    <3>2. /\ Top <= f /\ f < frame_min /\ Unused(mem, dir, f)
          /\ pc # "window"
          /\ pc = "database" => f < job.frame
          /\ \A u \in Database \ {p} : WalkIn(mem, dir, u) # f
      BY <2>2, <3>1
    <3>3. pc' = "database" => f < job'.frame
      BY <1>1, <1>2, <1>5, <3>1, <3>2
    <3>4. ASSUME NEW q \in Database \ {p} PROVE WalkIn(mem', dir, q) # f
      <4>1. CASE q = page
        <5>1. pc = "database"
          BY <1>3, <4>1
        <5> QED
          BY <1>2, <2>1, <3>1, <3>2, <4>1, <5>1
      <4>2. CASE q # page
        BY <2>1, <3>2, <4>2
      <4> QED
        BY <4>1, <4>2
    <3>5. Unused(mem', dir, f)
      BY <1>9, <3>2 DEF Unused
    <3> QED
      BY <1>1, <1>12, <3>2, <3>3, <3>4, <3>5 DEF f
  <2> QED
    BY <2>4, <2>5
<1>16. Job'
  <2>1. pc' = "window" =>
          /\ PageLow1MBase <= job'.page /\ job'.page + job'.left = PageLow1MBase + Low1M
          /\ job'.frame = job'.page - PageLow1MBase
    BY <1>1, <1>2, <1>5, DatabasePages DEF IInv, Job, page
  <2>2. pc' = "database" =>
          /\ PageFrameBase <= job'.page /\ job'.page + job'.left = PageFrameBase + DbPages
          /\ Top' <= job'.frame /\ job'.frame + job'.left <= frame_min'
          /\ \A f \in job'.frame .. job'.frame + job'.left - 1 : Unused(mem', dir', f)
    <3> SUFFICES ASSUME pc = "database"
                 PROVE  /\ PageFrameBase <= job'.page /\ job'.page + job'.left = PageFrameBase + DbPages
                        /\ Top <= job'.frame /\ job'.frame + job'.left <= frame_min
                        /\ \A f \in job'.frame .. job'.frame + job'.left - 1 : Unused(mem', dir, f)
      BY <1>1, <1>12
    <3>1. /\ PageFrameBase <= page /\ page + job.left = PageFrameBase + DbPages
          /\ Top <= job.frame /\ job.frame + job.left <= frame_min
          /\ \A f \in job.frame .. job.frame + job.left - 1 : Unused(mem, dir, f)
      BY DEF IInv, Job, page
    <3>2. \A f \in job'.frame .. job'.frame + job'.left - 1 : f \in job.frame .. job.frame + job.left - 1
      BY <1>2, <1>5
    <3>3. \A f \in job'.frame .. job'.frame + job'.left - 1 : Unused(mem', dir, f)
      BY <1>9, <3>1, <3>2 DEF Unused
    <3>4. PageFrameBase <= job'.page /\ job'.page + job'.left = PageFrameBase + DbPages
      BY <1>1, <1>2, <1>5, <3>1, DatabasePages
    <3>5. Top <= job'.frame /\ job'.frame + job'.left <= frame_min
      BY <1>1, <1>2, <1>5, <3>1
    <3> QED
      BY <3>3, <3>4, <3>5
  <2>3. pc' = "scan" =>
          /\ 0 < i' /\ i' <= map_count' + 1
          /\ i' = 1 => job'.left = 0
          /\ i' > 1 /\ Mapped(Told(i - 1)') =>
               /\ Told(i - 1)'.begin <= job'.page
               /\ job'.page + job'.left = Told(i - 1)'.end
               /\ job'.frame = job'.page
          /\ i' > 1 /\ ~Mapped(Told(i - 1)') => job'.left = 0
    <3> SUFFICES ASSUME pc = "scan"
                 PROVE  /\ 0 < i /\ i <= map_count + 1
                        /\ i = 1 => job'.left = 0
                        /\ i > 1 /\ Mapped(Told(i - 1)) =>
                             /\ Told(i - 1).begin <= job'.page
                             /\ job'.page + job'.left = Told(i - 1).end
                             /\ job'.frame = job'.page
                        /\ i > 1 /\ ~Mapped(Told(i - 1)) => job'.left = 0
      BY <1>1 DEF Steady, Told
    <3>1. /\ 0 < i /\ i <= map_count + 1
          /\ i = 1 => job.left = 0
          /\ i > 1 /\ Mapped(Told(i - 1)) =>
               /\ Told(i - 1).begin <= page
               /\ page + job.left = Told(i - 1).end
               /\ job.frame = page
          /\ i > 1 /\ ~Mapped(Told(i - 1)) => job.left = 0
      BY DEF IInv, Job, page
    <3>2. i > 1
      BY <1>1, <1>2, <3>1
    <3>3. Mapped(Told(i - 1))
      BY <1>1, <3>1, <3>2
    <3>4. Told(i - 1).begin \in Nat
      BY <1>2, MapFacts
    <3>5. Told(i - 1).begin <= job'.page
      BY <1>2, <1>5, <3>1, <3>2, <3>3, <3>4
    <3>6. job'.page + job'.left = page + job.left
      BY <1>1, <1>2, <1>5
    <3>7. job'.frame = job'.page
      BY <1>5, <3>1, <3>2, <3>3
    <3>8. i # 1
      BY <1>2, <3>2
    <3>9. page + job.left = Told(i - 1).end
      BY <3>1, <3>2, <3>3
    <3> QED
      BY <3>1, <3>3, <3>5, <3>6, <3>7, <3>8, <3>9
  <2>4. pc' # "usable" /\ pc' \in Running
    BY <1>1, <1>3
  <2> QED
    BY <2>1, <2>2, <2>3, <2>4 DEF Job
<1>17. Cache'
  <2> DEFINE c == Cached(TableWindow(s), t)
  <2>1. TableWindow(s) \in Page /\ Slot(TableWindow(s)) = Self
    BY <1>3, Regions
  <2>2. Coherent(c, mem, dir) /\ DOMAIN c = DOMAIN tlb \cup {TableWindow(s)}
    BY <1>2, <1>6, <2>1, CachedCoherent
  <2> HIDE DEF c
  <2>3. Coherent(invlpg(c, Stack), mem, dir) /\ DOMAIN invlpg(c, Stack) = DOMAIN c \ {Stack}
    BY <2>2, Forgotten
  <2>4. Coherent(tlb', mem, dir) /\ DOMAIN tlb' \subseteq DOMAIN tlb \cup {TableWindow(s)}
    BY <1>7, <2>2, <2>3 DEF c
  <2>5. \A p \in DOMAIN tlb' :
          Slot(p) = Self \/ (pc \in {"scan", "usable"} /\ p \in Database)
    BY <2>1, <2>4 DEF IInv, Cache
  <2>6. ASSUME NEW p \in DOMAIN tlb' PROVE p \in Page /\ p # page
    <3>1. p \in Page
      BY <2>4 DEF Coherent
    <3>2. Slot(page) # Self
      BY <1>3 DEF s
    <3> QED
      BY <1>3, <2>5, <3>1, <3>2
  <2>7. Coherent(tlb', mem', dir)
    BY <1>10, <2>4, <2>6, StaysCoherent
  <2>8. pc' \notin Booting \cup Asking
    BY <1>1 DEF Booting, Asking, Running
  <2> QED
    BY <1>1, <1>11, <1>12, <2>5, <2>7, <2>8 DEF Cache
<1> QED
  BY <1>1, <1>2, <1>5, <1>8, <1>13, <1>14, <1>15, <1>16, <1>17, RunRest

LEMMA MapDatabaseStep ==
  ASSUME IInv, pc \in Running, MapDatabase
  PROVE  IInv'
<1>1. /\ pc = "window" /\ pc' = "database" /\ job.left = 0
      /\ job' = [frame |-> frame_min, page |-> PageFrameBase, left |-> DbPages]
      /\ frame_min' = frame_min + DbPages
      /\ Steady /\ UNCHANGED <<mem, tlb, i, fresh>>
  BY DEF MapDatabase, given, biosVars, Steady
<1>2. /\ Types /\ mem \in Memory /\ cr3 = dir /\ Tree(mem, dir) /\ Within(mem, dir, Top, frame_min)
      /\ i \in Nat /\ frame_min \in Nat /\ Top \in Nat /\ fresh \in BOOLEAN
      /\ job.frame \in Nat /\ job.page \in Nat
  BY RunFacts
<1>3. /\ job'.frame = frame_min /\ job'.page = PageFrameBase /\ job'.left = DbPages
      /\ job' \in [frame : Nat, page : Nat, left : Nat]
      /\ DbPages \in Nat /\ PageFrameBase \in Nat /\ PageLow1MBase \in Nat /\ Low1M \in Nat
  BY <1>1, <1>2, DatabasePages
<1>4. ~fresh /\ job.page = PageLow1MBase + Low1M
  BY <1>1, <1>2, <1>3 DEF IInv, Mapping, Job
<1>5. \A p : ~Off(p) /\ ~Off(p)'
  BY <1>1, <1>4 DEF Off
<1>6. Top' = Top /\ dir' = dir /\ cr3' = dir /\ mem' = mem
  BY <1>1, <1>2 DEF Top, Steady
<1>7. frame_min' \in Nat /\ pc' \in Running
  BY <1>1, <1>2, <1>3 DEF Running
<1>8. NewFrames'
  <2>1. frame_min + Cardinality(Absent(mem, dir)) <= Top + Entries + 0
    BY <1>1 DEF IInv, NewFrames
  <2>2. frame_min + DbPages + Cardinality(Absent(mem, dir)) <= Top + Entries + DbPages
    <3>1. Cardinality(Absent(mem, dir)) \in Nat /\ Entries \in Nat
      BY AbsentCount, NumbersAssumption
    <3> QED
      BY <1>2, <1>3, <2>1, <3>1
  <2> QED
    BY <1>1, <1>6, <2>2 DEF NewFrames, Booting, Asking, Filling
\* Every frame in use is below the database.
<1>9. Within(mem, dir, Top, frame_min') /\ \A f \in Nat : f >= frame_min => Unused(mem, dir, f)
  <2>1. \A u \in Entry : mem[dir][u] = NotPresent \/
          (mem[dir][u] \in Nat /\ Top <= mem[dir][u] /\ mem[dir][u] < frame_min)
    BY <1>2 DEF Tree, Within, Frame
  <2>2. Within(mem, dir, Top, frame_min')
    BY <1>1, <1>2, <1>3, <2>1 DEF Within
  <2>3. ASSUME NEW f \in Nat, f >= frame_min PROVE Unused(mem, dir, f)
    BY <1>2, <2>1, <2>3 DEF Unused, NotPresent
  <2> QED
    BY <2>2, <2>3
<1>10. Mapping'
  <2>1. ASSUME NEW p \in Page, Slot(p) # Self, WalkIn(mem, dir, p) # NotPresent
        PROVE  Meant(p, WalkIn(mem, dir, p))'
    <3>1. Meant(p, WalkIn(mem', dir', p))
      BY <1>5, <1>6, <2>1 DEF IInv, Mapping
    <3> QED
      BY <1>1, <3>1, MeantKept DEF Steady
  <2>2. ASSUME NEW p \in Page, Reached(p)' PROVE WalkIn(mem, dir, p) # NotPresent
    <3>1. \A q \in Database : ~(q < job'.page)
      BY <1>3 DEF Database
    <3>2. \A q \in LowWindow : q < job.page
      BY <1>3, <1>4 DEF LowWindow
    <3>3. Reached(p)
      BY <1>1, <2>2, <3>1, <3>2 DEF Reached, Steady, LowWindow, Image, Database
    <3> QED
      BY <3>3 DEF IInv, Mapping
  <2>3. ~fresh'
    BY <1>1, <1>4
  <2>4. Tree(mem', dir') /\ Within(mem', dir', Top', frame_min')
    BY <1>2, <1>6, <1>9 DEF Tree, Within
  <2> QED
    BY <1>5, <1>6, <2>1, <2>2, <2>3, <2>4 DEF Mapping
<1>11. Stored'
  BY <1>1, <1>5, <1>6 DEF IInv, Stored
<1>12. Job'
  <2>1. \A f \in job'.frame .. job'.frame + job'.left - 1 : Unused(mem', dir', f)
    BY <1>2, <1>3, <1>6, <1>9
  <2>2. Top <= frame_min
    <3>1. dir \in Nat /\ Top <= dir /\ dir < frame_min
      <4>1. mem[dir][Self] = dir /\ dir \in Frame /\ dir # NotPresent
        BY <1>2, NoFrame DEF Tree
      <4> QED
        BY <1>2, <4>1, Layout DEF Within, Frame
    <3> QED
      BY <1>2, <3>1
  <2>3. Top' <= job'.frame /\ job'.frame + job'.left <= frame_min'
    BY <1>1, <1>2, <1>3, <1>6, <2>2
  <2> QED
    BY <1>1, <1>2, <1>3, <2>1, <2>3 DEF Job, Running
<1>13. Cache'
  <2>1. Coherent(tlb', mem', cr3')
    BY <1>1, <1>6, RunFacts
  <2> QED
    BY <1>1, <1>5, <2>1 DEF IInv, Cache, Booting, Asking
<1> QED
  BY <1>1, <1>2, <1>3, <1>6, <1>7, <1>8, <1>10, <1>11, <1>12, <1>13, RunRest

LEMMA ClearDatabaseStep ==
  ASSUME IInv, pc \in Running, ClearDatabase
  PROVE  IInv'
<1>1. /\ pc = "database" /\ pc' = "scan" /\ job.left = 0 /\ i' = 1
      /\ mem' = [f \in Frame |-> IF \E p \in Database : f \in Present(p) THEN Junk ELSE mem[f]]
      /\ tlb' = [p \in DOMAIN tlb \cup Database |-> IF p \in Database THEN Walk(p) ELSE tlb[p]]
      /\ Steady /\ UNCHANGED <<job, fresh, frame_min>>
  BY DEF ClearDatabase, given, biosVars, Steady
<1>2. /\ Types /\ mem \in Memory /\ cr3 = dir /\ Tree(mem, dir) /\ Within(mem, dir, Top, frame_min)
      /\ \A p : Present(p) = {WalkIn(mem, dir, p)} \ {NotPresent}
      /\ \A p : Walk(p) = WalkIn(mem, dir, p)
      /\ Coherent(tlb, mem, dir)
      /\ frame_min \in Nat /\ Top \in Nat /\ fresh \in BOOLEAN
      /\ job \in [frame : Nat, page : Nat, left : Nat] /\ job.page \in Nat
  BY RunFacts
<1>3. ~fresh /\ job.page = PageFrameBase + DbPages
  <2>1. DbPages \in Nat /\ PageFrameBase \in Nat
    BY DatabasePages
  <2> QED
    BY <1>1, <1>2, <2>1 DEF IInv, Mapping, Job
<1>4. \A p : ~Off(p) /\ ~Off(p)'
  BY <1>1, <1>3 DEF Off
<1>5. Top' = Top /\ dir' = dir /\ cr3' = dir
  BY <1>1, <1>2 DEF Top, Steady
\* The database is mapped, to frames that are no tables.
<1>6. \A p \in Database : p \in Page /\ WalkIn(mem, dir, p) # NotPresent /\ Unused(mem, dir, WalkIn(mem, dir, p))
  <2> SUFFICES ASSUME NEW p \in Database
               PROVE  p \in Page /\ WalkIn(mem, dir, p) # NotPresent /\ Unused(mem, dir, WalkIn(mem, dir, p))
    OBVIOUS
  <2>1. p \in Page /\ p < job.page
    BY <1>3, DatabasePages DEF Database
  <2>2. Reached(p)
    BY <1>1, <2>1 DEF Reached
  <2>3. WalkIn(mem, dir, p) # NotPresent
    BY <2>1, <2>2 DEF IInv, Mapping
  <2> QED
    BY <1>4, <2>1, <2>3 DEF IInv, Stored
<1>7. mem' \in Memory
  <2>1. Junk \in [Entry -> Value]
    BY DEF Junk, Value
  <2>2. \A f \in Frame : mem[f] \in [Entry -> Value]
    BY <1>2 DEF Memory
  <2> QED
    BY <1>1, <2>1, <2>2 DEF Memory
<1>8. /\ Tree(mem', dir) /\ mem'[dir] = mem[dir]
      /\ \A p \in Page : WalkIn(mem', dir, p) = WalkIn(mem, dir, p)
  <2>1. \A f \in Frame : ~Unused(mem, dir, f) => mem'[f] = mem[f]
    BY <1>1, <1>2, <1>6
  <2> QED
    BY <1>2, <1>7, <2>1, Elsewhere
<1>9. NewFrames'
  <2>1. frame_min + Cardinality(Absent(mem, dir)) <= Top + Entries + DbPages
    BY <1>1 DEF IInv, NewFrames
  <2>2. Absent(mem', dir) = Absent(mem, dir)
    BY <1>8 DEF Absent
  <2> QED
    BY <1>1, <1>5, <2>1, <2>2 DEF NewFrames, Booting, Asking, Filling
<1>10. Mapping'
  <2>1. ASSUME NEW p \in Page, Slot(p) # Self, WalkIn(mem', dir', p) # NotPresent
        PROVE  Meant(p, WalkIn(mem, dir, p))'
    <3>1. WalkIn(mem', dir', p) = WalkIn(mem, dir, p)
      BY <1>5, <1>8
    <3>2. Meant(p, WalkIn(mem', dir', p))
      BY <1>4, <2>1, <3>1 DEF IInv, Mapping
    <3> QED
      BY <1>1, <3>2, MeantKept DEF Steady
  <2>2. ASSUME NEW p \in Page, Reached(p)' PROVE WalkIn(mem', dir', p) # NotPresent
    <3>1. Reached(p) \/ p \in Database
      <4>1. \A n \in 1 .. map_count : ~(n < i' - 1) /\ ~(n = i' - 1)
        BY <1>1, <1>2 DEF Types
      <4> QED
        BY <1>1, <2>2, <4>1 DEF Reached, Steady, LowWindow, Image, Database, Area, Told
    <3>2. WalkIn(mem, dir, p) # NotPresent
      BY <1>6, <3>1 DEF IInv, Mapping
    <3> QED
      BY <1>5, <1>8, <3>2
  <2>3. ~fresh'
    BY <1>1, <1>3
  <2>4. Within(mem', dir, Top, frame_min)
    BY <1>2, <1>8 DEF Within
  <2> QED
    BY <1>1, <1>4, <1>5, <1>8, <2>1, <2>2, <2>3, <2>4 DEF Mapping
<1>11. Stored'
  <2>1. \A p \in Database : WalkIn(mem', dir', p) = WalkIn(mem, dir, p)
    BY <1>5, <1>6, <1>8
  <2>2. \A p \in Database :
          LET f == WalkIn(mem, dir, p) IN
          /\ Top <= f /\ f < frame_min /\ Unused(mem, dir, f)
          /\ \A q \in Database \ {p} : WalkIn(mem, dir, q) # f
    BY <1>4, <1>6 DEF IInv, Stored
  <2>3. \A f : Unused(mem, dir, f) => Unused(mem', dir, f)
    BY <1>8 DEF Unused
  <2> QED
    BY <1>1, <1>5, <2>1, <2>2, <2>3 DEF Stored
<1>12. Job'
  <2>1. map_count \in Nat
    BY <1>2 DEF Types
  <2>2. i' = 1 /\ job'.left = 0 /\ map_count' = map_count
    BY <1>1 DEF Steady
  <2>3. 0 < i' /\ i' <= map_count + 1 /\ ~(i' > 1)
    BY <2>1, <2>2
  <2>4. pc' = "scan" /\ pc' \in Running
    BY <1>1 DEF Running
  <2> QED
    BY <2>2, <2>3, <2>4 DEF Job
<1>13. Cache'
  <2>1. DOMAIN tlb' = DOMAIN tlb \cup Database
    BY <1>1
  <2>2. ASSUME NEW p \in DOMAIN tlb'
        PROVE  p \in Page /\ tlb'[p] = WalkIn(mem', dir, p) /\ tlb'[p] # NotPresent
    <3>1. CASE p \in Database
      BY <1>1, <1>2, <1>6, <1>8, <2>1, <3>1
    <3>2. CASE p \notin Database
      BY <1>1, <1>2, <1>8, <2>1, <3>2 DEF Coherent
    <3> QED
      BY <3>1, <3>2
  <2>3. Coherent(tlb', mem', cr3')
    BY <1>5, <2>2 DEF Coherent
  <2>4. \A p \in DOMAIN tlb' : Slot(p) = Self \/ p \in Database
    BY <1>1, <2>1 DEF IInv, Cache
  <2> QED
    BY <1>1, <1>4, <2>3, <2>4 DEF Cache, Booting, Asking
<1>14. i' \in Nat /\ frame_min' \in Nat /\ fresh' \in BOOLEAN /\ pc' \in Running
       /\ job' \in [frame : Nat, page : Nat, left : Nat]
  BY <1>1, <1>2 DEF Running
<1> QED
  BY <1>1, <1>7, <1>9, <1>10, <1>11, <1>12, <1>13, <1>14, RunRest

LEMMA ScanEntryStep ==
  ASSUME IInv, pc \in Running, ScanEntry
  PROVE  IInv'
<1> DEFINE e == Told(i)
<1>1. /\ pc = "scan" /\ pc' = "scan" /\ job.left = 0 /\ i <= map_count /\ i' = i + 1
      /\ job' = IF Mapped(e) THEN [frame |-> e.begin, page |-> e.begin, left |-> e.end - e.begin] ELSE NoJob
      /\ Steady /\ UNCHANGED <<mem, tlb, fresh, frame_min>>
  BY DEF ScanEntry, given, biosVars, Steady
<1>2. /\ Types /\ mem \in Memory /\ cr3 = dir /\ Tree(mem, dir) /\ Within(mem, dir, Top, frame_min)
      /\ Coherent(tlb, mem, dir)
      /\ frame_min \in Nat /\ fresh \in BOOLEAN /\ i \in Nat
      /\ job.page \in Nat
  BY RunFacts
<1>3. /\ ~fresh /\ 0 < i
      /\ i > 1 /\ Mapped(Told(i - 1)) => job.page + job.left = Told(i - 1).end
  BY <1>1, <1>2 DEF IInv, Mapping, Job
<1>4. \A p : ~Off(p) /\ ~Off(p)'
  BY <1>1, <1>3 DEF Off
<1>5. Top' = Top /\ dir' = dir /\ cr3' = dir /\ mem' = mem
  BY <1>1, <1>2 DEF Top, Steady
<1>6. map_count \in Nat /\ e.begin \in Nat /\ e.end \in Nat /\ e.begin <= e.end
  BY <1>2, MapFacts DEF Types
<1> HIDE DEF e
<1>7. /\ Mapped(e) => job'.frame = e.begin /\ job'.page = e.begin /\ job'.left = e.end - e.begin
      /\ ~Mapped(e) => job'.left = 0
      /\ job' \in [frame : Nat, page : Nat, left : Nat]
  <2>1. CASE Mapped(e)
    BY <1>1, <1>6, <2>1
  <2>2. CASE ~Mapped(e)
    BY <1>1, <2>2 DEF NoJob
  <2> QED
    BY <2>1, <2>2
<1>8. NewFrames'
  <2>1. frame_min + Cardinality(Absent(mem, dir)) <= Top + Entries + DbPages
    BY <1>1 DEF IInv, NewFrames
  <2> QED
    BY <1>1, <1>5, <2>1 DEF NewFrames, Booting, Asking, Filling
<1>9. Mapping'
  <2>1. ASSUME NEW p \in Page, Slot(p) # Self, WalkIn(mem, dir, p) # NotPresent
        PROVE  Meant(p, WalkIn(mem, dir, p))'
    <3>1. Meant(p, WalkIn(mem', dir', p))
      BY <1>4, <1>5, <2>1 DEF IInv, Mapping
    <3> QED
      BY <1>1, <3>1, MeantKept DEF Steady
  <2>2. ASSUME NEW p \in Page, Reached(p)' PROVE Reached(p)
    <3>1. ASSUME NEW n \in 1 .. map_count, Mapped(Told(n)), p \in Area(n),
                 n < i' - 1 \/ (n = i' - 1 /\ p < job'.page)
          PROVE  n < i - 1 \/ (n = i - 1 /\ p < job.page)
      <4>1. n \in Nat
        BY <1>6
      <4>2. Told(n).begin \in Nat /\ Told(n).end \in Nat
        BY <1>2, MapFacts
      <4>3. p \in Nat /\ Told(n).begin <= p /\ p < Told(n).end
        BY <3>1, <4>2 DEF Area
      <4>4. CASE n = i
        <5>1. job'.page = Told(n).begin /\ n = i' - 1
          BY <1>1, <1>2, <1>7, <3>1, <4>4 DEF e
        <5>2. i' - 1 = n /\ i' - 1 \in Nat
          BY ONLY <4>1, <5>1
        <5>3. p < job'.page
          BY ONLY <3>1, <4>1, <5>2
        <5> QED
          BY ONLY <4>2, <4>3, <5>1, <5>3
      <4>5. CASE n # i
        <5>1. n <= i - 1
          BY <1>1, <1>2, <3>1, <4>1, <4>5
        <5>2. CASE n = i - 1
          <6>1. i > 1
            BY <1>2, <4>1, <5>2
          <6>2. job.page + job.left = Told(n).end
            BY <1>3, <3>1, <5>2, <6>1
          <6> QED
            BY <1>1, <1>2, <4>2, <4>3, <5>2, <6>2
        <5> QED
          BY <1>2, <4>1, <5>1, <5>2
      <4> QED
        BY <4>4, <4>5
    <3>2. machine' = machine /\ image' = image /\ map_count' = map_count /\ Area(1)' = Area(1)
      BY <1>1 DEF Steady, Area, Told
    <3>3. CASE p < Low1M \/ p \in LowWindow \/ p \in Image \/ p \in Database
      BY <1>1, <3>3 DEF Reached
    <3>4. CASE ~(p < Low1M \/ p \in LowWindow \/ p \in Image \/ p \in Database)
      <4>1. PICK n \in 1 .. map_count :
              /\ Mapped(Told(n)) /\ p \in Area(n)
              /\ n < i' - 1 \/ (n = i' - 1 /\ p < job'.page)
        BY <1>1, <2>2, <3>2, <3>4 DEF Reached, Image, Area, Told
      <4>2. n < i - 1 \/ (n = i - 1 /\ p < job.page)
        BY <3>1, <4>1
      <4> QED
        BY <1>1, <4>1, <4>2 DEF Reached
    <3> QED
      BY <3>3, <3>4
  <2>3. ASSUME NEW p \in Page, Reached(p)' PROVE WalkIn(mem, dir, p) # NotPresent
    BY <2>2, <2>3 DEF IInv, Mapping
  <2>4. ~fresh'
    BY <1>1, <1>3
  <2>5. Tree(mem', dir') /\ Within(mem', dir', Top', frame_min')
    BY <1>1, <1>2, <1>5 DEF Tree, Within
  <2> QED
    BY <1>4, <1>5, <2>1, <2>3, <2>4, <2>5 DEF Mapping
<1>10. Stored'
  BY <1>1, <1>4, <1>5 DEF IInv, Stored
<1>11. Job'
  <2>1. i' - 1 = i /\ i' > 1 /\ 0 < i' /\ i' # 1 /\ i' <= map_count' + 1
    BY <1>1, <1>2, <1>3, <1>6 DEF Steady
  <2>2. Told(i - 1)' = e
    BY <1>1, <2>1 DEF e, Steady, Told
  <2>3. Mapped(e) => e.begin <= job'.page /\ job'.page + job'.left = e.end /\ job'.frame = job'.page
    BY <1>6, <1>7
  <2>4. pc' = "scan" /\ pc' \in Running
    BY <1>1 DEF Running
  <2> QED
    BY <1>7, <2>1, <2>2, <2>3, <2>4 DEF Job
<1>12. Cache'
  <2>1. Coherent(tlb', mem', cr3')
    BY <1>1, <1>2, <1>5
  <2> QED
    BY <1>1, <1>4, <2>1 DEF IInv, Cache, Booting, Asking
<1>13. i' \in Nat /\ frame_min' \in Nat /\ fresh' \in BOOLEAN /\ pc' \in Running /\ mem' \in Memory
  BY <1>1, <1>2, <1>5 DEF Running
<1> QED
  BY <1>1, <1>7, <1>8, <1>9, <1>10, <1>11, <1>12, <1>13, RunRest

LEMMA UsableStep ==
  ASSUME IInv, pc \in Running, Usable
  PROVE  IInv'
<1>1. /\ pc = "scan" /\ pc' = "usable" /\ job.left = 0 /\ i > map_count
      /\ Steady /\ UNCHANGED <<mem, tlb, fresh, frame_min, job, i>>
  BY DEF Usable, given, biosVars, Steady
<1>2. /\ Types /\ mem \in Memory /\ cr3 = dir /\ Tree(mem, dir) /\ Within(mem, dir, Top, frame_min)
      /\ Coherent(tlb, mem, dir)
      /\ frame_min \in Nat /\ fresh \in BOOLEAN /\ i \in Nat /\ map_count \in Nat
      /\ job \in [frame : Nat, page : Nat, left : Nat] /\ job.page \in Nat
  BY RunFacts DEF Types
<1>3. /\ ~fresh /\ i <= map_count + 1
      /\ i > 1 /\ Mapped(Told(i - 1)) => job.page + job.left = Told(i - 1).end
  BY <1>1, <1>2 DEF IInv, Mapping, Job
<1>4. \A p : ~Off(p) /\ ~Off(p)'
  BY <1>1, <1>3 DEF Off
<1>5. Top' = Top /\ dir' = dir /\ cr3' = dir /\ mem' = mem
  BY <1>1, <1>2 DEF Top, Steady
<1>6. NewFrames'
  <2>1. frame_min + Cardinality(Absent(mem, dir)) <= Top + Entries + DbPages
    BY <1>1 DEF IInv, NewFrames
  <2> QED
    BY <1>1, <1>5, <2>1 DEF NewFrames, Booting, Asking, Filling
<1>7. Mapping'
  <2>1. ASSUME NEW p \in Page, Slot(p) # Self, WalkIn(mem, dir, p) # NotPresent
        PROVE  Meant(p, WalkIn(mem, dir, p))'
    <3>1. Meant(p, WalkIn(mem', dir', p))
      BY <1>4, <1>5, <2>1 DEF IInv, Mapping
    <3> QED
      BY <1>1, <3>1, MeantKept DEF Steady
  <2>2. ASSUME NEW p \in Page, Reached(p)' PROVE WalkIn(mem, dir, p) # NotPresent
    <3>1. Reached(p)
      BY <1>1, <2>2 DEF Reached, Steady, LowWindow, Image, Area, Told
    <3> QED
      BY <3>1 DEF IInv, Mapping
  <2>3. ~fresh'
    BY <1>1, <1>3
  <2>4. Tree(mem', dir') /\ Within(mem', dir', Top', frame_min')
    BY <1>1, <1>2, <1>5 DEF Tree, Within
  <2> QED
    BY <1>4, <1>5, <2>1, <2>2, <2>3, <2>4 DEF Mapping
<1>8. Stored'
  BY <1>1, <1>4, <1>5 DEF IInv, Stored
<1>9. Job'
  <2>1. i = map_count + 1
    BY <1>1, <1>2, <1>3
  <2>2. i > 1 /\ Mapped(Told(i - 1)) => job.page = Told(i - 1).end
    BY <1>1, <1>2, <1>3
  <2>3. pc' = "usable" /\ pc' \in Running /\ UNCHANGED <<machine, i, map_count, job>>
    BY <1>1 DEF Running, Steady
  <2> QED
    BY <1>1, <2>1, <2>2, <2>3 DEF Job, Told
<1>10. Cache'
  <2>1. Coherent(tlb', mem', cr3')
    BY <1>1, <1>2, <1>5
  <2> QED
    BY <1>1, <1>4, <2>1 DEF IInv, Cache, Booting, Asking
<1>11. i' \in Nat /\ frame_min' \in Nat /\ fresh' \in BOOLEAN /\ pc' \in Running /\ mem' \in Memory
       /\ job' \in [frame : Nat, page : Nat, left : Nat]
  BY <1>1, <1>2, <1>5 DEF Running
<1> QED
  BY <1>1, <1>6, <1>7, <1>8, <1>9, <1>10, <1>11, RunRest

-------------------------------------------------------------------------------
(* The theorems *)

\* map_pages runs on the new tables alone.
LEMMA RunningOnly ==
  ASSUME IInv, SetPde \/ new_page_table \/ map_pages
  PROVE  pc \in Running
<1>1. pc \notin Running => ~fresh /\ job.left = 0
  BY DEF IInv, Job
<1>2. job.left > 0 \/ fresh
  BY DEF SetPde, new_page_table, map_pages
<1> QED
  BY <1>1, <1>2

LEMMA StutterStep ==
  ASSUME IInv, UNCHANGED vars
  PROVE  IInv'
<1>1. UNCHANGED <<machine, image, mem, cr3, paging, tlb, pc, i, dir, table, frame_min, job, fresh, ebx, map_count>>
  BY DEF vars
<1>2. /\ Top' = Top /\ Image' = Image
      /\ \A p : (Reached(p)' <=> Reached(p)) /\ (Off(p)' <=> Off(p))
      /\ \A p, f : Meant(p, f)' <=> Meant(p, f)
  BY <1>1 DEF Top, Image, Reached, Off, Meant, LowWindow, FirmwarePage, Area, Told
<1>3. Types' /\ Started' /\ Asked'
  BY <1>1 DEF IInv, Types, Started, Asked, EndUntold, Counted, Complete, WalkIn
<1>4. OldTables'
  BY <1>1, <1>2 DEF IInv, OldTables, Tree, Within, WalkIn
<1>5. NewFrames'
  BY <1>1, <1>2 DEF IInv, NewFrames, WalkIn, Absent
<1>6. NewTables'
  BY <1>1, <1>2 DEF IInv, NewTables, Tree, Within, Unused, WalkIn
<1>7. Mapping'
  BY <1>1, <1>2 DEF IInv, Mapping, Tree, Within, WalkIn
<1>8. Stored'
  BY <1>1, <1>2 DEF IInv, Stored, Unused, WalkIn
<1>9. Job'
  BY <1>1, <1>2 DEF IInv, Job, Unused, Told
<1>10. Cache'
  BY <1>1, <1>2 DEF IInv, Cache, Coherent, WalkIn
<1> QED
  BY <1>3, <1>4, <1>5, <1>6, <1>7, <1>8, <1>9, <1>10 DEF IInv

\* The inductive invariant: the loader's tables until CR3 is loaded, the tables
\* under construction behind the temporary pages, and those in force.
THEOREM Invariant ==
  ASSUME FirmwareApart
  PROVE  Spec => []IInv
<1>1. Init => IInv
  BY InitHolds
<1>2. IInv /\ [Next]_vars => IInv'
  <2> SUFFICES ASSUME IInv, [Next]_vars PROVE IInv'
    OBVIOUS
  <2>1. CASE LoaderDirectory \/ LoaderMap \/ StartPaging
    BY <2>1, LoaderDirectoryStep, LoaderMapStep, StartPagingStep
  <2>2. CASE callbios \/ Int15 \/ BackToProtected
    BY <2>2, callbiosStep, Int15Step, BackToProtectedStep
  <2>3. CASE NewDirectory \/ ClearDirectory \/ LowTable \/ FillLow
    BY <2>3, NewDirectoryStep, ClearDirectoryStep, LowTableStep, FillLowStep
  <2>4. CASE ImageTable \/ ClearTable \/ MapImage \/ LoadCr3
    BY <2>4, ImageTableStep, ClearTableStep, MapImageStep, LoadCr3Step
  <2>5. CASE SetPde \/ new_page_table \/ map_pages
    <3>1. pc \in Running
      BY <2>5, RunningOnly
    <3> QED
      BY <2>5, <3>1, SetPdeStep, new_page_tableStep, map_pagesStep
  <2>6. CASE MapDatabase \/ ClearDatabase \/ ScanEntry \/ Usable
    <3>1. pc \in Running
      BY <2>6 DEF MapDatabase, ClearDatabase, ScanEntry, Usable, Running
    <3> QED
      BY <2>6, <3>1, MapDatabaseStep, ClearDatabaseStep, ScanEntryStep, UsableStep
  <2>7. CASE Done
    BY <2>7, StutterStep DEF Done
  <2>8. CASE UNCHANGED vars
    BY <2>8, StutterStep
  <2> QED
    BY <2>1, <2>2, <2>3, <2>4, <2>5, <2>6, <2>7, <2>8 DEF Next
<1> QED
  BY <1>1, <1>2, PTL DEF Spec

\* Which tables are in force.
LEMMA InForce ==
  ASSUME IInv, paging
  PROVE  /\ Coherent(tlb, mem, cr3) /\ Tree(mem, cr3)
         /\ \A p : Walk(p) = WalkIn(mem, cr3, p)
         /\ \A p : Translations(p) = {WalkIn(mem, cr3, p)}
         /\ pc \in Asking \cup Building \cup Running
         /\ Rebuilt <=> pc \in Running
<1>1. Types /\ Coherent(tlb, mem, cr3)
  BY DEF IInv, Cache
<1>2. pc \in Asking \cup Building \cup Running
  BY <1>1 DEF Types
<1>3. Tree(mem, cr3)
  BY <1>2 DEF IInv, OldTables, Mapping
<1>4. \A p : Walk(p) = WalkIn(mem, cr3, p)
  BY DEF Walk, WalkFrom, WalkIn
<1>5. \A p : Translations(p) = {WalkIn(mem, cr3, p)}
  BY <1>1, <1>4 DEF Translations, Coherent
<1>6. ASSUME pc \in Asking \cup Building PROVE cr3 # dir /\ pc \notin Running
  <2>1. cr3 = PAGE_DIR_PA /\ pc \notin Running
    BY <1>6 DEF IInv, OldTables, Asking, Building, Filling, Running
  <2>2. PAGE_DIR_PA \in Nat \ {0} /\ PAGE_DIR_PA < Low1M /\ Low1M \in Nat /\ Top \in Nat /\ Low1M <= Top
    <3>1. PT_KERNEL_PA < Low1M
      BY <1>1, LoaderFrames
    <3>2. image \in Nat
      BY <1>1, Given
    <3> QED
      BY <3>1, <3>2, NumbersAssumption, LayoutAssumption DEF Top
  <2>3. dir = 0 \/ Top <= dir
    BY <1>6 DEF IInv, NewFrames, Building
  <2>4. dir \in Nat
    BY <1>1 DEF Types
  <2> QED
    BY <2>1, <2>2, <2>3, <2>4
<1>7. pc \in Running => cr3 = dir
  BY DEF IInv, Mapping
<1> QED
  BY <1>1, <1>2, <1>3, <1>4, <1>5, <1>6, <1>7 DEF Rebuilt

\* What the TLB remembers is what the tables say, whatever page MAP_PAGE,
\* new_page_table and map_pages went through.
THEOREM TlbStaysCoherent ==
  ASSUME FirmwareApart
  PROVE  Spec => []TlbCoherent
<1>1. IInv => TlbCoherent
  BY InForce DEF TlbCoherent, Coherent
<1> QED
  BY <1>1, Invariant, PTL

\* The image's pages are the image's alone: no firmware, window or database is
\* mapped over them or over low memory.
LEMMA OwnPages ==
  ASSUME FirmwareApart, IInv, pc \in Running, NEW p \in Page, NEW f, Meant(p, f)
  PROVE  /\ p \in 0 .. Low1M - 1 => f = p
         /\ p \in Image => f = Low1M + p - KernelBase
         /\ p \in LowWindow => f = p - PageLow1MBase
         /\ FirmwarePage(p) => f = p /\ p \notin Image \cup Database \cup LowWindow
<1>1. Types
  BY DEF IInv
<1>2. /\ KernelBase \in Nat /\ Low1M \in Nat \ {0} /\ PageTableBase \in Nat /\ PageFrameBase \in Nat
      /\ PageLow1MBase \in Nat /\ DbPages \in Nat /\ Entries \in Nat \ {0} /\ image \in Nat
      /\ PageTableBase + Entries <= PageFrameBase /\ PageFrameBase + DbPages <= PageLow1MBase
      /\ KernelBase < PageTableBase
  BY <1>1, Given, NumbersAssumption, LayoutAssumption
<1>3. Low1M <= KernelBase
  <2>1. KernelBase = KernelSlot * Entries /\ 0 < KernelSlot /\ KernelSlot \in Nat
    BY Layout DEF Entry
  <2>2. Entries <= KernelSlot * Entries
    BY <1>2, <2>1
  <2> QED
    BY <1>2, <2>1, <2>2, LayoutAssumption
<1>4. \A q \in Image : KernelBase <= q /\ q < PageTableBase /\ q \in Nat
  BY <1>1, <1>2, Given
<1>5. p \in Nat
  BY NumbersAssumption DEF Page
<1>6. ASSUME FirmwarePage(p) PROVE p \notin Image /\ p \notin Database /\ p \notin LowWindow
  <2>1. PICK n \in 1 .. map_count : Mapped(Told(n)) /\ p \in Area(n)
    BY <1>6 DEF FirmwarePage
  <2>2. n \in DOMAIN machine.map /\ Told(n) = machine.map[n] /\ machine \in Machines /\ image \in Images
    BY <1>1, <2>1, MapFacts DEF Types
  <2>3. p \notin KernelBase .. KernelBase + image - 1 /\ p \notin PageTableBase .. PageLow1MBase + Low1M - 1
    BY <2>1, <2>2 DEF FirmwareApart, Area
  <2> QED
    BY <1>2, <2>3 DEF Image, Database, LowWindow
<1>7. p \in LowWindow => p \notin Image /\ p \notin Database /\ ~(p < Low1M)
  BY <1>2, <1>3, <1>4 DEF LowWindow, Database
<1>8. p \in Image => p \notin LowWindow /\ p \notin Database /\ ~(p < Low1M)
  BY <1>2, <1>3, <1>4 DEF LowWindow, Database
<1>9. p \in 0 .. Low1M - 1 => p \notin LowWindow /\ p \notin Database /\ p \notin Image
  BY <1>2, <1>3, <1>4 DEF LowWindow, Database
<1> QED
  BY <1>5, <1>6, <1>7, <1>8, <1>9 DEF Meant

\* Low memory and the kernel's image stay where they lie, whenever paging is
\* on: through the loader's tables, the BIOS calls, the switch of CR3 and the
\* rest of the boot.
THEOREM KernelRunsOn ==
  ASSUME FirmwareApart
  PROVE  Spec => []RunsOn
<1>1. IInv => RunsOn
  <2> SUFFICES ASSUME IInv, paging
               PROVE  /\ \A p \in 0 .. Low1M - 1 : WalkIn(mem, cr3, p) = p
                      /\ \A p \in Image : (Rebuilt \/ p \notin {TmpDir, TmpTable}) =>
                                            WalkIn(mem, cr3, p) = Low1M + p - KernelBase
    BY InForce DEF RunsOn
  <2>1. CASE pc \in Asking \cup Building
    <3>1. ~Rebuilt
      BY <2>1, InForce DEF Asking, Building, Filling, Running
    <3> QED
      BY <2>1, <3>1 DEF IInv, OldTables
  <2>2. CASE pc \in Running
    <3>1. cr3 = dir /\ Types
      BY <2>2 DEF IInv, Mapping
    <3>2. ASSUME NEW p \in (0 .. Low1M - 1) \cup Image
          PROVE  p \in Page /\ Meant(p, WalkIn(mem, dir, p))
      <4>1. p \in Page /\ Slot(p) # Self
        <5>1. Self \in Nat /\ KernelSlot \in Nat /\ 0 < KernelSlot /\ KernelSlot < Self
          BY Layout DEF Entry
        <5> QED
          BY <3>1, <3>2, <5>1, Given, Regions
      <4>2. Reached(p)
        BY <3>2, NumbersAssumption DEF Reached
      <4> QED
        BY <2>2, <4>1, <4>2 DEF IInv, Mapping
    <3> QED
      BY <2>2, <3>1, <3>2, OwnPages
  <2> QED
    BY <2>1, <2>2, InForce
<1> QED
  BY <1>1, Invariant, PTL

\* What a page is to show at the end, other than the database.
Wanted(p, f) ==
  \/ p \in LowWindow /\ f = p - PageLow1MBase
  \/ p \in 0 .. Low1M - 1 /\ f = p
  \/ p \in Image /\ f = Low1M + p - KernelBase
  \/ \E s \in Entry : p = TableWindow(s) /\ f = mem[cr3][s]
  \/ FirmwarePage(p) /\ f = p

LEMMA FirmwarePairs ==
  ASSUME IInv, pc \in Running
  PROVE  /\ \A pair \in Firmware : FirmwarePage(pair[1]) /\ pair[2] = pair[1]
         /\ \A p : FirmwarePage(p) => <<p, p>> \in Firmware
<1>1. /\ DOMAIN machine.map = 1 .. Len(machine.map) /\ Len(machine.map) \in Nat
      /\ \A n : Mapped(Told(n)) => n \in DOMAIN machine.map /\ Told(n) = machine.map[n]
      /\ Counted
  BY MapFacts DEF IInv, Asked
<1>2. CASE ~Complete
  <2>1. Firmware = {}
    BY <1>2 DEF Firmware
  <2>2. ASSUME NEW n \in 1 .. map_count, Mapped(Told(n)) PROVE FALSE
    <3>1. n \in 1 .. Len(machine.map) /\ (map_count = 0 \/ Len(machine.map) = 0)
      BY <1>1, <1>2, <2>2 DEF Counted
    <3> QED
      BY <1>1, <3>1
  <2>3. \A p : ~FirmwarePage(p)
    BY <2>2 DEF FirmwarePage
  <2> QED
    BY <2>1, <2>3
<1>3. CASE Complete
  <2>1. \A n \in DOMAIN machine.map : n \in 1 .. map_count
    <3>1. map_count \in {Len(machine.map), Len(machine.map) + 1}
      BY <1>1, <1>3 DEF Counted
    <3> QED
      BY <1>1, <3>1
  <2>2. \A n \in DOMAIN machine.map : Told(n) = machine.map[n]
    BY DEF Told
  <2> DEFINE E == {x \in {machine.map[n] : n \in DOMAIN machine.map} : Mapped(x)}
             Pairs(e) == {<<p, p>> : p \in e.begin .. e.end - 1}
  <2>3. Firmware = UNION {Pairs(e) : e \in E}
    BY <1>3 DEF Firmware
  <2>4. ASSUME NEW pair \in Firmware PROVE FirmwarePage(pair[1]) /\ pair[2] = pair[1]
    <3>1. PICK e \in E : pair \in Pairs(e)
      BY <2>3, <2>4
    <3>2. PICK n \in DOMAIN machine.map : e = machine.map[n] /\ Mapped(machine.map[n])
      BY <3>1
    <3>3. PICK p \in e.begin .. e.end - 1 : pair = <<p, p>>
      BY <3>1
    <3>4. n \in 1 .. map_count /\ p \in Area(n) /\ Mapped(Told(n))
      BY <2>1, <2>2, <3>2, <3>3 DEF Area
    <3>5. FirmwarePage(p)
      BY <3>4 DEF FirmwarePage
    <3> QED
      BY <3>3, <3>5
  <2>5. ASSUME NEW p, FirmwarePage(p) PROVE <<p, p>> \in Firmware
    <3>1. PICK n \in 1 .. map_count : Mapped(Told(n)) /\ p \in Area(n)
      BY <2>5 DEF FirmwarePage
    <3>2. n \in DOMAIN machine.map /\ Told(n) = machine.map[n]
      BY <1>1, <3>1
    <3>3. machine.map[n] \in E
      BY <3>1, <3>2
    <3>4. <<p, p>> \in Pairs(machine.map[n])
      BY <3>1, <3>2 DEF Area
    <3> QED
      BY <2>3, <3>3, <3>4
  <2> QED
    BY <2>4, <2>5
<1> QED
  BY <1>2, <1>3

LEMMA Pairs ==
  ASSUME IInv, pc \in Running
  PROVE  /\ \A pair \in Windows \cup Firmware : Wanted(pair[1], pair[2])
         /\ \A p, f : Wanted(p, f) => \E pair \in Windows \cup Firmware : pair[1] = p
<1>1. PageLow1MBase \in Nat /\ Low1M \in Nat
  BY NumbersAssumption
<1> DEFINE A == {<<PageLow1MBase + n, n>> : n \in 0 .. Low1M - 1}
           B == {<<n, n>> : n \in 0 .. Low1M - 1}
           C == {<<p, Low1M + p - KernelBase>> : p \in Image}
           D == {<<PageTableBase + s, mem[cr3][s]>> : s \in Entry}
<1>2. Windows = A \cup B \cup C \cup D
  BY DEF Windows
<1>3. \A pair \in Firmware : Wanted(pair[1], pair[2])
  BY FirmwarePairs DEF Wanted
<1>4. ASSUME NEW pair \in A PROVE Wanted(pair[1], pair[2])
  <2>1. PICK n \in 0 .. Low1M - 1 : pair = <<PageLow1MBase + n, n>>
    BY <1>4
  <2>2. PageLow1MBase + n \in LowWindow /\ n = (PageLow1MBase + n) - PageLow1MBase
    BY <1>1 DEF LowWindow
  <2> QED
    BY <2>1, <2>2 DEF Wanted
<1>5. \A pair \in B : Wanted(pair[1], pair[2])
  BY DEF Wanted
<1>6. \A pair \in C : Wanted(pair[1], pair[2])
  BY DEF Wanted
<1>7. \A pair \in D : Wanted(pair[1], pair[2])
  BY DEF Wanted, TableWindow
<1>8. ASSUME NEW p, NEW x, <<p, x>> \in Windows \cup Firmware
      PROVE  \E pair \in Windows \cup Firmware : pair[1] = p
  <2>1. <<p, x>>[1] = p
    OBVIOUS
  <2> QED
    BY <1>8, <2>1
<1>9. ASSUME NEW p, NEW f, Wanted(p, f)
      PROVE  \E pair \in Windows \cup Firmware : pair[1] = p
  <2>1. CASE p \in LowWindow
    <3>1. p - PageLow1MBase \in 0 .. Low1M - 1 /\ p = PageLow1MBase + (p - PageLow1MBase)
      BY <1>1, <2>1 DEF LowWindow
    <3>2. <<p, p - PageLow1MBase>> \in A
      BY <3>1
    <3>5. <<p, p - PageLow1MBase>> \in Windows \cup Firmware
      BY <1>2, <3>2
    <3> QED
      BY ONLY <1>8, <3>5
  <2>2. CASE p \in 0 .. Low1M - 1
    <3>1. <<p, p>> \in B
      BY <2>2
    <3>5. <<p, p>> \in Windows \cup Firmware
      BY <1>2, <3>1
    <3> QED
      BY ONLY <1>8, <3>5
  <2>3. CASE p \in Image
    <3>1. <<p, Low1M + p - KernelBase>> \in C
      BY <2>3
    <3>5. <<p, Low1M + p - KernelBase>> \in Windows \cup Firmware
      BY <1>2, <3>1
    <3> QED
      BY ONLY <1>8, <3>5
  <2>4. CASE \E s \in Entry : p = TableWindow(s)
    <3>1. PICK s \in Entry : p = TableWindow(s)
      BY <2>4
    <3>2. <<p, mem[cr3][s]>> \in D
      BY <3>1 DEF TableWindow
    <3>5. <<p, mem[cr3][s]>> \in Windows \cup Firmware
      BY <1>2, <3>2
    <3> QED
      BY ONLY <1>8, <3>5
  <2>5. CASE FirmwarePage(p)
    <3>1. <<p, p>> \in Firmware
      BY <2>5, FirmwarePairs
    <3>5. <<p, p>> \in Windows \cup Firmware
      BY <3>1
    <3> QED
      BY ONLY <1>8, <3>5
  <2> QED
    BY <1>9, <2>1, <2>2, <2>3, <2>4, <2>5 DEF Wanted
<1> QED
  BY <1>2, <1>3, <1>4, <1>5, <1>6, <1>7, <1>9

\* At the end every page has been mapped.
LEMMA AllReached ==
  ASSUME IInv, pc = "usable", NEW p,
         p \in LowWindow \cup (0 .. Low1M - 1) \cup Image \cup Database \/ FirmwarePage(p)
  PROVE  Reached(p)
<1>1. CASE p \in LowWindow \cup (0 .. Low1M - 1) \cup Image \cup Database
  <2>1. p \in 0 .. Low1M - 1 => p < Low1M
    BY NumbersAssumption
  <2> QED
    BY <1>1, <2>1 DEF Reached
<1>2. CASE FirmwarePage(p)
  <2>1. PICK n \in 1 .. map_count : Mapped(Told(n)) /\ p \in Area(n)
    BY <1>2 DEF FirmwarePage
  <2>2. /\ i = map_count + 1 /\ i \in Nat /\ map_count \in Nat
        /\ i > 1 /\ Mapped(Told(i - 1)) => job.page = Told(i - 1).end
    BY DEF IInv, Job, Types
  <2>3. n < i - 1 \/ n = i - 1
    BY <2>1, <2>2
  <2>4. n = i - 1 => p < job.page
    <3> SUFFICES ASSUME n = i - 1 PROVE p < job.page
      OBVIOUS
    <3>1. job.page = Told(n).end
      BY <2>1, <2>2
    <3>2. Told(n).begin \in Nat /\ Told(n).end \in Nat
      BY MapFacts DEF IInv
    <3> QED
      BY <2>1, <3>1, <3>2 DEF Area
  <2> QED
    BY <2>1, <2>3, <2>4 DEF Reached
<1> QED
  BY <1>1, <1>2

LEMMA ExactFrames ==
  ASSUME FirmwareApart, IInv, pc \in Running, NEW p, NEW f, Wanted(p, f)
  PROVE  /\ p \in Page
         /\ WalkIn(mem, dir, p) \in {f} \cup (IF pc = "usable" THEN {} ELSE {NotPresent}) \/ Off(p)
<1>1. /\ Types /\ cr3 = dir /\ Tree(mem, dir) /\ mem \in Memory
      /\ \A q \in Page : Slot(q) # Self /\ ~Off(q) =>
           WalkIn(mem, dir, q) = NotPresent \/ Meant(q, WalkIn(mem, dir, q))
      /\ \A q \in Page : Reached(q) => WalkIn(mem, dir, q) # NotPresent
  BY RunFacts DEF IInv, Mapping
<1>2. /\ KernelSlot \in Nat /\ Self \in Nat /\ 0 < KernelSlot /\ KernelSlot < Self
  BY Layout DEF Entry
<1>3. CASE \E s \in Entry : p = TableWindow(s) /\ f = mem[cr3][s]
  <2>1. PICK s \in Entry : p = TableWindow(s) /\ f = mem[cr3][s]
    BY <1>3
  <2>2. WalkIn(mem, dir, p) = f /\ p \in Page
    BY <1>1, <2>1, WalkValue, Regions
  <2> QED
    BY <2>2
<1>4. ASSUME p \in LowWindow \cup (0 .. Low1M - 1) \cup Image \/ FirmwarePage(p),
             p \in Page, Slot(p) # Self, \A g : Meant(p, g) => g = f
      PROVE  WalkIn(mem, dir, p) \in {f} \cup (IF pc = "usable" THEN {} ELSE {NotPresent}) \/ Off(p)
  <2>1. Off(p) \/ WalkIn(mem, dir, p) = NotPresent \/ WalkIn(mem, dir, p) = f
    BY <1>1, <1>4
  <2>2. pc = "usable" => WalkIn(mem, dir, p) # NotPresent
    <3>1. pc = "usable" => Reached(p)
      BY <1>4, AllReached
    <3> QED
      BY <1>1, <1>4, <3>1
  <2> QED
    BY <2>1, <2>2
<1>5. CASE p \in LowWindow /\ f = p - PageLow1MBase
  <2>1. p \in Page /\ Slot(p) # Self
    BY <1>5, DatabasePages
  <2>2. \A g : Meant(p, g) => g = f
    BY <1>5, <2>1, OwnPages
  <2> QED
    BY <1>4, <1>5, <2>1, <2>2
<1>6. CASE p \in 0 .. Low1M - 1 /\ f = p
  <2>1. p \in Page /\ Slot(p) # Self
    BY <1>2, <1>6, Regions
  <2>2. \A g : Meant(p, g) => g = f
    BY <1>6, <2>1, OwnPages
  <2> QED
    BY <1>4, <1>6, <2>1, <2>2
<1>7. CASE p \in Image /\ f = Low1M + p - KernelBase
  <2>1. p \in Page /\ Slot(p) # Self
    <3>1. p \in KernelBase .. PageTableBase - 1
      BY <1>1, <1>7, Given
    <3> QED
      BY <1>2, <3>1, Regions
  <2>2. \A g : Meant(p, g) => g = f
    BY <1>7, <2>1, OwnPages
  <2> QED
    BY <1>4, <1>7, <2>1, <2>2
<1>9. CASE FirmwarePage(p) /\ f = p
  <2>1. p \in Page /\ Slot(p) # Self
    <3>1. PICK n \in 1 .. map_count : Mapped(Told(n)) /\ p \in Area(n)
      BY <1>9 DEF FirmwarePage
    <3> QED
      BY <1>1, <3>1, AreaPages
  <2>2. \A g : Meant(p, g) => g = f
    BY <1>9, <2>1, OwnPages
  <2> QED
    BY <1>4, <1>9, <2>1, <2>2
<1>8. p \in Page
  <2>1. p \in LowWindow \/ p \in 0 .. Low1M - 1 \/ p \in Image \/ FirmwarePage(p) \/ (\E s \in Entry : p = TableWindow(s))
    BY DEF Wanted
  <2>2. p \in Image => p \in KernelBase .. PageTableBase - 1
    BY <1>1, Given
  <2>3. FirmwarePage(p) => p \in Page
    <3> SUFFICES ASSUME FirmwarePage(p) PROVE p \in Page
      OBVIOUS
    <3>1. PICK n \in 1 .. map_count : Mapped(Told(n)) /\ p \in Area(n)
      BY DEF FirmwarePage
    <3> QED
      BY <1>1, <3>1, AreaPages
  <2> QED
    BY <2>1, <2>2, <2>3, DatabasePages, Regions
<1> QED
  BY <1>3, <1>5, <1>6, <1>7, <1>9, <1>8 DEF Wanted

\* The database's frames are nobody else's.
LEMMA DatabaseFrames ==
  ASSUME FirmwareApart, IInv, pc = "usable", NEW p \in Database
  PROVE  /\ WalkIn(mem, dir, p) # NotPresent
         /\ \A q \in Database : p # q => WalkIn(mem, dir, p) # WalkIn(mem, dir, q)
         /\ \A q, f : Wanted(q, f) => WalkIn(mem, dir, p) # f
<1> DEFINE g == WalkIn(mem, dir, p)
<1>1. /\ Types /\ pc \in Running /\ cr3 = dir /\ Tree(mem, dir) /\ mem \in Memory
      /\ frame_min \in Nat /\ Top \in Nat
  <2>1. pc \in Running
    BY DEF Running
  <2> QED
    BY <2>1, RunFacts
<1>2. ~fresh /\ \A q : ~Off(q)
  <2>1. ~fresh
    <3>1. job.left = 0
      BY DEF IInv, Job
    <3> QED
      BY <1>1, <3>1, RunFacts DEF IInv, Mapping
  <2> QED
    BY <2>1 DEF Off
<1>3. p \in Page /\ g # NotPresent
  <2>1. p \in Page /\ Reached(p)
    BY DatabasePages, AllReached
  <2> QED
    BY <1>1, <2>1 DEF IInv, Mapping
<1>4. /\ Top <= g /\ g < frame_min /\ Unused(mem, dir, g) /\ g \in Nat
      /\ \A q \in Database \ {p} : WalkIn(mem, dir, q) # g
  <2>1. g \in Nat
    BY <1>1, <1>3, WalkValue DEF Value
  <2> QED
    BY <1>1, <1>2, <1>3, <2>1 DEF IInv, Stored
<1>5. frame_min <= Top + Entries + DbPages
  <2>1. frame_min + Cardinality(Absent(mem, dir)) <= Top + Entries + DbPages
    BY <1>1 DEF IInv, NewFrames
  <2>2. Cardinality(Absent(mem, dir)) \in Nat /\ Entries \in Nat /\ DbPages \in Nat
    BY AbsentCount, NumbersAssumption
  <2> QED
    BY <1>1, <2>1, <2>2
<1> HIDE DEF g
<1>6. ASSUME NEW q, NEW f, Wanted(q, f) PROVE g # f
  <2>1. /\ Low1M \in Nat /\ PageLow1MBase \in Nat /\ KernelBase \in Nat /\ image \in Nat
        /\ Entries \in Nat /\ DbPages \in Nat /\ Top = Low1M + image
    BY <1>1, Given, NumbersAssumption DEF Top
  <2>2. CASE \E s \in Entry : q = TableWindow(s) /\ f = mem[cr3][s]
    BY <1>1, <1>4, <2>2 DEF Unused
  <2>3. CASE q \in LowWindow /\ f = q - PageLow1MBase
    BY <1>4, <2>1, <2>3 DEF LowWindow
  <2>4. CASE q \in 0 .. Low1M - 1 /\ f = q
    BY <1>4, <2>1, <2>4
  <2>5. CASE q \in Image /\ f = Low1M + q - KernelBase
    BY <1>4, <2>1, <2>5 DEF Image
  <2>6. CASE FirmwarePage(q) /\ f = q
    <3>1. PICK n \in 1 .. map_count : Mapped(Told(n)) /\ q \in Area(n)
      BY <2>6 DEF FirmwarePage
    <3>2. n \in DOMAIN machine.map /\ Told(n) = machine.map[n] /\ machine \in Machines /\ image \in Images
      BY <1>1, <3>1, MapFacts DEF Types
    <3>3. q \notin Low1M + image .. Low1M + image + Entries + DbPages - 1
      BY <3>1, <3>2 DEF FirmwareApart, Area
    <3>4. g \in Low1M + image .. Low1M + image + Entries + DbPages - 1
      BY <1>1, <1>4, <1>5, <2>1
    <3> QED
      BY <2>6, <3>3, <3>4
  <2> QED
    BY <1>6, <2>2, <2>3, <2>4, <2>5, <2>6 DEF Wanted
<1> QED
  BY <1>3, <1>4, <1>6 DEF g

\* The tables the kernel ends up with translate low memory twice, the image,
\* the database to frames of its own, the tables themselves and all firmware of
\* a memory map whose end is told in time, and nothing else.
THEOREM TablesAreExact ==
  ASSUME FirmwareApart
  PROVE  Spec => []TablesExact
<1>1. IInv => TablesExact
  <2> SUFFICES ASSUME IInv, Rebuilt
               PROVE  TablesExact
    BY DEF TablesExact
  <2> DEFINE meant == Windows \cup Firmware
             pages == {pair[1] : pair \in meant}
  <2>1. /\ pc \in Running /\ cr3 = dir /\ \A p : Walk(p) = WalkIn(mem, dir, p)
        /\ \A p \in Page : Slot(p) # Self /\ ~Off(p) =>
             WalkIn(mem, dir, p) = NotPresent \/ Meant(p, WalkIn(mem, dir, p))
    <3>1. pc \in Running /\ cr3 = dir
      BY InForce DEF Rebuilt
    <3> QED
      BY <3>1, RunFacts DEF IInv, Mapping
  <2>2. /\ \A pair \in meant : Wanted(pair[1], pair[2])
        /\ \A p, f : Wanted(p, f) => \E pair \in meant : pair[1] = p
    BY <2>1, Pairs
  <2> HIDE DEF meant
  <2>3. ASSUME NEW pair \in meant
        PROVE  Walk(pair[1]) \in {pair[2]} \cup (IF pc = "usable" THEN {} ELSE {NotPresent})
               \/ (fresh /\ Slot(pair[1]) = Slot(job.page))
    <3>1. Wanted(pair[1], pair[2])
      BY <2>2
    <3>2. WalkIn(mem, dir, pair[1]) \in {pair[2]} \cup (IF pc = "usable" THEN {} ELSE {NotPresent}) \/ Off(pair[1])
      BY <2>1, <3>1, ExactFrames
    <3> QED
      BY <2>1, <3>2 DEF Off
  <2>4. ASSUME NEW p \in Page \ (pages \cup Database)
        PROVE  Walk(p) = NotPresent \/ (fresh /\ Slot(p) = Slot(job.page))
    <3>1. \A f : ~Wanted(p, f)
      BY <2>2, <2>4
    <3>2. Slot(p) # Self
      <4> SUFFICES ASSUME Slot(p) = Self PROVE FALSE
        OBVIOUS
      <4>1. Index(p) \in Entry /\ TableWindow(Index(p)) = p
        BY OfPage, Layout DEF TableWindow
      <4>2. Wanted(p, mem[cr3][Index(p)])
        BY <4>1 DEF Wanted
      <4> QED
        BY <3>1, <4>2
    <3>3. \A f : ~Meant(p, f)
      <4> SUFFICES ASSUME NEW f, Meant(p, f) PROVE FALSE
        OBVIOUS
      <4>1. p \in Nat
        BY NumbersAssumption DEF Page
      <4>2. p < Low1M => p \in 0 .. Low1M - 1
        BY <4>1, NumbersAssumption
      <4> QED
        BY <2>4, <3>1, <4>2 DEF Meant, Wanted
    <3> QED
      BY <2>1, <3>2, <3>3 DEF Off
  <2>5. ASSUME pc = "usable"
        PROVE  /\ \A p, q \in Database : p # q => Walk(p) # Walk(q)
               /\ \A p \in Database : Walk(p) \notin {pair[2] : pair \in meant} \cup {NotPresent}
    <3>1. \A p, q \in Database : p # q => Walk(p) # Walk(q)
      BY <2>1, <2>5, DatabaseFrames
    <3>2. ASSUME NEW p \in Database, NEW pair \in meant PROVE Walk(p) # pair[2]
      BY <2>1, <2>2, <2>5, DatabaseFrames
    <3>3. \A p \in Database : Walk(p) # NotPresent
      BY <2>1, <2>5, DatabaseFrames
    <3> QED
      BY <3>1, <3>2, <3>3
  <2> QED
    BY <2>3, <2>4, <2>5 DEF TablesExact, meant
<1> QED
  BY <1>1, Invariant, PTL

===============================================================================
