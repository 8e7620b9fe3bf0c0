------------------------------- MODULE BootPaging -------------------------------
(***************************************************************************)
(* From the second loader's page tables to the kernel's: OsLoader's        *)
(* startup_page_mode, the BIOS memory map read in real mode, and           *)
(* PAGER::Init, which builds new tables through two temporary pages of its *)
(* own image, switches to them and goes on through their self-map.         *)
(*                                                                         *)
(* Physical memory, the walk of the tables and the TLB are modelled: a     *)
(* frame is an array of Entries entries, an entry is a frame number or     *)
(* NotPresent, a page is its number.  Access rights are left out.  A page  *)
(* fault stops the model.                                                  *)
(***************************************************************************)
EXTENDS Integers, Sequences

CONSTANTS
  Frames,          \* frames of RAM
  Entries,         \* entries of a table (1024)
  Low1M,           \* frames below 1 MB; KERNEL_START_PA
  PAGE_DIR_PA, PT_LOW1M_PA, PT_KERNEL_PA,  \* frames of the loader's tables
  LoaderPages,     \* pages the loader maps for the kernel: MB(8)
  Images,          \* sizes of the kernel image
  TmpDir, TmpTable,  \* the pages tmp_page_dir and tmp_page_table
  Stack,           \* the page of the boot stack
  KernelBase, PageTableBase, PageFrameBase, PageLow1MBase,  \* kernel.h, in pages
  DbPages,         \* SIZE_TO_PAGES(MB(1)), for the frame database
  MAX_MEM_MAP,
  Machines         \* what int 15h, E820 answers: its entries, and how the list
                   \* ends: ebx = 0 with the last entry, or carry on the next
                   \* call, which leaves ebx alone or sets it to 0

ASSUME NumbersAssumption ==
  /\ Frames \in Nat /\ Entries \in Nat \ {0} /\ Low1M \in Nat \ {0}
  /\ PAGE_DIR_PA \in Nat \ {0} /\ PT_LOW1M_PA \in Nat /\ PT_KERNEL_PA \in Nat
  /\ LoaderPages \in Nat \ {0} /\ TmpDir \in Nat /\ TmpTable \in Nat /\ Stack \in Nat
  /\ KernelBase \in Nat \ {0} /\ PageTableBase \in Nat /\ PageFrameBase \in Nat
  /\ PageLow1MBase \in Nat /\ DbPages \in Nat /\ MAX_MEM_MAP \in Nat \ {0}

\* kernel.h and OsLoader/mmu.h: the loader's tables lie in low memory, which one
\* table maps; the kernel, the self-map, the database and the window on low
\* memory lie in this order.
ASSUME LayoutAssumption ==
  /\ Low1M <= Entries
  /\ PAGE_DIR_PA < PT_LOW1M_PA /\ PT_LOW1M_PA < PT_KERNEL_PA
  /\ PT_KERNEL_PA + (LoaderPages - 1) \div Entries < Low1M
  /\ KernelBase % Entries = 0 /\ PageTableBase % Entries = 0
  /\ KernelBase + LoaderPages <= PageTableBase /\ PageTableBase + Entries <= PageFrameBase
  /\ PageFrameBase + DbPages <= PageLow1MBase /\ PageLow1MBase + Low1M <= Entries * Entries

\* The temporary pages are pages of every kernel image, and RAM has room for
\* the image, its tables and the database.
ASSUME ImagesAssumption ==
  /\ TmpDir # TmpTable
  /\ \A size \in Images :
       /\ size \in Nat /\ size <= LoaderPages
       /\ {TmpDir, TmpTable} \subseteq KernelBase .. KernelBase + size - 1
       /\ Low1M + size + Entries + DbPages <= Frames

ASSUME MachinesAssumption ==
  \A m \in Machines :
    /\ m.map \in Seq([begin : Nat, end : Nat, type : STRING]) /\ m.last \in {"zero", "carry", "carry_zero"}
    /\ \A n \in DOMAIN m.map : m.map[n].begin <= m.map[n].end

VARIABLES
  machine, image,  \* the machine and the kernel
  mem,             \* physical memory
  cr3, paging,     \* registers
  tlb,             \* translations the processor remembers
  pc,              \* where the program stands
  i,               \* its loop index
  dir, table,      \* new_page_dir, and the table being filled
  frame_min,       \* m_page_frame_min
  job,             \* the pages the running map_pages has left
  fresh,           \* TRUE between SET_PDE and memset of new_page_table
  ebx, map_count   \* get_mem_info

vars == <<machine, image, mem, cr3, paging, tlb, pc, i, dir, table, frame_min, job, fresh, ebx, map_count>>
biosVars == <<ebx, map_count>>
given == <<machine, image>>

Frame == 0 .. Frames - 1
Entry == 0 .. Entries - 1
Page == 0 .. Entries * Entries - 1
NotPresent == -1
Empty == [e \in Entry |-> NotPresent]
Junk == [e \in Entry |-> 0]  \* what a frame holds that nobody has cleared
NoJob == [frame |-> 0, page |-> 0, left |-> 0]

Slot(page) == page \div Entries
Index(page) == page % Entries

Init ==
  /\ machine \in Machines /\ image \in Images
  /\ mem = [f \in Frame |-> Junk]
  /\ cr3 = 0 /\ paging = FALSE /\ tlb = <<>>
  /\ pc = "loader" /\ i = 0
  /\ dir = 0 /\ table = 0 /\ frame_min = Low1M + image
  /\ job = NoJob /\ fresh = FALSE
  /\ ebx = 0 /\ map_count = 0

-------------------------------------------------------------------------------
(* The processor *)

WalkFrom(root, page) ==
  LET t == mem[root][Slot(page)] IN IF t = NotPresent THEN NotPresent ELSE mem[t][Index(page)]
Walk(page) == IF paging THEN WalkFrom(cr3, page) ELSE page

\* An access uses the tables or what the TLB still holds.
Translations(page) == {Walk(page)} \cup {tlb[p] : p \in DOMAIN tlb \cap {page}}
Present(page) == Translations(page) \ {NotPresent}
Cached(page, f) == [p \in DOMAIN tlb \cup {page} |-> IF p = page THEN f ELSE tlb[p]]
invlpg(t, page) == [p \in DOMAIN t \ {page} |-> t[p]]

\* The page of the self-map that shows the table of a slot.
TableWindow(slot) == PageTableBase + slot

-------------------------------------------------------------------------------
(* OsLoader: startup_page_mode, without paging *)

LoaderDirectory ==
  /\ pc = "loader"
  /\ mem' = [mem EXCEPT
       ![PAGE_DIR_PA] = [Empty EXCEPT ![Slot(PageTableBase)] = PAGE_DIR_PA, ![0] = PT_LOW1M_PA,
                                      ![Slot(KernelBase)] = PT_KERNEL_PA],
       ![PT_LOW1M_PA] = [e \in Entry |-> IF e < Low1M THEN e ELSE NotPresent],
       ![PT_KERNEL_PA] = Empty]
  /\ table' = PT_KERNEL_PA
  /\ pc' = "map" /\ i' = 0
  /\ UNCHANGED <<given, cr3, paging, tlb, dir, frame_min, job, fresh, biosVars>>

\* One page of map_pages; the next table is the next frame.
LoaderMap ==
  LET page == KernelBase + i
      new == mem[PAGE_DIR_PA][Slot(page)] = NotPresent
  IN /\ pc = "map" /\ i < LoaderPages
     /\ table' = IF new THEN table + 1 ELSE table
     /\ mem' = [mem EXCEPT
          ![PAGE_DIR_PA][Slot(page)] = IF new THEN table' ELSE @,
          ![table'] = [(IF new THEN Empty ELSE @) EXCEPT ![Index(page)] = Low1M + i]]
     /\ i' = i + 1
     /\ UNCHANGED <<given, cr3, paging, tlb, pc, dir, frame_min, job, fresh, biosVars>>

StartPaging ==
  /\ pc = "map" /\ i = LoaderPages
  /\ cr3' = PAGE_DIR_PA /\ paging' = TRUE
  /\ pc' = "e820" /\ i' = 0
  /\ UNCHANGED <<given, mem, tlb, dir, table, frame_min, job, fresh, biosVars>>

-------------------------------------------------------------------------------
(* BIOS::get_mem_info: int 15h in real mode, with paging off *)

callbios ==
  /\ pc = "e820"
  /\ paging' = FALSE /\ pc' = "real"
  /\ UNCHANGED <<given, mem, cr3, tlb, i, dir, table, frame_min, job, fresh, biosVars>>

\* The BIOS gives one entry for a continuation value, and the next value; after
\* the last entry it sets carry and writes nothing.
Int15 ==
  /\ pc = "real" /\ pc' = "answered"
  /\ \/ /\ ebx < Len(machine.map)
        /\ ebx' = IF ebx + 1 = Len(machine.map) /\ machine.last = "zero" THEN 0 ELSE ebx + 1
     \/ ebx = Len(machine.map) /\ ebx' = IF machine.last = "carry" THEN ebx ELSE 0
  /\ UNCHANGED <<given, mem, cr3, paging, tlb, i, dir, table, frame_min, job, fresh, map_count>>

\* Mutant: the loop's bound is taken for the number of entries.
Answered_bound ==
  \/ ebx = 0 /\ map_count' = i + 1 /\ pc' = "rebuild" /\ i' = 0
  \/ /\ ebx # 0
     /\ IF i + 1 = MAX_MEM_MAP THEN pc' = "rebuild" /\ map_count' = MAX_MEM_MAP /\ i' = 0
                               ELSE pc' = "e820" /\ i' = i + 1 /\ UNCHANGED map_count

\* The loop of get_mem_info goes by ebx alone: callbios clears the carry flag
\* (xor sp, sp) before it stores the flags, so the caller's jc never sees it.
\* map_count is set by the call that answers 0.
Answered ==
  \/ ebx = 0 /\ map_count' = i + 1 /\ pc' = "rebuild" /\ i' = 0
  \/ /\ ebx # 0
     /\ IF i + 1 = MAX_MEM_MAP THEN pc' = "rebuild" /\ i' = 0 ELSE pc' = "e820" /\ i' = i + 1
     /\ UNCHANGED map_count

\* Back in protected mode; loading CR0 empties the TLB.
BackToProtected ==
  /\ pc = "answered"
  /\ paging' = TRUE /\ tlb' = <<>>
  /\ Answered
  /\ UNCHANGED <<given, mem, cr3, dir, table, frame_min, job, fresh, ebx>>

-------------------------------------------------------------------------------
(* PAGER::rebuild_os_page_table *)

\* Mutant: the old translation stays in the TLB (the mistake of paging.cpp:49).
MAP_PAGE_stale(frame, page) ==
  \E t \in Present(TableWindow(Slot(page))) :
    /\ mem' = [mem EXCEPT ![t][Index(page)] = frame]
    /\ tlb' = Cached(TableWindow(Slot(page)), t)

\* MAP_PAGE(page_pa, page_va), through the self-map.
MAP_PAGE(frame, page) ==
  \E t \in Present(TableWindow(Slot(page))) :
    /\ mem' = [mem EXCEPT ![t][Index(page)] = frame]
    /\ tlb' = invlpg(Cached(TableWindow(Slot(page)), t), page)

NewDirectory ==
  /\ pc = "rebuild"
  /\ MAP_PAGE(frame_min, TmpDir)
  /\ dir' = frame_min /\ frame_min' = frame_min + 1 /\ pc' = "clear"
  /\ UNCHANGED <<given, cr3, paging, i, table, job, fresh, biosVars>>

ClearDirectory ==
  /\ pc = "clear"
  /\ \E d \in Present(TmpDir) :
       /\ mem' = [mem EXCEPT ![d] = [Empty EXCEPT ![Slot(PageTableBase)] = dir]]
       /\ tlb' = Cached(TmpDir, d)
  /\ pc' = "low"
  /\ UNCHANGED <<given, cr3, paging, i, dir, table, frame_min, job, fresh, biosVars>>

\* A frame for a table, shown at tmp_page_table.
NewTable ==
  /\ MAP_PAGE(frame_min, TmpTable)
  /\ table' = frame_min /\ frame_min' = frame_min + 1

LowTable ==
  /\ pc = "low" /\ NewTable /\ pc' = "fill"
  /\ UNCHANGED <<given, cr3, paging, i, dir, job, fresh, biosVars>>

\* tmp_page_table gets contents, the directory an entry for it.
Fill(slot, contents) ==
  \E t \in Present(TmpTable) :
    /\ \E d \in Present(TmpDir) : mem' = [mem EXCEPT ![t] = contents, ![d][slot] = table]
    /\ tlb' = Cached(TmpTable, t)

FillLow ==
  /\ pc = "fill"
  /\ Fill(0, [e \in Entry |-> IF e < Low1M THEN e ELSE NotPresent])
  /\ pc' = "image" /\ i' = 0
  /\ UNCHANGED <<given, cr3, paging, dir, table, frame_min, job, fresh, biosVars>>

\* Mutant: the image is taken to fit in one table (the assumption of paging.cpp:73).
Lacks_first(page) == page = KernelBase /\ \E d \in Present(TmpDir) : mem[d][Slot(page)] = NotPresent

\* Does the directory under construction lack a table for the page?
Lacks(page) == \E d \in Present(TmpDir) : mem[d][Slot(page)] = NotPresent

ImageTable ==
  /\ pc = "image" /\ i < image /\ Lacks(KernelBase + i)
  /\ NewTable /\ pc' = "table"
  /\ UNCHANGED <<given, cr3, paging, i, dir, job, fresh, biosVars>>

ClearTable ==
  /\ pc = "table"
  /\ Fill(Slot(KernelBase + i), Empty)
  /\ pc' = "image"
  /\ UNCHANGED <<given, cr3, paging, i, dir, table, frame_min, job, fresh, biosVars>>

MapImage ==
  /\ pc = "image" /\ i < image /\ ~Lacks(KernelBase + i)
  /\ \E t \in Present(TmpTable) :
       /\ mem' = [mem EXCEPT ![t][Index(KernelBase + i)] = Low1M + i]
       /\ tlb' = Cached(TmpTable, t)
  /\ i' = i + 1
  /\ UNCHANGED <<given, cr3, paging, pc, dir, table, frame_min, job, fresh, biosVars>>

\* CR3 is loaded, which empties the TLB; then map_pages(0, PAGE_LOW1M_BASE, MB(1)).
LoadCr3 ==
  /\ pc = "image" /\ i = image
  /\ cr3' = dir /\ tlb' = <<>>
  /\ job' = [frame |-> 0, page |-> PageLow1MBase, left |-> Low1M]
  /\ pc' = "window"
  /\ UNCHANGED <<given, mem, paging, i, dir, table, frame_min, fresh, biosVars>>

-------------------------------------------------------------------------------
(* PAGER::map_pages on the running tables *)

DirWindow == TableWindow(Slot(PageTableBase))  \* PAGE_DIR_BASE
Pde(slot) == {mem[d][slot] : d \in Present(DirWindow)}  \* GET_PDE

\* new_page_table: SET_PDE, then memset of the new table through the self-map.
SetPde ==
  /\ job.left > 0 /\ NotPresent \in Pde(Slot(job.page)) /\ fresh' = TRUE
  /\ \E d \in Present(DirWindow) :
       /\ mem' = [mem EXCEPT ![d][Slot(job.page)] = frame_min]
       /\ tlb' = Cached(DirWindow, d)
  /\ frame_min' = frame_min + 1
  /\ UNCHANGED <<given, cr3, paging, pc, i, dir, table, job, biosVars>>

new_page_table ==
  /\ fresh /\ fresh' = FALSE
  /\ \E t \in Present(TableWindow(Slot(job.page))) :
       /\ mem' = [mem EXCEPT ![t] = Empty]
       /\ tlb' = Cached(TableWindow(Slot(job.page)), t)
  /\ UNCHANGED <<given, cr3, paging, pc, i, dir, table, frame_min, job, biosVars>>

\* SET_PTE; its invlpg names the local variable va, which is on the stack.
map_pages ==
  /\ job.left > 0 /\ ~fresh /\ NotPresent \notin Pde(Slot(job.page))
  /\ \E t \in Present(TableWindow(Slot(job.page))) :
       /\ mem' = [mem EXCEPT ![t][Index(job.page)] = job.frame]
       /\ tlb' = invlpg(Cached(TableWindow(Slot(job.page)), t), Stack)
  /\ job' = [frame |-> job.frame + 1, page |-> job.page + 1, left |-> job.left - 1]
  /\ UNCHANGED <<given, cr3, paging, pc, i, dir, table, frame_min, fresh, biosVars>>

-------------------------------------------------------------------------------
(* PAGER::create_page_frame_db *)

MapDatabase ==
  /\ pc = "window" /\ job.left = 0
  /\ job' = [frame |-> frame_min, page |-> PageFrameBase, left |-> DbPages]
  /\ frame_min' = frame_min + DbPages
  /\ pc' = "database"
  /\ UNCHANGED <<given, mem, cr3, paging, tlb, i, dir, table, fresh, biosVars>>

Database == PageFrameBase .. PageFrameBase + DbPages - 1

ClearDatabase ==
  /\ pc = "database" /\ job.left = 0
  /\ mem' = [f \in Frame |-> IF \E p \in Database : f \in Present(p) THEN Junk ELSE mem[f]]
  /\ tlb' = [p \in DOMAIN tlb \cup Database |-> IF p \in Database THEN Walk(p) ELSE tlb[p]]
  /\ pc' = "scan" /\ i' = 1
  /\ UNCHANGED <<given, cr3, paging, dir, table, frame_min, job, fresh, biosVars>>

\* mem_maps[n - 1]; a call that failed leaves its entry cleared.
Told(n) == IF n \in DOMAIN machine.map THEN machine.map[n]
           ELSE [begin |-> 0, end |-> 0, type |-> "NONE"]

\* Firmware is mapped where it lies, unless it ends below 1 MB or starts above
\* 4 GB; marking frames is the subject of PageFrames.
Mapped(e) == e.type \in {"ACPI", "NVS"} /\ e.end >= Low1M /\ e.begin < Entries * Entries

ScanEntry ==
  /\ pc = "scan" /\ job.left = 0 /\ i <= map_count
  /\ LET e == Told(i) IN
     job' = IF Mapped(e) THEN [frame |-> e.begin, page |-> e.begin, left |-> e.end - e.begin] ELSE NoJob
  /\ i' = i + 1
  /\ UNCHANGED <<given, mem, cr3, paging, tlb, pc, dir, table, frame_min, fresh, biosVars>>

Usable ==
  /\ pc = "scan" /\ job.left = 0 /\ i > map_count
  /\ pc' = "usable"
  /\ UNCHANGED <<given, mem, cr3, paging, tlb, i, dir, table, frame_min, job, fresh, biosVars>>

Done == pc = "usable" /\ UNCHANGED vars

Next ==
  \/ LoaderDirectory \/ LoaderMap \/ StartPaging
  \/ callbios \/ Int15 \/ BackToProtected
  \/ NewDirectory \/ ClearDirectory \/ LowTable \/ FillLow \/ ImageTable \/ ClearTable \/ MapImage \/ LoadCr3
  \/ SetPde \/ new_page_table \/ map_pages
  \/ MapDatabase \/ ClearDatabase \/ ScanEntry \/ Usable
  \/ Done

Spec == Init /\ [][Next]_vars

-------------------------------------------------------------------------------
(* Properties *)

\* Firmware lies apart from the kernel's image and windows, and from the frames
\* the kernel takes at boot; the code does not look.
FirmwareApart ==
  \A m \in Machines, size \in Images : \A n \in DOMAIN m.map :
    Mapped(m.map[n]) => \A p \in m.map[n].begin .. m.map[n].end - 1 :
      /\ p \in Page /\ p \notin KernelBase .. KernelBase + size - 1
      /\ p \notin PageTableBase .. PageLow1MBase + Low1M - 1
      /\ p \notin Low1M + size .. Low1M + size + Entries + DbPages - 1

Image == KernelBase .. KernelBase + image - 1
Rebuilt == paging /\ cr3 = dir

\* Whenever paging is on, low memory (stack, screen, the code callbios copies
\* there) and the kernel's image lie where they lay, for the tables and for the
\* TLB, across the switch of tables; only the two temporary pages, while the
\* new tables are built, show other frames.
RunsOn ==
  paging =>
    /\ \A p \in 0 .. Low1M - 1 : Translations(p) = {p}
    /\ \A p \in Image : (Rebuilt \/ p \notin {TmpDir, TmpTable}) =>
                          Translations(p) = {Low1M + p - KernelBase}

\* The TLB never holds a translation the tables no longer make: what the kernel
\* writes through a temporary page or the self-map goes to the frame it means.
TlbCoherent == \A p \in DOMAIN tlb : paging => tlb[p] = Walk(p)

Windows ==
  {<<PageLow1MBase + n, n>> : n \in 0 .. Low1M - 1} \cup {<<n, n>> : n \in 0 .. Low1M - 1}
  \cup {<<p, Low1M + p - KernelBase>> : p \in Image}
  \cup {<<PageTableBase + s, mem[cr3][s]>> : s \in Entry}
\* The firmware tells the end of its list by ebx = 0 in one of the calls made.
Complete == CASE machine.last = "zero" -> Len(machine.map) <= MAX_MEM_MAP
              [] machine.last = "carry_zero" -> Len(machine.map) < MAX_MEM_MAP
              [] machine.last = "carry" -> FALSE
Firmware ==
  IF ~Complete THEN {}
  ELSE UNION {{<<p, p>> : p \in e.begin .. e.end - 1} : e \in {x \in {machine.map[n] : n \in DOMAIN machine.map} : Mapped(x)}}

\* The tables the kernel ends up with translate low memory twice, the image,
\* the frame database, the tables themselves and all firmware areas of a memory
\* map whose end is told within MAX_MEM_MAP calls, and nothing else.  Of a map
\* whose end is not told in time no area is translated: the kernel has lost it,
\* and works on.  On the way they never translate anything else, but for a table
\* that is about to be cleared.
TablesExact ==
  Rebuilt =>
    LET meant == Windows \cup Firmware
        pages == {pair[1] : pair \in meant}
    IN /\ \A pair \in meant : Walk(pair[1]) \in {pair[2]} \cup (IF pc = "usable" THEN {} ELSE {NotPresent})
                               \/ (fresh /\ Slot(pair[1]) = Slot(job.page))
       /\ \A p \in Page \ (pages \cup Database) : Walk(p) = NotPresent \/ (fresh /\ Slot(p) = Slot(job.page))
       /\ pc = "usable" => /\ \A p, q \in Database : p # q => Walk(p) # Walk(q)
                           /\ \A p \in Database : Walk(p) \notin {pair[2] : pair \in meant} \cup {NotPresent}

===============================================================================
