----------------------------- MODULE KernelMemory -----------------------------
(***************************************************************************)
(* The kernel's memory, from boot to heap: PAGER::Init (PageFrames), then  *)
(* SYSTEM::init_kernel_mmu, SYSTEM::alloc_stack and the liballoc hooks on  *)
(* top of MMU (KernelSpace), with the page tables between the two          *)
(* allocators.  map_pages and unmap_pages handle one page per step.        *)
(*                                                                         *)
(* Translations made while booting (image, windows) are not in pte: their  *)
(* blocks are the windows init_kernel_mmu reserves.  But the page tables   *)
(* are reached through one of these windows, and the entry of a page of    *)
(* that window is an entry of the page directory: an allocation that runs  *)
(* into the window changes which page table a whole slot has.              *)
(* What programs store in frames is not modelled.                          *)
(***************************************************************************)
EXTENDS Integers, FiniteSets, Sequences

CONSTANTS
  Frames, PageBytes, Low1M, ImagePages, DbPages, TableSpan,  \* see PageFrames
  KernelBase, PageTableBase, PageFrameBase, PageLow1MBase, MemMaps,
  Total,        \* blocks of the kernel's address space, from KernelBase on
  StackPages,   \* SYSTEM_STACK_SIZE in pages
  HeapRequests  \* pages liballoc asks for

ASSUME KernelMemoryAssumption ==
  /\ Frames \in Nat /\ Total \in Nat /\ {KernelBase, PageTableBase, TableSpan} \subseteq Nat
  /\ StackPages \in Nat \ {0, 1}          \* two guards
  /\ HeapRequests \subseteq Nat \ {0}

\* kernel.h: every table has a page in the window, the database follows the
\* window, the low megabyte the database; the stack is smaller than 1 MB.
ASSUME LayoutAssumption ==
  /\ Frames = TableSpan * TableSpan /\ KernelBase + Total = Frames
  /\ PageTableBase >= KernelBase /\ PageTableBase % TableSpan = 0
  /\ PageFrameBase = PageTableBase + TableSpan /\ PageLow1MBase = PageFrameBase + DbPages
  /\ StackPages <= Low1M

VARIABLES
  mem_maps, phase, entry, page_frame_min, page_frame_max,      \* PAGER
  page_frame_database, next_free_page_frame, pde,
  block_map, next_free_block,                                  \* MMU
  pte,       \* block -> frame its page-table entry names, NotPresent or Foreign
  overwritten, \* directory slots whose table was replaced through the window
  step,      \* where SYSTEM::Init stands
  window,    \* next window init_kernel_mmu reserves
  todo,      \* the pages the current map_pages or unmap_pages has left
  stack,     \* blocks alloc_stack was given, guards included, or Nothing
  heap       \* history: what liballoc_alloc returned

P == INSTANCE PageFrames WITH MaxRequest <- 1, MaxOwners <- 1,
       owners <- [f \in 0 .. Frames - 1 |-> 0], untouched <- {}, usage <- "any"
S == INSTANCE KernelSpace WITH Windows <- <<>>, Holders <- {}, Requests <- {},
       held <- <<>>, usage <- "lifo"

Block == 0 .. Total - 1
NotPresent == -1
Foreign == -2     \* the slot's table is not the one the pager filled
Nothing == [start |-> 0, size |-> 0]
Idle == [op |-> "none", block |-> 0, left |-> 0, frame |-> 0]
Blocks(r) == r.start .. r.start + r.size - 1

bootVars == <<mem_maps, phase, entry, page_frame_min, page_frame_max>>
frameVars == <<page_frame_database, next_free_page_frame, pde>>
spaceVars == <<block_map, next_free_block>>
tableVars == <<pte, overwritten>>
vars == <<bootVars, frameVars, spaceVars, tableVars, step, window, todo, stack, heap>>

Init ==
  /\ P!Init
  /\ block_map = [b \in Block |-> "FREE"]
  /\ next_free_block = 0
  /\ pte = [b \in Block |-> NotPresent] /\ overwritten = {}
  /\ step = "pager" /\ window = 1 /\ todo = Idle
  /\ stack = Nothing /\ heap = <<>>

-------------------------------------------------------------------------------
(* SYSTEM::Init before the stack exists *)

PagerInit ==
  /\ step = "pager"
  /\ \/ P!Boot /\ UNCHANGED step
     \/ phase = "run" /\ step' = "windows" /\ UNCHANGED <<bootVars, frameVars>>
  /\ UNCHANGED <<spaceVars, tableVars, window, todo, stack, heap>>

\* The E820 entries init_kernel_mmu reserves; the entry is skipped when it ends
\* below the kernel's half of the address space or starts above 4 GB.
Firmware(e) ==
  /\ e.type \in {"ACPI", "NVS"}
  /\ e.end >= KernelBase * PageBytes /\ e.begin < Frames * PageBytes

ToExtent(e) ==
  [start |-> P!SizeToPages(e.begin) - KernelBase, size |-> P!SizeToPages(e.end - e.begin)]

Reservations ==
  << [start |-> PageTableBase - KernelBase, size |-> TableSpan],
     [start |-> PageFrameBase - KernelBase, size |-> DbPages],
     [start |-> PageLow1MBase - KernelBase, size |-> Low1M],
     [start |-> 0, size |-> ImagePages] >>
  \o [i \in DOMAIN SelectSeq(mem_maps, Firmware) |->
        ToExtent(SelectSeq(mem_maps, Firmware)[i])]

init_kernel_mmu ==
  /\ step = "windows"
  /\ IF window <= Len(Reservations)
       THEN /\ S!reserve_virtual_space(Reservations[window])
            /\ window' = window + 1 /\ UNCHANGED step
       ELSE step' = "stack" /\ UNCHANGED <<spaceVars, window>>
  /\ UNCHANGED <<bootVars, frameVars, tableVars, todo, stack, heap>>

-------------------------------------------------------------------------------
(* The page tables, one page per step *)

Slot(b) == P!PdeIndex(KernelBase + b)

\* The directory is the table of the window's own slot: the entry of the
\* window's page s is directory entry s.
DirectoryPage(s) == PageTableBase - KernelBase + s
Window == DirectoryPage(0) .. DirectoryPage(TableSpan - 1)
OwnSlot == P!PdeIndex(PageTableBase)

\* Slots that lose their table when the entry of block b is written: all of
\* them when b is the window's page of the directory itself.
Replaced(b) == IF b = DirectoryPage(OwnSlot) THEN 0 .. TableSpan - 1
               ELSE IF b \in Window THEN {b - DirectoryPage(0)} ELSE {}

\* SET_PTE.  A replaced table is memory of someone else, before and after.
SetPte(b, value) ==
  /\ overwritten' = overwritten \cup Replaced(b)
  /\ pte' = [c \in Block |-> IF Slot(c) \in Replaced(b) THEN Foreign
                             ELSE IF c # b THEN pte[c]
                             ELSE IF Slot(b) \in overwritten THEN Foreign ELSE value]

\* The tables can no longer be reached, and what the next access does depends on
\* what someone else's frame holds: the model ends there.
DirectoryLost == OwnSlot \in overwritten

\* alloc_physical_page: frame 0 and an unchanged cursor when nothing is found.
TakesPage(f) ==
  \/ P!IsLeast(f, P!PageCandidates) /\ next_free_page_frame' = f + 1
  \/ P!PageCandidates = {} /\ f = 0 /\ UNCHANGED next_free_page_frame

Advance == todo' = IF todo.left = 1 THEN Idle
                   ELSE [todo EXCEPT !.block = @ + 1, !.left = @ - 1, !.frame = @ + 1]

\* One iteration of map_pages; a directory slot without a table costs a frame.
MapPage ==
  LET b == todo.block
  IN  /\ todo.op = "map" /\ ~DirectoryLost
      /\ IF Slot(b) \in pde
           THEN UNCHANGED next_free_page_frame
           ELSE \E f \in P!Frame : TakesPage(f)
      /\ pde' = pde \cup {Slot(b)} \cup Replaced(b)
      /\ SetPte(b, todo.frame)
      /\ Advance
      /\ UNCHANGED <<bootVars, page_frame_database, spaceVars, step, window, stack, heap>>

\* free_physical_page
Frees(frame) ==
  /\ page_frame_database' = [page_frame_database EXCEPT ![frame] = "FREE"]
  /\ next_free_page_frame' = IF frame < next_free_page_frame
                               THEN frame ELSE next_free_page_frame

\* Mutant: the frame is freed but the page stays mapped.
UnmapPage_mapped ==
  /\ todo.op = "unmap"
  /\ page_frame_database' = [page_frame_database EXCEPT ![pte[todo.block]] = "FREE"]
  /\ Advance
  /\ UNCHANGED <<tableVars, bootVars, next_free_page_frame, pde, spaceVars, step, window, stack, heap>>

\* One iteration of unmap_pages: an entry that is not present names frame 0,
\* a foreign one any, and that frame is freed.
UnmapPage ==
  LET b == todo.block
  IN  /\ todo.op = "unmap" /\ ~DirectoryLost
      /\ IF Slot(b) \in pde
           THEN /\ \E frame \in P!Frame :
                     /\ frame = pte[b] \/ pte[b] = Foreign \/ (pte[b] = NotPresent /\ frame = 0)
                     /\ Frees(frame)
                /\ SetPte(b, NotPresent)
                /\ pde' = pde \ Replaced(b)
           ELSE UNCHANGED <<tableVars, page_frame_database, next_free_page_frame, pde>>
      /\ Advance
      /\ UNCHANGED <<bootVars, spaceVars, step, window, stack, heap>>

\* unmap_pages for a page of the first megabyte, which is mapped to itself.
UnmapLowPage ==
  /\ todo.op = "unmap low" /\ ~DirectoryLost
  /\ Frees(todo.block)
  /\ todo' = Idle
  /\ UNCHANGED <<bootVars, pde, tableVars, spaceVars, step, window, stack, heap>>

-------------------------------------------------------------------------------
(* MMU::alloc_virtual_memory and free_virtual_memory *)

MapTo(start, n, f) == todo' = [op |-> "map", block |-> start, left |-> n, frame |-> f]

\* Address space, then frames, then the mapping.  Frame 0, the failure of
\* alloc_physical_pages, is mapped like any other.
alloc_virtual_memory(n, start) ==
  /\ todo = Idle
  /\ S!alloc_virtual_space(n, start)
  /\ \/ \E i \in P!Frame \cup P!Behind :
          /\ P!FoundAt(n, i)
          /\ next_free_page_frame' = i + n
          /\ MapTo(start, n, i % Frames)
     \/ /\ P!RunCandidates(n) = {} /\ ~P!ScanFaults(n)
        /\ UNCHANGED next_free_page_frame
        /\ MapTo(start, n, 0)

free_virtual_memory(b, n) ==
  /\ todo = Idle
  /\ S!free_virtual_space([start |-> b, size |-> n])
  /\ todo' = [op |-> "unmap", block |-> b, left |-> n, frame |-> 0]

\* An address below the kernel's half is out of free_virtual_space's range,
\* but it is unmapped all the same.
free_virtual_memory_low(page) ==
  /\ todo = Idle
  /\ todo' = [op |-> "unmap low", block |-> page, left |-> 1, frame |-> 0]
  /\ UNCHANGED spaceVars

\* A scan for frames that faults: the handler of page faults halts the machine.
alloc_virtual_memory_faults ==
  /\ todo = Idle
  /\ \E n \in HeapRequests \cup {StackPages + 2}, start \in Block :
       /\ \/ step = "stack" /\ n = StackPages + 2
          \/ step = "run" /\ n \in HeapRequests
       /\ S!alloc_virtual_space(n, start)
       /\ P!ScanFaults(n)
       /\ todo' = [op |-> "scan", block |-> start, left |-> n, frame |-> 0]
  /\ step' = "hung"
  /\ UNCHANGED <<bootVars, frameVars, tableVars, window, stack, heap>>

\* Halted, or at the end of the model.
Faulting ==
  /\ step = "hung" \/ (DirectoryLost /\ todo # Idle)
  /\ UNCHANGED vars

-------------------------------------------------------------------------------
(* SYSTEM::alloc_stack: guard pages at both ends.  The upper one lies two    *)
(* pages below the end of what was allocated.                                *)

LowGuard == stack.start
HighGuard == stack.start + StackPages - 1
Usable == LowGuard + 1 .. HighGuard - 1

\* What follows "free low" and so on.
Then == [x \in {"free low", "reserve low", "free high", "reserve high"} |->
           CASE x = "free low" -> "reserve low" [] x = "reserve low" -> "free high"
             [] x = "free high" -> "reserve high" [] x = "reserve high" -> "run"]

AllocStack ==
  /\ step = "stack"
  /\ \E start \in Block :
       /\ alloc_virtual_memory(StackPages + 2, start)
       /\ stack' = [start |-> start, size |-> StackPages + 2]
  /\ step' = "free low"
  /\ UNCHANGED <<bootVars, page_frame_database, pde, tableVars, window, heap>>

\* No address space: nobody looks at the 0 alloc_virtual_memory returns, and
\* the stack and its guards are taken to lie at address 0.
AllocStackFails ==
  /\ step = "stack" /\ todo = Idle /\ S!FreeStarts(StackPages + 2) = {}
  /\ step' = "free low"
  /\ UNCHANGED <<bootVars, frameVars, spaceVars, tableVars, window, todo, stack, heap>>

FreePage(g) == IF stack = Nothing THEN free_virtual_memory_low(g) ELSE free_virtual_memory(g, 1)

FreeGuard ==
  /\ \/ step = "free low" /\ FreePage(LowGuard)
     \/ step = "free high" /\ FreePage(HighGuard)
  /\ step' = Then[step]
  /\ UNCHANGED <<bootVars, frameVars, tableVars, window, stack, heap>>

ReservePage(g) == IF stack = Nothing THEN UNCHANGED spaceVars
                  ELSE S!reserve_virtual_space([start |-> g, size |-> 1])

\* Mutant: the isolated page is not reserved.
ReserveGuard_skipped ==
  /\ todo = Idle /\ step \in {"reserve low", "reserve high"}
  /\ step' = Then[step]
  /\ UNCHANGED <<bootVars, frameVars, spaceVars, tableVars, todo, window, stack, heap>>

\* Mutant: m_stack_base has moved before the lower guard is reserved.
ReserveGuard_moved ==
  /\ todo = Idle
  /\ \/ step = "reserve low" /\ ReservePage(LowGuard + 1)
     \/ step = "reserve high" /\ ReservePage(HighGuard)
  /\ step' = Then[step]
  /\ UNCHANGED <<bootVars, frameVars, tableVars, todo, window, stack, heap>>

ReserveGuard ==
  /\ todo = Idle
  /\ \/ step = "reserve low" /\ ReservePage(LowGuard)
     \/ step = "reserve high" /\ ReservePage(HighGuard)
  /\ step' = Then[step]
  /\ UNCHANGED <<bootVars, frameVars, tableVars, todo, window, stack, heap>>

-------------------------------------------------------------------------------
(* The hooks of liballoc *)

\* The caller cannot see whether there were frames.
liballoc_alloc ==
  /\ step = "run"
  /\ \E n \in HeapRequests, start \in Block :
       /\ alloc_virtual_memory(n, start)
       /\ heap' = Append(heap, [start |-> start, size |-> n])
  /\ UNCHANGED <<bootVars, page_frame_database, pde, tableVars, step, window, stack>>

\* No address space: the only failure that reaches the caller as NULL.
liballoc_alloc_null ==
  /\ step = "run" /\ todo = Idle
  /\ \E n \in HeapRequests : S!FreeStarts(n) = {}
  /\ UNCHANGED vars

Next ==
  \/ PagerInit \/ init_kernel_mmu
  \/ MapPage \/ UnmapPage \/ UnmapLowPage
  \/ AllocStack \/ AllocStackFails \/ FreeGuard \/ ReserveGuard
  \/ liballoc_alloc \/ liballoc_alloc_null
  \/ alloc_virtual_memory_faults \/ Faulting

Spec == Init /\ [][Next]_vars

-------------------------------------------------------------------------------
(* Properties *)

\* An allocation that contains the window's page for the table of block b, or
\* for the directory itself.  find_free_blocks looks at the first block of a
\* range only, so a long one can run from below the window into it, although
\* "PAGE_TABLE_BASE 0xC0000000 //~0xC03FFFFF" is reserved.
RunsIntoTableOf(b, r) == {DirectoryPage(Slot(b)), DirectoryPage(OwnSlot)} \cap Blocks(r) # {}

\* No allocation does.
TableSafe(b) ==
  ~RunsIntoTableOf(b, stack) /\ \A i \in DOMAIN heap : ~RunsIntoTableOf(b, heap[i])

\* "Set up the bottom / the top isolation area" (alloc_stack): once SYSTEM::Init
\* is done the page below and the page above the usable stack stay out of the
\* allocator's reach for ever and have no translation, unless an allocation has
\* run over the page table that says so; what liballoc gets holds neither of
\* them, nor the stack, nor an earlier allocation, though the search starts at
\* the lower guard and checks one block of a range.
GuardsKept ==
  /\ step = "run" /\ stack # Nothing =>
       \A g \in {LowGuard, HighGuard} :
         /\ block_map[g] = "RESERVED"
         /\ TableSafe(g) => pte[g] = NotPresent
  /\ \A i, j \in DOMAIN heap :
       /\ Blocks(heap[i]) \cap Blocks(stack) = {}
       /\ i # j => Blocks(heap[i]) \cap Blocks(heap[j]) = {}

\* Between calls the page tables and the block map agree: a page that is mapped
\* is not free address space, and address space in use is mapped, whichever
\* call failed before (free_virtual_memory ignores what free_virtual_space
\* returns) - wherever no allocation has run over the page table.
TranslationsTracked ==
  todo = Idle => \A b \in Block : TableSafe(b) =>
    /\ pte[b] # NotPresent => block_map[b] # "FREE"
    /\ block_map[b] = "USED" => pte[b] # NotPresent

\* A map_pages or unmap_pages moves or unmaps a page of the stack the kernel
\* runs on in one case only: an allocation has run into the window of the page
\* tables as far as the stack's own table.
StackKept ==
  [][step = "run" /\ stack # Nothing =>
       \A b \in Usable : pte'[b] = pte[b] \/ ~TableSafe(b)]_vars

\* liballoc.h, of liballoc_alloc: "\return A pointer to the allocated memory." -
\* memory that was allocated to the caller, not the frames of the kernel's stack.
StackFramesPrivate ==
  \A i \in DOMAIN heap : \A b \in Blocks(heap[i]), u \in Usable :
    todo = Idle /\ stack # Nothing => pte[b] # pte[u]

===============================================================================
