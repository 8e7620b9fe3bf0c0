------------------------------ MODULE PageFrames ------------------------------
(***************************************************************************)
(* PAGER (OS/mem/paging.cpp): the allocator of physical page frames.       *)
(*                                                                         *)
(* PAGER::Init first hands frames out by bumping page_frame_min while it   *)
(* rebuilds the page tables and creates the page-frame database, then      *)
(* fills the database from the BIOS E820 map and from there on serves      *)
(* requests first-fit from next_free_page_frame.  The database byte of a   *)
(* frame that is handed out is never changed: only the cursor remembers.   *)
(*                                                                         *)
(* Memory is scaled down, not idealised: a page has PageBytes bytes, the   *)
(* 32-bit address space has Frames pages, and SIZE_TO_PAGES and the scan   *)
(* bound of alloc_physical_pages keep their 32-bit wrap-around.  Behind    *)
(* the last byte of the database kernel.h puts the window of the first     *)
(* megabyte, whose bytes may be anything, and behind that nothing is       *)
(* mapped: a scan that gets there faults, and the handler of page faults   *)
(* halts the machine with interrupts off.                                  *)
(***************************************************************************)
EXTENDS Integers, FiniteSets, Sequences

CONSTANTS
  Frames,         \* frames below 4 GB = entries of the database (2^20)
  PageBytes,      \* PAGE_SIZE (4096)
  Low1M,          \* frames below 1 MB; the kernel image starts at this frame
  ImagePages,     \* SIZE_TO_PAGES(kernel_image_size)
  DbPages,        \* frames that hold the database: SIZE_TO_PAGES(MB(1))
  TableSpan,      \* pages mapped by one page table (1024)
  KernelBase,     \* first page of each virtual window of kernel.h
  PageTableBase,
  PageFrameBase,
  PageLow1MBase,
  MemMaps,        \* the E820 maps considered: sequences of Entry records
  MaxRequest,     \* bound: pages in one request after boot
  MaxOwners       \* bound: simultaneous owners of one frame

Frame == 0 .. Frames - 1
Space == Frames * PageBytes
FREE == "FREE"
FrameKind == {"FREE", "ACPI", "NVS", "RESERVED", "NONE"}
MemType == {"RAM", "RESERVED", "ACPI", "NVS", "OTHER"}

\* Indexes that reach the bytes behind the database: the low megabyte.
Behind == Frames .. Frames + Low1M * PageBytes - 1

ASSUME SizesAssumption ==
  /\ Frames \in Nat \ {0} /\ PageBytes \in Nat \ {0} /\ TableSpan \in Nat \ {0}
  /\ Low1M \in Nat /\ ImagePages \in Nat /\ DbPages \in Nat
  /\ {KernelBase, PageTableBase, PageFrameBase, PageLow1MBase} \subseteq Nat
  /\ MaxRequest \in Nat \ {0} /\ MaxOwners \in Nat \ {0}

ASSUME MapsAssumption ==
  MemMaps \subseteq Seq([begin : Nat, end : Nat, type : MemType])

VARIABLES
  mem_maps,              \* m_meminfo, as get_mem_info left it
  phase,                 \* where PAGER::Init stands; "run" = m_database_usable,
                         \* "fault" = halted in a page fault
  entry,                 \* loop index of create_page_frame_db
  page_frame_min,        \* m_page_frame_min
  page_frame_max,        \* m_page_frame_max
  page_frame_database,   \* m_page_frame_database
  next_free_page_frame,  \* m_next_free_page_frame
  pde,                   \* page-directory slots that hold a page table
  owners,                \* history: holders of each frame since boot
  untouched,             \* history: frames handed out with no frame at or
                         \* below them freed since
  usage                  \* how the holders behave, see Usage

bootVars == <<mem_maps, phase, entry, page_frame_min, page_frame_max, pde>>
frameVars == <<page_frame_database, next_free_page_frame, owners, untouched>>
vars == <<bootVars, page_frame_database, next_free_page_frame, owners, untouched, usage>>

\* Holders free their frames in any order, or in the reverse order.
Usage == {"any", "lifo"}

-------------------------------------------------------------------------------
(* Address arithmetic *)

\* SIZE_TO_PAGES: the argument is cut to 32 bits and the rounding may wrap.
SizeToPages(size) == ((size + PageBytes - 1) % Space) \div PageBytes

PagesOf(begin, end) == SizeToPages(begin) .. SizeToPages(end) - 1

PdeIndex(page) == page \div TableSpan

IsLeast(x, S) == x \in S /\ \A y \in S : x <= y

\* get_mem_info: the highest end of a RAM entry below 4 GB, 0 if there is none.
RamSize(map, size) ==
  LET ends == {map[i].end : i \in {j \in DOMAIN map :
                               map[j].type = "RAM" /\ map[j].end < Space}}
  IN  size \in ends \cup {0} /\ \A e \in ends : e <= size

\* Firmware reports RAM that ends below 4 GB, and the highest such end does not
\* lie in the last page, where SIZE_TO_PAGES wraps to 0: page_frame_max is not 0.
ASSUME LowRamAssumption ==
  \A map \in MemMaps : \A size \in 0 .. Space - 1 :
    RamSize(map, size) => SizeToPages(size) > 0

-------------------------------------------------------------------------------
(* PAGER::Init *)

Init ==
  /\ mem_maps \in MemMaps
  /\ phase = "rebuild"
  /\ entry = 1
  /\ page_frame_min = Low1M + ImagePages
  /\ \E size \in 0 .. Space - 1 : RamSize(mem_maps, size)
                                 /\ page_frame_max = SizeToPages(size)
  /\ page_frame_database = [f \in Frame |-> "NONE"]
  /\ next_free_page_frame = 0
  /\ pde = {}
  /\ owners = [f \in Frame |-> 0]
  /\ untouched = {}
  /\ usage \in Usage

\* map_pages while booting: each directory slot without a table costs a frame.
MapPages(slots, has, min) ==
  /\ pde' = has \cup slots
  /\ page_frame_min' = min + Cardinality(slots \ has)

RebuildOsPageTable ==
  LET kernel == {PdeIndex(v) : v \in KernelBase .. KernelBase + ImagePages - 1}
      first  == {PdeIndex(PageTableBase), 0}
      low    == {PdeIndex(v) : v \in PageLow1MBase .. PageLow1MBase + Low1M - 1}
  IN  /\ phase = "rebuild"
      /\ phase' = "database"
      /\ MapPages(low, first \cup kernel,
                  page_frame_min + 2 + Cardinality(kernel \ first))
      /\ UNCHANGED <<mem_maps, page_frame_max, entry, page_frame_database,
                     next_free_page_frame, owners, untouched>>

CreatePageFrameDb ==
  LET window == {PdeIndex(v) : v \in PageFrameBase .. PageFrameBase + DbPages - 1}
  IN  /\ phase = "database"
      /\ phase' = "scan"
      /\ MapPages(window, pde, page_frame_min + DbPages)
      /\ page_frame_database' = [f \in Frame |-> "NONE"]
      /\ UNCHANGED <<mem_maps, page_frame_max, entry, next_free_page_frame, owners, untouched>>

Mark(e) == IF e.type = "RAM" THEN FREE ELSE e.type

\* One iteration of the loop over the E820 entries.
ScanEntry ==
  LET e == mem_maps[entry]
      skipped == e.end < Low1M * PageBytes \/ e.begin >= Space
      identity == {PdeIndex(((e.begin + i * PageBytes) % Space) \div PageBytes) :
                   i \in 0 .. SizeToPages(e.end - e.begin) - 1}
  IN  /\ phase = "scan" /\ entry <= Len(mem_maps)
      /\ entry' = entry + 1
      /\ IF skipped \/ e.type = "OTHER"
           THEN UNCHANGED page_frame_database
           ELSE page_frame_database' =
                  [f \in Frame |-> IF f \in PagesOf(e.begin, e.end)
                                     THEN Mark(e) ELSE page_frame_database[f]]
      /\ IF ~skipped /\ e.type \in {"ACPI", "NVS"}
           THEN MapPages(identity, pde, page_frame_min)
           ELSE UNCHANGED <<pde, page_frame_min>>
      /\ UNCHANGED <<mem_maps, page_frame_max, phase, next_free_page_frame, owners, untouched>>

DatabaseUsable ==
  /\ phase = "scan" /\ entry > Len(mem_maps)
  /\ phase' = "run"
  /\ UNCHANGED <<mem_maps, entry, page_frame_min, page_frame_max, pde,
                 page_frame_database, next_free_page_frame, owners, untouched>>

-------------------------------------------------------------------------------
(* The running allocator.                                                  *)

FreeIn(S) == \A f \in S : page_frame_database[f] = FREE

\* Frames alloc_physical_page may return: it scans up to page_frame_max.
PageCandidates ==
  {f \in next_free_page_frame .. page_frame_max - 1 : FreeIn({f})}

\* Where the scan for n frames ends: page_frame_max - pages is a uint32.
ScanEnd(n) == IF n <= page_frame_max THEN page_frame_max - n
              ELSE Space + page_frame_max - n

\* Frames at which alloc_physical_pages may find n free ones; those after the
\* first are only looked at below page_frame_max.
RunCandidates(n) ==
  {f \in Frame : /\ next_free_page_frame <= f /\ f < ScanEnd(n)
                 /\ FreeIn(f .. f + n - 1) /\ (n = 1 \/ f + n <= page_frame_max)}

\* Mutant: only the length of the run bounds the inner loop.
BehindStarts_unbounded(n) ==
  {i \in Behind : next_free_page_frame <= i /\ i < ScanEnd(n) /\ i + n - 1 \in Behind}

\* Indexes behind the database whose byte may pass for a free frame.  A longer
\* run would have to end below page_frame_max.
BehindStarts(n) ==
  {i \in Behind : next_free_page_frame <= i /\ i < ScanEnd(n) /\ n = 1}

FoundAt(n, i) == \/ IsLeast(i, RunCandidates(n))
                 \/ RunCandidates(n) = {} /\ i \in BehindStarts(n)

\* The scan finds nothing before it leaves what is mapped behind the database.
ScanFaults(n) ==
  /\ RunCandidates(n) = {}
  /\ next_free_page_frame < ScanEnd(n) /\ Frames + Low1M * PageBytes < ScanEnd(n)

HandOut(S) ==
  /\ \A f \in S : owners[f] < MaxOwners
  /\ owners' = [f \in Frame |-> IF f \in S THEN owners[f] + 1 ELSE owners[f]]
  /\ untouched' = untouched \cup S

\* Mutant: the cursor stays on the frame handed out.
alloc_physical_page_stay ==
  \E f \in Frame :
    /\ phase = "run"
    /\ IsLeast(f, PageCandidates)
    /\ next_free_page_frame' = f
    /\ HandOut({f})
    /\ UNCHANGED <<bootVars, page_frame_database>>

alloc_physical_page ==
  \E f \in Frame :
    /\ phase = "run"
    /\ IsLeast(f, PageCandidates)
    /\ next_free_page_frame' = f + 1
    /\ HandOut({f})
    /\ UNCHANGED <<bootVars, page_frame_database>>

\* What is returned is i*PAGE_SIZE, a uint32.
alloc_physical_pages(n) ==
  \E i \in Frame \cup Behind :
    /\ phase = "run"
    /\ FoundAt(n, i)
    /\ next_free_page_frame' = i + n
    /\ HandOut({j % Frames : j \in i .. i + n - 1})
    /\ UNCHANGED <<bootVars, page_frame_database>>

\* A request for n frames that finds nothing returns 0 and changes nothing.
alloc_fails(n) ==
  /\ phase = "run"
  /\ \/ RunCandidates(n) = {} /\ ~ScanFaults(n)
     \/ n = 1 /\ PageCandidates = {}
  /\ UNCHANGED vars

\* It does not return when the wrapped bound takes the scan to unmapped memory.
alloc_faults(n) ==
  /\ phase = "run" /\ ScanFaults(n)
  /\ phase' = "fault"
  /\ UNCHANGED <<mem_maps, entry, page_frame_min, page_frame_max, pde, frameVars>>

\* The handler of page faults has halted the machine.
Faulting == phase = "fault" /\ UNCHANGED vars

\* Mutant: every free restarts the search from frame 0.
free_physical_pages_restart(start, n) ==
  LET S == start .. start + n - 1
  IN  /\ phase = "run"
      /\ S \subseteq {f \in Frame : owners[f] > 0}
      /\ page_frame_database' = [f \in Frame |-> IF f \in S THEN FREE ELSE page_frame_database[f]]
      /\ next_free_page_frame' = 0
      /\ owners' = [f \in Frame |-> IF f \in S THEN owners[f] - 1 ELSE owners[f]]
      /\ untouched' = {f \in untouched : f < start}
      /\ UNCHANGED bootVars

\* Both free functions, for a holder of the n frames: all become FREE and the
\* cursor moves back to the first when that is lower.
free_physical_pages(start, n) ==
  LET S == start .. start + n - 1
  IN  /\ phase = "run"
      /\ S \subseteq {f \in Frame : owners[f] > 0}
      /\ page_frame_database' = [f \in Frame |-> IF f \in S THEN FREE ELSE page_frame_database[f]]
      /\ next_free_page_frame' = IF start < next_free_page_frame
                                   THEN start ELSE next_free_page_frame
      /\ owners' = [f \in Frame |-> IF f \in S THEN owners[f] - 1 ELSE owners[f]]
      /\ untouched' = {f \in untouched : f < start}
      /\ UNCHANGED bootVars

\* No frame above the range is in use.
Topmost(start, n) == \A f \in Frame : owners[f] > 0 => f < start + n

-------------------------------------------------------------------------------
Boot == RebuildOsPageTable \/ CreatePageFrameDb \/ ScanEntry \/ DatabaseUsable

Alloc ==
  \/ alloc_physical_page
  \/ \E n \in 1 .. MaxRequest : alloc_physical_pages(n) \/ alloc_fails(n) \/ alloc_faults(n)
  \/ Faulting

Free ==
  \E f \in Frame, n \in 1 .. MaxRequest :
    /\ usage = "lifo" => Topmost(f, n)
    /\ free_physical_pages(f, n)

Next == (Boot \/ Alloc \/ Free) /\ UNCHANGED usage

Spec == Init /\ [][Next]_vars

-------------------------------------------------------------------------------
(* Properties *)

TypeOK ==
  /\ mem_maps \in MemMaps
  /\ phase \in {"rebuild", "database", "scan", "run", "fault"}
  /\ entry \in Nat \ {0}
  /\ page_frame_min \in Nat
  /\ page_frame_max \in 1 .. Frames - 1
  /\ page_frame_database \in [Frame -> FrameKind]
  /\ next_free_page_frame \in Nat
  /\ pde \subseteq Nat
  /\ owners \in [Frame -> 0 .. MaxOwners]
  /\ untouched \subseteq Frame
  /\ usage \in Usage

\* Entry i of the map is considered and contains the first byte of frame f.
Covers(i, f) ==
  LET e == mem_maps[i]
  IN  /\ e.type # "OTHER" /\ e.end >= Low1M * PageBytes
      /\ e.begin <= f * PageBytes /\ f * PageBytes < e.end

\* Every frame handed out after boot starts in memory that the BIOS reported
\* as RAM and no later entry took back, whatever the order and alignment of
\* the E820 entries (create_page_frame_db rounds both ends of an entry up) and
\* however large the request: a scan whose bound has wrapped reads on behind
\* the database, and only the inner loop's bound keeps it from a hand-out there.
OwnedIsRam ==
  \A f \in Frame : owners[f] > 0 =>
    \E i \in DOMAIN mem_maps :
      /\ Covers(i, f) /\ mem_maps[i].type = "RAM"
      /\ \A j \in DOMAIN mem_maps : j > i => ~Covers(j, f)

\* What OwnedIsRam asks of the firmware, because SizeToPages wraps at 4 GB: no
\* RAM begins inside the last page below 4 GB, and an area that reaches into
\* that page takes back no RAM reported before it (its end rounds to 0, so the
\* scan does not mark it).
MapsRegular ==
  \A map \in MemMaps : \A i \in DOMAIN map : map[i].begin < Space =>
    /\ map[i].type = "RAM" => map[i].begin <= Space - PageBytes
    /\ map[i].type \in {"RESERVED", "ACPI", "NVS"} =>
         \/ map[i].end <= Space - PageBytes
         \/ \A j \in 1 .. i - 1 : map[j].type = "RAM" => map[j].end <= map[i].begin

\* The cursor is the only record of what was handed out: every frame handed
\* out, with nothing at or below it freed since, lies below it
\* (next_free_page_frame in alloc_physical_page(s) and the free functions).
CursorAboveUntouched == \A f \in untouched : f < next_free_page_frame

\* A frame that has an owner is handed out again only after some frame at or
\* below it was freed: first-fit never runs into earlier hand-outs.
NoEarlyReuse == [][\A f \in untouched : owners'[f] <= owners[f]]_vars

\* When holders free in the reverse order of allocation, no frame ever has
\* two owners, although the database never marks a frame as used.
LifoExclusive ==
  usage = "lifo" =>
    \A f \in Frame : owners[f] <= 1 /\ (owners[f] = 1 => f < next_free_page_frame)

===============================================================================
