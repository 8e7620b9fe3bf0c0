------------------------ MODULE FramesAndLibc_proofs -------------------------
(***************************************************************************)
(* Two components that do not meet: the frame allocator's invariants,      *)
(* proved for every memory size, E820 map and request; and what Libc says  *)
(* of the C library's copying, comparing, searching, printing and 64-bit   *)
(* arithmetic functions (of wcsncpy and wcsncmp it says nothing), for      *)
(* every memory, text, conversion, operand and length of a word.           *)
(***************************************************************************)
EXTENDS PageFrames, Libc, FiniteSetTheorems, SequenceTheorems, WellFoundedInduction, TLAPS

-------------------------------------------------------------------------------
(* The frame allocator *)

\* Rounding to pages always gives a page below 4 GB.
LEMMA SizeToPagesType ==
  ASSUME NEW size \in Int
  PROVE  SizeToPages(size) \in 0 .. Frames - 1
<1> DEFINE m == (size + PageBytes - 1) % Space
<1>1. Space \in Nat \ {0}
  BY SizesAssumption DEF Space
<1>2. m \in 0 .. Space - 1
  BY <1>1, SizesAssumption
<1>3. m \div PageBytes \in Nat /\ PageBytes * (m \div PageBytes) <= m
  BY <1>2, SizesAssumption
<1>4. m \div PageBytes < Frames
  BY <1>2, <1>3, SizesAssumption DEF Space
<1> QED
  BY <1>3, <1>4, SizesAssumption DEF SizeToPages

\* The directory slot of a page is not above the page's own number.
LEMMA PdeIndexType ==
  ASSUME NEW page \in Nat
  PROVE  PdeIndex(page) \in 0 .. page
BY SizesAssumption DEF PdeIndex

\* Mapping a finite set of slots adds a number of frames.
LEMMA MapPagesType ==
  ASSUME NEW slots, NEW bound \in Nat, slots \subseteq 0 .. bound,
         NEW has, has \subseteq Nat, NEW min \in Nat,
         MapPages(slots, has, min)
  PROVE  page_frame_min' \in Nat /\ pde' \subseteq Nat
<1>1. IsFiniteSet(0 .. bound)
  BY FS_Interval
<1>2. IsFiniteSet(slots \ has)
  BY <1>1, FS_Subset
<1>3. Cardinality(slots \ has) \in Nat
  BY <1>2, FS_CardinalityType
<1> QED
  BY <1>3 DEF MapPages

\* An entry of a considered map has its fields.
LEMMA EntryType ==
  ASSUME NEW map \in MemMaps, NEW i \in DOMAIN map
  PROVE  map[i] \in [begin : Nat, end : Nat, type : MemType]
<1> DEFINE R == [begin : Nat, end : Nat, type : MemType]
<1>1. map \in Seq(R)
  BY MapsAssumption
<1>2. i \in 1 .. Len(map)
  BY <1>1, LenProperties
<1> HIDE DEF R
<1>3. map[i] \in R
  BY <1>1, <1>2, ElementOfSeq
<1> QED
  BY <1>3 DEF R

-------------------------------------------------------------------------------
LEMMA InitType == Init => TypeOK
<1> SUFFICES ASSUME Init PROVE TypeOK
  OBVIOUS
<1>1. PICK size \in 0 .. Space - 1 : RamSize(mem_maps, size)
                                       /\ page_frame_max = SizeToPages(size)
  BY DEF Init
<1>2. SizeToPages(size) \in 0 .. Frames - 1 /\ SizeToPages(size) > 0
  <2>1. size \in Int /\ mem_maps \in MemMaps
    BY <1>1 DEF Init
  <2> QED
    BY <1>1, <2>1, SizeToPagesType, LowRamAssumption
<1>3. page_frame_max \in 1 .. Frames - 1
  BY <1>1, <1>2, SizesAssumption
<1> QED
  BY <1>3, SizesAssumption DEF Init, TypeOK, FrameKind, Frame

LEMMA RebuildType == TypeOK /\ RebuildOsPageTable /\ UNCHANGED usage => TypeOK'
<1> SUFFICES ASSUME TypeOK, RebuildOsPageTable, UNCHANGED usage PROVE TypeOK'
  OBVIOUS
<1> DEFINE kernel == {PdeIndex(v) : v \in KernelBase .. KernelBase + ImagePages - 1}
           first  == {PdeIndex(PageTableBase), 0}
           low    == {PdeIndex(v) : v \in PageLow1MBase .. PageLow1MBase + Low1M - 1}
           min    == page_frame_min + 2 + Cardinality(kernel \ first)
<1>1. kernel \subseteq 0 .. KernelBase + ImagePages
  BY PdeIndexType, SizesAssumption
<1>2. low \subseteq 0 .. PageLow1MBase + Low1M
  BY PdeIndexType, SizesAssumption
<1>3. first \subseteq Nat
  BY PdeIndexType, SizesAssumption
<1>4. IsFiniteSet(kernel \ first)
  <2>1. IsFiniteSet(0 .. KernelBase + ImagePages)
    BY FS_Interval, SizesAssumption
  <2> HIDE DEF kernel, first
  <2> QED
    BY <1>1, <2>1, FS_Subset
<1>5. min \in Nat
  BY <1>4, FS_CardinalityType DEF TypeOK
<1>6. MapPages(low, first \cup kernel, min)
  BY DEF RebuildOsPageTable
<1>7. page_frame_min' \in Nat /\ pde' \subseteq Nat
  <2>1. PageLow1MBase + Low1M \in Nat
    BY SizesAssumption
  <2>2. first \cup kernel \subseteq Nat
    BY <1>1, <1>3
  <2> HIDE DEF kernel, first, low, min
  <2> QED
    BY <1>2, <1>5, <1>6, <2>1, <2>2, MapPagesType
<1> QED
  BY <1>7 DEF TypeOK, RebuildOsPageTable

LEMMA CreateType == TypeOK /\ CreatePageFrameDb /\ UNCHANGED usage => TypeOK'
<1> SUFFICES ASSUME TypeOK, CreatePageFrameDb, UNCHANGED usage PROVE TypeOK'
  OBVIOUS
<1> DEFINE window == {PdeIndex(v) : v \in PageFrameBase .. PageFrameBase + DbPages - 1}
<1>1. window \subseteq 0 .. PageFrameBase + DbPages
  BY PdeIndexType, SizesAssumption
<1>2. MapPages(window, pde, page_frame_min + DbPages)
  BY DEF CreatePageFrameDb
<1>3. page_frame_min' \in Nat /\ pde' \subseteq Nat
  <2>1. PageFrameBase + DbPages \in Nat /\ page_frame_min + DbPages \in Nat
    BY SizesAssumption DEF TypeOK
  <2>2. pde \subseteq Nat
    BY DEF TypeOK
  <2> HIDE DEF window
  <2> QED
    BY <1>1, <1>2, <2>1, <2>2, MapPagesType
<1> QED
  BY <1>3 DEF TypeOK, CreatePageFrameDb, FrameKind

LEMMA ScanType == TypeOK /\ ScanEntry /\ UNCHANGED usage => TypeOK'
<1> SUFFICES ASSUME TypeOK, ScanEntry, UNCHANGED usage PROVE TypeOK'
  OBVIOUS
<1> DEFINE e == mem_maps[entry]
           skipped == e.end < Low1M * PageBytes \/ e.begin >= Space
           va(i) == ((e.begin + i * PageBytes) % Space) \div PageBytes
           identity == {PdeIndex(va(i)) : i \in 0 .. SizeToPages(e.end - e.begin) - 1}
<1>1. e \in [begin : Nat, end : Nat, type : MemType]
  <2>1. mem_maps \in Seq([begin : Nat, end : Nat, type : MemType])
    BY MapsAssumption DEF TypeOK
  <2>2. entry \in DOMAIN mem_maps
    <3>1. Len(mem_maps) \in Nat /\ DOMAIN mem_maps = 1 .. Len(mem_maps)
      BY <2>1, LenProperties
    <3>2. entry \in Nat \ {0} /\ entry <= Len(mem_maps)
      BY DEF TypeOK, ScanEntry
    <3> QED
      BY <3>1, <3>2
  <2> QED
    BY <2>2, EntryType DEF TypeOK
<1>2. page_frame_database' \in [Frame -> FrameKind]
  BY <1>1 DEF TypeOK, ScanEntry, Mark, FREE, FrameKind, MemType
<1>3. page_frame_min' \in Nat /\ pde' \subseteq Nat
  <2>1. identity \subseteq 0 .. Frames
    <3>1. SUFFICES ASSUME NEW i \in Nat PROVE PdeIndex(va(i)) \in 0 .. Frames
      <4>1. 0 .. SizeToPages(e.end - e.begin) - 1 \subseteq Nat
        OBVIOUS
      <4> HIDE DEF va
      <4> QED
        BY <4>1
    <3>2. e.begin + i * PageBytes \in Nat /\ Space \in Nat \ {0}
      BY <1>1, SizesAssumption DEF Space
    <3> DEFINE m == (e.begin + i * PageBytes) % Space
    <3>3. m \in 0 .. Frames * PageBytes - 1
      BY <3>2 DEF Space
    <3>4. m \div PageBytes \in 0 .. Frames - 1
      BY <3>3, SizesAssumption
    <3> QED
      BY <3>4, PdeIndexType, SizesAssumption
  <2>2. CASE ~skipped /\ e.type \in {"ACPI", "NVS"}
    <3>1. MapPages(identity, pde, page_frame_min)
      BY <2>2 DEF ScanEntry
    <3>2. pde \subseteq Nat /\ page_frame_min \in Nat /\ Frames \in Nat
      BY SizesAssumption DEF TypeOK
    <3> HIDE DEF identity
    <3> QED
      BY <2>1, <3>1, <3>2, MapPagesType
  <2>3. CASE ~(~skipped /\ e.type \in {"ACPI", "NVS"})
    BY <2>3 DEF ScanEntry, TypeOK
  <2> QED
    BY <2>2, <2>3
<1> QED
  BY <1>2, <1>3 DEF TypeOK, ScanEntry

LEMMA BootType == TypeOK /\ Boot /\ UNCHANGED usage => TypeOK'
<1>1. TypeOK /\ DatabaseUsable /\ UNCHANGED usage => TypeOK'
  BY DEF TypeOK, DatabaseUsable
<1> QED
  BY <1>1, RebuildType, CreateType, ScanType DEF Boot

\* Handing frames out keeps the history variables well typed.
LEMMA HandOutType ==
  ASSUME TypeOK, NEW S \in SUBSET Frame, HandOut(S)
  PROVE  owners' \in [Frame -> 0 .. MaxOwners] /\ untouched' \subseteq Frame
BY SizesAssumption DEF TypeOK, HandOut

\* The frames a request of n pages may start at leave room for all n.
LEMMA RunInRange ==
  ASSUME TypeOK, NEW n \in Nat, NEW start \in RunCandidates(n)
  PROVE  /\ start \in Nat /\ next_free_page_frame <= start
         /\ start .. start + n - 1 \subseteq Frame
<1>1. start \in Frame /\ next_free_page_frame <= start /\ (n = 1 \/ start + n <= page_frame_max)
  BY DEF RunCandidates
<1> QED
  BY <1>1, SizesAssumption DEF TypeOK, Frame

\* Wherever the scan ends, what is handed out lies in the database: one frame
\* never makes the bound wrap, and more than one must end below page_frame_max.
LEMMA PagesFacts ==
  ASSUME TypeOK, NEW n \in 1 .. MaxRequest, alloc_physical_pages(n)
  PROVE  \E start \in Frame :
           /\ start \in RunCandidates(n)
           /\ next_free_page_frame' = start + n
           /\ HandOut(start .. start + n - 1)
           /\ UNCHANGED <<bootVars, page_frame_database>>
<1>1. PICK i \in Frame \cup Behind :
        /\ IsLeast(i, RunCandidates(n)) \/ i \in BehindStarts(n)
        /\ next_free_page_frame' = i + n
        /\ HandOut({j % Frames : j \in i .. i + n - 1})
        /\ UNCHANGED <<bootVars, page_frame_database>>
  BY DEF alloc_physical_pages, FoundAt
<1>2. i \notin BehindStarts(n)
  <2> SUFFICES ASSUME n = 1, i \in Behind, i < ScanEnd(n) PROVE FALSE
    BY DEF BehindStarts
  <2>1. ScanEnd(n) = page_frame_max - 1 /\ page_frame_max \in 1 .. Frames - 1
    BY DEF ScanEnd, TypeOK
  <2>2. i >= Frames /\ i \in Int /\ Frames \in Nat
    BY SizesAssumption DEF Behind
  <2> QED
    BY <2>1, <2>2
<1>3. i \in RunCandidates(n) /\ i \in Frame
  BY <1>1, <1>2 DEF IsLeast, RunCandidates
<1>4. {j % Frames : j \in i .. i + n - 1} = i .. i + n - 1
  <2>1. i .. i + n - 1 \subseteq Frame
    BY <1>3, RunInRange
  <2>2. \A j \in Frame : j % Frames = j
    BY SizesAssumption DEF Frame
  <2> QED
    BY <2>1, <2>2
<1> QED
  BY <1>1, <1>3, <1>4

LEMMA AllocType == TypeOK /\ Alloc /\ UNCHANGED usage => TypeOK'
<1> SUFFICES ASSUME TypeOK, Alloc, UNCHANGED usage PROVE TypeOK'
  OBVIOUS
<1>1. CASE alloc_physical_page
  <2>1. PICK f \in Frame :
          /\ next_free_page_frame' = f + 1 /\ HandOut({f})
          /\ UNCHANGED <<bootVars, page_frame_database>>
    BY <1>1 DEF alloc_physical_page
  <2> QED
    BY <2>1, HandOutType DEF TypeOK, bootVars, Frame
<1>2. ASSUME NEW n \in 1 .. MaxRequest, alloc_physical_pages(n)
      PROVE  TypeOK'
  <2>1. PICK start \in Frame :
          /\ start \in RunCandidates(n)
          /\ next_free_page_frame' = start + n
          /\ HandOut(start .. start + n - 1)
          /\ UNCHANGED <<bootVars, page_frame_database>>
    BY <1>2, PagesFacts
  <2>2. start .. start + n - 1 \subseteq Frame /\ start + n \in Nat
    BY <2>1, RunInRange
  <2> QED
    BY <2>1, <2>2, HandOutType DEF TypeOK, bootVars
<1>3. ASSUME NEW n \in 1 .. MaxRequest, alloc_fails(n)
      PROVE  TypeOK'
  BY <1>3 DEF alloc_fails, vars, bootVars, frameVars, TypeOK
<1>4. ASSUME NEW n \in 1 .. MaxRequest, alloc_faults(n)
      PROVE  TypeOK'
  BY <1>4 DEF alloc_faults, frameVars, TypeOK
<1>5. CASE Faulting
  BY <1>5 DEF Faulting, vars, bootVars, TypeOK
<1> QED
  BY <1>1, <1>2, <1>3, <1>4, <1>5 DEF Alloc

LEMMA FreeType ==
  ASSUME TypeOK, NEW start \in Frame, NEW n \in 1 .. MaxRequest,
         free_physical_pages(start, n), UNCHANGED usage
  PROVE  TypeOK'
<1>1. page_frame_database' \in [Frame -> FrameKind]
  BY DEF TypeOK, free_physical_pages, FrameKind, FREE
<1>2. owners' \in [Frame -> 0 .. MaxOwners]
  BY SizesAssumption DEF TypeOK, free_physical_pages
<1>3. next_free_page_frame' \in Nat
  BY DEF TypeOK, free_physical_pages, Frame
<1>4. untouched' \subseteq Frame
  BY DEF TypeOK, free_physical_pages
<1> QED
  BY <1>1, <1>2, <1>3, <1>4 DEF TypeOK, free_physical_pages, bootVars

\* Every step keeps the types.
LEMMA NextType == TypeOK /\ [Next]_vars => TypeOK'
<1>1. TypeOK /\ UNCHANGED vars => TypeOK'
  BY DEF TypeOK, vars, bootVars
<1> QED
  BY <1>1, BootType, AllocType, FreeType DEF Next, Free

\* The allocator's state keeps its type for every memory size and E820 map.
THEOREM TypeCorrect == Spec => []TypeOK
<1> QED
  BY InitType, NextType, PTL DEF Spec

-------------------------------------------------------------------------------
\* What an allocation hands out lies at or above the cursor, and the cursor
\* ends above it.
LEMMA AllocAboveCursor ==
  ASSUME TypeOK, Alloc
  PROVE  \/ UNCHANGED frameVars
         \/ \E S \in SUBSET Frame :
              /\ HandOut(S)
              /\ \A f \in S : next_free_page_frame <= f /\ f < next_free_page_frame'
              /\ next_free_page_frame <= next_free_page_frame'
<1>1. CASE alloc_physical_page
  <2>1. PICK f \in Frame :
          /\ f \in PageCandidates
          /\ next_free_page_frame' = f + 1 /\ HandOut({f})
    BY <1>1 DEF alloc_physical_page, IsLeast
  <2>2. next_free_page_frame <= f /\ next_free_page_frame \in Nat /\ f \in Nat
    BY <2>1 DEF PageCandidates, TypeOK, Frame
  <2>3. {f} \in SUBSET Frame /\ (\A g \in {f} : g = f)
    OBVIOUS
  <2> QED
    BY <2>1, <2>2, <2>3
<1>2. ASSUME NEW n \in 1 .. MaxRequest, alloc_physical_pages(n)
      PROVE  \E S \in SUBSET Frame :
               /\ HandOut(S)
               /\ \A f \in S : next_free_page_frame <= f /\ f < next_free_page_frame'
               /\ next_free_page_frame <= next_free_page_frame'
  <2>1. PICK start \in Frame :
          /\ start \in RunCandidates(n)
          /\ next_free_page_frame' = start + n
          /\ HandOut(start .. start + n - 1)
    BY <1>2, PagesFacts
  <2>2. next_free_page_frame <= start /\ start \in Nat
    BY <2>1, RunInRange
  <2>3. start .. start + n - 1 \in SUBSET Frame
    BY <2>1, RunInRange
  <2> DEFINE S == start .. start + n - 1
  <2>4. \A f \in S : next_free_page_frame <= f /\ f < next_free_page_frame'
    BY <2>1, <2>2 DEF TypeOK
  <2>5. next_free_page_frame <= next_free_page_frame'
    BY <2>1, <2>2 DEF TypeOK
  <2>6. S \in SUBSET Frame /\ HandOut(S)
    BY <2>1, <2>3
  <2> HIDE DEF S
  <2> QED
    BY <2>4, <2>5, <2>6
<1>3. ASSUME NEW n \in 1 .. MaxRequest, alloc_fails(n) \/ alloc_faults(n)
      PROVE  UNCHANGED frameVars
  BY <1>3 DEF alloc_fails, alloc_faults, frameVars, vars
<1>4. CASE Faulting
  BY <1>4 DEF Faulting, frameVars, vars
<1> QED
  BY <1>1, <1>2, <1>3, <1>4 DEF Alloc

\* Booting hands nothing out through the running allocator.
LEMMA BootKeeps == Boot => UNCHANGED <<owners, untouched, next_free_page_frame>>
BY DEF Boot, RebuildOsPageTable, CreatePageFrameDb, ScanEntry, DatabaseUsable

LEMMA NextCursor == TypeOK /\ CursorAboveUntouched /\ [Next]_vars => CursorAboveUntouched'
<1> SUFFICES ASSUME TypeOK, CursorAboveUntouched, [Next]_vars
             PROVE  CursorAboveUntouched'
  OBVIOUS
<1>1. CASE UNCHANGED frameVars
  BY <1>1 DEF frameVars, CursorAboveUntouched
<1>0. UNCHANGED vars => UNCHANGED frameVars
  BY DEF vars, frameVars
<1>2. CASE Boot
  BY <1>2, BootKeeps DEF CursorAboveUntouched
<1>3. CASE Alloc
  <2> SUFFICES ASSUME NEW S \in SUBSET Frame, HandOut(S),
                      \A f \in S : f < next_free_page_frame',
                      next_free_page_frame <= next_free_page_frame'
               PROVE  CursorAboveUntouched'
    BY <1>1, <1>3, AllocAboveCursor
  <2>1. next_free_page_frame' \in Nat
    BY NextType DEF TypeOK
  <2> QED
    BY <2>1 DEF HandOut, CursorAboveUntouched, TypeOK, Frame
<1>4. ASSUME NEW f \in Frame, NEW n \in 1 .. MaxRequest, free_physical_pages(f, n)
      PROVE  CursorAboveUntouched'
  BY <1>4 DEF free_physical_pages, CursorAboveUntouched
<1> QED
  BY <1>0, <1>1, <1>2, <1>3, <1>4 DEF Next, Free

\* Whatever is allocated and freed in whatever order, every frame handed out
\* and not endangered by a free at or below it lies below the cursor.
THEOREM CursorSafe == Spec => []CursorAboveUntouched
<1>1. Init => CursorAboveUntouched
  BY DEF Init, CursorAboveUntouched
<1> QED
  BY <1>1, NextCursor, TypeCorrect, PTL DEF Spec

\* A frame in use is handed out a second time only after a frame at or below
\* it was freed.
THEOREM ReuseNeedsLowerFree == Spec => NoEarlyReuse
<1> DEFINE Kept == \A f \in untouched : owners'[f] <= owners[f]
<1>1. TypeOK /\ CursorAboveUntouched /\ [Next]_vars => [Kept]_vars
  <2> SUFFICES ASSUME TypeOK, CursorAboveUntouched, Next
               PROVE  Kept \/ UNCHANGED vars
    OBVIOUS
  <2>1. \A f \in untouched : f \in Frame /\ owners[f] \in Nat
    BY SizesAssumption DEF TypeOK
  <2>2. CASE Boot
    BY <2>1, <2>2, BootKeeps
  <2>3. CASE Alloc
    <3>0. UNCHANGED frameVars => Kept
      BY <2>1 DEF frameVars
    <3> SUFFICES ASSUME NEW S \in SUBSET Frame, HandOut(S),
                        \A f \in S : next_free_page_frame <= f
                 PROVE  Kept
      BY <2>3, <3>0, AllocAboveCursor
    <3>1. \A f \in untouched : f \notin S
      BY <2>1 DEF TypeOK, CursorAboveUntouched, Frame
    <3> QED
      BY <2>1, <3>1 DEF HandOut
  <2>4. ASSUME NEW f \in Frame, NEW n \in 1 .. MaxRequest, free_physical_pages(f, n)
        PROVE  Kept
    BY <2>1, <2>4 DEF free_physical_pages
  <2> QED
    BY <2>2, <2>3, <2>4 DEF Next, Free
<1> QED
  BY <1>1, TypeCorrect, CursorSafe, PTL DEF Spec, NoEarlyReuse

-------------------------------------------------------------------------------
\* Adding a range above every owned frame keeps the owners exclusive.
LEMMA LifoAlloc ==
  ASSUME TypeOK, LifoExclusive, NEW S \in SUBSET Frame, HandOut(S),
         \A f \in S : next_free_page_frame <= f /\ f < next_free_page_frame',
         next_free_page_frame <= next_free_page_frame',
         next_free_page_frame' \in Nat, UNCHANGED usage
  PROVE  LifoExclusive'
<1> SUFFICES ASSUME usage = "lifo", NEW f \in Frame
             PROVE  owners'[f] <= 1 /\ (owners'[f] = 1 => f < next_free_page_frame')
  BY DEF LifoExclusive
<1>1. owners[f] \in Nat /\ f \in Nat /\ next_free_page_frame \in Nat
  BY SizesAssumption DEF TypeOK, Frame
<1>2. owners'[f] = IF f \in S THEN owners[f] + 1 ELSE owners[f]
  BY DEF HandOut
<1>3. CASE f \in S
  <2>1. owners[f] = 0
    BY <1>1, <1>3 DEF LifoExclusive
  <2> QED
    BY <1>1, <1>2, <1>3, <2>1
<1>4. CASE f \notin S
  BY <1>1, <1>2, <1>4 DEF LifoExclusive
<1> QED
  BY <1>3, <1>4

\* Freeing the topmost frames brings the cursor down exactly to them.
LEMMA LifoFree ==
  ASSUME TypeOK, LifoExclusive, NEW start \in Frame, NEW n \in 1 .. MaxRequest,
         usage = "lifo" => Topmost(start, n), free_physical_pages(start, n),
         UNCHANGED usage
  PROVE  LifoExclusive'
<1> SUFFICES ASSUME usage = "lifo", NEW f \in Frame
             PROVE  owners'[f] <= 1 /\ (owners'[f] = 1 => f < next_free_page_frame')
  BY DEF LifoExclusive
<1>1. owners[f] \in Nat /\ f \in Nat /\ start \in Nat /\ next_free_page_frame \in Nat
  BY SizesAssumption DEF TypeOK, Frame
<1>2. owners'[f] = IF f \in start .. start + n - 1 THEN owners[f] - 1 ELSE owners[f]
  BY DEF free_physical_pages
<1>3. owners[f] <= 1 /\ (owners[f] = 1 => f < next_free_page_frame)
  BY DEF LifoExclusive
<1>4. owners'[f] <= 1
  BY <1>1, <1>2, <1>3
<1>5. ASSUME owners'[f] = 1 PROVE f < next_free_page_frame'
  <2>1. owners[f] = 1 /\ f \notin start .. start + n - 1
    BY <1>1, <1>2, <1>3, <1>5
  <2>2. f < start + n
    BY <2>1 DEF Topmost
  <2>3. f < start
    BY <1>1, <2>1, <2>2
  <2> QED
    BY <1>1, <1>3, <2>1, <2>3 DEF free_physical_pages
<1> QED
  BY <1>4, <1>5

\* Holders that free in the reverse order of allocation never share a frame:
\* the missing "used" mark is harmless for them.
THEOREM LifoSafe == Spec => []LifoExclusive
<1>1. Init => TypeOK /\ LifoExclusive
  BY InitType DEF Init, LifoExclusive
<1>2. TypeOK /\ LifoExclusive /\ [Next]_vars => LifoExclusive'
  <2> SUFFICES ASSUME TypeOK, LifoExclusive, [Next]_vars
               PROVE  LifoExclusive'
    OBVIOUS
  <2>1. TypeOK'
    BY NextType
  <2>2. CASE UNCHANGED vars
    BY <2>2 DEF vars, LifoExclusive
  <2>3. CASE Boot /\ UNCHANGED usage
    BY <2>3, BootKeeps DEF LifoExclusive
  <2>4. CASE Alloc /\ UNCHANGED usage
    <3>1. next_free_page_frame' \in Nat
      BY <2>1 DEF TypeOK
    <3>2. UNCHANGED frameVars => LifoExclusive'
      BY <2>4 DEF frameVars, LifoExclusive
    <3> QED
      BY <2>4, <3>1, <3>2, AllocAboveCursor, LifoAlloc
  <2>5. ASSUME NEW f \in Frame, NEW n \in 1 .. MaxRequest, UNCHANGED usage,
               usage = "lifo" => Topmost(f, n), free_physical_pages(f, n)
        PROVE  LifoExclusive'
    BY <2>5, LifoFree
  <2> QED
    BY <2>2, <2>3, <2>4, <2>5 DEF Next, Free
<1>3. TypeOK /\ [Next]_vars => TypeOK'
  BY NextType
<1> QED
  BY <1>1, <1>2, <1>3, PTL DEF Spec

-------------------------------------------------------------------------------
(* What is handed out is RAM *)

LEMMA Monotone ==
  ASSUME NEW a \in Nat, NEW b \in Nat, NEW c \in Nat, a <= b
  PROVE  a * c <= b * c
OBVIOUS

\* A page below the rounded end begins before the end, wrap-around or not.
LEMMA RoundedEnd ==
  ASSUME NEW x \in Nat, NEW f \in Nat, f < SizeToPages(x)
  PROVE  f * PageBytes < x
<1> DEFINE m == (x + PageBytes - 1) % Space
           q == m \div PageBytes
<1>1. Space \in Nat \ {0}
  BY SizesAssumption DEF Space
<1>2. m \in Nat /\ m <= x + PageBytes - 1
  BY <1>1, SizesAssumption
<1>3. q \in Nat /\ q * PageBytes <= m
  BY <1>2, SizesAssumption
<1>4. f + 1 <= q
  BY <1>3 DEF SizeToPages
<1> HIDE DEF m, q
<1>5. (f + 1) * PageBytes <= q * PageBytes
  BY <1>3, <1>4, Monotone, SizesAssumption
<1>6. (f + 1) * PageBytes = f * PageBytes + PageBytes /\ f * PageBytes \in Nat
  BY SizesAssumption
<1> QED
  BY <1>2, <1>3, <1>5, <1>6, SizesAssumption

\* Outside the last page, the rounded address is the first page at or above it.
LEMMA RoundedUp ==
  ASSUME NEW x \in Nat, NEW f \in Nat, x <= Space - PageBytes
  PROVE  SizeToPages(x) <= f <=> x <= f * PageBytes
<1> DEFINE m == x + PageBytes - 1
           q == m \div PageBytes
<1>1. Space \in Nat \ {0}
  BY SizesAssumption DEF Space
<1>2. m \in Nat /\ m < Space
  BY <1>1, SizesAssumption
<1>3. m % Space = m
  BY <1>1, <1>2
<1>4. SizeToPages(x) = q
  BY <1>3 DEF SizeToPages
<1>5. q \in Nat /\ q * PageBytes <= m /\ m < (q + 1) * PageBytes
  BY <1>2, SizesAssumption
<1>6. f * PageBytes \in Nat /\ (f + 1) * PageBytes = f * PageBytes + PageBytes
  BY SizesAssumption
<1>7. (q + 1) * PageBytes = q * PageBytes + PageBytes /\ q * PageBytes \in Nat
  BY <1>5, SizesAssumption
<1> HIDE DEF q
<1>8. CASE q <= f
  <2>1. q * PageBytes <= f * PageBytes
    BY <1>5, <1>8, Monotone, SizesAssumption
  <2> QED
    BY <1>4, <1>5, <1>6, <1>7, <1>8, <2>1, SizesAssumption
<1>9. CASE f < q
  <2>1. (f + 1) * PageBytes <= q * PageBytes
    BY <1>5, <1>9, Monotone, SizesAssumption
  <2> QED
    BY <1>4, <1>5, <1>6, <1>9, <2>1, SizesAssumption
<1> QED
  BY <1>5, <1>8, <1>9

\* Of the first n - 1 entries, the last that contains frame f is RAM.
RamBefore(f, n) ==
  \E i \in DOMAIN mem_maps :
    /\ i < n /\ Covers(i, f) /\ mem_maps[i].type = "RAM"
    /\ \A j \in DOMAIN mem_maps : i < j /\ j < n => ~Covers(j, f)

\* Frames in use were FREE before, but a free marks them so again.
RamInv ==
  /\ \A f \in Frame : page_frame_database[f] = FREE \/ owners[f] > 0 => RamBefore(f, entry)
  /\ \A f \in Frame : owners[f] > 0 => phase \in {"run", "fault"}
  /\ phase \in {"run", "fault"} => entry > Len(mem_maps)

\* The entry the scan is at either leaves frame f as it was or decides it.
LEMMA ScanFrame ==
  ASSUME MapsRegular, TypeOK, ScanEntry, NEW f \in Frame,
         page_frame_database[f] = FREE => RamBefore(f, entry),
         page_frame_database'[f] = FREE
  PROVE  RamBefore(f, entry + 1)
<1> DEFINE e == mem_maps[entry]
           skipped == e.end < Low1M * PageBytes \/ e.begin >= Space
<1>1. /\ entry \in DOMAIN mem_maps /\ entry \in Nat /\ DOMAIN mem_maps \subseteq Nat
      /\ DOMAIN mem_maps = 1 .. Len(mem_maps)
  BY MapsAssumption, LenProperties DEF TypeOK, ScanEntry
<1>2. e \in [begin : Nat, end : Nat, type : MemType]
  BY <1>1, EntryType DEF TypeOK
<1>3. f \in Nat /\ f * PageBytes \in Nat /\ f * PageBytes < Space /\ Space \in Nat
  <2>1. f \in Nat /\ f + 1 <= Frames /\ Frames \in Nat /\ PageBytes \in Nat \ {0}
    BY SizesAssumption DEF Frame
  <2>2. (f + 1) * PageBytes <= Frames * PageBytes
    BY <2>1, Monotone
  <2>3. (f + 1) * PageBytes = f * PageBytes + PageBytes /\ f * PageBytes \in Nat
    BY <2>1
  <2> QED
    BY <2>1, <2>2, <2>3 DEF Space
<1>4. ASSUME Covers(entry, f), e.type = "RAM" PROVE RamBefore(f, entry + 1)
  BY <1>1, <1>4 DEF RamBefore
<1>5. ASSUME RamBefore(f, entry), ~Covers(entry, f) PROVE RamBefore(f, entry + 1)
  BY <1>1, <1>5 DEF RamBefore
<1>6. skipped \/ e.type = "OTHER" => ~Covers(entry, f)
  <2>1. Low1M * PageBytes \in Nat
    BY SizesAssumption
  <2> QED
    BY <1>2, <1>3, <2>1 DEF Covers
<1>7. CASE skipped \/ e.type = "OTHER"
  BY <1>5, <1>6, <1>7 DEF ScanEntry
<1>8. CASE ~(skipped \/ e.type = "OTHER") /\ f \in PagesOf(e.begin, e.end)
  <2>1. page_frame_database'[f] = Mark(e)
    BY <1>8 DEF ScanEntry
  <2>2. e.type = "RAM"
    BY <1>2, <1>8, <2>1 DEF Mark, FREE, MemType
  <2>3. e.begin <= Space - PageBytes
    BY <1>1, <1>2, <1>3, <1>8, <2>2 DEF MapsRegular, TypeOK
  <2>4. SizeToPages(e.begin) <= f /\ f < SizeToPages(e.end)
    <3>1. SizeToPages(e.begin) \in Int /\ SizeToPages(e.end) \in Int
      BY <1>2, SizeToPagesType, SizesAssumption
    <3>2. f \in SizeToPages(e.begin) .. SizeToPages(e.end) - 1
      BY <1>8 DEF PagesOf
    <3> HIDE DEF e
    <3> QED
      BY <1>3, <3>1, <3>2
  <2>5. e.begin <= f * PageBytes /\ f * PageBytes < e.end
    BY <1>2, <1>3, <2>3, <2>4, RoundedEnd, RoundedUp
  <2>6. ~(e.end < Low1M * PageBytes)
    BY <1>8
  <2>7. e.end >= Low1M * PageBytes
    BY <1>2, <2>6, SizesAssumption
  <2> QED
    BY <1>4, <2>2, <2>5, <2>7 DEF Covers
<1>9. CASE ~(skipped \/ e.type = "OTHER") /\ f \notin PagesOf(e.begin, e.end)
  <2>1. page_frame_database'[f] = page_frame_database[f]
    BY <1>9 DEF ScanEntry
  <2>2. RamBefore(f, entry)
    BY <2>1
  <2>3. CASE e.type = "RAM"
    BY <1>4, <1>5, <2>2, <2>3
  <2>4. CASE e.type # "RAM"
    <3>1. SUFFICES ASSUME Covers(entry, f) PROVE FALSE
      BY <1>5, <2>2
    <3>2. e.begin <= f * PageBytes /\ f * PageBytes < e.end
      BY <3>1 DEF Covers
    <3>3. e.begin < Space /\ e.type \in {"RESERVED", "ACPI", "NVS"}
      BY <1>2, <1>3, <1>9, <2>4, <3>2 DEF MemType
    <3>4. PICK i \in DOMAIN mem_maps : i < entry /\ Covers(i, f) /\ mem_maps[i].type = "RAM"
      BY <2>2 DEF RamBefore
    <3>5. mem_maps[i].end \in Nat /\ f * PageBytes < mem_maps[i].end
      BY <3>4, EntryType DEF Covers, TypeOK
    <3>6. i \in 1 .. entry - 1
      BY <1>1, <3>4
    <3>7. e.end <= Space - PageBytes \/ mem_maps[i].end <= e.begin
      BY <1>1, <3>3, <3>4, <3>6 DEF MapsRegular, TypeOK
    <3>8. e.end <= Space - PageBytes /\ e.begin <= Space - PageBytes
      BY <1>2, <1>3, <3>2, <3>5, <3>7, SizesAssumption
    <3>9. SizeToPages(e.begin) <= f /\ ~(SizeToPages(e.end) <= f)
      BY <1>2, <1>3, <3>2, <3>8, RoundedUp
    <3> QED
      BY <1>2, <1>3, <1>9, <3>9, SizeToPagesType, SizesAssumption DEF PagesOf
  <2> QED
    BY <2>3, <2>4
<1> QED
  BY <1>7, <1>8, <1>9

LEMMA BootRam ==
  ASSUME MapsRegular, TypeOK, RamInv, Boot
  PROVE  RamInv'
<1>1. mem_maps' = mem_maps /\ owners' = owners
  BY BootKeeps DEF Boot, RebuildOsPageTable, CreatePageFrameDb, ScanEntry, DatabaseUsable
<1>2. \A f \in Frame : owners[f] = 0
  BY SizesAssumption, SMTT(30)
     DEF RamInv, TypeOK, Boot, RebuildOsPageTable, CreatePageFrameDb, ScanEntry, DatabaseUsable
<1>3. \A f, n : RamBefore(f, n)' <=> RamBefore(f, n)
  BY <1>1 DEF RamBefore, Covers
<1>4. CASE RebuildOsPageTable \/ CreatePageFrameDb \/ DatabaseUsable
  <2>1. entry' = entry /\ (phase' \in {"run", "fault"} => entry > Len(mem_maps))
    BY <1>4 DEF RebuildOsPageTable, CreatePageFrameDb, DatabaseUsable
  <2>2. \A f \in Frame : page_frame_database'[f] = FREE => page_frame_database[f] = FREE
    BY <1>4 DEF RebuildOsPageTable, CreatePageFrameDb, DatabaseUsable, FREE
  <2> QED
    BY <1>1, <1>2, <1>3, <2>1, <2>2 DEF RamInv
<1>5. CASE ScanEntry
  <2>1. entry' = entry + 1 /\ phase' \notin {"run", "fault"}
    BY <1>5 DEF ScanEntry
  <2>2. \A f \in Frame : page_frame_database'[f] = FREE => RamBefore(f, entry + 1)
    BY <1>5, ScanFrame DEF RamInv
  <2> QED
    BY <1>1, <1>2, <1>3, <2>1, <2>2 DEF RamInv
<1> QED
  BY <1>4, <1>5 DEF Boot

\* An allocation hands out frames the database calls FREE.
LEMMA AllocFree ==
  ASSUME TypeOK, Alloc
  PROVE  /\ UNCHANGED <<mem_maps, entry, page_frame_database>>
         /\ phase' = phase \/ (phase = "run" /\ phase' = "fault")
         /\ \A f \in Frame : owners'[f] > 0 =>
              \/ owners[f] > 0
              \/ phase = "run" /\ page_frame_database[f] = FREE
<1>1. CASE alloc_physical_page
  BY <1>1 DEF alloc_physical_page, HandOut, IsLeast, PageCandidates, FreeIn, bootVars
<1>2. ASSUME NEW n \in 1 .. MaxRequest, alloc_physical_pages(n)
      PROVE  /\ UNCHANGED <<mem_maps, phase, entry, page_frame_database>>
             /\ \A f \in Frame : owners'[f] > 0 =>
                  \/ owners[f] > 0
                  \/ phase = "run" /\ page_frame_database[f] = FREE
  <2>1. PICK start \in Frame : start \in RunCandidates(n) /\ HandOut(start .. start + n - 1)
    BY <1>2, PagesFacts
  <2>2. \A f \in start .. start + n - 1 : page_frame_database[f] = FREE
    BY <2>1 DEF RunCandidates, FreeIn
  <2> QED
    BY <1>2, <2>1, <2>2 DEF alloc_physical_pages, HandOut, bootVars
<1>3. ASSUME NEW n \in 1 .. MaxRequest, alloc_fails(n) \/ alloc_faults(n)
      PROVE  /\ UNCHANGED <<mem_maps, entry, page_frame_database, owners>>
             /\ phase' = phase \/ (phase = "run" /\ phase' = "fault")
  BY <1>3 DEF alloc_fails, alloc_faults, vars, bootVars, frameVars
<1>4. CASE Faulting
  BY <1>4 DEF Faulting, vars, bootVars, frameVars
<1> QED
  BY <1>1, <1>2, <1>3, <1>4 DEF Alloc

\* create_page_frame_db marks as FREE nothing but RAM, for every order, overlap
\* and alignment of the E820 entries, and so nothing else is ever handed out.
THEOREM RamOnly ==
  ASSUME MapsRegular
  PROVE  Spec => []OwnedIsRam
<1>1. Init => RamInv
  BY DEF Init, RamInv, FREE
<1>2. TypeOK /\ RamInv /\ [Next]_vars => RamInv'
  <2> SUFFICES ASSUME TypeOK, RamInv, [Next]_vars PROVE RamInv'
    OBVIOUS
  <2>1. CASE UNCHANGED vars
    BY <2>1 DEF vars, bootVars, RamInv, RamBefore, Covers
  <2>2. CASE Boot
    BY <2>2, BootRam
  <2>3. CASE Alloc
    BY <2>3, AllocFree DEF RamInv, RamBefore, Covers
  <2>4. ASSUME NEW start \in Frame, NEW n \in 1 .. MaxRequest, free_physical_pages(start, n)
        PROVE  RamInv'
    <3>1. /\ UNCHANGED <<mem_maps, phase, entry>>
          /\ \A f \in Frame : owners'[f] > 0 => owners[f] > 0
      BY <2>4, SizesAssumption DEF free_physical_pages, bootVars, TypeOK
    <3>2. \A f \in Frame : page_frame_database'[f] = FREE =>
            page_frame_database[f] = FREE \/ owners[f] > 0
      BY <2>4 DEF free_physical_pages
    <3> QED
      BY <3>1, <3>2 DEF RamInv, RamBefore, Covers
  <2> QED
    BY <2>1, <2>2, <2>3, <2>4 DEF Next, Free
<1>3. TypeOK /\ RamInv => OwnedIsRam
  <2> SUFFICES ASSUME TypeOK, RamInv, NEW f \in Frame, owners[f] > 0
               PROVE  RamBefore(f, entry) /\ \A i \in DOMAIN mem_maps : i < entry
    BY DEF OwnedIsRam, RamBefore
  <2>1. DOMAIN mem_maps = 1 .. Len(mem_maps) /\ Len(mem_maps) \in Nat
    BY MapsAssumption, LenProperties DEF TypeOK
  <2> QED
    BY <2>1 DEF RamInv, TypeOK
<1> QED
  BY <1>1, <1>2, <1>3, TypeCorrect, PTL DEF Spec

-------------------------------------------------------------------------------
(* The least and the greatest of some numbers, and induction *)

LEMMA LeastNumber ==
  ASSUME NEW T \in SUBSET Nat, T # {}
  PROVE  Min(T) \in T /\ \A n \in T : Min(T) <= n
<1> DEFINE R == {ss \in Nat \X Nat : ss[1] < ss[2]}
<1>1. IsWellFoundedOn(R, Nat)
  BY NatLessThanWellFounded DEF OpToRel
<1>2. PICK k \in T : \A n \in T : <<n, k>> \notin R
  <2> HIDE DEF R
  <2> QED
    BY <1>1, WFMin
<1>3. \A n \in T : k <= n
  <2> SUFFICES ASSUME NEW n \in T PROVE k <= n
    OBVIOUS
  <2>1. <<n, k>> \notin R
    BY <1>2
  <2> QED
    BY <2>1
<1>4. \E x \in T : \A y \in T : x <= y
  BY <1>3
<1> QED
  BY <1>4, Zenon DEF Min

LEMMA GreatestNumber ==
  ASSUME NEW T \in SUBSET Nat, NEW n \in Nat, T # {}, \A k \in T : k <= n
  PROVE  Max(T) \in T /\ \A k \in T : k <= Max(T)
<1> DEFINE D == {n - k : k \in T}
<1>1. D \in SUBSET Nat /\ D # {}
  <2>1. \A k \in T : n - k \in Nat
    OBVIOUS
  <2> QED
    BY <2>1
<1>2. PICK d \in D : \A e \in D : d <= e
  <2> HIDE DEF D
  <2> QED
    BY <1>1, LeastNumber
<1>3. PICK k \in T : d = n - k
  BY <1>2
<1>4. \A j \in T : k >= j
  <2> SUFFICES ASSUME NEW j \in T PROVE k >= j
    OBVIOUS
  <2>1. n - j \in D
    OBVIOUS
  <2>2. n - k <= n - j
    BY <1>2, <1>3, <2>1
  <2>3. k \in Nat /\ j \in Nat
    OBVIOUS
  <2> HIDE DEF D
  <2> QED
    BY <2>2, <2>3
<1>5. \E x \in T : \A y \in T : x >= y
  BY <1>4
<1>6. Max(T) \in T /\ \A y \in T : Max(T) >= y
  BY <1>5, Zenon DEF Max
<1>7. Max(T) \in Nat
  BY <1>6
<1> QED
  BY <1>6, <1>7

LEMMA LesserOfTwo ==
  ASSUME NEW a \in Int, NEW b \in Int
  PROVE  Min({a, b}) = IF a <= b THEN a ELSE b
<1>1. \E x \in {a, b} : \A y \in {a, b} : x <= y
  <2>1. CASE a >= b
    BY <2>1
  <2>2. CASE b >= a
    BY <2>2
  <2> QED
    BY <2>1, <2>2
<1>2. Min({a, b}) \in {a, b} /\ \A y \in {a, b} : Min({a, b}) <= y
  BY <1>1, Zenon DEF Min
<1> QED
  BY <1>2

LEMMA NumberInduction ==
  ASSUME NEW T \in SUBSET Nat, 0 \in T, \A n \in T : n + 1 \in T
  PROVE  T = Nat
<1> SUFFICES ASSUME Nat \ T # {} PROVE FALSE
  OBVIOUS
<1>1. PICK k \in Nat \ T : \A n \in Nat \ T : k <= n
  BY LeastNumber
<1>2. k - 1 \in Nat /\ k = (k - 1) + 1
  BY <1>1
<1>3. k - 1 \in T
  BY <1>1, <1>2
<1> QED
  BY <1>1, <1>2, <1>3

-------------------------------------------------------------------------------
(* The loops that write *)

\* The memory after each of n steps upwards, and downwards.
AreUp(f, m, to, from, n) ==
  f = [i \in 0 .. n |-> IF i = 0 THEN m ELSE [f[i - 1] EXCEPT ![to + i - 1] = f[i - 1][from + i - 1]]]
AreDown(f, m, to, from, n) ==
  f = [i \in 0 .. n |-> IF i = 0 THEN m ELSE [f[i - 1] EXCEPT ![to + n - i] = f[i - 1][from + n - i]]]

\* m with its n elements from place "from" copied to place "to".
Copied(m, to, from, n) ==
  [j \in DOMAIN m |-> IF j \in to .. to + n - 1 THEN m[j - to + from] ELSE m[j]]

\* Upwards a copy comes out right when no place is read after it was written.
LEMMA UpCopies ==
  ASSUME NEW m \in Seq(Nat), NEW to \in DOMAIN m, NEW from \in DOMAIN m, NEW n \in Nat,
         Within(m, to, n), Within(m, from, n), to <= from \/ to >= from + n
  PROVE  Up(m, to, from, n) = Copied(m, to, from, n)
<1> DEFINE g == [i \in 0 .. n |-> Copied(m, to, from, i)]
           W(i, f) == IF i = 0 THEN m ELSE [f[i - 1] EXCEPT ![to + i - 1] = f[i - 1][from + i - 1]]
<1>0. DOMAIN m = 1 .. Len(m) /\ Len(m) \in Nat
  BY LenProperties
<1>1. ASSUME NEW i \in 1 .. n
      PROVE  Copied(m, to, from, i)
               = [Copied(m, to, from, i - 1) EXCEPT ![to + i - 1] = Copied(m, to, from, i - 1)[from + i - 1]]
  <2> DEFINE c == Copied(m, to, from, i - 1)
  <2>1. from + i - 1 \in DOMAIN m /\ to + i - 1 \in DOMAIN m
    BY <1>0, <1>1, SMTT(30) DEF Within
  <2>2. from + i - 1 \notin to .. to + (i - 1) - 1
    BY <1>0, <1>1
  <2>3. c[from + i - 1] = m[from + i - 1]
    BY <2>1, <2>2 DEF Copied
  <2>4. ASSUME NEW j \in DOMAIN m
        PROVE  Copied(m, to, from, i)[j] = [c EXCEPT ![to + i - 1] = m[from + i - 1]][j]
    <3>1. Copied(m, to, from, i)[j] = IF j \in to .. to + i - 1 THEN m[j - to + from] ELSE m[j]
      BY DEF Copied
    <3>2. [c EXCEPT ![to + i - 1] = m[from + i - 1]][j] = IF j = to + i - 1 THEN m[from + i - 1] ELSE c[j]
      BY <2>1 DEF Copied
    <3>3. c[j] = IF j \in to .. to + (i - 1) - 1 THEN m[j - to + from] ELSE m[j]
      BY DEF Copied
    <3>4. CASE j = to + i - 1
      <4>1. j - to + from = from + i - 1 /\ j \in to .. to + i - 1
        BY <1>0, <1>1, <3>4
      <4> QED
        BY <3>1, <3>2, <3>4, <4>1
    <3>5. CASE j # to + i - 1
      <4>1. j \in to .. to + i - 1 <=> j \in to .. to + (i - 1) - 1
        BY <1>0, <1>1, <3>5, SMTT(30)
      <4> QED
        BY <3>1, <3>2, <3>3, <3>5, <4>1
    <3> QED
      BY <3>4, <3>5
  <2>5. DOMAIN c = DOMAIN m /\ DOMAIN Copied(m, to, from, i) = DOMAIN m
    BY DEF Copied
  <2>6. Copied(m, to, from, i) = [j \in DOMAIN m |-> Copied(m, to, from, i)[j]]
    BY <2>5 DEF Copied
  <2>7. [c EXCEPT ![to + i - 1] = m[from + i - 1]] = [j \in DOMAIN m |-> [c EXCEPT ![to + i - 1] = m[from + i - 1]][j]]
    BY <2>5 DEF Copied
  <2> HIDE DEF c
  <2>8. Copied(m, to, from, i) = [c EXCEPT ![to + i - 1] = m[from + i - 1]]
    BY <2>4, <2>6, <2>7
  <2> QED
    BY <2>3, <2>8 DEF c
<1>2. Copied(m, to, from, 0) = m
  <2>1. \A j \in DOMAIN m : j \notin to .. to + 0 - 1
    BY <1>0
  <2>2. m = [j \in DOMAIN m |-> m[j]]
    BY LenProperties
  <2> QED
    BY <2>1, <2>2 DEF Copied
<1>3. AreUp(g, m, to, from, n)
  <2>1. \A i \in 0 .. n : g[i] = W(i, g)
    <3> SUFFICES ASSUME NEW i \in 0 .. n PROVE g[i] = W(i, g)
      OBVIOUS
    <3>1. CASE i = 0
      BY <1>2, <3>1
    <3>2. CASE i # 0
      <4>1. i \in 1 .. n /\ i - 1 \in 0 .. n
        BY <3>2
      <4>2. g[i] = Copied(m, to, from, i) /\ g[i - 1] = Copied(m, to, from, i - 1)
        BY <4>1
      <4> QED
        BY <1>1, <3>2, <4>1, <4>2
    <3> QED
      BY <3>1, <3>2
  <2>2. g = [i \in 0 .. n |-> W(i, g)]
    <3>1. g = [i \in 0 .. n |-> g[i]]
      OBVIOUS
    <3> HIDE DEF g, W
    <3> QED
      BY <2>1, <3>1
  <2> HIDE DEF g
  <2> QED
    BY <2>2 DEF AreUp
<1>4. ASSUME NEW f, AreUp(f, m, to, from, n)
      PROVE  f[n] = Copied(m, to, from, n)
  <2> DEFINE T == {i \in Nat : i <= n => f[i] = Copied(m, to, from, i)}
  <2>0. \A i \in 0 .. n : f[i] = W(i, f)
    BY <1>4 DEF AreUp
  <2>1. 0 \in T
    <3>1. 0 \in 0 .. n
      OBVIOUS
    <3>2. f[0] = W(0, f)
      BY <2>0, <3>1
    <3> QED
      BY <1>2, <3>2
  <2>2. ASSUME NEW i \in T PROVE i + 1 \in T
    <3> SUFFICES ASSUME i + 1 <= n PROVE f[i + 1] = Copied(m, to, from, i + 1)
      BY <2>2
    <3>1. i + 1 \in 1 .. n /\ (i + 1) - 1 = i /\ i + 1 # 0 /\ i + 1 \in 0 .. n /\ i <= n
      BY <2>2
    <3>2. f[i] = Copied(m, to, from, i)
      BY <2>2, <3>1
    <3>3. f[i + 1] = [f[(i + 1) - 1] EXCEPT ![to + (i + 1) - 1] = f[(i + 1) - 1][from + (i + 1) - 1]]
      BY <2>0, <3>1
    <3> DEFINE k == i + 1
    <3>4. k \in 1 .. n /\ k - 1 = i
      BY <3>1
    <3>5. f[k] = [Copied(m, to, from, k - 1) EXCEPT ![to + k - 1] = Copied(m, to, from, k - 1)[from + k - 1]]
      BY <3>2, <3>3, <3>4
    <3> HIDE DEF k
    <3>6. f[k] = Copied(m, to, from, k)
      BY <1>1, <3>4, <3>5
    <3> QED
      BY <3>6 DEF k
  <2>3. T \in SUBSET Nat
    OBVIOUS
  <2> HIDE DEF T
  <2>4. n \in T
    BY <2>1, <2>2, <2>3, NumberInduction
  <2> QED
    BY <2>4 DEF T
<1> HIDE DEF g
<1>5. \E f : AreUp(f, m, to, from, n)
  BY <1>3
<1> DEFINE h == CHOOSE f : AreUp(f, m, to, from, n)
<1>6. AreUp(h, m, to, from, n)
  BY <1>5, Zenon
<1>7. Up(m, to, from, n) = h[n]
  BY Zenon DEF Up, AreUp
<1> HIDE DEF h
<1> QED
  BY <1>4, <1>6, <1>7

\* m with the last i of the n elements copied.
TailCopied(m, to, from, n, i) == Copied(m, to + n - i, from + n - i, i)

\* Downwards as well.
LEMMA DownCopies ==
  ASSUME NEW m \in Seq(Nat), NEW to \in DOMAIN m, NEW from \in DOMAIN m, NEW n \in Nat,
         Within(m, to, n), Within(m, from, n), to >= from
  PROVE  Down(m, to, from, n) = Copied(m, to, from, n)
<1> DEFINE g == [i \in 0 .. n |-> TailCopied(m, to, from, n, i)]
           W(i, f) == IF i = 0 THEN m ELSE [f[i - 1] EXCEPT ![to + n - i] = f[i - 1][from + n - i]]
<1>0. DOMAIN m = 1 .. Len(m) /\ Len(m) \in Nat
  BY LenProperties
<1>1. ASSUME NEW i \in 1 .. n
      PROVE  TailCopied(m, to, from, n, i)
               = [TailCopied(m, to, from, n, i - 1) EXCEPT ![to + n - i] = TailCopied(m, to, from, n, i - 1)[from + n - i]]
  <2> DEFINE c == TailCopied(m, to, from, n, i - 1)
  <2>1. from + n - i \in DOMAIN m /\ to + n - i \in DOMAIN m
    BY <1>0, <1>1 DEF Within
  <2>2. from + n - i \notin to + n - (i - 1) .. to + n - (i - 1) + (i - 1) - 1
    BY <1>0, <1>1
  <2>3. c[from + n - i] = m[from + n - i]
    BY <2>1, <2>2 DEF TailCopied, Copied
  <2>4. ASSUME NEW j \in DOMAIN m
        PROVE  TailCopied(m, to, from, n, i)[j] = [c EXCEPT ![to + n - i] = m[from + n - i]][j]
    <3>1. TailCopied(m, to, from, n, i)[j] = IF j \in to + n - i .. to + n - 1 THEN m[j - to + from] ELSE m[j]
      BY <1>0, <1>1, SMTT(30) DEF TailCopied, Copied
    <3>2. [c EXCEPT ![to + n - i] = m[from + n - i]][j] = IF j = to + n - i THEN m[from + n - i] ELSE c[j]
      BY <2>1 DEF TailCopied, Copied
    <3>3. c[j] = IF j \in to + n - (i - 1) .. to + n - 1 THEN m[j - to + from] ELSE m[j]
      <4>1. /\ to + n - (i - 1) + (i - 1) - 1 = to + n - 1
            /\ j - (to + n - (i - 1)) + (from + n - (i - 1)) = j - to + from
        BY <1>0, <1>1
      <4> QED
        BY <4>1 DEF TailCopied, Copied
    <3>4. CASE j = to + n - i
      <4>1. j - to + from = from + n - i /\ j \in to + n - i .. to + n - 1
        BY <1>0, <1>1, <3>4
      <4> QED
        BY <3>1, <3>2, <3>4, <4>1
    <3>5. CASE j # to + n - i
      <4>0. to \in Int /\ j \in Int /\ i \in Int
        BY <1>0, <1>1
      <4>1. j \in to + n - i .. to + n - 1 <=> j \in to + n - (i - 1) .. to + n - 1
        BY ONLY <3>5, <4>0, n \in Nat
      <4> QED
        BY <3>1, <3>2, <3>3, <3>5, <4>1
    <3> QED
      BY <3>4, <3>5
  <2>5. DOMAIN c = DOMAIN m /\ DOMAIN TailCopied(m, to, from, n, i) = DOMAIN m
    BY DEF TailCopied, Copied
  <2>6. TailCopied(m, to, from, n, i) = [j \in DOMAIN m |-> TailCopied(m, to, from, n, i)[j]]
    BY <2>5 DEF TailCopied, Copied
  <2>7. [c EXCEPT ![to + n - i] = m[from + n - i]] = [j \in DOMAIN m |-> [c EXCEPT ![to + n - i] = m[from + n - i]][j]]
    BY <2>5 DEF TailCopied, Copied
  <2> HIDE DEF c
  <2>8. TailCopied(m, to, from, n, i) = [c EXCEPT ![to + n - i] = m[from + n - i]]
    BY <2>4, <2>6, <2>7
  <2> QED
    BY <2>3, <2>8 DEF c
<1>2. TailCopied(m, to, from, n, 0) = m
  <2>1. \A j \in DOMAIN m : j \notin to + n - 0 .. to + n - 0 + 0 - 1
    BY <1>0
  <2>2. m = [j \in DOMAIN m |-> m[j]]
    BY LenProperties
  <2> QED
    BY <2>1, <2>2 DEF TailCopied, Copied
<1>3. AreDown(g, m, to, from, n)
  <2>1. \A i \in 0 .. n : g[i] = W(i, g)
    <3> SUFFICES ASSUME NEW i \in 0 .. n PROVE g[i] = W(i, g)
      OBVIOUS
    <3>1. CASE i = 0
      BY <1>2, <3>1
    <3>2. CASE i # 0
      <4>1. i \in 1 .. n /\ i - 1 \in 0 .. n
        BY <3>2
      <4>2. g[i] = TailCopied(m, to, from, n, i) /\ g[i - 1] = TailCopied(m, to, from, n, i - 1)
        BY <4>1
      <4> QED
        BY <1>1, <3>2, <4>1, <4>2
    <3> QED
      BY <3>1, <3>2
  <2>2. g = [i \in 0 .. n |-> W(i, g)]
    <3>1. g = [i \in 0 .. n |-> g[i]]
      OBVIOUS
    <3> HIDE DEF g, W
    <3> QED
      BY <2>1, <3>1
  <2> HIDE DEF g
  <2> QED
    BY <2>2 DEF AreDown
<1>4. ASSUME NEW f, AreDown(f, m, to, from, n)
      PROVE  f[n] = Copied(m, to, from, n)
  <2> DEFINE T == {i \in Nat : i <= n => f[i] = TailCopied(m, to, from, n, i)}
  <2>0. \A i \in 0 .. n : f[i] = W(i, f)
    BY <1>4 DEF AreDown
  <2>1. 0 \in T
    <3>1. 0 \in 0 .. n
      OBVIOUS
    <3>2. f[0] = W(0, f)
      BY <2>0, <3>1
    <3> QED
      BY <1>2, <3>2
  <2>2. ASSUME NEW i \in T PROVE i + 1 \in T
    <3> SUFFICES ASSUME i + 1 <= n PROVE f[i + 1] = TailCopied(m, to, from, n, i + 1)
      BY <2>2
    <3>1. i + 1 \in 1 .. n /\ (i + 1) - 1 = i /\ i + 1 # 0 /\ i + 1 \in 0 .. n /\ i <= n
      BY <2>2
    <3>2. f[i] = TailCopied(m, to, from, n, i)
      BY <2>2, <3>1
    <3>3. f[i + 1] = [f[(i + 1) - 1] EXCEPT ![to + n - (i + 1)] = f[(i + 1) - 1][from + n - (i + 1)]]
      BY <2>0, <3>1
    <3> DEFINE k == i + 1
    <3>4. k \in 1 .. n /\ k - 1 = i
      BY <3>1
    <3>5. f[k] = [TailCopied(m, to, from, n, k - 1) EXCEPT ![to + n - k] = TailCopied(m, to, from, n, k - 1)[from + n - k]]
      BY <3>2, <3>3, <3>4
    <3> HIDE DEF k
    <3>6. f[k] = TailCopied(m, to, from, n, k)
      BY <1>1, <3>4, <3>5
    <3> QED
      BY <3>6 DEF k
  <2>3. T \in SUBSET Nat
    OBVIOUS
  <2> HIDE DEF T
  <2>4. n \in T
    BY <2>1, <2>2, <2>3, NumberInduction
  <2>5. to + n - n = to /\ from + n - n = from
    BY <1>0
  <2>6. TailCopied(m, to, from, n, n) = Copied(m, to, from, n)
    BY <2>5 DEF TailCopied
  <2> QED
    BY <2>4, <2>6 DEF T
<1> HIDE DEF g
<1>5. \E f : AreDown(f, m, to, from, n)
  BY <1>3
<1> DEFINE h == CHOOSE f : AreDown(f, m, to, from, n)
<1>6. AreDown(h, m, to, from, n)
  BY <1>5, Zenon
<1>7. Down(m, to, from, n) = h[n]
  BY Zenon DEF Down, AreDown
<1> HIDE DEF h
<1> QED
  BY <1>4, <1>6, <1>7

-------------------------------------------------------------------------------
(* Texts *)

LEMMA EndFacts ==
  ASSUME NEW m \in Seq(Nat), NEW p \in DOMAIN m, Terminated(m, p)
  PROVE  /\ End(m, p) \in DOMAIN m /\ End(m, p) \in Nat /\ p <= End(m, p) /\ m[End(m, p)] = 0
         /\ \A i \in DOMAIN m : i >= p /\ i < End(m, p) => m[i] # 0
         /\ strlen(m, p) \in Nat /\ End(m, p) = p + strlen(m, p)
<1> DEFINE T == {i \in DOMAIN m : i >= p /\ m[i] = 0}
<1>1. DOMAIN m = 1 .. Len(m) /\ Len(m) \in Nat
  BY LenProperties
<1>2. T \in SUBSET Nat /\ T # {}
  BY <1>1 DEF Terminated
<1>3. End(m, p) = Min(T)
  BY DEF End
<1>4. \A i \in T : i \in DOMAIN m /\ i >= p /\ m[i] = 0
  OBVIOUS
<1>5. \A i \in DOMAIN m : i >= p /\ m[i] = 0 => i \in T
  OBVIOUS
<1> HIDE DEF T
<1>6. End(m, p) \in T /\ \A i \in T : End(m, p) <= i
  BY <1>2, <1>3, LeastNumber
<1>7. End(m, p) \in DOMAIN m /\ End(m, p) \in Nat /\ p <= End(m, p) /\ m[End(m, p)] = 0 /\ p \in Nat
  BY <1>1, <1>4, <1>6
<1>8. \A i \in DOMAIN m : i >= p /\ i < End(m, p) => m[i] # 0
  <2> SUFFICES ASSUME NEW i \in DOMAIN m, i >= p, i < End(m, p), m[i] = 0 PROVE FALSE
    OBVIOUS
  <2>1. i \in T /\ i \in Nat
    BY <1>1, <1>5
  <2> QED
    BY <1>6, <1>7, <2>1
<1>9. strlen(m, p) \in Nat /\ End(m, p) = p + strlen(m, p)
  BY <1>7 DEF strlen
<1> QED
  BY <1>7, <1>8, <1>9

\* The text at p is what lies before its terminator.
LEMMA TextFacts ==
  ASSUME NEW m \in Seq(Nat), NEW p \in DOMAIN m, Terminated(m, p)
  PROVE  /\ TextAt(m, p) \in Seq(Nat) /\ Len(TextAt(m, p)) = strlen(m, p)
         /\ \A i \in 1 .. strlen(m, p) : p + i - 1 \in DOMAIN m /\ TextAt(m, p)[i] = m[p + i - 1] /\ TextAt(m, p)[i] # 0
<1> DEFINE e == End(m, p)
<1>1. DOMAIN m = 1 .. Len(m) /\ Len(m) \in Nat
  BY LenProperties
<1>2. /\ e \in DOMAIN m /\ e \in Nat /\ p <= e /\ m[e] = 0
      /\ \A i \in DOMAIN m : i >= p /\ i < e => m[i] # 0
      /\ strlen(m, p) \in Nat /\ e = p + strlen(m, p)
  BY EndFacts
<1> HIDE DEF e
<1>3. \A i \in p .. e - 1 : i \in DOMAIN m /\ m[i] \in Nat
  BY <1>1, <1>2
<1>4. p \in Int /\ e - 1 \in Int
  BY <1>1, <1>2
<1>5. /\ SubSeq(m, p, e - 1) \in Seq(Nat)
      /\ Len(SubSeq(m, p, e - 1)) = IF p <= e - 1 THEN e - 1 - p + 1 ELSE 0
      /\ \A i \in 1 .. e - 1 - p + 1 : SubSeq(m, p, e - 1)[i] = m[p + i - 1]
  BY <1>3, <1>4, SubSeqProperties
<1>6. TextAt(m, p) = SubSeq(m, p, e - 1)
  BY DEF TextAt, e
<1>7. Len(TextAt(m, p)) = strlen(m, p)
  BY <1>2, <1>4, <1>5, <1>6, SMTT(30)
<1>8. ASSUME NEW i \in 1 .. strlen(m, p)
      PROVE  p + i - 1 \in DOMAIN m /\ TextAt(m, p)[i] = m[p + i - 1] /\ TextAt(m, p)[i] # 0
  <2>0. e - 1 - p + 1 = strlen(m, p) /\ e \in Int /\ p \in Int /\ i \in Int /\ strlen(m, p) \in Int
    BY <1>2, <1>4
  <2>1. i \in 1 .. e - 1 - p + 1 /\ p + i - 1 \in p .. e - 1
    BY ONLY <2>0, i \in 1 .. strlen(m, p)
  <2>2. p + i - 1 \in DOMAIN m /\ p + i - 1 >= p /\ p + i - 1 < e
    BY <1>2, <1>3, <1>4, <2>1, SMTT(30)
  <2> QED
    BY <1>2, <1>5, <1>6, <2>1, <2>2, ZenonT(40)
<1> QED
  BY <1>5, <1>6, <1>7, <1>8

\* The beginning of a sequence.
LEMMA TakeFacts ==
  ASSUME NEW S, NEW s \in Seq(S), NEW n \in Nat
  PROVE  /\ Take(s, n) \in Seq(S) /\ Len(Take(s, n)) = (IF n <= Len(s) THEN n ELSE Len(s))
         /\ \A i \in 1 .. Len(Take(s, n)) : Take(s, n)[i] = s[i]
<1>1. DOMAIN s = 1 .. Len(s) /\ Len(s) \in Nat
  BY LenProperties
<1> DEFINE l == IF n <= Len(s) THEN n ELSE Len(s)
<1>2. Take(s, n) = SubSeq(s, 1, l)
  BY <1>1, LesserOfTwo DEF Take
<1>3. l \in Nat /\ l <= Len(s)
  BY <1>1
<1> HIDE DEF l
<1>4. \A i \in 1 .. l : s[i] \in S
  BY <1>1, <1>3, ElementOfSeq
<1>5. /\ SubSeq(s, 1, l) \in Seq(S)
      /\ Len(SubSeq(s, 1, l)) = IF 1 <= l THEN l - 1 + 1 ELSE 0
      /\ \A i \in 1 .. l - 1 + 1 : SubSeq(s, 1, l)[i] = s[1 + i - 1]
  BY <1>3, <1>4, SubSeqProperties
<1>6. Len(Take(s, n)) = l
  BY <1>2, <1>3, <1>5
<1>7. \A i \in 1 .. l : Take(s, n)[i] = s[i]
  BY <1>2, <1>3, <1>5
<1> QED
  BY <1>2, <1>5, <1>6, <1>7 DEF l

-------------------------------------------------------------------------------
(* What each function writes *)

\* Memory w is b but for the elements s from place "to" on.
Written(b, w, to, s) == \A i \in DOMAIN w : w[i] = IF i \in to .. to + Len(s) - 1 THEN s[i - to + 1] ELSE b[i]

LEMMA OneMore ==
  ASSUME NEW i \in Int, NEW to \in Int, NEW n \in Nat, i \notin to .. to + n - 1, i # to + n
  PROVE  i \notin to .. to + (n + 1) - 1 /\ i \notin to + n .. to + n + 1 - 1
  OBVIOUS

LEMMA InHead ==
  ASSUME NEW i \in Int, NEW to \in Int, NEW h \in Nat, NEW n \in Nat,
         i \in to .. to + (h + n) - 1, i \notin to + h .. to + h + n - 1
  PROVE  i - to + 1 \in 1 .. h /\ i - to + 1 \in 1 .. h + n /\ to + (i - to + 1) - 1 = i
  OBVIOUS

LEMMA InTail ==
  ASSUME NEW i \in Int, NEW to \in Int, NEW h \in Nat, NEW n \in Nat,
         i \in to + h .. to + h + n - 1
  PROVE  /\ i \in to .. to + (h + n) - 1 /\ i - to + 1 \in 1 .. h + n
         /\ ~(i - to + 1 <= h) /\ i - to + 1 - h = i - (to + h) + 1
  OBVIOUS

LEMMA InText ==
  ASSUME NEW i \in Int, NEW to \in Int, NEW n \in Nat, NEW k \in Nat, NEW s \in Nat, s <= k, k <= n,
         i \in to .. to + n - 1, i - to + 1 <= s
  PROVE  /\ i - to + 1 \in 1 .. n /\ i - to + 1 \in 1 .. s /\ i \in to .. to + k - 1
         /\ i \notin to + k .. to + k + (n - k) - 1
  OBVIOUS

LEMMA InPadding ==
  ASSUME NEW i \in Int, NEW to \in Int, NEW n \in Nat, NEW l \in Nat, l < n,
         i \in to .. to + n - 1, ~(i - to + 1 <= l)
  PROVE  i - to + 1 \in 1 .. n /\ (i - to + 1) - l \in 1 .. n - l
  OBVIOUS

LEMMA AtTerminator ==
  ASSUME NEW i \in Int, NEW to \in Int, NEW n \in Nat, NEW l \in Nat, i - to = l
  PROVE  i \in to .. to + (l + 1) - 1 /\ i \notin to + (l + 1) .. to + (l + 1) + (n - (l + 1)) - 1
  OBVIOUS

LEMMA BehindTerminator ==
  ASSUME NEW i \in Int, NEW to \in Int, NEW n \in Nat, NEW l \in Nat,
         i \in to .. to + n - 1, ~(i - to + 1 <= l), i - to # l
  PROVE  i \in to + (l + 1) .. to + (l + 1) + (n - (l + 1)) - 1
  OBVIOUS

LEMMA CopiedIsWritten ==
  ASSUME NEW m \in Seq(Nat), NEW to \in DOMAIN m, NEW from \in DOMAIN m, NEW n \in Nat,
         Within(m, to, n), Within(m, from, n),
         NEW s \in Seq(Nat), Len(s) = n, \A i \in 1 .. n : s[i] = m[from + i - 1]
  PROVE  Written(m, Copied(m, to, from, n), to, s)
<1>1. DOMAIN m = 1 .. Len(m) /\ Len(m) \in Nat
  BY LenProperties
<1>2. SUFFICES ASSUME NEW j \in DOMAIN m
               PROVE  Copied(m, to, from, n)[j] = IF j \in to .. to + n - 1 THEN s[j - to + 1] ELSE m[j]
  BY DEF Written, Copied
<1>3. CASE j \in to .. to + n - 1
  <2>1. j - to + 1 \in 1 .. n /\ from + (j - to + 1) - 1 = j - to + from
    BY <1>1, <1>3
  <2>2. s[j - to + 1] = m[j - to + from]
    BY <2>1
  <2> QED
    BY <1>3, <2>2 DEF Copied
<1>4. CASE j \notin to .. to + n - 1
  BY <1>4 DEF Copied
<1> QED
  BY <1>3, <1>4

LEMMA BlockFacts ==
  ASSUME NEW m \in Seq(Nat), NEW from \in DOMAIN m, NEW n \in Nat, Within(m, from, n)
  PROVE  /\ SubSeq(m, from, from + n - 1) \in Seq(Nat) /\ Len(SubSeq(m, from, from + n - 1)) = n
         /\ \A i \in 1 .. n : SubSeq(m, from, from + n - 1)[i] = m[from + i - 1]
<1>1. DOMAIN m = 1 .. Len(m) /\ Len(m) \in Nat
  BY LenProperties
<1>2. from \in Int /\ from + n - 1 \in Int
  BY <1>1
<1>3. \A i \in from .. from + n - 1 : m[i] \in Nat
  BY <1>1, <1>2 DEF Within
<1>4. /\ SubSeq(m, from, from + n - 1) \in Seq(Nat)
      /\ Len(SubSeq(m, from, from + n - 1)) = IF from <= from + n - 1 THEN from + n - 1 - from + 1 ELSE 0
      /\ \A i \in 1 .. from + n - 1 - from + 1 : SubSeq(m, from, from + n - 1)[i] = m[from + i - 1]
  BY <1>2, <1>3, SubSeqProperties, SMTT(30)
<1>5. from + n - 1 - from + 1 = n /\ (from <= from + n - 1 <=> n # 0)
  BY <1>2
<1> QED
  BY <1>4, <1>5

LEMMA MemmoveWrites ==
  ASSUME NEW m \in Seq(Nat), NEW to \in DOMAIN m, NEW from \in DOMAIN m, NEW n \in Nat,
         Within(m, to, n), Within(m, from, n)
  PROVE  Written(m, memmove(m, to, from, n), to, SubSeq(m, from, from + n - 1))
<1>1. DOMAIN m = 1 .. Len(m) /\ Len(m) \in Nat
  BY LenProperties
<1>2. memmove(m, to, from, n) = Copied(m, to, from, n)
  <2>1. CASE to <= from \/ to >= from + n
    BY <2>1, UpCopies DEF memmove
  <2>2. CASE ~(to <= from \/ to >= from + n)
    <3>1. to >= from
      BY <1>1, <2>2
    <3> QED
      BY <2>2, <3>1, DownCopies DEF memmove
  <2> QED
    BY <2>1, <2>2
<1> QED
  BY <1>2, BlockFacts, CopiedIsWritten

LEMMA ApartIsUp ==
  ASSUME NEW m \in Seq(Nat), NEW to \in DOMAIN m, NEW from \in DOMAIN m, NEW n \in Nat, NEW k \in Nat,
         n <= k, Within(m, to, n), Within(m, from, n), Apart(to, k, from, n)
  PROVE  Up(m, to, from, n) = Copied(m, to, from, n)
<1>1. to \in Nat /\ from \in Nat
  BY LenProperties
<1>2. to <= from \/ to >= from + n
  BY <1>1 DEF Apart
<1> QED
  BY <1>2, UpCopies

LEMMA MemcpyWrites ==
  ASSUME NEW m \in Seq(Nat), NEW to \in DOMAIN m, NEW from \in DOMAIN m, NEW n \in Nat,
         Within(m, to, n), Within(m, from, n), Apart(to, n, from, n)
  PROVE  Written(m, memcpy(m, to, from, n), to, SubSeq(m, from, from + n - 1))
<1>1. memcpy(m, to, from, n) = Copied(m, to, from, n)
  BY ApartIsUp DEF memcpy
<1> QED
  BY <1>1, BlockFacts, CopiedIsWritten

\* A text with its terminator.
LEMMA TerminatedFacts ==
  ASSUME NEW m \in Seq(Nat), NEW p \in DOMAIN m, Terminated(m, p)
  PROVE  /\ Append(TextAt(m, p), 0) \in Seq(Nat) /\ Len(Append(TextAt(m, p), 0)) = strlen(m, p) + 1
         /\ \A i \in 1 .. strlen(m, p) + 1 : Append(TextAt(m, p), 0)[i] = m[p + i - 1]
         /\ Within(m, p, strlen(m, p) + 1)
<1> DEFINE n == strlen(m, p)
           t == TextAt(m, p)
<1>1. /\ n \in Nat /\ End(m, p) = p + n /\ m[End(m, p)] = 0 /\ End(m, p) \in DOMAIN m
  BY EndFacts
<1>2. /\ t \in Seq(Nat) /\ Len(t) = n
      /\ \A i \in 1 .. n : t[i] = m[p + i - 1]
  BY TextFacts
<1>3. DOMAIN m = 1 .. Len(m) /\ Len(m) \in Nat
  BY LenProperties
<1>4. Within(m, p, n + 1)
  BY <1>1, <1>3 DEF Within
<1> HIDE DEF n, t
<1>5. /\ Append(t, 0) \in Seq(Nat) /\ Len(Append(t, 0)) = Len(t) + 1
      /\ \A i \in 1 .. Len(t) : Append(t, 0)[i] = t[i]
      /\ Append(t, 0)[Len(t) + 1] = 0
  BY <1>2, AppendProperties
<1>6. ASSUME NEW i \in 1 .. n + 1
      PROVE  Append(t, 0)[i] = m[p + i - 1]
  <2>1. CASE i = n + 1
    <3>1. p + i - 1 = End(m, p)
      BY <1>1, <1>3, <2>1
    <3> QED
      BY <1>1, <1>2, <1>5, <2>1, <3>1
  <2>2. CASE i # n + 1
    <3>1. i \in 1 .. n
      BY <1>1, <2>2
    <3> QED
      BY <1>2, <1>5, <3>1
  <2> QED
    BY <2>1, <2>2
<1> QED
  BY <1>2, <1>4, <1>5, <1>6 DEF n, t

LEMMA StrcpyWrites ==
  ASSUME NEW m \in Seq(Nat), NEW to \in DOMAIN m, NEW from \in DOMAIN m, Terminated(m, from),
         Within(m, to, strlen(m, from) + 1), NEW k \in Nat, strlen(m, from) + 1 <= k,
         Apart(to, k, from, strlen(m, from) + 1)
  PROVE  Written(m, strcpy(m, to, from), to, Append(TextAt(m, from), 0))
<1> DEFINE n == strlen(m, from) + 1
           t == Append(TextAt(m, from), 0)
<1>1. n \in Nat
  BY EndFacts
<1>2. t \in Seq(Nat) /\ Len(t) = n /\ (\A i \in 1 .. n : t[i] = m[from + i - 1]) /\ Within(m, from, n)
  BY TerminatedFacts
<1>3. Within(m, to, n) /\ Apart(to, k, from, n) /\ n <= k /\ strcpy(m, to, from) = Up(m, to, from, n)
  BY DEF strcpy
<1> HIDE DEF n, t
<1>4. strcpy(m, to, from) = Copied(m, to, from, n)
  BY <1>1, <1>2, <1>3, ApartIsUp
<1>5. Written(m, strcpy(m, to, from), to, t)
  BY <1>1, <1>2, <1>3, <1>4, CopiedIsWritten
<1> QED
  BY <1>5 DEF t

LEMMA StrcatWrites ==
  ASSUME NEW m \in Seq(Nat), NEW to \in DOMAIN m, NEW from \in DOMAIN m, Terminated(m, from), Terminated(m, to),
         Within(m, End(m, to), strlen(m, from) + 1),
         Apart(to, strlen(m, to) + (strlen(m, from) + 1), from, strlen(m, from) + 1)
  PROVE  Written(m, strcat(m, to, from), to, TextAt(m, to) \o Append(TextAt(m, from), 0))
<1> DEFINE e == End(m, to)
           n == strlen(m, from) + 1
           h == strlen(m, to)
           t == Append(TextAt(m, from), 0)
           u == TextAt(m, to)
<1>1. DOMAIN m = 1 .. Len(m) /\ Len(m) \in Nat
  BY LenProperties
<1>2. n \in Nat /\ e \in DOMAIN m /\ h \in Nat /\ e = to + h
  BY EndFacts
<1>3. t \in Seq(Nat) /\ Len(t) = n /\ (\A i \in 1 .. n : t[i] = m[from + i - 1]) /\ Within(m, from, n)
  BY TerminatedFacts
<1>4. u \in Seq(Nat) /\ Len(u) = h /\ \A i \in 1 .. h : u[i] = m[to + i - 1]
  BY TextFacts
<1>5. Within(m, e, n) /\ Apart(to, h + n, from, n) /\ strcat(m, to, from) = Up(m, e, from, n)
  BY DEF strcat
<1> HIDE DEF e, n, h, t, u
<1>6. e <= from \/ e >= from + n
  BY <1>1, <1>2, <1>5 DEF Apart
<1>7. strcat(m, to, from) = Copied(m, e, from, n)
  BY <1>2, <1>3, <1>5, <1>6, UpCopies
<1>8. Written(m, strcat(m, to, from), e, t)
  BY <1>2, <1>3, <1>5, <1>7, CopiedIsWritten
<1>9. /\ u \o t \in Seq(Nat) /\ Len(u \o t) = h + n
      /\ \A i \in 1 .. h + n : (u \o t)[i] = IF i <= h THEN u[i] ELSE t[i - h]
  BY <1>3, <1>4, ConcatProperties
<1> DEFINE w == strcat(m, to, from)
<1>10. DOMAIN w = DOMAIN m
  BY <1>7 DEF Copied
<1> HIDE DEF w
<1>11. \A i \in DOMAIN m : w[i] = IF i \in e .. e + n - 1 THEN t[i - e + 1] ELSE m[i]
  BY <1>3, <1>8, <1>10 DEF Written, w
<1>12. ASSUME NEW i \in DOMAIN m
       PROVE  w[i] = IF i \in to .. to + (h + n) - 1 THEN (u \o t)[i - to + 1] ELSE m[i]
  <2>1. to \in Int /\ i \in Int /\ n \in Nat /\ h \in Nat /\ e = to + h
    BY <1>1, <1>2
  <2>2. CASE i \in e .. e + n - 1
    <3>1. /\ i \in to .. to + (h + n) - 1 /\ i - to + 1 \in 1 .. h + n
          /\ ~(i - to + 1 <= h) /\ i - to + 1 - h = i - e + 1
      BY <2>1, <2>2, InTail
    <3> DEFINE k == i - to + 1
    <3>2. k \in 1 .. h + n /\ ~(k <= h) /\ k - h = i - e + 1
      BY <2>1, <3>1
    <3> HIDE DEF k
    <3>3. (u \o t)[k] = t[i - e + 1]
      BY <1>9, <3>2
    <3>4. (u \o t)[i - to + 1] = t[i - e + 1]
      BY <3>3 DEF k
    <3> QED
      BY <1>11, <2>2, <3>1, <3>4
  <2>3. CASE i \notin e .. e + n - 1 /\ i \in to .. to + (h + n) - 1
    <3>0. i - to + 1 \in 1 .. h /\ i - to + 1 \in 1 .. h + n /\ to + (i - to + 1) - 1 = i
      BY <2>1, <2>3, InHead
    <3>1. i - to + 1 \in 1 .. h + n /\ i - to + 1 \in 1 .. h /\ i - to + 1 <= h /\ to + (i - to + 1) - 1 = i
      BY <2>1, <3>0
    <3>2. (u \o t)[i - to + 1] = u[i - to + 1]
      BY <1>9, <3>1
    <3>3. u[i - to + 1] = m[i]
      BY <1>4, <3>1
    <3> QED
      BY <1>11, <2>3, <3>2, <3>3
  <2>4. CASE i \notin to .. to + (h + n) - 1
    <3>1. i \notin e .. e + n - 1
      BY ONLY <2>1, <2>4
    <3> QED
      BY <1>11, <2>4, <3>1
  <2> QED
    BY <2>2, <2>3, <2>4
<1>13. Written(m, w, to, u \o t)
  BY <1>9, <1>10, <1>12 DEF Written
<1> QED
  BY <1>13 DEF w, u, t

LEMMA StrncpyWrites ==
  ASSUME NEW m \in Seq(Nat), NEW to \in DOMAIN m, NEW from \in DOMAIN m, Terminated(m, from),
         NEW n \in Nat, Within(m, to, n), Apart(to, n, from, Min({n, strlen(m, from) + 1}))
  PROVE  LET s == Take(TextAt(m, from), n)
         IN Written(m, strncpy(m, to, from, n), to, s \o Times(0, n - Len(s)))
<1> DEFINE l == strlen(m, from)
           t == TextAt(m, from)
           s == Take(t, n)
           z == Times(0, n - Len(s))
           kept == Min({n, l + 1})
           w == strncpy(m, to, from, n)
<1>1. DOMAIN m = 1 .. Len(m) /\ Len(m) \in Nat
  BY LenProperties
<1>2. l \in Nat
  BY EndFacts
<1>3. Within(m, from, l + 1) /\ m[from + l] = 0
  BY EndFacts, TerminatedFacts
<1>4. t \in Seq(Nat) /\ Len(t) = l /\ \A i \in 1 .. l : t[i] = m[from + i - 1]
  BY TextFacts
<1>5. kept = IF n <= l + 1 THEN n ELSE l + 1
  BY <1>2, LesserOfTwo
<1>6. w = memset(Up(m, to, from, kept), to + kept, 0, n - kept) /\ Apart(to, n, from, kept)
  BY DEF strncpy
<1> HIDE DEF l, t, kept, w
<1>7. /\ s \in Seq(Nat) /\ Len(s) = (IF n <= l THEN n ELSE l)
      /\ \A i \in 1 .. Len(s) : s[i] = t[i]
  BY <1>4, TakeFacts
<1> HIDE DEF s
<1>8. z \in Seq(Nat) /\ Len(z) = n - Len(s) /\ \A i \in 1 .. n - Len(s) : z[i] = 0
  <2>1. n - Len(s) \in Nat
    BY <1>2, <1>7
  <2>2. z = [i \in 1 .. n - Len(s) |-> 0]
    BY DEF Times
  <2> HIDE DEF z
  <2>3. z \in [1 .. n - Len(s) -> Nat]
    BY <2>2
  <2>4. Len(z) = n - Len(s)
    BY <2>1, <2>2
  <2> QED
    BY <2>1, <2>2, <2>3, <2>4
<1> HIDE DEF z
<1>9. /\ s \o z \in Seq(Nat) /\ Len(s \o z) = n
      /\ \A i \in 1 .. n : (s \o z)[i] = IF i <= Len(s) THEN s[i] ELSE z[i - Len(s)]
  <2>1. Len(s) + Len(z) = n /\ Len(s) \in Nat
    BY <1>2, <1>7, <1>8
  <2> QED
    BY <1>7, <1>8, <2>1, ConcatProperties
<1>10. kept \in Nat /\ kept <= n /\ kept <= l + 1
  BY <1>2, <1>5
<1>11. Up(m, to, from, kept) = Copied(m, to, from, kept)
  <2>1. Within(m, to, kept) /\ Within(m, from, kept)
    BY <1>1, <1>2, <1>3, <1>10 DEF Within
  <2> QED
    BY <1>6, <1>10, <2>1, ApartIsUp
<1>12. w = [i \in DOMAIN m |-> IF i \in to + kept .. to + kept + (n - kept) - 1 THEN 0
                               ELSE IF i \in to .. to + kept - 1 THEN m[i - to + from] ELSE m[i]]
  BY <1>6, <1>11 DEF memset, Copied
<1>13. ASSUME NEW i \in DOMAIN m
       PROVE  w[i] = IF i \in to .. to + n - 1 THEN (s \o z)[i - to + 1] ELSE m[i]
  <2>1. to \in Int /\ i \in Int
    BY <1>1
  <2> DEFINE k == i - to + 1
  <2>2. CASE i \in to .. to + n - 1 /\ k <= Len(s)
    <3>0. to \in Int /\ i \in Int /\ from \in Int /\ l \in Nat /\ Len(s) \in Nat /\ kept \in Nat
          /\ Len(s) <= l /\ Len(s) <= kept
      BY <1>1, <1>2, <1>5, <1>7
    <3>1. /\ k \in 1 .. n /\ k \in 1 .. Len(s) /\ k \in 1 .. l /\ from + k - 1 = i - to + from
          /\ i \in to .. to + kept - 1 /\ i \notin to + kept .. to + kept + (n - kept) - 1
      <4>1. kept <= n
        BY <1>10
      <4>2. /\ k \in 1 .. n /\ k \in 1 .. Len(s)
            /\ i \in to .. to + kept - 1 /\ i \notin to + kept .. to + kept + (n - kept) - 1
        BY <2>2, <3>0, <4>1, InText
      <4>3. from + k - 1 = i - to + from
        BY <3>0
      <4> HIDE DEF k
      <4>4. k \in 1 .. l
        BY <3>0, <4>2
      <4> QED
        BY <4>2, <4>3, <4>4
    <3> HIDE DEF k
    <3>2. (s \o z)[k] = m[i - to + from]
      BY <1>4, <1>7, <1>9, <2>2, <3>1
    <3> QED
      BY <1>12, <2>2, <3>1, <3>2 DEF k
  <2>3. CASE i \in to .. to + n - 1 /\ ~(k <= Len(s))
    <3>a. to \in Int /\ i \in Int /\ from \in Int /\ l \in Nat /\ Len(s) \in Nat /\ Len(s) = IF n <= l THEN n ELSE l
      BY <1>1, <1>2, <1>7
    <3>b. n > l /\ Len(s) = l
      BY ONLY <2>3, <3>a, n \in Nat
    <3>0. /\ k \in 1 .. n /\ k - l \in 1 .. n - l
          /\ \/ i \in to + (l + 1) .. to + (l + 1) + (n - (l + 1)) - 1
             \/ /\ i \in to .. to + (l + 1) - 1 /\ i - to = l
                /\ i \notin to + (l + 1) .. to + (l + 1) + (n - (l + 1)) - 1
      <4>1. l < n /\ ~(i - to + 1 <= l) /\ i \in to .. to + n - 1
        BY <2>3, <3>a, <3>b
      <4>2. i - to + 1 \in 1 .. n /\ (i - to + 1) - l \in 1 .. n - l
        BY ONLY <3>a, <4>1, n \in Nat, InPadding
      <4>3. \/ i \in to + (l + 1) .. to + (l + 1) + (n - (l + 1)) - 1
            \/ /\ i \in to .. to + (l + 1) - 1 /\ i - to = l
               /\ i \notin to + (l + 1) .. to + (l + 1) + (n - (l + 1)) - 1
        <5>1. CASE i - to = l
          BY ONLY <3>a, <5>1, n \in Nat, AtTerminator
        <5>2. CASE i - to # l
          BY ONLY <3>a, <4>1, <5>2, n \in Nat, BehindTerminator
        <5> QED
          BY <5>1, <5>2
      <4> QED
        BY <4>2, <4>3, Zenon
    <3>1. k \in 1 .. n /\ k - Len(s) \in 1 .. n - Len(s)
      BY <3>b, <3>0
    <3>2. kept = l + 1
      BY <1>2, <1>5, <3>b
    <3>3. i \in to + kept .. to + kept + (n - kept) - 1 \/ (i \in to .. to + kept - 1 /\ i - to + from = from + l
            /\ i \notin to + kept .. to + kept + (n - kept) - 1)
      <4>1. i - to = l => i - to + from = from + l
        BY <3>a
      <4> QED
        BY <3>0, <3>2, <4>1
    <3>4. (s \o z)[k] = 0
      <4> HIDE DEF k
      <4> QED
        BY <1>8, <1>9, <2>3, <3>1
    <3>5. w[i] = 0
      BY <1>3, <1>12, <3>3
    <3> QED
      BY <2>3, <3>4, <3>5
  <2>4. CASE i \notin to .. to + n - 1
    <3>1. i \notin to + kept .. to + kept + (n - kept) - 1 /\ i \notin to .. to + kept - 1
      BY <1>10, <2>1, <2>4
    <3> QED
      BY <1>12, <2>4, <3>1
  <2> QED
    BY <2>2, <2>3, <2>4
<1>14. DOMAIN w = DOMAIN m
  BY <1>12
<1>15. Written(m, w, to, s \o z)
  BY <1>9, <1>13, <1>14 DEF Written
<1> QED
  BY <1>15 DEF w, s, z, t

-------------------------------------------------------------------------------
(* The copying functions *)

LEMMA CallFields ==
  ASSUME NEW f, NEW args, NEW m, NEW w, NEW v, Calls(f, args, m, w, v)
  PROVE  call'.f = f /\ call'.args = args /\ before' = m /\ memory' = w /\ result' = v
  BY DEF Calls

LEMMA WrittenHolds ==
  ASSUME NEW m, NEW w, NEW to, NEW s, before' = m, memory' = w, Written(m, w, to, s)
  PROVE  Holds(to, s)'
  BY DEF Holds, Written

\* The names of the calls.
Copying == {"memmove", "memcpy", "strcpy", "strcat", "strncpy", "wcsncpy"}
Comparing == {"memcmp", "strcmp", "_stricmp", "strncmp", "wcsncmp"}
Searching == {"strstr", "strchr", "strrchr"}
Printing == {"vsprintf", "_snprintf"}
Dividing == {"alldiv", "allrem", "alldvrm", "aullrem", "aulldvrm"}
Multiplying == {"allmul", "allshl", "allshr", "aullshr"}

LEMMA MoveCopies ==
  ASSUME Move
  PROVE  CopiesWhole'
<1>1. PICK m \in Memories : \E to, from \in DOMAIN m, n \in 0 .. Len(m) :
        /\ Within(m, to, n) /\ Within(m, from, n)
        /\ \/ Calls("memmove", <<to, from, n>>, m, memmove(m, to, from, n), to)
           \/ Apart(to, n, from, n) /\ Calls("memcpy", <<to, from, n>>, m, memcpy(m, to, from, n), to)
  BY DEF Move
<1>2. PICK to \in DOMAIN m, from \in DOMAIN m, n \in 0 .. Len(m) :
        /\ Within(m, to, n) /\ Within(m, from, n)
        /\ \/ Calls("memmove", <<to, from, n>>, m, memmove(m, to, from, n), to)
           \/ Apart(to, n, from, n) /\ Calls("memcpy", <<to, from, n>>, m, memcpy(m, to, from, n), to)
  BY <1>1
<1>3. m \in Seq(Nat) /\ n \in Nat
  BY LibcAssumption
<1> DEFINE block == SubSeq(m, from, from + n - 1)
<1>4. \/ call'.f = "memmove" /\ memory' = memmove(m, to, from, n)
      \/ call'.f = "memcpy" /\ memory' = memcpy(m, to, from, n) /\ Apart(to, n, from, n)
  BY <1>2, CallFields
<1>5. call'.args = <<to, from, n>> /\ before' = m
  BY <1>2, CallFields
<1>6. Written(m, memory', to, block)
  <2>1. CASE memory' = memmove(m, to, from, n)
    BY <1>2, <1>3, <2>1, MemmoveWrites
  <2>2. CASE memory' = memcpy(m, to, from, n) /\ Apart(to, n, from, n)
    BY <1>2, <1>3, <2>2, MemcpyWrites
  <2> QED
    BY <1>4, <2>1, <2>2
<1>7. Holds(to, block)'
  BY <1>5, <1>6, WrittenHolds
<1> QED
  BY <1>4, <1>5, <1>7 DEF CopiesWhole

LEMMA CopyCopies ==
  ASSUME Copy
  PROVE  call'.f \in Copying /\ CopiesWhole'
<1>1. PICK m \in Memories : \E to, from \in DOMAIN m :
        /\ Terminated(m, from)
        /\ LET size == strlen(m, from) + 1 IN
           \/ /\ Within(m, to, size) /\ Apart(to, size, from, size)
              /\ Calls("strcpy", <<to, from>>, m, strcpy(m, to, from), to)
           \/ /\ Terminated(m, to) /\ Within(m, End(m, to), size)
              /\ Apart(to, strlen(m, to) + size, from, size)
              /\ Calls("strcat", <<to, from>>, m, strcat(m, to, from), to)
           \/ \E n \in 1 .. Len(m) :
                /\ Within(m, to, n) /\ Apart(to, n, from, Min({n, size}))
                /\ Calls("strncpy", <<to, from, n>>, m, strncpy(m, to, from, n), to)
           \/ \E n \in 1 .. Len(m) :
                /\ Within(m, to, n + 1) /\ Apart(to, n + 1, from, Min({n, size}))
                /\ Calls("wcsncpy", <<to, from, n>>, m, wcsncpy(m, to, from, n), to)
  BY DEF Copy
<1>2. PICK to \in DOMAIN m, from \in DOMAIN m :
        /\ Terminated(m, from)
        /\ \/ /\ Within(m, to, strlen(m, from) + 1) /\ Apart(to, strlen(m, from) + 1, from, strlen(m, from) + 1)
              /\ Calls("strcpy", <<to, from>>, m, strcpy(m, to, from), to)
           \/ /\ Terminated(m, to) /\ Within(m, End(m, to), strlen(m, from) + 1)
              /\ Apart(to, strlen(m, to) + (strlen(m, from) + 1), from, strlen(m, from) + 1)
              /\ Calls("strcat", <<to, from>>, m, strcat(m, to, from), to)
           \/ \E n \in 1 .. Len(m) :
                /\ Within(m, to, n) /\ Apart(to, n, from, Min({n, strlen(m, from) + 1}))
                /\ Calls("strncpy", <<to, from, n>>, m, strncpy(m, to, from, n), to)
           \/ \E n \in 1 .. Len(m) :
                /\ Within(m, to, n + 1) /\ Apart(to, n + 1, from, Min({n, strlen(m, from) + 1}))
                /\ Calls("wcsncpy", <<to, from, n>>, m, wcsncpy(m, to, from, n), to)
  BY <1>1
<1>3. m \in Seq(Nat)
  BY LibcAssumption
<1>4. strlen(m, from) + 1 \in Nat
  BY <1>2, <1>3, EndFacts
<1>5. CASE /\ Within(m, to, strlen(m, from) + 1) /\ Apart(to, strlen(m, from) + 1, from, strlen(m, from) + 1)
           /\ Calls("strcpy", <<to, from>>, m, strcpy(m, to, from), to)
  <2> DEFINE s == Append(TextAt(m, from), 0)
  <2>1. call'.f = "strcpy" /\ call'.args = <<to, from>> /\ before' = m /\ memory' = strcpy(m, to, from)
    BY <1>5, CallFields
  <2>2. strlen(m, from) + 1 <= strlen(m, from) + 1
    BY <1>4
  <2>3. Written(m, memory', to, s)
    BY <1>2, <1>3, <1>4, <1>5, <2>1, <2>2, StrcpyWrites
  <2>4. Holds(to, s)'
    BY <2>1, <2>3, WrittenHolds
  <2>5. Append(TextAt(before, from), 0)' = s
    BY <2>1 DEF TextAt, End
  <2> HIDE DEF s
  <2>6. CopiesWhole' = Holds(to, Append(TextAt(before, from), 0))'
    BY <2>1 DEF CopiesWhole
  <2>7. Holds(to, Append(TextAt(before, from), 0))'
    BY <2>4, <2>5 DEF Holds
  <2> QED
    BY <2>1, <2>6, <2>7 DEF Copying
<1>6. CASE /\ Terminated(m, to) /\ Within(m, End(m, to), strlen(m, from) + 1)
           /\ Apart(to, strlen(m, to) + (strlen(m, from) + 1), from, strlen(m, from) + 1)
           /\ Calls("strcat", <<to, from>>, m, strcat(m, to, from), to)
  <2> DEFINE s == TextAt(m, to) \o Append(TextAt(m, from), 0)
             sNow == TextAt(before, to) \o Append(TextAt(before, from), 0)
  <2>1. call'.f = "strcat" /\ call'.args = <<to, from>> /\ before' = m /\ memory' = strcat(m, to, from)
    BY <1>6, CallFields
  <2>2. Written(m, memory', to, s)
    BY <1>2, <1>3, <1>6, <2>1, StrcatWrites
  <2>3. Holds(to, s)'
    BY <2>1, <2>2, WrittenHolds
  <2>4. sNow' = s
    BY <2>1 DEF TextAt, End
  <2>5. CopiesWhole' = Holds(to, sNow)'
    BY <2>1 DEF CopiesWhole
  <2> HIDE DEF s, sNow
  <2>6. Holds(to, sNow)'
    BY <2>3, <2>4 DEF Holds
  <2> QED
    BY <2>1, <2>5, <2>6 DEF Copying
<1>7. CASE \E n \in 1 .. Len(m) :
             /\ Within(m, to, n) /\ Apart(to, n, from, Min({n, strlen(m, from) + 1}))
             /\ Calls("strncpy", <<to, from, n>>, m, strncpy(m, to, from, n), to)
  <2>1. PICK n \in 1 .. Len(m) :
          /\ Within(m, to, n) /\ Apart(to, n, from, Min({n, strlen(m, from) + 1}))
          /\ Calls("strncpy", <<to, from, n>>, m, strncpy(m, to, from, n), to)
    BY <1>7
  <2>2. n \in Nat
    BY <1>3, LenProperties
  <2> DEFINE taken == Take(TextAt(m, from), n)
             s == taken \o Times(0, n - Len(taken))
             takenNow == Take(TextAt(before, from), n)
             sNow == takenNow \o Times(0, n - Len(takenNow))
  <2>3. call'.f = "strncpy" /\ call'.args = <<to, from, n>> /\ before' = m /\ memory' = strncpy(m, to, from, n)
    BY <2>1, CallFields
  <2>4. Written(m, memory', to, s)
    BY <1>2, <1>3, <2>1, <2>2, <2>3, StrncpyWrites
  <2>5. Holds(to, s)'
    BY <2>3, <2>4, WrittenHolds
  <2>6. sNow' = s
    BY <2>3 DEF TextAt, End
  <2>7. CopiesWhole' = Holds(to, sNow)'
    BY <2>3 DEF CopiesWhole
  <2> HIDE DEF s, sNow
  <2>8. Holds(to, sNow)'
    BY <2>5, <2>6 DEF Holds
  <2> QED
    BY <2>3, <2>7, <2>8 DEF Copying
<1>8. CASE \E n \in 1 .. Len(m) :
             /\ Within(m, to, n + 1) /\ Apart(to, n + 1, from, Min({n, strlen(m, from) + 1}))
             /\ Calls("wcsncpy", <<to, from, n>>, m, wcsncpy(m, to, from, n), to)
  <2>1. PICK n \in 1 .. Len(m) :
          /\ Within(m, to, n + 1) /\ Apart(to, n + 1, from, Min({n, strlen(m, from) + 1}))
          /\ Calls("wcsncpy", <<to, from, n>>, m, wcsncpy(m, to, from, n), to)
    BY <1>8
  <2>2. call'.f = "wcsncpy"
    BY <2>1, CallFields
  <2> QED
    BY <2>2 DEF CopiesWhole, Copying
<1> QED
  BY <1>2, <1>5, <1>6, <1>7, <1>8

LEMMA CallNames ==
  /\ Move \/ Copy => call'.f \in Copying
  /\ Compare => call'.f \in Comparing
  /\ Search => call'.f \in Searching
  /\ Show \/ ShowText \/ ShowAddress => call'.f \in Printing
  /\ Divide => call'.f \in Dividing
  /\ Multiply => call'.f \in Multiplying
  /\ Return => call'.f = "none"
<1>1. \A f, args, m, w, v : Calls(f, args, m, w, v) => call'.f = f
  BY CallFields
<1>2. ASSUME Move PROVE call'.f \in {"memmove", "memcpy"}
  BY <1>1, <1>2, Zenon DEF Move
<1>3. ASSUME Copy PROVE call'.f \in Copying
  BY <1>3, CopyCopies
<1>4. ASSUME Compare PROVE call'.f \in Comparing
  BY <1>4, CallFields DEF Compare, Comparing
<1>5. ASSUME Search PROVE call'.f \in Searching
  BY <1>5, CallFields DEF Search, Searching
<1>6. ASSUME Show PROVE call'.f \in Printing
  BY <1>1, <1>6, Zenon DEF Show, Printing
<1>7. ASSUME ShowText PROVE call'.f = "vsprintf"
  BY <1>1, <1>7, Zenon DEF ShowText
<1>8. ASSUME ShowAddress PROVE call'.f = "vsprintf"
  BY <1>1, <1>8, ZenonT(40) DEF ShowAddress
<1>9. ASSUME Divide PROVE call'.f \in Dividing
  BY <1>1, <1>9, Zenon DEF Divide, Dividing
<1>10. ASSUME Multiply PROVE call'.f \in Multiplying
  BY <1>1, <1>10, Zenon DEF Multiply, Multiplying
<1>11. ASSUME Return PROVE call'.f = "none"
  BY <1>11 DEF Return, Nothing
<1> QED
  BY <1>2, <1>3, <1>4, <1>5, <1>6, <1>7, <1>8, <1>9, <1>10, <1>11 DEF Copying, Printing

\* The other calls, and a return.
LEMMA OthersCopyNothing ==
  ASSUME Compare \/ Search \/ Show \/ ShowText \/ ShowAddress \/ Divide \/ Multiply \/ Return
  PROVE  CopiesWhole'
<1>1. ASSUME call'.f \notin Copying PROVE CopiesWhole'
  BY <1>1 DEF CopiesWhole, Copying
<1>2. call'.f \notin Copying
  BY CallNames DEF Copying, Comparing, Searching, Printing, Dividing, Multiplying
<1> QED
  BY <1>1, <1>2

\* Whatever memory and arguments they are given, within what C asks of their
\* caller, memmove, memcpy, strcpy, strcat and strncpy leave at "to" what the source
\* held before the call, with terminator, cut or filled up as each is to, and touch
\* nothing else.  Nothing is said of wcsncpy.
THEOREM CopiesExactly == LibcSpec => []CopiesWhole
<1>1. LibcInit => CopiesWhole
  BY DEF LibcInit, Nothing, CopiesWhole
<1>2. CopiesWhole /\ [LibcNext]_libcVars => CopiesWhole'
  <2> SUFFICES ASSUME CopiesWhole, [LibcNext]_libcVars PROVE CopiesWhole'
    OBVIOUS
  <2>1. CASE LibcNext
    BY <2>1, MoveCopies, CopyCopies, OthersCopyNothing DEF LibcNext
  <2>2. CASE UNCHANGED libcVars
    <3>1. call' = call /\ before' = before /\ memory' = memory
      BY <2>2 DEF libcVars
    <3>2. \A to, s : Holds(to, s)' = Holds(to, s)
      BY <3>1 DEF Holds
    <3> QED
      BY <3>1, <3>2, Zenon DEF CopiesWhole, TextAt, End
  <2> QED
    BY <2>1, <2>2
<1> QED
  BY <1>1, <1>2, PTL DEF LibcSpec

-------------------------------------------------------------------------------
(* The comparing functions *)

\* x and y are what a comparison of s and t looks at, place by place: either all
\* of two sequences of the same length, or two texts up to the first terminator.
Compared(s, t, n, x, y) ==
  /\ x \in [0 .. n - 1 -> Nat] /\ y \in [0 .. n - 1 -> Nat]
  /\ \A i \in 0 .. n - 1 : /\ i < Len(s) => x[i] = s[i + 1]
                           /\ i < Len(t) => y[i] = t[i + 1]
                           /\ i = Len(s) => x[i] = 0
                           /\ i = Len(t) => y[i] = 0
  /\ \/ n = Len(s) /\ n = Len(t)
     \/ /\ n = (IF Len(s) <= Len(t) THEN Len(s) ELSE Len(t)) + 1
        /\ (\A i \in 1 .. Len(s) : s[i] # 0) /\ (\A i \in 1 .. Len(t) : t[i] # 0)

Differing(n, x, y) == {i \in 0 .. n - 1 : x[i] # y[i]}
FirstOf(n, x, y) == IF Differing(n, x, y) = {} THEN 0 ELSE x[Min(Differing(n, x, y))] - y[Min(Differing(n, x, y))]

\* The n places from p on, as they are and without regard to case.
Places(m, p, n) == [i \in 0 .. n - 1 |-> m[p + i]]
FoldedPlaces(m, p, n) == [i \in 0 .. n - 1 |-> toupper(m[p + i])]

LEMMA NoDifference ==
  ASSUME NEW s \in Seq(Nat), NEW t \in Seq(Nat), NEW n \in Nat, NEW x, NEW y,
         Compared(s, t, n, x, y), Differing(n, x, y) = {}
  PROVE  s = t
<1>1. Len(s) \in Nat /\ Len(t) \in Nat
  BY LenProperties
<1>2. \A i \in 0 .. n - 1 : x[i] = y[i]
  BY DEF Differing
<1>3. Len(s) = Len(t)
  <2>1. CASE n = Len(s) /\ n = Len(t)
    BY <2>1
  <2>2. CASE ~(n = Len(s) /\ n = Len(t)) /\ Len(s) < Len(t)
    <3>1. n = Len(s) + 1 /\ Len(s) \in 0 .. n - 1 /\ Len(s) + 1 \in 1 .. Len(t)
      BY <1>1, <2>2 DEF Compared
    <3>2. x[Len(s)] = 0 /\ y[Len(s)] = t[Len(s) + 1] /\ t[Len(s) + 1] # 0
      BY <2>2, <3>1 DEF Compared
    <3> QED
      BY <1>2, <3>1, <3>2
  <2>3. CASE ~(n = Len(s) /\ n = Len(t)) /\ Len(t) < Len(s)
    <3>1. n = Len(t) + 1 /\ Len(t) \in 0 .. n - 1 /\ Len(t) + 1 \in 1 .. Len(s)
      BY <1>1, <2>3 DEF Compared
    <3>2. y[Len(t)] = 0 /\ x[Len(t)] = s[Len(t) + 1] /\ s[Len(t) + 1] # 0
      BY <2>3, <3>1 DEF Compared
    <3> QED
      BY <1>2, <3>1, <3>2
  <2> QED
    BY <1>1, <2>1, <2>2, <2>3
<1>4. ASSUME NEW i \in 1 .. Len(s)
      PROVE  s[i] = t[i]
  <2> DEFINE j == i - 1
  <2>1. j \in 0 .. n - 1 /\ j < Len(s) /\ j < Len(t) /\ j + 1 = i
    BY <1>1, <1>3 DEF Compared
  <2> HIDE DEF j
  <2>2. x[j] = s[j + 1] /\ y[j] = t[j + 1] /\ x[j] = y[j]
    BY <1>2, <2>1 DEF Compared
  <2> QED
    BY <2>1, <2>2
<1> QED
  BY <1>3, <1>4, SeqEqual

\* A sequence does not precede itself.
LEMMA NotBeforeItself ==
  ASSUME NEW s \in Seq(Nat)
  PROVE  ~Precedes(s, s)
<1>1. Len(s) \in Nat
  BY LenProperties
<1>2. SUFFICES ASSUME NEW k \in 0 .. Min({Len(s), Len(s)}), k < Len(s), k = Len(s) \/ (k < Len(s) /\ s[k + 1] < s[k + 1])
               PROVE  FALSE
  BY DEF Precedes
<1>3. Min({Len(s), Len(s)}) = Len(s)
  BY <1>1, LesserOfTwo
<1>4. k \in Nat /\ k + 1 \in 1 .. Len(s)
  BY <1>1, <1>2, <1>3
<1>5. s[k + 1] \in Nat
  BY <1>4, ElementOfSeq
<1> QED
  BY <1>1, <1>2, <1>4, <1>5

\* Two beginnings are the same exactly if they are so place by place.
LEMMA SameTakes ==
  ASSUME NEW s \in Seq(Nat), NEW t \in Seq(Nat), NEW k \in Nat, k <= Len(s), k <= Len(t)
  PROVE  Take(s, k) = Take(t, k) <=> \A i \in 1 .. k : s[i] = t[i]
<1>1. /\ Take(s, k) \in Seq(Nat) /\ Len(Take(s, k)) = k
      /\ \A i \in 1 .. k : Take(s, k)[i] = s[i]
  BY TakeFacts
<1>2. /\ Take(t, k) \in Seq(Nat) /\ Len(Take(t, k)) = k
      /\ \A i \in 1 .. k : Take(t, k)[i] = t[i]
  BY TakeFacts
<1>3. ASSUME \A i \in 1 .. k : s[i] = t[i] PROVE Take(s, k) = Take(t, k)
  <2>1. \A i \in 1 .. Len(Take(s, k)) : Take(s, k)[i] = Take(t, k)[i]
    BY <1>1, <1>2, <1>3
  <2> QED
    BY <1>1, <1>2, <2>1, SeqEqual
<1> QED
  BY <1>1, <1>2, <1>3

\* The least difference: its place, and what lies before it and at it.
LEMMA FirstDifference ==
  ASSUME NEW s \in Seq(Nat), NEW t \in Seq(Nat), NEW n \in Nat, NEW x, NEW y,
         Compared(s, t, n, x, y), Differing(n, x, y) # {}
  PROVE  LET k == Min(Differing(n, x, y))
         IN /\ k \in 0 .. n - 1 /\ k \in Nat /\ k <= Len(s) /\ k <= Len(t) /\ (k < Len(s) \/ k < Len(t))
            /\ x[k] \in Nat /\ y[k] \in Nat /\ x[k] # y[k]
            /\ \A i \in 1 .. k : s[i] = t[i]
            /\ k < Len(s) => x[k] = s[k + 1]
            /\ k < Len(t) => y[k] = t[k + 1]
            /\ k = Len(s) => x[k] = 0
            /\ k = Len(t) => y[k] = 0
<1> DEFINE k == Min(Differing(n, x, y))
<1>1. Len(s) \in Nat /\ Len(t) \in Nat
  BY LenProperties
<1>2. Differing(n, x, y) \in SUBSET Nat
  BY DEF Differing
<1>3. k \in Differing(n, x, y) /\ \A i \in Differing(n, x, y) : k <= i
  BY <1>2, LeastNumber
<1> HIDE DEF k
<1>4. k \in 0 .. n - 1 /\ x[k] # y[k]
  BY <1>3 DEF Differing
<1>5. x[k] \in Nat /\ y[k] \in Nat
  BY <1>4 DEF Compared
<1>6. /\ k < Len(s) => x[k] = s[k + 1]
      /\ k < Len(t) => y[k] = t[k + 1]
      /\ k = Len(s) => x[k] = 0
      /\ k = Len(t) => y[k] = 0
  BY <1>4 DEF Compared
<1>7. k \in Nat /\ k <= Len(s) /\ k <= Len(t)
  BY <1>1, <1>4 DEF Compared
<1>8. k < Len(s) \/ k < Len(t)
  BY <1>1, <1>4, <1>6, <1>7
<1>9. ASSUME NEW i \in 1 .. k PROVE s[i] = t[i]
  <2> DEFINE j == i - 1
  <2>1. j \in 0 .. n - 1 /\ j < k /\ j < Len(s) /\ j < Len(t) /\ j + 1 = i /\ ~(k <= j)
    BY <1>1, <1>4, <1>7
  <2> HIDE DEF j
  <2>2. x[j] = y[j]
    BY <1>3, <2>1 DEF Differing
  <2>3. x[j] = s[j + 1] /\ y[j] = t[j + 1]
    BY <2>1 DEF Compared
  <2> QED
    BY <2>1, <2>2, <2>3
<1> QED
  BY <1>4, <1>5, <1>6, <1>7, <1>8, <1>9 DEF k

\* The difference at the first place where there is one orders the sequences.
LEMMA DifferenceOrders ==
  ASSUME NEW s \in Seq(Nat), NEW t \in Seq(Nat), NEW n \in Nat, NEW x, NEW y, NEW d,
         Compared(s, t, n, x, y), d = FirstOf(n, x, y)
  PROVE  (d < 0 <=> Precedes(s, t)) /\ (d = 0 <=> s = t)
<1>0. Len(s) \in Nat /\ Len(t) \in Nat
  BY LenProperties
<1>1. CASE Differing(n, x, y) = {}
  <2>1. s = t
    BY <1>1, NoDifference
  <2>2. d = 0
    BY <1>1 DEF FirstOf
  <2> QED
    BY <2>1, <2>2, NotBeforeItself
<1>2. CASE Differing(n, x, y) # {}
  <2> DEFINE k == Min(Differing(n, x, y))
  <2>1. /\ k \in 0 .. n - 1 /\ k \in Nat /\ k <= Len(s) /\ k <= Len(t) /\ (k < Len(s) \/ k < Len(t))
        /\ x[k] \in Nat /\ y[k] \in Nat /\ x[k] # y[k]
    BY <1>2, FirstDifference
  <2>2. \A i \in 1 .. k : s[i] = t[i]
    BY <1>2, FirstDifference
  <2>3. /\ k < Len(s) => x[k] = s[k + 1]
        /\ k < Len(t) => y[k] = t[k + 1]
        /\ k = Len(s) => x[k] = 0
        /\ k = Len(t) => y[k] = 0
    BY <1>2, FirstDifference
  <2>4. d = x[k] - y[k]
    BY <1>2 DEF FirstOf
  <2> HIDE DEF k
  <2>5. s # t
    BY <2>1, <2>3
  <2>6. d # 0 /\ (d < 0 <=> x[k] < y[k])
    BY <2>1, <2>4
  <2>7. Min({Len(s), Len(t)}) = IF Len(s) <= Len(t) THEN Len(s) ELSE Len(t)
    <3>1. Len(s) \in Int /\ Len(t) \in Int
      BY <1>0
    <3> QED
      BY ONLY <3>1, LesserOfTwo
  <2>8. ASSUME x[k] < y[k] PROVE Precedes(s, t)
    <3>1. k \in 0 .. Min({Len(s), Len(t)})
      BY <1>0, <2>1, <2>7
    <3>2. Take(s, k) = Take(t, k)
      BY <2>1, <2>2, SameTakes
    <3>3. k < Len(t)
      BY <1>0, <2>1, <2>3, <2>8
    <3>4. k = Len(s) \/ (k < Len(s) /\ s[k + 1] < t[k + 1])
      BY <1>0, <2>1, <2>3, <2>8, <3>3
    <3> QED
      BY <3>1, <3>2, <3>3, <3>4 DEF Precedes
  <2>9. ASSUME Precedes(s, t) PROVE x[k] < y[k]
    <3>1. PICK h \in 0 .. Min({Len(s), Len(t)}) :
            /\ Take(s, h) = Take(t, h)
            /\ h < Len(t) /\ (h = Len(s) \/ (h < Len(s) /\ s[h + 1] < t[h + 1]))
      BY <2>9 DEF Precedes
    <3>2. h \in Nat /\ h <= Len(s) /\ h <= Len(t)
      BY <1>0, <2>7, <3>1
    <3>3. \A i \in 1 .. h : s[i] = t[i]
      BY <3>1, <3>2, SameTakes
    <3>4. ~(h < k)
      <4> SUFFICES ASSUME h < k PROVE FALSE
        OBVIOUS
      <4>1. h + 1 \in 1 .. k /\ h < Len(s) /\ h + 1 \in 1 .. Len(s)
        BY <1>0, <2>1, <3>2
      <4>2. s[h + 1] = t[h + 1] /\ s[h + 1] < t[h + 1] /\ s[h + 1] \in Nat
        BY <1>0, <2>2, <3>1, <3>2, <4>1, ElementOfSeq
      <4> QED
        BY <4>2
    <3>5. ~(k < h)
      <4> SUFFICES ASSUME k < h PROVE FALSE
        OBVIOUS
      <4>1. k + 1 \in 1 .. h /\ k < Len(s) /\ k < Len(t)
        BY <1>0, <2>1, <3>2
      <4>2. s[k + 1] = t[k + 1]
        BY <3>3, <4>1
      <4> QED
        BY <2>1, <2>3, <4>1, <4>2
    <3>6. h = k
      BY <2>1, <3>2, <3>4, <3>5
    <3>7. CASE k = Len(s)
      BY <1>0, <2>1, <2>3, <3>1, <3>6, <3>7
    <3>8. CASE k < Len(s) /\ s[k + 1] < t[k + 1]
      BY <2>3, <3>1, <3>6, <3>8
    <3> QED
      BY <3>1, <3>6, <3>7, <3>8
  <2> QED
    BY <2>5, <2>6, <2>8, <2>9
<1> QED
  BY <1>1, <1>2

\* What a comparison of n places at p and q looks at.
LEMMA PlainDifference ==
  ASSUME NEW m, NEW p, NEW q, NEW n
  PROVE  Difference(m, p, q, n, Same) = FirstOf(n, Places(m, p, n), Places(m, q, n))
<1> DEFINE x == Places(m, p, n)
           y == Places(m, q, n)
           stops == {i \in 0 .. n - 1 : Same(m[p + i]) # Same(m[q + i])}
<1>1. stops = Differing(n, x, y)
  BY DEF Same, Differing, Places
<1>2. Difference(m, p, q, n, Same) = IF stops = {} THEN 0 ELSE Same(m[p + Min(stops)]) - Same(m[q + Min(stops)])
  BY DEF Difference
<1> HIDE DEF stops, x, y
<1>3. CASE stops = {}
  BY <1>1, <1>2, <1>3 DEF FirstOf, x, y
<1>4. CASE stops # {}
  <2>1. stops \in SUBSET Nat
    BY <1>1 DEF Differing
  <2>2. Min(stops) \in stops
    BY <1>4, <2>1, LeastNumber
  <2>3. Min(stops) \in 0 .. n - 1
    BY <1>1, <2>2 DEF Differing
  <2>4. x[Min(stops)] = m[p + Min(stops)] /\ y[Min(stops)] = m[q + Min(stops)]
    BY <2>3 DEF Places, x, y
  <2> QED
    BY <1>1, <1>2, <1>4, <2>4 DEF Same, FirstOf, x, y
<1> QED
  BY <1>3, <1>4

LEMMA FoldedDifference ==
  ASSUME NEW m, NEW p, NEW q, NEW n
  PROVE  Difference(m, p, q, n, toupper) = FirstOf(n, FoldedPlaces(m, p, n), FoldedPlaces(m, q, n))
<1> DEFINE x == FoldedPlaces(m, p, n)
           y == FoldedPlaces(m, q, n)
           stops == {i \in 0 .. n - 1 : toupper(m[p + i]) # toupper(m[q + i])}
<1>1. stops = Differing(n, x, y)
  BY DEF Differing, FoldedPlaces
<1>2. Difference(m, p, q, n, toupper) = IF stops = {} THEN 0 ELSE toupper(m[p + Min(stops)]) - toupper(m[q + Min(stops)])
  BY DEF Difference
<1> HIDE DEF stops, x, y
<1>3. CASE stops = {}
  BY <1>1, <1>2, <1>3 DEF FirstOf, x, y
<1>4. CASE stops # {}
  <2>1. stops \in SUBSET Nat
    BY <1>1 DEF Differing
  <2>2. Min(stops) \in stops
    BY <1>4, <2>1, LeastNumber
  <2>3. Min(stops) \in 0 .. n - 1
    BY <1>1, <2>2 DEF Differing
  <2>4. x[Min(stops)] = toupper(m[p + Min(stops)]) /\ y[Min(stops)] = toupper(m[q + Min(stops)])
    BY <2>3 DEF FoldedPlaces, x, y
  <2> QED
    BY <1>1, <1>2, <1>4, <2>4 DEF FirstOf, x, y
<1> QED
  BY <1>3, <1>4

\* d orders sequences s and t.
Order(d, s, t) == (d < 0 <=> Precedes(s, t)) /\ (d = 0 <=> s = t)

LEMMA MemcmpOrders ==
  ASSUME NEW m \in Seq(Nat), NEW p \in DOMAIN m, NEW q \in DOMAIN m, NEW n \in Nat, Within(m, p, n), Within(m, q, n)
  PROVE  Order(memcmp(m, p, q, n), SubSeq(m, p, p + n - 1), SubSeq(m, q, q + n - 1))
<1> DEFINE s == SubSeq(m, p, p + n - 1)
           t == SubSeq(m, q, q + n - 1)
           x == Places(m, p, n)
           y == Places(m, q, n)
<1>1. DOMAIN m = 1 .. Len(m) /\ Len(m) \in Nat
  BY LenProperties
<1>2. s \in Seq(Nat) /\ Len(s) = n /\ \A i \in 1 .. n : s[i] = m[p + i - 1]
  BY BlockFacts
<1>3. t \in Seq(Nat) /\ Len(t) = n /\ \A i \in 1 .. n : t[i] = m[q + i - 1]
  BY BlockFacts
<1> HIDE DEF s, t
<1>4. ASSUME NEW i \in 0 .. n - 1
      PROVE  /\ m[p + i] = s[i + 1] /\ m[q + i] = t[i + 1] /\ m[p + i] \in Nat /\ m[q + i] \in Nat
             /\ i < n /\ i # n
  <2> DEFINE j == i + 1
  <2>1. j \in 1 .. n /\ p + j - 1 = p + i /\ q + j - 1 = q + i /\ p + i \in DOMAIN m /\ q + i \in DOMAIN m
    BY <1>1 DEF Within
  <2> HIDE DEF j
  <2>2. s[j] = m[p + i] /\ t[j] = m[q + i]
    BY <1>2, <1>3, <2>1
  <2>3. m[p + i] \in Nat /\ m[q + i] \in Nat
    BY <2>1
  <2> QED
    BY <2>2, <2>3 DEF j
<1>5. Compared(s, t, n, x, y)
  BY <1>2, <1>3, <1>4 DEF Compared, Places
<1>6. memcmp(m, p, q, n) = FirstOf(n, x, y)
  BY PlainDifference DEF memcmp
<1> HIDE DEF x, y
<1>7. Order(memcmp(m, p, q, n), s, t)
  BY <1>2, <1>3, <1>5, <1>6, DifferenceOrders DEF Order
<1> QED
  BY <1>7 DEF s, t

\* What lies at p, place by place: the text and its terminator.
LEMMA TextPlaces ==
  ASSUME NEW m \in Seq(Nat), NEW p \in DOMAIN m, Terminated(m, p), NEW i \in 0 .. strlen(m, p)
  PROVE  /\ p + i \in DOMAIN m /\ m[p + i] \in Nat
         /\ i < strlen(m, p) => m[p + i] = TextAt(m, p)[i + 1] /\ m[p + i] # 0
         /\ i = strlen(m, p) => m[p + i] = 0
<1>1. DOMAIN m = 1 .. Len(m) /\ Len(m) \in Nat
  BY LenProperties
<1>2. /\ strlen(m, p) \in Nat /\ End(m, p) = p + strlen(m, p) /\ End(m, p) \in DOMAIN m /\ m[End(m, p)] = 0
  BY EndFacts
<1>3. p + i \in DOMAIN m /\ m[p + i] \in Nat
  <2>1. p + i \in DOMAIN m
    BY <1>1, <1>2
  <2> QED
    BY <2>1
<1>4. ASSUME i < strlen(m, p)
      PROVE  m[p + i] = TextAt(m, p)[i + 1] /\ m[p + i] # 0
  <2> DEFINE j == i + 1
  <2>1. j \in 1 .. strlen(m, p) /\ p + j - 1 = p + i
    BY <1>1, <1>2, <1>4
  <2> HIDE DEF j
  <2>2. TextAt(m, p)[j] = m[p + i] /\ m[p + i] # 0
    <3>1. TextAt(m, p)[j] = m[p + j - 1] /\ TextAt(m, p)[j] # 0
      BY <2>1, TextFacts
    <3> QED
      BY <2>1, <3>1
  <2> QED
    BY <2>2 DEF j
<1>5. ASSUME i = strlen(m, p) PROVE m[p + i] = 0
  BY <1>2, <1>5
<1> QED
  BY <1>3, <1>4, <1>5

LEMMA LookedIs ==
  ASSUME NEW m \in Seq(Nat), NEW p \in DOMAIN m, NEW q \in DOMAIN m, Terminated(m, p), Terminated(m, q)
  PROVE  /\ strlen(m, p) \in Nat /\ strlen(m, q) \in Nat /\ Looked(m, p, q) \in Nat
         /\ Looked(m, p, q) = (IF strlen(m, p) <= strlen(m, q) THEN strlen(m, p) ELSE strlen(m, q)) + 1
<1> DEFINE a == strlen(m, p)
           b == strlen(m, q)
<1>1. a \in Nat /\ b \in Nat
  BY EndFacts
<1>2. Looked(m, p, q) = Min({a, b}) + 1
  BY DEF Looked
<1> HIDE DEF a, b
<1>3. a \in Int /\ b \in Int
  BY <1>1
<1>4. Min({a, b}) = IF a <= b THEN a ELSE b
  BY ONLY <1>3, LesserOfTwo
<1> QED
  BY <1>1, <1>2, <1>4 DEF a, b

\* The comparison of the first n places of two texts.
LEMMA TextsOrder ==
  ASSUME NEW m \in Seq(Nat), NEW p \in DOMAIN m, NEW q \in DOMAIN m, Terminated(m, p), Terminated(m, q), NEW n \in Nat
  PROVE  Order(Difference(m, p, q, Min({n, Looked(m, p, q)}), Same), Take(TextAt(m, p), n), Take(TextAt(m, q), n))
<1> DEFINE a == strlen(m, p)
           b == strlen(m, q)
           l == Min({n, Looked(m, p, q)})
           u == TextAt(m, p)
           v == TextAt(m, q)
           s == Take(u, n)
           t == Take(v, n)
           x == Places(m, p, l)
           y == Places(m, q, l)
           d == Difference(m, p, q, l, Same)
<1>1. a \in Nat /\ b \in Nat /\ Looked(m, p, q) \in Nat /\ Looked(m, p, q) = (IF a <= b THEN a ELSE b) + 1
  BY LookedIs
<1>2. l = IF n <= Looked(m, p, q) THEN n ELSE Looked(m, p, q)
  <2>1. n \in Int /\ Looked(m, p, q) \in Int
    BY <1>1
  <2> QED
    BY ONLY <2>1, LesserOfTwo
<1>3. u \in Seq(Nat) /\ Len(u) = a /\ \A i \in 1 .. a : u[i] # 0
  BY TextFacts
<1>4. v \in Seq(Nat) /\ Len(v) = b /\ \A i \in 1 .. b : v[i] # 0
  BY TextFacts
<1>5. \A i \in 0 .. a : /\ m[p + i] \in Nat
                        /\ i < a => m[p + i] = u[i + 1]
                        /\ i = a => m[p + i] = 0
  BY TextPlaces
<1>6. \A i \in 0 .. b : /\ m[q + i] \in Nat
                        /\ i < b => m[q + i] = v[i + 1]
                        /\ i = b => m[q + i] = 0
  BY TextPlaces
<1>7. x = [i \in 0 .. l - 1 |-> m[p + i]] /\ y = [i \in 0 .. l - 1 |-> m[q + i]]
  BY DEF Places
<1>8. d = FirstOf(l, x, y)
  BY PlainDifference
<1> HIDE DEF a, b, l, u, v, x, y
<1>9. s \in Seq(Nat) /\ Len(s) = (IF n <= a THEN n ELSE a) /\ \A i \in 1 .. Len(s) : s[i] = u[i]
  BY <1>3, TakeFacts
<1>10. t \in Seq(Nat) /\ Len(t) = (IF n <= b THEN n ELSE b) /\ \A i \in 1 .. Len(t) : t[i] = v[i]
  BY <1>4, TakeFacts
<1> HIDE DEF s, t, d
<1>11. Compared(s, t, l, x, y)
  <2>1. ASSUME NEW i \in 0 .. l - 1
        PROVE  /\ i \in 0 .. a /\ i \in 0 .. b /\ i < n
               /\ i < Len(s) => i < a /\ i + 1 \in 1 .. Len(s)
               /\ i < Len(t) => i < b /\ i + 1 \in 1 .. Len(t)
               /\ i = Len(s) => i = a
               /\ i = Len(t) => i = b
    <3>1. i < n /\ i <= a /\ i <= b /\ i \in Nat
      BY <1>1, <1>2
    <3>2. /\ i < Len(s) => i < a /\ i + 1 \in 1 .. Len(s)
          /\ i = Len(s) => i = a
      BY <1>1, <1>9, <3>1
    <3>3. /\ i < Len(t) => i < b /\ i + 1 \in 1 .. Len(t)
          /\ i = Len(t) => i = b
      BY <1>1, <1>10, <3>1
    <3>4. i \in 0 .. a /\ i \in 0 .. b
      BY <1>1, <3>1
    <3> QED
      BY <3>1, <3>2, <3>3, <3>4
  <2>2. x \in [0 .. l - 1 -> Nat] /\ y \in [0 .. l - 1 -> Nat]
    BY <1>5, <1>6, <1>7, <2>1
  <2>3. ASSUME NEW i \in 0 .. l - 1
        PROVE  /\ i < Len(s) => x[i] = s[i + 1]
               /\ i = Len(s) => x[i] = 0
    <3>1. x[i] = m[p + i]
      BY <1>7
    <3>2. i \in 0 .. a
      BY <2>1
    <3>3. ASSUME i < Len(s) PROVE x[i] = s[i + 1]
      <4>1. i < a /\ i + 1 \in 1 .. Len(s)
        BY <2>1, <3>3
      <4> QED
        BY <1>5, <1>9, <3>1, <3>2, <4>1
    <3>4. ASSUME i = Len(s) PROVE x[i] = 0
      BY <1>5, <2>1, <3>1, <3>2, <3>4
    <3> QED
      BY <3>3, <3>4
  <2>4. ASSUME NEW i \in 0 .. l - 1
        PROVE  /\ i < Len(t) => y[i] = t[i + 1]
               /\ i = Len(t) => y[i] = 0
    <3>1. y[i] = m[q + i]
      BY <1>7
    <3>2. i \in 0 .. b
      BY <2>1
    <3>3. ASSUME i < Len(t) PROVE y[i] = t[i + 1]
      <4>1. i < b /\ i + 1 \in 1 .. Len(t)
        BY <2>1, <3>3
      <4> QED
        BY <1>6, <1>10, <3>1, <3>2, <4>1
    <3>4. ASSUME i = Len(t) PROVE y[i] = 0
      BY <1>6, <2>1, <3>1, <3>2, <3>4
    <3> QED
      BY <3>3, <3>4
  <2>5. \/ l = Len(s) /\ l = Len(t)
        \/ l = (IF Len(s) <= Len(t) THEN Len(s) ELSE Len(t)) + 1
    BY <1>1, <1>2, <1>9, <1>10
  <2>6. (\A i \in 1 .. Len(s) : s[i] # 0) /\ (\A i \in 1 .. Len(t) : t[i] # 0)
    <3>1. \A i \in 1 .. Len(s) : i \in 1 .. a
      BY <1>1, <1>9
    <3>2. \A i \in 1 .. Len(t) : i \in 1 .. b
      BY <1>1, <1>10
    <3> QED
      BY <1>3, <1>4, <1>9, <1>10, <3>1, <3>2
  <2> QED
    BY <2>2, <2>3, <2>4, <2>5, <2>6 DEF Compared
<1>12. l \in Nat
  BY <1>1, <1>2
<1>13. Order(d, s, t)
  BY <1>8, <1>9, <1>10, <1>11, <1>12, DifferenceOrders DEF Order
<1> QED
  BY <1>13 DEF d, s, t, l, u, v

LEMMA StrncmpOrders ==
  ASSUME NEW m \in Seq(Nat), NEW p \in DOMAIN m, NEW q \in DOMAIN m, Terminated(m, p), Terminated(m, q), NEW n \in Nat
  PROVE  Order(strncmp(m, p, q, n), Take(TextAt(m, p), n), Take(TextAt(m, q), n))
  BY TextsOrder DEF strncmp

\* All of a sequence.
LEMMA TakeAll ==
  ASSUME NEW S, NEW s \in Seq(S), NEW n \in Nat, Len(s) <= n
  PROVE  Take(s, n) = s
<1>1. Len(s) \in Nat
  BY LenProperties
<1>2. /\ Take(s, n) \in Seq(S) /\ Len(Take(s, n)) = Len(s)
      /\ \A i \in 1 .. Len(Take(s, n)) : Take(s, n)[i] = s[i]
  BY <1>1, TakeFacts
<1> QED
  BY <1>2, SeqEqual

LEMMA StrcmpOrders ==
  ASSUME NEW m \in Seq(Nat), NEW p \in DOMAIN m, NEW q \in DOMAIN m, Terminated(m, p), Terminated(m, q)
  PROVE  Order(strcmp(m, p, q), TextAt(m, p), TextAt(m, q))
<1> DEFINE n == strlen(m, p) + strlen(m, q) + 1
           l == Looked(m, p, q)
<1>1. n \in Nat /\ l \in Nat /\ l <= n /\ strlen(m, p) <= n /\ strlen(m, q) <= n
  BY LookedIs, SMTT(30)
<1> HIDE DEF n, l
<1>2. Min({n, l}) = l
  <2>1. n \in Int /\ l \in Int
    BY <1>1
  <2>2. Min({n, l}) = IF n <= l THEN n ELSE l
    BY ONLY <2>1, LesserOfTwo
  <2> QED
    BY <1>1, <2>2
<1>3. strcmp(m, p, q) = Difference(m, p, q, Min({n, l}), Same)
  BY <1>2 DEF strcmp, l
<1>4. Take(TextAt(m, p), n) = TextAt(m, p) /\ Take(TextAt(m, q), n) = TextAt(m, q)
  <2>1. /\ TextAt(m, p) \in Seq(Nat) /\ Len(TextAt(m, p)) = strlen(m, p)
        /\ TextAt(m, q) \in Seq(Nat) /\ Len(TextAt(m, q)) = strlen(m, q)
    BY TextFacts
  <2> QED
    BY <1>1, <2>1, TakeAll
<1>5. Order(Difference(m, p, q, Min({n, l}), Same), Take(TextAt(m, p), n), Take(TextAt(m, q), n))
  BY <1>1, TextsOrder DEF l
<1> QED
  BY <1>3, <1>4, <1>5

LEMMA StricmpOrders ==
  ASSUME NEW m \in Seq(Nat), NEW p \in DOMAIN m, NEW q \in DOMAIN m, Terminated(m, p), Terminated(m, q)
  PROVE  Order(_stricmp(m, p, q), Folded(TextAt(m, p)), Folded(TextAt(m, q)))
<1> DEFINE a == strlen(m, p)
           b == strlen(m, q)
           l == Looked(m, p, q)
           u == TextAt(m, p)
           v == TextAt(m, q)
           s == Folded(u)
           t == Folded(v)
           x == FoldedPlaces(m, p, l)
           y == FoldedPlaces(m, q, l)
           d == _stricmp(m, p, q)
<1>1. a \in Nat /\ b \in Nat /\ l \in Nat /\ l = (IF a <= b THEN a ELSE b) + 1
  BY LookedIs
<1>2. \A c \in Nat : toupper(c) \in Nat /\ (toupper(c) = 0 <=> c = 0)
  BY DEF toupper, islower
<1>3. u \in Seq(Nat) /\ Len(u) = a /\ \A i \in 1 .. a : u[i] # 0
  BY TextFacts
<1>4. v \in Seq(Nat) /\ Len(v) = b /\ \A i \in 1 .. b : v[i] # 0
  BY TextFacts
<1>5. \A i \in 0 .. a : /\ m[p + i] \in Nat
                        /\ i < a => m[p + i] = u[i + 1]
                        /\ i = a => m[p + i] = 0
  BY TextPlaces
<1>6. \A i \in 0 .. b : /\ m[q + i] \in Nat
                        /\ i < b => m[q + i] = v[i + 1]
                        /\ i = b => m[q + i] = 0
  BY TextPlaces
<1>7. x = [i \in 0 .. l - 1 |-> toupper(m[p + i])] /\ y = [i \in 0 .. l - 1 |-> toupper(m[q + i])]
  BY DEF FoldedPlaces
<1>8. d = FirstOf(l, x, y)
  BY FoldedDifference DEF _stricmp
<1> HIDE DEF a, b, l, u, v, x, y, d
<1>9. s \in Seq(Nat) /\ Len(s) = a /\ \A i \in 1 .. a : s[i] = toupper(u[i]) /\ s[i] # 0
  <2>1. DOMAIN u = 1 .. a /\ \A i \in 1 .. a : u[i] \in Nat
    BY <1>1, <1>3, ElementOfSeq
  <2>2. s = [i \in 1 .. a |-> toupper(u[i])]
    BY <2>1 DEF Folded
  <2> HIDE DEF s
  <2>3. s \in [1 .. a -> Nat]
    BY <1>2, <2>1, <2>2
  <2>4. s \in Seq(Nat) /\ Len(s) = a
    BY <1>1, <2>2, <2>3
  <2>5. ASSUME NEW i \in 1 .. a PROVE s[i] = toupper(u[i]) /\ s[i] # 0
    <3>1. s[i] = toupper(u[i]) /\ u[i] \in Nat /\ u[i] # 0
      BY <1>3, <2>1, <2>2
    <3> QED
      BY <1>2, <3>1
  <2> QED
    BY <2>4, <2>5
<1>10. t \in Seq(Nat) /\ Len(t) = b /\ \A i \in 1 .. b : t[i] = toupper(v[i]) /\ t[i] # 0
  <2>1. DOMAIN v = 1 .. b /\ \A i \in 1 .. b : v[i] \in Nat
    BY <1>1, <1>4, ElementOfSeq
  <2>2. t = [i \in 1 .. b |-> toupper(v[i])]
    BY <2>1 DEF Folded
  <2> HIDE DEF t
  <2>3. t \in [1 .. b -> Nat]
    BY <1>2, <2>1, <2>2
  <2>4. t \in Seq(Nat) /\ Len(t) = b
    BY <1>1, <2>2, <2>3
  <2>5. ASSUME NEW i \in 1 .. b PROVE t[i] = toupper(v[i]) /\ t[i] # 0
    <3>1. t[i] = toupper(v[i]) /\ v[i] \in Nat /\ v[i] # 0
      BY <1>4, <2>1, <2>2
    <3> QED
      BY <1>2, <3>1
  <2> QED
    BY <2>4, <2>5
<1> HIDE DEF s, t
<1>11. Compared(s, t, l, x, y)
  <2>1. ASSUME NEW i \in 0 .. l - 1
        PROVE  /\ i \in 0 .. a /\ i \in 0 .. b
               /\ i < a => i + 1 \in 1 .. a
               /\ i < b => i + 1 \in 1 .. b
    BY <1>1
  <2>2. x \in [0 .. l - 1 -> Nat] /\ y \in [0 .. l - 1 -> Nat]
    BY <1>2, <1>5, <1>6, <1>7, <2>1
  <2>3. ASSUME NEW i \in 0 .. l - 1
        PROVE  /\ i < a => x[i] = s[i + 1]
               /\ i = a => x[i] = 0
    <3>1. x[i] = toupper(m[p + i]) /\ m[p + i] \in Nat
      BY <1>5, <1>7, <2>1
    <3> QED
      BY <1>2, <1>5, <1>9, <2>1, <3>1
  <2>4. ASSUME NEW i \in 0 .. l - 1
        PROVE  /\ i < b => y[i] = t[i + 1]
               /\ i = b => y[i] = 0
    <3>1. y[i] = toupper(m[q + i]) /\ m[q + i] \in Nat
      BY <1>6, <1>7, <2>1
    <3> QED
      BY <1>2, <1>6, <1>10, <2>1, <3>1
  <2> QED
    BY <1>1, <1>9, <1>10, <2>2, <2>3, <2>4 DEF Compared
<1>13. Order(d, s, t)
  BY <1>1, <1>8, <1>9, <1>10, <1>11, DifferenceOrders DEF Order
<1> QED
  BY <1>13 DEF d, s, t, u, v

-------------------------------------------------------------------------------
(* The searching functions *)

LEMMA EndIs ==
  ASSUME NEW m \in Seq(Nat), NEW p \in DOMAIN m, NEW e \in DOMAIN m, p <= e, m[e] = 0, \A i \in p .. e - 1 : m[i] # 0
  PROVE  Terminated(m, p) /\ End(m, p) = e /\ strlen(m, p) = e - p
<1>1. DOMAIN m = 1 .. Len(m) /\ Len(m) \in Nat
  BY LenProperties
<1>2. Terminated(m, p)
  BY <1>1 DEF Terminated
<1>3. /\ End(m, p) \in DOMAIN m /\ End(m, p) \in Nat /\ p <= End(m, p) /\ m[End(m, p)] = 0
      /\ \A i \in DOMAIN m : i >= p /\ i < End(m, p) => m[i] # 0
  BY <1>2, EndFacts
<1>4. End(m, p) = e
  <2>1. ~(End(m, p) < e)
    <3> SUFFICES ASSUME End(m, p) < e PROVE FALSE
      OBVIOUS
    <3>1. End(m, p) \in p .. e - 1
      BY <1>1, <1>3
    <3> QED
      BY <1>3, <3>1
  <2>2. ~(e < End(m, p))
    BY <1>1, <1>3
  <2> QED
    BY <1>1, <1>3, <2>1, <2>2
<1> QED
  BY <1>2, <1>4 DEF strlen

\* The memory of a search: a text and what is searched for, each with its terminator.
Texted(s, find) == s \o <<0>> \o find \o <<0>>

LEMMA TextedFacts ==
  ASSUME NEW s \in Seq(Nat \ {0}), NEW find \in Seq(Nat \ {0})
  PROVE  LET m == Texted(s, find)
         IN /\ m \in Seq(Nat) /\ Len(m) = Len(s) + Len(find) + 2 /\ DOMAIN m = 1 .. Len(s) + Len(find) + 2
            /\ \A i \in 1 .. Len(s) : m[i] = s[i]
            /\ m[Len(s) + 1] = 0
            /\ \A i \in 1 .. Len(find) : m[Len(s) + 1 + i] = find[i]
            /\ m[Len(s) + Len(find) + 2] = 0
<1>1. s \in Seq(Nat) /\ find \in Seq(Nat) /\ <<0>> \in Seq(Nat) /\ Len(<<0>>) = 1 /\ <<0>>[1] = 0
  BY SeqMonotonic
<1>2. Len(s) \in Nat /\ Len(find) \in Nat
  BY LenProperties
<1> DEFINE a == s \o <<0>>
           b == a \o find
           m == b \o <<0>>
           n == Len(s)
           k == Len(find)
           z == <<0>>
<1> HIDE DEF z
<1>3. /\ z \in Seq(Nat) /\ Len(z) = 1 /\ z[1] = 0
  BY <1>1 DEF z
<1>4. /\ a \in Seq(Nat) /\ Len(a) = n + 1
      /\ \A i \in 1 .. n + 1 : a[i] = IF i <= n THEN s[i] ELSE z[i - n]
  <2>1. a = s \o z
    BY DEF z
  <2> HIDE DEF a
  <2>8. s \in Seq(Nat) /\ z \in Seq(Nat)
    BY <1>1, <1>3
  <2>9. /\ s \o z \in Seq(Nat) /\ Len(s \o z) = Len(s) + Len(z)
       /\ \A i \in 1 .. Len(s) + Len(z) : (s \o z)[i] = IF i <= Len(s) THEN s[i] ELSE z[i - Len(s)]
    BY ONLY <2>8, ConcatProperties
  <2>10. Len(s) + Len(z) = n + 1
    BY <1>2, <1>3
  <2> QED
    BY <2>1, <2>9, <2>10
<1> HIDE DEF a
<1>5. /\ b \in Seq(Nat) /\ Len(b) = n + 1 + k
      /\ \A i \in 1 .. n + 1 + k : b[i] = IF i <= n + 1 THEN a[i] ELSE find[i - (n + 1)]
  <2>8. a \in Seq(Nat) /\ find \in Seq(Nat)
    BY <1>1, <1>4
  <2>9. /\ a \o find \in Seq(Nat) /\ Len(a \o find) = Len(a) + Len(find)
       /\ \A i \in 1 .. Len(a) + Len(find) : (a \o find)[i] = IF i <= Len(a) THEN a[i] ELSE find[i - Len(a)]
    BY ONLY <2>8, ConcatProperties
  <2>10. Len(a) + Len(find) = n + 1 + k
    BY <1>2, <1>4
  <2> QED
    BY <1>4, <2>9, <2>10
<1> HIDE DEF b
<1>6. /\ m \in Seq(Nat) /\ Len(m) = n + 1 + k + 1
      /\ \A i \in 1 .. n + 1 + k + 1 : m[i] = IF i <= n + 1 + k THEN b[i] ELSE z[i - (n + 1 + k)]
  <2>1. m = b \o z
    BY DEF z
  <2> HIDE DEF m
  <2>8. b \in Seq(Nat) /\ z \in Seq(Nat)
    BY <1>3, <1>5
  <2>9. /\ b \o z \in Seq(Nat) /\ Len(b \o z) = Len(b) + Len(z)
       /\ \A i \in 1 .. Len(b) + Len(z) : (b \o z)[i] = IF i <= Len(b) THEN b[i] ELSE z[i - Len(b)]
    BY ONLY <2>8, ConcatProperties
  <2>10. Len(b) + Len(z) = n + 1 + k + 1
    BY <1>2, <1>3, <1>5
  <2> QED
    BY <1>5, <2>1, <2>9, <2>10
<1>7. m = Texted(s, find)
  BY DEF Texted, a, b
<1> HIDE DEF m
<1>8. Len(m) = n + k + 2 /\ DOMAIN m = 1 .. n + k + 2
  <2>1. Len(m) = n + k + 2
    BY <1>2, <1>6
  <2>2. DOMAIN m = 1 .. Len(m)
    BY <1>6, LenProperties
  <2> QED
    BY <2>1, <2>2
<1> HIDE DEF n, k
<1>9. n \in Nat /\ k \in Nat
  BY <1>2 DEF n, k
<1>10. ASSUME NEW i \in 1 .. n PROVE m[i] = s[i]
  <2>1. i \in 1 .. n + 1 + k + 1 /\ i <= n + 1 + k /\ i \in 1 .. n + 1 + k /\ i <= n + 1 /\ i \in 1 .. n + 1 /\ i <= n
    BY <1>9
  <2> QED
    BY <1>4, <1>5, <1>6, <2>1
<1>11. m[n + 1] = 0
  <2> DEFINE i == n + 1
  <2>1. i \in 1 .. n + 1 + k + 1 /\ i <= n + 1 + k /\ i \in 1 .. n + 1 + k /\ i <= n + 1 /\ i \in 1 .. n + 1 /\ ~(i <= n)
        /\ i - n = 1
    BY <1>9
  <2> HIDE DEF i
  <2>2. m[i] = 0
    BY <1>3, <1>4, <1>5, <1>6, <2>1
  <2> QED
    BY <2>2 DEF i
<1>12. ASSUME NEW j \in 1 .. k PROVE m[n + 1 + j] = find[j]
  <2> DEFINE i == n + 1 + j
  <2>1. i \in 1 .. n + 1 + k + 1 /\ i <= n + 1 + k /\ i \in 1 .. n + 1 + k /\ ~(i <= n + 1) /\ i - (n + 1) = j
    BY <1>9
  <2> HIDE DEF i
  <2>2. m[i] = find[j]
    BY <1>5, <1>6, <2>1
  <2> QED
    BY <2>2 DEF i
<1>13. m[n + k + 2] = 0
  <2> DEFINE i == n + k + 2
  <2>1. i \in 1 .. n + 1 + k + 1 /\ ~(i <= n + 1 + k) /\ i - (n + 1 + k) = 1
    BY <1>9
  <2> HIDE DEF i
  <2>2. m[i] = 0
    BY <1>3, <1>6, <2>1
  <2> QED
    BY <2>2 DEF i
<1> QED
  BY <1>6, <1>7, <1>8, <1>10, <1>11, <1>12, <1>13 DEF n, k

\* The text from any place of the first on, and of the second.
LEMMA TextedTexts ==
  ASSUME NEW s \in Seq(Nat \ {0}), NEW find \in Seq(Nat \ {0})
  PROVE  LET m == Texted(s, find)
             n == Len(s)
             k == Len(find)
         IN /\ \A p \in 1 .. n + 1 : /\ p \in DOMAIN m /\ Terminated(m, p) /\ End(m, p) = n + 1
                                     /\ TextAt(m, p) \in Seq(Nat) /\ Len(TextAt(m, p)) = n + 1 - p
                                     /\ \A i \in 1 .. n + 1 - p : TextAt(m, p)[i] = s[p + i - 1]
            /\ \A h \in 0 .. k : LET p == n + 2 + h IN
                 /\ p \in DOMAIN m /\ Terminated(m, p) /\ strlen(m, p) = k - h
                 /\ TextAt(m, p) \in Seq(Nat) /\ Len(TextAt(m, p)) = k - h
                 /\ \A i \in 1 .. k - h : TextAt(m, p)[i] = find[h + i]
<1> DEFINE m == Texted(s, find)
           n == Len(s)
           k == Len(find)
<1>1. n \in Nat /\ k \in Nat /\ (\A i \in 1 .. n : s[i] \in Nat \ {0}) /\ (\A i \in 1 .. k : find[i] \in Nat \ {0})
  BY LenProperties, ElementOfSeq
<1>2. /\ m \in Seq(Nat) /\ DOMAIN m = 1 .. n + k + 2
      /\ \A i \in 1 .. n : m[i] = s[i]
      /\ m[n + 1] = 0
      /\ \A i \in 1 .. k : m[n + 1 + i] = find[i]
      /\ m[n + k + 2] = 0
  BY TextedFacts
<1> HIDE DEF m, n, k
<1>3. ASSUME NEW p \in 1 .. n + 1
      PROVE  /\ p \in DOMAIN m /\ Terminated(m, p) /\ End(m, p) = n + 1
             /\ TextAt(m, p) \in Seq(Nat) /\ Len(TextAt(m, p)) = n + 1 - p
             /\ \A i \in 1 .. n + 1 - p : TextAt(m, p)[i] = s[p + i - 1]
  <2>1. p \in DOMAIN m /\ n + 1 \in DOMAIN m /\ p <= n + 1
    BY <1>1, <1>2
  <2>2. \A i \in p .. (n + 1) - 1 : m[i] # 0
    BY <1>1, <1>2
  <2> DEFINE e == n + 1
  <2>3. m[e] = 0 /\ e \in DOMAIN m /\ p <= e /\ \A i \in p .. e - 1 : m[i] # 0
    BY <1>2, <2>1, <2>2
  <2> HIDE DEF e
  <2>4. Terminated(m, p) /\ End(m, p) = e /\ strlen(m, p) = e - p
    BY <1>2, <2>1, <2>3, EndIs
  <2>5. /\ TextAt(m, p) \in Seq(Nat) /\ Len(TextAt(m, p)) = strlen(m, p)
        /\ \A i \in 1 .. strlen(m, p) : TextAt(m, p)[i] = m[p + i - 1]
    BY <1>2, <2>1, <2>4, TextFacts
  <2>6. ASSUME NEW i \in 1 .. n + 1 - p PROVE TextAt(m, p)[i] = s[p + i - 1]
    <3>1. i \in 1 .. strlen(m, p) /\ p + i - 1 \in 1 .. n
      BY <1>1, <2>4 DEF e
    <3> QED
      BY <1>2, <2>5, <3>1
  <2>7. strlen(m, p) = n + 1 - p
    BY <1>1, <2>4 DEF e
  <2> QED
    BY <2>1, <2>4, <2>5, <2>6, <2>7 DEF e
<1>4. ASSUME NEW h \in 0 .. k
      PROVE  LET p == n + 2 + h IN
             /\ p \in DOMAIN m /\ Terminated(m, p) /\ strlen(m, p) = k - h
             /\ TextAt(m, p) \in Seq(Nat) /\ Len(TextAt(m, p)) = k - h
             /\ \A i \in 1 .. k - h : TextAt(m, p)[i] = find[h + i]
  <2> DEFINE p == n + 2 + h
             e == n + k + 2
  <2>1. p \in DOMAIN m /\ e \in DOMAIN m /\ p <= e /\ m[e] = 0 /\ e - p = k - h
    BY <1>1, <1>2
  <2>2. ASSUME NEW i \in p .. e - 1 PROVE m[i] # 0
    <3> DEFINE j == i - (n + 1)
    <3>1. j \in 1 .. k /\ n + 1 + j = i
      BY <1>1
    <3> HIDE DEF j
    <3>2. m[i] = find[j] /\ find[j] # 0
      BY <1>1, <1>2, <3>1
    <3> QED
      BY <3>2
  <2>a. p = n + 2 + h /\ p \in Nat
    BY <1>1
  <2> HIDE DEF p, e
  <2>3. Terminated(m, p) /\ strlen(m, p) = k - h
    BY <1>2, <2>1, <2>2, EndIs
  <2>4. /\ TextAt(m, p) \in Seq(Nat) /\ Len(TextAt(m, p)) = k - h
        /\ \A i \in 1 .. k - h : TextAt(m, p)[i] = m[p + i - 1]
    <3>1. /\ TextAt(m, p) \in Seq(Nat) /\ Len(TextAt(m, p)) = strlen(m, p)
          /\ \A i \in 1 .. strlen(m, p) : TextAt(m, p)[i] = m[p + i - 1]
      BY <1>2, <2>1, <2>3, TextFacts
    <3> QED
      BY <2>3, <3>1
  <2>5. ASSUME NEW i \in 1 .. k - h PROVE TextAt(m, p)[i] = find[h + i]
    <3> DEFINE j == h + i
    <3>1. j \in 1 .. k /\ p + i - 1 = n + 1 + j
      BY <1>1, <2>a
    <3> HIDE DEF j
    <3>2. TextAt(m, p)[i] = find[j]
      BY <1>2, <2>4, <3>1
    <3> QED
      BY <3>2 DEF j
  <2>6. /\ p \in DOMAIN m /\ Terminated(m, p) /\ strlen(m, p) = k - h
        /\ TextAt(m, p) \in Seq(Nat) /\ Len(TextAt(m, p)) = k - h
        /\ \A i \in 1 .. k - h : TextAt(m, p)[i] = find[h + i]
    BY <2>1, <2>3, <2>4, <2>5
  <2> QED
    BY <2>6 DEF p
<1> QED
  BY <1>3, <1>4 DEF m, n, k

\* Where find lies in s.
LiesAt(s, find) == {i \in 1 .. Len(s) - Len(find) + 1 : SubSeq(s, i, i + Len(find) - 1) = find}

LEMMA FoundIsFirst ==
  ASSUME NEW s, NEW find
  PROVE  Found(s, find) = First(LiesAt(s, find))
  BY DEF Found, First, LiesAt

LEMMA LiesAtPlace ==
  ASSUME NEW s \in Seq(Nat \ {0}), NEW find \in Seq(Nat \ {0}), NEW i \in Nat \ {0}
  PROVE  i \in LiesAt(s, find) <=> i <= Len(s) - Len(find) + 1 /\ \A j \in 1 .. Len(find) : s[i + j - 1] = find[j]
<1> DEFINE n == Len(s)
           k == Len(find)
           t == SubSeq(s, i, i + k - 1)
<1>1. n \in Nat /\ k \in Nat
  BY LenProperties
<1>2. i \in LiesAt(s, find) <=> i \in 1 .. n - k + 1 /\ t = find
  BY DEF LiesAt
<1>3. CASE i <= n - k + 1
  <2>1. \A j \in i .. i + k - 1 : j \in 1 .. n
    BY <1>1, <1>3
  <2>2. \A j \in i .. i + k - 1 : s[j] \in Nat \ {0}
    BY <2>1, ElementOfSeq
  <2>3. i \in Int /\ i + k - 1 \in Int
    BY <1>1
  <2>4. /\ t \in Seq(Nat \ {0}) /\ Len(t) = IF i <= i + k - 1 THEN i + k - 1 - i + 1 ELSE 0
        /\ \A j \in 1 .. i + k - 1 - i + 1 : t[j] = s[i + j - 1]
    BY <2>2, <2>3, SubSeqProperties
  <2>5. i + k - 1 - i + 1 = k /\ (i <= i + k - 1 <=> k # 0)
    BY <1>1, <2>3
  <2>6. Len(t) = k /\ \A j \in 1 .. k : t[j] = s[i + j - 1]
    BY <1>1, <2>4, <2>5
  <2>7. t = find <=> \A j \in 1 .. k : s[i + j - 1] = find[j]
    <3>1. ASSUME \A j \in 1 .. k : s[i + j - 1] = find[j] PROVE t = find
      <4>1. \A j \in 1 .. Len(t) : t[j] = find[j]
        BY <2>6, <3>1
      <4>2. Len(t) = Len(find) /\ t \in Seq(Nat \ {0})
        BY <2>4, <2>6
      <4> HIDE DEF t
      <4> QED
        BY <4>1, <4>2, SeqEqual
    <3>2. ASSUME t = find PROVE \A j \in 1 .. k : s[i + j - 1] = find[j]
      <4> HIDE DEF t
      <4> QED
        BY <2>6, <3>2
    <3> QED
      BY <3>1, <3>2
  <2> HIDE DEF t, n, k
  <2>8. i \in 1 .. n - k + 1
    BY <1>1, <1>3
  <2> QED
    BY <1>2, <1>3, <2>7, <2>8 DEF n, k
<1>4. CASE ~(i <= n - k + 1)
  <2> HIDE DEF t, n, k
  <2>1. i \notin 1 .. n - k + 1
    BY <1>1, <1>4
  <2> QED
    BY <1>2, <1>4, <2>1 DEF n, k
<1> QED
  BY <1>3, <1>4

\* A place where strstr finds the first character and then the rest.
LEMMA RestCompared ==
  ASSUME NEW s \in Seq(Nat \ {0}), NEW find \in Seq(Nat \ {0}), find # <<>>, NEW i \in 1 .. Len(s)
  PROVE  LET m == Texted(s, find)
             d == Len(s) + 2
         IN (m[i] = m[d] /\ strncmp(m, i + 1, d + 1, Len(find) - 1) = 0) <=> i \in LiesAt(s, find)
<1> DEFINE m == Texted(s, find)
           n == Len(s)
           k == Len(find)
           d == n + 2
           r == TextAt(m, i + 1)
           f == TextAt(m, d + 1)
           l == k - 1
           z == strncmp(m, i + 1, d + 1, l)
<1>1. n \in Nat /\ k \in Nat \ {0} /\ l \in Nat
  BY LenProperties, EmptySeq
<1>2. /\ m \in Seq(Nat) /\ m[i] = s[i] /\ \A j \in 1 .. k : m[n + 1 + j] = find[j]
  BY TextedFacts
<1>3. m[d] = find[1]
  <2>1. n + 1 + 1 = d /\ 1 \in 1 .. k
    BY <1>1
  <2> QED
    BY <1>2, <2>1
<1>4. /\ i + 1 \in DOMAIN m /\ Terminated(m, i + 1)
      /\ r \in Seq(Nat) /\ Len(r) = n - i /\ \A j \in 1 .. n - i : r[j] = s[i + j]
  <2> DEFINE p == i + 1
  <2>1. p \in 1 .. n + 1 /\ n + 1 - p = n - i
    BY <1>1
  <2>2. /\ p \in DOMAIN m /\ Terminated(m, p)
        /\ TextAt(m, p) \in Seq(Nat) /\ Len(TextAt(m, p)) = n + 1 - p
        /\ \A j \in 1 .. n + 1 - p : TextAt(m, p)[j] = s[p + j - 1]
    <3> HIDE DEF p
    <3> QED
      BY <2>1, TextedTexts
  <2>3. \A j \in 1 .. n - i : p + j - 1 = i + j
    BY <1>1
  <2> QED
    BY <2>1, <2>2, <2>3
<1>5. /\ d + 1 \in DOMAIN m /\ Terminated(m, d + 1)
      /\ f \in Seq(Nat) /\ Len(f) = l /\ \A j \in 1 .. l : f[j] = find[1 + j]
  <2> DEFINE p == n + 2 + 1
  <2>1. 1 \in 0 .. k /\ p = d + 1 /\ k - 1 = l
    BY <1>1
  <2>2. /\ p \in DOMAIN m /\ Terminated(m, p)
        /\ TextAt(m, p) \in Seq(Nat) /\ Len(TextAt(m, p)) = k - 1
        /\ \A j \in 1 .. k - 1 : TextAt(m, p)[j] = find[1 + j]
    BY <2>1, TextedTexts
  <2> HIDE DEF p
  <2> QED
    BY <2>1, <2>2
<1>6. z = 0 <=> Take(r, l) = Take(f, l)
  <2>1. Order(z, Take(r, l), Take(f, l))
    BY <1>1, <1>2, <1>4, <1>5, StrncmpOrders
  <2> QED
    BY <2>1 DEF Order
<1>7. i \in LiesAt(s, find) <=> i <= n - k + 1 /\ \A j \in 1 .. k : s[i + j - 1] = find[j]
  <2>1. i \in Nat \ {0}
    OBVIOUS
  <2> QED
    BY <2>1, LiesAtPlace
<1> HIDE DEF m, n, k, d, r, f, l, z
<1>8. Take(f, l) = f /\ l <= l
  BY <1>1, <1>5, TakeAll
<1>9. l = k - 1 /\ i \in Nat \ {0}
  BY DEF l
<1>10. Take(r, l) = f <=> l <= n - i /\ \A j \in 1 .. l : s[i + j] = find[1 + j]
  <2>1. /\ Take(r, l) \in Seq(Nat) /\ Len(Take(r, l)) = (IF l <= n - i THEN l ELSE n - i)
        /\ \A j \in 1 .. Len(Take(r, l)) : Take(r, l)[j] = r[j]
    BY <1>1, <1>4, TakeFacts
  <2>2. ASSUME Take(r, l) = f PROVE l <= n - i /\ \A j \in 1 .. l : s[i + j] = find[1 + j]
    <3>1. l <= n - i
      BY <1>1, <1>5, <1>9, <2>1, <2>2
    <3>2. \A j \in 1 .. l : j \in 1 .. n - i
      BY <1>1, <1>9, <3>1
    <3> QED
      BY <1>4, <1>5, <2>1, <2>2, <3>1, <3>2
  <2>3. ASSUME l <= n - i, \A j \in 1 .. l : s[i + j] = find[1 + j] PROVE Take(r, l) = f
    <3>1. \A j \in 1 .. l : j \in 1 .. n - i
      BY <1>1, <1>9, <2>3
    <3>2. Len(Take(r, l)) = Len(f) /\ \A j \in 1 .. Len(Take(r, l)) : Take(r, l)[j] = f[j]
      BY <1>4, <1>5, <2>1, <2>3, <3>1
    <3> QED
      BY <1>5, <2>1, <3>2, SeqEqual
  <2> QED
    BY <2>2, <2>3
<1>11. (s[i] = find[1] /\ l <= n - i /\ \A j \in 1 .. l : s[i + j] = find[1 + j])
         <=> (i <= n - k + 1 /\ \A j \in 1 .. k : s[i + j - 1] = find[j])
  <2>1. l <= n - i <=> i <= n - k + 1
    BY <1>1, <1>9
  <2>2. ASSUME s[i] = find[1], \A j \in 1 .. l : s[i + j] = find[1 + j], NEW j \in 1 .. k
        PROVE  s[i + j - 1] = find[j]
    <3>1. CASE j = 1
      <4>1. i + j - 1 = i
        BY <1>9, <3>1
      <4> QED
        BY <2>2, <3>1, <4>1
    <3>2. CASE j # 1
      <4> DEFINE h == j - 1
      <4>1. h \in 1 .. l /\ i + j - 1 = i + h /\ 1 + h = j
        BY <1>1, <1>9, <3>2
      <4> HIDE DEF h
      <4> QED
        BY <2>2, <4>1
    <3> QED
      BY <3>1, <3>2
  <2>3. ASSUME \A j \in 1 .. k : s[i + j - 1] = find[j]
        PROVE  s[i] = find[1] /\ \A j \in 1 .. l : s[i + j] = find[1 + j]
    <3>1. s[i] = find[1]
      <4>1. 1 \in 1 .. k /\ i + 1 - 1 = i
        BY <1>1, <1>9
      <4> QED
        BY <2>3, <4>1
    <3>2. ASSUME NEW j \in 1 .. l PROVE s[i + j] = find[1 + j]
      <4> DEFINE h == 1 + j
      <4>1. h \in 1 .. k /\ i + h - 1 = i + j
        BY <1>1, <1>9
      <4> HIDE DEF h
      <4>2. s[i + j] = find[h]
        BY <2>3, <4>1
      <4> QED
        BY <4>2 DEF h
    <3> QED
      BY <3>1, <3>2
  <2> QED
    BY <2>1, <2>2, <2>3
<1>12. (m[i] = m[d] /\ z = 0) <=> i \in LiesAt(s, find)
  BY <1>2, <1>3, <1>6, <1>7, <1>8, <1>10, <1>11
<1> QED
  BY <1>12 DEF m, n, k, d, l, z

LEMMA StrstrFinds ==
  ASSUME NEW s \in Seq(Nat \ {0}), NEW find \in Seq(Nat \ {0})
  PROVE  strstr(Texted(s, find), 1, Len(s) + 2) = IF find = <<>> THEN 1 ELSE Found(s, find)
<1> DEFINE m == Texted(s, find)
           n == Len(s)
           k == Len(find)
           d == n + 2
<1>1. n \in Nat /\ k \in Nat /\ (find = <<>> <=> k = 0)
  BY LenProperties, EmptySeq
<1>2. /\ \A j \in 1 .. k : m[n + 1 + j] = find[j]
      /\ m[n + k + 2] = 0
  BY TextedFacts
<1>3. End(m, 1) = n + 1
  <2>1. 1 \in 1 .. n + 1
    BY <1>1
  <2> QED
    BY <2>1, TextedTexts
<1>4. strlen(m, d) = k
  <2>1. 0 \in 0 .. k
    BY <1>1
  <2>2. strlen(m, n + 2 + 0) = k - 0
    BY <2>1, TextedTexts
  <2>3. n + 2 + 0 = d /\ k - 0 = k
    BY <1>1
  <2> QED
    BY <2>2, <2>3
<1>5. CASE find = <<>>
  <2>1. n + k + 2 = d
    BY <1>1, <1>5
  <2>2. m[d] = 0
    BY <1>2, <2>1
  <2> QED
    BY <1>5, <2>2 DEF strstr
<1>6. CASE find # <<>>
  <2> DEFINE T == {i \in 1 .. (n + 1) - 1 : m[i] = m[d] /\ strncmp(m, i + 1, d + 1, k - 1) = 0}
  <2>1. m[d] # 0
    <3>1. n + 1 + 1 = d /\ 1 \in 1 .. k
      BY <1>1, <1>6
    <3>2. m[d] = find[1]
      BY <1>2, <3>1
    <3> QED
      BY <3>1, <3>2, ElementOfSeq
  <2>2. strstr(m, 1, d) = First(T)
    BY <1>3, <1>4, <2>1 DEF strstr
  <2>3. \A i \in 1 .. n : (m[i] = m[d] /\ strncmp(m, i + 1, d + 1, k - 1) = 0) <=> i \in LiesAt(s, find)
    BY <1>6, RestCompared
  <2>4. LiesAt(s, find) \subseteq 1 .. n /\ 1 .. (n + 1) - 1 = 1 .. n
    <3>1. n - k + 1 <= n /\ (n + 1) - 1 = n /\ n - k + 1 \in Int
      BY <1>1, <1>6
    <3>2. LiesAt(s, find) \subseteq 1 .. n - k + 1
      BY DEF LiesAt
    <3> QED
      BY <1>1, <3>1, <3>2
  <2>5. T = LiesAt(s, find)
    BY <2>3, <2>4
  <2> QED
    BY <1>6, <2>2, <2>5, FoundIsFirst
<1> QED
  BY <1>5, <1>6

\* Where a character lies in a text.
PlacesOf(s, c) == {i \in 1 .. Len(s) : s[i] = c}

LEMMA OneLiesAt ==
  ASSUME NEW s \in Seq(Nat \ {0}), NEW c \in Nat \ {0}
  PROVE  LiesAt(s, <<c>>) = PlacesOf(s, c)
<1> DEFINE one == <<c>>
<1>1. one \in Seq(Nat \ {0}) /\ Len(one) = 1 /\ one[1] = c
  OBVIOUS
<1>2. Len(s) \in Nat
  BY LenProperties
<1> HIDE DEF one
<1>3. \A i \in LiesAt(s, one) : i \in Nat \ {0}
  <2>1. Len(s) - Len(one) + 1 \in Int
    BY <1>1, <1>2
  <2> QED
    BY <2>1 DEF LiesAt
<1>4. ASSUME NEW i \in Nat \ {0}
      PROVE  i \in LiesAt(s, one) <=> i \in PlacesOf(s, c)
  <2>1. i \in LiesAt(s, one) <=> i <= Len(s) - Len(one) + 1 /\ \A j \in 1 .. Len(one) : s[i + j - 1] = one[j]
    BY <1>1, LiesAtPlace
  <2>2. i <= Len(s) - Len(one) + 1 <=> i \in 1 .. Len(s)
    BY <1>1, <1>2
  <2>3. (\A j \in 1 .. Len(one) : s[i + j - 1] = one[j]) <=> s[i] = c
    <3>1. \A j \in 1 .. Len(one) : j = 1
      BY <1>1
    <3>2. 1 \in 1 .. Len(one) /\ i + 1 - 1 = i
      BY <1>1
    <3> QED
      BY <1>1, <3>1, <3>2
  <2> QED
    BY <2>1, <2>2, <2>3 DEF PlacesOf
<1>5. \A i \in PlacesOf(s, c) : i \in Nat \ {0}
  BY <1>2 DEF PlacesOf
<1>6. LiesAt(s, one) = PlacesOf(s, c)
  BY <1>3, <1>4, <1>5
<1> QED
  BY <1>6 DEF one

\* The first character of a text that is not empty.
LEMMA TakeOne ==
  ASSUME NEW find \in Seq(Nat \ {0}), find # <<>>
  PROVE  Take(find, 1) = <<find[1]>> /\ find[1] \in Nat \ {0}
<1>1. Len(find) \in Nat \ {0}
  BY EmptySeq
<1>2. /\ Take(find, 1) \in Seq(Nat \ {0}) /\ Len(Take(find, 1)) = 1
      /\ \A i \in 1 .. 1 : Take(find, 1)[i] = find[i]
  <2>1. /\ Take(find, 1) \in Seq(Nat \ {0}) /\ Len(Take(find, 1)) = (IF 1 <= Len(find) THEN 1 ELSE Len(find))
        /\ \A i \in 1 .. Len(Take(find, 1)) : Take(find, 1)[i] = find[i]
    BY TakeFacts
  <2> QED
    BY <1>1, <2>1
<1>3. find[1] \in Nat \ {0}
  BY <1>1, ElementOfSeq
<1> DEFINE one == <<find[1]>>
<1>4. one \in Seq(Nat \ {0}) /\ Len(one) = 1 /\ one[1] = find[1]
  BY <1>3
<1> HIDE DEF one
<1>5. Take(find, 1) = one
  <2>1. \A i \in 1 .. Len(Take(find, 1)) : Take(find, 1)[i] = one[i]
    BY <1>2, <1>4
  <2> QED
    BY <1>2, <1>4, <2>1, SeqEqual
<1> QED
  BY <1>3, <1>5 DEF one

\* What strchr and strrchr look through.
LEMMA CharPlaces ==
  ASSUME NEW s \in Seq(Nat \ {0}), NEW find \in Seq(Nat \ {0})
  PROVE  LET m == Texted(s, find)
             c == m[Len(s) + 2]
         IN {i \in 1 .. End(m, 1) : m[i] = c} = IF find = <<>> THEN {Len(s) + 1} ELSE PlacesOf(s, find[1])
<1> DEFINE m == Texted(s, find)
           n == Len(s)
           k == Len(find)
           c == m[n + 2]
           T == {i \in 1 .. End(m, 1) : m[i] = c}
<1>1. n \in Nat /\ k \in Nat /\ (find = <<>> <=> k = 0) /\ (\A i \in 1 .. n : s[i] # 0)
  BY LenProperties, EmptySeq, ElementOfSeq
<1>2. /\ \A j \in 1 .. n : m[j] = s[j]
      /\ m[n + 1] = 0
      /\ \A j \in 1 .. k : m[n + 1 + j] = find[j]
      /\ m[n + k + 2] = 0
  BY TextedFacts
<1>3. End(m, 1) = n + 1
  <2>1. 1 \in 1 .. n + 1
    BY <1>1
  <2> QED
    BY <2>1, TextedTexts
<1>4. CASE find = <<>>
  <2>1. n + k + 2 = n + 2
    BY <1>1, <1>4
  <2>2. c = 0
    BY <1>2, <2>1
  <2> HIDE DEF c, m, n
  <2>3. \A i \in 1 .. n + 1 : m[i] = 0 <=> i = n + 1
    <3>1. \A i \in 1 .. n + 1 : i = n + 1 \/ i \in 1 .. n
      BY <1>1
    <3> QED
      BY <1>1, <1>2, <3>1
  <2>4. n + 1 \in 1 .. n + 1
    BY <1>1
  <2>5. T = {n + 1}
    BY <1>3, <2>2, <2>3, <2>4
  <2> HIDE DEF T
  <2> QED
    BY <1>4, <2>5 DEF T, c, m, n
<1>5. CASE find # <<>>
  <2>1. n + 1 + 1 = n + 2 /\ 1 \in 1 .. k
    BY <1>1, <1>5
  <2>2. c = find[1]
    BY <1>2, <2>1
  <2>3. find[1] # 0
    BY <1>5, TakeOne
  <2> HIDE DEF c, m, n
  <2>4. \A i \in 1 .. n + 1 : m[i] = c <=> i \in 1 .. n /\ s[i] = c
    <3>1. \A i \in 1 .. n + 1 : i = n + 1 \/ i \in 1 .. n
      BY <1>1
    <3>2. n + 1 \notin 1 .. n
      BY <1>1
    <3> QED
      BY <1>2, <2>2, <2>3, <3>1, <3>2
  <2>5. 1 .. n \subseteq 1 .. n + 1
    BY <1>1
  <2>6. T = {i \in 1 .. n : s[i] = find[1]}
    BY <1>3, <2>2, <2>4, <2>5
  <2>7. T = PlacesOf(s, find[1])
    BY <2>6 DEF PlacesOf, n
  <2> HIDE DEF T
  <2> QED
    BY <1>5, <2>7 DEF T, c, m, n
<1> QED
  BY <1>4, <1>5

LEMMA StrchrFinds ==
  ASSUME NEW s \in Seq(Nat \ {0}), NEW find \in Seq(Nat \ {0})
  PROVE  strchr(Texted(s, find), 1, Texted(s, find)[Len(s) + 2])
           = IF find = <<>> THEN Len(s) + 1 ELSE Found(s, Take(find, 1))
<1> DEFINE m == Texted(s, find)
           c == m[Len(s) + 2]
           T == {i \in 1 .. End(m, 1) : m[i] = c}
<1>1. strchr(m, 1, c) = First(T)
  BY DEF strchr
<1>2. T = IF find = <<>> THEN {Len(s) + 1} ELSE PlacesOf(s, find[1])
  BY CharPlaces
<1> HIDE DEF T, c, m
<1>3. CASE find = <<>>
  <2>1. Len(s) \in Nat
    BY LenProperties
  <2>2. T = {Len(s) + 1} /\ T \in SUBSET Nat
    BY <1>2, <1>3, <2>1
  <2>3. Min(T) \in T
    BY <2>2, LeastNumber
  <2> QED
    BY <1>1, <1>3, <2>2, <2>3 DEF First, c, m
<1>4. CASE find # <<>>
  <2>1. T = LiesAt(s, Take(find, 1))
    BY <1>2, <1>4, TakeOne, OneLiesAt
  <2>2. Found(s, Take(find, 1)) = First(T)
    BY <2>1, FoundIsFirst
  <2> QED
    BY <1>1, <1>4, <2>2 DEF c, m
<1> QED
  BY <1>3, <1>4

\* The last place is the first one from behind.
LEMMA LastIsFirstReversed ==
  ASSUME NEW s \in Seq(Nat \ {0}), NEW c \in Nat \ {0}
  PROVE  LET n == Len(s)
         IN (IF PlacesOf(s, c) = {} THEN 0 ELSE Max(PlacesOf(s, c))) = (n + 1 - Found(Reverse(s), <<c>>)) % (n + 1)
<1> DEFINE n == Len(s)
           u == Reverse(s)
           T == PlacesOf(s, c)
           R == PlacesOf(u, c)
<1>1. n \in Nat /\ \A i \in 1 .. n : s[i] \in Nat \ {0}
  BY LenProperties, ElementOfSeq
<1>2. u = [i \in 1 .. n |-> s[(n - i) + 1]]
  BY DEF Reverse
<1> HIDE DEF u, n
<1>3. u \in [1 .. n -> Nat \ {0}]
  BY <1>1, <1>2
<1>4. u \in Seq(Nat \ {0}) /\ Len(u) = n
  BY <1>1, <1>2, <1>3
<1>5. T = {i \in 1 .. n : s[i] = c} /\ R = {i \in 1 .. n : u[i] = c}
  BY <1>4 DEF PlacesOf, n
<1> HIDE DEF T, R
<1>6. \A i \in 1 .. n : i \in R <=> (n + 1) - i \in T
  <2> SUFFICES ASSUME NEW i \in 1 .. n PROVE i \in R <=> (n + 1) - i \in T
    OBVIOUS
  <2> DEFINE j == (n + 1) - i
  <2>1. j \in 1 .. n /\ j = (n - i) + 1
    BY <1>1
  <2>2. u[i] = s[j]
    BY <1>2, <2>1
  <2> HIDE DEF j
  <2>3. i \in R <=> j \in T
    BY <1>5, <2>1, <2>2
  <2> QED
    BY <2>3 DEF j
<1>7. T \in SUBSET (1 .. n) /\ R \in SUBSET (1 .. n) /\ T \in SUBSET Nat /\ R \in SUBSET Nat
  BY <1>1, <1>5
<1>8. Found(u, <<c>>) = First(R)
  BY <1>4, OneLiesAt, FoundIsFirst DEF R
<1>9. CASE T = {}
  <2>1. R = {}
    BY <1>6, <1>7, <1>9
  <2>2. (n + 1 - 0) % (n + 1) = 0
    BY <1>1
  <2> QED
    BY <1>8, <1>9, <2>1, <2>2 DEF First, u, n, T
<1>10. CASE T # {}
  <2> DEFINE x == Max(T)
             y == Min(R)
  <2>1. x \in T /\ \A i \in T : i <= x
    <3>1. \A i \in T : i <= n
      BY <1>1, <1>7
    <3> QED
      BY <1>1, <1>7, <1>10, <3>1, GreatestNumber
  <2>2. x \in 1 .. n /\ (n + 1) - x \in 1 .. n /\ (n + 1) - ((n + 1) - x) = x
    <3> HIDE DEF x
    <3>1. x \in 1 .. n
      BY <1>7, <2>1
    <3> QED
      BY <1>1, <3>1
  <2>3. (n + 1) - x \in R
    BY <1>6, <2>1, <2>2
  <2>4. y \in R /\ \A i \in R : y <= i
    BY <1>7, <2>3, LeastNumber
  <2> HIDE DEF x, y
  <2>5. y \in 1 .. n /\ (n + 1) - y \in T
    BY <1>6, <1>7, <2>4
  <2>6. y = (n + 1) - x
    <3>1. (n + 1) - y <= x
      BY <2>1, <2>5
    <3>2. y <= (n + 1) - x
      BY <2>3, <2>4
    <3> QED
      BY <1>1, <2>2, <2>5, <3>1, <3>2
  <2>7. (n + 1) - y = x /\ x % (n + 1) = x
    BY <1>1, <2>2, <2>6
  <2>8. Found(u, <<c>>) = y
    BY <1>8, <2>4 DEF First, y
  <2>9. n + 1 - y = (n + 1) - y
    BY <1>1, <2>5
  <2> QED
    BY <1>10, <2>7, <2>8, <2>9 DEF u, n, T, x
<1> QED
  BY <1>9, <1>10

LEMMA StrrchrFinds ==
  ASSUME NEW s \in Seq(Nat \ {0}), NEW find \in Seq(Nat \ {0})
  PROVE  strrchr(Texted(s, find), 1, Texted(s, find)[Len(s) + 2])
           = IF find = <<>> THEN Len(s) + 1
             ELSE (Len(s) + 1 - Found(Reverse(s), Take(find, 1))) % (Len(s) + 1)
<1> DEFINE m == Texted(s, find)
           c == m[Len(s) + 2]
           T == {i \in 1 .. End(m, 1) : m[i] = c}
<1>1. strrchr(m, 1, c) = IF T = {} THEN 0 ELSE Max(T)
  BY DEF strrchr
<1>2. T = IF find = <<>> THEN {Len(s) + 1} ELSE PlacesOf(s, find[1])
  BY CharPlaces
<1> HIDE DEF T, c, m
<1>3. CASE find = <<>>
  <2>1. Len(s) + 1 \in Nat
    BY LenProperties
  <2>2. T = {Len(s) + 1} /\ T \in SUBSET Nat /\ T # {} /\ \A i \in T : i <= Len(s) + 1
    BY <1>2, <1>3, <2>1
  <2>3. Max(T) \in T
    BY <2>1, <2>2, GreatestNumber
  <2> QED
    BY <1>1, <1>3, <2>2, <2>3 DEF c, m
<1>4. CASE find # <<>>
  <2>1. Take(find, 1) = <<find[1]>> /\ find[1] \in Nat \ {0}
    BY <1>4, TakeOne
  <2>2. T = PlacesOf(s, find[1])
    BY <1>2, <1>4
  <2>3. (IF PlacesOf(s, find[1]) = {} THEN 0 ELSE Max(PlacesOf(s, find[1])))
          = (Len(s) + 1 - Found(Reverse(s), <<find[1]>>)) % (Len(s) + 1)
    BY <2>1, LastIsFirstReversed
  <2> QED
    BY <1>1, <1>4, <2>1, <2>2, <2>3 DEF c, m
<1> QED
  BY <1>3, <1>4

LEMMA OrderIsOrders ==
  ASSUME NEW d, NEW s, NEW t, result' = d, Order(d, s, t)
  PROVE  Orders(s, t)'
  BY DEF Orders, Order, Precedes, Take

LEMMA CompareCompares ==
  ASSUME Compare
  PROVE  ComparesTexts'
<1>1. PICK m \in Memories : \E p, q \in DOMAIN m, n \in 1 .. Len(m) :
        \/ Within(m, p, n) /\ Within(m, q, n) /\ Calls("memcmp", <<p, q, n>>, m, m, memcmp(m, p, q, n))
        \/ /\ Terminated(m, p) /\ Terminated(m, q)
           /\ \/ Calls("strcmp", <<p, q, Len(m)>>, m, m, strcmp(m, p, q))
              \/ Calls("_stricmp", <<p, q, Len(m)>>, m, m, _stricmp(m, p, q))
              \/ Calls("strncmp", <<p, q, n>>, m, m, strncmp(m, p, q, n))
              \/ Calls("wcsncmp", <<p, q, n>>, m, m, wcsncmp(m, p, q, n))
  BY DEF Compare
<1>2. PICK p \in DOMAIN m, q \in DOMAIN m, n \in 1 .. Len(m) :
        \/ Within(m, p, n) /\ Within(m, q, n) /\ Calls("memcmp", <<p, q, n>>, m, m, memcmp(m, p, q, n))
        \/ /\ Terminated(m, p) /\ Terminated(m, q)
           /\ \/ Calls("strcmp", <<p, q, Len(m)>>, m, m, strcmp(m, p, q))
              \/ Calls("_stricmp", <<p, q, Len(m)>>, m, m, _stricmp(m, p, q))
              \/ Calls("strncmp", <<p, q, n>>, m, m, strncmp(m, p, q, n))
              \/ Calls("wcsncmp", <<p, q, n>>, m, m, wcsncmp(m, p, q, n))
  BY <1>1
<1>3. m \in Seq(Nat) /\ n \in Nat
  BY LibcAssumption, LenProperties
<1> DEFINE u == TextAt(m, p)
           v == TextAt(m, q)
           uNow == TextAt(before, p)
           vNow == TextAt(before, q)
<1>4. before' = m => uNow' = u /\ vNow' = v
  BY DEF TextAt, End
<1>5. CASE Within(m, p, n) /\ Within(m, q, n) /\ Calls("memcmp", <<p, q, n>>, m, m, memcmp(m, p, q, n))
  <2>1. /\ call'.f = "memcmp" /\ call'.args = <<p, q, n>> /\ before' = m /\ result' = memcmp(m, p, q, n)
    BY <1>5, CallFields
  <2>2. Orders(SubSeq(m, p, p + n - 1), SubSeq(m, q, q + n - 1))'
    BY <1>3, <1>5, <2>1, MemcmpOrders, OrderIsOrders
  <2>3. ComparesTexts' = Orders(SubSeq(before, p, p + n - 1), SubSeq(before, q, q + n - 1))'
    BY <2>1 DEF ComparesTexts
  <2> QED
    BY <2>1, <2>2, <2>3 DEF Orders
<1>6. CASE Terminated(m, p) /\ Terminated(m, q) /\ Calls("strcmp", <<p, q, Len(m)>>, m, m, strcmp(m, p, q))
  <2>1. call'.f = "strcmp" /\ call'.args = <<p, q, Len(m)>> /\ before' = m /\ result' = strcmp(m, p, q)
    BY <1>6, CallFields
  <2>2. Orders(u, v)'
    BY <1>3, <1>6, <2>1, StrcmpOrders, OrderIsOrders
  <2>3. ComparesTexts' = Orders(uNow, vNow)'
    BY <2>1 DEF ComparesTexts
  <2>4. uNow' = u /\ vNow' = v
    BY <1>4, <2>1
  <2> HIDE DEF u, v, uNow, vNow
  <2> QED
    BY <2>2, <2>3, <2>4 DEF Orders
<1>7. CASE Terminated(m, p) /\ Terminated(m, q) /\ Calls("_stricmp", <<p, q, Len(m)>>, m, m, _stricmp(m, p, q))
  <2> DEFINE s == Folded(u)
             t == Folded(v)
             sNow == Folded(uNow)
             tNow == Folded(vNow)
  <2>1. call'.f = "_stricmp" /\ call'.args = <<p, q, Len(m)>> /\ before' = m /\ result' = _stricmp(m, p, q)
    BY <1>7, CallFields
  <2>2. Orders(s, t)'
    BY <1>3, <1>7, <2>1, StricmpOrders, OrderIsOrders
  <2>3. ComparesTexts' = Orders(sNow, tNow)'
    BY <2>1 DEF ComparesTexts
  <2>4. sNow' = s /\ tNow' = t
    BY <1>4, <2>1
  <2> HIDE DEF s, t, sNow, tNow
  <2> QED
    BY <2>2, <2>3, <2>4 DEF Orders
<1>8. CASE Terminated(m, p) /\ Terminated(m, q) /\ Calls("strncmp", <<p, q, n>>, m, m, strncmp(m, p, q, n))
  <2> DEFINE s == Take(u, n)
             t == Take(v, n)
             sNow == Take(uNow, n)
             tNow == Take(vNow, n)
  <2>1. call'.f = "strncmp" /\ call'.args = <<p, q, n>> /\ before' = m /\ result' = strncmp(m, p, q, n)
    BY <1>8, CallFields
  <2>2. Orders(s, t)'
    BY <1>3, <1>8, <2>1, StrncmpOrders, OrderIsOrders
  <2>3. ComparesTexts' = Orders(sNow, tNow)'
    BY <2>1 DEF ComparesTexts
  <2>4. sNow' = s /\ tNow' = t
    BY <1>4, <2>1
  <2> HIDE DEF s, t, sNow, tNow
  <2> QED
    BY <2>2, <2>3, <2>4 DEF Orders
<1>9. CASE Terminated(m, p) /\ Terminated(m, q) /\ Calls("wcsncmp", <<p, q, n>>, m, m, wcsncmp(m, p, q, n))
  <2>1. call'.f = "wcsncmp"
    BY <1>9, CallFields
  <2> QED
    BY <2>1 DEF ComparesTexts
<1> QED
  BY <1>2, <1>5, <1>6, <1>7, <1>8, <1>9

\* The two texts of a search, where its arguments say.
LEMMA SearchedTexts ==
  ASSUME NEW s \in Seq(Nat \ {0}), NEW find \in Seq(Nat \ {0})
  PROVE  TextAt(Texted(s, find), 1) = s /\ TextAt(Texted(s, find), Len(s) + 2) = find
<1> DEFINE m == Texted(s, find)
           n == Len(s)
           k == Len(find)
           u == TextAt(m, 1)
           v == TextAt(m, n + 2)
<1>1. n \in Nat /\ k \in Nat /\ s \in Seq(Nat) /\ find \in Seq(Nat)
  BY LenProperties, SeqMonotonic
<1>2. \A p \in 1 .. n + 1 : /\ TextAt(m, p) \in Seq(Nat) /\ Len(TextAt(m, p)) = n + 1 - p
                            /\ \A i \in 1 .. n + 1 - p : TextAt(m, p)[i] = s[p + i - 1]
  BY TextedTexts
<1>3. \A h \in 0 .. k : /\ TextAt(m, n + 2 + h) \in Seq(Nat) /\ Len(TextAt(m, n + 2 + h)) = k - h
                        /\ \A i \in 1 .. k - h : TextAt(m, n + 2 + h)[i] = find[h + i]
  BY TextedTexts
<1> HIDE DEF m, n, k
<1>4. u \in Seq(Nat) /\ Len(u) = n + 1 - 1 /\ \A i \in 1 .. n + 1 - 1 : u[i] = s[1 + i - 1]
  <2>1. 1 \in 1 .. n + 1
    BY <1>1
  <2> QED
    BY <1>2, <2>1
<1>5. n + 2 + 0 = n + 2 /\ 0 \in 0 .. k /\ k - 0 = k
  BY <1>1
<1>6. v \in Seq(Nat) /\ Len(v) = k /\ \A i \in 1 .. k : v[i] = find[0 + i]
  BY <1>3, <1>5
<1> HIDE DEF u, v
<1>7. u = s
  <2>1. Len(u) = Len(s) /\ \A i \in 1 .. Len(s) : u[i] = s[i]
    BY <1>1, <1>4 DEF n
  <2> QED
    BY <1>1, <1>4, <2>1, SeqEqual
<1>8. v = find
  <2>1. Len(v) = Len(find) /\ \A i \in 1 .. Len(find) : v[i] = find[i]
    BY <1>1, <1>6 DEF k
  <2> QED
    BY <1>1, <1>6, <2>1, SeqEqual
<1> QED
  BY <1>7, <1>8 DEF u, v, m, n

LEMMA SearchCompares ==
  ASSUME Search
  PROVE  ComparesTexts'
<1>1. PICK s \in Texts, find \in Needles :
        LET m == s \o <<0>> \o find \o <<0>>
            needle == Len(s) + 2
        IN \/ Calls("strstr", <<1, needle>>, m, m, strstr(m, 1, needle))
           \/ Calls("strchr", <<1, needle>>, m, m, strchr(m, 1, m[needle]))
           \/ Calls("strrchr", <<1, needle>>, m, m, strrchr(m, 1, m[needle]))
  BY DEF Search
<1>2. s \in Seq(Nat \ {0}) /\ find \in Seq(Nat \ {0})
  BY LibcAssumption
<1> DEFINE m == Texted(s, find)
           needle == Len(s) + 2
           uNow == TextAt(before, 1)
           vNow == TextAt(before, needle)
<1>3. \/ Calls("strstr", <<1, needle>>, m, m, strstr(m, 1, needle))
      \/ Calls("strchr", <<1, needle>>, m, m, strchr(m, 1, m[needle]))
      \/ Calls("strrchr", <<1, needle>>, m, m, strrchr(m, 1, m[needle]))
  BY <1>1 DEF Texted
<1>4. call'.args = <<1, needle>> /\ before' = m
  BY <1>3, CallFields
<1>5. uNow' = s /\ vNow' = find
  <2>1. uNow' = TextAt(m, 1) /\ vNow' = TextAt(m, needle)
    BY <1>4 DEF TextAt, End
  <2> QED
    BY <1>2, <2>1, SearchedTexts
<1>6. CASE Calls("strstr", <<1, needle>>, m, m, strstr(m, 1, needle))
  <2>1. call'.f = "strstr" /\ result' = strstr(m, 1, needle)
    BY <1>6, CallFields
  <2>2. result' = IF find = <<>> THEN 1 ELSE Found(s, find)
    BY <1>2, <2>1, StrstrFinds
  <2>3. ComparesTexts' = (result = IF vNow = <<>> THEN 1 ELSE Found(uNow, vNow))'
    BY <1>4, <2>1 DEF ComparesTexts
  <2> HIDE DEF uNow, vNow
  <2> QED
    BY <1>5, <2>2, <2>3 DEF Found
<1>7. CASE Calls("strchr", <<1, needle>>, m, m, strchr(m, 1, m[needle]))
  <2>1. call'.f = "strchr" /\ result' = strchr(m, 1, m[needle])
    BY <1>7, CallFields
  <2>2. result' = IF find = <<>> THEN Len(s) + 1 ELSE Found(s, Take(find, 1))
    BY <1>2, <2>1, StrchrFinds
  <2>3. ComparesTexts' = (result = IF vNow = <<>> THEN Len(uNow) + 1 ELSE Found(uNow, Take(vNow, 1)))'
    BY <1>4, <2>1 DEF ComparesTexts
  <2> HIDE DEF uNow, vNow
  <2> QED
    BY <1>5, <2>2, <2>3 DEF Found, Take
<1>8. CASE Calls("strrchr", <<1, needle>>, m, m, strrchr(m, 1, m[needle]))
  <2>1. call'.f = "strrchr" /\ result' = strrchr(m, 1, m[needle])
    BY <1>8, CallFields
  <2>2. result' = IF find = <<>> THEN Len(s) + 1
                  ELSE (Len(s) + 1 - Found(Reverse(s), Take(find, 1))) % (Len(s) + 1)
    BY <1>2, <2>1, StrrchrFinds
  <2>3. ComparesTexts' = (result = IF vNow = <<>> THEN Len(uNow) + 1
                            ELSE (Len(uNow) + 1 - Found(Reverse(uNow), Take(vNow, 1))) % (Len(uNow) + 1))'
    BY <1>4, <2>1 DEF ComparesTexts
  <2> HIDE DEF uNow, vNow
  <2> QED
    BY <1>5, <2>2, <2>3 DEF Found, Take
<1> QED
  BY <1>3, <1>6, <1>7, <1>8

\* The other calls, and a return.
LEMMA OthersCompareNothing ==
  ASSUME Move \/ Copy \/ Show \/ ShowText \/ ShowAddress \/ Divide \/ Multiply \/ Return
  PROVE  ComparesTexts'
<1>1. ASSUME call'.f \notin Comparing \cup Searching PROVE ComparesTexts'
  BY <1>1 DEF ComparesTexts, Comparing, Searching
<1>2. call'.f \notin Comparing \cup Searching
  BY CallNames DEF Copying, Comparing, Searching, Printing, Dividing, Multiplying
<1> QED
  BY <1>1, <1>2

\* memcmp, strcmp, _stricmp and strncmp return less than, greater than or equal to 0
\* as the dictionary order of what they were to compare says, and look at nothing
\* behind a terminator; strstr, strchr and strrchr return the first (strrchr: the
\* last) place of what they were to find, or NULL.  Nothing is said of wcsncmp.
THEOREM ComparesRight == LibcSpec => []ComparesTexts
<1>1. LibcInit => ComparesTexts
  BY DEF LibcInit, Nothing, ComparesTexts
<1>2. ComparesTexts /\ [LibcNext]_libcVars => ComparesTexts'
  <2> SUFFICES ASSUME ComparesTexts, [LibcNext]_libcVars PROVE ComparesTexts'
    OBVIOUS
  <2>1. CASE LibcNext
    BY <2>1, CompareCompares, SearchCompares, OthersCompareNothing DEF LibcNext
  <2>2. CASE UNCHANGED libcVars
    <3>1. call' = call /\ before' = before /\ result' = result
      BY <2>2 DEF libcVars
    <3> QED
      BY <3>1, Zenon DEF ComparesTexts, Orders, TextAt, End
  <2> QED
    BY <2>1, <2>2
<1> QED
  BY <1>1, <1>2, PTL DEF LibcSpec

-------------------------------------------------------------------------------
(* Powers of 2 *)

\* f has been told the first powers, up to the n-th.
Powers(f, n) == \A i \in 0 .. n : f[i] = IF i = 0 THEN 1 ELSE 2 * f[i - 1]
ArePowers(f) == f = [n \in Nat |-> IF n = 0 THEN 1 ELSE 2 * f[n - 1]]

LEMMA PowersExist == \A n \in Nat : \E f : Powers(f, n)
<1> DEFINE T == {n \in Nat : \E f : Powers(f, n)}
<1>1. 0 \in T
  <2>1. Powers([i \in {0} |-> 1], 0)
    BY DEF Powers
  <2> QED
    BY <2>1
<1>2. ASSUME NEW n \in T PROVE n + 1 \in T
  <2>1. PICK f : Powers(f, n)
    BY <1>2
  <2> DEFINE g == [i \in 0 .. n + 1 |-> IF i = n + 1 THEN 2 * f[n] ELSE f[i]]
  <2>2. ASSUME NEW i \in 0 .. n + 1 PROVE g[i] = IF i = 0 THEN 1 ELSE 2 * g[i - 1]
    <3>1. CASE i = n + 1
      <4>1. i - 1 = n /\ i # 0 /\ n \in 0 .. n + 1 /\ n # n + 1
        BY <3>1
      <4> QED
        BY <3>1, <4>1
    <3>2. CASE i # n + 1
      <4>1. i \in 0 .. n /\ (i # 0 => i - 1 \in 0 .. n + 1 /\ i - 1 # n + 1)
        BY <3>2
      <4> QED
        BY <2>1, <3>2, <4>1 DEF Powers
    <3> QED
      BY <3>1, <3>2
  <2> HIDE DEF g
  <2>3. Powers(g, n + 1)
    BY <2>2 DEF Powers
  <2> QED
    BY <2>3
<1>3. T \in SUBSET Nat
  OBVIOUS
<1> HIDE DEF T
<1>4. T = Nat
  BY <1>1, <1>2, <1>3, NumberInduction
<1> QED
  BY <1>4 DEF T

LEMMA PowersAgree ==
  ASSUME NEW n \in Nat, NEW m \in Nat, NEW f, NEW g, Powers(f, n), Powers(g, m)
  PROVE  \A i \in Nat : i <= n /\ i <= m => f[i] = g[i]
<1> DEFINE T == {i \in Nat : i <= n /\ i <= m => f[i] = g[i]}
<1>1. 0 \in T
  BY DEF Powers
<1>2. ASSUME NEW i \in T PROVE i + 1 \in T
  <2> SUFFICES ASSUME i + 1 <= n, i + 1 <= m PROVE f[i + 1] = g[i + 1]
    BY <1>2
  <2>1. i + 1 \in 0 .. n /\ i + 1 \in 0 .. m /\ i + 1 # 0 /\ (i + 1) - 1 = i
    BY <1>2
  <2>2. f[i] = g[i]
    BY <1>2
  <2>3. f[i + 1] = 2 * f[(i + 1) - 1] /\ g[i + 1] = 2 * g[(i + 1) - 1]
    BY <2>1 DEF Powers
  <2> QED
    BY <2>1, <2>2, <2>3
<1>3. T \in SUBSET Nat
  OBVIOUS
<1> HIDE DEF T
<1>4. T = Nat
  BY <1>1, <1>2, <1>3, NumberInduction
<1> QED
  BY <1>4 DEF T

\* The recursive definition has a solution, so Pow2 is one.
LEMMA Pow2Is == Pow2[0] = 1 /\ \A n \in Nat : Pow2[n + 1] = 2 * Pow2[n]
<1> DEFINE G(n) == CHOOSE f : Powers(f, n)
           F == [n \in Nat |-> G(n)[n]]
<1>1. \A n \in Nat : Powers(G(n), n)
  BY PowersExist
<1>2. \A n \in Nat : G(n)[n] = IF n = 0 THEN 1 ELSE 2 * G(n)[n - 1]
  <2> SUFFICES ASSUME NEW n \in Nat PROVE G(n)[n] = IF n = 0 THEN 1 ELSE 2 * G(n)[n - 1]
    OBVIOUS
  <2> HIDE DEF G
  <2> QED
    BY <1>1 DEF Powers
<1>3. \A n \in Nat : n # 0 => G(n)[n - 1] = G(n - 1)[n - 1]
  <2> SUFFICES ASSUME NEW n \in Nat, n # 0 PROVE G(n)[n - 1] = G(n - 1)[n - 1]
    OBVIOUS
  <2> HIDE DEF G
  <2>1. n - 1 \in Nat /\ n - 1 <= n
    OBVIOUS
  <2> QED
    BY <1>1, <2>1, PowersAgree
<1> HIDE DEF G
<1>4. \A n \in Nat : F[n] = IF n = 0 THEN 1 ELSE 2 * F[n - 1]
  <2> SUFFICES ASSUME NEW n \in Nat PROVE F[n] = IF n = 0 THEN 1 ELSE 2 * F[n - 1]
    OBVIOUS
  <2>1. n # 0 => n - 1 \in Nat
    OBVIOUS
  <2> QED
    BY <1>2, <1>3, <2>1
<1>5. F = [n \in Nat |-> F[n]]
  OBVIOUS
<1> HIDE DEF F
<1>6. ArePowers(F)
  BY <1>4, <1>5 DEF ArePowers
<1>7. \E f : ArePowers(f)
  BY <1>6
<1> DEFINE h == CHOOSE f : ArePowers(f)
<1>8. ArePowers(h)
  BY <1>7, Zenon
<1>9. Pow2 = h
  BY Zenon DEF Pow2, ArePowers
<1> HIDE DEF h
<1>10. \A n \in Nat : Pow2[n] = IF n = 0 THEN 1 ELSE 2 * Pow2[n - 1]
  BY <1>8, <1>9 DEF ArePowers
<1>11. \A n \in Nat : n + 1 \in Nat /\ n + 1 # 0 /\ (n + 1) - 1 = n
  OBVIOUS
<1> QED
  BY <1>10, <1>11

LEMMA Pow2Type == \A n \in Nat : Pow2[n] \in Nat \ {0}
<1> DEFINE T == {n \in Nat : Pow2[n] \in Nat \ {0}}
<1>1. 0 \in T
  BY Pow2Is
<1>2. ASSUME NEW n \in T PROVE n + 1 \in T
  BY <1>2, Pow2Is
<1>3. T \in SUBSET Nat
  OBVIOUS
<1> HIDE DEF T
<1>4. T = Nat
  BY <1>1, <1>2, <1>3, NumberInduction
<1> QED
  BY <1>4 DEF T

LEMMA Pow2Sum ==
  ASSUME NEW m \in Nat, NEW n \in Nat
  PROVE  Pow2[m + n] = Pow2[m] * Pow2[n]
<1> DEFINE T == {k \in Nat : Pow2[m + k] = Pow2[m] * Pow2[k]}
<1>1. 0 \in T
  BY Pow2Is, Pow2Type
<1>2. ASSUME NEW k \in T PROVE k + 1 \in T
  <2>1. k \in Nat /\ m + k \in Nat /\ m + (k + 1) = (m + k) + 1
    BY <1>2
  <2>2. Pow2[k + 1] = 2 * Pow2[k] /\ Pow2[(m + k) + 1] = 2 * Pow2[m + k] /\ Pow2[m + k] = Pow2[m] * Pow2[k]
    BY <1>2, <2>1, Pow2Is
  <2> DEFINE a == Pow2[m]
             b == Pow2[k]
  <2>3. a \in Int /\ b \in Int
    BY <2>1, Pow2Type
  <2> HIDE DEF a, b
  <2>4. 2 * (a * b) = a * (2 * b)
    BY <2>3
  <2>5. Pow2[m + (k + 1)] = Pow2[m] * Pow2[k + 1]
    BY <2>1, <2>2, <2>4 DEF a, b
  <2> QED
    BY <2>1, <2>5
<1>3. T \in SUBSET Nat
  OBVIOUS
<1> HIDE DEF T
<1>4. T = Nat
  BY <1>1, <1>2, <1>3, NumberInduction
<1> QED
  BY <1>4 DEF T

-------------------------------------------------------------------------------
(* Integer division *)

LEMMA TimesMonotone ==
  ASSUME NEW a \in Int, NEW b \in Int, NEW c \in Nat, a <= b
  PROVE  a * c <= b * c /\ c * a <= c * b
  OBVIOUS

LEMMA Cancels ==
  ASSUME NEW a \in Int, NEW b \in Int, NEW c \in Nat \ {0}, a * c < b * c
  PROVE  a < b
  OBVIOUS

LEMMA DivFacts ==
  ASSUME NEW n \in Int, NEW w \in Nat \ {0}
  PROVE  n % w \in 0 .. w - 1 /\ n \div w \in Int /\ n = w * (n \div w) + (n % w)
  OBVIOUS

LEMMA DivIs ==
  ASSUME NEW n \in Int, NEW w \in Nat \ {0}, NEW q \in Int, NEW r \in 0 .. w - 1, n = w * q + r
  PROVE  n \div w = q /\ n % w = r
  OBVIOUS

LEMMA ModPlus ==
  ASSUME NEW n \in Int, NEW w \in Nat \ {0}, NEW k \in Int
  PROVE  (n + w * k) % w = n % w /\ (n + w * k) \div w = (n \div w) + k
<1>1. n % w \in 0 .. w - 1 /\ n \div w \in Int /\ n = w * (n \div w) + (n % w)
  BY DivFacts
<1> DEFINE q == n \div w
           r == n % w
<1> HIDE DEF q, r
<1>2. q \in Int /\ r \in 0 .. w - 1 /\ n = w * q + r
  BY <1>1 DEF q, r
<1>3. n + w * k = w * (q + k) + r /\ n + w * k \in Int /\ q + k \in Int
  BY <1>2
<1>4. (n + w * k) \div w = q + k /\ (n + w * k) % w = r
  BY <1>2, <1>3, DivIs
<1> QED
  BY <1>4 DEF q, r

LEMMA SmallMod ==
  ASSUME NEW w \in Nat \ {0}, NEW n \in 0 .. w - 1
  PROVE  n % w = n
  OBVIOUS

\* A reduced term of a sum.
LEMMA ModMod ==
  ASSUME NEW n \in Int, NEW m \in Int, NEW w \in Nat \ {0}
  PROVE  ((n % w) + m) % w = (n + m) % w
<1> DEFINE q == n \div w
           r == n % w
<1>1. q \in Int /\ r \in Int /\ n = w * q + r
  BY DivFacts
<1> HIDE DEF q, r
<1>2. n + m = (r + m) + w * q /\ r + m \in Int
  BY <1>1
<1>3. ((r + m) + w * q) % w = (r + m) % w
  <2> DEFINE x == r + m
  <2>1. x \in Int
    BY <1>2
  <2> HIDE DEF x
  <2>2. (x + w * q) % w = x % w
    BY <1>1, <2>1, ModPlus
  <2> QED
    BY <2>2 DEF x
<1> QED
  BY <1>2, <1>3 DEF r

LEMMA DivDiv ==
  ASSUME NEW n \in Int, NEW c \in Nat \ {0}, NEW d \in Nat \ {0}
  PROVE  (n \div c) \div d = n \div (c * d)
  OBVIOUS

\* c times a number that was reduced modulo d is reduced modulo c * d.
LEMMA TimesMod ==
  ASSUME NEW n \in Int, NEW c \in Nat \ {0}, NEW d \in Nat \ {0}, NEW m \in Int
  PROVE  (m + (n % d) * c) % (c * d) = (m + n * c) % (c * d)
<1> DEFINE q == n \div d
           r == n % d
<1>1. q \in Int /\ r \in Int /\ n = d * q + r
  BY DivFacts
<1> HIDE DEF q, r
<1>2. m + n * c = (m + r * c) + (c * d) * q
  BY <1>1
<1>3. m + r * c \in Int /\ c * d \in Nat \ {0}
  BY <1>1
<1>4. ((m + r * c) + (c * d) * q) % (c * d) = (m + r * c) % (c * d)
  <2> DEFINE x == m + r * c
             w == c * d
  <2>1. x \in Int /\ w \in Nat \ {0}
    BY <1>3
  <2> HIDE DEF x, w
  <2>2. (x + w * q) % w = x % w
    BY <1>1, <2>1, ModPlus
  <2> QED
    BY <2>2 DEF x, w
<1> QED
  BY <1>2, <1>4 DEF r

-------------------------------------------------------------------------------
(* Words *)

LEMMA WordFacts ==
  /\ WordBits \in Nat \ {0}
  /\ Word \in Nat \ {0, 1} /\ Long \in Nat \ {0} /\ Long = Word * Word
  /\ Word \div 2 \in Nat \ {0} /\ Word = 2 * (Word \div 2)
  /\ Long = Pow2[2 * WordBits]
<1>1. WordBits \in Nat \ {0} /\ WordBits - 1 \in Nat /\ (WordBits - 1) + 1 = WordBits /\ WordBits + WordBits = 2 * WordBits
  BY LongMathAssumption
<1> DEFINE h == Pow2[WordBits - 1]
<1>2. h \in Nat \ {0} /\ Word = 2 * h
  BY <1>1, Pow2Is, Pow2Type DEF Word
<1> HIDE DEF h
<1>3. Word \in Nat \ {0, 1} /\ Word \div 2 = h
  BY <1>2
<1>4. Word * Word \in Nat \ {0}
  BY <1>3
<1>5. Long = Pow2[2 * WordBits]
  BY <1>1, Pow2Sum DEF Long, Word
<1> QED
  BY <1>1, <1>2, <1>3, <1>4, <1>5 DEF Long

\* A long is its two words.
LEMMA TwoWords ==
  ASSUME NEW a \in 0 .. Long - 1
  PROVE  High(a) \in 0 .. Word - 1 /\ Low(a) \in 0 .. Word - 1 /\ a = Word * High(a) + Low(a)
<1> DEFINE w == Word
           q == a \div w
           r == a % w
<1>1. w \in Nat \ {0} /\ a \in Nat /\ a < w * w
  BY WordFacts
<1> HIDE DEF w
<1>2. q \in Int /\ r \in 0 .. w - 1 /\ a = w * q + r
  BY <1>1, DivFacts
<1> HIDE DEF q, r
<1>3. q >= 0 /\ q < w
  BY <1>1, <1>2
<1>4. q \in 0 .. w - 1
  BY <1>1, <1>2, <1>3
<1>5. High(a) = q /\ Low(a) = r
  BY DEF High, Low, q, r, w
<1> QED
  BY <1>2, <1>4, <1>5 DEF w

-------------------------------------------------------------------------------
(* Division *)

\* Two word divisions in a row, as on paper.
LEMMA ShortDivision ==
  ASSUME NEW w \in Nat \ {0}, NEW h \in 0 .. w - 1, NEW l \in 0 .. w - 1, NEW b \in 1 .. w - 1, NEW a \in Nat, a = w * h + l
  PROVE  LET n == (h % b) * w + l
         IN /\ h \div b < w /\ n \div b < w
            /\ a \div b = (h \div b) * w + (n \div b)
            /\ a % b = n % b
<1> DEFINE p == h \div b
           r == h % b
           n == r * w + l
           q == n \div b
           s == n % b
<1>1. p \in Int /\ r \in 0 .. b - 1 /\ h = b * p + r
  BY DivFacts
<1> HIDE DEF p, r
<1>2. n \in Nat /\ n < b * w
  <2>1. r * w <= (b - 1) * w /\ r * w \in Nat
    BY <1>1, TimesMonotone
  <2> QED
    BY <1>1, <2>1
<1> HIDE DEF n
<1>3. q \in Int /\ s \in 0 .. b - 1 /\ n = b * q + s
  BY <1>2, DivFacts
<1> HIDE DEF q, s
<1>4. p < w /\ q < w
  <2>1. b * p <= h /\ b * q <= n
    BY <1>1, <1>3
  <2>2. b * p < b * w
    BY <1>1, <2>1
  <2>3. b * q < b * w
    BY <1>2, <1>3, <2>1
  <2> QED
    BY <1>1, <1>3, <2>2, <2>3
<1>5. a = b * (p * w + q) + s
  <2>1. a = w * (b * p + r) + l
    BY <1>1
  <2>2. a = b * (p * w) + (r * w + l)
    BY <1>1, <2>1
  <2>3. r * w + l = b * q + s
    BY <1>3 DEF n
  <2>4. b * (p * w + q) = b * (p * w) + b * q
    BY <1>1, <1>3
  <2> QED
    BY <1>1, <1>3, <2>2, <2>3, <2>4
<1>6. p * w + q \in Int
  BY <1>1, <1>3
<1> DEFINE x == p * w + q
<1> HIDE DEF x
<1>7. x \in Int /\ a = b * x + s
  BY <1>5, <1>6 DEF x
<1>8. a \div b = x /\ a % b = s
  BY <1>3, <1>7, DivIs
<1> QED
  BY <1>4, <1>8 DEF x, p, q, s, n, r

LEMMA ShortRemainder ==
  ASSUME NEW w \in Nat \ {0}, NEW h \in 0 .. w - 1, NEW l \in 0 .. w - 1, NEW b \in 1 .. w - 1, NEW a \in Nat, a = w * h + l
  PROVE  a % b = ((h % b) * w + l) % b
  BY ShortDivision, ZenonT(40)

\* The quotient by the leading part c of a divisor c * t + r is right or one too
\* large, if the leading part has its first bit set.
LEMMA EstimateNear ==
  ASSUME NEW w \in Nat \ {0}, NEW h \in Nat \ {0}, w = 2 * h, NEW a \in Nat, a < w * w,
         NEW t \in Nat \ {0, 1}, NEW c \in Nat, c >= h, NEW r \in 0 .. t - 1, NEW b \in Nat \ {0}, b = t * c + r
  PROVE  LET e == (a \div t) \div c
             q == a \div b
         IN e \in 0 .. w - 1 /\ (e = q \/ e = q + 1) /\ e * (t * c) <= a
<1> DEFINE d == t * c
           e == a \div d
           q == a \div b
           s == a % d
           u == a % b
<1>1. c \in Nat \ {0} /\ d \in Nat \ {0} /\ b = d + r
  BY DEF d
<1>2. (a \div t) \div c = e
  <2>1. a \in Int /\ t \in Nat \ {0}
    OBVIOUS
  <2> QED
    BY ONLY <1>1, <2>1, DivDiv DEF d
<1>3. e \in Int /\ s \in 0 .. d - 1 /\ a = d * e + s
  <2> HIDE DEF d
  <2> QED
    BY <1>1, DivFacts
<1>4. q \in Int /\ u \in 0 .. b - 1 /\ a = b * q + u
  BY ONLY a \in Nat, b \in Nat \ {0}, DivFacts
<1> HIDE DEF e, q, s, u
<1>5. d >= t * h /\ t * h >= w
  BY TimesMonotone DEF d
<1> HIDE DEF d
<1>6. e >= 0 /\ q >= 0
  BY <1>1, <1>3, <1>4
<1>7. e < w
  <2>1. d * e < w * w
    BY <1>1, <1>3
  <2>2. w * e <= d * e
    BY <1>1, <1>3, <1>5, <1>6, TimesMonotone
  <2>3. w * e < w * w
    BY <1>1, <1>3, <2>1, <2>2
  <2> QED
    BY <1>3, <2>3
<1>8. q <= e
  <2>1. q * d <= q * b
    BY <1>1, <1>4, <1>6, TimesMonotone
  <2>2. q * d < d * (e + 1)
    BY <1>1, <1>3, <1>4, <2>1
  <2>3. q * d < (e + 1) * d
    BY <1>1, <1>3, <2>2
  <2>4. q < e + 1
    BY <1>1, <1>3, <1>4, <2>3, Cancels
  <2> QED
    BY <1>3, <1>4, <2>4
<1>9. e <= q + 1
  <2> SUFFICES ASSUME e >= q + 2 PROVE FALSE
    BY <1>3, <1>4
  <2>1. (q + 2) * d <= a
    <3>1. (q + 2) * d <= e * d
      BY <1>1, <1>3, <1>4, TimesMonotone
    <3> QED
      BY <1>1, <1>3, <1>4, <3>1
  <2>2. d < r * (q + 1)
    <3>1. a < b * (q + 1)
      BY <1>4
    <3>2. b * (q + 1) = d * (q + 1) + r * (q + 1)
      BY <1>1, <1>4
    <3>3. (q + 2) * d = d * (q + 1) + d
      BY <1>1, <1>4
    <3>4. d * (q + 1) \in Int /\ r * (q + 1) \in Int
      BY <1>1, <1>4
    <3> QED
      BY ONLY <1>1, <2>1, <3>1, <3>2, <3>3, <3>4, a \in Nat, b * (q + 1) \in Int, (q + 2) * d \in Int
  <2>3. d < (t - 1) * (q + 2)
    <3>1. r * (q + 1) <= (t - 1) * (q + 1)
      BY <1>4, <1>6, TimesMonotone
    <3>2. (t - 1) * (q + 1) <= (t - 1) * (q + 2)
      BY <1>4, TimesMonotone
    <3>3. r * (q + 1) \in Int /\ (t - 1) * (q + 1) \in Int /\ (t - 1) * (q + 2) \in Int
      BY <1>4
    <3> QED
      BY <1>1, <2>2, <3>1, <3>2, <3>3
  <2>4. d * d < (t - 1) * (w * w)
    <3>1. d * d < ((t - 1) * (q + 2)) * d
      BY <1>1, <1>4, <2>3
    <3>2. ((t - 1) * (q + 2)) * d = (t - 1) * ((q + 2) * d)
      BY <1>1, <1>4
    <3>3. (t - 1) * ((q + 2) * d) <= (t - 1) * (w * w)
      <4>1. (q + 2) * d <= w * w /\ (q + 2) * d \in Int /\ w * w \in Int
        BY <1>1, <1>4, <2>1
      <4> QED
        BY <4>1, TimesMonotone
    <3>4. d * d \in Int /\ (t - 1) * ((q + 2) * d) \in Int /\ (t - 1) * (w * w) \in Int
      BY <1>1, <1>4
    <3> QED
      BY <3>1, <3>2, <3>3, <3>4
  <2>5. (t * h) * (t * h) <= d * d
    <3>1. t * h \in Nat /\ t * h <= d
      BY <1>1, <1>5
    <3>2. (t * h) * (t * h) <= d * (t * h) /\ d * (t * h) <= d * d
      BY <1>1, <3>1, TimesMonotone
    <3> QED
      BY <1>1, <3>1, <3>2
  <2>6. (t * t) * (h * h) < (4 * (t - 1)) * (h * h)
    <3>1. (t * h) * (t * h) = (t * t) * (h * h) /\ (t - 1) * (w * w) = (4 * (t - 1)) * (h * h)
      OBVIOUS
    <3>2. (t * h) * (t * h) \in Int /\ d * d \in Int /\ (t - 1) * (w * w) \in Int
      BY <1>1
    <3> QED
      BY <2>4, <2>5, <3>1, <3>2
  <2>7. h * h \in Nat \ {0} /\ t * t \in Int /\ 4 * (t - 1) \in Int
    OBVIOUS
  <2>8. t * t < 4 * (t - 1)
    BY <2>6, <2>7, Cancels
  <2>9. (t - 2) * (t - 2) = (t * t) - (4 * (t - 1)) /\ (t - 2) * (t - 2) >= 0
    OBVIOUS
  <2> QED
    BY <2>7, <2>8, <2>9
<1>10. e * d <= a
  BY <1>1, <1>3
<1> QED
  BY <1>2, <1>3, <1>4, <1>6, <1>7, <1>8, <1>9, <1>10 DEF d, q

\* The shift that leaves one word of a long divisor.
LEMMA ShiftFacts ==
  ASSUME NEW b \in 0 .. Long - 1, High(b) # 0
  PROVE  Shift(b) \in 1 .. WordBits /\ b \div Pow2[Shift(b)] < Word /\ b \div Pow2[Shift(b) - 1] >= Word
<1> DEFINE T == {s \in Nat : b \div Pow2[s] < Word}
           k == Min(T)
<1>1. b \in Nat /\ b >= Word /\ b \div Word < Word
  BY TwoWords, WordFacts DEF High
<1>2. WordBits \in T
  BY <1>1, WordFacts DEF Word
<1>3. k \in T /\ k \in Nat /\ \A s \in T : k <= s
  BY <1>2, LeastNumber
<1> HIDE DEF k
<1>4. k # 0
  <2>1. b \div Pow2[0] = b
    BY <1>1, Pow2Is
  <2> QED
    BY <1>1, <1>3, <2>1, WordFacts
<1>5. k \in 1 .. WordBits /\ k - 1 \in Nat /\ k - 1 \notin T
  BY <1>2, <1>3, <1>4, WordFacts
<1>6. b \div Pow2[k] < Word /\ ~(b \div Pow2[k - 1] < Word)
  BY <1>3, <1>5
<1>7. b \div Pow2[k - 1] \in Int
  BY <1>1, <1>5, Pow2Type, DivFacts
<1>8. \E s \in 1 .. WordBits : b \div Pow2[s] < Word /\ b \div Pow2[s - 1] >= Word
  BY <1>5, <1>6, <1>7, WordFacts
<1> QED
  BY <1>8, Zenon DEF Shift

\* The quotient by a long divisor, as estimated.
LEMMA EstimateFacts ==
  ASSUME NEW a \in 0 .. Long - 1, NEW b \in 0 .. Long - 1, High(b) # 0
  PROVE  LET e == Estimate(a, b)
             q == a \div b
         IN e \in 0 .. Word - 1 /\ (e = q \/ e = q + 1) /\ e * High(b) < Word
<1> DEFINE k == Shift(b)
           t == Pow2[k]
           c == b \div t
           r == b % t
           w == Word
           h == Word \div 2
           e == (a \div t) \div c
           z == Pow2[k - 1]
           v == Pow2[WordBits - k]
<1>1. k \in 1 .. WordBits /\ c < w /\ b \div z >= w
  BY ShiftFacts
<1>2. /\ k \in Nat /\ k - 1 \in Nat /\ (k - 1) + 1 = k
      /\ WordBits - k \in Nat /\ (WordBits - k) + k = WordBits
  BY <1>1, WordFacts
<1>3. t \in Nat \ {0} /\ z \in Nat \ {0} /\ v \in Nat \ {0} /\ t = 2 * z /\ w = v * t
  <2>1. Pow2[(k - 1) + 1] = 2 * z
    BY <1>2, Pow2Is
  <2>2. Pow2[(WordBits - k) + k] = v * t
    BY <1>2, Pow2Sum
  <2> QED
    BY <1>2, <2>1, <2>2, Pow2Type DEF Word
<1>4. w \in Nat \ {0} /\ h \in Nat \ {0} /\ w = 2 * h /\ a \in Nat /\ b \in Nat /\ a < w * w /\ b >= w
  <2>1. b = w * High(b) + Low(b) /\ High(b) \in Nat /\ High(b) >= 1 /\ Low(b) \in Nat /\ w \in Nat \ {0}
    BY TwoWords, WordFacts
  <2>2. b >= w
    <3> HIDE DEF w
    <3> QED
      BY <2>1
  <2> QED
    BY <2>2, WordFacts
<1> HIDE DEF k, w, h, z, v, t
<1>5. c \in Int /\ r \in 0 .. t - 1 /\ b = t * c + r
  <2>1. b \in Int /\ t \in Nat \ {0}
    BY <1>3, <1>4
  <2> QED
    BY ONLY <2>1, DivFacts
<1>6. b >= z * w
  <2>1. b \div z \in Int /\ b % z \in 0 .. z - 1 /\ b = z * (b \div z) + (b % z)
    BY <1>3, <1>4, DivFacts
  <2>2. z * w <= z * (b \div z)
    BY <1>1, <1>3, <1>4, <2>1, TimesMonotone
  <2>3. z * w \in Int /\ z * (b \div z) \in Int
    BY <1>3, <1>4, <2>1
  <2> QED
    BY <2>1, <2>2, <2>3
<1> DEFINE hb == High(b)
           lb == Low(b)
<1>7. hb \in Nat /\ lb \in Nat /\ b = w * hb + lb
  BY TwoWords, WordFacts DEF w
<1> HIDE DEF c, r, hb, lb
<1>8. c >= h
  <2>1. z * w = t * h
    BY <1>3, <1>4
  <2>2. t * h < t * (c + 1)
    BY <1>3, <1>4, <1>5, <1>6, <2>1
  <2>3. h * t < (c + 1) * t
    BY <1>3, <1>4, <1>5, <2>2
  <2>4. h < c + 1
    BY <1>3, <1>4, <1>5, <2>3, Cancels
  <2> QED
    BY <1>4, <1>5, <2>4
<1>9. e \in 0 .. w - 1 /\ (e = a \div b \/ e = a \div b + 1) /\ e * (t * c) <= a
  <2>1. t \in Nat \ {0, 1} /\ c \in Nat /\ b \in Nat \ {0}
    BY <1>3, <1>4, <1>5, <1>8
  <2> QED
    BY <1>4, <1>5, <1>8, <2>1, EstimateNear
<1>10. Estimate(a, b) = e
  <2>1. c # 0 /\ e < w
    BY <1>4, <1>8, <1>9
  <2>2. Estimate(a, b) = div(a \div t, c)
    BY DEF Estimate, c, t, k
  <2>3. ~(e >= w)
    BY <1>4, <1>9
  <2> QED
    BY <2>1, <2>2, <2>3 DEF div, w
<1> HIDE DEF e
\* The shift moves out no bit of the high word.
<1>11. w * hb <= t * c
  <2> DEFINE x == v * hb
  <2>1. w * hb = t * x /\ x \in Int
    BY <1>3, <1>7
  <2> HIDE DEF x
  <2>2. t * x < t * (c + 1)
    BY <1>3, <1>5, <1>7, <2>1
  <2>3. x * t < (c + 1) * t
    BY <1>3, <1>5, <2>1, <2>2
  <2>4. x <= c
    BY <1>3, <1>5, <2>1, <2>3, Cancels
  <2>5. t * x <= t * c
    BY <1>3, <1>5, <2>1, <2>4, TimesMonotone
  <2> QED
    BY <2>1, <2>5
<1>12. e * hb < w
  <2>1. e * (w * hb) <= e * (t * c)
    <3>1. w * hb \in Int /\ t * c \in Int /\ e \in Nat
      BY <1>3, <1>4, <1>5, <1>7, <1>9
    <3> QED
      BY <1>11, <3>1, TimesMonotone
  <2>2. (e * hb) * w < w * w
    <3>1. e * (w * hb) = (e * hb) * w
      BY <1>4, <1>7, <1>9
    <3>2. e * (w * hb) \in Int /\ e * (t * c) \in Int /\ w * w \in Int
      BY <1>3, <1>4, <1>5, <1>7, <1>9
    <3> QED
      BY <1>4, <1>9, <2>1, <3>1, <3>2
  <2>3. e * hb \in Int
    BY <1>7, <1>9
  <2> QED
    BY <1>4, <2>2, <2>3, Cancels
<1> QED
  BY <1>9, <1>10, <1>12 DEF w, hb

\* The product with an estimate that is looked at is the whole product.
LEMMA ProductFacts ==
  ASSUME NEW b \in 0 .. Long - 1, NEW e \in 0 .. Word - 1, e * High(b) < Word
  PROVE  Product(e, b) = (e * b) % Long /\ (Carry(e, b) <=> e * b >= Long)
<1> DEFINE w == Word
           h == High(b)
           l == Low(b)
<1>1. h \in Nat /\ l \in Nat /\ b = w * h + l /\ w \in Nat \ {0} /\ e \in Nat
  BY TwoWords, WordFacts
<1>2. e * h \in Nat
  BY <1>1
<1>3. (e * h) % w = e * h
  BY <1>1, <1>2, SmallMod
<1>4. Low(e * h) = e * h
  BY <1>3 DEF Low
<1>5. e * l + (e * h) * w = e * b
  <2> HIDE DEF w, h, l
  <2> QED
    BY <1>1
<1> HIDE DEF w, h, l
<1>6. Product(e, b) = (e * l + Low(e * h) * w) % Long /\ (Carry(e, b) <=> e * l + Low(e * h) * w >= Long)
  BY DEF Product, Carry, w, h, l
<1> QED
  BY <1>4, <1>5, <1>6

\* The core of all division: quotient and product, for every dividend and divisor.
LEMMA DividedIs ==
  ASSUME NEW a \in 0 .. Long - 1, NEW b \in 1 .. Long - 1
  PROVE  Divided(a, b).quotient = a \div b /\ Divided(a, b).product = (a \div b) * b
<1> DEFINE q == a \div b
           u == a % b
<1>1. a \in Nat /\ b \in Nat \ {0} /\ Long \in Nat \ {0} /\ a < Long /\ b < Long
  BY WordFacts
<1>2. q \in Int /\ u \in 0 .. b - 1 /\ a = b * q + u
  BY <1>1, DivFacts
<1>3. q >= 0
  <2> HIDE DEF q, u
  <2> QED
    BY <1>1, <1>2
<1>4. q * b \in Nat /\ q * b <= a /\ (q + 1) * b = q * b + b /\ (q + 1) * b > a
  <2> HIDE DEF q, u
  <2> QED
    BY <1>1, <1>2, <1>3
<1>5. (q * b) % Long = q * b
  BY <1>1, <1>4, SmallMod
<1>6. CASE High(b) = 0
  <2> DEFINE w == Word
             h == High(a)
             l == Low(a)
             n == (h % b) * w + l
  <2>1. h \in 0 .. w - 1 /\ l \in 0 .. w - 1 /\ a = w * h + l /\ w \in Nat \ {0}
    BY TwoWords, WordFacts
  <2>2. b \in 1 .. w - 1
    <3>1. b = w * 0 + Low(b) /\ Low(b) \in 0 .. w - 1
      BY <1>6, TwoWords
    <3> QED
      BY <2>1, <3>1
  <2>3. h \div b < w /\ n \div b < w /\ a \div b = (h \div b) * w + (n \div b)
    <3> HIDE DEF w, h, l
    <3> QED
      BY <1>1, <2>1, <2>2, ShortDivision
  <2>4. h \div b \in Int /\ n \div b \in Int
    <3>1. h % b \in Int
      BY <1>1, <2>1, DivFacts
    <3>2. n \in Int
      <4> HIDE DEF w, h, l
      <4> QED
        BY <2>1, <3>1
    <3> HIDE DEF n
    <3> QED
      BY <1>1, <2>1, <3>2, DivFacts
  <2>5. b # 0 /\ ~(h \div b >= w) /\ ~(n \div b >= w)
    BY <1>1, <2>1, <2>3, <2>4
  <2>6. ShortQuotient(a, b) = q
    <3>1. div(h, b) = h \div b /\ div(n, b) = n \div b
      BY <2>5 DEF div
    <3> HIDE DEF h, l, w
    <3>2. ShortQuotient(a, b) = div(h, b) * w + div(n, b)
      BY DEF ShortQuotient, h, l, w
    <3> QED
      BY <2>3, <3>1, <3>2
  <2>7. Divided(a, b) = [quotient |-> ShortQuotient(a, b), product |-> (ShortQuotient(a, b) * b) % Long]
    BY <1>6, Zenon DEF Divided
  <2>8. Divided(a, b) = [quotient |-> q, product |-> q * b]
    BY <1>5, <2>6, <2>7, Zenon
  <2> HIDE DEF q
  <2>9. Divided(a, b).quotient = q /\ Divided(a, b).product = q * b
    BY <2>8
  <2> QED
    BY <2>9 DEF q
<1>7. CASE High(b) # 0
  <2> DEFINE e == Estimate(a, b)
  <2>1. e \in 0 .. Word - 1 /\ (e = q \/ e = q + 1) /\ e * High(b) < Word
    BY <1>7, EstimateFacts
  <2> HIDE DEF q, u, e
  <2>2. Product(e, b) = (e * b) % Long /\ (Carry(e, b) <=> e * b >= Long)
    BY <2>1, ProductFacts
  <2>3. CASE e = q
    <3>1. Product(e, b) = q * b /\ ~Carry(e, b)
      BY <1>1, <1>4, <1>5, <2>2, <2>3
    <3>2. ~TooLarge(e, a, b)
      BY <1>1, <1>4, <3>1 DEF TooLarge
    <3>3. Divided(a, b) = [quotient |-> e, product |-> Product(e, b)]
      BY <1>7, <3>2, Zenon DEF Divided, e
    <3>4. Divided(a, b).quotient = q /\ Divided(a, b).product = q * b
      BY <2>3, <3>1, <3>3
    <3> QED
      BY <3>4 DEF q
  <2>4. CASE e = q + 1
    <3>1. Product(e, b) = (q * b + b) % Long /\ (Carry(e, b) <=> q * b + b >= Long)
      BY <1>4, <2>2, <2>4
    <3>2. TooLarge(e, a, b)
      <4>1. CASE q * b + b >= Long
        BY <3>1, <4>1 DEF TooLarge
      <4>2. CASE ~(q * b + b >= Long)
        <5>1. q * b + b \in 0 .. Long - 1
          BY <1>1, <1>4, <4>2
        <5>2. (q * b + b) % Long = q * b + b
          BY <1>1, <5>1, SmallMod
        <5> QED
          BY <1>1, <1>4, <3>1, <5>2 DEF TooLarge
      <4> QED
        BY <4>1, <4>2
    <3>3. (Product(e, b) - b) % Long = q * b
      <4> DEFINE x == q * b
      <4>1. x \in Int /\ x + b \in Int /\ -b \in Int
        BY <1>1, <1>4
      <4> HIDE DEF x
      <4>2. (((x + b) % Long) + (-b)) % Long = ((x + b) + (-b)) % Long
        BY <1>1, <4>1, ModMod
      <4>3. (x + b) % Long \in Int
        BY <1>1, <4>1, DivFacts
      <4>4. (x + b) + (-b) = x /\ ((x + b) % Long) + (-b) = ((x + b) % Long) - b
        BY <1>1, <4>1, <4>3
      <4>5. Product(e, b) = (x + b) % Long /\ x % Long = x
        BY <1>5, <3>1 DEF x
      <4> QED
        BY <4>2, <4>4, <4>5 DEF x
    <3>4. e - 1 = q
      BY <1>2, <2>4
    <3>5. Divided(a, b) = [quotient |-> e - 1, product |-> (Product(e, b) - b) % Long]
      BY <1>7, <3>2, Zenon DEF Divided, e
    <3>6. Divided(a, b).quotient = q /\ Divided(a, b).product = q * b
      BY <3>3, <3>4, <3>5
    <3> QED
      BY <3>6 DEF q
  <2> QED
    BY <2>1, <2>3, <2>4
<1> QED
  BY <1>6, <1>7

LEMMA DividedTypes ==
  ASSUME NEW a \in 0 .. Long - 1, NEW b \in 1 .. Long - 1
  PROVE  a \div b \in 0 .. a /\ a % b \in 0 .. b - 1 /\ a = b * (a \div b) + (a % b)
<1> DEFINE q == a \div b
           u == a % b
<1>1. a \in Nat /\ a \in Int /\ b \in Nat \ {0}
  BY WordFacts
<1>2. q \in Int /\ u \in 0 .. b - 1 /\ a = b * q + u
  BY <1>1, DivFacts
<1> HIDE DEF q, u
<1>3. q >= 0
  BY <1>1, <1>2
<1>4. q <= b * q
  BY <1>1, <1>2, <1>3
<1>5. q \in 0 .. a
  BY <1>1, <1>2, <1>3, <1>4
<1> QED
  BY <1>2, <1>5 DEF q, u

LEMMA aulldvrmIs ==
  ASSUME NEW a \in 0 .. Long - 1, NEW b \in 1 .. Long - 1
  PROVE  aulldvrm(a, b) = [quotient |-> a \div b, remainder |-> a % b]
<1> DEFINE q == a \div b
           u == a % b
           d == Divided(a, b)
<1>1. d.quotient = q /\ d.product = q * b
  BY DividedIs
<1>2. q \in 0 .. a /\ u \in 0 .. b - 1 /\ a = b * q + u
  BY DividedTypes
<1>3. aulldvrm(a, b) = [quotient |-> d.quotient, remainder |-> (a - d.product) % Long]
  BY DEF aulldvrm
<1> HIDE DEF q, u, d
<1>4. a - q * b = u /\ u \in 0 .. Long - 1
  BY <1>2, WordFacts
<1>5. (a - q * b) % Long = u
  BY <1>4, SmallMod, WordFacts
<1> QED
  BY <1>1, <1>3, <1>5 DEF q, u

LEMMA aullremIs ==
  ASSUME NEW a \in 0 .. Long - 1, NEW b \in 1 .. Long - 1
  PROVE  aullrem(a, b) = a % b
<1>1. CASE High(b) = 0
  <2> DEFINE w == Word
             h == High(a)
             l == Low(a)
  <2>1. h \in 0 .. w - 1 /\ l \in 0 .. w - 1 /\ a = w * h + l /\ w \in Nat \ {0} /\ a \in Nat /\ b \in Nat \ {0}
    BY TwoWords, WordFacts
  <2>2. b \in 1 .. w - 1
    <3>1. b = w * 0 + Low(b) /\ Low(b) \in 0 .. w - 1
      BY <1>1, TwoWords
    <3> QED
      BY <2>1, <3>1
  <2>3. a % b = ((h % b) * w + l) % b
    <3> DEFINE x == a
               y == b
    <3>1. w \in Nat \ {0} /\ h \in 0 .. w - 1 /\ l \in 0 .. w - 1 /\ y \in 1 .. w - 1 /\ x \in Nat /\ x = w * h + l
      BY <2>1, <2>2
    <3> HIDE DEF w, h, l, x, y
    <3>2. x % y = ((h % y) * w + l) % y
      BY <3>1, ShortRemainder, ZenonT(40)
    <3> QED
      BY <3>2 DEF x, y
  <2> HIDE DEF w, h, l
  <2> QED
    BY <1>1, <2>3 DEF aullrem, w, h, l
<1>2. CASE High(b) # 0
  <2>1. aullrem(a, b) = aulldvrm(a, b).remainder
    BY <1>2 DEF aullrem
  <2>2. aulldvrm(a, b).remainder = a % b
    BY aulldvrmIs
  <2> QED
    BY <2>1, <2>2
<1> QED
  BY <1>1, <1>2

-------------------------------------------------------------------------------
(* Numbers with sign *)

\* The bits of a long, and the number they mean.
LongBits == 2 * WordBits
Meaning(a) == Signed(a, LongBits)

LEMMA WrappedIs == \A n \in Int : Wrapped(n, LongBits) = n % Long
  BY WordFacts DEF Wrapped, LongBits

LEMMA MeaningIs ==
  ASSUME NEW a \in 0 .. Long - 1
  PROVE  /\ Meaning(a) = (IF Negative(a) THEN a - Long ELSE a)
         /\ Meaning(a) < 0 <=> Negative(a)
         /\ Meaning(a) \in Int
         /\ Negative(a) <=> a >= Word * (Word \div 2)
<1> DEFINE w == Word
           h == Word \div 2
           x == High(a)
           y == Low(a)
<1>1. w \in Nat \ {0} /\ h \in Nat \ {0} /\ w = 2 * h /\ Long = w * w /\ a \in Nat /\ a < Long /\ Long \in Nat
  BY WordFacts
<1>2. x \in 0 .. w - 1 /\ y \in 0 .. w - 1 /\ a = w * x + y
  BY TwoWords
<1>3. Wrapped(a, LongBits) = a
  <2>1. a % Long = a
    BY SmallMod, WordFacts
  <2> QED
    BY <1>1, <2>1, WrappedIs
<1>4. Pow2[LongBits] = Long
  BY WordFacts DEF LongBits
<1>5. Pow2[LongBits - 1] = w * h
  <2>1. WordBits \in Nat \ {0} /\ WordBits - 1 \in Nat /\ (WordBits - 1) + 1 = WordBits /\ LongBits - 1 = WordBits + (WordBits - 1)
    BY WordFacts DEF LongBits
  <2>2. Pow2[WordBits + (WordBits - 1)] = w * Pow2[WordBits - 1]
    BY <2>1, Pow2Sum DEF Word
  <2>3. w = 2 * Pow2[WordBits - 1] /\ Pow2[WordBits - 1] \in Nat
    BY <2>1, Pow2Is, Pow2Type DEF Word
  <2>4. Pow2[WordBits - 1] = h
    BY <1>1, <2>3
  <2> QED
    BY <2>1, <2>2, <2>4
<1>6. Negative(a) <=> x >= h
  BY DEF Negative
<1> HIDE DEF w, h, x, y
<1>7. x >= h <=> a >= w * h
  <2>1. ASSUME x >= h PROVE a >= w * h
    <3>1. h * w <= x * w
      BY <1>1, <1>2, <2>1, TimesMonotone
    <3> QED
      BY <1>1, <1>2, <3>1
  <2>2. ASSUME ~(x >= h) PROVE ~(a >= w * h)
    <3>1. (x + 1) * w <= h * w
      BY <1>1, <1>2, <2>2, TimesMonotone
    <3> QED
      BY <1>1, <1>2, <3>1
  <2> QED
    BY <2>1, <2>2
<1>8. Meaning(a) = IF a >= w * h THEN a - Long ELSE a
  BY <1>3, <1>4, <1>5 DEF Meaning, Signed
<1> QED
  BY <1>1, <1>6, <1>7, <1>8 DEF w, h

LEMMA NegatedIs ==
  ASSUME NEW a \in 0 .. Long - 1
  PROVE  Negated(a) = (IF a = 0 THEN 0 ELSE Long - a) /\ Negated(a) = Wrapped(-a, LongBits)
<1>1. Long \in Nat \ {0} /\ a \in Nat /\ 0 - a = -a /\ -a \in Int /\ a < Long
  BY WordFacts
<1>2. Negated(a) = (-a) % Long
  BY <1>1 DEF Negated
<1>3. CASE a = 0
  <2>1. (-a) % Long = 0
    BY <1>1, <1>3, SmallMod
  <2> QED
    BY <1>1, <1>2, <1>3, <2>1, WrappedIs
<1>4. CASE a # 0
  <2> DEFINE r == Long - a
             L == Long
  <2>1. r \in 0 .. L - 1 /\ -a = L * (-1) + r /\ -1 \in Int
    BY <1>1, <1>4
  <2> HIDE DEF r, L
  <2>2. (-a) % L = r
    BY <1>1, <2>1, DivIs DEF L
  <2> QED
    BY <1>1, <1>2, <1>4, <2>2, WrappedIs DEF r, L
<1> QED
  BY <1>3, <1>4

LEMMA MagnitudeIs ==
  ASSUME NEW a \in 0 .. Long - 1
  PROVE  /\ Magnitude(a) = Abs(Meaning(a)) /\ Magnitude(a) \in 0 .. Long - 1
         /\ a # 0 => Magnitude(a) # 0
         /\ Meaning(a) = (IF Negative(a) THEN -Magnitude(a) ELSE Magnitude(a))
<1>1. Long \in Nat \ {0} /\ a \in Nat /\ a < Long /\ Word * (Word \div 2) > 0
  BY WordFacts
<1>2. Negated(a) = IF a = 0 THEN 0 ELSE Long - a
  BY NegatedIs
<1>3. /\ Meaning(a) = (IF Negative(a) THEN a - Long ELSE a)
      /\ Meaning(a) < 0 <=> Negative(a)
      /\ Negative(a) <=> a >= Word * (Word \div 2)
  BY MeaningIs
<1>4. CASE Negative(a)
  <2>1. a # 0
    <3> DEFINE z == Word * (Word \div 2)
    <3>1. a >= z /\ z > 0 /\ z \in Int
      BY <1>1, <1>3, <1>4, WordFacts
    <3> HIDE DEF z
    <3> QED
      BY <1>1, <3>1
  <2>2. Magnitude(a) = Long - a /\ Meaning(a) = a - Long /\ Meaning(a) < 0
    BY <1>2, <1>3, <1>4, <2>1 DEF Magnitude
  <2>3. Abs(Meaning(a)) = Long - a
    BY <1>1, <2>2 DEF Abs
  <2> QED
    BY <1>1, <1>4, <2>1, <2>2, <2>3
<1>5. CASE ~Negative(a)
  <2>1. Magnitude(a) = a /\ Meaning(a) = a
    BY <1>3, <1>5 DEF Magnitude
  <2>2. Abs(Meaning(a)) = a
    BY <1>1, <2>1 DEF Abs
  <2> QED
    BY <1>1, <1>5, <2>1, <2>2
<1> QED
  BY <1>4, <1>5

\* Quotient and remainder of two numbers with sign, from those of their magnitudes.
LEMMA SignedDivision ==
  ASSUME NEW a \in 0 .. Long - 1, NEW b \in 1 .. Long - 1
  PROVE  LET x == Meaning(a)
             y == Meaning(b)
             m == Magnitude(a)
             n == Magnitude(b)
         IN /\ m \in 0 .. Long - 1 /\ n \in 1 .. Long - 1
            /\ m \div n \in 0 .. Long - 1 /\ m % n \in 0 .. Long - 1
            /\ Quotient(x, y) = (IF Negative(a) # Negative(b) THEN -(m \div n) ELSE m \div n)
            /\ x - y * Quotient(x, y) = (IF Negative(a) THEN -(m % n) ELSE m % n)
<1> DEFINE x == Meaning(a)
           y == Meaning(b)
           m == Magnitude(a)
           n == Magnitude(b)
           q == m \div n
           r == m % n
           na == Negative(a)
           nb == Negative(b)
           Q == Quotient(x, y)
<1>1. b \in 0 .. Long - 1 /\ b # 0
  BY WordFacts
<1>2. /\ m = Abs(x) /\ m \in 0 .. Long - 1 /\ x = (IF na THEN -m ELSE m)
      /\ n = Abs(y) /\ n \in 0 .. Long - 1 /\ n # 0 /\ y = (IF nb THEN -n ELSE n)
  BY <1>1, MagnitudeIs
<1>3. (x < 0 <=> na) /\ (y < 0 <=> nb)
  BY <1>1, MeaningIs
<1>4. na \in BOOLEAN /\ nb \in BOOLEAN
  BY DEF Negative
<1>5. n \in 1 .. Long - 1
  BY <1>2, WordFacts
<1>6. q \in 0 .. m /\ r \in 0 .. n - 1 /\ m = n * q + r
  BY <1>2, <1>5, DividedTypes
<1>7. Q = IF na # nb THEN -q ELSE q
  <2>1. Q = IF (x < 0) # (y < 0) THEN -(Abs(x) \div Abs(y)) ELSE Abs(x) \div Abs(y)
    BY DEF Quotient
  <2>2. Q = IF (x < 0) # (y < 0) THEN -q ELSE q
    BY <1>2, <2>1, Zenon
  <2> HIDE DEF x, y, m, n, q, r, na, nb, Q
  <2>3. (x < 0) # (y < 0) <=> na # nb
    BY <1>3, <1>4
  <2> QED
    BY <2>2, <2>3
<1> HIDE DEF x, y, m, n, q, r, na, nb, Q
<1>8. q \in 0 .. Long - 1 /\ r \in 0 .. Long - 1
  BY <1>2, <1>5, <1>6, WordFacts
<1>9. x - y * Q = IF na THEN -r ELSE r
  <2>0. m \in Int /\ n \in Int /\ q \in Int /\ r \in Int /\ n * q \in Int
    BY <1>2, <1>6, WordFacts
  <2>1. CASE na /\ nb
    <3>1. x = -m /\ y = -n /\ Q = q
      BY <1>2, <1>4, <1>7, <2>1
    <3>2. x - y * Q = -r
      BY <1>6, <2>0, <3>1
    <3> QED
      BY <2>1, <3>2
  <2>2. CASE na /\ ~nb
    <3>1. x = -m /\ y = n /\ Q = -q
      BY <1>2, <1>4, <1>7, <2>2
    <3>2. x - y * Q = -r
      BY <1>6, <2>0, <3>1
    <3> QED
      BY <2>2, <3>2
  <2>3. CASE ~na /\ nb
    <3>1. x = m /\ y = -n /\ Q = -q
      BY <1>2, <1>4, <1>7, <2>3
    <3>2. x - y * Q = r
      BY <1>6, <2>0, <3>1
    <3> QED
      BY <2>3, <3>2
  <2>4. CASE ~na /\ ~nb
    <3>1. x = m /\ y = n /\ Q = q
      BY <1>2, <1>4, <1>7, <2>4
    <3>2. x - y * Q = r
      BY <1>6, <2>0, <3>1
    <3> QED
      BY <2>4, <3>2
  <2> QED
    BY <1>4, <2>1, <2>2, <2>3, <2>4
<1> QED
  BY <1>2, <1>5, <1>7, <1>8, <1>9 DEF x, y, m, n, q, r, na, nb, Q

LEMMA SmallWrapped ==
  ASSUME NEW n \in 0 .. Long - 1
  PROVE  Wrapped(n, LongBits) = n
<1>1. n \in Int /\ n % Long = n
  BY SmallMod, WordFacts
<1> QED
  BY <1>1, WrappedIs

LEMMA alldivIs ==
  ASSUME NEW a \in 0 .. Long - 1, NEW b \in 1 .. Long - 1
  PROVE  alldiv(a, b) = Wrapped(Quotient(Meaning(a), Meaning(b)), LongBits)
<1> DEFINE m == Magnitude(a)
           n == Magnitude(b)
           q == m \div n
<1>1. /\ m \in 0 .. Long - 1 /\ n \in 1 .. Long - 1 /\ q \in 0 .. Long - 1
      /\ Quotient(Meaning(a), Meaning(b)) = IF Negative(a) # Negative(b) THEN -q ELSE q
  BY SignedDivision
<1>2. Divided(m, n).quotient = q
  BY <1>1, DividedIs
<1>3. alldiv(a, b) = IF Negative(a) # Negative(b) THEN Negated(q) ELSE q
  BY <1>2, Zenon DEF alldiv
<1> HIDE DEF q
<1>4. Negated(q) = Wrapped(-q, LongBits) /\ Wrapped(q, LongBits) = q
  BY <1>1, NegatedIs, SmallWrapped
<1> QED
  BY <1>1, <1>3, <1>4

\* The remainder that all routines with sign return.
LEMMA SignedRemainder ==
  ASSUME NEW a \in 0 .. Long - 1, NEW b \in 1 .. Long - 1
  PROVE  LET x == Meaning(a)
             y == Meaning(b)
             r == Magnitude(a) % Magnitude(b)
         IN (IF Negative(a) THEN Negated(r) ELSE r) = Wrapped(x - y * Quotient(x, y), LongBits)
<1> DEFINE x == Meaning(a)
           y == Meaning(b)
           r == Magnitude(a) % Magnitude(b)
           d == x - y * Quotient(x, y)
<1>1. r \in 0 .. Long - 1 /\ d = IF Negative(a) THEN -r ELSE r
  BY SignedDivision
<1> HIDE DEF d, r
<1>2. Negated(r) = Wrapped(-r, LongBits) /\ Wrapped(r, LongBits) = r
  BY <1>1, NegatedIs, SmallWrapped
<1>3. (IF Negative(a) THEN Negated(r) ELSE r) = Wrapped(d, LongBits)
  BY <1>1, <1>2
<1> QED
  BY <1>3 DEF d, r

LEMMA allremIs ==
  ASSUME NEW a \in 0 .. Long - 1, NEW b \in 1 .. Long - 1
  PROVE  LET x == Meaning(a)
             y == Meaning(b)
         IN allrem(a, b) = Wrapped(x - y * Quotient(x, y), LongBits)
<1>1. Magnitude(a) \in 0 .. Long - 1 /\ Magnitude(b) \in 1 .. Long - 1
  BY SignedDivision
<1>2. aullrem(Magnitude(a), Magnitude(b)) = Magnitude(a) % Magnitude(b)
  BY <1>1, aullremIs
<1>3. allrem(a, b) = IF Negative(a) THEN Negated(Magnitude(a) % Magnitude(b)) ELSE Magnitude(a) % Magnitude(b)
  BY <1>2, Zenon DEF allrem
<1> QED
  BY <1>3, SignedRemainder

LEMMA alldvrmIs ==
  ASSUME NEW a \in 0 .. Long - 1, NEW b \in 1 .. Long - 1
  PROVE  LET x == Meaning(a)
             y == Meaning(b)
         IN alldvrm(a, b) = [quotient |-> Wrapped(Quotient(x, y), LongBits),
                             remainder |-> Wrapped(x - y * Quotient(x, y), LongBits)]
<1> DEFINE m == Magnitude(a)
           n == Magnitude(b)
<1>1. m \in 0 .. Long - 1 /\ n \in 1 .. Long - 1
  BY SignedDivision
<1>2. aulldvrm(m, n) = [quotient |-> m \div n, remainder |-> m % n]
  BY <1>1, aulldvrmIs
<1>3. aulldvrm(m, n).remainder = m % n
  BY <1>2
<1>4. alldvrm(a, b) = [quotient |-> alldiv(a, b), remainder |-> IF Negative(a) THEN Negated(m % n) ELSE m % n]
  BY <1>3, Zenon DEF alldvrm
<1> QED
  BY <1>4, SignedRemainder, alldivIs

-------------------------------------------------------------------------------
(* Multiplication *)

LEMMA allmulIs ==
  ASSUME NEW a \in 0 .. Long - 1, NEW b \in 0 .. Long - 1
  PROVE  allmul(a, b) = Wrapped(Meaning(a) * Meaning(b), LongBits)
<1> DEFINE w == Word
           h == High(a)
           l == Low(a)
           k == High(b)
           m == Low(b)
           L == Long
<1>1. /\ h \in 0 .. w - 1 /\ l \in 0 .. w - 1 /\ a = w * h + l
      /\ k \in 0 .. w - 1 /\ m \in 0 .. w - 1 /\ b = w * k + m
  BY TwoWords
<1>2. w \in Nat \ {0} /\ L = w * w /\ L \in Nat \ {0} /\ a \in Nat /\ b \in Nat
  BY WordFacts
<1>3. allmul(a, b) = IF h = 0 /\ k = 0 THEN l * m ELSE (l * m + Low(Low(h * m) + Low(l * k)) * w) % L
  BY Zenon DEF allmul
<1>4. Wrapped(Meaning(a) * Meaning(b), LongBits) = (a * b) % L
  <2> DEFINE x == Meaning(a)
             y == Meaning(b)
  <2>1. PICK i \in {0, 1} : x = a - L * i
    BY <1>2, MeaningIs
  <2>2. PICK j \in {0, 1} : y = b - L * j
    BY <1>2, MeaningIs
  <2> DEFINE z == (L * (i * j) - a * j) - b * i
             p == a * b
  <2>3. z \in Int /\ p \in Int
    BY <1>2
  <2> HIDE DEF L, x, y
  <2>4. x * y = p + L * z
    BY <1>2, <2>1, <2>2
  <2> HIDE DEF z, p
  <2>5. (p + L * z) % L = p % L
    BY <1>2, <2>3, ModPlus
  <2>6. x * y \in Int
    BY <1>2, <2>3, <2>4
  <2>7. Wrapped(x * y, LongBits) = (x * y) % Long
    BY <2>6, WrappedIs
  <2> QED
    BY <2>4, <2>5, <2>7 DEF x, y, L, p
<1> HIDE DEF w, h, l, k, m, L
<1>5. CASE h = 0 /\ k = 0
  <2>1. l * m \in 0 .. L - 1
    <3>1. l * m <= (w - 1) * m /\ (w - 1) * m <= (w - 1) * (w - 1)
      BY <1>1, <1>2, TimesMonotone
    <3>2. (w - 1) * (w - 1) < w * w /\ l * m >= 0
      BY <1>1, <1>2
    <3>3. l * m \in Int /\ (w - 1) * m \in Int /\ (w - 1) * (w - 1) \in Int
      BY <1>1, <1>2
    <3> QED
      BY <1>2, <3>1, <3>2, <3>3
  <2>2. a * b = l * m
    BY <1>1, <1>2, <1>5
  <2>3. (l * m) % L = l * m
    BY <1>2, <2>1, SmallMod
  <2> QED
    BY <1>3, <1>4, <1>5, <2>2, <2>3
<1>6. CASE ~(h = 0 /\ k = 0)
  <2> DEFINE p == h * m
             r == l * k
             u == l * m
             s == p + r
  <2>1. p \in Int /\ r \in Int /\ u \in Int /\ s \in Int
    BY <1>1, <1>2
  <2>2. a * b = (u + s * w) + L * (h * k) /\ h * k \in Int
    <3>1. (w * h + l) * (w * k + m) = (l * m + (h * m + l * k) * w) + (w * w) * (h * k)
      BY <1>1, <1>2
    <3> QED
      BY <1>1, <1>2, <3>1
  <2>3. Low(Low(h * m) + Low(l * k)) = ((p % w) + (r % w)) % w
    BY DEF Low, w
  <2> HIDE DEF p, r, u
  <2>4. ((p % w) + (r % w)) % w = s % w
    <3> DEFINE f == r % w
    <3>1. f \in Int
      BY <1>2, <2>1, DivFacts
    <3>2. ((p % w) + f) % w = (p + f) % w
      <4> HIDE DEF f
      <4> QED
        BY <1>2, <2>1, <3>1, ModMod
    <3>3. (f + p) % w = (r + p) % w
      BY <1>2, <2>1, ModMod
    <3>4. f + p = p + f /\ r + p = p + r
      BY <2>1, <3>1
    <3> QED
      BY <3>2, <3>3, <3>4
  <2> HIDE DEF s
  <2>5. (u + (s % w) * w) % (w * w) = (u + s * w) % (w * w)
    BY <1>2, <2>1, TimesMod, ZenonT(40)
  <2>6. ((u + s * w) + L * (h * k)) % L = (u + s * w) % L
    <3> DEFINE n == u + s * w
               c == h * k
    <3>1. n \in Int /\ c \in Int
      BY <1>2, <2>1, <2>2
    <3> HIDE DEF n, c
    <3>2. (n + L * c) % L = n % L
      BY <1>2, <3>1, ModPlus
    <3> QED
      BY <3>2 DEF n, c
  <2>7. allmul(a, b) = (u + (s % w) * w) % L
    BY <1>3, <1>6, <2>3, <2>4 DEF u
  <2> QED
    BY <1>2, <1>4, <2>2, <2>5, <2>6, <2>7
<1> QED
  BY <1>5, <1>6

-------------------------------------------------------------------------------
(* Shifts *)

\* A shift by a word and more, and a shift by less.
LEMMA ShiftedBy ==
  ASSUME NEW n \in Nat
  PROVE  /\ Pow2[n] \in Nat \ {0}
         /\ n >= WordBits => /\ n - WordBits \in Nat /\ Pow2[n - WordBits] \in Nat \ {0}
                             /\ Pow2[n] = Word * Pow2[n - WordBits]
         /\ n <= WordBits => /\ WordBits - n \in Nat /\ Pow2[WordBits - n] \in Nat \ {0}
                             /\ Word = Pow2[n] * Pow2[WordBits - n]
<1>1. WordBits \in Nat
  BY WordFacts
<1>2. ASSUME n >= WordBits PROVE n - WordBits \in Nat /\ Pow2[n] = Word * Pow2[n - WordBits]
  <2>1. n - WordBits \in Nat /\ WordBits + (n - WordBits) = n
    BY <1>1, <1>2
  <2>2. Pow2[WordBits + (n - WordBits)] = Pow2[WordBits] * Pow2[n - WordBits]
    BY <1>1, <2>1, Pow2Sum
  <2> QED
    BY <2>1, <2>2 DEF Word
<1>3. ASSUME n <= WordBits PROVE WordBits - n \in Nat /\ Word = Pow2[n] * Pow2[WordBits - n]
  <2>1. WordBits - n \in Nat /\ n + (WordBits - n) = WordBits
    BY <1>1, <1>3
  <2>2. Pow2[n + (WordBits - n)] = Pow2[n] * Pow2[WordBits - n]
    BY <2>1, Pow2Sum
  <2> QED
    BY <2>1, <2>2 DEF Word
<1> QED
  BY <1>2, <1>3, Pow2Type

LEMMA allshlIs ==
  ASSUME NEW a \in 0 .. Long - 1, NEW n \in Nat
  PROVE  allshl(a, n) = IF n < LongBits THEN Wrapped(a * Pow2[n], LongBits) ELSE 0
<1> DEFINE w == Word
           h == High(a)
           l == Low(a)
           t == Pow2[n]
           v == Pow2[n - WordBits]
<1>1. h \in Nat /\ l \in Nat /\ a = w * h + l /\ w \in Nat \ {0} /\ Long = w * w /\ a \in Nat /\ Long \in Nat \ {0}
  BY TwoWords, WordFacts
<1>2. t \in Nat \ {0} /\ (n >= WordBits => v \in Nat \ {0} /\ t = w * v)
  BY ShiftedBy
<1>3. allshl(a, n) = IF n >= 2 * WordBits THEN 0 ELSE IF n >= WordBits THEN ((l * v) % w) * w ELSE (a * t) % Long
  BY Zenon DEF allshl, Low
<1>4. Wrapped(a * t, LongBits) = (a * t) % Long
  <2>1. a * t \in Int
    BY <1>1, <1>2
  <2> QED
    BY <2>1, WrappedIs
<1>5. WordBits \in Nat /\ LongBits = 2 * WordBits /\ LongBits \in Nat
  BY WordFacts DEF LongBits
<1> HIDE DEF w, h, l, t, v
<1>6. CASE n >= LongBits
  BY <1>3, <1>5, <1>6
<1>7. CASE n < LongBits /\ n >= WordBits
  <2> DEFINE z == l * v
  <2>1. z \in Int /\ v \in Nat \ {0} /\ t = w * v /\ h * v \in Int
    BY <1>1, <1>2, <1>7
  <2>2. a * t = z * w + (w * w) * (h * v)
    <3>1. (w * h + l) * (w * v) = (l * v) * w + (w * w) * (h * v)
      BY <1>1, <2>1
    <3> QED
      BY <1>1, <2>1, <3>1
  <2> HIDE DEF z
  <2>3. (z * w + (w * w) * (h * v)) % (w * w) = (z * w) % (w * w)
    <3> DEFINE p == z * w
               c == h * v
               L == w * w
    <3>1. p \in Int /\ c \in Int /\ L \in Nat \ {0}
      BY <1>1, <2>1
    <3> HIDE DEF p, c, L
    <3>2. (p + L * c) % L = p % L
      BY <3>1, ModPlus
    <3> QED
      BY <3>2 DEF p, c, L
  <2>4. (z * w) % (w * w) = (z % w) * w
    <3>1. (0 + (z % w) * w) % (w * w) = (0 + z * w) % (w * w)
      <4> DEFINE o == 0
      <4>1. o \in Int
        OBVIOUS
      <4> HIDE DEF o
      <4>2. (o + (z % w) * w) % (w * w) = (o + z * w) % (w * w)
        BY <1>1, <2>1, <4>1, TimesMod, ZenonT(40)
      <4> QED
        BY <4>2 DEF o
    <3>2. z % w \in 0 .. w - 1
      BY <1>1, <2>1, DivFacts
    <3> DEFINE r == z % w
    <3> HIDE DEF r
    <3>3. r \in 0 .. w - 1
      BY <3>2 DEF r
    <3>4. r * w \in 0 .. (w * w) - 1
      <4>1. r * w <= (w - 1) * w /\ (w - 1) * w = w * w - w
        BY <1>1, <3>3, TimesMonotone
      <4>2. r * w \in Nat /\ w * w \in Nat
        BY <1>1, <3>3
      <4> QED
        BY <1>1, <4>1, <4>2
    <3> DEFINE x == r * w
               L == w * w
    <3>5. x \in 0 .. L - 1 /\ L \in Nat \ {0}
      BY <1>1, <3>4
    <3> HIDE DEF x, L
    <3>6. x % L = x
      BY <3>5, SmallMod
    <3>7. 0 + z * w = z * w /\ 0 + (z % w) * w = x
      BY <1>1, <2>1, <3>2 DEF x, r
    <3> QED
      BY <3>1, <3>6, <3>7 DEF x, r, L
  <2>5. allshl(a, n) = (z % w) * w
    BY <1>3, <1>5, <1>7 DEF z
  <2> QED
    BY <1>1, <1>4, <1>7, <2>2, <2>3, <2>4, <2>5 DEF t
<1>8. CASE n < WordBits
  <2>1. ~(n >= 2 * WordBits) /\ ~(n >= WordBits) /\ n < LongBits
    BY <1>5, <1>8
  <2> QED
    BY <1>3, <1>4, <2>1 DEF t
<1> QED
  BY <1>5, <1>6, <1>7, <1>8

LEMMA aullshrIs ==
  ASSUME NEW a \in 0 .. Long - 1, NEW n \in Nat
  PROVE  aullshr(a, n) = IF n < LongBits THEN a \div Pow2[n] ELSE 0
<1>1. a \in Int /\ Word \in Nat \ {0} /\ WordBits \in Nat /\ LongBits = 2 * WordBits /\ LongBits \in Nat
  BY WordFacts DEF LongBits
<1>2. aullshr(a, n) = IF n >= 2 * WordBits THEN 0
                      ELSE IF n >= WordBits THEN (a \div Word) \div Pow2[n - WordBits] ELSE a \div Pow2[n]
  BY Zenon DEF aullshr, High
<1>3. CASE n >= WordBits
  <2> DEFINE v == Pow2[n - WordBits]
             w == Word
  <2>1. v \in Nat \ {0} /\ Pow2[n] = w * v
    BY <1>3, ShiftedBy
  <2> HIDE DEF v, w
  <2>2. (a \div w) \div v = a \div (w * v)
    BY <1>1, <2>1, DivDiv DEF w
  <2> QED
    BY <1>1, <1>2, <1>3, <2>1, <2>2 DEF v, w
<1>4. CASE n < WordBits
  BY <1>1, <1>2, <1>4
<1> QED
  BY <1>1, <1>3, <1>4

\* The sign is shifted in from the left.
LEMMA allshrIs ==
  ASSUME NEW a \in 0 .. Long - 1, NEW n \in Nat
  PROVE  LET x == Meaning(a)
         IN allshr(a, n) = Wrapped(IF n < LongBits THEN x \div Pow2[n] ELSE Min({0, x}) \div Long, LongBits)
<1> DEFINE w == Word
           h == High(a)
           l == Low(a)
           x == Meaning(a)
           neg == Negative(a)
           L == Long
           Sar(u, k) == (u \div Pow2[k]) + IF u >= Word \div 2 THEN Word - Pow2[WordBits - k] ELSE 0
           sign == IF neg THEN w - 1 ELSE 0
<1>1. /\ h \in 0 .. w - 1 /\ l \in Nat /\ a = w * h + l /\ w \in Nat \ {0} /\ L = w * w /\ L \in Nat \ {0}
      /\ a \in Nat /\ a \in Int /\ a < L
  BY TwoWords, WordFacts
<1>2. WordBits \in Nat /\ LongBits = 2 * WordBits /\ LongBits \in Nat
  BY WordFacts DEF LongBits
<1>3. x = (IF neg THEN a - L ELSE a) /\ (x < 0 <=> neg) /\ neg \in BOOLEAN
  BY MeaningIs DEF Negative
<1>4. allshr(a, n) = IF n >= 2 * WordBits THEN sign * w + sign
                     ELSE IF n >= WordBits THEN sign * w + Sar(h, n - WordBits)
                     ELSE Sar(h, n) * w + ((a \div Pow2[n]) % w)
  BY Zenon DEF allshr, Low
<1>5. \A k : Sar(h, k) = (h \div Pow2[k]) + IF neg THEN w - Pow2[WordBits - k] ELSE 0
  BY Zenon DEF Negative
<1> HIDE DEF w, h, l, x, neg, L, Sar
<1>6. CASE n >= LongBits
  <2>1. allshr(a, n) = sign * w + sign
    BY <1>2, <1>4, <1>6
  <2>2. Min({0, x}) = IF neg THEN x ELSE 0
    <3>1. x \in Int
      BY <1>1, <1>3
    <3>2. Min({0, x}) = IF 0 <= x THEN 0 ELSE x
      BY <3>1, LesserOfTwo
    <3> QED
      BY <1>3, <3>1, <3>2
  <2>3. CASE neg
    <3>1. Min({0, x}) = a - L /\ a - L = L * (-1) + a /\ a \in 0 .. L - 1 /\ -1 \in Int /\ a - L \in Int
      BY <1>1, <1>3, <2>2, <2>3
    <3>2. (a - L) \div L = -1
      BY <1>1, <3>1, DivIs
    <3>3. sign * w + sign = L - 1
      BY <1>1, <2>3
    <3>4. -1 = L * (-1) + (L - 1) /\ L - 1 \in 0 .. L - 1
      BY <1>1
    <3>5. (-1) % L = L - 1
      BY <1>1, <3>1, <3>4, DivIs
    <3>6. Wrapped(-1, LongBits) = L - 1
      BY <3>1, <3>5, WrappedIs DEF L
    <3> QED
      BY <1>2, <1>6, <2>1, <3>1, <3>2, <3>3, <3>6 DEF x, L
  <2>4. CASE ~neg
    <3>1. sign * w + sign = 0 /\ Min({0, x}) = 0
      BY <1>1, <2>2, <2>4
    <3>2. 0 \div L = 0 /\ 0 \in 0 .. L - 1
      BY <1>1
    <3>3. Wrapped(0, LongBits) = 0
      BY <3>2, SmallWrapped DEF L
    <3> QED
      BY <1>2, <1>6, <2>1, <3>1, <3>2, <3>3 DEF x, L
  <2> QED
    BY <2>3, <2>4
\* What is left of the number after a shift, and its sign.
<1>7. ASSUME n < LongBits, NEW g \in Int, NEW c \in Nat \ {0}, Pow2[n] * c = L, g = a \div Pow2[n],
             allshr(a, n) = g + (IF neg THEN L - c ELSE 0)
      PROVE  allshr(a, n) = Wrapped(x \div Pow2[n], LongBits)
  <2> DEFINE t == Pow2[n]
  <2>1. t \in Nat \ {0}
    BY ShiftedBy
  <2> HIDE DEF t
  <2>2. g = a \div t /\ t * c = L
    BY <1>7 DEF t
  <2>3. a % t \in 0 .. t - 1 /\ a = t * g + (a % t)
    BY <1>1, <2>1, <2>2, DivFacts
  <2>4. g >= 0 /\ g < c
    <3> DEFINE r == a % t
    <3>1. r \in 0 .. t - 1 /\ a = t * g + r
      BY <2>3
    <3> HIDE DEF r
    <3>2. g >= 0
      BY <1>1, <1>7, <2>1, <3>1
    <3>3. g * t < c * t
      BY <1>1, <1>7, <2>1, <2>2, <3>1
    <3>4. g < c
      BY <1>7, <2>1, <3>3, Cancels
    <3> QED
      BY <3>2, <3>4
  <2>5. CASE neg
    <3>1. x = a + t * (-c) /\ -c \in Int
      BY <1>1, <1>3, <1>7, <2>1, <2>2, <2>5
    <3>2. (a + t * (-c)) \div t = (a \div t) + (-c)
      BY <1>1, <2>1, <3>1, ModPlus
    <3>3. x \div t = g - c
      BY <1>7, <2>2, <3>1, <3>2
    <3>4. c <= L
      BY <1>1, <1>7, <2>1, <2>2
    <3>5. g - c = L * (-1) + (L + g - c) /\ L + g - c \in 0 .. L - 1 /\ -1 \in Int /\ g - c \in Int
      BY <1>1, <1>7, <2>4, <3>4
    <3> DEFINE y == g - c
               z == L + g - c
    <3>6. y \in Int /\ z \in 0 .. L - 1 /\ y = L * (-1) + z
      BY <3>5
    <3> HIDE DEF y, z
    <3>7. y % L = z
      BY <1>1, <3>5, <3>6, DivIs
    <3>8. Wrapped(y, LongBits) = z
      BY <3>6, <3>7, WrappedIs DEF L
    <3>9. allshr(a, n) = z
      BY <1>1, <1>7, <2>5 DEF z
    <3> QED
      BY <3>3, <3>8, <3>9 DEF t, y
  <2>6. CASE ~neg
    <3>1. x \div t = g
      BY <1>3, <2>2, <2>6
    <3>2. c <= L
      BY <1>1, <1>7, <2>1, <2>2
    <3>3. g \in 0 .. L - 1
      BY <1>1, <1>7, <2>4, <3>2
    <3>4. Wrapped(g, LongBits) = g
      BY <3>3, SmallWrapped DEF L
    <3>5. allshr(a, n) = g
      BY <1>7, <2>6
    <3> QED
      BY <3>1, <3>4, <3>5 DEF t
  <2> QED
    BY <2>5, <2>6
<1>8. CASE n < LongBits /\ n >= WordBits
  <2> DEFINE k == n - WordBits
             v == Pow2[k]
             c == Pow2[WordBits - k]
             g == h \div v
  <2>1. k \in Nat /\ v \in Nat \ {0} /\ Pow2[n] = w * v
    BY <1>8, ShiftedBy DEF w
  <2>2. k <= WordBits
    BY <1>2, <1>8
  <2>3. c \in Nat \ {0} /\ w = v * c
    BY <2>1, <2>2, ShiftedBy DEF w
  <2>4. Sar(h, k) = g + IF neg THEN w - c ELSE 0
    BY <1>5
  <2>5. allshr(a, n) = sign * w + Sar(h, k)
    BY <1>2, <1>4, <1>8
  <2> HIDE DEF k, v, c, g
  <2>6. g \in Int /\ g = a \div (w * v)
    <3>1. h = a \div w
      BY DEF h, w, High
    <3>2. (a \div w) \div v = a \div (w * v)
      BY <1>1, <2>1, DivDiv
    <3>3. h \in Int
      BY <1>1
    <3> QED
      BY <2>1, <3>1, <3>2, <3>3, DivFacts DEF g
  <2>7. allshr(a, n) = g + (IF neg THEN L - c ELSE 0)
    <3>1. CASE neg
      <4>1. sign = w - 1
        BY <3>1
      <4>2. (w - 1) * w = L - w
        BY <1>1
      <4>3. allshr(a, n) = (w - 1) * w + (g + (w - c))
        BY <2>4, <2>5, <3>1, <4>1
      <4> QED
        BY <1>1, <2>3, <2>6, <3>1, <4>2, <4>3
    <3>2. CASE ~neg
      <4>1. sign = 0
        BY <3>2
      <4>2. allshr(a, n) = 0 * w + (g + 0)
        BY <2>4, <2>5, <3>2, <4>1
      <4> QED
        BY <1>1, <2>6, <3>2, <4>2
    <3> QED
      BY <3>1, <3>2
  <2>8. (w * v) * c = L
    BY <1>1, <2>1, <2>3
  <2>9. allshr(a, n) = Wrapped(x \div Pow2[n], LongBits)
    BY <1>7, <1>8, <2>1, <2>3, <2>6, <2>7, <2>8
  <2> QED
    BY <1>8, <2>9 DEF x
<1>9. CASE n < WordBits
  <2> DEFINE t == Pow2[n]
             v == Pow2[WordBits - n]
             g == a \div t
             c == v * w
  <2>1. t \in Nat \ {0} /\ v \in Nat \ {0} /\ w = t * v /\ n <= WordBits
    BY <1>2, <1>9, ShiftedBy DEF w
  <2>2. Sar(h, n) = (h \div t) + IF neg THEN w - v ELSE 0
    BY <1>5
  <2>3. allshr(a, n) = Sar(h, n) * w + (g % w)
    <3>1. ~(n >= 2 * WordBits) /\ ~(n >= WordBits)
      BY <1>2, <1>9
    <3> QED
      BY <1>4, <3>1
  <2> HIDE DEF t, v, g
  <2>4. g \in Int
    BY <1>1, <2>1, DivFacts DEF g
  <2>5. h \div t = g \div w
    <3>1. (a \div w) \div t = a \div (w * t)
      BY <1>1, <2>1, DivDiv
    <3>2. (a \div t) \div w = a \div (t * w)
      BY <1>1, <2>1, DivDiv
    <3>3. w * t = t * w
      BY <1>1, <2>1
    <3>4. h = a \div w /\ g = a \div t
      BY DEF h, w, High, g
    <3> QED
      BY <3>1, <3>2, <3>3, <3>4
  <2>6. g = w * (g \div w) + (g % w) /\ g \div w \in Int /\ g % w \in Int
    BY <1>1, <2>4, DivFacts
  <2>7. allshr(a, n) = g + (IF neg THEN L - c ELSE 0)
    <3> DEFINE p == g \div w
               r == g % w
    <3>1. p \in Int /\ r \in Int /\ g = w * p + r
      BY <2>6
    <3>2. allshr(a, n) = (p + (IF neg THEN w - v ELSE 0)) * w + r
      BY <2>2, <2>3, <2>5
    <3> HIDE DEF p, r
    <3>3. CASE neg
      <4>1. (p + (w - v)) * w + r = (w * p + r) + (w * w - v * w)
        BY <1>1, <2>1, <3>1
      <4>2. allshr(a, n) = (p + (w - v)) * w + r
        BY <3>2, <3>3
      <4> QED
        BY <1>1, <3>1, <3>3, <4>1, <4>2
    <3>4. CASE ~neg
      <4>1. (p + 0) * w + r = w * p + r
        BY <1>1, <3>1
      <4>2. allshr(a, n) = (p + 0) * w + r
        BY <3>2, <3>4
      <4>3. g + 0 = g
        BY <2>4
      <4> QED
        BY <3>1, <3>4, <4>1, <4>2, <4>3
    <3> QED
      BY <3>3, <3>4
  <2>8. c \in Nat \ {0} /\ t * c = L
    BY <1>1, <2>1
  <2> HIDE DEF c
  <2>9. n < LongBits
    BY <1>2, <1>9
  <2>10. allshr(a, n) = Wrapped(x \div Pow2[n], LongBits)
    BY <1>7, <2>4, <2>7, <2>8, <2>9 DEF t, g
  <2> QED
    BY <2>9, <2>10 DEF x
<1> QED
  BY <1>2, <1>6, <1>8, <1>9

LEMMA DivideExact ==
  ASSUME Divide
  PROVE  ArithmeticExact'
<1>1. PICK a \in 0 .. Long - 1, b \in 1 .. Long - 1 :
        \/ Calls("alldiv", <<a, b>>, <<>>, <<>>, alldiv(a, b))
        \/ Calls("allrem", <<a, b>>, <<>>, <<>>, allrem(a, b))
        \/ Calls("alldvrm", <<a, b>>, <<>>, <<>>, alldvrm(a, b))
        \/ Calls("aullrem", <<a, b>>, <<>>, <<>>, aullrem(a, b))
        \/ Calls("aulldvrm", <<a, b>>, <<>>, <<>>, aulldvrm(a, b))
  BY Zenon DEF Divide
<1>2. \/ call'.f = "alldiv" /\ result' = alldiv(a, b)
      \/ call'.f = "allrem" /\ result' = allrem(a, b)
      \/ call'.f = "alldvrm" /\ result' = alldvrm(a, b)
      \/ call'.f = "aullrem" /\ result' = aullrem(a, b)
      \/ call'.f = "aulldvrm" /\ result' = aulldvrm(a, b)
  BY <1>1, CallFields
<1>3. call'.args[1] = a /\ call'.args[2] = b
  <2>1. call'.args = <<a, b>>
    BY <1>1, CallFields
  <2> QED
    BY <2>1
<1> DEFINE x == Meaning(a)
           y == Meaning(b)
           q == Wrapped(Quotient(x, y), LongBits)
           r == Wrapped(x - y * Quotient(x, y), LongBits)
<1>4. /\ alldiv(a, b) = q /\ allrem(a, b) = r /\ alldvrm(a, b) = [quotient |-> q, remainder |-> r]
      /\ aullrem(a, b) = a % b /\ aulldvrm(a, b) = [quotient |-> a \div b, remainder |-> a % b]
  BY alldivIs, allremIs, alldvrmIs, aullremIs, aulldvrmIs
<1>5. CASE call'.f = "alldiv" /\ result' = alldiv(a, b)
  <2>1. ArithmeticExact' = (result' = q)
    BY <1>3, <1>5 DEF ArithmeticExact, Meaning, LongBits
  <2> QED
    BY <1>4, <1>5, <2>1
<1>6. CASE call'.f = "allrem" /\ result' = allrem(a, b)
  <2>1. ArithmeticExact' = (result' = r)
    BY <1>3, <1>6 DEF ArithmeticExact, Meaning, LongBits
  <2> QED
    BY <1>4, <1>6, <2>1
<1>7. CASE call'.f = "alldvrm" /\ result' = alldvrm(a, b)
  <2>1. ArithmeticExact' = (result' = [quotient |-> q, remainder |-> r])
    BY <1>3, <1>7 DEF ArithmeticExact, Meaning, LongBits
  <2> QED
    BY <1>4, <1>7, <2>1
<1>8. CASE call'.f = "aullrem" /\ result' = aullrem(a, b)
  <2>1. ArithmeticExact' = (result' = a % b)
    BY <1>3, <1>8 DEF ArithmeticExact
  <2> QED
    BY <1>4, <1>8, <2>1
<1>9. CASE call'.f = "aulldvrm" /\ result' = aulldvrm(a, b)
  <2>1. ArithmeticExact' = (result' = [quotient |-> a \div b, remainder |-> a % b])
    BY <1>3, <1>9 DEF ArithmeticExact
  <2> QED
    BY <1>4, <1>9, <2>1
<1> QED
  BY <1>2, <1>5, <1>6, <1>7, <1>8, <1>9

LEMMA MultiplyExact ==
  ASSUME Multiply
  PROVE  ArithmeticExact'
<1>1. PICK a \in 0 .. Long - 1, b \in 0 .. Long - 1 :
        \/ Calls("allmul", <<a, b>>, <<>>, <<>>, allmul(a, b))
        \/ Calls("allshl", <<a, b>>, <<>>, <<>>, allshl(a, b))
        \/ Calls("allshr", <<a, b>>, <<>>, <<>>, allshr(a, b))
        \/ Calls("aullshr", <<a, b>>, <<>>, <<>>, aullshr(a, b))
  BY Zenon DEF Multiply
<1>2. \/ call'.f = "allmul" /\ result' = allmul(a, b)
      \/ call'.f = "allshl" /\ result' = allshl(a, b)
      \/ call'.f = "allshr" /\ result' = allshr(a, b)
      \/ call'.f = "aullshr" /\ result' = aullshr(a, b)
  BY <1>1, CallFields
<1>3. call'.args[1] = a /\ call'.args[2] = b
  <2>1. call'.args = <<a, b>>
    BY <1>1, CallFields
  <2> QED
    BY <2>1
<1> DEFINE x == Meaning(a)
           y == Meaning(b)
           m == Wrapped(x * y, LongBits)
           l == IF b < LongBits THEN Wrapped(a * Pow2[b], LongBits) ELSE 0
           r == Wrapped(IF b < LongBits THEN x \div Pow2[b] ELSE Min({0, x}) \div Long, LongBits)
           u == IF b < LongBits THEN a \div Pow2[b] ELSE 0
<1>4. allmul(a, b) = m /\ allshl(a, b) = l /\ allshr(a, b) = r /\ aullshr(a, b) = u
  <2>1. b \in Nat
    BY WordFacts
  <2> QED
    BY <2>1, allmulIs, allshlIs, allshrIs, aullshrIs
<1>5. CASE call'.f = "allmul" /\ result' = allmul(a, b)
  <2>1. ArithmeticExact' = (result' = m)
    BY <1>3, <1>5 DEF ArithmeticExact, Meaning, LongBits
  <2> QED
    BY <1>4, <1>5, <2>1
<1>6. CASE call'.f = "allshl" /\ result' = allshl(a, b)
  <2>1. ArithmeticExact' = (result' = l)
    BY <1>3, <1>6 DEF ArithmeticExact, LongBits
  <2> QED
    BY <1>4, <1>6, <2>1
<1>7. CASE call'.f = "allshr" /\ result' = allshr(a, b)
  <2>1. ArithmeticExact' = (result' = r)
    BY <1>3, <1>7 DEF ArithmeticExact, Meaning, LongBits
  <2> QED
    BY <1>4, <1>7, <2>1
<1>8. CASE call'.f = "aullshr" /\ result' = aullshr(a, b)
  <2>1. ArithmeticExact' = (result' = u)
    BY <1>3, <1>8 DEF ArithmeticExact, LongBits
  <2> QED
    BY <1>4, <1>8, <2>1
<1> QED
  BY <1>2, <1>5, <1>6, <1>7, <1>8

\* For operands of every length the helpers compute what C means by *, /, %, << and
\* >>: what an estimated quotient leaves out is made up for by the one correction,
\* no division traps, and the product it is judged by loses nothing but the carry
\* that is looked at.
THEOREM ArithmeticIsExact == LibcSpec => []ArithmeticExact
<1>1. LibcInit => ArithmeticExact
  BY DEF LibcInit, Nothing, ArithmeticExact
<1>2. ArithmeticExact /\ [LibcNext]_libcVars => ArithmeticExact'
  <2> SUFFICES ASSUME ArithmeticExact, [LibcNext]_libcVars PROVE ArithmeticExact'
    OBVIOUS
  <2>1. ASSUME call'.f \notin Dividing \cup Multiplying PROVE ArithmeticExact'
    BY <2>1 DEF ArithmeticExact, Dividing, Multiplying
  <2>2. ASSUME Move \/ Copy \/ Compare \/ Search \/ Show \/ ShowText \/ ShowAddress \/ Return
        PROVE  call'.f \notin Dividing \cup Multiplying
    BY <2>2, CallNames DEF Copying, Comparing, Searching, Printing, Dividing, Multiplying
  <2>3. CASE LibcNext
    BY <2>1, <2>2, <2>3, DivideExact, MultiplyExact DEF LibcNext
  <2>4. CASE UNCHANGED libcVars
    <3>1. call' = call /\ result' = result
      BY <2>4 DEF libcVars
    <3> QED
      BY <3>1, Zenon DEF ArithmeticExact
  <2> QED
    BY <2>3, <2>4
<1> QED
  BY <1>1, <1>2, PTL DEF LibcSpec

-------------------------------------------------------------------------------
(* The figures of a number *)

Tens == {65, 97}
Bases == {2, 8, 10, 16}

\* What is left of n after each of m divisions.
AreRests(f, n, base, m) == f = [k \in 0 .. m |-> IF k = 0 THEN n ELSE f[k - 1] \div base]

LEMMA RestsExist ==
  ASSUME NEW n, NEW base, NEW m \in Nat
  PROVE  \E f : AreRests(f, n, base, m)
<1> DEFINE T == {j \in Nat : \E f : AreRests(f, n, base, j)}
           W(f, k) == IF k = 0 THEN n ELSE f[k - 1] \div base
<1>1. 0 \in T
  <2> DEFINE g == [k \in 0 .. 0 |-> n]
  <2>1. \A k \in 0 .. 0 : k = 0
    OBVIOUS
  <2>2. AreRests(g, n, base, 0)
    BY <2>1 DEF AreRests
  <2> QED
    BY <2>2
<1>2. ASSUME NEW j \in T PROVE j + 1 \in T
  <2>1. PICK f : AreRests(f, n, base, j)
    BY <1>2
  <2> DEFINE g == [k \in 0 .. j + 1 |-> IF k = j + 1 THEN f[j] \div base ELSE f[k]]
  <2>2. ASSUME NEW k \in 0 .. j + 1 PROVE g[k] = W(g, k)
    <3>1. CASE k = j + 1
      <4>1. k - 1 = j /\ k # 0 /\ j \in 0 .. j + 1 /\ j # j + 1
        BY <3>1
      <4> QED
        BY <3>1, <4>1
    <3>2. CASE k # j + 1
      <4>1. k \in 0 .. j /\ (k # 0 => k - 1 \in 0 .. j + 1 /\ k - 1 # j + 1)
        BY <3>2
      <4>2. f[k] = W(f, k)
        BY <2>1, <4>1 DEF AreRests
      <4> QED
        BY <3>2, <4>1, <4>2
    <3> QED
      BY <3>1, <3>2
  <2>3. g = [k \in 0 .. j + 1 |-> g[k]]
    OBVIOUS
  <2> HIDE DEF g
  <2>4. AreRests(g, n, base, j + 1)
    BY <2>2, <2>3 DEF AreRests
  <2> QED
    BY <2>4
<1>3. T \in SUBSET Nat
  OBVIOUS
<1> HIDE DEF T
<1>4. T = Nat
  BY <1>1, <1>2, <1>3, NumberInduction
<1> QED
  BY <1>4 DEF T

\* Each division leaves less, so n + 1 of them leave nothing.
LEMMA RestsShrink ==
  ASSUME NEW n \in Nat, NEW base \in Nat \ {0, 1}, NEW m \in Nat, NEW f, AreRests(f, n, base, m)
  PROVE  \A k \in 0 .. m : f[k] \in Nat /\ (f[k] = 0 \/ f[k] <= n - k)
<1> DEFINE T == {k \in Nat : k <= m => f[k] \in Nat /\ (f[k] = 0 \/ f[k] <= n - k)}
<1>0. \A k \in 0 .. m : f[k] = IF k = 0 THEN n ELSE f[k - 1] \div base
  BY DEF AreRests
<1>1. 0 \in T
  BY <1>0
<1>2. ASSUME NEW k \in T PROVE k + 1 \in T
  <2> SUFFICES ASSUME k + 1 <= m
               PROVE  f[k + 1] \in Nat /\ (f[k + 1] = 0 \/ f[k + 1] <= n - (k + 1))
    BY <1>2
  <2>1. k + 1 \in 0 .. m /\ k + 1 # 0 /\ (k + 1) - 1 = k
    BY <1>2
  <2>2. f[k + 1] = f[k] \div base
    BY <1>0, <2>1
  <2>3. f[k] \in Nat /\ (f[k] = 0 \/ f[k] <= n - k)
    BY <1>2
  <2> DEFINE a == f[k]
             q == a \div base
  <2>4. a \in Nat /\ q \in Int /\ a % base \in 0 .. base - 1 /\ a = base * q + (a % base)
    <3>1. a \in Nat /\ a \in Int /\ base \in Nat \ {0}
      BY <2>3
    <3> HIDE DEF a
    <3> QED
      BY <3>1, DivFacts
  <2> HIDE DEF a, q
  <2>5. q \in Nat /\ (q = 0 \/ q <= a - 1)
    <3>1. q >= 0
      <4> SUFFICES ASSUME q <= -1 PROVE FALSE
        BY <2>4
      <4>1. q * base <= (-1) * base
        BY <2>4, TimesMonotone
      <4> QED
        BY <2>4, <4>1
    <3>2. q >= 1 => 2 * q <= base * q
      BY <2>4, <3>1, TimesMonotone
    <3> QED
      BY <2>4, <3>1, <3>2
  <2> QED
    BY <2>2, <2>3, <2>5 DEF a, q
<1>3. T \in SUBSET Nat
  OBVIOUS
<1> HIDE DEF T
<1>4. T = Nat
  BY <1>1, <1>2, <1>3, NumberInduction
<1> QED
  BY <1>4 DEF T

\* w[i] is the number that the first i figures of a text are.
Valued(text, w, base, n, ten) ==
  /\ text \in Seq(Nat) /\ Len(text) \in Nat \ {0}
  /\ w \in [0 .. Len(text) -> Nat] /\ w[0] = 0 /\ w[Len(text)] = n
  /\ \A i \in 1 .. Len(text) : \E d \in 0 .. base - 1 : text[i] = Figure(d, ten) /\ w[i] = w[i - 1] * base + d

LEMMA DigitsAre ==
  ASSUME NEW n \in Nat, NEW base \in Nat \ {0, 1}, NEW ten \in Tens
  PROVE  \E w : Valued(Digits(n, base, ten), w, base, n, ten)
<1> DEFINE rest == CHOOSE f : AreRests(f, n, base, n + 1)
           size == CHOOSE k \in 1 .. n + 1 : rest[k] = 0 /\ (k = 1 \/ rest[k - 1] # 0)
           text == [i \in 1 .. size |-> Figure(rest[size - i] % base, ten)]
           w == [i \in 0 .. size |-> rest[size - i]]
<1>1. Digits(n, base, ten) = text
  BY Zenon DEF Digits, AreRests
<1>2. AreRests(rest, n, base, n + 1)
  BY RestsExist
<1> HIDE DEF rest
<1>3. \A k \in 0 .. n + 1 : rest[k] \in Nat /\ (rest[k] = 0 \/ rest[k] <= n - k)
  BY <1>2, RestsShrink
<1>4. rest[0] = n /\ \A k \in 1 .. n + 1 : rest[k] = rest[k - 1] \div base
  BY <1>2 DEF AreRests
<1>5. size \in 1 .. n + 1 /\ rest[size] = 0
  <2> DEFINE S == {k \in 1 .. n + 1 : rest[k] = 0}
  <2>1. n + 1 \in S
    BY <1>3
  <2>2. PICK k \in S : \A j \in S : k <= j
    <3>1. S \in SUBSET Nat /\ S # {}
      BY <2>1
    <3> HIDE DEF S
    <3> QED
      BY <3>1, LeastNumber
  <2>3. k = 1 \/ rest[k - 1] # 0
    <3> SUFFICES ASSUME k # 1, rest[k - 1] = 0 PROVE FALSE
      OBVIOUS
    <3>1. k - 1 \in S
      OBVIOUS
    <3> QED
      BY <2>2, <3>1
  <2>4. \E j \in 1 .. n + 1 : rest[j] = 0 /\ (j = 1 \/ rest[j - 1] # 0)
    BY <2>3
  <2> QED
    BY <2>4
<1> HIDE DEF size
<1>6. text \in Seq(Nat) /\ Len(text) = size
  <2>1. ASSUME NEW i \in 1 .. size PROVE Figure(rest[size - i] % base, ten) \in Nat
    <3>1. size - i \in 0 .. n + 1
      BY <1>5
    <3>2. rest[size - i] % base \in 0 .. base - 1
      <4>1. rest[size - i] \in Int /\ base \in Nat \ {0}
        BY <1>3, <3>1
      <4> QED
        BY <4>1, DivFacts
    <3> QED
      BY <3>2 DEF Figure, Tens
  <2> QED
    BY <1>5, <2>1
<1>7. w \in [0 .. size -> Nat]
  BY <1>3, <1>5
<1>8. w[0] = 0 /\ w[size] = n
  BY <1>4, <1>5
<1>9. ASSUME NEW i \in 1 .. size
      PROVE  \E d \in 0 .. base - 1 : text[i] = Figure(d, ten) /\ w[i] = w[i - 1] * base + d
  <2> DEFINE k == size - i
             d == rest[k] % base
  <2>1. k \in 0 .. n + 1 /\ k + 1 \in 1 .. n + 1 /\ size - (i - 1) = k + 1 /\ i - 1 \in 0 .. size /\ (k + 1) - 1 = k
    BY <1>5
  <2>2. rest[k + 1] = rest[k] \div base
    BY <1>4, <2>1
  <2>3. w[i] = rest[k] /\ w[i - 1] = rest[k] \div base /\ text[i] = Figure(d, ten)
    <3>1. text[i] = Figure(d, ten)
      OBVIOUS
    <3>2. w[i] = rest[k] /\ w[i - 1] = rest[k + 1]
      BY <2>1
    <3> QED
      BY <2>2, <3>1, <3>2
  <2>4. d \in 0 .. base - 1 /\ rest[k] = base * (rest[k] \div base) + d /\ rest[k] \div base \in Int
    <3>1. rest[k] \in Int /\ base \in Nat \ {0}
      BY <1>3, <2>1
    <3> HIDE DEF k
    <3> QED
      BY <3>1, DivFacts
  <2> HIDE DEF text, w
  <2>5. w[i] = w[i - 1] * base + d
    BY <2>3, <2>4
  <2> HIDE DEF d, k
  <2> QED
    BY <2>3, <2>4, <2>5
<1> HIDE DEF text, w
<1>10. Valued(text, w, base, n, ten)
  <2>1. size \in Nat \ {0}
    BY <1>5
  <2> QED
    BY <2>1, <1>6, <1>7, <1>8, <1>9 DEF Valued
<1> QED
  BY <1>1, <1>10

\* strtol takes a figure for what it stands for.
LEMMA FigureFacts ==
  ASSUME NEW d \in 0 .. 15, NEW ten \in Tens
  PROVE  /\ Figure(d, ten) \in Nat /\ Digit(Figure(d, ten)) = d /\ ~isspace(Figure(d, ten))
         /\ Figure(d, ten) \notin {32, 43, 45, 46, 58, 88, 120}
         /\ Figure(d, ten) = 48 <=> d = 0
  BY DEF Tens, Figure, Digit, isdigit, isupper, islower, isspace

-------------------------------------------------------------------------------
(* Reading a number *)

LEMMA MinIs ==
  ASSUME NEW T \in SUBSET Nat, NEW k \in T, \A n \in T : k <= n
  PROVE  Min(T) = k
<1>1. Min(T) \in T /\ Min(T) <= k
  BY LeastNumber
<1>2. k <= Min(T) /\ Min(T) \in Nat /\ k \in Nat
  BY <1>1
<1> QED
  BY <1>1, <1>2

\* strtol's value before place i of s, read from place "first" on; -1 above last.
AreAccs(f, s, base, first, stop, last) ==
  f = [i \in first .. stop |->
         IF i = first THEN 0
         ELSE LET a == f[i - 1]
                  c == Digit(s[i - 1])
              IN IF a < 0 \/ a > last \div base \/ (a = last \div base /\ c > last % base)
                 THEN -1 ELSE a * base + c]

Accs(s, base, first, stop, last) == CHOOSE f : AreAccs(f, s, base, first, stop, last)

\* w[i] is the number before place i of s.
Accumulates(w, s, base, first, stop) ==
  /\ w \in [first .. stop -> Nat] /\ w[first] = 0
  /\ \A i \in first .. stop - 1 : Digit(s[i]) \in 0 .. base - 1 /\ w[i + 1] = w[i] * base + Digit(s[i])

\* The test before a figure is added says whether the sum would be above last.
LEMMA CutoffRight ==
  ASSUME NEW last \in Nat, NEW base \in Nat \ {0}, NEW a \in Nat, NEW c \in 0 .. base - 1
  PROVE  (a > last \div base \/ (a = last \div base /\ c > last % base)) <=> a * base + c > last
<1> DEFINE q == last \div base
           r == last % base
<1>1. q \in Int /\ r \in 0 .. base - 1 /\ last = base * q + r
  BY DivFacts
<1> HIDE DEF q, r
<1>2. CASE a > q
  <2>1. (q + 1) * base <= a * base
    BY <1>1, <1>2, TimesMonotone
  <2>2. (q + 1) * base = base * q + base /\ a * base \in Int
    BY <1>1
  <2> QED
    BY <1>1, <1>2, <2>1, <2>2 DEF q, r
<1>3. CASE a = q
  <2>1. a * base = base * q
    BY <1>1, <1>3
  <2> QED
    BY <1>1, <1>3, <2>1 DEF q, r
<1>4. CASE a < q
  <2>1. (a + 1) * base <= q * base
    BY <1>1, <1>4, TimesMonotone
  <2>2. (a + 1) * base = a * base + base /\ q * base = base * q /\ a * base \in Int
    BY <1>1
  <2> QED
    BY <1>1, <1>4, <2>1, <2>2 DEF q, r
<1> QED
  BY <1>1, <1>2, <1>3, <1>4

LEMMA AccsAre ==
  ASSUME NEW s, NEW base \in Nat \ {0}, NEW first \in Nat, NEW stop \in Nat, first <= stop, NEW last \in Nat,
         NEW w, Accumulates(w, s, base, first, stop)
  PROVE  Accs(s, base, first, stop, last)[stop] = IF w[stop] <= last THEN w[stop] ELSE -1
<1> DEFINE V(i) == IF w[i] <= last THEN w[i] ELSE -1
           Step(f, i) == LET a == f[i - 1]
                             c == Digit(s[i - 1])
                         IN IF a < 0 \/ a > last \div base \/ (a = last \div base /\ c > last % base)
                            THEN -1 ELSE a * base + c
           W(f, i) == IF i = first THEN 0 ELSE Step(f, i)
           g == [i \in first .. stop |-> V(i)]
<1>0. /\ w \in [first .. stop -> Nat] /\ w[first] = 0
      /\ \A i \in first .. stop - 1 : Digit(s[i]) \in 0 .. base - 1 /\ w[i + 1] = w[i] * base + Digit(s[i])
  BY DEF Accumulates
<1>1. ASSUME NEW f, NEW i \in first + 1 .. stop, f[i - 1] = V(i - 1)
      PROVE  Step(f, i) = V(i)
  <2> DEFINE c == Digit(s[i - 1])
             a == w[i - 1]
  <2>1. i - 1 \in first .. stop - 1 /\ (i - 1) + 1 = i /\ i - 1 \in first .. stop /\ i \in first .. stop
    BY <1>1
  <2>2. c \in 0 .. base - 1 /\ w[i] = a * base + c /\ a \in Nat /\ w[i] \in Nat
    BY <1>0, <2>1
  <2>3. a <= last => ((a > last \div base \/ (a = last \div base /\ c > last % base)) <=> a * base + c > last)
    BY <2>2, CutoffRight
  <2>4. a > last => a * base + c > last
    <3>1. a \in Nat /\ c \in Nat /\ 1 \in Int /\ base \in Int /\ 1 <= base
      BY <2>2
    <3> HIDE DEF a, c
    <3>2. a * 1 <= a * base
      BY <3>1, TimesMonotone
    <3>3. a * base \in Int /\ a * 1 = a
      BY <3>1
    <3> DEFINE p == a * base
    <3>4. a <= p /\ p \in Int
      BY <3>2, <3>3
    <3> HIDE DEF p
    <3>5. a > last => p + c > last
      BY <3>1, <3>4
    <3> QED
      BY <3>5 DEF p
  <2>5. f[i - 1] = IF a <= last THEN a ELSE -1
    BY <1>1
  <2>6. V(i) = IF w[i] <= last THEN w[i] ELSE -1
    OBVIOUS
  <2>7. Step(f, i) = IF f[i - 1] < 0 \/ f[i - 1] > last \div base \/ (f[i - 1] = last \div base /\ c > last % base)
                     THEN -1 ELSE f[i - 1] * base + c
    OBVIOUS
  <2> HIDE DEF a, c, V, Step
  <2>8. CASE a <= last
    <3>1. f[i - 1] = a /\ ~(a < 0)
      BY <2>2, <2>5, <2>8
    <3>2. Step(f, i) = IF a * base + c > last THEN -1 ELSE a * base + c
      BY <2>3, <2>7, <2>8, <3>1
    <3> QED
      BY <2>2, <2>6, <3>2
  <2>9. CASE a > last
    <3>1. f[i - 1] = -1
      BY <2>2, <2>5, <2>9
    <3> QED
      BY <2>2, <2>4, <2>6, <2>7, <2>9, <3>1
  <2> QED
    BY <2>2, <2>8, <2>9
<1>2. V(first) = 0
  BY <1>0
<1>3. \E f : AreAccs(f, s, base, first, stop, last)
  <2>1. ASSUME NEW i \in first .. stop PROVE g[i] = W(g, i)
    <3>1. CASE i = first
      BY <1>2, <3>1
    <3>2. CASE i # first
      <4>1. i \in first + 1 .. stop /\ i - 1 \in first .. stop
        BY <3>2
      <4>2. g[i] = V(i) /\ g[i - 1] = V(i - 1)
        BY <4>1
      <4> HIDE DEF g, V, Step
      <4> QED
        BY <1>1, <3>2, <4>1, <4>2
    <3> QED
      BY <3>1, <3>2
  <2>2. g = [i \in first .. stop |-> g[i]]
    OBVIOUS
  <2> HIDE DEF g
  <2>3. g = [i \in first .. stop |-> W(g, i)]
    <3> HIDE DEF W
    <3> QED
      BY <2>1, <2>2
  <2> QED
    BY <2>3, Zenon DEF AreAccs
<1> DEFINE h == Accs(s, base, first, stop, last)
<1>4. AreAccs(h, s, base, first, stop, last)
  BY <1>3, Zenon DEF Accs
<1> HIDE DEF h, V
<1>5. \A i \in first .. stop : h[i] = W(h, i)
  BY <1>4 DEF AreAccs
<1> HIDE DEF Step
<1> DEFINE T == {k \in Nat : first + k <= stop => h[first + k] = V(first + k)}
<1>6. 0 \in T
  BY <1>2, <1>5
<1>7. ASSUME NEW k \in T PROVE k + 1 \in T
  <2> SUFFICES ASSUME first + (k + 1) <= stop PROVE h[first + (k + 1)] = V(first + (k + 1))
    BY <1>7
  <2> DEFINE i == first + (k + 1)
  <2>1. i \in first + 1 .. stop /\ i - 1 = first + k /\ i # first /\ i \in first .. stop /\ first + k <= stop
    BY <1>7
  <2>2. h[i - 1] = V(i - 1)
    BY <1>7, <2>1
  <2> HIDE DEF i
  <2>3. h[i] = Step(h, i)
    BY <1>5, <2>1
  <2> QED
    BY <1>1, <2>1, <2>2, <2>3 DEF i
<1>8. T \in SUBSET Nat
  OBVIOUS
<1> HIDE DEF T
<1>9. T = Nat
  BY <1>6, <1>7, <1>8, NumberInduction
<1>10. h[stop] = V(stop)
  <2>1. stop - first \in T
    BY <1>9
  <2> QED
    BY <2>1 DEF T
<1> QED
  BY <1>10 DEF h, V

\* The nearest long to a number.
Nearest(n) == IF n > LONG_MAX THEN LONG_MAX ELSE IF n < LONG_MIN THEN LONG_MIN ELSE n

WithSign(char, n) == IF char = 45 THEN -n ELSE n

\* Where a text's number starts behind blanks, a sign and a 0x, and where it ends.
Starts(s, base, begin, first) ==
  /\ begin \in 1 .. Len(s) /\ ~isspace(s[begin])
  /\ \A i \in 1 .. begin - 1 : s[i] = 32
  /\ LET signed == IF s[begin] \in {43, 45} THEN begin + 1 ELSE begin
     IN first = IF base = 16 /\ Char(s, signed) = 48 /\ Char(s, signed + 1) \in {88, 120} THEN signed + 2 ELSE signed

\* s is a number in this base, of which the figures lie from first to before stop.
Reads(s, base, begin, first, stop, w) ==
  /\ s \in Seq(Nat) /\ base \in 2 .. 16 /\ begin \in Nat /\ first \in Nat /\ stop \in Nat
  /\ Starts(s, base, begin, first) /\ first <= stop /\ stop <= Len(s) + 1 /\ Digit(Char(s, stop)) >= base
  /\ Accumulates(w, s, base, first, stop)

LEMMA StrtolReads ==
  ASSUME NEW s, NEW base, NEW begin, NEW first, NEW stop, NEW w, Reads(s, base, begin, first, stop, w)
  PROVE  strtol(s, base) = Nearest(WithSign(s[begin], w[stop]))
<1> USE DEF Reads
<1> DEFINE begin0 == Min({i \in 1 .. Len(s) + 1 : ~isspace(Char(s, i))})
           neg0 == Char(s, begin0) = 45
           signed0 == IF Char(s, begin0) \in {43, 45} THEN begin0 + 1 ELSE begin0
           hex0 == base \in {0, 16} /\ Char(s, signed0) = 48 /\ Char(s, signed0 + 1) \in {88, 120}
           first0 == IF hex0 THEN signed0 + 2 ELSE signed0
           base0 == IF hex0 THEN 16 ELSE IF base # 0 THEN base ELSE IF Char(s, signed0) = 48 THEN 8 ELSE 10
           last0 == IF neg0 THEN -LONG_MIN ELSE LONG_MAX
           stop0 == Min({i \in first0 .. Len(s) + 1 : Digit(Char(s, i)) >= base0})
           acc0 == Accs(s, base0, first0, stop0, last0)
<1>1. strtol(s, base) = IF acc0[stop0] < 0 THEN IF neg0 THEN LONG_MIN ELSE LONG_MAX
                        ELSE IF neg0 THEN -acc0[stop0] ELSE acc0[stop0]
  BY Zenon DEF strtol, AreAccs, Accs
<1>2. DOMAIN s = 1 .. Len(s) /\ Len(s) \in Nat
  BY LenProperties
<1>3. begin0 = begin
  <2> DEFINE S == {i \in 1 .. Len(s) + 1 : ~isspace(Char(s, i))}
  <2>1. S \in SUBSET Nat
    OBVIOUS
  <2>2. begin \in S
    BY <1>2 DEF Starts, Char
  <2>3. ASSUME NEW i \in S PROVE begin <= i
    <3> SUFFICES ASSUME i < begin PROVE FALSE
      BY <2>3
    <3>1. i \in 1 .. begin - 1 /\ i \in DOMAIN s
      BY <1>2 DEF Starts
    <3>2. Char(s, i) = 32
      BY <3>1 DEF Starts, Char
    <3> QED
      BY <3>2 DEF isspace
  <2> HIDE DEF S
  <2>4. Min(S) = begin
    BY <2>1, <2>2, <2>3, MinIs
  <2> QED
    BY <2>4 DEF S
<1> HIDE DEF begin0
<1>4. Char(s, begin0) = s[begin] /\ (neg0 <=> s[begin] = 45)
  BY <1>2, <1>3 DEF Starts, Char
<1>5. first0 = first
  BY <1>3, <1>4 DEF Starts
<1>6. base0 = base
  OBVIOUS
<1> HIDE DEF first0, base0, neg0, hex0, signed0
<1>7. stop0 = stop
  <2> DEFINE S == {i \in first .. Len(s) + 1 : Digit(Char(s, i)) >= base}
  <2>1. S \in SUBSET Nat
    OBVIOUS
  <2>2. stop \in S
    OBVIOUS
  <2>3. ASSUME NEW i \in S PROVE stop <= i
    <3> SUFFICES ASSUME i < stop PROVE FALSE
      BY <2>3
    <3>1. i \in first .. stop - 1 /\ i \in DOMAIN s
      <4>1. 1 <= first
        BY DEF Starts
      <4> QED
        BY <1>2, <4>1
    <3>2. Char(s, i) = s[i] /\ Digit(s[i]) \in 0 .. base - 1
      BY <3>1 DEF Char, Accumulates
    <3> QED
      BY <3>2
  <2> HIDE DEF S
  <2>4. Min(S) = stop
    BY <2>1, <2>2, <2>3, MinIs
  <2> QED
    BY <1>5, <1>6, <2>4 DEF S
<1> HIDE DEF stop0
<1>8. last0 \in Nat /\ last0 = IF s[begin] = 45 THEN -LONG_MIN ELSE LONG_MAX
  BY <1>4, StringsAssumption DEF LONG_MIN
<1> HIDE DEF last0
<1>9. acc0[stop0] = IF w[stop] <= last0 THEN w[stop] ELSE -1
  <2>1. base \in Nat \ {0}
    OBVIOUS
  <2>2. Accs(s, base, first, stop, last0)[stop] = IF w[stop] <= last0 THEN w[stop] ELSE -1
    BY <1>8, <2>1, AccsAre
  <2> QED
    BY <1>5, <1>6, <1>7, <2>2
<1> HIDE DEF acc0
<1>10. w[stop] \in Nat
  BY DEF Accumulates
<1> QED
  BY <1>1, <1>4, <1>8, <1>9, <1>10, StringsAssumption DEF Nearest, WithSign, LONG_MIN

-------------------------------------------------------------------------------
(* What number writes *)

LEMMA Joins ==
  ASSUME NEW s \in Seq(Nat), NEW t \in Seq(Nat)
  PROVE  /\ s \o t \in Seq(Nat) /\ Len(s \o t) = Len(s) + Len(t) /\ Len(s) \in Nat /\ Len(t) \in Nat
         /\ \A i \in 1 .. Len(s) : (s \o t)[i] = s[i]
         /\ \A i \in 1 .. Len(t) : (s \o t)[Len(s) + i] = t[i]
  OBVIOUS

LEMMA TimesFacts ==
  ASSUME NEW c \in Nat, NEW n \in Int
  PROVE  /\ Times(c, n) \in Seq(Nat) /\ Len(Times(c, n)) = IF n < 0 THEN 0 ELSE n
         /\ \A i \in 1 .. Len(Times(c, n)) : Times(c, n)[i] = c
<1>1. CASE n < 0
  <2>1. 1 .. n = {} /\ 1 .. n = 1 .. 0
    BY <1>1
  <2>2. Times(c, n) = [i \in 1 .. 0 |-> c]
    BY <2>1 DEF Times
  <2>3. [i \in 1 .. 0 |-> c] \in Seq(Nat) /\ Len([i \in 1 .. 0 |-> c]) = 0
    OBVIOUS
  <2> QED
    BY <1>1, <2>2, <2>3
<1>2. CASE n >= 0
  BY <1>2 DEF Times
<1> QED
  BY <1>1, <1>2

\* A field: b blanks, sign, the hex characters of a 0x, z zeros, figures and e blanks again.
SignLength(sign) == IF sign = 0 THEN 0 ELSE 1
Prefixed(b, sign, hex) == b + SignLength(sign) + hex
Laid(s, b, sign, hex, z, text, e) ==
  LET j == b + SignLength(sign)
      k == Prefixed(b, sign, hex)
      m == k + z
      n == m + Len(text)
  IN /\ s \in Seq(Nat) /\ b \in Nat /\ z \in Nat /\ e \in Nat /\ Len(s) = n + e
     /\ \A p \in 1 .. b : s[p] = 32
     /\ sign # 0 => s[j] = sign
     /\ hex = 2 => s[j + 1] = 48 /\ s[j + 2] = 120
     /\ \A p \in k + 1 .. m : s[p] = 48
     /\ \A p \in m + 1 .. n : s[p] = text[p - m]
     /\ \A p \in n + 1 .. Len(s) : s[p] = 32

LEMMA ValuedFigures ==
  ASSUME NEW text, NEW w, NEW base \in Bases, NEW n, NEW ten \in Tens, Valued(text, w, base, n, ten), NEW i \in 1 .. Len(text)
  PROVE  /\ Digit(text[i]) \in 0 .. base - 1 /\ w[i] = w[i - 1] * base + Digit(text[i])
         /\ ~isspace(text[i]) /\ text[i] \notin {32, 43, 45, 46, 58, 88, 120}
<1>1. PICK d \in 0 .. base - 1 : text[i] = Figure(d, ten) /\ w[i] = w[i - 1] * base + d
  BY DEF Valued
<1>2. d \in 0 .. 15
  BY DEF Bases
<1> DEFINE c == Figure(d, ten)
<1>3. Digit(c) = d /\ ~isspace(c)
  BY <1>2, FigureFacts
<1>4. c \notin {32, 43, 45, 46, 58, 88, 120}
  BY <1>2, FigureFacts
<1> HIDE DEF c
<1> QED
  BY <1>1, <1>3, <1>4 DEF c

\* The number n stands in a field.
Inscribed(s, b, sign, hex, z, text, e, base, w, n, ten) ==
  /\ Laid(s, b, sign, hex, z, text, e) /\ Valued(text, w, base, n, ten)
  /\ sign \in {0, 43, 45} /\ hex \in {0, 2} /\ base \in Bases /\ (hex = 2 => base = 16) /\ ten \in Tens

\* strtol reads the number that stands in a field.
LEMMA LaidReads ==
  ASSUME NEW s, NEW b, NEW sign, NEW hex, NEW z, NEW text, NEW e, NEW base, NEW w, NEW number0, NEW ten,
         Inscribed(s, b, sign, hex, z, text, e, base, w, number0, ten)
  PROVE  strtol(s, base) = Nearest(WithSign(sign, number0))
<1> DEFINE j == b + SignLength(sign)
           k == Prefixed(b, sign, hex)
           m == k + z
           n == m + Len(text)
           first == k + 1
           stop == n + 1
           v == [i \in first .. stop |-> IF i <= m + 1 THEN 0 ELSE w[i - (m + 1)]]
<1>00. /\ Laid(s, b, sign, hex, z, text, e) /\ Valued(text, w, base, number0, ten)
       /\ sign \in {0, 43, 45} /\ hex \in {0, 2} /\ base \in Bases /\ (hex = 2 => base = 16) /\ ten \in Tens
  BY Zenon DEF Inscribed
<1>0. base \in 2 .. 16
  BY <1>00 DEF Bases
<1>1. /\ text \in Seq(Nat) /\ Len(text) \in Nat \ {0}
      /\ w \in [0 .. Len(text) -> Nat] /\ w[0] = 0 /\ w[Len(text)] = number0
  BY <1>00, Zenon DEF Valued
<1>2. s \in Seq(Nat) /\ DOMAIN s = 1 .. Len(s) /\ Len(s) \in Nat /\ b \in Nat /\ e \in Nat /\ z \in Nat
  BY <1>00, LenProperties DEF Laid
<1>3. /\ j \in Nat /\ k \in Nat /\ m \in Nat /\ n \in Nat /\ j <= k /\ k <= m /\ m <= n /\ Len(s) = n + e
  <2>1. SignLength(sign) \in Nat /\ hex \in Nat
    BY <1>00 DEF SignLength
  <2>2. j \in Nat /\ k \in Nat /\ j <= k
    BY <1>2, <2>1 DEF Prefixed
  <2> HIDE DEF j, k
  <2>3. m \in Nat /\ n \in Nat /\ k <= m /\ m <= n
    BY <1>1, <1>2, <2>2
  <2>4. Len(s) = n + e
    BY <1>00 DEF Laid, k
  <2> QED
    BY <2>2, <2>3, <2>4
<1>4. /\ j = IF sign = 0 THEN b ELSE b + 1
      /\ k = j + hex
      /\ n = m + Len(text)
  BY <1>00, <1>2, <1>3 DEF SignLength, Prefixed
<1>40. /\ \A p \in 1 .. b : s[p] = 32
       /\ sign # 0 => s[j] = sign
       /\ hex = 2 => s[j + 1] = 48 /\ s[j + 2] = 120
       /\ \A p \in k + 1 .. m : s[p] = 48
       /\ \A p \in m + 1 .. n : s[p] = text[p - m]
       /\ \A p \in n + 1 .. Len(s) : s[p] = 32
  BY <1>00 DEF Laid
<1>41. sign # 0 => s[b + 1] \in {43, 45} /\ (s[b + 1] = 45 <=> sign = 45)
  BY <1>00, <1>4, <1>40
<1> HIDE DEF j, k, m, n
<1>5. ASSUME NEW i \in 1 .. Len(text)
      PROVE  /\ Digit(text[i]) \in 0 .. base - 1 /\ w[i] = w[i - 1] * base + Digit(text[i])
             /\ ~isspace(text[i]) /\ text[i] \notin {32, 43, 45, 88, 120}
  BY <1>00, ValuedFigures
\* Behind the prefix come zeros and figures.
<1>6. ASSUME NEW p \in k + 1 .. n
      PROVE  s[p] \notin {32, 43, 45, 88, 120} /\ ~isspace(s[p])
  <2>1. CASE p \in k + 1 .. m
    BY <1>3, <1>40, <1>41, <2>1 DEF isspace
  <2>2. CASE p \in m + 1 .. n
    <3>1. p - m \in 1 .. Len(text)
      BY <1>1, <1>3, <1>40, <1>41, <1>4, <2>2
    <3> QED
      BY <1>5, <1>40, <2>2, <3>1
  <2> QED
    BY <1>3, <1>40, <1>41, <2>1, <2>2
<1>7. k + 1 \in 1 .. n
  BY <1>1, <1>3, <1>40, <1>41, <1>4
<1>8. Starts(s, base, b + 1, first)
  <2>1. b + 1 \in 1 .. Len(s)
    BY <1>2, <1>3, <1>40, <1>41, <1>4, <1>7
  <2>2. ~isspace(s[b + 1])
    <3>1. CASE sign # 0
      BY <1>3, <1>40, <1>41, <3>1 DEF isspace
    <3>2. CASE sign = 0 /\ hex = 2
      BY <1>3, <1>40, <1>41, <1>4, <3>2 DEF isspace
    <3>3. CASE sign = 0 /\ hex = 0
      BY <1>2, <1>3, <1>4, <1>6, <1>7, <3>3
    <3> QED
      BY <1>00, <3>1, <3>2, <3>3
  <2>3. \A i \in 1 .. (b + 1) - 1 : s[i] = 32
    BY <1>2, <1>3, <1>40, <1>41
  <2> DEFINE signed == IF s[b + 1] \in {43, 45} THEN (b + 1) + 1 ELSE b + 1
  <2>4. signed = j + 1
    <3>1. CASE sign # 0
      BY <1>2, <1>3, <1>40, <1>41, <1>4, <3>1
    <3>2. CASE sign = 0 /\ hex = 2
      BY <1>3, <1>40, <1>41, <1>4, <3>2
    <3>3. CASE sign = 0 /\ hex = 0
      BY <1>2, <1>3, <1>4, <1>6, <1>7, <3>3
    <3> QED
      BY <1>00, <3>1, <3>2, <3>3
  <2> HIDE DEF signed
  <2>5. first = IF base = 16 /\ Char(s, signed) = 48 /\ Char(s, signed + 1) \in {88, 120} THEN signed + 2 ELSE signed
    <3>1. CASE hex = 2
      <4>1. j + 1 \in DOMAIN s /\ j + 2 \in DOMAIN s /\ (j + 1) + 1 = j + 2 /\ (j + 1) + 2 = k + 1
        BY <1>00, <1>2, <1>3, <1>40, <1>41, <1>4, <1>7, <3>1
      <4>2. Char(s, j + 1) = 48 /\ Char(s, (j + 1) + 1) = 120
        BY <1>3, <1>40, <1>41, <3>1, <4>1 DEF Char
      <4> QED
        BY <1>00, <2>4, <3>1, <4>1, <4>2
    <3>2. CASE hex = 0
      <4>1. j = k /\ signed + 1 = k + 2
        BY <1>3, <1>40, <1>41, <1>4, <2>4, <3>2
      <4>2. Char(s, k + 2) \notin {88, 120}
        <5>1. CASE k + 2 \in k + 1 .. n
          BY <1>2, <1>3, <1>40, <1>41, <1>6, <5>1 DEF Char
        <5>2. CASE k + 2 \in n + 1 .. Len(s)
          BY <1>2, <1>3, <1>40, <1>41, <5>2 DEF Char
        <5>3. CASE k + 2 > Len(s)
          BY <1>2, <1>3, <1>40, <1>41, <5>3 DEF Char
        <5> QED
          BY <1>2, <1>3, <1>40, <1>41, <1>7, <5>1, <5>2, <5>3
      <4> QED
        BY <2>4, <4>1, <4>2
    <3> QED
      BY <1>00, <3>1, <3>2
  <2> QED
    BY <2>1, <2>2, <2>3, <2>5 DEF Starts, signed
<1>9. Digit(Char(s, stop)) >= base
  <2>1. Char(s, stop) \in {0, 32}
    BY <1>2, <1>3, <1>40, <1>41 DEF Char
  <2>2. Digit(0) = 99 /\ Digit(32) = 99
    BY DEF Digit, isdigit, isupper, islower
  <2> QED
    BY <1>0, <2>1, <2>2
<1>10. Accumulates(v, s, base, first, stop)
  <2>1. ASSUME NEW i \in first .. stop PROVE v[i] = (IF i <= m + 1 THEN 0 ELSE w[i - (m + 1)]) /\ v[i] \in Nat
    <3>1. i > m + 1 => i - (m + 1) \in 0 .. Len(text)
      BY <1>1, <1>3, <1>40, <1>41, <1>4
    <3>2. v[i] = IF i <= m + 1 THEN 0 ELSE w[i - (m + 1)]
      OBVIOUS
    <3> HIDE DEF v
    <3> QED
      BY <1>1, <1>3, <3>1, <3>2
  <2>2. first \in first .. stop /\ first <= m + 1
    BY <1>3, <1>40, <1>41
  <2>3. v[first] = 0
    BY <2>1, <2>2
  <2>4. ASSUME NEW i \in first .. stop - 1
        PROVE  Digit(s[i]) \in 0 .. base - 1 /\ v[i + 1] = v[i] * base + Digit(s[i])
    <3>0. i \in first .. stop /\ i + 1 \in first .. stop
      BY <1>3, <1>40, <1>41
    <3>1. CASE i <= m
      <4>1. s[i] = 48 /\ v[i] = 0 /\ v[i + 1] = 0
        BY <1>3, <1>40, <1>41, <2>1, <3>0, <3>1
      <4>2. Digit(48) = 0
        BY DEF Digit, isdigit
      <4> QED
        BY <1>0, <4>1, <4>2
    <3>2. CASE i > m
      <4> DEFINE q == i - m
      <4>1. q \in 1 .. Len(text) /\ s[i] = text[q] /\ i + 1 > m + 1 /\ (i + 1) - (m + 1) = q /\ i - (m + 1) = q - 1
        BY <1>3, <1>4, <1>40, <1>41, <3>2
      <4>2. v[i + 1] = w[q]
        <5>1. v[i + 1] = IF i + 1 <= m + 1 THEN 0 ELSE w[(i + 1) - (m + 1)]
          BY <2>1, <3>0
        <5>2. ~(i + 1 <= m + 1)
          BY <1>3, <3>2
        <5> QED
          BY <4>1, <5>1, <5>2
      <4>3. v[i] = w[q - 1]
        <5>1. CASE i = m + 1
          BY <1>1, <1>3, <1>40, <1>41, <2>1, <3>0, <4>1, <5>1
        <5>2. CASE i > m + 1
          <6>1. ~(i <= m + 1)
            BY <1>3, <1>40, <1>41, <5>2
          <6> QED
            BY <2>1, <3>0, <4>1, <6>1
        <5> QED
          BY <1>3, <1>40, <1>41, <3>2, <5>1, <5>2
      <4> HIDE DEF q, v
      <4> QED
        BY <1>5, <4>1, <4>2, <4>3
    <3> QED
      BY <1>3, <1>40, <1>41, <3>1, <3>2
  <2>5. v \in [first .. stop -> Nat]
    BY <2>1
  <2> HIDE DEF v
  <2> QED
    BY <2>3, <2>4, <2>5 DEF Accumulates
<1>11. v[stop] = number0
  <2>1. stop \in first .. stop /\ stop > m + 1 /\ ~(stop <= m + 1) /\ stop - (m + 1) = Len(text)
    BY <1>1, <1>3, <1>40, <1>41, <1>4
  <2> QED
    BY <1>1, <2>1
<1>12. s[b + 1] = 45 <=> sign = 45
  <2>1. CASE sign # 0
    BY <1>3, <1>40, <1>41, <2>1
  <2>2. CASE sign = 0 /\ hex = 2
    BY <1>3, <1>40, <1>41, <1>4, <2>2
  <2>3. CASE sign = 0 /\ hex = 0
    BY <1>2, <1>3, <1>4, <1>6, <1>7, <2>3
  <2> QED
    BY <1>00, <2>1, <2>2, <2>3
<1> HIDE DEF v
<1>13. first <= stop /\ stop <= Len(s) + 1 /\ first \in Nat /\ stop \in Nat /\ b + 1 \in Nat /\ base \in 2 .. 16
  BY <1>0, <1>2, <1>3, <1>40, <1>41
<1> HIDE DEF first, stop
<1>14. strtol(s, base) = Nearest(WithSign(s[b + 1], v[stop]))
  <2>1. Reads(s, base, b + 1, first, stop, v)
    BY <1>2, <1>8, <1>9, <1>10, <1>13 DEF Reads
  <2> QED
    BY <2>1, StrtolReads
<1> QED
  BY <1>11, <1>12, <1>14 DEF WithSign

\* s by places: r blanks, sign, prefix, z zeros, text, e blanks.
Parts(s, r, sign, prefix, z, text, e) ==
  LET j == r + Len(sign)
      k == j + Len(prefix)
      m == k + z
      n == m + Len(text)
  IN /\ s \in Seq(Nat) /\ r \in Nat /\ z \in Nat /\ e \in Nat /\ text \in Seq(Nat) /\ Len(s) = n + e
     /\ \A p \in 1 .. r : s[p] = 32
     /\ \A p \in r + 1 .. j : s[p] = sign[p - r]
     /\ \A p \in j + 1 .. k : s[p] = prefix[p - j]
     /\ \A p \in k + 1 .. m : s[p] = 48
     /\ \A p \in m + 1 .. n : s[p] = text[p - m]
     /\ \A p \in n + 1 .. Len(s) : s[p] = 32

Rest(n) == IF n < 0 THEN 0 ELSE n

\* s is a, b, c and d, one after the other.
Chain(s, a, b, c, d) ==
  LET j == Len(a)
      k == j + Len(b)
      m == k + Len(c)
      n == m + Len(d)
  IN /\ s \in Seq(Nat) /\ j \in Nat /\ Len(b) \in Nat /\ Len(c) \in Nat /\ Len(d) \in Nat /\ Len(s) = n
     /\ \A p \in 1 .. j : s[p] = a[p]
     /\ \A p \in j + 1 .. k : s[p] = b[p - j]
     /\ \A p \in k + 1 .. m : s[p] = c[p - k]
     /\ \A p \in m + 1 .. n : s[p] = d[p - m]

LEMMA JoinPlaces ==
  ASSUME NEW s \in Seq(Nat), NEW t \in Seq(Nat)
  PROVE  /\ s \o t \in Seq(Nat) /\ Len(s \o t) = Len(s) + Len(t) /\ Len(s) \in Nat /\ Len(t) \in Nat
         /\ \A p \in 1 .. Len(s) : (s \o t)[p] = s[p]
         /\ \A p \in Len(s) + 1 .. Len(s) + Len(t) : (s \o t)[p] = t[p - Len(s)]
<1>1. s \o t \in Seq(Nat) /\ Len(s \o t) = Len(s) + Len(t) /\ Len(s) \in Nat /\ Len(t) \in Nat
      /\ \A p \in 1 .. Len(s) : (s \o t)[p] = s[p]
  BY Joins
<1>2. ASSUME NEW p \in Len(s) + 1 .. Len(s) + Len(t) PROVE (s \o t)[p] = t[p - Len(s)]
  <2>1. p - Len(s) \in 1 .. Len(t) /\ Len(s) + (p - Len(s)) = p
    BY <1>1
  <2> QED
    BY <2>1, Joins
<1> QED
  BY <1>1, <1>2

LEMMA Chains ==
  ASSUME NEW a \in Seq(Nat), NEW b \in Seq(Nat), NEW c \in Seq(Nat), NEW d \in Seq(Nat)
  PROVE  Chain(a \o b \o c \o d, a, b, c, d)
<1> DEFINE x == a \o b
           y == x \o c
           s == y \o d
<1>1. /\ x \in Seq(Nat) /\ Len(x) = Len(a) + Len(b) /\ Len(a) \in Nat /\ Len(b) \in Nat
      /\ \A p \in 1 .. Len(a) : x[p] = a[p]
      /\ \A p \in Len(a) + 1 .. Len(a) + Len(b) : x[p] = b[p - Len(a)]
  BY JoinPlaces
<1> HIDE DEF x
<1>2. /\ y \in Seq(Nat) /\ Len(y) = Len(x) + Len(c) /\ Len(c) \in Nat
      /\ \A p \in 1 .. Len(x) : y[p] = x[p]
      /\ \A p \in Len(x) + 1 .. Len(x) + Len(c) : y[p] = c[p - Len(x)]
  BY <1>1, JoinPlaces
<1> HIDE DEF y
<1>3. /\ s \in Seq(Nat) /\ Len(s) = Len(y) + Len(d) /\ Len(d) \in Nat
      /\ \A p \in 1 .. Len(y) : s[p] = y[p]
      /\ \A p \in Len(y) + 1 .. Len(y) + Len(d) : s[p] = d[p - Len(y)]
  BY <1>2, JoinPlaces
<1> HIDE DEF s
<1>4. \A p \in 1 .. Len(a) : s[p] = a[p]
  BY <1>1, <1>2, <1>3
<1>5. \A p \in Len(a) + 1 .. Len(a) + Len(b) : s[p] = b[p - Len(a)]
  BY <1>1, <1>2, <1>3
<1>6. \A p \in Len(x) + 1 .. Len(x) + Len(c) : s[p] = c[p - Len(x)]
  BY <1>1, <1>2, <1>3
<1>7. Chain(s, a, b, c, d)
  BY <1>1, <1>2, <1>3, <1>4, <1>5, <1>6 DEF Chain
<1> QED
  BY <1>7 DEF s, y, x

LEMMA TimesRest ==
  ASSUME NEW c \in Nat, NEW n \in Int
  PROVE  /\ Times(c, n) \in Seq(Nat) /\ Len(Times(c, n)) = Rest(n) /\ Rest(n) \in Nat
         /\ \A p \in 1 .. Len(Times(c, n)) : Times(c, n)[p] = c
<1>1. Rest(n) \in Nat
  BY DEF Rest
<1> QED
  BY <1>1, TimesFacts, Zenon DEF Rest

\* Zeros before the figures.
LEMMA PaddedFigures ==
  ASSUME NEW c \in Int, NEW text \in Seq(Nat)
  PROVE  LET f == Times(48, c) \o text
         IN /\ f \in Seq(Nat) /\ Len(f) = Rest(c) + Len(text) /\ Rest(c) \in Nat /\ Len(text) \in Nat
            /\ \A p \in 1 .. Rest(c) : f[p] = 48
            /\ \A p \in Rest(c) + 1 .. Len(f) : f[p] = text[p - Rest(c)]
<1> DEFINE t == Times(48, c)
           f == t \o text
<1>1. /\ t \in Seq(Nat) /\ Len(t) = Rest(c) /\ \A p \in 1 .. Len(t) : t[p] = 48
  <2>1. 48 \in Nat
    OBVIOUS
  <2> QED
    BY <2>1, TimesRest, Zenon
<1> HIDE DEF t
<1>2. /\ f \in Seq(Nat) /\ Len(f) = Len(t) + Len(text) /\ Len(t) \in Nat /\ Len(text) \in Nat
      /\ \A p \in 1 .. Len(t) : f[p] = t[p]
      /\ \A p \in Len(t) + 1 .. Len(t) + Len(text) : f[p] = text[p - Len(t)]
  BY <1>1, JoinPlaces
<1> HIDE DEF f
<1> QED
  BY <1>1, <1>2 DEF f, t

\* The three ways to justify a number.
Padding(size, sign, prefix, figures) == size - Len(sign) - Len(prefix) - Len(figures)

LEMMA LeftParts ==
  ASSUME NEW sign \in Seq(Nat), NEW prefix \in Seq(Nat), NEW c \in Int, NEW text \in Seq(Nat), NEW rest \in Int
  PROVE  Parts(sign \o prefix \o (Times(48, c) \o text) \o Times(32, rest), 0, sign, prefix, Rest(c), text, Rest(rest))
<1> DEFINE f == Times(48, c) \o text
           t == Times(32, rest)
           s == sign \o prefix \o f \o t
<1>1. /\ f \in Seq(Nat) /\ Len(f) = Rest(c) + Len(text) /\ Rest(c) \in Nat /\ Len(text) \in Nat
      /\ \A p \in 1 .. Rest(c) : f[p] = 48
      /\ \A p \in Rest(c) + 1 .. Len(f) : f[p] = text[p - Rest(c)]
  BY PaddedFigures
<1>2. t \in Seq(Nat) /\ Len(t) = Rest(rest) /\ Rest(rest) \in Nat /\ \A p \in 1 .. Len(t) : t[p] = 32
  <2>1. 32 \in Nat
    OBVIOUS
  <2> QED
    BY <2>1, TimesRest, Zenon
<1> HIDE DEF f, t
<1>3. Chain(s, sign, prefix, f, t)
  BY <1>1, <1>2, Chains
<1> HIDE DEF s
<1> DEFINE j == 0 + Len(sign)
           k == j + Len(prefix)
           m == k + Rest(c)
           n == m + Len(text)
<1>4. /\ s \in Seq(Nat) /\ Len(sign) \in Nat /\ Len(prefix) \in Nat /\ Len(s) = k + Len(f) + Len(t)
      /\ \A p \in 1 .. j : s[p] = sign[p]
      /\ \A p \in j + 1 .. k : s[p] = prefix[p - j]
      /\ \A p \in k + 1 .. k + Len(f) : s[p] = f[p - k]
      /\ \A p \in k + Len(f) + 1 .. Len(s) : s[p] = t[p - (k + Len(f))]
  BY <1>3 DEF Chain
<1>5. j \in Nat /\ k \in Nat /\ m \in Nat /\ n \in Nat /\ n = k + Len(f) /\ j <= k /\ k <= m /\ m <= n /\ n <= Len(s)
  BY <1>1, <1>2, <1>4
<1>50. m = k + Rest(c) /\ n = m + Len(text)
  OBVIOUS
<1> HIDE DEF k, m, n
<1>6. ASSUME NEW p \in k + 1 .. m PROVE s[p] = 48
  <2>0. Rest(c) \in Nat /\ Len(f) \in Nat /\ Rest(c) <= Len(f)
    BY <1>1
  <2>1. p - k \in 1 .. Rest(c) /\ p \in k + 1 .. k + Len(f)
    BY <1>5, <1>50, <2>0
  <2> QED
    BY <1>1, <1>4, <2>1
<1>7. ASSUME NEW p \in m + 1 .. n PROVE s[p] = text[p - m]
  <2>1. p - k \in Rest(c) + 1 .. Len(f)
    <3>1. p \in Int /\ p >= m + 1 /\ p <= n
      BY <1>5
    <3>2. p - k >= Rest(c) + 1
      <4>1. \A a, b, d, e \in Int : a >= b + 1 /\ b = d + e => a - d >= e + 1
        OBVIOUS
      <4> HIDE DEF j
      <4>2. p \in Int /\ k \in Int /\ m \in Int /\ Rest(c) \in Int
        BY <1>1, <1>5, <3>1
      <4> QED
        BY <1>50, <3>1, <4>1, <4>2, Zenon
    <3>3. p - k <= Len(f)
      BY <1>1, <1>5, <1>50, <3>1
    <3> QED
      BY <1>1, <1>5, <3>1, <3>2, <3>3
  <2>2. p \in k + 1 .. k + Len(f)
    BY <1>1, <1>5, <1>50
  <2>3. (p - k) - Rest(c) = p - m
    BY <1>1, <1>5, <1>50
  <2> QED
    BY <1>1, <1>4, <2>1, <2>2, <2>3
<1>8. ASSUME NEW p \in n + 1 .. Len(s) PROVE s[p] = 32
  <2>1. p - n \in 1 .. Len(t)
    BY <1>2, <1>4, <1>5
  <2>2. s[p] = t[p - n]
    BY <1>4, <1>5
  <2> QED
    BY <1>2, <2>1, <2>2
<1>9. \A p \in 1 .. 0 : s[p] = 32
  OBVIOUS
<1>10. \A p \in 0 + 1 .. j : s[p] = sign[p - 0]
  BY <1>4, <1>5
<1>11. Parts(s, 0, sign, prefix, Rest(c), text, Rest(rest))
  <2>1. Len(s) = n + Rest(rest)
    BY <1>2, <1>4, <1>5
  <2> QED
    BY <1>1, <1>2, <1>4, <1>6, <1>7, <1>8, <1>9, <1>10, <2>1 DEF Parts, k, m, n
<1> QED
  BY <1>11 DEF s, f, t

\* s is sign, prefix, zeros, and zeros before a text, one after the other.
LEMMA ZeroParts ==
  ASSUME NEW sign \in Seq(Nat), NEW prefix \in Seq(Nat), NEW c \in Int, NEW text \in Seq(Nat), NEW rest \in Int
  PROVE  Parts(sign \o prefix \o Times(48, rest) \o (Times(48, c) \o text), 0, sign, prefix, Rest(rest) + Rest(c), text, 0)
<1> DEFINE f == Times(48, c) \o text
           t == Times(48, rest)
           s == sign \o prefix \o t \o f
<1>1. /\ f \in Seq(Nat) /\ Len(f) = Rest(c) + Len(text) /\ Rest(c) \in Nat /\ Len(text) \in Nat
      /\ \A p \in 1 .. Rest(c) : f[p] = 48
      /\ \A p \in Rest(c) + 1 .. Len(f) : f[p] = text[p - Rest(c)]
  BY PaddedFigures
<1>2. t \in Seq(Nat) /\ Len(t) = Rest(rest) /\ Rest(rest) \in Nat /\ \A p \in 1 .. Len(t) : t[p] = 48
  <2>1. 48 \in Nat
    OBVIOUS
  <2> QED
    BY <2>1, TimesRest, Zenon
<1> HIDE DEF f, t
<1>3. Chain(s, sign, prefix, t, f)
  BY <1>1, <1>2, Chains
<1> HIDE DEF s
<1>40. s \in Seq(Nat) /\ Len(sign) \in Nat /\ Len(prefix) \in Nat /\ Len(t) \in Nat /\ Len(f) \in Nat
       /\ Len(s) = Len(sign) + Len(prefix) + Len(t) + Len(f)
  BY <1>3 DEF Chain
<1>41. PICK j \in Nat : j = Len(sign)
  BY <1>40
<1>42. PICK k \in Nat : k = j + Len(prefix)
  BY <1>40
<1>50. PICK lf, lt, lc, lx \in Nat : lf = Len(f) /\ lt = Len(t) /\ lc = Rest(c) /\ lx = Len(text) /\ lf = lc + lx
  BY <1>1, <1>40
<1>48. lf \in Nat /\ lt \in Nat /\ lc \in Nat /\ lx \in Nat /\ lf = lc + lx
  BY <1>50
<1>49. k \in Nat
  OBVIOUS
<1>43. PICK z \in Nat : z = lt + lc
  OBVIOUS
<1>44. PICK m \in Nat : m = k + z
  OBVIOUS
<1>45. PICK n \in Nat : n = m + lx
  OBVIOUS
<1>46. k \in Nat /\ m \in Nat /\ n \in Nat /\ m = k + lt + lc /\ n = k + lt + lc + lx /\ n = k + lt + lf
  BY <1>43, <1>44, <1>45, <1>48, <1>49
<1>56. Len(s) = n
  <2>1. Len(s) = j + Len(prefix) + lt + lf
    BY <1>40, <1>41, <1>50
  <2>2. Len(s) = k + lt + lf
    BY <1>40, <1>42, <2>1
  <2> QED
    BY <1>46, <2>2
<1>4. j = Len(sign) /\ k = j + Len(prefix) /\ z = Len(t) + Rest(c) /\ m = k + z /\ n = m + Len(text)
  BY <1>41, <1>42, <1>43, <1>44, <1>45, <1>50
<1>5. /\ s \in Seq(Nat) /\ Len(sign) \in Nat /\ Len(prefix) \in Nat /\ Len(s) = k + Len(t) + Len(f)
      /\ \A p \in 1 .. j : s[p] = sign[p]
      /\ \A p \in j + 1 .. k : s[p] = prefix[p - j]
      /\ \A p \in k + 1 .. k + Len(t) : s[p] = t[p - k]
      /\ \A p \in k + Len(t) + 1 .. Len(s) : s[p] = f[p - (k + Len(t))]
  BY <1>3, <1>41, <1>42 DEF Chain
<1>6. Len(t) \in Nat /\ Len(s) = n
  BY <1>40, <1>56
<1>7. ASSUME NEW p \in k + 1 .. m PROVE s[p] = 48
  <2>1. CASE p <= k + Len(t)
    <3>1. p \in k + 1 .. k + Len(t) /\ p - k \in 1 .. Len(t)
      BY <1>6, <2>1
    <3>2. s[p] = t[p - k]
      BY <1>5, <3>1
    <3> QED
      BY <1>2, <3>1, <3>2
  <2>2. CASE p > k + Len(t)
    <3> DEFINE q == p - (k + Len(t))
    <3>1. p \in k + Len(t) + 1 .. Len(s) /\ q \in 1 .. Rest(c)
      <4>1. p \in k + lt + 1 .. n /\ p - (k + lt) \in 1 .. lc
        <5>1. p > k + lt
          BY <1>50, <2>2
        <5> QED
          BY <1>46, <1>48, <5>1
      <4> QED
        BY <1>50, <1>56, <4>1
    <3>2. s[p] = f[q]
      BY <1>5, <3>1
    <3> HIDE DEF q
    <3> QED
      BY <1>1, <3>1, <3>2
  <2> QED
    BY <1>6, <2>1, <2>2
<1>8. ASSUME NEW p \in m + 1 .. n PROVE s[p] = text[p - m]
  <2> DEFINE q == p - (k + Len(t))
  <2>1. p \in k + Len(t) + 1 .. Len(s) /\ q \in Rest(c) + 1 .. Len(f) /\ q - Rest(c) = p - m
    <3>1. p \in k + lt + 1 .. n /\ p - (k + lt) \in lc + 1 .. lf /\ (p - (k + lt)) - lc = p - m
      BY <1>46, <1>48
    <3> QED
      BY <1>50, <1>56, <3>1
  <2>2. s[p] = f[q]
    BY <1>5, <2>1
  <2> HIDE DEF q
  <2> QED
    BY <1>1, <2>1, <2>2
<1>9. Parts(s, 0, sign, prefix, z, text, 0)
  <2>1. 0 + Len(sign) = j /\ Len(s) = n + 0
    BY <1>4, <1>56
  <2>2. \A p \in 1 .. 0 : s[p] = 32
    OBVIOUS
  <2>3. \A p \in 0 + 1 .. j : s[p] = sign[p - 0]
    BY <1>5, <1>6
  <2>4. \A p \in n + 1 .. Len(s) : s[p] = 32
    BY <1>6
  <2> QED
    BY <1>4, <1>5, <1>6, <1>7, <1>8, <2>1, <2>2, <2>3, <2>4 DEF Parts
<1> QED
  BY <1>2, <1>4, <1>9 DEF s, f, t

LEMMA BlankParts ==
  ASSUME NEW sign \in Seq(Nat), NEW prefix \in Seq(Nat), NEW c \in Int, NEW text \in Seq(Nat), NEW rest \in Int
  PROVE  Parts(Times(32, rest) \o sign \o prefix \o (Times(48, c) \o text), Rest(rest), sign, prefix, Rest(c), text, 0)
<1> DEFINE f == Times(48, c) \o text
           t == Times(32, rest)
           s == t \o sign \o prefix \o f
<1>1. /\ f \in Seq(Nat) /\ Len(f) = Rest(c) + Len(text) /\ Rest(c) \in Nat /\ Len(text) \in Nat
      /\ \A p \in 1 .. Rest(c) : f[p] = 48
      /\ \A p \in Rest(c) + 1 .. Len(f) : f[p] = text[p - Rest(c)]
  BY PaddedFigures
<1>2. t \in Seq(Nat) /\ Len(t) = Rest(rest) /\ Rest(rest) \in Nat /\ \A p \in 1 .. Len(t) : t[p] = 32
  <2>1. 32 \in Nat
    OBVIOUS
  <2> QED
    BY <2>1, TimesRest, Zenon
<1> HIDE DEF f, t
<1>3. Chain(s, t, sign, prefix, f)
  BY <1>1, <1>2, Chains
<1> HIDE DEF s
<1>40. s \in Seq(Nat) /\ Len(sign) \in Nat /\ Len(prefix) \in Nat /\ Len(t) \in Nat /\ Len(f) \in Nat
       /\ Len(s) = Len(t) + Len(sign) + Len(prefix) + Len(f)
  BY <1>3 DEF Chain
<1>41. PICK r \in Nat : r = Len(t)
  BY <1>40
<1>47. PICK j \in Nat : j = r + Len(sign)
  BY <1>40
<1>42. PICK k \in Nat : k = j + Len(prefix)
  BY <1>40
<1>50. PICK lf, lc, lx \in Nat : lf = Len(f) /\ lc = Rest(c) /\ lx = Len(text) /\ lf = lc + lx
  BY <1>1, <1>40
<1>48. lf \in Nat /\ lc \in Nat /\ lx \in Nat /\ lf = lc + lx
  BY <1>50
<1>49. k \in Nat
  OBVIOUS
<1>43. PICK z \in Nat : z = lc
  OBVIOUS
<1>44. PICK m \in Nat : m = k + z
  OBVIOUS
<1>45. PICK n \in Nat : n = m + lx
  OBVIOUS
<1>46. k \in Nat /\ m \in Nat /\ n \in Nat /\ m = k + lc /\ n = k + lc + lx /\ n = k + lf
  BY <1>43, <1>44, <1>45, <1>48, <1>49
<1>56. Len(s) = n
  BY <1>40, <1>41, <1>42, <1>43, <1>44, <1>45, <1>47, <1>50, <1>46
<1>4. r = Len(t) /\ j = r + Len(sign) /\ k = j + Len(prefix) /\ z = Rest(c) /\ m = k + z /\ n = m + Len(text)
  BY <1>41, <1>42, <1>43, <1>44, <1>45, <1>47, <1>50
<1>5. /\ s \in Seq(Nat) /\ r \in Nat /\ Len(sign) \in Nat /\ Len(prefix) \in Nat /\ Len(s) = k + Len(f)
      /\ \A p \in 1 .. r : s[p] = t[p]
      /\ \A p \in r + 1 .. j : s[p] = sign[p - r]
      /\ \A p \in j + 1 .. k : s[p] = prefix[p - j]
      /\ \A p \in k + 1 .. Len(s) : s[p] = f[p - k]
  BY <1>3, <1>40, <1>41, <1>42, <1>47 DEF Chain
<1>6. Len(s) = n
  BY <1>56
<1>7. ASSUME NEW p \in k + 1 .. m PROVE s[p] = 48
  <2> DEFINE q == p - k
  <2>1. p \in k + 1 .. Len(s) /\ q \in 1 .. Rest(c)
    <3>1. p \in k + 1 .. n /\ p - k \in 1 .. lc
      BY <1>46, <1>48
    <3> QED
      BY <1>50, <1>56, <3>1
  <2>2. s[p] = f[q]
    BY <1>5, <2>1
  <2> HIDE DEF q
  <2> QED
    BY <1>1, <2>1, <2>2
<1>8. ASSUME NEW p \in m + 1 .. n PROVE s[p] = text[p - m]
  <2> DEFINE q == p - k
  <2>1. p \in k + 1 .. Len(s) /\ q \in Rest(c) + 1 .. Len(f) /\ q - Rest(c) = p - m
    <3>1. p \in k + 1 .. n /\ p - k \in lc + 1 .. lf /\ (p - k) - lc = p - m
      BY <1>46, <1>48
    <3> QED
      BY <1>50, <1>56, <3>1
  <2>2. s[p] = f[q]
    BY <1>5, <2>1
  <2> HIDE DEF q
  <2> QED
    BY <1>1, <2>1, <2>2
<1>9. Parts(s, r, sign, prefix, z, text, 0)
  <2>1. Len(s) = n + 0
    BY <1>6
  <2>2. \A p \in 1 .. r : s[p] = 32
    BY <1>2, <1>4, <1>5
  <2>4. \A p \in n + 1 .. Len(s) : s[p] = 32
    BY <1>6
  <2> QED
    BY <1>1, <1>4, <1>5, <1>6, <1>7, <1>8, <2>1, <2>2, <2>4 DEF Parts
<1> QED
  BY <1>2, <1>4, <1>9 DEF s, f, t

\* A sign is nothing, a blank, a plus or a minus.
IsSign(sign) == sign \in Seq(Nat) /\ (Len(sign) = 0 \/ (Len(sign) = 1 /\ sign[1] \in {32, 43, 45}))
SignCode(sign) == IF Len(sign) = 0 \/ sign[1] = 32 THEN 0 ELSE sign[1]
IsBasePrefix(prefix) ==
  prefix \in Seq(Nat) /\ (Len(prefix) = 0 \/ (Len(prefix) = 1 /\ prefix[1] = 48)
                          \/ (Len(prefix) = 2 /\ prefix[1] = 48 /\ prefix[2] = 120))

LEMMA SignFacts ==
  ASSUME NEW num \in Int, NEW flags
  PROVE  /\ IsSign(Sign(num, flags)) /\ SignCode(Sign(num, flags)) \in {0, 43, 45}
         /\ SignCode(Sign(num, flags)) = 45 <=> "SIGN" \in flags /\ num < 0
         /\ Sign(num, flags) = <<45>> <=> "SIGN" \in flags /\ num < 0
         /\ Len(Sign(num, flags)) = 1 /\ Sign(num, flags)[1] = 32 => "SPACE" \in flags
<1> DEFINE s == Sign(num, flags)
<1>1. s = <<>> \/ s = <<45>> \/ s = <<43>> \/ (s = <<32>> /\ "SPACE" \in flags)
  BY DEF Sign
<1>2. s = <<45>> <=> "SIGN" \in flags /\ num < 0
  BY DEF Sign
<1> HIDE DEF s
<1>3. CASE s = <<>>
  <2>1. s \in Seq(Nat) /\ Len(s) = 0 /\ s # <<45>>
    BY <1>3
  <2> QED
    BY <1>2, <2>1 DEF IsSign, SignCode, s
<1>4. CASE s = <<45>>
  <2>1. s \in Seq(Nat) /\ Len(s) = 1 /\ s[1] = 45
    BY <1>4
  <2> QED
    BY <1>2, <1>4, <2>1 DEF IsSign, SignCode, s
<1>5. CASE s = <<43>>
  <2>1. s \in Seq(Nat) /\ Len(s) = 1 /\ s[1] = 43 /\ s # <<45>>
    BY <1>5
  <2> QED
    BY <1>2, <2>1 DEF IsSign, SignCode, s
<1>6. CASE s = <<32>> /\ "SPACE" \in flags
  <2>1. s \in Seq(Nat) /\ Len(s) = 1 /\ s[1] = 32 /\ s # <<45>>
    BY <1>6
  <2> QED
    BY <1>2, <1>6, <2>1 DEF IsSign, SignCode, s
<1> QED
  BY <1>1, <1>3, <1>4, <1>5, <1>6

LEMMA PrefixFacts ==
  ASSUME NEW base \in Bases, NEW flags
  PROVE  IsBasePrefix(Prefix(base, flags)) /\ (Len(Prefix(base, flags)) = 2 => base = 16)
<1> DEFINE s == Prefix(base, flags)
<1>1. s = <<>> \/ s = <<48>> \/ (s = <<48, 120>> /\ base = 16)
  <2>1. CASE "SPECIAL" \notin flags
    BY <2>1 DEF Prefix
  <2>2. CASE base = 8
    BY <2>2 DEF Prefix
  <2>3. CASE "SPECIAL" \in flags /\ base # 8
    BY <2>3 DEF Prefix, Bases
  <2> QED
    BY <2>1, <2>2, <2>3
<1> HIDE DEF s
<1>3. CASE s = <<>>
  <2>1. s \in Seq(Nat) /\ Len(s) = 0
    BY <1>3
  <2> QED
    BY <2>1 DEF IsBasePrefix, s
<1>4. CASE s = <<48>>
  <2>1. s \in Seq(Nat) /\ Len(s) = 1 /\ s[1] = 48
    BY <1>4
  <2> QED
    BY <2>1 DEF IsBasePrefix, s
<1>5. CASE s = <<48, 120>> /\ base = 16
  <2>1. s \in Seq(Nat) /\ Len(s) = 2 /\ s[1] = 48 /\ s[2] = 120
    BY <1>5
  <2> QED
    BY <1>5, <2>1 DEF IsBasePrefix, s
<1> QED
  BY <1>1, <1>3, <1>4, <1>5

\* Characters of a 0x.
Hex(prefix) == IF Len(prefix) = 2 THEN 2 ELSE 0

\* A blank sign is one more blank, the 0 of an octal number one more zero.
LEMMA PartsLaid ==
  ASSUME NEW s, NEW r, NEW sign, NEW prefix, NEW z, NEW text, NEW e,
         Parts(s, r, sign, prefix, z, text, e), IsSign(sign), IsBasePrefix(prefix)
  PROVE  \E b, y : Laid(s, b, SignCode(sign), Hex(prefix), y, text, e)
<1>1. PICK j, k, m, n : j = r + Len(sign) /\ k = j + Len(prefix) /\ m = k + z /\ n = m + Len(text)
  OBVIOUS
<1>2. /\ s \in Seq(Nat) /\ r \in Nat /\ z \in Nat /\ e \in Nat /\ text \in Seq(Nat) /\ Len(s) = n + e
      /\ \A p \in 1 .. r : s[p] = 32
      /\ \A p \in r + 1 .. j : s[p] = sign[p - r]
      /\ \A p \in j + 1 .. k : s[p] = prefix[p - j]
      /\ \A p \in k + 1 .. m : s[p] = 48
      /\ \A p \in m + 1 .. n : s[p] = text[p - m]
      /\ \A p \in n + 1 .. Len(s) : s[p] = 32
  BY <1>1 DEF Parts
<1>3. Len(sign) \in Nat /\ Len(prefix) \in Nat /\ Len(text) \in Nat
  BY <1>2 DEF IsSign, IsBasePrefix
<1>4. j \in Nat
  BY <1>1, <1>2, <1>3
<1>5. k \in Nat
  BY <1>1, <1>3, <1>4
<1>6. m \in Nat
  BY <1>1, <1>2, <1>5
<1> DEFINE code == SignCode(sign)
<1>7. PICK b \in Nat : b + SignLength(code) = j /\ (\A p \in 1 .. b : s[p] = 32) /\ (code # 0 => s[j] = code)
  <2>1. CASE Len(sign) = 0
    <3>1. code = 0 /\ r = j
      BY <1>1, <1>2, <2>1 DEF SignCode
    <3> QED
      BY <1>2, <1>4, <3>1 DEF SignLength
  <2>2. CASE Len(sign) = 1
    <3>1. j = r + 1 /\ sign[1] \in {32, 43, 45}
      BY <1>1, <2>2 DEF IsSign
    <3>2. s[j] = sign[1]
      <4>1. j \in r + 1 .. j /\ j - r = 1
        BY <1>2, <3>1
      <4> QED
        BY <1>2, <4>1
    <3>3. CASE sign[1] = 32
      <4>1. code = 0
        BY <3>3 DEF SignCode
      <4>2. ASSUME NEW p \in 1 .. j PROVE s[p] = 32
        <5>1. p \in 1 .. r \/ p = j
          BY <1>2, <3>1
        <5> QED
          BY <1>2, <3>2, <3>3, <5>1
      <4>3. j + SignLength(code) = j
        BY <1>4, <4>1 DEF SignLength
      <4> QED
        BY <1>4, <4>1, <4>2, <4>3
    <3>4. CASE sign[1] # 32
      <4>1. code = sign[1] /\ code # 0
        BY <2>2, <3>1, <3>4 DEF SignCode
      <4>2. r + SignLength(code) = j
        BY <3>1, <4>1 DEF SignLength
      <4>3. code # 0 => s[j] = code
        BY <3>2, <4>1
      <4> HIDE DEF code
      <4>4. r \in Nat
        BY <1>2
      <4> WITNESS r \in Nat
      <4> QED
        BY <1>2, <4>2, <4>3
    <3> QED
      BY <3>3, <3>4
  <2> QED
    BY <2>1, <2>2 DEF IsSign
<1> DEFINE hex == Hex(prefix)
<1>8. PICK i, y \in Nat : /\ i = j + hex /\ i + y = m
                          /\ \A p \in i + 1 .. m : s[p] = 48
                          /\ hex = 2 => s[j + 1] = 48 /\ s[j + 2] = 120
  <2>1. CASE Len(prefix) = 0
    <3>1. k = j + hex /\ k + z = m /\ hex = 0
      BY <1>1, <1>4, <2>1 DEF Hex
    <3> HIDE DEF hex
    <3>2. k \in Nat
      BY <1>5
    <3>3. z \in Nat
      BY <1>2
    <3> WITNESS k \in Nat, z \in Nat
    <3> QED
      BY <1>2, <3>1
  <2>2. CASE Len(prefix) = 1
    <3>1. k = j + 1 /\ prefix[1] = 48
      BY <1>1, <2>2 DEF IsBasePrefix
    <3>2. s[k] = 48
      <4>1. k \in j + 1 .. k /\ k - j = 1
        BY <1>4, <3>1
      <4> QED
        BY <1>2, <3>1, <4>1
    <3>3. ASSUME NEW p \in j + 1 .. m PROVE s[p] = 48
      <4>1. p = k \/ p \in k + 1 .. m
        BY <1>4, <1>6, <3>1
      <4> QED
        BY <1>2, <3>2, <4>1
    <3>4. j + (z + 1) = m /\ z + 1 \in Nat /\ j = j + hex
      BY <1>1, <1>2, <1>4, <2>2, <3>1 DEF Hex
    <3>5. hex # 2
      BY <2>2 DEF Hex
    <3> HIDE DEF hex
    <3> QED
      BY <1>4, <3>3, <3>4, <3>5
  <2>3. CASE Len(prefix) = 2
    <3>1. k = j + 2 /\ prefix[1] = 48 /\ prefix[2] = 120
      BY <1>1, <2>3 DEF IsBasePrefix
    <3>2. s[j + 1] = 48
      <4>1. j + 1 \in j + 1 .. k /\ (j + 1) - j = 1
        BY <1>4, <3>1
      <4> QED
        BY <1>2, <3>1, <4>1
    <3>3. s[j + 2] = 120
      <4>1. j + 2 \in j + 1 .. k /\ (j + 2) - j = 2
        BY <1>4, <3>1
      <4> QED
        BY <1>2, <3>1, <4>1
    <3>4. k = j + hex /\ k + z = m
      BY <1>1, <2>3, <3>1 DEF Hex
    <3> HIDE DEF hex
    <3>5. k \in Nat
      BY <1>5
    <3>6. z \in Nat
      BY <1>2
    <3> WITNESS k \in Nat, z \in Nat
    <3> QED
      BY <1>2, <3>2, <3>3, <3>4
  <2> QED
    BY <2>1, <2>2, <2>3 DEF IsBasePrefix
<1>9. Prefixed(b, code, hex) = i /\ b + SignLength(code) = j
  BY <1>7, <1>8 DEF Prefixed
<1>10. Laid(s, b, code, hex, y, text, e)
  <2> HIDE DEF code, hex
  <2> DEFINE P == Prefixed(b, code, hex)
  <2>1. P = i /\ P + y = m /\ P + y + Len(text) = n
    BY <1>1, <1>8, <1>9
  <2>2. \A p \in P + 1 .. P + y : s[p] = 48
    BY <1>8, <2>1
  <2>3. \A p \in P + y + 1 .. P + y + Len(text) : s[p] = text[p - (P + y)]
    BY <1>2, <2>1
  <2>4. /\ \A p \in P + y + Len(text) + 1 .. Len(s) : s[p] = 32
        /\ Len(s) = P + y + Len(text) + e
    BY <1>2, <2>1
  <2>5. code # 0 => s[b + SignLength(code)] = code
    BY <1>7
  <2>6. hex = 2 => s[b + SignLength(code) + 1] = 48 /\ s[b + SignLength(code) + 2] = 120
    BY <1>7, <1>8
  <2>7. s \in Seq(Nat) /\ b \in Nat /\ y \in Nat /\ e \in Nat /\ \A p \in 1 .. b : s[p] = 32
    BY <1>2, <1>7
  <2> QED
    BY <2>2, <2>3, <2>4, <2>5, <2>6, <2>7, Zenon DEF Laid
<1> QED
  BY <1>10

\* A number stands in a field as wide as asked; if it is wider, it has no blanks.
Justified(s, size, r, sign, prefix, z, text, e) ==
  /\ Parts(s, r, sign, prefix, z, text, e)
  /\ Len(s) >= size /\ (Len(s) > size => r = 0 /\ e = 0)

LEMMA PartsLength ==
  ASSUME NEW s, NEW r, NEW sign, NEW prefix, NEW z, NEW text, NEW e, Parts(s, r, sign, prefix, z, text, e)
  PROVE  Len(s) = r + Len(sign) + Len(prefix) + z + Len(text) + e
BY DEF Parts

LEMMA FillsField ==
  ASSUME NEW size \in Int, NEW a \in Nat, NEW b \in Nat, NEW f \in Nat
  PROVE  LET rest == Rest(size - a - b - f)
             all == a + b + f + rest
         IN rest \in Nat /\ all >= size /\ (all > size => rest = 0)
BY DEF Rest

LEMMA NumberJustified ==
  ASSUME NEW num \in Int, NEW base \in Bases, NEW size \in Int, NEW precision \in Int, NEW type
  PROVE  LET sign == Sign(num, type)
             digits == Digits(Wrapped(IF sign = <<45>> THEN -num ELSE num, LongLong), base, Ten("LARGE" \in type))
         IN \E r, z, e : Justified(number(num, base, size, precision, type), size,
                                   r, sign, Prefix(base, type), z, digits, e)
<1> DEFINE sign == Sign(num, type)
           prefix == Prefix(base, type)
           digits == Digits(Wrapped(IF sign = <<45>> THEN -num ELSE num, LongLong), base, Ten("LARGE" \in type))
           c == precision - Len(digits)
           figures == Times(48, c) \o digits
           rest == size - Len(sign) - Len(prefix) - Len(figures)
           s == number(num, base, size, precision, type)
<1>1. sign \in Seq(Nat) /\ Len(sign) \in Nat
  <2>1. IsSign(sign)
    BY SignFacts
  <2> QED
    BY <2>1 DEF IsSign
<1>2. prefix \in Seq(Nat) /\ Len(prefix) \in Nat
  <2>1. IsBasePrefix(prefix)
    BY PrefixFacts
  <2> QED
    BY <2>1 DEF IsBasePrefix
<1>3. digits \in Seq(Nat) /\ Len(digits) \in Nat
  <2>1. ASSUME NEW n \in Int PROVE Wrapped(n, LongLong) \in Nat
    <3>1. Pow2[LongLong] \in Nat \ {0}
      BY Pow2Type, PrintfAssumption
    <3> QED
      BY <3>1, DivFacts DEF Wrapped
  <2>2. Wrapped(IF sign = <<45>> THEN -num ELSE num, LongLong) \in Nat
    <3>1. -num \in Int
      OBVIOUS
    <3>2. CASE sign = <<45>>
      BY <2>1, <3>1, <3>2, Zenon
    <3>3. CASE sign # <<45>>
      BY <2>1, <3>3, Zenon
    <3> QED
      BY <3>2, <3>3
  <2>3. Ten("LARGE" \in type) \in Tens /\ base \in Nat \ {0, 1}
    BY DEF Ten, Tens, Bases
  <2>4. \E w : Valued(digits, w, base, Wrapped(IF sign = <<45>> THEN -num ELSE num, LongLong), Ten("LARGE" \in type))
    BY <2>2, <2>3, DigitsAre, Zenon
  <2> HIDE DEF digits
  <2> QED
    BY <2>4 DEF Valued
<1>4. c \in Int
  BY <1>3
<1>5. s = IF "LEFT" \in type THEN sign \o prefix \o figures \o Times(32, rest)
          ELSE IF "ZEROPAD" \in type THEN sign \o prefix \o Times(48, rest) \o figures
          ELSE Times(32, rest) \o sign \o prefix \o figures
  BY Zenon DEF number
<1> HIDE DEF sign, prefix, digits, s
<1>6. figures \in Seq(Nat) /\ Len(figures) = Rest(c) + Len(digits) /\ Rest(c) \in Nat
  BY <1>3, <1>4, PaddedFigures, Zenon
<1>7. rest \in Int
  BY <1>1, <1>2, <1>3, <1>6
<1>8. PICK a, b, f \in Nat : a = Len(sign) /\ b = Len(prefix) /\ f = Len(figures) /\ f = Rest(c) + Len(digits)
  BY <1>1, <1>2, <1>3, <1>6
<1>9. Rest(rest) \in Nat /\ a + b + f + Rest(rest) >= size /\ (a + b + f + Rest(rest) > size => Rest(rest) = 0)
  <2>1. rest = size - a - b - f
    BY <1>8
  <2> HIDE DEF rest
  <2> QED
    BY <2>1, FillsField
<1> HIDE DEF c, rest
<1>10. CASE "LEFT" \in type
  <2>1. Parts(s, 0, sign, prefix, Rest(c), digits, Rest(rest))
    BY <1>1, <1>2, <1>3, <1>4, <1>5, <1>7, <1>10, LeftParts, Zenon
  <2>2. Len(s) = 0 + Len(sign) + Len(prefix) + Rest(c) + Len(digits) + Rest(rest)
    BY <2>1, PartsLength
  <2>3. Len(s) = a + b + f + Rest(rest)
    BY <1>3, <1>6, <1>8, <1>9, <2>2
  <2>4. Justified(s, size, 0, sign, prefix, Rest(c), digits, Rest(rest))
    BY <1>9, <2>1, <2>3 DEF Justified
  <2> QED
    BY <2>4, Zenon DEF s, digits, sign, prefix
<1>11. CASE "LEFT" \notin type /\ "ZEROPAD" \in type
  <2>1. Parts(s, 0, sign, prefix, Rest(rest) + Rest(c), digits, 0)
    BY <1>1, <1>2, <1>3, <1>4, <1>5, <1>7, <1>11, ZeroParts, Zenon
  <2>2. Len(s) = 0 + Len(sign) + Len(prefix) + (Rest(rest) + Rest(c)) + Len(digits) + 0
    BY <2>1, PartsLength
  <2>3. Len(s) = a + b + f + Rest(rest)
    BY <1>3, <1>6, <1>8, <1>9, <2>2
  <2>4. Justified(s, size, 0, sign, prefix, Rest(rest) + Rest(c), digits, 0)
    BY <1>9, <2>1, <2>3 DEF Justified
  <2> QED
    BY <2>4, Zenon DEF s, digits, sign, prefix
<1>12. CASE "LEFT" \notin type /\ "ZEROPAD" \notin type
  <2>1. Parts(s, Rest(rest), sign, prefix, Rest(c), digits, 0)
    BY <1>1, <1>2, <1>3, <1>4, <1>5, <1>7, <1>12, BlankParts, Zenon
  <2>2. Len(s) = Rest(rest) + Len(sign) + Len(prefix) + Rest(c) + Len(digits) + 0
    BY <2>1, PartsLength
  <2>3. Len(s) = a + b + f + Rest(rest)
    <3>1. PICK x, y, g \in Nat : x = Rest(rest) /\ y = Rest(c) /\ g = Len(digits)
      BY <1>3, <1>6, <1>9
    <3>2. Len(s) = x + a + b + y + g + 0
      BY <1>8, <2>2, <3>1
    <3>3. f = y + g
      BY <1>8, <3>1
    <3>4. Len(s) = a + b + f + x
      BY <3>2, <3>3
    <3> QED
      BY <3>1, <3>4
  <2>4. Justified(s, size, Rest(rest), sign, prefix, Rest(c), digits, 0)
    BY <1>9, <2>1, <2>3 DEF Justified
  <2> QED
    BY <2>4, Zenon DEF s, digits, sign, prefix
<1> QED
  BY <1>10, <1>11, <1>12

LEMMA PartsUnblank ==
  ASSUME NEW s, NEW r, NEW sign, NEW prefix, NEW z, NEW text, NEW e,
         Parts(s, r, sign, prefix, z, text, e), r = 0, e = 0, IsSign(sign), IsBasePrefix(prefix),
         ~(Len(sign) = 1 /\ sign[1] = 32), \A i \in 1 .. Len(text) : text[i] # 32
  PROVE  \A i \in 1 .. Len(s) : s[i] # 32
<1>1. PICK j, k, m, n : j = r + Len(sign) /\ k = j + Len(prefix) /\ m = k + z /\ n = m + Len(text)
  OBVIOUS
<1>2. /\ s \in Seq(Nat) /\ r \in Nat /\ z \in Nat /\ e \in Nat /\ text \in Seq(Nat) /\ Len(s) = n + e
      /\ \A p \in r + 1 .. j : s[p] = sign[p - r]
      /\ \A p \in j + 1 .. k : s[p] = prefix[p - j]
      /\ \A p \in k + 1 .. m : s[p] = 48
      /\ \A p \in m + 1 .. n : s[p] = text[p - m]
  BY <1>1 DEF Parts
<1>3. Len(sign) \in Nat /\ Len(prefix) \in Nat /\ Len(text) \in Nat
  BY <1>2 DEF IsSign, IsBasePrefix
<1>4. j \in Nat /\ j = Len(sign)
  BY <1>1, <1>2, <1>3
<1>5. k \in Nat
  BY <1>1, <1>3, <1>4
<1>6. m \in Nat
  BY <1>1, <1>2, <1>5
<1>7. n \in Nat /\ Len(s) = n
  BY <1>1, <1>2, <1>3, <1>6
<1> SUFFICES ASSUME NEW i \in 1 .. Len(s) PROVE s[i] # 32
  OBVIOUS
<1>8. CASE i <= j
  <2>1. i = 1 /\ Len(sign) = 1
    BY <1>3, <1>4, <1>8 DEF IsSign
  <2>2. i \in r + 1 .. j /\ i - r = 1
    BY <1>4, <1>8, <2>1
  <2> QED
    BY <1>2, <2>1, <2>2
<1>9. CASE j < i /\ i <= k
  <2>1. i \in j + 1 .. k
    BY <1>4, <1>5, <1>9
  <2>2. s[i] = prefix[i - j]
    BY <1>2, <2>1
  <2>3. i - j \in 1 .. Len(prefix)
    BY <1>1, <1>3, <1>4, <2>1
  <2>4. \A p \in 1 .. Len(prefix) : prefix[p] # 32
    BY DEF IsBasePrefix
  <2> QED
    BY <2>2, <2>3, <2>4
<1>10. CASE k < i /\ i <= m
  BY <1>2, <1>5, <1>6, <1>10
<1>11. CASE m < i
  <2>1. i \in m + 1 .. n
    BY <1>6, <1>7, <1>11
  <2>2. s[i] = text[i - m]
    BY <1>2, <2>1
  <2>3. i - m \in 1 .. Len(text)
    BY <1>1, <1>3, <1>6, <2>1
  <2> QED
    BY <2>2, <2>3
<1> QED
  BY <1>4, <1>5, <1>6, <1>8, <1>9, <1>10, <1>11

LEMMA WrappedType ==
  ASSUME NEW n \in Int, NEW bits \in Nat
  PROVE  Wrapped(n, bits) \in 0 .. Pow2[bits] - 1 /\ Pow2[bits] \in Nat \ {0}
<1>1. Pow2[bits] \in Nat \ {0}
  BY Pow2Type
<1> QED
  BY <1>1, DivFacts DEF Wrapped

Minus(num, type) == "SIGN" \in type /\ num < 0

\* What strtol reads of what number has written, and how long that is.
LEMMA NumberRead ==
  ASSUME NEW num \in Int, NEW base \in Bases, NEW size \in Int, NEW precision \in Int, NEW type
  PROVE  LET s == number(num, base, size, precision, type)
         IN /\ s \in Seq(Nat)
            /\ Minus(num, type) => strtol(s, base) = Nearest(-Wrapped(-num, LongLong))
            /\ ~Minus(num, type) => strtol(s, base) = Nearest(Wrapped(num, LongLong))
            /\ Len(s) >= size
            /\ Len(s) > size /\ "SPACE" \notin type => \A i \in 1 .. Len(s) : s[i] # 32
<1> DEFINE sign == Sign(num, type)
           prefix == Prefix(base, type)
           n == Wrapped(IF sign = <<45>> THEN -num ELSE num, LongLong)
           ten == Ten("LARGE" \in type)
           digits == Digits(n, base, ten)
           s == number(num, base, size, precision, type)
<1>1. PICK r, z, e : Justified(s, size, r, sign, prefix, z, digits, e)
  BY NumberJustified, Zenon
<1>2. /\ IsSign(sign) /\ SignCode(sign) \in {0, 43, 45} /\ (SignCode(sign) = 45 <=> Minus(num, type))
      /\ (sign = <<45>> <=> Minus(num, type)) /\ (Len(sign) = 1 /\ sign[1] = 32 => "SPACE" \in type)
  BY SignFacts, Zenon DEF Minus
<1>3. IsBasePrefix(prefix) /\ (Len(prefix) = 2 => base = 16)
  BY PrefixFacts, Zenon
<1>4. n \in Nat /\ (Minus(num, type) => n = Wrapped(-num, LongLong)) /\ (~Minus(num, type) => n = Wrapped(num, LongLong))
  <2>1. -num \in Int /\ LongLong \in Nat
    BY PrintfAssumption
  <2>2. Wrapped(-num, LongLong) \in Nat /\ Wrapped(num, LongLong) \in Nat
    BY <2>1, WrappedType
  <2>3. CASE Minus(num, type)
    BY <1>2, <2>2, <2>3, Zenon
  <2>4. CASE ~Minus(num, type)
    BY <1>2, <2>2, <2>4, Zenon
  <2> QED
    BY <2>3, <2>4
<1>5. ten \in Tens /\ base \in Nat \ {0, 1}
  BY DEF Ten, Tens, Bases
<1> HIDE DEF n, ten, sign, prefix, s
<1>6. PICK w : Valued(digits, w, base, n, ten)
  BY <1>4, <1>5, DigitsAre, Zenon
<1> HIDE DEF digits
<1>7. Parts(s, r, sign, prefix, z, digits, e) /\ Len(s) >= size /\ (Len(s) > size => r = 0 /\ e = 0)
  BY <1>1, Zenon DEF Justified
<1>8. s \in Seq(Nat)
  BY <1>7 DEF Parts
<1>9. PICK b, y : Laid(s, b, SignCode(sign), Hex(prefix), y, digits, e)
  BY <1>2, <1>3, <1>7, PartsLaid, Zenon
<1>10. strtol(s, base) = Nearest(WithSign(SignCode(sign), n))
  <2>1. Hex(prefix) \in {0, 2} /\ (Hex(prefix) = 2 => base = 16)
    BY <1>3 DEF Hex
  <2>2. SignCode(sign) \in {0, 43, 45} /\ ten \in Tens /\ base \in Bases
    BY <1>2, <1>5
  <2>3. Inscribed(s, b, SignCode(sign), Hex(prefix), y, digits, e, base, w, n, ten)
    BY <1>6, <1>9, <2>1, <2>2, Zenon DEF Inscribed
  <2> QED
    BY <2>3, LaidReads
<1>11. ASSUME Minus(num, type) PROVE strtol(s, base) = Nearest(-Wrapped(-num, LongLong))
  <2>1. WithSign(SignCode(sign), n) = -Wrapped(-num, LongLong)
    BY <1>2, <1>4, <1>11 DEF WithSign
  <2> QED
    BY <1>10, <1>11, <2>1
<1>12. ASSUME ~Minus(num, type) PROVE strtol(s, base) = Nearest(Wrapped(num, LongLong))
  <2>1. WithSign(SignCode(sign), n) = Wrapped(num, LongLong)
    BY <1>2, <1>4, <1>12 DEF WithSign
  <2> QED
    BY <1>10, <1>12, <2>1
<1>13. ASSUME Len(s) > size, "SPACE" \notin type PROVE \A i \in 1 .. Len(s) : s[i] # 32
  <2>1. ~(Len(sign) = 1 /\ sign[1] = 32) /\ r = 0 /\ e = 0
    BY <1>2, <1>7, <1>13
  <2>2. ASSUME NEW i \in 1 .. Len(digits) PROVE digits[i] # 32
    <3>1. digits[i] \notin {32, 43, 45, 46, 58, 88, 120}
      BY <1>5, <1>6, ValuedFigures, Zenon
    <3> QED
      BY <3>1
  <2> QED
    BY <1>2, <1>3, <1>7, <2>1, <2>2, PartsUnblank, Zenon
<1>14. /\ Minus(num, type) => strtol(s, base) = Nearest(-Wrapped(-num, LongLong))
       /\ ~Minus(num, type) => strtol(s, base) = Nearest(Wrapped(num, LongLong))
  BY <1>11, <1>12, Zenon
<1>15. Len(s) > size /\ "SPACE" \notin type => \A i \in 1 .. Len(s) : s[i] # 32
  BY <1>13
<1> QED
  BY <1>7, <1>8, <1>14, <1>15, Zenon DEF s

-------------------------------------------------------------------------------
(* The argument of a conversion *)

LEMMA Pow2Grows ==
  ASSUME NEW m \in Nat, NEW n \in Nat, m <= n
  PROVE  Pow2[m] <= Pow2[n]
<1>1. PICK k \in Nat : n = m + k
  <2>1. n - m \in Nat /\ n = m + (n - m)
    OBVIOUS
  <2> QED
    BY <2>1
<1>2. Pow2[n] = Pow2[m] * Pow2[k]
  BY <1>1, Pow2Sum
<1>3. Pow2[m] \in Nat /\ Pow2[k] \in Nat /\ 1 <= Pow2[k]
  BY Pow2Type
<1>4. Pow2[m] * 1 <= Pow2[m] * Pow2[k]
  BY <1>3, TimesMonotone
<1> QED
  BY <1>2, <1>3, <1>4

\* A word with a sign, widened.
LEMMA SignedFacts ==
  ASSUME NEW v \in Int, NEW bits \in Nat \ {0}, bits <= LongLong
  PROVE  LET n == Signed(v, bits)
         IN /\ n \in Int
            /\ n >= 0 => n = Wrapped(v, bits) /\ Wrapped(n, LongLong) = n
            /\ n < 0 => Wrapped(-n, LongLong) = -n
<1> DEFINE n == Signed(v, bits)
           w == Wrapped(v, bits)
           p == Pow2[bits]
           h == Pow2[bits - 1]
           P == Pow2[LongLong]
<1>1. bits \in Nat /\ bits - 1 \in Nat /\ LongLong \in Nat /\ (bits - 1) + 1 = bits
  BY PrintfAssumption
<1>2. p \in Nat \ {0} /\ h \in Nat \ {0} /\ P \in Nat \ {0} /\ p = 2 * h /\ p <= P
  BY <1>1, Pow2Is, Pow2Type, Pow2Grows
<1>3. w \in 0 .. p - 1
  BY <1>1, WrappedType
<1>4. n = IF w >= h THEN w - p ELSE w
  BY DEF Signed
<1> HIDE DEF n, w, p, h
<1>5. n \in Int /\ (n >= 0 => n = w /\ n \in 0 .. P - 1) /\ (n < 0 => -n \in 0 .. P - 1)
  BY <1>2, <1>3, <1>4
<1>6. ASSUME NEW x \in 0 .. P - 1 PROVE Wrapped(x, LongLong) = x
  BY <1>2, SmallMod DEF Wrapped
<1> QED
  BY <1>5, <1>6 DEF n, w

LEMMA WrappedFacts ==
  ASSUME NEW v \in Int, NEW bits \in Nat, bits <= LongLong
  PROVE  Wrapped(v, bits) \in Nat /\ Wrapped(Wrapped(v, bits), LongLong) = Wrapped(v, bits)
<1>1. Pow2[bits] <= Pow2[LongLong] /\ Pow2[LongLong] \in Nat \ {0}
  BY PrintfAssumption, Pow2Type, Pow2Grows
<1>2. Wrapped(v, bits) \in 0 .. Pow2[bits] - 1 /\ Pow2[bits] \in Nat
  BY WrappedType
<1> DEFINE w == Wrapped(v, bits)
<1> HIDE DEF w
<1>3. w \in 0 .. Pow2[LongLong] - 1
  BY <1>1, <1>2 DEF w
<1>4. w % Pow2[LongLong] = w
  BY <1>1, <1>3, SmallMod
<1> QED
  BY <1>2, <1>4 DEF w, Wrapped

LEMMA WrappedSigned ==
  ASSUME NEW v \in Int
  PROVE  Wrapped(Signed(v, LongLong), LongLong) = Wrapped(v, LongLong)
<1> DEFINE P == Pow2[LongLong]
           w == v % P
<1>1. P \in Nat \ {0}
  BY PrintfAssumption, Pow2Type
<1>2. w \in 0 .. P - 1
  BY <1>1, DivFacts
<1>3. Signed(v, LongLong) = w \/ Signed(v, LongLong) = w - P
  BY DEF Signed, Wrapped
<1> HIDE DEF P, w
<1>4. w % P = w
  BY <1>1, <1>2, SmallMod
<1>5. (w - P) % P = w
  <2>1. PICK k \in Int : k = -1
    OBVIOUS
  <2>2. w \in Int
    BY <1>2
  <2>3. (w + P * k) % P = w % P
    BY <1>1, <2>1, <2>2, ModPlus
  <2>4. w + P * k = w - P
    BY <1>1, <2>1, <2>2
  <2> QED
    BY <1>4, <2>3, <2>4
<1>6. Signed(v, LongLong) % P = w
  BY <1>3, <1>4, <1>5
<1> QED
  BY <1>6, Zenon DEF P, w, Wrapped

\* The argument that num takes for unsigned though it is negative.
Misread(c, v) == c.letter \in Decimal /\ c.qualifier = "l" /\ Signed(v, IntBits) < 0

\* What num holds is what is meant, or the word of it that is printed is.
IsArgument(num, meant, signed) ==
  /\ num \in Int /\ meant \in Int
  /\ signed /\ num < 0 => -Wrapped(-num, LongLong) = meant
  /\ ~(signed /\ num < 0) => Wrapped(num, LongLong) = meant

LEMMA WidthFacts ==
  /\ IntBits \in Nat \ {0} /\ IntBits <= LongLong /\ LongLong \in Nat \ {0}
  /\ IntBits \div 2 \in Nat \ {0} /\ IntBits \div 2 <= LongLong
<1>1. IntBits \in Nat /\ LongLong \in Nat /\ IntBits >= 2 /\ IntBits <= LongLong
  BY PrintfAssumption
<1>2. IntBits \div 2 \in Int /\ IntBits % 2 \in 0 .. 1 /\ IntBits = 2 * (IntBits \div 2) + (IntBits % 2)
  BY <1>1, DivFacts
<1> DEFINE q == IntBits \div 2
<1> HIDE DEF q
<1>3. q >= 1 /\ q <= IntBits
  BY <1>1, <1>2 DEF q
<1> QED
  BY <1>1, <1>2, <1>3 DEF q

LEMMA SignedArgument ==
  ASSUME NEW v \in Int, NEW bits \in Nat \ {0}, bits <= LongLong
  PROVE  IsArgument(Signed(v, bits), Signed(v, bits), TRUE)
<1> DEFINE n == Signed(v, bits)
<1>1. n \in Int /\ (n >= 0 => Wrapped(n, LongLong) = n) /\ (n < 0 => Wrapped(-n, LongLong) = -n)
  BY SignedFacts
<1> HIDE DEF n
<1>2. n < 0 => -Wrapped(-n, LongLong) = n
  BY <1>1
<1>3. ~(n < 0) => Wrapped(n, LongLong) = n
  BY <1>1
<1> QED
  BY <1>1, <1>2, <1>3 DEF IsArgument, n

LEMMA UnsignedArgument ==
  ASSUME NEW v \in Int, NEW bits \in Nat \ {0}, bits <= LongLong
  PROVE  \A signed \in BOOLEAN : IsArgument(Wrapped(v, bits), Wrapped(v, bits), signed)
<1> DEFINE n == Wrapped(v, bits)
<1>1. n \in Nat /\ Wrapped(n, LongLong) = n
  BY WrappedFacts
<1> HIDE DEF n
<1>2. n \in Int /\ ~(n < 0)
  BY <1>1
<1> QED
  BY <1>1, <1>2 DEF IsArgument, n

LEMMA LongArgument ==
  ASSUME NEW v \in Int
  PROVE  IsArgument(Signed(v, LongLong), Wrapped(v, LongLong), FALSE)
<1>1. Signed(v, LongLong) \in Int
  BY WidthFacts, SignedFacts
<1>2. Wrapped(v, LongLong) \in Int
  BY WidthFacts, WrappedFacts
<1> QED
  BY <1>1, <1>2, WrappedSigned DEF IsArgument

LEMMA ArgumentFacts ==
  ASSUME NEW c \in Conversion, NEW v \in Int
  PROVE  /\ Argument(c, v) \in Int
         /\ ~Misread(c, v) => IsArgument(Argument(c, v), Meant(c, v), c.letter \in Decimal)
<1>1. c.letter \in Letters /\ c.qualifier \in {"", "h", "l", "ll", "I64"}
  BY DEF Conversion
<1>2. CASE c.letter \notin Decimal
  <2>1. CASE c.letter = "p"
    <3>1. Argument(c, v) = Wrapped(v, IntBits) /\ Meant(c, v) = Wrapped(v, IntBits)
      BY <2>1 DEF Argument, Meant, Decimal
    <3> QED
      BY <1>2, <3>1, WidthFacts, UnsignedArgument DEF IsArgument
  <2>2. CASE c.letter # "p" /\ c.qualifier \in {"ll", "I64"}
    <3>1. Argument(c, v) = Signed(v, LongLong) /\ Meant(c, v) = Wrapped(v, LongLong)
      BY <1>2, <2>2 DEF Argument, Meant, Decimal
    <3> QED
      BY <1>2, <3>1, LongArgument DEF IsArgument
  <2>3. CASE c.letter # "p" /\ c.qualifier = "h"
    <3>1. Argument(c, v) = Wrapped(v, IntBits \div 2) /\ Meant(c, v) = Wrapped(v, IntBits \div 2)
      BY <1>2, <2>3 DEF Argument, Meant, Decimal
    <3> QED
      BY <1>2, <3>1, WidthFacts, UnsignedArgument DEF IsArgument
  <2>4. CASE c.letter # "p" /\ c.qualifier \in {"", "l"}
    <3>1. Argument(c, v) = Wrapped(v, IntBits) /\ Meant(c, v) = Wrapped(v, IntBits)
      BY <1>2, <2>4 DEF Argument, Meant, Decimal
    <3> QED
      BY <1>2, <3>1, WidthFacts, UnsignedArgument DEF IsArgument
  <2> QED
    BY <1>1, <2>1, <2>2, <2>3, <2>4
<1>3. CASE c.letter \in Decimal
  <2>0. c.letter # "p"
    BY <1>3 DEF Decimal
  <2>1. CASE c.qualifier \in {"ll", "I64"}
    <3>1. Argument(c, v) = Signed(v, LongLong) /\ Meant(c, v) = Signed(v, LongLong)
      BY <1>3, <2>0, <2>1 DEF Argument, Meant, Decimal
    <3> QED
      BY <1>3, <3>1, WidthFacts, SignedArgument DEF IsArgument
  <2>2. CASE c.qualifier = "h"
    <3>1. Argument(c, v) = Signed(v, IntBits \div 2) /\ Meant(c, v) = Signed(v, IntBits \div 2)
      BY <1>3, <2>0, <2>2 DEF Argument, Meant, Decimal
    <3> QED
      BY <1>3, <3>1, WidthFacts, SignedArgument DEF IsArgument
  <2>3. CASE c.qualifier = ""
    <3>1. Argument(c, v) = Signed(v, IntBits) /\ Meant(c, v) = Signed(v, IntBits)
      BY <1>3, <2>0, <2>3 DEF Argument, Meant, Decimal
    <3> QED
      BY <1>3, <3>1, WidthFacts, SignedArgument DEF IsArgument
  <2>4. CASE c.qualifier = "l"
    <3>1. Argument(c, v) = Wrapped(v, IntBits) /\ Meant(c, v) = Signed(v, IntBits)
      BY <1>3, <2>0, <2>4 DEF Argument, Meant, Decimal
    <3>2. IsArgument(Wrapped(v, IntBits), Wrapped(v, IntBits), TRUE)
      BY WidthFacts, UnsignedArgument
    <3>3. Signed(v, IntBits) \in Int /\ (Signed(v, IntBits) >= 0 => Signed(v, IntBits) = Wrapped(v, IntBits))
      BY WidthFacts, SignedFacts
    <3>4. ~Misread(c, v) => Signed(v, IntBits) >= 0
      BY <1>3, <2>4, <3>3 DEF Misread
    <3> QED
      BY <1>3, <3>1, <3>2, <3>3, <3>4 DEF IsArgument
  <2> QED
    BY <1>1, <2>1, <2>2, <2>3, <2>4
<1> QED
  BY <1>2, <1>3

\* The width of a number's field.
Width(c) == IF c.letter = "p" /\ c.width = -1 THEN IntBits \div 4 ELSE c.width

LEMMA GreaterOfTwo ==
  ASSUME NEW a \in Int, NEW b \in Int
  PROVE  Max({a, b}) = IF a <= b THEN b ELSE a
BY DEF Max

LEMMA NearestIs ==
  ASSUME NEW n \in Int
  PROVE  Max({Min({n, LONG_MAX}), LONG_MIN}) = Nearest(n)
<1>1. LONG_MAX \in Int /\ LONG_MIN \in Int /\ LONG_MIN <= LONG_MAX
  BY StringsAssumption DEF LONG_MIN
<1>2. Min({n, LONG_MAX}) = IF n > LONG_MAX THEN LONG_MAX ELSE n
  BY <1>1, LesserOfTwo
<1> DEFINE m == Min({n, LONG_MAX})
<1>3. m \in Int
  BY <1>1, <1>2
<1> HIDE DEF m
<1>4. Max({m, LONG_MIN}) = IF m <= LONG_MIN THEN LONG_MIN ELSE m
  BY <1>1, <1>3, GreaterOfTwo
<1> QED
  BY <1>1, <1>2, <1>3, <1>4 DEF m, Nearest

LEMMA ConvertedReads ==
  ASSUME NEW c \in Conversion, NEW v \in Int
  PROVE  LET s == Converted(c, v)
         IN /\ s \in Seq(Nat)
            /\ ~Misread(c, v) => strtol(s, Base(c.letter)) = Nearest(Meant(c, v))
            /\ Len(s) >= Width(c)
            /\ Len(s) > Width(c) /\ "SPACE" \notin c.flags => \A i \in 1 .. Len(s) : s[i] # 32
<1> DEFINE flags == c.flags \cup (IF c.letter \in {"d", "i"} THEN {"SIGN"} ELSE {})
                            \cup (IF c.letter = "X" THEN {"LARGE"} ELSE {})
           pointer == c.letter = "p" /\ c.width = -1
           type == IF pointer THEN flags \cup {"ZEROPAD"} ELSE flags
           num == Argument(c, v)
           base == Base(c.letter)
           size == IF pointer THEN IntBits \div 4 ELSE c.width
           s == number(num, base, size, c.precision, type)
<1>1. Converted(c, v) = s
  BY DEF Converted
<1>2. c.width \in Int /\ c.precision \in Int /\ c.flags \subseteq {"LEFT", "PLUS", "SPACE", "SPECIAL", "ZEROPAD"}
  BY DEF Conversion
<1>3. num \in Int /\ (~Misread(c, v) => IsArgument(num, Meant(c, v), c.letter \in Decimal))
  BY ArgumentFacts, Zenon
<1>4. base \in Bases
  <2>1. c.letter \in Letters
    BY DEF Conversion
  <2> QED
    BY <2>1 DEF Base, Letters, Bases
<1>5. IntBits \div 4 \in Int
  <2>1. IntBits \in Int /\ 4 \in Nat \ {0}
    BY PrintfAssumption
  <2> QED
    BY <2>1, DivFacts
<1>6. size \in Int /\ size = Width(c)
  BY <1>2, <1>5 DEF Width
<1>7. ("SIGN" \in type <=> c.letter \in Decimal) /\ ("SPACE" \in type <=> "SPACE" \in c.flags)
  BY <1>2 DEF Decimal
<1> HIDE DEF type, num, base, size
<1>8. /\ s \in Seq(Nat)
      /\ Minus(num, type) => strtol(s, base) = Nearest(-Wrapped(-num, LongLong))
      /\ ~Minus(num, type) => strtol(s, base) = Nearest(Wrapped(num, LongLong))
      /\ Len(s) >= size
      /\ Len(s) > size /\ "SPACE" \notin type => \A i \in 1 .. Len(s) : s[i] # 32
  <2>1. num \in Int /\ base \in Bases /\ size \in Int /\ c.precision \in Int
    BY <1>2, <1>3, <1>4, <1>6
  <2> QED
    BY <2>1, NumberRead
<1> HIDE DEF s
<1>9. ASSUME ~Misread(c, v) PROVE strtol(s, base) = Nearest(Meant(c, v))
  <2>1. IsArgument(num, Meant(c, v), c.letter \in Decimal)
    BY <1>3, <1>9
  <2>2. Minus(num, type) <=> c.letter \in Decimal /\ num < 0
    BY <1>7 DEF Minus
  <2> QED
    BY <1>8, <2>1, <2>2 DEF IsArgument
<1> QED
  BY <1>1, <1>6, <1>7, <1>8, <1>9 DEF base

-------------------------------------------------------------------------------
(* One piece after the other *)

\* f[i] is the first i of these texts, one after the other.
AreJoined(f, seqs, m) == f = [i \in 1 .. m |-> IF i = 1 THEN seqs[i] ELSE f[i - 1] \o seqs[i]]

LEMMA JoinedExist ==
  ASSUME NEW seqs, NEW n \in Nat
  PROVE  \E f : AreJoined(f, seqs, n)
<1> DEFINE T == {j \in Nat : \E f : AreJoined(f, seqs, j)}
           W(f, i) == IF i = 1 THEN seqs[i] ELSE f[i - 1] \o seqs[i]
<1>1. 0 \in T
  <2> DEFINE g == [i \in 1 .. 0 |-> seqs[i]]
  <2>1. g = [i \in 1 .. 0 |-> W(g, i)]
    OBVIOUS
  <2>2. AreJoined(g, seqs, 0)
    BY <2>1 DEF AreJoined
  <2> QED
    BY <2>2
<1>2. ASSUME NEW j \in T PROVE j + 1 \in T
  <2>1. PICK f : AreJoined(f, seqs, j)
    BY <1>2
  <2> DEFINE g == [i \in 1 .. j + 1 |-> IF i = j + 1 THEN W(f, i) ELSE f[i]]
  <2>2. ASSUME NEW i \in 1 .. j + 1 PROVE g[i] = W(g, i)
    <3>1. CASE i = j + 1
      <4>1. g[i] = W(f, i)
        BY <3>1
      <4>2. CASE i = 1
        BY <4>1, <4>2
      <4>3. CASE i # 1
        <5>1. i - 1 \in 1 .. j + 1 /\ i - 1 # j + 1
          BY <3>1, <4>3
        <5>2. g[i - 1] = f[i - 1]
          BY <5>1
        <5> HIDE DEF g
        <5> QED
          BY <4>1, <4>3, <5>2
      <4> QED
        BY <4>2, <4>3
    <3>2. CASE i # j + 1
      <4>1. i \in 1 .. j /\ (i # 1 => i - 1 \in 1 .. j + 1 /\ i - 1 # j + 1)
        BY <3>2
      <4>2. f[i] = W(f, i)
        BY <2>1, <4>1 DEF AreJoined
      <4>3. g[i] = f[i] /\ (i # 1 => g[i - 1] = f[i - 1])
        BY <3>2, <4>1
      <4> HIDE DEF g
      <4> QED
        BY <4>2, <4>3
    <3> QED
      BY <3>1, <3>2
  <2>3. g = [i \in 1 .. j + 1 |-> g[i]]
    OBVIOUS
  <2> HIDE DEF g
  <2>4. AreJoined(g, seqs, j + 1)
    BY <2>2, <2>3 DEF AreJoined
  <2> QED
    BY <2>4
<1>3. T \in SUBSET Nat
  OBVIOUS
<1> HIDE DEF T
<1>4. T = Nat
  BY <1>1, <1>2, <1>3, NumberInduction
<1> QED
  BY <1>4 DEF T

LEMMA FlattenIs ==
  ASSUME NEW seqs, Len(seqs) \in Nat \ {0}
  PROVE  \E f : /\ FlattenSeq(seqs) = f[Len(seqs)]
                /\ f[1] = seqs[1]
                /\ \A i \in 1 .. Len(seqs) - 1 : f[i + 1] = f[i] \o seqs[i + 1]
<1> DEFINE n == Len(seqs)
           f == CHOOSE g : AreJoined(g, seqs, n)
<1>1. AreJoined(f, seqs, n)
  BY JoinedExist
<1>2. FlattenSeq(seqs) = f[n]
  BY Zenon DEF FlattenSeq, AreJoined
<1> HIDE DEF f
<1>3. ASSUME NEW i \in 1 .. n PROVE f[i] = IF i = 1 THEN seqs[i] ELSE f[i - 1] \o seqs[i]
  BY <1>1 DEF AreJoined
<1>4. f[1] = seqs[1]
  BY <1>3
<1>5. ASSUME NEW i \in 1 .. n - 1 PROVE f[i + 1] = f[i] \o seqs[i + 1]
  <2>1. i + 1 \in 1 .. n /\ i + 1 # 1 /\ (i + 1) - 1 = i
    OBVIOUS
  <2> QED
    BY <1>3, <2>1
<1> QED
  BY <1>2, <1>4, <1>5

LEMMA FlattenOne ==
  ASSUME NEW seqs, Len(seqs) = 1
  PROVE  FlattenSeq(seqs) = seqs[1]
<1>1. PICK f : FlattenSeq(seqs) = f[Len(seqs)] /\ f[1] = seqs[1]
  <2>1. Len(seqs) \in Nat \ {0}
    OBVIOUS
  <2> QED
    BY <2>1, FlattenIs, Zenon
<1> QED
  BY <1>1

LEMMA FlattenTwo ==
  ASSUME NEW seqs, Len(seqs) = 2
  PROVE  FlattenSeq(seqs) = seqs[1] \o seqs[2]
<1>1. PICK f : /\ FlattenSeq(seqs) = f[Len(seqs)] /\ f[1] = seqs[1]
               /\ \A i \in 1 .. Len(seqs) - 1 : f[i + 1] = f[i] \o seqs[i + 1]
  <2>1. Len(seqs) \in Nat \ {0}
    OBVIOUS
  <2> QED
    BY <2>1, FlattenIs, Zenon
<1>2. 1 \in 1 .. Len(seqs) - 1 /\ 1 + 1 = 2
  OBVIOUS
<1> QED
  BY <1>1, <1>2

\* printf("=<conversion>", value).
LEMMA ShowFlattens ==
  ASSUME NEW f, NEW c, NEW v, Knows(f, c),
         NEW P, P = <<[kind |-> "literal", value |-> 61], [kind |-> "number", conversion |-> c, value |-> v]>>
  PROVE  FlattenSeq([i \in DOMAIN P |-> Printed(f, P[i])]) = <<61>> \o Converted(c, v)
<1> DEFINE S == [i \in DOMAIN P |-> Printed(f, P[i])]
<1>1. DOMAIN P = 1 .. 2 /\ P[1].kind = "literal" /\ P[1].value = 61
      /\ P[2].kind = "number" /\ P[2].conversion = c /\ P[2].value = v
  OBVIOUS
<1>2. Printed(f, P[1]) = <<61>>
  BY <1>1 DEF Printed
<1>3. Printed(f, P[2]) = Converted(c, v)
  BY <1>1 DEF Printed
<1>4. Len(S) = 2 /\ S[1] = <<61>> /\ S[2] = Converted(c, v)
  BY <1>1, <1>2, <1>3
<1> HIDE DEF S
<1>5. FlattenSeq(S) = S[1] \o S[2]
  BY <1>4, FlattenTwo
<1> QED
  BY <1>4, <1>5 DEF S

LEMMA TailOfOne ==
  ASSUME NEW s \in Seq(Nat), NEW x \in Nat
  PROVE  Tail(<<x>> \o s) = s
OBVIOUS

LEMMA ShowReads ==
  ASSUME Show
  PROVE  ReadsBack'
<1>1. PICK c \in Formats, v \in Values :
        LET pieces == <<[kind |-> "literal", value |-> 61], [kind |-> "number", conversion |-> c, value |-> v]>>
        IN \/ Calls("vsprintf", pieces, <<>>, <<>>, vsprintf(pieces))
           \/ Calls("_snprintf", pieces, <<>>, <<>>, _snprintf(Len(pieces), pieces))
  BY Zenon DEF Show
<1> DEFINE pieces == <<[kind |-> "literal", value |-> 61], [kind |-> "number", conversion |-> c, value |-> v]>>
           s == Converted(c, v)
<1>2. call'.args = pieces /\ (Knows(call'.f, c) => result' = <<61>> \o s)
  <2>1. \/ Calls("vsprintf", pieces, <<>>, <<>>, vsprintf(pieces))
        \/ Calls("_snprintf", pieces, <<>>, <<>>, _snprintf(Len(pieces), pieces))
    BY <1>1, Zenon
  <2>2. Knows("vsprintf", c) => vsprintf(pieces) = <<61>> \o s
    BY ShowFlattens DEF vsprintf
  <2>3. Knows("_vsnprintf", c) => _snprintf(Len(pieces), pieces) = <<61>> \o s
    BY ShowFlattens DEF _snprintf, _vsnprintf
  <2>4. Knows("_snprintf", c) => Knows("_vsnprintf", c)
    BY DEF Knows
  <2> HIDE DEF pieces, s
  <2>5. CASE Calls("vsprintf", pieces, <<>>, <<>>, vsprintf(pieces))
    BY <2>2, <2>5, CallFields
  <2>6. CASE Calls("_snprintf", pieces, <<>>, <<>>, _snprintf(Len(pieces), pieces))
    BY <2>3, <2>4, <2>6, CallFields
  <2> QED
    BY <2>1, <2>5, <2>6
<1>3. c \in Conversion /\ v \in Int
  BY LibcAssumption
<1>5. call'.args[2].conversion = c /\ call'.args[2].value = v /\ Len(call'.args) = 2
  BY <1>2
<1>6. /\ s \in Seq(Nat)
      /\ ~Misread(c, v) => strtol(s, Base(c.letter)) = Nearest(Meant(c, v))
      /\ Len(s) >= Width(c)
      /\ Len(s) > Width(c) /\ "SPACE" \notin c.flags => \A i \in 1 .. Len(s) : s[i] # 32
  BY <1>3, ConvertedReads, Zenon
<1> HIDE DEF s, pieces
<1>7. Knows(call'.f, c) => Tail(result') = s
  BY <1>2, <1>6, TailOfOne
<1>8. ~Misread(c, v) => /\ strtol(s, Base(c.letter)) = Max({Min({Meant(c, v), LONG_MAX}), LONG_MIN})
                        /\ Len(s) >= Width(c)
                        /\ Len(s) > Width(c) /\ "SPACE" \notin c.flags => 32 \notin {s[i] : i \in DOMAIN s}
  <2>1. ~Misread(c, v) => Meant(c, v) \in Int
    BY <1>3, ArgumentFacts DEF IsArgument
  <2>2. ~Misread(c, v) => Max({Min({Meant(c, v), LONG_MAX}), LONG_MIN}) = Nearest(Meant(c, v))
    BY <2>1, NearestIs
  <2>3. DOMAIN s = 1 .. Len(s)
    BY <1>6
  <2> QED
    BY <1>6, <2>2, <2>3
<1>9. NumberReads(c, v, s)
  <2>1. SUFFICES ASSUME ~Misread(c, v)
                 PROVE  /\ strtol(s, Base(c.letter)) = Max({Min({Meant(c, v), LONG_MAX}), LONG_MIN})
                        /\ Len(s) >= Width(c)
                        /\ Len(s) > Width(c) /\ "SPACE" \notin c.flags => 32 \notin {s[i] : i \in DOMAIN s}
    BY Zenon DEF NumberReads, Misread, Width
  <2> QED
    BY <1>8, <2>1
<1>10. Knows(call'.f, call'.args[2].conversion)
         => NumberReads(call'.args[2].conversion, call'.args[2].value, Tail(result'))
  BY <1>5, <1>7, <1>9
<1> QED
  <2>1. Len(call'.args) # 1
    BY <1>5
  <2> QED
    BY <1>10, <2>1, Zenon DEF ReadsBack

-------------------------------------------------------------------------------
(* Texts in a field *)

LEMMA FieldStands ==
  ASSUME NEW c, c.width \in Int, NEW s \in Seq(Nat)
  PROVE  Field(c, s) \in Seq(Nat) /\ Stands(s, c, Field(c, s))
<1> DEFINE n == c.width - Len(s)
           t == Times(32, n)
           f == Field(c, s)
<1>1. Len(s) \in Nat /\ n \in Int /\ DOMAIN s = 1 .. Len(s)
  OBVIOUS
<1>2. t \in Seq(Nat) /\ Len(t) = Rest(n) /\ Rest(n) \in Nat /\ \A p \in 1 .. Len(t) : t[p] = 32
  <2>1. 32 \in Nat
    OBVIOUS
  <2> HIDE DEF n
  <2> QED
    BY <1>1, <2>1, TimesRest, Zenon
<1>3. f = IF "LEFT" \in c.flags THEN s \o t ELSE t \o s
  BY DEF Field
<1>4. Len(s) + Rest(n) = Max({c.width, Len(s)})
  <2>1. Max({c.width, Len(s)}) = IF c.width <= Len(s) THEN Len(s) ELSE c.width
    BY <1>1, GreaterOfTwo
  <2> QED
    BY <1>1, <2>1 DEF Rest
<1> HIDE DEF t, f, n
<1> DEFINE blanks == IF "LEFT" \in c.flags THEN 0 ELSE Len(f) - Len(s)
<1>5. CASE "LEFT" \in c.flags
  <2>1. /\ f \in Seq(Nat) /\ Len(f) = Len(s) + Len(t)
        /\ \A p \in 1 .. Len(s) : f[p] = s[p]
        /\ \A p \in Len(s) + 1 .. Len(s) + Len(t) : f[p] = t[p - Len(s)]
    BY <1>2, <1>3, <1>5, JoinPlaces
  <2>2. ASSUME NEW i \in DOMAIN f PROVE f[i] = IF i - blanks \in DOMAIN s THEN s[i - blanks] ELSE 32
    <3>1. i \in 1 .. Len(s) + Len(t) /\ i - blanks = i
      BY <1>5, <2>1
    <3>2. CASE i <= Len(s)
      <4>1. i \in DOMAIN s /\ i \in 1 .. Len(s)
        BY <1>1, <3>1, <3>2
      <4> QED
        BY <2>1, <3>1, <4>1
    <3>3. CASE i > Len(s)
      <4>1. i \notin DOMAIN s /\ i \in Len(s) + 1 .. Len(s) + Len(t) /\ i - Len(s) \in 1 .. Len(t)
        BY <1>1, <1>2, <3>1, <3>3
      <4> QED
        BY <1>2, <2>1, <3>1, <4>1
    <3> QED
      BY <1>1, <3>1, <3>2, <3>3
  <2> QED
    BY <1>2, <1>4, <2>1, <2>2, Zenon DEF Stands, f
<1>6. CASE "LEFT" \notin c.flags
  <2>1. /\ f \in Seq(Nat) /\ Len(f) = Len(t) + Len(s)
        /\ \A p \in 1 .. Len(t) : f[p] = t[p]
        /\ \A p \in Len(t) + 1 .. Len(t) + Len(s) : f[p] = s[p - Len(t)]
    BY <1>2, <1>3, <1>6, JoinPlaces
  <2>2. Len(t) \in Nat /\ blanks = Len(t)
    BY <1>1, <1>2, <1>6, <2>1
  <2>3. ASSUME NEW i \in DOMAIN f PROVE f[i] = IF i - blanks \in DOMAIN s THEN s[i - blanks] ELSE 32
    <3>1. i \in 1 .. Len(t) + Len(s)
      BY <2>1
    <3>2. CASE i > Len(t)
      <4>1. i - Len(t) \in DOMAIN s /\ i \in Len(t) + 1 .. Len(t) + Len(s)
        BY <1>1, <2>2, <3>1, <3>2
      <4> HIDE DEF blanks
      <4> QED
        BY <2>1, <2>2, <4>1
    <3>3. CASE i <= Len(t)
      <4>1. i - Len(t) \notin DOMAIN s /\ i \in 1 .. Len(t)
        BY <1>1, <2>2, <3>1, <3>3
      <4> HIDE DEF blanks
      <4> QED
        BY <1>2, <2>1, <2>2, <4>1
    <3> QED
      BY <2>2, <3>1, <3>2, <3>3
  <2>4. Len(f) = Max({c.width, Len(s)})
    BY <1>1, <1>2, <1>4, <2>1, <2>2
  <2> QED
    BY <2>1, <2>3, <2>4, Zenon DEF Stands, f
<1> QED
  BY <1>5, <1>6

LEMMA ShowsOne ==
  ASSUME NEW p
  PROVE  vsprintf(<<p>>) = Printed("vsprintf", p)
<1> DEFINE P == <<p>>
           S == [i \in DOMAIN P |-> Printed("vsprintf", P[i])]
<1>1. vsprintf(P) = FlattenSeq(S)
  BY Zenon DEF vsprintf
<1>2. DOMAIN P = 1 .. 1 /\ P[1] = p
  OBVIOUS
<1> HIDE DEF P
<1>3. Len(S) = 1 /\ S[1] = Printed("vsprintf", p)
  BY <1>2
<1> HIDE DEF S
<1>4. FlattenSeq(S) = S[1]
  BY <1>3, FlattenOne
<1>5. vsprintf(P) = Printed("vsprintf", p)
  BY <1>1, <1>3, <1>4
<1> QED
  BY <1>5 DEF P

LEMMA FieldsFacts ==
  ASSUME NEW c \in Fields
  PROVE  c.width \in Int /\ c.precision \in Int
<1>1. PICK d \in Formats : c = [flags |-> d.flags \cap {"LEFT"}, width |-> d.width, precision |-> d.precision]
  BY DEF Fields
<1>2. d \in Conversion
  BY LibcAssumption
<1>3. d.width \in Int /\ d.precision \in Int
  BY <1>2 DEF Conversion
<1> QED
  BY <1>1, <1>3

LEMMA ShowTextReads ==
  ASSUME ShowText
  PROVE  ReadsBack'
<1>1. PICK c \in Fields, s \in Needles :
        \/ Calls("vsprintf", <<[kind |-> "text", conversion |-> c, value |-> s]>>, <<>>, <<>>,
                 vsprintf(<<[kind |-> "text", conversion |-> c, value |-> s]>>))
        \/ \E i \in DOMAIN s :
             Calls("vsprintf", <<[kind |-> "char", conversion |-> c, value |-> s[i]]>>, <<>>, <<>>,
                   vsprintf(<<[kind |-> "char", conversion |-> c, value |-> s[i]]>>))
  BY Zenon DEF ShowText
<1>2. c.width \in Int /\ c.precision \in Int
  BY FieldsFacts
<1>3. s \in Seq(Nat) /\ \A i \in DOMAIN s : s[i] \in Nat
  <2>1. s \in Seq(Nat \ {0})
    BY LibcAssumption
  <2> QED
    BY <2>1
<1>4. ASSUME NEW p, Calls("vsprintf", <<p>>, <<>>, <<>>, vsprintf(<<p>>)), p.kind # "address",
             TextStands(p, vsprintf(<<p>>))
      PROVE  ReadsBack'
  <2>1. call'.args = <<p>> /\ result' = vsprintf(<<p>>)
    BY <1>4, CallFields
  <2>2. call'.args[1] = p /\ Len(call'.args) = 1
    BY <2>1
  <2>3. Len(call'.args) # 2
    BY <2>2
  <2>4. TextStands(call'.args[1], result')
    BY <1>4, <2>1, <2>2, Zenon
  <2> QED
    BY <1>4, <2>2, <2>3, <2>4, Zenon DEF ReadsBack
<1>5. CASE Calls("vsprintf", <<[kind |-> "text", conversion |-> c, value |-> s]>>, <<>>, <<>>,
                 vsprintf(<<[kind |-> "text", conversion |-> c, value |-> s]>>))
  <2> DEFINE p == [kind |-> "text", conversion |-> c, value |-> s]
  <2>1. p.kind = "text" /\ p.conversion = c /\ p.value = s
    OBVIOUS
  <2>2. Calls("vsprintf", <<p>>, <<>>, <<>>, vsprintf(<<p>>))
    BY <1>5
  <2> HIDE DEF p
  <2>3. vsprintf(<<p>>) = Text(c, s)
    BY <2>1, ShowsOne DEF Printed
  <2> DEFINE t == IF c.precision < 0 THEN s ELSE Take(s, c.precision)
  <2>4. t \in Seq(Nat)
    <3>1. CASE c.precision < 0
      BY <1>3, <3>1
    <3>2. CASE c.precision >= 0
      BY <1>2, <1>3, <3>2, TakeFacts
    <3> QED
      BY <1>2, <3>1, <3>2
  <2>5. Text(c, s) = Field(c, t)
    BY Zenon DEF Text, Take
  <2>6. Stands(t, c, Field(c, t))
    <3> HIDE DEF t
    <3> QED
      BY <1>2, <2>4, FieldStands
  <2>7. TextStands(p, vsprintf(<<p>>))
    <3>1. p.kind # "char"
      BY <2>1
    <3> QED
      BY <2>1, <2>3, <2>5, <2>6, <3>1, Zenon DEF TextStands
  <2>8. p.kind # "address"
    BY <2>1
  <2> QED
    BY <1>4, <2>2, <2>7, <2>8
<1>6. CASE \E i \in DOMAIN s :
             Calls("vsprintf", <<[kind |-> "char", conversion |-> c, value |-> s[i]]>>, <<>>, <<>>,
                   vsprintf(<<[kind |-> "char", conversion |-> c, value |-> s[i]]>>))
  <2>0. PICK i \in DOMAIN s :
             Calls("vsprintf", <<[kind |-> "char", conversion |-> c, value |-> s[i]]>>, <<>>, <<>>,
                   vsprintf(<<[kind |-> "char", conversion |-> c, value |-> s[i]]>>))
    BY <1>6
  <2> DEFINE p == [kind |-> "char", conversion |-> c, value |-> s[i]]
             t == <<s[i]>>
  <2>1. p.kind = "char" /\ p.conversion = c /\ p.value = s[i]
    OBVIOUS
  <2>2. Calls("vsprintf", <<p>>, <<>>, <<>>, vsprintf(<<p>>))
    BY <2>0
  <2>3. vsprintf(<<p>>) = One(c, s[i])
    <3> HIDE DEF p
    <3> QED
      BY <2>1, ShowsOne DEF Printed
  <2>4. t \in Seq(Nat) /\ Len(t) = 1
    BY <1>3
  <2>5. One(c, s[i]) = Field(c, t)
    BY <2>4, Zenon DEF One, Field
  <2>6. Stands(t, c, Field(c, t))
    <3> HIDE DEF t
    <3> QED
      BY <1>2, <2>4, FieldStands
  <2>7. TextStands(p, vsprintf(<<p>>))
    <3> HIDE DEF p
    <3> QED
      BY <2>1, <2>3, <2>5, <2>6, Zenon DEF TextStands
  <2>8. p.kind # "address"
    BY <2>1
  <2> HIDE DEF p
  <2> QED
    BY <1>4, <2>2, <2>7, <2>8
<1> QED
  BY <1>1, <1>5, <1>6

-------------------------------------------------------------------------------
(* Addresses *)

\* r[k] is what Octets has read of the first k characters of text.
AreOctets(r, text, base) ==
  r = [k \in 0 .. Len(text) |->
         IF k = 0 THEN <<0>>
         ELSE IF text[k] \in {46, 58} THEN Append(r[k - 1], 0)
         ELSE [r[k - 1] EXCEPT ![Len(r[k - 1])] = @ * base + Digit(text[k])]]

LEMMA OctetsAre ==
  ASSUME NEW text, Len(text) \in Nat, NEW base, NEW r, AreOctets(r, text, base)
  PROVE  Octets(text, base) = r[Len(text)]
<1> DEFINE f == CHOOSE g : AreOctets(g, text, base)
           W(g, k) == IF k = 0 THEN <<0>>
                      ELSE IF text[k] \in {46, 58} THEN Append(g[k - 1], 0)
                      ELSE [g[k - 1] EXCEPT ![Len(g[k - 1])] = @ * base + Digit(text[k])]
           T == {k \in Nat : k <= Len(text) => f[k] = r[k]}
<1>1. AreOctets(f, text, base)
  OBVIOUS
<1>2. Octets(text, base) = f[Len(text)]
  BY Zenon DEF Octets, AreOctets
<1> HIDE DEF f
<1>3. \A k \in 0 .. Len(text) : f[k] = W(f, k)
  BY <1>1 DEF AreOctets
<1>4. \A k \in 0 .. Len(text) : r[k] = W(r, k)
  BY DEF AreOctets
<1>5. 0 \in T
  <2>1. 0 \in 0 .. Len(text)
    OBVIOUS
  <2> QED
    BY <1>3, <1>4, <2>1
<1>6. ASSUME NEW k \in T PROVE k + 1 \in T
  <2> SUFFICES ASSUME k + 1 <= Len(text) PROVE f[k + 1] = r[k + 1]
    OBVIOUS
  <2>1. f[k] = r[k] /\ k + 1 \in 0 .. Len(text) /\ (k + 1) - 1 = k /\ k + 1 # 0
    BY <1>6
  <2>2. W(f, k + 1) = W(r, k + 1)
    BY <2>1
  <2> HIDE DEF W
  <2> QED
    BY <1>3, <1>4, <2>1, <2>2
<1>7. T \in SUBSET Nat
  OBVIOUS
<1> HIDE DEF T
<1>8. T = Nat
  BY <1>5, <1>6, <1>7, NumberInduction
<1> QED
  BY <1>2, <1>8 DEF T

\* A figure is added to the last number, a separator starts the next.
NextOctets(x, char, base) ==
  IF char \in {46, 58} THEN Append(x, 0) ELSE [x EXCEPT ![Len(x)] = @ * base + Digit(char)]

LEMMA ListIsSeq ==
  ASSUME NEW n \in Nat, NEW f \in [1 .. n -> Nat]
  PROVE  f \in Seq(Nat) /\ Len(f) = n
OBVIOUS

LEMMA FigureAdded ==
  ASSUME NEW x \in Seq(Nat), NEW m \in Nat, NEW base \in Nat, NEW char, char \notin {46, 58}, Digit(char) \in Nat
  PROVE  NextOctets(Append(x, m), char, base) = Append(x, m * base + Digit(char))
<1> DEFINE y == Append(x, m)
           q == m * base + Digit(char)
           z == [y EXCEPT ![Len(y)] = @ * base + Digit(char)]
           v == Append(x, q)
<1>1. q \in Nat
  OBVIOUS
<1>2. /\ y \in Seq(Nat) /\ Len(y) = Len(x) + 1 /\ Len(x) \in Nat /\ DOMAIN y = 1 .. Len(x) + 1
      /\ y[Len(x) + 1] = m /\ \A i \in 1 .. Len(x) : y[i] = x[i]
  OBVIOUS
<1>3. y[Len(y)] * base + Digit(char) = q
  BY <1>2
<1> HIDE DEF q
<1>4. /\ v \in Seq(Nat) /\ Len(v) = Len(x) + 1 /\ DOMAIN v = 1 .. Len(x) + 1
      /\ v[Len(x) + 1] = q /\ \A i \in 1 .. Len(x) : v[i] = x[i]
  BY <1>1
<1>5. z = [y EXCEPT ![Len(y)] = q]
  BY <1>3
<1> HIDE DEF y, z, v
<1>6. DOMAIN z = 1 .. Len(x) + 1 /\ z[Len(x) + 1] = q /\ \A i \in 1 .. Len(x) : z[i] = x[i]
  BY <1>2, <1>5
<1>7. z \in Seq(Nat) /\ Len(z) = Len(x) + 1
  <2>1. y \in [1 .. Len(x) + 1 -> Nat]
    BY <1>2
  <2>2. z \in [1 .. Len(x) + 1 -> Nat]
    BY <1>1, <1>5, <2>1
  <2>3. Len(x) + 1 \in Nat
    BY <1>2
  <2> QED
    BY <2>2, <2>3, ListIsSeq
<1>8. \A i \in 1 .. Len(x) + 1 : z[i] = v[i]
  <2>1. ASSUME NEW i \in 1 .. Len(x) + 1 PROVE i = Len(x) + 1 \/ i \in 1 .. Len(x)
    BY <1>2
  <2> QED
    BY <1>2, <1>4, <1>6, <2>1
<1>9. z = v
  BY <1>4, <1>7, <1>8, SeqEqual
<1>10. NextOctets(y, char, base) = z
  BY DEF NextOctets, z
<1> QED
  BY <1>9, <1>10 DEF y, v, q

\* What Octets reads, character by character.
OctetSteps(r, text, base, n) ==
  r[0] = <<0>> /\ \A k \in 1 .. n : r[k] = NextOctets(r[k - 1], text[k], base)

LEMMA OctetsFollow ==
  ASSUME NEW text \in Seq(Nat), NEW base, NEW r, OctetSteps(r, text, base, Len(text))
  PROVE  Octets(text, base) = r[Len(text)]
<1> DEFINE n == Len(text)
           g == [k \in 0 .. n |-> r[k]]
           W(f, k) == IF k = 0 THEN <<0>>
                      ELSE IF text[k] \in {46, 58} THEN Append(f[k - 1], 0)
                      ELSE [f[k - 1] EXCEPT ![Len(f[k - 1])] = @ * base + Digit(text[k])]
<1>0. n \in Nat
  OBVIOUS
<1> HIDE DEF n
<1>1. ASSUME NEW k \in 0 .. n PROVE r[k] = W(g, k)
  <2>1. CASE k = 0
    BY <2>1 DEF OctetSteps
  <2>2. ASSUME k # 0 PROVE r[k] = W(g, k)
    <3>1. k \in 1 .. n /\ k - 1 \in 0 .. n
      BY <1>0, <2>2
    <3>2. g[k - 1] = r[k - 1]
      BY <3>1
    <3>3. r[k] = NextOctets(r[k - 1], text[k], base)
      BY <3>1 DEF OctetSteps, n
    <3> HIDE DEF g
    <3>4. W(g, k) = NextOctets(g[k - 1], text[k], base)
      BY <2>2, Zenon DEF NextOctets
    <3> QED
      BY <3>2, <3>3, <3>4
  <2> QED
    BY <2>1, <2>2
<1>2. g = [k \in 0 .. n |-> W(g, k)]
  <2> DEFINE h == [k \in 0 .. n |-> W(g, k)]
             G == g
  <2> HIDE DEF W
  <2>1. \A k \in 0 .. n : g[k] = h[k]
    BY <1>1
  <2>2. g = [k \in 0 .. n |-> g[k]] /\ h = [k \in 0 .. n |-> h[k]]
    OBVIOUS
  <2> HIDE DEF g, h
  <2>3. g = h
    BY <2>1, <2>2
  <2> QED
    BY <2>3 DEF h
<1>3. AreOctets(g, text, base)
  <2> HIDE DEF g
  <2> QED
    BY <1>2, Zenon DEF AreOctets, n
<1>4. Octets(text, base) = g[n]
  <2> HIDE DEF g
  <2> QED
    BY <1>0, <1>3, OctetsAre DEF n
<1>5. g[n] = r[n]
  BY <1>0
<1> QED
  BY <1>4, <1>5 DEF n

\* A text without blanks that Octets reads as x.
Spells(text, x, base) ==
  /\ text \in Seq(Nat) /\ Len(text) \in Nat \ {0} /\ x \in Seq(Nat)
  /\ \A i \in 1 .. Len(text) : text[i] # 32
  /\ \E r : OctetSteps(r, text, base, Len(text)) /\ r[Len(text)] = x

\* The figures of one number.
IsOctet(part, n, base) == n \in Nat /\ \E ten \in Tens : \E w : Valued(part, w, base, n, ten)

LEMMA PartRead ==
  ASSUME NEW part, NEW w, NEW base \in Bases, NEW n, NEW ten \in Tens, Valued(part, w, base, n, ten),
         NEW x \in Seq(Nat), NEW k \in 1 .. Len(part)
  PROVE  NextOctets(Append(x, w[k - 1]), part[k], base) = Append(x, w[k])
<1>1. Digit(part[k]) \in 0 .. base - 1 /\ w[k] = w[k - 1] * base + Digit(part[k]) /\ part[k] \notin {46, 58}
  <2>1. /\ Digit(part[k]) \in 0 .. base - 1 /\ w[k] = w[k - 1] * base + Digit(part[k])
        /\ ~isspace(part[k]) /\ part[k] \notin {32, 43, 45, 46, 58, 88, 120}
    BY ValuedFigures, Zenon
  <2>2. part[k] # 46 /\ part[k] # 58
    BY <2>1
  <2> QED
    BY <2>1, <2>2
<1>2. w[k - 1] \in Nat
  <2>1. k - 1 \in 0 .. Len(part) /\ w \in [0 .. Len(part) -> Nat]
    BY DEF Valued
  <2> QED
    BY <2>1
<1>3. base \in Nat /\ Digit(part[k]) \in Nat
  BY <1>1 DEF Bases
<1>4. NextOctets(Append(x, w[k - 1]), part[k], base) = Append(x, w[k - 1] * base + Digit(part[k]))
  BY <1>1, <1>2, <1>3, FigureAdded, Zenon
<1> QED
  BY <1>1, <1>4, Zenon

LEMMA PartUnblank ==
  ASSUME NEW part, NEW w, NEW base \in Bases, NEW n, NEW ten \in Tens, Valued(part, w, base, n, ten),
         NEW k \in 1 .. Len(part)
  PROVE  part[k] # 32
<1>1. /\ Digit(part[k]) \in 0 .. base - 1 /\ w[k] = w[k - 1] * base + Digit(part[k])
      /\ ~isspace(part[k]) /\ part[k] \notin {32, 43, 45, 46, 58, 88, 120}
  BY ValuedFigures, Zenon
<1> QED
  BY <1>1

LEMMA FirstPart ==
  ASSUME NEW part, NEW n, NEW base \in Bases, IsOctet(part, n, base)
  PROVE  Spells(part, Append(<<>>, n), base)
<1>0. PICK ten \in Tens : \E w : Valued(part, w, base, n, ten)
  BY DEF IsOctet
<1>1. PICK w : Valued(part, w, base, n, ten)
  BY <1>0
<1>2. /\ part \in Seq(Nat) /\ Len(part) \in Nat \ {0} /\ n \in Nat
      /\ w[0] = 0 /\ w[Len(part)] = n
  BY <1>1 DEF IsOctet, Valued
<1> DEFINE x == <<>>
           r == [k \in 0 .. Len(part) |-> Append(x, w[k])]
<1>3. x \in Seq(Nat) /\ Append(x, n) \in Seq(Nat) /\ Append(x, 0) = <<0>>
  BY <1>2
<1> HIDE DEF x
<1>4. r[0] = <<0>> /\ r[Len(part)] = Append(x, n)
  BY <1>2, <1>3
<1>5. ASSUME NEW k \in 1 .. Len(part) PROVE r[k] = NextOctets(r[k - 1], part[k], base) /\ part[k] # 32
  <2>1. r[k] = Append(x, w[k]) /\ r[k - 1] = Append(x, w[k - 1])
    BY <1>2
  <2>2. NextOctets(Append(x, w[k - 1]), part[k], base) = Append(x, w[k])
    BY <1>1, <1>3, PartRead
  <2>3. part[k] # 32
    BY <1>0, <1>1, PartUnblank
  <2> HIDE DEF r
  <2> QED
    BY <2>1, <2>2, <2>3
<1> HIDE DEF r
<1>6. OctetSteps(r, part, base, Len(part))
  BY <1>4, <1>5, Zenon DEF OctetSteps
<1>7. Spells(part, Append(x, n), base)
  BY <1>2, <1>3, <1>4, <1>5, <1>6, Zenon DEF Spells
<1> QED
  BY <1>7 DEF x

LEMMA NextPart ==
  ASSUME NEW text, NEW x, NEW base \in Bases, Spells(text, x, base),
         NEW part, NEW n, IsOctet(part, n, base), NEW separator \in {46, 58}
  PROVE  Spells(text \o (<<separator>> \o part), Append(x, n), base)
<1> DEFINE k0 == Len(text)
           one == <<separator>>
           tail == one \o part
           s == text \o tail
<1>0. PICK ten \in Tens : \E w : Valued(part, w, base, n, ten)
  BY DEF IsOctet
<1>1. PICK w : Valued(part, w, base, n, ten)
  BY <1>0
<1>2. /\ part \in Seq(Nat) /\ Len(part) \in Nat \ {0} /\ n \in Nat
      /\ w[0] = 0 /\ w[Len(part)] = n
  BY <1>1 DEF IsOctet, Valued
<1>3. /\ text \in Seq(Nat) /\ k0 \in Nat \ {0} /\ x \in Seq(Nat)
      /\ \A i \in 1 .. k0 : text[i] # 32
  BY Zenon DEF Spells
<1>4. PICK r : OctetSteps(r, text, base, k0) /\ r[k0] = x
  BY Zenon DEF Spells
<1>5. one \in Seq(Nat) /\ Len(one) = 1 /\ one[1] = separator /\ separator # 32
  OBVIOUS
<1> HIDE DEF one, k0
<1>6. /\ tail \in Seq(Nat) /\ Len(tail) = 1 + Len(part) /\ tail[1] = separator
      /\ \A i \in 1 .. Len(part) : tail[i + 1] = part[i]
  <2>1. /\ tail \in Seq(Nat) /\ Len(tail) = Len(one) + Len(part)
        /\ \A i \in 1 .. Len(one) : tail[i] = one[i]
        /\ \A i \in 1 .. Len(part) : tail[Len(one) + i] = part[i]
    <3>1. one \in Seq(Nat) /\ part \in Seq(Nat)
      BY <1>2, <1>5
    <3> QED
      BY <3>1, Joins
  <2> HIDE DEF tail
  <2>2. 1 \in 1 .. Len(one) /\ \A i \in 1 .. Len(part) : tail[1 + i] = part[i]
    BY <1>5, <2>1
  <2>3. \A i \in 1 .. Len(part) : tail[i + 1] = part[i]
    BY <2>2
  <2> QED
    BY <1>5, <2>1, <2>2, <2>3
<1> HIDE DEF tail
<1>7. /\ s \in Seq(Nat) /\ Len(s) = k0 + 1 + Len(part) /\ s[k0 + 1] = separator
      /\ \A i \in 1 .. k0 : s[i] = text[i]
      /\ \A i \in 1 .. Len(part) : s[k0 + 1 + i] = part[i]
  <2>1. /\ s \in Seq(Nat) /\ Len(s) = Len(text) + Len(tail)
        /\ \A i \in 1 .. Len(text) : s[i] = text[i]
        /\ \A i \in 1 .. Len(tail) : s[Len(text) + i] = tail[i]
    BY <1>3, <1>6, Joins
  <2> HIDE DEF s
  <2>2. Len(text) = k0
    BY DEF k0
  <2>3. 1 \in 1 .. Len(tail) /\ Len(s) = k0 + 1 + Len(part)
    BY <1>2, <1>3, <1>6, <2>1, <2>2
  <2>4. s[k0 + 1] = separator
    BY <1>6, <2>1, <2>2, <2>3
  <2>5. ASSUME NEW i \in 1 .. Len(part) PROVE s[k0 + 1 + i] = part[i]
    <3>1. i + 1 \in 1 .. Len(tail) /\ k0 + (i + 1) = k0 + 1 + i
      BY <1>2, <1>3, <1>6
    <3>2. s[k0 + (i + 1)] = tail[i + 1]
      BY <2>1, <2>2, <3>1
    <3> QED
      BY <1>6, <3>1, <3>2
  <2> QED
    BY <2>1, <2>2, <2>3, <2>4, <2>5
<1> HIDE DEF s
<1> DEFINE q == [k \in 0 .. Len(s) |-> IF k <= k0 THEN r[k] ELSE Append(x, w[k - k0 - 1])]
<1>8. q[0] = <<0>> /\ q[Len(s)] = Append(x, n)
  <2>1. r[0] = <<0>>
    BY <1>4 DEF OctetSteps
  <2>2. 0 \in 0 .. Len(s) /\ 0 <= k0 /\ Len(s) \in 0 .. Len(s) /\ ~(Len(s) <= k0) /\ Len(s) - k0 - 1 = Len(part)
    BY <1>2, <1>3, <1>7
  <2> QED
    BY <1>2, <2>1, <2>2
<1>9. ASSUME NEW k \in 1 .. Len(s) PROVE q[k] = NextOctets(q[k - 1], s[k], base) /\ s[k] # 32
  <2>0. k \in 0 .. Len(s) /\ k - 1 \in 0 .. Len(s) /\ k \in Nat
    BY <1>2, <1>3, <1>7
  <2>1. ASSUME k <= k0 PROVE q[k] = NextOctets(q[k - 1], s[k], base) /\ s[k] # 32
    <3>1. k \in 1 .. k0 /\ k - 1 <= k0
      BY <1>3, <2>0, <2>1
    <3>2. q[k] = r[k] /\ q[k - 1] = r[k - 1] /\ s[k] = text[k] /\ text[k] # 32
      BY <1>3, <1>7, <2>0, <2>1, <3>1
    <3>3. r[k] = NextOctets(r[k - 1], text[k], base)
      BY <1>4, <3>1, Zenon DEF OctetSteps
    <3> HIDE DEF q
    <3> QED
      BY <3>2, <3>3
  <2>2. ASSUME k = k0 + 1 PROVE q[k] = NextOctets(q[k - 1], s[k], base) /\ s[k] # 32
    <3>1. k - k0 - 1 = 0 /\ k - 1 = k0 /\ ~(k <= k0) /\ k0 <= k0
      BY <1>3, <2>2
    <3>2. q[k] = Append(x, 0) /\ q[k - 1] = x /\ s[k] = separator
      BY <1>2, <1>4, <1>7, <2>0, <2>2, <3>1
    <3>3. NextOctets(x, separator, base) = Append(x, 0)
      BY Zenon DEF NextOctets
    <3> HIDE DEF q
    <3> QED
      BY <1>5, <3>2, <3>3
  <2>3. ASSUME k > k0 + 1 PROVE q[k] = NextOctets(q[k - 1], s[k], base) /\ s[k] # 32
    <3> DEFINE i == k - k0 - 1
    <3>1. /\ i \in 1 .. Len(part) /\ k = k0 + 1 + i /\ ~(k <= k0) /\ ~(k - 1 <= k0)
          /\ (k - 1) - k0 - 1 = i - 1
      BY <1>2, <1>3, <1>7, <2>3
    <3>2. q[k] = Append(x, w[i]) /\ q[k - 1] = Append(x, w[i - 1])
      BY <2>0, <3>1
    <3> HIDE DEF i, q
    <3>3. s[k] = part[i]
      BY <1>7, <3>1
    <3>4. NextOctets(Append(x, w[i - 1]), part[i], base) = Append(x, w[i])
      BY <1>0, <1>1, <1>3, <3>1, PartRead
    <3>5. part[i] # 32
      BY <1>0, <1>1, <3>1, PartUnblank
    <3> QED
      BY <3>2, <3>3, <3>4, <3>5
  <2> QED
    BY <1>3, <2>0, <2>1, <2>2, <2>3
<1> HIDE DEF q
<1>10. OctetSteps(q, s, base, Len(s))
  BY <1>8, <1>9, Zenon DEF OctetSteps
<1>11. Append(x, n) \in Seq(Nat) /\ Len(s) \in Nat \ {0}
  BY <1>2, <1>3, <1>7
<1>12. Spells(s, Append(x, n), base)
  BY <1>7, <1>8, <1>9, <1>10, <1>11, Zenon DEF Spells
<1> QED
  BY <1>12 DEF s, tail, one

\* Each part is the figures of one octet.
AreParts(parts, octets, base) ==
  /\ octets \in Seq(Nat) /\ Len(octets) \in Nat \ {0} /\ DOMAIN parts = 1 .. Len(octets)
  /\ \A i \in 1 .. Len(octets) : IsOctet(parts[i], octets[i], base)

LEMMA JoinedSpells ==
  ASSUME NEW parts, NEW octets, NEW base \in Bases, AreParts(parts, octets, base), NEW separator \in {46, 58}
  PROVE  Spells(Joined(parts, separator), octets, base)
<1> DEFINE n == Len(octets)
           seqs == [i \in DOMAIN parts |-> IF i = 1 THEN parts[i] ELSE <<separator>> \o parts[i]]
<1>1. /\ octets \in Seq(Nat) /\ n \in Nat \ {0} /\ DOMAIN parts = 1 .. n
      /\ \A i \in 1 .. n : IsOctet(parts[i], octets[i], base)
  BY Zenon DEF AreParts
<1> HIDE DEF n
<1>2. Len(seqs) = n
  BY <1>1
<1>3. /\ seqs[1] = parts[1]
      /\ \A i \in 2 .. n : seqs[i] = <<separator>> \o parts[i]
  BY <1>1
<1>4. Joined(parts, separator) = FlattenSeq(seqs)
  BY Zenon DEF Joined
<1> HIDE DEF seqs
<1>5. PICK f : /\ FlattenSeq(seqs) = f[n]
               /\ f[1] = seqs[1]
               /\ \A i \in 1 .. n - 1 : f[i + 1] = f[i] \o seqs[i + 1]
  BY <1>1, <1>2, FlattenIs
<1> DEFINE T == {i \in Nat : i + 1 <= n => Spells(f[i + 1], SubSeq(octets, 1, i + 1), base)}
<1>6. 0 \in T
  <2>1. 1 \in 1 .. n
    BY <1>1
  <2>2. Spells(parts[1], Append(<<>>, octets[1]), base)
    BY <1>1, <2>1, FirstPart
  <2>3. SubSeq(octets, 1, 1) = Append(<<>>, octets[1])
    <3>1. octets[1] \in Nat /\ 1 \in Int
      BY <1>1, <2>1 DEF n
    <3> DEFINE a == SubSeq(octets, 1, 1)
               b == Append(<<>>, octets[1])
    <3>2. a \in Seq(Nat) /\ Len(a) = 1 /\ a[1] = octets[1]
      BY <1>1, <2>1 DEF n
    <3>3. b \in Seq(Nat) /\ Len(b) = 1 /\ b[1] = octets[1]
      BY <3>1
    <3> HIDE DEF a, b
    <3>4. \A i \in 1 .. Len(a) : a[i] = b[i]
      BY <3>2, <3>3
    <3>5. a = b
      BY <3>2, <3>3, <3>4, SeqEqual
    <3> QED
      BY <3>5 DEF a, b
  <2>4. 0 + 1 = 1
    OBVIOUS
  <2> QED
    BY <1>3, <1>5, <2>2, <2>3, <2>4
<1>7. ASSUME NEW i \in T PROVE i + 1 \in T
  <2>0. i \in Nat
    OBVIOUS
  <2> SUFFICES ASSUME (i + 1) + 1 <= n PROVE Spells(f[(i + 1) + 1], SubSeq(octets, 1, (i + 1) + 1), base)
    BY <2>0
  <2> DEFINE j == i + 1
  <2>1. j \in 1 .. n - 1 /\ j + 1 \in 2 .. n /\ j + 1 \in 1 .. n /\ j <= n /\ j \in Nat
    BY <1>1, <2>0
  <2>2. Spells(f[j], SubSeq(octets, 1, j), base)
    BY <1>7, <2>1
  <2> HIDE DEF j, T
  <2>3. f[j + 1] = f[j] \o (<<separator>> \o parts[j + 1])
    BY <1>3, <1>5, <2>1
  <2>4. Spells(f[j] \o (<<separator>> \o parts[j + 1]), Append(SubSeq(octets, 1, j), octets[j + 1]), base)
    BY <1>1, <2>1, <2>2, NextPart
  <2>5. Append(SubSeq(octets, 1, j), octets[j + 1]) = SubSeq(octets, 1, j + 1)
    BY <1>1, <2>1 DEF n
  <2> QED
    BY <2>3, <2>4, <2>5 DEF j
<1>8. T \in SUBSET Nat
  OBVIOUS
<1> HIDE DEF T
<1>9. T = Nat
  BY <1>6, <1>7, <1>8, NumberInduction
<1>10. n - 1 \in Nat /\ (n - 1) + 1 = n /\ SubSeq(octets, 1, n) = octets
  BY <1>1 DEF n
<1>11. Spells(f[n], SubSeq(octets, 1, n), base)
  <2>1. n - 1 \in T
    BY <1>9, <1>10
  <2>2. (n - 1) + 1 <= n => Spells(f[(n - 1) + 1], SubSeq(octets, 1, (n - 1) + 1), base)
    BY <2>1 DEF T
  <2> QED
    BY <1>1, <1>10, <2>2
<1> QED
  BY <1>4, <1>5, <1>10, <1>11

\* A text without blanks is what is not blank of its field.
LEMMA FieldText ==
  ASSUME NEW c, c.width \in Int, NEW s \in Seq(Nat), Len(s) \in Nat \ {0}, \A i \in 1 .. Len(s) : s[i] # 32,
         NEW field \in Seq(Nat), Stands(s, c, field)
  PROVE  LET figures == {i \in DOMAIN field : field[i] # 32}
         IN SubSeq(field, Min(figures), Max(figures)) = s
<1> DEFINE figures == {i \in DOMAIN field : field[i] # 32}
           b == IF "LEFT" \in c.flags THEN 0 ELSE Len(field) - Len(s)
           n == Len(s)
           t == SubSeq(field, b + 1, b + n)
<1>1. /\ Len(field) = Max({c.width, n})
      /\ \A i \in DOMAIN field : field[i] = IF i - b \in DOMAIN s THEN s[i - b] ELSE 32
  BY Zenon DEF Stands
<1>2. Len(field) \in Nat /\ n \in Nat \ {0} /\ DOMAIN field = 1 .. Len(field) /\ DOMAIN s = 1 .. n
  OBVIOUS
<1>3. Len(field) >= n
  <2>1. Max({c.width, n}) = IF c.width <= n THEN n ELSE c.width
    <3>1. c.width \in Int /\ n \in Int
      BY <1>2
    <3> HIDE DEF n
    <3> QED
      BY <3>1, GreaterOfTwo
  <2> QED
    BY <1>1, <1>2, <2>1
<1>4. b \in Nat /\ b + n <= Len(field)
  BY <1>2, <1>3
<1> HIDE DEF b
<1>5. \A i \in 1 .. n : s[i] # 32
  OBVIOUS
<1> HIDE DEF n
<1>6. ASSUME NEW i \in 1 .. Len(field) PROVE field[i] # 32 <=> i - b \in 1 .. n
  BY <1>1, <1>2, <1>5
<1>7. figures \in SUBSET Nat /\ figures = {i \in 1 .. Len(field) : i - b \in 1 .. n}
  BY <1>2, <1>6
<1> HIDE DEF figures
<1>8. /\ b + 1 \in figures /\ b + n \in figures
      /\ \A i \in figures : b + 1 <= i /\ i <= b + n
  <2>1. b + 1 \in 1 .. Len(field) /\ b + n \in 1 .. Len(field) /\ (b + 1) - b \in 1 .. n /\ (b + n) - b \in 1 .. n
    BY <1>2, <1>4
  <2>2. ASSUME NEW i \in figures PROVE b + 1 <= i /\ i <= b + n
    <3>1. i \in Nat /\ i - b \in 1 .. n
      BY <1>7
    <3> QED
      BY <1>2, <1>4, <3>1
  <2> QED
    BY <1>7, <2>1, <2>2
<1>9. Min(figures) = b + 1
  BY <1>7, <1>8, MinIs
<1>10. Max(figures) = b + n
  <2>1. b + n \in Nat
    BY <1>2, <1>4
  <2>2. figures # {} /\ \A i \in figures : i <= b + n
    BY <1>8
  <2>3. Max(figures) \in figures /\ \A i \in figures : i <= Max(figures)
    BY <1>7, <2>1, <2>2, GreatestNumber
  <2>4. Max(figures) \in Nat /\ Max(figures) <= b + n /\ b + n <= Max(figures)
    BY <1>7, <1>8, <2>3
  <2> HIDE DEF Max
  <2> QED
    BY <2>1, <2>4
<1>11. /\ t \in Seq(Nat) /\ Len(t) = n /\ \A i \in 1 .. n : t[i] = field[b + i]
  <2>1. b + 1 \in 1 .. Len(field) /\ b + n \in 1 .. Len(field) /\ b + 1 <= b + n /\ (b + n) - (b + 1) + 1 = n
    BY <1>2, <1>4
  <2>2. \A i \in 1 .. n : (b + 1) + i - 1 = b + i
    BY <1>4, <1>2
  <2>3. t \in Seq(Nat) /\ Len(t) = n
    BY <1>2, <1>4, <2>1
  <2>4. ASSUME NEW i \in 1 .. n PROVE t[i] = field[b + i]
    BY <1>2, <1>4, <2>1
  <2> QED
    BY <2>3, <2>4
<1> HIDE DEF t
<1>12. \A i \in 1 .. n : t[i] = s[i]
  <2>1. ASSUME NEW i \in 1 .. n PROVE t[i] = s[i]
    <3>1. b + i \in 1 .. Len(field) /\ (b + i) - b = i
      BY <1>2, <1>4
    <3>2. field[b + i] = s[i]
      BY <1>1, <1>2, <3>1
    <3> QED
      BY <1>11, <3>2
  <2> QED
    BY <2>1
<1>13. Len(t) = Len(s)
  BY <1>11 DEF n
<1>14. t = s
  BY <1>11, <1>12, <1>13, SeqEqual
<1> QED
  BY <1>9, <1>10, <1>14 DEF t, figures

\* An address is read back from its field.
LEMMA FieldReads ==
  ASSUME NEW c, c.width \in Int, NEW octets, NEW parts, NEW base \in Bases,
         AreParts(parts, octets, base), NEW separator \in {46, 58},
         base = IF c.qualifier = "l" THEN 16 ELSE 10
  PROVE  AddressReads(c, octets, Field(c, Joined(parts, separator)))
<1> DEFINE s == Joined(parts, separator)
           field == Field(c, s)
           figures == {i \in DOMAIN field : field[i] # 32}
           t == SubSeq(field, Min(figures), Max(figures))
<1>1. Spells(s, octets, base)
  BY JoinedSpells
<1> HIDE DEF s
<1>2. s \in Seq(Nat) /\ Len(s) \in Nat \ {0} /\ \A i \in 1 .. Len(s) : s[i] # 32
  BY <1>1, Zenon DEF Spells
<1>3. field \in Seq(Nat) /\ Stands(s, c, field)
  BY <1>2, FieldStands
<1> HIDE DEF field
<1>4. t = s
  BY <1>2, <1>3, FieldText
<1>5. Octets(s, base) = octets
  <2>1. PICK r : OctetSteps(r, s, base, Len(s)) /\ r[Len(s)] = octets
    BY <1>1, Zenon DEF Spells
  <2> QED
    BY <1>2, <2>1, OctetsFollow
<1> HIDE DEF t
<1>6. Octets(t, IF c.qualifier = "l" THEN 16 ELSE 10) = octets /\ Stands(t, c, field)
  BY <1>3, <1>4, <1>5
<1> QED
  BY <1>6, Zenon DEF AddressReads, t, field, s

\* Two figures of base 16, and the figures of base 10.
LEMMA PairIsOctet ==
  ASSUME NEW n \in 0 .. 255, NEW ten \in Tens
  PROVE  IsOctet(<<Figure(n \div 16, ten), Figure(n % 16, ten)>>, n, 16)
<1> DEFINE h == n \div 16
           l == n % 16
           part == <<Figure(h, ten), Figure(l, ten)>>
           w == [k \in 0 .. 2 |-> IF k = 0 THEN 0 ELSE IF k = 1 THEN h ELSE n]
<1>1. h \in 0 .. 15 /\ l \in 0 .. 15 /\ n \in Nat /\ n = h * 16 + l /\ h = 0 * 16 + h
  OBVIOUS
<1> HIDE DEF h, l
<1>2. Figure(h, ten) \in Nat /\ Figure(l, ten) \in Nat
  BY <1>1, FigureFacts
<1>3. part \in Seq(Nat) /\ Len(part) = 2 /\ part[1] = Figure(h, ten) /\ part[2] = Figure(l, ten)
  BY <1>2
<1>4. w \in [0 .. 2 -> Nat] /\ w[0] = 0 /\ w[1] = h /\ w[2] = n
  BY <1>1
<1> HIDE DEF part, w
<1>5. ASSUME NEW i \in 1 .. 2 PROVE \E d \in 0 .. 16 - 1 : part[i] = Figure(d, ten) /\ w[i] = w[i - 1] * 16 + d
  <2>1. CASE i = 1
    <3>1. h \in 0 .. 16 - 1 /\ i - 1 = 0
      BY <1>1, <2>1
    <3>2. part[i] = Figure(h, ten) /\ w[i] = w[i - 1] * 16 + h
      BY <1>1, <1>3, <1>4, <2>1, <3>1
    <3> QED
      BY <3>1, <3>2
  <2>2. CASE i = 2
    <3>1. l \in 0 .. 16 - 1 /\ i - 1 = 1
      BY <1>1, <2>2
    <3>2. part[i] = Figure(l, ten) /\ w[i] = w[i - 1] * 16 + l
      BY <1>1, <1>3, <1>4, <2>2, <3>1
    <3> QED
      BY <3>1, <3>2
  <2> QED
    BY <2>1, <2>2
<1>6. Len(part) \in Nat \ {0}
  BY <1>3
<1>7. Valued(part, w, 16, n, ten)
  BY <1>3, <1>4, <1>5, <1>6, Zenon DEF Valued
<1> QED
  BY <1>1, <1>7 DEF IsOctet, part, h, l

LEMMA DigitsIsOctet ==
  ASSUME NEW n \in 0 .. 255
  PROVE  IsOctet(Digits(n, 10, Ten(FALSE)), n, 10)
<1>1. n \in Nat /\ 10 \in Nat \ {0, 1} /\ Ten(FALSE) \in Tens
  BY DEF Ten, Tens
<1>2. \E w : Valued(Digits(n, 10, Ten(FALSE)), w, 10, n, Ten(FALSE))
  BY <1>1, DigitsAre
<1> DEFINE ten == Ten(FALSE)
           part == Digits(n, 10, ten)
<1>3. PICK w : Valued(part, w, 10, n, ten)
  BY <1>2
<1>4. ten \in Tens
  BY <1>1
<1> HIDE DEF part, ten
<1>5. IsOctet(part, n, 10)
  BY <1>1, <1>3, <1>4 DEF IsOctet
<1> QED
  BY <1>5 DEF part, ten

\* An address as it is stored.
IsAddress(a, n) == a \in Seq(0 .. 255) /\ Len(a) = n

LEMMA AddressFacts ==
  ASSUME NEW a, NEW n, IsAddress(a, n)
  PROVE  a \in Seq(Nat) /\ Len(a) = n /\ \A i \in 1 .. n : a[i] \in 0 .. 255
<1> DEFINE S == 0 .. 255
<1>1. a \in Seq(S) /\ Len(a) = n
  BY DEF IsAddress
<1>2. S \subseteq Nat
  OBVIOUS
<1> HIDE DEF S
<1>3. a \in Seq(Nat)
  <2>1. Len(a) \in Nat /\ a \in [1 .. Len(a) -> S]
    BY <1>1, LenProperties
  <2>2. a \in [1 .. Len(a) -> Nat]
    BY <1>2, <2>1
  <2> QED
    BY <2>1, <2>2, ListIsSeq
<1>4. \A i \in 1 .. n : a[i] \in S
  BY <1>1
<1> QED
  BY <1>1, <1>3, <1>4 DEF S

LEMMA EaddrReads ==
  ASSUME NEW c, c.width \in Int, c.qualifier = "l", NEW a, IsAddress(a, 6)
  PROVE  AddressReads(c, a, eaddr(c, a))
<1> DEFINE ten == Ten(c.letter = "A")
           parts == [i \in 1 .. 6 |-> <<Figure(a[i] \div 16, ten), Figure(a[i] % 16, ten)>>]
<1>1. a \in Seq(Nat) /\ Len(a) = 6 /\ \A i \in 1 .. 6 : a[i] \in 0 .. 255
  BY AddressFacts
<1>2. eaddr(c, a) = Field(c, Joined(parts, 58))
  BY Zenon DEF eaddr
<1>3. ten \in Tens
  BY DEF Ten, Tens
<1> HIDE DEF ten
<1>4. ASSUME NEW i \in 1 .. 6 PROVE IsOctet(parts[i], a[i], 16)
  <2>1. IsOctet(<<Figure(a[i] \div 16, ten), Figure(a[i] % 16, ten)>>, a[i], 16)
    BY <1>1, <1>3, PairIsOctet
  <2> QED
    BY <2>1
<1>5. DOMAIN parts = 1 .. 6
  OBVIOUS
<1> HIDE DEF parts
<1>6. AreParts(parts, a, 16)
  BY <1>1, <1>4, <1>5 DEF AreParts
<1>7. 16 \in Bases /\ 58 \in {46, 58} /\ 16 = IF c.qualifier = "l" THEN 16 ELSE 10
  BY DEF Bases
<1> QED
  BY <1>2, <1>6, <1>7, FieldReads

LEMMA IaddrReads ==
  ASSUME NEW c, c.width \in Int, c.qualifier # "l", NEW a, IsAddress(a, 4)
  PROVE  AddressReads(c, a, iaddr(c, a))
<1> DEFINE parts == [i \in 1 .. 4 |-> Digits(a[i], 10, Ten(FALSE))]
<1>1. a \in Seq(Nat) /\ Len(a) = 4 /\ \A i \in 1 .. 4 : a[i] \in 0 .. 255
  BY AddressFacts
<1>2. iaddr(c, a) = Field(c, Joined(parts, 46))
  BY Zenon DEF iaddr
<1>4. ASSUME NEW i \in 1 .. 4 PROVE IsOctet(parts[i], a[i], 10)
  <2>1. IsOctet(Digits(a[i], 10, Ten(FALSE)), a[i], 10)
    BY <1>1, DigitsIsOctet
  <2> QED
    BY <2>1
<1>5. DOMAIN parts = 1 .. 4
  OBVIOUS
<1> HIDE DEF parts
<1>6. AreParts(parts, a, 10)
  BY <1>1, <1>4, <1>5 DEF AreParts
<1>7. 10 \in Bases /\ 46 \in {46, 58} /\ 10 = IF c.qualifier = "l" THEN 16 ELSE 10
  BY DEF Bases
<1> QED
  BY <1>2, <1>6, <1>7, FieldReads

\* As many octets as the conversion prints, from any list of them.
LEMMA TakenOctets ==
  ASSUME NEW octets \in Addresses, NEW n \in {4, 6}
  PROVE  IsAddress([i \in 1 .. n |-> octets[(i % Len(octets)) + 1]], n)
<1> DEFINE S == 0 .. 255
           a == [i \in 1 .. n |-> octets[(i % Len(octets)) + 1]]
<1>1. octets \in Seq(S) /\ octets # <<>>
  BY LibcAssumption
<1> HIDE DEF S
<1>2. Len(octets) \in Nat \ {0}
  BY <1>1, EmptySeq
<1>3. ASSUME NEW i \in 1 .. n PROVE octets[(i % Len(octets)) + 1] \in S
  <2>1. i \in Int
    OBVIOUS
  <2>2. (i % Len(octets)) + 1 \in 1 .. Len(octets)
    BY <1>2, <2>1
  <2> QED
    BY <1>1, <2>2, ElementOfSeq
<1>4. a \in [1 .. n -> S] /\ n \in Nat
  BY <1>3
<1> HIDE DEF a
<1>5. a \in Seq(S) /\ Len(a) = n
  BY <1>4
<1> QED
  BY <1>5 DEF IsAddress, a, S

LEMMA AddressShown ==
  ASSUME NEW p, Calls("vsprintf", <<p>>, <<>>, <<>>, vsprintf(<<p>>)), p.kind = "address",
         AddressReads(p.conversion, p.value, vsprintf(<<p>>))
  PROVE  ReadsBack'
<1>1. call'.args = <<p>> /\ result' = vsprintf(<<p>>)
  BY CallFields
<1>2. call'.args[1] = p /\ Len(call'.args) = 1
  BY <1>1
<1>3. Len(call'.args) # 2
  BY <1>2
<1>4. AddressReads(call'.args[1].conversion, call'.args[1].value, result')
  BY <1>1, <1>2, Zenon
<1>5. call'.args[1].kind = "address"
  BY <1>2
<1> QED
  BY <1>3, <1>4, <1>5, Zenon DEF ReadsBack

LEMMA ShowAddressReads ==
  ASSUME ShowAddress
  PROVE  ReadsBack'
<1> DEFINE Octet(octets, n) == [i \in 1 .. n |-> octets[(i % Len(octets)) + 1]]
           Conv(c, q, large) == [flags |-> c.flags, width |-> c.width, precision |-> c.precision,
                                 qualifier |-> q, letter |-> IF large THEN "A" ELSE "a"]
           Piece(c, q, large, octets) ==
             [kind |-> "address", value |-> Octet(octets, IF q = "l" THEN 6 ELSE 4), conversion |-> Conv(c, q, large)]
<1>1. PICK c \in Fields, q \in {"", "l"}, large \in BOOLEAN, octets \in Addresses :
        Calls("vsprintf", <<Piece(c, q, large, octets)>>, <<>>, <<>>, vsprintf(<<Piece(c, q, large, octets)>>))
  BY Zenon DEF ShowAddress
<1> DEFINE n == IF q = "l" THEN 6 ELSE 4
           a == Octet(octets, n)
           d == Conv(c, q, large)
           p == Piece(c, q, large, octets)
<1>2. d.width = c.width /\ d.qualifier = q
  OBVIOUS
<1>5. Knows("vsprintf", d)
  <2>1. d.qualifier # "I64" /\ d.letter \in {"A", "a"}
    OBVIOUS
  <2> HIDE DEF d
  <2> QED
    BY <2>1 DEF Knows
<1>3. p.kind = "address" /\ p.value = a /\ p.conversion = d
  OBVIOUS
<1>4. n \in {4, 6} /\ IsAddress(a, n)
  <2>1. n \in {4, 6}
    OBVIOUS
  <2>2. octets \in Addresses
    BY <1>1
  <2> HIDE DEF n
  <2> QED
    BY <2>1, <2>2, TakenOctets
<1>6. c.width \in Int
  BY <1>1, FieldsFacts
<1> HIDE DEF p, d, a
<1>7. vsprintf(<<p>>) = IF d.qualifier = "l" THEN eaddr(d, a) ELSE iaddr(d, a)
  BY <1>3, <1>5, ShowsOne DEF Printed
<1>8. AddressReads(d, a, vsprintf(<<p>>))
  <2>1. d.width \in Int
    BY <1>2, <1>6
  <2>2. CASE q = "l"
    <3>1. IsAddress(a, 6) /\ d.qualifier = "l"
      BY <1>2, <1>4, <2>2
    <3>2. AddressReads(d, a, eaddr(d, a))
      BY <2>1, <3>1, EaddrReads
    <3> QED
      BY <1>7, <3>1, <3>2
  <2>3. CASE q # "l"
    <3>1. IsAddress(a, 4) /\ d.qualifier # "l"
      BY <1>2, <1>4, <2>3
    <3>2. AddressReads(d, a, iaddr(d, a))
      BY <2>1, <3>1, IaddrReads
    <3> QED
      BY <1>7, <3>1, <3>2
  <2> QED
    BY <2>2, <2>3
<1>9. Calls("vsprintf", <<p>>, <<>>, <<>>, vsprintf(<<p>>))
  BY <1>1, Zenon DEF p
<1>10. AddressReads(p.conversion, p.value, vsprintf(<<p>>))
  BY <1>3, <1>8, Zenon
<1> QED
  BY <1>3, <1>9, <1>10, AddressShown, Zenon

LEMMA OthersPrintNothing ==
  ASSUME Move \/ Copy \/ Compare \/ Search \/ Divide \/ Multiply \/ Return
  PROVE  ReadsBack'
<1>1. call'.f \in Copying \cup Comparing \cup Searching \cup Dividing \cup Multiplying \cup {"none"}
  BY CallNames
<1>2. call'.f # "vsprintf" /\ call'.f # "_snprintf"
  BY <1>1 DEF Copying, Comparing, Searching, Dividing, Multiplying
<1> QED
  BY <1>2 DEF ReadsBack

\* What printf makes of a number or an address by a conversion it knows, its reader
\* reads back, under all flags, widths and precisions; and a text or a character stands in its field
\* whole, or cut to the precision.
THEOREM PrintsReadable == LibcSpec => []ReadsBack
<1>1. LibcInit => ReadsBack
  BY DEF LibcInit, Nothing, ReadsBack
<1>2. ReadsBack /\ [LibcNext]_libcVars => ReadsBack'
  <2> SUFFICES ASSUME ReadsBack, [LibcNext]_libcVars PROVE ReadsBack'
    OBVIOUS
  <2>1. CASE LibcNext
    BY <2>1, ShowReads, ShowTextReads, ShowAddressReads, OthersPrintNothing DEF LibcNext
  <2>2. CASE UNCHANGED libcVars
    <3>1. call' = call /\ result' = result
      BY <2>2 DEF libcVars
    <3> QED
      BY <3>1, Zenon DEF ReadsBack
  <2> QED
    BY <2>1, <2>2
<1> QED
  BY <1>1, <1>2, PTL DEF LibcSpec

===============================================================================
