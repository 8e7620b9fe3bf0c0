------------------------- MODULE KernelMemory_proofs -------------------------
(***************************************************************************)
(* What holds of the kernel's memory for every memory map, every layout of *)
(* the kernel's windows, every size of the stack and whatever the heap     *)
(* asks for.                                                               *)
(***************************************************************************)
EXTENDS KernelMemory, TLAPS

Setup == {"pager", "windows", "stack"}
Guarding == {"free low", "reserve low", "free high", "reserve high"}

\* The pages map_pages or unmap_pages still has to handle.
Todo == todo.block .. todo.block + todo.left - 1

StackEnd == stack.start + stack.size

Walks == {"map", "unmap"}
Calls == [op : Walks \cup {"none", "unmap low", "scan"}, block : Nat, left : Nat, frame : Nat]

Types ==
  /\ block_map \in [Block -> {"FREE", "USED", "RESERVED"}]
  /\ next_free_block \in Nat
  /\ pte \in [Block -> Nat \cup {NotPresent, Foreign}]
  /\ step \in Setup \cup Guarding \cup {"run", "hung"}
  /\ step = "hung" => todo.op = "scan"
  /\ todo \in Calls
  /\ todo.op = "none" <=> todo = Idle
  /\ todo.op \in Walks => todo.left # 0 /\ todo.block + todo.left <= Total
  /\ stack \in [start : Nat, size : Nat]
  /\ heap \in Seq([start : Nat, size : Nat \ {0}])

\* Before alloc_stack nothing is allocated.
Fresh ==
  step \in Setup => /\ todo = Idle /\ heap = <<>> /\ stack = Nothing /\ overwritten = {}
                    /\ \A b \in Block : block_map[b] # "USED" /\ pte[b] = NotPresent

\* Where the page tables are the pager's, they and the block map agree but for
\* what the running call has left to do.
Tracked ==
  /\ \A b \in Block : step # "hung" /\ Slot(b) \notin overwritten =>
       /\ pte[b] # NotPresent => Slot(b) \in pde
       /\ pte[b] # NotPresent /\ block_map[b] = "FREE" => todo.op = "unmap" /\ b \in Todo
       /\ block_map[b] = "USED" /\ pte[b] = NotPresent => todo.op = "map" /\ b \in Todo
  /\ todo.op = "map" => \A b \in Todo : block_map[b] = "USED"
  /\ todo.op = "unmap" => \A b \in Todo : block_map[b] = "FREE"

\* A table was replaced by an allocation that ran into the window, and the pages
\* the running call works on belong to an allocation.
Caused ==
  /\ \A b \in Block : Slot(b) \in overwritten => ~TableSafe(b)
  /\ todo.op \in Walks => \/ Todo \subseteq Blocks(stack)
                          \/ \E i \in DOMAIN heap : Todo \subseteq Blocks(heap[i])

\* How far alloc_stack is with the guard at g: allocated with the stack, freed,
\* or reserved without a translation.
Guard(g, freed, reserved) ==
  /\ step \notin freed \cup reserved => block_map[g] = "USED"
  /\ step \in freed => block_map[g] = "FREE"
  /\ step \in reserved => /\ block_map[g] = "RESERVED"
                        /\ \/ pte[g] = NotPresent
                           \/ Slot(g) \in overwritten

StackSet ==
  step \notin Setup \cup {"hung"} /\ stack # Nothing =>
    /\ stack.size = StackPages + 2 /\ StackEnd < Total
    /\ stack.start <= next_free_block
    /\ Guard(LowGuard, {"reserve low"}, {"free high", "reserve high", "run"})
    /\ Guard(HighGuard, {"reserve high"}, {"run"})
    /\ \A b \in Blocks(stack) \ {LowGuard, HighGuard} : block_map[b] = "USED"

\* The heap lies behind the stack, each allocation behind the one before.
HeapBehind ==
  /\ step \notin {"run", "hung"} => heap = <<>>
  /\ \A i \in DOMAIN heap :
       /\ StackEnd <= heap[i].start /\ heap[i].start + heap[i].size <= next_free_block
       /\ \A j \in DOMAIN heap : i < j => heap[i].start + heap[i].size <= heap[j].start
  /\ step = "run" /\ todo.op # "none" => todo.op = "map" /\ StackEnd <= todo.block

IInv == Types /\ Fresh /\ Tracked /\ Caused /\ StackSet /\ HeapBehind

-------------------------------------------------------------------------------
(* What the operators of the address space do here *)

LEMMA SpaceFacts ==
  ASSUME Types, NEW n \in Nat \ {0}, NEW start \in Block, S!alloc_virtual_space(n, start)
  PROVE  /\ start \in Nat /\ start + n < Total
         /\ next_free_block <= start /\ block_map[start] = "FREE"
         /\ block_map' = [b \in Block |-> IF start <= b /\ b < start + n THEN "USED"
                                          ELSE block_map[b]]
         /\ next_free_block' = start + n
<1>1. /\ start \in S!FreeStarts(n)
      /\ block_map' = S!Fill(start .. start + n - 1, "USED")
      /\ next_free_block' = start + n
  BY DEF S!alloc_virtual_space, S!IsLeast
<1>2. start \in Nat /\ start + n < Total /\ next_free_block <= start /\ block_map[start] = "FREE"
  BY <1>1, KernelMemoryAssumption DEF S!FreeStarts, S!FREE, Block
<1>3. block_map' = [b \in Block |-> IF start <= b /\ b < start + n THEN "USED"
                                    ELSE block_map[b]]
  <2>1. \A b \in Block : b \in start .. start + n - 1 <=> start <= b /\ b < start + n
    BY <1>2, KernelMemoryAssumption DEF Block
  <2> QED
    BY <1>1, <2>1 DEF S!Fill, S!Block, Block
<1> QED
  BY <1>1, <1>2, <1>3

LEMMA AllocFacts ==
  ASSUME Types, NEW n \in Nat \ {0}, NEW start \in Block, alloc_virtual_memory(n, start)
  PROVE  /\ todo = Idle /\ start \in Nat /\ start + n < Total
         /\ next_free_block <= start /\ block_map[start] = "FREE"
         /\ block_map' = [b \in Block |-> IF start <= b /\ b < start + n THEN "USED"
                                          ELSE block_map[b]]
         /\ next_free_block' = start + n
         /\ \E f \in Nat : todo' = [op |-> "map", block |-> start, left |-> n, frame |-> f]
<1>1. todo = Idle /\ S!alloc_virtual_space(n, start)
  BY DEF alloc_virtual_memory
<1>2. \E f \in Nat : todo' = [op |-> "map", block |-> start, left |-> n, frame |-> f]
  <2>1. Frames \in Nat \ {0}
    BY KernelMemoryAssumption, LayoutAssumption DEF Block
  <2>2. ASSUME NEW i \in P!Frame \cup P!Behind
        PROVE  i % Frames \in Nat
    <3>1. i \in Int
      BY DEF P!Frame, P!Behind
    <3> QED
      BY <2>1, <3>1
  <2> QED
    BY <2>2 DEF alloc_virtual_memory, MapTo
<1> QED
  BY <1>1, <1>2, SpaceFacts

\* A page of its own that is in use is freed.
LEMMA FreeFacts ==
  ASSUME Types, NEW g \in Block, g + 1 < Total, block_map[g] = "USED",
         free_virtual_memory(g, 1)
  PROVE  /\ todo = Idle
         /\ block_map' = [block_map EXCEPT ![g] = "FREE"]
         /\ next_free_block' \in {next_free_block, g}
         /\ todo' = [op |-> "unmap", block |-> g, left |-> 1, frame |-> 0]
<1> DEFINE r == [start |-> g, size |-> 1]
<1>1. g \in Nat /\ S!Blocks(r) = {g}
  BY KernelMemoryAssumption DEF Block, S!Blocks
<1>2. S!InRange(r) /\ S!Prefix(r, {"USED", "RESERVED"}) = {g}
  <2>1. g .. g = {g}
    BY <1>1
  <2> QED
    BY <1>1, <2>1 DEF S!InRange, S!Prefix
<1>3. /\ todo = Idle /\ S!free_virtual_space(r)
      /\ todo' = [op |-> "unmap", block |-> g, left |-> 1, frame |-> 0]
  BY DEF free_virtual_memory
<1>4. block_map' = S!Fill({g}, "FREE") /\ next_free_block' \in {next_free_block, g}
  BY <1>2, <1>3 DEF S!free_virtual_space, S!FREE
<1>5. block_map' = [block_map EXCEPT ![g] = "FREE"]
  BY <1>4 DEF S!Fill, S!Block, Block, Types
<1> QED
  BY <1>3, <1>4, <1>5

\* A page of its own that is free is reserved.
LEMMA ReserveFacts ==
  ASSUME Types, NEW g \in Block, g + 1 < Total, block_map[g] = "FREE",
         S!reserve_virtual_space([start |-> g, size |-> 1])
  PROVE  /\ block_map' = [block_map EXCEPT ![g] = "RESERVED"]
         /\ next_free_block' = next_free_block
<1> DEFINE r == [start |-> g, size |-> 1]
<1>1. g \in Nat /\ S!Blocks(r) = {g} /\ g .. g = {g}
  BY KernelMemoryAssumption DEF Block, S!Blocks
<1>2. S!InRange(r) /\ S!Prefix(r, {"FREE"}) = {g}
  BY <1>1 DEF S!InRange, S!Prefix
<1>3. block_map' = S!Fill({g}, "RESERVED") /\ next_free_block' = next_free_block
  BY <1>2 DEF S!reserve_virtual_space, S!FREE
<1> QED
  BY <1>3 DEF S!Fill, S!Block, Block, Types

\* Reserving a window, wherever it lies, only takes free blocks.
LEMMA WindowFacts ==
  ASSUME Types, NEW r, S!reserve_virtual_space(r)
  PROVE  /\ block_map' \in [Block -> {"FREE", "USED", "RESERVED"}]
         /\ \A b \in Block : block_map'[b] # "USED" \/ block_map'[b] = block_map[b]
         /\ next_free_block' = next_free_block
<1>1. CASE S!InRange(r)
  <2>1. block_map' = S!Fill(S!Prefix(r, {"FREE"}), "RESERVED") /\ next_free_block' = next_free_block
    BY <1>1 DEF S!reserve_virtual_space, S!FREE
  <2> HIDE DEF Types
  <2>2. \A b \in Block : block_map'[b] \in {"RESERVED", block_map[b]}
    BY <2>1 DEF S!Fill, S!Block, Block
  <2>3. block_map' = [b \in Block |-> block_map'[b]]
    BY <2>1 DEF S!Fill, S!Block, Block
  <2>4. \A b \in Block : block_map'[b] \in {"FREE", "USED", "RESERVED"}
    BY <2>2 DEF Types
  <2> QED
    BY <2>1, <2>2, <2>3, <2>4
<1>2. CASE ~S!InRange(r)
  BY <1>2 DEF S!reserve_virtual_space, Types
<1> QED
  BY <1>1, <1>2

\* What writing the entry of a page does to the other pages.
LEMMA SetPteFacts ==
  ASSUME Types, NEW b0 \in Block, NEW value \in Nat \cup {NotPresent}, SetPte(b0, value)
  PROVE  /\ pte' \in [Block -> Nat \cup {NotPresent, Foreign}]
         /\ overwritten \subseteq overwritten'
         /\ Slot(b0) \notin overwritten' => pte'[b0] = value
         /\ \A b \in Block : b # b0 /\ Slot(b) \notin overwritten' => pte'[b] = pte[b]
         /\ \A b \in Block : Slot(b) \in overwritten' \ overwritten =>
              b0 \in {DirectoryPage(Slot(b)), DirectoryPage(OwnSlot)}
         /\ \A b \in Block : b # b0 /\ pte'[b] # pte[b] =>
              b0 \in {DirectoryPage(Slot(b)), DirectoryPage(OwnSlot)}
<1>1. /\ overwritten' = overwritten \cup Replaced(b0)
      /\ pte' = [c \in Block |-> IF Slot(c) \in Replaced(b0) THEN Foreign
                                 ELSE IF c # b0 THEN pte[c]
                                 ELSE IF Slot(b0) \in overwritten THEN Foreign ELSE value]
  BY DEF SetPte
<1>2. \A b \in Block : pte[b] \in Nat \cup {NotPresent, Foreign}
  BY DEF Types
<1>3. ASSUME NEW b \in Block, Slot(b) \in Replaced(b0)
      PROVE  b0 \in {DirectoryPage(Slot(b)), DirectoryPage(OwnSlot)}
  <2>1. CASE b0 = DirectoryPage(OwnSlot)
    BY <2>1
  <2>2. CASE b0 # DirectoryPage(OwnSlot)
    <3>1. Slot(b) = b0 - DirectoryPage(0)
      BY <1>3, <2>2 DEF Replaced
    <3>2. b0 \in Int /\ PageTableBase \in Int /\ KernelBase \in Int
      BY KernelMemoryAssumption DEF Block
    <3>3. b0 = DirectoryPage(Slot(b))
      BY <3>1, <3>2 DEF DirectoryPage
    <3> QED
      BY <3>3
  <2> QED
    BY <2>1, <2>2
<1> QED
  BY <1>1, <1>2, <1>3

-------------------------------------------------------------------------------
(* Every step keeps the invariant *)

LEMMA InitHolds == Init => IInv
<1> SUFFICES ASSUME Init PROVE IInv
  OBVIOUS
<1>1. Types /\ Fresh /\ Tracked /\ Caused
  BY DEF Init, Types, Fresh, Tracked, Caused, Calls, Walks, Setup, Guarding, Idle, Nothing, NotPresent
<1>2. StackSet /\ HeapBehind
  BY DEF Init, StackSet, HeapBehind, Setup
<1> QED
  BY <1>1, <1>2 DEF IInv

LEMMA PagerInitKeeps ==
  ASSUME IInv, PagerInit
  PROVE  IInv'
<1>1. /\ step = "pager" /\ step' \in {"pager", "windows"}
      /\ block_map' = block_map /\ next_free_block' = next_free_block
      /\ pte' = pte /\ overwritten' = overwritten
      /\ todo' = todo /\ stack' = stack /\ heap' = heap
  BY DEF PagerInit, spaceVars, tableVars
<1>2. step \in Setup /\ step' \in Setup
  BY <1>1 DEF Setup
<1>3. Types' /\ Fresh'
  BY <1>1, <1>2 DEF IInv, Types, Fresh
<1>4. Tracked' /\ Caused'
  BY <1>1, <1>2 DEF IInv, Fresh, Tracked, Caused, Walks, Todo, Idle
<1>5. StackSet' /\ HeapBehind'
  BY <1>1, <1>2 DEF IInv, Fresh, StackSet, HeapBehind, StackEnd
<1> QED
  BY <1>3, <1>4, <1>5 DEF IInv

LEMMA init_kernel_mmuKeeps ==
  ASSUME IInv, init_kernel_mmu
  PROVE  IInv'
<1>1. /\ step = "windows" /\ step' \in {"windows", "stack"}
      /\ pte' = pte /\ overwritten' = overwritten
      /\ todo' = todo /\ stack' = stack /\ heap' = heap
  BY DEF init_kernel_mmu, tableVars
<1>2. step \in Setup /\ step' \in Setup /\ Types
  BY <1>1 DEF Setup, IInv
<1>3. /\ block_map' \in [Block -> {"FREE", "USED", "RESERVED"}]
      /\ \A b \in Block : block_map'[b] # "USED" \/ block_map'[b] = block_map[b]
      /\ next_free_block' = next_free_block
  <2>1. CASE window <= Len(Reservations)
    BY <1>2, <2>1, WindowFacts DEF init_kernel_mmu
  <2>2. CASE ~(window <= Len(Reservations))
    BY <1>2, <2>2 DEF init_kernel_mmu, spaceVars, Types
  <2> QED
    BY <2>1, <2>2
<1>4. Types'
  BY <1>1, <1>2, <1>3 DEF Types, Setup
<1>5. Fresh'
  BY <1>1, <1>2, <1>3 DEF IInv, Fresh
<1>6. Tracked' /\ Caused'
  BY <1>1, <1>2, <1>5 DEF IInv, Fresh, Tracked, Caused, Walks, Todo, Idle
<1>7. StackSet' /\ HeapBehind'
  <2>1. heap' = <<>> /\ step' \notin {"run", "hung"} /\ step' \in Setup
    BY <1>1, <1>2 DEF IInv, Fresh, Setup
  <2> QED
    BY <1>1, <1>3, <2>1 DEF IInv, StackSet, HeapBehind, StackEnd
<1> QED
  BY <1>4, <1>5, <1>6, <1>7 DEF IInv

\* What is left of a run of pages when one is done.
LEMMA Advanced ==
  ASSUME Types, todo.op \in Walks, Advance
  PROVE  /\ todo.block \in Block /\ todo.block \in Todo /\ todo.block \in Nat
         /\ Todo' = Todo \ {todo.block}
         /\ todo' = Idle \/ todo'.op = todo.op
         /\ todo' \in Calls
         /\ todo'.op = "none" <=> todo' = Idle
         /\ todo'.op \in Walks => /\ todo'.left # 0 /\ todo'.block + todo'.left <= Total
                                  /\ todo.block < todo'.block
<1>1. /\ todo.block \in Nat /\ todo.left \in Nat \ {0} /\ todo.frame \in Nat
      /\ todo.block + todo.left <= Total /\ todo.op \in {"map", "unmap"}
  BY DEF Types, Calls, Walks
<1>2. todo.block \in Block /\ todo.block \in Todo
  BY <1>1, KernelMemoryAssumption DEF Block, Todo
<1>3. CASE todo.left = 1
  <2>1. todo' = Idle
    BY <1>3 DEF Advance
  <2>2. Todo = {todo.block} /\ Todo' = {}
    BY <1>1, <1>3, <2>1 DEF Todo, Idle
  <2> QED
    BY <1>1, <1>2, <2>1, <2>2 DEF Idle, Calls, Walks
<1>4. CASE todo.left # 1
  <2>1. todo' = [todo EXCEPT !.block = @ + 1, !.left = @ - 1, !.frame = @ + 1]
    BY <1>4 DEF Advance
  <2>2. /\ todo'.op = todo.op /\ todo'.block = todo.block + 1 /\ todo'.left = todo.left - 1
        /\ todo' \in Calls
    <3> DEFINE after == todo.block + 1
               rest == todo.left - 1
               frame == todo.frame + 1
    <3>1. after \in Nat /\ rest \in Nat /\ frame \in Nat
      BY <1>1, <1>4
    <3>2. todo' = [todo EXCEPT !.block = after, !.left = rest, !.frame = frame] /\ todo \in Calls
      BY <2>1 DEF Types
    <3> HIDE DEF after, rest, frame
    <3>3. todo' \in Calls /\ todo'.op = todo.op /\ todo'.block = after /\ todo'.left = rest
      BY <3>1, <3>2 DEF Calls
    <3> QED
      BY <3>3 DEF after, rest
  <2>3. Todo' = Todo \ {todo.block}
    BY <1>1, <1>4, <2>2 DEF Todo
  <2> QED
    BY <1>1, <1>2, <1>4, <2>2, <2>3 DEF Idle
<1> QED
  BY <1>3, <1>4

\* Writing an entry leaves the agreement of the other pages alone.
LEMMA TrackedKept ==
  ASSUME IInv, NEW b0 \in Block, NEW value \in Nat \cup {NotPresent}, SetPte(b0, value),
         step # "hung", NEW b \in Block, b # b0, Slot(b) \notin overwritten'
  PROVE  /\ pte'[b] = pte[b]
         /\ pte[b] # NotPresent => Slot(b) \in pde
         /\ pte[b] # NotPresent /\ block_map[b] = "FREE" => todo.op = "unmap" /\ b \in Todo
         /\ block_map[b] = "USED" /\ pte[b] = NotPresent => todo.op = "map" /\ b \in Todo
<1>1. pte'[b] = pte[b] /\ overwritten \subseteq overwritten'
  BY SetPteFacts DEF IInv
<1>2. Slot(b) \notin overwritten
  BY <1>1
<1> QED
  BY <1>1, <1>2 DEF IInv, Tracked

\* What writing an entry of a page the running call works on replaces.
LEMMA CausedKept ==
  ASSUME IInv, NEW b0 \in Block, NEW value \in Nat \cup {NotPresent}, SetPte(b0, value),
         todo.op \in Walks, b0 \in Todo, stack' = stack, heap' = heap,
         Todo' = Todo \ {b0}, todo' = Idle \/ todo'.op = todo.op
  PROVE  Caused'
<1>1. ASSUME NEW b \in Block, Slot(b) \in overwritten'
      PROVE  ~TableSafe(b)
  <2>1. CASE Slot(b) \in overwritten
    BY <2>1 DEF IInv, Caused
  <2>2. CASE Slot(b) \notin overwritten
    <3>1. b0 \in {DirectoryPage(Slot(b)), DirectoryPage(OwnSlot)}
      BY <1>1, <2>2, SetPteFacts DEF IInv
    <3>2. \/ b0 \in Blocks(stack)
          \/ \E i \in DOMAIN heap : b0 \in Blocks(heap[i])
      BY DEF IInv, Caused
    <3> QED
      BY <3>1, <3>2 DEF TableSafe, RunsIntoTableOf
  <2> QED
    BY <2>1, <2>2
<1>2. \A b \in Block : TableSafe(b)' = TableSafe(b) /\ Slot(b)' = Slot(b)
  BY DEF TableSafe, RunsIntoTableOf, Blocks, DirectoryPage, OwnSlot, Slot, P!PdeIndex
<1>3. todo'.op \in Walks => \/ Todo' \subseteq Blocks(stack)
                            \/ \E i \in DOMAIN heap : Todo' \subseteq Blocks(heap[i])
  BY DEF IInv, Caused
<1>4. /\ Blocks(stack)' = Blocks(stack)
      /\ \A i \in DOMAIN heap : Blocks(heap[i])' = Blocks(heap[i])
  BY DEF Blocks
<1> QED
  BY <1>1, <1>2, <1>3, <1>4 DEF Caused

LEMMA MapPageKeeps ==
  ASSUME IInv, MapPage
  PROVE  IInv'
<1> DEFINE b0 == todo.block
<1>1. /\ todo.op = "map" /\ todo.op \in Walks /\ Advance /\ SetPte(b0, todo.frame)
      /\ pde \subseteq pde' /\ Slot(b0) \in pde'
      /\ block_map' = block_map /\ next_free_block' = next_free_block
      /\ step' = step /\ stack' = stack /\ heap' = heap
  BY DEF MapPage, spaceVars, Walks
<1>2. Types /\ step # "hung"
  BY <1>1 DEF IInv, Types
<1>3. /\ b0 \in Block /\ b0 \in Todo /\ b0 \in Nat /\ Todo' = Todo \ {b0}
      /\ todo' = Idle \/ todo'.op = todo.op
      /\ todo' \in Calls
      /\ todo'.op = "none" <=> todo' = Idle
      /\ todo'.op \in Walks => /\ todo'.left # 0 /\ todo'.block + todo'.left <= Total
                               /\ b0 < todo'.block
  BY <1>1, <1>2, Advanced
<1> HIDE DEF b0
<1>4. todo.frame \in Nat /\ todo.frame # NotPresent
  <2>1. todo.frame \in Nat
    BY <1>2 DEF Types, Calls
  <2> QED
    BY <2>1 DEF NotPresent
<1>5. /\ pte' \in [Block -> Nat \cup {NotPresent, Foreign}]
      /\ overwritten \subseteq overwritten'
      /\ Slot(b0) \notin overwritten' => pte'[b0] = todo.frame
      /\ \A b \in Block : b # b0 /\ Slot(b) \notin overwritten' => pte'[b] = pte[b]
  BY <1>1, <1>2, <1>3, <1>4, SetPteFacts
<1>6. \A b \in Todo : block_map[b] = "USED"
  BY <1>1, <1>3 DEF IInv, Tracked
<1>7. Types'
  BY <1>1, <1>2, <1>3, <1>5 DEF Types
<1>8. step \notin Setup
  BY <1>1 DEF IInv, Fresh, Idle
<1>9. Fresh'
  BY <1>1, <1>8 DEF Fresh
<1>10. Tracked'
  <2>1. ASSUME NEW b \in Block, Slot(b) \notin overwritten'
        PROVE  /\ pte'[b] # NotPresent => Slot(b) \in pde'
               /\ pte'[b] # NotPresent /\ block_map[b] = "FREE" => todo'.op = "unmap" /\ b \in Todo'
               /\ block_map[b] = "USED" /\ pte'[b] = NotPresent => todo'.op = "map" /\ b \in Todo'
    <3>1. CASE b = b0
      BY <1>1, <1>3, <1>4, <1>5, <1>6, <2>1, <3>1
    <3>2. CASE b # b0
      <4>1. /\ pte'[b] = pte[b]
            /\ pte[b] # NotPresent => Slot(b) \in pde
            /\ ~(pte[b] # NotPresent /\ block_map[b] = "FREE")
            /\ block_map[b] = "USED" /\ pte[b] = NotPresent => b \in Todo
        BY <1>1, <1>2, <1>3, <1>4, <2>1, <3>2, TrackedKept
      <4>2. b \in Todo => b \in Todo' /\ todo'.op = "map"
        <5>1. todo' = Idle => Todo' = {}
          BY DEF Todo, Idle
        <5> QED
          BY <1>1, <1>3, <3>2, <5>1
      <4> QED
        BY <1>1, <3>2, <4>1, <4>2
    <3> QED
      BY <3>1, <3>2
  <2>2. \A b \in Todo' : block_map[b] = "USED"
    BY <1>3, <1>6
  <2>3. \A b \in Block : Slot(b)' = Slot(b)
    BY DEF Slot, P!PdeIndex
  <2>4. todo'.op # "unmap"
    BY <1>1, <1>3 DEF Idle
  <2> QED
    BY <1>1, <2>1, <2>2, <2>3, <2>4 DEF Tracked
<1>11. StackSet'
  <2>1. ASSUME NEW g \in Block, block_map[g] = "RESERVED",
               pte[g] = NotPresent \/ Slot(g) \in overwritten
        PROVE  pte'[g] = NotPresent \/ Slot(g) \in overwritten'
    BY <1>3, <1>5, <1>6, <2>1
  <2>2. CASE stack = Nothing
    BY <1>1, <2>2 DEF StackSet
  <2>3. CASE stack # Nothing
    <3>1. /\ StackEnd < Total /\ stack.size = StackPages + 2 /\ stack.start \in Nat
      BY <1>2, <1>8, <2>3 DEF IInv, StackSet, Types
    <3>2. LowGuard \in Block /\ HighGuard \in Block
      BY <3>1, KernelMemoryAssumption DEF StackEnd, LowGuard, HighGuard, Block
    <3>3. StackSet /\ Slot(LowGuard)' = Slot(LowGuard) /\ Slot(HighGuard)' = Slot(HighGuard)
      BY <1>1 DEF IInv, Slot, P!PdeIndex, LowGuard, HighGuard
    <3> QED
      BY <1>1, <1>2, <1>8, <2>1, <2>3, <3>2, <3>3
         DEF StackSet, Guard, LowGuard, HighGuard, StackEnd, Blocks
  <2> QED
    BY <2>2, <2>3
<1>12. HeapBehind'
  <2>1. step = "run" /\ todo'.op # "none" => todo'.op = "map" /\ StackEnd <= todo'.block
    <3>1. step = "run" => StackEnd <= b0
      BY <1>1 DEF IInv, HeapBehind, b0
    <3>2. StackEnd \in Nat
      BY <1>2 DEF Types, StackEnd
    <3>3. todo'.op # "none" => todo'.op = "map" /\ todo'.op \in Walks
      BY <1>1, <1>3
    <3>4. todo'.block \in Nat
      BY <1>3 DEF Calls
    <3> QED
      BY <1>3, <3>1, <3>2, <3>3, <3>4
  <2> QED
    BY <1>1, <2>1 DEF IInv, HeapBehind, StackEnd
<1>13. Caused'
  BY <1>1, <1>3, <1>4, CausedKept
<1> QED
  BY <1>7, <1>9, <1>10, <1>11, <1>12, <1>13 DEF IInv

LEMMA UnmapPageKeeps ==
  ASSUME IInv, UnmapPage
  PROVE  IInv'
<1> DEFINE b0 == todo.block
<1>1. /\ todo.op = "unmap" /\ todo.op \in Walks /\ Advance
      /\ IF Slot(b0) \in pde THEN SetPte(b0, NotPresent) /\ pde' = pde \ Replaced(b0)
                             ELSE pte' = pte /\ overwritten' = overwritten /\ pde' = pde
      /\ block_map' = block_map /\ next_free_block' = next_free_block
      /\ step' = step /\ stack' = stack /\ heap' = heap
  BY DEF UnmapPage, spaceVars, tableVars, Walks
<1>2. Types /\ step # "hung"
  BY <1>1 DEF IInv, Types
<1>3. /\ b0 \in Block /\ b0 \in Todo /\ b0 \in Nat /\ Todo' = Todo \ {b0}
      /\ todo' = Idle \/ todo'.op = todo.op
      /\ todo' \in Calls
      /\ todo'.op = "none" <=> todo' = Idle
      /\ todo'.op \in Walks => todo'.left # 0 /\ todo'.block + todo'.left <= Total
  BY <1>1, <1>2, Advanced
<1> HIDE DEF b0
<1>4. /\ pte' \in [Block -> Nat \cup {NotPresent, Foreign}]
      /\ overwritten \subseteq overwritten' /\ \A c \in pde \ pde' : c \in overwritten'
      /\ Slot(b0) \notin overwritten' => pte'[b0] = NotPresent
      /\ \A b \in Block : b # b0 /\ Slot(b) \notin overwritten' => pte'[b] = pte[b]
  <2>1. CASE Slot(b0) \in pde
    <3>1. SetPte(b0, NotPresent) /\ pde' = pde \ Replaced(b0)
      BY <1>1, <2>1
    <3>2. \A c \in pde \ pde' : c \in overwritten'
      BY <3>1 DEF SetPte
    <3> QED
      BY <1>2, <1>3, <3>1, <3>2, SetPteFacts
  <2>2. CASE Slot(b0) \notin pde
    <3>1. Slot(b0) \notin overwritten => pte[b0] = NotPresent
      BY <1>2, <1>3, <2>2 DEF IInv, Tracked
    <3> QED
      BY <1>1, <1>2, <2>2, <3>1 DEF Types
  <2> QED
    BY <2>1, <2>2
<1>5. \A b \in Todo : block_map[b] = "FREE"
  BY <1>1 DEF IInv, Tracked
<1>6. Types'
  BY <1>1, <1>2, <1>3, <1>4 DEF Types
<1>7. step \notin Setup /\ step # "run"
  BY <1>1 DEF IInv, Fresh, HeapBehind, Idle
<1>8. Fresh'
  BY <1>1, <1>7 DEF Fresh
<1>9. Tracked'
  <2>1. ASSUME NEW b \in Block, Slot(b) \notin overwritten'
        PROVE  /\ pte'[b] # NotPresent => Slot(b) \in pde'
               /\ pte'[b] # NotPresent /\ block_map[b] = "FREE" => todo'.op = "unmap" /\ b \in Todo'
               /\ block_map[b] = "USED" /\ pte'[b] = NotPresent => todo'.op = "map" /\ b \in Todo'
    <3>1. CASE b = b0
      BY <1>3, <1>4, <1>5, <2>1, <3>1
    <3>2. CASE b # b0
      <4>1. /\ pte[b] # NotPresent => Slot(b) \in pde
            /\ pte[b] # NotPresent /\ block_map[b] = "FREE" => b \in Todo
            /\ ~(block_map[b] = "USED" /\ pte[b] = NotPresent)
        <5>1. Slot(b) \notin overwritten
          BY <1>4, <2>1
        <5> QED
          BY <1>1, <1>2, <5>1 DEF IInv, Tracked
      <4>2. b \in Todo => b \in Todo' /\ todo'.op = "unmap"
        <5>1. todo' = Idle => Todo' = {}
          BY DEF Todo, Idle
        <5> QED
          BY <1>1, <1>3, <3>2, <5>1
      <4> QED
        BY <1>4, <2>1, <3>2, <4>1, <4>2
    <3> QED
      BY <3>1, <3>2
  <2>2. todo'.op # "map" /\ \A b \in Todo' : block_map[b] = "FREE"
    BY <1>1, <1>3, <1>5 DEF Idle
  <2>3. \A b \in Block : Slot(b)' = Slot(b)
    BY DEF Slot, P!PdeIndex
  <2> QED
    BY <1>1, <2>1, <2>2, <2>3 DEF Tracked
<1>10. StackSet'
  <2>1. ASSUME NEW g \in Block, pte[g] = NotPresent \/ Slot(g) \in overwritten
        PROVE  pte'[g] = NotPresent \/ Slot(g) \in overwritten'
    BY <1>4, <2>1
  <2>2. CASE stack = Nothing
    BY <1>1, <2>2 DEF StackSet
  <2>3. CASE stack # Nothing
    <3>1. /\ StackEnd < Total /\ stack.size = StackPages + 2 /\ stack.start \in Nat
      BY <1>2, <1>7, <2>3 DEF IInv, StackSet, Types
    <3>2. LowGuard \in Block /\ HighGuard \in Block
      BY <3>1, KernelMemoryAssumption DEF StackEnd, LowGuard, HighGuard, Block
    <3>3. StackSet /\ Slot(LowGuard)' = Slot(LowGuard) /\ Slot(HighGuard)' = Slot(HighGuard)
      BY <1>1 DEF IInv, Slot, P!PdeIndex, LowGuard, HighGuard
    <3> QED
      BY <1>1, <1>2, <1>7, <2>1, <2>3, <3>2, <3>3
         DEF StackSet, Guard, LowGuard, HighGuard, StackEnd, Blocks
  <2> QED
    BY <2>2, <2>3
<1>11. HeapBehind'
  BY <1>1, <1>2, <1>7 DEF IInv, HeapBehind, StackEnd
<1>12. Caused'
  <2>1. CASE Slot(b0) \in pde
    <3>1. SetPte(b0, NotPresent) /\ NotPresent \in Nat \cup {NotPresent}
      BY <1>1, <2>1
    <3> QED
      BY <1>1, <1>3, <3>1, CausedKept
  <2>2. CASE Slot(b0) \notin pde
    <3>1. overwritten' = overwritten
      BY <1>1, <2>2
    <3>2. Todo' \subseteq Todo /\ (todo'.op \in Walks => todo.op \in Walks)
      BY <1>1, <1>3
    <3>3. /\ \A b \in Block : TableSafe(b)' = TableSafe(b) /\ Slot(b)' = Slot(b)
          /\ Blocks(stack)' = Blocks(stack)
          /\ \A i \in DOMAIN heap : Blocks(heap[i])' = Blocks(heap[i])
      BY <1>1 DEF TableSafe, RunsIntoTableOf, Blocks, DirectoryPage, OwnSlot, Slot, P!PdeIndex
    <3> QED
      BY <1>1, <3>1, <3>2, <3>3 DEF IInv, Caused
  <2> QED
    BY <2>1, <2>2
<1> QED
  BY <1>6, <1>8, <1>9, <1>10, <1>11, <1>12 DEF IInv

\* A page of the first megabyte is none of the kernel's blocks.
LEMMA UnmapLowPageKeeps ==
  ASSUME IInv, UnmapLowPage
  PROVE  IInv'
<1>1. /\ todo.op = "unmap low" /\ todo' = Idle
      /\ pde' = pde /\ pte' = pte /\ overwritten' = overwritten
      /\ block_map' = block_map /\ next_free_block' = next_free_block
      /\ step' = step /\ stack' = stack /\ heap' = heap
  BY DEF UnmapLowPage, spaceVars, tableVars
<1>2. Types /\ step # "hung" /\ step \notin Setup \cup {"run"}
  BY <1>1 DEF IInv, Types, Fresh, HeapBehind, Idle
<1>3. Types'
  BY <1>1, <1>2 DEF Types, Idle, Calls, Walks
<1>4. Fresh' /\ HeapBehind'
  BY <1>1, <1>2 DEF IInv, Fresh, HeapBehind, StackEnd, Idle
<1>5. Tracked'
  BY <1>1, <1>2 DEF IInv, Tracked, Slot, P!PdeIndex, Idle
<1>6. Caused'
  BY <1>1 DEF IInv, Caused, Walks, Idle, TableSafe, RunsIntoTableOf, Blocks, DirectoryPage,
       OwnSlot, Slot, P!PdeIndex
<1>7. StackSet'
  BY <1>1 DEF IInv, StackSet, Guard, LowGuard, HighGuard, StackEnd, Blocks, Slot, P!PdeIndex
<1> QED
  BY <1>3, <1>4, <1>5, <1>6, <1>7 DEF IInv

\* The stack is the first allocation: all of it is marked, none of it mapped yet.
LEMMA AllocStackKeeps ==
  ASSUME IInv, AllocStack
  PROVE  IInv'
<1> DEFINE n == StackPages + 2
<1>1. PICK start \in Block : /\ alloc_virtual_memory(n, start)
                             /\ stack' = [start |-> start, size |-> n]
  BY DEF AllocStack
<1>2. /\ step = "stack" /\ step' = "free low" /\ pde' = pde /\ heap' = heap
      /\ pte' = pte /\ overwritten' = overwritten
  BY DEF AllocStack, tableVars
<1>3. n \in Nat \ {0} /\ StackPages \in Nat \ {0, 1} /\ Types
  BY KernelMemoryAssumption DEF IInv
<1>4. /\ todo = Idle /\ start \in Nat /\ start + n < Total
      /\ next_free_block <= start /\ block_map[start] = "FREE"
      /\ block_map' = [b \in Block |-> IF start <= b /\ b < start + n THEN "USED"
                                       ELSE block_map[b]]
      /\ next_free_block' = start + n
      /\ \E f \in Nat : todo' = [op |-> "map", block |-> start, left |-> n, frame |-> f]
  BY <1>1, <1>3, AllocFacts
<1> HIDE DEF n
<1>5. PICK f \in Nat : todo' = [op |-> "map", block |-> start, left |-> n, frame |-> f]
  BY <1>4
<1>6. /\ heap = <<>> /\ overwritten = {} /\ \A b \in Block : block_map[b] # "USED" /\ pte[b] = NotPresent
  BY <1>2 DEF IInv, Fresh, Setup
<1>7. /\ stack'.start = start /\ stack'.size = n /\ StackEnd' = start + n
      /\ LowGuard' = start /\ HighGuard' = start + StackPages - 1
      /\ todo'.op = "map" /\ Todo' = start .. start + n - 1
      /\ Blocks(stack)' = start .. start + n - 1
  BY <1>1, <1>5 DEF StackEnd, LowGuard, HighGuard, Todo, Blocks
<1>8. Types'
  <2>1. block_map' \in [Block -> {"FREE", "USED", "RESERVED"}]
    BY <1>3, <1>4 DEF Types
  <2>2. /\ todo' \in Calls
        /\ todo'.op # "none" /\ todo' # Idle /\ todo'.left # 0
        /\ todo'.block + todo'.left <= Total
    BY <1>3, <1>4, <1>5, KernelMemoryAssumption DEF Idle, Calls, Walks
  <2>3. stack' \in [start : Nat, size : Nat]
    BY <1>1, <1>3, <1>4
  <2>4. heap' \in Seq([start : Nat, size : Nat \ {0}]) /\ pte' \in [Block -> Nat \cup {NotPresent, Foreign}]
    BY <1>2, <1>3 DEF Types
  <2>5. next_free_block' \in Nat
    BY <1>3, <1>4
  <2>6. step' \in Setup \cup Guarding \cup {"run", "hung"} /\ step' # "hung"
    BY <1>2 DEF Guarding
  <2> QED
    BY <2>1, <2>2, <2>3, <2>4, <2>5, <2>6 DEF Types
<1>9. Fresh'
  BY <1>2 DEF Fresh, Setup
<1>10. Tracked'
  <2>1. \A b \in Block : b \in Todo' <=> block_map'[b] = "USED"
    BY <1>3, <1>4, <1>6, <1>7, KernelMemoryAssumption DEF Block
  <2>2. Todo' \subseteq Block
    BY <1>3, <1>4, <1>7, KernelMemoryAssumption DEF Block
  <2> QED
    BY <1>2, <1>6, <1>7, <2>1, <2>2 DEF Tracked
<1>11. StackSet'
  <2>1. \A b \in start .. start + n - 1 : block_map'[b] = "USED"
    BY <1>3, <1>4, KernelMemoryAssumption DEF Block
  <2>2. LowGuard' \in start .. start + n - 1 /\ HighGuard' \in start .. start + n - 1
    BY <1>3, <1>4, <1>7 DEF n
  <2>3. start <= start + n
    BY <1>3, <1>4
  <2> QED
    BY <1>2, <1>4, <1>7, <2>1, <2>2, <2>3 DEF StackSet, Guard, n
<1>12. HeapBehind'
  <2>1. heap' = <<>> /\ step' \notin {"run", "hung"}
    BY <1>2, <1>6
  <2>2. DOMAIN heap' = {}
    BY <2>1
  <2> QED
    BY <2>1, <2>2 DEF HeapBehind
<1>13. Caused'
  BY <1>2, <1>6, <1>7 DEF Caused
<1> QED
  BY <1>8, <1>9, <1>10, <1>11, <1>12, <1>13 DEF IInv

\* Without address space for it the stack lies at address 0.
LEMMA AllocStackFailsKeeps ==
  ASSUME IInv, AllocStackFails
  PROVE  IInv'
<1>1. /\ step = "stack" /\ step' = "free low"
      /\ pde' = pde /\ pte' = pte /\ overwritten' = overwritten /\ todo' = todo
      /\ block_map' = block_map /\ next_free_block' = next_free_block
      /\ stack' = stack /\ heap' = heap
  BY DEF AllocStackFails, frameVars, spaceVars, tableVars
<1>2. /\ todo = Idle /\ heap = <<>> /\ stack = Nothing /\ overwritten = {}
      /\ step' \in Guarding /\ step' \notin Setup \cup {"run", "hung"}
  BY <1>1 DEF IInv, Fresh, Setup, Guarding
<1>3. Types' /\ Fresh'
  BY <1>1, <1>2 DEF IInv, Types, Fresh
<1>4. Tracked'
  BY <1>1, <1>2 DEF IInv, Tracked, Slot, P!PdeIndex, Idle, Todo
<1>5. todo'.op = "none" /\ stack' = Nothing /\ heap' = <<>> /\ overwritten' = {}
  BY <1>1, <1>2 DEF Idle
<1>6. Caused'
  BY <1>5 DEF Caused, Walks
<1>7. StackSet'
  BY <1>5 DEF StackSet
<1>8. HeapBehind'
  <2>1. DOMAIN heap' = {}
    BY <1>5
  <2> QED
    BY <1>5, <2>1 DEF HeapBehind
<1> QED
  BY <1>3, <1>4, <1>6, <1>7, <1>8 DEF IInv

\* A scan for frames that never ends leaves everything else as it was.
LEMMA FaultsKeep ==
  ASSUME IInv, alloc_virtual_memory_faults
  PROVE  IInv'
<1>1. PICK n \in HeapRequests \cup {StackPages + 2}, start \in Block :
        /\ S!alloc_virtual_space(n, start)
        /\ todo' = [op |-> "scan", block |-> start, left |-> n, frame |-> 0]
  BY DEF alloc_virtual_memory_faults
<1>2. /\ step \in {"stack", "run"} /\ step' = "hung" /\ todo = Idle
      /\ pte' = pte /\ overwritten' = overwritten /\ stack' = stack /\ heap' = heap
  BY DEF alloc_virtual_memory_faults, tableVars
<1>3. n \in Nat \ {0} /\ Types
  BY KernelMemoryAssumption DEF IInv
<1>4. /\ start \in Nat /\ start + n < Total
      /\ next_free_block <= start /\ block_map[start] = "FREE"
      /\ block_map' = [b \in Block |-> IF start <= b /\ b < start + n THEN "USED"
                                       ELSE block_map[b]]
      /\ next_free_block' = start + n
  BY <1>1, <1>3, SpaceFacts
<1>5. Types'
  <2>1. block_map' \in [Block -> {"FREE", "USED", "RESERVED"}]
    BY <1>3, <1>4 DEF Types
  <2>2. todo' \in Calls /\ todo'.op = "scan" /\ todo' # Idle
    BY <1>1, <1>3, <1>4 DEF Calls, Idle
  <2>3. next_free_block' \in Nat
    BY <1>3, <1>4
  <2> QED
    BY <1>2, <1>3, <2>1, <2>2, <2>3 DEF Types, Walks
<1>6. Fresh' /\ StackSet'
  BY <1>2 DEF Fresh, StackSet, Setup
<1>7. Tracked' /\ Caused'
  <2>1. \A b \in Block : TableSafe(b)' = TableSafe(b) /\ Slot(b)' = Slot(b)
    BY <1>2 DEF TableSafe, RunsIntoTableOf, Blocks, DirectoryPage, OwnSlot, Slot, P!PdeIndex
  <2> QED
    BY <1>1, <1>2, <2>1 DEF IInv, Tracked, Caused, Walks
<1>8. HeapBehind'
  <2>1. next_free_block \in Nat /\ next_free_block <= next_free_block' /\ next_free_block' \in Nat
    BY <1>3, <1>4 DEF Types
  <2>2. StackEnd' = StackEnd
    BY <1>2 DEF StackEnd
  <2>3. ASSUME NEW i \in DOMAIN heap
        PROVE  heap[i].start + heap[i].size <= next_free_block'
    <3> DEFINE R == [start : Nat, size : Nat \ {0}]
    <3>1. \A e \in R : e.start \in Nat /\ e.size \in Nat
      OBVIOUS
    <3>2. heap \in Seq(R)
      BY <1>3 DEF Types
    <3> HIDE DEF R
    <3>3. heap[i] \in R
      BY <3>2
    <3>4. heap[i].start \in Nat /\ heap[i].size \in Nat
      BY <3>1, <3>3
    <3>5. heap[i].start + heap[i].size <= next_free_block
      BY DEF IInv, HeapBehind
    <3> QED
      BY <2>1, <3>4, <3>5
  <2> QED
    BY <1>2, <2>2, <2>3 DEF IInv, HeapBehind
<1> QED
  BY <1>5, <1>6, <1>7, <1>8 DEF IInv

\* The order of alloc_stack's calls.
LEMMA ThenFacts ==
  /\ Then["free low"] = "reserve low" /\ Then["reserve low"] = "free high"
  /\ Then["free high"] = "reserve high" /\ Then["reserve high"] = "run"
<1>1. Then["free low"] = "reserve low"
  BY DEF Then
<1>2. Then["reserve low"] = "free high"
  BY DEF Then
<1>3. Then["free high"] = "reserve high"
  BY DEF Then
<1>4. Then["reserve high"] = "run"
  BY DEF Then
<1> QED
  BY <1>1, <1>2, <1>3, <1>4

\* Where the guards lie.
LEMMA GuardFacts ==
  ASSUME Types, StackSet, step \notin Setup \cup {"hung"}, stack # Nothing
  PROVE  /\ Blocks(stack) \subseteq Block
         /\ LowGuard \in Nat /\ LowGuard \in Block /\ LowGuard + 1 < Total
         /\ HighGuard \in Nat /\ HighGuard \in Block /\ HighGuard + 1 < Total
         /\ LowGuard < HighGuard /\ HighGuard < StackEnd
<1>1. /\ StackEnd < Total /\ stack.size = StackPages + 2 /\ stack.start \in Nat
  BY DEF StackSet, Types
<1>2. StackPages \in Nat \ {0, 1} /\ Total \in Nat
  BY KernelMemoryAssumption
<1>3. Blocks(stack) \subseteq Block
  BY <1>1, <1>2 DEF StackEnd, Blocks, Block
<1> QED
  BY <1>1, <1>2, <1>3 DEF StackEnd, LowGuard, HighGuard, Block

\* Without a stack the guards are pages of the first megabyte.
LEMMA NoStackKeeps ==
  ASSUME IInv, FreeGuard \/ ReserveGuard, stack = Nothing
  PROVE  IInv'
<1>1. LowGuard \in Nat /\ HighGuard \in Nat
  BY KernelMemoryAssumption DEF LowGuard, HighGuard, Nothing
<1>2. /\ todo = Idle /\ step \in Guarding
      /\ block_map' = block_map /\ next_free_block' = next_free_block /\ pde' = pde
      /\ pte' = pte /\ overwritten' = overwritten /\ stack' = stack /\ heap' = heap
      /\ \/ todo' = Idle /\ step' \in Guarding \cup {"run"}
         \/ /\ step' \in Guarding
            /\ \E g \in Nat : todo' = [op |-> "unmap low", block |-> g, left |-> 1, frame |-> 0]
  <2>1. CASE FreeGuard
    <3>1. step \in {"free low", "free high"} /\ step' \in {"reserve low", "reserve high"}
      BY <2>1, ThenFacts DEF FreeGuard
    <3>2. \E g \in Nat : free_virtual_memory_low(g)
      BY <1>1, <2>1 DEF FreeGuard, FreePage
    <3> QED
      BY <2>1, <3>1, <3>2 DEF FreeGuard, free_virtual_memory_low, frameVars, spaceVars, tableVars,
           Guarding
  <2>2. CASE ReserveGuard
    <3>1. step \in {"reserve low", "reserve high"} /\ step' \in {"free high", "run"}
      BY <2>2, ThenFacts DEF ReserveGuard
    <3>2. UNCHANGED spaceVars
      BY <2>2 DEF ReserveGuard, ReservePage
    <3> QED
      BY <2>2, <3>1, <3>2 DEF ReserveGuard, frameVars, spaceVars, tableVars, Guarding
  <2> QED
    BY <2>1, <2>2
<1>3. /\ step \notin Setup \cup {"run", "hung"} /\ step' \notin Setup \cup {"hung"} /\ heap = <<>>
      /\ step' = "run" => todo' = Idle
  <2>1. step \notin Setup \cup {"run", "hung"} /\ step' \notin Setup \cup {"hung"}
    BY <1>2 DEF Setup, Guarding
  <2>2. step' = "run" => todo' = Idle
    BY <1>2 DEF Guarding
  <2>3. heap = <<>>
    BY <2>1 DEF IInv, HeapBehind
  <2> QED
    BY <2>1, <2>2, <2>3
<1>4. todo' \in Calls /\ todo'.op \in {"none", "unmap low"} /\ (todo'.op = "none" <=> todo' = Idle)
  <2>1. CASE todo' = Idle
    BY <2>1 DEF Calls, Idle
  <2>2. CASE \E g \in Nat : todo' = [op |-> "unmap low", block |-> g, left |-> 1, frame |-> 0]
    <3>1. PICK g \in Nat : todo' = [op |-> "unmap low", block |-> g, left |-> 1, frame |-> 0]
      BY <2>2
    <3>2. todo'.op = "unmap low" /\ todo' \in Calls
      BY <3>1 DEF Calls
    <3>3. Idle.op = "none"
      BY DEF Idle
    <3> QED
      BY <3>2, <3>3
  <2> QED
    BY <1>2, <2>1, <2>2
<1>5. Types'
  BY <1>2, <1>3, <1>4 DEF IInv, Types, Walks
<1>6. Fresh' /\ StackSet'
  BY <1>2, <1>3 DEF Fresh, StackSet
<1>7. Tracked'
  BY <1>2, <1>3, <1>4 DEF IInv, Tracked, Slot, P!PdeIndex, Idle
<1>8. Caused'
  <2>1. \A b \in Block : TableSafe(b)' = TableSafe(b) /\ Slot(b)' = Slot(b)
    BY <1>2 DEF TableSafe, RunsIntoTableOf, Blocks, DirectoryPage, OwnSlot, Slot, P!PdeIndex
  <2> QED
    BY <1>2, <1>4, <2>1 DEF IInv, Caused, Walks
<1>9. HeapBehind'
  <2>1. heap' = <<>> /\ (step' = "run" => todo'.op = "none")
    BY <1>2, <1>3, <1>4
  <2>2. DOMAIN heap' = {}
    BY <2>1
  <2> QED
    BY <2>1, <2>2 DEF HeapBehind
<1> QED
  BY <1>5, <1>6, <1>7, <1>8, <1>9 DEF IInv

\* A guard is freed while its neighbours keep their marks.
LEMMA FreeGuardKeeps ==
  ASSUME IInv, FreeGuard, stack # Nothing
  PROVE  IInv'
<1> DEFINE g == IF step = "free low" THEN LowGuard ELSE HighGuard
<1>0. /\ step = "free low" => g = LowGuard
      /\ step # "free low" => g = HighGuard
  OBVIOUS
<1> HIDE DEF g
<1>1. /\ \/ step = "free low" /\ step' = "reserve low"
         \/ step = "free high" /\ step' = "reserve high"
      /\ free_virtual_memory(g, 1)
      /\ pde' = pde /\ pte' = pte /\ overwritten' = overwritten
      /\ stack' = stack /\ heap' = heap
  <2>1. CASE step = "free low"
    BY <1>0, <2>1, ThenFacts DEF FreeGuard, FreePage, frameVars, tableVars
  <2>2. CASE step # "free low"
    BY <1>0, <2>2, ThenFacts DEF FreeGuard, FreePage, frameVars, tableVars
  <2> QED
    BY <2>1, <2>2
<1>2. Types /\ StackSet /\ step \notin Setup \cup {"hung"} /\ step' \notin Setup \cup {"run", "hung"}
  BY <1>1 DEF IInv, Setup
<1>3. /\ Blocks(stack) \subseteq Block
      /\ LowGuard \in Nat /\ LowGuard \in Block /\ LowGuard + 1 < Total
      /\ HighGuard \in Nat /\ HighGuard \in Block /\ HighGuard + 1 < Total
      /\ LowGuard < HighGuard /\ HighGuard < StackEnd
  BY <1>2, GuardFacts
<1>4. g \in Nat /\ g \in Block /\ g + 1 < Total /\ stack.start <= g
  <2>1. LowGuard = stack.start
    BY DEF LowGuard
  <2>2. g = LowGuard \/ g = HighGuard
    BY <1>0
  <2>3. CASE g = LowGuard
    BY <1>3, <2>1, <2>3
  <2>4. CASE g = HighGuard
    BY <1>3, <2>1, <2>4
  <2> QED
    BY <2>2, <2>3, <2>4
<1>5. block_map[g] = "USED"
  BY <1>0, <1>1, <1>2 DEF StackSet, Guard
<1>6. /\ todo = Idle
      /\ block_map' = [block_map EXCEPT ![g] = "FREE"]
      /\ next_free_block' \in {next_free_block, g}
      /\ todo' = [op |-> "unmap", block |-> g, left |-> 1, frame |-> 0]
  BY <1>1, <1>2, <1>4, <1>5, FreeFacts
<1>7. /\ block_map' \in [Block -> {"FREE", "USED", "RESERVED"}]
      /\ block_map'[g] = "FREE" /\ \A b \in Block : b # g => block_map'[b] = block_map[b]
  BY <1>2, <1>4, <1>6 DEF Types
<1>8. Types'
  <2>1. /\ todo' \in Calls
        /\ todo'.op # "none" /\ todo' # Idle /\ todo'.left # 0
        /\ todo'.block + todo'.left <= Total
    BY <1>4, <1>6, KernelMemoryAssumption DEF Idle, Calls, Walks
  <2>2. step' \in Setup \cup Guarding \cup {"run", "hung"}
    BY <1>1 DEF Guarding
  <2>3. next_free_block' \in Nat
    BY <1>2, <1>4, <1>6 DEF Types
  <2> QED
    BY <1>1, <1>2, <1>7, <2>1, <2>2, <2>3 DEF Types
<1>9. Fresh'
  BY <1>2 DEF Fresh
<1>10. Tracked'
  <2>1. Todo' = {g} /\ todo'.op = "unmap"
    BY <1>4, <1>6 DEF Todo
  <2>2. ASSUME NEW b \in Block, Slot(b) \notin overwritten
        PROVE  /\ pte[b] # NotPresent => Slot(b) \in pde
               /\ pte[b] # NotPresent /\ block_map'[b] = "FREE" => b = g
               /\ ~(block_map'[b] = "USED" /\ pte[b] = NotPresent)
    <3>1. /\ pte[b] # NotPresent => Slot(b) \in pde
          /\ ~(pte[b] # NotPresent /\ block_map[b] = "FREE")
          /\ ~(block_map[b] = "USED" /\ pte[b] = NotPresent)
      BY <1>2, <1>6, <2>2 DEF IInv, Tracked, Idle
    <3> QED
      BY <1>7, <3>1
  <2>3. \A b \in Block : Slot(b)' = Slot(b)
    BY DEF Slot, P!PdeIndex
  <2> QED
    BY <1>1, <1>7, <2>1, <2>2, <2>3 DEF Tracked
<1>11. StackSet'
  <2>1. /\ LowGuard' = LowGuard /\ HighGuard' = HighGuard /\ StackEnd' = StackEnd
        /\ Blocks(stack)' = Blocks(stack)
    BY <1>1 DEF LowGuard, HighGuard, StackEnd, Blocks
  <2>2. stack.start <= next_free_block'
    BY <1>2, <1>4, <1>6 DEF StackSet
  <2>3. /\ \A b \in Blocks(stack) \ {LowGuard, HighGuard} : b \in Block /\ b # g
        /\ Slot(LowGuard)' = Slot(LowGuard) /\ Slot(HighGuard)' = Slot(HighGuard)
    BY <1>0, <1>3, <2>1 DEF Slot, P!PdeIndex
  <2>4. Guard(LowGuard, {"reserve low"}, {"free high", "reserve high", "run"})'
    BY <1>0, <1>1, <1>2, <1>3, <1>7, <2>1, <2>3 DEF StackSet, Guard
  <2>5. Guard(HighGuard, {"reserve high"}, {"run"})'
    <3>1. CASE step = "free low"
      <4>1. HighGuard # g
        <5>1. LowGuard # HighGuard
          BY <1>3
        <5> QED
          BY <1>0, <3>1, <5>1
      <4>2. block_map[HighGuard] = "USED"
        BY <1>2, <3>1 DEF StackSet, Guard
      <4> QED
        BY <1>1, <1>3, <1>7, <2>1, <2>3, <3>1, <4>1, <4>2 DEF Guard
    <3>2. CASE step = "free high"
      BY <1>0, <1>1, <1>7, <2>1, <3>2 DEF Guard
    <3> QED
      BY <1>1, <3>1, <3>2
  <2> QED
    BY <1>1, <1>2, <1>7, <2>1, <2>2, <2>3, <2>4, <2>5 DEF StackSet
<1>12. HeapBehind'
  <2>1. heap = <<>>
    BY <1>1 DEF IInv, HeapBehind
  <2>2. heap' = <<>>
    BY <1>1, <2>1
  <2>3. DOMAIN heap' = {}
    BY <2>2
  <2> QED
    BY <1>2, <2>2, <2>3 DEF HeapBehind
<1>13. Caused'
  <2>1. \A b \in Block : TableSafe(b)' = TableSafe(b) /\ Slot(b)' = Slot(b)
    BY <1>1 DEF TableSafe, RunsIntoTableOf, Blocks, DirectoryPage, OwnSlot, Slot, P!PdeIndex
  <2>2. Todo' = {g} /\ g \in Blocks(stack)' /\ todo'.op = "unmap"
    <3>1. g < StackEnd
      <4>1. LowGuard < StackEnd
        BY <1>3 DEF StackEnd, IInv, Types
      <4> QED
        BY <1>0, <1>3, <4>1
    <3>2. stack.start \in Nat /\ stack.size \in Nat
      BY <1>2 DEF Types
    <3>3. g \in stack.start .. stack.start + stack.size - 1
      BY <1>4, <3>1, <3>2 DEF StackEnd
    <3>4. todo'.block = g /\ todo'.left = 1 /\ todo'.op = "unmap"
      BY <1>6
    <3>5. g .. g + 1 - 1 = {g}
      BY <1>4
    <3> QED
      BY <1>1, <3>3, <3>4, <3>5 DEF Todo, Blocks
  <2> QED
    BY <1>1, <2>1, <2>2 DEF IInv, Caused
<1> QED
  BY <1>8, <1>9, <1>10, <1>11, <1>12, <1>13 DEF IInv

\* A freed guard is unmapped by the time it is reserved.
LEMMA ReserveGuardKeeps ==
  ASSUME IInv, ReserveGuard, stack # Nothing
  PROVE  IInv'
<1> DEFINE g == IF step = "reserve low" THEN LowGuard ELSE HighGuard
<1>0. /\ step = "reserve low" => g = LowGuard
      /\ step # "reserve low" => g = HighGuard
  OBVIOUS
<1> HIDE DEF g
<1>1. /\ \/ step = "reserve low" /\ step' = "free high"
         \/ step = "reserve high" /\ step' = "run"
      /\ S!reserve_virtual_space([start |-> g, size |-> 1])
      /\ todo = Idle /\ todo' = todo
      /\ pde' = pde /\ pte' = pte /\ overwritten' = overwritten
      /\ stack' = stack /\ heap' = heap
  <2>1. CASE step = "reserve low"
    BY <1>0, <2>1, ThenFacts DEF ReserveGuard, ReservePage, frameVars, tableVars
  <2>2. CASE step # "reserve low"
    BY <1>0, <2>2, ThenFacts DEF ReserveGuard, ReservePage, frameVars, tableVars
  <2> QED
    BY <2>1, <2>2
<1>2. /\ Types /\ StackSet /\ step \notin Setup \cup {"run", "hung"}
      /\ step' \notin Setup \cup {"hung"}
  BY <1>1 DEF IInv, Setup
<1>3. /\ Blocks(stack) \subseteq Block
      /\ LowGuard \in Nat /\ LowGuard \in Block /\ LowGuard + 1 < Total
      /\ HighGuard \in Nat /\ HighGuard \in Block /\ HighGuard + 1 < Total
      /\ LowGuard < HighGuard /\ HighGuard < StackEnd
  BY <1>2, GuardFacts
<1>4. g \in Nat /\ g \in Block /\ g + 1 < Total
  BY <1>0, <1>3
<1>5. block_map[g] = "FREE"
  BY <1>0, <1>1, <1>2 DEF StackSet, Guard
<1>6. pte[g] = NotPresent \/ Slot(g) \in overwritten
  BY <1>1, <1>2, <1>4, <1>5 DEF IInv, Tracked, Idle
<1>7. block_map' = [block_map EXCEPT ![g] = "RESERVED"] /\ next_free_block' = next_free_block
  BY <1>1, <1>2, <1>4, <1>5, ReserveFacts
<1>8. /\ block_map' \in [Block -> {"FREE", "USED", "RESERVED"}]
      /\ block_map'[g] = "RESERVED" /\ \A b \in Block : b # g => block_map'[b] = block_map[b]
  BY <1>2, <1>4, <1>7 DEF Types
<1>9. Types'
  <2>1. step' \in Setup \cup Guarding \cup {"run", "hung"}
    BY <1>1 DEF Guarding
  <2> QED
    BY <1>1, <1>2, <1>7, <1>8, <2>1 DEF Types
<1>10. Fresh'
  BY <1>2 DEF Fresh
<1>11. Tracked'
  <2>1. ASSUME NEW b \in Block, Slot(b) \notin overwritten
        PROVE  /\ pte[b] # NotPresent => Slot(b) \in pde
               /\ ~(pte[b] # NotPresent /\ block_map'[b] = "FREE")
               /\ ~(block_map'[b] = "USED" /\ pte[b] = NotPresent)
    <3>1. /\ pte[b] # NotPresent => Slot(b) \in pde
          /\ ~(pte[b] # NotPresent /\ block_map[b] = "FREE")
          /\ ~(block_map[b] = "USED" /\ pte[b] = NotPresent)
      BY <1>1, <1>2, <2>1 DEF IInv, Tracked, Idle
    <3> QED
      BY <1>8, <3>1
  <2>2. todo'.op = "none" /\ todo.op = "none"
    BY <1>1 DEF Idle
  <2>3. \A b \in Block : Slot(b)' = Slot(b)
    BY DEF Slot, P!PdeIndex
  <2> QED
    BY <1>1, <2>1, <2>2, <2>3 DEF Tracked
<1>12. StackSet'
  <2>1. /\ LowGuard' = LowGuard /\ HighGuard' = HighGuard /\ StackEnd' = StackEnd
        /\ Blocks(stack)' = Blocks(stack)
    BY <1>1 DEF LowGuard, HighGuard, StackEnd, Blocks
  <2>2. /\ \A b \in Blocks(stack) \ {LowGuard, HighGuard} : b \in Block /\ b # g
        /\ Slot(LowGuard)' = Slot(LowGuard) /\ Slot(HighGuard)' = Slot(HighGuard)
    BY <1>0, <1>3, <2>1 DEF Slot, P!PdeIndex
  <2>3. Guard(LowGuard, {"reserve low"}, {"free high", "reserve high", "run"})'
    BY <1>0, <1>1, <1>2, <1>3, <1>6, <1>8, <2>1, <2>2 DEF StackSet, Guard
  <2>4. Guard(HighGuard, {"reserve high"}, {"run"})'
    BY <1>0, <1>1, <1>2, <1>3, <1>6, <1>8, <2>1, <2>2 DEF StackSet, Guard
  <2> QED
    BY <1>1, <1>2, <1>7, <1>8, <2>1, <2>2, <2>3, <2>4 DEF StackSet
<1>13. HeapBehind'
  <2>1. heap = <<>>
    BY <1>2 DEF IInv, HeapBehind
  <2>2. heap' = <<>>
    BY <1>1, <2>1
  <2>3. DOMAIN heap' = {}
    BY <2>2
  <2>4. todo'.op = "none"
    BY <1>1 DEF Idle
  <2> QED
    BY <2>2, <2>3, <2>4 DEF HeapBehind
<1>14. Caused'
  <2>1. \A b \in Block : TableSafe(b)' = TableSafe(b) /\ Slot(b)' = Slot(b)
    BY <1>1 DEF TableSafe, RunsIntoTableOf, Blocks, DirectoryPage, OwnSlot, Slot, P!PdeIndex
  <2> QED
    BY <1>1, <2>1 DEF IInv, Caused, Walks, Idle
<1> QED
  BY <1>9, <1>10, <1>11, <1>12, <1>13, <1>14 DEF IInv

\* What liballoc gets lies behind the stack: the search starts at the lower
\* guard, but no block of the stack is free.
LEMMA liballoc_allocKeeps ==
  ASSUME IInv, liballoc_alloc
  PROVE  IInv'
<1>1. PICK n \in HeapRequests, start \in Block :
        /\ alloc_virtual_memory(n, start)
        /\ heap' = Append(heap, [start |-> start, size |-> n])
  BY DEF liballoc_alloc
<1>2. /\ step = "run" /\ step' = step
      /\ pde' = pde /\ pte' = pte /\ overwritten' = overwritten /\ stack' = stack
  BY DEF liballoc_alloc, tableVars
<1>3. n \in Nat \ {0} /\ Total \in Nat /\ Types /\ StackSet /\ HeapBehind
      /\ step \notin Setup \cup {"hung"}
  BY <1>2, KernelMemoryAssumption DEF IInv, Setup
<1>4. /\ todo = Idle /\ start \in Nat /\ start + n < Total
      /\ next_free_block <= start /\ block_map[start] = "FREE"
      /\ block_map' = [b \in Block |-> IF start <= b /\ b < start + n THEN "USED"
                                       ELSE block_map[b]]
      /\ next_free_block' = start + n
      /\ \E f \in Nat : todo' = [op |-> "map", block |-> start, left |-> n, frame |-> f]
  BY <1>1, <1>3, AllocFacts
<1>5. PICK f \in Nat : todo' = [op |-> "map", block |-> start, left |-> n, frame |-> f]
  BY <1>4
<1>6. stack # Nothing =>
      /\ Blocks(stack) \subseteq Block
      /\ LowGuard \in Nat /\ LowGuard \in Block /\ LowGuard + 1 < Total
      /\ HighGuard \in Nat /\ HighGuard \in Block /\ HighGuard + 1 < Total
      /\ LowGuard < HighGuard /\ HighGuard < StackEnd
  BY <1>3, GuardFacts
<1>7. StackEnd <= start
  <2>1. CASE stack = Nothing
    BY <1>4, <2>1 DEF StackEnd, Nothing
  <2>2. CASE stack # Nothing
    <3>0. stack.start <= next_free_block
      BY <1>3, <2>2 DEF StackSet
    <3>1. stack.start \in Nat /\ stack.size \in Nat /\ next_free_block \in Nat
      BY <1>3 DEF Types
    <3>2. stack.start <= start
      BY <1>4, <3>0, <3>1
    <3>3. start \notin Blocks(stack)
      <4>1. \A b \in Blocks(stack) : block_map[b] # "FREE"
        BY <1>2, <1>3, <2>2 DEF StackSet, Guard, Setup
      <4> QED
        BY <1>4, <4>1
    <3> QED
      BY <1>4, <3>1, <3>2, <3>3 DEF Blocks, StackEnd
  <2> QED
    BY <2>1, <2>2
<1>8. StackEnd \in Nat
  BY <1>3 DEF Types, StackEnd
<1>9. /\ block_map' \in [Block -> {"FREE", "USED", "RESERVED"}]
      /\ \A b \in Block : b < start => block_map'[b] = block_map[b]
      /\ \A b \in Block : block_map'[b] = block_map[b] \/ b \in Todo'
      /\ Todo' \subseteq Block /\ \A b \in Todo' : block_map'[b] = "USED"
  <2>1. Todo' = start .. start + n - 1
    BY <1>5 DEF Todo
  <2>2. \A b \in Block : b \in Nat
    BY <1>3 DEF Block
  <2>3. \A b \in Block : block_map'[b] = IF start <= b /\ b < start + n THEN "USED" ELSE block_map[b]
    BY <1>4
  <2>4. block_map' \in [Block -> {"FREE", "USED", "RESERVED"}]
    BY <1>3, <1>4 DEF Types
  <2>5. Todo' \subseteq Block
    BY <1>3, <1>4, <2>1 DEF Block
  <2>6. \A b \in Todo' : block_map'[b] = "USED"
    BY <1>3, <1>4, <2>1, <2>3, <2>5
  <2>7. ASSUME NEW b \in Block
        PROVE  /\ b < start => block_map'[b] = block_map[b]
               /\ block_map'[b] = block_map[b] \/ b \in Todo'
    BY <1>3, <1>4, <2>1, <2>2, <2>3
  <2> QED
    BY <2>4, <2>5, <2>6, <2>7
<1>10. Types'
  <2>1. /\ todo' \in Calls
        /\ todo'.op # "none" /\ todo' # Idle /\ todo'.left # 0
        /\ todo'.block + todo'.left <= Total
    BY <1>3, <1>4, <1>5 DEF Idle, Calls, Walks
  <2>2. heap' \in Seq([start : Nat, size : Nat \ {0}])
    BY <1>1, <1>3, <1>4 DEF Types
  <2>3. next_free_block' \in Nat
    BY <1>3, <1>4
  <2> QED
    BY <1>2, <1>3, <1>9, <2>1, <2>2, <2>3 DEF Types
<1>11. Fresh'
  BY <1>2, <1>3 DEF Fresh
<1>12. Tracked'
  <2>1. todo'.op = "map"
    BY <1>5
  <2>2. ASSUME NEW b \in Block, Slot(b) \notin overwritten
        PROVE  /\ pte[b] # NotPresent => Slot(b) \in pde
               /\ ~(pte[b] # NotPresent /\ block_map[b] = "FREE")
               /\ ~(block_map[b] = "USED" /\ pte[b] = NotPresent)
    BY <1>3, <1>4, <2>2 DEF IInv, Tracked, Idle
  <2>3. \A b \in Block : Slot(b)' = Slot(b)
    BY DEF Slot, P!PdeIndex
  <2>4. ASSUME NEW b \in Block, Slot(b) \notin overwritten
        PROVE  /\ ~(pte[b] # NotPresent /\ block_map'[b] = "FREE")
               /\ block_map'[b] = "USED" /\ pte[b] = NotPresent => b \in Todo'
    BY <1>9, <2>2, <2>4
  <2> QED
    BY <1>2, <1>9, <2>1, <2>2, <2>3, <2>4 DEF Tracked
<1>13. StackSet'
  <2>1. CASE stack = Nothing
    BY <1>2, <2>1 DEF StackSet
  <2>2. CASE stack # Nothing
    <3>1. /\ LowGuard' = LowGuard /\ HighGuard' = HighGuard /\ StackEnd' = StackEnd
          /\ Blocks(stack)' = Blocks(stack)
          /\ Slot(LowGuard)' = Slot(LowGuard) /\ Slot(HighGuard)' = Slot(HighGuard)
      BY <1>2 DEF LowGuard, HighGuard, StackEnd, Blocks, Slot, P!PdeIndex
    <3>2. stack.start <= next_free_block'
      <4>1. stack.start \in Nat /\ next_free_block \in Nat
        BY <1>3 DEF Types
      <4>2. stack.start <= next_free_block
        BY <1>3, <2>2 DEF StackSet
      <4> QED
        BY <1>3, <1>4, <4>1, <4>2
    <3>3. \A b \in Blocks(stack) : block_map'[b] = block_map[b]
      <4>1. \A b \in Blocks(stack) : b \in Block /\ b < start
        BY <1>3, <1>4, <1>6, <1>7, <1>8, <2>2 DEF Blocks, StackEnd, Types
      <4> QED
        BY <1>9, <4>1
    <3>4. LowGuard \in Blocks(stack) /\ HighGuard \in Blocks(stack)
      BY <1>3, <1>6, <2>2 DEF Blocks, LowGuard, StackEnd, Types
    <3> QED
      BY <1>2, <1>3, <2>2, <3>1, <3>2, <3>3, <3>4 DEF StackSet, Guard
  <2> QED
    BY <2>1, <2>2
<1>14. HeapBehind'
  <2> DEFINE r == [start |-> start, size |-> n]
  <2>1. /\ r \in [start : Nat, size : Nat \ {0}] /\ r.start = start /\ r.size = n
        /\ heap \in Seq([start : Nat, size : Nat \ {0}]) /\ heap' = Append(heap, r)
    BY <1>1, <1>3, <1>4 DEF Types
  <2> HIDE DEF r
  <2>2. /\ DOMAIN heap = 1 .. Len(heap) /\ DOMAIN heap' = 1 .. Len(heap) + 1 /\ Len(heap) \in Nat
        /\ \A i \in DOMAIN heap : heap'[i] = heap[i] /\ heap[i].start \in Nat /\ heap[i].size \in Nat
        /\ heap'[Len(heap) + 1] = r
    <3> DEFINE R == [start : Nat, size : Nat \ {0}]
    <3>1. \A e \in R : e.start \in Nat /\ e.size \in Nat
      OBVIOUS
    <3>2. r \in R /\ heap \in Seq(R) /\ heap' = Append(heap, r)
      BY <2>1
    <3> HIDE DEF R
    <3>3. DOMAIN heap = 1 .. Len(heap) /\ Len(heap) \in Nat /\ \A i \in DOMAIN heap : heap[i] \in R
      BY <3>2
    <3>4. /\ DOMAIN heap' = 1 .. Len(heap) + 1
          /\ \A i \in 1 .. Len(heap) : heap'[i] = heap[i]
          /\ heap'[Len(heap) + 1] = r
      BY <3>2
    <3> QED
      BY <3>1, <3>3, <3>4
  <2>3. next_free_block \in Nat
    BY <1>3 DEF Types
  <2>4. ASSUME NEW i \in DOMAIN heap'
        PROVE  /\ StackEnd <= heap'[i].start
               /\ heap'[i].start + heap'[i].size <= next_free_block'
    <3>1. CASE i \in DOMAIN heap
      BY <1>3, <1>4, <1>8, <2>2, <2>3, <3>1 DEF HeapBehind
    <3>2. CASE i = Len(heap) + 1
      BY <1>3, <1>4, <1>7, <2>1, <2>2, <3>2
    <3> QED
      BY <2>2, <3>1, <3>2
  <2>5. ASSUME NEW i \in DOMAIN heap', NEW j \in DOMAIN heap', i < j
        PROVE  heap'[i].start + heap'[i].size <= heap'[j].start
    <3>1. i \in DOMAIN heap
      BY <2>2, <2>5
    <3>2. CASE j \in DOMAIN heap
      BY <1>3, <2>2, <2>5, <3>1, <3>2 DEF HeapBehind
    <3>3. CASE j = Len(heap) + 1
      <4>1. heap[i].start + heap[i].size <= next_free_block
        BY <1>3, <3>1 DEF HeapBehind
      <4> QED
        BY <1>4, <2>1, <2>2, <2>3, <3>1, <3>3, <4>1
    <3> QED
      BY <2>2, <3>2, <3>3
  <2>6. StackEnd' = StackEnd /\ todo'.op = "map" /\ todo'.block = start
    BY <1>2, <1>5 DEF StackEnd
  <2> QED
    BY <1>2, <1>7, <2>4, <2>5, <2>6 DEF HeapBehind
<1>15. Caused'
  <2> DEFINE r == [start |-> start, size |-> n]
  <2>1. /\ \A i \in DOMAIN heap : i \in DOMAIN heap' /\ heap'[i] = heap[i]
        /\ Len(heap) + 1 \in DOMAIN heap' /\ heap'[Len(heap) + 1] = r
    <3> DEFINE R == [start : Nat, size : Nat \ {0}]
    <3>1. r \in R /\ heap \in Seq(R) /\ heap' = Append(heap, r)
      BY <1>1, <1>3, <1>4 DEF Types
    <3> HIDE DEF R, r
    <3> QED
      BY <3>1
  <2>2. Todo' = Blocks(r)' /\ Blocks(r)' = Blocks(heap'[Len(heap) + 1])
    <3>1. Todo' = start .. start + n - 1
      BY <1>5 DEF Todo
    <3>2. heap'[Len(heap) + 1].start = start /\ heap'[Len(heap) + 1].size = n
      BY <2>1
    <3> QED
      BY <3>1, <3>2 DEF Blocks
  <2> HIDE DEF r
  <2>3. ASSUME NEW b \in Block, ~TableSafe(b)
        PROVE  ~TableSafe(b)'
    BY <1>2, <2>1, <2>3 DEF TableSafe, RunsIntoTableOf, Blocks, DirectoryPage, OwnSlot, Slot, P!PdeIndex
  <2>4. \A b \in Block : Slot(b)' = Slot(b)
    BY DEF Slot, P!PdeIndex
  <2>5. \E i \in DOMAIN heap' : Todo' \subseteq Blocks(heap[i])'
    <3>1. Todo' \subseteq Blocks(heap'[Len(heap) + 1])
      BY <2>2
    <3> QED
      BY <2>1, <3>1 DEF Blocks
  <2> QED
    BY <1>2, <2>3, <2>4, <2>5 DEF IInv, Caused
<1> QED
  BY <1>10, <1>11, <1>12, <1>13, <1>14, <1>15 DEF IInv

-------------------------------------------------------------------------------
(* The results *)

LEMMA NextKeeps ==
  ASSUME IInv, [Next]_vars
  PROVE  IInv'
<1>1. CASE UNCHANGED vars
  <2>1. UNCHANGED <<block_map, next_free_block, pte, overwritten, pde, step, todo, stack, heap>>
    BY <1>1 DEF vars, spaceVars, frameVars, tableVars
  <2>2. Types' /\ Fresh'
    BY <2>1 DEF IInv, Types, Fresh
  <2>3. Tracked'
    BY <2>1 DEF IInv, Tracked, Todo, Slot, P!PdeIndex
  <2>4. StackSet'
    BY <2>1 DEF IInv, StackSet, Guard, LowGuard, HighGuard, StackEnd, Blocks, Slot, P!PdeIndex
  <2>5. HeapBehind'
    BY <2>1 DEF IInv, HeapBehind, StackEnd
  <2>6. Caused'
    <3>1. \A b \in Block : TableSafe(b)' = TableSafe(b) /\ Slot(b)' = Slot(b)
      BY <2>1 DEF TableSafe, RunsIntoTableOf, Blocks, DirectoryPage, OwnSlot, Slot, P!PdeIndex
    <3>2. /\ Todo' = Todo /\ Blocks(stack)' = Blocks(stack)
          /\ \A i \in DOMAIN heap : Blocks(heap[i])' = Blocks(heap[i])
      BY <2>1 DEF Todo, Blocks
    <3> QED
      BY <2>1, <3>1, <3>2 DEF IInv, Caused
  <2> QED
    BY <2>2, <2>3, <2>4, <2>5, <2>6 DEF IInv
<1>2. CASE liballoc_alloc_null \/ Faulting
  BY <1>1, <1>2 DEF liballoc_alloc_null, Faulting
<1>3. CASE FreeGuard \/ ReserveGuard
  <2>1. CASE stack = Nothing
    BY <1>3, <2>1, NoStackKeeps
  <2>2. CASE stack # Nothing
    BY <1>3, <2>2, FreeGuardKeeps, ReserveGuardKeeps
  <2> QED
    BY <2>1, <2>2
<1> QED
  BY <1>1, <1>2, <1>3, PagerInitKeeps, init_kernel_mmuKeeps, MapPageKeeps, UnmapPageKeeps,
     UnmapLowPageKeeps, AllocStackKeeps, AllocStackFailsKeeps, FaultsKeep,
     liballoc_allocKeeps DEF Next

\* The inductive invariant holds of SYSTEM::Init and of everything liballoc
\* asks of the kernel's memory afterwards.
THEOREM Invariant == Spec => []IInv
<1>1. IInv /\ [Next]_vars => IInv'
  BY NextKeeps
<1> QED
  BY <1>1, InitHolds, PTL DEF Spec

\* The two guard pages of alloc_stack stay reserved, and without a translation
\* until an allocation runs over their page table; no allocation of the heap
\* meets the stack or an earlier one.
THEOREM GuardsSafe == Spec => []GuardsKept
<1>1. ASSUME IInv PROVE GuardsKept
  <2>1. Types /\ StackSet /\ HeapBehind
    BY <1>1 DEF IInv
  <2>2. ASSUME step = "run", stack # Nothing, NEW g \in {LowGuard, HighGuard}
        PROVE  block_map[g] = "RESERVED" /\ (TableSafe(g) => pte[g] = NotPresent)
    <3>1. step \notin Setup \cup {"hung"}
      BY <2>2 DEF Setup
    <3>2. g \in Block
      BY <2>1, <2>2, <3>1, GuardFacts
    <3>3. block_map[g] = "RESERVED" /\ (pte[g] = NotPresent \/ Slot(g) \in overwritten)
      BY <2>1, <2>2, <3>1 DEF StackSet, Guard
    <3>4. Slot(g) \in overwritten => ~TableSafe(g)
      BY <1>1, <3>2 DEF IInv, Caused
    <3> QED
      BY <3>3, <3>4
  <2>3. ASSUME NEW i \in DOMAIN heap
        PROVE  heap[i].start \in Nat /\ heap[i].size \in Nat \ {0}
    <3> DEFINE R == [start : Nat, size : Nat \ {0}]
    <3>1. \A e \in R : e.start \in Nat /\ e.size \in Nat \ {0}
      OBVIOUS
    <3>2. heap \in Seq(R)
      BY <2>1 DEF Types
    <3> HIDE DEF R
    <3>3. heap[i] \in R
      BY <3>2
    <3> QED
      BY <3>1, <3>3
  <2>4. stack.start \in Nat /\ stack.size \in Nat
    BY <2>1 DEF Types
  <2>5. ASSUME NEW i \in DOMAIN heap
        PROVE  Blocks(heap[i]) \cap Blocks(stack) = {}
    <3>1. StackEnd <= heap[i].start
      BY <2>1 DEF HeapBehind
    <3> QED
      BY <2>3, <2>4, <3>1 DEF Blocks, StackEnd
  <2>6. ASSUME NEW i \in DOMAIN heap, NEW j \in DOMAIN heap, i < j
        PROVE  Blocks(heap[i]) \cap Blocks(heap[j]) = {}
    <3>1. heap[i].start + heap[i].size <= heap[j].start
      BY <2>1, <2>6 DEF HeapBehind
    <3> QED
      BY <2>3, <3>1 DEF Blocks
  <2>7. \A i \in DOMAIN heap : i \in Nat
    BY <2>1 DEF Types
  <2>8. ASSUME NEW i \in DOMAIN heap, NEW j \in DOMAIN heap, i # j
        PROVE  Blocks(heap[i]) \cap Blocks(heap[j]) = {}
    <3>1. i < j \/ j < i
      BY <2>7, <2>8
    <3> QED
      BY <2>6, <3>1
  <2> QED
    BY <2>2, <2>5, <2>8 DEF GuardsKept
<1> QED
  BY <1>1, Invariant, PTL

\* Between calls of the memory manager a mapped page is not free address space,
\* and address space in use is mapped, unless an allocation has run over the
\* page table that says so.
THEOREM TablesTracked == Spec => []TranslationsTracked
<1>1. ASSUME IInv PROVE TranslationsTracked
  <2> SUFFICES ASSUME todo = Idle, NEW b \in Block, TableSafe(b)
               PROVE  /\ pte[b] # NotPresent => block_map[b] # "FREE"
                      /\ block_map[b] = "USED" => pte[b] # NotPresent
    BY DEF TranslationsTracked
  <2>1. Slot(b) \notin overwritten
    BY <1>1 DEF IInv, Caused
  <2>2. step # "hung"
    BY <1>1 DEF IInv, Types, Idle
  <2> QED
    BY <1>1, <2>1, <2>2 DEF IInv, Tracked, Idle
<1> QED
  BY <1>1, Invariant, PTL

\* No call moves or unmaps a page of the stack SYSTEM::Init switches to, unless
\* an allocation has run into the window as far as the stack's page table.
THEOREM StackStays == Spec => StackKept
<1>1. ASSUME IInv, [Next]_vars, step = "run", stack # Nothing, NEW b \in Usable, pte'[b] # pte[b]
      PROVE  ~TableSafe(b)
  <2>1. ~UnmapPage
    BY <1>1 DEF UnmapPage, IInv, HeapBehind
  <2>2. MapPage
    BY <1>1, <2>1 DEF Next, vars, PagerInit, init_kernel_mmu, AllocStack, AllocStackFails,
         FreeGuard, ReserveGuard, liballoc_alloc, liballoc_alloc_null, UnmapLowPage,
         alloc_virtual_memory_faults, Faulting, tableVars
  <2> DEFINE b0 == todo.block
  <2>3. /\ SetPte(b0, todo.frame) /\ todo.op \in Walks /\ todo.op # "none" /\ Advance
    BY <2>2 DEF MapPage, Walks
  <2>4. Types /\ StackSet /\ HeapBehind /\ step \notin Setup \cup {"hung"}
    BY <1>1 DEF IInv, Setup
  <2>5. b0 \in Block /\ b0 \in Todo /\ b0 \in Nat /\ todo.frame \in Nat
    BY <2>3, <2>4, Advanced DEF Types, Calls
  <2>6. StackEnd <= b0
    BY <1>1, <2>3, <2>4 DEF HeapBehind
  <2> HIDE DEF b0
  <2>7. /\ LowGuard \in Nat /\ HighGuard \in Nat /\ HighGuard < StackEnd
        /\ HighGuard + 1 < Total /\ StackEnd \in Nat /\ Total \in Nat
    BY <1>1, <2>4, GuardFacts, KernelMemoryAssumption DEF StackEnd, Types
  <2>8. b \in Block /\ b # b0
    BY <1>1, <2>5, <2>6, <2>7 DEF Usable, Block
  <2>9. b0 \in {DirectoryPage(Slot(b)), DirectoryPage(OwnSlot)}
    BY <1>1, <2>3, <2>4, <2>5, <2>8, SetPteFacts
  <2>10. \/ b0 \in Blocks(stack)
         \/ \E i \in DOMAIN heap : b0 \in Blocks(heap[i])
    BY <1>1, <2>3, <2>5 DEF IInv, Caused
  <2> QED
    BY <2>9, <2>10 DEF TableSafe, RunsIntoTableOf
<1>2. IInv /\ [Next]_vars =>
        [step = "run" /\ stack # Nothing =>
           \A b \in Usable : pte'[b] = pte[b] \/ ~TableSafe(b)]_vars
  BY <1>1
<1> QED
  BY <1>2, Invariant, PTL DEF Spec, StackKept
===============================================================================
