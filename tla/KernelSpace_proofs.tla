-------------------------- MODULE KernelSpace_proofs --------------------------
(***************************************************************************)
(* What holds of the kernel's address space for every number of blocks,    *)
(* windows, holders and requests.                                          *)
(***************************************************************************)
EXTENDS KernelSpace, SequenceTheorems, TLAPS

LEMMA WindowType ==
  ASSUME TypeOK, SetUp
  PROVE  Windows[window] \in Extent
<1>1. Windows \in Seq(Extent) /\ Len(Windows) \in Nat
  BY WindowsAssumption, LenProperties
<1>2. window \in 1 .. Len(Windows)
  BY <1>1 DEF TypeOK, SetUp
<1> QED
  BY <1>1, <1>2, ElementOfSeq

\* An allocation starts at a free block at or above the cursor and ends
\* before the last block.
LEMMA AllocFacts ==
  ASSUME TypeOK, NEW n \in Requests, NEW start \in Block,
         alloc_virtual_space(n, start)
  PROVE  /\ n \in Nat \ {0} /\ start \in Nat
         /\ start + n < Total
         /\ next_free_block <= start
         /\ block_map[start] = FREE
         /\ next_free_block' = start + n
         /\ \A b \in Block : block_map'[b] = IF b \in start .. start + n - 1
                                               THEN "USED" ELSE block_map[b]
BY TotalAssumption, RequestsAssumption
   DEF TypeOK, Block, alloc_virtual_space, IsLeast, FreeStarts, Fill

\* Freeing and reserving change blocks of the range only.
LEMMA FreeFacts ==
  ASSUME TypeOK, NEW r \in Extent, free_virtual_space(r)
  PROVE  /\ \A b \in Block : b \notin Blocks(r) => block_map'[b] = block_map[b]
         /\ \A b \in Block : block_map'[b] \in {block_map[b], FREE}
         /\ next_free_block' \in {next_free_block, r.start}
         /\ next_free_block' <= next_free_block
         /\ (InRange(r) /\ \A b \in Blocks(r) : block_map[b] # FREE)
               => /\ next_free_block' <= r.start
                  /\ \A b \in Blocks(r) : b \in Block /\ block_map'[b] = FREE
<1> DEFINE freed == Prefix(r, {"USED", "RESERVED"})
<1>1. freed \subseteq Blocks(r)
  BY DEF Prefix
<1>2. Blocks(r) \subseteq Nat /\ r.start \in Nat /\ next_free_block \in Nat
  BY TotalAssumption DEF Blocks, Extent, TypeOK, Block
<1>3. ASSUME InRange(r), \A b \in Blocks(r) : block_map[b] # FREE
      PROVE  freed = Blocks(r) /\ Blocks(r) \subseteq Block
  <2>1. Blocks(r) \subseteq Block
    BY <1>2, <1>3, TotalAssumption DEF Blocks, InRange, Extent, Block
  <2>2. \A b \in Blocks(r) : block_map[b] \in {"USED", "RESERVED"}
    BY <1>3, <2>1 DEF TypeOK, FREE
  <2>3. \A b \in Blocks(r) : r.start .. b \subseteq Blocks(r)
    BY <1>2 DEF Blocks, Extent
  <2> QED
    BY <1>1, <2>1, <2>2, <2>3 DEF Prefix
<1>4. CASE ~InRange(r)
  BY <1>2, <1>4 DEF free_virtual_space
<1>5. CASE InRange(r)
  <2>1. block_map' = Fill(freed, FREE)
    BY <1>5 DEF free_virtual_space
  <2>2. next_free_block' = IF freed = Blocks(r) /\ r.start < next_free_block
                             THEN r.start ELSE next_free_block
    BY <1>5 DEF free_virtual_space
  <2> HIDE DEF freed
  <2>3. \A b \in Block : block_map'[b] = IF b \in freed THEN FREE ELSE block_map[b]
    BY <2>1 DEF Fill
  <2> QED
    BY <1>1, <1>2, <1>3, <2>2, <2>3
<1> QED
  BY <1>4, <1>5

LEMMA InitType == Init => TypeOK
BY TotalAssumption DEF Init, TypeOK, Block, Extent, Nothing, FREE

LEMMA NextType == TypeOK /\ [Next]_vars => TypeOK'
<1> SUFFICES ASSUME TypeOK, [Next]_vars PROVE TypeOK'
  OBVIOUS
<1>1. CASE UNCHANGED vars
  BY <1>1 DEF vars, TypeOK, InRange
<1>2. CASE init_kernel_mmu
  <2>1. block_map' \in [Block -> {"FREE", "USED", "RESERVED"}]
    BY <1>2 DEF init_kernel_mmu, reserve_virtual_space, Fill, TypeOK
  <2>2. next_free_block' = next_free_block /\ window' = window + 1 /\ held' = held
        /\ usage' = usage
    BY <1>2 DEF init_kernel_mmu, reserve_virtual_space
  <2> QED
    BY <2>1, <2>2 DEF TypeOK, InRange
<1>3. ASSUME NEW h \in Holders, Alloc(h) PROVE TypeOK'
  <2>1. PICK n \in Requests, start \in Block :
          /\ alloc_virtual_space(n, start)
          /\ held' = [held EXCEPT ![h] = [start |-> start, size |-> n]]
    BY <1>3 DEF Alloc, Asked
  <2>2. n \in Nat \ {0} /\ start \in Nat /\ start + n < Total /\ next_free_block' = start + n
    BY <2>1, AllocFacts
  <2>3. block_map' \in [Block -> {"FREE", "USED", "RESERVED"}]
    BY <2>1 DEF alloc_virtual_space, Fill, TypeOK
  <2>4. next_free_block' \in Block
    BY <2>2, TotalAssumption DEF Block
  <2>5. held' \in [Holders -> Extent]
    BY <2>1, <2>2 DEF TypeOK, Extent
  <2>6. \A g \in Holders :
          held'[g] = Nothing \/ (held'[g].size > 0 /\ held'[g].start + held'[g].size < Total)
    BY <2>1, <2>2 DEF TypeOK, InRange
  <2> QED
    BY <1>3, <2>3, <2>4, <2>5, <2>6 DEF Alloc, TypeOK, InRange
<1>4. ASSUME NEW h \in Holders, Free(h) PROVE TypeOK'
  <2>1. held[h] \in Extent /\ free_virtual_space(held[h])
    BY <1>4 DEF Free, TypeOK
  <2>2. block_map' \in [Block -> {"FREE", "USED", "RESERVED"}]
    BY <2>1 DEF free_virtual_space, Fill, TypeOK, FREE
  <2>3. next_free_block' \in Block
    BY <2>1, FreeFacts, TotalAssumption DEF TypeOK, Block, Extent
  <2>4. held' \in [Holders -> Extent]
    BY <1>4 DEF Free, TypeOK, Nothing, Extent
  <2>5. \A g \in Holders :
          held'[g] = Nothing \/ (held'[g].size > 0 /\ held'[g].start + held'[g].size < Total)
    BY <1>4 DEF Free, TypeOK, InRange, Nothing
  <2> QED
    BY <1>4, <2>2, <2>3, <2>4, <2>5 DEF Free, TypeOK, InRange
<1>5. ASSUME NEW h \in Holders, AllocFails(h) PROVE TypeOK'
  BY <1>1, <1>5 DEF AllocFails
<1> QED
  BY <1>1, <1>2, <1>3, <1>4, <1>5 DEF Next

\* The block map and the cursor keep their types, and nobody is ever given
\* the last block, so no address computed from a range wraps at 4 GB.
THEOREM TypeCorrect == Spec => []TypeOK
BY InitType, NextType, PTL DEF Spec

-------------------------------------------------------------------------------
(* The parts of the invariant *)

\* Every holder's blocks are its own and marked USED.
Owned == HoldersDisjoint /\ HeldMarked

LEMMA HeldInBlocks ==
  ASSUME TypeOK, NEW h \in Holders, NEW b \in Blocks(held[h])
  PROVE  b \in Block
<1>1. held[h] \in Extent /\ (held[h] = Nothing \/ InRange(held[h]))
  BY DEF TypeOK
<1>2. CASE held[h] = Nothing
  BY <1>2 DEF Blocks, Nothing
<1>3. CASE InRange(held[h])
  BY <1>1, <1>3, TotalAssumption DEF InRange, Blocks, Block, Extent
<1> QED
  BY <1>1, <1>2, <1>3

LEMMA SetUpKeeps ==
  ASSUME TypeOK, Owned, init_kernel_mmu
  PROVE  Owned' /\ next_free_block' = next_free_block /\ held' = held
         /\ \A b \in Block : block_map[b] # FREE => block_map'[b] # FREE
<1>1. Windows[window] \in Extent
  BY WindowType DEF init_kernel_mmu
<1>2. \A b \in Block : block_map[b] # FREE => block_map'[b] = block_map[b]
  <2> DEFINE w == Windows[window]
  <2>1. ASSUME NEW b \in Block, b \in Prefix(w, {FREE}) PROVE block_map[b] = FREE
    <3>1. b \in w.start .. b
      BY <1>1, <2>1 DEF Prefix, Blocks, Extent
    <3> QED
      BY <2>1, <3>1 DEF Prefix
  <2> HIDE DEF w
  <2> QED
    BY <2>1 DEF init_kernel_mmu, reserve_virtual_space, Fill, w, TypeOK
<1>3. next_free_block' = next_free_block /\ held' = held
  BY DEF init_kernel_mmu, reserve_virtual_space
<1>4. \A h \in Holders : \A b \in Blocks(held[h]) : b \in Block
  BY HeldInBlocks
<1> QED
  BY <1>2, <1>3, <1>4 DEF Owned, HoldersDisjoint, HeldMarked, FREE

\* What a new allocation needs to keep every holder's blocks its own.
LEMMA AllocOwned ==
  ASSUME TypeOK, Owned, NEW h \in Holders, NEW n \in Requests, NEW start \in Block,
         alloc_virtual_space(n, start),
         held' = [held EXCEPT ![h] = [start |-> start, size |-> n]],
         \A g \in Holders : Blocks(held[g]) \cap (start .. start + n - 1) = {}
  PROVE  Owned'
<1> DEFINE new == start .. start + n - 1
<1>1. Blocks(held'[h]) = new
  BY DEF TypeOK, Blocks
<1>2. \A g \in Holders : g # h => held'[g] = held[g]
  BY DEF TypeOK
<1>3. \A g \in Holders : \A b \in Blocks(held[g]) : b \in Block
  BY HeldInBlocks
<1>4. \A b \in new : b \in Block
  BY AllocFacts, TotalAssumption DEF Block
<1>5. \A b \in Block : block_map'[b] = IF b \in new THEN "USED" ELSE block_map[b]
  BY AllocFacts
<1> HIDE DEF new
<1>6. \A g \in Holders : Blocks(held[g]) \cap new = {}
  BY DEF new
<1>7. HoldersDisjoint'
  BY <1>1, <1>2, <1>6 DEF Owned, HoldersDisjoint
<1>8. HeldMarked'
  BY <1>1, <1>2, <1>3, <1>4, <1>5 DEF Owned, HeldMarked
<1> QED
  BY <1>7, <1>8 DEF Owned

\* A holder frees exactly its own blocks: nobody else notices, and the
\* cursor ends at or below them.
LEMMA FreeOwned ==
  ASSUME TypeOK, Owned, NEW h \in Holders, Free(h)
  PROVE  /\ Owned'
         /\ next_free_block' <= held[h].start
         /\ next_free_block' \in {next_free_block, held[h].start}
         /\ next_free_block' <= next_free_block
         /\ \A b \in Block : block_map'[b] = FREE
              => block_map[b] = FREE \/ b \in Blocks(held[h])
<1>1. held[h] \in Extent /\ free_virtual_space(held[h]) /\ held[h] # Nothing
  BY DEF Free, TypeOK
<1>2. held' = [held EXCEPT ![h] = Nothing]
  BY DEF Free
<1>3. \A g \in Holders : \A b \in Blocks(held[g]) : b \in Block
  BY HeldInBlocks
<1>4. Blocks(held'[h]) = {}
  BY <1>2 DEF TypeOK, Blocks, Nothing
<1>5. HoldersDisjoint'
  BY <1>2, <1>4 DEF Owned, HoldersDisjoint, TypeOK
<1>6. InRange(held[h])
  BY <1>1 DEF TypeOK
<1>7. \A b \in Blocks(held[h]) : block_map[b] # FREE
  BY <1>3 DEF Owned, HeldMarked, FREE
<1>8. next_free_block' <= held[h].start
  BY <1>1, <1>6, <1>7, FreeFacts
<1>9. \A b \in Block : block_map'[b] = FREE => block_map[b] = FREE \/ b \in Blocks(held[h])
  BY <1>1, FreeFacts
<1>10. \A b \in Block : b \notin Blocks(held[h]) => block_map'[b] = block_map[b]
  BY <1>1, FreeFacts
<1>11. HeldMarked'
  <2> SUFFICES ASSUME NEW g \in Holders, NEW b \in Blocks(held'[g])
               PROVE  block_map'[b] = "USED"
    BY DEF HeldMarked
  <2>1. g # h /\ held'[g] = held[g]
    BY <1>2, <1>4 DEF TypeOK
  <2>2. b \in Block /\ b \notin Blocks(held[h])
    BY <1>3, <2>1 DEF Owned, HoldersDisjoint
  <2> QED
    BY <1>10, <2>1, <2>2 DEF Owned, HeldMarked
<1>12. next_free_block' \in {next_free_block, held[h].start} /\ next_free_block' <= next_free_block
  BY <1>1, FreeFacts
<1> QED
  BY <1>5, <1>8, <1>9, <1>11, <1>12 DEF Owned

\* When holders free in reverse order, everything held lies below the cursor.
HeldBelowCursor ==
  usage = "lifo" =>
    \A h \in Holders : held[h].start + held[h].size <= next_free_block

IInv == TypeOK /\ Owned /\ NoFreeBelowCursor /\ HeldBelowCursor

\* Only the first block of a range is known to be free; the rest is nobody's
\* because there is no rest, or because it lies above the cursor.
LEMMA AllocFresh ==
  ASSUME IInv, NEW n \in Asked, NEW start \in Block, alloc_virtual_space(n, start)
  PROVE  \A g \in Holders : Blocks(held[g]) \cap (start .. start + n - 1) = {}
<1>1. /\ n \in Nat \ {0} /\ start \in Nat /\ next_free_block <= start
      /\ block_map[start] = FREE
  BY AllocFacts DEF IInv, Asked
<1>2. next_free_block \in Nat /\ usage \in Usage
  BY TotalAssumption DEF IInv, TypeOK, Block
<1>3. \A h \in Holders : held[h].start \in Nat /\ held[h].size \in Nat
  BY DEF IInv, TypeOK, Extent
<1>4. CASE usage = "pages"
  <2>1. start .. start + n - 1 = {start}
    BY <1>1, <1>4 DEF Asked
  <2>2. \A g \in Holders : start \notin Blocks(held[g])
    BY <1>1 DEF IInv, Owned, HeldMarked, FREE
  <2> QED
    BY <2>1, <2>2
<1>5. CASE usage = "lifo"
  BY <1>1, <1>2, <1>3, <1>5 DEF IInv, HeldBelowCursor, Blocks
<1> QED
  BY <1>2, <1>4, <1>5 DEF Usage

-------------------------------------------------------------------------------
(* The invariant is inductive *)

LEMMA InitInv == Init => IInv
<1> SUFFICES ASSUME Init PROVE IInv
  OBVIOUS
<1>1. Owned /\ HeldBelowCursor
  BY DEF Init, Owned, HoldersDisjoint, HeldMarked, HeldBelowCursor, Blocks, Nothing
<1>2. NoFreeBelowCursor
  BY TotalAssumption DEF Init, NoFreeBelowCursor, Block
<1> QED
  BY <1>1, <1>2, InitType DEF IInv

LEMMA AllocStep == ASSUME IInv, NEW h \in Holders, Alloc(h), TypeOK' PROVE IInv'
<1>1. PICK n \in Asked, start \in Block :
        /\ alloc_virtual_space(n, start)
        /\ held' = [held EXCEPT ![h] = [start |-> start, size |-> n]]
  BY DEF Alloc
<1>2. /\ n \in Nat \ {0} /\ start \in Nat /\ next_free_block <= start
      /\ next_free_block' = start + n
      /\ \A b \in Block : block_map'[b] = IF b \in start .. start + n - 1
                                            THEN "USED" ELSE block_map[b]
  BY <1>1, AllocFacts DEF IInv, Asked
<1>3. Owned'
  <2>1. n \in Requests
    BY DEF Asked
  <2> QED
    BY <1>1, <2>1, AllocFresh, AllocOwned DEF IInv
<1>4. NoFreeBelowCursor'
  <2> SUFFICES ASSUME NEW b \in Block, b < start + n PROVE block_map'[b] # FREE
    BY <1>2 DEF NoFreeBelowCursor
  <2>1. b \in Nat /\ next_free_block \in Nat
    BY TotalAssumption DEF IInv, TypeOK, Block
  <2>2. CASE b >= start
    BY <1>2, <2>1, <2>2 DEF FREE
  <2>3. CASE b < start
    <3>1. IsLeast(start, FreeStarts(n))
      BY <1>1 DEF alloc_virtual_space
    <3>2. b + n <= Total - n
      BY <1>2, <2>1, <2>3, <3>1, TotalAssumption DEF IsLeast, FreeStarts
    <3>3. block_map[b] # FREE
      BY <1>2, <2>1, <2>3, <3>1, <3>2 DEF IsLeast, FreeStarts, IInv, NoFreeBelowCursor
    <3> QED
      BY <1>2, <2>1, <2>3, <3>3
  <2> QED
    BY <1>2, <2>1, <2>2, <2>3
<1>5. HeldBelowCursor'
  <2> SUFFICES ASSUME usage = "lifo", NEW g \in Holders
               PROVE  held'[g].start + held'[g].size <= next_free_block'
    BY DEF HeldBelowCursor, Alloc
  <2>1. /\ held[g].start \in Nat /\ held[g].size \in Nat /\ next_free_block \in Nat
        /\ held[g].start + held[g].size <= next_free_block
    BY TotalAssumption DEF IInv, TypeOK, Extent, Block, HeldBelowCursor
  <2>2. CASE g = h
    BY <1>1, <1>2, <2>2 DEF IInv, TypeOK
  <2>3. CASE g # h
    <3>1. held'[g] = held[g]
      BY <1>1, <2>3 DEF IInv, TypeOK
    <3> QED
      BY <1>2, <2>1, <3>1
  <2> QED
    BY <2>2, <2>3
<1> QED
  BY <1>3, <1>4, <1>5 DEF IInv

LEMMA FreeStep == ASSUME IInv, NEW h \in Holders, Free(h), TypeOK' PROVE IInv'
<1>1. /\ Owned' /\ next_free_block' <= held[h].start /\ next_free_block' <= next_free_block
      /\ next_free_block' \in {next_free_block, held[h].start}
  BY FreeOwned DEF IInv
<1>2. held' = [held EXCEPT ![h] = Nothing] /\ usage' = usage
  BY DEF Free
<1>3. \A g \in Holders : held[g].start \in Nat /\ held[g].size \in Nat
  BY DEF IInv, TypeOK, Extent
<1>4. next_free_block \in Nat /\ next_free_block' \in Nat
  BY TotalAssumption DEF IInv, TypeOK, Block
<1>5. NoFreeBelowCursor'
  <2> SUFFICES ASSUME NEW b \in Block, b < next_free_block' PROVE block_map'[b] # FREE
    BY DEF NoFreeBelowCursor
  <2>1. b \in Nat
    BY TotalAssumption DEF Block
  <2>2. b \notin Blocks(held[h]) /\ b < next_free_block
    BY <1>1, <1>3, <1>4, <2>1 DEF Blocks
  <2> QED
    BY <2>2, FreeOwned DEF IInv, NoFreeBelowCursor
<1>6. HeldBelowCursor'
  <2> SUFFICES ASSUME usage = "lifo", NEW g \in Holders
               PROVE  held'[g].start + held'[g].size <= next_free_block'
    BY <1>2 DEF HeldBelowCursor
  <2>1. CASE g = h
    BY <1>2, <1>4, <2>1 DEF IInv, TypeOK, Nothing
  <2>2. CASE g # h
    <3>1. held[g].start + held[g].size <= held[h].start
      BY <2>2 DEF Free, Topmost
    <3>2. held[g].start + held[g].size <= next_free_block
      BY DEF IInv, HeldBelowCursor
    <3>3. held'[g] = held[g]
      BY <1>2, <2>2 DEF IInv, TypeOK
    <3> QED
      BY <1>1, <3>1, <3>2, <3>3
  <2> QED
    BY <2>1, <2>2
<1> QED
  BY <1>1, <1>5, <1>6 DEF IInv

LEMMA Inductive == IInv /\ [Next]_vars => IInv'
<1> SUFFICES ASSUME IInv, [Next]_vars PROVE IInv'
  OBVIOUS
<1>0. TypeOK'
  BY NextType DEF IInv
<1>1. CASE UNCHANGED vars
  BY <1>0, <1>1 DEF vars, IInv, Owned, HoldersDisjoint, HeldMarked, NoFreeBelowCursor,
                    HeldBelowCursor
<1>2. CASE init_kernel_mmu
  <2>1. usage' = usage
    BY <1>2 DEF init_kernel_mmu
  <2> QED
    BY <1>0, <1>2, <2>1, SetUpKeeps DEF IInv, NoFreeBelowCursor, HeldBelowCursor
<1>3. ASSUME NEW h \in Holders, Alloc(h) PROVE IInv'
  BY <1>0, <1>3, AllocStep
<1>4. ASSUME NEW h \in Holders, Free(h) PROVE IInv'
  BY <1>0, <1>4, FreeStep
<1>5. ASSUME NEW h \in Holders, AllocFails(h) PROVE IInv'
  BY <1>1, <1>5 DEF AllocFails
<1> QED
  BY <1>1, <1>2, <1>3, <1>4, <1>5 DEF Next

LEMMA Invariant == Spec => []IInv
BY InitInv, Inductive, PTL DEF Spec

\* No block has two holders and every holder's block stays marked, although
\* find_free_blocks looks at the first block only: with single-block requests
\* freed in any order, and with any requests freed in reverse order.
THEOREM Exclusive == Spec => [](HoldersDisjoint /\ HeldMarked)
<1>1. IInv => HoldersDisjoint /\ HeldMarked
  BY DEF IInv, Owned
<1> QED
  BY <1>1, Invariant, PTL

\* The search, which never wraps, never skips a free block for good.
THEOREM NothingLost == Spec => []NoFreeBelowCursor
<1>1. IInv => NoFreeBelowCursor
  BY DEF IInv
<1> QED
  BY <1>1, Invariant, PTL

-------------------------------------------------------------------------------
(* Refinement *)

LEMMA LeaseStep ==
  ASSUME IInv, [Next]_vars
  PROVE  [L!Next]_leasedBlocks
<1>1. CASE UNCHANGED vars
  BY <1>1 DEF vars, leasedBlocks
<1>2. CASE init_kernel_mmu
  BY <1>2 DEF init_kernel_mmu, leasedBlocks
<1>3. ASSUME NEW h \in Holders, Alloc(h) PROVE L!Next
  <2>1. PICK n \in Asked, start \in Block :
          /\ alloc_virtual_space(n, start)
          /\ held' = [held EXCEPT ![h] = [start |-> start, size |-> n]]
    BY <1>3 DEF Alloc
  <2>2. start \in Nat /\ n \in Nat \ {0} /\ start + n < Total
    BY <2>1, AllocFacts DEF IInv, Asked
  <2> DEFINE S == start .. start + n - 1
  <2>3. Blocks([start |-> start, size |-> n]) = S
    BY DEF Blocks
  <2>4. leasedBlocks[h] = {}
    BY <1>3 DEF Alloc, leasedBlocks, Blocks, Nothing
  <2>5. \A g \in Holders : S \cap leasedBlocks[g] = {}
    BY <2>1, AllocFresh DEF leasedBlocks
  <2>6. leasedBlocks' = [leasedBlocks EXCEPT ![h] = S]
    BY <2>1, <2>3 DEF leasedBlocks, IInv, TypeOK
  <2>7. S # {} /\ S \in SUBSET Block
    BY <2>2, TotalAssumption DEF Block
  <2> HIDE DEF S
  <2>8. L!Take(h, S)
    BY <2>4, <2>5, <2>6, <2>7 DEF L!Take
  <2> QED
    BY <2>7, <2>8 DEF L!Next
<1>4. ASSUME NEW h \in Holders, Free(h) PROVE L!Next
  <2>1. held[h].size > 0 /\ held[h] \in Extent
    BY <1>4 DEF Free, IInv, TypeOK
  <2>2. leasedBlocks[h] # {}
    <3>1. held[h].start \in Blocks(held[h])
      BY <2>1 DEF Blocks, Extent
    <3> QED
      BY <3>1 DEF leasedBlocks
  <2>3. leasedBlocks' = [leasedBlocks EXCEPT ![h] = {}]
    <3>1. Blocks(Nothing) = {}
      BY DEF Blocks, Nothing
    <3> QED
      BY <1>4, <3>1 DEF Free, leasedBlocks, IInv, TypeOK
  <2> QED
    BY <2>2, <2>3 DEF L!Next, L!Give
<1>5. ASSUME NEW h \in Holders, AllocFails(h) PROVE [L!Next]_leasedBlocks
  BY <1>1, <1>5 DEF AllocFails
<1> QED
  BY <1>1, <1>2, <1>3, <1>4, <1>5 DEF Next

\* The class implements an allocator that leases every block to at most one
\* holder.
THEOREM RefinesLease == Spec => LeaseSpec
<1>1. Init => L!Init
  BY DEF Init, L!Init, leasedBlocks, Blocks, Nothing
<1> QED
  BY <1>1, Invariant, LeaseStep, PTL DEF Spec, L!Spec, LeaseSpec

-------------------------------------------------------------------------------
(* The windows of kernel.h *)

\* While the windows are reserved, nothing else has been marked; what a window
\* has reserved, single-block requests never touch.
WindowsHeld ==
  /\ SetUp => \A b \in Block : block_map[b] # FREE =>
                \E k \in 1 .. window - 1 : b \in Blocks(Windows[k])
  /\ usage = "pages" => \A i \in DOMAIN Windows : \A b \in Block :
                          i < window /\ ReservedBy(i, b) => block_map[b] = "RESERVED"

LEMMA WindowsSetUp ==
  ASSUME TypeOK, WindowsHeld, init_kernel_mmu
  PROVE  WindowsHeld'
<1> DEFINE w == Windows[window]
<1>1. w \in Extent /\ window \in DOMAIN Windows /\ window \in Nat /\ DOMAIN Windows \subseteq Nat
  BY WindowType, WindowsAssumption, LenProperties DEF init_kernel_mmu, SetUp, TypeOK
<1>2. /\ window' = window + 1 /\ usage' = usage
      /\ \A b \in Block : block_map'[b] = IF InRange(w) /\ b \in Prefix(w, {FREE})
                                            THEN "RESERVED" ELSE block_map[b]
  BY DEF init_kernel_mmu, reserve_virtual_space, Fill, TypeOK
<1>3. ASSUME NEW b \in Block, block_map'[b] # FREE
      PROVE  \E k \in 1 .. window' - 1 : b \in Blocks(Windows[k])
  <2>1. CASE b \in Prefix(w, {FREE})
    <3>1. b \in Blocks(Windows[window])
      BY <2>1 DEF Prefix
    <3>2. window \in 1 .. window' - 1
      BY <1>1, <1>2 DEF TypeOK
    <3> QED
      BY <3>1, <3>2
  <2>2. CASE b \notin Prefix(w, {FREE})
    <3>1. PICK k \in 1 .. window - 1 : b \in Blocks(Windows[k])
      BY <1>2, <1>3, <2>2 DEF WindowsHeld, init_kernel_mmu
    <3>2. k \in 1 .. window' - 1
      BY <1>1, <1>2, <3>1
    <3> QED
      BY <3>1, <3>2
  <2> QED
    BY <2>1, <2>2
<1>4. ASSUME usage = "pages", NEW i \in DOMAIN Windows, NEW b \in Block,
             i < window', ReservedBy(i, b)
      PROVE  block_map'[b] = "RESERVED"
  <2>1. CASE i < window
    <3>1. block_map[b] = "RESERVED"
      BY <1>4, <2>1 DEF WindowsHeld
    <3> QED
      BY <1>2, <3>1
  <2>2. CASE i = window
    <3>1. InRange(w) /\ b \in Blocks(w)
      BY <1>4, <2>2 DEF ReservedBy
    <3>2. ASSUME NEW c \in w.start .. b PROVE block_map[c] \in {FREE}
      <4>1. c \in Block
        BY <1>1, <3>1, <3>2, TotalAssumption DEF Block, Extent
      <4>2. \A k \in 1 .. window - 1 : c \notin Blocks(Windows[k])
        BY <1>4, <2>2, <3>2 DEF ReservedBy
      <4> QED
        BY <4>1, <4>2 DEF WindowsHeld, init_kernel_mmu
    <3>3. b \in Prefix(w, {FREE})
      BY <3>1, <3>2 DEF Prefix
    <3> QED
      BY <1>2, <3>1, <3>3
  <2> QED
    BY <1>1, <1>2, <1>4, <2>1, <2>2
<1> HIDE DEF w
<1> QED
  BY <1>2, <1>3, <1>4 DEF WindowsHeld, ReservedBy

\* With single-block requests an allocation takes a FREE block and a free gives
\* back USED ones: what is RESERVED stays.
LEMMA ReservedKept ==
  ASSUME IInv, NEW h \in Holders, Alloc(h) \/ Free(h), usage = "pages",
         NEW b \in Block, block_map[b] = "RESERVED"
  PROVE  block_map'[b] = "RESERVED"
<1>1. CASE Alloc(h)
  <2>1. PICK n \in Asked, start \in Block : alloc_virtual_space(n, start)
    BY <1>1 DEF Alloc
  <2>2. n = 1 /\ start \in Nat /\ block_map[start] = FREE
    BY <2>1, AllocFacts DEF IInv, Asked
  <2>3. b \notin start .. start + n - 1
    BY <2>2, TotalAssumption DEF FREE, Block
  <2>4. n \in Requests
    BY DEF Asked
  <2> QED
    BY <2>1, <2>3, <2>4, AllocFacts DEF IInv
<1>2. CASE Free(h)
  <2>1. held[h] \in Extent /\ free_virtual_space(held[h])
    BY <1>2 DEF Free, IInv, TypeOK
  <2>2. b \notin Blocks(held[h])
    BY DEF IInv, Owned, HeldMarked
  <2> QED
    BY <2>1, <2>2, FreeFacts DEF IInv
<1> QED
  BY <1>1, <1>2

LEMMA WindowsStep == IInv /\ WindowsHeld /\ [Next]_vars => WindowsHeld'
<1> SUFFICES ASSUME IInv, WindowsHeld, [Next]_vars PROVE WindowsHeld'
  OBVIOUS
<1>1. CASE UNCHANGED vars
  BY <1>1 DEF vars, WindowsHeld, SetUp, ReservedBy
<1>2. CASE init_kernel_mmu
  BY <1>2, WindowsSetUp DEF IInv
<1>3. ASSUME NEW h \in Holders, Alloc(h) \/ Free(h) PROVE WindowsHeld'
  <2>1. window' = window /\ usage' = usage /\ ~SetUp
    BY <1>3 DEF Alloc, Free
  <2> QED
    BY <1>3, <2>1, ReservedKept DEF WindowsHeld, SetUp, ReservedBy
<1>4. ASSUME NEW h \in Holders, AllocFails(h) PROVE WindowsHeld'
  BY <1>1, <1>4 DEF AllocFails
<1> QED
  BY <1>1, <1>2, <1>3, <1>4 DEF Next

\* No holder of single blocks is ever given a block of a window of kernel.h,
\* in whatever order blocks are allocated and freed: find_free_blocks does not
\* overrun a reservation when it is asked for one block.
THEOREM WindowsSafe ==
  ASSUME WindowsReserved
  PROVE  Spec => []WindowsKept
<1>1. Init => WindowsHeld
  BY WindowsAssumption, LenProperties DEF Init, WindowsHeld, SetUp, ReservedBy
<1>2. IInv /\ WindowsHeld => WindowsKept
  <2> SUFFICES ASSUME IInv, WindowsHeld, ~SetUp, usage = "pages",
                      NEW i \in DOMAIN Windows, NEW h \in Holders,
                      NEW b \in Blocks(held[h]), b \in Blocks(Windows[i])
               PROVE  FALSE
    BY DEF WindowsKept
  <2>1. b \in Block /\ block_map[b] = "USED"
    BY HeldInBlocks DEF IInv, Owned, HeldMarked
  <2>2. b < Total - 1
    <3>1. held[h] \in Extent /\ (held[h] = Nothing \/ InRange(held[h]))
      BY DEF IInv, TypeOK
    <3> QED
      BY <3>1, TotalAssumption DEF InRange, Blocks, Extent, Nothing
  <2>3. PICK j \in DOMAIN Windows : ReservedBy(j, b)
    BY <2>2 DEF WindowsReserved
  <2>4. j < window
    BY WindowsAssumption, LenProperties DEF SetUp, IInv, TypeOK
  <2> QED
    BY <2>1, <2>3, <2>4 DEF WindowsHeld
<1> QED
  BY <1>1, <1>2, WindowsStep, Invariant, PTL DEF Spec
===============================================================================
