----------------------------- MODULE KernelSpace -----------------------------
(***************************************************************************)
(* MMU<...> (OS/mem/mmu.h): the kernel's virtual address space, one byte   *)
(* per block, and SYSTEM::init_kernel_mmu, which reserves the windows of   *)
(* kernel.h before anything is allocated.                                  *)
(*                                                                         *)
(* find_free_blocks ignores its first argument and, in the inner loop,     *)
(* tests m_block_map[i] where m_block_map[j] is meant: only the first      *)
(* block of the range it returns is known to be free.                      *)
(***************************************************************************)
EXTENDS Integers, Sequences

CONSTANTS
  Total,      \* MMU_TOTAL_BLOCKS
  Windows,    \* ranges init_kernel_mmu reserves, in order
  Holders,    \* callers that hold one allocation each
  Requests    \* numbers of blocks they ask for (at most Total)

Block == 0 .. Total - 1
Extent == [start : Nat, size : Nat]
Nothing == [start |-> 0, size |-> 0]
FREE == "FREE"
Blocks(r) == r.start .. r.start + r.size - 1

ASSUME TotalAssumption == Total \in Nat \ {0}
ASSUME WindowsAssumption == Windows \in Seq(Extent)
ASSUME RequestsAssumption == Requests \subseteq 1 .. Total

VARIABLES
  block_map,        \* m_block_map
  next_free_block,  \* m_next_free_block
  window,           \* next window to reserve; past the end: set-up is over
  held,             \* history: what each holder was given
  usage             \* how the holders behave, see Usage

vars == <<block_map, next_free_block, window, held, usage>>

\* "pages": they ask for single blocks and free them in any order;
\* "lifo": they ask for any number and free in the reverse order.
Usage == {"pages", "lifo"}

Init ==
  /\ block_map = [b \in Block |-> FREE]
  /\ next_free_block = 0
  /\ window = 1
  /\ held = [h \in Holders |-> Nothing]
  /\ usage \in Usage

-------------------------------------------------------------------------------
(* The operators of the class *)

\* Mutant: every block from the cursor on is taken for free.
FreeStarts_unchecked(n) == {i \in Block : next_free_block <= i /\ i + n <= Total - n}

\* Mutant: the loop bound forgets the size of the request.
FreeStarts_unbounded(n) == {i \in Block : next_free_block <= i /\ block_map[i] = FREE}

\* Starts find_free_blocks may return: the loop bound and the inner loop both
\* subtract the request from the number of blocks.
FreeStarts(n) ==
  {i \in Block : /\ next_free_block <= i /\ i + n <= Total - n
                 /\ block_map[i] = FREE}

IsLeast(x, S) == x \in S /\ \A y \in S : x <= y

InRange(r) == r.start + r.size < Total

\* The blocks a loop over r changes before it meets one it does not accept.
Prefix(r, accepted) ==
  {b \in Blocks(r) : \A c \in r.start .. b : block_map[c] \in accepted}

Fill(S, kind) == [b \in Block |-> IF b \in S THEN kind ELSE block_map[b]]

alloc_virtual_space(n, start) ==
  /\ IsLeast(start, FreeStarts(n))
  /\ block_map' = Fill(start .. start + n - 1, "USED")
  /\ next_free_block' = start + n

\* Mutant: the cursor is not moved back.
free_virtual_space_stay(r) ==
  /\ block_map' = IF InRange(r) THEN Fill(Prefix(r, {"USED", "RESERVED"}), FREE) ELSE block_map
  /\ UNCHANGED next_free_block

\* Frees the leading blocks that are in use; the cursor moves only if all were.
free_virtual_space(r) ==
  LET freed == Prefix(r, {"USED", "RESERVED"})
  IN  IF InRange(r)
        THEN /\ block_map' = Fill(freed, FREE)
             /\ next_free_block' =
                  IF freed = Blocks(r) /\ r.start < next_free_block
                    THEN r.start ELSE next_free_block
        ELSE UNCHANGED <<block_map, next_free_block>>

reserve_virtual_space(r) ==
  /\ block_map' = IF InRange(r) THEN Fill(Prefix(r, {FREE}), "RESERVED") ELSE block_map
  /\ UNCHANGED next_free_block

-------------------------------------------------------------------------------
(* Who calls them *)

SetUp == window <= Len(Windows)

init_kernel_mmu ==
  /\ SetUp
  /\ reserve_virtual_space(Windows[window])
  /\ window' = window + 1
  /\ UNCHANGED <<held, usage>>

Asked == {n \in Requests : usage = "pages" => n = 1}

Alloc(h) ==
  /\ ~SetUp /\ held[h] = Nothing
  /\ \E n \in Asked, start \in Block :
       /\ alloc_virtual_space(n, start)
       /\ held' = [held EXCEPT ![h] = [start |-> start, size |-> n]]
  /\ UNCHANGED <<window, usage>>

\* Both calls of find_free_blocks return -1: the caller gets 0.
AllocFails(h) ==
  /\ ~SetUp /\ held[h] = Nothing
  /\ \E n \in Asked : FreeStarts(n) = {}
  /\ UNCHANGED vars

\* No other holder has anything above h.
Topmost(h) ==
  \A g \in Holders : g # h => held[g].start + held[g].size <= held[h].start

Free(h) ==
  /\ ~SetUp /\ held[h] # Nothing
  /\ usage = "lifo" => Topmost(h)
  /\ free_virtual_space(held[h])
  /\ held' = [held EXCEPT ![h] = Nothing]
  /\ UNCHANGED <<window, usage>>

Next ==
  \/ init_kernel_mmu
  \/ \E h \in Holders : Alloc(h) \/ AllocFails(h) \/ Free(h)

Spec == Init /\ [][Next]_vars

-------------------------------------------------------------------------------
(* Properties *)

TypeOK ==
  /\ block_map \in [Block -> {"FREE", "USED", "RESERVED"}]
  /\ next_free_block \in Block
  /\ window \in Nat \ {0}
  /\ usage \in Usage
  /\ held \in [Holders -> Extent]
  /\ \A h \in Holders : held[h] = Nothing \/ (held[h].size > 0 /\ InRange(held[h]))

\* No block of address space is given to two holders at once, although
\* find_free_blocks examines only the first block of a range: single-block
\* requests and holders that free in reverse order do not notice.
HoldersDisjoint ==
  \A g, h \in Holders : g # h => Blocks(held[g]) \cap Blocks(held[h]) = {}

\* What a holder has is marked USED: neither a reserve nor another holder's
\* free may have touched it.
HeldMarked ==
  \A h \in Holders : \A b \in Blocks(held[h]) : block_map[b] = "USED"

\* The search starts at the cursor and never wraps, so a free block below the
\* cursor would be lost; free_virtual_space must always have moved it back.
NoFreeBelowCursor == \A b \in Block : b < next_free_block => block_map[b] # FREE

\* "PAGE_TABLE_BASE 0xC0000000 //~0xC03FFFFF" and the other windows of
\* kernel.h are never part of what a holder of single blocks is given, even
\* where reserve_virtual_space refused or cut the reservation.  (Requests of
\* several blocks do run into windows: only their first block is examined.)
WindowsKept ==
  ~SetUp /\ usage = "pages" =>
            \A i \in DOMAIN Windows : \A h \in Holders :
              Blocks(held[h]) \cap Blocks(Windows[i]) = {}

\* Window i is what makes block b RESERVED: no earlier window stops its loop.
ReservedBy(i, b) ==
  /\ InRange(Windows[i]) /\ b \in Blocks(Windows[i])
  /\ \A k \in 1 .. i - 1 : Blocks(Windows[k]) \cap (Windows[i].start .. b) = {}

\* No block of a window is left out because its reservation was refused or cut
\* short, but for the last block, which is never handed out.  (True of the
\* windows of kernel.h, which are in range and apart.)
WindowsReserved ==
  \A i \in DOMAIN Windows : \A b \in Blocks(Windows[i]) :
    b < Total - 1 => \E j \in DOMAIN Windows : ReservedBy(j, b)

\* The holders see an allocator that leases every block to one of them.
leasedBlocks == [h \in Holders |-> Blocks(held[h])]
L == INSTANCE Lease WITH Units <- Block, leased <- leasedBlocks
LeaseSpec == L!Spec

===============================================================================
