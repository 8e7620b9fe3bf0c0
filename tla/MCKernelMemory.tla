---------------------------- MODULE MCKernelMemory ----------------------------
(***************************************************************************)
(* A machine of 64 two-byte pages, page tables of 8 pages and the windows  *)
(* of kernel.h in their order.  The stack has four pages, the image two.   *)
(* The kernel's half of the address space is pages 32 to 63, the window of *)
(* the page tables is 48 to 55, and page 52 of it belongs to the table of  *)
(* image and stack.  The machines differ in how much RAM they have and in  *)
(* a firmware area that lies in the kernel's half of the address space.    *)
(***************************************************************************)
EXTENDS KernelMemory

\* From page b up to page e.
E(b, e, t) == [begin |-> 2 * b, end |-> 2 * e, type |-> t]

\* RAM for the stack and for some of the heap.
MCEnough == { <<E(0, 2, "RAM"), E(4, 26, "RAM")>> }

MCMemMaps ==
  MCEnough \cup
  { <<E(4, 14, "RAM"), E(14, 16, "NVS"), E(16, 30, "RAM")>>,   \* a hole
    <<E(4, 24, "RAM"), E(42, 44, "ACPI")>>,                    \* firmware at 42
    <<E(4, 24, "RAM"), E(34, 48, "ACPI")>>,                    \* no room for the stack
    <<E(4, 24, "RAM"), E(34, 47, "ACPI")>>,        \* the stack runs into the window
    <<E(2, 7, "RAM")>>,                  \* less than the stack and one heap request
    <<E(2, 5, "RAM")>> }                 \* so little that the scan for the stack faults
=============================================================================
