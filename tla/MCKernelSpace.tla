---------------------------- MODULE MCKernelSpace ----------------------------
(***************************************************************************)
(* Nine blocks: the kernel image in two, a window in the middle, one       *)
(* reserved twice (the second reservation fails) and one out of range.     *)
(***************************************************************************)
EXTENDS KernelSpace

CONSTANTS h1, h2, h3, h4, h5

R(s, n) == [start |-> s, size |-> n]

MCWindows == <<R(0, 2), R(5, 1), R(4, 2), R(8, 1)>>

ASSUME MCWindowsReserved == WindowsReserved
=============================================================================
