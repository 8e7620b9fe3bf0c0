---------------------------- MODULE MCPageFrames ----------------------------
(***************************************************************************)
(* A 20-page machine with 2-byte pages: low memory in frames 0-1, the      *)
(* kernel image in 2-3, boot allocations from 4, RAM up to frame 10 or 11. *)
(***************************************************************************)
EXTENDS PageFrames

E(b, e, t) == [begin |-> b, end |-> e, type |-> t]

MCMemMaps ==
  { \* RAM ending inside a page, the rest of the page reserved
    <<E(0, 3, "RAM"), E(3, 4, "RESERVED"), E(4, 21, "RAM"),
      E(21, 24, "RESERVED"), E(38, 40, "RESERVED")>>,
    \* a reserved hole, a page nobody describes, and RAM above 4 GB
    <<E(4, 16, "RAM"), E(16, 18, "RESERVED"), E(19, 22, "RAM"), E(40, 60, "RAM")>>,
    \* entries out of order and overlapping, starting inside a page
    <<E(19, 23, "ACPI"), E(4, 20, "RAM"), E(15, 17, "NVS"), E(22, 25, "OTHER")>>,
    \* less RAM below 4 GB than a request: the scan bound wraps (the entry that
    \* crosses 4 GB counts for nothing there)
    <<E(0, 3, "RAM"), E(4, 46, "RAM")>> }

ASSUME MCMapsRegular == MapsRegular
=============================================================================
