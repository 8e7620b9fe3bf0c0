----------------------------- MODULE MCImageTools -----------------------------
(* Three drive letters, BootLoaders of 1 to 3 sectors, a BIOS that reads 2. *)
EXTENDS ImageTools

DriveLetters == 1 .. 3
Sizes == 1 .. 3
===============================================================================
