------------------------------ MODULE MCBootPaging ------------------------------
(* Tables of 16 entries; 8 frames of low memory, four of them page tables. *)
EXTENDS BootPaging

Area(begin, end, type) == [begin |-> begin, end |-> end, type |-> type]
Low == Area(0, 7, "RAM")
Ram == Area(8, 60, "RAM")
\* Firmware above RAM, within the first table, in low memory, in the kernel's
\* half, in two tables at once, above 4 GB; a list that is too long, and lists
\* ended by carry: in the last call made, in one that would come too late, in
\* each call there is.
MCMachines ==
  {[map |-> m, last |-> "zero"] :
     m \in {<<Low, Ram>>,
            <<Low, Ram, Area(60, 62, "ACPI"), Area(62, 63, "NVS")>>,
            <<Low, Area(6, 7, "NVS"), Area(12, 14, "ACPI"), Ram>>,
            <<Area(78, 82, "ACPI"), Low, Ram>>,
            <<Ram, Area(170, 172, "NVS"), Low, Area(172, 173, "ACPI")>>,
            <<Low, Ram, Area(60, 61, "ACPI"), Area(61, 62, "NVS"), Area(62, 63, "RESERVED")>>}}
  \cup {[map |-> m, last |-> "carry_zero"] :
          m \in {<<>>, <<Low, Area(300, 302, "ACPI"), Area(60, 62, "ACPI")>>,
                 <<Low, Ram, Area(60, 62, "ACPI"), Area(62, 63, "RESERVED")>>}}
  \cup {[map |-> <<Low, Area(60, 62, "ACPI")>>, last |-> "carry"]}

ASSUME MCFirmwareApart == FirmwareApart
===============================================================================
