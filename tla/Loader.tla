-------------------------------- MODULE Loader --------------------------------
(***************************************************************************)
(* The two loaders of the boot chain, BootLoader/main.cpp and then         *)
(* OsLoader/main.cpp, with the PE_FILE class both use (libc/pe_file.cpp):  *)
(* open the file on the active partition, read its header for SizeOfImage, *)
(* load it, clear the rest of the image, jump.  BootLoader stops when a    *)
(* call fails; OsLoader ignores what open and load return.                 *)
(***************************************************************************)
EXTENDS Fat32

CONSTANTS
  PE_HEAD_BUF_SIZE,
  BootPath,      \* os_loader_filename, os_kernel_filename: the parts of the path
  KernelPath,
  Garbage        \* values uninitialised memory may have as SizeOfImage

ASSUME LoaderAssumption ==
  /\ SECTOR_SIZE \in Nat \ {0} /\ EntriesPerSector \in Nat \ {0} /\ EndMark \in Nat
  /\ PE_HEAD_BUF_SIZE \in Nat /\ PE_HEAD_BUF_SIZE >= SECTOR_SIZE
  /\ {BootPath, KernelPath} \subseteq Seq(Seq(STRING)) \ {<<>>}
  /\ Garbage # {} /\ Garbage \subseteq Nat

VARIABLES
  loader,   \* the loader that runs
  at,       \* where it is
  header,   \* what m_header_buf holds
  size,     \* image_size()
  loaded    \* what load() returned

vars == <<disk, volume, file, io, buf, loader, at, header, size, loaded>>

Path == IF loader = "BootLoader" THEN BootPath ELSE KernelPath

Init ==
  /\ FatInit
  /\ loader = "BootLoader" /\ at = "mbr"
  /\ header = <<>> /\ size = 0 /\ loaded = FALSE

-------------------------------------------------------------------------------
(* PE_FILE::open *)

\* The first active partition, the first one when none is.
BootPartition(d) ==
  LET table == Sector(d, 0).partition_table
      p == SelectInSeq(table, LAMBDA e : e.active)
  IN  table[IF p = 0 THEN 1 ELSE p]

\* The volume on it.
BootVolume(d) == VolumeAt(d, BootPartition(d).first_sector)

ReadMbr ==
  /\ at = "mbr"
  /\ volume' = BootVolume(disk)
  /\ at' = "open"
  /\ UNCHANGED <<disk, file, io, buf, loader, header, size, loaded>>

Open ==
  /\ at = "open" /\ open_file(Path)
  /\ at' = "opening"
  /\ UNCHANGED <<loader, header, size, loaded>>

\* What the caller does with false: BootLoader stops, OsLoader goes on.
OpenFailed == at' = IF loader = "BootLoader" THEN "stop" ELSE "size"

ReadHeader ==
  /\ at = "opening" /\ io.op = "idle"
  /\ IF io.ok THEN read_file(PE_HEAD_BUF_SIZE) /\ at' = "header"
     ELSE OpenFailed /\ UNCHANGED <<disk, volume, file, io, buf>>
  /\ UNCHANGED <<loader, header, size, loaded>>

HeaderRead ==
  /\ at = "header" /\ io.op = "idle"
  /\ header' = buf
  /\ IF io.ok THEN at' = "size" ELSE OpenFailed
  /\ UNCHANGED <<disk, volume, file, io, buf, loader, size, loaded>>

-------------------------------------------------------------------------------
(* image_size, load and the jump *)

\* SizeOfImage, from the first sector of the file.
image_size ==
  /\ at = "size"
  /\ IF header # <<>> /\ Sector(disk, header[1]).kind = "pe"
       THEN size' = Sector(disk, header[1]).SizeOfImage ELSE size' \in Garbage
  /\ at' = "load"
  /\ UNCHANGED <<disk, volume, file, io, buf, loader, header, loaded>>

Load ==
  /\ at = "load" /\ load_file(size)
  /\ at' = "loading"
  /\ UNCHANGED <<loader, header, size, loaded>>

\* load() clears the image from the end of the file to buf_size if it succeeds.
LoadReturns ==
  /\ at = "loading" /\ io.op = "idle"
  /\ loaded' = io.ok
  /\ at' = IF io.ok \/ loader = "OsLoader" THEN "jump" ELSE "stop"
  /\ UNCHANGED <<disk, volume, file, io, buf, loader, header, size>>

\* The entry point of OsLoader: a new PE_FILE on a new stack.
StartOsLoader ==
  /\ at = "jump" /\ loader = "BootLoader"
  /\ loader' = "OsLoader" /\ at' = "mbr"
  /\ volume' = NoVolume /\ file' = NoFile /\ io' = Returned(FALSE)
  /\ header' = <<>> /\ size' = 0 /\ loaded' = FALSE /\ buf' = <<>>
  /\ UNCHANGED disk

\* Execution ends in the kernel or in a loader's endless loop.
End == at = "stop" \/ (at = "jump" /\ loader = "OsLoader")

\* So it does in read_sectors, when the drive has no such sector.
Waits == io.op # "idle" /\ ~Readable(NextRead)

Done == (End \/ Waits) /\ UNCHANGED vars

Work ==
  \/ ReadMbr \/ Open \/ ReadHeader \/ HeaderRead \/ image_size \/ Load \/ LoadReturns
  \/ StartOsLoader
  \/ Fat32Step /\ UNCHANGED <<loader, at, header, size, loaded>>

Next == Work \/ Done

\* One processor with interrupts off: the loader runs on.
Spec == Init /\ [][Next]_vars /\ WF_vars(Work)

-------------------------------------------------------------------------------
(* Disks *)

\* The clusters of a chain up to its mark.
IsChain(d, v, chain) ==
  /\ chain # <<>>
  /\ \A j \in DOMAIN chain :
       LET next == NextIn(d, v, chain[j])
       IN  /\ FatSector(v, chain[j]) \in DOMAIN d.sector
           /\ IF j = Len(chain) THEN next >= EndMark ELSE next = chain[j + 1] /\ ~(next >= EndMark)

\* Their sectors.
ChainSectors(v, chain) ==
  LET spc == v.sectors_per_cluster
  IN  [n \in 1 .. Len(chain) * spc |->
         cluster_to_LBA(v, chain[1 + (n - 1) \div spc]) + ((n - 1) % spc)]

\* The first entry of a directory for a name, if there is one.
FirstEntry(d, v, chain, name) ==
  LET sector == ChainSectors(v, chain)
  IN  {Taken(d, sector[n], name) :
         n \in {m \in DOMAIN sector : /\ Wanted(d, sector[m], name) # {}
                                      /\ \A k \in 1 .. m - 1 : Wanted(d, sector[k], name) = {}}}

Name == Seq(STRING)
DirEntry == [name : Name, skip : BOOLEAN, first : Nat, size : Nat]

\* The fields the loaders use are unsigned numbers, and a cluster has sectors.
Typed(d) ==
  /\ BootVolume(d) \in [fat_start_sector : Nat, cluster_start_sector : Nat,
                        sectors_per_cluster : Nat \ {0}, rootdir_start_cluster : Nat]
  /\ \A lba \in DOMAIN d.sector : LET s == d.sector[lba] IN
       /\ s.kind = "pe" => s.SizeOfImage \in Nat
       /\ s.next \in [0 .. EntriesPerSector - 1 -> Nat]
       /\ s.kind = "dir" => s.entries \in Seq(DirEntry)

\* What was written: the clusters of the directories on the path, as far as they
\* are there, and the file behind the first entries with these names - its size,
\* the clusters of its chain, and, unless they are too few or too many, its sectors.
Holding(d, held, path) ==
  LET v == BootVolume(d)
      last == Len(held.dirs)
      sectors == SectorsOf(held.size)
      clusters == Len(held.chain)
      found == FirstEntry(d, v, held.dirs[last], path[last])
  IN  /\ held.dirs \in Seq(Seq(Nat)) \ {<<>>} /\ last <= Len(path)
      /\ held.chain \in Seq(Nat) /\ held.size \in Nat
      /\ held.dirs[1][1] = v.rootdir_start_cluster
      /\ \A k \in DOMAIN held.dirs : IsChain(d, v, held.dirs[k])
      /\ \A k \in 1 .. last - 1 :
           \E e \in FirstEntry(d, v, held.dirs[k], path[k]) : e.first = held.dirs[k + 1][1]
      /\ IF found = {} THEN held.sectors = <<>> ELSE
           /\ last = Len(path) /\ IsChain(d, v, held.chain)
           /\ \E e \in found : e.first = held.chain[1] /\ e.size = held.size
           /\ held.sectors =
                IF sectors > (clusters - 1) * v.sectors_per_cluster /\ sectors <= clusters * v.sectors_per_cluster
                  THEN SubSeq(ChainSectors(v, held.chain), 1, sectors) ELSE <<>>
      /\ held.sectors # <<>> =>
           Sector(d, held.sectors[1]).kind = "pe" /\ Sector(d, held.sectors[1]).SizeOfImage = held.image

\* The disks the theorems are about.
DisksTyped == \A d \in Disks : Typed(d)
DisksRegular ==
  \A d \in Disks :
    /\ d.holds.sectors_per_cluster = BootVolume(d).sectors_per_cluster
    /\ Holding(d, d.holds["BootLoader"], BootPath)
    /\ Holding(d, d.holds["OsLoader"], KernelPath)

-------------------------------------------------------------------------------
(* Properties *)

\* The file this loader is to load: its sectors in order, its size in bytes and
\* its SizeOfImage; sectors is empty when the disk has no such file.
Holds == disk.holds[loader]

\* The sectors of a transfer of whole clusters.
Clusters(n) ==
  LET c == disk.holds.sectors_per_cluster IN ((n + c - 1) \div c) * c

\* A file both calls should accept: longer than the header, and the image has
\* room for its last sector.
Loadable ==
  /\ Holds.sectors # <<>>
  /\ \/ Holds.size = PE_HEAD_BUF_SIZE
     \/ SectorsOf(Holds.size) > Clusters(PE_HEAD_BUF_SIZE \div SECTOR_SIZE)
  /\ SectorsOf(Holds.size) <= Holds.image \div SECTOR_SIZE

\* A loader that jumps has every sector of its file in order, and an image no
\* smaller than the file: for BootLoader on every disk, for OsLoader, which does
\* not look at the results, whenever the file could be loaded.  Neither takes
\* another file for it, or gives up on a file that could be loaded, wherever its
\* clusters and directories lie.
JumpsToWholeImage ==
  /\ at = "jump" /\ (loader = "BootLoader" \/ Loadable) =>
       buf = Holds.sectors /\ size >= Holds.size /\ loaded
  /\ Loadable => at # "stop" /\ (at \in {"header", "size", "load", "loading"} =>
                                     file.size = Holds.size)

\* load_file stays within the image.  read_file, which looks at its buffer only
\* between clusters, begins every cluster inside the header buffer: it overruns a
\* buffer that is no whole number of clusters, by less than a cluster.
OverrunBounded ==
  LET sectors == io.bufsize \div SECTOR_SIZE
      spc == volume.sectors_per_cluster
  IN  /\ io.op = "load" => Len(buf) <= sectors
      /\ io.op = "read" => \E k \in 0 .. sectors : k * spc < sectors /\ Len(buf) <= (k + 1) * spc

\* The boot chain ends on every disk whose chains are whole: in the kernel or in
\* BootLoader's endless loop.
Ends == <>End
===============================================================================
