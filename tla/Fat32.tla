-------------------------------- MODULE Fat32 --------------------------------
(***************************************************************************)
(* The FAT32 reader both loaders use, libc/fat32.cpp: open_file walks the  *)
(* directories of a path, read_file and load_file walk the cluster chain   *)
(* of a file.  One sector read into a buffer is one step; so is each move  *)
(* to the next cluster of a chain.                                         *)
(*                                                                         *)
(* disk.sector maps an LBA to a record of what the code reads there, next  *)
(* being its bytes when they are taken for entries of a FAT; a name is a   *)
(* sequence of lower-case characters; a buffer is the sequence of the LBAs *)
(* that were read into it.                                                 *)
(***************************************************************************)
EXTENDS Integers, Sequences, SequencesExt

CONSTANTS
  SECTOR_SIZE,
  EntriesPerSector,   \* FAT entries in a sector
  EndMark,            \* 0x0ffffff7: chain entries from here on end a chain
  Disks               \* the disks to start from

VARIABLES
  disk,     \* sector: LBA -> sector, holds: the files written to it
  volume,   \* the members of FAT32
  file,     \* the FILE_OBJECT: first cluster and size in bytes
  io,       \* the running call: operation and local variables
  buf       \* what was read into the caller's buffer

None == -1

\* read_sectors waits until the drive has data: behind the end of the disk, for ever.
Readable(lba) == lba \in DOMAIN disk.sector

\* What read_sectors finds on disk d.
Sector(d, lba) ==
  IF lba \in DOMAIN d.sector THEN d.sector[lba] ELSE [kind |-> "none"]

NoFile == [start_cluster |-> 0, size |-> 0]
NoVolume == [fat_start_sector |-> 0, cluster_start_sector |-> 0,
             sectors_per_cluster |-> 0, rootdir_start_cluster |-> 0]

\* No call is running; "ok" is what the last one returned.
Returned(ok) == [op |-> "idle", ok |-> ok, names |-> <<>>, cluster |-> 0, i |-> 0,
                 fat |-> None, count |-> 0, bufsize |-> 0]

FatInit ==
  /\ disk \in Disks
  /\ volume = NoVolume /\ file = NoFile /\ buf = <<>>
  /\ io = Returned(FALSE)

-------------------------------------------------------------------------------
(* Geometry *)

\* FAT32::Init: the volume the boot sector at LBA start of disk d describes.
VolumeAt(d, start) ==
  LET b == Sector(d, start)  fat == start + b.reserved_sector_count
  IN  [fat_start_sector |-> fat,
       cluster_start_sector |-> fat + b.fat_count * b.sectors_per_fat32,
       sectors_per_cluster |-> b.sectors_per_cluster,
       rootdir_start_cluster |-> b.fat32_root_cluster]

cluster_to_LBA(v, cluster) ==
  v.cluster_start_sector + (cluster - 2) * v.sectors_per_cluster

\* The FAT sector in fat_buf once the entry of cluster is looked up.
FatSector(v, cluster) == v.fat_start_sector + cluster \div EntriesPerSector

\* The code takes the word it finds there, whether the sector is one of a FAT or not.
NextIn(d, v, cluster) == Sector(d, FatSector(v, cluster)).next[cluster % EntriesPerSector]

NextCluster == NextIn(disk, volume, io.cluster)

\* Mutant: only marks above 0x0ffffff8 end a chain.
IsEnd_late(cluster) == cluster > EndMark + 1

\* The mark of a bad cluster ends a chain as well.
IsEnd(cluster) == cluster >= EndMark

SectorsOf(size) == (size + SECTOR_SIZE - 1) \div SECTOR_SIZE

-------------------------------------------------------------------------------
(* open_file and search_dir_entry *)

\* strcmp_nocase finds no difference before one of the names ends.
Matches(name, short_name) ==
  /\ name # <<>> /\ short_name # <<>>
  /\ IsPrefix(name, short_name) \/ IsPrefix(short_name, name)

Entries(d, lba) == IF Sector(d, lba).kind = "dir" THEN Sector(d, lba).entries ELSE <<>>

\* The entries of a sector a search for name stops at: no long, deleted, volume or
\* empty ones.
Wanted(d, lba, name) ==
  {j \in DOMAIN Entries(d, lba) :
     ~Entries(d, lba)[j].skip /\ Matches(name, Entries(d, lba)[j].name)}

\* The first of them.
Taken(d, lba, name) == Entries(d, lba)[Min(Wanted(d, lba, name))]

open_file(names) ==
  /\ io.op = "idle"
  /\ file' = NoFile
  /\ io' = [Returned(FALSE) EXCEPT !.op = "search", !.names = names,
                                   !.cluster = volume.rootdir_start_cluster]
  /\ UNCHANGED <<disk, volume, buf>>

\* The sector the search looks at.
SearchLBA == cluster_to_LBA(volume, io.cluster) + io.i

Searching == io.op = "search" /\ io.i < volume.sectors_per_cluster /\ Readable(SearchLBA)

Found ==
  /\ Searching /\ Wanted(disk, SearchLBA, Head(io.names)) # {}
  /\ LET e == Taken(disk, SearchLBA, Head(io.names))
     IN  IF Len(io.names) = 1
           THEN /\ file' = [start_cluster |-> e.first, size |-> e.size]
                /\ io' = Returned(TRUE)
           ELSE /\ file' = file
                /\ io' = [Returned(FALSE) EXCEPT !.op = "search", !.names = Tail(io.names),
                                                 !.cluster = e.first]
  /\ UNCHANGED <<disk, volume, buf>>

SearchSector ==
  /\ Searching /\ Wanted(disk, SearchLBA, Head(io.names)) = {}
  /\ io' = [io EXCEPT !.i = @ + 1]
  /\ UNCHANGED <<disk, volume, file, buf>>

SearchCluster ==
  /\ io.op = "search" /\ io.i = volume.sectors_per_cluster
  /\ Readable(FatSector(volume, io.cluster))
  /\ io' = IF ~IsEnd(NextCluster)
             THEN [io EXCEPT !.cluster = NextCluster, !.i = 0, !.fat = FatSector(volume, io.cluster)]
             ELSE Returned(FALSE)
  /\ UNCHANGED <<disk, volume, file, buf>>

-------------------------------------------------------------------------------
(* read_file and load_file *)

StartTransfer(op, bufsize) ==
  /\ io.op = "idle"
  /\ buf' = <<>>
  /\ io' = [Returned(FALSE) EXCEPT !.op = op, !.cluster = file.start_cluster,
                                   !.bufsize = bufsize]
  /\ UNCHANGED <<disk, volume, file>>

read_file(bufsize) == StartTransfer("read", bufsize)

\* Mutant: a buffer with room for the bytes but not the last sector will do.
load_file_bytes(bufsize) ==
  IF bufsize < file.size
    THEN io.op = "idle" /\ io' = Returned(FALSE) /\ UNCHANGED <<disk, volume, file, buf>>
    ELSE StartTransfer("load", bufsize)

\* load_file returns -1 at once when the buffer has too few sectors.
load_file(bufsize) ==
  IF bufsize \div SECTOR_SIZE < SectorsOf(file.size)
    THEN io.op = "idle" /\ io' = Returned(FALSE) /\ UNCHANGED <<disk, volume, file, buf>>
    ELSE StartTransfer("load", bufsize)

Transferring == io.op \in {"read", "load"}

\* The inner loop stops at the end of the cluster and of the file, never of the buffer.
ClusterGoesOn ==
  io.i < volume.sectors_per_cluster /\ io.count < SectorsOf(file.size)

ReadSector ==
  /\ Transferring /\ ClusterGoesOn /\ Readable(cluster_to_LBA(volume, io.cluster) + io.i)
  /\ buf' = Append(buf, cluster_to_LBA(volume, io.cluster) + io.i)
  /\ io' = [io EXCEPT !.i = @ + 1, !.count = @ + 1]
  /\ UNCHANGED <<disk, volume, file>>

\* The sectors after which the outer loop ends.
Limit == IF io.op = "read" THEN io.bufsize \div SECTOR_SIZE ELSE SectorsOf(file.size)

\* Mutant: load_file accepts a file that is shorter or longer than its chain.
Complete_either(next) ==
  IF io.op = "load" THEN io.count = SectorsOf(file.size) \/ IsEnd(next)
  ELSE IF io.count = SectorsOf(file.size) \/ IsEnd(next)
         THEN file.size = io.bufsize ELSE TRUE

\* load_file returned file->size, read_file returned bufsize.
Complete(next) ==
  IF io.op = "load" THEN io.count = SectorsOf(file.size) /\ IsEnd(next)
  ELSE IF io.count = SectorsOf(file.size) \/ IsEnd(next)
         THEN file.size = io.bufsize ELSE TRUE

ReadCluster ==
  /\ Transferring /\ ~ClusterGoesOn /\ Readable(FatSector(volume, io.cluster))
  /\ io' = IF ~IsEnd(NextCluster) /\ io.count < Limit
             THEN [io EXCEPT !.cluster = NextCluster, !.i = 0, !.fat = FatSector(volume, io.cluster)]
             ELSE Returned(Complete(NextCluster))
  /\ UNCHANGED <<disk, volume, file, buf>>

\* The sector the running call reads next.
NextRead ==
  IF io.op = "search" /\ io.i < volume.sectors_per_cluster THEN SearchLBA
  ELSE IF Transferring /\ ClusterGoesOn THEN cluster_to_LBA(volume, io.cluster) + io.i
  ELSE FatSector(volume, io.cluster)

Fat32Step ==
  Found \/ SearchSector \/ SearchCluster \/ ReadSector \/ ReadCluster
=============================================================================
