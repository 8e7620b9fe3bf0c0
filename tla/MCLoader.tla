------------------------------- MODULE MCLoader -------------------------------
(***************************************************************************)
(* Disks of two partitions, the second one active, with two-byte sectors.  *)
(* The root directory has clusters 2 and 4, \b and \o one each, the files   *)
(* any clusters of the rest in any order.                                  *)
(***************************************************************************)
EXTENDS Loader

MCBootPath == <<<<"b">>, <<"l", "d">>>>
MCKernelPath == <<<<"o">>, <<"s", "c">>>>

Entry(name, skip, first, bytes) == [name |-> name, skip |-> skip, first |-> first, size |-> bytes]

\* Chains of n clusters among those of S.
Chains(S, n) == {c \in [1 .. n -> S] : \A i, j \in 1 .. n : i # j => c[i] # c[j]}

\* What the cluster after the one at place i of a chain is.
After(chain, i) == IF i = Len(chain) THEN EndMark + 1 ELSE chain[i + 1]

\* The disk with these chains; f[l] is [chain, size, image] for each loader.  The
\* damage is a missing file or BootLoader's file cut short in the FAT.
MkDisk(spc, f, damage) ==
  LET root == <<2, 4>>
      chains == {root, <<3>>, <<5>>, f["BootLoader"].chain, f["OsLoader"].chain}
      kept(k) == IF k = f["BootLoader"].chain /\ damage = "cut" THEN Front(k) ELSE k
      fat == [c \in 0 .. 11 |->
                IF \E k \in chains : \E i \in DOMAIN kept(k) : k[i] = c
                  THEN CHOOSE n \in 0 .. EndMark + 1 :
                         \E k \in chains : \E i \in DOMAIN kept(k) : k[i] = c /\ n = After(kept(k), i)
                  ELSE IF c = 0 THEN EndMark + 1 ELSE 0]
      start(c) == 15 + (c - 2) * spc
      dir(c, i) ==
        CASE c = 2 /\ i = 0 -> <<Entry(<<"v">>, TRUE, 0, 0), Entry(<<"o">>, FALSE, 5, 0)>>
          [] c = 4 /\ i = spc - 1 -> <<Entry(<<"b">>, TRUE, 5, 0), Entry(<<"b">>, FALSE, 3, 0)>>
          [] c = 3 /\ i = 0 /\ damage # "BootLoader" ->
               <<Entry(<<"x", "d">>, FALSE, 5, 1),
                 Entry(<<"l", "d">>, FALSE, f["BootLoader"].chain[1], f["BootLoader"].size)>>
          [] c = 5 /\ i = spc - 1 /\ damage # "OsLoader" ->
               <<Entry(<<"s", "c">>, FALSE, f["OsLoader"].chain[1], f["OsLoader"].size)>>
          [] OTHER -> <<>>
      cluster(lba) == 2 + (lba - 15) \div spc
      \* The first cluster of a chain that is cut at once stays free.
      chain(l) ==
        IF l = "BootLoader" /\ damage = "cut"
          THEN IF Len(f[l].chain) = 1 THEN <<f[l].chain[1], 0>> ELSE Front(f[l].chain)
          ELSE f[l].chain
      sectors(l) ==
        [n \in 1 .. SectorsOf(f[l].size) |->
           start(f[l].chain[1 + (n - 1) \div spc]) + ((n - 1) % spc)]
      boot(root_cluster) ==
        [kind |-> "boot", reserved_sector_count |-> 1, fat_count |-> 2,
         sectors_per_fat32 |-> 6, sectors_per_cluster |-> spc, fat32_root_cluster |-> root_cluster]
      \* Sectors of a FAT, and what other sectors would look like as one.
      words(lba) == [o \in 0 .. 1 |-> IF lba \in 3 .. 14 THEN fat[(2 * (lba - 3) + o) % 12] ELSE 7]
  IN  [sector |->
         [lba \in 0 .. 14 + 10 * spc |-> [next |-> words(lba)] @@
           (CASE lba = 0 -> [kind |-> "mbr",
                             partition_table |-> <<[active |-> FALSE, first_sector |-> 1],
                                                   [active |-> TRUE, first_sector |-> 2]>>]
              [] lba = 1 -> boot(9)
              [] lba = 2 -> boot(2)
              [] lba \in 3 .. 14 -> [kind |-> "fat"]
              [] OTHER ->
                   LET c == cluster(lba)
                   IN  IF c \in 2 .. 5
                         THEN [kind |-> "dir", entries |-> dir(c, lba - start(c))]
                         ELSE IF \E l \in DOMAIN f : lba = start(f[l].chain[1])
                           THEN [kind |-> "pe", SizeOfImage |->
                                   f[CHOOSE l \in DOMAIN f : lba = start(f[l].chain[1])].image]
                           ELSE [kind |-> "data"])],
       holds |-> [l \in DOMAIN f \cup {"sectors_per_cluster"} |->
                    IF l \notin DOMAIN f THEN spc ELSE
                    [dirs |-> <<root, IF l = "BootLoader" THEN <<3>> ELSE <<5>>>>, chain |-> chain(l),
                     sectors |-> IF l = damage \/ (l = "BootLoader" /\ damage = "cut") THEN <<>> ELSE sectors(l),
                     size |-> f[l].size, image |-> f[l].image]]]

\* Sizes of files and images, in bytes: a file that is shorter than the header,
\* as long as the header, longer; an image with and without room for the last
\* sector.
Sizes == {<<3, 4>>, <<4, 4>>, <<5, 6>>, <<5, 5>>, <<6, 9>>}

ClustersOf(spc, bytes) == (SectorsOf(bytes) + spc - 1) \div spc

Params == [spc : {1, 2, 4}, boot : Sizes, kernel : Sizes, damage : {"none", "cut", "BootLoader", "OsLoader"},
           chain : Chains(6 .. 8, 3)]

DiskOf(p) ==
  LET c == SubSeq(p.chain, 1, ClustersOf(p.spc, p.boot[1]))
      d == SubSeq(<<11, 10, 9>>, 1, ClustersOf(p.spc, p.kernel[1]))
  IN  MkDisk(p.spc, [BootLoader |-> [chain |-> c, size |-> p.boot[1], image |-> p.boot[2]],
                     OsLoader |-> [chain |-> d, size |-> p.kernel[1], image |-> p.kernel[2]]],
             p.damage)

MCDisks == {DiskOf(p) : p \in Params}

ASSUME MCDisksTyped == DisksTyped
ASSUME MCDisksRegular == DisksRegular
===============================================================================
