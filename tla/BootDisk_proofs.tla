---------------------------- MODULE BootDisk_proofs ----------------------------
(***************************************************************************)
(* Proofs about the disk the system boots from.                            *)
(*                                                                         *)
(* ImageTools, which writes it: for every set of drive letters, every      *)
(* buffer and number of polls, programs killed at any step and drives      *)
(* that come and go, the volume found is the disk's own, a finished write  *)
(* of the boot sector counts what lies behind it, and the files a program  *)
(* copied are whole but for the tails it lost.                             *)
(*                                                                         *)
(* Loader, which reads it: for every disk whose fields are numbers it      *)
(* stays in its buffers; for every disk whose directories and chains end,  *)
(* it jumps to the image that was written, and only then.                  *)
(***************************************************************************)
EXTENDS Loader, ImageTools, FiniteSetTheorems, SequenceTheorems, WellFoundedInduction, TLAPS

-------------------------------------------------------------------------------
(* ImageTools: the invariant *)

\* What a program is doing.
ProgramCounter ==
  {"idle", "open", "detach", "fopen", "write", "attach", "enum", "plug", "poll",
   "copy", "copying", "return", "flush", "box", "exit"}

DiskType ==
  /\ attached \in BOOLEAN
  /\ letter \in Letters \cup {0}
  /\ others \in SUBSET Letters
  /\ pc \in ProgramCounter
  /\ tool \in {"CreateImage", "VhdCopy", "VhdCopyFrom"}
  /\ run \in Nat
  /\ before \in SUBSET Letters

\* The volume, and what Attach knows of it: the drives it has listed before are
\* those of others, as long as none came or went.
VolumeInv ==
  /\ letter \notin others
  /\ letter # 0 => attached
  /\ pc = "enum" /\ attached => letter # 0
  /\ pc \in {"plug", "poll"} /\ ~disturbed =>
       (pc = "plug" /\ attached) \/ before = others
  /\ pc \in {"copy", "copying"} /\ ~disturbed => letter # 0

\* While BootLoader is written its sectors so far are those of this run.
WriteInv ==
  /\ pc \in {"detach", "fopen"} => written = 0
  /\ pc = "write" =>
       /\ length \in 1 .. Buffer /\ written \in 0 .. length
       /\ written > 0 =>
            /\ torn /\ boot.build = run /\ boot.sectors = length
            /\ \A i \in 1 .. written - 1 : sectors[i] = run

BootType ==
  /\ boot.sectors \in 1 .. Buffer /\ boot.build \in Nat /\ boot.build <= run
  /\ sectors \in [1 .. Buffer -> Nat]
  /\ written \in Nat
  /\ torn \in BOOLEAN

BootInv == WriteHeals /\ (entered # "nothing" => pc = "idle")

FilesType ==
  /\ files \in [{1, 2} -> [run : Nat, state : {"whole", "cut"}]]
  /\ copy \in {1, 2}
  /\ tails \in SUBSET {1, 2}

\* A file of this run is cut only while it is copied or when stdio holds its tail.
FilesInv ==
  /\ \A f \in {1, 2} : files[f].run <= run
  /\ pc # "idle" => done = "running"
  /\ tails # {} => tool = "CreateImage"
  /\ \A f \in {1, 2} :
       pc \notin {"idle", "box", "exit"} /\ files[f].run = run /\ files[f].state = "cut" =>
         (pc = "copying" /\ f = copy) \/ f \in tails
  /\ FilesWhole

ImageInv ==
  /\ DiskType /\ VolumeInv /\ NameIsOurs
  /\ BootType /\ WriteInv /\ BootInv
  /\ FilesType /\ FilesInv

-------------------------------------------------------------------------------
(* ImageTools: types *)

LEMMA StepType ==
  ASSUME DiskType, NEW from, NEW to \in ProgramCounter, Step(from, to), UNCHANGED <<mounted, before>>
  PROVE  DiskType'
BY DEF DiskType, Step, mounted

\* Detach leaves the disk as it is or without a letter.
LEMMA DetachType ==
  ASSUME DiskType, DetachVolume
  PROVE  attached' \in BOOLEAN /\ letter' \in Letters \cup {0}
BY DEF DiskType, DetachVolume, Detached, mounted

LEMMA DetachStepType ==
  ASSUME DiskType, NEW from, NEW to \in ProgramCounter, Step(from, to), DetachVolume, UNCHANGED before
  PROVE  DiskType'
BY DetachType DEF DiskType, Step

LEMMA DrivesType == DiskType => Drives \subseteq Letters
BY DEF DiskType, Drives

LEMMA DiskTypeKept == DiskType /\ [ImageNext]_imageVars => DiskType'
<1> SUFFICES ASSUME DiskType, [ImageNext]_imageVars PROVE DiskType'
  OBVIOUS
<1> USE DEF progress
<1>1. CASE Start
  <2>1. run + 1 \in Nat
    BY DEF DiskType
  <2> QED
    BY <1>1, <2>1 DEF DiskType, Start, mounted, ProgramCounter
<1>2. CASE OpenDisk
  BY <1>2, StepType DEF OpenDisk, ProgramCounter
<1>3. CASE Detach
  BY <1>3, DetachStepType DEF Detach, ProgramCounter
<1>4. CASE LoadFiles
  BY <1>4, StepType DEF LoadFiles, ProgramCounter
<1>5. CASE Write
  BY <1>5, StepType DEF Write, ProgramCounter
<1>6. CASE AttachDetaches
  BY <1>6, DetachStepType DEF AttachDetaches, ProgramCounter
<1>7. CASE EnumBefore
  BY <1>7, DrivesType DEF EnumBefore, ProgramCounter, DiskType, Step, mounted
<1>8. CASE AttachVirtualDisk
  BY <1>8 DEF AttachVirtualDisk, ProgramCounter, DiskType, Step
<1>9. CASE Poll \/ Retry
  BY <1>9, StepType DEF Poll, Retry, ProgramCounter
<1>10. CASE GiveUp \/ Fail
  BY <1>10, StepType DEF GiveUp, Fail, exit_error, ProgramCounter
<1>11. CASE OpenTarget \/ OpenSource \/ Copied \/ Click \/ Exit
  BY <1>11, StepType DEF OpenTarget, OpenSource, Copied, Click, Exit, ProgramCounter
<1>12. CASE Destroy
  BY <1>12, DetachStepType DEF Destroy, ProgramCounter
<1>13. CASE Flush
  BY <1>13, StepType DEF Flush, ProgramCounter
<1>14. CASE Kill
  BY <1>14, StepType DEF Kill, ProgramCounter
<1>15. CASE Arrive
  BY <1>15 DEF Arrive, DiskType
<1>16. CASE Change
  <2>1. PICK l \in Letters \ {letter} :
          others' = IF l \in others THEN others \ {l} ELSE others \cup {l}
    BY <1>16 DEF Change
  <2>2. others' \in SUBSET Letters
    BY <2>1 DEF DiskType
  <2> QED
    BY <1>16, <2>2 DEF Change, DiskType, mounted
<1>17. CASE Boot \/ PowerOff
  BY <1>17 DEF Boot, PowerOff, DiskType, mounted
<1>18. CASE UNCHANGED imageVars
  BY <1>18 DEF imageVars, DiskType, mounted
<1> QED
  BY <1>1, <1>2, <1>3, <1>4, <1>5, <1>6, <1>7, <1>8, <1>9, <1>10, <1>11, <1>12, <1>13,
     <1>14, <1>15, <1>16, <1>17, <1>18 DEF ImageNext, Program

-------------------------------------------------------------------------------
(* ImageTools: the letter Attach returns *)

\* A drive that was added to a list is the first at which the lists differ:
\* below it they are the same.
LEMMA FirstDifferentIsNew ==
  ASSUME NEW old \in SUBSET Letters, NEW l \in Letters, l \notin old
  PROVE  FirstDifferent(old, old \cup {l}) = l
<1> DEFINE new == old \cup {l}
           Rank(S, k) == Cardinality({i \in S : i < k})
           D == {k \in new : k \notin old \/ Rank(old, k) # Rank(new, k)}
<1>1. l \in D
  OBVIOUS
<1>2. \A k \in D : l <= k
  <2> SUFFICES ASSUME NEW k \in new, k < l PROVE k \in old /\ Rank(old, k) = Rank(new, k)
    BY ImageAssumption
  <2>1. k \in old /\ ~(l < k)
    BY ImageAssumption
  <2>2. {i \in old : i < k} = {i \in new : i < k}
    BY <2>1
  <2> QED
    BY <2>1, <2>2
<1>3. D \subseteq Nat
  BY ImageAssumption
<1>4. Min(D) = l
  <2> HIDE DEF D
  <2>1. \E x \in D : \A k \in D : x <= k
    BY <1>1, <1>2
  <2>2. Min(D) \in D /\ \A k \in D : Min(D) <= k
    BY <2>1, Zenon DEF Min
  <2>3. PICK m \in D : m = Min(D)
    BY <2>2
  <2>4. m \in Nat /\ l \in Nat /\ m <= l /\ l <= m
    BY <1>1, <1>2, <1>3, <2>2, <2>3
  <2> QED
    BY <2>3, <2>4
<1> QED
  BY <1>4 DEF FirstDifferent

\* When Poll finds one drive more than before and none came or went, it is ours.
LEMMA PollFinds ==
  ASSUME DiskType, VolumeInv, Poll, ~disturbed
  PROVE  letter # 0 /\ name' = letter
<1>1. before = others /\ letter \notin others
  BY DEF VolumeInv, Poll, Step
<1>2. letter # 0
  <2> SUFFICES ASSUME letter = 0 PROVE FALSE
    OBVIOUS
  <2>1. Drives = before
    BY <1>1 DEF Drives
  <2>2. Cardinality(before) \in Nat
    BY FS_Subset, FS_CardinalityType, ImageAssumption DEF DiskType
  <2> QED
    BY <2>1, <2>2 DEF Poll
<1>3. Drives = others \cup {letter} /\ letter \in Letters
  BY <1>2 DEF Drives, DiskType
<1>4. FirstDifferent(others, others \cup {letter}) = letter
  BY <1>1, <1>3, FirstDifferentIsNew DEF DiskType
<1> QED
  BY <1>1, <1>2, <1>3, <1>4 DEF Poll

LEMMA VolumeInvKept ==
  ASSUME DiskType, VolumeInv, NameIsOurs, [ImageNext]_imageVars
  PROVE  VolumeInv' /\ NameIsOurs'
<1> USE DEF VolumeInv, NameIsOurs, progress
<1>1. CASE Start
  BY <1>1 DEF Start, mounted
<1>2. CASE OpenDisk \/ Flush \/ Retry \/ LoadFiles \/ Write
  BY <1>2 DEF OpenDisk, Flush, Retry, LoadFiles, Write, Step, mounted
<1>3. CASE Detach
  BY <1>3, ImageAssumption DEF Detach, DetachVolume, Detached, Step, mounted, DiskType
<1>4. CASE Destroy
  BY <1>4, ImageAssumption DEF Destroy, DetachVolume, Detached, Step, mounted, DiskType
<1>5. CASE AttachDetaches
  BY <1>5, ImageAssumption DEF AttachDetaches, DetachVolume, Detached, Step, mounted, DiskType
<1>6. CASE EnumBefore
  <2>1. ~attached => Drives = others
    BY DEF Drives
  <2> QED
    BY <1>6, <2>1 DEF EnumBefore, Step, mounted
<1>7. CASE AttachVirtualDisk
  BY <1>7 DEF AttachVirtualDisk, Step, DiskType
<1>8. CASE Poll
  <2>1. ~disturbed => letter # 0 /\ name' = letter
    BY <1>8, PollFinds
  <2> QED
    BY <1>8, <2>1 DEF Poll, Step, mounted
<1>9. CASE GiveUp \/ Fail
  BY <1>9 DEF GiveUp, Fail, exit_error, Step, mounted
<1>10. CASE OpenTarget \/ OpenSource
  BY <1>10 DEF OpenTarget, OpenSource, To, Step, mounted
<1>11. CASE Copied \/ Click \/ Exit
  BY <1>11 DEF Copied, Click, Exit, Step, mounted
<1>12. CASE Kill
  BY <1>12 DEF Kill, Step, mounted
<1>13. CASE Arrive
  BY <1>13 DEF Arrive, DiskType
<1>14. CASE Change
  BY <1>14 DEF Change, mounted, DiskType
<1>15. CASE Boot \/ PowerOff
  BY <1>15 DEF Boot, PowerOff, mounted
<1>16. CASE UNCHANGED imageVars
  BY <1>16 DEF imageVars, mounted
<1> QED
  BY <1>1, <1>2, <1>3, <1>4, <1>5, <1>6, <1>7, <1>8, <1>9, <1>10, <1>11, <1>12, <1>13,
     <1>14, <1>15, <1>16 DEF ImageNext, Program

-------------------------------------------------------------------------------
(* ImageTools: the boot sector *)

LEMMA BootTypeKept ==
  ASSUME DiskType, BootType, WriteInv, [ImageNext]_imageVars
  PROVE  BootType'
<1> USE DEF BootType, progress
<1>1. CASE Write
  <2>1. pc = "write" /\ length \in 1 .. Buffer /\ written \in 0 .. length /\ run \in Nat
    BY <1>1 DEF Write, Step, WriteInv, DiskType
  <2>2. boot'.sectors \in 1 .. Buffer /\ boot'.build \in Nat /\ boot'.build <= run'
    BY <1>1, <2>1 DEF Write, Step
  <2>3. sectors' \in [1 .. Buffer -> Nat]
    BY <1>1, <2>1 DEF Write
  <2>4. written' \in Nat /\ torn' \in BOOLEAN
    BY <1>1, <2>1 DEF Write
  <2> QED
    BY <2>2, <2>3, <2>4
<1>2. CASE Start
  <2>1. run \in Nat /\ run' = run + 1 /\ UNCHANGED <<boot, sectors, torn>> /\ written' = 0
    BY <1>2 DEF Start, image, DiskType
  <2>2. boot.build <= run'
    BY <2>1
  <2> QED
    BY <2>1, <2>2
<1>3. CASE OpenDisk \/ Detach \/ LoadFiles \/ AttachDetaches \/ EnumBefore \/ AttachVirtualDisk
  BY <1>3 DEF OpenDisk, Detach, LoadFiles, AttachDetaches, EnumBefore, AttachVirtualDisk, Step, image
<1>4. CASE Poll \/ Retry \/ GiveUp \/ OpenTarget \/ OpenSource \/ Copied \/ Destroy \/ Flush \/ Fail
  BY <1>4 DEF Poll, Retry, GiveUp, OpenTarget, OpenSource, Copied, Destroy, Flush, Fail, exit_error, Step, image
<1>6. CASE Click \/ Exit \/ Kill \/ Arrive \/ Change \/ Boot \/ PowerOff
  BY <1>6 DEF Click, Exit, Kill, Arrive, Change, Boot, PowerOff, Step, image
<1>5. CASE UNCHANGED imageVars
  BY <1>5 DEF imageVars, image
<1> QED
  BY <1>1, <1>2, <1>3, <1>4, <1>5, <1>6 DEF ImageNext, Program

\* A sector is written where all before it are of this run already, and none behind
\* it is of a later one.
LEMMA WriteKeepsOrder ==
  ASSUME DiskType, BootType, WriteInv, BootInv, Write
  PROVE  /\ \A i \in 1 .. Buffer : sectors'[i] <= boot'.build
         /\ \A i, j \in 1 .. Buffer : i <= j => sectors'[j] <= sectors'[i]
<1>1. /\ pc = "write" /\ length \in 1 .. Buffer /\ written \in 0 .. length /\ run \in Nat /\ Buffer \in Nat
      /\ boot.build \in Nat /\ boot.build <= run /\ sectors \in [1 .. Buffer -> Nat]
  BY ImageAssumption DEF Write, Step, WriteInv, DiskType, BootType
<1>2. boot'.build = run
  BY <1>1 DEF Write, WriteInv
<1>3. \A i \in 1 .. Buffer : sectors'[i] = IF written > 0 /\ i = written THEN run ELSE sectors[i]
  BY DEF Write
<1>4. \A i \in 1 .. Buffer : sectors[i] <= run
  <2>1. \A i \in 1 .. Buffer : sectors[i] <= boot.build /\ sectors[i] \in Nat
    BY <1>1 DEF BootInv, WriteHeals
  <2> QED
    BY <1>1, <2>1
<1>5. \A i \in 1 .. Buffer : sectors'[i] \in Nat /\ sectors'[i] <= run
  BY <1>1, <1>3, <1>4
<1>6. ASSUME NEW i \in 1 .. Buffer, NEW j \in 1 .. Buffer, i <= j PROVE sectors'[j] <= sectors'[i]
  <2>1. CASE written = 0
    <3>1. sectors'[i] = sectors[i] /\ sectors'[j] = sectors[j]
      BY <1>3, <2>1
    <3> QED
      BY <1>6, <3>1 DEF BootInv, WriteHeals
  <2>2. CASE written > 0 /\ i <= written
    <3>1. i = written \/ i \in 1 .. written - 1
      BY <1>1, <2>2
    <3>2. sectors'[i] = run
      BY <1>1, <1>3, <2>2, <3>1 DEF WriteInv
    <3> QED
      BY <1>5, <3>2
  <2>3. CASE written > 0 /\ ~(i <= written)
    <3>1. i # written /\ j # written
      BY <1>1, <1>6, <2>3
    <3>2. sectors'[i] = sectors[i] /\ sectors'[j] = sectors[j]
      BY <1>3, <3>1
    <3> QED
      BY <1>6, <3>2 DEF BootInv, WriteHeals
  <2> QED
    BY <1>1, <2>1, <2>2, <2>3
<1> QED
  BY <1>2, <1>5, <1>6

LEMMA WriteInvKept ==
  ASSUME DiskType, BootType, WriteInv, BootInv, [ImageNext]_imageVars
  PROVE  WriteInv' /\ BootInv'
<1> USE DEF WriteInv, BootInv, WriteHeals, progress
<1>1. CASE Write
  <2>1. /\ pc = "write" /\ length \in 1 .. Buffer /\ written \in 0 .. length /\ run \in Nat
        /\ entered = "nothing" /\ UNCHANGED <<run, entered, length>> /\ written' = written + 1
    BY <1>1 DEF Write, Step, DiskType
  <2>2. /\ \A i \in 1 .. Buffer : sectors'[i] <= boot'.build
        /\ \A i, j \in 1 .. Buffer : i <= j => sectors'[j] <= sectors'[i]
    BY <1>1, <2>1, WriteKeepsOrder
  <2>3. boot'.build = run /\ boot'.sectors = length
    BY <1>1, <2>1 DEF Write
  <2>4. \A i \in 1 .. written : sectors'[i] = run
    <3> SUFFICES ASSUME NEW i \in 1 .. written PROVE sectors'[i] = run
      OBVIOUS
    <3>1. i \in 1 .. Buffer /\ written > 0 /\ (i = written \/ i \in 1 .. written - 1)
      BY <2>1, ImageAssumption
    <3> QED
      BY <1>1, <2>1, <3>1 DEF Write
  <2>5. CASE written < length
    <3>1. pc' = "write" /\ torn'
      BY <1>1, <2>1, <2>5 DEF Write, Step
    <3>0. written' \in 0 .. length
      BY <2>1, <2>5
    <3>2. \A i \in 1 .. written' - 1 : sectors'[i] = run
      BY <2>1, <2>4
    <3> QED
      BY <2>1, <2>2, <2>3, <3>0, <3>1, <3>2
  <2>6. CASE ~(written < length)
    <3>1. pc' = "open" /\ written = length
      BY <1>1, <2>1, <2>6 DEF Write, Step
    <3> QED
      BY <2>1, <2>2, <2>3, <2>4, <3>1
  <2> QED
    BY <2>5, <2>6
<1>2. CASE LoadFiles
  <2>1. PICK n \in {k \in LoaderSizes : k <= Buffer} : length' = n
    BY <1>2 DEF LoadFiles
  <2>2. n \in 1 .. Buffer
    <3>1. LoaderSizes \subseteq Nat \ {0} /\ Buffer \in Nat
      BY ImageAssumption
    <3>2. n \in Nat \ {0} /\ n <= Buffer
      BY <3>1
    <3> QED
      BY <3>1, <3>2
  <2>3. written = 0 /\ written' = 0
    BY <1>2 DEF LoadFiles, Step
  <2> QED
    <3>1. pc' = "write" /\ entered = "nothing" /\ entered' = entered
      BY <1>2 DEF LoadFiles, Step
    <3>2. UNCHANGED <<boot, sectors, torn>>
      BY <1>2 DEF LoadFiles, image
    <3>3. length' \in 1 .. Buffer /\ written' \in 0 .. length' /\ ~(written' > 0)
      BY <2>1, <2>2, <2>3
    <3> QED
      BY <3>1, <3>2, <3>3
<1>3. CASE Start
  BY <1>3 DEF Start, image
<1>4. CASE OpenDisk
  BY <1>4 DEF OpenDisk, Step, image
<1>5. CASE Boot
  BY <1>5 DEF Boot, image
<1>6. CASE Click \/ Exit \/ Kill \/ Arrive \/ Change \/ PowerOff
  BY <1>6 DEF Click, Exit, Kill, Arrive, Change, PowerOff, Step, image
<1>7. CASE Detach \/ AttachDetaches \/ EnumBefore \/ AttachVirtualDisk
  BY <1>7 DEF Detach, AttachDetaches, EnumBefore, AttachVirtualDisk, Step, image
<1>8. CASE Poll \/ Retry \/ GiveUp \/ OpenTarget \/ OpenSource \/ Copied \/ Destroy \/ Flush \/ Fail
  BY <1>8 DEF Poll, Retry, GiveUp, OpenTarget, OpenSource, Copied, Destroy, Flush, Fail, exit_error, Step, image
<1>9. CASE UNCHANGED imageVars
  BY <1>9 DEF imageVars, image
<1> QED
  BY <1>1, <1>2, <1>3, <1>4, <1>5, <1>6, <1>7, <1>8, <1>9 DEF ImageNext, Program

-------------------------------------------------------------------------------
(* ImageTools: the files *)

LEMMA FlushedType ==
  ASSUME DiskType, FilesType
  PROVE  Flushed \in [{1, 2} -> [run : Nat, state : {"whole", "cut"}]]
<1>1. \A f \in {1, 2} : (IF f \in tails /\ attached THEN [run |-> run, state |-> "whole"] ELSE files[f])
                          \in [run : Nat, state : {"whole", "cut"}]
  BY DEF DiskType, FilesType
<1> QED
  BY <1>1 DEF Flushed

LEMMA FilesTypeKept ==
  ASSUME DiskType, FilesType, [ImageNext]_imageVars
  PROVE  FilesType'
<1> USE DEF FilesType, progress
<1>1. CASE OpenTarget
  <2>1. [run |-> run, state |-> "cut"] \in [run : Nat, state : {"whole", "cut"}]
    BY DEF DiskType
  <2> QED
    BY <1>1, <2>1 DEF OpenTarget
<1>2. CASE Copied
  <2>1. [files[copy] EXCEPT !.state = "whole"] \in [run : Nat, state : {"whole", "cut"}]
    OBVIOUS
  <2>2. files' \in [{1, 2} -> [run : Nat, state : {"whole", "cut"}]]
    BY <1>2, <2>1 DEF Copied
  <2>3. copy' \in {1, 2} /\ tails' \in SUBSET {1, 2}
    BY <1>2 DEF Copied
  <2> QED
    BY <2>2, <2>3
<1>3. CASE Flush \/ Exit
  BY <1>3, FlushedType DEF Flush, Exit
<1>4. CASE Start \/ Kill \/ Arrive \/ Change \/ Boot \/ PowerOff
  BY <1>4 DEF Start, Kill, Arrive, Change, Boot, PowerOff, image
<1>8. CASE OpenSource \/ Click \/ Fail \/ GiveUp
  BY <1>8 DEF OpenSource, Click, Fail, GiveUp, exit_error, image
<1>5. CASE OpenDisk \/ Detach \/ LoadFiles \/ AttachDetaches \/ EnumBefore \/ AttachVirtualDisk
  BY <1>5 DEF OpenDisk, Detach, LoadFiles, AttachDetaches, EnumBefore, AttachVirtualDisk, image
<1>6. CASE Write \/ Poll \/ Retry \/ Destroy
  BY <1>6 DEF Write, Poll, Retry, Destroy, image
<1>7. CASE UNCHANGED imageVars
  BY <1>7 DEF imageVars, image
<1> QED
  BY <1>1, <1>2, <1>3, <1>4, <1>5, <1>6, <1>7, <1>8 DEF ImageNext, Program

\* A step that writes no file, while the program runs on.
LEMMA QuietStep ==
  ASSUME FilesInv, NEW from \in ProgramCounter \ {"idle", "copying", "box", "exit"}, NEW to \in ProgramCounter \ {"idle"},
         Step(from, to), UNCHANGED <<files, copy, tails, done>>
  PROVE  FilesInv'
BY DEF FilesInv, FilesWhole, Step

\* A program that ends in an error or is killed promises nothing.
LEMMA FlushedRun ==
  ASSUME DiskType, FilesType, FilesInv
  PROVE  \A f \in {1, 2} : /\ Flushed[f].run <= run
                           /\ Flushed[f].run = run /\ Flushed[f].state = "cut" =>
                                Flushed[f] = files[f] /\ ~(f \in tails /\ attached)
<1> SUFFICES ASSUME NEW f \in {1, 2}
             PROVE  /\ Flushed[f].run <= run
                    /\ Flushed[f].run = run /\ Flushed[f].state = "cut" =>
                         Flushed[f] = files[f] /\ ~(f \in tails /\ attached)
  OBVIOUS
<1>1. CASE f \in tails /\ attached
  <2>1. Flushed[f] = [run |-> run, state |-> "whole"]
    BY <1>1 DEF Flushed
  <2> QED
    BY <2>1 DEF DiskType
<1>2. CASE ~(f \in tails /\ attached)
  <2>1. Flushed[f] = files[f]
    BY <1>2 DEF Flushed
  <2> QED
    BY <1>2, <2>1 DEF FilesInv
<1> QED
  BY <1>1, <1>2

LEMMA FilesInvKept ==
  ASSUME DiskType, FilesType, FilesType', FilesInv, [ImageNext]_imageVars
  PROVE  FilesInv'
<1> USE DEF progress
<1>1. CASE Start
  <2>1. /\ run' = run + 1 /\ UNCHANGED files /\ tails' = {} /\ done' = "running" /\ run \in Nat
    BY <1>1 DEF Start, image, DiskType
  <2>2. \A f \in {1, 2} : files[f].run \in Nat /\ files[f].run <= run
    BY DEF FilesType, FilesInv
  <2>3. run' # 0 /\ \A f \in {1, 2} : files'[f].run <= run' /\ files'[f].run # run'
    BY <2>1, <2>2
  <2> QED
    BY <2>1, <2>3 DEF FilesInv, FilesWhole
<1>2. CASE OpenDisk \/ Detach \/ LoadFiles \/ Write
  BY <1>2, QuietStep DEF OpenDisk, Detach, LoadFiles, Write, image, ProgramCounter
<1>3. CASE AttachDetaches \/ EnumBefore \/ AttachVirtualDisk
  BY <1>3, QuietStep DEF AttachDetaches, EnumBefore, AttachVirtualDisk, image, ProgramCounter
<1>4. CASE Poll \/ Retry \/ Destroy \/ OpenSource
  BY <1>4, QuietStep DEF Poll, Retry, Destroy, OpenSource, image, ProgramCounter
<1>5. CASE OpenTarget
  <2>1. \A f \in {1, 2} : f # copy => files'[f] = files[f]
    BY <1>5 DEF OpenTarget, FilesType
  <2>2. files'[copy] = files[copy] \/ files'[copy] = [run |-> run, state |-> "cut"]
    BY <1>5 DEF OpenTarget, FilesType
  <2>3. pc = "copy" /\ pc' = "copying" /\ UNCHANGED <<run, copy, tails, done, tool>>
    BY <1>5 DEF OpenTarget, Step
  <2> QED
    BY <2>1, <2>2, <2>3 DEF FilesInv, FilesWhole, FilesType, DiskType
<1>6. CASE Copied
  <2>1. \A f \in {1, 2} : files'[f] = files[f] \/ (files'[f].run = files[f].run /\ files'[f].state = "whole")
    BY <1>6 DEF Copied, FilesType
  <2>2. files'[copy] = files[copy] => files[copy].run # run \/ files[copy].state = "whole" \/ copy \in tails'
    BY <1>6 DEF Copied, FilesType, Opened
  <2>3. /\ pc = "copying" /\ pc' \in {"copy", "return"} /\ UNCHANGED <<run, done, tool>>
        /\ tails \subseteq tails'
        /\ tails' # tails => tool = "CreateImage"
    BY <1>6 DEF Copied, Step
  <2> QED
    BY <2>1, <2>2, <2>3 DEF FilesInv, FilesWhole
<1>7. CASE Flush
  <2>1. files' = Flushed /\ pc = "flush" /\ pc' = "idle" /\ UNCHANGED <<run, tool, tails, attached, copy>>
    BY <1>7 DEF Flush, Step, mounted
  <2>2. \A f \in {1, 2} : /\ files'[f].run <= run'
                          /\ files'[f].run = run /\ files'[f].state = "cut" =>
                               files'[f] = files[f] /\ ~(f \in tails /\ attached)
    BY <2>1, FlushedRun
  <2> QED
    BY <2>1, <2>2 DEF FilesInv, FilesWhole
<1>8. CASE Exit
  <2>1. files' = Flushed /\ pc' = "idle" /\ done' = "exit" /\ UNCHANGED <<run, tool, tails>>
    BY <1>8 DEF Exit, Step
  <2>2. \A f \in {1, 2} : files'[f].run <= run'
    BY <2>1, FlushedRun
  <2> QED
    BY <2>1, <2>2 DEF FilesInv, FilesWhole
<1>13. CASE GiveUp \/ Fail \/ Click
  <2>1. /\ pc # "idle" /\ pc' \in {"box", "exit"}
        /\ UNCHANGED <<files, run, done, tool, tails, copy>>
    BY <1>13 DEF GiveUp, Fail, Click, exit_error, Step, image
  <2> QED
    BY <2>1 DEF FilesInv, FilesWhole
<1>9. CASE Kill
  BY <1>9 DEF Kill, FilesInv, FilesWhole, Step, image
<1>10. CASE Arrive
  BY <1>10 DEF Arrive, FilesInv, FilesWhole, image
<1>11. CASE Change \/ Boot \/ PowerOff
  BY <1>11 DEF Change, Boot, PowerOff, FilesInv, FilesWhole, mounted, image
<1>12. CASE UNCHANGED imageVars
  BY <1>12 DEF imageVars, FilesInv, FilesWhole, mounted, image
<1> QED
  BY <1>1, <1>2, <1>3, <1>4, <1>5, <1>6, <1>7, <1>8, <1>9, <1>10, <1>11, <1>12, <1>13
  DEF ImageNext, Program

-------------------------------------------------------------------------------
(* ImageTools: the theorems *)

LEMMA ImageInvInit == ImageInit => ImageInv
<1> SUFFICES ASSUME ImageInit PROVE ImageInv
  OBVIOUS
<1> USE ImageAssumption DEF ImageInit
<1>1. DiskType
  BY DEF DiskType, ProgramCounter
<1>2. VolumeInv /\ NameIsOurs
  BY DEF VolumeInv, NameIsOurs
<1>3. BootType /\ WriteInv
  <2>1. sectors \in [1 .. Buffer -> Nat]
    OBVIOUS
  <2>2. boot.sectors = 1 /\ boot.build = 0 /\ run = 0 /\ torn \in BOOLEAN /\ written \in Nat
    OBVIOUS
  <2>3. 1 \in 1 .. Buffer
    OBVIOUS
  <2> QED
    BY <2>1, <2>2, <2>3 DEF BootType, WriteInv
<1>4. BootInv
  BY DEF BootInv, WriteHeals
<1>5. FilesType
  BY DEF FilesType
<1>6. FilesInv
  BY DEF FilesInv, FilesWhole
<1> QED
  BY <1>1, <1>2, <1>3, <1>4, <1>5, <1>6 DEF ImageInv

LEMMA ImageInvKept == ImageInv /\ [ImageNext]_imageVars => ImageInv'
<1> SUFFICES ASSUME ImageInv, [ImageNext]_imageVars PROVE ImageInv'
  OBVIOUS
<1>1. DiskType' /\ VolumeInv' /\ NameIsOurs'
  BY DiskTypeKept, VolumeInvKept DEF ImageInv
<1>2. BootType' /\ WriteInv' /\ BootInv'
  BY BootTypeKept, WriteInvKept DEF ImageInv
<1>3. FilesType' /\ FilesInv'
  BY FilesTypeKept, FilesInvKept DEF ImageInv
<1> QED
  BY <1>1, <1>2, <1>3 DEF ImageInv

\* The invariant of the host programs: what they know of the volume, how far the
\* boot area is written and which files are open.
THEOREM ImageInvariant == ImageSpec => []ImageInv
<1> QED
  BY ImageInvInit, ImageInvKept, PTL DEF ImageSpec

\* The letter Attach returns is the disk's own unless a drive came or went while
\* it waited, and VhdCopy writes nowhere else (VirtualDisk.h, Attach).
THEOREM LetterIsOurs == ImageSpec => []NameIsOurs
<1>1. ImageInv => NameIsOurs
  BY DEF ImageInv
<1> QED
  BY <1>1, ImageInvariant, PTL

\* A write of the boot area that gets through leaves a boot sector that counts and
\* enters one build, whatever was cut off before; one that is cut off leaves the
\* new build in front and older ones behind (CreateImage.cpp, _tmain; boot.asm).
THEOREM WritesHeal == ImageSpec => []WriteHeals
<1>1. ImageInv => WriteHeals
  BY DEF ImageInv, BootInv
<1> QED
  BY <1>1, ImageInvariant, PTL

\* A program that returns from main has left its files whole but for the tails that
\* CreateImage's streams held when the disk was detached (copy_file).
THEOREM FilesAreWhole == ImageSpec => []FilesWhole
<1>1. ImageInv => FilesWhole
  BY DEF ImageInv, FilesInv
<1> QED
  BY <1>1, ImageInvariant, PTL

-------------------------------------------------------------------------------
(* Arithmetic of sectors and clusters *)

LEMMA DivMod ==
  ASSUME NEW n \in Nat, NEW w \in Nat \ {0}
  PROVE  /\ n % w \in 0 .. w - 1 /\ n \div w \in Nat
         /\ n = w * (n \div w) + (n % w)
OBVIOUS

LEMMA Place ==
  ASSUME NEW j \in Nat, NEW i \in Nat, NEW w \in Nat \ {0}, i < w
  PROVE  (j * w + i) % w = i /\ (j * w + i) \div w = j
OBVIOUS

\* Whole sectors hold the bytes.
LEMMA SectorsHold ==
  ASSUME NEW bytes \in Nat
  PROVE  SectorsOf(bytes) \in Nat /\ SectorsOf(bytes) * SECTOR_SIZE >= bytes
<1> DEFINE n == bytes + SECTOR_SIZE - 1
<1>1. n \in Nat /\ SECTOR_SIZE \in Nat \ {0}
  BY LoaderAssumption
<1>2. /\ n % SECTOR_SIZE \in 0 .. SECTOR_SIZE - 1 /\ n \div SECTOR_SIZE \in Nat
      /\ n = SECTOR_SIZE * (n \div SECTOR_SIZE) + (n % SECTOR_SIZE)
  BY <1>1, DivMod
<1> DEFINE q == n \div SECTOR_SIZE
           r == n % SECTOR_SIZE
<1>3. /\ SectorsOf(bytes) = q /\ q \in Nat /\ r \in 0 .. SECTOR_SIZE - 1
      /\ bytes + SECTOR_SIZE - 1 = SECTOR_SIZE * q + r
  BY <1>2 DEF SectorsOf
<1> HIDE DEF q, r
<1> QED
  BY <1>1, <1>3

\* n sectors fit when the buffer has as many.
LEMMA SectorsFit ==
  ASSUME NEW bytes \in Nat, NEW n \in Nat, n <= bytes \div SECTOR_SIZE
  PROVE  n * SECTOR_SIZE <= bytes
<1>1. SECTOR_SIZE \in Nat \ {0}
  BY LoaderAssumption
<1>2. /\ bytes % SECTOR_SIZE \in 0 .. SECTOR_SIZE - 1 /\ bytes \div SECTOR_SIZE \in Nat
      /\ bytes = SECTOR_SIZE * (bytes \div SECTOR_SIZE) + (bytes % SECTOR_SIZE)
  BY <1>1, DivMod
<1> DEFINE q == bytes \div SECTOR_SIZE
           r == bytes % SECTOR_SIZE
<1>3. n <= q /\ q \in Nat /\ r \in Nat /\ bytes = SECTOR_SIZE * q + r
  BY <1>2
<1> HIDE DEF q, r
<1>4. n * SECTOR_SIZE <= q * SECTOR_SIZE
  BY <1>1, <1>3
<1> QED
  BY <1>1, <1>3, <1>4

-------------------------------------------------------------------------------
(* Loader: types *)

Volumes == [fat_start_sector : Nat, cluster_start_sector : Nat,
            sectors_per_cluster : Nat, rootdir_start_cluster : Nat]

Names == Seq(Name)
Calls == [op : {"idle", "search", "read", "load"}, ok : BOOLEAN, names : Names,
          cluster : Nat, i : Nat, fat : Int, count : Nat, bufsize : Nat]

LoaderType ==
  /\ disk \in Disks
  /\ volume \in Volumes
  /\ file \in [start_cluster : Nat, size : Nat]
  /\ io \in Calls
  /\ buf \in Seq(Int) /\ header \in Seq(Int)
  /\ size \in Nat /\ loaded \in BOOLEAN
  /\ loader \in {"BootLoader", "OsLoader"}
  /\ at \in {"mbr", "open", "opening", "header", "size", "load", "loading", "jump", "stop"}

\* Which call runs where; after ReadMbr the volume is that of the boot partition.
CallInv ==
  /\ at # "mbr" => volume = BootVolume(disk)
  /\ io.op = "search" => at = "opening" /\ io.names # <<>>
  /\ io.op = "read" => at = "header" /\ io.bufsize = PE_HEAD_BUF_SIZE
  /\ io.op = "load" => at = "loading" /\ io.bufsize = size

LEMMA ReturnedType ==
  ASSUME NEW ok \in BOOLEAN
  PROVE  Returned(ok) \in Calls
<1>1. << >> \in Names
  BY DEF Names
<1> QED
  BY <1>1 DEF Returned, None, Calls

\* How the calls change their locals.
LEMMA CallFields ==
  ASSUME NEW r \in Calls
  PROVE  /\ r.cluster \in Nat /\ r.i \in Nat /\ r.count \in Nat /\ r.bufsize \in Nat /\ r.names \in Names
         /\ [r EXCEPT !.i = r.i + 1] \in Calls
         /\ [r EXCEPT !.i = r.i + 1, !.count = r.count + 1] \in Calls
<1>1. /\ r.cluster \in Nat /\ r.i \in Nat /\ r.count \in Nat /\ r.bufsize \in Nat /\ r.names \in Names
  BY DEF Calls
<1>2. r.i + 1 \in Nat /\ r.count + 1 \in Nat
  BY <1>1
<1>3. [r EXCEPT !.i = r.i + 1] \in Calls
  BY <1>2 DEF Calls
<1>4. [r EXCEPT !.i = r.i + 1, !.count = r.count + 1] \in Calls
  BY <1>2 DEF Calls
<1> QED
  BY <1>1, <1>3, <1>4

LEMMA CallMoves ==
  ASSUME NEW r \in Calls, NEW c \in Nat, NEW f \in Int
  PROVE  [r EXCEPT !.cluster = c, !.i = 0, !.fat = f] \in Calls
BY DEF Calls

LEMMA CallSearches ==
  ASSUME NEW r \in Calls, NEW c \in Nat, NEW ns \in Names
  PROVE  [r EXCEPT !.op = "search", !.names = ns, !.cluster = c] \in Calls
BY DEF Calls

LEMMA CallTransfers ==
  ASSUME NEW r \in Calls, NEW c \in Nat, NEW n \in Nat, NEW op \in {"read", "load"}
  PROVE  [r EXCEPT !.op = op, !.cluster = c, !.bufsize = n] \in Calls
BY DEF Calls

LEMMA NextClusterType ==
  ASSUME DisksTyped, LoaderType, Readable(FatSector(volume, io.cluster))
  PROVE  NextCluster \in Nat /\ FatSector(volume, io.cluster) \in Int
<1>1. EntriesPerSector \in Nat \ {0} /\ EndMark \in Nat
  BY LoaderAssumption
<1>2. io.cluster \in Nat /\ volume.fat_start_sector \in Nat
  BY DEF LoaderType, Calls, Volumes
<1>3. /\ io.cluster % EntriesPerSector \in 0 .. EntriesPerSector - 1
      /\ io.cluster \div EntriesPerSector \in Nat
  BY <1>1, <1>2, DivMod
<1>4. FatSector(volume, io.cluster) \in Int
  BY <1>2, <1>3 DEF FatSector
<1> DEFINE s == Sector(disk, FatSector(volume, io.cluster))
<1>5. s.next \in [0 .. EntriesPerSector - 1 -> Nat]
  BY DEF DisksTyped, Typed, LoaderType, Sector, Readable
<1> QED
  BY <1>3, <1>4, <1>5 DEF NextCluster, NextIn

LEMMA Least ==
  ASSUME NEW T \in SUBSET Nat, T # {}
  PROVE  \E m \in T : \A n \in T : m <= n
<1>1. IsWellFoundedOn({ss \in Nat \X Nat : ss[1] < ss[2]}, Nat)
  BY NatLessThanWellFounded DEF OpToRel
<1>2. PICK m \in T : \A n \in T : <<n, m>> \notin {ss \in Nat \X Nat : ss[1] < ss[2]}
  <2> DEFINE R == {ss \in Nat \X Nat : ss[1] < ss[2]}
  <2>1. IsWellFoundedOn(R, Nat)
    BY <1>1
  <2> HIDE DEF R
  <2>2. \E x \in T : \A y \in T : ~ (<<y, x>> \in R)
    BY <2>1, WFMin
  <2> QED
    BY <2>2 DEF R
<1>3. \A n \in T : m <= n
  <2> SUFFICES ASSUME NEW n \in T PROVE m <= n
    OBVIOUS
  <2>1. <<n, m>> \notin {ss \in Nat \X Nat : ss[1] < ss[2]}
    BY <1>2
  <2> QED
    BY <2>1
<1> QED
  BY <1>3

LEMMA MinIsLeast ==
  ASSUME NEW T \in SUBSET Nat, T # {}
  PROVE  Min(T) \in T /\ \A n \in T : Min(T) <= n
<1>1. \E m \in T : \A n \in T : m <= n
  BY Least
<1> QED
  BY <1>1, Zenon DEF Min

\* What a search takes is an entry of a directory.
LEMMA TakenType ==
  ASSUME DisksTyped, disk \in Disks, NEW lba, NEW part, Wanted(disk, lba, part) # {}
  PROVE  Taken(disk, lba, part).first \in Nat /\ Taken(disk, lba, part).size \in Nat
<1>1. CASE Sector(disk, lba).kind = "dir"
  <2>1. Entries(disk, lba) \in Seq(DirEntry)
    <3>1. lba \in DOMAIN disk.sector /\ Sector(disk, lba) = disk.sector[lba]
      BY <1>1 DEF Sector
    <3>2. disk.sector[lba].kind = "dir" => disk.sector[lba].entries \in Seq(DirEntry)
      BY <3>1 DEF DisksTyped, Typed
    <3> QED
      BY <1>1, <3>1, <3>2 DEF Entries
  <2>2. Wanted(disk, lba, part) \subseteq DOMAIN Entries(disk, lba) /\ DOMAIN Entries(disk, lba) \subseteq Nat
    BY <2>1 DEF Wanted
  <2>3. Min(Wanted(disk, lba, part)) \in DOMAIN Entries(disk, lba)
    BY <2>2, MinIsLeast
  <2>4. Taken(disk, lba, part) \in DirEntry
    BY <2>1, <2>3 DEF Taken
  <2> QED
    BY <2>4 DEF DirEntry
<1>2. CASE Sector(disk, lba).kind # "dir"
  <2>1. Entries(disk, lba) = <<>>
    BY <1>2 DEF Entries
  <2>2. DOMAIN << >> = {}
    OBVIOUS
  <2> QED
    BY <2>1, <2>2 DEF Wanted
<1> QED
  BY <1>1, <1>2

LEMMA BootVolumeType ==
  ASSUME DisksTyped, disk \in Disks
  PROVE  BootVolume(disk) \in Volumes /\ BootVolume(disk).sectors_per_cluster \in Nat \ {0}
BY DEF DisksTyped, Typed, Volumes

LEMMA FoundType ==
  ASSUME DisksTyped, LoaderType, Found, io.names # <<>>
  PROVE  file' \in [start_cluster : Nat, size : Nat] /\ io' \in Calls
<1> DEFINE e == Taken(disk, SearchLBA, Head(io.names))
<1>1. e.first \in Nat /\ e.size \in Nat
  BY TakenType DEF LoaderType, Found
<1>2. CASE Len(io.names) = 1
  <2>1. file' = [start_cluster |-> e.first, size |-> e.size] /\ io' = Returned(TRUE)
    BY <1>2 DEF Found
  <2>2. file' \in [start_cluster : Nat, size : Nat]
    BY <1>1, <2>1
  <2> QED
    BY <2>1, <2>2, ReturnedType
<1>3. CASE Len(io.names) # 1
  <2>1. io.names \in Names
    BY CallFields DEF LoaderType
  <2>2. Tail(io.names) \in Names
    BY <2>1, HeadTailProperties DEF Names
  <2>3. io' = [Returned(FALSE) EXCEPT !.op = "search", !.names = Tail(io.names), !.cluster = e.first]
    BY <1>3 DEF Found
  <2>4. file' = file
    BY <1>3 DEF Found
  <2>5. Returned(FALSE) \in Calls
    BY ReturnedType
  <2>6. io' \in Calls
    BY <1>1, <2>2, <2>3, <2>5, CallSearches
  <2> QED
    BY <2>4, <2>6 DEF LoaderType
<1> QED
  BY <1>2, <1>3

LEMMA TransferType ==
  ASSUME LoaderType, NEW op \in {"read", "load"}, NEW bytes \in Nat, StartTransfer(op, bytes)
  PROVE  buf' \in Seq(Int) /\ io' \in Calls
<1>1. file.start_cluster \in Nat
  BY DEF LoaderType
<1>2. io' = [Returned(FALSE) EXCEPT !.op = op, !.cluster = file.start_cluster, !.bufsize = bytes]
  BY DEF StartTransfer
<1>3. Returned(FALSE) \in Calls
  BY ReturnedType
<1>4. buf' \in Seq(Int)
  BY DEF StartTransfer
<1> QED
  BY <1>1, <1>2, <1>3, <1>4, CallTransfers

LEMMA Fat32StepType ==
  ASSUME DisksTyped, LoaderType, CallInv, Fat32Step
  PROVE  /\ disk' = disk /\ volume' = volume /\ file' \in [start_cluster : Nat, size : Nat]
         /\ buf' \in Seq(Int) /\ io' \in Calls
<1>0. file \in [start_cluster : Nat, size : Nat] /\ buf \in Seq(Int) /\ io \in Calls /\ volume \in Volumes
  BY DEF LoaderType
<1>1. CASE Found
  <2>1. io.names # <<>>
    BY <1>1 DEF CallInv, Found, Searching
  <2> QED
    BY <1>0, <1>1, <2>1, FoundType DEF Found
<1>2. CASE SearchSector
  BY <1>0, <1>2, CallFields DEF SearchSector
<1>3. CASE SearchCluster
  <2>1. NextCluster \in Nat /\ FatSector(volume, io.cluster) \in Int
    BY <1>3, NextClusterType DEF SearchCluster
  <2>2. Returned(FALSE) \in Calls
    BY ReturnedType
  <2>3. io' = [io EXCEPT !.cluster = NextCluster, !.i = 0, !.fat = FatSector(volume, io.cluster)]
        \/ io' = Returned(FALSE)
    BY <1>3 DEF SearchCluster
  <2>4. [io EXCEPT !.cluster = NextCluster, !.i = 0, !.fat = FatSector(volume, io.cluster)] \in Calls
    BY <1>0, <2>1, CallMoves
  <2>5. io' \in Calls
    BY ONLY <2>2, <2>3, <2>4
  <2> QED
    BY <1>0, <1>3, <2>5 DEF SearchCluster
<1>4. CASE ReadSector
  <2> DEFINE lba == cluster_to_LBA(volume, io.cluster) + io.i
  <2>0. io.cluster \in Nat /\ io.i \in Nat
    BY <1>0, CallFields
  <2>1. lba \in Int
    BY <1>0, <2>0 DEF Volumes, cluster_to_LBA
  <2>2. buf' \in Seq(Int)
    BY <1>0, <1>4, <2>1 DEF ReadSector
  <2>3. io' \in Calls
    BY <1>0, <1>4, CallFields DEF ReadSector
  <2> QED
    BY <1>0, <1>4, <2>2, <2>3 DEF ReadSector
<1>5. CASE ReadCluster
  <2>1. NextCluster \in Nat /\ FatSector(volume, io.cluster) \in Int
    BY <1>5, NextClusterType DEF ReadCluster
  <2>2. Complete(NextCluster) \in BOOLEAN
    BY DEF Complete, IsEnd
  <2>3. Returned(Complete(NextCluster)) \in Calls
    BY <2>2, ReturnedType
  <2>4. io' = [io EXCEPT !.cluster = NextCluster, !.i = 0, !.fat = FatSector(volume, io.cluster)]
        \/ io' = Returned(Complete(NextCluster))
    BY <1>5 DEF ReadCluster
  <2>5. [io EXCEPT !.cluster = NextCluster, !.i = 0, !.fat = FatSector(volume, io.cluster)] \in Calls
    BY <1>0, <2>1, CallMoves
  <2>6. io' \in Calls
    BY ONLY <2>3, <2>4, <2>5
  <2> QED
    BY <1>0, <1>5, <2>6 DEF ReadCluster
<1> QED
  BY <1>1, <1>2, <1>3, <1>4, <1>5 DEF Fat32Step

LEMMA TailOfMore ==
  ASSUME NEW S, NEW q \in Seq(S), q # <<>>, Len(q) # 1
  PROVE  Tail(q) \in Seq(S) /\ Tail(q) # <<>> /\ Len(Tail(q)) = Len(q) - 1 /\ Len(q) > 1
<1>1. Len(q) \in Nat /\ Len(q) # 0
  BY EmptySeq
<1>2. Tail(q) \in Seq(S) /\ Len(Tail(q)) = Len(q) - 1
  BY HeadTailProperties
<1>3. Len(Tail(q)) # 0 /\ Len(q) > 1
  BY <1>1, <1>2
<1>4. Tail(q) # <<>>
  BY <1>2, <1>3, EmptySeq
<1> QED
  BY <1>2, <1>3, <1>4

\* A step of a call leaves it running or ends it.
LEMMA StepCall ==
  ASSUME LoaderType, CallInv, Fat32Step
  PROVE  \/ io'.op = "idle"
         \/ io'.op = "search" /\ io.op = "search" /\ io'.names # <<>>
         \/ io'.op = io.op /\ io.op \in {"read", "load"} /\ io'.bufsize = io.bufsize
<1>0. io \in Calls
  BY DEF LoaderType
<1>1. CASE Found
  <2>1. CASE Len(io.names) = 1
    BY <1>1, <2>1 DEF Found, Returned
  <2>2. CASE Len(io.names) # 1
    <3>1. io'.op = "search" /\ io'.names = Tail(io.names)
      BY <1>1, <2>2 DEF Found, Returned
    <3>2. io.op = "search" /\ io.names # <<>> /\ io.names \in Seq(Name)
      BY <1>0, <1>1, CallFields DEF Found, Searching, CallInv, Names
    <3>3. Tail(io.names) # <<>>
      BY <2>2, <3>2, TailOfMore
    <3> QED
      BY <3>1, <3>2, <3>3
  <2> QED
    BY <2>1, <2>2
<1>2. CASE SearchSector
  BY <1>0, <1>2 DEF SearchSector, Searching, CallInv, Calls
<1>3. CASE ReadSector
  BY <1>0, <1>3 DEF ReadSector, Transferring, Calls
<1>4. CASE SearchCluster
  <2>1. io' = [io EXCEPT !.cluster = NextCluster, !.i = 0, !.fat = FatSector(volume, io.cluster)]
        \/ io' = Returned(FALSE)
    BY <1>4 DEF SearchCluster
  <2>2. io.op = "search" /\ io.names # <<>>
    BY <1>4 DEF SearchCluster, CallInv
  <2>3. CASE io' = [io EXCEPT !.cluster = NextCluster, !.i = 0, !.fat = FatSector(volume, io.cluster)]
    BY <1>0, <2>2, <2>3 DEF Calls
  <2> QED
    BY <2>1, <2>3 DEF Returned
<1>5. CASE ReadCluster
  <2>1. io' = [io EXCEPT !.cluster = NextCluster, !.i = 0, !.fat = FatSector(volume, io.cluster)]
        \/ io' = Returned(Complete(NextCluster))
    BY <1>5 DEF ReadCluster
  <2>2. io.op \in {"read", "load"}
    BY <1>5 DEF ReadCluster, Transferring
  <2>3. CASE io' = [io EXCEPT !.cluster = NextCluster, !.i = 0, !.fat = FatSector(volume, io.cluster)]
    BY <1>0, <2>2, <2>3 DEF Calls
  <2> QED
    BY <2>1, <2>3 DEF Returned
<1> QED
  BY <1>1, <1>2, <1>3, <1>4, <1>5 DEF Fat32Step

LEMMA PathType == Path \in Names /\ Path # <<>>
BY LoaderAssumption DEF Path, Names, Name

LEMMA LoaderTypeKept ==
  ASSUME DisksTyped, LoaderType, CallInv, [Next]_vars
  PROVE  LoaderType'
<1>0. io \in Calls /\ volume \in Volumes /\ file \in [start_cluster : Nat, size : Nat]
  BY DEF LoaderType
<1>1. CASE ReadMbr
  <2>1. volume' \in Volumes
    BY <1>1, BootVolumeType DEF ReadMbr, LoaderType
  <2> QED
    BY <1>1, <2>1 DEF ReadMbr, LoaderType
<1>2. CASE Open
  <2>1. [Returned(FALSE) EXCEPT !.op = "search", !.names = Path, !.cluster = volume.rootdir_start_cluster] \in Calls
    <3>1. volume.rootdir_start_cluster \in Nat
      BY <1>0 DEF Volumes
    <3> QED
      BY <3>1, ReturnedType, CallSearches, PathType
  <2>2. io' \in Calls /\ file' \in [start_cluster : Nat, size : Nat]
    BY <1>2, <2>1 DEF Open, open_file, NoFile
  <2> QED
    BY <1>2, <2>2 DEF Open, open_file, LoaderType
<1>3. CASE ReadHeader
  <2>1. CASE io.ok
    <3>1. StartTransfer("read", PE_HEAD_BUF_SIZE) /\ at' = "header"
      BY <1>3, <2>1 DEF ReadHeader, read_file
    <3>2. io' \in Calls /\ buf' \in Seq(Int)
      BY <3>1, TransferType, LoaderAssumption
    <3> QED
      BY <1>3, <3>1, <3>2 DEF ReadHeader, StartTransfer, LoaderType
  <2>2. CASE ~io.ok
    BY <1>3, <2>2 DEF ReadHeader, OpenFailed, LoaderType
  <2> QED
    BY <2>1, <2>2
<1>4. CASE HeaderRead
  BY <1>4 DEF HeaderRead, OpenFailed, LoaderType
<1>5. CASE image_size
  <2>1. size' \in Nat
    <3>1. CASE header # <<>> /\ Sector(disk, header[1]).kind = "pe"
      <4>1. header[1] \in DOMAIN disk.sector /\ Sector(disk, header[1]) = disk.sector[header[1]]
        BY <3>1 DEF Sector
      <4>2. disk.sector[header[1]].SizeOfImage \in Nat
        BY <3>1, <4>1 DEF DisksTyped, Typed, LoaderType
      <4> QED
        BY <1>5, <3>1, <4>1, <4>2 DEF image_size
    <3>2. CASE ~(header # <<>> /\ Sector(disk, header[1]).kind = "pe")
      BY <1>5, <3>2, LoaderAssumption DEF image_size
    <3> QED
      BY <3>1, <3>2
  <2> QED
    BY <1>5, <2>1 DEF image_size, LoaderType
<1>6. CASE Load
  <2>1. CASE size \div SECTOR_SIZE < SectorsOf(file.size)
    BY <1>6, <2>1, ReturnedType DEF Load, load_file, LoaderType
  <2>2. CASE ~(size \div SECTOR_SIZE < SectorsOf(file.size))
    <3>1. StartTransfer("load", size)
      BY <1>6, <2>2 DEF Load, load_file
    <3>2. io' \in Calls /\ buf' \in Seq(Int)
      BY <3>1, TransferType DEF LoaderType
    <3> QED
      BY <1>6, <3>1, <3>2 DEF Load, StartTransfer, LoaderType
  <2> QED
    BY <2>1, <2>2
<1>7. CASE LoadReturns
  <2>1. io.ok \in BOOLEAN
    BY <1>0 DEF Calls
  <2> QED
    BY <1>7, <2>1 DEF LoadReturns, LoaderType
<1>8. CASE StartOsLoader
  <2>1. NoVolume \in Volumes /\ NoFile \in [start_cluster : Nat, size : Nat]
    BY DEF NoVolume, NoFile, Volumes
  <2> QED
    <3>1. io' \in Calls /\ volume' \in Volumes /\ file' \in [start_cluster : Nat, size : Nat]
      BY <1>8, <2>1, ReturnedType DEF StartOsLoader
    <3>2. buf' \in Seq(Int) /\ header' \in Seq(Int)
      BY <1>8 DEF StartOsLoader
    <3> QED
      BY <1>8, <3>1, <3>2 DEF StartOsLoader, LoaderType
<1>9. CASE Fat32Step /\ UNCHANGED <<loader, at, header, size, loaded>>
  BY <1>9, Fat32StepType DEF LoaderType
<1>10. CASE UNCHANGED vars
  BY <1>10 DEF vars, LoaderType
<1> QED
  BY <1>1, <1>2, <1>3, <1>4, <1>5, <1>6, <1>7, <1>8, <1>9, <1>10 DEF Next, Work, Done

LEMMA CallInvKept ==
  ASSUME DisksTyped, LoaderType, CallInv, [Next]_vars
  PROVE  CallInv'
<1> USE DEF CallInv
<1>0. io \in Calls
  BY DEF LoaderType
<1>1. CASE ReadMbr
  BY <1>1 DEF ReadMbr
<1>2. CASE Open
  <2>1. io'.op = "search" /\ io'.names = Path
    BY <1>2 DEF Open, open_file, Returned
  <2> QED
    BY <1>2, <2>1, PathType DEF Open, open_file
<1>3. CASE ReadHeader
  <2>1. CASE io.ok
    <3>1. StartTransfer("read", PE_HEAD_BUF_SIZE) /\ at' = "header"
      BY <1>3, <2>1 DEF ReadHeader, read_file
    <3>2. io'.op = "read" /\ io'.bufsize = PE_HEAD_BUF_SIZE
      BY <3>1 DEF StartTransfer, Returned
    <3> QED
      BY <1>3, <3>1, <3>2 DEF ReadHeader, StartTransfer
  <2>2. CASE ~io.ok
    BY <1>3, <2>2 DEF ReadHeader, OpenFailed
  <2> QED
    BY <2>1, <2>2
<1>4. CASE HeaderRead
  BY <1>4 DEF HeaderRead, OpenFailed
<1>5. CASE image_size
  BY <1>5 DEF image_size
<1>6. CASE Load
  <2>1. CASE size \div SECTOR_SIZE < SectorsOf(file.size)
    <3>1. io'.op = "idle"
      BY <1>6, <2>1 DEF Load, load_file, Returned
    <3> QED
      BY <1>6, <2>1, <3>1 DEF Load, load_file
  <2>2. CASE ~(size \div SECTOR_SIZE < SectorsOf(file.size))
    <3>1. StartTransfer("load", size)
      BY <1>6, <2>2 DEF Load, load_file
    <3>2. io'.op = "load" /\ io'.bufsize = size
      BY <3>1 DEF StartTransfer, Returned
    <3> QED
      BY <1>6, <3>1, <3>2 DEF Load, StartTransfer
  <2> QED
    BY <2>1, <2>2
<1>7. CASE LoadReturns
  BY <1>7 DEF LoadReturns
<1>8. CASE StartOsLoader
  BY <1>8 DEF StartOsLoader, Returned
<1>9. CASE Fat32Step /\ UNCHANGED <<loader, at, header, size, loaded>>
  <2>0. volume' = volume /\ disk' = disk
    BY <1>9, Fat32StepType
  <2>1. \/ io'.op = "idle"
        \/ io'.op = "search" /\ io.op = "search" /\ io'.names # <<>>
        \/ io'.op = io.op /\ io.op \in {"read", "load"} /\ io'.bufsize = io.bufsize
    BY <1>9, StepCall
  <2> QED
    BY <1>9, <2>0, <2>1
<1>10. CASE UNCHANGED vars
  BY <1>10 DEF vars
<1> QED
  BY <1>1, <1>2, <1>3, <1>4, <1>5, <1>6, <1>7, <1>8, <1>9, <1>10 DEF Next, Work, Done

-------------------------------------------------------------------------------
(* Loader: buffers *)

\* A buffer of whole clusters has room for whole clusters.
LEMMA WholeClusters ==
  ASSUME NEW w \in Nat \ {0}, NEW bytes \in Nat, bytes % (w * SECTOR_SIZE) = 0
  PROVE  \E q \in Nat : bytes \div SECTOR_SIZE = q * w
<1> DEFINE b == w * SECTOR_SIZE
           q == bytes \div b
<1>1. SECTOR_SIZE \in Nat \ {0}
  BY LoaderAssumption
<1>2. b \in Nat \ {0}
  BY <1>1
<1>3. q \in Nat /\ bytes = b * q
  <2>1. bytes % b = 0
    OBVIOUS
  <2> HIDE DEF b
  <2>2. bytes = b * (bytes \div b) + (bytes % b) /\ bytes \div b \in Nat
    BY <1>2, DivMod
  <2> QED
    BY <1>2, <2>1, <2>2
<1> HIDE DEF q
<1>4. q * w \in Nat /\ bytes = (q * w) * SECTOR_SIZE + 0
  BY <1>1, <1>3
<1>5. ((q * w) * SECTOR_SIZE + 0) \div SECTOR_SIZE = q * w
  <2> DEFINE m == q * w
  <2>1. m \in Nat
    BY <1>4
  <2> HIDE DEF m
  <2>2. (m * SECTOR_SIZE + 0) \div SECTOR_SIZE = m
    BY <1>1, <2>1, Place
  <2> QED
    BY <2>2 DEF m
<1> QED
  BY <1>3, <1>4, <1>5

LEMMA NextWholeCluster ==
  ASSUME NEW k \in Nat, NEW q \in Nat, NEW w \in Nat \ {0}, k * w < q * w
  PROVE  (k + 1) * w <= q * w
<1>1. k < q
  <2> SUFFICES ASSUME q <= k PROVE FALSE
    OBVIOUS
  <2>1. q * w <= k * w
    OBVIOUS
  <2> QED
    BY <2>1
<1>2. k + 1 <= q
  BY <1>1
<1> QED
  BY <1>2

\* The cluster that is read begins inside the buffer.
ClusterBegins ==
  \E k \in Nat :
    /\ k * volume.sectors_per_cluster < io.bufsize \div SECTOR_SIZE
    /\ io.count <= (k + 1) * volume.sectors_per_cluster
    /\ io.count < SectorsOf(file.size) => io.count = k * volume.sectors_per_cluster + io.i

BoundsInv ==
  /\ Transferring => Len(buf) = io.count /\ io.i <= volume.sectors_per_cluster
  /\ io.op = "load" =>
       /\ SectorsOf(file.size) <= io.bufsize \div SECTOR_SIZE
       /\ io.count <= SectorsOf(file.size)
  /\ io.op = "read" => ClusterBegins

LEMMA ReadSectorBounds ==
  ASSUME LoaderType, BoundsInv, ReadSector
  PROVE  BoundsInv'
<1> DEFINE spc == volume.sectors_per_cluster
           fs == SectorsOf(file.size)
           limit == io.bufsize \div SECTOR_SIZE
<1>1. /\ io \in Calls /\ io.i \in Nat /\ io.count \in Nat /\ io.bufsize \in Nat
      /\ spc \in Nat /\ fs \in Nat /\ limit \in Nat
  BY CallFields, SectorsHold, DivMod, LoaderAssumption DEF LoaderType, Volumes
<1>2. /\ io.op \in {"read", "load"} /\ io.i < spc /\ io.count < fs
      /\ UNCHANGED <<volume, file>>
  BY DEF ReadSector, Transferring, ClusterGoesOn
<1>3. /\ io'.op = io.op /\ io'.i = io.i + 1 /\ io'.count = io.count + 1
      /\ io'.bufsize = io.bufsize
  BY <1>1 DEF ReadSector, Calls
<1>4. Len(buf') = Len(buf) + 1
  BY DEF ReadSector, LoaderType
<1>5. SectorsOf(file'.size) = fs /\ volume'.sectors_per_cluster = spc /\ io'.bufsize \div SECTOR_SIZE = limit
  BY <1>2, <1>3
<1>6. Transferring' => Len(buf') = io'.count /\ io'.i <= spc
  BY <1>1, <1>2, <1>3, <1>4 DEF BoundsInv, Transferring
<1>7. io'.op = "load" => fs <= limit /\ io'.count <= fs
  BY <1>1, <1>2, <1>3 DEF BoundsInv
<1>8. ASSUME io'.op = "read" PROVE ClusterBegins'
  <2>1. PICK k \in Nat : k * spc < limit /\ io.count = k * spc + io.i
    BY <1>1, <1>2, <1>3, <1>8 DEF BoundsInv, ClusterBegins
  <2>2. (k + 1) * spc = k * spc + spc /\ k * spc \in Nat
    BY <1>1
  <2>3. io'.count = k * spc + io'.i /\ io'.count <= (k + 1) * spc
    BY <1>1, <1>2, <1>3, <2>1, <2>2
  <2> QED
    BY <1>5, <2>1, <2>3 DEF ClusterBegins
<1> QED
  BY <1>3, <1>5, <1>6, <1>7, <1>8 DEF BoundsInv

LEMMA ReadClusterBounds ==
  ASSUME LoaderType, BoundsInv, ReadCluster, volume.sectors_per_cluster # 0
  PROVE  BoundsInv'
<1> DEFINE spc == volume.sectors_per_cluster
           fs == SectorsOf(file.size)
           limit == io.bufsize \div SECTOR_SIZE
<1>1. /\ io \in Calls /\ io.i \in Nat /\ io.count \in Nat /\ io.bufsize \in Nat
      /\ spc \in Nat \ {0} /\ fs \in Nat /\ limit \in Nat
  BY CallFields, SectorsHold, DivMod, LoaderAssumption DEF LoaderType, Volumes
<1>2. /\ io.op \in {"read", "load"} /\ (io.i >= spc \/ io.count >= fs)
      /\ UNCHANGED <<volume, file, buf>>
  BY <1>1 DEF ReadCluster, Transferring, ClusterGoesOn
<1>3. CASE io'.op = "idle"
  BY <1>3 DEF BoundsInv, Transferring
<1>4. CASE io'.op # "idle"
  <2>1. io' = [io EXCEPT !.cluster = NextCluster, !.i = 0, !.fat = FatSector(volume, io.cluster)]
        /\ io.count < Limit
    BY <1>4 DEF ReadCluster, Returned
  <2>2. /\ io'.op = io.op /\ io'.i = 0 /\ io'.count = io.count /\ io'.bufsize = io.bufsize
    BY <1>1, <2>1 DEF Calls
  <2>3. SectorsOf(file'.size) = fs /\ volume'.sectors_per_cluster = spc /\ io'.bufsize \div SECTOR_SIZE = limit
    BY <1>2, <2>2
  <2>4. Transferring' => Len(buf') = io'.count /\ io'.i <= spc
    BY <1>1, <1>2, <2>2 DEF BoundsInv, Transferring
  <2>5. io'.op = "load" => fs <= limit /\ io'.count <= fs
    BY <1>2, <2>2 DEF BoundsInv
  <2>6. ASSUME io'.op = "read" PROVE ClusterBegins'
    <3>1. PICK k \in Nat : k * spc < limit /\ io.count <= (k + 1) * spc
                         /\ (io.count < fs => io.count = k * spc + io.i)
      BY <2>2, <2>6 DEF BoundsInv, ClusterBegins
    <3>2. CASE io.count < fs
      <4>1. io.i = spc
        BY <1>1, <1>2, <3>2 DEF BoundsInv, Transferring
      <4>2. (k + 1) * spc = k * spc + spc /\ ((k + 1) + 1) * spc = (k + 1) * spc + spc
            /\ k * spc \in Nat
        BY <1>1
      <4>3. io.count = (k + 1) * spc /\ io.count < limit
        <5>1. io.op = "read"
          BY <2>2, <2>6
        <5>2. io.count < limit
          BY <2>1, <5>1 DEF Limit
        <5>3. io.count = k * spc + spc
          BY <3>1, <3>2, <4>1
        <5> QED
          BY <4>2, <5>2, <5>3
      <4>4. io'.count = (k + 1) * spc + io'.i /\ k + 1 \in Nat /\ io'.count <= ((k + 1) + 1) * spc
        BY <1>1, <2>2, <4>2, <4>3
      <4> QED
        BY <2>3, <4>3, <4>4 DEF ClusterBegins
    <3>3. CASE ~(io.count < fs)
      <4>1. ~(io'.count < SectorsOf(file'.size))
        BY <2>2, <2>3, <3>3
      <4>2. k * volume'.sectors_per_cluster < io'.bufsize \div SECTOR_SIZE
        BY <2>3, <3>1
      <4>3. io'.count <= (k + 1) * volume'.sectors_per_cluster
        BY <2>2, <2>3, <3>1
      <4> QED
        BY <4>1, <4>2, <4>3 DEF ClusterBegins
    <3> QED
      BY <3>2, <3>3
  <2> QED
    BY <2>2, <2>3, <2>4, <2>5, <2>6 DEF BoundsInv
<1> QED
  BY <1>3, <1>4

\* A transfer that starts has read nothing.
LEMMA StartBounds ==
  ASSUME LoaderType, volume.sectors_per_cluster # 0, NEW op \in {"read", "load"}, NEW bytes \in Nat,
         StartTransfer(op, bytes),
         op = "read" => bytes >= SECTOR_SIZE,
         op = "load" => SectorsOf(file.size) <= bytes \div SECTOR_SIZE
  PROVE  BoundsInv'
<1> DEFINE spc == volume.sectors_per_cluster
           fs == SectorsOf(file.size)
           limit == bytes \div SECTOR_SIZE
<1>1. spc \in Nat \ {0} /\ fs \in Nat /\ limit \in Nat /\ SECTOR_SIZE \in Nat \ {0}
  BY SectorsHold, DivMod, LoaderAssumption DEF LoaderType, Volumes
<1>2. io'.op = op /\ io'.i = 0 /\ io'.count = 0 /\ io'.bufsize = bytes /\ Len(buf') = 0
  BY DEF StartTransfer, Returned
<1>3. SectorsOf(file'.size) = fs /\ volume'.sectors_per_cluster = spc
      /\ io'.bufsize \div SECTOR_SIZE = limit
  BY <1>2 DEF StartTransfer
<1>4. ASSUME op = "read" PROVE ClusterBegins'
  <2>1. limit > 0
    <3>1. bytes = SECTOR_SIZE * limit + (bytes % SECTOR_SIZE) /\ bytes % SECTOR_SIZE < SECTOR_SIZE
      BY <1>1, DivMod
    <3> QED
      BY <1>1, <1>4, <3>1
  <2>2. 0 * spc = 0 /\ (0 + 1) * spc = spc
    BY <1>1
  <2>3. io'.count = 0 * spc + io'.i /\ io'.count <= (0 + 1) * spc
    BY <1>1, <1>2, <2>2
  <2> QED
    BY <1>1, <1>3, <2>1, <2>2, <2>3 DEF ClusterBegins
<1> QED
  BY <1>1, <1>2, <1>3, <1>4 DEF BoundsInv, Transferring

LEMMA BoundsInvKept ==
  ASSUME DisksTyped, LoaderType, CallInv, BoundsInv, [Next]_vars
  PROVE  BoundsInv'
<1>0. io \in Calls
  BY DEF LoaderType
<1>a. at # "mbr" => volume.sectors_per_cluster # 0
  BY BootVolumeType DEF CallInv, LoaderType
<1>b. ASSUME io'.op \notin {"read", "load"} PROVE BoundsInv'
  BY <1>b DEF BoundsInv, Transferring
<1>1. CASE ReadMbr
  BY <1>1, <1>b DEF ReadMbr, CallInv, LoaderType, Calls
<1>2. CASE Open
  <2>1. io'.op = "search"
    BY <1>2 DEF Open, open_file, Returned
  <2> QED
    BY <1>b, <2>1
<1>3. CASE ReadHeader
  <2>1. CASE io.ok
    <3>1. StartTransfer("read", PE_HEAD_BUF_SIZE) /\ at = "opening"
      BY <1>3, <2>1 DEF ReadHeader, read_file
    <3> QED
      BY <1>a, <3>1, StartBounds, LoaderAssumption
  <2>2. CASE ~io.ok
    BY <1>3, <1>b, <2>2 DEF ReadHeader
  <2> QED
    BY <2>1, <2>2
<1>4. CASE HeaderRead \/ image_size \/ LoadReturns
  BY <1>4 DEF HeaderRead, image_size, LoadReturns, BoundsInv, Transferring, ClusterBegins
<1>5. CASE Load
  <2>1. CASE size \div SECTOR_SIZE < SectorsOf(file.size)
    <3>1. io'.op = "idle"
      BY <1>5, <2>1 DEF Load, load_file, Returned
    <3> QED
      BY <1>b, <3>1
  <2>2. CASE ~(size \div SECTOR_SIZE < SectorsOf(file.size))
    <3>1. StartTransfer("load", size) /\ at = "load" /\ size \in Nat
      BY <1>5, <2>2 DEF Load, load_file, LoaderType
    <3>2. SectorsOf(file.size) \in Nat /\ size \div SECTOR_SIZE \in Nat
      BY SectorsHold, DivMod, LoaderAssumption DEF LoaderType
    <3>3. SectorsOf(file.size) <= size \div SECTOR_SIZE
      BY <2>2, <3>2
    <3> QED
      BY <1>a, <3>1, <3>3, StartBounds
  <2> QED
    BY <2>1, <2>2
<1>6. CASE StartOsLoader
  <2>1. io'.op = "idle"
    BY <1>6 DEF StartOsLoader, Returned
  <2> QED
    BY <1>b, <2>1
<1>7. CASE Fat32Step
  <2>1. CASE Found \/ SearchSector \/ SearchCluster
    <3>1. io.op = "search"
      BY <2>1 DEF Found, SearchSector, SearchCluster, Searching
    <3>2. io'.op \notin {"read", "load"}
      BY <1>7, <3>1, StepCall
    <3> QED
      BY <1>b, <3>2
  <2>2. CASE ReadSector
    BY <2>2, ReadSectorBounds
  <2>3. CASE ReadCluster
    <3>1. at # "mbr"
      BY <2>3 DEF ReadCluster, Transferring, CallInv
    <3> QED
      BY <1>a, <2>3, <3>1, ReadClusterBounds
  <2> QED
    BY <1>7, <2>1, <2>2, <2>3 DEF Fat32Step
<1>8. CASE UNCHANGED vars
  BY <1>8 DEF vars, BoundsInv, Transferring, ClusterBegins
<1> QED
  BY <1>1, <1>2, <1>3, <1>4, <1>5, <1>6, <1>7, <1>8 DEF Next, Work, Done

LEMMA BoundsGive ==
  ASSUME LoaderType, BoundsInv, at # "mbr" => volume.sectors_per_cluster # 0, CallInv
  PROVE  OverrunBounded
<1> DEFINE spc == volume.sectors_per_cluster
           limit == io.bufsize \div SECTOR_SIZE
<1>1. io.count \in Nat /\ SectorsOf(file.size) \in Nat /\ limit \in Nat /\ spc \in Nat
  BY CallFields, SectorsHold, DivMod, LoaderAssumption DEF LoaderType, Volumes
<1>2. io.op = "load" => Len(buf) <= limit
  BY <1>1 DEF BoundsInv, Transferring
<1>3. ASSUME io.op = "read"
      PROVE  \E k \in 0 .. limit : k * spc < limit /\ Len(buf) <= (k + 1) * spc
  <2>1. PICK k \in Nat : k * spc < limit /\ io.count <= (k + 1) * spc
    BY <1>3 DEF BoundsInv, ClusterBegins
  <2>2. Len(buf) = io.count /\ spc # 0
    BY <1>3 DEF BoundsInv, Transferring, CallInv
  <2>3. k <= k * spc
    BY <1>1, <2>2
  <2>4. k * spc \in Nat
    BY <1>1
  <2>5. k \in 0 .. limit
    BY <1>1, <2>1, <2>3, <2>4
  <2> QED
    BY <2>1, <2>2, <2>5
<1> QED
  BY <1>2, <1>3 DEF OverrunBounded

LEMMA LoaderInit == Init => LoaderType /\ CallInv /\ BoundsInv
<1> SUFFICES ASSUME Init PROVE LoaderType /\ CallInv /\ BoundsInv
  OBVIOUS
<1>1. NoVolume \in Volumes /\ NoFile \in [start_cluster : Nat, size : Nat]
  BY DEF NoVolume, NoFile, Volumes
<1>2. io \in Calls /\ io.op = "idle"
  BY ReturnedType DEF Init, FatInit, Returned
<1>3. LoaderType
  <2>1. buf \in Seq(Int) /\ header \in Seq(Int)
    BY DEF Init, FatInit
  <2>2. volume \in Volumes /\ file \in [start_cluster : Nat, size : Nat]
    BY <1>1 DEF Init, FatInit
  <2> QED
    BY <1>2, <2>1, <2>2 DEF Init, FatInit, LoaderType
<1>4. CallInv /\ BoundsInv
  BY <1>2 DEF Init, CallInv, BoundsInv, Transferring
<1> QED
  BY <1>3, <1>4

\* On every disk whose fields are unsigned numbers load_file stays within the
\* image it was given, and read_file overruns the header buffer by less than a
\* cluster, and not at all if the buffer is a number of whole clusters.
THEOREM OverrunIsBounded == DisksTyped => (Spec => []OverrunBounded)
<1> SUFFICES ASSUME DisksTyped PROVE Spec => []OverrunBounded
  OBVIOUS
<1>1. LoaderType /\ CallInv /\ BoundsInv /\ [Next]_vars => (LoaderType /\ CallInv /\ BoundsInv)'
  BY LoaderTypeKept, CallInvKept, BoundsInvKept
<1>2. LoaderType /\ CallInv /\ BoundsInv => OverrunBounded
  <2> SUFFICES ASSUME LoaderType, CallInv, BoundsInv PROVE OverrunBounded
    OBVIOUS
  <2>1. at # "mbr" => volume.sectors_per_cluster # 0
    BY BootVolumeType DEF CallInv, LoaderType
  <2> QED
    BY <2>1, BoundsGive
<1> QED
  BY <1>1, <1>2, LoaderInit, PTL DEF Spec

-------------------------------------------------------------------------------
(* Loader: the file that was written is the file that is loaded *)

\* The directories that are behind the search hold the path's parts up to here,
\* and no sector behind it in this one has an entry for the part sought.
SeekingAt(k, j) ==
  /\ io.names = SubSeq(Path, k, Len(Path))
  /\ io.cluster = Holds.dirs[k][j] /\ io.i <= volume.sectors_per_cluster
  /\ \A m \in 1 .. (j - 1) * volume.sectors_per_cluster + io.i :
       Wanted(disk, ChainSectors(volume, Holds.dirs[k])[m], Path[k]) = {}

Seeking == \E k \in 1 .. Len(Holds.dirs) : \E j \in 1 .. Len(Holds.dirs[k]) : SeekingAt(k, j)

\* The sectors of the file, if its chain has as many clusters as it needs.
WholeFile ==
  LET needed == SectorsOf(Holds.size)
      clusters == Len(Holds.chain)
  IN  IF needed > (clusters - 1) * volume.sectors_per_cluster /\ needed <= clusters * volume.sectors_per_cluster
        THEN SubSeq(ChainSectors(volume, Holds.chain), 1, needed) ELSE <<>>

\* The file the path leads to is open.
Located ==
  /\ file = [start_cluster |-> Holds.chain[1], size |-> Holds.size]
  /\ IsChain(disk, volume, Holds.chain)
  /\ Holds.sectors = WholeFile

\* What was read so far is the file up to here; a cluster was begun only as long
\* as the buffer had room for a sector, or when the file had ended already.
ReadingAt(j) ==
  LET start == (j - 1) * volume.sectors_per_cluster
      sectors_of_file == SectorsOf(file.size)
  IN  /\ io.cluster = Holds.chain[j]
      /\ \/ /\ io.count = start + io.i /\ io.count <= sectors_of_file
            /\ j > 1 => start < Limit
         \/ /\ io.i = 0 /\ io.count = sectors_of_file /\ sectors_of_file <= start
            /\ io.op = "read"

Reading ==
  /\ \E j \in 1 .. Len(Holds.chain) : ReadingAt(j)
  /\ buf = SubSeq(ChainSectors(volume, Holds.chain), 1, io.count)

\* A header begins with the first sector of the file.
FirstOf(read) == read # <<>> /\ read[1] = Holds.sectors[1]

\* OsLoader is held to the file only when it could be loaded.
Held == loader = "BootLoader" \/ Loadable

AtOpening == IF io.op = "search" THEN Seeking ELSE IF io.ok THEN Located ELSE Holds.sectors = <<>>

AtHeader ==
  /\ Located
  /\ io.op = "read" => Reading
  /\ io.op = "idle" /\ Loadable => io.ok /\ FirstOf(buf)

AtLoading ==
  /\ Located
  /\ io.op = "load" => Reading
  /\ io.op = "idle" /\ io.ok => buf = Holds.sectors /\ SectorsOf(file.size) <= size \div SECTOR_SIZE
  /\ io.op = "idle" /\ Loadable => io.ok

FileInv ==
  /\ at = "opening" => AtOpening
  /\ at = "header" => AtHeader
  /\ at = "size" /\ Held => Located /\ (Loadable => FirstOf(header))
  /\ at = "load" /\ Held => Located /\ (Loadable => size = Holds.image)
  /\ at = "loading" /\ Held => AtLoading
  /\ at = "jump" /\ Held => Located /\ buf = Holds.sectors /\ size >= Holds.size /\ loaded
  /\ at = "stop" => ~Loadable

-------------------------------------------------------------------------------
(* Loader: chains and directories *)

\* The sector i of the j-th cluster of a chain has this place in the chain.
LEMMA ChainPlace ==
  ASSUME NEW v \in Volumes, v.sectors_per_cluster # 0, NEW chain \in Seq(Nat),
         NEW j \in 1 .. Len(chain), NEW i \in Nat, i < v.sectors_per_cluster
  PROVE  /\ (j - 1) * v.sectors_per_cluster + i + 1 \in 1 .. Len(chain) * v.sectors_per_cluster
         /\ ChainSectors(v, chain)[(j - 1) * v.sectors_per_cluster + i + 1]
              = cluster_to_LBA(v, chain[j]) + i
<1> DEFINE w == v.sectors_per_cluster
           m == (j - 1) * w + i
<1>1. w \in Nat \ {0} /\ j - 1 \in Nat /\ Len(chain) \in Nat /\ j <= Len(chain)
  BY DEF Volumes
<1>2. m \in Nat /\ m + 1 <= (j - 1) * w + w
  BY <1>1
<1>3. (j - 1) * w + w = j * w /\ j * w <= Len(chain) * w
  <2> DEFINE len == Len(chain)
  <2>1. w \in Nat /\ j \in Nat /\ len \in Nat /\ j <= len
    BY <1>1
  <2> HIDE DEF w, len
  <2>2. j * w <= len * w
    BY <2>1
  <2>3. (j - 1) * w + w = j * w
    BY <2>1
  <2> QED
    BY <2>2, <2>3 DEF len
<1>4. m + 1 \in 1 .. Len(chain) * w
  <2>1. j * w \in Nat /\ Len(chain) * w \in Nat
    BY <1>1
  <2> QED
    BY <1>2, <1>3, <2>1
<1>5. m % w = i /\ m \div w = j - 1
  BY <1>1, Place
<1>6. (m + 1) - 1 = m /\ 1 + (j - 1) = j
  BY <1>1, <1>2
<1> HIDE DEF m
<1>7. ChainSectors(v, chain)[m + 1] = cluster_to_LBA(v, chain[1 + ((m + 1) - 1) \div w]) + (((m + 1) - 1) % w)
  BY <1>4 DEF ChainSectors
<1>8. ChainSectors(v, chain)[m + 1] = cluster_to_LBA(v, chain[j]) + i
  BY <1>5, <1>6, <1>7
<1> QED
  BY <1>4, <1>8 DEF m

LEMMA ChainSectorsType ==
  ASSUME NEW v \in Volumes, v.sectors_per_cluster # 0, NEW chain \in Seq(Nat)
  PROVE  /\ ChainSectors(v, chain) \in Seq(Int)
         /\ Len(ChainSectors(v, chain)) = Len(chain) * v.sectors_per_cluster
         /\ DOMAIN ChainSectors(v, chain) = 1 .. Len(chain) * v.sectors_per_cluster
<1> DEFINE w == v.sectors_per_cluster
           len == Len(chain) * w
<1>1. w \in Nat \ {0} /\ v.cluster_start_sector \in Nat /\ len \in Nat
  BY DEF Volumes
<1>2. \A n \in 1 .. len : cluster_to_LBA(v, chain[1 + (n - 1) \div w]) + ((n - 1) % w) \in Int
  <2> SUFFICES ASSUME NEW n \in 1 .. len
               PROVE  cluster_to_LBA(v, chain[1 + (n - 1) \div w]) + ((n - 1) % w) \in Int
    OBVIOUS
  <2>1. n - 1 \in Nat /\ n - 1 < Len(chain) * w
    BY <1>1
  <2>2. /\ (n - 1) % w \in 0 .. w - 1 /\ (n - 1) \div w \in Nat
        /\ n - 1 = w * ((n - 1) \div w) + ((n - 1) % w)
    BY <1>1, <2>1, DivMod
  <2> DEFINE q == (n - 1) \div w
  <2>3. q \in Nat /\ q * w <= n - 1
    BY <1>1, <2>1, <2>2
  <2> HIDE DEF q
  <2>4. q < Len(chain)
    <3> SUFFICES ASSUME Len(chain) <= q PROVE FALSE
      BY <2>3
    <3>1. Len(chain) * w <= q * w
      BY <1>1, <2>3
    <3> QED
      BY <1>1, <2>1, <2>3, <3>1
  <2>5. chain[1 + q] \in Nat
    BY <2>3, <2>4, ElementOfSeq
  <2>6. cluster_to_LBA(v, chain[1 + q]) \in Int
    BY <1>1, <2>5 DEF cluster_to_LBA
  <2> QED
    BY <2>2, <2>6 DEF q
<1>3. ChainSectors(v, chain) = [n \in 1 .. len |-> cluster_to_LBA(v, chain[1 + (n - 1) \div w]) + ((n - 1) % w)]
  BY DEF ChainSectors
<1> HIDE DEF len
<1>4. ChainSectors(v, chain) \in [1 .. len -> Int]
  BY <1>2, <1>3
<1>5. ChainSectors(v, chain) \in Seq(Int) /\ Len(ChainSectors(v, chain)) = len
  BY <1>1, <1>4
<1> QED
  BY <1>4, <1>5 DEF len

\* A prefix of a sequence and its next element.
LEMMA PrefixGrows ==
  ASSUME NEW S, NEW s \in Seq(S), NEW n \in Nat, n < Len(s)
  PROVE  Append(SubSeq(s, 1, n), s[n + 1]) = SubSeq(s, 1, n + 1)
<1>1. s[n + 1] \in S
  BY ElementOfSeq
<1>2. /\ SubSeq(s, 1, n) \in Seq(S) /\ Len(SubSeq(s, 1, n)) = n
      /\ \A i \in 1 .. n : SubSeq(s, 1, n)[i] = s[i]
  BY SubSeqProperties
<1>3. /\ SubSeq(s, 1, n + 1) \in Seq(S) /\ Len(SubSeq(s, 1, n + 1)) = n + 1
      /\ \A i \in 1 .. n + 1 : SubSeq(s, 1, n + 1)[i] = s[i]
  BY SubSeqProperties
<1>4. /\ Append(SubSeq(s, 1, n), s[n + 1]) \in Seq(S)
      /\ Len(Append(SubSeq(s, 1, n), s[n + 1])) = n + 1
      /\ \A i \in 1 .. n : Append(SubSeq(s, 1, n), s[n + 1])[i] = s[i]
      /\ Append(SubSeq(s, 1, n), s[n + 1])[n + 1] = s[n + 1]
  BY <1>1, <1>2, AppendProperties
<1> DEFINE a == Append(SubSeq(s, 1, n), s[n + 1])
           b == SubSeq(s, 1, n + 1)
<1>5. a \in Seq(S) /\ b \in Seq(S) /\ Len(a) = n + 1 /\ Len(b) = n + 1
  BY <1>3, <1>4
<1>6. \A i \in 1 .. n + 1 : a[i] = b[i]
  BY <1>3, <1>4
<1> HIDE DEF a, b
<1>7. a = b
  BY <1>5, <1>6, SeqEqual
<1> QED
  BY <1>7 DEF a, b

\* The first sector with an entry decides what a directory has for a name.
LEMMA FirstEntryIs ==
  ASSUME NEW d, NEW v, NEW chain, NEW part, NEW n \in DOMAIN ChainSectors(v, chain),
         DOMAIN ChainSectors(v, chain) \subseteq Nat \ {0},
         Wanted(d, ChainSectors(v, chain)[n], part) # {},
         \A m \in 1 .. n - 1 : Wanted(d, ChainSectors(v, chain)[m], part) = {}
  PROVE  FirstEntry(d, v, chain, part) = {Taken(d, ChainSectors(v, chain)[n], part)}
<1> DEFINE sector == ChainSectors(v, chain)
           First == {m \in DOMAIN sector : /\ Wanted(d, sector[m], part) # {}
                                           /\ \A k \in 1 .. m - 1 : Wanted(d, sector[k], part) = {}}
<1>1. n \in First
  OBVIOUS
<1>2. \A m \in First : m = n
  <2> SUFFICES ASSUME NEW m \in First PROVE m = n
    OBVIOUS
  <2>1. m \in Nat \ {0} /\ n \in Nat \ {0}
    OBVIOUS
  <2>2. ~(m < n)
    BY <2>1
  <2>3. ~(n < m)
    BY <2>1
  <2> QED
    BY <2>1, <2>2, <2>3
<1>3. FirstEntry(d, v, chain, part) = {Taken(d, sector[m], part) : m \in First}
  BY DEF FirstEntry
<1> HIDE DEF First, sector
<1>4. FirstEntry(d, v, chain, part) = {Taken(d, sector[n], part)}
  BY <1>1, <1>2, <1>3
<1> QED
  BY <1>4 DEF sector

LEMMA NoEntry ==
  ASSUME NEW d, NEW v, NEW chain, NEW part,
         \A m \in DOMAIN ChainSectors(v, chain) : Wanted(d, ChainSectors(v, chain)[m], part) = {}
  PROVE  FirstEntry(d, v, chain, part) = {}
BY DEF FirstEntry

-------------------------------------------------------------------------------
(* Loader: what the disk holds *)

LEMMA HeldFacts ==
  ASSUME DisksRegular, LoaderType, CallInv, at # "mbr"
  PROVE  /\ disk.holds.sectors_per_cluster = volume.sectors_per_cluster
         /\ Holding(disk, Holds, Path) /\ volume = BootVolume(disk)
BY DEF DisksRegular, LoaderType, CallInv, Holds, Path

\* The directories on the path.
LEMMA HeldDirs ==
  ASSUME DisksRegular, LoaderType, CallInv, at # "mbr"
  PROVE  /\ Holds.dirs \in Seq(Seq(Nat)) /\ Holds.dirs # <<>> /\ Len(Holds.dirs) <= Len(Path)
         /\ Holds.dirs[1][1] = volume.rootdir_start_cluster
         /\ \A k \in 1 .. Len(Holds.dirs) :
              Holds.dirs[k] \in Seq(Nat) /\ Holds.dirs[k] # <<>> /\ IsChain(disk, volume, Holds.dirs[k])
<1>1. /\ Holds.dirs \in Seq(Seq(Nat)) /\ Holds.dirs # <<>> /\ Len(Holds.dirs) <= Len(Path)
      /\ Holds.dirs[1][1] = volume.rootdir_start_cluster
      /\ \A k \in DOMAIN Holds.dirs : IsChain(disk, volume, Holds.dirs[k])
  BY HeldFacts DEF Holding
<1>2. DOMAIN Holds.dirs = 1 .. Len(Holds.dirs)
  BY <1>1
<1>3. \A k \in 1 .. Len(Holds.dirs) : Holds.dirs[k] \in Seq(Nat)
  BY <1>1, ElementOfSeq
<1> QED
  BY <1>1, <1>2, <1>3 DEF IsChain

\* Where the entry for a part leads; the last directory may have none.
LEMMA HeldEntries ==
  ASSUME DisksRegular, LoaderType, CallInv, at # "mbr",
         NEW k \in 1 .. Len(Holds.dirs), NEW found, found = FirstEntry(disk, volume, Holds.dirs[k], Path[k])
  PROVE  /\ k < Len(Holds.dirs) => \E e \in found : e.first = Holds.dirs[k + 1][1]
         /\ k = Len(Holds.dirs) /\ found = {} => Holds.sectors = <<>>
         /\ k = Len(Holds.dirs) /\ found # {} =>
              /\ k = Len(Path) /\ IsChain(disk, volume, Holds.chain) /\ Holds.sectors = WholeFile
              /\ \E e \in found : e.first = Holds.chain[1] /\ e.size = Holds.size
<1>1. Holding(disk, Holds, Path) /\ volume = BootVolume(disk) /\ Len(Holds.dirs) \in Nat
  BY HeldFacts, HeldDirs
<1>2. \A h \in 1 .. Len(Holds.dirs) - 1 :
        \E e \in FirstEntry(disk, volume, Holds.dirs[h], Path[h]) : e.first = Holds.dirs[h + 1][1]
  BY <1>1 DEF Holding
<1>3. k < Len(Holds.dirs) => k \in 1 .. Len(Holds.dirs) - 1
  BY <1>1
<1>4. k = Len(Holds.dirs) =>
        IF found = {} THEN Holds.sectors = <<>> ELSE
          /\ k = Len(Path) /\ IsChain(disk, volume, Holds.chain)
          /\ \E e \in found : e.first = Holds.chain[1] /\ e.size = Holds.size
          /\ Holds.sectors = WholeFile
  BY <1>1 DEF Holding, WholeFile
<1> QED
  BY <1>2, <1>3, <1>4

\* The file.
LEMMA HeldFile ==
  ASSUME DisksRegular, LoaderType, CallInv, at # "mbr"
  PROVE  /\ Holds.chain \in Seq(Nat) /\ Holds.size \in Nat
         /\ Holds.sectors # <<>> =>
              /\ Sector(disk, Holds.sectors[1]).kind = "pe"
              /\ Sector(disk, Holds.sectors[1]).SizeOfImage = Holds.image
BY HeldFacts DEF Holding

LEMMA PathParts ==
  ASSUME NEW k \in 1 .. Len(Path), NEW ns, ns = SubSeq(Path, k, Len(Path))
  PROVE  /\ Len(ns) = Len(Path) - k + 1 /\ ns # <<>>
         /\ Head(ns) = Path[k] /\ Tail(ns) = SubSeq(Path, k + 1, Len(Path))
<1>1. Path \in Seq(Name) /\ Len(Path) \in Nat /\ k \in Nat /\ k <= Len(Path)
  BY PathType DEF Names
<1>2. ns \in Seq(Name) /\ Len(ns) = Len(Path) - k + 1
  BY <1>1, SubSeqProperties
<1>3. Len(ns) # 0
  BY <1>1, <1>2
<1>4. ns # <<>>
  BY <1>3, EmptySeq
<1> QED
  BY <1>1, <1>2, <1>4, HeadTailOfSubSeq

\* As long as the loader goes on, what is held stays.
LEMMA HeldSame ==
  ASSUME UNCHANGED <<disk, loader>>
  PROVE  /\ Holds' = Holds /\ Path' = Path /\ (Loadable' <=> Loadable) /\ (Held' <=> Held)
BY DEF Holds, Path, Loadable, Held, Clusters

-------------------------------------------------------------------------------
(* Loader: the search *)

LEMMA SeekStarts ==
  ASSUME DisksRegular, LoaderType, CallInv, at # "mbr", open_file(Path), loader' = loader
  PROVE  io'.op = "search" /\ Seeking'
<1>1. io'.op = "search" /\ io'.names = Path /\ io'.cluster = volume.rootdir_start_cluster /\ io'.i = 0
  BY DEF open_file, Returned
<1>2. UNCHANGED <<disk, volume>> /\ Holds' = Holds /\ Path' = Path
  BY HeldSame DEF open_file
<1>3. 1 \in 1 .. Len(Holds.dirs) /\ 1 \in 1 .. Len(Holds.dirs[1])
  <2>1. Holds.dirs \in Seq(Seq(Nat)) /\ Holds.dirs # <<>>
    BY HeldDirs
  <2>2. 1 \in 1 .. Len(Holds.dirs)
    BY <2>1
  <2>3. Holds.dirs[1] \in Seq(Nat) /\ Holds.dirs[1] # <<>>
    BY <2>2, HeldDirs
  <2> QED
    BY <2>2, <2>3
<1>4. SubSeq(Path, 1, Len(Path)) = Path
  BY PathType, SubSeqFull DEF Names
<1>5. volume.sectors_per_cluster \in Nat
  BY DEF LoaderType, Volumes
<1>6. 1 .. (1 - 1) * volume.sectors_per_cluster + io'.i = {}
  BY <1>1, <1>5
<1>7. Holds.dirs[1][1] = volume.rootdir_start_cluster
  BY HeldDirs
<1> QED
  BY <1>1, <1>2, <1>3, <1>4, <1>5, <1>6, <1>7 DEF Seeking, SeekingAt

\* The sector a search looks at, in the chain of its directory.
LEMMA SeekPlace ==
  ASSUME DisksRegular, LoaderType, CallInv, at # "mbr", io.i < volume.sectors_per_cluster,
         NEW k \in 1 .. Len(Holds.dirs), NEW j \in 1 .. Len(Holds.dirs[k]), SeekingAt(k, j)
  PROVE  /\ (j - 1) * volume.sectors_per_cluster \in Nat
         /\ (j - 1) * volume.sectors_per_cluster + io.i + 1
              \in 1 .. Len(Holds.dirs[k]) * volume.sectors_per_cluster
         /\ ChainSectors(volume, Holds.dirs[k])[(j - 1) * volume.sectors_per_cluster + io.i + 1] = SearchLBA
         /\ k \in 1 .. Len(Path) /\ Len(io.names) = Len(Path) - k + 1
         /\ Head(io.names) = Path[k] /\ Tail(io.names) = SubSeq(Path, k + 1, Len(Path))
<1>a. volume \in Volumes /\ io.i \in Nat /\ volume.sectors_per_cluster \in Nat
  BY CallFields DEF LoaderType, Volumes
<1>b. Len(Path) \in Nat
  BY PathType DEF Names
<1>1. volume \in Volumes /\ io.i \in Nat /\ volume.sectors_per_cluster \in Nat /\ Len(Path) \in Nat
  BY <1>a, <1>b
<1>2. Holds.dirs[k] \in Seq(Nat) /\ Len(Holds.dirs) <= Len(Path) /\ Len(Holds.dirs) \in Nat
  BY HeldDirs
<1>3. volume.sectors_per_cluster # 0 /\ j - 1 \in Nat
  BY <1>1, <1>2
<1>4. (j - 1) * volume.sectors_per_cluster \in Nat
  BY <1>1, <1>3
<1>5. io.cluster = Holds.dirs[k][j] /\ io.names = SubSeq(Path, k, Len(Path))
  BY DEF SeekingAt
<1>6. /\ (j - 1) * volume.sectors_per_cluster + io.i + 1
           \in 1 .. Len(Holds.dirs[k]) * volume.sectors_per_cluster
      /\ ChainSectors(volume, Holds.dirs[k])[(j - 1) * volume.sectors_per_cluster + io.i + 1]
           = cluster_to_LBA(volume, Holds.dirs[k][j]) + io.i
  BY <1>1, <1>2, <1>3, ChainPlace
<1>7. k \in 1 .. Len(Path)
  BY <1>1, <1>2
<1> QED
  BY <1>4, <1>5, <1>6, <1>7, PathParts DEF SearchLBA

\* The entry that is found leads on to the next directory or is the file's.
LEMMA SeekFinds ==
  ASSUME DisksTyped, DisksRegular, LoaderType, CallInv, at = "opening", Seeking, Found, loader' = loader
  PROVE  IF io'.op = "search" THEN Seeking' ELSE io'.ok /\ Located'
<1>0. at # "mbr" /\ io \in Calls /\ volume \in Volumes /\ io.i \in Nat /\ volume.sectors_per_cluster \in Nat
  BY CallFields DEF LoaderType, Volumes
<1>1. PICK k \in 1 .. Len(Holds.dirs) : \E j \in 1 .. Len(Holds.dirs[k]) : SeekingAt(k, j)
  BY DEF Seeking
<1>2. PICK j \in 1 .. Len(Holds.dirs[k]) : SeekingAt(k, j)
  BY <1>1
<1> DEFINE chain == Holds.dirs[k]
           spc == volume.sectors_per_cluster
           n == (j - 1) * spc + io.i + 1
           e == Taken(disk, SearchLBA, Head(io.names))
<1>3. chain \in Seq(Nat) /\ k \in 1 .. Len(Path) /\ Len(Path) \in Nat /\ Len(Holds.dirs) \in Nat
  BY <1>0, HeldDirs, PathType DEF Names
<1>a. io.i < spc
  BY DEF Found, Searching
<1>4. /\ Len(io.names) = Len(Path) - k + 1
      /\ Head(io.names) = Path[k] /\ Tail(io.names) = SubSeq(Path, k + 1, Len(Path))
  BY <1>0, <1>2, <1>a, SeekPlace
<1>5. Wanted(disk, SearchLBA, Path[k]) # {} /\ UNCHANGED <<disk, volume>>
  BY <1>4 DEF Found
<1>6. n \in 1 .. Len(chain) * spc /\ ChainSectors(volume, chain)[n] = SearchLBA /\ (j - 1) * spc \in Nat
  BY <1>0, <1>2, <1>a, SeekPlace
<1>b. \A m \in 1 .. (j - 1) * spc + io.i : Wanted(disk, ChainSectors(volume, chain)[m], Path[k]) = {}
  BY <1>2 DEF SeekingAt
<1>7. FirstEntry(disk, volume, chain, Path[k]) = {e}
  <2>1. DOMAIN ChainSectors(volume, chain) = 1 .. Len(chain) * spc
    BY <1>0, <1>3, <1>a, ChainSectorsType
  <2>2. n \in DOMAIN ChainSectors(volume, chain) /\ DOMAIN ChainSectors(volume, chain) \subseteq Nat \ {0}
    BY <1>6, <2>1
  <2>3. n - 1 = (j - 1) * spc + io.i
    BY <1>0, <1>6
  <2>4. \A m \in 1 .. n - 1 : Wanted(disk, ChainSectors(volume, chain)[m], Path[k]) = {}
    BY <1>b, <2>3
  <2> HIDE DEF n, chain
  <2>5. FirstEntry(disk, volume, chain, Path[k]) = {Taken(disk, ChainSectors(volume, chain)[n], Path[k])}
    <3>1. Wanted(disk, ChainSectors(volume, chain)[n], Path[k]) # {}
      BY <1>5, <1>6
    <3> QED
      <4> DEFINE c == Path[k]
      <4>1. /\ n \in DOMAIN ChainSectors(volume, chain) /\ DOMAIN ChainSectors(volume, chain) \subseteq Nat \ {0}
            /\ Wanted(disk, ChainSectors(volume, chain)[n], c) # {}
            /\ \A m \in 1 .. n - 1 : Wanted(disk, ChainSectors(volume, chain)[m], c) = {}
        BY <2>2, <2>4, <3>1
      <4> HIDE DEF c
      <4>2. FirstEntry(disk, volume, chain, c) = {Taken(disk, ChainSectors(volume, chain)[n], c)}
        BY ONLY <4>1, FirstEntryIs
      <4> QED
        BY <4>2 DEF c
  <2> QED
    BY <1>4, <1>6, <2>5
<1>8. CASE Len(io.names) = 1
  <2>1. k = Len(Path) /\ k = Len(Holds.dirs)
    <3>1. Len(Holds.dirs) <= Len(Path)
      BY <1>0, HeldDirs
    <3> QED
      <4> DEFINE parts == Len(Path)
                 dirs == Len(Holds.dirs)
      <4>1. parts \in Nat /\ dirs \in Nat /\ dirs <= parts /\ k \in 1 .. dirs
        BY <1>3, <3>1
      <4>2. parts - k + 1 = 1
        BY <1>4, <1>8
      <4> HIDE DEF parts, dirs
      <4>3. k = parts /\ k = dirs
        BY ONLY <4>1, <4>2
      <4> QED
        BY <4>3 DEF parts, dirs
  <2>2. /\ IsChain(disk, volume, Holds.chain) /\ Holds.sectors = WholeFile
        /\ e.first = Holds.chain[1] /\ e.size = Holds.size
    BY <1>0, <1>7, <2>1, HeldEntries
  <2>3. file' = [start_cluster |-> e.first, size |-> e.size] /\ io' = Returned(TRUE)
    BY <1>8 DEF Found
  <2>4. io'.op = "idle" /\ io'.ok
    BY <2>3 DEF Returned
  <2>5. Holds' = Holds /\ WholeFile' = WholeFile
    BY <1>5, HeldSame DEF WholeFile
  <2>6. Located'
    BY <1>5, <2>2, <2>3, <2>5 DEF Located
  <2> QED
    BY <2>4, <2>6
<1>9. CASE Len(io.names) # 1
  <2>1. k < Len(Path)
    BY <1>3, <1>4, <1>9
  <2>2. k < Len(Holds.dirs)
    <3>1. k # Len(Holds.dirs)
      <4> SUFFICES ASSUME k = Len(Holds.dirs) PROVE FALSE
        OBVIOUS
      <4>1. FirstEntry(disk, volume, Holds.dirs[k], Path[k]) # {}
        BY <1>7
      <4>2. k = Len(Path)
        BY <1>0, <4>1, HeldEntries
      <4> QED
        BY <1>3, <2>1, <4>2
    <3> QED
      BY <1>3, <3>1
  <2>3. e.first = Holds.dirs[k + 1][1]
    BY <1>0, <1>7, <2>2, HeldEntries
  <2>4. io'.op = "search" /\ io'.names = Tail(io.names) /\ io'.cluster = e.first /\ io'.i = 0
    BY <1>9 DEF Found, Returned
  <2>5. Holds' = Holds /\ Path' = Path
    BY <1>5, HeldSame
  <2>6. k + 1 \in 1 .. Len(Holds.dirs)
    BY <1>3, <2>2
  <2>7. 1 \in 1 .. Len(Holds.dirs[k + 1])
    <3>1. Holds.dirs[k + 1] \in Seq(Nat) /\ Holds.dirs[k + 1] # <<>>
      BY <1>0, <2>6, HeldDirs
    <3> QED
      BY <3>1
  <2>8. 1 .. (1 - 1) * spc + io'.i = {}
    BY <1>0, <2>4
  <2>9. SeekingAt(k + 1, 1)'
    <3>1. io'.i <= spc /\ volume' = volume
      BY <1>0, <1>5, <2>4
    <3>2. io'.names = SubSeq(Path, k + 1, Len(Path)) /\ io'.cluster = Holds.dirs[k + 1][1]
      BY <1>4, <2>3, <2>4
    <3> QED
      BY <2>5, <2>8, <3>1, <3>2 DEF SeekingAt
  <2>10. Seeking'
    BY <2>5, <2>6, <2>7, <2>9 DEF Seeking
  <2> QED
    BY <2>4, <2>10
<1> QED
  BY <1>8, <1>9

LEMMA SeekGoesOn ==
  ASSUME DisksTyped, DisksRegular, LoaderType, CallInv, at = "opening", Seeking, SearchSector, loader' = loader
  PROVE  io'.op = "search" /\ Seeking'
<1>0. at # "mbr" /\ io \in Calls /\ volume \in Volumes /\ io.i \in Nat /\ volume.sectors_per_cluster \in Nat
  BY CallFields DEF LoaderType, Volumes
<1>1. PICK k \in 1 .. Len(Holds.dirs) : \E j \in 1 .. Len(Holds.dirs[k]) : SeekingAt(k, j)
  BY DEF Seeking
<1>2. PICK j \in 1 .. Len(Holds.dirs[k]) : SeekingAt(k, j)
  BY <1>1
<1> DEFINE chain == Holds.dirs[k]
           spc == volume.sectors_per_cluster
           n == (j - 1) * spc + io.i + 1
<1>3. chain \in Seq(Nat) /\ k \in 1 .. Len(Path)
  BY <1>0, HeldDirs, PathType DEF Names
<1>a. io.i < spc
  BY DEF SearchSector, Searching
<1>4. Head(io.names) = Path[k]
  BY <1>0, <1>2, <1>a, SeekPlace
<1>5. Wanted(disk, SearchLBA, Path[k]) = {} /\ UNCHANGED <<disk, volume>>
  BY <1>4 DEF SearchSector
<1>6. n \in 1 .. Len(chain) * spc /\ ChainSectors(volume, chain)[n] = SearchLBA /\ (j - 1) * spc \in Nat
  BY <1>0, <1>2, <1>a, SeekPlace
<1>7. /\ io'.op = "search" /\ io'.names = io.names /\ io'.cluster = io.cluster /\ io'.i = io.i + 1
  BY <1>0 DEF SearchSector, Searching, Calls
<1>8. (j - 1) * spc + io'.i = n /\ n - 1 = (j - 1) * spc + io.i
  <2> DEFINE start == (j - 1) * spc
  <2>1. start \in Nat /\ n = start + io.i + 1
    BY <1>6
  <2>2. io.i \in Nat /\ io'.i = io.i + 1
    BY <1>0, <1>7
  <2> HIDE DEF start, n
  <2>3. start + io'.i = n /\ n - 1 = start + io.i
    BY ONLY <2>1, <2>2
  <2> QED
    BY <2>3 DEF start
<1>9. \A m \in 1 .. n : Wanted(disk, ChainSectors(volume, chain)[m], Path[k]) = {}
  <2> SUFFICES ASSUME NEW m \in 1 .. n PROVE Wanted(disk, ChainSectors(volume, chain)[m], Path[k]) = {}
    OBVIOUS
  <2>1. m = n \/ m \in 1 .. n - 1
    BY <1>6
  <2> QED
    BY <1>2, <1>5, <1>6, <1>8, <2>1 DEF SeekingAt
<1>10. Holds' = Holds /\ Path' = Path
  BY <1>5, HeldSame
<1>11. io'.i <= spc
  BY <1>0, <1>a, <1>7
<1>12. SeekingAt(k, j)'
  BY <1>2, <1>5, <1>7, <1>8, <1>9, <1>10, <1>11 DEF SeekingAt
<1> QED
  BY <1>7, <1>10, <1>12 DEF Seeking

\* Behind the last sector of the last cluster there is no such entry.
LEMMA SeekMoves ==
  ASSUME DisksTyped, DisksRegular, LoaderType, CallInv, at = "opening", Seeking, SearchCluster, loader' = loader
  PROVE  IF io'.op = "search" THEN Seeking' ELSE ~io'.ok /\ Holds.sectors = <<>>
<1>0. at # "mbr" /\ io \in Calls /\ volume \in Volumes /\ io.i \in Nat /\ volume.sectors_per_cluster \in Nat \ {0}
  BY CallFields, BootVolumeType DEF LoaderType, Volumes, CallInv
<1>1. PICK k \in 1 .. Len(Holds.dirs) : \E j \in 1 .. Len(Holds.dirs[k]) : SeekingAt(k, j)
  BY DEF Seeking
<1>2. PICK j \in 1 .. Len(Holds.dirs[k]) : SeekingAt(k, j)
  BY <1>1
<1> DEFINE chain == Holds.dirs[k]
           spc == volume.sectors_per_cluster
<1>3. chain \in Seq(Nat) /\ k \in 1 .. Len(Path) /\ IsChain(disk, volume, chain) /\ Len(chain) \in Nat
      /\ Len(Holds.dirs) \in Nat
  BY <1>0, HeldDirs, PathType DEF Names
<1>4. io.i = spc /\ UNCHANGED <<disk, volume>>
  BY DEF SearchCluster
<1>5. (j - 1) * spc + io.i = j * spc /\ j * spc \in Nat
  BY <1>0, <1>4
<1>6. NextCluster = NextIn(disk, volume, chain[j])
  BY <1>2 DEF SeekingAt, NextCluster
<1>7. j \in DOMAIN chain
  BY <1>3
<1>8. CASE j = Len(chain)
  <2>1. IsEnd(NextCluster)
    BY <1>3, <1>6, <1>7, <1>8 DEF IsChain, IsEnd
  <2>2. io' = Returned(FALSE)
    BY <2>1 DEF SearchCluster
  <2>3. DOMAIN ChainSectors(volume, chain) = 1 .. Len(chain) * spc
    BY <1>0, <1>3, ChainSectorsType
  <2>4. FirstEntry(disk, volume, chain, Path[k]) = {}
    BY <1>2, <1>5, <1>8, <2>3, NoEntry DEF SeekingAt
  <2>5. k = Len(Holds.dirs)
    BY <1>0, <1>3, <2>4, HeldEntries
  <2>6. Holds.sectors = <<>>
    BY <1>0, <2>4, <2>5, HeldEntries
  <2> QED
    BY <2>2, <2>6 DEF Returned
<1>9. CASE j # Len(chain)
  <2>1. ~IsEnd(NextCluster) /\ NextCluster = chain[j + 1]
    BY <1>3, <1>6, <1>7, <1>9 DEF IsChain, IsEnd
  <2>2. io' = [io EXCEPT !.cluster = NextCluster, !.i = 0, !.fat = FatSector(volume, io.cluster)]
    BY <2>1 DEF SearchCluster
  <2>3. /\ io'.op = "search" /\ io'.names = io.names /\ io'.cluster = chain[j + 1] /\ io'.i = 0
    BY <1>0, <2>1, <2>2 DEF SearchCluster, Calls
  <2>4. j + 1 \in 1 .. Len(chain)
    BY <1>3, <1>9
  <2>5. ((j + 1) - 1) * spc + io'.i = (j - 1) * spc + io.i
    BY <1>0, <1>4, <1>5, <2>3
  <2>6. Holds' = Holds /\ Path' = Path
    BY <1>4, HeldSame
  <2>7. 0 <= spc
    BY <1>0
  <2>8. SeekingAt(k, j + 1)'
    BY <1>2, <1>4, <2>3, <2>5, <2>6, <2>7 DEF SeekingAt
  <2> QED
    BY <2>3, <2>4, <2>6, <2>8 DEF Seeking
<1> QED
  BY <1>8, <1>9

-------------------------------------------------------------------------------
(* Loader: the transfer *)

LEMMA LocatedStays ==
  ASSUME Located, UNCHANGED <<disk, volume, file, loader>>
  PROVE  Located'
<1>1. Holds' = Holds
  BY HeldSame
<1>2. WholeFile' = WholeFile
  BY <1>1 DEF WholeFile
<1> QED
  BY <1>1, <1>2 DEF Located

\* Where a chain ends, and what follows a cluster before that.
LEMMA ChainEnds ==
  ASSUME NEW chain \in Seq(Nat), IsChain(disk, volume, chain), NEW j \in 1 .. Len(chain), io.cluster = chain[j]
  PROVE  (IsEnd(NextCluster) <=> j = Len(chain)) /\ (~IsEnd(NextCluster) => NextCluster = chain[j + 1])
<1>1. j \in DOMAIN chain
  OBVIOUS
<1>2. NextCluster = NextIn(disk, volume, chain[j])
  BY DEF NextCluster
<1> QED
  BY <1>1, <1>2 DEF IsChain, IsEnd

\* The numbers of a transfer.
LEMMA ReadingNumbers ==
  ASSUME DisksTyped, DisksRegular, LoaderType, CallInv, at # "mbr", Located
  PROVE  /\ volume \in Volumes /\ volume.sectors_per_cluster \in Nat \ {0}
         /\ Holds.chain \in Seq(Nat) /\ Len(Holds.chain) \in Nat \ {0}
         /\ SectorsOf(file.size) \in Nat /\ file.size = Holds.size
         /\ io.i \in Nat /\ io.count \in Nat
         /\ ChainSectors(volume, Holds.chain) \in Seq(Int)
         /\ Len(ChainSectors(volume, Holds.chain)) = Len(Holds.chain) * volume.sectors_per_cluster
         /\ Len(Holds.chain) * volume.sectors_per_cluster \in Nat
<1>1. volume \in Volumes /\ volume.sectors_per_cluster \in Nat \ {0} /\ io.i \in Nat /\ io.count \in Nat
  BY BootVolumeType, CallFields DEF LoaderType, CallInv
<1>2. Holds.chain \in Seq(Nat) /\ Holds.chain # <<>>
  BY HeldFile DEF Located, IsChain
<1>3. Len(Holds.chain) \in Nat \ {0}
  BY <1>2, EmptySeq
<1>4. SectorsOf(file.size) \in Nat /\ file.size = Holds.size
  BY SectorsHold DEF LoaderType, Located
<1>5. Len(Holds.chain) * volume.sectors_per_cluster \in Nat
  BY <1>1, <1>3
<1> QED
  BY <1>1, <1>2, <1>3, <1>4, <1>5, ChainSectorsType

\* A transfer starts with the first cluster of the file and nothing read.
LEMMA ReadStarts ==
  ASSUME DisksTyped, DisksRegular, LoaderType, CallInv, at # "mbr", Located,
         NEW op \in {"read", "load"}, NEW bytes \in Nat, StartTransfer(op, bytes), loader' = loader
  PROVE  io'.op = op /\ Located' /\ Reading'
<1> DEFINE s == ChainSectors(volume, Holds.chain)
<1>1. /\ io'.op = op /\ io'.cluster = Holds.chain[1] /\ io'.i = 0 /\ io'.count = 0 /\ buf' = <<>>
      /\ UNCHANGED <<disk, volume, file>>
  BY DEF StartTransfer, Returned, Located
<1>2. Holds' = Holds /\ Located'
  BY <1>1, HeldSame, LocatedStays
<1>3. SectorsOf(file'.size) \in Nat /\ 1 \in 1 .. Len(Holds.chain) /\ s \in Seq(Int)
      /\ volume.sectors_per_cluster \in Nat
  BY <1>1, ReadingNumbers
<1>4. ReadingAt(1)'
  <2>1. (1 - 1) * volume'.sectors_per_cluster = 0
    BY <1>1, <1>3
  <2>2. io'.count = (1 - 1) * volume'.sectors_per_cluster + io'.i /\ io'.count <= SectorsOf(file'.size)
    BY <1>1, <1>3, <2>1
  <2> QED
    BY <1>1, <1>2, <2>2 DEF ReadingAt
<1>5. SubSeq(s, 1, 0) = <<>>
  BY <1>3, SubSeqProperties, EmptySeq
<1>6. buf' = SubSeq(ChainSectors(volume', Holds'.chain), 1, io'.count)
  BY <1>1, <1>2, <1>5
<1> QED
  BY <1>1, <1>2, <1>3, <1>4, <1>6 DEF Reading

\* Each sector that is read is the next one of the file.
LEMMA ReadGoesOn ==
  ASSUME DisksTyped, DisksRegular, LoaderType, CallInv, at # "mbr", Located, Reading, ReadSector, loader' = loader
  PROVE  io'.op = io.op /\ Reading'
<1> DEFINE s == ChainSectors(volume, Holds.chain)
           w == volume.sectors_per_cluster
           fs == SectorsOf(file.size)
<1>0. io \in Calls
  BY DEF LoaderType
<1>1. PICK j \in 1 .. Len(Holds.chain) : ReadingAt(j)
  BY DEF Reading
<1>2. w \in Nat \ {0} /\ fs \in Nat /\ io.i \in Nat /\ io.count \in Nat /\ j - 1 \in Nat
  BY ReadingNumbers
<1> DEFINE start == (j - 1) * w
<1>3. start \in Nat
  BY <1>2
<1>4. io.i < w /\ io.count < fs /\ UNCHANGED <<disk, volume, file>>
  BY DEF ReadSector, ClusterGoesOn
<1>5. /\ io.cluster = Holds.chain[j] /\ io.count = start + io.i
      /\ j > 1 => start < Limit
  BY <1>1, <1>2, <1>4 DEF ReadingAt
<1>6. /\ io'.op = io.op /\ io'.cluster = io.cluster /\ io'.bufsize = io.bufsize
      /\ io'.i = io.i + 1 /\ io'.count = io.count + 1
  BY <1>0 DEF ReadSector, Calls
<1>7. buf' = Append(buf, cluster_to_LBA(volume, io.cluster) + io.i)
  BY DEF ReadSector
<1>8. Holds' = Holds /\ Limit' = Limit /\ SectorsOf(file'.size) = fs
  BY <1>4, <1>6, HeldSame DEF Limit
<1>9. ReadingAt(j)'
  <2>1. io'.count = start + io'.i /\ io'.count <= fs
    <3> HIDE DEF start, fs, w
    <3> QED
      BY <1>2, <1>3, <1>4, <1>5, <1>6
  <2> QED
    BY <1>4, <1>5, <1>6, <1>8, <2>1 DEF ReadingAt
<1>10. s[io.count + 1] = cluster_to_LBA(volume, io.cluster) + io.i /\ io.count < Len(s)
  <2>1. /\ start + io.i + 1 \in 1 .. Len(Holds.chain) * w
        /\ s[start + io.i + 1] = cluster_to_LBA(volume, Holds.chain[j]) + io.i
    <3>1. volume \in Volumes /\ Holds.chain \in Seq(Nat)
      BY ReadingNumbers
    <3>2. volume.sectors_per_cluster # 0 /\ io.i < volume.sectors_per_cluster /\ io.i \in Nat
      BY <1>2, <1>4
    <3> QED
      BY ONLY <3>1, <3>2, ChainPlace
  <2>2. Len(s) = Len(Holds.chain) * w /\ Len(Holds.chain) * w \in Nat
    BY ReadingNumbers
  <2> HIDE DEF start
  <2>3. io.count + 1 = start + io.i + 1
    BY <1>5
  <2> HIDE DEF s
  <2> QED
    BY <1>2, <1>5, <2>1, <2>2, <2>3
<1>11. buf' = SubSeq(s, 1, io.count + 1)
  <2>1. buf = SubSeq(s, 1, io.count) /\ s \in Seq(Int)
    BY ReadingNumbers DEF Reading
  <2> HIDE DEF s
  <2> QED
    BY <1>2, <1>7, <1>10, <2>1, PrefixGrows
<1> QED
  BY <1>4, <1>6, <1>8, <1>9, <1>11 DEF Reading

LEMMA Monotone ==
  ASSUME NEW m \in Nat, NEW n \in Nat, NEW w \in Nat \ {0}
  PROVE  /\ m <= n => m * w <= n * w
         /\ m * w < n * w => m < n
<1>1. m <= n => m * w <= n * w
  OBVIOUS
<1>2. n <= m => n * w <= m * w
  OBVIOUS
<1>3. m * w \in Nat /\ n * w \in Nat
  OBVIOUS
<1> QED
  BY <1>1, <1>2, <1>3

\* The next cluster begins where the last one ended.
LEMMA ReadMoves ==
  ASSUME DisksTyped, DisksRegular, LoaderType, CallInv, BoundsInv, at # "mbr", Located, Reading, ReadCluster,
         io'.op # "idle", loader' = loader
  PROVE  io'.op = io.op /\ Reading'
<1> DEFINE w == volume.sectors_per_cluster
           fs == SectorsOf(file.size)
           len == Len(Holds.chain)
<1>0. io \in Calls
  BY DEF LoaderType
<1>1. PICK j \in 1 .. Len(Holds.chain) : ReadingAt(j)
  BY DEF Reading
<1>2. w \in Nat \ {0} /\ fs \in Nat /\ io.i \in Nat /\ io.count \in Nat /\ j - 1 \in Nat /\ j \in Nat
      /\ len \in Nat
  BY ReadingNumbers
<1> DEFINE start == (j - 1) * w
           end == ((j + 1) - 1) * w
<1>3. start \in Nat /\ end = start + w
  BY <1>2
<1>4. /\ io' = [io EXCEPT !.cluster = NextCluster, !.i = 0, !.fat = FatSector(volume, io.cluster)]
      /\ ~IsEnd(NextCluster) /\ io.count < Limit
  BY DEF ReadCluster, Returned
<1>5. /\ io'.op = io.op /\ io'.cluster = NextCluster /\ io'.i = 0 /\ io'.count = io.count
      /\ io'.bufsize = io.bufsize
  BY <1>0, <1>4 DEF Calls
<1>6. UNCHANGED <<disk, volume, file, buf>>
  BY DEF ReadCluster
<1>7. Holds' = Holds /\ Limit' = Limit /\ SectorsOf(file'.size) = fs
  BY <1>5, <1>6, HeldSame DEF Limit
<1>8. j # len /\ NextCluster = Holds.chain[j + 1]
  <2>1. io.cluster = Holds.chain[j] /\ IsChain(disk, volume, Holds.chain) /\ Holds.chain \in Seq(Nat)
    BY <1>1, ReadingNumbers DEF ReadingAt, Located
  <2> QED
    BY <1>4, <2>1, ChainEnds
<1>9. j + 1 \in 1 .. len
  BY <1>2, <1>8
<1>10. io.i <= w /\ (io.i = w \/ io.count >= fs) /\ io.op \in {"read", "load"}
  <2>1. io.i <= w /\ io.op \in {"read", "load"}
    BY DEF BoundsInv, ReadCluster, Transferring
  <2>2. ~(io.i < w /\ io.count < fs)
    BY DEF ReadCluster, ClusterGoesOn
  <2> QED
    BY <1>2, <2>1, <2>2
<1>11. \/ io.count = start + io.i /\ io.count <= fs
       \/ io.i = 0 /\ io.count = fs /\ fs <= start /\ io.op = "read"
  BY <1>1 DEF ReadingAt
<1>12. \/ io.count = end + 0 /\ io.count <= fs
       \/ io.count = fs /\ fs <= end /\ io.op = "read"
  <2>1. io.op = "load" => io.count < fs
    BY <1>4 DEF Limit
  <2> HIDE DEF start, end, fs, w
  <2> QED
    BY <1>2, <1>3, <1>10, <1>11, <2>1
<1>13. ReadingAt(j + 1)'
  <2>1. CASE io.count = end + 0 /\ io.count <= fs
    <3>1. io'.count = end + io'.i /\ io'.count <= fs /\ end < Limit
      <4>1. io.count = end
        BY <1>2, <1>3, <2>1
      <4> QED
        BY <1>4, <1>5, <2>1, <4>1
    <3> QED
      BY <1>5, <1>6, <1>7, <1>8, <3>1 DEF ReadingAt
  <2>2. CASE io.count = fs /\ fs <= end /\ io.op = "read"
    BY <1>5, <1>6, <1>7, <1>8, <2>2 DEF ReadingAt
  <2> QED
    BY <1>12, <2>1, <2>2
<1>14. buf' = SubSeq(ChainSectors(volume', Holds'.chain), 1, io'.count)
  BY <1>5, <1>6, <1>7 DEF Reading
<1> QED
  BY <1>5, <1>7, <1>9, <1>13, <1>14 DEF Reading

\* A file with sectors needs the last cluster of its chain, and no more.
LEMMA WholeSectors ==
  ASSUME DisksTyped, DisksRegular, LoaderType, CallInv, at # "mbr", Located, Holds.sectors # <<>>
  PROVE  /\ SectorsOf(file.size) > (Len(Holds.chain) - 1) * volume.sectors_per_cluster
         /\ SectorsOf(file.size) <= Len(Holds.chain) * volume.sectors_per_cluster
         /\ Holds.sectors = SubSeq(ChainSectors(volume, Holds.chain), 1, SectorsOf(file.size))
BY ReadingNumbers DEF Located, WholeFile

\* A transfer that ends, ends in a cluster of the file or behind the file.
LEMMA EndsAt ==
  ASSUME DisksTyped, DisksRegular, LoaderType, CallInv, BoundsInv, at # "mbr", Located, Reading, ReadCluster,
         io'.op = "idle"
  PROVE  \E j \in 1 .. Len(Holds.chain) :
           /\ (IsEnd(NextCluster) <=> j = Len(Holds.chain))
           /\ IsEnd(NextCluster) \/ io.count >= Limit
           /\ io.i <= volume.sectors_per_cluster
           /\ io.i = volume.sectors_per_cluster \/ io.count >= SectorsOf(file.size)
           /\ ReadingAt(j)
<1>1. PICK j \in 1 .. Len(Holds.chain) : ReadingAt(j)
  BY DEF Reading
<1>2. IsEnd(NextCluster) <=> j = Len(Holds.chain)
  <2>1. io.cluster = Holds.chain[j] /\ IsChain(disk, volume, Holds.chain) /\ Holds.chain \in Seq(Nat)
    BY <1>1, ReadingNumbers DEF ReadingAt, Located
  <2> QED
    BY <2>1, ChainEnds
<1>3. io \in Calls /\ io.op \in {"read", "load"}
  BY DEF LoaderType, ReadCluster, Transferring
<1>4. IsEnd(NextCluster) \/ ~(io.count < Limit)
  <2> SUFFICES ASSUME ~IsEnd(NextCluster), io.count < Limit PROVE FALSE
    OBVIOUS
  <2>1. io' = [io EXCEPT !.cluster = NextCluster, !.i = 0, !.fat = FatSector(volume, io.cluster)]
    BY DEF ReadCluster
  <2>2. io'.op = io.op
    BY <1>3, <2>1 DEF Calls
  <2> QED
    BY <1>3, <2>2
<1>5. io.count \in Nat /\ Limit \in Nat
  <2>1. io.bufsize \in Nat /\ io.count \in Nat
    BY CallFields DEF LoaderType
  <2>2. io.bufsize \div SECTOR_SIZE \in Nat
    BY <2>1, DivMod, LoaderAssumption
  <2> QED
    BY <2>1, <2>2, ReadingNumbers DEF Limit
<1>6. io.i <= volume.sectors_per_cluster /\ io.i \in Nat /\ volume.sectors_per_cluster \in Nat
      /\ SectorsOf(file.size) \in Nat
  BY ReadingNumbers DEF BoundsInv, ReadCluster
<1>7. ~(io.i < volume.sectors_per_cluster /\ io.count < SectorsOf(file.size))
  BY DEF ReadCluster, ClusterGoesOn
<1>8. io.i = volume.sectors_per_cluster \/ io.count >= SectorsOf(file.size)
  BY <1>5, <1>6, <1>7
<1> QED
  BY <1>1, <1>2, <1>4, <1>5, <1>6, <1>8

\* A load that succeeds has read the whole file, and one of a file that can be
\* loaded succeeds.
LEMMA LoadEnds ==
  ASSUME DisksTyped, DisksRegular, LoaderType, CallInv, BoundsInv, at # "mbr", Located, Reading, ReadCluster,
         io.op = "load", io'.op = "idle"
  PROVE  /\ io'.ok => buf' = Holds.sectors
         /\ Loadable => io'.ok
<1> DEFINE s == ChainSectors(volume, Holds.chain)
           w == volume.sectors_per_cluster
           fs == SectorsOf(file.size)
           len == Len(Holds.chain)
<1>1. PICK j \in 1 .. len :
           /\ (IsEnd(NextCluster) <=> j = len)
           /\ IsEnd(NextCluster) \/ io.count >= Limit
           /\ io.i <= w /\ (io.i = w \/ io.count >= fs)
           /\ ReadingAt(j)
  BY EndsAt
<1> DEFINE start == (j - 1) * w
<1>2. w \in Nat \ {0} /\ fs \in Nat /\ io.i \in Nat /\ io.count \in Nat /\ j - 1 \in Nat /\ j \in Nat
      /\ len \in Nat \ {0} /\ start \in Nat /\ len - 1 \in Nat
  BY ReadingNumbers
<1>3. start + w = j * w /\ start = (j - 1) * w
  BY <1>2
<1>4. /\ io.count = start + io.i /\ io.count <= fs
      /\ j > 1 => start < fs
  BY <1>1 DEF ReadingAt, Limit
<1>5. Limit = fs
  BY DEF Limit
<1>6. buf' = buf /\ buf = SubSeq(s, 1, io.count) /\ s \in Seq(Int)
  BY ReadingNumbers DEF ReadCluster, Reading
<1>7. io'.ok \in BOOLEAN /\ (io'.ok <=> io.count = fs /\ IsEnd(NextCluster))
  <2>1. io' = [io EXCEPT !.cluster = NextCluster, !.i = 0, !.fat = FatSector(volume, io.cluster)]
        \/ io' = Returned(Complete(NextCluster))
    BY DEF ReadCluster
  <2>2. io \in Calls
    BY DEF LoaderType
  <2>3. io' = Returned(Complete(NextCluster))
    BY <2>1, <2>2 DEF Calls
  <2>4. Complete(NextCluster) = (io.count = fs /\ IsEnd(NextCluster))
    BY DEF Complete
  <2>5. io'.ok = (io.count = fs /\ IsEnd(NextCluster))
    BY <2>3, <2>4 DEF Returned
  <2> QED
    BY <2>5, Zenon DEF IsEnd
<1>8. io'.ok => buf' = Holds.sectors
  <2> SUFFICES ASSUME io.count = fs, j = len PROVE SubSeq(s, 1, fs) = Holds.sectors
    BY <1>1, <1>6, <1>7
  <2>1. fs <= len * w
    <3>1. start + w = len * w
      BY <1>3
    <3> HIDE DEF start, fs, w, len
    <3> QED
      BY <1>1, <1>2, <1>4, <3>1
  <2>2. CASE fs > (len - 1) * w
    BY <2>1, <2>2, ReadingNumbers DEF Located, WholeFile
  <2>3. CASE ~(fs > (len - 1) * w)
    <3>1. len = 1 /\ fs = 0
      <4>1. len = 1
        <5>1. ~(fs > start) /\ (len > 1 => start < fs)
          BY <1>3, <1>4, <2>3
        <5> HIDE DEF start, fs, w, len
        <5> QED
          BY <1>2, <5>1
      <4>2. (len - 1) * w = 0
        BY <1>2, <4>1
      <4> QED
        BY <1>2, <2>3, <4>1, <4>2
    <3>2. SubSeq(s, 1, 0) = <<>>
      BY <1>6, SubSeqProperties, EmptySeq
    <3> QED
      BY <2>3, <3>1, <3>2, ReadingNumbers DEF Located, WholeFile
  <2> QED
    BY <2>2, <2>3
<1>9. Loadable => io'.ok
  <2> SUFFICES ASSUME Loadable PROVE io.count = fs /\ j = len
    BY <1>1, <1>7
  <2>1. fs > (len - 1) * w /\ fs <= len * w
    BY WholeSectors DEF Loadable
  <2>2. (len - 1) * w \in Nat /\ len * w \in Nat /\ j * w \in Nat
    <3> HIDE DEF w, len
    <3> QED
      BY <1>2
  <2>3. CASE j = len
    BY <1>1, <1>2, <1>3, <1>4, <2>1, <2>2, <2>3
  <2>4. CASE j # len
    <3>1. io.count = fs
      BY <1>1, <1>2, <1>4, <1>5, <2>4
    <3>2. (len - 1) * w < j * w
      <4> HIDE DEF start, fs
      <4>1. fs <= start + w
        BY <1>1, <1>2, <1>4, <3>1
      <4> QED
        BY <1>2, <1>3, <2>1, <2>2, <4>1
    <3>3. len - 1 < j
      BY <1>2, <3>2, Monotone
    <3> QED
      BY <1>2, <2>4, <3>3
  <2> QED
    BY <2>3, <2>4
<1> QED
  BY <1>8, <1>9

\* Whole clusters of n sectors.
LEMMA WholeUp ==
  ASSUME NEW n \in Nat, NEW k \in Nat, NEW w \in Nat \ {0}, k * w < n
  PROVE  (k + 1) * w <= ((n + w - 1) \div w) * w
<1> DEFINE q == (n + w - 1) \div w
           t == (n + w - 1) % w
<1>1. q \in Nat /\ t \in 0 .. w - 1 /\ n + w - 1 = w * q + t
  <2>1. n + w - 1 \in Nat
    OBVIOUS
  <2> QED
    BY <2>1, DivMod
<1> HIDE DEF q, t
<1>2. k * w + w - 1 < w * q + w - 1
  <2>1. k * w \in Nat /\ w * q \in Nat
    BY <1>1
  <2>2. n <= w * q
    BY <1>1, <2>1
  <2> QED
    BY <2>1, <2>2
<1>3. k * w < q * w
  BY <1>1, <1>2
<1>4. (k + 1) * w <= q * w
  BY <1>1, <1>3, NextWholeCluster
<1> QED
  BY <1>4 DEF q

\* The header of a file that can be loaded is read, from its first sector on.
LEMMA ReadEnds ==
  ASSUME DisksTyped, DisksRegular, LoaderType, CallInv, BoundsInv, at # "mbr", Located, Reading, ReadCluster,
         io.op = "read", io'.op = "idle", Loadable
  PROVE  io'.ok /\ FirstOf(buf')
<1> DEFINE s == ChainSectors(volume, Holds.chain)
           w == volume.sectors_per_cluster
           fs == SectorsOf(file.size)
           len == Len(Holds.chain)
           limit == PE_HEAD_BUF_SIZE \div SECTOR_SIZE
<1>1. PICK j \in 1 .. len :
           /\ (IsEnd(NextCluster) <=> j = len)
           /\ IsEnd(NextCluster) \/ io.count >= Limit
           /\ io.i <= w /\ (io.i = w \/ io.count >= fs)
           /\ ReadingAt(j)
  BY EndsAt
<1> DEFINE start == (j - 1) * w
<1>2. w \in Nat \ {0} /\ fs \in Nat /\ io.i \in Nat /\ io.count \in Nat /\ j - 1 \in Nat /\ j \in Nat
      /\ len \in Nat \ {0} /\ len - 1 \in Nat
  BY ReadingNumbers
<1>3. start \in Nat /\ start + w = j * w /\ start = (j - 1) * w
  BY <1>2
<1>4. /\ fs > (len - 1) * w /\ fs <= len * w /\ Holds.sectors # <<>>
      /\ Holds.sectors = SubSeq(s, 1, fs)
  BY WholeSectors DEF Loadable
<1>5. (len - 1) * w \in Nat /\ len * w \in Nat /\ j * w \in Nat /\ start <= (len - 1) * w
  <2>1. j - 1 <= len - 1
    BY <1>2
  <2> HIDE DEF w, len
  <2>2. (len - 1) * w \in Nat /\ len * w \in Nat /\ j * w \in Nat
    BY <1>2
  <2>3. (j - 1) * w <= (len - 1) * w
    BY ONLY <1>2, <2>1, Monotone
  <2> QED
    BY <2>2, <2>3
<1>6. Limit = limit /\ limit \in Nat /\ limit > 0
  <2>1. Limit = limit
    BY DEF Limit, CallInv
  <2>2. /\ PE_HEAD_BUF_SIZE \in Nat /\ SECTOR_SIZE \in Nat \ {0} /\ PE_HEAD_BUF_SIZE >= SECTOR_SIZE
    BY LoaderAssumption
  <2>3. /\ limit \in Nat /\ PE_HEAD_BUF_SIZE = SECTOR_SIZE * limit + (PE_HEAD_BUF_SIZE % SECTOR_SIZE)
        /\ PE_HEAD_BUF_SIZE % SECTOR_SIZE \in 0 .. SECTOR_SIZE - 1
    BY <2>2, DivMod
  <2> DEFINE rest == PE_HEAD_BUF_SIZE % SECTOR_SIZE
  <2>4. limit # 0
    <3> SUFFICES ASSUME limit = 0 PROVE FALSE
      OBVIOUS
    <3>1. SECTOR_SIZE * limit = 0
      BY <2>2
    <3> HIDE DEF rest, limit
    <3>2. PE_HEAD_BUF_SIZE = rest /\ rest < SECTOR_SIZE
      BY <2>2, <2>3, <3>1 DEF rest
    <3> QED
      BY <2>2, <3>2
  <2> QED
    BY <2>1, <2>3, <2>4
<1>7. /\ io.count = start + io.i /\ io.count <= fs
      /\ start < limit
  <2>1. ~(fs <= start)
    BY <1>2, <1>4, <1>5
  <2>2. /\ io.count = start + io.i /\ io.count <= fs
        /\ j > 1 => start < limit
    BY <1>1, <1>6, <2>1 DEF ReadingAt
  <2>3. j = 1 => start = 0
    BY <1>2
  <2> QED
    BY <1>2, <1>6, <2>2, <2>3
<1>8. buf' = buf /\ buf = SubSeq(s, 1, io.count) /\ s \in Seq(Int)
      /\ Len(s) = len * w
  BY ReadingNumbers DEF ReadCluster, Reading
<1>9. io'.ok
  <2>1. io' = Returned(Complete(NextCluster))
    <3>1. io' = [io EXCEPT !.cluster = NextCluster, !.i = 0, !.fat = FatSector(volume, io.cluster)]
          \/ io' = Returned(Complete(NextCluster))
      BY DEF ReadCluster
    <3>2. io \in Calls
      BY DEF LoaderType
    <3> QED
      BY <3>1, <3>2 DEF Calls
  <2>2. Complete(NextCluster)
        = (IF io.count = fs \/ IsEnd(NextCluster) THEN file.size = io.bufsize ELSE TRUE)
    BY DEF Complete
  <2>3. io.bufsize = PE_HEAD_BUF_SIZE /\ file.size = Holds.size
    BY ReadingNumbers DEF CallInv
  <2>4. CASE Holds.size = PE_HEAD_BUF_SIZE
    BY <2>1, <2>2, <2>3, <2>4 DEF Returned
  <2>5. CASE Holds.size # PE_HEAD_BUF_SIZE
    <3>1. fs > Clusters(limit)
      BY <2>3, <2>5 DEF Loadable
    <3>2. Clusters(limit) = ((limit + w - 1) \div w) * w
      BY HeldFacts DEF Clusters
    <3>3. j * w <= Clusters(limit)
      <4>1. ((j - 1) + 1) * w <= ((limit + w - 1) \div w) * w
        <5> HIDE DEF limit
        <5> QED
          BY <1>2, <1>6, <1>7, WholeUp
      <4>2. (j - 1) + 1 = j
        BY <1>2
      <4> QED
        BY <3>2, <4>1, <4>2
    <3>4. Clusters(limit) \in Nat
      <4>1. limit + w - 1 \in Nat
        BY <1>2, <1>6
      <4>2. (limit + w - 1) \div w \in Nat
        BY <1>2, <4>1, DivMod
      <4> QED
        BY <1>2, <3>2, <4>2
    <3>5. j * w < fs
      <4> HIDE DEF fs, w
      <4> QED
        BY <1>2, <1>5, <3>1, <3>3, <3>4
    <3>6. io.count < fs
      <4> HIDE DEF start, fs
      <4>1. io.count <= start + w
        BY <1>1, <1>2, <1>3, <1>7
      <4> QED
        BY <1>2, <1>3, <1>5, <3>5, <4>1
    <3>7. j # len
      <4> SUFFICES ASSUME j = len PROVE FALSE
        OBVIOUS
      <4>1. fs <= j * w
        BY <1>4
      <4> QED
        BY <1>2, <1>5, <3>5, <4>1
    <3>8. Complete(NextCluster) = TRUE
      BY <1>1, <1>2, <2>2, <3>6, <3>7
    <3> QED
      BY <2>1, <3>8 DEF Returned
  <2> QED
    BY <2>4, <2>5
<1>10. io.count > 0 /\ fs > 0 /\ fs <= Len(s)
  <2>1. fs > 0 /\ fs <= Len(s)
    BY <1>2, <1>4, <1>5, <1>8
  <2>a. start \in Nat
    BY <1>3
  <2>b. io.i = w \/ io.count >= fs
    BY <1>1
  <2> HIDE DEF w, start, fs, s
  <2>2. io.count > 0
    BY ONLY <1>2, <1>7, <2>1, <2>a, <2>b
  <2> QED
    BY <2>1, <2>2
<1>11. buf' # <<>> /\ buf'[1] = Holds.sectors[1]
  <2>1. io.count \in Nat /\ fs \in Nat /\ io.count <= Len(s) /\ Len(s) \in Nat
    BY <1>2, <1>5, <1>7, <1>8, <1>10
  <2> HIDE DEF s, fs
  <2>2. Len(SubSeq(s, 1, io.count)) = io.count /\ SubSeq(s, 1, io.count)[1] = s[1]
    BY <1>8, <1>10, <2>1, SubSeqProperties
  <2>3. SubSeq(s, 1, fs)[1] = s[1]
    BY <1>8, <1>10, <2>1, SubSeqProperties
  <2>4. SubSeq(s, 1, io.count) # <<>>
    BY <1>10, <2>1, <2>2
  <2> QED
    BY <1>4, <1>8, <2>2, <2>3, <2>4
<1> QED
  BY <1>9, <1>11 DEF FirstOf

-------------------------------------------------------------------------------
(* Loader: every step *)

\* The bytes of a file whose sectors fit in the image are no more than it.
LEMMA ImageHolds ==
  ASSUME NEW bytes \in Nat, NEW room \in Nat, SectorsOf(bytes) <= room \div SECTOR_SIZE
  PROVE  room >= bytes
<1>1. SectorsOf(bytes) \in Nat /\ SectorsOf(bytes) * SECTOR_SIZE >= bytes
  BY SectorsHold
<1>2. SectorsOf(bytes) * SECTOR_SIZE <= room
  BY <1>1, SectorsFit
<1>3. SectorsOf(bytes) * SECTOR_SIZE \in Nat
  BY <1>1, LoaderAssumption
<1> QED
  BY <1>1, <1>2, <1>3

\* A step of a call: the search, then the header, then the room.
LEMMA FileInvCall ==
  ASSUME DisksTyped, DisksRegular, LoaderType, CallInv, BoundsInv, FileInv, Fat32Step,
         UNCHANGED <<loader, at, header, size, loaded>>
  PROVE  FileInv'
<1>0. disk' = disk /\ volume' = volume /\ io' \in Calls
  BY Fat32StepType
<1>1. /\ Holds' = Holds /\ Path' = Path /\ (Loadable' <=> Loadable) /\ (Held' <=> Held)
  BY <1>0, HeldSame
<1>2. CASE io.op = "search"
  <2>1. at = "opening" /\ at # "mbr" /\ Seeking
    BY <1>2 DEF CallInv, FileInv, AtOpening
  <2>2. Found \/ SearchSector \/ SearchCluster
    BY <1>2 DEF Fat32Step, ReadSector, ReadCluster, Transferring
  <2>3. AtOpening'
    <3>1. CASE Found
      BY <1>0, <2>1, <3>1, SeekFinds, StepCall DEF AtOpening
    <3>2. CASE SearchSector
      BY <2>1, <3>2, SeekGoesOn DEF AtOpening
    <3>3. CASE SearchCluster
      BY <1>1, <2>1, <3>3, SeekMoves DEF AtOpening
    <3> QED
      BY <2>2, <3>1, <3>2, <3>3
  <2> QED
    BY <2>1, <2>3 DEF FileInv
<1>3. CASE io.op \in {"read", "load"}
  <2>1. at # "mbr" /\ (io.op = "read" => at = "header") /\ (io.op = "load" => at = "loading")
    BY <1>3 DEF CallInv
  <2>2. ReadSector \/ ReadCluster
    BY <1>3 DEF Fat32Step, Found, SearchSector, SearchCluster, Searching
  <2>3. UNCHANGED file
    BY <2>2 DEF ReadSector, ReadCluster
  <2>4. CASE io.op = "read"
    <3>1. Located /\ Reading
      BY <2>1, <2>4 DEF FileInv, AtHeader
    <3>2. Located'
      BY <1>0, <2>3, <3>1, LocatedStays
    <3>3. AtHeader'
      <4>1. CASE ReadSector
        <5>1. io'.op = "read" /\ Reading'
          BY <2>1, <2>4, <3>1, <4>1, ReadGoesOn
        <5> QED
          BY <3>2, <5>1 DEF AtHeader
      <4>2. CASE ReadCluster /\ io'.op # "idle"
        <5>1. io'.op = "read" /\ Reading'
          BY <2>1, <2>4, <3>1, <4>2, ReadMoves
        <5> QED
          BY <3>2, <5>1 DEF AtHeader
      <4>3. CASE ReadCluster /\ io'.op = "idle"
        <5>1. Loadable => io'.ok /\ FirstOf(buf')
          BY <2>1, <2>4, <3>1, <4>3, ReadEnds
        <5>2. FirstOf(buf)' <=> FirstOf(buf')
          BY <1>1 DEF FirstOf
        <5> QED
          BY <1>1, <3>2, <4>3, <5>1, <5>2 DEF AtHeader
      <4> QED
        BY <2>2, <4>1, <4>2, <4>3
    <3> QED
      BY <2>1, <2>4, <3>3 DEF FileInv
  <2>5. CASE io.op = "load"
    <3> SUFFICES ASSUME Held PROVE AtLoading'
      BY <1>1, <2>1, <2>5 DEF FileInv
    <3>1. Located /\ Reading
      BY <2>1, <2>5 DEF FileInv, AtLoading
    <3>2. Located'
      BY <1>0, <2>3, <3>1, LocatedStays
    <3>3. SectorsOf(file'.size) <= size' \div SECTOR_SIZE
      BY <2>3, <2>5 DEF BoundsInv, CallInv
    <3>4. CASE ReadSector
      <4>1. io'.op = "load" /\ Reading'
        BY <2>1, <2>5, <3>1, <3>4, ReadGoesOn
      <4> QED
        BY <3>2, <4>1 DEF AtLoading
    <3>5. CASE ReadCluster /\ io'.op # "idle"
      <4>1. io'.op = "load" /\ Reading'
        BY <2>1, <2>5, <3>1, <3>5, ReadMoves
      <4> QED
        BY <3>2, <4>1 DEF AtLoading
    <3>6. CASE ReadCluster /\ io'.op = "idle"
      <4>1. (io'.ok => buf' = Holds.sectors) /\ (Loadable => io'.ok)
        BY <2>1, <2>5, <3>1, <3>6, LoadEnds
      <4> QED
        BY <1>1, <3>2, <3>3, <3>6, <4>1 DEF AtLoading
    <3> QED
      BY <2>2, <3>4, <3>5, <3>6
  <2> QED
    BY <1>3, <2>4, <2>5
<1>4. CASE io.op = "idle"
  BY <1>4 DEF Fat32Step, Found, SearchSector, SearchCluster, Searching, ReadSector, ReadCluster, Transferring
<1> QED
  BY <1>2, <1>3, <1>4 DEF LoaderType, Calls

\* A step of the loader itself.
LEMMA FileInvKept ==
  ASSUME DisksTyped, DisksRegular, LoaderType, CallInv, BoundsInv, FileInv, [Next]_vars
  PROVE  FileInv'
<1>0. io \in Calls /\ io.ok \in BOOLEAN
  BY DEF LoaderType, Calls
<1>1. CASE ReadMbr
  BY <1>1 DEF ReadMbr, FileInv
<1>2. CASE Open
  <2>1. at' = "opening" /\ at = "open" /\ open_file(Path) /\ loader' = loader
    BY <1>2 DEF Open
  <2>2. io'.op = "search" /\ Seeking'
    BY <2>1, SeekStarts
  <2> QED
    BY <2>1, <2>2 DEF FileInv, AtOpening
<1>3. CASE ReadHeader
  <2>0. at = "opening" /\ io.op = "idle" /\ loader' = loader /\ AtOpening
    BY <1>3 DEF ReadHeader, FileInv
  <2>1. CASE io.ok
    <3>1. StartTransfer("read", PE_HEAD_BUF_SIZE) /\ at' = "header"
      BY <1>3, <2>1 DEF ReadHeader, read_file
    <3>2. Located
      BY <2>0, <2>1 DEF AtOpening
    <3>3. io'.op = "read" /\ Located' /\ Reading'
      BY <2>0, <3>1, <3>2, ReadStarts, LoaderAssumption
    <3> QED
      BY <3>1, <3>3 DEF FileInv, AtHeader
  <2>2. CASE ~io.ok
    <3>1. Holds.sectors = <<>>
      BY <2>0, <2>2 DEF AtOpening
    <3>2. UNCHANGED <<disk, loader>> /\ at' = (IF loader = "BootLoader" THEN "stop" ELSE "size")
      BY <1>3, <2>2 DEF ReadHeader, OpenFailed
    <3>3. ~Loadable /\ ~Loadable' /\ (Held' <=> Held)
      BY <3>1, <3>2, HeldSame DEF Loadable
    <3>4. loader = "BootLoader" \/ ~Held'
      BY <3>3 DEF Held
    <3> QED
      BY <3>2, <3>3, <3>4 DEF FileInv
  <2> QED
    BY <2>1, <2>2
<1>4. CASE HeaderRead
  <2>0. /\ at = "header" /\ io.op = "idle" /\ AtHeader /\ header' = buf
        /\ UNCHANGED <<disk, volume, file, loader>>
    BY <1>4 DEF HeaderRead, FileInv
  <2>1. Holds' = Holds /\ (Loadable' <=> Loadable) /\ (Held' <=> Held) /\ Located'
    BY <2>0, HeldSame, LocatedStays DEF AtHeader
  <2>2. CASE io.ok
    <3>1. at' = "size"
      BY <1>4, <2>2 DEF HeaderRead
    <3>2. Loadable => FirstOf(header')
      BY <2>0 DEF AtHeader
    <3>3. FirstOf(header)' <=> FirstOf(header')
      BY <2>1 DEF FirstOf
    <3> QED
      BY <2>1, <3>1, <3>2, <3>3 DEF FileInv
  <2>3. CASE ~io.ok
    <3>1. at' = (IF loader = "BootLoader" THEN "stop" ELSE "size")
      BY <1>4, <2>3 DEF HeaderRead, OpenFailed
    <3>2. ~Loadable /\ ~Loadable'
      BY <2>0, <2>1, <2>3 DEF AtHeader
    <3> QED
      BY <2>1, <3>1, <3>2 DEF FileInv
  <2> QED
    BY <2>2, <2>3
<1>5. CASE image_size
  <2>0. at = "size" /\ at' = "load" /\ UNCHANGED <<disk, volume, file, loader>>
    BY <1>5 DEF image_size
  <2>1. Holds' = Holds /\ (Loadable' <=> Loadable) /\ (Held' <=> Held)
    BY <2>0, HeldSame
  <2> SUFFICES ASSUME Held PROVE Located' /\ (Loadable => size' = Holds.image)
    BY <2>0, <2>1 DEF FileInv
  <2>2. Located /\ (Loadable => FirstOf(header))
    BY <2>0 DEF FileInv
  <2>3. Located'
    BY <2>0, <2>2, LocatedStays
  <2>4. ASSUME Loadable PROVE size' = Holds.image
    <3>1. header # <<>> /\ header[1] = Holds.sectors[1] /\ Holds.sectors # <<>>
      BY <2>2, <2>4 DEF FirstOf, Loadable
    <3>2. Sector(disk, header[1]).kind = "pe" /\ Sector(disk, header[1]).SizeOfImage = Holds.image
      BY <2>0, <3>1, HeldFile
    <3> QED
      BY <1>5, <3>1, <3>2 DEF image_size
  <2> QED
    BY <2>3, <2>4
<1>6. CASE Load
  <2>0. at = "load" /\ at' = "loading" /\ UNCHANGED <<disk, volume, file, loader, size>>
    BY <1>6 DEF Load, load_file, StartTransfer
  <2>1. Holds' = Holds /\ (Loadable' <=> Loadable) /\ (Held' <=> Held)
    BY <2>0, HeldSame
  <2> SUFFICES ASSUME Held PROVE AtLoading'
    BY <2>0, <2>1 DEF FileInv
  <2>2. Located /\ (Loadable => size = Holds.image)
    BY <2>0 DEF FileInv
  <2>3. CASE size \div SECTOR_SIZE < SectorsOf(file.size)
    <3>1. io' = Returned(FALSE)
      BY <1>6, <2>3 DEF Load, load_file
    <3>2. io'.op = "idle" /\ ~io'.ok
      BY <3>1 DEF Returned
    <3>3. Located'
      BY <2>0, <2>2, LocatedStays
    <3>4. ~Loadable
      <4>1. SectorsOf(file.size) \in Nat /\ size \div SECTOR_SIZE \in Nat /\ file.size = Holds.size
        BY <2>2, SectorsHold, DivMod, LoaderAssumption DEF LoaderType, Located
      <4> QED
        BY <2>2, <2>3, <4>1 DEF Loadable
    <3> QED
      BY <2>1, <3>2, <3>3, <3>4 DEF AtLoading
  <2>4. CASE ~(size \div SECTOR_SIZE < SectorsOf(file.size))
    <3>1. StartTransfer("load", size) /\ size \in Nat
      BY <1>6, <2>4 DEF Load, load_file, LoaderType
    <3>2. io'.op = "load" /\ Located' /\ Reading'
      BY <2>0, <2>2, <3>1, ReadStarts
    <3> QED
      BY <3>2 DEF AtLoading
  <2> QED
    BY <2>3, <2>4
<1>7. CASE LoadReturns
  <2>0. /\ at = "loading" /\ io.op = "idle" /\ loaded' = io.ok
        /\ at' = (IF io.ok \/ loader = "OsLoader" THEN "jump" ELSE "stop")
        /\ UNCHANGED <<disk, volume, file, buf, loader, size>>
    BY <1>7 DEF LoadReturns
  <2>1. Holds' = Holds /\ (Loadable' <=> Loadable) /\ (Held' <=> Held)
    BY <2>0, HeldSame
  <2>2. ASSUME Held PROVE AtLoading /\ Located'
    BY <2>0, <2>2, LocatedStays DEF FileInv, AtLoading
  <2>3. ASSUME io.ok, Held PROVE buf' = Holds.sectors /\ size' >= Holds.size /\ loaded'
    <3>1. buf = Holds.sectors /\ SectorsOf(file.size) <= size \div SECTOR_SIZE /\ file.size = Holds.size
      BY <2>0, <2>2, <2>3 DEF AtLoading, Located
    <3>2. size >= file.size
      BY <3>1, ImageHolds DEF LoaderType
    <3> QED
      BY <2>0, <2>3, <3>1, <3>2
  <2>4. CASE io.ok
    BY <2>0, <2>1, <2>2, <2>3, <2>4 DEF FileInv
  <2>5. CASE ~io.ok
    <3>1. Held => ~Loadable
      BY <2>0, <2>2, <2>5 DEF AtLoading
    <3>2. ~Loadable
      BY <3>1 DEF Held
    <3>3. loader = "OsLoader" => ~Held
      BY <3>2 DEF Held
    <3> QED
      BY <2>0, <2>1, <2>5, <3>2, <3>3 DEF FileInv, LoaderType
  <2> QED
    BY <2>4, <2>5
<1>8. CASE StartOsLoader
  BY <1>8 DEF StartOsLoader, FileInv
<1>9. CASE Fat32Step /\ UNCHANGED <<loader, at, header, size, loaded>>
  BY <1>9, FileInvCall
<1>10. CASE UNCHANGED vars
  <2>0. UNCHANGED <<disk, volume, file, io, buf, loader, at, header, size, loaded>>
    BY <1>10 DEF vars
  <2>1. Holds' = Holds /\ Path' = Path /\ (Loadable' <=> Loadable) /\ (Held' <=> Held)
    BY <2>0, HeldSame
  <2>2. (Located' <=> Located) /\ (Seeking' <=> Seeking) /\ (Reading' <=> Reading)
    <3>1. Located' <=> Located
      BY <2>0, <2>1 DEF Located, WholeFile
    <3>2. Seeking' <=> Seeking
      BY <2>0, <2>1 DEF Seeking, SeekingAt
    <3>3. Reading' <=> Reading
      BY <2>0, <2>1 DEF Reading, ReadingAt, Limit
    <3> QED
      BY <3>1, <3>2, <3>3
  <2>3. (AtOpening' <=> AtOpening) /\ (AtHeader' <=> AtHeader) /\ (AtLoading' <=> AtLoading)
        /\ (FirstOf(header)' <=> FirstOf(header))
    BY <2>0, <2>1, <2>2 DEF AtOpening, AtHeader, AtLoading, FirstOf
  <2> QED
    BY <2>0, <2>1, <2>2, <2>3 DEF FileInv
<1> QED
  BY <1>1, <1>2, <1>3, <1>4, <1>5, <1>6, <1>7, <1>8, <1>9, <1>10 DEF Next, Work, Done

LEMMA FileInvJumps == LoaderType /\ FileInv => JumpsToWholeImage
<1> SUFFICES ASSUME LoaderType, FileInv PROVE JumpsToWholeImage
  OBVIOUS
<1>1. at = "jump" /\ (loader = "BootLoader" \/ Loadable) =>
        buf = Holds.sectors /\ size >= Holds.size /\ loaded
  BY DEF FileInv, Held
<1>2. Loadable => at # "stop" /\ (at \in {"header", "size", "load", "loading"} => file.size = Holds.size)
  BY DEF FileInv, Held, AtHeader, AtLoading, Located
<1> QED
  BY <1>1, <1>2 DEF JumpsToWholeImage

\* A loader that jumps has the whole of its file in order, and no loader gives up
\* on a file that could be loaded, on every disk whose chains and directories are
\* what was written.
THEOREM WholeImageJumps == DisksTyped /\ DisksRegular => (Spec => []JumpsToWholeImage)
<1> SUFFICES ASSUME DisksTyped, DisksRegular PROVE Spec => []JumpsToWholeImage
  OBVIOUS
<1>1. Init => LoaderType /\ CallInv /\ BoundsInv /\ FileInv
  BY LoaderInit DEF Init, FileInv
<1>2. LoaderType /\ CallInv /\ BoundsInv /\ FileInv /\ [Next]_vars
        => (LoaderType /\ CallInv /\ BoundsInv /\ FileInv)'
  BY LoaderTypeKept, CallInvKept, BoundsInvKept, FileInvKept
<1> QED
  BY <1>1, <1>2, FileInvJumps, PTL DEF Spec


===============================================================================
