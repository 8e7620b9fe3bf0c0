------------------------------- MODULE ImageTools -------------------------------
(***************************************************************************)
(* The host programs that put the system on a virtual disk, CreateImage    *)
(* (boot sector, BootLoader, then two files) and VhdCopy (one file, to the *)
(* disk or, as tool VhdCopyFrom, from it), the class VirtualDisk they      *)
(* share, and the boot sector that later reads what was written.           *)
(*                                                                         *)
(* Around them: Windows gives an attached disk a drive letter some time    *)
(* after AttachVirtualDisk has returned, other drives come and go, a       *)
(* program may be killed at any step and is then started again.  An error  *)
(* shown in a message box stays there until somebody clicks, if ever.      *)
(***************************************************************************)
EXTENDS Integers, FiniteSets, FiniteSetsExt

CONSTANTS
  Letters,       \* drive letters, in order
  Target,        \* the letter in CreateImage's argv[5] and argv[7]
  Retries,       \* polls of Attach before it gives up (50)
  Buffer,        \* sectors of the buffer for BootLoader (128)
  MaxTransfer,   \* sectors one BIOS call reads (127)
  LoaderSizes,   \* sectors of BootLoader in some build
  Runs, Changes  \* bounds: programs started, drives that come or go
ASSUME ImageAssumption ==
  /\ Letters \subseteq Nat \ {0} /\ Target \in Letters
  /\ IsFiniteSet(Letters)
  /\ {Retries, MaxTransfer, Runs, Changes} \subseteq Nat /\ Buffer \in Nat \ {0} /\ LoaderSizes \subseteq Nat \ {0}

VARIABLES
  attached, letter,    \* the disk is attached; the letter of its volume (0: none yet)
  others,              \* the letters of other drives
  boot, sectors,       \* the disk's first sector; builds in the sectors behind it
  files,               \* the two files of the volume: the run that wrote them, whole or cut
  foreign,             \* another drive was written to, or read in place of the disk
  pc, tool, run,       \* the program that runs and how many have
  length, written,     \* CreateImage: sectors of BootLoader, sectors written
  before, retries, name,  \* VirtualDisk: drives before, polls, m_AttachedVolumeName
  copy, tails,         \* the file to copy, files with data left in stdio's buffers
  done,                \* how the last program ended: main returned, exit, killed
  disturbed, torn,     \* history: a drive came or went while Attach polled; a write was cut off
  changes, entered     \* budget of changes; what the boot sector jumped to: a build of
                       \* BootLoader, a mixture, whatever memory held

mounted == <<attached, letter>>
image == <<boot, sectors, files>>
progress == <<length, written, before, retries, name, copy, tails>>
imageVars == <<mounted, others, image, foreign, pc, tool, run, progress, done, disturbed, torn, changes, entered>>

ImageInit ==
  /\ attached \in BOOLEAN /\ letter = 0
  /\ others \in SUBSET Letters
  /\ boot = [build |-> 0, sectors |-> 1]
  /\ sectors = [i \in 1 .. Buffer |-> 0]
  /\ files = [f \in {1, 2} |-> [run |-> 0, state |-> "whole"]]
  /\ foreign = FALSE
  /\ pc = "idle" /\ tool = "VhdCopy" /\ run = 0
  /\ length = 0 /\ written = 0 /\ before = {} /\ retries = 0 /\ name = 0 /\ copy = 1 /\ tails = {}
  /\ done = "returned" /\ disturbed = FALSE /\ torn = FALSE /\ changes = Changes /\ entered = "nothing"

Drives == others \cup ({letter} \ {0})

-------------------------------------------------------------------------------
(* Windows *)

\* The volume of the attached disk gets a letter.
Arrive ==
  /\ attached /\ letter = 0
  /\ letter' \in Letters \ others
  /\ UNCHANGED <<attached, others, image, foreign, pc, tool, run, progress, done, disturbed, torn, changes, entered>>

\* Another drive comes or goes.
Change ==
  /\ changes > 0 /\ changes' = changes - 1
  /\ \E l \in Letters \ {letter} : others' = IF l \in others THEN others \ {l} ELSE others \cup {l}
  /\ disturbed' = (disturbed \/ pc \in {"plug", "poll"})
  /\ UNCHANGED <<mounted, image, foreign, pc, tool, run, progress, done, torn, entered>>

\* DetachVirtualDisk; it may be refused while the volume is in use.
Detached == attached' = FALSE /\ letter' = 0
DetachVolume == Detached \/ (letter # 0 /\ UNCHANGED mounted)

-------------------------------------------------------------------------------
(* The programs *)

Start ==
  /\ pc = "idle" /\ entered = "nothing" /\ run < Runs /\ run' = run + 1
  /\ tool' \in {"CreateImage", "VhdCopy", "VhdCopyFrom"} /\ pc' = "open"
  /\ written' = 0 /\ retries' = 0 /\ name' = 0 /\ copy' = 1 /\ tails' = {} /\ before' = {} /\ foreign' = FALSE
  /\ done' = "running" /\ disturbed' = FALSE
  /\ UNCHANGED <<mounted, others, image, length, torn, changes, entered>>

Step(from, to) ==
  /\ pc = from /\ pc' = to
  /\ UNCHANGED <<others, tool, run, changes, entered, disturbed>>

\* stdio writes what its buffers still hold, if the volume is still there.
Flushed == [f \in {1, 2} |->
  IF f \in tails /\ attached THEN [run |-> run, state |-> "whole"] ELSE files[f]]

\* exit_error reports the error first: CreateImage in a message box, VhdCopy in
\* one, with -g, or on the console.
exit_error(from) ==
  /\ Step(from, "box") \/ (tool # "CreateImage" /\ Step(from, "exit"))
  /\ UNCHANGED <<mounted, image, foreign, progress, done, torn>>

\* The user answers the box.
Click ==
  /\ Step("box", "exit")
  /\ UNCHANGED <<mounted, image, foreign, progress, done, torn>>

\* exit(GetLastError()), which may be 0: stdio's buffers are flushed, and no local
\* object is destroyed.
Exit ==
  /\ Step("exit", "idle") /\ done' = "exit"
  /\ files' = Flushed
  /\ UNCHANGED <<mounted, boot, sectors, foreign, progress, torn>>

OpenDisk ==
  /\ Step("open", IF tool = "CreateImage" /\ written = 0 THEN "detach" ELSE "attach")
  /\ UNCHANGED <<mounted, image, foreign, progress, done, torn>>

Detach ==
  /\ Step("detach", "fopen") /\ DetachVolume
  /\ UNCHANGED <<image, foreign, progress, done, torn>>

\* load_file of the boot sector and BootLoader; the file of an attached disk is locked.
LoadFiles ==
  /\ ~attached /\ Step("fopen", "write")
  /\ length' \in {s \in LoaderSizes : s <= Buffer}
  /\ UNCHANGED <<mounted, image, foreign, written, before, retries, name, copy, tails, done, torn>>

\* Mutant: the boot sector keeps the count it was assembled with.
Write_count ==
  /\ IF written < length THEN Step("write", "write") ELSE Step("write", "open")
  /\ boot' = IF written = 0 THEN [build |-> run, sectors |-> MaxTransfer] ELSE boot
  /\ sectors' = [i \in 1 .. Buffer |-> IF written > 0 /\ i = written THEN run ELSE sectors[i]]
  /\ written' = written + 1 /\ torn' = (written < length)
  /\ UNCHANGED <<mounted, files, foreign, length, before, retries, name, copy, tails, done>>

\* fwrite and fclose: first the boot sector with the size of BootLoader, then
\* BootLoader, in order.
Write ==
  /\ IF written < length THEN Step("write", "write") ELSE Step("write", "open")
  /\ boot' = IF written = 0 THEN [build |-> run, sectors |-> length] ELSE boot
  /\ sectors' = [i \in 1 .. Buffer |-> IF written > 0 /\ i = written THEN run ELSE sectors[i]]
  /\ written' = written + 1 /\ torn' = (written < length)
  /\ UNCHANGED <<mounted, files, foreign, length, before, retries, name, copy, tails, done>>

\* VirtualDisk::Attach, one Windows call at a time.
AttachDetaches ==
  /\ Step("attach", "enum") /\ DetachVolume
  /\ UNCHANGED <<image, foreign, progress, done, torn>>

EnumBefore ==
  /\ Step("enum", "plug") /\ before' = Drives
  /\ UNCHANGED <<mounted, image, foreign, length, written, retries, name, copy, tails, done, torn>>

AttachVirtualDisk ==
  /\ ~attached /\ attached' = TRUE /\ letter' = 0 /\ Step("plug", "poll")
  /\ UNCHANGED <<image, foreign, progress, done, torn>>

\* The first letter at which the two lists of drives differ.
FirstDifferent(old, new) ==
  LET Rank(S, l) == Cardinality({k \in S : k < l}) IN
  Min({l \in new : l \notin old \/ Rank(old, l) # Rank(new, l)})

\* Mutant: the last drive is taken for the new one.
Poll_last ==
  /\ Cardinality(Drives) > Cardinality(before)
  /\ Step("poll", "copy") /\ name' = Max(Drives)
  /\ UNCHANGED <<mounted, image, foreign, length, written, before, retries, copy, tails, done, torn>>

\* The drives are listed again: there is one more.
Poll ==
  /\ Cardinality(Drives) > Cardinality(before)
  /\ Step("poll", "copy") /\ name' = FirstDifferent(before, Drives)
  /\ UNCHANGED <<mounted, image, foreign, length, written, before, retries, copy, tails, done, torn>>

\* Mutant: the polls are not counted.
Retry_forever ==
  /\ Cardinality(Drives) <= Cardinality(before)
  /\ Step("poll", "poll") /\ retries' = retries
  /\ UNCHANGED <<mounted, image, foreign, length, written, before, name, copy, tails, done, torn>>

Retry ==
  /\ Cardinality(Drives) <= Cardinality(before) /\ retries < Retries
  /\ Step("poll", "poll") /\ retries' = retries + 1
  /\ UNCHANGED <<mounted, image, foreign, length, written, before, name, copy, tails, done, torn>>

GiveUp == Cardinality(Drives) <= Cardinality(before) /\ retries = Retries /\ exit_error("poll")

To == IF tool = "CreateImage" THEN Target ELSE name

\* copy_file and CopyFile open the target and empty it.
OpenTarget ==
  /\ tool # "VhdCopyFrom" /\ To \in Drives /\ Step("copy", "copying")
  /\ files' = IF To = letter THEN [files EXCEPT ![copy] = [run |-> run, state |-> "cut"]] ELSE files
  /\ foreign' = (foreign \/ To # letter)
  /\ UNCHANGED <<mounted, boot, sectors, progress, done, torn>>

\* CopyFile from the disk: what it writes lies elsewhere.
OpenSource ==
  /\ tool = "VhdCopyFrom" /\ name \in Drives /\ Step("copy", "copying")
  /\ foreign' = (foreign \/ name # letter)
  /\ UNCHANGED <<mounted, image, progress, done, torn>>

\* The target the program has open is a file of the disk.
Opened == files[copy].run = run

\* Everything is written; copy_file leaves the file open and what does not fill
\* a buffer of stdio unwritten, CopyFile does not.
Copied ==
  /\ Step("copying", IF tool = "CreateImage" /\ copy = 1 THEN "copy" ELSE "return")
  /\ copy' = IF tool = "CreateImage" /\ copy = 1 THEN 2 ELSE copy
  /\ tails' \in IF tool = "CreateImage" /\ Opened THEN {tails, tails \cup {copy}} ELSE {tails}
  /\ files' = IF Opened /\ copy \notin tails' THEN [files EXCEPT ![copy].state = "whole"] ELSE files
  /\ UNCHANGED <<mounted, boot, sectors, foreign, length, written, before, retries, name, done, torn>>

\* return from main: ~VirtualDisk detaches the disk, then stdio is flushed.
Destroy ==
  /\ Step("return", "flush") /\ DetachVolume
  /\ UNCHANGED <<image, foreign, progress, done, torn>>

\* Mutant: the program ends without flushing.
Flush_none ==
  /\ Step("flush", "idle") /\ done' = "returned"
  /\ UNCHANGED <<mounted, image, foreign, progress, torn>>
Flush ==
  /\ Step("flush", "idle") /\ done' = "returned"
  /\ files' = Flushed
  /\ UNCHANGED <<mounted, boot, sectors, foreign, progress, torn>>

\* A Windows call fails: the file is missing or locked, the drive is not there.
Fail ==
  \/ exit_error("open") \/ exit_error("fopen") \/ exit_error("plug")
  \/ exit_error("copy") \/ exit_error("copying")

\* The program is killed; the disk was attached for good.
Kill ==
  /\ pc # "idle" /\ Step(pc, "idle") /\ done' = "killed"
  /\ UNCHANGED <<mounted, image, foreign, progress, torn>>

-------------------------------------------------------------------------------
(* The boot sector *)

\* boot.asm reads BootLoader with one BIOS call, which takes so many sectors only
\* and may fail for any other reason, and jumps to it; after a failure as well,
\* once the next interrupt has ended its halt.
Boot ==
  /\ pc = "idle" /\ ~attached /\ entered = "nothing"
  /\ \/ /\ boot.sectors <= MaxTransfer
        /\ entered' = IF \A i \in 1 .. boot.sectors : sectors[i] = boot.build THEN "loader" ELSE "mixed"
     \/ entered' = "memory"
  /\ UNCHANGED <<mounted, others, image, foreign, pc, tool, run, progress, done, disturbed, torn, changes>>

PowerOff ==
  /\ entered # "nothing" /\ entered' = "nothing"
  /\ UNCHANGED <<mounted, others, image, foreign, pc, tool, run, progress, done, disturbed, torn, changes>>

Program ==
  \/ OpenDisk \/ Detach \/ LoadFiles \/ Write
  \/ AttachDetaches \/ EnumBefore \/ AttachVirtualDisk \/ Poll \/ Retry \/ GiveUp
  \/ OpenTarget \/ OpenSource \/ Copied \/ Destroy \/ Flush \/ Fail \/ Exit

ImageNext == Start \/ Program \/ Click \/ Kill \/ Arrive \/ Change \/ Boot \/ PowerOff

\* A program that has been started gets on; nobody has to click.
ImageSpec == ImageInit /\ [][ImageNext]_imageVars /\ WF_imageVars(Program)
-------------------------------------------------------------------------------
(* Properties *)

\* A CreateImage that gets through its write leaves a boot sector that counts and
\* enters one whole build of BootLoader, whatever writes were cut off before, and
\* however long those builds were.  A write that is cut off (torn) leaves a disk
\* that boots into a mixture until the next one: the new build up to the cut, and
\* behind it older ones, never a newer one than the boot sector's.
WriteHeals ==
  /\ ~torn => \A i \in 1 .. boot.sectors : sectors[i] = boot.build
  /\ entered = "mixed" => torn
  /\ \A i \in 1 .. Buffer : sectors[i] <= boot.build
  /\ \A i, j \in 1 .. Buffer : i <= j => sectors[j] <= sectors[i]

\* The letter Attach returns is that of the disk it has attached, unless another
\* drive came or went while it waited; only then does VhdCopy write to another
\* drive, or read from it.
NameIsOurs ==
  /\ pc \in {"copy", "copying"} /\ ~disturbed => name = letter
  /\ foreign /\ tool # "CreateImage" => disturbed

\* A program that returns from main has left the files it copied to the disk
\* whole - except for what copy_file's streams still held when ~VirtualDisk
\* detached the disk under them, which CreateImage does before they are flushed.
\* Nothing is said of a program that ends in exit_error, whatever its status.
FilesWhole ==
  \A f \in {1, 2} : done = "returned" /\ run > 0 /\ files[f].run = run /\ files[f].state = "cut" =>
    tool = "CreateImage" /\ f \in tails /\ ~attached

\* Every program ends or shows a message box, though the volume's letter may
\* never come (Attach); once the box is answered, it ends.
ProgramEnds == pc \notin {"idle", "box"} ~> pc \in {"idle", "box"}

===============================================================================
