# Formal models of ShellcodeOS

ShellcodeOS is a small 32-bit x86 operating system written for MSVC: a BIOS boot
sector, two loaders, a kernel that sets up paging, interrupts, timers and a
keyboard and then idles, a small C library it shares with its loaders, and a few
Windows tools that build disk images.  This directory holds TLA+ models of its
core logic, the TLC configurations that check them and TLAPS proofs about them.
`PROJECT.json` maps every definition to source lines.

## 1. Inventory of the system

### Boot chain
| part | code | state and operations | what makes it correct |
|---|---|---|---|
| boot sector | `BootLoader/boot.asm` | reads its own sectors with int 13h, opens A20, `cli`, protected mode, `boot_loader_main` | a read error should stop the machine; the code's `hlt` ends with the next interrupt, and it jumps to what was not read |
| first loader | `BootLoader/main.cpp` | opens and loads `\boot\osldr.exe`; hangs on failure | never jumps to an image that was not loaded |
| second loader | `OsLoader/main.cpp`, `OsLoader/mmu.h` | turns paging on, loads `\os\scos.exe` at 0x80000000 | same, but it ignores both results |
| kernel entry | `OS/main.cpp` | C++ constructors, memory map, `System.Init`, switch to the system stack, `_enable`, `panic("")` | interrupts are enabled only when every table they need exists |

### Memory
| part | code | state | operations |
|---|---|---|---|
| physical frames (PAGER) | `OS/mem/paging.cpp` | database of frame kinds, cursor, boot-time bump pointer | boot allocation, E820 scan, alloc/free of one or several frames |
| page tables (PAGER) | same | page directory, page tables through the self-map, TLB | `map_pages`, `unmap_pages`, `new_page_table` |
| kernel address space (MMU) | `OS/mem/mmu.h` | one byte per 4K block, cursor | alloc, free, reserve of space; alloc and free of memory |
| system set-up | `OS/system.cpp` | system stack with guard pages, reserved windows | `init_kernel_mmu`, `alloc_stack` |
| heap | `libc/liballoc.c`, hooks in `OS/mem/mmu.cpp` | free lists by power of two, boundary tags | malloc, free, calloc, realloc |

### Interrupts and devices
| part | code | state | operations |
|---|---|---|---|
| interrupt controllers | `OS/irq/8259.cpp`, `OS/irq/int_handler.cpp` | mask registers, handler tables, ISR/IRR bits of the chips, IF | Init, register, enable, disable, dispatch + EOI |
| CPU traps | `OS/irq/trap.cpp` | handler table | dispatch, register, page-fault handler |
| PIT and its timers | `OS/timer/8253.cpp` | 100 timer slots, tick count | IRQ handler, `set_timer`, `kill_timer` |
| real-time clock | `OS/timer/rtc.cpp` | CMOS registers B, C | Init, IRQ handler |
| keyboard | `OS/Keyboard.cpp` | 8042 output buffer | IRQ handler (drain), decode |
| console | `libc/vga.cpp` | CRTC index register, cursor, screen | putc, gotoxy, scroll, setchar |
| descriptor tables | `OS/arch/gdt.cpp`, `idt.cpp`, `tss.cpp` | tables | find a free slot, set, load |
| locks | `OS/lock.h` | lock word | spin lock, ticket lock, mutex |
| PCI, ACPI, BIOS calls | `OS/pci/pci.cpp`, `OS/acpi.cpp`, `OS/callbios.asm`, `OS/bios.h` | - | bus scan, table parsing, real-mode calls |

### Shared library and host tools
| part | code | state and operations | what makes it correct |
|---|---|---|---|
| FAT32 reader | `libc/fat32.cpp` | volume geometry; open, read, load a file | whole files only, nothing past a buffer (the header buffer falls short of it, section 6), an end |
| PE loader | `libc/pe_file.cpp` | header buffer; open, image_size, load | the image that is jumped to is whole |
| strings, printf | `libc/string.c`, `vsprintf.c` | none (pure) | what C says of each routine (`wcsncpy`, `wcsncmp`, `%ld` and `_vsnprintf` fall short of it, section 6) |
| 64-bit arithmetic | `libc/all*_asm.c`, `aull*_asm.c` | none (pure) | exact for all operands, overflow included |
| image builder | `CreateImage/CreateImage.cpp`, `VirtualDisk.h`, `VhdCopy/VhdCopy.cpp` | the virtual disk, its drive letter, files in stdio's buffers | the disk boots what was built, again after a tool was stopped; files whole; nothing written elsewhere |

`list.h`, `pe.cpp`, `VhdMount`, `MultibootPE` and `pcidatabase` are listed in
`PROJECT.json` with the reason why they have no model.

### How the parts interact
`SYSTEM::Init` calls the parts in a fixed order on one CPU with interrupts off;
the memory parts are sequential and meet through calls (heap -> MMU -> PAGER).
After `_enable` there are two kinds of activity on the CPU: the main program,
which is in `panic` (`main.cpp:90-91`: console output with interrupts on, then a loop), and interrupt handlers that
preempt it at any instruction boundary.  They share the console, the timer
table, the handler tables and the 8259 mask registers, with no lock.  Stubs run
with IF clear and the final `sti` takes effect after `iretd`, so handlers do not
nest.  The devices and controller chips run concurrently with both.

### What is hard
* No record of what was handed out except cursors (PAGER, MMU): correct only
  under usage patterns nobody wrote down.
* Steps of several writes that an interrupt can split: a timer slot being set
  or cleared, the CRTC index/data pair, read-modify-write of a mask register.
* Edge-triggered requests: an interrupt not acknowledged in every place (chip,
  device register C, 8042 buffer) never comes again.
* Failure paths that the caller ignores: no free frame, a partly failed free,
  a loader that does not look at its result.
* Tables that are edited through a window onto themselves while the processor
  remembers translations (`rebuild_os_page_table`).
* Programs on the host that may be stopped between two writes to the disk
  image, and that find its drive letter by comparing two lists of drives.
* 32-bit wrap-around in page rounding and in the loop bounds of both allocators.

## 2. The plan

The order follows what the rest of the kernel stands on.

| step | modules | state |
|---|---|---|
| 1 | `PageFrames`: frames from boot to the running allocator | done, proved |
| 2 | `KernelSpace`, implementing the abstract `Lease` | done, proved |
| 3 | `KernelMemory`: both allocators joined by the page tables, from boot to heap | done, safety proved |
| 4 | `Interrupts`: chips, stubs, devices, boot | done, safety proved |
| 5 | `PitTimers`: software timers under interrupts | done, safety proved |
| 6 | `Heap`: liballoc | done, safety proved |
| 7 | `Fat32`, `Loader`: both loaders on the FAT32 reader | done, safety proved |
| 8 | `Console`: the kernel's text, the keyboard's echo and the spinners on one screen | done, proved |
| 9 | `BootPaging`: OsLoader's page tables, the E820 loop, the kernel's page tables through self-map and TLB | done, proved |
| 10 | `Bits`, `Strings`, `Printf`, `LongMath`, driven by `Libc` | done, proved |
| 11 | `ImageTools`: CreateImage, VhdCopy, virtual disks, boot sector | done, safety proved |

Composition: `KernelMemory` instantiates `PageFrames` and `KernelSpace` and uses
their actions; `Loader` extends `Fat32`; `KernelSpace` instantiates `Lease`;
`Libc` extends `Strings`, `Printf` and `LongMath`, and its properties join them
(what `vsprintf` prints, `strtol` reads); the numbers of a given width of the last two
are in `Bits`.

## 3. The modules and the code

### PageFrames (`OS/mem/paging.cpp`)
`phase` says where `PAGER::Init` stands: `RebuildOsPageTable`,
`CreatePageFrameDb`, then one `ScanEntry` per E820 entry, then `DatabaseUsable`
(`m_database_usable = true`).  Until then frames come from `page_frame_min`;
`MapPages` counts the page tables this costs.  From then on
`alloc_physical_page`, `alloc_physical_pages(n)`, `alloc_fails(n)` and
`free_physical_pages(start, n)` (both free functions) are the operations.  The
code never marks a frame as used; `next_free_page_frame` is the only record, and
that is the subject of the module.  `SizeToPages` keeps the 32-bit wrap-around,
`ScanEnd` the wrap-around of `m_page_frame_max - pages`: for a request of more frames
than there are the bound lies far beyond the database.  `BehindStarts` is what such a
scan may find in the bytes behind it (`kernel.h` puts the window of low memory there),
`ScanFaults` says when it leaves even those and runs into unmapped memory; the handler
of page faults (`trap.cpp:252-267`) prints and halts with interrupts off, so the
machine stays in phase `"fault"`.  `owners` and
`untouched` are history; `usage` says whether holders free in any order or in
reverse order.  Frame contents and page attributes are not modelled.

### KernelSpace and Lease (`OS/mem/mmu.h`, `OS/system.cpp`)
`block_map` and `next_free_block` are the fields of `MMU`.  First
`init_kernel_mmu` reserves the windows (`reserve_virtual_space`), then holders
allocate and free.  `FreeStarts` is `find_free_blocks` as written: its inner loop
tests `m_block_map[i]`, the first block, each time, so a range is only known to
*start* free.  `free_virtual_space` frees the leading `Prefix` of used blocks, as
the loop does.  Two ways of use are modelled: requests of one block freed in any
order, and requests of any size freed in reverse order.  `Lease` is the abstract
promise (a unit has one holder); `LeaseSpec` is `Lease!Spec` with
`leased[h]` = the blocks `h` holds.

### KernelMemory (`OS/system.cpp`, `OS/mem/mmu.h`, `mmu.cpp`, `paging.cpp`)
The set-up of memory from `PAGER::Init` to the liballoc hooks.  `step` follows
`SYSTEM::Init`, `pte` maps blocks to the frame of their page-table entry,
`todo` is the rest of the running `map_pages` or `unmap_pages`, one page per
step (`MapPage`, `UnmapPage`).  `alloc_virtual_memory` takes address space,
then frames, and maps frame 0 when there are none, as the code does;
`alloc_stack` is `AllocStack`, `FreeGuard`, `ReserveGuard`, and `AllocStackFails` when
there is no address space: nobody looks at the 0 that comes back, so stack and
guards are then taken to lie at address 0 (`UnmapLowPage`).  The page tables are reached
through a window, and the entry of a page of that window is an entry of the page
directory.  A range that runs into the window (`find_free_blocks` looks at its first
block only) therefore replaces whole tables: `Replaced` says which slots,
`overwritten` remembers them, and their translations are `Foreign` from then on.  If
the directory's own slot goes (`DirectoryLost`), what the next access does depends on what
someone's frame holds, and the model ends there.  Whether the TLB still holds old translations
is not modelled; the properties speak of the tables.  Contents of
tables and the TLB at boot are in `BootPaging`.

### Interrupts (`OS/irq/8259.cpp`, `int_handler.cpp`, `timer/rtc.cpp`, `Keyboard.cpp`)
`irr`, `isr`, `imr` are the registers of both chips, `line`, `flag`, `enabled`
the devices', `iflag` and `shadow` the processor's (IF, and the one instruction
after `sti` without interrupts), `frames` the interrupt frames on the stack.
`Boot` is `SYSTEM::Init`'s order of device set-up and `main`'s `_enable` and
`panic`; `Handler` is stub, dispatcher and handler step by step
(`Dispatch`, one handler action per device, `Eoi1`, `Eoi2`, `Sti`, `Iretd`);
`Tick`, `Key`, `Period`, `Deliver`, `Request`, `Pending` are the hardware, as the
code programs it, and marked external.  `Opened` keeps `mask_word &= 0xFD`.
Left out: `disable_irq` (no caller), spurious interrupts 7 and 15; key decoding
and the spinners are in `Console`.

### PitTimers (`OS/timer/8253.cpp`)
The four fields of `m_handlers`, written by `set_timer` and `kill_timer` in
source order, one per step (`WriteId` .. `WriteCounter`); `irq_handler` may come
between any two and walks the whole table.  `promise` and `clock` are history:
what the last finished `set_timer` asked for, and the time since.  The search
for a slot is one step: no handler of the code sets a timer, so the table does
not change under it.  Timer 0 is left out (an unused slot has id 0 too).

### Heap (`libc/liballoc.c`)
`tags` holds the boundary tags by address, `l_freePages` and `l_completePages`
are the code's.  A call is `malloc`/`realloc`/`free` (start), then one iteration
of a loop per step: `SearchOn`, `Found`, `allocate_new_tag` or `malloc_fails`,
`Split` or `NoSplit`; `melt_left`, `absorb_right`, then `GiveBack` or `Keep`.
`calloc` is `malloc` as far as tags go.  Block contents and alignment are left
out, and `liballoc_free` frees nothing, as in `mmu.cpp`.

### Fat32 and Loader (`libc/fat32.cpp`, `libc/pe_file.cpp`, both `main.cpp`)
`Fat32` has the reader: `open_file` walks the path, `SearchSector` /
`SearchCluster` one directory sector or FAT link per step, `read_file` and
`load_file` one sector or cluster per step.  `Loader` puts `PE_FILE::open`,
`image_size` and `load` on top, and the two `main` functions: `OpenFailed` hangs
the first loader, `StartOsLoader` starts the second, which ignores its results.
A path is a sequence of names; letter case and short-name layout are left out.
`read_sectors` waits for the drive, so behind the end of the disk (`Readable`) it waits
for ever (`Waits`); a sector that is not one of a FAT is taken for one, as in the code
(`NextIn`).
The geometry and the search are operators on any disk `d` and volume `v` (`VolumeAt`,
`NextIn`, `Wanted`, `Taken`), which the actions apply to `disk` and `volume`.
`disk.holds` is history: the clusters of the directories and the file that were
written for each loader, which is what the properties compare with.

### Console (`libc/vga.cpp`, with `Keyboard.cpp`, `8253.cpp`, `rtc.cpp`, `main.cpp`)
`index` and `cursor` are the chip's registers, `cells` the screen.  `pc` is the
next access of the kernel's `putc`: a port (`Select`, `ReadLow`, `getx`, `gety`,
`Write`) or a cell (`draw`, `screen_scroll`, one cell a step).  A handler runs with
interrupts off, which `Interrupts`' `NoNesting` shows, so `Echo` (a whole `putc`)
and `Spin` (a `setchar`) are single actions, possible between any two accesses
once `Enable` has run.  The specification of the screen is a roll of
paper on which each character has its place: `Pen` is where the pen stands after a text,
`Ink` what the text has left at a place, `Top` the line at the top of the screen.
`said` is what was put, `tear` the worst place at which an echo came.  `decode` keeps the
code's ranges, the one
past the end of "qwertzuiop" included.  Colours and the attribute byte are left
out.

### BootPaging (`OsLoader/mmu.h`, `OS/callbios.asm`, `OS/bios.h`, `OS/mem/paging.cpp`)
`mem` is physical memory as tables, `cr3`, `paging` and `tlb` the processor's.
Every read or write of memory by address goes through `Present`, which offers
what the tables or the TLB translate, and leaves a translation in the TLB.
`LoaderDirectory`, `LoaderMap`, `StartPaging` are the second loader; `callbios`,
`Int15`, `BackToProtected` one round of the E820 loop with paging off in between;
`NewDirectory` .. `LoadCr3` are `rebuild_os_page_table` statement by statement,
through the two temporary pages; `SetPde`, `new_page_table`, `map_pages` the running
system's, through the self-map.  `map_pages` keeps the code's `invlpg` of the
wrong address.  `Answered` goes by `ebx` alone: `callbios` clears the carry flag with its own
`xor sp, sp` (`callbios.asm:155`) before it stores the flags, so the test in `bios.h:71`
never fires.  A list that the BIOS ends by carry is taken with an empty entry at its end if
`ebx` is 0 then, and lost (`map_count` 0) if not.  Access rights are left out, and which
frames the scan marks is
`PageFrames`.  A missing translation would stop the model: the deadlock check is the
check for page faults.

### Bits, Strings, Printf, LongMath and Libc (`libc/string.c`, `vsprintf.c`, `all*_asm.c`)
Operators, not state machines: `Strings` on a memory with pointers (`Up` and `Down`
are the two loops of `memmove`), `Printf` on a conversion parsed into a record and on
which of the two functions is called: `vsprintf` has `ll`, `_vsnprintf` has `I64` and `%b`
(`Knows`), and what a function does not know it prints as it stands, leaving the argument
to the next conversion (`Literally`, `Printed`);
`LongMath` on numbers of two words with the processor's `div` (which traps).  `Libc`
calls them one at a time with what a caller may pass (`Within`, `Apart`,
`Terminated`) and keeps memory before and after.  `Bits` has the widths: what a number
becomes in a word (`Wrapped`) and what the word means with a sign (`Signed`).  Its powers
of 2 are a recursive function of its own, because no prover knows what `^` means.
`LibcInit`, `LibcNext`, `LibcSpec` and `libcVars` carry the component's name because its
theorems share a module with those of `PageFrames`.

### ImageTools (`CreateImage/*`, `VhdCopy/VhdCopy.cpp`, `BootLoader/boot.asm`)
`attached` and `letter` are what Windows knows of the disk, `boot`, `sectors` and
`files` what is on it, each with the number of the run that wrote it; `pc` walks
through `_tmain`, `Attach`, `copy_file` and the destructor one Windows call at a time.
`Arrive` gives the volume its letter, `Change` lets other drives come and go, `Kill`
ends a program anywhere, `Fail` is a call that returns an error.  `exit_error` shows a
message box (`"box"`, until somebody answers: `Click`) or prints, then `Exit` flushes stdio
and destroys nothing; its status, `GetLastError()`, may be 0 and is not modelled.
`VhdCopyFrom` is VhdCopy in the other direction (`OpenSource`).  `Boot` is what the boot sector
enters: after a failed read too, whatever memory holds.  The names
that other modules use too carry the component's here (`ImageInit`, `ImageNext`,
`ImageSpec`, `ProgramEnds`).

## 4. Runs

| run | question and answer |
|---|---|
| `page_frames` | Are frames handed out only when they are RAM, and never early?  Yes, also for requests whose scan leaves the database (`OwnedIsRam`, `NoEarlyReuse`); with frees in reverse order nobody shares a frame (`LifoExclusive`). |
| `kernel_space` | Have blocks one holder for the two ways of use, is none lost, do requests of one block keep out of the windows?  Yes: `LeaseSpec` (refinement), `NoFreeBelowCursor`, `WindowsKept`. |
| `kernel_memory` | Do the guard pages hold (`GuardsKept`), do page tables and block map agree (`TranslationsTracked`), is the stack never remapped (`StackKept`)?  Yes, wherever no allocation has run over the page table concerned, which the code does not prevent and the properties name (`TableSafe`). |
| `heap_over_stack` | Are the stack's frames its own?  No (finding 1). |
| `interrupts` | No nesting, no edge lost; the clock ticks, keys are read, the program goes on. |
| `timers` | One slot per timer, no stray call between two writes, rings exactly on time and for ever. |
| `heap` | Tags tile their chunks, lists and counts agree with tags, blocks and headers are private, calls end. |
| `loader` | Only whole images are jumped to, and a loader that stops has a reason (`JumpsToWholeImage`); the image is not overrun, the header buffer by less than a cluster (`OverrunBounded`); both loaders come to an end (`Ends`). |
| `console` | Does the screen show what was printed and typed?  Yes, unless a key is echoed inside one of the kernel's own characters (`TextShown`); whatever happens, spinners and text keep apart (`SpinnersApart`), and only an echo within the accesses to the register pair can throw the cursor off the screen (`CursorOnScreen`). |
| `boot_paging` | Do code, stack and image stay mapped through three sets of tables (`RunsOn`), is the TLB never stale (`TlbCoherent`), do the tables end up exact (`TablesExact`)?  Yes; of a memory map whose end is not told in time they show no area, and the property says so. |
| `libc` | Do the routines do what C says (`CopiesWhole`, `ComparesTexts`), do printed numbers read back (`ReadsBack`), is the 64-bit arithmetic exact (`ArithmeticExact`)?  Yes, but for `wcsncpy` and `wcsncmp`, which do not and of which nothing is claimed, and for `%ld` of a negative number and conversions the function does not know, which `ReadsBack` names. |
| `image_tools` | Does a write that gets through leave one whole build, whatever was cut off before (`WriteHeals`), is the letter the disk's own (`NameIsOurs`), are files whole (`FilesWhole`), does every program end or show a box (`ProgramEnds`)?  Yes, with the exceptions the properties name: the mixture after a write that was cut off, another drive that comes or goes meanwhile, stdio's last buffer.  That a failed read lets the boot sector jump to what was not read, no property forbids. |

Each property has a mutant in `PROJECT.json`: the definition named there with a
plausible error, under which TLC finds the property violated.

### Bounds, and why they are enough
* `page_frames`: 20 frames of 2 bytes, so entries can start and end inside a
  page; four E820 maps (unaligned, a hole and RAM above 4 GB, overlapping and
  unordered, less RAM below 4 GB than a request, so that the scan's bound wraps); requests
  up to 3 frames;
  `MaxOwners` 2 is one more than right.
* `kernel_space`: 9 blocks, requests of 1 to 3 blocks and five holders, enough to
  take every block that the windows leave, so that a search can run into the end;
  the kernel image at the start, a window in the middle, one that runs into it and
  fails half way, and one that ends with the space, which the code refuses.
* `kernel_memory`: 64 two-byte pages, tables of 8 pages, windows in the order of
  `kernel.h`, seven machines: firmware in the kernel's half that leaves the stack its
  place, no place, or one that runs into the window of the page tables; too few frames for
  the stack and one request, and so few that the scan for the stack faults.  A stack of 4
  pages, heap requests of 1, 3 and 8 pages, which reach the window's pages for the
  stack's table and for the directory.
* `interrupts`: all three devices; `Burst` 2 lets each ask again while its
  request is pending or in service before the processor idles.
* `timers`: two slots for three timers (the table overflows), periods 0 and
  2.5 ticks, counters modulo 40.
* `heap`: header 1, page 8, chunks of 4 pages out of 9, so there are two normal
  chunks or one oversized one (size 33), then none; three callers; sizes 0, 4,
  10, 16 and 33 fall on different lists.
* `loader`: 1305 disks built in `MCLoader`: 1, 2 and 4 sectors per cluster,
  chains in order and fragmented, file and image sizes around each limit,
  missing and cut files; sectors of 2 units, `PE_HEAD_BUF_SIZE` 4.
* `console`: 4 columns (two for text proper, one that wraps, one for the
  spinners) by 3 lines, registers of 4 values so that the high one is in use; text
  that scrolls, two presses of a backspace, an enter or one that may print anything.
* `boot_paging`: tables of 16 entries, so the self-map, the windows and two
  kernel tables fit; kernels of less than, exactly and more than one table, the
  temporary pages in the first; ten memory maps, one too long, four ended by
  carry (in time, too late, at once, with `ebx` left alone), firmware in every region.
* `libc`: memories of 4 bytes hold every overlap of two blocks; texts of up to 5
  and needles of up to 3 letters hold a needle that begins again inside itself;
  8 and 16 bits for int and long long with all their limits; words of 4 bits, for
  which all operands of all routines are tried.
* `image_tools`: three letters, so a foreign one can lie before, between or after;
  two programs, the second after the first was stopped anywhere; two changes of
  other drives, BootLoaders of 1 to 3 sectors with a BIOS that reads 2.

Deadlock is checked in every run but `image_tools`, whose bounded number of
programs and changes runs out.  No symmetry is used (holders are few and some
runs check liveness).

### Fairness
* `Interrupts`: `WF(Processor)` - the processor executes instructions - and
  `WF(Period)` - the clock's oscillator runs.  Nobody has to type, and the timer
  chip is not needed for the liveness properties.  `Burst` limits how often a
  device asks before the processor idles; without it a fast enough device would
  keep the processor in handlers, which the hardware's rates exclude.
* `PitTimers`: `WF(irq_handler)` - IRQ0 keeps coming (its own model is
  `Interrupts`).  The program may stop in the middle of a call.
* `Heap`, `Loader`: `WF(Work)` - a sequential call runs on.  Nobody has to call.
* `ImageTools`: `WF(Program)` - a program that was started is scheduled; the volume's
  letter need never arrive, and nobody has to answer a message box.
* `Console`, `BootPaging`, `Libc`: none, and no liveness is claimed.

## 5. Proofs

TLAPS checks these for every value of the constants that satisfies the modules'
named assumptions.

* `FramesAndLibc_proofs`, of `PageFrames`: `TypeCorrect`; `CursorSafe` and `ReuseNeedsLowerFree`, from
  an invariant that holds for both usages (frames in `untouched` lie below the
  cursor; a free removes from `untouched` all at or above it, just as it moves the
  cursor); `LifoSafe`, from the invariant that under reverse-order frees every
  owned frame is below the cursor and has one owner.  The cursor has to be in
  the invariant because the database does not say what is in use.  `RamOnly`: what
  is handed out is RAM, for requests of every size: a run of several frames must end below
  `page_frame_max`, which keeps a scan whose bound has wrapped from returning anything
  behind the database, and the bound for a single frame cannot wrap
  (`LowRamAssumption`: there is RAM below 4 GB).  Its hypothesis `MapsRegular` excludes an
  area that ends in
  the last page below 4 GB (the rounding up to pages wraps to 0 there, and the area is
  not marked); the maps of the run have none.
  Of `Libc`: `CopiesExactly`, `ComparesRight`, `PrintsReadable`, `ArithmeticIsExact`, for
  memories, texts, conversions, arguments and words of every length.  A call leaves nothing
  to the next one, so each property is its
  own invariant and each theorem a lemma per routine.  The loops of `memmove` are recursive
  functions: induction on the bytes left gives the memory they end with, and the direction
  chosen says that no byte was read after it was written.  For `wcsncpy` and `wcsncmp`
  nothing is stated.  Comparisons are decided by the
  first difference (`DifferenceOrders`), searches by the least or greatest place.
  `PrintsReadable` goes from the figures to the field and back: the divisions of `number`
  leave nothing after finitely many steps, and undone from the first figure on they give the
  number again (`DigitsAre`); a field is blanks, sign, prefix, zeros and figures however it is
  justified (`Laid`, `Inscribed`), so `strtol`, whose test before each figure says exactly
  whether the sum would be too large (`CutoffRight`), reads from it the number or the nearest
  long (`LaidReads`); and what `num` holds is what the argument means, but for the
  exceptions the property names (`ArgumentFacts`): the `%ld` of a negative number, and
  conversions that the function called does not know.  An address is read back part by part
  (`NextPart`, `JoinedSpells`).  Of the
  divisions, `EstimateNear` shows that the quotient by the divisor's leading part is
  right or one too large, which needs the first bit of that part to be set and the shift to
  have gone no further (`Shift`); `ProductFacts` that the product which is to tell the two
  cases apart loses nothing but the carry; `DividedIs` joins them, and the signed
  routines follow from magnitudes (`SignedDivision`).  That no `div` traps is part of it.
  Assumed are that memories hold characters, texts no terminator and addresses octets
  (`LibcAssumption`), that a word has a bit (`LongMathAssumption`), and that an int has two
  (a short has half of it) and a long long no fewer (`PrintfAssumption`).  The two
  components share a module
  and nothing else.
* `KernelSpace_proofs`: `TypeCorrect`, `Exclusive`, `NothingLost`, and
  `RefinesLease`.  The invariant joins: holdings are disjoint and marked USED, no
  block below the cursor is FREE, and for `usage = "lifo"` all holdings lie below
  the cursor.  That last part is what makes the faulty test in `find_free_blocks`
  harmless for holders, though not for windows.  `WindowsSafe` is about those, for
  requests of one block: windows that were reserved one after the other without
  overlap stay USED and are nobody's.  Its hypothesis `WindowsReserved` says that
  they can be; it holds of the windows in `kernel.h`.
* `KernelMemory_proofs`: `GuardsSafe`, `TablesTracked`, `StackStays`, for every
  memory map, layout, stack size and sequence of heap requests, for every page whose
  page table no allocation has run over (`TableSafe`).  The invariant ties `overwritten` to the
  ranges that reach into the window and says
  that page tables and block map agree except in the blocks which the running call
  has allocated and not yet mapped, or unmapped and not yet freed (`Tracked`), where
  stack and guard blocks are at each step of `alloc_stack` (`StackSet`), and that heap
  blocks lie between the stack and the cursor, each behind the one before
  (`HeapBehind`): nothing is freed once the kernel runs, so the cursor only advances.
  That frames may be shared (finding 1) does not matter to it.
* `InterruptsAndTimers_proofs`, of `Interrupts`: `TypeCorrect`, `HandlersDoNotNest`,
  `ServiceMatches`, `AllHandled`, `NoEdgeLost`.  The invariant says that IF is on only with
  no frame on the stack or in the shadow of `sti` before `iretd`, and ties `isr` to
  the top frame's program counter.  Of `PitTimers`: `TimersTypeCorrect`, `SlotsUnique`,
  `NoStrayCall`, `Punctual`.  The invariant has one part for the slot being written
  (which fields are new at each `pc`), one for settled slots (fields = promise,
  counter = clock), one for promises without a slot.  `Punctual` needs the assumption that
  periods leave room for one step below the counter's width (`TimersAssumption`).

* `Heap_proofs`: `TilesKept`, `ListsKept`, `CountKept`, `PrivateKept`, for every page and
  chunk size, tag size, number of callers and requests.  Of each intermediate set of tags
  inside a call it is shown that tags tile their chunks and link back and forth
  (`Tiled`) and that a tag is on the list of its index or on none (`Lists`); between the
  steps of a call also that the counts are exact (`Counted`), that callers' blocks are
  different tags off the lists (`Held`), what the call's locals stand for (`Running`), and
  that no tag in use is lost (`Owned`).  Lists have no cycle because each tag has a rank,
  the moment of its insertion, and `insert_tag` links only to lower ranks; a
  definition by following the links would need induction.
* `Console_proofs`: `ColumnsApart`, `CursorStays` and `TextStays`, for every width and
  height of the screen, registers of every size that holds it, every text and every key.
  Apart from the arithmetic of row and column (`CellOf`, `DivMod`), `Sound` says what the
  index register and the kernel's locals hold at each `pc` as long as no echo has come within
  the accesses to the register pair.  `Apart` needs none of that: a torn cursor may be
  anywhere, but text is clamped to the columns before the last one, and scrolling keeps
  columns.  For `TextStays` the paper is first shown to grow with the text: a character
  more moves the pen on from where it was (`PenGrows`) and changes what is written at its
  own mark only (`InkGrows`).  `PaperInv` then follows one character through `putc`: until
  `putchar` moves, the screen is a window on the paper and the cursor is the pen
  (`AtPen`); then it shows the paper from the line that the mark needs (`AtMark`), then the
  text with the character in it and the line the pen needs (`AtBeyond`), and while
  `screen_scroll` is at work its first cells are one line ahead (`Halfway`).  Nothing is
  written below the pen (`BlankBelow`), or the line that scrolls in would not be blank.

* `BootPaging_proofs`: `TlbStaysCoherent`, `KernelRunsOn`, `TablesAreExact`, for tables of
  every size, kernels and loaders' areas of every length that fit, memory maps of every
  length and content whose firmware keeps clear of the kernel (`FirmwareApart`, which
  the code does not check and the theorems name as hypothesis).  The invariant says of
  every phase what the next one relies on.  Before the switch: the loader's tables are
  laid out consecutively (`Started`) and go on showing low memory and the image but for
  the temporary pages (`OldTables`); the tables under construction lie in frames of their
  own behind the image (`NewFrames`) and hold nothing but what is meant (`NewTables`).  After
  it: they show themselves and exactly the pages reached so far (`Mapping`), the
  database's pages to frames nobody else has (`Stored`, `Job`).  `Tree` - one frame, one
  slot - is what makes a write through the self-map touch one table only, and the frames
  used plus the slots still absent never exceed what lies behind the image, or the
  frame for a new table might not exist.  `Cache` says which pages the TLB may remember:
  only the self-map's and the database's, so that mapping another page leaves
  nothing stale.

* `BootDisk_proofs`, of `Loader`: `OverrunIsBounded` and `WholeImageJumps`, for every set of disks,
  every size of sector, FAT sector, cluster, header buffer and file, and every path.
  `OverrunIsBounded` needs only that the fields on the disk are numbers and a cluster
  has sectors (`DisksTyped`): a transfer ends at the end of a cluster or of the file;
  `load_file` has compared sectors before, `read_file` compares them before each cluster
  only, so it may go on to the end of the cluster in which the header buffer ends.
  `WholeImageJumps` needs to know what was
  written (`DisksRegular`): the directories and the file of each loader are chains of clusters
  that end, each found by the first entry that `strcmp_nocase` takes for its name, and
  `holds` names the file's sectors, or none if the chain is too short or too long for its
  size.  Nothing is said of where clusters lie, of other files, or of names.  The invariant
  places each call: a search has found no entry in the sectors of the directory
  before this one (`SeekingAt`), a transfer has read the chain's sectors up to this
  one (`ReadingAt`), and what is in the header buffer and in `size` is the first
  sector of the file that `file` describes (`Held`, `FirstOf`).  TLC evaluates both
  hypotheses on the 1305 disks of the run.
  Of `ImageTools`: `LetterIsOurs`, `WritesHeal`, `FilesAreWhole`, for any letters,
  numbers of programs, tries and changes of drives and builds of every length.
  `ImageInv` has one part for each thing a program relies on from one Windows call to the
  next: that the drives it listed before are those of others as long as none came or
  went (`VolumeInv`), that the sectors written so far are of this run (`WriteInv`), that a
  file of this run is cut only while it is copied or if stdio holds its tail (`FilesInv`).
  The two components share
  a module because both end at the boot disk; they share nothing else.

Hypotheses of theorems (`MapsRegular`, `WindowsReserved`, `FirmwareApart`, `DisksTyped`,
`DisksRegular`) are ASSUMEd in the MC modules of the runs, as named assumptions are, so TLC
evaluates them on the checked instances.
Each invariant was checked by TLC before it was proved.

`TypeOK` of the first four components, `CursorAboveUntouched` (`PageFrames`), `HoldersDisjoint`
(`KernelSpace`), `InService` and `NoneUnhandled` (`Interrupts`) are proved and not
repeated in the runs.

What a definition by recursion on a text computes is proved, where it is, from the
well-foundedness of Nat: `Induction` of `Console_proofs` is the principle for one explicit
set, and it gives `Pens`, a recursive function, its values (`PensAre`).  `NumberInduction`
of `FramesAndLibc_proofs` does the same for `Up` and `Down`, the loops of `memmove`, for
`Pow2` (`Pow2Is`), for the figures of a number and for what `strtol` accumulates
(`DigitsAre`, `AccsAre`), and for texts put together by `FlattenSeq` (`FlattenIs`).

Every safety property of a passing run is proved.  Only model-checked: all
liveness (`ClockTicks`, `KeysRead`, `ProgramRuns`, `RingsForEver`, `CallsEnd`,
`Ends`, `ProgramEnds`), which is beyond the prover; the violation run.

## 6. Findings

1. `heap_over_stack` - `alloc_stack` frees the frame of its lower guard page, which
   rewinds the frame cursor below the stack's frames, and those were never
   marked as used: the heap is given the running stack's frames
   (`system.cpp:57`).  In the run, on a machine with enough RAM, the stack gets frames 4 to
   9; the free of the guard's frame moves the cursor from 10 back to 4; the first
   heap request is given frame 4, its page table takes frame 5, and the second request
   gets frame 6: 4 was the guard's, 5 and 6 are mapped in the usable stack.

What the models follow in the code and the properties therefore leave out or
name as an exception:

* The frames of the database, the page tables and the kernel image are marked
  free by the E820 scan and handed out (`paging.cpp:109`, `127`); `PageFrames` keeps it.
* `find_free_blocks` tests `m_block_map[i]` for every block of a range, so a request
  of several blocks that starts below a reserved window is given the window too
  (`mmu.h:33`); `WindowsKept` is about requests of one block.
* `alloc_virtual_memory` does not look at the result of `alloc_physical_pages`
  (`mmu.h:143`), so `liballoc_alloc` returns an address mapped to frame 0 where
  `liballoc.h:70` says NULL (`liballoc_alloc_null`).
* `mask_word &= 0xFD` opens IRQ1 where the comment says IRQ2 (`8259.cpp:122-124`);
  `AllHandled` shows that the interrupt flag keeps it harmless, and IRQ2 was never
  masked.
* An echo between `out 3D4h, 0Fh` and `out 3D5h` of `gotoxy` leaves the index at 0Eh: the
  cursor's low byte goes into the high register (`vga.cpp:34`).
* `puts("")` prints 13 characters (`vga.cpp:147`); no caller passes one.
* `%ld` of a negative number prints an unsigned one (`vsprintf.c:603-604`).
* `_snprintf` never looks at its size, though `string.c:763` says it does; it has no
  caller.
* `SET_PTE`'s `invlpg addr` names the local variable `va` itself, not the page it
  holds (`paging.h:28`, `paging.cpp:302`): harmless as long as only pages are mapped
  that were not mapped before, which is what `TlbCoherent` shows for the boot.
* The test for carry in the E820 loop (`bios.h:71-75`) never fires: `callbios` clears the
  flag before it stores the flags (`callbios.asm:155`, `160`).  A BIOS that ends its
  list by carry has an empty entry counted if it also sets `ebx` to 0, and loses its map if
  not, as does one with more than `MAX_MEM_MAP` entries (`bios.h:77`).
* A request for more frames than there are makes `m_page_frame_max - pages` wrap
  (`paging.cpp:197`): the scan reads on behind the database until it faults, and the
  machine halts where 0 should have been returned.
* The window of the page tables is reserved, but a range that starts below it may run
  into it; mapping it replaces page tables, those of image and stack included (`paging.h:23-28`).
* `alloc_stack` does not look at the result of `alloc_virtual_memory`
  (`system.cpp:53`, `mmu.h:141`).
* `read_file` looks at its buffer between clusters only: with more than 8 sectors in a
  cluster it writes past `m_header_buf` (`fat32.cpp:246`).
* `wcsncpy` writes its terminator behind `count` characters and does not fill up
  (`string.c:778-792`); `wcsncmp` compares a character too many (`string.c:749-761`).
* `_vsnprintf` does not know `ll` (`vsprintf.c:699-707`), nor `vsprintf` `I64` and `%b`: the
  conversion is printed as it stands and the arguments shift.
* `exit_error` of the tools ends with `GetLastError()`, which may be 0: a failed program may
  report success (`CreateImage.cpp:18`, `VhdCopy.cpp:23`).
* `CreateImage` copies to the letter on its command line without looking at
  `AttachedVolumeName`, leaves its files open, and detaches the disk before stdio
  writes the rest (`CreateImage.cpp:98`, `216-218`); Attach that gives up leaves the disk
  attached (`VirtualDisk.h:142`).
* `boot.asm` reads BootLoader with one call of at most 127 sectors (`boot.asm:53`);
  CreateImage's buffer allows 128 (`CreateImage.cpp:184`).  After a failed read `hlt`
  waits for the next interrupt only, and the code goes on (`boot.asm:92`).

## 7. Not modelled

`PROJECT.json` lists every part with its reason.  In short:

* code that keeps no state and decides nothing: the PCI scan (prints what it
  finds), ACPI (no caller), descriptor tables (written once), PE header
  accessors, stubs, C++ start-up;
* traps: every handler but the page fault's is empty, and the page fault's halts the
  machine; `PageFrames` and `KernelMemory` have that halt, the dispatch is not modelled;
* code without callers: locks, lists, the ATA driver, `BootLoader`'s and
  `callbios_intr.asm`'s variants of the BIOS call;
* files outside the build: `dlmalloc.c` and `malloc.c` (the same third-party
  allocator twice, 12561 lines), `page_frame.cpp`;
* generated data: `pci_ids.h`, `pci_c_header.h` and `pcidatabase.cpp` are tables of
  names, 71524 lines.

The last two are seven eighths of the repository's lines, so the share of lines
that have a model stays small whatever is modelled: about 12300 lines are the
project's own code, headers with declarations and comments included.

Inside the models, what the properties do not tell apart is left out: contents of
frames, blocks and files, page attributes, colours, the ATA command sequence,
letter case of file names, wide and counted strings of printf.  Inputs no caller
produces are left out too: double frees, sizes near 2^32, cyclic FAT chains, timer 0, division by 0,
firmware areas that are not page aligned (`reserve_virtual_space` panics) or that
lie over the kernel's windows.
