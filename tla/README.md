# ShibliOS in TLA+

A verification development for ShibliOS, a small x86-64 kernel: a page
allocator, page tables with demand mapping, an ext2 driver, a terminal driven
by the keyboard interrupt, and a clock, behind two interrupt controllers.
`src/src/*.c` and `src/include/*.h` are the
reference; every definition of a module is listed in `PROJECT.json` under `map`
with the lines it stands for.

## 1. The system

One processor, no threads. Three things run on it: `kmain`, exceptions, and
interrupt handlers. Handlers run through interrupt gates (0x8E), so nothing
interrupts a handler except a fault of its own.

| component | state | operations | used by |
|---|---|---|---|
| page allocator (`paging.c` 28-102) | `page_bitmap`, `total_pages`, `used_pages`, `next_free_page` | `pmm_init`, `allocate_page`, `free_page` | page tables, exception handler |
| page tables (`paging.c` 9-26, 104-238) | `pml4`, the tables themselves, the TLB | `setup_paging`, `map_page`, `unmap_page`, `get_physical_address` | exception handler; the rest has no caller yet |
| exceptions (`interrupts.c` 37-184) | none | vector 14: allocate a page and map it; others: halt | processor |
| interrupts (`interrupts.c` 186-249, `pic.c`, `interrupts.asm`) | `idt`; the controllers' requests, masks and lines in service | `idt_init`, `init_pic`, `pic_unmask_irq`; `irq_handler`, `send_eoi` | `kmain`, processor |
| clock (`rtc.c`) | the chip's selected register | `rtc_init`, `rtc_read_time`; `rtc_handler` | `kmain`, clock interrupt |
| ext2 (`ext2.c`) | on disk: bitmaps, descriptors, superblock, inode table, blocks; in memory: `sb`, `bgdt`, the global `inode` | `create_file`, `write_file`, `read_file`, `delete_file`; `read_directory_entries`, `print_file` | the terminal's `dir` and `cat`; the writers by earlier versions of `kmain` |
| terminal (`terminal.c`) | `cursor_x`, `cursor_y`, `cmd`, `cmd_len`, `accept_input`, `auto_prompt` | `terminal_putchar`, `terminal_write`, `terminal_prompt`, the commands | `kmain` (output), keyboard interrupt (input and commands) |
| keyboard (`keyboard.c`) | ring buffer, shift, caps lock | `keyboard_handle_irq`, `keyboard_get_char` | keyboard interrupt; the buffer has no reader |
| ATA (`ata.c`) | the drive's registers | sector reads and writes by polling | ext2 |
| timer, serial, strings, drawing, font, ports | little or none | | everyone |

What is hard here:

* **Order at start.** `kmain` enables interrupts and faults (`main.c` 155)
  before paging, the allocator and the file system are ready (156-161).
* **Running out.** `allocate_page` may fail at each of the three levels of a
  walk; `map_page` returns nothing, so its caller cannot know.
* **Retry.** A page fault returns to the faulting instruction: a handler that
  did not repair the fault is entered for ever.
* **Cached translations.** The TLB, and the hint of the allocator.
* **Power.** Each ext2 operation is several writes to the disk, and nothing
  repairs the disk afterwards.
* **Shared globals.** Commands run *inside* the keyboard interrupt and use the
  same `inode`, cursor and `accept_input` as what they interrupted.
* **Edges.** The controllers hear a line only when it rises. A handler that does
  not read its device, or does not end the interrupt at the right controller,
  silences a line for good; so may `init_pic`, which forgets what has risen.
* **Two-step registers.** The clock's registers are read by selecting one and
  reading another port, and the clock interrupt does the same.
* **Late codes.** The keyboard queues scan codes; the handler applies shift to a
  letter by the order of codes, long after the fingers have moved.
* **Recursion through the terminal.** Commands print with the function that
  typed keys go through, which runs commands.

For each component, the properties that make it correct are listed with its
runs below. The places where the hazards bite are in `PROJECT.json` under
`hazards`.

## 2. Modules

| module | models |
|---|---|
| `FramePool` | abstract: a set of frames to take from and give back to |
| `PageAllocator` | `pmm_init`, `allocate_page`, `free_page`; implements `FramePool` |
| `PageAllocator_proofs` | theorems about it |
| `AddressSpace` | abstract: a map from virtual pages to frames, changed one page at a time, no frame mapped twice |
| `VirtualMemory` | the page tables, `exception_handler`'s page-fault branch and the processor; uses `PageAllocator`; implements `AddressSpace` |
| `VirtualMemory_proofs` | theorems about it |
| `Ext2` | the ext2 driver on one block group |
| `Ext2_proofs`, `Ext2Steps_proofs` | theorems about it: invariants, and what a step may not do |
| `Console` | the terminal, its commands, the keyboard interrupt and `kmain` after `idt_init` |
| `Console_proofs` | theorems about it |
| `Interrupts` | devices, controllers, gates, `irq_handler`, and `kmain` up to `enable_interrupts` |
| `Rtc` | the clock chip, `rtc.c` and the time on the screen; extended by `Interrupts` |
| `Interrupts_proofs` | theorems about the two |
| `BoundedQueue` | abstract: a queue that is full at some length |
| `Keyboard` | the keyboard's handler, its ring buffer and `keyboard_get_char`; implements `BoundedQueue` |
| `Keyboard_proofs` | theorems about it |
| `AtaPio` | the ATA driver and the drive, one register access at a time |
| `AtaPio_proofs` | theorems about it |
| `MC...` | instances for TLC |

Definitions named *Mutation* stand before the definition they vary. No
specification uses them: each is a plausible bug that makes one property fail.

### PageAllocator

A page is its number. `page_bitmap` is the set of pages whose bit is 1;
`AllocateFound`/`AllocateFailed` are the two ends of `allocate_page`'s scan,
`FreePage(p)` is `free_page`. The scan is one action: the kernel calls the
allocator from the page-fault handler and from code that a fault interrupts
only where it touches an unmapped page, which the allocator does not do. Page 0
is both a page number and the code for "out of memory", as in the source.
`allocated` and `ret` are history. `Spec` has clients that free what they hold;
`WildSpec` has clients that free anything, for the theorems that hold even then.

Assumed of the loader (`MemmapAssumption`): page 0 is never usable and usable
entries do not overlap, as the Limine protocol guarantees.

### VirtualMemory

`table` is physical memory seen as page tables. An access to a virtual page goes
through the TLB or the processor's walk, or faults; `ExceptionHandler` allocates
a page and calls `map_page`, which proceeds one level per action
(`FollowEntry`, `InstallTable`, `SetLeaf`), since each level may end it.
Memory nobody cleared reads as `JunkTable`, entries pointing at the root. The
clients (`Client...`, external) are what the header offers a caller: they map
frames they allocated, leave the loader's map of physical memory alone, and free
a frame once it is unmapped. The tables' walk, the access check and the TLB are the processor's,
modelled as the code relies on them.

Assumed of the loader (`MemmapAssumption`, `LoaderAssumption`): page 0 is never
usable; huge pages are at the two middle levels, and only pages are read-only,
not tables. A counter can hold the number of pages (`SizesAssumption`).

The loader's direct map, through which the kernel reaches every table
(`phys_to_virt`), is part of the tables it hands over. Its entries are huge ones,
and 4 KiB ones where those do not fit (`DirectSlot`); both may point at any
frame, at a table as at the memory `allocate_page` hands out, and at one frame
any number of times. All that is assumed of them is that they are present and
writable. The other tables and pages (the kernel's) lie in memory the loader does
not call usable and are a tree. So `PageTree`, `ReachableNotFree` and
`AddressSpace` speak of every reachable entry but those of `DirectSlot` and the
huge ones: what is mapped for its own sake is reached in one way *besides* the
direct map. That the direct map itself never changes is part of what is proved.

### Ext2

One action per write to the disk, because power may be lost (`Crash`) or the
keyboard interrupt may run `dir` or `cat` (`IrqCommand`) between any two.
`update_inode_bitmap` and `update_block_bitmap` are three actions: bitmap, group
descriptor, superblock. `op` holds the operation under way, its locals and
where it goes on. Directory blocks are K entry headers; all names have one
length, so sizes are counted in entries; a data block reads as headers of
absurd size. `MCExt2` scales `disk.img` down, with its oddities: inode sizes of
256 that the kernel reads as 128, a first data block of 1, a lost+found that
owns the last block mkfs allocated. `MkfsDisks` are the disks to start from: a
fresh one, and one whose root directory has filled all its blocks but the first.

Clients create, write, read and delete, and delete what `dir` lists, which may
be a name whose inode is free already: `delete_file` leaves the directory entry
behind. Two histories say what to make of the consequences. `again` counts
deletions of a free inode: each raises the free counters once more, and
`CountersFollowBitmaps` allows that much, and what a power loss leaves, and no
more. `mixed` notes that a command of the keyboard interrupt replaced the global
`inode` while a call was using it: `BlocksExclusive`, `ReadBack`,
`DanglingOnlyByDelete`, `ListedStays` and `LeaksAreKnown` speak of histories
without it; `CountersFollowBitmaps` holds with it too.

Assumed of the disk found (`MkfsAssumption`): its blocks are held once and marked
used, the root directory has no holes among its block pointers and nothing but
terminators behind the entries a walk visits (`Orderly`), and no free inode's slot
holds a regular file. All of it is true of `disk.img`, whose root directory has
one block with entries up to its last byte.

When a bitmap is full the code's search functions fall off their end, and what
their callers do with the undefined result writes anywhere on the disk. The model
stops at the search (`NoFreeBlock`, `NoFreeInode`, the step "lost"); no property
speaks of what follows.

All names having one length, which fills a block exactly, two branches of
`add_directory_entry` are not reached: a terminator with too little room behind
it (ext2.c:442, after 424 has set the size) and slack too small for the entry
(459). The model says nothing of directories with names of several lengths.

### Console

The interrupt handler runs to its end before `kmain` goes on, one character of
command output per action; `todo` is the stack of commands running inside one
another. In `kmain`'s writes every load, store and comparison of the cursor is an
action of its own, in the order of the source: after a glyph the column is stored
past it, compared with the margin, and put back if it is beyond, and then the row
in the same way (`Move`; terminal.c:156-178). A comparison looks at the value
just stored or loads it again, as a build may. So does `terminal_write` with
`accept_input` (`SaveAccept`, `BeginWrite`). A key may come between any two of
these: it is then drawn off the screen if `kmain` has stored a coordinate past
the edge and not yet put it back. `OffScreenOnlyMidMove` says that the cursor
is off the screen there only, by one glyph at most, and below the last row also
after a tab, which does not look; it does not say that no glyph is drawn there.
Orders of access that a compiler may choose other than the source's are not
modelled. Command names are one letter long; `Names` and `File`
are what `dir` and `cat` find. `OneCommandAtATime` and `OutputIsNotInput` hold of
names and files without a newline; `console_cat` shows what one does.

Assumed (`ScreenAssumption`, `TextAssumption`): the screen has room for its
margins and a glyph, the cursor has not left it sideways before interrupts are
on (`Start`), and texts are sequences of characters of `Char`; what `kmain` prints
has neither tabs nor backspaces in it.

### Keyboard

The handler is atomic, `keyboard_get_char` is not: it loads the character in one
action and moves the read index in the next, and the handler may run in between.
The keyboard queues scan codes (`codes`, external) that the handler takes one
at a time. `down` and `capitals` are the typist's side, as of the last code
queued; the case a letter was typed in travels with its code, so that
`CaseAsTyped` can compare it with the character the handler made of it, however
late. The code has one flag for two shift keys: `muddled` notes that one was let
go of while the other was held, after which the flag and the keys disagree until
both are up. Not modelled: extended (0xE0) codes, and a keyboard that overflows its own
queue. No key with a character is a shift key or caps lock (`KeyAssumption`), as
`keyboard_handle_irq` tests for those first. `Succ` is written as a case split, which the prover handles
better than the remainder; `MCKeyboard` has TLC compare the two.

### Interrupts, Rtc

A device's line is up or down (`high`); a controller latches its rise (`irr`),
serves it (`isr`) or masks it (`imr`). The keyboard and the clock hold their
lines up until read; the timer and the drive let theirs fall unread. A request
whose line has fallen may be answered as line 7 of its controller, a spurious
interrupt: the master then has nothing in service, or the cascade only.
`Deliver` is the processor taking the vector through its gate; a vector with no
gate, or with an exception's, ends in `exception_handler`, which halts. The
handler's device reads, its end of interrupt and its return are steps, between
which devices go on.

`Script` is `kmain`'s order: `rtc_init`, the checks that may stop it,
`rtc_read_time` with a step for each port access, then `idt_init`'s four parts.
`init_pic` makes the controllers forget their requests; a line that is up at that moment
may count as risen again or not (both are tried; `lost` notes the second). The
firmware's masks are all set; `init_pic` clears them all, so every line
is heard from then on, with a gate or without.

The clock counts seconds of a day of 24 hours in binary-coded decimals and
updates all its registers at once; it is followed until its time is written,
from any second of a day (`RtcAssumption`) and for at most `MaxSeconds`.
`Decimal` is `terminal_write_dec`.

### AtaPio

Every access to a register of the drive is an action of its own, in `kmain` or
in a command that the keyboard interrupt runs, which ends before `kmain` goes
on. `frame` holds the call under way in each; the drive's side (external) ignores
registers and commands while it is busy or waits for words, as QEMU's does, and
fails silently for sectors that do not exist. Four address bytes reach every
sector asked for, one past the disk's end included (`SizesAssumption`). `mixed` notes that a command of the
interrupt came after `kmain`'s first register write and before its last word:
the properties hold up to there. TLC also shows that this window is exact: with any of
its four parts taken out of `InTransfer`, `ReadIsExact` fails.

## 3. Runs

| run | question | bounds |
|---|---|---|
| `allocator` | types, `Accounting`, `FreeCountExact`, `HintBelowFree`, `OutOfMemoryIsReal`, `NoDoubleAllocation`, implements `FramePool` | 8 pages; a reserved and several usable entries, one reaching past the bitmap |
| `vm_low` | `PageTree`, `ReachableNotFree`, `NoMappingBeforePmm`, `LeaksAreKnown`; liveness `AccessAnswered` | two-entry tables, 5 usable frames, one of them in the direct map: the first page mapped takes four, the second runs out half way |
| `vm_high` | types, `TlbCoherent`, `FaultRepaired`, implements `AddressSpace` | the loader's tables with a read-only page, a hole, a huge page and a direct map of 4 KiB entries, one of which maps the first usable frame; 3 usable frames |
| `ext2` | types, `CountersFollowBitmaps`, `BlocksExclusive`, `ReadBack`, `DanglingOnlyByDelete`, `ListedStays`, `LeaksAreKnown` | 6 inodes, 8 blocks, 2 block pointers, 3 entries a block, 4 calls, 1 power loss, `dir` or `cat` at any moment, not followed once one has replaced the inode under an operation (`NotMixed`: the one property that speaks of what comes then, `CountersFollowBitmaps`, does not depend on the inode, and its theorem covers it); a fresh and a full root directory: it grows by a block, or cannot; files are rewritten, recreated, deleted twice |
| `console` | types and command-line bound, `OneCommandAtATime`, `OutputIsNotInput`, `OffScreenOnlyMidMove`; liveness `EndsAcceptingInput` | 4 keys of 10 at any moments of start-up, all commands, a line of 2 characters, a screen of 2 rows by 5 columns, so that `kmain`'s moves reach the margin and the last row |
| `keyboard` | `CaseAsTyped`, `LoadedIsHead`, implements `BoundedQueue` | a buffer of 3 places, one key, 3 codes the handler has not read: shift down, letter and shift up may all be waiting |
| `ata` | `ReadIsExact`, `WriteIsComplete`, `OnlyAskedSectorChanges`; liveness `CallReturns` | `ata_identify` and 2 calls of 1 or 2 sectors by `kmain` or the interrupt; 9 sectors with address bytes of 2 values, so that all four address registers matter; 2 words a sector |
| `interrupts` | `TimeIsRecent`, `NoRequestForgotten`, `NothingLeftInService`, `HaltsOnlyWithoutGate`; liveness `RequestsServed` | timer, keyboard, clock, mouse, drive; a start one second before an hour and before midnight, one second passing at any moment |

`MCInterrupts` and `MCKeyboard` also have TLC evaluate facts about pure functions: `Decimal` writes
every byte as its digits, `Converted` undoes `Bcd`, `Succ` is the remainder.

Each bound lets the case the property is about happen: the mutation of each
property, run under the same configuration, is found.

**Runs that find a violation**, each a disagreement of the code with its own
comments or messages:

| run | found |
|---|---|
| `ext2_listed` | a file entered in a new directory block has entry size 0 and is invisible to `dir`; the next one overwrites it |
| `ext2_new_block` | `find_free_block` is one block off on file systems whose first data block is 1; the first "new" block is lost+found's |
| `ext2_parent` | `cat` typed while `create_file` runs overwrites the global `inode`, and the parent directory's inode with it |
| `console_cat` | `cat` of a file with a newline runs itself again without end |

The current `kmain` calls none of `create_file`, `write_file` and `delete_file`:
the ext2 runs speak of any code that does.

**Fairness.** `VirtualMemory!FairSpec`: weak fairness of the steps of the
handler, `map_page` and the retried instruction; the processor executes the
instruction it is at. Nothing is assumed of clients. `Console!FairSpec`: weak
fairness of the handler and of `kmain`. Keys are bounded (`MaxKeys`), so `kmain`
is not interrupted for ever. `AtaPio!FairSpec`: weak fairness of the drive, which
finishes its commands, and of the accesses of each call; a polling loop is a step
enabled when its condition holds. `Interrupts!Spec`: weak fairness of `kmain`'s
steps and the handler's; strong fairness of the delivery of the keyboard's and
the clock's requests, since the processor takes any request that is the first in
line when it looks, and looks after every instruction. The lines above may keep
one from ever being first, so `RequestsServed` assumes of each line that the
requests above it let up again and again (`LetsUp`): the timer runs at 100 Hz
(`init_pit`) and the keyboard at the speed of a hand, while the handler takes
microseconds.

## 4. Proofs

`PageAllocator_proofs` holds for every number of pages, memory map and counter
width that satisfy `SizesAssumption` and `MemmapAssumption`:

* `WildTypeCorrect`, `TypeCorrect`: types, for any and for legal clients.
* `HintCorrect`: no free page below the hint. Inductive with the type invariant:
  an allocation sets the hint just past a page below which the scan found none,
  a free moves it back.
* `OutOfMemoryCorrect`: with that, a scan that finds nothing has seen every free
  page.
* `AccountingCorrect`, `FreeCountCorrect`: the bitmap and the counters. Neither
  is inductive. `AccountInv` adds that nothing changes before `pmm_init`
  (`Untouched`: it does not reset `used_pages` and the hint), and that
  `total_pages` is the number of usable pages (`CountersExact`). That counting a
  page once per entry counts it once (`CountedOnce`) is a bijection between
  entry-page pairs and pages, and needs the entries disjoint.
* `AllocationIsExclusive`: the page found is fresh (`FoundIsFresh`).
* `AllocatorImplementsPool`: initial states and steps map to `FramePool`'s,
  each action to one of the pool's.

`Keyboard_proofs` holds for every `KB_BUFFER_SIZE` above 0 and every set of keys.
`KeyboardInductive`: the types with `LoadedIsHead`, which needs both that the
handler never writes the slot at the read index of a buffer that is not empty and
that it never makes a full buffer look empty. From it `LoadedStaysHead`, and
`KeyboardImplementsQueue`: `PutAppends` and `ReturnTakesHead` follow the slots of
the ring one by one (`WaitingLen` bounds them), and every other step leaves the
queue alone.

`CharactersAsTyped` does not need the queue. The handler reads a code long after
it was queued, so `CaseInv` (`FlagsFollowCodes`) replays the codes that wait over
the handler's flags: at every code the flags so reached give the letter the case
it was typed in, and at the end they are the typist's own keys, the shift flag
unless `muddled`. The typist adds a code at one end (`ReadsMore`), the
handler takes one at the other.

`Interrupts_proofs` holds for a clock that starts at any time and, but for
`TimeCorrect`, runs for as long
as it likes. `ServiceCorrect`, `HaltsCorrect`: the invariant of both is in three
parts: what `kmain` has set up at each place of `Script`, and that nothing
interrupts it before the end (`BootInv`); that a handler's step is one of its line's, with
interrupts off (`HandlerInv`); and what is in service at each step (`ServiceInv`):
the line and the cascade until `send_eoi` (`EoiClears`), after a spurious interrupt of
the slave the cascade alone. `Places` finds the steps in `Script`.
`RequestsRemembered` is inductive with it: who takes a request away becomes its
handler (`Delivered`). `TimeCorrect` supposes `MaxSeconds <= 60`, that the time is
written within a minute of the start: in a longer start more than one carry
could come between the reads, and the time would be wrong in other ways. `TimeInv` says at each place of
`rtc_read_time` which register is selected and how long ago each field read so
far was right; the rest is arithmetic of carries, and that the digits written
are those of the number read.

`VirtualMemory_proofs` holds for every memory size, memory map, table size, set
of virtual pages, tree of tables the loader may hand over and direct map among
them. Its
first half is about one contents of memory: linking an empty table and writing a
leaf keep the tree a tree, and change what one virtual page translates to and
no other. The second half is the invariant (`Invariance`), in eight parts that need one another:

* `TypeInv`, and `AllocInv`: the bitmap marks what is reserved or handed out.
* `WellFormed`: the tables are a tree but for the direct map (`Counts` tells its
  entries from the others); no table or page is reached in two ways. The direct
  map's entries are in page tables, present and writable.
* `UseInv`: what is below the root is the loader's, or was handed out and is no
  longer held by a client; the frame `map_page` carries is not below the root yet.
  Without it `InstallTable` could link a table that is already linked.
* `WalkInv`, `FaultInv`: `map_page` stands on its own page's path, which no huge
  page cuts short and which does not end in the direct map: nothing above it
  changes while it allocates. A page of the direct map never faults
  (`DirectNeverFaults`, `HugeNeverFaults`).
* `TlbInv`: a cached translation is the walk's. `FixedInv`: the pages of the
  loader's map of physical memory are the same as at the start.

From it: types (`TypeCorrect`), `TablesAreATree`, `NothingLiveIsFree`,
`NoEarlyMapping`, `CacheAgrees`; of each step, `RepairsTheFault` and
`OnlyKnownLeaks`; and `TablesImplementAddressSpace`, each step of the machine
being one of the abstract map or a stutter.

`AtaPio_proofs` holds for every size of disk, sector, address byte and call.
`IInv` says, as long as nothing is `mixed`, where the drive stands for each place
of the running call (`InStep`), that a call the interrupt holds up has left
nothing in the drive but a sector being stored (`HeldUp`, `Stores`), and that
the sectors the call is done with are as they should be (`ReadSoFar`,
`WrittenSoFar`). That four bytes give back the sector number they were split from is
arithmetic proved once. `ReadsAreExact`, `WritesAreComplete` and
`OthersUntouched` follow.

`Ext2_proofs` and `Ext2Steps_proofs` hold for every size of a group, a directory block and an
inode, every number of calls and power losses, and every disk that `MkfsAssumption` admits:

* `TypeCorrect` needs that a walk of a directory block is well defined and ends
  inside the block (`Walk`: the visited entries are the solution of an equation,
  and the least set closed under it is one), and what the operation's
  locals hold at each step (`Control`).
* `CountersFollow`: `Counted` adds to each counter what the step between bitmap
  and counter still has to add (`Behind`); a power loss in between leaves a
  difference of one, a second deletion another.
* `NoBlockShared`, `FilesReadBack`: `Sound` says that blocks are held once both on the
  disk and in the table *with the inode in hand in its place* (`Ahead`), since an
  operation writes data before the inode that points at it; and that a block
  taken but not linked is held by neither.
* `NamesStay`, `NamesHaveFiles`, `LossesKnown`: `Ordered` adds that the inode in
  hand differs from the stored one only by new blocks (`InHand`), that a file is marked
  used (`Marked`), and that the root directory stays `Orderly`: without it, an
  entry added at the end of a walk could bring stale entries behind it to
  light, or a block pointed at behind a hole. The walk after an
  entry is added is found by exhibiting the solution of its equation (`OnlyWalk`).

`Console_proofs` holds for every screen, line length and text. `TypeCorrect` with the
stack of commands as sequences of printable characters (`Pending`);
`OnlyMidMove` from the places that the cursor and the value in `kmain`'s register can
have at each step of a move: `ColumnSafe` is part of the invariant, and every step but
a tab's keeps `RowSafe`. `CommandsFollow` and `PrintingIsNotTyping` suppose
`NoNewline`; their invariant `Single` says that the one command under way has
`accept_input` off. Without the hypothesis both are false (`console_cat`).

Every safety property of the passing runs is stated by a theorem. Only
model-checked: liveness (`AccessAnswered`, `EndsAcceptingInput`, `CallReturns`,
`RequestsServed`), since fairness and ENABLED are outside the prover's reach; the
violations; and the facts about all bytes and all times of a day that `MCInterrupts` evaluates.

## 5. Not modelled

* `find_first_free_group`, which nothing calls and which changes nothing. Block
  groups beyond the first: `create_file` takes inode and blocks from its parent's
  group, and the code computes every address from the group of the inode it was
  given, so further groups repeat the first.
* Whether the code's inode slots are the ext2 format's: `MCExt2` lays out the
  table as the code sees it. The tail of the superblock that `update_superblock`
  writes back unset; nothing in the kernel reads it.
* A clock of 12 hours or of binary numbers, or read in the middle of an update:
  `rtc_read_time` looks at neither the mode nor the update flag. The rate `init_pit` sets.
* What `kmain`'s checks and `find_module` look at: they stop the kernel or not.
* The user bit, and the page-table bits the kernel never sets.
* Torn writes of a block's two sectors in `Ext2`: `AtaPio` shows which tears there
  are, `Ext2` takes a block write as one step. The drive's own write cache.
* A missing drive, or one that is not a disk: `ata_identify` says so and the
  kernel goes on.
* Colours, lines, number formatting but the time's, the serial port, drawing, fonts, port
  instructions, the register save and restore of the interrupt stubs: data in, data out.
* The loader and the drive, except for what the code relies on.

## 6. Plan

What remains:

1. The steps under the liveness properties that are safety: that a polling loop
   of `AtaPio` is left once the drive is ready, that each step of the page-fault
   handler comes nearer its end, that `Console`'s output shrinks. With them
   liveness rests on fairness alone.
2. For `Ext2`, what holds after a command has replaced the global inode
   (`mixed`), beyond the counters.
3. For `Interrupts`, how far the written time is off when the start takes longer than a minute.
