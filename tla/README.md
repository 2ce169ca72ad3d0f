# A verification project for LumaOS

LumaOS is a 32-bit x86 teaching kernel (`src/`): one CPU, 4 MiB pages, an
ext2-like file system on an ATA disk, and a shell in user mode. This directory
holds TLA+ modules of its parts, TLC configurations that check them on small
instances, and TLAPS proofs about some of them. Everything is translated from
the C and assembly sources; line numbers in comments and in `PROJECT.json` are
those of `src/src/`.

## 1. Inventory

| Component (files) | State | Operations | Interacts with | What is hard |
|---|---|---|---|---|
| page-frame manager (`paging.c`) | frame bitmap, free counter, pool of directories | check, allocate and free a page, create and free a directory | called by the process manager, boot | first fit in a fragmented bitmap; counter and bitmap kept apart; reuse of directories |
| process manager (`process.c`) | process table, active count, last pid, CR3 | create (system call 30), destroy (32), list (33) | paging, file system (`read`), scheduler at boot | resources that run out half way; dead PCBs that keep pid and directory; CR3 switched while running on it |
| boot, scheduler (`kernel.c`, `scheduler.c`, `context-switch.s`) | `cur_idx`, PCB states | one switch to the shell | process manager | the switch reads a slot before the first |
| file system structures (`ext2.c`) | bitmaps, inode table, blocks | format, allocate node and block, sync node, map logical to physical blocks, write | disk driver; called by system calls, boot and the host's inserter | an inode table longer than its blocks; indirect blocks |
| file system calls (`interrupt.c`) | the disk image | create directory, copy, delete file, delete directory, list, search | `ext2.c`; called by the shell | several block writes per call with clean-up paths; a chain of variable records edited in place |
| shell commands (`builtin_commands.c`) | current inode and the path shown, apart from each other | cd, mkdir, cp, mv, rm, cat, find, exec, kill; ls, ps print | system calls, display | state kept across commands; three directory parsers of its own |
| shell loop (`user-shell.c`, `crt0.s`) | line, cursor column, row | prompt, poll, edit and echo, take the line apart, run it | keyboard through system call 4, display through 5 and 6 | polls race the keyboard interrupt; line, cursor and screen are moved apart |
| keyboard driver (`keyboard.c`) | character stack, modifier keys, on/off | interrupt handler, activate, read | shell loop | written by the interrupt, read by a system call, bounded |
| dispatch, descriptor tables (`interrupt.c`, `idt.c`, `gdt.c`, `intsetup.s`) | static tables | vector to handler | everything | every gate is an interrupt gate: handlers are atomic |
| disk driver (`disk.c`) | the image | read and write, block by block | `ext2.c` | the power may go off between two blocks |
| display (`framebuffer.c`) | cells by row and column | write a cell, clear | shell | a row behind the last is other memory |
| clock, speaker | ports | programmed I/O | shell programs | nothing that another component's state depends on |
| inserter (`external-inserter.c`) | the image, on the host | format, insert `shell` | `ext2.c` | replaces the last entry of the root |

What makes each correct:

* paging: counter = bitmap; a frame has one owner; a free directory is empty;
* processes: as many active PCBs as the count says, each with a directory of its
  own; pids that are never reused; a dead PCB that cannot reach live memory; the
  caller's address space restored after every call; all others untouched;
* file system: a block has one owner and is marked; every name leads to a live
  inode of its kind, every inode has one name; directory records do not overlap;
  directories form one tree that contains the shell's directory, under the path
  it shows; a command changes one name only; find tells where a name is; a power
  loss leaves each command done or not done, and costs a bounded amount of space;
* terminal: no accepted character is lost or doubled; cursor and screen stay with the
  line that is run; its words are the command's arguments; what waits is taken.

**Concurrency.** Handlers run with interrupts off and system calls come from one
process only: `scheduler_init` has no caller and the timer is never unmasked, so
the shell is the one process that runs after boot, and what it `exec`s stays
READY. The only real interleaving is the keyboard interrupt against the shell,
which `Terminal` models step by step.

## 2. Modules

| Module | Models | State and how it corresponds |
|---|---|---|
| `Paging` | `paging.c` | one record `mem`: `frame_map` (bits set), `free` (counter), `dir_used`, `table` (user half of each directory), `kernel` (directories whose entry 0x300 maps the kernel). Operators carry the C names; the loops of `process.c` over consecutive pages are the closed forms `AllocatePages` and `FreePages`, with the loops themselves (`AllocationLoop`, `FreeLoop`) beside them. `PagingSpec` issues single calls in any order. |
| `Process` | `process.c`, `kernel_setup`, exec and kill of the shell | EXTENDS `Paging`; `process_list`, `active_process_count`, `cur_idx`, `total_pid` as in the code, `cr3`, the stored `result`, and `machine` (booting, running, powered off, faulted). Actions `Boot`, `ExecRefused`, `ExecCreated`, `KillUnknown`, `KillProcess`, `KillStale`. |
| `ProcessTable` | abstract specification | live pids and the sets of frames they own; `Process` maps to it by `Table == INSTANCE ProcessTable WITH owner <- ...` |
| `Ext2` | `ext2.c`, the four modifying calls and `read` of `interrupt.c`, the shell's file commands, its search and find | `disk`: `imap`, `bmap`, `node`, `blk`; `current_inode`; `current_working_directory` (the path shown, as names); `pending` (mv between its copy and its delete); `result`; `buf` (what cat read). Each call has an operator for its return code, in the order of the code's checks, and one for the disk it leaves, clean-up paths included. A directory is the sequence of its entries with their offsets. |
| `FileTree` | abstract specification | a tree of folders and files, a place in it, what was shown |
| `Ext2Tree` | the tree that an image stands for | EXTENDS `Ext2`; the refinement mapping of `Ext2` and `Ext2Power` to `FileTree`, `FT == INSTANCE FileTree WITH tree <- Tree, where <- current_working_directory, shown <- buf` |
| `Ext2Power` | the same calls, write by write; `disk.c`'s `write_blocks`; the boot from what is left | EXTENDS `Ext2Tree`; each call as the sequence of its block writes (`create_directory_writes`, `copy_file_writes`, `rm_writes`); `running`, `cuts` and `torn` (names whose removal was cut short) |
| `Terminal` | `keyboard.c`, the loop of `user-shell.c`, `print_char` and `print_string` | driver state, shell step, last character `c`, line, cursor column and row, the cells written behind the prompt; history `typed`, `taken`, `raced`, `prompt_row` |
| `CommandLine` | `process_command` of `user-shell.c`; `int_to_string` and `string_to_int` of `builtin_commands.c` | pure operators on a line and on a number |
| `PagingMC`, `ProcessMC`, `Ext2MC`, `Ext2PowerMC`, `TerminalMC` | | values for TLC; `TerminalMC` also joins `Terminal` and `CommandLine` |
| `NatSets_proofs` | | lemmas on sets of numbers: least member, rank, first fit by rank, bounded induction, functions that are given by a first value and a step |
| `Paging_proofs`, `Process_proofs`, `ProcessTable_proofs` | | theorems about paging and processes, and that these implement `ProcessTable` |
| `Ext2_proofs`, `Ext2Tree_proofs` | | theorems about the image, and that the file commands implement `FileTree` |
| `Ext2Power_proofs` | | theorems about the image under power losses |
| `Terminal_proofs` | | theorems about the terminal, the line and the numbers |

`Process` composes `Paging` (by EXTENDS, so that one handler is one action over
both), `Ext2Power` composes `Ext2` with the power, and `TerminalMC` the line editor
with the parser of the line it edits. The operators with "Mutated" in their comment are wrong on purpose: each is a
plausible slip in the definition that follows it, and the property it is paired
with in `PROJECT.json` fails when it takes that definition's place.

### Abstractions

* A page is a page number; frames, directories, blocks and inodes are small
  integers, because first-fit order matters. Frame contents are not modelled, but
  for `loaded`: whether the executable was read.
* File data is the pair (file, position); a directory entry's type, inode, name
  and offset are kept, its padding is not. `rec_len` is the distance to the next
  entry, as in every block this code writes.
* The double indirect level of `ext2.c` is left out: the one file the image gets
  from outside is far smaller, and no system call adds a block to a file.
* Free-block and free-inode counters in the superblock and the group descriptor are
  written and never read by a decision; they are left out.
* The user types neither `.` nor `..` as a new name. (The root lost its `..` to the
  inserter, so that `mkdir ..` there would succeed.)
* `cd ..` goes to the root from everywhere: that is what `handle_cd` does.
* The path that `cd` builds is a sequence of names; the 256 bytes it has are not
  modelled (`hazards`), and neither are the 512 of the path that `find` prints.
* `find` changes neither the disk nor the shell's place, so that it is an operator on them, `handle_find`, which the
  property asks in every state, and no action. It refuses without searching in the last
  rows of the screen (`FIND_ROWS`, 18). The row in which it begins is a parameter, for which
  `OutputRows` are the values to try, as `current_output_row` depends on all that was printed before;
  the theorems hold for every set of rows. What the user gets is an `Answer`: a
  refusal, that there is none, or a path.
* Tab and Esc are one key of `Terminal`: the driver stores their characters, the shell takes them
  and does nothing.
* A write of one block is done or not done. `sync_node` writes the inode table block by
  block and a record of 70 bytes may straddle two of them, so that a record is two
  writes (`NodeWrites`); every other write of a call is one block.
* `Ext2Power` assumes of the user (`Careful`) that a removal which was cut short is
  repeated before anything is created. Without that the claims of `NamesSurvivePower` are
  false: the next file gets the inode and the blocks of the old name. That the entry is
  written last makes creation all or nothing; a removal would be too, had it
  written the entry first.
* The length of the prompt is a constant of `Terminal`; a `cd` changes it between
  two lines only. What a command prints is a number of rows. The clock in the corner is
  left out.
* A number is its sign and its digits; the arithmetic on it wraps at `INT_MAX`.
* After `exit`, `crt0.s` makes system call 11, which halts with interrupts off.

## 3. Runs

Passing runs:

* `paging` (`PagingMC.cfg`, 7,672 states): 4 frames, 2 directories and the
  kernel's, 3 pages and the first kernel page. Two directories can exhaust the
  frames, fragment the bitmap and reuse each other's slots; the calls that are
  refused occur in every state. `LoopsAgree` compares the closed forms with the
  loops from each reachable memory.
* `process` (`ProcessMC.cfg`, 80,039 states): 4 slots, 5 directories, 8 frames, 6
  pids; programs of 2 and of 5 pages, and requests that fail each guard. Slots,
  frames and pids all run out, slots are reused with other processes alive, and a
  process is created with some of its pages missing. Deadlock is checked: the
  stopped machine has a step of its own. It checks eight invariants,
  `OthersUntouched`, and the refinement `ImplementsTable`.
* `ext2` (`Ext2MC.cfg`, 173,075 states): 4 inodes, 8 blocks, 2 direct pointers and
  an indirect table of 2, so that the shell's program needs the table as it does
  in reality; a directory block that three names fill (46 bytes), so that none fits
  behind one that was removed. Inodes,
  blocks and directory space run out at different points of a call; directories
  nest; inode numbers and blocks are reused in other places; cat has a buffer that
  holds every file and one that does not. `ImplementsFileTree` is the refinement: every
  command changes one name of the tree in the folder whose path the shell shows, or
  nothing, and cat shows a file whole. `FindIsRight` looks for every name from every state,
  with a depth small enough that some names lie below it, a root whose first record can
  become too long for the search, in the last row in which find searches (17) and the first
  in which it refuses (18). With 6 columns the longest name's heading leaves only the
  last row in which a hit is printed (21).
* `ext2_power` (`Ext2PowerMC.cfg`, 234,910 states): the same calls with 5 blocks and no
  indirect table, and two power losses, each between any two writes of any call, of the
  failing ones too: enough for a second loss to meet what the first one left. Deadlock is
  not checked, because without a shell in the image the machine stops at the boot.
  `WritesMakeTheCall` ties the sequences of writes to the calls of `Ext2`; it is proved, too.
* `terminal` (`TerminalMC.cfg`, 2,247,217 states): 5 keys pressed at any moment, a
  buffer for 2, a line of 4 on a screen of 3 rows and 3 columns with a prompt of one cell,
  so that the line wraps behind its second character and ends in the second row. Five keys
  are enough for a full buffer, for erasures behind a wrap, and for a full line
  with another key waiting behind the refused one. `MaxPresses` bounds the run;
  `MaxOutput` the rows that a command prints, which is enough to come to the last row by
  any number of commands. `LinesReadAsWords` reads all lines of up to 7 characters,
  `NumbersReadBack` all numbers of a signed byte.

Runs that refute what a comment, a message or a return code says (`findings` in
`PROJECT.json` quotes the line):

* `process_memory`: `paging_allocate_check` is handed frames where it takes bytes, so a
  process is created that lacks pages.
* `process_read`: a process is created although its executable could not be read.
* `process_kill`: killing the pid of a dead process loads its cleared directory.
* `ext2_copy`: `cp` copies the direct blocks only and reports success.
* `ext2_leak`: deleting a file leaks its indirect table and what it lists.
* `ext2_inodes`: the inode table is longer than its blocks (32 records of 70
  bytes in 4 blocks of 512): with `StoredInodes` smaller than `INODES_PER_GROUP`, a directory
  made in the last records is none. The passing run has all records stored, which
  is the state of the system up to inode 29; record 30 keeps its first two pointers.
* `ext2_search`: the shell's search gives up at a record of more than 500 bytes,
  which a valid directory may contain. The 500 of 512 is `BLOCK_SIZE - 12` here.

Fairness is assumed in `Terminal` only: weak fairness of the shell's steps. The
shell is the one process that runs and a keyboard interrupt returns to it, so an
enabled step of it is taken; nothing is assumed of the keys. `Drained` says that the
buffer is empty in the end, and that the shell polls again and again until it halts. The other components
react to calls and have no liveness of their own.

## 4. Proofs

The proof modules prove, for all sizes of the machine and of the image:

* `PagingConsistent`, and from it `PagingTypeCorrect`, `CounterSafe`, `FramesSafe` and
  `DirectoriesSafe`: every history of paging calls keeps the record well
  typed, counter and bitmap equal, frames mapped once, directories prepared exactly
  while in use (`MemoryOK`). One lemma per operator; the closed forms of the loops
  need `RankInjective`: the frame of rank i is found by exactly one call.
* `LoopsCorrect`: the closed forms are the loops of `process.c`, call after call
  (`LoopsAgree`), from every memory that the calls can come to.
* `TypeCorrect`, `MemorySafe`, `CountSafe`, `DirectoriesOwned`, `MappingsSafe`, `PidSafe`,
  `StaleSafe` and `CallerSafe` of `Process`, with `OthersSafe` (a call changes the control
  block and the memory of the process that it is about, and of no other) and `Implements`:
  `Process` implements the abstract `ProcessTable`.
* `MetadataTyped`, `BlocksHaveOneOwner`, `NamesAgree`, `TablesStayChains`, `ParentsLeadBack`,
  `NothingIsCutOff` and `CommandsLeaveOthers` of `Ext2`: all its invariants and its action property.
* `ShownPathLeadsThere` and `CommandsImplementTree`: the file commands implement `FileTree`.
* `FindSafe`: what find prints is there, it prints something unless it refuses for want of rows, and then it
  finds all that is within its reach (`FindIsRight`).
* `DiskStandsForAnImage`, and from it `NamesOutlivePower`, `RemovalsRepeat`, `LossIsBounded`,
  `FindOutlivesPower` and `PowerLossKeepsTree`: with any number of power losses, after any write of any call, the names lead
  where they led, and `Ext2Power` implements `FileTree` too.
* `TypeCorrect`, `NothingLostSafe`, `OrderSafe`, `CursorSafe`, `ScreenSafe` and `RowsSafe` of
  `Terminal`: all the invariants of that module, for every size of the buffers and of the
  screen, every prompt that fits into a row, and any number of keys.
* `LineParsed`, and from it `LinesSafe`: a line of any length over any characters is taken apart into
  its words. `NumeralsCorrect`, and from it `NumbersSafe`: what `string_to_int` reads from what
  `int_to_string` wrote is the number, for every number that fits an int and every `INT_MAX`.

### The loops of paging

`LoopsCorrect` is an induction on the number of calls, of which the next one is made on what the closed
form says of those before. It takes the first free frame, and with k frames taken that is the free
frame of rank k (`TakenStep`); so the k + 1 first calls make what the closed form for k + 1
says (`AllocateStep`, also when no frame is left; `FreeStep` for the releases). `AllocatedAs` and `ReleasedAs`
name the fields of what a closed form gives. A recursive function is known only by its equation, so
`RecursionExists` first gives a function that satisfies it, and the closed forms are that function.

### Processes

The invariants are not inductive as they stand. That a dead PCB's directory is never in
use by a live process depends on how two scans work together: slots are taken from
the top of the list downwards, directories from the bottom upwards, and a slot and
its directory are always released together. `IInv` therefore adds `Lockstep` (slot s
was never used, or holds directory `Twin(s)`: 0 for slot 0, `PROCESS_COUNT_MAX - s`
for the others) and `Phase` (nothing has happened before boot; the shell sits in slot
0 afterwards). `Lockstep` gives `StaleNeverAliases` (`StaleFromLockstep`), and the step
lemmas `BootStep`, `ExecCreatedStep`, `KillProcessStep`, `KillStaleStep` and
`RefusedStep` give the induction.

The refinement needs one fact more, `CallerIsFirst` (the shell, as long as it runs, is the first
active process, so that what is granted or killed is another one); `RInv` joins it to `IInv`.
`CreationEffect` and `DestructionEffect` say what a call makes of every slot, by lemmas on the
frames that a directory maps; `AcceptedIsGranted` turns the checks of the code into the guard
of the abstract action. With `PidNamesSlot` the owner of a pid is one slot's frames.

### The image

`DiskOK` is the invariant of the image: shapes of inodes (`DirShape`, `FileShape`), one owner for each
block, chains of records, names that agree with inodes, parents, and `Rooted`. `Rooted` is
what makes the directories one tree: every set that contains the root and is closed under
"lists" contains every live inode. It says so without a path or a count, and is preserved by an
entry that is added or removed directly; from it `LevelsReachAll` proves the form that TLC checks (`NoOrphans`,
which follows the directories level by level) with a pigeonhole on the levels.
There is one lemma per way in which a call changes the image: `AddOK` (a name is added), `RemoveOK` (a
name and its inode are removed), `CleanedUpOK` (a call failed after it took inodes
and blocks, and the bits it gave back, some with the indirect table's blocks still marked). `MkdirOK` and
`CopyOK` say which of them a whole call is, for all its return codes.

The hypothesis `[]AllStored` of these theorems is that no live inode has a record behind the blocks of the
inode table. The system does violate it (the run `ext2_inodes`): 32 records of 70 bytes
do not fit into 4 blocks of 512, and a directory made in such a record is lost when
it is written. The theorems say that everything else is right until then. `WholeTableStores` proves the hypothesis where the
table has a place for each record, so that the theorems hold there without it.

`PathInv` in `Ext2Tree_proofs` gives each live inode a path (`Named`: the root's is empty, a child's is
its parent's and its name) and says that the path shown by the shell is that of its
directory. `LocatedAll` proves that the recursive search of `Ext2Tree` finds exactly the live inodes,
each under its path; `TreeIs` gives the tree from it. `TreeKept`, `TreeGrown` and `TreeShrunk` say what an image
with the same names, one more and one less means for the tree, whichever inodes are
given out again; `CopyContent` that the copy of a file of direct blocks has the content of its source.

`FindSafe` speaks about the recursive search by two inductions on the number of directories that it may still enter.
`SearchIsSound`: what it finds in a directory is the rest of the path of a live inode (`WayFrom`), because
the entry it stops at is one that the directory lists (`OneDirectory`). `SearchIsComplete`: `PathSteps` cuts the path of
the inode that is looked for into directories each of which lists the next, and from each of them the search finds
something, if not that inode, then another of the name. `Regular` says that every name stands before the
first record that is too long. It counts the record of `.`, too: when the names behind it are removed, `.`
takes in their records, and a name behind a `.` of more than 500 bytes is not found. The search reads inodes and
blocks and no bitmap (`SameSearch`), so that both inductions, made on the sound image for which a disk
stands, give `FindOutlivesPower`, too.

### Power losses

No invariant of `Ext2` survives a power loss as it stands: bits stay marked that nothing owns, and a removal
that was cut short leaves a name whose inode and blocks are marked as free. What is inductive is
`PowerInv`: there is a sound image h (`DiskOK`, with the paths of `Named`) for which the disk stands (`Stands`):

* `Kept`: the disk has h's inode records and h's blocks, and h's bits but for those
  that the removals cut short (`torn`) have given back already; what such a name leads to is a leaf of the tree
  (a file, or an empty folder);
* `Lost`: of the bits that the disk has and h has not there are at most `cuts` inodes and `DIRECT * cuts` blocks;
* `Tight`: h has no marked block without an owner, when no file is longer than its direct pointers.

`MkdirCut`, `CopyCut` and `RmCut` say what the disk is after any number of a call's writes. Before its last
write a creation has only touched what h does not use (`StrayedStands`); a removal has only given back bits
(`TornStands`), and only its last write changes what a name says. A whole call is made on the disk
and, with the same inode and block numbers, on h (`MadeStands`, `RemovedStands`). That `allocate_node`
and the block allocator see the disk's bitmaps, with more bits than h's, is the reason why the lemmas of `Ext2_proofs`
(`MkdirOn`, `CopyOn`) take the numbers as free in h rather than as the first free ones.
`Careful` is needed there: with `torn` empty the disk marks all that h marks.

`WritesMakeTheCalls` ties the sequences of writes to the calls: `Fields` carries the bitmaps, records and
contents of an image from one write to the next, and `MkdirResult`, `CopyResult` and `RmResult` add up the writes of each call,
those of the data blocks (`DataResult`) and of the cleared bits (`ClearedResult`) by induction on their number. It holds in the states of
`PowerInv` in which the directory's block is marked, as `Careful` makes sure.

`LossIsBounded` assumes `ShellSize <= DIRECT`. Without it the bound is wrong even when the power never fails, because
a removal leaks the indirect table of a longer file (the run `ext2_leak`).

### The terminal

`IInv` of `Terminal_proofs` adds to the invariants of the driver that it is `Silent` until the
shell switches it on and that without a race at most one character waits (`OneWaits`): from
that the order follows, although the buffer is a stack. To those of the line it adds
`OnlyLineCells`: what is written behind the prompt are cells of the longest line. The
arithmetic of rows and columns is in `Division`, `OneDivision` and `CellsDiffer`: the position
of a character determines its cell, and different positions have different cells. With them
`EchoStep` and `EraseStep` show that the cell that is written is the one behind the line.

### Lines and numbers

The positions at which `process_command` cuts a line are least members of sets of positions. `NextWord` says that
from one cut to the next lies one word and no part of another, `NthWord` that this is word k when k - 1 words begin
before it: the words of a line are ordered by where they begin, and `WordsBefore` is the rank in this
order. `LineParsed` adds them up for lines of none, one, two and more words.

The digits are written the lowest first and then turned round. `LowSteps` describes `LowFirst` by its last step,
`ReverseFirst` makes of it a step at the front, and `ValueAppend` says what one more digit makes of the
value that was read. `DigitsReadBack` is the induction on the number that is left to print. No
result on the way is larger than the number itself, so `AsInt` wraps nothing.

### Assumptions

`PagingAssumption`, `ProcessAssumption`, `Ext2Assumption`, `TerminalAssumption` and `CommandLineAssumption`, in the modules that declare
the constants. Those that matter:

* `PROCESS_COUNT_MAX <= PAGING_DIRECTORY_TABLE_MAX_COUNT` (16 and 32 in the code);
* no name is `.` or `..`: rm refuses both (`builtin_commands.c:713`) and cd treats them
  apart (`:299`, `:314`); `.none` is the model's word for no name;
* a directory block has room for its first two entries and the shell's, which the image has, and for a
  whole record of 32 bytes, as 512 bytes have; the disk has room for the shell;
* `FindAssumption`: what find prints first, a heading of 15 characters and the name, ends above the last row
  for a hit. With the code's 18, 22 and 80 that is so for every name of up to 255 characters (18 + 270 / 80 < 22).

### Only model-checked

* `Drained`: liveness under fairness.
* What the runs of section 3 refute.

## 5. What the models take for granted

* Boot finds the shell on the disk and there is memory for it.
* After `release_memory` cleared the directory in CR3, the few instructions until the
  caller's directory is loaded run on cached translations. Without them the kernel
  would fault at the first kill of any process.
* The disk writes a block whole or not at all, and in the order of the calls.
* The image is the one the makefile builds: formatted, with `shell` inserted.

## 6. Not modelled

* Descriptor tables, the port protocol of the disk driver, clock, speaker, string helpers and
  the test program: static tables and I/O that the modelled state does not depend on.
* What ls, ps and help print, and cat's loop over what it read. That loop looks for the name a
  second time, in user mode, in tables that user mode never read; it is entered only
  by files that fit into cat's 8 KiB, and the one file of the image is larger.
* The wording of messages. rm knows the codes 1, 2 and 3, while the kernel returns -2, -3
  and -7, so that what it prints is not what happened; the disk is as modelled.
* `move_file` (system call 29), `delete_file` of `ext2.c`, `keyboard_state_deactivate` and the
  timer scheduler have no caller.
* A format that is cut short: only the host formats.

`hazards` in `PROJECT.json` lists what no property covers, with the reason.

## 7. Plan

Done, in this order: `Paging`, `ProcessTable` and `Process`, their proofs, `Ext2`, `Terminal`,
`FileTree` and the refinement, `Ext2Power`, `CommandLine`, the proofs about `Terminal`, the
proof that `Process` implements `ProcessTable`, the proofs about `Ext2`, `Ext2Power` and that both implement `FileTree`,
those about the loops of paging, the words of a line, the numbers of processes, and find.

Next:

1. `read` and `exec` together: the image that `ExecCreated` loads comes from `Ext2`, as the
   shell's `exec` finds it.
