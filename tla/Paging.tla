------------------------------- MODULE Paging -------------------------------
(***************************************************************************)
(* The page-frame manager of the kernel (paging.c): a bitmap of 4 MiB       *)
(* physical frames with a free counter, and a pool of page directories.    *)
(*                                                                         *)
(* The whole memory state is one record, so that the handlers that call    *)
(* several operations in a row (process creation and destruction) are      *)
(* compositions of the operators below.  On its own the module is also a   *)
(* state machine in which a caller issues single operations in any order.  *)
(***************************************************************************)
EXTENDS Integers, FiniteSets

CONSTANTS
  PAGE_FRAME_MAX_COUNT,             \* physical frames, frame 0 included
  PAGING_DIRECTORY_TABLE_MAX_COUNT, \* directories in page_directory_list
  PAGE_FRAME_SIZE,                  \* bytes in a frame, and in a page
  UserPages                         \* pages below the kernel half (768)

ASSUME PagingAssumption ==
  /\ PAGE_FRAME_MAX_COUNT \in Nat /\ PAGE_FRAME_MAX_COUNT > 1
  /\ PAGING_DIRECTORY_TABLE_MAX_COUNT \in Nat \ {0}
  /\ PAGE_FRAME_SIZE \in Nat \ {0}
  /\ UserPages \in Nat \ {0}

VARIABLE mem

Frames    == 1 .. PAGE_FRAME_MAX_COUNT - 1   \* frame 0 holds the kernel
NoFrame   == 0                               \* an entry with present_bit 0
Pages     == 0 .. UserPages - 1
Dirs      == 0 .. PAGING_DIRECTORY_TABLE_MAX_COUNT - 1
KernelDir == PAGING_DIRECTORY_TABLE_MAX_COUNT  \* _paging_kernel_page_directory
AllDirs   == Dirs \cup {KernelDir}
EmptyTable == [p \in Pages |-> NoFrame]

\* frame_map: the frames whose page_frame_map bit is set; free: the counter;
\* dir_used: page_directory_used; table: the user half of every directory;
\* kernel: the directories whose entry 0x300 maps the kernel.
Memory == [frame_map : SUBSET Frames,
           free      : Int,
           dir_used  : SUBSET Dirs,
           table     : [AllDirs -> [Pages -> Frames \cup {NoFrame}]],
           kernel    : SUBSET AllDirs]

\* Static initialisers, after the loader dropped the identity mapping.
MemoryAtReset ==
  [frame_map |-> {},
   free      |-> PAGE_FRAME_MAX_COUNT - 1,
   dir_used  |-> {},
   table     |-> [d \in AllDirs |-> EmptyTable],
   kernel    |-> {KernelDir}]

CeilDiv(a, b) == (a + b - 1) \div b

paging_allocate_check(m, amount) == m.free >= CeilDiv(amount, PAGE_FRAME_SIZE)

\* Mutated scan for the checks: the kernel's frame is not marked as used.
FreeFramesWithKernel(m) == (Frames \cup {0}) \ m.frame_map

\* The frames whose bit is clear; the bit of frame 0 is set at reset.
FreeFrames(m) == Frames \ m.frame_map
Mapped(m, d)  == {p \in Pages : m.table[d][p] # NoFrame}

\* Mutated scan for the checks: the bitmap is not consulted.
FirstFreeFrameIgnoringMap(m) == 1

\* The first-fit scan of the frame map.
FirstFreeFrame(m) ==
  CHOOSE f \in FreeFrames(m) : \A g \in FreeFrames(m) : f <= g

CanAllocate(m, d, p) ==
  /\ paging_allocate_check(m, 1)
  /\ p \in Pages
  /\ m.table[d][p] = NoFrame
  /\ FreeFrames(m) # {}

paging_allocate_user_page_frame(m, d, p) ==
  IF CanAllocate(m, d, p)
  THEN LET f == FirstFreeFrame(m)
       IN  [m EXCEPT !.frame_map = @ \cup {f}, !.free = @ - 1,
                     !.table[d][p] = f]
  ELSE m

\* Mutated free for the checks: a page that is not present is counted as freed.
FreeFrameUnchecked(m, d, p) ==
  IF p \in Pages
  THEN [m EXCEPT !.frame_map = @ \ {m.table[d][p]}, !.free = @ + 1,
                 !.table[d][p] = NoFrame]
  ELSE m

paging_free_user_page_frame(m, d, p) ==
  IF p \in Mapped(m, d)
  THEN [m EXCEPT !.frame_map = @ \ {m.table[d][p]}, !.free = @ + 1,
                 !.table[d][p] = NoFrame]
  ELSE m

\* The first unused slot of page_directory_list.
IsFirstUnusedDir(m, d) ==
  /\ d \in Dirs \ m.dir_used
  /\ \A e \in Dirs \ m.dir_used : d <= e

\* What paging_create_new_page_directory does to the slot d it found.
paging_create_new_page_directory(m, d) ==
  [m EXCEPT !.dir_used = @ \cup {d}, !.table[d] = EmptyTable,
            !.kernel = @ \cup {d}]

\* Mutated free for the checks: the entries are kept for the next owner.
FreeDirectoryKeepingEntries(m, d) ==
  IF d \in m.dir_used
  THEN [m EXCEPT !.dir_used = @ \ {d},
                 !.frame_map = @ \ {m.table[d][p] : p \in Mapped(m, d)},
                 !.free = @ + Cardinality(Mapped(m, d)),
                 !.kernel = @ \ {d}]
  ELSE m

\* A directory that is not in use, or not in the list, is left alone.
paging_free_page_directory(m, d) ==
  IF d \in m.dir_used
  THEN [m EXCEPT !.dir_used = @ \ {d},
                 !.frame_map = @ \ {m.table[d][p] : p \in Mapped(m, d)},
                 !.free = @ + Cardinality(Mapped(m, d)),
                 !.table[d] = EmptyTable,
                 !.kernel = @ \ {d}]
  ELSE m

-----------------------------------------------------------------------------
(***************************************************************************)
(* The two loops of process.c over consecutive pages, in closed form.       *)
(* Rank(m, f) frames are free below f, so the i-th call of the allocation   *)
(* loop finds the free frame of rank i, as long as one is left.             *)
(***************************************************************************)
Rank(m, f) == Cardinality({g \in FreeFrames(m) : g < f})

\* Mutated loop for the checks: one page too many.
TakenOneMore(m, first, n) ==
  {f \in FreeFrames(m) : /\ Rank(m, f) <= n
                         /\ Rank(m, f) < m.free
                         /\ first + Rank(m, f) \in Pages}

\* The frames that n calls take for the pages first, first + 1, ...
Taken(m, first, n) ==
  {f \in FreeFrames(m) : /\ Rank(m, f) < n
                         /\ Rank(m, f) < m.free
                         /\ first + Rank(m, f) \in Pages}

\* d is a directory whose user half is empty.
AllocatePages(m, d, first, n) ==
  LET taken == Taken(m, first, n)
  IN  [m EXCEPT
        !.frame_map = @ \cup taken,
        !.free = @ - Cardinality(taken),
        !.table[d] =
          [p \in Pages |->
             IF \E f \in taken : first + Rank(m, f) = p
             THEN CHOOSE f \in taken : first + Rank(m, f) = p
             ELSE NoFrame]]

\* Mutated loop for the checks: pages that were not mapped count as well.
FreePagesAllCounted(m, d, pages) ==
  [m EXCEPT
     !.frame_map = @ \ {m.table[d][p] : p \in pages \cap Mapped(m, d)},
     !.free = @ + Cardinality(pages),
     !.table[d] = [p \in Pages |-> IF p \in pages THEN NoFrame ELSE @[p]]]

FreePages(m, d, pages) ==
  LET gone == pages \cap Mapped(m, d)
  IN  [m EXCEPT
        !.frame_map = @ \ {m.table[d][p] : p \in gone},
        !.free = @ + Cardinality(gone),
        !.table[d] = [p \in Pages |-> IF p \in gone THEN NoFrame ELSE @[p]]]

\* The memory after n calls of the loops themselves, one page after the other.
AllocationLoop(m, d, first, n) ==
  LET After[k \in 0 .. n] ==
        IF k = 0 THEN m
        ELSE paging_allocate_user_page_frame(After[k - 1], d, first + k - 1)
  IN  After[n]

FreeLoop(m, d, first, n) ==
  LET After[k \in 0 .. n] ==
        IF k = 0 THEN m
        ELSE paging_free_user_page_frame(After[k - 1], d, first + k - 1)
  IN  After[n]

-----------------------------------------------------------------------------
\* The component alone: a caller that only names directories it was given.
HeldDirs == mem.dir_used \cup {KernelDir}

PagingInit == mem = MemoryAtReset

AllocateUserPage(d, p) == mem' = paging_allocate_user_page_frame(mem, d, p)
FreeUserPage(d, p)     == mem' = paging_free_user_page_frame(mem, d, p)

CreateDirectory ==
  \E d \in Dirs : /\ IsFirstUnusedDir(mem, d)
                  /\ mem' = paging_create_new_page_directory(mem, d)

FreeDirectory(d) == mem' = paging_free_page_directory(mem, d)

\* Page number UserPages is the first page of the kernel half.
PagingNext ==
  \/ \E d \in HeldDirs, p \in 0 .. UserPages : AllocateUserPage(d, p)
  \/ \E d \in HeldDirs, p \in 0 .. UserPages : FreeUserPage(d, p)
  \/ CreateDirectory
  \/ \E d \in AllDirs : FreeDirectory(d)

PagingSpec == PagingInit /\ [][PagingNext]_mem

-----------------------------------------------------------------------------
(***************************************************************************)
(* Properties of a memory state m.  They are also the part of the process   *)
(* manager's invariant that speaks of memory.                               *)
(***************************************************************************)
\* The counter that paging_allocate_check tests agrees with the bitmap that
\* the first-fit scan reads: a check that succeeds always finds a frame.
FrameAccounting(m) == m.free = Cardinality(FreeFrames(m))

\* No frame is mapped twice, in one directory or in two.
FrameExclusive(m) ==
  \A d, e \in AllDirs : \A p, q \in Pages :
    (m.table[d][p] # NoFrame /\ m.table[d][p] = m.table[e][q])
      => d = e /\ p = q

\* A frame is marked used exactly when a directory maps it: nothing leaks and
\* no mapped frame can be handed out again.
NoFrameLeak(m) ==
  m.frame_map = UNION {{m.table[d][p] : p \in Mapped(m, d)} : d \in AllDirs}

\* A directory is prepared (kernel half mapped) exactly while it is in use,
\* and holds no user page when it is not.
DirectoryLifecycle(m) ==
  /\ m.kernel = m.dir_used \cup {KernelDir}
  /\ \A d \in Dirs \ m.dir_used : m.table[d] = EmptyTable

MemoryOK(m) ==
  /\ m \in Memory
  /\ FrameAccounting(m)
  /\ FrameExclusive(m)
  /\ NoFrameLeak(m)
  /\ DirectoryLifecycle(m)

\* The type invariant of the component's record (paging.c:12-30 and 278-285).
PagingTypeOK == mem \in Memory

\* FrameAccounting in every reachable state (paging.c:71-75 against 98-110).
FramesCounted == FrameAccounting(mem)

\* FrameExclusive and NoFrameLeak in every reachable state: the bitmap and the
\* directories never disagree about who owns a frame (paging.c:77-185, 335-384).
FramesOwnedOnce == FrameExclusive(mem) /\ NoFrameLeak(mem)

\* DirectoryLifecycle in every reachable state (paging.c:287-384).
DirectoriesPrepared == DirectoryLifecycle(mem)

\* The closed forms that the process manager is written with compute what the
\* loops of process.c:107-111 and 57-62 compute, from every reachable memory.
LoopsAgree ==
  \A d \in HeldDirs, first \in 0 .. UserPages, n \in 0 .. UserPages + 1 :
    /\ mem.table[d] = EmptyTable
         => AllocatePages(mem, d, first, n) = AllocationLoop(mem, d, first, n)
    /\ FreePages(mem, d, first .. first + n - 1) = FreeLoop(mem, d, first, n)
=============================================================================
