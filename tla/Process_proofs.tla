---------------------------- MODULE Process_proofs --------------------------
(***************************************************************************)
(* The safety properties of the process manager, for every number of slots,  *)
(* frames, directories and pages and every set of requests.                *)
(*                                                                         *)
(* The properties are not inductive on their own: that a dead PCB's          *)
(* directory is never in use again (StaleNeverAliases) follows only from     *)
(* the fact that slots are taken from the top of the list while directories *)
(* are taken from the bottom of theirs, so slot N - k always goes with      *)
(* directory k (Lockstep).                                                 *)
(***************************************************************************)
EXTENDS Process, Paging_proofs

USE PagingAssumption, ProcessAssumption

\* The directory that goes with a slot.
Twin(s) == IF s = 0 THEN 0 ELSE PROCESS_COUNT_MAX - s

\* A slot is untouched, or holds the directory that goes with it.
Lockstep ==
  \A s \in Slots :
    IF process_list[s].pid = 0 THEN process_list[s] = EmptyPCB
                               ELSE process_list[s].dir = Twin(s)

\* Before boot nothing has happened; afterwards the shell sits in slot 0.
Phase ==
  IF machine = "boot"
  THEN /\ mem = MemoryAtReset
       /\ process_list = [s \in Slots |-> EmptyPCB]
       /\ active_process_count = 0
       /\ total_pid = 0
       /\ cr3 = KernelDir
       /\ result = 0
  ELSE cur_idx = 0

IInv ==
  /\ TypeOK
  /\ MemoryOK(mem)
  /\ Phase
  /\ CountIsActive
  /\ DirectoryOwnership
  /\ MappedWhereAsked
  /\ PidsUnique
  /\ Lockstep
  /\ CallerInCharge

-----------------------------------------------------------------------------
LEMMA SlotsFinite ==
  ASSUME NEW S \in SUBSET Slots
  PROVE  IsFiniteSet(S) /\ Cardinality(S) \in Nat
<1>1. IsFiniteSet(Slots)
  BY FS_Interval DEF Slots
<1>. QED
  BY <1>1, FS_Subset, FS_CardinalityType

LEMMA TwinFacts ==
  /\ 0 \in Slots
  /\ \A s \in Slots : Twin(s) \in Dirs
  /\ \A s, t \in Slots : Twin(s) = Twin(t) => s = t
  /\ NullDir \notin Dirs /\ NullDir # KernelDir
BY DEF Twin, Slots, Dirs, NullDir, KernelDir

\* A request's page count, and so its page list, is well typed.
LEMMA RequestFacts ==
  ASSUME NEW r \in Requests \cup {ShellRequest}
  PROVE  r.page \in Nat /\ page_frame_count_needed(r) \in Nat
<1>1. r.page \in Nat /\ r.size \in Nat
  OBVIOUS
<1>2. ASSUME NEW a \in Nat
      PROVE  a \div PAGE_FRAME_SIZE \in Nat
  BY <1>2
<1>3. r.size + PAGE_FRAME_SIZE + PAGE_FRAME_SIZE - 1 \in Nat
  BY <1>1
<1>. QED
  BY <1>1, <1>2, <1>3 DEF page_frame_count_needed, CeilDiv

\* The allocation loop maps no page that was not asked for.
LEMMA MappedByLoop ==
  ASSUME NEW m, MemoryOK(m), NEW d \in AllDirs, NEW first \in Nat, NEW k \in Nat
  PROVE  Mapped(AllocatePages(m, d, first, k), d) \subseteq first .. first + k - 1
<1>. DEFINE n == AllocatePages(m, d, first, k)
            taken == Taken(m, first, k)
<1>1. m.table \in [AllDirs -> [Pages -> Frames \cup {NoFrame}]] /\ m \in Memory
  BY MemoryFields DEF MemoryOK
<1>2. n.table[d] = [p \in Pages |->
                      IF \E f \in taken : first + Rank(m, f) = p
                      THEN CHOOSE f \in taken : first + Rank(m, f) = p
                      ELSE NoFrame]
  BY <1>1 DEF AllocatePages, Memory
<1>3. ASSUME NEW p \in Mapped(n, d)
      PROVE  p \in first .. first + k - 1
  <2>1. PICK f \in taken : first + Rank(m, f) = p
    BY <1>2, <1>3 DEF Mapped
  <2>2. Rank(m, f) \in Nat /\ Rank(m, f) < k
    BY FreeFramesFinite, FS_Subset, FS_CardinalityType DEF Rank, Taken
  <2>. QED
    BY <2>1, <2>2
<1>. QED
  BY <1>3

\* Building a process's address space in an unused directory.
LEMMA ImageOK ==
  ASSUME NEW m, MemoryOK(m), NEW d \in Dirs \ m.dir_used,
         NEW r \in Requests \cup {ShellRequest}
  PROVE  LET n == MemoryWithImage(m, d, r)
         IN  /\ MemoryOK(n)
             /\ n.dir_used = m.dir_used \cup {d}
             /\ n.kernel = m.kernel \cup {d}
             /\ \A e \in AllDirs \ {d} : n.table[e] = m.table[e]
             /\ Mapped(n, d) \subseteq PagesOf(r)
<1>. DEFINE c == paging_create_new_page_directory(m, d)
            k == page_frame_count_needed(r)
            n == AllocatePages(c, d, r.page, k)
<1>0. m \in Memory /\ d \in AllDirs
  BY DirKinds DEF MemoryOK
<1>1. MemoryOK(c) /\ c.table[d] = EmptyTable
  BY CreateDirectoryOK
<1>2. /\ c.dir_used = m.dir_used \cup {d}
      /\ c.kernel = m.kernel \cup {d}
      /\ \A e \in AllDirs \ {d} : c.table[e] = m.table[e]
  BY <1>0, MemoryFields DEF paging_create_new_page_directory, Memory
<1>3. r.page \in Nat /\ k \in Nat
  BY RequestFacts
<1>. HIDE DEF c, k
<1>4. /\ MemoryOK(n)
      /\ \A e \in AllDirs \ {d} : n.table[e] = c.table[e]
      /\ n.dir_used = c.dir_used
      /\ n.kernel = c.kernel
  BY <1>0, <1>1, <1>2, <1>3, AllocatePagesOK
<1>5. Mapped(n, d) \subseteq PagesOf(r)
  BY <1>0, <1>1, <1>3, MappedByLoop DEF PagesOf, k
<1>6. MemoryWithImage(m, d, r) = n
  BY DEF MemoryWithImage, c, k
<1>. HIDE DEF n
<1>. QED
  BY <1>2, <1>4, <1>5, <1>6

\* Giving back what a process owned.
LEMMA WithoutOK ==
  ASSUME NEW m, MemoryOK(m), NEW s \in Slots, process_list[s].dir \in m.dir_used
  PROVE  LET n == MemoryWithout(m, s)
             d == process_list[s].dir
         IN  /\ MemoryOK(n)
             /\ n.dir_used = m.dir_used \ {d}
             /\ n.kernel = m.kernel \ {d}
             /\ \A e \in AllDirs \ {d} : n.table[e] = m.table[e]
<1>. DEFINE d == process_list[s].dir
            c == FreePages(m, d, process_list[s].pages)
            n == paging_free_page_directory(c, d)
<1>0. m \in Memory
  BY DEF MemoryOK
<1>1. d \in Dirs /\ d \in AllDirs
  BY <1>0, MemoryFields, DirKinds
<1>2. MemoryOK(c)
  BY <1>1, FreePagesOK
<1>3. /\ c.dir_used = m.dir_used
      /\ c.kernel = m.kernel
      /\ \A e \in AllDirs \ {d} : c.table[e] = m.table[e]
      /\ c \in Memory
  BY <1>0, <1>1, <1>2, MemoryFields DEF FreePages, Memory, MemoryOK
<1>4. MemoryOK(n)
  BY <1>1, <1>2, FreeDirectoryOK
<1>. HIDE DEF c
<1>5. /\ n.dir_used = c.dir_used \ {d}
      /\ n.kernel = c.kernel \ {d}
      /\ \A e \in AllDirs \ {d} : n.table[e] = c.table[e]
  BY <1>1, <1>3, MemoryFields DEF paging_free_page_directory, Memory
<1>6. MemoryWithout(m, s) = n
  BY DEF MemoryWithout, c
<1>. HIDE DEF n
<1>. QED
  BY <1>3, <1>4, <1>5, <1>6

-----------------------------------------------------------------------------
\* Where the two orders meet: the slot and the directory that creation finds
\* while the shell runs are twins, and the slot is a free one.
LEMMA CreationFindsTwins ==
  ASSUME IInv, machine = "run", NEW s \in Slots, NEW d \in Dirs,
         IsInactiveIndex(s), IsFirstUnusedDir(mem, d)
  PROVE  s \notin ActiveSlots /\ d = Twin(s)
<1>1. cur_idx = 0 /\ 0 \in ActiveSlots
  BY DEF IInv, Phase, CallerInCharge
<1>2. active_process_count # 0
  <2>1. active_process_count = Cardinality(ActiveSlots) /\ IsFiniteSet(ActiveSlots)
    BY SlotsFinite DEF IInv, CountIsActive, ActiveSlots
  <2>. QED
    BY <1>1, <2>1, FS_EmptySet
<1>3. /\ s \in Slots \ ActiveSlots
      /\ \A t \in Slots \ ActiveSlots : ScanDistance(s) <= ScanDistance(t)
  BY <1>2 DEF IsInactiveIndex
<1>4. \A t \in Slots \ ActiveSlots : t <= s
  BY <1>1, <1>3 DEF ScanDistance, Slots
<1>5. \A t \in ActiveSlots : process_list[t].dir = Twin(t)
  BY DEF IInv, Lockstep, ActiveSlots, EmptyPCB
<1>6. mem.dir_used = {Twin(t) : t \in ActiveSlots}
  BY <1>5 DEF IInv, DirectoryOwnership
<1>7. Twin(s) \in Dirs \ mem.dir_used
  BY <1>3, <1>6, TwinFacts DEF ActiveSlots
<1>8. d <= Twin(s)
  BY <1>7 DEF IsFirstUnusedDir
<1>9. d # 0
  BY <1>1, <1>6 DEF Twin, IsFirstUnusedDir
<1>10. ~ (d < Twin(s))
  <2>. SUFFICES ASSUME d < Twin(s)
                PROVE  FALSE
    OBVIOUS
  <2>. DEFINE t == PROCESS_COUNT_MAX - d
  <2>1. t \in Slots /\ t > s /\ Twin(t) = d
    BY <1>1, <1>3, <1>9 DEF Twin, Slots, Dirs
  <2>2. t \in ActiveSlots
    BY <1>3, <1>4, <2>1 DEF Slots
  <2>. QED
    BY <1>6, <2>1, <2>2 DEF IsFirstUnusedDir
<1>11. d \in Int /\ Twin(s) \in Int
  BY TwinFacts DEF Dirs
<1>. QED
  BY <1>3, <1>8, <1>10, <1>11

\* A dead PCB's directory is not in use (StaleNeverAliases).
LEMMA StaleFromLockstep == IInv => StaleNeverAliases
<1>. SUFFICES ASSUME IInv, NEW s \in Slots \ ActiveSlots
              PROVE  process_list[s].dir \notin mem.dir_used
  BY DEF StaleNeverAliases
<1>1. \A t \in ActiveSlots : process_list[t].dir = Twin(t)
  BY DEF IInv, Lockstep, ActiveSlots, EmptyPCB
<1>2. CASE process_list[s].pid = 0
  <2>1. process_list[s].dir = NullDir
    BY <1>2 DEF IInv, Lockstep, EmptyPCB
  <2>2. mem.dir_used \subseteq Dirs
    BY MemoryFields DEF IInv, TypeOK
  <2>. QED
    BY <2>1, <2>2, TwinFacts
<1>3. CASE process_list[s].pid # 0
  <2>1. process_list[s].dir = Twin(s)
    BY <1>3 DEF IInv, Lockstep
  <2>2. \A t \in ActiveSlots : t \in Slots /\ t # s
    BY DEF ActiveSlots
  <2>. QED
    BY <1>1, <2>1, <2>2, TwinFacts DEF IInv, DirectoryOwnership
<1>. QED
  BY <1>2, <1>3

LEMMA InitIInv == Init => IInv
<1>. SUFFICES ASSUME Init
              PROVE  IInv
  OBVIOUS
<1>1. MemoryOK(mem)
  BY ResetOK DEF Init, PagingInit
<1>2. ActiveSlots = {}
  BY DEF Init, ActiveSlots, EmptyPCB
<1>3. TypeOK
  <2>1. EmptyPCB \in PCB
    BY DEF EmptyPCB, PCB
  <2>. QED
    BY <1>1, <2>1, DirKinds DEF Init, TypeOK, MemoryOK
<1>4. Phase
  BY DEF Init, PagingInit, Phase
<1>5. CountIsActive
  BY <1>2, FS_EmptySet DEF Init, CountIsActive
<1>6. DirectoryOwnership /\ MappedWhereAsked
  BY <1>2 DEF Init, PagingInit, MemoryAtReset, DirectoryOwnership, MappedWhereAsked
<1>7. PidsUnique /\ Lockstep
  BY DEF Init, PidsUnique, Lockstep, EmptyPCB
<1>8. CallerInCharge
  BY DEF Init, CallerInCharge
<1>. QED
  BY <1>1, <1>3, <1>4, <1>5, <1>6, <1>7, <1>8 DEF IInv

-----------------------------------------------------------------------------
\* What Boot and ExecCreated have in common: a PCB with a fresh pid and the
\* slot's own directory fills an inactive slot.
LEMMA CreationStep ==
  ASSUME IInv, NEW m, MemoryOK(m), m.dir_used = mem.dir_used,
         \A e \in Dirs : m.table[e] = mem.table[e],
         NEW s \in Slots, s \notin ActiveSlots,
         NEW d \in Dirs, d = Twin(s), d \notin m.dir_used,
         NEW r \in Requests \cup {ShellRequest},
         NEW pcb \in PCB, pcb.pid = total_pid + 1, pcb.active, pcb.dir = d,
         pcb.pages = PagesOf(r),
         mem' = MemoryWithImage(m, d, r),
         process_list' = [process_list EXCEPT ![s] = pcb],
         total_pid' = process_generate_new_pid,
         active_process_count' = active_process_count + 1
  PROVE  /\ MemoryOK(mem)'
         /\ mem'.dir_used = mem.dir_used \cup {d}
         /\ mem'.kernel = m.kernel \cup {d}
         /\ process_list' \in [Slots -> PCB]
         /\ ActiveSlots' = ActiveSlots \cup {s}
         /\ CountIsActive' /\ DirectoryOwnership' /\ MappedWhereAsked'
         /\ PidsUnique' /\ Lockstep'
<1>1. /\ process_list \in [Slots -> PCB]
      /\ total_pid \in Nat /\ active_process_count \in Int
      /\ mem \in Memory
      /\ \A t \in Slots : process_list[t].pid \in Nat
  BY DEF IInv, TypeOK, PCB
<1>2. /\ MemoryOK(mem')
      /\ mem'.dir_used = mem.dir_used \cup {d}
      /\ mem'.kernel = m.kernel \cup {d}
      /\ \A e \in Dirs \ {d} : mem'.table[e] = mem.table[e]
      /\ Mapped(mem', d) \subseteq PagesOf(r)
  BY ImageOK, DirKinds
<1>3. /\ process_list' \in [Slots -> PCB]
      /\ process_list'[s] = pcb
      /\ \A t \in Slots \ {s} : process_list'[t] = process_list[t]
  BY <1>1
<1>4. ActiveSlots' = ActiveSlots \cup {s}
  BY <1>3 DEF ActiveSlots
<1>5. CountIsActive'
  <2>1. Cardinality(ActiveSlots \cup {s}) = Cardinality(ActiveSlots) + 1
    BY SlotsFinite, FS_AddElement DEF ActiveSlots
  <2>. QED
    BY <1>4, <2>1 DEF IInv, CountIsActive
<1>6. \A t \in ActiveSlots : /\ t \in Slots \ {s}
                             /\ process_list[t].dir = Twin(t)
                             /\ process_list[t].dir \in mem.dir_used
                             /\ process_list[t].dir # d
  BY TwinFacts DEF IInv, Lockstep, ActiveSlots, EmptyPCB, DirectoryOwnership
<1>7. DirectoryOwnership'
  <2>1. {process_list'[t].dir : t \in ActiveSlots'}
          = {process_list[t].dir : t \in ActiveSlots} \cup {d}
    BY <1>3, <1>4, <1>6
  <2>2. \A t, u \in ActiveSlots' : process_list'[t].dir = process_list'[u].dir => t = u
    BY <1>3, <1>4, <1>6 DEF IInv, DirectoryOwnership
  <2>. QED
    BY <1>2, <2>1, <2>2 DEF IInv, DirectoryOwnership
<1>8. MappedWhereAsked'
  <2>1. ASSUME NEW t \in ActiveSlots'
        PROVE  Mapped(mem', process_list'[t].dir) \subseteq process_list'[t].pages
    <3>1. CASE t = s
      BY <1>2, <1>3, <3>1
    <3>2. CASE t # s
      <4>1. t \in ActiveSlots /\ process_list'[t] = process_list[t]
        BY <1>3, <1>4, <2>1, <3>2, <1>6
      <4>2. process_list[t].dir \in Dirs \ {d}
        BY <1>6, <4>1, TwinFacts
      <4>3. Mapped(mem', process_list[t].dir) = Mapped(mem, process_list[t].dir)
        BY <1>2, <4>2 DEF Mapped
      <4>. QED
        BY <4>1, <4>3 DEF IInv, MappedWhereAsked
    <3>. QED
      BY <3>1, <3>2
  <2>. QED
    BY <2>1 DEF MappedWhereAsked
<1>9. PidsUnique'
  BY <1>1, <1>3 DEF IInv, PidsUnique, process_generate_new_pid
<1>10. Lockstep'
  <2>1. pcb.pid # 0
    BY <1>1
  <2>. QED
    BY <1>3, <2>1 DEF IInv, Lockstep
<1>. QED
  BY <1>2, <1>3, <1>4, <1>5, <1>7, <1>8, <1>9, <1>10

LEMMA BootStep == IInv /\ Boot => IInv'
<1>. SUFFICES ASSUME IInv, Boot
              PROVE  IInv'
  OBVIOUS
<1>. DEFINE m == paging_allocate_user_page_frame(mem, KernelDir, 0)
<1>1. /\ machine = "boot" /\ mem = MemoryAtReset
      /\ process_list = [t \in Slots |-> EmptyPCB]
      /\ active_process_count = 0 /\ total_pid = 0 /\ result = 0
  BY DEF Boot, IInv, Phase
<1>2. PICK s \in Slots, d \in Dirs :
        /\ IsInactiveIndex(s)
        /\ IsFirstUnusedDir(m, d)
        /\ mem' = MemoryWithImage(m, d, ShellRequest)
        /\ process_list' =
             [process_list EXCEPT ![s] =
                [NewPCB(process_generate_new_pid, d, ShellRequest, TRUE)
                   EXCEPT !.cur_state = "RUNNING"]]
        /\ cr3' = d
        /\ cur_idx' = s
  BY DEF Boot
<1>3. /\ MemoryOK(m) /\ m.dir_used = mem.dir_used
      /\ \A e \in Dirs : m.table[e] = mem.table[e]
      /\ mem.dir_used = {}
  <2>1. MemoryOK(mem)
    BY DEF IInv
  <2>2. MemoryOK(m) /\ m.dir_used = mem.dir_used
    BY <2>1, AllocateOneOK, DirKinds
  <2>3. mem.dir_used = {}
    BY <1>1 DEF MemoryAtReset
  <2>4. \A e \in Dirs : mem.table[e] = EmptyTable /\ m.table[e] = EmptyTable
    BY <2>1, <2>2, <2>3 DEF MemoryOK, DirectoryLifecycle
  <2>. QED
    BY <2>2, <2>3, <2>4
<1>. HIDE DEF m
<1>4. s = 0 /\ d = 0
  <2>1. s = 0
    BY <1>1, <1>2 DEF IsInactiveIndex
  <2>2. 0 \in Dirs
    BY DEF Dirs
  <2>. QED
    BY <1>2, <1>3, <2>1, <2>2 DEF IsFirstUnusedDir, Dirs
<1>5. ActiveSlots = {}
  BY <1>1 DEF ActiveSlots, EmptyPCB
<1>. DEFINE pcb == [NewPCB(process_generate_new_pid, d, ShellRequest, TRUE)
                      EXCEPT !.cur_state = "RUNNING"]
<1>6. /\ pcb \in PCB
      /\ pcb.pid = total_pid + 1 /\ pcb.active /\ pcb.dir = d
      /\ pcb.pages = PagesOf(ShellRequest) /\ pcb.cur_state = "RUNNING"
  <2>1. PagesOf(ShellRequest) \in SUBSET Nat
    BY RequestFacts DEF PagesOf
  <2>. DEFINE ready == NewPCB(process_generate_new_pid, d, ShellRequest, TRUE)
  <2>2. pcb = [pid |-> total_pid + 1, active |-> TRUE, cur_state |-> "RUNNING", dir |-> d,
               pages |-> PagesOf(ShellRequest), loaded |-> TRUE]
    <3>1. ready = [pid |-> total_pid + 1, active |-> TRUE, cur_state |-> "READY", dir |-> d,
                   pages |-> PagesOf(ShellRequest), loaded |-> TRUE]
      BY DEF NewPCB, process_generate_new_pid
    <3>2. pcb = [ready EXCEPT !.cur_state = "RUNNING"]
      OBVIOUS
    <3>. HIDE DEF ready, pcb
    <3>. QED
      BY <3>1, <3>2
  <2>3. total_pid + 1 \in Nat
    BY <1>1
  <2>. HIDE DEF pcb
  <2>. QED
    BY <2>1, <2>2, <2>3 DEF PCB
<1>. HIDE DEF pcb
<1>7. process_list' = [process_list EXCEPT ![s] = pcb]
  BY <1>2 DEF pcb
<1>8. /\ MemoryOK(mem)'
      /\ mem'.dir_used = mem.dir_used \cup {d}
      /\ mem'.kernel = m.kernel \cup {d}
      /\ process_list' \in [Slots -> PCB]
      /\ ActiveSlots' = ActiveSlots \cup {s}
      /\ CountIsActive' /\ DirectoryOwnership' /\ MappedWhereAsked'
      /\ PidsUnique' /\ Lockstep'
  <2>1. total_pid' = process_generate_new_pid /\ active_process_count' = active_process_count + 1
    BY DEF Boot
  <2>2. d = Twin(s) /\ d \notin m.dir_used /\ s \notin ActiveSlots
    BY <1>3, <1>4, <1>5 DEF Twin
  <2>. QED
    BY <1>2, <1>3, <1>6, <1>7, <2>1, <2>2, CreationStep
<1>9. TypeOK'
  <2>1. mem' \in Memory
    BY <1>8 DEF MemoryOK
  <2>2. total_pid' \in Nat /\ active_process_count' \in Int /\ machine' = "run" /\ result' = result
    BY <1>1 DEF Boot, process_generate_new_pid
  <2>. QED
    BY <1>1, <1>2, <1>8, <2>1, <2>2, DirKinds DEF TypeOK
<1>10. Phase'
  BY <1>2, <1>4 DEF Boot, Phase
<1>11. CallerInCharge'
  <2>1. process_list'[s] = pcb
    BY <1>7, <1>1
  <2>2. ActiveSlots' = {s}
    BY <1>5, <1>8
  <2>. QED
    BY <1>2, <1>6, <1>8, <2>1, <2>2 DEF CallerInCharge
<1>. QED
  BY <1>8, <1>9, <1>10, <1>11 DEF IInv

LEMMA ExecCreatedStep ==
  ASSUME IInv, NEW r \in Requests, NEW read \in BOOLEAN, ExecCreated(r, read)
  PROVE  IInv'
<1>1. machine = "run" /\ cur_idx = 0
  BY DEF ExecCreated, IInv, Phase
<1>2. PICK s \in Slots, d \in Dirs :
        /\ IsInactiveIndex(s)
        /\ IsFirstUnusedDir(mem, d)
        /\ mem' = MemoryWithImage(mem, d, r)
        /\ process_list' =
             [process_list EXCEPT ![s] = NewPCB(process_generate_new_pid, d, r, read)]
  BY DEF ExecCreated
<1>3. s \notin ActiveSlots /\ d = Twin(s) /\ d \notin mem.dir_used
  BY <1>1, <1>2, CreationFindsTwins DEF IsFirstUnusedDir
<1>. DEFINE pcb == NewPCB(process_generate_new_pid, d, r, read)
<1>4. /\ pcb \in PCB
      /\ pcb.pid = total_pid + 1 /\ pcb.active /\ pcb.dir = d
      /\ pcb.pages = PagesOf(r) /\ pcb.cur_state = "READY"
  <2>1. PagesOf(r) \in SUBSET Nat
    BY RequestFacts DEF PagesOf
  <2>2. total_pid \in Nat
    BY DEF IInv, TypeOK
  <2>. QED
    BY <2>1, <2>2 DEF PCB, NewPCB, process_generate_new_pid
<1>. HIDE DEF pcb
<1>5. process_list' = [process_list EXCEPT ![s] = pcb]
  BY <1>2 DEF pcb
<1>6. /\ MemoryOK(mem)'
      /\ mem'.dir_used = mem.dir_used \cup {d}
      /\ mem'.kernel = mem.kernel \cup {d}
      /\ process_list' \in [Slots -> PCB]
      /\ ActiveSlots' = ActiveSlots \cup {s}
      /\ CountIsActive' /\ DirectoryOwnership' /\ MappedWhereAsked'
      /\ PidsUnique' /\ Lockstep'
  <2>1. total_pid' = process_generate_new_pid /\ active_process_count' = active_process_count + 1
    BY DEF ExecCreated
  <2>2. MemoryOK(mem)
    BY DEF IInv
  <2>. QED
    BY <1>2, <1>3, <1>4, <1>5, <2>1, <2>2, CreationStep
<1>7. UNCHANGED <<cr3, cur_idx, machine>> /\ result' = 0
  BY DEF ExecCreated, PROCESS_CREATE_SUCCESS
<1>8. TypeOK'
  <2>1. mem' \in Memory
    BY <1>6 DEF MemoryOK
  <2>2. total_pid' \in Nat /\ active_process_count' \in Int
    BY DEF ExecCreated, process_generate_new_pid, IInv, TypeOK
  <2>. QED
    BY <1>6, <1>7, <2>1, <2>2 DEF TypeOK, IInv
<1>9. Phase'
  BY <1>1, <1>7 DEF Phase
<1>10. CallerInCharge'
  <2>1. process_list'[s] = pcb /\ \A t \in Slots \ {s} : process_list'[t] = process_list[t]
    BY <1>5, <1>6 DEF IInv, TypeOK
  <2>2. ActiveSlots \subseteq Slots \ {s}
    BY <1>3 DEF ActiveSlots
  <2>. QED
    BY <1>1, <1>4, <1>6, <1>7, <2>1, <2>2 DEF IInv, CallerInCharge
<1>. QED
  BY <1>6, <1>8, <1>9, <1>10 DEF IInv

LEMMA KillProcessStep ==
  ASSUME IInv, NEW pid \in 1 .. MaxPid + 1, KillProcess(pid)
  PROVE  IInv'
<1>1. machine = "run" /\ cur_idx = 0 /\ 0 \in ActiveSlots
      /\ cr3 = process_list[0].dir
  BY DEF KillProcess, IInv, Phase, CallerInCharge
<1>2. PICK s \in Slots :
        /\ IsVictim(s, pid)
        /\ process_list[s].dir \in mem.kernel
        /\ mem' = MemoryWithout(mem, s)
        /\ process_list' = [process_list EXCEPT ![s].active = FALSE, ![s].pages = {}]
        /\ cr3' = DirectoryAfterRelease(process_list[s].dir)
        /\ machine' = IF active_process_count = 1 THEN "off"
                      ELSE IF process_list[s].dir = cr3 THEN "fault"
                      ELSE "run"
  BY DEF KillProcess
<1>. DEFINE d == process_list[s].dir
<1>3. /\ process_list \in [Slots -> PCB] /\ MemoryOK(mem)
      /\ mem \in Memory /\ active_process_count \in Int /\ cr3 \in AllDirs
  BY DEF IInv, TypeOK
<1>4. s \in ActiveSlots /\ d \in mem.dir_used /\ d \in Dirs
  <2>1. d \in mem.dir_used \cup {KernelDir}
    BY <1>2, <1>3 DEF MemoryOK, DirectoryLifecycle
  <2>2. d \in Dirs \cup {NullDir}
    BY <1>3 DEF PCB
  <2>3. d \in mem.dir_used
    BY <2>1, <2>2, DirKinds, TwinFacts
  <2>4. s \in ActiveSlots
    BY <2>3, StaleFromLockstep DEF StaleNeverAliases
  <2>. QED
    BY <1>3, <2>3, <2>4, MemoryFields
<1>5. /\ MemoryOK(mem')
      /\ mem'.dir_used = mem.dir_used \ {d}
      /\ mem'.kernel = mem.kernel \ {d}
      /\ \A e \in AllDirs \ {d} : mem'.table[e] = mem.table[e]
  BY <1>2, <1>3, <1>4, WithoutOK
<1>6. /\ process_list' \in [Slots -> PCB]
      /\ ~ process_list'[s].active
      /\ process_list'[s].pid = process_list[s].pid
      /\ process_list'[s].dir = d
      /\ \A t \in Slots \ {s} : process_list'[t] = process_list[t]
  <2>. DEFINE dead == [process_list[s] EXCEPT !.active = FALSE, !.pages = {}]
  <2>1. dead \in PCB /\ ~ dead.active /\ dead.pid = process_list[s].pid /\ dead.dir = d
    BY <1>3 DEF PCB
  <2>2. process_list' = [process_list EXCEPT ![s] = dead]
    BY <1>2, <1>3
  <2>. HIDE DEF dead
  <2>. QED
    BY <1>3, <2>1, <2>2
<1>7. ActiveSlots' = ActiveSlots \ {s}
  BY <1>6 DEF ActiveSlots
<1>8. UNCHANGED <<cur_idx, total_pid>> /\ result' = 1
      /\ active_process_count' = active_process_count - 1
  BY DEF KillProcess, KillTrue
<1>9. cr3' = cr3
  BY <1>2 DEF DirectoryAfterRelease
<1>10. TypeOK'
  <2>1. mem' \in Memory
    BY <1>5 DEF MemoryOK
  <2>2. machine' \in {"boot", "run", "off", "fault"}
    BY <1>2
  <2>. QED
    BY <1>3, <1>6, <1>8, <1>9, <2>1, <2>2 DEF IInv, TypeOK
<1>11. Phase'
  BY <1>1, <1>2, <1>8 DEF Phase
<1>12. CountIsActive'
  <2>1. Cardinality(ActiveSlots \ {s}) = Cardinality(ActiveSlots) - 1
    BY <1>4, SlotsFinite, FS_RemoveElement DEF ActiveSlots
  <2>. QED
    BY <1>7, <1>8, <2>1 DEF IInv, CountIsActive
<1>13. \A t \in ActiveSlots' : /\ process_list'[t] = process_list[t]
                               /\ t \in ActiveSlots
                               /\ process_list[t].dir # d
                               /\ process_list[t].dir \in AllDirs \ {d}
  <2>1. \A t \in ActiveSlots : process_list[t].dir \in mem.dir_used
    BY DEF IInv, DirectoryOwnership
  <2>. QED
    BY <1>3, <1>4, <1>6, <1>7, <2>1, MemoryFields, DirKinds
       DEF ActiveSlots, IInv, DirectoryOwnership
<1>14. DirectoryOwnership'
  <2>1. {process_list'[t].dir : t \in ActiveSlots'}
          = {process_list[t].dir : t \in ActiveSlots} \ {d}
    BY <1>7, <1>13
  <2>2. \A t, u \in ActiveSlots' : process_list'[t].dir = process_list'[u].dir => t = u
    BY <1>13 DEF IInv, DirectoryOwnership
  <2>. QED
    BY <1>5, <2>1, <2>2 DEF IInv, DirectoryOwnership
<1>15. MappedWhereAsked'
  <2>1. ASSUME NEW t \in ActiveSlots'
        PROVE  Mapped(mem', process_list'[t].dir) \subseteq process_list'[t].pages
    <3>1. Mapped(mem', process_list[t].dir) = Mapped(mem, process_list[t].dir)
      BY <1>5, <1>13 DEF Mapped
    <3>. QED
      BY <1>13, <3>1 DEF IInv, MappedWhereAsked
  <2>. QED
    BY <2>1 DEF MappedWhereAsked
<1>16. PidsUnique'
  <2>1. \A t \in Slots : process_list'[t].pid = process_list[t].pid
    BY <1>6
  <2>. QED
    BY <1>8, <2>1 DEF IInv, PidsUnique
<1>17. Lockstep'
  <2>1. process_list[s].pid # 0
    BY <1>2 DEF IsVictim
  <2>. QED
    BY <1>6, <2>1 DEF IInv, Lockstep
<1>18. CallerInCharge'
  <2>. SUFFICES ASSUME machine' = "run"
                PROVE  /\ cur_idx' \in ActiveSlots'
                       /\ cr3' = process_list'[cur_idx'].dir
                       /\ cr3' \in mem'.kernel
                       /\ {t \in ActiveSlots' : process_list'[t].cur_state = "RUNNING"}
                            = {cur_idx'}
    BY DEF CallerInCharge
  <2>1. d # cr3
    BY <1>2
  <2>2. s # 0
    BY <1>1, <2>1
  <2>3. 0 \in ActiveSlots'
    BY <1>1, <1>7, <2>2
  <2>4. cr3' = process_list'[0].dir /\ cr3' \in mem'.kernel
    BY <1>1, <1>5, <1>9, <1>13, <2>1, <2>3 DEF IInv, CallerInCharge
  <2>5. {t \in ActiveSlots : process_list[t].cur_state = "RUNNING"} = {0}
    BY <1>1 DEF IInv, CallerInCharge
  <2>6. {t \in ActiveSlots' : process_list'[t].cur_state = "RUNNING"} = {0}
    BY <1>7, <1>13, <2>2, <2>5
  <2>. QED
    BY <1>1, <1>8, <2>3, <2>4, <2>6
<1>. QED
  BY <1>5, <1>10, <1>11, <1>12, <1>14, <1>15, <1>16, <1>17, <1>18 DEF IInv

\* A step that leaves the memory and the table alone, and the machine running.
LEMMA RefusedStep ==
  ASSUME IInv, machine = "run", result' \in 0 .. 3,
         UNCHANGED <<mem, cr3, cur_idx, tableVars, machine>>
  PROVE  IInv'
<1>1. ActiveSlots' = ActiveSlots
  BY DEF ActiveSlots, tableVars
<1>2. TypeOK' /\ MemoryOK(mem)' /\ Phase'
  BY DEF IInv, TypeOK, Phase, tableVars
<1>3. CountIsActive' /\ DirectoryOwnership' /\ MappedWhereAsked' /\ PidsUnique'
      /\ Lockstep' /\ CallerInCharge'
  BY <1>1 DEF IInv, CountIsActive, DirectoryOwnership, MappedWhereAsked, PidsUnique,
              Lockstep, CallerInCharge, tableVars
<1>. QED
  BY <1>2, <1>3 DEF IInv

LEMMA KillStaleStep ==
  ASSUME IInv, NEW pid \in 1 .. MaxPid + 1, KillStale(pid)
  PROVE  IInv'
<1>1. /\ machine = "run" /\ machine' = "fault"
      /\ UNCHANGED <<mem, cur_idx, tableVars, result>>
  BY DEF KillStale
<1>2. PICK s \in Slots : IsVictim(s, pid) /\ cr3' = process_list[s].dir
  BY DEF KillStale
<1>3. cr3' \in AllDirs
  <2>1. process_list[s].pid # 0
    BY <1>2 DEF IsVictim
  <2>. QED
    BY <1>2, <2>1, TwinFacts, DirKinds DEF IInv, Lockstep
<1>4. ActiveSlots' = ActiveSlots
  BY <1>1 DEF ActiveSlots, tableVars
<1>5. TypeOK' /\ MemoryOK(mem)' /\ Phase'
  BY <1>1, <1>3 DEF IInv, TypeOK, Phase, tableVars
<1>6. CountIsActive' /\ DirectoryOwnership' /\ MappedWhereAsked' /\ PidsUnique'
      /\ Lockstep' /\ CallerInCharge'
  BY <1>1, <1>4 DEF IInv, CountIsActive, DirectoryOwnership, MappedWhereAsked, PidsUnique,
                    Lockstep, CallerInCharge, tableVars
<1>. QED
  BY <1>5, <1>6 DEF IInv

LEMMA NextIInv == IInv /\ [Next]_vars => IInv'
<1>. SUFFICES ASSUME IInv, [Next]_vars
              PROVE  IInv'
  OBVIOUS
<1>1. CASE Boot
  BY <1>1, BootStep
<1>2. ASSUME NEW r \in Requests, ExecRefused(r)
      PROVE  IInv'
  <2>1. result' \in 0 .. 3
    BY <1>2 DEF ExecRefused, CreateRefusal, PROCESS_CREATE_SUCCESS,
                PROCESS_CREATE_FAIL_MAX_PROCESS_EXCEEDED,
                PROCESS_CREATE_FAIL_INVALID_ENTRYPOINT,
                PROCESS_CREATE_FAIL_NOT_ENOUGH_MEMORY
  <2>. QED
    BY <1>2, <2>1, RefusedStep DEF ExecRefused
<1>3. ASSUME NEW r \in Requests, NEW read \in BOOLEAN, ExecCreated(r, read)
      PROVE  IInv'
  BY <1>3, ExecCreatedStep
<1>4. ASSUME NEW pid \in 1 .. MaxPid + 1, KillUnknown(pid)
      PROVE  IInv'
  BY <1>4, RefusedStep DEF KillUnknown, KillFalse
<1>5. ASSUME NEW pid \in 1 .. MaxPid + 1, KillProcess(pid)
      PROVE  IInv'
  BY <1>5, KillProcessStep
<1>6. ASSUME NEW pid \in 1 .. MaxPid + 1, KillStale(pid)
      PROVE  IInv'
  BY <1>6, KillStaleStep
<1>7. CASE UNCHANGED vars
  <2>1. ActiveSlots' = ActiveSlots
    BY <1>7 DEF ActiveSlots, vars
  <2>2. TypeOK' /\ MemoryOK(mem)' /\ Phase'
    BY <1>7 DEF IInv, TypeOK, Phase, vars
  <2>3. CountIsActive' /\ DirectoryOwnership' /\ MappedWhereAsked' /\ PidsUnique'
        /\ Lockstep' /\ CallerInCharge'
    BY <1>7, <2>1 DEF IInv, CountIsActive, DirectoryOwnership, MappedWhereAsked, PidsUnique,
                      Lockstep, CallerInCharge, vars
  <2>. QED
    BY <2>2, <2>3 DEF IInv
<1>. QED
  BY <1>1, <1>2, <1>3, <1>4, <1>5, <1>6, <1>7 DEF Next, Exec, Kill, Stopped

-----------------------------------------------------------------------------
\* The inductive invariant holds throughout.
THEOREM Inductive == Spec => []IInv
BY InitIInv, NextIInv, PTL DEF Spec

\* Type correctness of the process table (process.h:81-107, paging.h:85-90).
THEOREM TypeCorrect == Spec => []TypeOK
<1>1. IInv => TypeOK
  BY DEF IInv
<1>. QED
  BY <1>1, Inductive, PTL

\* The frame bitmap, its counter and every directory agree after every exec and
\* kill, whatever was refused, cut short or destroyed (process.c:55-176).
THEOREM MemorySafe == Spec => []MemoryConsistent
<1>1. IInv => MemoryConsistent
  BY DEF IInv, MemoryConsistent
<1>. QED
  BY <1>1, Inductive, PTL

\* The active count, the directories in use and the pages mapped are exactly
\* those of the processes that are active (process.c:15-26, 55-129).
THEOREM OwnershipSafe ==
  Spec => [](CountIsActive /\ DirectoryOwnership /\ MappedWhereAsked)
<1>1. IInv => CountIsActive /\ DirectoryOwnership /\ MappedWhereAsked
  BY DEF IInv
<1>. QED
  BY <1>1, Inductive, PTL

\* The count of active processes never drifts from the table (process.c:163).
THEOREM CountSafe == Spec => []CountIsActive
BY OwnershipSafe, PTL

\* The directories in use are those of the active processes, one for each
\* (process.c:15-48, 97-101).
THEOREM DirectoriesOwned == Spec => []DirectoryOwnership
BY OwnershipSafe, PTL

\* A process has pages only where its creation asked for them (process.c:103-111).
THEOREM MappingsSafe == Spec => []MappedWhereAsked
BY OwnershipSafe, PTL

\* No two slots ever hold the same pid, so destroying by pid hits the process
\* that was named (process.c:49-53, 153-160).
THEOREM PidSafe == Spec => []PidsUnique
<1>1. IInv => PidsUnique
  BY DEF IInv
<1>. QED
  BY <1>1, Inductive, PTL

\* A dead process's directory pointer never reaches a live process's memory
\* (process.c:28-48 against paging.c:290-293).
THEOREM StaleSafe == Spec => []StaleNeverAliases
BY StaleFromLockstep, Inductive, PTL

\* While the machine runs, CR3 holds the running shell's own live directory
\* (process.c:63-69, 103-115).
THEOREM CallerSafe == Spec => []CallerInCharge
<1>1. IInv => CallerInCharge
  BY DEF IInv
<1>. QED
  BY <1>1, Inductive, PTL
=============================================================================
