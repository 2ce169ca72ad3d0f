------------------------- MODULE ProcessTable_proofs ------------------------
(***************************************************************************)
(* The process manager implements ProcessTable, and a step of it leaves      *)
(* every process alone but the one it destroys, for every value of the      *)
(* constants.  Both rest on what one creation and one destruction do to     *)
(* the table and to the directories (CreationEffect, DestructionEffect).    *)
(***************************************************************************)
EXTENDS Process_proofs

USE PagingAssumption, ProcessAssumption

\* The caller of every system call is the process that boot made: the invariant
\* that tells ProcessTable's Caller which slot it is.
CallerIsFirst == machine = "run" => process_list[cur_idx].pid = FirstPid

RInv == IInv /\ CallerIsFirst

-----------------------------------------------------------------------------
\* The frames a process asks for number at least one, and a check that lets it
\* ask means that one is free.
LEMMA AcceptedIsGranted ==
  ASSUME NEW m, MemoryOK(m), NEW d \in Dirs \ m.dir_used,
         NEW r \in Requests \cup {ShellRequest},
         CreateRefusal(m, r) = PROCESS_CREATE_SUCCESS
  PROVE  Mapped(MemoryWithImage(m, d, r), d) # {}
<1>. DEFINE c == paging_create_new_page_directory(m, d)
            k == page_frame_count_needed(r)
            n == AllocatePages(c, d, r.page, k)
            taken == Taken(c, r.page, k)
<1>1. m \in Memory /\ d \in AllDirs
  BY DirKinds DEF MemoryOK
<1>2. r.page \in Nat /\ r.size \in Nat /\ k \in Nat
  BY RequestFacts
<1>3. ASSUME NEW a \in Nat
      PROVE  CeilDiv(a + PAGE_FRAME_SIZE, PAGE_FRAME_SIZE) >= 1
  <2>1. a + PAGE_FRAME_SIZE + PAGE_FRAME_SIZE - 1 >= PAGE_FRAME_SIZE
    BY <1>3
  <2>2. ASSUME NEW x \in Nat, x >= PAGE_FRAME_SIZE
        PROVE  x \div PAGE_FRAME_SIZE >= 1
    BY <2>2, Z3
  <2>. QED
    BY <1>3, <2>1, <2>2 DEF CeilDiv
<1>4. k >= 1
  BY <1>2, <1>3 DEF page_frame_count_needed
<1>5. r.page < UserPages /\ paging_allocate_check(m, k)
  BY DEF CreateRefusal, PROCESS_CREATE_SUCCESS, PROCESS_CREATE_FAIL_MAX_PROCESS_EXCEEDED,
         PROCESS_CREATE_FAIL_INVALID_ENTRYPOINT, PROCESS_CREATE_FAIL_NOT_ENOUGH_MEMORY
<1>. HIDE DEF k
<1>6. CeilDiv(k, PAGE_FRAME_SIZE) >= 1
  <2>1. k + PAGE_FRAME_SIZE - 1 \in Nat /\ k + PAGE_FRAME_SIZE - 1 >= PAGE_FRAME_SIZE
    BY <1>2, <1>4
  <2>2. ASSUME NEW x \in Nat, x >= PAGE_FRAME_SIZE
        PROVE  x \div PAGE_FRAME_SIZE >= 1
    BY <2>2, Z3
  <2>. QED
    BY <2>1, <2>2 DEF CeilDiv
<1>7. m.free \in Int /\ m.free >= 1
  <2>1. CeilDiv(k, PAGE_FRAME_SIZE) \in Int
    BY <1>2 DEF CeilDiv
  <2>. QED
    BY <1>1, <1>5, <1>6, <2>1, MemoryFields DEF paging_allocate_check
<1>8. FreeFrames(c) = FreeFrames(m) /\ c.free = m.free /\ c.table[d] = EmptyTable
      /\ c \in Memory
  <2>1. MemoryOK(c) /\ c.table[d] = EmptyTable
    BY CreateDirectoryOK
  <2>2. c.frame_map = m.frame_map /\ c.free = m.free
    BY <1>1 DEF paging_create_new_page_directory, Memory
  <2>. QED
    BY <2>1, <2>2 DEF FreeFrames, MemoryOK
<1>. HIDE DEF c
<1>9. PICK f \in FreeFrames(c) : \A g \in FreeFrames(c) : f <= g
  <2>1. FreeFrames(m) # {}
    BY <1>7, FS_EmptySet DEF MemoryOK, FrameAccounting
  <2>2. FreeFrames(c) \in SUBSET Nat
    BY DEF FreeFrames, Frames
  <2>. QED
    BY <1>8, <2>1, <2>2, LeastExists
<1>10. Rank(c, f) = 0
  <2>1. {g \in FreeFrames(c) : g < f} = {}
    BY <1>9 DEF FreeFrames, Frames
  <2>. QED
    BY <2>1, FS_EmptySet DEF Rank
<1>11. r.page \in Pages
  BY <1>2, <1>5 DEF Pages
<1>12. f \in taken
  BY <1>2, <1>4, <1>7, <1>8, <1>9, <1>10, <1>11 DEF Taken
<1>13. n.table[d][r.page] \in taken
  <2>1. n.table[d] = [p \in Pages |->
                        IF \E g \in taken : r.page + Rank(c, g) = p
                        THEN CHOOSE g \in taken : r.page + Rank(c, g) = p
                        ELSE NoFrame]
    BY <1>1, <1>8, MemoryFields DEF AllocatePages, Memory
  <2>2. r.page + Rank(c, f) = r.page
    BY <1>2, <1>10
  <2>. HIDE DEF taken
  <2>. QED
    BY <1>11, <1>12, <2>1, <2>2
<1>14. taken \subseteq Frames
  BY DEF Taken, FreeFrames
<1>15. r.page \in Mapped(n, d)
  BY <1>11, <1>13, <1>14, FrameNotNull DEF Mapped
<1>16. MemoryWithImage(m, d, r) = n
  BY DEF MemoryWithImage, c, k
<1>. QED
  BY <1>15, <1>16

\* What a process creation does: one slot that no process was in, one directory
\* that nobody used, at least one page in it, and nothing else.
Creation(s, d) ==
  /\ s \in Slots \ ActiveSlots
  /\ d \in Dirs
  /\ d \notin {process_list[t].dir : t \in ActiveSlots}
  /\ process_list'[s].pid = total_pid + 1
  /\ process_list'[s].active
  /\ process_list'[s].dir = d
  /\ \A t \in Slots \ {s} : process_list'[t] = process_list[t]
  /\ \A t \in ActiveSlots : mem'.table[process_list[t].dir] = mem.table[process_list[t].dir]
  /\ Mapped(mem', d) # {}
  /\ total_pid' = total_pid + 1

LEMMA BootEffect ==
  ASSUME IInv, Boot
  PROVE  /\ ActiveSlots = {}
         /\ total_pid = 0
         /\ cur_idx' \in Slots
         /\ \E d \in Dirs : Creation(cur_idx', d)
<1>. DEFINE m == paging_allocate_user_page_frame(mem, KernelDir, 0)
<1>1. /\ process_list = [t \in Slots |-> EmptyPCB]
      /\ total_pid = 0
      /\ mem.dir_used = {}
  BY DEF Boot, IInv, Phase, MemoryAtReset
<1>2. PICK s \in Slots, d \in Dirs :
        /\ CreateRefusal(m, ShellRequest) = PROCESS_CREATE_SUCCESS
        /\ mem' = MemoryWithImage(m, d, ShellRequest)
        /\ process_list' =
             [process_list EXCEPT ![s] =
                [NewPCB(process_generate_new_pid, d, ShellRequest, TRUE)
                   EXCEPT !.cur_state = "RUNNING"]]
        /\ cur_idx' = s
  BY DEF Boot
<1>3. MemoryOK(m) /\ m.dir_used = {}
  BY <1>1, AllocateOneOK, DirKinds DEF IInv
<1>. HIDE DEF m
<1>4. Mapped(mem', d) # {}
  BY <1>2, <1>3, AcceptedIsGranted
<1>5. ActiveSlots = {}
  BY <1>1 DEF ActiveSlots, EmptyPCB
<1>6. /\ process_list'[s].pid = total_pid + 1
      /\ process_list'[s].active
      /\ process_list'[s].dir = d
      /\ \A t \in Slots \ {s} : process_list'[t] = process_list[t]
  BY <1>1, <1>2 DEF NewPCB, process_generate_new_pid
<1>7. total_pid' = total_pid + 1
  BY DEF Boot, process_generate_new_pid
<1>8. Creation(s, d)
  BY <1>4, <1>5, <1>6, <1>7 DEF Creation
<1>. QED
  BY <1>1, <1>2, <1>5, <1>8

LEMMA CreationEffect ==
  ASSUME IInv, NEW r \in Requests, NEW read \in BOOLEAN, ExecCreated(r, read)
  PROVE  \E s \in Slots, d \in Dirs : Creation(s, d)
<1>1. PICK s \in Slots, d \in Dirs :
        /\ IsInactiveIndex(s)
        /\ IsFirstUnusedDir(mem, d)
        /\ mem' = MemoryWithImage(mem, d, r)
        /\ process_list' =
             [process_list EXCEPT ![s] = NewPCB(process_generate_new_pid, d, r, read)]
  BY DEF ExecCreated
<1>2. machine = "run" /\ CreateRefusal(mem, r) = PROCESS_CREATE_SUCCESS
      /\ total_pid' = total_pid + 1
  BY DEF ExecCreated, process_generate_new_pid
<1>3. s \notin ActiveSlots /\ d \notin mem.dir_used
  BY <1>1, <1>2, CreationFindsTwins DEF IsFirstUnusedDir
<1>4. /\ process_list'[s].pid = total_pid + 1
      /\ process_list'[s].active
      /\ process_list'[s].dir = d
      /\ \A t \in Slots \ {s} : process_list'[t] = process_list[t]
  BY <1>1 DEF IInv, TypeOK, NewPCB, process_generate_new_pid
<1>5. Mapped(mem', d) # {}
  BY <1>1, <1>2, <1>3, AcceptedIsGranted DEF IInv
<1>6. \A e \in Dirs \ {d} : mem'.table[e] = mem.table[e]
  BY <1>1, <1>3, ImageOK, DirKinds DEF IInv
<1>7. \A t \in ActiveSlots : process_list[t].dir \in mem.dir_used \cap (Dirs \ {d})
  BY <1>3, MemoryFields DEF IInv, TypeOK, DirectoryOwnership
<1>. QED
  BY <1>2, <1>3, <1>4, <1>5, <1>6, <1>7 DEF Creation

\* What a destruction does: one live process, the one with the pid that was
\* given, goes; the other slots and the other live directories stay.
Destruction(s, pid) ==
  /\ s \in ActiveSlots
  /\ process_list[s].pid = pid
  /\ ~ process_list'[s].active
  /\ \A t \in Slots \ {s} : process_list'[t] = process_list[t]
  /\ \A t \in ActiveSlots \ {s} :
       mem'.table[process_list[t].dir] = mem.table[process_list[t].dir]
  /\ machine' = IF active_process_count = 1 THEN "off"
                ELSE IF process_list[s].dir = cr3 THEN "fault"
                ELSE "run"

LEMMA DestructionEffect ==
  ASSUME IInv, NEW pid \in 1 .. MaxPid + 1, KillProcess(pid)
  PROVE  \E s \in Slots : Destruction(s, pid)
<1>1. PICK s \in Slots :
        /\ IsVictim(s, pid)
        /\ process_list[s].dir \in mem.kernel
        /\ mem' = MemoryWithout(mem, s)
        /\ process_list' = [process_list EXCEPT ![s].active = FALSE, ![s].pages = {}]
        /\ machine' = IF active_process_count = 1 THEN "off"
                      ELSE IF process_list[s].dir = cr3 THEN "fault"
                      ELSE "run"
  BY DEF KillProcess
<1>. DEFINE d == process_list[s].dir
<1>2. process_list \in [Slots -> PCB] /\ MemoryOK(mem) /\ mem \in Memory
  BY DEF IInv, TypeOK
<1>3. s \in ActiveSlots /\ d \in mem.dir_used
  <2>1. d \in mem.dir_used \cup {KernelDir}
    BY <1>1, <1>2 DEF MemoryOK, DirectoryLifecycle
  <2>2. d \in Dirs \cup {NullDir}
    BY <1>2 DEF PCB
  <2>3. d \in mem.dir_used
    BY <2>1, <2>2, DirKinds, TwinFacts
  <2>. QED
    BY <2>3, StaleFromLockstep DEF StaleNeverAliases
<1>4. /\ ~ process_list'[s].active
      /\ \A t \in Slots \ {s} : process_list'[t] = process_list[t]
  <2>. DEFINE dead == [process_list[s] EXCEPT !.active = FALSE, !.pages = {}]
  <2>1. ~ dead.active
    BY <1>2 DEF PCB
  <2>2. process_list' = [process_list EXCEPT ![s] = dead]
    BY <1>1, <1>2
  <2>. HIDE DEF dead
  <2>. QED
    BY <1>2, <2>1, <2>2
<1>5. \A e \in AllDirs \ {d} : mem'.table[e] = mem.table[e]
  BY <1>1, <1>2, <1>3, WithoutOK
<1>6. \A t \in ActiveSlots \ {s} : process_list[t].dir \in AllDirs \ {d}
  BY <1>2, <1>3, MemoryFields, DirKinds DEF IInv, DirectoryOwnership
<1>. QED
  BY <1>1, <1>3, <1>4, <1>5, <1>6 DEF Destruction, IsVictim

-----------------------------------------------------------------------------
\* Under the invariant a live pid is positive, was issued, and names its slot.
LEMMA PidNamesSlot ==
  ASSUME IInv, NEW s \in ActiveSlots
  PROVE  /\ process_list[s].pid \in ActivePids
         /\ process_list[s].pid \in 1 .. total_pid
         /\ SlotOf(process_list[s].pid) = s
<1>1. s \in Slots /\ process_list[s].active
  BY DEF ActiveSlots
<1>2. process_list[s].pid \in Nat /\ total_pid \in Nat
  BY <1>1 DEF IInv, TypeOK, PCB
<1>3. process_list[s].pid # 0
  BY <1>1 DEF IInv, Lockstep, EmptyPCB
<1>4. process_list[s].pid \in 1 .. total_pid
  BY <1>1, <1>2, <1>3 DEF IInv, PidsUnique
<1>5. \A t \in ActiveSlots : process_list[t].pid = process_list[s].pid => t = s
  BY <1>1, <1>3 DEF IInv, PidsUnique, ActiveSlots
<1>6. SlotOf(process_list[s].pid) = s
  BY <1>5 DEF SlotOf
<1>. QED
  BY <1>4, <1>6 DEF ActivePids

\* The refinement mapping of owner, for the proofs below.
Owner == [pid \in ActivePids |-> FramesOf(SlotOf(pid))]

OwnerMatches ==
  /\ \A s \in ActiveSlots : Owner[process_list[s].pid] = FramesOf(s)
  /\ \A pid \in ActivePids : \E s \in ActiveSlots : /\ pid = process_list[s].pid
                                                    /\ Owner[pid] = FramesOf(s)

LEMMA OwnerOfSlot == IInv => OwnerMatches
<1>. SUFFICES ASSUME IInv
              PROVE  OwnerMatches
  OBVIOUS
<1>1. \A pid \in ActivePids : \E s \in ActiveSlots : pid = process_list[s].pid
  BY DEF ActivePids
<1>2. \A s \in ActiveSlots : /\ process_list[s].pid \in ActivePids
                             /\ SlotOf(process_list[s].pid) = s
  BY PidNamesSlot
<1>. QED
  BY <1>1, <1>2 DEF Owner, OwnerMatches

\* The same in the state after a step.
LEMMA OwnerOfSlotAfter == IInv' => OwnerMatches'
BY OwnerOfSlot, PTL

\* A slot and a directory that a step leaves alone own the same frames after it.
LEMMA SameFrames ==
  ASSUME NEW s, process_list'[s] = process_list[s],
         mem'.table[process_list[s].dir] = mem.table[process_list[s].dir]
  PROVE  FramesOf(s)' = FramesOf(s)
<1>1. Mapped(mem, process_list[s].dir)' = Mapped(mem, process_list[s].dir)
  BY DEF Mapped
<1>. QED
  BY <1>1 DEF FramesOf

LEMMA ActiveAfterCreation ==
  ASSUME NEW s, NEW d, Creation(s, d)
  PROVE  ActiveSlots' = ActiveSlots \cup {s} /\ s \notin ActiveSlots
BY DEF Creation, ActiveSlots

\* A creation is a grant of ProcessTable: a fresh pid, and frames that nobody
\* owned before.
LEMMA CreationGrants ==
  ASSUME IInv, IInv', NEW s \in Slots, NEW d \in Dirs, Creation(s, d)
  PROVE  /\ ActivePids' = ActivePids \cup {total_pid + 1}
         /\ \A pid \in ActivePids : Owner'[pid] = Owner[pid]
         /\ Owner'[total_pid + 1]
              \in (SUBSET (Frames \ UNION {Owner[pid] : pid \in ActivePids})) \ {{}}
<1>1. ActiveSlots' = ActiveSlots \cup {s} /\ s \notin ActiveSlots /\ ActiveSlots \subseteq Slots
  BY ActiveAfterCreation DEF ActiveSlots
<1>2. /\ process_list'[s].pid = total_pid + 1
      /\ process_list'[s].dir = d
      /\ \A t \in ActiveSlots : /\ process_list'[t] = process_list[t]
                                /\ process_list[t].dir # d
                                /\ mem'.table[process_list[t].dir]
                                     = mem.table[process_list[t].dir]
  BY <1>1 DEF Creation
<1>3. ActivePids' = ActivePids \cup {total_pid + 1}
  BY <1>1, <1>2 DEF ActivePids
<1>4. \A t \in ActiveSlots : FramesOf(t)' = FramesOf(t)
  BY <1>2, SameFrames
<1>5. /\ \A t \in ActiveSlots : Owner[process_list[t].pid] = FramesOf(t)
      /\ \A pid \in ActivePids : \E t \in ActiveSlots : /\ pid = process_list[t].pid
                                                        /\ Owner[pid] = FramesOf(t)
  BY OwnerOfSlot DEF OwnerMatches
<1>6. \A t \in ActiveSlots' : Owner'[process_list'[t].pid] = FramesOf(t)'
  BY OwnerOfSlotAfter DEF OwnerMatches
<1>7. \A pid \in ActivePids : Owner'[pid] = Owner[pid]
  BY <1>1, <1>2, <1>4, <1>5, <1>6
<1>8. Owner'[total_pid + 1] = FramesOf(s)'
  BY <1>1, <1>2, <1>6
<1>9. FramesOf(s)' = {mem'.table[d][p] : p \in Mapped(mem', d)}
  <2>1. Mapped(mem, process_list[s].dir)' = Mapped(mem', d)
    BY <1>2 DEF Mapped
  <2>. QED
    BY <1>2, <2>1 DEF FramesOf
<1>10. mem' \in Memory /\ FrameExclusive(mem')
  BY DEF IInv, MemoryOK
<1>11. d \in AllDirs /\ \A t \in ActiveSlots : process_list[t].dir \in AllDirs
  BY DirKinds, MemoryFields DEF IInv, TypeOK, DirectoryOwnership
<1>12. FramesOf(s)' \subseteq Frames
  BY <1>9, <1>10, <1>11, MemoryFields DEF Mapped
<1>13. ASSUME NEW t \in ActiveSlots
       PROVE  FramesOf(s)' \cap FramesOf(t) = {}
  <2>. DEFINE e == process_list[t].dir
  <2>1. FramesOf(t) = {mem'.table[e][p] : p \in Mapped(mem', e)}
    BY <1>2 DEF FramesOf, Mapped
  <2>2. d # e /\ e \in AllDirs
    BY <1>2, <1>11
  <2>. QED
    BY <1>9, <1>10, <1>11, <2>1, <2>2 DEF FrameExclusive, Mapped
<1>14. FramesOf(s)' # {}
  <2>1. Mapped(mem', d) # {}
    BY DEF Creation
  <2>. QED
    BY <1>9, <2>1
<1>15. ASSUME NEW pid \in ActivePids
       PROVE  FramesOf(s)' \cap Owner[pid] = {}
  <2>1. PICK t \in ActiveSlots : Owner[pid] = FramesOf(t)
    BY <1>5
  <2>. QED
    BY <1>13, <2>1
<1>16. FramesOf(s)' \subseteq Frames \ UNION {Owner[pid] : pid \in ActivePids}
  BY <1>12, <1>15
<1>. DEFINE rest == Frames \ UNION {Owner[pid] : pid \in ActivePids}
            new == FramesOf(s)'
<1>17. Owner'[total_pid + 1] \in (SUBSET rest) \ {{}}
  <2>1. new \subseteq rest /\ new # {} /\ Owner'[total_pid + 1] = new
    BY <1>8, <1>14, <1>16
  <2>. HIDE DEF rest, new
  <2>. QED
    BY <2>1
<1>. QED
  BY <1>3, <1>7, <1>17

\* A destruction takes away one pid with its frames, and the last one when the
\* count says so.
LEMMA DestructionTakes ==
  ASSUME IInv, IInv', NEW pid, NEW s \in Slots, Destruction(s, pid)
  PROVE  /\ pid \in ActivePids /\ pid \in 1 .. total_pid
         /\ Owner' = [q \in ActivePids \ {pid} |-> Owner[q]]
         /\ active_process_count = 1 <=> ActivePids = {pid}
<1>1. s \in ActiveSlots /\ process_list[s].pid = pid
  BY DEF Destruction
<1>2. ActiveSlots' = ActiveSlots \ {s} /\ ActiveSlots \subseteq Slots
  BY DEF Destruction, ActiveSlots
<1>3. pid \in ActivePids /\ pid \in 1 .. total_pid
  BY <1>1, PidNamesSlot
<1>4. \A t \in ActiveSlots : process_list[t].pid = pid => t = s
  BY <1>1, PidNamesSlot
<1>5. \A t \in ActiveSlots' : /\ process_list'[t] = process_list[t]
                              /\ FramesOf(t)' = FramesOf(t)
  BY <1>2, SameFrames DEF Destruction
<1>6. ActivePids' = ActivePids \ {pid}
  BY <1>1, <1>2, <1>4, <1>5 DEF ActivePids
<1>7. \A t \in ActiveSlots' : Owner'[process_list'[t].pid] = FramesOf(t)'
  BY OwnerOfSlotAfter DEF OwnerMatches
<1>8. \A t \in ActiveSlots : Owner[process_list[t].pid] = FramesOf(t)
  BY OwnerOfSlot DEF OwnerMatches
<1>9. Owner' = [q \in ActivePids \ {pid} |-> Owner[q]]
  <2>1. \A q \in ActivePids' : Owner'[q] = Owner[q]
    <3>. SUFFICES ASSUME NEW q \in ActivePids'
                  PROVE  Owner'[q] = Owner[q]
      OBVIOUS
    <3>1. PICK t \in ActiveSlots' : q = process_list'[t].pid
      BY DEF ActivePids
    <3>. QED
      BY <1>2, <1>5, <1>7, <1>8, <3>1
  <2>2. Owner' = [q \in ActivePids' |-> Owner'[q]]
    BY DEF Owner
  <2>. QED
    BY <1>6, <2>1, <2>2
<1>10. active_process_count = 1 <=> ActivePids = {pid}
  <2>1. active_process_count = Cardinality(ActiveSlots) /\ IsFiniteSet(ActiveSlots)
    BY SlotsFinite DEF IInv, CountIsActive, ActiveSlots
  <2>2. ASSUME active_process_count = 1
        PROVE  ActivePids = {pid}
    <3>1. PICK x : ActiveSlots = {x}
      BY <2>1, <2>2, FS_Singleton
    <3>. QED
      BY <1>1, <3>1 DEF ActivePids
  <2>3. ASSUME ActivePids = {pid}
        PROVE  active_process_count = 1
    <3>1. ActiveSlots = {s}
      BY <1>1, <1>4, <2>3 DEF ActivePids
    <3>. QED
      BY <2>1, <3>1, FS_Singleton
  <2>. QED
    BY <2>2, <2>3
<1>. QED
  BY <1>3, <1>9, <1>10

-----------------------------------------------------------------------------
LEMMA CallerIsFirstStep == RInv /\ [Next]_vars => CallerIsFirst'
<1>. SUFFICES ASSUME RInv, [Next]_vars
              PROVE  CallerIsFirst'
  OBVIOUS
<1>1. CASE Boot
  BY <1>1, BootEffect DEF RInv, Creation, CallerIsFirst, FirstPid
<1>2. ASSUME NEW r \in Requests, ExecRefused(r)
      PROVE  CallerIsFirst'
  BY <1>2 DEF ExecRefused, RInv, CallerIsFirst, tableVars
<1>3. ASSUME NEW r \in Requests, NEW read \in BOOLEAN, ExecCreated(r, read)
      PROVE  CallerIsFirst'
  <2>1. cur_idx' = cur_idx /\ cur_idx \in ActiveSlots /\ machine = "run"
    BY <1>3 DEF ExecCreated, RInv, IInv, CallerInCharge
  <2>2. PICK s \in Slots, d \in Dirs : Creation(s, d)
    BY <1>3, CreationEffect DEF RInv
  <2>3. process_list'[cur_idx] = process_list[cur_idx]
    BY <2>1, <2>2 DEF Creation, ActiveSlots
  <2>. QED
    BY <2>1, <2>3 DEF RInv, CallerIsFirst
<1>4. ASSUME NEW pid \in 1 .. MaxPid + 1, KillUnknown(pid)
      PROVE  CallerIsFirst'
  BY <1>4 DEF KillUnknown, RInv, CallerIsFirst, tableVars
<1>5. ASSUME NEW pid \in 1 .. MaxPid + 1, KillProcess(pid)
      PROVE  CallerIsFirst'
  <2>. SUFFICES ASSUME machine' = "run"
                PROVE  process_list'[cur_idx'].pid = FirstPid
    BY DEF CallerIsFirst
  <2>1. /\ cur_idx' = cur_idx /\ machine = "run" /\ cur_idx \in ActiveSlots
        /\ cr3 = process_list[cur_idx].dir
    BY <1>5 DEF KillProcess, RInv, IInv, CallerInCharge
  <2>2. PICK s \in Slots : Destruction(s, pid)
    BY <1>5, DestructionEffect DEF RInv
  <2>3. process_list'[cur_idx] = process_list[cur_idx]
    BY <2>1, <2>2 DEF Destruction, ActiveSlots
  <2>. QED
    BY <2>1, <2>3 DEF RInv, CallerIsFirst
<1>6. ASSUME NEW pid \in 1 .. MaxPid + 1, KillStale(pid)
      PROVE  CallerIsFirst'
  BY <1>6 DEF KillStale, CallerIsFirst
<1>7. CASE UNCHANGED vars
  BY <1>7 DEF vars, RInv, CallerIsFirst
<1>. QED
  BY <1>1, <1>2, <1>3, <1>4, <1>5, <1>6, <1>7 DEF Next, Exec, Kill, Stopped

LEMMA RInvInductive == Spec => []RInv
<1>1. Init => RInv
  BY InitIInv DEF Init, RInv, CallerIsFirst
<1>2. RInv /\ [Next]_vars => RInv'
  <2>1. RInv /\ [Next]_vars => IInv'
    BY NextIInv DEF RInv
  <2>. QED
    BY <2>1, CallerIsFirstStep DEF RInv
<1>. QED
  BY <1>1, <1>2, PTL DEF Spec

\* The process that issues the system calls is the first one that boot made, as
\* long as the machine runs (kernel.c:33-49, scheduler.c:29-43).
THEOREM CallerStaysFirst == Spec => []CallerIsFirst
<1>1. RInv => CallerIsFirst
  BY DEF RInv
<1>. QED
  BY <1>1, RInvInductive, PTL

-----------------------------------------------------------------------------
\* A step that changes neither the memory nor the table shows the caller the
\* same processes with the same frames.
LEMMA SameOwner ==
  ASSUME UNCHANGED <<mem, tableVars>>
  PROVE  Owner' = Owner
<1>1. ActiveSlots' = ActiveSlots /\ ActivePids' = ActivePids
  BY DEF ActiveSlots, ActivePids, tableVars
<1>2. \A s : FramesOf(s)' = FramesOf(s)
  BY DEF FramesOf, Mapped, tableVars
<1>3. \A pid : SlotOf(pid)' = SlotOf(pid)
  BY <1>1 DEF SlotOf, tableVars
<1>. QED
  BY <1>1, <1>2, <1>3 DEF Owner

LEMMA CreationIsGrant ==
  ASSUME IInv, IInv', NEW s \in Slots, NEW d \in Dirs, Creation(s, d)
  PROVE  Table!Grant
<1>1. /\ ActivePids' = ActivePids \cup {total_pid + 1}
      /\ \A pid \in ActivePids : Owner'[pid] = Owner[pid]
      /\ Owner'[total_pid + 1]
           \in (SUBSET (Frames \ UNION {Owner[pid] : pid \in ActivePids})) \ {{}}
  BY CreationGrants
<1>2. DOMAIN Owner = ActivePids /\ DOMAIN Owner' = ActivePids'
  BY DEF Owner
<1>3. total_pid' = total_pid + 1
  BY DEF Creation
<1>. QED
  BY <1>1, <1>2, <1>3 DEF Table!Grant, Table!Live, Table!Owned, Owner

LEMMA DestructionIsKill ==
  ASSUME RInv, IInv', NEW pid \in 1 .. MaxPid + 1, KillProcess(pid)
  PROVE  pid \in 1 .. total_pid /\ Table!Kill(pid)
<1>1. PICK s \in Slots : Destruction(s, pid)
  BY DestructionEffect DEF RInv
<1>2. /\ pid \in ActivePids /\ pid \in 1 .. total_pid
      /\ Owner' = [q \in ActivePids \ {pid} |-> Owner[q]]
      /\ active_process_count = 1 <=> ActivePids = {pid}
  BY <1>1, DestructionTakes DEF RInv
<1>3. machine = "run" /\ result' = 1 /\ total_pid' = total_pid
  BY DEF KillProcess, KillTrue
<1>4. process_list[s].dir = cr3 <=> pid = FirstPid
  <2>1. /\ cur_idx \in ActiveSlots /\ cr3 = process_list[cur_idx].dir
        /\ process_list[cur_idx].pid = FirstPid
    BY <1>3 DEF RInv, IInv, CallerInCharge, CallerIsFirst
  <2>2. s \in ActiveSlots /\ process_list[s].pid = pid
    BY <1>1 DEF Destruction
  <2>3. process_list[s].dir = cr3 <=> s = cur_idx
    BY <2>1, <2>2 DEF RInv, IInv, DirectoryOwnership
  <2>4. pid = FirstPid <=> s = cur_idx
    BY <2>1, <2>2, PidNamesSlot DEF RInv
  <2>. QED
    BY <2>3, <2>4
<1>5. machine' = IF ActivePids = {pid} THEN "off" ELSE IF pid = FirstPid THEN "fault" ELSE "run"
  BY <1>1, <1>2, <1>4 DEF Destruction
<1>6. DOMAIN Owner = ActivePids
  BY DEF Owner
<1>. QED
  BY <1>2, <1>3, <1>5, <1>6 DEF Table!Kill, Table!Live, Owner

LEMMA StaleIsKillFailed ==
  ASSUME RInv, NEW pid \in 1 .. MaxPid + 1, KillStale(pid)
  PROVE  Table!KillFailed
<1>1. /\ machine = "run" /\ machine' = "fault"
      /\ UNCHANGED <<mem, tableVars>>
      /\ UNCHANGED <<total_pid, result>>
  BY DEF KillStale, tableVars
<1>2. PICK s \in Slots : /\ process_list[s].pid = pid
                         /\ process_list[s].dir \notin mem.kernel
  BY DEF KillStale, IsVictim
<1>3. \A t \in ActiveSlots : process_list[t].dir \in mem.kernel
  BY DEF RInv, IInv, DirectoryOwnership, MemoryOK, DirectoryLifecycle
<1>4. \A t \in ActiveSlots : process_list[t].pid # pid
  BY <1>2, <1>3 DEF RInv, IInv, PidsUnique, ActiveSlots
<1>5. pid \notin ActivePids /\ pid \in 1 .. total_pid
  BY <1>2, <1>4 DEF ActivePids, RInv, IInv, PidsUnique, TypeOK
<1>6. Owner' = Owner /\ DOMAIN Owner = ActivePids
  BY <1>1, SameOwner DEF Owner
<1>. QED
  BY <1>1, <1>5, <1>6 DEF Table!KillFailed, Table!Live, Owner

LEMMA StepRefines == RInv /\ [Next]_vars => [Table!Next]_(Table!tvars)
<1>. SUFFICES ASSUME RInv, [Next]_vars
              PROVE  Table!Next \/ UNCHANGED Table!tvars
  OBVIOUS
<1>0. IInv /\ IInv'
  BY NextIInv DEF RInv
<1>1. CASE Boot
  <2>1. PICK d \in Dirs : Creation(cur_idx', d)
    BY <1>0, <1>1, BootEffect
  <2>2. Table!Grant
    BY <1>0, <2>1, CreationIsGrant DEF Creation
  <2>3. machine = "boot" /\ machine' = "run" /\ UNCHANGED result
    BY <1>1 DEF Boot
  <2>. QED
    BY <2>2, <2>3 DEF Table!Start, Table!Next
<1>2. ASSUME NEW r \in Requests, ExecRefused(r)
      PROVE  Table!Next
  <2>1. /\ machine = "run" /\ result' \in 1 .. 3
        /\ UNCHANGED <<mem, tableVars>> /\ UNCHANGED <<total_pid, machine>>
    BY <1>2 DEF ExecRefused, CreateRefusal, PROCESS_CREATE_SUCCESS,
                PROCESS_CREATE_FAIL_MAX_PROCESS_EXCEEDED,
                PROCESS_CREATE_FAIL_INVALID_ENTRYPOINT,
                PROCESS_CREATE_FAIL_NOT_ENOUGH_MEMORY, tableVars
  <2>. QED
    BY <2>1, SameOwner DEF Table!Refuse, Table!Next, Owner
<1>3. ASSUME NEW r \in Requests, NEW read \in BOOLEAN, ExecCreated(r, read)
      PROVE  Table!Next
  <2>1. PICK s \in Slots, d \in Dirs : Creation(s, d)
    BY <1>0, <1>3, CreationEffect
  <2>2. Table!Grant
    BY <1>0, <2>1, CreationIsGrant
  <2>3. machine = "run" /\ UNCHANGED machine /\ result' = 0
    BY <1>3 DEF ExecCreated, PROCESS_CREATE_SUCCESS
  <2>. QED
    BY <2>2, <2>3 DEF Table!Spawn, Table!Next
<1>4. ASSUME NEW pid \in 1 .. MaxPid + 1, KillUnknown(pid)
      PROVE  Table!Next
  <2>1. /\ machine = "run" /\ result' = 0
        /\ UNCHANGED <<mem, tableVars>> /\ UNCHANGED <<total_pid, machine>>
    BY <1>4 DEF KillUnknown, KillFalse, tableVars
  <2>. QED
    BY <2>1, SameOwner DEF Table!KillMissed, Table!Next, Owner
<1>5. ASSUME NEW pid \in 1 .. MaxPid + 1, KillProcess(pid)
      PROVE  Table!Next
  BY <1>0, <1>5, DestructionIsKill DEF Table!Next
<1>6. ASSUME NEW pid \in 1 .. MaxPid + 1, KillStale(pid)
      PROVE  Table!Next
  BY <1>6, StaleIsKillFailed DEF Table!Next
<1>7. CASE UNCHANGED vars
  <2>1. UNCHANGED <<mem, tableVars>> /\ UNCHANGED <<total_pid, machine, result>>
    BY <1>7 DEF vars, tableVars
  <2>. QED
    BY <2>1, SameOwner DEF Table!tvars, Owner
<1>. QED
  BY <1>1, <1>2, <1>3, <1>4, <1>5, <1>6, <1>7 DEF Next, Exec, Kill, Stopped

LEMMA InitRefines == Init => Table!Init
<1>. SUFFICES ASSUME Init
              PROVE  Table!Init
  OBVIOUS
<1>1. ActivePids = {}
  BY DEF Init, ActivePids, ActiveSlots, EmptyPCB
<1>2. Owner = [p \in {} |-> {}]
  BY <1>1 DEF Owner
<1>. QED
  BY <1>2 DEF Init, Table!Init, Owner

\* The process manager implements ProcessTable: pids are issued once and in
\* order, a live process owns a non-empty set of frames that nobody else owns
\* and that only its own destruction takes away, and exec and kill answer what
\* happened (process.c:75-176, kernel.c:33-49).
THEOREM Implements == Spec => ImplementsTable
BY InitRefines, StepRefines, RInvInductive, PTL DEF Spec, ImplementsTable, Table!Spec

-----------------------------------------------------------------------------
\* What one step may do to the processes that are live before it.
OthersKept ==
  \A s \in ActiveSlots :
    \/ /\ process_list'[s] = process_list[s]
       /\ mem'.table[process_list[s].dir] = mem.table[process_list[s].dir]
    \/ KillProcess(process_list[s].pid) /\ process_list'[s].active = FALSE

LEMMA StepKeepsOthers == IInv /\ [Next]_vars => OthersKept \/ UNCHANGED vars
<1>. SUFFICES ASSUME IInv, [Next]_vars
              PROVE  OthersKept \/ UNCHANGED vars
  OBVIOUS
<1>1. CASE Boot
  BY <1>1, BootEffect DEF OthersKept
<1>2. ASSUME NEW r \in Requests, ExecRefused(r)
      PROVE  OthersKept
  BY <1>2 DEF ExecRefused, OthersKept, tableVars
<1>3. ASSUME NEW r \in Requests, NEW read \in BOOLEAN, ExecCreated(r, read)
      PROVE  OthersKept
  <2>1. PICK s \in Slots, d \in Dirs : Creation(s, d)
    BY <1>3, CreationEffect
  <2>. QED
    BY <2>1, ActiveAfterCreation DEF Creation, OthersKept, ActiveSlots
<1>4. ASSUME NEW pid \in 1 .. MaxPid + 1, KillUnknown(pid)
      PROVE  OthersKept
  BY <1>4 DEF KillUnknown, OthersKept, tableVars
<1>5. ASSUME NEW pid \in 1 .. MaxPid + 1, KillProcess(pid)
      PROVE  OthersKept
  <2>1. PICK s \in Slots : Destruction(s, pid)
    BY <1>5, DestructionEffect
  <2>2. IInv'
    BY <1>5, KillProcessStep
  <2>3. process_list'[s] \in PCB /\ ~ process_list'[s].active
    BY <2>1, <2>2 DEF IInv, TypeOK, Destruction
  <2>4. process_list'[s].active = FALSE
    BY <2>3 DEF PCB
  <2>. QED
    BY <1>5, <2>1, <2>4 DEF Destruction, OthersKept, ActiveSlots
<1>6. ASSUME NEW pid \in 1 .. MaxPid + 1, KillStale(pid)
      PROVE  OthersKept
  BY <1>6 DEF KillStale, OthersKept, tableVars
<1>. QED
  BY <1>1, <1>2, <1>3, <1>4, <1>5, <1>6 DEF Next, Exec, Kill, Stopped

\* Creating or destroying a process leaves the PCB and the whole address space of
\* every other live process as they were (process.c:75-176).
THEOREM OthersSafe == Spec => OthersUntouched
<1>1. IInv /\ [Next]_vars => [OthersKept]_vars
  BY StepKeepsOthers
<1>2. Spec => [][OthersKept]_vars
  BY <1>1, Inductive, PTL DEF Spec
<1>. QED
  BY <1>2 DEF OthersUntouched, OthersKept
=============================================================================
