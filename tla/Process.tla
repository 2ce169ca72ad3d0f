------------------------------ MODULE Process -------------------------------
(***************************************************************************)
(* The process table (process.c), the boot path that starts the shell        *)
(* (kernel.c), and the scheduler step boot takes (scheduler.c), on top of   *)
(* the page-frame manager.                                                 *)
(*                                                                         *)
(* Every handler runs with interrupts off (interrupt gates, idt.c) and is   *)
(* one action.  Nothing calls the scheduler after boot, so the shell in      *)
(* slot cur_idx stays the one process that issues system calls.            *)
(***************************************************************************)
EXTENDS Paging

CONSTANTS
  PROCESS_COUNT_MAX,              \* slots of _process_list
  PROCESS_PAGE_FRAME_COUNT_MAX,   \* pages a process may ask for
  ShellRequest,                   \* the boot request for the shell
  Requests,                       \* the requests system call 30 may carry
  MaxPid                          \* bound on the pids handed out

ASSUME ProcessAssumption ==
  /\ PROCESS_COUNT_MAX \in Nat \ {0}
  /\ PROCESS_COUNT_MAX <= PAGING_DIRECTORY_TABLE_MAX_COUNT
  /\ PROCESS_PAGE_FRAME_COUNT_MAX \in Nat
  /\ MaxPid \in Nat \ {0}
  /\ Requests \cup {ShellRequest} \subseteq [page : Nat, size : Nat]

VARIABLES
  cr3,                   \* the directory in the CPU's CR3
  process_list,          \* _process_list
  active_process_count,  \* process_manager_state, field by field
  cur_idx,
  total_pid,
  result,                \* the value the last exec or kill call stored
  machine                \* "boot", "run", "off" (powered off) or "fault"

tableVars == <<process_list, active_process_count, total_pid>>
vars == <<mem, cr3, process_list, active_process_count, cur_idx, total_pid,
          result, machine>>

Slots  == 0 .. PROCESS_COUNT_MAX - 1
NullDir == -1

\* pages: virtual_addr_used[0 .. page_frame_used_count - 1], by page number;
\* loaded: whether the executable's bytes were read into those pages.
PCB == [pid : Nat, active : BOOLEAN, cur_state : {"READY", "RUNNING"},
        dir : Dirs \cup {NullDir}, pages : SUBSET Nat, loaded : BOOLEAN]

EmptyPCB == [pid |-> 0, active |-> FALSE, cur_state |-> "READY",
             dir |-> NullDir, pages |-> {}, loaded |-> FALSE]

PROCESS_CREATE_SUCCESS                   == 0
PROCESS_CREATE_FAIL_MAX_PROCESS_EXCEEDED == 1
PROCESS_CREATE_FAIL_INVALID_ENTRYPOINT   == 2
PROCESS_CREATE_FAIL_NOT_ENOUGH_MEMORY    == 3

ActiveSlots == {s \in Slots : process_list[s].active}

\* getActivePCB: what ps is given, lowest slot first; here as the set of pids.
ActivePids == {process_list[s].pid : s \in ActiveSlots}

-----------------------------------------------------------------------------
\* Mutated scan for the checks: upwards, from the number of active processes.
UpwardFromCount(s) == IF s >= active_process_count THEN s - active_process_count
                      ELSE s - active_process_count + PROCESS_COUNT_MAX

\* How many steps the downward scan takes from cur_idx - 1 to slot s, going
\* round from slot 0 to the last one.
ScanDistance(s) == IF s < cur_idx THEN cur_idx - 1 - s
                   ELSE cur_idx - 1 - s + PROCESS_COUNT_MAX

\* Mutated scan for the checks: the slot's active flag is not tested.
NextIndexUnchecked(s) == s = (cur_idx + PROCESS_COUNT_MAX - 1) % PROCESS_COUNT_MAX

\* process_list_get_inactive_index returns s.
IsInactiveIndex(s) ==
  IF active_process_count = 0
  THEN s = 0
  ELSE /\ s \in Slots \ ActiveSlots
       /\ \A t \in Slots \ ActiveSlots : ScanDistance(s) <= ScanDistance(t)

\* Mutated pid for the checks: numbers of dead processes are used again.
RecycledPid == active_process_count + 1

process_generate_new_pid == total_pid + 1

page_frame_count_needed(r) ==
  CeilDiv(r.size + PAGE_FRAME_SIZE, PAGE_FRAME_SIZE)

\* Mutated checks for the runs: memory is not looked at.
RefusalWithoutMemoryCheck(m, r) ==
  IF active_process_count >= PROCESS_COUNT_MAX
  THEN PROCESS_CREATE_FAIL_MAX_PROCESS_EXCEEDED
  ELSE IF r.page >= UserPages
  THEN PROCESS_CREATE_FAIL_INVALID_ENTRYPOINT
  ELSE PROCESS_CREATE_SUCCESS

\* The checks at the head of process_create_user_process, in their order.  The
\* frame count is handed to a function that takes bytes, as in the code.
CreateRefusal(m, r) ==
  IF active_process_count >= PROCESS_COUNT_MAX
  THEN PROCESS_CREATE_FAIL_MAX_PROCESS_EXCEEDED
  ELSE IF r.page >= UserPages
  THEN PROCESS_CREATE_FAIL_INVALID_ENTRYPOINT
  ELSE IF \/ ~ paging_allocate_check(m, page_frame_count_needed(r))
          \/ page_frame_count_needed(r) > PROCESS_PAGE_FRAME_COUNT_MAX
  THEN PROCESS_CREATE_FAIL_NOT_ENOUGH_MEMORY
  ELSE PROCESS_CREATE_SUCCESS

\* Mutated page list for the checks: the stack page is not recorded.
PagesWithoutStack(r) == r.page .. r.page + page_frame_count_needed(r) - 2

PagesOf(r) == r.page .. r.page + page_frame_count_needed(r) - 1

\* The memory after process_create_user_process built directory d for r.
MemoryWithImage(m, d, r) ==
  AllocatePages(paging_create_new_page_directory(m, d),
                d, r.page, page_frame_count_needed(r))

\* Mutated PCB for the checks: creation leaves the process blocked.
BlockedPCB(pid, d, r, read) ==
  [pid |-> pid, active |-> TRUE, cur_state |-> "BLOCKED", dir |-> d,
   pages |-> PagesOf(r), loaded |-> read]

\* The PCB it fills; read says whether read(request) found the file.
NewPCB(pid, d, r, read) ==
  [pid |-> pid, active |-> TRUE, cur_state |-> "READY", dir |-> d,
   pages |-> PagesOf(r), loaded |-> read]

\* Mutated releases for the checks: the pages are looked up in the caller's
\* directory, or the directory is not given back.
ReleaseFromCaller(m, s) ==
  paging_free_page_directory(FreePages(m, cr3, process_list[s].pages),
                             process_list[s].dir)
ReleasePagesOnly(m, s) ==
  FreePages(m, process_list[s].dir, process_list[s].pages)

\* The memory after release_memory gave back what slot s owned.
MemoryWithout(m, s) ==
  paging_free_page_directory(
    FreePages(m, process_list[s].dir, process_list[s].pages),
    process_list[s].dir)

\* Mutated return for the checks: CR3 stays on the directory just freed.
VictimDirectory(d) == d

\* CR3 when release_memory returns: the directory it found there, unless that
\* is the one it freed, which it does not load again.
DirectoryAfterRelease(d) == IF cr3 # d THEN cr3 ELSE d

-----------------------------------------------------------------------------
Init ==
  /\ PagingInit
  /\ cr3 = KernelDir
  /\ process_list = [s \in Slots |-> EmptyPCB]
  /\ active_process_count = 0
  /\ cur_idx = -1
  /\ total_pid = 0
  /\ result = 0
  /\ machine = "boot"

\* kernel_setup: a frame for page 0 of the kernel's directory, the shell as
\* process 1, its directory in CR3, and the one scheduler switch, which finds
\* the shell in slot 0.
Boot ==
  /\ machine = "boot"
  /\ \E s \in Slots, d \in Dirs :
       LET booted == paging_allocate_user_page_frame(mem, KernelDir, 0)
       IN  /\ CreateRefusal(booted, ShellRequest) = PROCESS_CREATE_SUCCESS
           /\ IsInactiveIndex(s)
           /\ IsFirstUnusedDir(booted, d)
           /\ mem' = MemoryWithImage(booted, d, ShellRequest)
           /\ process_list' =
                [process_list EXCEPT ![s] =
                   [NewPCB(process_generate_new_pid, d, ShellRequest, TRUE)
                      EXCEPT !.cur_state = "RUNNING"]]
           /\ cr3' = d
           /\ cur_idx' = s
  /\ active_process_count' = active_process_count + 1
  /\ total_pid' = process_generate_new_pid
  /\ machine' = "run"
  /\ UNCHANGED result

\* System call 30 when one of the checks refuses.
ExecRefused(r) ==
  /\ machine = "run"
  /\ CreateRefusal(mem, r) # PROCESS_CREATE_SUCCESS
  /\ result' = CreateRefusal(mem, r)
  /\ UNCHANGED <<mem, cr3, cur_idx, tableVars, machine>>

\* System call 30: a new process, READY and never run.  The outcome of
\* read(request) is ignored; CR3 is the caller's again when the call returns.
ExecCreated(r, read) ==
  /\ machine = "run"
  /\ total_pid < MaxPid
  /\ CreateRefusal(mem, r) = PROCESS_CREATE_SUCCESS
  /\ \E s \in Slots, d \in Dirs :
       /\ IsInactiveIndex(s)
       /\ IsFirstUnusedDir(mem, d)
       /\ mem' = MemoryWithImage(mem, d, r)
       /\ process_list' =
            [process_list EXCEPT ![s] = NewPCB(process_generate_new_pid, d, r, read)]
  /\ active_process_count' = active_process_count + 1
  /\ total_pid' = process_generate_new_pid
  /\ result' = PROCESS_CREATE_SUCCESS
  /\ UNCHANGED <<cr3, cur_idx, machine>>

\* process_destroy takes the first slot with this pid, active or not.
IsVictim(s, pid) ==
  /\ process_list[s].pid = pid
  /\ \A t \in Slots : process_list[t].pid = pid => s <= t

KillTrue  == 1
KillFalse == 0

\* System call 32 with a pid that no slot ever held or still remembers.
KillUnknown(pid) ==
  /\ machine = "run"
  /\ \A s \in Slots : process_list[s].pid # pid
  /\ result' = KillFalse
  /\ UNCHANGED <<mem, cr3, cur_idx, tableVars, machine>>

\* System call 32: release_memory loads the victim's directory into CR3 and
\* comes back to the caller's, if that is another one.  Destroying the last
\* process powers the machine off; the caller destroying itself returns into
\* the cleared directory.
KillProcess(pid) ==
  /\ machine = "run"
  /\ \E s \in Slots :
       LET victim == process_list[s]
       IN  /\ IsVictim(s, pid)
           /\ victim.dir \in mem.kernel
           /\ mem' = MemoryWithout(mem, s)
           /\ process_list' = [process_list EXCEPT ![s].active = FALSE,
                                                   ![s].pages = {}]
           /\ cr3' = DirectoryAfterRelease(victim.dir)
           /\ machine' = IF active_process_count = 1 THEN "off"
                         ELSE IF victim.dir = cr3 THEN "fault"
                         ELSE "run"
  /\ active_process_count' = active_process_count - 1
  /\ result' = KillTrue
  /\ UNCHANGED <<cur_idx, total_pid>>

\* System call 32 with the pid of a slot whose directory was cleared when its
\* process died: the kernel is not mapped there, and loading it into CR3 takes
\* the machine down.
KillStale(pid) ==
  /\ machine = "run"
  /\ \E s \in Slots : /\ IsVictim(s, pid)
                      /\ process_list[s].dir \notin mem.kernel
                      /\ cr3' = process_list[s].dir
  /\ machine' = "fault"
  /\ UNCHANGED <<mem, cur_idx, tableVars, result>>

Exec == \/ \E r \in Requests : ExecRefused(r)
        \/ \E r \in Requests, read \in BOOLEAN : ExecCreated(r, read)

\* The shell's kill command rejects pids below 1 before the call.
Kill == \E pid \in 1 .. MaxPid + 1 :
          KillUnknown(pid) \/ KillProcess(pid) \/ KillStale(pid)

\* Powered off, or in a fault handler that never returns.
Stopped == machine \in {"off", "fault"} /\ UNCHANGED vars

Next == Boot \/ Exec \/ Kill \/ Stopped

Spec == Init /\ [][Next]_vars

-----------------------------------------------------------------------------
\* Type invariant of the process table and of the memory under it.
TypeOK ==
  /\ mem \in Memory
  /\ cr3 \in AllDirs
  /\ process_list \in [Slots -> PCB]
  /\ active_process_count \in Int
  /\ cur_idx \in Slots \cup {-1}
  /\ total_pid \in Nat
  /\ result \in 0 .. 3
  /\ machine \in {"boot", "run", "off", "fault"}

\* The frame bitmap, its counter and all directories stay consistent under
\* every sequence of exec and kill (paging.c composed by process.c).
MemoryConsistent == MemoryOK(mem)

\* active_process_count, which bounds creation, decides slot 0 and powers the
\* machine off, is the number of PCBs that getActivePCB would list
\* (process.c:15-26 against 78, 126 and 163-169).
CountIsActive == active_process_count = Cardinality(ActiveSlots)

\* The directories in use are those of the active processes, one each: none is
\* shared, and none outlives its process (process.c:104, 55-73).
DirectoryOwnership ==
  /\ mem.dir_used = {process_list[s].dir : s \in ActiveSlots}
  /\ \A s, t \in ActiveSlots :
       process_list[s].dir = process_list[t].dir => s = t

\* A process maps only pages it asked for, so release_memory's page list and
\* its directory sweep free the same frames (process.c:107-112, 57-65).
MappedWhereAsked ==
  \A s \in ActiveSlots :
    Mapped(mem, process_list[s].dir) \subseteq process_list[s].pages

\* A pid names one slot for ever, also after its process died, so the scan of
\* process_destroy cannot stop at another process (process.c:153-155, 49-53).
PidsUnique ==
  /\ \A s \in Slots : process_list[s].pid <= total_pid
  /\ \A s, t \in Slots :
       process_list[s].pid = process_list[t].pid /\ process_list[s].pid # 0
         => s = t

\* A dead PCB keeps its directory pointer; that directory is never one that a
\* live process has been given since.  It is what keeps a second kill of a pid
\* from destroying somebody else's memory (process.c:63-65 and 153-160), and
\* rests on the two scans, one down the slots and one up the directories, always
\* handing out a slot together with the same directory.
StaleNeverAliases ==
  \A s \in Slots \ ActiveSlots : process_list[s].dir \notin mem.dir_used

\* While the machine runs, CR3 holds the directory of the process in cur_idx,
\* that directory is live and maps the kernel, and nobody else is RUNNING:
\* creation and destruction always come back to the caller's address space
\* (process.c:103-115, 63-69, scheduler.c:29-43).
CallerInCharge ==
  machine = "run" =>
    /\ cur_idx \in ActiveSlots
    /\ cr3 = process_list[cur_idx].dir
    /\ cr3 \in mem.kernel
    /\ {s \in ActiveSlots : process_list[s].cur_state = "RUNNING"} = {cur_idx}

\* Creating or destroying a process leaves every other process as it was: its
\* PCB and its whole address space (process.c:75-176).
OthersUntouched ==
  [][\A s \in ActiveSlots :
       \/ /\ process_list'[s] = process_list[s]
          /\ mem'.table[process_list[s].dir] = mem.table[process_list[s].dir]
       \/ KillProcess(process_list[s].pid) /\ process_list'[s].active = FALSE]_vars

-----------------------------------------------------------------------------
\* The refinement: a live process owns the frames its directory maps.
SlotOf(pid) == CHOOSE s \in ActiveSlots : process_list[s].pid = pid

FramesOf(s) == {mem.table[process_list[s].dir][p] :
                  p \in Mapped(mem, process_list[s].dir)}

FirstPid == 1

Table == INSTANCE ProcessTable WITH
           Memory <- Frames,
           Caller <- FirstPid,
           owner  <- [pid \in ActivePids |-> FramesOf(SlotOf(pid))],
           issued <- total_pid,
           power  <- machine,
           reply  <- result

\* The process manager implements the abstract table: pids are never reissued,
\* live processes own disjoint, non-empty sets of frames that only their own
\* death takes away, and the answers of exec and kill say what happened.
ImplementsTable == Table!Spec

-----------------------------------------------------------------------------
\* What the code's own comments promise, and the runs refute.

\* process.c:91 "Check whether memory is enough for the executable and
\* additional frame for user stack": a created process has all its pages.
CreatedWithAllPages ==
  \A s \in ActiveSlots :
    process_list[s].pages \cap Pages \subseteq Mapped(mem, process_list[s].dir)

\* process.h:47 PROCESS_CREATE_FAIL_FS_READ_FAILURE: creation fails when the
\* executable cannot be read, so a created process has its program in memory.
CreatedWithProgram == \A s \in ActiveSlots : process_list[s].loaded

\* process.c:145-150 "Destroy process ... @return True if process destruction
\* success", and the shell's "not found or cannot be terminated": a kill that
\* names no active process reports false, and the system goes on.
KillOfDeadReportsFalse ==
  [][\A pid \in 1 .. MaxPid + 1 :
       (pid \notin ActivePids /\ (KillUnknown(pid) \/ KillProcess(pid) \/ KillStale(pid)))
         => machine' = "run" /\ result' = KillFalse]_vars
=============================================================================
