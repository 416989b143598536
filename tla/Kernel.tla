------------------------------- MODULE Kernel -------------------------------
(***************************************************************************)
(* The task table, the shared heap and the round-robin scheduler of        *)
(* src/src/Kernel.cpp, with the system calls of src/src/syscall that       *)
(* change them (exec and ls).                                              *)
(*                                                                         *)
(* One step is one turn of the scheduler's inner for loop: task 0 runs     *)
(* Comm_process, every other task one VM instruction.  The firmware has a  *)
(* single thread and only the timer interrupt preempts it, so a turn is    *)
(* atomic.  Code bytes, heap contents and strings are abstracted away      *)
(* here; time is abstracted to whether wake_up_time is non-zero.           *)
(***************************************************************************)
EXTENDS Heap

CONSTANTS
  TASK_COUNT,        \* size of the task table
  MAX_ALLOCATIONS,   \* entries of a task's alloc_table
  COMM_HEAP_SIZE,    \* cells given to the communication daemon (128)
  HeaderSizes,       \* heap sizes the headers of the executables declare
  MallocSizes,       \* sizes the programs pass to OP_MALLOC
  ReopenMayFail      \* can sd.open fail when ls reopens the program file?

Tasks   == 0 .. TASK_COUNT - 1
VmTasks == 1 .. TASK_COUNT - 1
Entries == 0 .. MAX_ALLOCATIONS - 1

TASK_FREE    == -2
TASK_RUNNING == -1

ASSUME TableAssumption ==
  /\ TASK_COUNT \in Nat /\ TASK_COUNT >= 2
  /\ MAX_ALLOCATIONS \in Nat /\ MAX_ALLOCATIONS >= 1
  /\ COMM_HEAP_SIZE \in 1 .. GLOBAL_HEAP_SIZE
ASSUME InputAssumption ==
  /\ HeaderSizes \subseteq Int
  /\ MallocSizes \subseteq Int
  /\ ReopenMayFail \in BOOLEAN

VARIABLES
  task_state,   \* TASK_FREE, TASK_RUNNING or the child waited for
  sleeping,     \* wake_up_time > 0
  file_open,    \* is the program file open?
  heap_base,    \* first cell of the task's segment, -1 if none
  heap_limit,   \* size of the segment
  alloc_table,  \* blocks obtained by MALLOC; ptr = -1 marks a free entry
  heap_bitmap,  \* the cells whose bit is set
  cursor        \* the scheduler's loop variable i

heapVars == <<heap_base, heap_limit, alloc_table, heap_bitmap>>
vars == <<task_state, sleeping, file_open, heapVars, cursor>>

isActive(t)   == task_state[t] # TASK_FREE
isRunnable(t) == task_state[t] = TASK_RUNNING
isPaused(t)   == task_state[t] >= 0

-----------------------------------------------------------------------------
(* The heap.                                                               *)

\* Mutant: the first entry, used or not.
EntryOverwritten(t) == {0}

FirstFreeEntry(t) ==
  {k \in Entries : /\ alloc_table[t][k].ptr = -1
                   /\ \A j \in 0 .. k - 1 : alloc_table[t][j].ptr # -1}

Segment(t) ==
  IF heap_base[t] = -1 THEN {} ELSE Cells(heap_base[t], heap_limit[t])

Block(t, k) ==
  IF alloc_table[t][k].ptr = -1 THEN {}
  ELSE Cells(alloc_table[t][k].ptr, alloc_table[t][k].size)

Blocks(t) == UNION {Block(t, k) : k \in Entries}

\* Mutant: the last cell of a block is not marked.
MallocLastCellUnmarked(t, size) ==
  \/ \E s \in FirstFit(heap_bitmap, size), k \in FirstFreeEntry(t) :
       /\ heap_bitmap' = heap_bitmap \cup Cells(s, size - 1)
       /\ alloc_table' =
            [alloc_table EXCEPT ![t][k] = [ptr |-> s, size |-> size]]
       /\ UNCHANGED <<heap_base, heap_limit>>
  \/ /\ FirstFit(heap_bitmap, size) = {} \/ FirstFreeEntry(t) = {}
     /\ UNCHANGED heapVars

\* The block is only recorded if the table has room: with no entry left the
\* call returns -1 before any bit is set.
Kernel_malloc(t, size) ==
  \/ \E s \in FirstFit(heap_bitmap, size), k \in FirstFreeEntry(t) :
       /\ heap_bitmap' = heap_bitmap \cup Cells(s, size)
       /\ alloc_table' =
            [alloc_table EXCEPT ![t][k] = [ptr |-> s, size |-> size]]
       /\ UNCHANGED <<heap_base, heap_limit>>
  \/ /\ FirstFit(heap_bitmap, size) = {} \/ FirstFreeEntry(t) = {}
     /\ UNCHANGED heapVars

-----------------------------------------------------------------------------
(* Tasks.                                                                  *)

\* Mutant: a slot counts as free if it is not waiting.
NotWaitingSlot ==
  {c \in VmTasks : ~isPaused(c) /\ \A d \in 1 .. c - 1 : isPaused(d)}

FreeSlot ==
  {c \in VmTasks : /\ task_state[c] = TASK_FREE
                   /\ \A d \in 1 .. c - 1 : task_state[d] # TASK_FREE}

\* Kernel_loadTask succeeds: header with a size that fits, the segment is
\* carved out, the task is made RUNNING.  Syscall_exec then pauses the
\* caller if it asked to wait.
LoadTask(t, c, size, wait_opt) ==
  \E s \in FirstFit(heap_bitmap, size) :
    /\ heap_bitmap' = heap_bitmap \cup Cells(s, size)
    /\ heap_base'   = [heap_base EXCEPT ![c] = s]
    /\ heap_limit'  = [heap_limit EXCEPT ![c] = size]
    /\ file_open'   = [file_open EXCEPT ![c] = TRUE]
    /\ sleeping'    = [sleeping EXCEPT ![c] = FALSE, ![t] = FALSE]
    /\ task_state'  =
         [task_state EXCEPT ![c] = TASK_RUNNING,
                            ![t] = IF wait_opt THEN c ELSE @]
    /\ UNCHANGED alloc_table

\* Kernel_loadTask fails: no such file, a bad or short header, or no room.
\* The slot was FREE and stays FREE with its file closed.
LoadFails(t, c) ==
  /\ file_open' = [file_open EXCEPT ![c] = FALSE]
  /\ sleeping'  = [sleeping EXCEPT ![t] = FALSE]
  /\ UNCHANGED <<task_state, heapVars>>

Syscall_exec(t) ==
  \/ \E c \in FreeSlot, size \in HeaderSizes, wait_opt \in BOOLEAN :
       LoadTask(t, c, size, wait_opt)
  \/ \E c \in FreeSlot : LoadFails(t, c)
  \/ /\ FreeSlot = {}
     /\ sleeping' = [sleeping EXCEPT ![t] = FALSE]
     /\ UNCHANGED <<task_state, file_open, heapVars>>

\* Mutant: the slot keeps its segment.
FreesMemoryNotSegment(t, cells) ==
  /\ heap_bitmap' = heap_bitmap \ cells
  /\ alloc_table' =
       [alloc_table EXCEPT ![t] = [k \in Entries |-> [@[k] EXCEPT !.ptr = -1]]]
  /\ UNCHANGED <<heap_base, heap_limit>>

\* The slot holds no memory any more; the bits of `cells` are cleared.
FreesMemory(t, cells) ==
  /\ heap_bitmap' = heap_bitmap \ cells
  /\ alloc_table' =
       [alloc_table EXCEPT ![t] = [k \in Entries |-> [@[k] EXCEPT !.ptr = -1]]]
  /\ heap_base'   = [heap_base EXCEPT ![t] = -1]
  /\ heap_limit'  = [heap_limit EXCEPT ![t] = 0]

\* The slot is FREE and its file closed; the wake-up loop has resumed `woken`.
FreesSlot(t, woken) ==
  /\ task_state' =
       [u \in Tasks |-> IF u = t THEN TASK_FREE
                        ELSE IF u \in woken THEN TASK_RUNNING
                        ELSE task_state[u]]
  /\ file_open'  = [file_open EXCEPT ![t] = FALSE]
  /\ sleeping'   = [sleeping EXCEPT ![t] = FALSE]

WaitingFor(t) == {u \in Tasks : task_state[u] = t}

\* Mutants: nobody is woken; everybody is; the blocks stay allocated.
TerminateWakesNobody(t) ==
  FreesMemory(t, Blocks(t) \cup Segment(t)) /\ FreesSlot(t, {})

TerminateWakesAll(t) ==
  /\ FreesMemory(t, Blocks(t) \cup Segment(t))
  /\ FreesSlot(t, {u \in Tasks : isPaused(u)})

TerminateLeaksBlocks(t) ==
  FreesMemory(t, Segment(t)) /\ FreesSlot(t, WaitingFor(t))

Kernel_terminateTask(t) ==
  FreesMemory(t, Blocks(t) \cup Segment(t)) /\ FreesSlot(t, WaitingFor(t))

\* ls closes the program file while it lists.  If the directory cannot be
\* opened it returns before reopening; if the reopening fails the task is
\* set FREE without going through Kernel_terminateTask.
Syscall_ls(t) ==
  /\ sleeping' = [sleeping EXCEPT ![t] = FALSE]
  /\ UNCHANGED heapVars
  /\ \/ UNCHANGED <<task_state, file_open>>
     \/ /\ file_open[t]
        /\ file_open' = [file_open EXCEPT ![t] = FALSE]
        /\ UNCHANGED task_state
     \/ /\ file_open[t] /\ ReopenMayFail
        /\ file_open'  = [file_open EXCEPT ![t] = FALSE]
        /\ task_state' = [task_state EXCEPT ![t] = TASK_FREE]

-----------------------------------------------------------------------------
(* The scheduler's turns.                                                  *)

Turn(t) == cursor = t /\ cursor' = (cursor + 1) % TASK_COUNT

\* Not RUNNING, or RUNNING with system_ticks < wake_up_time.
Skip(t) ==
  /\ Turn(t)
  /\ ~isRunnable(t) \/ sleeping[t]
  /\ UNCHANGED <<task_state, sleeping, file_open, heapVars>>

\* Comm_process: no packet, a packet with no effect on the task table, or
\* SYS_EXEC.  The daemon has no program file, so its ls leaves it alone.
Comm_process ==
  /\ Turn(0)
  /\ isRunnable(0)
  /\ \/ UNCHANGED <<task_state, sleeping, file_open, heapVars>>
     \/ Syscall_exec(0)
     \/ Syscall_ls(0)

VmTurn(t) == Turn(t) /\ isRunnable(t)

\* An instruction that touches only the stack, the heap contents, the code
\* position or the output.
VmCompute(t) ==
  /\ VmTurn(t)
  /\ sleeping' = [sleeping EXCEPT ![t] = FALSE]
  /\ UNCHANGED <<task_state, file_open, heapVars>>

VmMalloc(t) ==
  /\ VmTurn(t)
  /\ \E size \in MallocSizes : Kernel_malloc(t, size)
  /\ sleeping' = [sleeping EXCEPT ![t] = FALSE]
  /\ UNCHANGED <<task_state, file_open>>

\* Kernel_yield: ticks + ms, which is 0 only if both are.
VmSleep(t) ==
  /\ VmTurn(t)
  /\ \E asleep \in BOOLEAN : sleeping' = [sleeping EXCEPT ![t] = asleep]
  /\ UNCHANGED <<task_state, file_open, heapVars>>

VmExec(t) == VmTurn(t) /\ Syscall_exec(t)

VmLs(t) == VmTurn(t) /\ Syscall_ls(t)

\* OP_EXIT, a stack check, a bad LOAD or STORE address, or no more code.
VmTerminates(t) == VmTurn(t) /\ Kernel_terminateTask(t)

VmStep(t) ==
  \/ VmCompute(t) \/ VmMalloc(t) \/ VmSleep(t)
  \/ VmExec(t) \/ VmLs(t) \/ VmTerminates(t)

\* Kernel_init: the daemon's heap is a MALLOC block that is also its segment.
Init ==
  /\ task_state  = [t \in Tasks |-> IF t = 0 THEN TASK_RUNNING ELSE TASK_FREE]
  /\ sleeping    = [t \in Tasks |-> FALSE]
  /\ file_open   = [t \in Tasks |-> FALSE]
  /\ heap_base   = [t \in Tasks |-> IF t = 0 THEN 0 ELSE -1]
  /\ heap_limit  = [t \in Tasks |-> IF t = 0 THEN COMM_HEAP_SIZE ELSE 0]
  /\ alloc_table =
       [t \in Tasks |-> [k \in Entries |->
          IF t = 0 /\ k = 0 THEN [ptr |-> 0, size |-> COMM_HEAP_SIZE]
          ELSE [ptr |-> -1, size |-> 0]]]
  /\ heap_bitmap = Cells(0, COMM_HEAP_SIZE)
  /\ cursor = 0

Next ==
  \/ \E t \in Tasks : Skip(t)
  \/ Comm_process
  \/ \E t \in VmTasks : VmStep(t)

Spec == Init /\ [][Next]_vars

(***************************************************************************)
(* The scheduler loop never stops, and, as an assumption on the programs,  *)
(* one that keeps getting turns sooner or later exits or dies.             *)
(***************************************************************************)
Fairness ==
  /\ WF_vars(Next)
  /\ \A t \in VmTasks : SF_vars(VmTerminates(t))

FairSpec == Spec /\ Fairness

-----------------------------------------------------------------------------
(* Properties.                                                             *)

\* Types of the task table, the allocator and the scheduler's loop variable.
TypeOK ==
  /\ task_state  \in [Tasks -> {TASK_FREE, TASK_RUNNING} \cup VmTasks]
  /\ sleeping    \in [Tasks -> BOOLEAN]
  /\ file_open   \in [Tasks -> BOOLEAN]
  /\ heap_base   \in [Tasks -> Addr \cup {-1}]
  /\ heap_limit  \in [Tasks -> 0 .. GLOBAL_HEAP_SIZE]
  /\ alloc_table \in
       [Tasks -> [Entries -> [ptr : Addr \cup {-1}, size : 0 .. GLOBAL_HEAP_SIZE]]]
  /\ heap_bitmap \in SUBSET Addr
  /\ cursor \in Tasks

\* No cell is given out twice: segments and MALLOC blocks of the tasks never
\* overlap, except that the daemon's segment is its own first block
\* (Kernel_malloc and Kernel_loadTask against Kernel_terminateTask).
HeapDisjoint ==
  /\ \A t, u \in Tasks, k, l \in Entries :
       <<t, k>> # <<u, l>> => Block(t, k) \cap Block(u, l) = {}
  /\ \A t, u \in Tasks : t # u => Segment(t) \cap Segment(u) = {}
  /\ \A t \in VmTasks, u \in Tasks, k \in Entries :
       Segment(t) \cap Block(u, k) = {}
  /\ Segment(0) = Block(0, 0)

\* Every cell some task holds has its bit set, so neither scan can hand it
\* out again.
HeldIsAllocated ==
  \A t \in Tasks : Segment(t) \cup Blocks(t) \subseteq heap_bitmap

\* No leak: a set bit belongs to an active task, whatever order programs
\* are loaded, allocate and die in.
NoLeak ==
  \A a \in heap_bitmap :
    \E t \in Tasks : isActive(t) /\ a \in Segment(t) \cup Blocks(t)

\* A FREE slot holds no memory that its next program would inherit.
FreeHoldsNothing ==
  \A t \in Tasks : ~isActive(t) => heap_base[t] = -1 /\ Blocks(t) = {}

\* A paused parent waits for a task that is still there to wake it
\* (Syscall_exec's waitForChild against Kernel_terminateTask's wake-up loop).
WaitsForActive ==
  \A t \in Tasks : isPaused(t) => isActive(task_state[t])

\* A child has at most one waiting parent.
OneWaiter ==
  \A t, u \in Tasks : isPaused(t) /\ task_state[t] = task_state[u] => t = u

\* Tasks never wait in a circle: every set of paused tasks has a member
\* that waits for a task outside the set.
NoWaitCycle ==
  \A S \in SUBSET {t \in Tasks : isPaused(t)} :
    S # {} => \E t \in S : task_state[t] \notin S

\* The scheduler never spins with every task blocked.
SomeoneRunnable == \E t \in Tasks : isRunnable(t)

\* A paused task is resumed only by the end of the child it waits for, and
\* in the very step that frees the child.
ResumeOnlyByChild ==
  [][\A t \in Tasks :
       isPaused(t) /\ task_state'[t] # task_state[t] =>
         /\ task_state'[t] = TASK_RUNNING
         /\ task_state'[task_state[t]] = TASK_FREE]_vars

\* While a task lives nobody moves, resizes or frees the memory it was given.
MemoryKept ==
  [][\A t \in Tasks :
       isActive(t) /\ task_state'[t] # TASK_FREE =>
         /\ heap_base'[t] = heap_base[t] /\ heap_limit'[t] = heap_limit[t]
         /\ \A k \in Entries : alloc_table[t][k].ptr # -1 =>
              alloc_table'[t][k] = alloc_table[t][k]]_vars

\* If programs end, every paused task runs again.
ParentResumes ==
  \A t \in Tasks : isPaused(t) ~> isRunnable(t)
=============================================================================
