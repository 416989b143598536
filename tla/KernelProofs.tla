---------------------------- MODULE KernelProofs ----------------------------
(***************************************************************************)
(* Proofs about the kernel of Kernel.tla, for every table and heap size:   *)
(* what each step does to the table, that no memory has two owners, who    *)
(* waits for whom, and what a dead task leaves.                            *)
(***************************************************************************)
EXTENDS Kernel, TLAPS

-----------------------------------------------------------------------------
(* What the allocator returns.                                             *)

\* A found run is inside the heap, has the size asked for and was free.
LEMMA FirstFitRange ==
  ASSUME NEW bm, NEW size \in Int, NEW s \in FirstFit(bm, size)
  PROVE  /\ s \in Addr
         /\ size \in 1 .. GLOBAL_HEAP_SIZE
         /\ Cells(s, size) \subseteq Addr
         /\ Cells(s, size) \cap bm = {}
<1>1. s \in Addr /\ size > 0 /\ s + size <= GLOBAL_HEAP_SIZE
      /\ Cells(s, size) \cap bm = {}
  BY DEF FirstFit, Fits
<1>2. s \in Int /\ s >= 0 /\ GLOBAL_HEAP_SIZE \in Int
  BY <1>1, HeapAssumption DEF Addr
<1>3. size \in 1 .. GLOBAL_HEAP_SIZE
  BY <1>1, <1>2
<1>4. Cells(s, size) \subseteq Addr
  BY <1>1, <1>2 DEF Cells, Addr
<1> QED BY <1>1, <1>3, <1>4

\* The scheduler's loop variable stays in the task table.
LEMMA CursorRange == \A i \in Tasks : (i + 1) % TASK_COUNT \in Tasks
BY TableAssumption DEF Tasks

-----------------------------------------------------------------------------
(* Type correctness.                                                       *)

\* The initial state of Kernel_init is well typed.
LEMMA InitTypeOK == Init => TypeOK
<1> SUFFICES ASSUME Init PROVE TypeOK
  OBVIOUS
<1> USE HeapAssumption, TableAssumption
<1>1. 0 \in Tasks /\ 0 \in Addr /\ COMM_HEAP_SIZE \in 0 .. GLOBAL_HEAP_SIZE
      /\ 0 \in 0 .. GLOBAL_HEAP_SIZE
  BY DEF Tasks, Addr
<1>2. /\ task_state \in [Tasks -> {TASK_FREE, TASK_RUNNING} \cup VmTasks]
      /\ sleeping \in [Tasks -> BOOLEAN] /\ file_open \in [Tasks -> BOOLEAN]
  BY DEF Init
<1>3. /\ heap_base \in [Tasks -> Addr \cup {-1}]
      /\ heap_limit \in [Tasks -> 0 .. GLOBAL_HEAP_SIZE]
  BY <1>1 DEF Init
<1>4. alloc_table \in
       [Tasks -> [Entries -> [ptr : Addr \cup {-1}, size : 0 .. GLOBAL_HEAP_SIZE]]]
  BY <1>1 DEF Init
<1>5. heap_bitmap \in SUBSET Addr
  BY DEF Init, Cells, Addr
<1> QED BY <1>1, <1>2, <1>3, <1>4, <1>5 DEF TypeOK, Init

\* Syscall_exec keeps the task table and the heap well typed.
LEMMA ExecTypeOK ==
  ASSUME TypeOK, NEW t \in Tasks, Syscall_exec(t), cursor' \in Tasks
  PROVE  TypeOK'
<1>1. CASE \E c \in FreeSlot, size \in HeaderSizes, wait_opt \in BOOLEAN :
             LoadTask(t, c, size, wait_opt)
  <2>1. PICK c \in FreeSlot, size \in HeaderSizes, wait_opt \in BOOLEAN :
               LoadTask(t, c, size, wait_opt)
    BY <1>1
  <2>2. size \in Int /\ c \in VmTasks /\ c \in Tasks
    BY InputAssumption DEF FreeSlot, VmTasks, Tasks
  <2>3. PICK s \in FirstFit(heap_bitmap, size) :
          /\ heap_bitmap' = heap_bitmap \cup Cells(s, size)
          /\ heap_base'   = [heap_base EXCEPT ![c] = s]
          /\ heap_limit'  = [heap_limit EXCEPT ![c] = size]
    BY <2>1 DEF LoadTask
  <2>4. /\ s \in Addr /\ size \in 0 .. GLOBAL_HEAP_SIZE
        /\ Cells(s, size) \subseteq Addr
    BY <2>2, FirstFitRange, HeapAssumption
  <2>5. /\ heap_bitmap' \in SUBSET Addr
        /\ heap_base' \in [Tasks -> Addr \cup {-1}]
        /\ heap_limit' \in [Tasks -> 0 .. GLOBAL_HEAP_SIZE]
    BY <2>3, <2>4 DEF TypeOK
  <2>6. /\ file_open' \in [Tasks -> BOOLEAN] /\ sleeping' \in [Tasks -> BOOLEAN]
        /\ alloc_table' = alloc_table
    BY <2>1 DEF LoadTask, TypeOK
  <2>7. task_state' \in [Tasks -> {TASK_FREE, TASK_RUNNING} \cup VmTasks]
    BY <2>1, <2>2 DEF LoadTask, TypeOK
  <2> QED BY <2>5, <2>6, <2>7 DEF TypeOK
<1>2. CASE \E c \in FreeSlot : LoadFails(t, c)
  BY <1>2 DEF LoadFails, TypeOK, heapVars
<1>3. CASE /\ sleeping' = [sleeping EXCEPT ![t] = FALSE]
           /\ UNCHANGED <<task_state, file_open, heapVars>>
  BY <1>3 DEF TypeOK, heapVars
<1> QED BY <1>1, <1>2, <1>3 DEF Syscall_exec

\* Syscall_ls keeps the task table and the heap well typed.
LEMMA LsTypeOK ==
  ASSUME TypeOK, NEW t \in Tasks, Syscall_ls(t), cursor' \in Tasks
  PROVE  TypeOK'
<1>1. sleeping' \in [Tasks -> BOOLEAN] /\ UNCHANGED heapVars
  BY DEF Syscall_ls, TypeOK
<1>2. file_open' \in [Tasks -> BOOLEAN]
  BY DEF Syscall_ls, TypeOK
<1>3. task_state' \in [Tasks -> {TASK_FREE, TASK_RUNNING} \cup VmTasks]
  BY DEF Syscall_ls, TypeOK
<1> QED BY <1>1, <1>2, <1>3 DEF TypeOK, heapVars

\* OP_MALLOC keeps the heap well typed.
LEMMA MallocTypeOK ==
  ASSUME TypeOK, NEW t \in VmTasks, VmMalloc(t), cursor' \in Tasks
  PROVE  TypeOK'
<1>0. t \in Tasks
  BY TableAssumption DEF Tasks, VmTasks
<1>1. PICK size \in MallocSizes : Kernel_malloc(t, size)
  BY DEF VmMalloc
<1>2. size \in Int
  BY InputAssumption
<1>3. /\ sleeping' \in [Tasks -> BOOLEAN]
      /\ UNCHANGED <<task_state, file_open>>
  BY DEF VmMalloc, TypeOK
<1>4. CASE UNCHANGED heapVars
  BY <1>3, <1>4 DEF TypeOK, heapVars
<1>5. CASE \E s \in FirstFit(heap_bitmap, size), k \in FirstFreeEntry(t) :
             /\ heap_bitmap' = heap_bitmap \cup Cells(s, size)
             /\ alloc_table' =
                  [alloc_table EXCEPT ![t][k] = [ptr |-> s, size |-> size]]
             /\ UNCHANGED <<heap_base, heap_limit>>
  <2>1. PICK s \in FirstFit(heap_bitmap, size), k \in FirstFreeEntry(t) :
             /\ heap_bitmap' = heap_bitmap \cup Cells(s, size)
             /\ alloc_table' =
                  [alloc_table EXCEPT ![t][k] = [ptr |-> s, size |-> size]]
             /\ UNCHANGED <<heap_base, heap_limit>>
    BY <1>5
  <2>2. /\ s \in Addr /\ size \in 0 .. GLOBAL_HEAP_SIZE
        /\ Cells(s, size) \subseteq Addr
    BY <1>2, FirstFitRange, HeapAssumption
  <2>3. heap_bitmap' \in SUBSET Addr
    BY <2>1, <2>2 DEF TypeOK
  <2>4. alloc_table' \in
       [Tasks -> [Entries -> [ptr : Addr \cup {-1}, size : 0 .. GLOBAL_HEAP_SIZE]]]
    BY <1>0, <2>1, <2>2 DEF TypeOK, FirstFreeEntry
  <2> QED BY <1>3, <2>1, <2>3, <2>4 DEF TypeOK
<1> QED BY <1>1, <1>4, <1>5 DEF Kernel_malloc

\* Kernel_terminateTask keeps the task table and the heap well typed.
LEMMA TerminateTypeOK ==
  ASSUME TypeOK, NEW t \in VmTasks, Kernel_terminateTask(t), cursor' \in Tasks
  PROVE  TypeOK'
<1>0. t \in Tasks /\ 0 \in 0 .. GLOBAL_HEAP_SIZE
  BY TableAssumption, HeapAssumption DEF Tasks, VmTasks
<1>1. heap_bitmap' \in SUBSET Addr
  BY DEF Kernel_terminateTask, FreesMemory,
              FreesSlot, WaitingFor, TypeOK
<1>2. /\ heap_base' \in [Tasks -> Addr \cup {-1}]
      /\ heap_limit' \in [Tasks -> 0 .. GLOBAL_HEAP_SIZE]
  BY <1>0 DEF Kernel_terminateTask, FreesMemory,
              FreesSlot, WaitingFor, TypeOK
<1>3. alloc_table' \in
       [Tasks -> [Entries -> [ptr : Addr \cup {-1}, size : 0 .. GLOBAL_HEAP_SIZE]]]
  <2>1. alloc_table' =
          [alloc_table EXCEPT ![t] = [k \in Entries |-> [@[k] EXCEPT !.ptr = -1]]]
    BY DEF Kernel_terminateTask, FreesMemory,
              FreesSlot, WaitingFor
  <2>2. ASSUME NEW k \in Entries
        PROVE  [alloc_table[t][k] EXCEPT !.ptr = -1]
                 \in [ptr : Addr \cup {-1}, size : 0 .. GLOBAL_HEAP_SIZE]
    <3>1. alloc_table[t][k] \in [ptr : Addr \cup {-1}, size : 0 .. GLOBAL_HEAP_SIZE]
      BY <1>0 DEF TypeOK
    <3> QED BY <3>1
  <2>3. [k \in Entries |-> [alloc_table[t][k] EXCEPT !.ptr = -1]]
          \in [Entries -> [ptr : Addr \cup {-1}, size : 0 .. GLOBAL_HEAP_SIZE]]
    BY <2>2
  <2> QED BY <1>0, <2>1, <2>3 DEF TypeOK
<1>4. task_state' \in [Tasks -> {TASK_FREE, TASK_RUNNING} \cup VmTasks]
  BY DEF Kernel_terminateTask, FreesMemory,
              FreesSlot, WaitingFor, TypeOK
<1>5. /\ file_open' \in [Tasks -> BOOLEAN] /\ sleeping' \in [Tasks -> BOOLEAN]
  BY DEF Kernel_terminateTask, FreesMemory,
              FreesSlot, WaitingFor, TypeOK
<1> QED BY <1>1, <1>2, <1>3, <1>4, <1>5 DEF TypeOK

\* Every turn of the scheduler keeps the state well typed.
LEMMA NextTypeOK == TypeOK /\ [Next]_vars => TypeOK'
<1> SUFFICES ASSUME TypeOK, [Next]_vars PROVE TypeOK'
  OBVIOUS
<1>0. ASSUME NEW t \in Tasks, Turn(t) PROVE cursor' \in Tasks
  BY <1>0, CursorRange DEF Turn, TypeOK
<1>v. VmTasks \subseteq Tasks /\ 0 \in Tasks
  BY TableAssumption DEF Tasks, VmTasks
<1>1. ASSUME NEW t \in Tasks, Skip(t) PROVE TypeOK'
  BY <1>0, <1>1 DEF Skip, TypeOK, heapVars
<1>2. CASE Comm_process
  <2>0. cursor' \in Tasks
    BY <1>0, <1>2, <1>v DEF Comm_process
  <2>1. CASE UNCHANGED <<task_state, sleeping, file_open, heapVars>>
    BY <2>0, <2>1 DEF TypeOK, heapVars
  <2> QED BY <1>2, <1>v, <2>0, <2>1, ExecTypeOK, LsTypeOK DEF Comm_process
<1>3. ASSUME NEW t \in VmTasks, VmStep(t) PROVE TypeOK'
  <2>0. cursor' \in Tasks
    BY <1>0, <1>3, <1>v DEF VmStep, VmCompute, VmMalloc, VmSleep, VmExec,
                            VmLs, VmTerminates, VmTurn
  <2>1. CASE VmCompute(t)
    BY <2>0, <2>1 DEF VmCompute, TypeOK, heapVars
  <2>2. CASE VmSleep(t)
    BY <2>0, <2>2 DEF VmSleep, TypeOK, heapVars
  <2>3. CASE VmMalloc(t)
    BY <2>0, <2>3, MallocTypeOK
  <2>4. CASE VmExec(t)
    BY <2>0, <2>4, <1>v, ExecTypeOK DEF VmExec
  <2>5. CASE VmLs(t)
    BY <2>0, <2>5, <1>v, LsTypeOK DEF VmLs
  <2>6. CASE VmTerminates(t)
    BY <2>0, <2>6, TerminateTypeOK DEF VmTerminates
  <2> QED BY <1>3, <2>1, <2>2, <2>3, <2>4, <2>5, <2>6 DEF VmStep
<1>4. CASE UNCHANGED vars
  BY <1>4 DEF TypeOK, vars, heapVars
<1> QED BY <1>1, <1>2, <1>3, <1>4 DEF Next

\* The task table, the allocator and the scheduler's loop variable keep
\* their types.
THEOREM TypeCorrect == Spec => []TypeOK
BY InitTypeOK, NextTypeOK, PTL DEF Spec

-----------------------------------------------------------------------------
(* What a turn does to the task table and the heap, in four cases.         *)

\* Kernel_loadTask gave the FREE slot c the run of `size` cells at s; the
\* caller t waits for it or goes on.
Started(t, c, s, size) ==
  /\ isRunnable(t) /\ ~isActive(c)
  /\ size \in Int /\ s \in FirstFit(heap_bitmap, size)
  /\ heap_bitmap' = heap_bitmap \cup Cells(s, size)
  /\ heap_base'   = [heap_base EXCEPT ![c] = s]
  /\ heap_limit'  = [heap_limit EXCEPT ![c] = size]
  /\ alloc_table' = alloc_table
  /\ task_state' \in {[task_state EXCEPT ![c] = TASK_RUNNING],
                      [task_state EXCEPT ![c] = TASK_RUNNING, ![t] = c]}

\* Kernel_malloc gave t the run of `size` cells at s, in entry k.
Allocated(t, k, s, size) ==
  /\ isRunnable(t)
  /\ size \in Int /\ s \in FirstFit(heap_bitmap, size)
  /\ alloc_table[t][k].ptr = -1
  /\ heap_bitmap' = heap_bitmap \cup Cells(s, size)
  /\ alloc_table' = [alloc_table EXCEPT ![t][k] = [ptr |-> s, size |-> size]]
  /\ UNCHANGED <<heap_base, heap_limit, task_state>>

\* ls set t FREE because the program file could not be reopened.
Lost(t) ==
  /\ ReopenMayFail /\ isRunnable(t)
  /\ task_state' = [task_state EXCEPT ![t] = TASK_FREE]
  /\ UNCHANGED heapVars

Effect ==
  \/ UNCHANGED <<task_state, heapVars>>
  \/ \E t \in Tasks, c \in VmTasks : \E s, size : Started(t, c, s, size)
  \/ \E t \in VmTasks, k \in Entries : \E s, size : Allocated(t, k, s, size)
  \/ \E t \in VmTasks : isRunnable(t) /\ Kernel_terminateTask(t)
  \/ \E t \in VmTasks : Lost(t)

\* The daemon has no program file, so its ls never closes one.
DaemonInv == TypeOK /\ isActive(0) /\ ~file_open[0]

\* Syscall_exec starts a program or leaves the table and the heap alone.
LEMMA ExecEffect ==
  ASSUME TypeOK, NEW t \in Tasks, isRunnable(t), Syscall_exec(t)
  PROVE  Effect
<1>1. CASE \E c \in FreeSlot, size \in HeaderSizes, wait_opt \in BOOLEAN :
             LoadTask(t, c, size, wait_opt)
  <2>1. PICK c \in FreeSlot, size \in HeaderSizes, wait_opt \in BOOLEAN :
               LoadTask(t, c, size, wait_opt)
    BY <1>1
  <2>2. /\ c \in VmTasks /\ ~isActive(c) /\ size \in Int
        /\ c \in Tasks /\ t # c
    BY InputAssumption
       DEF FreeSlot, isActive, isRunnable, TASK_FREE, TASK_RUNNING, VmTasks, Tasks
  <2>3. PICK s \in FirstFit(heap_bitmap, size) :
          /\ heap_bitmap' = heap_bitmap \cup Cells(s, size)
          /\ heap_base'   = [heap_base EXCEPT ![c] = s]
          /\ heap_limit'  = [heap_limit EXCEPT ![c] = size]
    BY <2>1 DEF LoadTask
  <2>4. task_state' = [task_state EXCEPT ![c] = TASK_RUNNING,
                                         ![t] = IF wait_opt THEN c ELSE @]
        /\ alloc_table' = alloc_table
    BY <2>1 DEF LoadTask
  <2>5. task_state' \in {[task_state EXCEPT ![c] = TASK_RUNNING],
                         [task_state EXCEPT ![c] = TASK_RUNNING, ![t] = c]}
    <3>1. CASE wait_opt
      BY <2>4, <3>1
    <3>2. CASE ~wait_opt
      <4>1. task_state' = [task_state EXCEPT ![c] = TASK_RUNNING]
        BY <2>2, <2>4, <3>2 DEF TypeOK
      <4> QED BY <4>1
    <3> QED BY <3>1, <3>2
  <2>6. Started(t, c, s, size)
    BY <2>2, <2>3, <2>4, <2>5 DEF Started
  <2> QED BY <2>2, <2>6 DEF Effect
<1>2. CASE \E c \in FreeSlot : LoadFails(t, c)
  BY <1>2 DEF LoadFails, Effect
<1>3. CASE UNCHANGED <<task_state, file_open, heapVars>>
  BY <1>3 DEF Effect
<1> QED BY <1>1, <1>2, <1>3 DEF Syscall_exec

\* Every turn is one of the four cases or leaves the table and heap alone.
LEMMA NextEffect == DaemonInv /\ [Next]_vars => Effect
<1> SUFFICES ASSUME DaemonInv, [Next]_vars PROVE Effect
  OBVIOUS
<1>v. VmTasks \subseteq Tasks /\ 0 \in Tasks /\ TypeOK
  BY TableAssumption DEF Tasks, VmTasks, DaemonInv
<1>1. ASSUME NEW t \in Tasks, Skip(t) PROVE Effect
  BY <1>1 DEF Skip, Effect
<1>2. CASE Comm_process
  <2>1. CASE UNCHANGED <<task_state, sleeping, file_open, heapVars>>
    BY <2>1 DEF Effect
  <2>2. CASE Syscall_exec(0)
    BY <1>2, <1>v, <2>2, ExecEffect DEF Comm_process
  <2>3. CASE Syscall_ls(0)
    BY <2>3 DEF Syscall_ls, Effect, DaemonInv
  <2> QED BY <1>2, <2>1, <2>2, <2>3 DEF Comm_process
<1>3. ASSUME NEW t \in VmTasks, VmStep(t) PROVE Effect
  <2>0. t \in Tasks
    BY <1>v
  <2>1. CASE VmCompute(t) \/ VmSleep(t)
    BY <2>1 DEF VmCompute, VmSleep, Effect
  <2>2. CASE VmMalloc(t)
    <3>1. PICK size \in MallocSizes : Kernel_malloc(t, size)
      BY <2>2 DEF VmMalloc
    <3>2. size \in Int /\ isRunnable(t) /\ UNCHANGED task_state
      BY <2>2, InputAssumption DEF VmMalloc, VmTurn
    <3>3. CASE UNCHANGED heapVars
      BY <3>2, <3>3 DEF Effect
    <3>4. CASE \E s \in FirstFit(heap_bitmap, size), k \in FirstFreeEntry(t) :
             /\ heap_bitmap' = heap_bitmap \cup Cells(s, size)
             /\ alloc_table' =
                  [alloc_table EXCEPT ![t][k] = [ptr |-> s, size |-> size]]
             /\ UNCHANGED <<heap_base, heap_limit>>
      <4>1. PICK s \in FirstFit(heap_bitmap, size), k \in FirstFreeEntry(t) :
                   Allocated(t, k, s, size)
        BY <3>2, <3>4 DEF Allocated, FirstFreeEntry
      <4>2. k \in Entries
        BY DEF FirstFreeEntry
      <4> QED BY <4>1, <4>2 DEF Effect
    <3> QED BY <3>1, <3>3, <3>4 DEF Kernel_malloc
  <2>3. CASE VmExec(t)
    BY <1>v, <2>0, <2>3, ExecEffect DEF VmExec, VmTurn
  <2>4. CASE VmLs(t)
    <3>1. isRunnable(t) /\ UNCHANGED heapVars
      BY <2>4 DEF VmLs, VmTurn, Syscall_ls
    <3>2. \/ UNCHANGED task_state
          \/ ReopenMayFail /\ task_state' = [task_state EXCEPT ![t] = TASK_FREE]
      BY <2>4 DEF VmLs, Syscall_ls
    <3> QED BY <3>1, <3>2 DEF Effect, Lost
  <2>5. CASE VmTerminates(t)
    BY <2>5 DEF VmTerminates, VmTurn, Effect
  <2> QED BY <1>3, <2>1, <2>2, <2>3, <2>4, <2>5 DEF VmStep
<1>4. CASE UNCHANGED vars
  BY <1>4 DEF vars, Effect
<1> QED BY <1>1, <1>2, <1>3, <1>4 DEF Next

\* The daemon stays in the table and never gets a program file.
LEMMA DaemonInvariant == Spec => []DaemonInv
<1>1. Init => DaemonInv
  <2> SUFFICES ASSUME Init PROVE isActive(0) /\ ~file_open[0]
    BY InitTypeOK DEF DaemonInv
  <2> QED BY TableAssumption
          DEF Init, isActive, Tasks, TASK_FREE, TASK_RUNNING
<1>2. DaemonInv /\ [Next]_vars => DaemonInv'
  <2> SUFFICES ASSUME DaemonInv, [Next]_vars PROVE isActive(0)' /\ ~file_open'[0]
    BY NextTypeOK DEF DaemonInv
  <2>v. /\ VmTasks \subseteq Tasks /\ 0 \in Tasks /\ 0 \notin VmTasks
        /\ \A t \in VmTasks : t # 0 /\ t # TASK_FREE
        /\ TASK_FREE # TASK_RUNNING
    BY TableAssumption DEF Tasks, VmTasks, TASK_FREE, TASK_RUNNING
  <2>t. TypeOK /\ task_state[0] # TASK_FREE /\ ~file_open[0] /\ TypeOK'
    BY NextTypeOK DEF DaemonInv, isActive
  <2>1. isActive(0)'
    <3>1. CASE UNCHANGED <<task_state, heapVars>>
      BY <2>t, <3>1 DEF isActive
    <3>2. ASSUME NEW t \in Tasks, NEW c \in VmTasks, NEW s, NEW size,
                 Started(t, c, s, size)
          PROVE  isActive(0)'
      BY <2>t, <2>v, <3>2 DEF Started, isActive, TypeOK
    <3>3. ASSUME NEW t \in VmTasks, NEW k \in Entries, NEW s, NEW size,
                 Allocated(t, k, s, size)
          PROVE  isActive(0)'
      BY <2>t, <3>3 DEF Allocated, isActive
    <3>4. ASSUME NEW t \in VmTasks, Kernel_terminateTask(t)
          PROVE  isActive(0)'
      BY <2>t, <2>v, <3>4 DEF Kernel_terminateTask, FreesMemory,
              FreesSlot, WaitingFor, isActive
    <3>5. ASSUME NEW t \in VmTasks, Lost(t)
          PROVE  isActive(0)'
      BY <2>t, <2>v, <3>5 DEF Lost, isActive, TypeOK
    <3> QED BY <3>1, <3>2, <3>3, <3>4, <3>5, NextEffect DEF Effect
  <2>2. ASSUME NEW t \in Tasks, Syscall_exec(t) PROVE ~file_open'[0]
    <3>1. \A c \in FreeSlot : c \in VmTasks
      BY DEF FreeSlot
    <3> QED BY <2>2, <2>t, <2>v, <3>1
            DEF Syscall_exec, LoadTask, LoadFails, TypeOK
  <2>3. ASSUME NEW t \in Tasks, Syscall_ls(t) PROVE ~file_open'[0]
    BY <2>3, <2>t, <2>v DEF Syscall_ls, TypeOK
  <2>4. ~file_open'[0]
    <3>1. ASSUME NEW t \in Tasks, Skip(t) PROVE ~file_open'[0]
      BY <2>t, <3>1 DEF Skip
    <3>2. CASE Comm_process
      BY <2>t, <2>v, <2>2, <2>3, <3>2 DEF Comm_process
    <3>3. ASSUME NEW t \in VmTasks, VmStep(t) PROVE ~file_open'[0]
      <4>1. CASE VmCompute(t) \/ VmSleep(t) \/ VmMalloc(t)
        BY <2>t, <4>1 DEF VmCompute, VmSleep, VmMalloc
      <4>2. CASE VmExec(t) \/ VmLs(t)
        BY <2>v, <2>2, <2>3, <4>2 DEF VmExec, VmLs
      <4>3. CASE VmTerminates(t)
        BY <2>t, <2>v, <4>3 DEF VmTerminates, Kernel_terminateTask, FreesMemory,
              FreesSlot, WaitingFor, TypeOK
      <4> QED BY <3>3, <4>1, <4>2, <4>3 DEF VmStep
    <3>4. CASE UNCHANGED vars
      BY <2>t, <3>4 DEF vars
    <3> QED BY <3>1, <3>2, <3>3, <3>4 DEF Next
  <2> QED BY <2>1, <2>4
<1> QED BY <1>1, <1>2, PTL DEF Spec

-----------------------------------------------------------------------------
(* Memory: the kernel never gives the same cells to two owners.            *)

\* What the heap relies on: nobody shares a cell, and every cell that is
\* held has its bit set.  Neither half is inductive alone: without the bits
\* the scan could find a held cell, without disjointness the end of a task
\* would clear the bits of another.
HeapInv == DaemonInv /\ HeapDisjoint /\ HeldIsAllocated

\* Starting a program changes the segment of its slot and nothing else.
LEMMA StartedCells ==
  ASSUME TypeOK, NEW t \in Tasks, NEW c \in VmTasks, NEW s, NEW size,
         Started(t, c, s, size)
  PROVE  /\ \A u \in Tasks : Segment(u)' = IF u = c THEN Cells(s, size)
                                           ELSE Segment(u)
         /\ \A u \in Tasks, k \in Entries : Block(u, k)' = Block(u, k)
         /\ heap_bitmap' = heap_bitmap \cup Cells(s, size)
         /\ Cells(s, size) \cap heap_bitmap = {}
<1>1. size \in Int /\ s \in FirstFit(heap_bitmap, size)
  BY DEF Started
<1>2. s \in Addr /\ Cells(s, size) \cap heap_bitmap = {}
  BY <1>1, FirstFitRange
<1>3. s # -1
  BY <1>2, HeapAssumption DEF Addr
<1>4. c \in Tasks
  BY TableAssumption DEF Tasks, VmTasks
<1>5. ASSUME NEW u \in Tasks
      PROVE Segment(u)' = IF u = c THEN Cells(s, size) ELSE Segment(u)
  <2>1. /\ heap_base'[u] = IF u = c THEN s ELSE heap_base[u]
        /\ heap_limit'[u] = IF u = c THEN size ELSE heap_limit[u]
    BY <1>4 DEF Started, TypeOK
  <2> QED BY <1>3, <2>1 DEF Segment
<1>6. \A u \in Tasks, k \in Entries : Block(u, k)' = Block(u, k)
  BY DEF Started, Block
<1> QED BY <1>2, <1>5, <1>6 DEF Started

\* MALLOC changes the block of a free entry and nothing else.
LEMMA AllocatedCells ==
  ASSUME TypeOK, NEW t \in VmTasks, NEW k \in Entries, NEW s, NEW size,
         Allocated(t, k, s, size)
  PROVE  /\ \A u \in Tasks : Segment(u)' = Segment(u)
         /\ \A u \in Tasks, l \in Entries :
              Block(u, l)' = IF u = t /\ l = k THEN Cells(s, size)
                             ELSE Block(u, l)
         /\ heap_bitmap' = heap_bitmap \cup Cells(s, size)
         /\ Cells(s, size) \cap heap_bitmap = {}
<1>1. size \in Int /\ s \in FirstFit(heap_bitmap, size)
  BY DEF Allocated
<1>2. s \in Addr /\ Cells(s, size) \cap heap_bitmap = {}
  BY <1>1, FirstFitRange
<1>3. s # -1
  BY <1>2, HeapAssumption DEF Addr
<1>4. t \in Tasks
  BY TableAssumption DEF Tasks, VmTasks
<1>5. \A u \in Tasks : Segment(u)' = Segment(u)
  BY DEF Allocated, Segment
<1>6. ASSUME NEW u \in Tasks, NEW l \in Entries
      PROVE  Block(u, l)' = IF u = t /\ l = k THEN Cells(s, size) ELSE Block(u, l)
  <2>1. alloc_table'[u][l] = IF u = t /\ l = k THEN [ptr |-> s, size |-> size]
                             ELSE alloc_table[u][l]
    BY <1>4 DEF Allocated, TypeOK
  <2> QED BY <1>3, <2>1 DEF Block
<1> QED BY <1>2, <1>5, <1>6 DEF Allocated

\* The end of a task empties its segment and its blocks, and clears exactly
\* the bits of their cells.
LEMMA TerminatedCells ==
  ASSUME TypeOK, NEW t \in VmTasks, Kernel_terminateTask(t)
  PROVE  /\ \A u \in Tasks : Segment(u)' = IF u = t THEN {} ELSE Segment(u)
         /\ \A u \in Tasks, k \in Entries :
              Block(u, k)' = IF u = t THEN {} ELSE Block(u, k)
         /\ heap_bitmap' = heap_bitmap \ (Blocks(t) \cup Segment(t))
<1>1. t \in Tasks
  BY TableAssumption DEF Tasks, VmTasks
<1>2. ASSUME NEW u \in Tasks
      PROVE  Segment(u)' = IF u = t THEN {} ELSE Segment(u)
  <2>1. /\ heap_base'[u] = IF u = t THEN -1 ELSE heap_base[u]
        /\ heap_limit'[u] = IF u = t THEN 0 ELSE heap_limit[u]
    BY <1>1 DEF Kernel_terminateTask, FreesMemory,
              FreesSlot, WaitingFor, TypeOK
  <2> QED BY <2>1 DEF Segment
<1>3. ASSUME NEW u \in Tasks, NEW k \in Entries
      PROVE  Block(u, k)' = IF u = t THEN {} ELSE Block(u, k)
  <2>1. CASE u = t
    <3>1. alloc_table'[t][k] = [alloc_table[t][k] EXCEPT !.ptr = -1]
      BY <1>1 DEF Kernel_terminateTask, FreesMemory,
              FreesSlot, WaitingFor, TypeOK
    <3>2. alloc_table[t][k] \in [ptr : Addr \cup {-1}, size : 0 .. GLOBAL_HEAP_SIZE]
      BY <1>1 DEF TypeOK
    <3>3. alloc_table'[t][k].ptr = -1
      BY <3>1, <3>2
    <3> QED BY <2>1, <3>3 DEF Block
  <2>2. CASE u # t
    <3>1. alloc_table'[u] = alloc_table[u]
      BY <1>1, <2>2 DEF Kernel_terminateTask, FreesMemory,
              FreesSlot, WaitingFor, TypeOK
    <3> QED BY <2>2, <3>1 DEF Block
  <2> QED BY <2>1, <2>2
<1> QED BY <1>2, <1>3 DEF Kernel_terminateTask, FreesMemory,
              FreesSlot, WaitingFor

\* The daemon's initial block is the only memory held.
LEMMA InitHeapInv == Init => HeapDisjoint /\ HeldIsAllocated
<1> SUFFICES ASSUME Init PROVE HeapDisjoint /\ HeldIsAllocated
  OBVIOUS
<1>0. 0 \in Tasks /\ 0 \in Entries /\ 0 \notin VmTasks /\ VmTasks \subseteq Tasks
  BY TableAssumption DEF Tasks, Entries, VmTasks
<1>1. ASSUME NEW u \in Tasks
      PROVE  Segment(u) = IF u = 0 THEN Cells(0, COMM_HEAP_SIZE) ELSE {}
  BY DEF Init, Segment
<1>2. ASSUME NEW u \in Tasks, NEW k \in Entries
      PROVE  Block(u, k) = IF u = 0 /\ k = 0 THEN Cells(0, COMM_HEAP_SIZE) ELSE {}
  BY DEF Init, Block
<1>3. HeapDisjoint
  BY <1>0, <1>1, <1>2 DEF HeapDisjoint
<1>4. HeldIsAllocated
  BY <1>1, <1>2 DEF HeldIsAllocated, Blocks, Init
<1> QED BY <1>3, <1>4

\* A started program's segment overlaps nothing and has its bits set.
LEMMA StartedHeapInv ==
  ASSUME HeapInv, NEW t \in Tasks, NEW c \in VmTasks, NEW s, NEW size,
         Started(t, c, s, size)
  PROVE  HeapDisjoint' /\ HeldIsAllocated'
<1> DEFINE new == Cells(s, size)
<1>0. /\ TypeOK /\ HeapDisjoint /\ HeldIsAllocated
      /\ 0 \in Tasks /\ c # 0 /\ 0 \in Entries /\ VmTasks \subseteq Tasks
  BY TableAssumption DEF HeapInv, DaemonInv, Tasks, VmTasks, Entries
<1>1. /\ \A u \in Tasks : Segment(u)' = IF u = c THEN new ELSE Segment(u)
      /\ \A u \in Tasks, k \in Entries : Block(u, k)' = Block(u, k)
      /\ heap_bitmap' = heap_bitmap \cup new
      /\ new \cap heap_bitmap = {}
  BY <1>0, StartedCells
<1>2. \A u \in Tasks : /\ Segment(u) \subseteq heap_bitmap
                       /\ \A k \in Entries : Block(u, k) \subseteq heap_bitmap
  BY <1>0 DEF HeldIsAllocated, Blocks
<1> HIDE DEF new
<1>3. HeapDisjoint'
  <2>1. \A u, v \in Tasks, k, l \in Entries :
          <<u, k>> # <<v, l>> => Block(u, k)' \cap Block(v, l)' = {}
    BY <1>0, <1>1 DEF HeapDisjoint
  <2>2. \A u, v \in Tasks : u # v => Segment(u)' \cap Segment(v)' = {}
    BY <1>0, <1>1, <1>2 DEF HeapDisjoint
  <2>3. \A u \in VmTasks, v \in Tasks, k \in Entries :
          Segment(u)' \cap Block(v, k)' = {}
    BY <1>0, <1>1, <1>2 DEF HeapDisjoint
  <2>4. Segment(0)' = Block(0, 0)'
    BY <1>0, <1>1 DEF HeapDisjoint
  <2> QED BY <2>1, <2>2, <2>3, <2>4 DEF HeapDisjoint
<1>4. HeldIsAllocated'
  BY <1>1, <1>2 DEF HeldIsAllocated, Blocks
<1> QED BY <1>3, <1>4

\* A block from MALLOC overlaps nothing and has its bits set.
LEMMA AllocatedHeapInv ==
  ASSUME HeapInv, NEW t \in VmTasks, NEW k \in Entries, NEW s, NEW size,
         Allocated(t, k, s, size)
  PROVE  HeapDisjoint' /\ HeldIsAllocated'
<1> DEFINE new == Cells(s, size)
<1>0. /\ TypeOK /\ HeapDisjoint /\ HeldIsAllocated
      /\ 0 \in Tasks /\ t # 0 /\ 0 \in Entries /\ VmTasks \subseteq Tasks
  BY TableAssumption DEF HeapInv, DaemonInv, Tasks, VmTasks, Entries
<1>1. /\ \A u \in Tasks : Segment(u)' = Segment(u)
      /\ \A u \in Tasks, l \in Entries :
           Block(u, l)' = IF u = t /\ l = k THEN new ELSE Block(u, l)
      /\ heap_bitmap' = heap_bitmap \cup new
      /\ new \cap heap_bitmap = {}
  BY <1>0, AllocatedCells
<1>2. \A u \in Tasks : /\ Segment(u) \subseteq heap_bitmap
                       /\ \A l \in Entries : Block(u, l) \subseteq heap_bitmap
  BY <1>0 DEF HeldIsAllocated, Blocks
<1> HIDE DEF new
<1>3. HeapDisjoint'
  <2>1. \A u, v \in Tasks, l, m \in Entries :
          <<u, l>> # <<v, m>> => Block(u, l)' \cap Block(v, m)' = {}
    BY <1>0, <1>1, <1>2 DEF HeapDisjoint
  <2>2. \A u, v \in Tasks : u # v => Segment(u)' \cap Segment(v)' = {}
    BY <1>0, <1>1 DEF HeapDisjoint
  <2>3. \A u \in VmTasks, v \in Tasks, l \in Entries :
          Segment(u)' \cap Block(v, l)' = {}
    BY <1>0, <1>1, <1>2 DEF HeapDisjoint
  <2>4. Segment(0)' = Block(0, 0)'
    BY <1>0, <1>1 DEF HeapDisjoint
  <2> QED BY <2>1, <2>2, <2>3, <2>4 DEF HeapDisjoint
<1>4. HeldIsAllocated'
  BY <1>1, <1>2 DEF HeldIsAllocated, Blocks
<1> QED BY <1>3, <1>4

\* The end of a task clears no bit of a cell that somebody else holds.
LEMMA TerminatedHeapInv ==
  ASSUME HeapInv, NEW t \in VmTasks, Kernel_terminateTask(t)
  PROVE  HeapDisjoint' /\ HeldIsAllocated'
<1>0. /\ TypeOK /\ HeapDisjoint /\ HeldIsAllocated
      /\ 0 \in Tasks /\ t # 0 /\ 0 \in Entries /\ VmTasks \subseteq Tasks
  BY TableAssumption DEF HeapInv, DaemonInv, Tasks, VmTasks, Entries
<1>1. /\ \A u \in Tasks : Segment(u)' = IF u = t THEN {} ELSE Segment(u)
      /\ \A u \in Tasks, k \in Entries :
           Block(u, k)' = IF u = t THEN {} ELSE Block(u, k)
      /\ heap_bitmap' = heap_bitmap \ (Blocks(t) \cup Segment(t))
  BY <1>0, TerminatedCells
<1>2. HeapDisjoint'
  BY <1>0, <1>1 DEF HeapDisjoint
<1>3. HeldIsAllocated'
  <2>1. ASSUME NEW u \in Tasks, u # t
        PROVE  (Segment(u) \cup Blocks(u)) \cap (Segment(t) \cup Blocks(t)) = {}
    <3>1. Segment(u) \cap Segment(t) = {}
      BY <1>0, <2>1 DEF HeapDisjoint
    <3>2. Blocks(u) \cap Segment(t) = {}
      BY <1>0, <2>1 DEF HeapDisjoint, Blocks
    <3>3. Blocks(u) \cap Blocks(t) = {}
      BY <1>0, <2>1 DEF HeapDisjoint, Blocks
    <3>4. Segment(u) \cap Blocks(t) = {}
      <4>1. u \in VmTasks \/ u = 0
        BY DEF Tasks, VmTasks
      <4>2. \A k \in Entries : Segment(u) \cap Block(t, k) = {}
        BY <1>0, <2>1, <4>1 DEF HeapDisjoint
      <4> QED BY <4>2 DEF Blocks
    <3> QED BY <3>1, <3>2, <3>3, <3>4
  <2>2. ASSUME NEW u \in Tasks
        PROVE  Segment(u)' \cup Blocks(u)' \subseteq heap_bitmap'
    <3>1. CASE u = t
      BY <1>1, <3>1 DEF Blocks
    <3>2. CASE u # t
      <4>1. Segment(u)' = Segment(u) /\ Blocks(u)' = Blocks(u)
        BY <1>1, <3>2 DEF Blocks
      <4> QED BY <1>0, <1>1, <2>1, <3>2, <4>1 DEF HeldIsAllocated
    <3> QED BY <3>1, <3>2
  <2> QED BY <2>2 DEF HeldIsAllocated
<1> QED BY <1>2, <1>3

\* Every turn of the scheduler keeps the owners apart.
LEMMA NextHeapInv == HeapInv /\ DaemonInv' /\ [Next]_vars => HeapInv'
<1> SUFFICES ASSUME HeapInv, DaemonInv', [Next]_vars
             PROVE  HeapDisjoint' /\ HeldIsAllocated'
  BY DEF HeapInv
<1>1. ASSUME UNCHANGED heapVars PROVE HeapDisjoint' /\ HeldIsAllocated'
  <2>1. /\ \A t : Segment(t)' = Segment(t)
        /\ \A t, k : Block(t, k)' = Block(t, k)
        /\ heap_bitmap' = heap_bitmap
    BY <1>1 DEF Segment, Block, heapVars
  <2>2. \A t : Blocks(t)' = Blocks(t)
    BY <2>1 DEF Blocks
  <2>3. HeapDisjoint'
    BY <2>1 DEF HeapInv, HeapDisjoint
  <2>4. HeldIsAllocated'
    BY <2>1, <2>2 DEF HeapInv, HeldIsAllocated
  <2> QED BY <2>3, <2>4
<1>2. ASSUME NEW t \in VmTasks, Lost(t) PROVE HeapDisjoint' /\ HeldIsAllocated'
  BY <1>1, <1>2 DEF Lost
<1> QED BY <1>1, <1>2, StartedHeapInv, AllocatedHeapInv, TerminatedHeapInv,
           NextEffect DEF Effect, HeapInv

\* No cell is ever given to two owners, whatever the order in which programs
\* are loaded, allocate and die, and even if ls loses a task.
THEOREM HeapOwnersDisjoint == Spec => []HeapDisjoint /\ []HeldIsAllocated
<1>1. Init /\ DaemonInv => HeapInv
  BY InitHeapInv DEF HeapInv
<1>2. HeapInv => HeapDisjoint /\ HeldIsAllocated
  BY DEF HeapInv
<1> QED BY <1>1, <1>2, NextHeapInv, DaemonInvariant, PTL DEF Spec

-----------------------------------------------------------------------------
(* Waiting: who waits for whom, and what a dead task leaves.               *)

Paused == {t \in Tasks : isPaused(t)}

\* A paused task waits for another slot of the table.
LEMMA PausedWaitsForSlot ==
  ASSUME TypeOK, NEW t \in Tasks, isPaused(t)
  PROVE  task_state[t] \in VmTasks
BY DEF TypeOK, isPaused, TASK_FREE, TASK_RUNNING

-----------------------------------------------------------------------------
(* No circular wait.                                                       *)

\* The only wait ever added is for a program that was just started and is
\* RUNNING, so it closes no circle.
LEMMA NextNoWaitCycle == DaemonInv /\ NoWaitCycle /\ [Next]_vars => NoWaitCycle'
<1> SUFFICES ASSUME DaemonInv, NoWaitCycle, [Next]_vars PROVE NoWaitCycle'
  OBVIOUS
<1>0. /\ TypeOK /\ VmTasks \subseteq Tasks
      /\ \A c \in VmTasks : c >= 0
      /\ ~(TASK_FREE >= 0) /\ ~(TASK_RUNNING >= 0)
  BY TableAssumption
     DEF DaemonInv, Tasks, VmTasks, TASK_FREE, TASK_RUNNING
\* A set of tasks that were paused before, with the same waits, is harmless.
<1>1. ASSUME NEW S \in SUBSET Paused, S # {},
             \A t \in S : task_state'[t] = task_state[t]
      PROVE  \E t \in S : task_state'[t] \notin S
  BY <1>1 DEF NoWaitCycle, Paused
<1>2. CASE UNCHANGED <<task_state, heapVars>>
  BY <1>1, <1>2 DEF NoWaitCycle, Paused, isPaused
<1>3. ASSUME NEW t \in Tasks, NEW c \in VmTasks, NEW s, NEW size,
             Started(t, c, s, size)
      PROVE  NoWaitCycle'
  <2>0. t # c
    BY <1>3 DEF Started, isRunnable, isActive, TASK_FREE, TASK_RUNNING
  <2>1. /\ task_state'[c] = TASK_RUNNING
        /\ task_state'[t] \in {task_state[t], c}
        /\ \A u \in Tasks \ {c, t} : task_state'[u] = task_state[u]
    BY <1>0, <1>3, <2>0 DEF Started, TypeOK
  <2>2. SUFFICES ASSUME NEW S \in SUBSET Tasks, S # {},
                        \A u \in S : task_state'[u] >= 0
                 PROVE  \E u \in S : task_state'[u] \notin S
    BY DEF NoWaitCycle, isPaused
  <2>3. c \notin S
    BY <1>0, <2>1, <2>2
  <2>4. CASE t \in S /\ task_state'[t] = c
    BY <2>3, <2>4
  <2>5. CASE t \in S /\ task_state'[t] = task_state[t]
    <3>1. task_state[t] = TASK_RUNNING
      BY <1>3 DEF Started, isRunnable
    <3> QED BY <1>0, <2>2, <2>5, <3>1
  <2>6. CASE t \notin S
    <3>1. \A u \in S : task_state'[u] = task_state[u]
      BY <2>1, <2>3, <2>6
    <3>2. S \in SUBSET Paused
      BY <2>2, <3>1 DEF Paused, isPaused
    <3> QED BY <1>1, <2>2, <3>1, <3>2
  <2> QED BY <2>1, <2>4, <2>5, <2>6
<1>4. ASSUME NEW t \in VmTasks, NEW k \in Entries, NEW s, NEW size,
             Allocated(t, k, s, size)
      PROVE  NoWaitCycle'
  BY <1>1, <1>4 DEF Allocated, NoWaitCycle, Paused, isPaused
<1>5. ASSUME NEW t \in VmTasks, Kernel_terminateTask(t)
      PROVE  NoWaitCycle'
  <2>1. \A u \in Tasks : \/ task_state'[u] \in {TASK_FREE, TASK_RUNNING}
                         \/ task_state'[u] = task_state[u]
    BY <1>5 DEF Kernel_terminateTask, FreesMemory,
              FreesSlot, WaitingFor
  <2>2. SUFFICES ASSUME NEW S \in SUBSET Tasks, S # {},
                        \A u \in S : task_state'[u] >= 0
                 PROVE  \E u \in S : task_state'[u] \notin S
    BY DEF NoWaitCycle, isPaused
  <2>3. \A u \in S : task_state'[u] = task_state[u]
    BY <1>0, <2>1, <2>2
  <2>4. S \in SUBSET Paused
    BY <2>2, <2>3 DEF Paused, isPaused
  <2> QED BY <1>1, <2>2, <2>3, <2>4
<1>6. ASSUME NEW t \in VmTasks, Lost(t)
      PROVE  NoWaitCycle'
  <2>1. \A u \in Tasks : \/ task_state'[u] = TASK_FREE
                         \/ task_state'[u] = task_state[u]
    BY <1>0, <1>6 DEF Lost, TypeOK
  <2>2. SUFFICES ASSUME NEW S \in SUBSET Tasks, S # {},
                        \A u \in S : task_state'[u] >= 0
                 PROVE  \E u \in S : task_state'[u] \notin S
    BY DEF NoWaitCycle, isPaused
  <2>3. \A u \in S : task_state'[u] = task_state[u]
    BY <1>0, <2>1, <2>2
  <2>4. S \in SUBSET Paused
    BY <2>2, <2>3 DEF Paused, isPaused
  <2> QED BY <1>1, <2>2, <2>3, <2>4
<1> QED BY <1>2, <1>3, <1>4, <1>5, <1>6, NextEffect DEF Effect

\* Tasks never wait for one another in a circle, even if ls loses one.
THEOREM NoCircularWait == Spec => []NoWaitCycle
<1>1. Init => NoWaitCycle
  <2> SUFFICES ASSUME Init PROVE NoWaitCycle
    OBVIOUS
  <2>1. \A t \in Tasks : ~isPaused(t)
    BY DEF Init, isPaused, TASK_FREE, TASK_RUNNING
  <2> QED BY <2>1 DEF NoWaitCycle
<1> QED BY <1>1, NextNoWaitCycle, DaemonInvariant, PTL DEF Spec

-----------------------------------------------------------------------------
(* With a card on which an opened program can always be reopened.          *)

\* OneWaiter is inductive only with WaitsForActive: the slot a program starts
\* in has no waiter left from the slot's previous program.
TaskInv ==
  /\ DaemonInv
  /\ NoLeak /\ FreeHoldsNothing
  /\ WaitsForActive /\ OneWaiter

\* A started program has an owner for its cells and at most one waiter.
LEMMA StartedTaskInv ==
  ASSUME TaskInv, NEW t \in Tasks, NEW c \in VmTasks, NEW s, NEW size,
         Started(t, c, s, size)
  PROVE  NoLeak' /\ FreeHoldsNothing' /\ WaitsForActive' /\ OneWaiter'
<1>0. /\ TypeOK /\ VmTasks \subseteq Tasks /\ c \in Tasks
      /\ \A u \in VmTasks : u >= 0
      /\ TASK_FREE # TASK_RUNNING /\ ~(TASK_FREE >= 0) /\ ~(TASK_RUNNING >= 0)
      /\ NoLeak /\ FreeHoldsNothing /\ WaitsForActive /\ OneWaiter
  BY TableAssumption
     DEF TaskInv, DaemonInv, Tasks, VmTasks, TASK_FREE, TASK_RUNNING
<1>1. /\ \A u \in Tasks : Segment(u)' = IF u = c THEN Cells(s, size)
                                        ELSE Segment(u)
      /\ \A u \in Tasks, k \in Entries : Block(u, k)' = Block(u, k)
      /\ heap_bitmap' = heap_bitmap \cup Cells(s, size)
  BY <1>0, StartedCells
<1>2. /\ task_state[c] = TASK_FREE /\ task_state[t] = TASK_RUNNING /\ t # c
      /\ task_state'[c] = TASK_RUNNING
      /\ task_state'[t] \in {TASK_RUNNING, c}
      /\ \A u \in Tasks \ {c, t} : task_state'[u] = task_state[u]
  BY <1>0 DEF Started, isActive, isRunnable, TypeOK
\* Nobody waits for the slot before the program starts.
<1>3. \A u \in Tasks : task_state[u] # c
  BY <1>0, <1>2 DEF WaitsForActive, isPaused, isActive
<1>4. NoLeak'
  <2> SUFFICES ASSUME NEW a \in heap_bitmap'
               PROVE  \E u \in Tasks :
                        isActive(u)' /\ a \in Segment(u)' \cup Blocks(u)'
    BY DEF NoLeak
  <2>1. CASE a \in Cells(s, size)
    BY <1>0, <1>1, <1>2, <2>1 DEF isActive
  <2>2. CASE a \in heap_bitmap
    <3>1. PICK u \in Tasks : isActive(u) /\ a \in Segment(u) \cup Blocks(u)
      BY <1>0, <2>2 DEF NoLeak
    <3>2. u # c
      BY <1>2, <3>1 DEF isActive
    <3>3. isActive(u)'
      BY <1>0, <1>2, <3>1, <3>2 DEF isActive
    <3>4. Segment(u)' = Segment(u) /\ Blocks(u)' = Blocks(u)
      BY <1>1, <3>2 DEF Blocks
    <3> QED BY <3>1, <3>3, <3>4
  <2> QED BY <1>1, <2>1, <2>2
<1>5. FreeHoldsNothing'
  <2> SUFFICES ASSUME NEW u \in Tasks, ~isActive(u)'
               PROVE  heap_base'[u] = -1 /\ Blocks(u)' = {}
    BY DEF FreeHoldsNothing
  <2>1. u # c /\ ~isActive(u)
    BY <1>0, <1>2 DEF isActive
  <2>2. heap_base'[u] = heap_base[u] /\ Blocks(u)' = Blocks(u)
    BY <1>0, <1>1, <2>1 DEF Started, TypeOK, Blocks
  <2> QED BY <1>0, <2>1, <2>2 DEF FreeHoldsNothing
<1>6. WaitsForActive'
  <2> SUFFICES ASSUME NEW u \in Tasks, task_state'[u] >= 0
               PROVE  task_state'[task_state'[u]] # TASK_FREE
    BY DEF WaitsForActive, isPaused, isActive
  <2>1. CASE task_state'[u] = c
    BY <1>0, <1>2, <2>1
  <2>2. CASE task_state'[u] = task_state[u]
    <3>1. task_state[u] \in VmTasks /\ task_state[task_state[u]] # TASK_FREE
      BY <1>0, <2>2, PausedWaitsForSlot DEF WaitsForActive, isPaused, isActive
    <3>2. task_state[u] # c
      BY <1>3
    <3> QED BY <1>0, <1>2, <2>2, <3>1, <3>2
  <2> QED BY <1>0, <1>2, <2>1, <2>2
<1>7. OneWaiter'
  <2> SUFFICES ASSUME NEW u \in Tasks, NEW v \in Tasks,
                      task_state'[u] >= 0, task_state'[u] = task_state'[v]
               PROVE  u = v
    BY DEF OneWaiter, isPaused
  <2>1. CASE task_state'[u] = c
    <3>1. u = t /\ v = t
      BY <1>0, <1>2, <1>3, <2>1
    <3> QED BY <3>1
  <2>2. CASE task_state'[u] # c
    <3>1. u \notin {c, t} /\ v \notin {c, t}
      BY <1>0, <1>2, <2>2
    <3> QED BY <1>0, <1>2, <3>1 DEF OneWaiter, isPaused
  <2> QED BY <2>1, <2>2
<1> QED BY <1>4, <1>5, <1>6, <1>7

\* A MALLOC block belongs to the running task that asked for it.
LEMMA AllocatedTaskInv ==
  ASSUME TaskInv, NEW t \in VmTasks, NEW k \in Entries, NEW s, NEW size,
         Allocated(t, k, s, size)
  PROVE  NoLeak' /\ FreeHoldsNothing' /\ WaitsForActive' /\ OneWaiter'
<1>0. /\ TypeOK /\ VmTasks \subseteq Tasks /\ t \in Tasks
      /\ TASK_FREE # TASK_RUNNING
      /\ NoLeak /\ FreeHoldsNothing /\ WaitsForActive /\ OneWaiter
      /\ task_state' = task_state /\ isActive(t)
  BY TableAssumption
     DEF TaskInv, DaemonInv, Tasks, VmTasks, TASK_FREE, TASK_RUNNING,
         Allocated, isRunnable, isActive
<1>1. /\ \A u \in Tasks : Segment(u)' = Segment(u)
      /\ \A u \in Tasks, l \in Entries :
           Block(u, l)' = IF u = t /\ l = k THEN Cells(s, size)
                          ELSE Block(u, l)
      /\ heap_bitmap' = heap_bitmap \cup Cells(s, size)
  BY <1>0, AllocatedCells
<1>2. Block(t, k) = {}
  BY DEF Allocated, Block
<1>3. NoLeak'
  <2> SUFFICES ASSUME NEW a \in heap_bitmap'
               PROVE  \E u \in Tasks :
                        isActive(u)' /\ a \in Segment(u)' \cup Blocks(u)'
    BY DEF NoLeak
  <2>1. CASE a \in Cells(s, size)
    BY <1>0, <1>1, <2>1 DEF isActive, Blocks
  <2>2. CASE a \in heap_bitmap
    <3>1. PICK u \in Tasks : isActive(u) /\ a \in Segment(u) \cup Blocks(u)
      BY <1>0, <2>2 DEF NoLeak
    <3>2. isActive(u)' /\ Segment(u)' = Segment(u)
      BY <1>0, <1>1, <3>1 DEF isActive
    <3>3. Blocks(u) \subseteq Blocks(u)'
      BY <1>1, <1>2 DEF Blocks
    <3> QED BY <3>1, <3>2, <3>3
  <2> QED BY <1>1, <2>1, <2>2
<1>4. FreeHoldsNothing'
  <2> SUFFICES ASSUME NEW u \in Tasks, ~isActive(u)'
               PROVE  heap_base'[u] = -1 /\ Blocks(u)' = {}
    BY DEF FreeHoldsNothing
  <2>1. u # t /\ ~isActive(u)
    BY <1>0 DEF isActive
  <2>2. heap_base'[u] = heap_base[u] /\ Blocks(u)' = Blocks(u)
    BY <1>1, <2>1 DEF Allocated, Blocks
  <2> QED BY <1>0, <2>1, <2>2 DEF FreeHoldsNothing
<1>5. WaitsForActive' /\ OneWaiter'
  BY <1>0 DEF WaitsForActive, OneWaiter, isPaused, isActive
<1> QED BY <1>3, <1>4, <1>5

\* A task that ends takes its cells' bits with it and wakes its waiter.
LEMMA TerminatedTaskInv ==
  ASSUME TaskInv, NEW t \in VmTasks, Kernel_terminateTask(t)
  PROVE  NoLeak' /\ FreeHoldsNothing' /\ WaitsForActive' /\ OneWaiter'
<1>0. /\ TypeOK /\ t \in Tasks
      /\ TASK_FREE # TASK_RUNNING /\ ~(TASK_FREE >= 0) /\ ~(TASK_RUNNING >= 0)
      /\ NoLeak /\ FreeHoldsNothing /\ WaitsForActive /\ OneWaiter
  BY TableAssumption
     DEF TaskInv, DaemonInv, Tasks, VmTasks, TASK_FREE, TASK_RUNNING
<1>1. /\ \A u \in Tasks : Segment(u)' = IF u = t THEN {} ELSE Segment(u)
      /\ \A u \in Tasks, k \in Entries :
           Block(u, k)' = IF u = t THEN {} ELSE Block(u, k)
      /\ heap_bitmap' = heap_bitmap \ (Blocks(t) \cup Segment(t))
  BY <1>0, TerminatedCells
<1>2. \A u \in Tasks :
        task_state'[u] = IF u = t THEN TASK_FREE
                         ELSE IF task_state[u] = t THEN TASK_RUNNING
                         ELSE task_state[u]
  BY DEF Kernel_terminateTask, FreesMemory,
              FreesSlot, WaitingFor
<1>3. NoLeak'
  <2> SUFFICES ASSUME NEW a \in heap_bitmap'
               PROVE  \E u \in Tasks :
                        isActive(u)' /\ a \in Segment(u)' \cup Blocks(u)'
    BY DEF NoLeak
  <2>1. PICK u \in Tasks : isActive(u) /\ a \in Segment(u) \cup Blocks(u)
    BY <1>0, <1>1 DEF NoLeak
  <2>2. u # t
    BY <1>1, <2>1
  <2>3. isActive(u)'
    BY <1>0, <1>2, <2>1, <2>2 DEF isActive
  <2>4. Segment(u)' = Segment(u) /\ Blocks(u)' = Blocks(u)
    BY <1>1, <2>2 DEF Blocks
  <2> QED BY <2>1, <2>3, <2>4
<1>4. FreeHoldsNothing'
  <2> SUFFICES ASSUME NEW u \in Tasks, ~isActive(u)'
               PROVE  heap_base'[u] = -1 /\ Blocks(u)' = {}
    BY DEF FreeHoldsNothing
  <2>1. CASE u = t
    BY <1>0, <1>1, <2>1 DEF Kernel_terminateTask, FreesMemory,
              FreesSlot, WaitingFor, TypeOK, Blocks
  <2>2. CASE u # t
    <3>1. ~isActive(u)
      BY <1>0, <1>2, <2>2 DEF isActive
    <3>2. heap_base'[u] = heap_base[u] /\ Blocks(u)' = Blocks(u)
      BY <1>0, <1>1, <2>2 DEF Kernel_terminateTask, FreesMemory,
              FreesSlot, WaitingFor, TypeOK, Blocks
    <3> QED BY <1>0, <3>1, <3>2 DEF FreeHoldsNothing
  <2> QED BY <2>1, <2>2
<1>5. WaitsForActive'
  <2> SUFFICES ASSUME NEW u \in Tasks, task_state'[u] >= 0
               PROVE  task_state'[task_state'[u]] # TASK_FREE
    BY DEF WaitsForActive, isPaused, isActive
  <2>1. task_state'[u] = task_state[u] /\ task_state[u] # t
    BY <1>0, <1>2
  <2>2. task_state[u] \in VmTasks /\ task_state[task_state[u]] # TASK_FREE
    BY <1>0, <2>1, PausedWaitsForSlot DEF WaitsForActive, isPaused, isActive
  <2>3. task_state[u] \in Tasks
    BY <2>2, TableAssumption DEF Tasks, VmTasks
  <2> QED BY <1>0, <1>2, <2>1, <2>2, <2>3
<1>6. OneWaiter'
  BY <1>0, <1>2 DEF OneWaiter, isPaused
<1> QED BY <1>3, <1>4, <1>5, <1>6

\* Every turn keeps the memory and the waits of the live tasks in order.
LEMMA NextTaskInv ==
  ASSUME ~ReopenMayFail
  PROVE  TaskInv /\ DaemonInv' /\ [Next]_vars => TaskInv'
<1> SUFFICES ASSUME TaskInv, DaemonInv', [Next]_vars
             PROVE  NoLeak' /\ FreeHoldsNothing' /\ WaitsForActive' /\ OneWaiter'
  BY DEF TaskInv
<1>1. CASE UNCHANGED <<task_state, heapVars>>
  <2>1. NoLeak' /\ FreeHoldsNothing'
    BY <1>1 DEF TaskInv, NoLeak, FreeHoldsNothing, isActive, Segment, Blocks,
                Block, heapVars
  <2>2. WaitsForActive' /\ OneWaiter'
    BY <1>1 DEF TaskInv, WaitsForActive, OneWaiter, isPaused, isActive
  <2> QED BY <2>1, <2>2
<1>2. \A t \in VmTasks : ~Lost(t)
  BY DEF Lost
<1> QED BY <1>1, <1>2, StartedTaskInv, AllocatedTaskInv, TerminatedTaskInv,
           NextEffect DEF Effect, TaskInv

\* As long as an opened program can be reopened: every allocated cell has a
\* live owner, a FREE slot holds nothing, a paused task waits for a live one,
\* and no two tasks wait for the same one.
THEOREM TasksConsistent ==
  ASSUME ~ReopenMayFail
  PROVE  Spec => [](NoLeak /\ FreeHoldsNothing /\ WaitsForActive /\ OneWaiter)
<1>1. Init /\ DaemonInv => TaskInv
  <2> SUFFICES ASSUME Init, DaemonInv PROVE TaskInv
    OBVIOUS
  <2>0. 0 \in Tasks /\ 0 \in Entries
    BY TableAssumption DEF Tasks, Entries
  <2>1. NoLeak
    <3>1. Segment(0) = heap_bitmap
      BY <2>0 DEF Init, Segment
    <3> QED BY <2>0, <3>1 DEF NoLeak, DaemonInv
  <2>2. FreeHoldsNothing
    BY DEF Init, FreeHoldsNothing, isActive, Blocks, Block,
           TASK_FREE, TASK_RUNNING
  <2>3. WaitsForActive /\ OneWaiter
    BY DEF Init, WaitsForActive, OneWaiter, isPaused, TASK_FREE, TASK_RUNNING
  <2> QED BY <2>1, <2>2, <2>3 DEF TaskInv
<1>2. TaskInv => NoLeak /\ FreeHoldsNothing /\ WaitsForActive /\ OneWaiter
  BY DEF TaskInv
<1>3. TaskInv /\ DaemonInv' /\ [Next]_vars => TaskInv'
  BY NextTaskInv
<1> QED BY <1>1, <1>2, <1>3, DaemonInvariant, PTL DEF Spec

\* The scheduler always has a task to run: if every active task were paused,
\* following the waits from the daemon would never leave the paused tasks.
THEOREM AlwaysSomeoneRunnable ==
  ASSUME ~ReopenMayFail
  PROVE  Spec => []SomeoneRunnable
<1>1. DaemonInv /\ NoWaitCycle /\ WaitsForActive => SomeoneRunnable
  <2> SUFFICES ASSUME DaemonInv, NoWaitCycle, WaitsForActive, ~SomeoneRunnable
               PROVE  FALSE
    OBVIOUS
  <2>1. TypeOK /\ 0 \in Tasks /\ VmTasks \subseteq Tasks
    BY TableAssumption DEF DaemonInv, Tasks, VmTasks
  <2>2. \A t \in Tasks : isActive(t) => isPaused(t)
    BY <2>1 DEF SomeoneRunnable, isRunnable, isActive, isPaused, TypeOK, VmTasks
  <2>3. 0 \in Paused
    BY <2>1, <2>2 DEF Paused, DaemonInv
  <2>4. PICK t \in Paused : task_state[t] \notin Paused
    BY <2>3 DEF NoWaitCycle, Paused
  <2>5. task_state[t] \in Tasks /\ isActive(task_state[t])
    BY <2>1, <2>4, PausedWaitsForSlot DEF Paused, WaitsForActive
  <2> QED BY <2>2, <2>4, <2>5 DEF Paused
<1>2. Spec => []WaitsForActive
  BY TasksConsistent, PTL
<1> QED BY <1>1, <1>2, NoCircularWait, DaemonInvariant, PTL

-----------------------------------------------------------------------------
(* What a turn may never do.                                               *)

\* A paused task goes on only when its child ends, in that very step.
THEOREM OnlyChildResumes == Spec => ResumeOnlyByChild
<1> DEFINE Resumed(t) ==
      isPaused(t) /\ task_state'[t] # task_state[t] =>
        /\ task_state'[t] = TASK_RUNNING
        /\ task_state'[task_state[t]] = TASK_FREE
<1>1. ASSUME DaemonInv, [Next]_vars, NEW t \in Tasks PROVE Resumed(t)
  <2>0. /\ TypeOK /\ VmTasks \subseteq Tasks
        /\ ~(TASK_FREE >= 0) /\ ~(TASK_RUNNING >= 0)
    BY <1>1, TableAssumption
       DEF DaemonInv, Tasks, VmTasks, TASK_FREE, TASK_RUNNING
  <2>1. ASSUME NEW u \in Tasks, NEW c \in VmTasks, NEW s, NEW size,
               Started(u, c, s, size)
        PROVE  Resumed(t)
    <3>1. isPaused(t) => t # u /\ t # c
      BY <2>0, <2>1 DEF Started, isRunnable, isActive, isPaused
    <3>2. t # u /\ t # c => task_state'[t] = task_state[t]
      BY <2>0, <2>1 DEF Started, TypeOK
    <3> QED BY <3>1, <3>2
  <2>2. ASSUME NEW u \in VmTasks, isRunnable(u), Kernel_terminateTask(u)
        PROVE  Resumed(t)
    <3>1. isPaused(t) => t # u
      BY <2>0, <2>2 DEF isRunnable, isPaused
    <3>2. t # u /\ task_state'[t] # task_state[t] =>
            /\ task_state[t] = u
            /\ task_state'[t] = TASK_RUNNING
            /\ task_state'[u] = TASK_FREE
      BY <2>0, <2>2 DEF Kernel_terminateTask, FreesMemory,
              FreesSlot, WaitingFor
    <3> QED BY <3>1, <3>2
  <2>3. ASSUME NEW u \in VmTasks, Lost(u) PROVE Resumed(t)
    <3>1. isPaused(t) => t # u
      BY <2>0, <2>3 DEF Lost, isRunnable, isPaused
    <3>2. t # u => task_state'[t] = task_state[t]
      BY <2>0, <2>3 DEF Lost, TypeOK
    <3> QED BY <3>1, <3>2
  <2>4. CASE UNCHANGED task_state
    BY <2>4
  <2> QED BY <1>1, <2>1, <2>2, <2>3, <2>4, NextEffect DEF Effect, Allocated
<1>2. DaemonInv /\ [Next]_vars =>
        [\A t \in Tasks :
           isPaused(t) /\ task_state'[t] # task_state[t] =>
             /\ task_state'[t] = TASK_RUNNING
             /\ task_state'[task_state[t]] = TASK_FREE]_vars
  BY <1>1
<1> QED BY <1>2, DaemonInvariant, PTL DEF Spec, ResumeOnlyByChild

\* The memory of a live task is never moved, resized or freed by anybody,
\* nor by a system call of its own.
THEOREM LiveMemoryKept == Spec => MemoryKept
<1> DEFINE Kept(t) ==
      isActive(t) /\ task_state'[t] # TASK_FREE =>
        /\ heap_base'[t] = heap_base[t] /\ heap_limit'[t] = heap_limit[t]
        /\ \A k \in Entries : alloc_table[t][k].ptr # -1 =>
             alloc_table'[t][k] = alloc_table[t][k]
<1>1. ASSUME DaemonInv, [Next]_vars, NEW t \in Tasks PROVE Kept(t)
  <2>0. TypeOK /\ VmTasks \subseteq Tasks
    BY <1>1, TableAssumption DEF DaemonInv, Tasks, VmTasks
  <2>1. ASSUME NEW u \in Tasks, NEW c \in VmTasks, NEW s, NEW size,
               Started(u, c, s, size)
        PROVE  Kept(t)
    <3>1. isActive(t) => t # c
      BY <2>1 DEF Started
    <3>2. t # c => /\ heap_base'[t] = heap_base[t]
                   /\ heap_limit'[t] = heap_limit[t]
                   /\ alloc_table' = alloc_table
      BY <2>0, <2>1 DEF Started, TypeOK
    <3> QED BY <3>1, <3>2
  <2>2. ASSUME NEW u \in VmTasks, NEW l \in Entries, NEW s, NEW size,
               Allocated(u, l, s, size)
        PROVE  Kept(t)
    <3>1. ASSUME NEW k \in Entries, alloc_table[t][k].ptr # -1
          PROVE  alloc_table'[t][k] = alloc_table[t][k]
      BY <2>0, <2>2, <3>1 DEF Allocated, TypeOK
    <3> QED BY <2>2, <3>1 DEF Allocated
  <2>3. ASSUME NEW u \in VmTasks, Kernel_terminateTask(u) PROVE Kept(t)
    <3>1. CASE t = u
      BY <2>0, <2>3, <3>1 DEF Kernel_terminateTask, FreesMemory,
              FreesSlot, WaitingFor
    <3>2. CASE t # u
      BY <2>0, <2>3, <3>2 DEF Kernel_terminateTask, FreesMemory,
              FreesSlot, WaitingFor, TypeOK
    <3> QED BY <3>1, <3>2
  <2>4. CASE UNCHANGED heapVars
    BY <2>4 DEF heapVars
  <2> QED BY <1>1, <2>1, <2>2, <2>3, <2>4, NextEffect DEF Effect, Lost
<1>2. DaemonInv /\ [Next]_vars =>
        [\A t \in Tasks :
           isActive(t) /\ task_state'[t] # TASK_FREE =>
             /\ heap_base'[t] = heap_base[t] /\ heap_limit'[t] = heap_limit[t]
             /\ \A k \in Entries : alloc_table[t][k].ptr # -1 =>
                  alloc_table'[t][k] = alloc_table[t][k]]_vars
  BY <1>1
<1> QED BY <1>2, DaemonInvariant, PTL DEF Spec, MemoryKept
=============================================================================
