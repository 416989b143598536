------------------------------- MODULE System -------------------------------
(***************************************************************************)
(* The firmware as a whole, driven by the packets of the client: the task  *)
(* table, heap and scheduler of Kernel.tla with the packet inbox of        *)
(* Inbox.tla.  The communication daemon (Comm_process) and the READ        *)
(* instruction of the programs compete for what arrives.                   *)
(***************************************************************************)
EXTENDS Inbox

CONSTANTS
  GLOBAL_HEAP_SIZE, TASK_COUNT, MAX_ALLOCATIONS, COMM_HEAP_SIZE,
  HeaderSizes, MallocSizes, ReopenMayFail,  \* as in Kernel.tla
  Commands,    \* what the client may send: command and payload length
  MaxPackets   \* bound on the packets it sends

ASSUME ClientAssumption ==
  /\ Commands \subseteq [cmd : {"stdin", "exec", "other"}, len : Nat]
  /\ MaxPackets \in Nat

VARIABLES
  task_state, sleeping, file_open, heap_base, heap_limit, alloc_table,
  heap_bitmap, cursor,  \* as in Kernel.tla
  inbox,                \* the HAL's packet state
  arrived,              \* history: the packets that arrived, numbered from 1
  input,                \* history: the bytes READ has returned
  taken                 \* history: the packets Comm_process has handled

tableVars == <<task_state, sleeping, file_open, heap_base, heap_limit, alloc_table,
               heap_bitmap>>
kernelVars == <<tableVars, cursor>>
inboxVars == <<inbox, input, taken>>
vars == <<kernelVars, inboxVars, arrived>>

K == INSTANCE Kernel

Ids == 1 .. Len(arrived)

Init ==
  /\ K!Init
  /\ inbox = EmptyInbox
  /\ arrived = <<>>
  /\ input = <<>> /\ taken = <<>>

-----------------------------------------------------------------------------

\* The last byte of a packet arrives.
Arrives(c) ==
  /\ Len(arrived) < MaxPackets
  /\ LET p == [id |-> Len(arrived) + 1, cmd |-> c.cmd, len |-> c.len]
     IN /\ inbox' = [inbox EXCEPT !.line = Append(@, p)]
        /\ arrived' = Append(arrived, p)
  /\ UNCHANGED <<kernelVars, input, taken>>

Skip(t) == K!Skip(t) /\ UNCHANGED <<inboxVars, arrived>>

\* What the daemon does with a packet: SYS_EXEC, SYS_LS and the other system
\* calls, or nothing at all if the command is not below 100.
Handle(p) ==
  \/ p.cmd = "exec" /\ K!Syscall_exec(0)
  \/ p.cmd = "other" /\ K!Syscall_ls(0)
  \/ /\ p.cmd # "exec"
     /\ UNCHANGED tableVars

\* Mutant: the daemon runs while it waits for a child.
CommProcessUnguarded ==
  /\ K!Turn(0)
  /\ LET r == HAL_readPacket(inbox)
     IN /\ inbox' = r.inbox
        /\ \/ /\ r.packets = {}
              /\ UNCHANGED <<tableVars, taken>>
           \/ \E p \in r.packets : Handle(p) /\ taken' = Append(taken, p)
  /\ UNCHANGED <<input, arrived>>

Comm_process ==
  /\ K!Turn(0)
  /\ K!isRunnable(0)
  /\ LET r == HAL_readPacket(inbox)
     IN /\ inbox' = r.inbox
        /\ \/ /\ r.packets = {}
              /\ UNCHANGED <<tableVars, taken>>
           \/ \E p \in r.packets : Handle(p) /\ taken' = Append(taken, p)
  /\ UNCHANGED <<input, arrived>>

\* OP_READ, with room on the stack.
Read(t) ==
  /\ K!VmCompute(t)
  /\ LET r == HAL_read(inbox)
     IN inbox' = r.inbox /\ input' = input \o r.bytes
  /\ UNCHANGED <<taken, arrived>>

\* Every other instruction.
Other(t) == K!VmStep(t) /\ UNCHANGED <<inboxVars, arrived>>

Turns ==
  \/ \E t \in K!Tasks : Skip(t)
  \/ Comm_process
  \/ \E t \in K!VmTasks : Read(t) \/ Other(t)

Next == Turns \/ \E c \in Commands : Arrives(c)

Spec == Init /\ [][Next]_vars

\* As in Kernel.tla: the scheduler's loop goes on, and programs that keep
\* getting turns end.  The client need not send anything.
Fairness ==
  /\ WF_vars(Turns)
  /\ \A t \in K!VmTasks :
       SF_vars(K!VmTerminates(t) /\ UNCHANGED <<inboxVars, arrived>>)

FairSpec == Spec /\ Fairness

-----------------------------------------------------------------------------
(* Properties.                                                             *)

Packets == [id : 0 .. MaxPackets, cmd : {"none", "stdin", "exec", "other"}, len : Nat]

\* Types of the inbox and the histories.
TypeOK ==
  /\ inbox \in [line : Seq(Packets), ready : BOOLEAN, packet : Packets, read_pos : Nat]
  /\ arrived \in Seq(Packets) /\ Len(arrived) <= MaxPackets
  /\ inbox.read_pos <= inbox.packet.len
  /\ input \in Seq([id : Ids, pos : Nat])
  /\ taken \in Seq(Packets)

Waiting == {inbox.line[k].id : k \in 1 .. Len(inbox.line)}
InSlot  == IF inbox.ready THEN {inbox.packet.id} ELSE {}
Taken   == {taken[k].id : k \in 1 .. Len(taken)}
ReadFrom(i) == {input[k].pos : k \in {k \in 1 .. Len(input) : input[k].id = i}}

Earlier(a, b) == a.id < b.id \/ (a.id = b.id /\ a.pos < b.pos)

\* Keyboard input comes in the order it was typed and no byte comes twice,
\* however the consumers' calls interleave (hal_pkt_read_pos across
\* process_serial, HAL_read and HAL_readPacket).
InputInOrder ==
  \A j, k \in 1 .. Len(input) : j < k => Earlier(input[j], input[k])

\* Comm_process handles no packet twice and none out of order.
TakenInOrder ==
  \A j, k \in 1 .. Len(taken) : j < k => taken[j].id < taken[k].id

\* A packet that is gone was handled by the daemon or read to its last byte:
\* none is overwritten in the slot or dropped unseen.
NothingUnseen ==
  \A i \in Ids \ (Waiting \cup InSlot \cup Taken) :
    ReadFrom(i) = 0 .. arrived[i].len - 1

\* A system call the client sent has been executed when its packet is gone.
CallsAreExecuted ==
  \A i \in Ids \ (Waiting \cup InSlot) : arrived[i].cmd # "stdin" => i \in Taken

\* Every packet leaves the inbox sooner or later: the slot that waits for its
\* consumer never blocks the line for ever, also while the daemon is paused.
PacketsLeave == \A i \in 1 .. MaxPackets :
  (i \in Ids) ~> (i \in Ids \ (Waiting \cup InSlot))

\* Driven by packets, the kernel does what Kernel.tla says.
ImplementsKernel == K!Spec
=============================================================================
