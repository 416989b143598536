----------------------------- MODULE CodeStream -----------------------------
(***************************************************************************)
(* How a task gets its instructions: the 32-byte code_buffer, the position *)
(* of the program file, Kernel_refillBuffer, Kernel_jump and VM_fetchByte, *)
(* and the closing and reopening of the file by ls.  Directories that ls   *)
(* is asked for may be missing, the card may fail at any time, and a jump  *)
(* may go anywhere.                                                        *)
(*                                                                         *)
(* A byte of the file is represented by its address in the program (the    *)
(* offset in the file less the header, so header bytes are negative) and   *)
(* one that nothing is known of, left in the buffer by an earlier program  *)
(* or read after a failure, by STALE.  Which instruction a byte stands for *)
(* is left open: any of them may be next.                                  *)
(***************************************************************************)
EXTENDS Integers, Sequences

CONSTANTS
  CODE_BUFFER_SIZE,  \* 32
  CodeLens,          \* lengths of the programs, without the header
  Targets            \* the addresses programs jump to

ASSUME StreamAssumption ==
  /\ CODE_BUFFER_SIZE \in Nat \ {0}
  /\ CodeLens \subseteq Nat
  \* An address plus the header fits a 16-bit int.
  /\ \A len \in CodeLens : len < 2^15 - 4
  /\ Targets \subseteq Int

HEADER_SIZE == 4
STALE == -HEADER_SIZE - 1

VARIABLES
  code_len,  \* length of the program
  task,      \* active, file_open, position, code_buffer, buffer_index, and
             \* lost, history: a read or seek of its file has failed
  pc,        \* history: the address the program is at, by its own account
  fetched    \* history: the bytes the last instruction was made of

vars == <<code_len, task, pc, fetched>>

FileSize(len) == HEADER_SIZE + len
Slots == 0 .. CODE_BUFFER_SIZE - 1

TaskType(len) ==
  [active : BOOLEAN, file_open : BOOLEAN, position : 0 .. FileSize(len),
   code_buffer : [Slots -> Int], buffer_index : 0 .. CODE_BUFFER_SIZE, lost : BOOLEAN]

-----------------------------------------------------------------------------
(* The program file.                                                       *)

\* Mutant: the position advances by a whole buffer.
ReadBytesTooFar(t, n) ==
  [t EXCEPT
     !.code_buffer = [k \in Slots |-> IF k < n THEN t.position + k - HEADER_SIZE
                                      ELSE t.code_buffer[k]],
     !.position = t.position + CODE_BUFFER_SIZE]

\* n bytes from the position on; the rest of the buffer keeps what it held.
ReadBytes(t, n) ==
  [t EXCEPT
     !.code_buffer = [k \in Slots |-> IF k < n THEN t.position + k - HEADER_SIZE
                                      ELSE t.code_buffer[k]],
     !.position = t.position + n]

\* After a failure FatFile may read from the wrong cluster (see SdFile.tla):
\* which bytes the task gets is left out.
Lose(t) == [t EXCEPT !.lost = TRUE, !.code_buffer = [k \in Slots |-> STALE]]

\* file.read(code_buffer, CODE_BUFFER_SIZE): up to the end of the file, or up
\* to the sector that the card fails to read.  Nobody looks at the result.
Reads(t, len) ==
  LET left == FileSize(len) - t.position
      n == IF left < CODE_BUFFER_SIZE THEN left ELSE CODE_BUFFER_SIZE
  IN IF t.lost THEN {Lose([t EXCEPT !.position = @ + k]) : k \in 0 .. n}
     ELSE {ReadBytes(t, n)} \cup {Lose([t EXCEPT !.position = @ + k]) : k \in 0 .. n - 1}

\* file.seek: refused, without effect, on a closed file and beyond the end;
\* without effect, too, if the card fails.  Nobody looks at the result.
Seek(t, position) ==
  IF t.file_open /\ position \in 0 .. FileSize(code_len)
  THEN {[t EXCEPT !.position = position], Lose(t)} ELSE {t}

-----------------------------------------------------------------------------
(* The kernel's and the virtual machine's helpers: from a task to the      *)
(* tasks it may become.                                                    *)

Kernel_terminateTask(t) == [t EXCEPT !.active = FALSE, !.file_open = FALSE]

\* Mutant: only a whole chunk is worth reading.
RefillWholeChunksOnly(t) ==
  IF t.file_open /\ t.position + CODE_BUFFER_SIZE <= FileSize(code_len)
  THEN {[r EXCEPT !.buffer_index = 0] : r \in Reads(t, code_len)}
  ELSE {Kernel_terminateTask(t)}

Kernel_refillBuffer(t) ==
  IF t.file_open /\ t.position < FileSize(code_len)
  THEN {[r EXCEPT !.buffer_index = 0] : r \in Reads(t, code_len)}
  ELSE {Kernel_terminateTask(t)}

Kernel_jump(t, addr) ==
  {[s EXCEPT !.buffer_index = CODE_BUFFER_SIZE] : s \in Seek(t, addr + HEADER_SIZE)}

\* VM_fetchByte, on a task and the bytes delivered before in the same step.
\* A task that ended gets 0, which is not a byte of the program.
VM_fetchByte(f) ==
  {IF r.active
   THEN [task  |-> [r EXCEPT !.buffer_index = @ + 1],
         bytes |-> Append(f.bytes, r.code_buffer[r.buffer_index])]
   ELSE [task |-> r, bytes |-> f.bytes] :
     r \in IF f.task.buffer_index >= CODE_BUFFER_SIZE
           THEN Kernel_refillBuffer(f.task) ELSE {f.task}}

\* Opcode, and opcode with operand; an ended task goes no further than the
\* opcode.
FetchOpcode == VM_fetchByte([task |-> task, bytes |-> <<>>])

FetchInt(f) == UNION {VM_fetchByte(g) : g \in VM_fetchByte(f)}

\* Mutant: the file is reopened at the start of the code.
LsForgetsPosition(t) ==
  IF t.file_open THEN {[t EXCEPT !.position = HEADER_SIZE]} ELSE {t}

\* The file is closed, and it stays so if the directory is not there.  Else
\* it is opened again and put where it was; if it cannot be opened the task
\* is freed.
Syscall_ls(t) ==
  LET closed == [t EXCEPT !.file_open = FALSE]
  IN IF ~t.file_open THEN {t}
     ELSE Seek([t EXCEPT !.position = 0], t.position)
       \cup {closed, [closed EXCEPT !.active = FALSE]}

-----------------------------------------------------------------------------
(* One step per instruction.                                               *)

\* The instruction left the task in state f.task, to go on at `next`.  Where a
\* task is that has lost its file is not recorded.
Done(f, next) ==
  /\ task' = f.task
  /\ fetched' = f.bytes
  /\ pc' = IF f.task.active /\ ~f.task.lost THEN next ELSE 0
  /\ UNCHANGED code_len

\* Kernel_loadTask opens the file, reads the header and the first chunk.
\* Where that is shorter than the buffer, bytes of the slot's previous
\* program stay.
Kernel_loadTask ==
  /\ ~task.active
  /\ \E len \in CodeLens :
       /\ code_len' = len
       /\ task' \in Reads([active |-> TRUE, file_open |-> TRUE,
                           position |-> HEADER_SIZE,
                           code_buffer |-> [k \in Slots |-> STALE],
                           buffer_index |-> 0, lost |-> FALSE], len)
  /\ pc' = 0 /\ fetched' = <<>>

\* An instruction without operand that touches neither file nor task state.
Plain ==
  /\ task.active
  /\ \E f \in FetchOpcode : f.task.active /\ Done(f, pc + 1)

\* The fetch of the opcode found the end of the file.
NoOpcode ==
  /\ task.active
  /\ \E f \in FetchOpcode : ~f.task.active /\ Done(f, 0)

\* PUSH, and JIF whose condition is 0.
WithOperand ==
  /\ task.active
  /\ \E f \in FetchOpcode : f.task.active /\ \E g \in FetchInt(f) : Done(g, pc + 3)

\* JMP, and JIF whose condition is not 0.  The program goes on where the file
\* is: at the target, or, if that is beyond the end, at the next chunk.
Jump ==
  /\ task.active
  /\ \E target \in Targets, f \in FetchOpcode :
       /\ f.task.active
       /\ \E g \in FetchInt(f) : \E t \in Kernel_jump(g.task, target) :
            Done([g EXCEPT !.task = t], t.position - HEADER_SIZE)

Ls ==
  /\ task.active
  /\ \E f \in FetchOpcode :
       /\ f.task.active
       /\ \E t \in Syscall_ls(f.task) : Done([f EXCEPT !.task = t], pc + 1)

\* EXIT, or a check of the virtual machine that fails.
Exit ==
  /\ task.active
  /\ \E f \in FetchOpcode :
       f.task.active /\ Done([f EXCEPT !.task = Kernel_terminateTask(f.task)], 0)

Init ==
  /\ code_len \in CodeLens
  /\ task = [active |-> FALSE, file_open |-> FALSE, position |-> 0,
             code_buffer |-> [k \in Slots |-> STALE], buffer_index |-> 0, lost |-> FALSE]
  /\ pc = 0 /\ fetched = <<>>

Next ==
  Kernel_loadTask \/ Plain \/ NoOpcode \/ WithOperand \/ Jump \/ Ls \/ Exit

Spec == Init /\ [][Next]_vars

-----------------------------------------------------------------------------
(* Properties.                                                             *)

\* Types of the task's code fields and of the history variables.
TypeOK ==
  /\ code_len \in CodeLens
  /\ task \in TaskType(code_len)
  /\ pc \in Int /\ pc >= -HEADER_SIZE
  /\ fetched \in Seq(Int)

\* The rest of t's buffer is the program from p on, followed in the file by
\* the file position; only the last chunk of a file may be short of the
\* buffer's end.
StreamAt(t, p) ==
  LET ahead == t.position - HEADER_SIZE - p
      room  == CODE_BUFFER_SIZE - t.buffer_index
  IN /\ ahead \in 0 .. room
     /\ ahead < room => t.position = FileSize(code_len)
     /\ \A k \in 0 .. ahead - 1 : t.code_buffer[t.buffer_index + k] = p + k

\* The buffer and the file agree with the program counter, across refills,
\* jumps to wherever and ls, which closes the file and puts it back where it
\* was.  At and past the end of the program the file has been read to its
\* end, so that the next refill ends the task.  A closed file matters only
\* as long as the buffer has something left.
StreamInv ==
  /\ task.active /\ ~task.lost
  /\ task.file_open \/ task.buffer_index < CODE_BUFFER_SIZE
  => IF pc < code_len THEN StreamAt(task, pc)
     ELSE task.position = FileSize(code_len)

\* A program never runs bytes that are not at the addresses it has reached:
\* at the end of its file there is nothing more to run.
RunsOnlyItsProgram ==
  [][~task'.lost => \A k \in 1 .. Len(fetched') : fetched'[k] = pc + k - 1]_vars

\* The kernel's window on the file looks like the whole file.
Program == INSTANCE ProgramFetch
             WITH active <- task.active,
                  promise <- IF task.lost THEN "none"
                             ELSE IF task.active /\ ~task.file_open THEN "some"
                             ELSE "all"

ImplementsProgramFetch == Program!Spec
=============================================================================
