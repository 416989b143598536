# ArduOS in TLA+

ArduOS is a small operating system for the Arduino Mega: a round-robin
scheduler runs up to two programs from the SD card on a byte-code machine, next
to a communication daemon that executes the commands of a client on the PC.
This directory holds TLA+ modules of its parts, TLC configurations that check
them on small instances, and TLAPS proofs for every value of the constants.

Paths below are those of the repository (`src/src/Kernel.cpp` is the file
`src/Kernel.cpp` of the firmware tree, and so on). `PROJECT.json` lists every
run, theorem, hazard and finding, and maps each definition to source lines.

## The system

| Part | State | Operations | Talks to |
|---|---|---|---|
| Heap allocator (`Kernel.cpp`) | `heap_bitmap`, per task `heap_base`, `heap_limit`, `alloc_table` | `Kernel_malloc`, the scan in `Kernel_loadTask`, `Kernel_free`, the release in `Kernel_terminateTask` | programs (MALLOC), `exec`, termination |
| Task table, scheduler (`Kernel.cpp`, `Task.h`) | per slot `task_state` (FREE, RUNNING, or the child waited for), `wake_up_time`, `file` | `Kernel_runScheduler`, `Kernel_loadTask`, `Kernel_terminateTask`, `Kernel_yield` | everything |
| Code streaming (`Kernel.cpp`, `VirtualMachine.cpp`) | `code_buffer` (32 bytes), `buffer_index`, position of the program file | `Kernel_refillBuffer`, `Kernel_jump`, `VM_fetchByte`, `VM_fetchInt`; `ls` closes and reopens the file | SdFat |
| Virtual machine (`VirtualMachine.cpp`) | `stack`, `sp`, `global_heap` | `VM_runStep`, one instruction per turn | kernel, HAL |
| System calls (`Syscall.cpp`, `syscall/*.h`) | `args`, `cwd`, strings in the heap | `ls`, `exec`, `chdir`, `getcwd` | kernel, SdFat |
| Inbox (`HAL.cpp`) | one packet: `hal_pkt_ready`, `_cmd`, `_len`, `_read_pos` | `process_serial`, `HAL_read`, `HAL_readPacket` | READ of the programs, daemon |
| Serial receiver (`HAL.cpp`, `StreamProtocol.cpp`) | 64-byte ring of the serial driver, `hal_raw_buffer` | `process_serial`, `sp_parse_packet` | inbox |
| Daemon (`Communication.cpp`) | task 0: `cwd`, 128 cells of heap | `Comm_process` | inbox, system calls |
| Timer (`HAL.cpp`) | `system_ticks` | the interrupt handler, readers in the scheduler | scheduler |
| SdFat (vendored) | position and cluster of each file, one sector cache, the SPI driver's multi-sector read | `read`, `seekSet`, `fatGet`, `readSector` | code streaming, `ls` |
| Client (`Main.java`) | `interactiveMode`, receive buffer | `processInput`, `receiveLoop` | serial line |
| Assembler (`vmtools.py`) | | | host tool |

There is one thread. Only the timer and the serial receive interrupt preempt
it; they touch `system_ticks` and the driver's ring. So one turn of the
scheduler's inner loop (one packet for task 0, one instruction for every other
task) is one atomic step of the models of the kernel, and concurrency is the
interleaving of turns, of arriving bytes and packets, of ticks and of the SD
card's failures. `Sleep` and `Framing` cut finer, where the interrupts matter.

What makes each part correct, and what is hard to test about it:

* *Allocator*: a cell never has two owners, nothing leaks, a live task's memory
  stays as it is. Three pieces of code write the bitmap.
* *Task table*: who waits is woken by exactly the end of its child; no cycles;
  something can always run. There are many ways for a task to end, and one of
  them (`ls`) does not use `Kernel_terminateTask`.
* *Code streaming*: a window of 32 bytes must be indistinguishable from the
  whole file, across jumps, instructions that lie across two chunks, short last
  chunks, `ls` closing the file in the middle, and a card that fails.
* *Files*: one cache serves the allocation table, directories and programs, and
  the driver leaves the card in the middle of a read to save a command. A failed
  read must not turn into wrong bytes later.
* *Inbox*: two consumers of one slot that do not know of each other.
* *Receiver*: resynchronisation after lost and damaged bytes, ring overrun.
* *Sleep*: torn reads of a 32-bit counter on an 8-bit CPU, wrap-around.
* *Daemon*: operands, results and error marks of all commands share cells, `cwd`
  and its operands are cut to 32 bytes in different places, and a length is
  counted in bytes where memory has cells.

## Modules

| Module | Models | Runs |
|---|---|---|
| `Heap` | First fit over a bitmap, as sets (no state) | with the next two |
| `HeapScan`, `MCHeapScan` | The scan loop, one step per iteration | `heap_scan` |
| `Kernel`, `MCKernel` | Task table, heap, scheduler, `exec`, `ls` | `kernel`, `kernel_lost_wakeup` |
| `ProgramFetch` | Abstract: the whole program in memory | |
| `CodeStream`, `MCCodeStream` | The window that implements it | `code_stream`, `code_stream_tail` |
| `Inbox` | The packet slot: `process_serial`, `HAL_read`, `HAL_readPacket` as functions | with the next |
| `System`, `MCSystem` | `Kernel` and `Inbox` composed, driven by the client's packets | `system`, `system_calls` |
| `LossyLine` | Abstract: packets may get lost, but come in order and once | |
| `Framing`, `MCFraming` | The line, the driver's ring and the parser, byte by byte, which implement it | `framing` |
| `SdFile`, `MCSdFile` | SdFat's read path from `File32::read` and `seek` to the card | `sd_file` |
| `Sleep`, `MCSleep` | The tick, its torn reads, SLEEP and the scheduler's check | `sleep` |
| `Daemon`, `MCDaemon` | The daemon's cells, operands and results, `cwd` and paths | `daemon`, `daemon_overrun` |
| `*Proofs` (listed below) | Proofs | |

`MC*` modules only define constants for the configurations. Operators whose
comment begins with *Mutant* are deliberate mistakes in the definition that
follows them, listed in `PROJECT.json` with the property each one breaks; no
specification uses them.

### Heap and HeapScan

The bitmap is the set of cells whose bit is set. `FirstFit(bitmap, size)` is
the set with the lowest start of `size` free cells, or empty; sizes below 1
never fit, which is what comparing the counter after the increment does in
`Kernel_loadTask` and what the guard at the top does in `Kernel_malloc`.
`HeapScan` has the loop's variables (`i`, `consecutive_free`, `start_index`) and
shows that the loop computes `FirstFit`. `Kernel` then uses `FirstFit` where
the code has the loop.

Bounds: every bitmap of 7 cells and every size from -1 to 8, so runs at both
ends, several runs of one size, and sizes that never fit all occur.

### Kernel

Variables are the fields of the task table with their names. The constants of
the code are `TASK_COUNT` (3), `MAX_ALLOCATIONS` (4), `GLOBAL_HEAP_SIZE` (1024)
and the daemon's `COMM_HEAP_SIZE` (128). An action is a turn: `Skip` (not
runnable or asleep), `Comm_process`, and for the programs `VmCompute`,
`VmMalloc`, `VmSleep`, `VmExec`, `VmLs` and `VmTerminates`, each with the whole
of what the handler does. Which instruction comes next is left open, so the
model covers every program. `Kernel_terminateTask` clears the bits of the
blocks and the segment, wakes whoever waits, frees the slot and closes the file
in one step, as in the code. `ReopenMayFail` says whether `sd.open` may fail
when `ls` reopens the program file.

Abstracted: heap contents and strings; time (a sleeping task may be looked at
while still asleep or after); why loading or opening fails.

Checked: cells have one owner (`HeapDisjoint`), marked cells and owned cells
agree in both directions (`HeldIsAllocated`, `NoLeak`), a free slot has nothing
to inherit (`FreeHoldsNothing`), waiting (`WaitsForActive`, `OneWaiter`,
`NoWaitCycle`, `SomeoneRunnable`, `ResumeOnlyByChild`), a live task keeps its
memory (`MemoryKept`), and `ParentResumes`. The run `kernel` has `ReopenMayFail`
off. With it on, `HeapDisjoint`, `HeldIsAllocated` and `NoWaitCycle` still hold
(the theorems on them do not assume it off); `WaitsForActive` does not
(`kernel_lost_wakeup`).

Bounds: 3 tasks are the real number, and what a chain of a waiting daemon, a
waiting program and its child needs. 4 cells (one of them the daemon's), sizes
0 to 2 and 2 entries let the heap fragment, fill up and be refused, and the
entry table fill up.

### CodeStream

A byte of the file is represented by its address in the program, so what was
fetched can be compared with what should have been: header bytes are negative,
bytes of which nothing is known are `STALE`. The history variables `pc` (where
the program is by its own account) and `fetched` exist only for the properties.
An action is an instruction, by what it fetches and what it does to the stream.
`Kernel_refillBuffer`, `VM_fetchByte` and the rest are functions from a task to
the set of tasks it may become (more than one where the card may fail).

The environment is the real one: a jump goes to any address, also into the
header and beyond the end of the file (then the seek is refused and the program
goes on where the file is, which `pc` follows); `ls` may be asked for a
directory that is not there and then leaves the program file closed; every read
and seek may fail. `lost` is the history of a failure: from then on the bytes
are `STALE`, and nothing is claimed until the program ends.

`CodeStream` implements `ProgramFetch`, whose variable `promise` says what a
program may rely on: *all* (its bytes come, in order, to its end), *some* (after
an `ls` of a missing directory the bytes that come are right, but they may end
sooner) or *none* (the card has failed). Bytes past the end of a program are not
promised, and what `CodeStream` does there is `code_stream_tail`.

Bounds: a 4-byte buffer and programs of 0, 1, 4, 6 and 9 bytes: none, shorter
than, as long as, and more than two buffers, with 3-byte instructions across
boundaries. The header is 4 bytes as in the code; jump targets run from one
before the file to beyond the longest program.

### Inbox and System

An inbox is `line` (packets that have arrived and are still in the serial
buffers), the slot with `ready`, `packet` and `read_pos`. A packet is a number,
a kind of command (`stdin`, `exec`, `other`) and a length. `System` instantiates
`Kernel` on its own variables and adds the inbox: `Comm_process` calls
`HAL_readPacket` and does `exec`, `ls` or nothing, `Read` is the READ
instruction, `Other` every other instruction of `Kernel`. The histories
`arrived`, `input` and `taken` record the packets, the bytes READ returned, and
the packets the daemon handled. Arrival is without loss here: what `Framing`
delivers is what arrives.

Checked: bytes are read in order and once (`InputInOrder`), packets are handled
in order and once (`TakenInOrder`), every packet that is gone was handled or
read to its end (`NothingUnseen`), every packet goes (`PacketsLeave`), and the
whole is a `Kernel` (`ImplementsKernel`). What does not hold is which consumer
gets what (`system_calls`).

Bounds: three packets of all kinds put one packet in the slot, one half-read
and one behind; lengths 0, 1 and 2 cover the empty payload and a half-read one;
two programs; a heap just large enough for them, since memory is the business of
`kernel`.

### Framing and LossyLine

A packet is its length; a byte is the packet it was sent in, its position there
and whether it arrived as sent. The line loses or damages up to `MaxFaults`
bytes, and the ring drops what it cannot hold, without a bound. `ReadByte` is
one iteration of the loop in `process_serial` with the parser; between
iterations bytes may arrive. The length a header declares is its packet's if the
header is one packet's, and any length otherwise. The CRC is taken to detect
whatever is not one packet from its first byte to its last (a 16-bit CRC misses
one damage in 65536; that is outside this model).

Checked: what comes out was sent, in order and once, whatever is lost
(`ImplementsLossyLine`); a packet is parsed as soon as its last byte is there
(`NothingBehindPacket`); a packet whose first byte finds the raw buffer empty is
delivered (`InStepIsDelivered`), which is what resynchronisation comes down to;
damage to payload or CRC costs one packet (`DamageIsContained`); without faults
everything comes out (`CleanLineDelivers`). A lost byte or a damaged header may
cost any number of packets: the code waits for the declared length, or up to the
256 bytes of the buffer, without a timeout.

Bounds: header 2, CRC 1, raw buffer 4, ring 2, packets of 3 (no payload) and 5
(more than the buffer holds), three packets and one fault of the line: a fault in
the first packet, a second one swallowed by it, and a third in step again.

### SdFile

One call of `read` or `seekSet` at a time, one step per iteration of its loop;
between calls every file may read, rewind or seek. `fatGet`, the cache and
`readSector` are functions from the state of the device to the states and results
it may have. A sector is a number and a byte is a sector and an offset, so what
was read is compared with the file's content. The card fails up to `MaxFaults`
times, at selecting, at a command, while waiting for data, and at stopping a
read. `astray` is the history of files that a failed read left one cluster ahead
of their position.

Checked: cluster and position agree (`ClusterRight`), what a read returns is
what the file holds (`ReadsTheFile`), and when a read fails although the card
works, it wants the very sector that failed last (`OnlyThatSector`).

Bounds: a program of three clusters with another file between them, and a
directory; 3 bytes in a sector, 2 sectors in a cluster, two sectors of FAT, two
failures. Reads of 1 and 2 bytes begin, end and lie across sectors and clusters.

### Sleep

The counter counts modulo `M`, its low bytes modulo the `Units` (256, 65536 and
2^24 in the code). A read takes its bytes low first, and the tick may come
between two of them; a tick takes a millisecond
and a read less than a microsecond, so at most one does. `Falls` is
`Kernel_yield`, `Wakes` the check of `Kernel_runScheduler`. `asked` and `slept`
are histories. Checked is exactly when a sleep is too short (`NotEarly`: a carry
in the middle of the waking read, or a wrap) and too long (`NotLate`: a torn read
in SLEEP, a wrap, or a negative time).

Bounds: three bytes of one bit each, so that carries go across one and two bytes and the
counter wraps; times -2, 0, 1 and 5; two tasks, so that one's read is not the
other's.

### Daemon

Here strings are the matter, so they are sequences of characters. The heap is a
function from cells to characters, `Nul` and `Failed` (the -1 of a failed call).
An action is a command: `Comm_ls`, `Comm_exec`, `Comm_chdir`, `Comm_getcwd`, from
the payload in the packet to the cells that were written and the result. A path
is read character by character (`Take`, `Read`), slashes in a row counting for
one, which gives its `Names`. `cwd` may fill its 32 bytes without an end; then
what lies behind it in the task, the low bytes of `stack[0]`, is read with it
(`behind`).

Checked: `exec` gets the option, name and argument that were sent, each cut to
its buffer (`ExecAsSent`); the daemon reports failure exactly when `ls` or `cd`
failed, although an old -1 may lie in the cell it looks at (`ReportsFailure`);
`cwd` is the directory the commands lead to (`FollowsPath`), unless a path was too
long or had an empty name (`odd`); and payloads that fit behind the second
operand leave other tasks' cells alone (`SegmentKept`). Longer ones do not
(`daemon_overrun`).

Bounds: strings of 6 characters, a segment of 16 cells with the second operand at
8, and a tree whose paths just fit, just do not fit and are cut; five commands in
any order, good and bad, from one to the next.

### Fairness

`ParentResumes` and `PacketsLeave` assume weak fairness of the scheduler:
`Kernel_runScheduler` loops for ever and no turn waits for anything. They also
assume strong fairness of `VmTerminates(t)`: a program that keeps getting turns
ends some day. The code does not guarantee that, a program may loop; it is an
assumption on programs without which no parent could expect to be resumed. It is
strong because the turn is enabled only when the cursor is at the task.
`CleanLineDelivers` assumes that bytes written to the line arrive or are lost,
that the receiver is polled (the daemon's turn does it in every round) and that a
ready packet is taken, which is `PacketsLeave`. Nothing is assumed of the client.

## Proofs

Checked by TLAPS from the assumptions named `...Assumption` in the modules,
for all values of the constants.

* `HeapScanProofs`: `ScanTyped`, `ScanCorrect`. Invariant: the counter is the
  length of the free run that ends at `i` (`RunInv`), and every fit that ends
  before `i` is the one found (`NothingBefore`).
* `KernelProofs`: `TypeCorrect`, and that every step has one of a few effects on
  the table and the heap (a program started, a block allocated, a task
  terminated, a task lost by `ls`, nothing), on which the rest builds. The daemon
  has no file open, so its `ls` never frees it. `HeapOwnersDisjoint`, by
  `HeapDisjoint` and `HeldIsAllocated` together: new cells are unmarked, hence
  nobody's; released cells are nobody else's, hence the other owners' stay marked.
  `NoCircularWait` and, if reopening does not fail, `TasksConsistent` (`NoLeak`,
  `FreeHoldsNothing`, `WaitsForActive`, `OneWaiter`), from which
  `AlwaysSomeoneRunnable` follows; `OnlyChildResumes` and `LiveMemoryKept` are
  action properties. A child is new when somebody starts to wait for it, so the
  wait relation stays a forest.
* `CodeStreamProofs`: `StreamRefinesProgram`, `StreamAgrees` and `StreamTyped`,
  with every failure of the card, every missing directory and every jump target.
  The invariant (`IInv`) says that the rest of the buffer is the program from
  `pc` on and that the file position is where the buffer ends, or that `pc` is
  past the end and the file has been read to its end: a refill can then only end
  the task, and a jump starts from an empty buffer. For a closed file this is
  claimed only as long as the buffer has something left. The lemmas follow the
  code's helpers (a read, a refill, a byte, an instruction), then there is one
  for each action and the action of `ProgramFetch` it maps to.
* `SystemProofs`: `SystemImplementsKernel` (each step is a `Kernel` step or
  leaves the kernel alone), so the theorems on `Kernel` hold of the firmware;
  `InputOrdered` and `TakenOrdered`, from an invariant that places everything
  read or handled before the slot's packet and position, and numbers the line.
  Also `NothingLostUnseen` and `InboxTyped`, for any number of packets of any
  length. `NothingUnseen` is not inductive: that a packet which leaves the slot
  was read to its end needs that every byte before `read_pos` was read (and none
  behind it), that line and slot hold what arrived under their numbers, and that
  every packet before the slot's is accounted for (`Accounted`).
* `FramingProofs`: `FramingImplementsLossyLine`, `InStepDelivered`,
  `DamageContained`, `NothingWaits` and `FramingTyped`, for any number of packets
  and faults and any sizes of packets and buffers. The invariant (`FramingInv`)
  says of two bytes on their way, one behind the other, that nothing was between
  them or the packets of what was lost are broken (`OnTheWay`); that the raw
  buffer never is a whole packet (`Incomplete`), so an iteration completes one
  with its last byte or not at all; that an intact packet in step lies in the
  buffer as far as it was read, and its header declares its length
  (`InStepSoFar`); and that while every header arrives the buffer always is in
  step and a broken packet's bad byte is in the ring or the buffer
  (`InStepForSure`), so that the CRC error comes at its end.

* `SdFileProofs`: `FilesStayRight`, `ReadsAreRight`, `RefusesOnlyThatSector` and
  `SdFileTyped`, for any files, chains and geometry and any number of failures
  of the card. `ClusterRight` says nothing of a file in the middle of a seek and
  nothing of one that is astray, so the invariant (`SdFileInv`) does: a seek can
  go back to where it began, its cluster and the clusters it has left lead to
  the one it wants (`OnItsWay`), and a file that is astray is in a later cluster
  of its own chain (`On`). `ReadsTheFile` needs in addition that the card is in
  the middle of the read the driver thinks it is in (`Streaming`), that the
  buffer holds the sector it is marked with (`Cached`), and that the bytes read
  so far end at the position. `Devices` are the states of card and cache with
  these two; the lemmas on `fatGet`, `prepare` and `readSectors` say that all
  they return are such. Assumed of the card: no two links of the chains in use
  lead to one cluster, and no file is larger than its chain.
* `SleepProofs`: `NeverLate`, `NeverEarly` (an action property) and `SleepTyped`,
  for any width of the counter and its bytes, any times and any number of tasks.
  The invariant says that `wake_up_time` of a task, if its sleep has not met a
  wrap, is the tick it fell asleep at plus the time it asked for, or more if its
  read was torn (`Marked`). `ReadValue` says what a read with a tick in it
  returns: the count before it, or up to a unit more if there was a carry.
* `DaemonProofs`: `ExecutesWhatWasSent`, `FailuresReported`, `CwdFollowsPath`,
  `DaemonTyped` and the action property `SegmentOfOthersKept`, for any card, any
  payloads of any length and any sizes of the segment and the buffers. Besides
  types (`HeapOK`, `CwdOK`) only `CwdFollowsPath` needs a strengthening (`PathOK`):
  `cwd` has no empty name and a slash at its end. The rest is about paths alone. `Names` walks over a
  path like SdFat does, and the lemmas say that such a walk goes on behind a
  slash as if it began there (`ConcatNames`), that a slash at the end adds
  nothing (`AppendSlash`), and that the name behind the last slash is one name
  (`OneName`), so cutting it, as ".." does, drops the last of the names. The walk
  is a recursive function; that it exists for every length, and what it computes,
  is proved by induction over the set of lengths for which it does
  (`Induction`), since the library's induction rules cannot be used here.
  That `exec` finds its operands comes down to what `Written` leaves in the cells
  and `StringAt` reads from them, with the raw payload below the operands.
  Assumed are that both operands and their buffers fit in the segment, that a
  listing fits in it, and that no character of a payload or a listing is a Nul
  or compares equal to the -1 of a failed call. The last is so for payloads,
  whose bytes are unsigned when they are copied, and for the long names that
  SdFat lists, which are 7-bit; a listing whose first name is a short one that
  begins with byte 0xFF would be taken for an error, and is left out.

Only model-checked: the liveness properties `ParentResumes`, `PacketsLeave` and
`CleanLineDelivers`, since TLAPS has no rules for fairness and ENABLED here.
Every invariant and action property of a passing run is a theorem. Every
violation is a TLC run.

## What the runs found

Each is a `violation` run with its finding in `PROJECT.json`.

1. `ls` that cannot reopen the program file frees the slot without
   `Kernel_terminateTask`: a waiting parent is never woken (`kernel_lost_wakeup`).
2. A program without EXIT goes on in leftover bytes (`code_stream_tail`).
3. READ consumes system-call packets while the daemon waits (`system_calls`).
4. A payload of 128 to 253 bytes is written over other tasks' cells, because the
   guard counts bytes (`daemon_overrun`).

Other divergences met while modelling. The models contain them, except where it
says so, and the properties are stated around them:

* A MALLOC address below `heap_limit` is translated like a virtual one
  (`Kernel.cpp:379`; not modelled).
* The daemon drops keyboard packets while a program is reading
  (`Communication.cpp:73`), and a packet begun by READ is handled by the daemon
  as well (`HAL.cpp:187`).
* `ls` of a missing directory leaves the program file closed
  (`SysLs.h:98-100`), and the program ends at its next refill: `promise` is
  *some*.
* After a read error the program goes on with the old 32 bytes
  (`Kernel.cpp:321`): `promise` is *none*.
* A jump beyond the end of the file is refused by the seek and goes on with the
  next chunk; one to -4..-1 runs the header.
* While a packet is ready nothing is taken from the ring (`HAL.cpp:118`), which
  overruns when nobody consumes it.
* A failed read at the first sector of a cluster leaves `m_curCluster` one ahead
  of the position (`FatFile.cpp:811`); the next read is from the wrong cluster,
  until a seek starts at the beginning of the chain (`astray`).
* After a failed transfer the sector that failed cannot be read again before
  another has been asked for: `m_state` stays READ_STATE (`SdSpiCard.cpp:485`).
* A torn read makes a sleep too short or too long; a wake-up time near the wrap of
  the counter (49 days) can be missed for a whole round, a negative sleep is
  over at once or lasts till then. For that reason no liveness is claimed of
  `Sleep`.
* A path that fills the 31 characters of `cwd` loses its end to the slash that is
  added; `a//` makes the next ".." stay where it is; `ls` of a plain file lists
  nothing; `exec` with an empty name reads the name from the raw payload.

## Not modelled

* *Operand stack and arithmetic of the machine.* Every instruction is modelled by
  what it fetches and what it does to tasks, heap, inbox and file. That SYS pops
  more than it checks for (`VirtualMachine.cpp:168`) concerns the task's own stack
  and is one short sequence, listed as a hazard without a property.
* *Contents of the heap across tasks*, but for the daemon's segment; hence the
  address aliasing above has no property.
* *System calls made by programs with operands of their choice*: only their effect
  on tasks, heap ownership and file is modelled. With the daemon's operands they
  are modelled whole.
* *Client.* It is the source of packets. Its receiver mirrors the firmware's, and
  its interactive mode only decides which command a line is sent as.
* *Output path* (`HAL_write`, `sp_encode_packet_buffer`): one self-contained packet
  per call, no state. *Pins and LCD*: pure output. *Assembler*: a sequential host
  tool. *Prescaler and pin setup* in `HAL_init`.
* *SdFat beyond the read path*: ArduOS never writes, and opens files one at a time.
  Opening and directory lookup are modelled by their outcome. Almost all of the
  repository's lines are this library, for other boards, other file systems and
  its examples, which ArduOS does not call; so the mapped share of
  all lines is small, while the firmware's own files (`src/src`) are mapped nearly
  completely.

## Plan

Done: all modules of the plan and their proofs. What could be added, in this order:

1. The stack pointer of the machine, for which programs it stays in range.
2. The client's two modes, composed with `System`.
