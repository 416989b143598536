------------------------------- MODULE Daemon -------------------------------
(***************************************************************************)
(* What the communication daemon does with a command: Comm_process lays    *)
(* the payload out in its heap segment as the operands of a system call,   *)
(* the call reads its strings from there, and the daemon looks for the     *)
(* result in the cells it gave the call (src/src/Communication.cpp,        *)
(* syscall/*.h, resolve_path in Kernel.cpp).                               *)
(*                                                                         *)
(* Here strings are what it is about, so they are sequences of characters; *)
(* Nul ends one and Failed is the -1 of a call that failed.  The segment   *)
(* starts at cell 0.  The other tasks are left out: they have their own    *)
(* cells, cwd and stack.                                                   *)
(***************************************************************************)
EXTENDS Integers, Sequences, SequencesExt

CONSTANTS
  STR,             \* the characters a buffer of 32 bytes holds in front of its end
  ARG_AT,          \* the cell of the second operand (64)
  COMM_HEAP_SIZE,  \* cells of the daemon (128)
  INT_SIZE,        \* sizeof(int)
  GLOBAL_HEAP_SIZE,
  Char,            \* the characters of payloads and listings
  Directories, PlainFiles, \* what is on the card, as sequences of names
  Paths,           \* payloads of ls and cd
  Commands,        \* payloads of exec
  Listings,        \* what a directory may list
  MaxCommands      \* bound on the commands the client sends

Nul == "nul"
Failed == "-1"
Foreign == "foreign"

\* No character is an end of a string or the -1 of a failure: a payload's bytes
\* are copied unsigned, and the long names that SdFat lists are 7-bit.
ASSUME DaemonAssumption ==
  /\ STR \in Nat \ {0} /\ ARG_AT \in Nat /\ STR + 1 < ARG_AT
  /\ COMM_HEAP_SIZE \in Nat /\ ARG_AT + STR + 1 < COMM_HEAP_SIZE
  /\ GLOBAL_HEAP_SIZE \in Nat /\ COMM_HEAP_SIZE <= GLOBAL_HEAP_SIZE
  /\ INT_SIZE \in Nat \ {0} /\ MaxCommands \in Nat
  /\ Nul \notin Char /\ Failed \notin Char
  /\ Paths \cup Commands \cup Listings \subseteq Seq(Char)
  /\ \A l \in Listings : Len(l) < COMM_HEAP_SIZE

VARIABLES
  global_heap,
  cwd,      \* t->cwd up to its Nul; without one it is one longer than STR
  behind,   \* the string in the bytes behind t->cwd, those of stack[0]
  dir,      \* history: the directory cd went to, as a sequence of names
  odd,      \* history: since the last plain absolute cd there was one too
            \* long for the buffers or with an empty name
  last,     \* history: the last command and what it came to
  served    \* history: the number of commands

vars == <<global_heap, cwd, behind, dir, odd, last, served>>

Init ==
  /\ global_heap = [a \in 0 .. GLOBAL_HEAP_SIZE - 1 |->
                      IF a < COMM_HEAP_SIZE THEN Nul ELSE Foreign]
  /\ cwd = <<"/">> /\ behind = <<>>
  /\ dir = <<>> /\ odd = FALSE
  /\ last = [kind |-> "none"] /\ served = 0

-----------------------------------------------------------------------------
(* Strings in the heap and in buffers.                                     *)

Upto(s, n) == SubSeq(s, 1, IF Len(s) < n THEN Len(s) ELSE n)

\* Mutant: no Nul.
WrittenOpen(h, a, s) ==
  [b \in DOMAIN h |-> IF b \in a .. a + Len(s) - 1 THEN s[b - a + 1] ELSE h[b]]

\* s and a Nul from cell a on; what does not fit in the heap is dropped.
Written(h, a, s) ==
  [b \in DOMAIN h |-> IF b \in a .. a + Len(s) - 1 THEN s[b - a + 1]
                      ELSE IF b = a + Len(s) THEN Nul ELSE h[b]]

\* The string at cell a, as the system calls read it.
StringAt(h, a, ends) ==
  LET n == CHOOSE k \in 0 .. STR :
             /\ \/ k = STR \/ a + k \notin DOMAIN h
                \/ h[a + k] \in ends
             /\ \A j \in 0 .. k - 1 : h[a + j] \notin ends
  IN [k \in 1 .. n |-> h[a + k - 1]]

\* t->cwd as strlen and strcpy see it.
Text(b) == IF Len(cwd) > STR THEN cwd \o b ELSE cwd

-----------------------------------------------------------------------------
(* Paths.                                                                  *)

\* SdFat reads a path character by character and takes slashes in a row for one.
Take(p, c) ==
  IF c # "/" THEN [p EXCEPT !.name = Append(@, c)]
  ELSE IF p.name = <<>> THEN p
  ELSE [names |-> Append(p.names, p.name), name |-> <<>>]

\* What it has after i characters.
Read(path) ==
  LET read[i \in 0 .. Len(path)] ==
        IF i = 0 THEN [names |-> <<>>, name |-> <<>>] ELSE Take(read[i - 1], path[i])
  IN read

\* The names in a path.
Names(path) == Take(Read(path)[Len(path)], "/").names

IsDirectory(path) == path = <<"/">> \/ Names(path) \in Directories

resolve_path(here, input) ==
  IF input # <<>> /\ Head(input) = "/" THEN input
  ELSE IF here # <<>> /\ Last(here) # "/" THEN Append(here, "/") \o input
  ELSE here \o input

\* Case "..": without the slash at the end, up to the last slash.
Parent(here) ==
  LET path == IF Len(here) > 1 /\ Last(here) = "/" THEN Front(here) ELSE here
      slash == SelectLastInSeq(path, LAMBDA c : c = "/")
  IN IF slash <= 1 THEN <<"/">> ELSE SubSeq(path, 1, slash - 1)

\* Mutant: the slash at the end stays.
TargetKeepsSlash(here, path) ==
  IF path = <<".", ".">>
  THEN LET slash == SelectLastInSeq(here, LAMBDA c : c = "/")
       IN IF slash <= 1 THEN <<"/">> ELSE SubSeq(here, 1, slash - 1)
  ELSE IF path = <<".">> THEN here
  ELSE resolve_path(here, path)

Target(here, path) ==
  IF path = <<".", ".">> THEN Parent(here)
  ELSE IF path = <<".">> THEN here
  ELSE resolve_path(here, path)

\* Mutant: it is not cut.
StoredWhole(target) ==
  IF Len(target) > 1 /\ Last(target) # "/" THEN Append(target, "/") ELSE target

\* The new cwd: cut to the buffer, and a slash at the end, for which a buffer
\* that is full has no room.
Stored(target) ==
  LET s == Upto(target, STR)
  IN IF Len(s) > 1 /\ Last(s) # "/" THEN Append(s, "/") ELSE s

-----------------------------------------------------------------------------
(* Comm_process.                                                           *)

\* The guard is meant for the segment but counts bytes.
Comm_copyToHeap(h, data) ==
  LET max_len == COMM_HEAP_SIZE * INT_SIZE
      len == IF Len(data) >= max_len - 1 THEN max_len - 2 ELSE Len(data)
  IN Written(h, 1, SubSeq(data, 1, len))

\* The payload at cell 1, an empty one as its end alone.
Laid(data) ==
  IF data = <<>> THEN [global_heap EXCEPT ![1] = Nul]
  ELSE Comm_copyToHeap(global_heap, data)

\* Mutants: a listing of nothing changes nothing; the size of the buffer is
\* taken for bytes.
ListedOver(h, listing) == IF listing = <<>> THEN h ELSE Written(h, 0, listing)

ListedWide(h, listing) ==
  Written([a \in DOMAIN h |-> IF a < COMM_HEAP_SIZE * INT_SIZE THEN Nul ELSE h[a]], 0, listing)

\* A buffer of COMM_HEAP_SIZE cells at cell 0, cleared first.
Listed(h, listing) ==
  Written([a \in DOMAIN h |-> IF a < COMM_HEAP_SIZE THEN Nul ELSE h[a]], 0, listing)

\* Syscall_ls with the buffer at cell 0.  Whatever can be opened is listed; a
\* file lists nothing.
Comm_ls(data) ==
  LET args == Upto(data, STR)
      path == IF data = <<>> THEN Text(<<>>) ELSE resolve_path(Text(<<>>), args)
      names == Names(path)
      opens == IsDirectory(path) \/ names \in PlainFiles
  IN /\ \E listing \in IF names \in PlainFiles THEN {<<>>} ELSE Listings :
          global_heap' =
            IF ~opens THEN [Laid(data) EXCEPT ![0] = Failed]
            ELSE Listed(Laid(data), listing)
     /\ last' = [kind |-> "ls", payload |-> data, failed |-> ~opens,
                 error |-> global_heap'[0] = Failed]
  /\ behind' = <<>>
  /\ UNCHANGED <<cwd, dir, odd>>

\* The first and the second blank of an exec payload, 0 if there is none.
Blank(data, from) ==
  SelectInSeq([i \in 1 .. Len(data) |-> IF i < from THEN "x" ELSE data[i]],
              LAMBDA c : c = " ")

From(data, i) == SubSeq(data, i, Len(data))

\* The name of the program: between the blanks, or from the first one on.
Name(data, first, second) ==
  IF second = 0 THEN From(data, first + 1) ELSE SubSeq(data, first + 1, second - 1)

\* Name and argument are laid out anew; an empty name leaves the payload.
ExecLaid(data) ==
  LET first == Blank(data, 1)
      second == Blank(data, first + 1)
      name == Name(data, first, second)
      arg == IF second = 0 THEN <<>> ELSE From(data, second + 1)
      named == IF name = <<>> THEN Laid(data) ELSE Written(Laid(data), 1, name)
  IN IF first = 0
     THEN [heap |-> Comm_copyToHeap(Laid(data), data), wait |-> FALSE, arg_addr |-> 0]
     ELSE [heap |-> IF arg = <<>> THEN named ELSE Written(named, ARG_AT, arg),
           wait |-> Head(data) = "1",
           arg_addr |-> IF arg = <<>> THEN 0 ELSE ARG_AT]

\* Syscall_exec up to Kernel_loadTask, for which see Kernel.tla.
Comm_exec(data) ==
  LET laid == ExecLaid(data)
      name == StringAt(laid.heap, 1, {Nul, " "})
      arg == IF laid.arg_addr = 0 THEN <<>> ELSE StringAt(laid.heap, laid.arg_addr, {Nul})
  IN /\ global_heap' = laid.heap
     /\ behind' = IF laid.arg_addr = 0 THEN <<>> ELSE <<"@">>
     /\ last' = [kind |-> "exec", payload |-> data,
                 wait |-> laid.wait, name |-> name, arg |-> arg]
  /\ UNCHANGED <<cwd, dir, odd>>

\* Syscall_chdir: the path at cell 1, the result at ARG_AT, whose number is the
\* character "@" behind a full cwd until strcat puts a Nul there.
Comm_chdir(data) ==
  LET path == StringAt(Laid(data), 1, {Nul})
      target == Target(Text(<<"@">>), path)
      up == data = <<".", ".">>
      stays == data = <<".">>
      absolute == data # <<>> /\ Head(data) = "/"
      plain == /\ Len(data) <= STR /\ Len(Stored(target)) <= STR /\ Len(target) <= STR
               /\ \A i \in 1 .. Len(data) - 1 : data[i] # "/" \/ data[i + 1] # "/"
  IN \/ /\ IsDirectory(target)
        /\ cwd' = Stored(target)
        /\ behind' = IF Len(cwd') > STR THEN <<>> ELSE <<"@">>
        /\ global_heap' = Written(Laid(data), ARG_AT, Stored(target))
        /\ dir' = CASE up -> IF dir = <<>> THEN dir ELSE Front(dir)
                    [] stays -> dir
                    [] absolute -> Names(data)
                    [] OTHER -> dir \o Names(data)
        /\ odd' = (~plain \/ (~absolute /\ odd))
        /\ last' = [kind |-> "cd", payload |-> data, failed |-> FALSE,
                    error |-> global_heap'[ARG_AT] = Failed]
     \/ /\ ~IsDirectory(target)
        /\ behind' = <<"@">>
        /\ global_heap' = [Laid(data) EXCEPT ![ARG_AT] = Failed]
        /\ last' = [kind |-> "cd", payload |-> data, failed |-> TRUE,
                    error |-> global_heap'[ARG_AT] = Failed]
        /\ UNCHANGED <<cwd, dir, odd>>

\* pwd: the daemon passes no buffer and sends t->cwd itself.
Comm_getcwd ==
  /\ global_heap' = Laid(<<>>)
  /\ behind' = <<>>
  /\ last' = [kind |-> "pwd", payload |-> <<>>, reply |-> Text(<<>>)]
  /\ UNCHANGED <<cwd, dir, odd>>

Next ==
  /\ served < MaxCommands /\ served' = served + 1
  /\ \/ \E data \in Paths : Comm_ls(data)
     \/ \E data \in Commands : Comm_exec(data)
     \/ \E data \in Paths : Comm_chdir(data)
     \/ Comm_getcwd

Spec == Init /\ [][Next]_vars

-----------------------------------------------------------------------------
(* Properties.                                                             *)

\* Types; a failure is reported in the daemon's own segment only, and cwd is
\* absolute and no longer than its array.
TypeOK ==
  /\ DOMAIN global_heap = 0 .. GLOBAL_HEAP_SIZE - 1
  /\ \A a \in COMM_HEAP_SIZE .. GLOBAL_HEAP_SIZE - 1 : global_heap[a] # Failed
  /\ Len(cwd) \in 1 .. STR + 1 /\ Head(cwd) = "/"
  /\ behind \in {<<>>, <<"@">>}
  /\ dir \in Directories \cup {<<>>} \/ odd
  /\ odd \in BOOLEAN /\ served \in 0 .. MaxCommands
  /\ last.kind \in {"none", "ls", "exec", "cd", "pwd"}

\* exec is called with what the client sent: "0" or "1", the name, and what
\* follows it, each cut to its buffer, although the raw payload and what
\* earlier commands left is in the same cells.
ExecAsSent ==
  last.kind = "exec" =>
    \A n \in 1 .. Len(last.payload) - 2 :
      LET name == SubSeq(last.payload, 3, n + 2)
          rest == From(last.payload, n + 3)
      IN /\ last.payload[1] \in {"0", "1"} /\ last.payload[2] = " "
         /\ \A i \in 1 .. n : name[i] # " "
         /\ rest = <<>> \/ Head(rest) = " "
         => /\ last.wait = (last.payload[1] = "1")
            /\ last.name = Upto(name, STR)
            /\ last.arg = Upto(From(rest, 2), STR)

\* The daemon reports an error exactly when ls or cd failed, although the cell
\* it looks at may hold the -1 of an earlier command.
ReportsFailure == last.kind \in {"ls", "cd"} => last.error = last.failed

\* A command that fits behind the second operand changes no cell of others.
SegmentKept ==
  [][Len(last'.payload) <= COMM_HEAP_SIZE - ARG_AT =>
       \A a \in COMM_HEAP_SIZE .. GLOBAL_HEAP_SIZE - 1 :
         global_heap'[a] = global_heap[a]]_vars

\* Comm_copyToHeap says it copies into the heap of task 0: whatever the
\* payload, the cells of the other tasks are left alone.
OthersUntouched ==
  \A a \in COMM_HEAP_SIZE .. GLOBAL_HEAP_SIZE - 1 : global_heap[a] = Foreign

\* cwd is the directory that the cds since the root lead to: "..", ".",
\* absolute and relative paths, with and without a slash at the end, as
\* long as none of them was too long or had an empty name.
FollowsPath == ~odd => Names(cwd) = dir /\ Len(cwd) <= STR
=============================================================================
