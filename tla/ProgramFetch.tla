---------------------------- MODULE ProgramFetch ----------------------------
(***************************************************************************)
(* What a program may expect of the instruction stream the kernel gives    *)
(* it: the bytes of its file in order from the program counter, as if the  *)
(* whole file were in memory, wherever it jumps, and no end before the     *)
(* program's.  After an ls of a directory that is not there the end may    *)
(* come sooner, and after a failure of the card nothing is promised until  *)
(* the program ends.  CodeStream.tla, which has 32 bytes of the file,      *)
(* implements this.                                                        *)
(***************************************************************************)
EXTENDS Integers, Sequences

CONSTANT CodeLens  \* lengths of the programs, without the header

HEADER_SIZE == 4   \* bytes of the file in front of address 0

VARIABLES
  active,    \* the task is not FREE
  code_len,  \* length of the program
  pc,        \* address of the next byte
  promise,   \* "all": every byte of the program will come; "some": those that
             \* come are right, but they may stop; "none"
  fetched    \* the bytes the last instruction was made of

vars == <<active, code_len, pc, promise, fetched>>

Init ==
  /\ active = FALSE /\ code_len \in CodeLens
  /\ pc = 0 /\ promise = "all" /\ fetched = <<>>

Load ==
  /\ ~active
  /\ active' = TRUE /\ code_len' \in CodeLens
  /\ promise' \in {"all", "none"}
  /\ pc' = 0 /\ fetched' = <<>>

\* n bytes: those of the program, as far as it goes.
Fetch(n) ==
  /\ active /\ promise # "none"
  /\ fetched' \in Seq(Int) /\ Len(fetched') = n
  /\ \A k \in 1 .. n : pc + k - 1 < code_len => fetched'[k] = pc + k - 1
  /\ UNCHANGED code_len

\* An instruction, after which the program goes on at the next one or where
\* it jumps.
Advance ==
  \E n \in {1, 3} :
    /\ Fetch(n)
    /\ pc' = pc + n
    /\ UNCHANGED <<active, promise>>

Jump ==
  /\ Fetch(3)
  /\ pc' \in -HEADER_SIZE .. code_len
  /\ UNCHANGED <<active, promise>>

\* ls of a directory that is not there.
BadLs ==
  /\ Fetch(1)
  /\ pc' = pc + 1
  /\ promise' = "some"
  /\ UNCHANGED active

Ends == active' = FALSE /\ pc' = 0 /\ promise' = "all"

\* The task ends by an instruction of its own, or for want of bytes.
Exit == Fetch(1) /\ Ends

RunsOut ==
  \E n \in 0 .. 2 :
    /\ Fetch(n) /\ Ends
    /\ promise = "some" \/ pc + n >= code_len

\* The card fails, or has failed.
Astray ==
  /\ active
  /\ promise' = "none"
  /\ active' \in BOOLEAN
  /\ pc' = 0 /\ fetched' \in Seq(Int)
  /\ UNCHANGED code_len

Next == Load \/ Advance \/ Jump \/ BadLs \/ Exit \/ RunsOut \/ Astray

Spec == Init /\ [][Next]_vars
=============================================================================
