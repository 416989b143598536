-------------------------- MODULE CodeStreamProofs --------------------------
(***************************************************************************)
(* Proof that the kernel's window on the program file implements           *)
(* ProgramFetch, for every buffer size and program, wherever it jumps,     *)
(* whatever ls finds and whenever the card fails.                          *)
(***************************************************************************)
EXTENDS CodeStream, TLAPS

\* A running task whose stream is at p.
At(t, p) ==
  /\ t \in TaskType(code_len) /\ t.active /\ ~t.lost
  /\ t.file_open \/ t.buffer_index < CODE_BUFFER_SIZE =>
       IF p < code_len THEN StreamAt(t, p) ELSE t.position = FileSize(code_len)

\* A task that ended and has not lost its file.
Ended(t) == t \in TaskType(code_len) /\ ~t.active /\ ~t.lost /\ ~t.file_open

\* What holds between instructions.
IInv ==
  /\ code_len \in CodeLens
  /\ task \in TaskType(code_len)
  /\ pc \in Int /\ pc >= -HEADER_SIZE
  /\ fetched \in Seq(Int)
  /\ task.active /\ ~task.lost => At(task, pc)

\* n bytes that are those of the program from pc on, as far as it goes.
Right(b, n) ==
  /\ b \in Seq(Int) /\ Len(b) = n
  /\ \A k \in 1 .. n : pc + k - 1 < code_len => b[k] = pc + k - 1

-----------------------------------------------------------------------------
(* The file.                                                               *)

LEMMA Sizes ==
  ASSUME NEW len \in Nat
  PROVE  /\ CODE_BUFFER_SIZE \in Nat /\ CODE_BUFFER_SIZE > 0
         /\ HEADER_SIZE = 4 /\ STALE = -5 /\ FileSize(len) = len + 4
BY StreamAssumption DEF HEADER_SIZE, STALE, FileSize

\* A read puts the bytes from the position on at the start of the buffer,
\* as many as there are and have room, or loses the task's file.
LEMMA ReadsCases ==
  ASSUME NEW len \in Nat, NEW t \in TaskType(len), NEW r \in Reads(t, len)
  PROVE  /\ r \in TaskType(len) /\ r.active = t.active
         /\ r.file_open = t.file_open /\ r.buffer_index = t.buffer_index
         /\ ~r.lost =>
              /\ ~t.lost
              /\ r.position - t.position \in 0 .. CODE_BUFFER_SIZE
              /\ r.position - t.position < CODE_BUFFER_SIZE => r.position = FileSize(len)
              /\ \A k \in 0 .. r.position - t.position - 1 :
                   r.code_buffer[k] = t.position + k - HEADER_SIZE
<1> DEFINE left == FileSize(len) - t.position
           n == IF left < CODE_BUFFER_SIZE THEN left ELSE CODE_BUFFER_SIZE
<1>1. /\ CODE_BUFFER_SIZE \in Nat /\ HEADER_SIZE = 4 /\ STALE \in Int
      /\ FileSize(len) \in Nat /\ t.position \in 0 .. FileSize(len)
      /\ t.code_buffer \in [Slots -> Int]
  BY Sizes DEF TaskType
<1>2. /\ n \in 0 .. CODE_BUFFER_SIZE
      /\ t.position + n \in 0 .. FileSize(len)
      /\ n < CODE_BUFFER_SIZE => t.position + n = FileSize(len)
  BY <1>1
<1>3. \/ r = ReadBytes(t, n) /\ ~t.lost
      \/ \E k \in 0 .. n : r = Lose([t EXCEPT !.position = @ + k])
  BY <1>2 DEF Reads
<1> HIDE DEF n
<1>4. CASE r = ReadBytes(t, n) /\ ~t.lost
  <2> DEFINE buf == [k \in Slots |-> IF k < n THEN t.position + k - HEADER_SIZE
                                     ELSE t.code_buffer[k]]
  <2>1. r = [t EXCEPT !.code_buffer = buf, !.position = t.position + n]
    BY <1>4 DEF ReadBytes
  <2>2. buf \in [Slots -> Int]
    BY <1>1, <1>2 DEF Slots
  <2>3. \A k \in 0 .. n - 1 : buf[k] = t.position + k - HEADER_SIZE
    BY <1>1, <1>2 DEF Slots
  <2> HIDE DEF buf
  <2>4. /\ r \in TaskType(len) /\ r.active = t.active /\ r.file_open = t.file_open
        /\ r.buffer_index = t.buffer_index
        /\ r.position = t.position + n /\ r.code_buffer = buf
    BY <1>2, <2>1, <2>2 DEF TaskType
  <2>5. r.position - t.position = n
    BY <1>1, <1>2, <2>4
  <2> QED BY <1>2, <1>4, <2>3, <2>4, <2>5
<1>5. CASE \E k \in 0 .. n : r = Lose([t EXCEPT !.position = @ + k])
  <2>1. PICK k \in 0 .. n : r = Lose([t EXCEPT !.position = @ + k])
    BY <1>5
  <2>2. t.position + k \in 0 .. FileSize(len)
    BY <1>1, <1>2
  <2>3. [s \in Slots |-> STALE] \in [Slots -> Int]
    BY <1>1
  <2>4. r = [t EXCEPT !.position = t.position + k, !.lost = TRUE,
                      !.code_buffer = [s \in Slots |-> STALE]]
    BY <2>1 DEF Lose
  <2> QED BY <2>2, <2>3, <2>4 DEF TaskType
<1> QED BY <1>3, <1>4, <1>5

LEMMA LoseType ==
  ASSUME NEW len \in Nat, NEW t \in TaskType(len)
  PROVE  /\ Lose(t) \in TaskType(len) /\ Lose(t).lost
         /\ Lose(t).active = t.active /\ Lose(t).file_open = t.file_open
         /\ Lose(t).position = t.position /\ Lose(t).buffer_index = t.buffer_index
<1>1. [s \in Slots |-> STALE] \in [Slots -> Int]
  BY Sizes
<1> QED BY <1>1 DEF Lose, TaskType

LEMMA TerminateType ==
  ASSUME NEW t \in TaskType(code_len)
  PROVE  LET r == Kernel_terminateTask(t)
         IN r \in TaskType(code_len) /\ ~r.active /\ ~r.file_open /\ r.lost = t.lost
BY DEF Kernel_terminateTask, TaskType

\* A seek moves the file, or not, or loses it.
LEMMA SeekCases ==
  ASSUME code_len \in Nat, NEW t \in TaskType(code_len), NEW p \in Int, NEW r \in Seek(t, p)
  PROVE  /\ r \in TaskType(code_len) /\ r.active = t.active /\ r.file_open = t.file_open
         /\ r.buffer_index = t.buffer_index
         /\ t.lost => r.lost
         /\ ~r.lost =>
              \/ t.file_open /\ p \in 0 .. FileSize(code_len) /\ r = [t EXCEPT !.position = p]
              \/ ~(t.file_open /\ p \in 0 .. FileSize(code_len)) /\ r = t
<1>1. CASE r = Lose(t)
  BY <1>1, LoseType
<1>2. CASE r = t /\ ~(t.file_open /\ p \in 0 .. FileSize(code_len))
  BY <1>2
<1>3. CASE /\ r = [t EXCEPT !.position = p]
           /\ t.file_open /\ p \in 0 .. FileSize(code_len)
  BY <1>3 DEF TaskType
<1> QED BY <1>1, <1>2, <1>3 DEF Seek

-----------------------------------------------------------------------------
(* Fetching.                                                               *)

\* A refill reads, or ends the task if the file is closed or at its end.
LEMMA RefillCases ==
  ASSUME code_len \in Nat, NEW t \in TaskType(code_len),
         NEW r \in Kernel_refillBuffer(t)
  PROVE  /\ r \in TaskType(code_len)
         /\ r.active => t.active /\ r.buffer_index = 0
         /\ t.lost => r.lost
         /\ ~r.lost =>
              IF t.file_open /\ t.position < FileSize(code_len)
              THEN /\ r.active = t.active /\ r.file_open
                   /\ r.position - t.position \in 1 .. CODE_BUFFER_SIZE
                   /\ r.position - t.position < CODE_BUFFER_SIZE =>
                        r.position = FileSize(code_len)
                   /\ \A k \in 0 .. r.position - t.position - 1 :
                        r.code_buffer[k] = t.position + k - HEADER_SIZE
              ELSE Ended(r)
<1>1. CASE t.file_open /\ t.position < FileSize(code_len)
  <2>1. PICK s \in Reads(t, code_len) : r = [s EXCEPT !.buffer_index = 0]
    BY <1>1 DEF Kernel_refillBuffer
  <2>2. /\ s \in TaskType(code_len) /\ s.active = t.active /\ s.file_open
        /\ ~s.lost =>
             /\ ~t.lost
             /\ s.position - t.position \in 0 .. CODE_BUFFER_SIZE
             /\ s.position - t.position < CODE_BUFFER_SIZE => s.position = FileSize(code_len)
             /\ \A k \in 0 .. s.position - t.position - 1 :
                  s.code_buffer[k] = t.position + k - HEADER_SIZE
    BY <1>1, ReadsCases
  <2>3. CODE_BUFFER_SIZE \in Nat /\ CODE_BUFFER_SIZE > 0 /\ 0 \in 0 .. CODE_BUFFER_SIZE
    BY Sizes
  <2>4. /\ r \in TaskType(code_len) /\ r.active = s.active /\ r.file_open = s.file_open
        /\ r.buffer_index = 0 /\ r.position = s.position
        /\ r.code_buffer = s.code_buffer /\ r.lost = s.lost
    BY <2>1, <2>2, <2>3 DEF TaskType
  <2>5. s.position \in Int /\ t.position \in Int
    BY <2>2 DEF TaskType
  <2>6. ~s.lost => s.position - t.position # 0
    BY <1>1, <2>2, <2>3, <2>5
  <2> QED BY <1>1, <2>2, <2>3, <2>4, <2>5, <2>6
<1>2. CASE ~(t.file_open /\ t.position < FileSize(code_len))
  <2>1. r = Kernel_terminateTask(t)
    BY <1>2 DEF Kernel_refillBuffer
  <2> QED BY <1>2, <2>1, TerminateType DEF Ended
<1> QED BY <1>1, <1>2

\* Taking a byte out of a buffer that has one.
LEMMA TakeByte ==
  ASSUME code_len \in Nat, NEW r \in TaskType(code_len),
         r.buffer_index < CODE_BUFFER_SIZE
  PROVE  LET s == [r EXCEPT !.buffer_index = @ + 1]
         IN /\ s \in TaskType(code_len) /\ s.active = r.active
            /\ s.file_open = r.file_open /\ s.lost = r.lost
            /\ s.position = r.position /\ s.code_buffer = r.code_buffer
            /\ s.buffer_index = r.buffer_index + 1
            /\ r.code_buffer[r.buffer_index] \in Int
<1>1. /\ CODE_BUFFER_SIZE \in Nat /\ r.buffer_index \in 0 .. CODE_BUFFER_SIZE
      /\ r.code_buffer \in [Slots -> Int]
  BY Sizes DEF TaskType
<1>2. r.buffer_index \in Slots /\ r.buffer_index + 1 \in 0 .. CODE_BUFFER_SIZE
  BY <1>1 DEF Slots
<1>3. r.code_buffer[r.buffer_index] \in Int
  BY <1>1, <1>2
<1> QED BY <1>2, <1>3 DEF TaskType

\* A task that has lost its file stays so.
LEMMA FetchByteLost ==
  ASSUME code_len \in Nat, NEW t \in TaskType(code_len), t.lost,
         NEW b \in Seq(Int), NEW f \in VM_fetchByte([task |-> t, bytes |-> b])
  PROVE  f.task \in TaskType(code_len) /\ f.task.lost /\ f.bytes \in Seq(Int)
<1>1. PICK r \in IF t.buffer_index >= CODE_BUFFER_SIZE
                 THEN Kernel_refillBuffer(t) ELSE {t} :
        f = IF r.active
            THEN [task  |-> [r EXCEPT !.buffer_index = @ + 1],
                  bytes |-> Append(b, r.code_buffer[r.buffer_index])]
            ELSE [task |-> r, bytes |-> b]
  BY DEF VM_fetchByte
<1>2. CODE_BUFFER_SIZE \in Nat /\ t.buffer_index \in 0 .. CODE_BUFFER_SIZE
  BY Sizes DEF TaskType
<1>3. r \in TaskType(code_len) /\ r.lost /\ (r.active => r.buffer_index < CODE_BUFFER_SIZE)
  <2>1. CASE t.buffer_index < CODE_BUFFER_SIZE
    BY <1>1, <1>2, <2>1
  <2>2. CASE t.buffer_index >= CODE_BUFFER_SIZE
    BY <1>1, <1>2, <2>2, Sizes, RefillCases
  <2> QED BY <1>2, <2>1, <2>2
<1>4. CASE ~r.active
  BY <1>1, <1>3, <1>4
<1>5. CASE r.active
  <2> DEFINE s == [r EXCEPT !.buffer_index = @ + 1]
             x == r.code_buffer[r.buffer_index]
  <2>1. f = [task |-> s, bytes |-> Append(b, x)]
    BY <1>1, <1>5
  <2>2. s \in TaskType(code_len) /\ s.lost /\ x \in Int
    BY <1>3, <1>5, TakeByte
  <2> HIDE DEF s, x
  <2> QED BY <2>1, <2>2
<1> QED BY <1>4, <1>5

\* The next byte of a running task: the program's, if it has one there, unless
\* the task loses its file, or ends because there are no more bytes.
LEMMA FetchByteAt ==
  ASSUME code_len \in Nat, NEW t, NEW p \in Int, At(t, p), NEW b \in Seq(Int),
         NEW f \in VM_fetchByte([task |-> t, bytes |-> b])
  PROVE  /\ f.task \in TaskType(code_len) /\ f.bytes \in Seq(Int)
         /\ \/ f.task.lost
            \/ /\ At(f.task, p + 1) /\ f.task.file_open = t.file_open
               /\ \E x \in Int : f.bytes = Append(b, x) /\ (p < code_len => x = p)
            \/ /\ Ended(f.task) /\ f.bytes = b
               /\ ~t.file_open \/ p >= code_len
<1>1. PICK r \in IF t.buffer_index >= CODE_BUFFER_SIZE
                 THEN Kernel_refillBuffer(t) ELSE {t} :
        f = IF r.active
            THEN [task  |-> [r EXCEPT !.buffer_index = @ + 1],
                  bytes |-> Append(b, r.code_buffer[r.buffer_index])]
            ELSE [task |-> r, bytes |-> b]
  BY DEF VM_fetchByte
<1>2. /\ CODE_BUFFER_SIZE \in Nat /\ CODE_BUFFER_SIZE > 0 /\ HEADER_SIZE = 4
      /\ FileSize(code_len) = code_len + 4
      /\ t \in TaskType(code_len) /\ t.active /\ ~t.lost
      /\ t.buffer_index \in 0 .. CODE_BUFFER_SIZE /\ t.position \in Int
      /\ t.position <= code_len + 4
  BY Sizes DEF At, TaskType
\* The task whose buffer holds the byte, refilled if it has to be.
<1> DEFINE Ready(s) ==
      /\ s.file_open = t.file_open
      /\ s.buffer_index < CODE_BUFFER_SIZE
      /\ IF p < code_len
         THEN /\ s.position - 4 - p \in 1 .. CODE_BUFFER_SIZE - s.buffer_index
              /\ s.position - 4 - p < CODE_BUFFER_SIZE - s.buffer_index =>
                   s.position = FileSize(code_len)
              /\ \A k \in 0 .. s.position - 4 - p - 1 :
                   s.code_buffer[s.buffer_index + k] = p + k
         ELSE s.position = FileSize(code_len)
<1>3. /\ r \in TaskType(code_len)
      /\ r.active => r.buffer_index < CODE_BUFFER_SIZE
      /\ \/ r.lost
         \/ r.active /\ ~r.lost /\ Ready(r)
         \/ Ended(r) /\ (~t.file_open \/ p >= code_len)
  <2>1. CASE t.buffer_index < CODE_BUFFER_SIZE
    <3>1. r = t
      BY <1>1, <1>2, <2>1
    <3>2. p < code_len => t.position - 4 - p # 0
      BY <1>2, <2>1 DEF At, StreamAt
    <3> QED BY <1>2, <2>1, <3>1, <3>2 DEF At, StreamAt
  <2>2. CASE t.buffer_index >= CODE_BUFFER_SIZE
    <3>1. r \in Kernel_refillBuffer(t) /\ t.buffer_index = CODE_BUFFER_SIZE
      BY <1>1, <1>2, <2>2
    <3>2. /\ r \in TaskType(code_len)
          /\ r.active => r.buffer_index = 0
          /\ ~r.lost =>
               IF t.file_open /\ t.position < FileSize(code_len)
               THEN /\ r.active /\ r.file_open
                    /\ r.position - t.position \in 1 .. CODE_BUFFER_SIZE
                    /\ r.position - t.position < CODE_BUFFER_SIZE =>
                         r.position = FileSize(code_len)
                    /\ \A k \in 0 .. r.position - t.position - 1 :
                         r.code_buffer[k] = t.position + k - HEADER_SIZE
               ELSE Ended(r)
      BY <1>2, <3>1, RefillCases
    <3>3. t.file_open => IF p < code_len THEN t.position = p + 4
                         ELSE t.position = FileSize(code_len)
      BY <1>2, <3>1 DEF At, StreamAt
    <3>4. CASE r.lost
      BY <1>2, <3>2, <3>4
    <3>5. CASE ~r.lost /\ t.file_open /\ p < code_len
      <4>1. t.position = p + 4 /\ t.position < FileSize(code_len)
        BY <1>2, <3>3, <3>5
      <4>2. /\ r.active /\ r.file_open /\ r.buffer_index = 0
            /\ r.position - (p + 4) \in 1 .. CODE_BUFFER_SIZE
            /\ r.position - (p + 4) < CODE_BUFFER_SIZE => r.position = FileSize(code_len)
            /\ \A k \in 0 .. r.position - (p + 4) - 1 :
                 r.code_buffer[k] = (p + 4) + k - 4
        BY <1>2, <3>2, <3>5, <4>1
      <4>3. r.position \in Int /\ r.position - (p + 4) = r.position - 4 - p
        BY <1>2, <3>2 DEF TaskType
      <4>4. \A k \in 0 .. r.position - 4 - p - 1 : r.code_buffer[0 + k] = p + k
        <5> TAKE k \in 0 .. r.position - 4 - p - 1
        <5>1. k \in 0 .. r.position - (p + 4) - 1 /\ k \in Int /\ 0 + k = k
          BY <4>3
        <5>2. r.code_buffer[k] = (p + 4) + k - 4
          BY <4>2, <5>1
        <5> QED BY <5>1, <5>2
      <4> QED BY <1>2, <3>2, <3>5, <4>2, <4>3, <4>4
    <3>6. CASE ~r.lost /\ (~t.file_open \/ p >= code_len)
      <4>1. ~(t.file_open /\ t.position < FileSize(code_len))
        BY <1>2, <3>3, <3>6
      <4> QED BY <1>2, <3>2, <3>6, <4>1
    <3> QED BY <1>2, <3>4, <3>5, <3>6
  <2> QED BY <1>2, <2>1, <2>2
<1> HIDE DEF Ready
<1>4. CASE ~r.active
  BY <1>1, <1>3, <1>4
<1>5. CASE r.active
  <2> DEFINE x == r.code_buffer[r.buffer_index]
  <2>0. PICK s : s = [r EXCEPT !.buffer_index = @ + 1]
    OBVIOUS
  <2>1. f = [task |-> s, bytes |-> Append(b, x)]
    BY <1>1, <1>5, <2>0
  <2>2. /\ s \in TaskType(code_len) /\ s.active
        /\ s.file_open = r.file_open /\ s.lost = r.lost
        /\ s.position = r.position /\ s.code_buffer = r.code_buffer
        /\ s.buffer_index = r.buffer_index + 1
        /\ x \in Int
    BY <1>3, <1>5, <2>0, TakeByte
  <2> HIDE DEF x
  <2>3. f.task = s /\ f.bytes = Append(b, x) /\ f.bytes \in Seq(Int)
    BY <2>1, <2>2
  <2>4. CASE r.lost
    BY <2>2, <2>3, <2>4
  <2>5. CASE ~r.lost
    <3>1. Ready(r)
      BY <1>3, <1>5, <2>5 DEF Ended
    <3>2. /\ r.buffer_index \in Nat /\ r.position \in Nat
          /\ r.position <= code_len + 4
      BY <1>2, <1>3 DEF TaskType
    <3>6. /\ s.position = r.position /\ s.buffer_index = r.buffer_index + 1
          /\ s.position \in Int /\ s.buffer_index \in Int
      BY <2>2, <3>2
    <3>3. p < code_len => x = p
      <4>1. HAVE p < code_len
      <4>2. 0 \in 0 .. r.position - 4 - p - 1
        BY <3>1, <3>2, <4>1, <1>2 DEF Ready
      <4>3. r.code_buffer[r.buffer_index + 0] = p + 0
        BY <3>1, <4>1, <4>2 DEF Ready
      <4> QED BY <3>2, <4>3 DEF x
    <3>4. CASE ~(p < code_len)
      <4>1. s.position = FileSize(code_len) /\ ~(p + 1 < code_len)
        BY <2>2, <3>1, <3>4 DEF Ready
      <4> QED BY <2>2, <2>3, <2>5, <3>1, <3>3, <4>1 DEF At, Ready
    <3>5. CASE p < code_len
      <4>0. /\ r.buffer_index \in Int /\ r.position \in Int
            /\ FileSize(code_len) \in Int /\ CODE_BUFFER_SIZE \in Int
        BY <1>2, <3>2
      <4>1. PICK i \in Int, n \in Int : /\ i = r.buffer_index /\ n = r.position - 4 - p
                                        /\ r.position = p + 4 + n
        <5>1. \A q \in Int : q = p + 4 + (q - 4 - p) /\ q - 4 - p \in Int
          OBVIOUS
        <5> QED BY <4>0, <5>1
      <4>2. /\ n \in 1 .. CODE_BUFFER_SIZE - i
            /\ n < CODE_BUFFER_SIZE - i => r.position = FileSize(code_len)
            /\ \A k \in 0 .. n - 1 : r.code_buffer[i + k] = p + k
        BY <3>1, <3>5, <4>1 DEF Ready
      <4>3. /\ n - 1 \in 0 .. CODE_BUFFER_SIZE - (i + 1)
            /\ n - 1 < CODE_BUFFER_SIZE - (i + 1) => r.position = FileSize(code_len)
            /\ \A k \in 0 .. n - 1 - 1 : r.code_buffer[i + 1 + k] = p + 1 + k
        <5>1. /\ n - 1 \in 0 .. CODE_BUFFER_SIZE - (i + 1)
              /\ n - 1 < CODE_BUFFER_SIZE - (i + 1) => n < CODE_BUFFER_SIZE - i
          BY <4>0, <4>2
        <5>2. ASSUME NEW k \in 0 .. n - 1 - 1
              PROVE  r.code_buffer[i + 1 + k] = p + 1 + k
          <6>1. /\ k + 1 \in 0 .. n - 1
                /\ i + (k + 1) = i + 1 + k /\ p + (k + 1) = p + 1 + k
            OBVIOUS
          <6>2. r.code_buffer[i + (k + 1)] = p + (k + 1)
            BY <4>2, <6>1
          <6> QED BY <6>1, <6>2
        <5> QED BY <4>2, <5>1, <5>2
      <4>4. /\ s.buffer_index = i + 1 /\ s.position - HEADER_SIZE - (p + 1) = n - 1
            /\ s.code_buffer = r.code_buffer /\ s.position = r.position
        <5>1. p + 4 + n - 4 - (p + 1) = n - 1
          OBVIOUS
        <5>2. s.buffer_index = i + 1 /\ s.position = p + 4 + n
          BY <2>2, <4>1
        <5>3. s.position - HEADER_SIZE - (p + 1) = n - 1
          BY <1>2, <5>1, <5>2
        <5> QED BY <2>2, <5>2, <5>3
      <4>5. StreamAt(s, p + 1)
        BY <4>3, <4>4 DEF StreamAt
      <4>6. ~(p + 1 < code_len) => s.position = FileSize(code_len)
        <5>1. p + 1 >= code_len => p + 4 + n >= code_len + 4
          BY <1>2, <4>2
        <5>2. r.position = p + 4 + n
          BY <4>1
        <5> QED BY <1>2, <3>2, <4>4, <5>1, <5>2
      <4>7. At(s, p + 1)
        BY <2>2, <2>5, <4>5, <4>6 DEF At
      <4> QED BY <2>2, <2>3, <3>1, <3>3, <4>7 DEF Ready
    <3> QED BY <3>4, <3>5
  <2> QED BY <2>4, <2>5
<1> QED BY <1>4, <1>5

LEMMA RightAppend ==
  ASSUME NEW n \in Nat, NEW b, Right(b, n), NEW x \in Int, pc \in Int,
         pc + n < code_len => x = pc + n
  PROVE  Right(Append(b, x), n + 1)
<1>1. /\ Append(b, x) \in Seq(Int) /\ Len(Append(b, x)) = n + 1
      /\ \A k \in 1 .. n : Append(b, x)[k] = b[k]
      /\ Append(b, x)[n + 1] = x
  BY DEF Right
<1>2. ASSUME NEW k \in 1 .. n + 1, pc + k - 1 < code_len
      PROVE  Append(b, x)[k] = pc + k - 1
  <2>1. CASE k \in 1 .. n
    BY <1>1, <1>2, <2>1 DEF Right
  <2>2. CASE k = n + 1
    <3>1. pc + k - 1 = pc + n
      BY <2>2
    <3> QED BY <1>1, <1>2, <2>2, <3>1
  <2>3. k \in 1 .. n \/ k = n + 1
    OBVIOUS
  <2> QED BY <2>1, <2>2, <2>3
<1> QED BY <1>1, <1>2 DEF Right

\* Where a running task is after it has fetched n bytes from pc on: further,
\* or lost, or ended for want of bytes.
Fetched(f, n) ==
  /\ f = [task |-> f.task, bytes |-> f.bytes]
  /\ f.task \in TaskType(code_len) /\ f.bytes \in Seq(Int)
  /\ \/ f.task.lost
     \/ At(f.task, pc + n) /\ f.task.file_open = task.file_open /\ Right(f.bytes, n)
     \/ /\ Ended(f.task)
        /\ \E m \in 0 .. n - 1 :
             Right(f.bytes, m) /\ (~task.file_open \/ pc + m >= code_len)

LEMMA FetchedNext ==
  ASSUME code_len \in Nat, pc \in Int, NEW n \in Nat, NEW e, Fetched(e, n),
         NEW f \in VM_fetchByte(e)
  PROVE  Fetched(f, n + 1)
<1>1. /\ f = [task |-> f.task, bytes |-> f.bytes]
      /\ f \in VM_fetchByte([task |-> e.task, bytes |-> e.bytes])
      /\ e.task \in TaskType(code_len) /\ e.bytes \in Seq(Int)
  <2>1. f = [task |-> f.task, bytes |-> f.bytes]
    BY DEF VM_fetchByte
  <2>2. e = [task |-> e.task, bytes |-> e.bytes]
    BY DEF Fetched
  <2>3. f \in VM_fetchByte([task |-> e.task, bytes |-> e.bytes])
    BY <2>2
  <2> QED BY <2>1, <2>3 DEF Fetched
<1>2. CASE e.task.lost
  BY <1>1, <1>2, FetchByteLost DEF Fetched
<1>3. CASE At(e.task, pc + n) /\ e.task.file_open = task.file_open /\ Right(e.bytes, n)
  <2>1. pc + n \in Int /\ (pc + n) + 1 = pc + (n + 1) /\ n \in 0 .. (n + 1) - 1
    OBVIOUS
  <2>2. /\ f.task \in TaskType(code_len) /\ f.bytes \in Seq(Int)
        /\ \/ f.task.lost
           \/ /\ At(f.task, (pc + n) + 1) /\ f.task.file_open = e.task.file_open
              /\ \E x \in Int : f.bytes = Append(e.bytes, x) /\ (pc + n < code_len => x = pc + n)
           \/ /\ Ended(f.task) /\ f.bytes = e.bytes
              /\ ~e.task.file_open \/ pc + n >= code_len
    BY <1>1, <1>3, <2>1, FetchByteAt
  <2>3. CASE f.task.lost
    BY <1>1, <2>2, <2>3 DEF Fetched
  <2>4. CASE /\ At(f.task, (pc + n) + 1) /\ f.task.file_open = e.task.file_open
             /\ \E x \in Int : f.bytes = Append(e.bytes, x) /\ (pc + n < code_len => x = pc + n)
    <3>1. Right(f.bytes, n + 1)
      BY <1>3, <2>4, RightAppend
    <3> QED BY <1>1, <1>3, <2>1, <2>2, <2>4, <3>1 DEF Fetched
  <2>5. CASE /\ Ended(f.task) /\ f.bytes = e.bytes
             /\ ~e.task.file_open \/ pc + n >= code_len
    BY <1>1, <1>3, <2>1, <2>2, <2>5 DEF Fetched
  <2> QED BY <2>2, <2>3, <2>4, <2>5
<1>4. CASE Ended(e.task)
  <2>1. PICK m \in 0 .. n - 1 :
          Right(e.bytes, m) /\ (~task.file_open \/ pc + m >= code_len)
    BY <1>4 DEF Fetched, Ended, At
  <2>2. f.task = e.task /\ f.bytes = e.bytes
    <3>1. PICK r \in IF e.task.buffer_index >= CODE_BUFFER_SIZE
                     THEN Kernel_refillBuffer(e.task) ELSE {e.task} :
            f = IF r.active
                THEN [task  |-> [r EXCEPT !.buffer_index = @ + 1],
                      bytes |-> Append(e.bytes, r.code_buffer[r.buffer_index])]
                ELSE [task |-> r, bytes |-> e.bytes]
      BY DEF VM_fetchByte
    <3>2. Kernel_terminateTask(e.task) = e.task
      BY <1>4 DEF Kernel_terminateTask, Ended, TaskType
    <3>3. r = e.task
      BY <1>4, <3>1, <3>2 DEF Kernel_refillBuffer, Ended
    <3> QED BY <1>4, <3>1, <3>3 DEF Ended
  <2>3. m \in 0 .. (n + 1) - 1
    OBVIOUS
  <2> QED BY <1>1, <1>4, <2>1, <2>2, <2>3 DEF Fetched
<1> QED BY <1>2, <1>3, <1>4 DEF Fetched

\* The opcode of an instruction, and its operand.
LEMMA FetchOpcodeAt ==
  ASSUME IInv, task.active, ~task.lost, NEW f \in FetchOpcode
  PROVE  Fetched(f, 1)
<1>1. code_len \in Nat /\ pc \in Int
  BY StreamAssumption DEF IInv
<1>2. Fetched([task |-> task, bytes |-> <<>>], 0)
  <2>1. Right(<<>>, 0) /\ <<>> \in Seq(Int)
    BY DEF Right
  <2>2. pc + 0 = pc
    BY <1>1
  <2>3. At(task, pc + 0) /\ task \in TaskType(code_len)
    BY <2>2 DEF IInv
  <2>4. PICK e : e = [task |-> task, bytes |-> <<>>]
    OBVIOUS
  <2>5. e.task = task /\ e.bytes = <<>> /\ e = [task |-> e.task, bytes |-> e.bytes]
    BY <2>4
  <2>6. Fetched(e, 0)
    BY <2>1, <2>3, <2>5 DEF Fetched
  <2> QED BY <2>4, <2>6
<1> QED BY <1>1, <1>2, FetchedNext DEF FetchOpcode

LEMMA FetchIntAt ==
  ASSUME IInv, task.active, ~task.lost, NEW f \in FetchOpcode, NEW g \in FetchInt(f)
  PROVE  Fetched(g, 3)
<1>1. code_len \in Nat /\ pc \in Int
  BY StreamAssumption DEF IInv
<1>2. PICK h \in VM_fetchByte(f) : g \in VM_fetchByte(h)
  BY DEF FetchInt
<1>3. Fetched(h, 2)
  BY <1>1, <1>2, FetchOpcodeAt, FetchedNext
<1> QED BY <1>1, <1>2, <1>3, FetchedNext

\* The same of a task that has lost its file.
LEMMA FetchLost ==
  ASSUME IInv, task.lost, NEW f \in FetchOpcode
  PROVE  /\ f.task \in TaskType(code_len) /\ f.task.lost /\ f.bytes \in Seq(Int)
         /\ f = [task |-> f.task, bytes |-> f.bytes]
         /\ \A g \in FetchInt(f) :
              /\ g.task \in TaskType(code_len) /\ g.task.lost /\ g.bytes \in Seq(Int)
              /\ g = [task |-> g.task, bytes |-> g.bytes]
<1>1. code_len \in Nat /\ task \in TaskType(code_len) /\ <<>> \in Seq(Int)
  BY StreamAssumption DEF IInv
<1>2. f = [task |-> f.task, bytes |-> f.bytes]
  BY DEF FetchOpcode, VM_fetchByte
<1>3. f.task \in TaskType(code_len) /\ f.task.lost /\ f.bytes \in Seq(Int)
  BY <1>1, FetchByteLost DEF FetchOpcode
<1>4. ASSUME NEW g \in FetchInt(f)
      PROVE  /\ g.task \in TaskType(code_len) /\ g.task.lost /\ g.bytes \in Seq(Int)
             /\ g = [task |-> g.task, bytes |-> g.bytes]
  <2>1. PICK h \in VM_fetchByte(f) : g \in VM_fetchByte(h)
    BY DEF FetchInt
  <2>2. /\ h = [task |-> h.task, bytes |-> h.bytes]
        /\ g = [task |-> g.task, bytes |-> g.bytes]
    BY <2>1 DEF VM_fetchByte
  <2>3. h.task \in TaskType(code_len) /\ h.task.lost /\ h.bytes \in Seq(Int)
    BY <1>1, <1>2, <1>3, <2>1, FetchByteLost
  <2> QED BY <1>1, <2>1, <2>2, <2>3, FetchByteLost
<1> QED BY <1>2, <1>3, <1>4

-----------------------------------------------------------------------------
(* Jumps and ls.                                                           *)

\* After a jump the buffer is empty, and the program goes on where the file is.
LEMMA JumpAt ==
  ASSUME code_len \in Nat, NEW t \in TaskType(code_len), NEW target \in Int,
         NEW r \in Kernel_jump(t, target)
  PROVE  /\ r \in TaskType(code_len)
         /\ r.active = t.active /\ r.file_open = t.file_open /\ (t.lost => r.lost)
         /\ r.position - HEADER_SIZE \in -HEADER_SIZE .. code_len
         /\ r.active /\ ~r.lost => At(r, r.position - HEADER_SIZE)
<1>1. PICK s \in Seek(t, target + HEADER_SIZE) : r = [s EXCEPT !.buffer_index = CODE_BUFFER_SIZE]
  BY DEF Kernel_jump
<1>2. /\ CODE_BUFFER_SIZE \in Nat /\ HEADER_SIZE = 4 /\ FileSize(code_len) = code_len + 4
      /\ target + HEADER_SIZE \in Int
  BY Sizes
<1>3. /\ s \in TaskType(code_len) /\ s.active = t.active /\ s.file_open = t.file_open
      /\ t.lost => s.lost
  BY <1>1, <1>2, SeekCases
<1>4. /\ r \in TaskType(code_len) /\ r.active = s.active /\ r.file_open = s.file_open
      /\ r.lost = s.lost /\ r.buffer_index = CODE_BUFFER_SIZE
  BY <1>1, <1>2, <1>3 DEF TaskType
<1>5. r.position \in 0 .. code_len + 4
  BY <1>2, <1>4 DEF TaskType
<1>6. PICK p \in Int : p = r.position - HEADER_SIZE
  BY <1>2, <1>5
<1>7. p \in -HEADER_SIZE .. code_len /\ r.position - HEADER_SIZE - p = 0
  BY <1>2, <1>5, <1>6
<1>8. StreamAt(r, p)
  BY <1>2, <1>4, <1>7 DEF StreamAt
<1>9. p < code_len \/ r.position = FileSize(code_len)
  BY <1>2, <1>5, <1>6
<1> QED BY <1>3, <1>4, <1>6, <1>7, <1>8, <1>9 DEF At

\* ls leaves the file as it was, closes it, ends the task, or loses the file.
LEMMA LsCases ==
  ASSUME code_len \in Nat, NEW t \in TaskType(code_len), NEW r \in Syscall_ls(t)
  PROVE  /\ r \in TaskType(code_len) /\ (t.lost => r.lost)
         /\ \/ r.lost
            \/ r = t
            \/ r = [t EXCEPT !.file_open = FALSE]
            \/ r = [t EXCEPT !.file_open = FALSE, !.active = FALSE]
<1>1. CASE \/ r = t \/ r = [t EXCEPT !.file_open = FALSE]
           \/ r = [t EXCEPT !.file_open = FALSE, !.active = FALSE]
  BY <1>1 DEF TaskType
<1>2. CASE t.file_open /\ r \in Seek([t EXCEPT !.position = 0], t.position)
  <2>1. PICK s : s = [t EXCEPT !.position = 0]
    OBVIOUS
  <2>2. 0 \in 0 .. FileSize(code_len) /\ t.position \in 0 .. FileSize(code_len)
    BY Sizes DEF TaskType
  <2>3. s \in TaskType(code_len) /\ s.lost = t.lost /\ s.file_open
    BY <1>2, <2>1, <2>2 DEF TaskType
  <2>4. /\ r \in TaskType(code_len) /\ (s.lost => r.lost)
        /\ r.lost \/ r = [s EXCEPT !.position = t.position]
    <3>1. r \in Seek(s, t.position)
      BY <1>2, <2>1
    <3>2. t.position \in Int
      BY <2>2, Sizes
    <3> QED BY <2>2, <2>3, <3>1, <3>2, SeekCases
  <2>5. [s EXCEPT !.position = t.position] = t
    BY <2>1 DEF TaskType
  <2> QED BY <2>3, <2>4, <2>5
<1> QED BY <1>1, <1>2 DEF Syscall_ls

LEMMA LsAt ==
  ASSUME code_len \in Nat, NEW t, NEW p \in Int, At(t, p), NEW r \in Syscall_ls(t)
  PROVE  /\ r \in TaskType(code_len)
         /\ \/ r.lost
            \/ At(r, p) /\ (r.file_open = t.file_open \/ ~r.file_open)
            \/ Ended(r)
<1>1. t \in TaskType(code_len) /\ t.active /\ ~t.lost
  BY DEF At
<1>2. /\ r \in TaskType(code_len)
      /\ \/ r.lost
         \/ r = t
         \/ r = [t EXCEPT !.file_open = FALSE]
         \/ r = [t EXCEPT !.file_open = FALSE, !.active = FALSE]
  BY <1>1, LsCases
<1>3. CASE r = [t EXCEPT !.file_open = FALSE]
  <2>1. /\ r.active /\ ~r.lost /\ ~r.file_open /\ r.position = t.position
        /\ r.buffer_index = t.buffer_index /\ r.code_buffer = t.code_buffer
    BY <1>1, <1>3 DEF TaskType
  <2> QED BY <1>2, <2>1 DEF At, StreamAt
<1>4. CASE r = [t EXCEPT !.file_open = FALSE, !.active = FALSE]
  BY <1>1, <1>2, <1>4 DEF Ended, TaskType
<1> QED BY <1>2, <1>3, <1>4

-----------------------------------------------------------------------------
(* What an instruction leaves behind.                                      *)

\* The card has failed.
LEMMA GoesAstray ==
  ASSUME IInv, task.active, NEW f, f.task \in TaskType(code_len), f.task.lost,
         f.bytes \in Seq(Int), NEW next, Done(f, next)
  PROVE  IInv' /\ Program!Astray
<1>1. /\ task' = f.task /\ fetched' = f.bytes /\ pc' = 0 /\ code_len' = code_len
  BY DEF Done
<1>2. IInv'
  BY <1>1 DEF IInv, HEADER_SIZE
<1>3. task'.active \in BOOLEAN /\ task'.lost
  BY <1>1 DEF TaskType
<1> QED BY <1>1, <1>2, <1>3 DEF Program!Astray

LEMMA BytesFetched ==
  ASSUME IInv, task.active, ~task.lost, NEW n \in Nat, NEW f, Right(f.bytes, n),
         NEW next, Done(f, next)
  PROVE  Program!Fetch(n)
<1>1. fetched' = f.bytes /\ code_len' = code_len
  BY DEF Done
<1> QED BY <1>1 DEF Program!Fetch, Right

\* The program goes on.
LEMMA GoesOn ==
  ASSUME IInv, NEW f, NEW next \in Int, next >= -HEADER_SIZE, At(f.task, next),
         f.bytes \in Seq(Int), Done(f, next)
  PROVE  /\ IInv' /\ pc' = next
         /\ task'.active /\ ~task'.lost /\ task'.file_open = f.task.file_open
<1>1. f.task \in TaskType(code_len) /\ f.task.active /\ ~f.task.lost
  BY DEF At
<1>2. /\ task' = f.task /\ fetched' = f.bytes /\ pc' = next /\ code_len' = code_len
  BY <1>1 DEF Done
<1>3. At(task, pc)'
  BY <1>2 DEF At, StreamAt
<1> QED BY <1>1, <1>2, <1>3 DEF IInv

\* The program ends.
LEMMA Finishes ==
  ASSUME IInv, NEW f, NEW next, Ended(f.task), f.bytes \in Seq(Int), Done(f, next)
  PROVE  IInv' /\ Program!Ends
<1>1. f.task \in TaskType(code_len) /\ ~f.task.active /\ ~f.task.lost
  BY DEF Ended
<1>2. task' = f.task /\ fetched' = f.bytes /\ pc' = 0 /\ code_len' = code_len
  BY <1>1 DEF Done
<1>3. IInv'
  BY <1>1, <1>2 DEF IInv, HEADER_SIZE
<1> QED BY <1>1, <1>2, <1>3 DEF Program!Ends

-----------------------------------------------------------------------------
(* One lemma per action.                                                   *)

LEMMA LoadRefines ==
  ASSUME IInv, Kernel_loadTask
  PROVE  IInv' /\ Program!Load
<1> DEFINE new == [active |-> TRUE, file_open |-> TRUE, position |-> HEADER_SIZE,
                   code_buffer |-> [k \in Slots |-> STALE],
                   buffer_index |-> 0, lost |-> FALSE]
<1>1. PICK len \in CodeLens : code_len' = len /\ task' \in Reads(new, len)
  BY DEF Kernel_loadTask
<1>2. ~task.active /\ pc' = 0 /\ fetched' = <<>>
  BY DEF Kernel_loadTask
<1>3. /\ len \in Nat /\ CODE_BUFFER_SIZE \in Nat /\ CODE_BUFFER_SIZE > 0
      /\ HEADER_SIZE = 4 /\ STALE = -5 /\ FileSize(len) = len + 4
  BY <1>1, StreamAssumption, Sizes
<1>4. PICK t : t = new
  OBVIOUS
<1>5. t \in TaskType(len) /\ t.active /\ t.file_open /\ t.position = 4 /\ t.buffer_index = 0
  BY <1>3, <1>4 DEF TaskType
<1>6. task' \in Reads(t, len)
  BY <1>1, <1>4
<1> HIDE DEF new
<1>7. PICK r : r = task'
  OBVIOUS
<1>8. /\ r \in TaskType(len) /\ r.active /\ r.file_open /\ r.buffer_index = 0
      /\ ~r.lost =>
           /\ r.position - 4 \in 0 .. CODE_BUFFER_SIZE
           /\ r.position - 4 < CODE_BUFFER_SIZE => r.position = FileSize(len)
           /\ \A k \in 0 .. r.position - 4 - 1 : r.code_buffer[k] = 4 + k - HEADER_SIZE
  <2>1. r \in Reads(t, len)
    BY <1>6, <1>7
  <2> QED BY <1>3, <1>5, <2>1, ReadsCases
<1>9. CASE r.lost
  <2>1. IInv'
    BY <1>1, <1>2, <1>3, <1>7, <1>8, <1>9 DEF IInv
  <2> QED BY <1>1, <1>2, <1>7, <1>8, <1>9, <2>1 DEF Program!Load
<1>10. CASE ~r.lost
  <2>1. r.position \in Int
    BY <1>3, <1>8 DEF TaskType
  <2>2. PICK n \in Int : n = r.position - 4
    BY <2>1
  <2>3. /\ n \in 0 .. CODE_BUFFER_SIZE
        /\ n < CODE_BUFFER_SIZE => r.position = FileSize(len)
        /\ \A k \in 0 .. n - 1 : r.code_buffer[k] = 4 + k - HEADER_SIZE
    BY <1>8, <1>10, <2>2
  <2>4. ASSUME NEW k \in 0 .. n - 1
        PROVE  r.code_buffer[0 + k] = 0 + k
    <3>1. k \in Int /\ 0 + k = k /\ 4 + k - HEADER_SIZE = k
      BY <1>3
    <3> QED BY <2>3, <3>1
  <2>5. r.position - HEADER_SIZE - 0 = n /\ CODE_BUFFER_SIZE - r.buffer_index = CODE_BUFFER_SIZE
    BY <1>3, <1>8, <2>1, <2>2
  <2>6. ~(0 < len) => r.position = FileSize(len)
    BY <1>3, <1>8, <2>1, <2>2, <2>3 DEF TaskType
  <2>7. At(task, pc)'
    BY <1>1, <1>2, <1>7, <1>8, <1>10, <2>3, <2>4, <2>5, <2>6 DEF At, StreamAt
  <2>8. IInv'
    BY <1>1, <1>2, <1>3, <1>7, <1>8, <2>7 DEF IInv
  <2> QED BY <1>1, <1>2, <1>7, <1>8, <1>10, <2>8 DEF Program!Load
<1> QED BY <1>9, <1>10

\* The instruction goes on at the next one, after n bytes.
LEMMA AdvanceRefines ==
  ASSUME IInv, task.active, NEW n \in {1, 3}, NEW f, Done(f, pc + n),
         f.task \in TaskType(code_len), f.bytes \in Seq(Int),
         \/ f.task.lost
         \/ ~task.lost /\ Fetched(f, n) /\ ~Ended(f.task)
  PROVE  IInv' /\ [Program!Next]_(Program!vars)
<1>1. CASE f.task.lost
  BY <1>1, GoesAstray DEF Program!Next
<1>2. CASE ~f.task.lost
  <2>1. /\ ~task.lost /\ At(f.task, pc + n) /\ f.task.file_open = task.file_open
        /\ Right(f.bytes, n)
    BY <1>2 DEF Fetched
  <2>2. n \in Nat /\ pc + n \in Int /\ pc + n >= -HEADER_SIZE
    BY DEF IInv, HEADER_SIZE
  <2>3. Program!Fetch(n)
    BY <2>1, <2>2, BytesFetched
  <2>4. /\ IInv' /\ pc' = pc + n
        /\ task'.active /\ ~task'.lost /\ task'.file_open = f.task.file_open
    BY <2>1, <2>2, GoesOn
  <2>5. Program!Advance
    BY <2>1, <2>3, <2>4 DEF Program!Advance
  <2> QED BY <2>4, <2>5 DEF Program!Next
<1> QED BY <1>1, <1>2

\* The instruction ran out of bytes.
LEMMA RunsOutRefines ==
  ASSUME IInv, task.active, ~task.lost, NEW n \in 1 .. 3, NEW f, Ended(f.task),
         Fetched(f, n), NEW g, g.bytes = f.bytes, Ended(g.task), NEW next, Done(g, next)
  PROVE  IInv' /\ [Program!Next]_(Program!vars)
<1>1. PICK m \in 0 .. n - 1 : Right(f.bytes, m) /\ (~task.file_open \/ pc + m >= code_len)
  BY DEF Fetched, Ended, At
<1>2. m \in 0 .. 2 /\ m \in Nat
  OBVIOUS
<1>3. g.bytes \in Seq(Int)
  BY <1>1 DEF Right
<1>4. IInv' /\ Program!Ends
  BY <1>3, Finishes
<1>5. Program!Fetch(m)
  BY <1>1, <1>2, BytesFetched
<1>6. Program!RunsOut
  BY <1>1, <1>2, <1>4, <1>5 DEF Program!RunsOut
<1> QED BY <1>4, <1>6 DEF Program!Next

LEMMA PlainRefines ==
  ASSUME IInv, Plain
  PROVE  IInv' /\ [Program!Next]_(Program!vars)
<1>1. PICK f \in FetchOpcode : f.task.active /\ Done(f, pc + 1)
  BY DEF Plain
<1>2. task.active
  BY DEF Plain
<1>3. CASE task.lost
  BY <1>1, <1>2, <1>3, FetchLost, AdvanceRefines
<1>4. CASE ~task.lost
  <2>1. Fetched(f, 1) /\ ~Ended(f.task)
    BY <1>1, <1>2, <1>4, FetchOpcodeAt DEF Ended
  <2>2. f.task \in TaskType(code_len) /\ f.bytes \in Seq(Int)
    BY <2>1 DEF Fetched
  <2> QED BY <1>1, <1>2, <1>4, <2>1, <2>2, AdvanceRefines
<1> QED BY <1>3, <1>4

LEMMA NoOpcodeRefines ==
  ASSUME IInv, NoOpcode
  PROVE  IInv' /\ [Program!Next]_(Program!vars)
<1>1. PICK f \in FetchOpcode : ~f.task.active /\ Done(f, 0)
  BY DEF NoOpcode
<1>2. task.active
  BY DEF NoOpcode
<1>3. f.task \in TaskType(code_len) /\ f.bytes \in Seq(Int)
  BY <1>1, <1>2, FetchLost, FetchOpcodeAt DEF Fetched
<1>4. CASE f.task.lost
  BY <1>1, <1>2, <1>3, <1>4, GoesAstray DEF Program!Next
<1>5. CASE ~f.task.lost
  <2>1. ~task.lost
    BY <1>1, <1>5, FetchLost
  <2>2. Fetched(f, 1)
    BY <1>1, <1>2, <2>1, FetchOpcodeAt
  <2>3. Ended(f.task)
    BY <1>1, <1>5, <2>2 DEF Fetched, At
  <2> QED BY <1>1, <1>2, <2>1, <2>2, <2>3, RunsOutRefines
<1> QED BY <1>4, <1>5

LEMMA WithOperandRefines ==
  ASSUME IInv, WithOperand
  PROVE  IInv' /\ [Program!Next]_(Program!vars)
<1>1. PICK f \in FetchOpcode : f.task.active /\ \E g \in FetchInt(f) : Done(g, pc + 3)
  BY DEF WithOperand
<1>2. PICK g \in FetchInt(f) : Done(g, pc + 3)
  BY <1>1
<1>3. task.active
  BY DEF WithOperand
<1>4. CASE task.lost
  BY <1>2, <1>3, <1>4, FetchLost, AdvanceRefines
<1>5. CASE ~task.lost
  <2>1. Fetched(g, 3)
    BY <1>2, <1>3, <1>5, FetchIntAt
  <2>2. g.task \in TaskType(code_len) /\ g.bytes \in Seq(Int)
    BY <2>1 DEF Fetched
  <2>3. CASE Ended(g.task)
    BY <1>2, <1>3, <1>5, <2>1, <2>3, RunsOutRefines
  <2>4. CASE ~Ended(g.task)
    BY <1>2, <1>3, <1>5, <2>1, <2>2, <2>4, AdvanceRefines
  <2> QED BY <2>3, <2>4
<1> QED BY <1>4, <1>5

LEMMA JumpRefines ==
  ASSUME IInv, Jump
  PROVE  IInv' /\ [Program!Next]_(Program!vars)
<1>1. PICK target \in Targets, f \in FetchOpcode :
        \E g \in FetchInt(f) : \E t \in Kernel_jump(g.task, target) :
          Done([g EXCEPT !.task = t], t.position - HEADER_SIZE)
  BY DEF Jump
<1>2. PICK g \in FetchInt(f) : \E t \in Kernel_jump(g.task, target) :
        Done([g EXCEPT !.task = t], t.position - HEADER_SIZE)
  BY <1>1
<1>3. PICK t \in Kernel_jump(g.task, target) :
        Done([g EXCEPT !.task = t], t.position - HEADER_SIZE)
  BY <1>2
<1>4. task.active /\ target \in Int /\ code_len \in Nat
  BY StreamAssumption DEF Jump, IInv
<1>5. /\ g = [task |-> g.task, bytes |-> g.bytes]
      /\ g.task \in TaskType(code_len) /\ g.bytes \in Seq(Int)
      /\ task.lost => g.task.lost
  BY <1>2, <1>4, FetchLost, FetchIntAt DEF Fetched
<1>6. PICK h : h = [g EXCEPT !.task = t]
  OBVIOUS
<1>7. h.task = t /\ h.bytes = g.bytes /\ Done(h, t.position - HEADER_SIZE)
  BY <1>3, <1>5, <1>6
<1>8. /\ t \in TaskType(code_len)
      /\ t.active = g.task.active /\ t.file_open = g.task.file_open
      /\ g.task.lost => t.lost
      /\ t.position - HEADER_SIZE \in -HEADER_SIZE .. code_len
      /\ t.active /\ ~t.lost => At(t, t.position - HEADER_SIZE)
  BY <1>3, <1>4, <1>5, JumpAt
<1>9. CASE t.lost
  BY <1>4, <1>5, <1>7, <1>8, <1>9, GoesAstray DEF Program!Next
<1>10. CASE ~t.lost /\ t.active
  <2>1. ~task.lost /\ ~g.task.lost
    BY <1>5, <1>8, <1>10
  <2>2. g.task.file_open = task.file_open /\ Right(g.bytes, 3)
    BY <1>2, <1>4, <1>8, <1>10, <2>1, FetchIntAt DEF Fetched, Ended
  <2>3. PICK next : next = t.position - HEADER_SIZE
    OBVIOUS
  <2>4. next \in -HEADER_SIZE .. code_len /\ At(h.task, next) /\ Done(h, next)
    BY <1>7, <1>8, <1>10, <2>3
  <2>5. next \in Int /\ next >= -HEADER_SIZE
    BY <1>4, <2>4 DEF HEADER_SIZE
  <2>6. /\ IInv' /\ pc' = next
        /\ task'.active /\ ~task'.lost /\ task'.file_open = h.task.file_open
    BY <1>5, <1>7, <2>4, <2>5, GoesOn
  <2>7. Program!Fetch(3)
    BY <1>4, <1>7, <2>1, <2>2, BytesFetched
  <2>8. Program!Jump
    BY <1>4, <1>7, <1>8, <2>1, <2>2, <2>4, <2>6, <2>7
       DEF Program!Jump, Program!HEADER_SIZE, HEADER_SIZE
  <2> QED BY <2>6, <2>8 DEF Program!Next
<1>11. CASE ~t.lost /\ ~t.active
  <2>1. ~task.lost /\ ~g.task.lost /\ ~g.task.active
    BY <1>5, <1>8, <1>11
  <2>2. Fetched(g, 3)
    BY <1>2, <1>4, <2>1, FetchIntAt
  <2>3. Ended(g.task)
    BY <2>1, <2>2 DEF Fetched, At
  <2>4. Ended(h.task)
    BY <1>7, <1>8, <1>11, <2>3 DEF Ended
  <2> QED BY <1>4, <1>7, <2>1, <2>2, <2>3, <2>4, RunsOutRefines
<1> QED BY <1>9, <1>10, <1>11

LEMMA LsRefines ==
  ASSUME IInv, Ls
  PROVE  IInv' /\ [Program!Next]_(Program!vars)
<1>1. PICK f \in FetchOpcode :
        f.task.active /\ \E t \in Syscall_ls(f.task) : Done([f EXCEPT !.task = t], pc + 1)
  BY DEF Ls
<1>2. PICK t \in Syscall_ls(f.task) : Done([f EXCEPT !.task = t], pc + 1)
  BY <1>1
<1>3. task.active /\ code_len \in Nat /\ pc \in Int /\ pc + 1 \in Int /\ pc + 1 >= -HEADER_SIZE
  BY StreamAssumption DEF Ls, IInv, HEADER_SIZE
<1>4. /\ f = [task |-> f.task, bytes |-> f.bytes]
      /\ f.task \in TaskType(code_len) /\ f.bytes \in Seq(Int)
      /\ task.lost => f.task.lost
  BY <1>3, FetchLost, FetchOpcodeAt DEF Fetched
<1>5. PICK h : h = [f EXCEPT !.task = t]
  OBVIOUS
<1>6. h.task = t /\ h.bytes = f.bytes /\ Done(h, pc + 1)
  BY <1>2, <1>4, <1>5
<1>7. t \in TaskType(code_len) /\ (f.task.lost => t.lost)
  BY <1>2, <1>3, <1>4, LsCases
<1>8. CASE t.lost
  BY <1>3, <1>4, <1>6, <1>7, <1>8, GoesAstray DEF Program!Next
<1>9. CASE ~t.lost
  <2>1. ~task.lost /\ ~f.task.lost
    BY <1>4, <1>7, <1>9
  <2>2. At(f.task, pc + 1) /\ f.task.file_open = task.file_open /\ Right(f.bytes, 1)
    BY <1>1, <1>3, <2>1, FetchOpcodeAt DEF Fetched, Ended
  <2>3. \/ At(t, pc + 1) /\ (t.file_open = f.task.file_open \/ ~t.file_open)
        \/ Ended(t)
    BY <1>2, <1>3, <1>9, <2>2, LsAt
  <2>4. Program!Fetch(1)
    BY <1>3, <1>6, <2>1, <2>2, BytesFetched
  <2>5. CASE At(t, pc + 1) /\ (t.file_open = f.task.file_open \/ ~t.file_open)
    <3>1. /\ IInv' /\ pc' = pc + 1
          /\ task'.active /\ ~task'.lost /\ task'.file_open = t.file_open
      BY <1>3, <1>4, <1>6, <2>5, GoesOn
    <3>2. CASE t.file_open = f.task.file_open
      <4>1. Program!Advance
        BY <1>3, <2>1, <2>2, <2>4, <3>1, <3>2 DEF Program!Advance
      <4> QED BY <3>1, <4>1 DEF Program!Next
    <3>3. CASE ~t.file_open
      <4>1. Program!BadLs
        BY <1>3, <2>1, <2>4, <3>1, <3>3 DEF Program!BadLs
      <4> QED BY <3>1, <4>1 DEF Program!Next
    <3> QED BY <2>5, <3>2, <3>3
  <2>6. CASE Ended(t)
    <3>1. IInv' /\ Program!Ends
      BY <1>4, <1>6, <2>6, Finishes
    <3>2. Program!Exit
      BY <2>4, <3>1 DEF Program!Exit
    <3> QED BY <3>1, <3>2 DEF Program!Next
  <2> QED BY <2>3, <2>5, <2>6
<1> QED BY <1>8, <1>9

LEMMA ExitRefines ==
  ASSUME IInv, Exit
  PROVE  IInv' /\ [Program!Next]_(Program!vars)
<1>1. PICK f \in FetchOpcode :
        f.task.active /\ Done([f EXCEPT !.task = Kernel_terminateTask(f.task)], 0)
  BY DEF Exit
<1>2. task.active /\ code_len \in Nat
  BY StreamAssumption DEF Exit, IInv
<1>3. /\ f = [task |-> f.task, bytes |-> f.bytes]
      /\ f.task \in TaskType(code_len) /\ f.bytes \in Seq(Int)
      /\ task.lost => f.task.lost
  BY <1>2, FetchLost, FetchOpcodeAt DEF Fetched
<1>4. PICK t : t = Kernel_terminateTask(f.task)
  OBVIOUS
<1>5. PICK h : h = [f EXCEPT !.task = t]
  OBVIOUS
<1>6. h.task = t /\ h.bytes = f.bytes /\ Done(h, 0)
  BY <1>1, <1>3, <1>4, <1>5
<1>7. t \in TaskType(code_len) /\ ~t.active /\ ~t.file_open /\ t.lost = f.task.lost
  BY <1>3, <1>4, TerminateType
<1>8. CASE t.lost
  BY <1>2, <1>3, <1>6, <1>7, <1>8, GoesAstray DEF Program!Next
<1>9. CASE ~t.lost
  <2>1. ~task.lost /\ Right(f.bytes, 1)
    BY <1>1, <1>2, <1>3, <1>7, <1>9, FetchOpcodeAt DEF Fetched, Ended
  <2>2. Ended(h.task)
    BY <1>6, <1>7, <1>9 DEF Ended
  <2>3. IInv' /\ Program!Ends
    BY <1>3, <1>6, <2>2, Finishes
  <2>4. Program!Fetch(1)
    BY <1>2, <1>6, <2>1, BytesFetched
  <2>5. Program!Exit
    BY <2>3, <2>4 DEF Program!Exit
  <2> QED BY <2>3, <2>5 DEF Program!Next
<1> QED BY <1>8, <1>9

-----------------------------------------------------------------------------
(* The theorems.                                                           *)

LEMMA InitRefines == Init => IInv /\ Program!Init
<1> SUFFICES ASSUME Init PROVE IInv /\ Program!Init
  OBVIOUS
<1>1. /\ code_len \in Nat /\ CODE_BUFFER_SIZE \in Nat /\ STALE = -5
      /\ FileSize(code_len) = code_len + 4
  BY StreamAssumption, Sizes DEF Init
<1>2. task \in TaskType(code_len) /\ ~task.active /\ ~task.lost
  BY <1>1 DEF Init, TaskType
<1> QED BY <1>2 DEF Init, IInv, HEADER_SIZE, Program!Init

LEMMA StepRefines ==
  ASSUME IInv, [Next]_vars
  PROVE  IInv' /\ [Program!Next]_(Program!vars)
<1>1. CASE Kernel_loadTask
  BY <1>1, LoadRefines DEF Program!Next
<1>2. CASE UNCHANGED vars
  BY <1>2 DEF vars, IInv, At, StreamAt, TaskType, FileSize, Program!vars
<1> QED BY <1>1, <1>2, PlainRefines, NoOpcodeRefines, WithOperandRefines,
           JumpRefines, LsRefines, ExitRefines DEF Next

\* The kernel's window on the file looks to the program like the whole file,
\* until the card fails (Kernel_refillBuffer, Kernel_jump, VM_fetchByte, ls).
THEOREM StreamRefinesProgram == Spec => ImplementsProgramFetch
<1> QED BY InitRefines, StepRefines, PTL DEF Spec, ImplementsProgramFetch, Program!Spec

\* The task's position, buffer and index stay within their bounds, whatever
\* the program does and whenever the card fails.
THEOREM StreamTyped == Spec => []TypeOK
<1>1. IInv => TypeOK
  BY DEF IInv, TypeOK
<1> QED BY <1>1, InitRefines, StepRefines, PTL DEF Spec

\* Buffer, file and program counter agree across refills, jumps and ls.
THEOREM StreamAgrees == Spec => []StreamInv
<1>1. IInv => StreamInv
  BY DEF IInv, At, StreamInv
<1> QED BY <1>1, InitRefines, StepRefines, PTL DEF Spec
=============================================================================
