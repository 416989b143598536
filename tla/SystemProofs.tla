---------------------------- MODULE SystemProofs ----------------------------
(***************************************************************************)
(* Proofs about System.tla: the firmware implements the kernel of          *)
(* Kernel.tla, and the inbox keeps keyboard input and system calls in the  *)
(* order of their arrival and loses no packet unseen: one that is gone was *)
(* handled by the daemon or read to its last byte.                         *)
(***************************************************************************)
EXTENDS System, TLAPS

-----------------------------------------------------------------------------
(* The kernel.                                                             *)

\* Handling a packet, or finding none, is a turn of the kernel's daemon.
LEMMA DaemonTurn == Comm_process => K!Comm_process
<1> SUFFICES ASSUME Comm_process PROVE K!Comm_process
  OBVIOUS
<1> DEFINE none == UNCHANGED tableVars
<1>1. none => UNCHANGED <<task_state, sleeping, file_open, K!heapVars>>
  BY DEF tableVars, K!heapVars
<1>2. none \/ K!Syscall_exec(0) \/ K!Syscall_ls(0)
  <2>1. CASE UNCHANGED <<tableVars, taken>>
    BY <2>1
  <2>2. CASE \E p : Handle(p)
    BY <2>2 DEF Handle
  <2> QED
    BY <2>1, <2>2 DEF Comm_process
<1> QED
  BY <1>1, <1>2 DEF Comm_process, K!Comm_process

LEMMA KernelStep == [Next]_vars => [K!Next]_(K!vars)
<1> SUFFICES ASSUME [Next]_vars PROVE [K!Next]_(K!vars)
  OBVIOUS
<1>1. kernelVars' = kernelVars => UNCHANGED K!vars
  BY DEF kernelVars, tableVars, K!vars, K!heapVars
<1>2. CASE \E c \in Commands : Arrives(c)
  BY <1>1, <1>2 DEF Arrives
<1>3. CASE \E t \in K!Tasks : Skip(t)
  BY <1>3 DEF Skip, K!Next
<1>4. CASE Comm_process
  BY <1>4, DaemonTurn DEF K!Next
<1>5. CASE \E t \in K!VmTasks : Read(t) \/ Other(t)
  BY <1>5 DEF Read, Other, K!VmStep, K!Next
<1>6. CASE UNCHANGED vars
  BY <1>1, <1>6 DEF vars
<1> QED
  BY <1>2, <1>3, <1>4, <1>5, <1>6 DEF Next, Turns

\* Driven by the client's packets, with the daemon and the programs competing
\* for the inbox, the task table, the heap and the scheduler behave as in
\* Kernel.tla: what is proved of the kernel holds in the firmware.
THEOREM SystemImplementsKernel == Spec => ImplementsKernel
<1>1. Init => K!Init
  BY DEF Init
<1>2. [Next]_vars => [K!Next]_(K!vars)
  BY KernelStep
<1> QED
  BY <1>1, <1>2, PTL DEF Spec, ImplementsKernel, K!Spec

-----------------------------------------------------------------------------
(* Order.                                                                  *)

\* The packets on the line are the last ones that arrived, in order; what was
\* read or handled is of the packet in the slot or of earlier ones; of the
\* packet in the slot only the bytes before read_pos were read, and the
\* daemon has not had it.
Ordered(b) ==
  /\ b \in [line : Seq(Packets), ready : BOOLEAN, packet : Packets, read_pos : Nat]
  /\ b.packet.id + Len(b.line) = Len(arrived)
  /\ \A k \in 1 .. Len(b.line) : b.line[k].id = b.packet.id + k
  /\ \A k \in 1 .. Len(input) :
       /\ input[k].id <= b.packet.id
       /\ b.ready /\ input[k].id = b.packet.id => input[k].pos < b.read_pos
  /\ \A k \in 1 .. Len(taken) :
       /\ taken[k].id <= b.packet.id
       /\ b.ready => taken[k].id < b.packet.id

ReadBytes == [id : Nat, pos : Nat]

Histories ==
  /\ arrived \in Seq(Packets) /\ Len(arrived) <= MaxPackets
  /\ input \in Seq(ReadBytes)
  /\ taken \in Seq(Packets)

OrderInv == Histories /\ Ordered(inbox) /\ InputInOrder /\ TakenInOrder

\* process_serial keeps the order.
LEMMA ProcessSerialOrdered ==
  ASSUME Histories, NEW b, Ordered(b)
  PROVE  LET p == process_serial(b)
         IN Ordered(p) /\ (p.ready \/ p = b)
<1>1. CASE b.ready \/ b.line = <<>>
  BY <1>1 DEF process_serial
<1>2. CASE ~b.ready /\ b.line # <<>>
  <2> DEFINE p == [line |-> Tail(b.line), ready |-> TRUE, packet |-> Head(b.line),
                   read_pos |-> 0]
  <2>1. process_serial(b) = p
    BY <1>2 DEF process_serial
  <2>2. b.line \in Seq(Packets) /\ b.packet.id \in Nat
    BY DEF Ordered, Packets
  <2>3. /\ Head(b.line) \in Packets /\ Tail(b.line) \in Seq(Packets)
        /\ Head(b.line) = b.line[1] /\ Len(Tail(b.line)) = Len(b.line) - 1
        /\ \A k \in 1 .. Len(b.line) - 1 : Tail(b.line)[k] = b.line[k + 1]
        /\ Len(b.line) \in Nat \ {0}
    BY <1>2, <2>2
  <2>4. Head(b.line).id = b.packet.id + 1
    BY <2>3 DEF Ordered
  <2>5. /\ p \in [line : Seq(Packets), ready : BOOLEAN, packet : Packets, read_pos : Nat]
        /\ p.packet.id + Len(p.line) = Len(arrived)
    BY <2>2, <2>3, <2>4 DEF Ordered
  <2>6. \A k \in 1 .. Len(p.line) : p.line[k].id = p.packet.id + k
    <3> SUFFICES ASSUME NEW k \in 1 .. Len(p.line)
                 PROVE  p.line[k].id = p.packet.id + k
      OBVIOUS
    <3>1. k + 1 \in 1 .. Len(b.line) /\ p.line[k] = b.line[k + 1]
      BY <2>3
    <3>2. b.line[k + 1].id = b.packet.id + (k + 1)
      BY <3>1 DEF Ordered
    <3>3. k \in Nat /\ p.packet.id = b.packet.id + 1
      BY <2>4
    <3> QED
      BY <2>2, <3>1, <3>2, <3>3
  <2>7. \A k \in 1 .. Len(input) : input[k].id < p.packet.id
    <3> SUFFICES ASSUME NEW k \in 1 .. Len(input) PROVE input[k].id < p.packet.id
      OBVIOUS
    <3>1. input[k] \in ReadBytes
      BY DEF Histories
    <3>2. input[k].id \in Nat /\ input[k].id <= b.packet.id
      BY <3>1 DEF Ordered, ReadBytes
    <3> QED
      BY <2>2, <2>4, <3>2
  <2>8. \A k \in 1 .. Len(taken) : taken[k].id < p.packet.id
    <3> SUFFICES ASSUME NEW k \in 1 .. Len(taken) PROVE taken[k].id < p.packet.id
      OBVIOUS
    <3>1. taken[k] \in Packets
      BY DEF Histories
    <3>2. taken[k].id \in Nat /\ taken[k].id <= b.packet.id
      BY <3>1 DEF Ordered, Packets
    <3> QED
      BY <2>2, <2>4, <3>2
  <2>9. p.packet.id \in Nat /\ p.ready
    BY <2>2, <2>4
  <2>10. /\ \A k \in 1 .. Len(input) : input[k].id \in Nat
         /\ \A k \in 1 .. Len(taken) : taken[k].id \in Nat
    <3>1. \A k \in 1 .. Len(input) : input[k] \in ReadBytes
      BY DEF Histories
    <3>2. \A k \in 1 .. Len(taken) : taken[k] \in Packets
      BY DEF Histories
    <3> QED
      BY <3>1, <3>2 DEF Packets, ReadBytes
  <2> HIDE DEF p
  <2>11. /\ \A k \in 1 .. Len(input) :
              /\ input[k].id <= p.packet.id
              /\ p.ready /\ input[k].id = p.packet.id => input[k].pos < p.read_pos
         /\ \A k \in 1 .. Len(taken) :
              /\ taken[k].id <= p.packet.id
              /\ p.ready => taken[k].id < p.packet.id
    BY <2>7, <2>8, <2>9, <2>10
  <2>12. Ordered(p)
    BY <2>5, <2>6, <2>11 DEF Ordered
  <2> QED
    BY <2>1, <2>9, <2>12
<1>3. b.ready \in BOOLEAN
  BY DEF Ordered
<1> QED
  BY <1>1, <1>2, <1>3

\* A sequence and one element more.
LEMMA AppendFacts ==
  ASSUME NEW S, NEW s \in Seq(S), NEW e \in S
  PROVE  /\ s \o <<e>> = Append(s, e)
         /\ Append(s, e) \in Seq(S)
         /\ Len(Append(s, e)) = Len(s) + 1 /\ Len(s) \in Nat
         /\ \A k \in 1 .. Len(s) : Append(s, e)[k] = s[k] /\ s[k] \in S
         /\ Append(s, e)[Len(s) + 1] = e
  OBVIOUS

\* READ returns the next byte of the first packet there is, or nothing.
LEMMA ReadOrdered ==
  ASSUME OrderInv, NEW t, Read(t)
  PROVE  OrderInv'
<1> DEFINE p == process_serial(inbox)
<1>1. Ordered(p) /\ (p.ready \/ p = inbox)
  BY ProcessSerialOrdered DEF OrderInv
<1>2. arrived' = arrived /\ taken' = taken
  BY DEF Read
<1>3. p \in [line : Seq(Packets), ready : BOOLEAN, packet : Packets, read_pos : Nat]
  BY <1>1 DEF Ordered
<1>4. CASE p.ready /\ p.read_pos < p.packet.len
  <2> DEFINE e == [id |-> p.packet.id, pos |-> p.read_pos]
  <2>1. inbox' = [p EXCEPT !.read_pos = @ + 1] /\ input' = input \o <<e>>
    BY <1>4 DEF Read, HAL_read
  <2>2. e \in ReadBytes
    BY <1>3 DEF ReadBytes, Packets
  <2>3. /\ input' \in Seq(ReadBytes) /\ Len(input') = Len(input) + 1 /\ Len(input) \in Nat
        /\ \A k \in 1 .. Len(input) : input'[k] = input[k] /\ input[k] \in ReadBytes
        /\ input'[Len(input) + 1] = e
    BY <2>1, <2>2, AppendFacts DEF OrderInv, Histories
  <2>4. /\ inbox'.line = p.line /\ inbox'.ready = p.ready /\ inbox'.packet = p.packet
        /\ inbox'.read_pos = p.read_pos + 1
        /\ inbox' \in [line : Seq(Packets), ready : BOOLEAN, packet : Packets, read_pos : Nat]
    <3>1. p.read_pos + 1 \in Nat
      BY <1>3
    <3>2. \A n \in Nat : LET q == [p EXCEPT !.read_pos = n]
                       IN /\ q.line = p.line /\ q.ready = p.ready /\ q.packet = p.packet
                          /\ q.read_pos = n
                          /\ q \in [line : Seq(Packets), ready : BOOLEAN,
                                   packet : Packets, read_pos : Nat]
      BY <1>3
    <3> HIDE DEF p
    <3> QED
      BY <2>1, <3>1, <3>2
  <2>5. \A k \in 1 .. Len(input) : Earlier(input[k], e)
    <3> SUFFICES ASSUME NEW k \in 1 .. Len(input) PROVE Earlier(input[k], e)
      OBVIOUS
    <3>1. /\ input[k].id <= p.packet.id
          /\ input[k].id = p.packet.id => input[k].pos < p.read_pos
      BY <1>1, <1>4 DEF Ordered
    <3>2. input[k] \in ReadBytes /\ p.packet \in Packets
      BY <1>3, <2>3
    <3>3. input[k].id \in Nat /\ p.packet.id \in Nat
      BY <3>2 DEF ReadBytes, Packets
    <3> QED
      BY <3>1, <3>3 DEF Earlier
  <2>6. InputInOrder'
    <3> SUFFICES ASSUME NEW j \in 1 .. Len(input'), NEW k \in 1 .. Len(input'), j < k
                 PROVE  Earlier(input'[j], input'[k])
      BY DEF InputInOrder
    <3>1. CASE k \in 1 .. Len(input)
      <4>1. j \in 1 .. Len(input)
        BY <2>3, <3>1
      <4> QED
        BY <2>3, <3>1, <4>1 DEF OrderInv, InputInOrder
    <3>2. CASE k = Len(input) + 1
      <4>1. j \in 1 .. Len(input)
        BY <2>3, <3>2
      <4> QED
        BY <2>3, <2>5, <3>2, <4>1
    <3> QED
      BY <2>3, <3>1, <3>2
  <2>7. \A k \in 1 .. Len(input') :
          input'[k].id <= p.packet.id
          /\ (input'[k].id = p.packet.id => input'[k].pos < p.read_pos + 1)
    <3> SUFFICES ASSUME NEW k \in 1 .. Len(input')
                 PROVE  input'[k].id <= p.packet.id
                        /\ (input'[k].id = p.packet.id => input'[k].pos < p.read_pos + 1)
      OBVIOUS
    <3>0. p.packet.id \in Nat /\ p.read_pos \in Nat
      BY <1>3 DEF Packets
    <3>1. CASE k \in 1 .. Len(input)
      <4>1. input'[k] = input[k] /\ input[k].id \in Nat /\ input[k].pos \in Nat
        BY <2>3, <3>1 DEF ReadBytes
      <4>2. /\ input[k].id <= p.packet.id
            /\ input[k].id = p.packet.id => input[k].pos < p.read_pos
        BY <1>1, <1>4, <3>1 DEF Ordered
      <4> QED
        BY <3>0, <4>1, <4>2
    <3>2. CASE k = Len(input) + 1
      BY <2>3, <3>0, <3>2
    <3> QED
      BY <2>3, <3>1, <3>2
  <2>8. Ordered(inbox)'
    BY <1>1, <1>2, <1>4, <2>4, <2>7 DEF Ordered
  <2> QED
    BY <1>2, <2>3, <2>6, <2>8 DEF OrderInv, Histories, TakenInOrder
<1>5. CASE ~(p.ready /\ p.read_pos < p.packet.len)
  <2>1. inbox' = [p EXCEPT !.ready = FALSE] /\ input' = input \o << >>
    BY <1>5 DEF Read, HAL_read
  <2>2. input' = input
    BY <2>1 DEF OrderInv, Histories
  <2>3. /\ inbox'.line = p.line /\ ~inbox'.ready /\ inbox'.packet = p.packet
        /\ inbox' \in [line : Seq(Packets), ready : BOOLEAN, packet : Packets, read_pos : Nat]
    BY <1>3, <2>1
  <2>4. Ordered(inbox)'
    BY <1>1, <1>2, <2>2, <2>3 DEF Ordered
  <2> QED
    BY <1>2, <2>2, <2>4 DEF OrderInv, Histories, TakenInOrder, InputInOrder
<1> QED
  BY <1>4, <1>5

\* The daemon takes the first packet there is, or nothing.
LEMMA DaemonOrdered ==
  ASSUME OrderInv, Comm_process
  PROVE  OrderInv'
<1> DEFINE p == process_serial(inbox)
<1>1. Ordered(p) /\ (p.ready \/ p = inbox)
  BY ProcessSerialOrdered DEF OrderInv
<1>2. arrived' = arrived /\ input' = input
  BY DEF Comm_process
<1>3. p \in [line : Seq(Packets), ready : BOOLEAN, packet : Packets, read_pos : Nat]
  BY <1>1 DEF Ordered
<1>4. CASE p.ready
  <2>1. /\ inbox' = [p EXCEPT !.ready = FALSE, !.read_pos = 0]
        /\ HAL_readPacket(inbox).packets = {p.packet}
    BY <1>4 DEF Comm_process, HAL_readPacket
  <2>2. taken' = taken \/ taken' = Append(taken, p.packet)
    BY <2>1 DEF Comm_process
  <2>3. /\ inbox'.line = p.line /\ ~inbox'.ready /\ inbox'.packet = p.packet
        /\ inbox' \in [line : Seq(Packets), ready : BOOLEAN, packet : Packets, read_pos : Nat]
    BY <1>3, <2>1
  <2>4. CASE taken' = taken
    <3>1. Ordered(inbox)'
      BY <1>1, <1>2, <2>3, <2>4 DEF Ordered
    <3> QED
      BY <1>2, <2>4, <3>1 DEF OrderInv, Histories, TakenInOrder, InputInOrder
  <2>5. CASE taken' = Append(taken, p.packet)
    <3>1. p.packet \in Packets /\ p.packet.id \in Nat
      BY <1>3 DEF Packets
    <3>2. /\ taken' \in Seq(Packets) /\ Len(taken') = Len(taken) + 1 /\ Len(taken) \in Nat
          /\ \A k \in 1 .. Len(taken) : taken'[k] = taken[k] /\ taken[k] \in Packets
          /\ taken'[Len(taken) + 1] = p.packet
      BY <2>5, <3>1, AppendFacts DEF OrderInv, Histories
    <3>3. \A k \in 1 .. Len(taken) : taken[k].id \in Nat /\ taken[k].id < p.packet.id
      <4>1. \A k \in 1 .. Len(taken) : taken[k].id < p.packet.id
        BY <1>1, <1>4 DEF Ordered
      <4>2. \A k \in 1 .. Len(taken) : taken[k].id \in Nat
        BY <3>2 DEF Packets
      <4> QED
        BY <4>1, <4>2
    <3>4. TakenInOrder'
      <4> SUFFICES ASSUME NEW j \in 1 .. Len(taken'), NEW k \in 1 .. Len(taken'), j < k
                   PROVE  taken'[j].id < taken'[k].id
        BY DEF TakenInOrder
      <4>1. CASE k \in 1 .. Len(taken)
        <5>1. j \in 1 .. Len(taken)
          BY <3>2, <4>1
        <5> QED
          BY <3>2, <4>1, <5>1 DEF OrderInv, TakenInOrder
      <4>2. CASE k = Len(taken) + 1
        <5>1. j \in 1 .. Len(taken)
          BY <3>2, <4>2
        <5> QED
          BY <3>2, <3>3, <4>2, <5>1
      <4> QED
        BY <3>2, <4>1, <4>2
    <3>5. \A k \in 1 .. Len(taken') : taken'[k].id <= p.packet.id
      BY <3>1, <3>2, <3>3
    <3>6. Ordered(inbox)'
      BY <1>1, <1>2, <2>3, <3>5 DEF Ordered
    <3> QED
      BY <1>2, <3>2, <3>4, <3>6 DEF OrderInv, Histories, InputInOrder
  <2> QED
    BY <2>2, <2>4, <2>5
<1>5. CASE ~p.ready
  <2>1. inbox' = p /\ HAL_readPacket(inbox).packets = {}
    BY <1>5 DEF Comm_process, HAL_readPacket
  <2>2. taken' = taken
    BY <2>1 DEF Comm_process
  <2>3. Ordered(inbox)'
    BY <1>1, <1>2, <2>1, <2>2 DEF Ordered
  <2> QED
    BY <1>2, <2>2, <2>3 DEF OrderInv, Histories, TakenInOrder, InputInOrder
<1> QED
  BY <1>4, <1>5

\* A packet that arrives gets the next number and goes to the end of the line.
LEMMA ArrivalOrdered ==
  ASSUME OrderInv, NEW c \in Commands, Arrives(c)
  PROVE  OrderInv'
<1> DEFINE p == [id |-> Len(arrived) + 1, cmd |-> c.cmd, len |-> c.len]
<1>1. /\ Len(arrived) < MaxPackets
      /\ inbox' = [inbox EXCEPT !.line = Append(@, p)]
      /\ arrived' = Append(arrived, p)
      /\ input' = input /\ taken' = taken
  BY DEF Arrives
<1>2. p \in Packets /\ Len(arrived) \in Nat /\ p.id = Len(arrived) + 1
  <2>1. Len(arrived) \in Nat /\ MaxPackets \in Nat
    BY ClientAssumption DEF OrderInv, Histories
  <2>2. c.cmd \in {"none", "stdin", "exec", "other"} /\ c.len \in Nat
    BY ClientAssumption DEF ClientAssumption
  <2> QED
    BY <1>1, <2>1, <2>2 DEF Packets
<1> HIDE DEF p
<1>3. /\ arrived' \in Seq(Packets) /\ Len(arrived') = Len(arrived) + 1
      /\ Len(arrived') <= MaxPackets
  BY <1>1, <1>2, AppendFacts, ClientAssumption DEF OrderInv, Histories, ClientAssumption
<1>4. inbox \in [line : Seq(Packets), ready : BOOLEAN, packet : Packets, read_pos : Nat]
  BY DEF OrderInv, Ordered
<1>5. /\ Append(inbox.line, p) \in Seq(Packets)
      /\ Len(Append(inbox.line, p)) = Len(inbox.line) + 1 /\ Len(inbox.line) \in Nat
      /\ \A k \in 1 .. Len(inbox.line) : Append(inbox.line, p)[k] = inbox.line[k]
      /\ Append(inbox.line, p)[Len(inbox.line) + 1] = p
  BY <1>2, <1>4, AppendFacts
<1>6. /\ inbox'.line = Append(inbox.line, p) /\ inbox'.ready = inbox.ready
      /\ inbox'.packet = inbox.packet /\ inbox'.read_pos = inbox.read_pos
      /\ inbox' \in [line : Seq(Packets), ready : BOOLEAN, packet : Packets, read_pos : Nat]
  BY <1>1, <1>4, <1>5
<1>7. inbox.packet.id + Len(inbox.line) = Len(arrived) /\ inbox.packet.id \in Nat
  BY <1>4 DEF OrderInv, Ordered, Packets
<1>8. \A k \in 1 .. Len(inbox'.line) : inbox'.line[k].id = inbox'.packet.id + k
  <2> SUFFICES ASSUME NEW k \in 1 .. Len(inbox.line) + 1
               PROVE  Append(inbox.line, p)[k].id = inbox.packet.id + k
    BY <1>5, <1>6
  <2>1. CASE k \in 1 .. Len(inbox.line)
    BY <1>5, <2>1 DEF OrderInv, Ordered
  <2>2. CASE k = Len(inbox.line) + 1
    BY <1>2, <1>5, <1>7, <2>2
  <2> QED
    BY <1>5, <2>1, <2>2
<1>9. inbox'.packet.id + Len(inbox'.line) = Len(arrived')
  BY <1>3, <1>5, <1>6, <1>7
<1>10. Ordered(inbox)'
  BY <1>1, <1>6, <1>8, <1>9 DEF OrderInv, Ordered
<1> QED
  BY <1>1, <1>3, <1>10 DEF OrderInv, Histories, TakenInOrder, InputInOrder

LEMMA InitOrdered == ASSUME Init PROVE OrderInv
<1>1. /\ inbox = EmptyInbox /\ arrived = << >> /\ input = << >> /\ taken = << >>
      /\ MaxPackets \in Nat
  BY ClientAssumption DEF Init, ClientAssumption
<1>2. NoPacket \in Packets
  BY <1>1 DEF NoPacket, Packets
<1>3. Histories /\ InputInOrder /\ TakenInOrder
  BY <1>1 DEF Histories, InputInOrder, TakenInOrder
<1>4. Ordered(inbox)
  BY <1>1, <1>2 DEF Ordered, EmptyInbox, NoPacket
<1> QED
  BY <1>3, <1>4 DEF OrderInv

LEMMA OrderInvariant == Spec => []OrderInv
<1>1. Init => OrderInv
  BY InitOrdered
<1>2. OrderInv /\ [Next]_vars => OrderInv'
  <2> SUFFICES ASSUME OrderInv, [Next]_vars PROVE OrderInv'
    OBVIOUS
  <2>1. CASE UNCHANGED <<inboxVars, arrived>>
    BY <2>1 DEF inboxVars, OrderInv, Histories, Ordered, InputInOrder, TakenInOrder
  <2>2. CASE \E c \in Commands : Arrives(c)
    BY <2>2, ArrivalOrdered
  <2>3. CASE Comm_process
    BY <2>3, DaemonOrdered
  <2>4. CASE \E t \in K!VmTasks : Read(t)
    BY <2>4, ReadOrdered
  <2>5. CASE (\E t \in K!Tasks : Skip(t)) \/ (\E t \in K!VmTasks : Other(t))
    BY <2>1, <2>5 DEF Skip, Other
  <2>6. CASE UNCHANGED vars
    BY <2>1, <2>6 DEF vars
  <2> QED
    BY <2>2, <2>3, <2>4, <2>5, <2>6 DEF Next, Turns
<1> QED
  BY <1>1, <1>2, PTL DEF Spec

\* The bytes READ returns come in the order in which they were sent and none
\* comes twice, whatever the daemon and the other programs do in between
\* (hal_pkt_read_pos across process_serial, HAL_read and HAL_readPacket).
THEOREM InputOrdered == Spec => []InputInOrder
<1>1. OrderInv => InputInOrder
  BY DEF OrderInv
<1> QED
  BY <1>1, OrderInvariant, PTL

\* Comm_process handles packets in the order in which they were sent and none
\* of them twice (hal_pkt_ready across process_serial and HAL_readPacket).
THEOREM TakenOrdered == Spec => []TakenInOrder
<1>1. OrderInv => TakenInOrder
  BY DEF OrderInv
<1> QED
  BY <1>1, OrderInvariant, PTL

-----------------------------------------------------------------------------
(* Nothing is lost unseen.                                                 *)

\* The packets on the line and the one in the slot are those that arrived; of
\* the packet in the slot the bytes before read_pos have been read; those
\* before it are accounted for.
Accounted(b) ==
  /\ \A k \in 1 .. Len(b.line) : b.line[k] = arrived[b.packet.id + k]
  /\ b.packet.id > 0 => b.packet = arrived[b.packet.id]
  /\ b.read_pos <= b.packet.len
  /\ b.ready => b.packet.id > 0 /\ ReadFrom(b.packet.id) = 0 .. b.read_pos - 1
  /\ \A i \in Ids :
       i < b.packet.id \/ (i = b.packet.id /\ ~b.ready) =>
         i \in Taken \/ ReadFrom(i) = 0 .. arrived[i].len - 1

LossInv ==
  /\ OrderInv
  /\ Accounted(inbox)
  /\ \A k \in 1 .. Len(input) : input[k].id > 0

\* process_serial accounts for what it puts in the slot.
LEMMA ProcessSerialAccounted ==
  ASSUME Histories, NEW b, Ordered(b), Accounted(b)
  PROVE  Accounted(process_serial(b))
<1>1. CASE b.ready \/ b.line = <<>>
  BY <1>1 DEF process_serial
<1>2. CASE ~b.ready /\ b.line # <<>>
  <2>1. PICK p : p = [line |-> Tail(b.line), ready |-> TRUE, packet |-> Head(b.line),
                      read_pos |-> 0]
    OBVIOUS
  <2>2. /\ p.line = Tail(b.line) /\ p.ready /\ p.packet = Head(b.line) /\ p.read_pos = 0
        /\ process_serial(b) = p
    BY <1>2, <2>1 DEF process_serial
  <2>3. b.line \in Seq(Packets) /\ b.packet.id \in Nat
    BY DEF Ordered, Packets
  <2>4. /\ p.packet \in Packets /\ p.packet = b.line[1]
        /\ Len(p.line) = Len(b.line) - 1
        /\ \A k \in 1 .. Len(b.line) - 1 : p.line[k] = b.line[k + 1]
        /\ Len(b.line) \in Nat \ {0}
    BY <1>2, <2>2, <2>3
  <2>5. p.packet.id = b.packet.id + 1 /\ p.packet = arrived[b.packet.id + 1]
    BY <2>4 DEF Ordered, Accounted
  <2>6. \A k \in 1 .. Len(p.line) : p.line[k] = arrived[p.packet.id + k]
    <3> TAKE k \in 1 .. Len(p.line)
    <3>1. k \in Nat /\ k + 1 \in 1 .. Len(b.line) /\ p.line[k] = b.line[k + 1]
      BY <2>4
    <3>2. b.line[k + 1] = arrived[b.packet.id + (k + 1)]
      BY <3>1 DEF Accounted
    <3>3. b.packet.id + (k + 1) = (b.packet.id + 1) + k
      <4>1. \A m, n \in Nat : m + (n + 1) = (m + 1) + n
        OBVIOUS
      <4> QED BY <2>3, <3>1, <4>1
    <3> QED BY <2>5, <3>1, <3>2, <3>3
  <2>7. ReadFrom(p.packet.id) = 0 .. 0 - 1
    <3>1. ASSUME NEW k \in 1 .. Len(input)
          PROVE  input[k].id # p.packet.id
      <4>1. input[k] \in ReadBytes /\ input[k].id <= b.packet.id
        BY DEF Histories, Ordered
      <4>2. input[k].id \in Nat
        BY <4>1 DEF ReadBytes
      <4> QED BY <2>3, <2>5, <4>1, <4>2
    <3> QED BY <3>1 DEF ReadFrom
  <2>8. \A i \in Ids : i < p.packet.id => i < b.packet.id \/ i = b.packet.id
    <3>1. \A i \in Ids : i \in Nat
      BY DEF Ids
    <3> QED BY <2>3, <2>5, <3>1
  <2>9. /\ p.packet.id > 0 /\ p.read_pos <= p.packet.len
        /\ p.packet = arrived[p.packet.id]
    BY <2>2, <2>3, <2>4, <2>5 DEF Packets
  <2>10. p.ready => p.packet.id > 0 /\ ReadFrom(p.packet.id) = 0 .. p.read_pos - 1
    BY ONLY <2>2, <2>7, <2>9
  <2>11. \A i \in Ids :
           i < p.packet.id \/ (i = p.packet.id /\ ~p.ready) =>
             i \in Taken \/ ReadFrom(i) = 0 .. arrived[i].len - 1
    BY <1>2, <2>2, <2>8 DEF Accounted
  <2>12. Accounted(p)
    BY ONLY <2>6, <2>9, <2>10, <2>11 DEF Accounted
  <2> QED BY ONLY <2>2, <2>12
<1> QED BY <1>1, <1>2

\* One more byte read: it is added to those of its packet.
LEMMA ReadFromAppend ==
  ASSUME input \in Seq(ReadBytes), NEW e \in ReadBytes, input' = Append(input, e)
  PROVE  /\ ReadFrom(e.id)' = ReadFrom(e.id) \cup {e.pos}
         /\ \A i : i # e.id => ReadFrom(i)' = ReadFrom(i)
<1>1. /\ Len(input') = Len(input) + 1 /\ Len(input) \in Nat
      /\ \A k \in 1 .. Len(input) : input'[k] = input[k]
      /\ input'[Len(input) + 1] = e
  BY AppendFacts
<1>2. 1 .. Len(input') = 1 .. Len(input) \cup {Len(input) + 1}
  BY <1>1
<1>3. ASSUME NEW i, NEW x
      PROVE  x \in ReadFrom(i)' <=> x \in ReadFrom(i) \/ (i = e.id /\ x = e.pos)
  <2>1. x \in ReadFrom(i)' <=> \E k \in 1 .. Len(input') : input'[k].id = i /\ x = input'[k].pos
    BY DEF ReadFrom
  <2>2. x \in ReadFrom(i) <=> \E k \in 1 .. Len(input) : input[k].id = i /\ x = input[k].pos
    BY DEF ReadFrom
  <2>3. (\E k \in 1 .. Len(input') : input'[k].id = i /\ x = input'[k].pos)
          <=> \/ \E k \in 1 .. Len(input) : input'[k].id = i /\ x = input'[k].pos
              \/ input'[Len(input) + 1].id = i /\ x = input'[Len(input) + 1].pos
    BY <1>2
  <2>4. (\E k \in 1 .. Len(input) : input'[k].id = i /\ x = input'[k].pos)
          <=> \E k \in 1 .. Len(input) : input[k].id = i /\ x = input[k].pos
    BY <1>1
  <2> QED BY <1>1, <2>1, <2>2, <2>3, <2>4
<1>4. ReadFrom(e.id)' = ReadFrom(e.id) \cup {e.pos}
  <2>1. \A x : x \in ReadFrom(e.id)' <=> x \in ReadFrom(e.id) \cup {e.pos}
    BY <1>3
  <2> QED BY <2>1
<1>5. ASSUME NEW i, i # e.id
      PROVE  ReadFrom(i)' = ReadFrom(i)
  <2>1. \A x : x \in ReadFrom(i)' <=> x \in ReadFrom(i)
    BY <1>3, <1>5
  <2> QED BY <2>1
<1> QED BY <1>4, <1>5

LEMMA ReadAccounted ==
  ASSUME LossInv, NEW t, Read(t)
  PROVE  LossInv'
<1>1. PICK p : p = process_serial(inbox)
  OBVIOUS
<1>2. Ordered(p) /\ Accounted(p) /\ Histories
  BY <1>1, ProcessSerialOrdered, ProcessSerialAccounted DEF LossInv, OrderInv
<1>3. arrived' = arrived /\ taken' = taken
  BY DEF Read
<1>4. /\ p \in [line : Seq(Packets), ready : BOOLEAN, packet : Packets, read_pos : Nat]
      /\ p.packet.id \in Nat /\ p.packet.len \in Nat /\ p.read_pos \in Nat
  BY <1>2 DEF Ordered, Packets
<1>5. OrderInv'
  BY ReadOrdered DEF LossInv
<1>6. CASE p.ready /\ p.read_pos < p.packet.len
  <2>1. PICK e : e = [id |-> p.packet.id, pos |-> p.read_pos]
    OBVIOUS
  <2>2. e.id = p.packet.id /\ e.pos = p.read_pos /\ e \in ReadBytes
    BY <1>4, <2>1 DEF ReadBytes
  <2>3. inbox' = [p EXCEPT !.read_pos = @ + 1] /\ input' = input \o <<e>>
    BY <1>1, <1>6, <2>1 DEF Read, HAL_read
  <2>4. /\ inbox'.line = p.line /\ inbox'.ready /\ inbox'.packet = p.packet
        /\ inbox'.read_pos = p.read_pos + 1
    BY <1>4, <1>6, <2>3
  <2>5. input \in Seq(ReadBytes) /\ input' = Append(input, e)
    BY <1>2, <2>2, <2>3, AppendFacts DEF Histories
  <2>6. /\ ReadFrom(p.packet.id)' = ReadFrom(p.packet.id) \cup {p.read_pos}
        /\ \A i : i # p.packet.id => ReadFrom(i)' = ReadFrom(i)
    BY <2>2, <2>5, ReadFromAppend
  <2>7. ReadFrom(p.packet.id)' = 0 .. (p.read_pos + 1) - 1
    <3>1. (0 .. p.read_pos - 1) \cup {p.read_pos} = 0 .. (p.read_pos + 1) - 1
      BY <1>4
    <3> QED BY <1>2, <1>6, <2>6, <3>1 DEF Accounted
  <2>8. p.read_pos + 1 <= p.packet.len
    BY <1>4, <1>6
  <2>9. \A i \in Ids : i < p.packet.id => i # p.packet.id
    BY <1>4 DEF Ids
  <2>10. Accounted(inbox)'
    BY <1>2, <1>3, <1>6, <2>4, <2>6, <2>7, <2>8, <2>9 DEF Accounted, Ids, Taken
  <2>11. \A k \in 1 .. Len(input') : input'[k].id > 0
    <3>1. /\ Len(input') = Len(input) + 1 /\ Len(input) \in Nat
          /\ \A k \in 1 .. Len(input) : input'[k] = input[k]
          /\ input'[Len(input) + 1] = e
      BY <2>2, <2>5, AppendFacts
    <3>2. 1 .. Len(input') = 1 .. Len(input) \cup {Len(input) + 1}
      BY <3>1
    <3>3. e.id > 0
      BY <1>2, <1>6, <2>2 DEF Accounted
    <3> QED BY <3>1, <3>2, <3>3 DEF LossInv
  <2> QED BY <1>5, <2>10, <2>11 DEF LossInv
<1>7. CASE ~(p.ready /\ p.read_pos < p.packet.len)
  <2>1. inbox' = [p EXCEPT !.ready = FALSE] /\ input' = input \o <<>>
    BY <1>1, <1>7 DEF Read, HAL_read
  <2>2. input' = input
    BY <1>2, <2>1 DEF Histories
  <2>3. /\ inbox'.line = p.line /\ ~inbox'.ready /\ inbox'.packet = p.packet
        /\ inbox'.read_pos = p.read_pos
    BY <1>4, <2>1
  <2>4. p.ready => ReadFrom(p.packet.id) = 0 .. arrived[p.packet.id].len - 1
    <3>1. p.ready => p.read_pos = p.packet.len /\ p.packet = arrived[p.packet.id]
      BY <1>2, <1>4, <1>7 DEF Accounted
    <3> QED BY <1>2, <3>1 DEF Accounted
  <2>5. Accounted(inbox)'
    BY <1>2, <1>3, <2>2, <2>3, <2>4 DEF Accounted, Ids, Taken, ReadFrom
  <2> QED BY <1>5, <2>2, <2>5 DEF LossInv
<1> QED BY <1>6, <1>7

LEMMA DaemonAccounted ==
  ASSUME LossInv, Comm_process
  PROVE  LossInv'
<1>1. PICK p : p = process_serial(inbox)
  OBVIOUS
<1>2. Ordered(p) /\ Accounted(p) /\ Histories
  BY <1>1, ProcessSerialOrdered, ProcessSerialAccounted DEF LossInv, OrderInv
<1>3. arrived' = arrived /\ input' = input
  BY DEF Comm_process
<1>4. /\ p \in [line : Seq(Packets), ready : BOOLEAN, packet : Packets, read_pos : Nat]
      /\ p.packet \in Packets /\ p.packet.len >= 0
  BY <1>2 DEF Ordered, Packets
<1>5. OrderInv'
  BY DaemonOrdered DEF LossInv
<1>6. CASE p.ready
  <2>1. /\ inbox' = [p EXCEPT !.ready = FALSE, !.read_pos = 0]
        /\ taken' = Append(taken, p.packet)
    BY <1>1, <1>6 DEF Comm_process, HAL_readPacket
  <2>2. /\ inbox'.line = p.line /\ ~inbox'.ready /\ inbox'.packet = p.packet
        /\ inbox'.read_pos = 0
    BY <1>4, <2>1
  <2>3. /\ Len(taken') = Len(taken) + 1 /\ Len(taken) \in Nat
        /\ \A k \in 1 .. Len(taken) : taken'[k] = taken[k]
        /\ taken'[Len(taken) + 1] = p.packet
    BY <1>2, <1>4, <2>1, AppendFacts DEF Histories
  <2>4. Taken \subseteq Taken' /\ p.packet.id \in Taken'
    <3>1. 1 .. Len(taken') = 1 .. Len(taken) \cup {Len(taken) + 1}
      BY <2>3
    <3> QED BY <2>3, <3>1 DEF Taken
  <2>5. \A i \in Ids : i < p.packet.id \/ i = p.packet.id =>
          i \in Taken' \/ ReadFrom(i) = 0 .. arrived[i].len - 1
    BY <1>2, <2>4 DEF Accounted
  <2>6. \A i : ReadFrom(i)' = ReadFrom(i)
    BY <1>3 DEF ReadFrom
  <2>7. /\ \A k \in 1 .. Len(p.line) : p.line[k] = arrived[p.packet.id + k]
        /\ p.packet.id > 0 => p.packet = arrived[p.packet.id]
        /\ 0 <= p.packet.len
    BY <1>2, <1>4 DEF Accounted, Packets
  <2>8. Ids' = Ids
    BY <1>3 DEF Ids
  <2>9. Accounted(inbox)'
    BY <1>3, <2>2, <2>5, <2>6, <2>7, <2>8 DEF Accounted
  <2> QED BY <1>3, <1>5, <2>9 DEF LossInv
<1>7. CASE ~p.ready
  <2>1. inbox' = p /\ taken' = taken
    BY <1>1, <1>7 DEF Comm_process, HAL_readPacket
  <2>2. Accounted(inbox)'
    BY <1>2, <1>3, <2>1 DEF Accounted, Ids, Taken, ReadFrom
  <2> QED BY <1>3, <1>5, <2>2 DEF LossInv
<1> QED BY <1>6, <1>7

LEMMA ArrivalAccounted ==
  ASSUME LossInv, NEW c \in Commands, Arrives(c)
  PROVE  LossInv'
<1>1. PICK p : p = [id |-> Len(arrived) + 1, cmd |-> c.cmd, len |-> c.len]
  OBVIOUS
<1>2. /\ Len(arrived) < MaxPackets
      /\ inbox' = [inbox EXCEPT !.line = Append(@, p)]
      /\ arrived' = Append(arrived, p)
      /\ input' = input /\ taken' = taken
  BY <1>1 DEF Arrives
<1>3. OrderInv' /\ Histories /\ Ordered(inbox) /\ Accounted(inbox)
  BY ArrivalOrdered DEF LossInv, OrderInv
<1>4. /\ inbox \in [line : Seq(Packets), ready : BOOLEAN, packet : Packets, read_pos : Nat]
      /\ arrived \in Seq(Packets)
      /\ inbox.packet.id \in Nat /\ inbox.packet.id + Len(inbox.line) = Len(arrived)
  BY <1>3 DEF Ordered, Histories, Packets
<1>5. p \in Packets
  <2>1. Len(arrived) \in Nat /\ MaxPackets \in Nat
    BY <1>4, ClientAssumption
  <2>2. c.cmd \in {"none", "stdin", "exec", "other"} /\ c.len \in Nat
    BY ClientAssumption
  <2> QED BY <1>1, <1>2, <2>1, <2>2 DEF Packets
<1>6. /\ Len(arrived') = Len(arrived) + 1 /\ Len(arrived) \in Nat
      /\ \A i \in 1 .. Len(arrived) : arrived'[i] = arrived[i]
      /\ arrived'[Len(arrived) + 1] = p
  BY <1>2, <1>4, <1>5, AppendFacts
<1>7. /\ Len(Append(inbox.line, p)) = Len(inbox.line) + 1 /\ Len(inbox.line) \in Nat
      /\ \A k \in 1 .. Len(inbox.line) : Append(inbox.line, p)[k] = inbox.line[k]
      /\ Append(inbox.line, p)[Len(inbox.line) + 1] = p
  BY <1>4, <1>5, AppendFacts
<1>8. /\ inbox'.line = Append(inbox.line, p) /\ inbox'.ready = inbox.ready
      /\ inbox'.packet = inbox.packet /\ inbox'.read_pos = inbox.read_pos
  BY <1>2, <1>4
<1>9. PICK m \in Nat, n \in Nat : m = inbox.packet.id /\ n = Len(inbox.line)
  BY <1>4, <1>7
<1>10. m + n = Len(arrived) /\ m + (n + 1) = Len(arrived) + 1
  <2>1. m + n = Len(arrived)
    BY ONLY <1>4, <1>9
  <2>2. m + (n + 1) = (m + n) + 1
    OBVIOUS
  <2> QED BY ONLY <2>1, <2>2
<1>11. \A k \in 1 .. Len(inbox'.line) : inbox'.line[k] = arrived'[m + k]
  <2> SUFFICES ASSUME NEW k \in 1 .. n + 1 PROVE inbox'.line[k] = arrived'[m + k]
    BY <1>7, <1>8, <1>9
  <2>1. CASE k \in 1 .. n
    <3>1. m + k \in 1 .. Len(arrived)
      BY <1>10, <2>1
    <3>2. inbox.line[k] = arrived[m + k]
      BY <1>3, <1>9, <2>1 DEF Accounted
    <3> QED BY <1>6, <1>7, <1>8, <1>9, <2>1, <3>1, <3>2
  <2>2. CASE k = n + 1
    BY <1>6, <1>7, <1>8, <1>9, <1>10, <2>2
  <2>3. k \in 1 .. n \/ k = n + 1
    OBVIOUS
  <2> QED BY <2>1, <2>2, <2>3
<1>12. m > 0 => inbox.packet = arrived'[m]
  <2>1. m > 0 => m \in 1 .. Len(arrived)
    BY <1>10
  <2> QED BY <1>3, <1>6, <1>9, <2>1 DEF Accounted
<1>13. \A i \in Ids' :
         i < m \/ (i = m /\ ~inbox.ready) =>
           i \in Taken \/ ReadFrom(i) = 0 .. arrived'[i].len - 1
  <2> SUFFICES ASSUME NEW i \in Ids', i < m \/ (i = m /\ ~inbox.ready)
               PROVE  i \in Taken \/ ReadFrom(i) = 0 .. arrived'[i].len - 1
    OBVIOUS
  <2>1. i \in 1 .. Len(arrived)
    BY <1>6, <1>10 DEF Ids
  <2>2. arrived'[i] = arrived[i]
    BY <1>6, <2>1
  <2> QED BY <1>3, <1>9, <2>1, <2>2 DEF Accounted, Ids
<1>14. Taken' = Taken /\ \A i : ReadFrom(i)' = ReadFrom(i)
  BY <1>2 DEF Taken, ReadFrom
<1>15. Accounted(inbox)'
  BY <1>3, <1>8, <1>9, <1>11, <1>12, <1>13, <1>14 DEF Accounted
<1> QED BY <1>2, <1>3, <1>15 DEF LossInv

LEMMA LossInvariant == Spec => []LossInv
<1>1. Init => LossInv
  <2> SUFFICES ASSUME Init PROVE LossInv
    OBVIOUS
  <2>1. inbox = EmptyInbox /\ arrived = <<>> /\ input = <<>> /\ taken = <<>>
    BY DEF Init
  <2>2. OrderInv
    BY InitOrdered
  <2>3. Accounted(inbox)
    BY <2>1 DEF Accounted, EmptyInbox, NoPacket, Ids
  <2> QED BY <2>1, <2>2, <2>3 DEF LossInv
<1>2. LossInv /\ [Next]_vars => LossInv'
  <2> SUFFICES ASSUME LossInv, [Next]_vars PROVE LossInv'
    OBVIOUS
  <2>1. CASE UNCHANGED <<inboxVars, arrived>>
    <3>1. OrderInv'
      BY <2>1 DEF inboxVars, LossInv, OrderInv, Histories, Ordered, InputInOrder, TakenInOrder
    <3> QED BY <2>1, <3>1 DEF inboxVars, LossInv, Accounted, Ids, Taken, ReadFrom
  <2>2. CASE \E c \in Commands : Arrives(c)
    BY <2>2, ArrivalAccounted
  <2>3. CASE Comm_process
    BY <2>3, DaemonAccounted
  <2>4. CASE \E t \in K!VmTasks : Read(t)
    BY <2>4, ReadAccounted
  <2>5. CASE (\E t \in K!Tasks : Skip(t)) \/ (\E t \in K!VmTasks : Other(t))
    BY <2>1, <2>5 DEF Skip, Other
  <2>6. CASE UNCHANGED vars
    BY <2>1, <2>6 DEF vars
  <2> QED BY <2>2, <2>3, <2>4, <2>5, <2>6 DEF Next, Turns
<1> QED BY <1>1, <1>2, PTL DEF Spec

\* A packet that is gone was handled by the daemon or read to its last byte,
\* however the two take turns (process_serial, HAL_read, HAL_readPacket).
THEOREM NothingLostUnseen == Spec => []NothingUnseen
<1>1. LossInv => NothingUnseen
  <2> SUFFICES ASSUME LossInv, NEW i \in Ids \ (Waiting \cup InSlot \cup Taken)
               PROVE  ReadFrom(i) = 0 .. arrived[i].len - 1
    BY DEF NothingUnseen
  <2>1. /\ Ordered(inbox) /\ Accounted(inbox)
        /\ inbox.packet.id \in Nat /\ Len(inbox.line) \in Nat
    BY DEF LossInv, OrderInv, Ordered, Packets
  <2>2. PICK m \in Nat, n \in Nat :
          m = inbox.packet.id /\ n = Len(inbox.line) /\ m + n = Len(arrived)
    BY <2>1 DEF Ordered
  <2>3. i \in 1 .. m + n
    BY <2>2 DEF Ids
  <2>4. ~(i > m)
    <3>1. SUFFICES ASSUME i > m PROVE FALSE
      OBVIOUS
    <3>2. i - m \in 1 .. n /\ m + (i - m) = i
      BY <2>3, <3>1
    <3>3. inbox.line[i - m].id = m + (i - m)
      BY <2>1, <2>2, <3>2 DEF Ordered
    <3>4. i \in Waiting
      BY <2>2, <3>2, <3>3 DEF Waiting
    <3> QED BY <3>4
  <2>5. i < m \/ (i = m /\ ~inbox.ready)
    BY <2>2, <2>3, <2>4 DEF InSlot
  <2> QED BY <2>1, <2>2, <2>5 DEF Accounted
<1> QED BY <1>1, LossInvariant, PTL

LEMMA SeqOfElements ==
  ASSUME NEW S, NEW T, NEW s \in Seq(T), \A k \in 1 .. Len(s) : s[k] \in S
  PROVE  s \in Seq(S)
OBVIOUS

\* The inbox and what became of the packets stay well-formed; read_pos never
\* goes past the packet's end (HAL_read).
THEOREM InboxTyped == Spec => []TypeOK
<1>1. LossInv => TypeOK
  <2> SUFFICES ASSUME LossInv PROVE TypeOK
    OBVIOUS
  <2>1. Histories /\ Ordered(inbox) /\ Accounted(inbox)
    BY DEF LossInv, OrderInv
  <2>2. input \in Seq([id : Ids, pos : Nat])
    <3>1. ASSUME NEW k \in 1 .. Len(input)
          PROVE  input[k] \in [id : Ids, pos : Nat]
      <4>1. input[k] \in ReadBytes /\ input[k].id <= inbox.packet.id /\ input[k].id > 0
        BY <2>1 DEF Histories, Ordered, LossInv
      <4>2. /\ inbox.packet.id \in Nat /\ Len(inbox.line) \in Nat
            /\ inbox.packet.id + Len(inbox.line) = Len(arrived)
        BY <2>1 DEF Ordered, Packets
      <4>3. input[k].id \in 1 .. Len(arrived)
        BY <4>1, <4>2 DEF ReadBytes
      <4> QED BY <4>1, <4>3 DEF ReadBytes, Ids
    <3> QED BY <2>1, <3>1, SeqOfElements DEF Histories
  <2> QED BY <2>1, <2>2 DEF TypeOK, Histories, Ordered, Accounted
<1> QED BY <1>1, LossInvariant, PTL
=============================================================================
