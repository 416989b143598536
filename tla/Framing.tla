------------------------------ MODULE Framing -------------------------------
(***************************************************************************)
(* The serial receiver, byte by byte: the line from the client, the ring   *)
(* buffer of the serial driver, process_serial of src/src/HAL.cpp and      *)
(* sp_parse_packet of src/lib/StreamProtocol/StreamProtocol.cpp.           *)
(*                                                                         *)
(* A packet is header, payload and CRC; only its length matters here, and  *)
(* packets of one length are taken to be the same packet.  A byte of the   *)
(* stream is known by the packet it was sent in and its position there,    *)
(* and by whether it arrived as it was sent.  The CRC is taken to detect   *)
(* whatever is not one packet from its first byte to its last.             *)
(***************************************************************************)
EXTENDS Integers, Sequences, FiniteSets

CONSTANTS
  SP_HEADER_SIZE, CRC_SIZE,
  HAL_RX_RAW_SIZE,
  RING_SIZE,   \* what the ring buffer of the driver holds
  Lengths,     \* lengths of the packets the client may send
  MaxPackets,  \* bound on the packets it sends
  MaxFaults    \* bound on the bytes the line loses or damages

\* Shortest packet: no payload.
MinLength == SP_HEADER_SIZE + CRC_SIZE

ASSUME FramingAssumption ==
  /\ SP_HEADER_SIZE \in Nat \ {0} /\ CRC_SIZE \in Nat \ {0}
  /\ HAL_RX_RAW_SIZE \in Nat /\ HAL_RX_RAW_SIZE >= MinLength
  /\ RING_SIZE \in Nat /\ MaxPackets \in Nat /\ MaxFaults \in Nat
  /\ Lengths \subseteq Nat
  /\ \A len \in Lengths : len >= MinLength

VARIABLES
  sent,      \* the packets sent, by their lengths
  at,        \* the byte that is sent next: packet and position
  ring,      \* the ring buffer of the serial driver
  raw,       \* hal_raw_buffer up to hal_raw_index
  declared,  \* the length field of the header in raw
  slot,      \* the packet that is ready, by its length; 0 if there is none
  delivered, \* history: the packets that became ready
  inStep,    \* history: the packets whose first byte found raw empty
  count,     \* history: how many bytes the line has lost or damaged
  broken,    \* history: the packets that did not arrive byte for byte
  slipped    \* history: a byte was lost, or one of a header damaged

line == <<sent, at>>
faults == <<count, broken, slipped>>
receiver == <<raw, declared, slot, delivered, inStep>>
vars == <<line, ring, receiver, faults>>

Init ==
  /\ sent = <<>> /\ at = [id |-> 1, pos |-> 0]
  /\ ring = <<>>
  /\ raw = <<>> /\ declared = 0
  /\ slot = 0
  /\ delivered = <<>> /\ inStep = {}
  /\ count = 0 /\ broken = {} /\ slipped = FALSE

-----------------------------------------------------------------------------
(* The line and the driver.                                                *)

\* The client writes a packet.  Packets that still wait in the PC for the line
\* to become free are as good as not written.
Send(len) ==
  /\ Len(sent) < MaxPackets /\ at.id > Len(sent)
  /\ sent' = Append(sent, len)
  /\ UNCHANGED <<at, ring, receiver, faults>>

\* The next byte goes over the line.
ByteSent ==
  /\ at.id <= Len(sent)
  /\ at' = IF at.pos + 1 < sent[at.id] THEN [at EXCEPT !.pos = @ + 1]
           ELSE [id |-> at.id + 1, pos |-> 0]
  /\ UNCHANGED <<sent, receiver>>

Break(slips) == broken' = broken \cup {at.id} /\ slipped' = (slipped \/ slips)

Room == Len(ring) < RING_SIZE

IntoRing(ok) == ring' = Append(ring, [id |-> at.id, pos |-> at.pos, ok |-> ok])

Arrives ==
  /\ ByteSent
  /\ Room /\ IntoRing(TRUE)
  /\ UNCHANGED faults

\* The receive interrupt of the driver drops what the ring cannot hold.
Overruns ==
  /\ ByteSent
  /\ ~Room
  /\ Break(TRUE)
  /\ UNCHANGED <<ring, count>>

\* A damaged byte that finds the ring full is just an overrun.
Damaged ==
  /\ ByteSent
  /\ count < MaxFaults /\ count' = count + 1
  /\ Room /\ IntoRing(FALSE)
  /\ Break(at.pos < SP_HEADER_SIZE)

Lost ==
  /\ ByteSent
  /\ count < MaxFaults /\ count' = count + 1
  /\ Break(TRUE)
  /\ UNCHANGED ring

-----------------------------------------------------------------------------
(* process_serial.                                                         *)

\* The first n bytes of r are those of one packet (of that length).
BeginsPacket(r, n, len) ==
  \A k \in 1 .. n : r[k].ok /\ r[k].pos = k - 1 /\ sent[r[k].id] = len

\* The length the header of r declares, once it is complete.  A header put
\* together from anything but one packet's declares any length; those that
\* do not fit are all alike.
HeaderLengths(r) ==
  CASE Len(r) < SP_HEADER_SIZE -> {0}
    [] Len(r) > SP_HEADER_SIZE -> {declared}
    [] Len(r) = SP_HEADER_SIZE ->
         LET own == {len \in Lengths : BeginsPacket(r, SP_HEADER_SIZE, len)}
         IN IF own # {} THEN own ELSE 0 .. HAL_RX_RAW_SIZE + 1

\* Mutants: the last byte is not counted; a packet without payload is not one;
\* the CRC is not looked at.
ParseOneMore(r, len) ==
  IF len < MinLength \/ Len(r) <= len THEN "SP_ERR_BUFFER_TOO_SMALL"
  ELSE IF BeginsPacket(r, len, len) THEN "SP_OK" ELSE "SP_ERR_CRC_MISMATCH"

ParseNoEmpty(r, len) ==
  IF len <= MinLength \/ Len(r) < len THEN "SP_ERR_BUFFER_TOO_SMALL"
  ELSE IF BeginsPacket(r, len, len) THEN "SP_OK" ELSE "SP_ERR_CRC_MISMATCH"

ParseNoCrc(r, len) ==
  IF len < MinLength \/ Len(r) < len THEN "SP_ERR_BUFFER_TOO_SMALL" ELSE "SP_OK"

sp_parse_packet(r, len) ==
  IF len < MinLength \/ Len(r) < len THEN "SP_ERR_BUFFER_TOO_SMALL"
  ELSE IF BeginsPacket(r, len, len) THEN "SP_OK" ELSE "SP_ERR_CRC_MISMATCH"

\* Mutant: one byte too many.
CollectTooMany(b) == IF Len(raw) > HAL_RX_RAW_SIZE THEN <<b>> ELSE Append(raw, b)

\* The buffer starts again when it is full.
Collect(b) == IF Len(raw) >= HAL_RX_RAW_SIZE THEN <<b>> ELSE Append(raw, b)

\* Mutants: the shortest packet is not looked at when it is complete; an error
\* leaves the buffer as it is.
ParsedLate(r, len, last) ==
  LET result == IF Len(r) <= MinLength THEN "SP_ERR_BUFFER_TOO_SMALL"
                ELSE sp_parse_packet(r, len)
  IN /\ raw' = CASE result = "SP_OK" -> SubSeq(r, len + 1, Len(r))
                 [] result = "SP_ERR_BUFFER_TOO_SMALL" -> r
                 [] result = "SP_ERR_CRC_MISMATCH" -> <<>>
     /\ declared' = IF result = "SP_ERR_BUFFER_TOO_SMALL" THEN len ELSE 0
     /\ slot' = IF result = "SP_OK" THEN len ELSE 0
     /\ delivered' = IF result = "SP_OK" THEN Append(delivered, last) ELSE delivered

ParsedKeepsOnError(r, len, last) ==
  LET result == IF Len(r) < MinLength THEN "SP_ERR_BUFFER_TOO_SMALL"
                ELSE sp_parse_packet(r, len)
  IN /\ raw' = CASE result = "SP_OK" -> SubSeq(r, len + 1, Len(r))
                 [] result = "SP_ERR_BUFFER_TOO_SMALL" -> r
                 [] result = "SP_ERR_CRC_MISMATCH" -> r
     /\ declared' = IF result # "SP_OK" THEN len ELSE 0
     /\ slot' = IF result = "SP_OK" THEN len ELSE 0
     /\ delivered' = IF result = "SP_OK" THEN Append(delivered, last) ELSE delivered

\* A complete packet goes to the slot and what is behind it to the front; an
\* error empties the buffer.
Parsed(r, len, last) ==
  LET result == IF Len(r) < MinLength THEN "SP_ERR_BUFFER_TOO_SMALL"
                ELSE sp_parse_packet(r, len)
  IN /\ raw' = CASE result = "SP_OK" -> SubSeq(r, len + 1, Len(r))
                 [] result = "SP_ERR_BUFFER_TOO_SMALL" -> r
                 [] result = "SP_ERR_CRC_MISMATCH" -> <<>>
     /\ declared' = IF result = "SP_ERR_BUFFER_TOO_SMALL" THEN len ELSE 0
     /\ slot' = IF result = "SP_OK" THEN len ELSE 0
     /\ delivered' = IF result = "SP_OK" THEN Append(delivered, last) ELSE delivered

\* One iteration of the loop.  Between iterations further bytes may arrive;
\* the loop ends when the ring is empty or a packet is complete.
ReadByte ==
  /\ slot = 0
  /\ ring # <<>>
  /\ ring' = Tail(ring)
  /\ LET b == Head(ring)
         r == Collect(b)
     IN /\ \E len \in HeaderLengths(r) : Parsed(r, len, b.id)
        /\ inStep' = IF b.pos = 0 /\ Len(r) = 1 THEN inStep \cup {b.id} ELSE inStep
  /\ UNCHANGED <<line, faults>>

\* HAL_readPacket, or HAL_read past the last byte.
Consume ==
  /\ slot # 0
  /\ slot' = 0
  /\ UNCHANGED <<line, ring, raw, declared, delivered, inStep, faults>>

Next ==
  \/ \E len \in Lengths : Send(len)
  \/ Arrives \/ Overruns \/ Damaged \/ Lost
  \/ ReadByte
  \/ Consume

Spec == Init /\ [][Next]_vars

\* Bytes sent arrive or are lost, and the daemon polls the receiver in every
\* round of the scheduler and takes what is ready (PacketsLeave in
\* System.tla).  The client need not send anything.
Fairness ==
  /\ WF_vars(Arrives \/ Overruns \/ Damaged \/ Lost)
  /\ WF_vars(ReadByte)
  /\ WF_vars(Consume)

FairSpec == Spec /\ Fairness

-----------------------------------------------------------------------------
(* Properties.                                                             *)

Positions == [id : 1 .. MaxPackets + 1, pos : Nat]
Bytes == [id : 1 .. MaxPackets, pos : Nat, ok : BOOLEAN]

\* Types, and the limits of both buffers.
TypeOK ==
  /\ sent \in Seq(Lengths) /\ Len(sent) <= MaxPackets
  /\ at \in Positions
  /\ ring \in Seq(Bytes) /\ Len(ring) <= RING_SIZE
  /\ raw \in Seq(Bytes) /\ Len(raw) <= HAL_RX_RAW_SIZE
  /\ declared \in Nat
  /\ slot \in Lengths \cup {0}
  /\ delivered \in Seq(1 .. MaxPackets)
  /\ inStep \subseteq 1 .. MaxPackets
  /\ count \in 0 .. MaxFaults /\ broken \subseteq 1 .. MaxPackets
  /\ slipped \in BOOLEAN

Delivered == {delivered[k] : k \in 1 .. Len(delivered)}

\* The packets read from the ring to their last byte, or lost before.
Read == 1 .. (IF ring = <<>> THEN at ELSE Head(ring)).id - 1

\* Packets that arrived byte for byte and fit in hal_raw_buffer.
Intact == {i \in (1 .. Len(sent)) \ broken : sent[i] <= HAL_RX_RAW_SIZE}

AllFit == \A i \in 1 .. Len(sent) : sent[i] <= HAL_RX_RAW_SIZE

\* When process_serial completes a packet nothing is left in hal_raw_buffer:
\* no packet lies there complete and waits for a further byte to be parsed.
NothingBehindPacket == slot # 0 => raw = <<>>

\* To be in step is all it takes: an intact packet whose first byte finds
\* hal_raw_buffer empty is delivered, whatever happened before.
InStepIsDelivered == Intact \cap inStep \cap Read \subseteq Delivered

\* Damage to payload or CRC costs the damaged packet alone: the reset after
\* a CRC error comes at the end of that packet, so the next is in step.
DamageIsContained == ~slipped /\ AllFit => Delivered = Read \ broken

\* Without faults every packet comes out in the end.
CleanLineDelivers == \A i \in 1 .. MaxPackets :
  (i <= Len(sent)) ~> (i \in Delivered \/ broken # {} \/ ~AllFit)

\* Whatever is lost, damaged or out of step, what comes out are packets that
\* were sent, in order and once.
LL == INSTANCE LossyLine
        WITH passed <- IF delivered = <<>> THEN 0 ELSE delivered[Len(delivered)]

ImplementsLossyLine == LL!Spec
=============================================================================
