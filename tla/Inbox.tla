------------------------------- MODULE Inbox --------------------------------
(***************************************************************************)
(* The one-packet inbox of src/src/HAL.cpp and its two consumers: HAL_read *)
(* serves OP_READ byte by byte, HAL_readPacket gives the communication     *)
(* daemon the packet as a whole.  Functions from inbox to inbox; who calls *)
(* them, and when, is in System.tla.                                       *)
(*                                                                         *)
(* An inbox is the packets that have arrived but are still in the serial   *)
(* buffers (line), and the slot of the last packet taken from there.       *)
(* Arrival is without loss or damage here.                                 *)
(***************************************************************************)
EXTENDS Integers, Sequences

NoPacket == [id |-> 0, cmd |-> "none", len |-> 0]

EmptyInbox == [line |-> <<>>, ready |-> FALSE, packet |-> NoPacket, read_pos |-> 0]

\* Mutants: read_pos is reset before the test for a packet in the slot, or
\* not at all.
ProcessSerialRestarts(b) ==
  IF b.ready \/ b.line = <<>> THEN [b EXCEPT !.read_pos = 0]
  ELSE [line |-> Tail(b.line), ready |-> TRUE, packet |-> Head(b.line), read_pos |-> 0]

ProcessSerialKeepsReadPos(b) ==
  IF b.ready \/ b.line = <<>> THEN b
  ELSE [line |-> Tail(b.line), ready |-> TRUE, packet |-> Head(b.line),
        read_pos |-> b.read_pos]

\* Nothing is taken from the line while the slot is occupied, and at most
\* one packet at a time.
process_serial(b) ==
  IF b.ready \/ b.line = <<>> THEN b
  ELSE [line |-> Tail(b.line), ready |-> TRUE, packet |-> Head(b.line), read_pos |-> 0]

\* Mutant: one byte too many.
HAL_readTooFar(b) ==
  LET p == process_serial(b)
  IN IF p.ready /\ p.read_pos <= p.packet.len
     THEN [inbox |-> [p EXCEPT !.read_pos = @ + 1],
           bytes |-> <<[id |-> p.packet.id, pos |-> p.read_pos]>>]
     ELSE [inbox |-> [p EXCEPT !.ready = FALSE], bytes |-> <<>>]

\* The next byte of the packet in the slot, if any, whatever its command.
\* Only the call that finds no byte left empties the slot.
HAL_read(b) ==
  LET p == process_serial(b)
  IN IF p.ready /\ p.read_pos < p.packet.len
     THEN [inbox |-> [p EXCEPT !.read_pos = @ + 1],
           bytes |-> <<[id |-> p.packet.id, pos |-> p.read_pos]>>]
     ELSE [inbox |-> [p EXCEPT !.ready = FALSE], bytes |-> <<>>]

\* Mutant: the slot stays occupied.
ReadPacketKeepsSlot(b) ==
  LET p == process_serial(b)
  IN [inbox |-> [p EXCEPT !.read_pos = 0],
      packets |-> IF p.ready THEN {p.packet} ELSE {}]

\* The packet in the slot, if any, also one that HAL_read has begun.
HAL_readPacket(b) ==
  LET p == process_serial(b)
  IN [inbox |-> IF p.ready THEN [p EXCEPT !.ready = FALSE, !.read_pos = 0] ELSE p,
      packets |-> IF p.ready THEN {p.packet} ELSE {}]
=============================================================================
