----------------------------- MODULE LossyLine ------------------------------
(***************************************************************************)
(* What the serial receiver promises of the packets of the client: some    *)
(* may get lost, but those that come out are packets that were sent, in    *)
(* the order they were sent, and each of them once.                        *)
(***************************************************************************)
EXTENDS Naturals, Sequences

CONSTANTS Lengths, MaxPackets

VARIABLES
  sent,   \* the packets sent, by their lengths
  passed, \* how many of them have come out or can come out no more
  slot    \* the length of the packet that waits for its consumer, or 0

vars == <<sent, passed, slot>>

Init == sent = <<>> /\ passed = 0 /\ slot = 0

Send(len) ==
  /\ Len(sent) < MaxPackets
  /\ sent' = Append(sent, len)
  /\ UNCHANGED <<passed, slot>>

Deliver(i) ==
  /\ slot = 0
  /\ i > passed
  /\ passed' = i
  /\ slot' = sent[i]
  /\ UNCHANGED sent

Consume ==
  /\ slot # 0
  /\ slot' = 0
  /\ UNCHANGED <<sent, passed>>

Next ==
  \/ \E len \in Lengths : Send(len)
  \/ \E i \in 1 .. Len(sent) : Deliver(i)
  \/ Consume

Spec == Init /\ [][Next]_vars
=============================================================================
