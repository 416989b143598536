--------------------------- MODULE FramingProofs ----------------------------
(***************************************************************************)
(* Proofs about Framing.tla: whatever the line loses or damages and the    *)
(* ring drops, the serial receiver implements LossyLine.                   *)
(***************************************************************************)
EXTENDS Framing, TLAPS

\* The bytes on their way: those in the ring, then the one sent next.
Byte(k) == IF k <= Len(ring) THEN ring[k] ELSE at

Upcoming == Byte(1)

Before(x, y) == x.id < y.id \/ (x.id = y.id /\ x.pos < y.pos)

Follows(x, y) ==
  IF x.pos + 1 < sent[x.id] THEN y.id = x.id /\ y.pos = x.pos + 1
  ELSE y.id = x.id + 1 /\ y.pos = 0

\* Two bytes on their way, one behind the other: nothing was between them, or
\* it was lost and the packets it was of are broken.
Adjacent(x, y) ==
  \/ Follows(x, y)
  \/ /\ slipped /\ Before(x, y)
     /\ x.pos + 1 < sent[x.id] => x.id \in broken
     /\ y.pos > 0 => y.id \in broken
     /\ \A i \in x.id + 1 .. y.id - 1 : i \in broken

OnTheWay ==
  /\ at.id <= Len(sent) + 1
  /\ at.id <= Len(sent) => at.pos < sent[at.id]
  /\ at.id = Len(sent) + 1 => at.pos = 0
  /\ \A k \in 1 .. Len(ring) :
       /\ ring[k].id <= Len(sent) /\ ring[k].id <= at.id /\ ring[k].pos < sent[ring[k].id]
       /\ Adjacent(ring[k], Byte(k + 1))
       /\ ring[k].id \notin broken => ring[k].ok
  /\ \A k \in 1 .. Len(delivered) : delivered[k] < Upcoming.id

\* Bytes stay in the order they were sent.
InSequence ==
  /\ \A k \in 1 .. Len(ring) : Before(ring[k], at)
  /\ \A j, k \in 1 .. Len(ring) : j < k => Before(ring[j], ring[k])

\* What is in hal_raw_buffer is not all of a packet.
Incomplete == Len(raw) < MinLength \/ declared < MinLength \/ Len(raw) < declared

\* Intact packets that have begun in step are in hal_raw_buffer as far as they
\* have been read.
InStepSoFar ==
  /\ \A i \in inStep : i < Upcoming.id \/ (i = Upcoming.id /\ Upcoming.pos > 0)
  /\ \A i \in inStep : i = Upcoming.id /\ i \in Intact =>
       /\ Len(raw) = Upcoming.pos
       /\ \A k \in 1 .. Len(raw) : raw[k].id = i /\ raw[k].pos = k - 1 /\ raw[k].ok
       /\ Upcoming.pos >= SP_HEADER_SIZE => declared = sent[i]

\* As long as every header arrives, the packet in hal_raw_buffer is the one
\* whose bytes come next, and a broken one still has its damaged byte.
InStepForSure ==
  ~slipped /\ AllFit =>
    /\ Len(raw) = Upcoming.pos
    /\ \A k \in 1 .. Len(raw) :
         /\ raw[k].id = Upcoming.id /\ raw[k].pos = k - 1
         /\ k <= SP_HEADER_SIZE => raw[k].ok
         /\ Upcoming.id \notin broken => raw[k].ok
    /\ \A k \in 1 .. Len(ring) : ring[k].pos < SP_HEADER_SIZE => ring[k].ok
    /\ Upcoming.pos >= SP_HEADER_SIZE => declared = sent[Upcoming.id]
    /\ \A i \in broken : i >= Upcoming.id =>
         \/ \E k \in 1 .. Len(ring) : ring[k].id = i /\ ~ring[k].ok
         \/ \E k \in 1 .. Len(raw) : raw[k].id = i /\ ~raw[k].ok

FramingInv ==
  /\ TypeOK
  /\ OnTheWay /\ InSequence
  /\ Incomplete
  /\ NothingBehindPacket
  /\ InStepSoFar /\ InStepIsDelivered
  /\ InStepForSure /\ DamageIsContained

-----------------------------------------------------------------------------
(* Facts about the state.                                                  *)

LEMMA Sizes ==
  /\ SP_HEADER_SIZE \in Nat /\ SP_HEADER_SIZE > 0 /\ CRC_SIZE \in Nat /\ CRC_SIZE > 0
  /\ MinLength \in Nat /\ MinLength > SP_HEADER_SIZE
  /\ HAL_RX_RAW_SIZE \in Nat /\ HAL_RX_RAW_SIZE >= MinLength
  /\ RING_SIZE \in Nat /\ MaxPackets \in Nat /\ MaxFaults \in Nat
  /\ \A len \in Lengths : len \in Nat /\ len >= MinLength
BY FramingAssumption DEF MinLength

LEMMA SeqFacts ==
  ASSUME NEW S, NEW s \in Seq(S)
  PROVE  Len(s) \in Nat /\ \A k \in 1 .. Len(s) : s[k] \in S
  OBVIOUS

\* What TypeOK says of single bytes, positions and lengths.
LEMMA Typed ==
  ASSUME TypeOK
  PROVE  /\ Len(sent) \in 0 .. MaxPackets /\ \A i \in 1 .. Len(sent) :
              sent[i] \in Lengths /\ sent[i] \in Nat /\ sent[i] >= MinLength
         /\ at.id \in 1 .. MaxPackets + 1 /\ at.pos \in Nat
         /\ Len(ring) \in Nat /\ \A k \in 1 .. Len(ring) :
              ring[k].id \in 1 .. MaxPackets /\ ring[k].pos \in Nat /\ ring[k].ok \in BOOLEAN
         /\ Len(raw) \in Nat /\ declared \in Nat /\ Len(delivered) \in Nat
         /\ \A k \in 1 .. Len(delivered) : delivered[k] \in Nat
<1>1. /\ sent \in Seq(Lengths) /\ Len(sent) <= MaxPackets
      /\ at \in Positions /\ ring \in Seq(Bytes) /\ raw \in Seq(Bytes)
      /\ delivered \in Seq(1 .. MaxPackets) /\ declared \in Nat
  BY DEF TypeOK
<1>2. /\ Len(sent) \in Nat /\ Len(ring) \in Nat /\ Len(raw) \in Nat /\ Len(delivered) \in Nat
      /\ \A i \in 1 .. Len(sent) : sent[i] \in Lengths
      /\ \A k \in 1 .. Len(ring) : ring[k] \in Bytes
      /\ \A k \in 1 .. Len(delivered) : delivered[k] \in 1 .. MaxPackets
  <2>1. Len(sent) \in Nat /\ \A i \in 1 .. Len(sent) : sent[i] \in Lengths
    BY ONLY <1>1, SeqFacts
  <2>2. Len(ring) \in Nat /\ \A k \in 1 .. Len(ring) : ring[k] \in Bytes
    BY ONLY <1>1, SeqFacts
  <2>3. Len(delivered) \in Nat /\ \A k \in 1 .. Len(delivered) : delivered[k] \in 1 .. MaxPackets
    BY ONLY <1>1, SeqFacts
  <2>4. Len(raw) \in Nat
    BY ONLY <1>1, SeqFacts
  <2> QED BY ONLY <2>1, <2>2, <2>3, <2>4
<1>3. Len(sent) \in 0 .. MaxPackets /\ \A i \in 1 .. Len(sent) :
        sent[i] \in Lengths /\ sent[i] \in Nat /\ sent[i] >= MinLength
  BY <1>1, <1>2, Sizes
<1>4. at.id \in 1 .. MaxPackets + 1 /\ at.pos \in Nat
  BY <1>1 DEF Positions
<1>5. \A k \in 1 .. Len(ring) :
        ring[k].id \in 1 .. MaxPackets /\ ring[k].pos \in Nat /\ ring[k].ok \in BOOLEAN
  BY <1>2 DEF Bytes
<1>6. \A k \in 1 .. Len(delivered) : delivered[k] \in Nat
  BY <1>2, Sizes
<1> QED BY <1>1, <1>2, <1>3, <1>4, <1>5, <1>6

\* The first byte on its way, as Read and Byte see it.
LEMMA FirstOnTheWay ==
  ASSUME NEW r \in Seq(Bytes), NEW a
  PROVE  (IF r = <<>> THEN a ELSE Head(r)) = IF 1 <= Len(r) THEN r[1] ELSE a
<1>1. CASE r = <<>>
  BY <1>1
<1>2. CASE r # <<>>
  BY <1>2
<1> QED BY <1>1, <1>2

\* The byte that is read next.
LEMMA UpcomingFacts ==
  ASSUME TypeOK, OnTheWay
  PROVE  /\ Upcoming.id \in Nat /\ Upcoming.id > 0 /\ Upcoming.pos \in Nat
         /\ Upcoming.id <= Len(sent) + 1 /\ Upcoming.id <= at.id
         /\ Upcoming.id <= Len(sent) => Upcoming.pos < sent[Upcoming.id]
         /\ Upcoming.pos > 0 => Upcoming.id \in 1 .. Len(sent)
         /\ Read = 1 .. Upcoming.id - 1
<1>0. Read = 1 .. Upcoming.id - 1
  <2>1. ring \in Seq(Bytes)
    BY DEF TypeOK
  <2> QED BY <2>1, FirstOnTheWay DEF Read, Upcoming, Byte
<1>1. CASE ~(1 <= Len(ring))
  <2>1. Upcoming = at
    BY <1>1 DEF Upcoming, Byte
  <2> QED BY <1>0, <2>1, Typed, Sizes DEF OnTheWay
<1>2. CASE 1 <= Len(ring)
  <2>1. Upcoming = ring[1]
    BY <1>2 DEF Upcoming, Byte
  <2>2. /\ ring[1].id \in 1 .. MaxPackets /\ ring[1].pos \in Nat
        /\ ring[1].id <= Len(sent) /\ ring[1].id <= at.id
        /\ ring[1].pos < sent[ring[1].id]
    BY <1>2, Typed DEF OnTheWay
  <2>3. sent[ring[1].id] \in Nat /\ Len(sent) \in Nat /\ at.id \in Nat
    BY <2>2, Typed
  <2>4. ring[1].id \in Nat /\ ring[1].id > 0
    BY ONLY <2>2, Sizes
  <2> QED BY ONLY <1>0, <2>1, <2>2, <2>3, <2>4
<1> QED BY <1>1, <1>2

\* A sequence and one element more.
LEMMA AppendFacts ==
  ASSUME NEW S, NEW s \in Seq(S), NEW e \in S
  PROVE  /\ Append(s, e) \in Seq(S)
         /\ Len(Append(s, e)) = Len(s) + 1 /\ Len(s) \in Nat
         /\ \A k \in 1 .. Len(s) : Append(s, e)[k] = s[k]
         /\ Append(s, e)[Len(s) + 1] = e
  OBVIOUS

LEMMA InitInv == Init => FramingInv
<1> SUFFICES ASSUME Init PROVE FramingInv
  OBVIOUS
<1> USE Sizes
<1>1. Upcoming = at /\ Read = {} /\ Delivered = {}
  BY DEF Init, Upcoming, Byte, Read, Delivered
<1>2. TypeOK
  <2>1. at \in Positions
    BY DEF Init, Positions
  <2>2. /\ sent = <<>> /\ sent \in Seq(Lengths) /\ ring \in Seq(Bytes) /\ raw \in Seq(Bytes)
        /\ delivered \in Seq(1 .. MaxPackets)
    BY DEF Init
  <2>3. Len(sent) <= MaxPackets /\ Len(ring) <= RING_SIZE /\ Len(raw) <= HAL_RX_RAW_SIZE
    BY DEF Init
  <2>4. /\ declared \in Nat /\ slot \in Lengths \cup {0} /\ inStep \subseteq 1 .. MaxPackets
        /\ count \in 0 .. MaxFaults /\ broken \subseteq 1 .. MaxPackets
    BY DEF Init
  <2>5. slipped \in BOOLEAN
    BY DEF Init
  <2> QED BY ONLY <2>1, <2>2, <2>3, <2>4, <2>5 DEF TypeOK
<1>3. OnTheWay /\ InSequence
  BY <1>1 DEF Init, OnTheWay, InSequence
<1>4. Incomplete /\ NothingBehindPacket
  BY DEF Init, Incomplete, NothingBehindPacket
<1>5. InStepSoFar /\ InStepIsDelivered
  BY <1>1 DEF Init, InStepSoFar, InStepIsDelivered
<1>6. InStepForSure /\ DamageIsContained
  BY <1>1 DEF Init, InStepForSure, DamageIsContained
<1> QED BY <1>2, <1>3, <1>4, <1>5, <1>6 DEF FramingInv

-----------------------------------------------------------------------------
(* The client and the consumer.                                            *)

\* A packet more is sent: nothing that is on its way changes.
LEMMA SendInv ==
  ASSUME FramingInv, NEW len \in Lengths, Send(len)
  PROVE  FramingInv'
<1> USE Sizes
<1>0. /\ TypeOK /\ OnTheWay /\ InSequence /\ Incomplete /\ NothingBehindPacket /\ InStepSoFar
      /\ InStepIsDelivered /\ InStepForSure /\ DamageIsContained
  BY DEF FramingInv
<1>1. /\ Len(sent) < MaxPackets /\ at.id > Len(sent) /\ sent' = Append(sent, len)
      /\ at' = at /\ ring' = ring /\ raw' = raw /\ declared' = declared /\ slot' = slot
      /\ delivered' = delivered /\ inStep' = inStep /\ count' = count
      /\ broken' = broken /\ slipped' = slipped
  BY DEF Send, receiver, faults
<1>2. /\ sent' \in Seq(Lengths) /\ Len(sent') = Len(sent) + 1 /\ Len(sent) \in Nat
      /\ \A i \in 1 .. Len(sent) : sent'[i] = sent[i]
      /\ sent'[Len(sent) + 1] = len
  <2>1. sent \in Seq(Lengths)
    BY <1>0 DEF TypeOK
  <2> QED BY <1>1, <2>1, AppendFacts
<1>3. /\ Upcoming' = Upcoming /\ \A k \in Nat : Byte(k)' = Byte(k)
      /\ Read' = Read /\ Delivered' = Delivered
  BY <1>1 DEF Upcoming, Byte, Read, Delivered
<1>4. at.id = Len(sent) + 1 /\ at.pos = 0 /\ MinLength > 0 /\ len >= MinLength
  BY <1>0, <1>1, <1>2, Typed DEF OnTheWay
<1>5. TypeOK'
  <2>1. Len(sent') <= MaxPackets
    BY <1>1, <1>2
  <2> QED BY <1>0, <1>1, <1>2, <2>1 DEF TypeOK
<1>6. OnTheWay'
  <2>1. /\ at'.id <= Len(sent') + 1 /\ at'.id # Len(sent') + 1
        /\ at'.pos < sent'[at'.id]
    BY <1>1, <1>2, <1>4
  <2>2. ASSUME NEW k \in 1 .. Len(ring)
        PROVE  /\ ring[k].id <= Len(sent') /\ ring[k].id <= at.id
               /\ ring[k].pos < sent'[ring[k].id]
               /\ Adjacent(ring[k], Byte(k + 1))'
    <3>1. /\ ring[k].id \in 1 .. Len(sent) /\ ring[k].id <= at.id
          /\ ring[k].pos < sent[ring[k].id]
          /\ Adjacent(ring[k], Byte(k + 1))
      BY <1>0, Typed DEF OnTheWay
    <3>2. sent'[ring[k].id] = sent[ring[k].id]
      BY <1>2, <3>1
    <3>3. k + 1 \in Nat /\ ring'[k] = ring[k]
      BY <1>1, Typed, <1>0
    <3>4. Byte(k + 1)' = Byte(k + 1)
      BY <1>3, <3>3
    <3>5. Adjacent(ring[k], Byte(k + 1))'
      BY <1>1, <3>1, <3>2, <3>3, <3>4 DEF Adjacent, Follows, Before
    <3> QED BY <1>2, <3>1, <3>2, <3>5
  <2>3. \A k \in 1 .. Len(ring) : ring[k].id \notin broken => ring[k].ok
    BY <1>0 DEF OnTheWay
  <2>4. \A k \in 1 .. Len(delivered) : delivered[k] < Upcoming.id
    BY <1>0 DEF OnTheWay
  <2> QED BY <1>1, <1>3, <2>1, <2>2, <2>3, <2>4 DEF OnTheWay
<1>7. Incomplete' /\ NothingBehindPacket' /\ InSequence'
  BY <1>0, <1>1 DEF Incomplete, NothingBehindPacket, InSequence, Before
<1>8. \A i \in inStep : i \in 1 .. Len(sent)
  <2> TAKE i \in inStep
  <2>1. i \in Nat /\ i > 0 /\ (i < Upcoming.id \/ (i = Upcoming.id /\ Upcoming.pos > 0))
    BY <1>0 DEF InStepSoFar, TypeOK
  <2>2. /\ Upcoming.id \in Nat /\ Upcoming.id <= Len(sent) + 1
        /\ Upcoming.pos > 0 => Upcoming.id \in 1 .. Len(sent)
    BY <1>0, UpcomingFacts
  <2> QED BY <1>2, <2>1, <2>2
<1>9. \A i \in 1 .. Len(sent) : i \in Intact' <=> i \in Intact
  BY <1>1, <1>2 DEF Intact
<1>10. InStepSoFar'
  BY <1>0, <1>1, <1>2, <1>3, <1>8, <1>9 DEF InStepSoFar
<1>11. InStepIsDelivered'
  BY <1>0, <1>1, <1>3, <1>8, <1>9 DEF InStepIsDelivered
<1>12. AllFit' => AllFit
  BY <1>2 DEF AllFit
<1>13. InStepForSure'
  <2>1. Upcoming.pos >= SP_HEADER_SIZE => sent'[Upcoming.id] = sent[Upcoming.id]
    BY <1>0, <1>2, UpcomingFacts
  <2> QED BY <1>0, <1>1, <1>3, <1>12, <2>1 DEF InStepForSure
<1>14. DamageIsContained'
  BY <1>0, <1>1, <1>3, <1>12 DEF DamageIsContained
<1> QED BY <1>5, <1>6, <1>7, <1>10, <1>11, <1>13, <1>14 DEF FramingInv

\* HAL_readPacket, or the last HAL_read, frees the slot.
LEMMA ConsumeInv == FramingInv /\ Consume => FramingInv'
<1> SUFFICES ASSUME FramingInv, Consume PROVE FramingInv'
  OBVIOUS
<1>1. /\ sent' = sent /\ slot' = 0
      /\ at' = at /\ ring' = ring /\ raw' = raw /\ declared' = declared
      /\ delivered' = delivered /\ inStep' = inStep /\ count' = count
      /\ broken' = broken /\ slipped' = slipped
  BY DEF Consume, line, faults
<1>2. /\ Upcoming' = Upcoming /\ \A k : Byte(k)' = Byte(k)
      /\ Read' = Read /\ Delivered' = Delivered /\ Intact' = Intact /\ AllFit' = AllFit
  BY <1>1 DEF Upcoming, Byte, Read, Delivered, Intact, AllFit
<1>3. TypeOK'
  BY <1>1 DEF FramingInv, TypeOK
<1>4. OnTheWay'
  BY <1>1, <1>2 DEF FramingInv, OnTheWay, Adjacent, Follows, Before
<1>5. Incomplete' /\ NothingBehindPacket' /\ InSequence'
  BY <1>1 DEF FramingInv, Incomplete, NothingBehindPacket, InSequence, Before
<1>6. InStepSoFar' /\ InStepIsDelivered'
  BY <1>1, <1>2 DEF FramingInv, InStepSoFar, InStepIsDelivered
<1>7. InStepForSure' /\ DamageIsContained'
  BY <1>1, <1>2 DEF FramingInv, InStepForSure, DamageIsContained
<1> QED BY <1>3, <1>4, <1>5, <1>6, <1>7 DEF FramingInv

-----------------------------------------------------------------------------
(* The line.                                                               *)

\* The byte sent next is the one that follows.
LEMMA NextSent ==
  ASSUME TypeOK, OnTheWay, ByteSent
  PROVE  /\ at.id \in 1 .. Len(sent) /\ at.pos < sent[at.id]
         /\ sent' = sent /\ raw' = raw /\ declared' = declared /\ slot' = slot
         /\ delivered' = delivered /\ inStep' = inStep
         /\ at' \in Positions /\ at'.id >= at.id /\ at'.id <= Len(sent) + 1
         /\ at'.id <= Len(sent) => at'.pos < sent[at'.id]
         /\ at'.id = Len(sent) + 1 => at'.pos = 0
         /\ Follows(at, at')
<1> USE Sizes
<1>1. /\ at \in Positions /\ at.id \in 1 .. Len(sent) /\ at.pos < sent[at.id] /\ at.pos \in Nat
      /\ Len(sent) \in 0 .. MaxPackets
      /\ sent' = sent /\ raw' = raw /\ declared' = declared /\ slot' = slot
      /\ delivered' = delivered /\ inStep' = inStep
      /\ at' = IF at.pos + 1 < sent[at.id] THEN [at EXCEPT !.pos = @ + 1]
               ELSE [id |-> at.id + 1, pos |-> 0]
  <2>1. at \in Positions /\ Len(sent) \in 0 .. MaxPackets /\ at.id \in 1 .. MaxPackets + 1
        /\ at.pos \in Nat
    BY Typed DEF TypeOK
  <2>2. at.id <= Len(sent) /\ at.pos < sent[at.id]
    BY DEF ByteSent, OnTheWay
  <2>3. /\ sent' = sent /\ raw' = raw /\ declared' = declared /\ slot' = slot
        /\ delivered' = delivered /\ inStep' = inStep
        /\ at' = IF at.pos + 1 < sent[at.id] THEN [at EXCEPT !.pos = @ + 1]
                 ELSE [id |-> at.id + 1, pos |-> 0]
    BY DEF ByteSent, receiver
  <2> QED BY ONLY <2>1, <2>2, <2>3, Sizes
<1>2. CASE at.pos + 1 < sent[at.id]
  <2>1. at' \in Positions /\ at'.id = at.id /\ at'.pos = at.pos + 1
    BY <1>1, <1>2 DEF Positions
  <2> QED BY <1>1, <1>2, <2>1 DEF Follows
<1>3. CASE ~(at.pos + 1 < sent[at.id])
  <2>1. at' \in Positions /\ at'.id = at.id + 1 /\ at'.pos = 0
    BY <1>1, <1>3 DEF Positions
  <2>2. at'.id <= Len(sent) => at'.pos < sent[at'.id]
    <3>1. at'.id \in Nat /\ at'.id > 0
      BY <1>1, <2>1
    <3>2. \A i \in 1 .. Len(sent) : sent[i] \in Nat /\ sent[i] >= MinLength
      BY Typed
    <3>3. Len(sent) \in Nat
        BY ONLY <1>1, Sizes
      <3> QED BY ONLY <2>1, <3>1, <3>2, <3>3, Sizes
  <2> QED BY <1>1, <1>3, <2>1, <2>2 DEF Follows
<1> QED BY <1>2, <1>3

\* More packets may be broken: what was adjacent is.
LEMMA AdjacentStays ==
  ASSUME NEW x, NEW y, NEW z, Adjacent(x, y), z.id = y.id, z.pos = y.pos,
         sent' = sent, broken \subseteq broken', slipped => slipped'
  PROVE  Adjacent(x, z)'
  BY DEF Adjacent, Follows, Before

\* A byte that is lost, on the line or because the ring is full.
LEMMA LostInv ==
  ASSUME FramingInv, ByteSent, ring' = ring, count' \in 0 .. MaxFaults, Break(TRUE)
  PROVE  FramingInv'
<1> USE Sizes
<1>0. /\ TypeOK /\ OnTheWay /\ InSequence /\ Incomplete /\ NothingBehindPacket /\ InStepSoFar
      /\ InStepIsDelivered /\ InStepForSure /\ DamageIsContained
  BY DEF FramingInv
<1>1. broken' = broken \cup {at.id} /\ slipped'
  BY DEF Break
<1>2. /\ at.id \in 1 .. Len(sent) /\ at.pos < sent[at.id]
      /\ sent' = sent /\ raw' = raw /\ declared' = declared /\ slot' = slot
      /\ delivered' = delivered /\ inStep' = inStep
      /\ at' \in Positions /\ at'.id >= at.id /\ at'.id <= Len(sent) + 1
      /\ at'.id <= Len(sent) => at'.pos < sent[at'.id]
      /\ at'.id = Len(sent) + 1 => at'.pos = 0
      /\ Follows(at, at')
  BY <1>0, NextSent
<1>3. at'.id \in Nat /\ at'.pos \in Nat /\ at.id \in Nat /\ at.pos \in Nat
  BY <1>0, <1>2, Typed DEF Positions
<1>4. TypeOK'
  <2>1. broken' \subseteq 1 .. MaxPackets /\ slipped' \in BOOLEAN
    <3>1. at.id \in 1 .. MaxPackets
      BY <1>0, <1>2, Typed
    <3>2. broken' \subseteq 1 .. MaxPackets
      BY <1>0, <1>1, <3>1 DEF TypeOK
    <3>3. slipped' = TRUE
      BY DEF Break
    <3> QED BY <3>2, <3>3
  <2> QED BY <1>0, <1>2, <2>1 DEF TypeOK
<1>5. \A k \in 1 .. Len(ring) : Byte(k)' = ring[k] /\ Byte(k) = ring[k]
  BY DEF Byte
<1>6. Byte(Len(ring) + 1)' = at' /\ Byte(Len(ring) + 1) = at
  BY <1>0, Typed DEF Byte
<1>7. ASSUME NEW k \in 1 .. Len(ring) PROVE Adjacent(ring[k], Byte(k + 1))'
  <2>1. Adjacent(ring[k], Byte(k + 1)) /\ k \in Nat /\ Len(ring) \in Nat
    <3>1. Adjacent(ring[k], Byte(k + 1))
      BY <1>0 DEF OnTheWay
    <3> QED BY <1>0, <3>1, Typed
  <2>2. CASE k < Len(ring)
    <3>1. Byte(k + 1)' = Byte(k + 1)
      BY <1>5, <2>1, <2>2
    <3> QED BY <1>1, <1>2, <2>1, <3>1 DEF Adjacent, Follows, Before
  <2>3. CASE k = Len(ring)
    <3>0. PICK x : x = ring[k]
      OBVIOUS
    <3>1. x.id \in Nat /\ x.pos \in Nat /\ Adjacent(x, at) /\ Byte(k + 1)' = at'
      BY <1>0, <1>6, <2>1, <2>3, <3>0, Typed
    <3>2. Before(x, at)
      BY <1>3, <3>1 DEF Adjacent, Follows, Before
    <3>3. Before(x, at')
      BY <1>3, <1>2, <3>1, <3>2 DEF Before, Follows
    <3>4. x.pos + 1 < sent[x.id] => x.id \in broken'
      BY <1>1, <3>1 DEF Adjacent, Follows
    <3>5. at'.pos > 0 => at'.id \in broken'
      BY <1>1, <1>2, <1>3 DEF Follows
    <3>6. \A i \in x.id + 1 .. at'.id - 1 : i \in broken'
      <4> TAKE i \in x.id + 1 .. at'.id - 1
      <4>0. at'.id = at.id \/ at'.id = at.id + 1
        BY <1>2 DEF Follows
      <4>1. i \in x.id + 1 .. at.id - 1 \/ i = at.id
        BY ONLY <1>3, <3>1, <4>0
      <4>2. i \in x.id + 1 .. at.id - 1 => i \in broken
        BY <1>3, <3>1 DEF Adjacent, Follows
      <4> QED BY <1>1, <4>1, <4>2
    <3>7. Adjacent(x, at)'
      BY <1>1, <1>2, <3>3, <3>4, <3>5, <3>6 DEF Adjacent, Before
    <3>8. ring'[k] = x /\ Byte(k + 1)' = at'
      BY <3>0, <3>1
    <3> QED BY <3>0, <3>7, <3>8 DEF Adjacent, Follows, Before
  <2> QED BY <2>1, <2>2, <2>3
<1>8. /\ Len(ring) >= 1 => Upcoming' = Upcoming
      /\ ~(Len(ring) >= 1) => Upcoming' = at' /\ Upcoming = at
  BY <1>0, Typed DEF Upcoming, Byte
<1>9. OnTheWay'
  <2>1. ASSUME NEW k \in 1 .. Len(ring)
        PROVE  /\ ring[k].id <= Len(sent) /\ ring[k].id <= at'.id
               /\ ring[k].pos < sent[ring[k].id]
               /\ ring[k].id \notin broken' => ring[k].ok
    <3>1. /\ ring[k].id <= Len(sent) /\ ring[k].id <= at.id
          /\ ring[k].pos < sent[ring[k].id]
          /\ ring[k].id \notin broken => ring[k].ok
      BY <1>0 DEF OnTheWay
    <3>2. ring[k].id \in Nat
      <4>1. ring[k].id \in 1 .. MaxPackets
        BY <1>0, Typed
      <4> QED BY ONLY <4>1, Sizes
    <3> QED BY ONLY <1>1, <1>2, <1>3, <3>1, <3>2
  <2>2. ASSUME NEW k \in 1 .. Len(delivered) PROVE delivered[k] < Upcoming'.id
    <3>1. delivered[k] < Upcoming.id /\ delivered[k] \in Nat
      BY <1>0, Typed DEF OnTheWay
    <3> QED BY <1>2, <1>3, <1>8, <3>1
  <2> QED BY <1>2, <1>7, <2>1, <2>2 DEF OnTheWay
<1>10. Incomplete' /\ NothingBehindPacket' /\ InSequence'
  <2>1. ASSUME NEW k \in 1 .. Len(ring) PROVE Before(ring[k], at)'
    <3>1. Before(ring[k], at) /\ ring[k].id \in Nat /\ ring[k].pos \in Nat
      BY <1>0, Typed DEF InSequence
    <3>2. at.id < at'.id \/ (at.id = at'.id /\ at.pos < at'.pos)
      BY ONLY <1>2, <1>3 DEF Follows
    <3>3. PICK x, z : x = ring[k] /\ z = at'
      OBVIOUS
    <3>4. Before(x, z)
      BY ONLY <1>3, <3>1, <3>2, <3>3 DEF Before
    <3> QED BY <1>2, <3>3, <3>4 DEF Before
  <2>2. \A j, k \in 1 .. Len(ring) : j < k => Before(ring[j], ring[k])'
    BY <1>0 DEF InSequence, Before
  <2> QED BY <1>0, <1>2, <2>1, <2>2 DEF Incomplete, NothingBehindPacket, InSequence
<1>11. Intact' = Intact \ {at.id}
  BY <1>1, <1>2 DEF Intact
<1>12. ASSUME NEW i \in inStep
       PROVE  /\ i < Upcoming'.id \/ (i = Upcoming'.id /\ Upcoming'.pos > 0)
              /\ i = Upcoming'.id /\ i \in Intact' => Upcoming' = Upcoming
  <2>1. i \in Nat /\ (i < Upcoming.id \/ (i = Upcoming.id /\ Upcoming.pos > 0))
    BY <1>0 DEF InStepSoFar, TypeOK
  <2>2. CASE Len(ring) >= 1
    BY <1>8, <2>1, <2>2
  <2>3. CASE ~(Len(ring) >= 1)
    BY <1>2, <1>3, <1>8, <1>11, <2>1, <2>3 DEF Follows
  <2> QED BY <2>2, <2>3
<1>13. InStepSoFar'
  BY <1>0, <1>2, <1>11, <1>12 DEF InStepSoFar
<1>14. InStepIsDelivered'
  <2>1. Read = 1 .. Upcoming.id - 1
    BY <1>0, UpcomingFacts
  <2>2. Read' = 1 .. Upcoming'.id - 1
    BY <1>4, FirstOnTheWay DEF Read, Upcoming, Byte, TypeOK
  <2>3. \A i \in Read' : i \in Read \/ i = at.id
    BY <1>2, <1>3, <1>8, <2>1, <2>2 DEF Follows
  <2>4. Delivered' = Delivered
    BY <1>2 DEF Delivered
  <2> QED BY <1>0, <1>2, <1>11, <2>3, <2>4 DEF InStepIsDelivered
<1>15. InStepForSure' /\ DamageIsContained'
  BY <1>1 DEF InStepForSure, DamageIsContained
<1> QED BY <1>4, <1>9, <1>10, <1>13, <1>14, <1>15 DEF FramingInv

\* A byte that comes into the ring, as it was sent or damaged.
LEMMA CameInv ==
  ASSUME FramingInv, ByteSent, NEW ok \in BOOLEAN, Room, IntoRing(ok), count' \in 0 .. MaxFaults,
         IF ok THEN broken' = broken /\ slipped' = slipped ELSE Break(at.pos < SP_HEADER_SIZE)
  PROVE  FramingInv'
<1> USE Sizes
<1>0. /\ TypeOK /\ OnTheWay /\ InSequence /\ Incomplete /\ NothingBehindPacket /\ InStepSoFar
      /\ InStepIsDelivered /\ InStepForSure /\ DamageIsContained
  BY DEF FramingInv
<1>1. PICK b : b = [id |-> at.id, pos |-> at.pos, ok |-> ok]
  OBVIOUS
<1>2. /\ at.id \in 1 .. Len(sent) /\ at.pos < sent[at.id]
      /\ sent' = sent /\ raw' = raw /\ declared' = declared /\ slot' = slot
      /\ delivered' = delivered /\ inStep' = inStep
      /\ at' \in Positions /\ at'.id >= at.id /\ at'.id <= Len(sent) + 1
      /\ at'.id <= Len(sent) => at'.pos < sent[at'.id]
      /\ at'.id = Len(sent) + 1 => at'.pos = 0
      /\ Follows(at, at')
  BY <1>0, NextSent
<1>3. /\ at'.id \in Nat /\ at'.pos \in Nat /\ at.id \in 1 .. MaxPackets /\ at.pos \in Nat
      /\ b.id = at.id /\ b.pos = at.pos /\ b.ok = ok /\ b \in Bytes
  <2>1. at'.id \in Nat /\ at'.pos \in Nat
    BY ONLY <1>2 DEF Positions
  <2>2. at.id \in 1 .. MaxPackets /\ at.pos \in Nat
    <3>1. Len(sent) \in 0 .. MaxPackets /\ at.pos \in Nat
      BY <1>0, Typed
    <3> QED BY ONLY <1>2, <3>1, Sizes
  <2>3. b.id = at.id /\ b.pos = at.pos /\ b.ok = ok
    BY ONLY <1>1
  <2>4. b \in Bytes
    BY ONLY <1>1, <2>2 DEF Bytes
  <2> QED BY ONLY <2>1, <2>2, <2>3, <2>4
<1>4. /\ ring' \in Seq(Bytes) /\ Len(ring') = Len(ring) + 1 /\ Len(ring) \in Nat
      /\ \A k \in 1 .. Len(ring) : ring'[k] = ring[k]
      /\ ring'[Len(ring) + 1] = b
  <2>1. ring \in Seq(Bytes) /\ ring' = Append(ring, b)
    BY <1>0, <1>1 DEF TypeOK, IntoRing
  <2> QED BY <1>3, <2>1, AppendFacts
<1>5. /\ broken \subseteq broken' /\ broken' \subseteq broken \cup {at.id}
      /\ ok => broken' = broken
      /\ ~ok => at.id \in broken'
      /\ slipped => slipped'
      /\ ~ok /\ at.pos < SP_HEADER_SIZE => slipped'
  BY DEF Break
<1>6. slipped' \in BOOLEAN
  <2>1. CASE ok
    BY <1>0, <2>1 DEF TypeOK
  <2>2. CASE ~ok
    BY <2>2 DEF Break
  <2> QED BY <2>1, <2>2
<1>7. TypeOK'
  <2>1. broken' \subseteq 1 .. MaxPackets
    BY <1>0, <1>3, <1>5 DEF TypeOK
  <2>2. Len(ring') <= RING_SIZE
    BY <1>4 DEF Room
  <2> QED BY <1>0, <1>2, <1>4, <1>6, <2>1, <2>2 DEF TypeOK
<1>8. \A k \in 1 .. Len(ring) : Byte(k)' = ring[k] /\ Byte(k) = ring[k]
  BY <1>4 DEF Byte
<1>9. PICK n \in Nat :
        n = Len(ring) /\ Byte(n + 1) = at /\ Byte(n + 1)' = b /\ Byte(n + 1 + 1)' = at'
  <2>1. PICK n \in Nat : n = Len(ring)
    BY <1>4
  <2>2. Byte(n + 1) = at /\ Byte(n + 1)' = b /\ Byte(n + 1 + 1)' = at'
    BY <1>4, <2>1 DEF Byte
  <2> QED BY <2>1, <2>2
<1>10. \A k \in 1 .. Len(ring) + 1 : Byte(k)'.id = Byte(k).id /\ Byte(k)'.pos = Byte(k).pos
  <2> TAKE k \in 1 .. Len(ring) + 1
  <2>1. k \in 1 .. Len(ring) \/ k = n + 1
    BY <1>4, <1>9
  <2>2. CASE k \in 1 .. Len(ring)
    BY <1>8, <2>2
  <2>3. CASE k = n + 1
    BY <1>3, <1>9, <2>3
  <2> QED BY <2>1, <2>2, <2>3
<1>11. Upcoming'.id = Upcoming.id /\ Upcoming'.pos = Upcoming.pos
  <2>1. 1 \in 1 .. Len(ring) + 1
    BY <1>4
  <2> QED BY <1>10, <2>1 DEF Upcoming
<1>12. ASSUME NEW k \in 1 .. Len(ring') PROVE Adjacent(ring[k], Byte(k + 1))'
  <2>1. CASE k \in 1 .. Len(ring)
    <3>1. PICK x : x = ring[k]
      OBVIOUS
    <3>2. PICK y : y = Byte(k + 1)
      OBVIOUS
    <3>3. PICK z : z = Byte(k + 1)'
      OBVIOUS
    <3>4. k + 1 \in 1 .. Len(ring) + 1
      BY <1>4, <2>1
    <3>5. z.id = y.id /\ z.pos = y.pos
      BY <1>10, <3>2, <3>3, <3>4
    <3>6. Adjacent(x, y)
      BY <1>0, <2>1, <3>1, <3>2 DEF OnTheWay
    <3>7. Adjacent(x, z)'
      BY <1>2, <1>5, <3>5, <3>6, AdjacentStays
    <3>8. ring'[k] = x
      BY <1>4, <2>1, <3>1
    <3> QED BY <3>3, <3>7, <3>8 DEF Adjacent, Follows, Before
  <2>2. CASE k = Len(ring) + 1
    <3>1. ring'[k] = b /\ k = n + 1
      BY <1>4, <1>9, <2>2
    <3>2. Byte(k + 1)' = at'
      BY <1>9, <3>1
    <3> QED BY <1>2, <1>3, <3>1, <3>2 DEF Adjacent, Follows
  <2> QED BY <1>4, <2>1, <2>2
<1>13. ASSUME NEW k \in 1 .. Len(ring')
       PROVE  /\ ring'[k].id <= Len(sent) /\ ring'[k].id <= at'.id
              /\ ring'[k].pos < sent[ring'[k].id]
              /\ ring'[k].id \notin broken' => ring'[k].ok
  <2>1. CASE k \in 1 .. Len(ring)
    <3>1. /\ ring[k].id <= Len(sent) /\ ring[k].id <= at.id /\ ring[k].id \in Nat
          /\ ring[k].pos < sent[ring[k].id]
          /\ ring[k].id \notin broken => ring[k].ok
      <4>1. ring[k].id \in Nat
        BY <1>0, <2>1, Typed
      <4> QED BY <1>0, <2>1, <4>1 DEF OnTheWay
    <3>2. ring'[k] = ring[k]
      BY <1>4, <2>1
    <3>3. PICK x : x = ring[k]
      OBVIOUS
    <3>4. x.id \notin broken' => x.ok
      BY <1>5, <3>1, <3>3
    <3>5. x.id <= at'.id
      <4>1. at.id \in Nat
        BY ONLY <1>3, Sizes
      <4> QED BY ONLY <1>2, <1>3, <3>1, <3>3, <4>1
    <3> QED BY ONLY <1>2, <3>1, <3>2, <3>3, <3>4, <3>5
  <2>2. CASE k = Len(ring) + 1
    <3>1. ring'[k] = b
      BY <1>4, <2>2
    <3> QED BY <1>2, <1>3, <1>5, <3>1
  <2> QED BY <1>4, <2>1, <2>2
<1>14. OnTheWay'
  <2>1. \A k \in 1 .. Len(delivered) : delivered[k] < Upcoming'.id
    BY <1>0, <1>11 DEF OnTheWay
  <2> QED BY <1>2, <1>12, <1>13, <2>1 DEF OnTheWay
<1>15. Incomplete' /\ NothingBehindPacket' /\ InSequence'
  <2>1. ASSUME NEW k \in 1 .. Len(ring)
        PROVE  /\ Before(ring[k], at) /\ ring[k].id \in Nat /\ ring[k].pos \in Nat
               /\ ring'[k] = ring[k]
    <3>1. Before(ring[k], at)
      BY <1>0 DEF InSequence
    <3>2. ring[k].id \in 1 .. MaxPackets /\ ring[k].pos \in Nat
      BY <1>0, Typed
    <3>3. ring'[k] = ring[k]
      BY <1>4
    <3> QED BY ONLY <3>1, <3>2, <3>3, Sizes
  <2>2. ASSUME NEW k \in 1 .. Len(ring') PROVE Before(ring[k], at)'
    <3>1. CASE k \in 1 .. Len(ring)
      <4>1. at.id < at'.id \/ (at.id = at'.id /\ at.pos < at'.pos)
        BY <1>2, <1>3 DEF Follows
      <4>2. Before(ring[k], at')
        <5>1. PICK x, z : x = ring[k] /\ z = at'
          OBVIOUS
        <5>2. at.id \in Nat
          BY ONLY <1>3, Sizes
        <5>3. Before(x, at) /\ x.id \in Nat /\ x.pos \in Nat
          BY ONLY <2>1, <3>1, <5>1
        <5>4. Before(x, z)
          BY ONLY <1>3, <4>1, <5>1, <5>2, <5>3 DEF Before
        <5> QED BY ONLY <5>1, <5>4
      <4> QED BY <2>1, <3>1, <4>2 DEF Before
    <3>2. CASE k = Len(ring) + 1
      <4>1. ring'[k] = b
        BY <1>4, <3>2
      <4>2. at.id < at'.id \/ (at.id = at'.id /\ at.pos < at'.pos)
        BY ONLY <1>2, <1>3 DEF Follows
      <4> QED BY ONLY <1>3, <4>1, <4>2 DEF Before
    <3> QED BY <1>4, <3>1, <3>2
  <2>3. ASSUME NEW j \in 1 .. Len(ring'), NEW k \in 1 .. Len(ring'), j < k
        PROVE  Before(ring[j], ring[k])'
    <3>1. j \in 1 .. Len(ring) /\ (k \in 1 .. Len(ring) \/ k = Len(ring) + 1)
      BY <1>4, <2>3
    <3>2. CASE k \in 1 .. Len(ring)
      <4>1. Before(ring[j], ring[k])
        BY <1>0, <2>3, <3>1, <3>2 DEF InSequence
      <4> QED BY <2>1, <3>1, <3>2, <4>1 DEF Before
    <3>3. CASE k = Len(ring) + 1
      <4>1. ring'[k] = b /\ ring'[j] = ring[j] /\ Before(ring[j], at)
        BY <1>4, <2>1, <3>1, <3>3
      <4> QED BY <1>3, <4>1 DEF Before
    <3> QED BY <3>1, <3>2, <3>3
  <2> QED BY <1>0, <1>2, <2>2, <2>3 DEF Incomplete, NothingBehindPacket, InSequence
<1>16. Intact' \subseteq Intact
  BY <1>2, <1>5 DEF Intact
<1>17. InStepSoFar'
  <2>1. \A i \in inStep : i < Upcoming'.id \/ (i = Upcoming'.id /\ Upcoming'.pos > 0)
    BY <1>0, <1>11 DEF InStepSoFar
  <2>2. ASSUME NEW i \in inStep, i = Upcoming'.id, i \in Intact'
        PROVE  /\ Len(raw) = Upcoming'.pos
               /\ \A k \in 1 .. Len(raw) : raw[k].id = i /\ raw[k].pos = k - 1 /\ raw[k].ok
               /\ Upcoming'.pos >= SP_HEADER_SIZE => declared = sent[i]
    BY <1>0, <1>11, <1>16, <2>2 DEF InStepSoFar
  <2> QED BY <1>2, <2>1, <2>2 DEF InStepSoFar
<1>18. Read' = Read
  <2>1. Read = 1 .. Upcoming.id - 1
    BY <1>0, UpcomingFacts
  <2>2. Read' = 1 .. Upcoming'.id - 1
    BY <1>4, FirstOnTheWay DEF Read, Upcoming, Byte
  <2> QED BY <1>11, <2>1, <2>2
<1>19. InStepIsDelivered'
  <2>1. Delivered' = Delivered
    BY <1>2 DEF Delivered
  <2> QED BY <1>0, <1>2, <1>16, <1>18, <2>1 DEF InStepIsDelivered
<1>20. AllFit' = AllFit
  BY <1>2 DEF AllFit
<1>21. InStepForSure'
  <2> SUFFICES ASSUME ~slipped', AllFit
               PROVE  /\ Len(raw) = Upcoming'.pos
                      /\ \A k \in 1 .. Len(raw) :
                           /\ raw[k].id = Upcoming'.id /\ raw[k].pos = k - 1
                           /\ k <= SP_HEADER_SIZE => raw[k].ok
                           /\ Upcoming'.id \notin broken' => raw[k].ok
                      /\ \A k \in 1 .. Len(ring') : ring'[k].pos < SP_HEADER_SIZE => ring'[k].ok
                      /\ Upcoming'.pos >= SP_HEADER_SIZE => declared = sent[Upcoming'.id]
                      /\ \A i \in broken' : i >= Upcoming'.id =>
                           \/ \E k \in 1 .. Len(ring') : ring'[k].id = i /\ ~ring'[k].ok
                           \/ \E k \in 1 .. Len(raw) : raw[k].id = i /\ ~raw[k].ok
    BY <1>2, <1>20 DEF InStepForSure
  <2>1. ~slipped /\ (ok \/ at.pos >= SP_HEADER_SIZE)
    BY <1>3, <1>5
  <2>2. /\ Len(raw) = Upcoming.pos
        /\ \A k \in 1 .. Len(raw) :
             /\ raw[k].id = Upcoming.id /\ raw[k].pos = k - 1
             /\ k <= SP_HEADER_SIZE => raw[k].ok
             /\ Upcoming.id \notin broken => raw[k].ok
        /\ \A k \in 1 .. Len(ring) : ring[k].pos < SP_HEADER_SIZE => ring[k].ok
        /\ Upcoming.pos >= SP_HEADER_SIZE => declared = sent[Upcoming.id]
        /\ \A i \in broken : i >= Upcoming.id =>
             \/ \E k \in 1 .. Len(ring) : ring[k].id = i /\ ~ring[k].ok
             \/ \E k \in 1 .. Len(raw) : raw[k].id = i /\ ~raw[k].ok
    BY <1>0, <2>1 DEF InStepForSure
  <2>3. \A k \in 1 .. Len(ring') : ring'[k].pos < SP_HEADER_SIZE => ring'[k].ok
    <3> TAKE k \in 1 .. Len(ring')
    <3>1. CASE k \in 1 .. Len(ring)
      BY <1>4, <2>2, <3>1
    <3>2. CASE k = Len(ring) + 1
      BY <1>3, <1>4, <2>1, <3>2
    <3> QED BY <1>4, <3>1, <3>2
  <2>4. ASSUME NEW i \in broken', i >= Upcoming'.id
        PROVE  \/ \E k \in 1 .. Len(ring') : ring'[k].id = i /\ ~ring'[k].ok
               \/ \E k \in 1 .. Len(raw) : raw[k].id = i /\ ~raw[k].ok
    <3>1. CASE i \in broken
      <4>1. ASSUME NEW k \in 1 .. Len(ring), ring[k].id = i, ~ring[k].ok
            PROVE  k \in 1 .. Len(ring') /\ ring'[k].id = i /\ ~ring'[k].ok
        BY <1>4, <4>1
      <4> QED BY <1>11, <2>2, <2>4, <3>1, <4>1
    <3>2. CASE i = at.id /\ ~ok
      <4>1. Len(ring) + 1 \in 1 .. Len(ring')
        BY <1>4
      <4> QED BY <1>3, <1>4, <3>2, <4>1
    <3> QED BY <1>5, <3>1, <3>2
  <2> QED BY <1>5, <1>11, <2>2, <2>3, <2>4
<1>22. DamageIsContained'
  <2> SUFFICES ASSUME ~slipped', AllFit PROVE Delivered = Read \ broken'
    BY <1>2, <1>18, <1>20 DEF DamageIsContained, Delivered
  <2>1. Delivered = Read \ broken
    BY <1>0, <1>5 DEF DamageIsContained
  <2>2. at.id \notin Read
    BY <1>0, <1>3, UpcomingFacts
  <2> QED BY <1>5, <2>1, <2>2
<1> QED BY <1>7, <1>14, <1>15, <1>17, <1>19, <1>21, <1>22 DEF FramingInv

LEMMA LineInv == FramingInv /\ (Arrives \/ Overruns \/ Damaged \/ Lost) => FramingInv'
<1> SUFFICES ASSUME FramingInv, Arrives \/ Overruns \/ Damaged \/ Lost PROVE FramingInv'
  OBVIOUS
<1> USE Sizes
<1>0. count \in 0 .. MaxFaults
  BY DEF FramingInv, TypeOK
<1>1. CASE Arrives
  BY <1>0, <1>1, CameInv DEF Arrives, faults
<1>2. CASE Overruns
  BY <1>0, <1>2, LostInv DEF Overruns
<1>3. count < MaxFaults /\ count' = count + 1 => count' \in 0 .. MaxFaults
  BY <1>0
<1>4. CASE Damaged
  BY <1>3, <1>4, CameInv DEF Damaged
<1>5. CASE Lost
  BY <1>3, <1>5, LostInv DEF Lost
<1> QED BY <1>1, <1>2, <1>4, <1>5

-----------------------------------------------------------------------------
(* process_serial.                                                         *)

\* What one iteration of the loop does with r, the bytes collected, of which
\* the header declares len: the packet is not complete, or it is right, or
\* the CRC is wrong.
Kept(r, len) ==
  /\ raw' = r /\ declared' = len /\ slot' = 0 /\ delivered' = delivered
  /\ Len(r) < MinLength \/ len < MinLength \/ Len(r) < len

Completed(r, len, i) ==
  /\ raw' = <<>> /\ declared' = 0 /\ slot' = len /\ delivered' = Append(delivered, i)
  /\ len >= MinLength /\ Len(r) = len /\ BeginsPacket(r, len, len)

Discarded(r, len) ==
  /\ raw' = <<>> /\ declared' = 0 /\ slot' = 0 /\ delivered' = delivered
  /\ len >= MinLength /\ Len(r) = len /\ ~BeginsPacket(r, len, len)

Iteration(r, len) ==
  /\ r \in Seq(Bytes) /\ len \in Nat
  /\ r = Collect(ring[1])
  /\ Len(r) < SP_HEADER_SIZE => len = 0
  /\ Len(r) > SP_HEADER_SIZE => len = declared
  /\ \A own \in Lengths :
       Len(r) = SP_HEADER_SIZE /\ BeginsPacket(r, SP_HEADER_SIZE, own) => len = own
  /\ Kept(r, len) \/ Completed(r, len, ring[1].id) \/ Discarded(r, len)
  /\ inStep' = IF ring[1].pos = 0 /\ Len(r) = 1 THEN inStep \cup {ring[1].id} ELSE inStep

\* One byte more is in the buffer, or it is the first of a buffer that was full.
LEMMA CollectCases ==
  ASSUME TypeOK, NEW b \in Bytes, NEW r, r = Collect(b)
  PROVE  /\ r \in Seq(Bytes) /\ Len(r) \in Nat /\ Len(r) > 0 /\ Len(r) <= HAL_RX_RAW_SIZE
         /\ r[Len(r)] = b
         /\ Len(raw) < HAL_RX_RAW_SIZE =>
              Len(r) = Len(raw) + 1 /\ \A k \in 1 .. Len(raw) : r[k] = raw[k]
         /\ ~(Len(raw) < HAL_RX_RAW_SIZE) => Len(r) = 1
<1> USE Sizes
<1>1. raw \in Seq(Bytes) /\ Len(raw) \in Nat
  BY DEF TypeOK
<1>2. CASE Len(raw) < HAL_RX_RAW_SIZE
  <2>1. r = Append(raw, b)
    BY <1>1, <1>2 DEF Collect
  <2> QED BY <1>1, <1>2, <2>1, AppendFacts
<1>3. CASE ~(Len(raw) < HAL_RX_RAW_SIZE)
  <2>1. r = <<b>>
    BY <1>1, <1>3 DEF Collect
  <2>2. r \in Seq(Bytes) /\ Len(r) = 1 /\ r[1] = b
    BY <2>1
  <2> QED BY <1>3, <2>2
<1> QED BY <1>2, <1>3

LEMMA HeaderLengthType ==
  ASSUME TypeOK, NEW r \in Seq(Bytes), NEW len \in HeaderLengths(r)
  PROVE  /\ len \in Nat
         /\ Len(r) < SP_HEADER_SIZE => len = 0
         /\ Len(r) > SP_HEADER_SIZE => len = declared
         /\ \A own \in Lengths :
              Len(r) = SP_HEADER_SIZE /\ BeginsPacket(r, SP_HEADER_SIZE, own) => len = own
<1> USE Sizes
<1>0. Len(r) \in Nat /\ declared \in Nat
  BY DEF TypeOK
<1>1. CASE Len(r) < SP_HEADER_SIZE
  BY <1>0, <1>1 DEF HeaderLengths
<1>2. CASE Len(r) > SP_HEADER_SIZE
  BY <1>0, <1>2 DEF HeaderLengths
<1>3. CASE Len(r) = SP_HEADER_SIZE
  <2> DEFINE all == {l \in Lengths : BeginsPacket(r, SP_HEADER_SIZE, l)}
  <2>1. len \in IF all # {} THEN all ELSE 0 .. HAL_RX_RAW_SIZE + 1
    BY <1>0, <1>3 DEF HeaderLengths
  <2>2. len \in Nat
    BY <2>1
  <2>3. ASSUME NEW own \in Lengths, BeginsPacket(r, SP_HEADER_SIZE, own)
        PROVE  len = own
    <3>1. len \in all
      BY <2>1, <2>3
    <3>2. 1 \in 1 .. SP_HEADER_SIZE
      OBVIOUS
    <3>3. sent[r[1].id] = own /\ sent[r[1].id] = len
      BY <2>3, <3>1, <3>2 DEF BeginsPacket
    <3> QED BY <3>3
  <2> QED BY <1>3, <2>2, <2>3
<1> QED BY <1>0, <1>1, <1>2, <1>3

\* What an iteration comes to.
LEMMA ReadCases ==
  ASSUME FramingInv, ReadByte
  PROVE  \E r, len : Iteration(r, len)
<1> USE Sizes
<1>0. TypeOK /\ Incomplete
  BY DEF FramingInv
<1>1. /\ ring \in Seq(Bytes) /\ ring # <<>> /\ Len(ring) \in Nat
      /\ Len(raw) \in Nat /\ declared \in Nat
  BY <1>0 DEF TypeOK, ReadByte
<1>2. Head(ring) = ring[1] /\ ring[1] \in Bytes
  BY <1>1
<1>3. PICK r : r = Collect(ring[1])
  OBVIOUS
<1>4. /\ r \in Seq(Bytes) /\ Len(r) \in Nat /\ Len(r) > 0
      /\ Len(raw) < HAL_RX_RAW_SIZE => Len(r) = Len(raw) + 1
      /\ ~(Len(raw) < HAL_RX_RAW_SIZE) => Len(r) = 1
  BY <1>0, <1>2, <1>3, CollectCases
<1>5. PICK len \in HeaderLengths(r) :
        /\ Parsed(r, len, ring[1].id)
        /\ inStep' = IF ring[1].pos = 0 /\ Len(r) = 1 THEN inStep \cup {ring[1].id}
                     ELSE inStep
  BY <1>2, <1>3 DEF ReadByte
<1>6. /\ len \in Nat
      /\ Len(r) < SP_HEADER_SIZE => len = 0
      /\ Len(r) > SP_HEADER_SIZE => len = declared
      /\ \A own \in Lengths :
           Len(r) = SP_HEADER_SIZE /\ BeginsPacket(r, SP_HEADER_SIZE, own) => len = own
  BY <1>0, <1>4, <1>5, HeaderLengthType
<1>7. Kept(r, len) \/ Completed(r, len, ring[1].id) \/ Discarded(r, len)
  <2>1. PICK result :
          result = IF Len(r) < MinLength THEN "SP_ERR_BUFFER_TOO_SMALL"
                   ELSE sp_parse_packet(r, len)
    OBVIOUS
  <2>2. /\ raw' = CASE result = "SP_OK" -> SubSeq(r, len + 1, Len(r))
                    [] result = "SP_ERR_BUFFER_TOO_SMALL" -> r
                    [] result = "SP_ERR_CRC_MISMATCH" -> <<>>
        /\ declared' = IF result = "SP_ERR_BUFFER_TOO_SMALL" THEN len ELSE 0
        /\ slot' = IF result = "SP_OK" THEN len ELSE 0
        /\ delivered' = IF result = "SP_OK" THEN Append(delivered, ring[1].id) ELSE delivered
    BY <1>5, <2>1 DEF Parsed
  <2>3. CASE Len(r) < MinLength \/ len < MinLength \/ Len(r) < len
    <3>1. result = "SP_ERR_BUFFER_TOO_SMALL"
      BY <2>1, <2>3 DEF sp_parse_packet
    <3> QED BY <2>2, <2>3, <3>1 DEF Kept
  <2>4. CASE ~(Len(r) < MinLength \/ len < MinLength \/ Len(r) < len)
    <3>1. Len(r) > SP_HEADER_SIZE /\ len = declared /\ len >= MinLength /\ Len(r) >= len
      BY <1>4, <1>6, <2>4
    <3>2. Len(r) = len
      <4>1. Len(raw) < MinLength \/ len < MinLength \/ Len(raw) < len
        BY <1>0, <3>1 DEF Incomplete
      <4>2. Len(r) = Len(raw) + 1
        <5>1. SP_HEADER_SIZE \in Nat /\ SP_HEADER_SIZE > 0 /\ Len(r) \in Nat
              /\ Len(r) > SP_HEADER_SIZE
          BY <1>4, <3>1
        <5>2. Len(r) # 1
          <6>1. \A m, n \in Nat : m > 0 /\ n > m => n # 1
            OBVIOUS
          <6> QED BY ONLY <5>1, <6>1
        <5> QED BY ONLY <1>4, <5>2
      <4>3. len \in Nat /\ Len(r) \in Nat /\ Len(raw) \in Nat /\ MinLength \in Nat
        BY <1>1, <1>4, <1>6
      <4> QED BY ONLY <3>1, <4>1, <4>2, <4>3
    <3>3. CASE BeginsPacket(r, len, len)
      <4>1. result = "SP_OK"
        BY <2>1, <2>4, <3>3 DEF sp_parse_packet
      <4>2. SubSeq(r, len + 1, Len(r)) = <<>>
        BY <1>4, <3>2
      <4> QED BY <2>2, <3>1, <3>2, <3>3, <4>1, <4>2 DEF Completed
    <3>4. CASE ~BeginsPacket(r, len, len)
      <4>1. result = "SP_ERR_CRC_MISMATCH"
        BY <2>1, <2>4, <3>4 DEF sp_parse_packet
      <4> QED BY <2>2, <3>1, <3>2, <3>4, <4>1 DEF Discarded
    <3> QED BY <3>3, <3>4
  <2> QED BY <2>3, <2>4
<1> QED BY <1>3, <1>4, <1>5, <1>6, <1>7 DEF Iteration

\* The first two bytes on their way.
LEMMA FirstTwo ==
  ASSUME FramingInv, ring # <<>>, NEW b, NEW y, b = ring[1], y = Byte(2)
  PROVE  /\ b \in Bytes /\ b.id \in 1 .. Len(sent) /\ b.pos \in Nat /\ b.pos < sent[b.id]
         /\ b.id \in 1 .. MaxPackets
         /\ Upcoming = b
         /\ b.id \notin broken => b.ok
         /\ y.id \in Nat /\ y.pos \in Nat /\ y.id <= Len(sent) + 1
         /\ y.id <= Len(sent) => y.pos < sent[y.id]
         /\ Adjacent(b, y) /\ Before(b, y)
<1> USE Sizes
<1>0. TypeOK /\ OnTheWay
  BY DEF FramingInv
<1>1. ring \in Seq(Bytes) /\ Len(ring) \in Nat /\ 1 \in 1 .. Len(ring)
  BY <1>0 DEF TypeOK
<1>2. b \in Bytes
  BY <1>1
<1>3. /\ b.id \in 1 .. MaxPackets /\ b.pos \in Nat
      /\ b.id <= Len(sent) /\ b.pos < sent[b.id]
      /\ Adjacent(b, y)
      /\ b.id \notin broken => b.ok
  <2>1. b.id \in 1 .. MaxPackets /\ b.pos \in Nat
    BY <1>2 DEF Bytes
  <2>2. 1 + 1 = 2
    OBVIOUS
  <2>3. /\ ring[1].id <= Len(sent) /\ ring[1].pos < sent[ring[1].id]
        /\ Adjacent(ring[1], Byte(1 + 1))
        /\ ring[1].id \notin broken => ring[1].ok
    BY <1>0, <1>1 DEF OnTheWay
  <2> QED BY <2>1, <2>2, <2>3
<1>4. /\ y.id \in Nat /\ y.pos \in Nat /\ y.id <= Len(sent) + 1
      /\ y.id <= Len(sent) => y.pos < sent[y.id]
  <2>1. CASE 2 <= Len(ring)
    <3>1. y = ring[2] /\ 2 \in 1 .. Len(ring)
      BY <1>1, <2>1 DEF Byte
    <3>2. y.id \in 1 .. MaxPackets /\ y.pos \in Nat
      BY <1>0, <3>1, Typed
    <3>3. y.id <= Len(sent) /\ y.pos < sent[y.id]
      BY <1>0, <3>1 DEF OnTheWay
    <3>4. Len(sent) \in Nat
      BY <1>0, Typed
    <3> QED BY <3>2, <3>3, <3>4
  <2>2. CASE ~(2 <= Len(ring))
    <3>1. y = at
      BY <2>2 DEF Byte
    <3> QED BY <1>0, <3>1, Typed DEF OnTheWay
  <2> QED BY <2>1, <2>2
<1>5. Upcoming = b
  BY <1>1 DEF Upcoming, Byte
<1>6. Before(b, y)
  <2>1. \/ Before(b, y)
        \/ y.id = b.id /\ y.pos = b.pos + 1
        \/ y.id = b.id + 1
    BY <1>3 DEF Adjacent, Follows
  <2>2. b.id \in Nat /\ b.pos \in Nat
    BY <1>3
  <2> QED BY ONLY <2>1, <2>2 DEF Before
<1>7. b.id \in 1 .. Len(sent)
  BY <1>0, <1>3, Typed
<1> QED BY ONLY <1>2, <1>3, <1>4, <1>5, <1>6, <1>7

\* After a byte is read the others are one place nearer.
LEMMA ReadMoves ==
  ASSUME FramingInv, ReadByte
  PROVE  /\ ring' \in Seq(Bytes) /\ Len(ring') = Len(ring) - 1 /\ Len(ring) \in Nat
         /\ Len(ring) > 0 /\ ring # <<>>
         /\ \A k \in 1 .. Len(ring') : ring'[k] = ring[k + 1]
         /\ \A k \in Nat : k > 0 => Byte(k)' = Byte(k + 1)
         /\ Upcoming' = Byte(2)
         /\ sent' = sent /\ at' = at
         /\ count' = count /\ broken' = broken /\ slipped' = slipped
<1>1. ring \in Seq(Bytes) /\ ring # <<>> /\ ring' = Tail(ring)
  BY DEF FramingInv, TypeOK, ReadByte
<1>2. sent' = sent /\ at' = at /\ count' = count /\ broken' = broken /\ slipped' = slipped
  BY DEF ReadByte, line, faults
<1>3. /\ ring' \in Seq(Bytes) /\ Len(ring') = Len(ring) - 1 /\ Len(ring) \in Nat
      /\ Len(ring) > 0
      /\ \A k \in 1 .. Len(ring') : ring'[k] = ring[k + 1]
  BY <1>1
<1>4. ASSUME NEW k \in Nat, k > 0 PROVE Byte(k)' = Byte(k + 1)
  BY <1>2, <1>3, <1>4 DEF Byte
<1>5. Upcoming' = Byte(2)
  <2>1. Upcoming' = Byte(1)'
    BY DEF Upcoming
  <2>2. Byte(1)' = Byte(1 + 1)
    BY <1>4
  <2> QED BY <2>1, <2>2
<1> QED BY <1>1, <1>2, <1>3, <1>4, <1>5

LEMMA ReadTypeOK ==
  ASSUME FramingInv, ReadByte, NEW r, NEW len, Iteration(r, len)
  PROVE  TypeOK'
<1> USE Sizes
<1>0. TypeOK /\ OnTheWay
  BY DEF FramingInv
<1>1. PICK b, y : b = ring[1] /\ y = Byte(2)
  OBVIOUS
<1>2. b \in Bytes /\ b.id \in 1 .. Len(sent) /\ b.id \in 1 .. MaxPackets
  BY <1>1, FirstTwo, ReadMoves
<1>3. /\ r \in Seq(Bytes) /\ Len(r) <= HAL_RX_RAW_SIZE /\ len \in Nat
      /\ Len(r) \in Nat /\ Len(r) > 0 /\ r[Len(r)] = b
  BY <1>0, <1>1, <1>2, CollectCases DEF Iteration
<1>4. /\ raw' = r \/ raw' = <<>>
      /\ declared' = len \/ declared' = 0
      /\ slot' = 0 \/ (slot' = len /\ len > 0 /\ Len(r) = len /\ BeginsPacket(r, len, len))
      /\ delivered' = delivered \/ delivered' = Append(delivered, b.id)
  BY <1>1, <1>3 DEF Iteration, Kept, Completed, Discarded
<1>5. slot' \in Lengths \cup {0}
  <2> SUFFICES ASSUME slot' = len, len > 0, Len(r) = len, BeginsPacket(r, len, len)
               PROVE  len \in Lengths
    BY <1>4
  <2>1. len \in 1 .. len
    BY <1>3
  <2>2. sent[b.id] = len
    BY <1>3, <2>1 DEF BeginsPacket
  <2>3. sent[b.id] \in Lengths
    BY <1>0, <1>2, Typed
  <2> QED BY <2>2, <2>3
<1>6. raw' \in Seq(Bytes) /\ Len(raw') <= HAL_RX_RAW_SIZE
  <2>1. <<>> \in Seq(Bytes) /\ Len(<<>>) = 0
    OBVIOUS
  <2>2. CASE raw' = r
    BY <1>3, <2>2
  <2>3. CASE raw' = <<>>
    BY <2>1, <2>3
  <2> QED BY <1>4, <2>2, <2>3
<1>7. delivered' \in Seq(1 .. MaxPackets)
  <2>1. delivered \in Seq(1 .. MaxPackets)
    BY <1>0 DEF TypeOK
  <2>2. CASE delivered' = delivered
    BY ONLY <2>1, <2>2
  <2>3. CASE delivered' = Append(delivered, b.id)
    BY ONLY <1>2, <2>1, <2>3, AppendFacts
  <2> QED BY ONLY <1>4, <2>2, <2>3
<1>8. inStep' \subseteq 1 .. MaxPackets
  <2>1. inStep \subseteq 1 .. MaxPackets
    BY <1>0 DEF TypeOK
  <2> QED BY <1>1, <1>2, <2>1 DEF Iteration
<1>9. declared' \in Nat
  BY <1>3, <1>4
<1>10. /\ ring' \in Seq(Bytes) /\ Len(ring') <= RING_SIZE
       /\ sent' = sent /\ at' = at /\ count' = count /\ broken' = broken /\ slipped' = slipped
  <2>1. Len(ring) <= RING_SIZE
    BY <1>0 DEF TypeOK
  <2>2. ring' \in Seq(Bytes) /\ Len(ring') = Len(ring) - 1 /\ Len(ring) \in Nat
    BY ReadMoves
  <2> QED BY <2>1, <2>2, ReadMoves
<1> QED BY <1>0, <1>5, <1>6, <1>7, <1>8, <1>9, <1>10 DEF TypeOK

\* A packet is complete with its last byte, so that what comes next is of
\* a later one.
LEMMA CompletedLast ==
  ASSUME FramingInv, ReadByte, NEW r, NEW len, Iteration(r, len), NEW b, NEW y,
         b = ring[1], y = Byte(2), len >= MinLength, Len(r) = len, BeginsPacket(r, len, len)
  PROVE  sent[b.id] = len /\ b.pos + 1 = len /\ b.id < y.id
<1> USE Sizes
<1>0. TypeOK /\ OnTheWay
  BY DEF FramingInv
<1>1. /\ b \in Bytes /\ b.id \in 1 .. Len(sent) /\ b.pos \in Nat /\ b.pos < sent[b.id]
      /\ y.id \in Nat /\ y.pos \in Nat /\ y.id <= Len(sent) + 1
      /\ y.id <= Len(sent) => y.pos < sent[y.id]
      /\ Before(b, y)
  BY FirstTwo, ReadMoves
<1>2. len \in Nat /\ len \in 1 .. len /\ r[len] = b
  <2>1. len \in Nat
    BY DEF Iteration
  <2>2. r[Len(r)] = b
    BY <1>0, <1>1, CollectCases DEF Iteration
  <2> QED BY <2>1, <2>2
<1>3. b.pos = len - 1 /\ sent[b.id] = len
  BY <1>2 DEF BeginsPacket
<1>4. ASSUME y.id = b.id PROVE FALSE
  <2>0. b.id \in Nat /\ b.id <= Len(sent)
    <3>1. Len(sent) \in 0 .. MaxPackets
      BY <1>0, Typed
    <3> QED BY ONLY <1>1, <3>1, Sizes
  <2>1. b.pos < y.pos /\ y.pos < sent[b.id]
    BY <1>1, <1>4, <2>0 DEF Before
  <2> QED BY <1>1, <1>2, <1>3, <2>1
<1> QED BY <1>1, <1>2, <1>3, <1>4 DEF Before

LEMMA ReadOnTheWay ==
  ASSUME FramingInv, ReadByte, NEW r, NEW len, Iteration(r, len)
  PROVE  OnTheWay' /\ InSequence' /\ Incomplete' /\ NothingBehindPacket'
<1> USE Sizes
<1>0. TypeOK /\ OnTheWay /\ InSequence
  BY DEF FramingInv
<1>1. PICK b, y : b = ring[1] /\ y = Byte(2)
  OBVIOUS
<1>2. /\ ring' \in Seq(Bytes) /\ Len(ring') = Len(ring) - 1 /\ Len(ring) \in Nat
      /\ Len(ring) > 0 /\ ring # <<>>
      /\ \A k \in 1 .. Len(ring') : ring'[k] = ring[k + 1]
      /\ \A k \in Nat : k > 0 => Byte(k)' = Byte(k + 1)
      /\ Upcoming' = y
      /\ sent' = sent /\ at' = at /\ broken' = broken /\ slipped' = slipped
  BY <1>1, ReadMoves
<1>3. /\ b.id \in Nat /\ Upcoming = b /\ y.id \in Nat /\ Before(b, y)
  <2>1. b.id \in 1 .. MaxPackets /\ Upcoming = b /\ y.id \in Nat /\ Before(b, y)
    BY <1>1, <1>2, FirstTwo
  <2> QED BY <2>1
<1>4. ASSUME NEW k \in 1 .. Len(ring')
      PROVE  /\ ring'[k].id <= Len(sent) /\ ring'[k].id <= at.id
             /\ ring'[k].pos < sent[ring'[k].id]
             /\ Adjacent(ring[k], Byte(k + 1))'
             /\ ring'[k].id \notin broken => ring'[k].ok
             /\ Before(ring'[k], at)
  <2>1. PICK n \in 1 .. Len(ring) : n = k + 1
    BY <1>2
  <2>2. PICK x, z : x = ring[n] /\ z = Byte(n + 1)
    OBVIOUS
  <2>3. /\ x.id <= Len(sent) /\ x.id <= at.id /\ x.pos < sent[x.id]
        /\ Adjacent(x, z)
        /\ x.id \notin broken => x.ok
    BY <1>0, <2>2 DEF OnTheWay
  <2>4. Before(x, at)
    BY <1>0, <2>2 DEF InSequence
  <2>5. ring'[k] = x
    BY <1>2, <2>1, <2>2
  <2>6. k \in Nat /\ k > 0 /\ k + 1 \in Nat /\ k + 1 > 0
    BY <1>2
  <2>7. Byte(k + 1)' = z
    BY <1>2, <2>1, <2>2, <2>6
  <2>8. Adjacent(ring[k], Byte(k + 1))'
    BY <1>2, <2>3, <2>5, <2>7 DEF Adjacent, Follows, Before
  <2> QED BY ONLY <2>3, <2>4, <2>5, <2>8
<1>5. \A k \in 1 .. Len(delivered') : delivered'[k] < y.id
  <2>1. \A k \in 1 .. Len(delivered) : delivered[k] < y.id
    <3> TAKE k \in 1 .. Len(delivered)
    <3>1. delivered[k] \in Nat /\ delivered[k] < b.id
      BY <1>0, <1>3, Typed DEF OnTheWay
    <3> QED BY <1>3, <3>1 DEF Before
  <2>2. CASE delivered' = delivered
    BY <2>1, <2>2
  <2>3. CASE Completed(r, len, b.id)
    <3>1. delivered \in Seq(1 .. MaxPackets) /\ b.id \in 1 .. MaxPackets
      BY <1>0, <1>1, <1>2, FirstTwo DEF TypeOK
    <3>2. delivered' = Append(delivered, b.id)
      BY <2>3 DEF Completed
    <3>3. b.id < y.id
      BY <1>1, <2>3, CompletedLast DEF Completed
    <3>4. /\ Len(delivered') = Len(delivered) + 1 /\ Len(delivered) \in Nat
          /\ \A k \in 1 .. Len(delivered) : delivered'[k] = delivered[k]
          /\ delivered'[Len(delivered) + 1] = b.id
      BY <3>1, <3>2, AppendFacts
    <3> QED BY <2>1, <3>3, <3>4
  <2> QED BY <1>1, <2>2, <2>3 DEF Iteration, Kept, Discarded
<1>6. OnTheWay'
  <2>1. /\ at.id <= Len(sent) + 1
        /\ at.id <= Len(sent) => at.pos < sent[at.id]
        /\ at.id = Len(sent) + 1 => at.pos = 0
    BY <1>0 DEF OnTheWay
  <2> QED BY <1>2, <1>4, <1>5, <2>1 DEF OnTheWay
<1>7. InSequence'
  <2>1. ASSUME NEW j \in 1 .. Len(ring'), NEW k \in 1 .. Len(ring'), j < k
        PROVE  Before(ring'[j], ring'[k])
    <3>1. /\ j + 1 \in 1 .. Len(ring) /\ k + 1 \in 1 .. Len(ring) /\ j + 1 < k + 1
          /\ ring'[j] = ring[j + 1] /\ ring'[k] = ring[k + 1]
      <4>1. Len(ring') = Len(ring) - 1 /\ Len(ring) \in Nat
        BY <1>2
      <4>2. /\ j + 1 \in 1 .. Len(ring) /\ k + 1 \in 1 .. Len(ring)
            /\ j + 1 < k + 1
        BY ONLY <2>1, <4>1
      <4>3. ring'[j] = ring[j + 1] /\ ring'[k] = ring[k + 1]
        BY ONLY <1>2
      <4> QED BY ONLY <4>2, <4>3
    <3>2. PICK m, n \in 1 .. Len(ring) : m = j + 1 /\ n = k + 1
      BY ONLY <3>1
    <3> QED BY <1>0, <3>1, <3>2 DEF InSequence
  <2> QED BY <1>2, <1>4, <2>1 DEF InSequence, Before
<1>8. Incomplete'
  <2>1. <<>> \in Seq(Bytes) /\ Len(<<>>) = 0
    OBVIOUS
  <2> QED BY <2>1 DEF Incomplete, Iteration, Kept, Completed, Discarded
<1>9. NothingBehindPacket'
  BY DEF NothingBehindPacket, Iteration, Kept, Completed, Discarded
<1> QED BY <1>6, <1>7, <1>8, <1>9

\* A packet whose bytes so far are all there, header unharmed, declares its own
\* length: it is kept until its last byte and parsed then.
LEMMA CleanLength ==
  ASSUME FramingInv, ReadByte, NEW r, NEW len, Iteration(r, len), NEW b, b = ring[1],
         sent[b.id] <= HAL_RX_RAW_SIZE, Len(r) = b.pos + 1,
         \A k \in 1 .. Len(r) : /\ r[k].id = b.id /\ r[k].pos = k - 1
                                /\ k <= SP_HEADER_SIZE => r[k].ok,
         b.pos >= SP_HEADER_SIZE => declared = sent[b.id]
  PROVE  /\ Len(r) >= SP_HEADER_SIZE => len = sent[b.id]
         /\ b.pos + 1 < sent[b.id] => Kept(r, len)
         /\ b.pos + 1 = sent[b.id] =>
              IF \A k \in 1 .. Len(r) : r[k].ok THEN Completed(r, len, b.id)
              ELSE Discarded(r, len)
<1> USE Sizes
<1>0. TypeOK
  BY DEF FramingInv
<1>1. /\ b.id \in 1 .. Len(sent) /\ b.pos \in Nat /\ sent[b.id] \in Lengths
      /\ sent[b.id] \in Nat /\ sent[b.id] >= MinLength /\ b.pos < sent[b.id]
  <2>1. b.id \in 1 .. Len(sent) /\ b.pos \in Nat /\ b.pos < sent[b.id]
    BY FirstTwo, ReadMoves
  <2> QED BY <1>0, <2>1, Typed
<1>2. /\ len \in Nat
      /\ Len(r) > SP_HEADER_SIZE => len = declared
      /\ \A own \in Lengths :
           Len(r) = SP_HEADER_SIZE /\ BeginsPacket(r, SP_HEADER_SIZE, own) => len = own
      /\ Kept(r, len) \/ Completed(r, len, b.id) \/ Discarded(r, len)
  BY DEF Iteration
<1>3. Len(r) >= SP_HEADER_SIZE => len = sent[b.id]
  <2>1. CASE Len(r) = SP_HEADER_SIZE
    <3>1. BeginsPacket(r, SP_HEADER_SIZE, sent[b.id])
      BY <2>1 DEF BeginsPacket
    <3> QED BY <1>1, <1>2, <2>1, <3>1
  <2>2. CASE Len(r) > SP_HEADER_SIZE
    BY <1>1, <1>2, <2>2
  <2> QED BY <1>1, <2>1, <2>2
<1>4. b.pos + 1 < sent[b.id] => Kept(r, len)
  BY <1>1, <1>2, <1>3 DEF Completed, Discarded
<1>5. ASSUME b.pos + 1 = sent[b.id]
      PROVE  IF \A k \in 1 .. Len(r) : r[k].ok THEN Completed(r, len, b.id)
             ELSE Discarded(r, len)
  <2>1. len = sent[b.id] /\ Len(r) = len /\ len >= MinLength
    BY <1>1, <1>3, <1>5
  <2>2. ~Kept(r, len)
    BY <1>1, <2>1 DEF Kept
  <2>3. BeginsPacket(r, len, len) <=> \A k \in 1 .. Len(r) : r[k].ok
    BY <2>1 DEF BeginsPacket
  <2> QED BY <1>2, <2>2, <2>3 DEF Completed, Discarded
<1> QED BY <1>3, <1>4, <1>5

\* An intact packet that has begun in step is clean in the buffer, the byte
\* that is read included.
LEMMA CleanSoFar ==
  ASSUME FramingInv, ReadByte, NEW r, NEW len, Iteration(r, len), NEW b, b = ring[1],
         b.id \in inStep', b.id \in Intact
  PROVE  /\ sent[b.id] <= HAL_RX_RAW_SIZE /\ Len(r) = b.pos + 1
         /\ \A k \in 1 .. Len(r) : r[k].id = b.id /\ r[k].pos = k - 1 /\ r[k].ok
         /\ b.pos >= SP_HEADER_SIZE => declared = sent[b.id]
<1> USE Sizes
<1>0. TypeOK /\ InStepSoFar
  BY DEF FramingInv
<1>1. /\ b \in Bytes /\ b.id \in 1 .. Len(sent) /\ b.pos \in Nat /\ b.pos < sent[b.id]
      /\ Upcoming = b
      /\ b.id \notin broken => b.ok
  BY FirstTwo, ReadMoves
<1>2. /\ sent[b.id] \in Nat /\ sent[b.id] <= HAL_RX_RAW_SIZE /\ b.ok /\ Len(raw) \in Nat
  <2>1. b.id \notin broken /\ sent[b.id] <= HAL_RX_RAW_SIZE
    BY DEF Intact
  <2>2. sent[b.id] \in Nat /\ Len(raw) \in Nat
    BY <1>0, <1>1, Typed
  <2> QED BY ONLY <1>1, <2>1, <2>2
<1>3. /\ Len(r) \in Nat /\ Len(r) > 0 /\ r[Len(r)] = b
      /\ Len(raw) < HAL_RX_RAW_SIZE =>
           Len(r) = Len(raw) + 1 /\ \A k \in 1 .. Len(raw) : r[k] = raw[k]
  BY <1>0, <1>1, CollectCases DEF Iteration
<1>4. CASE b.id \in inStep
  <2>1. /\ Len(raw) = b.pos
        /\ \A k \in 1 .. Len(raw) : raw[k].id = b.id /\ raw[k].pos = k - 1 /\ raw[k].ok
        /\ b.pos >= SP_HEADER_SIZE => declared = sent[b.id]
    <3>1. PICK i : i = b.id
      OBVIOUS
    <3>2. i \in inStep /\ i = Upcoming.id /\ i \in Intact
      BY <1>1, <1>4, <3>1
    <3>3. /\ Len(raw) = Upcoming.pos
          /\ \A k \in 1 .. Len(raw) : raw[k].id = i /\ raw[k].pos = k - 1 /\ raw[k].ok
          /\ Upcoming.pos >= SP_HEADER_SIZE => declared = sent[i]
      BY ONLY <1>0, <3>2 DEF InStepSoFar
    <3> QED BY ONLY <1>1, <3>1, <3>3
  <2>2. Len(r) = b.pos + 1 /\ \A k \in 1 .. Len(raw) : r[k] = raw[k]
    BY <1>1, <1>2, <1>3, <2>1
  <2>3. ASSUME NEW k \in 1 .. Len(r)
        PROVE  r[k].id = b.id /\ r[k].pos = k - 1 /\ r[k].ok
    <3>1. CASE k = Len(r)
      BY <1>1, <1>2, <1>3, <2>2, <3>1
    <3>2. CASE k # Len(r)
      <4>1. k \in 1 .. Len(raw)
        BY <1>2, <1>3, <2>1, <2>2, <3>2
      <4> QED BY <2>1, <2>2, <4>1
    <3> QED BY <3>1, <3>2
  <2> QED BY <1>2, <2>1, <2>2, <2>3
<1>5. CASE b.id \notin inStep
  <2>1. b.pos = 0 /\ Len(r) = 1
    BY <1>5 DEF Iteration
  <2> QED BY <1>1, <1>2, <1>3, <2>1
<1> QED BY <1>4, <1>5

LEMMA ReadInStep ==
  ASSUME FramingInv, ReadByte, NEW r, NEW len, Iteration(r, len)
  PROVE  InStepSoFar' /\ InStepIsDelivered'
<1> USE Sizes
<1>0. TypeOK /\ OnTheWay /\ InStepSoFar /\ InStepIsDelivered
  BY DEF FramingInv
<1>1. PICK b, y : b = ring[1] /\ y = Byte(2)
  OBVIOUS
<1>2. /\ b \in Bytes /\ b.id \in 1 .. Len(sent) /\ b.pos \in Nat /\ b.pos < sent[b.id]
      /\ b.id \in 1 .. MaxPackets /\ Upcoming = b
      /\ y.id \in Nat /\ y.pos \in Nat /\ Adjacent(b, y) /\ Before(b, y)
  BY <1>1, FirstTwo, ReadMoves
<1>3. /\ Upcoming' = y /\ sent' = sent /\ broken' = broken /\ Intact' = Intact
  BY <1>1, ReadMoves DEF Intact
<1>4. /\ Read = 1 .. b.id - 1 /\ Read' = 1 .. y.id - 1
  <2>1. Read = 1 .. b.id - 1
    BY <1>0, <1>2, UpcomingFacts
  <2>2. ring' \in Seq(Bytes)
    BY ReadMoves
  <2>3. Read' = 1 .. Upcoming'.id - 1
    BY <2>2, FirstOnTheWay DEF Read, Upcoming, Byte
  <2> QED BY <1>3, <2>1, <2>3
<1>5. sent[b.id] \in Nat /\ b.id \in Nat
  BY <1>0, <1>2, Typed
<1>6. ASSUME NEW i \in inStep' PROVE i \in Nat /\ ((i \in inStep /\ i < b.id) \/ i = b.id)
  <2>1. i \in inStep \/ i = b.id
    BY <1>1 DEF Iteration
  <2>2. CASE i \in inStep
    <3>1. i \in Nat
      BY <1>0, <2>2 DEF TypeOK
    <3>2. i < Upcoming.id \/ i = Upcoming.id
      BY <1>0, <2>2 DEF InStepSoFar
    <3> QED BY ONLY <1>2, <2>2, <3>1, <3>2
  <2> QED BY <1>5, <2>1, <2>2
<1>7. ASSUME NEW i \in inStep' PROVE i < y.id \/ (i = y.id /\ y.pos > 0)
  BY <1>2, <1>5, <1>6 DEF Before
<1>8. ASSUME b.id \in inStep', b.id \in Intact
      PROVE  IF b.id < y.id THEN Completed(r, len, b.id)
             ELSE /\ y.pos = b.pos + 1 /\ Kept(r, len) /\ Len(r) = b.pos + 1
                  /\ \A k \in 1 .. Len(r) : r[k].id = b.id /\ r[k].pos = k - 1 /\ r[k].ok
                  /\ Len(r) >= SP_HEADER_SIZE => len = sent[b.id]
  <2>0. b.id \notin broken
    BY <1>8 DEF Intact
  <2>1. IF b.id < y.id THEN b.pos + 1 = sent[b.id]
        ELSE y.pos = b.pos + 1 /\ b.pos + 1 < sent[b.id]
    BY <1>2, <1>5, <2>0 DEF Adjacent, Follows, Before
  <2>2. /\ sent[b.id] <= HAL_RX_RAW_SIZE /\ Len(r) = b.pos + 1
        /\ \A k \in 1 .. Len(r) : r[k].id = b.id /\ r[k].pos = k - 1 /\ r[k].ok
        /\ b.pos >= SP_HEADER_SIZE => declared = sent[b.id]
    BY <1>1, <1>8, CleanSoFar
  <2>3. /\ Len(r) >= SP_HEADER_SIZE => len = sent[b.id]
        /\ b.pos + 1 < sent[b.id] => Kept(r, len)
        /\ b.pos + 1 = sent[b.id] =>
             IF \A k \in 1 .. Len(r) : r[k].ok THEN Completed(r, len, b.id)
             ELSE Discarded(r, len)
    BY <1>1, <2>2, CleanLength
  <2> QED BY <2>1, <2>2, <2>3
<1>9. InStepSoFar'
  <2>1. ASSUME NEW i \in inStep', i = y.id, i \in Intact
        PROVE  /\ Len(raw') = y.pos
               /\ \A k \in 1 .. Len(raw') :
                    raw'[k].id = i /\ raw'[k].pos = k - 1 /\ raw'[k].ok
               /\ y.pos >= SP_HEADER_SIZE => declared' = sent[i]
    <3>1. i = b.id
      BY <1>2, <1>5, <1>6, <2>1 DEF Before
    <3>2. ~(b.id < y.id)
      BY <1>5, <2>1, <3>1
    <3>3. /\ y.pos = b.pos + 1 /\ Kept(r, len) /\ Len(r) = b.pos + 1
          /\ \A k \in 1 .. Len(r) : r[k].id = b.id /\ r[k].pos = k - 1 /\ r[k].ok
          /\ Len(r) >= SP_HEADER_SIZE => len = sent[b.id]
      BY <1>8, <2>1, <3>1, <3>2
    <3>4. raw' = r /\ declared' = len
      BY <3>3 DEF Kept
    <3> QED BY <3>1, <3>3, <3>4
  <2> QED BY <1>3, <1>7, <2>1 DEF InStepSoFar
<1>10. InStepIsDelivered'
  <2>1. delivered \in Seq(1 .. MaxPackets)
    BY <1>0 DEF TypeOK
  <2>2. Delivered \subseteq Delivered' /\ (Completed(r, len, b.id) => b.id \in Delivered')
    <3>1. CASE delivered' = delivered
      <4>1. ~Completed(r, len, b.id)
        BY <1>2, <2>1, <3>1, AppendFacts DEF Completed
      <4> QED BY <3>1, <4>1 DEF Delivered
    <3>2. CASE delivered' = Append(delivered, b.id)
      <4>1. /\ Len(delivered') = Len(delivered) + 1 /\ Len(delivered) \in Nat
            /\ \A k \in 1 .. Len(delivered) : delivered'[k] = delivered[k]
            /\ delivered'[Len(delivered) + 1] = b.id
        BY <1>2, <2>1, <3>2, AppendFacts
      <4> QED BY <4>1 DEF Delivered
    <3> QED BY <1>1, <3>1, <3>2 DEF Iteration, Kept, Completed, Discarded
  <2>3. ASSUME NEW i \in inStep', i \in Intact, i \in Read' PROVE i \in Delivered'
    <3>1. CASE i \in inStep /\ i < b.id
      <4>1. i \in Read
        BY <1>4, <1>5, <1>6, <2>3, <3>1
      <4> QED BY <1>0, <2>2, <2>3, <3>1, <4>1 DEF InStepIsDelivered
    <3>2. CASE i = b.id
      <4>1. b.id < y.id
        BY <1>2, <1>4, <1>5, <2>3, <3>2
      <4> QED BY <1>8, <2>2, <2>3, <3>2, <4>1
    <3> QED BY <1>6, <3>1, <3>2
  <2> QED BY <1>3, <2>3 DEF InStepIsDelivered
<1> QED BY <1>9, <1>10

\* As long as every header arrives: after a packet's last byte the buffer is
\* empty, and the packet was right unless it is broken.
LEMMA ReadForSure ==
  ASSUME FramingInv, ReadByte, NEW r, NEW len, Iteration(r, len)
  PROVE  InStepForSure' /\ DamageIsContained'
<1> USE Sizes
<1>0. TypeOK /\ OnTheWay /\ InSequence /\ InStepForSure /\ DamageIsContained
  BY DEF FramingInv
<1>1. PICK b, y : b = ring[1] /\ y = Byte(2)
  OBVIOUS
<1>2. /\ b \in Bytes /\ b.id \in 1 .. Len(sent) /\ b.pos \in Nat /\ b.pos < sent[b.id]
      /\ b.id \in 1 .. MaxPackets /\ Upcoming = b
      /\ b.id \notin broken => b.ok
      /\ y.id \in Nat /\ y.pos \in Nat /\ Adjacent(b, y)
  BY <1>1, FirstTwo, ReadMoves
<1>3. /\ ring' \in Seq(Bytes) /\ Len(ring') = Len(ring) - 1 /\ Len(ring) \in Nat
      /\ Len(ring) > 0
      /\ \A k \in 1 .. Len(ring') : ring'[k] = ring[k + 1]
      /\ Upcoming' = y
      /\ sent' = sent /\ broken' = broken /\ slipped' = slipped /\ AllFit' = AllFit
  BY <1>1, ReadMoves DEF AllFit
<1> SUFFICES ASSUME ~slipped, AllFit PROVE InStepForSure' /\ DamageIsContained'
  BY <1>3 DEF InStepForSure, DamageIsContained
<1>4. /\ sent[b.id] \in Nat /\ sent[b.id] <= HAL_RX_RAW_SIZE /\ b.id \in Nat /\ Len(raw) \in Nat
      /\ Follows(b, y)
  <2>1. sent[b.id] \in Nat /\ Len(raw) \in Nat
    BY <1>0, <1>2, Typed
  <2>2. sent[b.id] <= HAL_RX_RAW_SIZE
    BY <1>2 DEF AllFit
  <2>3. Follows(b, y) /\ b.id \in Nat
    BY <1>2 DEF Adjacent
  <2> QED BY <2>1, <2>2, <2>3
<1>5. /\ Len(raw) = b.pos
      /\ \A k \in 1 .. Len(raw) :
           /\ raw[k].id = b.id /\ raw[k].pos = k - 1
           /\ k <= SP_HEADER_SIZE => raw[k].ok
           /\ b.id \notin broken => raw[k].ok
      /\ \A k \in 1 .. Len(ring) : ring[k].pos < SP_HEADER_SIZE => ring[k].ok
      /\ b.pos >= SP_HEADER_SIZE => declared = sent[b.id]
      /\ \A i \in broken : i >= b.id =>
           \/ \E k \in 1 .. Len(ring) : ring[k].id = i /\ ~ring[k].ok
           \/ \E k \in 1 .. Len(raw) : raw[k].id = i /\ ~raw[k].ok
  BY <1>0, <1>2 DEF InStepForSure
<1>6. /\ Len(r) = b.pos + 1 /\ r[Len(r)] = b
      /\ \A k \in 1 .. Len(raw) : r[k] = raw[k]
  <2>1. /\ r[Len(r)] = b
        /\ Len(raw) < HAL_RX_RAW_SIZE =>
             Len(r) = Len(raw) + 1 /\ \A k \in 1 .. Len(raw) : r[k] = raw[k]
    <3>1. r = Collect(b)
      BY <1>1 DEF Iteration
    <3>2. b \in Bytes
      BY ONLY <1>2
    <3> QED BY ONLY <1>0, <3>1, <3>2, CollectCases
  <2>2. Len(raw) < HAL_RX_RAW_SIZE
    BY <1>2, <1>4, <1>5
  <2> QED BY <1>5, <2>1, <2>2
<1>7. 1 \in 1 .. Len(ring) /\ ring[1] = b
  BY <1>1, <1>3
<1>8. ASSUME NEW k \in 1 .. Len(r)
      PROVE  /\ r[k].id = b.id /\ r[k].pos = k - 1
             /\ k <= SP_HEADER_SIZE => r[k].ok
             /\ b.id \notin broken => r[k].ok
  <2>1. CASE k = b.pos + 1
    <3>1. r[k] = b
      BY <1>6, <2>1
    <3>2. b.pos < SP_HEADER_SIZE => b.ok
      BY <1>5, <1>7
    <3> QED BY <1>2, <2>1, <3>1, <3>2
  <2>2. CASE k # b.pos + 1
    <3>1. k \in 1 .. Len(raw)
      BY <1>2, <1>5, <1>6, <2>2
    <3> QED BY <1>5, <1>6, <3>1
  <2> QED BY <2>1, <2>2
<1>9. /\ Len(r) >= SP_HEADER_SIZE => len = sent[b.id]
      /\ b.pos + 1 < sent[b.id] => Kept(r, len)
      /\ b.pos + 1 = sent[b.id] =>
           IF \A k \in 1 .. Len(r) : r[k].ok THEN Completed(r, len, b.id)
           ELSE Discarded(r, len)
  <2>1. \A k \in 1 .. Len(r) : /\ r[k].id = b.id /\ r[k].pos = k - 1
                               /\ k <= SP_HEADER_SIZE => r[k].ok
    BY <1>8
  <2>2. /\ sent[b.id] <= HAL_RX_RAW_SIZE /\ Len(r) = b.pos + 1 /\ b = ring[1]
        /\ b.pos >= SP_HEADER_SIZE => declared = sent[b.id]
    BY ONLY <1>1, <1>4, <1>5, <1>6
  <2>3. FramingInv /\ ReadByte /\ Iteration(r, len)
    OBVIOUS
  <2> QED BY ONLY <2>1, <2>2, <2>3, CleanLength
<1>10. ASSUME NEW k \in 1 .. Len(ring')
       PROVE  ring'[k].pos < SP_HEADER_SIZE => ring'[k].ok
  <2>1. k + 1 \in 1 .. Len(ring) /\ ring'[k] = ring[k + 1]
    BY <1>3
  <2> QED BY <1>5, <2>1
<1>11. ASSUME NEW i \in broken, i >= b.id
       PROVE  \/ \E k \in 1 .. Len(ring') : ring'[k].id = i /\ ~ring'[k].ok
              \/ \E k \in 1 .. Len(r) : r[k].id = i /\ ~r[k].ok
  <2>1. CASE \E k \in 1 .. Len(raw) : raw[k].id = i /\ ~raw[k].ok
    <3>1. PICK k \in 1 .. Len(raw) : raw[k].id = i /\ ~raw[k].ok
      BY <2>1
    <3>2. k \in 1 .. Len(r) /\ r[k] = raw[k]
      BY <1>2, <1>5, <1>6
    <3> QED BY <3>1, <3>2
  <2>2. CASE \E k \in 1 .. Len(ring) : ring[k].id = i /\ ~ring[k].ok
    <3>1. PICK n \in 1 .. Len(ring) : ring[n].id = i /\ ~ring[n].ok
      BY <2>2
    <3>2. CASE n = 1
      <4>1. Len(r) \in 1 .. Len(r)
        BY <1>2, <1>6
      <4> QED BY <1>6, <1>7, <3>1, <3>2, <4>1
    <3>3. CASE n # 1
      <4>1. PICK k \in 1 .. Len(ring') : k + 1 = n
        <5>1. n - 1 \in 1 .. Len(ring') /\ (n - 1) + 1 = n
          BY <1>3, <3>3
        <5> QED BY <5>1
      <4>2. ring'[k] = ring[n]
        BY <1>3, <4>1
      <4> QED BY <3>1, <4>2
    <3> QED BY <3>2, <3>3
  <2> QED BY <1>5, <1>11, <2>1, <2>2
<1>12. /\ Read = 1 .. b.id - 1 /\ Read' = 1 .. y.id - 1
  <2>1. Read = 1 .. b.id - 1
    BY <1>0, <1>2, UpcomingFacts
  <2>2. Read' = 1 .. Upcoming'.id - 1
    BY <1>3, FirstOnTheWay DEF Read, Upcoming, Byte
  <2> QED BY <1>3, <2>1, <2>2
<1>13. Delivered = Read \ broken
  BY <1>0 DEF DamageIsContained
<1>14. CASE b.pos + 1 < sent[b.id]
  <2>1. /\ y.id = b.id /\ y.pos = b.pos + 1
        /\ raw' = r /\ declared' = len /\ delivered' = delivered
    BY <1>4, <1>9, <1>14 DEF Follows, Kept
  <2>2. InStepForSure'
    <3>1. y.pos >= SP_HEADER_SIZE => declared' = sent[y.id]
      BY <1>6, <1>9, <2>1
    <3>2. \A k \in 1 .. Len(r) : /\ r[k].id = y.id /\ r[k].pos = k - 1
                                 /\ k <= SP_HEADER_SIZE => r[k].ok
                                 /\ y.id \notin broken => r[k].ok
      BY <1>8, <2>1
    <3>3. \A i \in broken : i >= y.id =>
            \/ \E k \in 1 .. Len(ring') : ring'[k].id = i /\ ~ring'[k].ok
            \/ \E k \in 1 .. Len(r) : r[k].id = i /\ ~r[k].ok
      BY <1>11, <2>1
    <3>4. Len(r) = y.pos
      BY <1>6, <2>1
    <3> QED BY <1>3, <1>10, <2>1, <3>1, <3>2, <3>3, <3>4 DEF InStepForSure
  <2>3. DamageIsContained'
    BY <1>3, <1>12, <1>13, <2>1 DEF DamageIsContained, Delivered
  <2> QED BY <2>2, <2>3
<1>15. CASE b.pos + 1 = sent[b.id]
  <2>1. y.id = b.id + 1 /\ y.pos = 0
    BY <1>2, <1>4, <1>15 DEF Follows
  <2>2. raw' = <<>> /\ Len(raw') = 0
    <3>1. raw' = <<>>
      BY <1>9, <1>15 DEF Completed, Discarded
    <3> QED BY <3>1
  <2>3. InStepForSure'
    <3>1. ASSUME NEW i \in broken, i >= y.id
          PROVE  \E k \in 1 .. Len(ring') : ring'[k].id = i /\ ~ring'[k].ok
      <4>1. i \in Nat /\ i > b.id
        BY <1>0, <1>4, <2>1, <3>1 DEF TypeOK
      <4>2. i >= b.id /\ i # b.id
        BY <1>4, <4>1
      <4> QED BY <1>8, <1>11, <4>2
    <3> QED BY <1>3, <1>10, <2>1, <2>2, <3>1 DEF InStepForSure
  <2>4. CASE b.id \notin broken
    <3>1. delivered' = Append(delivered, b.id)
      BY <1>8, <1>9, <1>15, <2>4 DEF Completed
    <3>2. delivered \in Seq(1 .. MaxPackets)
      BY <1>0 DEF TypeOK
    <3>3. /\ Len(delivered') = Len(delivered) + 1 /\ Len(delivered) \in Nat
          /\ \A k \in 1 .. Len(delivered) : delivered'[k] = delivered[k]
          /\ delivered'[Len(delivered) + 1] = b.id
      BY <1>2, <3>1, <3>2, AppendFacts
    <3>4. Delivered' = Delivered \cup {b.id}
      BY <3>3 DEF Delivered
    <3>5. Read' \ broken = (Read \ broken) \cup {b.id}
      BY <1>2, <1>4, <1>12, <2>1, <2>4
    <3> QED BY <1>3, <1>13, <2>3, <3>4, <3>5 DEF DamageIsContained
  <2>5. CASE b.id \in broken
    <3>1. ASSUME NEW k \in 1 .. Len(ring'), ring'[k].id = b.id
          PROVE  FALSE
      <4>1. PICK n \in 1 .. Len(ring) : n = k + 1 /\ n > 1
        BY <1>3
      <4>2. PICK x : x = ring[n]
        OBVIOUS
      <4>3. x.id = b.id
        BY <1>3, <3>1, <4>1, <4>2
      <4>4. Before(b, x)
        BY <1>0, <1>7, <4>1, <4>2 DEF InSequence
      <4>5. x.pos < sent[x.id] /\ x.pos \in Nat
        BY <1>0, <4>2, Typed DEF OnTheWay
      <4> QED BY ONLY <1>2, <1>4, <1>15, <4>3, <4>4, <4>5 DEF Before
    <3>2. ~ \A k \in 1 .. Len(r) : r[k].ok
      <4>1. b.id >= b.id
        BY <1>4
      <4> QED BY <1>11, <2>5, <3>1, <4>1
    <3>3. delivered' = delivered
      BY <1>9, <1>15, <3>2 DEF Discarded
    <3>4. Read' \ broken = Read \ broken
      BY <1>2, <1>4, <1>12, <2>1, <2>5
    <3> QED BY <1>3, <1>13, <2>3, <3>3, <3>4 DEF DamageIsContained, Delivered
  <2> QED BY <2>4, <2>5
<1> QED BY <1>2, <1>4, <1>14, <1>15

LEMMA ReadInv == FramingInv /\ ReadByte => FramingInv'
<1> SUFFICES ASSUME FramingInv, ReadByte PROVE FramingInv'
  OBVIOUS
<1>1. PICK r, len : Iteration(r, len)
  BY ReadCases
<1>2. TypeOK'
  BY <1>1, ReadTypeOK
<1>3. OnTheWay' /\ InSequence' /\ Incomplete' /\ NothingBehindPacket'
  BY <1>1, ReadOnTheWay
<1>4. InStepSoFar' /\ InStepIsDelivered'
  BY <1>1, ReadInStep
<1>5. InStepForSure' /\ DamageIsContained'
  BY <1>1, ReadForSure
<1> QED BY <1>2, <1>3, <1>4, <1>5 DEF FramingInv

-----------------------------------------------------------------------------
(* The theorems.                                                           *)

LEMMA StutterInv == FramingInv /\ UNCHANGED vars => FramingInv'
<1> SUFFICES ASSUME FramingInv, UNCHANGED vars PROVE FramingInv'
  OBVIOUS
<1>1. /\ sent' = sent /\ slot' = slot
      /\ at' = at /\ ring' = ring /\ raw' = raw /\ declared' = declared
      /\ delivered' = delivered /\ inStep' = inStep /\ count' = count
      /\ broken' = broken /\ slipped' = slipped
  BY DEF vars, line, receiver, faults
<1>2. /\ Upcoming' = Upcoming /\ \A k : Byte(k)' = Byte(k)
      /\ Read' = Read /\ Delivered' = Delivered /\ Intact' = Intact /\ AllFit' = AllFit
  BY <1>1 DEF Upcoming, Byte, Read, Delivered, Intact, AllFit
<1>3. TypeOK'
  BY <1>1 DEF FramingInv, TypeOK
<1>4. OnTheWay'
  BY <1>1, <1>2 DEF FramingInv, OnTheWay, Adjacent, Follows, Before
<1>5. Incomplete' /\ NothingBehindPacket' /\ InSequence'
  BY <1>1 DEF FramingInv, Incomplete, NothingBehindPacket, InSequence, Before
<1>6. InStepSoFar' /\ InStepIsDelivered'
  BY <1>1, <1>2 DEF FramingInv, InStepSoFar, InStepIsDelivered
<1>7. InStepForSure' /\ DamageIsContained'
  BY <1>1, <1>2 DEF FramingInv, InStepForSure, DamageIsContained
<1> QED BY <1>3, <1>4, <1>5, <1>6, <1>7 DEF FramingInv

LEMMA NextInv == FramingInv /\ [Next]_vars => FramingInv'
<1> SUFFICES ASSUME FramingInv, [Next]_vars PROVE FramingInv'
  OBVIOUS
<1>1. CASE \E len \in Lengths : Send(len)
  BY <1>1, SendInv
<1>2. CASE Arrives \/ Overruns \/ Damaged \/ Lost
  BY <1>2, LineInv
<1>3. CASE ReadByte
  BY <1>3, ReadInv
<1>4. CASE Consume
  BY <1>4, ConsumeInv
<1>5. CASE UNCHANGED vars
  BY <1>5, StutterInv
<1> QED BY <1>1, <1>2, <1>3, <1>4, <1>5 DEF Next

LEMMA InvariantHolds == Spec => []FramingInv
BY InitInv, NextInv, PTL DEF Spec

\* Whatever is sent, lost, damaged or dropped, and whatever length a header put
\* together from several packets declares: process_serial stays within
\* hal_raw_buffer and the slot holds a length the client has sent, or none.
THEOREM FramingTyped == Spec => []TypeOK
<1>1. FramingInv => TypeOK
  BY DEF FramingInv
<1> QED BY <1>1, InvariantHolds, PTL

\* process_serial parses after every byte, so that what it completes is the
\* whole of hal_raw_buffer: nothing is behind a packet.
THEOREM NothingWaits == Spec => []NothingBehindPacket
<1>1. FramingInv => NothingBehindPacket
  BY DEF FramingInv
<1> QED BY <1>1, InvariantHolds, PTL

\* A packet of which no byte is lost or damaged and whose first byte finds
\* hal_raw_buffer empty is accepted by sp_parse_packet.
THEOREM InStepDelivered == Spec => []InStepIsDelivered
<1>1. FramingInv => InStepIsDelivered
  BY DEF FramingInv
<1> QED BY <1>1, InvariantHolds, PTL

\* While every header arrives, a CRC error costs one packet: process_serial
\* empties hal_raw_buffer exactly where the next packet begins.
THEOREM DamageContained == Spec => []DamageIsContained
<1>1. FramingInv => DamageIsContained
  BY DEF FramingInv
<1> QED BY <1>1, InvariantHolds, PTL

\* The packets that have come out, as LossyLine counts them.
Passed == IF delivered = <<>> THEN 0 ELSE delivered[Len(delivered)]

LEMMA NextRefines ==
  FramingInv /\ [Next]_vars => [LL!Next]_<<sent, Passed, slot>>
<1> SUFFICES ASSUME FramingInv, [Next]_vars PROVE [LL!Next]_<<sent, Passed, slot>>
  OBVIOUS
<1> USE Sizes
<1>0. /\ TypeOK /\ OnTheWay
      /\ delivered \in Seq(1 .. MaxPackets) /\ Len(delivered) \in Nat
  BY DEF FramingInv, TypeOK
<1>1. ASSUME NEW len \in Lengths, Send(len) PROVE LL!Send(len)
  BY <1>1 DEF LL!Send, Send, receiver
<1>2. ASSUME Consume PROVE LL!Consume
  BY <1>2 DEF LL!Consume, Consume, line
<1>3. ASSUME Arrives \/ Overruns \/ Damaged \/ Lost
      PROVE  UNCHANGED <<sent, Passed, slot>>
  BY <1>3 DEF Arrives, Overruns, Damaged, Lost, ByteSent, receiver, Passed
<1>4. ASSUME UNCHANGED vars PROVE UNCHANGED <<sent, Passed, slot>>
  BY <1>4 DEF vars, line, receiver, Passed
<1>5. ASSUME ReadByte
      PROVE  (\E i \in 1 .. Len(sent) : LL!Deliver(i)) \/ UNCHANGED <<sent, Passed, slot>>
  <2>1. PICK r, len : Iteration(r, len)
    BY <1>5, ReadCases
  <2>2. PICK b : b = ring[1]
    OBVIOUS
  <2>3. slot = 0 /\ sent' = sent
    BY <1>5, ReadMoves DEF ReadByte
  <2>4. CASE delivered' = delivered /\ slot' = 0
    BY <2>3, <2>4 DEF Passed
  <2>5. CASE Completed(r, len, b.id)
    <3>1. /\ b.id \in 1 .. Len(sent) /\ b.id \in 1 .. MaxPackets /\ Upcoming = b
          /\ sent[b.id] = len
      <4>1. PICK y : y = Byte(2)
        OBVIOUS
      <4>2. sent[b.id] = len
        BY <1>5, <2>1, <2>2, <2>5, <4>1, CompletedLast DEF Completed
      <4> QED BY <1>5, <2>2, <4>1, <4>2, FirstTwo, ReadMoves
    <3>2. delivered' = Append(delivered, b.id) /\ slot' = len
      BY <2>5 DEF Completed
    <3>3. Passed' = b.id
      <4>1. /\ Len(delivered') = Len(delivered) + 1
            /\ delivered'[Len(delivered) + 1] = b.id
        BY <1>0, <3>1, <3>2, AppendFacts
      <4>2. delivered' # <<>>
        BY <1>0, <3>1, <3>2
      <4> QED BY <4>1, <4>2 DEF Passed
    <3>4. b.id > Passed
      <4>1. CASE delivered = <<>>
        BY <3>1, <4>1 DEF Passed
      <4>2. CASE delivered # <<>>
        <5>1. Len(delivered) \in 1 .. Len(delivered)
          BY <1>0, <4>2
        <5>2. delivered[Len(delivered)] < b.id /\ delivered[Len(delivered)] \in Nat
          BY <1>0, <3>1, <5>1, Typed DEF OnTheWay
        <5> QED BY <3>1, <4>2, <5>2 DEF Passed
      <4> QED BY <4>1, <4>2
    <3>5. LL!Deliver(b.id)
      BY <2>3, <3>1, <3>2, <3>3, <3>4 DEF LL!Deliver, Passed
    <3> QED BY <3>1, <3>5
  <2> QED BY <2>1, <2>2, <2>4, <2>5 DEF Iteration, Kept, Discarded
<1> QED BY <1>1, <1>2, <1>3, <1>4, <1>5 DEF Next, LL!Next

\* What comes out of the slot are packets the client has sent, in their order
\* and once each, however the stream is damaged: the receiver never delivers
\* a packet twice, or one put together from two.
THEOREM FramingImplementsLossyLine == Spec => ImplementsLossyLine
<1>1. Init => LL!Init
  BY DEF Init, LL!Init
<1>2. FramingInv /\ [Next]_vars => [LL!Next]_(LL!vars)
  BY NextRefines DEF LL!vars, Passed
<1> QED BY <1>1, <1>2, InvariantHolds, PTL DEF Spec, LL!Spec, ImplementsLossyLine
=============================================================================
