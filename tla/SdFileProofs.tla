---------------------------- MODULE SdFileProofs ----------------------------
(***************************************************************************)
(* Proofs about SdFile.tla: for any files, chains, sizes of sectors and    *)
(* clusters and any number of failures of the card, a file is where its    *)
(* position says and a read returns what the file holds there.             *)
(***************************************************************************)
EXTENDS SdFile, SequenceTheorems, TLAPS

(* The invariant.                                                          *)

\* The card is in the middle of the read the driver thinks it is in.
Streaming(d) == d.state = "READ_STATE" /\ d.active => d.stream = d.cur

\* The buffer holds the sector it is to hold.
Cached(d) == d.sector # NoSector => d.buffer = d.sector

Parts ==
  [state : {"IDLE_STATE", "READ_STATE"}, cur : Nat, active : BOOLEAN,
   stream : Nat \cup {NoSector},
   sector : Sectors \cup {NoSector}, buffer : Sectors \cup {NoSector},
   faults : 0 .. MaxFaults]

Devices == {d \in Parts : Streaming(d) /\ Cached(d)}

\* c is the k-th cluster of f, or a later one if a read left f astray.
On(f, c, k) ==
  \E j \in 1 .. Len(Chain[f]) : c = Chain[f][j] /\ j >= k /\ (f \notin astray => j = k)

\* At its start a file has no cluster yet.
Place(f, c, p) == p = 0 \/ On(f, c, Index(p) + 1)

\* The walk of a seek has left clusters to go.
OnItsWay(f) ==
  /\ call.pos \in 1 .. FileSize[f]
  /\ \E j \in 1 .. Len(Chain[f]) :
       /\ m_curCluster[f] = Chain[f][j]
       /\ j + call.left >= Index(call.pos) + 1
       /\ call.fromStart \/ f \notin astray => j + call.left = Index(call.pos) + 1

\* A file that is being sought can go back.
Found(f) ==
  IF Seeking /\ call.file = f
  THEN Place(f, call.tmp, m_curPosition[f]) /\ OnItsWay(f)
  ELSE Place(f, m_curCluster[f], m_curPosition[f])

\* What has been read so far, and that there is as much to read.
ReadSoFar ==
  Reading =>
    /\ call.from + Len(call.got) = m_curPosition[call.file]
    /\ IF call.file \in Dirs THEN call.toRead <= 1
       ELSE m_curPosition[call.file] + call.toRead <= FileSize[call.file]
    /\ call.file \notin astray => call.got = Content(call.file, call.from, Len(call.got))

FileTypes ==
  /\ m_curPosition \in [Files -> Nat]
  /\ \A f \in Files : m_curPosition[f] \in 0 .. (IF f \in Dirs THEN Limit(f) ELSE FileSize[f])
  /\ m_curCluster \in [Files -> Clusters \cup {0}]
  /\ call \in Calls /\ astray \subseteq Files

SdFileInv ==
  /\ Device \in Devices
  /\ FileTypes
  /\ \A f \in Files : Found(f)
  /\ ReadSoFar

-----------------------------------------------------------------------------
(* Positions.                                                              *)

LEMMA Division ==
  ASSUME NEW u \in Nat, u > 0, NEW q \in Nat, NEW r \in 0 .. u - 1
  PROVE  (q * u + r) \div u = q /\ (q * u + r) % u = r
OBVIOUS

LEMMA Quotient ==
  ASSUME NEW n \in Nat, NEW u \in Nat, u > 0
  PROVE  /\ n \div u \in Nat /\ n % u \in 0 .. u - 1
         /\ n = (n \div u) * u + (n % u)
OBVIOUS

LEMMA Sizes ==
  /\ BytesPerSector \in Nat /\ BytesPerSector > 0
  /\ SectorsPerCluster \in Nat /\ SectorsPerCluster > 0
  /\ BytesPerCluster \in Nat /\ BytesPerCluster > 0
<1>1. /\ BytesPerSector \in Nat /\ BytesPerSector > 0
      /\ SectorsPerCluster \in Nat /\ SectorsPerCluster > 0
  BY SdFileAssumption
<1> QED BY <1>1 DEF BytesPerCluster

LEMMA Distribution ==
  ASSUME NEW B \in Nat, NEW S \in Nat, NEW k \in Nat, NEW s \in Nat
  PROVE  (k * S + s) * B = k * (B * S) + s * B
<1>1. (k * S + s) * B = (k * S) * B + s * B
  OBVIOUS
<1>2. (k * S) * B = k * (B * S)
  OBVIOUS
<1> QED BY <1>1, <1>2

\* A position p is the byte o of the sector s of the cluster k.
Numeral(B, S, k, s, o, p) ==
  /\ B \in Nat /\ B > 0 /\ S \in Nat /\ S > 0
  /\ k \in Nat /\ s \in 0 .. S - 1 /\ o \in 0 .. B - 1
  /\ p = k * (B * S) + (s * B + o)

LEMMA Digits ==
  ASSUME NEW B, NEW S, NEW k, NEW s, NEW o, NEW p, Numeral(B, S, k, s, o, p)
  PROVE  /\ p \in Nat /\ p \div (B * S) = k
         /\ (p \div B) % S = s /\ p % B = o
         /\ s * B + o \in 0 .. B * S - 1
<1> SUFFICES ASSUME B \in Nat, B > 0, S \in Nat, S > 0,
                    k \in Nat, s \in 0 .. S - 1, o \in 0 .. B - 1,
                    p = k * (B * S) + (s * B + o)
             PROVE  /\ p \in Nat /\ p \div (B * S) = k
                    /\ (p \div B) % S = s /\ p % B = o
                    /\ s * B + o \in 0 .. B * S - 1
  BY Zenon DEF Numeral
<1> DEFINE C == B * S
           low == s * B + o
<1>1. C \in Nat /\ C > 0 /\ s \in Nat /\ o \in Nat
  OBVIOUS
<1>2. low \in 0 .. C - 1
  <2>1. s * B \in Nat /\ s * B <= (S - 1) * B
    OBVIOUS
  <2>2. (S - 1) * B = C - B
    OBVIOUS
  <2> QED BY <1>1, <2>1, <2>2
<1>3. p \in Nat /\ p \div C = k
  <2>1. p = k * C + low
    OBVIOUS
  <2> HIDE DEF C, low
  <2>2. k * C \in Nat
    BY <1>1
  <2> QED BY <1>1, <1>2, <2>1, <2>2, Division
<1> DEFINE n == k * S + s
<1>4. n \in Nat /\ p = n * B + o
  <2>1. n * B = k * C + s * B /\ n \in Nat /\ k * C \in Nat /\ s * B \in Nat
    BY Distribution
  <2>2. p = k * C + (s * B + o)
    OBVIOUS
  <2> HIDE DEF C, n
  <2> QED BY <1>1, <2>1, <2>2
<1>5. p \div B = n /\ p % B = o
  <2> HIDE DEF n
  <2> QED BY <1>4, Division
<1>6. n % S = s
  BY Division
<1> QED BY <1>2, <1>3, <1>5, <1>6

LEMMA Composed ==
  ASSUME NEW k \in Nat, NEW s \in 0 .. SectorsPerCluster - 1, NEW o \in 0 .. BytesPerSector - 1,
         NEW p, p = k * BytesPerCluster + (s * BytesPerSector + o)
  PROVE  /\ p \in Nat /\ p \div BytesPerCluster = k
         /\ SectorOfCluster(p) = s /\ Offset(p) = o
         /\ s * BytesPerSector + o \in 0 .. BytesPerCluster - 1
<1>1. SUFFICES ASSUME NEW B \in Nat, B > 0, NEW S \in Nat, S > 0,
                      B = BytesPerSector, S = SectorsPerCluster
               PROVE  /\ p \in Nat /\ p \div (B * S) = k
                      /\ (p \div B) % S = s /\ p % B = o
                      /\ s * B + o \in 0 .. B * S - 1
  BY Sizes, Zenon DEF BytesPerCluster, SectorOfCluster, Offset
<1>2. p = k * (B * S) + (s * B + o) /\ s \in 0 .. S - 1 /\ o \in 0 .. B - 1
  BY <1>1, Zenon DEF BytesPerCluster
<1>3. Numeral(B, S, k, s, o, p)
  BY <1>1, <1>2, Zenon DEF Numeral
<1> QED BY <1>3, Digits

LEMMA Decomposed ==
  ASSUME NEW p \in Nat
  PROVE  /\ p \div BytesPerCluster \in Nat
         /\ SectorOfCluster(p) \in 0 .. SectorsPerCluster - 1
         /\ Offset(p) \in 0 .. BytesPerSector - 1
         /\ p = (p \div BytesPerCluster) * BytesPerCluster
                + (SectorOfCluster(p) * BytesPerSector + Offset(p))
<1> SUFFICES ASSUME NEW B \in Nat, B > 0, NEW S \in Nat, S > 0
             PROVE  /\ p \div (B * S) \in Nat /\ (p \div B) % S \in 0 .. S - 1 /\ p % B \in 0 .. B - 1
                    /\ p = (p \div (B * S)) * (B * S) + (((p \div B) % S) * B + (p % B))
  BY Sizes DEF BytesPerCluster, SectorOfCluster, Offset
<1>1. PICK n \in Nat, o \in 0 .. B - 1 : n = p \div B /\ o = p % B /\ p = n * B + o
  BY Quotient
<1>2. PICK k \in Nat, s \in 0 .. S - 1 : k = n \div S /\ s = n % S /\ n = k * S + s
  BY Quotient
<1>3. n * B = k * (B * S) + s * B
  BY <1>2, Distribution
<1>4. p = k * (B * S) + (s * B + o)
  <2>1. s * B \in Nat /\ k * (B * S) \in Nat /\ o \in Nat
    OBVIOUS
  <2> QED BY <1>1, <1>3, <2>1
<1>5. p \div (B * S) = k
  <2>1. Numeral(B, S, k, s, o, p)
    BY <1>4, Zenon DEF Numeral
  <2> QED BY <2>1, Digits
<1> QED BY <1>1, <1>2, <1>4, <1>5

-----------------------------------------------------------------------------
(* Where a position is.                                                    *)

\* At the start of a cluster the byte before is in the one before.
LEMMA AtStart ==
  ASSUME NEW p \in Nat, p > 0, StartOfCluster(p)
  PROVE  /\ p \div BytesPerCluster > 0 /\ p = (p \div BytesPerCluster) * BytesPerCluster
         /\ Index(p) + 1 = p \div BytesPerCluster
<1>1. PICK k \in Nat : k = p \div BytesPerCluster /\ p = k * BytesPerCluster
  BY Decomposed, Sizes DEF StartOfCluster
<1>2. k > 0
  BY <1>1, Sizes
<1>3. p - 1 = (k - 1) * BytesPerCluster + (BytesPerCluster - 1)
  BY <1>1, <1>2, Sizes
<1>4. (p - 1) \div BytesPerCluster = k - 1
  <2>1. BytesPerCluster - 1 \in 0 .. BytesPerCluster - 1 /\ k - 1 \in Nat
    BY <1>2, Sizes
  <2> QED BY <1>3, <2>1, Sizes, Division
<1> QED BY <1>1, <1>2, <1>4 DEF Index

LEMMA Within ==
  ASSUME NEW p \in Nat, ~StartOfCluster(p)
  PROVE  p > 0 /\ Index(p) = p \div BytesPerCluster
<1>1. PICK k \in Nat, s \in 0 .. SectorsPerCluster - 1, o \in 0 .. BytesPerSector - 1 :
        /\ k = p \div BytesPerCluster /\ s = SectorOfCluster(p) /\ o = Offset(p)
        /\ p = k * BytesPerCluster + (s * BytesPerSector + o)
  BY Decomposed
<1> DEFINE r == s * BytesPerSector + o
<1>2. r \in 0 .. BytesPerCluster - 1
  BY <1>1, Composed
<1>3. r # 0
  <2>1. s > 0 => s * BytesPerSector >= BytesPerSector
    BY Sizes
  <2>2. s # 0 \/ o # 0
    BY <1>1 DEF StartOfCluster
  <2> QED BY <2>1, <2>2, Sizes
<1> HIDE DEF r
<1>4. p = k * BytesPerCluster + r /\ k * BytesPerCluster \in Nat
  BY <1>1, Sizes DEF r
<1>5. p - 1 = k * BytesPerCluster + (r - 1) /\ r - 1 \in 0 .. BytesPerCluster - 1
  BY <1>2, <1>3, <1>4, Sizes
<1>6. (p - 1) \div BytesPerCluster = k
  BY <1>5, Sizes, Division
<1> QED BY <1>1, <1>2, <1>3, <1>4, <1>6, Sizes DEF Index

\* The rest of a sector is in the same cluster, byte after byte.
LEMMA SameSector ==
  ASSUME NEW p \in Nat, NEW n \in Nat, n < BytesPerSector - Offset(p)
  PROVE  /\ (p + n) \div BytesPerCluster = p \div BytesPerCluster
         /\ SectorOfCluster(p + n) = SectorOfCluster(p)
         /\ Offset(p + n) = Offset(p) + n
<1>1. PICK k \in Nat, s \in 0 .. SectorsPerCluster - 1, o \in 0 .. BytesPerSector - 1 :
        /\ k = p \div BytesPerCluster /\ s = SectorOfCluster(p) /\ o = Offset(p)
        /\ p = k * BytesPerCluster + (s * BytesPerSector + o)
  BY Decomposed
<1>2. o + n \in 0 .. BytesPerSector - 1
  BY <1>1, Sizes
<1>3. p + n = k * BytesPerCluster + (s * BytesPerSector + (o + n))
  <2>1. k * BytesPerCluster \in Nat /\ s * BytesPerSector \in Nat
    BY Sizes
  <2> QED BY <1>1, <2>1
<1> DEFINE q == p + n
<1>4. q = k * BytesPerCluster + (s * BytesPerSector + (o + n))
  BY <1>3
<1> HIDE DEF q
<1>5. q \div BytesPerCluster = k /\ SectorOfCluster(q) = s /\ Offset(q) = o + n
  BY ONLY <1>2, <1>4, Composed
<1> QED BY <1>1, <1>5 DEF q

\* After a read within a sector the file is still in the cluster it was read
\* from: it moves on with the next read.
LEMMA StillThere ==
  ASSUME NEW p \in Nat, NEW n \in Nat, n > 0, n <= BytesPerSector - Offset(p)
  PROVE  Index(p + n) = p \div BytesPerCluster
<1>1. n - 1 \in Nat /\ n - 1 < BytesPerSector - Offset(p) /\ p + (n - 1) = (p + n) - 1
  BY Decomposed, Sizes
<1>2. (p + (n - 1)) \div BytesPerCluster = p \div BytesPerCluster
  BY ONLY <1>1, SameSector, p \in Nat
<1> QED BY <1>1, <1>2 DEF Index

LEMMA Chains ==
  ASSUME NEW f \in Files
  PROVE  /\ Chain[f] \in Seq(Nat) /\ Len(Chain[f]) \in Nat /\ Len(Chain[f]) >= 1
         /\ \A j \in 1 .. Len(Chain[f]) :
              Chain[f][j] \in Clusters /\ Chain[f][j] \in Nat /\ Chain[f][j] >= 2
         /\ FileSize[f] \in 1 .. Limit(f) /\ Limit(f) \in Nat
<1>1. /\ Chain[f] \in Seq(Nat) /\ FileSize[f] \in 1 .. Limit(f)
      /\ \A j \in 1 .. Len(Chain[f]) : Chain[f][j] >= 2
  BY SdFileAssumption DEF Limit
<1>2. Len(Chain[f]) \in Nat /\ \A j \in 1 .. Len(Chain[f]) : Chain[f][j] \in Nat
  BY <1>1
<1>3. Limit(f) \in Nat
  BY <1>2, Sizes DEF Limit
<1>4. Len(Chain[f]) >= 1
  <2>1. Len(Chain[f]) = 0 => Limit(f) = 0
    BY Sizes DEF Limit
  <2> QED BY <1>1, <1>2, <1>3, <2>1
<1>5. \A j \in 1 .. Len(Chain[f]) : Chain[f][j] \in Clusters
  BY DEF Clusters
<1> QED BY <1>1, <1>2, <1>3, <1>4, <1>5

\* Dividing does not turn the order of two numbers around.
LEMMA Below ==
  ASSUME NEW q \in Nat, NEW L \in Nat, q < L * BytesPerCluster
  PROVE  q \div BytesPerCluster < L
<1>1. PICK C \in Nat : C = BytesPerCluster /\ C > 0
  BY Sizes
<1>2. PICK k \in Nat, r \in 0 .. C - 1 : k = q \div C /\ q = k * C + r
  BY <1>1, Quotient
<1>3. k >= L => k * C >= L * C
  BY <1>1
<1> QED BY <1>1, <1>2, <1>3

LEMMA InFile ==
  ASSUME NEW f \in Files, NEW p \in 1 .. Limit(f)
  PROVE  Index(p) \in Nat /\ Index(p) + 1 \in 1 .. Len(Chain[f])
<1>1. Len(Chain[f]) \in Nat /\ Limit(f) = Len(Chain[f]) * BytesPerCluster /\ Limit(f) \in Nat
  BY Chains DEF Limit
<1> DEFINE q == p - 1
<1>2. q \in Nat /\ q < Len(Chain[f]) * BytesPerCluster
  BY <1>1
<1> HIDE DEF q
<1>3. q \div BytesPerCluster < Len(Chain[f]) /\ q \div BytesPerCluster \in Nat
  BY <1>1, <1>2, Below, Decomposed
<1> QED BY <1>1, <1>3 DEF q, Index

-----------------------------------------------------------------------------
(* The file allocation table.                                              *)

\* The chains have no cluster in common: an entry says which comes next.
LEMMA OneSuccessor ==
  ASSUME NEW f \in Files, NEW k \in 1 .. Len(Chain[f])
  PROVE  /\ IsLast(Chain[f][k]) => k = Len(Chain[f])
         /\ k < Len(Chain[f]) => Successor(Chain[f][k]) = Chain[f][k + 1]
<1>0. \A g, h \in Files : \A i \in 1 .. Len(Chain[g]), j \in 1 .. Len(Chain[h]) :
        Chain[g][i] = Chain[h][j] => g = h /\ i = j
  BY SdFileAssumption
<1>1. ASSUME IsLast(Chain[f][k]) PROVE k = Len(Chain[f])
  <2>1. PICK g \in Files : Chain[f][k] = Chain[g][Len(Chain[g])]
    BY <1>1 DEF IsLast
  <2>2. Len(Chain[g]) \in 1 .. Len(Chain[g])
    BY Chains
  <2> QED BY <1>0, <2>1, <2>2
<1>2. ASSUME k < Len(Chain[f]) PROVE Successor(Chain[f][k]) = Chain[f][k + 1]
  <2> DEFINE Next2(d) == \E g \in Files :
               \E j \in 1 .. Len(Chain[g]) - 1 : Chain[f][k] = Chain[g][j] /\ d = Chain[g][j + 1]
  <2>1. k \in 1 .. Len(Chain[f]) - 1 /\ k + 1 \in 1 .. Len(Chain[f])
    BY <1>2, Chains
  <2>2. Chain[f][k + 1] \in Clusters /\ Next2(Chain[f][k + 1])
    <3>1. Chain[f][k + 1] \in Clusters
      BY <2>1, Chains
    <3>2. Next2(Chain[f][k + 1])
      <4>1. \E j \in 1 .. Len(Chain[f]) - 1 :
              Chain[f][k] = Chain[f][j] /\ Chain[f][k + 1] = Chain[f][j + 1]
        BY <2>1
      <4> QED BY <4>1
    <3> QED BY <3>1, <3>2
  <2>3. ASSUME NEW d \in Clusters, Next2(d) PROVE d = Chain[f][k + 1]
    <3>0. PICK g \in Files : \E j \in 1 .. Len(Chain[g]) - 1 :
            Chain[f][k] = Chain[g][j] /\ d = Chain[g][j + 1]
      BY <2>3
    <3>1. PICK j \in 1 .. Len(Chain[g]) - 1 : Chain[f][k] = Chain[g][j] /\ d = Chain[g][j + 1]
      BY <3>0
    <3>2. j \in 1 .. Len(Chain[g])
      BY Chains
    <3>3. f = g /\ k = j
      BY <1>0, <3>1, <3>2
    <3> QED BY <3>1, <3>3
  <2> HIDE DEF Next2
  <2>4. Successor(Chain[f][k]) = CHOOSE d \in Clusters : Next2(d)
    BY DEF Successor, Next2
  <2> QED BY <2>2, <2>3, <2>4
<1> QED BY <1>1, <1>2

LEMMA SectorTypes ==
  ASSUME NEW c \in Clusters
  PROVE  /\ FatSector(c) \in Nat /\ FatSector(c) \in Sectors
         /\ \A p \in Nat : SectorOf(c, p) \in Nat /\ SectorOf(c, p) \in DataSectors
<1>1. c \in Nat /\ c >= 2
  BY Chains DEF Clusters
<1>2. FatSector(c) \in Nat
  BY <1>1, SdFileAssumption DEF FatSector
<1>3. FatSector(c) \in Sectors
  BY DEF Sectors, FatSectors
<1>4. ASSUME NEW p \in Nat PROVE SectorOf(c, p) \in Nat /\ SectorOf(c, p) \in DataSectors
  <2>1. SectorOfCluster(p) \in 0 .. SectorsPerCluster - 1
    BY Decomposed
  <2>2. SectorOf(c, p) \in DataSectors
    BY <2>1 DEF SectorOf, DataSectors
  <2>3. DataStart \in Nat /\ (c - 2) * SectorsPerCluster \in Nat
    BY <1>1, Sizes, SdFileAssumption
  <2> QED BY <2>1, <2>2, <2>3, Sizes DEF SectorOf
<1> QED BY <1>2, <1>3, <1>4

-----------------------------------------------------------------------------
(* The card and the cache: what can come out of a device that is right.    *)

LEMMA Failing ==
  ASSUME NEW d \in Parts, Cached(d), NEW r \in Fault(d)
  PROVE  /\ r.ok = FALSE /\ r.device \in Devices
         /\ r.device.faults = d.faults + 1
         /\ r.device.sector = d.sector /\ r.device.buffer = d.buffer
         /\ r = Result(FALSE, r.device)
<1> DEFINE g == [d EXCEPT !.active = FALSE, !.stream = NoSector, !.faults = @ + 1]
<1>1. d.faults # MaxFaults /\ r = Result(FALSE, g)
  BY DEF Fault
<1>2. g \in Parts
  <2>1. d.faults \in 0 .. MaxFaults /\ MaxFaults \in Nat
    BY SdFileAssumption DEF Parts
  <2>2. d.faults + 1 \in 0 .. MaxFaults
    BY <1>1, <2>1
  <2> QED BY <2>2 DEF Parts
<1>3. g \in Devices /\ g.faults = d.faults + 1 /\ g.sector = d.sector /\ g.buffer = d.buffer
  BY <1>2 DEF Devices, Parts, Streaming, Cached
<1> QED BY <1>1, <1>3 DEF Result

\* The state in which a sector is refused without asking the card for it.
Stuck(d, sector) == d.state = "READ_STATE" /\ ~d.active /\ d.cur = sector

\* The card is at the sector, or that failed.
LEMMA Started ==
  ASSUME NEW d \in Devices, NEW sector \in Nat, NEW r \in readStart(d, sector)
  PROVE  /\ r.ok \in BOOLEAN
         /\ r.device.sector = d.sector /\ r.device.buffer = d.buffer
         /\ r.ok => /\ r.device \in Parts /\ Cached(r.device)
                    /\ r.device.active /\ r.device.stream = sector
                    /\ r.device.faults = d.faults
         /\ ~r.ok => r.device \in Devices /\ r.device.faults = d.faults + 1
<1> DEFINE idle == [d EXCEPT !.state = "IDLE_STATE"]
           on == [d EXCEPT !.state = "READ_STATE", !.active = TRUE, !.stream = sector]
<1>1. idle \in Parts /\ Cached(idle) /\ idle.faults = d.faults
      /\ idle.sector = d.sector /\ idle.buffer = d.buffer
  BY DEF Devices, Parts, Cached
<1>2. r \in Fault(idle) \cup {Result(TRUE, [idle EXCEPT !.state = "READ_STATE", !.active = TRUE,
                                                      !.stream = sector])}
  BY DEF readStart
<1>3. CASE r \in Fault(idle)
  <2> HIDE DEF idle
  <2> QED BY <1>1, <1>3, Failing
<1>4. CASE r = Result(TRUE, [idle EXCEPT !.state = "READ_STATE", !.active = TRUE, !.stream = sector])
  <2>1. r = Result(TRUE, on)
    BY <1>4 DEF Devices, Parts
  <2>2. on \in Parts /\ Cached(on)
    BY DEF Devices, Parts, Cached
  <2> QED BY <2>1, <2>2 DEF Result, Devices, Parts
<1> QED BY <1>2, <1>3, <1>4

\* readData from a card that is ready for the sector, and the number that
\* readSectors keeps of it.
LEMMA DataRead ==
  ASSUME NEW d \in Parts, Cached(d), NEW sector \in Nat, d.active => d.stream = sector,
         NEW s \in readData(d)
  PROVE  LET e == [s.device EXCEPT !.cur = sector + (IF s.ok THEN 1 ELSE 0)]
         IN /\ s.ok \in BOOLEAN
            /\ e \in Devices
            /\ e.sector = d.sector /\ e.buffer = d.buffer
            /\ s.ok => e.stream = sector + 1 /\ e.active /\ e.faults = d.faults
            /\ ~s.ok => e.faults >= d.faults /\ (e.faults = d.faults => ~d.active)
<1> DEFINE e == [s.device EXCEPT !.cur = sector + (IF s.ok THEN 1 ELSE 0)]
<1>0. d.faults \in Nat
  BY SdFileAssumption DEF Parts
<1>1. CASE d.active /\ s = Result(TRUE, [d EXCEPT !.stream = @ + 1])
  <2> DEFINE g == [d EXCEPT !.stream = sector + 1]
  <2>1. s = Result(TRUE, g)
    BY <1>1
  <2>2. g \in Parts /\ Cached(g) /\ g.stream = sector + 1 /\ g.active /\ g.faults = d.faults
        /\ g.sector = d.sector /\ g.buffer = d.buffer
    BY <1>1 DEF Parts, Cached
  <2> HIDE DEF g
  <2>3. s.ok = TRUE /\ s.device = g
    BY <2>1 DEF Result
  <2>4. e = [g EXCEPT !.cur = sector + 1]
    BY <2>3
  <2> HIDE DEF e
  <2>5. e \in Parts /\ e.cur = sector + 1 /\ e.stream = sector + 1 /\ e.active
        /\ e.faults = g.faults /\ e.sector = g.sector /\ e.buffer = g.buffer
    BY <2>2, <2>4 DEF Parts
  <2>6. e \in Devices
    BY <2>2, <2>5 DEF Devices, Streaming, Cached
  <2> QED BY <2>2, <2>3, <2>5, <2>6 DEF e
<1>2. ASSUME NEW g \in Parts, s.ok = FALSE, s.device = g, Cached(g), ~g.active,
             g.faults >= d.faults, g.faults = d.faults => ~d.active,
             g.sector = d.sector, g.buffer = d.buffer
      PROVE  /\ s.ok \in BOOLEAN /\ ~s.ok
             /\ e \in Devices
             /\ e.sector = d.sector /\ e.buffer = d.buffer
             /\ e.faults >= d.faults /\ (e.faults = d.faults => ~d.active)
  <2>1. e = [g EXCEPT !.cur = sector]
    BY <1>2
  <2> HIDE DEF e
  <2>2. e \in Parts /\ ~e.active
        /\ e.faults = g.faults /\ e.sector = g.sector /\ e.buffer = g.buffer
    BY <1>2, <2>1 DEF Parts
  <2>3. e \in Devices
    BY <1>2, <2>2 DEF Devices, Streaming, Cached
  <2> QED BY <1>2, <2>2, <2>3
<1>3. CASE d.active /\ s \in Fault(d)
  <2>1. /\ s.device \in Devices /\ s.device.faults = d.faults + 1
        /\ s.device.sector = d.sector /\ s.device.buffer = d.buffer
        /\ s = Result(FALSE, s.device)
    BY <1>3, Failing
  <2>2. s.ok = FALSE
    BY <2>1 DEF Result
  <2>3. s.device \in Parts /\ Cached(s.device)
    BY <2>1 DEF Devices
  <2>4. ~s.device.active
    <3>1. s.device = [d EXCEPT !.active = FALSE, !.stream = NoSector, !.faults = @ + 1]
      BY <1>3 DEF Fault, Result
    <3> QED BY <3>1 DEF Parts
  <2> HIDE DEF e
  <2>5. s.device.faults >= d.faults /\ s.device.faults # d.faults
    BY <1>0, <2>1
  <2>6. s.device.sector = d.sector /\ s.device.buffer = d.buffer
    BY <2>1
  <2> QED BY ONLY <1>2, <2>2, <2>3, <2>4, <2>5, <2>6 DEF e
<1>4. CASE ~d.active /\ s = Result(FALSE, d)
  <2>1. s.ok = FALSE /\ s.device = d
    BY <1>4 DEF Result
  <2> HIDE DEF e
  <2>2. d.faults >= d.faults
    BY <1>0
  <2> QED BY ONLY <1>2, <1>4, <2>1, <2>2, d \in Parts, Cached(d) DEF e
<1>5. \/ d.active /\ s = Result(TRUE, [d EXCEPT !.stream = @ + 1])
      \/ d.active /\ s \in Fault(d)
      \/ ~d.active /\ s = Result(FALSE, d)
  BY DEF readData
<1> HIDE DEF e
<1> QED BY <1>1, <1>3, <1>4, <1>5 DEF e

\* What readSectors makes of the device: the cache is as it was, and the card
\* has sent the sector or a failure is behind or before it.
LEMMA SectorsRead ==
  ASSUME NEW d \in Devices, NEW sector \in Nat, NEW r \in readSectors(d, sector)
  PROVE  /\ r.ok \in BOOLEAN
         /\ r.device \in Devices
         /\ r.device.sector = d.sector /\ r.device.buffer = d.buffer
         /\ r.device.faults >= d.faults
         /\ r.ok => r.device.stream = sector + 1 /\ r.device.active
         /\ ~r.ok /\ r.device.faults = d.faults => Stuck(d, sector)
<1> DEFINE hit == d.state = "READ_STATE" /\ sector = d.cur
           ready == IF hit THEN {Result(TRUE, d)} ELSE readStart(d, sector)
           After(s) == Result(s.ok, [s.device EXCEPT !.cur = sector + (IF s.ok THEN 1 ELSE 0)])
<1>0. d \in Parts /\ Cached(d) /\ Streaming(d) /\ d.faults \in Nat
  BY SdFileAssumption DEF Devices, Parts
<1>1. PICK a \in ready : IF ~a.ok THEN r = a ELSE \E s \in readData(a.device) : r = After(s)
  BY DEF readSectors
<1>2. CASE ~a.ok
  <2>1. ~hit
    BY <1>2 DEF Result
  <2>2. a \in readStart(d, sector) /\ r = a
    BY <1>1, <1>2, <2>1
  <2>3. ~r.ok /\ a.ok \in BOOLEAN
    BY <1>2, <2>2, Started
  <2> QED BY <1>0, <2>2, <2>3, Started
<1>3. CASE a.ok
  <2>1. /\ a.device \in Parts /\ Cached(a.device) /\ (a.device.active => a.device.stream = sector)
        /\ a.device.faults = d.faults
        /\ a.device.sector = d.sector /\ a.device.buffer = d.buffer
        /\ ~a.device.active => Stuck(d, sector)
    <3>1. CASE hit
      <4>1. a.device = d
        BY <3>1 DEF Result
      <4> QED BY <1>0, <3>1, <4>1 DEF Streaming, Stuck
    <3>2. CASE ~hit
      <4>1. a \in readStart(d, sector)
        BY <3>2
      <4> QED BY <1>3, <4>1, Started
    <3> QED BY <3>1, <3>2
  <2>2. PICK s \in readData(a.device) : r = After(s)
    BY <1>1, <1>3
  <2> DEFINE e == [s.device EXCEPT !.cur = sector + (IF s.ok THEN 1 ELSE 0)]
  <2>3. /\ s.ok \in BOOLEAN
        /\ e \in Devices
        /\ e.sector = a.device.sector /\ e.buffer = a.device.buffer
        /\ s.ok => e.stream = sector + 1 /\ e.active /\ e.faults = a.device.faults
        /\ ~s.ok => e.faults >= a.device.faults /\ (e.faults = a.device.faults => ~a.device.active)
    BY <2>1, DataRead
  <2>4. r.ok = s.ok /\ r.device = e
    BY <2>2 DEF Result
  <2> HIDE DEF e
  <2> QED BY <1>0, <2>1, <2>3, <2>4
<1> QED BY <1>2, <1>3

\* What FsCache::prepare makes of it: the buffer holds the sector asked for,
\* without a call of the card or with one that left it ready for more.
LEMMA Prepared ==
  ASSUME NEW d \in Devices, NEW sector \in Sectors, sector \in Nat, NEW r \in prepare(d, sector)
  PROVE  /\ r.ok \in BOOLEAN
         /\ r.device \in Devices
         /\ r.device.faults >= d.faults
         /\ r.ok => /\ r.device.buffer = sector
                    /\ r.device = d \/ r.device.active
         /\ ~r.ok /\ r.device.faults = d.faults => Stuck(d, sector)
<1>0. d \in Parts /\ Cached(d) /\ d.faults \in Nat /\ sector # NoSector
  BY SdFileAssumption DEF Devices, Parts, NoSector
<1>1. CASE d.sector = sector
  <2>1. r.ok = TRUE /\ r.device = d
    BY <1>1 DEF prepare, Result
  <2>2. d.buffer = sector
    BY <1>0, <1>1 DEF Cached
  <2>3. r.device.faults >= d.faults
    BY <1>0, <2>1
  <2>4. d.buffer = sector => r.device.buffer = sector
    BY <2>1
  <2> QED BY ONLY <2>1, <2>2, <2>3, <2>4, d \in Devices
<1>2. CASE d.sector # sector
  <2>1. PICK s \in readSectors(d, sector) :
          r = IF s.ok THEN Result(TRUE, [s.device EXCEPT !.sector = sector, !.buffer = s.device.stream - 1])
              ELSE s
    BY <1>2 DEF prepare
  <2>2. /\ s.ok \in BOOLEAN
        /\ s.device \in Devices
        /\ s.device.faults >= d.faults
        /\ s.ok => s.device.stream = sector + 1 /\ s.device.active
        /\ ~s.ok /\ s.device.faults = d.faults => Stuck(d, sector)
    BY SectorsRead
  <2>3. CASE ~s.ok
    BY <2>1, <2>2, <2>3
  <2>4. CASE s.ok
    <3> DEFINE e == [s.device EXCEPT !.sector = sector, !.buffer = sector]
    <3>1. s.device.stream - 1 = sector
      BY <2>2, <2>4
    <3>2. r.ok = TRUE /\ r.device = e
      BY <2>1, <2>4, <3>1 DEF Result
    <3>3. /\ e \in Parts /\ e.sector = sector /\ e.buffer = sector
          /\ e.state = s.device.state /\ e.active = s.device.active
          /\ e.stream = s.device.stream /\ e.cur = s.device.cur /\ e.faults = s.device.faults
      BY <2>2 DEF Devices, Parts
    <3> HIDE DEF e
    <3>4. e \in Devices
      BY <2>2, <3>3 DEF Devices, Streaming, Cached
    <3> QED BY <2>2, <2>4, <3>2, <3>3, <3>4
  <2> QED BY <2>3, <2>4
<1> QED BY <1>1, <1>2

\* What fatGet makes of it for the k-th cluster of a file: the cluster that
\* comes next, unless there is none or the FAT cannot be read.
LEMMA Walked ==
  ASSUME NEW d \in Devices, NEW f \in Files, NEW k \in 1 .. Len(Chain[f]),
         NEW g \in fatGet(d, Chain[f][k])
  PROVE  /\ g.res \in {-1, 0, 1}
         /\ g.device \in Devices
         /\ g.device.faults >= d.faults
         /\ g.res = 1 => /\ k < Len(Chain[f]) /\ g.value = Chain[f][k + 1]
                         /\ g.device = d \/ g.device.active
         /\ g.res = 0 => k = Len(Chain[f])
         /\ g.res = -1 /\ g.device.faults = d.faults => Stuck(d, FatSector(Chain[f][k]))
<1> DEFINE c == Chain[f][k]
<1>1. c \in Clusters /\ FatSector(c) \in Nat /\ FatSector(c) \in Sectors
  BY Chains, SectorTypes
<1>2. PICK r \in prepare(d, FatSector(c)) :
        IF ~r.ok THEN g = [res |-> -1, device |-> r.device, value |-> c]
        ELSE \E e \in Entry(c, r.device.buffer) :
               g = IF e = 0 THEN [res |-> 0, device |-> r.device, value |-> c]
                   ELSE [res |-> 1, device |-> r.device, value |-> e]
  BY <1>1 DEF fatGet
<1> HIDE DEF c
<1>3. /\ r.ok \in BOOLEAN
      /\ r.device \in Devices
      /\ r.device.faults >= d.faults
      /\ r.ok => /\ r.device.buffer = FatSector(c)
                 /\ r.device = d \/ r.device.active
      /\ ~r.ok /\ r.device.faults = d.faults => Stuck(d, FatSector(c))
  BY <1>1, Prepared
<1>4. CASE ~r.ok
  BY <1>2, <1>3, <1>4 DEF c
<1>5. CASE r.ok
  <2>1. PICK e \in Entry(c, r.device.buffer) :
          g = IF e = 0 THEN [res |-> 0, device |-> r.device, value |-> c]
              ELSE [res |-> 1, device |-> r.device, value |-> e]
    BY <1>2, <1>5
  <2>2. e = IF IsLast(c) THEN 0 ELSE Successor(c)
    BY <1>3, <1>5 DEF Entry
  <2>3. CASE IsLast(c)
    <3>1. k = Len(Chain[f])
      BY <2>3, OneSuccessor DEF c
    <3> QED BY <1>3, <1>5, <2>1, <2>2, <2>3, <3>1
  <2>4. CASE ~IsLast(c)
    <3>1. k # Len(Chain[f])
      BY <2>4 DEF c, IsLast
    <3>2. k < Len(Chain[f])
      BY <3>1, Chains
    <3>3. k + 1 \in 1 .. Len(Chain[f])
      BY <3>2, Chains
    <3>4. e = Chain[f][k + 1] /\ e # 0
      <4>1. e = Chain[f][k + 1]
        BY <2>2, <2>4, <3>2, OneSuccessor DEF c
      <4>2. Chain[f][k + 1] \in Nat /\ Chain[f][k + 1] >= 2
        BY <3>3, Chains
      <4> QED BY <4>1, <4>2
    <3> QED BY <1>3, <1>5, <2>1, <3>2, <3>4
  <2> QED BY <2>3, <2>4
<1> QED BY <1>3, <1>4, <1>5

-----------------------------------------------------------------------------
(* The state.                                                              *)

LEMMA Turned ==
  ASSUME NEW d \in Devices, Becomes(d)
  PROVE  Device' \in Devices /\ count' = d.faults
<1>1. Device' = d
  BY DEF Device, Becomes, Devices, Parts
<1> QED BY <1>1 DEF Becomes

LEMMA DeviceTypes ==
  Device \in Devices => /\ m_state \in {"IDLE_STATE", "READ_STATE"}
                        /\ m_curSector \in Nat /\ m_spiActive \in BOOLEAN
                        /\ stream \in Nat \cup {NoSector}
                        /\ m_sector \in Sectors \cup {NoSector}
                        /\ m_buffer \in Sectors \cup {NoSector}
                        /\ count \in 0 .. MaxFaults
BY DEF Device, Devices, Parts

LEMMA InvType == SdFileInv => TypeOK
BY DeviceTypes DEF SdFileInv, FileTypes, TypeOK

ReadCalls ==
  [kind : {"read"}, file : Files, toRead : 0 .. BytesPerSector, from : Nat, got : Seq(Bytes)]
SeekCalls ==
  [kind : {"seek"}, file : Files \ Dirs, pos : Nat, left : Nat,
   tmp : Clusters \cup {0}, fromStart : BOOLEAN]

LEMMA Kinds ==
  ASSUME call \in Calls
  PROVE  /\ Reading <=> call \in ReadCalls
         /\ Seeking <=> call \in SeekCalls
         /\ Reading \/ Seeking \/ call = NoCall
         /\ ~(Reading /\ Seeking)
BY DEF Calls, Reading, Seeking, NoCall, ReadCalls, SeekCalls

\* A file that a step does not touch.
LEMMA Kept ==
  ASSUME NEW f \in Files, Found(f), ~(Seeking /\ call.file = f), ~(Seeking /\ call.file = f)',
         m_curPosition'[f] = m_curPosition[f], m_curCluster'[f] = m_curCluster[f],
         f \in astray' <=> f \in astray
  PROVE  Found(f)'
BY DEF Found, Place, On

\* A place in a chain is a cluster.
LEMMA OnCluster ==
  ASSUME NEW f \in Files, NEW c, NEW k, On(f, c, k)
  PROVE  c \in Clusters
BY Chains DEF On

\* Where a read looks for the next byte: in the cluster of the position, or
\* it fails, for a file in its content only if the FAT cannot be read.
LEMMA LocatedRight ==
  ASSUME SdFileInv, Reading, NEW f \in Files, f = call.file,
         NEW p \in Nat, p = m_curPosition[f], NEW l \in Located(f)
  PROVE  /\ l.res \in {-1, 0, 1}
         /\ l.device \in Devices
         /\ l.device.faults >= count
         /\ l.res = 1 => /\ On(f, l.value, p \div BytesPerCluster + 1)
                         /\ l.device = Device \/ l.device.active
                         /\ ~StartOfCluster(p) => l.value = m_curCluster[f]
         /\ l.res <= 0 /\ f \notin Dirs \cup astray /\ call.toRead > 0 /\ l.device.faults = count
              => Stuck(Device, FatSector(m_curCluster[f]))
<1>0. /\ Device \in Devices /\ Device.faults = count /\ count \in Nat
      /\ Place(f, m_curCluster[f], p)
      /\ call \in ReadCalls
  <2>1. Device \in Devices /\ FileTypes /\ Found(f)
    BY DEF SdFileInv
  <2>2. call \in ReadCalls /\ ~Seeking
    BY <2>1, Kinds DEF FileTypes
  <2>3. Device.faults = count /\ count \in Nat
    BY <2>1, DeviceTypes, SdFileAssumption DEF Device
  <2> QED BY <2>1, <2>2, <2>3 DEF Found
<1>1. CASE ~StartOfCluster(p)
  <2>1. l = [res |-> 1, device |-> Device, value |-> m_curCluster[f]]
    BY <1>1 DEF Located
  <2>2. p > 0 /\ Index(p) = p \div BytesPerCluster
    BY <1>1, Within
  <2>3. On(f, m_curCluster[f], p \div BytesPerCluster + 1)
    BY <1>0, <2>2 DEF Place
  <2> QED BY <1>0, <2>1, <2>3
<1>2. CASE StartOfCluster(p) /\ p = 0
  <2>1. l = [res |-> 1, device |-> Device, value |-> Chain[f][1]]
    BY <1>2 DEF Located
  <2>2. p \div BytesPerCluster = 0
    BY <1>2, Sizes
  <2>3. On(f, Chain[f][1], 1)
    BY Chains DEF On
  <2> QED BY <1>0, <1>2, <2>1, <2>2, <2>3
<1>3. CASE StartOfCluster(p) /\ p # 0
  <2> DEFINE k == p \div BytesPerCluster
  <2>1. p > 0 /\ k \in Nat /\ k > 0 /\ p = k * BytesPerCluster /\ Index(p) + 1 = k
    BY <1>3, AtStart, Decomposed
  <2>2. l \in fatGet(Device, m_curCluster[f])
    BY <1>3 DEF Located
  <2> HIDE DEF k
  <2>3. PICK j \in 1 .. Len(Chain[f]) :
          m_curCluster[f] = Chain[f][j] /\ j >= k /\ (f \notin astray => j = k)
    BY <1>0, <2>1 DEF Place, On
  <2>4. /\ l.res \in {-1, 0, 1}
        /\ l.device \in Devices
        /\ l.device.faults >= Device.faults
        /\ l.res = 1 => /\ j < Len(Chain[f]) /\ l.value = Chain[f][j + 1]
                        /\ l.device = Device \/ l.device.active
        /\ l.res = 0 => j = Len(Chain[f])
        /\ l.res = -1 /\ l.device.faults = Device.faults => Stuck(Device, FatSector(Chain[f][j]))
    BY <1>0, <2>2, <2>3, Walked
  <2>5. Len(Chain[f]) \in Nat /\ j \in Nat
    BY <2>3, Chains
  <2>6. ASSUME l.res = 1 PROVE On(f, l.value, k + 1)
    <3>1. j + 1 \in 1 .. Len(Chain[f]) /\ l.value = Chain[f][j + 1]
          /\ j + 1 >= k + 1 /\ (f \notin astray => j + 1 = k + 1)
      BY <2>1, <2>3, <2>4, <2>5, <2>6
    <3> QED BY <3>1 DEF On
  <2>7. ASSUME l.res = 0, f \notin Dirs \cup astray, call.toRead > 0 PROVE FALSE
    <3>1. j = k /\ k = Len(Chain[f])
      BY <2>3, <2>4, <2>7
    <3>2. p + call.toRead <= FileSize[f]
      BY <2>7 DEF SdFileInv, ReadSoFar
    <3>3. p = Limit(f)
      BY <2>1, <3>1 DEF Limit
    <3>4. call.toRead \in Nat
      BY <1>0, Sizes DEF ReadCalls
    <3>5. FileSize[f] \in Nat /\ FileSize[f] <= Limit(f) /\ Limit(f) \in Nat
      BY Chains
    <3> QED BY <2>7, <3>2, <3>3, <3>4, <3>5
  <2> QED BY <1>0, <1>3, <2>3, <2>4, <2>6, <2>7 DEF k
<1> QED BY <1>1, <1>2, <1>3

-----------------------------------------------------------------------------
(* Calls begin.                                                            *)

LEMMA InitInv == Init => SdFileInv
<1> SUFFICES ASSUME Init PROVE SdFileInv
  OBVIOUS
<1>1. Device \in Devices
  <2>1. Device = [state |-> "IDLE_STATE", cur |-> 0, active |-> FALSE, stream |-> NoSector,
                  sector |-> NoSector, buffer |-> NoSector, faults |-> 0]
    BY DEF Init, Device
  <2>2. 0 \in 0 .. MaxFaults
    BY SdFileAssumption
  <2> QED BY <2>1, <2>2 DEF Devices, Parts, Streaming, Cached
<1>2. \A f \in Files : m_curPosition[f] = 0
  BY DEF Init
<1>3. FileTypes
  <2>1. \A f \in Files : 0 \in 0 .. (IF f \in Dirs THEN Limit(f) ELSE FileSize[f])
    BY Chains
  <2> QED BY <1>2, <2>1 DEF Init, FileTypes, Calls, NoCall
<1>4. ~Reading /\ ~Seeking
  BY DEF Init, Reading, Seeking
<1> QED BY <1>1, <1>2, <1>3, <1>4 DEF SdFileInv, Found, Place, ReadSoFar

\* Nothing is being sought or read before a call and after it.
LEMMA Idle ==
  /\ call = NoCall => ~Reading /\ ~Seeking
  /\ Return => (~Reading /\ ~Seeking)'
BY DEF Reading, Seeking, Return

LEMMA SameDevice ==
  ASSUME Device \in Devices, UNCHANGED device
  PROVE  Device' \in Devices /\ count' = count
BY DEF device, card, cache, Device

LEMMA ReadKeeps ==
  ASSUME SdFileInv, NEW f \in Files, NEW nbyte \in ReadSizes, Read(f, nbyte)
  PROVE  SdFileInv'
<1> DEFINE left == FileSize[f] - m_curPosition[f]
           toRead == IF f \notin Dirs /\ nbyte > left THEN left ELSE nbyte
<1>0. FileTypes /\ Device \in Devices /\ m_curPosition[f] \in Nat
  BY DEF SdFileInv, FileTypes
<1>1. /\ call = NoCall /\ (f \in Dirs => nbyte = 1) /\ toRead > 0
      /\ call' = [kind |-> "read", file |-> f, toRead |-> toRead,
                  from |-> m_curPosition[f], got |-> <<>>]
      /\ UNCHANGED <<device, file, astray>>
  BY DEF Read
<1>2. nbyte \in Nat /\ nbyte < BytesPerSector /\ left \in Int /\ FileSize[f] \in Nat
  BY <1>0, Chains, Sizes, SdFileAssumption
<1>3. /\ toRead \in 0 .. BytesPerSector
      /\ f \in Dirs => toRead <= 1
      /\ f \notin Dirs => m_curPosition[f] + toRead <= FileSize[f]
  BY <1>0, <1>1, <1>2, Sizes
<1> HIDE DEF toRead
<1>4. /\ call'.kind = "read" /\ call'.file = f /\ call'.toRead = toRead
      /\ call'.from = m_curPosition[f] /\ call'.got = <<>>
  BY <1>1
<1>5. Reading' /\ ~Seeking' /\ ~Seeking
  BY <1>1, <1>4, Idle DEF Reading, Seeking, NoCall
<1>6. FileTypes'
  <2>1. call' \in Calls
    <3>1. <<>> \in Seq(Bytes)
      OBVIOUS
    <3>2. call' \in ReadCalls
      BY <1>0, <1>1, <1>3, <3>1 DEF ReadCalls
    <3> QED BY <3>2 DEF ReadCalls, Calls
  <2> QED BY <1>0, <1>1, <2>1 DEF FileTypes, file
<1>7. \A g \in Files : Found(g)'
  BY <1>1, <1>5, Kept DEF SdFileInv, file
<1>8. ReadSoFar'
  <2>1. Content(f, m_curPosition[f], 0) = <<>>
    BY DEF Content
  <2>2. Len(<<>>) = 0 /\ m_curPosition[f] + 0 = m_curPosition[f]
    BY <1>0
  <2>3. m_curPosition' = m_curPosition
    BY <1>1 DEF file
  <2>4. call'.file \notin astray' => call'.got = Content(call'.file, call'.from, Len(call'.got))
    BY <1>4, <2>1, <2>2
  <2>5. Content(call.file, call.from, Len(call.got))' = Content(call'.file, call'.from, Len(call'.got))
    BY DEF Content
  <2> QED BY <1>3, <1>4, <2>2, <2>3, <2>4, <2>5 DEF ReadSoFar
<1> QED BY <1>0, <1>1, <1>6, <1>7, <1>8, SameDevice DEF SdFileInv

LEMMA RewindKeeps ==
  ASSUME SdFileInv, NEW f \in Files, Rewind(f)
  PROVE  SdFileInv'
<1>0. FileTypes /\ Device \in Devices
  BY DEF SdFileInv
<1>1. /\ call = NoCall /\ UNCHANGED <<device, call>>
      /\ m_curPosition' = [m_curPosition EXCEPT ![f] = 0]
      /\ m_curCluster' = [m_curCluster EXCEPT ![f] = 0]
      /\ astray' = astray \ {f}
  BY DEF Rewind
<1>2. ~Reading /\ ~Seeking /\ ~Reading' /\ ~Seeking'
  BY <1>1, Idle DEF Reading, Seeking
<1>3. FileTypes'
  <2>1. 0 \in 0 .. (IF f \in Dirs THEN Limit(f) ELSE FileSize[f])
    BY Chains
  <2> QED BY <1>0, <1>1, <2>1 DEF FileTypes
<1>4. ASSUME NEW g \in Files PROVE Found(g)'
  <2>1. CASE g = f
    <3>1. m_curPosition'[g] = 0
      BY <1>0, <1>1, <2>1 DEF FileTypes
    <3> QED BY <1>2, <3>1 DEF Found, Place
  <2>2. CASE g # f
    <3>1. /\ m_curPosition'[g] = m_curPosition[g] /\ m_curCluster'[g] = m_curCluster[g]
          /\ g \in astray' <=> g \in astray
      BY <1>0, <1>1, <2>2 DEF FileTypes
    <3> QED BY <1>2, <3>1, Kept DEF SdFileInv
  <2> QED BY <2>1, <2>2
<1> QED BY <1>0, <1>1, <1>2, <1>3, <1>4, SameDevice DEF SdFileInv, ReadSoFar

\* Where a file that moves to pos starts to walk.
LEMMA SeekKeeps ==
  ASSUME SdFileInv, NEW f \in Files \ Dirs, NEW pos \in 1 .. FileSize[f], seekSet(f, pos)
  PROVE  SdFileInv'
<1> DEFINE p == m_curPosition[f]
           fromStart == p = 0 \/ Index(pos) < Index(p)
           left == Index(pos) - (IF fromStart THEN 0 ELSE Index(p))
<1>0. /\ FileTypes /\ Device \in Devices /\ Found(f)
      /\ p \in Nat /\ p \in 0 .. FileSize[f] /\ m_curCluster[f] \in Clusters \cup {0}
  BY DEF SdFileInv, FileTypes
<1>1. /\ call = NoCall
      /\ call' = [kind |-> "seek", file |-> f, pos |-> pos, left |-> left,
                  tmp |-> m_curCluster[f], fromStart |-> fromStart]
      /\ m_curCluster' = IF fromStart THEN [m_curCluster EXCEPT ![f] = Chain[f][1]] ELSE m_curCluster
      /\ UNCHANGED <<device, m_curPosition, astray>>
  BY DEF seekSet
<1>2. /\ call'.kind = "seek" /\ call'.file = f /\ call'.pos = pos /\ call'.left = left
      /\ call'.tmp = m_curCluster[f] /\ call'.fromStart = fromStart
  BY <1>1
<1>3. Seeking' /\ ~Reading' /\ ~Reading /\ ~Seeking
  BY <1>1, <1>2, Idle DEF Reading, Seeking, NoCall
<1>4. Index(pos) \in Nat /\ (p > 0 => Index(p) \in Nat)
  <2>1. pos \in 1 .. Limit(f) /\ (p > 0 => p \in 1 .. Limit(f))
    BY <1>0, Chains
  <2> QED BY <2>1, InFile
<1>5. left \in Nat /\ fromStart \in BOOLEAN
  BY <1>0, <1>4
<1>6. Len(Chain[f]) >= 1 /\ Len(Chain[f]) \in Nat /\ Chain[f][1] \in Clusters
  BY Chains
<1> HIDE DEF left, fromStart, p
<1>7. FileTypes'
  <2>1. call' \in Calls
    <3>1. call' \in SeekCalls
      BY <1>0, <1>1, <1>5 DEF SeekCalls
    <3> QED BY <3>1 DEF SeekCalls, Calls
  <2> QED BY <1>0, <1>1, <1>6, <2>1 DEF FileTypes
<1>8. ASSUME NEW g \in Files PROVE Found(g)'
  <2>1. CASE g = f
    <3>0. Place(f, m_curCluster[f], p)
      BY <1>0, <1>3 DEF Found, p
    <3>1. Place(f, call.tmp, m_curPosition[f])'
      <4>1. \A k : On(f, m_curCluster[f], k) => On(f, call.tmp, k)'
        BY <1>1, <1>2 DEF On
      <4>2. m_curPosition' = m_curPosition
        BY <1>1
      <4> QED BY <3>0, <4>1, <4>2 DEF Place, Index, p
    <3>2. \E j \in 1 .. Len(Chain[f]) :
            /\ m_curCluster'[f] = Chain[f][j]
            /\ j + left >= Index(pos) + 1
            /\ fromStart \/ f \notin astray => j + left = Index(pos) + 1
      <4>1. CASE fromStart
        <5>1. m_curCluster'[f] = Chain[f][1] /\ left = Index(pos)
          BY <1>0, <1>1, <1>4, <4>1 DEF left, FileTypes
        <5> QED BY <1>4, <1>6, <5>1
      <4>2. CASE ~fromStart
        <5>1. m_curCluster' = m_curCluster /\ left = Index(pos) - Index(p) /\ p # 0
          BY <1>1, <4>2 DEF left, fromStart
        <5>2. PICK j \in 1 .. Len(Chain[f]) :
                m_curCluster[f] = Chain[f][j] /\ j >= Index(p) + 1
                /\ (f \notin astray => j = Index(p) + 1)
          BY <3>0, <5>1 DEF Place, On
        <5>3. j \in Nat /\ Index(p) \in Nat /\ Index(pos) \in Nat
          BY <1>0, <1>4, <1>6, <5>1, <5>2
        <5>4. j + left >= Index(pos) + 1 /\ (f \notin astray => j + left = Index(pos) + 1)
          BY <5>1, <5>2, <5>3
        <5> QED BY <4>2, <5>1, <5>2, <5>4
      <4> QED BY <4>1, <4>2
    <3>3. OnItsWay(f)'
      BY <1>1, <1>2, <3>2 DEF OnItsWay
    <3> QED BY <1>2, <1>3, <2>1, <3>1, <3>3 DEF Found
  <2>2. CASE g # f
    <3>1. m_curCluster'[g] = m_curCluster[g]
      BY <1>0, <1>1, <2>2 DEF FileTypes
    <3> QED BY <1>1, <1>2, <1>3, <2>2, <3>1, Kept DEF SdFileInv
  <2> QED BY <2>1, <2>2
<1> QED BY <1>0, <1>1, <1>3, <1>7, <1>8, SameDevice DEF SdFileInv, ReadSoFar

-----------------------------------------------------------------------------
(* Calls end without having moved the file, or where they were to.         *)

\* A call that returns, for the files that it is not about.
LEMMA Others ==
  ASSUME SdFileInv, NEW f \in Files, call # NoCall, f # call.file, Return,
         m_curPosition'[f] = m_curPosition[f], m_curCluster'[f] = m_curCluster[f],
         f \in astray' <=> f \in astray
  PROVE  Found(f)'
BY Idle, Kept DEF SdFileInv

LEMMA ReadDoneKeeps ==
  ASSUME SdFileInv, ReadDone
  PROVE  SdFileInv'
<1>0. /\ FileTypes /\ Device \in Devices
      /\ Return /\ UNCHANGED <<device, file, astray>> /\ Reading
      /\ ~Reading' /\ ~Seeking' /\ ~Seeking
  BY Idle, Kinds DEF SdFileInv, ReadDone, FileTypes
<1>1. FileTypes'
  BY <1>0 DEF FileTypes, file, Return, Calls
<1>2. \A f \in Files : Found(f)'
  BY <1>0, Kept DEF SdFileInv, file
<1> QED BY <1>0, <1>1, <1>2, SameDevice DEF SdFileInv, ReadSoFar

\* The file of a read, its position and its place.
LEMMA ReadState ==
  ASSUME SdFileInv, Reading
  PROVE  /\ call \in ReadCalls /\ call.file \in Files /\ call # NoCall /\ ~Seeking
         /\ call.toRead \in Nat /\ call.from \in Nat /\ call.got \in Seq(Bytes)
         /\ m_curPosition[call.file] \in Nat
<1>1. FileTypes
  BY DEF SdFileInv
<1>2. call \in ReadCalls /\ call # NoCall /\ ~Seeking
  BY <1>1, Kinds DEF FileTypes, Reading
<1>3. 0 .. BytesPerSector \subseteq Nat
  BY Sizes
<1> QED BY <1>1, <1>2, <1>3 DEF ReadCalls, FileTypes

LEMMA NoClusterKeeps ==
  ASSUME SdFileInv, NoCluster
  PROVE  SdFileInv'
<1>0. /\ FileTypes /\ Device \in Devices
      /\ Return /\ UNCHANGED <<file, astray>> /\ Reading
      /\ ~Reading' /\ ~Seeking' /\ ~Seeking
  BY Idle, Kinds DEF SdFileInv, NoCluster, FileTypes
<1>1. PICK l \in Located(call.file) : l.res <= 0 /\ Becomes(l.device)
  BY DEF NoCluster
<1>2. Device' \in Devices
  BY <1>0, <1>1, ReadState, LocatedRight, Turned
<1>3. FileTypes'
  BY <1>0 DEF FileTypes, file, Return, Calls
<1>4. \A f \in Files : Found(f)'
  BY <1>0, Kept DEF SdFileInv, file
<1> QED BY <1>0, <1>2, <1>3, <1>4 DEF SdFileInv, ReadSoFar

\* A read that fails on a sector may leave the file in the next cluster, and
\* then marks it astray.
LEMMA NoSectorReadKeeps ==
  ASSUME SdFileInv, NoSectorRead
  PROVE  SdFileInv'
<1>a. PICK f \in Files, p \in Nat : f = call.file /\ p = m_curPosition[call.file]
  BY ReadState DEF NoSectorRead
<1>0. /\ FileTypes /\ Device \in Devices
      /\ Return /\ UNCHANGED m_curPosition /\ Reading
      /\ ~Reading' /\ ~Seeking' /\ ~Seeking
      /\ f \in Files /\ p \in Nat /\ p = m_curPosition[f]
  BY <1>a, Idle, Kinds DEF SdFileInv, NoSectorRead, FileTypes
<1>1. PICK l \in Located(f) :
        /\ l.res = 1
        /\ \E r \in prepare(l.device, SectorOf(l.value, p)) : ~r.ok /\ Becomes(r.device)
        /\ m_curCluster' = [m_curCluster EXCEPT ![f] = l.value]
        /\ astray' = IF p > 0 /\ StartOfCluster(p) THEN astray \cup {f} ELSE astray
  BY <1>a DEF NoSectorRead
<1>2. PICK r \in prepare(l.device, SectorOf(l.value, p)) : ~r.ok /\ Becomes(r.device)
  BY <1>1
<1>3. /\ l.device \in Devices
      /\ On(f, l.value, p \div BytesPerCluster + 1)
      /\ ~StartOfCluster(p) => l.value = m_curCluster[f]
  BY <1>a, <1>0, <1>1, LocatedRight
<1>4. l.value \in Clusters
  BY <1>0, <1>3, OnCluster
<1>5. Device' \in Devices
  <2>1. SectorOf(l.value, p) \in Nat /\ SectorOf(l.value, p) \in Sectors
    BY <1>0, <1>4, SectorTypes DEF Sectors
  <2> QED BY <1>2, <1>3, <2>1, Prepared, Turned
<1>6. FileTypes'
  BY <1>0, <1>1, <1>4 DEF FileTypes, Return, Calls
<1>7. ASSUME NEW g \in Files PROVE Found(g)'
  <2>1. CASE g = f
    <3>1. p = 0 \/ On(f, l.value, Index(p) + 1)'
      <4>1. CASE StartOfCluster(p) /\ p > 0
        <5>1. f \in astray' /\ Index(p) + 1 = p \div BytesPerCluster /\ p \div BytesPerCluster \in Nat
          BY <1>0, <1>1, <4>1, AtStart, Decomposed
        <5>2. PICK j \in 1 .. Len(Chain[f]) : l.value = Chain[f][j] /\ j >= p \div BytesPerCluster + 1
          BY <1>3 DEF On
        <5>3. j >= Index(p) + 1
          BY <1>0, <5>1, <5>2, Chains
        <5>4. m_curPosition' = m_curPosition
          BY <1>0
        <5> QED BY <5>1, <5>2, <5>3, <5>4 DEF On
      <4>2. CASE ~StartOfCluster(p)
        <5>1. Index(p) = p \div BytesPerCluster /\ astray' = astray
          BY <1>0, <1>1, <4>2, Within
        <5> QED BY <1>3, <5>1 DEF On
      <4> QED BY <1>0, <4>1, <4>2
    <3>2. m_curCluster'[f] = l.value
      BY <1>0, <1>1 DEF FileTypes
    <3> QED BY <1>0, <2>1, <3>1, <3>2 DEF Found, Place
  <2>2. CASE g # f
    <3>1. m_curCluster'[g] = m_curCluster[g] /\ (g \in astray' <=> g \in astray)
      BY <1>0, <1>1, <2>2 DEF FileTypes
    <3> QED BY <1>0, <2>2, <3>1, Kept DEF SdFileInv
  <2> QED BY <2>1, <2>2
<1> QED BY <1>0, <1>5, <1>6, <1>7 DEF SdFileInv, ReadSoFar

-----------------------------------------------------------------------------
(* A sector is read.                                                       *)

LEMMA Joined ==
  ASSUME NEW S, NEW s \in Seq(S), NEW t \in Seq(S), NEW all \in Seq(S),
         Len(all) = Len(s) + Len(t),
         \A k \in 1 .. Len(s) : all[k] = s[k],
         \A k \in 1 .. Len(t) : all[Len(s) + k] = t[k]
  PROVE  s \o t = all
<1>1. Len(s) \in Nat /\ Len(t) \in Nat
  OBVIOUS
<1>2. /\ s \o t \in Seq(S) /\ Len(s \o t) = Len(s) + Len(t)
      /\ \A k \in 1 .. Len(s) + Len(t) :
           (s \o t)[k] = IF k <= Len(s) THEN s[k] ELSE t[k - Len(s)]
  BY ConcatProperties
<1>3. ASSUME NEW k \in 1 .. Len(s) + Len(t) PROVE (s \o t)[k] = all[k]
  <2>1. CASE k <= Len(s)
    BY <1>1, <1>2, <2>1
  <2>2. CASE k > Len(s)
    <3>1. k - Len(s) \in 1 .. Len(t) /\ Len(s) + (k - Len(s)) = k
      BY <1>1, <2>2
    <3>2. all[k] = t[k - Len(s)]
      BY <3>1
    <3> QED BY <1>1, <1>2, <2>2, <3>2
  <2> QED BY <1>1, <2>1, <2>2
<1> QED BY <1>2, <1>3, SeqEqual

\* What a sector adds to what has been read.
Part(c, p, n) == [k \in 1 .. n |-> <<SectorOf(c, p), Offset(p) + k - 1>>]

LEMMA PartType ==
  ASSUME NEW c \in Clusters, NEW p \in Nat, NEW n \in Nat, n <= BytesPerSector - Offset(p)
  PROVE  Part(c, p, n) \in Seq(Bytes) /\ Len(Part(c, p, n)) = n
<1>1. SectorOf(c, p) \in DataSectors
  BY SectorTypes
<1>2. Offset(p) \in Nat /\ BytesPerSector \in Nat
  BY Decomposed, Sizes
<1>3. \A k \in 1 .. n : Offset(p) + k - 1 \in 0 .. BytesPerSector - 1
  BY <1>2
<1>4. \A k \in 1 .. n : <<SectorOf(c, p), Offset(p) + k - 1>> \in Bytes
  BY <1>1, <1>3 DEF Bytes
<1> QED BY <1>4 DEF Part

\* f was read from the position from up to p, and p is in its cluster c.
Continues(f, from, got, p, n, c) ==
  /\ f \in Files /\ from \in Nat /\ got \in Seq(Bytes) /\ p \in Nat /\ n \in Nat
  /\ from + Len(got) = p /\ got = Content(f, from, Len(got))
  /\ n <= BytesPerSector - Offset(p)
  /\ c \in Clusters /\ c = Chain[f][p \div BytesPerCluster + 1]

\* What comes next in the sector is what the file holds next.
LEMMA Appended ==
  ASSUME NEW f, NEW from, NEW got, NEW p, NEW n, NEW c, Continues(f, from, got, p, n, c)
  PROVE  got \o Part(c, p, n) = Content(f, from, Len(got) + n)
<1> SUFFICES ASSUME f \in Files, from \in Nat, got \in Seq(Bytes), p \in Nat, n \in Nat,
                    from + Len(got) = p, got = Content(f, from, Len(got)),
                    n <= BytesPerSector - Offset(p),
                    c \in Clusters, c = Chain[f][p \div BytesPerCluster + 1]
             PROVE  got \o Part(c, p, n) = Content(f, from, Len(got) + n)
  BY Zenon DEF Continues
<1> DEFINE all == Content(f, from, Len(got) + n)
           At(q) == <<SectorOf(Chain[f][q \div BytesPerCluster + 1], q), Offset(q)>>
<1>0. /\ Len(got) \in Nat /\ Offset(p) \in Nat /\ BytesPerSector \in Nat
      /\ Part(c, p, n) \in Seq(Bytes) /\ Len(Part(c, p, n)) = n
  <2>1. Offset(p) \in Nat /\ BytesPerSector \in Nat
    BY Decomposed, Sizes
  <2>2. Part(c, p, n) \in Seq(Bytes) /\ Len(Part(c, p, n)) = n
    BY PartType
  <2> QED BY <2>1, <2>2
<1>1. \A k \in 1 .. Len(got) : got[k] = At(from + k - 1)
  BY DEF Content
<1>2. \A k \in 1 .. Len(got) + n : all[k] = At(from + k - 1)
  BY DEF Content
<1>3. ASSUME NEW k \in 1 .. n PROVE At(from + (Len(got) + k) - 1) = Part(c, p, n)[k]
  <2> DEFINE q == p + (k - 1)
  <2>0. from + (Len(got) + k) - 1 = q
    BY <1>0
  <2>1. k - 1 \in Nat /\ k - 1 < BytesPerSector - Offset(p)
    BY ONLY <1>0, k \in 1 .. n, n \in Nat, n <= BytesPerSector - Offset(p)
  <2>2. /\ q \div BytesPerCluster = p \div BytesPerCluster
        /\ SectorOfCluster(q) = SectorOfCluster(p)
        /\ Offset(q) = Offset(p) + (k - 1)
    BY ONLY <2>1, p \in Nat, SameSector
  <2> HIDE DEF q
  <2>3. At(q) = <<SectorOf(c, p), Offset(p) + (k - 1)>>
    BY <2>2 DEF SectorOf
  <2>4. Offset(p) + k - 1 = Offset(p) + (k - 1)
    BY <1>0
  <2>5. Part(c, p, n)[k] = <<SectorOf(c, p), Offset(p) + (k - 1)>>
    BY <2>4 DEF Part
  <2> HIDE DEF At
  <2> QED BY ONLY <2>0, <2>3, <2>5
<1> HIDE DEF At
<1>4. /\ \A k \in 1 .. Len(got) : all[k] = got[k]
      /\ \A k \in 1 .. n : all[Len(got) + k] = Part(c, p, n)[k]
  <2>1. ASSUME NEW k \in 1 .. Len(got) PROVE all[k] = got[k]
    <3>1. k \in 1 .. Len(got) + n
      BY <1>0
    <3> HIDE DEF all
    <3> QED BY <1>1, <1>2, <3>1
  <2>2. ASSUME NEW k \in 1 .. n PROVE all[Len(got) + k] = Part(c, p, n)[k]
    <3>1. Len(got) + k \in 1 .. Len(got) + n
      BY <1>0
    <3> HIDE DEF all
    <3>2. all[Len(got) + k] = At(from + (Len(got) + k) - 1)
      BY ONLY <1>2, <3>1
    <3> QED BY <1>3, <3>2
  <2> QED BY <2>1, <2>2
<1>5. \A k \in 1 .. Len(got) + n : all[k] \in Bytes
  <2>1. ASSUME NEW k \in 1 .. Len(got) + n PROVE all[k] \in Bytes
    <3> HIDE DEF all
    <3>1. CASE k <= Len(got)
      <4>1. k \in 1 .. Len(got)
        BY <1>0, <3>1
      <4> QED BY <1>4, <4>1
    <3>2. CASE k > Len(got)
      <4>1. k - Len(got) \in 1 .. n /\ Len(got) + (k - Len(got)) = k
        BY <1>0, <3>2
      <4>2. all[k] = Part(c, p, n)[k - Len(got)]
        BY <1>4, <4>1
      <4> QED BY <1>0, <4>1, <4>2
    <3> QED BY <1>0, <3>1, <3>2
  <2> QED BY <2>1
<1>6. all \in Seq(Bytes) /\ Len(all) = Len(got) + n
  <2>1. Len(got) + n \in Nat /\ DOMAIN all = 1 .. Len(got) + n
    BY <1>0 DEF Content
  <2>2. all = [k \in 1 .. Len(got) + n |-> all[k]]
    BY DEF Content
  <2> HIDE DEF all
  <2>3. all \in [1 .. Len(got) + n -> Bytes]
    BY <1>5, <2>1, <2>2
  <2> QED BY ONLY <2>1, <2>3
<1> HIDE DEF all
<1>7. got \o Part(c, p, n) = all
  BY ONLY <1>0, <1>4, <1>6, got \in Seq(Bytes), Joined
<1> QED BY <1>7 DEF all

\* A position in a cluster of the chain is not the end of the chain.
LEMMA Room ==
  ASSUME NEW f \in Files, NEW p \in Nat, p \div BytesPerCluster + 1 <= Len(Chain[f])
  PROVE  p + 1 <= Limit(f)
<1>1. PICK C \in Nat : C = BytesPerCluster /\ C > 0
  BY Sizes
<1>2. PICK k \in Nat, r \in 0 .. C - 1 : k = p \div C /\ p = k * C + r
  BY <1>1, Quotient
<1>3. PICK L \in Nat : L = Len(Chain[f])
  BY Chains
<1>4. k + 1 <= L
  BY <1>1, <1>2, <1>3
<1>5. (k + 1) * C <= L * C /\ (k + 1) * C = k * C + C
  BY <1>1, <1>4
<1>6. k * C \in Nat /\ L * C \in Nat
  BY <1>1
<1>7. p + 1 <= L * C
  BY <1>1, <1>2, <1>5, <1>6
<1> QED BY <1>1, <1>3, <1>7 DEF Limit

LEMMA SectorReadKeeps ==
  ASSUME SdFileInv, SectorRead
  PROVE  SdFileInv'
<1>a. PICK f \in Files, p \in Nat : f = call.file /\ p = m_curPosition[call.file]
  BY ReadState DEF SectorRead
<1>b. PICK toRead \in Nat, from \in Nat, got \in Seq(Bytes) :
        toRead = call.toRead /\ from = call.from /\ got = call.got
  BY ReadState DEF SectorRead
<1> DEFINE f0 == call.file
           p0 == m_curPosition[f0]
           room0 == BytesPerSector - Offset(p0)
           n0 == IF room0 > call.toRead THEN call.toRead ELSE room0
<1>c. PICK n \in Nat : n = n0 /\ n > 0 /\ n <= toRead /\ n <= BytesPerSector - Offset(p)
  <2>1. room0 = BytesPerSector - Offset(p)
    BY <1>a
  <2>2. Offset(p) \in 0 .. BytesPerSector - 1 /\ BytesPerSector \in Nat
    BY Decomposed, Sizes
  <2>3. toRead > 0 /\ toRead = call.toRead
    BY <1>b DEF SectorRead
  <2> HIDE DEF room0
  <2> QED BY <2>1, <2>2, <2>3
<1>0. /\ FileTypes /\ Device \in Devices /\ Reading /\ ~Seeking
      /\ call \in ReadCalls /\ toRead \in 0 .. BytesPerSector
      /\ UNCHANGED astray
  BY <1>b, ReadState DEF SdFileInv, SectorRead, ReadCalls
<1>1. PICK l \in Located(f) :
        /\ l.res = 1
        /\ \E r \in prepare(l.device, SectorOf(l.value, p)) :
             /\ r.ok /\ Becomes(r.device)
             /\ call' = [call EXCEPT !.toRead = @ - n,
                           !.got = @ \o [k \in 1 .. n |-> <<r.device.buffer, Offset(p) + k - 1>>]]
        /\ m_curCluster' = [m_curCluster EXCEPT ![f] = l.value]
        /\ m_curPosition' = [m_curPosition EXCEPT ![f] = @ + n]
  <2>1. \E l \in Located(f0) :
          /\ l.res = 1
          /\ \E r \in prepare(l.device, SectorOf(l.value, p0)) :
               /\ r.ok /\ Becomes(r.device)
               /\ call' = [call EXCEPT !.toRead = @ - n0,
                             !.got = @ \o [k \in 1 .. n0 |-> <<r.device.buffer, Offset(p0) + k - 1>>]]
          /\ m_curCluster' = [m_curCluster EXCEPT ![f0] = l.value]
          /\ m_curPosition' = [m_curPosition EXCEPT ![f0] = @ + n0]
    BY DEF SectorRead
  <2>2. f0 = f /\ p0 = p /\ n0 = n
    BY <1>a, <1>c
  <2> HIDE DEF f0, p0, n0
  <2>3. PICK l \in Located(f0) :
          /\ l.res = 1
          /\ \E r \in prepare(l.device, SectorOf(l.value, p0)) :
               /\ r.ok /\ Becomes(r.device)
               /\ call' = [call EXCEPT !.toRead = @ - n0,
                             !.got = @ \o [k \in 1 .. n0 |-> <<r.device.buffer, Offset(p0) + k - 1>>]]
          /\ m_curCluster' = [m_curCluster EXCEPT ![f0] = l.value]
          /\ m_curPosition' = [m_curPosition EXCEPT ![f0] = @ + n0]
    BY <2>1
  <2>4. PICK r \in prepare(l.device, SectorOf(l.value, p0)) :
          /\ r.ok /\ Becomes(r.device)
          /\ call' = [call EXCEPT !.toRead = @ - n0,
                        !.got = @ \o [k \in 1 .. n0 |-> <<r.device.buffer, Offset(p0) + k - 1>>]]
    BY <2>3
  <2>5. [k \in 1 .. n0 |-> <<r.device.buffer, Offset(p0) + k - 1>>]
          = [k \in 1 .. n |-> <<r.device.buffer, Offset(p) + k - 1>>]
    BY ONLY <2>2, Zenon
  <2>6. call' = [call EXCEPT !.toRead = @ - n,
                   !.got = @ \o [k \in 1 .. n |-> <<r.device.buffer, Offset(p) + k - 1>>]]
    BY ONLY <2>2, <2>4, <2>5
  <2> QED BY ONLY <2>2, <2>3, <2>4, <2>6
<1>2. PICK r \in prepare(l.device, SectorOf(l.value, p)) :
        /\ r.ok /\ Becomes(r.device)
        /\ call' = [call EXCEPT !.toRead = @ - n,
                      !.got = @ \o [k \in 1 .. n |-> <<r.device.buffer, Offset(p) + k - 1>>]]
  BY <1>1
<1> HIDE DEF f0, p0, room0, n0
<1>3. /\ l.device \in Devices
      /\ On(f, l.value, p \div BytesPerCluster + 1)
  BY <1>a, <1>0, <1>1, LocatedRight
<1>4. l.value \in Clusters
  BY <1>3, OnCluster
<1>5. Device' \in Devices /\ r.device.buffer = SectorOf(l.value, p)
  <2>1. SectorOf(l.value, p) \in Nat /\ SectorOf(l.value, p) \in Sectors
    BY <1>4, SectorTypes DEF Sectors
  <2> QED BY <1>2, <1>3, <2>1, Prepared, Turned
<1>6. call' = [call EXCEPT !.toRead = toRead - n, !.got = got \o Part(l.value, p, n)]
  BY <1>b, <1>2, <1>5 DEF Part
<1>7. /\ Part(l.value, p, n) \in Seq(Bytes) /\ Len(Part(l.value, p, n)) = n
      /\ got \o Part(l.value, p, n) \in Seq(Bytes)
      /\ Len(got \o Part(l.value, p, n)) = Len(got) + n
  <2>1. Part(l.value, p, n) \in Seq(Bytes) /\ Len(Part(l.value, p, n)) = n
    BY <1>c, <1>4, PartType
  <2> QED BY <2>1, ConcatProperties
<1>8. toRead - n \in 0 .. BytesPerSector /\ p + n \in Nat
  BY <1>0, <1>c, Sizes
<1>9. /\ call' \in ReadCalls /\ call'.toRead = toRead - n /\ call'.got = got \o Part(l.value, p, n)
      /\ call'.file = f /\ call'.from = from
  BY <1>a, <1>b, <1>0, <1>6, <1>7, <1>8 DEF ReadCalls
<1>10. Reading' /\ ~Seeking'
  BY <1>9 DEF Reading, Seeking, NoCall, ReadCalls
<1>11. m_curPosition'[f] = p + n /\ m_curCluster'[f] = l.value
  BY <1>a, <1>0, <1>1 DEF FileTypes
<1>12. p + n \in 0 .. (IF f \in Dirs THEN Limit(f) ELSE FileSize[f])
  <2>0. IF f \in Dirs THEN toRead <= 1 ELSE p + toRead <= FileSize[f]
    BY <1>a, <1>b, <1>0 DEF SdFileInv, ReadSoFar
  <2>1. CASE f \notin Dirs
    BY <1>c, <2>0, <2>1, Chains
  <2>2. CASE f \in Dirs
    <3>1. n = 1
      BY <1>c, <2>0, <2>2
    <3>2. p \div BytesPerCluster + 1 <= Len(Chain[f])
      <4>1. PICK j \in 1 .. Len(Chain[f]) : j >= p \div BytesPerCluster + 1
        BY <1>3 DEF On
      <4>2. Len(Chain[f]) \in Nat /\ p \div BytesPerCluster \in Nat
        BY Chains, Decomposed
      <4> QED BY <4>1, <4>2
    <3> QED BY <2>2, <3>1, <3>2, Room, Chains
  <2> QED BY <2>1, <2>2
<1>13. FileTypes'
  <2>1. call' \in Calls
    BY <1>9 DEF ReadCalls, Calls
  <2>2. \A g \in Files : m_curPosition'[g] = IF g = f THEN p + n ELSE m_curPosition[g]
    BY <1>a, <1>0, <1>1 DEF FileTypes
  <2>3. m_curPosition' \in [Files -> Nat] /\ m_curCluster' \in [Files -> Clusters \cup {0}]
    BY <1>a, <1>0, <1>1, <1>4, <1>8 DEF FileTypes
  <2> QED BY <1>0, <1>12, <2>1, <2>2, <2>3 DEF FileTypes
<1>14. Index(p + n) = p \div BytesPerCluster
  BY <1>c, StillThere
<1>15. ASSUME NEW g \in Files PROVE Found(g)'
  <2>1. CASE g = f
    <3>1. On(f, l.value, Index(p + n) + 1)'
      BY <1>0, <1>3, <1>14 DEF On
    <3> QED BY <1>10, <1>11, <2>1, <3>1 DEF Found, Place
  <2>2. CASE g # f
    <3>1. m_curCluster'[g] = m_curCluster[g] /\ m_curPosition'[g] = m_curPosition[g]
      BY <1>0, <1>1, <2>2 DEF FileTypes
    <3> QED BY <1>0, <1>10, <2>2, <3>1, Kept DEF SdFileInv
  <2> QED BY <2>1, <2>2
<1>16. ReadSoFar'
  <2>0. /\ from + Len(got) = p
        /\ IF f \in Dirs THEN toRead <= 1 ELSE p + toRead <= FileSize[f]
        /\ f \notin astray => got = Content(f, from, Len(got))
    BY <1>a, <1>b, <1>0 DEF SdFileInv, ReadSoFar
  <2>1. Len(got) \in Nat
    OBVIOUS
  <2>2. from + (Len(got) + n) = p + n
    BY <2>0, <2>1
  <2>3. IF f \in Dirs THEN toRead - n <= 1 ELSE (p + n) + (toRead - n) <= FileSize[f]
    BY <1>c, <2>0, Chains
  <2>4. ASSUME f \notin astray PROVE got \o Part(l.value, p, n) = Content(f, from, Len(got) + n)
    <3>1. l.value = Chain[f][p \div BytesPerCluster + 1]
      BY <1>3, <2>4 DEF On
    <3>2. n <= BytesPerSector - Offset(p)
      BY <1>c
    <3>3. from + Len(got) = p /\ got = Content(f, from, Len(got))
      BY <2>0, <2>4
    <3>4. Continues(f, from, got, p, n, l.value)
      BY ONLY <1>a, <1>b, <1>c, <1>4, <3>1, <3>2, <3>3, Zenon DEF Continues
    <3> QED BY <3>4, Appended
  <2>5. Content(call.file, call.from, Len(call.got))' = Content(call'.file, call'.from, Len(call'.got))
    BY DEF Content
  <2> QED BY <1>0, <1>7, <1>9, <1>11, <2>2, <2>3, <2>4, <2>5 DEF ReadSoFar
<1> QED BY <1>5, <1>13, <1>15, <1>16 DEF SdFileInv

-----------------------------------------------------------------------------
(* A seek walks.                                                           *)

\* The file of a seek, where it is on its way and where it can go back to.
LEMMA SeekState ==
  ASSUME SdFileInv, Seeking
  PROVE  /\ call \in SeekCalls /\ call.file \in Files \ Dirs /\ call # NoCall /\ ~Reading
         /\ call.left \in Nat /\ call.pos \in 1 .. FileSize[call.file]
         /\ call.tmp \in Clusters \cup {0} /\ call.fromStart \in BOOLEAN
         /\ m_curPosition[call.file] \in Nat
         /\ Place(call.file, call.tmp, m_curPosition[call.file])
         /\ OnItsWay(call.file)
<1>1. FileTypes /\ \A f \in Files : Found(f)
  BY DEF SdFileInv
<1>2. call \in SeekCalls /\ call # NoCall /\ ~Reading
  BY <1>1, Kinds DEF FileTypes, Seeking
<1>3. call.file \in Files \ Dirs /\ call.left \in Nat
      /\ call.tmp \in Clusters \cup {0} /\ call.fromStart \in BOOLEAN
  BY <1>2 DEF SeekCalls
<1>4. Place(call.file, call.tmp, m_curPosition[call.file]) /\ OnItsWay(call.file)
  BY <1>1, <1>3 DEF Found
<1> QED BY <1>1, <1>2, <1>3, <1>4 DEF FileTypes, OnItsWay

\* What a step of the walk finds: the next cluster, or the FAT cannot be read.
LEMMA WalkOn ==
  ASSUME SdFileInv, Seeking, call.left > 0, NEW f \in Files, f = call.file,
         NEW j \in 1 .. Len(Chain[f]), m_curCluster[f] = Chain[f][j],
         NEW g \in fatGet(Device, m_curCluster[f])
  PROVE  /\ g.res \in {-1, 0, 1}
         /\ g.device \in Devices /\ g.device.faults >= count
         /\ g.res = 1 => j + 1 \in 1 .. Len(Chain[f]) /\ g.value = Chain[f][j + 1]
         /\ g.res = 0 => j = Len(Chain[f])
         /\ g.res = -1 /\ g.device.faults = count => Stuck(Device, FatSector(m_curCluster[f]))
<1>1. Device \in Devices /\ Device.faults = count
  BY DEF SdFileInv, Device
<1>2. /\ g.res \in {-1, 0, 1}
      /\ g.device \in Devices
      /\ g.device.faults >= Device.faults
      /\ g.res = 1 => /\ j < Len(Chain[f]) /\ g.value = Chain[f][j + 1]
                      /\ g.device = Device \/ g.device.active
      /\ g.res = 0 => j = Len(Chain[f])
      /\ g.res = -1 /\ g.device.faults = Device.faults => Stuck(Device, FatSector(Chain[f][j]))
  BY <1>1, Walked
<1>3. j < Len(Chain[f]) => j + 1 \in 1 .. Len(Chain[f])
  BY Chains
<1> QED BY <1>1, <1>2, <1>3

LEMMA SeekOnKeeps ==
  ASSUME SdFileInv, SeekOn
  PROVE  SdFileInv'
<1>a. PICK f \in Files : f = call.file
  BY SeekState DEF SeekOn
<1>0. /\ FileTypes /\ Device \in Devices /\ Seeking /\ call.left > 0
      /\ call \in SeekCalls /\ call.left \in Nat
      /\ Place(f, call.tmp, m_curPosition[f]) /\ OnItsWay(f)
      /\ call' = [call EXCEPT !.left = @ - 1]
      /\ UNCHANGED <<m_curPosition, astray>>
  BY <1>a, SeekState DEF SdFileInv, SeekOn
<1>1. PICK g \in fatGet(Device, m_curCluster[f]) :
        /\ g.res = 1 /\ Becomes(g.device)
        /\ m_curCluster' = [m_curCluster EXCEPT ![f] = g.value]
  BY <1>a DEF SeekOn
<1>2. PICK j \in 1 .. Len(Chain[f]) :
        /\ m_curCluster[f] = Chain[f][j]
        /\ j + call.left >= Index(call.pos) + 1
        /\ call.fromStart \/ f \notin astray => j + call.left = Index(call.pos) + 1
  BY <1>0 DEF OnItsWay
<1>3. /\ g.device \in Devices
      /\ j + 1 \in 1 .. Len(Chain[f]) /\ g.value = Chain[f][j + 1] /\ g.value \in Clusters
  BY <1>a, <1>0, <1>1, <1>2, WalkOn, Chains
<1>4. Device' \in Devices
  BY <1>1, <1>3, Turned
<1>5. /\ call' \in SeekCalls /\ call'.left = call.left - 1
      /\ call'.file = f /\ call'.pos = call.pos /\ call'.tmp = call.tmp
      /\ call'.fromStart = call.fromStart
  BY <1>a, <1>0 DEF SeekCalls
<1>6. Seeking' /\ ~Reading'
  BY <1>5 DEF Reading, Seeking, NoCall, SeekCalls
<1>7. FileTypes'
  <2>1. call' \in Calls
    BY <1>5 DEF SeekCalls, Calls
  <2> QED BY <1>0, <1>1, <1>3, <2>1 DEF FileTypes
<1>8. m_curCluster'[f] = g.value
  BY <1>0, <1>1 DEF FileTypes
<1>9. (j + 1) + (call.left - 1) = j + call.left
  BY <1>0
<1>10. OnItsWay(f)'
  <2>1. call'.pos \in 1 .. FileSize[f]
    BY <1>a, <1>0, <1>5 DEF OnItsWay
  <2>2. /\ m_curCluster'[f] = Chain[f][j + 1]
        /\ (j + 1) + call'.left >= Index(call'.pos) + 1
        /\ call'.fromStart \/ f \notin astray' => (j + 1) + call'.left = Index(call'.pos) + 1
    BY <1>0, <1>2, <1>3, <1>5, <1>8, <1>9
  <2> QED BY <1>3, <2>1, <2>2 DEF OnItsWay
<1>11. Place(f, call.tmp, m_curPosition[f])'
  <2>1. m_curPosition' = m_curPosition /\ astray' = astray /\ call'.tmp = call.tmp
    BY <1>0, <1>5
  <2> QED BY <1>0, <2>1 DEF Place, On, Index
<1>12. ASSUME NEW h \in Files PROVE Found(h)'
  <2>1. CASE h = f
    BY <1>5, <1>6, <1>10, <1>11, <2>1 DEF Found
  <2>2. CASE h # f
    <3>1. m_curCluster'[h] = m_curCluster[h]
      BY <1>0, <1>1, <2>2 DEF FileTypes
    <3> QED BY <1>a, <1>0, <1>5, <2>2, <3>1, Kept DEF SdFileInv
  <2> QED BY <2>1, <2>2
<1> QED BY <1>4, <1>6, <1>7, <1>12 DEF SdFileInv, ReadSoFar

LEMMA SeekFailsKeeps ==
  ASSUME SdFileInv, SeekFails
  PROVE  SdFileInv'
<1>a. PICK f \in Files : f = call.file
  BY SeekState DEF SeekFails
<1>0. /\ FileTypes /\ Device \in Devices /\ Seeking /\ call.left > 0 /\ call # NoCall
      /\ call.tmp \in Clusters \cup {0}
      /\ Place(f, call.tmp, m_curPosition[f]) /\ OnItsWay(f)
      /\ m_curCluster' = [m_curCluster EXCEPT ![f] = call.tmp]
      /\ Return /\ UNCHANGED <<m_curPosition, astray>>
      /\ ~Reading' /\ ~Seeking'
  BY <1>a, SeekState, Idle DEF SdFileInv, SeekFails
<1>1. PICK g \in fatGet(Device, m_curCluster[f]) : Becomes(g.device)
  BY <1>a DEF SeekFails
<1>2. PICK j \in 1 .. Len(Chain[f]) : m_curCluster[f] = Chain[f][j]
  BY <1>0 DEF OnItsWay
<1>3. Device' \in Devices
  BY <1>a, <1>0, <1>1, <1>2, WalkOn, Turned
<1>4. FileTypes'
  BY <1>0 DEF FileTypes, Return, Calls
<1>5. ASSUME NEW h \in Files PROVE Found(h)'
  <2>1. CASE h = f
    <3>1. m_curCluster'[f] = call.tmp /\ m_curPosition' = m_curPosition /\ astray' = astray
      BY <1>0 DEF FileTypes
    <3>2. Place(f, m_curCluster[f], m_curPosition[f])'
      BY <1>0, <3>1 DEF Place, On, Index
    <3> QED BY <1>0, <2>1, <3>2 DEF Found
  <2>2. CASE h # f
    <3>1. m_curCluster'[h] = m_curCluster[h]
      BY <1>0, <2>2 DEF FileTypes
    <3> QED BY <1>a, <1>0, <2>2, <3>1, Others
  <2> QED BY <2>1, <2>2
<1> QED BY <1>0, <1>3, <1>4, <1>5 DEF SdFileInv, ReadSoFar

LEMMA SeekDoneKeeps ==
  ASSUME SdFileInv, SeekDone
  PROVE  SdFileInv'
<1>a. PICK f \in Files, pos \in Nat : f = call.file /\ pos = call.pos /\ pos \in 1 .. FileSize[f]
  BY SeekState, Chains DEF SeekDone
<1>0. /\ FileTypes /\ Device \in Devices /\ Seeking /\ call.left = 0 /\ call # NoCall
      /\ f \notin Dirs /\ OnItsWay(f)
      /\ m_curPosition' = [m_curPosition EXCEPT ![f] = pos]
      /\ astray' = IF call.fromStart THEN astray \ {f} ELSE astray
      /\ Return /\ UNCHANGED <<device, m_curCluster>>
      /\ ~Reading' /\ ~Seeking'
  BY <1>a, SeekState, Idle DEF SdFileInv, SeekDone
<1>1. FileTypes'
  <2>1. \A h \in Files : m_curPosition'[h] = IF h = f THEN pos ELSE m_curPosition[h]
    BY <1>0 DEF FileTypes
  <2> QED BY <1>a, <1>0, <2>1 DEF FileTypes, Return, Calls
<1>2. ASSUME NEW h \in Files PROVE Found(h)'
  <2>1. CASE h = f
    <3>1. PICK j \in 1 .. Len(Chain[f]) :
            /\ m_curCluster[f] = Chain[f][j]
            /\ j + 0 >= Index(pos) + 1
            /\ call.fromStart \/ f \notin astray => j + 0 = Index(pos) + 1
      BY <1>a, <1>0 DEF OnItsWay
    <3>2. j + 0 = j
      BY Chains
    <3>3. f \notin astray' => call.fromStart \/ f \notin astray
      BY <1>0
    <3>4. On(f, m_curCluster[f], Index(pos) + 1)'
      BY <1>0, <3>1, <3>2, <3>3 DEF On
    <3>5. m_curPosition'[f] = pos
      BY <1>0 DEF FileTypes
    <3> QED BY <1>0, <2>1, <3>4, <3>5 DEF Found, Place
  <2>2. CASE h # f
    <3>1. m_curPosition'[h] = m_curPosition[h] /\ m_curCluster'[h] = m_curCluster[h]
          /\ (h \in astray' <=> h \in astray)
      BY <1>0, <2>2 DEF FileTypes
    <3> QED BY <1>a, <1>0, <2>2, <3>1, Others
  <2> QED BY <2>1, <2>2
<1> QED BY <1>0, <1>1, <1>2, SameDevice DEF SdFileInv, ReadSoFar

-----------------------------------------------------------------------------
(* The theorems.                                                           *)

LEMMA NextInv == SdFileInv /\ [Next]_vars => SdFileInv'
<1> SUFFICES ASSUME SdFileInv, [Next]_vars PROVE SdFileInv'
  OBVIOUS
<1>1. CASE \E f \in Files, nbyte \in ReadSizes : Read(f, nbyte)
  BY <1>1, ReadKeeps
<1>2. CASE \E f \in Files : Rewind(f)
  BY <1>2, RewindKeeps
<1>3. CASE \E f \in Files \ Dirs : \E pos \in 1 .. FileSize[f] : seekSet(f, pos)
  BY <1>3, SeekKeeps
<1>4. CASE Iterate
  BY <1>4, NoClusterKeeps, NoSectorReadKeeps, SectorReadKeeps, ReadDoneKeeps DEF Iterate
<1>5. CASE SeekStep
  BY <1>5, SeekOnKeeps, SeekFailsKeeps, SeekDoneKeeps DEF SeekStep
<1>6. CASE UNCHANGED vars
  <2>1. Device' = Device /\ UNCHANGED <<m_curPosition, m_curCluster, call, astray>>
    BY <1>6 DEF vars, device, card, cache, file, Device
  <2>2. \A f \in Files : Found(f)'
    BY <2>1 DEF SdFileInv, Found, Place, On, OnItsWay, Seeking, Index
  <2>3. FileTypes'
    BY <2>1 DEF SdFileInv, FileTypes
  <2>4. ReadSoFar'
    BY <2>1 DEF SdFileInv, ReadSoFar, Reading, Content
  <2> QED BY <2>1, <2>2, <2>3, <2>4 DEF SdFileInv
<1> QED BY <1>1, <1>2, <1>3, <1>4, <1>5, <1>6 DEF Next

LEMMA Invariant == Spec => []SdFileInv
BY InitInv, NextInv, PTL DEF Spec

\* Every sector number, cluster and position that FatFile, FsCache and
\* SdSpiCard keep is one of the volume and of the file, however often the card
\* fails; a directory is never read beyond its chain, a file never beyond its end.
THEOREM SdFileTyped == Spec => []TypeOK
BY Invariant, InvType, PTL

\* Reads, seeks and their failures leave a file in the cluster of its position,
\* unless a failed read has moved it on (FatFile::read, FatFile::seekSet).
THEOREM FilesStayRight == Spec => []ClusterRight
<1>1. SdFileInv => ClusterRight
  <2> SUFFICES ASSUME SdFileInv, NEW f \in Files \ astray,
                      m_curPosition[f] > 0, ~(Seeking /\ call.file = f)
               PROVE  m_curCluster[f] = Chain[f][Index(m_curPosition[f]) + 1]
    BY DEF ClusterRight
  <2>1. Place(f, m_curCluster[f], m_curPosition[f])
    BY DEF SdFileInv, Found
  <2>2. m_curPosition[f] # 0
    BY DEF SdFileInv, FileTypes
  <2> QED BY <2>1, <2>2 DEF Place, On
<1> QED BY Invariant, <1>1, PTL

\* What FatFile::read returns are the bytes of the file from its position on,
\* through the one cache and the reads of other files that fail.
THEOREM ReadsAreRight == Spec => []ReadsTheFile
<1>1. SdFileInv => ReadsTheFile
  BY DEF SdFileInv, ReadSoFar, ReadsTheFile
<1> QED BY Invariant, <1>1, PTL

\* A read or seek that fails although the card does not is one for the sector
\* that failed last, which readSectors takes for the one it is in the middle of
\* and so never asks the card for.
THEOREM RefusesOnlyThatSector == Spec => OnlyThatSector
<1> DEFINE f == call.file
           p == m_curPosition[f]
           Refused == /\ m_state = "READ_STATE" /\ ~m_spiActive
                      /\ \/ m_curSector = FatSector(m_curCluster[call.file])
                         \/ m_curSector = SectorOf(m_curCluster'[call.file], m_curPosition[call.file])
<1>0. ASSUME NEW sector, Stuck(Device, sector)
      PROVE  m_state = "READ_STATE" /\ ~m_spiActive /\ m_curSector = sector
  BY <1>0 DEF Stuck, Device
<1>1. ASSUME SdFileInv, NoCluster, f \notin Dirs \cup astray, count' = count
      PROVE  Refused
  <2>0. Reading /\ call.toRead > 0 /\ f \in Files /\ p \in Nat
    BY <1>1, ReadState DEF NoCluster
  <2>1. PICK l \in Located(f) : l.res <= 0 /\ Becomes(l.device)
    BY <1>1 DEF NoCluster
  <2>2. count' = l.device.faults
    BY <2>1 DEF Becomes
  <2>3. Stuck(Device, FatSector(m_curCluster[f]))
    BY <1>1, <2>0, <2>1, <2>2, LocatedRight
  <2> QED BY <1>0, <2>3
<1>2. ASSUME SdFileInv, NoSectorRead, count' = count
      PROVE  Refused
  <2>0. Reading /\ f \in Files /\ p \in Nat /\ m_curCluster \in [Files -> Clusters \cup {0}]
        /\ count \in Nat /\ Device.faults = count
    BY <1>2, ReadState, DeviceTypes, SdFileAssumption DEF NoSectorRead, SdFileInv, FileTypes, Device
  <2>1. PICK l \in Located(f) :
          /\ l.res = 1
          /\ \E r \in prepare(l.device, SectorOf(l.value, p)) : ~r.ok /\ Becomes(r.device)
          /\ m_curCluster' = [m_curCluster EXCEPT ![f] = l.value]
    BY <1>2 DEF NoSectorRead
  <2>2. PICK r \in prepare(l.device, SectorOf(l.value, p)) : ~r.ok /\ Becomes(r.device)
    BY <2>1
  <2> HIDE DEF p
  <2>3. /\ l.device \in Devices /\ l.device.faults >= count
        /\ On(f, l.value, p \div BytesPerCluster + 1)
        /\ l.device = Device \/ l.device.active
    BY <1>2, <2>0, <2>1, LocatedRight DEF p
  <2>4. l.value \in Clusters
    BY <2>0, <2>3, OnCluster
  <2>5. SectorOf(l.value, p) \in Nat /\ SectorOf(l.value, p) \in Sectors
    BY <2>0, <2>4, SectorTypes DEF Sectors
  <2>6. /\ r.device.faults >= l.device.faults
        /\ r.device.faults = l.device.faults => Stuck(l.device, SectorOf(l.value, p))
    BY <2>2, <2>3, <2>5, Prepared
  <2>7. count' = r.device.faults
    BY <2>2 DEF Becomes
  <2>8. l.device.faults = count /\ r.device.faults = l.device.faults
    <3>1. l.device.faults \in Int /\ r.device.faults \in Int
      <4>1. r.device \in Devices
        BY <2>2, <2>3, <2>5, Prepared
      <4> QED BY <2>3, <4>1, SdFileAssumption DEF Devices, Parts
    <3> QED BY <1>2, <2>0, <2>3, <2>6, <2>7, <3>1
  <2>9. Stuck(Device, SectorOf(l.value, p))
    BY <2>3, <2>6, <2>8 DEF Stuck
  <2>10. m_curCluster'[f] = l.value
    BY <2>0, <2>1
  <2> QED BY <1>0, <2>9, <2>10 DEF p
<1>3. ASSUME SdFileInv, SeekFails, f \notin Dirs \cup astray, count' = count
      PROVE  Refused
  <2>0. Seeking /\ call.left > 0 /\ call.left \in Nat /\ f \in Files
        /\ call.pos \in 1 .. FileSize[f] /\ OnItsWay(f)
    BY <1>3, SeekState DEF SeekFails
  <2>1. PICK g \in fatGet(Device, m_curCluster[f]) : g.res <= 0 /\ Becomes(g.device)
    BY <1>3 DEF SeekFails
  <2>2. PICK j \in 1 .. Len(Chain[f]) :
          m_curCluster[f] = Chain[f][j] /\ j + call.left = Index(call.pos) + 1
    BY <1>3, <2>0 DEF OnItsWay
  <2>3. count' = g.device.faults
    BY <2>1 DEF Becomes
  <2>4. j # Len(Chain[f])
    <3>1. Index(call.pos) + 1 \in 1 .. Len(Chain[f])
      <4>1. call.pos \in 1 .. Limit(f)
        BY <2>0, Chains
      <4> QED BY <2>0, <4>1, InFile
    <3> QED BY <2>0, <2>2, <3>1, Chains
  <2>5. Stuck(Device, FatSector(m_curCluster[f]))
    <3>1. /\ g.res \in {-1, 0, 1}
          /\ g.res = 0 => j = Len(Chain[f])
          /\ g.res = -1 /\ g.device.faults = count => Stuck(Device, FatSector(m_curCluster[f]))
      <4> HIDE DEF f
      <4>1. f = call.file
        BY DEF f
      <4> QED BY <1>3, <2>0, <2>2, <4>1, WalkOn
    <3>2. g.res = -1
      BY ONLY <2>1, <2>4, <3>1
    <3> QED BY <1>3, <2>3, <3>1, <3>2
  <2> QED BY <1>0, <2>5
<1>4. SdFileInv => [FailsUnprovoked => Refused]_vars
  <2> HIDE DEF Refused
  <2> QED BY <1>1, <1>2, <1>3 DEF FailsUnprovoked
<1> QED BY Invariant, <1>4, PTL DEF Spec, OnlyThatSector
=============================================================================
