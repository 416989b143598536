------------------------------ MODULE SdFile -------------------------------
(***************************************************************************)
(* The read path below File32: FatFile::read and seekSet, the walk over    *)
(* the FAT, the one sector cache that FAT, directories and data share, and *)
(* the SD card on a dedicated SPI bus, which is left in the middle of a    *)
(* multiple sector read so that the next sector costs no command.          *)
(*                                                                         *)
(* ArduOS only reads, and never a whole sector at a time, so every byte    *)
(* comes through the cache.  A sector is known by its number and a byte by *)
(* sector and offset; a position in a directory counts entries.            *)
(***************************************************************************)
EXTENDS Integers, Sequences, FiniteSets

CONSTANTS
  Files, Dirs,        \* the open files, and which of them are directories
  Chain,              \* the clusters of each file, in order
  FileSize,           \* the length of each file
  BytesPerSector, SectorsPerCluster,
  ClustersPerFatSector,
  DataStart,          \* the first data sector; the FAT is in front of it
  ReadSizes,          \* the lengths of the reads
  MaxFaults           \* bound on the failures of the card

BytesPerCluster == BytesPerSector * SectorsPerCluster

Clusters == UNION {{Chain[f][k] : k \in 1 .. Len(Chain[f])} : f \in Files}

ASSUME SdFileAssumption ==
  /\ Dirs \subseteq Files
  /\ BytesPerSector \in Nat \ {0} /\ SectorsPerCluster \in Nat \ {0}
  /\ ClustersPerFatSector \in Nat \ {0} /\ DataStart \in Nat
  /\ ReadSizes \subseteq 1 .. BytesPerSector - 1
  /\ MaxFaults \in Nat
  /\ \A f \in Files :
       /\ Chain[f] \in Seq(Nat) /\ FileSize[f] \in 1 .. Len(Chain[f]) * BytesPerCluster
       /\ \A k \in 1 .. Len(Chain[f]) : Chain[f][k] >= 2
  /\ \A f, g \in Files : \A j \in 1 .. Len(Chain[f]), k \in 1 .. Len(Chain[g]) :
       Chain[f][j] = Chain[g][k] => f = g /\ j = k

NoSector == -1
NoCall == [kind |-> "none"]

VARIABLES
  m_state, m_curSector, \* SdSpiCard: READ_STATE and the sector that comes next
  m_spiActive,          \* SdSpiCard: the card is selected
  stream,               \* the card: the sector it will send next
  m_sector, m_buffer,   \* FsCache: the sector it is to hold, the one it holds
  m_curPosition, m_curCluster, \* FatFile
  call,                 \* the call of read or seekSet in progress
  count,                \* history: failures of the card
  astray                \* history: files that a failed read left one cluster ahead

card == <<m_state, m_curSector, m_spiActive, stream>>
cache == <<m_sector, m_buffer>>
device == <<card, cache, count>>
file == <<m_curPosition, m_curCluster>>
vars == <<device, file, call, astray>>

Init ==
  /\ m_state = "IDLE_STATE" /\ m_curSector = 0 /\ m_spiActive = FALSE
  /\ stream = NoSector
  /\ m_sector = NoSector /\ m_buffer = NoSector
  /\ m_curPosition = [f \in Files |-> 0] /\ m_curCluster = [f \in Files |-> 0]
  /\ call = NoCall
  /\ count = 0 /\ astray = {}

-----------------------------------------------------------------------------
(* The card and the cache.  An operator returns what can come out: whether *)
(* it worked, and the device afterwards.                                   *)

Device == [state |-> m_state, cur |-> m_curSector, active |-> m_spiActive,
           stream |-> stream, sector |-> m_sector, buffer |-> m_buffer,
           faults |-> count]

Becomes(d) ==
  /\ m_state' = d.state /\ m_curSector' = d.cur /\ m_spiActive' = d.active
  /\ stream' = d.stream
  /\ m_sector' = d.sector /\ m_buffer' = d.buffer
  /\ count' = d.faults

Result(ok, d) == [ok |-> ok, device |-> d]

\* The card does not answer, or with an error: spiStop.
Fault(d) ==
  IF d.faults = MaxFaults THEN {}
  ELSE {Result(FALSE, [d EXCEPT !.active = FALSE, !.stream = NoSector, !.faults = @ + 1])}

\* Mutant: the card is not selected for the command.
readStartUnselected(d, sector) ==
  LET idle == [d EXCEPT !.state = "IDLE_STATE"]
  IN Fault(idle)
     \cup {Result(TRUE, [d EXCEPT !.state = "READ_STATE", !.stream = sector])}

\* CMD12 for a card in the middle of a read, then CMD18.  Either command may
\* fail; the state is idle by then.
readStart(d, sector) ==
  LET idle == [d EXCEPT !.state = "IDLE_STATE"]
  IN Fault(idle)
     \cup {Result(TRUE, [d EXCEPT !.state = "READ_STATE", !.active = TRUE,
                                  !.stream = sector])}

\* A card that is not selected sends no token, and the wait for it runs out.
readData(d) ==
  IF d.active THEN Fault(d) \cup {Result(TRUE, [d EXCEPT !.stream = @ + 1])}
  ELSE {Result(FALSE, d)}

\* SdSpiCard::readSectors for one sector.  After a failure m_state is still
\* READ_STATE and m_curSector the sector that failed.
readSectors(d, sector) ==
  LET ready == IF d.state = "READ_STATE" /\ sector = d.cur
               THEN {Result(TRUE, d)} ELSE readStart(d, sector)
  IN UNION {IF ~r.ok THEN {r}
            ELSE {Result(s.ok, [s.device EXCEPT !.cur = sector + (IF s.ok THEN 1 ELSE 0)])
                  : s \in readData(r.device)}
            : r \in ready}

\* Mutant: the sector number is set first.
prepareEarly(d, sector) ==
  IF d.sector = sector THEN {Result(TRUE, d)}
  ELSE {Result(r.ok, [r.device EXCEPT !.sector = sector,
                                      !.buffer = IF r.ok THEN r.device.stream - 1 ELSE @])
        : r \in readSectors(d, sector)}

\* FsCache::prepare: the buffer takes what the card sends.
prepare(d, sector) ==
  IF d.sector = sector THEN {Result(TRUE, d)}
  ELSE {IF r.ok THEN Result(TRUE, [r.device EXCEPT !.sector = sector,
                                                   !.buffer = r.device.stream - 1])
        ELSE r
        : r \in readSectors(d, sector)}

-----------------------------------------------------------------------------
(* The file allocation table.                                              *)

FatSector(c) == c \div ClustersPerFatSector
IsLast(c) == \E f \in Files : c = Chain[f][Len(Chain[f])]
Successor(c) == CHOOSE d \in Clusters : \E f \in Files :
  \E k \in 1 .. Len(Chain[f]) - 1 : c = Chain[f][k] /\ d = Chain[f][k + 1]

\* The entry of c as it stands in the buffer: 0 is the end of the chain.
Entry(c, buffer) ==
  IF buffer # FatSector(c) THEN {0} \cup Clusters
  ELSE IF IsLast(c) THEN {0} ELSE {Successor(c)}

\* res is negative for an error, 0 for the end of the chain.
fatGet(d, c) ==
  IF c \notin Clusters THEN {[res |-> -1, device |-> d, value |-> c]}
  ELSE UNION {IF ~r.ok THEN {[res |-> -1, device |-> r.device, value |-> c]}
              ELSE {IF e = 0 THEN [res |-> 0, device |-> r.device, value |-> c]
                    ELSE [res |-> 1, device |-> r.device, value |-> e]
                    : e \in Entry(c, r.device.buffer)}
              : r \in prepare(d, FatSector(c))}

-----------------------------------------------------------------------------
(* FatFile::read.  One action is one iteration of its loop.                *)

\* Mutant: the file does not end the read.
ReadUnclamped(f, nbyte) ==
  /\ call = NoCall
  /\ f \in Dirs => nbyte = 1
  /\ call' = [kind |-> "read", file |-> f, toRead |-> nbyte,
              from |-> m_curPosition[f], got |-> <<>>]
  /\ UNCHANGED <<device, file, astray>>

Read(f, nbyte) ==
  /\ call = NoCall
  /\ f \in Dirs => nbyte = 1
  /\ LET left == FileSize[f] - m_curPosition[f]
         toRead == IF f \notin Dirs /\ nbyte > left THEN left ELSE nbyte
     IN toRead > 0 /\ call' = [kind |-> "read", file |-> f, toRead |-> toRead,
                                from |-> m_curPosition[f], got |-> <<>>]
  /\ UNCHANGED <<device, file, astray>>

Offset(p) == p % BytesPerSector
SectorOfCluster(p) == (p \div BytesPerSector) % SectorsPerCluster
SectorOf(c, p) == DataStart + (c - 2) * SectorsPerCluster + SectorOfCluster(p)
StartOfCluster(p) == Offset(p) = 0 /\ SectorOfCluster(p) = 0

\* The cluster of the current position: at the start of one the file moves on.
Located(f) ==
  IF ~StartOfCluster(m_curPosition[f])
  THEN {[res |-> 1, device |-> Device, value |-> m_curCluster[f]]}
  ELSE IF m_curPosition[f] = 0
  THEN {[res |-> 1, device |-> Device, value |-> Chain[f][1]]}
  ELSE fatGet(Device, m_curCluster[f])

Reading == call # NoCall /\ call.kind = "read"

Return == call' = NoCall

\* The end of the chain ends the read of a directory and is an error for a file.
NoCluster ==
  /\ Reading /\ call.toRead > 0
  /\ \E l \in Located(call.file) : l.res <= 0 /\ Becomes(l.device)
  /\ Return
  /\ UNCHANGED <<file, astray>>

\* The sector cannot be read: the file stays where it was, in the cluster
\* where it would have been.
NoSectorRead ==
  /\ Reading /\ call.toRead > 0
  /\ LET f == call.file
         p == m_curPosition[f]
     IN \E l \in Located(f) :
          /\ l.res = 1
          /\ \E r \in prepare(l.device, SectorOf(l.value, p)) : ~r.ok /\ Becomes(r.device)
          /\ m_curCluster' = [m_curCluster EXCEPT ![f] = l.value]
          /\ astray' = IF p > 0 /\ StartOfCluster(p) THEN astray \cup {f} ELSE astray
  /\ Return
  /\ UNCHANGED m_curPosition

SectorRead ==
  /\ Reading /\ call.toRead > 0
  /\ LET f == call.file
         p == m_curPosition[f]
         room == BytesPerSector - Offset(p)
         n == IF room > call.toRead THEN call.toRead ELSE room
     IN \E l \in Located(f) :
          /\ l.res = 1
          /\ \E r \in prepare(l.device, SectorOf(l.value, p)) :
               /\ r.ok /\ Becomes(r.device)
               /\ call' = [call EXCEPT !.toRead = @ - n,
                             !.got = @ \o [k \in 1 .. n |-> <<r.device.buffer, Offset(p) + k - 1>>]]
          /\ m_curCluster' = [m_curCluster EXCEPT ![f] = l.value]
          /\ m_curPosition' = [m_curPosition EXCEPT ![f] = @ + n]
  /\ UNCHANGED astray

ReadDone ==
  /\ Reading /\ call.toRead = 0
  /\ Return
  /\ UNCHANGED <<device, file, astray>>

-----------------------------------------------------------------------------
(* FatFile::seekSet, for files: ArduOS only rewinds directories.           *)

Rewind(f) ==
  /\ call = NoCall
  /\ m_curPosition[f] # 0
  /\ m_curPosition' = [m_curPosition EXCEPT ![f] = 0]
  /\ m_curCluster' = [m_curCluster EXCEPT ![f] = 0]
  /\ astray' = astray \ {f}
  /\ UNCHANGED <<device, call>>

Index(p) == (p - 1) \div BytesPerCluster

\* A seek backwards follows the chain from its start, one forwards from where
\* the file is.  Seeks to the same position or beyond the end change nothing.
seekSet(f, pos) ==
  /\ call = NoCall
  /\ pos # m_curPosition[f]
  /\ LET p == m_curPosition[f]
         fromStart == p = 0 \/ Index(pos) < Index(p)
     IN /\ call' = [kind |-> "seek", file |-> f, pos |-> pos,
                    left |-> Index(pos) - (IF fromStart THEN 0 ELSE Index(p)),
                    tmp |-> m_curCluster[f], fromStart |-> fromStart]
        /\ m_curCluster' = IF fromStart THEN [m_curCluster EXCEPT ![f] = Chain[f][1]]
                           ELSE m_curCluster
  /\ UNCHANGED <<device, m_curPosition, astray>>

Seeking == call # NoCall /\ call.kind = "seek"

\* Mutant: a walk that fails leaves the file on the way.
SeekFailsHalfway ==
  /\ Seeking /\ call.left > 0
  /\ \E g \in fatGet(Device, m_curCluster[call.file]) : g.res <= 0 /\ Becomes(g.device)
  /\ Return
  /\ UNCHANGED <<m_curPosition, m_curCluster, astray>>

SeekOn ==
  /\ Seeking /\ call.left > 0
  /\ \E g \in fatGet(Device, m_curCluster[call.file]) :
       /\ g.res = 1 /\ Becomes(g.device)
       /\ m_curCluster' = [m_curCluster EXCEPT ![call.file] = g.value]
  /\ call' = [call EXCEPT !.left = @ - 1]
  /\ UNCHANGED <<m_curPosition, astray>>

SeekFails ==
  /\ Seeking /\ call.left > 0
  /\ \E g \in fatGet(Device, m_curCluster[call.file]) : g.res <= 0 /\ Becomes(g.device)
  /\ m_curCluster' = [m_curCluster EXCEPT ![call.file] = call.tmp]
  /\ Return
  /\ UNCHANGED <<m_curPosition, astray>>

SeekDone ==
  /\ Seeking /\ call.left = 0
  /\ m_curPosition' = [m_curPosition EXCEPT ![call.file] = call.pos]
  /\ astray' = IF call.fromStart THEN astray \ {call.file} ELSE astray
  /\ Return
  /\ UNCHANGED <<device, m_curCluster>>

-----------------------------------------------------------------------------
Iterate == NoCluster \/ NoSectorRead \/ SectorRead \/ ReadDone
SeekStep == SeekOn \/ SeekFails \/ SeekDone

Next ==
  \/ \E f \in Files, nbyte \in ReadSizes : Read(f, nbyte)
  \/ \E f \in Files : Rewind(f)
  \/ \E f \in Files \ Dirs : \E pos \in 1 .. FileSize[f] : seekSet(f, pos)
  \/ Iterate
  \/ SeekStep

Spec == Init /\ [][Next]_vars

-----------------------------------------------------------------------------
(* Properties.                                                             *)

FatSectors == {FatSector(c) : c \in Clusters}
DataSectors == {DataStart + (c - 2) * SectorsPerCluster + k :
                  c \in Clusters, k \in 0 .. SectorsPerCluster - 1}
Sectors == FatSectors \cup DataSectors
Bytes == DataSectors \X (0 .. BytesPerSector - 1)

\* The bytes of f from position p on, n of them.
Content(f, p, n) ==
  [k \in 1 .. n |->
     LET q == p + k - 1
     IN <<SectorOf(Chain[f][q \div BytesPerCluster + 1], q), Offset(q)>>]

Limit(f) == Len(Chain[f]) * BytesPerCluster

Calls ==
  {NoCall}
  \cup [kind : {"read"}, file : Files, toRead : 0 .. BytesPerSector, from : Nat, got : Seq(Bytes)]
  \cup [kind : {"seek"}, file : Files \ Dirs, pos : Nat, left : Nat,
        tmp : Clusters \cup {0}, fromStart : BOOLEAN]

\* Types; positions stay within the file and the chain.
TypeOK ==
  /\ m_state \in {"IDLE_STATE", "READ_STATE"}
  /\ m_curSector \in Nat /\ m_spiActive \in BOOLEAN
  /\ stream \in Nat \cup {NoSector}
  /\ m_sector \in Sectors \cup {NoSector} /\ m_buffer \in Sectors \cup {NoSector}
  /\ \A f \in Files :
       m_curPosition[f] \in 0 .. (IF f \in Dirs THEN Limit(f) ELSE FileSize[f])
  /\ m_curCluster \in [Files -> Clusters \cup {0}]
  /\ call \in Calls
  /\ count \in 0 .. MaxFaults /\ astray \subseteq Files

\* A file that no failed read left astray has the cluster of its position,
\* whatever happened to the card and whatever other files read meanwhile.
ClusterRight ==
  \A f \in Files \ astray :
     m_curPosition[f] > 0 /\ ~(Seeking /\ call.file = f)
     => m_curCluster[f] = Chain[f][Index(m_curPosition[f]) + 1]

\* What a read returns is what the file holds at its position: the sector in
\* the cache is the one the card was in the middle of or the one it was told,
\* although FAT, directory and data of all files go through one cache and
\* reads fail at every point.
ReadsTheFile ==
  Reading /\ call.file \notin astray
  => call.got = Content(call.file, call.from, Len(call.got))

\* A read or seek that fails although the card does not: it wants the very
\* sector that failed last.  Any other sector is served.
FailsUnprovoked ==
  /\ NoCluster \/ NoSectorRead \/ SeekFails
  /\ call.file \notin Dirs \cup astray
  /\ count' = count

OnlyThatSector ==
  [][FailsUnprovoked =>
       /\ m_state = "READ_STATE" /\ ~m_spiActive
       /\ \/ m_curSector = FatSector(m_curCluster[call.file])
          \/ m_curSector = SectorOf(m_curCluster'[call.file], m_curPosition[call.file])]_vars
=============================================================================
