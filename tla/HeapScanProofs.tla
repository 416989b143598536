--------------------------- MODULE HeapScanProofs ---------------------------
(* Proofs about the scan loop of HeapScan.tla, for every heap size. *)
EXTENDS HeapScan, TLAPS

\* The loop invariant holds before the first iteration.
LEMMA InitScanInv == Init => ScanInv
<1> SUFFICES ASSUME Init PROVE ScanInv
  OBVIOUS
<1> USE HeapAssumption, SizesAssumption
<1>1. TypeOK
  <2>1. bitmap \in SUBSET Addr /\ size \in Int
    BY DEF Init
  <2>2. i \in 0 .. GLOBAL_HEAP_SIZE /\ consecutive_free \in Nat
    BY DEF Init
  <2>3. start_index \in Addr \cup {-1} /\ found \in BOOLEAN
    BY DEF Init
  <2> QED BY <2>1, <2>2, <2>3 DEF TypeOK
<1>2. RunInv
  BY DEF Init, RunInv
<1>3. NothingBefore
  BY DEF Init, NothingBefore, Fits, Addr
<1> QED BY <1>1, <1>2, <1>3 DEF ScanInv

\* An iteration over a free cell keeps the loop invariant.
LEMMA FreeCellScanInv == ScanInv /\ FreeCell => ScanInv'
<1> SUFFICES ASSUME ScanInv, FreeCell PROVE ScanInv'
  OBVIOUS
<1> USE HeapAssumption, SizesAssumption
<1>0. TypeOK /\ RunInv /\ NothingBefore
  BY DEF ScanInv
<1>1. TypeOK'
  BY <1>0 DEF TypeOK, FreeCell, Scanning, Addr
<1>2. start_index' = i' - consecutive_free' /\ start_index' >= 0
  BY <1>0 DEF TypeOK, RunInv, FreeCell, Scanning, Addr
<1>3. Cells(start_index', consecutive_free') \cap bitmap = {}
  <2>1. CASE consecutive_free = 0
    BY <1>0, <2>1 DEF TypeOK, FreeCell, Scanning, Addr, Cells
  <2>2. CASE consecutive_free > 0
    <3>1. Cells(start_index', consecutive_free')
            = Cells(start_index, consecutive_free) \cup {i}
      BY <1>0, <2>2 DEF TypeOK, RunInv, FreeCell, Scanning, Addr, Cells
    <3> QED BY <1>0, <2>2, <3>1 DEF RunInv, FreeCell
  <2> QED BY <1>0, <2>1, <2>2 DEF TypeOK
<1>4. start_index' > 0 => start_index' - 1 \in bitmap
  <2>1. CASE consecutive_free = 0
    BY <1>0, <2>1 DEF TypeOK, RunInv, FreeCell, Scanning, Addr
  <2>2. CASE consecutive_free > 0
    BY <1>0, <2>2 DEF TypeOK, RunInv, FreeCell, Scanning, Addr
  <2> QED BY <1>0, <2>1, <2>2 DEF TypeOK
<1>5. RunInv'
  <2>1. consecutive_free' > 0 /\ bitmap' = bitmap /\ size' = size
    BY <1>0 DEF TypeOK, FreeCell
  <2>2. /\ ~found' /\ size' > 0 => consecutive_free' < size'
        /\ found' => consecutive_free' = size' /\ size' > 0
    <3>1. consecutive_free \in Nat /\ size \in Int
      BY <1>0 DEF TypeOK
    <3>2. size > 0 => consecutive_free < size
      BY <1>0 DEF RunInv, FreeCell, Scanning
    <3>3. /\ consecutive_free' = consecutive_free + 1
          /\ found' <=> consecutive_free + 1 = size
          /\ size' = size
      BY DEF FreeCell
    <3> QED BY <3>1, <3>2, <3>3
  <2>3. Cells(start_index', consecutive_free') \cap bitmap' = {}
    BY <1>3, <2>1
  <2>4. start_index' > 0 => start_index' - 1 \in bitmap'
    BY <1>4, <2>1
  <2>5. consecutive_free' # 0
    BY <2>1, <1>1 DEF TypeOK
  <2> QED BY <1>2, <2>1, <2>2, <2>3, <2>4, <2>5 DEF RunInv, Cells
<1>6. NothingBefore'
  <2> SUFFICES ASSUME NEW s \in Fits(bitmap, size), s + size <= i'
               PROVE  found' /\ s = start_index'
    BY DEF NothingBefore, FreeCell
  <2>0. s \in Addr /\ size > 0 /\ Cells(s, size) \cap bitmap = {}
    BY DEF Fits
  <2>1. ~(s + size <= i)
    BY <1>0 DEF NothingBefore, FreeCell, Scanning
  <2>2. s + size = i + 1
    BY <1>0, <2>0, <2>1 DEF FreeCell, TypeOK, Addr
  <2>a. s >= 0 /\ s \in Int /\ start_index' \in Int
    BY <1>1, <2>0 DEF TypeOK, Addr
  \* A run that ends at i cannot reach below the cell that bounds ours.
  <2>3. s >= start_index'
    <3>1. SUFFICES ASSUME s < start_index' PROVE FALSE
      BY <1>1, <2>0 DEF TypeOK, Addr
    <3>2. start_index' > 0 /\ start_index' - 1 \in bitmap
      BY <1>4, <2>a, <3>1
    <3>3. start_index' - 1 \in Cells(s, size)
      BY <1>0, <1>1, <1>2, <2>0, <2>2, <3>1, <3>2
         DEF TypeOK, Addr, Cells, FreeCell
    <3> QED BY <2>0, <3>2, <3>3
  <2>4. consecutive_free' <= size
    BY <1>0, <2>0 DEF RunInv, FreeCell, Scanning, TypeOK
  <2>5. s <= start_index'
    BY <1>0, <1>1, <1>2, <2>0, <2>2, <2>4 DEF TypeOK, Addr, FreeCell
  <2>6. s = start_index'
    BY <2>a, <2>3, <2>5
  <2>7. found'
    <3>1. consecutive_free' = consecutive_free + 1 /\ consecutive_free \in Nat
      BY <1>0 DEF TypeOK, FreeCell
    <3>2. i' = i + 1 /\ i \in Int /\ size \in Int
      BY <1>0 DEF TypeOK, FreeCell
    <3>3. consecutive_free + 1 = size
      BY <1>2, <2>2, <2>6, <2>a, <3>1, <3>2
    <3> QED BY <3>3 DEF FreeCell
  <2> QED BY <2>6, <2>7
<1> QED BY <1>1, <1>5, <1>6 DEF ScanInv

\* An iteration over an allocated cell keeps the loop invariant.
LEMMA UsedCellScanInv == ScanInv /\ UsedCell => ScanInv'
<1> SUFFICES ASSUME ScanInv, UsedCell PROVE ScanInv'
  OBVIOUS
<1> USE HeapAssumption, SizesAssumption
<1>0. TypeOK /\ RunInv /\ NothingBefore
  BY DEF ScanInv
<1>1. TypeOK'
  BY <1>0 DEF TypeOK, UsedCell, Scanning, Addr
<1>2. RunInv'
  BY <1>0, <1>1 DEF TypeOK, RunInv, UsedCell, Scanning, Addr
<1>3. NothingBefore'
  <2> SUFFICES ASSUME NEW s \in Fits(bitmap, size), s + size <= i'
               PROVE  FALSE
    BY DEF NothingBefore, UsedCell
  <2>0. s \in Addr /\ size > 0 /\ Cells(s, size) \cap bitmap = {}
    BY DEF Fits
  <2>1. ~(s + size <= i)
    BY <1>0 DEF NothingBefore, UsedCell, Scanning
  <2>2. s + size = i + 1
    BY <1>0, <2>0, <2>1 DEF UsedCell, TypeOK, Addr
  <2>3. i \in Cells(s, size)
    BY <1>0, <2>0, <2>2 DEF TypeOK, Addr, Cells
  <2> QED BY <2>0, <2>3 DEF UsedCell
<1> QED BY <1>1, <1>2, <1>3 DEF ScanInv

\* The loop invariant says what the loop returns.
LEMMA ScanInvFindsFirstFit == ScanInv => ScanFindsFirstFit
<1> SUFFICES ASSUME ScanInv PROVE ScanFindsFirstFit
  OBVIOUS
<1> USE HeapAssumption, SizesAssumption
<1>0. TypeOK /\ RunInv /\ NothingBefore
  BY DEF ScanInv
<1>1. ASSUME found PROVE start_index \in FirstFit(bitmap, size)
  <2>1. consecutive_free = size
    BY <1>0, <1>1 DEF RunInv
  <2>2. CASE size > 0
    <3>1. start_index \in Fits(bitmap, size) /\ start_index + size = i
      BY <1>0, <2>1, <2>2 DEF RunInv, TypeOK, Fits, Addr
    <3>2. \A r \in Fits(bitmap, size) : start_index <= r
      BY <1>0, <3>1, <2>2 DEF NothingBefore, TypeOK, Fits, Addr
    <3> QED BY <3>1, <3>2 DEF FirstFit
  <2> QED BY <2>2, <1>0, <1>1 DEF RunInv
<1>2. ASSUME i = GLOBAL_HEAP_SIZE, ~found PROVE Fits(bitmap, size) = {}
  BY <1>0, <1>2 DEF NothingBefore, Fits, TypeOK
<1> QED BY <1>1, <1>2 DEF ScanFindsFirstFit

\* Every iteration of the loop keeps the invariant.
LEMMA ScanInvariant == Spec => []ScanInv
<1>1. ScanInv /\ [Next]_vars => ScanInv'
  <2>1. ScanInv /\ UNCHANGED vars => ScanInv'
    BY DEF ScanInv, TypeOK, RunInv, NothingBefore, vars
  <2> QED BY <2>1, FreeCellScanInv, UsedCellScanInv DEF Next
<1> QED BY <1>1, InitScanInv, PTL DEF Spec

\* The index and the start of the run that Kernel_malloc and Kernel_loadTask
\* scan for never leave the heap.
THEOREM ScanTyped == Spec => []TypeOK
<1>1. ScanInv => TypeOK
  BY DEF ScanInv
<1> QED BY <1>1, ScanInvariant, PTL

\* The scan loop of Kernel_malloc and Kernel_loadTask finds the lowest free
\* run of the requested size whenever there is one, and nothing otherwise.
THEOREM ScanCorrect == Spec => []ScanFindsFirstFit
<1> QED BY ScanInvariant, ScanInvFindsFirstFit, PTL
=============================================================================
