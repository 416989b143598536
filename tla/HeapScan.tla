------------------------------ MODULE HeapScan ------------------------------
(***************************************************************************)
(* The loop that Kernel_malloc and Kernel_loadTask run over heap_bitmap,   *)
(* one step per iteration, for any bitmap and any requested size.          *)
(***************************************************************************)
EXTENDS Heap

CONSTANT Sizes  \* requested sizes, negative ones included

ASSUME SizesAssumption == Sizes \subseteq Int

VARIABLES
  bitmap,            \* heap_bitmap, fixed during the scan
  size,              \* the requested size
  i,                 \* loop variable
  consecutive_free,  \* length of the free run that ends before i
  start_index,       \* where that run starts
  found              \* the loop was left at consecutive_free = size

vars == <<bitmap, size, i, consecutive_free, start_index, found>>

Init ==
  /\ bitmap \in SUBSET Addr
  /\ size \in Sizes
  /\ i = 0
  /\ consecutive_free = 0
  /\ start_index = -1
  /\ found = FALSE

\* Mutant: one cell too many.
ScanningOneMore == i <= GLOBAL_HEAP_SIZE /\ ~found

Scanning == i < GLOBAL_HEAP_SIZE /\ ~found

\* if (!is_allocated(i)): the run grows and may reach the size asked for.
FreeCell ==
  /\ Scanning
  /\ i \notin bitmap
  /\ start_index' = IF consecutive_free = 0 THEN i ELSE start_index
  /\ consecutive_free' = consecutive_free + 1
  /\ found' = (consecutive_free + 1 = size)
  /\ i' = i + 1
  /\ UNCHANGED <<bitmap, size>>

\* Mutant: an allocated cell does not end the run.
UsedCellKeepsRun ==
  /\ Scanning
  /\ i \in bitmap
  /\ i' = i + 1
  /\ UNCHANGED <<bitmap, size, consecutive_free, start_index, found>>

UsedCell ==
  /\ Scanning
  /\ i \in bitmap
  /\ consecutive_free' = 0
  /\ i' = i + 1
  /\ UNCHANGED <<bitmap, size, start_index, found>>

Next == FreeCell \/ UsedCell

Spec == Init /\ [][Next]_vars

-----------------------------------------------------------------------------

\* The loop's index and the start of its run stay within the heap.
TypeOK ==
  /\ bitmap \in SUBSET Addr
  /\ size \in Int
  /\ i \in 0 .. GLOBAL_HEAP_SIZE
  /\ consecutive_free \in Nat
  /\ start_index \in Addr \cup {-1}
  /\ found \in BOOLEAN

\* The counter is the length of the free run just before i.
RunInv ==
  /\ consecutive_free > 0 =>
       /\ start_index = i - consecutive_free
       /\ start_index >= 0
       /\ Cells(start_index, consecutive_free) \cap bitmap = {}
  /\ consecutive_free > 0 /\ start_index > 0 => start_index - 1 \in bitmap
  /\ consecutive_free = 0 /\ i > 0 => i - 1 \in bitmap
  /\ ~found /\ size > 0 => consecutive_free < size
  /\ found => consecutive_free = size /\ size > 0

\* No run of `size` free cells ends at or before i, except the one just found.
NothingBefore ==
  \A s \in Fits(bitmap, size) :
    s + size <= i => found /\ s = start_index

ScanInv == TypeOK /\ RunInv /\ NothingBefore

\* The loop finds the lowest free run of the requested size if there is one,
\* and reports failure only if there is none (the two copies of the loop in
\* Kernel_malloc and Kernel_loadTask must agree on what is free).
ScanFindsFirstFit ==
  /\ found => start_index \in FirstFit(bitmap, size)
  /\ i = GLOBAL_HEAP_SIZE /\ ~found => Fits(bitmap, size) = {}
=============================================================================
