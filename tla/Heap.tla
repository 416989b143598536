-------------------------------- MODULE Heap --------------------------------
(***************************************************************************)
(* First-fit allocation over heap_bitmap, the allocation bitmap of         *)
(* src/src/Kernel.cpp.  A bitmap is the set of the cells whose bit is set. *)
(* HeapScan.tla proves that the kernel's scan loop computes FirstFit.      *)
(***************************************************************************)
EXTENDS Integers

CONSTANT GLOBAL_HEAP_SIZE  \* number of int cells of global_heap

ASSUME HeapAssumption == GLOBAL_HEAP_SIZE \in Nat \ {0}

Addr == 0 .. GLOBAL_HEAP_SIZE - 1

Cells(start, size) == start .. start + size - 1

\* Mutants: the last cell of a run may lie behind the heap; only the first
\* cell of a run is looked at.
FitsPastEnd(bitmap, size) ==
  {s \in Addr : size > 0 /\ Cells(s, size - 1) \cap bitmap = {}
                /\ s + size <= GLOBAL_HEAP_SIZE + 1}

FitsFirstCell(bitmap, size) ==
  {s \in Addr \ bitmap : size > 0 /\ s + size <= GLOBAL_HEAP_SIZE}

\* Starts of the free runs of `size` cells.  The scan compares its counter
\* with size after incrementing it, so it never finds a size <= 0.
Fits(bitmap, size) ==
  {s \in Addr : /\ size > 0
                /\ s + size <= GLOBAL_HEAP_SIZE
                /\ Cells(s, size) \cap bitmap = {}}

\* The lowest of them, or none.
FirstFit(bitmap, size) ==
  {s \in Fits(bitmap, size) : \A r \in Fits(bitmap, size) : s <= r}
=============================================================================
