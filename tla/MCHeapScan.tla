----------------------------- MODULE MCHeapScan -----------------------------
(* HeapScan.tla for TLC: every bitmap of a small heap, and sizes from a    *)
(* negative one to one more than the heap has.                             *)
EXTENDS HeapScan

ScanSizes == -1 .. GLOBAL_HEAP_SIZE + 1
=============================================================================
