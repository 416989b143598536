------------------------------- MODULE MCSleep ------------------------------
(* Sleep.tla for TLC: a counter of three bits, and two tasks that sleep      *)
(* for a negative time, none, less and more than the low bit counts.         *)
EXTENDS Sleep

CONSTANTS s1, s2

Bits == {2, 4}
Naps == {-2, 0, 1, 5}
Tasks == {s1, s2}
=============================================================================
