---------------------------- MODULE MCCodeStream ----------------------------
(* CodeStream.tla for TLC: programs shorter than the buffer, as long as it, *)
(* and of more than two buffers, and jumps into and out of them on both     *)
(* sides.                                                                   *)
EXTENDS CodeStream

Lengths == {0, 1, 4, 6, 9}
Addresses == -HEADER_SIZE - 1 .. 10
=============================================================================
