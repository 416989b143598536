------------------------------ MODULE MCKernel ------------------------------
(* Kernel.tla for TLC. *)
EXTENDS Kernel

\* A size 0 header or request never fits.
Sizes == 0 .. 2
=============================================================================
