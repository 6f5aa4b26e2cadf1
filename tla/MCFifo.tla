------------------------------- MODULE MCFifo -------------------------------
(* Small instances of the FIFO for TLC. *)
EXTENDS FifoPool, TLC

CONSTANTS b1, b2, b3, b4, gps, sdr, main

Symmetry == Permutations(Buf)

=============================================================================
