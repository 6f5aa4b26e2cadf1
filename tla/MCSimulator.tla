---------------------------- MODULE MCSimulator ----------------------------
(* Small instances of the whole program for TLC. *)
EXTENDS Simulator

CONSTANTS b1, b2, b3, b4, gps, sdr, main

=============================================================================
