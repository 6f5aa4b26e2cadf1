------------------------------ MODULE FifoPool ------------------------------
(* The pointer-level FIFO implements the block pool: a block's place is     *)
(* read off the lists that reach it.                                        *)
EXTENDS Fifo

PlaceOf(b) == CASE b = held[Gps]        -> "gps"
                [] b = held[Sdr]        -> "sdr"
                [] b \in Chain(head)     -> "queued"
                [] b \in Chain(freelist) -> "free"
                [] OTHER                -> "lost"

Pool == INSTANCE BlockPool WITH place <- [b \in Buf |-> PlaceOf(b)]

(* Every step of the FIFO moves blocks the way the pool allows: only their  *)
(* holder moves a block on, only fifo_enqueue loses blocks, it keeps one    *)
(* block queued when it loses its own, and no lost block ever reappears.    *)
RefinesPool == Pool!PoolSpec

=============================================================================
