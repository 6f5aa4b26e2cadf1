------------------------------ MODULE BlockPool ------------------------------
(* What the FIFO of fifo.c promises about its blocks, without pointers: at  *)
(* any time every block is in one place, and an operation moves the block   *)
(* it is about.  Only an enqueue may drop other blocks, and a dropped block *)
(* never comes back.                                                        *)
EXTENDS FiniteSets

CONSTANT Buf
VARIABLE place   \* place[b]: where block b is

Place == {"free", "gps", "queued", "sdr", "lost"}
At(p) == {b \in Buf : place[b] = p}

PoolTypeOK == place \in [Buf -> Place]

PoolInit == place = [b \in Buf |-> "free"]

(* Block b moves to p, the blocks in L are dropped. *)
Move(b, p, L) == place' = [x \in Buf |-> IF x = b THEN p
                                         ELSE IF x \in L THEN "lost" ELSE place[x]]

(* fifo_acquire: the GPS thread gets a free block. *)
Take == \E b \in At("free") : At("gps") = {} /\ Move(b, "gps", {})

(* fifo_enqueue: the block is queued, but queued ones may be dropped ...    *)
PutQueued == \E b \in At("gps") : \E L \in SUBSET At("queued") : Move(b, "queued", L)

(* ... or it is dropped itself while another one stays queued ...           *)
PutLost == \E b \in At("gps") : At("queued") # {} /\ Move(b, "lost", {})

(* ... or it ends on the freelist, which may lose other blocks.             *)
PutFree == \E b \in At("gps") : \E L \in SUBSET At("free") : Move(b, "free", L)

(* fifo_dequeue: the SDR thread gets a queued block. *)
Get == \E b \in At("queued") : At("sdr") = {} /\ Move(b, "sdr", {})

(* fifo_release, and one iteration of the loop in fifo_halt. *)
GiveBack == \E b \in At("sdr") : Move(b, "free", {})
Drain == \E b \in At("queued") : Move(b, "free", {})

(* fifo_destroy: the memory of the free and the queued blocks is gone. *)
Discard == /\ At("sdr") = {}
           /\ place' = [b \in Buf |-> IF place[b] \in {"free", "queued"}
                                      THEN "lost" ELSE place[b]]

PoolNext == Take \/ PutQueued \/ PutLost \/ PutFree \/ Get \/ GiveBack \/ Drain \/ Discard

PoolSpec == PoolInit /\ [][PoolNext]_place

=============================================================================
