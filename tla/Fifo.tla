-------------------------------- MODULE Fifo --------------------------------
(* The IQ block FIFO of fifo.c, pointer by pointer.                         *)
(*                                                                          *)
(* The GPS thread takes an empty block from the freelist, fills it and      *)
(* enqueues it; the SDR thread (file writer, Pluto thread or libusb         *)
(* callback of the HackRF) dequeues a block, transmits it and gives it      *)
(* back.  The main thread waits for the FIFO to fill before it starts the   *)
(* SDR thread, and halts and destroys the FIFO when the program ends.       *)
(*                                                                          *)
(* One action is one critical section of fifo_mutex.  A call that meets     *)
(* pthread_cond_wait is two: the part before the wait, which leaves the     *)
(* thread inside the call (at[t] names it), and the part after it, enabled  *)
(* once the thread was woken.  fifo_halt is one action per iteration of     *)
(* its loop, because it walks a list; it holds the mutex meanwhile.         *)
(*                                                                          *)
(* An operator whose comment starts with "Fault" is not part of the model:  *)
(* it is a slip that fifo.c could contain, kept to show which property      *)
(* notices it.                                                              *)
EXTENDS Integers, FiniteSets

CONSTANTS Buf,       \* the blocks that fifo_create allocated
          NULL,      \* the null pointer
          Gps,       \* the GPS thread, the only producer
          Sdr,       \* the SDR thread, the only consumer
          Main,      \* the main thread
          Blocks,    \* how many blocks the GPS thread generates
          Spurious   \* whether pthread_cond_wait may return unsignalled

Thread == {Gps, Sdr, Main}
Ref == Buf \cup {NULL}

(* fifo_create succeeded: there is at least one block. *)
ASSUME BufAssumption == Buf # {} /\ NULL \notin Buf
ASSUME ThreadAssumption == Gps # Sdr /\ Gps # Main /\ Sdr # Main
ASSUME BlocksAssumption == Blocks \in Nat
ASSUME SpuriousAssumption == Spurious \in BOOLEAN

VARIABLES head,      \* fifo_head
          tail,      \* fifo_tail
          freelist,  \* fifo_freelist
          nxt,       \* nxt[b] is b->next
          halted,    \* fifo_halted
          at,        \* the fifo call a thread is inside of, "out" if none
          woken,     \* threads that were woken and now compete for the mutex
          held,      \* the block a thread got and has not handed on, or NULL
          payload,   \* payload[b]: number of the generated block b carries
          sent,      \* blocks enqueued so far
          taken,     \* number of the last block dequeued
          crashed,   \* a null pointer was dereferenced
          destroyed  \* fifo_destroy was called

ptrs == <<head, tail, freelist, nxt>>
fifoVars == <<head, tail, freelist, nxt, halted, at, woken, held,
              payload, sent, taken, crashed, destroyed>>

-----------------------------------------------------------------------------
(* Lists, mutex and condition variables.                                    *)

(* The blocks on the list that starts at p: those in every set that has p   *)
(* and follows the next pointers.                                           *)
Closed(S) == \A x \in S : nxt[x] # NULL => nxt[x] \in S
Chain(p) == IF p = NULL THEN {}
            ELSE {b \in Buf : \A S \in SUBSET Buf : p \in S /\ Closed(S) => b \in S}

Blocking == {"acquire", "dequeue", "wait_next", "wait_full"}
Call == Blocking \cup {"out", "halt"}

(* Nobody holds fifo_mutex between two steps but a thread in fifo_halt. *)
Unlocked == \A t \in Thread : at[t] # "halt"
Usable == Unlocked /\ ~crashed /\ ~destroyed

(* A thread inside call c that was not woken sleeps on the condition        *)
(* variable of c: acquire on free, dequeue on notempty, wait_next on empty, *)
(* wait_full on full.                                                       *)
Waiting(c) == {t \in Thread : at[t] = c /\ t \notin woken}
Wait(t, c) == at' = [at EXCEPT ![t] = c]
Signal(c) == IF Waiting(c) = {} THEN UNCHANGED woken
             ELSE \E t \in Waiting(c) : woken' = woken \cup {t}

Crash == crashed' = TRUE /\ UNCHANGED <<ptrs, held, payload, taken>>

-----------------------------------------------------------------------------
(* fifo_create: every block on the freelist.  The order in which the loop   *)
(* pushes them is a free choice: any chain through all of Buf.              *)
IsFreelist(p) == /\ Chain(p) = Buf
                 /\ \A a, b \in Buf : nxt[a] = nxt[b] => a = b
                 /\ \A a \in Buf : nxt[a] # p

Init == /\ head = NULL /\ tail = NULL
        /\ freelist \in Buf
        /\ nxt \in [Buf -> Ref]
        /\ IsFreelist(freelist)
        /\ halted = FALSE
        /\ at = [t \in Thread |-> "out"]
        /\ woken = {}
        /\ held = [t \in Thread |-> NULL]
        /\ payload = [b \in Buf |-> 0]
        /\ sent = 0 /\ taken = 0
        /\ crashed = FALSE /\ destroyed = FALSE

-----------------------------------------------------------------------------
(* fifo_acquire *)

PopFree(t) == /\ freelist' = nxt[freelist]
              /\ nxt' = [nxt EXCEPT ![freelist] = NULL]
              /\ held' = [held EXCEPT ![t] = freelist]
              /\ UNCHANGED <<head, tail, payload, taken, crashed>>

(* Lines 138 to 147, after the wait if there was one. *)
AcquireResult(t) ==
    \/ halted /\ UNCHANGED <<ptrs, held, payload, taken, crashed>>
    \/ ~halted /\ freelist # NULL /\ PopFree(t)
    \/ ~halted /\ freelist = NULL /\ Crash

Acquire(t) ==
    /\ Usable /\ at[t] = "out" /\ held[t] = NULL
    /\ IF ~halted /\ freelist = NULL
       THEN /\ Signal("wait_full")
            /\ Wait(t, "acquire")
            /\ UNCHANGED <<ptrs, held, payload, taken, crashed>>
       ELSE AcquireResult(t) /\ UNCHANGED <<at, woken>>
    /\ UNCHANGED <<halted, sent, destroyed>>

AcquireResume(t) ==
    /\ Usable /\ at[t] = "acquire" /\ t \in woken
    /\ AcquireResult(t)
    /\ at' = [at EXCEPT ![t] = "out"]
    /\ woken' = woken \ {t}
    /\ UNCHANGED <<halted, sent, destroyed>>

-----------------------------------------------------------------------------
(* fifo_enqueue.  tail is set only when the queue was empty: a second block *)
(* is linked behind the first one, a third takes the second one's place.    *)

(* Fault: the block is not put back when the FIFO is halted. *)
EnqueueHaltedDrops(t) ==
    /\ halted
    /\ nxt' = [nxt EXCEPT ![held[t]] = NULL]
    /\ UNCHANGED <<head, tail, freelist, woken, crashed>>

EnqueueHalted(t) ==
    /\ halted
    /\ nxt' = [nxt EXCEPT ![held[t]] = freelist]
    /\ freelist' = held[t]
    /\ UNCHANGED <<head, tail, woken, crashed>>

(* Fault: no signal for the first block. *)
EnqueueFirstSilent(t) ==
    /\ ~halted /\ head = NULL
    /\ nxt' = [nxt EXCEPT ![held[t]] = NULL]
    /\ head' = held[t] /\ tail' = held[t]
    /\ UNCHANGED <<freelist, woken, crashed>>

EnqueueFirst(t) ==
    /\ ~halted /\ head = NULL
    /\ nxt' = [nxt EXCEPT ![held[t]] = NULL]
    /\ head' = held[t] /\ tail' = held[t]
    /\ Signal("dequeue")
    /\ UNCHANGED <<freelist, crashed>>

(* Fault: the new block is linked before the others instead of behind. *)
EnqueueInFront(t) ==
    /\ ~halted /\ head # NULL
    /\ nxt' = [nxt EXCEPT ![held[t]] = head]
    /\ head' = held[t]
    /\ UNCHANGED <<tail, freelist, woken, crashed>>

EnqueueBehind(t) ==
    /\ ~halted /\ head # NULL
    /\ IF tail # NULL
       THEN nxt' = [[nxt EXCEPT ![held[t]] = NULL] EXCEPT ![tail] = held[t]]
            /\ UNCHANGED crashed
       ELSE nxt' = [nxt EXCEPT ![held[t]] = NULL] /\ crashed' = TRUE
    /\ UNCHANGED <<head, tail, freelist, woken>>

Enqueue(t) ==
    /\ Usable /\ at[t] = "out" /\ held[t] # NULL
    /\ EnqueueHalted(t) \/ EnqueueFirst(t) \/ EnqueueBehind(t)
    /\ held' = [held EXCEPT ![t] = NULL]
    /\ payload' = [payload EXCEPT ![held[t]] = sent + 1]
    /\ sent' = sent + 1
    /\ UNCHANGED <<halted, at, taken, destroyed>>

-----------------------------------------------------------------------------
(* fifo_dequeue *)

(* Fault: fifo_tail is reset although a block is left. *)
PopHeadClearsTail(t) ==
    /\ head' = nxt[head] /\ tail' = NULL
    /\ nxt' = [nxt EXCEPT ![head] = NULL]
    /\ held' = [held EXCEPT ![t] = head]
    /\ taken' = payload[head]
    /\ UNCHANGED <<freelist, payload, crashed>>

(* The head leaves the queue; when it was the last one the threads in       *)
(* fifo_wait_next are woken.                                                *)
PopHead(t) == /\ head' = nxt[head]
              /\ nxt' = [nxt EXCEPT ![head] = NULL]
              /\ tail' = IF nxt[head] = NULL THEN NULL ELSE tail
              /\ held' = [held EXCEPT ![t] = head]
              /\ taken' = payload[head]
              /\ UNCHANGED <<freelist, payload, crashed>>

DequeueResult(t) ==
    \/ halted /\ UNCHANGED <<ptrs, held, payload, taken, crashed>>
    \/ ~halted /\ head # NULL /\ PopHead(t)
    \/ ~halted /\ head = NULL /\ Crash

(* Fault: nobody is told that the queue is empty. *)
WokenByNothing == {}

WokenByEmpty == IF ~halted /\ head # NULL /\ nxt[head] = NULL
                THEN Waiting("wait_next") ELSE {}

Dequeue(t) ==
    /\ Usable /\ at[t] = "out" /\ held[t] = NULL
    /\ IF head = NULL /\ ~halted
       THEN /\ Wait(t, "dequeue")
            /\ UNCHANGED <<ptrs, woken, held, payload, taken, crashed>>
       ELSE /\ DequeueResult(t)
            /\ woken' = woken \cup WokenByEmpty
            /\ UNCHANGED at
    /\ UNCHANGED <<halted, sent, destroyed>>

DequeueResume(t) ==
    /\ Usable /\ at[t] = "dequeue" /\ t \in woken
    /\ DequeueResult(t)
    /\ at' = [at EXCEPT ![t] = "out"]
    /\ woken' = (woken \ {t}) \cup WokenByEmpty
    /\ UNCHANGED <<halted, sent, destroyed>>

(* Fault: the freelist is tested after the block was put on it. *)
ReleaseTestsLate(t) ==
    /\ Usable /\ at[t] = "out" /\ held[t] # NULL
    /\ nxt' = [nxt EXCEPT ![held[t]] = freelist]
    /\ freelist' = held[t]
    /\ held' = [held EXCEPT ![t] = NULL]
    /\ UNCHANGED <<head, tail, halted, at, woken, payload, sent, taken, crashed, destroyed>>

(* fifo_release *)
Release(t) ==
    /\ Usable /\ at[t] = "out" /\ held[t] # NULL
    /\ IF freelist = NULL THEN Signal("acquire") ELSE UNCHANGED woken
    /\ nxt' = [nxt EXCEPT ![held[t]] = freelist]
    /\ freelist' = held[t]
    /\ held' = [held EXCEPT ![t] = NULL]
    /\ UNCHANGED <<head, tail, halted, at, payload, sent, taken, crashed, destroyed>>

-----------------------------------------------------------------------------
(* fifo_wait_full: one wait, and no test of what it waits for. *)
WaitFull(t) ==
    /\ Usable /\ at[t] = "out"
    /\ IF halted THEN UNCHANGED at ELSE Wait(t, "wait_full")
    /\ UNCHANGED <<ptrs, halted, woken, held, payload, sent, taken, crashed, destroyed>>

WaitFullResume(t) ==
    /\ Usable /\ at[t] = "wait_full" /\ t \in woken
    /\ at' = [at EXCEPT ![t] = "out"]
    /\ woken' = woken \ {t}
    /\ UNCHANGED <<ptrs, halted, held, payload, sent, taken, crashed, destroyed>>

(* fifo_wait_next, which no caller in the program uses. *)
WaitNext(t) ==
    /\ Usable /\ at[t] = "out"
    /\ IF head # NULL /\ ~halted THEN Wait(t, "wait_next") ELSE UNCHANGED at
    /\ UNCHANGED <<ptrs, halted, woken, held, payload, sent, taken, crashed, destroyed>>

WaitNextResume(t) ==
    /\ Usable /\ at[t] = "wait_next" /\ t \in woken
    /\ IF head # NULL /\ ~halted THEN UNCHANGED at ELSE at' = [at EXCEPT ![t] = "out"]
    /\ woken' = woken \ {t}
    /\ UNCHANGED <<ptrs, halted, held, payload, sent, taken, crashed, destroyed>>

-----------------------------------------------------------------------------
(* fifo_halt: take the mutex, move the queue to the freelist one block at a *)
(* time, then mark the FIFO halted and wake every waiter.                   *)
HaltBegin(t) ==
    /\ Usable /\ at[t] = "out"
    /\ at' = [at EXCEPT ![t] = "halt"]
    /\ UNCHANGED <<ptrs, halted, woken, held, payload, sent, taken, crashed, destroyed>>

(* Fault: the next pointer is overwritten before head follows it. *)
HaltDrainSwapped(t) ==
    /\ at[t] = "halt" /\ head # NULL
    /\ head' = freelist
    /\ nxt' = [nxt EXCEPT ![head] = freelist]
    /\ freelist' = head
    /\ UNCHANGED <<tail, halted, at, woken, held, payload, sent, taken, crashed, destroyed>>

HaltDrain(t) ==
    /\ at[t] = "halt" /\ head # NULL
    /\ head' = nxt[head]
    /\ nxt' = [nxt EXCEPT ![head] = freelist]
    /\ freelist' = head
    /\ UNCHANGED <<tail, halted, at, woken, held, payload, sent, taken, crashed, destroyed>>

(* Fault: the waiters for a free block are woken, those for data are not. *)
HaltEndForgetsData(t) ==
    /\ at[t] = "halt" /\ head = NULL
    /\ tail' = NULL
    /\ halted' = TRUE
    /\ at' = [at EXCEPT ![t] = "out"]
    /\ woken' = woken \cup {u \in Thread : at[u] \in Blocking \ {"dequeue"}}
    /\ UNCHANGED <<head, freelist, nxt, held, payload, sent, taken, crashed, destroyed>>

HaltEnd(t) ==
    /\ at[t] = "halt" /\ head = NULL
    /\ tail' = NULL
    /\ halted' = TRUE
    /\ at' = [at EXCEPT ![t] = "out"]
    /\ woken' = woken \cup {u \in Thread : at[u] \in Blocking}
    /\ UNCHANGED <<head, freelist, nxt, held, payload, sent, taken, crashed, destroyed>>

(* fifo_destroy frees both lists and clears the pointers to them; it does   *)
(* not lock.                                                                *)
Destroy ==
    /\ ~crashed /\ ~destroyed
    /\ head' = NULL /\ tail' = NULL /\ freelist' = NULL
    /\ destroyed' = TRUE
    /\ UNCHANGED <<nxt, halted, at, woken, held, payload, sent, taken, crashed>>

(* pthread_cond_wait is allowed to return although nobody signalled. *)
SpuriousWakeup(t) ==
    /\ Spurious /\ at[t] \in Blocking /\ t \notin woken
    /\ woken' = woken \cup {t}
    /\ UNCHANGED <<ptrs, halted, at, held, payload, sent, taken, crashed, destroyed>>

-----------------------------------------------------------------------------
(* The threads, as the program uses the FIFO: the GPS thread acquires and   *)
(* enqueues in turn until it has generated Blocks blocks, the SDR thread    *)
(* dequeues and releases in turn, main waits or halts.  fifo_destroy is     *)
(* called as fifo.h asks: after a halt and with no other user left.         *)

(* Fault: one block too many. *)
GpsStepOneMore == \/ Acquire(Gps)
                  \/ AcquireResume(Gps)
                  \/ sent <= Blocks /\ Enqueue(Gps)

GpsStep == \/ Acquire(Gps)
           \/ AcquireResume(Gps)
           \/ sent < Blocks /\ Enqueue(Gps)

SdrStep == \/ Dequeue(Sdr)
           \/ DequeueResume(Sdr)
           \/ Release(Sdr)

MainCalls == \/ WaitFull(Main)
             \/ WaitNext(Main)
             \/ ~halted /\ HaltBegin(Main)

UsersDone == \A t \in Thread : at[t] = "out" /\ (t = Sdr => held[t] = NULL)

MainReturns == \/ WaitFullResume(Main)
               \/ WaitNextResume(Main)
               \/ HaltDrain(Main)
               \/ HaltEnd(Main)

Retire == halted /\ UsersDone /\ Destroy

(* A program that crashed, or that has destroyed the FIFO, is at its end. *)
Stopped == (crashed \/ destroyed) /\ UNCHANGED fifoVars

Next == \/ GpsStep
        \/ SdrStep
        \/ MainCalls
        \/ MainReturns
        \/ Retire
        \/ \E t \in Thread : SpuriousWakeup(t)
        \/ Stopped

Spec == Init /\ [][Next]_fifoVars

(* The scheduler lets a thread that is ready to run make its next step, and *)
(* the mutex is free again after every step, or after the finitely many     *)
(* steps of fifo_halt.  Main is not obliged to call anything, only to       *)
(* finish what it called.                                                   *)
FairSpec == /\ Spec
            /\ WF_fifoVars(GpsStep)
            /\ WF_fifoVars(SdrStep)
            /\ WF_fifoVars(MainReturns)

-----------------------------------------------------------------------------
(* Properties.                                                              *)

(* Type invariant of the FIFO's variables. *)
TypeOK == /\ head \in Ref /\ tail \in Ref /\ freelist \in Ref
          /\ nxt \in [Buf -> Ref]
          /\ halted \in BOOLEAN /\ crashed \in BOOLEAN /\ destroyed \in BOOLEAN
          /\ at \in [Thread -> Call]
          /\ woken \subseteq Thread
          /\ held \in [Thread -> Ref]
          /\ payload \in [Buf -> 0..Blocks]
          /\ sent \in 0..Blocks /\ taken \in 0..Blocks

(* A block is in one place only: on the queue, on the freelist, or with the *)
(* one thread that got it.  In particular the GPS thread never writes into  *)
(* a block that is queued or that the SDR thread is transmitting, although  *)
(* fifo_tail may point to a block that has left the queue.                  *)
ExclusiveOwnership ==
    /\ Chain(head) \cap Chain(freelist) = {}
    /\ \A t \in Thread : held[t] \notin Chain(head) \cup Chain(freelist)
    /\ \A t, u \in Thread : t # u /\ held[t] # NULL => held[t] # held[u]

(* Why it holds: every block is referenced at most once, by head, by        *)
(* freelist, by the thread that holds it or by the next pointer of another  *)
(* block, lost ones included; tail does not count.                          *)
NextInjective == \A a, b \in Buf : nxt[a] # NULL /\ nxt[a] = nxt[b] => a = b
RootsUnlinked == \A a \in Buf : nxt[a] # NULL =>
                     /\ nxt[a] # head /\ nxt[a] # freelist
                     /\ \A t \in Thread : nxt[a] # held[t]
RootsDistinct == /\ head # NULL => head # freelist /\ \A t \in Thread : head # held[t]
                 /\ freelist # NULL => \A t \in Thread : freelist # held[t]
                 /\ \A t, u \in Thread : t # u /\ held[t] # NULL => held[t] # held[u]
SoleReference == NextInjective /\ RootsUnlinked /\ RootsDistinct

(* The producer and the consumer never sleep on each other: while the FIFO  *)
(* runs, fifo_acquire waiting for a free block and fifo_dequeue waiting for *)
(* a filled one cannot both be asleep, however many blocks were lost.       *)
Sleeping(t, c) == at[t] = c /\ t \notin woken
GpsSleeps == Sleeping(Gps, "acquire")
SdrSleeps == Sleeping(Sdr, "dequeue")
NoStandoff == ~halted => ~GpsSleeps \/ ~SdrSleeps

(* No wakeup is lost: a thread asleep in a call of the FIFO still waits for *)
(* what it went to sleep for, and nobody is asleep once the FIFO is halted. *)
Running == ~halted /\ Unlocked
SleepersHaveReason == /\ Running /\ GpsSleeps => freelist = NULL
                      /\ Running /\ SdrSleeps => head = NULL
EndAwaited == Running /\ Sleeping(Main, "wait_next") => head # NULL
AwakeAfterHalt == halted => \A t \in Thread : at[t] \in Blocking => t \in woken
NoLostWakeup == SleepersHaveReason /\ EndAwaited /\ AwakeAfterHalt

(* What each thread does in the FIFO, and what being woken says about the   *)
(* lists.                                                                   *)
Roles == /\ at[Gps] \in {"out", "acquire"} /\ at[Sdr] \in {"out", "dequeue"}
         /\ at[Main] \in {"out", "wait_full", "wait_next", "halt"}
         /\ held[Main] = NULL
         /\ \A t \in Thread : at[t] # "out" => held[t] = NULL
         /\ \A t \in woken : at[t] \in Blocking
Circulates == ~halted => head # NULL \/ freelist # NULL \/ held[Gps] # NULL \/ held[Sdr] # NULL
TailSet == head # NULL => tail # NULL
WokenHaveReason ==
    /\ Running /\ at[Gps] = "acquire" /\ Gps \in woken => freelist # NULL
    /\ Running /\ at[Sdr] = "dequeue" /\ Sdr \in woken => head # NULL

(* The queue holds at most two blocks: tail is its first block, or the      *)
(* queue is that one block and tail is stale.  The numbers on it ascend.    *)
QueueShape == head # NULL => IF tail = head
                             THEN nxt[head] # NULL => nxt[nxt[head]] = NULL
                             ELSE nxt[head] = NULL
QueueAscends ==
    /\ taken <= sent /\ \A b \in Buf : payload[b] <= sent
    /\ head # NULL => /\ payload[head] > taken
                      /\ nxt[head] # NULL => payload[nxt[head]] > payload[head]

(* The inductive invariants behind the theorems of FifoProofs; only         *)
(* WokenInv needs Spurious = FALSE.                                         *)
OwnershipInv == TypeOK /\ Roles /\ SoleReference
StandoffInv == TypeOK /\ Roles /\ Circulates /\ SleepersHaveReason /\ NoStandoff
WakeupInv == StandoffInv /\ NoLostWakeup
WokenInv == StandoffInv /\ WokenHaveReason /\ TailSet /\ ~crashed
OrderInv == OwnershipInv /\ QueueShape /\ QueueAscends

(* fifo_acquire and fifo_dequeue never dereference a null block, nor        *)
(* fifo_enqueue a null tail.  It needs that pthread_cond_wait returns only  *)
(* when signalled: they test their condition once, before the wait.         *)
NoNullBlock == ~crashed

(* Blocks reach the SDR thread in the order in which they were generated,   *)
(* none of them twice, whichever of them are dropped.                       *)
InOrder == [][taken' # taken => taken' > taken]_fifoVars

(* fifo_halt leaves nobody asleep: whoever waits in a call of the FIFO when *)
(* it is halted returns from it.                                            *)
HaltReleasesAll == halted ~> \A t \in Thread : at[t] = "out"

(* The stream goes on to its end: unless the FIFO is halted, all blocks are *)
(* generated and the queue is drained.                                      *)
StreamDrains == <>(halted \/ (sent = Blocks /\ head = NULL))

(* fifo_wait_next returns, because the broadcast that tells of an empty     *)
(* queue is not missed.                                                     *)
WaitNextReturns == at[Main] = "wait_next" ~> at[Main] = "out"

(* fifo.h: enqueue puts a filled block onto the FIFO, dequeue gets a block  *)
(* from it.  So the blocks enqueued and not yet dequeued are queued.        *)
NoBlockLost ==
    Unlocked /\ ~halted /\ ~destroyed
        => {payload[b] : b \in Chain(head)} = (taken + 1)..sent

=============================================================================
