--------------------------- MODULE SimulatorProofs ---------------------------
(* Proofs about Simulator, the threads of the program around the FIFO.      *)
(* Almost every step of the program is a step of module Fifo, so that the   *)
(* lemmas of FifoProofs carry over; what is left is the creation and the    *)
(* destruction of the FIFO, the threads' control and the filling of blocks. *)
EXTENDS Simulator, FifoProofs

LEMMA Sizes ==
    /\ NumD \in Nat /\ NumD >= 1 /\ IqSize \in Nat /\ IqSize >= 1
    /\ Transfer \in Nat /\ Transfer >= 1 /\ Blocks >= NumD * IqSize
BY SizesAssumption, BlocksCover

(* One round less, and no round at all. *)
LEMMA Rounds ==
    /\ \A n, s \in Int : (n - 1) * s = n * s - s
    /\ \A n, s \in Nat : n * s >= 0
    /\ \A n, s \in Nat : n >= 1 => n * s >= s
<1>1. \A n, s \in Int : (n - 1) * s = n * s - s
  BY Z3
<1>2. \A n, s \in Nat : n * s >= 0
  BY Z3
<1>3. \A n, s \in Nat : n >= 1 => n * s >= s
  <2> SUFFICES ASSUME NEW n \in Nat, NEW s \in Nat, n >= 1 PROVE n * s >= s
    OBVIOUS
  <2>1. n - 1 \in Nat
    OBVIOUS
  <2>2. (n - 1) * s >= 0 /\ (n - 1) * s = n * s - s
    BY <1>1, <1>2, <2>1
  <2>3. n * s \in Int /\ (n - 1) * s \in Int
    OBVIOUS
  <2> QED BY <2>2, <2>3
<1> QED BY <1>1, <1>2, <1>3

(* A block costs at most one of the samples that were copied for it. *)
LEMMA Spend ==
    ASSUME NEW s \in Int, NEW b \in Int, NEW l \in Int, NEW m \in Int, NEW p \in 0..1,
           s + l <= b, m <= l - 1
    PROVE  s + p + m <= b
OBVIOUS

(* The samples yet to be computed are not fewer than none. *)
LEMMA LeftNat ==
    ASSUME SimTypeOK, Filling
    PROVE  Left \in Nat
<1> USE Sizes DEF SimTypeOK, Filling, Left
<1>1. NumD - iumd \in Nat /\ iumd \in Int
  OBVIOUS
<1>2. (NumD - iumd) * IqSize \in Nat
  BY <1>1, Rounds
<1>3. CASE todo > 0
  <2>1. NumD - iumd >= 1
    BY <1>3
  <2>2. (NumD - iumd) * IqSize >= IqSize
    BY <2>1, <1>1, Rounds
  <2> QED BY <2>2, <1>2, <1>3
<1>4. CASE ~(todo > 0)
  BY <1>2, <1>4
<1> QED BY <1>3, <1>4

-----------------------------------------------------------------------------
(* The steps of the program, as the FIFO sees them.                         *)

(* Apart from creation and destruction, and from a crash, each step is one  *)
(* that module Fifo allows.                                                 *)
LEMMA FifoKinds ==
    ASSUME SimInv, SimNext
    PROVE  SdrInit \/ CloseDestroy \/ Segfault \/ [Next]_fifoVars
<1> USE DEF Next, GpsStep, SdrStep, MainCalls, MainReturns
<1>1. CASE RunSdr
  BY <1>1 DEF RunSdr
<1>2. CASE FullSignalled
  BY <1>2 DEF FullSignalled
<1>3. CASE CloseHalt
  BY <1>3 DEF CloseHalt, SimInv, Control
<1>4. CASE CloseHalting
  BY <1>4 DEF CloseHalting
<1>5. CASE GpsAcquire
  BY <1>5 DEF GpsAcquire
<1>6. CASE GpsEnqueue
  <2>1. sent < Blocks
    BY <1>6, LeftNat, Constants DEF GpsEnqueue, SimInv, Filling, SimTypeOK, TypeOK
  <2> QED BY <1>6, <2>1 DEF GpsEnqueue
<1>7. CASE SdrDequeue
  BY <1>7 DEF SdrDequeue
<1>8. CASE SdrTransmit
  BY <1>8 DEF SdrTransmit
<1>9. CASE JoinGps \/ JoinSdr \/ GainKey \/ SdrAfterDestroy
  BY <1>9 DEF JoinGps, JoinSdr, GainKey, SdrAfterDestroy
<1>10. CASE \/ SdrInitFails \/ CreateGps \/ AwaitGps \/ AwaitTimesOut \/ CheckGps
            \/ StartSdr \/ StartSdrFails \/ LeaveUi \/ CloseSdr \/ ExitKey \/ SignalHandler
  BY <1>10 DEF SdrInitFails, CreateGps, AwaitGps, AwaitTimesOut, CheckGps, StartSdr,
               StartSdrFails, LeaveUi, CloseSdr, ExitKey, SignalHandler
<1>11. CASE GpsInit \/ GpsInitFails \/ GpsLoop \/ GpsLeaves \/ GpsFill \/ GpsEnd
  BY <1>11 DEF GpsInit, GpsInitFails, GpsLoop, GpsLeaves, GpsFill, GpsEnd
<1>12. CASE SdrOpens \/ SdrLoop \/ SdrPushFails
  BY <1>12 DEF SdrOpens, SdrLoop, SdrPushFails
<1> QED
  BY <1>1, <1>2, <1>3, <1>4, <1>5, <1>6, <1>7, <1>8, <1>9, <1>10, <1>11, <1>12
  DEF SimNext, MainStep, GpsThread, SdrThread

(* Every kind of step keeps the types of the FIFO and what each thread does *)
(* in it, created or not.                                                   *)
LEMMA FifoTypes ==
    ASSUME SimInv, SimNext
    PROVE  TypeOK' /\ Roles'
<1>1. CASE SdrInit
  <2>1. freelist' \in Ref /\ nxt' \in [Buf -> Ref]
    BY <1>1 DEF SdrInit, Create, Ref
  <2> QED BY <1>1, <2>1 DEF SdrInit, Create, SimInv, SimTypeOK, TypeOK, FifoSound, Roles
<1>2. CASE CloseDestroy
  BY <1>2 DEF CloseDestroy, Destroy, SimInv, SimTypeOK, TypeOK, FifoSound, Roles, Ref
<1>3. CASE Segfault
  BY <1>3 DEF Segfault, ptrs, SimInv, SimTypeOK, TypeOK, FifoSound, Roles
<1>4. CASE [Next]_fifoVars
  BY <1>4, TypeStep, RolesStep DEF SimInv, SimTypeOK, FifoSound
<1> QED BY <1>1, <1>2, <1>3, <1>4, FifoKinds

-----------------------------------------------------------------------------
(* Control.                                                                 *)

(* A thread's calls leave the others where they are, with what they hold.   *)
LEMMA OthersUntouched ==
    ASSUME TypeOK, NEW t \in Thread, NEW u \in Thread, t # u,
           \/ Acquire(t) \/ AcquireResume(t) \/ Enqueue(t)
           \/ Dequeue(t) \/ DequeueResume(t) \/ Release(t)
           \/ WaitFull(t) \/ WaitFullResume(t)
           \/ HaltBegin(t) \/ HaltDrain(t) \/ HaltEnd(t)
    PROVE  at'[u] = at[u] /\ held'[u] = held[u]
<1> USE DEF TypeOK
<1>1. CASE Acquire(t) \/ AcquireResume(t)
  BY <1>1 DEF Acquire, AcquireResume, AcquireResult, PopFree, Crash, Wait
<1>2. CASE Enqueue(t) \/ Release(t)
  BY <1>2 DEF Enqueue, Release
<1>3. CASE Dequeue(t) \/ DequeueResume(t)
  BY <1>3 DEF Dequeue, DequeueResume, DequeueResult, PopHead, Crash, Wait
<1>4. CASE WaitFull(t) \/ WaitFullResume(t) \/ HaltBegin(t) \/ HaltDrain(t) \/ HaltEnd(t)
  BY <1>4 DEF WaitFull, WaitFullResume, HaltBegin, HaltDrain, HaltEnd, Wait
<1> QED BY <1>1, <1>2, <1>3, <1>4

LEMMA ControlStep ==
    ASSUME SimInv, SimNext
    PROVE  Control'
<1> USE Constants DEF Control, Starting, Closing, Created
<1>a. Control /\ TypeOK
  BY DEF SimInv, SimTypeOK
<1>1. CASE SdrInit
  BY <1>1, <1>a DEF SdrInit, Create, flags, work
<1>2. CASE SdrInitFails \/ CreateGps \/ AwaitGps \/ AwaitTimesOut \/ CheckGps
  BY <1>2, <1>a DEF SdrInitFails, CreateGps, AwaitGps, AwaitTimesOut, CheckGps, flags, fifoVars
<1>3. CASE RunSdr
  BY <1>3, <1>a, OthersUntouched DEF RunSdr, WaitFull, ptrs, flags
<1>4. CASE FullSignalled
  BY <1>4, <1>a, OthersUntouched DEF FullSignalled, WaitFullResume, ptrs, flags, progVars
<1>5. CASE StartSdr \/ StartSdrFails
  BY <1>5, <1>a DEF StartSdr, StartSdrFails, flags, fifoVars
<1>6. CASE LeaveUi \/ JoinGps \/ CloseSdr
  BY <1>6, <1>a DEF LeaveUi, JoinGps, CloseSdr, Segfault, flags, progVars, fifoVars, ptrs
<1>7. CASE CloseHalt
  BY <1>7, <1>a, OthersUntouched DEF CloseHalt, HaltBegin, ptrs, flags
<1>8. CASE CloseHalting
  <2>1. CASE HaltDrain(Main)
    <3>1. at'[Main] # "out" /\ mainPc' = "halting"
      BY <1>8, <2>1 DEF CloseHalting, HaltDrain
    <3> QED BY <1>8, <2>1, <3>1, <1>a, OthersUntouched DEF CloseHalting, HaltDrain, flags
  <2>2. CASE HaltEnd(Main)
    <3>1. at'[Main] = "out" /\ mainPc' = "destroy"
      BY <1>8, <2>2, <1>a DEF CloseHalting, HaltEnd, TypeOK
    <3> QED BY <1>8, <2>2, <3>1, <1>a, OthersUntouched DEF CloseHalting, HaltEnd, flags
  <2> QED BY <1>8, <2>1, <2>2 DEF CloseHalting
<1>9. CASE CloseDestroy
  BY <1>9, <1>a DEF CloseDestroy, Destroy, flags
<1>10. CASE JoinSdr
  BY <1>10, <1>a DEF JoinSdr, Segfault, flags, progVars, fifoVars, ptrs
<1>11. CASE ExitKey \/ GainKey \/ SignalHandler
  BY <1>11, <1>a DEF ExitKey, GainKey, SignalHandler, Segfault, progVars, fifoVars, ptrs
<1>12. CASE GpsInit \/ GpsInitFails \/ GpsLoop \/ GpsLeaves \/ GpsFill
  BY <1>12, <1>a DEF GpsInit, GpsInitFails, GpsLoop, GpsLeaves, GpsFill, SignalInitDone, flags, fifoVars
<1>13. CASE GpsAcquire
  <2>1. /\ gpsPc = "acquire" /\ gpsPc' \in {"acquire", "fill", "loop"}
        /\ UNCHANGED <<mainPc, sdrPc, halted, destroyed>>
    BY <1>13 DEF GpsAcquire, AfterAcquire, Acquire, AcquireResume
  <2>2. at'[Sdr] = at[Sdr] /\ held'[Sdr] = held[Sdr]
    BY <1>13, <1>a, OthersUntouched DEF GpsAcquire
  <2> QED BY <2>1, <2>2, <1>a
<1>14. CASE GpsEnqueue
  BY <1>14, <1>a, OthersUntouched
  DEF GpsEnqueue, Enqueue, EnqueueHalted, EnqueueFirst, EnqueueBehind, flags
<1>15. CASE GpsEnd
  BY <1>15, <1>a DEF GpsEnd, SignalInitDone, fifoVars
<1>16. CASE SdrOpens \/ SdrLoop \/ SdrPushFails \/ SdrAfterDestroy
  BY <1>16, <1>a DEF SdrOpens, SdrLoop, SdrPushFails, SdrAfterDestroy, Segfault, flags, progVars, fifoVars, ptrs
<1>17. CASE SdrDequeue
  BY <1>17, <1>a, OthersUntouched
  DEF SdrDequeue, Dequeue, DequeueResume, DequeueResult, PopHead, Crash, ptrs, flags
<1>18. CASE SdrTransmit
  BY <1>18, <1>a, OthersUntouched DEF SdrTransmit, Release, flags
<1> QED
  BY <1>1, <1>2, <1>3, <1>4, <1>5, <1>6, <1>7, <1>8, <1>9, <1>10, <1>11, <1>12,
     <1>13, <1>14, <1>15, <1>16, <1>17, <1>18
  DEF SimNext, MainStep, GpsThread, SdrThread

-----------------------------------------------------------------------------
(* The FIFO.                                                                *)

(* No step takes place after a crash. *)
LEMMA StepsAlive == SimNext => ~crashed
BY DEF SimNext, MainStep, GpsThread, SdrThread, Alive, SdrInit, SdrInitFails, CreateGps, AwaitGps,
       AwaitTimesOut, CheckGps, RunSdr, FullSignalled, StartSdr, StartSdrFails, LeaveUi, JoinGps,
       CloseSdr, CloseHalt, CloseHalting, CloseDestroy, JoinSdr, GpsInit, GpsInitFails, GpsAcquire,
       GpsLoop, GpsLeaves, GpsFill, GpsEnqueue, GpsEnd, SdrOpens, SdrLoop, SdrDequeue, SdrTransmit,
       SdrPushFails, SdrAfterDestroy, ExitKey, GainKey, SignalHandler

(* The FIFO is created once. *)
LEMMA CreatedOnce ==
    ASSUME SimInv, SimNext, Created', ~SdrInit
    PROVE  Created
<1> SUFFICES ASSUME ~Created PROVE FALSE
  OBVIOUS
<1> USE DEF Created, SimInv, Control
<1>1. CASE MainStep \/ ExitKey \/ GainKey \/ SignalHandler
  BY <1>1 DEF MainStep, SdrInitFails, CreateGps, AwaitGps, AwaitTimesOut, CheckGps, RunSdr,
              FullSignalled, StartSdr, StartSdrFails, LeaveUi, JoinGps, CloseSdr, CloseHalt,
              CloseHalting, CloseDestroy, JoinSdr, ExitKey, GainKey, SignalHandler, Segfault, progVars
<1>2. CASE GpsThread
  BY <1>2 DEF GpsThread, GpsInit, GpsInitFails, GpsAcquire, GpsLoop, GpsLeaves, GpsFill,
              GpsEnqueue, GpsEnd
<1>3. CASE SdrThread
  BY <1>3 DEF SdrThread, SdrOpens, SdrLoop, SdrDequeue, SdrTransmit, SdrPushFails, SdrAfterDestroy,
              Segfault, progVars
<1> QED BY <1>1, <1>2, <1>3 DEF SimNext

(* Creation puts all blocks on the freelist and nobody waits; destruction   *)
(* comes after the halt, when nothing is promised any more; before the      *)
(* creation nobody is in the FIFO.                                          *)
LEMMA SoundStep ==
    ASSUME Spurious = FALSE, SimInv, SimNext
    PROVE  FifoSound'
<1> USE Constants
<1>a. TypeOK' /\ Roles' /\ Control'
  BY FifoTypes, ControlStep
<1>b. ~crashed
  BY StepsAlive
<1>c. TypeOK /\ Roles /\ Sleep /\ Woken /\ Control
  BY <1>b DEF SimInv, SimTypeOK, FifoSound, Sleep, Woken, NoNullBlock
<1> USE DEF FifoSound, SleepersHaveReason, NoStandoff, WokenHaveReason, TailSet, Sleeping,
            GpsSleeps, SdrSleeps
<1>1. CASE ~Created'
  BY <1>1, <1>a DEF Control, Created
<1>2. CASE SdrInit
  <2>1. /\ at' = at /\ woken' = woken /\ head' = NULL /\ freelist' # NULL
        /\ at[Gps] = "out" /\ at[Sdr] = "out"
    BY <1>2, <1>c DEF SdrInit, Create, Control, Created
  <2> QED BY <2>1, <1>a DEF Circulates
<1>3. CASE CloseDestroy
  <2>1. halted'
    BY <1>3, <1>c DEF CloseDestroy, Destroy, Control
  <2>2. head' = NULL
    BY <1>3 DEF CloseDestroy, Destroy
  <2> QED BY <2>1, <2>2, <1>a DEF Circulates, Running
<1>4. CASE Segfault
  BY <1>4, <1>a DEF Segfault, SimInv, ptrs, progVars, Created, Circulates, Running, Unlocked
<1>5. CASE Created' /\ ~SdrInit /\ [Next]_fifoVars
  <2>1. Circulates
    BY <1>5, CreatedOnce DEF SimInv
  <2>2. Circulates' /\ Sleep' /\ Woken'
    BY <1>5, <1>c, <2>1, CirculatesStep, SleepStep, WokenStep
  <2> QED BY <2>2, <1>a DEF Sleep, Woken
<1> QED BY <1>1, <1>2, <1>3, <1>4, <1>5, FifoKinds

-----------------------------------------------------------------------------
(* The blocks.                                                              *)

(* Calls of the FIFO other than fifo_enqueue send no block. *)
LEMMA NotSent ==
    ASSUME NEW t \in Thread,
           \/ Acquire(t) \/ AcquireResume(t) \/ Dequeue(t) \/ DequeueResume(t) \/ Release(t)
           \/ WaitFull(t) \/ WaitFullResume(t) \/ HaltBegin(t) \/ HaltDrain(t) \/ HaltEnd(t)
    PROVE  sent' = sent
BY DEF Acquire, AcquireResume, Dequeue, DequeueResume, Release, WaitFull, WaitFullResume,
       HaltBegin, HaltDrain, HaltEnd

(* What the filling of blocks depends on. *)
fillVars == <<gpsPc, radio, iumd, todo, filled, sent>>

(* The steps of main and of the consumer leave it alone, but for the        *)
(* creation of the thread.                                                  *)
LEMMA OthersFill ==
    ASSUME SimInv, MainStep \/ SdrThread \/ ExitKey \/ GainKey \/ SignalHandler, ~CreateGps
    PROVE  UNCHANGED fillVars
<1> USE Constants, NotSent DEF fillVars
<1>1. CASE RunSdr \/ FullSignalled \/ CloseHalt \/ CloseHalting \/ SdrDequeue \/ SdrTransmit
  BY <1>1 DEF RunSdr, FullSignalled, CloseHalt, CloseHalting, SdrDequeue, SdrTransmit, progVars, work
<1>2. CASE SdrInit \/ CloseDestroy
  BY <1>2 DEF SdrInit, Create, CloseDestroy, Destroy, work
<1>3. CASE JoinGps \/ JoinSdr \/ GainKey \/ SdrAfterDestroy
  BY <1>3 DEF JoinGps, JoinSdr, GainKey, SdrAfterDestroy, Segfault, progVars, work, fifoVars
<1>4. CASE \/ SdrInitFails \/ AwaitGps \/ AwaitTimesOut \/ CheckGps
           \/ StartSdr \/ StartSdrFails \/ LeaveUi \/ CloseSdr \/ ExitKey \/ SignalHandler
  BY <1>4 DEF SdrInitFails, AwaitGps, AwaitTimesOut, CheckGps, StartSdr, StartSdrFails, LeaveUi,
              CloseSdr, ExitKey, SignalHandler, work, fifoVars
<1>5. CASE SdrOpens \/ SdrLoop \/ SdrPushFails
  BY <1>5 DEF SdrOpens, SdrLoop, SdrPushFails, work, fifoVars
<1> QED BY <1>1, <1>2, <1>3, <1>4, <1>5 DEF MainStep, SdrThread

FillTypes == iumd \in 0..NumD /\ todo \in 0..IqSize /\ filled \in Nat

LEMMA FillingStep ==
    ASSUME SimInv, SimNext
    PROVE  FillTypes' /\ Filling' /\ NoOverrun'
<1> USE Sizes, Constants DEF FillTypes, Filling, NoOverrun, Capacity
<1>a. /\ FillTypes /\ Filling /\ NoOverrun
      /\ sent \in Nat /\ Blocks \in Nat /\ todo \in Nat /\ iumd \in Nat
      /\ gpsPc \in GpsPcs
  BY DEF SimInv, SimTypeOK, TypeOK
<1>1. CASE UNCHANGED fillVars
  BY <1>1, <1>a DEF fillVars, Left
<1>2. CASE CreateGps
  BY <1>2, <1>a DEF Left, CreateGps, work, fifoVars, SimInv, Control
<1>3. CASE GpsInit
  <2>1. iumd = 0 /\ todo = 0 /\ iumd' = 1 /\ todo' = 0 /\ filled' = filled /\ sent' = sent
    BY <1>3, <1>a DEF GpsInit, fifoVars
  <2>2. gpsPc = "init" /\ gpsPc' = "acquire" /\ radio' = radio
    BY <1>3 DEF GpsInit
  <2>3. (NumD - 1) * IqSize = NumD * IqSize - IqSize /\ NumD * IqSize \in Nat
    BY Rounds
  <2> QED BY <2>1, <2>2, <2>3, <1>a DEF Left
<1>4. CASE GpsInitFails \/ GpsLeaves \/ GpsEnd
  BY <1>4, <1>a DEF Left, GpsInitFails, GpsLeaves, GpsEnd, work, fifoVars
<1>5. CASE GpsAcquire
  <2>1. sent' = sent /\ UNCHANGED <<radio, iumd, todo>> /\ filled' = 0
    BY <1>5, NotSent DEF GpsAcquire, AfterAcquire
  <2>2. /\ gpsPc = "acquire" /\ gpsPc' \in {"acquire", "fill", "loop"}
        /\ (gpsPc' = "fill" => todo > 0) /\ (gpsPc' = "loop" => ~(todo > 0))
    BY <1>5 DEF GpsAcquire, AfterAcquire
  <2> QED BY <2>1, <2>2, <1>a DEF Left
<1>6. CASE GpsLoop
  <2>1. /\ gpsPc = "loop" /\ gpsPc' = "fill" /\ iumd < NumD
        /\ todo = 0 /\ todo' = IqSize
        /\ UNCHANGED <<radio, iumd, filled, sent>>
    BY <1>6, <1>a DEF GpsLoop, fifoVars
  <2> QED BY <2>1, <1>a DEF Left
<1>7. CASE GpsFill
  <2>1. /\ gpsPc = "fill" /\ todo > 0 /\ iumd < NumD /\ sent' = sent /\ radio' = radio
        /\ filled' = filled + Copied /\ todo' = todo - Copied
        /\ gpsPc' = IF radio # "hackrf" \/ filled' = Transfer THEN "enqueue" ELSE "loop"
        /\ iumd' = IF todo' = 0 THEN iumd + 1 ELSE iumd
    BY <1>7, <1>a DEF GpsFill, fifoVars
  <2>2. /\ Copied \in Nat /\ 1 <= Copied /\ Copied <= todo
        /\ radio # "hackrf" => Copied = todo /\ filled = 0
        /\ radio = "hackrf" => /\ filled + Copied <= Transfer
                               /\ filled + Copied < Transfer => Copied = todo
    BY <2>1, <1>a DEF Copied
  <2>3. FillTypes' /\ NoOverrun'
    BY <2>1, <2>2, <1>a
  <2>4. Left' <= Left - 1
    <3>1. (NumD - iumd - 1) * IqSize = (NumD - iumd) * IqSize - IqSize /\ (NumD - iumd) * IqSize \in Int
      BY Rounds, <1>a
    <3>2. CASE todo' = 0
      <4>1. Left' = (NumD - iumd - 1) * IqSize
        BY <3>2, <2>1, <1>a DEF Left
      <4>2. Left = (NumD - iumd) * IqSize - (IqSize - todo)
        BY <2>1 DEF Left
      <4> QED BY <4>1, <4>2, <3>1, <2>1, <1>a
    <3>3. CASE todo' # 0
      <4>1. Left' = (NumD - iumd) * IqSize - (IqSize - todo')
        BY <3>3, <2>1, <2>2, <1>a DEF Left
      <4>2. Left = (NumD - iumd) * IqSize - (IqSize - todo)
        BY <2>1 DEF Left
      <4> QED BY <4>1, <4>2, <3>1, <2>1, <2>2, <1>a
    <3> QED BY <3>2, <3>3
  <2>5. Left \in Int /\ Left' \in Int
    BY <2>1, <2>2, <2>3, <1>a DEF Left
  <2>6. sent' + (IF gpsPc' = "enqueue" THEN 1 ELSE 0) + Left' <= Blocks
    <3>1. sent + Left <= Blocks
      BY <2>1, <1>a
    <3>2. sent' = sent /\ sent \in Int /\ Blocks \in Int
      BY <2>1, <1>a
    <3>3. (IF gpsPc' = "enqueue" THEN 1 ELSE 0) \in 0..1
      OBVIOUS
    <3> QED BY <3>1, <3>2, <3>3, <2>4, <2>5, Spend
  <2>7. todo' > 0 => iumd' < NumD
    BY <2>1, <2>2, <1>a
  <2>8. gpsPc' = "loop" => todo' = 0
    BY <2>1, <2>2, <1>a
  <2> QED BY <2>1, <2>2, <2>3, <2>6, <2>7, <2>8, <1>a
<1>8. CASE GpsEnqueue
  <2>1. /\ gpsPc = "enqueue" /\ gpsPc' = "acquire" /\ sent' = sent + 1
        /\ UNCHANGED <<radio, iumd, todo, filled>>
    BY <1>8 DEF GpsEnqueue, Enqueue, work
  <2> QED BY <2>1, <1>a DEF Left
<1>9. CASE (MainStep \/ SdrThread \/ ExitKey \/ GainKey \/ SignalHandler) /\ ~CreateGps
  BY <1>9, <1>1, OthersFill
<1> QED BY <1>2, <1>3, <1>4, <1>5, <1>6, <1>7, <1>8, <1>9 DEF SimNext, GpsThread

-----------------------------------------------------------------------------
(* The remaining parts of the invariant.                                    *)

CtrlTypes == /\ mainPc \in MainPcs /\ gpsPc \in GpsPcs /\ sdrPc \in SdrPcs /\ radio \in Radios
             /\ mainExit \in BOOLEAN /\ gpsExit \in BOOLEAN /\ gpsRunning \in BOOLEAN
             /\ timedOut \in BOOLEAN /\ sdrExit \in BOOLEAN

(* The flags that end the wait for gps_init_done are never taken back, and  *)
(* the GPS thread sets one of them before it signals.                       *)
LEMMA CtrlStep ==
    ASSUME SimInv, SimNext
    PROVE  CtrlTypes' /\ ReadyMeansRunning'
<1> USE DEF CtrlTypes, ReadyMeansRunning, MainPcs, GpsPcs, SdrPcs
<1>a. CtrlTypes /\ ReadyMeansRunning
  BY DEF SimInv, SimTypeOK
<1>1. CASE SdrInit \/ SdrInitFails \/ CreateGps \/ AwaitGps \/ AwaitTimesOut \/ CheckGps
  BY <1>1, <1>a, ZenonT(60) DEF SdrInit, SdrInitFails, CreateGps, AwaitGps, AwaitTimesOut, CheckGps, flags
<1>2. CASE RunSdr \/ FullSignalled \/ StartSdr \/ StartSdrFails
  <2>1. CASE RunSdr
    BY <2>1, <1>a DEF RunSdr, flags
  <2>2. CASE FullSignalled
    BY <2>2, <1>a DEF FullSignalled, flags, progVars
  <2>3. CASE StartSdr
    BY <2>3, <1>a DEF StartSdr, flags
  <2>4. CASE StartSdrFails
    BY <2>4, <1>a DEF StartSdrFails, flags
  <2> QED BY <1>2, <2>1, <2>2, <2>3, <2>4
<1>3. CASE LeaveUi \/ JoinGps \/ CloseSdr \/ CloseHalt
  <2>1. CASE LeaveUi
    BY <2>1, <1>a DEF LeaveUi, flags
  <2>2. CASE JoinGps
    BY <2>2, <1>a DEF JoinGps, flags, Segfault, progVars
  <2>3. CASE CloseSdr
    BY <2>3, <1>a DEF CloseSdr, flags
  <2>4. CASE CloseHalt
    BY <2>4, <1>a DEF CloseHalt, flags
  <2> QED BY <1>3, <2>1, <2>2, <2>3, <2>4
<1>4. CASE CloseHalting \/ CloseDestroy \/ JoinSdr
  BY <1>4, <1>a DEF CloseHalting, CloseDestroy, JoinSdr, Segfault, flags, progVars
<1>5. CASE ExitKey \/ GainKey \/ SignalHandler
  <2>1. CASE ExitKey
    BY <2>1, <1>a DEF ExitKey, flags
  <2>2. CASE GainKey
    BY <2>2, <1>a DEF GainKey, flags, Segfault, progVars
  <2>3. CASE SignalHandler
    BY <2>3, <1>a DEF SignalHandler, flags
  <2> QED BY <1>5, <2>1, <2>2, <2>3
<1>6. CASE GpsInit \/ GpsInitFails \/ GpsAcquire \/ GpsLeaves \/ GpsFill \/ GpsEnqueue
  BY <1>6, <1>a DEF GpsInit, GpsInitFails, GpsAcquire, AfterAcquire, GpsLeaves, GpsFill, GpsEnqueue, flags
<1>7. CASE GpsLoop \/ GpsEnd
  BY <1>7, <1>a, ZenonT(60) DEF GpsLoop, GpsEnd, SignalInitDone
<1>8. CASE SdrThread
  BY <1>8, <1>a DEF SdrThread, SdrOpens, SdrLoop, SdrDequeue, SdrTransmit, SdrPushFails,
                    SdrAfterDestroy, Segfault, flags, progVars
<1> QED BY <1>1, <1>2, <1>3, <1>4, <1>5, <1>6, <1>7, <1>8 DEF SimNext, MainStep, GpsThread

(* fifo_acquire returns a block: it did not wait, or was woken by a release *)
(* that nobody else profits from, and it is not halted.                     *)
LEMMA AcquireGives ==
    ASSUME SimInv, GpsAcquire, at'[Gps] = "out"
    PROVE  held'[Gps] # NULL
<1> USE Constants
<1>1. ~halted /\ TypeOK /\ WokenHaveReason
  BY DEF GpsAcquire, SimInv, SimTypeOK, Control, FifoSound, Closing
<1>2. freelist # NULL
  <2>1. CASE Acquire(Gps)
    BY <1>1, <2>1 DEF Acquire, Wait, TypeOK
  <2>2. CASE AcquireResume(Gps)
    BY <1>1, <2>2 DEF AcquireResume, WokenHaveReason, Running, Usable
  <2> QED BY <2>1, <2>2 DEF GpsAcquire
<1>3. AcquireResult(Gps)
  BY <1>1, <1>2 DEF GpsAcquire, Acquire, AcquireResume
<1> QED BY <1>1, <1>2, <1>3 DEF AcquireResult, PopFree, TypeOK

LEMMA HasBlockStep ==
    ASSUME SimInv, SimNext
    PROVE  GpsHasBlock'
<1> USE Constants DEF GpsHasBlock
<1>a. GpsHasBlock /\ TypeOK
  BY DEF SimInv, SimTypeOK
<1>1. CASE GpsAcquire
  BY <1>1, AcquireGives DEF GpsAcquire, AfterAcquire
<1>2. CASE GpsEnqueue
  BY <1>2 DEF GpsEnqueue
<1>3. CASE GpsInit \/ GpsInitFails \/ GpsLoop \/ GpsLeaves \/ GpsFill \/ GpsEnd
  BY <1>3, <1>a DEF GpsInit, GpsInitFails, GpsLoop, GpsLeaves, GpsFill, GpsEnd, fifoVars
<1>4. CASE (MainStep \/ SdrThread \/ ExitKey \/ GainKey \/ SignalHandler) /\ ~CreateGps
  <2>1. gpsPc' = gpsPc
    BY <1>4, OthersFill DEF fillVars
  <2>2. held'[Gps] = held[Gps]
    <3>1. CASE RunSdr \/ FullSignalled \/ CloseHalt \/ CloseHalting \/ SdrDequeue \/ SdrTransmit
      BY <3>1, <1>a, OthersUntouched DEF RunSdr, FullSignalled, CloseHalt, CloseHalting, SdrDequeue, SdrTransmit
    <3>2. CASE SdrInit \/ CloseDestroy \/ Segfault
      BY <3>2 DEF SdrInit, Create, CloseDestroy, Destroy, Segfault
    <3>3. CASE UNCHANGED fifoVars
      BY <3>3 DEF fifoVars
    <3> QED
      BY <1>4, <3>1, <3>2, <3>3
      DEF MainStep, SdrThread, SdrInitFails, CreateGps, AwaitGps, AwaitTimesOut, CheckGps, StartSdr,
          StartSdrFails, LeaveUi, JoinGps, CloseSdr, JoinSdr, SdrOpens, SdrLoop, SdrPushFails,
          SdrAfterDestroy, ExitKey, GainKey, SignalHandler
  <2> QED BY <2>1, <2>2, <1>a
<1>5. CASE CreateGps
  BY <1>5 DEF CreateGps
<1> QED BY <1>1, <1>2, <1>3, <1>4, <1>5 DEF SimNext, GpsThread

(* Main is woken from fifo_wait_full by the GPS thread that goes to sleep,  *)
(* and only the consumer, not yet there, could wake that one.               *)
LEMMA PrefillStep ==
    ASSUME SimInv, SimNext
    PROVE  Prefill'
<1> SUFFICES ASSUME mainPc' = "start_sdr", (at[Main] = "out" \/ Main \in woken)'
             PROVE  freelist' = NULL /\ at'[Gps] = "acquire" /\ Gps \notin woken'
  BY DEF Prefill
<1> USE Constants
<1>a. TypeOK /\ Roles /\ Prefill /\ Control
  BY DEF SimInv, SimTypeOK, FifoSound
<1>b. mainPc = "start_sdr" => sdrPc = "absent"
  BY <1>a DEF Control, Starting
<1>1. CASE RunSdr
  <2>1. ~halted
    BY <1>1, <1>a DEF RunSdr, Control
  <2>2. at'[Main] = "wait_full" /\ woken' = woken /\ at[Main] = "out"
    BY <1>1, <2>1, <1>a DEF RunSdr, WaitFull, Wait, TypeOK
  <2> QED BY <2>2, <1>a DEF Roles, Blocking
<1>2. CASE FullSignalled
  BY <1>2, <1>a DEF FullSignalled, WaitFullResume, Prefill, TypeOK, ptrs, progVars
<1>3. CASE GpsAcquire
  <2>1. mainPc = "start_sdr"
    BY <1>3 DEF GpsAcquire
  <2>2. CASE Acquire(Gps)
    <3>1. at[Gps] = "out" /\ Gps \notin woken /\ at[Main] # "out" /\ Main \notin woken
      BY <2>1, <2>2, <1>a DEF Acquire, Roles, Prefill, Blocking
    <3>2. at'[Main] = at[Main]
      BY <2>2, <1>a, OthersUntouched
    <3>3. ~halted /\ freelist = NULL
      BY <2>2, <3>1, <3>2 DEF Acquire
    <3>4. Gps \notin woken'
      BY <2>2, <3>1, <3>3 DEF Acquire, Signal, Waiting
    <3> QED BY <2>2, <3>3, <3>4, <1>a DEF Acquire, Wait, TypeOK, ptrs
  <2>3. CASE AcquireResume(Gps)
    <3>1. at[Main] # "out" /\ Main \notin woken
      BY <2>1, <2>3, <1>a DEF AcquireResume, Prefill
    <3>2. at'[Main] = at[Main] /\ Main \notin woken'
      BY <2>3, <3>1, <1>a, OthersUntouched DEF AcquireResume
    <3> QED BY <3>1, <3>2
  <2> QED BY <1>3, <2>2, <2>3 DEF GpsAcquire
<1>4. CASE GpsEnqueue
  <2>1. mainPc = "start_sdr" /\ at[Gps] = "out"
    BY <1>4 DEF GpsEnqueue, Enqueue
  <2>2. at[Main] # "out" /\ Main \notin woken
    BY <2>1, <1>a DEF Prefill
  <2>3. Main \notin woken'
    BY <1>4, <2>2, <1>a
    DEF GpsEnqueue, Enqueue, EnqueueHalted, EnqueueFirst, EnqueueBehind, Signal, Waiting, Roles
  <2> QED BY <2>2, <2>3, <1>4, <1>a, OthersUntouched DEF GpsEnqueue
<1>5. CASE UNCHANGED <<mainPc, freelist, at, woken>>
  BY <1>5, <1>a DEF Prefill
<1>6. CASE GpsInit \/ GpsInitFails \/ GpsLoop \/ GpsLeaves \/ GpsFill \/ GpsEnd
  BY <1>6, <1>5 DEF GpsInit, GpsInitFails, GpsLoop, GpsLeaves, GpsFill, GpsEnd, SignalInitDone, fifoVars
<1>7. CASE SdrThread
  <2>1. mainPc' = mainPc /\ sdrPc # "absent"
    BY <1>7 DEF SdrThread, SdrOpens, SdrLoop, SdrDequeue, SdrTransmit, SdrPushFails, SdrAfterDestroy,
                Segfault, progVars
  <2> QED BY <2>1, <1>b
<1>8. CASE JoinGps \/ JoinSdr \/ ExitKey \/ GainKey \/ SignalHandler
  BY <1>8, <1>5 DEF JoinGps, JoinSdr, ExitKey, GainKey, SignalHandler, Segfault, fifoVars, progVars, ptrs
<1>9. CASE \/ SdrInit \/ SdrInitFails \/ CreateGps \/ AwaitGps \/ AwaitTimesOut \/ CheckGps
           \/ StartSdr \/ StartSdrFails \/ LeaveUi \/ CloseSdr \/ CloseHalt \/ CloseHalting \/ CloseDestroy
  BY <1>9 DEF SdrInit, SdrInitFails, CreateGps, AwaitGps, AwaitTimesOut, CheckGps, StartSdr,
              StartSdrFails, LeaveUi, CloseSdr, CloseHalt, CloseHalting, CloseDestroy
<1> QED BY <1>1, <1>2, <1>3, <1>4, <1>6, <1>7, <1>8, <1>9 DEF SimNext, MainStep, GpsThread

-----------------------------------------------------------------------------
(* The invariant and the theorems.                                          *)

LEMMA SimInvInit == SimInit => SimInv
<1> SUFFICES ASSUME SimInit PROVE SimInv
  OBVIOUS
<1> USE Constants DEF SimInit
<1>1. SimTypeOK
  <2>1. TypeOK
    <3>1. NULL \in Ref /\ "out" \in Call
      BY DEF Ref, Call
    <3>2. nxt \in [Buf -> Ref] /\ held \in [Thread -> Ref] /\ at \in [Thread -> Call]
      BY <3>1
    <3>3. payload \in [Buf -> 0..Blocks] /\ sent \in 0..Blocks /\ taken \in 0..Blocks
      OBVIOUS
    <3>4. woken \subseteq Thread
      OBVIOUS
    <3> QED BY <3>1, <3>2, <3>3, <3>4 DEF TypeOK
  <2>2. iumd \in 0..NumD /\ todo \in 0..IqSize /\ filled \in Nat
    BY Sizes
  <2> QED BY <2>1, <2>2 DEF SimTypeOK, MainPcs, GpsPcs, SdrPcs
<1>2. Control /\ Prefill
  BY DEF Control, Prefill, Starting, Closing, Created
<1>3. FifoSound
  BY DEF FifoSound, Roles, Created, SleepersHaveReason, NoStandoff, WokenHaveReason, TailSet,
         GpsSleeps, SdrSleeps, Sleeping
<1>4. Filling
  <2>1. NumD * IqSize \in Nat
    BY Rounds, Sizes
  <2>2. sent = 0 /\ gpsPc = "absent" /\ iumd = 0 /\ todo = 0
    OBVIOUS
  <2>3. Left = NumD * IqSize
    BY <2>1, <2>2, Sizes DEF Left
  <2> QED BY <2>1, <2>2, <2>3, Sizes DEF Filling
<1>5. GpsHasBlock /\ NoOverrun /\ ReadyMeansRunning
  BY Sizes DEF GpsHasBlock, NoOverrun, Capacity, ReadyMeansRunning
<1> QED BY <1>1, <1>2, <1>3, <1>4, <1>5 DEF SimInv

LEMMA SimInvStep ==
    ASSUME Spurious = FALSE
    PROVE  SimInv /\ [SimNext]_vars => SimInv'
<1>1. ASSUME SimInv, SimNext PROVE SimInv'
  <2>1. SimTypeOK'
    BY <1>1, FifoTypes, CtrlStep, FillingStep DEF SimTypeOK, CtrlTypes, FillTypes
  <2> QED
    BY <1>1, <2>1, ControlStep, SoundStep, FillingStep, PrefillStep, HasBlockStep, CtrlStep DEF SimInv
<1>2. ASSUME SimInv, UNCHANGED vars PROVE SimInv'
  <2> USE <1>2 DEF vars, fifoVars, progVars, flags, work, SimInv
  <2>1. SimTypeOK' /\ Control' /\ Prefill'
    BY DEF SimTypeOK, TypeOK, Control, Created, Prefill
  <2>2. FifoSound'
    BY DEF FifoSound, Roles, Created, Circulates, SleepersHaveReason, NoStandoff, WokenHaveReason,
           TailSet, GpsSleeps, SdrSleeps, Sleeping, Running, Unlocked
  <2>3. Filling' /\ GpsHasBlock' /\ NoOverrun' /\ ReadyMeansRunning'
    BY DEF Filling, Left, GpsHasBlock, NoOverrun, Capacity, ReadyMeansRunning
  <2> QED BY <2>1, <2>2, <2>3
<1> QED BY <1>1, <1>2

LEMMA SimInvariant == ASSUME Spurious = FALSE PROVE SimSpec => []SimInv
BY SimInvInit, SimInvStep, PTL DEF SimSpec

(* Type correctness of the whole program: iumd stays within the motion      *)
(* points, a round copies no more samples than it computed.                 *)
THEOREM SimTypes == ASSUME Spurious = FALSE PROVE SimSpec => []SimTypeOK
<1>1. SimInv => SimTypeOK
  BY DEF SimInv
<1> QED BY <1>1, SimInvariant, PTL

(* The GPS thread never writes through a null pointer, although it does not *)
(* test what fifo_acquire returns.                                          *)
THEOREM HasBlock == ASSUME Spurious = FALSE PROVE SimSpec => []GpsHasBlock
<1>1. SimInv => GpsHasBlock
  BY DEF SimInv
<1> QED BY <1>1, SimInvariant, PTL

(* No block overflows, for every size of the blocks and of the IQ buffer.   *)
THEOREM BlocksFit == ASSUME Spurious = FALSE PROVE SimSpec => []NoOverrun
<1>1. SimInv => NoOverrun
  BY DEF SimInv
<1> QED BY <1>1, SimInvariant, PTL

(* The consumer starts on a full FIFO, whatever the number of blocks.       *)
THEOREM Prefilled == ASSUME Spurious = FALSE PROVE SimSpec => []PrefilledStart
<1>1. SimInv => PrefilledStart
  BY DEF SimInv, Prefill, PrefilledStart
<1> QED BY <1>1, SimInvariant, PTL

(* Past its wait main knows how the GPS thread fares. *)
THEOREM Ready == ASSUME Spurious = FALSE PROVE SimSpec => []ReadyMeansRunning
<1>1. SimInv => ReadyMeansRunning
  BY DEF SimInv
<1> QED BY <1>1, SimInvariant, PTL

LEMMA AwakeInProgram ==
    ASSUME SimInv, SimNext, EndAwaited, AwakeAfterHalt
    PROVE  EndAwaited' /\ AwakeAfterHalt'
<1> USE DEF EndAwaited, AwakeAfterHalt, Running, Unlocked, Sleeping
<1>1. CASE SdrInit
  BY <1>1 DEF SdrInit, Create
<1>2. CASE CloseDestroy
  BY <1>2 DEF CloseDestroy, Destroy, SimInv, Control
<1>3. CASE Segfault
  BY <1>3 DEF Segfault, ptrs
<1>4. CASE [Next]_fifoVars
  <2>1. TypeOK /\ Roles
    BY DEF SimInv, SimTypeOK, FifoSound
  <2> QED BY <2>1, <1>4, EndAwaitedStep, AwakeStep
<1> QED BY <1>1, <1>2, <1>3, <1>4, FifoKinds

(* In the whole program no thread sleeps in the FIFO past its reason: the   *)
(* GPS thread only while no block is free, the consumer only while none is  *)
(* queued, and nobody once main has halted the FIFO.                        *)
THEOREM ProgramAwake == ASSUME Spurious = FALSE PROVE SimSpec => []NoLostWakeup
<1>1. SimInit => EndAwaited /\ AwakeAfterHalt
  BY Constants DEF SimInit, EndAwaited, AwakeAfterHalt, Sleeping, Blocking
<1>2. SimInv /\ EndAwaited /\ AwakeAfterHalt /\ [SimNext]_vars => EndAwaited' /\ AwakeAfterHalt'
  <2>1. ASSUME UNCHANGED vars, EndAwaited, AwakeAfterHalt PROVE EndAwaited' /\ AwakeAfterHalt'
    BY <2>1 DEF vars, fifoVars, EndAwaited, AwakeAfterHalt, Running, Unlocked, Sleeping
  <2> QED BY <2>1, AwakeInProgram
<1>3. SimInv /\ EndAwaited /\ AwakeAfterHalt => NoLostWakeup
  BY DEF SimInv, FifoSound, NoLostWakeup
<1> QED BY <1>1, <1>2, <1>3, SimInvariant, PTL DEF SimSpec

(* The program uses the FIFO as module Fifo assumes, so that the theorems   *)
(* on the FIFO speak of this program.                                       *)
THEOREM CallsObey == ASSUME Spurious = FALSE PROVE SimSpec => ObeysFifo
<1>1. SimInv /\ [SimNext]_vars => [Create \/ Next \/ Destroy \/ crashed']_fifoVars
  <2>1. ASSUME SimInv, SimNext PROVE [Create \/ Next \/ Destroy \/ crashed']_fifoVars
    BY <2>1, FifoKinds DEF SdrInit, CloseDestroy, Segfault
  <2>2. UNCHANGED vars => UNCHANGED fifoVars
    BY DEF vars
  <2> QED BY <2>1, <2>2
<1> QED BY <1>1, SimInvariant, PTL DEF SimSpec, ObeysFifo

(* No call of the FIFO in the whole program uses a null pointer. *)
THEOREM NullSafe == ASSUME Spurious = FALSE PROVE SimSpec => NoNullUse
<1>1. SimInv /\ [SimNext]_vars => [crashed' # crashed => Segfault]_vars
  <2>1. ASSUME SimInv, SimNext, crashed' # crashed PROVE Segfault
    <3>1. ~crashed
      BY <2>1, StepsAlive
    <3>2. TypeOK /\ Roles /\ Sleep /\ Woken
      BY <2>1, <3>1 DEF SimInv, SimTypeOK, FifoSound, Sleep, Woken, NoNullBlock
    <3>3. CASE SdrInit \/ CloseDestroy
      BY <3>3, <2>1 DEF SdrInit, Create, CloseDestroy, Destroy
    <3>4. CASE [Next]_fifoVars
      <4>1. ~crashed'
        BY <3>2, <3>4, WokenStep DEF Woken, NoNullBlock
      <4>2. crashed \in BOOLEAN /\ crashed' \in BOOLEAN
        BY <2>1, <3>2, FifoTypes DEF TypeOK
      <4> QED BY <4>1, <4>2, <3>1, <2>1
    <3> QED BY <2>1, <3>3, <3>4, FifoKinds
  <2> QED BY <2>1
<1> QED BY <1>1, SimInvariant, PTL DEF SimSpec, NoNullUse

=============================================================================
