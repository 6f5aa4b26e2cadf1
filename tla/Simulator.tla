------------------------------ MODULE Simulator ------------------------------
(* The threads of the program around the FIFO: main() of gps-sim.c, the GPS *)
(* thread of gps.c and the consumer that the chosen radio brings along (the *)
(* iqfile thread, the Pluto thread, or the libusb thread that runs the      *)
(* HackRF callback).  Start-up, streaming and shutdown are modelled down to *)
(* each flag, signal, join and FIFO call; satellites, samples and screens   *)
(* are not.  Operators marked "Fault" are slips the program could contain,  *)
(* as in module Fifo.                                                       *)
EXTENDS Fifo

CONSTANTS Radios,    \* radios the user may choose with --radio
          Faults,    \* what may fail outside this program
          NumD,      \* numd: user motion points, one IQ buffer for each but the first
          IqSize,    \* IQ_BUFFER_SIZE: samples generated per motion point
          Transfer   \* HACKRF_TRANSFER_BUFFER_SIZE: samples in a block of the HackRF

AllRadios == {"none", "iqfile", "hackrf", "pluto"}
AllFaults == {"sdr_init", "gps_init", "fopen", "push", "start_tx"}

ASSUME RadiosAssumption == Radios \subseteq AllRadios /\ Faults \subseteq AllFaults
ASSUME SizesAssumption == /\ NumD \in Nat \ {0}
                          /\ IqSize \in Nat \ {0} /\ Transfer \in Nat \ {0}
(* Blocks only bounds the numbering of blocks: it is large enough for both  *)
(* block sizes.                                                             *)
ASSUME BlocksCover == Blocks >= NumD * IqSize

VARIABLES mainPc,      \* where main is
          gpsPc,       \* where the GPS thread is
          sdrPc,       \* where the consumer is
          radio,       \* current_type of sdr.c
          mainExit,    \* simulator.main_exit
          gpsExit,     \* simulator.gps_thread_exit
          gpsRunning,  \* simulator.gps_thread_running
          timedOut,    \* ret == ETIMEDOUT in main
          sdrExit,     \* iqfile_thread_exit, pluto_tx_thread_exit
          iumd,        \* loop counter of the GPS thread
          todo,        \* samples of this IQ buffer not yet in a block
          filled       \* validLength of the block the GPS thread fills

flags == <<mainExit, gpsExit, gpsRunning, timedOut, sdrExit>>
work == <<iumd, todo, filled>>
progVars == <<mainPc, gpsPc, sdrPc, radio, flags, work>>
vars == <<fifoVars, progVars>>

(* totalLength of the blocks that sdr_iqfile_init, sdr_pluto_init and       *)
(* sdr_hackrf_init create.                                                  *)
Capacity == IF radio = "hackrf" THEN Transfer ELSE IqSize

Alive == ~crashed /\ mainPc # "exited"

(* The undefined behaviour of joining a thread that was never created, or   *)
(* of using the FIFO after it was destroyed, may end in a crash.            *)
Segfault == /\ crashed' = TRUE
            /\ UNCHANGED <<ptrs, halted, at, woken, held, payload, sent, taken, destroyed, progVars>>

SimInit ==
    /\ head = NULL /\ tail = NULL /\ freelist = NULL
    /\ nxt = [b \in Buf |-> NULL]
    /\ halted = FALSE /\ crashed = FALSE /\ destroyed = FALSE
    /\ at = [t \in Thread |-> "out"] /\ woken = {}
    /\ held = [t \in Thread |-> NULL]
    /\ payload = [b \in Buf |-> 0] /\ sent = 0 /\ taken = 0
    /\ mainPc = "sdr_init" /\ gpsPc = "absent" /\ sdrPc = "absent"
    /\ radio \in Radios
    /\ mainExit = FALSE /\ gpsExit = FALSE /\ gpsRunning = FALSE
    /\ timedOut = FALSE /\ sdrExit = FALSE
    /\ iumd = 0 /\ todo = 0 /\ filled = 0

-----------------------------------------------------------------------------
(* Start-up in main().                                                      *)

(* fifo_create: all blocks on the freelist. *)
Create == /\ freelist' \in Buf
          /\ nxt' \in [Buf -> Ref]
          /\ IsFreelist(freelist)'
          /\ UNCHANGED <<head, tail, halted, at, woken, held, payload, sent, taken, crashed, destroyed>>

(* sdr_init: the radio is opened, and the FIFO created as the last step. *)
SdrInit ==
    /\ Alive /\ mainPc = "sdr_init" /\ radio # "none"
    /\ Create
    /\ mainPc' = "create_gps"
    /\ UNCHANGED <<gpsPc, sdrPc, radio, flags, work>>

(* The radio is not there or refuses a setting, or --radio names none. *)
SdrInitFails ==
    /\ Alive /\ mainPc = "sdr_init"
    /\ radio = "none" \/ "sdr_init" \in Faults
    /\ mainPc' = "ui"
    /\ UNCHANGED <<fifoVars, gpsPc, sdrPc, radio, flags, work>>

CreateGps ==
    /\ Alive /\ mainPc = "create_gps"
    /\ gpsPc' = "init" /\ mainPc' = "before_wait"
    /\ UNCHANGED <<fifoVars, sdrPc, radio, flags, work>>

(* pthread_cond_timedwait: a signal that came before is lost. *)
AwaitGps ==
    /\ Alive /\ mainPc = "before_wait"
    /\ mainPc' = "init_wait"
    /\ UNCHANGED <<fifoVars, gpsPc, sdrPc, radio, flags, work>>

(* The deadline, 30 s after program start, may pass at any time. *)
AwaitTimesOut ==
    /\ Alive /\ mainPc = "init_wait"
    /\ mainPc' = "check" /\ timedOut' = TRUE
    /\ UNCHANGED <<fifoVars, gpsPc, sdrPc, radio, mainExit, gpsExit, gpsRunning, sdrExit, work>>

SignalInitDone == mainPc' = IF mainPc = "init_wait" THEN "check" ELSE mainPc

CheckGps ==
    /\ Alive /\ mainPc = "check"
    /\ mainPc' = IF gpsExit THEN "ui" ELSE "run"
    /\ UNCHANGED <<fifoVars, gpsPc, sdrPc, radio, flags, work>>

(* Fault: the consumer is started without waiting. *)
RunSdrAtOnce ==
    /\ Alive /\ mainPc = "run"
    /\ mainPc' = "start_sdr"
    /\ UNCHANGED <<fifoVars, gpsPc, sdrPc, radio, flags, work>>

(* sdr_run: wait for a full FIFO, then start the consumer. *)
RunSdr ==
    /\ Alive /\ mainPc = "run"
    /\ WaitFull(Main)
    /\ mainPc' = "start_sdr"
    /\ UNCHANGED <<gpsPc, sdrPc, radio, flags, work>>

FullSignalled ==
    /\ Alive /\ WaitFullResume(Main) /\ UNCHANGED progVars

StartSdr ==
    /\ Alive /\ mainPc = "start_sdr" /\ at[Main] = "out"
    /\ sdrPc' = IF radio = "iqfile" THEN "open" ELSE "loop"
    /\ mainPc' = "ui"
    /\ UNCHANGED <<fifoVars, gpsPc, radio, flags, work>>

(* hackrf_start_tx failed: main tells the GPS thread to stop. *)
StartSdrFails ==
    /\ Alive /\ mainPc = "start_sdr" /\ at[Main] = "out"
    /\ radio = "hackrf" /\ "start_tx" \in Faults
    /\ gpsExit' = TRUE
    /\ mainPc' = "ui"
    /\ UNCHANGED <<fifoVars, gpsPc, sdrPc, radio, mainExit, gpsRunning, timedOut, sdrExit, work>>

-----------------------------------------------------------------------------
(* User interface and shutdown.                                             *)

(* The user presses x, or a signal arrives, whatever main is doing. *)
ExitKey ==
    /\ Alive /\ mainPc = "ui" /\ ~mainExit
    /\ mainExit' = TRUE
    /\ UNCHANGED <<fifoVars, mainPc, gpsPc, sdrPc, radio, gpsExit, gpsRunning, timedOut, sdrExit, work>>

SignalHandler ==
    /\ Alive /\ ~mainExit
    /\ mainExit' = TRUE
    /\ UNCHANGED <<fifoVars, mainPc, gpsPc, sdrPc, radio, gpsExit, gpsRunning, timedOut, sdrExit, work>>

(* sdr_init got as far as the device, which is still there: the Pluto thread *)
(* destroys the context when it ends.                                        *)
DeviceThere == gpsPc # "absent" /\ ~(radio = "pluto" /\ sdrPc = "exited")

(* A gain key.  set_gain of the iqfile and of no radio does nothing; the     *)
(* others use their device without asking whether they have one.             *)
GainKey ==
    /\ Alive /\ mainPc = "ui"
    /\ radio \in {"hackrf", "pluto"} /\ ~DeviceThere
    /\ Segfault

(* cleanup_and_exit starts. *)
LeaveUi ==
    /\ Alive /\ mainPc = "ui" /\ mainExit
    /\ gpsExit' = TRUE
    /\ mainPc' = "join_gps"
    /\ UNCHANGED <<fifoVars, gpsPc, sdrPc, radio, mainExit, gpsRunning, timedOut, sdrExit, work>>

(* Fault: the GPS thread is told to end, but not waited for. *)
JoinGpsForgotten ==
    /\ Alive /\ mainPc = "join_gps"
    /\ mainPc' = IF radio = "none" THEN "exited"
                 ELSE IF radio = "hackrf" THEN "halt" ELSE "close"
    /\ UNCHANGED <<fifoVars, gpsPc, sdrPc, radio, flags, work>>

(* pthread_join: without a GPS thread it is undefined behaviour. *)
JoinGps ==
    /\ Alive /\ mainPc = "join_gps"
    /\ \/ /\ gpsPc \in {"exited", "absent"}
          /\ mainPc' = IF radio = "none" THEN "exited"
                       ELSE IF radio = "hackrf" THEN "halt" ELSE "close"
          /\ UNCHANGED <<fifoVars, gpsPc, sdrPc, radio, flags, work>>
       \/ gpsPc = "absent" /\ Segfault

(* sdr_iqfile_close, sdr_pluto_close, sdr_hackrf_close. *)
CloseSdr ==
    /\ Alive /\ mainPc = "close"
    /\ sdrExit' = TRUE
    /\ mainPc' = "halt"
    /\ UNCHANGED <<fifoVars, gpsPc, sdrPc, radio, mainExit, gpsExit, gpsRunning, timedOut, work>>

CloseHalt ==
    /\ Alive /\ mainPc = "halt"
    /\ HaltBegin(Main)
    /\ mainPc' = "halting"
    /\ UNCHANGED <<gpsPc, sdrPc, radio, flags, work>>

CloseHalting ==
    /\ Alive /\ mainPc = "halting"
    /\ HaltDrain(Main) \/ HaltEnd(Main)
    /\ mainPc' = IF at'[Main] = "out" THEN "destroy" ELSE "halting"
    /\ UNCHANGED <<gpsPc, sdrPc, radio, flags, work>>

CloseDestroy ==
    /\ Alive /\ mainPc = "destroy"
    /\ Destroy
    /\ mainPc' = "join_sdr"
    /\ UNCHANGED <<gpsPc, sdrPc, radio, flags, work>>

(* pthread_join of the consumer; hackrf_stop_tx waits until the callback    *)
(* has returned and calls it no more.                                       *)
JoinSdr ==
    /\ Alive /\ mainPc = "join_sdr"
    /\ \/ /\ sdrPc \in {"exited", "absent"} \/ (radio = "hackrf" /\ sdrPc = "loop")
          /\ mainPc' = "exited"
          /\ UNCHANGED <<fifoVars, gpsPc, sdrPc, radio, flags, work>>
       \/ radio # "hackrf" /\ sdrPc = "absent" /\ Segfault

MainStep == \/ SdrInit \/ SdrInitFails \/ CreateGps \/ AwaitGps \/ AwaitTimesOut
            \/ CheckGps \/ RunSdr \/ FullSignalled \/ StartSdr \/ StartSdrFails
            \/ LeaveUi \/ JoinGps \/ CloseSdr \/ CloseHalt \/ CloseHalting
            \/ CloseDestroy \/ JoinSdr

-----------------------------------------------------------------------------
(* GPS thread.                                                              *)

(* Fault: main is told that the thread runs while it does not yet. *)
GpsInitSignals ==
    /\ Alive /\ gpsPc = "init"
    /\ gpsPc' = "acquire" /\ iumd' = 1
    /\ SignalInitDone
    /\ UNCHANGED <<fifoVars, sdrPc, radio, flags, todo, filled>>

(* Ephemerides, almanac and channels are ready. *)
GpsInit ==
    /\ Alive /\ gpsPc = "init"
    /\ gpsPc' = "acquire" /\ iumd' = 1
    /\ UNCHANGED <<fifoVars, mainPc, sdrPc, radio, flags, todo, filled>>

(* One of the goto end_gps_thread: no ephemerides, no motion file, ... *)
GpsInitFails ==
    /\ Alive /\ gpsPc = "init" /\ "gps_init" \in Faults
    /\ gpsPc' = "end"
    /\ UNCHANGED <<fifoVars, mainPc, sdrPc, radio, flags, work>>

(* fifo_acquire, before the loop (todo = 0) or for the next block. *)
AfterAcquire == /\ gpsPc' = IF at'[Gps] # "out" THEN "acquire"
                            ELSE IF todo > 0 THEN "fill" ELSE "loop"
                /\ filled' = 0

GpsAcquire ==
    /\ Alive /\ gpsPc = "acquire"
    /\ Acquire(Gps) \/ AcquireResume(Gps)
    /\ AfterAcquire
    /\ UNCHANGED <<mainPc, sdrPc, radio, flags, iumd, todo>>

(* Fault: one round too many. *)
GpsLoopOneMore ==
    /\ Alive /\ gpsPc = "loop" /\ iumd <= NumD /\ ~gpsExit
    /\ gpsRunning' = TRUE
    /\ IF gpsRunning THEN UNCHANGED mainPc ELSE SignalInitDone
    /\ todo' = IqSize
    /\ gpsPc' = "fill"
    /\ UNCHANGED <<fifoVars, sdrPc, radio, mainExit, gpsExit, timedOut, sdrExit, iumd, filled>>

(* Head of the loop: leave it, or announce that the thread is running and   *)
(* compute the samples of one IQ buffer.                                    *)
GpsLoop ==
    /\ Alive /\ gpsPc = "loop" /\ iumd < NumD /\ ~gpsExit
    /\ gpsRunning' = TRUE
    /\ IF gpsRunning THEN UNCHANGED mainPc ELSE SignalInitDone
    /\ todo' = IqSize
    /\ gpsPc' = "fill"
    /\ UNCHANGED <<fifoVars, sdrPc, radio, mainExit, gpsExit, timedOut, sdrExit, iumd, filled>>

GpsLeaves ==
    /\ Alive /\ gpsPc = "loop" /\ (iumd >= NumD \/ gpsExit)
    /\ gpsPc' = "end"
    /\ UNCHANGED <<fifoVars, mainPc, sdrPc, radio, flags, work>>

(* Copy samples into the block until it is full or the IQ buffer is used    *)
(* up.  A block of the HackRF is handed on only when it is full, the others *)
(* take one IQ buffer each.  After the last sample comes the next motion    *)
(* point.                                                                   *)
(* Fault: the block takes all samples of the IQ buffer. *)
CopiedAll == todo

Copied == IF radio = "hackrf" /\ Transfer - filled < todo THEN Transfer - filled ELSE todo

GpsFill ==
    /\ Alive /\ gpsPc = "fill" /\ held[Gps] # NULL
    /\ filled' = filled + Copied
    /\ todo' = todo - Copied
    /\ LET handOn == radio # "hackrf" \/ filled' = Transfer IN
       /\ gpsPc' = IF handOn THEN "enqueue" ELSE "loop"
       /\ iumd' = IF todo' = 0 THEN iumd + 1 ELSE iumd
    /\ UNCHANGED <<fifoVars, mainPc, sdrPc, radio, flags>>

GpsEnqueue ==
    /\ Alive /\ gpsPc = "enqueue"
    /\ Enqueue(Gps)
    /\ gpsPc' = "acquire"
    /\ UNCHANGED <<mainPc, sdrPc, radio, flags, work>>

GpsEnd ==
    /\ Alive /\ gpsPc = "end"
    /\ gpsExit' = TRUE
    /\ SignalInitDone
    /\ gpsPc' = "exited"
    /\ UNCHANGED <<fifoVars, sdrPc, radio, mainExit, gpsRunning, timedOut, sdrExit, work>>

GpsThread == \/ GpsInit \/ GpsInitFails \/ GpsAcquire \/ GpsLoop \/ GpsLeaves
             \/ GpsFill \/ GpsEnqueue \/ GpsEnd

-----------------------------------------------------------------------------
(* Consumer.                                                                *)

SdrOpens ==
    /\ Alive /\ sdrPc = "open"
    /\ \/ sdrPc' = "loop"
       \/ "fopen" \in Faults /\ sdrPc' = "exited"
    /\ UNCHANGED <<fifoVars, mainPc, gpsPc, radio, flags, work>>

(* The thread tests its exit flag.  The callback of the HackRF has none:    *)
(* libusb calls it until hackrf_stop_tx, also after the FIFO was destroyed. *)
SdrLoop ==
    /\ Alive /\ sdrPc = "loop" /\ (radio = "hackrf" => mainPc # "exited")
    /\ sdrPc' = IF sdrExit THEN "exited" ELSE "dequeue"
    /\ UNCHANGED <<fifoVars, mainPc, gpsPc, radio, flags, work>>

(* Without a block the iqfile thread looks at its exit flag again, the      *)
(* Pluto thread ends, and the callback ends the transmission.               *)
SdrDequeue ==
    /\ Alive /\ sdrPc = "dequeue"
    /\ Dequeue(Sdr) \/ DequeueResume(Sdr)
    /\ sdrPc' = IF at'[Sdr] # "out" THEN "dequeue"
                ELSE IF held'[Sdr] # NULL THEN "transmit"
                ELSE IF radio = "iqfile" THEN "loop" ELSE "exited"
    /\ UNCHANGED <<mainPc, gpsPc, radio, flags, work>>

(* Fault: the block is not released. *)
SdrTransmitKeeps ==
    /\ Alive /\ sdrPc = "transmit"
    /\ held' = [held EXCEPT ![Sdr] = NULL]
    /\ sdrPc' = "loop"
    /\ UNCHANGED <<ptrs, halted, at, woken, payload, sent, taken, crashed, destroyed>>
    /\ UNCHANGED <<mainPc, gpsPc, radio, flags, work>>

SdrTransmit ==
    /\ Alive /\ sdrPc = "transmit"
    /\ Release(Sdr)
    /\ sdrPc' = "loop"
    /\ UNCHANGED <<mainPc, gpsPc, radio, flags, work>>

(* iio_buffer_push failed: the Pluto thread ends and keeps its block. *)
SdrPushFails ==
    /\ Alive /\ sdrPc = "transmit" /\ radio = "pluto" /\ "push" \in Faults
    /\ sdrPc' = "exited"
    /\ UNCHANGED <<fifoVars, mainPc, gpsPc, radio, flags, work>>

(* A FIFO call on the destroyed FIFO: the thread gets through, or crashes. *)
SdrAfterDestroy ==
    /\ Alive /\ destroyed /\ sdrPc \in {"dequeue", "transmit"} /\ ~SdrSleeps
    /\ \/ sdrPc' = "exited" /\ UNCHANGED <<fifoVars, mainPc, gpsPc, radio, flags, work>>
       \/ Segfault

SdrThread == \/ SdrOpens \/ SdrLoop \/ SdrDequeue \/ SdrTransmit \/ SdrPushFails
             \/ SdrAfterDestroy

-----------------------------------------------------------------------------
SimNext == MainStep \/ GpsThread \/ SdrThread \/ ExitKey \/ GainKey \/ SignalHandler

SimSpec == SimInit /\ [][SimNext]_vars

(* Each thread gets processor time; the user and the shell owe nothing. *)
SimFairSpec == /\ SimSpec
               /\ WF_vars(MainStep)
               /\ WF_vars(GpsThread)
               /\ WF_vars(SdrThread)

-----------------------------------------------------------------------------
(* Properties.                                                              *)

MainPcs == {"sdr_init", "create_gps", "before_wait", "init_wait", "check", "run",
            "start_sdr", "ui", "join_gps", "close", "halt", "halting", "destroy",
            "join_sdr", "exited"}
GpsPcs == {"absent", "init", "acquire", "loop", "fill", "enqueue", "end", "exited"}
SdrPcs == {"absent", "open", "loop", "dequeue", "transmit", "exited"}

(* Type invariant. *)
SimTypeOK == /\ TypeOK
             /\ mainPc \in MainPcs /\ gpsPc \in GpsPcs /\ sdrPc \in SdrPcs
             /\ radio \in Radios
             /\ \A f \in {mainExit, gpsExit, gpsRunning, timedOut, sdrExit} : f \in BOOLEAN
             /\ iumd \in 0..NumD /\ todo \in 0..IqSize /\ filled \in Nat

(* The GPS thread writes samples through the pointer fifo_acquire returned  *)
(* without testing it: it must never be null.  It is not, because the FIFO  *)
(* is halted only after the GPS thread was joined.                          *)
GpsHasBlock == gpsPc \in {"loop", "fill", "enqueue"} => held[Gps] # NULL

(* No block gets more samples than it has room for, also when a block of    *)
(* the HackRF spans two IQ buffers: what fifo_enqueue asserts.              *)
NoOverrun == filled <= Capacity

(* The consumer starts on a full FIFO: when main goes on from               *)
(* fifo_wait_full there is no free block and the GPS thread waits for one.  *)
PrefilledStart == mainPc = "start_sdr" /\ at[Main] = "out"
                      => freelist = NULL /\ at[Gps] = "acquire"

(* Past the wait for gps_init_done main knows how the GPS thread fares:     *)
(* it runs, it has ended, or the time was up.                               *)
ReadyMeansRunning == mainPc \in {"check", "run", "start_sdr"}
                         => timedOut \/ gpsRunning \/ gpsExit

(* The threads keep to the calling pattern of module Fifo: apart from       *)
(* fifo_create and fifo_destroy, each step of the program is a step of the  *)
(* FIFO with one producer and one consumer, or leaves the FIFO alone.       *)
ObeysFifo == [][Create \/ Next \/ Destroy \/ crashed']_fifoVars

(* Why they hold: the parts of the inductive invariant behind the theorems  *)
(* of SimulatorProofs.                                                      *)

Starting == {"sdr_init", "create_gps", "before_wait", "init_wait", "check", "run", "start_sdr"}
Closing == {"close", "halt", "halting", "destroy", "join_sdr", "exited"}
Created == mainPc = "create_gps" \/ gpsPc # "absent"

(* Nothing uses the FIFO before it is created, the consumer does not before *)
(* main started it, and main takes it down after the GPS thread ended.      *)
Control ==
    /\ mainPc \in {"sdr_init", "create_gps"} => gpsPc = "absent"
    /\ mainPc \in Starting \ {"sdr_init", "create_gps"} => gpsPc # "absent"
    /\ mainPc \in Starting => sdrPc = "absent"
    /\ mainPc \in Closing => gpsPc \in {"absent", "exited"}
    /\ halted => mainPc \in {"destroy", "join_sdr", "exited"}
    /\ mainPc = "destroy" \/ destroyed => halted
    /\ ~Created => sdrPc = "absent" /\ head = NULL /\ freelist = NULL
    /\ sdrPc = "absent" => at[Sdr] = "out" /\ held[Sdr] = NULL
    /\ gpsPc = "absent" => at[Gps] = "out" /\ held[Gps] = NULL

(* The invariant of the FIFO alone, from its creation on. *)
FifoSound == /\ Roles /\ (Created => Circulates)
             /\ SleepersHaveReason /\ NoStandoff /\ WokenHaveReason /\ TailSet

(* What a block holds at each point of the loop, and that each block handed *)
(* on had a sample of its own: Left is how many are yet to be computed.     *)
Left == (NumD - iumd) * IqSize - (IF todo > 0 THEN IqSize - todo ELSE 0)
Filling ==
    /\ gpsPc \in {"loop", "fill"} => IF radio = "hackrf" THEN filled < Transfer ELSE filled = 0
    /\ gpsPc = "loop" => todo = 0
    /\ gpsPc = "fill" => todo > 0
    /\ gpsPc \in {"absent", "init"} => iumd = 0 /\ todo = 0
    /\ todo > 0 => iumd < NumD
    /\ sent + (IF gpsPc = "enqueue" THEN 1 ELSE 0) + Left <= Blocks

(* Until the consumer starts nothing wakes a GPS thread without a block. *)
Prefill == mainPc = "start_sdr" /\ (at[Main] = "out" \/ Main \in woken)
               => freelist = NULL /\ at[Gps] = "acquire" /\ Gps \notin woken

SimInv == /\ SimTypeOK /\ Control /\ FifoSound /\ Filling /\ Prefill
          /\ GpsHasBlock /\ NoOverrun /\ ReadyMeansRunning

(* No call of the FIFO uses a null pointer, neither a block nor fifo_tail,   *)
(* whatever fails and whenever the program is ended: it crashes only by the *)
(* undefined behaviour of joining no thread, of a FIFO already destroyed,   *)
(* or of a gain key without a device.                                       *)
NoNullUse == [][crashed' # crashed => Segfault]_vars

(* The consumer is gone, or was never started, while the FIFO runs. *)
ConsumerGone == ~halted /\ sdrPc \in {"absent", "exited"}

(* Once a consumer runs the GPS thread generates its data to the end, as    *)
(* long as the consumer does not go away.                                   *)
GenerationEnds == sdrPc # "absent" ~> gpsPc = "exited" \/ ConsumerGone \/ crashed

(* A request to exit that the user interface sees ends the program, through *)
(* both joins, unless there is no consumer to unblock the GPS thread.       *)
ExitCompletes == mainPc = "ui" /\ mainExit
                     ~> mainPc = "exited" \/ crashed \/ (ConsumerGone /\ gpsPc # "exited")

(* fifo.h: fifo_wait_full blocks until the FIFO is full.  So it does not    *)
(* block for ever when the FIFO is full.                                    *)
WaitFullReturns == at[Main] = "wait_full" /\ freelist = NULL ~> at[Main] = "out" \/ crashed

(* fifo.h: ensure all FIFO users are done before calling fifo_destroy. *)
DestroyAfterUsers == [][destroyed' # destroyed => at[Sdr] = "out" /\ held[Sdr] = NULL]_vars

(* The keys of the user interface, those for the gain too, do not make the  *)
(* program crash.                                                           *)
KeysHarmless == [][mainPc = "ui" => crashed' = crashed]_vars

(* gps-sim.c: the user interface runs until there is a termination signal,  *)
(* then the program waits for the GPS thread and exits.                     *)
TerminationHonoured == mainPc = "ui" /\ mainExit ~> mainPc = "exited" \/ crashed

=============================================================================
