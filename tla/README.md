# A verification project for multi-sdr-gps-sim

The program generates a GPS L1 baseband signal. One thread computes I/Q
samples and puts them into blocks, another hands the blocks to a radio (or a
file), the main thread starts both, runs the user interface and takes
everything down again. The modules here describe that program in TLA+; TLC
checks them on small instances and TLAPS proves theorems about them for every
instance.

    tlc -workers 2 -config MCFifo.cfg MCFifo        # a run (see the table of runs)
    tlapm FifoProofs.tla                            # proofs; also FifoPoolProofs, SimulatorProofs,
                                                    # ChannelsProofs, NavProofs, GpsThreadProofs,
                                                    # FitProofs, GuiProofs

## 1. Inventory

| component | state | operations | interacts through |
|---|---|---|---|
| IQ block FIFO (`fifo.c`) | `fifo_head`, `fifo_tail`, `fifo_freelist`, links, `fifo_halted`; mutex and four condition variables | create, destroy, acquire, enqueue, dequeue, release, wait_next, wait_full, halt | called by all threads |
| main (`gps-sim.c`) | `simulator` record: flags, target, gain | start-up, key loop, signal handler, `cleanup_and_exit` | creates and joins the GPS thread; `gps_init_done`; sets `gps_thread_exit` |
| radio dispatch (`sdr.c`) | `current_type` | init, run, close, set_gain of the chosen radio | called by main |
| consumers (`sdr_iqfile.c`, `sdr_pluto.c`, `sdr_hackrf.c`) | exit flags, device handles | consumer thread or libusb callback | dequeue and release |
| GPS thread, control (`gps.c`) | `iumd`, current block, `gps_thread_running` | init, loop, end | acquire and enqueue; `gps_init_done` |
| GPS thread, channel allocation (`gps.c`) | `chan[12].prn`, `allocatedSat[32]`, `ieph` | allocateChannel, ephemeris refresh | decides which channels the message code works on |
| GPS thread, navigation message (`gps.c`) | `dwrd[60]`, `g0`, `ipage`, `iword`, `ibit`, `icode`, `rho0` of each channel | generateNavMsg, computeCodePhase, sample loop | private to the GPS thread |
| RINEX readers, time (`gps.c`) | `eph[13][32]` | readRinex2, readRinex3, date2gps, gps2date, subGpsTime, incGpsTime | private to the GPS thread |
| orbits, ionosphere, geodesy (`gps.c`) | none | floating-point formulas | - |
| almanac (`almanac.c`) | one static almanac, valid flag | download, read | called by the GPS thread |
| text interface (`gui.c`) | ncurses windows under `gui_lock` | print, panels, keys | called by every thread and the signal handler |

What is hard here: the FIFO's hand-written lists under hand-written condition
variables; the order of shutdown (join, halt, destroy, join) against threads
asleep in the FIFO; failures that take one thread away while the others go on;
a producer that carries a half-filled block from one round to the next; one console
lock for all threads and a signal handler; and, in the GPS engine, tables that must stay in step over satellites that rise and
set, bit and word counters that run between two refreshes, indices at the edge
of the ephemeris array, and files that are short, old, cut off or garbled. `PROJECT.json` lists each hazard at its line.

What makes each component correct:

* FIFO: a block is in one place; blocks come out in the order they went in;
  nobody uses a null block; producer and consumer never sleep on each other; a
  halt releases everybody.
* main, consumers, GPS control: the FIFO is used as its header asks; the
  producer never writes beyond a block or through a null pointer; the consumer
  starts on a full FIFO; a request to exit ends the program.
* channels: a satellite has at most one channel and the two tables agree; a
  channel that is computed has an ephemeris; what it sends is about its own
  satellite and not older than one change of ephemerides.
* message: the word index stays inside the message; the bit sent at a time is
  the one due at that time; week number and pages are right.
* RINEX sets: the sets' times ascend and do not overlap; their number fits the
  array; a start time that is accepted has a set; an ephemeris is used within
  its fit interval (the code keeps to it but for 30 s, see `WithinFit`).
* time: week and second stay normalised; dates are counted as the calendar does.
* almanac: what is sent of it is of the weeks around the start, whatever the
  file held.
* text interface: one thread at a time draws; `gui_lock` is free again after
  every call; the windows outlive the threads that use them; an exit request is
  heard.

## 2. Modules

    BlockPool                 what the FIFO promises, without pointers
       ^  refinement
    FifoPool -> Fifo          fifo.c and its three threads
                 ^  ^
    FifoProofs --'  '-- Simulator      main, GPS thread, consumer around the FIFO
         '---- SimulatorProofs ----^
    FifoPoolProofs -> FifoPool, FifoProofs
    MCFifo -> FifoPool        MCSimulator -> Simulator

    ChannelsProofs -> Channels <- MCChannels        which satellite is on which channel
    NavProofs -> NavMessage <- MCNavMessage         what one channel sends

    Channels, GpsTime <- Ephemeris <- Almanac <- GpsThread     gps_thread_ep from file to end
    GpsTime <- Calendar <- GpsThread                           what the dates should be
    MCGpsThread -> GpsThread
    FitProofs -> GpsThreadProofs -> GpsThread, ChannelsProofs

    GuiProofs -> Gui                                           gui_lock, the threads and the signal handler

`Channels` and `NavMessage` are two views of the GPS thread's loop, which no
other thread can see into: `Simulator` has it as one step per block. `Channels`
has all channels and takes a message as a whole; `NavMessage` has one channel
and every word, bit and code of its message, and lets satellites come and go as
`Channels` shows they may. `GpsThread` puts before them what happens first: the
files are read, the start is found. Its stream makes the steps of `Channels`
(`RefinesChannels`), so what is proved of `Channels` holds of it.

### Fifo

`fifo.c`, pointer by pointer: `head`, `tail`, `freelist` and `nxt[b]` are the
pointers of the C code, `halted` is `fifo_halted`. One action is one critical
section of `fifo_mutex`. A function that calls `pthread_cond_wait` is two
actions: `Acquire` up to the wait and `AcquireResume` after it, and so on;
`at[t]` says in which call thread `t` waits, and `t \in woken` that it was
signalled and now competes for the mutex. `Signal` picks any one waiter, as
`pthread_cond_signal` may. `fifo_halt` walks a list, so it is `HaltBegin`, one
`HaltDrain` per block and `HaltEnd`, during which nobody else gets the mutex.
`fifo_enqueue` is modelled with its bug: `fifo_tail` is not advanced when a
block is linked behind it.

`held`, `payload`, `sent` and `taken` are not in the C code as such: `held[t]`
is the local pointer a thread works with, `payload[b]` numbers the generated
blocks so that order and loss can be spoken of, `crashed` records a null
dereference, `destroyed` that `fifo_destroy` ran.

The threads call as the program does: the GPS thread acquires and enqueues, the
consumer dequeues and releases, main calls the two waits and `fifo_halt`.
`fifo_wait_next` has no caller in the program; main stands in for one.

### BlockPool and FifoPool

`BlockPool` is the promise without pointers: each block is free, with the
producer, queued, with the consumer, or lost. `FifoPool` reads a block's place
off the pointers (`PlaceOf`) and states that the pointer-level FIFO implements
the pool. The pool says exactly how much `fifo_enqueue` may lose: it keeps the
new block and drops others from the queue, or it drops the new block and the
queue is not empty, or (after a halt, through a stale link) the freelist loses
blocks. No other operation loses any, and a lost block never comes back.

### Simulator

`mainPc`, `gpsPc` and `sdrPc` are where `main`, `gps_thread_ep` and the consumer
are; the FIFO calls are the actions of `Fifo`. main: `sdr_init`, creating the
GPS thread, the timed wait for `gps_init_done`, `sdr_run` with its
`fifo_wait_full`, the key loop reduced to the exit key and the gain keys where
the device may be missing, then
`cleanup_and_exit`: set `gps_thread_exit`, join, and the radio's close. The GPS
thread: initialise or fail, acquire, and per motion point fill blocks. `Copied`
is how many of the remaining samples fit: a HackRF block is handed on when it is
full, possibly in the middle of an IQ buffer, and a partly filled one is kept
for the next round; the file and the Pluto take one IQ buffer per block. The
consumer of each radio differs in what it does without a block: the file thread
tests its flag again, the Pluto thread and the HackRF callback end. The callback
has no flag: libusb goes on calling it until `hackrf_stop_tx`, which comes after
`fifo_destroy`.

`Faults` are the failures from outside: no radio, no ephemerides, `fopen`,
`iio_buffer_push`, `hackrf_start_tx`.

Assumed: `fifo_create` and `pthread_create` succeed; `pthread_cond_timedwait`
and the FIFO's waits return only when signalled or timed out (`Spurious =
FALSE`); undefined behaviour (joining a thread that was never created, using the
destroyed FIFO, a gain key without a device) is a choice between going on and a
crash (`Segfault`). The
messages on the screen, the signal handler's too, are the subject of `Gui`.

### Channels

The update of the main loop every 30 s (`gps.c` 2878-2909) and the allocation at
the start: `GenerateMessages`, `Refresh`, then `AllocateChannel` once per
satellite, with `AllocateNew`, `ClearChannel` and `LeaveAsIs` as its branches.
`prn` and `allocatedSat` are the two tables of the code; `sbf[c]` and `msg[c]`
say from which set and satellite the subframes and the frame of a channel were
made. `vflg` is the navigation file: which satellites each set holds. `up` is
free at each update. Whether the next set is due (less than an hour away) is
free too, so the model changes sets at any update. The test of line 2890 reads
one set past the array when the last one is in use; what it finds there is free
(`NextSetValid`), and the change that follows wraps to set 0.

### NavMessage

One channel, in ms. `Compute` is `computeCodePhase`, once per 0.1 s; `NextCode`
is the sample loop reduced to the moments when a C/A code ends; `EndRound` is
the rest of the loop: the 30-second test, the message for a satellite that stays
(`Continue`) or is about to be cleared (`Clear`), another satellite that takes
the channel in the same pass (`Replace`), or a first one (`Occupy`). The message
is six subframes, `dwrd[0..5]`, one for each ten words of the code's `dwrd[60]`;
a subframe is known by its number, its time-of-week count, its week number and
its page. `tx`, the time at which the satellite sends the present code, and
`again` are not in the C code; `tx` is what `RightBit` compares the message
with.

Times are whole ms: `incGpsTime` rounds to ms, and the expressions of
`generateNavMsg`, `computeCodePhase` and the 30-second test, in double, agree
with the integer ones of the model for every ms of a week (compared once with a
C program, outside this project). The travel time is rounded up to ms; it
changes by at most 1 ms between two rounds, and 99 to 101 codes end in a round.
That leaves out a receiver that went 300 km from its start before a satellite
rises: line 2909 then computes the first range for the starting point, and the
code rate of the next round makes up for the difference.

### GpsTime and Calendar

The time arithmetic of `gps.c` in whole seconds. The loops of `incGpsTime` are a
quotient and a remainder; the casts of `gps2date` are quotients of whole
numbers, which is exact for the dates checked. `Calendar` says what they are to
compute: the day after a day, by the lengths of the months and the full rule for
leap years (`NoonAfter`). The first day of 1981 has its number counted from the
epoch, and each day the number after that of the day before; `gps2date` takes
each date back. The program's rule (every fourth year) is right until 2099, the
last year of `YearsAssumption`.

### Ephemeris

`stage` is how far `gps_thread_ep` is: `open`, `header`, `records`, `return` are
the reader's, `check` and `select` find the start and the set, `selected`,
`almanac`, `toa` are the almanac's, `ready` and `run` the stream, `end` the
label `end_gps_thread`. A navigation file is a sequence of records: a satellite,
a date, whether all its lines are there. One action reads one record.
`last` and `base` are `ieph` and `g0` of the reader; `vflg` of `Channels` and
`toc` are the array `eph`. `readRinex2` and `readRinex3` differ in columns and
in that the latter passes over other systems (`SkipLine`).

`start.how` is how a start was asked for: not at all (`none`), by date (`at`) or
`now`, where `StartNow` moves all ephemerides. Without `--start` the date is all
zero, and `date2gps` takes the word of memory before its table `doy[]` for the
days of the months before; `StrayDays` are the days since the epoch that may
come out. A day before week 0 is what the code means by no start
(`StartAtFirst`); any other is taken for a start that was asked for, and is
accepted (`StartAtStray`) or refused (`InvalidStart`).

`outside` becomes true where the program acts on what is not there: `eph[-2]`,
`eph[13]`, `gmin` that nothing was assigned to, the entry of a satellite that
does not exist (the readers do not test the number in a record: `StrayRecord`).
Before the start that ends the model, since anything may follow; in the loop it
is the wrap of `Channels`.

The loop is that of `Channels` with one choice made: `Due` decides whether the
sets change, by the first valid satellite of the next set. `GenerateMessages`,
`AllocateChannel`, `Allocated`, `KeepSet` are the actions of `Channels`. `Round`
takes the 0.1 s steps between two updates as one: with `pc = "samples"` `grx` is
the time of the last update, with `pc = "refresh"` that of the end of the samples,
computed with the set that was in use until then. A property about the samples
has to hold at both.

### Almanac

`almanac_read_file` record by record; each record is whole, or the file ends
before or in it, or a line is garbled. `svid` and `valid` are kept apart because
the code sets one at the beginning of a record and the other at its end, and
asks sometimes for the one, sometimes for the other (`AlmanacPages`,
`ReferenceWeek`). A failed download leaves an empty table (`NoAlmanac`); a
successful one is a read. Whether the table is usable is decided by its flag and
by `TimesAccepted`.

### Gui

A call of a function of `gui.c` is `Begin` by its caller, `Enter` (the lock) and
`Return` (what it does to the panels, and the unlock), or `ReturnEarly` when
`wmove` fails in `gui_mvwprintw`. `lock` is the mutex, `at[u]` where in a call a
thread or handler is. `Signals` are the signals that `main` installs
`signal_handler` for. One may arrive at any time until the program is gone, in any
thread or in the handler of another signal (`Signal`); `paused[s]` are those that
do nothing until the handler of `s` is done: the thread it runs in and the
handlers it interrupted. Each handler resets its own signal, so each runs once; a
second signal of the kind ends the program (`SignalAgain`).

`phase` follows main: `gui_init` with its prompt, `sdr_init`, creating the
threads, the key loop, `cleanup_and_exit`, then `gui_destroy` and `exit` step by
step: the unlock "just in case" (`UnlockAnyway`), `DestroyLock`, `FreeWindows`,
`ExitProgram`. A handler that runs in between meets a destroyed mutex: locking it
is undefined, so it gets through without the lock (`EnterUnguarded`) or crashes
(`Crash`), as it may when it draws in a freed window. What the other
threads wait for in the FIFO is left out: they call, or exit, whenever they
like. `fits` is FALSE on a console smaller than needed, where some text lies
outside of the window it is written to.

Definitions whose comment begins with "Fault" are not part of the models: each
is a plausible slip, used by a mutant in `PROJECT.json` to show that a property
notices it.

## 3. Runs

| run | module, cfg | shows |
|---|---|---|
| `fifo_safety` | MCFifo, MCFifo.cfg | `TypeOK`, `ExclusiveOwnership`, `NoStandoff`, `NoLostWakeup`, `InOrder`, `RefinesPool`, with spurious wakeups |
| `fifo_progress` | MCFifo, MCFifoLive.cfg | `NoNullBlock`, `HaltReleasesAll`, `StreamDrains`, `WaitNextReturns` |
| `simulator` | MCSimulator, MCSimulator.cfg | `SimTypeOK`, `GpsHasBlock`, `NoOverrun`, `PrefilledStart`, `ReadyMeansRunning`, `ObeysFifo`, `NoNullUse`, `GenerationEnds`, `ExitCompletes` |
| `channels` | MCChannels, MCChannels.cfg | `TypeOK`, `TablesAgree`, `HasEphemeris`, `MessageNearlyCurrent`, `AllocationSettles` |
| `nav_message` | MCNavMessage, MCNavMessage.cfg | `TypeOK`, `RightBit`, `PagesStay` |
| `gps_thread` | MCGpsThread, MCGpsThread.cfg | `EphTypeOK`, `SetsOrdered`, `WithinFit`, `AlmanacInTime`, `DatesRight`, `StartFindsSet`, `RefinesChannels` |
| `gui` | Gui, MCGui.cfg | `GuiTypeOK`, `Exclusive`, `DestroyedAlone`, `LockReturned`, `TopWindowAgrees`, `ExitReached` |
| `fifo_lost` | MCFifo, MCFifoLost.cfg | violation: a third queued block displaces the second |
| `sim_destroy` | MCSimulator, MCSimulatorDestroy.cfg | violation: the FIFO is destroyed under its consumer |
| `sim_exit` | MCSimulator, MCSimulatorExit.cfg | violation: an exit request that never ends the program |
| `eph_count` | MCGpsThread, MCGpsThreadCount.cfg | violation: more sets are counted than there are |
| `gui_hang` | Gui, MCGuiHang.cfg | violation: a call that waits for ever for `gui_lock` |

`AllocationSettles` needs two updates with the same sky. After one, a satellite
may have no channel although one is free: `allocateChannel` clears and gives in
one pass, in the order of the satellites, and one whose turn comes before a
channel is cleared has to wait for 30 s.

`RightBit` compares counts of the time of week modulo a week: the code does not
reduce the count, so the last subframe of a week announces 100800 instead of 0.
Its exception `again` is a start less than half a second before a frame: the
message made at the start is already that of the coming frame, the update at the
frame makes it once more, and the rest of the subframe before the frame is then
taken from the end of the frame that has yet to come.

`PagesStay` says that a page counter and a message that are right stay so. They
need not be right at first: the counter begins with what was in memory, in the
run the first page, the last one, or a number that is none (section 5).

`WithinFit` looks at both ends of the samples between two updates. At an update
no ephemeris is more than two hours away, half its fit interval. At the end of
the samples the bound is longer by one `Period`, and it has to be: `gps.c` 2892
asks for less than an hour to the next set, so at exactly an hour the set stays
for another 30 s, and an ephemeris that is two hours old then is used 30 s too
long.

`DestroyedAlone` is about the threads, not about the handlers: a signal during
`gui_destroy` finds the lock destroyed (section 5).

`WithinFit` and `StartFindsSet` depend on the file: they hold for sets two hours
apart, as broadcast files have them, with records up to an hour late
(`TwoHourlyKept` in `FitProofs` says it exactly). All files of the run are sorted
and of that kind; some begin or end in the middle, hold one set, are empty or are
cut off, one has a record of no satellite. `WithinFit` says nothing of the last set of a file, which is used as long
as the simulation lasts.

`DatesRight` does not depend on the state and is looked at in the few states
where an empty file is about to be opened.

### Bounds

The C code allocates `NUM_FIFO_BUFFERS` = 8 blocks. `fifo_safety` has four: one
with each thread leaves two on the lists, and three queued blocks are what it
takes to lose one and to have a stale `fifo_tail`. `Blocks = 6` generated blocks
let every block be used again. Blocks are interchangeable, so the safety run
uses them as a symmetry set; the runs with liveness do not. `fifo_progress` has
three blocks and five generated ones. `simulator` has two blocks, four motion
points (three rounds), five samples to an IQ buffer and two to a HackRF block,
so that a HackRF block spans two IQ buffers as the real sizes (600000 and
262144) do; `Blocks = 20` there only bounds the numbering.

`channels` has three satellites for two channels, so that one waits for a
channel, and three sets of ephemerides of which one satellite is missing or the
last is empty; one update with them has all orders of rising, setting and
waiting, and three sets wrap. `nav_message` has the real lengths, the last frame
of a week and the first words of the next: starts on both sides of each rounding
(half a second in `generateNavMsg`, 50 ms in the 30-second test), two travel
times. Both are proved for all sizes below; the runs show that the cases occur.

`gps_thread` has three sets instead of 13, two satellites and one channel, so
that a file can overfill the array and a satellite can go without a channel.
Files and starts lie around Saturday midnight, 31 December 2022, which is the
end of a day, a week and a year. An update comes every 1800 s instead of 30
(`Period`), for five hours (`Until`): three changes of sets, and all tests of
times are on multiples of that or a minute beside. A start that was not given
may come out as before the epoch (the word before `doy[]` is 0), in week 0 before
its begin, or as one of two days, of which some files cover one. Almanac files are four weeks
too old, in time, or too new by a little. The dates checked are all days from
1981 to 2099.

`gui` has two of the three signals: one handler can run in a thread, in another
one, or in the other handler. The handlers are alike, so they come in a fixed
order (`NextSignal`). The safety properties were also checked with three. Each
thread is in one call at a time; threads repeat calls without a bound. `gui_hang`
needs no signal.

### Fairness

`FairSpec` and `SimFairSpec` have weak fairness for each thread: the scheduler
runs a thread that can run, a signalled waiter gets the mutex (it is free after
each critical section). Main owes no calls, only the completion of those it
made. The user and the shell owe nothing: `ExitKey` and `SignalHandler` are not
fair. Progress is claimed without spurious wakeups.

`GuiFairSpec` lets a thread that asks for `gui_lock` over and over get it (strong
fairness of `Enter` for each thread, and for the handlers together, of which each
asks once): between two calls the GPS thread and the consumer sleep on the FIFO,
and main in `getch`. Who has the lock finishes its call. Main goes on from the
messages of its start-up to the next step, the prompt gets an answer, and
`getch` returns after 100 ms at the latest, so main leaves its loop when it
should (`MainStarts`, `MainStops`); this is strong fairness too, because a
handler in main takes the step away for a while. The other threads owe an end
only when they were told to (`gpsExit`, `close`); keys, messages and signals are
not owed.

Deadlock is not checked. In `Fifo` main may call `fifo_wait_full` after the last
block was generated and then everybody sleeps for good; in `Simulator` the
program ends, or hangs as in the findings; in `NavMessage` the simulation ends
at `Until`. Where a stop would be an error the liveness properties say so.
`Gui` ends with the program, or hangs as in the findings. `Channels` never stops
and `GpsThread` stutters when it is over: both have deadlock checked.

`GenerationEnds` and `ExitCompletes` are stated up to the hang the run
`sim_exit` shows: they allow for a consumer that is gone while the FIFO runs.

## 4. Proofs

`FifoProofs` proves, for every set of blocks and every number of generated
blocks:

| theorem | statement |
|---|---|
| `TypeCorrect` | `Spec => []TypeOK` |
| `Ownership` | `Spec => []ExclusiveOwnership` |
| `Standoff` | `Spec => []NoStandoff` |
| `Wakeups` | `Spec => []NoLostWakeup` |
| `NullFree` | `Spec => []NoNullBlock`, if `Spurious = FALSE` |
| `Order` | `Spec => InOrder` |

and `FifoPoolProofs`, which rests on them:

| theorem | statement |
|---|---|
| `PoolRefined` | `Spec => RefinesPool` |

Each theorem of `FifoProofs` rests on an inductive invariant defined in `Fifo` and checked by TLC
before it was proved.

*Ownership.* "The lists are disjoint" is not inductive: it says nothing of lost
blocks or of what the stale `fifo_tail` may do. `SoleReference` does: over
`fifo_head`, `fifo_freelist`, the blocks threads hold and all `next` links
(those of lost blocks included), no block is referenced twice. Each operation
moves references around; writing through the stale tail overwrites a link, which
can only drop a reference, and the new one is to a block its holder gives up in
the same step. That the lists are then disjoint needs an argument about
reachability without induction over the lists: `Chain(p)` is defined as the
intersection of the sets that hold `p` and follow the links, and two chains
with distinct roots nobody links to are separated by exhibiting closed sets
(remove from one chain everything on the other: what is left is still closed).

*Standoff.* If producer and consumer both sleep, both lists are empty
(`SleepersHaveReason`); but while the FIFO runs some block is queued, free or
held (`Circulates`), and a sleeper holds none.

*Wakeups.* With `EndAwaited` (main in `fifo_wait_next`) and `AwakeAfterHalt` that
becomes `NoLostWakeup` (`WakeupInv`): who sleeps in the FIFO still lacks what it
waits for, and nobody sleeps after a halt. It is the part of `HaltReleasesAll`,
`StreamDrains` and `WaitNextReturns` that is about the code; the rest of those is
that the scheduler runs who can run. `fifo_wait_full` is left out of it: there a
wakeup can be lost (section 5).

*Null blocks.* A thread that was woken finds what it waited for
(`WokenHaveReason`): the only other thread that could take it is not one that
waits for the same thing. And `fifo_tail` is not null while a block is queued
(`TailSet`).

*Order.* Because `fifo_tail` is not advanced, the queue never has more than two
blocks, and `fifo_tail` is the first of them or the queue is one block
(`QueueShape`); its numbers ascend and exceed the last number taken.

*The pool.* Which places an operation moves is read off the lists it leaves.
`Reach(f, p)` is `Chain(p)` over links `f`, and the lemmas on it say what a list
becomes when its first block is taken off (`ReachPop`), when one is put in front
(`ReachPush`), when a link outside of it is written (`ReachSame`) and when one of
its own links is led elsewhere (`ReachCut`: it keeps what comes before that
link). Then there is one lemma per operation. `fifo_enqueue` writes through
`fifo_tail`, and because that pointer may be stale there are three cases: the
block it points to is on the queue, and what was behind it is dropped
(`PutQueued`); it was released since, and the freelist behind it is dropped
(`PutFree`); it is on neither list, and the new block is dropped (`PutLost`). That
the pool forbids any of them to drop more is what the proof is about. The only
invariant it needs is that of *Ownership*.

`ChannelsProofs`, for any number of channels, satellites and sets and any
navigation file:

| theorem | statement |
|---|---|
| `ChannelTypes` | `Spec => []TypeOK`, `ieph` is inside the array |
| `Tables` | `Spec => []TablesAgree` |
| `Ephemerides` | `Spec => []HasEphemeris` |
| `Messages` | `Spec => []MessageNearlyCurrent` |
| `Settles` | `Spec => AllocationSettles` |

The invariant is `ChannelsInv`. `HasEphemeris` speaks of the moment when samples
are computed and is broken by each change of sets; `ValidSoFar` says that within
the loop of `allocateChannel` it holds for the satellites that had their turn.
The lag of the messages follows from the order of the update: when a set
changes, all messages have just been made from the set before
(`MessageFollows`, with `SubframesCurrent`).

`Settles` adds two parts (`SettleInv`). `InSightSoFar`: after an update, and within
the next one for the satellites that had their turn, only visible satellites have
channels, so when the sky is the same as last time every satellite still on a
channel is visible. `ServedSoFar`: each visible satellite that had its turn has a
channel. If a turn found none free, the channels would be taken by as many
different satellites, all of them visible, and the one whose turn it is would be
one more: that contradicts their number (`ChannelsTaken`, by counting).

`NavProofs`, for every start time, every travel time from 51 ms to 5.5 s, every
duration:

| theorem | statement |
|---|---|
| `WordInside` | `Spec => []TypeOK`: `dwrd[]` is not read outside |
| `BitsRight` | `Spec => []RightBit` |
| `PagesKept` | `Spec => PagesStay` |

The invariant is `NavInv`. `MessageFresh`: the reference time of the message is
at most half a second ahead of the receiver and less than 29.95 s behind it, by
`NextReference`: the 30-second test succeeds within 50 ms of a frame, and then
the new reference is that frame, whatever the fraction of a second the
simulation started at. `PositionRight`: word, bit and code are those of `tx`.
Together they bound the word index; 101 codes in a round can pass the receiver's
time by no more than the travel time makes up for. `MessageRight`: the counts in
the message are those of its frame. The arithmetic on weeks, frames and
subframes is in lemmas of its own (`WeekSplit`, `AlignFacts`, `ReferenceFacts`,
`FrameLater`). `PagesKept` needs no invariant: the next page of a page is a page
(`PageFacts`), and a message is made of pages or carries over a subframe that was.
It does not say that the counter is right at first (section 5).

`GpsThreadProofs`, for any navigation and almanac files, start times and sizes:

| theorem | statement |
|---|---|
| `GpsTypes` | `GpsSpec => []EphTypeOK` |
| `StreamRefines` | `GpsSpec => RefinesChannels` |
| `StreamSound` | while the thread streams: `TablesAgree`, `HasEphemeris`, `MessageNearlyCurrent` |
| `AlmanacCurrent` | `GpsSpec => []AlmanacInTime` |
| `SetsInOrder` | `GpsSpec => []SetsOrdered`, if the file is sorted by time |
| `DatesConvert` | `GpsSpec => []DatesRight` |

The invariant is `GpsInv`. Until the stream starts nothing is allocated
(`BeforeStream`) and the set found holds a satellite (`SetFound`), so the stream
starts in an initial state of `Channels`; from there on `ChannelsInv` holds by
the lemma `ChannelsStep` of `ChannelsProofs` (`StreamInv`). A valid entry of the
almanac has its `svid` and sets the flag of the table, so that from "ready" on
its time was looked at (`AlmanacInv`). `SetsInOrder` has an invariant of its own,
`OrderInv`: the records to come are not before the present set's base, the
present set lies within an hour of it, all earlier sets before it; that "now"
moves all of them by the same time needs `IncSeconds`, which says that
`incGpsTime` adds exactly its argument, over ends of weeks too. That the file is
sorted is an assumption on the file, which the code makes too.

`DatesConvert` needs no invariant. That days follow each other is a case per kind
of month (`DaysFollow`). For the way back, years are counted from March, as
`gps2date` counts them: the leap day is then the last of its year, and a day of
the year determines its month (`JulianDay`, month by month); the quotient by
365.25 days finds the year for each day of it (`YearBack`).

`FitProofs`, for any navigation and almanac files, start times and sizes:

| theorem | statement |
|---|---|
| `FitKeptTo` | `GpsSpec => []WithinFit`, if the file is sorted and two-hourly, and updates come at least once an hour |
| `StartFound` | `GpsSpec => StartFindsSet`, if the file is sorted, two-hourly and keeps its openers |

The reader tells sets apart by time: a record an hour or more after the first of a
set begins another. What a set may hold is therefore a matter of the file.
*Two-hourly* (`TwoHourly`): there is a time from which on sets open every two
hours, each record lies within the hour after an opening, the first of its set
exactly on it, and no set is left out. The invariant `GridInv` says that the
reader stays on that grid, set `n` in the hour after opening `n`, also when "now"
moves the whole of it; with it the times of two neighbouring sets are between one
and three hours apart. `FitInv` follows the clock: from the choice of a set to
the change of sets, its ephemerides are at most two hours old or ahead, and
within an update late by one period at most: that is `WithinFit` at the two ends of the
samples, since `ValidSoFar` of `ChannelsInv` says that the set in use holds the
ephemeris of each used channel. It is the test "less than an hour
to the next set" that keeps it, because all ephemerides of the present set are at
most three hours before that of the next one which is looked at.

`StartFound` asks for more, because `CurrentSet` looks for an ephemeris less than an
hour from the start: with sets on the two hours exactly that always exists, but
a set may be opened by a satellite whose record is replaced by a later one of the
same hour, and then a start between two sets may find neither. `OpenersStay` rules
that out, and TLC finds the counterexample without it. `OpenInv` says that each
set still holds the ephemeris of its opening.

`GuiProofs`, for consoles of any size and any set of signals:

| theorem | statement |
|---|---|
| `GuiTypes` | `GuiSpec => []GuiTypeOK` |
| `OneDraws` | `GuiSpec => []Exclusive` |
| `DestroyedLast` | `GuiSpec => []DestroyedAlone` |
| `NoOtherLeak` | `GuiSpec => []LockReturned` |
| `TopAgrees` | `GuiSpec => []TopWindowAgrees` |

The invariant is `GuiInv`. Who is between lock and unlock owns the lock, as long
as it is not destroyed (`DrawerHolds`). A handler that runs, runs in a thread, and
whoever it interrupted stays inside the call it was in (`PausedStay`): so a
thread that is over, or main when it goes on to the next phase, has no handler in
it. A thread that was joined is in no call, and the lock is destroyed only behind
the joins (`GuiStops`); an owner that is in no call left through `ReturnEarly`.
`DestroyedLast` is about the threads only: that no handler is in a call then is
not so.

`SimulatorProofs`, for any number of blocks, motion points, both block sizes,
all radios and faults, if `Spurious = FALSE`:

| theorem | statement |
|---|---|
| `SimTypes` | `SimSpec => []SimTypeOK` |
| `HasBlock` | `SimSpec => []GpsHasBlock` |
| `BlocksFit` | `SimSpec => []NoOverrun` |
| `Prefilled` | `SimSpec => []PrefilledStart` |
| `Ready` | `SimSpec => []ReadyMeansRunning` |
| `CallsObey` | `SimSpec => ObeysFifo` |
| `NullSafe` | `SimSpec => NoNullUse` |
| `ProgramAwake` | `SimSpec => []NoLostWakeup` |

The invariant is `SimInv`. Each step of the program is a step of `Fifo`, or
creates or destroys the FIFO, or is a crash that leaves all else alone
(`FifoKinds`); the first kind is covered by the lemmas of `FifoProofs`
(`FifoSound`). That a block may still be sent, which `Fifo` bounds by `Blocks`,
is a matter of counting: each block handed on had a sample of its own, and
`Left` samples are still to come (`Filling`). A halt comes after the GPS thread
was joined (`Control`), therefore `fifo_acquire` does not return null. Main is
woken by the GPS thread that goes to sleep, and nobody but the consumer, which
main has not started, could wake that one (`Prefill`).

Assumptions on constants: the set of blocks is not empty and does not hold NULL,
the three threads are distinct, `Blocks` is a natural number and, in the whole
program, large enough to number all blocks, `Spurious` a Boolean; the sizes of
blocks and buffers are positive; there is a channel, a satellite and a set of
ephemerides; times are natural numbers and travel times from 51 to 5500 ms (a
satellite is some 20000 km away, 66 ms; the message reaches 6 s back); records
and starts have dates from 1981 to 2099, and so have the days of `DatesRight`;
`StrayDays` are integers; signals are none of the three threads;
the times of almanacs are GPS times, and `Files` is any contents of the sets.

Hypotheses of single theorems: `Spurious = FALSE` where null pointers are
concerned; `Sorted`, `TwoHourly`, `TwoHourlyKept` on navigation files, which those
of the run satisfy; `Period <= SECONDS_IN_HOUR` (it is 30 s).

Only model-checked: the liveness properties `HaltReleasesAll`, `StreamDrains`,
`WaitNextReturns`, `GenerationEnds`, `ExitCompletes` and `ExitReached`, which are
out of reach of the prover. Every other property of a passing run is a theorem.

## 5. Findings

1. `fifo.c:167`: `fifo_tail` is never advanced; of the blocks queued before the
   consumer starts all but two are lost, and lost for good, so the pool of
   eight shrinks (`fifo_lost`). The stream still flows with what is left:
   `NoStandoff` and `StreamDrains` hold.
2. `sdr_iqfile.c:69`, `sdr_pluto.c:259`, `sdr_hackrf.c:225`: `fifo_destroy`
   before the consumer was stopped (`sim_destroy`).
3. `gps-sim.c:222`: the GPS thread is joined before anything would wake it
   (`sim_exit`).
4. `gps.c:1502`, `gps.c:1888`: a file with more sets than the array holds is
   counted as 14, and `eph[13]` is read; a refused file is counted as -1 to -3,
   and `eph[-2]` and below are read (`eph_count`).
5. `gui.c:365`: `gui_mvwprintw` keeps `gui_lock` when `wmove` fails (`gui_hang`).

Observations without a run of their own; each is seen by checking the named
definition with the constants given:

* `fifo.c:132`, `fifo.c:178`: conditions are tested by `if` instead of `while`,
  so a wait that returns unsignalled makes the FIFO use NULL: `NoNullBlock` in
  MCFifo with `Spurious = TRUE`.
* `fifo.c:99`: `fifo_wait_full` does not test whether the FIFO is full; main may
  wait for ever for a FIFO that filled up before: `WaitFullReturns` in
  MCSimulator with `Faults = {}`.
* `gps.c:2086`: `ipage` of a channel is never initialised (`chan` is a local
  array); the first message is made of whatever pages the value in memory leads
  to: `PageExists` in MCNavMessage with `Pages = {0, 1000}`.
* `gps.c:329`: without `--start` the month is 0 and `date2gps` reads `doy[-1]`. A
  word of 0 or any small number leads to a day before the epoch, and all is well;
  a large one is taken for a start that was asked for: "Invalid start time.", or
  a day of the file. `StartsAtFirst` in MCGpsThread fails by that, too.
* `gps.c:2892`: with "less than an hour" instead of "at most" an ephemeris is used
  for up to two hours and 30 s: `WithinFit` in MCGpsThread with 0 for
  `SinceUpdate`.
* `gps.c:1270`, `gps.c:1659`: the number of the satellite in a record is not
  tested; a blank or odd line stores its ephemeris outside of the set
  (`StrayRecord`).
* `gui.c:345`: the handlers of signals stay installed during `gui_destroy` and
  `exit`; one that runs then draws without the lock, and perhaps in a freed
  window: `UpdatesLocked` in Gui with the constants of MCGui.cfg.
* `gps.c:2073`: the second is rounded to the next frame, the week is not; after
  the end of a week one frame has the old week number: `TransmissionWeek` in
  MCNavMessage. It takes a start in the second half of a tenth of a second, so
  that the updates come up to 50 ms before the frames, or in the last half
  second of a week; `--start` accepts fractions of a second (`gps-sim.c` 104).
* `gps.c:2509`: without `--start` the simulation begins at the time of the first
  satellite of the first set, which need not be the first time of the file as
  README.md says: `StartsAtFirst` in MCGpsThread.
* `gps.c:866`: page 25 takes its reference week from the first satellite with an
  `svid`, also when its record was cut off and has no time:
  `ReferenceWeekValid` in MCGpsThread.
* `gps-sim.c:395`: the gain keys use the device also when `sdr_init` failed
  before it was opened, or after the Pluto's consumer has destroyed the context:
  `KeysHarmless` in MCSimulator.
* `gps.c:2537`: `now` moves the first set to the last even hour; a file with
  that set only has no current set during the second of the two hours.

## 6. Not modelled, and the plan

Not modelled for good: orbit, ionosphere and geodesy formulas (floating point,
no state), option parsing and text parsing, screen layout, the set-up calls of
the radio libraries beyond success and failure, the out-of-memory path of
`fifo_create`.

Not modelled either: the choice of station and path for a download, which
keeps no state (from 0 to 1 UTC, `gps.c` 2425 asks for the last hour of the day
that has just begun); files that are not sorted by time; the keys that steer the
target, which write one variable each.

What is left to prove: of the liveness properties, the part that is safety is
proved for the FIFO (`NoLostWakeup`, also in the whole program). Left are its
counterparts around it: that a GPS thread told to exit, with a consumer that
runs, always has a step of its own or of the consumer before it
(`GenerationEnds`, `ExitCompletes`), and for `Gui` that whoever waits for
`gui_lock` waits for a thread that will return it (`ExitReached`).
