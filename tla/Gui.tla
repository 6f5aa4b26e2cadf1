-------------------------------- MODULE Gui --------------------------------
(* gui_lock, the mutex under which the threads write to the console, in     *)
(* main, the GPS thread, the consumer thread and the signal handlers that   *)
(* interrupt them, or each other; and the panels main puts on top.          *)
(*                                                                          *)
(* A call of a gui function is a lock, the drawing, which is left out, and  *)
(* an unlock.  What the threads wait for elsewhere is the subject of        *)
(* modules Fifo and Simulator.  Operators marked "Fault" are slips the code *)
(* could contain.                                                           *)
EXTENDS Integers

CONSTANTS Consoles, \* FALSE: some text lies outside of the console
          Signals   \* the signals the program may get: SIGINT, SIGTERM, SIGABRT

Threads == {"main", "gps", "sdr"}

ASSUME GuiAssumption == Consoles \subseteq BOOLEAN
ASSUME SignalsAssumption == Signals \cap (Threads \cup {"free", "destroyed"}) = {}

(* The handler of a signal goes by the name of the signal. *)
Users == Threads \cup Signals
Screens == {"TRACK", "LS_FIX", "KF_FIX", "EPHEMERIS"}

VARIABLES lock,     \* who locked gui_lock, "free" or "destroyed"
          at,       \* where in a call a thread or handler is
          call,     \* the call it makes
          paused,   \* paused[s] waits for the handler of s: the thread it runs
                    \* in and the handlers it interrupted
          phase,    \* how far main is
          mainExit, \* simulator.main_exit
          gpsExit,  \* simulator.gps_thread_exit, set by main
          fits,     \* all text is inside the console
          topPanel, \* panel[TOP]
          topWindow \* window[TOP]

panels == <<topPanel, topWindow>>
mains == <<phase, mainExit, gpsExit, fits>>
guiVars == <<lock, at, call, paused, mains, panels>>

(* gui_mvwprintw; gui_status_wprintw, gui_show_panel and their like, which  *)
(* only draw; the last message of the GPS thread.                           *)
PrintAt == [fn |-> "mvwprintw", p |-> "none"]
Draw == [fn |-> "draw", p |-> "none"]
LastDraw == [fn |-> "last", p |-> "none"]
Toggle == [fn |-> "toggle", p |-> "none"]
Top(p) == [fn |-> "top", p |-> p]
Calls == {PrintAt, Draw, LastDraw, Toggle} \cup {Top(p) : p \in Screens}

(* main is about to call gui_init. *)
GuiInit ==
    /\ lock = "free" /\ paused = [s \in Signals |-> {}]
    /\ at = [u \in Users |-> IF u = "main" THEN "out" ELSE "none"]
    /\ call = [u \in Users |-> Draw]
    /\ phase = "init" /\ mainExit = FALSE /\ gpsExit = FALSE /\ fits \in Consoles
    /\ topPanel = "none" /\ topWindow = "none"

-----------------------------------------------------------------------------
(* A call, for any thread. *)

(* A thread, or handler, runs unless another handler runs in its place. *)
Running(t) == \A s \in Signals : t \notin paused[s]

(* t enters a function of gui.c and locks. *)
Begin(t, c) == at' = [at EXCEPT ![t] = "want"] /\ call' = [call EXCEPT ![t] = c]

(* Fault: functions that only draw do not lock. *)
DrawFree(t) == lock = "free" \/ call[t].fn = "draw"

CanLock(t) == lock = "free"

(* The program is gone, with its threads, handlers and windows. *)
Gone ==
    /\ phase' = "ended" /\ lock' = "free" /\ paused' = [s \in Signals |-> {}]
    /\ at' = [u \in Users |-> "none"] /\ call' = [u \in Users |-> Draw]
    /\ topPanel' = "none" /\ topWindow' = "none"
    /\ UNCHANGED <<mainExit, gpsExit, fits>>

Enter(t) ==
    /\ at[t] = "want" /\ Running(t) /\ phase # "ended" /\ CanLock(t)
    /\ lock' = t
    /\ at' = [at EXCEPT ![t] = "in"]
    /\ UNCHANGED <<call, paused, mains, panels>>

(* After gui_destroy the lock keeps nobody out: locking it is undefined,    *)
(* and may return with an error nobody looks at.                            *)
EnterUnguarded(t) ==
    /\ at[t] = "want" /\ Running(t) /\ phase # "ended" /\ lock = "destroyed"
    /\ at' = [at EXCEPT ![t] = "in"]
    /\ UNCHANGED <<lock, call, paused, mains, panels>>

(* The destroyed lock, or the window that was freed, may as well crash the  *)
(* program.                                                                 *)
Crash(t) ==
    /\ at[t] \in {"want", "in"} /\ Running(t) /\ phase # "ended" /\ lock = "destroyed"
    /\ Gone

(* Fault: gui_toggle_current_panel leaves the function early. *)
UnlockNoToggle(t) == lock' = IF call[t] = Toggle \/ lock = "destroyed" THEN lock ELSE "free"

Unlock(t) == lock' = IF lock = "destroyed" THEN lock ELSE "free"

(* Fault: there is no panel behind the last one. *)
NextUntilLast(p) == CASE p = "TRACK" -> "LS_FIX" [] p = "LS_FIX" -> "KF_FIX"
                      [] p = "KF_FIX" -> "EPHEMERIS" [] OTHER -> "NULL"

(* The user pointers of the panels. *)
NextPanel(p) == CASE p = "TRACK" -> "LS_FIX" [] p = "LS_FIX" -> "KF_FIX"
                  [] p = "KF_FIX" -> "EPHEMERIS" [] p = "EPHEMERIS" -> "TRACK"

(* Fault: window[TOP] stays as it is. *)
TogglePanelOnly == topPanel' = NextPanel(topPanel) /\ UNCHANGED topWindow

TogglePanel == topPanel' = NextPanel(topPanel) /\ topWindow' = topPanel'

(* What a call does to the panels. *)
Effect(c) == CASE c.fn = "top" -> topPanel' = c.p /\ topWindow' = c.p
               [] c.fn = "toggle" -> TogglePanel
               [] OTHER -> UNCHANGED panels

Return(t) ==
    /\ at[t] = "in" /\ Running(t) /\ phase \notin {"prompt", "ended"}
    /\ Unlock(t)
    /\ Effect(call[t])
    /\ at' = [at EXCEPT ![t] = IF call[t] = LastDraw \/ t \in Signals THEN "done" ELSE "out"]
    /\ call' = [call EXCEPT ![t] = Draw]
    /\ paused' = [s \in Signals |-> IF s = t THEN {} ELSE paused[s]]
    /\ UNCHANGED mains

(* wmove returns ERR: gui_mvwprintw returns without unlocking. *)
ReturnEarly(t) ==
    /\ at[t] = "in" /\ Running(t) /\ phase # "ended" /\ call[t] = PrintAt /\ ~fits
    /\ at' = [at EXCEPT ![t] = "out"]
    /\ call' = [call EXCEPT ![t] = Draw]
    /\ UNCHANGED <<lock, paused, mains, panels>>

CallStep(t) == Enter(t) \/ EnterUnguarded(t) \/ Crash(t) \/ Return(t) \/ ReturnEarly(t)

-----------------------------------------------------------------------------
(* main *)

MainIs(p) == phase = p /\ at["main"] = "out" /\ Running("main")

(* gui_init locks; on a small console it asks whether to go on. *)
InitLock ==
    /\ MainIs("init") /\ lock = "free"
    /\ lock' = "main" /\ at' = [at EXCEPT !["main"] = "in"]
    /\ phase' = "prompt"
    /\ UNCHANGED <<call, paused, mainExit, gpsExit, fits, panels>>

(* "Do you still want to continue? [Y/N]": N. *)
SayNo ==
    /\ phase = "prompt" /\ Running("main") /\ ~fits
    /\ Gone

(* Y, or the console is large enough. *)
InitWindows ==
    /\ phase = "prompt" /\ Running("main")
    /\ topPanel' = "TRACK"
    /\ lock' = "free" /\ at' = [at EXCEPT !["main"] = "out"]
    /\ phase' = "setup"
    /\ UNCHANGED <<call, paused, mainExit, gpsExit, fits, topWindow>>

(* sdr_init describes the device and its errors. *)
SetUp ==
    /\ MainIs("setup")
    /\ \E c \in {PrintAt, Draw} : Begin("main", c)
    /\ UNCHANGED <<lock, paused, mains, panels>>

SdrInitFails ==
    /\ MainIs("setup")
    /\ phase' = "loop"
    /\ UNCHANGED <<lock, at, call, paused, mainExit, gpsExit, fits, panels>>

SdrInit ==
    /\ MainIs("setup")
    /\ Begin("main", Top("LS_FIX"))
    /\ phase' = "create"
    /\ UNCHANGED <<lock, paused, mainExit, gpsExit, fits, panels>>

CreateGps ==
    /\ MainIs("create")
    /\ at' = [at EXCEPT !["gps"] = "out"]
    /\ phase' = "run"
    /\ UNCHANGED <<lock, call, paused, mainExit, gpsExit, fits, panels>>

(* "Time out waiting for GPS thread." *)
Messages ==
    /\ MainIs("run")
    /\ Begin("main", Draw)
    /\ UNCHANGED <<lock, paused, mains, panels>>

(* sdr_run creates the consumer thread. *)
RunSdr ==
    /\ MainIs("run")
    /\ at' = [at EXCEPT !["sdr"] = "out"]
    /\ phase' = "loop"
    /\ UNCHANGED <<lock, call, paused, mainExit, gpsExit, fits, panels>>

(* There is no radio, sdr_run fails or the GPS thread has ended. *)
NoSdr ==
    /\ MainIs("run")
    /\ phase' = "loop" /\ gpsExit' \in BOOLEAN
    /\ UNCHANGED <<lock, at, call, paused, mainExit, fits, panels>>

(* Keys that call gui functions: F1 to F3, TAB, and those that only draw. *)
Key ==
    /\ MainIs("loop") /\ ~mainExit
    /\ \E c \in {Toggle, Draw, Top("TRACK"), Top("LS_FIX"), Top("KF_FIX")} : Begin("main", c)
    /\ UNCHANGED <<lock, paused, mains, panels>>

ExitKey ==
    /\ MainIs("loop") /\ ~mainExit
    /\ mainExit' = TRUE
    /\ UNCHANGED <<lock, at, call, paused, phase, gpsExit, fits, panels>>

(* Fault: getch waits for a key, there is no timeout. *)
LeaveAtKey == MainIs("loop") /\ mainExit /\ \A s \in Signals : at[s] = "none"

(* gui_getch returns at least every 100 ms. *)
LeaveNow == MainIs("loop") /\ mainExit

LeaveLoop ==
    /\ LeaveNow
    /\ gpsExit' = TRUE
    /\ phase' = "join"
    /\ UNCHANGED <<lock, at, call, paused, mainExit, fits, panels>>

(* Fault: the GPS thread is detached. *)
GpsDetached == TRUE

GpsJoined == at["gps"] \in {"none", "done"}

JoinGps ==
    /\ MainIs("join") /\ GpsJoined
    /\ phase' = "close"
    /\ UNCHANGED <<lock, at, call, paused, mainExit, gpsExit, fits, panels>>

(* sdr_close *)
JoinSdr ==
    /\ MainIs("close") /\ at["sdr"] \in {"none", "done"}
    /\ phase' = "destroy"
    /\ UNCHANGED <<lock, at, call, paused, mainExit, gpsExit, fits, panels>>

(* gui_destroy unlocks "just in case", whoever holds the lock, *)
UnlockAnyway ==
    /\ MainIs("destroy")
    /\ lock' = "free"
    /\ phase' = "unlocked"
    /\ UNCHANGED <<at, call, paused, mainExit, gpsExit, fits, panels>>

(* destroys it, *)
DestroyLock ==
    /\ MainIs("unlocked")
    /\ lock' = "destroyed"
    /\ phase' = "unguarded"
    /\ UNCHANGED <<at, call, paused, mainExit, gpsExit, fits, panels>>

(* and frees the windows.  The signal handlers are still installed, *)
FreeWindows ==
    /\ MainIs("unguarded")
    /\ phase' = "freed"
    /\ UNCHANGED <<lock, at, call, paused, mainExit, gpsExit, fits, panels>>

(* until the program is gone. *)
ExitProgram ==
    /\ MainIs("freed")
    /\ Gone

GuiDestroy == UnlockAnyway \/ DestroyLock \/ FreeWindows \/ ExitProgram

MainStarts == \/ InitLock \/ InitWindows \/ SdrInitFails \/ SdrInit \/ CreateGps \/ RunSdr \/ NoSdr
MainStops == LeaveLoop \/ JoinGps \/ JoinSdr \/ GuiDestroy
MainChooses == SayNo \/ SetUp \/ Messages \/ Key \/ ExitKey

-----------------------------------------------------------------------------
(* The other threads. *)

GpsCalls ==
    /\ at["gps"] = "out" /\ Running("gps") /\ phase # "ended"
    /\ \E c \in {PrintAt, Draw} : Begin("gps", c)
    /\ UNCHANGED <<lock, paused, mains, panels>>

(* Its duration is over, it failed, or it was told to exit. *)
GpsExits ==
    /\ at["gps"] = "out" /\ Running("gps") /\ phase # "ended"
    /\ Begin("gps", LastDraw)
    /\ UNCHANGED <<lock, paused, mains, panels>>

(* "Error pushing TX buffer", "Error writing IQ data file". *)
SdrCalls ==
    /\ at["sdr"] = "out" /\ Running("sdr") /\ phase # "ended"
    /\ Begin("sdr", Draw)
    /\ UNCHANGED <<lock, paused, mains, panels>>

SdrExits ==
    /\ at["sdr"] = "out" /\ Running("sdr") /\ phase # "ended"
    /\ at' = [at EXCEPT !["sdr"] = "done"]
    /\ UNCHANGED <<lock, call, paused, mains, panels>>

(* Handlers are alike, so it does not matter which of the signals that have *)
(* not come yet is next.                                                    *)
Uncaught == {s \in Signals : at[s] = "none"}
NextSignal == CHOOSE s \in Uncaught : TRUE

(* A signal arrives in any thread, at any point of a call, also in the      *)
(* handler of another signal.  Its handler is for the first time only.      *)
Signal ==
    /\ Uncaught # {} /\ phase # "ended"
    /\ \E u \in Users :
        /\ at[u] \in {"out", "want", "in"} /\ Running(u)
        /\ paused' = [paused EXCEPT ![NextSignal] = {u} \cup (IF u \in Signals THEN paused[u] ELSE {})]
    /\ Begin(NextSignal, Draw)
    /\ mainExit' = TRUE
    /\ UNCHANGED <<lock, phase, gpsExit, fits, panels>>

(* The second time the signal ends the program, if there is a thread that   *)
(* is not in its handler.                                                   *)
SignalAgain ==
    /\ phase # "ended"
    /\ \E s \in Signals, t \in Threads :
        /\ at[s] # "none" /\ at[t] \in {"out", "want", "in"} /\ t \notin paused[s]
    /\ Gone

GuiNext ==
    \/ \E u \in Users : CallStep(u)
    \/ MainStarts \/ MainStops \/ MainChooses
    \/ GpsCalls \/ GpsExits \/ SdrCalls \/ SdrExits
    \/ Signal \/ SignalAgain

GuiSpec == GuiInit /\ [][GuiNext]_guiVars

(* Threads go on with what they have begun, and each thread that asks for   *)
(* the lock again and again gets it: the GPS thread and the consumer sleep  *)
(* on the FIFO between their calls.  Nobody presses a key or sends a signal *)
(* unless he likes, but the prompt gets an answer.  Main prints a few       *)
(* messages while it starts the threads, and told to exit, the GPS thread   *)
(* and the consumer leave their loops.                                      *)
GuiFairness ==
    /\ \A t \in Threads : SF_guiVars(Enter(t))
    /\ SF_guiVars(\E s \in Signals : Enter(s) \/ EnterUnguarded(s))
    /\ WF_guiVars(\E u \in Users : Return(u) \/ ReturnEarly(u))
    /\ SF_guiVars(MainStarts \/ MainStops)
    /\ SF_guiVars((gpsExit /\ GpsExits) \/ (phase = "close" /\ SdrExits))

GuiFairSpec == GuiSpec /\ GuiFairness

-----------------------------------------------------------------------------
(* Properties.                                                              *)

(* Type invariant; in particular TAB always finds a panel. *)
GuiTypeOK ==
    /\ lock \in Users \cup {"free", "destroyed"}
    /\ at \in [Users -> {"none", "out", "want", "in", "done"}]
    /\ call \in [Users -> Calls]
    /\ paused \in [Signals -> SUBSET Users]
    /\ phase \in {"init", "prompt", "setup", "create", "run", "loop", "join", "close",
                 "destroy", "unlocked", "unguarded", "freed", "ended"}
    /\ mainExit \in BOOLEAN /\ gpsExit \in BOOLEAN /\ fits \in BOOLEAN
    /\ topPanel \in Screens \cup {"none"} /\ topWindow \in Screens \cup {"none"}

(* While there is a lock, no two threads or handlers write to the console   *)
(* at once.                                                                 *)
Exclusive == lock # "destroyed" => \A u, w \in Users : at[u] = "in" /\ at[w] = "in" => u = w

(* gui_destroy destroys the lock and frees the windows when the other       *)
(* threads are over and main is in no call.  That is less than nobody: a    *)
(* signal may still come (see UpdatesLocked).                               *)
DestroyedAlone ==
    lock = "destroyed" => at["main"] = "out" /\ \A t \in {"gps", "sdr"} : at[t] \in {"none", "done"}

(* gui.c calls gui_lock the "Mutex to lock access during GUI updates".  It  *)
(* fails for the handler of a signal that comes during gui_destroy or exit: *)
(* that draws without the lock, in windows that may be freed.               *)
UpdatesLocked == \A u \in Users : at[u] = "in" => lock = u

(* Who does not draw does not hold the lock, unless text was outside of the *)
(* console.                                                                 *)
Leaked == lock \in Users /\ at[lock] # "in"
LockReturned == Leaked => ~fits

(* A handler waits for a lock that the thread it runs in, or a handler it   *)
(* interrupted, holds.                                                      *)
HandlerStuck == \E s \in Signals : at[s] = "want" /\ lock \in paused[s]

(* An exit request, by key or by signals, ends the program, however the     *)
(* calls of its threads and handlers interleave, but for two cases: the     *)
(* lock was leaked, or a handler interrupted who held it.  The end may be a *)
(* crash, or a signal that came again.                                      *)
ExitReached == mainExit ~> (phase = "ended" \/ Leaked \/ HandlerStuck)

(* The window that gui_mvwprintw refreshes is that of the panel on top, or  *)
(* none before the first panel was put there.                               *)
TopWindowAgrees ==
    /\ topWindow \in {topPanel, "none"}
    /\ topWindow = "none" => topPanel \in {"TRACK", "none"}

(* gui.c asks "Do you still want to continue?" on a small console: whoever  *)
(* calls a gui function then comes back from it.                            *)
CallsReturn == \A t \in Threads : at[t] = "want" ~> at[t] # "want"

(* The inductive invariant.  Who draws holds the lock, as long as there is  *)
(* one;                                                                     *)
DrawerHolds == \A u \in Users : at[u] = "in" => lock \in {u, "destroyed"}

(* a handler runs in a thread, and who waits for it stays inside what it    *)
(* was interrupted in;                                                      *)
PausedStay == \A s \in Signals :
    /\ call[s] = Draw /\ at[s] \in {"none", "want", "in", "done"}
    /\ paused[s] = {} <=> at[s] \in {"none", "done"}
    /\ paused[s] # {} => \E t \in Threads : t \in paused[s]
    /\ \A u \in paused[s] : at[u] \in {"out", "want", "in"}

(* a thread is not there before it is created, nor a panel before gui_init  *)
(* has made it;                                                             *)
GuiStarts ==
    /\ phase \in {"init", "prompt"} =>
        /\ topPanel = "none" /\ topWindow = "none"
        /\ call["main"] = Draw
    /\ phase \in {"init", "prompt", "setup", "create"} => at["gps"] = "none"
    /\ phase \in {"init", "prompt", "setup", "create", "run"} => at["sdr"] = "none"
    /\ phase = "init" => at["main"] = "out"
    /\ phase = "prompt" => at["main"] = "in"
    /\ topPanel = "none" => phase \in {"init", "prompt", "ended"}

(* and what it has joined is over.                                          *)
Closing == {"destroy", "unlocked", "unguarded", "freed"}
GuiStops ==
    /\ phase \in Closing \cup {"close"} => at["gps"] \in {"none", "done"}
    /\ phase \in Closing => at["sdr"] \in {"none", "done"} /\ at["main"] = "out"
    /\ lock = "destroyed" => phase \in {"unguarded", "freed"}

GuiInv ==
    /\ GuiTypeOK /\ DrawerHolds /\ PausedStay /\ GuiStarts /\ GuiStops
    /\ DestroyedAlone /\ LockReturned /\ TopWindowAgrees

=============================================================================
