----------------------------- MODULE GuiProofs -----------------------------
(* Theorems about gui_lock and the panels, for consoles of any kind and any *)
(* signals, with their proofs.  The lemmas show for each part of GuiInv     *)
(* that all steps keep it.                                                  *)
EXTENDS Gui, TLAPS

(* Threads and handlers have different names, and none that says how the    *)
(* lock is.                                                                 *)
LEMMA Names ==
    /\ {"main", "gps", "sdr"} \subseteq Users /\ Signals \subseteq Users
    /\ "main" \notin Signals /\ "gps" \notin Signals /\ "sdr" \notin Signals
    /\ "free" \notin Users /\ "destroyed" \notin Users
BY SignalsAssumption DEF Users, Threads

(* The calls the threads make are calls. *)
LEMMA CallTypes ==
    /\ {PrintAt, Draw, LastDraw, Toggle} \subseteq Calls
    /\ \A p \in Screens : Top(p) \in Calls
BY DEF Calls

(* The chain of user pointers does not leave the four screens. *)
LEMMA NextPanelType == ASSUME NEW p \in Screens PROVE NextPanel(p) \in Screens
BY DEF Screens, NextPanel

(* What a call leaves on top is a screen. *)
LEMMA EffectType ==
    ASSUME NEW c \in Calls, topPanel \in Screens, topWindow \in Screens \cup {"none"}, Effect(c)
    PROVE  topPanel' \in Screens /\ topWindow' \in Screens \cup {"none"}
<1>1. CASE c.fn = "top"
  BY <1>1 DEF Effect, Calls, PrintAt, Draw, LastDraw, Toggle, Top
<1>2. CASE c.fn = "toggle"
  BY <1>2, NextPanelType DEF Effect, TogglePanel
<1>3. CASE c.fn \notin {"top", "toggle"}
  BY <1>3 DEF Effect, panels
<1> QED BY <1>1, <1>2, <1>3

(* A thread that returns from a call had a panel on top. *)
LEMMA PanelThere ==
    ASSUME GuiInv, NEW t \in Threads, Return(t)
    PROVE  topPanel \in Screens /\ phase \notin {"init", "prompt"}
BY DEF GuiInv, GuiTypeOK, GuiStarts, DrawerHolds, Return, Users, Threads

(* A handler leaves the panels alone. *)
LEMMA HandlerPanels ==
    ASSUME GuiInv, NEW s \in Signals, Return(s)
    PROVE  UNCHANGED panels
BY DEF GuiInv, PausedStay, Return, Effect, Draw

(* When main runs and the threads are joined, no handler is left. *)
LEMMA Alone ==
    ASSUME GuiInv, Running("main"), phase \in Closing
    PROVE  \A s \in Signals : paused[s] = {} /\ at[s] \in {"none", "done"}
<1> SUFFICES ASSUME NEW s \in Signals
    PROVE  paused[s] = {} /\ at[s] \in {"none", "done"}
  OBVIOUS
<1>1. "main" \notin paused[s]  BY DEF Running
<1>2. "gps" \notin paused[s] /\ "sdr" \notin paused[s]
  BY DEF GuiInv, GuiStops, PausedStay
<1>3. paused[s] = {}  BY <1>1, <1>2 DEF GuiInv, PausedStay, Threads
<1> QED  BY <1>3 DEF GuiInv, PausedStay

(* A signal that comes is one that did not come before. *)
LEMMA NextSignalType ==
    ASSUME Uncaught # {}
    PROVE  NextSignal \in Signals /\ at[NextSignal] = "none"
BY DEF Uncaught, NextSignal

(* A thread that runs may move as it likes: the handlers do not notice. *)
LEMMA OneMoves ==
    ASSUME GuiInv, NEW t \in Threads, Running(t), UNCHANGED paused,
           \A u \in Users : u # t => at'[u] = at[u] /\ call'[u] = call[u]
    PROVE  PausedStay'
<1> SUFFICES ASSUME NEW s \in Signals
    PROVE  /\ call'[s] = Draw /\ at'[s] \in {"none", "want", "in", "done"}
           /\ paused'[s] = {} <=> at'[s] \in {"none", "done"}
           /\ paused'[s] # {} => \E u \in Threads : u \in paused'[s]
           /\ \A u \in paused'[s] : at'[u] \in {"out", "want", "in"}
  BY DEF PausedStay
<1>1. at'[s] = at[s] /\ call'[s] = call[s]  BY Names DEF Threads
<1>2. \A u \in paused[s] : u \in Users /\ u # t  BY DEF GuiInv, GuiTypeOK, Running
<1>3. \A u \in paused[s] : at'[u] = at[u]  BY <1>2
<1> QED  BY <1>1, <1>3 DEF GuiInv, PausedStay


(* A handler that runs may go on with its call. *)
LEMMA HandlerMoves ==
    ASSUME GuiInv, NEW r \in Signals, Running(r), at[r] = "want",
           at' = [at EXCEPT ![r] = "in"], UNCHANGED <<call, paused>>
    PROVE  PausedStay'
<1> SUFFICES ASSUME NEW s \in Signals
    PROVE  /\ call'[s] = Draw /\ at'[s] \in {"none", "want", "in", "done"}
           /\ paused'[s] = {} <=> at'[s] \in {"none", "done"}
           /\ paused'[s] # {} => \E u \in Threads : u \in paused'[s]
           /\ \A u \in paused'[s] : at'[u] \in {"out", "want", "in"}
  BY DEF PausedStay
<1>1. at'[s] = IF s = r THEN "in" ELSE at[s]  BY Names DEF GuiInv, GuiTypeOK
<1>2. \A u \in paused[s] : at'[u] = at[u]  BY DEF GuiInv, GuiTypeOK, Running
<1> QED  BY <1>1, <1>2 DEF GuiInv, PausedStay

LEMMA HandlerReturns ==
    ASSUME GuiInv, NEW r \in Signals, Return(r)
    PROVE  PausedStay'
<1> SUFFICES ASSUME NEW s \in Signals
    PROVE  /\ call'[s] = Draw /\ at'[s] \in {"none", "want", "in", "done"}
           /\ paused'[s] = {} <=> at'[s] \in {"none", "done"}
           /\ paused'[s] # {} => \E u \in Threads : u \in paused'[s]
           /\ \A u \in paused'[s] : at'[u] \in {"out", "want", "in"}
  BY DEF PausedStay
<1>1. at'[s] = (IF s = r THEN "done" ELSE at[s]) /\ paused'[s] = (IF s = r THEN {} ELSE paused[s])
  BY Names DEF GuiInv, GuiTypeOK, Return
<1>2. call'[s] = Draw  BY Names DEF GuiInv, GuiTypeOK, PausedStay, Return
<1>3. \A u \in paused'[s] : at'[u] = at[u]  BY <1>1 DEF GuiInv, GuiTypeOK, Running, Return
<1> QED  BY <1>1, <1>2, <1>3 DEF GuiInv, PausedStay

(* A signal pauses who runs, and who waits for that. *)
LEMMA SignalPauses == ASSUME GuiInv, Signal PROVE PausedStay'
<1>1. PICK u \in Users :
        /\ at[u] \in {"out", "want", "in"}
        /\ paused' = [paused EXCEPT ![NextSignal] = {u} \cup (IF u \in Signals THEN paused[u] ELSE {})]
  BY DEF Signal
<1>2. NextSignal \in Signals /\ at[NextSignal] = "none"  BY NextSignalType DEF Signal
<1>3. at' = [at EXCEPT ![NextSignal] = "want"] /\ call' = [call EXCEPT ![NextSignal] = Draw]
  BY DEF Signal, Begin
<1> SUFFICES ASSUME NEW s \in Signals
    PROVE  /\ call'[s] = Draw /\ at'[s] \in {"none", "want", "in", "done"}
           /\ paused'[s] = {} <=> at'[s] \in {"none", "done"}
           /\ paused'[s] # {} => \E t \in Threads : t \in paused'[s]
           /\ \A t \in paused'[s] : at'[t] \in {"out", "want", "in"}
  BY DEF PausedStay
<1>4. call'[s] = Draw  BY <1>2, <1>3, Names DEF GuiInv, GuiTypeOK, PausedStay
<1>5. \A t \in Users : at[t] \in {"out", "want", "in"} => at'[t] = at[t]
  BY <1>2, <1>3 DEF GuiInv, GuiTypeOK
<1>6. CASE s = NextSignal
  <2>1. paused'[s] = {u} \cup (IF u \in Signals THEN paused[u] ELSE {})
    BY <1>1, <1>2, <1>6 DEF GuiInv, GuiTypeOK
  <2>2. at'[s] = "want"  BY <1>3, <1>6, Names DEF GuiInv, GuiTypeOK
  <2>3. \E t \in Threads : t \in paused'[s]
    <3>1. CASE u \in Threads  BY <2>1, <3>1
    <3>2. CASE u \in Signals  BY <1>1, <2>1, <3>2 DEF GuiInv, PausedStay
    <3> QED  BY <3>1, <3>2 DEF Users
  <2>4. \A t \in paused'[s] : t \in Users /\ at[t] \in {"out", "want", "in"}
    <3>1. CASE u \in Signals  BY <1>1, <2>1, <3>1 DEF GuiInv, GuiTypeOK, PausedStay
    <3>2. CASE u \notin Signals  BY <1>1, <2>1, <3>2
    <3> QED  BY <3>1, <3>2
  <2> QED  BY <1>4, <1>5, <2>2, <2>3, <2>4
<1>7. CASE s # NextSignal
  <2>1. at'[s] = at[s] /\ paused'[s] = paused[s]
    BY <1>1, <1>3, <1>7, Names DEF GuiInv, GuiTypeOK
  <2>2. \A t \in paused[s] : t \in Users /\ at[t] \in {"out", "want", "in"}
    BY DEF GuiInv, GuiTypeOK, PausedStay
  <2> QED  BY <1>4, <1>5, <2>1, <2>2 DEF GuiInv, PausedStay
<1> QED  BY <1>6, <1>7

-----------------------------------------------------------------------------
(* Who waits for a handler stays where it was interrupted. *)
LEMMA PausedStep == GuiInv /\ [GuiNext]_guiVars => PausedStay'
<1> SUFFICES ASSUME GuiInv, [GuiNext]_guiVars PROVE PausedStay'
  OBVIOUS
<1> DEFINE Only(t) == \A u \in Users : u # t => at'[u] = at[u] /\ call'[u] = call[u]
<1>0. "main" \in Threads /\ "gps" \in Threads /\ "sdr" \in Threads  BY DEF Threads
<1>1. ASSUME NEW t \in Users, Enter(t) \/ EnterUnguarded(t) PROVE PausedStay'
  <2>1. CASE t \in Threads
    <3>1. Only(t) /\ Running(t) /\ UNCHANGED paused
      BY <1>1, <2>1 DEF Enter, EnterUnguarded, GuiInv, GuiTypeOK
    <3> QED  BY <2>1, <3>1, OneMoves
  <2>2. CASE t \in Signals
    BY <1>1, <2>2, HandlerMoves DEF Enter, EnterUnguarded
  <2> QED  BY <2>1, <2>2 DEF Users
<1>2. ASSUME NEW t \in Users, Return(t) PROVE PausedStay'
  <2>1. CASE t \in Threads
    <3>1. Only(t) /\ Running(t)
      BY <1>2, <2>1 DEF Return, GuiInv, GuiTypeOK
    <3>2. paused' = paused
      BY <1>2, <2>1, Names DEF Return, GuiInv, GuiTypeOK, Threads
    <3> QED  BY <2>1, <3>1, <3>2, OneMoves
  <2>2. CASE t \in Signals
    BY <1>2, <2>2, HandlerReturns
  <2> QED  BY <2>1, <2>2 DEF Users
<1>3. ASSUME NEW t \in Users, ReturnEarly(t) PROVE PausedStay'
  <2>1. t \in Threads
    BY <1>3 DEF ReturnEarly, GuiInv, PausedStay, Users, PrintAt, Draw
  <2>2. Only(t) /\ Running(t) /\ UNCHANGED paused
    BY <1>3 DEF ReturnEarly, GuiInv, GuiTypeOK
  <2> QED  BY <2>1, <2>2, OneMoves
<1>4. CASE MainStarts
  <2>1. CASE CreateGps
    <3>1. Only("gps") /\ Running("gps") /\ UNCHANGED paused
      BY <2>1 DEF CreateGps, Running, MainIs, GuiInv, GuiTypeOK, GuiStarts, PausedStay
    <3> QED  BY <1>0, <3>1, OneMoves
  <2>2. CASE RunSdr
    <3>1. Only("sdr") /\ Running("sdr") /\ UNCHANGED paused
      BY <2>2 DEF RunSdr, Running, MainIs, GuiInv, GuiTypeOK, GuiStarts, PausedStay
    <3> QED  BY <1>0, <3>1, OneMoves
  <2>3. CASE InitLock \/ InitWindows \/ SdrInitFails \/ SdrInit \/ NoSdr
    <3>1. Only("main") /\ Running("main") /\ UNCHANGED paused
      BY <2>3 DEF InitLock, InitWindows, SdrInitFails, SdrInit, NoSdr, MainIs, Begin,
         GuiInv, GuiTypeOK
    <3> QED  BY <1>0, <3>1, OneMoves
  <2> QED  BY <1>4, <2>1, <2>2, <2>3 DEF MainStarts
<1>5. CASE MainStops /\ ~Gone
  <2>1. Only("main") /\ Running("main") /\ UNCHANGED paused
    BY <1>5 DEF MainStops, LeaveLoop, LeaveNow, JoinGps, JoinSdr, GuiDestroy,
       UnlockAnyway, DestroyLock, FreeWindows, ExitProgram, MainIs
  <2> QED  BY <1>0, <2>1, OneMoves
<1>6. CASE MainChooses /\ ~Gone
  <2>1. Only("main") /\ Running("main") /\ UNCHANGED paused
    BY <1>6 DEF MainChooses, SayNo, SetUp, Messages, Key, ExitKey, MainIs, Begin,
       GuiInv, GuiTypeOK
  <2> QED  BY <1>0, <2>1, OneMoves
<1>7. CASE GpsCalls \/ GpsExits
  <2>1. Only("gps") /\ Running("gps") /\ UNCHANGED paused
    BY <1>7 DEF GpsCalls, GpsExits, Begin, GuiInv, GuiTypeOK
  <2> QED  BY <1>0, <2>1, OneMoves
<1>8. CASE SdrCalls \/ SdrExits
  <2>1. Only("sdr") /\ Running("sdr") /\ UNCHANGED paused
    BY <1>8 DEF SdrCalls, SdrExits, Begin, GuiInv, GuiTypeOK
  <2> QED  BY <1>0, <2>1, OneMoves
<1>9. CASE Signal
  BY <1>9, SignalPauses
<1>10. CASE Gone
  BY <1>10, Names DEF Gone, PausedStay
<1>11. CASE UNCHANGED guiVars
  BY <1>11 DEF guiVars, GuiInv, PausedStay
<1> QED
  BY <1>1, <1>2, <1>3, <1>4, <1>5, <1>6, <1>7, <1>8, <1>9, <1>10, <1>11 DEF GuiNext,
     CallStep, Crash, SignalAgain

(* Locks and unlocks come in pairs; what gui_destroy unlocks nobody uses.   *)
LEMMA DrawerStep == GuiInv /\ [GuiNext]_guiVars => (DrawerHolds /\ LockReturned)'
<1> SUFFICES ASSUME GuiInv, [GuiNext]_guiVars PROVE (DrawerHolds /\ LockReturned)'
  OBVIOUS
<1> USE DEF GuiInv, GuiTypeOK, Users, Threads, mains, panels, DrawerHolds, LockReturned,
   Leaked, PausedStay, GuiStarts, GuiStops, Draw, PrintAt
<1>1. ASSUME NEW t \in Users, Enter(t) \/ EnterUnguarded(t) PROVE (DrawerHolds /\ LockReturned)'
  BY <1>1, Names DEF Enter, EnterUnguarded, CanLock, Running
<1>2. ASSUME NEW t \in Users, Return(t) PROVE (DrawerHolds /\ LockReturned)'
  BY <1>2, Names DEF Return, Running, Unlock
<1>3. ASSUME NEW t \in Users, ReturnEarly(t) PROVE (DrawerHolds /\ LockReturned)'
  BY <1>3, Names DEF ReturnEarly, Running
<1>4. CASE MainStarts
  BY <1>4, Names DEF MainStarts, InitLock, InitWindows, SdrInitFails, SdrInit,
     CreateGps, RunSdr, NoSdr, MainIs, Begin, Running
<1>5. CASE MainStops /\ ~Gone
  <2>1. CASE UnlockAnyway
    <3>1. \A u \in Users : at[u] # "in"
      BY <2>1, Alone DEF UnlockAnyway, MainIs, Closing
    <3> QED  BY <2>1, <3>1, Names DEF UnlockAnyway
  <2>2. CASE DestroyLock
    BY <2>2, Names DEF DestroyLock
  <2>3. CASE LeaveLoop \/ JoinGps \/ JoinSdr \/ FreeWindows
    BY <2>3 DEF LeaveLoop, JoinGps, JoinSdr, FreeWindows
  <2> QED  BY <1>5, <2>1, <2>2, <2>3 DEF MainStops, GuiDestroy, ExitProgram
<1>6. CASE MainChooses /\ ~Gone
  BY <1>6, Names DEF MainChooses, SayNo, SetUp, Messages, Key, ExitKey, MainIs,
     Begin, Running
<1>7. CASE GpsCalls \/ GpsExits
  BY <1>7, Names DEF GpsCalls, GpsExits, Begin, Running
<1>8. CASE SdrCalls \/ SdrExits
  BY <1>8, Names DEF SdrCalls, SdrExits, Begin, Running
<1>9. CASE Signal
  BY <1>9, NextSignalType, Names DEF Signal, Begin
<1>10. CASE Gone
  BY <1>10, GuiAssumption, Names DEF Gone
<1>11. CASE UNCHANGED guiVars
  BY <1>11 DEF guiVars
<1> QED
  BY <1>1, <1>2, <1>3, <1>4, <1>5, <1>6, <1>7, <1>8, <1>9, <1>10, <1>11 DEF GuiNext,
     CallStep, Crash, SignalAgain

(* Threads and panels come after main made them. *)
LEMMA StartsStep == GuiInv /\ [GuiNext]_guiVars => GuiStarts'
<1> SUFFICES ASSUME GuiInv, [GuiNext]_guiVars PROVE GuiStarts'
  OBVIOUS
<1> USE DEF GuiInv, GuiTypeOK, Users, Threads, mains, panels, GuiStarts,
   PausedStay, Draw, PrintAt
<1>1. ASSUME NEW t \in Users, Enter(t) \/ EnterUnguarded(t) PROVE GuiStarts'
  BY <1>1, Names DEF Enter, EnterUnguarded, CanLock, Running
<1>2. ASSUME NEW t \in Users, Return(t) PROVE GuiStarts'
  <2>1. CASE t \in Signals
    BY <1>2, <2>1, HandlerPanels, Names DEF Return
  <2>2. CASE t \in Threads
    <3>1. topPanel' \in Screens
      BY <1>2, <2>2, PanelThere, EffectType DEF Return
    <3> QED
      BY <1>2, <2>2, <3>1, PanelThere, Names DEF Return, Screens
  <2> QED  BY <2>1, <2>2
<1>3. ASSUME NEW t \in Users, ReturnEarly(t) PROVE GuiStarts'
  BY <1>3, Names DEF ReturnEarly, Running
<1>4. CASE MainStarts
  BY <1>4, Names DEF MainStarts, InitLock, InitWindows, SdrInitFails, SdrInit,
     CreateGps, RunSdr, NoSdr, MainIs, Begin, Running
<1>5. CASE MainStops /\ ~Gone
  BY <1>5, Names DEF MainStops, LeaveLoop, LeaveNow, JoinGps, GpsJoined, JoinSdr,
     GuiDestroy, UnlockAnyway, DestroyLock, FreeWindows, ExitProgram, MainIs, Running
<1>6. CASE MainChooses /\ ~Gone
  BY <1>6, Names DEF MainChooses, SayNo, SetUp, Messages, Key, ExitKey, MainIs,
     Begin, Running
<1>7. CASE GpsCalls \/ GpsExits
  BY <1>7, Names DEF GpsCalls, GpsExits, Begin, Running
<1>8. CASE SdrCalls \/ SdrExits
  BY <1>8, Names DEF SdrCalls, SdrExits, Begin, Running
<1>9. CASE Signal
  BY <1>9, NextSignalType, Names DEF Signal, Begin
<1>10. CASE Gone
  BY <1>10, GuiAssumption, Names DEF Gone
<1>11. CASE UNCHANGED guiVars
  BY <1>11 DEF guiVars
<1> QED
  BY <1>1, <1>2, <1>3, <1>4, <1>5, <1>6, <1>7, <1>8, <1>9, <1>10, <1>11 DEF GuiNext,
     CallStep, Crash, SignalAgain

(* Threads are over when main goes on from joining them. *)
LEMMA StopsStep == GuiInv /\ [GuiNext]_guiVars => (GuiStops /\ DestroyedAlone)'
<1> SUFFICES ASSUME GuiInv, [GuiNext]_guiVars PROVE (GuiStops /\ DestroyedAlone)'
  OBVIOUS
<1> USE DEF GuiInv, GuiTypeOK, Users, Threads, mains, panels, GuiStops,
   DestroyedAlone, Closing, PausedStay
<1>1. ASSUME NEW t \in Users, Enter(t) \/ EnterUnguarded(t) PROVE (GuiStops /\ DestroyedAlone)'
  BY <1>1, Names DEF Enter, EnterUnguarded, CanLock, Running
<1>2. ASSUME NEW t \in Users, Return(t) PROVE (GuiStops /\ DestroyedAlone)'
  BY <1>2, Names DEF Return, Running, Unlock
<1>3. ASSUME NEW t \in Users, ReturnEarly(t) PROVE (GuiStops /\ DestroyedAlone)'
  BY <1>3, Names DEF ReturnEarly, Running
<1>4. CASE MainStarts
  BY <1>4, Names DEF MainStarts, InitLock, InitWindows, SdrInitFails, SdrInit,
     CreateGps, RunSdr, NoSdr, MainIs, Begin, Running
<1>5. CASE MainStops /\ ~Gone
  BY <1>5, Names DEF MainStops, LeaveLoop, LeaveNow, JoinGps, GpsJoined, JoinSdr,
     GuiDestroy, UnlockAnyway, DestroyLock, FreeWindows, ExitProgram, MainIs, Running
<1>6. CASE MainChooses /\ ~Gone
  BY <1>6, Names DEF MainChooses, SayNo, SetUp, Messages, Key, ExitKey, MainIs,
     Begin, Running
<1>7. CASE GpsCalls \/ GpsExits
  BY <1>7, Names DEF GpsCalls, GpsExits, Begin, Running
<1>8. CASE SdrCalls \/ SdrExits
  BY <1>8, Names DEF SdrCalls, SdrExits, Begin, Running
<1>9. CASE Signal
  BY <1>9, NextSignalType, Names DEF Signal, Begin
<1>10. CASE Gone
  BY <1>10, GuiAssumption, Names DEF Gone
<1>11. CASE UNCHANGED guiVars
  BY <1>11 DEF guiVars
<1> QED
  BY <1>1, <1>2, <1>3, <1>4, <1>5, <1>6, <1>7, <1>8, <1>9, <1>10, <1>11 DEF GuiNext,
     CallStep, Crash, SignalAgain

(* Panel and window change together. *)
LEMMA TopStep == GuiInv /\ [GuiNext]_guiVars => TopWindowAgrees'
<1> SUFFICES ASSUME GuiInv, [GuiNext]_guiVars PROVE TopWindowAgrees'
  OBVIOUS
<1> USE DEF GuiInv, mains, panels, TopWindowAgrees, GuiStarts
<1>1. ASSUME NEW t \in Users, Enter(t) \/ EnterUnguarded(t) PROVE TopWindowAgrees'
  BY <1>1, Names DEF Enter, EnterUnguarded, CanLock, Running
<1>2. ASSUME NEW t \in Users, Return(t) PROVE TopWindowAgrees'
  BY <1>2 DEF Return, Effect, TogglePanel
<1>3. ASSUME NEW t \in Users, ReturnEarly(t) PROVE TopWindowAgrees'
  BY <1>3, Names DEF ReturnEarly, Running
<1>4. CASE MainStarts
  BY <1>4, Names DEF MainStarts, InitLock, InitWindows, SdrInitFails, SdrInit,
     CreateGps, RunSdr, NoSdr, MainIs, Begin, Running
<1>5. CASE MainStops /\ ~Gone
  BY <1>5, Names DEF MainStops, LeaveLoop, LeaveNow, JoinGps, GpsJoined, JoinSdr,
     GuiDestroy, UnlockAnyway, DestroyLock, FreeWindows, ExitProgram, MainIs, Running
<1>6. CASE MainChooses /\ ~Gone
  BY <1>6, Names DEF MainChooses, SayNo, SetUp, Messages, Key, ExitKey, MainIs,
     Begin, Running
<1>7. CASE GpsCalls \/ GpsExits
  BY <1>7, Names DEF GpsCalls, GpsExits, Begin, Running
<1>8. CASE SdrCalls \/ SdrExits
  BY <1>8, Names DEF SdrCalls, SdrExits, Begin, Running
<1>9. CASE Signal
  BY <1>9, NextSignalType, Names DEF Signal, Begin
<1>10. CASE Gone
  BY <1>10, GuiAssumption, Names DEF Gone
<1>11. CASE UNCHANGED guiVars
  BY <1>11 DEF guiVars
<1> QED
  BY <1>1, <1>2, <1>3, <1>4, <1>5, <1>6, <1>7, <1>8, <1>9, <1>10, <1>11 DEF GuiNext,
     CallStep, Crash, SignalAgain

(* A call that begins is one. *)
LEMMA BeginType ==
    ASSUME GuiInv, NEW t \in Users, NEW c \in Calls, Begin(t, c)
    PROVE  /\ at' \in [Users -> {"none", "out", "want", "in", "done"}]
           /\ call' \in [Users -> Calls]
BY DEF GuiInv, GuiTypeOK, Begin

(* Types, with the panels. *)
LEMMA TypeStep == GuiInv /\ [GuiNext]_guiVars => GuiTypeOK'
<1> SUFFICES ASSUME GuiInv, [GuiNext]_guiVars PROVE GuiTypeOK'
  OBVIOUS
<1> USE DEF GuiInv, GuiTypeOK, Users, Threads, mains, panels
<1>1. ASSUME NEW t \in Users, Enter(t) \/ EnterUnguarded(t) PROVE GuiTypeOK'
  BY <1>1, Names DEF Enter, EnterUnguarded, CanLock, Running
<1>2. ASSUME NEW t \in Users, Return(t) PROVE GuiTypeOK'
  <2>1. topPanel' \in Screens \cup {"none"} /\ topWindow' \in Screens \cup {"none"}
    BY <1>2, PanelThere, EffectType, HandlerPanels DEF Return
  <2>2. paused' \in [Signals -> SUBSET Users]
    BY <1>2 DEF Return
  <2> QED
    BY <1>2, <2>1, <2>2, CallTypes DEF Return, Unlock
<1>3. ASSUME NEW t \in Users, ReturnEarly(t) PROVE GuiTypeOK'
  BY <1>3, CallTypes DEF ReturnEarly, Running
<1>4. CASE MainStarts
  <2>1. CASE SdrInit
    <3>1. call' \in [Users -> Calls] /\ at' \in [Users -> {"none", "out", "want", "in", "done"}]
      BY <2>1, BeginType, CallTypes DEF SdrInit, Screens
    <3> QED  BY <2>1, <3>1 DEF SdrInit
  <2>2. CASE InitLock \/ InitWindows
    BY <2>2 DEF InitLock, InitWindows, Screens
  <2>3. CASE SdrInitFails \/ CreateGps \/ RunSdr \/ NoSdr
    BY <2>3 DEF SdrInitFails, CreateGps, RunSdr, NoSdr
  <2> QED  BY <1>4, <2>1, <2>2, <2>3 DEF MainStarts
<1>5. CASE MainStops /\ ~Gone
  BY <1>5, Names DEF MainStops, LeaveLoop, LeaveNow, JoinGps, GpsJoined, JoinSdr,
     GuiDestroy, UnlockAnyway, DestroyLock, FreeWindows, ExitProgram, MainIs, Running
<1>6. CASE MainChooses /\ ~Gone
  <2>1. CASE SetUp \/ Messages
    <3>1. call' \in [Users -> Calls] /\ at' \in [Users -> {"none", "out", "want", "in", "done"}]
      BY <2>1, BeginType, CallTypes DEF SetUp, Messages
    <3> QED  BY <2>1, <3>1 DEF SetUp, Messages
  <2>2. CASE Key
    <3>1. call' \in [Users -> Calls] /\ at' \in [Users -> {"none", "out", "want", "in", "done"}]
      BY <2>2, BeginType, CallTypes DEF Key, Screens
    <3> QED BY <2>2, <3>1 DEF Key
  <2>3. CASE ExitKey
    BY <2>3, ZenonT(60) DEF ExitKey
  <2> QED BY <1>6, <2>1, <2>2, <2>3 DEF MainChooses, SayNo
<1>7. CASE GpsCalls \/ GpsExits
  <2>1. call' \in [Users -> Calls] /\ at' \in [Users -> {"none", "out", "want", "in", "done"}]
    BY <1>7, BeginType, CallTypes DEF GpsCalls, GpsExits
  <2> QED  BY <1>7, <2>1 DEF GpsCalls, GpsExits
<1>8. CASE SdrCalls \/ SdrExits
  <2>1. call' \in [Users -> Calls] /\ at' \in [Users -> {"none", "out", "want", "in", "done"}]
    BY <1>8, BeginType, CallTypes DEF SdrCalls, SdrExits
  <2> QED  BY <1>8, <2>1 DEF SdrCalls, SdrExits
<1>9. CASE Signal
  <2>1. PICK u \in Users :
          paused' = [paused EXCEPT ![NextSignal] = {u} \cup (IF u \in Signals THEN paused[u] ELSE {})]
    BY <1>9 DEF Signal
  <2>2. paused' \in [Signals -> SUBSET Users]
    BY <2>1
  <2> QED
    BY <1>9, <2>2, CallTypes DEF Signal, Begin
<1>10. CASE Gone
  BY <1>10, CallTypes DEF Gone
<1>11. CASE UNCHANGED guiVars
  BY <1>11 DEF guiVars
<1> QED
  BY <1>1, <1>2, <1>3, <1>4, <1>5, <1>6, <1>7, <1>8, <1>9, <1>10, <1>11 DEF GuiNext,
     CallStep, Crash, SignalAgain

-----------------------------------------------------------------------------
LEMMA GuiInvInit == GuiInit => GuiInv
<1> SUFFICES ASSUME GuiInit PROVE GuiInv
  OBVIOUS
<1>1. GuiTypeOK
  BY CallTypes, GuiAssumption DEF GuiInit, GuiTypeOK, Users, Threads
<1>2. DrawerHolds /\ PausedStay /\ GuiStarts
  BY Names DEF GuiInit, DrawerHolds, PausedStay, GuiStarts, Users, Threads
<1>3. GuiStops /\ DestroyedAlone /\ LockReturned /\ TopWindowAgrees
  BY Names DEF GuiInit, GuiStops, Closing, DestroyedAlone, LockReturned, Leaked,
     TopWindowAgrees
<1> QED BY <1>1, <1>2, <1>3 DEF GuiInv

LEMMA GuiInvStep == GuiInv /\ [GuiNext]_guiVars => GuiInv'
BY PausedStep, DrawerStep, StartsStep, StopsStep, TopStep, TypeStep DEF GuiInv

LEMMA GuiInvariant == GuiSpec => []GuiInv
BY GuiInvInit, GuiInvStep, PTL DEF GuiSpec

(* Type correctness; TAB finds a panel behind each panel. *)
THEOREM GuiTypes == GuiSpec => []GuiTypeOK
<1>1. GuiInv => GuiTypeOK
  BY DEF GuiInv
<1> QED BY <1>1, GuiInvariant, PTL

(* Mutual exclusion of main, the GPS thread, the consumer and any signal    *)
(* handlers, also when the lock was leaked, until gui_destroy destroys it.  *)
THEOREM OneDraws == GuiSpec => []Exclusive
<1>1. GuiInv => Exclusive
  BY DEF GuiInv, DrawerHolds, Exclusive
<1> QED BY <1>1, GuiInvariant, PTL

(* gui_destroy frees the windows when the other threads are over, whatever  *)
(* signals come; a handler may still come to use them (UpdatesLocked).      *)
THEOREM DestroyedLast == GuiSpec => []DestroyedAlone
<1>1. GuiInv => DestroyedAlone
  BY DEF GuiInv
<1> QED BY <1>1, GuiInvariant, PTL

(* gui_lock is leaked by gui_mvwprintw on a small console and by nothing    *)
(* else.                                                                    *)
THEOREM NoOtherLeak == GuiSpec => []LockReturned
<1>1. GuiInv => LockReturned
  BY DEF GuiInv
<1> QED BY <1>1, GuiInvariant, PTL

(* window[TOP] belongs to panel[TOP]. *)
THEOREM TopAgrees == GuiSpec => []TopWindowAgrees
<1>1. GuiInv => TopWindowAgrees
  BY DEF GuiInv
<1> QED BY <1>1, GuiInvariant, PTL

=============================================================================
