----------------------------- MODULE NavMessage -----------------------------
(* The navigation message of one channel and the counters that walk through *)
(* it: generateNavMsg, computeCodePhase and the sample loop of              *)
(* gps_thread_ep, one C/A code (1 ms) at a time, with the real lengths.     *)
(*                                                                          *)
(* The message in dwrd[] is six subframes: the last one of the frame before *)
(* and the five of this frame.  Every 0.1 s computeCodePhase finds the      *)
(* position in it from the time; between, the sample loop counts codes,     *)
(* bits and words.  A new message is due every 30 s of receiver time.       *)
(*                                                                          *)
(* Times are in ms from the start of a week (all times are whole ms, see    *)
(* incGpsTime).  Words are not modelled bit by bit: a subframe is known by  *)
(* what tells it from others.  An operator whose comment starts with        *)
(* "Fault" is a slip the code could contain.                                *)
EXTENDS Integers

CONSTANTS Starts,  \* times a simulation may start at
          Lags,    \* signal travel times, rounded up to ms
          Pages,   \* values the memory of ipage may have at first
          Until    \* bound on the time of the receiver

Week == 604800000
MaxPage == 25

(* A signal is under way for 51 ms at least (a satellite is never nearer    *)
(* than 20000 km, 66 ms) and for less than the 5.5 s the message reaches    *)
(* back.                                                                    *)
ASSUME TimesAssumption == Starts \subseteq Nat /\ Pages \subseteq Int /\ Until \in Nat
ASSUME LagsAssumption == Lags \subseteq 51..5500

VARIABLES pc,       \* where the loop over iumd is
          grx,      \* receiver time
          used,     \* chan.prn # 0
          g0,       \* chan.g0, data bit reference time
          dwrd,     \* chan.dwrd, a subframe for each ten words
          ipage,    \* chan.ipage
          rho0,     \* time and travel time of chan.rho0
          iword, ibit, icode,  \* position in the message
          dataBit,  \* which bit chan.dataBit is
          codes,    \* codes computed since the position was last found
          tx,       \* time at which the satellite sent the present code
          again     \* the last message was for a frame that had one already

nav == <<g0, dwrd, ipage, again>>
position == <<iword, ibit, icode, dataBit>>
vars == <<pc, grx, used, nav, rho0, position, codes, tx>>

WeekOf(t) == t \div Week
SecOf(t) == t % Week
Abs(g) == g.week * Week + g.sec

(* Data bit reference time: rounded to a second, aligned with the frame. *)
Align(t) == [week |-> WeekOf(t), sec |-> (((SecOf(t) + 500) \div 1000) \div 30) * 30000]
Tow(t) == Align(t).sec \div 6000

Subframe(sub, t, n, page) ==
    [sub |-> sub, tow |-> Tow(t) + n, wn |-> WeekOf(t) % 1024, page |-> page]
NoSubframe == [sub |-> 0, tow |-> 0, wn |-> 0, page |-> 0]

(* The subframes generated for time t, behind a first one. *)
Frame(t, page, first) ==
    [k \in 0..5 |-> IF k = 0 THEN first ELSE Subframe(k, t, k, page)]

(* Fault: the test for the last page comes one page late. *)
NextPageLate(p) == IF p + 1 > MaxPage THEN 0 ELSE p + 1

NextPage(p) == IF p + 1 >= MaxPage THEN 0 ELSE p + 1

(* Fault: the last subframe but one is kept. *)
WrongLast(d) == d[4]

(* What is on the air when a message ends: words 50 to 59. *)
Last(d) == d[5]

(* A bit of the message as the receiver sees it.  Words from 60 on are      *)
(* outside the array.                                                       *)
Bit(d, w, b) == IF w < 60 THEN [sub |-> d[w \div 10].sub, tow |-> d[w \div 10].tow, word |-> w % 10, bit |-> b]
                          ELSE [sub |-> 0, tow |-> 0, word |-> w, bit |-> b]

(* allocateChannel gives the channel to a satellite at time t:              *)
(* generateNavMsg with init = 1, page p.                                    *)
Allocate(t, p) ==
    /\ g0' = Align(t)
    /\ dwrd' = Frame(t, p, Subframe(5, t, 0, p))
    /\ ipage' = NextPage(p)
    /\ again' = FALSE
    /\ \E l \in Lags : rho0' = [g |-> t, lag |-> l]

(* The simulation starts at time t, the channel in use or not; its other    *)
(* fields hold what was in memory.                                          *)
Init == \E t \in Starts, p \in Pages, l \in Lags :
    /\ pc = "compute" /\ grx = t + 100
    /\ \/ /\ used = TRUE /\ g0 = Align(t) /\ ipage = NextPage(p)
          /\ dwrd = Frame(t, p, Subframe(5, t, 0, p))
       \/ /\ used = FALSE /\ g0 = [week |-> 0, sec |-> 0] /\ ipage = p
          /\ dwrd = [k \in 0..5 |-> NoSubframe]
    /\ rho0 = [g |-> t, lag |-> l]
    /\ iword = 0 /\ ibit = 0 /\ icode = 0
    /\ dataBit = Bit([k \in 0..5 |-> NoSubframe], 0, 0)
    /\ codes = 0 /\ tx = 0 /\ again = FALSE

-----------------------------------------------------------------------------
(* computeCodePhase for the interval that ends at grx.  The position is     *)
(* that of the previous range, rho0, which the new one then replaces; from  *)
(* one to the next a range changes by less than a ms, 300 km.               *)
Compute ==
    /\ pc = "compute" /\ used
    /\ LET ims == rho0.g - Abs(g0) + 6000 - rho0.lag
       IN  /\ iword' = ims \div 600
           /\ ibit' = (ims % 600) \div 20
           /\ icode' = ims % 20
    /\ dataBit' = Bit(dwrd, iword', ibit')
    /\ tx' = rho0.g - rho0.lag
    /\ \E l \in Lags \cap (rho0.lag - 1)..(rho0.lag + 1) : rho0' = [g |-> grx, lag |-> l]
    /\ codes' = 0 /\ pc' = "samples"
    /\ UNCHANGED <<grx, used, nav>>

(* Nothing to do for an unused channel. *)
Skip ==
    /\ pc = "compute" /\ ~used
    /\ pc' = "samples"
    /\ UNCHANGED <<grx, used, nav, rho0, position, codes, tx>>

(* Fault: the last bit of a word is not counted. *)
Carry29(b) == b >= 29

(* 30 bits are a word. *)
WordFull(b) == b >= 30

(* The code phase passes CA_SEQ_LEN: one more code.  With the Doppler shift *)
(* there are 99 to 101 of them in an interval.                              *)
NextCode ==
    /\ pc = "samples" /\ used /\ codes < 101
    /\ IF icode + 1 >= 20
       THEN /\ icode' = 0
            /\ ibit' = IF WordFull(ibit + 1) THEN 0 ELSE ibit + 1
            /\ iword' = IF WordFull(ibit + 1) THEN iword + 1 ELSE iword
            /\ dataBit' = Bit(dwrd, iword', ibit')
       ELSE icode' = icode + 1 /\ UNCHANGED <<iword, ibit, dataBit>>
    /\ codes' = codes + 1 /\ tx' = tx + 1
    /\ UNCHANGED <<pc, grx, used, nav, rho0>>

-----------------------------------------------------------------------------
(* The update every 30 seconds. *)

Igrx(t) == (SecOf(t) + 50) \div 100

(* Fault: compared as it is. *)
DueExactly(t) == t % 30000 = 0

Due(t) == Igrx(t) % 300 = 0

(* generateNavMsg with init = 0. *)
Renew == /\ g0' = Align(grx)
         /\ dwrd' = Frame(grx, ipage, Last(dwrd))
         /\ ipage' = NextPage(ipage)
         /\ again' = (Abs(g0') = Abs(g0))
         /\ UNCHANGED rho0

(* The satellite keeps the channel, or loses it, or another one gets it in  *)
(* the same pass of allocateChannel; pages then go on from where they were. *)
Continue == used /\ used' = used /\ Renew
Clear == used /\ used' = FALSE /\ Renew
Replace == used /\ used' = used /\ Allocate(grx, NextPage(ipage))
Occupy == ~used /\ used' = TRUE /\ Allocate(grx, ipage)

StayUnused == ~used /\ UNCHANGED <<used, nav, rho0>>

(* The end of a round; the receiver's time moves on by 0.1 s. *)
EndRound ==
    /\ pc = "samples" /\ grx < Until
    /\ used => codes \in 99..101
    /\ IF Due(grx) THEN Continue \/ Clear \/ Replace \/ Occupy \/ StayUnused
                   ELSE UNCHANGED <<used, nav, rho0>>
    /\ grx' = grx + 100 /\ pc' = "compute"
    /\ UNCHANGED <<position, codes, tx>>

Next == Compute \/ Skip \/ NextCode \/ EndRound

Spec == Init /\ [][Next]_vars

-----------------------------------------------------------------------------
(* Properties.                                                              *)

SubframeType == [sub : 0..5, tow : Nat, wn : 0..1023, page : Int]

(* Type invariant.  Its heart is iword: nothing in the sample loop keeps it *)
(* inside dwrd[] (the test is commented out); that it never leaves depends  *)
(* on a new message being due in time, wherever in a second the simulation  *)
(* started, and on the travel time of the signal.                           *)
TypeOK ==
    /\ pc \in {"compute", "samples"} /\ grx \in Nat /\ used \in BOOLEAN
    /\ g0 \in [week : Nat, sec : 0..Week]
    /\ dwrd \in [0..5 -> SubframeType] /\ ipage \in Int
    /\ rho0 \in [g : Nat, lag : Lags]
    /\ iword \in 0..59 /\ ibit \in 0..29 /\ icode \in 0..19
    /\ dataBit \in [sub : 0..5, tow : Nat, word : 0..9, bit : 0..29]
    /\ codes \in 0..101 /\ tx \in Int /\ again \in BOOLEAN

(* What a satellite has to send at time t; the count of the time of week    *)
(* in a subframe is that of the subframe after it.                          *)
BitAt(t) == [sub |-> ((t \div 6000) % 5) + 1, tow |-> ((t \div 6000) + 1) % 100800,
             word |-> (t % 6000) \div 600, bit |-> (t % 600) \div 20]

(* At every code the bit that is sent is the one due at that time: position *)
(* and message move together over the change to a new message, the end of   *)
(* the week, and when a channel changes its satellite.  Counts of the time  *)
(* of week are compared modulo a week, which the code does not reduce.      *)
(* Where a message replaced one for the same frame (a start less than half  *)
(* a second before the frame), the rest of the subframe before the frame is *)
(* not right: it is the end of the frame that is yet to come.               *)
RightBit ==
    pc = "samples" /\ used /\ ~(again /\ iword < 10)
        => [dataBit EXCEPT !.tow = @ % 100800] = BitAt(tx)

(* gps.c: "Add transmission week number to Subframe 1".  It fails for a     *)
(* frame generated in the last half second of a week, whose second is       *)
(* rounded up to the end of the week and whose week is not.                 *)
TransmissionWeek ==
    pc = "samples" /\ used /\ dwrd[iword \div 10].sub = 1
        => dwrd[iword \div 10].wn = WeekOf(tx) % 1024

(* gps.h: "25 pages of subframes 4 and 5".  Once the counter and all six    *)
(* subframes of a channel are of pages that exist they stay so, over each   *)
(* new message, the wrap behind the last page, and every change of the      *)
(* satellite.                                                               *)
ValidPages == 0..(MaxPage - 1)
PagesRight == ipage \in ValidPages /\ \A k \in 0..5 : dwrd[k].page \in ValidPages
PagesStay == [][PagesRight => PagesRight']_vars

(* Not so: a channel only sends pages that exist.  The counter is not       *)
(* initialised, and its first value may be any (Pages): the first message   *)
(* is then made of what lies outside sbf[].                                 *)
PageExists == pc = "samples" /\ used => \A k \in 0..5 : dwrd[k].page \in ValidPages

(* The inductive invariant: a new message comes in time, *)
MessageFresh == used =>
    /\ pc = "compute" => rho0.g = grx - 100
    /\ pc = "samples" => rho0.g = grx
    /\ Abs(g0) - 500 <= grx - 100 /\ grx - 100 < Abs(g0) + 29950
Aligned == g0.sec % 30000 = 0

(* the position is that of the present code, *)
PositionRight == pc = "samples" /\ used =>
    /\ iword * 600 + ibit * 20 + icode = tx - Abs(g0) + 6000
    /\ tx <= grx - 100 - 51 + codes
    /\ dataBit = Bit(dwrd, iword, ibit)

(* and the message has the subframes of its time.                           *)
MessageRight == used =>
    /\ \A k \in 1..5 : dwrd[k].sub = k /\ dwrd[k].tow = g0.sec \div 6000 + k
    /\ dwrd[0].sub = 5
    /\ again \/ dwrd[0].tow % 100800 = (g0.sec \div 6000) % 100800

NavInv == TypeOK /\ MessageFresh /\ Aligned /\ PositionRight /\ MessageRight

=============================================================================
