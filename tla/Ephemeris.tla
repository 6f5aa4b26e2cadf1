------------------------------ MODULE Ephemeris ------------------------------
(* The ephemerides of the GPS thread: readRinex2 and readRinex3 group the   *)
(* records of the navigation file into sets, gps_thread_ep finds the start  *)
(* time and the set for it, and its loop changes to the next set when that  *)
(* is less than an hour away.  Allocation is that of module Channels, whose *)
(* free choice when to change sets is made here.                            *)
(*                                                                          *)
(* A record is known by its satellite and its time; what the lines of the   *)
(* file look like is left out.  Operators marked "Fault" are slips the code *)
(* could contain.                                                           *)
EXTENDS Channels, GpsTime, Sequences

CONSTANTS NavFiles,   \* navigation files: sequences of records
          StartTimes, \* what --start may ask for
          StrayDays,  \* days that date2gps may make of no --start
          NavFaults,  \* what may fail before the start is known
          Period,     \* seconds between two updates: 30
          Until       \* bound on the simulated seconds

AllNavFaults == {"download", "open", "version", "type", "motion"}

(* Dates for which LeapDays is right, and records of a file.  The number of *)
(* a satellite is not tested by the readers; NoSat stands for all of those  *)
(* that are none.                                                           *)
NoSat == -1
Dates == [y : 1981..2099, m : 1..12, d : 1..31, hh : 0..23, mm : 0..59, sec : 0..59]
Records == [gps : BOOLEAN, sv : Sat \cup {NoSat}, t : Dates, whole : BOOLEAN]

ASSUME NavAssumption == NavFaults \subseteq AllNavFaults
ASSUME RecordsAssumption == NavFiles \subseteq Seq(Records)
ASSUME StartAssumption == StartTimes \subseteq [how : {"none", "at", "now"}, t : Dates]
ASSUME StrayAssumption == StrayDays \subseteq Int
ASSUME PeriodAssumption == Period \in Nat \ {0} /\ Until \in Nat

VARIABLES stage,    \* how far gps_thread_ep is
          file,     \* records not read yet
          start,    \* what --start asks for
          last,     \* ieph of the reader
          base,     \* g0 of the reader: first time of the set it fills
          lines,    \* flags of the reader: ionosphere and UTC lines seen
          iono,     \* ionoutc.vflg
          neph,     \* sets, as the reader returned it
          toc,      \* toc[i][s] is eph[i][s].toc
          g0,       \* start time
          grx,      \* receiver time
          outside   \* something outside eph[] or unassigned was acted upon

reading == <<file, last, base, lines>>
store == <<iono, neph, toc>>
clock == <<g0, grx>>
ephVars == <<stage, start, reading, store, clock, outside>>

NoTime == [week |-> -1, sec |-> 0]
IonoLines == {"alpha", "beta", "utc", "leap"}

(* No channel is used, no satellite allocated. *)
Unallocated ==
    /\ pc = "allocate" /\ sv = 0
    /\ prn = [c \in Chan |-> 0]
    /\ sbf = [c \in Chan |-> Nothing] /\ msg = [c \in Chan |-> Nothing]
    /\ allocatedSat = [s \in Sat |-> -1]
    /\ up = {} /\ seen = {}

(* No set holds anything. *)
EphInit ==
    /\ stage = "open" /\ file \in NavFiles /\ start \in StartTimes
    /\ last = 0 /\ base = NoTime /\ lines = {} /\ iono = FALSE
    /\ neph = 0 /\ toc = [i \in Set |-> [s \in Sat |-> Zero]]
    /\ g0 = NoTime /\ grx = NoTime /\ outside = FALSE
    /\ Unallocated
    /\ vflg = [i \in Set |-> {}] /\ ieph = 0

tables == <<pc, sv, prn, sbf, msg, allocatedSat, up, seen>>

(* goto end_gps_thread *)
End == /\ stage' = "end"
       /\ UNCHANGED <<start, reading, store, clock, tables, ieph, vflg>>

-----------------------------------------------------------------------------
(* The reader.                                                              *)

(* Neither a file nor a download was asked for, or the download failed.     *)
NoFile == stage = "open" /\ "download" \in NavFaults /\ End /\ UNCHANGED outside

(* The file cannot be opened, or is of another version or type: the reader  *)
(* returns a negative number.                                               *)
ReaderRefuses ==
    /\ stage = "open"
    /\ \/ "open" \in NavFaults /\ neph' = -1
       \/ "version" \in NavFaults /\ neph' = -2
       \/ "type" \in NavFaults /\ neph' = -3
    /\ stage' = "check"
    /\ UNCHANGED <<start, reading, iono, toc, clock, outside, vars>>

OpenFile ==
    /\ stage = "open"
    /\ vflg' = [i \in Set |-> {}]
    /\ stage' = "header"
    /\ UNCHANGED <<start, reading, store, clock, outside, tables, ieph>>

HeaderLine ==
    /\ stage = "header"
    /\ \E l \in IonoLines \ lines : lines' = lines \cup {l}
    /\ UNCHANGED <<stage, start, file, last, base, store, clock, outside, vars>>

(* END OF HEADER, or of the file. *)
EndOfHeader ==
    /\ stage = "header"
    /\ iono' = (lines = IonoLines)
    /\ lines' = {}
    /\ stage' = "records"
    /\ UNCHANGED <<start, file, last, base, neph, toc, clock, outside, vars>>

(* readRinex3 passes over the lines of other satellite systems. *)
SkipLine ==
    /\ stage = "records" /\ file # <<>> /\ ~Head(file).gps
    /\ file' = Tail(file)
    /\ UNCHANGED <<stage, start, last, base, lines, store, clock, outside, vars>>

(* More than an hour after the first record of the set. *)
NewSet(g) == base # NoTime /\ SubGpsTime(g, base) > SECONDS_IN_HOUR

(* Fault: the first time of the file counts for all sets. *)
BaseOfFile(g) == IF base = NoTime THEN g ELSE base

BaseFor(g) == IF base = NoTime \/ NewSet(g) THEN g ELSE base

(* A record goes to the present set or opens the next one.  The valid flag  *)
(* is set behind its last line: a file that ends before leaves it unset.    *)
ReadRecord ==
    /\ stage = "records" /\ file # <<>> /\ Head(file).gps /\ Head(file).sv \in Sat
    /\ LET r == Head(file)
           g == Date2Gps(r.t)
           i == IF NewSet(g) THEN last + 1 ELSE last
       IN  /\ i < Sets
           /\ base' = BaseFor(g) /\ last' = i
           /\ toc' = [toc EXCEPT ![i][r.sv] = g]
           /\ vflg' = IF r.whole THEN [vflg EXCEPT ![i] = @ \cup {r.sv}] ELSE vflg
           /\ stage' = IF r.whole THEN "records" ELSE "return"
    /\ file' = Tail(file)
    /\ UNCHANGED <<start, lines, iono, neph, clock, outside, tables, ieph>>

(* A record whose number is no satellite is stored outside its set; what    *)
(* follows is undefined.                                                    *)
StrayRecord ==
    /\ stage = "records" /\ file # <<>> /\ Head(file).gps /\ Head(file).sv \notin Sat
    /\ NewSet(Date2Gps(Head(file).t)) => last + 1 < Sets
    /\ End /\ outside' = TRUE

(* The array is full: the loop ends, its index already beyond the array. *)
TooManySets ==
    /\ stage = "records" /\ file # <<>> /\ Head(file).gps
    /\ LET g == Date2Gps(Head(file).t)
       IN  NewSet(g) /\ last + 1 >= Sets /\ base' = BaseFor(g)
    /\ last' = last + 1
    /\ stage' = "return"
    /\ UNCHANGED <<start, file, lines, store, clock, outside, vars>>

EndOfFile ==
    /\ stage = "records" /\ file = <<>>
    /\ stage' = "return"
    /\ UNCHANGED <<start, reading, store, clock, outside, vars>>

ReaderReturns ==
    /\ stage = "return"
    /\ neph' = IF base = NoTime THEN 0 ELSE last + 1
    /\ stage' = "check"
    /\ file' = <<>> /\ last' = 0 /\ base' = NoTime
    /\ UNCHANGED <<start, lines, iono, toc, clock, outside, vars>>

Reader == \/ NoFile \/ ReaderRefuses \/ OpenFile \/ HeaderLine \/ EndOfHeader \/ SkipLine
          \/ ReadRecord \/ StrayRecord \/ TooManySets \/ EndOfFile \/ ReaderReturns

-----------------------------------------------------------------------------
(* Start time and first set.                                                *)

(* "No ephemeris available." *)
NoEphemeris == stage = "check" /\ neph = 0 /\ End /\ UNCHANGED outside

(* eph[neph - 1] is outside the array; what follows is undefined. *)
WrongCount == stage = "check" /\ neph # 0 /\ neph - 1 \notin Set /\ End /\ outside' = TRUE

Counted == stage = "check" /\ neph - 1 \in Set

(* "Failed to read user motion file." *)
NoMotion == Counted /\ "motion" \in NavFaults /\ End /\ UNCHANGED outside

(* Set 0 is empty when the first record is not complete.  gmin is then read *)
(* although nothing was assigned to it.                                     *)
NoFirstTime == Counted /\ vflg[0] = {} /\ End /\ outside' = TRUE

(* The loops over satellites that leave at the first valid one. *)
FirstValid(i) == CHOOSE s \in vflg[i] : \A u \in vflg[i] : s <= u
gmin == toc[0][FirstValid(0)]
gmax == IF vflg[neph - 1] = {} THEN Zero ELSE toc[neph - 1][FirstValid(neph - 1)]

StartsAt(g) ==
    /\ g0' = g
    /\ stage' = "select"
    /\ UNCHANGED <<start, reading, iono, neph, grx, outside, vars>>

Covered(g) == SubGpsTime(g, gmin) >= 0 /\ SubGpsTime(gmax, g) >= 0

(* Without --start all of the date is 0, and date2gps takes the word before *)
(* doy[] for the days of the months before: any day may come out.  Only one *)
(* before week 0 is no start time.                                          *)
NoWeek(d) == d <= -7
DayTime(d) == [week |-> d \div 7, sec |-> (d % 7) * SECONDS_IN_DAY]

StartAtFirst ==
    /\ Counted /\ vflg[0] # {} /\ start.how = "none"
    /\ \E d \in StrayDays : NoWeek(d)
    /\ StartsAt(gmin) /\ UNCHANGED toc

StartAtStray ==
    /\ Counted /\ vflg[0] # {} /\ start.how = "none"
    /\ \E d \in StrayDays : d >= 0 /\ Covered(DayTime(d)) /\ StartsAt(DayTime(d))
    /\ UNCHANGED toc

StartAsAsked ==
    /\ Counted /\ vflg[0] # {} /\ start.how = "at" /\ Covered(Date2Gps(start.t))
    /\ StartsAt(Date2Gps(start.t)) /\ UNCHANGED toc

(* "Invalid start time."  Days -6 to -1 are of week 0, before its begin. *)
InvalidStart ==
    /\ Counted /\ vflg[0] # {}
    /\ \/ start.how = "at" /\ ~Covered(Date2Gps(start.t))
       \/ /\ start.how = "none"
          /\ \E d \in StrayDays : ~NoWeek(d) /\ (d < 0 \/ ~Covered(DayTime(d)))
    /\ End /\ UNCHANGED outside

(* The last full even hour. *)
TwoHours(g) == [g EXCEPT !.sec = (@ \div 7200) * 7200]

Moved(dsec) ==
    [i \in Set |-> [s \in Sat |->
        IF i < neph /\ s \in vflg[i] THEN IncGpsTime(toc[i][s], dsec) ELSE toc[i][s]]]

(* time_overwrite: all ephemerides are moved so that the file begins at the *)
(* last full even hour.                                                     *)
StartNow ==
    /\ Counted /\ vflg[0] # {} /\ start.how = "now"
    /\ LET now == Date2Gps(start.t)
       IN  StartsAt(now) /\ toc' = Moved(SubGpsTime(TwoHours(now), gmin))

(* Fault: the valid flag is not tested. *)
CurrentAny(i) == \E s \in Sat :
    LET dt == SubGpsTime(g0, toc[i][s])
    IN  -SECONDS_IN_HOUR <= dt /\ dt < SECONDS_IN_HOUR

(* Fault: the lower bound is excluded, too. *)
NearSet(i) == \E s \in vflg[i] :
    LET dt == SubGpsTime(g0, toc[i][s])
    IN  -SECONDS_IN_HOUR < dt /\ dt < SECONDS_IN_HOUR

(* A satellite of the set is within an hour of the start. *)
CurrentSet(i) == \E s \in vflg[i] :
    LET dt == SubGpsTime(g0, toc[i][s])
    IN  -SECONDS_IN_HOUR <= dt /\ dt < SECONDS_IN_HOUR

SelectSet ==
    /\ stage = "select"
    /\ \E i \in Set :
        /\ i < neph /\ CurrentSet(i) /\ \A j \in 0..(i - 1) : ~CurrentSet(j)
        /\ ieph' = i
    /\ stage' = "selected"
    /\ UNCHANGED <<start, reading, store, clock, outside, tables, vflg>>

(* "No current set of ephemerides has been found." *)
NoCurrentSet ==
    /\ stage = "select"
    /\ \A i \in Set : i < neph => ~CurrentSet(i)
    /\ End /\ UNCHANGED outside

ChooseStart == \/ NoEphemeris \/ WrongCount \/ NoMotion \/ NoFirstTime
               \/ StartAtFirst \/ StartAtStray \/ StartAsAsked \/ InvalidStart \/ StartNow
               \/ SelectSet \/ NoCurrentSet

(* The channels are clear; the first allocateChannel is about to run. *)
Ready ==
    /\ stage = "ready"
    /\ stage' = "run"
    /\ grx' = IncGpsTime(g0, 0)
    /\ up' \in SUBSET Sat
    /\ UNCHANGED <<start, reading, store, g0, outside>>
    /\ UNCHANGED <<pc, sv, prn, sbf, msg, allocatedSat, ieph, vflg, seen>>

-----------------------------------------------------------------------------
(* The loop over iumd.                                                      *)

running == <<stage, start, reading, store, g0>>

(* Samples are computed until the next update, which begins with the        *)
(* messages.  The steps of 0.1 s in which grx advances are taken as one:    *)
(* with pc = "samples" grx is the time of the update that was, with pc =    *)
(* "refresh" the end of the samples, for which the set has not changed yet. *)
Round ==
    /\ stage = "run" /\ SubGpsTime(grx, g0) < Until
    /\ GenerateMessages
    /\ grx' = IncGpsTime(grx, Period)
    /\ UNCHANGED <<running, outside>>

(* Fault: the next set is not used before its time. *)
DueLate(i) == vflg[i] # {} /\ SubGpsTime(toc[i][FirstValid(i)], grx) < 0

(* The first valid satellite of set i decides. *)
Due(i) == vflg[i] # {} /\ SubGpsTime(toc[i][FirstValid(i)], grx) < SECONDS_IN_HOUR

(* ieph++, back to 0 at the end of the array. *)
Change ==
    /\ ieph' = IF ieph + 1 >= Sets THEN 0 ELSE ieph + 1
    /\ sbf' = Subframes(ieph')

(* Refresh of module Channels, when the next set is due.  With the last set *)
(* of the array in use memory behind the array decides.                     *)
RefreshWhenDue ==
    /\ stage = "run" /\ pc = "refresh"
    /\ \/ ieph + 1 \in Set /\ Due(ieph + 1) /\ Change /\ UNCHANGED outside
       \/ ieph + 1 \in Set /\ ~Due(ieph + 1) /\ KeepSet /\ UNCHANGED outside
       \/ ieph + 1 \notin Set /\ KeepSet /\ UNCHANGED outside
       \/ ieph + 1 \notin Set /\ Change /\ outside' = TRUE
    /\ up' \in SUBSET Sat
    /\ sv' = 0 /\ pc' = "allocate"
    /\ UNCHANGED <<running, grx, prn, msg, allocatedSat, vflg, seen>>

Allocate ==
    /\ stage = "run"
    /\ AllocateChannel \/ Allocated
    /\ UNCHANGED <<running, grx, outside>>

(* The duration is over, or gps_thread_exit is set. *)
Leave == stage = "run" /\ pc = "samples" /\ End /\ UNCHANGED outside

Stream == Round \/ RefreshWhenDue \/ Allocate \/ Leave
-----------------------------------------------------------------------------
(* Properties.                                                              *)

GpsTimes == [week : Int, sec : 0..(SECONDS_IN_WEEK - 1)]
Stages == {"open", "header", "records", "return", "check", "select", "selected",
           "almanac", "toa", "ready", "run", "end"}

(* Type invariant; in particular the index of the reader leaves the array   *)
(* only when the reader returns, and times of week stay within a week.      *)
EphTypeOK ==
    /\ stage \in Stages /\ start \in StartTimes /\ file \in Seq(Records)
    /\ last \in (IF stage = "return" THEN 0..Sets ELSE Set)
    /\ base \in GpsTimes \cup {NoTime}
    /\ lines \subseteq IonoLines /\ iono \in BOOLEAN
    /\ neph \in -3..(Sets + 1)
    /\ toc \in [Set -> [Sat -> GpsTimes]]
    /\ g0 \in GpsTimes \cup {NoTime} /\ grx \in GpsTimes \cup {NoTime}
    /\ outside \in BOOLEAN

(* In a file sorted by time, all ephemerides of a set are older than all of *)
(* a later one, and those of a set are at most an hour apart; also after    *)
(* "now" has moved them over ends of weeks.                                 *)
SetsOrdered ==
    \A i, j \in Set : \A s \in vflg[i], u \in vflg[j] :
        /\ i < j => SubGpsTime(toc[j][u], toc[i][s]) > 0
        /\ i = j => SubGpsTime(toc[j][u], toc[i][s]) <= SECONDS_IN_HOUR

(* While there is a later set, the ephemeris of each channel is used within *)
(* two hours of its reference time, half its curve fit interval, at each    *)
(* update; that is so if the sets of the file are two hours apart.  The     *)
(* test for the next set excludes its end ("< SECONDS_IN_HOUR"), so a set   *)
(* of exactly two hours ago stays for one period more: at the end of the    *)
(* samples the bound is longer by that.  The last set is used as long as    *)
(* the simulation lasts.                                                    *)
Abs(x) == IF x < 0 THEN -x ELSE x
SinceUpdate == IF pc = "refresh" THEN Period ELSE 0
WithinFit ==
    /\ stage = "run" /\ pc \in {"samples", "refresh"} /\ ~outside
    /\ ieph + 1 \in Set /\ vflg[ieph + 1] # {}
    => \A c \in Chan : prn[c] # 0 =>
           Abs(SubGpsTime(grx, toc[ieph][prn[c] - 1])) <= 2 * SECONDS_IN_HOUR + SinceUpdate

(* If the sets of the file are two hours apart, each start time that was    *)
(* accepted has a current set; only "now" may lie behind the last set.      *)
StartFindsSet == [][stage = "select" /\ stage' = "end" => start.how = "now"]_<<ephVars, vars>>

(* The stream is a behaviour of module Channels: it starts in an initial    *)
(* state of that module and makes its steps, so what is proved of Channels  *)
(* holds of the GPS thread.                                                 *)
RefinesChannels ==
    [][/\ stage # "run" /\ stage' = "run" => Init'
       /\ stage = "run" /\ stage' = "run" => Next \/ UNCHANGED vars]_<<ephVars, vars>>

(* gps.c says the readers return the "Number of sets of ephemerides in the  *)
(* file".                                                                   *)
CountInside == stage = "check" => neph \in 0..Sets

(* README.md says that without --start "the first time of ephemeris in the  *)
(* RINEX navigation file is selected".                                      *)
StartsAtFirst ==
    stage = "select" /\ start.how = "none" =>
        \A i \in Set : \A s \in vflg[i] : SubGpsTime(toc[i][s], g0) >= 0

=============================================================================
