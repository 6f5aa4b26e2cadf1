-------------------------- MODULE GpsThreadProofs --------------------------
(* Theorems about the GPS thread from its files to the end of its stream,   *)
(* for all navigation files, start times and almanacs, with their proofs.   *)
EXTENDS GpsThread, ChannelsProofs, WellFoundedInduction

-----------------------------------------------------------------------------
(* Times.                                                                   *)

(* A time as one number. *)
Seconds(g) == g.sec + g.week * SECONDS_IN_WEEK

LEMMA WeekValue == SECONDS_IN_WEEK \in Nat /\ SECONDS_IN_WEEK > 0
BY SMT DEF SECONDS_IN_WEEK

LEMMA GpsTimeFields ==
    ASSUME NEW g \in GpsTimes
    PROVE  /\ g.week \in Int /\ g.sec \in Int
           /\ 0 <= g.sec /\ g.sec < SECONDS_IN_WEEK
<1>1. g.week \in Int /\ g.sec \in 0..(SECONDS_IN_WEEK - 1)  BY DEF GpsTimes
<1> QED BY <1>1, WeekValue

LEMMA GpsTimeMade ==
    ASSUME NEW w \in Int, NEW s \in Int, 0 <= s, s < SECONDS_IN_WEEK
    PROVE  [week |-> w, sec |-> s] \in GpsTimes
<1>1. s \in 0..(SECONDS_IN_WEEK - 1)  BY WeekValue
<1> QED BY <1>1 DEF GpsTimes

LEMMA FixedTimes == Zero \in GpsTimes /\ NoTime \in GpsTimes
BY GpsTimeMade, WeekValue DEF Zero, NoTime

LEMMA SubSeconds ==
    ASSUME NEW g \in GpsTimes, NEW h \in GpsTimes
    PROVE  /\ Seconds(g) \in Int /\ Seconds(h) \in Int
           /\ SubGpsTime(g, h) = Seconds(g) - Seconds(h)
           /\ SubGpsTime(g, h) \in Int
<1>1. g.week \in Int /\ g.sec \in Int /\ h.week \in Int /\ h.sec \in Int
  BY GpsTimeFields
<1> QED BY <1>1, SMT DEF SubGpsTime, Seconds, SECONDS_IN_WEEK

(* incGpsTime returns a time of week within a week, and moves a time by dt, *)
(* forward or back.                                                         *)
LEMMA IncSeconds ==
    ASSUME NEW g \in GpsTimes, NEW dt \in Int
    PROVE  /\ IncGpsTime(g, dt) \in GpsTimes
           /\ Seconds(IncGpsTime(g, dt)) = Seconds(g) + dt
<1> DEFINE n == g.sec + dt
           q == n \div SECONDS_IN_WEEK
           r == n % SECONDS_IN_WEEK
<1>1. g.week \in Int /\ g.sec \in Int  BY GpsTimeFields
<1>2. n \in Int  BY <1>1
<1> HIDE DEF n
<1>3. /\ q \in Int /\ r \in Int /\ r < SECONDS_IN_WEEK /\ 0 <= r
      /\ n = q * SECONDS_IN_WEEK + r
  BY <1>2, WeekValue, SMT
<1>4. IncGpsTime(g, dt) = [week |-> g.week + q, sec |-> r]  BY DEF n, IncGpsTime
<1> HIDE DEF q, r
<1>5. IncGpsTime(g, dt) \in GpsTimes  BY <1>1, <1>3, <1>4, GpsTimeMade
<1>6. Seconds(IncGpsTime(g, dt)) = r + (g.week + q) * SECONDS_IN_WEEK
  BY <1>4 DEF Seconds
<1>7. r + (g.week + q) * SECONDS_IN_WEEK = g.sec + g.week * SECONDS_IN_WEEK + dt
  <2>1. n = g.sec + dt  BY DEF n
  <2> QED BY <1>1, <1>2, <1>3, <2>1, SMT DEF SECONDS_IN_WEEK
<1> QED BY <1>5, <1>6, <1>7 DEF Seconds

(* date2gps returns a time of week within a week, after the first week.     *)
LEMMA DateTypes ==
    ASSUME NEW t \in Dates
    PROVE  Date2Gps(t) \in GpsTimes /\ Date2Gps(t) # NoTime
<1> DEFINE ye == t.y - 1980
           de == ye * 365 + doy[t.m] + t.d + LeapDays(ye, t.m) - 6
           s == (de % 7) * SECONDS_IN_DAY + t.hh * SECONDS_IN_HOUR
                    + t.mm * SECONDS_IN_MINUTE + t.sec
<1>1. /\ t.y \in Int /\ 1981 <= t.y /\ t.m \in 1..12 /\ t.d \in Int /\ 1 <= t.d
      /\ t.hh \in Int /\ 0 <= t.hh /\ t.hh <= 23
      /\ t.mm \in Int /\ 0 <= t.mm /\ t.mm <= 59
      /\ t.sec \in Int /\ 0 <= t.sec /\ t.sec <= 59
  <2>1. /\ t.y \in 1981..2099 /\ t.m \in 1..12 /\ t.d \in 1..31
        /\ t.hh \in 0..23 /\ t.mm \in 0..59 /\ t.sec \in 0..59
    BY DEF Dates
  <2> QED BY <2>1, SMT
<1>2. doy[t.m] \in Int /\ 0 <= doy[t.m]  BY <1>1 DEF doy
<1>3. ye \in Nat /\ ye >= 1  BY <1>1, SMT
<1>4. LeapDays(ye, t.m) \in Int /\ 0 <= LeapDays(ye, t.m)
  <2> HIDE DEF ye
  <2>1. ye \div 4 \in Int /\ 0 <= ye \div 4  BY <1>3, SMT
  <2> QED BY <2>1 DEF LeapDays
<1>5. de \in Int /\ de >= 0  BY <1>1, <1>2, <1>3, <1>4, SMT
<1>6. Date2Gps(t) = [week |-> de \div 7, sec |-> s]  BY DEF Date2Gps
<1> HIDE DEF de, ye
<1>7. /\ de \div 7 \in Int /\ 0 <= de \div 7
      /\ de % 7 \in Int /\ 0 <= de % 7 /\ de % 7 <= 6
  BY <1>5, SMT
<1>8. s \in Int /\ 0 <= s /\ s < SECONDS_IN_WEEK
  BY <1>1, <1>7, SMT DEF SECONDS_IN_WEEK, SECONDS_IN_DAY, SECONDS_IN_HOUR, SECONDS_IN_MINUTE
<1> HIDE DEF s
<1> QED BY <1>6, <1>7, <1>8, GpsTimeMade DEF NoTime

(* The loop that looks for the first valid satellite of a set finds it.     *)
LEMMA FirstValidType ==
    ASSUME NEW i \in Set, vflg[i] \subseteq Sat, vflg[i] # {}
    PROVE  FirstValid(i) \in vflg[i]
<1> DEFINE R == {p \in Nat \X Nat : p[1] < p[2]}
<1>1. vflg[i] \subseteq Nat  BY SizeAssumption DEF Sat
<1>2. IsWellFoundedOn(R, Nat)  BY NatLessThanWellFounded DEF OpToRel
<1>3. \A s, u \in Nat : u < s => <<u, s>> \in R  OBVIOUS
<1> HIDE DEF R
<1>4. PICK s \in vflg[i] : \A u \in vflg[i] : ~ (<<u, s>> \in R)
  BY <1>1, <1>2, WFMin
<1>5. ASSUME NEW u \in vflg[i] PROVE s <= u
  <2>1. s \in Nat /\ u \in Nat  BY <1>1
  <2>2. ~ (u < s)  BY <1>3, <1>4, <2>1
  <2> QED BY <2>1, <2>2
<1> QED BY <1>5 DEF FirstValid

LEMMA TwoHoursType == ASSUME NEW g \in GpsTimes PROVE TwoHours(g) \in GpsTimes
<1> DEFINE s == (g.sec \div 7200) * 7200
<1>1. g.week \in Int /\ g.sec \in Int /\ 0 <= g.sec /\ g.sec < SECONDS_IN_WEEK
  BY GpsTimeFields
<1>2. s \in Int /\ 0 <= s /\ s <= g.sec  BY <1>1, SMT
<1>3. TwoHours(g) = [week |-> g.week, sec |-> s]  BY DEF TwoHours, GpsTimes
<1> QED BY <1>1, <1>2, <1>3, GpsTimeMade, WeekValue

-----------------------------------------------------------------------------
(* The initial state.                                                       *)

LEMMA SetsThere == 0 \in Set
BY SizeAssumption DEF Set

LEMMA InitGps == GpsInit => GpsInv
<1> SUFFICES ASSUME GpsInit PROVE GpsInv  OBVIOUS
<1> USE DEF GpsInit, EphInit
<1>1. EphTypeOK
  <2>1. neph = 0 /\ 0 \in -3..(Sets + 1)  BY SizeAssumption
  <2>2. file \in Seq(Records) /\ start \in StartTimes  BY RecordsAssumption
  <2>3. toc \in [Set -> [Sat -> GpsTimes]]  BY FixedTimes
  <2>4. last \in Set /\ stage = "open"  BY SetsThere
  <2> QED BY <2>1, <2>2, <2>3, <2>4, FixedTimes DEF EphTypeOK, Stages
<1>2. BeforeStream  BY SetsThere DEF BeforeStream
<1>3. AlmanacInv  BY FixedTimes DEF AlmanacInv, AlmInit
<1> QED BY <1>1, <1>2, <1>3 DEF GpsInv, SetFound, StreamInv

-----------------------------------------------------------------------------
(* Types of the reader and of the clock.                                    *)

LEMMA RestTypes ==
    ASSUME file \in Seq(Records), file # <<>>
    PROVE  Head(file) \in Records /\ Tail(file) \in Seq(Records)
OBVIOUS

LEMMA RecordTypes ==
    ASSUME NEW r \in Records
    PROVE  /\ r.gps \in BOOLEAN /\ r.whole \in BOOLEAN
           /\ Date2Gps(r.t) \in GpsTimes /\ Date2Gps(r.t) # NoTime
<1>1. r.t \in Dates /\ r.gps \in BOOLEAN /\ r.whole \in BOOLEAN
  BY DEF Records
<1> QED BY <1>1, DateTypes

LEMMA StartTypes == ASSUME start \in StartTimes PROVE Date2Gps(start.t) \in GpsTimes
<1>1. start.t \in Dates  BY StartAssumption
<1> QED BY <1>1, DateTypes

LEMMA FirstTimeType ==
    ASSUME EphTypeOK, BeforeStream, vflg[0] # {}
    PROVE  gmin \in GpsTimes
<1>1. FirstValid(0) \in Sat  BY FirstValidType, SetsThere DEF BeforeStream
<1> QED BY <1>1, SetsThere DEF gmin, EphTypeOK

(* The reader. *)
LEMMA ReaderTypes ==
    ASSUME EphTypeOK, BeforeStream, Reader
    PROVE  EphTypeOK' /\ vflg' \in [Set -> SUBSET Sat] /\ ieph' \in Set
<1> USE DEF EphTypeOK, BeforeStream, Stages, reading, store, clock, vars, tables
<1>1. CASE NoFile  BY <1>1 DEF NoFile, End
<1>2. CASE ReaderRefuses
  <2>1. neph' \in {-1, -2, -3} /\ stage = "open" /\ stage' = "check"
    BY <1>2 DEF ReaderRefuses
  <2>2. neph' \in -3..(Sets + 1)  BY <2>1, SizeAssumption
  <2> QED BY <1>2, <2>1, <2>2 DEF ReaderRefuses
<1>3. CASE OpenFile  BY <1>3 DEF OpenFile
<1>4. CASE HeaderLine  BY <1>4 DEF HeaderLine
<1>5. CASE EndOfHeader  BY <1>5 DEF EndOfHeader
<1>6. CASE SkipLine  BY <1>6, RestTypes DEF SkipLine
<1>7. CASE ReadRecord
  <2> DEFINE r == Head(file)
             g == Date2Gps(r.t)
             i == IF NewSet(g) THEN last + 1 ELSE last
  <2>1. /\ i < Sets /\ base' = BaseFor(g) /\ last' = i
        /\ toc' = [toc EXCEPT ![i][r.sv] = g]
        /\ vflg' = IF r.whole THEN [vflg EXCEPT ![i] = @ \cup {r.sv}] ELSE vflg
        /\ stage' = IF r.whole THEN "records" ELSE "return"
        /\ stage = "records" /\ file # <<>> /\ r.sv \in Sat /\ file' = Tail(file)
        /\ UNCHANGED <<start, lines, iono, neph, clock, outside, tables, ieph>>
    BY <1>7 DEF ReadRecord
  <2>2. r \in Records /\ file' \in Seq(Records)  BY <2>1, RestTypes
  <2>3. r.sv \in Sat /\ g \in GpsTimes  BY <2>1, <2>2, RecordTypes
  <2> HIDE DEF r, g
  <2>4. i \in Set /\ i \in 0..Sets  BY <2>1, SizeAssumption DEF Set
  <2> HIDE DEF i
  <2>5. base' \in GpsTimes \cup {NoTime}  BY <2>1, <2>3 DEF BaseFor
  <2>6. toc' \in [Set -> [Sat -> GpsTimes]]  BY <2>1, <2>3, <2>4
  <2>7. vflg' \in [Set -> SUBSET Sat]  BY <2>1, <2>3, <2>4
  <2> QED BY <2>1, <2>2, <2>4, <2>5, <2>6, <2>7
<1>8. CASE TooManySets
  <2>1. last' \in 0..Sets /\ stage = "records"
    BY <1>8, SizeAssumption DEF TooManySets, Set
  <2>2. base' \in GpsTimes
    BY <1>8, RestTypes, RecordTypes DEF TooManySets, BaseFor
  <2> QED BY <1>8, <2>1, <2>2 DEF TooManySets
<1>9. CASE EndOfFile
  <2>1. last \in 0..Sets  BY <1>9, SizeAssumption DEF EndOfFile, Set
  <2> QED BY <1>9, <2>1 DEF EndOfFile
<1>10. CASE ReaderReturns
  <2>1. neph' \in -3..(Sets + 1)  BY <1>10, SizeAssumption DEF ReaderReturns
  <2>2. <<>> \in Seq(Records)  OBVIOUS
  <2> QED BY <1>10, <2>1, <2>2, SetsThere DEF ReaderReturns
<1>11. CASE StrayRecord  BY <1>11 DEF StrayRecord, End
<1> QED BY <1>1, <1>2, <1>3, <1>4, <1>5, <1>6, <1>7, <1>8, <1>9, <1>10, <1>11 DEF Reader

LEMMA DaySeconds ==
    ASSUME NEW k \in Int, 0 <= k, k <= 6
    PROVE  /\ k * SECONDS_IN_DAY \in Int
           /\ 0 <= k * SECONDS_IN_DAY /\ k * SECONDS_IN_DAY < SECONDS_IN_WEEK
BY SMT DEF SECONDS_IN_DAY, SECONDS_IN_WEEK

LEMMA DayTypes == ASSUME NEW d \in Int PROVE DayTime(d) \in GpsTimes
<1> DEFINE w == d \div 7
           k == d % 7
<1>1. w \in Int /\ k \in Int /\ 0 <= k /\ k <= 6  BY SMT
<1>2. DayTime(d) = [week |-> w, sec |-> k * SECONDS_IN_DAY]  BY DEF DayTime
<1> HIDE DEF w, k
<1>3. /\ k * SECONDS_IN_DAY \in Int
      /\ 0 <= k * SECONDS_IN_DAY /\ k * SECONDS_IN_DAY < SECONDS_IN_WEEK
  BY <1>1, DaySeconds
<1> QED BY <1>1, <1>2, <1>3, GpsTimeMade

(* The search for the start. *)
LEMMA StartKept ==
    ASSUME EphTypeOK, BeforeStream, ChooseStart
    PROVE  EphTypeOK' /\ vflg' \in [Set -> SUBSET Sat] /\ ieph' \in Set
<1> USE DEF EphTypeOK, BeforeStream, Stages, reading, store, clock, vars, tables, End
<1>1. CASE NoEphemeris  BY <1>1 DEF NoEphemeris
<1>2. CASE WrongCount  BY <1>2 DEF WrongCount
<1>3. CASE NoMotion  BY <1>3 DEF NoMotion, Counted
<1>4. CASE NoFirstTime  BY <1>4 DEF NoFirstTime, Counted
<1>5. CASE StartAtFirst
  <2>1. g0' \in GpsTimes  BY <1>5, FirstTimeType DEF StartAtFirst, StartsAt
  <2> QED BY <1>5, <2>1 DEF StartAtFirst, StartsAt, Counted
<1>6. CASE StartAsAsked
  <2>1. g0' \in GpsTimes  BY <1>6, StartTypes DEF StartAsAsked, StartsAt
  <2> QED BY <1>6, <2>1 DEF StartAsAsked, StartsAt, Counted
<1>11. CASE StartAtStray
  <2>1. g0' \in GpsTimes  BY <1>11, StrayAssumption, DayTypes DEF StartAtStray, StartsAt
  <2> QED BY <1>11, <2>1 DEF StartAtStray, StartsAt, Counted
<1>7. CASE InvalidStart  BY <1>7 DEF InvalidStart, Counted
<1>8. CASE StartNow
  <2> DEFINE now == Date2Gps(start.t)
             d == SubGpsTime(TwoHours(now), gmin)
  <2>1. now \in GpsTimes  BY StartTypes
  <2>2. gmin \in GpsTimes  BY <1>8, FirstTimeType DEF StartNow
  <2>3. d \in Int  BY <2>1, <2>2, TwoHoursType, SubSeconds
  <2>4. StartsAt(now) /\ toc' = Moved(d) /\ stage = "check"
    BY <1>8 DEF StartNow, Counted
  <2> HIDE DEF d, now
  <2>5. toc' \in [Set -> [Sat -> GpsTimes]]  BY <2>3, <2>4, IncSeconds DEF Moved
  <2> QED BY <2>1, <2>4, <2>5 DEF StartsAt
<1>9. CASE SelectSet  BY <1>9 DEF SelectSet
<1>10. CASE NoCurrentSet  BY <1>10 DEF NoCurrentSet
<1> QED BY <1>1, <1>2, <1>3, <1>4, <1>5, <1>6, <1>7, <1>8, <1>9, <1>10, <1>11 DEF ChooseStart

LEMMA ReadyTypes ==
    ASSUME EphTypeOK, Ready PROVE EphTypeOK'
<1>1. IncGpsTime(g0, 0) \in GpsTimes  BY IncSeconds, FixedTimes DEF EphTypeOK
<1> QED BY <1>1 DEF EphTypeOK, Stages, Ready, reading, store

LEMMA StreamTypes ==
    ASSUME EphTypeOK, Stream PROVE EphTypeOK'
<1> USE DEF EphTypeOK, Stages, running, reading, store
<1>1. CASE Round
  <2>1. IncGpsTime(grx, Period) \in GpsTimes
    BY IncSeconds, FixedTimes, PeriodAssumption
  <2> QED BY <1>1, <2>1 DEF Round
<1>2. CASE RefreshWhenDue  BY <1>2 DEF RefreshWhenDue
<1>3. CASE Allocate  BY <1>3 DEF Allocate
<1>4. CASE Leave  BY <1>4 DEF Leave, End, clock
<1> QED BY <1>1, <1>2, <1>3, <1>4 DEF Stream

LEMMA AlmanacTypes ==
    ASSUME EphTypeOK, ReadAlmanac \/ CheckAlmanac PROVE EphTypeOK'
<1>1. UNCHANGED <<start, reading, store, clock>> /\ stage' \in Stages \ {"return"}
  BY DEF Stages, ReadAlmanac, NoAlmanac, AlmanacHeader, WholeRecord, FileEnds, FileEndsInRecord,
     GarbledRecord, AllRead, CheckAlmanac, AlmanacAccepted, AlmanacRefused, goTo, End
<1>2. stage # "return" /\ outside' = outside
  BY DEF ReadAlmanac, NoAlmanac, AlmanacHeader, WholeRecord, FileEnds, FileEndsInRecord,
     GarbledRecord, AllRead, CheckAlmanac, AlmanacAccepted, AlmanacRefused, goTo, End
<1> QED BY <1>1, <1>2 DEF EphTypeOK, reading, store, clock

-----------------------------------------------------------------------------
(* The stream.                                                              *)

(* Each step of the stream is one of module Channels: a change to the next  *)
(* set is one that Channels allows, also when memory behind eph[] decides.  *)
LEMMA StreamSteps ==
    ASSUME stage = "run", ieph \in Set, Stream
    PROVE  Next \/ UNCHANGED vars
<1>1. CASE Round  BY <1>1 DEF Round, Next
<1>2. CASE RefreshWhenDue
  <2>1. ASSUME Change, ieph + 1 \in Set => Due(ieph + 1) PROVE NextSet
    <3>1. ieph + 1 < Sets => ieph + 1 \in Set  BY SizeAssumption DEF Set
    <3> QED BY <2>1, <3>1 DEF Change, NextSet, NextSetValid, Due
  <2>2. KeepSet \/ NextSet  BY <1>2, <2>1 DEF RefreshWhenDue
  <2> QED BY <1>2, <2>2 DEF RefreshWhenDue, Refresh, Next
<1>3. CASE Allocate  BY <1>3 DEF Allocate, Next
<1>4. CASE Leave  BY <1>4 DEF Leave, End, tables, vars
<1> QED BY <1>1, <1>2, <1>3, <1>4 DEF Stream

(* The stream begins as module Channels does. *)
LEMMA StreamStarts ==
    ASSUME BeforeStream, SetFound, Ready
    PROVE  Init'
<1>1. Unallocated /\ vflg[ieph] # {} /\ ieph \in Set /\ vflg \in Files
  BY AnyContents DEF BeforeStream, SetFound, Ready
<1> QED BY <1>1 DEF Ready, Unallocated, Init

LEMMA StartedInv == Init' => ChannelsInv'
BY InitHolds, PTL

-----------------------------------------------------------------------------
(* The almanac.                                                             *)

LEMMA AlmanacKept ==
    ASSUME AlmanacInv, UNCHANGED almVars, g0' = g0,
           stage' \in {"ready", "run"} => stage \in {"ready", "run"}
    PROVE  AlmanacInv'
BY DEF AlmanacInv, almVars, almTable, almReader, Timely

LEMMA SatOfType == ASSUME NEW id \in Ids PROVE SatOf(id) \in Sat
BY AlmanacAssumption, SizeAssumption DEF SatOf, Sat

LEMMA AlmanacStep ==
    ASSUME AlmanacInv, ReadAlmanac \/ CheckAlmanac
    PROVE  AlmanacInv'
<1> USE DEF goTo, almVars, almTable, almReader, clock
<1>1. CASE NoAlmanac  BY <1>1, FixedTimes DEF NoAlmanac, Cleared, AlmanacInv
<1>2. CASE AlmanacHeader
  BY <1>2, FixedTimes, AlmanacAssumption DEF AlmanacHeader, Cleared, AlmanacInv
<1>3. CASE WholeRecord
  <2> PICK id \in Ids :
        /\ almSvid' = almSvid \cup {SatOf(id)}
        /\ almValid' = almValid \cup {SatOf(id)}
        /\ almToa' = [almToa EXCEPT ![SatOf(id)] = [almTime EXCEPT !.week = @ + Rollover]]
    BY <1>3 DEF WholeRecord
  <2>1. SatOf(id) \in Sat  BY SatOfType
  <2>2. [almTime EXCEPT !.week = @ + Rollover] \in GpsTimes
    BY DEF AlmanacInv, GpsTimes, Rollover
  <2>3. almToa' \in [Sat -> GpsTimes]  BY <2>1, <2>2 DEF AlmanacInv
  <2> QED BY <1>3, <2>1, <2>3 DEF WholeRecord, AlmanacInv
<1>4. CASE FileEnds  BY <1>4 DEF FileEnds, AlmanacInv
<1>5. CASE FileEndsInRecord  BY <1>5, SatOfType DEF FileEndsInRecord, AlmanacInv
<1>6. CASE GarbledRecord  BY <1>6, FixedTimes DEF GarbledRecord, Cleared, AlmanacInv
<1>7. CASE AllRead  BY <1>7 DEF AllRead, AlmanacInv
<1>8. CASE AlmanacAccepted
  BY <1>8 DEF AlmanacAccepted, TimesAccepted, AlmanacInv, Timely
<1>9. CASE AlmanacRefused  BY <1>9 DEF AlmanacRefused, End, AlmanacInv
<1> QED BY <1>1, <1>2, <1>3, <1>4, <1>5, <1>6, <1>7, <1>8, <1>9 DEF ReadAlmanac, CheckAlmanac

-----------------------------------------------------------------------------
(* All steps keep GpsInv.                                                   *)

LEMMA ReaderStep == ASSUME GpsInv, Reader, UNCHANGED almVars PROVE GpsInv'
<1> USE DEF GpsInv
<1>1. EphTypeOK' /\ vflg' \in [Set -> SUBSET Sat] /\ ieph' \in Set  BY ReaderTypes
<1>2. /\ stage \in Reading /\ stage' \in Reading \cup {"check", "end"}
      /\ UNCHANGED tables /\ g0' = g0
  BY DEF Reader, NoFile, ReaderRefuses, OpenFile, HeaderLine, EndOfHeader, SkipLine, ReadRecord,
     StrayRecord, TooManySets, EndOfFile, ReaderReturns, Reading, End, clock, vars, tables
<1>3. BeforeStream'
  BY <1>1, <1>2 DEF BeforeStream, Unallocated, Reading, tables
<1>4. SetFound' /\ StreamInv'  BY <1>2 DEF SetFound, StreamInv, Reading
<1>5. AlmanacInv'  BY <1>2, AlmanacKept DEF Reading
<1> QED BY <1>1, <1>3, <1>4, <1>5

LEMMA ChooseStep == ASSUME GpsInv, ChooseStart, UNCHANGED almVars PROVE GpsInv'
<1> USE DEF GpsInv
<1>1. EphTypeOK' /\ vflg' \in [Set -> SUBSET Sat] /\ ieph' \in Set  BY StartKept
<1>2. /\ stage \in {"check", "select"} /\ stage' \in {"select", "selected", "end"}
      /\ UNCHANGED tables
  BY DEF ChooseStart, NoEphemeris, WrongCount, NoMotion, NoFirstTime, Counted, StartAtFirst,
     StartAtStray, StartAsAsked, InvalidStart, StartNow, StartsAt, SelectSet,
     NoCurrentSet, End, vars, tables
<1>3. BeforeStream'  BY <1>1, <1>2 DEF BeforeStream, Unallocated, tables
<1>4. stage' = "selected" => vflg'[ieph'] # {}
  BY DEF ChooseStart, NoEphemeris, WrongCount, NoMotion, NoFirstTime, StartAtFirst,
     StartAtStray, StartAsAsked, InvalidStart, StartNow, StartsAt, SelectSet,
     NoCurrentSet, End, CurrentSet
<1>5. SetFound' /\ StreamInv'  BY <1>2, <1>4 DEF SetFound, StreamInv
<1>6. AlmanacInv'
  BY <1>2 DEF AlmanacInv, almVars, almTable, almReader
<1> QED BY <1>1, <1>3, <1>5, <1>6

LEMMA ReadyStep == ASSUME GpsInv, Ready, UNCHANGED almVars PROVE GpsInv'
<1> USE DEF GpsInv
<1>1. EphTypeOK'  BY ReadyTypes
<1>2. ChannelsInv'  BY StreamStarts, StartedInv
<1>3. AlmanacInv'  BY AlmanacKept DEF Ready
<1> QED BY <1>1, <1>2, <1>3 DEF Ready, BeforeStream, SetFound, StreamInv

LEMMA StreamStep == ASSUME GpsInv, Stream, UNCHANGED almVars PROVE GpsInv'
<1> USE DEF GpsInv
<1>1. EphTypeOK'  BY StreamTypes
<1>2. stage = "run" /\ stage' \in {"run", "end"} /\ g0' = g0 /\ vflg' = vflg
  BY DEF Stream, Round, RefreshWhenDue, Allocate, Leave, running, End, clock, GenerateMessages,
     AllocateChannel, Allocated
<1>3. ChannelsInv'
  BY <1>2, StreamSteps, ChannelsStep DEF BeforeStream, StreamInv
<1>4. BeforeStream'
  BY <1>2, <1>3 DEF BeforeStream, ChannelsInv, TypeOK
<1>5. AlmanacInv'  BY <1>2, AlmanacKept
<1> QED BY <1>1, <1>2, <1>3, <1>4, <1>5 DEF SetFound, StreamInv

LEMMA AlmanacGpsStep == ASSUME GpsInv, ReadAlmanac \/ CheckAlmanac PROVE GpsInv'
<1> USE DEF GpsInv
<1>1. EphTypeOK' /\ AlmanacInv'  BY AlmanacTypes, AlmanacStep
<1>2. /\ stage \in {"selected", "almanac", "toa"}
      /\ stage' \in {"almanac", "toa", "ready", "end"}
      /\ UNCHANGED <<tables, ieph, vflg>>
  BY DEF ReadAlmanac, NoAlmanac, AlmanacHeader, WholeRecord, FileEnds, FileEndsInRecord,
     GarbledRecord, AllRead, CheckAlmanac, AlmanacAccepted, AlmanacRefused, goTo, End, vars, tables
<1>3. BeforeStream'  BY <1>2 DEF BeforeStream, Unallocated, tables
<1> QED BY <1>1, <1>2, <1>3 DEF SetFound, StreamInv

LEMMA StutterStep == ASSUME GpsInv, UNCHANGED allVars PROVE GpsInv'
<1> USE DEF GpsInv, allVars, ephVars, reading, store, clock, vars
<1>1. EphTypeOK'  BY DEF EphTypeOK
<1>2. BeforeStream' /\ SetFound'  BY DEF BeforeStream, Unallocated, SetFound
<1>3. StreamInv'  BY ChannelsStep DEF StreamInv
<1>4. AlmanacInv'  BY AlmanacKept
<1> QED BY <1>1, <1>2, <1>3, <1>4

LEMMA GpsStep == GpsInv /\ [GpsNext]_allVars => GpsInv'
<1> SUFFICES ASSUME GpsInv, [GpsNext]_allVars PROVE GpsInv'  OBVIOUS
<1> QED BY ReaderStep, ChooseStep, ReadyStep, StreamStep, AlmanacGpsStep, StutterStep
           DEF GpsNext, Over

LEMMA GpsInvariant == GpsSpec => []GpsInv
BY InitGps, GpsStep, PTL DEF GpsSpec

-----------------------------------------------------------------------------
(* Every variable keeps its type: times of week stay within a week, and the *)
(* reader's index leaves the array only when the reader returns.            *)
THEOREM GpsTypes == GpsSpec => []EphTypeOK
<1>1. GpsInv => EphTypeOK  BY DEF GpsInv
<1> QED BY <1>1, GpsInvariant, PTL

(* The stream of the GPS thread is a behaviour of module Channels.          *)
THEOREM StreamRefines == GpsSpec => RefinesChannels
<1> DEFINE A == /\ stage # "run" /\ stage' = "run" => Init'
                /\ stage = "run" /\ stage' = "run" => Next \/ UNCHANGED vars
<1>1. GpsInv /\ [GpsNext]_allVars => [A]_<<ephVars, vars>>
  <2> SUFFICES ASSUME GpsInv, GpsNext PROVE A  BY DEF allVars
  <2>1. CASE Ready
    BY <2>1, StreamStarts DEF GpsInv, Ready
  <2>2. CASE Stream
    <3>1. stage = "run"
      BY <2>2 DEF Stream, Round, RefreshWhenDue, Allocate, Leave
    <3> QED BY <2>2, <3>1, StreamSteps DEF GpsInv, BeforeStream
  <2>3. CASE Reader \/ ChooseStart \/ ReadAlmanac \/ CheckAlmanac
    <3>1. stage # "run" /\ stage' # "run"
      BY <2>3 DEF Reader, NoFile, ReaderRefuses, OpenFile, HeaderLine, EndOfHeader, SkipLine,
         ReadRecord, StrayRecord, TooManySets, EndOfFile, ReaderReturns, End,
         ChooseStart, NoEphemeris, WrongCount, NoMotion, NoFirstTime, Counted, StartAtFirst,
         StartAtStray, StartAsAsked, InvalidStart, StartNow, StartsAt, SelectSet,
         NoCurrentSet,
         ReadAlmanac, NoAlmanac, AlmanacHeader, WholeRecord, FileEnds, FileEndsInRecord,
         GarbledRecord, AllRead, CheckAlmanac, AlmanacAccepted, AlmanacRefused, goTo
    <3> QED BY <3>1
  <2>4. CASE Over  BY <2>4 DEF Over, allVars, ephVars
  <2> QED BY <2>1, <2>2, <2>3, <2>4 DEF GpsNext
<1> QED BY <1>1, GpsInvariant, PTL DEF GpsSpec, RefinesChannels

(* So what is proved of Channels holds while the GPS thread streams.        *)
THEOREM StreamSound ==
    GpsSpec => [](stage = "run" => TablesAgree /\ HasEphemeris /\ MessageNearlyCurrent)
<1>1. GpsInv => (stage = "run" => TablesAgree /\ HasEphemeris /\ MessageNearlyCurrent)
  BY DEF GpsInv, StreamInv, ChannelsInv, ValidSoFar, HasEphemeris, MessageFollows,
     MessageNearlyCurrent
<1> QED BY <1>1, GpsInvariant, PTL

(* No valid record of an almanac is more than four weeks off the start.     *)
THEOREM AlmanacCurrent == GpsSpec => []AlmanacInTime
<1>1. GpsInv => AlmanacInTime
  <2> SUFFICES ASSUME GpsInv, stage = "run", NEW s \in almValid
               PROVE  /\ s \in almSvid /\ almFlag
                      /\ Abs(SubGpsTime(almToa[s], g0)) <= FourWeeks
    BY DEF AlmanacInTime
  <2> DEFINE dt == SubGpsTime(almToa[s], g0)
  <2>1. s \in almSvid /\ almFlag /\ Timely(s) /\ almToa[s] \in GpsTimes /\ g0 \in GpsTimes
    BY FixedTimes DEF GpsInv, AlmanacInv, EphTypeOK
  <2>2. dt \in Int  BY <2>1, SubSeconds
  <2>3. -FourWeeks <= dt /\ dt <= FourWeeks  BY <2>1 DEF Timely
  <2>4. FourWeeks \in Int  BY WeekValue DEF FourWeeks
  <2> HIDE DEF dt
  <2>5. Abs(dt) <= FourWeeks  BY <2>2, <2>3, <2>4 DEF Abs
  <2> QED BY <2>1, <2>5 DEF dt
<1> QED BY <1>1, GpsInvariant, PTL

-----------------------------------------------------------------------------
(* The order of the sets.                                                   *)

LEMMA Differences ==
    \A g, h \in GpsTimes :
        /\ Seconds(g) \in Int /\ Seconds(h) \in Int
        /\ SubGpsTime(g, h) = Seconds(g) - Seconds(h)
BY SubSeconds

LEMMA HourValue == SECONDS_IN_HOUR \in Nat
BY SMT DEF SECONDS_IN_HOUR

(* Steps that leave records and sets alone. *)
LEMMA OrderKept ==
    ASSUME OrderInv, UNCHANGED <<file, base, last, neph, toc, vflg>>,
           stage' \in Reading => stage \in Reading,
           stage' \in {"open", "header"} => stage \in {"open", "header"},
           stage' = "check" => stage = "check"
    PROVE  OrderInv'
BY DEF OrderInv, SortedRest, Upcoming, AroundBase, SetsOrdered

LEMMA RestSorted ==
    ASSUME file \in Seq(Records), file # <<>>, SortedRest, file' = Tail(file)
    PROVE  SortedRest'
<1> SUFFICES ASSUME NEW j \in DOMAIN file', NEW k \in DOMAIN file', j < k,
                    file'[j].gps, file'[k].gps
             PROVE  SubGpsTime(Date2Gps(file'[k].t), Date2Gps(file'[j].t)) >= 0
  BY DEF SortedRest
<1>1. /\ j + 1 \in DOMAIN file /\ k + 1 \in DOMAIN file /\ j + 1 < k + 1
      /\ file'[j] = file[j + 1] /\ file'[k] = file[k + 1]
  OBVIOUS
<1> QED BY <1>1 DEF SortedRest

LEMMA HeadFirst ==
    ASSUME file \in Seq(Records), file # <<>>
    PROVE  /\ 1 \in DOMAIN file /\ Head(file) = file[1]
           /\ \A k \in DOMAIN Tail(file) :
                 k + 1 \in DOMAIN file /\ 1 < k + 1 /\ Tail(file)[k] = file[k + 1]
OBVIOUS

(* What a record adds keeps to the hour after base, and base to the records *)
(* that follow.                                                             *)
LEMMA RecordOrder ==
    ASSUME EphTypeOK, BeforeStream, OrderInv,
           stage = "records", file # <<>>, Head(file).gps,
           NEW g, g = Date2Gps(Head(file).t), base' = BaseFor(g), file' = Tail(file)
    PROVE  /\ g \in GpsTimes /\ g # NoTime /\ base' \in GpsTimes /\ base' # NoTime
           /\ SortedRest' /\ Upcoming'
           /\ 0 <= Seconds(g) - Seconds(base')
           /\ Seconds(g) - Seconds(base') <= SECONDS_IN_HOUR
           /\ NewSet(g) => base # NoTime /\ base' = g
                             /\ Seconds(g) > Seconds(base) + SECONDS_IN_HOUR
           /\ ~NewSet(g) /\ base # NoTime => base' = base
<1> USE DEF EphTypeOK
<1>1. g \in GpsTimes /\ g # NoTime  BY RestTypes, RecordTypes
<1>2. base \in GpsTimes  BY FixedTimes
<1>3. SECONDS_IN_HOUR \in Nat  BY HourValue
<1>4. NewSet(g) => base # NoTime /\ Seconds(g) > Seconds(base) + SECONDS_IN_HOUR
  BY <1>1, <1>2, <1>3, Differences DEF NewSet
<1>5. ~NewSet(g) /\ base # NoTime => Seconds(g) - Seconds(base) <= SECONDS_IN_HOUR
  BY <1>1, <1>2, <1>3, Differences DEF NewSet
<1>6. base # NoTime => 0 <= Seconds(g) - Seconds(base)
  <2>1. base # NoTime => SubGpsTime(g, base) >= 0
    BY HeadFirst DEF OrderInv, Upcoming
  <2> QED BY <1>1, <1>2, <2>1, Differences
<1>7. \/ base' = g
      \/ base' = base /\ base # NoTime /\ ~NewSet(g)
  BY DEF BaseFor
<1>8. /\ 0 <= Seconds(g) - Seconds(base')
      /\ Seconds(g) - Seconds(base') <= SECONDS_IN_HOUR
  <2>1. Seconds(g) \in Int  BY <1>1, Differences
  <2> QED BY <1>3, <1>5, <1>6, <1>7, <2>1
<1>9. SortedRest'  BY RestSorted DEF OrderInv
<1>10. Upcoming'
  <2> SUFFICES ASSUME NEW k \in DOMAIN file', file'[k].gps
               PROVE  SubGpsTime(Date2Gps(file'[k].t), base') >= 0
    BY DEF Upcoming
  <2>1. k + 1 \in DOMAIN file /\ 1 < k + 1 /\ file'[k] = file[k + 1]  BY HeadFirst
  <2>2. CASE base' = g
    BY <2>1, <2>2, HeadFirst DEF OrderInv, SortedRest
  <2>3. CASE base' = base /\ base # NoTime
    BY <2>1, <2>3 DEF OrderInv, Upcoming
  <2> QED BY <1>7, <2>2, <2>3
<1>11. /\ NewSet(g) => base' = g
       /\ ~NewSet(g) /\ base # NoTime => base' = base
  BY DEF BaseFor, NewSet
<1> QED BY <1>1, <1>2, <1>4, <1>7, <1>8, <1>9, <1>10, <1>11

LEMMA ReadRecordOrder ==
    ASSUME EphTypeOK, BeforeStream, OrderInv, ReadRecord
    PROVE  OrderInv'
<1> USE DEF EphTypeOK
<1> DEFINE r == Head(file)
           g == Date2Gps(r.t)
           i0 == IF NewSet(g) THEN last + 1 ELSE last
<1>1. /\ i0 < Sets /\ base' = BaseFor(g) /\ last' = i0
      /\ toc' = [toc EXCEPT ![i0][r.sv] = g]
      /\ vflg' = IF r.whole THEN [vflg EXCEPT ![i0] = @ \cup {r.sv}] ELSE vflg
      /\ stage' = IF r.whole THEN "records" ELSE "return"
      /\ stage = "records" /\ file # <<>> /\ r.gps /\ r.sv \in Sat /\ file' = Tail(file)
  BY DEF ReadRecord
<1>2. r.sv \in Sat  BY <1>1
<1>3. /\ g \in GpsTimes /\ g # NoTime /\ base' \in GpsTimes /\ base' # NoTime
      /\ SortedRest' /\ Upcoming'
      /\ 0 <= Seconds(g) - Seconds(base')
      /\ Seconds(g) - Seconds(base') <= SECONDS_IN_HOUR
      /\ NewSet(g) => base # NoTime /\ base' = g
                        /\ Seconds(g) > Seconds(base) + SECONDS_IN_HOUR
      /\ ~NewSet(g) /\ base # NoTime => base' = base
  BY <1>1, RecordOrder
<1>4. i0 \in Set /\ last \in Set /\ last \in Int
  BY <1>1, SizeAssumption DEF Set
<1>5. \/ NewSet(g) /\ i0 = last + 1
      \/ ~NewSet(g) /\ i0 = last
  BY DEF NewSet
<1> HIDE DEF r, g, i0
<1>6. SECONDS_IN_HOUR \in Nat /\ base \in GpsTimes  BY HourValue, FixedTimes
<1>7. ASSUME NEW i \in Set, NEW s \in vflg[i]
      PROVE  /\ s \in Sat /\ toc[i][s] \in GpsTimes /\ i \in Int /\ base # NoTime
             /\ i <= last
             /\ i = last => /\ Seconds(toc[i][s]) >= Seconds(base)
                            /\ Seconds(toc[i][s]) <= Seconds(base) + SECONDS_IN_HOUR
             /\ i < last => Seconds(toc[i][s]) < Seconds(base)
  <2>1. s \in Sat /\ toc[i][s] \in GpsTimes /\ i \in Int
    BY SizeAssumption DEF BeforeStream, Set
  <2>2. /\ base # NoTime /\ i <= last
        /\ i = last => /\ SubGpsTime(toc[i][s], base) >= 0
                       /\ SubGpsTime(toc[i][s], base) <= SECONDS_IN_HOUR
        /\ i < last => SubGpsTime(toc[i][s], base) < 0
    BY <1>1 DEF OrderInv, AroundBase, Reading
  <2> QED BY <1>6, <2>1, <2>2, Differences, SMTT(30)
(* Where an ephemeris of the new tables comes from. *)
<1>8. ASSUME NEW i \in Set, NEW s \in vflg'[i]
      PROVE  \/ i = i0 /\ s = r.sv /\ toc'[i][s] = g
             \/ s \in vflg[i] /\ toc'[i][s] = toc[i][s]
  <2>1. s \in vflg[i] \/ (i = i0 /\ s = r.sv)
    BY <1>1, <1>4 DEF BeforeStream
  <2>2. s \in Sat  BY <1>2, <2>1 DEF BeforeStream
  <2>3. i = i0 /\ s = r.sv => toc'[i][s] = g  BY <1>1, <2>2
  <2>4. ~(i = i0 /\ s = r.sv) => toc'[i][s] = toc[i][s]  BY <1>1, <2>2
  <2> QED BY <2>1, <2>3, <2>4
<1>9. ASSUME NEW i \in Set, NEW s \in vflg'[i]
      PROVE  /\ toc'[i][s] \in GpsTimes /\ i \in Int /\ i <= i0
             /\ i = i0 => /\ Seconds(toc'[i][s]) >= Seconds(base')
                          /\ Seconds(toc'[i][s]) <= Seconds(base') + SECONDS_IN_HOUR
             /\ i < i0 => /\ Seconds(toc'[i][s]) < Seconds(base')
                          /\ s \in vflg[i] /\ toc'[i][s] = toc[i][s]
  <2>0. Seconds(g) \in Int /\ Seconds(base') \in Int /\ Seconds(base) \in Int
    BY <1>3, <1>6, Differences
  <2>1. CASE i = i0 /\ s = r.sv /\ toc'[i][s] = g
    BY <1>3, <1>4, <1>6, <2>0, <2>1 DEF Set
  <2>2. CASE s \in vflg[i] /\ toc'[i][s] = toc[i][s]
    <3> DEFINE x == Seconds(toc[i][s])
    <3>1. x \in Int  BY <1>7, <2>2, Differences
    <3>2. /\ toc[i][s] \in GpsTimes /\ i \in Int /\ base # NoTime
          /\ i <= last
          /\ i = last => x >= Seconds(base) /\ x <= Seconds(base) + SECONDS_IN_HOUR
          /\ i < last => x < Seconds(base)
      BY <1>7, <2>2
    <3>3. toc'[i][s] = toc[i][s] /\ Seconds(toc'[i][s]) = x  BY <2>2
    <3> HIDE DEF x
    <3>4. CASE NewSet(g) /\ i0 = last + 1
      <4>1. i < i0 /\ x < Seconds(g) /\ base' = g
        BY <1>3, <1>4, <1>6, <2>0, <3>1, <3>2, <3>4
      <4> QED BY <1>4, <2>2, <3>2, <3>3, <4>1 DEF Set
    <3>5. CASE ~NewSet(g) /\ i0 = last
      <4>1. base' = base  BY <1>3, <3>2, <3>5
      <4> QED BY <2>2, <3>2, <3>3, <3>5, <4>1
    <3> QED BY <1>5, <3>4, <3>5
  <2> QED BY <1>8, <2>1, <2>2
<1>10. AroundBase'
  <2>1. stage' # "check" /\ stage' \notin {"open", "header"}  BY <1>1
  <2>2. ASSUME NEW i \in Set, NEW s \in vflg'[i]
        PROVE  /\ base' # NoTime /\ i <= last'
               /\ i = last' => /\ SubGpsTime(toc'[i][s], base') >= 0
                               /\ SubGpsTime(toc'[i][s], base') <= SECONDS_IN_HOUR
               /\ i < last' => SubGpsTime(toc'[i][s], base') < 0
    <3>1. last' = i0  BY <1>1
    <3>2. /\ Seconds(toc'[i][s]) \in Int /\ Seconds(base') \in Int
          /\ SubGpsTime(toc'[i][s], base') = Seconds(toc'[i][s]) - Seconds(base')
      BY <1>3, <1>9, Differences
    <3>3. /\ i \in Int /\ i <= i0
          /\ i = i0 => /\ Seconds(toc'[i][s]) >= Seconds(base')
                       /\ Seconds(toc'[i][s]) <= Seconds(base') + SECONDS_IN_HOUR
          /\ i < i0 => Seconds(toc'[i][s]) < Seconds(base')
      BY <1>9
    <3> QED BY <1>3, <1>6, <3>1, <3>2, <3>3
  <2> QED BY <2>1, <2>2 DEF AroundBase
<1>11. SetsOrdered'
  <2> SUFFICES ASSUME NEW i \in Set, NEW j \in Set, NEW s \in vflg'[i], NEW u \in vflg'[j]
               PROVE  /\ i < j => SubGpsTime(toc'[j][u], toc'[i][s]) > 0
                      /\ i = j => SubGpsTime(toc'[j][u], toc'[i][s]) <= SECONDS_IN_HOUR
    BY DEF SetsOrdered
  <2>1. /\ toc'[i][s] \in GpsTimes /\ toc'[j][u] \in GpsTimes
        /\ i \in Int /\ j \in Int /\ i <= i0 /\ j <= i0 /\ i0 \in Int
    BY <1>4, <1>9 DEF Set
  <2>2. /\ Seconds(toc'[i][s]) \in Int /\ Seconds(toc'[j][u]) \in Int /\ Seconds(base') \in Int
        /\ SubGpsTime(toc'[j][u], toc'[i][s]) = Seconds(toc'[j][u]) - Seconds(toc'[i][s])
    BY <1>3, <2>1, Differences
  <2>3. CASE j < i0
    <3>1. i <= j => /\ s \in vflg[i] /\ toc'[i][s] = toc[i][s]
                    /\ u \in vflg[j] /\ toc'[j][u] = toc[j][u]
      BY <1>9, <2>1, <2>3
    <3>2. i <= j => /\ i < j => SubGpsTime(toc[j][u], toc[i][s]) > 0
                    /\ i = j => SubGpsTime(toc[j][u], toc[i][s]) <= SECONDS_IN_HOUR
      BY <3>1 DEF OrderInv, SetsOrdered
    <3> QED BY <2>1, <3>1, <3>2
  <2>4. CASE j = i0
    <3>1. /\ Seconds(toc'[j][u]) >= Seconds(base')
          /\ Seconds(toc'[j][u]) <= Seconds(base') + SECONDS_IN_HOUR
      BY <1>9, <2>4
    <3>2. i < j => Seconds(toc'[i][s]) < Seconds(base')  BY <1>9, <2>4
    <3>3. i = j => Seconds(toc'[i][s]) >= Seconds(base')  BY <1>9, <2>4
    <3> QED BY <1>6, <2>2, <3>1, <3>2, <3>3
  <2> QED BY <2>1, <2>3, <2>4
<1> QED BY <1>3, <1>10, <1>11 DEF OrderInv

LEMMA TooManyOrder ==
    ASSUME EphTypeOK, BeforeStream, OrderInv, TooManySets
    PROVE  OrderInv'
<1> USE DEF EphTypeOK
<1> DEFINE g == Date2Gps(Head(file).t)
<1>1. /\ stage = "records" /\ file # <<>> /\ Head(file).gps
      /\ NewSet(g) /\ base' = BaseFor(g) /\ last' = last + 1 /\ stage' = "return"
      /\ UNCHANGED <<file, vflg, toc>>
  BY DEF TooManySets, store, vars
<1>2. last \in Int  BY <1>1, SizeAssumption DEF Set
<1>3. base' = g  BY <1>1 DEF BaseFor
<1> HIDE DEF g
<1>4. g \in GpsTimes /\ g # NoTime
  <2>1. Head(file) \in Records  BY <1>1, RestTypes
  <2> QED BY <2>1, RecordTypes DEF g
<1>5. Seconds(g) > Seconds(base) + SECONDS_IN_HOUR /\ base \in GpsTimes
  <2>1. base \in GpsTimes /\ SECONDS_IN_HOUR \in Nat  BY FixedTimes, HourValue
  <2> QED BY <1>1, <1>4, <2>1, Differences DEF NewSet
<1>6. Upcoming'
  <2> SUFFICES ASSUME NEW k \in DOMAIN file, file[k].gps
               PROVE  SubGpsTime(Date2Gps(file[k].t), g) >= 0
    BY <1>1, <1>3 DEF Upcoming
  <2>1. 1 \in DOMAIN file /\ Head(file) = file[1]  BY <1>1, HeadFirst
  <2>2. CASE k = 1
    <3>1. SubGpsTime(g, g) = 0  BY <1>4, Differences
    <3> QED BY <2>1, <2>2, <3>1 DEF g
  <2>3. CASE k # 1
    <3>1. 1 < k  BY <2>3
    <3> QED BY <1>1, <2>1, <3>1 DEF OrderInv, SortedRest, g
  <2> QED BY <2>2, <2>3
<1>7. AroundBase'
  <2>1. ASSUME NEW i \in Set, NEW s \in vflg[i]
        PROVE  i < last' /\ SubGpsTime(toc[i][s], g) < 0
    <3>1. s \in Sat /\ toc[i][s] \in GpsTimes /\ i \in Int
      BY SizeAssumption DEF BeforeStream, Set
    <3>2. /\ i <= last
          /\ i = last => SubGpsTime(toc[i][s], base) <= SECONDS_IN_HOUR
          /\ i < last => SubGpsTime(toc[i][s], base) < 0
      BY <1>1 DEF OrderInv, AroundBase, Reading
    <3>3. /\ Seconds(toc[i][s]) \in Int /\ Seconds(base) \in Int /\ Seconds(g) \in Int
          /\ SubGpsTime(toc[i][s], base) = Seconds(toc[i][s]) - Seconds(base)
          /\ SubGpsTime(toc[i][s], g) = Seconds(toc[i][s]) - Seconds(g)
      BY <1>4, <1>5, <3>1, Differences
    <3> QED BY <1>1, <1>2, <1>5, <3>1, <3>2, <3>3, HourValue
  <2>2. ASSUME NEW i \in Set, NEW s \in vflg'[i]
        PROVE  /\ base' # NoTime /\ i <= last'
               /\ i = last' => /\ SubGpsTime(toc'[i][s], base') >= 0
                               /\ SubGpsTime(toc'[i][s], base') <= SECONDS_IN_HOUR
               /\ i < last' => SubGpsTime(toc'[i][s], base') < 0
    <3>1. s \in vflg[i] /\ toc' = toc  BY <1>1
    <3>2. i < last' /\ SubGpsTime(toc[i][s], g) < 0  BY <2>1, <3>1
    <3>3. i \in Int /\ last' \in Int  BY <1>1, <1>2, SizeAssumption DEF Set
    <3> QED BY <1>3, <1>4, <3>1, <3>2, <3>3
  <2> QED BY <1>1, <2>2 DEF AroundBase
<1>8. SortedRest' /\ SetsOrdered'  BY <1>1 DEF OrderInv, SortedRest, SetsOrdered
<1> QED BY <1>6, <1>7, <1>8 DEF OrderInv

LEMMA ReaderOrder ==
    ASSUME EphTypeOK, BeforeStream, OrderInv, Reader
    PROVE  OrderInv'
<1> USE DEF reading, store, clock, vars, tables, Reading
<1>1. CASE NoFile  BY <1>1, OrderKept DEF NoFile, End
<1>2. CASE ReaderRefuses
  <2>1. /\ stage = "open" /\ stage' = "check" /\ neph' \in {-1, -2, -3}
        /\ UNCHANGED <<file, base, last, toc, vflg>>
    BY <1>2 DEF ReaderRefuses
  <2>2. \A i \in Set : vflg[i] = {}  BY <2>1 DEF OrderInv, AroundBase
  <2> QED BY <2>1, <2>2 DEF OrderInv, SortedRest, Upcoming, AroundBase, SetsOrdered
<1>3. CASE OpenFile
  <2>1. /\ stage = "open" /\ stage' = "header" /\ UNCHANGED <<file, base, last, toc>>
        /\ \A i \in Set : vflg'[i] = {}
    BY <1>3 DEF OpenFile
  <2> QED BY <2>1 DEF OrderInv, SortedRest, Upcoming, AroundBase, SetsOrdered
<1>4. CASE HeaderLine  BY <1>4, OrderKept DEF HeaderLine
<1>5. CASE EndOfHeader  BY <1>5, OrderKept DEF EndOfHeader
<1>6. CASE SkipLine
  <2>1. /\ stage = "records" /\ file # <<>> /\ file' = Tail(file)
        /\ UNCHANGED <<stage, base, last, neph, toc, vflg>>
    BY <1>6 DEF SkipLine
  <2>2. SortedRest'  BY <2>1, RestSorted DEF OrderInv, EphTypeOK
  <2>3. Upcoming'
    BY <2>1, HeadFirst DEF OrderInv, Upcoming, EphTypeOK
  <2>4. AroundBase' /\ SetsOrdered'
    BY <2>1 DEF OrderInv, AroundBase, SetsOrdered
  <2> QED BY <2>2, <2>3, <2>4 DEF OrderInv
<1>7. CASE ReadRecord  BY <1>7, ReadRecordOrder
<1>8. CASE TooManySets  BY <1>8, TooManyOrder
<1>9. CASE EndOfFile  BY <1>9, OrderKept DEF EndOfFile
<1>10. CASE ReaderReturns
  <2>1. /\ stage = "return" /\ stage' = "check" /\ file' = <<>> /\ base' = NoTime
        /\ neph' = (IF base = NoTime THEN 0 ELSE last + 1)
        /\ UNCHANGED <<toc, vflg>>
    BY <1>10 DEF ReaderReturns
  <2>2. ASSUME NEW i \in Set, i >= neph' PROVE vflg[i] = {}
    <3>1. \A s \in vflg[i] : base # NoTime /\ i <= last
      BY <2>1 DEF OrderInv, AroundBase
    <3>2. i \in Int /\ last \in Int  BY <2>1, SizeAssumption DEF EphTypeOK, Set
    <3> QED BY <2>1, <2>2, <3>1, <3>2
  <2>3. SortedRest' /\ Upcoming'  BY <2>1 DEF SortedRest, Upcoming
  <2>4. AroundBase' /\ SetsOrdered'
    BY <2>1, <2>2 DEF OrderInv, AroundBase, SetsOrdered
  <2> QED BY <2>3, <2>4 DEF OrderInv
<1>11. CASE StrayRecord  BY <1>11, OrderKept DEF StrayRecord, End
<1> QED BY <1>1, <1>2, <1>3, <1>4, <1>5, <1>6, <1>7, <1>8, <1>9, <1>10, <1>11 DEF Reader

(* "now" moves all ephemerides by the same number of seconds. *)
LEMMA NowOrder ==
    ASSUME EphTypeOK, BeforeStream, OrderInv, StartNow
    PROVE  OrderInv'
<1> DEFINE d == SubGpsTime(TwoHours(Date2Gps(start.t)), gmin)
<1>1. /\ stage = "check" /\ stage' = "select" /\ toc' = Moved(d)
      /\ UNCHANGED <<file, base, last, neph, vflg>> /\ vflg[0] # {}
  BY DEF StartNow, StartsAt, Counted, reading, vars
<1>2. d \in Int
  <2>1. Date2Gps(start.t) \in GpsTimes  BY StartTypes DEF EphTypeOK
  <2>2. gmin \in GpsTimes  BY <1>1, FirstTimeType
  <2> QED BY <2>1, <2>2, TwoHoursType, SubSeconds
<1> HIDE DEF d
<1>3. ASSUME NEW i \in Set, NEW s \in vflg[i]
      PROVE  /\ toc[i][s] \in GpsTimes /\ toc'[i][s] \in GpsTimes
             /\ Seconds(toc'[i][s]) = Seconds(toc[i][s]) + d
  <2>1. i < neph
    <3>1. ~(i >= neph)  BY <1>1 DEF OrderInv, AroundBase
    <3>2. i \in Int /\ neph \in Int  BY SizeAssumption DEF EphTypeOK, Set
    <3> QED BY <3>1, <3>2
  <2>2. s \in Sat /\ toc[i][s] \in GpsTimes  BY DEF BeforeStream, EphTypeOK
  <2>3. toc'[i][s] = IncGpsTime(toc[i][s], d)  BY <1>1, <2>1, <2>2 DEF Moved
  <2> QED BY <1>2, <2>2, <2>3, IncSeconds
<1>4. SetsOrdered'
  <2> SUFFICES ASSUME NEW i \in Set, NEW j \in Set, NEW s \in vflg[i], NEW u \in vflg[j]
               PROVE  /\ i < j => SubGpsTime(toc'[j][u], toc'[i][s]) > 0
                      /\ i = j => SubGpsTime(toc'[j][u], toc'[i][s]) <= SECONDS_IN_HOUR
    BY <1>1 DEF SetsOrdered
  <2>1. SubGpsTime(toc'[j][u], toc'[i][s]) = SubGpsTime(toc[j][u], toc[i][s])
    <3>1. /\ toc[i][s] \in GpsTimes /\ toc'[i][s] \in GpsTimes
          /\ toc[j][u] \in GpsTimes /\ toc'[j][u] \in GpsTimes
          /\ Seconds(toc'[i][s]) = Seconds(toc[i][s]) + d
          /\ Seconds(toc'[j][u]) = Seconds(toc[j][u]) + d
      BY <1>3
    <3> QED BY <1>2, <3>1, Differences
  <2> QED BY <2>1 DEF OrderInv, SetsOrdered
<1>5. SortedRest' /\ Upcoming' /\ AroundBase'
  BY <1>1 DEF OrderInv, SortedRest, Upcoming, AroundBase, Reading
<1> QED BY <1>4, <1>5 DEF OrderInv

LEMMA OrderStep == GpsInv /\ OrderInv /\ [GpsNext]_allVars => OrderInv'
<1> SUFFICES ASSUME GpsInv, OrderInv, [GpsNext]_allVars PROVE OrderInv'  OBVIOUS
<1> USE DEF GpsInv, reading, store, clock, vars, tables, Reading
<1>1. CASE Reader  BY <1>1, ReaderOrder
<1>2. CASE StartNow  BY <1>2, NowOrder
<1>3. CASE ChooseStart /\ ~StartNow
  BY <1>3, OrderKept DEF ChooseStart, NoEphemeris, WrongCount, NoMotion, NoFirstTime,
  Counted,
     StartAtFirst, StartAtStray, StartAsAsked, InvalidStart, StartsAt, SelectSet, NoCurrentSet, End
<1>4. CASE Ready  BY <1>4, OrderKept DEF Ready
<1>5. CASE Stream
  BY <1>5, OrderKept DEF Stream, Round, RefreshWhenDue, Allocate, Leave, running, End,
     GenerateMessages, AllocateChannel, Allocated
<1>6. CASE ReadAlmanac \/ CheckAlmanac
  BY <1>6, OrderKept DEF ReadAlmanac, NoAlmanac, AlmanacHeader, WholeRecord, FileEnds,
     FileEndsInRecord, GarbledRecord, AllRead, CheckAlmanac, AlmanacAccepted, AlmanacRefused,
     goTo, End
<1>7. CASE UNCHANGED allVars  BY <1>7, OrderKept DEF allVars, ephVars
<1> QED BY <1>1, <1>2, <1>3, <1>4, <1>5, <1>6, <1>7 DEF GpsNext, Over

(* In a file sorted by time the sets follow each other, also after "now"    *)
(* has moved them.                                                          *)
THEOREM SetsInOrder == ASSUME Sorted PROVE GpsSpec => []SetsOrdered
<1>1. GpsInit => OrderInv
  <2> SUFFICES ASSUME GpsInit PROVE OrderInv  OBVIOUS
  <2> USE DEF GpsInit, EphInit
  <2>1. SortedRest  BY Sorted DEF Sorted, SortedRest
  <2> QED BY <2>1 DEF OrderInv, Upcoming, AroundBase, SetsOrdered
<1>2. OrderInv => SetsOrdered  BY DEF OrderInv
<1> QED BY <1>1, <1>2, OrderStep, GpsInvariant, PTL DEF GpsSpec

-----------------------------------------------------------------------------
(* Dates.                                                                   *)

(* The years of YearsAssumption. *)
InRange(y) == 1981 <= y /\ y <= 2099

(* The days that date2gps counts. *)
DayOf(y, m, d) == (y - 1980) * 365 + doy[m] + d + LeapDays(y - 1980, m) - 6

LEMMA NoonOfDay ==
    ASSUME NEW a \in Int, 0 <= a, a < 7
    PROVE  (a * 86400 + 45296) \div 86400 = a
BY SMT

(* The time of Noon on a day with that number. *)
NoonOf(n) == [week |-> n \div 7, sec |-> (n % 7) * 86400 + 45296]

LEMMA DayType ==
    ASSUME NEW y \in Int, NEW m \in 1..12, NEW d \in Int
    PROVE  DayOf(y, m, d) \in Int
<1>1. doy[m] \in Int  BY DEF doy
<1>2. LeapDays(y - 1980, m) \in Int
  <2>1. (y - 1980) \div 4 \in Int  BY SMT
  <2> QED BY <2>1 DEF LeapDays
<1> QED BY <1>1, <1>2 DEF DayOf

LEMMA NoonTime ==
    ASSUME NEW y \in Int, NEW m \in 1..12, NEW d \in Int
    PROVE  Date2Gps(Noon(y, m, d)) = NoonOf(DayOf(y, m, d))
<1> DEFINE de == DayOf(y, m, d)
<1>1. de \in Int  BY DayType
<1>2. Date2Gps(Noon(y, m, d)) =
         [week |-> de \div 7,
          sec |-> (de % 7) * 86400 + 12 * 3600 + 34 * 60 + 56]
  BY DEF Date2Gps, Noon, DayOf, SECONDS_IN_DAY, SECONDS_IN_HOUR, SECONDS_IN_MINUTE
<1> HIDE DEF de
<1>3. (de % 7) * 86400 + 12 * 3600 + 34 * 60 + 56 = (de % 7) * 86400 + 45296
  <2>1. de % 7 \in Int  BY <1>1, SMT
  <2> QED BY <2>1, SMT
<1> QED BY <1>2, <1>3 DEF NoonOf, de

LEMMA NumberBack == ASSUME NEW n \in Int PROVE NumberOf(NoonOf(n)) = n
<1> DEFINE a == n % 7
<1>1. a \in Int /\ 0 <= a /\ a < 7 /\ n = 7 * (n \div 7) + a  BY SMT
<1> HIDE DEF a
<1>2. (a * 86400 + 45296) \div 86400 = a  BY <1>1, NoonOfDay
<1>3. NumberOf(NoonOf(n)) = 7 * (n \div 7) + ((a * 86400 + 45296) \div 86400)
  BY DEF NumberOf, NoonOf, SECONDS_IN_DAY, a
<1> QED BY <1>1, <1>2, <1>3

LEMMA NoonNumber ==
    ASSUME NEW y \in Int, NEW m \in 1..12, NEW d \in Int
    PROVE  NumberOf(Date2Gps(Noon(y, m, d))) = DayOf(y, m, d)
BY NoonTime, DayType, NumberBack

LEMMA LeapYears ==
    ASSUME NEW y \in Int, 1981 <= y, y <= 2099
    PROVE  LeapYear(y) <=> (y - 1980) % 4 = 0
BY SMT DEF LeapYear

LEMMA MonthLengths ==
    ASSUME NEW y, NEW m
    PROVE  /\ MonthLength(y, m) \in 28..31
           /\ m = 2 => MonthLength(y, m) = IF LeapYear(y) THEN 29 ELSE 28
           /\ m \in {4, 6, 9, 11} => MonthLength(y, m) = 30
           /\ m \notin {2, 4, 6, 9, 11} => MonthLength(y, m) = 31
BY DEF MonthLength

(* Each day has the number after that of the day before it. *)
LEMMA DaysFollow ==
    ASSUME NEW y \in Int, InRange(y), NEW m \in 1..12,
           NEW d \in Int, 1 <= d, d <= MonthLength(y, m)
    PROVE  /\ d < MonthLength(y, m) => DayOf(y, m, d + 1) = DayOf(y, m, d) + 1
           /\ d = MonthLength(y, m) /\ m < 12 => DayOf(y, m + 1, 1) = DayOf(y, m, d) + 1
           /\ d = MonthLength(y, m) /\ m = 12 => DayOf(y + 1, 1, 1) = DayOf(y, m, d) + 1
<1> DEFINE ye == y - 1980
<1>1. /\ y \in Int /\ 1981 <= y /\ y <= 2099
      /\ ye \in Int /\ y = ye + 1980 /\ ye \in 1..119
  BY SMT DEF InRange
<1>2. MonthLength(y, m) \in 28..31 /\ d \in Int  BY MonthLengths
<1>3. /\ m = 2 => MonthLength(y, m) = IF ye % 4 = 0 THEN 29 ELSE 28
      /\ m \in {4, 6, 9, 11} => MonthLength(y, m) = 30
      /\ m \notin {2, 4, 6, 9, 11} => MonthLength(y, m) = 31
  BY <1>1, LeapYears, MonthLengths
<1> DEFINE n == MonthLength(y, m)
<1> HIDE DEF n, ye
<1>4. \A k \in 1..12 : doy[k] \in Int /\ LeapDays(ye, k) \in Int
  <2>1. ye \div 4 \in Int  BY <1>1, SMT
  <2> QED BY <2>1 DEF doy, LeapDays
<1>5. d < n => DayOf(y, m, d + 1) = DayOf(y, m, d) + 1
  BY <1>1, <1>2, <1>4 DEF DayOf, ye
<1>6. d = n /\ m < 12 => DayOf(y, m + 1, 1) = DayOf(y, m, d) + 1
  <2> SUFFICES ASSUME d = n, m < 12 PROVE DayOf(y, m + 1, 1) = DayOf(y, m, d) + 1  OBVIOUS
  <2>1. doy[m + 1] + LeapDays(ye, m + 1) = doy[m] + LeapDays(ye, m) + n
    <3>1. m \in {1, 2, 3, 4, 5, 6, 7, 8, 9, 10, 11}  OBVIOUS
    <3>2. ye \div 4 \in Int  BY <1>1, SMT
    <3>3. CASE m = 1  BY <1>3, <3>2, <3>3, SMT DEF doy, LeapDays, n
    <3>4. CASE m = 2  BY <1>3, <3>2, <3>4, SMT DEF doy, LeapDays, n
    <3>5. CASE m \in {3, 5, 7, 8, 10}
      BY <1>3, <3>2, <3>5, SMT DEF doy, LeapDays, n
    <3>6. CASE m \in {4, 6, 9, 11}
      BY <1>3, <3>2, <3>6, SMT DEF doy, LeapDays, n
    <3> QED BY <3>1, <3>3, <3>4, <3>5, <3>6
  <2>2. m + 1 \in 1..12  OBVIOUS
  <2>3. DayOf(y, m + 1, 1) = ye * 365 + doy[m + 1] + 1 + LeapDays(ye, m + 1) - 6
    BY DEF DayOf, ye
  <2>4. DayOf(y, m, d) = ye * 365 + doy[m] + n + LeapDays(ye, m) - 6
    BY DEF DayOf, ye
  <2>5. /\ doy[m] \in Int /\ LeapDays(ye, m) \in Int /\ n \in Int
        /\ doy[m + 1] \in Int /\ LeapDays(ye, m + 1) \in Int
    BY <1>2, <1>4, <2>2 DEF n
  <2> QED BY <1>1, <2>1, <2>3, <2>4, <2>5
<1>7. d = n /\ m = 12 => DayOf(y + 1, 1, 1) = DayOf(y, m, d) + 1
  <2> SUFFICES ASSUME d = n, m = 12 PROVE DayOf(y + 1, 1, 1) = DayOf(y, 12, 31) + 1
    BY <1>3 DEF n
  <2>1. LeapDays(ye + 1, 1) = LeapDays(ye, 12)
    BY <1>1, SMT DEF LeapDays
  <2>2. doy[1] = 0 /\ doy[12] = 334  BY DEF doy
  <2>3. y + 1 - 1980 = ye + 1 /\ y - 1980 = ye  BY <1>1
  <2>4. LeapDays(ye, 12) \in Int  BY <1>4
  <2> QED BY <1>1, <2>1, <2>2, <2>3, <2>4 DEF DayOf
<1> QED BY <1>2, <1>5, <1>6, <1>7 DEF n

(* gps2date counts years and months from March on: March is month 4 of its  *)
(* year, January and February are months 14 and 15 of the year before.      *)
MarchYear(y, m) == IF m <= 2 THEN y + 4715 ELSE y + 4716
MarchMonth(m) == IF m <= 2 THEN m + 13 ELSE m + 1

JulianNumber(n) == n + 2444245 + 1537

(* Days of a year of those before its month f, and days before the year h;  *)
(* the Julian day number of day k of year h; and what gps2date takes out of *)
(* it again.                                                                *)
MonthStart(f) == (306001 * f) \div 10000
DayOfYear(f, d) == MonthStart(f) + d
YearStart(h) == 365 * h + (h \div 4)
JulianOf(h, k) == YearStart(h) + k
YearFrom(c) == (100 * c - 12210) \div 36525
MonthFrom(k) == (10000 * k) \div 306001
MonthOf(f) == f - 1 - 12 * (f \div 14)
YearOf(h, m) == h - 4715 - ((7 + m) \div 10)
InYear(h, k) == 123 <= k /\ (k <= 487 \/ (k = 488 /\ h % 4 = 3))

(* The day number and the time of day of a GPS time. *)
DayNumber(g) == 7 * g.week + (g.sec \div 86400)
HourOf(g) == (g.sec \div 3600) % 24
MinuteOf(g) == (g.sec \div 60) % 60
SecondOf(g) == g.sec % 60

LEMMA JulianDay ==
    ASSUME NEW y \in Int, InRange(y), NEW m \in 1..12,
           NEW d \in Int, 1 <= d, d <= MonthLength(y, m),
           NEW h \in Int, h = MarchYear(y, m), NEW f \in Int, f = MarchMonth(m)
    PROVE  /\ JulianNumber(DayOf(y, m, d)) = JulianOf(h, DayOfYear(f, d))
           /\ MonthFrom(DayOfYear(f, d)) = f
           /\ InYear(h, DayOfYear(f, d)) /\ DayOfYear(f, d) \in Int
<1> DEFINE ye == y - 1980
           n == MonthLength(y, m)
<1>1. /\ y \in Int /\ 1981 <= y /\ y <= 2099 /\ d \in Int /\ 1 <= d /\ d <= n
      /\ ye \in Int /\ y = ye + 1980 /\ 1 <= ye /\ ye <= 119
  BY MonthLengths DEF InRange
<1>2. /\ m = 2 => n = IF ye % 4 = 0 THEN 29 ELSE 28
      /\ m \in {4, 6, 9, 11} => n = 30
      /\ m \notin {2, 4, 6, 9, 11} => n = 31
  BY <1>1, LeapYears, MonthLengths
<1>3. /\ DayOf(y, m, d) = ye * 365 + doy[m] + d + LeapDays(ye, m) - 6
      /\ h = IF m <= 2 THEN ye + 6695 ELSE ye + 6696
      /\ f = IF m <= 2 THEN m + 13 ELSE m + 1
  BY <1>1 DEF DayOf, MarchYear, MarchMonth
<1> HIDE DEF n, ye
<1>5. CASE m = 1
  BY <1>1, <1>2, <1>3, <1>5, SMT
     DEF doy, LeapDays, DayOfYear, JulianOf, JulianNumber,
         MonthStart, YearStart, MonthFrom, InYear
<1>6. CASE m = 2
  BY <1>1, <1>2, <1>3, <1>6, SMT
     DEF doy, LeapDays, DayOfYear, JulianOf, JulianNumber,
         MonthStart, YearStart, MonthFrom, InYear
<1>7. CASE m = 3
  BY <1>1, <1>2, <1>3, <1>7, SMT
     DEF doy, LeapDays, DayOfYear, JulianOf, JulianNumber,
         MonthStart, YearStart, MonthFrom, InYear
<1>8. CASE m = 4
  BY <1>1, <1>2, <1>3, <1>8, SMT
     DEF doy, LeapDays, DayOfYear, JulianOf, JulianNumber,
         MonthStart, YearStart, MonthFrom, InYear
<1>9. CASE m = 5
  BY <1>1, <1>2, <1>3, <1>9, SMT
     DEF doy, LeapDays, DayOfYear, JulianOf, JulianNumber,
         MonthStart, YearStart, MonthFrom, InYear
<1>10. CASE m = 6
  BY <1>1, <1>2, <1>3, <1>10, SMT
     DEF doy, LeapDays, DayOfYear, JulianOf, JulianNumber,
         MonthStart, YearStart, MonthFrom, InYear
<1>11. CASE m = 7
  BY <1>1, <1>2, <1>3, <1>11, SMT
     DEF doy, LeapDays, DayOfYear, JulianOf, JulianNumber,
         MonthStart, YearStart, MonthFrom, InYear
<1>12. CASE m = 8
  BY <1>1, <1>2, <1>3, <1>12, SMT
     DEF doy, LeapDays, DayOfYear, JulianOf, JulianNumber,
         MonthStart, YearStart, MonthFrom, InYear
<1>13. CASE m = 9
  BY <1>1, <1>2, <1>3, <1>13, SMT
     DEF doy, LeapDays, DayOfYear, JulianOf, JulianNumber,
         MonthStart, YearStart, MonthFrom, InYear
<1>14. CASE m = 10
  BY <1>1, <1>2, <1>3, <1>14, SMT
     DEF doy, LeapDays, DayOfYear, JulianOf, JulianNumber,
         MonthStart, YearStart, MonthFrom, InYear
<1>15. CASE m = 11
  BY <1>1, <1>2, <1>3, <1>15, SMT
     DEF doy, LeapDays, DayOfYear, JulianOf, JulianNumber,
         MonthStart, YearStart, MonthFrom, InYear
<1>16. CASE m = 12
  BY <1>1, <1>2, <1>3, <1>16, SMT
     DEF doy, LeapDays, DayOfYear, JulianOf, JulianNumber,
         MonthStart, YearStart, MonthFrom, InYear
<1> QED BY <1>5, <1>6, <1>7, <1>8, <1>9, <1>10, <1>11, <1>12, <1>13, <1>14, <1>15, <1>16

LEMMA YearBack ==
    ASSUME NEW h \in Int, NEW k \in Int, InYear(h, k)
    PROVE  /\ YearStart(h) \in Int
           /\ YearFrom(JulianOf(h, k)) = h
           /\ JulianOf(h, k) - YearStart(h) = k
BY SMT DEF InYear, JulianOf, YearStart, YearFrom

LEMMA MonthBack ==
    ASSUME NEW y \in Int, NEW m \in 1..12
    PROVE  /\ MonthOf(MarchMonth(m)) = m
           /\ YearOf(MarchYear(y, m), m) = y
           /\ MarchMonth(m) \in Int /\ MarchYear(y, m) \in Int
BY SMT DEF MarchMonth, MarchYear, MonthOf, YearOf

LEMMA DayBack ==
    ASSUME NEW f \in Int, NEW d \in Int
    PROVE  DayOfYear(f, d) - MonthStart(f) = d
<1>1. MonthStart(f) \in Int  BY SMT DEF MonthStart
<1> QED BY <1>1 DEF DayOfYear

LEMMA TimeOfDay ==
    ASSUME NEW n \in Int
    PROVE  /\ DayNumber(NoonOf(n)) = n
           /\ HourOf(NoonOf(n)) = 12
           /\ MinuteOf(NoonOf(n)) = 34
           /\ SecondOf(NoonOf(n)) = 56
<1> DEFINE a == n % 7
           w == n \div 7
           s == a * 86400 + 45296
<1>1. a \in Int /\ 0 <= a /\ a < 7 /\ w \in Int /\ n = 7 * w + a  BY SMT
<1>2. NoonOf(n).sec = s /\ NoonOf(n).week = w  BY DEF NoonOf
<1> HIDE DEF a, w
<1>3. /\ s \in Int
      /\ s \div 86400 = a
      /\ (s \div 3600) % 24 = 12
      /\ (s \div 60) % 60 = 34
      /\ s % 60 = 56
  BY <1>1, SMT
<1> HIDE DEF s
<1>4. DayNumber(NoonOf(n)) = n  BY <1>1, <1>2, <1>3, SMT DEF DayNumber
<1>5. HourOf(NoonOf(n)) = 12  BY <1>2, <1>3, SMT DEF HourOf
<1>6. MinuteOf(NoonOf(n)) = 34  BY <1>2, <1>3, SMT DEF MinuteOf
<1>7. SecondOf(NoonOf(n)) = 56  BY <1>2, <1>3, SMT DEF SecondOf
<1> QED BY <1>4, <1>5, <1>6, <1>7

(* The steps of gps2date, by their names. *)
LEMMA DateSteps ==
    ASSUME NEW g
    PROVE  Gps2Date(g) =
             LET c == JulianNumber(DayNumber(g))
                 h == YearFrom(c)
                 k == c - YearStart(h)
                 f == MonthFrom(k)
             IN  [d |-> k - MonthStart(f), m |-> MonthOf(f), y |-> YearOf(h, MonthOf(f)),
                  hh |-> HourOf(g), mm |-> MinuteOf(g), sec |-> SecondOf(g)]
BY DEF Gps2Date, SECONDS_IN_DAY, SECONDS_IN_HOUR, SECONDS_IN_MINUTE, DayNumber, JulianNumber,
   YearFrom, YearStart, MonthFrom, MonthStart, MonthOf, YearOf, HourOf, MinuteOf, SecondOf

LEMMA DateBack ==
    ASSUME NEW y \in Int, InRange(y), NEW m \in 1..12,
           NEW d \in Int, 1 <= d, d <= MonthLength(y, m)
    PROVE  Gps2Date(Date2Gps(Noon(y, m, d))) = Noon(y, m, d)
<1> DEFINE n == DayOf(y, m, d)
           g == NoonOf(n)
           h == MarchYear(y, m)
           f == MarchMonth(m)
           k == DayOfYear(f, d)
           c == JulianOf(h, k)
<1>2. n \in Int  BY DayType
<1>3. MonthOf(f) = m /\ YearOf(h, m) = y /\ f \in Int /\ h \in Int
  BY MonthBack
<1>4. Date2Gps(Noon(y, m, d)) = g  BY NoonTime
<1>5. JulianNumber(n) = c /\ MonthFrom(k) = f /\ InYear(h, k) /\ k \in Int
  BY <1>3, JulianDay
<1> HIDE DEF n, h, f
<1>6. k - MonthStart(f) = d  BY <1>3, DayBack
<1> HIDE DEF k
<1>7. YearFrom(c) = h /\ c - YearStart(h) = k  BY <1>3, <1>5, YearBack
<1> HIDE DEF c
<1>8. DayNumber(g) = n /\ HourOf(g) = 12 /\ MinuteOf(g) = 34 /\ SecondOf(g) = 56
  BY <1>2, TimeOfDay
<1> HIDE DEF g
<1>9. Gps2Date(g) =
        [d |-> k - MonthStart(f), m |-> MonthOf(f), y |-> YearOf(h, MonthOf(f)),
         hh |-> HourOf(g), mm |-> MinuteOf(g), sec |-> SecondOf(g)]
  BY <1>5, <1>7, <1>8, DateSteps
<1> QED BY <1>3, <1>4, <1>6, <1>8, <1>9 DEF Noon

(* The conversions of dates are right, for all years the model allows.      *)
THEOREM DatesConvert == GpsSpec => []DatesRight
<1>1. NumberOf(Date2Gps(Noon(1981, 1, 1))) = 366 - 5
  <2>1. NumberOf(Date2Gps(Noon(1981, 1, 1))) = DayOf(1981, 1, 1)
    BY NoonNumber
  <2>2. DayOf(1981, 1, 1) = 361  BY SMT DEF DayOf, doy, LeapDays
  <2> QED BY <2>1, <2>2
<1>2. ASSUME NEW y \in Years, NEW m \in 1..12, NEW d \in 1..MonthLength(y, m)
      PROVE  /\ NumberOf(Date2Gps(NoonAfter(y, m, d))) = NumberOf(Date2Gps(Noon(y, m, d))) + 1
             /\ Gps2Date(Date2Gps(Noon(y, m, d))) = Noon(y, m, d)
  <2>1. y \in Int /\ InRange(y)
    BY YearsAssumption DEF InRange
  <2>3. d \in Int /\ MonthLength(y, m) \in Int /\ 1 <= d /\ d <= MonthLength(y, m)
    BY MonthLengths
  <2>2. Gps2Date(Date2Gps(Noon(y, m, d))) = Noon(y, m, d)
    BY <2>1, <2>3, DateBack
  <2>4. NumberOf(Date2Gps(Noon(y, m, d))) = DayOf(y, m, d)  BY <2>1, <2>3, NoonNumber
  <2>5. /\ d < MonthLength(y, m) => DayOf(y, m, d + 1) = DayOf(y, m, d) + 1
        /\ d = MonthLength(y, m) /\ m < 12 => DayOf(y, m + 1, 1) = DayOf(y, m, d) + 1
        /\ d = MonthLength(y, m) /\ m = 12 => DayOf(y + 1, 1, 1) = DayOf(y, m, d) + 1
    BY <2>1, <2>3, DaysFollow
  <2>6. CASE d < MonthLength(y, m)
    <3>1. NumberOf(Date2Gps(Noon(y, m, d + 1))) = DayOf(y, m, d + 1)
      BY <2>1, <2>3, NoonNumber
    <3> QED BY <2>2, <2>4, <2>5, <2>6, <3>1 DEF NoonAfter
  <2>7. CASE ~(d < MonthLength(y, m)) /\ m < 12
    <3>1. m + 1 \in 1..12  BY <2>7
    <3>2. NumberOf(Date2Gps(Noon(y, m + 1, 1))) = DayOf(y, m + 1, 1)
      BY <2>1, <3>1, NoonNumber
    <3>3. d = MonthLength(y, m)  BY <2>3, <2>7
    <3> QED BY <2>2, <2>4, <2>5, <2>7, <3>2, <3>3 DEF NoonAfter
  <2>8. CASE ~(d < MonthLength(y, m)) /\ ~(m < 12)
    <3>1. NumberOf(Date2Gps(Noon(y + 1, 1, 1))) = DayOf(y + 1, 1, 1)
      BY <2>1, NoonNumber
    <3>2. d = MonthLength(y, m) /\ m = 12  BY <2>3, <2>8
    <3> QED BY <2>2, <2>4, <2>5, <2>8, <3>1, <3>2 DEF NoonAfter
  <2> QED BY <2>6, <2>7, <2>8
<1>3. CalendarRight  BY <1>1, <1>2 DEF CalendarRight
<1> QED BY <1>3, PTL DEF DatesRight

=============================================================================
