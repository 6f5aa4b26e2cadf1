------------------------------ MODULE FitProofs ------------------------------
(* Theorems about the sets of ephemerides in time: for all navigation files *)
(* whose sets open every two hours, the stream uses each ephemeris within   *)
(* its curve fit interval, and a start inside the file finds its set.       *)
EXTENDS GpsThreadProofs

-----------------------------------------------------------------------------
(* Files whose sets open every two hours.                                   *)

(* The time of a record, and the time at which set n opens in a file whose  *)
(* first set opens at o.                                                    *)
Moment(r) == Seconds(Date2Gps(r.t))
Opening(o, n) == o + 2 * SECONDS_IN_HOUR * n

(* The hour in which the records of set n lie. *)
InHour(x, o, n) == Opening(o, n) <= x /\ x <= Opening(o, n) + SECONDS_IN_HOUR

RecordBefore(f, k, x) == \E j \in DOMAIN f : j < k /\ f[j].gps /\ Moment(f[j]) = x

(* Set w is the one being filled, the records of f are still to come: each  *)
(* lies in the hour of set w or of a later one, no set is left out, and the *)
(* first record of a set lies at the time when it opens.                    *)
OnGrid(f, o, w) == \A k \in DOMAIN f : f[k].gps => \E n \in Nat :
    /\ n >= w /\ InHour(Moment(f[k]), o, n)
    /\ \/ n = w
       \/ Moment(f[k]) = Opening(o, n)
       \/ RecordBefore(f, k, Opening(o, n))
    /\ n <= w + 1 \/ RecordBefore(f, k, Opening(o, n - 1))

TwoHourly == \A f \in NavFiles : \E o \in Int : OnGrid(f, o, -1)

(* A record at the time a set opens is not replaced by a later one of the   *)
(* same satellite in the same set.                                          *)
OpenersStay(f, o) == \A j, k \in DOMAIN f : \A n \in Nat :
    /\ f[j].gps /\ f[k].gps /\ f[j].sv = f[k].sv
    /\ Moment(f[j]) = Opening(o, n) /\ InHour(Moment(f[k]), o, n)
    => Moment(f[k]) = Opening(o, n)

(* The time o is past the epoch: it is at least the first day of 1981.      *)
TwoHourlyKept == \A f \in NavFiles : \E o \in Nat \ {0} :
    OnGrid(f, o, -1) /\ OpenersStay(f, o)

-----------------------------------------------------------------------------
(* The inductive invariants.                                                *)

(* The reader keeps to the grid of the file; "now" moves the grid.          *)
BeforeEnd == {"open", "header", "records"}
Filling == IF base = NoTime THEN -1 ELSE last
Grid(o) ==
    /\ stage \in BeforeEnd => OnGrid(file, o, Filling)
    /\ stage \in Reading /\ base # NoTime => Seconds(base) = Opening(o, last)
    /\ stage \in Reading /\ base = NoTime => last = 0
    /\ \A i \in Set : \A s \in vflg[i] : InHour(Seconds(toc[i][s]), o, i)

GridInv == \E o \in Int : Grid(o)

(* A set is opened while it holds the ephemeris of the time it opens at.    *)
(* Only the last set may hold nothing, if the file ends in its first record.*)
Opened(o, i) == \E s \in vflg[i] : Seconds(toc[i][s]) = Opening(o, i)
OpenedTo(o, n) == \A i \in Set :
    /\ i < n => Opened(o, i)
    /\ i = n => Opened(o, i) \/ (vflg[i] = {} /\ stage \in {"return", "check"})

OpenerKept(o) == \A k \in DOMAIN file :
    /\ file[k].gps /\ file[k].sv \in vflg[last] /\ InHour(Moment(file[k]), o, last)
    /\ Seconds(toc[last][file[k].sv]) = Opening(o, last)
    => Moment(file[k]) = Opening(o, last)

OpenInv(o) ==
    /\ stage \in BeforeEnd => OpenersStay(file, o)
    /\ stage \in BeforeEnd /\ base # NoTime => OpenerKept(o)
    /\ stage \in Reading /\ base # NoTime => OpenedTo(o, last)
    /\ stage = "check" => OpenedTo(o, neph - 1)
    /\ stage \in Reading \cup {"check"} => o > 0

(* A start time that was accepted has a current set.                        *)
HasCurrent == stage = "select" /\ start.how # "now" =>
    \E i \in Set : i < neph /\ CurrentSet(i)

StartInv == HasCurrent /\ \E o \in Int : Grid(o) /\ OpenInv(o)

(* From the choice of the first set on, the ephemerides of the set in use   *)
(* are at most two hours old or ahead.  With a later set to change to that  *)
(* remains so: the update that would take them past it changes the set.     *)
AtMostApart(g, h, d) ==
    /\ -(2 * SECONDS_IN_HOUR) <= SubGpsTime(g, h)
    /\ SubGpsTime(g, h) <= 2 * SECONDS_IN_HOUR + d
FitInv ==
    /\ stage \in {"selected", "almanac", "toa", "ready"} =>
          \A s \in vflg[ieph] : AtMostApart(g0, toc[ieph][s], 0)
    /\ stage = "run" /\ ~outside =>
          /\ vflg[ieph] # {}
          /\ ieph + 1 \in Set /\ vflg[ieph + 1] # {} =>
                \A s \in vflg[ieph] :
                    AtMostApart(grx, toc[ieph][s], IF pc = "refresh" THEN Period ELSE 0)

-----------------------------------------------------------------------------
(* The grid.                                                                *)

LEMMA OpeningType ==
    ASSUME NEW o \in Int, NEW n \in Int
    PROVE  Opening(o, n) \in Int /\ InHour(Opening(o, n), o, n)
BY SMT DEF Opening, InHour, SECONDS_IN_HOUR

(* The hours of different sets are apart. *)
LEMMA HoursApart ==
    ASSUME NEW o \in Int, NEW m \in Int, NEW n \in Int, NEW x \in Int, NEW y \in Int,
           InHour(x, o, m), InHour(y, o, n), x <= y
    PROVE  m <= n
BY SMT DEF Opening, InHour, SECONDS_IN_HOUR

LEMMA HourUnique ==
    ASSUME NEW o \in Int, NEW m \in Int, NEW n \in Int, NEW x \in Int,
           InHour(x, o, m), InHour(x, o, n)
    PROVE  m = n
<1>1. m <= n /\ n <= m  BY HoursApart
<1> QED BY <1>1

LEMMA MomentType == ASSUME NEW r \in Records PROVE Moment(r) \in Int
BY RecordTypes, Differences DEF Moment

LEMMA RecordOfFile ==
    ASSUME file \in Seq(Records), NEW k \in DOMAIN file
    PROVE  file[k] \in Records /\ k \in Nat /\ k >= 1
OBVIOUS

(* The next record belongs to the set that is being filled, or opens the    *)
(* next one.                                                                *)
LEMMA HeadGrid ==
    ASSUME EphTypeOK, stage = "records", file # <<>>, Head(file).gps,
           NEW o \in Int, Grid(o), NEW g, g = Date2Gps(Head(file).t)
    PROVE  /\ g \in GpsTimes /\ g # NoTime /\ Seconds(g) \in Int
           /\ \/ base # NoTime /\ ~NewSet(g) /\ InHour(Seconds(g), o, last)
              \/ base # NoTime /\ NewSet(g) /\ Seconds(g) = Opening(o, last + 1)
              \/ base = NoTime /\ ~NewSet(g) /\ last = 0 /\ Seconds(g) = Opening(o, 0)
<1> USE DEF EphTypeOK
<1>1. Head(file) \in Records /\ 1 \in DOMAIN file /\ Head(file) = file[1]
  BY RestTypes, HeadFirst
<1>2. g \in GpsTimes /\ g # NoTime /\ Seconds(g) \in Int  BY <1>1, RecordTypes, Differences
<1>3. Moment(file[1]) = Seconds(g)  BY <1>1 DEF Moment
<1>4. \A x : ~RecordBefore(file, 1, x)
  BY RecordOfFile DEF RecordBefore
<1>5. PICK n \in Nat :
        /\ n >= Filling /\ InHour(Moment(file[1]), o, n)
        /\ n = Filling \/ Moment(file[1]) = Opening(o, n)
        /\ n <= Filling + 1
  BY <1>1, <1>4 DEF Grid, BeforeEnd, OnGrid
<1>6. last \in Int /\ base \in GpsTimes /\ Seconds(base) \in Int
  <2>1. base \in GpsTimes  BY FixedTimes
  <2> QED BY <2>1, SizeAssumption, Differences DEF Set
<1>7. NewSet(g) <=> base # NoTime /\ Seconds(g) - Seconds(base) > SECONDS_IN_HOUR
  BY <1>2, <1>6, Differences DEF NewSet
<1>8. CASE base = NoTime
  <2>1. last = 0 /\ Filling = -1  BY <1>8 DEF Grid, Reading, Filling
  <2>2. n = 0  BY <1>5, <2>1
  <2> QED BY <1>2, <1>3, <1>5, <1>7, <1>8, <2>1, <2>2
<1>9. CASE base # NoTime
  <2>1. Filling = last /\ Seconds(base) = Opening(o, last)
    BY <1>9 DEF Grid, Reading, Filling
  <2>2. n = last \/ n = last + 1  BY <1>5, <1>6, <2>1
  <2>3. CASE n = last
    <3>1. InHour(Seconds(g), o, last)  BY <1>3, <1>5, <2>3
    <3>2. ~NewSet(g)
      BY <1>2, <1>6, <1>7, <2>1, <3>1, SMT DEF InHour, Opening, SECONDS_IN_HOUR
    <3> QED BY <1>2, <1>9, <3>1, <3>2
  <2>4. CASE n = last + 1
    <3>1. Seconds(g) = Opening(o, last + 1)  BY <1>3, <1>5, <1>6, <2>1, <2>4
    <3>2. NewSet(g)
      BY <1>2, <1>6, <1>7, <1>9, <2>1, <3>1, SMT DEF Opening, SECONDS_IN_HOUR
    <3> QED BY <1>2, <1>9, <3>1, <3>2
  <2> QED BY <2>2, <2>3, <2>4
<1> QED BY <1>8, <1>9

(* Behind it the file goes on from the set it went to. *)
LEMMA RestGrid ==
    ASSUME EphTypeOK, OrderInv, stage = "records", file # <<>>, Head(file).gps,
           NEW o \in Int, Grid(o), NEW w \in Int, w >= 0, Filling <= w,
           InHour(Moment(Head(file)), o, w)
    PROVE  OnGrid(Tail(file), o, w)
<1> USE DEF EphTypeOK
<1>1. /\ 1 \in DOMAIN file /\ Head(file) = file[1] /\ Head(file) \in Records
      /\ \A k \in DOMAIN Tail(file) :
            k + 1 \in DOMAIN file /\ 1 < k + 1 /\ Tail(file)[k] = file[k + 1]
  BY RestTypes, HeadFirst
<1> SUFFICES ASSUME NEW k \in DOMAIN Tail(file), Tail(file)[k].gps
             PROVE  \E n \in Nat :
                      /\ n >= w /\ InHour(Moment(Tail(file)[k]), o, n)
                      /\ \/ n = w
                         \/ Moment(Tail(file)[k]) = Opening(o, n)
                         \/ RecordBefore(Tail(file), k, Opening(o, n))
                      /\ n <= w + 1 \/ RecordBefore(Tail(file), k, Opening(o, n - 1))
  BY DEF OnGrid
<1>2. k + 1 \in DOMAIN file /\ file[k + 1] = Tail(file)[k] /\ file[k + 1] \in Records
  BY <1>1, RecordOfFile
<1>3. PICK n \in Nat :
        /\ n >= Filling /\ InHour(Moment(file[k + 1]), o, n)
        /\ \/ n = Filling
           \/ Moment(file[k + 1]) = Opening(o, n)
           \/ RecordBefore(file, k + 1, Opening(o, n))
        /\ n <= Filling + 1 \/ RecordBefore(file, k + 1, Opening(o, n - 1))
  BY <1>2 DEF Grid, BeforeEnd, OnGrid
<1>4. Moment(file[1]) \in Int /\ Moment(file[k + 1]) \in Int  BY <1>1, <1>2, MomentType
<1>5. Moment(file[1]) <= Moment(file[k + 1])
  <2>1. SubGpsTime(Date2Gps(file[k + 1].t), Date2Gps(file[1].t)) >= 0
    BY <1>1, <1>2 DEF OrderInv, SortedRest
  <2>2. Date2Gps(file[k + 1].t) \in GpsTimes /\ Date2Gps(file[1].t) \in GpsTimes
    BY <1>1, <1>2, RecordTypes
  <2> QED BY <1>4, <2>1, <2>2, Differences DEF Moment
<1>6. w <= n  BY <1>1, <1>3, <1>4, <1>5, HoursApart
(* A record before is the first one, or is still before. *)
<1>7. ASSUME NEW x, RecordBefore(file, k + 1, x)
      PROVE  x = Moment(file[1]) \/ RecordBefore(Tail(file), k, x)
  <2>1. PICK j \in DOMAIN file : j < k + 1 /\ file[j].gps /\ Moment(file[j]) = x
    BY <1>7 DEF RecordBefore
  <2>2. CASE j = 1  BY <2>1, <2>2
  <2>3. CASE j # 1
    <3>1. j - 1 \in DOMAIN Tail(file) /\ Tail(file)[j - 1] = file[j] /\ j - 1 < k
      BY <2>1, <2>3, SMTT(30)
    <3> QED BY <2>1, <3>1 DEF RecordBefore
  <2> QED BY <2>2, <2>3
<1>8. ASSUME NEW m \in Int, Opening(o, m) = Moment(file[1]) PROVE m = w
  <2>1. InHour(Moment(file[1]), o, m)
    <3>1. InHour(Opening(o, m), o, m)  BY OpeningType
    <3> QED BY <1>8, <3>1
  <2>2. InHour(Moment(file[1]), o, w)  BY <1>1
  <2>3. Moment(file[1]) \in Int  BY <1>4
  <2> QED BY <2>1, <2>2, <2>3, HourUnique
<1>9. \/ n = w
      \/ Moment(file[k + 1]) = Opening(o, n)
      \/ RecordBefore(Tail(file), k, Opening(o, n))
  <2>1. Filling \in Int  BY SizeAssumption DEF Filling, Set
  <2>2. CASE n = Filling  BY <1>6, <2>1, <2>2
  <2>3. CASE RecordBefore(file, k + 1, Opening(o, n))  BY <1>7, <1>8, <2>3
  <2> QED BY <1>3, <2>2, <2>3
<1>10. n <= w + 1 \/ RecordBefore(Tail(file), k, Opening(o, n - 1))
  <2>1. Filling \in Int  BY SizeAssumption DEF Filling, Set
  <2>2. CASE n <= Filling + 1  BY <2>1, <2>2
  <2>3. CASE RecordBefore(file, k + 1, Opening(o, n - 1))
    <3>1. n - 1 = w \/ RecordBefore(Tail(file), k, Opening(o, n - 1))
      BY <1>7, <1>8, <2>3
    <3> QED BY <3>1
  <2> QED BY <1>3, <2>2, <2>3
<1> QED BY <1>2, <1>3, <1>6, <1>9, <1>10

(* What a record changes in the tables. *)
LEMMA RecordPlaced ==
    ASSUME EphTypeOK, BeforeStream, ReadRecord
    PROVE  \E r \in Records, g \in GpsTimes, i \in Set :
             /\ r = Head(file) /\ g = Date2Gps(r.t) /\ r.gps /\ r.sv \in Sat
             /\ stage = "records" /\ file # <<>> /\ file' = Tail(file)
             /\ i = (IF NewSet(g) THEN last + 1 ELSE last) /\ last' = i /\ last \in Set
             /\ base' = BaseFor(g) /\ base' # NoTime
             /\ stage' = (IF r.whole THEN "records" ELSE "return")
             /\ vflg' = IF r.whole THEN [vflg EXCEPT ![i] = @ \cup {r.sv}] ELSE vflg
             /\ toc' = [toc EXCEPT ![i][r.sv] = g]
<1> DEFINE r == Head(file)
           g == Date2Gps(r.t)
           i == IF NewSet(g) THEN last + 1 ELSE last
<1>1. /\ stage = "records" /\ file # <<>> /\ r.gps /\ file' = Tail(file)
      /\ i < Sets /\ base' = BaseFor(g) /\ last' = i
      /\ toc' = [toc EXCEPT ![i][r.sv] = g]
      /\ vflg' = IF r.whole THEN [vflg EXCEPT ![i] = @ \cup {r.sv}] ELSE vflg
      /\ stage' = IF r.whole THEN "records" ELSE "return"
      /\ r.sv \in Sat
  BY DEF ReadRecord
<1>2. r \in Records  BY <1>1, RestTypes DEF EphTypeOK
<1>3. g \in GpsTimes /\ g # NoTime /\ r.sv \in Sat  BY <1>1, <1>2, RecordTypes
<1>4. last \in Set  BY <1>1 DEF EphTypeOK
<1>5. i \in Set  BY <1>1, <1>4, SizeAssumption DEF Set
<1>6. base' # NoTime  BY <1>1, <1>3 DEF BaseFor
<1> HIDE DEF i, g, r
<1>7. i = (IF NewSet(g) THEN last + 1 ELSE last) /\ g = Date2Gps(r.t) /\ r = Head(file)
  BY DEF i, g, r
<1> QED BY <1>1, <1>2, <1>3, <1>4, <1>5, <1>6, <1>7

LEMMA ReadRecordGrid ==
    ASSUME EphTypeOK, BeforeStream, OrderInv, NEW o \in Int, Grid(o), ReadRecord
    PROVE  Grid(o)'
<1>1. PICK r \in Records, g \in GpsTimes, i \in Set :
        /\ r = Head(file) /\ g = Date2Gps(r.t) /\ r.gps /\ r.sv \in Sat
        /\ stage = "records" /\ file # <<>> /\ file' = Tail(file)
        /\ i = (IF NewSet(g) THEN last + 1 ELSE last) /\ last' = i /\ last \in Set
        /\ base' = BaseFor(g) /\ base' # NoTime
        /\ stage' = (IF r.whole THEN "records" ELSE "return")
        /\ vflg' = IF r.whole THEN [vflg EXCEPT ![i] = @ \cup {r.sv}] ELSE vflg
        /\ toc' = [toc EXCEPT ![i][r.sv] = g]
  BY RecordPlaced
<1>2. /\ Seconds(g) \in Int
      /\ \/ base # NoTime /\ ~NewSet(g) /\ InHour(Seconds(g), o, last)
         \/ base # NoTime /\ NewSet(g) /\ Seconds(g) = Opening(o, last + 1)
         \/ base = NoTime /\ ~NewSet(g) /\ last = 0 /\ Seconds(g) = Opening(o, 0)
  BY <1>1, HeadGrid
<1>3. last \in Nat /\ i \in Nat  BY <1>1, SizeAssumption DEF Set
<1>4. InHour(Seconds(g), o, i)
  BY <1>1, <1>2, <1>3, OpeningType
<1>5. Seconds(base') = Opening(o, i)
  <2>1. base # NoTime => Seconds(base) = Opening(o, last)  BY <1>1 DEF Grid, Reading
  <2> QED BY <1>1, <1>2, <2>1 DEF BaseFor
<1>6. OnGrid(file', o, i)
  <2>1. Filling <= i /\ i >= 0  BY <1>1, <1>3 DEF Filling
  <2>2. Moment(Head(file)) = Seconds(g)  BY <1>1 DEF Moment
  <2>3. InHour(Moment(Head(file)), o, i) /\ i \in Int  BY <1>3, <1>4, <2>2
  <2> QED BY <1>1, <2>1, <2>3, RestGrid
<1>7. ASSUME NEW j \in Set, NEW s \in vflg'[j]
      PROVE  InHour(Seconds(toc'[j][s]), o, j)
  <2>1. s \in vflg[j] \/ (j = i /\ s = r.sv)
    BY <1>1 DEF BeforeStream
  <2>2. s \in Sat  BY <1>1, <2>1 DEF BeforeStream
  <2>3. CASE j = i /\ s = r.sv
    <3>1. toc'[j][s] = g  BY <1>1, <2>3 DEF EphTypeOK
    <3> QED BY <1>4, <2>3, <3>1
  <2>4. CASE ~(j = i /\ s = r.sv)
    <3>1. toc'[j][s] = toc[j][s]  BY <1>1, <2>2, <2>4 DEF EphTypeOK
    <3> QED BY <2>1, <2>4, <3>1 DEF Grid
  <2> QED BY <2>3, <2>4
<1>8. Filling' = i  BY <1>1 DEF Filling
<1>9. last' = i /\ base' # NoTime  BY <1>1
<1> QED BY <1>5, <1>6, <1>7, <1>8, <1>9 DEF Grid

(* Steps that leave records and sets alone. *)
LEMMA GridKept ==
    ASSUME NEW o, Grid(o), UNCHANGED <<file, base, last, toc, vflg>>,
           stage' \in BeforeEnd => stage \in BeforeEnd,
           stage' \in Reading => stage \in Reading
    PROVE  Grid(o)'
BY DEF Grid, Filling

LEMMA ReaderGrid ==
    ASSUME EphTypeOK, BeforeStream, OrderInv, NEW o \in Int, Grid(o), Reader
    PROVE  Grid(o)'
<1> USE DEF reading, store, clock, vars, tables, Reading, BeforeEnd
<1>1. CASE NoFile  BY <1>1, GridKept DEF NoFile, End
<1>2. CASE ReaderRefuses  BY <1>2, GridKept DEF ReaderRefuses
<1>3. CASE OpenFile
  <2>1. /\ stage = "open" /\ stage' = "header" /\ UNCHANGED <<file, base, last, toc>>
        /\ \A i \in Set : vflg'[i] = {}
    BY <1>3 DEF OpenFile
  <2> QED BY <2>1 DEF Grid, Filling
<1>4. CASE HeaderLine  BY <1>4, GridKept DEF HeaderLine
<1>5. CASE EndOfHeader  BY <1>5, GridKept DEF EndOfHeader
<1>6. CASE SkipLine
  <2>1. /\ stage = "records" /\ file # <<>> /\ file' = Tail(file) /\ ~Head(file).gps
        /\ UNCHANGED <<stage, base, last, toc, vflg>>
    BY <1>6 DEF SkipLine
  <2>2. /\ 1 \in DOMAIN file /\ Head(file) = file[1]
        /\ \A k \in DOMAIN Tail(file) :
              k + 1 \in DOMAIN file /\ 1 < k + 1 /\ Tail(file)[k] = file[k + 1]
    BY <2>1, HeadFirst DEF EphTypeOK
  <2>3. ASSUME NEW k \in DOMAIN Tail(file), NEW x, RecordBefore(file, k + 1, x)
        PROVE  RecordBefore(Tail(file), k, x)
    <3>1. PICK j \in DOMAIN file : j < k + 1 /\ file[j].gps /\ Moment(file[j]) = x
      BY <2>3 DEF RecordBefore
    <3>2. j # 1  BY <2>1, <2>2, <3>1
    <3>3. j - 1 \in DOMAIN Tail(file) /\ Tail(file)[j - 1] = file[j] /\ j - 1 < k
      BY <2>1, <3>1, <3>2 DEF EphTypeOK
    <3> QED BY <3>1, <3>3 DEF RecordBefore
  <2>4. OnGrid(file, o, Filling)  BY <2>1 DEF Grid
  <2>5. OnGrid(Tail(file), o, Filling)
    <3> SUFFICES ASSUME NEW k \in DOMAIN Tail(file), Tail(file)[k].gps
                 PROVE  \E n \in Nat :
                      /\ n >= Filling /\ InHour(Moment(Tail(file)[k]), o, n)
                      /\ \/ n = Filling
                         \/ Moment(Tail(file)[k]) = Opening(o, n)
                         \/ RecordBefore(Tail(file), k, Opening(o, n))
                      /\ n <= Filling + 1 \/ RecordBefore(Tail(file), k, Opening(o, n - 1))
      BY DEF OnGrid
    <3>1. k + 1 \in DOMAIN file /\ Tail(file)[k] = file[k + 1]  BY <2>2
    <3>2. PICK n \in Nat :
            /\ n >= Filling /\ InHour(Moment(file[k + 1]), o, n)
            /\ \/ n = Filling
               \/ Moment(file[k + 1]) = Opening(o, n)
               \/ RecordBefore(file, k + 1, Opening(o, n))
            /\ n <= Filling + 1 \/ RecordBefore(file, k + 1, Opening(o, n - 1))
      BY <2>4, <3>1 DEF OnGrid
    <3> QED BY <2>3, <3>1, <3>2
  <2>6. Filling' = Filling  BY <2>1 DEF Filling
  <2> QED BY <2>1, <2>5, <2>6 DEF Grid
<1>7. CASE ReadRecord  BY <1>7, ReadRecordGrid
<1>8. CASE TooManySets
  <2> DEFINE g == Date2Gps(Head(file).t)
  <2>1. /\ stage = "records" /\ file # <<>> /\ Head(file).gps /\ NewSet(g)
        /\ base' = BaseFor(g) /\ last' = last + 1 /\ stage' = "return"
        /\ UNCHANGED <<vflg, toc>>
    BY <1>8 DEF TooManySets
  <2>2. base' = g  BY <2>1 DEF BaseFor
  <2> HIDE DEF g
  <2>3. g # NoTime /\ Seconds(g) = Opening(o, last + 1)
    BY <2>1, HeadGrid DEF g
  <2> QED BY <2>1, <2>2, <2>3 DEF Grid
<1>9. CASE EndOfFile  BY <1>9, GridKept DEF EndOfFile
<1>10. CASE ReaderReturns  BY <1>10 DEF ReaderReturns, Grid
<1>11. CASE StrayRecord  BY <1>11, GridKept DEF StrayRecord, End
<1> QED BY <1>1, <1>2, <1>3, <1>4, <1>5, <1>6, <1>7, <1>8, <1>9, <1>10, <1>11 DEF Reader

(* "now" moves the grid by as much as the sets. *)
LEMMA NowGrid ==
    ASSUME EphTypeOK, BeforeStream, OrderInv, NEW o \in Int, Grid(o), StartNow
    PROVE  \E p \in Int : Grid(p)'
<1>1. /\ stage = "check" /\ stage' = "select"
      /\ toc' = Moved(SubGpsTime(TwoHours(Date2Gps(start.t)), gmin))
      /\ vflg' = vflg /\ vflg[0] # {}
  BY DEF StartNow, StartsAt, Counted, reading, vars
<1>2. PICK d \in Int : toc' = Moved(d)
  <2>1. Date2Gps(start.t) \in GpsTimes  BY StartTypes DEF EphTypeOK
  <2>2. gmin \in GpsTimes  BY <1>1, FirstTimeType
  <2> QED BY <1>1, <2>1, <2>2, TwoHoursType, SubSeconds
<1>3. ASSUME NEW i \in Set, NEW s \in vflg[i]
      PROVE  /\ Seconds(toc[i][s]) \in Int /\ i \in Int
             /\ Seconds(toc'[i][s]) = Seconds(toc[i][s]) + d
  <2>1. i < neph /\ i \in Int
    <3>1. ~(i >= neph)  BY <1>1 DEF OrderInv, AroundBase
    <3>2. i \in Int /\ neph \in Int  BY SizeAssumption DEF EphTypeOK, Set
    <3> QED BY <3>1, <3>2
  <2>2. s \in Sat /\ toc[i][s] \in GpsTimes  BY DEF BeforeStream, EphTypeOK
  <2>3. toc'[i][s] = IncGpsTime(toc[i][s], d)  BY <1>2, <2>1, <2>2 DEF Moved
  <2>4. Seconds(toc[i][s]) \in Int  BY <2>2, Differences
  <2> QED BY <1>2, <2>1, <2>2, <2>3, <2>4, IncSeconds
<1>4. ASSUME NEW i \in Set, NEW s \in vflg[i]
      PROVE  InHour(Seconds(toc'[i][s]), o + d, i)
  <2>1. InHour(Seconds(toc[i][s]), o, i)  BY DEF Grid
  <2>2. /\ Seconds(toc[i][s]) \in Int /\ i \in Int
        /\ Seconds(toc'[i][s]) = Seconds(toc[i][s]) + d
    BY <1>3
  <2> QED BY <1>2, <2>1, <2>2, SMT DEF InHour, Opening, SECONDS_IN_HOUR
<1>5. Grid(o + d)'  BY <1>1, <1>4 DEF Grid, BeforeEnd, Reading
<1> QED BY <1>2, <1>5

LEMMA ChooseGrid ==
    ASSUME NEW o, Grid(o), ChooseStart, ~StartNow
    PROVE  Grid(o)'
BY GridKept DEF ChooseStart, NoEphemeris, WrongCount, NoMotion, NoFirstTime, Counted,
   StartAtFirst, StartAtStray, StartAsAsked, InvalidStart, StartsAt, SelectSet,
   NoCurrentSet, End,
   reading, store, clock, vars, tables, Reading, BeforeEnd

LEMMA LaterGrid ==
    ASSUME NEW o, Grid(o), Ready \/ Stream \/ ReadAlmanac \/ CheckAlmanac \/ UNCHANGED allVars
    PROVE  Grid(o)'
<1> USE DEF reading, store, clock, vars, tables, Reading, BeforeEnd
<1>1. CASE Ready  BY <1>1, GridKept DEF Ready
<1>2. CASE Stream
  BY <1>2, GridKept DEF Stream, Round, RefreshWhenDue, Allocate, Leave, running, End,
     GenerateMessages, AllocateChannel, Allocated
<1>3. CASE ReadAlmanac \/ CheckAlmanac
  BY <1>3, GridKept DEF ReadAlmanac, NoAlmanac, AlmanacHeader, WholeRecord, FileEnds,
     FileEndsInRecord, GarbledRecord, AllRead, CheckAlmanac, AlmanacAccepted, AlmanacRefused,
     goTo, End
<1>4. CASE UNCHANGED allVars  BY <1>4, GridKept DEF allVars, ephVars
<1> QED BY <1>1, <1>2, <1>3, <1>4

LEMMA GridStep == GpsInv /\ OrderInv /\ GridInv /\ [GpsNext]_allVars => GridInv'
<1> SUFFICES ASSUME GpsInv, OrderInv, GridInv, [GpsNext]_allVars PROVE GridInv'  OBVIOUS
<1> USE DEF GpsInv
<1>1. PICK o \in Int : Grid(o)  BY DEF GridInv
<1>2. CASE Reader  BY <1>1, <1>2, ReaderGrid DEF GridInv
<1>3. CASE StartNow  BY <1>1, <1>3, NowGrid DEF GridInv
<1>4. CASE ChooseStart /\ ~StartNow  BY <1>1, <1>4, ChooseGrid DEF GridInv
<1>5. CASE Ready \/ Stream \/ ReadAlmanac \/ CheckAlmanac \/ UNCHANGED allVars
  BY <1>1, <1>5, LaterGrid DEF GridInv
<1> QED BY <1>2, <1>3, <1>4, <1>5 DEF GpsNext, Over

LEMMA GridInit == ASSUME TwoHourly PROVE GpsInit => GridInv
<1> SUFFICES ASSUME GpsInit PROVE GridInv  OBVIOUS
<1> USE DEF GpsInit, EphInit
<1>1. PICK o \in Int : OnGrid(file, o, -1)  BY TwoHourly DEF TwoHourly
<1>2. Filling = -1  BY DEF Filling
<1>3. Grid(o)  BY <1>1, <1>2 DEF Grid
<1> QED BY <1>3 DEF GridInv

-----------------------------------------------------------------------------
(* Time and ephemerides of the stream.                                      *)

LEMMA ValidTimes ==
    ASSUME EphTypeOK, BeforeStream, NEW i \in Set, NEW s \in vflg[i]
    PROVE  s \in Sat /\ toc[i][s] \in GpsTimes /\ Seconds(toc[i][s]) \in Int /\ i \in Int
<1>1. s \in Sat /\ toc[i][s] \in GpsTimes  BY DEF EphTypeOK, BeforeStream
<1> QED BY <1>1, Differences, SizeAssumption DEF Set

LEMMA ClockTypes ==
    ASSUME EphTypeOK
    PROVE  /\ g0 \in GpsTimes /\ Seconds(g0) \in Int
           /\ grx \in GpsTimes /\ Seconds(grx) \in Int
<1>1. g0 \in GpsTimes /\ grx \in GpsTimes  BY FixedTimes DEF EphTypeOK
<1> QED BY <1>1, Differences

LEMMA ApartSeconds ==
    ASSUME NEW g \in GpsTimes, NEW h \in GpsTimes, NEW d \in Int
    PROVE  AtMostApart(g, h, d) <=>
              -7200 <= Seconds(g) - Seconds(h) /\ Seconds(g) - Seconds(h) <= 7200 + d
<1>1. SubGpsTime(g, h) = Seconds(g) - Seconds(h) /\ SubGpsTime(g, h) \in Int  BY SubSeconds
<1>2. 2 * SECONDS_IN_HOUR = 7200  BY SMT DEF SECONDS_IN_HOUR
<1> QED BY <1>1, <1>2, SMT DEF AtMostApart

(* The satellite that makes a set current speaks for all of them. *)
LEMMA SelectFit ==
    ASSUME GpsInv, NEW o \in Int, Grid(o), SelectSet
    PROVE  FitInv'
<1> USE DEF GpsInv
<1>1. PICK i \in Set : /\ CurrentSet(i) /\ ieph' = i
                       /\ stage' = "selected" /\ UNCHANGED <<toc, vflg, g0>>
  BY DEF SelectSet, store, clock
<1>2. PICK u \in vflg[i] : /\ -SECONDS_IN_HOUR <= SubGpsTime(g0, toc[i][u])
                           /\ SubGpsTime(g0, toc[i][u]) < SECONDS_IN_HOUR
  BY <1>1 DEF CurrentSet
<1>3. ASSUME NEW s \in vflg[i] PROVE AtMostApart(g0, toc[i][s], 0)
  <2>1. /\ toc[i][s] \in GpsTimes /\ Seconds(toc[i][s]) \in Int
        /\ toc[i][u] \in GpsTimes /\ Seconds(toc[i][u]) \in Int /\ i \in Int
    BY ValidTimes
  <2>2. InHour(Seconds(toc[i][s]), o, i) /\ InHour(Seconds(toc[i][u]), o, i)
    BY DEF Grid
  <2>3. g0 \in GpsTimes /\ Seconds(g0) \in Int  BY ClockTypes
  <2>4. SubGpsTime(g0, toc[i][u]) = Seconds(g0) - Seconds(toc[i][u])
    BY <2>1, <2>3, Differences
  <2>5. /\ -7200 <= Seconds(g0) - Seconds(toc[i][s])
        /\ Seconds(g0) - Seconds(toc[i][s]) <= 7200 + 0
    BY <1>2, <2>1, <2>2, <2>3, <2>4, SMT DEF InHour, Opening, SECONDS_IN_HOUR
  <2> QED BY <2>1, <2>3, <2>5, ApartSeconds
<1> QED BY <1>1, <1>3 DEF FitInv

LEMMA ReadyFit ==
    ASSUME GpsInv, FitInv, Ready
    PROVE  FitInv'
<1> USE DEF GpsInv
<1>1. /\ stage = "ready" /\ stage' = "run" /\ grx' = IncGpsTime(g0, 0)
      /\ UNCHANGED <<toc, vflg, ieph, pc, outside>>
  BY DEF Ready, store
<1>2. pc = "allocate" /\ vflg[ieph] # {} /\ ieph \in Set
  BY <1>1 DEF BeforeStream, Unallocated, SetFound
<1>3. g0 \in GpsTimes  BY ClockTypes
<1>4. grx' \in GpsTimes /\ Seconds(grx') = Seconds(g0) + 0  BY <1>1, <1>3, IncSeconds
<1>5. Seconds(g0) \in Int  BY ClockTypes
<1>6. ASSUME NEW s \in vflg[ieph] PROVE AtMostApart(grx', toc[ieph][s], 0)
  <2>1. AtMostApart(g0, toc[ieph][s], 0)  BY <1>1 DEF FitInv
  <2>2. toc[ieph][s] \in GpsTimes  BY <1>2, ValidTimes
  <2>3. Seconds(grx') = Seconds(g0)  BY <1>4, <1>5
  <2> QED BY <1>3, <1>4, <2>1, <2>2, <2>3, ApartSeconds
<1> QED BY <1>1, <1>2, <1>6 DEF FitInv

LEMMA RoundFit ==
    ASSUME GpsInv, FitInv, Round
    PROVE  FitInv'
<1> USE DEF GpsInv
<1>1. /\ stage = "run" /\ stage' = "run" /\ grx' = IncGpsTime(grx, Period)
      /\ pc = "samples" /\ pc' = "refresh" /\ UNCHANGED <<toc, vflg, ieph, outside>>
  BY DEF Round, running, store, GenerateMessages
<1>2. Period \in Int  BY PeriodAssumption
<1>3. /\ grx \in GpsTimes /\ grx' \in GpsTimes /\ Seconds(grx) \in Int
      /\ Seconds(grx') = Seconds(grx) + Period
  BY <1>1, <1>2, ClockTypes, IncSeconds
<1>4. ASSUME ~outside, ieph + 1 \in Set, vflg[ieph + 1] # {}, NEW s \in vflg[ieph]
      PROVE  AtMostApart(grx', toc[ieph][s], Period)
  <2>1. AtMostApart(grx, toc[ieph][s], 0)  BY <1>1, <1>4 DEF FitInv
  <2>2. toc[ieph][s] \in GpsTimes /\ Seconds(toc[ieph][s]) \in Int
    BY ValidTimes DEF BeforeStream
  <2>3. /\ -7200 <= Seconds(grx) - Seconds(toc[ieph][s])
        /\ Seconds(grx) - Seconds(toc[ieph][s]) <= 7200 + 0
    BY <1>3, <2>1, <2>2, ApartSeconds
  <2>4. /\ -7200 <= Seconds(grx') - Seconds(toc[ieph][s])
        /\ Seconds(grx') - Seconds(toc[ieph][s]) <= 7200 + Period
    BY <1>3, <2>2, <2>3, PeriodAssumption
  <2> QED BY <1>2, <1>3, <2>2, <2>4, ApartSeconds
<1> QED BY <1>1, <1>4 DEF FitInv

(* An update changes to the next set before the present one is too old, and *)
(* not before the next one is young enough.                                 *)
LEMMA RefreshFit ==
    ASSUME GpsInv, NEW o \in Int, Grid(o), FitInv, Period <= SECONDS_IN_HOUR, RefreshWhenDue
    PROVE  FitInv'
<1> USE DEF GpsInv
<1>1. /\ stage = "run" /\ stage' = "run" /\ pc = "refresh" /\ pc' = "allocate"
      /\ UNCHANGED <<toc, vflg, grx>>
  BY DEF RefreshWhenDue, running, store
<1>2. ieph \in Set /\ ieph \in Int /\ Period \in Int
  BY SizeAssumption, PeriodAssumption DEF BeforeStream, Set
<1>3. grx \in GpsTimes /\ Seconds(grx) \in Int  BY ClockTypes
<1>4. ASSUME ~outside, ieph + 1 \in Set, vflg[ieph + 1] # {},
             NEW s \in vflg[ieph], NEW u \in vflg[ieph + 1]
      PROVE  /\ -7200 <= Seconds(grx) - Seconds(toc[ieph][s])
             /\ Seconds(grx) - Seconds(toc[ieph][s]) <= 7200 + Period
             /\ toc[ieph][s] \in GpsTimes /\ Seconds(toc[ieph][s]) \in Int
             /\ toc[ieph + 1][u] \in GpsTimes /\ Seconds(toc[ieph + 1][u]) \in Int
             /\ Seconds(toc[ieph][s]) + 3600 <= Seconds(toc[ieph + 1][u])
             /\ Seconds(toc[ieph + 1][u]) <= Seconds(toc[ieph][s]) + 10800
  <2>1. AtMostApart(grx, toc[ieph][s], Period)  BY <1>1, <1>4 DEF FitInv
  <2>2. /\ toc[ieph][s] \in GpsTimes /\ Seconds(toc[ieph][s]) \in Int
        /\ toc[ieph + 1][u] \in GpsTimes /\ Seconds(toc[ieph + 1][u]) \in Int
    BY <1>2, <1>4, ValidTimes
  <2>3. InHour(Seconds(toc[ieph][s]), o, ieph) /\ InHour(Seconds(toc[ieph + 1][u]), o, ieph + 1)
    BY <1>2, <1>4 DEF Grid
  <2>4. /\ Seconds(toc[ieph][s]) + 3600 <= Seconds(toc[ieph + 1][u])
        /\ Seconds(toc[ieph + 1][u]) <= Seconds(toc[ieph][s]) + 10800
    BY <1>2, <2>2, <2>3, SMT DEF InHour, Opening, SECONDS_IN_HOUR
  <2>5. /\ -7200 <= Seconds(grx) - Seconds(toc[ieph][s])
        /\ Seconds(grx) - Seconds(toc[ieph][s]) <= 7200 + Period
    BY <1>2, <1>3, <2>1, <2>2, ApartSeconds
  <2> QED BY <2>2, <2>4, <2>5
<1>5. ASSUME ieph + 1 \in Set, vflg[ieph + 1] # {}
      PROVE  /\ FirstValid(ieph + 1) \in vflg[ieph + 1]
             /\ toc[ieph + 1][FirstValid(ieph + 1)] \in GpsTimes
             /\ Due(ieph + 1) <=>
                  Seconds(toc[ieph + 1][FirstValid(ieph + 1)]) - Seconds(grx) < 3600
  <2>1. FirstValid(ieph + 1) \in vflg[ieph + 1]
    BY <1>5, FirstValidType DEF BeforeStream
  <2>2. toc[ieph + 1][FirstValid(ieph + 1)] \in GpsTimes  BY <1>5, <2>1, ValidTimes
  <2> QED BY <1>3, <1>5, <2>1, <2>2, Differences DEF Due, SECONDS_IN_HOUR
<1>6. CASE ieph + 1 \in Set /\ Due(ieph + 1) /\ Change /\ UNCHANGED outside
  <2>1. vflg[ieph + 1] # {}  BY <1>6 DEF Due
  <2>2. ieph' = ieph + 1
    <3>1. ~(ieph + 1 >= Sets)  BY <1>2, <1>6, SizeAssumption DEF Set
    <3> QED BY <1>6, <3>1 DEF Change
  <2>3. ASSUME ~outside, NEW u \in vflg[ieph + 1]
        PROVE  AtMostApart(grx, toc[ieph + 1][u], 0)
    <3> DEFINE f == FirstValid(ieph + 1)
    <3>1. PICK s \in vflg[ieph] : TRUE  BY <1>1, <2>3 DEF FitInv
    <3>2. /\ f \in vflg[ieph + 1]
          /\ Seconds(toc[ieph + 1][f]) - Seconds(grx) < 3600
      BY <1>5, <1>6, <2>1
    <3> HIDE DEF f
    <3>3. /\ Seconds(grx) - Seconds(toc[ieph][s]) <= 7200 + Period
          /\ Seconds(toc[ieph][s]) \in Int
          /\ toc[ieph + 1][u] \in GpsTimes /\ Seconds(toc[ieph + 1][u]) \in Int
          /\ Seconds(toc[ieph][s]) + 3600 <= Seconds(toc[ieph + 1][u])
      BY <1>4, <1>6, <2>1, <2>3
    <3>4. /\ Seconds(toc[ieph + 1][f]) \in Int
          /\ Seconds(toc[ieph + 1][u]) <= Seconds(toc[ieph + 1][f]) + 3600
      <4>1. Seconds(toc[ieph + 1][f]) \in Int /\ Seconds(toc[ieph + 1][u]) \in Int
        BY <1>6, <3>2, ValidTimes
      <4>2. /\ InHour(Seconds(toc[ieph + 1][f]), o, ieph + 1)
            /\ InHour(Seconds(toc[ieph + 1][u]), o, ieph + 1)
        BY <1>6, <2>3, <3>2 DEF Grid
      <4> QED BY <1>2, <4>1, <4>2, SMT DEF InHour, Opening, SECONDS_IN_HOUR
    <3>5. Period <= 3600  BY DEF SECONDS_IN_HOUR
    <3>6. /\ -7200 <= Seconds(grx) - Seconds(toc[ieph + 1][u])
          /\ Seconds(grx) - Seconds(toc[ieph + 1][u]) <= 7200 + 0
      BY <1>2, <1>3, <3>2, <3>3, <3>4, <3>5
    <3> QED BY <1>3, <3>3, <3>6, ApartSeconds
  <2> QED BY <1>1, <1>6, <2>1, <2>2, <2>3 DEF FitInv
<1>7. CASE ieph + 1 \in Set /\ ~Due(ieph + 1) /\ KeepSet /\ UNCHANGED outside
  <2>1. ieph' = ieph  BY <1>7 DEF KeepSet
  <2>2. ASSUME ~outside, vflg[ieph + 1] # {}, NEW s \in vflg[ieph]
        PROVE  AtMostApart(grx, toc[ieph][s], 0)
    <3> DEFINE f == FirstValid(ieph + 1)
    <3>1. /\ f \in vflg[ieph + 1]
          /\ ~(Seconds(toc[ieph + 1][f]) - Seconds(grx) < 3600)
      BY <1>5, <1>7, <2>2
    <3> HIDE DEF f
    <3>2. /\ -7200 <= Seconds(grx) - Seconds(toc[ieph][s])
          /\ toc[ieph][s] \in GpsTimes /\ Seconds(toc[ieph][s]) \in Int
          /\ Seconds(toc[ieph + 1][f]) \in Int
          /\ Seconds(toc[ieph + 1][f]) <= Seconds(toc[ieph][s]) + 10800
      BY <1>4, <1>7, <2>2, <3>1
    <3>3. /\ -7200 <= Seconds(grx) - Seconds(toc[ieph][s])
          /\ Seconds(grx) - Seconds(toc[ieph][s]) <= 7200 + 0
      BY <1>3, <3>1, <3>2
    <3> QED BY <1>3, <3>2, <3>3, ApartSeconds
  <2> QED BY <1>1, <1>7, <2>1, <2>2 DEF FitInv
<1>8. CASE ieph + 1 \notin Set /\ KeepSet /\ UNCHANGED outside
  BY <1>1, <1>8 DEF KeepSet, FitInv
<1>9. CASE outside' = TRUE
  BY <1>1, <1>9 DEF FitInv
<1> QED BY <1>6, <1>7, <1>8, <1>9 DEF RefreshWhenDue

(* The other steps leave times alone. *)
LEMMA FitKept ==
    ASSUME FitInv, UNCHANGED <<ieph, vflg, toc, g0, grx, outside>>,
           stage' \in {"selected", "almanac", "toa", "ready"}
               => stage \in {"selected", "almanac", "toa", "ready"},
           stage' = "run" => stage = "run" /\ pc' = pc
    PROVE  FitInv'
BY DEF FitInv

LEMMA FitStep ==
    ASSUME Period <= SECONDS_IN_HOUR
    PROVE  GpsInv /\ OrderInv /\ GridInv /\ FitInv /\ [GpsNext]_allVars => FitInv'
<1> SUFFICES ASSUME GpsInv, OrderInv, GridInv, FitInv, [GpsNext]_allVars PROVE FitInv'
  OBVIOUS
<1>1. PICK o \in Int : Grid(o)  BY DEF GridInv
<1> USE DEF reading, store, clock, vars, tables
<1>2. CASE Reader \/ (ChooseStart /\ ~SelectSet)
  <2>1. stage' \notin {"selected", "almanac", "toa", "ready", "run"}
    BY <1>2 DEF Reader, NoFile, ReaderRefuses, OpenFile, HeaderLine, EndOfHeader, SkipLine,
       ReadRecord, StrayRecord, TooManySets, EndOfFile, ReaderReturns, End, ChooseStart,
       NoEphemeris,
       WrongCount, NoMotion, NoFirstTime, Counted, StartAtFirst, StartAtStray,
       StartAsAsked, InvalidStart,
       StartNow, StartsAt, NoCurrentSet
  <2> QED BY <2>1 DEF FitInv
<1>3. CASE SelectSet  BY <1>1, <1>3, SelectFit
<1>4. CASE Ready  BY <1>4, ReadyFit
<1>5. CASE Round  BY <1>5, RoundFit
<1>6. CASE RefreshWhenDue  BY <1>1, <1>6, RefreshFit
<1>7. CASE Allocate
  <2>1. /\ stage = "run" /\ UNCHANGED <<ieph, vflg, toc, g0, grx, outside, stage>>
        /\ pc = "allocate" /\ pc' \in {"allocate", "samples"}
    BY <1>7 DEF Allocate, running, AllocateChannel, Allocated
  <2>2. pc # "refresh" /\ pc' # "refresh"  BY <2>1
  <2> QED BY <2>1, <2>2 DEF FitInv
<1>8. CASE Leave  BY <1>8 DEF Leave, End, FitInv
<1>9. CASE ReadAlmanac \/ CheckAlmanac
  <2>1. /\ UNCHANGED <<ieph, vflg, toc, g0, grx, outside>>
        /\ stage \in {"selected", "almanac", "toa"} /\ stage' # "run"
    BY <1>9 DEF ReadAlmanac, NoAlmanac, AlmanacHeader, WholeRecord, FileEnds, FileEndsInRecord,
       GarbledRecord, AllRead, CheckAlmanac, AlmanacAccepted, AlmanacRefused, goTo, End
  <2> QED BY <2>1, FitKept
<1>10. CASE UNCHANGED allVars  BY <1>10, FitKept DEF allVars, ephVars
<1> QED BY <1>2, <1>3, <1>4, <1>5, <1>6, <1>7, <1>8, <1>9, <1>10 DEF GpsNext, Stream, Over

(* In a sorted file whose sets open every two hours, and as long as there   *)
(* is a later set, each used channel has an ephemeris at most two hours old *)
(* or ahead at each update, and at most one Period older than two hours at  *)
(* the end of the samples that follow it: in the code, where updates are 30 *)
(* seconds apart, at most two hours and 30 seconds at any time.  The proof  *)
(* allows updates up to an hour apart.                                      *)
THEOREM FitKeptTo ==
    ASSUME Sorted, TwoHourly, Period <= SECONDS_IN_HOUR
    PROVE  GpsSpec => []WithinFit
<1>1. GpsInit => OrderInv
  <2> SUFFICES ASSUME GpsInit PROVE OrderInv  OBVIOUS
  <2> USE DEF GpsInit, EphInit
  <2>1. SortedRest  BY Sorted DEF Sorted, SortedRest
  <2> QED BY <2>1 DEF OrderInv, Upcoming, AroundBase, SetsOrdered
<1>2. GpsInit => FitInv  BY DEF GpsInit, EphInit, FitInv
<1>3. GpsInv /\ FitInv => WithinFit
  <2> SUFFICES ASSUME GpsInv, FitInv, stage = "run", pc \in {"samples", "refresh"}, ~outside,
                      ieph + 1 \in Set, vflg[ieph + 1] # {},
                      NEW c \in Chan, prn[c] # 0
               PROVE  Abs(SubGpsTime(grx, toc[ieph][prn[c] - 1]))
                         <= 2 * SECONDS_IN_HOUR + SinceUpdate
    BY DEF WithinFit
  <2> DEFINE s == prn[c] - 1
             x == SubGpsTime(grx, toc[ieph][s])
  <2>1. s \in vflg[ieph] /\ ieph \in Set
    BY DEF GpsInv, StreamInv, ChannelsInv, ValidSoFar, BeforeStream
  <2>2. AtMostApart(grx, toc[ieph][s], SinceUpdate)  BY <2>1 DEF FitInv, SinceUpdate
  <2>3. grx \in GpsTimes /\ toc[ieph][s] \in GpsTimes
    BY <2>1, ClockTypes, ValidTimes DEF GpsInv
  <2>4. x \in Int  BY <2>3, SubSeconds
  <2>5. SinceUpdate \in Nat  BY PeriodAssumption DEF SinceUpdate
  <2>6. -7200 <= x /\ x <= 7200 + SinceUpdate
    BY <2>2, <2>4, <2>5 DEF AtMostApart, SECONDS_IN_HOUR
  <2> HIDE DEF x
  <2>7. Abs(x) <= 7200 + SinceUpdate  BY <2>4, <2>5, <2>6 DEF Abs
  <2>8. Abs(SubGpsTime(grx, toc[ieph][prn[c] - 1])) <= 7200 + SinceUpdate  BY <2>7 DEF x
  <2>9. 2 * SECONDS_IN_HOUR = 7200  BY DEF SECONDS_IN_HOUR
  <2> QED BY <2>8, <2>9
<1>4. GpsInit => GridInv  BY GridInit
<1>5. GpsInv /\ OrderInv /\ GridInv /\ FitInv /\ [GpsNext]_allVars => FitInv'  BY FitStep
<1> QED BY <1>1, <1>2, <1>3, <1>4, <1>5, GridStep, OrderStep, GpsInvariant, PTL DEF GpsSpec

-----------------------------------------------------------------------------
(* The start.                                                               *)

LEMMA RestOpenersStay ==
    ASSUME EphTypeOK, file # <<>>, NEW o, OpenersStay(file, o)
    PROVE  OpenersStay(Tail(file), o)
<1>1. \A k \in DOMAIN Tail(file) : k + 1 \in DOMAIN file /\ Tail(file)[k] = file[k + 1]
  BY HeadFirst DEF EphTypeOK
<1> QED BY <1>1 DEF OpenersStay

(* Sets that nothing is written to stay open. *)
LEMMA OpenKept ==
    ASSUME NEW o, OpenInv(o), UNCHANGED <<file, base, last, neph, toc, vflg>>,
           stage' \in BeforeEnd => stage \in BeforeEnd,
           stage' \in Reading => stage \in Reading,
           stage' = "check" => stage = "check"
    PROVE  OpenInv(o)'
BY DEF OpenInv, OpenerKept, OpenedTo, Opened, Reading, BeforeEnd

LEMMA ReadRecordOpen ==
    ASSUME EphTypeOK, BeforeStream, OrderInv, NEW o \in Int, Grid(o), OpenInv(o), ReadRecord
    PROVE  OpenInv(o)'
<1>1. PICK r \in Records, g \in GpsTimes, i \in Set :
        /\ r = Head(file) /\ g = Date2Gps(r.t) /\ r.gps /\ r.sv \in Sat
        /\ stage = "records" /\ file # <<>> /\ file' = Tail(file)
        /\ i = (IF NewSet(g) THEN last + 1 ELSE last) /\ last' = i /\ last \in Set
        /\ base' = BaseFor(g) /\ base' # NoTime
        /\ stage' = (IF r.whole THEN "records" ELSE "return")
        /\ vflg' = IF r.whole THEN [vflg EXCEPT ![i] = @ \cup {r.sv}] ELSE vflg
        /\ toc' = [toc EXCEPT ![i][r.sv] = g]
  BY RecordPlaced
<1>2. /\ Seconds(g) \in Int
      /\ \/ base # NoTime /\ ~NewSet(g) /\ InHour(Seconds(g), o, last)
         \/ base # NoTime /\ NewSet(g) /\ Seconds(g) = Opening(o, last + 1)
         \/ base = NoTime /\ ~NewSet(g) /\ last = 0 /\ Seconds(g) = Opening(o, 0)
  BY <1>1, HeadGrid
<1>3. last \in Nat /\ i \in Nat  BY <1>1, SizeAssumption DEF Set
<1>4. Moment(r) = Seconds(g)  BY <1>1 DEF Moment
<1>5. /\ 1 \in DOMAIN file /\ r = file[1]
      /\ \A k \in DOMAIN file' : k + 1 \in DOMAIN file /\ file'[k] = file[k + 1]
  BY <1>1, HeadFirst DEF EphTypeOK
<1>6. OpenersStay(file, o) /\ OpenersStay(file', o)
  BY <1>1, RestOpenersStay DEF OpenInv, BeforeEnd
(* What the tables hold after the step. *)
<1>7. ASSUME NEW j \in Set, NEW s \in Sat
      PROVE  toc'[j][s] = IF j = i /\ s = r.sv THEN g ELSE toc[j][s]
  BY <1>1, <1>7 DEF EphTypeOK
<1>8. ASSUME NEW j \in Set
      PROVE  /\ vflg[j] \subseteq vflg'[j] /\ vflg'[j] \subseteq Sat
             /\ vflg'[j] \subseteq vflg[j] \cup (IF j = i THEN {r.sv} ELSE {})
             /\ r.whole => r.sv \in vflg'[i]
             /\ ~r.whole => vflg'[j] = vflg[j]
  BY <1>1 DEF BeforeStream
<1>9. base # NoTime => OpenedTo(o, last) /\ Opened(o, last)
  BY <1>1 DEF OpenInv, Reading, OpenedTo
<1>10. CASE Seconds(g) = Opening(o, i) /\ vflg[i] = {}
            /\ \A j \in Set : j < i => Opened(o, j)
  <2>1. ASSUME NEW j \in Set, j < i PROVE Opened(o, j)'
    <3>1. PICK s \in vflg[j] : Seconds(toc[j][s]) = Opening(o, j)
      BY <1>10, <2>1 DEF Opened
    <3>2. s \in vflg'[j] /\ s \in Sat  BY <1>8
    <3>3. toc'[j][s] = toc[j][s]
      <4>1. j # i  BY <1>3, <2>1
      <4> QED BY <1>7, <3>2, <4>1
    <3> QED BY <3>1, <3>2, <3>3 DEF Opened
  <2>2. Opened(o, i)' \/ (vflg'[i] = {} /\ stage' = "return")
    <3>1. CASE r.whole
      <4>1. r.sv \in vflg'[i] /\ toc'[i][r.sv] = g  BY <1>1, <1>7, <1>8, <3>1
      <4> QED BY <1>10, <4>1 DEF Opened
    <3>2. CASE ~r.whole  BY <1>1, <1>8, <1>10, <3>2
    <3> QED BY <3>1, <3>2
  <2>3. OpenedTo(o, last)'
    BY <1>1, <2>1, <2>2 DEF OpenedTo
  <2>4. ASSUME NEW k \in DOMAIN file', file'[k].gps, file'[k].sv \in vflg'[i],
               InHour(Moment(file'[k]), o, i)
        PROVE  Moment(file'[k]) = Opening(o, i)
    <3>1. file'[k].sv = r.sv  BY <1>8, <1>10, <2>4
    <3>2. k + 1 \in DOMAIN file /\ file'[k] = file[k + 1]  BY <1>5
    <3> QED BY <1>1, <1>3, <1>4, <1>5, <1>6, <1>10, <2>4, <3>1, <3>2 DEF OpenersStay
  <2>5. OpenerKept(o)'  BY <1>1, <2>4 DEF OpenerKept
  <2>6. stage' # "check" /\ o > 0  BY <1>1 DEF OpenInv, Reading
  <2> QED BY <1>6, <2>3, <2>5, <2>6 DEF OpenInv
<1>11. CASE base # NoTime /\ i = last /\ InHour(Seconds(g), o, last)
  <2>1. ASSUME r.sv \in vflg[i], Seconds(toc[i][r.sv]) = Opening(o, i)
        PROVE  Seconds(g) = Opening(o, i)
    <3>1. OpenerKept(o)  BY <1>1, <1>11 DEF OpenInv, BeforeEnd
    <3> QED BY <1>1, <1>4, <1>5, <1>11, <2>1, <3>1 DEF OpenerKept
  <2>2. ASSUME NEW j \in Set, j <= i PROVE Opened(o, j)'
    <3>1. Opened(o, j)
      <4>1. j = i \/ j < i  BY <1>3, <2>2, SizeAssumption DEF Set
      <4> QED BY <1>9, <1>11, <4>1 DEF OpenedTo
    <3>2. PICK s \in vflg[j] : Seconds(toc[j][s]) = Opening(o, j)
      BY <3>1 DEF Opened
    <3>3. s \in vflg'[j] /\ s \in Sat  BY <1>8
    <3>4. Seconds(toc'[j][s]) = Opening(o, j)
      <4>1. CASE j = i /\ s = r.sv  BY <1>7, <2>1, <3>2, <3>3, <4>1
      <4>2. CASE ~(j = i /\ s = r.sv)  BY <1>7, <3>2, <3>3, <4>2
      <4> QED BY <4>1, <4>2
    <3> QED BY <3>3, <3>4 DEF Opened
  <2>3. OpenedTo(o, last)'
    <3>1. last' = i  BY <1>1
    <3>2. \A j \in Set : j < i \/ j = i => j <= i  BY <1>3, SizeAssumption DEF Set
    <3> QED BY <2>2, <3>1, <3>2 DEF OpenedTo
  <2>4. ASSUME NEW k \in DOMAIN file', file'[k].gps, file'[k].sv \in vflg'[i],
               InHour(Moment(file'[k]), o, i),
               Seconds(toc'[i][file'[k].sv]) = Opening(o, i)
        PROVE  Moment(file'[k]) = Opening(o, i)
    <3>1. k + 1 \in DOMAIN file /\ file'[k] = file[k + 1]  BY <1>5
    <3>2. CASE file'[k].sv = r.sv
      <4>1. Seconds(g) = Opening(o, i)  BY <1>1, <1>7, <2>4, <3>2
      <4> QED BY <1>1, <1>3, <1>4, <1>5, <1>6, <2>4, <3>1, <3>2, <4>1 DEF OpenersStay
    <3>3. CASE file'[k].sv # r.sv
      <4>1. file'[k].sv \in vflg[i] /\ file'[k].sv \in Sat  BY <1>8, <2>4, <3>3
      <4>2. Seconds(toc[i][file'[k].sv]) = Opening(o, i)  BY <1>7, <2>4, <3>3, <4>1
      <4>3. OpenerKept(o)  BY <1>1, <1>11 DEF OpenInv, BeforeEnd
      <4> QED BY <1>11, <2>4, <3>1, <4>1, <4>2, <4>3 DEF OpenerKept
    <3> QED BY <3>2, <3>3
  <2>5. OpenerKept(o)'  BY <1>1, <2>4 DEF OpenerKept
  <2>6. stage' # "check" /\ o > 0  BY <1>1 DEF OpenInv, Reading
  <2> QED BY <1>6, <2>3, <2>5, <2>6 DEF OpenInv
<1>12. \A s \in vflg[i] : base # NoTime /\ i <= last
  BY <1>1 DEF OrderInv, AroundBase, Reading
<1>13. CASE base # NoTime /\ NewSet(g) /\ Seconds(g) = Opening(o, last + 1)
  <2>1. i = last + 1 /\ vflg[i] = {}  BY <1>1, <1>3, <1>12, <1>13
  <2>2. \A j \in Set : j < i => Opened(o, j)
    <3>1. \A j \in Set : j < i => j < last \/ j = last
      BY <1>3, <2>1, SizeAssumption DEF Set
    <3> QED BY <1>9, <1>13, <3>1 DEF OpenedTo
  <2> QED BY <1>10, <1>13, <2>1, <2>2
<1>14. CASE base = NoTime /\ ~NewSet(g) /\ last = 0 /\ Seconds(g) = Opening(o, 0)
  <2>1. i = 0 /\ vflg[i] = {}  BY <1>1, <1>12, <1>14
  <2>2. \A j \in Set : ~(j < i)  BY <2>1, SizeAssumption DEF Set
  <2> QED BY <1>10, <1>14, <2>1, <2>2
<1> QED BY <1>1, <1>2, <1>11, <1>13, <1>14

LEMMA ReaderOpen ==
    ASSUME EphTypeOK, BeforeStream, OrderInv, NEW o \in Int, Grid(o), OpenInv(o), Reader
    PROVE  OpenInv(o)'
<1> USE DEF reading, store, clock, vars, tables, Reading, BeforeEnd
<1>1. CASE NoFile  BY <1>1, OpenKept DEF NoFile, End
<1>2. CASE ReaderRefuses
  <2>1. /\ stage = "open" /\ stage' = "check" /\ neph' \in {-1, -2, -3}
        /\ UNCHANGED <<file, base, last, toc, vflg>>
    BY <1>2 DEF ReaderRefuses
  <2>2. \A i \in Set : ~(i < neph' - 1) /\ i # neph' - 1
    <3>1. neph' \in Int /\ neph' < 0  BY <2>1
    <3>2. \A i \in Set : i \in Int /\ i >= 0  BY SizeAssumption DEF Set
    <3> QED BY <3>1, <3>2
  <2>3. OpenedTo(o, neph - 1)'  BY <2>2 DEF OpenedTo
  <2>4. o > 0  BY <2>1 DEF OpenInv
  <2>5. stage' = "check" /\ stage' \notin Reading  BY <2>1
  <2> QED BY <2>3, <2>4, <2>5 DEF OpenInv
<1>3. CASE OpenFile
  <2>1. /\ stage = "open" /\ stage' = "header" /\ UNCHANGED <<file, base, last, toc>>
    BY <1>3 DEF OpenFile
  <2>2. base = NoTime  BY <2>1 DEF OrderInv, AroundBase
  <2> QED BY <2>1, <2>2 DEF OpenInv
<1>4. CASE HeaderLine  BY <1>4, OpenKept DEF HeaderLine
<1>5. CASE EndOfHeader  BY <1>5, OpenKept DEF EndOfHeader
<1>6. CASE SkipLine
  <2>1. /\ stage = "records" /\ file # <<>> /\ file' = Tail(file)
        /\ UNCHANGED <<stage, base, last, neph, toc, vflg>>
    BY <1>6 DEF SkipLine
  <2>2. OpenersStay(file', o)  BY <2>1, RestOpenersStay DEF OpenInv
  <2>3. base # NoTime => OpenerKept(o)'
    BY <2>1, HeadFirst DEF OpenInv, OpenerKept, EphTypeOK
  <2> QED BY <2>1, <2>2, <2>3 DEF OpenInv, OpenedTo, Opened
<1>7. CASE ReadRecord  BY <1>7, ReadRecordOpen
<1>8. CASE TooManySets
  <2> DEFINE g == Date2Gps(Head(file).t)
  <2>1. /\ stage = "records" /\ NewSet(g) /\ last + 1 >= Sets
        /\ base' = BaseFor(g) /\ last' = last + 1 /\ stage' = "return"
        /\ UNCHANGED <<vflg, toc>>
    BY <1>8 DEF TooManySets
  <2>2. base # NoTime  BY <2>1 DEF NewSet
  <2>3. last \in Int  BY <2>1, SizeAssumption DEF EphTypeOK, Set
  <2>4. ASSUME NEW j \in Set PROVE j # last' /\ Opened(o, j)
    <3>1. j < last \/ j = last  BY <2>1, <2>3, SizeAssumption DEF Set
    <3>2. OpenedTo(o, last)  BY <2>1, <2>2 DEF OpenInv
    <3>3. j # last'  BY <2>1, <2>3, SizeAssumption DEF Set
    <3> QED BY <2>1, <3>1, <3>2, <3>3 DEF OpenedTo
  <2>5. OpenedTo(o, last)'  BY <2>1, <2>4 DEF OpenedTo, Opened
  <2> QED BY <2>1, <2>5 DEF OpenInv
<1>9. CASE EndOfFile
  <2>1. /\ stage = "records" /\ stage' = "return"
        /\ UNCHANGED <<file, base, last, neph, toc, vflg>>
    BY <1>9 DEF EndOfFile
  <2> QED BY <2>1, OpenKept
<1>10. CASE ReaderReturns
  <2>1. /\ stage = "return" /\ stage' = "check"
        /\ neph' = (IF base = NoTime THEN 0 ELSE last + 1)
        /\ UNCHANGED <<toc, vflg>>
    BY <1>10 DEF ReaderReturns
  <2>2. CASE base = NoTime
    <3>1. \A i \in Set : ~(i < neph' - 1) /\ i # neph' - 1
      BY <2>1, <2>2, SizeAssumption DEF Set
    <3> QED BY <2>1, <3>1 DEF OpenInv, OpenedTo
  <2>3. CASE base # NoTime
    <3>1. last \in Int  BY <2>1, SizeAssumption DEF EphTypeOK
    <3>2. neph' - 1 = last  BY <2>1, <2>3, <3>1
    <3>3. OpenedTo(o, last)  BY <2>1, <2>3 DEF OpenInv
    <3>4. OpenedTo(o, neph - 1)'  BY <2>1, <3>2, <3>3 DEF OpenedTo, Opened
    <3> QED BY <2>1, <3>4 DEF OpenInv
  <2> QED BY <2>2, <2>3
<1>11. CASE StrayRecord  BY <1>11, OpenKept DEF StrayRecord, End
<1> QED BY <1>1, <1>2, <1>3, <1>4, <1>5, <1>6, <1>7, <1>8, <1>9, <1>10, <1>11 DEF Reader

(* Between the first time of the file and its last, each time has a set     *)
(* that opened less than an hour ago or opens within an hour, or is the     *)
(* last time itself.                                                        *)
LEMMA CoveredHasCurrent ==
    ASSUME GpsInv, OrderInv, NEW o \in Int, Grid(o), OpenInv(o),
           Counted, vflg[0] # {}, NEW g \in GpsTimes, Covered(g), g0' = g,
           UNCHANGED <<toc, vflg>>
    PROVE  \E i \in Set : i < neph /\ CurrentSet(i)'
<1> USE DEF GpsInv
<1>1. stage = "check" /\ neph - 1 \in Set  BY DEF Counted
<1>2. neph \in Int /\ 0 \in Set /\ \A i \in Set : i \in Nat
  BY SizeAssumption, SetsThere DEF EphTypeOK, Set
<1>3. OpenedTo(o, neph - 1) /\ o > 0  BY <1>1 DEF OpenInv
<1>4. Seconds(g) \in Int  BY Differences
<1>5. /\ gmin \in GpsTimes /\ Seconds(gmin) \in Int /\ o <= Seconds(gmin)
      /\ Seconds(gmin) <= Seconds(g)
  <2>1. FirstValid(0) \in vflg[0]  BY <1>2, FirstValidType DEF BeforeStream
  <2>2. gmin \in GpsTimes /\ Seconds(gmin) \in Int  BY <1>2, <2>1, ValidTimes DEF gmin
  <2>3. InHour(Seconds(gmin), o, 0)  BY <1>2, <2>1 DEF Grid, gmin
  <2>4. SubGpsTime(g, gmin) >= 0  BY DEF Covered
  <2>5. Seconds(gmin) <= Seconds(g)  BY <1>4, <2>2, <2>4, Differences
  <2> QED BY <2>2, <2>3, <2>5, SMT DEF InHour, Opening, SECONDS_IN_HOUR
<1> DEFINE L == neph - 1
           y == Seconds(g) - o
           n == y \div 7200
           x == y % 7200
<1>6. ASSUME NEW i \in Set, NEW s \in vflg[i], i <= L,
             -3600 <= Seconds(g) - Seconds(toc[i][s]),
             Seconds(g) - Seconds(toc[i][s]) < 3600
      PROVE  \E j \in Set : j < neph /\ CurrentSet(j)'
  <2>1. toc[i][s] \in GpsTimes /\ Seconds(toc[i][s]) \in Int  BY ValidTimes
  <2>2. SubGpsTime(g, toc[i][s]) = Seconds(g) - Seconds(toc[i][s])  BY <2>1, Differences
  <2>3. /\ -SECONDS_IN_HOUR <= SubGpsTime(g, toc[i][s])
        /\ SubGpsTime(g, toc[i][s]) < SECONDS_IN_HOUR
    BY <1>6, <2>2 DEF SECONDS_IN_HOUR
  <2>4. CurrentSet(i)'  BY <2>3 DEF CurrentSet
  <2>5. i < neph  BY <1>2, <1>6
  <2> QED BY <2>4, <2>5
(* The last set is not empty, or the last time were before the first.       *)
<1>7. /\ vflg[L] # {} /\ FirstValid(L) \in vflg[L]
      /\ gmax = toc[L][FirstValid(L)]
      /\ Seconds(g) <= Seconds(gmax) /\ Seconds(gmax) \in Int
      /\ InHour(Seconds(gmax), o, L)
  <2>1. SubGpsTime(gmax, g) >= 0  BY DEF Covered
  <2>2. vflg[L] # {}
    <3> SUFFICES ASSUME vflg[L] = {} PROVE FALSE  OBVIOUS
    <3>1. gmax = Zero  BY DEF gmax
    <3>2. Seconds(Zero) = 0 /\ Zero \in GpsTimes
      BY FixedTimes, SMT DEF Seconds, Zero, SECONDS_IN_WEEK
    <3>3. SubGpsTime(Zero, g) = Seconds(Zero) - Seconds(g)  BY <3>2, Differences
    <3> QED BY <1>3, <1>4, <1>5, <2>1, <3>1, <3>2, <3>3
  <2>3. FirstValid(L) \in vflg[L]  BY <1>1, <2>2, FirstValidType DEF BeforeStream
  <2>4. gmax = toc[L][FirstValid(L)]  BY <2>2 DEF gmax
  <2>5. gmax \in GpsTimes /\ Seconds(gmax) \in Int
    BY <1>1, <2>3, <2>4, ValidTimes
  <2>6. InHour(Seconds(gmax), o, L)  BY <1>1, <2>3, <2>4 DEF Grid
  <2>7. Seconds(g) <= Seconds(gmax)  BY <1>4, <2>1, <2>5, Differences
  <2> QED BY <2>2, <2>3, <2>4, <2>5, <2>6, <2>7
<1>8. y \in Int /\ y >= 0  BY <1>3, <1>4, <1>5
<1> HIDE DEF y
<1>9. n \in Int /\ x \in Int /\ y = 7200 * n + x /\ 0 <= x /\ x < 7200 /\ n >= 0
  BY <1>8, SMT
<1> HIDE DEF n, x
<1>10. Seconds(g) = o + 7200 * n + x  BY <1>4, <1>9 DEF y
<1>11. L \in Nat /\ L \in Set  BY <1>1, <1>2
<1> HIDE DEF L
<1>12. n <= L
  BY <1>7, <1>9, <1>10, <1>11, SMT DEF InHour, Opening, SECONDS_IN_HOUR
<1>13. \A i \in Int : i >= 0 /\ i <= L => i \in Set
  BY <1>11, SizeAssumption DEF Set
<1>14. ASSUME NEW i \in Set, i <= L PROVE Opened(o, i)
  <2>1. OpenedTo(o, L)  BY <1>3 DEF L
  <2>2. i < L \/ i = L  BY <1>11, <1>14, SizeAssumption DEF Set
  <2> QED BY <1>7, <2>1, <2>2 DEF OpenedTo
<1>15. CASE x < 3600
  <2>1. n \in Set  BY <1>9, <1>12, <1>13
  <2>2. PICK s \in vflg[n] : Seconds(toc[n][s]) = Opening(o, n)
    BY <1>12, <1>14, <2>1 DEF Opened
  <2>3. Seconds(g) - Seconds(toc[n][s]) = x
    BY <1>9, <1>10, <2>2, SMT DEF Opening, SECONDS_IN_HOUR
  <2> QED BY <1>6, <1>9, <1>12, <1>15, <2>1, <2>3
<1>16. CASE x >= 3600 /\ n < L
  <2>1. n + 1 \in Set /\ n + 1 <= L  BY <1>9, <1>11, <1>13, <1>16
  <2>2. PICK s \in vflg[n + 1] : Seconds(toc[n + 1][s]) = Opening(o, n + 1)
    BY <1>14, <2>1 DEF Opened
  <2>3. Seconds(g) - Seconds(toc[n + 1][s]) = x - 7200
    BY <1>9, <1>10, <2>2, SMT DEF Opening, SECONDS_IN_HOUR
  <2>4. -3600 <= x - 7200 /\ x - 7200 < 3600  BY <1>9, <1>16
  <2> QED BY <1>6, <2>1, <2>3, <2>4
<1>17. CASE x >= 3600 /\ n = L
  <2>1. Seconds(g) - Seconds(toc[L][FirstValid(L)]) = 0
    <3>1. Seconds(gmax) <= o + 7200 * n + 3600
      BY <1>7, <1>17, <1>9, SMT DEF InHour, Opening, SECONDS_IN_HOUR
    <3>2. Seconds(g) = Seconds(gmax)  BY <1>4, <1>7, <1>9, <1>10, <1>17, <3>1
    <3> QED BY <1>4, <1>7, <3>2
  <2> QED BY <1>6, <1>7, <1>11, <2>1
<1> QED BY <1>9, <1>11, <1>12, <1>15, <1>16, <1>17

LEMMA ChosenHasCurrent ==
    ASSUME GpsInv, OrderInv, NEW o \in Int, Grid(o), OpenInv(o), ChooseStart
    PROVE  HasCurrent'
<1> USE DEF GpsInv
<1>1. CASE StartAtFirst
  <2>1. /\ Counted /\ vflg[0] # {} /\ g0' = gmin
        /\ UNCHANGED <<toc, vflg, neph>>
    BY <1>1 DEF StartAtFirst, StartsAt, vars
  <2>2. 0 \in Set /\ FirstValid(0) \in vflg[0]
    BY <2>1, SetsThere, FirstValidType DEF BeforeStream
  <2>3. gmin \in GpsTimes  BY <2>1, FirstTimeType
  <2>4. SubGpsTime(gmin, gmin) = 0
    <3>1. SubGpsTime(gmin, gmin) = Seconds(gmin) - Seconds(gmin) /\ Seconds(gmin) \in Int
      BY <2>3, Differences
    <3> QED BY <3>1
  <2>5. -SECONDS_IN_HOUR <= 0 /\ 0 < SECONDS_IN_HOUR  BY DEF SECONDS_IN_HOUR
  <2>6. gmin = toc[0][FirstValid(0)]  BY DEF gmin
  <2>7. CurrentSet(0)'  BY <2>1, <2>2, <2>4, <2>5, <2>6 DEF CurrentSet
  <2>8. 0 < neph
    <3>1. neph - 1 \in 0..(Sets - 1) /\ neph \in Int
      BY <2>1, SizeAssumption DEF Counted, EphTypeOK, Set
    <3> QED BY <3>1, SizeAssumption
  <2> QED BY <2>1, <2>2, <2>7, <2>8 DEF HasCurrent
<1>5. CASE StartAtStray
  <2>1. PICK d \in StrayDays :
           /\ Counted /\ vflg[0] # {} /\ Covered(DayTime(d))
           /\ g0' = DayTime(d) /\ UNCHANGED <<toc, vflg, neph>>
    BY <1>5 DEF StartAtStray, StartsAt, vars
  <2>2. DayTime(d) \in GpsTimes  BY StrayAssumption, DayTypes
  <2>3. \E i \in Set : i < neph /\ CurrentSet(i)'  BY <2>1, <2>2, CoveredHasCurrent
  <2> QED BY <2>1, <2>3 DEF HasCurrent
<1>2. CASE StartAsAsked
  <2>1. /\ Counted /\ vflg[0] # {} /\ Covered(Date2Gps(start.t))
        /\ g0' = Date2Gps(start.t) /\ UNCHANGED <<toc, vflg, neph>>
    BY <1>2 DEF StartAsAsked, StartsAt, vars
  <2>2. Date2Gps(start.t) \in GpsTimes  BY StartTypes DEF EphTypeOK
  <2>3. \E i \in Set : i < neph /\ CurrentSet(i)'  BY <2>1, <2>2, CoveredHasCurrent
  <2> QED BY <2>1, <2>3 DEF HasCurrent
<1>3. CASE StartNow
  BY <1>3 DEF StartNow, StartsAt, HasCurrent
<1>4. CASE ChooseStart /\ ~StartAtFirst /\ ~StartAtStray /\ ~StartAsAsked /\ ~StartNow
  <2>1. stage' # "select"
    BY <1>4 DEF ChooseStart, NoEphemeris, WrongCount, NoMotion, NoFirstTime, InvalidStart,
       SelectSet, NoCurrentSet, End
  <2> QED BY <2>1 DEF HasCurrent
<1> QED BY <1>1, <1>2, <1>3, <1>4, <1>5

(* What is said of the sets that were opened ends with the check. *)
LEMMA PastCheck ==
    ASSUME NEW o, stage' \notin Reading \cup {"check"} PROVE OpenInv(o)'
BY DEF OpenInv, Reading, BeforeEnd

LEMMA StartInvStep == GpsInv /\ OrderInv /\ StartInv /\ [GpsNext]_allVars => StartInv'
<1> SUFFICES ASSUME GpsInv, OrderInv, StartInv, [GpsNext]_allVars PROVE StartInv'  OBVIOUS
<1> USE DEF GpsInv
<1>1. PICK o \in Int : Grid(o) /\ OpenInv(o)  BY DEF StartInv
<1>2. CASE Reader
  <2>1. stage' # "select"
    BY <1>2 DEF Reader, NoFile, ReaderRefuses, OpenFile, HeaderLine, EndOfHeader, SkipLine,
       ReadRecord, StrayRecord, TooManySets, EndOfFile, ReaderReturns, End
  <2>2. Grid(o)' /\ OpenInv(o)'  BY <1>1, <1>2, ReaderGrid, ReaderOpen
  <2> QED BY <2>1, <2>2 DEF StartInv, HasCurrent
<1>3. CASE ChooseStart
  <2>1. stage' \notin Reading \cup {"check"}
    BY <1>3 DEF ChooseStart, NoEphemeris, WrongCount, NoMotion, NoFirstTime, Counted,
       StartAtFirst, StartAtStray, StartAsAsked, InvalidStart, StartNow, StartsAt,
       SelectSet, NoCurrentSet,
       End, Reading
  <2>2. HasCurrent'  BY <1>1, <1>3, ChosenHasCurrent
  <2>3. \E p \in Int : Grid(p)'  BY <1>1, <1>3, NowGrid, ChooseGrid
  <2> QED BY <2>1, <2>2, <2>3, PastCheck DEF StartInv
<1>4. CASE Ready \/ Stream \/ ReadAlmanac \/ CheckAlmanac
  <2>1. stage' \in {"run", "end", "almanac", "toa", "ready"}
    BY <1>4 DEF Ready, Stream, Round, RefreshWhenDue, Allocate, Leave, running, End,
       ReadAlmanac, NoAlmanac, AlmanacHeader, WholeRecord, FileEnds, FileEndsInRecord,
       GarbledRecord, AllRead, CheckAlmanac, AlmanacAccepted, AlmanacRefused, goTo
  <2>2. stage' \notin Reading \cup {"check"} /\ HasCurrent'
    BY <2>1 DEF Reading, HasCurrent
  <2>3. Grid(o)'  BY <1>1, <1>4, LaterGrid
  <2> QED BY <2>2, <2>3, PastCheck DEF StartInv
<1>5. CASE UNCHANGED allVars
  <2> USE <1>5 DEF allVars, ephVars, reading, store, clock
  <2>1. Grid(o)'  BY <1>1, LaterGrid
  <2>2. OpenInv(o)'
    <3>1. UNCHANGED <<file, base, last, neph, toc, vflg, stage>>  BY DEF vars
    <3> QED BY <1>1, <3>1, OpenKept
  <2>3. HasCurrent'  BY DEF StartInv, HasCurrent, CurrentSet, vars
  <2> QED BY <2>1, <2>2, <2>3 DEF StartInv
<1> QED BY <1>2, <1>3, <1>4, <1>5 DEF GpsNext, Over

(* In a sorted file whose sets open every two hours, each start time that   *)
(* was accepted has a current set, unless all ephemerides were moved to     *)
(* "now".  A later record of the same satellite must not replace the one    *)
(* that opened a set: between that set and the one before it there would be *)
(* times without a current set.                                             *)
THEOREM StartFound ==
    ASSUME Sorted, TwoHourlyKept
    PROVE  GpsSpec => StartFindsSet
<1>1. GpsInit => OrderInv
  <2> SUFFICES ASSUME GpsInit PROVE OrderInv  OBVIOUS
  <2> USE DEF GpsInit, EphInit
  <2>1. SortedRest  BY Sorted DEF Sorted, SortedRest
  <2> QED BY <2>1 DEF OrderInv, Upcoming, AroundBase, SetsOrdered
<1>2. GpsInit => StartInv
  <2> SUFFICES ASSUME GpsInit PROVE StartInv  OBVIOUS
  <2> USE DEF GpsInit, EphInit
  <2>1. PICK o \in Nat \ {0} : OnGrid(file, o, -1) /\ OpenersStay(file, o)
    BY TwoHourlyKept DEF TwoHourlyKept
  <2>2. Filling = -1 /\ o \in Int /\ o > 0  BY DEF Filling
  <2>3. Grid(o) /\ OpenInv(o)  BY <2>1, <2>2 DEF Grid, OpenInv
  <2> QED BY <2>2, <2>3 DEF StartInv, HasCurrent
<1>3. StartInv /\ [GpsNext]_allVars =>
         [stage = "select" /\ stage' = "end" => start.how = "now"]_<<ephVars, vars>>
  <2> SUFFICES ASSUME StartInv, GpsNext, stage = "select", stage' = "end"
               PROVE  start.how = "now"
    BY DEF allVars
  <2>1. NoCurrentSet
    BY DEF GpsNext, Reader, NoFile, ReaderRefuses, OpenFile, HeaderLine, EndOfHeader, SkipLine,
       ReadRecord, StrayRecord, TooManySets, EndOfFile, ReaderReturns, End, ChooseStart,
       NoEphemeris,
       WrongCount, NoMotion, NoFirstTime, Counted, StartAtFirst, StartAtStray,
       StartAsAsked, InvalidStart,
       StartNow, StartsAt, SelectSet, Ready, Stream, Round, RefreshWhenDue, Allocate, Leave,
       ReadAlmanac, NoAlmanac, AlmanacHeader, WholeRecord, FileEnds, FileEndsInRecord,
       GarbledRecord, AllRead, CheckAlmanac, AlmanacAccepted, AlmanacRefused, goTo, Over
  <2>2. \A i \in Set : i < neph => ~CurrentSet(i)  BY <2>1 DEF NoCurrentSet
  <2> QED BY <2>2 DEF StartInv, HasCurrent
<1> QED BY <1>1, <1>2, <1>3, OrderStep, StartInvStep, GpsInvariant, PTL
        DEF GpsSpec, StartFindsSet

=============================================================================
