----------------------------- MODULE GpsThread -----------------------------
(* gps_thread_ep from the navigation file to the end of the stream: modules *)
(* Ephemeris, Almanac and Channels put together.                            *)
EXTENDS Almanac, Calendar

(* The reader may leave any satellites in any set. *)
ASSUME AnyContents == Files = [Set -> SUBSET Sat]

allVars == <<ephVars, almVars, vars>>

GpsInit == EphInit /\ AlmInit

(* The thread is over. *)
Over == stage = "end" /\ UNCHANGED allVars

GpsNext == \/ (Reader \/ ChooseStart \/ Ready \/ Stream) /\ UNCHANGED almVars
           \/ ReadAlmanac
           \/ CheckAlmanac
           \/ Over

GpsSpec == GpsInit /\ [][GpsNext]_allVars

(* The conversions of dates are right.  That does not depend on the state;  *)
(* TLC looks at it in a few states only.                                    *)
DatesRight == stage = "open" /\ file = <<>> => CalendarRight

-----------------------------------------------------------------------------
(* The inductive invariant.  Until the stream begins the channels are as    *)
(* they were at first,                                                      *)
BeforeStream ==
    /\ stage \notin {"run", "end"} => Unallocated
    /\ vflg \in [Set -> SUBSET Sat] /\ ieph \in Set

(* and it begins with a set that holds a satellite.                         *)
SetFound == stage \in {"selected", "almanac", "toa", "ready"} => vflg[ieph] # {}

StreamInv == stage = "run" => ChannelsInv

(* An almanac with a valid record has its flag set; past the check of its   *)
(* time all valid records have passed it.                                   *)
AlmanacInv ==
    /\ almValid \subseteq almSvid /\ almSvid \subseteq Sat
    /\ almToa \in [Sat -> GpsTimes] /\ almTime \in GpsTimes
    /\ almFlag \in BOOLEAN /\ (almValid # {} => almFlag)
    /\ stage \in {"ready", "run"} => \A s \in almValid : Timely(s)

GpsInv == EphTypeOK /\ BeforeStream /\ SetFound /\ StreamInv /\ AlmanacInv

(* For SetsOrdered: the files are sorted by time.                           *)
Sorted == \A f \in NavFiles : \A j, k \in DOMAIN f :
    j < k /\ f[j].gps /\ f[k].gps => SubGpsTime(Date2Gps(f[k].t), Date2Gps(f[j].t)) >= 0

(* Records to come are sorted, none of them is older than base, the first   *)
(* of the present set;                                                      *)
SortedRest == \A j, k \in DOMAIN file :
    j < k /\ file[j].gps /\ file[k].gps
        => SubGpsTime(Date2Gps(file[k].t), Date2Gps(file[j].t)) >= 0
Upcoming == base # NoTime => \A k \in DOMAIN file :
    file[k].gps => SubGpsTime(Date2Gps(file[k].t), base) >= 0

(* the present set is within an hour of base, earlier sets are before it.   *)
Reading == {"open", "header", "records", "return"}
AroundBase ==
    /\ stage \in {"open", "header"} => base = NoTime
    /\ stage \in Reading => \A i \in Set : \A s \in vflg[i] :
        /\ base # NoTime /\ i <= last
        /\ i = last => /\ SubGpsTime(toc[i][s], base) >= 0
                       /\ SubGpsTime(toc[i][s], base) <= SECONDS_IN_HOUR
        /\ i < last => SubGpsTime(toc[i][s], base) < 0
    /\ stage = "check" => \A i \in Set : i >= neph => vflg[i] = {}

OrderInv == SortedRest /\ Upcoming /\ AroundBase /\ SetsOrdered

=============================================================================
