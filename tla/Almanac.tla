------------------------------ MODULE Almanac ------------------------------
(* The almanac of the GPS thread: almanac_init, almanac_download and        *)
(* almanac_read_file, and what eph2sbf takes from the table.                *)
(*                                                                          *)
(* Each step of the reader meets a line that is good, is garbled or is      *)
(* missing at the end of the file; orbits are left out.  Operators marked   *)
(* "Fault" are slips the code could contain.                                *)
EXTENDS Ephemeris

CONSTANTS AlmanacEnabled, \* values of simulator.almanac_enable
          Counts,         \* numbers of records announced in files
          AlmanacTimes,   \* times of files, with the week as printed
          Ids             \* satellite numbers in files

ASSUME AlmanacAssumption == /\ AlmanacEnabled \subseteq BOOLEAN
                            /\ Counts \subseteq Nat /\ Ids \subseteq Nat
                            /\ AlmanacTimes \subseteq GpsTimes

VARIABLES almFlag,  \* almanac_gps.valid
          almSvid,  \* satellites whose svid is set
          almValid, \* satellites whose valid flag is set
          almToa,   \* almToa[s] is almanac_gps.sv[s].toa
          almTime,  \* week and sec of the reader
          almLeft   \* records it has yet to read

almTable == <<almFlag, almSvid, almValid, almToa>>
almReader == <<almTime, almLeft>>
almVars == <<almTable, almReader>>

Cleared == /\ almFlag' = FALSE /\ almSvid' = {} /\ almValid' = {}
           /\ almToa' = [s \in Sat |-> Zero]

(* almanac_gps is static, all zero. *)
AlmInit == /\ almFlag = FALSE /\ almSvid = {} /\ almValid = {}
           /\ almToa = [s \in Sat |-> Zero]
           /\ almTime = Zero /\ almLeft = 0

goTo(s) == stage' = s /\ UNCHANGED <<start, reading, store, clock, outside, vars>>

(* almanac_init, and no more if the almanac is disabled or its download or  *)
(* its opening fails.                                                       *)
NoAlmanac ==
    /\ stage = "selected"
    /\ Cleared /\ UNCHANGED almReader
    /\ goTo("toa")

(* A record count of 0 wraps: n is unsigned, and n - 1 is cut to 31.        *)
Announced(n) == IF n = 0 \/ n > MaxSat THEN MaxSat ELSE n

AlmanacHeader ==
    /\ stage = "selected" /\ TRUE \in AlmanacEnabled
    /\ Cleared
    /\ \E n \in Counts : almLeft' = Announced(n)
    /\ almTime' \in AlmanacTimes
    /\ goTo("almanac")

(* id 0 counts as 1, a large one as the last. *)
SatOf(id) == IF id = 0 THEN 0 ELSE IF id > MaxSat THEN MaxSat - 1 ELSE id - 1

(* GPS week rollover: two of them are added. *)
Rollover == 2048

WholeRecord ==
    /\ stage = "almanac" /\ almLeft > 0
    /\ \E id \in Ids :
        /\ almSvid' = almSvid \cup {SatOf(id)}
        /\ almValid' = almValid \cup {SatOf(id)}
        /\ almToa' = [almToa EXCEPT ![SatOf(id)] = [almTime EXCEPT !.week = @ + Rollover]]
    /\ almFlag' = TRUE
    /\ almLeft' = almLeft - 1
    /\ UNCHANGED almTime
    /\ goTo("almanac")

(* The file ends between two records; what was read is kept. *)
FileEnds ==
    /\ stage = "almanac" /\ almLeft > 0
    /\ UNCHANGED almVars
    /\ goTo("toa")

(* The file ends within a record, whose svid is set, but not its time. *)
FileEndsInRecord ==
    /\ stage = "almanac" /\ almLeft > 0
    /\ \E id \in Ids : almSvid' = almSvid \cup {SatOf(id)}
    /\ UNCHANGED <<almFlag, almValid, almToa, almReader>>
    /\ goTo("toa")

(* A line that cannot be parsed: all records are dropped. *)
GarbledRecord ==
    /\ stage = "almanac" /\ almLeft > 0
    /\ Cleared /\ UNCHANGED almReader
    /\ goTo("toa")

AllRead ==
    /\ stage = "almanac" /\ almLeft = 0
    /\ UNCHANGED almVars
    /\ goTo("toa")

ReadAlmanac == \/ NoAlmanac \/ AlmanacHeader \/ WholeRecord \/ FileEnds
               \/ FileEndsInRecord \/ GarbledRecord \/ AllRead

-----------------------------------------------------------------------------
(* "Check TOA" of gps_thread_ep.                                            *)

FourWeeks == 4 * SECONDS_IN_WEEK

(* Fault: almanacs of the future are let through. *)
NotTooOld(s) == SubGpsTime(almToa[s], g0) >= -FourWeeks

Timely(s) == LET dt == SubGpsTime(almToa[s], g0)
             IN  -FourWeeks <= dt /\ dt <= FourWeeks

(* The table is not looked at unless its flag is set. *)
TimesAccepted == almFlag => \A s \in almValid : Timely(s)

AlmanacAccepted ==
    /\ stage = "toa" /\ TimesAccepted
    /\ UNCHANGED almVars
    /\ goTo("ready")

(* "Invalid time of almanac." *)
AlmanacRefused ==
    /\ stage = "toa" /\ ~TimesAccepted
    /\ UNCHANGED <<almVars, outside>>
    /\ End

CheckAlmanac == AlmanacAccepted \/ AlmanacRefused

-----------------------------------------------------------------------------
(* What eph2sbf sends.                                                      *)

FirstOfSubframe4 == MaxSat - 1  \* 24 of 32: the others are in subframe 5

(* Subframe 4 asks for the valid flag, subframe 5 for the svid. *)
AlmanacPages == {s \in Sat : IF s >= FirstOfSubframe4 THEN s \in almValid ELSE s \in almSvid}

(* Reference week of page 25 of subframe 5: that of the first satellite     *)
(* with an svid, or else that of the ephemeris.                             *)
ReferenceWeek(toe) ==
    IF almSvid = {} THEN toe.week
    ELSE almToa[CHOOSE s \in almSvid : \A u \in almSvid : s <= u].week

(* What is sent of an almanac is of the four weeks around the start,        *)
(* whatever the file held and wherever it ended, if the valid flags are     *)
(* asked for.                                                               *)
AlmanacInTime ==
    stage = "run" => \A s \in almValid :
        /\ s \in almSvid /\ almFlag
        /\ Abs(SubGpsTime(almToa[s], g0)) <= FourWeeks

(* gps.c tests "Valid almanac is availabe" before it takes the reference    *)
(* week of page 25 from an almanac.                                         *)
ReferenceWeekValid ==
    stage = "run" /\ almSvid # {} => \E s \in almValid : ReferenceWeek(Zero) = almToa[s].week

=============================================================================
