------------------------------ MODULE Calendar ------------------------------
(* What the conversions of module GpsTime are to compute: the days of the   *)
(* calendar in their order, numbered from 6 January 1980 on.                *)
EXTENDS GpsTime

CONSTANT Years  \* years whose days are checked

(* In 2100 every fourth year is no longer a leap year.                      *)
ASSUME YearsAssumption == Years \subseteq 1981..2099

LeapYear(y) == y % 4 = 0 /\ (y % 100 # 0 \/ y % 400 = 0)
MonthLength(y, m) == IF m = 2 THEN (IF LeapYear(y) THEN 29 ELSE 28)
                     ELSE IF m \in {4, 6, 9, 11} THEN 30 ELSE 31

Noon(y, m, d) == [y |-> y, m |-> m, d |-> d, hh |-> 12, mm |-> 34, sec |-> 56]

NoonAfter(y, m, d) ==
    IF d < MonthLength(y, m) THEN Noon(y, m, d + 1)
    ELSE IF m < 12 THEN Noon(y, m + 1, 1) ELSE Noon(y + 1, 1, 1)

(* The number of the day of a GPS time. *)
NumberOf(g) == 7 * g.week + g.sec \div SECONDS_IN_DAY

(* date2gps gives the first day of 1981 its number (1980 had 366 days, five *)
(* of them before the first) and each day the number after that of the day  *)
(* before it, over ends of months, leap days and ends of years; gps2date    *)
(* takes each date back.                                                    *)
CalendarRight ==
    /\ NumberOf(Date2Gps(Noon(1981, 1, 1))) = 366 - 5
    /\ \A y \in Years, m \in 1..12 : \A d \in 1..MonthLength(y, m) :
        LET g == Date2Gps(Noon(y, m, d))
        IN  /\ NumberOf(Date2Gps(NoonAfter(y, m, d))) = NumberOf(g) + 1
            /\ Gps2Date(g) = Noon(y, m, d)

=============================================================================
