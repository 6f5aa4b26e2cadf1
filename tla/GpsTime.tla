------------------------------ MODULE GpsTime ------------------------------
(* Calendar dates and GPS times of gps.c: date2gps, gps2date, subGpsTime    *)
(* and incGpsTime, in whole seconds.                                        *)
EXTENDS Integers

SECONDS_IN_WEEK == 604800
SECONDS_IN_DAY == 86400
SECONDS_IN_HOUR == 3600
SECONDS_IN_MINUTE == 60

Zero == [week |-> 0, sec |-> 0]

(* Seconds from g0 to g1. *)
SubGpsTime(g1, g0) == g1.sec - g0.sec + (g1.week - g0.week) * SECONDS_IN_WEEK

(* Fault: seconds before the week are not carried back. *)
IncForwardOnly(g0, dt) ==
    IF g0.sec + dt < 0 THEN [g0 EXCEPT !.sec = @ + dt]
    ELSE [week |-> g0.week + (g0.sec + dt) \div SECONDS_IN_WEEK,
          sec |-> (g0.sec + dt) % SECONDS_IN_WEEK]

(* The two loops carry seconds outside the week over to the week number. *)
IncGpsTime(g0, dt) ==
    [week |-> g0.week + (g0.sec + dt) \div SECONDS_IN_WEEK,
     sec |-> (g0.sec + dt) % SECONDS_IN_WEEK]

doy == <<0, 31, 59, 90, 120, 151, 181, 212, 243, 273, 304, 334>>

(* Fault: the leap day counts from the first of January. *)
LeapDaysEarly(ye, m) == ye \div 4 + 1

(* Leap days since 1980, when every fourth year has one. *)
LeapDays(ye, m) == IF ye % 4 = 0 /\ m <= 2 THEN ye \div 4 ELSE ye \div 4 + 1

(* date2gps, for dates since 6 January 1980. *)
Date2Gps(t) ==
    LET ye == t.y - 1980
        de == ye * 365 + doy[t.m] + t.d + LeapDays(ye, t.m) - 6
    IN  [week |-> de \div 7,
         sec |-> (de % 7) * SECONDS_IN_DAY + t.hh * SECONDS_IN_HOUR
                     + t.mm * SECONDS_IN_MINUTE + t.sec]

(* gps2date, through the Julian day number.  (int)((c - 122.1) / 365.25)    *)
(* and its like are quotients of whole numbers.                             *)
Gps2Date(g) ==
    LET c == 7 * g.week + g.sec \div SECONDS_IN_DAY + 2444245 + 1537
        d == (100 * c - 12210) \div 36525
        e == 365 * d + d \div 4
        f == (10000 * (c - e)) \div 306001
        m == f - 1 - 12 * (f \div 14)
    IN  [d |-> c - e - (306001 * f) \div 10000,
         m |-> m,
         y |-> d - 4715 - (7 + m) \div 10,
         hh |-> (g.sec \div SECONDS_IN_HOUR) % 24,
         mm |-> (g.sec \div SECONDS_IN_MINUTE) % 60,
         sec |-> g.sec % 60]

=============================================================================
