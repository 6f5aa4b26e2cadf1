---------------------------- MODULE MCGpsThread ----------------------------
(* Navigation files around the end of a week, for TLC.                      *)
EXTENDS GpsThread

(* Saturday 31 December 2022, the last day of GPS week 2242, or hours of    *)
(* the Sunday after it.                                                     *)
At(hh, mm) == IF hh < 24 THEN [y |-> 2022, m |-> 12, d |-> 31, hh |-> hh, mm |-> mm, sec |-> 0]
                         ELSE [y |-> 2023, m |-> 1, d |-> 1, hh |-> hh - 24, mm |-> mm, sec |-> 0]

Rec(s, hh, mm) == [gps |-> TRUE, sv |-> s, t |-> At(hh, mm), whole |-> TRUE]
Cut(s, hh, mm) == [Rec(s, hh, mm) EXCEPT !.whole = FALSE]
Stray(hh, mm) == [Rec(0, hh, mm) EXCEPT !.sv = NoSat]
Other == [Rec(0, 0, 0) EXCEPT !.gps = FALSE]

(* Sorted by time, with sets two hours apart. *)
SmallFiles ==
    { <<>>, <<Other>>, <<Cut(0, 20, 0)>>,
      <<Rec(1, 22, 0)>>,
      <<Rec(0, 20, 0), Other, Rec(1, 20, 0), Rec(0, 22, 0), Rec(1, 22, 0), Rec(0, 24, 0), Rec(1, 24, 0)>>,
      <<Rec(1, 21, 59), Rec(0, 22, 0), Rec(1, 23, 59), Rec(0, 24, 0)>>,
      <<Rec(0, 20, 0), Rec(1, 21, 0), Rec(1, 22, 0), Rec(0, 23, 0), Rec(0, 24, 0), Rec(1, 25, 0)>>,
      <<Rec(0, 22, 0), Rec(1, 22, 0), Rec(0, 24, 0), Rec(0, 26, 0), Rec(1, 26, 0)>>,
      <<Rec(0, 22, 0), Rec(1, 22, 0), Rec(0, 22, 0), Cut(1, 24, 0)>>,
      <<Rec(0, 20, 0), Rec(0, 22, 0), Rec(0, 24, 0), Rec(0, 26, 0)>>,
      <<Rec(0, 22, 0), Stray(22, 0), Rec(1, 24, 0)>> }

AllFiles == [Set -> SUBSET Sat]

Never == [how |-> "none", t |-> At(0, 0)]
When(hh, mm) == [how |-> "at", t |-> At(hh, mm)]
Now(hh, mm) == [how |-> "now", t |-> At(hh, mm)]

SomeStarts == {Never, When(19, 0), When(21, 0), When(22, 59), When(24, 0),
               Now(19, 30), Now(22, 30), Now(23, 30)}

(* The word before doy[] is 0, or leads to week 0, to that Saturday at 0:00 *)
(* or to the Sunday after it.                                               *)
SomeDays == {-723201, -3, 15700, 15701}

(* Weeks as in a file: more than four weeks before the start, less than     *)
(* four weeks after it, and more than that.                                 *)
SomeTimes == {[week |-> w - Rollover, sec |-> 319488] : w \in {2238, 2246, 2247}}

AllYears == 1981..2099

=============================================================================
