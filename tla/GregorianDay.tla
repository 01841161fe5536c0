---------------------------- MODULE GregorianDay ----------------------------
(***************************************************************************)
(* From a calendar date to its day in the cycle of sixty                   *)
(* (bazi_engine/bazi.py: jdn_gregorian, sexagenary_day_index_from_date),   *)
(* over a whole cycle of the Gregorian calendar, one day after another.    *)
(***************************************************************************)
EXTENDS Sexagenary

CONSTANTS FirstYear, LastYear   \* calendar years walked through

ASSUME YearAssumption == FirstYear \in Nat \ {0} /\ LastYear \in Nat

VARIABLE date       \* [y, m, d]

Shifted(t) == (14 - t.m) \div 12   \* January and February end the year before
JdnJulian(t) ==
    LET y == t.y + 4800 - Shifted(t)
        m == t.m + 12 * Shifted(t) - 3
    IN  t.d + (153 * m + 2) \div 5 + 365 * y + y \div 4 - 32083
Jdn(t) ==
    LET y == t.y + 4800 - Shifted(t)
        m == t.m + 12 * Shifted(t) - 3
    IN  t.d + (153 * m + 2) \div 5 + 365 * y + y \div 4 - y \div 100 + y \div 400 - 32045

DateIndex60(ruleset, t) == (Jdn(t) + DayOffset(ruleset)) % 60

(* The calendar of datetime.                                               *)
Leap(y) == y % 4 = 0 /\ (y % 100 # 0 \/ y % 400 = 0)
DaysIn(y, m) ==
    CASE m = 2 -> IF Leap(y) THEN 29 ELSE 28
      [] m \in {4, 6, 9, 11} -> 30
      [] OTHER -> 31

FirstDate == date \in [y : FirstYear .. LastYear, m : {1}, d : {1}]

NextDay ==
    /\ date.d < DaysIn(date.y, date.m)
    /\ date' = [date EXCEPT !.d = @ + 1]
NextMonth ==
    /\ date.d = DaysIn(date.y, date.m) /\ date.m < 12
    /\ date' = [date EXCEPT !.m = @ + 1, !.d = 1]
NextYear ==
    /\ date.d = DaysIn(date.y, date.m) /\ date.m = 12 /\ date.y < LastYear
    /\ date' = [y |-> date.y + 1, m |-> 1, d |-> 1]

NextDate == NextDay \/ NextMonth \/ NextYear
Dates == FirstDate /\ [][NextDate]_date

-----------------------------------------------------------------------------
(* The day pillar moves on by exactly one place every day, over the ends   *)
(* of months, leap days and centuries.                                     *)
DayByDay ==
    [][\A r \in BOOLEAN : DateIndex60(r, date') = (DateIndex60(r, date) + 1) % 60]_date
=============================================================================
