------------------------- MODULE LunisolarCalendar --------------------------
(***************************************************************************)
(* The Chinese lunisolar calendar (bazi_engine/zwds/calendar_provider.py,  *)
(* SwissephLunisolarCalendar, over astro_moon.py): from a local date to    *)
(* lunar year, month and day.  Nothing is kept between calls: every date   *)
(* searches its new moons and solar terms again.                           *)
(*                                                                         *)
(* Instants are minutes, 0 the midnight UTC that begins Julian day Epoch.  *)
(* A lunation is named by its index in NewMoon.                            *)
(***************************************************************************)
EXTENDS GregorianDay

CONSTANTS Epoch,
          LastMoon,    \* index of the last new moon known
          NewMoon,     \* index -> instant, as the ephemeris has them
          LastTerm,
          Term,        \* index -> instant at which the Sun is at a multiple of 30 degrees
          Offsets      \* day_boundary_offset_hours of the calendars, in minutes

ASSUME EpochAssumption == Epoch \in Nat /\ Offsets \subseteq (-1440) .. 1440
ASSUME MoonAssumption ==      \* true lunations take 29.27 to 29.84 days
    /\ LastMoon \in Nat /\ NewMoon \in [0 .. LastMoon -> Int]
    /\ \A j, k \in 0 .. LastMoon : j < k => NewMoon[k] - NewMoon[j] >= 42100
    /\ \A k \in 1 .. LastMoon : NewMoon[k] - NewMoon[k - 1] <= 43000

Day == 1440
LocalDay(o, u) == Epoch + ((u + o) \div Day)

(* Every twelfth term is the winter solstice of a year, from two years     *)
(* before the first asked about to one after the last.  A year of the Sun  *)
(* takes 365.21 to 365.27 days and its solstice falls into the second half *)
(* of December.                                                            *)
SolsticeYears == FirstYear - 2 .. LastYear + 1
SolsticeOf(y) == Term[12 * (y - FirstYear + 2)]
Zhongqi == {Term[i] : i \in 0 .. LastTerm}
Solstices == {SolsticeOf(y) : y \in SolsticeYears}
ASSUME TermAssumption ==
    /\ FirstYear > 3 /\ FirstYear <= LastYear
    /\ LastTerm \in Nat /\ LastTerm >= 12 * (LastYear - FirstYear + 3)
    /\ Term \in [0 .. LastTerm -> Int]
    /\ \A i, j \in 0 .. LastTerm : i < j => Term[i] < Term[j]
    /\ \A y \in FirstYear - 2 .. LastYear :
          /\ SolsticeOf(y + 1) >= SolsticeOf(y) + 525900
          /\ SolsticeOf(y + 1) <= SolsticeOf(y) + 526000
    /\ \A y \in SolsticeYears : \A o \in Offsets :
          /\ LocalDay(o, SolsticeOf(y)) >= Jdn([y |-> y, m |-> 12, d |-> 15])
          /\ LocalDay(o, SolsticeOf(y)) <= Jdn([y |-> y, m |-> 12, d |-> 28])
ASSUME SpanAssumption ==      \* the new moons known cover the solstices
    /\ LastMoon > 1 /\ NewMoon[0] <= SolsticeOf(FirstYear - 2)
    /\ SolsticeOf(LastYear + 1) + Day < NewMoon[LastMoon - 1]

LocalMidnight(o, day) == Day * (day - Epoch) - o
LocalNoon(o, day) == LocalMidnight(o, day) + 720
YearOf(day) ==
    CHOOSE y \in FirstYear - 3 .. LastYear + 3 :
        Jdn([y |-> y, m |-> 1, d |-> 1]) <= day /\ day < Jdn([y |-> y + 1, m |-> 1, d |-> 1])

-----------------------------------------------------------------------------
(* The latest new moon up to 0.02 days after u, the margin of the search.  *)
Margin == 28
PreviousNewMoon[u \in Int] ==
    CHOOSE k \in 0 .. LastMoon :
        /\ NewMoon[k] <= u + Margin
        /\ k < LastMoon => u + Margin < NewMoon[k + 1]
DayOne == [o \in Offsets |-> [k \in 0 .. LastMoon |-> LocalDay(o, NewMoon[k])]]

(* The lunation that owns a day, searched from the last second of the day. *)
(* A new moon less than the margin after midnight is the next day's.       *)
MonthStartUnguarded ==
    [o \in Offsets |-> [day \in Int |-> PreviousNewMoon[LocalMidnight(o, day + 1)]]]
MonthStartOwning ==
    [o \in Offsets |-> [day \in Int |->
        LET k == PreviousNewMoon[LocalMidnight(o, day + 1)]
        IN  IF DayOne[o][k] > day THEN PreviousNewMoon[NewMoon[k] - Day] ELSE k]]
NextMonthStart == [k \in 0 .. LastMoon - 1 |-> PreviousNewMoon[NewMoon[k] + 30 * Day + 720]]

(* The last of the solstices found from 400 days before the day on.        *)
WinterSolstice ==
    [o \in Offsets |-> [day \in Int |->
        CHOOSE u \in Solstices :
            /\ u >= LocalNoon(o, day) - 400 * Day /\ LocalDay(o, u) <= day
            /\ \A v \in Solstices : LocalDay(o, v) <= day => v <= u]]

(* The first term after the midnight of day one comes after the month.     *)
FirstTerm ==
    [from \in Int |->
        CHOOSE u \in Zhongqi : u >= from /\ \A v \in Zhongqi : v >= from => u <= v]
NoZhongqi ==
    [o \in Offsets |-> [k \in 0 .. LastMoon - 1 |->
        LocalDay(o, FirstTerm[LocalMidnight(o, DayOne[o][k])]) >= DayOne[o][NextMonthStart[k]]]]

-----------------------------------------------------------------------------
(* The lunations from one solstice to the next, from the month 11 that     *)
(* owns the first to the one that owns the second.  If they are thirteen,  *)
(* the first without a term after month 11 is the leap month: it repeats   *)
(* the number before it, and those after it are numbered one less.         *)
LeapInAny ==
    [o \in Offsets |-> [first \in Int |-> [last \in Int |->
        IF \E k \in first + 1 .. last : NoZhongqi[o][k]
           THEN CHOOSE k \in first + 1 .. last :
                    NoZhongqi[o][k] /\ \A j \in first + 1 .. k - 1 : ~NoZhongqi[o][j]
           ELSE last + 1]]]
LeapIn ==
    [o \in Offsets |-> [first \in Int |-> [last \in Int |->
        IF last - first = 13
           THEN CHOOSE k \in first + 1 .. last :
                    NoZhongqi[o][k] /\ \A j \in first + 1 .. k - 1 : ~NoZhongqi[o][j]
           ELSE last + 1]]]
Number ==
    [first \in Int |-> [leap \in Int |-> [k \in Int |->
        ((10 + (k - first) - (IF k >= leap THEN 1 ELSE 0)) % 12) + 1]]]

(* The first month of the span that is number 1.                           *)
Zhengyue ==
    [first \in Int |-> [leap \in Int |->
        CHOOSE k \in first + 1 .. first + 13 :
            /\ Number[first][leap][k] = 1 /\ k # leap
            /\ \A j \in first + 1 .. k - 1 : Number[first][leap][j] # 1]]
NumberedSui ==
    [o \in Offsets |-> [first \in Int |-> [last \in Int |->
        [first |-> first, last |-> last, leap |-> LeapIn[o][first][last],
         zhengyue |-> Zhengyue[first][LeapIn[o][first][last]]]]]]
Sui ==
    [o \in Offsets |-> [day \in Int |->
        LET first == WinterSolstice[o][day]
            next == WinterSolstice[o][LocalDay(o, first) + 370]
            owning(u) == MonthStartOwning[o][LocalDay(o, u)]
        IN  NumberedSui[o][owning(first)][owning(next)]]]

(* The Gregorian year of the month 1 on or before a month, which may be    *)
(* the one of the span before.                                             *)
YearLabel(o, sui, k) ==
    YearOf(DayOne[o][IF DayOne[o][sui.zhengyue] <= DayOne[o][k] THEN sui.zhengyue
                     ELSE Sui[o][DayOne[o][sui.first] - 60].zhengyue])

(* The month must be one of the span, which is looked up by its day one.   *)
Resolve ==
    [o \in Offsets |-> [day \in Int |->
        LET k == MonthStartOwning[o][day]
            sui == Sui[o][day]
        IN  [year |-> YearLabel(o, sui, k), month |-> Number[sui.first][sui.leap][k],
             leap |-> k = sui.leap, day |-> day - DayOne[o][k] + 1,
             length |-> DayOne[o][NextMonthStart[k]] - DayOne[o][k],
             found |-> k \in sui.first .. sui.last]]]

LunarDate == [year : Nat, month : 1 .. 12, leap : BOOLEAN, day : 1 .. 30, length : {29, 30},
              found : {TRUE}]

-----------------------------------------------------------------------------
(* Lunar date b is that of the day after lunar date a.                     *)
SameMonth(a, b) == a.month = b.month /\ a.leap = b.leap /\ a.year = b.year
FollowsInYear(a, b) ==
    IF b.leap THEN ~a.leap /\ b.month = a.month /\ b.year = a.year
    ELSE /\ b.month = (a.month % 12) + 1
         /\ b.year = IF b.month = 1 THEN a.year + 1 ELSE a.year
DayAfter(a, b) ==
    \/ a.day < a.length /\ b.day = a.day + 1 /\ SameMonth(a, b) /\ a.length = b.length
    \/ a.day = a.length /\ b.day = 1 /\ FollowsInYear(a, b)
=============================================================================
