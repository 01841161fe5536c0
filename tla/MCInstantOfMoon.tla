--------------------------- MODULE MCInstantOfMoon ---------------------------
EXTENDS InstantOfMoon

(* A change of offset by up to eight units either way, a minute of two     *)
(* units so that a gap need not end on the caller's grid, a shift limit    *)
(* that the largest gaps exceed, and a calendar hardly wider than the wall *)
(* times asked for.                                                        *)
Offsets == -4 .. 4
Lowest == -6
Walls == Lowest .. 12

(* A day is forty ticks, an angle a thousandth of a degree; the Moon runs  *)
(* between 10.4 and 14.0 degrees a day and comes back to its fastest in    *)
(* 27.55 days, starting from four places.  The calendar supports a month   *)
(* and three days.                                                         *)
HalfWay == 551
Sway(x) ==
    IF x < HalfWay THEN (4 * 6300 * x * (HalfWay - x)) \div (HalfWay * HalfWay)
    ELSE -((4 * 6300 * (x - HalfWay) * (2 * HalfWay - x)) \div (HalfWay * HalfWay))
MCAngle(c, u) == 305 * u - u \div 6 + Sway((u + c) % (2 * HalfWay))
MCCourse == {0, 275, 551, 826}
MCInstants == -1 .. 1301
=============================================================================
