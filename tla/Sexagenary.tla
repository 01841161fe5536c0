----------------------------- MODULE Sexagenary -----------------------------
(***************************************************************************)
(* The cycle of sixty pillars (bazi_engine/bazi.py): a pillar pairs one of *)
(* ten stems with one of twelve branches.  The stems of months and hours   *)
(* come from the ruleset's tables, or from a formula when no ruleset can   *)
(* be loaded.                                                              *)
(***************************************************************************)
EXTENDS Integers

Pillar == [stem : 0 .. 9, branch : 0 .. 11]
PillarFromIndex60(i) == [stem |-> i % 10, branch |-> i % 12]
YearPillar(year) == PillarFromIndex60((year - 1984) % 60)

(* The five groups of a table each serve a stem and the stem five later.   *)
MonthStems == << <<2, 3, 4, 5, 6, 7, 8, 9, 0, 1, 2, 3>>,
                 <<4, 5, 6, 7, 8, 9, 0, 1, 2, 3, 4, 5>>,
                 <<6, 7, 8, 9, 0, 1, 2, 3, 4, 5, 6, 7>>,
                 <<8, 9, 0, 1, 2, 3, 4, 5, 6, 7, 8, 9>>,
                 <<0, 1, 2, 3, 4, 5, 6, 7, 8, 9, 0, 1>> >>
HourStems ==  << <<0, 1, 2, 3, 4, 5, 6, 7, 8, 9, 0, 1>>,
                 <<2, 3, 4, 5, 6, 7, 8, 9, 0, 1, 2, 3>>,
                 <<4, 5, 6, 7, 8, 9, 0, 1, 2, 3, 4, 5>>,
                 <<6, 7, 8, 9, 0, 1, 2, 3, 4, 5, 6, 7>>,
                 <<8, 9, 0, 1, 2, 3, 4, 5, 6, 7, 8, 9>> >>

MonthStem(ruleset, yearStem, month) ==
    IF ruleset THEN MonthStems[1 + (yearStem % 5)][month + 1]
               ELSE (yearStem * 2 + 2 + month) % 10
MonthPillar(ruleset, yearStem, month) ==
    [stem |-> MonthStem(ruleset, yearStem, month), branch |-> (2 + month) % 12]

HourStemFromMidnight(ruleset, dayStem, branch) ==
    IF ruleset THEN HourStems[1 + (dayStem % 5)][branch + 1]
               ELSE (dayStem * 2 + branch + 1) % 10
HourStem(ruleset, dayStem, branch) ==
    IF ruleset THEN HourStems[1 + (dayStem % 5)][branch + 1]
               ELSE (dayStem * 2 + branch) % 10
HourPillar(ruleset, dayStem, branch) ==
    [stem |-> HourStem(ruleset, dayStem, branch), branch |-> branch]

(* The place of Julian day 0 in the cycle: the constant, or what puts the  *)
(* ruleset's anchor, Julian day 2419451, at the start of the cycle.        *)
DayOffset(ruleset) == IF ruleset THEN (0 - 2419451) % 60 ELSE 49

(* The place of a pillar in the cycle, from its stem and branch            *)
(* (routers/dayun.py).                                                     *)
Index60(p) == (6 * p.stem - 5 * p.branch) % 60
=============================================================================
