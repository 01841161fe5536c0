---------------------------- MODULE FourPillars ----------------------------
(***************************************************************************)
(* The four pillars of a birth: the day and the hour of BaziDay together   *)
(* with the year and the month (compute_bazi in bazi_engine/bazi.py, with  *)
(* compute_month_boundaries_from_lichun of bazi_engine/jieqi.py).          *)
(*                                                                         *)
(* A solar year starts at LiChun and has twelve months, each starting at a *)
(* jie.  The engine finds these instants, converts them to the chart's     *)
(* clock and compares wall times.                                          *)
(***************************************************************************)
EXTENDS BaziDay, FiniteSets

CONSTANTS BaseYear, Years,  \* the years BaseYear .. BaseYear + Years
          Jie(_),           \* instants of the jie; Jie(12 * n) is LiChun of BaseYear + n
          NewYear(_),       \* midnight that begins a year
          Jitter            \* how far two searches for one crossing may differ

JieIndex == 0 .. 12 * Years

ASSUME MonthAssumption ==
    /\ BaseYear \in Nat /\ Years \in Nat \ {0}
    /\ \A i \in JieIndex : Jie(i) \in Int /\ \A j \in JieIndex : i < j => Jie(i) < Jie(j)
    /\ \A n \in 0 .. Years : NewYear(BaseYear + n) \in Int
    /\ NewYear(BaseYear) <= Jie(0)
    /\ \A n \in 1 .. Years : Jie(12 * n - 2) < NewYear(BaseYear + n)
                            /\ NewYear(BaseYear + n) < Jie(12 * n - 1)
    /\ Jitter \subseteq Int

(* The jie are days apart, the clocks within a day of UTC, and the births  *)
(* inside the years given.                                                 *)
ADay == 1440
ASSUME SpanAssumption ==
    /\ \A i \in JieIndex : i + 1 \in JieIndex => Jie(i) + ADay < Jie(i + 1)
    /\ \A p \in Place : /\ p.before \in (-ADay) .. ADay /\ p.after \in (-ADay) .. ADay
                       /\ p.longitude \in (-ADay) .. ADay
    /\ \A u \in Births : NewYear(BaseYear + 1) + ADay <= u /\ u + ADay < NewYear(BaseYear + Years)

VARIABLES
    jitter,                   \* what the engine's searches met with
    solarYear, monthIndex     \* what it answers

allVars == <<vars, jitter, solarYear, monthIndex>>

-----------------------------------------------------------------------------
(* The first LiChun at or after the midnight that begins a year.           *)
LiChunIndex(year) ==
    12 * (CHOOSE n \in 0 .. Years : Jie(12 * n) >= NewYear(year)
                                    /\ \A m \in 0 .. n - 1 : Jie(12 * m) < NewYear(year))

(* The chart's clock; apparent solar time is no time zone, so its charts   *)
(* keep the civil one.                                                     *)
OnChart(u) == IF standard = "LMT" THEN u + place.longitude ELSE CivilAt(u)
ChartYear == CHOOSE y \in BaseYear .. BaseYear + Years : NewYear(y) <= Chart /\ Chart < NewYear(y + 1)

(* The year turns at LiChun.                                               *)
LiChun(year) == OnChart(Jie(LiChunIndex(year)))
SolarYear == IF Chart < LiChun(ChartYear) THEN ChartYear - 1 ELSE ChartYear

(* The bounds of its months, each the next jie after the one before.  The  *)
(* last comes from a second search for the next LiChun, from another start.*)
Months ==
    LET first == LiChunIndex(solarYear)
        Bound(k) == OnChart(Jie(first + k) + (IF k = 12 THEN jitter ELSE 0))
    IN  {k \in 0 .. 11 : Bound(k) <= Chart /\ Chart < Bound(k + 1)}
FirstOr(ks, otherwise) == IF ks = {} THEN otherwise ELSE CHOOSE k \in ks : \A j \in ks : k <= j
MonthIndexOrFirst == FirstOr(Months, 0)
MonthIndex == FirstOr(Months, 11)

Year == YearPillar(solarYear)
Month == MonthPillar(ruleset, Year.stem, monthIndex)

ChartInit ==
    /\ Init /\ jitter \in Jitter
    /\ solarYear = SolarYear /\ monthIndex = MonthIndex
ChartNext ==
    /\ Next /\ UNCHANGED jitter
    /\ solarYear' = SolarYear' /\ monthIndex' = MonthIndex'
ChartSpec == ChartInit /\ [][ChartNext]_allVars

-----------------------------------------------------------------------------
(* Every pillar is one of the sixty, whether the ruleset could be loaded   *)
(* or not, and the trace that explains day and hour arrives at the same.   *)
PillarsOK ==
    /\ TypeOK /\ FallbackAgrees /\ TraceExplains /\ solarYear \in Nat /\ monthIndex \in 0 .. 11
    /\ Year \in Pillar /\ Year.stem % 2 = Year.branch % 2
    /\ Month \in Pillar /\ Month.stem % 2 = Month.branch % 2

(* The jie that have passed at the instant of birth decide the year and    *)
(* the month.                                                              *)
Passed == Cardinality({i \in JieIndex : Jie(i) <= instant}) - 1
ByTheSun == solarYear = BaseYear + (Passed \div 12) /\ monthIndex = Passed % 12

(* Whether the clocks show the time of birth twice.                        *)
Repeated ==
    /\ standard # "LMT" /\ place.after < place.before
    /\ instant >= place.at - (place.before - place.after)
    /\ instant < place.at + (place.before - place.after)

(* Whatever clock the chart keeps, wherever the calendar year ends and     *)
(* however the two searches for LiChun differ, year and month are those of *)
(* the instant; except in the hour that the clocks repeat.                 *)
MonthsFollowTheSun == ~Repeated => ByTheSun

(* "Jieqi define the month boundaries", "uniquely determined by UTC        *)
(* instant and solar longitude" (docs/fusion/11_ground_truth_integrity.md, *)
(* lines 118 and 119).                                                     *)
JieqiBoundMonths == ByTheSun
=============================================================================
