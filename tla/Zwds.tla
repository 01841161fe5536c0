-------------------------------- MODULE Zwds --------------------------------
(***************************************************************************)
(* POST /v1/calculate/zwds (bazi_engine/routers/zwds.py, zwds/seed.py,     *)
(* zwds/engine.py): charts for one birth after another at a place whose    *)
(* clock keeps one offset, each drawn on the lunisolar calendar of that    *)
(* offset.  date and minute are the effective local time.                  *)
(***************************************************************************)
EXTENDS LunisolarCalendar, ZwdsChart, FiniteSetsExt

CONSTANT Minutes     \* of the day, at which someone is born

VARIABLES
    offset,     \* of the effective local time from UTC
    minute,
    lunar,      \* chart_lunar_date
    eve         \* pre_late_zi_lunar_date

zwdsVars == <<date, offset, minute, lunar, eve>>

-----------------------------------------------------------------------------
(* resolve_chronometry: from 23:00 on the chart is that of the next day.   *)
HourBranch(m) == (((m \div 60) + 1) \div 2) % 12
LateZi(m) == m \div 60 = 23

(* Somebody is born in the double hour of the rat, and somebody later.     *)
ASSUME MinuteAssumption == Minutes \subseteq 0 .. 1439
ASSUME BirthAssumption ==
    (\E m \in Minutes : HourBranch(m) = 0) /\ (\E m \in Minutes : HourBranch(m) # 0)

ChartDay(t, m) == Jdn(t) + (IF LateZi(m) THEN 1 ELSE 0)

(* resolve_calendar_seed.                                                  *)
EffectiveMonth(l) == IF l.leap /\ l.day > 15 THEN (l.month % 12) + 1 ELSE l.month
SeedOf(l, m) ==
    [month |-> EffectiveMonth(l), day |-> l.day, stem |-> (l.year - 4) % 10,
     branch |-> (l.year - 4) % 12, hour |-> HourBranch(m)]

(* The request, "none" for a field left out, and what lets it pass: the    *)
(* gate on the catalog, then the conditionals of the schema.               *)
Request == [method : {"explicit", "year_stem_yinyang_and_sex", "omit"},
            flow : {"none", "forward", "backward"}, sex : {"none", "male", "female"},
            decadal : BOOLEAN, catalog : BOOLEAN]
Conditionals(q) ==
    /\ q.method = "year_stem_yinyang_and_sex" => q.sex # "none"
    /\ (q.method = "explicit") <=> (q.flow # "none")
    /\ q.decadal => q.method # "omit"
Accepted(q) == ~q.catalog /\ Conditionals(q)

(* decadal_direction, by the polarity of the stem of the lunar year.       *)
Direction(q, stem) ==
    CASE q.method = "explicit" /\ q.flow # "none" -> q.flow
      [] q.method = "year_stem_yinyang_and_sex" /\ q.sex # "none" ->
            IF (stem % 2 = 0) <=> (q.sex = "male") THEN "forward" ELSE "backward"
      [] OTHER -> "error"

-----------------------------------------------------------------------------
FirstBirth ==
    /\ date = [y |-> FirstYear, m |-> 1, d |-> 1] /\ offset \in Offsets
    /\ minute = Min(Minutes)
    /\ lunar = Resolve[offset][ChartDay(date, minute)] /\ eve = Resolve[offset][Jdn(date)]

LaterToday ==
    /\ minute < Max(Minutes)
    /\ minute' = Min({m \in Minutes : m > minute})
    /\ UNCHANGED <<date, offset>>
    /\ lunar' = Resolve[offset][ChartDay(date', minute')]
    /\ eve' = Resolve[offset][Jdn(date')]

Tomorrow ==
    /\ minute = Max(Minutes) /\ NextDate
    /\ minute' = Min(Minutes)
    /\ UNCHANGED offset
    /\ lunar' = Resolve[offset][ChartDay(date', minute')]
    /\ eve' = Resolve[offset][Jdn(date')]

ZwdsNext == LaterToday \/ Tomorrow
ZwdsSpec == FirstBirth /\ [][ZwdsNext]_zwdsVars

-----------------------------------------------------------------------------
(* The calendar runs on: when the double hour of the rat begins, at 23:00, *)
(* comes the next day of the month, or the first of the next month, or of  *)
(* its leap month; a year begins with its first month; and at no other     *)
(* time does anything change.  No day is left out or counted twice.        *)
ZiBegins == HourBranch(minute') = 0 /\ HourBranch(minute) # 0
LunarDaysRunOn ==
    [][IF ZiBegins THEN DayAfter(lunar, lunar') ELSE lunar' = lunar]_zwdsVars

(* The month of the winter solstice is month 11 and never a leap month; no *)
(* leap month has a term; and the calendar's own name for the day of birth *)
(* is a date of the calendar, the day before the chart's after 23:00.      *)
TermsIn(k) ==
    {u \in Zhongqi : LocalDay(offset, u) \in DayOne[offset][k] .. DayOne[offset][k + 1] - 1}
LeapRule ==
    LET k == MonthStartOwning[offset][Jdn(date)]
    IN  /\ eve \in LunarDate /\ lunar \in LunarDate
        /\ IF LateZi(minute) THEN DayAfter(eve, lunar) ELSE eve = lunar
        /\ eve.leap => TermsIn(k) = {}
        /\ TermsIn(k) \cap Solstices # {} => eve.month = 11 /\ ~eve.leap

(* A request that is let through with decades has a direction for them:    *)
(* the engine's last resort, an error that is nobody's fault but the       *)
(* server's, is out of reach.                                              *)
DirectionDecided ==
    \A q \in Request :
        Accepted(q) /\ q.decadal => Direction(q, SeedOf(lunar, minute).stem) # "error"

(* A chart passes its own validation, and what the validation leaves out   *)
(* holds as well: each of the eighteen stars is in one palace, the bureau  *)
(* is the element that the cycle of sixty gives the pillar of the Ming     *)
(* palace, the stems are those of the months of such a year in BaZi, and   *)
(* every decade has a palace of its own.                                   *)
NaYin == << "metal", "fire", "wood", "earth", "metal", "fire", "water", "earth",
            "metal", "wood", "water", "earth", "fire", "wood", "water" >>
ElementOf(p) == NaYin[((Index60(p) % 30) \div 2) + 1]
ChartOK ==
    LET s == SeedOf(lunar, minute)
        c == Chart(s)
        pillar(i) == [stem |-> c.palaces[i].stem, branch |-> c.palaces[i].branch]
    IN  /\ s \in Seed /\ ValidGraph(c)
        /\ Cardinality(DOMAIN c.placements) = 18
        /\ \A x \in DOMAIN c.placements : \E i \in Branch : x \in c.palaces[i].stars
        /\ ValidParity(pillar(0).stem, pillar(0).branch) /\ c.bureau.phase = ElementOf(pillar(0))
        /\ \A i \in Branch :
              pillar(i) = MonthPillar(TRUE, s.stem, (pillar(i).branch - Yin) % 12)
        /\ \A forward \in BOOLEAN :
              {DecadalLimits(s, forward)[j].role : j \in Branch} = {Role[i] : i \in 1 .. 12}
        /\ DirectionDecided

=============================================================================
