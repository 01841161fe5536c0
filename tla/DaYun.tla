------------------------------- MODULE DaYun -------------------------------
(***************************************************************************)
(* POST /calculate/bazi/dayun (bazi_engine/routers/dayun.py and            *)
(* bazi_engine/dayun): the decades of a life, each with a pillar, a span   *)
(* of ages and a span of dates, and which of them is the current one.  A   *)
(* client asks about one birth again every day, under the calendar of      *)
(* GregorianDay: `date' is the day asked about (as_of_date).               *)
(*                                                                         *)
(* Spans of time are minutes, ages hundredths of a year.  Three days are   *)
(* a year of life, so a minute up to the solar term is 1/4320 of a year.   *)
(***************************************************************************)
EXTENDS GregorianDay, Sequences

CONSTANTS Charts,     \* births with what compute_bazi and the ephemeris say of them
          Requests,   \* [method, flow, sex]
          Cycles      \* decades asked for

ChartsOK ==
    \A c \in Charts :
        /\ c.y \in Nat /\ c.m \in 1 .. 12 /\ c.d \in 1 .. DaysIn(c.y, c.m)
        /\ c.minute \in Nat /\ c.minute < 1440                    \* wall time
        /\ c.offset \in Int /\ -840 <= c.offset /\ c.offset <= 840
        /\ c.terms \subseteq Int                                  \* solar terms, from the birth
        /\ (\E u \in c.terms : u < 0) /\ (\E u \in c.terms : u > 0)
        /\ c.month \in Pillar /\ c.month.stem % 2 = c.month.branch % 2 /\ c.yearStem \in 0 .. 9
RequestsOK ==
    /\ Requests \subseteq [method : {"explicit", "year_stem_yinyang_and_sex"},
                           flow : {"forward", "backward", "none"},
                           sex : {"male", "female", "none"}]
    /\ Cycles \in 1 .. 12

ASSUME LifeAssumption == ChartsOK /\ RequestsOK

VARIABLES
    birth, request,
    decades,     \* n -> [pillar, from, to, dateFrom, dateTo]
    current,     \* number of the current decade, or 0
    reply

dayunVars == <<date, birth, request, decades, current, reply>>

-----------------------------------------------------------------------------
(* resolve_direction_for_request: "none" stands for a missing field.       *)
Resolvable == IF request.method = "explicit" THEN request.flow # "none" ELSE request.sex # "none"
Forward ==
    IF request.method = "explicit" THEN request.flow = "forward"
    ELSE (birth.yearStem % 2 = 0) <=> (request.sex = "male")

(* resolve_jieqi_anchor: minutes to the nearest term strictly after, or    *)
(* before, the birth; compute_start_age caps the age at 120 years.         *)
Until ==
    IF Forward THEN CHOOSE u \in birth.terms : u > 0 /\ \A v \in birth.terms : v > 0 => u <= v
    ELSE 0 - CHOOSE u \in birth.terms : u < 0 /\ \A v \in birth.terms : v < 0 => v <= u
StartAge == IF Until >= 518400 THEN 518400 ELSE Until    \* in 1/4320 of a year

(* round(age, 2)                                                           *)
Age(n) == 1000 * n + ((100 * StartAge + 2160) \div 4320)

(* add_real_years: whole years on the calendar, the rest of a year in      *)
(* days of which a year has 365.2425.                                      *)
Clamped(y) ==
    [y |-> y, m |-> birth.m, d |-> IF birth.m = 2 /\ birth.d = 29 /\ ~Leap(y) THEN 28 ELSE birth.d]
Rest == LET r == StartAge % 4320 IN 121 * r + ((7475 * r) \div 10000)
RealYears(n) ==
    Jdn(Clamped(birth.y + 10 * n + (StartAge \div 4320))) + ((birth.minute + Rest) \div 1440)

PillarFromMonth(n) ==
    PillarFromIndex60((Index60(birth.month) + (IF Forward THEN n - 1 ELSE 1 - n)) % 60)
PillarAt(n) ==
    PillarFromIndex60((Index60(birth.month) + (IF Forward THEN n ELSE 0 - n)) % 60)

AgeTruncated(n) == 1000 * n + ((100 * StartAge) \div 4320)
DecadesTruncated ==
    [n \in 1 .. Cycles |->
        [pillar |-> PillarAt(n), from |-> Age(n - 1), to |-> AgeTruncated(n),
         dateFrom |-> RealYears(n - 1), dateTo |-> RealYears(n)]]
Decades ==
    [n \in 1 .. Cycles |->
        [pillar |-> PillarAt(n), from |-> Age(n - 1), to |-> Age(n),
         dateFrom |-> RealYears(n - 1), dateTo |-> RealYears(n)]]

(* select_current: the minutes lived until the day asked about begins, in  *)
(* UTC, against the first minute of a rounded age.                         *)
Lived == (Jdn(date) - Jdn(birth)) * 1440 - (birth.minute - birth.offset)
MinuteOfRitual(age) == 5184 * age
MinuteOf(age) == 5259 * age + ((492 * age + 999) \div 1000)
Brackets(n) == MinuteOf(decades[n].from) <= Lived /\ Lived < MinuteOf(decades[n].to)
Current ==
    IF Lived >= 0 /\ \E n \in DOMAIN decades : Brackets(n)
       THEN CHOOSE n \in DOMAIN decades : Brackets(n) /\ \A k \in 1 .. n - 1 : ~Brackets(k)
       ELSE 0

Ask ==
    /\ date = [y |-> FirstYear, m |-> 1, d |-> 1]
    /\ birth \in Charts /\ request \in Requests
    /\ IF Resolvable THEN decades = Decades /\ reply = "ok"
                     ELSE decades = <<>> /\ reply = "422"
    /\ current = Current

AskNextDay ==
    /\ reply = "ok" /\ NextDate
    /\ UNCHANGED <<birth, request, decades, reply>>
    /\ current' = Current'

DaYunSpec == Ask /\ [][AskNextDay]_dayunVars

-----------------------------------------------------------------------------
(* The pillars of the decades continue the month pillar of the birth, with *)
(* stem and branch each moving on by one in the direction of the flow: the *)
(* closed form that places the month pillar in the cycle is right.         *)
PillarBefore(n) == IF n = 1 THEN birth.month ELSE decades[n - 1].pillar
PillarsContinue ==
    \A n \in DOMAIN decades :
        LET earlier == IF Forward THEN PillarBefore(n) ELSE decades[n].pillar
            later == IF Forward THEN decades[n].pillar ELSE PillarBefore(n)
        IN  later = [stem |-> (earlier.stem + 1) % 10, branch |-> (earlier.branch + 1) % 12]

(* The dates of the decades meet, and each is ten calendar years long: one *)
(* to three leap days, over the ends of centuries and births on leap days. *)
DecadesMeet ==
    \A n \in DOMAIN decades :
        /\ decades[n].dateTo - decades[n].dateFrom \in 3651 .. 3653
        /\ n > 1 => decades[n - 1].dateTo = decades[n].dateFrom

(* So the decades run on, by their pillars and by their dates.             *)
DecadesRunOn == PillarsContinue /\ DecadesMeet

(* Day by day the current decade moves on by one; none is skipped, none    *)
(* comes back, and no day within the decades has none.                     *)
MovesOn ==
    current' \in {current, current + 1} \/ (current = Cycles /\ current' = 0)
OneAfterAnother == [][MovesOn]_dayunVars

(* The current decade, found by the mean year and a rounded age, is the    *)
(* one its dates say, found on the calendar, but for six days at either    *)
(* end: the rounding is worth two, the drift of the calendar against the   *)
(* mean year two, zone and time of day the rest.                           *)
CurrentByDate(margin) ==
    \A n \in DOMAIN decades :
        decades[n].dateFrom + margin <= Jdn(date) /\ Jdn(date) < decades[n].dateTo - margin
            => current = n
CurrentNearDates == CurrentByDate(6)
=============================================================================
