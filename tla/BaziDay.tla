------------------------------ MODULE BaziDay ------------------------------
(***************************************************************************)
(* The day and the hour pillar of a birth (compute_bazi in                 *)
(* bazi_engine/bazi.py, with bazi_engine/time_context.py), for births one  *)
(* after another at one place.                                             *)
(*                                                                         *)
(* A pillar is read off one of three clocks: the civil one, which may be   *)
(* changed once; local mean time; apparent solar time.  Instants and wall  *)
(* times are minutes since the midnight (UTC) that began Julian day Epoch; *)
(* a calendar date is its Julian day number (module GregorianDay).         *)
(***************************************************************************)
EXTENDS Sexagenary

CONSTANTS Epoch,          \* Julian day of the first midnight
          Place,          \* [at, before, after, longitude, equation]
          Births, Step    \* instants of birth, in series with this distance

ASSUME DayAssumption ==
    /\ Epoch \in Int
    /\ Place \subseteq [at : Int, before : Int, after : Int, longitude : Int, equation : Int]
    /\ Births \subseteq Int /\ Step \in 1 .. 60

(* Without its ruleset, or with another one's name in it, the engine falls *)
(* back on constants and formulas (bazi.py:67-71). A file that is there but*)
(* cannot be read or is no JSON object is not caught: no birth has pillars *)
(* then, and there is nothing here to compare (resource_loader.py:27-97).  *)
VARIABLES
    instant,              \* of the birth
    place,                \* change of offset, longitude and equation of time, in minutes
    standard, boundary,   \* as asked for
    ruleset               \* whether the ruleset could be loaded

vars == <<instant, place, standard, boundary, ruleset>>
settings == <<place, standard, boundary, ruleset>>

-----------------------------------------------------------------------------
(* The clocks, and the parts of a wall time.                               *)
CivilAt(u) == u + (IF u < place.at THEN place.before ELSE place.after)
Civil == CivilAt(instant)
Mean == instant + place.longitude
ApparentOfCivil == Civil + place.longitude + place.equation
Apparent == instant + place.longitude + place.equation

Date(wall) == Epoch + (wall \div 1440)
MinuteOfDay(wall) == wall % 1440

Chart == IF standard = "LMT" THEN Mean ELSE Civil
DateRollover == Date(Apparent) - Date(Civil)

(* The date the day pillar is taken from.                                  *)
DayBoundaryIgnored(wall) == wall
DayBoundary(wall) == IF boundary = "zi" THEN wall + 60 ELSE wall
SolarDateTwice == Date(DayBoundary(Chart)) + DateRollover
SolarDate ==
    LET date == Date(Chart) + DateRollover
    IN  IF boundary = "zi" /\ MinuteOfDay(Apparent) >= 23 * 60 THEN date + 1 ELSE date
DateForDay == IF standard = "TLST" THEN SolarDate ELSE Date(DayBoundary(Chart))

DayIndex60 == (DateForDay + DayOffset(ruleset)) % 60
Day == PillarFromIndex60(DayIndex60)

(* The double hour: the clock's hours, or the apparent time of day.        *)
Hour == MinuteOfDay(Chart) \div 60
BranchOfEvenHours(h) == (h \div 2) % 12
BranchOfHour(h) == ((h + 1) \div 2) % 12
BranchOfApparent(minute) == (((minute + 60) % 1440) \div 120) % 12
HourBranch ==
    IF standard = "TLST" THEN BranchOfApparent(MinuteOfDay(Apparent))
                         ELSE BranchOfHour(Hour)
HourOfBirth == HourPillar(ruleset, Day.stem, HourBranch)

(* What the derivation trace says of them (routers/bazi.py).               *)
TraceIndex60 == (DateForDay + DayOffset(FALSE)) % 60
TraceHour == IF standard = "TLST" THEN MinuteOfDay(Apparent) \div 60 ELSE Hour

Init ==
    /\ instant \in Births /\ instant - Step \notin Births
    /\ place \in Place
    /\ standard \in {"CIVIL", "LMT", "TLST"} /\ boundary \in {"midnight", "zi"}
    /\ ruleset \in BOOLEAN

Later == instant + Step \in Births /\ instant' = instant + Step /\ UNCHANGED settings
Next == Later
Spec == Init /\ [][Next]_vars

-----------------------------------------------------------------------------
(* Every pillar is one of the sixty: its stem and its branch are both yang *)
(* or both yin.                                                            *)
TypeOK ==
    /\ instant \in Int
    /\ Day \in Pillar /\ Day.stem % 2 = Day.branch % 2
    /\ HourOfBirth \in Pillar /\ HourOfBirth.stem % 2 = HourOfBirth.branch % 2

(* Under apparent solar time the day turns with the sun: through the civil *)
(* date and the date rollover the engine arrives at the date on a clock    *)
(* that shows apparent time, by the rule the LMT path applies to a clock   *)
(* that shows mean time, whatever the zone makes of the civil date.        *)
SunTurnsTheDay ==
    /\ standard = "TLST" =>
          /\ DateForDay = Date(DayBoundary(Apparent))
          /\ HourBranch = BranchOfHour(MinuteOfDay(Apparent) \div 60)
    /\ standard = "LMT" => DateForDay = Date(DayBoundary(Mean))

(* Under "zi" day and hour turn together: on a solar clock the double      *)
(* hours run through the sixty pillars without a gap or a repetition, and  *)
(* the day changes exactly when the hour of the rat begins.                *)
HoursPassed == (Index60(HourOfBirth') - Index60(HourOfBirth)) % 60
RunOn ==
    standard # "CIVIL" /\ boundary = "zi" =>
        /\ HoursPassed \in {0, 1}
        /\ DayIndex60' = IF HoursPassed = 1 /\ HourBranch' = 0
                         THEN (DayIndex60 + 1) % 60 ELSE DayIndex60
HoursRunOn == [][RunOn]_vars

(* A pillar does not depend on whether the ruleset could be loaded.        *)
FallbackAgrees ==
    /\ DayOffset(TRUE) = DayOffset(FALSE)
    /\ HourPillar(TRUE, Day.stem, HourBranch) = HourPillar(FALSE, Day.stem, HourBranch)

(* The trace shows the day and the double hour of the pillars it explains. *)
TraceExplains ==
    /\ PillarFromIndex60(TraceIndex60) = Day
    /\ HourBranch = BranchOfHour(TraceHour)
=============================================================================
