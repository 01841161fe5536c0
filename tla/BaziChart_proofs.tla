-------------------------- MODULE BaziChart_proofs --------------------------
(***************************************************************************)
(* That the pillars of a birth follow the sun, for every place, every      *)
(* change of its clocks, every instant and every course of the sun; and    *)
(* that the decades of a life run on, for every birth and direction.  Both *)
(* are proved of BaziSpec, whose behaviours are behaviours of each part.   *)
(*                                                                         *)
(* Day and hour: under "zi" both are read off one number, the double hours *)
(* a solar clock has counted.  Its remainder by twelve is the branch of    *)
(* the hour, its quotient the day, and the stem the hour takes from the    *)
(* day is the one the count has in the cycle of sixty.                     *)
(*                                                                         *)
(* Year and month: outside a repeated hour the order of wall times is that *)
(* of instants (ClockInOrder), so counting the jie that have passed by the *)
(* clock is counting those the sun has passed; and between two searches of *)
(* one LiChun the last month goes on.                                      *)
(*                                                                         *)
(* The decades: which one is current is decided by rounded ages in mean    *)
(* years, so each is counted off after some 3 652 days (DecadeCountedOff). *)
(* Its dates are birthdays, and between two birthdays the leap days of the *)
(* calendar and those of mean years differ by little more than two         *)
(* (LeapDrift).                                                            *)
(***************************************************************************)
EXTENDS BaziChart, Calendar_proofs, FiniteSetTheorems

-----------------------------------------------------------------------------
(* A chart and a life: a behaviour of both is a behaviour of each.         *)
LEMMA ChartPart == BaziSpec => ChartSpec
<1>1. BaziInit => ChartInit
  BY DEF BaziInit
<1>2. [BaziNext]_bothVars => [ChartNext]_allVars
  BY DEF BaziNext, bothVars
<1> QED  BY <1>1, <1>2, PTL DEF BaziSpec, ChartSpec

LEMMA LifePart == BaziSpec => DaYunSpec
<1>1. BaziInit => Ask
  BY DEF BaziInit
<1>2. [BaziNext]_bothVars => [AskNextDay]_dayunVars
  BY DEF BaziNext, bothVars
<1> QED  BY <1>1, <1>2, PTL DEF BaziSpec, DaYunSpec

(* The day and the hour are asked for as BaziDay says.                     *)
LEMMA DayPart == BaziSpec => Spec
<1>1. ChartInit => Init
  BY DEF ChartInit
<1>2. [ChartNext]_allVars => [Next]_vars
  BY DEF ChartNext, allVars
<1> QED  BY <1>1, <1>2, ChartPart, PTL DEF ChartSpec, Spec

-----------------------------------------------------------------------------
SolarClock == IF standard = "LMT" THEN Mean ELSE Apparent
DoubleHours(wall) == (wall + 60) \div 120

(* The hour stems of the ruleset's table are those of the formula.         *)
LEMMA TableIsFormula ==
    ASSUME NEW r \in BOOLEAN, NEW s \in 0 .. 9, NEW b \in 0 .. 11
    PROVE  HourStem(r, s, b) = (s * 2 + b) % 10
<1>1. CASE r = FALSE
  BY <1>1 DEF HourStem
<1>2. CASE r = TRUE
  <2>1. HourStem(r, s, b) = HourStems[1 + (s % 5)][b + 1]
    BY <1>2 DEF HourStem
  <2>2. \A k \in 1 .. 12 : HourStems[1][k] = (k - 1) % 10
    BY DEF HourStems
  <2>3. \A k \in 1 .. 12 : HourStems[2][k] = (k + 1) % 10
    BY DEF HourStems
  <2>4. \A k \in 1 .. 12 : HourStems[3][k] = (k + 3) % 10
    BY DEF HourStems
  <2>5. \A k \in 1 .. 12 : HourStems[4][k] = (k + 5) % 10
    BY DEF HourStems
  <2>6. \A k \in 1 .. 12 : HourStems[5][k] = (k + 7) % 10
    BY DEF HourStems
  <2>7. b + 1 \in 1 .. 12 /\ 1 + (s % 5) \in 1 .. 5
    OBVIOUS
  <2> QED  BY <2>1, <2>2, <2>3, <2>4, <2>5, <2>6, <2>7
<1> QED  BY <1>1, <1>2

(* The ruleset's anchor and the constant put day 0 at the same place.      *)
LEMMA OneOffset == ASSUME NEW r \in BOOLEAN PROVE DayOffset(r) = 49
<1> DEFINE n == 0 - 2419451
           q == 0 - 40325
<1>1. n \in Int /\ q \in Int /\ n = 60 * q + 49
  BY SMT
<1> HIDE DEF n, q
<1>2. n % 60 = 49
  BY <1>1, SMT
<1>3. DayOffset(r) = IF r THEN n % 60 ELSE 49
  BY DEF DayOffset, n
<1> QED  BY <1>2, <1>3

(* An hour before midnight the day of the double hours begins.             *)
LEMMA DayOfDoubleHours ==
    ASSUME NEW w \in Int
    PROVE  /\ (w + 60) \div 1440 = DoubleHours(w) \div 12
           /\ (w + 60) \div 1440 = (w \div 1440) + (IF w % 1440 >= 1380 THEN 1 ELSE 0)
BY SMT DEF DoubleHours

(* Both ways of finding the double hour's branch find the count's.         *)
LEMMA BranchOfDoubleHours ==
    ASSUME NEW w \in Int
    PROVE  /\ BranchOfHour((w % 1440) \div 60) = DoubleHours(w) % 12
           /\ BranchOfApparent(w % 1440) = DoubleHours(w) % 12
BY SMT DEF DoubleHours, BranchOfHour, BranchOfApparent

(* The hour pillar's place in the cycle is the count of double hours.      *)
LEMMA IndexIsCount ==
    ASSUME NEW h \in Int, NEW k \in Int, NEW r \in BOOLEAN
    PROVE  LET day == PillarFromIndex60((k + (h \div 12)) % 60)
           IN  Index60(HourPillar(r, day.stem, h % 12)) = (12 * k + h) % 60
<1> DEFINE d == k + (h \div 12)
           b == h % 12
           s == (d % 60) % 10
<1>0. h \div 12 \in Int /\ b \in 0 .. 11 /\ h = 12 * (h \div 12) + b
  BY SMT
<1>1. d \in Int /\ d % 60 \in 0 .. 59 /\ s \in 0 .. 9
  <2>1. d \in Int
    BY <1>0
  <2> HIDE DEF d
  <2> QED  BY <2>1, SMT
<1>2. HourStem(r, s, b) = (s * 2 + b) % 10
  BY <1>0, <1>1, TableIsFormula
<1>3. PICK j \in Int : (s * 2 + b) % 10 = 2 * d + b - 10 * j
  <2> HIDE DEF d, b
  <2>1. PICK i \in Int : s = d - 10 * i
    <3>1. d = 60 * (d \div 60) + (d % 60) /\ d \div 60 \in Int
      BY <1>1, SMT
    <3>2. d % 60 = 10 * ((d % 60) \div 10) + s /\ (d % 60) \div 10 \in Int
      BY <1>1, SMT
    <3>3. s = d - 10 * (6 * (d \div 60) + ((d % 60) \div 10))
      BY <1>1, <3>1, <3>2, SMT
    <3>4. 6 * (d \div 60) + ((d % 60) \div 10) \in Int
      BY <3>1, <3>2
    <3> WITNESS 6 * (d \div 60) + ((d % 60) \div 10) \in Int
    <3> QED  BY <3>3
  <2> HIDE DEF s
  <2>2. s * 2 + b = 10 * ((s * 2 + b) \div 10) + ((s * 2 + b) % 10)
        /\ (s * 2 + b) \div 10 \in Int
    BY <1>0, <1>1, SMT
  <2>3. (s * 2 + b) % 10 = 2 * d + b - 10 * (2 * i + ((s * 2 + b) \div 10))
    BY <1>0, <1>1, <2>1, <2>2, SMT
  <2>4. 2 * i + ((s * 2 + b) \div 10) \in Int
    BY <2>1, <2>2
  <2> WITNESS 2 * i + ((s * 2 + b) \div 10) \in Int
  <2> QED  BY <2>3
<1>4. 6 * ((s * 2 + b) % 10) - 5 * b = 12 * k + h - 60 * j
  BY <1>0, <1>1, <1>3, SMT
<1>5. (12 * k + h - 60 * j) % 60 = (12 * k + h) % 60
  OBVIOUS
<1>6. Index60(HourPillar(r, s, b)) = (6 * HourStem(r, s, b) - 5 * b) % 60
  BY DEF Index60, HourPillar
<1>7. PillarFromIndex60(d % 60).stem = s
  BY DEF PillarFromIndex60
<1> HIDE DEF d, b, s
<1>8. Index60(HourPillar(r, s, b)) = (12 * k + h) % 60
  BY <1>2, <1>4, <1>5, <1>6
<1> QED  BY <1>7, <1>8 DEF d, b

-----------------------------------------------------------------------------
(* What the places and settings are, and stay.                             *)
Domains ==
    /\ instant \in Births /\ place \in Place /\ instant \in Int
    /\ place \in [at : Int, before : Int, after : Int, longitude : Int, equation : Int]
    /\ standard \in {"CIVIL", "LMT", "TLST"} /\ boundary \in {"midnight", "zi"}
    /\ ruleset \in BOOLEAN

(* Every birth is asked for in its domains.                                *)
LEMMA DomainsInvariant == Spec => []Domains
<1>1. Init => Domains
  BY DayAssumption DEF Init, Domains
<1>2. Domains /\ [Next]_vars => Domains'
  BY DayAssumption DEF Domains, Next, Later, vars, settings
<1> QED  BY <1>1, <1>2, PTL DEF Spec

(* The clocks show numbers.                                                *)
LEMMA ClockTypes ==
    ASSUME Domains
    PROVE  Civil \in Int /\ Mean \in Int /\ Apparent \in Int /\ Chart \in Int
BY DEF Domains, Civil, CivilAt, Mean, Apparent, Chart

(* The chart's day and double hour, for a clock w that shows the time the  *)
(* standard asks for.                                                      *)
LEMMA ApparentDay ==
    ASSUME Domains, standard = "TLST"
    PROVE  /\ DateForDay = Date(DayBoundary(Apparent))
           /\ HourBranch = DoubleHours(Apparent) % 12
<1> DEFINE w == Apparent
<1>1. /\ w \in Int /\ w \div 1440 \in Int /\ Epoch \in Int
      /\ Date(Civil) \in Int /\ Date(w) \in Int
  BY ClockTypes, DayAssumption, SMT DEF Date
<1>2. Date(Chart) + DateRollover = Date(w)
  BY <1>1, SMT DEF Chart, DateRollover
<1>3. DateForDay = Date(w) + (IF boundary = "zi" /\ w % 1440 >= 1380 THEN 1 ELSE 0)
  BY <1>1, <1>2, SMT DEF DateForDay, SolarDate, MinuteOfDay
<1>4. HourBranch = BranchOfApparent(w % 1440)
  BY SMT DEF HourBranch, MinuteOfDay
<1> HIDE DEF w
<1>5. DateForDay = Date(DayBoundary(w))
  <2>1. CASE boundary = "zi"
    <3>1. /\ DateForDay = Date(w) + (IF w % 1440 >= 1380 THEN 1 ELSE 0)
          /\ DayBoundary(w) = w + 60
      BY <1>3, <2>1, SMT DEF DayBoundary
    <3> QED  BY <1>1, <3>1, DayOfDoubleHours, SMT DEF Date
  <2>2. CASE boundary # "zi"
    BY <1>1, <1>3, <2>2, SMT DEF DayBoundary
  <2> QED  BY <2>1, <2>2
<1>6. HourBranch = DoubleHours(w) % 12
  BY <1>1, <1>4, BranchOfDoubleHours, SMT DEF DoubleHours
<1> QED  BY <1>5, <1>6 DEF w

(* The same for local mean time.                                           *)
LEMMA MeanDay ==
    ASSUME Domains, standard = "LMT"
    PROVE  /\ DateForDay = Date(DayBoundary(Mean))
           /\ HourBranch = DoubleHours(Mean) % 12
<1>1. Chart = Mean /\ Mean \in Int
  BY ClockTypes DEF Chart
<1>2. DateForDay = Date(DayBoundary(Mean))
  BY <1>1 DEF DateForDay
<1>3. HourBranch = BranchOfHour((Mean % 1440) \div 60)
  BY <1>1, SMT DEF HourBranch, Hour, MinuteOfDay
<1> QED  BY <1>1, <1>2, <1>3, BranchOfDoubleHours, SMT DEF DoubleHours

(* Under apparent solar time the day and the double hour are those of a    *)
(* clock that shows apparent time, whatever the civil date is.             *)
THEOREM DayFollowsTheSun == BaziSpec => []SunTurnsTheDay
<1>1. Domains => SunTurnsTheDay
  <2> SUFFICES ASSUME Domains PROVE SunTurnsTheDay
    OBVIOUS
  <2>1. Apparent \in Int
    BY ClockTypes
  <2>2. MinuteOfDay(Apparent) = Apparent % 1440
    BY SMT DEF MinuteOfDay
  <2>3. BranchOfHour(MinuteOfDay(Apparent) \div 60) = DoubleHours(Apparent) % 12
    BY <2>1, <2>2, BranchOfDoubleHours, SMT DEF DoubleHours
  <2> QED  BY <2>3, ApparentDay, MeanDay DEF SunTurnsTheDay
<1> QED  BY <1>1, DomainsInvariant, DayPart, PTL

-----------------------------------------------------------------------------
(* Under "zi" both pillars are functions of the count of double hours.     *)
Counted ==
    standard # "CIVIL" /\ boundary = "zi" =>
        LET h == DoubleHours(SolarClock)
        IN  /\ h \in Int /\ HourBranch = h % 12
            /\ DayIndex60 = (Epoch + 49 + (h \div 12)) % 60
            /\ Index60(HourOfBirth) = (12 * (Epoch + 49) + h) % 60

(* The count is all that both pillars depend on.                           *)
LEMMA PillarsCounted == Domains => Counted
<1> SUFFICES ASSUME Domains, standard # "CIVIL", boundary = "zi" PROVE Counted
  BY DEF Counted
<1> DEFINE w == SolarClock
           h == DoubleHours(w)
<1>1. w \in Int /\ h \in Int /\ Epoch \in Int
  BY ClockTypes, DayAssumption, SMT DEF SolarClock, DoubleHours
<1>2. DateForDay = Date(DayBoundary(w)) /\ HourBranch = h % 12
  BY ApparentDay, MeanDay DEF SolarClock, Domains
<1> HIDE DEF w
<1>3. DateForDay = Epoch + (h \div 12)
  <2>1. DateForDay = Epoch + ((w + 60) \div 1440)
    BY <1>2, SMT DEF Date, DayBoundary
  <2> QED  BY <1>1, <2>1, DayOfDoubleHours, SMT
<1> HIDE DEF h
<1>4. DayIndex60 = (Epoch + 49 + (h \div 12)) % 60
  <2>1. DayOffset(ruleset) = 49
    BY OneOffset DEF Domains
  <2> QED  BY <1>1, <1>3, <2>1, SMT DEF DayIndex60
<1>5. Index60(HourOfBirth) = (12 * (Epoch + 49) + h) % 60
  <2>1. HourOfBirth = HourPillar(ruleset, PillarFromIndex60(DayIndex60).stem, h % 12)
    BY <1>2 DEF HourOfBirth, Day
  <2>2. Epoch + 49 \in Int /\ ruleset \in BOOLEAN
    BY <1>1 DEF Domains
  <2> QED  BY <1>1, <1>4, <2>1, <2>2, IndexIsCount
<1> QED  BY <1>1, <1>2, <1>4, <1>5 DEF Counted, h, w

(* From one birth to the next on a solar clock, day and hour move on       *)
(* together through the cycle, without a gap or a repetition.              *)
THEOREM HoursFollowOneAnother == BaziSpec => HoursRunOn
<1>1. Domains /\ Domains' /\ Counted /\ Counted' /\ [Next]_vars => [RunOn]_vars
  <2> SUFFICES ASSUME Domains, Domains', Counted, Counted', Next,
                      standard # "CIVIL", boundary = "zi"
               PROVE  RunOn
    BY DEF RunOn
  <2> DEFINE h == DoubleHours(SolarClock)
             k == Epoch + 49
             c == 12 * k
  <2>1. /\ h \in Int /\ HourBranch = h % 12
        /\ DayIndex60 = (k + (h \div 12)) % 60
        /\ Index60(HourOfBirth) = (c + h) % 60
    BY DEF Counted
  <2>2. /\ h' \in Int /\ HourBranch' = h' % 12
        /\ DayIndex60' = (k + (h' \div 12)) % 60
        /\ Index60(HourOfBirth') = (c + h') % 60
    BY DEF Counted, Next, Later, settings
  <2>3. h' \in {h, h + 1}
    <3>1. SolarClock' = SolarClock + Step /\ SolarClock \in Int /\ Step \in 1 .. 60
      <4>1. Mean' = Mean + Step /\ Apparent' = Apparent + Step
        <5>1. instant' = instant + Step /\ place' = place /\ Step \in Int
          BY DayAssumption DEF Next, Later, settings
        <5> QED  BY <5>1 DEF Domains, Mean, Apparent
      <4> QED  BY <4>1, ClockTypes, DayAssumption DEF SolarClock, Next, Later, settings
    <3> QED  BY <3>1, SMT DEF DoubleHours
  <2>4. k \in Int /\ c \in Int
    BY DayAssumption
  <2> HIDE DEF h, k, c
  <2>5. HoursPassed = h' - h
    BY <2>1, <2>2, <2>3, <2>4, SMT DEF HoursPassed
  <2>6. CASE h' = h
    BY <2>1, <2>2, <2>5, <2>6, SMT DEF RunOn
  <2>7. CASE h' = h + 1
    <3>1. CASE h' % 12 = 0
      <4>1. h' \div 12 = (h \div 12) + 1
        BY <2>1, <2>2, <2>7, <3>1, SMT
      <4> QED  BY <2>1, <2>2, <2>4, <2>5, <2>7, <3>1, <4>1, SMT DEF RunOn
    <3>2. CASE h' % 12 # 0
      <4>1. h' \div 12 = h \div 12
        BY <2>1, <2>2, <2>7, <3>2, SMT
      <4> QED  BY <2>1, <2>2, <2>4, <2>5, <2>7, <3>2, <4>1, SMT DEF RunOn
    <3> QED  BY <3>1, <3>2
  <2> QED  BY <2>3, <2>6, <2>7
<1>2. Domains => Counted
  BY PillarsCounted
<1> QED  BY <1>1, <1>2, DomainsInvariant, DayPart, PTL DEF Spec, HoursRunOn

-----------------------------------------------------------------------------
(* What the calendar shows is always a date.                               *)
LEMMA DateAlways == DaYunSpec => []DateOK /\ [][NextDate]_date
<1>1. Ask => DateOK
  BY YearAssumption DEF Ask, DateOK, CalendarDate
<1>2. DateOK /\ [NextDate]_date => DateOK'
  BY DateStep
<1>3. [AskNextDay]_dayunVars => [NextDate]_date
  BY DEF AskNextDay, dayunVars
<1> QED  BY <1>1, <1>2, <1>3, PTL DEF DaYunSpec

(* The day pillar moves on by one place every day, with the ruleset and    *)
(* without it, over leap days, the ends of years and the centuries.        *)
THEOREM DayRunsOn == BaziSpec => DayByDay
<1>1. DateOK /\ [NextDate]_date =>
         [\A r \in BOOLEAN : DateIndex60(r, date') = (DateIndex60(r, date) + 1) % 60]_date
  <2> SUFFICES ASSUME DateOK, NextDate, NEW r \in BOOLEAN
               PROVE  DateIndex60(r, date') = (DateIndex60(r, date) + 1) % 60
    OBVIOUS
  <2>1. Jdn(date) \in Int /\ Jdn(date') = Jdn(date) + 1
    BY JdnInt, NextIsOneDay DEF DateOK
  <2>2. DayOffset(r) \in Int
    BY SMT DEF DayOffset
  <2> QED  BY <2>1, <2>2, Successor60 DEF DateIndex60
<1> QED  BY <1>1, DateAlways, LifePart, PTL DEF DayByDay

-----------------------------------------------------------------------------
(* A place in the cycle has a stem and a branch of one polarity.           *)
LEMMA PillarOfIndex ==
    ASSUME NEW i \in 0 .. 59
    PROVE  /\ PillarFromIndex60(i) \in Pillar
           /\ PillarFromIndex60(i).stem \in 0 .. 9
           /\ PillarFromIndex60(i).stem % 2 = PillarFromIndex60(i).branch % 2
BY SMT DEF PillarFromIndex60, Pillar

(* So has an hour, and a month, whatever day or year it is in.             *)
LEMMA PillarOfHour ==
    ASSUME NEW r \in BOOLEAN, NEW s \in 0 .. 9, NEW b \in 0 .. 11
    PROVE  /\ HourPillar(r, s, b) \in Pillar
           /\ HourPillar(r, s, b).stem % 2 = HourPillar(r, s, b).branch % 2
<1>1. HourPillar(r, s, b) = [stem |-> (s * 2 + b) % 10, branch |-> b]
  BY TableIsFormula DEF HourPillar
<1>2. (s * 2 + b) % 10 \in 0 .. 9 /\ ((s * 2 + b) % 10) % 2 = b % 2
  BY SMT
<1> QED  BY <1>1, <1>2 DEF Pillar

LEMMA PillarOfMonth ==
    ASSUME NEW r \in BOOLEAN, NEW s \in 0 .. 9, NEW m \in 0 .. 11
    PROVE  /\ MonthPillar(r, s, m) \in Pillar
           /\ MonthPillar(r, s, m).stem % 2 = MonthPillar(r, s, m).branch % 2
<1>1. MonthPillar(r, s, m) = [stem |-> (s * 2 + 2 + m) % 10, branch |-> (2 + m) % 12]
  BY MonthTableIsFormula DEF MonthPillar
<1>2. /\ (s * 2 + 2 + m) % 10 \in 0 .. 9 /\ (2 + m) % 12 \in 0 .. 11
      /\ ((s * 2 + 2 + m) % 10) % 2 = ((2 + m) % 12) % 2
  BY SMT
<1> QED  BY <1>1, <1>2 DEF Pillar

-----------------------------------------------------------------------------
(* The parts of the assumptions on the sun and the calendar.               *)
LEMMA JieInOrder ==
    ASSUME NEW i \in JieIndex, NEW j \in JieIndex
    PROVE  Jie(i) \in Int /\ (i < j => Jie(i) < Jie(j))
BY MonthAssumption

LEMMA JieApart ==
    ASSUME NEW i \in JieIndex, i + 1 \in JieIndex
    PROVE  Jie(i) + 1440 < Jie(i + 1)
<1>1. Jie(i) + ADay < Jie(i + 1)
  BY SpanAssumption, Zenon
<1> QED  BY <1>1 DEF ADay

LEMMA BirthInSpan ==
    ASSUME NEW u \in Births
    PROVE  NewYear(BaseYear + 1) + 1440 <= u /\ u + 1440 < NewYear(BaseYear + Years)
<1>1. NewYear(BaseYear + 1) + ADay <= u /\ u + ADay < NewYear(BaseYear + Years)
  BY SpanAssumption, Zenon
<1> QED  BY <1>1 DEF ADay

LEMMA NewYearInWinter ==
    ASSUME NEW n \in 1 .. Years
    PROVE  /\ NewYear(BaseYear + n) \in Int
           /\ 12 * n \in JieIndex /\ 12 * n - 1 \in JieIndex /\ 12 * n - 2 \in JieIndex
           /\ Jie(12 * n - 2) < NewYear(BaseYear + n)
           /\ NewYear(BaseYear + n) < Jie(12 * n - 1)
BY MonthAssumption DEF JieIndex

LEMMA YearsInOrder ==
    ASSUME NEW i \in 1 .. Years, NEW j \in 1 .. Years, i < j
    PROVE  NewYear(BaseYear + i) < NewYear(BaseYear + j)
<1>1. 12 * i - 1 < 12 * j - 2 /\ Years \in Nat
  BY MonthAssumption
<1>2. Jie(12 * i - 1) < Jie(12 * j - 2) /\ Jie(12 * i - 1) \in Int /\ Jie(12 * j - 2) \in Int
  BY <1>1, JieInOrder, NewYearInWinter
<1> QED  BY <1>2, NewYearInWinter

(* The chart's clock is within a day of the instant.                       *)
LEMMA NearSum ==
    ASSUME NEW u \in Int, NEW o \in (-1440) .. 1440
    PROVE  u + o \in Int /\ u - 1440 <= u + o /\ u + o <= u + 1440
OBVIOUS

LEMMA ClockNear ==
    ASSUME Domains
    PROVE  Chart \in Int /\ instant - 1440 <= Chart /\ Chart <= instant + 1440
<1>1. place \in Place /\ instant \in Int
  BY DEF Domains
<1>2. \/ Chart = instant + place.longitude
      \/ Chart = instant + place.before
      \/ Chart = instant + place.after
  BY DEF Chart, Mean, Civil, CivilAt
<1>3. \E o \in (-ADay) .. ADay : Chart = instant + o
  <2>1. /\ place.before \in (-ADay) .. ADay
        /\ place.after \in (-ADay) .. ADay
        /\ place.longitude \in (-ADay) .. ADay
    BY <1>1, SpanAssumption
  <2> QED  BY <1>2, <2>1, Zenon
<1> QED  BY <1>1, <1>3, NearSum DEF ADay

(* Apart from the hour that is repeated, the chart's clock puts an instant *)
(* and the time of birth in their order.                                   *)
LEMMA ClockInOrder ==
    ASSUME Domains, ~Repeated, NEW u \in Int
    PROVE  /\ OnChart(u) \in Int
           /\ (OnChart(u) <= Chart) <=> (u <= instant)
<1>1. /\ instant \in Int /\ place.at \in Int /\ place.longitude \in Int
      /\ place.before \in Int /\ place.after \in Int
  BY DEF Domains
<1>2. CASE standard = "LMT"
  BY <1>1, <1>2 DEF OnChart, Chart, Mean
<1>3. CASE standard # "LMT"
  <2>1. /\ Chart = instant + (IF instant < place.at THEN place.before ELSE place.after)
        /\ OnChart(u) = u + (IF u < place.at THEN place.before ELSE place.after)
    BY <1>3 DEF OnChart, Chart, Civil, CivilAt
  <2>2. \/ place.after >= place.before
        \/ instant < place.at - (place.before - place.after)
        \/ instant >= place.at + (place.before - place.after)
    BY <1>1, <1>3 DEF Repeated
  <2> QED  BY <1>1, <2>1, <2>2
<1> QED  BY <1>2, <1>3

(* A year is searched for its own LiChun.                                  *)
LEMMA LiChunOfYear ==
    ASSUME NEW n \in 0 .. Years
    PROVE  LiChunIndex(BaseYear + n) = 12 * n
<1>0. Years \in Nat /\ n \in Nat
  BY MonthAssumption
<1>1. NewYear(BaseYear + n) \in Int /\ Jie(12 * n) \in Int
  BY MonthAssumption, <1>0, JieInOrder DEF JieIndex
<1>2. Jie(12 * n) >= NewYear(BaseYear + n)
  <2>1. CASE n = 0
    BY <2>1, MonthAssumption, <1>1
  <2>2. CASE n # 0
    <3>1. Jie(12 * n - 1) < Jie(12 * n) /\ Jie(12 * n - 1) \in Int
      <4>1. n \in 1 .. Years /\ 12 * n - 1 < 12 * n
        BY <2>2, <1>0
      <4> QED  BY <4>1, NewYearInWinter, JieInOrder
    <3> QED  BY <2>2, <3>1, <1>0, <1>1, NewYearInWinter
  <2> QED  BY <2>1, <2>2
<1>3. ASSUME NEW m \in 0 .. n - 1 PROVE Jie(12 * m) < NewYear(BaseYear + n)
  <2>1. n \in 1 .. Years /\ 12 * m \in JieIndex /\ 12 * m < 12 * n - 2
    BY <1>0 DEF JieIndex
  <2>2. Jie(12 * m) < Jie(12 * n - 2) /\ Jie(12 * m) \in Int /\ Jie(12 * n - 2) \in Int
    BY <2>1, NewYearInWinter, JieInOrder
  <2> QED  BY <1>1, <2>1, <2>2, NewYearInWinter
<1> DEFINE First(k) == /\ Jie(12 * k) >= NewYear(BaseYear + n)
                       /\ \A m \in 0 .. k - 1 : Jie(12 * m) < NewYear(BaseYear + n)
           first == CHOOSE k \in 0 .. Years : First(k)
<1>4. First(n)
  BY <1>2, <1>3
<1>5. first \in 0 .. Years /\ First(first)
  BY <1>4
<1>6. ASSUME NEW k \in 0 .. Years, First(k) PROVE k = n
  <2>1. CASE k < n
    <3>1. k \in 0 .. n - 1
      BY <1>0, <2>1
    <3>2. Jie(12 * k) \in Int
      BY <1>0, JieInOrder DEF JieIndex
    <3> QED  BY <1>1, <1>3, <1>6, <3>1, <3>2
  <2>2. CASE n < k
    <3>1. n \in 0 .. k - 1
      BY <1>0, <2>2
    <3> QED  BY <1>1, <1>2, <1>6, <3>1
  <2> QED  BY <1>0, <2>1, <2>2
<1>7. first = n
  BY <1>5, <1>6
<1> QED  BY <1>7 DEF LiChunIndex

(* The chart's year is one of those between the first and the last.        *)
LEMMA YearOfChart ==
    ASSUME Domains
    PROVE  \E n \in 1 .. Years - 1 :
              /\ ChartYear = BaseYear + n
              /\ NewYear(BaseYear + n) <= Chart /\ Chart < NewYear(BaseYear + n + 1)
<1>0. Years \in Nat \ {0} /\ BaseYear \in Nat
  BY MonthAssumption
<1>1. NewYear(BaseYear + 1) <= Chart /\ Chart < NewYear(BaseYear + Years)
  <2>1. /\ NewYear(BaseYear + 1) + 1440 <= instant
        /\ instant + 1440 < NewYear(BaseYear + Years) /\ instant \in Int
    BY BirthInSpan DEF Domains
  <2>2. NewYear(BaseYear + 1) \in Int /\ NewYear(BaseYear + Years) \in Int
    BY <1>0, NewYearInWinter
  <2> QED  BY <2>1, <2>2, ClockNear
<1> DEFINE S == {k \in 1 .. Years : Chart < NewYear(BaseYear + k)}
<1>2. PICK m \in S : \A k \in S : m <= k
  <2>1. S \in SUBSET Nat /\ Years \in S
    BY <1>0, <1>1
  <2> QED  BY <2>1, LeastNumber
<1>3. m \in 2 .. Years
  BY <1>0, <1>1, <1>2, NewYearInWinter, ClockNear
<1> DEFINE n == m - 1
<1>4. n \in 1 .. Years - 1 /\ n \in 1 .. Years /\ n + 1 = m /\ BaseYear + n + 1 = BaseYear + m
  BY <1>0, <1>3
<1>5. NewYear(BaseYear + n) <= Chart /\ Chart < NewYear(BaseYear + n + 1)
  <2>1. ~(n \in S)
    BY <1>2, <1>3, <1>4
  <2> QED  BY <1>2, <1>4, <2>1, NewYearInWinter, ClockNear
<1>6. ASSUME NEW y \in BaseYear .. BaseYear + Years, NewYear(y) <= Chart, Chart < NewYear(y + 1)
      PROVE  y = BaseYear + n
  <2> DEFINE k == y - BaseYear
  <2>1. k \in 0 .. Years /\ y = BaseYear + k /\ y + 1 = BaseYear + (k + 1)
    BY <1>0
  <2> HIDE DEF k
  <2>2. CASE k < n
    <3>1. k + 1 \in 1 .. Years /\ (k + 1 = n \/ k + 1 < n)
      BY <1>0, <1>4, <2>1, <2>2
    <3>2. NewYear(BaseYear + (k + 1)) <= NewYear(BaseYear + n)
      BY <3>1, <1>4, YearsInOrder, NewYearInWinter
    <3> QED  BY <3>1, <3>2, <1>4, <1>5, <1>6, <2>1, NewYearInWinter, ClockNear
  <2>3. CASE n < k
    <3>1. k \in 1 .. Years /\ (n + 1 = k \/ n + 1 < k) /\ n + 1 \in 1 .. Years
      BY <1>0, <1>4, <2>1, <2>3
    <3>2. NewYear(BaseYear + (n + 1)) <= NewYear(BaseYear + k)
      BY <3>1, YearsInOrder, NewYearInWinter
    <3>3. NewYear(BaseYear + n + 1) <= NewYear(y)
      <4>1. BaseYear + n + 1 = BaseYear + (n + 1)
        BY <1>0, <1>4
      <4> QED  BY <3>2, <4>1, <2>1
    <3>4. NewYear(BaseYear + n + 1) \in Int /\ NewYear(y) \in Int
      BY <1>4, <2>1, <3>1, NewYearInWinter
    <3> HIDE DEF n
    <3> QED  BY <3>3, <3>4, <1>5, <1>6, ClockNear
  <2> QED  BY <1>4, <2>1, <2>2, <2>3
<1>7. ChartYear = BaseYear + n
  <2>1. BaseYear + n \in BaseYear .. BaseYear + Years
    BY <1>0, <1>4
  <2> HIDE DEF n
  <2> QED  BY <1>5, <1>6, <2>1 DEF ChartYear
<1> QED  BY <1>4, <1>5, <1>7

(* The year of a birth is that of the last LiChun before it.               *)
LEMMA SunsYear ==
    ASSUME Domains, ~Repeated
    PROVE  \E m \in 0 .. Years - 1 :
              /\ SolarYear = BaseYear + m
              /\ Jie(12 * m) <= instant /\ instant < Jie(12 * m + 12)
<1>0. Years \in Nat \ {0} /\ BaseYear \in Nat /\ instant \in Int
  BY MonthAssumption DEF Domains
<1>1. PICK n \in 1 .. Years - 1 :
        /\ ChartYear = BaseYear + n
        /\ NewYear(BaseYear + n) <= Chart /\ Chart < NewYear(BaseYear + n + 1)
  BY YearOfChart
<1>2. /\ n \in 1 .. Years /\ n + 1 \in 1 .. Years /\ n \in 0 .. Years
      /\ BaseYear + n + 1 = BaseYear + (n + 1) /\ 12 * (n + 1) = 12 * n + 12
      /\ BaseYear + n - 1 = BaseYear + (n - 1) /\ 12 * (n - 1) = 12 * n - 12
      /\ n - 1 \in 0 .. Years - 1 /\ 12 * (n - 1) + 12 = 12 * n
  BY <1>0
<1>3. /\ 12 * n \in JieIndex /\ 12 * n + 12 \in JieIndex /\ 12 * n + 11 \in JieIndex
      /\ 12 * n - 12 \in JieIndex /\ 12 * n - 3 \in JieIndex /\ 12 * n - 2 \in JieIndex
  BY <1>0, <1>2 DEF JieIndex
<1>4. LiChun(ChartYear) = OnChart(Jie(12 * n)) /\ Jie(12 * n) \in Int
  BY <1>1, <1>2, <1>3, LiChunOfYear, JieInOrder DEF LiChun
<1>5. (LiChun(ChartYear) <= Chart) <=> (Jie(12 * n) <= instant)
  BY <1>4, ClockInOrder
<1>6. LiChun(ChartYear) \in Int
  BY <1>4, ClockInOrder
<1>7. CASE Jie(12 * n) <= instant
  <2>1. SolarYear = BaseYear + n
    BY <1>1, <1>5, <1>6, <1>7, ClockNear DEF SolarYear
  <2>2. instant < Jie(12 * n + 12)
    <3>1. Chart < Jie(12 * n + 11)
      <4>1. /\ NewYear(BaseYear + (n + 1)) < Jie(12 * (n + 1) - 1)
            /\ NewYear(BaseYear + (n + 1)) \in Int
        BY <1>2, NewYearInWinter
      <4>2. 12 * (n + 1) - 1 = 12 * n + 11
        BY <1>2
      <4>3. Jie(12 * n + 11) \in Int
        BY <1>3, JieInOrder
      <4> QED  BY <1>1, <1>2, <4>1, <4>2, <4>3, ClockNear
    <3>2. Jie(12 * n + 11) + 1440 < Jie(12 * n + 12)
      <4>1. 12 * n + 11 + 1 = 12 * n + 12
        BY <1>2
      <4> QED  BY <1>3, <4>1, JieApart
    <3> QED  BY <1>0, <1>3, <3>1, <3>2, JieInOrder, ClockNear
  <2>3. n \in 0 .. Years - 1
    BY <1>0, <1>2
  <2> QED  BY <1>7, <2>1, <2>2, <2>3
<1>8. CASE ~(Jie(12 * n) <= instant)
  <2>1. SolarYear = BaseYear + (n - 1)
    <3>1. Chart < LiChun(ChartYear)
      BY <1>5, <1>6, <1>8, ClockNear
    <3>2. SolarYear = ChartYear - 1
      BY <3>1 DEF SolarYear
    <3>3. SolarYear = BaseYear + n - 1
      BY <1>0, <1>1, <3>2
    <3> QED  BY <1>2, <3>3
  <2>2. Jie(12 * n - 12) <= instant
    <3>1. Jie(12 * n - 3) + 1440 < Jie(12 * n - 2)
      <4>1. 12 * n - 3 + 1 = 12 * n - 2
        BY <1>2
      <4> QED  BY <1>3, <4>1, JieApart
    <3>2. Jie(12 * n - 2) < NewYear(BaseYear + n) /\ NewYear(BaseYear + n) \in Int
      BY <1>2, NewYearInWinter
    <3>3. Jie(12 * n - 12) < Jie(12 * n - 3)
      <4>1. 12 * n - 12 < 12 * n - 3
        BY <1>2
      <4> QED  BY <1>3, <4>1, JieInOrder
    <3>4. Jie(12 * n - 12) \in Int /\ Jie(12 * n - 3) \in Int /\ Jie(12 * n - 2) \in Int
      BY <1>3, JieInOrder
    <3> QED  BY <1>0, <1>1, <3>1, <3>2, <3>3, <3>4, ClockNear
  <2>3. instant < Jie(12 * n)
    BY <1>0, <1>4, <1>8
  <2> DEFINE m == n - 1
  <2>4. /\ m \in 0 .. Years - 1 /\ SolarYear = BaseYear + m
        /\ Jie(12 * m) <= instant /\ instant < Jie(12 * m + 12)
    BY <1>2, <2>1, <2>2, <2>3
  <2> HIDE DEF m
  <2> QED  BY <2>4
<1> QED  BY <1>7, <1>8

(* The jie that have passed are counted by the last of them.               *)
LEMMA PassedByLast ==
    ASSUME instant \in Int, NEW p \in JieIndex, p + 1 \in JieIndex,
           Jie(p) <= instant, instant < Jie(p + 1)
    PROVE  Passed = p
<1>0. p \in Nat /\ Years \in Nat
  BY MonthAssumption DEF JieIndex
<1>1. {i \in JieIndex : Jie(i) <= instant} = 0 .. p
  <2>1. ASSUME NEW i \in JieIndex, Jie(i) <= instant PROVE i \in 0 .. p
    <3>1. CASE p + 1 <= i
      <4>1. p + 1 = i \/ p + 1 < i
        BY <1>0, <3>1 DEF JieIndex
      <4> QED  BY <2>1, <4>1, JieInOrder
    <3> QED  BY <1>0, <3>1 DEF JieIndex
  <2>2. ASSUME NEW i \in 0 .. p PROVE i \in JieIndex /\ Jie(i) <= instant
    <3>1. i \in JieIndex /\ (i = p \/ i < p)
      BY <1>0 DEF JieIndex
    <3> QED  BY <3>1, JieInOrder
  <2> QED  BY <2>1, <2>2
<1>2. Cardinality(0 .. p) = p + 1
  <2>1. 0 \in Int /\ p \in Int /\ ~(0 > p)
    BY <1>0
  <2>2. Cardinality(0 .. p) = p - 0 + 1
    BY <2>1, FS_Interval, Zenon
  <2> QED  BY <1>0, <2>2
<1>3. Passed = Cardinality(0 .. p) - 1
  BY <1>1, Zenon DEF Passed
<1> QED  BY <1>0, <1>2, <1>3

(* The least number of a set, as the engine's loop finds it.               *)
LEMMA FirstOfSet ==
    ASSUME NEW ks \in SUBSET (0 .. 11), NEW otherwise \in 0 .. 11
    PROVE  /\ FirstOr(ks, otherwise) \in 0 .. 11
           /\ \A q \in 0 .. 11 : ks = {q} => FirstOr(ks, otherwise) = q
           /\ ks = {} => FirstOr(ks, otherwise) = otherwise
<1>1. CASE ks = {}
  BY <1>1 DEF FirstOr
<1>2. CASE ks # {}
  <2>1. \E m \in ks : \A k \in ks : m <= k
    BY <1>2, LeastNumber
  <2>2. FirstOr(ks, otherwise) \in ks
    BY <1>2, <2>1 DEF FirstOr
  <2>3. \A q \in 0 .. 11 : ks = {q} => FirstOr(ks, otherwise) = q
    BY <2>2
  <2>4. FirstOr(ks, otherwise) \in 0 .. 11
    BY <2>2
  <2> QED  BY <1>2, <2>3, <2>4
<1> QED  BY <1>1, <1>2

(* The month is the one between the bounds of which the birth lies,        *)
(* wherever the second search for LiChun ended.                            *)
LEMMA SunsMonth ==
    ASSUME Domains, ~Repeated, jitter \in Int, NEW m \in 0 .. Years - 1, NEW q \in 0 .. 11,
           solarYear = BaseYear + m,
           Jie(12 * m + q) <= instant, instant < Jie(12 * m + q + 1)
    PROVE  MonthIndex = q
<1>0. Years \in Nat \ {0} /\ m \in 0 .. Years /\ instant \in Int
  BY MonthAssumption DEF Domains
<1> DEFINE first == LiChunIndex(solarYear)
           Bound(k) == OnChart(Jie(first + k) + (IF k = 12 THEN jitter ELSE 0))
<1>1. first = 12 * m
  BY <1>0, LiChunOfYear
<1>2. ASSUME NEW k \in 0 .. 11
      PROVE  /\ Bound(k) \in Int
             /\ (Bound(k) <= Chart) <=> (k <= q)
  <2>1. Jie(12 * m + k) \in Int /\ 12 * m + k \in JieIndex
    BY <1>0, JieInOrder DEF JieIndex
  <2>2. Bound(k) = OnChart(Jie(12 * m + k))
    BY <1>1, <2>1
  <2>3. (Jie(12 * m + k) <= instant) <=> (k <= q)
    <3>1. 12 * m + q \in JieIndex /\ 12 * m + q + 1 \in JieIndex
      BY <1>0 DEF JieIndex
    <3>2. CASE k <= q
      <4>1. 12 * m + k = 12 * m + q \/ 12 * m + k < 12 * m + q
        BY <1>0, <3>2
      <4> QED  BY <1>0, <2>1, <3>1, <3>2, <4>1, JieInOrder
    <3>3. CASE q < k
      <4>1. 12 * m + q + 1 = 12 * m + k \/ 12 * m + q + 1 < 12 * m + k
        BY <1>0, <3>3
      <4> QED  BY <1>0, <2>1, <3>1, <3>3, <4>1, JieInOrder
    <3> QED  BY <3>2, <3>3
  <2> QED  BY <2>1, <2>2, <2>3, ClockInOrder
<1>3. Months = {k \in 0 .. 11 : Bound(k) <= Chart /\ Chart < Bound(k + 1)}
  BY DEF Months
<1> HIDE DEF Bound, first
<1>4. Months \in SUBSET (0 .. 11)
  BY <1>3
<1>5. ASSUME NEW k \in Months PROVE k = q
  <2>1. k \in 0 .. 11 /\ k <= q /\ Chart < Bound(k + 1)
    BY <1>2, <1>3
  <2>2. CASE k < q
    <3>1. k + 1 \in 0 .. 11 /\ k + 1 <= q
      BY <2>1, <2>2
    <3> QED  BY <1>2, <2>1, <3>1, ClockNear
  <2> QED  BY <2>1, <2>2
<1>6. q < 11 => q \in Months
  <2> SUFFICES ASSUME q < 11 PROVE q \in Months
    OBVIOUS
  <2>1. q + 1 \in 0 .. 11 /\ ~(q + 1 <= q)
    OBVIOUS
  <2>2. Bound(q) <= Chart /\ Chart < Bound(q + 1)
    BY <1>2, <2>1, ClockNear
  <2> QED  BY <1>3, <2>2
<1>7. Months = {q} \/ (Months = {} /\ q = 11)
  BY <1>5, <1>6
<1>8. MonthIndex = FirstOr(Months, 11)
  BY DEF MonthIndex
<1>9. CASE Months = {q}
  <2>1. FirstOr(Months, 11) = q
    BY <1>4, <1>9, FirstOfSet
  <2> QED  BY <1>8, <2>1
<1>10. CASE Months = {} /\ q = 11
  <2>1. FirstOr(Months, 11) = 11
    BY <1>4, <1>10, FirstOfSet
  <2> QED  BY <1>8, <1>10, <2>1
<1> QED  BY <1>7, <1>9, <1>10

-----------------------------------------------------------------------------
(* What the engine answers is what it computes of the birth asked for.     *)
Answered == jitter \in Int /\ solarYear = SolarYear /\ monthIndex = MonthIndex

LEMMA AnsweredAlways == BaziSpec => []Answered
<1>1. ChartInit => Answered
  BY MonthAssumption DEF ChartInit, Answered
<1>2. Answered /\ [ChartNext]_allVars => Answered'
  <2> SUFFICES ASSUME Answered, [ChartNext]_allVars PROVE Answered'
    OBVIOUS
  <2>1. CASE ChartNext
    BY <2>1 DEF Answered, ChartNext
  <2>2. CASE UNCHANGED allVars
    <3>1. SolarYear' = SolarYear
      BY <2>2 DEF allVars, vars, SolarYear, ChartYear, LiChun, OnChart, CivilAt, Chart, Mean,
         Civil
    <3>2. Months' = Months
      BY <2>2 DEF allVars, vars, Months, OnChart, CivilAt, Chart, Mean, Civil
    <3> QED  BY <2>2, <3>1, <3>2 DEF allVars, Answered, MonthIndex
  <2> QED  BY <2>1, <2>2
<1> QED  BY <1>1, <1>2, ChartPart, PTL DEF ChartSpec

(* Year and month of every birth outside the repeated hour are those of    *)
(* the jie passed at its instant, for every course of the sun and every    *)
(* outcome of the second search for LiChun.                                *)
THEOREM MonthsBySun == BaziSpec => []MonthsFollowTheSun
<1>1. Domains /\ Answered => MonthsFollowTheSun
  <2> SUFFICES ASSUME Domains, Answered, ~Repeated PROVE ByTheSun
    BY DEF MonthsFollowTheSun
  <2>0. Years \in Nat \ {0} /\ instant \in Int /\ jitter \in Int
    BY MonthAssumption DEF Domains, Answered
  <2>1. PICK m \in 0 .. Years - 1 :
          /\ solarYear = BaseYear + m
          /\ Jie(12 * m) <= instant /\ instant < Jie(12 * m + 12)
    BY SunsYear DEF Answered
  <2> DEFINE S == {k \in 1 .. 12 : instant < Jie(12 * m + k)}
  <2>2. PICK k \in S : \A j \in S : k <= j
    <3>1. 12 \in S
      BY <2>1
    <3> QED  BY <3>1, LeastNumber
  <2> DEFINE q == k - 1
             p == 12 * m + q
  <2>3. /\ q \in 0 .. 11 /\ p + 1 = 12 * m + k
        /\ p \in JieIndex /\ p + 1 \in JieIndex
    BY <2>0, <2>2 DEF JieIndex
  <2>4. Jie(p) <= instant
    <3>1. CASE q = 0
      <4>1. p = 12 * m
        BY <2>0, <3>1
      <4> QED  BY <2>1, <4>1
    <3>2. CASE q # 0
      <4>1. q \in 1 .. 12 /\ ~(q \in S)
        BY <2>2, <2>3, <3>2
      <4> QED  BY <2>0, <2>3, <4>1, JieInOrder
    <3> QED  BY <3>1, <3>2
  <2>5. instant < Jie(p + 1)
    BY <2>2, <2>3
  <2> HIDE DEF S
  <2>6. monthIndex = q
    <3>1. p + 1 = 12 * m + q + 1
      BY <2>0, <2>3
    <3> HIDE DEF q
    <3> QED  BY <2>0, <2>1, <2>3, <2>4, <2>5, <3>1, SunsMonth DEF Answered
  <2>7. Passed = p
    <3> HIDE DEF p
    <3> QED  BY <2>0, <2>3, <2>4, <2>5, PassedByLast
  <2>8. p \div 12 = m /\ p % 12 = q
    <3> HIDE DEF q
    <3> QED  BY <2>0, <2>3
  <2> QED  BY <2>1, <2>6, <2>7, <2>8 DEF ByTheSun
<1> QED  BY <1>1, DomainsInvariant, DayPart, AnsweredAlways, PTL

-----------------------------------------------------------------------------
(* Every pillar of every chart is one of the sixty, in the hour that is    *)
(* repeated too; the same with the ruleset and without it; and the trace   *)
(* derives the same day and double hour.                                   *)
THEOREM PillarsSound == BaziSpec => []PillarsOK
<1>1. Domains /\ Answered => PillarsOK
  <2> SUFFICES ASSUME Domains, Answered PROVE PillarsOK
    OBVIOUS
  <2>0. /\ Epoch \in Int /\ Years \in Nat /\ BaseYear \in Nat /\ ruleset \in BOOLEAN
        /\ Apparent \in Int /\ Civil \in Int /\ Mean \in Int /\ Chart \in Int
    BY MonthAssumption, DayAssumption, ClockTypes DEF Domains
  <2>1. DateForDay \in Int /\ DayOffset(ruleset) = 49 /\ DayOffset(TRUE) = 49 /\ DayOffset(FALSE) = 49
    <3>1. \A w \in Int : Date(w) \in Int
      BY <2>0, SMT DEF Date
    <3>2. SolarDate \in Int /\ DayBoundary(Chart) \in Int
      BY <2>0, <3>1 DEF SolarDate, DateRollover, DayBoundary
    <3> QED  BY <2>0, <3>1, <3>2, OneOffset DEF DateForDay
  <2>2. DayIndex60 \in 0 .. 59 /\ TraceIndex60 = DayIndex60
    <3>1. DayIndex60 = (DateForDay + 49) % 60 /\ TraceIndex60 = (DateForDay + 49) % 60
      BY <2>1 DEF DayIndex60, TraceIndex60
    <3> QED  BY <2>1, <3>1
  <2>3. Day \in Pillar /\ Day.stem \in 0 .. 9 /\ Day.stem % 2 = Day.branch % 2
    BY <2>2, PillarOfIndex DEF Day
  <2>4. HourBranch \in 0 .. 11 /\ HourBranch = BranchOfHour(TraceHour)
    <3>1. CASE standard = "TLST"
      <4> DEFINE hour == (Apparent % 1440) \div 60
                 minute == Apparent % 1440
                 branch == DoubleHours(Apparent) % 12
      <4>1. HourBranch = BranchOfApparent(minute) /\ TraceHour = hour
        BY <3>1 DEF HourBranch, TraceHour, Hour, MinuteOfDay
      <4>2. branch \in 0 .. 11
        BY <2>0, SMT DEF DoubleHours
      <4>3. BranchOfHour(hour) = branch /\ BranchOfApparent(minute) = branch
        BY <2>0, BranchOfDoubleHours, SMT DEF DoubleHours
      <4> HIDE DEF hour, minute, branch
      <4> QED  BY <4>1, <4>2, <4>3
    <3>2. CASE standard # "TLST"
      <4> DEFINE hour == (Chart % 1440) \div 60
                 minute == Chart % 1440
                 branch == DoubleHours(Chart) % 12
      <4>1. HourBranch = BranchOfHour(hour) /\ TraceHour = hour
        BY <3>2 DEF HourBranch, TraceHour, Hour, MinuteOfDay
      <4>2. branch \in 0 .. 11
        BY <2>0, SMT DEF DoubleHours
      <4>3. BranchOfHour(hour) = branch /\ BranchOfApparent(minute) = branch
        BY <2>0, BranchOfDoubleHours, SMT DEF DoubleHours
      <4> HIDE DEF hour, minute, branch
      <4> QED  BY <4>1, <4>2, <4>3
    <3> QED  BY <3>1, <3>2
  <2>5. TypeOK
    BY <2>0, <2>3, <2>4, PillarOfHour DEF TypeOK, HourOfBirth, Domains
  <2>6. FallbackAgrees
    BY <2>1, <2>3, <2>4, TableIsFormula DEF FallbackAgrees, HourPillar
  <2>7. TraceExplains
    BY <2>2, <2>4 DEF TraceExplains, Day
  <2>8. solarYear \in Nat
    BY <2>0, YearOfChart DEF Answered, SolarYear
  <2>9. monthIndex \in 0 .. 11
    <3>1. Months \in SUBSET (0 .. 11)
      BY DEF Months
    <3> QED  BY <3>1, FirstOfSet DEF Answered, MonthIndex
  <2>10. Year \in Pillar /\ Year.stem \in 0 .. 9 /\ Year.stem % 2 = Year.branch % 2
    <3>1. (solarYear - 1984) % 60 \in 0 .. 59
      BY <2>8
    <3> QED  BY <3>1, PillarOfIndex DEF Year, YearPillar
  <2>11. Month \in Pillar /\ Month.stem % 2 = Month.branch % 2
    BY <2>0, <2>9, <2>10, PillarOfMonth DEF Month
  <2> QED  BY <2>3, <2>5, <2>6, <2>7, <2>8, <2>9, <2>10, <2>11 DEF PillarsOK
<1> QED  BY <1>1, DomainsInvariant, DayPart, AnsweredAlways, PTL

-----------------------------------------------------------------------------
(* What a birth asked about is (ChartsOK), field by field.                 *)
BirthOK ==
    /\ birth \in Charts
    /\ birth.y \in Nat /\ birth.m \in 1 .. 12 /\ birth.d \in 1 .. DaysIn(birth.y, birth.m)
    /\ birth.minute \in Nat /\ birth.minute < 1440
    /\ birth.offset \in Int /\ -840 <= birth.offset /\ birth.offset <= 840
    /\ birth.terms \subseteq Int
    /\ (\E u \in birth.terms : u < 0) /\ (\E u \in birth.terms : u > 0)
    /\ birth.month \in Pillar /\ birth.month.stem % 2 = birth.month.branch % 2

(* What an answer consists of.                                             *)
LifeInv ==
    /\ DateOK /\ BirthOK
    /\ decades = Decades \/ decades = <<>>
    /\ reply = "ok" => decades = Decades
    /\ current = Current

LEMMA LifeAlways == BaziSpec => []LifeInv
<1>1. Ask => LifeInv
  <2> SUFFICES ASSUME Ask PROVE LifeInv
    OBVIOUS
  <2>1. DateOK
    BY YearAssumption DEF Ask, DateOK, CalendarDate
  <2>2. BirthOK
    BY LifeAssumption DEF Ask, BirthOK, ChartsOK
  <2> QED  BY <2>1, <2>2 DEF Ask, LifeInv
<1>2. LifeInv /\ DateOK' /\ [AskNextDay]_dayunVars => LifeInv'
  <2> SUFFICES ASSUME LifeInv, DateOK', [AskNextDay]_dayunVars PROVE LifeInv'
    OBVIOUS
  <2>1. UNCHANGED <<birth, request, decades, reply>>
    BY DEF AskNextDay, dayunVars
  <2>2. BirthOK'
    BY <2>1 DEF LifeInv, BirthOK
  <2>3. Decades' = Decades
    BY <2>1 DEF Decades, PillarAt, Age, RealYears, Rest, Clamped, StartAge, Until, Forward
  <2>4. current' = Current'
    <3>1. CASE AskNextDay
      BY <3>1 DEF AskNextDay
    <3>2. CASE UNCHANGED dayunVars
      <4>1. Current' = Current
        BY <3>2 DEF dayunVars, Current, Brackets, Lived
      <4> QED  BY <3>2, <4>1 DEF dayunVars, LifeInv
    <3> QED  BY <3>1, <3>2
  <2> QED  BY <2>1, <2>2, <2>3, <2>4 DEF LifeInv
<1> QED  BY <1>1, <1>2, DateAlways, LifePart, PTL DEF DaYunSpec

(* There is a solar term on either side of the birth, at a distance that   *)
(* makes the start age a number of years from 0 to 120.                    *)
LEMMA AgeAtStart == ASSUME BirthOK PROVE StartAge \in Nat /\ StartAge <= 518400
<1>1. Until \in Nat
  <2>1. CASE Forward
    <3> DEFINE S == {u \in birth.terms : u > 0}
    <3>1. S \in SUBSET Nat /\ S # {}
      BY DEF BirthOK
    <3>2. PICK u \in S : \A v \in S : u <= v
      BY <3>1, LeastNumber
    <3>3. Until \in S
      BY <2>1, <3>2 DEF Until
    <3> QED  BY <3>1, <3>3
  <2>2. CASE ~Forward
    <3> DEFINE S == {w \in Nat : w > 0 /\ 0 - w \in birth.terms}
               Last(u) == u < 0 /\ \A v \in birth.terms : v < 0 => v <= u
    <3>1. S \in SUBSET Nat /\ S # {}
      <4>1. PICK u \in birth.terms : u < 0
        BY DEF BirthOK
      <4>2. u \in Int /\ 0 - u \in Nat /\ 0 - (0 - u) = u /\ 0 - u > 0
        BY <4>1 DEF BirthOK
      <4> QED  BY <4>1, <4>2
    <3>2. PICK w \in S : \A v \in S : w <= v
      BY <3>1, LeastNumber
    <3>3. Last(0 - w) /\ 0 - w \in birth.terms
      <4>1. ASSUME NEW v \in birth.terms, v < 0 PROVE v <= 0 - w
        <5>1. v \in Int /\ 0 - v \in Nat /\ 0 - (0 - v) = v /\ 0 - v > 0
          BY <4>1 DEF BirthOK
        <5>2. 0 - v \in S
          BY <4>1, <5>1
        <5> QED  BY <3>2, <5>1, <5>2
      <4> QED  BY <3>2, <4>1
    <3> DEFINE last == CHOOSE u \in birth.terms : Last(u)
    <3>4. last \in birth.terms /\ last < 0
      BY <3>3
    <3>5. Until = 0 - last
      BY <2>2 DEF Until
    <3>6. 0 - last \in Nat
      <4>1. last \in Int /\ last < 0
        BY <3>4 DEF BirthOK
      <4> HIDE DEF last
      <4> QED  BY <4>1
    <3> HIDE DEF last
    <3> QED  BY <3>5, <3>6, Zenon
  <2> QED  BY <2>1, <2>2
<1> QED  BY <1>1, SMT DEF StartAge

-----------------------------------------------------------------------------
(* The place a pillar is found at is its own.                              *)
LEMMA IndexOfPillar ==
    ASSUME NEW p \in Pillar, p.stem % 2 = p.branch % 2
    PROVE  Index60(p) \in 0 .. 59 /\ PillarFromIndex60(Index60(p)) = p
<1> DEFINE s == p.stem
           b == p.branch
           i == (6 * s - 5 * b) % 60
<1>1. s \in 0 .. 9 /\ b \in 0 .. 11 /\ s % 2 = b % 2 /\ p = [stem |-> s, branch |-> b]
  BY DEF Pillar
<1>2. Index60(p) = i
  BY DEF Index60
<1> HIDE DEF s, b
<1>3. i \in 0 .. 59 /\ i % 10 = s /\ i % 12 = b
  BY <1>1, SMT
<1> HIDE DEF i
<1> QED  BY <1>1, <1>2, <1>3 DEF PillarFromIndex60

(* The pillar at the next place has the next stem and the next branch.     *)
After(p) == [stem |-> (p.stem + 1) % 10, branch |-> (p.branch + 1) % 12]

LEMMA NextPillar ==
    ASSUME NEW j \in Int
    PROVE  PillarFromIndex60((j + 1) % 60) = After(PillarFromIndex60(j % 60))
<1>1. /\ ((j + 1) % 60) % 10 = (((j % 60) % 10) + 1) % 10
      /\ ((j + 1) % 60) % 12 = (((j % 60) % 12) + 1) % 12
  BY SMT
<1> QED  BY <1>1 DEF PillarFromIndex60, After

(* The decades take up the month pillar and pass it on.                    *)
LEMMA PillarsPassedOn ==
    ASSUME BirthOK, decades = Decades
    PROVE  PillarsContinue
<1> DEFINE i == Index60(birth.month)
           At(n) == PillarFromIndex60((i + (IF Forward THEN n ELSE 0 - n)) % 60)
<1>1. i \in 0 .. 59 /\ PillarFromIndex60(i) = birth.month
  BY IndexOfPillar DEF BirthOK
<1>2. Cycles \in Nat
  BY LifeAssumption DEF RequestsOK
<1>3. DOMAIN decades = 1 .. Cycles /\ \A n \in 1 .. Cycles : decades[n].pillar = At(n)
  BY DEF Decades, PillarAt
<1> HIDE DEF i
<1>4. ASSUME NEW n \in 1 .. Cycles PROVE PillarBefore(n) = At(n - 1)
  <2>1. CASE n = 1
    <3>1. At(n - 1) = PillarFromIndex60(i % 60) /\ i % 60 = i
      BY <1>1, <2>1
    <3> QED  BY <1>1, <2>1, <3>1 DEF PillarBefore
  <2>2. CASE n # 1
    <3>1. n - 1 \in 1 .. Cycles
      BY <1>2, <2>2
    <3> QED  BY <1>3, <2>2, <3>1 DEF PillarBefore
  <2> QED  BY <2>1, <2>2
<1>5. ASSUME NEW n \in 1 .. Cycles
      PROVE  IF Forward THEN At(n) = After(At(n - 1)) ELSE At(n - 1) = After(At(n))
  <2>1. CASE Forward
    <3>1. i + (n - 1) \in Int /\ i + (n - 1) + 1 = i + n
      BY <1>1
    <3> QED  BY <2>1, <3>1, NextPillar
  <2>2. CASE ~Forward
    <3>1. i + (0 - n) \in Int /\ i + (0 - n) + 1 = i + (0 - (n - 1))
      BY <1>1
    <3> QED  BY <2>2, <3>1, NextPillar
  <2> QED  BY <2>1, <2>2
<1> HIDE DEF At
<1> QED  BY <1>3, <1>4, <1>5 DEF PillarsContinue, After

-----------------------------------------------------------------------------
(* Ten years have one to three leap days.                                  *)
LEMMA LeapDaysOfDecade ==
    ASSUME NEW y \in Nat
    PROVE  /\ LeapDays(y) \in Int /\ LeapDays(y + 10) \in Int
           /\ LeapDays(y + 10) - LeapDays(y) \in 1 .. 3
<1> DEFINE a == y \div 4
           b == y \div 100
           c == y \div 400
           p == (y + 10) \div 4
           q == (y + 10) \div 100
           r == (y + 10) \div 400
<1>1. a \in Int /\ p \in Int /\ p - a \in {2, 3}
  BY SMT
<1>2. b \in Int /\ q \in Int /\ q - b \in {0, 1}
  BY SMT
<1>3. c \in Int /\ r \in Int /\ r - c \in {0, 1}
  BY SMT
<1>4. r - c = 1 => q - b = 1
  BY SMT
<1>5. LeapDays(y) = a - b + c /\ LeapDays(y + 10) = p - q + r
  BY DEF LeapDays
<1> HIDE DEF a, b, c, p, q, r
<1>6. a - b + c \in Int /\ p - q + r \in Int /\ (p - q + r) - (a - b + c) \in 1 .. 3
  BY <1>1, <1>2, <1>3, <1>4
<1> QED  BY <1>5, <1>6

(* From one birthday to that of another year there are 365 days a year and *)
(* the leap days of years counted from some other year; a birth on a leap  *)
(* day is no exception.                                                    *)
LEMMA Birthdays ==
    ASSUME BirthOK
    PROVE  \E c \in Int, e \in Nat :
              /\ \A y \in Nat : Jdn(Clamped(y)) = c + 365 * y + LeapDays(y + e)
              /\ Jdn(birth) = c + 365 * birth.y + LeapDays(birth.y + e)
<1>1. /\ birth.y \in Nat /\ birth.m \in 1 .. 12
      /\ birth.d \in 1 .. DaysIn(birth.y, birth.m) /\ DaysIn(birth.y, birth.m) \in 28 .. 31
  BY DaysInMonth DEF BirthOK
<1>2. birth.d \in 1 .. 31
  BY <1>1
<1>3. Jdn(birth) = Jdn(Clamped(birth.y))
  <2>1. birth.m = 2 /\ birth.d = 29 => Leap(birth.y)
    BY <1>1 DEF DaysIn
  <2>2. Clamped(birth.y) = [y |-> birth.y, m |-> birth.m, d |-> birth.d]
    BY <2>1 DEF Clamped
  <2> QED  BY <2>2 DEF Jdn, Shifted
<1> DEFINE LeapBirth == birth.m = 2 /\ birth.d = 29
           day == IF LeapBirth THEN 28 ELSE birth.d
           month == IF birth.m <= 2 THEN birth.m + 9 ELSE birth.m - 3
           before == (153 * month + 2) \div 5
           e == IF birth.m <= 2 /\ ~LeapBirth THEN 4799 ELSE 4800
           c == day + before + 365 * (IF birth.m <= 2 THEN 4799 ELSE 4800) - 32045
<1>4. before \in Int /\ day \in Int
  BY <1>1, <1>2
<1>5. c \in Int /\ e \in Nat
  BY <1>4
<1>6. ASSUME NEW y \in Nat PROVE Jdn(Clamped(y)) = c + 365 * y + LeapDays(y + e)
  <2> DEFINE d == IF LeapBirth /\ ~Leap(y) THEN 28 ELSE birth.d
  <2>0. Clamped(y) = [y |-> y, m |-> birth.m, d |-> d] /\ Clamped(y) \in CalendarDate /\ d \in Int
    BY <1>1, <1>2 DEF Clamped, CalendarDate
  <2>1. LeapDays(y + 4799) \in Int /\ LeapDays(y + 4800) \in Int
        /\ LeapDays(y + 4800) = LeapDays(y + 4799) + (IF Leap(y) THEN 1 ELSE 0)
    <3>1. y + 4799 \in Nat /\ y + 4800 \in Nat /\ y + 4799 + 1 = y + 4800
      OBVIOUS
    <3> QED  BY <3>1, LeapDaysGrow, LeapInEra
  <2>2. CASE birth.m <= 2
    <3>1. Jdn(Clamped(y)) = d + before + 365 * (y + 4799) + LeapDays(y + 4799) - 32045
      <4>1. y + 4800 - 1 = y + 4799
        OBVIOUS
      <4> QED  BY <2>0, <2>2, <4>1, JdnFromMarch
    <3>2. CASE LeapBirth
      <4>1. d = 28 + (IF Leap(y) THEN 1 ELSE 0) /\ day = 28 /\ e = 4800
        BY <3>2
      <4> HIDE DEF before
      <4> QED  BY <1>4, <2>1, <2>2, <3>1, <4>1
    <3>3. CASE ~LeapBirth
      <4>1. d = birth.d /\ day = birth.d /\ e = 4799
        BY <2>2, <3>3
      <4> HIDE DEF before, LeapBirth
      <4> QED  BY <1>2, <1>4, <2>1, <2>2, <3>1, <4>1
    <3> QED  BY <3>2, <3>3
  <2>3. CASE ~(birth.m <= 2)
    <3>1. Jdn(Clamped(y)) = d + before + 365 * (y + 4800) + LeapDays(y + 4800) - 32045
      <4>1. y + 4800 - 0 = y + 4800
        OBVIOUS
      <4> QED  BY <2>0, <2>3, <4>1, JdnFromMarch
    <3>2. ~LeapBirth /\ d = birth.d /\ day = birth.d /\ e = 4800
      BY <1>1, <2>3
    <3> HIDE DEF before, LeapBirth
    <3> QED  BY <1>2, <1>4, <2>1, <2>3, <3>1, <3>2
  <2> QED  BY <2>2, <2>3
<1> HIDE DEF c, e
<1>7. Jdn(birth) = c + 365 * birth.y + LeapDays(birth.y + e)
  BY <1>1, <1>3, <1>6
<1> USE <1>5
<1> WITNESS c \in Int, e \in Nat
<1> QED  BY <1>6, <1>7

(* The years of a decade's start, and the minutes of its last year.        *)
YearsTo(n) == 10 * n + (StartAge \div 4320)

LEMMA YearsToDecade ==
    ASSUME BirthOK, NEW n \in Nat
    PROVE  /\ YearsTo(n) \in Nat /\ YearsTo(n + 1) = YearsTo(n) + 10
           /\ Rest \in Nat
           /\ RealYears(n) = Jdn(Clamped(birth.y + YearsTo(n))) + ((birth.minute + Rest) \div 1440)
<1>1. StartAge \in Nat
  BY AgeAtStart
<1>2. birth.y \in Nat
  BY DEF BirthOK
<1> DEFINE a == StartAge \div 4320
           r == StartAge % 4320
<1>3. a \in Nat /\ r \in Nat
  BY <1>1, SMT
<1>4. Rest = 121 * r + ((7475 * r) \div 10000)
  BY DEF Rest
<1>5. birth.y + 10 * n + a = birth.y + YearsTo(n)
  <2> HIDE DEF a
  <2>1. birth.y + 10 * n + a = birth.y + (10 * n + a)
    BY <1>2, <1>3
  <2> QED  BY <2>1 DEF YearsTo, a
<1>6. RealYears(n) = Jdn(Clamped(birth.y + YearsTo(n))) + ((birth.minute + Rest) \div 1440)
  BY <1>5 DEF RealYears
<1>7. YearsTo(n) = 10 * n + a /\ YearsTo(n + 1) = 10 * (n + 1) + a
  BY DEF YearsTo
<1> HIDE DEF a, r
<1>8. Rest \in Nat
  BY <1>3, <1>4, SMT
<1>9. YearsTo(n) \in Nat /\ YearsTo(n + 1) = YearsTo(n) + 10
  BY <1>3, <1>7, SMT
<1> QED  BY <1>6, <1>8, <1>9

(* The dates of the decades meet, ten calendar years apart.                *)
LEMMA DatesMeet ==
    ASSUME BirthOK, decades = Decades
    PROVE  DecadesMeet
<1>1. Cycles \in Nat
  BY LifeAssumption DEF RequestsOK
<1>2. /\ DOMAIN decades = 1 .. Cycles
      /\ \A n \in 1 .. Cycles : /\ decades[n].dateFrom = RealYears(n - 1)
                                /\ decades[n].dateTo = RealYears(n)
  BY DEF Decades
<1>3. ASSUME NEW n \in 1 .. Cycles
      PROVE  RealYears(n) - RealYears(n - 1) \in 3651 .. 3653
  <2>1. PICK c \in Int, e \in Nat :
          /\ \A y \in Nat : Jdn(Clamped(y)) = c + 365 * y + LeapDays(y + e)
          /\ Jdn(birth) = c + 365 * birth.y + LeapDays(birth.y + e)
    BY Birthdays
  <2> DEFINE y == birth.y + YearsTo(n - 1)
             k == (birth.minute + Rest) \div 1440
  <2>2. n - 1 \in Nat /\ n - 1 + 1 = n
    BY <1>1
  <2>3. y \in Nat /\ y + 10 = birth.y + YearsTo(n) /\ y + 10 + e = y + e + 10 /\ y + e \in Nat
    <3>1. birth.y \in Nat
      BY DEF BirthOK
    <3>2. YearsTo(n - 1) \in Nat /\ YearsTo(n) = YearsTo(n - 1) + 10
      BY <2>2, YearsToDecade
    <3> QED  BY <3>1, <3>2
  <2>4. k \in Int
    <3>1. birth.minute \in Nat /\ Rest \in Nat
      BY <2>2, YearsToDecade DEF BirthOK
    <3> QED  BY <3>1, SMT
  <2>5. RealYears(n - 1) = Jdn(Clamped(y)) + k /\ RealYears(n) = Jdn(Clamped(y + 10)) + k
    <3>1. n \in Nat
      BY <1>1
    <3> QED  BY <2>2, <2>3, <3>1, YearsToDecade
  <2> HIDE DEF y, k
  <2>6. /\ Jdn(Clamped(y)) = c + 365 * y + LeapDays(y + e)
        /\ Jdn(Clamped(y + 10)) = c + 365 * (y + 10) + LeapDays(y + e + 10)
    BY <2>1, <2>3
  <2>7. /\ LeapDays(y + e) \in Int /\ LeapDays(y + e + 10) \in Int
        /\ LeapDays(y + e + 10) - LeapDays(y + e) \in 1 .. 3
    BY <2>3, LeapDaysOfDecade
  <2> QED  BY <2>3, <2>4, <2>5, <2>6, <2>7
<1>4. ASSUME NEW n \in 1 .. Cycles, n > 1
      PROVE  decades[n - 1].dateTo = decades[n].dateFrom
  BY <1>1, <1>2, <1>4
<1> QED  BY <1>2, <1>3, <1>4 DEF DecadesMeet

(* The decades of every life run on, in either direction: the pillars from *)
(* the month pillar through the cycle of sixty, the dates without a gap,   *)
(* ten calendar years each, from leap days and over centuries.             *)
THEOREM LifeRunsOn == BaziSpec => []DecadesRunOn
<1>1. LifeInv => DecadesRunOn
  <2> SUFFICES ASSUME LifeInv PROVE DecadesRunOn
    OBVIOUS
  <2>1. CASE decades = Decades
    BY <2>1, PillarsPassedOn, DatesMeet DEF LifeInv, DecadesRunOn
  <2>2. CASE decades = <<>>
    BY <2>2 DEF DecadesRunOn, PillarsContinue, DecadesMeet
  <2> QED  BY <2>1, <2>2 DEF LifeInv
<1> QED  BY <1>1, LifeAlways, PTL

-----------------------------------------------------------------------------
(* The first minutes of the decades, by age, are equally far apart: they   *)
(* are rounded alike.                                                      *)
FirstMinute == MinuteOf(Age(0))
DecadeLength == 5259492

LEMMA FirstMinutes ==
    ASSUME BirthOK, NEW n \in Nat
    PROVE  FirstMinute \in Nat /\ MinuteOf(Age(n)) = FirstMinute + DecadeLength * n
<1> DEFINE a == (100 * StartAge + 2160) \div 4320
           m == (492 * a + 999) \div 1000
<1>1. a \in Nat
  BY AgeAtStart, SMT
<1>2. Age(0) = 1000 * 0 + a /\ Age(n) = 1000 * n + a
  BY DEF Age
<1> HIDE DEF a
<1>3. m \in Nat /\ (492 * (1000 * n + a) + 999) \div 1000 = m + 492 * n
  BY <1>1, SMT
<1>4. FirstMinute = 5259 * a + m
  BY <1>1, <1>2, SMT DEF FirstMinute, MinuteOf
<1>5. MinuteOf(Age(n)) = 5259 * (1000 * n + a) + m + 492 * n
  BY <1>1, <1>2, <1>3, SMT DEF MinuteOf
<1> HIDE DEF m
<1> QED  BY <1>1, <1>3, <1>4, <1>5, SMT DEF DecadeLength

(* What has been lived until the day asked about, and the day's number.    *)
LEMMA LivedInMinutes ==
    ASSUME DateOK, BirthOK
    PROVE  Jdn(date) \in Int /\ Jdn(birth) \in Int /\ Lived \in Int
<1>1. Jdn(date) \in Int
  BY JdnInt DEF DateOK
<1>2. Jdn(birth) \in Int
  <2>1. PICK c \in Int, e \in Nat :
          /\ \A y \in Nat : Jdn(Clamped(y)) = c + 365 * y + LeapDays(y + e)
          /\ Jdn(birth) = c + 365 * birth.y + LeapDays(birth.y + e)
    BY Birthdays
  <2>2. birth.y \in Nat /\ birth.y + e \in Nat
    BY DEF BirthOK
  <2>3. LeapDays(birth.y + e) \in Int
    BY <2>2, LeapDaysGrow
  <2> QED  BY <2>1, <2>2, <2>3
<1>3. birth.minute \in Nat /\ birth.offset \in Int
  BY DEF BirthOK
<1> QED  BY <1>1, <1>2, <1>3 DEF Lived

(* The current decade is counted off: how many lengths of a decade have    *)
(* passed since the first minute of the first.                             *)
Since == Lived - FirstMinute
CountedOff ==
    /\ FirstMinute \in Nat /\ Lived \in Int /\ Jdn(date) \in Int
    /\ decades = Decades =>
          current = IF 0 <= Since /\ Since < DecadeLength * Cycles
                    THEN (Since \div DecadeLength) + 1 ELSE 0

LEMMA DecadeCountedOff == LifeInv => CountedOff
<1> SUFFICES ASSUME LifeInv PROVE CountedOff
  OBVIOUS
<1>0. Cycles \in Nat
  BY LifeAssumption DEF RequestsOK
<1>1. FirstMinute \in Nat /\ Lived \in Int /\ Jdn(date) \in Int /\ Since \in Int
  BY FirstMinutes, LivedInMinutes DEF LifeInv, Since
<1>2. ASSUME decades = Decades
      PROVE  current = IF 0 <= Since /\ Since < DecadeLength * Cycles
                       THEN (Since \div DecadeLength) + 1 ELSE 0
  <2>1. DOMAIN decades = 1 .. Cycles
    BY <1>2 DEF Decades
  <2>2. ASSUME NEW n \in 1 .. Cycles
        PROVE  Brackets(n) <=> (DecadeLength * (n - 1) <= Since /\ Since < DecadeLength * n)
    <3>1. decades[n].from = Age(n - 1) /\ decades[n].to = Age(n)
      BY <1>2, <2>1 DEF Decades
    <3>2. n - 1 \in Nat /\ n \in Nat
      BY <1>0
    <3>3. /\ MinuteOf(decades[n].from) = FirstMinute + DecadeLength * (n - 1)
          /\ MinuteOf(decades[n].to) = FirstMinute + DecadeLength * n
      BY <3>1, <3>2, FirstMinutes DEF LifeInv
    <3> QED  BY <1>1, <3>2, <3>3 DEF Brackets, Since, DecadeLength
  <2> DEFINE First(n) == Brackets(n) /\ \A k \in 1 .. n - 1 : ~Brackets(k)
  <2>3. CASE 0 <= Since /\ Since < DecadeLength * Cycles
    <3> DEFINE q == (Since \div DecadeLength) + 1
    <3>1. /\ q \in 1 .. Cycles
          /\ DecadeLength * (q - 1) <= Since /\ Since < DecadeLength * q
      BY <1>0, <1>1, <2>3, SMT DEF DecadeLength
    <3>2. Lived >= 0
      BY <1>1, <2>3 DEF Since
    <3> HIDE DEF q
    <3>3. ASSUME NEW n \in 1 .. Cycles, Brackets(n) PROVE n = q
      <4>1. DecadeLength * (n - 1) <= Since /\ Since < DecadeLength * n
        BY <2>2, <3>3
      <4> QED  BY <1>0, <1>1, <3>1, <4>1, SMT DEF DecadeLength
    <3>4. Brackets(q)
      BY <2>2, <3>1
    <3>5. First(q)
      BY <1>0, <3>1, <3>3, <3>4
    <3>6. Current = CHOOSE n \in DOMAIN decades : First(n)
      BY <2>1, <3>1, <3>2, <3>4 DEF Current
    <3>7. Current = q
      BY <2>1, <3>1, <3>3, <3>5, <3>6
    <3> QED  BY <2>3, <3>7 DEF LifeInv, q
  <2>4. CASE ~(0 <= Since /\ Since < DecadeLength * Cycles)
    <3>1. ASSUME NEW n \in 1 .. Cycles PROVE ~Brackets(n)
      <4>1. n - 1 \in Nat /\ n <= Cycles
        BY <1>0
      <4> QED  BY <1>0, <1>1, <2>2, <2>4, <4>1, SMT DEF DecadeLength
    <3>2. Current = 0
      BY <2>1, <3>1 DEF Current
    <3> QED  BY <2>4, <3>2 DEF LifeInv
  <2> QED  BY <2>3, <2>4
<1> QED  BY <1>1, <1>2 DEF CountedOff

(* Day by day the current decade moves on by one, for every life: none is  *)
(* skipped, none comes back and none is missing between two.               *)
THEOREM DecadesFollow == BaziSpec => OneAfterAnother
<1>1. LifeInv /\ LifeInv' /\ CountedOff /\ CountedOff' /\ [AskNextDay]_dayunVars
         => [MovesOn]_dayunVars
  <2> SUFFICES ASSUME LifeInv, LifeInv', CountedOff, CountedOff', AskNextDay PROVE MovesOn
    OBVIOUS
  <2>0. Cycles \in 1 .. 12
    BY LifeAssumption DEF RequestsOK
  <2>1. /\ reply = "ok" /\ UNCHANGED <<birth, request, decades, reply>>
        /\ Jdn(date') = Jdn(date) + 1
    BY NextIsOneDay DEF AskNextDay, LifeInv
  <2>2. decades = Decades /\ decades' = Decades'
    BY <2>1 DEF LifeInv
  <2>3. FirstMinute' = FirstMinute
    BY <2>1 DEF FirstMinute, MinuteOf, Age, StartAge, Until, Forward
  <2>4. Lived' = Lived + 1440
    <3>1. Jdn(date) \in Int /\ Jdn(birth) \in Int /\ birth.minute \in Nat /\ birth.offset \in Int
      <4>1. DateOK /\ BirthOK
        BY DEF LifeInv
      <4>2. Jdn(date) \in Int /\ Jdn(birth) \in Int
        BY <4>1, LivedInMinutes
      <4> QED  BY <4>1, <4>2 DEF BirthOK
    <3>2. Lived' = (Jdn(date') - Jdn(birth)) * 1440 - (birth.minute - birth.offset)
      <4>1. Jdn(birth') = Jdn(birth)
        BY <2>1
      <4> QED  BY <2>1, <4>1 DEF Lived
    <3> QED  BY <2>1, <3>1, <3>2 DEF Lived
  <2>5. /\ Since \in Int /\ Since' = Since + 1440
        /\ current = IF 0 <= Since /\ Since < DecadeLength * Cycles
                     THEN (Since \div DecadeLength) + 1 ELSE 0
        /\ current' = IF 0 <= Since' /\ Since' < DecadeLength * Cycles
                      THEN (Since' \div DecadeLength) + 1 ELSE 0
    BY <2>2, <2>3, <2>4 DEF CountedOff, Since
  <2>6. CASE 0 <= Since /\ Since < DecadeLength * Cycles
    <3> DEFINE q == Since \div DecadeLength
    <3>1. /\ q \in Int /\ DecadeLength * q <= Since /\ Since < DecadeLength * (q + 1)
          /\ 0 <= q /\ q < Cycles
      BY <2>0, <2>5, <2>6, SMT DEF DecadeLength
    <3>2. current = q + 1
      BY <2>5, <2>6
    <3>3. CASE Since' < DecadeLength * (q + 1)
      <4>1. Since' \div DecadeLength = q
        BY <2>5, <3>1, <3>3, SMT DEF DecadeLength
      <4> QED  BY <2>0, <2>5, <2>6, <3>1, <3>2, <3>3, <4>1, SMT DEF MovesOn, DecadeLength
    <3>4. CASE ~(Since' < DecadeLength * (q + 1))
      <4>1. Since' \div DecadeLength = q + 1
        BY <2>5, <3>1, <3>4, SMT DEF DecadeLength
      <4> QED  BY <2>0, <2>5, <2>6, <3>1, <3>2, <3>4, <4>1, SMT DEF MovesOn, DecadeLength
    <3> QED  BY <3>3, <3>4
  <2>7. CASE ~(0 <= Since /\ Since < DecadeLength * Cycles)
    <3>1. current = 0
      BY <2>5, <2>7
    <3>2. current' \in {0, 1}
      BY <2>0, <2>5, <2>7, SMT DEF DecadeLength
    <3> QED  BY <3>1, <3>2 DEF MovesOn
  <2> QED  BY <2>6, <2>7
<1>2. LifeInv => CountedOff
  BY DecadeCountedOff
<1> QED  BY <1>1, <1>2, LifeAlways, LifePart, PTL DEF DaYunSpec, OneAfterAnother

-----------------------------------------------------------------------------
(* A week after the date a decade starts on its age has been reached, and  *)
(* a week before it has not: six days at most to either side.              *)
LEMMA DatesNearAges ==
    ASSUME DateOK, BirthOK, NEW n \in Nat
    PROVE  /\ RealYears(n) + 6 <= Jdn(date) => DecadeLength * n <= Since
           /\ Jdn(date) < RealYears(n) - 6 => Since < DecadeLength * n
<1>1. PICK c \in Int, e \in Nat :
        /\ \A y \in Nat : Jdn(Clamped(y)) = c + 365 * y + LeapDays(y + e)
        /\ Jdn(birth) = c + 365 * birth.y + LeapDays(birth.y + e)
  BY Birthdays
<1> DEFINE b == birth.y
           years == YearsTo(n)
           before == LeapDays(b + e)
           after == LeapDays(b + years + e)
           whole == StartAge \div 4320
           rest == StartAge % 4320
           age == (100 * StartAge + 2160) \div 4320
           day == (birth.minute + Rest) \div 1440
<1>2. /\ Jdn(date) \in Int /\ Jdn(birth) \in Int /\ b \in Nat /\ years \in Nat
      /\ Rest \in Nat /\ StartAge \in Nat /\ FirstMinute \in Nat
      /\ birth.minute \in Nat /\ birth.minute < 1440
      /\ birth.offset \in Int /\ -840 <= birth.offset /\ birth.offset <= 840
  BY LivedInMinutes, YearsToDecade, AgeAtStart, FirstMinutes DEF BirthOK
<1>3. /\ before \in Int /\ after \in Int
      /\ 2425 * years - 21975 <= 10000 * (after - before)
      /\ 10000 * (after - before) <= 2425 * years + 21975
  <2>1. b + e \in Nat /\ b + years + e \in Nat
    BY <1>2
  <2>2. /\ before \in Int
        /\ 2425 * (b + e) - 14775 <= 10000 * before /\ 10000 * before <= 2425 * (b + e) + 7200
    <3> HIDE DEF b
    <3> QED  BY <2>1, LeapDrift
  <2>3. /\ after \in Int
        /\ 2425 * (b + years + e) - 14775 <= 10000 * after
        /\ 10000 * after <= 2425 * (b + years + e) + 7200
    <3> HIDE DEF b, years
    <3> QED  BY <2>1, LeapDrift
  <2> HIDE DEF before, after, years, b
  <2> QED  BY <1>2, <2>2, <2>3, SMT
<1>4. /\ RealYears(n) = c + 365 * (b + years) + after + day
      /\ Jdn(birth) = c + 365 * b + before
  <2>1. b + years \in Nat
    BY <1>2
  <2>2. RealYears(n) = Jdn(Clamped(b + years)) + day
    BY YearsToDecade
  <2>3. Jdn(Clamped(b + years)) = c + 365 * (b + years) + after
    BY <1>1, <2>1
  <2> QED  BY <1>1, <2>2, <2>3
<1>5. day \in Int /\ 1440 * day <= birth.minute + Rest /\ birth.minute + Rest < 1440 * day + 1440
  BY <1>2, SMT
<1>6. /\ whole \in Int /\ rest \in Int /\ StartAge = 4320 * whole + rest
      /\ years = 10 * n + whole
  BY <1>2, SMT DEF YearsTo
<1>7. 10000 * Rest <= 1217475 * rest /\ 1217475 * rest <= 10000 * Rest + 9999
  <2>1. Rest = 121 * rest + ((7475 * rest) \div 10000)
    BY DEF Rest
  <2> HIDE DEF rest
  <2> QED  BY <1>6, <2>1, SMT
<1>8. age \in Int /\ 4320 * age <= 100 * StartAge + 2160 /\ 100 * StartAge + 2160 < 4320 * age + 4320
  BY <1>2, SMT
<1>9. 5259492 * age <= 1000 * FirstMinute /\ 1000 * FirstMinute <= 5259492 * age + 999
  <2>1. Age(0) = 1000 * 0 + age
    BY DEF Age
  <2> HIDE DEF age
  <2>2. FirstMinute = 5259 * age + ((492 * age + 999) \div 1000)
    BY <1>8, <2>1, SMT DEF FirstMinute, MinuteOf
  <2> QED  BY <1>8, <2>2, SMT
<1>10. Since = (Jdn(date) - Jdn(birth)) * 1440 - (birth.minute - birth.offset) - FirstMinute
  BY DEF Since, Lived
<1> HIDE DEF b, years, before, after, whole, rest, age, day
<1>11. ASSUME RealYears(n) + 6 <= Jdn(date) PROVE DecadeLength * n <= Since
  BY <1>2, <1>3, <1>4, <1>5, <1>6, <1>7, <1>8, <1>9, <1>10, <1>11, SMTT(60) DEF DecadeLength
<1>12. ASSUME Jdn(date) < RealYears(n) - 6 PROVE Since < DecadeLength * n
  BY <1>2, <1>3, <1>4, <1>5, <1>6, <1>7, <1>8, <1>9, <1>10, <1>12, SMTT(60) DEF DecadeLength
<1> QED  BY <1>11, <1>12

(* For every birth and every day the current decade is the one the dates   *)
(* say, but for six days at either end.                                    *)
THEOREM CurrentByItsDates == BaziSpec => []CurrentNearDates
<1>1. LifeInv /\ CountedOff => CurrentNearDates
  <2> SUFFICES ASSUME LifeInv, CountedOff, NEW n \in DOMAIN decades,
                      decades[n].dateFrom + 6 <= Jdn(date), Jdn(date) < decades[n].dateTo - 6
               PROVE  current = n
    BY DEF CurrentNearDates, CurrentByDate
  <2>1. Cycles \in Nat
    BY LifeAssumption DEF RequestsOK
  <2>2. decades = Decades
    <3>1. decades # <<>>
      OBVIOUS
    <3> QED  BY <3>1 DEF LifeInv
  <2>3. /\ n \in 1 .. Cycles /\ n - 1 \in Nat /\ n \in Nat
        /\ decades[n].dateFrom = RealYears(n - 1) /\ decades[n].dateTo = RealYears(n)
    BY <2>1, <2>2 DEF Decades
  <2>4. DecadeLength * (n - 1) <= Since /\ Since < DecadeLength * n
    BY <2>3, DatesNearAges DEF LifeInv
  <2>5. Since \in Int
    BY DEF CountedOff, Since
  <2>6. /\ Since \div DecadeLength = n - 1
        /\ 0 <= Since /\ Since < DecadeLength * Cycles
    BY <2>1, <2>3, <2>4, <2>5, SMT DEF DecadeLength
  <2> QED  BY <2>2, <2>3, <2>6 DEF CountedOff
<1> QED  BY <1>1, DecadeCountedOff, LifeAlways, PTL
=============================================================================
