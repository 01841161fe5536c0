----------------------------- MODULE Zwds_proofs -----------------------------
(***************************************************************************)
(* That the lunisolar calendar and the charts drawn on it are sound, in    *)
(* every frame, for every course of the Moon and of the Sun within the     *)
(* assumptions, and for every range of years.                              *)
(*                                                                         *)
(* Days and lunations: the search is given an instant on either side of    *)
(* which the new moons are known, so that it can answer one lunation only. *)
(* From the end of a day that is the lunation that owns the day or, if a   *)
(* new moon follows within the margin, the one after it, whose first day   *)
(* is the next day; a day back from there the search cannot fail again.    *)
(*                                                                         *)
(* The span from one winter solstice to the next: its days are 365 or 366, *)
(* so it is twelve or thirteen lunations (TwelveOrThirteen).  Of thirteen, *)
(* one has no term: the lunations would else have more terms than there    *)
(* are, by the least lunation that has fallen behind (OneHasNoTerm).       *)
(* That decides the leap month, the first month and all the numbers        *)
(* (MonthsOfSpan), and with the first day of the first month between two   *)
(* Januaries the year: the date of a day is written out (LunarDateIn).     *)
(*                                                                         *)
(* From one day to the next: inside a span by its numbers; where one span  *)
(* ends and the next begins both give the month of the solstice, month 11, *)
(* the same date (SpansMeet).                                              *)
(*                                                                         *)
(* A chart: the palaces stand on the twelve branches, one on each, so      *)
(* what is looked up by branch is found once; the element of the bureau    *)
(* goes by pairs of stems and of branches, as that of the cycle does.      *)
(*                                                                         *)
(* Apart from the calendar, at the end: the library that every course is   *)
(* read from (module Ephemeris), shared by threads.  For any threads,      *)
(* bodies and sidereal modes, what a response shows was attested by        *)
(* results of its own request, and its ayanamsa is that of its own mode.   *)
(***************************************************************************)
EXTENDS Zwds, Ephemeris, Calendar_proofs, FiniteSetTheorems, FunctionTheorems, TLAPS

(* What the assumptions say of neighbouring new moons.                     *)
LEMMA Lunations ==
    /\ LastMoon \in Nat
    /\ \A k \in 0 .. LastMoon : NewMoon[k] \in Int
    /\ \A j, k \in 0 .. LastMoon : j < k => NewMoon[j] + 42100 <= NewMoon[k]
    /\ \A k \in 0 .. LastMoon - 1 : NewMoon[k + 1] <= NewMoon[k] + 43000
<1>1. /\ LastMoon \in Nat
      /\ \A k \in 0 .. LastMoon : NewMoon[k] \in Int
  BY MoonAssumption
<1>2. ASSUME NEW j \in 0 .. LastMoon, NEW k \in 0 .. LastMoon, j < k
      PROVE  NewMoon[j] + 42100 <= NewMoon[k]
  <2>1. NewMoon[k] - NewMoon[j] >= 42100
    BY <1>2, MoonAssumption
  <2> QED  BY <1>1, <2>1
<1>3. ASSUME NEW k \in 0 .. LastMoon - 1
      PROVE  NewMoon[k + 1] <= NewMoon[k] + 43000
  <2>1. k + 1 \in 1 .. LastMoon /\ k \in 0 .. LastMoon /\ k + 1 \in 0 .. LastMoon
        /\ (k + 1) - 1 = k
    BY <1>1
  <2>2. NewMoon[k + 1] - NewMoon[k] <= 43000
    BY <2>1, MoonAssumption
  <2> QED  BY <1>1, <2>1, <2>2
<1> QED  BY <1>1, <1>2, <1>3

(* The search answers the one lunation whose new moons enclose the seed.   *)
LEMMA SearchFinds ==
    ASSUME NEW u \in Int, NEW k \in 0 .. LastMoon - 1,
           NewMoon[k] <= u + Margin, u + Margin < NewMoon[k + 1]
    PROVE  PreviousNewMoon[u] = k
<1> DEFINE Encloses(j) == /\ NewMoon[j] <= u + Margin
                          /\ j < LastMoon => u + Margin < NewMoon[j + 1]
<1>1. k \in 0 .. LastMoon /\ k + 1 \in 0 .. LastMoon /\ LastMoon \in Nat
  BY Lunations
<1>2. Encloses(k)
  OBVIOUS
<1>3. ASSUME NEW j \in 0 .. LastMoon, Encloses(j) PROVE j = k
  <2>1. NewMoon[j] \in Int /\ NewMoon[k] \in Int /\ NewMoon[k + 1] \in Int /\ u + Margin \in Int
    BY <1>1, Lunations DEF Margin
  <2>2. ~(j < k)
    <3> SUFFICES ASSUME j < k PROVE FALSE
      OBVIOUS
    <3>1. j + 1 \in 0 .. LastMoon /\ j < LastMoon /\ (j + 1 = k \/ j + 1 < k)
      BY <1>1
    <3>2. NewMoon[j + 1] \in Int /\ NewMoon[j + 1] <= NewMoon[k]
      BY <1>1, <2>1, <3>1, Lunations
    <3> QED  BY <1>3, <2>1, <3>1, <3>2
  <2>3. ~(k < j)
    <3> SUFFICES ASSUME k < j PROVE FALSE
      OBVIOUS
    <3>1. k + 1 = j \/ k + 1 < j
      BY <1>1
    <3>2. NewMoon[k + 1] <= NewMoon[j]
      BY <1>1, <2>1, <3>1, Lunations
    <3> QED  BY <1>3, <2>1, <3>2
  <2> QED  BY <1>1, <2>2, <2>3
<1>4. PreviousNewMoon[u] = CHOOSE j \in 0 .. LastMoon : Encloses(j)
  BY DEF PreviousNewMoon
<1> QED
  <2> HIDE DEF Encloses
  <2> QED  BY <1>1, <1>2, <1>3, <1>4

(* The day of a minute, counted in minutes, encloses it.                   *)
LEMMA DaysAndMinutes ==
    ASSUME NEW a \in Int
    PROVE  /\ a \div 1440 \in Int
           /\ 1440 * (a \div 1440) <= a /\ a < 1440 * (a \div 1440) + 1440
BY SMT

(* Where a local day begins, with the operators expanded.                  *)
LEMMA MidnightOf ==
    ASSUME NEW o \in Offsets, NEW day \in Int
    PROVE  /\ o \in Int /\ Epoch \in Int
           /\ LocalMidnight(o, day) = 1440 * (day - Epoch) - o
BY EpochAssumption DEF LocalMidnight, Day

(* The first day of a lunation begins at most a day before its new moon.   *)
LEMMA FirstDay ==
    ASSUME NEW o \in Offsets, NEW k \in 0 .. LastMoon
    PROVE  /\ o \in Int /\ DayOne[o][k] \in Int
           /\ LocalMidnight(o, DayOne[o][k]) <= NewMoon[k]
           /\ NewMoon[k] < LocalMidnight(o, DayOne[o][k]) + 1440
<1>1. o \in Int /\ Epoch \in Int /\ NewMoon[k] \in Int
  BY EpochAssumption, Lunations
<1>2. DayOne[o][k] = Epoch + ((NewMoon[k] + o) \div 1440)
  BY DEF DayOne, LocalDay, Day
<1> DEFINE q == (NewMoon[k] + o) \div 1440
<1>3. q \in Int /\ 1440 * q <= NewMoon[k] + o /\ NewMoon[k] + o < 1440 * q + 1440
  BY <1>1, DaysAndMinutes
<1>4. LocalMidnight(o, DayOne[o][k]) = 1440 * q - o
  <2> HIDE DEF q
  <2>1. DayOne[o][k] = Epoch + q /\ q \in Int
    BY <1>2, <1>3 DEF q
  <2>2. DayOne[o][k] \in Int /\ DayOne[o][k] - Epoch = q
    BY <1>1, <2>1
  <2> QED  BY <2>2, MidnightOf
<1> HIDE DEF q
<1>5. DayOne[o][k] \in Int
  BY <1>1, <1>2, <1>3 DEF q
<1>6. 1440 * q - o <= NewMoon[k] /\ NewMoon[k] < 1440 * q - o + 1440
  BY <1>1, <1>3
<1> QED  BY <1>1, <1>4, <1>5, <1>6

(* One synodic month after a new moon the search finds the next one.       *)
LEMMA NextIsNext ==
    ASSUME NEW k \in 0 .. LastMoon - 2
    PROVE  NextMonthStart[k] = k + 1
<1>1. /\ k \in 0 .. LastMoon /\ k + 1 \in 0 .. LastMoon - 1 /\ k + 1 \in 0 .. LastMoon
      /\ k \in 0 .. LastMoon - 1 /\ k + 2 \in 0 .. LastMoon /\ k < k + 2 /\ (k + 1) + 1 = k + 2
  BY Lunations
<1>2. NewMoon[k] \in Int /\ NewMoon[k + 1] \in Int /\ NewMoon[k + 2] \in Int
  BY <1>1, Lunations
<1>3. NewMoon[k + 1] <= NewMoon[k] + 43000 /\ NewMoon[k + 1] + 42100 <= NewMoon[k + 2]
      /\ NewMoon[k] + 42100 <= NewMoon[k + 1]
  BY <1>1, Lunations
<1> DEFINE u == NewMoon[k] + 30 * Day + 720
<1>4. u \in Int /\ NewMoon[k + 1] <= u + Margin /\ u + Margin < NewMoon[(k + 1) + 1]
  BY <1>1, <1>2, <1>3 DEF Day, Margin
<1>5. PreviousNewMoon[u] = k + 1
  <2> HIDE DEF u
  <2> QED  BY <1>1, <1>4, SearchFinds
<1> QED  BY <1>1, <1>5 DEF NextMonthStart

(* The lunation of a day: the one whose days include it is found, also     *)
(* when the next new moon comes just after midnight, and stepping back     *)
(* once is enough, as the code's comment on its loop has it.               *)
THEOREM OwnerFound ==
    ASSUME NEW o \in Offsets, NEW k \in 0 .. LastMoon - 2, NEW day \in Int,
           DayOne[o][k] <= day, day < DayOne[o][k + 1]
    PROVE  MonthStartOwning[o][day] = k
<1>1. /\ k \in 0 .. LastMoon /\ k + 1 \in 0 .. LastMoon - 1 /\ k + 1 \in 0 .. LastMoon
      /\ k \in 0 .. LastMoon - 1 /\ k + 2 \in 0 .. LastMoon /\ (k + 1) + 1 = k + 2 /\ k < k + 1
      /\ k + 1 < k + 2
  BY Lunations
<1>2. /\ NewMoon[k] \in Int /\ NewMoon[k + 1] \in Int /\ NewMoon[k + 2] \in Int
      /\ NewMoon[k] + 42100 <= NewMoon[k + 1] /\ NewMoon[k + 1] + 42100 <= NewMoon[k + 2]
  BY <1>1, Lunations
<1> DEFINE x == LocalMidnight(o, day + 1)
           p == PreviousNewMoon[x]
<1>3. MonthStartOwning[o][day] =
          IF DayOne[o][p] > day THEN PreviousNewMoon[NewMoon[p] - Day] ELSE p
  BY DEF MonthStartOwning
<1>4. x \in Int /\ NewMoon[k] < x /\ x <= NewMoon[k + 1]
  <2>1. DayOne[o][k] \in Int /\ DayOne[o][k + 1] \in Int /\ o \in Int /\ Epoch \in Int
    BY <1>1, FirstDay, MidnightOf
  <2>2. NewMoon[k] < LocalMidnight(o, DayOne[o][k]) + 1440
        /\ LocalMidnight(o, DayOne[o][k + 1]) <= NewMoon[k + 1]
    BY <1>1, FirstDay
  <2> DEFINE a == DayOne[o][k] - Epoch
             b == DayOne[o][k + 1] - Epoch
             c == day + 1 - Epoch
  <2>3. /\ a \in Int /\ b \in Int /\ c \in Int /\ a + 1 <= c /\ c <= b
    BY <2>1
  <2>4. x = 1440 * c - o /\ NewMoon[k] < 1440 * a - o + 1440 /\ 1440 * b - o <= NewMoon[k + 1]
    <3>1. day + 1 \in Int
      OBVIOUS
    <3> QED  BY <2>1, <2>2, <3>1, MidnightOf
  <2> HIDE DEF a, b, c, x
  <2> QED  BY <1>2, <2>1, <2>3, <2>4, SMT
<1> HIDE DEF x
<1>5. CASE x + Margin < NewMoon[k + 1]
  <2>1. NewMoon[k] <= x + Margin
    BY <1>2, <1>4 DEF Margin
  <2>2. p = k
    BY <1>1, <1>4, <1>5, <2>1, SearchFinds
  <2>3. ~(DayOne[o][k] > day)
    BY <1>1, FirstDay
  <2> QED  BY <1>3, <2>2, <2>3
<1>6. CASE NewMoon[k + 1] <= x + Margin
  <2>1. x + Margin < NewMoon[(k + 1) + 1]
    BY <1>1, <1>2, <1>4 DEF Margin
  <2>2. p = k + 1
    BY <1>1, <1>4, <1>6, <2>1, SearchFinds
  <2>3. DayOne[o][k + 1] > day
    BY <1>1, FirstDay
  <2>4. PreviousNewMoon[NewMoon[k + 1] - Day] = k
    <3> DEFINE u == NewMoon[k + 1] - Day
    <3>1. u \in Int /\ NewMoon[k] <= u + Margin /\ u + Margin < NewMoon[k + 1]
      BY <1>2 DEF Day, Margin
    <3> HIDE DEF u
    <3>2. PreviousNewMoon[u] = k
      BY <1>1, <3>1, SearchFinds
    <3> QED  BY <3>2 DEF u
  <2> QED  BY <1>3, <2>2, <2>3, <2>4
<1>7. x + Margin \in Int
  BY <1>4 DEF Margin
<1> QED  BY <1>2, <1>5, <1>6, <1>7

(* A lunar month has 29 or 30 days, numbered from one.                     *)
THEOREM DaysOfTheMonth ==
    ASSUME NEW o \in Offsets, NEW k \in 0 .. LastMoon - 2, NEW day \in Int,
           DayOne[o][k] <= day, day < DayOne[o][k + 1]
    PROVE  /\ Resolve[o][day].length \in {29, 30}
           /\ Resolve[o][day].day \in 1 .. Resolve[o][day].length
<1>1. k \in 0 .. LastMoon /\ k + 1 \in 0 .. LastMoon /\ k \in 0 .. LastMoon - 1
      /\ k < k + 1
  BY Lunations
<1>2. DayOne[o][k] \in Int /\ DayOne[o][k + 1] \in Int
  BY <1>1, FirstDay
<1>3. DayOne[o][k + 1] - DayOne[o][k] \in {29, 30}
  <2>1. /\ LocalMidnight(o, DayOne[o][k]) <= NewMoon[k]
        /\ NewMoon[k] < LocalMidnight(o, DayOne[o][k]) + 1440
        /\ LocalMidnight(o, DayOne[o][k + 1]) <= NewMoon[k + 1]
        /\ NewMoon[k + 1] < LocalMidnight(o, DayOne[o][k + 1]) + 1440
    BY <1>1, FirstDay
  <2>2. NewMoon[k] \in Int /\ NewMoon[k + 1] \in Int /\ NewMoon[k] + 42100 <= NewMoon[k + 1]
        /\ NewMoon[k + 1] <= NewMoon[k] + 43000
    BY <1>1, Lunations
  <2>3. o \in Int /\ Epoch \in Int
    BY EpochAssumption
  <2> DEFINE a == DayOne[o][k] - Epoch
             b == DayOne[o][k + 1] - Epoch
  <2>4. a \in Int /\ b \in Int /\ DayOne[o][k + 1] - DayOne[o][k] = b - a
    BY <1>2, <2>3
  <2>5. /\ 1440 * a - o <= NewMoon[k] /\ NewMoon[k] < 1440 * a - o + 1440
        /\ 1440 * b - o <= NewMoon[k + 1] /\ NewMoon[k + 1] < 1440 * b - o + 1440
    BY <2>1 DEF LocalMidnight, Day
  <2> HIDE DEF a, b
  <2>6. b - a < 31 /\ b - a > 28
    BY <2>2, <2>3, <2>4, <2>5, SMT
  <2> QED  BY <2>4, <2>6
<1>4. MonthStartOwning[o][day] = k /\ NextMonthStart[k] = k + 1
  BY OwnerFound, NextIsNext
<1>5. Resolve[o][day].day = day - DayOne[o][k] + 1
      /\ Resolve[o][day].length = DayOne[o][k + 1] - DayOne[o][k]
  BY <1>4 DEF Resolve
<1> QED  BY <1>2, <1>3, <1>5

(* No day is left out or counted twice: the day after is the next of the   *)
(* month or, after the month's last day, the first of the next lunation.   *)
THEOREM DaysRunOn ==
    ASSUME NEW o \in Offsets, NEW k \in 0 .. LastMoon - 3, NEW day \in Int,
           DayOne[o][k] <= day, day < DayOne[o][k + 1]
    PROVE  \/ /\ Resolve[o][day].day < Resolve[o][day].length
              /\ Resolve[o][day + 1].day = Resolve[o][day].day + 1
              /\ MonthStartOwning[o][day + 1] = k
           \/ /\ Resolve[o][day].day = Resolve[o][day].length
              /\ Resolve[o][day + 1].day = 1
              /\ MonthStartOwning[o][day + 1] = k + 1
<1>1. /\ k \in 0 .. LastMoon - 2 /\ k + 1 \in 0 .. LastMoon - 2 /\ k \in 0 .. LastMoon
      /\ k + 1 \in 0 .. LastMoon /\ k + 2 \in 0 .. LastMoon /\ (k + 1) + 1 = k + 2
      /\ k + 1 < k + 2
  BY Lunations
<1>2. DayOne[o][k] \in Int /\ DayOne[o][k + 1] \in Int /\ DayOne[o][k + 2] \in Int
  BY <1>1, FirstDay
<1>3. MonthStartOwning[o][day] = k /\ NextMonthStart[k] = k + 1
  BY <1>1, OwnerFound, NextIsNext
<1>4. Resolve[o][day].day = day - DayOne[o][k] + 1
      /\ Resolve[o][day].length = DayOne[o][k + 1] - DayOne[o][k]
  BY <1>3 DEF Resolve
<1>5. CASE day + 1 < DayOne[o][k + 1]
  <2>1. MonthStartOwning[o][day + 1] = k
    BY <1>1, <1>2, <1>5, OwnerFound
  <2>2. Resolve[o][day + 1].day = (day + 1) - DayOne[o][k] + 1
    <3>1. day + 1 \in Int
      OBVIOUS
    <3>2. QED
      BY <2>1, <3>1, Zenon DEF Resolve
  <2> QED  BY <1>2, <1>4, <1>5, <2>1, <2>2
<1>6. CASE day + 1 = DayOne[o][k + 1]
  <2>1. DayOne[o][k + 1] < DayOne[o][k + 2]
    <3>1. /\ NewMoon[k + 1] < LocalMidnight(o, DayOne[o][k + 1]) + 1440
          /\ LocalMidnight(o, DayOne[o][k + 1]) <= NewMoon[k + 1]
          /\ NewMoon[k + 2] < LocalMidnight(o, DayOne[o][k + 2]) + 1440
      BY <1>1, FirstDay
    <3>2. NewMoon[k + 1] \in Int /\ NewMoon[k + 2] \in Int
          /\ NewMoon[k + 1] + 42100 <= NewMoon[k + 2]
      BY <1>1, Lunations
    <3>3. o \in Int /\ Epoch \in Int
      BY EpochAssumption
    <3> QED  BY <1>2, <3>1, <3>2, <3>3, SMT DEF LocalMidnight, Day
  <2>2. MonthStartOwning[o][day + 1] = k + 1
    BY <1>1, <1>2, <1>6, <2>1, OwnerFound
  <2>3. Resolve[o][day + 1].day = (day + 1) - DayOne[o][k + 1] + 1
    <3>1. day + 1 \in Int
      OBVIOUS
    <3>2. QED
      BY <2>2, <3>1, Zenon DEF Resolve
  <2> QED  BY <1>2, <1>4, <1>6, <2>2, <2>3
<1> QED  BY <1>2, <1>5, <1>6

-----------------------------------------------------------------------------
(* What the formula of a month's number says of the next lunation.         *)
LEMMA NumbersRunOn ==
    ASSUME NEW first \in Int, NEW leap \in Int, NEW k \in Int
    PROVE  Number[first][leap][k + 1] =
               IF k + 1 = leap THEN Number[first][leap][k]
               ELSE (Number[first][leap][k] % 12) + 1
<1> DEFINE n == 10 + (k - first) - (IF k >= leap THEN 1 ELSE 0)
           m == 10 + ((k + 1) - first) - (IF k + 1 >= leap THEN 1 ELSE 0)
<1>1. n \in Int /\ m \in Int /\ m = IF k + 1 = leap THEN n ELSE n + 1
  OBVIOUS
<1>2. Number[first][leap][k] = (n % 12) + 1 /\ Number[first][leap][k + 1] = (m % 12) + 1
  BY DEF Number
<1> HIDE DEF n, m
<1>3. ((n + 1) % 12) + 1 = (((n % 12) + 1) % 12) + 1
  BY <1>1, SMT
<1> QED  BY <1>1, <1>2, <1>3

(* What the assumptions say of terms and solstices.                        *)
LEMMA Terms ==
    /\ LastTerm \in Nat
    /\ \A i \in 0 .. LastTerm : Term[i] \in Int
    /\ \A i, j \in 0 .. LastTerm : i <= j => Term[i] <= Term[j]
    /\ \A i, j \in 0 .. LastTerm : Term[i] < Term[j] => i < j
<1>1. LastTerm \in Nat /\ \A i \in 0 .. LastTerm : Term[i] \in Int
  BY TermAssumption
<1>2. ASSUME NEW i \in 0 .. LastTerm, NEW j \in 0 .. LastTerm, i <= j
      PROVE  Term[i] <= Term[j]
  <2>1. CASE i = j
    BY <1>1, <2>1
  <2>2. CASE i < j
    <3>1. Term[i] < Term[j]
      BY <2>2, TermAssumption
    <3> QED  BY <1>1, <3>1
  <2> QED  BY <1>1, <1>2, <2>1, <2>2
<1>3. ASSUME NEW i \in 0 .. LastTerm, NEW j \in 0 .. LastTerm, Term[i] < Term[j]
      PROVE  i < j
  <2>1. CASE j <= i
    BY <1>1, <1>2, <1>3, <2>1
  <2> QED  BY <1>1, <2>1
<1> QED  BY <1>1, <1>2, <1>3

(* The years asked about are after the year 3, and there is one.           *)
LEMMA Years == /\ FirstYear \in Nat /\ LastYear \in Nat /\ FirstYear > 3 /\ FirstYear <= LastYear
               /\ SolsticeYears = FirstYear - 2 .. LastYear + 1
BY YearAssumption, TermAssumption DEF SolsticeYears

(* The solstices are terms, twelve to the next.                            *)
LEMMA SolsticeIsTerm ==
    ASSUME NEW y \in SolsticeYears
    PROVE  LET b == 12 * (y - FirstYear + 2)
           IN  /\ b \in 0 .. LastTerm /\ SolsticeOf(y) = Term[b] /\ SolsticeOf(y) \in Int
               /\ y <= LastYear => y + 1 \in SolsticeYears /\ b + 12 \in 0 .. LastTerm
                                   /\ SolsticeOf(y + 1) = Term[b + 12]
<1> DEFINE b == 12 * (y - FirstYear + 2)
<1>1. LastTerm \in Nat /\ LastTerm >= 12 * (LastYear - FirstYear + 3)
  BY TermAssumption
<1>2. b \in 0 .. LastTerm /\ SolsticeOf(y) = Term[b]
  BY <1>1, Years DEF SolsticeOf
<1>3. SolsticeOf(y) \in Int
  <2> HIDE DEF b
  <2> QED  BY <1>2, Terms
<1>4. ASSUME y <= LastYear
      PROVE  y + 1 \in SolsticeYears /\ b + 12 \in 0 .. LastTerm /\ SolsticeOf(y + 1) = Term[b + 12]
  <2>1. y + 1 \in SolsticeYears /\ b + 12 \in 0 .. LastTerm /\ 12 * ((y + 1) - FirstYear + 2) = b + 12
    BY <1>1, <1>4, Years
  <2> QED  BY <2>1 DEF SolsticeOf
<1> QED  BY <1>2, <1>3, <1>4

(* An instant is on or after a local day iff it is not before the midnight *)
(* that begins it.                                                         *)
LEMMA DayOfInstant ==
    ASSUME NEW o \in Offsets, NEW u \in Int
    PROVE  /\ o \in Int /\ Epoch \in Int /\ LocalDay(o, u) \in Int
           /\ LocalMidnight(o, LocalDay(o, u)) <= u
           /\ u < LocalMidnight(o, LocalDay(o, u)) + 1440
<1>1. o \in Int /\ Epoch \in Int
  BY EpochAssumption
<1> DEFINE q == (u + o) \div 1440
<1>2. q \in Int /\ 1440 * q <= u + o /\ u + o < 1440 * q + 1440
  BY <1>1, DaysAndMinutes
<1>3. LocalDay(o, u) = Epoch + q
  BY DEF LocalDay, Day
<1> HIDE DEF q
<1>4. LocalDay(o, u) \in Int /\ LocalMidnight(o, LocalDay(o, u)) = 1440 * q - o
  <2>1. LocalDay(o, u) \in Int /\ LocalDay(o, u) - Epoch = q
    BY <1>1, <1>2, <1>3
  <2> QED  BY <2>1, MidnightOf
<1> QED  BY <1>1, <1>2, <1>4

(* An instant is on a local day or later from the midnight of that day on. *)
LEMMA OnOrAfter ==
    ASSUME NEW o \in Offsets, NEW u \in Int, NEW day \in Int
    PROVE  LocalDay(o, u) >= day <=> u >= LocalMidnight(o, day)
<1>1. /\ o \in Int /\ Epoch \in Int /\ LocalDay(o, u) \in Int
      /\ LocalMidnight(o, LocalDay(o, u)) <= u
      /\ u < LocalMidnight(o, LocalDay(o, u)) + 1440
  BY DayOfInstant
<1> DEFINE e == LocalDay(o, u)
<1>2. LocalMidnight(o, e) = 1440 * (e - Epoch) - o
      /\ LocalMidnight(o, day) = 1440 * (day - Epoch) - o
  BY <1>1, MidnightOf
<1> HIDE DEF e
<1> QED  BY <1>1, <1>2, SMT DEF e

(* Later instants are not on earlier days.                                 *)
LEMMA DaysInOrder ==
    ASSUME NEW o \in Offsets, NEW u \in Int, NEW v \in Int, u <= v
    PROVE  LocalDay(o, u) <= LocalDay(o, v)
<1>1. LocalDay(o, u) \in Int /\ LocalDay(o, v) \in Int /\ o \in Int /\ Epoch \in Int
  BY DayOfInstant
<1>2. u >= LocalMidnight(o, LocalDay(o, u)) /\ LocalMidnight(o, LocalDay(o, u)) \in Int
  BY <1>1, DayOfInstant, MidnightOf
<1>3. v >= LocalMidnight(o, LocalDay(o, u))
  BY <1>2
<1>4. LocalDay(o, v) >= LocalDay(o, u)
  BY <1>1, <1>3, OnOrAfter
<1> QED  BY <1>1, <1>4

(* The winter solstice of the year y, in the frame o.                      *)
Dongzhi(o, y) == LocalDay(o, SolsticeOf(y))

(* From one winter solstice to the next it is 365 or 366 days.             *)
LEMMA SolsticeApart ==
    ASSUME NEW o \in Offsets, NEW y \in SolsticeYears
    PROVE  /\ Dongzhi(o, y) \in Int
           /\ y <= LastYear => /\ Dongzhi(o, y + 1) \in Int
                               /\ Dongzhi(o, y + 1) >= Dongzhi(o, y) + 365
                               /\ Dongzhi(o, y + 1) <= Dongzhi(o, y) + 366
<1>1. SolsticeOf(y) \in Int /\ (y <= LastYear => SolsticeOf(y + 1) \in Int)
  <2>1. ASSUME y <= LastYear PROVE SolsticeOf(y + 1) \in Int
    <3>1. y + 1 \in SolsticeYears
      BY <2>1, SolsticeIsTerm
    <3> QED  BY <3>1, SolsticeIsTerm
  <2> QED  BY <2>1, SolsticeIsTerm
<1>2. Dongzhi(o, y) \in Int /\ (y <= LastYear => Dongzhi(o, y + 1) \in Int)
  BY <1>1, DayOfInstant DEF Dongzhi
<1>3. ASSUME y <= LastYear
      PROVE  Dongzhi(o, y + 1) >= Dongzhi(o, y) + 365 /\ Dongzhi(o, y + 1) <= Dongzhi(o, y) + 366
  <2>1. y \in FirstYear - 2 .. LastYear
    BY <1>3, Years
  <2>2. SolsticeOf(y + 1) >= SolsticeOf(y) + 525900 /\ SolsticeOf(y + 1) <= SolsticeOf(y) + 526000
    BY <2>1, TermAssumption
  <2> DEFINE u == SolsticeOf(y)
             v == SolsticeOf(y + 1)
             d == Dongzhi(o, y) - Epoch
             e == Dongzhi(o, y + 1) - Epoch
  <2>3. /\ o \in Int /\ Epoch \in Int /\ d \in Int /\ e \in Int /\ u \in Int /\ v \in Int
        /\ Dongzhi(o, y + 1) - Dongzhi(o, y) = e - d
    <3>1. u \in Int /\ v \in Int
      BY <1>1, <1>3
    <3>2. o \in Int /\ Epoch \in Int
      BY <3>1, DayOfInstant
    <3> QED  BY <1>2, <1>3, <3>1, <3>2
  <2>4. /\ 1440 * d - o <= u /\ u < 1440 * d - o + 1440
        /\ 1440 * e - o <= v /\ v < 1440 * e - o + 1440
    BY <1>1, <1>2, <1>3, <2>3, DayOfInstant, MidnightOf DEF Dongzhi
  <2> HIDE DEF u, v, d, e
  <2>5. v >= u + 525900 /\ v <= u + 526000
    BY <2>2 DEF u, v
  <2>6. e - d >= 365 /\ e - d <= 366
    BY <2>3, <2>4, <2>5, SMT
  <2> QED  BY <1>2, <1>3, <2>3, <2>6
<1> QED  BY <1>2, <1>3

(* Of two solstices the later is at least 365 days later.                  *)
LEMMA SolsticesInOrder ==
    ASSUME NEW o \in Offsets, NEW y \in SolsticeYears, NEW z \in SolsticeYears, y < z
    PROVE  Dongzhi(o, z) >= Dongzhi(o, y) + 365 /\ SolsticeOf(y) <= SolsticeOf(z)
<1> DEFINE b == 12 * (y - FirstYear + 2)
           c == 12 * (z - FirstYear + 2)
<1>1. /\ y <= LastYear /\ y + 1 \in SolsticeYears
  BY Years
<1>2. /\ b \in 0 .. LastTerm /\ c \in 0 .. LastTerm /\ b + 12 \in 0 .. LastTerm
      /\ SolsticeOf(y) = Term[b] /\ SolsticeOf(z) = Term[c] /\ SolsticeOf(y + 1) = Term[b + 12]
      /\ SolsticeOf(y) \in Int /\ SolsticeOf(z) \in Int /\ SolsticeOf(y + 1) \in Int
  BY <1>1, SolsticeIsTerm
<1>3. b <= c /\ b + 12 <= c
  BY Years
<1> HIDE DEF b, c
<1>4. SolsticeOf(y) <= SolsticeOf(z) /\ SolsticeOf(y + 1) <= SolsticeOf(z)
  BY <1>2, <1>3, Terms
<1>5. Dongzhi(o, y + 1) <= Dongzhi(o, z)
  BY <1>2, <1>4, DaysInOrder DEF Dongzhi
<1>6. Dongzhi(o, y + 1) >= Dongzhi(o, y) + 365
  BY <1>1, SolsticeApart
<1>7. Dongzhi(o, y) \in Int /\ Dongzhi(o, z) \in Int /\ Dongzhi(o, y + 1) \in Int
  BY <1>1, SolsticeApart
<1> QED  BY <1>4, <1>5, <1>6, <1>7

(* The solstice on or before a day, searched from 400 days before it.      *)
LEMMA SolsticeFound ==
    ASSUME NEW o \in Offsets, NEW y \in SolsticeYears, NEW day \in Int,
           Dongzhi(o, y) <= day, day <= Dongzhi(o, y) + 370,
           y <= LastYear => day < Dongzhi(o, y + 1)
    PROVE  WinterSolstice[o][day] = SolsticeOf(y)
<1> DEFINE Found(u) == /\ u >= LocalNoon(o, day) - 400 * Day /\ LocalDay(o, u) <= day
                       /\ \A v \in Solstices : LocalDay(o, v) <= day => v <= u
           s == SolsticeOf(y)
<1>1. s \in Int /\ s \in Solstices /\ \A v \in Solstices : v \in Int
  BY SolsticeIsTerm DEF Solstices
<1>2. s >= LocalNoon(o, day) - 400 * Day
  <2>1. /\ o \in Int /\ Epoch \in Int /\ Dongzhi(o, y) \in Int
        /\ 1440 * (Dongzhi(o, y) - Epoch) - o <= s
    BY <1>1, DayOfInstant, MidnightOf DEF Dongzhi
  <2>2. LocalNoon(o, day) = 1440 * (day - Epoch) - o + 720 /\ Day = 1440
    BY MidnightOf DEF LocalNoon, Day
  <2> HIDE DEF s
  <2> QED  BY <1>1, <2>1, <2>2
<1>3. ASSUME NEW v \in Solstices, LocalDay(o, v) <= day PROVE v <= s
  <2>1. PICK z \in SolsticeYears : v = SolsticeOf(z)
    BY DEF Solstices
  <2>2. CASE y < z
    <3>1. y + 1 \in SolsticeYears /\ y <= LastYear /\ (y + 1 = z \/ y + 1 < z)
      BY <2>2, Years
    <3>2. Dongzhi(o, y + 1) <= Dongzhi(o, z) /\ Dongzhi(o, z) <= day
      BY <1>3, <2>1, <3>1, SolsticesInOrder, SolsticeApart DEF Dongzhi
    <3>3. Dongzhi(o, y + 1) \in Int /\ Dongzhi(o, z) \in Int
      BY <3>1, SolsticeApart
    <3> QED  BY <3>1, <3>2, <3>3
  <2>3. CASE z = y
    BY <1>1, <2>1, <2>3
  <2>4. CASE z < y
    BY <2>1, <2>4, SolsticesInOrder
  <2> QED  BY <2>2, <2>3, <2>4, Years
<1>4. Found(s)
  BY <1>2, <1>3 DEF Dongzhi
<1>5. ASSUME NEW u \in Solstices, Found(u) PROVE u = s
  <2>1. u <= s /\ s <= u
    BY <1>1, <1>4, <1>5 
  <2> QED  BY <1>1, <2>1
<1>6. WinterSolstice[o][day] = CHOOSE u \in Solstices : Found(u)
  BY DEF WinterSolstice
<1> QED
  <2> HIDE DEF Found, s
  <2>1. WinterSolstice[o][day] = s
    BY <1>1, <1>4, <1>5, <1>6
  <2> QED  BY <2>1 DEF s

(* The month 11 of a year: the lunation that owns its winter solstice.     *)
Eleven(o, y) == MonthStartOwning[o][Dongzhi(o, y)]

(* The span of lunations of a day.                                         *)
LEMMA SpanOfDay ==
    ASSUME NEW o \in Offsets, NEW y \in SolsticeYears, y <= LastYear, NEW day \in Int,
           Dongzhi(o, y) <= day, day < Dongzhi(o, y + 1)
    PROVE  Sui[o][day] = NumberedSui[o][Eleven(o, y)][Eleven(o, y + 1)]
<1>1. y + 1 \in SolsticeYears
  BY SolsticeIsTerm
<1>2. /\ Dongzhi(o, y) \in Int /\ Dongzhi(o, y + 1) \in Int
      /\ Dongzhi(o, y + 1) >= Dongzhi(o, y) + 365 /\ Dongzhi(o, y + 1) <= Dongzhi(o, y) + 366
      /\ y + 1 <= LastYear => /\ Dongzhi(o, (y + 1) + 1) \in Int
                              /\ Dongzhi(o, (y + 1) + 1) >= Dongzhi(o, y + 1) + 365
  BY <1>1, SolsticeApart
<1>3. WinterSolstice[o][day] = SolsticeOf(y)
  BY <1>2, SolsticeFound
<1>4. WinterSolstice[o][Dongzhi(o, y) + 370] = SolsticeOf(y + 1)
  <2>1. /\ Dongzhi(o, y) + 370 \in Int /\ Dongzhi(o, y + 1) <= Dongzhi(o, y) + 370
        /\ Dongzhi(o, y) + 370 <= Dongzhi(o, y + 1) + 370
        /\ y + 1 <= LastYear => Dongzhi(o, y) + 370 < Dongzhi(o, (y + 1) + 1)
    BY <1>2
  <2> QED  BY <1>1, <2>1, SolsticeFound
<1>5. LocalDay(o, WinterSolstice[o][day]) = Dongzhi(o, y)
  BY <1>3, Zenon DEF Dongzhi
<1>6. LocalDay(o, WinterSolstice[o][Dongzhi(o, y) + 370]) = Dongzhi(o, y + 1)
  BY <1>4, Zenon DEF Dongzhi
<1> DEFINE owning(d) == MonthStartOwning[o][d]
           at(d) == LocalDay(o, WinterSolstice[o][d])
<1>7. Sui[o][day] = NumberedSui[o][owning(at(day))][owning(at(at(day) + 370))]
  BY Zenon DEF Sui
<1>8. at(day) = Dongzhi(o, y) /\ at(Dongzhi(o, y) + 370) = Dongzhi(o, y + 1)
  BY <1>5, <1>6
<1>9. owning(Dongzhi(o, y)) = Eleven(o, y) /\ owning(Dongzhi(o, y + 1)) = Eleven(o, y + 1)
  BY Zenon DEF Eleven
<1> HIDE DEF owning, at
<1> QED  BY <1>7, <1>8, <1>9

(* From one first day of a month to another.                               *)
LEMMA MonthLengths ==
    ASSUME NEW o \in Offsets, NEW k \in 0 .. LastMoon - 1
    PROVE  /\ DayOne[o][k] \in Int /\ DayOne[o][k + 1] \in Int
           /\ DayOne[o][k + 1] >= DayOne[o][k] + 29 /\ DayOne[o][k + 1] <= DayOne[o][k] + 30
<1>1. k \in 0 .. LastMoon /\ k + 1 \in 0 .. LastMoon /\ k < k + 1
  BY Lunations
<1>2. DayOne[o][k] \in Int /\ DayOne[o][k + 1] \in Int
  BY <1>1, FirstDay
<1>3. /\ LocalMidnight(o, DayOne[o][k]) <= NewMoon[k]
      /\ NewMoon[k] < LocalMidnight(o, DayOne[o][k]) + 1440
      /\ LocalMidnight(o, DayOne[o][k + 1]) <= NewMoon[k + 1]
      /\ NewMoon[k + 1] < LocalMidnight(o, DayOne[o][k + 1]) + 1440
  BY <1>1, FirstDay
<1>4. NewMoon[k] \in Int /\ NewMoon[k + 1] \in Int /\ NewMoon[k] + 42100 <= NewMoon[k + 1]
      /\ NewMoon[k + 1] <= NewMoon[k] + 43000
  BY <1>1, Lunations
<1>5. o \in Int /\ Epoch \in Int
  BY EpochAssumption
<1> DEFINE a == DayOne[o][k] - Epoch
           b == DayOne[o][k + 1] - Epoch
<1>6. a \in Int /\ b \in Int /\ DayOne[o][k + 1] - DayOne[o][k] = b - a
  BY <1>2, <1>5
<1>7. /\ 1440 * a - o <= NewMoon[k] /\ NewMoon[k] < 1440 * a - o + 1440
      /\ 1440 * b - o <= NewMoon[k + 1] /\ NewMoon[k + 1] < 1440 * b - o + 1440
  BY <1>3 DEF LocalMidnight, Day
<1> HIDE DEF a, b
<1>8. b - a < 31 /\ b - a > 28
  BY <1>4, <1>5, <1>6, <1>7, SMT
<1> QED  BY <1>2, <1>6, <1>8

(* The months between two, at 29 or 30 days each.                          *)
LEMMA MonthsApart ==
    ASSUME NEW o \in Offsets, NEW j \in 0 .. LastMoon, NEW n \in Nat, j + n <= LastMoon
    PROVE  /\ j + n \in 0 .. LastMoon
           /\ DayOne[o][j] \in Int /\ DayOne[o][j + n] \in Int
           /\ DayOne[o][j + n] >= DayOne[o][j] + 29 * n
           /\ DayOne[o][j + n] <= DayOne[o][j] + 30 * n
<1> DEFINE Good(m) == /\ DayOne[o][j + m] >= DayOne[o][j] + 29 * m
                      /\ DayOne[o][j + m] <= DayOne[o][j] + 30 * m
           Bad == {m \in Nat : j + m <= LastMoon /\ ~Good(m)}
<1>0. \A i \in 0 .. LastMoon : DayOne[o][i] \in Int
  BY FirstDay
<1>1. Bad = {}
  <2> SUFFICES ASSUME Bad # {} PROVE FALSE
    OBVIOUS
  <2>1. PICK m \in Bad : \A i \in Bad : m <= i
    BY LeastNumber
  <2>2. m \in Nat /\ j + m <= LastMoon /\ ~Good(m) /\ LastMoon \in Nat /\ j \in Nat
    BY Lunations
  <2>3. CASE m = 0
    BY <1>0, <2>2, <2>3
  <2>4. CASE m # 0
    <3>1. m - 1 \in Nat /\ j + (m - 1) <= LastMoon /\ j + (m - 1) \in 0 .. LastMoon - 1
          /\ (j + (m - 1)) + 1 = j + m /\ ~(m <= m - 1)
      BY <2>2, <2>4
    <3>2. Good(m - 1)
      BY <2>1, <3>1
    <3>3. /\ DayOne[o][j + (m - 1)] \in Int /\ DayOne[o][j + m] \in Int /\ DayOne[o][j] \in Int
          /\ DayOne[o][j + m] >= DayOne[o][j + (m - 1)] + 29
          /\ DayOne[o][j + m] <= DayOne[o][j + (m - 1)] + 30
      BY <1>0, <3>1, MonthLengths
    <3>4. Good(m)
      BY <2>2, <3>2, <3>3
    <3> QED  BY <2>2, <3>4
  <2> QED  BY <2>3, <2>4
<1>2. Good(n)
  BY <1>1
<1> QED  BY <1>0, <1>2, Lunations

(* Lunations are in the order of their first days.                         *)
LEMMA MonthsInOrder ==
    ASSUME NEW o \in Offsets, NEW j \in 0 .. LastMoon, NEW k \in 0 .. LastMoon
    PROVE  j <= k <=> DayOne[o][j] <= DayOne[o][k]
<1>1. DayOne[o][j] \in Int /\ DayOne[o][k] \in Int /\ j \in Nat /\ k \in Nat /\ LastMoon \in Nat
  BY FirstDay, Lunations
<1>2. CASE j <= k
  <2>1. k - j \in Nat /\ j + (k - j) = k /\ j + (k - j) <= LastMoon
    BY <1>1, <1>2
  <2>2. DayOne[o][j + (k - j)] >= DayOne[o][j] + 29 * (k - j)
    BY <2>1, MonthsApart
  <2> QED  BY <1>1, <1>2, <2>1, <2>2
<1>3. CASE ~(j <= k)
  <2>1. j - k \in Nat /\ k + (j - k) = j /\ k + (j - k) <= LastMoon /\ j - k >= 1
    BY <1>1, <1>3
  <2>2. DayOne[o][k + (j - k)] >= DayOne[o][k] + 29 * (j - k)
    BY <2>1, MonthsApart
  <2> QED  BY <1>1, <1>3, <2>1, <2>2
<1> QED  BY <1>2, <1>3

(* Lunation k owns the day.                                                *)
Owns(o, k, day) == /\ k \in 0 .. LastMoon - 2
                   /\ DayOne[o][k] <= day /\ day < DayOne[o][k + 1]

(* The search answers the lunation that owns the day.                      *)
LEMMA SomeLunationOwns ==
    ASSUME NEW o \in Offsets, NEW day \in Int, DayOne[o][0] <= day, day < DayOne[o][LastMoon - 1]
    PROVE  Owns(o, MonthStartOwning[o][day], day)
<1> DEFINE S == {n \in Nat : n <= LastMoon - 1 /\ day < DayOne[o][n]}
<1>1. LastMoon \in Nat /\ LastMoon > 1
  BY Lunations, SpanAssumption
<1>2. LastMoon - 1 \in S
  BY <1>1
<1>3. PICK n \in S : \A i \in S : n <= i
  BY <1>2, LeastNumber
<1>4. n \in Nat /\ n # 0 /\ n <= LastMoon - 1 /\ day < DayOne[o][n]
  <2>1. DayOne[o][0] \in Int
    BY <1>1, FirstDay
  <2> QED  BY <1>3, <2>1
<1>5. n - 1 \in Nat /\ n - 1 <= LastMoon - 1 /\ n - 1 \in 0 .. LastMoon - 2
      /\ n - 1 \in 0 .. LastMoon /\ (n - 1) + 1 = n /\ ~(n <= n - 1)
  BY <1>1, <1>4
<1>6. DayOne[o][n - 1] <= day
  <2>1. ~(day < DayOne[o][n - 1])
    BY <1>3, <1>5
  <2>2. DayOne[o][n - 1] \in Int
    BY <1>5, FirstDay
  <2> QED  BY <2>1, <2>2
<1>7. MonthStartOwning[o][day] = n - 1
  BY <1>4, <1>5, <1>6, OwnerFound
<1> QED  BY <1>4, <1>5, <1>6, <1>7 DEF Owns

(* The new moons known own every day from the first solstice to the last.  *)
LEMMA DaysAreOwned ==
    ASSUME NEW o \in Offsets, NEW day \in Int,
           Dongzhi(o, FirstYear - 2) <= day, day <= Dongzhi(o, LastYear + 1)
    PROVE  Owns(o, MonthStartOwning[o][day], day)
<1>1. /\ LastMoon \in Nat /\ 0 \in 0 .. LastMoon /\ LastMoon - 1 \in 0 .. LastMoon
      /\ FirstYear - 2 \in SolsticeYears /\ LastYear + 1 \in SolsticeYears
  BY Lunations, SpanAssumption, Years
<1>2. /\ NewMoon[0] \in Int /\ NewMoon[LastMoon - 1] \in Int
      /\ SolsticeOf(FirstYear - 2) \in Int /\ SolsticeOf(LastYear + 1) \in Int
      /\ DayOne[o][0] \in Int /\ DayOne[o][LastMoon - 1] \in Int
      /\ Dongzhi(o, FirstYear - 2) \in Int /\ Dongzhi(o, LastYear + 1) \in Int
  BY <1>1, Lunations, SolsticeIsTerm, FirstDay, SolsticeApart
<1>3. DayOne[o][0] <= Dongzhi(o, FirstYear - 2)
  <2>1. LocalDay(o, NewMoon[0]) <= LocalDay(o, SolsticeOf(FirstYear - 2))
    BY <1>2, DaysInOrder, SpanAssumption
  <2> QED  BY <1>1, <2>1 DEF DayOne, Dongzhi
<1>4. Dongzhi(o, LastYear + 1) < DayOne[o][LastMoon - 1]
  <2> DEFINE s == SolsticeOf(LastYear + 1)
             d == Dongzhi(o, LastYear + 1)
  <2>1. s + 1440 < NewMoon[LastMoon - 1]
    BY SpanAssumption DEF Day
  <2>2. /\ o \in Int /\ Epoch \in Int /\ LocalMidnight(o, d) <= s
        /\ LocalMidnight(o, d) = 1440 * (d - Epoch) - o
        /\ LocalMidnight(o, d + 1) = 1440 * ((d + 1) - Epoch) - o
    BY <1>2, DayOfInstant, MidnightOf DEF Dongzhi
  <2>3. LocalMidnight(o, d + 1) = LocalMidnight(o, d) + 1440 /\ LocalMidnight(o, d) \in Int
    BY <1>2, <2>2
  <2>4. d + 1 \in Int /\ NewMoon[LastMoon - 1] >= LocalMidnight(o, d + 1)
    <3> HIDE DEF s, d
    <3>1. s \in Int /\ d \in Int
      BY <1>2 DEF s, d
    <3> QED  BY <1>2, <2>1, <2>2, <2>3, <3>1
  <2>5. LocalDay(o, NewMoon[LastMoon - 1]) >= d + 1
    <3> HIDE DEF d
    <3> QED  BY <1>2, <2>4, OnOrAfter
  <2>6. DayOne[o][LastMoon - 1] = LocalDay(o, NewMoon[LastMoon - 1])
    BY <1>1 DEF DayOne
  <2> HIDE DEF d
  <2>7. d \in Int
    BY <1>2 DEF d
  <2>8. d < DayOne[o][LastMoon - 1]
    BY <1>2, <2>5, <2>6, <2>7
  <2> QED  BY <2>8 DEF d
<1> QED  BY <1>2, <1>3, <1>4, SomeLunationOwns

(* Month 11 owns the winter solstice.                                      *)
LEMMA ElevenOwns ==
    ASSUME NEW o \in Offsets, NEW y \in SolsticeYears
    PROVE  Owns(o, Eleven(o, y), Dongzhi(o, y))
<1>1. /\ FirstYear - 2 \in SolsticeYears /\ LastYear + 1 \in SolsticeYears
      /\ y \in Int /\ FirstYear - 2 <= y /\ y <= LastYear + 1
      /\ FirstYear - 2 \in Int /\ LastYear + 1 \in Int
  BY Years
<1>2. Dongzhi(o, y) \in Int /\ Dongzhi(o, FirstYear - 2) \in Int /\ Dongzhi(o, LastYear + 1) \in Int
  BY <1>1, SolsticeApart
<1>3. Dongzhi(o, FirstYear - 2) <= Dongzhi(o, y)
  <2>1. CASE y = FirstYear - 2
    BY <1>2, <2>1
  <2>2. CASE FirstYear - 2 < y
    <3>1. Dongzhi(o, y) >= Dongzhi(o, FirstYear - 2) + 365
      BY <1>1, <2>2, SolsticesInOrder
    <3> QED  BY <1>2, <3>1
  <2> QED  BY <1>1, <2>1, <2>2
<1>4. Dongzhi(o, y) <= Dongzhi(o, LastYear + 1)
  <2>1. CASE y = LastYear + 1
    BY <1>2, <2>1
  <2>2. CASE y < LastYear + 1
    <3>1. Dongzhi(o, LastYear + 1) >= Dongzhi(o, y) + 365
      BY <1>1, <2>2, SolsticesInOrder
    <3> QED  BY <1>2, <3>1
  <2> QED  BY <1>1, <2>1, <2>2
<1> QED  BY <1>2, <1>3, <1>4, DaysAreOwned DEF Eleven

(* From one month 11 to the next there are twelve or thirteen lunations.   *)
LEMMA TwelveOrThirteen ==
    ASSUME NEW o \in Offsets, NEW y \in SolsticeYears, y <= LastYear
    PROVE  /\ Eleven(o, y) \in 0 .. LastMoon - 2 /\ Eleven(o, y + 1) \in 0 .. LastMoon - 2
           /\ Eleven(o, y + 1) - Eleven(o, y) \in {12, 13}
<1>1. y + 1 \in SolsticeYears
  BY SolsticeIsTerm
<1> DEFINE f == Eleven(o, y)
           l == Eleven(o, y + 1)
           d == Dongzhi(o, y)
           e == Dongzhi(o, y + 1)
<1>2. /\ d \in Int /\ e \in Int /\ e >= d + 365 /\ e <= d + 366
  BY SolsticeApart
<1>3. /\ f \in 0 .. LastMoon - 2 /\ DayOne[o][f] <= d /\ d < DayOne[o][f + 1]
      /\ l \in 0 .. LastMoon - 2 /\ DayOne[o][l] <= e /\ e < DayOne[o][l + 1]
  BY <1>1, ElevenOwns DEF Owns
<1> HIDE DEF f, l, d, e
<1>4. /\ LastMoon \in Nat /\ f \in 0 .. LastMoon /\ l \in 0 .. LastMoon
      /\ f + 1 \in 0 .. LastMoon /\ l + 1 \in 0 .. LastMoon
  BY <1>3, Lunations
<1>5. /\ DayOne[o][f] \in Int /\ DayOne[o][f + 1] \in Int
      /\ DayOne[o][l] \in Int /\ DayOne[o][l + 1] \in Int
  BY <1>4, FirstDay
<1>6. l - f >= 12
  <2>1. f <= l + 1
    BY <1>2, <1>3, <1>4, <1>5, MonthsInOrder
  <2>2. (l + 1) - f \in Nat /\ f + ((l + 1) - f) = l + 1 /\ f + ((l + 1) - f) <= LastMoon
    BY <1>4, <2>1
  <2>3. DayOne[o][f + ((l + 1) - f)] <= DayOne[o][f] + 30 * ((l + 1) - f)
    BY <1>4, <2>2, MonthsApart
  <2>4. DayOne[o][l + 1] <= DayOne[o][f] + 30 * ((l + 1) - f)
    BY <2>2, <2>3
  <2>5. 30 * ((l + 1) - f) > 365
    BY <1>2, <1>3, <1>4, <1>5, <2>4
  <2> QED  BY <1>4, <2>5
<1>7. l - f <= 13
  <2>1. l - (f + 1) \in Nat /\ (f + 1) + (l - (f + 1)) = l /\ (f + 1) + (l - (f + 1)) <= LastMoon
    BY <1>4, <1>6
  <2>2. DayOne[o][(f + 1) + (l - (f + 1))] >= DayOne[o][f + 1] + 29 * (l - (f + 1))
    BY <1>4, <2>1, MonthsApart
  <2>3. DayOne[o][l] >= DayOne[o][f + 1] + 29 * (l - (f + 1))
    BY <2>1, <2>2
  <2>4. 29 * (l - (f + 1)) < 366
    BY <1>2, <1>3, <1>4, <1>5, <2>3
  <2> QED  BY <1>4, <2>4
<1>8. l - f \in {12, 13}
  BY <1>4, <1>6, <1>7
<1> QED  BY <1>3, <1>8 DEF f, l

-----------------------------------------------------------------------------
(* A lunation has no term iff none falls on one of its days, as far as     *)
(* terms are known.                                                        *)
LEMMA TermOfMonth ==
    ASSUME NEW o \in Offsets, NEW k \in 0 .. LastMoon - 2,
           DayOne[o][k] <= Dongzhi(o, LastYear + 1)
    PROVE  NoZhongqi[o][k] <=>
               \A i \in 0 .. LastTerm : ~ (/\ DayOne[o][k] <= LocalDay(o, Term[i])
                                          /\ LocalDay(o, Term[i]) < DayOne[o][k + 1])
<1> DEFINE m == LocalMidnight(o, DayOne[o][k])
           S == {i \in Nat : i \in 0 .. LastTerm /\ Term[i] >= m}
           b == 12 * ((LastYear + 1) - FirstYear + 2)
<1>1. /\ LastTerm \in Nat /\ k \in 0 .. LastMoon /\ k + 1 \in 0 .. LastMoon
      /\ k \in 0 .. LastMoon - 1 /\ LastYear + 1 \in SolsticeYears
  BY Terms, Lunations, Years
<1>2. /\ DayOne[o][k] \in Int /\ DayOne[o][k + 1] \in Int /\ m \in Int
  BY <1>1, FirstDay, MidnightOf
<1>3. b \in 0 .. LastTerm /\ SolsticeOf(LastYear + 1) = Term[b] /\ Term[b] \in Int
  BY <1>1, SolsticeIsTerm
<1>4. b \in S
  <2>1. LocalDay(o, Term[b]) >= DayOne[o][k]
    <3>1. Dongzhi(o, LastYear + 1) \in Int
      BY <1>1, SolsticeApart
    <3> HIDE DEF b
    <3> QED  BY <1>2, <1>3, <3>1 DEF Dongzhi
  <2> HIDE DEF b
  <2>2. Term[b] >= m
    BY <1>2, <1>3, <2>1, OnOrAfter
  <2> QED  BY <1>1, <1>3, <2>2
<1> HIDE DEF b, m
<1>5. PICK a \in S : \A i \in S : a <= i
  BY <1>4, LeastNumber
<1>6. a \in 0 .. LastTerm /\ Term[a] \in Int /\ Term[a] >= m
  BY <1>5, Terms
<1>7. FirstTerm[m] = Term[a]
  <2> DEFINE First(u) == u >= m /\ \A v \in Zhongqi : v >= m => u <= v
  <2>1. Term[a] \in Zhongqi
    BY <1>6 DEF Zhongqi
  <2>2. ASSUME NEW v \in Zhongqi, v >= m PROVE Term[a] <= v
    <3>1. PICK i \in 0 .. LastTerm : v = Term[i]
      BY DEF Zhongqi
    <3>2. i \in S
      BY <1>1, <2>2, <3>1
    <3>3. a <= i
      BY <1>5, <3>2
    <3> QED  BY <1>6, <3>1, <3>3, Terms
  <2>3. First(Term[a])
    BY <1>6, <2>2
  <2>4. ASSUME NEW u \in Zhongqi, First(u) PROVE u = Term[a]
    <3>1. u <= Term[a] /\ Term[a] <= u
      BY <1>6, <2>1, <2>2, <2>4
    <3>2. u \in Int
      BY Terms DEF Zhongqi
    <3> QED  BY <1>6, <3>1, <3>2
  <2>5. FirstTerm[m] = CHOOSE u \in Zhongqi : First(u)
    BY <1>2 DEF FirstTerm
  <2> QED
    <3> HIDE DEF First
    <3> QED  BY <2>1, <2>3, <2>4, <2>5
<1>8. NoZhongqi[o][k] = (LocalDay(o, Term[a]) >= DayOne[o][k + 1])
  <2>1. NextMonthStart[k] = k + 1
    BY NextIsNext
  <2>2. NoZhongqi[o][k] =
            (LocalDay(o, FirstTerm[LocalMidnight(o, DayOne[o][k])]) >= DayOne[o][NextMonthStart[k]])
    BY <1>1, Zenon DEF NoZhongqi
  <2> QED  BY <1>7, <2>1, <2>2 DEF m
<1>9. LocalDay(o, Term[a]) \in Int /\ DayOne[o][k] <= LocalDay(o, Term[a])
  <2>1. LocalDay(o, Term[a]) >= DayOne[o][k]
    BY <1>2, <1>6, OnOrAfter DEF m
  <2> QED  BY <1>2, <1>6, <2>1, DayOfInstant
<1>10. CASE LocalDay(o, Term[a]) >= DayOne[o][k + 1]
  <2>1. ASSUME NEW i \in 0 .. LastTerm,
               DayOne[o][k] <= LocalDay(o, Term[i]), LocalDay(o, Term[i]) < DayOne[o][k + 1]
        PROVE  FALSE
    <3>1. Term[i] \in Int /\ LocalDay(o, Term[i]) \in Int
      BY Terms, DayOfInstant
    <3>2. LocalDay(o, Term[i]) >= DayOne[o][k]
      BY <1>2, <2>1, <3>1
    <3>3. Term[i] >= m
      BY <1>2, <3>1, <3>2, OnOrAfter DEF m
    <3>4. a <= i
      BY <1>1, <1>5, <3>3
    <3>5. Term[a] <= Term[i]
      BY <1>6, <3>4, Terms
    <3>6. LocalDay(o, Term[a]) <= LocalDay(o, Term[i])
      BY <1>6, <3>1, <3>5, DaysInOrder
    <3> QED  BY <1>2, <1>9, <1>10, <2>1, <3>1, <3>6
  <2> QED  BY <1>8, <1>10, <2>1
<1>11. CASE ~(LocalDay(o, Term[a]) >= DayOne[o][k + 1])
  <2>1. LocalDay(o, Term[a]) < DayOne[o][k + 1]
    BY <1>2, <1>9, <1>11
  <2>2. ~NoZhongqi[o][k]
    BY <1>8, <1>11, Zenon
  <2> QED  BY <1>6, <1>9, <2>1, <2>2, Zenon
<1> QED  BY <1>10, <1>11

(* Of thirteen lunations from one month 11 to the next, one after the      *)
(* first has no term: there are eleven terms between the two solstices,    *)
(* and the last lunation, with the second of them, is not meant.           *)
LEMMA OneHasNoTerm ==
    ASSUME NEW o \in Offsets, NEW y \in SolsticeYears, y <= LastYear,
           Eleven(o, y + 1) = Eleven(o, y) + 13
    PROVE  \E k \in Eleven(o, y) + 1 .. Eleven(o, y) + 12 : NoZhongqi[o][k]
<1> DEFINE f == Eleven(o, y)
           b == 12 * (y - FirstYear + 2)
           In(n) == LocalDay(o, Term[b + n]) < DayOne[o][f + n + 1]
           Out == {n \in Nat : n <= 12 /\ ~In(n)}
<1>1. y + 1 \in SolsticeYears
  BY SolsticeIsTerm
<1>2. /\ b \in 0 .. LastTerm /\ b + 12 \in 0 .. LastTerm /\ LastTerm \in Nat
      /\ SolsticeOf(y) = Term[b] /\ SolsticeOf(y + 1) = Term[b + 12]
  BY SolsticeIsTerm, Terms
<1>3. /\ f \in 0 .. LastMoon - 2 /\ f + 13 \in 0 .. LastMoon - 2 /\ LastMoon \in Nat
      /\ Dongzhi(o, y) < DayOne[o][f + 1] /\ DayOne[o][f + 13] <= Dongzhi(o, y + 1)
  BY <1>1, ElevenOwns, TwelveOrThirteen, Lunations DEF Owns
<1>4. /\ \A n \in Nat : n <= 12 => b + n \in 0 .. LastTerm /\ Term[b + n] \in Int
      /\ \A n \in Nat : n <= 12 => LocalDay(o, Term[b + n]) \in Int
  <2> HIDE DEF b
  <2>1. \A n \in Nat : n <= 12 => b + n \in 0 .. LastTerm
    BY <1>2
  <2> QED  BY <2>1, Terms, DayOfInstant
<1>5. \A j \in 0 .. LastMoon : DayOne[o][j] \in Int
  BY FirstDay
<1>6. DayOne[o][f + 13] <= Dongzhi(o, LastYear + 1)
  <2>1. /\ LastYear + 1 \in SolsticeYears /\ (y + 1 = LastYear + 1 \/ y + 1 < LastYear + 1)
    BY Years
  <2>2. Dongzhi(o, y + 1) <= Dongzhi(o, LastYear + 1)
    BY <1>1, <2>1, SolsticesInOrder, SolsticeApart
  <2>3. Dongzhi(o, y + 1) \in Int /\ Dongzhi(o, LastYear + 1) \in Int /\ DayOne[o][f + 13] \in Int
    <3>1. f + 13 \in 0 .. LastMoon
      BY <1>3
    <3> QED  BY <1>1, <1>5, <2>1, <3>1, SolsticeApart
  <2> QED  BY <1>3, <2>2, <2>3
<1> HIDE DEF f, b
<1> SUFFICES ASSUME \A k \in f + 1 .. f + 12 : ~NoZhongqi[o][k] PROVE FALSE
  BY DEF f
<1>7. 12 \in Out
  <2>1. LocalDay(o, Term[b + 12]) = Dongzhi(o, y + 1) /\ f + 12 + 1 = f + 13
    BY <1>2, <1>3 DEF Dongzhi
  <2>2. f + 13 \in 0 .. LastMoon
    BY <1>3
  <2>3. ~In(12)
    BY <1>3, <1>4, <1>5, <2>1, <2>2
  <2> QED  BY <2>3
<1>8. PICK n \in Out : \A i \in Out : n <= i
  BY <1>7, LeastNumber
<1>9. n \in Nat /\ n <= 12 /\ ~In(n)
  BY <1>8
<1>10. CASE n = 0
  <2>1. LocalDay(o, Term[b + n]) = Dongzhi(o, y) /\ f + n + 1 = f + 1
    BY <1>2, <1>3, <1>10 DEF Dongzhi
  <2> QED  BY <1>3, <1>9, <2>1
<1>11. CASE n # 0
  <2> DEFINE k == f + n
  <2>1. /\ n - 1 \in Nat /\ n - 1 <= 12 /\ ~(n <= n - 1)
        /\ k \in f + 1 .. f + 12 /\ k \in 0 .. LastMoon - 2 /\ f + (n - 1) + 1 = k
        /\ f + n + 1 = k + 1 /\ k \in 0 .. LastMoon /\ k + 1 \in 0 .. LastMoon
        /\ k <= f + 13 /\ f + 13 \in 0 .. LastMoon
    BY <1>3, <1>9, <1>11
  <2>2. In(n - 1)
    BY <1>8, <2>1
  <2> HIDE DEF k
  <2>3. DayOne[o][k] <= Dongzhi(o, LastYear + 1)
    <3>1. DayOne[o][k] <= DayOne[o][f + 13]
      BY <2>1, MonthsInOrder
    <3>2. LastYear + 1 \in SolsticeYears
      BY Years
    <3>3. DayOne[o][k] \in Int /\ DayOne[o][f + 13] \in Int /\ Dongzhi(o, LastYear + 1) \in Int
      BY <1>5, <2>1, <3>2, SolsticeApart
    <3> QED  BY <1>6, <3>1, <3>3
  <2>4. PICK i \in 0 .. LastTerm : /\ DayOne[o][k] <= LocalDay(o, Term[i])
                                   /\ LocalDay(o, Term[i]) < DayOne[o][k + 1]
    BY <2>1, <2>3, TermOfMonth
  <2>5. Term[i] \in Int /\ LocalDay(o, Term[i]) \in Int
    BY Terms, DayOfInstant
  <2>6. LocalDay(o, Term[b + (n - 1)]) < LocalDay(o, Term[i])
    BY <1>4, <1>5, <2>1, <2>2, <2>4, <2>5
  <2>7. ~(Term[i] <= Term[b + (n - 1)])
    <3> SUFFICES ASSUME Term[i] <= Term[b + (n - 1)] PROVE FALSE
      OBVIOUS
    <3>1. Term[b + (n - 1)] \in Int /\ LocalDay(o, Term[b + (n - 1)]) \in Int
      BY <1>4, <2>1
    <3>2. LocalDay(o, Term[i]) <= LocalDay(o, Term[b + (n - 1)])
      BY <2>5, <3>1, DaysInOrder
    <3> QED  BY <2>5, <2>6, <3>1, <3>2
  <2>8. b + (n - 1) < i
    <3>1. b + (n - 1) \in 0 .. LastTerm
      BY <1>4, <2>1
    <3>2. ~(i <= b + (n - 1))
      BY <2>7, <3>1, Terms
    <3> QED  BY <1>2, <3>1, <3>2
  <2>9. b + n \in 0 .. LastTerm /\ b + n <= i
    BY <1>2, <1>4, <1>9, <2>8
  <2>10. LocalDay(o, Term[b + n]) <= LocalDay(o, Term[i])
    <3>1. Term[b + n] <= Term[i] /\ Term[b + n] \in Int
      BY <2>9, Terms
    <3> QED  BY <2>5, <3>1, DaysInOrder
  <2>11. In(n)
    BY <1>4, <1>5, <1>9, <2>1, <2>4, <2>5, <2>10
  <2> QED  BY <1>9, <2>11
<1> QED  BY <1>10, <1>11

(* The numbering of the months of one span.                                *)
LeapOf(o, y) == LeapIn[o][Eleven(o, y)][Eleven(o, y + 1)]
FirstOf(o, y) == Zhengyue[Eleven(o, y)][LeapOf(o, y)]
NumberIn(o, y, k) == Number[Eleven(o, y)][LeapOf(o, y)][k]

(* If there are thirteen, the leap month is the first without a term; if   *)
(* twelve, there is none, and "none" is the place after the last.          *)
LEMMA LeapMonth ==
    ASSUME NEW o \in Offsets, NEW y \in SolsticeYears, y <= LastYear
    PROVE  LET f == Eleven(o, y)
               l == Eleven(o, y + 1)
               leap == LeapOf(o, y)
           IN  /\ f \in Int /\ l \in Int /\ leap \in Int
               /\ \/ l = f + 12 /\ leap = f + 13
                  \/ l = f + 13 /\ leap \in f + 1 .. f + 12 /\ NoZhongqi[o][leap]
<1> DEFINE f == Eleven(o, y)
           l == Eleven(o, y + 1)
           leap == LeapOf(o, y)
           Leaps(k) == NoZhongqi[o][k] /\ \A j \in f + 1 .. k - 1 : ~NoZhongqi[o][j]
<1>1. f \in Nat /\ l \in Nat /\ (l = f + 12 \/ l = f + 13)
  BY TwelveOrThirteen, Lunations
<1>2. leap = IF l - f = 13 THEN CHOOSE k \in f + 1 .. l : Leaps(k) ELSE l + 1
  BY <1>1 DEF LeapIn, LeapOf
<1>3. CASE l = f + 12
  BY <1>1, <1>2, <1>3
<1>4. CASE l = f + 13
  <2> DEFINE S == {k \in Nat : k \in f + 1 .. f + 12 /\ NoZhongqi[o][k]}
  <2>1. \E k \in f + 1 .. f + 12 : NoZhongqi[o][k]
    BY <1>4, OneHasNoTerm
  <2>2. S # {}
    BY <1>1, <2>1
  <2> HIDE DEF f, l, leap
  <2>3. PICK k \in S : \A i \in S : k <= i
    BY <2>2, LeastNumber
  <2>4. k \in f + 1 .. f + 12 /\ k \in f + 1 .. l /\ NoZhongqi[o][k]
    BY <1>1, <1>4, <2>3
  <2>5. \A j \in f + 1 .. k - 1 : ~NoZhongqi[o][j]
    <3> SUFFICES ASSUME NEW j \in f + 1 .. k - 1, NoZhongqi[o][j] PROVE FALSE
      OBVIOUS
    <3>1. j \in S /\ ~(k <= j)
      BY <1>1, <2>4
    <3> QED  BY <2>3, <3>1
  <2>6. \A i \in f + 1 .. l : Leaps(i) => i = k
    <3> SUFFICES ASSUME NEW i \in f + 1 .. l, Leaps(i), i # k PROVE FALSE
      OBVIOUS
    <3>1. i < k \/ k < i
      BY <1>1, <2>4
    <3>2. CASE i < k
      <4>1. i \in f + 1 .. k - 1
        BY <1>1, <2>4, <3>2
      <4> QED  BY <2>5, <4>1
    <3>3. CASE k < i
      <4>1. k \in f + 1 .. i - 1
        BY <1>1, <2>4, <3>3
      <4> QED  BY <2>4, <4>1
    <3> QED  BY <3>1, <3>2, <3>3
  <2>7. leap = CHOOSE i \in f + 1 .. l : Leaps(i)
    BY <1>1, <1>2, <1>4
  <2>8. leap = k
    <3>1. Leaps(k)
      BY <2>4, <2>5
    <3> HIDE DEF Leaps
    <3> QED  BY <2>4, <2>6, <2>7, <3>1
  <2> QED  BY <1>1, <1>4, <2>4, <2>8 DEF f, l, leap
<1> QED  BY <1>1, <1>3, <1>4

(* Month 1 is the third of the span, or the fourth if one of the first     *)
(* two after month 11 is the leap month.                                   *)
LEMMA FirstMonth ==
    ASSUME NEW f \in Int, NEW leap \in Int, f < leap
    PROVE  Zhengyue[f][leap] = IF leap <= f + 2 THEN f + 3 ELSE f + 2
<1> DEFINE One(k) == /\ Number[f][leap][k] = 1 /\ k # leap
                     /\ \A j \in f + 1 .. k - 1 : Number[f][leap][j] # 1
           z == IF leap <= f + 2 THEN f + 3 ELSE f + 2
<1>1. \A k \in Int : Number[f][leap][k] =
                         ((10 + (k - f) - (IF k >= leap THEN 1 ELSE 0)) % 12) + 1
  BY DEF Number
<1>2. Number[f][leap][f + 1] # 1
  <2>1. Number[f][leap][f + 1] = ((10 + 1 - (IF f + 1 >= leap THEN 1 ELSE 0)) % 12) + 1
    BY <1>1
  <2> QED  BY <2>1
<1>3. leap <= f + 2 => Number[f][leap][f + 2] # 1 /\ Number[f][leap][f + 3] = 1
  <2> SUFFICES ASSUME leap <= f + 2 PROVE Number[f][leap][f + 2] # 1 /\ Number[f][leap][f + 3] = 1
    OBVIOUS
  <2>1. f + 2 \in Int /\ f + 3 \in Int /\ f + 2 >= leap /\ f + 3 >= leap
    OBVIOUS
  <2>2. Number[f][leap][f + 2] = ((10 + ((f + 2) - f) - 1) % 12) + 1
        /\ Number[f][leap][f + 3] = ((10 + ((f + 3) - f) - 1) % 12) + 1
    BY <1>1, <2>1
  <2>3. (f + 2) - f = 2 /\ (f + 3) - f = 3
    OBVIOUS
  <2> QED  BY <2>2, <2>3
<1>4. leap > f + 2 => Number[f][leap][f + 2] = 1
  <2> SUFFICES ASSUME leap > f + 2 PROVE Number[f][leap][f + 2] = 1
    OBVIOUS
  <2>1. f + 2 \in Int /\ ~(f + 2 >= leap) /\ (f + 2) - f = 2
    OBVIOUS
  <2>2. Number[f][leap][f + 2] = ((10 + 2 - 0) % 12) + 1
    BY <1>1, <2>1
  <2> QED  BY <2>2
<1>5. z \in f + 1 .. f + 13 /\ One(z)
  <2>1. CASE leap <= f + 2
    BY <1>2, <1>3, <2>1
  <2>2. CASE leap > f + 2
    BY <1>2, <1>4, <2>2
  <2> QED  BY <2>1, <2>2
<1>6. \A k \in f + 1 .. f + 13 : One(k) => k = z
  <2> SUFFICES ASSUME NEW k \in f + 1 .. f + 13, One(k), k # z PROVE FALSE
    OBVIOUS
  <2>1. k < z \/ z < k
    BY <1>5
  <2>2. CASE k < z
    BY <1>5, <2>2
  <2>3. CASE z < k
    BY <1>5, <2>3
  <2> QED  BY <2>1, <2>2, <2>3
<1>7. Zhengyue[f][leap] = CHOOSE k \in f + 1 .. f + 13 : One(k)
  BY DEF Zhengyue
<1>8. Zhengyue[f][leap] = z
  <2> HIDE DEF One, z
  <2> QED  BY <1>5, <1>6, <1>7
<1> QED  BY <1>8

(* The months of a span: 11 at both ends, which are not leap months; only  *)
(* the first has number 1 without being a leap month.                      *)
LEMMA MonthsOfSpan ==
    ASSUME NEW o \in Offsets, NEW y \in SolsticeYears, y <= LastYear
    PROVE  LET f == Eleven(o, y)
               l == Eleven(o, y + 1)
               z == FirstOf(o, y)
           IN  /\ z \in {f + 2, f + 3} /\ z # LeapOf(o, y)
               /\ f # LeapOf(o, y) /\ l # LeapOf(o, y)
               /\ NumberIn(o, y, f) = 11 /\ NumberIn(o, y, l) = 11
               /\ \A k \in f .. l :
                     /\ NumberIn(o, y, k) \in 1 .. 12
                     /\ k # LeapOf(o, y) => (NumberIn(o, y, k) = 1 <=> k = z)
<1> DEFINE f == Eleven(o, y)
           l == Eleven(o, y + 1)
           z == FirstOf(o, y)
           leap == LeapOf(o, y)
<1>1. /\ f \in Int /\ l \in Int /\ leap \in Int /\ f < leap
      /\ \/ l = f + 12 /\ leap = f + 13
         \/ l = f + 13 /\ leap \in f + 1 .. f + 12
  BY LeapMonth
<1>2. z = IF leap <= f + 2 THEN f + 3 ELSE f + 2
  BY <1>1, FirstMonth DEF FirstOf
<1>3. \A k \in Int : NumberIn(o, y, k) =
                         ((10 + (k - f) - (IF k >= leap THEN 1 ELSE 0)) % 12) + 1
  BY <1>1 DEF Number, NumberIn
<1> HIDE DEF f, l, z, leap
<1>4. z \in {f + 2, f + 3} /\ z # leap /\ f # leap /\ l # leap
  BY <1>1, <1>2
<1>5. NumberIn(o, y, f) = 11
  <2>1. f - f = 0 /\ ~(f >= leap)
    BY <1>1
  <2> QED  BY <1>1, <1>3, <2>1
<1>6. NumberIn(o, y, l) = 11
  <2>1. CASE l = f + 12
    <3>1. l - f = 12 /\ ~(l >= leap)
      BY <1>1, <2>1
    <3>2. NumberIn(o, y, l) = ((10 + 12 - 0) % 12) + 1
      BY <1>1, <1>3, <3>1
    <3> QED  BY <3>2
  <2>2. CASE l = f + 13
    <3>1. l - f = 13 /\ l >= leap
      BY <1>1, <2>2
    <3>2. NumberIn(o, y, l) = ((10 + 13 - 1) % 12) + 1
      BY <1>1, <1>3, <3>1
    <3> QED  BY <3>2
  <2> QED  BY <1>1, <2>1, <2>2
<1>7. ASSUME NEW k \in f .. l
      PROVE  /\ NumberIn(o, y, k) \in 1 .. 12
             /\ k # leap => (NumberIn(o, y, k) = 1 <=> k = z)
  <2> DEFINE n == k - f
  <2>1. n \in 0 .. 13 /\ k = f + n /\ k \in Int
    BY <1>1
  <2>2. NumberIn(o, y, k) = ((10 + n - (IF k >= leap THEN 1 ELSE 0)) % 12) + 1
    BY <1>3, <2>1
  <2>3. NumberIn(o, y, k) = ((10 + n - (IF f + n >= leap THEN 1 ELSE 0)) % 12) + 1
    BY <2>1, <2>2
  <2> HIDE DEF n
  <2>4. NumberIn(o, y, k) \in 1 .. 12
    <3>1. CASE f + n >= leap
      BY <2>1, <2>3, <3>1
    <3>2. CASE ~(f + n >= leap)
      BY <2>1, <2>3, <3>2
    <3> QED  BY <3>1, <3>2
  <2>5. ASSUME f + n # leap PROVE NumberIn(o, y, k) = 1 <=> f + n = z
    <3>1. CASE f + n > leap
      <4>1. NumberIn(o, y, k) = ((9 + n) % 12) + 1
        BY <1>1, <2>1, <2>3, <3>1
      <4>2. NumberIn(o, y, k) = 1 <=> n = 3
        BY <2>1, <4>1
      <4> QED  BY <1>1, <1>2, <2>1, <3>1, <4>2
    <3>2. CASE f + n < leap
      <4>1. NumberIn(o, y, k) = ((10 + n) % 12) + 1
        BY <1>1, <2>1, <2>3, <3>2
      <4>2. NumberIn(o, y, k) = 1 <=> n = 2
        BY <2>1, <4>1
      <4> QED  BY <1>1, <1>2, <2>1, <3>2, <4>2
    <3> QED  BY <1>1, <2>1, <2>5, <3>1, <3>2
  <2> QED  BY <2>1, <2>4, <2>5
<1> QED  BY <1>4, <1>5, <1>6, <1>7 DEF f, l, z, leap

(* The day number of the first of January.                                 *)
JanuaryFirst(y) == Jdn([y |-> y, m |-> 1, d |-> 1])

(* The first day of a year, by the leap days of the calendar.              *)
LEMMA YearBegins ==
    ASSUME NEW y \in Nat
    PROVE  /\ LeapDays(y + 4799) \in Int /\ JanuaryFirst(y) \in Int
           /\ JanuaryFirst(y) = 365 * (y + 4799) + LeapDays(y + 4799) - 31738
<1>1. [y |-> y, m |-> 1, d |-> 1] \in CalendarDate
  BY DEF CalendarDate
<1>2. LeapDays(y + 4799) \in Int
  BY LeapDaysGrow
<1> QED  BY <1>1, <1>2, JdnFromMarch, JdnInt DEF JanuaryFirst

(* The 15th and the 28th of December, counted back from the next year.     *)
LEMMA YearEnds ==
    ASSUME NEW y \in Nat
    PROVE  /\ Jdn([y |-> y, m |-> 12, d |-> 15]) = JanuaryFirst(y + 1) - 17
           /\ Jdn([y |-> y, m |-> 12, d |-> 28]) = JanuaryFirst(y + 1) - 4
<1>1. /\ [y |-> y + 1, m |-> 1, d |-> 1] \in CalendarDate
      /\ [y |-> y, m |-> 12, d |-> 15] \in CalendarDate
      /\ [y |-> y, m |-> 12, d |-> 28] \in CalendarDate
  BY DEF CalendarDate
<1>2. LeapDays(y + 4800) \in Int
  BY LeapDaysGrow
<1> QED  BY <1>1, <1>2, JdnFromMarch DEF JanuaryFirst

(* A later year begins at least 363 days later.                            *)
LEMMA YearsGoOn ==
    ASSUME NEW y \in Nat, NEW z \in Nat, y < z
    PROVE  /\ JanuaryFirst(y) \in Int /\ JanuaryFirst(z) \in Int
           /\ JanuaryFirst(z) >= JanuaryFirst(y) + 363
<1>1. y + 4799 \in Nat /\ z + 4799 \in Nat
  OBVIOUS
<1>2. /\ LeapDays(y + 4799) \in Int /\ LeapDays(z + 4799) \in Int
      /\ 10000 * LeapDays(y + 4799) <= 2425 * (y + 4799) + 7200
      /\ 2425 * (z + 4799) - 14775 <= 10000 * LeapDays(z + 4799)
  BY <1>1, LeapDrift
<1>3. LeapDays(z + 4799) >= LeapDays(y + 4799) - 1
  BY <1>1, <1>2
<1>4. /\ JanuaryFirst(y) \in Int /\ JanuaryFirst(z) \in Int
      /\ JanuaryFirst(y) = 365 * (y + 4799) + LeapDays(y + 4799) - 31738
      /\ JanuaryFirst(z) = 365 * (z + 4799) + LeapDays(z + 4799) - 31738
  BY YearBegins
<1> QED  BY <1>2, <1>3, <1>4

(* The Gregorian year of a day.                                            *)
LEMMA YearFound ==
    ASSUME NEW y \in FirstYear - 3 .. LastYear + 3, NEW day \in Int,
           JanuaryFirst(y) <= day, day < JanuaryFirst(y + 1)
    PROVE  YearOf(day) = y
<1> DEFINE Labels == FirstYear - 3 .. LastYear + 3
           Spans(x) == JanuaryFirst(x) <= day /\ day < JanuaryFirst(x + 1)
<1>1. Labels \subseteq Nat /\ y \in Nat
  BY Years
<1>2. ASSUME NEW x \in Labels, Spans(x) PROVE x = y
  <2>1. x \in Nat /\ x + 1 \in Nat /\ y + 1 \in Nat
    BY <1>1
  <2>2. CASE x < y
    <3>1. JanuaryFirst(x + 1) <= JanuaryFirst(y)
      <4>1. CASE x + 1 = y
        <5>1. JanuaryFirst(y) \in Int
          BY <1>1, YearBegins
        <5> QED  BY <4>1, <5>1
      <4>2. CASE x + 1 < y
        BY <1>1, <2>1, <4>2, YearsGoOn
      <4> QED  BY <1>1, <2>1, <2>2, <4>1, <4>2
    <3>2. JanuaryFirst(y) \in Int /\ JanuaryFirst(x + 1) \in Int
      BY <1>1, <2>1, YearBegins
    <3> QED  BY <1>2, <3>1, <3>2
  <2>3. CASE y < x
    <3>1. JanuaryFirst(y + 1) <= JanuaryFirst(x)
      <4>1. CASE y + 1 = x
        <5>1. JanuaryFirst(x) \in Int
          BY <2>1, YearBegins
        <5> QED  BY <4>1, <5>1
      <4>2. CASE y + 1 < x
        BY <1>1, <2>1, <4>2, YearsGoOn
      <4> QED  BY <1>1, <2>1, <2>3, <4>1, <4>2
    <3>2. JanuaryFirst(x) \in Int /\ JanuaryFirst(y + 1) \in Int
      BY <1>1, <2>1, YearBegins
    <3> QED  BY <1>2, <3>1, <3>2
  <2> QED  BY <1>1, <2>1, <2>2, <2>3
<1>3. YearOf(day) = CHOOSE x \in Labels : Spans(x)
  BY DEF YearOf, JanuaryFirst
<1>4. y \in Labels /\ Spans(y)
  OBVIOUS
<1> QED
  <2> HIDE DEF Labels, Spans
  <2> QED  BY <1>2, <1>3, <1>4

(* The winter solstice falls into the second half of December.             *)
LEMMA SolsticeInDecember ==
    ASSUME NEW o \in Offsets, NEW y \in SolsticeYears
    PROVE  /\ JanuaryFirst(y + 1) \in Int
           /\ Dongzhi(o, y) >= JanuaryFirst(y + 1) - 17
           /\ Dongzhi(o, y) <= JanuaryFirst(y + 1) - 4
<1>1. y \in Nat /\ y + 1 \in Nat
  BY Years
<1>2. /\ Dongzhi(o, y) >= Jdn([y |-> y, m |-> 12, d |-> 15])
      /\ Dongzhi(o, y) <= Jdn([y |-> y, m |-> 12, d |-> 28])
  BY TermAssumption DEF Dongzhi
<1> QED  BY <1>1, <1>2, YearBegins, YearEnds

(* Month 1 begins in the Gregorian year after that of the solstice.        *)
LEMMA YearOfSpan ==
    ASSUME NEW o \in Offsets, NEW y \in SolsticeYears, y <= LastYear
    PROVE  /\ FirstOf(o, y) \in 0 .. LastMoon
           /\ YearOf(DayOne[o][FirstOf(o, y)]) = y + 1
<1> DEFINE f == Eleven(o, y)
           z == FirstOf(o, y)
           d == Dongzhi(o, y)
<1>1. /\ f \in 0 .. LastMoon - 2 /\ f + 12 <= LastMoon - 2 /\ LastMoon \in Nat
  BY TwelveOrThirteen, Lunations
<1>2. z \in {f + 2, f + 3}
  BY MonthsOfSpan
<1>3. /\ d \in Int /\ DayOne[o][f] <= d /\ d < DayOne[o][f + 1]
  BY ElevenOwns, SolsticeApart DEF Owns
<1>4. /\ y \in Nat /\ y + 1 \in FirstYear - 3 .. LastYear + 3 /\ y + 1 \in Nat /\ (y + 1) + 1 \in Nat
  BY Years
<1>5. d >= JanuaryFirst(y + 1) - 17 /\ d <= JanuaryFirst(y + 1) - 4
  BY SolsticeInDecember
<1> HIDE DEF f, z, d
<1>6. /\ f + 1 \in 0 .. LastMoon /\ f \in 0 .. LastMoon /\ z \in 0 .. LastMoon
      /\ z - (f + 1) \in {1, 2} /\ z - (f + 1) \in Nat /\ (f + 1) + (z - (f + 1)) = z
      /\ f + 1 <= LastMoon /\ (f + 1) + (z - (f + 1)) <= LastMoon
  BY <1>1, <1>2
<1>7. /\ DayOne[o][f] \in Int /\ DayOne[o][f + 1] \in Int /\ DayOne[o][f + 1] <= DayOne[o][f] + 30
  BY <1>1, MonthLengths
<1>8. /\ DayOne[o][(f + 1) + (z - (f + 1))] >= DayOne[o][f + 1] + 29 * (z - (f + 1))
      /\ DayOne[o][(f + 1) + (z - (f + 1))] <= DayOne[o][f + 1] + 30 * (z - (f + 1))
  BY <1>6, MonthsApart
<1>9. DayOne[o][z] \in Int /\ DayOne[o][z] > d + 29 /\ DayOne[o][z] <= d + 90
  <2>1. DayOne[o][z] \in Int
    BY <1>6, FirstDay
  <2>2. DayOne[o][z] >= DayOne[o][f + 1] + 29 /\ DayOne[o][z] <= DayOne[o][f + 1] + 60
    <3>1. CASE z - (f + 1) = 1
      BY <1>6, <1>7, <1>8, <2>1, <3>1
    <3>2. CASE z - (f + 1) = 2
      BY <1>6, <1>7, <1>8, <2>1, <3>2
    <3> QED  BY <1>6, <3>1, <3>2
  <2> QED  BY <1>3, <1>7, <2>1, <2>2
<1>10. /\ JanuaryFirst(y + 1) \in Int /\ JanuaryFirst((y + 1) + 1) \in Int
       /\ JanuaryFirst((y + 1) + 1) >= JanuaryFirst(y + 1) + 363
  BY <1>4, YearsGoOn
<1>11. JanuaryFirst(y + 1) <= DayOne[o][z] /\ DayOne[o][z] < JanuaryFirst((y + 1) + 1)
  BY <1>3, <1>5, <1>9, <1>10
<1>12. YearOf(DayOne[o][z]) = y + 1
  BY <1>4, <1>9, <1>11, YearFound
<1> QED  BY <1>6, <1>12 DEF z

(* The lunar date of a day, by the span of its solstice year.              *)
LunarDateIn(o, y, k, day) ==
    [year |-> IF FirstOf(o, y) <= k THEN y + 1 ELSE y, month |-> NumberIn(o, y, k),
     leap |-> k = LeapOf(o, y), day |-> day - DayOne[o][k] + 1,
     length |-> DayOne[o][k + 1] - DayOne[o][k], found |-> TRUE]

(* Sixty days before month 11 begins it is the span of the year before.    *)
LEMMA SpanOfPreviousMonth ==
    ASSUME NEW o \in Offsets, NEW y \in SolsticeYears, y <= LastYear, y >= FirstYear - 1
    PROVE  /\ y - 1 \in SolsticeYears /\ y - 1 <= LastYear
           /\ Sui[o][DayOne[o][Eleven(o, y)] - 60].zhengyue = FirstOf(o, y - 1)
<1> DEFINE f == Eleven(o, y)
           d == Dongzhi(o, y)
           c == Dongzhi(o, y - 1)
<1>1. /\ y - 1 \in SolsticeYears /\ y - 1 <= LastYear /\ (y - 1) + 1 = y /\ y \in Int
  BY Years
<1>2. c \in Int /\ d \in Int /\ d >= c + 365
  <2>1. Dongzhi(o, (y - 1) + 1) >= Dongzhi(o, y - 1) + 365 /\ Dongzhi(o, y - 1) \in Int
        /\ Dongzhi(o, (y - 1) + 1) \in Int
    BY <1>1, SolsticeApart
  <2> QED  BY <1>1, <2>1
<1>3. f \in 0 .. LastMoon - 2 /\ DayOne[o][f] <= d /\ d < DayOne[o][f + 1]
  BY ElevenOwns DEF Owns
<1>4. /\ DayOne[o][f] \in Int /\ DayOne[o][f + 1] \in Int /\ DayOne[o][f + 1] <= DayOne[o][f] + 30
  <2>1. f \in 0 .. LastMoon - 1
    BY <1>3, Lunations
  <2> HIDE DEF f
  <2> QED  BY <2>1, MonthLengths
<1>5. DayOne[o][f] - 60 \in Int /\ c <= DayOne[o][f] - 60 /\ DayOne[o][f] - 60 < d
  <2> HIDE DEF c, d, f
  <2> QED  BY <1>2, <1>3, <1>4
<1>6. Sui[o][DayOne[o][f] - 60] = NumberedSui[o][Eleven(o, y - 1)][Eleven(o, y)]
  <2>1. DayOne[o][f] - 60 < Dongzhi(o, (y - 1) + 1)
    BY <1>1, <1>5
  <2>2. Sui[o][DayOne[o][f] - 60] = NumberedSui[o][Eleven(o, y - 1)][Eleven(o, (y - 1) + 1)]
    <3> HIDE DEF f
    <3> QED  BY <1>1, <1>5, <2>1, SpanOfDay
  <2> QED  BY <1>1, <2>2
<1>7. Eleven(o, y - 1) \in Int /\ Eleven(o, y) \in Int
  BY <1>1, ElevenOwns DEF Owns
<1>8. Sui[o][DayOne[o][f] - 60].zhengyue =
          Zhengyue[Eleven(o, y - 1)][LeapIn[o][Eleven(o, y - 1)][Eleven(o, y)]]
  BY <1>6, <1>7 DEF NumberedSui
<1> QED  BY <1>1, <1>8 DEF FirstOf, LeapOf

(* Resolve answers that date, of the span the day is in.                   *)
LEMMA ResolveIn ==
    ASSUME NEW o \in Offsets, NEW y \in SolsticeYears, y <= LastYear, y >= FirstYear - 1,
           NEW day \in Int, Dongzhi(o, y) <= day, day < Dongzhi(o, y + 1),
           NEW k, Owns(o, k, day)
    PROVE  /\ k \in Eleven(o, y) .. Eleven(o, y + 1)
           /\ Resolve[o][day] = LunarDateIn(o, y, k, day)
<1> DEFINE f == Eleven(o, y)
           l == Eleven(o, y + 1)
           z == FirstOf(o, y)
           d == Dongzhi(o, y)
           e == Dongzhi(o, y + 1)
<1>1. y + 1 \in SolsticeYears /\ y \in Int
  BY SolsticeIsTerm, Years
<1>2. d \in Int /\ e \in Int
  BY <1>1, SolsticeApart
<1>3. /\ f \in 0 .. LastMoon - 2 /\ DayOne[o][f] <= d
      /\ l \in 0 .. LastMoon - 2 /\ e < DayOne[o][l + 1]
      /\ k \in 0 .. LastMoon - 2 /\ DayOne[o][k] <= day /\ day < DayOne[o][k + 1]
  BY <1>1, ElevenOwns DEF Owns
<1>4. /\ f \in 0 .. LastMoon /\ l + 1 \in 0 .. LastMoon /\ k \in 0 .. LastMoon
      /\ k + 1 \in 0 .. LastMoon /\ l \in 0 .. LastMoon /\ k \in 0 .. LastMoon - 1
  BY <1>3, Lunations
<1>5. /\ DayOne[o][f] \in Int /\ DayOne[o][l + 1] \in Int /\ DayOne[o][k] \in Int
      /\ DayOne[o][k + 1] \in Int
  <2> HIDE DEF f, l
  <2> QED  BY <1>4, FirstDay
<1>6. k \in f .. l
  <2> HIDE DEF f, l, d, e
  <2>1. ~(k + 1 <= f)
    <3>1. ~(DayOne[o][k + 1] <= DayOne[o][f])
      BY <1>2, <1>3, <1>5 DEF d
    <3> QED  BY <1>4, <3>1, MonthsInOrder
  <2>2. ~(l + 1 <= k)
    <3>1. ~(DayOne[o][l + 1] <= DayOne[o][k])
      BY <1>2, <1>3, <1>5 DEF e
    <3> QED  BY <1>4, <3>1, MonthsInOrder
  <2> QED  BY <1>3, <2>1, <2>2
<1>7. MonthStartOwning[o][day] = k /\ NextMonthStart[k] = k + 1
  BY <1>3, OwnerFound, NextIsNext
<1>8. Sui[o][day] = [first |-> f, last |-> l, leap |-> LeapOf(o, y), zhengyue |-> z]
  <2>1. Sui[o][day] = NumberedSui[o][f][l]
    BY SpanOfDay
  <2>2. f \in Int /\ l \in Int
    BY <1>3
  <2> QED  BY <2>1, <2>2 DEF NumberedSui, LeapOf, FirstOf
<1> HIDE DEF f, l, z, d, e
<1>9. YearLabel(o, Sui[o][day], k) = IF z <= k THEN y + 1 ELSE y
  <2>1. z \in 0 .. LastMoon /\ YearOf(DayOne[o][z]) = y + 1
    BY YearOfSpan DEF z
  <2>2. z <= k <=> DayOne[o][z] <= DayOne[o][k]
    BY <1>4, <2>1, MonthsInOrder
  <2>3. YearOf(DayOne[o][Sui[o][DayOne[o][f] - 60].zhengyue]) = y
    <3>1. /\ y - 1 \in SolsticeYears /\ y - 1 <= LastYear
          /\ Sui[o][DayOne[o][f] - 60].zhengyue = FirstOf(o, y - 1)
      BY SpanOfPreviousMonth DEF f
    <3>2. YearOf(DayOne[o][FirstOf(o, y - 1)]) = (y - 1) + 1
      BY <3>1, YearOfSpan
    <3> QED  BY <1>1, <3>1, <3>2
  <2>4. Sui[o][day].zhengyue = z /\ Sui[o][day].first = f
    BY <1>8
  <2>5. YearLabel(o, Sui[o][day], k) =
            YearOf(DayOne[o][IF DayOne[o][z] <= DayOne[o][k] THEN z
                             ELSE Sui[o][DayOne[o][f] - 60].zhengyue])
    BY <2>4, Zenon DEF YearLabel
  <2> QED  BY <2>1, <2>2, <2>3, <2>5, Zenon
<1>10. Resolve[o][day] =
           LET i == MonthStartOwning[o][day]
               sui == Sui[o][day]
           IN  [year |-> YearLabel(o, sui, i), month |-> Number[sui.first][sui.leap][i],
                leap |-> i = sui.leap, day |-> day - DayOne[o][i] + 1,
                length |-> DayOne[o][NextMonthStart[i]] - DayOne[o][i],
                found |-> i \in sui.first .. sui.last]
  BY Zenon DEF Resolve
<1>11. /\ Sui[o][day].first = f /\ Sui[o][day].last = l /\ Sui[o][day].leap = LeapOf(o, y)
  BY <1>8
<1>12. (k \in f .. l) = TRUE
  BY <1>6
<1>13. Number[f][LeapOf(o, y)][k] = NumberIn(o, y, k)
  BY DEF NumberIn, f
<1>14. Resolve[o][day] =
           [year |-> YearLabel(o, Sui[o][day], k), month |-> Number[f][LeapOf(o, y)][k],
            leap |-> k = LeapOf(o, y), day |-> day - DayOne[o][k] + 1,
            length |-> DayOne[o][k + 1] - DayOne[o][k], found |-> k \in f .. l]
  BY <1>7, <1>10, <1>11, Zenon
<1>15. Resolve[o][day] = LunarDateIn(o, y, k, day)
  BY <1>9, <1>12, <1>13, <1>14, Zenon DEF LunarDateIn, z
<1> QED  BY <1>6, <1>15 DEF f, l

(* At the solstice one span ends and the next begins, both with the same   *)
(* month: either gives the day the same date.                              *)
LEMMA SpansMeet ==
    ASSUME NEW o \in Offsets, NEW y \in SolsticeYears, y < LastYear, y >= FirstYear - 1,
           NEW k, Owns(o, k, Dongzhi(o, y + 1))
    PROVE  /\ k = Eleven(o, y + 1)
           /\ Resolve[o][Dongzhi(o, y + 1)] = LunarDateIn(o, y, k, Dongzhi(o, y + 1))
<1> DEFINE f == Eleven(o, y)
           l == Eleven(o, y + 1)
           e == Dongzhi(o, y + 1)
           y2 == y + 1
<1>1. /\ y <= LastYear /\ y2 \in SolsticeYears /\ y2 <= LastYear /\ y2 >= FirstYear - 1
      /\ y \in Int
  BY Years
<1>2. e \in Int /\ e < Dongzhi(o, y2 + 1)
  <2>1. /\ Dongzhi(o, y2) \in Int /\ Dongzhi(o, y2 + 1) \in Int
        /\ Dongzhi(o, y2 + 1) >= Dongzhi(o, y2) + 365
    BY <1>1, SolsticeApart
  <2> QED  BY <2>1
<1>3. k = l
  <2>1. Owns(o, l, e)
    BY <1>1, ElevenOwns
  <2>2. MonthStartOwning[o][e] = k /\ MonthStartOwning[o][e] = l
    BY <1>2, <2>1, OwnerFound DEF Owns
  <2> QED  BY <2>2
<1>4. Resolve[o][e] = LunarDateIn(o, y2, k, e)
  <2> HIDE DEF y2
  <2>1. e = Dongzhi(o, y2) /\ Dongzhi(o, y2) <= e
    BY <1>2 DEF y2
  <2>2. Owns(o, k, e)
    OBVIOUS
  <2> HIDE DEF e
  <2> QED  BY <1>1, <1>2, <2>1, <2>2, ResolveIn
<1>5. LET z == FirstOf(o, y2)
      IN  /\ z \in {l + 2, l + 3} /\ l # LeapOf(o, y2) /\ NumberIn(o, y2, l) = 11
  BY <1>1, MonthsOfSpan
<1>6. LET z == FirstOf(o, y)
      IN  /\ z \in {f + 2, f + 3} /\ l # LeapOf(o, y) /\ NumberIn(o, y, l) = 11
  BY <1>1, MonthsOfSpan
<1>7. f \in Int /\ l \in Int /\ (l = f + 12 \/ l = f + 13)
  BY <1>1, LeapMonth
<1>8. (FirstOf(o, y2) <= k) = FALSE /\ (FirstOf(o, y) <= k) = TRUE
  BY <1>3, <1>5, <1>6, <1>7
<1>9. (k = LeapOf(o, y2)) = FALSE /\ (k = LeapOf(o, y)) = FALSE
  BY <1>3, <1>5, <1>6
<1>10. NumberIn(o, y2, k) = NumberIn(o, y, k)
  BY <1>3, <1>5, <1>6
<1>11. LunarDateIn(o, y2, k, e) = LunarDateIn(o, y, k, e)
  <2> HIDE DEF f, l, e
  <2> QED  BY <1>8, <1>9, <1>10, Zenon DEF LunarDateIn, y2
<1> QED  BY <1>3, <1>4, <1>11

(* The same at the end of a span, where the next begins.                   *)
LEMMA DateInSpan ==
    ASSUME NEW o \in Offsets, NEW y \in SolsticeYears, y <= LastYear, y >= FirstYear - 1,
           NEW day \in Int, Dongzhi(o, y) <= day,
           day < Dongzhi(o, y + 1) \/ (day = Dongzhi(o, y + 1) /\ y < LastYear),
           NEW k, Owns(o, k, day)
    PROVE  /\ k \in Eleven(o, y) .. Eleven(o, y + 1)
           /\ Resolve[o][day] = LunarDateIn(o, y, k, day)
<1>1. CASE day < Dongzhi(o, y + 1)
  BY <1>1, ResolveIn
<1>2. CASE day = Dongzhi(o, y + 1) /\ y < LastYear
  <2>1. /\ k = Eleven(o, y + 1)
        /\ Resolve[o][day] = LunarDateIn(o, y, k, day)
    BY <1>2, SpansMeet
  <2>2. LET f == Eleven(o, y)
            l == Eleven(o, y + 1)
        IN  f \in Int /\ l \in Int /\ (l = f + 12 \/ l = f + 13)
    BY LeapMonth
  <2>3. k \in Eleven(o, y) .. Eleven(o, y + 1)
    BY <2>1, <2>2
  <2> QED  BY <2>1, <2>3
<1> QED  BY <1>1, <1>2

(* The lunation after one of a day.                                        *)
LEMMA NextOwner ==
    ASSUME NEW o \in Offsets, NEW day \in Int, NEW k, NEW j, Owns(o, k, day), Owns(o, j, day + 1)
    PROVE  /\ k \in Int /\ DayOne[o][k] \in Int /\ DayOne[o][k + 1] \in Int
           /\ \/ j = k /\ day + 1 < DayOne[o][k + 1]
              \/ j = k + 1 /\ day + 1 = DayOne[o][k + 1]
<1>1. /\ k \in 0 .. LastMoon - 2 /\ DayOne[o][k] <= day /\ day < DayOne[o][k + 1]
      /\ j \in 0 .. LastMoon - 2 /\ DayOne[o][j] <= day + 1 /\ day + 1 < DayOne[o][j + 1]
      /\ LastMoon \in Nat
  BY Lunations DEF Owns
<1>2. /\ k \in 0 .. LastMoon /\ k + 1 \in 0 .. LastMoon /\ j \in 0 .. LastMoon
      /\ j + 1 \in 0 .. LastMoon /\ k \in Int /\ j \in Int
  BY <1>1
<1>3. /\ DayOne[o][k] \in Int /\ DayOne[o][k + 1] \in Int /\ DayOne[o][j] \in Int
      /\ DayOne[o][j + 1] \in Int
  BY <1>2, FirstDay
<1>4. CASE day + 1 < DayOne[o][k + 1]
  <2>1. MonthStartOwning[o][day + 1] = k /\ MonthStartOwning[o][day + 1] = j
    <3>1. day + 1 \in Int /\ DayOne[o][k] <= day + 1
      BY <1>1, <1>3
    <3> QED  BY <1>1, <1>4, <3>1, OwnerFound
  <2> QED  BY <1>2, <1>3, <1>4, <2>1
<1>5. CASE ~(day + 1 < DayOne[o][k + 1])
  <2>1. day + 1 = DayOne[o][k + 1]
    BY <1>1, <1>3, <1>5
  <2>2. k + 1 <= j
    BY <1>2, <1>3, <1>1, <2>1, MonthsInOrder
  <2>3. ~(j + 1 <= k + 1)
    BY <1>1, <1>2, <1>3, <2>1, MonthsInOrder
  <2>4. ~(k + 2 <= j)
    <3> SUFFICES ASSUME k + 2 <= j PROVE FALSE
      OBVIOUS
    <3>1. /\ k + 1 \in 0 .. LastMoon - 1 /\ k + 2 \in 0 .. LastMoon /\ (k + 1) + 1 = k + 2
      BY <1>1, <1>2
    <3>2. DayOne[o][k + 2] \in Int /\ DayOne[o][k + 2] >= DayOne[o][k + 1] + 29
      BY <3>1, MonthLengths
    <3>3. DayOne[o][k + 2] <= DayOne[o][j]
      BY <1>2, <3>1, MonthsInOrder
    <3> QED  BY <1>1, <1>3, <2>1, <3>2, <3>3
  <2>5. j = k + 1
    BY <1>2, <2>2, <2>4
  <2> QED  BY <1>2, <1>3, <2>1, <2>5
<1> QED  BY <1>4, <1>5

(* From one day to the next the lunar date moves on by one.                *)
LEMMA DateMovesOn ==
    ASSUME NEW o \in Offsets, NEW y \in SolsticeYears, y <= LastYear, y >= FirstYear - 1,
           NEW day \in Int, Dongzhi(o, y) <= day, day < Dongzhi(o, y + 1),
           day + 1 < Dongzhi(o, LastYear + 1)
    PROVE  DayAfter(Resolve[o][day], Resolve[o][day + 1])
<1> DEFINE k == MonthStartOwning[o][day]
           j == MonthStartOwning[o][day + 1]
           f == Eleven(o, y)
           l == Eleven(o, y + 1)
           z == FirstOf(o, y)
           leap == LeapOf(o, y)
           a == Resolve[o][day]
           b == Resolve[o][day + 1]
<1>1. /\ FirstYear - 2 \in SolsticeYears /\ LastYear + 1 \in SolsticeYears /\ y \in Int
      /\ y + 1 \in SolsticeYears /\ FirstYear - 2 < y /\ FirstYear \in Int /\ LastYear \in Int
      /\ (y < LastYear \/ y = LastYear)
  BY Years
<1>2. /\ Dongzhi(o, FirstYear - 2) \in Int /\ Dongzhi(o, LastYear + 1) \in Int
      /\ Dongzhi(o, y) \in Int /\ Dongzhi(o, y + 1) \in Int
  BY <1>1, SolsticeApart
<1>3. Dongzhi(o, FirstYear - 2) <= day
  <2>1. Dongzhi(o, y) >= Dongzhi(o, FirstYear - 2) + 365
    BY <1>1, SolsticesInOrder
  <2> QED  BY <1>2, <2>1
<1>4. Owns(o, k, day) /\ Owns(o, j, day + 1)
  <2>1. day + 1 \in Int /\ Dongzhi(o, FirstYear - 2) <= day + 1
        /\ day <= Dongzhi(o, LastYear + 1) /\ day + 1 <= Dongzhi(o, LastYear + 1)
    BY <1>2, <1>3
  <2>2. Owns(o, MonthStartOwning[o][day], day)
    BY <1>3, <2>1, DaysAreOwned
  <2>3. Owns(o, MonthStartOwning[o][day + 1], day + 1)
    BY <2>1, DaysAreOwned
  <2> QED  BY <2>2, <2>3
<1> HIDE DEF k, j
<1>5. k \in f .. l /\ a = LunarDateIn(o, y, k, day)
  <2>1. day < Dongzhi(o, y + 1) \/ (day = Dongzhi(o, y + 1) /\ y < LastYear)
    OBVIOUS
  <2> QED  BY <1>4, <2>1, DateInSpan, Zenon
<1>6. j \in f .. l /\ b = LunarDateIn(o, y, j, day + 1)
  <2>1. \/ day + 1 < Dongzhi(o, y + 1)
        \/ day + 1 = Dongzhi(o, y + 1) /\ y < LastYear
    BY <1>1, <1>2
  <2>2. day + 1 \in Int /\ Dongzhi(o, y) <= day + 1
    BY <1>2
  <2> QED  BY <1>4, <2>1, <2>2, DateInSpan, Zenon
<1>7. /\ k \in Int /\ DayOne[o][k] \in Int /\ DayOne[o][k + 1] \in Int
      /\ \/ j = k /\ day + 1 < DayOne[o][k + 1]
         \/ j = k + 1 /\ day + 1 = DayOne[o][k + 1]
  BY <1>4, NextOwner
<1> HIDE DEF a, b, f, l, z, leap
<1>8. /\ a.year = (IF z <= k THEN y + 1 ELSE y) /\ a.month = NumberIn(o, y, k)
      /\ a.leap = (k = leap) /\ a.day = day - DayOne[o][k] + 1
      /\ a.length = DayOne[o][k + 1] - DayOne[o][k]
  BY <1>5 DEF LunarDateIn, z, leap
<1>9. /\ b.year = (IF z <= j THEN y + 1 ELSE y) /\ b.month = NumberIn(o, y, j)
      /\ b.leap = (j = leap) /\ b.day = (day + 1) - DayOne[o][j] + 1
      /\ b.length = DayOne[o][j + 1] - DayOne[o][j]
  BY <1>6 DEF LunarDateIn, z, leap
<1>10. CASE j = k /\ day + 1 < DayOne[o][k + 1]
  <2>1. a.year = b.year /\ a.month = b.month /\ a.leap = b.leap /\ a.length = b.length
    BY <1>8, <1>9, <1>10, Zenon
  <2>2. a.day < a.length /\ b.day = a.day + 1
    BY <1>7, <1>8, <1>9, <1>10
  <2> QED  BY <2>1, <2>2 DEF DayAfter, SameMonth, a, b
<1>11. CASE j = k + 1 /\ day + 1 = DayOne[o][k + 1]
  <2>1. a.day = a.length /\ b.day = 1
    BY <1>7, <1>8, <1>9, <1>11
  <2>2. /\ f \in Int /\ l \in Int /\ leap \in Int
    BY LeapMonth DEF f, l, leap
  <2>3. /\ z \in {f + 2, f + 3} /\ z # leap
        /\ \A i \in f .. l : /\ NumberIn(o, y, i) \in 1 .. 12
                             /\ i # leap => (NumberIn(o, y, i) = 1 <=> i = z)
    BY MonthsOfSpan DEF f, l, z, leap
  <2>4. NumberIn(o, y, k + 1) = IF k + 1 = leap THEN NumberIn(o, y, k)
                                ELSE (NumberIn(o, y, k) % 12) + 1
    <3>1. Number[f][leap][k + 1] = IF k + 1 = leap THEN Number[f][leap][k]
                                   ELSE (Number[f][leap][k] % 12) + 1
      <4>1. f \in Int /\ leap \in Int /\ k \in Int
        BY <1>7, <2>2
      <4> HIDE DEF NumberIn
      <4> QED  BY <4>1, NumbersRunOn, SMTT(30)
    <3> QED  BY <3>1, Zenon DEF NumberIn, f, leap
  <2>5. CASE j = leap
    <3>1. k # leap
      BY <1>7, <1>11, <2>5
    <3>4. b.leap /\ ~a.leap
      BY <1>8, <1>9, <2>5, <3>1, Zenon
    <3>5. b.month = a.month
      BY <1>8, <1>9, <1>11, <2>4, <2>5
    <3>2. z <= j <=> z <= k
      BY <1>7, <1>11, <2>2, <2>3, <2>5
    <3>3. b.year = a.year
      BY <1>8, <1>9, <3>2
    <3> QED  BY <2>1, <3>3, <3>4, <3>5 DEF DayAfter, FollowsInYear, a, b
  <2>6. CASE j # leap
    <3>1. ~b.leap /\ b.month = (a.month % 12) + 1
      <4>1. ~b.leap
        BY <1>9, <2>6, Zenon
      <4>2. b.month = (a.month % 12) + 1
        BY <1>8, <1>9, <1>11, <2>4, <2>6
      <4> QED  BY <4>1, <4>2
    <3>2. b.month = 1 <=> j = z
      BY <1>6, <1>9, <2>3, <2>6
    <3>3. b.year = IF b.month = 1 THEN a.year + 1 ELSE a.year
      <4>1. CASE j = z
        <5>1. z <= j /\ ~(z <= k)
          BY <1>7, <1>11, <2>2, <2>3, <4>1
        <5> QED  BY <1>8, <1>9, <3>2, <4>1, <5>1
      <4>2. CASE j # z
        <5>1. z <= j <=> z <= k
          BY <1>7, <1>11, <2>2, <2>3, <4>2
        <5> QED  BY <1>8, <1>9, <3>2, <4>2, <5>1
      <4> QED  BY <4>1, <4>2
    <3> QED  BY <2>1, <3>1, <3>3 DEF DayAfter, FollowsInYear, a, b
  <2> QED  BY <2>5, <2>6
<1> QED  BY <1>7, <1>10, <1>11

(* The date of a day of one of the years asked about.                      *)
LEMMA LunarDateOfDay ==
    ASSUME NEW o \in Offsets, NEW y \in SolsticeYears, y <= LastYear, y >= FirstYear - 1,
           NEW day \in Int, Dongzhi(o, y) <= day, day < Dongzhi(o, y + 1)
    PROVE  LET k == MonthStartOwning[o][day]
           IN  /\ Owns(o, k, day) /\ day <= Dongzhi(o, LastYear + 1)
               /\ Resolve[o][day] \in LunarDate
               /\ Resolve[o][day].leap => NoZhongqi[o][k]
               /\ \A s \in SolsticeYears :
                     /\ DayOne[o][k] <= Dongzhi(o, s) /\ Dongzhi(o, s) < DayOne[o][k + 1]
                     => Resolve[o][day].month = 11 /\ ~Resolve[o][day].leap
<1> DEFINE k == MonthStartOwning[o][day]
           f == Eleven(o, y)
           l == Eleven(o, y + 1)
           leap == LeapOf(o, y)
<1>1. /\ FirstYear - 2 \in SolsticeYears /\ LastYear + 1 \in SolsticeYears /\ y \in Nat
      /\ FirstYear \in Int /\ LastYear \in Int
      /\ y + 1 \in SolsticeYears /\ FirstYear - 2 < y /\ (y < LastYear \/ y = LastYear)
      /\ y + 1 < LastYear + 1 \/ y + 1 = LastYear + 1
  BY Years
<1>2. /\ Dongzhi(o, FirstYear - 2) \in Int /\ Dongzhi(o, LastYear + 1) \in Int
      /\ Dongzhi(o, y) \in Int /\ Dongzhi(o, y + 1) \in Int
  <2>1. y + 1 \in SolsticeYears
    BY <1>1
  <2> QED  BY <1>1, <2>1, SolsticeApart
<1>3. Owns(o, k, day) /\ day <= Dongzhi(o, LastYear + 1)
  <2>1. Dongzhi(o, y) >= Dongzhi(o, FirstYear - 2) + 365
    BY <1>1, SolsticesInOrder
  <2>2. Dongzhi(o, y + 1) <= Dongzhi(o, LastYear + 1)
    <3>1. CASE y + 1 < LastYear + 1
      <4>1. Dongzhi(o, LastYear + 1) >= Dongzhi(o, y + 1) + 365
        BY <1>1, <3>1, SolsticesInOrder
      <4> QED  BY <1>2, <4>1
    <3>2. CASE y + 1 = LastYear + 1
      BY <1>2, <3>2
    <3> QED  BY <1>1, <3>1, <3>2
  <2>3. Dongzhi(o, FirstYear - 2) <= day /\ day <= Dongzhi(o, LastYear + 1)
    BY <1>2, <2>1, <2>2
  <2>4. Owns(o, MonthStartOwning[o][day], day)
    BY <2>3, DaysAreOwned
  <2> QED  BY <2>3, <2>4
<1>4. k \in f .. l /\ Resolve[o][day] = LunarDateIn(o, y, k, day)
  BY <1>3, ResolveIn
<1>5. /\ f \in Int /\ l \in Int /\ leap \in Int
      /\ \/ l = f + 12 /\ leap = f + 13
         \/ l = f + 13 /\ leap \in f + 1 .. f + 12 /\ NoZhongqi[o][leap]
  BY LeapMonth
<1>6. /\ f # leap /\ l # leap /\ NumberIn(o, y, f) = 11 /\ NumberIn(o, y, l) = 11
      /\ NumberIn(o, y, k) \in 1 .. 12
  BY <1>4, MonthsOfSpan
<1>7. /\ k \in 0 .. LastMoon - 2 /\ DayOne[o][k] <= day /\ day < DayOne[o][k + 1]
      /\ LastMoon \in Nat
  BY <1>3, Lunations DEF Owns
<1>8. /\ DayOne[o][k] \in Int /\ DayOne[o][k + 1] \in Int
      /\ DayOne[o][k + 1] >= DayOne[o][k] + 29 /\ DayOne[o][k + 1] <= DayOne[o][k] + 30
  <2>1. k \in 0 .. LastMoon - 1
    BY <1>7
  <2> HIDE DEF k
  <2> QED  BY <2>1, MonthLengths
<1> HIDE DEF k, f, l, leap
<1> DEFINE a == Resolve[o][day]
<1>9. a.month = NumberIn(o, y, k) /\ a.leap = (k = leap)
  BY <1>4 DEF LunarDateIn, leap
<1>10. Resolve[o][day] \in LunarDate
  <2>1. (IF FirstOf(o, y) <= k THEN y + 1 ELSE y) \in Nat
    BY <1>1
  <2>2. day - DayOne[o][k] + 1 \in 1 .. 30 /\ DayOne[o][k + 1] - DayOne[o][k] \in {29, 30}
    BY <1>7, <1>8
  <2>3. (k = LeapOf(o, y)) \in BOOLEAN
    OBVIOUS
  <2> QED  BY <1>4, <1>6, <2>1, <2>2, <2>3 DEF LunarDateIn, LunarDate
<1>11. ASSUME a.leap PROVE NoZhongqi[o][k]
  <2>1. k = leap
    BY <1>9, <1>11, Zenon
  <2> QED  BY <1>4, <1>5, <2>1
<1>12. ASSUME NEW s \in SolsticeYears,
              DayOne[o][k] <= Dongzhi(o, s), Dongzhi(o, s) < DayOne[o][k + 1]
       PROVE  a.month = 11 /\ ~a.leap
  <2>1. Dongzhi(o, s) \in Int /\ s \in Int /\ y \in Int
    BY <1>1, SolsticeApart, Years
  <2>2. ~(s < y)
    <3> SUFFICES ASSUME s < y PROVE FALSE
      OBVIOUS
    <3>1. Dongzhi(o, y) >= Dongzhi(o, s) + 365
      BY SolsticesInOrder
    <3> QED  BY <1>2, <1>7, <1>8, <1>12, <2>1, <3>1
  <2>3. ~(y + 1 < s)
    <3> SUFFICES ASSUME y + 1 < s PROVE FALSE
      OBVIOUS
    <3>1. Dongzhi(o, s) >= Dongzhi(o, y + 1) + 365
      BY <1>1, SolsticesInOrder
    <3> QED  BY <1>2, <1>7, <1>8, <1>12, <2>1, <3>1
  <2>4. s = y \/ s = y + 1
    BY <2>1, <2>2, <2>3
  <2>5. k = Eleven(o, s)
    <3>1. MonthStartOwning[o][Dongzhi(o, s)] = k
      BY <1>7, <1>12, <2>1, OwnerFound
    <3> QED  BY <3>1 DEF Eleven
  <2>6. k = f \/ k = l
    BY <2>4, <2>5 DEF f, l
  <2> QED  BY <1>6, <1>9, <2>6
<1> QED  BY <1>3, <1>10, <1>11, <1>12 DEF k

(* The births of a day: the first, the last, and the one after another.    *)
LEMMA FirstMinute ==
    ASSUME NEW S \in SUBSET Minutes, S # {}
    PROVE  /\ Min(S) \in S /\ Min(S) \in Nat /\ Min(S) < 1440
           /\ \A m \in S : Min(S) <= m
<1>1. S \subseteq 0 .. 1439 /\ S \in SUBSET Nat
  BY MinuteAssumption
<1>2. PICK m \in S : \A i \in S : m <= i
  BY <1>1, LeastNumber
<1>3. Min(S) = CHOOSE x \in S : \A i \in S : x <= i
  BY DEF Min
<1>4. Min(S) \in S /\ \A i \in S : Min(S) <= i
  BY <1>2, <1>3, Zenon
<1> DEFINE first == Min(S)
<1>5. first \in Nat /\ first < 1440
  <2>1. first \in S
    BY <1>4
  <2> HIDE DEF first
  <2> QED  BY <1>1, <2>1
<1> QED  BY <1>4, <1>5

(* There is a last minute at which someone is born.                        *)
LEMMA LastMinute ==
    /\ Max(Minutes) \in Minutes /\ Max(Minutes) \in Nat
    /\ \A m \in Minutes : m <= Max(Minutes)
<1> DEFINE S == {n \in Nat : 1439 - n \in Minutes}
<1>1. Minutes \subseteq 0 .. 1439 /\ Minutes # {}
  BY MinuteAssumption, BirthAssumption
<1>2. PICK m \in Minutes : HourBranch(m) = 0
  BY BirthAssumption
<1>3. 1439 - m \in S
  <2>1. 1439 - m \in Nat /\ 1439 - (1439 - m) = m
    BY <1>1
  <2> QED  BY <2>1
<1>4. PICK n \in S : \A i \in S : n <= i
  <2>1. S \in SUBSET Nat /\ S # {}
    BY <1>3
  <2> HIDE DEF S
  <2> QED  BY <2>1, LeastNumber
<1> DEFINE x == 1439 - n
<1>5. x \in Minutes
  BY <1>4
<1>6. \A i \in Minutes : i <= x
  <2> SUFFICES ASSUME NEW i \in Minutes PROVE i <= x
    OBVIOUS
  <2>1. i \in 0 .. 1439 /\ n \in Nat
    BY <1>1
  <2>2. 1439 - i \in Nat /\ 1439 - (1439 - i) = i
    BY <2>1
  <2>3. 1439 - i \in S
    BY <2>2
  <2>4. n <= 1439 - i
    BY <1>4, <2>3
  <2> QED  BY <2>1, <2>4
<1> HIDE DEF x
<1>7. Max(Minutes) = CHOOSE y \in Minutes : \A i \in Minutes : y >= i
  BY DEF Max
<1>8. \A i \in Minutes : x >= i
  BY <1>1, <1>5, <1>6
<1>9. Max(Minutes) \in Minutes /\ \A i \in Minutes : Max(Minutes) >= i
  <2> HIDE DEF S
  <2> QED  BY <1>5, <1>7, <1>8, Zenon
<1> DEFINE last == Max(Minutes)
<1>10. last \in Nat /\ \A i \in Minutes : i <= last
  <2> HIDE DEF last
  <2>1. last \in Minutes /\ \A i \in Minutes : last >= i
    BY <1>9 DEF last
  <2> QED  BY <1>1, <2>1
<1> QED  BY <1>9, <1>10

(* The double hour of the rat: an hour before midnight and one after.      *)
LEMMA HourOfRat ==
    ASSUME NEW m \in Nat, m < 1440
    PROVE  /\ HourBranch(m) \in 0 .. 11
           /\ HourBranch(m) = 0 <=> m < 60 \/ m >= 1380
           /\ LateZi(m) <=> m >= 1380
<1> DEFINE h == m \div 60
<1>1. h \in Int /\ 60 * h <= m /\ m < 60 * h + 60
  BY SMT
<1>2. h \in 0 .. 23
  BY <1>1
<1> HIDE DEF h
<1>3. ((h + 1) \div 2) % 12 \in 0 .. 11 /\ (((h + 1) \div 2) % 12 = 0 <=> h = 0 \/ h = 23)
  BY <1>2
<1>4. HourBranch(m) = ((h + 1) \div 2) % 12 /\ (LateZi(m) <=> h = 23)
  BY DEF HourBranch, LateZi, h
<1>5. (h = 0 <=> m < 60) /\ (h = 23 <=> m >= 1380)
  BY <1>1, <1>2
<1> QED  BY <1>3, <1>4, <1>5

(* A date lies in its year.                                                *)
LEMMA DayOfYear ==
    ASSUME NEW t \in CalendarDate
    PROVE  /\ Jdn(t) \in Int /\ JanuaryFirst(t.y) <= Jdn(t) /\ Jdn(t) < JanuaryFirst(t.y + 1)
<1>1. t.m \in 1 .. 12 /\ t.y \in Nat /\ t.d \in 1 .. 31 /\ t.y + 1 \in Nat
  BY DEF CalendarDate
<1>2. Jdn(t) \in Int
  BY JdnInt
<1> DEFINE a == LeapDays(t.y + 4799)
           b == LeapDays(t.y + 4800)
<1>3. /\ a \in Int /\ b \in Int /\ a <= b
  <2>1. t.y + 4799 \in Nat /\ (t.y + 4799) + 1 = t.y + 4800 /\ t.y + 4800 \in Nat
    BY <1>1
  <2>2. LeapDays(t.y + 4799) \in Int /\ LeapDays(t.y + 4800) \in Int
        /\ LeapDays(t.y + 4800) = LeapDays(t.y + 4799) + (IF Leap(t.y + 4800) THEN 1 ELSE 0)
    BY <2>1, LeapDaysGrow
  <2> QED  BY <2>2
<1>4. JanuaryFirst(t.y) = 365 * (t.y + 4799) + a - 31738
      /\ JanuaryFirst(t.y + 1) = 365 * (t.y + 4800) + b - 31738
  <2>1. JanuaryFirst(t.y) = 365 * (t.y + 4799) + LeapDays(t.y + 4799) - 31738
    BY <1>1, YearBegins
  <2>2. JanuaryFirst(t.y + 1) = 365 * ((t.y + 1) + 4799) + LeapDays((t.y + 1) + 4799) - 31738
    BY <1>1, YearBegins
  <2>3. (t.y + 1) + 4799 = t.y + 4800
    BY <1>1
  <2> QED  BY <2>1, <2>2, <2>3
<1>5. CASE t.m <= 2
  <2>1. Jdn(t) = t.d + (153 * (t.m + 9) + 2) \div 5 + 365 * (t.y + 4799) + a - 32045
    BY <1>1, <1>5, JdnFromMarch
  <2>2. (153 * (t.m + 9) + 2) \div 5 >= 306 /\ (153 * (t.m + 9) + 2) \div 5 <= 337
        /\ (153 * (t.m + 9) + 2) \div 5 \in Int
    BY <1>1, <1>5
  <2> HIDE DEF a, b
  <2> QED  BY <1>1, <1>2, <1>3, <1>4, <2>1, <2>2
<1>6. CASE ~(t.m <= 2)
  <2>1. Jdn(t) = t.d + (153 * (t.m - 3) + 2) \div 5 + 365 * (t.y + 4800) + b - 32045
    BY <1>1, <1>6, JdnFromMarch
  <2>2. (153 * (t.m - 3) + 2) \div 5 >= 0 /\ (153 * (t.m - 3) + 2) \div 5 <= 275
        /\ (153 * (t.m - 3) + 2) \div 5 \in Int
    BY <1>1, <1>6
  <2> HIDE DEF a, b
  <2> QED  BY <1>1, <1>2, <1>3, <1>4, <2>1, <2>2
<1> QED  BY <1>5, <1>6

(* Every day of the years asked about, and the day after, is in the span   *)
(* of a solstice.                                                          *)
LEMMA SpanOfYear ==
    ASSUME NEW o \in Offsets, NEW x \in FirstYear .. LastYear, NEW day \in Int,
           JanuaryFirst(x) <= day, day <= JanuaryFirst(x + 1)
    PROVE  /\ day < Dongzhi(o, LastYear + 1)
           /\ \E y \in SolsticeYears :
                 y <= LastYear /\ y >= FirstYear - 1 /\ Dongzhi(o, y) <= day /\ day < Dongzhi(o, y + 1)
<1>1. /\ x - 1 \in SolsticeYears /\ x \in SolsticeYears /\ x + 1 \in SolsticeYears
      /\ LastYear + 1 \in SolsticeYears /\ (x - 1) + 1 = x /\ x <= LastYear
      /\ x \in Nat /\ x + 1 \in Nat /\ x - 1 \in Nat /\ x - 1 <= LastYear /\ x - 1 >= FirstYear - 1
      /\ x >= FirstYear - 1 /\ (x = LastYear \/ x + 1 < LastYear + 1)
  BY Years
<1>2. /\ Dongzhi(o, x - 1) \in Int /\ Dongzhi(o, x) \in Int /\ Dongzhi(o, x + 1) \in Int
      /\ Dongzhi(o, x + 1) >= Dongzhi(o, x) + 365 /\ Dongzhi(o, LastYear + 1) \in Int
  <2>1. Dongzhi(o, x - 1) \in Int /\ Dongzhi(o, LastYear + 1) \in Int
    <3>1. \A s \in SolsticeYears : Dongzhi(o, s) \in Int
      BY SolsticeApart, Zenon
    <3> QED  BY <1>1, <3>1, Zenon
  <2>2. /\ Dongzhi(o, x) \in Int /\ Dongzhi(o, x + 1) \in Int
        /\ Dongzhi(o, x + 1) >= Dongzhi(o, x) + 365
    BY <1>1, SolsticeApart
  <2> QED  BY <2>1, <2>2
<1>3. Dongzhi(o, x - 1) <= JanuaryFirst(x) - 4 /\ JanuaryFirst(x) \in Int
  <2>1. /\ Dongzhi(o, x - 1) <= JanuaryFirst((x - 1) + 1) - 4
        /\ JanuaryFirst((x - 1) + 1) \in Int
    BY <1>1, SolsticeInDecember
  <2> QED  BY <1>1, <2>1
<1>4. Dongzhi(o, x) >= JanuaryFirst(x + 1) - 17 /\ JanuaryFirst(x + 1) \in Int
  BY <1>1, SolsticeInDecember
<1>5. Dongzhi(o, x - 1) <= day /\ day < Dongzhi(o, x + 1)
  BY <1>2, <1>3, <1>4
<1>6. day < Dongzhi(o, LastYear + 1)
  <2>1. CASE x = LastYear
    BY <1>5, <2>1
  <2>2. CASE x + 1 < LastYear + 1
    <3>1. x + 1 \in SolsticeYears /\ LastYear + 1 \in SolsticeYears
      BY <1>1
    <3>2. Dongzhi(o, LastYear + 1) >= Dongzhi(o, x + 1) + 365
      BY <2>2, <3>1, SolsticesInOrder
    <3> QED  BY <1>2, <1>5, <3>2
  <2> QED  BY <1>1, <2>1, <2>2
<1>7. CASE day < Dongzhi(o, x)
  <2>1. Dongzhi(o, x - 1) <= day /\ day < Dongzhi(o, (x - 1) + 1)
    BY <1>1, <1>5, <1>7
  <2> QED  BY <1>1, <1>6, <2>1
<1>8. CASE ~(day < Dongzhi(o, x))
  <2>1. Dongzhi(o, x) <= day
    BY <1>2, <1>8
  <2> QED  BY <1>1, <1>5, <1>6, <2>1
<1> QED  BY <1>7, <1>8

-----------------------------------------------------------------------------
(* The inductive invariant: a chart's date and the date before it are the  *)
(* calendar's, for a birth in the years asked about.                       *)
BirthInYears == /\ DateOK /\ date.y \in FirstYear .. LastYear
                /\ offset \in Offsets /\ minute \in Minutes
DatesResolved == /\ lunar = Resolve[offset][ChartDay(date, minute)]
                 /\ eve = Resolve[offset][Jdn(date)]
ZwdsInv == BirthInYears /\ DatesResolved

(* Another birth is in the years asked about.                              *)
LEMMA BirthStep == BirthInYears /\ [ZwdsNext]_zwdsVars => BirthInYears'
<1> SUFFICES ASSUME BirthInYears, [ZwdsNext]_zwdsVars PROVE BirthInYears'
  OBVIOUS
<1> USE DEF BirthInYears
<1>1. CASE LaterToday
  <2>1. {m \in Minutes : m > minute} # {}
    BY <1>1, LastMinute, MinuteAssumption DEF LaterToday
  <2>2. minute' \in Minutes
    BY <1>1, <2>1, FirstMinute DEF LaterToday
  <2>3. date' = date /\ offset' = offset
    BY <1>1 DEF LaterToday
  <2> QED  BY <2>2, <2>3 DEF DateOK
<1>2. CASE Tomorrow
  <2>1. minute' \in Minutes /\ offset' = offset
    <3>1. Minutes # {}
      BY LastMinute
    <3> QED  BY <1>2, <3>1, FirstMinute DEF Tomorrow
  <2>2. DateOK'
    BY <1>2, DateStep DEF Tomorrow
  <2>3. date'.y \in FirstYear .. LastYear
    <3>1. date' \in CalendarDate /\ date \in CalendarDate /\ NextDate
      BY <1>2, <2>2 DEF DateOK, Tomorrow
    <3>2. date'.y = date.y \/ (date'.y = date.y + 1 /\ date.y < LastYear)
      <4>1. CASE NextDay
        BY <3>1, <4>1 DEF NextDay, CalendarDate
      <4>2. CASE NextMonth
        BY <3>1, <4>2 DEF NextMonth, CalendarDate
      <4>3. CASE NextYear
        BY <4>3 DEF NextYear
      <4> QED  BY <3>1, <4>1, <4>2, <4>3 DEF NextDate
    <3> QED  BY <3>2, Years
  <2> QED  BY <2>1, <2>2, <2>3
<1>3. CASE UNCHANGED zwdsVars
  BY <1>3 DEF zwdsVars, DateOK
<1> QED  BY <1>1, <1>2, <1>3 DEF ZwdsNext

(* The invariant holds of every chart.                                     *)
LEMMA ZwdsInvariant == ZwdsSpec => []ZwdsInv
<1>1. FirstBirth => ZwdsInv
  <2> SUFFICES ASSUME FirstBirth PROVE ZwdsInv
    OBVIOUS
  <2>1. minute \in Minutes /\ offset \in Offsets
    <3>1. Minutes # {}
      BY LastMinute
    <3> QED  BY <3>1, FirstMinute DEF FirstBirth
  <2>2. DateOK /\ date.y \in FirstYear .. LastYear
    <3>1. date = [y |-> FirstYear, m |-> 1, d |-> 1]
      BY DEF FirstBirth
    <3> QED  BY <3>1, Years DEF DateOK, CalendarDate
  <2>3. DatesResolved
    BY DEF FirstBirth, DatesResolved
  <2> QED  BY <2>1, <2>2, <2>3 DEF ZwdsInv, BirthInYears
<1>2. ZwdsInv /\ [ZwdsNext]_zwdsVars => ZwdsInv'
  <2> SUFFICES ASSUME ZwdsInv, [ZwdsNext]_zwdsVars PROVE ZwdsInv'
    OBVIOUS
  <2>1. BirthInYears'
    BY BirthStep DEF ZwdsInv
  <2>2. DatesResolved'
    <3>1. CASE LaterToday
      BY <3>1, Zenon DEF LaterToday, DatesResolved
    <3>2. CASE Tomorrow
      BY <3>2, Zenon DEF Tomorrow, DatesResolved
    <3>3. CASE UNCHANGED zwdsVars
      BY <3>3, Zenon DEF zwdsVars, ZwdsInv, DatesResolved, ChartDay
    <3> QED  BY <3>1, <3>2, <3>3 DEF ZwdsNext
  <2> QED  BY <2>1, <2>2 DEF ZwdsInv
<1> QED  BY <1>1, <1>2, PTL DEF ZwdsSpec

-----------------------------------------------------------------------------
(* The date of a birth's civil day, and the next day's after 23:00.        *)
LEMMA DatesOfBirth ==
    ASSUME BirthInYears
    PROVE  LET day == Jdn(date)
               k == MonthStartOwning[offset][day]
           IN  /\ day \in Int /\ Owns(offset, k, day) /\ day <= Dongzhi(offset, LastYear + 1)
               /\ Resolve[offset][day] \in LunarDate /\ Resolve[offset][day + 1] \in LunarDate
               /\ DayAfter(Resolve[offset][day], Resolve[offset][day + 1])
               /\ Resolve[offset][day].leap => NoZhongqi[offset][k]
               /\ \A s \in SolsticeYears :
                     /\ DayOne[offset][k] <= Dongzhi(offset, s)
                     /\ Dongzhi(offset, s) < DayOne[offset][k + 1]
                     => Resolve[offset][day].month = 11 /\ ~Resolve[offset][day].leap
<1> DEFINE day == Jdn(date)
           next == day + 1
<1>1. date \in CalendarDate /\ date.y \in FirstYear .. LastYear /\ offset \in Offsets
  BY DEF BirthInYears, DateOK
<1>2. /\ day \in Int /\ JanuaryFirst(date.y) <= day /\ day < JanuaryFirst(date.y + 1)
      /\ JanuaryFirst(date.y) \in Int /\ JanuaryFirst(date.y + 1) \in Int
  <2>1. date.y \in Nat /\ date.y + 1 \in Nat
    BY <1>1 DEF CalendarDate
  <2>2. JanuaryFirst(date.y) \in Int /\ JanuaryFirst(date.y + 1) \in Int
    BY <2>1, YearBegins
  <2> QED  BY <1>1, <2>2, DayOfYear
<1> HIDE DEF day
<1>3. /\ next \in Int /\ JanuaryFirst(date.y) <= day /\ day <= JanuaryFirst(date.y + 1)
      /\ JanuaryFirst(date.y) <= next /\ next <= JanuaryFirst(date.y + 1)
  BY <1>2
<1>4. PICK y \in SolsticeYears :
          y <= LastYear /\ y >= FirstYear - 1
          /\ Dongzhi(offset, y) <= day /\ day < Dongzhi(offset, y + 1)
  BY <1>1, <1>2, <1>3, SpanOfYear
<1>5. /\ next < Dongzhi(offset, LastYear + 1)
      /\ \E x \in SolsticeYears :
            x <= LastYear /\ x >= FirstYear - 1
            /\ Dongzhi(offset, x) <= next /\ next < Dongzhi(offset, x + 1)
  <2> HIDE DEF next
  <2> QED  BY <1>1, <1>3, SpanOfYear
<1>6. DayAfter(Resolve[offset][day], Resolve[offset][next])
  BY <1>1, <1>2, <1>4, <1>5, DateMovesOn
<1>7. Resolve[offset][next] \in LunarDate
  <2> HIDE DEF next
  <2> QED  BY <1>1, <1>3, <1>5, LunarDateOfDay
<1>8. LET k == MonthStartOwning[offset][day]
      IN  /\ Owns(offset, k, day) /\ day <= Dongzhi(offset, LastYear + 1)
          /\ Resolve[offset][day] \in LunarDate
          /\ Resolve[offset][day].leap => NoZhongqi[offset][k]
          /\ \A s \in SolsticeYears :
                /\ DayOne[offset][k] <= Dongzhi(offset, s)
                /\ Dongzhi(offset, s) < DayOne[offset][k + 1]
                => Resolve[offset][day].month = 11 /\ ~Resolve[offset][day].leap
  BY <1>1, <1>2, <1>4, LunarDateOfDay
<1> QED  BY <1>2, <1>6, <1>7, <1>8 DEF day

(* It implies the rule of the leap month.                                  *)
LEMMA LeapRuleHolds == ZwdsInv => LeapRule
<1> SUFFICES ASSUME ZwdsInv PROVE LeapRule
  OBVIOUS
<1> DEFINE day == Jdn(date)
           k == MonthStartOwning[offset][day]
<1>1. BirthInYears /\ DatesResolved /\ offset \in Offsets
  BY DEF ZwdsInv, BirthInYears
<1>2. /\ day \in Int /\ Owns(offset, k, day) /\ day <= Dongzhi(offset, LastYear + 1)
      /\ Resolve[offset][day] \in LunarDate /\ Resolve[offset][day + 1] \in LunarDate
      /\ DayAfter(Resolve[offset][day], Resolve[offset][day + 1])
      /\ Resolve[offset][day].leap => NoZhongqi[offset][k]
      /\ \A s \in SolsticeYears :
            /\ DayOne[offset][k] <= Dongzhi(offset, s)
            /\ Dongzhi(offset, s) < DayOne[offset][k + 1]
            => Resolve[offset][day].month = 11 /\ ~Resolve[offset][day].leap
  BY <1>1, DatesOfBirth
<1> HIDE DEF day, k
<1>3. eve = Resolve[offset][day] /\ lunar = Resolve[offset][day + (IF LateZi(minute) THEN 1 ELSE 0)]
  BY <1>1 DEF DatesResolved, ChartDay, day
<1>4. /\ eve \in LunarDate /\ lunar \in LunarDate
      /\ IF LateZi(minute) THEN DayAfter(eve, lunar) ELSE eve = lunar
  <2>1. CASE LateZi(minute)
    <3>1. lunar = Resolve[offset][day + 1]
      BY <1>3, <2>1
    <3> QED  BY <1>2, <1>3, <2>1, <3>1
  <2>2. CASE ~LateZi(minute)
    <3>1. lunar = Resolve[offset][day]
      <4>1. day + 0 = day
        BY <1>2
      <4> QED  BY <1>3, <2>2, <4>1
    <3> QED  BY <1>2, <1>3, <2>2, <3>1
  <2> QED  BY <2>1, <2>2
<1>5. /\ k \in 0 .. LastMoon - 2 /\ DayOne[offset][k] <= day /\ day < DayOne[offset][k + 1]
      /\ DayOne[offset][k] \in Int /\ DayOne[offset][k + 1] \in Int
  <2>1. k \in 0 .. LastMoon - 2 /\ DayOne[offset][k] <= day /\ day < DayOne[offset][k + 1]
    BY <1>2 DEF Owns
  <2>2. k \in 0 .. LastMoon - 1
    BY <2>1, Lunations
  <2> QED  BY <1>1, <2>1, <2>2, MonthLengths
<1>6. \A u \in Zhongqi : u \in Int /\ LocalDay(offset, u) \in Int
  <2>1. \A u \in Zhongqi : u \in Int
    BY Terms DEF Zhongqi
  <2> QED  BY <1>1, <2>1, DayOfInstant
<1>7. ASSUME eve.leap PROVE TermsIn(k) = {}
  <2>1. NoZhongqi[offset][k]
    BY <1>2, <1>3, <1>7
  <2>2. DayOne[offset][k] <= Dongzhi(offset, LastYear + 1)
    <3>1. Dongzhi(offset, LastYear + 1) \in Int
      <4>1. LastYear + 1 \in SolsticeYears
        BY Years
      <4> QED  BY <1>1, <4>1, SolsticeApart
    <3> QED  BY <1>2, <1>5, <3>1
  <2>3. \A i \in 0 .. LastTerm : ~ (/\ DayOne[offset][k] <= LocalDay(offset, Term[i])
                                      /\ LocalDay(offset, Term[i]) < DayOne[offset][k + 1])
    BY <1>1, <1>5, <2>1, <2>2, TermOfMonth
  <2>4. ASSUME NEW u \in TermsIn(k) PROVE FALSE
    <3>1. u \in Zhongqi /\ LocalDay(offset, u) \in DayOne[offset][k] .. DayOne[offset][k + 1] - 1
      BY <2>4 DEF TermsIn
    <3>2. DayOne[offset][k] <= LocalDay(offset, u) /\ LocalDay(offset, u) < DayOne[offset][k + 1]
      BY <1>5, <1>6, <3>1
    <3>3. PICK i \in 0 .. LastTerm : u = Term[i]
      BY <3>1 DEF Zhongqi
    <3> QED  BY <2>3, <3>2, <3>3
  <2> QED  BY <2>4
<1>8. ASSUME TermsIn(k) \cap Solstices # {} PROVE eve.month = 11 /\ ~eve.leap
  <2>1. PICK u \in TermsIn(k) : u \in Solstices
    BY <1>8
  <2>2. PICK s \in SolsticeYears : u = SolsticeOf(s)
    BY <2>1 DEF Solstices
  <2>3. u \in Zhongqi /\ LocalDay(offset, u) \in DayOne[offset][k] .. DayOne[offset][k + 1] - 1
    BY <2>1 DEF TermsIn
  <2>4. DayOne[offset][k] <= Dongzhi(offset, s) /\ Dongzhi(offset, s) < DayOne[offset][k + 1]
    BY <1>5, <1>6, <2>2, <2>3 DEF Dongzhi
  <2> QED  BY <1>2, <1>3, <2>4
<1> QED  BY <1>4, <1>7, <1>8 DEF LeapRule, k, day

(* The lunar calendar of every course of the Sun and the Moon and in every *)
(* frame: leap months have no term, and the solstice is in month 11.       *)
THEOREM LeapRuleFollowed == ZwdsSpec => []LeapRule
BY ZwdsInvariant, LeapRuleHolds, PTL

-----------------------------------------------------------------------------
(* The chart's day changes when the double hour of the rat begins.         *)
LEMMA DayOfChart ==
    ASSUME ZwdsInv, ZwdsNext
    PROVE  /\ Jdn(date) \in Int /\ offset' = offset
           /\ IF ZiBegins
              THEN ~LateZi(minute) /\ ChartDay(date', minute') = Jdn(date) + 1
              ELSE ChartDay(date', minute') = ChartDay(date, minute)
<1>1. /\ DateOK /\ minute \in Minutes /\ minute \in Nat /\ minute < 1440
      /\ Jdn(date) \in Int /\ offset' = offset
  <2>1. DateOK /\ minute \in Minutes
    BY DEF ZwdsInv, BirthInYears
  <2>2. offset' = offset
    BY DEF ZwdsNext, LaterToday, Tomorrow
  <2>3. minute \in Nat /\ minute < 1440
    BY <2>1, MinuteAssumption
  <2> QED  BY <2>1, <2>2, <2>3, JdnInt DEF DateOK
<1>2. PICK a \in Minutes : HourBranch(a) = 0
  BY BirthAssumption
<1>3. PICK b \in Minutes : HourBranch(b) # 0
  BY BirthAssumption
<1>4. /\ a \in Nat /\ b \in Nat
      /\ a < 60 \/ a >= 1380
      /\ b >= 60 /\ b < 1380
  <2>1. a \in Nat /\ b \in Nat /\ a < 1440 /\ b < 1440
    BY MinuteAssumption
  <2> QED  BY <1>2, <1>3, <2>1, HourOfRat
<1>5. CASE LaterToday
  <2>1. date' = date
    BY <1>5 DEF LaterToday
  <2> DEFINE S == {m \in Minutes : m > minute}
  <2>2. minute' \in S /\ minute' \in Nat /\ minute' < 1440 /\ \A m \in S : minute' <= m
    <3>1. S # {}
      BY <1>5, LastMinute DEF LaterToday
    <3>2. S \in SUBSET Minutes /\ minute' = Min(S)
      BY <1>5 DEF LaterToday
    <3> HIDE DEF S
    <3> QED  BY <3>1, <3>2, FirstMinute
  <2>3. minute < minute' /\ (minute < b => minute' <= b)
    BY <1>1, <2>2
  <2>4. /\ HourBranch(minute') = 0 <=> minute' < 60 \/ minute' >= 1380
        /\ LateZi(minute') <=> minute' >= 1380
        /\ HourBranch(minute) = 0 <=> minute < 60 \/ minute >= 1380
        /\ LateZi(minute) <=> minute >= 1380
    BY <1>1, <2>2, HourOfRat
  <2>5. /\ ZiBegins => ~LateZi(minute) /\ LateZi(minute')
        /\ ~ZiBegins => (LateZi(minute) <=> LateZi(minute'))
    BY <1>1, <1>4, <2>2, <2>3, <2>4 DEF ZiBegins
  <2>6. CASE ZiBegins
    BY <1>1, <2>1, <2>5, <2>6 DEF ChartDay
  <2>7. CASE ~ZiBegins
    <3>1. (IF LateZi(minute') THEN 1 ELSE 0) = IF LateZi(minute) THEN 1 ELSE 0
      BY <2>5, <2>7, Zenon
    <3>2. ChartDay(date', minute') = ChartDay(date, minute)
      BY <2>1, <3>1, Zenon DEF ChartDay
    <3>3. Jdn(date) \in Int /\ offset' = offset
      BY <1>1
    <3> QED  BY <2>7, <3>2, <3>3, Zenon
  <2> QED  BY <1>1, <2>6, <2>7
<1>6. CASE Tomorrow
  <2>1. Jdn(date') = Jdn(date) + 1
    BY <1>1, <1>6, NextIsOneDay DEF Tomorrow
  <2>2. minute = Max(Minutes) /\ minute' = Min(Minutes)
    BY <1>6 DEF Tomorrow
  <2>3. a <= minute /\ b <= minute
    BY <2>2, LastMinute
  <2>4. minute' \in Nat /\ minute' < 1440 /\ minute' <= a /\ minute' <= b
    <3>1. Minutes # {}
      BY LastMinute
    <3> QED  BY <2>2, <3>1, FirstMinute
  <2>5. /\ HourBranch(minute') = 0 <=> minute' < 60 \/ minute' >= 1380
        /\ LateZi(minute') <=> minute' >= 1380
        /\ HourBranch(minute) = 0 <=> minute < 60 \/ minute >= 1380
        /\ LateZi(minute) <=> minute >= 1380
    BY <1>1, <2>4, HourOfRat
  <2>6. /\ ~LateZi(minute') /\ (ZiBegins <=> ~LateZi(minute))
    BY <1>1, <1>4, <2>3, <2>4, <2>5 DEF ZiBegins
  <2>7. ChartDay(date', minute') = Jdn(date) + 1
    <3>1. ChartDay(date', minute') = (Jdn(date) + 1) + 0
      BY <2>1, <2>6 DEF ChartDay
    <3> QED  BY <1>1, <3>1
  <2>8. CASE ZiBegins
    BY <1>1, <2>6, <2>7, <2>8
  <2>9. CASE ~ZiBegins
    <3>1. ChartDay(date, minute) = Jdn(date) + 1
      BY <2>6, <2>9 DEF ChartDay
    <3> QED  BY <1>1, <2>7, <2>9, <3>1
  <2> QED  BY <2>8, <2>9
<1> QED  BY <1>5, <1>6 DEF ZwdsNext

(* From one birth to the next the lunar date moves on with the double      *)
(* hour.                                                                   *)
LEMMA LunarStep == ZwdsInv /\ ZwdsInv' /\ ZwdsNext =>
                       IF ZiBegins THEN DayAfter(lunar, lunar') ELSE lunar' = lunar
<1> SUFFICES ASSUME ZwdsInv, ZwdsInv', ZwdsNext
             PROVE  IF ZiBegins THEN DayAfter(lunar, lunar') ELSE lunar' = lunar
  OBVIOUS
<1>1. lunar = Resolve[offset][ChartDay(date, minute)]
      /\ lunar' = Resolve[offset'][ChartDay(date', minute')]
  BY DEF ZwdsInv, DatesResolved
<1>2. /\ Jdn(date) \in Int /\ offset' = offset
      /\ IF ZiBegins THEN ~LateZi(minute) /\ ChartDay(date', minute') = Jdn(date) + 1
         ELSE ChartDay(date', minute') = ChartDay(date, minute)
  BY DayOfChart
<1>3. CASE ZiBegins
  <2>1. ChartDay(date, minute) = Jdn(date)
    <3>1. ChartDay(date, minute) = Jdn(date) + 0
      BY <1>2, <1>3 DEF ChartDay
    <3> QED  BY <1>2, <3>1
  <2>2. DayAfter(Resolve[offset][Jdn(date)], Resolve[offset][Jdn(date) + 1])
    BY DatesOfBirth DEF ZwdsInv
  <2>3. lunar = Resolve[offset][Jdn(date)] /\ lunar' = Resolve[offset][Jdn(date) + 1]
    BY <1>1, <1>2, <1>3, <2>1, Zenon
  <2> QED  BY <1>3, <2>2, <2>3, Zenon
<1>4. CASE ~ZiBegins
  BY <1>1, <1>2, <1>4, Zenon
<1> QED  BY <1>3, <1>4

(* From one birth to the next the lunar date stays, or moves on by one     *)
(* day when the double hour of the rat begins: none is left out.           *)
THEOREM LunarDatesRunOn == ZwdsSpec => LunarDaysRunOn
<1>1. ZwdsInv /\ ZwdsInv' /\ [ZwdsNext]_zwdsVars
         => [IF ZiBegins THEN DayAfter(lunar, lunar') ELSE lunar' = lunar]_zwdsVars
  BY LunarStep
<1> QED  BY <1>1, ZwdsInvariant, PTL DEF ZwdsSpec, LunarDaysRunOn

(* Moving round the twelve branches and back.                              *)
LEMMA RoundTwelve ==
    ASSUME NEW m \in Branch, NEW j \in Branch
    PROVE  /\ (m - j) % 12 \in Branch /\ (m + j) % 12 \in Branch
           /\ (m - ((m - j) % 12)) % 12 = j
           /\ (m - ((0 - j) % 12)) % 12 = (m + j) % 12
           /\ (0 - j) % 12 \in Branch /\ (0 - ((0 - j) % 12)) % 12 = j
<1>1. (m - j) % 12 = IF m < j THEN m - j + 12 ELSE m - j
  BY DEF Branch
<1>2. (m + j) % 12 = IF m + j < 12 THEN m + j ELSE m + j - 12
  BY DEF Branch
<1>3. (0 - j) % 12 = IF j = 0 THEN 0 ELSE 12 - j
  BY DEF Branch
<1>4. \A x \in -11 .. 11 : x % 12 = IF x < 0 THEN x + 12 ELSE x
  OBVIOUS
<1> QED  BY <1>1, <1>2, <1>3, <1>4 DEF Branch

(* The palaces stand on the twelve branches, one on each.                  *)
LEMMA MingOnBranch ==
    ASSUME NEW s \in Seed
    PROVE  /\ MingBranch(s) \in Branch /\ s.stem \in 0 .. 9 /\ s.month \in 1 .. 12
           /\ s.hour \in Branch /\ s.day \in 1 .. 30
<1>1. s.stem \in 0 .. 9 /\ s.month \in 1 .. 12 /\ s.hour \in Branch /\ s.day \in 1 .. 30
  BY DEF Seed
<1>2. (2 + s.month - 1 - s.hour) % 12 \in 0 .. 11
  BY <1>1 DEF Branch
<1> QED  BY <1>1, <1>2 DEF MingBranch, Yin, Branch

(* The twelve palaces: what each holds, and that each branch has one.      *)
LEMMA PalacesApart ==
    ASSUME NEW s \in Seed
    PROVE  /\ \A i \in Branch : BuildPalaces(s)[i] =
                  [role |-> Role[i + 1], branch |-> (MingBranch(s) - i) % 12,
                   stem |-> PalaceStem((MingBranch(s) - i) % 12, s),
                   ming |-> i = 0, shen |-> (MingBranch(s) - i) % 12 = ShenBranch(s)]
           /\ \A i \in Branch : /\ BuildPalaces(s)[i].role = Role[i + 1]
                                 /\ BuildPalaces(s)[i].branch = (MingBranch(s) - i) % 12
                                 /\ BuildPalaces(s)[i].stem = PalaceStem((MingBranch(s) - i) % 12, s)
                                 /\ (MingBranch(s) - i) % 12 \in Branch
           /\ \A i, j \in Branch :
                 (MingBranch(s) - i) % 12 = (MingBranch(s) - j) % 12 => i = j
           /\ \A b \in Branch : \E i \in Branch : (MingBranch(s) - i) % 12 = b
<1>1. MingBranch(s) \in Branch
  BY MingOnBranch
<1>2. \A i \in Branch : BuildPalaces(s)[i] =
          [role |-> Role[i + 1], branch |-> (MingBranch(s) - i) % 12,
           stem |-> PalaceStem((MingBranch(s) - i) % 12, s),
           ming |-> i = 0, shen |-> (MingBranch(s) - i) % 12 = ShenBranch(s)]
  BY Zenon DEF BuildPalaces
<1>3. \A i \in Branch : /\ (MingBranch(s) - i) % 12 \in Branch
                        /\ (MingBranch(s) - ((MingBranch(s) - i) % 12)) % 12 = i
  BY <1>1, RoundTwelve
<1>4. \A i, j \in Branch : (MingBranch(s) - i) % 12 = (MingBranch(s) - j) % 12 => i = j
  BY <1>3, Zenon
<1>5. \A b \in Branch : \E i \in Branch : (MingBranch(s) - i) % 12 = b
  BY <1>3, Zenon
<1>6. ASSUME NEW i \in Branch
      PROVE  /\ BuildPalaces(s)[i].role = Role[i + 1]
             /\ BuildPalaces(s)[i].branch = (MingBranch(s) - i) % 12
             /\ BuildPalaces(s)[i].stem = PalaceStem((MingBranch(s) - i) % 12, s)
  <2> DEFINE role == Role[i + 1]
             branch == (MingBranch(s) - i) % 12
             stem == PalaceStem(branch, s)
             ming == i = 0
             shen == branch = ShenBranch(s)
             p == BuildPalaces(s)[i]
  <2>1. p = [role |-> role, branch |-> branch, stem |-> stem, ming |-> ming, shen |-> shen]
    BY <1>2, Zenon
  <2> HIDE DEF role, branch, stem, ming, shen, p
  <2>2. p.role = role /\ p.branch = branch /\ p.stem = stem
    BY <2>1
  <2> QED  BY <2>2, Zenon DEF role, branch, stem, p
<1> QED  BY <1>2, <1>3, <1>4, <1>5, <1>6

(* The role on a branch is that of the palace there.                       *)
LEMMA RoleFound ==
    ASSUME NEW s \in Seed, NEW i \in Branch
    PROVE  RoleOn((MingBranch(s) - i) % 12, s) = Role[i + 1]
<1> DEFINE P == {BuildPalaces(s)[j] : j \in Branch}
           b == (MingBranch(s) - i) % 12
           r == BuildPalaces(s)[i]
<1>1. r \in P /\ r.branch = b /\ r.role = Role[i + 1]
  BY PalacesApart
<1>2. \A p \in P : p.branch = b => p = r
  <2> SUFFICES ASSUME NEW j \in Branch, BuildPalaces(s)[j].branch = b
               PROVE  BuildPalaces(s)[j] = r
    OBVIOUS
  <2>1. BuildPalaces(s)[j].branch = (MingBranch(s) - j) % 12
    BY PalacesApart
  <2>2. j = i
    BY <2>1, PalacesApart
  <2> QED  BY <2>2
<1>3. RoleOn(b, s) = (CHOOSE p \in P : p.branch = b).role
  BY DEF RoleOn
<1> HIDE DEF P, r
<1>4. (CHOOSE p \in P : p.branch = b) = r
  BY <1>1, <1>2, Zenon
<1>5. RoleOn(b, s) = Role[i + 1]
  BY <1>1, <1>3, <1>4, Zenon
<1> QED  BY <1>5 DEF b

-----------------------------------------------------------------------------
(* Each of the eighteen stars stands on a branch.                          *)
Auxiliary == {"ZUO_FU", "YOU_BI", "WEN_QU", "WEN_CHANG"}
SixStars == {"ZI_WEI", "TIAN_JI", "TAI_YANG", "WU_QU", "TIAN_TONG", "LIAN_ZHEN"}
EightStars == {"TIAN_FU", "TAI_YIN", "TAN_LANG", "JU_MEN", "TIAN_XIANG", "TIAN_LIANG",
               "QI_SHA", "PO_JUN"}
AllStars == SixStars \cup EightStars \cup Auxiliary

(* They are six by Zi Wei, eight by Tian Fu and four by month and hour.    *)
LEMMA StarNames ==
    /\ DOMAIN ZiweiOffset = SixStars /\ DOMAIN TianfuOffset = EightStars
    /\ \A s : DOMAIN AuxiliaryStars(s) = Auxiliary
    /\ \A s : DOMAIN Stars(s) = AllStars
<1>1. DOMAIN ZiweiOffset = SixStars
  BY DEF ZiweiOffset, SixStars
<1>2. DOMAIN TianfuOffset = EightStars
  BY DEF TianfuOffset, EightStars
<1>3. \A s : DOMAIN AuxiliaryStars(s) = Auxiliary
  BY DEF AuxiliaryStars, Auxiliary
<1>4. \A s : DOMAIN Stars(s) = Major \cup DOMAIN AuxiliaryStars(s)
  BY Zenon DEF Stars
<1> QED  BY <1>1, <1>2, <1>3, <1>4 DEF Major, AllStars

(* They are eighteen.                                                      *)
LEMMA Eighteen ==
    IsFiniteSet(AllStars) /\ Cardinality(AllStars) = 18
<1> DEFINE names == AllStars
           list == << "ZI_WEI", "TIAN_JI", "TAI_YANG", "WU_QU", "TIAN_TONG", "LIAN_ZHEN",
                      "TIAN_FU", "TAI_YIN", "TAN_LANG", "JU_MEN", "TIAN_XIANG", "TIAN_LIANG",
                      "QI_SHA", "PO_JUN", "ZUO_FU", "YOU_BI", "WEN_QU", "WEN_CHANG" >>
           f == [i \in 1 .. 18 |-> list[i]]
<1>1. f \in [1 .. 18 -> names]
  BY DEF AllStars, SixStars, EightStars, Auxiliary
<1>2. \A x \in names : \E i \in 1 .. 18 : f[i] = x
  <2> SUFFICES ASSUME NEW x \in names PROVE \E i \in 1 .. 18 : f[i] = x
    OBVIOUS
  <2>1. CASE x \in SixStars
    BY <2>1 DEF SixStars
  <2>2. CASE x \in EightStars
    BY <2>2 DEF EightStars
  <2>3. CASE x \in Auxiliary
    BY <2>3 DEF Auxiliary
  <2> QED  BY <2>1, <2>2, <2>3 DEF AllStars
<1>3. \A i, j \in 1 .. 18 : f[i] = f[j] => i = j
  OBVIOUS
<1>4. f \in Bijection(1 .. 18, names)
  <2> HIDE DEF f, names
  <2> QED  BY <1>1, <1>2, <1>3, Fun_IsBij
<1>5. ExistsBijection(1 .. 18, names)
  <2> HIDE DEF f, names
  <2> QED  BY <1>4 DEF ExistsBijection
<1>6. Cardinality(names) = 18
  <2> HIDE DEF names
  <2> QED  BY <1>5, FS_CountingElements
<1>7. IsFiniteSet(names)
  <2> HIDE DEF names
  <2> QED  BY <1>5, FS_NatBijection
<1> QED  BY <1>6, <1>7

(* The number of the bureau is 2 to 6.                                     *)
LEMMA BureauNumber ==
    ASSUME NEW stem \in 0 .. 9, NEW branch \in Branch
    PROVE  Bureau(stem, branch).number \in 2 .. 6
<1>1. BureauV(stem, branch) \in 1 .. 5
  <2>1. stem \div 2 \in 0 .. 4 /\ (branch % 6) \div 2 \in 0 .. 2
    BY DEF Branch
  <2> DEFINE a == stem \div 2
             b == (branch % 6) \div 2
  <2> HIDE DEF a, b
  <2>2. (a + 1 + b + 1 - 1) % 5 \in 0 .. 4
    BY <2>1 DEF a, b
  <2> QED  BY <2>2 DEF BureauV, a, b
<1> DEFINE v == BureauV(stem, branch)
<1>2. Bureau(stem, branch) =
          << [phase |-> "wood", number |-> 3], [phase |-> "metal", number |-> 4],
             [phase |-> "water", number |-> 2], [phase |-> "fire", number |-> 6],
             [phase |-> "earth", number |-> 5] >>[v]
  BY DEF Bureau
<1> HIDE DEF v
<1>3. v \in 1 .. 5
  BY <1>1 DEF v
<1> QED  BY <1>2, <1>3

(* The stems of the palaces are of the parity of their branches.           *)
LEMMA PalaceStems ==
    ASSUME NEW s \in Seed, NEW b \in Branch
    PROVE  /\ PalaceStem(b, s) \in 0 .. 9
           /\ PalaceStem(b, s) = (s.stem * 2 + 2 + ((b - 2) % 12)) % 10
           /\ ValidParity(PalaceStem(b, s), b)
<1> DEFINE t == s.stem
           d == (b - 2) % 12
<1>1. t \in 0 .. 9 /\ d \in 0 .. 11
  BY MingOnBranch DEF Branch
<1>2. PalaceStem(b, s) = (((2 * t + 2) % 10) + d) % 10
  BY DEF PalaceStem, YinStem, Yin
<1>3. d = IF b < 2 THEN b + 10 ELSE b - 2
  BY DEF Branch
<1> HIDE DEF t, d
<1> DEFINE y == (2 * t + 2) % 10
<1>4. y \in 0 .. 9 /\ y % 2 = 0 /\ (y + d) % 10 = (t * 2 + 2 + d) % 10
  BY <1>1
<1> HIDE DEF y
<1>5. PalaceStem(b, s) = (y + d) % 10
  BY <1>2 DEF y
<1>6. PalaceStem(b, s) \in 0 .. 9
  BY <1>1, <1>4, <1>5
<1>7. (PalaceStem(b, s) - b) % 2 = 0
  <2> DEFINE x == y + d
  <2>1. x \in 0 .. 20 /\ (x - b) % 2 = 0
    BY <1>1, <1>3, <1>4 DEF Branch
  <2>2. PalaceStem(b, s) = x % 10
    BY <1>5
  <2> HIDE DEF x
  <2>3. ((x % 10) - b) % 2 = 0
    BY <2>1 DEF Branch
  <2> QED  BY <2>2, <2>3
<1> QED  BY <1>4, <1>5, <1>6, <1>7 DEF t, d, ValidParity

(* Every star is set on one of the twelve branches.                        *)
LEMMA StarsOnBranches ==
    ASSUME NEW s \in Seed, NEW x \in AllStars
    PROVE  Stars(s)[x] \in Branch
<1>1. /\ s.stem \in 0 .. 9 /\ s.month \in 1 .. 12 /\ s.hour \in Branch /\ s.day \in 1 .. 30
      /\ MingBranch(s) \in Branch
  BY MingOnBranch
<1> DEFINE ziwei == ZiweiBranch(s.day, BureauOf(s).number)
<1>2. ziwei \in Branch
  <2> DEFINE B == BureauOf(s).number
  <2>1. B \in 2 .. 6
    BY <1>1, PalaceStems, BureauNumber DEF BureauOf
  <2> HIDE DEF B
  <2> DEFINE k == (s.day + B - 1) \div B
             delta == k * B - s.day
             n == IF delta % 2 = 0 THEN k + delta ELSE k - delta
  <2>2. k \in Int
    BY <1>1, <2>1
  <2>3. delta \in Int
    <3> HIDE DEF k
    <3> QED  BY <1>1, <2>1, <2>2
  <2>4. n \in Int
    <3> HIDE DEF k, delta
    <3> QED  BY <2>2, <2>3
  <2>5. ZiweiBranch(s.day, B) = (2 + n - 1) % 12
    BY DEF ZiweiBranch, Yin
  <2> HIDE DEF n
  <2>6. (2 + n - 1) % 12 \in 0 .. 11
    BY <2>4
  <2> QED  BY <2>5, <2>6 DEF B, Branch
<1> HIDE DEF ziwei
<1>3. \A y \in SixStars : ZiweiOffset[y] \in 0 .. 8
  BY DEF SixStars, ZiweiOffset
<1>4. \A y \in EightStars : TianfuOffset[y] \in 0 .. 10
  BY DEF EightStars, TianfuOffset
<1>5. Stars(s)[x] = IF x \in Major THEN MajorStars(s)[x] ELSE AuxiliaryStars(s)[x]
  <2>1. x \in Major \cup DOMAIN AuxiliaryStars(s)
    BY StarNames DEF Major, AllStars
  <2> QED  BY <2>1, Zenon DEF Stars
<1>6. CASE x \in Major
  <2>1. MajorStars(s)[x] = IF x \in DOMAIN ZiweiOffset THEN (ziwei - ZiweiOffset[x]) % 12
                           ELSE (TianfuBranch(ziwei) + TianfuOffset[x]) % 12
    BY <1>6, Zenon DEF MajorStars, ziwei
  <2>2. CASE x \in SixStars
    <3>1. (ziwei - ZiweiOffset[x]) % 12 \in 0 .. 11
      BY <1>2, <1>3, <2>2 DEF Branch
    <3> QED  BY <1>5, <1>6, <2>1, <2>2, <3>1, StarNames DEF Branch
  <2>3. CASE x \notin SixStars
    <3>1. x \in EightStars
      BY <1>6, <2>3, StarNames DEF Major
    <3>2. (TianfuBranch(ziwei) + TianfuOffset[x]) % 12 \in 0 .. 11
      <4>1. TianfuBranch(ziwei) \in 0 .. 11
        BY <1>2 DEF TianfuBranch, Branch
      <4> QED  BY <1>4, <3>1, <4>1
    <3> QED  BY <1>5, <1>6, <2>1, <2>3, <3>2, StarNames DEF Branch
  <2> QED  BY <2>2, <2>3
<1>7. CASE x \notin Major
  <2>1. x \in Auxiliary
    BY <1>7, StarNames DEF Major, AllStars
  <2>2. /\ (4 + s.month - 1) % 12 \in 0 .. 11 /\ (10 - (s.month - 1)) % 12 \in 0 .. 11
        /\ (4 + s.hour) % 12 \in 0 .. 11 /\ (10 - s.hour) % 12 \in 0 .. 11
    BY <1>1 DEF Branch
  <2>3. AuxiliaryStars(s)[x] \in 0 .. 11
    BY <2>1, <2>2 DEF AuxiliaryStars, Auxiliary, Chen, Xu
  <2> QED  BY <1>5, <1>7, <2>3 DEF Branch
<1> QED  BY <1>6, <1>7

-----------------------------------------------------------------------------
(* What a chart holds.                                                     *)
LEMMA PlacementFields ==
    ASSUME NEW s \in Seed
    PROVE  /\ DOMAIN Placements(s) = AllStars
           /\ \A x \in AllStars :
                 /\ Placements(s)[x].branch = Stars(s)[x]
                 /\ Placements(s)[x].role = RoleOn(Stars(s)[x], s)
                 /\ Placements(s)[x].family \in DeclaredFamilies
<1>1. DOMAIN Placements(s) = AllStars
  BY StarNames, Zenon DEF Placements, AllStars
<1>2. ASSUME NEW x \in AllStars
      PROVE  /\ Placements(s)[x].branch = Stars(s)[x]
             /\ Placements(s)[x].role = RoleOn(Stars(s)[x], s)
             /\ Placements(s)[x].family \in DeclaredFamilies
  <2> DEFINE b == Stars(s)[x]
             role == RoleOn(b, s)
             family == Family(x)
             transformed == Transformed(s, x)
             p == Placements(s)[x]
  <2>1. p = [branch |-> b, role |-> role, family |-> family, transformations |-> transformed]
    <3>1. x \in DOMAIN Stars(s)
      BY StarNames DEF AllStars
    <3> QED  BY <3>1, Zenon DEF Placements
  <2>2. family \in DeclaredFamilies
    BY DEF Family, DeclaredFamilies
  <2> HIDE DEF b, role, family, transformed, p
  <2>3. p.branch = b /\ p.role = role /\ p.family \in DeclaredFamilies
    BY <2>1, <2>2
  <2> QED  BY <2>3 DEF b, role, p
<1> QED  BY <1>1, <1>2

(* The stars on a branch.                                                  *)
StarsOn(s, b) == {x \in AllStars : Stars(s)[x] = b}

(* The fields of a chart, its palaces and their stars.                     *)
LEMMA ChartFields ==
    ASSUME NEW s \in Seed
    PROVE  LET c == Chart(s)
               b(i) == (MingBranch(s) - i) % 12
           IN  /\ c.placements = Placements(s) /\ c.bureau = BureauOf(s)
               /\ c.emitted = DeclaredFamilies \cap {c.placements[x].family : x \in AllStars}
               /\ c.missing = DeclaredFamilies \ {c.placements[x].family : x \in AllStars}
               /\ DOMAIN c.palaces = Branch
               /\ \A i \in Branch :
                     /\ c.palaces[i].role = Role[i + 1] /\ c.palaces[i].branch = b(i)
                     /\ c.palaces[i].stem = PalaceStem(b(i), s)
                     /\ c.palaces[i].stars = StarsOn(s, b(i))
<1> DEFINE placements == Placements(s)
           bureau == BureauOf(s)
           families == {placements[x].family : x \in DOMAIN placements}
           emitted == DeclaredFamilies \cap families
           missing == DeclaredFamilies \ families
           p(i) == BuildPalaces(s)[i]
           palaces == [i \in Branch |->
                          [role |-> p(i).role, branch |-> p(i).branch, stem |-> p(i).stem,
                           ming |-> p(i).ming, shen |-> p(i).shen,
                           stars |-> {x \in DOMAIN placements : placements[x].branch = p(i).branch}]]
           c == Chart(s)
<1>1. c = [palaces |-> palaces, placements |-> placements, bureau |-> bureau,
           emitted |-> emitted, missing |-> missing]
  BY Zenon DEF Chart
<1>2. /\ c.palaces = palaces /\ c.placements = placements /\ c.bureau = bureau
      /\ c.emitted = emitted /\ c.missing = missing
  <2> HIDE DEF palaces, placements, bureau, emitted, missing, c
  <2> QED  BY <1>1
<1>3. DOMAIN placements = AllStars
  BY PlacementFields
<1>4. DOMAIN palaces = Branch
  OBVIOUS
<1>5. ASSUME NEW i \in Branch
      PROVE  /\ palaces[i].role = Role[i + 1] /\ palaces[i].branch = (MingBranch(s) - i) % 12
             /\ palaces[i].stem = PalaceStem((MingBranch(s) - i) % 12, s)
             /\ palaces[i].stars = StarsOn(s, (MingBranch(s) - i) % 12)
  <2> DEFINE role == p(i).role
             branch == p(i).branch
             stem == p(i).stem
             ming == p(i).ming
             shen == p(i).shen
             stars == {x \in DOMAIN placements : placements[x].branch = branch}
             q == palaces[i]
  <2>1. q = [role |-> role, branch |-> branch, stem |-> stem, ming |-> ming, shen |-> shen,
             stars |-> stars]
    BY Zenon
  <2>2. q.role = role /\ q.branch = branch /\ q.stem = stem /\ q.stars = stars
    <3> HIDE DEF role, branch, stem, ming, shen, stars, q
    <3> QED  BY <2>1
  <2>3. /\ role = Role[i + 1] /\ branch = (MingBranch(s) - i) % 12
        /\ stem = PalaceStem((MingBranch(s) - i) % 12, s)
    BY PalacesApart
  <2>4. stars = StarsOn(s, branch)
    <3> HIDE DEF branch
    <3>1. \A x \in AllStars : placements[x].branch = Stars(s)[x]
      BY PlacementFields
    <3> QED  BY <1>3, <3>1, Zenon DEF StarsOn
  <2> HIDE DEF role, branch, stem, stars, q
  <2> QED  BY <2>2, <2>3, <2>4, Zenon DEF q
<1>6. /\ emitted = DeclaredFamilies \cap {c.placements[x].family : x \in AllStars}
      /\ missing = DeclaredFamilies \ {c.placements[x].family : x \in AllStars}
  <2>1. families = {c.placements[x].family : x \in AllStars}
    <3> HIDE DEF placements, c
    <3>1. c.placements = placements
      BY <1>2
    <3> QED  BY <1>3, <3>1
  <2> HIDE DEF families, c
  <2> QED  BY <2>1, Zenon DEF emitted, missing
<1>7. c.placements = Placements(s) /\ c.bureau = BureauOf(s) /\ DOMAIN c.palaces = Branch
  <2> HIDE DEF palaces, c
  <2> QED  BY <1>2, <1>4, Zenon
<1>8. \A i \in Branch :
         /\ c.palaces[i].role = Role[i + 1] /\ c.palaces[i].branch = (MingBranch(s) - i) % 12
         /\ c.palaces[i].stem = PalaceStem((MingBranch(s) - i) % 12, s)
         /\ c.palaces[i].stars = StarsOn(s, (MingBranch(s) - i) % 12)
  <2> HIDE DEF palaces, c
  <2> QED  BY <1>2, <1>5, Zenon
<1> HIDE DEF placements, bureau, families, emitted, missing, palaces, p
<1> QED  BY <1>2, <1>6, <1>7, <1>8, Zenon

(* The element of the bureau is the one that the cycle of sixty gives the  *)
(* pillar of the Ming palace: both go by pairs of stems and of branches.   *)
LEMMA BureauIsNaYin ==
    ASSUME NEW t \in 0 .. 9, NEW b \in Branch, ValidParity(t, b)
    PROVE  Bureau(t, b).phase = ElementOf([stem |-> t, branch |-> b])
<1> DEFINE h == t \div 2
           e == t % 2
           c == b \div 2
           i == Index60([stem |-> t, branch |-> b])
           n == (i % 30) \div 2
           v == BureauV(t, b)
<1>1. h \in 0 .. 4 /\ e \in 0 .. 1 /\ c \in 0 .. 5 /\ t = 2 * h + e /\ b = 2 * c + e
  BY DEF Branch, ValidParity
<1>2. v = ((h + 1 + (c % 3) + 1 - 1) % 5) + 1
  <2>1. (b % 6) \div 2 = c % 3
    BY <1>1 DEF Branch
  <2> QED  BY <2>1 DEF BureauV
<1>3. i = (6 * t - 5 * b) % 60
  <2>1. /\ [stem |-> t, branch |-> b].stem = t
        /\ [stem |-> t, branch |-> b].branch = b
    OBVIOUS
  <2> QED  BY <2>1, Zenon DEF Index60
<1>4. Bureau(t, b) =
          << [phase |-> "wood", number |-> 3], [phase |-> "metal", number |-> 4],
             [phase |-> "water", number |-> 2], [phase |-> "fire", number |-> 6],
             [phase |-> "earth", number |-> 5] >>[v]
  BY DEF Bureau
<1>5. ElementOf([stem |-> t, branch |-> b]) = NaYin[n + 1]
  BY Zenon DEF ElementOf
<1> HIDE DEF h, e, c, i, v
<1>6. 6 * t - 5 * b = 12 * h - 10 * c + e
  BY <1>1
<1>7. n = (6 * h - 5 * c) % 15
  <2> DEFINE a == 6 * h - 5 * c
  <2>1. a \in -25 .. 24 /\ i = (2 * a + e) % 60
    BY <1>1, <1>3, <1>6
  <2> HIDE DEF a
  <2>2. n = a % 15
    BY <1>1, <2>1
  <2> QED  BY <2>2 DEF a
<1> HIDE DEF n
<1>8. \/ v = 1 /\ n + 1 \in {3, 10, 14}
      \/ v = 2 /\ n + 1 \in {1, 5, 9}
      \/ v = 3 /\ n + 1 \in {7, 11, 15}
      \/ v = 4 /\ n + 1 \in {2, 6, 13}
      \/ v = 5 /\ n + 1 \in {4, 8, 12}
  BY <1>1, <1>2, <1>7
<1>9. CASE v = 1 /\ n + 1 \in {3, 10, 14}
  BY <1>4, <1>5, <1>9 DEF NaYin
<1>10. CASE v = 2 /\ n + 1 \in {1, 5, 9}
  BY <1>4, <1>5, <1>10 DEF NaYin
<1>11. CASE v = 3 /\ n + 1 \in {7, 11, 15}
  BY <1>4, <1>5, <1>11 DEF NaYin
<1>12. CASE v = 4 /\ n + 1 \in {2, 6, 13}
  BY <1>4, <1>5, <1>12 DEF NaYin
<1>13. CASE v = 5 /\ n + 1 \in {4, 8, 12}
  BY <1>4, <1>5, <1>13 DEF NaYin
<1> QED  BY <1>8, <1>9, <1>10, <1>11, <1>12, <1>13

(* A date of the calendar and a minute make a seed.                        *)
LEMMA SeedOfDate ==
    ASSUME NEW l \in LunarDate, NEW m \in Minutes
    PROVE  SeedOf(l, m) \in Seed
<1> DEFINE month == EffectiveMonth(l)
           stem == (l.year - 4) % 10
           branch == (l.year - 4) % 12
           hour == HourBranch(m)
<1>1. l.year \in Nat /\ l.month \in 1 .. 12 /\ l.day \in 1 .. 30
  BY DEF LunarDate
<1>2. month \in 1 .. 12
  <2>1. month = l.month \/ month = (l.month % 12) + 1
    BY Zenon DEF EffectiveMonth
  <2> HIDE DEF month
  <2>2. (l.month % 12) + 1 \in 1 .. 12
    BY <1>1
  <2> QED  BY <1>1, <2>1, <2>2
<1>3. stem \in 0 .. 9 /\ branch \in Branch
  BY <1>1 DEF Branch
<1>4. hour \in Branch
  <2>1. m \in Nat
    BY MinuteAssumption
  <2>2. ((m \div 60) + 1) \div 2 \in Int
    BY <2>1
  <2> DEFINE h == ((m \div 60) + 1) \div 2
  <2> HIDE DEF h
  <2>3. h % 12 \in 0 .. 11
    BY <2>2 DEF h
  <2> QED  BY <2>3 DEF HourBranch, Branch, h
<1>5. SeedOf(l, m) = [month |-> month, day |-> l.day, stem |-> stem, branch |-> branch,
                      hour |-> hour]
  BY Zenon DEF SeedOf
<1> HIDE DEF month, stem, branch, hour
<1> QED  BY <1>1, <1>2, <1>3, <1>4, <1>5 DEF Seed

(* Every accepted request with decades has a direction.                    *)
LEMMA DirectionAlways == DirectionDecided
<1> SUFFICES ASSUME NEW q \in Request, Accepted(q), q.decadal
             PROVE  Direction(q, SeedOf(lunar, minute).stem) # "error"
  BY DEF DirectionDecided
<1> DEFINE t == SeedOf(lunar, minute).stem
<1>1. /\ q.method \in {"explicit", "year_stem_yinyang_and_sex", "omit"}
      /\ q.flow \in {"none", "forward", "backward"}
  BY DEF Request
<1>2. q.method # "omit"
  BY Zenon DEF Accepted, Conditionals
<1>3. q.method = "explicit" => q.flow # "none"
  BY Zenon DEF Accepted, Conditionals
<1>4. q.method = "year_stem_yinyang_and_sex" => q.sex # "none"
  BY Zenon DEF Accepted, Conditionals
<1> HIDE DEF t
<1>5. CASE q.method = "explicit"
  <2>1. Direction(q, t) = q.flow
    BY <1>3, <1>5 DEF Direction
  <2>2. q.flow # "error"
    BY <1>1
  <2> QED  BY <2>1, <2>2 DEF t
<1>6. CASE q.method = "year_stem_yinyang_and_sex"
  <2>1. Direction(q, t) = IF (t % 2 = 0) <=> (q.sex = "male") THEN "forward" ELSE "backward"
    BY <1>4, <1>6 DEF Direction
  <2> QED  BY <2>1 DEF t
<1> QED  BY <1>1, <1>2, <1>5, <1>6

(* A chart passes the validation of its own graph.                         *)
LEMMA GraphValid ==
    ASSUME NEW s \in Seed
    PROVE  ValidGraph(Chart(s))
<1> DEFINE c == Chart(s)
           b(i) == (MingBranch(s) - i) % 12
<1>1. /\ c.placements = Placements(s)
      /\ c.emitted = DeclaredFamilies \cap {c.placements[x].family : x \in AllStars}
      /\ c.missing = DeclaredFamilies \ {c.placements[x].family : x \in AllStars}
      /\ DOMAIN c.palaces = Branch
  BY ChartFields, Zenon
<1>2. \A i \in Branch : /\ c.palaces[i].role = Role[i + 1] /\ c.palaces[i].branch = b(i)
                        /\ c.palaces[i].stars = StarsOn(s, b(i))
  BY ChartFields, Zenon
<1>3. /\ DOMAIN c.placements = AllStars
      /\ \A x \in AllStars : /\ c.placements[x].branch = Stars(s)[x]
                                 /\ c.placements[x].role = RoleOn(Stars(s)[x], s)
                                 /\ c.placements[x].family \in DeclaredFamilies
  BY <1>1, PlacementFields, Zenon
<1>4. \A i, j \in Branch : b(i) = b(j) => i = j
  BY PalacesApart
<1>5. \A i \in Branch : RoleOn(b(i), s) = Role[i + 1]
  BY RoleFound
<1> HIDE DEF c, b
<1>6. ReferencesOK(c)
  <2>1. ASSUME NEW i \in DOMAIN c.palaces PROVE c.palaces[i].stars \subseteq DOMAIN c.placements
    BY <1>1, <1>2, <1>3, <2>1, Zenon DEF StarsOn
  <2>2. ASSUME NEW i \in DOMAIN c.palaces, NEW j \in DOMAIN c.palaces, i # j
        PROVE  c.palaces[i].stars \cap c.palaces[j].stars = {}
    <3>1. i \in Branch /\ j \in Branch /\ b(i) # b(j)
      BY <1>1, <1>4, <2>2, Zenon
    <3>2. c.palaces[i].stars = StarsOn(s, b(i)) /\ c.palaces[j].stars = StarsOn(s, b(j))
      BY <1>2, <3>1, Zenon
    <3> QED  BY <3>1, <3>2, Zenon DEF StarsOn
  <2> QED  BY <2>1, <2>2, Zenon DEF ReferencesOK
<1>7. AgreementOK(c)
  <2> SUFFICES ASSUME NEW i \in DOMAIN c.palaces, NEW x \in c.palaces[i].stars
               PROVE  /\ c.placements[x].role = c.palaces[i].role
                      /\ c.placements[x].branch = c.palaces[i].branch
    BY Zenon DEF AgreementOK
  <2>1. i \in Branch
    BY <1>1, Zenon
  <2>2. x \in AllStars /\ Stars(s)[x] = b(i)
    BY <1>2, <2>1, Zenon DEF StarsOn
  <2> QED  BY <1>2, <1>3, <1>5, <2>1, <2>2, Zenon
<1>8. PalaceSetOK(c)
  <2>1. ASSUME NEW i \in DOMAIN c.palaces, NEW j \in DOMAIN c.palaces, i # j
        PROVE  c.palaces[i].branch # c.palaces[j].branch
    <3>1. i \in Branch /\ j \in Branch /\ b(i) # b(j)
      BY <1>1, <1>4, <2>1, Zenon
    <3> QED  BY <1>2, <3>1, Zenon
  <2> QED  BY <1>1, <2>1, Zenon DEF PalaceSetOK, Branch
<1>9. CompletenessOK(c)
  <2> DEFINE present == {c.placements[x].family : x \in DOMAIN c.placements}
  <2>1. present = {c.placements[x].family : x \in AllStars}
    BY <1>3, Zenon
  <2>2. present \subseteq DeclaredFamilies
    BY <1>3
  <2> HIDE DEF present
  <2>3. c.emitted = present /\ c.missing = DeclaredFamilies \ present
    BY <1>1, <2>1, <2>2
  <2> QED  BY <2>3, Zenon DEF CompletenessOK, present
<1> QED  BY <1>6, <1>7, <1>8, <1>9, Zenon DEF ValidGraph, c

(* Each of its eighteen stars is in a palace.                              *)
LEMMA StarsHoused ==
    ASSUME NEW s \in Seed
    PROVE  LET c == Chart(s)
           IN  /\ Cardinality(DOMAIN c.placements) = 18
               /\ \A x \in DOMAIN c.placements : \E i \in Branch : x \in c.palaces[i].stars
<1> DEFINE c == Chart(s)
           b(i) == (MingBranch(s) - i) % 12
<1>1. c.placements = Placements(s) /\ \A i \in Branch : c.palaces[i].stars = StarsOn(s, b(i))
  BY ChartFields, Zenon
<1>2. DOMAIN c.placements = AllStars
  BY <1>1, PlacementFields, Zenon
<1> HIDE DEF c
<1>3. ASSUME NEW x \in DOMAIN c.placements PROVE \E i \in Branch : x \in c.palaces[i].stars
  <2>1. x \in AllStars /\ Stars(s)[x] \in Branch
    BY <1>2, StarsOnBranches
  <2>2. PICK i \in Branch : b(i) = Stars(s)[x]
    BY <2>1, PalacesApart
  <2>3. x \in StarsOn(s, b(i))
    BY <2>1, <2>2, Zenon DEF StarsOn
  <2> QED  BY <1>1, <2>2, <2>3, Zenon
<1>4. Cardinality(DOMAIN c.placements) = 18
  BY <1>2, Eighteen, Zenon DEF AllStars
<1> QED  BY <1>3, <1>4, Zenon DEF c

(* The pillars of its palaces are months of a BaZi year of that stem.      *)
LEMMA PillarsOfPalaces ==
    ASSUME NEW s \in Seed
    PROVE  LET c == Chart(s)
               pillar(i) == [stem |-> c.palaces[i].stem, branch |-> c.palaces[i].branch]
           IN  /\ ValidParity(pillar(0).stem, pillar(0).branch)
               /\ c.bureau.phase = ElementOf(pillar(0))
               /\ \A i \in Branch :
                     pillar(i) = MonthPillar(TRUE, s.stem, (pillar(i).branch - Yin) % 12)
<1> DEFINE c == Chart(s)
           b(i) == (MingBranch(s) - i) % 12
           pillar(i) == [stem |-> c.palaces[i].stem, branch |-> c.palaces[i].branch]
<1>1. c.bureau = BureauOf(s)
  BY ChartFields, Zenon
<1>2. \A i \in Branch : c.palaces[i].branch = b(i) /\ c.palaces[i].stem = PalaceStem(b(i), s)
  BY ChartFields, Zenon
<1>3. \A i \in Branch : b(i) \in Branch
  BY PalacesApart
<1>4. b(0) = MingBranch(s) /\ 0 \in Branch
  BY MingOnBranch DEF Branch
<1> HIDE DEF c, b
<1>5. \A i \in Branch : pillar(i) = [stem |-> PalaceStem(b(i), s), branch |-> b(i)]
  BY <1>2, Zenon
<1>6. \A i \in Branch : pillar(i).stem = PalaceStem(b(i), s) /\ pillar(i).branch = b(i)
  <2> SUFFICES ASSUME NEW i \in Branch
               PROVE  pillar(i).stem = PalaceStem(b(i), s) /\ pillar(i).branch = b(i)
    OBVIOUS
  <2> DEFINE p == pillar(i)
             t == PalaceStem(b(i), s)
  <2>1. p = [stem |-> t, branch |-> b(i)]
    BY <1>5, Zenon
  <2> HIDE DEF p, t
  <2>2. p.stem = t /\ p.branch = b(i)
    BY <2>1
  <2> QED  BY <2>2, Zenon DEF p, t
<1>7. \A i \in Branch : pillar(i) = MonthPillar(TRUE, s.stem, (pillar(i).branch - Yin) % 12)
  <2> SUFFICES ASSUME NEW i \in Branch
               PROVE  pillar(i) = MonthPillar(TRUE, s.stem, (b(i) - 2) % 12)
    BY <1>6, Zenon DEF Yin
  <2> DEFINE d == (b(i) - 2) % 12
             t == PalaceStem(b(i), s)
  <2>1. b(i) \in Branch /\ s.stem \in 0 .. 9
    BY <1>3, MingOnBranch
  <2>2. d \in 0 .. 11 /\ (2 + d) % 12 = b(i)
    BY <2>1 DEF Branch
  <2>3. t = (s.stem * 2 + 2 + d) % 10
    BY <2>1, PalaceStems
  <2> HIDE DEF d, t
  <2>4. MonthStem(TRUE, s.stem, d) = t
    BY <2>1, <2>2, <2>3, MonthTableIsFormula
  <2>5. MonthPillar(TRUE, s.stem, d) = [stem |-> t, branch |-> b(i)]
    BY <2>2, <2>4, Zenon DEF MonthPillar
  <2> QED  BY <1>5, <2>5, Zenon DEF d, t
<1>8. ValidParity(pillar(0).stem, pillar(0).branch) /\ c.bureau.phase = ElementOf(pillar(0))
  <2> DEFINE t == PalaceStem(MingBranch(s), s)
             m == MingBranch(s)
  <2>1. m \in Branch /\ t \in 0 .. 9 /\ ValidParity(t, m)
    BY MingOnBranch, PalaceStems
  <2>2. pillar(0) = [stem |-> t, branch |-> m] /\ pillar(0).stem = t /\ pillar(0).branch = m
    BY <1>4, <1>5, <1>6, Zenon
  <2>3. c.bureau = Bureau(t, m)
    BY <1>1, Zenon DEF BureauOf
  <2> HIDE DEF t, m, pillar
  <2>4. Bureau(t, m).phase = ElementOf([stem |-> t, branch |-> m])
    BY <2>1, BureauIsNaYin
  <2> QED  BY <2>1, <2>2, <2>3, <2>4, Zenon
<1> QED  BY <1>7, <1>8, Zenon DEF c

(* Forwards and backwards the decades go round all twelve palaces.         *)
LEMMA DecadesGoRound ==
    ASSUME NEW s \in Seed, NEW forward \in BOOLEAN
    PROVE  {DecadalLimits(s, forward)[j].role : j \in Branch} = {Role[i] : i \in 1 .. 12}
<1> DEFINE m == MingBranch(s)
           place(j) == (m + (IF forward THEN j ELSE 0 - j)) % 12
           role(j) == DecadalLimits(s, forward)[j].role
           b(i) == (m - i) % 12
<1>1. m \in Branch
  BY MingOnBranch
<1>2. \A j \in Branch : role(j) = RoleOn(place(j), s)
  <2> SUFFICES ASSUME NEW j \in Branch PROVE role(j) = RoleOn(place(j), s)
    OBVIOUS
  <2> DEFINE start == BureauOf(s).number + 10 * j
             r == RoleOn(place(j), s)
             d == DecadalLimits(s, forward)[j]
             last == start + 9
             here == place(j)
  <2>1. d = [branch |-> here, role |-> r, from |-> start, to |-> last]
    BY Zenon DEF DecadalLimits
  <2> HIDE DEF start, r, d, last, here
  <2>2. d.role = r
    BY <2>1
  <2> QED  BY <2>2, Zenon DEF d, r
<1>3. \A i \in Branch : RoleOn(b(i), s) = Role[i + 1]
  BY RoleFound
<1>4. \A j \in Branch : \E i \in Branch : place(j) = b(i)
  <2> SUFFICES ASSUME NEW j \in Branch PROVE \E i \in Branch : place(j) = b(i)
    OBVIOUS
  <2>1. CASE forward
    <3>1. place(j) = b((0 - j) % 12) /\ (0 - j) % 12 \in Branch
      BY <1>1, <2>1, RoundTwelve
    <3> QED  BY <3>1, Zenon
  <2>2. CASE ~forward
    <3>1. place(j) = b(j)
      BY <1>1, <2>2 DEF Branch
    <3> QED  BY <3>1, Zenon
  <2> QED  BY <2>1, <2>2
<1>5. \A i \in Branch : \E j \in Branch : place(j) = b(i)
  <2> SUFFICES ASSUME NEW i \in Branch PROVE \E j \in Branch : place(j) = b(i)
    OBVIOUS
  <2>1. CASE forward
    <3> DEFINE j == (0 - i) % 12
    <3>1. j \in Branch /\ (0 - j) % 12 = i
      BY RoundTwelve DEF Branch
    <3>2. (m - ((0 - j) % 12)) % 12 = (m + j) % 12
      BY <1>1, <3>1, RoundTwelve
    <3>3. place(j) = b(i)
      BY <2>1, <3>1, <3>2
    <3> QED  BY <3>1, <3>3, Zenon
  <2>2. CASE ~forward
    <3>1. place(i) = b(i)
      BY <1>1, <2>2 DEF Branch
    <3> QED  BY <3>1, Zenon
  <2> QED  BY <2>1, <2>2
<1> HIDE DEF place, b, role
<1>6. \A j \in Branch : \E i \in Branch : role(j) = Role[i + 1]
  BY <1>2, <1>3, <1>4, Zenon
<1>7. \A i \in Branch : \E j \in Branch : role(j) = Role[i + 1]
  BY <1>2, <1>3, <1>5, Zenon
<1>8. \A k \in 1 .. 12 : \E i \in Branch : k = i + 1
  BY SMT DEF Branch
<1>9. \A i \in Branch : i + 1 \in 1 .. 12
  BY SMT DEF Branch
<1>10. {role(j) : j \in Branch} = {Role[i] : i \in 1 .. 12}
  <2>1. ASSUME NEW j \in Branch PROVE \E k \in 1 .. 12 : role(j) = Role[k]
    BY <1>6, <1>9, Zenon
  <2>2. ASSUME NEW k \in 1 .. 12 PROVE \E j \in Branch : role(j) = Role[k]
    BY <1>7, <1>8, Zenon
  <2> QED  BY <2>1, <2>2
<1> QED  BY <1>10, Zenon DEF role

(* A chart is sound: it passes its own validation, each of its eighteen    *)
(* stars is in one palace, the bureau, the stems and the decades agree     *)
(* with the cycle of sixty, and a request that is let through has a        *)
(* direction for its decades.                                              *)
LEMMA ChartOfSeed == ASSUME ZwdsInv PROVE ChartOK
<1> DEFINE s == SeedOf(lunar, minute)
<1>1. lunar \in LunarDate /\ minute \in Minutes
  BY LeapRuleHolds DEF LeapRule, ZwdsInv, BirthInYears
<1>2. s \in Seed
  BY <1>1, SeedOfDate
<1> HIDE DEF s
<1>3. ValidGraph(Chart(s))
  BY <1>2, GraphValid
<1>4. /\ Cardinality(DOMAIN Chart(s).placements) = 18
      /\ \A x \in DOMAIN Chart(s).placements : \E i \in Branch : x \in Chart(s).palaces[i].stars
  BY <1>2, StarsHoused, Zenon
<1>5. LET c == Chart(s)
          pillar(i) == [stem |-> c.palaces[i].stem, branch |-> c.palaces[i].branch]
      IN  /\ ValidParity(pillar(0).stem, pillar(0).branch)
          /\ c.bureau.phase = ElementOf(pillar(0))
          /\ \A i \in Branch :
                pillar(i) = MonthPillar(TRUE, s.stem, (pillar(i).branch - Yin) % 12)
  BY <1>2, PillarsOfPalaces
<1>6. \A forward \in BOOLEAN :
         {DecadalLimits(s, forward)[j].role : j \in Branch} = {Role[i] : i \in 1 .. 12}
  BY <1>2, DecadesGoRound
<1> QED  BY <1>2, <1>3, <1>4, <1>5, <1>6, DirectionAlways, Zenon DEF ChartOK, s

(* So is the chart of every birth, at every offset.                        *)
THEOREM ChartsSound == ZwdsSpec => []ChartOK
BY ZwdsInvariant, ChartOfSeed, PTL

-----------------------------------------------------------------------------
(* Only the holder of the lock is in the critical section, which begins    *)
(* and ends with the default mode and reads the ayanamsa in its own.       *)
Section ==
    /\ \A t \in Thread : pc[t] \in Guarded => lock = t
    /\ lock # NoThread => pc[lock] \in Guarded
    /\ \A t \in Thread : pc[t] = "ayanamsa" => sid = want[t]
    /\ \A t \in Thread : pc[t] \in {"setSid", "unlock"} => sid = 0
    /\ lock = NoThread => sid = 0
    /\ \A t \in Thread : pc[t] \in {"lock"} \cup Guarded => want[t] \in SidMode
    /\ \A t \in Thread : got[t] = want[t]

(* An attested backend has a result that was checked; past the houses a    *)
(* request has an attested backend.                                        *)
Attested ==
    \A t \in Thread :
        /\ attested[t] /\ pc[t] # "idle" /\ pc[t] # "construct" => checked[t] # {}
        /\ enforce /\ pc[t] \in {"lock"} \cup Guarded => checked[t] # {}
        /\ enforce /\ job[t] = "western" /\ reply[t] = "ok" => checked[t] # {}

(* Through an outage of its own a request gets no further than the         *)
(* construction of the backend.                                            *)
Outage ==
    mode = "SWIEPH" => \A t \in Thread : outage[t] =>
        files # Body /\ pc[t] \in {"idle", "construct"} /\ reply[t] # "ok"

IInv == TypeOK /\ Section /\ Attested /\ Outage /\ NoSilentDowngrade

-----------------------------------------------------------------------------
LEMMA InitIInv == Init => IInv
BY NoThreadAssumption, SidModeAssumption
   DEF Init, IInv, TypeOK, Section, Attested, Outage, NoSilentDowngrade,
       Label, Guarded, Job, Precision

(* The type of the state is preserved.                                     *)
LEMMA TypeStep ==
    ASSUME TypeOK, Section, [Next]_vars
    PROVE  TypeOK'
<1> USE NoThreadAssumption, SidModeAssumption DEF TypeOK, Label, Job, library, request, setting
<1>1. ASSUME FilesChange PROVE TypeOK'
  BY <1>1 DEF FilesChange
<1>2. ASSUME NEW t \in Thread, NEW kind \in Job, NEW z \in SidMode \cup {Tropical}, Arrive(t, kind, z)
      PROVE  TypeOK'
  BY <1>2 DEF Arrive, Goto
<1>3. ASSUME NEW t \in Thread, Construct(t) PROVE TypeOK'
  BY <1>3 DEF Construct, Answer, Goto
<1>4. ASSUME NEW t \in Thread, SetPath(t) PROVE TypeOK'
  BY <1>4 DEF SetPath, Goto
<1>5. ASSUME NEW t \in Thread, NEW b \in Body, Calc(t, b) PROVE TypeOK'
  <2>1. Reach(b) \in Precision /\ Opened(b) \subseteq Body
    BY DEF Reach, Opened, Precision
  <2>2. checked[t] \cup {Reach(b)} \in SUBSET Precision
    BY <2>1
  <2>3. CASE Reach(b) = "MOSEPH" /\ mode # "MOSEPH" /\ enforce
    BY <1>5, <2>1, <2>3 DEF Calc, Answer, Goto
  <2>4. CASE ~(Reach(b) = "MOSEPH" /\ mode # "MOSEPH" /\ enforce)
    <3>1. checked' \in [Thread -> SUBSET Precision]
      BY <1>5, <2>2, <2>4 DEF Calc
    <3>2. todo' \in [Thread -> SUBSET Body]
      BY <1>5, <2>4 DEF Calc, Done
    <3>3. attested' \in [Thread -> BOOLEAN]
      BY <1>5, <2>4 DEF Calc
    <3>4. QED
      BY <1>5, <2>1, <2>4, <3>1, <3>2, <3>3 DEF Calc
  <2>5. QED
    BY <2>3, <2>4
<1>6. ASSUME NEW t \in Thread, NEW b \in Body, CalcError(t, b) PROVE TypeOK'
  BY <1>6 DEF CalcError, Answer, Goto, Done
<1>7. ASSUME NEW t \in Thread, NEW b \in Body, Solcross(t, b) PROVE TypeOK'
  BY <1>7 DEF Solcross, Done, Opened
<1>8. ASSUME NEW t \in Thread, Computed(t) PROVE TypeOK'
  BY <1>8 DEF Computed, Answer, Goto
<1>9. ASSUME NEW t \in Thread, Houses(t) PROVE TypeOK'
  BY <1>9 DEF Houses, Answer, Goto
<1>10. ASSUME NEW t \in Thread, Lock(t) PROVE TypeOK'
  BY <1>10 DEF Lock, Goto
<1>11. ASSUME NEW t \in Thread, SetSid(t) PROVE TypeOK'
  BY <1>11 DEF SetSid, Goto, Section, Guarded
<1>12. ASSUME NEW t \in Thread, GetAyanamsa(t) PROVE TypeOK'
  BY <1>12 DEF GetAyanamsa, Goto, Section, Guarded
<1>13. ASSUME NEW t \in Thread, ResetSid(t) PROVE TypeOK'
  BY <1>13 DEF ResetSid, Goto
<1>14. ASSUME NEW t \in Thread, Unlock(t) PROVE TypeOK'
  BY <1>14 DEF Unlock, Answer, Goto
<1>15. CASE UNCHANGED vars
  BY <1>15 DEF vars
<1>16. QED
  BY <1>1, <1>2, <1>3, <1>4, <1>5, <1>6, <1>7, <1>8, <1>9, <1>10, <1>11, <1>12, <1>13, <1>14,
     <1>15 DEF Next

(* One thread at a time goes through the critical section, and leaves the  *)
(* library as it found it.                                                 *)
LEMMA SectionStep ==
    ASSUME TypeOK, Section, [Next]_vars
    PROVE  Section'
<1> USE NoThreadAssumption, SidModeAssumption
        DEF TypeOK, Section, Label, Guarded, library, request, setting
<1>1. ASSUME FilesChange PROVE Section'
  BY <1>1 DEF FilesChange
<1>2. ASSUME NEW t \in Thread, NEW kind \in Job, NEW z \in SidMode \cup {Tropical}, Arrive(t, kind, z)
      PROVE  Section'
  BY <1>2 DEF Arrive, Goto
<1>3. ASSUME NEW t \in Thread, Construct(t) PROVE Section'
  BY <1>3 DEF Construct, Answer, Goto
<1>4. ASSUME NEW t \in Thread, SetPath(t) PROVE Section'
  BY <1>4 DEF SetPath, Goto
<1>5. ASSUME NEW t \in Thread, NEW b \in Body, Calc(t, b) PROVE Section'
  BY <1>5 DEF Calc, Answer, Goto, Done
<1>6. ASSUME NEW t \in Thread, NEW b \in Body, CalcError(t, b) PROVE Section'
  BY <1>6 DEF CalcError, Answer, Goto, Done
<1>7. ASSUME NEW t \in Thread, NEW b \in Body, Solcross(t, b) PROVE Section'
  BY <1>7 DEF Solcross, Done
<1>8. ASSUME NEW t \in Thread, Computed(t) PROVE Section'
  BY <1>8 DEF Computed, Answer, Goto
<1>9. ASSUME NEW t \in Thread, Houses(t) PROVE Section'
  BY <1>9 DEF Houses, Answer, Goto
<1>10. ASSUME NEW t \in Thread, Lock(t) PROVE Section'
  BY <1>10 DEF Lock, Goto
<1>11. ASSUME NEW t \in Thread, SetSid(t) PROVE Section'
  BY <1>11 DEF SetSid, Goto
<1>12. ASSUME NEW t \in Thread, GetAyanamsa(t) PROVE Section'
  BY <1>12 DEF GetAyanamsa, Goto
<1>13. ASSUME NEW t \in Thread, ResetSid(t) PROVE Section'
  BY <1>13 DEF ResetSid, Goto
<1>14. ASSUME NEW t \in Thread, Unlock(t) PROVE Section'
  BY <1>14 DEF Unlock, Answer, Goto
<1>15. CASE UNCHANGED vars
  BY <1>15 DEF vars
<1>16. QED
  BY <1>1, <1>2, <1>3, <1>4, <1>5, <1>6, <1>7, <1>8, <1>9, <1>10, <1>11, <1>12, <1>13, <1>14,
     <1>15 DEF Next

(* A request gets past its houses only with a result that was checked.     *)
LEMMA AttestedStep ==
    ASSUME TypeOK, Attested, [Next]_vars
    PROVE  Attested'
<1> USE NoThreadAssumption, SidModeAssumption
        DEF TypeOK, Attested, Label, Guarded, Job, library, request, setting
<1>1. ASSUME FilesChange PROVE Attested'
  BY <1>1 DEF FilesChange
<1>2. ASSUME NEW t \in Thread, NEW kind \in Job, NEW z \in SidMode \cup {Tropical}, Arrive(t, kind, z)
      PROVE  Attested'
  BY <1>2 DEF Arrive, Goto
<1>3. ASSUME NEW t \in Thread, Construct(t) PROVE Attested'
  BY <1>3 DEF Construct, Answer, Goto
<1>4. ASSUME NEW t \in Thread, SetPath(t) PROVE Attested'
  BY <1>4 DEF SetPath, Goto
<1>5. ASSUME NEW t \in Thread, NEW b \in Body, Calc(t, b) PROVE Attested'
  <2>1. checked[t] \cup {Reach(b)} # {}
    OBVIOUS
  <2>2. CASE Reach(b) = "MOSEPH" /\ mode # "MOSEPH" /\ enforce
    BY <1>5, <2>2 DEF Calc, Answer, Goto
  <2>3. CASE ~(Reach(b) = "MOSEPH" /\ mode # "MOSEPH" /\ enforce)
    BY <1>5, <2>1, <2>3, SMTT(30) DEF Calc, Done
  <2>4. QED
    BY <2>2, <2>3
<1>6. ASSUME NEW t \in Thread, NEW b \in Body, CalcError(t, b) PROVE Attested'
  BY <1>6 DEF CalcError, Answer, Goto, Done
<1>7. ASSUME NEW t \in Thread, NEW b \in Body, Solcross(t, b) PROVE Attested'
  BY <1>7 DEF Solcross, Done
<1>8. ASSUME NEW t \in Thread, Computed(t) PROVE Attested'
  BY <1>8 DEF Computed, Answer, Goto
<1>9. ASSUME NEW t \in Thread, Houses(t) PROVE Attested'
  BY <1>9 DEF Houses, Answer, Goto
<1>10. ASSUME NEW t \in Thread, Lock(t) PROVE Attested'
  BY <1>10 DEF Lock, Goto
<1>11. ASSUME NEW t \in Thread, SetSid(t) PROVE Attested'
  BY <1>11 DEF SetSid, Goto
<1>12. ASSUME NEW t \in Thread, GetAyanamsa(t) PROVE Attested'
  BY <1>12 DEF GetAyanamsa, Goto
<1>13. ASSUME NEW t \in Thread, ResetSid(t) PROVE Attested'
  BY <1>13 DEF ResetSid, Goto
<1>14. ASSUME NEW t \in Thread, Unlock(t) PROVE Attested'
  BY <1>14 DEF Unlock, Answer, Goto
<1>15. CASE UNCHANGED vars
  BY <1>15 DEF vars
<1>16. QED
  BY <1>1, <1>2, <1>3, <1>4, <1>5, <1>6, <1>7, <1>8, <1>9, <1>10, <1>11, <1>12, <1>13, <1>14,
     <1>15 DEF Next

(* A request that has seen nothing but an outage is not answered.          *)
LEMMA OutageStep ==
    ASSUME TypeOK, Outage, [Next]_vars
    PROVE  Outage'
<1> USE NoThreadAssumption, SidModeAssumption DEF TypeOK, Outage, Label, library, request, setting
<1>1. ASSUME FilesChange PROVE Outage'
  BY <1>1 DEF FilesChange
<1>2. ASSUME NEW t \in Thread, NEW kind \in Job, NEW z \in SidMode \cup {Tropical}, Arrive(t, kind, z)
      PROVE  Outage'
  BY <1>2 DEF Arrive, Goto
<1>3. ASSUME NEW t \in Thread, Construct(t) PROVE Outage'
  BY <1>3 DEF Construct, Answer, Goto
<1>4. ASSUME NEW t \in Thread, SetPath(t) PROVE Outage'
  BY <1>4 DEF SetPath, Goto
<1>5. ASSUME NEW t \in Thread, NEW b \in Body, Calc(t, b) PROVE Outage'
  BY <1>5 DEF Calc, Answer, Goto, Done
<1>6. ASSUME NEW t \in Thread, NEW b \in Body, CalcError(t, b) PROVE Outage'
  BY <1>6 DEF CalcError, Answer, Goto, Done
<1>7. ASSUME NEW t \in Thread, NEW b \in Body, Solcross(t, b) PROVE Outage'
  BY <1>7 DEF Solcross, Done
<1>8. ASSUME NEW t \in Thread, Computed(t) PROVE Outage'
  BY <1>8 DEF Computed, Answer, Goto
<1>9. ASSUME NEW t \in Thread, Houses(t) PROVE Outage'
  BY <1>9 DEF Houses, Answer, Goto
<1>10. ASSUME NEW t \in Thread, Lock(t) PROVE Outage'
  BY <1>10 DEF Lock, Goto
<1>11. ASSUME NEW t \in Thread, SetSid(t) PROVE Outage'
  BY <1>11 DEF SetSid, Goto
<1>12. ASSUME NEW t \in Thread, GetAyanamsa(t) PROVE Outage'
  BY <1>12 DEF GetAyanamsa, Goto
<1>13. ASSUME NEW t \in Thread, ResetSid(t) PROVE Outage'
  BY <1>13 DEF ResetSid, Goto
<1>14. ASSUME NEW t \in Thread, Unlock(t) PROVE Outage'
  BY <1>14 DEF Unlock, Answer, Goto
<1>15. CASE UNCHANGED vars
  BY <1>15 DEF vars
<1>16. QED
  BY <1>1, <1>2, <1>3, <1>4, <1>5, <1>6, <1>7, <1>8, <1>9, <1>10, <1>11, <1>12, <1>13, <1>14,
     <1>15 DEF Next

(* A result of the fallback is never taken for one of the files.           *)
LEMMA DowngradeStep ==
    ASSUME TypeOK, NoSilentDowngrade, [Next]_vars
    PROVE  NoSilentDowngrade'
<1> USE NoThreadAssumption, SidModeAssumption
        DEF TypeOK, NoSilentDowngrade, Precision, library, request, setting
<1>1. ASSUME FilesChange PROVE NoSilentDowngrade'
  BY <1>1 DEF FilesChange
<1>2. ASSUME NEW t \in Thread, NEW kind \in Job, NEW z \in SidMode \cup {Tropical}, Arrive(t, kind, z)
      PROVE  NoSilentDowngrade'
  BY <1>2 DEF Arrive, Goto
<1>3. ASSUME NEW t \in Thread, Construct(t) PROVE NoSilentDowngrade'
  BY <1>3 DEF Construct, Answer, Goto
<1>4. ASSUME NEW t \in Thread, SetPath(t) PROVE NoSilentDowngrade'
  BY <1>4 DEF SetPath, Goto
<1>5. ASSUME NEW t \in Thread, NEW b \in Body, Calc(t, b) PROVE NoSilentDowngrade'
  BY <1>5 DEF Calc, Answer, Goto, Done, Reach
<1>6. ASSUME NEW t \in Thread, NEW b \in Body, CalcError(t, b) PROVE NoSilentDowngrade'
  BY <1>6 DEF CalcError, Answer, Goto, Done
<1>7. ASSUME NEW t \in Thread, NEW b \in Body, Solcross(t, b) PROVE NoSilentDowngrade'
  BY <1>7 DEF Solcross, Done
<1>8. ASSUME NEW t \in Thread, Computed(t) PROVE NoSilentDowngrade'
  BY <1>8 DEF Computed, Answer, Goto
<1>9. ASSUME NEW t \in Thread, Houses(t) PROVE NoSilentDowngrade'
  BY <1>9 DEF Houses, Answer, Goto
<1>10. ASSUME NEW t \in Thread, Lock(t) PROVE NoSilentDowngrade'
  BY <1>10 DEF Lock, Goto
<1>11. ASSUME NEW t \in Thread, SetSid(t) PROVE NoSilentDowngrade'
  BY <1>11 DEF SetSid, Goto
<1>12. ASSUME NEW t \in Thread, GetAyanamsa(t) PROVE NoSilentDowngrade'
  BY <1>12 DEF GetAyanamsa, Goto
<1>13. ASSUME NEW t \in Thread, ResetSid(t) PROVE NoSilentDowngrade'
  BY <1>13 DEF ResetSid, Goto
<1>14. ASSUME NEW t \in Thread, Unlock(t) PROVE NoSilentDowngrade'
  BY <1>14 DEF Unlock, Answer, Goto
<1>15. CASE UNCHANGED vars
  BY <1>15 DEF vars
<1>16. QED
  BY <1>1, <1>2, <1>3, <1>4, <1>5, <1>6, <1>7, <1>8, <1>9, <1>10, <1>11, <1>12, <1>13, <1>14,
     <1>15 DEF Next

LEMMA StepIInv == IInv /\ [Next]_vars => IInv'
BY TypeStep, SectionStep, AttestedStep, OutageStep, DowngradeStep DEF IInv

LEMMA Invariance == Spec => []IInv
BY InitIInv, StepIInv, PTL DEF Spec

-----------------------------------------------------------------------------
(* However the files come and go and whoever closes them: an enforcing     *)
(* server answers with nothing the fallback computed, shows houses only    *)
(* after an attested position, and refuses what falls into an outage       *)
(* (SwissEphBackend.calc_ut, houses and __post_init__).                    *)
THEOREM Attestation == Spec => []ResultsAttested
<1>1. IInv => ResultsAttested
  BY DEF IInv, Attested, Outage, NoSilentDowngrade, ResultsAttested, HousesAttested,
         OutageIsVisible
<1>2. QED
  BY <1>1, Invariance, PTL

(* However sidereal requests interleave, each is corrected by its own      *)
(* ayanamsa (compute_western_chart, the critical section).                 *)
THEOREM Ayanamsa == Spec => []OwnAyanamsa
<1>1. IInv => OwnAyanamsa
  BY DEF IInv, Section, OwnAyanamsa
<1>2. QED
  BY <1>1, Invariance, PTL
=============================================================================
