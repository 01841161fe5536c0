--------------------------- MODULE Calendar_proofs ---------------------------
(***************************************************************************)
(* The calendars that the charts share: the Gregorian one of module        *)
(* GregorianDay, for every year, and the cycle of sixty of Sexagenary.  A  *)
(* day number counts the days before a month, in years that begin in       *)
(* March, and the leap days so far, so the next date has the next number.  *)
(*                                                                         *)
(* What induction would show of all numbers is shown, here and in the      *)
(* modules that extend this one, by looking at the least number that       *)
(* violates it (LeastNumber).                                              *)
(***************************************************************************)
EXTENDS GregorianDay, Sexagenary, WellFoundedInduction, TLAPS

(* A set of numbers has a least one.                                       *)
LEMMA LeastNumber ==
    ASSUME NEW S \in SUBSET Nat, S # {}
    PROVE  \E m \in S : \A k \in S : m <= k
<1>1. PICK m \in S : \A k \in S : ~ (<<k, m>> \in OpToRel(<, Nat))
  BY NatLessThanWellFounded, WFMin, Zenon
<1>2. \A k \in S : ~ (k < m)
  BY <1>1, Zenon DEF OpToRel
<1>3. \A k \in S : m <= k
  BY <1>2
<1> QED  BY <1>3

-----------------------------------------------------------------------------
CalendarDate == [y : Nat, m : 1 .. 12, d : 1 .. 31]
DateOK == date \in CalendarDate

(* A month has 28 to 31 days.                                              *)
LEMMA DaysInMonth ==
    ASSUME NEW y \in Nat, NEW m \in 1 .. 12
    PROVE  DaysIn(y, m) \in 28 .. 31
BY DEF DaysIn

(* A step of the calendar leads to a date.                                 *)
LEMMA DateStep == DateOK /\ [NextDate]_date => DateOK'
<1> SUFFICES ASSUME DateOK, NextDate PROVE DateOK'
  BY DEF DateOK
<1>1. DaysIn(date.y, date.m) \in 28 .. 31
  BY DaysInMonth DEF DateOK, CalendarDate
<1>2. CASE NextDay
  BY <1>1, <1>2 DEF NextDay, DateOK, CalendarDate
<1>3. CASE NextMonth
  <2>1. date.y \in Nat /\ date.m + 1 \in 1 .. 12
    BY <1>3 DEF NextMonth, DateOK, CalendarDate
  <2>2. date' = [y |-> date.y, m |-> date.m + 1, d |-> 1]
    BY <1>3 DEF NextMonth, DateOK, CalendarDate
  <2> QED  BY <2>1, <2>2 DEF DateOK, CalendarDate
<1>4. CASE NextYear
  BY <1>4 DEF NextYear, DateOK, CalendarDate
<1> QED  BY <1>2, <1>3, <1>4 DEF NextDate

-----------------------------------------------------------------------------
(* Leap years in terms of the quotients by 4, 100 and 400.                 *)
LeapDays(y) == (y \div 4) - (y \div 100) + (y \div 400)

(* The leap days up to a year grow by one in a leap year.                  *)
LEMMA LeapDaysGrow ==
    ASSUME NEW y \in Nat
    PROVE  /\ LeapDays(y) \in Int
           /\ LeapDays(y + 1) = LeapDays(y) + (IF Leap(y + 1) THEN 1 ELSE 0)
<1>1. /\ (y + 1) \div 4 = (y \div 4) + (IF (y + 1) % 4 = 0 THEN 1 ELSE 0)
      /\ y \div 4 \in Int
  BY SMT
<1>2. /\ (y + 1) \div 100 = (y \div 100) + (IF (y + 1) % 100 = 0 THEN 1 ELSE 0)
      /\ y \div 100 \in Int
  BY SMT
<1>3. /\ (y + 1) \div 400 = (y \div 400) + (IF (y + 1) % 400 = 0 THEN 1 ELSE 0)
      /\ y \div 400 \in Int
  BY SMT
<1>4. /\ (y + 1) % 400 = 0 => (y + 1) % 100 = 0
      /\ (y + 1) % 100 = 0 => (y + 1) % 4 = 0
  BY SMT
<1> QED  BY <1>1, <1>2, <1>3, <1>4 DEF LeapDays, Leap

(* The era of the formula begins in -4800, a multiple of 400 years.        *)
LEMMA LeapInEra ==
    ASSUME NEW y \in Nat
    PROVE  Leap(y + 4800) = Leap(y)
<1>1. /\ (y + 4800) % 4 = y % 4
      /\ (y + 4800) % 100 = y % 100
      /\ (y + 4800) % 400 = y % 400
  BY SMT
<1> QED  BY <1>1 DEF Leap

(* Days of the year that begins in March, before the month m of it.        *)
LEMMA JdnFromMarch ==
    ASSUME NEW t \in CalendarDate
    PROVE  LET y == t.y + 4800 - (IF t.m <= 2 THEN 1 ELSE 0)
               m == IF t.m <= 2 THEN t.m + 9 ELSE t.m - 3
           IN  Jdn(t) = t.d + (153 * m + 2) \div 5 + 365 * y + LeapDays(y) - 32045
<1>1. t.m \in 1 .. 12 /\ t.y \in Nat /\ t.d \in 1 .. 31
  BY DEF CalendarDate
<1>2. Shifted(t) = IF t.m <= 2 THEN 1 ELSE 0
  BY <1>1 DEF Shifted
<1> DEFINE y == t.y + 4800 - (IF t.m <= 2 THEN 1 ELSE 0)
<1>3. y \in Nat /\ y \div 4 \in Int /\ y \div 100 \in Int /\ y \div 400 \in Int
  BY <1>1, SMT
<1> DEFINE m == IF t.m <= 2 THEN t.m + 9 ELSE t.m - 3
<1>4. m \in 0 .. 11 /\ (153 * m + 2) \div 5 \in Int
  BY <1>1
<1>5. t.y + 4800 - Shifted(t) = y /\ t.m + 12 * Shifted(t) - 3 = m
  BY <1>1, <1>2
<1>6. Jdn(t) = t.d + (153 * m + 2) \div 5 + 365 * y + y \div 4 - y \div 100 + y \div 400 - 32045
  BY <1>5 DEF Jdn
<1> HIDE DEF y, m
<1>7. Jdn(t) = t.d + (153 * m + 2) \div 5 + 365 * y + LeapDays(y) - 32045
  <2> DEFINE a == (153 * m + 2) \div 5
             b == y \div 4
             c == y \div 100
             e == y \div 400
  <2>1. a \in Int /\ b \in Int /\ c \in Int /\ e \in Int
    BY <1>3, <1>4
  <2>2. LeapDays(y) = b - c + e
    BY DEF LeapDays
  <2>3. Jdn(t) = t.d + a + 365 * y + b - c + e - 32045
    BY <1>6
  <2> HIDE DEF a, b, c, e
  <2>4. t.d + a + 365 * y + b - c + e - 32045 = t.d + a + 365 * y + (b - c + e) - 32045
    BY <1>1, <1>3, <2>1
  <2> QED  BY <2>2, <2>3, <2>4 DEF a
<1> QED  BY <1>7 DEF y, m

(* The next month starts where the last one ends.                          *)
LEMMA MonthsAdjoin ==
    ASSUME NEW y \in Nat, NEW m \in 1 .. 11
    PROVE  Jdn([y |-> y, m |-> m + 1, d |-> 1]) = Jdn([y |-> y, m |-> m, d |-> DaysIn(y, m)]) + 1
<1> DEFINE t == [y |-> y, m |-> m, d |-> DaysIn(y, m)]
           u == [y |-> y, m |-> m + 1, d |-> 1]
<1>1. t \in CalendarDate /\ u \in CalendarDate
  BY DaysInMonth DEF CalendarDate
<1>2. LeapDays(y + 4800) = LeapDays(y + 4799) + (IF Leap(y) THEN 1 ELSE 0)
      /\ LeapDays(y + 4799) \in Int
  BY LeapDaysGrow, LeapInEra
<1>3. CASE m = 1
  BY <1>1, <1>2, <1>3, JdnFromMarch DEF DaysIn
<1>4. CASE m = 2
  BY <1>1, <1>2, <1>4, JdnFromMarch DEF DaysIn
<1>5. CASE m \in 3 .. 11
  <2>1. DaysIn(y, m) = IF m \in {4, 6, 9, 11} THEN 30 ELSE 31
    BY <1>5 DEF DaysIn
  <2>2. (153 * (m - 2) + 2) \div 5 = ((153 * (m - 3) + 2) \div 5) + DaysIn(y, m)
    BY <1>5, <2>1
  <2>3. Jdn(u) = 1 + (153 * (m - 2) + 2) \div 5 + 365 * (y + 4800) + LeapDays(y + 4800) - 32045
    BY <1>1, <1>5, JdnFromMarch
  <2>4. Jdn(t) = DaysIn(y, m) + (153 * (m - 3) + 2) \div 5 + 365 * (y + 4800)
                     + LeapDays(y + 4800) - 32045
    BY <1>1, <1>5, JdnFromMarch
  <2> QED  BY <1>1, <1>2, <1>5, <2>1, <2>2, <2>3, <2>4
<1> QED  BY <1>3, <1>4, <1>5

(* The new year starts where December ends.                                *)
LEMMA YearsAdjoin ==
    ASSUME NEW y \in Nat
    PROVE  Jdn([y |-> y + 1, m |-> 1, d |-> 1]) = Jdn([y |-> y, m |-> 12, d |-> 31]) + 1
<1>1. /\ [y |-> y, m |-> 12, d |-> 31] \in CalendarDate
      /\ [y |-> y + 1, m |-> 1, d |-> 1] \in CalendarDate
  BY DEF CalendarDate
<1>2. LeapDays(y + 4800) \in Int
  BY LeapDaysGrow
<1> QED  BY <1>1, <1>2, JdnFromMarch

(* The Julian day number of a date is an integer.                          *)
LEMMA JdnInt == ASSUME NEW t \in CalendarDate PROVE Jdn(t) \in Int
<1>1. t.m \in 1 .. 12 /\ t.y \in Nat /\ t.d \in 1 .. 31
  BY DEF CalendarDate
<1>2. CASE t.m <= 2
  <2>1. LeapDays(t.y + 4799) \in Int
    BY <1>1, LeapDaysGrow
  <2> QED  BY <1>1, <1>2, <2>1, JdnFromMarch, SMTT(30)
<1>3. CASE ~(t.m <= 2)
  <2>1. LeapDays(t.y + 4800) \in Int
    BY <1>1, LeapDaysGrow
  <2> QED  BY <1>1, <1>3, <2>1, JdnFromMarch, SMTT(30)
<1> QED  BY <1>2, <1>3

(* A step of the calendar is one Julian day.                               *)
LEMMA NextIsOneDay == ASSUME DateOK, NextDate PROVE Jdn(date') = Jdn(date) + 1
<1>1. /\ date.y \in Nat /\ date.m \in 1 .. 12 /\ date.d \in 1 .. 31
      /\ date = [y |-> date.y, m |-> date.m, d |-> date.d]
  BY DEF DateOK, CalendarDate
<1>2. CASE NextDay
  <2>1. date' = [y |-> date.y, m |-> date.m, d |-> date.d + 1]
    BY <1>1, <1>2 DEF NextDay
  <2>2. DaysIn(date.y, date.m) \in 28 .. 31
    BY <1>1, DaysInMonth
  <2>3. date' \in CalendarDate
    BY <1>1, <1>2, <2>1, <2>2 DEF NextDay, CalendarDate
  <2>4. Jdn(date') = Jdn(date) + 1
    <3>1. CASE date.m <= 2
      <4>1. LeapDays(date.y + 4799) \in Int
        BY <1>1, LeapDaysGrow
      <4> QED  BY <1>1, <2>1, <2>3, <3>1, <4>1, JdnFromMarch DEF DateOK
    <3>2. CASE ~(date.m <= 2)
      <4>1. LeapDays(date.y + 4800) \in Int
        BY <1>1, LeapDaysGrow
      <4> QED  BY <1>1, <2>1, <2>3, <3>2, <4>1, JdnFromMarch DEF DateOK
    <3> QED  BY <3>1, <3>2
  <2> QED  BY <2>4
<1>3. CASE NextMonth
  <2>1. date.m \in 1 .. 11 /\ date.d = DaysIn(date.y, date.m)
    BY <1>1, <1>3 DEF NextMonth
  <2>2. date' = [y |-> date.y, m |-> date.m + 1, d |-> 1]
    BY <1>3 DEF NextMonth, DateOK, CalendarDate
  <2> QED  BY <1>1, <2>1, <2>2, MonthsAdjoin
<1>4. CASE NextYear
  <2>1. /\ date' = [y |-> date.y + 1, m |-> 1, d |-> 1]
        /\ date = [y |-> date.y, m |-> 12, d |-> 31]
    BY <1>1, <1>4 DEF NextYear, DaysIn
  <2> QED  BY <1>1, <2>1, YearsAdjoin
<1> QED  BY <1>2, <1>3, <1>4 DEF NextDate

(* The month stems of the ruleset's table are those of the formula.        *)
LEMMA MonthTableIsFormula ==
    ASSUME NEW r \in BOOLEAN, NEW s \in 0 .. 9, NEW m \in 0 .. 11
    PROVE  MonthStem(r, s, m) = (s * 2 + 2 + m) % 10
<1>1. CASE r = FALSE
  BY <1>1 DEF MonthStem
<1>2. CASE r = TRUE
  <2>1. MonthStem(r, s, m) = MonthStems[1 + (s % 5)][m + 1]
    BY <1>2 DEF MonthStem
  <2>2. \A k \in 1 .. 12 : MonthStems[1][k] = (k + 1) % 10
    BY DEF MonthStems
  <2>3. \A k \in 1 .. 12 : MonthStems[2][k] = (k + 3) % 10
    BY DEF MonthStems
  <2>4. \A k \in 1 .. 12 : MonthStems[3][k] = (k + 5) % 10
    BY DEF MonthStems
  <2>5. \A k \in 1 .. 12 : MonthStems[4][k] = (k + 7) % 10
    BY DEF MonthStems
  <2>6. \A k \in 1 .. 12 : MonthStems[5][k] = (k - 1) % 10
    BY DEF MonthStems
  <2>7. m + 1 \in 1 .. 12 /\ 1 + (s % 5) \in 1 .. 5
    OBVIOUS
  <2> QED  BY <2>1, <2>2, <2>3, <2>4, <2>5, <2>6, <2>7
<1> QED  BY <1>1, <1>2

-----------------------------------------------------------------------------
(* Shifting a number and counting modulo sixty: one more is the next place. *)
LEMMA Successor60 ==
    ASSUME NEW n \in Int, NEW k \in Int
    PROVE  ((n + 1) + k) % 60 = (((n + k) % 60) + 1) % 60
<1> DEFINE a == n + k
<1>1. a \in Int /\ (n + 1) + k = a + 1
  OBVIOUS
<1> HIDE DEF a
<1>2. (a + 1) % 60 = ((a % 60) + 1) % 60
  BY <1>1, SMT
<1> QED  BY <1>1, <1>2 DEF a

(* The calendar's leap days stay within three days of those of the mean    *)
(* year of 365.2425 days.                                                  *)
LEMMA LeapDrift ==
    ASSUME NEW y \in Nat
    PROVE  /\ LeapDays(y) \in Int
           /\ 2425 * y - 14775 <= 10000 * LeapDays(y) /\ 10000 * LeapDays(y) <= 2425 * y + 7200
<1> DEFINE q == y \div 400
           c == (y % 400) \div 100
           d == (y % 100) \div 4
           e == y % 4
<1>1. q \in Int /\ c \in 0 .. 3 /\ d \in 0 .. 24 /\ e \in 0 .. 3
  BY SMT
<1>2. y = 400 * q + 100 * c + 4 * d + e
  BY SMT
<1>3. y \div 100 = 4 * q + c /\ y \div 4 = 100 * q + 25 * c + d
  BY SMT
<1>4. LeapDays(y) = (100 * q + 25 * c + d) - (4 * q + c) + q
  BY <1>3 DEF LeapDays
<1> HIDE DEF q, c, d, e
<1> QED  BY <1>1, <1>2, <1>4, SMT
=============================================================================
