------------------------ MODULE InstantOfMoon_proofs ------------------------
(***************************************************************************)
(* That resolving a local time and parsing it again is sound, for every    *)
(* zone with one change of offset, every wall time and every policy; and   *)
(* that the Moon's state is that of the lunation the instant lies in, for  *)
(* every course of the Moon whose speeds keep the assumed bounds.          *)
(*                                                                         *)
(* The first argument: a wall time fails the round trip, under either      *)
(* fold, just when it lies in the gap of a forward change; past the gap    *)
(* both folds read the same offset.  So the fold a shifted time is parsed  *)
(* with does not matter, and for a time that exists both ways of passing   *)
(* the fold on pass the same one.                                          *)
(*                                                                         *)
(* The second: a search has a goal, so many turns on or the nearest event, *)
(* and is always within half a turn of it (Near): the first guess is, and  *)
(* a correction keeps it there (Approach).  So the wrapped angle is the    *)
(* way still to go, and where the correction is none the goal is hit       *)
(* (Hit).  The new moon of the instant's own turn is never after it, the   *)
(* next one never before; and one lunation passes the check of its length, *)
(* two do not.                                                             *)
(***************************************************************************)
EXTENDS InstantOfMoon, WellFoundedInduction, TLAPS

Zone == [at : Int, before : Int, after : Int]
InGap(z, w) == z.at + z.before <= w /\ w < z.at + z.after

(* A wall time exists exactly outside the gap, whichever fold is tried.    *)
LEMMA RoundTripOutsideGap ==
    ASSUME NEW z \in Zone, NEW w \in Int, NEW f \in Fold
    PROVE  RoundTrip(z, w, f) <=> ~InGap(z, w)
BY DEF Zone, Fold, RoundTrip, InGap, FromUtc, ToUtc, WallOffset, Later, Earlier

(* Outside the gap of a forward change both folds read one offset.         *)
LEMMA OneOffset ==
    ASSUME NEW z \in Zone, NEW w \in Int, z.before < z.after, ~InGap(z, w)
    PROVE  WallOffset(z, w, 0) = WallOffset(z, w, 1)
BY DEF Zone, InGap, WallOffset, Later, Earlier

(* Of two readings of one wall time, fold 0 is the earlier instant.        *)
LEMMA FoldOrder ==
    ASSUME NEW z \in Zone, NEW w \in Int, ~InGap(z, w),
           WallOffset(z, w, 0) # WallOffset(z, w, 1)
    PROVE  ToUtc(z, w, 0) < ToUtc(z, w, 1)
BY DEF Zone, InGap, WallOffset, ToUtc, Later, Earlier

(* The offset read and the instant meant are numbers.                      *)
LEMMA UtcTypes ==
    ASSUME NEW z \in Zone, NEW w \in Int, NEW f \in Fold
    PROVE  WallOffset(z, w, f) \in Int /\ ToUtc(z, w, f) \in Int
BY DEF Zone, Fold, ToUtc, WallOffset, Later, Earlier

(* The shifted candidates never lie before the time asked for.             *)
LEMMA CandidateAfter ==
    ASSUME NEW n \in Int, NEW m \in Nat
    PROVE  n + m * Minute \in Int /\ n + m * Minute >= n
<1>1. m * Minute \in Nat  BY TimeAssumption
<1> QED  BY <1>1

-----------------------------------------------------------------------------
(* What holds on the way.                                                  *)
Searching ==
    /\ pc \in {"resolve", "shift"} => status = "none" /\ caller # "dayun"
    /\ pc = "shift" => /\ minutes >= 1
                       /\ \A m \in 0 .. minutes - 1 : InGap(zone, naive + m * Minute)

Outcome ==
    /\ status \in {"ok", "ambiguous"} => wall = naive /\ fold = ChosenFold
    /\ status = "ok" => WallOffset(zone, wall, 0) = WallOffset(zone, wall, 1)
    /\ status = "ambiguous" => WallOffset(zone, wall, 0) # WallOffset(zone, wall, 1)
    /\ status = "nonexistent_shifted" =>
          /\ fold = 0 /\ minutes >= 1 /\ wall = naive + minutes * Minute
          /\ \A m \in 0 .. minutes - 1 : InGap(zone, naive + m * Minute)
          /\ WallOffset(zone, wall, 0) = WallOffset(zone, wall, 1)
    /\ Resolved => /\ ~InGap(zone, wall)
                   /\ \A f \in Fold : ~Overflows(zone, wall, f)
                   /\ pc \in {"parse", "answered"}
                   /\ caller # "dayun"

Answers ==
    /\ pc = "parse" => Resolved \/ caller = "dayun"
    /\ pc = "answered" /\ caller \in {"bazi", "webhook"} => Resolved /\ parsed = ParseFold

IInv == TypeOK /\ Searching /\ Outcome /\ Answers

(* Whether a conversion leaves the calendar depends on the offset alone.   *)
LEMMA OverflowsByOffset ==
    ASSUME NEW z, NEW w, WallOffset(z, w, 0) = WallOffset(z, w, 1),
           NEW f \in Fold, NEW g \in Fold
    PROVE  Overflows(z, w, f) <=> Overflows(z, w, g)
BY DEF Fold, Overflows, ToUtc

(* A request starts inside the invariant.                                  *)
LEMMA InitIInv == Init => IInv
<1> SUFFICES ASSUME Init PROVE IInv
  OBVIOUS
<1>1. TypeOK
  <2>z. zone \in [at : At, before : Offset, after : Offset] /\ naive \in Naive
    BY DEF Init
  <2>n. naive \in Int
    BY <2>z, TimeAssumption
  <2>r. zone \in [at : Int, before : Int, after : Int]
    BY <2>z, TimeAssumption
  <2>1. zone \in [at : Int, before : Int, after : Int] /\ naive \in Int
    BY <2>n, <2>r
  <2>2. pc \in {"resolve", "parse"} /\ caller \in Caller
    BY DEF Init
  <2>3. minutes \in 0 .. MaxShift + 1 /\ wall \in Int
    BY <2>1, TimeAssumption DEF Init
  <2> QED  BY <2>1, <2>2, <2>3 DEF Init, TypeOK, Fold
<1>2. Searching /\ Outcome /\ Answers
  BY DEF Init, Searching, Outcome, Answers, Resolved
<1> QED  BY <1>1, <1>2 DEF IInv

(* No step of a request leaves the invariant.                              *)
LEMMA StepIInv == IInv /\ [Next]_vars => IInv'
<1> SUFFICES ASSUME IInv, [Next]_vars PROVE IInv'
  OBVIOUS
<1> USE DEF IInv
<1>z. zone \in Zone /\ naive \in Int /\ minutes \in Nat /\ ChosenFold \in Fold
      /\ 0 \in Fold /\ 1 \in Fold /\ wall \in Int /\ fold \in Fold
      /\ \A m \in 0 .. minutes : naive + m * Minute \in Int
  <2>1. zone \in Zone /\ naive \in Int /\ minutes \in Nat /\ ChosenFold \in Fold
        /\ 0 \in Fold /\ 1 \in Fold /\ wall \in Int /\ fold \in Fold
    BY TimeAssumption DEF TypeOK, Zone, ChosenFold, Fold
  <2> QED  BY <2>1, CandidateAfter
<1>r. ASSUME pc' \in {"422", "500"}, ~Resolved,
             UNCHANGED <<request, minutes, wall, fold, status, parsed>>
      PROVE  IInv'
  BY <1>r DEF request, TypeOK, Searching, Outcome, Answers, Resolved
<1>1. CASE ResolveOutOfRange
  BY <1>1, <1>r DEF ResolveOutOfRange, Refuse, Searching, Resolved
<1>2. CASE ResolveExisting
  <2>1. \A f \in Fold : RoundTrip(zone, naive, f) /\ ~InGap(zone, naive)
    BY <1>2, <1>z, RoundTripOutsideGap DEF ResolveExisting, Nonexistent
  <2>2. /\ UNCHANGED <<request, minutes, parsed>> /\ wall' = naive /\ fold' = ChosenFold
        /\ status' = (IF Ambiguous THEN "ambiguous" ELSE "ok")
        /\ pc' = (IF caller = "tst" THEN "answered" ELSE "parse")
        /\ \A f \in Fold : ~Overflows(zone, naive, f)
        /\ pc = "resolve" /\ caller # "dayun"
    BY <1>2 DEF ResolveExisting, Found, Exists, Searching
  <2>3. TypeOK'
    BY <2>2, <1>z DEF request, TypeOK
  <2>4. Searching'
    BY <2>2 DEF Searching
  <2>5. Outcome'
    BY <2>1, <2>2, <1>z DEF request, Outcome, Ambiguous, Resolved, ChosenFold
  <2>6. Answers'
    BY <2>2 DEF request, Answers, Resolved
  <2> QED  BY <2>3, <2>4, <2>5, <2>6
<1>3. CASE ResolveError
  BY <1>3, <1>r DEF ResolveError, Refuse, Searching, Resolved
<1>4. CASE StartShift
  <2>1. InGap(zone, naive)
    BY <1>4, <1>z, RoundTripOutsideGap DEF StartShift, Nonexistent
  <2>2. \A m \in 0 .. 0 : InGap(zone, naive + m * Minute)
    BY <2>1, <1>z, TimeAssumption
  <2> QED
    BY <1>4, <2>2, TimeAssumption
    DEF StartShift, request, TypeOK, Searching, Outcome, Answers, Resolved
<1>5. CASE ShiftOutOfRange
  BY <1>5, <1>r DEF ShiftOutOfRange, Refuse, Searching, Resolved
<1>6. CASE ShiftFound
  <2>1. Candidate \in Int /\ Candidate >= naive
    BY <1>z, CandidateAfter DEF Candidate
  <2>2. ~InGap(zone, Candidate)
    BY <1>6, <2>1, <1>z, RoundTripOutsideGap DEF ShiftFound
  <2>3. InGap(zone, naive)
    BY <1>6, <1>z, TimeAssumption DEF ShiftFound, Searching
  <2>4. WallOffset(zone, Candidate, 0) = WallOffset(zone, Candidate, 1)
    <3>1. zone.before < zone.after
      BY <2>3, <1>z DEF Zone, InGap
    <3> QED  BY <3>1, <2>1, <2>2, <1>z, OneOffset
  <2>5. \A f \in Fold : ~Overflows(zone, Candidate, f)
    BY <1>6, <2>4, <1>z, OverflowsByOffset DEF ShiftFound, CandidateOverflows
  <2>6. /\ UNCHANGED <<request, minutes, parsed>> /\ wall' = Candidate /\ fold' = 0
        /\ status' = "nonexistent_shifted" /\ pc = "shift" /\ caller # "dayun"
        /\ pc' = (IF caller = "tst" THEN "answered" ELSE "parse")
    BY <1>6 DEF ShiftFound, Found, Searching
  <2>7. TypeOK'
    BY <2>1, <2>6 DEF request, TypeOK, Fold
  <2>8. Searching'
    BY <2>6 DEF Searching
  <2>9. Outcome'
    BY <2>2, <2>4, <2>5, <2>6 DEF request, Outcome, Resolved, Searching, Candidate
  <2>10. Answers'
    BY <2>6 DEF request, Answers, Resolved
  <2> QED  BY <2>7, <2>8, <2>9, <2>10
<1>7. CASE ShiftOn
  <2>1. Candidate \in Int
    BY <1>z, CandidateAfter DEF Candidate
  <2>2. InGap(zone, Candidate)
    BY <1>7, <2>1, <1>z, RoundTripOutsideGap DEF ShiftOn
  <2>3. \A m \in 0 .. minutes : InGap(zone, naive + m * Minute)
    BY <1>7, <2>2, <1>z DEF ShiftOn, Searching, Candidate
  <2> QED
    BY <1>7, <2>3, TimeAssumption
    DEF ShiftOn, request, TypeOK, Searching, Outcome, Answers, Resolved
<1>8. CASE ShiftGivesUp
  BY <1>8, <1>r DEF ShiftGivesUp, Refuse, Searching, Resolved
<1>f. ParseFold \in Fold
  BY <1>z DEF ParseFold
<1>9. CASE ParseOverflows
  <2>1. ~Resolved
    BY <1>9, <1>f DEF ParseOverflows, Outcome
  <2> QED  BY <1>9, <2>1, <1>r DEF ParseOverflows, Refuse
<1>10. CASE Parse
  <2>1. /\ UNCHANGED <<request, minutes, wall, fold, status>> /\ parsed' = ParseFold
        /\ pc = "parse" /\ pc' = "answered"
    BY <1>10 DEF Parse
  <2>2. ParseFold' = ParseFold /\ ChosenFold' = ChosenFold
    BY <2>1 DEF request, ParseFold, ChosenFold
  <2>3. TypeOK' /\ Searching'
    BY <2>1, <1>f DEF request, TypeOK, Searching
  <2>4. Outcome'
    BY <2>1, <2>2 DEF request, Outcome, Resolved
  <2>5. Answers'
    BY <2>1, <2>2 DEF request, Answers, Resolved
  <2> QED  BY <2>3, <2>4, <2>5
<1>11. CASE ParseRefuses
  <2>1. ~Resolved
    BY <1>11, <1>f, <1>z, RoundTripOutsideGap DEF ParseRefuses, Outcome
  <2> QED  BY <1>11, <2>1, <1>r DEF ParseRefuses, Refuse
<1>12. CASE UNCHANGED vars
  BY <1>12 DEF vars, TypeOK, Searching, Outcome, Answers, Resolved, ParseFold, ChosenFold
<1> QED
  BY <1>1, <1>2, <1>3, <1>4, <1>5, <1>6, <1>7, <1>8, <1>9, <1>10, <1>11, <1>12 DEF Next

-----------------------------------------------------------------------------
(* What holds at every moment of a resolution is what was promised of it.  *)
LEMMA ResolvedWell == IInv => PolicyKept
<1> SUFFICES ASSUME IInv
             PROVE  ResolvedExists /\ PolicyHonoured /\ ResolvedIsAnswered
  BY DEF PolicyKept
<1>z. zone \in Zone /\ wall \in Int /\ naive \in Int /\ minutes \in Nat /\ fold \in Fold
  BY TimeAssumption DEF IInv, TypeOK, Zone
<1>1. ResolvedExists
  BY <1>z, RoundTripOutsideGap DEF IInv, Outcome, ResolvedExists
<1>2. status = "nonexistent_shifted" => FirstThatExists
  <2>1. \A m \in 0 .. minutes - 1 : naive + m * Minute \in Int
    BY <1>z, CandidateAfter
  <2> QED
    BY <2>1, <1>z, RoundTripOutsideGap DEF IInv, Outcome, FirstThatExists
<1>3. PolicyHonoured
  <2>a. status \in {"ok", "ambiguous"} => wall = naive
    BY DEF IInv, Outcome
  <2> SUFFICES ASSUME status = "ambiguous" PROVE PolicyHonoured
    BY <1>2, <2>a DEF PolicyHonoured
  <2>1. ToUtc(zone, wall, 0) < ToUtc(zone, wall, 1)
    BY <1>z, FoldOrder DEF IInv, Outcome, Resolved
  <2>2. ToUtc(zone, wall, 0) \in Int /\ ToUtc(zone, wall, 1) \in Int
    BY <1>z, UtcTypes DEF Fold
  <2>3. fold = ChosenFold
    BY DEF IInv, Outcome
  <2> QED  BY <2>a, <2>1, <2>2, <2>3 DEF PolicyHonoured, ChosenFold
<1>4. ResolvedIsAnswered
  BY DEF IInv, Outcome, ResolvedIsAnswered
<1> QED  BY <1>1, <1>2, <1>3, <1>4

(* The endpoint resolves a time, or computes for an instant; the other     *)
(* half stands still.                                                      *)
LEMMA HalfResolves == LunarSpec => Spec
<1>1. LunarInit => Init
  BY DEF LunarInit
<1>2. [LunarNext]_allVars => [Next]_vars
  BY DEF LunarNext, allVars
<1> QED  BY <1>1, <1>2, PTL DEF LunarSpec, Spec

(* A resolved time exists on the clocks of its zone, and is the one the    *)
(* caller's policy asks for: what exists is left alone, a skipped time     *)
(* becomes the first that exists on the grid; and it is never refused      *)
(* afterwards.                                                             *)
THEOREM PolicyFollowed == LunarSpec => []PolicyKept
<1> QED  BY ResolvedWell, InitIInv, StepIInv, HalfResolves, PTL DEF Spec

(* The engine computes for the instant that was resolved.                  *)
THEOREM InstantPreserved == LunarSpec => []SameInstant
<1>1. IInv => SameInstant
  BY DEF IInv, Answers, Outcome, Resolved, SameInstant, ParseFold, ChosenFold, ToUtc,
         TypeOK, Fold
<1> QED  BY <1>1, InitIInv, StepIInv, HalfResolves, PTL DEF Spec

-----------------------------------------------------------------------------
(* The angle gone, and the speed of the moment.                            *)
A(u) == Angle(course, u)
V(u) == Moon!Speed(course, u)

(* A turn starts with the last new moon at or before the instant.          *)
TurnOf(n) == Circle * (A(instant) \div Circle + n)
EventGoal == A(instant) - Moon!Wrap(Moon!Elongation(instant) - Moon!PhaseAngle[ask])

(* What a search is to find.                                               *)
Goal == CASE sought = "previous" -> TurnOf(0)
          [] sought = "next" -> TurnOf(1)
          [] sought = "later" -> TurnOf(2)
          [] OTHER -> EventGoal

(* Not too far for the course to be known; within half a turn of a goal;   *)
(* nearest to it; and a new moon too soon after the instant.               *)
Here(u) == u \in Int /\ instant - 4 * Synodic <= u /\ u <= instant + 4 * Synodic
Near(u, g) == -Circle <= 2 * (A(u) - g) /\ 2 * (A(u) - g) < Circle
Hit(u, g) == Here(u) /\ -V(u) <= 2 * (A(u) - g) /\ 2 * (A(u) - g) < V(u)
NewMoonSoon == \E u \in instant .. instant + Tolerance : Hit(u, TurnOf(1))

(* What holds on the way: of the request and the place of the search, of   *)
(* the new moons found so far, and of the reply.                           *)
Asked ==
    /\ course \in Course /\ instant \in Instants /\ ask \in Moon!Asks
    /\ jd \in Int /\ rounds \in Nat
Going ==
    /\ moonPc \in {"validate", "refine", "found", "later", "measure", "done"}
    /\ moonPc # "done" => reply = "none"
    /\ moonPc \in {"refine", "found", "later", "measure"} => Moon!Supported(instant)
    /\ moonPc \in {"later", "measure"} => ask = "state"
    /\ moonPc \in {"refine", "found"} =>
          /\ sought \in (IF ask = "state" THEN {"previous", "next", "later"} ELSE {"event"})
          /\ Here(jd) /\ Near(jd, Goal)
    /\ moonPc = "found" => Hit(jd, Goal)
Known ==
    /\ \/ moonPc \in {"refine", "found"} /\ sought \in {"next", "later"}
       \/ moonPc \in {"later", "measure"}
       => Hit(lastNew, TurnOf(0))
    /\ moonPc \in {"refine", "found"} /\ sought = "later" => NewMoonSoon
    /\ moonPc = "later" => Hit(nextNew, TurnOf(1))
    /\ moonPc = "measure" =>
          \/ Hit(nextNew, TurnOf(1)) /\ instant + Tolerance < nextNew
          \/ Hit(nextNew, TurnOf(2)) /\ NewMoonSoon
Told ==
    /\ reply \in {"ok", "500"} => Moon!Supported(instant)
    /\ reply = "ok" /\ ask = "state" =>
          /\ Hit(lastNew, TurnOf(0)) /\ Hit(nextNew, TurnOf(1))
          /\ instant + Tolerance < nextNew
    /\ reply = "ok" /\ ask # "state" => Hit(jd, EventGoal)
    /\ reply = "500" => NewMoonSoon \/ rounds = MaxRounds
MoonInv == Asked /\ Going /\ Known /\ Told

(* What is assumed of the constants, as numbers.                           *)
LEMMA Numbers ==
    /\ Circle \in Nat /\ Slowest \in Nat /\ Fastest \in Nat /\ Synodic \in Nat
    /\ Shortest \in Nat /\ Longest \in Nat /\ Tolerance \in Nat
    /\ 0 < Slowest /\ Slowest <= Fastest /\ 5 * Fastest <= 7 * Slowest
    /\ 100 * Fastest <= Circle /\ 0 < Circle
    /\ SupportedFrom \in Int /\ SupportedTo \in Int /\ Instants \subseteq Int
BY MoonAssumption DEF Moon!CourseOK

(* A circle in sixteenths, which the phases are named by.                  *)
LEMMA Sixteenths ==
    /\ Circle \div 16 \in Nat /\ 0 < Circle \div 16 /\ Circle = 16 * (Circle \div 16)
    /\ Circle \div 2 = 8 * (Circle \div 16) /\ Circle \div 4 = 4 * (Circle \div 16)
    /\ Circle \div 8 = 2 * (Circle \div 16)
<1>1. Circle % 16 = 0
  BY MoonAssumption DEF Moon!CourseOK
<1> QED  BY <1>1, Numbers

(* Dividing by the circle.                                                 *)
LEMMA Turns ==
    ASSUME NEW a \in Int
    PROVE  /\ a \div Circle \in Int /\ a % Circle \in Int
           /\ a = Circle * (a \div Circle) + (a % Circle)
           /\ 0 <= a % Circle /\ a % Circle < Circle
BY Numbers

(* A quotient and a rest with the rest in range are those of the division. *)
LEMMA DivisionIs ==
    ASSUME NEW a \in Int, NEW b \in Int, 0 < b, NEW k \in Int, NEW r \in Int,
           a = b * k + r, 0 <= r, r < b
    PROVE  a \div b = k /\ a % b = r
<1> DEFINE c == a \div b
           s == a % b
           d == c - k
<1>1. c \in Int /\ s \in Int /\ a = b * c + s /\ 0 <= s /\ s < b
  OBVIOUS
<1> HIDE DEF c, s
<1>2. d \in Int /\ b * d = r - s /\ b * d \in Int
  <2>1. b * (c - k) = b * c - b * k /\ b * c \in Int /\ b * k \in Int /\ c - k \in Int
    BY <1>1
  <2> QED  BY <1>1, <2>1
<1>3. d = 0
  <2> HIDE DEF d
  <2>1. ~ (d >= 1)
    <3>1. d >= 1 => b * d >= b
      BY <1>2
    <3> QED  BY <1>1, <1>2, <3>1
  <2>2. ~ (d <= -1)
    <3>1. d <= -1 => b * d <= -b
      BY <1>2
    <3> QED  BY <1>1, <1>2, <3>1
  <2> QED  BY <1>2, <2>1, <2>2
<1>4. c = k
  BY <1>1, <1>3
<1>5. s = r
  BY <1>1, <1>4
<1> QED  BY <1>4, <1>5 DEF c, s

(* An angle wraps to what is within half a turn of it, whole turns apart.  *)
LEMMA WrapsTo ==
    ASSUME NEW a \in Int, NEW k \in Int, NEW w \in Int, a = Circle * k + w,
           -Circle <= 2 * w, 2 * w < Circle
    PROVE  Moon!Wrap(a) = w
<1> DEFINE h == Circle \div 2
           r == w + h
<1>1. h \in Nat /\ Circle = 2 * h
  BY Sixteenths, Numbers
<1>2. r \in Int /\ a + h \in Int /\ a + h = Circle * k + r /\ 0 <= r /\ r < Circle
  BY <1>1, Numbers
<1> DEFINE b == a + h
<1> HIDE DEF b, h, r
<1>3. b % Circle = r
  <2>1. b \in Int /\ b = Circle * k + r
    BY <1>2 DEF b
  <2>2. \A x \in Int : x = Circle * k + r => x % Circle = r
    BY <1>2, DivisionIs, Numbers
  <2> QED  BY <2>1, <2>2
<1> QED  BY <1>1, <1>3 DEF Moon!Wrap, b, h, r

(* Wrapping takes whole turns off.                                         *)
LEMMA Wrapped ==
    ASSUME NEW a \in Int
    PROVE  /\ Moon!Wrap(a) \in Int /\ -Circle <= 2 * Moon!Wrap(a) /\ 2 * Moon!Wrap(a) < Circle
           /\ \E k \in Int : a = Circle * k + Moon!Wrap(a)
<1> DEFINE h == Circle \div 2
           b == a + h
<1>1. h \in Nat /\ Circle = 2 * h
  BY Sixteenths, Numbers
<1>2. b \in Int
  BY <1>1
<1> DEFINE k == b \div Circle
           r == b % Circle
<1>3. k \in Int /\ r \in Int /\ b = Circle * k + r /\ 0 <= r /\ r < Circle
  <2> HIDE DEF b
  <2> QED  BY <1>2, Turns
<1>4. Moon!Wrap(a) = r - h
  BY DEF Moon!Wrap
<1>a. a = b - h
  BY <1>1
<1> HIDE DEF b, h, k, r
<1>5. a = Circle * k + (r - h)
  <2>1. Circle * k \in Int
    BY <1>3, Numbers
  <2> QED  BY <1>1, <1>3, <1>a, <2>1
<1>6. r - h \in Int /\ -Circle <= 2 * (r - h) /\ 2 * (r - h) < Circle
  BY <1>1, <1>3, Numbers
<1> QED  BY <1>3, <1>4, <1>5, <1>6

(* A quotient to the nearest is off by half the divisor at most.           *)
LEMMA Rounding ==
    ASSUME NEW a \in Int, NEW b \in Int, 0 < b
    PROVE  /\ Moon!Quotient(a, b) \in Int
           /\ -b <= 2 * a - 2 * (b * Moon!Quotient(a, b))
           /\ 2 * a - 2 * (b * Moon!Quotient(a, b)) < b
<1> DEFINE n == 2 * a + b
           q == n \div (2 * b)
<1>1. n \in Int /\ 2 * b \in Nat /\ 2 * b > 0
  OBVIOUS
<1>2. q \in Int /\ (2 * b) * q <= n /\ n < (2 * b) * q + 2 * b
  <2> HIDE DEF n
  <2> QED  BY <1>1
<1>3. (2 * b) * q = 2 * (b * q)
  BY <1>2
<1> QED  BY <1>2, <1>3 DEF Moon!Quotient

(* A set of numbers has a least one.                                       *)
LEMMA LeastNumber ==
    ASSUME NEW S \in SUBSET Nat, S # {}
    PROVE  \E m \in S : \A k \in S : m <= k
<1>1. PICK m \in S : \A k \in S : ~ (<<k, m>> \in OpToRel(<, Nat))
  BY NatLessThanWellFounded, WFMin, Zenon
<1>2. \A k \in S : ~ (k < m)
  BY <1>1, Zenon DEF OpToRel
<1>3. \A k \in S : m <= k
  BY <1>2
<1> QED  BY <1>3

(* From one instant to the next the Moon gets ahead by its speed.          *)
LEMMA Runs ==
    ASSUME course \in Course, NEW u \in Moon!Around, u + 1 \in Moon!Around
    PROVE  /\ A(u) \in Int /\ A(u + 1) = A(u) + V(u)
           /\ V(u) \in Int /\ Slowest <= V(u) /\ V(u) <= Fastest
<1>1. A(u) \in Int /\ A(u + 1) \in Int /\ Slowest <= V(u) /\ V(u) <= Fastest
  BY MoonAssumption DEF Moon!CourseOK, A, V
<1> QED  BY <1>1 DEF A, V, Moon!Speed

(* And over many by no less than the slowest times as much, and no more    *)
(* than the fastest.                                                       *)
LEMMA Travel ==
    ASSUME course \in Course, NEW u \in Moon!Around, NEW v \in Moon!Around, u <= v
    PROVE  /\ A(u) \in Int /\ A(v) \in Int
           /\ Slowest * (v - u) <= A(v) - A(u) /\ A(v) - A(u) <= Fastest * (v - u)
<1>a. \A x \in Moon!Around : x \in Int /\ A(x) \in Int
  BY MoonAssumption, Numbers DEF Moon!CourseOK, A, Moon!Around
<1>b. \A x \in u .. v : x \in Moon!Around
  BY <1>a, Numbers DEF Moon!Around
<1> DEFINE Fine(n) == Slowest * n <= A(u + n) - A(u) /\ A(u + n) - A(u) <= Fastest * n
           Bad == {n \in 0 .. v - u : ~Fine(n)}
<1>1. Bad = {}
  <2> SUFFICES ASSUME Bad # {} PROVE FALSE
    OBVIOUS
  <2>1. Bad \in SUBSET Nat
    OBVIOUS
  <2>2. PICK n \in Bad : \A k \in Bad : n <= k
    <3> HIDE DEF Bad
    <3> QED  BY <2>1, LeastNumber
  <2>3. n \in 0 .. v - u /\ n \in Int
    BY <1>a
  <2>4. CASE n = 0
    <3>1. u + n = u /\ Slowest * n = 0 /\ Fastest * n = 0
      BY <2>4, <1>a, Numbers
    <3>2. Fine(n)
      BY <3>1, <1>a
    <3> QED  BY <3>2
  <2>5. CASE n # 0
    <3> DEFINE p == n - 1
               x == u + p
    <3>1. p \in 0 .. v - u /\ ~ (p \in Bad)
      <4>1. p \in 0 .. v - u /\ ~ (n <= p)
        BY <2>3, <2>5, <1>a
      <4> HIDE DEF Bad, p
      <4> QED  BY <4>1, <2>2
    <3>2. Fine(p)
      BY <3>1
    <3>3. x \in Moon!Around /\ x + 1 \in Moon!Around /\ x + 1 = u + n
      <4>1. x \in u .. v /\ x + 1 \in u .. v /\ x + 1 = u + n
        BY <2>3, <2>5, <1>a
      <4> QED  BY <4>1, <1>b
    <3>4. A(x + 1) = A(x) + V(x) /\ V(x) \in Int /\ Slowest <= V(x) /\ V(x) <= Fastest
          /\ A(x) \in Int
      <4> HIDE DEF x
      <4> QED  BY <3>3, Runs
    <3>5. Slowest * n = Slowest * p + Slowest /\ Fastest * n = Fastest * p + Fastest
          /\ Slowest * p \in Int /\ Fastest * p \in Int
      BY <2>3, Numbers
    <3>6. A(u + n) = A(x) + V(x)
      BY <3>3, <3>4
    <3>7. Slowest * p <= A(x) - A(u) /\ A(x) - A(u) <= Fastest * p
      BY <3>2
    <3>8. Fine(n)
      <4> HIDE DEF x, p
      <4> QED  BY <3>4, <3>5, <3>6, <3>7, <1>a, Numbers
    <3> QED  BY <3>8, <2>2
  <2> QED  BY <2>4, <2>5
<1>2. v - u \in 0 .. v - u /\ u + (v - u) = v
  BY <1>a
<1>3. Fine(v - u)
  BY <1>1, <1>2
<1> QED  BY <1>2, <1>3, <1>a

(* Multiples of the smaller are smaller.                                   *)
LEMMA Scaled ==
    ASSUME NEW a \in Int, NEW b \in Int, a <= b, NEW q \in Nat
    PROVE  a * q \in Int /\ b * q \in Int /\ a * q <= b * q
OBVIOUS

(* A month is three quarters of a turn to one and a quarter of one.        *)
LEMMA Months ==
    /\ Slowest * Synodic \in Int /\ Fastest * Synodic \in Int
    /\ 3 * Circle <= 4 * (Slowest * Synodic) /\ 4 * (Fastest * Synodic) <= 5 * Circle
<1>1. 3 * Circle <= 4 * Slowest * Synodic /\ 4 * Fastest * Synodic <= 5 * Circle
  BY MoonAssumption DEF Moon!CourseOK
<1> QED  BY <1>1, Numbers

(* Beyond so many months lie three quarters as many turns.                 *)
LEMMA NoFurther ==
    ASSUME NEW n \in Nat, NEW k \in Nat, n > k * Synodic
    PROVE  Slowest * n \in Int /\ 4 * (Slowest * n) >= 3 * (k * Circle)
<1> DEFINE p == Slowest * Synodic
<1>1. p \in Int /\ 3 * Circle <= 4 * p
  BY Months
<1>2. Slowest * (k * Synodic) = k * p /\ k * Synodic \in Int
  BY Numbers
<1>3. Slowest * n >= Slowest * (k * Synodic) /\ Slowest * n \in Int
  BY <1>2, Numbers
<1>4. k * (3 * Circle) <= k * (4 * p)
  <2> HIDE DEF p
  <2> QED  BY <1>1, Numbers
<1>5. k * (3 * Circle) = 3 * (k * Circle) /\ k * (4 * p) = 4 * (k * p) /\ k * p \in Int
      /\ k * Circle \in Int
  <2> HIDE DEF p
  <2> QED  BY <1>1, Numbers
<1> HIDE DEF p
<1> QED  BY <1>2, <1>3, <1>4, <1>5

(* The instant is one of the calendar's.                                   *)
Engaged == course \in Course /\ instant \in Instants /\ Moon!Supported(instant)

(* All of six months around the instant is known.                          *)
LEMMA AroundIt ==
    ASSUME Engaged
    PROVE  /\ instant \in Int /\ instant \in Moon!Around /\ A(instant) \in Int
           /\ \A u \in Int : instant - 6 * Synodic <= u /\ u <= instant + 6 * Synodic
                             => u \in Moon!Around
           /\ 0 < Synodic
<1>1. SupportedFrom <= instant /\ instant < SupportedTo
  BY DEF Engaged, Moon!Supported
<1>2. Synodic > 0
  BY Months, Numbers
<1>3. instant \in Int
  BY Numbers DEF Engaged
<1>4. \A u \in Int : instant - 6 * Synodic <= u /\ u <= instant + 6 * Synodic
                     => u \in Moon!Around
  BY <1>1, <1>2, <1>3, Numbers DEF Moon!Around
<1>5. instant \in Moon!Around
  BY <1>1, <1>2, <1>3, Numbers DEF Moon!Around
<1> QED  BY <1>2, <1>3, <1>4, <1>5, Travel DEF Engaged

(* Four months around it, the Moon runs as assumed.                        *)
LEMMA RunsHere ==
    ASSUME Engaged, NEW u, Here(u)
    PROVE  /\ u \in Int /\ u \in Moon!Around /\ u - 1 \in Moon!Around /\ u + 1 \in Moon!Around
           /\ A(u) \in Int /\ V(u) \in Int /\ Slowest <= V(u) /\ V(u) <= Fastest
<1>1. u \in Int /\ u \in Moon!Around /\ u - 1 \in Moon!Around /\ u + 1 \in Moon!Around
  BY AroundIt, Numbers DEF Here
<1> QED  BY <1>1, Runs DEF Engaged

(* What is near a goal near the instant lies within four months of it.     *)
LEMMA NearIsHere ==
    ASSUME Engaged, NEW y \in Moon!Around, NEW g \in Int, Near(y, g),
           A(instant) - 2 * Circle <= g, g <= A(instant) + 2 * Circle
    PROVE  Here(y)
<1> DEFINE z == A(y)
<1>1. y \in Int /\ y \in Moon!Around /\ z \in Int
  BY MoonAssumption, Numbers DEF Moon!CourseOK, A, Engaged, Moon!Around
<1>2. 2 * (z - A(instant)) <= 5 * Circle /\ 2 * (A(instant) - z) <= 5 * Circle
  BY <1>1, AroundIt, Numbers DEF Near
<1>3. ASSUME NEW n \in Nat, n > 4 * Synodic, NEW m \in Int, Slowest * n <= m,
             2 * m <= 5 * Circle
      PROVE  FALSE
  <2>1. 4 * (Slowest * n) >= 3 * (4 * Circle) /\ Slowest * n \in Int
    BY <1>3, NoFurther
  <2> QED  BY <1>3, <2>1, Numbers
<1>4. ASSUME y > instant + 4 * Synodic PROVE FALSE
  <2>1. instant <= y /\ y - instant \in Nat /\ y - instant > 4 * Synodic
    BY <1>1, <1>4, AroundIt, Numbers
  <2>2. Slowest * (y - instant) <= z - A(instant)
    BY <2>1, <1>1, AroundIt, Travel DEF Engaged
  <2>3. z - A(instant) \in Int
    BY <1>1, AroundIt
  <2> HIDE DEF z
  <2> QED  BY <1>2, <1>3, <2>1, <2>2, <2>3
<1>5. ASSUME y < instant - 4 * Synodic PROVE FALSE
  <2>1. y <= instant /\ instant - y \in Nat /\ instant - y > 4 * Synodic
    BY <1>1, <1>5, AroundIt, Numbers
  <2>2. Slowest * (instant - y) <= A(instant) - z
    BY <2>1, <1>1, AroundIt, Travel DEF Engaged
  <2>3. A(instant) - z \in Int
    BY <1>1, AroundIt
  <2> HIDE DEF z
  <2> QED  BY <1>2, <1>3, <2>1, <2>2, <2>3
<1> QED  BY <1>1, <1>4, <1>5, AroundIt, Numbers DEF Here

(* One correction, rounded and at the speed of the moment, from within a   *)
(* turn of the goal leads to within half a turn of it: the Moon never runs *)
(* faster than seven fifths of that speed, nor slower than five sevenths.  *)
LEMMA Approach ==
    ASSUME Engaged,
           NEW u \in Int, Here(u),
           NEW g \in Int, A(instant) - 2 * Circle <= g, g <= A(instant) + 2 * Circle,
           g - Circle <= A(u), A(u) <= g + Circle,
           NEW q \in Int, -V(u) <= 2 * (A(u) - g) - 2 * (V(u) * q),
           2 * (A(u) - g) - 2 * (V(u) * q) <= V(u)
    PROVE  Here(u - q) /\ Near(u - q, g)
<1>a. u \in Moon!Around /\ u + 1 \in Moon!Around /\ A(instant) \in Int /\ instant \in Int
  BY RunsHere, AroundIt
<1> DEFINE v == V(u)
           x == v * q
           w == A(u) - g
           d == A(u) - A(u - q)
<1>b. A(u) \in Int /\ v \in Int /\ Slowest <= v /\ v <= Fastest
  BY RunsHere
<1>c. x \in Int /\ w \in Int /\ -v <= 2 * w - 2 * x /\ 2 * w - 2 * x <= v
      /\ -Circle <= w /\ w <= Circle
  BY <1>b, Numbers
<1>1. q <= 2 * Synodic /\ -q <= 2 * Synodic
  <2>1. ASSUME NEW n \in Nat, n > 2 * Synodic, x = v * n \/ x = - (v * n)
        PROVE  FALSE
    <3>1. 4 * (Slowest * n) >= 3 * (2 * Circle) /\ Slowest * n \in Int
      BY <2>1, NoFurther
    <3>2. Slowest * n <= v * n /\ v * n \in Int
      <4> HIDE DEF v
      <4> QED  BY <1>b, Scaled, Numbers
    <3> HIDE DEF v, x, w
    <3> QED  BY <1>b, <1>c, <2>1, <3>1, <3>2, Numbers
  <2>2. ASSUME q > 2 * Synodic PROVE FALSE
    <3>1. q \in Nat
      BY <2>2, Numbers
    <3> QED  BY <3>1, <2>1, <2>2
  <2>3. ASSUME -q > 2 * Synodic PROVE FALSE
    <3>1. -q \in Nat
      BY <2>3, Numbers
    <3>2. x = - (v * (-q))
      <4> HIDE DEF v
      <4> QED  BY <1>b
    <3> HIDE DEF x, v
    <3> QED  BY <3>1, <3>2, <2>1, <2>3
  <2> QED  BY <2>2, <2>3, Numbers
<1>2. u - q \in Int /\ u - q \in Moon!Around
  <2>1. u - q \in Int
    OBVIOUS
  <2>2. instant - 6 * Synodic <= u - q /\ u - q <= instant + 6 * Synodic
    BY <1>1, <1>a, Numbers DEF Here
  <2> QED  BY <2>1, <2>2, AroundIt
<1>3. d \in Int /\ IF q >= 0 THEN 5 * x <= 7 * d /\ 5 * d <= 7 * x
                             ELSE 5 * x >= 7 * d /\ 5 * d >= 7 * x
  <2>1. ASSUME NEW n \in Nat, NEW e \in Int, Slowest * n <= e, e <= Fastest * n
        PROVE  v * n \in Int /\ 5 * (v * n) <= 7 * e /\ 5 * e <= 7 * (v * n)
    <3> HIDE DEF v
    <3>1. Slowest * n <= v * n /\ v * n <= Fastest * n
      BY <1>b, Scaled, Numbers
    <3>2. (5 * Fastest) * n <= (7 * Slowest) * n
      BY Scaled, Numbers
    <3>3. (5 * Fastest) * n = 5 * (Fastest * n) /\ (7 * Slowest) * n = 7 * (Slowest * n)
          /\ Fastest * n \in Int /\ Slowest * n \in Int /\ v * n \in Int
      BY Numbers, <1>b
    <3> QED  BY <2>1, <3>1, <3>2, <3>3
  <2>2. CASE q >= 0
    <3>1. q \in Nat /\ u - q <= u /\ u - (u - q) = q
      BY <2>2
    <3>2. A(u - q) \in Int /\ Slowest * q <= d /\ d <= Fastest * q
      BY <3>1, <1>a, <1>2, Travel DEF Engaged
    <3>3. d \in Int
      BY <3>2, <1>b
    <3> HIDE DEF d
    <3>4. 5 * (v * q) <= 7 * d /\ 5 * d <= 7 * (v * q)
      BY <2>1, <3>1, <3>2, <3>3
    <3> QED  BY <2>2, <3>3, <3>4
  <2>3. CASE ~ (q >= 0)
    <3> DEFINE n == -q
               e == -d
    <3>1. n \in Nat /\ u <= u - q /\ (u - q) - u = n
      BY <2>3
    <3>2. A(u - q) \in Int /\ Slowest * n <= A(u - q) - A(u) /\ A(u - q) - A(u) <= Fastest * n
      BY <3>1, <1>a, <1>2, Travel DEF Engaged
    <3>3. e \in Int /\ d \in Int /\ e = A(u - q) - A(u)
      BY <3>2, <1>b
    <3>4. x = - (v * n)
      <4> HIDE DEF v
      <4> QED  BY <1>b
    <3>e. Slowest * n <= e /\ e <= Fastest * n
      BY <3>2, <3>3
    <3>5. v * n \in Int /\ 5 * (v * n) <= 7 * e /\ 5 * e <= 7 * (v * n)
      <4> HIDE DEF e, n
      <4> QED  BY <2>1, <3>1, <3>e, <3>3
    <3> HIDE DEF n, d, x, v
    <3>6. 5 * x >= 7 * d /\ 5 * d >= 7 * x
      BY <3>3, <3>4, <3>5
    <3> QED  BY <2>3, <3>3, <3>6
  <2> QED  BY <2>2, <2>3
<1>4. -Circle <= 2 * (w - d) /\ 2 * (w - d) < Circle
  <2> HIDE DEF v, x, w, d
  <2> QED  BY <1>b, <1>c, <1>3, Numbers
<1>5. A(u - q) - g = w - d /\ A(u - q) \in Int
  BY <1>b, <1>c, <1>3, <1>2, MoonAssumption DEF Moon!CourseOK, A, Engaged
<1>6. Near(u - q, g)
  <2> HIDE DEF w, d
  <2> QED  BY <1>4, <1>5 DEF Near
<1>7. Here(u - q)
  BY <1>2, <1>6, NearIsHere
<1> QED  BY <1>6, <1>7

(* The turns around the instant.                                           *)
LEMMA TurnsAround ==
    ASSUME Engaged
    PROVE  /\ A(instant) \div Circle \in Int
           /\ TurnOf(0) \in Int /\ TurnOf(1) = TurnOf(0) + Circle
           /\ TurnOf(2) = TurnOf(0) + 2 * Circle
           /\ TurnOf(0) <= A(instant) /\ A(instant) < TurnOf(0) + Circle
           /\ A(instant) = TurnOf(0) + Moon!Elongation(instant)
           /\ Moon!Elongation(instant) \in Int
           /\ 0 <= Moon!Elongation(instant) /\ Moon!Elongation(instant) < Circle
<1> DEFINE a == A(instant)
           k == a \div Circle
           r == a % Circle
<1>1. k \in Int /\ r \in Int /\ a = Circle * k + r /\ 0 <= r /\ r < Circle
  <2>1. a \in Int
    BY AroundIt
  <2> HIDE DEF a
  <2> QED  BY <2>1, Turns
<1>2. Moon!Elongation(instant) = r
  BY DEF Moon!Elongation, A
<1>3. TurnOf(0) = Circle * (k + 0) /\ TurnOf(1) = Circle * (k + 1) /\ TurnOf(2) = Circle * (k + 2)
  BY DEF TurnOf
<1>4. A(instant) \div Circle = k /\ A(instant) = a
  OBVIOUS
<1> HIDE DEF a, k, r
<1>5. /\ Circle * (k + 0) = Circle * k /\ Circle * (k + 1) = Circle * k + Circle
      /\ Circle * (k + 2) = Circle * k + 2 * Circle /\ Circle * k \in Int
  BY <1>1, Numbers
<1> QED  BY <1>1, <1>2, <1>3, <1>4, <1>5, Numbers

(* The phases to be asked for are quarters of the circle apart.            *)
LEMMA PhaseAngles ==
    ASSUME ask \in Moon!Asks, ask # "state"
    PROVE  Moon!PhaseAngle[ask] \in {4 * (Circle \div 16) * n : n \in 0 .. 3}
BY Sixteenths, Numbers DEF Moon!Asks, Moon!PhaseAngle

(* The nearest event is within half a turn of the instant.                 *)
LEMMA EventAround ==
    ASSUME Engaged, ask \in Moon!Asks, ask # "state"
    PROVE  /\ EventGoal \in Int /\ Moon!PhaseAngle[ask] \in Int
           /\ -Circle <= 2 * (A(instant) - EventGoal) /\ 2 * (A(instant) - EventGoal) < Circle
           /\ \E k \in Int : EventGoal = Circle * k + Moon!PhaseAngle[ask]
<1> DEFINE b == Moon!Elongation(instant) - Moon!PhaseAngle[ask]
           w == Moon!Wrap(b)
           p == Moon!PhaseAngle[ask]
           c == A(instant) \div Circle
<1>1. p \in Int
  BY Sixteenths, Numbers DEF Moon!Asks, Moon!PhaseAngle
<1>2. b \in Int
  BY <1>1, TurnsAround
<1>3. w \in Int /\ -Circle <= 2 * w /\ 2 * w < Circle /\ \E k \in Int : b = Circle * k + w
  <2> HIDE DEF b
  <2> QED  BY <1>2, Wrapped
<1>4. PICK k \in Int : b = Circle * k + w
  BY <1>3
<1>5. A(instant) \in Int /\ c \in Int /\ A(instant) = Circle * c + b + p
  <2>1. TurnOf(0) = Circle * (c + 0)
    BY DEF TurnOf
  <2>2. c \in Int /\ A(instant) \in Int
    BY TurnsAround, AroundIt
  <2>3. A(instant) = TurnOf(0) + Moon!Elongation(instant) /\ Moon!Elongation(instant) \in Int
    BY TurnsAround
  <2>4. Moon!Elongation(instant) = b + p
    BY <2>3, <1>1
  <2> HIDE DEF c, b, p
  <2>5. Circle * (c + 0) = Circle * c /\ Circle * c \in Int
    BY <2>2, Numbers
  <2> QED  BY <2>1, <2>2, <2>3, <2>4, <2>5, <1>1, <1>2
<1>6. EventGoal = A(instant) - w
  BY DEF EventGoal
<1> HIDE DEF b, w, p, c
<1>7. EventGoal = Circle * (c + k) + p
  <2>1. Circle * (c + k) = Circle * c + Circle * k /\ Circle * c \in Int /\ Circle * k \in Int
    BY <1>5, <1>4, Numbers
  <2> QED  BY <1>1, <1>2, <1>3, <1>4, <1>5, <1>6, <2>1
<1>8. c + k \in Int
  BY <1>4, <1>5
<1> QED  BY <1>1, <1>3, <1>5, <1>6, <1>7, <1>8 DEF p

(* Near a goal, the wrapped difference of the angles is the way still to   *)
(* go.                                                                     *)
LEMMA SeenFrom ==
    ASSUME NEW u, A(u) \in Int, NEW g \in Int, Near(u, g), NEW p \in Int, NEW k \in Int,
           g = Circle * k + p
    PROVE  /\ Moon!Wrap(A(u) - p) = A(u) - g
           /\ Moon!Wrap(Moon!Elongation(u) - p) = A(u) - g
<1> DEFINE w == A(u) - g
           c == A(u) \div Circle
           r == A(u) % Circle
<1>1. w \in Int /\ -Circle <= 2 * w /\ 2 * w < Circle
  BY DEF Near
<1>2. c \in Int /\ r \in Int /\ A(u) = Circle * c + r
  <2> QED  BY Turns
<1>3. Circle * k \in Int /\ Circle * c \in Int /\ Circle * (k - c) = Circle * k - Circle * c
      /\ k - c \in Int
  <2> HIDE DEF c
  <2> QED  BY <1>2, Numbers
<1>4. Moon!Wrap(A(u) - p) = w
  <2>1. A(u) - p \in Int /\ A(u) - p = Circle * k + w
    BY <1>3
  <2> HIDE DEF w
  <2> QED  BY <2>1, <1>1, WrapsTo
<1>5. Moon!Wrap(r - p) = w
  <2> HIDE DEF c, r
  <2>1. r - p \in Int /\ r - p = Circle * (k - c) + w
    BY <1>2, <1>3
  <2> HIDE DEF w
  <2> QED  BY <2>1, <1>1, <1>3, WrapsTo
<1>6. Moon!Elongation(u) = r
  BY DEF Moon!Elongation, A
<1> QED  BY <1>4, <1>5, <1>6

(* What is hit is near.                                                    *)
LEMMA HitNear ==
    ASSUME Engaged, NEW u, NEW g \in Int, Hit(u, g)
    PROVE  Here(u) /\ Near(u, g)
<1>1. Here(u)
  BY DEF Hit
<1> QED  BY <1>1, RunsHere, Numbers DEF Hit, Near

(* Every goal lies within two turns, and shows the angle sought.           *)
LEMMA GoalAround ==
    ASSUME Engaged, ask \in Moon!Asks,
           sought \in (IF ask = "state" THEN {"previous", "next", "later"} ELSE {"event"})
    PROVE  LET p == IF sought = "event" THEN Moon!PhaseAngle[ask] ELSE 0
           IN  /\ Goal \in Int /\ p \in Int
               /\ A(instant) - 2 * Circle <= Goal /\ Goal <= A(instant) + 2 * Circle
               /\ \E k \in Int : Goal = Circle * k + p
<1>1. CASE ask = "state"
  <2> DEFINE c == A(instant) \div Circle
  <2>1. /\ c \in Int /\ TurnOf(0) \in Int
        /\ TurnOf(1) = TurnOf(0) + Circle /\ TurnOf(2) = TurnOf(0) + 2 * Circle
        /\ TurnOf(0) <= A(instant) /\ A(instant) < TurnOf(0) + Circle /\ A(instant) \in Int
    BY TurnsAround, AroundIt
  <2>2. TurnOf(0) = Circle * (c + 0) + 0 /\ TurnOf(1) = Circle * (c + 1) + 0
        /\ TurnOf(2) = Circle * (c + 2) + 0
    <3>1. TurnOf(0) = Circle * (c + 0) /\ TurnOf(1) = Circle * (c + 1)
          /\ TurnOf(2) = Circle * (c + 2)
      BY DEF TurnOf
    <3> HIDE DEF c
    <3> QED  BY <3>1, <2>1, Numbers
  <2>3. c + 0 \in Int /\ c + 1 \in Int /\ c + 2 \in Int
    BY <2>1
  <2> HIDE DEF c
  <2>4. Goal \in {TurnOf(0), TurnOf(1), TurnOf(2)} /\ sought # "event"
    BY <1>1 DEF Goal
  <2>5. \E k \in Int : Goal = Circle * k + 0
    BY <2>2, <2>3, <2>4
  <2> QED  BY <2>1, <2>4, <2>5, Numbers
<1>2. CASE ask # "state"
  <2>1. sought = "event" /\ Goal = EventGoal
    BY <1>2 DEF Goal
  <2>2. A(instant) \in Int
    BY AroundIt
  <2> QED  BY <1>2, <2>1, <2>2, EventAround, Numbers
<1> QED  BY <1>1, <1>2

(* One round of a search comes no further from its goal than half a turn;  *)
(* where it stops, it has arrived.                                         *)
LEMMA Corrects ==
    ASSUME Engaged, ask \in Moon!Asks,
           sought \in (IF ask = "state" THEN {"previous", "next", "later"} ELSE {"event"}),
           Here(jd), Near(jd, Goal)
    PROVE  /\ Moon!Correction \in Int
           /\ Here(jd - Moon!Correction) /\ Near(jd - Moon!Correction, Goal)
           /\ Moon!Correction = 0 => Hit(jd, Goal)
<1> DEFINE p == IF sought = "event" THEN Moon!PhaseAngle[ask] ELSE 0
           q == Moon!Correction
           w == A(jd) - Goal
           v == V(jd)
<1>1. /\ Goal \in Int /\ p \in Int
      /\ A(instant) - 2 * Circle <= Goal /\ Goal <= A(instant) + 2 * Circle
      /\ \E k \in Int : Goal = Circle * k + p
  BY GoalAround
<1>2. jd \in Int /\ A(jd) \in Int /\ v \in Int /\ 0 < v
  BY RunsHere, Numbers
<1>3. Moon!Wrap(Moon!Elongation(jd) - p) = w
  <2>1. PICK k \in Int : Goal = Circle * k + p
    BY <1>1
  <2> HIDE DEF p
  <2> QED  BY <2>1, <1>1, <1>2, SeenFrom
<1>4. q = Moon!Quotient(w, v)
  BY <1>3 DEF Moon!Correction, Moon!Target, V
<1>5. w \in Int /\ q \in Int /\ -v <= 2 * w - 2 * (v * q) /\ 2 * w - 2 * (v * q) < v
  <2>1. w \in Int
    BY <1>1, <1>2
  <2> HIDE DEF q, v, w
  <2> QED  BY <2>1, <1>2, <1>4, Rounding
<1>6. Here(jd - q) /\ Near(jd - q, Goal)
  <2>1. Goal - Circle <= A(jd) /\ A(jd) <= Goal + Circle
    BY <1>1, <1>2, Numbers DEF Near
  <2>2. 2 * (A(jd) - Goal) - 2 * (V(jd) * q) <= V(jd)
        /\ -V(jd) <= 2 * (A(jd) - Goal) - 2 * (V(jd) * q)
    <3> HIDE DEF q
    <3> QED  BY <1>5, <1>2
  <2> HIDE DEF q
  <2> QED  BY <2>1, <2>2, <1>1, <1>2, <1>5, Approach
<1>7. ASSUME q = 0 PROVE Hit(jd, Goal)
  <2>1. v * q = 0
    <3> HIDE DEF q, v
    <3> QED  BY <1>2, <1>7
  <2> HIDE DEF q
  <2> QED  BY <1>5, <2>1 DEF Hit
<1> QED  BY <1>5, <1>6, <1>7

(* Both first guesses of the new moons lie within half a turn of them.     *)
LEMMA GuessPrevious ==
    ASSUME Engaged
    PROVE  LET u == instant - Moon!Quotient(Moon!Elongation(instant), V(instant))
           IN  u \in Int /\ Here(u) /\ Near(u, TurnOf(0))
<1> DEFINE e == Moon!Elongation(instant)
           v == V(instant)
           q == Moon!Quotient(e, v)
<1>1. Here(instant) /\ instant \in Int
  BY AroundIt, Numbers DEF Here
<1>2. v \in Int /\ 0 < v /\ A(instant) \in Int
  BY <1>1, RunsHere, Numbers
<1>3. /\ TurnOf(0) \in Int /\ A(instant) = TurnOf(0) + e /\ e \in Int /\ 0 <= e /\ e < Circle
  BY TurnsAround
<1>4. q \in Int /\ -v <= 2 * e - 2 * (v * q) /\ 2 * e - 2 * (v * q) < v
  <2> HIDE DEF e, v
  <2> QED  BY <1>2, <1>3, Rounding
<1>5. A(instant) - TurnOf(0) = e
  <2> HIDE DEF e
  <2> QED  BY <1>3
<1>6. -V(instant) <= 2 * (A(instant) - TurnOf(0)) - 2 * (V(instant) * q)
      /\ 2 * (A(instant) - TurnOf(0)) - 2 * (V(instant) * q) <= V(instant)
  <2>1. -v <= 2 * (A(instant) - TurnOf(0)) - 2 * (v * q)
        /\ 2 * (A(instant) - TurnOf(0)) - 2 * (v * q) <= v
    <3>1. v * q \in Int
      <4> HIDE DEF v, q
      <4> QED  BY <1>2, <1>4
    <3> HIDE DEF e, v, q
    <3> QED  BY <1>2, <1>3, <1>4, <1>5, <3>1
  <2> QED  BY <2>1
<1>7. TurnOf(0) - Circle <= A(instant) /\ A(instant) <= TurnOf(0) + Circle
      /\ A(instant) - 2 * Circle <= TurnOf(0) /\ TurnOf(0) <= A(instant) + 2 * Circle
  <2> HIDE DEF e
  <2> QED  BY <1>2, <1>3, Numbers
<1>8. Here(instant - q) /\ Near(instant - q, TurnOf(0))
  <2> HIDE DEF q
  <2> QED  BY <1>1, <1>2, <1>3, <1>4, <1>6, <1>7, Approach
<1>9. instant - q \in Int
  <2> HIDE DEF q
  <2> QED  BY <1>1, <1>4
<1> QED  BY <1>8, <1>9

(* And so it is for the first guess of the next.                           *)
LEMMA GuessNext ==
    ASSUME Engaged
    PROVE  LET u == instant + Moon!Quotient(Moon!Arc, V(instant))
           IN  u \in Int /\ Here(u) /\ Near(u, TurnOf(1))
<1> DEFINE e == Moon!Arc
           v == V(instant)
           q == Moon!Quotient(e, v)
           m == -q
<1>1. Here(instant) /\ instant \in Int
  BY AroundIt, Numbers DEF Here
<1>2. v \in Int /\ 0 < v /\ A(instant) \in Int
  BY <1>1, RunsHere, Numbers
<1>3. /\ TurnOf(1) \in Int /\ A(instant) = TurnOf(1) - e /\ e \in Int /\ 0 < e /\ e <= Circle
  BY TurnsAround, Numbers DEF Moon!Arc
<1>4. q \in Int /\ m \in Int /\ -v <= 2 * e - 2 * (v * q) /\ 2 * e - 2 * (v * q) < v
      /\ v * m = - (v * q) /\ v * q \in Int
  <2> HIDE DEF e, v
  <2>1. q \in Int /\ -v <= 2 * e - 2 * (v * q) /\ 2 * e - 2 * (v * q) < v
    BY <1>2, <1>3, Rounding
  <2> HIDE DEF q
  <2> QED  BY <2>1, <1>2
<1>5. A(instant) - TurnOf(1) = -e
  <2> HIDE DEF e
  <2> QED  BY <1>3
<1>6. -V(instant) <= 2 * (A(instant) - TurnOf(1)) - 2 * (V(instant) * m)
      /\ 2 * (A(instant) - TurnOf(1)) - 2 * (V(instant) * m) <= V(instant)
  <2>1. -v <= 2 * (A(instant) - TurnOf(1)) - 2 * (v * m)
        /\ 2 * (A(instant) - TurnOf(1)) - 2 * (v * m) <= v
    <3> HIDE DEF e, v, q, m
    <3> QED  BY <1>2, <1>3, <1>4, <1>5
  <2> QED  BY <2>1
<1>7. TurnOf(1) - Circle <= A(instant) /\ A(instant) <= TurnOf(1) + Circle
      /\ A(instant) - 2 * Circle <= TurnOf(1) /\ TurnOf(1) <= A(instant) + 2 * Circle
  <2> HIDE DEF e
  <2> QED  BY <1>2, <1>3, Numbers
<1>8. Here(instant - m) /\ Near(instant - m, TurnOf(1))
  <2> HIDE DEF m
  <2> QED  BY <1>1, <1>2, <1>3, <1>4, <1>6, <1>7, Approach
<1>9. instant + q \in Int /\ instant - m = instant + q
  <2> HIDE DEF q
  <2> QED  BY <1>1, <1>4
<1> QED  BY <1>8, <1>9

(* A mean lunation past a new moon is not far from the next one.           *)
LEMMA GuessLater ==
    ASSUME Engaged, NEW u, Hit(u, TurnOf(1))
    PROVE  /\ u + Synodic \in Int /\ Here(u + Synodic) /\ Near(u + Synodic, TurnOf(2))
<1> DEFINE y == u + Synodic
<1>1. /\ Here(u) /\ u \in Moon!Around /\ A(u) \in Int /\ V(u) \in Int /\ V(u) <= Fastest
      /\ u \in Int
  BY RunsHere DEF Hit
<1>2. y \in Int /\ y \in Moon!Around /\ u <= y /\ y - u = Synodic
  BY <1>1, AroundIt, Numbers DEF Here
<1>3. /\ A(y) \in Int /\ Slowest * Synodic <= A(y) - A(u)
      /\ A(y) - A(u) <= Fastest * Synodic
  <2> HIDE DEF y
  <2> QED  BY <1>1, <1>2, Travel DEF Engaged
<1>4. /\ TurnOf(0) \in Int /\ TurnOf(1) = TurnOf(0) + Circle
      /\ TurnOf(2) = TurnOf(0) + 2 * Circle
      /\ TurnOf(0) <= A(instant) /\ A(instant) < TurnOf(0) + Circle /\ A(instant) \in Int
  BY TurnsAround, AroundIt
<1> HIDE DEF y
<1>5. Near(y, TurnOf(2))
  BY <1>1, <1>3, <1>4, Months, Numbers DEF Near, Hit
<1>6. Here(y)
  BY <1>2, <1>4, <1>5, NearIsHere, Numbers
<1> QED  BY <1>2, <1>5, <1>6 DEF y

(* Where the Moon is further on, it is later.                              *)
LEMMA Ahead ==
    ASSUME Engaged, NEW u, NEW v, Here(u), Here(v)
    PROVE  /\ u <= v => Slowest * (v - u) <= A(v) - A(u) /\ A(v) - A(u) <= Fastest * (v - u)
           /\ v < u => A(v) + Slowest <= A(u)
<1>1. /\ u \in Int /\ v \in Int /\ u \in Moon!Around /\ v \in Moon!Around
      /\ A(u) \in Int /\ A(v) \in Int
  BY RunsHere
<1>2. ASSUME u <= v
      PROVE  Slowest * (v - u) <= A(v) - A(u) /\ A(v) - A(u) <= Fastest * (v - u)
  BY <1>1, <1>2, Travel DEF Engaged
<1>3. ASSUME v < u PROVE A(v) + Slowest <= A(u)
  <2>1. Slowest * (u - v) <= A(u) - A(v)
    BY <1>1, <1>3, Travel DEF Engaged
  <2>2. Slowest <= Slowest * (u - v)
    <3>1. u - v \in Nat /\ 1 <= u - v
      BY <1>1, <1>3
    <3> DEFINE n == u - v
    <3> HIDE DEF n
    <3>2. n \in Nat /\ 1 <= n => Slowest <= Slowest * n
      BY Numbers
    <3> QED  BY <3>1, <3>2 DEF n
  <2>3. Slowest * (u - v) \in Int
    BY <1>1, Numbers
  <2> QED  BY <1>1, <2>1, <2>2, <2>3, Numbers
<1> QED  BY <1>2, <1>3

(* The new moon of the instant's turn is not after it, and the next is not *)
(* before it.                                                              *)
LEMMA Between ==
    ASSUME Engaged, NEW u
    PROVE  /\ Hit(u, TurnOf(0)) => u <= instant
           /\ Hit(u, TurnOf(1)) => instant <= u
<1>1. Here(instant) /\ A(instant) \in Int /\ instant \in Int
  BY AroundIt, Numbers DEF Here
<1>2. /\ TurnOf(0) \in Int /\ TurnOf(1) = TurnOf(0) + Circle
      /\ TurnOf(0) <= A(instant) /\ A(instant) < TurnOf(0) + Circle
  BY TurnsAround
<1>3. ASSUME Here(u) PROVE /\ u \in Int /\ A(u) \in Int /\ V(u) \in Int /\ V(u) <= Fastest
                           /\ instant < u => A(instant) + Slowest <= A(u)
                           /\ u < instant => A(u) + Slowest <= A(instant)
  BY <1>1, <1>3, RunsHere, Ahead
<1>4. ASSUME Hit(u, TurnOf(0)) PROVE u <= instant
  BY <1>1, <1>2, <1>3, <1>4, Numbers DEF Hit
<1>5. ASSUME Hit(u, TurnOf(1)) PROVE instant <= u
  BY <1>1, <1>2, <1>3, <1>5, Numbers DEF Hit
<1> QED  BY <1>4, <1>5

(* One lunation passes the check of its length, two do not.                *)
LEMMA OneLunation ==
    ASSUME Engaged, NEW u, NEW v, Hit(u, TurnOf(0)), Hit(v, TurnOf(1))
    PROVE  Shortest < v - u /\ v - u < Longest
<1>1. /\ Here(u) /\ Here(v) /\ u \in Int /\ v \in Int /\ instant \in Int
      /\ u <= instant /\ instant <= v
  BY Between, RunsHere, AroundIt DEF Hit
<1> DEFINE n == v - u
<1>2. n \in Nat
  BY <1>1
<1>3. Slowest * n <= A(v) - A(u) /\ A(v) - A(u) <= Fastest * n
      /\ A(u) \in Int /\ A(v) \in Int /\ V(u) \in Int /\ V(v) \in Int
      /\ V(u) <= Fastest /\ V(v) <= Fastest
  BY <1>1, <1>2, Ahead, RunsHere
<1>4. TurnOf(0) \in Int /\ TurnOf(1) = TurnOf(0) + Circle
  BY TurnsAround
<1> HIDE DEF n
<1>5. Slowest * n < Circle + Fastest /\ Circle - Fastest < Fastest * n
  <2>1. Slowest * n \in Int /\ Fastest * n \in Int
    BY <1>2, Numbers
  <2> QED  BY <1>3, <1>4, <2>1, Numbers DEF Hit
<1>6. Shortest < n
  <2> SUFFICES ASSUME n <= Shortest PROVE FALSE
    BY <1>2, Numbers
  <2>1. (Shortest + 2) * Fastest <= Circle
    BY MoonAssumption DEF Moon!CourseOK
  <2>2. Fastest * n <= Fastest * Shortest
    BY <1>2, Numbers
  <2>3. (Shortest + 2) * Fastest = Fastest * Shortest + 2 * Fastest /\ Fastest * Shortest \in Int
        /\ Fastest * n \in Int
    BY <1>2, Numbers
  <2> QED  BY <1>5, <2>1, <2>2, <2>3, Numbers
<1>7. n < Longest
  <2> SUFFICES ASSUME Longest <= n PROVE FALSE
    BY <1>2, Numbers
  <2>1. Circle + Fastest < Slowest * Longest
    BY MoonAssumption DEF Moon!CourseOK
  <2>2. Slowest * Longest <= Slowest * n /\ Slowest * n \in Int /\ Slowest * Longest \in Int
    BY <1>2, Numbers
  <2> QED  BY <1>5, <2>1, <2>2, Numbers
<1> QED  BY <1>6, <1>7 DEF n

(* Two lunations fail the check of their length.                           *)
LEMMA TwoLunations ==
    ASSUME Engaged, NEW u, NEW v, Hit(u, TurnOf(0)), Hit(v, TurnOf(2))
    PROVE  ~ (v - u < Longest)
<1>1. Here(u) /\ Here(v) /\ u \in Int /\ v \in Int /\ A(u) \in Int /\ A(v) \in Int
      /\ V(u) \in Int /\ V(v) \in Int /\ V(u) <= Fastest /\ V(v) <= Fastest
  BY RunsHere DEF Hit
<1>2. TurnOf(0) \in Int /\ TurnOf(2) = TurnOf(0) + 2 * Circle
  BY TurnsAround
<1>3. 2 * Circle - Fastest <= A(v) - A(u)
  BY <1>1, <1>2, Numbers DEF Hit
<1>4. u <= v
  BY <1>1, <1>3, Ahead, Numbers
<1> DEFINE n == v - u
<1>5. n \in Nat /\ A(v) - A(u) <= Fastest * n
  BY <1>1, <1>4, Ahead
<1>6. (Longest + 1) * Fastest <= 2 * Circle
  BY MoonAssumption DEF Moon!CourseOK
<1> HIDE DEF n
<1>7. Longest <= n
  <2> SUFFICES ASSUME n <= Longest - 1 PROVE FALSE
    BY <1>5, Numbers
  <2>0. Fastest * n <= Fastest * (Longest - 1)
    BY <1>5, Numbers
  <2>1. Fastest * (Longest - 1) = Fastest * Longest - Fastest /\ Fastest * Longest \in Int
        /\ (Longest + 1) * Fastest = Fastest * Longest + Fastest /\ Fastest * n \in Int
    BY <1>5, Numbers
  <2> QED  BY <1>1, <1>3, <1>5, <1>6, <2>0, <2>1, Numbers
<1>8. n = v - u
  BY DEF n
<1> QED  BY <1>5, <1>7, <1>8, Numbers

(* A hit of a turn is a new moon of it.                                    *)
LEMMA HitReached ==
    ASSUME Engaged, NEW u, NEW g \in Int, NEW p \in Int, NEW k \in Int, g = Circle * k + p,
           Hit(u, g)
    PROVE  Moon!Reached(u, p)
<1>1. /\ u \in Int /\ u \in Moon!Around /\ u - 1 \in Moon!Around /\ A(u) \in Int /\ V(u) \in Int
      /\ V(u) <= Fastest /\ 0 < V(u)
  BY RunsHere, Numbers DEF Hit
<1>2. V(u - 1) \in Int /\ Slowest <= V(u - 1)
  <2>1. u - 1 + 1 \in Moon!Around
    BY <1>1
  <2> QED  BY <1>1, <2>1, Runs DEF Engaged
<1>3. Moon!Wrap(A(u) - p) = A(u) - g
  BY <1>1, HitNear, SeenFrom
<1>4. A(u) - g <= V(u - 1) /\ -(A(u) - g) <= V(u)
  BY <1>1, <1>2, Numbers DEF Hit
<1> QED  BY <1>3, <1>4 DEF Moon!Reached, A, V

(* A new moon that is hit numbers its turn.                                *)
LEMMA HitTurn ==
    ASSUME Engaged, NEW u, NEW n \in {0, 1}, Hit(u, TurnOf(n))
    PROVE  Moon!Turn(u) = A(instant) \div Circle + n
<1> DEFINE k == A(instant) \div Circle + n
           h == Circle \div 2
           w == A(u) - TurnOf(n)
           r == w + h
<1>1. h \in Int /\ Circle = 2 * h
  BY Sixteenths, Numbers
<1>2. TurnOf(n) \in Int /\ k \in Int /\ TurnOf(n) = Circle * k
  BY TurnsAround, Numbers DEF TurnOf
<1>3. Near(u, TurnOf(n)) /\ A(u) \in Int
  BY <1>2, HitNear, RunsHere
<1>4. w \in Int /\ r \in Int /\ 0 <= r /\ r < Circle
  BY <1>1, <1>2, <1>3, Numbers DEF Near
<1>5. A(u) + h = Circle * k + r /\ A(u) + h \in Int
  <2> HIDE DEF k, h
  <2> QED  BY <1>1, <1>2, <1>3
<1>6. (A(u) + h) \div Circle = k
  <2> HIDE DEF k, r, h
  <2> QED  BY <1>2, <1>4, <1>5, DivisionIs, Numbers
<1> QED  BY <1>6 DEF Moon!Turn, A

(* The names of the phases, in sixteenths of the circle.                   *)
LEMMA PhaseNames ==
    ASSUME NEW e \in Int, 0 <= e, e < Circle
    PROVE  LET eighths == ((16 * e + Circle) \div (2 * Circle)) % 8
           IN  /\ Moon!EightPhase(e) = eighths
               /\ Moon!LegacyPhase(e) \in {eighths, (eighths + 7) % 8}
               /\ Moon!Trend(e) = "waxing" <=> 0 < e /\ 2 * e < Circle
<1> DEFINE m == Circle \div 16
           b == 2 * m
           s == e + m
           f == s \div b
           t == s % b
<1>1. /\ m \in Int /\ 0 < m /\ Circle = 16 * m /\ Circle \div 8 = b
  BY Sixteenths
<1> HIDE DEF m
<1>2. b \in Int /\ 0 < b /\ s \in Int
  BY <1>1
<1>3. f \in Int /\ t \in Int /\ s = b * f + t /\ 0 <= t /\ t < b
  <2> HIDE DEF b, s
  <2> QED  BY <1>2
<1>p. b * f = 2 * (m * f) /\ m * f \in Int
  <2> HIDE DEF f
  <2> QED  BY <1>1, <1>3
<1>4. f \in 0 .. 8
  <2> HIDE DEF f, t
  <2>1. ~ (f <= -1)
    <3>1. f <= -1 => m * f <= -m
      BY <1>1, <1>3
    <3> QED  BY <1>1, <1>3, <1>p, <3>1
  <2>2. ~ (f >= 9)
    <3>1. f >= 9 => m * f >= 9 * m
      BY <1>1, <1>3
    <3> QED  BY <1>1, <1>3, <1>p, <3>1
  <2> QED  BY <1>3, <2>1, <2>2
<1>5. (16 * e + Circle) \div (2 * Circle) = f
  <2> DEFINE n == 16 * e + Circle
             c == 2 * Circle
             r == 16 * t
  <2>1. n \in Int /\ c \in Int /\ 0 < c /\ r \in Int /\ n = c * f + r /\ 0 <= r /\ r < c
    <3>1. c * f = 32 * (m * f)
      <4> HIDE DEF f, t
      <4> QED  BY <1>1, <1>3
    <3> HIDE DEF f, t
    <3> QED  BY <1>1, <1>3, <1>p, <3>1
  <2> HIDE DEF n, c, r, f
  <2>2. n \div c = f
    BY <1>3, <2>1, DivisionIs
  <2> QED  BY <2>2 DEF n, c
<1>6. Moon!EightPhase(e) = f % 8
  <2>1. Moon!EightPhase(e) = (s % Circle) \div b
    BY <1>1 DEF Moon!EightPhase, m
  <2>2. CASE s < Circle
    <3>1. s % Circle = s
      <4> HIDE DEF s
      <4>0. 0 <= s /\ s = Circle * 0 + s
        BY <1>1, <1>2 DEF s
      <4> QED  BY <1>1, <1>2, <2>2, <4>0, DivisionIs, Numbers
    <3>2. f # 8
      <4> HIDE DEF f, t
      <4> QED  BY <1>1, <1>3, <1>p, <2>2
    <3>3. f % 8 = f
      <4> HIDE DEF f
      <4> QED  BY <1>4, <3>2
    <3> QED  BY <2>1, <3>1, <3>3
  <2>3. CASE ~ (s < Circle)
    <3> DEFINE r == s - Circle
    <3>1. r \in Int /\ 0 <= r /\ r < m /\ s = Circle * 1 + r /\ r < Circle
      BY <1>1, <1>2, <2>3
    <3>2. s % Circle = r
      <4> HIDE DEF s, r
      <4> QED  BY <1>1, <1>2, <3>1, DivisionIs, Numbers
    <3>3. r \div b = 0
      <4>1. r = b * 0 + r /\ r < b
        BY <3>1, <1>1, <1>2
      <4> HIDE DEF r, b
      <4> QED  BY <3>1, <1>2, <4>1, DivisionIs
    <3>4. f = 8
      <4>1. s = b * 8 + r /\ r < b
        BY <3>1, <1>1, <1>2
      <4> HIDE DEF s, r, b
      <4> QED  BY <3>1, <1>2, <4>1, DivisionIs DEF f
    <3> QED  BY <2>1, <3>2, <3>3, <3>4
  <2> QED  BY <2>2, <2>3
<1>7. Moon!LegacyPhase(e) \in {f % 8, ((f % 8) + 7) % 8}
  <2> DEFINE l == e \div b
             r == e % b
  <2>1. l \in Int /\ r \in Int /\ e = b * l + r /\ 0 <= r /\ r < b
    <3> HIDE DEF b
    <3> QED  BY <1>2
  <2>2. Moon!LegacyPhase(e) = l
    BY <1>1 DEF Moon!LegacyPhase
  <2>3. b * l = 2 * (m * l) /\ m * l \in Int /\ b * (l + 1) = b * l + b
    <3> HIDE DEF l
    <3> QED  BY <1>1, <2>1
  <2>4. l \in 0 .. 7
    <3> HIDE DEF l, r
    <3>1. ~ (l <= -1)
      <4>1. l <= -1 => m * l <= -m
        BY <1>1, <2>1
      <4> QED  BY <1>1, <2>1, <2>3, <4>1
    <3>2. ~ (l >= 8)
      <4>1. l >= 8 => m * l >= 8 * m
        BY <1>1, <2>1
      <4> QED  BY <1>1, <2>1, <2>3, <4>1
    <3> QED  BY <2>1, <3>1, <3>2
  <2>5. f = l \/ f = l + 1
    <3>1. CASE r < m
      <4>1. s = b * l + (r + m) /\ 0 <= r + m /\ r + m < b /\ r + m \in Int
        <5> HIDE DEF l, r
        <5> QED  BY <1>1, <2>1, <2>3, <3>1
      <4> HIDE DEF s, b, l, r
      <4>2. s \div b = l
        BY <1>1, <1>2, <2>1, <4>1, DivisionIs
      <4> QED  BY <4>2
    <3>2. CASE ~ (r < m)
      <4>1. s = b * (l + 1) + (r - m) /\ 0 <= r - m /\ r - m < b /\ r - m \in Int /\ l + 1 \in Int
        <5> HIDE DEF l, r
        <5> QED  BY <1>1, <2>1, <2>3, <3>2
      <4> HIDE DEF s, b, l, r
      <4>2. s \div b = l + 1
        BY <1>1, <1>2, <2>1, <4>1, DivisionIs
      <4> QED  BY <4>2
    <3> QED  BY <3>1, <3>2
  <2> HIDE DEF f, l
  <2> QED  BY <2>2, <2>4, <2>5, <1>4
<1>8. Moon!Trend(e) = "waxing" <=> 0 < e /\ 2 * e < Circle
  BY DEF Moon!Trend
<1> HIDE DEF f
<1> QED  BY <1>5, <1>6, <1>7, <1>8

(* An event is the middle of the phase that is named after it.             *)
LEMMA EventNamed ==
    ASSUME Engaged, ask \in Moon!Asks, ask # "state", Hit(jd, EventGoal)
    PROVE  /\ Moon!Reached(jd, Moon!PhaseAngle[ask])
           /\ 2 * Moon!Way <= Circle + 2 * Moon!Speed(course, jd)
           /\ Moon!EightPhase(Moon!Elongation(jd)) = Moon!PhaseAngle[ask] \div (Circle \div 8)
<1> DEFINE m == Circle \div 16
           b == 2 * m
           p == Moon!PhaseAngle[ask]
           w == A(jd) - EventGoal
           e == Moon!Elongation(jd)
           s == p + w + m
<1>1. PICK k \in Int : EventGoal = Circle * k + p
  BY EventAround
<1>2. /\ EventGoal \in Int /\ p \in Int
      /\ -Circle <= 2 * (A(instant) - EventGoal) /\ 2 * (A(instant) - EventGoal) < Circle
  BY EventAround
<1>3. Here(jd) /\ A(jd) \in Int /\ V(jd) \in Int /\ 0 < V(jd) /\ V(jd) <= Fastest
      /\ A(instant) \in Int
  BY RunsHere, AroundIt, Numbers DEF Hit
<1>4. Moon!Reached(jd, p)
  <2> HIDE DEF p
  <2> QED  BY <1>1, <1>2, HitReached
<1>5. 2 * Moon!Way <= Circle + 2 * Moon!Speed(course, jd)
  <2>1. -V(jd) <= 2 * (A(jd) - EventGoal) /\ 2 * (A(jd) - EventGoal) < V(jd)
    BY DEF Hit
  <2> DEFINE y == A(jd) - A(instant)
  <2>2. 2 * y <= Circle + 2 * V(jd) /\ 2 * (-y) <= Circle + 2 * V(jd)
    BY <1>2, <1>3, <2>1, Numbers
  <2>3. Moon!Way = IF y < 0 THEN -y ELSE y
    BY DEF Moon!Way, A
  <2>4. Moon!Speed(course, jd) = V(jd)
    BY DEF V
  <2> HIDE DEF y
  <2> QED  BY <2>2, <2>3, <2>4
<1>6. Moon!EightPhase(e) = p \div (Circle \div 8)
  <2>1. /\ m \in Int /\ 0 < m /\ Circle = 16 * m /\ Circle \div 8 = b
    BY Sixteenths
  <2>2. PICK n \in 0 .. 3 : p = 4 * m * n
    BY PhaseAngles
  <2>a. p \in {0, 4 * m, 8 * m, 12 * m} /\ p = b * (2 * n) /\ 2 * n \in Int
    <3> HIDE DEF m
    <3> QED  BY <2>1, <2>2
  <2>3. w \in Int /\ -m < w /\ w < m
    <3>1. -V(jd) <= 2 * (A(jd) - EventGoal) /\ 2 * (A(jd) - EventGoal) < V(jd)
      BY DEF Hit
    <3> HIDE DEF m
    <3> QED  BY <1>2, <1>3, <2>1, <3>1, Numbers
  <2> DEFINE c == A(jd) \div Circle
  <2>4. c \in Int /\ e \in Int /\ A(jd) = Circle * c + e /\ 0 <= e /\ e < Circle
    <3>1. e = A(jd) % Circle
      BY DEF Moon!Elongation, A
    <3> HIDE DEF e
    <3> QED  BY <1>3, <3>1, Turns
  <2>5. s \in Int /\ 0 <= s /\ s < Circle /\ e + m = Circle * (k - c) + s /\ k - c \in Int
        /\ e + m \in Int
    <3>1. Circle * (k - c) = Circle * k - Circle * c /\ Circle * k \in Int /\ Circle * c \in Int
          /\ k - c \in Int
      <4> HIDE DEF c
      <4> QED  BY <2>4, Numbers
    <3>2. s \in Int /\ 0 <= s /\ s < Circle
      <4> HIDE DEF p, m, w
      <4> QED  BY <2>1, <2>a, <2>3
    <3>3. A(jd) = Circle * k + p + w
      <4> HIDE DEF p
      <4> QED  BY <1>1, <1>2, <1>3, <3>1
    <3> HIDE DEF p, m, w, c, e
    <3> QED  BY <1>2, <2>1, <2>3, <2>4, <3>1, <3>2, <3>3
  <2>6. (e + m) % Circle = s
    <3> DEFINE x == e + m
               j == k - c
    <3>1. x \in Int /\ j \in Int /\ x = Circle * j + s /\ s \in Int /\ 0 <= s /\ s < Circle
      BY <2>5
    <3> HIDE DEF x, j, s
    <3>2. x % Circle = s
      BY <3>1, DivisionIs, Numbers
    <3> QED  BY <3>2 DEF x
  <2>7. s \div b = 2 * n
    <3>1. s = b * (2 * n) + (w + m) /\ 0 <= w + m /\ w + m < b /\ w + m \in Int /\ b \in Int
          /\ 0 < b
      <4> HIDE DEF p, m, w
      <4> QED  BY <1>2, <2>1, <2>a, <2>3
    <3> DEFINE x == w + m
               j == 2 * n
    <3> HIDE DEF s, b, x, j
    <3>2. s = b * j + x /\ 0 <= x /\ x < b /\ x \in Int /\ s \in Int /\ j \in Int
      BY <3>1, <2>5, <2>a DEF x, j
    <3>3. s \div b = j
      BY <3>1, <3>2, DivisionIs
    <3> QED  BY <3>3 DEF j
  <2>8. p \div b = 2 * n
    <3>1. b \in Int /\ 0 < b
      BY <2>1
    <3> DEFINE j == 2 * n
    <3> HIDE DEF p, b, j
    <3>2. p = b * j + 0 /\ j \in Int
      <4>1. j \in Int /\ p = b * j
        BY <2>a DEF j
      <4> QED  BY <4>1, <3>1, <1>2
    <3>3. p \div b = j
      BY <1>2, <3>1, <3>2, DivisionIs
    <3> QED  BY <3>3 DEF j
  <2>9. Moon!EightPhase(e) = ((e + m) % Circle) \div b
    BY <2>1 DEF Moon!EightPhase
  <2>10. Moon!EightPhase(e) = p \div b
    BY <2>6, <2>7, <2>8, <2>9
  <2> HIDE DEF b, p
  <2> QED  BY <2>1, <2>10
<1> QED  BY <1>4, <1>5, <1>6

(* A computation starts inside the invariant.                              *)
LEMMA InitMoonInv == Moon!Init => MoonInv
<1> SUFFICES ASSUME Moon!Init PROVE MoonInv
  OBVIOUS
<1>1. /\ course \in Course /\ instant \in Instants /\ ask \in Moon!Asks /\ moonPc = "validate"
      /\ sought = "none" /\ jd = instant /\ rounds = 0 /\ reply = "none"
  BY DEF Moon!Init
<1>2. Asked
  BY <1>1, Numbers DEF Asked
<1>3. Going /\ Known /\ Told
  BY <1>1 DEF Going, Known, Told
<1> QED  BY <1>2, <1>3 DEF MoonInv

(* No step of a computation leaves the invariant.                          *)
LEMMA StepMoonInv == MoonInv /\ [Moon!Next]_moonVars => MoonInv'
<1> SUFFICES ASSUME MoonInv, [Moon!Next]_moonVars PROVE MoonInv'
  OBVIOUS
<1>i. Asked /\ Going /\ Known /\ Told
  BY DEF MoonInv
<1>a. course \in Course /\ instant \in Instants /\ ask \in Moon!Asks /\ jd \in Int /\ rounds \in Nat
      /\ instant \in Int /\ Synodic \in Int
  BY <1>i, Numbers DEF Asked
<1>1. CASE Moon!Validate
  <2>1. /\ moonPc = "validate" /\ UNCHANGED <<course, instant, ask, lastNew, nextNew>>
        /\ reply = "none"
    BY <1>1, <1>i DEF Moon!Validate, Moon!request, Going
  <2>2. CASE ~ Moon!Supported(instant)
    <3>1. moonPc' = "done" /\ reply' = "422" /\ UNCHANGED <<sought, jd, rounds>>
      BY <1>1, <2>2 DEF Moon!Validate, Moon!Reply
    <3> QED  BY <1>a, <2>1, <3>1 DEF MoonInv, Asked, Going, Known, Told
  <2>3. CASE Moon!Supported(instant) /\ ask = "state"
    <3> DEFINE u == instant - Moon!Quotient(Moon!Elongation(instant), V(instant))
    <3>1. moonPc' = "refine" /\ sought' = "previous" /\ jd' = u /\ rounds' = 0 /\ UNCHANGED reply
      BY <1>1, <2>3 DEF Moon!Validate, Moon!Seek, V
    <3>2. u \in Int /\ Here(u) /\ Near(u, TurnOf(0))
      BY <2>3, <1>a, GuessPrevious DEF Engaged
    <3> HIDE DEF u
    <3>3. Here(jd)' /\ Near(jd, Goal)'
      BY <2>1, <3>1, <3>2 DEF Here, Near, Goal, TurnOf, A
    <3> QED
      BY <1>a, <2>1, <2>3, <3>1, <3>2, <3>3 DEF MoonInv, Asked, Going, Known, Told, Moon!Supported
  <2>4. CASE Moon!Supported(instant) /\ ask # "state"
    <3>1. moonPc' = "refine" /\ sought' = "event" /\ jd' = instant /\ rounds' = 0 /\ UNCHANGED reply
      BY <1>1, <2>4 DEF Moon!Validate, Moon!Seek
    <3>2. Here(instant) /\ Near(instant, EventGoal)
      BY <1>a, <2>4, EventAround, AroundIt, Numbers DEF Engaged, Here, Near
    <3>3. Here(jd)' /\ Near(jd, Goal)'
      BY <2>1, <3>1, <3>2 DEF Here, Near, Goal, EventGoal, A, Moon!Elongation
    <3> QED
      BY <1>a, <2>1, <2>4, <3>1, <3>3 DEF MoonInv, Asked, Going, Known, Told, Moon!Supported
  <2> QED  BY <2>2, <2>3, <2>4
<1>2. CASE Moon!Unavailable
  <2>1. /\ UNCHANGED <<course, instant, ask, sought, jd, rounds, lastNew, nextNew>>
        /\ moonPc' = "done" /\ reply' \in {"503", "500 of the library"}
    BY <1>2 DEF Moon!Unavailable, Moon!Reply, Moon!request
  <2> QED  BY <1>a, <2>1 DEF MoonInv, Asked, Going, Known, Told
<1>3. CASE Moon!Refine
  <2> DEFINE q == Moon!Correction
             y == jd - q
  <2>1. /\ moonPc = "refine" /\ UNCHANGED <<course, instant, ask, sought, lastNew, nextNew>>
        /\ reply = "none" /\ Moon!Supported(instant)
        /\ sought \in (IF ask = "state" THEN {"previous", "next", "later"} ELSE {"event"})
        /\ Here(jd) /\ Near(jd, Goal)
    BY <1>3, <1>i DEF Moon!Refine, Moon!request, Going
  <2>2. /\ q \in Int /\ Here(y) /\ Near(y, Goal) /\ (q = 0 => Hit(jd, Goal))
    BY <2>1, <1>a, Corrects DEF Engaged
  <2>3. /\ jd' = y /\ rounds' = rounds + 1
        /\ \/ q = 0 /\ moonPc' = "found" /\ reply' = "none"
           \/ q # 0 /\ rounds' = MaxRounds /\ moonPc' = "done" /\ reply' = "500"
           \/ q # 0 /\ moonPc' = "refine" /\ reply' = "none"
    BY <1>3, <2>1 DEF Moon!Refine, Moon!Reply
  <2>4. y \in Int /\ (q = 0 => y = jd)
    <3> HIDE DEF q
    <3> QED  BY <1>a, <2>2
  <2> HIDE DEF q, y
  <2>5. Asked'
    BY <1>a, <2>1, <2>3, <2>4 DEF Asked
  <2>6. Goal' = Goal
    BY <2>1 DEF Goal, TurnOf, EventGoal, A, Moon!Elongation
  <2>7. Here(jd)' /\ Near(jd, Goal)'
    BY <2>1, <2>2, <2>3, <2>6 DEF Here, Near, A
  <2>8. q = 0 => Hit(jd, Goal)'
    BY <2>1, <2>2, <2>3, <2>4, <2>6, <2>7 DEF Hit, A, V, Moon!Speed, Here
  <2>9. Going'
    BY <2>1, <2>3, <2>7, <2>8 DEF Going, Moon!Supported
  <2>10. sought \in {"next", "later"} => Hit(lastNew, TurnOf(0))'
    BY <1>i, <2>1 DEF Known, Hit, Here, A, V, TurnOf, Moon!Speed
  <2>11. sought = "later" => NewMoonSoon'
    BY <1>i, <2>1 DEF Known, NewMoonSoon, Hit, Here, A, V, TurnOf, Moon!Speed
  <2>12. Known'
    BY <2>1, <2>3, <2>10, <2>11 DEF Known
  <2>13. Told'
    BY <2>1, <2>3 DEF Told, Moon!Supported
  <2> QED  BY <2>5, <2>9, <2>12, <2>13 DEF MoonInv
<1>4. CASE Moon!FoundPrevious
  <2> DEFINE u == instant + Moon!Quotient(Moon!Arc, V(instant))
  <2>1. /\ moonPc = "found" /\ sought = "previous" /\ lastNew' = jd
        /\ UNCHANGED <<course, instant, ask, nextNew, reply>>
        /\ moonPc' = "refine" /\ sought' = "next" /\ jd' = u /\ rounds' = 0
    BY <1>4 DEF Moon!FoundPrevious, Moon!Seek, Moon!request, V
  <2>2. reply = "none" /\ Moon!Supported(instant) /\ ask = "state" /\ Hit(jd, Goal)
    BY <1>i, <2>1 DEF Going
  <2>3. u \in Int /\ Here(u) /\ Near(u, TurnOf(1))
    BY <1>a, <2>2, GuessNext DEF Engaged
  <2> HIDE DEF u
  <2>4. Here(jd)' /\ Near(jd, Goal)'
    BY <2>1, <2>3 DEF Here, Near, Goal, TurnOf, A
  <2>5. Hit(lastNew, TurnOf(0))'
    BY <2>1, <2>2 DEF Hit, Here, A, V, TurnOf, Moon!Speed, Goal
  <2> QED
    BY <1>a, <2>1, <2>2, <2>3, <2>4, <2>5 DEF MoonInv, Asked, Going, Known, Told, Moon!Supported
<1>5. CASE Moon!FoundNext
  <2>1. /\ moonPc = "found" /\ sought = "next" /\ nextNew' = jd
        /\ UNCHANGED <<course, instant, ask, lastNew>>
    BY <1>5 DEF Moon!FoundNext, Moon!request
  <2>2. /\ reply = "none" /\ Moon!Supported(instant) /\ ask = "state" /\ Hit(jd, Goal)
        /\ Hit(lastNew, TurnOf(0))
    BY <1>i, <2>1 DEF Going, Known
  <2>3. ~ (lastNew > instant + Tolerance)
    <3>1. lastNew <= instant /\ lastNew \in Int
      BY <1>a, <2>2, Between, RunsHere DEF Engaged, Hit
    <3> QED  BY <1>a, <3>1, Numbers
  <2>4. moonPc' = "later" /\ UNCHANGED <<sought, jd, rounds, reply>>
    BY <1>5, <2>3 DEF Moon!FoundNext
  <2>5. Hit(nextNew, TurnOf(1))'
    BY <2>1, <2>2 DEF Hit, Here, A, V, TurnOf, Moon!Speed, Goal
  <2>6. Hit(lastNew, TurnOf(0))'
    BY <2>1, <2>2 DEF Hit, Here, A, V, TurnOf, Moon!Speed
  <2> QED
    BY <1>a, <2>1, <2>2, <2>4, <2>5, <2>6 DEF MoonInv, Asked, Going, Known, Told, Moon!Supported
<1>6. CASE Moon!FoundAgain
  <2>1. /\ moonPc = "found" /\ sought \in {"earlier", "later"}
        /\ UNCHANGED <<course, instant, ask, sought, jd, rounds, reply>>
    BY <1>6 DEF Moon!FoundAgain, Moon!request
  <2>2. /\ reply = "none" /\ Moon!Supported(instant) /\ ask = "state" /\ sought = "later"
        /\ Hit(jd, Goal) /\ Hit(lastNew, TurnOf(0)) /\ NewMoonSoon
    BY <1>i, <2>1 DEF Going, Known
  <2>3. moonPc' = "measure" /\ nextNew' = jd /\ lastNew' = lastNew
    BY <1>6, <2>2 DEF Moon!FoundAgain
  <2>4. Hit(nextNew, TurnOf(2))'
    BY <2>1, <2>2, <2>3 DEF Hit, Here, A, V, TurnOf, Moon!Speed, Goal
  <2>5. Hit(lastNew, TurnOf(0))'
    BY <2>1, <2>2, <2>3 DEF Hit, Here, A, V, TurnOf, Moon!Speed
  <2>6. NewMoonSoon'
    BY <2>1, <2>2 DEF NewMoonSoon, Hit, Here, A, V, TurnOf, Moon!Speed
  <2> QED
    BY <1>a, <2>1, <2>2, <2>3, <2>4, <2>5, <2>6
    DEF MoonInv, Asked, Going, Known, Told, Moon!Supported
<1>7. CASE Moon!Later
  <2>1. /\ moonPc = "later" /\ UNCHANGED <<course, instant, ask, lastNew, nextNew>>
    BY <1>7 DEF Moon!Later, Moon!request
  <2>2. /\ reply = "none" /\ Moon!Supported(instant) /\ ask = "state"
        /\ Hit(lastNew, TurnOf(0)) /\ Hit(nextNew, TurnOf(1))
    BY <1>i, <2>1 DEF Going, Known
  <2>3. nextNew \in Int /\ instant <= nextNew /\ Tolerance \in Int
    BY <1>a, <2>2, Between, RunsHere, Numbers DEF Engaged, Hit
  <2>4. Hit(lastNew, TurnOf(0))'
    BY <2>1, <2>2 DEF Hit, Here, A, V, TurnOf, Moon!Speed
  <2>5. CASE nextNew <= instant + Tolerance
    <3> DEFINE u == nextNew + Synodic
    <3>1. moonPc' = "refine" /\ sought' = "later" /\ jd' = u /\ rounds' = 0 /\ UNCHANGED reply
      BY <1>7, <2>5 DEF Moon!Later, Moon!Seek
    <3>2. u \in Int /\ Here(u) /\ Near(u, TurnOf(2))
      BY <1>a, <2>2, GuessLater DEF Engaged
    <3> HIDE DEF u
    <3>3. Here(jd)' /\ Near(jd, Goal)'
      BY <2>1, <3>1, <3>2 DEF Here, Near, Goal, TurnOf, A
    <3>4. NewMoonSoon'
      <4>1. Hit(nextNew, TurnOf(1)) /\ nextNew \in instant .. instant + Tolerance
        BY <1>a, <2>2, <2>3, <2>5
      <4>2. NewMoonSoon
        BY <4>1 DEF NewMoonSoon
      <4> QED
        BY <4>2, <2>1 DEF NewMoonSoon, Hit, Here, A, V, TurnOf, Moon!Speed
    <3> QED
      BY <1>a, <2>1, <2>2, <2>4, <3>1, <3>2, <3>3, <3>4
      DEF MoonInv, Asked, Going, Known, Told, Moon!Supported
  <2>6. CASE ~ (nextNew <= instant + Tolerance)
    <3>1. moonPc' = "measure" /\ UNCHANGED <<sought, jd, rounds, reply>>
      BY <1>7, <2>6 DEF Moon!Later
    <3>2. Hit(nextNew, TurnOf(1))'
      BY <2>1, <2>2 DEF Hit, Here, A, V, TurnOf, Moon!Speed
    <3>3. (instant + Tolerance < nextNew)'
      BY <1>a, <2>1, <2>3, <2>6
    <3> QED
      BY <1>a, <2>1, <2>2, <2>4, <3>1, <3>2, <3>3
      DEF MoonInv, Asked, Going, Known, Told, Moon!Supported
  <2> QED  BY <2>5, <2>6
<1>8. CASE Moon!Measure
  <2>1. /\ moonPc = "measure" /\ moonPc' = "done"
        /\ UNCHANGED <<course, instant, ask, sought, jd, rounds, lastNew, nextNew>>
        /\ reply' = IF /\ Shortest < nextNew - lastNew /\ nextNew - lastNew < Longest
                       /\ Moon!Age <= nextNew - lastNew + Tolerance
                    THEN "ok" ELSE "500"
    BY <1>8 DEF Moon!Measure, Moon!Reply, Moon!request, Moon!Length
  <2>2. /\ Moon!Supported(instant) /\ ask = "state" /\ Hit(lastNew, TurnOf(0))
        /\ \/ Hit(nextNew, TurnOf(1)) /\ instant + Tolerance < nextNew
           \/ Hit(nextNew, TurnOf(2)) /\ NewMoonSoon
    BY <1>i, <2>1 DEF Going, Known
  <2>3. Engaged
    BY <1>a, <2>2 DEF Engaged
  <2>4. Asked' /\ Going'
    BY <1>a, <2>1, <2>2 DEF Asked, Going
  <2>5. Known'
    BY <2>1 DEF Known
  <2>6. CASE Hit(nextNew, TurnOf(1)) /\ instant + Tolerance < nextNew
    <3>1. Shortest < nextNew - lastNew /\ nextNew - lastNew < Longest
      BY <2>2, <2>3, <2>6, OneLunation
    <3>2. lastNew <= instant /\ lastNew \in Int /\ nextNew \in Int
      BY <2>2, <2>3, <2>6, Between, RunsHere DEF Hit
    <3>3. Moon!Age <= nextNew - lastNew + Tolerance
      BY <1>a, <2>6, <3>2, Numbers DEF Moon!Age
    <3>4. reply' = "ok"
      BY <2>1, <3>1, <3>3
    <3>5. Hit(nextNew, TurnOf(1))' /\ (instant + Tolerance < nextNew)'
      BY <2>1, <2>6 DEF Hit, Here, A, V, TurnOf, Moon!Speed
    <3>6. Hit(lastNew, TurnOf(0))'
      BY <2>1, <2>2 DEF Hit, Here, A, V, TurnOf, Moon!Speed
    <3>7. Told'
      BY <2>1, <2>2, <3>4, <3>5, <3>6 DEF Told, Moon!Supported
    <3> QED  BY <2>4, <2>5, <3>7 DEF MoonInv
  <2>7. CASE Hit(nextNew, TurnOf(2)) /\ NewMoonSoon
    <3>1. ~ (nextNew - lastNew < Longest)
      BY <2>2, <2>3, <2>7, TwoLunations
    <3>2. reply' = "500"
      BY <2>1, <3>1
    <3>3. NewMoonSoon'
      BY <2>1, <2>7 DEF NewMoonSoon, Hit, Here, A, V, TurnOf, Moon!Speed
    <3>4. Told'
      BY <2>1, <2>2, <3>2, <3>3 DEF Told, Moon!Supported
    <3> QED  BY <2>4, <2>5, <3>4 DEF MoonInv
  <2> QED  BY <2>2, <2>6, <2>7
<1>9. CASE Moon!FoundEvent
  <2>1. /\ moonPc = "found" /\ sought = "event" /\ moonPc' = "done" /\ reply' \in {"ok", "422"}
        /\ UNCHANGED <<course, instant, ask, sought, jd, rounds, lastNew, nextNew>>
    BY <1>9 DEF Moon!FoundEvent, Moon!Reply, Moon!request
  <2>2. /\ Moon!Supported(instant) /\ ask # "state" /\ Hit(jd, Goal)
    BY <1>i, <2>1 DEF Going
  <2>3. Hit(jd, EventGoal)'
    BY <2>1, <2>2 DEF Hit, Here, A, V, EventGoal, Moon!Speed, Goal, Moon!Elongation
  <2> QED
    BY <1>a, <2>1, <2>2, <2>3 DEF MoonInv, Asked, Going, Known, Told, Moon!Supported
<1>10. CASE UNCHANGED moonVars
  BY <1>10 DEF moonVars, MoonInv, Asked, Going, Known, Told, NewMoonSoon, Hit, Here, Near, Goal,
               TurnOf, EventGoal, A, V, Moon!Speed, Moon!Elongation, Moon!Supported
<1> QED
  BY <1>1, <1>2, <1>3, <1>4, <1>5, <1>6, <1>7, <1>8, <1>9, <1>10 DEF Moon!Next

(* A refusal is a search that runs out of rounds, or a new moon that comes *)
(* right after the instant.                                                *)
RefusedAtNewMoon ==
    reply = "500" => \/ rounds = MaxRounds
                     \/ \E u \in instant .. instant + Tolerance : Moon!Reached(u, 0)

(* A new moon that is hit is reached.                                      *)
LEMMA NewMoonReached ==
    ASSUME Engaged, NEW u, NEW n \in {0, 1}, Hit(u, TurnOf(n))
    PROVE  Moon!Reached(u, 0)
<1> DEFINE k == A(instant) \div Circle + n
           g == TurnOf(n)
<1>1. k \in Int /\ g = Circle * k /\ g \in Int
  BY TurnsAround, Numbers DEF TurnOf
<1> HIDE DEF k
<1>2. g = Circle * k + 0
  BY <1>1, Numbers
<1> HIDE DEF g
<1>3. Hit(u, g)
  BY DEF g
<1> QED  BY <1>1, <1>2, <1>3, HitReached

(* What holds at every moment of a computation is what was promised of it. *)
LEMMA MoonPromises == MoonInv => LunationOK /\ PhaseOK /\ RefusedAtNewMoon
<1> SUFFICES ASSUME MoonInv PROVE LunationOK /\ PhaseOK /\ RefusedAtNewMoon
  OBVIOUS
<1>i. Asked /\ Told
  BY DEF MoonInv
<1>e. reply \in {"ok", "500"} => Engaged
  BY <1>i DEF Asked, Told, Engaged
<1>1. ASSUME reply = "ok", ask = "state"
      PROVE  /\ Moon!Reached(lastNew, 0) /\ Moon!Reached(nextNew, 0)
             /\ Moon!Turn(nextNew) = Moon!Turn(lastNew) + 1
             /\ lastNew <= instant /\ instant + Tolerance < nextNew
             /\ Moon!Gone = Moon!Elongation(instant)
  <2>1. /\ Engaged /\ Hit(lastNew, TurnOf(0)) /\ Hit(nextNew, TurnOf(1))
        /\ instant + Tolerance < nextNew
    BY <1>1, <1>i, <1>e DEF Told
  <2> DEFINE k == A(instant) \div Circle
  <2>2. k \in Int
    BY <2>1, TurnsAround
  <2>3. Moon!Turn(lastNew) = k + 0 /\ Moon!Turn(nextNew) = k + 1
    BY <2>1, HitTurn
  <2>4. Moon!Gone = Moon!Elongation(instant)
    <3>1. /\ A(instant) = TurnOf(0) + Moon!Elongation(instant) /\ TurnOf(0) \in Int
          /\ Moon!Elongation(instant) \in Int
      BY <2>1, TurnsAround
    <3>2. TurnOf(0) = Circle * Moon!Turn(lastNew)
      BY <2>3 DEF TurnOf
    <3>3. Moon!Gone = A(instant) - TurnOf(0)
      BY <3>2 DEF Moon!Gone, A
    <3> QED  BY <3>1, <3>3
  <2>5. Moon!Reached(lastNew, 0) /\ Moon!Reached(nextNew, 0) /\ lastNew <= instant
    BY <2>1, NewMoonReached, Between
  <2> HIDE DEF k
  <2> QED  BY <2>1, <2>2, <2>3, <2>4, <2>5
<1>2. LunationOK
  BY <1>1 DEF LunationOK, Moon!LunationOK
<1>3. ASSUME reply = "ok", ask = "state"
      PROVE  LET e == Moon!Elongation(instant)
                 eighths == ((16 * Moon!Gone + Circle) \div (2 * Circle)) % 8
             IN  /\ Moon!EightPhase(e) = eighths
                 /\ Moon!LegacyPhase(e) \in {eighths, (eighths + 7) % 8}
                 /\ Moon!Trend(e) = "waxing" <=> 0 < Moon!Gone /\ 2 * Moon!Gone < Circle
  <2>1. Engaged /\ Moon!Gone = Moon!Elongation(instant)
    BY <1>1, <1>3, <1>e
  <2> DEFINE e == Moon!Elongation(instant)
  <2>2. e \in Int /\ 0 <= e /\ e < Circle
    BY <2>1, TurnsAround
  <2>3. Moon!Gone = e
    BY <2>1
  <2> HIDE DEF e
  <2>4. LET eighths == ((16 * e + Circle) \div (2 * Circle)) % 8
        IN  /\ Moon!EightPhase(e) = eighths
            /\ Moon!LegacyPhase(e) \in {eighths, (eighths + 7) % 8}
            /\ Moon!Trend(e) = "waxing" <=> 0 < e /\ 2 * e < Circle
    BY <2>2, PhaseNames
  <2> QED  BY <2>3, <2>4 DEF e
<1>4. ASSUME reply = "ok", ask # "state"
      PROVE  /\ Moon!Reached(jd, Moon!PhaseAngle[ask])
             /\ 2 * Moon!Way <= Circle + 2 * Moon!Speed(course, jd)
             /\ Moon!EightPhase(Moon!Elongation(jd)) = Moon!PhaseAngle[ask] \div (Circle \div 8)
  BY <1>4, <1>i, <1>e, EventNamed DEF Asked, Told
<1>5. PhaseOK
  BY <1>3, <1>4 DEF PhaseOK, Moon!PhaseOK
<1>6. RefusedAtNewMoon
  <2> SUFFICES ASSUME reply = "500", NewMoonSoon
               PROVE  \E u \in instant .. instant + Tolerance : Moon!Reached(u, 0)
    BY <1>i DEF Told, RefusedAtNewMoon
  <2> QED  BY <1>e, NewMoonReached DEF NewMoonSoon
<1> QED  BY <1>2, <1>5, <1>6

(* The half of the endpoint that computes does so on its own.              *)
LEMMA HalfComputes == LunarSpec => Moon!Init /\ [][Moon!Next]_moonVars
<1>1. LunarInit => Moon!Init
  BY DEF LunarInit
<1>2. [LunarNext]_allVars => [Moon!Next]_moonVars
  BY DEF LunarNext, allVars
<1> QED  BY <1>1, <1>2, PTL DEF LunarSpec

(* The two new moons of an answer are real and follow each other, and the  *)
(* instant lies between them: no search ends up in another lunation.       *)
THEOREM LunationFound == LunarSpec => []LunationOK
<1> QED  BY MoonPromises, InitMoonInv, StepMoonInv, HalfComputes, PTL

(* The phase and the trend are those of the way gone since the last new    *)
(* moon; an event that is found is the one nearest by.                     *)
THEOREM PhaseNamed == LunarSpec => []PhaseOK
<1> QED  BY MoonPromises, InitMoonInv, StepMoonInv, HalfComputes, PTL

(* An instant is refused when a search runs out of rounds, or just before  *)
(* a new moon, and for nothing else.                                       *)
THEOREM RefusedOnlyThere == LunarSpec => []RefusedAtNewMoon
<1> QED  BY MoonPromises, InitMoonInv, StepMoonInv, HalfComputes, PTL
=============================================================================
