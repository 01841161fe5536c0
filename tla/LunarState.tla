----------------------------- MODULE LunarState -----------------------------
(***************************************************************************)
(* POST /v2/astronomy/lunar-state (bazi_engine/lunar_state.py): the phase  *)
(* of the Moon at an instant and the two new moons around it, and the      *)
(* instant of a phase near a given one (find_lunar_phase_event_utc).       *)
(*                                                                         *)
(* A new moon is searched by Newton's method: the angle still to go over   *)
(* the speed of the moment.  Instants are multiples of the second within   *)
(* which the code takes two for equal, Tolerance; a correction too small   *)
(* to be one is none.  Angles are parts of a Circle.                       *)
(***************************************************************************)
EXTENDS Integers

CONSTANTS Course,              \* ways the Moon may run
          Angle(_, _),         \* how far it is ahead of the Sun, turns included
          Slowest, Fastest,    \* how far it gets ahead from one instant to the next
          Circle, Tolerance,
          Synodic,             \* 29.530588 days
          Shortest, Longest,   \* 20 and 40 days
          MaxRounds,           \* 15
          SupportedFrom, SupportedTo,
          Instants             \* asked about

Speed(c, u) == Angle(c, u + 1) - Angle(c, u)

(* The Moon gains 10.7 to 14.5 degrees a day on the Sun, and a month is    *)
(* many instants long.                                                     *)
Around == SupportedFrom - 6 * Synodic .. SupportedTo + 6 * Synodic
CourseOK ==
    /\ \A c \in Course : \A u \in Around :
          Angle(c, u) \in Int /\ Slowest <= Speed(c, u) /\ Speed(c, u) <= Fastest
    /\ Slowest \in Nat \ {0} /\ Fastest \in Nat /\ Slowest <= Fastest /\ 5 * Fastest <= 7 * Slowest
    /\ Circle \in Nat /\ Circle % 16 = 0 /\ 100 * Fastest <= Circle
    /\ Synodic \in Nat /\ 3 * Circle <= 4 * Slowest * Synodic /\ 4 * Fastest * Synodic <= 5 * Circle
    /\ Shortest \in Nat /\ (Shortest + 2) * Fastest <= Circle
    /\ Longest \in Nat /\ Circle + Fastest < Slowest * Longest
    /\ (Longest + 1) * Fastest <= 2 * Circle
    /\ Tolerance \in Nat /\ MaxRounds \in Nat \ {0}
    /\ SupportedFrom \in Int /\ SupportedTo \in Int /\ Instants \subseteq Int

PhaseAngle == [new_moon |-> 0, first_quarter |-> Circle \div 4, full_moon |-> Circle \div 2,
               last_quarter |-> 3 * (Circle \div 4)]
Asks == {"state"} \cup DOMAIN PhaseAngle

VARIABLES
    course, instant, ask,
    pc, sought,          \* what the search is for
    jd, rounds,          \* where it is, and after how many corrections
    lastNew, nextNew,    \* new moons around the instant
    reply

vars == <<course, instant, ask, pc, sought, jd, rounds, lastNew, nextNew, reply>>
request == <<course, instant, ask>>

Init ==
    /\ course \in Course /\ instant \in Instants /\ ask \in Asks
    /\ pc = "validate" /\ sought = "none" /\ jd = instant /\ rounds = 0
    /\ lastNew = instant /\ nextNew = instant /\ reply = "none"

Reply(code) == pc' = "done" /\ reply' = code
Supported(u) == SupportedFrom <= u /\ u < SupportedTo

(* norm360, wrap180, and a / b to the nearest.                             *)
Elongation(u) == Angle(course, u) % Circle
Wrap(a) == ((a + Circle \div 2) % Circle) - Circle \div 2
Quotient(a, b) == (2 * a + b) \div (2 * b)

-----------------------------------------------------------------------------
(* classify_eight_phase, by the nearest of eight centres; the trend; and   *)
(* the buckets of phases/lunar_phase.py, which start where those have      *)
(* their centres.                                                          *)
EightPhaseByStart(e) == e \div (Circle \div 8)
EightPhase(e) == ((e + Circle \div 16) % Circle) \div (Circle \div 8)
Trend(e) ==
    IF 0 < e /\ 2 * e < Circle THEN "waxing" ELSE IF 2 * e > Circle THEN "waning" ELSE "turning"
LegacyPhase(e) == e \div (Circle \div 8)

-----------------------------------------------------------------------------
Seek(what, guess) ==
    /\ sought' = what /\ jd' = guess /\ rounds' = 0 /\ pc' = "refine"
    /\ UNCHANGED reply

Validate ==
    /\ pc = "validate"
    /\ IF ~Supported(instant) THEN Reply("422") /\ UNCHANGED <<sought, jd, rounds>>
       ELSE IF ask = "state" THEN
            Seek("previous", instant - Quotient(Elongation(instant), Speed(course, instant)))
       ELSE Seek("event", instant)
    /\ UNCHANGED <<request, lastNew, nextNew>>

(* The library gives no position: the ephemeris is not attested (module    *)
(* Ephemeris says when), or swe.Error becomes a CalculationError.  That is *)
(* a 500 too, told apart here from one of the search.                      *)
Unavailable ==
    /\ pc \in {"validate", "refine"} /\ Supported(instant)
    /\ \/ Reply("503") \/ Reply("500 of the library")
    /\ UNCHANGED <<request, sought, jd, rounds, lastNew, nextNew>>

(* One round of _refine_phase_event; what is left when it converges passes *)
(* its residual check.                                                     *)
Target == IF sought = "event" THEN PhaseAngle[ask] ELSE 0
CorrectionUnwrapped == Quotient((Elongation(jd) - Target) % Circle, Speed(course, jd))
Correction == Quotient(Wrap(Elongation(jd) - Target), Speed(course, jd))
Refine ==
    /\ pc = "refine"
    /\ jd' = jd - Correction /\ rounds' = rounds + 1
    /\ IF Correction = 0 THEN pc' = "found" /\ UNCHANGED reply
       ELSE IF rounds' = MaxRounds THEN Reply("500")
       ELSE UNCHANGED <<pc, reply>>
    /\ UNCHANGED <<request, sought, lastNew, nextNew>>

(* _lunation_metrics: the new moon before, the one after, and each again a *)
(* mean lunation further if it is on the wrong side.                       *)
Arc == Circle - Elongation(instant)
FoundPrevious ==
    /\ pc = "found" /\ sought = "previous"
    /\ lastNew' = jd
    /\ Seek("next", instant + Quotient(Arc, Speed(course, instant)))
    /\ UNCHANGED <<request, nextNew>>
FoundNext ==
    /\ pc = "found" /\ sought = "next"
    /\ nextNew' = jd
    /\ IF lastNew > instant + Tolerance
          THEN Seek("earlier", lastNew - Synodic)
          ELSE pc' = "later" /\ UNCHANGED <<sought, jd, rounds, reply>>
    /\ UNCHANGED <<request, lastNew>>
FoundAgain ==
    /\ pc = "found" /\ sought \in {"earlier", "later"}
    /\ lastNew' = IF sought = "earlier" THEN jd ELSE lastNew
    /\ nextNew' = IF sought = "later" THEN jd ELSE nextNew
    /\ pc' = IF sought = "earlier" THEN "later" ELSE "measure"
    /\ UNCHANGED <<request, sought, jd, rounds, reply>>
Later ==
    /\ pc = "later"
    /\ IF nextNew <= instant + Tolerance
          THEN Seek("later", nextNew + Synodic)
          ELSE pc' = "measure" /\ UNCHANGED <<sought, jd, rounds, reply>>
    /\ UNCHANGED <<request, lastNew, nextNew>>

Length == nextNew - lastNew
Age == IF lastNew > instant THEN 0 ELSE instant - lastNew
Measure ==
    /\ pc = "measure"
    /\ Reply(IF Shortest < Length /\ Length < Longest /\ Age <= Length + Tolerance
             THEN "ok" ELSE "500")
    /\ UNCHANGED <<request, sought, jd, rounds, lastNew, nextNew>>

FoundEvent ==
    /\ pc = "found" /\ sought = "event"
    /\ Reply(IF Supported(jd) THEN "ok" ELSE "422")
    /\ UNCHANGED <<request, sought, jd, rounds, lastNew, nextNew>>

Next ==
    \/ Validate \/ Unavailable \/ Refine
    \/ FoundPrevious \/ FoundNext \/ FoundAgain \/ Later \/ Measure \/ FoundEvent

Spec == Init /\ [][Next]_vars

-----------------------------------------------------------------------------
(* The Moon is at an angle, or is there between the instant before and the *)
(* one after; and the number of the turn it is nearest to.                 *)
Reached(u, angle) ==
    LET w == Wrap(Angle(course, u) - angle)
    IN  w <= Speed(course, u - 1) /\ -w <= Speed(course, u)
Turn(u) == (Angle(course, u) + Circle \div 2) \div Circle

(* The two new moons of an answer are real, with none between them, and    *)
(* the instant lies between them: however unevenly the Moon runs, no       *)
(* search ends up in another lunation.                                     *)
LunationOK ==
    reply = "ok" /\ ask = "state" =>
        /\ Reached(lastNew, 0) /\ Reached(nextNew, 0) /\ Turn(nextNew) = Turn(lastNew) + 1
        /\ lastNew <= instant /\ instant + Tolerance < nextNew

(* Only just before a new moon is there no answer.                         *)
RefusalOK == reply = "500" => \E u \in instant .. instant + Tolerance : Reached(u, 0)

(* The phase and the trend of an answer are those of the way gone since    *)
(* the new moon it names; an event that is found is the one nearest by,    *)
(* and is the middle of the phase that is named after it.  The older       *)
(* classification is one bucket behind or the same.                        *)
Gone == Angle(course, instant) - Circle * Turn(lastNew)
Way ==
    LET a == Angle(course, jd) - Angle(course, instant) IN IF a < 0 THEN -a ELSE a
PhaseOK ==
    /\ reply = "ok" /\ ask = "state" =>
          LET e == Elongation(instant)
              eighths == ((16 * Gone + Circle) \div (2 * Circle)) % 8
          IN  /\ EightPhase(e) = eighths
              /\ LegacyPhase(e) \in {eighths, (eighths + 7) % 8}
              /\ Trend(e) = "waxing" <=> 0 < Gone /\ 2 * Gone < Circle
    /\ reply = "ok" /\ ask # "state" =>
          /\ Reached(jd, PhaseAngle[ask])
          /\ 2 * Way <= Circle + 2 * Speed(course, jd)
          /\ EightPhase(Elongation(jd)) = PhaseAngle[ask] \div (Circle \div 8)

(* "should never be triggered by normal user input" (exc.py, lines 71 and  *)
(* 72, of the failure of a numerical computation).                         *)
NeverFails == reply # "500"
=============================================================================
