---------------------------- MODULE InstantOfMoon ----------------------------
(***************************************************************************)
(* What POST /v2/astronomy/lunar-state does: it resolves a local time      *)
(* (module LocalTime) and computes the state of the Moon for the instant   *)
(* (LunarState).  The second knows nothing of the first but the instant,   *)
(* so a behaviour goes through one of them and leaves the other as it      *)
(* starts.                                                                 *)
(***************************************************************************)
EXTENDS LocalTime

CONSTANTS Course, Angle(_, _), Slowest, Fastest, Circle, Tolerance, Synodic, Shortest, Longest,
          MaxRounds, SupportedFrom, SupportedTo, Instants

VARIABLES
    resolving,      \* which of the two goes on
    course, instant, ask, moonPc, sought, jd, rounds, lastNew, nextNew, reply

moonVars == <<course, instant, ask, moonPc, sought, jd, rounds, lastNew, nextNew, reply>>
allVars == <<resolving, vars, moonVars>>

Moon == INSTANCE LunarState WITH pc <- moonPc

ASSUME MoonAssumption == Moon!CourseOK

(* The first request of one of the two stands for all of them while the    *)
(* other goes on.                                                          *)
Some(S) == CHOOSE x \in S : TRUE
LunarInit ==
    /\ resolving \in BOOLEAN
    /\ IF resolving
          THEN course = Some(Course) /\ instant = Some(Instants) /\ ask = "state"
          ELSE /\ zone = [at |-> Some(At), before |-> Some(Offset), after |-> Some(Offset)]
               /\ naive = Some(Naive) /\ caller = "tst"
               /\ ambiguous = "earlier" /\ nonexistent = "error"
    /\ Init /\ Moon!Init

LunarNext ==
    \/ resolving /\ Next /\ UNCHANGED <<resolving, moonVars>>
    \/ ~resolving /\ Moon!Next /\ UNCHANGED <<resolving, vars>>

LunarSpec == LunarInit /\ [][LunarNext]_allVars

-----------------------------------------------------------------------------
LunationOK == Moon!LunationOK
RefusalOK == Moon!RefusalOK
PhaseOK == Moon!PhaseOK

(* "should never be triggered by normal user input" (exc.py, lines 71 and  *)
(* 72, of a numerical computation that fails).                             *)
NeverFails == Moon!NeverFails
=============================================================================
