------------------------------ MODULE LocalTime ------------------------------
(***************************************************************************)
(* From a birth time as given to an instant (bazi_engine/time_utils.py):   *)
(* resolve_local_iso settles a wall time the clocks skipped or repeated,   *)
(* and the engine then parses the resolved wall time again with a fold     *)
(* (parse_local_iso, strict).  Some endpoints hand the raw time straight   *)
(* to the parser.                                                          *)
(*                                                                         *)
(* A zone is the one change of its UTC offset next to the birth: in the    *)
(* IANA data two changes never lie closer together than their jumps reach. *)
(* Times are integers in a unit that divides the minute.                   *)
(***************************************************************************)
EXTENDS Integers

CONSTANTS At,               \* instants at which a zone changes its offset
          Offset,           \* UTC offsets
          Naive,            \* wall times asked for
          Minute,           \* one minute
          MaxShift,         \* SHIFT_FORWARD_MAX_MINUTES (48 * 60 in the code)
          MinTime, MaxTime  \* what a datetime can hold, years 1 to 9999

ASSUME TimeAssumption ==
    /\ At \subseteq Int /\ Offset \subseteq Int /\ Naive \subseteq MinTime .. MaxTime
    /\ MinTime \in Int /\ MaxTime \in Int
    /\ Minute \in Nat \ {0} /\ MaxShift \in Nat \ {0}

Fold == {0, 1}
Caller == {"tst", "bazi", "webhook", "dayun"}  \* endpoint: who parses how; the state of
                                               \* the Moon is computed as a "tst" is

VARIABLES
    zone,     \* [at, before, after]
    naive, ambiguous, nonexistent, caller,
    pc,
    minutes,  \* minutes shifted so far
    wall, fold, status,  \* the resolved local time
    parsed    \* the fold with which the engine parsed wall

vars == <<zone, naive, ambiguous, nonexistent, caller, pc, minutes, wall, fold, status, parsed>>
request == <<zone, naive, ambiguous, nonexistent, caller>>

-----------------------------------------------------------------------------
(* zoneinfo.  Until the later of the two wall times of the change, fold 0  *)
(* reads the old offset; from the earlier one on, fold 1 reads the new.    *)
Later(z) == IF z.before > z.after THEN z.before ELSE z.after
Earlier(z) == IF z.before > z.after THEN z.after ELSE z.before
WallOffset(z, w, f) ==
    IF w < z.at + (IF f = 0 THEN Later(z) ELSE Earlier(z)) THEN z.before ELSE z.after
ToUtc(z, w, f) == w - WallOffset(z, w, f)
FromUtc(z, u) == u + (IF u < z.at THEN z.before ELSE z.after)

(* _roundtrip_ok, and the OverflowError of its two conversions.            *)
RoundTrip(z, w, f) == FromUtc(z, ToUtc(z, w, f)) = w
InRange(t) == MinTime <= t /\ t <= MaxTime
Overflows(z, w, f) == ~InRange(ToUtc(z, w, f)) \/ ~InRange(FromUtc(z, ToUtc(z, w, f)))

Init ==
    /\ zone \in [at : At, before : Offset, after : Offset]
    /\ naive \in Naive
    /\ ambiguous \in {"earlier", "later"} /\ nonexistent \in {"error", "shift_forward"}
    /\ caller \in Caller
    /\ pc = IF caller = "dayun" THEN "parse" ELSE "resolve"
    /\ minutes = 0 /\ wall = naive /\ fold = 0 /\ status = "none" /\ parsed = 0

ChosenFold == IF ambiguous = "earlier" THEN 0 ELSE 1

Refuse(code) == pc' = code /\ UNCHANGED <<request, minutes, wall, fold, status, parsed>>
Found(w, f, s) ==
    /\ wall' = w /\ fold' = f /\ status' = s
    /\ pc' = IF caller = "tst" THEN "answered" ELSE "parse"
    /\ UNCHANGED <<request, minutes, parsed>>

-----------------------------------------------------------------------------
(* resolve_local_iso                                                       *)
ResolveOutOfRange ==
    /\ pc = "resolve" /\ \E f \in Fold : Overflows(zone, naive, f)
    /\ Refuse("422")

Nonexistent == \A f \in Fold : ~RoundTrip(zone, naive, f)
Ambiguous ==
    /\ \A f \in Fold : RoundTrip(zone, naive, f)
    /\ WallOffset(zone, naive, 0) # WallOffset(zone, naive, 1)

Exists == \A f \in Fold : ~Overflows(zone, naive, f)

ResolveExisting ==
    /\ pc = "resolve" /\ Exists /\ ~Nonexistent
    /\ Found(naive, ChosenFold, IF Ambiguous THEN "ambiguous" ELSE "ok")

ResolveError ==
    /\ pc = "resolve" /\ Exists /\ Nonexistent /\ nonexistent = "error"
    /\ Refuse("422")

StartShift ==
    /\ pc = "resolve" /\ Exists /\ Nonexistent /\ nonexistent = "shift_forward"
    /\ pc' = "shift" /\ minutes' = 1
    /\ UNCHANGED <<request, wall, fold, status, parsed>>

(* One candidate of the loop; fold 1 is tried only when fold 0 fails.      *)
Candidate == naive + minutes * Minute
CandidateOverflows ==
    \/ ~InRange(Candidate)
    \/ Overflows(zone, Candidate, 0)
    \/ ~RoundTrip(zone, Candidate, 0) /\ Overflows(zone, Candidate, 1)

ShiftOutOfRange ==
    /\ pc = "shift" /\ minutes <= MaxShift /\ CandidateOverflows
    /\ Refuse("422")

ShiftFoundLate ==          \* one more step after the first valid candidate
    /\ pc = "shift" /\ minutes <= MaxShift /\ ~CandidateOverflows
    /\ \E f \in Fold : RoundTrip(zone, Candidate, f)
    /\ Found(Candidate + Minute, 0, "nonexistent_shifted")

ShiftFound ==
    /\ pc = "shift" /\ minutes <= MaxShift /\ ~CandidateOverflows
    /\ \E f \in Fold : RoundTrip(zone, Candidate, f)
    /\ Found(Candidate, 0, "nonexistent_shifted")

ShiftOn ==
    /\ pc = "shift" /\ minutes <= MaxShift /\ ~CandidateOverflows
    /\ \A f \in Fold : ~RoundTrip(zone, Candidate, f)
    /\ minutes' = minutes + 1
    /\ UNCHANGED <<request, pc, wall, fold, status, parsed>>

ShiftGivesUp ==
    /\ pc = "shift" /\ minutes > MaxShift
    /\ Refuse("422")

-----------------------------------------------------------------------------
(* The fold of the second parse: /calculate/bazi and its siblings take it  *)
(* from the policy, the webhook from the resolution; /calculate/bazi/dayun *)
(* does not resolve and takes 0.                                           *)
FoldDropped == 0
ParseFold ==
    CASE caller = "bazi" -> ChosenFold
      [] caller = "webhook" -> fold
      [] OTHER -> 0

ParseOverflows ==      \* OverflowError, which parse_local_iso does not catch
    /\ pc = "parse" /\ Overflows(zone, wall, ParseFold)
    /\ Refuse("500")

Parse ==
    /\ pc = "parse" /\ ~Overflows(zone, wall, ParseFold)
    /\ RoundTrip(zone, wall, ParseFold)
    /\ parsed' = ParseFold
    /\ pc' = "answered"
    /\ UNCHANGED <<request, minutes, wall, fold, status>>

ParseRefuses ==
    /\ pc = "parse" /\ ~Overflows(zone, wall, ParseFold)
    /\ ~RoundTrip(zone, wall, ParseFold)
    /\ Refuse("422")

Next ==
    \/ ResolveOutOfRange \/ ResolveExisting \/ ResolveError \/ StartShift
    \/ ShiftOutOfRange \/ ShiftFound \/ ShiftOn \/ ShiftGivesUp
    \/ ParseOverflows \/ Parse \/ ParseRefuses

Spec == Init /\ [][Next]_vars

-----------------------------------------------------------------------------
(* The request does not leave its domains, the loop not its range.         *)
TypeOK ==
    /\ zone \in [at : Int, before : Int, after : Int]
    /\ naive \in Int /\ wall \in Int
    /\ ambiguous \in {"earlier", "later"} /\ nonexistent \in {"error", "shift_forward"}
    /\ caller \in Caller
    /\ pc \in {"resolve", "shift", "parse", "answered", "422", "500"}
    /\ minutes \in 0 .. MaxShift + 1
    /\ fold \in Fold /\ parsed \in Fold
    /\ status \in {"none", "ok", "ambiguous", "nonexistent_shifted"}

Resolved == status # "none"

(* A resolved wall time exists: its instant shows exactly that time on     *)
(* the clocks of the zone.                                                 *)
ResolvedExists == Resolved => RoundTrip(zone, wall, fold)

(* The answer is the one the policy asked for.  A time that existed is     *)
(* left alone, "earlier" and "later" naming the earlier and the later of   *)
(* its instants; a skipped one becomes the first time that exists on the   *)
(* caller's grid of whole minutes.                                         *)
FirstThatExists ==
    /\ wall = naive + minutes * Minute
    /\ \A m \in 0 .. minutes - 1 : \A f \in Fold :
          ~RoundTrip(zone, naive + m * Minute, f)
PolicyHonoured ==
    /\ status \in {"ok", "ambiguous"} => wall = naive
    /\ status = "nonexistent_shifted" => FirstThatExists
    /\ status = "ambiguous" =>
          LET other == ToUtc(zone, wall, 1 - fold)
          IN  IF ambiguous = "earlier" THEN ToUtc(zone, wall, fold) < other
                                       ELSE ToUtc(zone, wall, fold) > other

(* What was resolved is never refused afterwards.                          *)
ResolvedIsAnswered == Resolved => pc \in {"parse", "answered"}

(* So a resolved time exists, is answered, and as the policy asks.         *)
PolicyKept == ResolvedExists /\ PolicyHonoured /\ ResolvedIsAnswered

(* The engine computes for the instant that was resolved, whichever of the *)
(* three ways its endpoint passes the fold on: also when a shifted time    *)
(* was resolved with fold 0 and is parsed with the fold of the policy.     *)
SameInstant ==
    pc = "answered" /\ caller \in {"bazi", "webhook"} =>
        ToUtc(zone, wall, parsed) = ToUtc(zone, wall, fold)

(* "It is caller input, so it is a 422" (time_utils.py:100).               *)
OutOfRangeIs422 == pc # "500"
=============================================================================
