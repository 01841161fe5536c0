------------------------------- MODULE Births -------------------------------
(***************************************************************************)
(* What the calculation endpoints share: a birth, the instant its wall     *)
(* time is resolved to, the four pillars and the western sky of that       *)
(* instant, and the status an exception becomes.                           *)
(*                                                                         *)
(* Times are minutes as in module BaziDay, which computes day and hour.    *)
(***************************************************************************)
EXTENDS PairAnalysis, Fusion

CONSTANT Epoch          \* Julian day of the first midnight

Planets == {"Sun", "Moon", "Mercury", "Venus", "Mars", "Jupiter", "Saturn", "Uranus",
            "Neptune", "Pluto", "Chiron", "Lilith", "NorthNode", "TrueNorthNode"}
SignWidth == 30000      \* thousandths of a degree
BirthType == [wall : Int,                  \* the time given
              place : [at : Int, before : Int, after : Int, longitude : Int, equation : Int],
              civilYear : Int, newYear : Int, liChun : Int,   \* its first day and spring
              sun : [term : 0 .. 23, turns : Int],
              bodies : [Planets -> [sign : -1 .. 11, turns : Int, degree : 0 .. SignWidth - 1]],
              ascendant : [sign : 0 .. 11, turns : Int, degree : 0 .. SignWidth - 1],
              houses : {"placidus", "porphyry", "whole_sign", "none"}]

Engine(u, p, s, b) == INSTANCE BaziDay WITH
    Place <- {p}, Births <- {u}, Step <- 1,
    instant <- u, place <- p, standard <- s, boundary <- b, ruleset <- TRUE

Raised(error) == [error |-> error]
Returned(value) == [error |-> "none", value |-> value]
Fails(r) == r.error # "none"
Then(r, Continue(_)) == IF Fails(r) THEN r ELSE Continue(r.value)

(***************************************************************************)
(* The ephemeris a request meets: the mode configured, "SWIEPH" or         *)
(* "MOSEPH", and what is lost of it.  A request builds a backend anew for  *)
(* each use it has of the ephemeris, and each finds the files or finds     *)
(* them missing on its own.  A use is the BaZi chart, that of the other    *)
(* person, the western chart, the mode shown, the chronometry frame, the   *)
(* day's planets, what they are to the birth, or the solar term of a day.  *)
(***************************************************************************)
Uses == {"bazi", "other", "western", "mode", "frame", "transit", "impact", "term"}
Ephemeris == [mode : {"SWIEPH", "MOSEPH"}, lost : SUBSET Uses]
Found(eph, use) == IF use \in eph.lost THEN "missing" ELSE eph.mode
Attest(eph) == IF eph = "missing" THEN Raised("EphemerisUnavailableError") ELSE Returned(eph)

(***************************************************************************)
(* A request, its defaults, and what becomes of a wall time.               *)
(***************************************************************************)
Requests == [standard : {"CIVIL", "LMT", "TLST"}, boundary : {"midnight", "zi"},
             ambiguous : {"earlier", "later"}, nonexistent : {"error", "shift_forward"},
             timeKnown : BOOLEAN]
Defaults == [standard |-> "TLST", boundary |-> "midnight", ambiguous |-> "earlier",
             nonexistent |-> "error", timeKnown |-> TRUE]

CivilAt(place, u) == u + (IF u < place.at THEN place.before ELSE place.after)
Instants(place, wall) ==
    {u \in {wall - place.before, wall - place.after} : CivilAt(place, u) = wall}
FoldAsked(asked) == IF asked.ambiguous = "earlier" THEN 0 ELSE 1
Reading(place, wall, fold) ==
    CHOOSE u \in Instants(place, wall) :
        \A v \in Instants(place, wall) : IF fold = 0 THEN u <= v ELSE v <= u

Resolution(wall, at, fold, status) ==
    Returned([wall |-> wall, at |-> at, fold |-> fold, status |-> status])
Resolve(b, asked) ==
    LET place == b.place
        wall == b.wall
        fold == FoldAsked(asked)
    IN  CASE Cardinality(Instants(place, wall)) = 1 ->
                 Resolution(wall, Reading(place, wall, fold), fold, "ok")
          [] Cardinality(Instants(place, wall)) = 2 ->
                 Resolution(wall, Reading(place, wall, fold), fold, "ambiguous")
          [] Instants(place, wall) = {} /\ asked.nonexistent = "shift_forward" ->
                 Resolution(CivilAt(place, place.at), place.at, 0, "nonexistent_shifted")
          [] Instants(place, wall) = {} /\ asked.nonexistent = "error" ->
                 Raised("LocalTimeError")

(***************************************************************************)
(* The four pillars of a wall time, which the engine reads with a fold.    *)
(***************************************************************************)
TermAt(b, u) == (IF u < b.sun.turns THEN b.sun.term ELSE b.sun.term + 1) % 24
LiChunTerm == 21
MonthAt(b, u) == ((TermAt(b, u) - LiChunTerm) % 24) \div 2
BeforeLiChun(b, u) == u < b.liChun
SolarYear(b, u) == IF BeforeLiChun(b, u) THEN b.civilYear - 1 ELSE b.civilYear
Chart(b, u, standard, boundary) ==
    LET year == YearPillar(SolarYear(b, u))
    IN  << year, MonthPillar(TRUE, year.stem, MonthAt(b, u)),
           Engine(u, b.place, standard, boundary)!Day,
           Engine(u, b.place, standard, boundary)!HourOfBirth >>
ComputeBazi(b, wall, fold, standard, boundary, eph) ==
    LET ChartAt(u) == [at |-> u, chart |-> Chart(b, u, standard, boundary),
                       year |-> SolarYear(b, u), before |-> BeforeLiChun(b, u)]
    IN  IF Instants(b.place, wall) = {} THEN Raised("LocalTimeError")
        ELSE IF eph = "missing" THEN Raised("EphemerisUnavailableError")
        ELSE Returned(ChartAt(Reading(b.place, wall, fold)))

(* Resolve, then parse the resolved time again.                            *)
BaziOfFirst(b, asked, boundary, eph) ==
    Then(Resolve(b, asked), LAMBDA time :
         ComputeBazi(b, time.wall, 0, asked.standard, boundary, eph))
BaziOf(b, asked, boundary, eph) ==
    Then(Resolve(b, asked), LAMBDA time :
         ComputeBazi(b, time.wall, FoldAsked(asked), asked.standard, boundary, eph))

(***************************************************************************)
(* The western chart of an instant.  Bodies change their sign at a moment  *)
(* of their own; a body that cannot be computed is reported as an error    *)
(* and not as a failure of the chart, and the house systems are tried in   *)
(* their order.                                                            *)
(***************************************************************************)
SignAt(body, u) ==
    IF body.sign = Failed \/ u < body.turns THEN body.sign ELSE (body.sign + 1) % 12
BodiesAt(b, u) ==
    Tabulated([body \in DOMAIN b.bodies |-> SignAt(b.bodies[body], u)])
(* Where the bodies and the houses are, in thousandths of a degree.        *)
LongitudeAt(body, u) ==
    IF SignAt(body, u) = Failed THEN Failed ELSE SignWidth * SignAt(body, u) + body.degree
Longitudes(b, u) == Tabulated([body \in DOMAIN b.bodies |-> LongitudeAt(b.bodies[body], u)])
Cusps(b, u) ==
    Tabulated([i \in 1 .. 12 |->
        (LongitudeAt(b.ascendant, u) + SignWidth * (i - 1)) % (12 * SignWidth)])
HouseQuality(system, eph) ==
    [requested |-> "placidus", used |-> system, fallback |-> system # "placidus",
     mode |-> eph]
Western(b, u, eph) ==
    IF eph = "missing" THEN Raised("EphemerisUnavailableError")
    ELSE IF b.houses = "none" THEN Raised("RuntimeError")
    ELSE Returned([bodies |-> BodiesAt(b, u), ascendant |-> SignAt(b.ascendant, u),
                   quality |-> HouseQuality(b.houses, eph)])
WesternOf(b, asked, eph) ==
    Then(Resolve(b, asked), LAMBDA time : Western(b, time.at, eph))

(* The solar clock of an instant needs no ephemeris.                       *)
SolarTime(b, u) ==
    LET civil == CivilAt(b.place, u)
        solar == u + b.place.longitude + b.place.equation
    IN  [civil |-> civil % 1440, solar |-> solar % 1440,
         rollover |-> (solar \div 1440) - (civil \div 1440)]

(***************************************************************************)
(* What a client sees: a status, and a body or an error.                   *)
(***************************************************************************)
InputErrors == {"InputError", "LocalTimeError"}
StatusOfAnyError(error) ==
    IF error \in InputErrors \cup {"EphemerisUnavailableError"} THEN 422 ELSE 500
StatusOf(error) ==
    IF error \in InputErrors THEN 422
    ELSE IF error = "EphemerisUnavailableError" THEN 503 ELSE 500
Refused(status, error) == [status |-> status, error |-> error]
Failure(r) == Refused(StatusOf(r.error), r.error)
Answer(body) == [status |-> 200, body |-> body]
Respond(r, Reply(_)) == IF Fails(r) THEN Failure(r) ELSE Reply(r.value)

(* The framework checks a body against the response model.                 *)
Served(body, model) ==
    IF body \in model THEN Answer(body) ELSE Refused(500, "ResponseValidationError")

Provisional(asked, fields) == IF asked.timeKnown THEN {} ELSE fields
=============================================================================
