------------------------------- MODULE Prompts -------------------------------
(***************************************************************************)
(* The endpoints that prepare a birth for another program: the chronometry *)
(* frame (chronometry.py), the variables of a prompt (personalize.py) and  *)
(* the chart a voice agent asks for by webhook (webhooks.py).              *)
(***************************************************************************)
EXTENDS Calculators

CONSTANT Berlin         \* the place of a caller that names none

(***************************************************************************)
(* Chronometry.  A date without a time is resolved at midnight and reports *)
(* no solar time, like a birth whose time is said to be unknown.           *)
(***************************************************************************)
Midnight(b) == [b EXCEPT !.wall = b.wall - (b.wall % 1440)]
Noon(b) == [b EXCEPT !.wall = b.wall - (b.wall % 1440) + 720]

GradeByEphemeris(known, eph) ==
    IF eph = "MOSEPH" THEN "degraded" ELSE IF ~known THEN "unknown_time" ELSE "exact"
Grade(known, eph) ==
    IF ~known THEN "unknown_time" ELSE IF eph = "MOSEPH" THEN "degraded" ELSE "exact"
BoundaryFlags(b, u) ==
    [before |-> BeforeLiChun(b, u), near |-> Magnitude(u - b.liChun) <= 1440]
ResolveChronometry(b, asked, dateOnly, eph) ==
    LET given == IF dateOnly THEN Midnight(b) ELSE b
        known == asked.timeKnown /\ ~dateOnly
        Frame(u, clock) ==
            [at |-> u, date |-> Epoch + (CivilAt(b.place, u) \div 1440),
             solar |-> IF known THEN {clock.solar} ELSE {},
             rollover |-> IF known THEN {clock.rollover} ELSE {},
             term |-> TermAt(given, u), flags |-> BoundaryFlags(given, u),
             grade |-> Grade(known, eph)]
    IN  Then(Resolve(given, asked), LAMBDA time :
             IF eph = "missing" THEN Raised("EphemerisUnavailableError")
             ELSE Returned(Frame(time.at, SolarTime(given, time.at))))
ChronometryModel ==
    [at : Int, date : Int, solar : SUBSET (0 .. 1439), rollover : SUBSET (-2 .. 1),
     term : 0 .. 23, flags : [before : BOOLEAN, near : BOOLEAN],
     grade : {"exact", "degraded", "unknown_time", "unresolved"}]
Chronometry(b, asked, dateOnly, eph) ==
    Respond(ResolveChronometry(b, asked, dateOnly, Found(eph, "frame")),
            LAMBDA frame : Served(frame, ChronometryModel))

(***************************************************************************)
(* Personalize.  The request names a place or gives coordinates; a place   *)
(* is looked up.  A variable whose source is missing is null and reported. *)
(***************************************************************************)
Locations == {"coordinates", "found", "unreachable", "unknown", "unclear"}
ResolveLocation(location) ==
    CASE location = "unreachable" -> Refused(503, "geocoding_unavailable")
      [] location = "unknown" -> Refused(404, "place_not_found")
      [] location = "unclear" -> Refused(422, "ambiguous_place")
      [] OTHER -> Answer(location)
PersonalizeAsks(timeKnown) == [Defaults EXCEPT !.timeKnown = timeKnown]

AnchorOf(trace) == IF "day" \in DOMAIN trace THEN {"unverified"} ELSE {}
PromptVariables(bazi, wuxing) ==
    [animal |-> {bazi.pillars[1].branch}, element |-> {bazi.pillars[1].phase},
     birthYear |-> {bazi.year}, dominant |-> {wuxing.dominant},
     anchor |-> AnchorOf(bazi.trace)]
Issues(variables) == {v \in DOMAIN variables : variables[v] = {}}

Personalize(b, timeKnown, location, eph) ==
    LET asked == PersonalizeAsks(timeKnown)
        Body(variables, trace, frame) ==
            [variables |-> variables, issues |-> Issues(variables), trace |-> trace,
             chronometry |-> frame]
    IN  IF ResolveLocation(location).status # 200 THEN ResolveLocation(location)
        ELSE Respond(BaziResponse(b, asked, TRUE, eph), LAMBDA bazi :
                 RespondOrUnavailable(WuXingOf(b, asked, Found(eph, "western")), LAMBDA wuxing :
                     Respond(ResolveChronometry(b, asked, FALSE, Found(eph, "frame")),
                         LAMBDA frame :
                             Answer(Body(PromptVariables(bazi, wuxing), bazi.trace, frame)))))

(***************************************************************************)
(* The webhook.  It is refused before it is read when the service has no   *)
(* secret or the caller no proof of it.                                    *)
(***************************************************************************)
Hooks == [configured : BOOLEAN, authentic : BOOLEAN, wellFormed : BOOLEAN,
          place : {"given", "found", "unfound", "none"}, timeGiven : BOOLEAN]
HookRefusal(hook) ==
    IF ~hook.configured THEN Refused(503, "service_unavailable")
    ELSE IF ~hook.authentic THEN Refused(401, "unauthorized")
    ELSE IF ~hook.wellFormed THEN Refused(400, "invalid_request")
    ELSE IF hook.place = "unfound" THEN Refused(400, "geocoding_failed")
    ELSE Answer("accepted")
HookBirth(b, hook) ==
    LET placed == IF hook.place = "none" THEN [b EXCEPT !.place = Berlin] ELSE b
    IN  IF hook.timeGiven THEN placed ELSE Noon(placed)

Text(value) == [text |-> value]
Number(value) == [number |-> value]
VoiceSummary(fusion) ==
    [index |-> Number(fusion.calibration.calibrated), raw |-> Number(fusion.calibration.raw),
     band |-> Text(fusion.calibration.band)]
HookFusion(fusion) ==
    [harmonyIndex |-> VoiceSummary(fusion).index, harmonyIndexRaw |-> VoiceSummary(fusion).raw,
     harmonyInterpretation |-> VoiceSummary(fusion).band,
     cosmicState |-> Number(fusion.harmony), interpretation |-> Text("interpretation"),
     westernDominantElement |-> Dominant(fusion.west),
     baziDominantElement |-> Dominant(fusion.bazi)]
HookFusionModel ==
    [harmonyIndex : [number : Nat], harmonyIndexRaw : [number : Nat],
     harmonyInterpretation : [text : STRING], cosmicState : [text : STRING],
     interpretation : [mapping : {"interpretation"}],
     westernDominantElement : Phases, baziDominantElement : Phases]
HookWestern(sky) ==
    [sun |-> Positions(sky.bodies)["Sun"], moon |-> Positions(sky.bodies)["Moon"],
     ascendant |-> sky.ascendant]
WebhookModel ==
    [western : [sun : 0 .. 11, moon : 0 .. 11, ascendant : 0 .. 11],
     eastern : Seq([stem : 0 .. 9, branch : 0 .. 11, phase : Phases]),
     fusion : HookFusionModel, assumed : BOOLEAN,
     status : {"ok", "ambiguous", "nonexistent_shifted"}]

(* The fusion is computed without the ascendant.                           *)
HookChart(b, asked, assumed, eph) ==
    LET Body(time, sky, bazi, fusion) ==
            [western |-> HookWestern(sky), eastern |-> Shown(bazi.chart),
             fusion |-> HookFusion(fusion), assumed |-> assumed, status |-> time.status]
        At(time) ==
            Respond(Western(b, time.at, Found(eph, "western")), LAMBDA sky :
                Respond(ComputeBazi(b, time.wall, time.fold, "TLST", "midnight",
                                    Found(eph, "bazi")),
                    LAMBDA bazi :
                        Served(Body(time, sky, bazi,
                                    FusionOf(sky.bodies, Failed, bazi.chart, FALSE).value),
                               WebhookModel)))
    IN  IF Fails(Resolve(b, asked)) THEN Refused(422, "invalid_local_time")
        ELSE At(Resolve(b, asked).value)
Webhook(b, asked, hook, eph) ==
    IF HookRefusal(hook).status # 200 THEN HookRefusal(hook)
    ELSE HookChart(HookBirth(b, hook), asked, ~hook.timeGiven, eph)
=============================================================================
