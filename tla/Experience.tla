----------------------------- MODULE Experience -----------------------------
(***************************************************************************)
(* The endpoints of an app (routers/experience.py and services/): the      *)
(* profile of a birth, its signature, the signature after a question of a  *)
(* quiz, and the reading of a day.                                         *)
(*                                                                         *)
(* Sectors and visual parameters count ten thousandths.                    *)
(***************************************************************************)
EXTENDS Impact

CONSTANT Affinity       \* keyword of the quiz -> weights of the twelve sectors

Sectors == 0 .. 11
One == 10000

(***************************************************************************)
(* The profile.  Failures of the BaZi engine and of the western chart keep *)
(* their status; any other of the western chart is a computation error.    *)
(***************************************************************************)
ProfileHarmony(fusion) == fusion.calibration.calibrated
SignOr(bodies, body) == IF bodies[body] = Failed THEN 0 ELSE bodies[body]
AverageVector(fusion) ==
    LET west == Unit(Hundredths(fusion.west))
        bazi == Unit(fusion.bazi)
    IN  Tabulated([p \in Phases |-> (west[p] + bazi[p]) \div 2])
ComputationError(r) ==
    IF Fails(r) /\ r.error # "EphemerisUnavailableError" THEN Raised("computation_error") ELSE r
ProfileOf(bazi, sky, fusion) ==
    [at |-> bazi.at, dayMaster |-> bazi.chart[3].stem,
     sun |-> SignOr(sky.bodies, "Sun"), moon |-> SignOr(sky.bodies, "Moon"),
     ascendant |-> sky.ascendant,
     personal |-> {<<p, sky.bodies[p]>> :
                      p \in {"Mercury", "Venus", "Mars"} \cap Computed(sky.bodies)},
     vector |-> AverageVector(fusion), harmony |-> ProfileHarmony(fusion),
     quality |-> fusion.quality, houses |-> sky.quality]
Profile(b, eph) ==
    Then(BaziOfProfile(b, Found(eph, "bazi")), LAMBDA bazi :
        Then(ComputationError(Western(b, bazi.at, Found(eph, "western"))), LAMBDA sky :
            Then(ComputationError(FusionOf(sky.bodies, sky.ascendant, bazi.chart, TRUE)),
                LAMBDA fusion : Returned(ProfileOf(bazi, sky, fusion)))))

(* Each phase is spread over the signs in proportion to what the element   *)
(* of the sign gives it.                                                   *)
PhaseShare(p, sector, weight) ==
    (weight * Shares[1 + (sector % 4)][p + 1])
        \div (3 * SumFunction([e \in 1 .. 4 |-> Shares[e][p + 1]]))
Scaled(sectors) ==
    LET total == SumFunctionOnSet(sectors, Sectors)
    IN  Tabulated([s \in Sectors |-> (One * sectors[s]) \div total])
Soulprint(profile) ==
    LET At(sign, sector, weight) == IF sign = sector THEN weight ELSE 0
        raw == Tabulated([s \in Sectors |->
                    At(profile.sun, s, One) + At(profile.moon, s, 8000)
                    + At(profile.ascendant, s, 6000)
                    + SumFunction([p \in profile.personal |-> At(p[2], s, 4000)])
                    + SumFunction([p \in Phases |-> PhaseShare(p, s, 100 * profile.vector[p])])])
    IN  Scaled(raw)

(***************************************************************************)
(* The signature: visual parameters of sectors, phases and harmony.        *)
(***************************************************************************)
Within(value, low, high) == IF value < low THEN low ELSE IF value > high THEN high ELSE value
TopThree(sectors) ==
    Max({sectors[t[1]] + sectors[t[2]] + sectors[t[3]] :
            t \in {u \in Sectors \X Sectors \X Sectors : u[1] < u[2] /\ u[2] < u[3]}})
Blueprint(sectors, vector, harmony) ==
    LET total == SumFunctionOnSet(sectors, Sectors)
        mean == total \div 12
        variance == SumFunction([s \in Sectors |-> (sectors[s] - mean) * (sectors[s] - mean)]) \div 12
    IN  [visual |->
            [symmetry |-> Within(One - 10 * Root(variance), 0, One),
             curvature |-> Within(100 * (vector[4] + vector[0]), 0, One),
             angularity |-> Within(100 * (vector[3] + vector[1]), 0, One),
             density |-> Within((One * TopThree(sectors)) \div total, 0, One),
             contrast |-> Within(Max(Range(sectors)) - Min(Range(sectors)), 0, One),
             orbits |-> Within((5 * harmony + 999) \div 1000 + 1, 2, 5)],
         elements |-> vector]
IsBlueprint(signature) ==
    /\ \A name \in DOMAIN signature.visual \ {"orbits"} : signature.visual[name] \in 0 .. One
    /\ signature.visual.orbits \in 1 .. 7
IsSectors(sectors) == \A s \in Sectors : sectors[s] \in 0 .. One

Bootstrap(b, eph) ==
    LET Body(profile, soulprint, signature) ==
            [sun |-> profile.sun, moon |-> profile.moon, ascendant |-> profile.ascendant,
             dayMaster |-> profile.dayMaster, harmony |-> profile.harmony,
             soulprint |-> soulprint, signature |-> signature]
        Reply(body) == IF IsBlueprint(body.signature) THEN Answer(body)
                       ELSE Refused(500, "ValidationError")
        Of(profile, soulprint) ==
            Reply(Body(profile, soulprint, Blueprint(soulprint, profile.vector, profile.harmony)))
    IN  Respond(Profile(b, eph), LAMBDA profile : Of(profile, Soulprint(profile)))

(***************************************************************************)
(* A question of the quiz moves the sectors three tenths of the way to     *)
(* those of its keyword, or to equal ones where the keyword is not known.  *)
(* The client may send its old signature, or only its sectors.             *)
(***************************************************************************)
Equal == [s \in Sectors |-> One \div 12]
ResolveQuizSectors(keyword) == IF keyword \in DOMAIN Affinity THEN Affinity[keyword] ELSE Equal
Blended(soulprint, quiz) ==
    Scaled(Tabulated([s \in Sectors |-> (7 * soulprint[s] + 3 * quiz[s]) \div 10]))
Moved(visual, old) == [name \in {"curvature", "contrast", "density"} |-> visual[name] - old[name]]
Still == [curvature |-> 0, contrast |-> 0, density |-> 0]
ElementsForgotten(signatures) == Uniform
ElementsSent(signatures) ==
    IF signatures = {} THEN Uniform ELSE (CHOOSE s \in signatures : TRUE).elements
SignatureDelta(soulprint, signatures, keyword) ==
    LET quiz == ResolveQuizSectors(keyword)
        old == IF signatures = {} THEN Still ELSE (CHOOSE s \in signatures : TRUE).visual
        new == Blueprint(Blended(soulprint, quiz), ElementsSent(signatures), 500)
    IN  IF ~IsSectors(soulprint) THEN Refused(422, "validation_error")
        ELSE IF ~IsBlueprint(new) THEN Refused(500, "ValidationError")
        ELSE Answer([quiz |-> quiz, delta |-> Moved(new.visual, old), signature |-> new])

(***************************************************************************)
(* The day in the east: its pillar, its solar term at noon UTC, and what   *)
(* its phase is to that of the day master.  A program that asks for it     *)
(* itself gets a term even without the ephemeris, by the day of the year.  *)
(***************************************************************************)
DailyPillar(day) == PillarFromIndex60((Epoch + day + DayOffset(FALSE)) % 60)
DetermineRelation(natal, daily) ==
    CASE natal = daily -> "companion"
      [] Sheng(natal) = daily -> "output" [] Sheng(daily) = natal -> "resource"
      [] Ke(natal) = daily -> "wealth" [] Ke(daily) = natal -> "power"
NoonOf(day) == 1440 * day + 720
DayOfYear(b, day) == day - b.newYear + 1
FallbackTerm(dayOfYear) == (((dayOfYear - 80) * 2400) \div 36525) % 24
Jieqi(b, day, eph) ==
    IF eph = "missing" THEN FallbackTerm(DayOfYear(b, day)) ELSE TermAt(b, NoonOf(day))
EasternThemes ==
    [companion |-> {"Gleichklang", "Staerkung", "Vertrauen"},
     resource |-> {"Unterstuetzung", "Naehrung", "Rueckhalt"},
     output |-> {"Ausdruck", "Produktivitaet", "Sichtbarkeit"},
     power |-> {"Kontrolle", "Disziplin", "Fokus"},
     wealth |-> {"Ressourcen", "Chancen", "Taktung"}]
Variant(b, day) == DayOfYear(b, day) % 3
EasternDaily(b, dayMaster, day, eph) ==
    LET pillar == DailyPillar(day)
        relation == DetermineRelation(ElementOf(dayMaster), ElementOf(pillar.stem))
    IN  [dayMaster |-> dayMaster, pillar |-> pillar, relation |-> relation,
         themes |-> EasternThemes[relation], variant |-> Variant(b, day),
         jieqi |-> Jieqi(b, day, eph), weekday |-> (Epoch + day) % 7]

(***************************************************************************)
(* The day in the west: the two sectors in which most planets meet most of *)
(* the soulprint; and what both days have in common.                       *)
(***************************************************************************)
SectorTheme == <<"Identitaet", "Ressourcen", "Kommunikation", "Familie", "Ausdruck", "Alltag",
                 "Beziehung", "Tiefe", "Weite", "Karriere", "Gemeinschaft", "Innenwelt">>
Foremost(S, weight) == Min({s \in S : \A t \in S : weight[t] <= weight[s]})
WesternDaily(soulprint, day) ==
    LET Combined(intensity) == Tabulated([s \in Sectors |-> intensity[s] * soulprint[s]])
        Of(first, second) ==
            [sectors |-> <<first, second>>,
             themes |-> <<SectorTheme[first + 1], SectorTheme[second + 1]>>,
             weekday |-> (Epoch + day) % 7]
        With(weight, first) == Of(first, Foremost(Sectors \ {first}, weight))
        TopTwo(weight) == With(weight, Foremost(Sectors, weight))
    IN  TopTwo(Combined(SectorIntensity(TransitOf(day))))
Affinities == {<<"Kommunikation", "Gleichklang">>, <<"Ausdruck", "Sichtbarkeit">>,
               <<"Ausdruck", "Produktivitaet">>, <<"Ressourcen", "Chancen">>,
               <<"Ressourcen", "Taktung">>}
Allied(west, themes) == {e \in themes : <<west, e>> \in Affinities}
SharedThemes(west, east) ==
    LET both == Range(west) \cap east
        allied == {k \in DOMAIN west : Allied(west[k], east) # {}}
    IN  IF both # {} THEN both
        ELSE IF allied # {} THEN {west[Min(allied)]} \cup Allied(west[Min(allied)], east)
        ELSE {west[1]}
FusionDaily(western, eastern) ==
    LET shared == SharedThemes(western.themes, eastern.themes)
    IN  [shared |-> shared, relation |-> eastern.relation,
         pushworthy |-> eastern.relation \in {"power", "wealth", "resource"},
         jieqi |-> eastern.jieqi, weekday |-> eastern.weekday]

(***************************************************************************)
(* The reading of a day for a birth, of which the client sends sectors     *)
(* again.  What the planets do is added on demand, from planets computed   *)
(* once more, and left out where it fails.                                 *)
(***************************************************************************)
SectorsToWuXing(sectors) ==
    LET total == SumFunctionOnSet(sectors, Sectors)
    IN  Tabulated([p \in Phases |->
            IF total = 0 THEN 0
            ELSE (100 * SumFunctionOnSet(sectors, {s \in Sectors : SignElement(s) = p}))
                     \div total])
QualityFlags(profile, timeKnown) ==
    [houses |-> profile.houses, chart |-> IF timeKnown THEN profile.quality ELSE "assumed_day"]
DailyImpact(b, profile, soulprint, quiz, day, weather, eph) ==
    {impact \in {ImpactOf(profile.dayMaster, Longitudes(b, profile.at), Cusps(b, profile.at), day,
                          <<SectorsToWuXing(soulprint), SectorsToWuXing(quiz)>>, weather)} :
        eph # "missing" /\ IsImpact(impact)}
Daily(b, timeKnown, soulprint, quiz, day, weathers, eph) ==
    LET Body(profile, western, eastern) ==
            [day |-> day, western |-> western, eastern |-> eastern,
             fusion |-> FusionDaily(western, eastern),
             flags |-> QualityFlags(profile, timeKnown),
             impact |-> UNION {DailyImpact(b, profile, soulprint, quiz, day, w,
                                           Found(eph, "impact")) : w \in weathers}]
    IN  IF ~IsSectors(soulprint) \/ ~IsSectors(quiz) THEN Refused(422, "validation_error")
        ELSE Respond(Profile(b, eph), LAMBDA profile :
                 Respond(Attest(Found(eph, "transit")), LAMBDA transit :
                     Answer(Body(profile, WesternDaily(soulprint, day),
                                 EasternDaily(b, profile.dayMaster, day, Found(eph, "term"))))))
=============================================================================
