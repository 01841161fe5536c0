------------------------------- MODULE Impact -------------------------------
(***************************************************************************)
(* What the planets of a day are to a birth (impact.py, impact_harmony.py, *)
(* impact_resonance.py): the aspects the day's planets form with those of  *)
(* the birth, the weight of each, and the mood of the day they make up.    *)
(*                                                                         *)
(* Longitudes and orbs are thousandths of a degree; what is shown of them  *)
(* is rounded to hundredths, a longitude of the day to tenths before it is *)
(* used.  Weights count ten thousandths, scores thousandths.               *)
(***************************************************************************)
EXTENDS Prompts

CONSTANT Transits       \* day -> planet -> where it is at noon UTC

Movers == <<"Sun", "Moon", "Mercury", "Venus", "Mars", "Jupiter", "Saturn", "Uranus",
            "Neptune", "Pluto">>
MoverWeight == [Sun |-> 10, Moon |-> 5, Mercury |-> 6, Venus |-> 7, Mars |-> 8, Jupiter |-> 12,
                Saturn |-> 15, Uranus |-> 15, Neptune |-> 18, Pluto |-> 20]
Bodies == Movers \o <<"Chiron", "Lilith", "NorthNode", "TrueNorthNode">>
PlaceOf == Tabulated([body \in Range(Bodies) |-> CHOOSE i \in DOMAIN Bodies : Bodies[i] = body])
Full == 360000

(***************************************************************************)
(* The day's planets.  Their sector is that of the longitude, what is told *)
(* of the longitude is rounded to a tenth of a degree.                     *)
(***************************************************************************)
Rounded(longitude) == 100 * ((longitude + 50) \div 100)
TransitOf(day) ==
    Tabulated([p \in Range(Movers) |->
        [longitude |-> Rounded(Transits[day][p].longitude),
         sector |-> Transits[day][p].longitude \div 30000,
         retrograde |-> Transits[day][p].retrograde]])
SectorIntensity(transit) ==
    LET weight == Tabulated([s \in 0 .. 11 |->
            SumFunctionOnSet(MoverWeight, {p \in DOMAIN transit : transit[p].sector = s})])
        most == Max(Range(weight))
    IN  Tabulated([s \in 0 .. 11 |-> (200 * weight[s] + most) \div (2 * most)])

(***************************************************************************)
(* Dignities: the signs a planet rules, is exalted in, and those opposite. *)
(***************************************************************************)
Domicile == [Sun |-> {4}, Moon |-> {3}, Mercury |-> {2, 5}, Venus |-> {1, 6}, Mars |-> {0, 7},
             Jupiter |-> {8, 11}, Saturn |-> {9, 10}, Uranus |-> {10}, Neptune |-> {11},
             Pluto |-> {7}]
Exaltation == [Sun |-> 0, Moon |-> 1, Mercury |-> 5, Venus |-> 11, Mars |-> 9, Jupiter |-> 3,
               Saturn |-> 6, Uranus |-> 7, Neptune |-> 3, Pluto |-> 4]
Opposite(sign) == (sign + 6) % 12
DignityOf(planet, sign) ==
    IF sign \in Domicile[planet] THEN "domicile"
    ELSE IF sign = Exaltation[planet] THEN "exaltation"
    ELSE IF Opposite(sign) \in Domicile[planet] THEN "detriment"
    ELSE IF Opposite(sign) = Exaltation[planet] THEN "fall" ELSE "none"
DignityMultiplier(dignity) ==
    CASE dignity = "domicile" -> 120 [] dignity = "exaltation" -> 115
      [] dignity = "detriment" -> 85 [] dignity = "fall" -> 80 [] dignity = "none" -> 100

(* The first house between whose cusp and the next the longitude lies,     *)
(* once round, and the tenths its kind makes of a weight.                  *)
Between(longitude, start, end) ==
    IF start <= end THEN start <= longitude /\ longitude < end
    ELSE start <= longitude \/ longitude < end
HouseOf(longitude, cusps) ==
    Min({i \in 1 .. 12 : Between(longitude % Full, cusps[i], cusps[1 + (i % 12)])} \cup {13}) % 13
House(longitude, cusps) ==
    IF HouseOf(longitude, cusps) = 0 THEN 1 ELSE HouseOf(longitude, cusps)
HouseMultiplier(house) == CASE house % 3 = 1 -> 13 [] house % 3 = 2 -> 10 [] house % 3 = 0 -> 8

(***************************************************************************)
(* Aspects, by the multiple of 30 degrees they are nearest to: no angle is *)
(* within the orb of two of them.  A planet of the day has at most one     *)
(* aspect: the tightest, and of equal ones that with the body that comes   *)
(* first.  It is chosen by the orb as it is; the strength, the weight and  *)
(* all that follows are by the orb as it is shown.                         *)
(***************************************************************************)
Aspects == <<"conjunction", "semi-sextile", "sextile", "square", "trine", "quincunx",
             "opposition">>
AspectWeight == <<100, 50, 70, 80, 85, 50, 90>>
MaxOrb == 8000
Distance(a, c) == LET d == Magnitude(a - c) % Full IN IF d < Full - d THEN d ELSE Full - d
Aspect(a, c) == 1 + (Distance(a, c) + 15000) \div 30000
Orb(a, c) == Magnitude(((Distance(a, c) + 15000) % 30000) - 15000)
Orbs(longitude, natal) ==
    Tabulated([body \in Computed(natal) |-> Orb(longitude, natal[body])])
Matches(orbs) == {body \in DOMAIN orbs : orbs[body] <= MaxOrb}
Best(orbs) ==
    CHOOSE body \in Matches(orbs) : \A other \in Matches(orbs) :
        \/ orbs[body] < orbs[other]
        \/ orbs[body] = orbs[other] /\ PlaceOf[body] <= PlaceOf[other]
ToHundredths(x) == (x + 5) \div 10
MaxShown == ToHundredths(MaxOrb)
FullShown == ToHundredths(Full)
Strength(orb) == IF orb < 300 THEN "high" ELSE IF orb <= 500 THEN "medium" ELSE "low"
CompositeWeight(orb, planet, aspect, house, dignity) ==
    LET raw == (25 * (MaxShown - orb)) \div 4 + 150 * MoverWeight[planet]
               + 20 * AspectWeight[aspect]
        weight == (raw * house * dignity) \div 1000
    IN  IF weight > 10000 THEN 10000 ELSE weight

SignElement(sign) == 1 + (sign % 4)
ActiveWith(planet, info, body, orb, natal, cusps) ==
    LET longitude == info.longitude
        aspect == Aspect(longitude, natal[body])
        sign == (longitude \div 30000) % 12
        dignity == DignityOf(planet, sign)
    IN  [planet |-> planet, body |-> body, aspect |-> Aspects[aspect], orb |-> orb,
         strength |-> Strength(orb), retrograde |-> info.retrograde,
         natalPosition |-> ToHundredths(natal[body]),
         transitPosition |-> ToHundredths(longitude), sector |-> SignElement(sign),
         dignity |-> dignity,
         weight |-> CompositeWeight(orb, planet, aspect,
                        HouseMultiplier(House(longitude, cusps)), DignityMultiplier(dignity))]
Active(planet, info, orbs, natal, cusps) ==
    ActiveWith(planet, info, Best(orbs), ToHundredths(orbs[Best(orbs)]), natal, cusps)
ActivePlanets(natal, transit, cusps) ==
    LET Among(orbs) == {Active(p, transit[p], orbs[p], natal, cusps) :
                            p \in {q \in DOMAIN transit : Matches(orbs[q]) # {}}}
    IN  Among(Tabulated([p \in DOMAIN transit |-> Orbs(transit[p].longitude, natal)]))

(***************************************************************************)
(* What an active planet is to the day master.  Its element is that of the *)
(* planet, no longer that of the sign.  The enriched planet is a new one,  *)
(* and is not given the dignity.                                           *)
(***************************************************************************)
PlanetElement == [Sun |-> 1, Moon |-> 4, Mercury |-> 2, Venus |-> 3, Mars |-> 1, Jupiter |-> 0,
                  Saturn |-> 2, Uranus |-> 0, Neptune |-> 4, Pluto |-> 1]
ResonanceType(master, element) ==
    IF master = element THEN "gleichklang"
    ELSE IF Sheng(element) = master \/ Sheng(master) = element THEN "naehrung"
    ELSE IF Ke(element) = master \/ Ke(master) = element THEN "kontrolle" ELSE "neutral"
ResonanceIntensity(orb, weight) ==
    LET score == (6000 * (MaxShown - orb)) \div MaxShown + (4 * weight) \div 10
    IN  IF score > 7000 THEN "stark" ELSE IF score > 4000 THEN "mittel" ELSE "gering"
Resonance(master, p) ==
    [element |-> PlanetElement[p.planet],
     type |-> ResonanceType(master, PlanetElement[p.planet]),
     intensity |-> ResonanceIntensity(p.orb, p.weight)]
Enriched(p, master) ==
    [planet |-> p.planet, body |-> p.body, aspect |-> p.aspect, orb |-> p.orb,
     strength |-> p.strength, retrograde |-> p.retrograde, natalPosition |-> p.natalPosition,
     transitPosition |-> p.transitPosition, sector |-> p.sector, dignity |-> "none",
     weight |-> p.weight, resonance |-> Resonance(master, p)]
Badges(active) ==
    {[source |-> p.planet, resonance |-> p.resonance] :
        p \in {x \in active : x.resonance.type # "neutral"}}

(***************************************************************************)
(* The day.  Vectors of phases count hundredths on the side of the birth   *)
(* and fiftieths on the side of the planets.                               *)
(***************************************************************************)
Uniform == [p \in Phases |-> 20]
NatalVector(sectors) ==
    IF sectors = << >> THEN Uniform
    ELSE Tabulated([p \in Phases |->
             SumFunction([i \in DOMAIN sectors |-> sectors[i][p]]) \div Len(sectors)])
Tightness(orb) == 15000 - (9375 * orb) \div 1000
TransitVector(active) ==
    Tabulated([e \in Phases |->
        SumFunctionOnSet([p \in active |-> p.weight * Tightness(p.orb)],
                         {p \in active : p.resonance.element = e}) \div 2000000])
TopSector(active) ==
    Dominant(Tabulated([e \in Phases |->
        SumFunctionOnSet([p \in active |-> p.weight],
                         {p \in active : p.resonance.element = e})]))
Capped(score) == IF score > 1000 THEN 1000 ELSE score
Crowd(active) == Capped(200 * Cardinality(active))
HarmonyOf(natal, transit) ==
    IF IsZero(natal) \/ IsZero(transit) THEN 0 ELSE CosineOf(natal, transit)
IntensityOf(harmony, crowd, weather) == Capped((4 * harmony + 4 * crowd + 2 * weather) \div 10)
DayMode(harmony, intensity) ==
    IF intensity >= 750 THEN "pulse"
    ELSE IF harmony >= 600 /\ intensity < 400 THEN "calm"
    ELSE IF harmony < 400 \/ intensity >= 600 THEN "tense" ELSE "active"
Level(score) == IF score >= 700 THEN "tense" ELSE IF score >= 400 THEN "active" ELSE "calm"
Drivers(weather, crowd, harmony) ==
    [geomagnetic |-> Level(weather), solar |-> Level(Capped((12 * weather) \div 10)),
     transit |-> Level(crowd), dayField |-> Level(1000 - harmony)]

(* What is known of the weather in space, or its defaults; module          *)
(* SpaceWeather says which.                                                *)
Weathers == {[kp |-> 7, pressure |-> 12, partial |-> FALSE],
             [kp |-> 2, pressure |-> 1, partial |-> TRUE]}
WeatherScore(w) == (600 * w.kp) \div 9 + 40 * (IF w.pressure > 10 THEN 10 ELSE w.pressure)

Enrich(active, master) == {Enriched(p, master) : p \in active}
ImpactWith(active, harmony, master, weather) ==
    LET score == WeatherScore(weather)
        intensity == IntensityOf(harmony, Crowd(active), score)
    IN  [harmony |-> harmony, mode |-> DayMode(harmony, intensity), intensity |-> intensity,
         active |-> active, weather |-> score, drivers |-> Drivers(score, Crowd(active), harmony),
         badges |-> Badges(active), top |-> TopSector(active), dayMaster |-> master,
         partial |-> weather.partial]
ImpactOf(dayMaster, natal, cusps, day, sectors, weather) ==
    LET Harmony(active) == HarmonyOf(NatalVector(sectors), TransitVector(active))
        With(active) == ImpactWith(active, Harmony(active), ElementOf(dayMaster), weather)
    IN  With(Enrich(ActivePlanets(natal, TransitOf(day), cusps), ElementOf(dayMaster)))

(* The response model: the circle ends before 360 degrees.                 *)
IsImpact(impact) ==
    /\ impact.harmony \in 0 .. 1000 /\ impact.intensity \in 0 .. 1000
    /\ impact.weather \in 0 .. 1000
    /\ \A p \in impact.active :
           /\ {p.natalPosition, p.transitPosition} \subseteq 0 .. FullShown - 1
           /\ p.weight \in 0 .. 10000 /\ p.orb >= 0

(* The profile an app has of a birth: fold 0, apparent solar time, and a   *)
(* time that must exist.                                                   *)
BaziOfProfile(b, eph) == ComputeBazi(b, b.wall, 0, "TLST", "midnight", eph)
(* Whatever fails of the western chart, the ephemeris too, the client is   *)
(* told to mend its input; of the day's planets it is told what failed.    *)
ImpactActive(b, day, sectors, weather, eph) ==
    LET Reply(impact) == IF IsImpact(impact) THEN Answer(impact)
                         ELSE Refused(500, "ValidationError")
    IN  Respond(BaziOfProfile(b, Found(eph, "bazi")), LAMBDA bazi :
            IF Fails(Western(b, bazi.at, Found(eph, "western")))
            THEN Refused(422, "computation_error")
            ELSE Respond(Attest(Found(eph, "transit")), LAMBDA transit :
                Reply(ImpactOf(bazi.chart[3].stem, Longitudes(b, bazi.at), Cusps(b, bazi.at),
                               day, sectors, weather))))
=============================================================================
