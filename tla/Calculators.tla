---------------------------- MODULE Calculators ----------------------------
(***************************************************************************)
(* The endpoints that compute one thing about one birth (routers/bazi.py,  *)
(* natal.py, fusion.py, chart.py, dayun/relation.py): each is a function   *)
(* of the birth b, of what the request asks for and of what each of its    *)
(* uses finds of the ephemeris.                                            *)
(***************************************************************************)
EXTENDS Births

(***************************************************************************)
(* BaZi.  A pillar shows its stem, branch and the phase of its stem.       *)
(***************************************************************************)
PillarShown(p) == [stem |-> p.stem, branch |-> p.branch, phase |-> ElementOf(p.stem)]
Shown(chart) == [i \in DOMAIN chart |-> PillarShown(chart[i])]

Trace(b, asked, boundary, bazi) ==
    [before |-> bazi.before, term |-> (LiChunTerm + 2 * MonthAt(b, bazi.at)) % 24,
     monthBranch |-> bazi.chart[2].branch,
     day |-> Engine(bazi.at, b.place, asked.standard, boundary)!TraceIndex60,
     hour |-> Engine(bazi.at, b.place, asked.standard, boundary)!TraceHour,
     hourBranch |-> bazi.chart[4].branch,
     clock |-> SolarTime(b, bazi.at), standard |-> asked.standard]

BaziModel ==
    [pillars : Seq([stem : 0 .. 9, branch : 0 .. 11, phase : Phases]), at : Int, year : Int,
     before : BOOLEAN, provisional : SUBSET {"hour"}, mode : {"SWIEPH", "MOSEPH"},
     trace : {[none |-> TRUE]} \cup
             [before : BOOLEAN, term : 0 .. 23, monthBranch : 0 .. 11, day : 0 .. 59,
              hour : 0 .. 23, hourBranch : 0 .. 11, standard : {"CIVIL", "LMT", "TLST"},
              clock : [civil : 0 .. 1439, solar : 0 .. 1439, rollover : -2 .. 1]]]
BaziResponse(b, asked, traced, eph) ==
    LET Body(bazi, mode) ==
            [pillars |-> Shown(bazi.chart), at |-> bazi.at, year |-> bazi.year,
             before |-> bazi.before, provisional |-> Provisional(asked, {"hour"}),
             mode |-> mode,
             trace |-> IF traced THEN Trace(b, asked, asked.boundary, bazi)
                       ELSE [none |-> TRUE]]
    IN  Then(BaziOf(b, asked, asked.boundary, Found(eph, "bazi")), LAMBDA bazi :
             Then(Attest(Found(eph, "mode")), LAMBDA mode : Returned(Body(bazi, mode))))
Bazi(b, asked, eph) ==
    Respond(BaziResponse(b, asked, FALSE, eph), LAMBDA body : Served(body, BaziModel))
BaziTrace(b, asked, eph) ==
    Respond(BaziResponse(b, asked, TRUE, eph), LAMBDA body : Served(body, BaziModel))

BaziWuXingModel ==
    [pillars : Seq(Pillar), vector : [Phases -> Nat], dominant : Phases,
     basis : {"bazi_four_pillars"}, ledger : Seq([pillar : 1 .. 4, source : {"stem", "hidden_main",
                                                      "hidden_middle", "hidden_residual"},
                                                  phase : Phases, weight : {10, 5, 3}]),
     provisional : SUBSET {"hour"}]
BaziWuXing(b, asked, eph) ==
    LET Body(chart, ledger, vector) ==
            [pillars |-> chart, vector |-> vector, dominant |-> Dominant(vector),
             basis |-> "bazi_four_pillars", ledger |-> ledger,
             provisional |-> Provisional(asked, {"hour"})]
    IN  Respond(BaziOf(b, asked, asked.boundary, Found(eph, "bazi")), LAMBDA bazi :
            Respond(Attest(Found(eph, "mode")), LAMBDA mode :
                Served(Body(bazi.chart, BaziLedger(bazi.chart), VectorOf(BaziLedger(bazi.chart))),
                       BaziWuXingModel)))

(***************************************************************************)
(* The relation of a stem to the day master, as the decades name it.       *)
(***************************************************************************)
ElementRelationByOrder(dayMaster, stem) ==
    CASE stem = dayMaster -> "same_element"
      [] Sheng(dayMaster) = stem -> "produced_by_day_master"
      [] Ke(stem) = dayMaster -> "controlled_by_day_master"
      [] Sheng(stem) = dayMaster -> "produces_day_master"
      [] Ke(dayMaster) = stem -> "controls_day_master"
ClassifyElementRelation(dayMaster, stem) ==
    CASE stem = dayMaster -> "same_element"
      [] Sheng(dayMaster) = stem -> "produced_by_day_master"
      [] Ke(dayMaster) = stem -> "controlled_by_day_master"
      [] Sheng(stem) = dayMaster -> "produces_day_master"
      [] Ke(stem) = dayMaster -> "controls_day_master"
PinyinOf ==
    [same_element |-> <<"Bi Jian", "Jie Cai">>,
     produced_by_day_master |-> <<"Shi Shen", "Shang Guan">>,
     controlled_by_day_master |-> <<"Pian Cai", "Zheng Cai">>,
     controls_day_master |-> <<"Qi Sha", "Zheng Guan">>,
     produces_day_master |-> <<"Pian Yin", "Zheng Yin">>]
RelationToDayMaster(stem, dayMaster) ==
    LET relation == ClassifyElementRelation(ElementOf(dayMaster), ElementOf(stem))
    IN  [relation |-> relation,
         god |-> PinyinOf[relation][IF stem % 2 = dayMaster % 2 THEN 1 ELSE 2]]

(***************************************************************************)
(* The natal chart: what the pair analysis knows of one person.            *)
(***************************************************************************)
TenGodBlock(dayMaster, stem) ==
    [name |-> TenGod(dayMaster, stem), pinyin |-> RelationToDayMaster(stem, dayMaster).god,
     relation |-> RelationToDayMaster(stem, dayMaster).relation]
HiddenStemEntries(chart, pillar) ==
    LET Entry(e) ==
            [stem |-> e.stem, phase |-> ElementOf(e.stem), qi |-> e.source, weight |-> e.weight,
             tenGod |-> TenGodBlock(chart.dayMaster, e.stem)]
    IN  FoldLeft(LAMBDA entries, e :
                     IF e.pillar = pillar /\ e.source # "visible"
                     THEN Append(entries, Entry(e)) ELSE entries, << >>, chart.ledger)
Principal(hidden) ==
    hidden[CHOOSE k \in DOMAIN hidden :
              /\ hidden[k].qi = "hidden_principal"
              /\ \A j \in 1 .. k - 1 : hidden[j].qi # "hidden_principal"]
PillarBlock(chart, i) ==
    LET hidden == HiddenStemEntries(chart, i)
        p == chart.pillars[i]
    IN  [stem |-> p.stem, branch |-> p.branch, stemPhase |-> ElementOf(p.stem),
         branchPhase |-> Principal(hidden).phase, polarity |-> p.stem % 2,
         tenGod |-> IF i = 3 THEN {} ELSE {TenGodBlock(chart.dayMaster, p.stem)},
         hidden |-> hidden]
Natal(b, asked, eph) ==
    LET Body(chart) ==
            [pillars |-> [i \in 1 .. 4 |-> PillarBlock(chart, i)],
             dayMaster |-> chart.dayMaster,
             monthCommand |-> Individual(chart, "none").monthCommand,
             provisional |-> Provisional(asked, {"hour"}),
             warnings |-> [k \in DOMAIN chart.warnings |-> chart.warnings[k].code]]
    IN  Respond(BaziOf(b, asked, asked.boundary, Found(eph, "bazi")), LAMBDA bazi :
                Answer(Body(Normalize(bazi.chart, "natal", asked.timeKnown))))

(***************************************************************************)
(* The western vector, the fusion of both, and the vector map.  The client *)
(* may send pillars of its own: given holds them, or nothing.              *)
(***************************************************************************)
ChartTypeQuality(quality, ascendant) ==
    IF quality \in {"exact", "assumed_day"} THEN quality
    ELSE IF ascendant # Failed THEN "exact" ELSE "assumed_day"
Unavailable(r) == IF r.error = ValueError THEN Refused(500, "ascendant_unavailable")
                  ELSE Failure(r)

WuXingOf(b, asked, eph) ==
    LET Body(ledger, vector) ==
            [vector |-> vector, dominant |-> Dominant(vector), basis |-> "western_planetary",
             ledger |-> ledger, solar |-> SolarTime(b, Resolve(b, asked).value.at).solar]
        Of(sky, ledger) == IF sky.ascendant = Failed THEN Raised(ValueError)
                           ELSE Returned(Body(ledger, WesternVector(ledger)))
    IN  Then(WesternOf(b, asked, eph), LAMBDA sky :
             Of(sky, WesternLedger(sky.bodies, sky.ascendant)))
RespondOrUnavailable(r, Reply(_)) == IF Fails(r) THEN Unavailable(r) ELSE Reply(r.value)
WuXingEndpoint(b, asked, eph) ==
    RespondOrUnavailable(WuXingOf(b, asked, Found(eph, "western")), Answer)

PillarsOf(b, asked, given, eph) ==
    IF given = {} THEN BaziOf(b, asked, "midnight", eph)
    ELSE Returned([chart |-> CHOOSE chart \in given : TRUE])
FusionModel ==
    [west : [Phases -> Nat], bazi : [Phases -> Nat], harmony : 0 .. 1000,
     comparison : [Phases -> -100 .. 100],
     calibration : [raw : 0 .. 1000, quality : {"ok", "sparse", "degenerate"},
                    calibrated : 0 .. 1000, band : STRING, west : Nat, bazi : Nat],
     text : [coherence : STRING, west : Phases, bazi : Phases],
     houses : [requested : {"placidus"}, used : {"placidus", "porphyry", "whole_sign"},
               fallback : BOOLEAN, mode : {"SWIEPH", "MOSEPH"}],
     quality : {"exact", "assumed_day"},
     provisional : SUBSET {"signature", "hour", "ascendant", "houses"}]
FusionEndpoint(b, asked, given, eph) ==
    LET Body(sky, fusion) ==
            [west |-> fusion.west, bazi |-> fusion.bazi, harmony |-> fusion.harmony,
             calibration |-> fusion.calibration, text |-> fusion.text,
             comparison |-> fusion.comparison, houses |-> sky.quality,
             quality |-> ChartTypeQuality(fusion.quality, sky.ascendant),
             provisional |-> Provisional(asked, {"signature", "hour", "ascendant", "houses"})]
    IN  Respond(WesternOf(b, asked, Found(eph, "western")), LAMBDA sky :
            Respond(PillarsOf(b, asked, given, Found(eph, "bazi")), LAMBDA pillars :
                RespondOrUnavailable(FusionOf(sky.bodies, sky.ascendant, pillars.chart, TRUE),
                    LAMBDA fusion : Served(Body(sky, fusion), FusionModel))))
VectorMapEndpoint(b, asked, given, eph) ==
    Respond(WesternOf(b, asked, Found(eph, "western")), LAMBDA sky :
        Respond(PillarsOf(b, asked, given, Found(eph, "bazi")), LAMBDA pillars :
            RespondOrUnavailable(VectorMap(sky.bodies, sky.ascendant, pillars.chart), Answer)))

(* Apparent solar time, for which no ephemeris is asked.                   *)
Tst(b, asked) ==
    Respond(Resolve(b, asked), LAMBDA time :
            Answer([civil |-> SolarTime(b, time.at).civil,
                    correction |-> b.place.longitude, equation |-> b.place.equation,
                    solar |-> SolarTime(b, time.at).solar]))

(***************************************************************************)
(* The whole chart.  One policy settles both kinds of wall time; "error"   *)
(* refuses only a time that does not exist.  A body that failed is shown   *)
(* at the beginning of Aries.  What the endpoint sends to the validator is *)
(* no valid request, and the refusal becomes a remark in the answer.       *)
(***************************************************************************)
DstPolicies == {"error", "earlier", "later"}
PolicyOf(asked, policy) ==
    [asked EXCEPT !.ambiguous = IF policy = "later" THEN "later" ELSE "earlier",
                  !.nonexistent = IF policy = "error" THEN "error" ELSE "shift_forward"]
Positions(bodies) ==
    [body \in DOMAIN bodies |-> IF bodies[body] = Failed THEN 0 ELSE bodies[body]]
ChartModel ==
    [positions : [Planets -> 0 .. 11], pillars : Seq(Pillar), year : Int,
     wuxing : [west : [Phases -> Nat], bazi : [Phases -> Nat], harmony : 0 .. 1000,
               dominantWest : Phases, dominantBazi : Phases],
     time : [at : Int, solar : 0 .. 1439,
             status : {"ok", "ambiguous", "nonexistent_shifted"}],
     houses : [requested : {"placidus"}, used : {"placidus", "porphyry", "whole_sign"},
               fallback : BOOLEAN, mode : {"SWIEPH", "MOSEPH"}],
     validation : {"absent", "unavailable"}]
ChartEndpoint(b, asked, policy, validate, eph) ==
    LET settled == PolicyOf(asked, policy)
        Both(west, east) ==
            [west |-> west, bazi |-> east, harmony |-> Cosine(west, east),
             dominantWest |-> Dominant(west), dominantBazi |-> Dominant(east)]
        Body(time, sky, bazi) ==
            [positions |-> Positions(sky.bodies), pillars |-> bazi.chart, year |-> bazi.year,
             wuxing |-> Both(WesternVector(WesternLedger(sky.bodies, Failed)),
                             BaziVector(bazi.chart)),
             time |-> [at |-> time.at, solar |-> SolarTime(b, time.at).solar,
                       status |-> time.status],
             houses |-> sky.quality,
             validation |-> IF validate THEN "unavailable" ELSE "absent"]
    IN  Respond(WesternOf(b, settled, Found(eph, "western")), LAMBDA sky :
            Respond(BaziOf(b, settled, asked.boundary, Found(eph, "bazi")), LAMBDA bazi :
                Served(Body(Resolve(b, settled).value, sky, bazi), ChartModel)))
=============================================================================
