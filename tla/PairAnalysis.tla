---------------------------- MODULE PairAnalysis ----------------------------
(***************************************************************************)
(* The pair analysis (bazi_engine/match/): a chart is normalised to a      *)
(* ledger of stems, each person is analysed alone, two persons are         *)
(* compared in three layers, and every statement of the response cites an  *)
(* entry of an evidence ledger.                                            *)
(***************************************************************************)
EXTENDS WuXing

(***************************************************************************)
(* Ten gods: the relation of a stem to the day master and whether the two  *)
(* share their polarity.                                                   *)
(***************************************************************************)
ElementRelation(dayMaster, target) ==
    CASE target = dayMaster -> "same"
      [] ShengInverse(dayMaster) = target -> "resource"
      [] Sheng(dayMaster) = target -> "output"
      [] Ke(dayMaster) = target -> "wealth"
      [] Ke(target) = dayMaster -> "officer"
GodOf == [same |-> <<"Friend", "RobWealth">>, resource |-> <<"IndirectRes", "DirectRes">>,
          output |-> <<"EatingGod", "HurtingOfficer">>,
          wealth |-> <<"IndirectWealth", "DirectWealth">>,
          officer |-> <<"SevenKilling", "DirectOfficer">>]
TenGod(dayMaster, stem) ==
    GodOf[ElementRelation(ElementOf(dayMaster), ElementOf(stem))]
         [IF dayMaster % 2 = stem % 2 THEN 1 ELSE 2]

(***************************************************************************)
(* Normalisation.  The ruleset says which stems a branch hides, the older  *)
(* table of WuXing how much each weighs; they are matched by phase.        *)
(***************************************************************************)
HiddenStems == << <<9>>, <<5, 9, 7>>, <<0, 2, 4>>, <<1>>, <<4, 1, 9>>, <<2, 6, 4>>,
                  <<3, 5>>, <<5, 1, 3>>, <<6, 8, 4>>, <<7>>, <<4, 7, 3>>, <<8, 0>> >>
HiddenOf(branch) == HiddenStems[branch + 1]
TablesMatch(branch) ==
    /\ IsInjective([k \in DOMAIN HiddenOf(branch) |-> ElementOf(HiddenOf(branch)[k])])
    /\ {RowsOf(branch)[k][1] : k \in DOMAIN RowsOf(branch)}
           = {ElementOf(HiddenOf(branch)[k]) : k \in DOMAIN HiddenOf(branch)}
    /\ Len(RowsOf(branch)) <= 3

StemSource == <<"hidden_principal", "hidden_central", "hidden_residual">>
StemInBranch(branch, phase) ==
    CHOOSE s \in {HiddenOf(branch)[k] : k \in DOMAIN HiddenOf(branch)} : ElementOf(s) = phase
HiddenByPlace(branch, k) == HiddenOf(branch)[k]
HiddenEntryByPlace(name, branch, k) ==
    LET row == RowsOf(branch)[k]
    IN  [pillar |-> name, stem |-> HiddenByPlace(branch, k), phase |-> row[1],
         source |-> StemSource[k], weight |-> row[2]]
HiddenEntry(name, branch, k) ==
    LET row == RowsOf(branch)[k]
    IN  [pillar |-> name, stem |-> StemInBranch(branch, row[1]), phase |-> row[1],
         source |-> StemSource[k], weight |-> row[2]]
StemEntry(name, stem) ==
    [pillar |-> name, stem |-> stem, phase |-> ElementOf(stem), source |-> "visible",
     weight |-> 10]
StemLedger(chart) ==
    FlattenSeq([i \in DOMAIN chart |->
        << StemEntry(i, chart[i].stem) >>
        \o [k \in DOMAIN RowsOf(chart[i].branch) |-> HiddenEntry(i, chart[i].branch, k)]])

(* No ruleset of the repository has a verified day anchor, which every     *)
(* chart warns of under one and the same subject.                          *)
Warning(code, subject) == [code |-> code, subject |-> subject]
WarningsOf(subject, timeKnown) ==
    << Warning("DAY_ANCHOR_UNVERIFIED", "ruleset") >>
    \o (IF timeKnown THEN << >> ELSE << Warning("BIRTH_TIME_UNKNOWN", subject) >>)
Normalize(chart, subject, timeKnown) ==
    [pillars |-> chart, dayMaster |-> chart[3].stem, ledger |-> StemLedger(chart),
     vector |-> VectorOf(StemLedger(chart)), warnings |-> WarningsOf(subject, timeKnown)]

(***************************************************************************)
(* One person.                                                             *)
(***************************************************************************)
MonthCommand(chart) ==
    LET stem == HiddenOf(chart.pillars[2].branch)[1]
    IN  [branch |-> chart.pillars[2].branch, stem |-> stem, phase |-> ElementOf(stem)]
SpousePalace(chart) ==
    [branch |-> chart.pillars[3].branch, hidden |-> HiddenOf(chart.pillars[3].branch)]

PrimaryGods == [male |-> {"DirectWealth"}, female |-> {"DirectOfficer"}]
DisruptionGod == [male |-> "IndirectWealth", female |-> "SevenKilling"]
RoleOfStem(gender, dayMaster, stem) ==
    CASE TenGod(dayMaster, stem) \in PrimaryGods[gender] -> "primary"
      [] TenGod(dayMaster, stem) = DisruptionGod[gender] -> "disruption"
      [] OTHER -> "none"
WithRole(entries) == SelectSeq(entries, LAMBDA e : e.role # "none")
Occurrences(chart, gender) ==
    WithRole([i \in DOMAIN chart.ledger |->
                 [pillar |-> chart.ledger[i].pillar, source |-> chart.ledger[i].source,
                  stem |-> chart.ledger[i].stem,
                  role |-> RoleOfStem(gender, chart.dayMaster, chart.ledger[i].stem)]])
SpouseStar(chart, gender) ==
    CASE gender = "none" -> [gender |-> gender, status |-> "PENDING_TABLES",
                             blockedBy |-> "GENDER_NOT_PROVIDED", occurrences |-> << >>]
      [] gender = "divers" -> [gender |-> gender, status |-> "PENDING_TABLES",
                               blockedBy |-> "MISSING-008", occurrences |-> << >>]
      [] OTHER -> [gender |-> gender, status |-> "CALCULATED", blockedBy |-> "",
                   occurrences |-> Occurrences(chart, gender)]
Individual(chart, gender) ==
    [dayMaster |-> chart.dayMaster, phase |-> ElementOf(chart.dayMaster),
     monthCommand |-> MonthCommand(chart), spousePalace |-> SpousePalace(chart),
     vector |-> chart.vector, spouseStar |-> SpouseStar(chart, gender)]

(***************************************************************************)
(* Two persons.                                                            *)
(***************************************************************************)
DayMasterRelationOneSided(a, b) ==
    CASE a = b -> "same_element"
      [] Sheng(a) = b \/ Sheng(b) = a -> "a_generates_b"
      [] Ke(a) = b -> "a_controls_b"
      [] Ke(b) = a -> "b_controls_a"
DayMasterRelation(a, b) ==
    CASE a = b -> "same_element"
      [] Sheng(a) = b -> "a_generates_b"
      [] Ke(a) = b -> "a_controls_b"
      [] Sheng(b) = a -> "b_generates_a"
      [] Ke(b) = a -> "b_controls_a"

Layers == <<"day_master_comparison", "spouse_palace_day_branch", "wuxing_vector_comparison">>
Layer(name, facts, status) ==
    [name |-> name, facts |-> facts, status |-> status, evidence |-> {<<"pair", name>>}]
DayMasterLayer(a, b) ==
    Layer(Layers[1],
          [stems |-> <<a.dayMaster, b.dayMaster>>, phases |-> <<a.phase, b.phase>>,
           sameStem |-> a.dayMaster = b.dayMaster, sameElement |-> a.phase = b.phase,
           relation |-> DayMasterRelation(a.phase, b.phase)], "CALCULATED")
SpousePalaceLayer(a, b) ==
    Layer(Layers[2],
          [branches |-> <<a.spousePalace.branch, b.spousePalace.branch>>,
           hidden |-> <<a.spousePalace.hidden, b.spousePalace.hidden>>,
           sameBranch |-> a.spousePalace.branch = b.spousePalace.branch],
          "NEEDS_DOMAIN_REVIEW")
VectorLayer(a, b) == Layer(Layers[3], [vectors |-> <<a.vector, b.vector>>], "CALCULATED")
AnalyzePair(a, b) == <<DayMasterLayer(a, b), SpousePalaceLayer(a, b), VectorLayer(a, b)>>

(***************************************************************************)
(* Statements and what they rest on.  Each layer has one or two statements *)
(* and each warning one; a warning of both charts is said once.            *)
(***************************************************************************)
WarningEvidence(w) == <<"warning", w.subject, w.code>>
DedupeByCode(ws) ==
    FoldLeft(LAMBDA seen, w : IF \E i \in DOMAIN seen : seen[i].code = w.code
                              THEN seen ELSE Append(seen, w), << >>, ws)
DedupeWarnings(ws) ==
    FoldLeft(LAMBDA seen, w : IF Contains(seen, w) THEN seen ELSE Append(seen, w), << >>, ws)

Block(id, type, status, evidence) ==
    [id |-> id, type |-> type, status |-> status, evidence |-> evidence]
StatementsOf(layer) ==
    LET fact == Block(<<layer.name, 1>>, "CALCULATED_FACT", "CALCULATED", layer.evidence)
    IN  CASE layer.name = Layers[1] ->
                 << fact, Block(<<layer.name, 2>>, "RULE_APPLICATION", "CALCULATED",
                                layer.evidence) >>
          [] layer.name = Layers[2] ->
                 << fact, Block(<<layer.name, 2>>, "SOURCE_STATUS", "NEEDS_DOMAIN_REVIEW",
                                layer.evidence) >>
          [] layer.name = Layers[3] -> << fact >>
TextBlocks(pair, warnings) ==
    FlattenSeq([k \in DOMAIN pair |-> StatementsOf(pair[k])])
    \o [k \in DOMAIN warnings |->
            Block(<<"warnings", warnings[k].subject, warnings[k].code>>, "WARNING", "CALCULATED",
                  {WarningEvidence(warnings[k])})]
EvidenceLedger(pair, warnings) ==
    (UNION {pair[k].evidence : k \in DOMAIN pair})
    \cup {WarningEvidence(warnings[k]) : k \in DOMAIN warnings}

(* The whole computation, from two charts to a response.                   *)
Analysis(chartA, chartB, timeKnown, gender) ==
    LET With(charts, persons, pair, warnings) ==
            [persons |-> persons, charts |-> charts, pair |-> pair, warnings |-> warnings,
             blocks |-> TextBlocks(pair, warnings), evidence |-> EvidenceLedger(pair, warnings)]
        Of(a, b, personA, personB) ==
            With(<<a, b>>, <<personA, personB>>, AnalyzePair(personA, personB),
                 DedupeWarnings(a.warnings \o b.warnings))
        Normalized(a, b) == Of(a, b, Individual(a, gender[1]), Individual(b, gender[2]))
    IN  Normalized(Normalize(chartA, "person_a", timeKnown[1]),
                   Normalize(chartB, "person_b", timeKnown[2]))
=============================================================================
