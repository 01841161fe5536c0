-------------------------------- MODULE Match --------------------------------
(***************************************************************************)
(* The pair analysis as an endpoint (routers/match.py): consent, the two   *)
(* charts, the analysis of module PairAnalysis, and the class of caller    *)
(* the demand is counted under (match/observability.py).                   *)
(***************************************************************************)
EXTENDS Calculators

CONSTANT TeamKeys       \* FUFIRE_TEAM_KEY_ALLOWLIST

Genders == {"none", "male", "female", "divers"}
NoKey == "no key"
ClassifyCaller(key) == IF key # NoKey /\ key \in TeamKeys THEN "team" ELSE "external"

(* A person is a birth with what is asked about it; only the hash of both  *)
(* is echoed.                                                              *)
Person(name, birth, asked, gender) ==
    [name |-> name, birth |-> birth, asked |-> asked, gender |-> gender]
SubjectIdentity(role, person) ==
    [role |-> role, input |-> <<person.name, person.asked, person.gender>>,
     timePrecision |-> IF person.asked.timeKnown THEN "minute" ELSE "unknown"]

ComputePersonChart(person, eph) ==
    BaziOf(person.birth, person.asked, person.asked.boundary, eph)

(* The response.  The clear text is checked against the blocked phrases    *)
(* while it is built, which none of its templates contains.                *)
MatchBody(a, b, chartA, chartB, mode) ==
    LET Of(analysis) ==
        [subjects |-> <<SubjectIdentity("person_a", a), SubjectIdentity("person_b", b)>>,
         individual |-> analysis.persons, pillars |-> <<Shown(chartA), Shown(chartB)>>,
         ledgers |-> <<analysis.charts[1].ledger, analysis.charts[2].ledger>>,
         pair |-> analysis.pair, blocks |-> analysis.blocks,
         warnings |-> analysis.warnings, evidence |-> analysis.evidence, mode |-> mode,
         precision |-> <<Provisional(a.asked, {"hour"}), Provisional(b.asked, {"hour"})>>]
    IN  Of(Analysis(chartA, chartB, <<a.asked.timeKnown, b.asked.timeKnown>>,
                    <<a.gender, b.gender>>))
(* What the framework lets through.                                        *)
Subjects == {"person_a", "person_b"}
StemSources == {"visible"} \cup Range(StemSource)
LedgerModel == Seq([pillar : 1 .. 4, stem : 0 .. 9, phase : Phases, source : StemSources,
                    weight : {10, 5, 3}])
IndividualModel ==
    [dayMaster : 0 .. 9, phase : Phases,
     monthCommand : [branch : 0 .. 11, stem : 0 .. 9, phase : Phases],
     spousePalace : [branch : 0 .. 11, hidden : Seq(0 .. 9)], vector : [Phases -> Nat],
     spouseStar : [gender : Genders, status : {"CALCULATED", "PENDING_TABLES"},
                   blockedBy : {"", "GENDER_NOT_PROVIDED", "MISSING-008"},
                   occurrences : Seq([pillar : 1 .. 4, source : StemSources, stem : 0 .. 9,
                                      role : {"primary", "disruption"}])]]
WarningModel == [code : {"DAY_ANCHOR_UNVERIFIED", "BIRTH_TIME_UNKNOWN"},
                 subject : Subjects \cup {"ruleset"}]
EvidenceModel == ({"pair"} \X Range(Layers))
                 \cup {WarningEvidence(w) : w \in WarningModel}
BlockModel == [id : (Range(Layers) \X (1 .. 2))
                    \cup {<<"warnings", w.subject, w.code>> : w \in WarningModel},
               type : {"CALCULATED_FACT", "RULE_APPLICATION", "SOURCE_STATUS", "WARNING"},
               status : {"CALCULATED", "NEEDS_DOMAIN_REVIEW"}, evidence : SUBSET EvidenceModel]
IsMatchResponse(body) ==
    /\ \A i \in 1 .. 2 : /\ body.subjects[i].role \in Subjects
                         /\ body.individual[i] \in IndividualModel
                         /\ body.ledgers[i] \in LedgerModel
    /\ \A k \in 1 .. 3 : /\ body.pair[k].name = Layers[k]
                         /\ body.pair[k].evidence \subseteq EvidenceModel
    /\ body.blocks \in Seq(BlockModel) /\ body.warnings \in Seq(WarningModel)
    /\ body.evidence \subseteq EvidenceModel /\ body.mode \in {"SWIEPH", "MOSEPH"}
ServedMatch(body) ==
    IF IsMatchResponse(body) THEN Answer(body) ELSE Refused(500, "ResponseValidationError")

(* Both charts are there to be analysed: the demand is counted then, before *)
(* the response is built.  The mode shown is the one configured.           *)
Analysed(a, b, consent, eph) ==
    consent /\ ~Fails(ComputePersonChart(a, Found(eph, "bazi")))
            /\ ~Fails(ComputePersonChart(b, Found(eph, "other")))
MatchBaziHehun(a, b, consent, eph) ==
    IF ~consent THEN Refused(422, "consent_required")
    ELSE Respond(ComputePersonChart(a, Found(eph, "bazi")), LAMBDA mine :
             Respond(ComputePersonChart(b, Found(eph, "other")), LAMBDA yours :
                 ServedMatch(MatchBody(a, b, mine.chart, yours.chart, eph.mode))))
=============================================================================
