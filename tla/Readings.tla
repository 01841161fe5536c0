------------------------------ MODULE Readings ------------------------------
(***************************************************************************)
(* A client asks the calculation endpoints about one birth, in any order,  *)
(* while the ephemeris files may go missing and come back, between two     *)
(* questions and in the middle of one.  The answers are kept, so that what *)
(* one endpoint says can be held against another.                          *)
(***************************************************************************)
EXTENDS Experience, Match

CONSTANTS Births,       \* the births: name -> record of BirthType
          Clients,      \* whose birth, and which of the Requests: {<<name, request>>}
          Givens,       \* pillars a client sends: {} or {chart}
          Couples,      \* the second person of a pair analysis, genders, key
          Outages,      \* what one request may miss: sets of Uses
          MaxOutages,   \* how many answers kept may have met an outage
          MaxAnswers    \* how many answers are kept

ASSUME ReadingsAssumption ==
    /\ Clients \subseteq (DOMAIN Births) \X Requests /\ MaxAnswers \in Nat
    /\ Outages \subseteq SUBSET Uses /\ MaxOutages \in Nat
    /\ Couples \subseteq [other : DOMAIN Births, timeKnown : BOOLEAN,
                          genders : Genders \X Genders, key : TeamKeys \cup {NoKey}]
ASSUME BirthsAssumption ==
    /\ Epoch \in Int
    /\ \A name \in DOMAIN Births : Births[name] \in BirthType

VARIABLES
    birth, asked,       \* whose birth, and how it is asked about
    mode,               \* the configured ephemeris
    answers,            \* question -> [answer, eph]: and what it met
    consents,           \* consent decisions logged
    counts              \* pair analyses by class of caller

vars == <<birth, asked, mode, answers, consents, counts>>

Chosen == Births[birth]
Init ==
    /\ \E client \in Clients : birth = client[1] /\ asked = client[2]
    /\ mode \in {"SWIEPH", "MOSEPH"}
    /\ answers = << >> /\ consents = 0
    /\ counts = [team |-> 0, external |-> 0]

(* A question is the name of its endpoint and what is particular to it.    *)
(* Pillars a client sends are not computed; a day's planets found in the   *)
(* transit cache are used only where the files are found again.  The       *)
(* built-in ephemeris has no files to miss.                                *)
Questions == DOMAIN answers
Sent(q) == q[1] \in {"fusion", "vector-map"} /\ q[2] # {}
UsesOf(q) ==
    CASE q[1] \in {"tst", "delta"} -> {}
      [] q[1] = "natal" -> {"bazi"}
      [] q[1] \in {"bazi", "trace", "bazi/wuxing"} -> {"bazi", "mode"}
      [] q[1] = "wuxing" \/ Sent(q) -> {"western"}
      [] q[1] = "chronometry" -> {"frame"}
      [] q[1] = "personalize" -> {"bazi", "mode", "western", "frame"}
      [] q[1] = "match" -> {"bazi", "other"}
      [] q[1] = "impact" -> {"bazi", "western", "transit"}
      [] q[1] = "daily" -> {"bazi", "western", "transit", "term"}
                           \cup (IF q[3] = {} THEN {} ELSE {"impact"})
      [] q[1] = "eastern" -> {"term"}
      [] OTHER -> {"bazi", "western"}
Impaired == {q \in Questions : answers[q].eph.lost # {}}
Keep(question, answer, eph) ==
    /\ question \notin Questions /\ eph.lost \subseteq UsesOf(question)
    /\ eph.lost # {} => mode = "SWIEPH" /\ Cardinality(Impaired) < MaxOutages
    /\ answers' = [q \in Questions \cup {question} |->
                      IF q = question THEN [answer |-> answer, eph |-> eph] ELSE answers[q]]
    /\ UNCHANGED <<birth, asked, mode>>
KeepOnly(question, answer, eph) ==
    Keep(question, answer, eph) /\ UNCHANGED <<consents, counts>>

AskBazi(eph) == KeepOnly(<<"bazi">>, Bazi(Chosen, asked, eph), eph)
AskBaziTrace(eph) == KeepOnly(<<"trace">>, BaziTrace(Chosen, asked, eph), eph)
AskBaziWuXing(eph) == KeepOnly(<<"bazi/wuxing">>, BaziWuXing(Chosen, asked, eph), eph)
AskNatal(eph) == KeepOnly(<<"natal">>, Natal(Chosen, asked, eph), eph)
AskWuXing(eph) == KeepOnly(<<"wuxing">>, WuXingEndpoint(Chosen, asked, eph), eph)
AskFusion(eph) == \E given \in Givens :
    KeepOnly(<<"fusion", given>>, FusionEndpoint(Chosen, asked, given, eph), eph)
AskVectorMap(eph) == \E given \in Givens :
    KeepOnly(<<"vector-map", given>>, VectorMapEndpoint(Chosen, asked, given, eph), eph)
AskTst(eph) == KeepOnly(<<"tst">>, Tst(Chosen, asked), eph)
AskChart(eph) == \E policy \in DstPolicies : \E validate \in {FALSE, policy = "error"} :
    KeepOnly(<<"chart", policy, validate>>,
             ChartEndpoint(Chosen, asked, policy, validate, eph), eph)
AskChronometry(eph) == \E dateOnly \in BOOLEAN :
    KeepOnly(<<"chronometry", dateOnly>>, Chronometry(Chosen, asked, dateOnly, eph), eph)
AskPersonalize(eph) == \E location \in Locations :
    KeepOnly(<<"personalize", location>>,
             Personalize(Chosen, asked.timeKnown, location, eph), eph)

(* A program may also import the package and diagnose a chart by itself.   *)
Diagnose(eph) ==
    LET western == WesternOf(Chosen, asked, Found(eph, "western"))
        bazi == BaziOf(Chosen, asked, "midnight", Found(eph, "bazi"))
    IN  /\ ~Fails(western) /\ ~Fails(bazi)
        /\ KeepOnly(<<"diagnosis">>,
                    Answer(Diagnosis(western.value.bodies, bazi.value.chart)), eph)

(* An app keeps the profile of a birth, asks what a question of the quiz    *)
(* changes, and what a day brings; it sends back what it was told.         *)
Bootstrapped == <<"bootstrap">> \in Questions /\ answers[<<"bootstrap">>].answer.status = 200
Told == answers[<<"bootstrap">>].answer.body
KnownSoulprint == IF Bootstrapped THEN Told.soulprint ELSE Equal
CivilDay == Chosen.wall \div 1440
Days == {CivilDay, CivilDay + 1}
Keywords == DOMAIN Affinity \cup {"unheard of"}

AskBootstrap(eph) == KeepOnly(<<"bootstrap">>, Bootstrap(Chosen, eph), eph)
AskDelta(eph) == \E keyword \in Keywords, whole \in BOOLEAN :
    /\ Bootstrapped
    /\ KeepOnly(<<"delta", keyword, whole>>,
                SignatureDelta(Told.soulprint, IF whole THEN {Told.signature} ELSE {}, keyword),
                eph)
AskDaily(eph) == \E day \in Days, weathers \in {{}} \cup {{w} : w \in Weathers} :
    KeepOnly(<<"daily", day, weathers>>,
             Daily(Chosen, asked.timeKnown, KnownSoulprint, Equal, day, weathers, eph), eph)
AskImpact(eph) == \E day \in Days, weather \in Weathers :
    KeepOnly(<<"impact", day, weather>>,
             ImpactActive(Chosen, day,
                          IF Bootstrapped THEN <<SectorsToWuXing(Told.soulprint)>> ELSE << >>,
                          weather, eph), eph)
(* A program that imports the package asks for a day in the east.          *)
AskEastern(eph) == \E day \in Days, dayMaster \in {0, 5} :
    KeepOnly(<<"eastern", day, dayMaster>>,
             Answer(EasternDaily(Chosen, dayMaster, day, Found(eph, "term"))), eph)

(* Consent is logged before anything is computed, and the demand counted   *)
(* once the analysis is there, whether it can be delivered or not.         *)
DemandOnArrival(key, analysed) == [counts EXCEPT ![ClassifyCaller(key)] = @ + 1]
Demand(key, analysed) ==
    IF analysed THEN [counts EXCEPT ![ClassifyCaller(key)] = @ + 1] ELSE counts
AskMatch(eph) ==
    \E couple \in Couples, swapped \in BOOLEAN, consent \in BOOLEAN :
        LET me == Person(birth, Chosen, asked, couple.genders[1])
            you == Person(couple.other, Births[couple.other],
                          [Defaults EXCEPT !.timeKnown = couple.timeKnown], couple.genders[2])
            first == IF swapped THEN you ELSE me
            second == IF swapped THEN me ELSE you
        IN  /\ Keep(<<"match", couple, swapped, consent>>,
                    MatchBaziHehun(first, second, consent, eph), eph)
            /\ consents' = consents + 1
            /\ counts' = Demand(couple.key, Analysed(first, second, consent, eph))

Next ==
    /\ Cardinality(Questions) < MaxAnswers
    /\ \E lost \in Outages : LET eph == [mode |-> mode, lost |-> lost] IN
        \/ AskBazi(eph) \/ AskBaziTrace(eph) \/ AskBaziWuXing(eph) \/ AskNatal(eph)
        \/ AskWuXing(eph) \/ AskFusion(eph) \/ AskVectorMap(eph) \/ AskTst(eph) \/ AskChart(eph)
        \/ AskChronometry(eph) \/ AskPersonalize(eph) \/ AskMatch(eph) \/ Diagnose(eph)
        \/ AskBootstrap(eph) \/ AskDelta(eph) \/ AskDaily(eph) \/ AskImpact(eph) \/ AskEastern(eph)
Spec == Init /\ [][Next]_vars

(* The same client may instead be a voice agent that asks by webhook.      *)
AskByWebhook(eph) == \E hook \in Hooks :
    KeepOnly(<<"webhook", hook>>, Webhook(Chosen, asked, hook, eph), eph)
WebhookNext ==
    /\ Cardinality(Questions) < MaxAnswers
    /\ \E lost \in Outages : AskByWebhook([mode |-> mode, lost |-> lost])
WebhookSpec == Init /\ [][WebhookNext]_vars

-----------------------------------------------------------------------------
To(endpoint) == {q \in Questions : q[1] = endpoint}
Answered == {q \in Questions : answers[q].answer.status = 200}
AnsweredBy(endpoints) == {q \in Answered : q[1] \in endpoints}
Body(q) == answers[q].answer.body

(* The birth and the request as the endpoint reads them.                   *)
Read(q) ==
    CASE q[1] = "chart" -> PolicyOf(asked, q[2])
      [] q[1] \in {"personalize", "bootstrap", "daily", "impact"} ->
             PersonalizeAsks(asked.timeKnown)
      [] OTHER -> asked
BirthRead(q) == IF q = <<"chronometry", TRUE>> THEN Midnight(Chosen) ELSE Chosen
Inexistent(b, a) == Instants(b.place, b.wall) = {} /\ a.nonexistent = "error"
NoInstant(q) ==
    \/ q[1] \notin {"delta", "eastern"} /\ Inexistent(BirthRead(q), Read(q))
    \/ q[1] = "match" /\ Inexistent(Births[q[2].other], Defaults)
Placed(q) == q[1] = "personalize" => q[2] \in {"coordinates", "found"}
Consented(q) == q[1] = "match" => q[4]

TypeOK ==
    /\ <<birth, asked>> \in Clients
    /\ mode \in {"SWIEPH", "MOSEPH"}
    /\ \A q \in Questions :
           IF q \in Answered THEN "body" \in DOMAIN answers[q].answer
                             ELSE answers[q].answer.error \in STRING
    /\ consents \in Nat /\ counts \in [{"team", "external"} -> Nat]

(* A failure blames who is to blame, and there is no answer but a failure  *)
(* where someone is.  422: there is no such time, or no consent, and the   *)
(* client can mend it.  503: the ephemeris was missing where it is needed, *)
(* if only to one of several uses.  500: no house system works at the      *)
(* place.  The impact of a day blames the client for whatever fails of the *)
(* western chart, though, its houses and the ephemeris alike.  What an     *)
(* endpoint computes falls out of its response model in two cases only: a  *)
(* planet of the day that counts, or the body of the birth it is nearest   *)
(* to, lies so near the end of the circle that it is rounded past it.      *)
NeedsHouses == {"wuxing", "fusion", "vector-map", "chart", "personalize", "bootstrap", "daily"}
LostOf(q) == answers[q].eph.lost
BlamedOnClient(q) == IF q[1] = "impact" THEN {"western"} ELSE {}
PassedOverIn(q) == IF q[1] \in {"daily", "eastern"} THEN {"term", "impact"} ELSE {}
Overrun(day) ==
    LET natal == Longitudes(Chosen, Reading(Chosen.place, Chosen.wall, 0))
        transit == TransitOf(day)
        Past(longitude, orbs) ==
            /\ Matches(orbs) # {}
            /\ FullShown \in {ToHundredths(longitude), ToHundredths(natal[Best(orbs)])}
    IN  \E p \in DOMAIN transit : Past(transit[p].longitude, Orbs(transit[p].longitude, natal))
Reasons(q) ==
    {s \in {422, 500, 503} :
        \/ s = 422 /\ (~Consented(q) \/ NoInstant(q) \/ LostOf(q) \cap BlamedOnClient(q) # {})
        \/ s = 422 /\ q[1] = "impact" /\ Chosen.houses = "none"
        \/ s = 503 /\ LostOf(q) \ (BlamedOnClient(q) \cup PassedOverIn(q)) # {}
        \/ s = 500 /\ q[1] \in NeedsHouses /\ Chosen.houses = "none"
        \/ s = 500 /\ q[1] = "impact" /\ ~NoInstant(q) /\ Overrun(q[2])}

(* What goes wrong without a refusal does little harm.  The reading of a   *)
(* day leaves out what the planets do only where their own endpoint fails. *)
(* A keyword that is not known only evens the sectors out.  And the solar  *)
(* term of a day, which a program is told even while the ephemeris is      *)
(* missing, is never more than one away from the one the sun is in.        *)
EasternIn(q) == IF q[1] = "daily" THEN Body(q).eastern ELSE Body(q)
PassedOver ==
    /\ \A q \in AnsweredBy({"daily"}) :
           Body(q).impact = {} <=> q[3] = {} \/ Overrun(q[2]) \/ "impact" \in LostOf(q)
    /\ \A q \in AnsweredBy({"delta"}) :
           q[2] \notin DOMAIN Affinity /\ q[3] =>
               Body(q).delta.contrast < 0 /\ Body(q).delta.density < 0
    /\ \A q \in AnsweredBy({"daily", "eastern"}) :
           EasternIn(q).jieqi \in {(TermAt(Chosen, NoonOf(q[2])) + d) % 24 : d \in {-1, 0, 1}}

(* A failure has one of its reasons, and what has none succeeds; but for   *)
(* what is passed over.                                                    *)
ErrorsTruthful ==
    /\ TypeOK
    /\ \A q \in Questions :
        LET status == answers[q].answer.status
            reasons == Reasons(q)
        IN  /\ Placed(q) /\ reasons = {} => status = 200
            /\ Placed(q) /\ reasons # {} => status \in reasons
            /\ ~Placed(q) => status \in {404, 422, 503}
    /\ PassedOver

(* Every endpoint that shows the instant of the birth, its apparent solar  *)
(* time or its solar term shows the same, although each resolves the wall  *)
(* time on its own and the BaZi engine resolves the result once more.      *)
InstantIn(q) ==
    CASE q[1] \in {"bazi", "trace", "chronometry"} -> Body(q).at
      [] q[1] = "personalize" -> Body(q).chronometry.at
      [] q[1] = "chart" -> Body(q).time.at
SolarTimesIn(q) ==
    CASE q[1] = "trace" -> {Body(q).trace.clock.solar}
      [] q[1] = "personalize" -> {Body(q).trace.clock.solar} \cup Body(q).chronometry.solar
      [] q[1] = "chronometry" -> Body(q).solar
      [] q[1] = "chart" -> {Body(q).time.solar}
      [] q[1] \in {"tst", "wuxing"} -> {Body(q).solar}
SameTime(q, r) ==
    /\ BirthRead(q) = BirthRead(r)
    /\ Read(q).ambiguous = Read(r).ambiguous /\ Read(q).nonexistent = Read(r).nonexistent
OneInstant ==
    /\ \A q, r \in AnsweredBy({"bazi", "trace", "chronometry", "personalize", "chart"}) :
           SameTime(q, r) => InstantIn(q) = InstantIn(r)
    /\ \A q, r \in AnsweredBy({"trace", "chronometry", "personalize", "chart", "tst", "wuxing"}) :
           SameTime(q, r) => Cardinality(SolarTimesIn(q) \cup SolarTimesIn(r)) <= 1
    /\ \A q \in AnsweredBy({"trace"}), r \in AnsweredBy({"chronometry"}) :
           SameTime(q, r) => Body(q).trace.term \in {Body(r).term, (Body(r).term - 1) % 24}

(* Three tables give the hidden stems of a branch: what the natal chart    *)
(* and the pair analysis read from the ruleset, the phases and weights     *)
(* that BaZi WuXing reads from its own, and the vector that fusion and     *)
(* chart sum up without a ledger.  They tell the same; and the pillar of a *)
(* day is the day pillar of a birth on it, by the clock of the sun.        *)
Plain(pillars) == [i \in 1 .. 4 |-> [stem |-> pillars[i].stem, branch |-> pillars[i].branch]]
PillarsIn(q) ==
    IF q[1] = "match" THEN Plain(Body(q).pillars[IF q[3] THEN 2 ELSE 1])
    ELSE Plain(Body(q).pillars)
VectorIn(q) ==
    CASE q[1] = "bazi/wuxing" -> Body(q).vector
      [] q[1] = "chart" -> Body(q).wuxing.bazi
      [] q[1] \in {"fusion", "vector-map"} -> Body(q).bazi
      [] q[1] = "match" -> Body(q).individual[IF q[3] THEN 2 ELSE 1].vector
HiddenIn(natal) ==
    UNION {{<<i, h.phase, h.weight>> : h \in Range(Body(natal).pillars[i].hidden)} : i \in 1 .. 4}
HiddenInLedger(q) ==
    LET ledger == Body(q).ledger
    IN  {<<ledger[k].pillar, ledger[k].phase, ledger[k].weight>> :
            k \in {j \in DOMAIN ledger : ledger[j].source # "stem"}}
SameChart(q, r) ==
    /\ SameTime(q, r)
    /\ asked.boundary = "midnight"
       \/ {q[1], r[1]} \cap {"fusion", "vector-map", "personalize"} = {}
LedgersAgree ==
    /\ \A q, r \in AnsweredBy({"bazi", "trace", "bazi/wuxing", "natal", "chart", "match"}) :
           SameTime(q, r) => PillarsIn(q) = PillarsIn(r)
    /\ \A q, r \in AnsweredBy({"bazi/wuxing", "chart", "fusion", "vector-map", "match"}) :
           SameChart(q, r) /\ ~Sent(q) /\ ~Sent(r) => VectorIn(q) = VectorIn(r)
    /\ \A q \in AnsweredBy({"natal"}), r \in AnsweredBy({"bazi/wuxing"}) :
           HiddenIn(q) = HiddenInLedger(r)
    /\ \A q \in AnsweredBy({"bazi"}), r \in AnsweredBy({"daily", "eastern"}) :
           LET u == Body(q).at
               day == CivilAt(Chosen.place, u) \div 1440 + SolarTime(Chosen, u).rollover
           IN  asked.standard = "TLST" /\ asked.boundary = "midnight" /\ day = r[2]
               => Plain(Body(q).pillars)[3] =
                      [stem |-> EasternIn(r).pillar.stem, branch |-> EasternIn(r).pillar.branch]

(* The pair analysis and the decades name the relation of a stem to the    *)
(* day master in two ways, each with a table of its own.  Of every stem of *)
(* a natal chart, visible or hidden, both names mean the same god.  So do  *)
(* the relation a day in the east has to the day master, and the resonance *)
(* of a planet of the day, each by tables of cycles of its own.            *)
GodNames ==
    {<<"Friend", "Bi Jian">>, <<"RobWealth", "Jie Cai">>, <<"EatingGod", "Shi Shen">>,
     <<"HurtingOfficer", "Shang Guan">>, <<"IndirectWealth", "Pian Cai">>,
     <<"DirectWealth", "Zheng Cai">>, <<"SevenKilling", "Qi Sha">>,
     <<"DirectOfficer", "Zheng Guan">>, <<"IndirectRes", "Pian Yin">>,
     <<"DirectRes", "Zheng Yin">>}
TenGodsIn(pillar) ==
    pillar.tenGod \cup {pillar.hidden[k].tenGod : k \in DOMAIN pillar.hidden}
RelationOfGod ==
    [companion |-> "same_element", output |-> "produced_by_day_master",
     wealth |-> "controlled_by_day_master", power |-> "controls_day_master",
     resource |-> "produces_day_master"]
ResonanceOf ==
    [companion |-> "gleichklang", output |-> "naehrung", resource |-> "naehrung",
     wealth |-> "kontrolle", power |-> "kontrolle"]
ImpactsIn(q) == IF q[1] = "daily" THEN Body(q).impact ELSE {Body(q)}
TenGodsAgree ==
    /\ \A q \in AnsweredBy({"natal"}) : \A i \in 1 .. 4 :
           \A god \in TenGodsIn(Body(q).pillars[i]) : <<god.name, god.pinyin>> \in GodNames
    /\ \A q \in AnsweredBy({"daily", "eastern"}) :
           LET day == EasternIn(q)
           IN  RelationOfGod[day.relation]
                   = RelationToDayMaster(day.pillar.stem, day.dayMaster).relation
    /\ \A q \in AnsweredBy({"daily", "impact"}) : \A impact \in ImpactsIn(q) :
           \A p \in impact.active :
               p.resonance.type
                   = ResonanceOf[DetermineRelation(impact.dayMaster, p.resonance.element)]

(* Who is named first makes no difference but to the sides: the analysis   *)
(* of two persons is the analysis of the same two in the other order, seen *)
(* from the other side.  Nor does it matter to the zones and tensions of a *)
(* diagnosis which of the two vectors is the western one.                  *)
Flip(pair) == <<pair[2], pair[1]>>
FlipRelation(relation) ==
    CASE relation = "same_element" -> "same_element"
      [] relation = "a_generates_b" -> "b_generates_a"
      [] relation = "b_generates_a" -> "a_generates_b"
      [] relation = "a_controls_b" -> "b_controls_a"
      [] relation = "b_controls_a" -> "a_controls_b"
MirrorOf(analysis, other) ==
    /\ analysis.individual = Flip(other.individual)
    /\ analysis.ledgers = Flip(other.ledgers)
    /\ LET mine == [k \in 1 .. 3 |-> analysis.pair[k].facts]
           yours == [k \in 1 .. 3 |-> other.pair[k].facts]
       IN  /\ mine[1].relation = FlipRelation(yours[1].relation)
           /\ mine[1].sameStem = yours[1].sameStem /\ mine[1].sameElement = yours[1].sameElement
           /\ mine[2].branches = Flip(yours[2].branches)
           /\ mine[3].vectors = Flip(yours[3].vectors)
Other(side) == CASE side = "west" -> "bazi" [] side = "bazi" -> "west" [] OTHER -> side
DiagnosisMirrored(d) ==
    LET other == Report(d.bazi, d.west)
    IN  /\ d.zones = ClassifyZones(d.bazi, d.west)
        /\ {[phase |-> t.phase, side |-> t.side] : t \in d.report.questions.tension}
               = {[phase |-> t.phase, side |-> Other(t.side)] : t \in other.questions.tension}
        /\ {<<Other(t[1]), t[2]>> : t \in CrossTensions(d.west, d.bazi)}
               = CrossTensions(d.bazi, d.west)
PairMirrored ==
    /\ \A q, r \in AnsweredBy({"match"}) :
           q[2] = r[2] /\ q[3] # r[3] => MirrorOf(Body(q), Body(r))
    /\ \A q \in AnsweredBy({"diagnosis"}) : DiagnosisMirrored(Body(q))

(* Every statement of a pair analysis rests on evidence that is listed,    *)
(* all evidence listed is used, no two statements have one name, and what  *)
(* is uncertain about either person is said of that person, once.          *)
EvidenceComplete ==
    \A q \in AnsweredBy({"match"}) :
        LET blocks == Body(q).blocks
            warned == [k \in DOMAIN Body(q).warnings |-> Body(q).warnings[k]]
            Unknowns == {i \in 1 .. 2 : Body(q).subjects[i].timePrecision = "unknown"}
        IN  /\ UNION {blocks[k].evidence : k \in DOMAIN blocks} = Body(q).evidence
            /\ IsInjective([k \in DOMAIN blocks |-> blocks[k].id])
            /\ IsInjective(warned)
            /\ {w.subject : w \in {x \in Range(warned) : x.code = "BIRTH_TIME_UNKNOWN"}}
                   = {Body(q).subjects[i].role : i \in Unknowns}

(* Nobody's pair is analysed without consent, every decision is logged,    *)
(* and the demand, counted before there is a response, counts each analysis*)
(* that had nothing in its way, and no other.  That these and no other are *)
(* delivered is for ErrorsTruthful to say.                                 *)
MatchAccounted ==
    /\ \A q \in AnsweredBy({"match"}) : q[4]
    /\ consents = Cardinality(To("match"))
    /\ counts.team + counts.external = Cardinality({q \in To("match") : Reasons(q) = {}})

(* Fusion does not claim what it has not got.  Without a vector on either  *)
(* side nothing is calibrated and the text says so; the calibrated value   *)
(* never exceeds the raw one; a chart is exact, for without an ascendant   *)
(* there is none; the vector map shows the same nearness, and the profile  *)
(* of an app the calibrated one.                                           *)
FusionHonest ==
    /\ \A q \in AnsweredBy({"fusion"}) :
           LET c == Body(q).calibration
               empty == IsZero(Body(q).west) \/ IsZero(Body(q).bazi)
           IN  /\ empty <=> c.quality = "degenerate"
               /\ empty => c.calibrated = 0 /\ c.band = "undefined"
                           /\ Body(q).text.coherence = "reduced" /\ Body(q).harmony = 0
               /\ c.calibrated <= c.raw
               /\ c.quality = "ok" => c.west >= 3 /\ c.bazi >= 8
               /\ Body(q).quality = "exact"
    /\ \A q \in AnsweredBy({"fusion"}), r \in AnsweredBy({"vector-map"}) :
           q[2] = r[2] => Body(q).harmony = Body(r).cosine
    /\ \A q \in AnsweredBy({"fusion"}), r \in AnsweredBy({"bootstrap"}) :
           asked.standard = "TLST" /\ ~Sent(q) /\ SameTime(q, r)
           => Body(q).calibration.calibrated = Body(r).harmony

(* A birth whose time is not known is never shown as one that is: what     *)
(* hangs on the time is marked, and the chronometry frame neither grades   *)
(* itself exact, or as only degraded, nor shows a solar time.              *)
ProvisionalFlagged ==
    /\ \A q \in AnsweredBy({"bazi", "trace", "bazi/wuxing", "natal", "fusion"}) :
           asked.timeKnown <=> Body(q).provisional = {}
    /\ \A q \in AnsweredBy({"chronometry"}) :
           LET known == asked.timeKnown /\ ~q[2]
           IN  /\ Body(q).grade = "unknown_time" <=> ~known
               /\ known <=> Body(q).solar # {}
               /\ Body(q).grade = "exact" => mode = "SWIEPH"
    /\ \A q \in AnsweredBy({"daily"}) :
           Body(q).flags.chart = "assumed_day" <=> ~asked.timeKnown

(* What an app is told of a birth agrees, though it carries it itself from *)
(* one endpoint to the next.  A question of the quiz changes nothing of    *)
(* the phases when the app sends its signature; the day in the east is of  *)
(* the day master the app was told; and what a day's reading says of the   *)
(* planets is what their own endpoint says, but for what depends on the    *)
(* sectors sent.                                                           *)
AppAgrees ==
    /\ \A q \in AnsweredBy({"delta"}) :
           q[3] => /\ Body(q).signature.elements = Told.signature.elements
                   /\ Body(q).delta.curvature = 0
    /\ \A q \in AnsweredBy({"bootstrap"}), r \in AnsweredBy({"daily"}) :
           Body(q).dayMaster = Body(r).eastern.dayMaster
    /\ \A q \in AnsweredBy({"daily"}), r \in AnsweredBy({"impact"}) :
           q[2] = r[2] /\ q[3] = {r[3]} => \A impact \in Body(q).impact :
               \A part \in {"active", "badges", "top", "dayMaster", "weather", "partial"} :
                   impact[part] = Body(r)[part]

(* The webhook answers a request that is in order: the guide that sets up  *)
(* the voice agent shows the data it gets (ELEVENLABS_SETUP.md).           *)
WebhookAnswers ==
    \A q \in To("webhook") :
        /\ q[2].configured /\ q[2].authentic /\ q[2].wellFormed /\ q[2].place # "unfound"
        /\ q[2].timeGiven /\ LostOf(q) = {} /\ Chosen.houses # "none"
        /\ ~Inexistent(Chosen, asked)
        => answers[q].answer.status = 200
=============================================================================
