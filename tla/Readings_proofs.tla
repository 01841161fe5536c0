-------------------------- MODULE Readings_proofs --------------------------
(***************************************************************************)
(* Proofs about what the endpoints say of one birth, for any births, any   *)
(* requests and any couples that are asked about.                          *)
(*                                                                         *)
(* A client asks, and everything that was ever answered stays.  So the     *)
(* inductive invariant is short (IInv): each answer kept is the answer of  *)
(* its endpoint to its question, with the ephemeris that was there at that *)
(* moment.  The properties compare answers that were given at different    *)
(* moments; from the invariant each of them is a question about the        *)
(* endpoints, and what it needs to know of them is written out before it:  *)
(* an answer that succeeded shows what its handler computed, and what      *)
(* several handlers compute on their own comes out the same.               *)
(*                                                                         *)
(* An endpoint is handed a time in one form and the engine in another, so  *)
(* that the same wall time is resolved twice (ReadAgain).  Vectors are     *)
(* sums, and their lengths are roots (UnitIsNatural).  Texts and ledgers   *)
(* are sequences put together from others, and warnings are folded.        *)
(***************************************************************************)
EXTENDS Readings, Calendar_proofs, FiniteSetTheorems, SequenceTheorems

-----------------------------------------------------------------------------
(* What is kept of a question: every answer is what its endpoint answers,  *)
(* whatever has happened since.                                            *)

(* The person who asks, as a pair analysis takes it.                       *)
Me(name, a, couple) == Person(name, Births[name], a, couple.genders[1])
(* The other person of a couple, who is asked about with the defaults.     *)
You(couple) ==
    Person(couple.other, Births[couple.other], [Defaults EXCEPT !.timeKnown = couple.timeKnown],
           couple.genders[2])
(* The pair analysis of both, in the order asked for.                      *)
NamedFirst(name, a, couple, swapped) == IF swapped THEN You(couple) ELSE Me(name, a, couple)
NamedSecond(name, a, couple, swapped) == IF swapped THEN Me(name, a, couple) ELSE You(couple)
Hehun(name, a, couple, swapped, consent, e) ==
    MatchBaziHehun(NamedFirst(name, a, couple, swapped), NamedSecond(name, a, couple, swapped),
                   consent, e)
(* And that both charts of it were there to be analysed.                   *)
Arrived(name, a, couple, swapped, consent, e) ==
    Analysed(NamedFirst(name, a, couple, swapped), NamedSecond(name, a, couple, swapped),
             consent, e)

(* What is kept of an endpoint about one birth is what that endpoint       *)
(* answers, with the ephemeris found at that moment; of a diagnosis, that  *)
(* both sides of it were computed.                                         *)
ChartSaid(b, a, q, e) ==
    /\ q[1] = "bazi" => e.answer = Bazi(b, a, e.eph)
    /\ q[1] = "trace" => e.answer = BaziTrace(b, a, e.eph)
    /\ q[1] = "bazi/wuxing" => e.answer = BaziWuXing(b, a, e.eph)
    /\ q[1] = "natal" => e.answer = Natal(b, a, e.eph)
    /\ q[1] = "wuxing" => e.answer = WuXingEndpoint(b, a, e.eph)
    /\ q[1] = "fusion" => e.answer = FusionEndpoint(b, a, q[2], e.eph)
    /\ q[1] = "vector-map" => e.answer = VectorMapEndpoint(b, a, q[2], e.eph)
    /\ q[1] = "tst" => e.answer = Tst(b, a)
    /\ q[1] = "chart" => e.answer = ChartEndpoint(b, a, q[2], q[3], e.eph)
    /\ q[1] = "diagnosis" =>
           /\ ~Fails(WesternOf(b, a, Found(e.eph, "western")))
           /\ ~Fails(BaziOf(b, a, "midnight", Found(e.eph, "bazi")))
           /\ e.answer =
                  Answer(Diagnosis(WesternOf(b, a, Found(e.eph, "western")).value.bodies,
                                   BaziOf(b, a, "midnight", Found(e.eph, "bazi")).value.chart))
(* The same of the two endpoints that frame a prompt.                      *)
PromptSaid(b, a, q, e) ==
    /\ q[1] = "chronometry" => /\ q[2] \in BOOLEAN /\ q = <<"chronometry", q[2]>>
                               /\ e.answer = Chronometry(b, a, q[2], e.eph)
    /\ q[1] = "personalize" => e.answer = Personalize(b, a.timeKnown, q[2], e.eph)
(* The days an app asks about: the civil day of the birth and the next.    *)
DaysOf(b) == {b.wall \div 1440, b.wall \div 1440 + 1}
(* The same of an app's endpoints, of whatever soulprint it carries along. *)
AppSaid(b, a, q, e) ==
    /\ q[1] = "bootstrap" => e.answer = Bootstrap(b, e.eph)
    /\ q[1] = "daily" =>
           /\ q[2] \in DaysOf(b)
           /\ \E soulprint : e.answer = Daily(b, a.timeKnown, soulprint, Equal, q[2], q[3], e.eph)
    /\ q[1] = "impact" => \E sectors : e.answer = ImpactActive(b, q[2], sectors, q[3], e.eph)
    /\ q[1] = "eastern" => /\ q[2] \in DaysOf(b) /\ q[3] \in 0 .. 9
                           /\ e.answer = Answer(EasternDaily(b, q[3], q[2], Found(e.eph, "term")))
(* The same of a pair analysis, which also says who was asked about.       *)
MatchSaid(name, a, q, e) ==
    q[1] = "match" => /\ q = <<"match", q[2], q[3], q[4]>>
                      /\ q[2] \in Couples /\ q[3] \in BOOLEAN /\ q[4] \in BOOLEAN
                      /\ e.answer = Hehun(name, a, q[2], q[3], q[4], e.eph)
(* What the entry e says of question q is what the endpoint answers.       *)
Said(name, a, q, e) ==
    /\ ChartSaid(Births[name], a, q, e) /\ PromptSaid(Births[name], a, q, e)
    /\ AppSaid(Births[name], a, q, e) /\ MatchSaid(name, a, q, e)

(* The ephemerides a request can meet, with the mode m configured.         *)
Ephemerides(m) == {eph \in Ephemeris : eph.mode = m}
(* Whose birth it is and which ephemeris is configured never change.       *)
Settings ==
    /\ <<birth, asked>> \in Clients
    /\ mode \in {"SWIEPH", "MOSEPH"}
    /\ IsFiniteSet(Questions)
(* Every answer kept is the answer of its endpoint to its question, and    *)
(* only what the endpoint uses was ever missing.                           *)
AnswersSaid ==
    \A q \in Questions :
        /\ answers[q].eph \in Ephemerides(mode) /\ LostOf(q) \subseteq UsesOf(q)
        /\ Said(birth, asked, q, answers[q])
(* The counters are numbers, and each decision and each analysis are       *)
(* accounted for.                                                          *)
Arrivals == {q \in To("match") : Arrived(birth, asked, q[2], q[3], q[4], answers[q].eph)}
Counted ==
    /\ consents \in Nat /\ counts \in [team : Nat, external : Nat]
    /\ consents = Cardinality(To("match"))
    /\ counts.team + counts.external = Cardinality(Arrivals)
(* What is kept of a question of the quiz, for which the app sends its     *)
(* signature, is the answer about the signature it was told.               *)
DeltaSaid(q, x) ==
    q[1] = "delta" =>
        /\ Bootstrapped
        /\ q[3] => x = SignatureDelta(Told.soulprint, {Told.signature}, q[2])
(* And the app was told it before; what it was told is never rewritten.    *)
Carried == \A q \in Questions : DeltaSaid(q, answers[q].answer)
(* The inductive invariant: nothing a client was told is ever rewritten,   *)
(* and the counters and the quiz follow from it. Without AnswersSaid no    *)
(* two answers could be compared; without Settings the counting could not  *)
(* step.                                                                   *)
IInv == Settings /\ AnswersSaid /\ Counted /\ Carried

(* A step that asks anything but a pair analysis.                          *)
AskedElse ==
    \E question, answer, eph :
        /\ KeepOnly(question, answer, eph) /\ question[1] # "match"
        /\ eph \in Ephemerides(mode)
        /\ Said(birth, asked, question, [answer |-> answer, eph |-> eph])
        /\ DeltaSaid(question, answer)
(* A step that asks for a pair analysis.                                   *)
AskedMatch == \E eph \in Ephemerides(mode) : AskMatch(eph)

(* Whatever is no pair analysis asks a question, and keeps what the        *)
(* endpoint answers. One step for each of the actions of Next.             *)
LEMMA ElseAsked ==
  ASSUME Settings, Next, ~AskedMatch
  PROVE  AskedElse
<1>0. PICK eph \in Ephemerides(mode) :
          \/ AskBazi(eph) \/ AskBaziTrace(eph) \/ AskBaziWuXing(eph) \/ AskNatal(eph)
          \/ AskWuXing(eph) \/ AskFusion(eph) \/ AskVectorMap(eph) \/ AskTst(eph)
          \/ AskChart(eph) \/ AskChronometry(eph) \/ AskPersonalize(eph) \/ Diagnose(eph)
          \/ AskBootstrap(eph) \/ AskDelta(eph) \/ AskDaily(eph) \/ AskImpact(eph)
          \/ AskEastern(eph)
  <2>1. PICK lost \in Outages : LET eph == [mode |-> mode, lost |-> lost] IN
          \/ AskBazi(eph) \/ AskBaziTrace(eph) \/ AskBaziWuXing(eph) \/ AskNatal(eph)
          \/ AskWuXing(eph) \/ AskFusion(eph) \/ AskVectorMap(eph) \/ AskTst(eph)
          \/ AskChart(eph) \/ AskChronometry(eph) \/ AskPersonalize(eph) \/ AskMatch(eph)
          \/ Diagnose(eph) \/ AskBootstrap(eph) \/ AskDelta(eph) \/ AskDaily(eph)
          \/ AskImpact(eph) \/ AskEastern(eph)
    BY DEF Next
  <2> DEFINE met == [mode |-> mode, lost |-> lost]
  <2>2. met \in Ephemerides(mode)
    BY ReadingsAssumption DEF Settings, Ephemeris, Ephemerides
  <2> HIDE DEF met
  <2>3. \/ AskBazi(met) \/ AskBaziTrace(met) \/ AskBaziWuXing(met) \/ AskNatal(met)
        \/ AskWuXing(met) \/ AskFusion(met) \/ AskVectorMap(met) \/ AskTst(met)
        \/ AskChart(met) \/ AskChronometry(met) \/ AskPersonalize(met) \/ AskMatch(met)
        \/ Diagnose(met) \/ AskBootstrap(met) \/ AskDelta(met) \/ AskDaily(met)
        \/ AskImpact(met) \/ AskEastern(met)
    BY <2>1 DEF met
  <2> QED BY <2>2, <2>3 DEF AskedMatch
<1> USE DEF AskedElse, Said, ChartSaid, PromptSaid, AppSaid, MatchSaid, DeltaSaid
<1>1. ASSUME AskBazi(eph) PROVE AskedElse
  BY <1>1 DEF AskBazi, Chosen
<1>2. ASSUME AskBaziTrace(eph) PROVE AskedElse
  BY <1>2 DEF AskBaziTrace, Chosen
<1>3. ASSUME AskBaziWuXing(eph) PROVE AskedElse
  BY <1>3 DEF AskBaziWuXing, Chosen
<1>4. ASSUME AskNatal(eph) PROVE AskedElse
  BY <1>4 DEF AskNatal, Chosen
<1>5. ASSUME AskWuXing(eph) PROVE AskedElse
  BY <1>5 DEF AskWuXing, Chosen
<1>6. ASSUME AskFusion(eph) PROVE AskedElse
  BY <1>6 DEF AskFusion, Chosen
<1>7. ASSUME AskVectorMap(eph) PROVE AskedElse
  BY <1>7 DEF AskVectorMap, Chosen
<1>8. ASSUME AskTst(eph) PROVE AskedElse
  BY <1>8 DEF AskTst, Chosen
<1>9. ASSUME AskChart(eph) PROVE AskedElse
  BY <1>9 DEF AskChart, Chosen
<1>10. ASSUME AskChronometry(eph) PROVE AskedElse
  BY <1>10 DEF AskChronometry, Chosen
<1>11. ASSUME AskPersonalize(eph) PROVE AskedElse
  BY <1>11 DEF AskPersonalize, Chosen
<1>12. ASSUME Diagnose(eph) PROVE AskedElse
  BY <1>12 DEF Diagnose, Chosen
<1>13. ASSUME AskBootstrap(eph) PROVE AskedElse
  BY <1>13 DEF AskBootstrap, Chosen
<1>14. ASSUME AskDelta(eph) PROVE AskedElse
  BY <1>14 DEF AskDelta
<1>15. ASSUME AskDaily(eph) PROVE AskedElse
  BY <1>15 DEF AskDaily, Chosen, Days, CivilDay, DaysOf
<1>16. ASSUME AskImpact(eph) PROVE AskedElse
  BY <1>16 DEF AskImpact, Chosen
<1>17. ASSUME AskEastern(eph) PROVE AskedElse
  BY <1>17 DEF AskEastern, Chosen, Days, CivilDay, DaysOf
<1> HIDE DEF AskedElse, Said, ChartSaid, PromptSaid, AppSaid, MatchSaid, DeltaSaid
<1> QED BY <1>0, <1>1, <1>2, <1>3, <1>4, <1>5, <1>6, <1>7, <1>8, <1>9, <1>10, <1>11, <1>12,
           <1>13, <1>14, <1>15, <1>16, <1>17

(* Keeping an answer leaves every earlier answer and the settings alone.   *)
LEMMA KeptEntries ==
  ASSUME NEW question, NEW answer, NEW eph, Keep(question, answer, eph)
  PROVE  /\ question \notin Questions
         /\ Questions' = Questions \cup {question}
         /\ answers'[question] = [answer |-> answer, eph |-> eph]
         /\ \A q \in Questions : answers'[q] = answers[q]
         /\ birth' = birth /\ asked' = asked /\ mode' = mode
         /\ eph.lost \subseteq UsesOf(question)
<1> DEFINE entry(q) == IF q = question THEN [answer |-> answer, eph |-> eph] ELSE answers[q]
<1> DEFINE all == Questions \cup {question}
<1>1. answers' = [q \in all |-> entry(q)] /\ question \notin Questions
  BY DEF Keep
<1>2. DOMAIN answers' = all /\ \A q \in all : answers'[q] = entry(q)
  <2> HIDE DEF all, entry
  <2> QED BY <1>1
<1>3. Questions' = all
  BY <1>2 DEF Questions
<1> QED BY <1>1, <1>2, <1>3 DEF Keep

(* An entry that says what its endpoint answers keeps all the rest true.   *)
LEMMA KeptSaid ==
  ASSUME IInv, NEW question, NEW answer, NEW eph \in Ephemerides(mode),
         Keep(question, answer, eph),
         Said(birth, asked, question, [answer |-> answer, eph |-> eph])
  PROVE  Settings' /\ AnswersSaid'
<1>1. Settings'
  <2>1. IsFiniteSet(Questions \cup {question})
    BY FS_AddElement DEF IInv, Settings
  <2> QED BY <2>1, KeptEntries DEF IInv, Settings
<1>2. AnswersSaid'
  <2> DEFINE kept == [answer |-> answer, eph |-> eph]
  <2>0. kept.eph = eph
    OBVIOUS
  <2> HIDE DEF kept
  <2>1. SUFFICES ASSUME NEW q \in Questions'
                 PROVE  (/\ answers[q].eph \in Ephemerides(mode)
                         /\ LostOf(q) \subseteq UsesOf(q)
                         /\ Said(birth, asked, q, answers[q]))'
    BY DEF AnswersSaid
  <2>2. CASE q = question
    <3>1. answers'[q] = kept /\ birth' = birth /\ asked' = asked /\ mode' = mode
      BY <2>2, KeptEntries DEF kept
    <3>2. kept.eph \in Ephemerides(mode) /\ kept.eph.lost \subseteq UsesOf(q)
      BY <2>0, <2>2, KeptEntries
    <3>3. Said(birth, asked, q, kept)
      BY <2>2 DEF kept
    <3> QED BY <3>1, <3>2, <3>3 DEF LostOf
  <2>3. CASE q \in Questions
    <3>1. answers'[q] = answers[q] /\ birth' = birth /\ asked' = asked /\ mode' = mode
      BY <2>3, KeptEntries
    <3> QED BY <3>1, <2>3 DEF IInv, AnswersSaid, LostOf
  <2> QED BY <2>1, <2>2, <2>3, KeptEntries
<1> QED BY <1>1, <1>2

(* So it goes on being true, whatever is asked.                            *)
LEMMA KeptCarried ==
  ASSUME Carried, NEW question, NEW answer, NEW eph, Keep(question, answer, eph),
         DeltaSaid(question, answer)
  PROVE  Carried'
<1>0. /\ Questions' = Questions \cup {question}
      /\ answers'[question] = [answer |-> answer, eph |-> eph]
      /\ \A q \in Questions : answers'[q] = answers[q]
  BY KeptEntries
<1>1. /\ Questions' = Questions \cup {question}
      /\ answers'[question].answer = answer
      /\ \A q \in Questions : answers'[q] = answers[q]
  BY <1>0
<1>2. Bootstrapped => Bootstrapped' /\ Told' = Told
  BY <1>1 DEF Bootstrapped, Told
<1>3. ASSUME NEW q \in Questions PROVE DeltaSaid(q, answers[q].answer)'
  <2>1. DeltaSaid(q, answers[q].answer) /\ answers'[q].answer = answers[q].answer
    BY <1>1 DEF Carried
  <2> QED BY <1>2, <2>1 DEF DeltaSaid
<1>4. DeltaSaid(question, answers[question].answer)'
  BY <1>1, <1>2 DEF DeltaSaid
<1> QED BY <1>1, <1>3, <1>4 DEF Carried

(* A failure is never a success (error_handlers.py).                       *)
LEMMA NeverSuccess ==
  ASSUME NEW r
  PROVE  Failure(r).status # 200
<1>1. ASSUME NEW error PROVE StatusOf(error) # 200
  BY DEF StatusOf
<1> QED BY <1>1 DEF Failure, Refused

(* Without consent there is no success (routers/match.py).                 *)
LEMMA ConsentFirst ==
  ASSUME NEW one, NEW two, NEW consent \in BOOLEAN, NEW e,
         MatchBaziHehun(one, two, consent, e).status = 200
  PROVE  consent
  BY DEF MatchBaziHehun, Refused

(* A finite set with one more element has one more.                        *)
LEMMA CountOne ==
  ASSUME NEW S, NEW x, IsFiniteSet(S), x \notin S
  PROVE  /\ IsFiniteSet(S \cup {x})
         /\ Cardinality(S) \in Nat /\ Cardinality(S \cup {x}) = Cardinality(S) + 1
  BY FS_AddElement, FS_CardinalityType

(* A question that is not about a pair leaves the questions about pairs    *)
(* and what is known of them as they were.                                 *)
LEMMA KeptElse ==
  ASSUME NEW question, NEW answer, NEW eph, Keep(question, answer, eph), question[1] # "match"
  PROVE  To("match")' = To("match") /\ Arrivals' = Arrivals
<1>0. /\ Questions' = Questions \cup {question}
      /\ \A q \in Questions : answers'[q] = answers[q]
      /\ birth' = birth /\ asked' = asked
  BY KeptEntries
<1>1. To("match")' = To("match")
  BY <1>0 DEF To
<1>2. \A q \in To("match") : answers'[q] = answers[q]
  BY <1>0 DEF To
<1>3. Arrivals' = Arrivals
  BY <1>0, <1>1, <1>2 DEF Arrivals
<1> QED BY <1>1, <1>3

(* A pair analysis is counted among those asked for, and among those that  *)
(* arrived if both charts were there.                                      *)
LEMMA KeptMatch ==
  ASSUME NEW couple, NEW swapped, NEW consent, NEW answer, NEW eph, NEW question,
         question = <<"match", couple, swapped, consent>>, Keep(question, answer, eph)
  PROVE  /\ To("match")' = To("match") \cup {question}
         /\ Arrivals' = IF Arrived(birth, asked, couple, swapped, consent, eph)
                        THEN Arrivals \cup {question} ELSE Arrivals
<1> DEFINE Due(q) == Arrived(birth, asked, q[2], q[3], q[4], answers[q].eph)
           due == Arrived(birth, asked, couple, swapped, consent, eph)
<1>0. /\ Questions' = Questions \cup {question} /\ question \notin Questions
      /\ answers'[question] = [answer |-> answer, eph |-> eph]
      /\ \A q \in Questions : answers'[q] = answers[q]
      /\ birth' = birth /\ asked' = asked
  BY KeptEntries
<1>1. /\ question[1] = "match" /\ question[2] = couple /\ question[3] = swapped
      /\ question[4] = consent /\ answers'[question].eph = eph
  BY <1>0
<1>2. To("match")' = To("match") \cup {question}
  BY <1>0, <1>1 DEF To
<1>3. Due(question)' = due
  BY <1>0, <1>1
<1>4. ASSUME NEW q \in To("match") PROVE Due(q)' = Due(q)
  <2>1. answers'[q] = answers[q]
    BY <1>0 DEF To
  <2> QED BY <1>0, <2>1
<1>5. /\ Arrivals = {q \in To("match") : Due(q)}
      /\ Arrivals' = {q \in To("match")' : Due(q)'}
  BY DEF Arrivals
<1> HIDE DEF Due, due
<1>6. \A q : q \in Arrivals' <=> (q \in To("match") /\ Due(q)) \/ (q = question /\ due)
  <2>1. question \notin To("match")
    BY <1>0 DEF To
  <2> QED BY <1>2, <1>3, <1>4, <1>5, <2>1
<1>7. Arrivals' = IF due THEN Arrivals \cup {question} ELSE Arrivals
  <2>1. CASE due
    <3>1. Arrivals' = Arrivals \cup {question}
      BY <1>5, <1>6, <2>1
    <3> QED BY <2>1, <3>1
  <2>2. CASE ~due
    <3>1. Arrivals' = Arrivals
      BY <1>5, <1>6, <2>2
    <3> QED BY <2>2, <3>1
  <2> QED BY <2>1, <2>2
<1> QED BY <1>2, <1>7 DEF due

(* A pair analysis that succeeded was consented to.                        *)
LEMMA ConsentGiven ==
  ASSUME NEW name, NEW a, NEW q, NEW e, Said(name, a, q, e), q[1] = "match",
         e.answer.status = 200
  PROVE  q[4]
  BY ConsentFirst DEF Said, MatchSaid, Hehun

(* What is no pair analysis leaves the counters right.                     *)
LEMMA CountedElse ==
  ASSUME IInv, NEW question, NEW answer, NEW eph, KeepOnly(question, answer, eph),
         question[1] # "match"
  PROVE  Counted'
<1>1. To("match")' = To("match") /\ Arrivals' = Arrivals
  BY KeptElse DEF KeepOnly
<1>2. consents' = consents /\ counts' = counts
  BY DEF KeepOnly
<1> QED BY <1>1, <1>2 DEF IInv, Counted

(* Asking for a pair analysis keeps its answer, logs the decision and      *)
(* counts the demand.                                                      *)
LEMMA MatchAsked ==
  ASSUME AskedMatch
  PROVE  \E couple, swapped, consent, answer, eph :
            /\ Keep(<<"match", couple, swapped, consent>>, answer, eph)
            /\ eph \in Ephemerides(mode)
            /\ Said(birth, asked, <<"match", couple, swapped, consent>>,
                    [answer |-> answer, eph |-> eph])
            /\ consents' = consents + 1
            /\ counts' = Demand(couple.key, Arrived(birth, asked, couple, swapped, consent, eph))
<1>0. PICK eph \in Ephemerides(mode) : AskMatch(eph)
  BY DEF AskedMatch
<1>1. PICK couple \in Couples, swapped \in BOOLEAN, consent \in BOOLEAN :
          LET answer == Hehun(birth, asked, couple, swapped, consent, eph)
          IN  /\ Keep(<<"match", couple, swapped, consent>>, answer, eph)
              /\ consents' = consents + 1
              /\ counts' = Demand(couple.key,
                                  Arrived(birth, asked, couple, swapped, consent, eph))
  BY <1>0 DEF AskMatch, Hehun, Arrived, NamedFirst, NamedSecond, Me, You, Chosen
<1> DEFINE answer == Hehun(birth, asked, couple, swapped, consent, eph)
<1> DEFINE entry == [answer |-> answer, eph |-> eph]
<1> DEFINE question == <<"match", couple, swapped, consent>>
<1>2. /\ question[1] = "match" /\ question[2] = couple /\ question[3] = swapped
      /\ question[4] = consent
  OBVIOUS
<1>3. entry.answer = answer /\ entry.eph = eph
  OBVIOUS
<1>4. Said(birth, asked, question, entry)
  <2> HIDE DEF entry
  <2> QED BY <1>1, <1>2, <1>3 DEF Said, ChartSaid, PromptSaid, AppSaid, MatchSaid
<1> HIDE DEF answer
<1> QED BY <1>1, <1>4 DEF answer

(* And it leaves the counters right: one more decision, and one more       *)
(* analysis exactly if both charts were there.                             *)
LEMMA CountedMatch ==
  ASSUME IInv, NEW couple, NEW swapped, NEW consent, NEW answer, NEW eph,
         Keep(<<"match", couple, swapped, consent>>, answer, eph),
         consents' = consents + 1,
         counts' = Demand(couple.key, Arrived(birth, asked, couple, swapped, consent, eph))
  PROVE  Counted'
<1> DEFINE question == <<"match", couple, swapped, consent>>
           asks == To("match")
           due == Arrived(birth, asked, couple, swapped, consent, eph)
<1>1. Keep(question, answer, eph) /\ question = <<"match", couple, swapped, consent>>
  OBVIOUS
<1> HIDE DEF question
<1>2. question \notin Questions
  BY <1>1, KeptEntries
<1>3. IsFiniteSet(asks) /\ IsFiniteSet(Arrivals) /\ question \notin asks /\ question \notin Arrivals
  <2>1. asks \subseteq Questions /\ Arrivals \subseteq Questions
    BY DEF To, Arrivals
  <2>2. IsFiniteSet(Questions)
    BY DEF IInv, Settings
  <2> QED BY <1>2, <2>1, <2>2, FS_Subset
<1>4. /\ asks' = asks \cup {question}
      /\ Arrivals' = IF due THEN Arrivals \cup {question} ELSE Arrivals
  BY <1>1, KeptMatch
<1>5. counts' = Demand(couple.key, due)
  OBVIOUS
<1> HIDE DEF due
<1>6. /\ consents = Cardinality(asks) /\ counts.team + counts.external = Cardinality(Arrivals)
      /\ consents \in Nat /\ counts \in [team : Nat, external : Nat]
  BY DEF IInv, Counted
<1>7. consents' \in Nat /\ consents' = Cardinality(asks')
  BY <1>3, <1>4, <1>6, CountOne
<1>8. /\ counts' \in [team : Nat, external : Nat]
      /\ counts'.team + counts'.external = Cardinality(Arrivals')
  <2>1. CASE due
    <3>1. Cardinality(Arrivals') = Cardinality(Arrivals) + 1
      BY <1>3, <1>4, <2>1, CountOne
    <3>2. PICK class \in {"team", "external"} : counts' = [counts EXCEPT ![class] = @ + 1]
      BY <1>5, <2>1 DEF Demand, ClassifyCaller
    <3>3. counts' = IF class = "team"
                    THEN [team |-> counts.team + 1, external |-> counts.external]
                    ELSE [team |-> counts.team, external |-> counts.external + 1]
      BY <1>6, <3>2
    <3> QED BY <1>6, <3>1, <3>3
  <2>2. CASE ~due
    BY <1>4, <1>5, <1>6, <2>2 DEF Demand
  <2> QED BY <2>1, <2>2
<1> QED BY <1>7, <1>8 DEF Counted

(* The invariant holds before anything was asked.                          *)
LEMMA InvInit ==
  ASSUME Init
  PROVE  IInv
<1>1. Questions = {} /\ IsFiniteSet({}) /\ Cardinality({}) = 0
  BY FS_EmptySet DEF Init, Questions
<1>2. To("match") = {} /\ Arrivals = {}
  BY <1>1 DEF To, Arrivals
<1>3. <<birth, asked>> \in Clients
  BY ReadingsAssumption DEF Init
<1>4. Settings
  BY <1>1, <1>3 DEF Init, Settings
<1>5. AnswersSaid
  BY <1>1 DEF AnswersSaid
<1>6. consents = 0 /\ counts.team + counts.external = 0 /\ counts \in [team : Nat, external : Nat]
  BY DEF Init
<1>7. Counted
  BY <1>1, <1>2, <1>6 DEF Counted
<1>8. Carried
  BY <1>1 DEF Carried
<1> QED BY <1>4, <1>5, <1>7, <1>8 DEF IInv

(* And every step keeps it.                                                *)
LEMMA InvStep ==
  ASSUME IInv, [Next]_vars
  PROVE  IInv'
<1>1. CASE UNCHANGED vars
  <2>0. UNCHANGED <<birth, asked, mode, answers, consents, counts>>
    BY <1>1 DEF vars
  <2>1. To("match")' = To("match") /\ Arrivals' = Arrivals /\ Questions' = Questions
    BY <2>0 DEF To, Arrivals, Questions
  <2>2. Settings'
    BY <2>0, <2>1 DEF IInv, Settings
  <2>3. AnswersSaid'
    BY <2>0, <2>1 DEF IInv, AnswersSaid, LostOf
  <2>4. Counted'
    BY <2>0, <2>1 DEF IInv, Counted
  <2>5. Carried'
    BY <2>0, <2>1 DEF IInv, Carried, DeltaSaid, Bootstrapped, Told
  <2> QED BY <2>2, <2>3, <2>4, <2>5 DEF IInv
<1>2. CASE AskedMatch
  <2>1. PICK couple, swapped, consent, answer, eph :
            /\ Keep(<<"match", couple, swapped, consent>>, answer, eph)
            /\ eph \in Ephemerides(mode)
            /\ Said(birth, asked, <<"match", couple, swapped, consent>>,
                    [answer |-> answer, eph |-> eph])
            /\ consents' = consents + 1
            /\ counts' = Demand(couple.key, Arrived(birth, asked, couple, swapped, consent, eph))
    BY <1>2, MatchAsked
  <2>2. Settings' /\ AnswersSaid'
    BY <2>1, KeptSaid
  <2>3. Counted'
    BY <2>1, CountedMatch
  <2>4. Carried'
    BY <2>1, KeptCarried DEF IInv, DeltaSaid
  <2> QED BY <2>2, <2>3, <2>4 DEF IInv
<1>3. CASE AskedElse
  <2>1. PICK question, answer, eph :
            /\ KeepOnly(question, answer, eph) /\ question[1] # "match"
            /\ eph \in Ephemerides(mode)
            /\ Said(birth, asked, question, [answer |-> answer, eph |-> eph])
            /\ DeltaSaid(question, answer)
    BY <1>3 DEF AskedElse
  <2>2. Settings' /\ AnswersSaid'
    BY <2>1, KeptSaid DEF KeepOnly
  <2>3. Counted'
    BY <2>1, CountedElse
  <2>4. Carried'
    BY <2>1, KeptCarried DEF IInv, KeepOnly
  <2> QED BY <2>2, <2>3, <2>4 DEF IInv
<1> QED BY <1>1, <1>2, <1>3, ElseAsked DEF IInv

(* So it holds always.                                                     *)
LEMMA InvAlways == Spec => []IInv
<1>1. Init => IInv
  BY InvInit
<1>2. IInv /\ [Next]_vars => IInv'
  BY InvStep
<1> QED BY <1>1, <1>2, PTL DEF Spec

-----------------------------------------------------------------------------
(* What an answer that succeeded shows, endpoint by endpoint: the handler  *)
(* taken apart as far as the properties below look into it.                *)

(* The response of the four pillars with its trace.                        *)
Traced(b, a, e) == BaziResponse(b, a, TRUE, e)
(* And without it.                                                         *)
Untraced(b, a, e) == BaziResponse(b, a, FALSE, e)
(* The frame of a birth whose time is asked about.                         *)
Framed(b, a, e) == ResolveChronometry(b, a, FALSE, e)
(* A fusion that insists on an ascendant.                                  *)
Strictly(bodies, ascendant, chart) == FusionOf(bodies, ascendant, chart, TRUE)

(* The birth as the chronometry endpoint reads it.                         *)
Given(b, dateOnly) == IF dateOnly THEN Midnight(b) ELSE b
(* The instant that an endpoint resolves the wall time to.                 *)
InstantOf(b, a) == Resolve(b, a).value.at
(* And the apparent solar time at that instant.                            *)
SolarOf(b, a) == SolarTime(b, InstantOf(b, a)).solar

(* What a response model lets through is unchanged and fits it.            *)
LEMMA ServedSays ==
  ASSUME NEW body, NEW model, Served(body, model).status = 200
  PROVE  Served(body, model).body = body /\ body \in model
  BY DEF Served, Refused, Answer

(* An answer is a success and carries what it was given.                   *)
LEMMA AnswerSays ==
  ASSUME NEW body
  PROVE  Answer(body).status = 200 /\ Answer(body).body = body
  BY DEF Answer

(* The response of the four pillars shows what the engine computed.        *)
LEMMA BaziResponseSays ==
  ASSUME NEW b, NEW a, NEW e, NEW r, r \in {Traced(b, a, e), Untraced(b, a, e)},
         r.error = "none"
  PROVE  LET bazi == BaziOf(b, a, a.boundary, Found(e, "bazi"))
         IN  /\ bazi.error = "none" /\ r.value.at = bazi.value.at
             /\ r.value.provisional = Provisional(a, {"hour"})
             /\ r.value.pillars = Shown(bazi.value.chart)
             /\ r = Traced(b, a, e) => r.value.trace = Trace(b, a, a.boundary, bazi.value)
<1> DEFINE bazi == BaziOf(b, a, a.boundary, Found(e, "bazi"))
           body(trace) == [pillars |-> Shown(bazi.value.chart), at |-> bazi.value.at,
                           year |-> bazi.value.year, before |-> bazi.value.before,
                           provisional |-> Provisional(a, {"hour"}), mode |-> Found(e, "mode"),
                           trace |-> trace]
           trace == Trace(b, a, a.boundary, bazi.value)
           lost == Raised("EphemerisUnavailableError")
<1>1. Traced(b, a, e) = IF bazi.error # "none" THEN bazi
                        ELSE IF Found(e, "mode") = "missing" THEN lost
                        ELSE [error |-> "none", value |-> body(trace)]
  BY DEF Traced, BaziResponse, Attest, Then, Fails, Returned, Raised
<1>2. Untraced(b, a, e) = IF bazi.error # "none" THEN bazi
                          ELSE IF Found(e, "mode") = "missing" THEN lost
                          ELSE [error |-> "none", value |-> body([none |-> TRUE])]
  BY DEF Untraced, BaziResponse, Attest, Then, Fails, Returned, Raised
<1>5. lost.error # "none"
  BY DEF Raised
<1>3. ASSUME NEW z
      PROVE  /\ body(z).at = bazi.value.at /\ body(z).pillars = Shown(bazi.value.chart)
             /\ body(z).provisional = Provisional(a, {"hour"}) /\ body(z).trace = z
  OBVIOUS
<1> HIDE DEF bazi, body, trace, lost
<1>4. bazi.error = "none" /\ \E z : r.value = body(z) /\ (r = Traced(b, a, e) => z = trace)
  BY <1>1, <1>2, <1>5
<1> QED BY <1>3, <1>4 DEF bazi, trace

(* The endpoint of the four pillars shows that response.                   *)
LEMMA BaziSays ==
  ASSUME NEW b, NEW a, NEW e, NEW x, x.status = 200, x = Bazi(b, a, e)
  PROVE  Untraced(b, a, e).error = "none" /\ x.body = Untraced(b, a, e).value
<1> DEFINE r == Untraced(b, a, e)
<1>1. x = IF r.error # "none" THEN Failure(r) ELSE Served(r.value, BaziModel)
  BY DEF Bazi, Respond, Fails, Untraced
<1> HIDE DEF r
<1> QED BY <1>1, NeverSuccess, ServedSays DEF r

(* And the one that traces them shows it with its trace.                   *)
LEMMA BaziTraceSays ==
  ASSUME NEW b, NEW a, NEW e, NEW x, x.status = 200, x = BaziTrace(b, a, e)
  PROVE  Traced(b, a, e).error = "none" /\ x.body = Traced(b, a, e).value
<1> DEFINE r == Traced(b, a, e)
<1>1. x = IF r.error # "none" THEN Failure(r) ELSE Served(r.value, BaziModel)
  BY DEF BaziTrace, Respond, Fails, Traced
<1> HIDE DEF r
<1> QED BY <1>1, NeverSuccess, ServedSays DEF r

(* The phases of the four pillars are those of the same chart.             *)
LEMMA BaziWuXingSays ==
  ASSUME NEW b, NEW a, NEW e, NEW x, x.status = 200, x = BaziWuXing(b, a, e)
  PROVE  LET bazi == BaziOf(b, a, a.boundary, Found(e, "bazi"))
         IN  /\ bazi.error = "none" /\ x.body.pillars = bazi.value.chart
             /\ x.body.ledger = BaziLedger(bazi.value.chart)
             /\ x.body.vector = VectorOf(BaziLedger(bazi.value.chart))
             /\ x.body.provisional = Provisional(a, {"hour"})
<1> DEFINE r == BaziOf(b, a, a.boundary, Found(e, "bazi"))
           ledger == BaziLedger(r.value.chart)
           vector == VectorOf(ledger)
           body == [pillars |-> r.value.chart, vector |-> vector, dominant |-> Dominant(vector),
                    basis |-> "bazi_four_pillars", ledger |-> ledger,
                    provisional |-> Provisional(a, {"hour"})]
           lost == Raised("EphemerisUnavailableError")
<1>1. x = IF r.error # "none" THEN Failure(r)
          ELSE IF Found(e, "mode") = "missing" THEN Failure(lost) ELSE Served(body, BaziWuXingModel)
  BY DEF BaziWuXing, Attest, Respond, Fails, Raised, Returned
<1>2. /\ body.pillars = r.value.chart /\ body.provisional = Provisional(a, {"hour"})
      /\ body.ledger = ledger /\ body.vector = vector
  <2> HIDE DEF ledger, vector
  <2> QED OBVIOUS
<1> HIDE DEF r, body, ledger, vector, lost
<1>3. r.error = "none" /\ x = Served(body, BaziWuXingModel)
  BY <1>1, NeverSuccess
<1> QED BY <1>1, <1>2, <1>3, ServedSays DEF r, ledger, vector

(* The chart a natal request normalises.                                   *)
Charted(b, a, e) ==
    Normalize(BaziOf(b, a, a.boundary, Found(e, "bazi")).value.chart, "natal", a.timeKnown)
(* The blocks of its four pillars.                                         *)
Blocks(chart) == [i \in 1 .. 4 |-> PillarBlock(chart, i)]

(* A natal chart shows these blocks.                                       *)
LEMMA NatalSays ==
  ASSUME NEW b, NEW a, NEW e, NEW x, x.status = 200, x = Natal(b, a, e)
  PROVE  /\ BaziOf(b, a, a.boundary, Found(e, "bazi")).error = "none"
         /\ x.body.pillars = Blocks(Charted(b, a, e))
         /\ x.body.provisional = Provisional(a, {"hour"})
<1> DEFINE r == BaziOf(b, a, a.boundary, Found(e, "bazi"))
           chart == Normalize(r.value.chart, "natal", a.timeKnown)
           blocks == [i \in 1 .. 4 |-> PillarBlock(chart, i)]
           body == [pillars |-> blocks,
                    dayMaster |-> chart.dayMaster,
                    monthCommand |-> Individual(chart, "none").monthCommand,
                    provisional |-> Provisional(a, {"hour"}),
                    warnings |-> [k \in DOMAIN chart.warnings |-> chart.warnings[k].code]]
<1>1. x = IF r.error # "none" THEN Failure(r) ELSE Answer(body)
  BY DEF Natal, Respond, Fails
<1>2. body.pillars = blocks /\ body.provisional = Provisional(a, {"hour"})
  <2> HIDE DEF blocks
  <2> QED OBVIOUS
<1>3. blocks = Blocks(Charted(b, a, e))
  BY DEF Blocks, Charted
<1> HIDE DEF r, body, chart, blocks
<1>4. r.error = "none"
  BY <1>1, NeverSuccess
<1> QED BY <1>1, <1>2, <1>3, <1>4, AnswerSays DEF r

(* A fusion shows what was fused from the sky and the pillars, and what it *)
(* shows fits its model.                                                   *)
LEMMA FusionEndpointSays ==
  ASSUME NEW b, NEW a, NEW given, NEW e, NEW x, x.status = 200,
         x = FusionEndpoint(b, a, given, e)
  PROVE  LET sky == WesternOf(b, a, Found(e, "western"))
             pillars == PillarsOf(b, a, given, Found(e, "bazi"))
             fusion == Strictly(sky.value.bodies, sky.value.ascendant, pillars.value.chart)
         IN  /\ sky.error = "none" /\ pillars.error = "none" /\ fusion.error = "none"
             /\ x.body.west = fusion.value.west /\ x.body.bazi = fusion.value.bazi
             /\ x.body.harmony = fusion.value.harmony
             /\ x.body.calibration = fusion.value.calibration
             /\ x.body.text = fusion.value.text
             /\ x.body.quality = ChartTypeQuality(fusion.value.quality, sky.value.ascendant)
             /\ x.body.provisional = Provisional(a, {"signature", "hour", "ascendant", "houses"})
             /\ x.body \in FusionModel
<1> DEFINE sky == WesternOf(b, a, Found(e, "western"))
           pillars == PillarsOf(b, a, given, Found(e, "bazi"))
           fusion == Strictly(sky.value.bodies, sky.value.ascendant, pillars.value.chart)
           body == [west |-> fusion.value.west, bazi |-> fusion.value.bazi,
                    harmony |-> fusion.value.harmony,
                    calibration |-> fusion.value.calibration, text |-> fusion.value.text,
                    comparison |-> fusion.value.comparison, houses |-> sky.value.quality,
                    quality |-> ChartTypeQuality(fusion.value.quality, sky.value.ascendant),
                    provisional |-> Provisional(a, {"signature", "hour", "ascendant", "houses"})]
<1>1. x = IF sky.error # "none" THEN Failure(sky)
          ELSE IF pillars.error # "none" THEN Failure(pillars)
          ELSE IF fusion.error # "none" THEN Unavailable(fusion)
          ELSE Served(body, FusionModel)
  BY DEF FusionEndpoint, Respond, RespondOrUnavailable, Fails, Strictly
<1>2. /\ body.west = fusion.value.west /\ body.bazi = fusion.value.bazi
      /\ body.harmony = fusion.value.harmony /\ body.calibration = fusion.value.calibration
      /\ body.text = fusion.value.text
      /\ body.quality = ChartTypeQuality(fusion.value.quality, sky.value.ascendant)
      /\ body.provisional = Provisional(a, {"signature", "hour", "ascendant", "houses"})
  OBVIOUS
<1> HIDE DEF sky, pillars, fusion, body
<1>3. Unavailable(fusion).status # 200
  BY NeverSuccess DEF Unavailable, Refused
<1>4. sky.error = "none" /\ pillars.error = "none" /\ fusion.error = "none"
  BY <1>1, <1>3, NeverSuccess
<1>5. x.body = body /\ body \in FusionModel
  BY <1>1, <1>4, ServedSays
<1> QED BY <1>2, <1>4, <1>5 DEF sky, pillars, fusion

(* A frame shows the instant, and the solar time if the time is known.     *)
LEMMA FrameSays ==
  ASSUME NEW b, NEW a, NEW dateOnly, NEW e, NEW r, r = ResolveChronometry(b, a, dateOnly, e),
         r.error = "none"
  PROVE  LET given == Given(b, dateOnly)
             known == a.timeKnown /\ ~dateOnly
         IN  /\ Resolve(given, a).error = "none" /\ e # "missing"
             /\ r.value.at = InstantOf(given, a)
             /\ r.value.solar = IF known THEN {SolarOf(given, a)} ELSE {}
             /\ r.value.term = TermAt(given, InstantOf(given, a))
             /\ r.value.grade = IF ~known THEN "unknown_time"
                                ELSE IF e = "MOSEPH" THEN "degraded" ELSE "exact"
<1> DEFINE given == Given(b, dateOnly)
           known == a.timeKnown /\ ~dateOnly
           u == InstantOf(given, a)
           clock == SolarTime(given, u)
           grade == IF ~known THEN "unknown_time" ELSE IF e = "MOSEPH" THEN "degraded" ELSE "exact"
           frame == [at |-> u, date |-> Epoch + (CivilAt(b.place, u) \div 1440),
                     solar |-> IF known THEN {clock.solar} ELSE {},
                     rollover |-> IF known THEN {clock.rollover} ELSE {},
                     term |-> TermAt(given, u), flags |-> BoundaryFlags(given, u),
                     grade |-> grade]
<1>1. r = IF Resolve(given, a).error # "none" THEN Resolve(given, a)
          ELSE IF e = "missing" THEN Raised("EphemerisUnavailableError") ELSE Returned(frame)
  BY DEF ResolveChronometry, Then, Fails, Grade, Given, InstantOf
<1>2. /\ frame.at = u /\ frame.solar = (IF known THEN {SolarOf(given, a)} ELSE {})
      /\ frame.term = TermAt(given, u) /\ frame.grade = grade
  BY DEF SolarOf
<1> HIDE DEF frame, given
<1>3. Resolve(given, a).error = "none" /\ e # "missing"
  BY <1>1 DEF Raised
<1>4. r.value = frame
  BY <1>1, <1>3 DEF Returned
<1> QED BY <1>2, <1>3, <1>4 DEF given

(* The chronometry endpoint shows its frame as it is.                      *)
LEMMA ChronometrySays ==
  ASSUME NEW b, NEW a, NEW dateOnly, NEW e, NEW x, x.status = 200,
         x = Chronometry(b, a, dateOnly, e)
  PROVE  /\ ResolveChronometry(b, a, dateOnly, Found(e, "frame")).error = "none"
         /\ x.body = ResolveChronometry(b, a, dateOnly, Found(e, "frame")).value
<1> DEFINE r == ResolveChronometry(b, a, dateOnly, Found(e, "frame"))
<1>1. x = IF r.error # "none" THEN Failure(r) ELSE Served(r.value, ChronometryModel)
  BY DEF Chronometry, Respond, Fails
<1> HIDE DEF r
<1> QED BY <1>1, NeverSuccess, ServedSays DEF r

(* The western phases rest on the same resolution of the time.             *)
LEMMA WuXingOfSays ==
  ASSUME NEW b, NEW a, NEW e, WuXingOf(b, a, e).error = "none"
  PROVE  /\ Resolve(b, a).error = "none"
         /\ WuXingOf(b, a, e).value.solar = SolarTime(b, Resolve(b, a).value.at).solar
<1> DEFINE sky == WesternOf(b, a, e)
           ledger == WesternLedger(sky.value.bodies, sky.value.ascendant)
           vector == WesternVector(ledger)
           body == [vector |-> vector, dominant |-> Dominant(vector),
                    basis |-> "western_planetary", ledger |-> ledger,
                    solar |-> SolarTime(b, Resolve(b, a).value.at).solar]
<1>1. WuXingOf(b, a, e) = IF sky.error # "none" THEN sky
                          ELSE IF sky.value.ascendant = Failed THEN Raised(ValueError)
                          ELSE Returned(body)
  BY DEF WuXingOf, Then, Fails
<1>2. body.solar = SolarTime(b, Resolve(b, a).value.at).solar
  OBVIOUS
<1>3. sky.error = "none" => Resolve(b, a).error = "none"
  BY DEF WesternOf, Then, Fails
<1> HIDE DEF sky, body
<1>4. sky.error = "none" /\ WuXingOf(b, a, e).value = body
  BY <1>1 DEF Raised, Returned, ValueError
<1> QED BY <1>2, <1>3, <1>4

(* And their endpoint shows them as they are.                              *)
LEMMA WuXingSays ==
  ASSUME NEW b, NEW a, NEW e, NEW x, x.status = 200, x = WuXingEndpoint(b, a, e)
  PROVE  /\ WuXingOf(b, a, Found(e, "western")).error = "none"
         /\ x.body = WuXingOf(b, a, Found(e, "western")).value
<1> DEFINE r == WuXingOf(b, a, Found(e, "western"))
<1>1. x = IF r.error # "none" THEN Unavailable(r) ELSE Answer(r.value)
  BY DEF WuXingEndpoint, RespondOrUnavailable, Fails
<1> HIDE DEF r
<1>2. Unavailable(r).status # 200
  BY NeverSuccess DEF Unavailable, Refused
<1> QED BY <1>1, <1>2, AnswerSays DEF r

(* The endpoint of true solar time shows that of the instant.              *)
LEMMA TstSays ==
  ASSUME NEW b, NEW a, NEW x, x.status = 200, x = Tst(b, a)
  PROVE  /\ Resolve(b, a).error = "none"
         /\ x.body.solar = SolarTime(b, Resolve(b, a).value.at).solar
<1> DEFINE r == Resolve(b, a)
           body == [civil |-> SolarTime(b, r.value.at).civil,
                    correction |-> b.place.longitude, equation |-> b.place.equation,
                    solar |-> SolarTime(b, r.value.at).solar]
<1>1. x = IF r.error # "none" THEN Failure(r) ELSE Answer(body)
  BY DEF Tst, Respond, Fails
<1>2. body.solar = SolarTime(b, r.value.at).solar
  OBVIOUS
<1> HIDE DEF r, body
<1> QED BY <1>1, <1>2, NeverSuccess, AnswerSays DEF r

(* A chart shows the instant its time policy settles on.                   *)
LEMMA ChartSays ==
  ASSUME NEW b, NEW a, NEW policy, NEW validate, NEW e, NEW x, x.status = 200,
         x = ChartEndpoint(b, a, policy, validate, e)
  PROVE  LET settled == PolicyOf(a, policy)
         IN  /\ Resolve(b, settled).error = "none"
             /\ x.body.time.at = Resolve(b, settled).value.at
             /\ x.body.time.solar = SolarTime(b, Resolve(b, settled).value.at).solar
             /\ BaziOf(b, settled, a.boundary, Found(e, "bazi")).error = "none"
             /\ x.body.pillars = BaziOf(b, settled, a.boundary, Found(e, "bazi")).value.chart
             /\ x.body.wuxing.bazi =
                    BaziVector(BaziOf(b, settled, a.boundary, Found(e, "bazi")).value.chart)
<1> DEFINE settled == PolicyOf(a, policy)
           sky == WesternOf(b, settled, Found(e, "western"))
           bazi == BaziOf(b, settled, a.boundary, Found(e, "bazi"))
           time == Resolve(b, settled).value
           west == WesternVector(WesternLedger(sky.value.bodies, Failed))
           east == BaziVector(bazi.value.chart)
           shown == [at |-> time.at, solar |-> SolarTime(b, time.at).solar,
                     status |-> time.status]
           body == [positions |-> Positions(sky.value.bodies), pillars |-> bazi.value.chart,
                    year |-> bazi.value.year,
                    wuxing |-> [west |-> west, bazi |-> east, harmony |-> Cosine(west, east),
                                dominantWest |-> Dominant(west),
                                dominantBazi |-> Dominant(east)],
                    time |-> shown, houses |-> sky.value.quality,
                    validation |-> IF validate THEN "unavailable" ELSE "absent"]
<1>1. x = IF sky.error # "none" THEN Failure(sky)
          ELSE IF bazi.error # "none" THEN Failure(bazi) ELSE Served(body, ChartModel)
  BY DEF ChartEndpoint, Respond, Fails
<1>2. /\ body.time = shown /\ shown.at = time.at /\ shown.solar = SolarTime(b, time.at).solar
  OBVIOUS
<1>5. body.pillars = bazi.value.chart /\ body.wuxing.bazi = east
  <2> HIDE DEF west, east
  <2> QED OBVIOUS
<1>3. sky.error = "none" => Resolve(b, settled).error = "none"
  BY DEF WesternOf, Then, Fails
<1> HIDE DEF sky, bazi, body, shown, settled, west, east
<1>4. sky.error = "none" /\ bazi.error = "none" /\ x.body = body
  BY <1>1, NeverSuccess, ServedSays
<1> QED BY <1>2, <1>3, <1>4, <1>5 DEF settled, bazi, east

(* A prompt shows the trace of the pillars and the frame of the birth.     *)
LEMMA PersonalizeSays ==
  ASSUME NEW b, NEW timeKnown, NEW location, NEW e, NEW x, x.status = 200,
         x = Personalize(b, timeKnown, location, e)
  PROVE  LET a == PersonalizeAsks(timeKnown)
         IN  /\ Traced(b, a, e).error = "none"
             /\ Framed(b, a, Found(e, "frame")).error = "none"
             /\ x.body.trace = Traced(b, a, e).value.trace
             /\ x.body.chronometry = Framed(b, a, Found(e, "frame")).value
<1> DEFINE a == PersonalizeAsks(timeKnown)
           bazi == Traced(b, a, e)
           wuxing == WuXingOf(b, a, Found(e, "western"))
           frame == Framed(b, a, Found(e, "frame"))
           variables == PromptVariables(bazi.value, wuxing.value)
           body == [variables |-> variables, issues |-> Issues(variables),
                    trace |-> bazi.value.trace, chronometry |-> frame.value]
           place == ResolveLocation(location)
<1>1. x = IF place.status # 200 THEN place
          ELSE IF bazi.error # "none" THEN Failure(bazi)
          ELSE IF wuxing.error # "none" THEN Unavailable(wuxing)
          ELSE IF frame.error # "none" THEN Failure(frame) ELSE Answer(body)
  BY DEF Personalize, Respond, RespondOrUnavailable, Fails, Traced, Framed
<1>2. body.trace = bazi.value.trace /\ body.chronometry = frame.value
  OBVIOUS
<1> HIDE DEF bazi, wuxing, frame, body, place, a
<1>3. Unavailable(wuxing).status # 200
  BY NeverSuccess DEF Unavailable, Refused
<1>4. bazi.error = "none" /\ frame.error = "none" /\ x.body = body
  BY <1>1, <1>3, NeverSuccess, AnswerSays
<1> QED BY <1>2, <1>4 DEF bazi, frame, a

(* A vector map shows the nearness of the vectors fused.                   *)
LEMMA VectorMapSays ==
  ASSUME NEW b, NEW a, NEW given, NEW e, NEW x, x.status = 200,
         x = VectorMapEndpoint(b, a, given, e)
  PROVE  LET sky == WesternOf(b, a, Found(e, "western"))
             pillars == PillarsOf(b, a, given, Found(e, "bazi"))
             fusion == Strictly(sky.value.bodies, sky.value.ascendant, pillars.value.chart)
         IN  /\ sky.error = "none" /\ pillars.error = "none" /\ fusion.error = "none"
             /\ x.body.cosine = fusion.value.harmony
             /\ x.body.bazi = VectorOf(BaziLedger(pillars.value.chart))
<1> DEFINE sky == WesternOf(b, a, Found(e, "western"))
           pillars == PillarsOf(b, a, given, Found(e, "bazi"))
           bodies == sky.value.bodies
           ascendant == sky.value.ascendant
           chart == pillars.value.chart
           fusion == Strictly(bodies, ascendant, chart)
           body == [west |-> WesternVector(WesternLedger(bodies, ascendant)),
                    bazi |-> VectorOf(BaziLedger(chart)),
                    overlap |-> Overlap(fusion.value.west, fusion.value.bazi),
                    cosine |-> fusion.value.harmony]
           map == IF fusion.error # "none" THEN fusion
                  ELSE [error |-> "none", value |-> body]
<1>1. x = IF sky.error # "none" THEN Failure(sky)
          ELSE IF pillars.error # "none" THEN Failure(pillars)
          ELSE IF map.error # "none" THEN Unavailable(map) ELSE Answer(map.value)
  BY DEF VectorMapEndpoint, Respond, RespondOrUnavailable, Fails, VectorMap, Strictly
<1>2. body.cosine = fusion.value.harmony /\ body.bazi = VectorOf(BaziLedger(chart))
  OBVIOUS
<1> HIDE DEF fusion, body
<1>3. fusion.error = "none" => map.value = body
  OBVIOUS
<1>4. map.error = fusion.error
  OBVIOUS
<1> HIDE DEF sky, pillars, map
<1>5. Unavailable(map).status # 200
  BY NeverSuccess DEF Unavailable, Refused
<1>6. sky.error = "none" /\ pillars.error = "none" /\ map.error = "none" /\ x = Answer(map.value)
  BY <1>1, <1>5, NeverSuccess
<1>7. fusion.error = "none" /\ x.body = body
  BY <1>3, <1>4, <1>6, AnswerSays
<1> QED BY <1>2, <1>6, <1>7 DEF sky, pillars, fusion

(* The place of a birth.                                                   *)
PlaceType == [at : Int, before : Int, after : Int, longitude : Int, equation : Int]
(* And the bodies in its sky.                                              *)
BodiesType == [Planets -> [sign : -1 .. 11, turns : Int, degree : 0 .. SignWidth - 1]]

(* A body of a birth is in a sign of the zodiac, or has failed (-1).       *)
LEMMA BodySign ==
  ASSUME NEW bodies \in BodiesType, NEW x \in Planets
  PROVE  bodies[x].sign \in -1 .. 11
BY DEF BodiesType

(* What a birth is made of.                                                *)
LEMMA BirthFields ==
  ASSUME NEW b \in BirthType
  PROVE  /\ b.wall \in Int /\ b.civilYear \in Int
         /\ b.place \in PlaceType /\ b.bodies \in BodiesType
         /\ b.sun \in [term : 0 .. 23, turns : Int]
<1> DEFINE sun == [term : 0 .. 23, turns : Int]
           ascendant == [sign : 0 .. 11, turns : Int, degree : 0 .. SignWidth - 1]
           houses == {"placidus", "porphyry", "whole_sign", "none"}
<1>1. BirthType = [wall : Int, place : PlaceType, civilYear : Int, newYear : Int, liChun : Int,
                   sun : sun, bodies : BodiesType, ascendant : ascendant, houses : houses]
  BY DEF BirthType, PlaceType, BodiesType
<1> HIDE DEF sun, ascendant, houses
<1>2. /\ b.wall \in Int /\ b.civilYear \in Int /\ b.sun \in sun
      /\ b.place \in PlaceType /\ b.bodies \in BodiesType
  BY <1>1
<1> QED BY <1>2 DEF sun

(* And its place and its Sun.                                              *)
LEMMA PlaceFields ==
  ASSUME NEW b \in BirthType
  PROVE  /\ b.place.at \in Int /\ b.place.before \in Int /\ b.place.after \in Int
         /\ b.place.longitude \in Int /\ b.place.equation \in Int
         /\ b.sun.turns \in Int /\ b.sun.term \in 0 .. 23
<1> DEFINE place == b.place
           sun == b.sun
<1>1. place \in PlaceType /\ sun \in [term : 0 .. 23, turns : Int]
  BY BirthFields
<1> HIDE DEF place, sun
<1>2. /\ place.at \in Int /\ place.before \in Int /\ place.after \in Int
      /\ place.longitude \in Int /\ place.equation \in Int
      /\ sun.turns \in Int /\ sun.term \in 0 .. 23
  BY <1>1 DEF PlaceType
<1> QED BY <1>2 DEF place, sun

(* A profile is made of pillars, sky and fusion, all of which worked.      *)
LEMMA ProfileSays ==
  ASSUME NEW b, NEW e, Profile(b, e).error = "none"
  PROVE  LET bazi == BaziOfProfile(b, Found(e, "bazi"))
             sky == Western(b, bazi.value.at, Found(e, "western"))
             fusion == Strictly(sky.value.bodies, sky.value.ascendant, bazi.value.chart)
         IN  /\ bazi.error = "none" /\ sky.error = "none" /\ fusion.error = "none"
             /\ Profile(b, e).value = ProfileOf(bazi.value, sky.value, fusion.value)
<1> DEFINE bazi == BaziOfProfile(b, Found(e, "bazi"))
           sky == Western(b, bazi.value.at, Found(e, "western"))
           tried == ComputationError(sky)
           fusion == Strictly(tried.value.bodies, tried.value.ascendant, bazi.value.chart)
           fused == ComputationError(fusion)
<1>1. Profile(b, e) =
          IF bazi.error # "none" THEN bazi
          ELSE IF tried.error # "none" THEN tried
          ELSE IF fused.error # "none" THEN fused
          ELSE Returned(ProfileOf(bazi.value, tried.value, fused.value))
  BY DEF Profile, Then, Fails, Strictly
<1>2. ASSUME NEW r, ComputationError(r).error = "none" PROVE r.error = "none" /\ ComputationError(r) = r
  BY <1>2 DEF ComputationError, Fails, Raised
<1> HIDE DEF bazi, tried, fused
<1>3. /\ bazi.error = "none" /\ tried.error = "none" /\ fused.error = "none"
      /\ Profile(b, e) = Returned(ProfileOf(bazi.value, tried.value, fused.value))
  BY <1>1
<1>4. sky.error = "none" /\ tried = sky
  BY <1>2, <1>3 DEF tried
<1>5. fusion.error = "none" /\ fused = fusion
  BY <1>2, <1>3 DEF fused
<1> QED BY <1>3, <1>4, <1>5 DEF Returned, bazi

(* An app is told the harmony and the day master of its profile, and a     *)
(* signature made of it.                                                   *)
LEMMA BootstrapSays ==
  ASSUME NEW b, NEW e, NEW x, x.status = 200, x = Bootstrap(b, e)
  PROVE  /\ Profile(b, e).error = "none"
         /\ x.body.harmony = Profile(b, e).value.harmony
         /\ x.body.dayMaster = Profile(b, e).value.dayMaster
         /\ IsBlueprint(x.body.signature)
         /\ \E sectors, vector, harmony : x.body.signature = Blueprint(sectors, vector, harmony)
<1> DEFINE r == Profile(b, e)
           profile == r.value
           soulprint == Soulprint(profile)
           signature == Blueprint(soulprint, profile.vector, profile.harmony)
           body == [sun |-> profile.sun, moon |-> profile.moon,
                    ascendant |-> profile.ascendant, dayMaster |-> profile.dayMaster,
                    harmony |-> profile.harmony, soulprint |-> soulprint,
                    signature |-> signature]
<1>1. x = IF r.error # "none" THEN Failure(r)
          ELSE IF IsBlueprint(body.signature) THEN Answer(body)
          ELSE Refused(500, "ValidationError")
  BY DEF Bootstrap, Respond, Fails
<1> HIDE DEF r, soulprint
<1>2. /\ body.harmony = profile.harmony /\ body.dayMaster = profile.dayMaster
      /\ body.signature = signature
  <2> HIDE DEF signature, profile
  <2> QED OBVIOUS
<1> HIDE DEF body, signature
<1>3. r.error = "none" /\ x = Answer(body) /\ IsBlueprint(body.signature)
  BY <1>1, NeverSuccess DEF Refused
<1>4. \E sectors, vector, harmony : signature = Blueprint(sectors, vector, harmony)
  BY DEF signature
<1> QED BY <1>2, <1>3, <1>4, AnswerSays DEF r

(* A day's reading is made of the profile: its flags, the day in the east, *)
(* and the impact of every weather.                                        *)
LEMMA DailySays ==
  ASSUME NEW b, NEW timeKnown, NEW soulprint, NEW quiz, NEW day, NEW weathers, NEW e, NEW x,
         x.status = 200, x = Daily(b, timeKnown, soulprint, quiz, day, weathers, e)
  PROVE  LET profile == Profile(b, e).value
         IN  /\ Profile(b, e).error = "none"
             /\ x.body.flags = QualityFlags(profile, timeKnown)
             /\ x.body.eastern = EasternDaily(b, profile.dayMaster, day, Found(e, "term"))
             /\ x.body.impact =
                    UNION {DailyImpact(b, profile, soulprint, quiz, day, w, Found(e, "impact")) :
                               w \in weathers}
<1> DEFINE r == Profile(b, e)
           profile == r.value
           western == WesternDaily(soulprint, day)
           eastern == EasternDaily(b, profile.dayMaster, day, Found(e, "term"))
           impacts == UNION {DailyImpact(b, profile, soulprint, quiz, day, w, Found(e, "impact")) :
                                w \in weathers}
           lost == Raised("EphemerisUnavailableError")
           body == [day |-> day, western |-> western, eastern |-> eastern,
                    fusion |-> FusionDaily(western, eastern),
                    flags |-> QualityFlags(profile, timeKnown), impact |-> impacts]
<1>1. x = IF ~IsSectors(soulprint) \/ ~IsSectors(quiz) THEN Refused(422, "validation_error")
          ELSE IF r.error # "none" THEN Failure(r)
          ELSE IF Found(e, "transit") = "missing" THEN Failure(lost) ELSE Answer(body)
  BY DEF Daily, Attest, Respond, Fails, Raised, Returned
<1>2. /\ body.flags = QualityFlags(profile, timeKnown) /\ body.eastern = eastern
      /\ body.impact = impacts
  OBVIOUS
<1> HIDE DEF body, r, impacts, eastern, lost
<1>3. r.error = "none" /\ x = Answer(body)
  BY <1>1, NeverSuccess DEF Refused
<1> QED BY <1>2, <1>3, AnswerSays DEF r, impacts, eastern

(* The impact of a day is that of the pillars of the birth.                *)
LEMMA ImpactSays ==
  ASSUME NEW b, NEW day, NEW sectors, NEW weather, NEW e, NEW x, x.status = 200,
         x = ImpactActive(b, day, sectors, weather, e)
  PROVE  LET bazi == BaziOfProfile(b, Found(e, "bazi"))
             u == bazi.value.at
         IN  /\ bazi.error = "none"
             /\ x.body = ImpactOf(bazi.value.chart[3].stem, Longitudes(b, u), Cusps(b, u), day,
                                  sectors, weather)
<1> DEFINE r == BaziOfProfile(b, Found(e, "bazi"))
           u == r.value.at
           impact == ImpactOf(r.value.chart[3].stem, Longitudes(b, u), Cusps(b, u), day, sectors,
                              weather)
           lost == Raised("EphemerisUnavailableError")
<1>1. x = IF r.error # "none" THEN Failure(r)
          ELSE IF Western(b, u, Found(e, "western")).error # "none"
               THEN Refused(422, "computation_error")
          ELSE IF Found(e, "transit") = "missing" THEN Failure(lost)
          ELSE IF IsImpact(impact) THEN Answer(impact) ELSE Refused(500, "ValidationError")
  BY DEF ImpactActive, Attest, Respond, Fails, Raised, Returned
<1> HIDE DEF r, impact, lost
<1>2. r.error = "none" /\ x = Answer(impact)
  BY <1>1, NeverSuccess DEF Refused
<1> QED BY <1>2, AnswerSays DEF r, impact

(* What is known of an answer that succeeded.                              *)
LEMMA EntrySaid ==
  ASSUME AnswersSaid, NEW endpoints, NEW q \in AnsweredBy(endpoints)
  PROVE  /\ q[1] \in endpoints /\ answers[q].answer.status = 200
         /\ answers[q].eph \in Ephemerides(mode) /\ Said(birth, asked, q, answers[q])
         /\ Body(q) = answers[q].answer.body
  BY DEF AnsweredBy, Answered, AnswersSaid, Body

(* What is known of who asks.                                              *)
LEMMA ClientAsks ==
  ASSUME Settings
  PROVE  asked \in Requests /\ birth \in DOMAIN Births /\ Births[birth] \in BirthType
  BY ReadingsAssumption, BirthsAssumption DEF Settings

-----------------------------------------------------------------------------
(* Times that are not known.                                               *)

(* Of five endpoints the answer marks what hangs on the time.              *)
LEMMA ProvisionalSaid ==
  ASSUME NEW b, NEW a, NEW q, NEW e, ChartSaid(b, a, q, e), e.answer.status = 200,
         q[1] \in {"bazi", "trace", "bazi/wuxing", "natal", "fusion"}
  PROVE  \E fields : fields # {} /\ e.answer.body.provisional = Provisional(a, fields)
<1> DEFINE hour == {"hour"}
           all == {"signature", "hour", "ascendant", "houses"}
<1>0. hour # {} /\ all # {}
  OBVIOUS
<1>1. CASE q[1] = "bazi"
  <2>1. e.answer = Bazi(b, a, e.eph)
    BY <1>1 DEF ChartSaid
  <2>2. e.answer.body.provisional = Provisional(a, hour)
    BY <2>1, BaziSays, BaziResponseSays
  <2> QED BY <1>0, <2>2
<1>2. CASE q[1] = "trace"
  <2>1. e.answer = BaziTrace(b, a, e.eph)
    BY <1>2 DEF ChartSaid
  <2>2. e.answer.body.provisional = Provisional(a, hour)
    BY <2>1, BaziTraceSays, BaziResponseSays
  <2> QED BY <1>0, <2>2
<1>3. CASE q[1] = "bazi/wuxing"
  <2>1. e.answer.body.provisional = Provisional(a, hour)
    BY <1>3, BaziWuXingSays DEF ChartSaid
  <2> QED BY <1>0, <2>1
<1>4. CASE q[1] = "natal"
  <2>1. e.answer = Natal(b, a, e.eph)
    BY <1>4 DEF ChartSaid
  <2>2. e.answer.body.provisional = Provisional(a, hour)
    BY <2>1, NatalSays
  <2> QED BY <1>0, <2>2
<1>5. CASE q[1] = "fusion"
  <2>1. e.answer = FusionEndpoint(b, a, q[2], e.eph)
    BY <1>5 DEF ChartSaid
  <2>2. e.answer.body.provisional = Provisional(a, all)
    BY <2>1, FusionEndpointSays
  <2> QED BY <1>0, <2>2
<1> QED BY <1>1, <1>2, <1>3, <1>4, <1>5

(* A fusion that insists on an ascendant is exact, if there is one.        *)
LEMMA StrictIsExact ==
  ASSUME NEW bodies, NEW ascendant, NEW chart,
         Strictly(bodies, ascendant, chart).error = "none"
  PROVE  /\ ascendant # Failed
         /\ Strictly(bodies, ascendant, chart).value.quality = "exact"
<1> DEFINE west == WesternVector(WesternLedger(bodies, ascendant))
           bazi == VectorOf(BaziLedger(chart))
           value == FusionOfVectors(bodies, ascendant, chart, west, bazi)
<1>1. Strictly(bodies, ascendant, chart) =
          IF ascendant = Failed THEN [error |-> ValueError]
          ELSE [error |-> "none", value |-> value]
  BY DEF Strictly, FusionOf
<1>2. value.quality = IF ascendant = Failed THEN "assumed_day" ELSE "exact"
  <2> HIDE DEF west, bazi
  <2> QED BY DEF FusionOfVectors
<1> HIDE DEF value
<1>3. ascendant # Failed
  BY <1>1 DEF ValueError
<1> QED BY <1>1, <1>2, <1>3

(* A frame is graded by the time first, and by the ephemeris then.         *)
LEMMA FrameGraded ==
  ASSUME NEW b, NEW a, NEW dateOnly, NEW e, NEW v,
         ResolveChronometry(b, a, dateOnly, e).error = "none",
         v = ResolveChronometry(b, a, dateOnly, e).value
  PROVE  /\ e # "missing"
         /\ ~a.timeKnown \/ dateOnly => v.grade = "unknown_time" /\ v.solar = {}
         /\ a.timeKnown /\ ~dateOnly =>
                /\ v.grade = IF e = "MOSEPH" THEN "degraded" ELSE "exact"
                /\ v.solar = {SolarOf(Given(b, dateOnly), a)}
<1> DEFINE given == Given(b, dateOnly)
           known == a.timeKnown /\ ~dateOnly
           u == InstantOf(given, a)
           solar == IF known THEN {SolarTime(given, u).solar} ELSE {}
           grade == IF ~known THEN "unknown_time" ELSE IF e = "MOSEPH" THEN "degraded" ELSE "exact"
           frame == [at |-> u, date |-> Epoch + (CivilAt(b.place, u) \div 1440),
                     solar |-> solar,
                     rollover |-> IF known THEN {SolarTime(given, u).rollover} ELSE {},
                     term |-> TermAt(given, u), flags |-> BoundaryFlags(given, u),
                     grade |-> grade]
           r == ResolveChronometry(b, a, dateOnly, e)
           first == Resolve(given, a)
<1>1. r = IF first.error # "none" THEN first
          ELSE IF e = "missing" THEN Raised("EphemerisUnavailableError") ELSE Returned(frame)
  BY DEF ResolveChronometry, Then, Fails, Grade, Given, InstantOf
<1>2. frame.solar = solar /\ frame.grade = grade
  <2> HIDE DEF solar, grade, u, given, known
  <2> QED OBVIOUS
<1>3. solar = IF known THEN {SolarOf(given, a)} ELSE {}
  BY DEF SolarOf
<1> HIDE DEF frame, first, solar
<1>4. r.error = "none" /\ v = r.value
  OBVIOUS
<1> HIDE DEF r
<1>5. first.error = "none" /\ e # "missing" /\ v = frame
  BY <1>1, <1>4 DEF Raised, Returned
<1>6. v.solar = solar /\ v.grade = grade
  BY <1>2, <1>5
<1> QED BY <1>3, <1>5, <1>6

(* The same of the answer of the chronometry endpoint.                     *)
LEMMA GradeSaid ==
  ASSUME NEW b, NEW a, NEW q, NEW e, PromptSaid(b, a, q, e), e.answer.status = 200,
         q[1] = "chronometry", a.timeKnown \in BOOLEAN
  PROVE  /\ q[2] \in BOOLEAN /\ Found(e.eph, "frame") # "missing"
         /\ ~a.timeKnown \/ q[2] =>
                e.answer.body.grade = "unknown_time" /\ e.answer.body.solar = {}
         /\ a.timeKnown /\ ~q[2] =>
                /\ e.answer.body.grade =
                       IF Found(e.eph, "frame") = "MOSEPH" THEN "degraded" ELSE "exact"
                /\ e.answer.body.solar # {}
<1> DEFINE body == e.answer.body
<1>1. e.answer = Chronometry(b, a, q[2], e.eph) /\ q[2] \in BOOLEAN
  BY DEF PromptSaid
<1>2. /\ ResolveChronometry(b, a, q[2], Found(e.eph, "frame")).error = "none"
      /\ body = ResolveChronometry(b, a, q[2], Found(e.eph, "frame")).value
  BY <1>1, ChronometrySays
<1> HIDE DEF body
<1>3. /\ Found(e.eph, "frame") # "missing"
      /\ ~a.timeKnown \/ q[2] => body.grade = "unknown_time" /\ body.solar = {}
      /\ a.timeKnown /\ ~q[2] =>
             /\ body.grade = IF Found(e.eph, "frame") = "MOSEPH" THEN "degraded" ELSE "exact"
             /\ body.solar = {SolarOf(Given(b, q[2]), a)}
  <2> DEFINE d == q[2]
             mode0 == Found(e.eph, "frame")
  <2>1. /\ ResolveChronometry(b, a, d, mode0).error = "none"
        /\ body = ResolveChronometry(b, a, d, mode0).value
    BY <1>2
  <2> HIDE DEF d, mode0
  <2>2. /\ mode0 # "missing"
        /\ ~a.timeKnown \/ d => body.grade = "unknown_time" /\ body.solar = {}
        /\ a.timeKnown /\ ~d =>
               /\ body.grade = IF mode0 = "MOSEPH" THEN "degraded" ELSE "exact"
               /\ body.solar = {SolarOf(Given(b, d), a)}
    BY <2>1, FrameGraded
  <2> QED BY <2>2 DEF d, mode0
<1> QED BY <1>1, <1>3 DEF body

(* A profile that succeeded has an ascendant, so it counts as exact.       *)
LEMMA ProfileIsExact ==
  ASSUME NEW b, NEW e, Profile(b, e).error = "none"
  PROVE  Profile(b, e).value.quality = "exact"
<1> DEFINE bazi == BaziOfProfile(b, Found(e, "bazi"))
           sky == Western(b, bazi.value.at, Found(e, "western"))
           fusion == Strictly(sky.value.bodies, sky.value.ascendant, bazi.value.chart)
<1>1. /\ Profile(b, e).value = ProfileOf(bazi.value, sky.value, fusion.value)
      /\ fusion.error = "none"
  BY ProfileSays
<1>2. fusion.value.quality = "exact"
  <2> HIDE DEF bazi, sky
  <2> QED BY <1>1, StrictIsExact
<1> HIDE DEF fusion, sky, bazi
<1>3. ProfileOf(bazi.value, sky.value, fusion.value).quality = "exact"
  BY <1>2 DEF ProfileOf
<1> QED BY <1>1, <1>3

(* From the answers kept, the promise about unknown times.                 *)
LEMMA Flagged ==
  ASSUME Settings, AnswersSaid
  PROVE  ProvisionalFlagged
<1>0. asked.timeKnown \in BOOLEAN
  BY ClientAsks DEF Requests
<1>1. ASSUME NEW q \in AnsweredBy({"bazi", "trace", "bazi/wuxing", "natal", "fusion"})
      PROVE  asked.timeKnown <=> Body(q).provisional = {}
  <2>1. PICK fields : fields # {} /\ Body(q).provisional = Provisional(asked, fields)
    BY EntrySaid, ProvisionalSaid DEF Said
  <2> QED BY <1>0, <2>1 DEF Provisional
<1>2. ASSUME NEW q \in AnsweredBy({"chronometry"})
      PROVE  LET known == asked.timeKnown /\ ~q[2]
             IN  /\ Body(q).grade = "unknown_time" <=> ~known
                 /\ known <=> Body(q).solar # {}
                 /\ Body(q).grade = "exact" => mode = "SWIEPH"
  <2> DEFINE e == answers[q]
             b == Births[birth]
  <2>1. /\ PromptSaid(b, asked, q, e) /\ e.answer.status = 200
        /\ q[1] = "chronometry" /\ e.eph \in Ephemerides(mode) /\ Body(q) = e.answer.body
    BY EntrySaid DEF Said
  <2> HIDE DEF e, b
  <2>2. /\ q[2] \in BOOLEAN /\ Found(e.eph, "frame") # "missing"
        /\ ~asked.timeKnown \/ q[2] =>
               e.answer.body.grade = "unknown_time" /\ e.answer.body.solar = {}
        /\ asked.timeKnown /\ ~q[2] =>
               /\ e.answer.body.grade =
                      IF Found(e.eph, "frame") = "MOSEPH" THEN "degraded" ELSE "exact"
               /\ e.answer.body.solar # {}
    BY <1>0, <2>1, GradeSaid
  <2> DEFINE body == e.answer.body
  <2> HIDE DEF body
  <2>3. Body(q) = body
    BY <2>1 DEF body
  <2>4. /\ ~asked.timeKnown \/ q[2] => body.grade = "unknown_time" /\ body.solar = {}
        /\ asked.timeKnown /\ ~q[2] =>
               /\ body.grade = IF Found(e.eph, "frame") = "MOSEPH" THEN "degraded" ELSE "exact"
               /\ body.solar # {}
    BY <2>2 DEF body
  <2> DEFINE known == asked.timeKnown /\ ~q[2]
  <2>5. /\ known \in BOOLEAN
        /\ ~known => body.grade = "unknown_time" /\ body.solar = {}
        /\ known => /\ body.grade = IF Found(e.eph, "frame") = "MOSEPH" THEN "degraded" ELSE "exact"
                    /\ body.solar # {}
    BY <1>0, <2>2, <2>4
  <2> HIDE DEF known
  <2>6. /\ body.grade = "unknown_time" <=> ~known
        /\ known <=> body.solar # {}
        /\ body.grade = "exact" => mode = "SWIEPH"
    <3> DEFINE found == Found(e.eph, "frame")
               grade == body.grade
               solar == body.solar
    <3>1. found \in {mode, "missing"} /\ found # "missing" /\ mode \in {"SWIEPH", "MOSEPH"}
      BY <2>1, <2>2 DEF Found, Ephemerides, Settings
    <3>2. /\ known \in BOOLEAN
          /\ ~known => grade = "unknown_time" /\ solar = {}
          /\ known => /\ grade = IF found = "MOSEPH" THEN "degraded" ELSE "exact"
                      /\ solar # {}
      BY <2>2, <2>5
    <3> HIDE DEF found, grade, solar
    <3>3. /\ grade = "unknown_time" <=> ~known
          /\ known <=> solar # {}
          /\ grade = "exact" => mode = "SWIEPH"
      BY <3>1, <3>2
    <3> QED BY <3>3 DEF found, grade, solar
  <2> QED BY <2>3, <2>6 DEF known, e
<1>3. ASSUME NEW q \in AnsweredBy({"daily"})
      PROVE  Body(q).flags.chart = "assumed_day" <=> ~asked.timeKnown
  <2> DEFINE b == Births[birth]
             e == answers[q].eph
  <2>1. PICK soulprint : /\ answers[q].answer.status = 200
                         /\ Body(q) = answers[q].answer.body
                         /\ answers[q].answer = Daily(b, asked.timeKnown, soulprint, Equal,
                                                      q[2], q[3], e)
    BY EntrySaid DEF Said, AppSaid
  <2>2. /\ Profile(b, e).error = "none"
        /\ Body(q).flags = QualityFlags(Profile(b, e).value, asked.timeKnown)
    BY <2>1, DailySays
  <2>6. Profile(b, e).value.quality = "exact"
    BY <2>2, ProfileIsExact
  <2> QED BY <1>0, <2>2, <2>6 DEF QualityFlags
<1> QED BY <1>1, <1>2, <1>3 DEF ProvisionalFlagged

(* A birth whose time is not known is never shown as one that is           *)
(* (routers/shared.py, chronometry.py, services/daily_western.py).         *)
THEOREM UnknownTimesFlagged == Spec => []ProvisionalFlagged
<1>1. IInv => ProvisionalFlagged
  BY Flagged DEF IInv
<1> QED BY <1>1, InvAlways, PTL

-----------------------------------------------------------------------------
(* Wall times and instants.                                                *)

(* A wall time has no instant, one, or two.                                *)
LEMMA InstantsCount ==
  ASSUME NEW place, NEW wall
  PROVE  \/ Instants(place, wall) = {}
         \/ Cardinality(Instants(place, wall)) = 1
         \/ Cardinality(Instants(place, wall)) = 2
<1> DEFINE S == Instants(place, wall)
           x == wall - place.before
           y == wall - place.after
<1>1. S \subseteq {x, y}
  BY DEF Instants
<1> HIDE DEF S, x, y
<1>2. S = {} \/ S = {x} \/ S = {y} \/ (S = {x} \cup {y} /\ x # y)
  BY <1>1
<1>3. /\ IsFiniteSet({x}) /\ Cardinality({x}) = 1
      /\ IsFiniteSet({y}) /\ Cardinality({y}) = 1
  BY FS_Singleton
<1>4. x # y => Cardinality({x} \cup {y}) = 2
  BY <1>3, FS_AddElement
<1>5. S = {} \/ Cardinality(S) = 1 \/ Cardinality(S) = 2
  BY <1>2, <1>3, <1>4
<1> QED BY <1>5 DEF S

(* Where a time does not exist, the moment the clocks change is the one    *)
(* instant of what they then show.                                         *)
LEMMA GapOpens ==
  ASSUME NEW place \in [at : Int, before : Int, after : Int, longitude : Int, equation : Int],
         NEW wall \in Int, Instants(place, wall) = {}
  PROVE  Instants(place, CivilAt(place, place.at)) = {place.at}
<1> DEFINE at == place.at
           before == place.before
           after == place.after
<1>1. at \in Int /\ before \in Int /\ after \in Int
  OBVIOUS
<1>2. /\ (wall - before) + (IF wall - before < at THEN before ELSE after) # wall
      /\ (wall - after) + (IF wall - after < at THEN before ELSE after) # wall
  BY DEF Instants, CivilAt
<1>3. Instants(place, CivilAt(place, at)) =
          {u \in {at + after - before, at + after - after} :
              u + (IF u < at THEN before ELSE after) = at + after}
  BY <1>1 DEF Instants, CivilAt
<1> HIDE DEF at, before, after
<1>4. before < after
  BY <1>1, <1>2
<1>5. {u \in {at + after - before, at + after - after} :
          u + (IF u < at THEN before ELSE after) = at + after} = {at}
  BY <1>1, <1>4
<1> QED BY <1>3, <1>5 DEF at

(* A wall time with one instant is read as that, whatever the fold.        *)
LEMMA OneReading ==
  ASSUME NEW place, NEW wall, NEW fold, NEW u \in Int, Instants(place, wall) = {u}
  PROVE  Reading(place, wall, fold) = u
  BY DEF Reading

(* A wall time that exists is read as one of its instants.                 *)
LEMMA ReadingIsInstant ==
  ASSUME NEW place \in [at : Int, before : Int, after : Int, longitude : Int, equation : Int],
         NEW wall \in Int, NEW fold, Instants(place, wall) # {}
  PROVE  Reading(place, wall, fold) \in Int
<1> DEFINE S == Instants(place, wall)
           x == wall - place.before
           y == wall - place.after
           First(u, v) == IF fold = 0 THEN u <= v ELSE v <= u
<1>1. x \in Int /\ y \in Int /\ S \subseteq {x, y}
  BY DEF Instants
<1> HIDE DEF S, x, y
<1>2. First(x, x) /\ First(y, y) /\ (First(x, y) \/ First(y, x))
  BY <1>1
<1> HIDE DEF First
<1>3. \E u \in S : \A v \in S : First(u, v)
  <2>1. S # {}
    BY DEF S
  <2>2. x \in S \/ y \in S
    BY <1>1, <2>1
  <2>3. \A v \in S : v = x \/ v = y
    BY <1>1
  <2> QED BY <1>2, <2>2, <2>3
<1>4. Reading(place, wall, fold) = CHOOSE u \in S : \A v \in S : First(u, v)
  BY DEF Reading, First, S
<1>5. Reading(place, wall, fold) \in S
  BY <1>3, <1>4
<1> QED BY <1>1, <1>5

(* What an endpoint resolves, the engine reads again as the same instant:  *)
(* the wall time it is given exists, and the fold leads to the same of     *)
(* two.                                                                    *)
LEMMA ReadAgain ==
  ASSUME NEW b \in BirthType, NEW a \in Requests, Resolve(b, a).error = "none"
  PROVE  /\ Instants(b.place, Resolve(b, a).value.wall) # {}
         /\ Reading(b.place, Resolve(b, a).value.wall, FoldAsked(a)) = InstantOf(b, a)
         /\ InstantOf(b, a) \in Int
<1> DEFINE place == b.place
           wall == b.wall
           t == Resolve(b, a)
           count == Cardinality(Instants(place, wall))
           first == Reading(place, wall, FoldAsked(a))
<1>1. /\ place \in [at : Int, before : Int, after : Int, longitude : Int, equation : Int]
      /\ wall \in Int /\ place.at \in Int
  BY BirthFields, PlaceFields DEF PlaceType
<1>2. CASE count = 1
  <2>1. Instants(place, wall) # {}
    BY <1>2, FS_EmptySet
  <2>2. t = Resolution(wall, first, FoldAsked(a), "ok")
    BY <1>2, <2>1 DEF Resolve
  <2>3. t.value.wall = wall /\ t.value.at = first
    BY <2>2 DEF Resolution, Returned
  <2> QED BY <1>1, <2>1, <2>3, ReadingIsInstant DEF InstantOf
<1>3. CASE count = 2
  <2>1. Instants(place, wall) # {}
    BY <1>3, FS_EmptySet
  <2>2. t = Resolution(wall, first, FoldAsked(a), "ambiguous")
    BY <1>3, <2>1 DEF Resolve
  <2>3. t.value.wall = wall /\ t.value.at = first
    BY <2>2 DEF Resolution, Returned
  <2> QED BY <1>1, <2>1, <2>3, ReadingIsInstant DEF InstantOf
<1>4. CASE Instants(place, wall) = {}
  <2>1. count = 0
    BY <1>4, FS_EmptySet
  <2>2. a.nonexistent \in {"error", "shift_forward"}
    BY DEF Requests
  <2>3. t = IF a.nonexistent = "shift_forward"
            THEN Resolution(CivilAt(place, place.at), place.at, 0, "nonexistent_shifted")
            ELSE Raised("LocalTimeError")
    BY <1>4, <2>1, <2>2 DEF Resolve
  <2>4. t.value.wall = CivilAt(place, place.at) /\ t.value.at = place.at
    BY <2>3 DEF Resolution, Returned, Raised
  <2>5. Instants(place, CivilAt(place, place.at)) = {place.at}
    BY <1>1, <1>4, GapOpens
  <2> QED BY <1>1, <2>4, <2>5, OneReading DEF InstantOf
<1> QED BY <1>2, <1>3, <1>4, InstantsCount

(* Only how a request settles doubtful times matters to it.                *)
LEMMA SameResolution ==
  ASSUME NEW b, NEW a, NEW c, a.ambiguous = c.ambiguous, a.nonexistent = c.nonexistent
  PROVE  Resolve(b, a) = Resolve(b, c)
  BY DEF Resolve, FoldAsked

(* So the pillars are those of the instant the endpoint resolved.          *)
LEMMA BaziOfSays ==
  ASSUME NEW b \in BirthType, NEW a \in Requests, NEW boundary, NEW e,
         BaziOf(b, a, boundary, e).error = "none"
  PROVE  /\ Resolve(b, a).error = "none" /\ e # "missing"
         /\ BaziOf(b, a, boundary, e).value.at = InstantOf(b, a)
         /\ BaziOf(b, a, boundary, e).value.chart = Chart(b, InstantOf(b, a), a.standard, boundary)
<1> DEFINE t == Resolve(b, a)
           r == BaziOf(b, a, boundary, e)
           u == Reading(b.place, t.value.wall, FoldAsked(a))
           chart == Chart(b, u, a.standard, boundary)
           bazi == [at |-> u, chart |-> chart, year |-> SolarYear(b, u),
                    before |-> BeforeLiChun(b, u)]
<1>1. r = IF t.error # "none" THEN t
          ELSE IF Instants(b.place, t.value.wall) = {} THEN Raised("LocalTimeError")
          ELSE IF e = "missing" THEN Raised("EphemerisUnavailableError") ELSE Returned(bazi)
  BY DEF BaziOf, Then, Fails, ComputeBazi
<1>2. bazi.at = u /\ bazi.chart = chart
  OBVIOUS
<1>3. t.error = "none" => u = InstantOf(b, a)
  BY ReadAgain
<1> HIDE DEF bazi, t, u, chart, r
<1>4. r.error = "none"
  BY DEF r
<1>5. t.error = "none" /\ e # "missing" /\ r.value = bazi
  BY <1>1, <1>4 DEF Raised, Returned
<1>6. r.value.at = InstantOf(b, a) /\ r.value.chart = chart
  BY <1>2, <1>3, <1>5
<1> QED BY <1>3, <1>5, <1>6 DEF r, t, chart

(* The sky is that of the instant it is given.                             *)
LEMMA WesternSays ==
  ASSUME NEW b, NEW u, NEW e, Western(b, u, e).error = "none"
  PROVE  /\ Western(b, u, e).value.bodies = BodiesAt(b, u)
         /\ Western(b, u, e).value.ascendant = SignAt(b.ascendant, u)
<1> DEFINE bodies == BodiesAt(b, u)
           ascendant == SignAt(b.ascendant, u)
           quality == HouseQuality(b.houses, e)
           sky == [bodies |-> bodies, ascendant |-> ascendant, quality |-> quality]
           r == Western(b, u, e)
<1>1. r = IF e = "missing" THEN Raised("EphemerisUnavailableError")
          ELSE IF b.houses = "none" THEN Raised("RuntimeError") ELSE Returned(sky)
  BY DEF Western
<1>2. sky.bodies = bodies /\ sky.ascendant = ascendant
  OBVIOUS
<1> HIDE DEF sky, bodies, ascendant, r
<1>3. r.error = "none"
  BY DEF r
<1>4. r.value = sky
  BY <1>1, <1>3 DEF Raised, Returned
<1>5. r.value.bodies = bodies /\ r.value.ascendant = ascendant
  BY <1>2, <1>4
<1> QED BY <1>5 DEF r, bodies, ascendant

(* And of a request, that of the instant resolved.                         *)
LEMMA WesternOfSays ==
  ASSUME NEW b, NEW a, NEW e, WesternOf(b, a, e).error = "none"
  PROVE  /\ Resolve(b, a).error = "none"
         /\ WesternOf(b, a, e).value.bodies = BodiesAt(b, InstantOf(b, a))
         /\ WesternOf(b, a, e).value.ascendant = SignAt(b.ascendant, InstantOf(b, a))
<1> DEFINE u == InstantOf(b, a)
<1>1. WesternOf(b, a, e) = IF Resolve(b, a).error # "none" THEN Resolve(b, a)
                           ELSE Western(b, u, e)
  BY DEF WesternOf, Then, Fails, InstantOf
<1> HIDE DEF u
<1>2. Resolve(b, a).error = "none" /\ WesternOf(b, a, e) = Western(b, u, e)
  BY <1>1
<1>3. Western(b, u, e).error = "none"
  BY <1>2
<1> QED BY <1>2, <1>3, WesternSays DEF u

-----------------------------------------------------------------------------
(* What fusion claims.                                                     *)

(* What a calibration says, with and without vectors.                      *)
LEMMA CalibrateSays ==
  ASSUME NEW h, NEW bodies, NEW chart, NEW west, NEW bazi, NEW c, NEW empty,
         c = Calibrate(h, bodies, chart, west, bazi), empty = (IsZero(west) \/ IsZero(bazi))
  PROVE  /\ c.raw = h
         /\ empty => c.quality = "degenerate" /\ c.calibrated = 0 /\ c.band = "undefined"
         /\ ~empty => /\ c.quality = IF c.west < 3 \/ c.bazi < 8 THEN "sparse" ELSE "ok"
                      /\ c.calibrated = Calibrated(h, BaselineFor(c.west, c.bazi))
<1> DEFINE m == CountBodies(bodies)
           n == CountContributions(chart)
           quality == IF m < 3 \/ n < 8 THEN "sparse" ELSE "ok"
           calibrated == Calibrated(h, BaselineFor(m, n))
           body(q, v) == [raw |-> h, quality |-> q, calibrated |-> v, band |-> Band(q, v),
                          west |-> m, bazi |-> n]
<1>1. c = IF IsZero(west) \/ IsZero(bazi) THEN body("degenerate", 0) ELSE body(quality, calibrated)
  BY DEF Calibrate, Calibration
<1>2. ASSUME NEW q, NEW v
      PROVE  /\ body(q, v).raw = h /\ body(q, v).quality = q /\ body(q, v).calibrated = v
             /\ body(q, v).band = Band(q, v) /\ body(q, v).west = m /\ body(q, v).bazi = n
  OBVIOUS
<1>3. Band("degenerate", 0) = "undefined"
  BY DEF Band
<1>4. quality = IF m < 3 \/ n < 8 THEN "sparse" ELSE "ok"
  OBVIOUS
<1>5. calibrated = Calibrated(h, BaselineFor(m, n))
  OBVIOUS
<1> HIDE DEF body, quality, calibrated, m, n
<1>6. CASE empty
  <2>1. c = body("degenerate", 0)
    BY <1>1, <1>6
  <2>2. c.raw = h /\ c.quality = "degenerate" /\ c.calibrated = 0 /\ c.band = "undefined"
    BY <1>2, <1>3, <2>1
  <2> QED BY <1>6, <2>2
<1>7. CASE ~empty
  <2>1. c = body(quality, calibrated)
    BY <1>1, <1>7
  <2>2. /\ c.raw = h /\ c.quality = quality /\ c.calibrated = calibrated
        /\ c.west = m /\ c.bazi = n
    BY <1>2, <2>1
  <2> QED BY <1>4, <1>5, <1>7, <2>2
<1> QED BY <1>6, <1>7

(* The calibrated value is never more than the raw one: the baseline lies  *)
(* between nothing and everything.                                         *)
LEMMA CalibratedBelow ==
  ASSUME NEW h \in 0 .. 1000, NEW m \in Nat, NEW n \in Nat
  PROVE  Calibrated(h, BaselineFor(m, n)) <= h
<1>1. BaselineFor(m, n) \in {4489, 5235, 5464, 6088, 6904, 7274, 6650, 7974, 7958}
  <2>1. Bucket(m, 3, 8) \in {1, 2, 3} /\ Bucket(n, 8, 16) \in {1, 2, 3}
    BY DEF Bucket
  <2> DEFINE i == Bucket(m, 3, 8)
             j == Bucket(n, 8, 16)
  <2> HIDE DEF i, j
  <2>2. i \in {1, 2, 3} /\ j \in {1, 2, 3} => 
            Baseline[i][j] \in {4489, 5235, 5464, 6088, 6904, 7274, 6650, 7974, 7958}
    BY DEF Baseline
  <2> QED BY <2>1, <2>2 DEF i, j, BaselineFor
<1>2. ASSUME NEW baseline \in {4489, 5235, 5464, 6088, 6904, 7274, 6650, 7974, 7958}
      PROVE  Contrast(h, baseline) <= h
  <2>1. CASE baseline = 4489
    BY <2>1 DEF Contrast
  <2>2. CASE baseline = 5235
    BY <2>2 DEF Contrast
  <2>3. CASE baseline = 5464
    BY <2>3 DEF Contrast
  <2>4. CASE baseline = 6088
    BY <2>4 DEF Contrast
  <2>5. CASE baseline = 6904
    BY <2>5 DEF Contrast
  <2>6. CASE baseline = 7274
    BY <2>6 DEF Contrast
  <2>7. CASE baseline = 6650
    BY <2>7 DEF Contrast
  <2>8. CASE baseline = 7974
    BY <2>8 DEF Contrast
  <2>9. CASE baseline = 7958
    BY <2>9 DEF Contrast
  <2> QED BY <2>1, <2>2, <2>3, <2>4, <2>5, <2>6, <2>7, <2>8, <2>9
<1>3. Contrast(h, BaselineFor(m, n)) <= h
  BY <1>1, <1>2
<1> QED BY <1>3 DEF Calibrated

(* Nothing is near to nothing.                                             *)
LEMMA CosineOfNothing ==
  ASSUME NEW west, NEW bazi, IsZero(west) \/ IsZero(bazi)
  PROVE  Cosine(west, bazi) = 0
<1>1. IsZero(west) => IsZero(Hundredths(west))
  <2> SUFFICES ASSUME IsZero(west), NEW p \in Phases PROVE Hundredths(west)[p] = 0
    BY DEF IsZero
  <2>1. Hundredths(west)[p] = west[p] \div 10000
    BY DEF Hundredths, Tabulated
  <2>2. west[p] = 0
    BY DEF IsZero
  <2> QED BY <2>1, <2>2
<1> QED BY <1>1 DEF Cosine, CosineOf

(* What a fusion says of its own vectors.                                  *)
LEMMA StrictSays ==
  ASSUME NEW bodies, NEW ascendant, NEW chart, NEW v,
         Strictly(bodies, ascendant, chart).error = "none",
         v = Strictly(bodies, ascendant, chart).value
  PROVE  /\ v.bazi = VectorOf(BaziLedger(chart)) /\ v.harmony = Cosine(v.west, v.bazi)
         /\ v.calibration = Calibrate(v.harmony, bodies, chart, v.west, v.bazi)
         /\ v.text = Interpretation(v.west, v.bazi, v.calibration)
<1> DEFINE west == WesternVector(WesternLedger(bodies, ascendant))
           bazi == VectorOf(BaziLedger(chart))
           harmony == Cosine(west, bazi)
           calibration == Calibrate(harmony, bodies, chart, west, bazi)
           text == Interpretation(west, bazi, calibration)
           value == [west |-> west, bazi |-> bazi, harmony |-> harmony, calibration |-> calibration,
                     comparison |-> Comparison(west, bazi), text |-> text,
                     quality |-> IF ascendant = Failed THEN "assumed_day" ELSE "exact"]
           r == Strictly(bodies, ascendant, chart)
<1>1. r = IF ascendant = Failed THEN [error |-> ValueError]
          ELSE [error |-> "none", value |-> value]
  BY DEF Strictly, FusionOf, FusionOfVectors
<1>2. /\ value.west = west /\ value.bazi = bazi /\ value.harmony = harmony
      /\ value.calibration = calibration /\ value.text = text
  <2> HIDE DEF west, bazi, harmony, calibration, text
  <2> QED OBVIOUS
<1> HIDE DEF value, r
<1>3. r.error = "none" /\ v = r.value
  BY DEF r
<1>4. v = value
  BY <1>1, <1>3 DEF ValueError
<1> QED BY <1>2, <1>4

(* The harmony of a fusion in thousandths, and the contributions it        *)
(* counts.                                                                 *)
CountsInRange(body) ==
    /\ body.harmony \in 0 .. 1000
    /\ body.calibration.west \in Nat /\ body.calibration.bazi \in Nat

(* What the response model of a fusion demands of it.                      *)
LEMMA InFusionModel ==
  ASSUME NEW body \in FusionModel
  PROVE  CountsInRange(body)
<1> DEFINE thousand == 0 .. 1000
           qualities == {"ok", "sparse", "degenerate"}
<1>1. /\ body.harmony \in thousand
      /\ body.calibration \in [raw : thousand, quality : qualities, calibrated : thousand,
                               band : STRING, west : Nat, bazi : Nat]
  <2> DEFINE model == [raw : thousand, quality : qualities, calibrated : thousand,
                       band : STRING, west : Nat, bazi : Nat]
             text == [coherence : STRING, west : Phases, bazi : Phases]
             houses == [requested : {"placidus"}, used : {"placidus", "porphyry", "whole_sign"},
                        fallback : BOOLEAN, mode : {"SWIEPH", "MOSEPH"}]
             vectors == [Phases -> Nat]
             comparisons == [Phases -> -100 .. 100]
             quality == {"exact", "assumed_day"}
             fields == SUBSET {"signature", "hour", "ascendant", "houses"}
  <2>1. FusionModel = [west : vectors, bazi : vectors, harmony : thousand,
                       comparison : comparisons, calibration : model, text : text,
                       houses : houses, quality : quality, provisional : fields]
    BY DEF FusionModel
  <2> HIDE DEF model, text, houses, vectors, comparisons, quality, fields, thousand
  <2>2. body.harmony \in thousand /\ body.calibration \in model
    BY <2>1
  <2> QED BY <2>2 DEF model
<1> HIDE DEF thousand, qualities
<1>2. body.calibration.west \in Nat /\ body.calibration.bazi \in Nat
  BY <1>1
<1> QED BY <1>1, <1>2 DEF thousand, CountsInRange

(* One fusion claims no more than it has.                                  *)
LEMMA HonestFusion ==
  ASSUME NEW b, NEW a, NEW given, NEW e, NEW x, x.status = 200,
         x = FusionEndpoint(b, a, given, e), NEW body, body = x.body,
         NEW c, c = body.calibration,
         NEW empty, empty = (IsZero(body.west) \/ IsZero(body.bazi))
  PROVE  /\ empty <=> c.quality = "degenerate"
         /\ empty => c.calibrated = 0 /\ c.band = "undefined"
                     /\ body.text.coherence = "reduced" /\ body.harmony = 0
         /\ c.calibrated <= c.raw
         /\ c.quality = "ok" => c.west >= 3 /\ c.bazi >= 8
         /\ body.quality = "exact"
<1> DEFINE sky == WesternOf(b, a, Found(e, "western"))
           pillars == PillarsOf(b, a, given, Found(e, "bazi"))
           bodies == sky.value.bodies
           ascendant == sky.value.ascendant
           chart == pillars.value.chart
           fusion == Strictly(bodies, ascendant, chart)
           v == fusion.value
           west == body.west
           bazi == body.bazi
           h == body.harmony
           text == body.text
<1>1. /\ fusion.error = "none" /\ west = v.west /\ bazi = v.bazi /\ h = v.harmony
      /\ c = v.calibration /\ text = v.text
      /\ body.quality = ChartTypeQuality(v.quality, ascendant) /\ body \in FusionModel
  BY FusionEndpointSays
<1>2. h \in 0 .. 1000 /\ c.west \in Nat /\ c.bazi \in Nat
  <2>1. body \in FusionModel
    BY <1>1
  <2>2. CountsInRange(body)
    BY <2>1, InFusionModel
  <2> QED BY <2>2 DEF CountsInRange
<1>3. body.quality = "exact"
  <2>1. v.quality = "exact"
    <3>1. fusion.error = "none"
      BY <1>1
    <3> HIDE DEF sky, pillars, bodies, ascendant, chart
    <3> QED BY <3>1, StrictIsExact
  <2> HIDE DEF v
  <2> QED BY <1>1, <2>1 DEF ChartTypeQuality
<1>4. /\ v.harmony = Cosine(v.west, v.bazi)
      /\ v.calibration = Calibrate(v.harmony, bodies, chart, v.west, v.bazi)
      /\ v.text = Interpretation(v.west, v.bazi, v.calibration)
  <2> HIDE DEF bodies, ascendant, chart
  <2> QED BY <1>1, StrictSays
<1>5. empty = (IsZero(west) \/ IsZero(bazi))
  OBVIOUS
<1> HIDE DEF west, bazi, h, text, v, bodies, chart
<1>6. /\ h = Cosine(west, bazi) /\ c = Calibrate(h, bodies, chart, west, bazi)
      /\ text = Interpretation(west, bazi, c)
  BY <1>1, <1>4
<1>7. /\ c.raw = h
      /\ empty => c.quality = "degenerate" /\ c.calibrated = 0 /\ c.band = "undefined"
      /\ ~empty => /\ c.quality = IF c.west < 3 \/ c.bazi < 8 THEN "sparse" ELSE "ok"
                   /\ c.calibrated = Calibrated(h, BaselineFor(c.west, c.bazi))
  BY <1>5, <1>6, CalibrateSays
<1>8. empty => h = 0
  BY <1>5, <1>6, CosineOfNothing
<1>9. empty => text.coherence = "reduced"
  <2>1. text.coherence = IF c.quality = "degenerate" THEN "reduced" ELSE c.band
    BY <1>6 DEF Interpretation
  <2> QED BY <1>7, <2>1
<1>10. c.calibrated <= c.raw
  <2> DEFINE m == c.west
             n == c.bazi
             raw == c.raw
             calibrated == c.calibrated
  <2>1. m \in Nat /\ n \in Nat /\ raw = h
    BY <1>2, <1>7
  <2>2. calibrated = 0 \/ calibrated = Calibrated(h, BaselineFor(m, n))
    BY <1>5, <1>7
  <2> HIDE DEF m, n, raw, calibrated
  <2>0. h \in 0 .. 1000
    BY <1>2
  <2>3. Calibrated(h, BaselineFor(m, n)) <= h
    BY <2>0, <2>1, CalibratedBelow, ZenonT(60)
  <2>4. calibrated <= raw
    BY <1>2, <2>1, <2>2, <2>3
  <2> QED BY <2>4 DEF calibrated, raw
<1>11. c.quality = "ok" => c.west >= 3 /\ c.bazi >= 8
  <2> DEFINE m == c.west
             n == c.bazi
             quality == c.quality
  <2>1. /\ m \in Nat /\ n \in Nat
        /\ quality = "degenerate" \/ quality = IF m < 3 \/ n < 8 THEN "sparse" ELSE "ok"
    BY <1>2, <1>5, <1>7
  <2> HIDE DEF m, n, quality
  <2>2. quality = "ok" => m >= 3 /\ n >= 8
    BY <2>1
  <2> QED BY <2>2 DEF m, n, quality
<1>12. empty <=> c.quality = "degenerate"
  <2> DEFINE quality == c.quality
  <2>1. /\ empty => quality = "degenerate"
        /\ ~empty => quality \in {"sparse", "ok"}
    BY <1>7
  <2> HIDE DEF quality
  <2>2. empty <=> quality = "degenerate"
    BY <1>5, <2>1
  <2> QED BY <2>2 DEF quality
<1> QED BY <1>3, <1>7, <1>8, <1>9, <1>10, <1>11, <1>12 DEF h, text

(* The pillars of a fusion: those sent, or those of the birth.             *)
PillarsSent(b, a, given) ==
    IF given = {} THEN Chart(b, InstantOf(b, a), a.standard, "midnight")
    ELSE CHOOSE chart \in given : TRUE
(* What is fused at an instant.                                            *)
FusedAt(b, u, chart) == Strictly(BodiesAt(b, u), SignAt(b.ascendant, u), chart)
(* And for a request.                                                      *)
Fused(b, a, given) == FusedAt(b, InstantOf(b, a), PillarsSent(b, a, given))

(* The pillars a fusion works with.                                        *)
LEMMA PillarsSay ==
  ASSUME NEW b \in BirthType, NEW a \in Requests, NEW given, NEW e,
         PillarsOf(b, a, given, e).error = "none"
  PROVE  PillarsOf(b, a, given, e).value.chart = PillarsSent(b, a, given)
<1>1. CASE given = {}
  <2> DEFINE r == BaziOf(b, a, "midnight", e)
  <2>1. PillarsOf(b, a, given, e) = r
    BY <1>1 DEF PillarsOf
  <2>2. r.error = "none"
    BY <2>1
  <2>3. r.value.chart = Chart(b, InstantOf(b, a), a.standard, "midnight")
    BY <2>2, BaziOfSays
  <2> HIDE DEF r
  <2> QED BY <1>1, <2>1, <2>3 DEF PillarsSent
<1>2. CASE given # {}
  BY <1>2 DEF PillarsOf, PillarsSent, Returned
<1> QED BY <1>1, <1>2

(* A fusion is a matter of the birth, the request and the pillars sent     *)
(* only: the ephemeris found plays no part.                                *)
LEMMA FusedSays ==
  ASSUME NEW b \in BirthType, NEW a \in Requests, NEW given, NEW e, NEW sky, NEW pillars,
         sky = WesternOf(b, a, Found(e, "western")), sky.error = "none",
         pillars = PillarsOf(b, a, given, Found(e, "bazi")), pillars.error = "none"
  PROVE  Strictly(sky.value.bodies, sky.value.ascendant, pillars.value.chart)
             = Fused(b, a, given)
<1>1. pillars.value.chart = PillarsSent(b, a, given)
  BY PillarsSay
<1>2. /\ sky.value.bodies = BodiesAt(b, InstantOf(b, a))
      /\ sky.value.ascendant = SignAt(b.ascendant, InstantOf(b, a))
  BY WesternOfSays
<1> DEFINE bodies == sky.value.bodies
           ascendant == sky.value.ascendant
           chart == pillars.value.chart
           u == InstantOf(b, a)
<1> HIDE DEF bodies, ascendant, chart, u
<1>3. /\ bodies = BodiesAt(b, u) /\ ascendant = SignAt(b.ascendant, u)
      /\ chart = PillarsSent(b, a, given)
  BY <1>1, <1>2 DEF bodies, ascendant, chart, u
<1>4. Strictly(bodies, ascendant, chart) = FusedAt(b, u, PillarsSent(b, a, given))
  BY <1>3 DEF FusedAt
<1> QED BY <1>4 DEF Fused, bodies, ascendant, chart, u

(* So the fusion endpoint shows just that.                                 *)
LEMMA FusionIsFused ==
  ASSUME NEW b \in BirthType, NEW a \in Requests, NEW given, NEW e, NEW x, x.status = 200,
         x = FusionEndpoint(b, a, given, e)
  PROVE  /\ x.body.harmony = Fused(b, a, given).value.harmony
         /\ x.body.calibration = Fused(b, a, given).value.calibration
<1> DEFINE sky == WesternOf(b, a, Found(e, "western"))
           pillars == PillarsOf(b, a, given, Found(e, "bazi"))
           fusion == Strictly(sky.value.bodies, sky.value.ascendant, pillars.value.chart)
<1>1. /\ sky.error = "none" /\ pillars.error = "none"
      /\ x.body.harmony = fusion.value.harmony
      /\ x.body.calibration = fusion.value.calibration
  BY FusionEndpointSays
<1>2. fusion = Fused(b, a, given)
  <2> HIDE DEF sky, pillars
  <2>1. /\ sky = WesternOf(b, a, Found(e, "western"))
        /\ pillars = PillarsOf(b, a, given, Found(e, "bazi"))
    BY DEF sky, pillars
  <2> QED BY <1>1, <2>1, FusedSays
<1> HIDE DEF fusion
<1> QED BY <1>1, <1>2

(* And the vector map the same.                                            *)
LEMMA MapIsFused ==
  ASSUME NEW b \in BirthType, NEW a \in Requests, NEW given, NEW e, NEW x, x.status = 200,
         x = VectorMapEndpoint(b, a, given, e)
  PROVE  x.body.cosine = Fused(b, a, given).value.harmony
<1> DEFINE sky == WesternOf(b, a, Found(e, "western"))
           pillars == PillarsOf(b, a, given, Found(e, "bazi"))
           fusion == Strictly(sky.value.bodies, sky.value.ascendant, pillars.value.chart)
<1>1. /\ sky.error = "none" /\ pillars.error = "none"
      /\ x.body.cosine = fusion.value.harmony
  BY VectorMapSays
<1>2. fusion = Fused(b, a, given)
  <2> HIDE DEF sky, pillars
  <2>1. /\ sky = WesternOf(b, a, Found(e, "western"))
        /\ pillars = PillarsOf(b, a, given, Found(e, "bazi"))
    BY DEF sky, pillars
  <2> QED BY <1>1, <2>1, FusedSays
<1> HIDE DEF fusion
<1> QED BY <1>1, <1>2

(* A profile reads the wall time itself, with the fold of an app.          *)
LEMMA ProfileReads ==
  ASSUME NEW b, NEW e, BaziOfProfile(b, e).error = "none"
  PROVE  LET u == Reading(b.place, b.wall, 0)
         IN  /\ Instants(b.place, b.wall) # {}
             /\ BaziOfProfile(b, e).value.at = u
             /\ BaziOfProfile(b, e).value.chart = Chart(b, u, "TLST", "midnight")
<1> DEFINE u == Reading(b.place, b.wall, 0)
           r == BaziOfProfile(b, e)
           chart == Chart(b, u, "TLST", "midnight")
           bazi == [at |-> u, chart |-> chart, year |-> SolarYear(b, u),
                    before |-> BeforeLiChun(b, u)]
<1>1. r = IF Instants(b.place, b.wall) = {} THEN Raised("LocalTimeError")
          ELSE IF e = "missing" THEN Raised("EphemerisUnavailableError") ELSE Returned(bazi)
  BY DEF BaziOfProfile, ComputeBazi
<1>2. bazi.at = u /\ bazi.chart = chart
  <2> HIDE DEF chart, u
  <2> QED OBVIOUS
<1> HIDE DEF bazi, u, chart, r
<1>3. r.error = "none"
  BY DEF r
<1>4. Instants(b.place, b.wall) # {} /\ r.value = bazi
  BY <1>1, <1>3 DEF Raised, Returned
<1>5. r.value.at = u /\ r.value.chart = chart
  BY <1>2, <1>4
<1> QED BY <1>4, <1>5 DEF r, u, chart

(* A time that exists is resolved as it is read.                           *)
LEMMA InstantFound ==
  ASSUME NEW b, NEW a, Instants(b.place, b.wall) # {}
  PROVE  InstantOf(b, a) = Reading(b.place, b.wall, FoldAsked(a))
<1> DEFINE t == Resolve(b, a)
           count == Cardinality(Instants(b.place, b.wall))
           first == Reading(b.place, b.wall, FoldAsked(a))
<1>1. t \in {Resolution(b.wall, first, FoldAsked(a), "ok"),
             Resolution(b.wall, first, FoldAsked(a), "ambiguous")}
  <2>1. count = 1 \/ count = 2
    BY InstantsCount
  <2>2. CASE count = 1
    BY <2>2 DEF Resolve
  <2>3. CASE count = 2
    BY <2>3 DEF Resolve
  <2> QED BY <2>1, <2>2, <2>3
<1>2. t.value.at = first
  BY <1>1 DEF Resolution, Returned
<1> QED BY <1>2 DEF InstantOf

(* So a profile rests on the fusion of the birth, where a request asks as  *)
(* an app does.                                                            *)
LEMMA ProfileIsFused ==
  ASSUME NEW b, NEW a, NEW e, Profile(b, e).error = "none",
         a.ambiguous = "earlier", a.standard = "TLST"
  PROVE  Profile(b, e).value.harmony = Fused(b, a, {}).value.calibration.calibrated
<1> DEFINE bazi == BaziOfProfile(b, Found(e, "bazi"))
           at == bazi.value.at
           chart == bazi.value.chart
           sky == Western(b, at, Found(e, "western"))
           fusion == Strictly(sky.value.bodies, sky.value.ascendant, chart)
           profile == Profile(b, e).value
           u == Reading(b.place, b.wall, 0)
<1>1. /\ bazi.error = "none" /\ sky.error = "none"
      /\ profile = ProfileOf(bazi.value, sky.value, fusion.value)
  BY ProfileSays
<1>2. /\ Instants(b.place, b.wall) # {} /\ at = u
      /\ chart = Chart(b, u, "TLST", "midnight")
  BY <1>1, ProfileReads
<1>3. InstantOf(b, a) = u
  BY <1>2, InstantFound DEF FoldAsked
<1>4. profile.harmony = fusion.value.calibration.calibrated
  <2> HIDE DEF fusion, sky, bazi, profile
  <2> QED BY <1>1 DEF ProfileOf, ProfileHarmony
<1>5. PillarsSent(b, a, {}) = chart
  BY <1>2, <1>3 DEF PillarsSent
<1>6. fusion = FusedAt(b, at, chart)
  <2> HIDE DEF at, chart
  <2> QED BY <1>1, WesternSays DEF FusedAt
<1>7. fusion = Fused(b, a, {})
  <2> HIDE DEF fusion, at, chart, u
  <2> QED BY <1>2, <1>3, <1>5, <1>6 DEF Fused
<1> HIDE DEF profile, fusion
<1>8. profile.harmony = Fused(b, a, {}).value.calibration.calibrated
  BY <1>4, <1>7
<1> QED BY <1>8 DEF profile

(* What is known of a fusion that succeeded.                               *)
LEMMA FusionSaid ==
  ASSUME Settings, AnswersSaid, NEW q \in AnsweredBy({"fusion"})
  PROVE  /\ q[1] = "fusion" /\ answers[q].answer.status = 200 /\ Body(q) = answers[q].answer.body
         /\ answers[q].answer = FusionEndpoint(Chosen, asked, q[2], answers[q].eph)
<1>1. /\ q[1] = "fusion" /\ answers[q].answer.status = 200
      /\ Said(birth, asked, q, answers[q]) /\ Body(q) = answers[q].answer.body
  BY EntrySaid
<1> QED BY <1>1 DEF Said, ChartSaid, Chosen

(* An app asks with its own settings.                                      *)
LEMMA ReadByApp ==
  ASSUME NEW q, q[1] = "bootstrap"
  PROVE  Read(q) = PersonalizeAsks(asked.timeKnown)
<1>1. q[1] # "chart" /\ q[1] \in {"personalize", "bootstrap", "daily", "impact"}
  OBVIOUS
<1> QED BY <1>1 DEF Read

(* And what those are.                                                     *)
LEMMA AppsAskDefaults ==
  ASSUME NEW timeKnown
  PROVE  /\ PersonalizeAsks(timeKnown).ambiguous = "earlier"
         /\ PersonalizeAsks(timeKnown).nonexistent = "error"
         /\ PersonalizeAsks(timeKnown).standard = "TLST"
         /\ PersonalizeAsks(timeKnown).boundary = "midnight"
         /\ PersonalizeAsks(timeKnown).timeKnown = timeKnown
  BY DEF PersonalizeAsks, Defaults

(* From the answers kept, the promise about fusion.                        *)
LEMMA Honest ==
  ASSUME Settings, AnswersSaid
  PROVE  FusionHonest
<1>0. Chosen \in BirthType /\ asked \in Requests
  BY ClientAsks DEF Chosen
<1>1. ASSUME NEW q \in AnsweredBy({"fusion"})
      PROVE  LET c == Body(q).calibration
                 empty == IsZero(Body(q).west) \/ IsZero(Body(q).bazi)
             IN  /\ empty <=> c.quality = "degenerate"
                 /\ empty => c.calibrated = 0 /\ c.band = "undefined"
                             /\ Body(q).text.coherence = "reduced" /\ Body(q).harmony = 0
                 /\ c.calibrated <= c.raw
                 /\ c.quality = "ok" => c.west >= 3 /\ c.bazi >= 8
                 /\ Body(q).quality = "exact"
  <2> DEFINE body == Body(q)
             c == body.calibration
             empty == IsZero(body.west) \/ IsZero(body.bazi)
             x == answers[q].answer
             e == answers[q].eph
  <2>1. /\ x.status = 200 /\ body = x.body /\ x = FusionEndpoint(Chosen, asked, q[2], e)
    BY FusionSaid
  <2>2. /\ c = body.calibration /\ empty = (IsZero(body.west) \/ IsZero(body.bazi))
    OBVIOUS
  <2> HIDE DEF body, x, e, c, empty
  <2>3. /\ empty <=> c.quality = "degenerate"
        /\ empty => c.calibrated = 0 /\ c.band = "undefined"
                    /\ body.text.coherence = "reduced" /\ body.harmony = 0
        /\ c.calibrated <= c.raw
        /\ c.quality = "ok" => c.west >= 3 /\ c.bazi >= 8
        /\ body.quality = "exact"
    BY <2>1, <2>2, HonestFusion
  <2> QED BY <2>3 DEF body, c, empty
<1>2. ASSUME NEW q \in AnsweredBy({"fusion"}), NEW r \in AnsweredBy({"vector-map"}), q[2] = r[2]
      PROVE  Body(q).harmony = Body(r).cosine
  <2>1. Body(q).harmony = Fused(Chosen, asked, q[2]).value.harmony
    BY <1>0, FusionSaid, FusionIsFused
  <2>2. /\ r[1] = "vector-map" /\ answers[r].answer.status = 200
        /\ Said(birth, asked, r, answers[r]) /\ Body(r) = answers[r].answer.body
    BY EntrySaid
  <2>3. answers[r].answer = VectorMapEndpoint(Chosen, asked, r[2], answers[r].eph)
    BY <2>2 DEF Said, ChartSaid, Chosen
  <2>4. Body(r).cosine = Fused(Chosen, asked, r[2]).value.harmony
    BY <1>0, <2>2, <2>3, MapIsFused
  <2> QED BY <1>2, <2>1, <2>4
<1>3. ASSUME NEW q \in AnsweredBy({"fusion"}), NEW r \in AnsweredBy({"bootstrap"}),
             asked.standard = "TLST", ~Sent(q), SameTime(q, r)
      PROVE  Body(q).calibration.calibrated = Body(r).harmony
  <2>1. /\ q[1] = "fusion"
        /\ Body(q).calibration = Fused(Chosen, asked, q[2]).value.calibration
    BY <1>0, FusionSaid, FusionIsFused
  <2>2. q[2] = {}
    BY <1>3, <2>1 DEF Sent
  <2>3. /\ r[1] = "bootstrap" /\ answers[r].answer.status = 200
        /\ Said(birth, asked, r, answers[r]) /\ Body(r) = answers[r].answer.body
    BY EntrySaid
  <2>4. answers[r].answer = Bootstrap(Chosen, answers[r].eph)
    BY <2>3 DEF Said, AppSaid, Chosen
  <2>5. asked.ambiguous = "earlier"
    <3>1. Read(q) = asked
      BY <2>1 DEF Read
    <3>2. Read(r).ambiguous = "earlier"
      BY <2>3, ReadByApp, AppsAskDefaults
    <3> QED BY <1>3, <3>1, <3>2 DEF SameTime
  <2>6. /\ Profile(Chosen, answers[r].eph).error = "none"
        /\ Body(r).harmony = Profile(Chosen, answers[r].eph).value.harmony
    BY <2>3, <2>4, BootstrapSays
  <2>7. Body(r).harmony = Fused(Chosen, asked, {}).value.calibration.calibrated
    BY <1>3, <2>5, <2>6, ProfileIsFused
  <2> QED BY <2>1, <2>2, <2>7
<1> QED BY <1>1, <1>2, <1>3 DEF FusionHonest

(* Fusion claims nothing it has not got, and the vector map and the        *)
(* profile of an app show what it shows (wuxing/calibration.py, fusion.py, *)
(* routers/fusion.py and experience.py).                                   *)
THEOREM FusionKeepsHonest == Spec => []FusionHonest
<1>1. IInv => FusionHonest
  BY Honest DEF IInv
<1> QED BY <1>1, InvAlways, PTL

-----------------------------------------------------------------------------
(* One instant everywhere.                                                 *)

(* The pillars are shown with the instant resolved.                        *)
LEMMA BaziAt ==
  ASSUME NEW b \in BirthType, NEW a \in Requests, NEW e, NEW r,
         r \in {Traced(b, a, e), Untraced(b, a, e)}, r.error = "none"
  PROVE  r.value.at = InstantOf(b, a)
<1> DEFINE bazi == BaziOf(b, a, a.boundary, Found(e, "bazi"))
<1>1. bazi.error = "none" /\ r.value.at = bazi.value.at
  BY BaziResponseSays
<1>2. bazi.value.at = InstantOf(b, a)
  BY <1>1, BaziOfSays
<1> HIDE DEF bazi
<1> QED BY <1>1, <1>2

(* A trace shows the solar time of that instant, and the term its month    *)
(* begins with.                                                            *)
LEMMA TraceSays ==
  ASSUME NEW b \in BirthType, NEW a \in Requests, NEW e, NEW trace,
         Traced(b, a, e).error = "none", trace = Traced(b, a, e).value.trace
  PROVE  /\ trace.clock.solar = SolarOf(b, a)
         /\ trace.term = (LiChunTerm + 2 * MonthAt(b, InstantOf(b, a))) % 24
<1> DEFINE bazi == BaziOf(b, a, a.boundary, Found(e, "bazi"))
           r == Traced(b, a, e)
           v == bazi.value
<1>1. bazi.error = "none" /\ r.value.trace = Trace(b, a, a.boundary, v)
  BY BaziResponseSays
<1>2. v.at = InstantOf(b, a)
  BY <1>1, BaziOfSays
<1>3. trace = r.value.trace
  OBVIOUS
<1> HIDE DEF bazi, v, r
<1>4. trace = Trace(b, a, a.boundary, v)
  BY <1>1, <1>3
<1> DEFINE clock == SolarTime(b, v.at)
           term == (LiChunTerm + 2 * MonthAt(b, v.at)) % 24
<1>5. trace.clock = clock /\ trace.term = term
  <2> DEFINE day == Engine(v.at, b.place, a.standard, a.boundary)!TraceIndex60
             hour == Engine(v.at, b.place, a.standard, a.boundary)!TraceHour
             body == [before |-> v.before, term |-> term, monthBranch |-> v.chart[2].branch,
                      day |-> day, hour |-> hour, hourBranch |-> v.chart[4].branch,
                      clock |-> clock, standard |-> a.standard]
  <2>1. trace = body
    BY <1>4 DEF Trace
  <2> HIDE DEF day, hour, term, clock
  <2>2. body.clock = clock /\ body.term = term
    OBVIOUS
  <2> HIDE DEF body
  <2> QED BY <2>1, <2>2
<1> QED BY <1>2, <1>5 DEF SolarOf

(* A frame shows the instant and its term.                                 *)
LEMMA FrameTimes ==
  ASSUME NEW b, NEW a, NEW dateOnly, NEW e, NEW v,
         ResolveChronometry(b, a, dateOnly, e).error = "none",
         v = ResolveChronometry(b, a, dateOnly, e).value
  PROVE  /\ v.at = InstantOf(Given(b, dateOnly), a)
         /\ v.term = TermAt(Given(b, dateOnly), InstantOf(Given(b, dateOnly), a))
<1> DEFINE given == Given(b, dateOnly)
           known == a.timeKnown /\ ~dateOnly
           u == InstantOf(given, a)
           clock == SolarTime(given, u)
           term == TermAt(given, u)
           calendar == Epoch + (CivilAt(b.place, u) \div 1440)
           solar == IF known THEN {clock.solar} ELSE {}
           rollover == IF known THEN {clock.rollover} ELSE {}
           flags == BoundaryFlags(given, u)
           grade == IF ~known THEN "unknown_time" ELSE IF e = "MOSEPH" THEN "degraded" ELSE "exact"
           frame == [at |-> u, date |-> calendar, solar |-> solar, rollover |-> rollover,
                     term |-> term, flags |-> flags, grade |-> grade]
           r == ResolveChronometry(b, a, dateOnly, e)
           first == Resolve(given, a)
<1>1. r = IF first.error # "none" THEN first
          ELSE IF e = "missing" THEN Raised("EphemerisUnavailableError") ELSE Returned(frame)
  BY DEF ResolveChronometry, Then, Fails, Grade, Given, InstantOf
<1> HIDE DEF u, calendar, solar, rollover, term, flags, grade
<1>2. frame.at = u /\ frame.term = term
  OBVIOUS
<1> HIDE DEF frame, first
<1>3. r.error = "none" /\ v = r.value
  OBVIOUS
<1> HIDE DEF r
<1>4. v = frame
  BY <1>1, <1>3 DEF Raised, Returned
<1> QED BY <1>2, <1>4 DEF u, term

(* And the solar time of no other instant.                                 *)
LEMMA FramedSays ==
  ASSUME NEW b, NEW a, NEW e, NEW v, Framed(b, a, e).error = "none",
         v = Framed(b, a, e).value
  PROVE  v.at = InstantOf(b, a) /\ v.solar \subseteq {SolarOf(b, a)}
<1> DEFINE dateOnly == FALSE
           r == ResolveChronometry(b, a, dateOnly, e)
<1>1. r = Framed(b, a, e) /\ Given(b, dateOnly) = b /\ ~dateOnly
  BY DEF Framed, Given
<1> HIDE DEF dateOnly
<1>2. r.error = "none" /\ v = r.value
  BY <1>1
<1>3. v.at = InstantOf(Given(b, dateOnly), a)
  BY <1>2, FrameTimes
<1>4. /\ ~a.timeKnown => v.solar = {}
      /\ a.timeKnown => v.solar = {SolarOf(Given(b, dateOnly), a)}
  BY <1>1, <1>2, FrameGraded
<1> QED BY <1>1, <1>3, <1>4

(* Most endpoints read the birth and the request as they are.              *)
LEMMA OwnReading ==
  ASSUME NEW q, q[1] \in {"bazi", "trace", "tst", "wuxing", "fusion", "vector-map", "natal",
                          "bazi/wuxing", "match"}
  PROVE  BirthRead(q) = Chosen /\ Read(q) = asked
<1>1. q[1] # "chronometry" /\ q[1] # "chart"
      /\ q[1] \notin {"personalize", "bootstrap", "daily", "impact"}
  OBVIOUS
<1>2. <<"chronometry", TRUE>>[1] = "chronometry"
  OBVIOUS
<1>3. BirthRead(q) = Chosen
  BY <1>1, <1>2 DEF BirthRead
<1>4. Read(q) = asked
  BY <1>1 DEF Read
<1> QED BY <1>3, <1>4

(* An app's read the birth as it is, and the request as an app makes it.   *)
LEMMA AppReading ==
  ASSUME NEW q, q[1] \in {"personalize", "bootstrap", "daily", "impact"}
  PROVE  BirthRead(q) = Chosen /\ Read(q) = PersonalizeAsks(asked.timeKnown)
<1>1. q[1] # "chronometry" /\ q[1] # "chart"
  OBVIOUS
<1>2. <<"chronometry", TRUE>>[1] = "chronometry"
  OBVIOUS
<1>3. BirthRead(q) = Chosen
  BY <1>1, <1>2 DEF BirthRead
<1>4. Read(q) = PersonalizeAsks(asked.timeKnown)
  BY <1>1 DEF Read
<1> QED BY <1>3, <1>4

(* A chart settles doubtful times by its own policy.                       *)
LEMMA ChartReading ==
  ASSUME NEW q, q[1] = "chart"
  PROVE  BirthRead(q) = Chosen /\ Read(q) = PolicyOf(asked, q[2])
<1>1. q[1] # "chronometry"
  OBVIOUS
<1>2. <<"chronometry", TRUE>>[1] = "chronometry"
  OBVIOUS
<1>3. BirthRead(q) = Chosen
  BY <1>1, <1>2 DEF BirthRead
<1>4. Read(q) = PolicyOf(asked, q[2])
  BY DEF Read
<1> QED BY <1>3, <1>4

(* The chronometry endpoint may be given a date only.                      *)
LEMMA FrameReading ==
  ASSUME NEW q, q = <<"chronometry", q[2]>>, q[2] \in BOOLEAN
  PROVE  BirthRead(q) = Given(Chosen, q[2]) /\ Read(q) = asked
<1>1. q[1] = "chronometry"
  OBVIOUS
<1>2. Read(q) = asked
  BY <1>1 DEF Read
<1>3. q = <<"chronometry", TRUE>> <=> q[2]
  <2> DEFINE d == q[2]
  <2>1. q = <<"chronometry", d>> /\ d \in BOOLEAN
    OBVIOUS
  <2> HIDE DEF d
  <2>2. q = <<"chronometry", TRUE>> <=> d = TRUE
    <3>1. <<"chronometry", d>>[2] = d /\ <<"chronometry", TRUE>>[2] = TRUE
      OBVIOUS
    <3> QED BY <2>1, <3>1
  <2> QED BY <2>1, <2>2 DEF d
<1>4. BirthRead(q) = Given(Chosen, q[2])
  BY <1>3 DEF BirthRead, Given
<1> QED BY <1>2, <1>4

(* What a policy or an app makes of a request is one again.                *)
LEMMA SettingsChecked ==
  ASSUME NEW a \in Requests, NEW policy
  PROVE  /\ PolicyOf(a, policy) \in Requests
         /\ PersonalizeAsks(a.timeKnown) \in Requests
  BY DEF PolicyOf, PersonalizeAsks, Defaults, Requests

(* A question shows no solar time but this.                                *)
SameSolar(q, solar) == \A s \in SolarTimesIn(q) : s = solar
(* A question shows the instant and the solar time of the birth as it      *)
(* reads it.                                                               *)
TimesSaid(q) ==
    /\ q[1] # "tst" /\ q[1] # "wuxing" => InstantIn(q) = InstantOf(BirthRead(q), Read(q))
    /\ q[1] # "bazi" => SameSolar(q, SolarOf(BirthRead(q), Read(q)))

(* Every one of seven endpoints does.                                      *)
LEMMA TimesOf ==
  ASSUME Settings, AnswersSaid,
         NEW q \in AnsweredBy({"bazi", "trace", "chronometry", "personalize", "chart", "tst",
                               "wuxing"})
  PROVE  TimesSaid(q)
<1> DEFINE e == answers[q].eph
           x == answers[q].answer
<1>0. /\ Chosen \in BirthType /\ asked \in Requests /\ x.status = 200 /\ Body(q) = x.body
      /\ Said(birth, asked, q, answers[q])
      /\ q[1] \in {"bazi", "trace", "chronometry", "personalize", "chart", "tst", "wuxing"}
  BY EntrySaid, ClientAsks DEF Chosen
<1>1. CASE q[1] = "bazi"
  <2>1. x = Bazi(Chosen, asked, e)
    BY <1>0, <1>1 DEF Said, ChartSaid, Chosen
  <2>2. Untraced(Chosen, asked, e).error = "none" /\ Body(q) = Untraced(Chosen, asked, e).value
    BY <1>0, <2>1, BaziSays
  <2>3. Body(q).at = InstantOf(Chosen, asked)
    BY <1>0, <2>2, BaziAt
  <2>4. InstantIn(q) = Body(q).at
    BY <1>1 DEF InstantIn
  <2> QED BY <1>1, <2>3, <2>4, OwnReading DEF TimesSaid
<1>2. CASE q[1] = "trace"
  <2>1. x = BaziTrace(Chosen, asked, e)
    BY <1>0, <1>2 DEF Said, ChartSaid, Chosen
  <2>2. Traced(Chosen, asked, e).error = "none" /\ Body(q) = Traced(Chosen, asked, e).value
    BY <1>0, <2>1, BaziTraceSays
  <2>3. Body(q).at = InstantOf(Chosen, asked)
    BY <1>0, <2>2, BaziAt
  <2>4. InstantIn(q) = Body(q).at
    BY <1>2 DEF InstantIn
  <2>5. Body(q).trace.clock.solar = SolarOf(Chosen, asked)
    BY <1>0, <2>2, TraceSays
  <2>6. SolarTimesIn(q) = {Body(q).trace.clock.solar}
    BY <1>2 DEF SolarTimesIn
  <2> QED BY <1>2, <2>3, <2>4, <2>5, <2>6, OwnReading DEF TimesSaid, SameSolar
<1>3. CASE q[1] = "chronometry"
  <2>1. /\ q[2] \in BOOLEAN /\ q = <<"chronometry", q[2]>>
        /\ x = Chronometry(Chosen, asked, q[2], e)
    BY <1>0, <1>3 DEF Said, PromptSaid, Chosen
  <2> DEFINE d == q[2]
             u == InstantOf(Given(Chosen, d), asked)
             solar == SolarOf(Given(Chosen, d), asked)
  <2>2. /\ ResolveChronometry(Chosen, asked, d, Found(e, "frame")).error = "none"
        /\ Body(q) = ResolveChronometry(Chosen, asked, d, Found(e, "frame")).value
    BY <1>0, <2>1, ChronometrySays
  <2>3. BirthRead(q) = Given(Chosen, d) /\ Read(q) = asked
    BY <2>1, FrameReading
  <2>4. d \in BOOLEAN /\ asked.timeKnown \in BOOLEAN
    BY <1>0, <2>1 DEF Requests
  <2> HIDE DEF d
  <2>5. Body(q).at = u
    BY <2>2, FrameTimes
  <2>6. /\ ~asked.timeKnown \/ d => Body(q).solar = {}
        /\ asked.timeKnown /\ ~d => Body(q).solar = {solar}
    BY <2>2, FrameGraded
  <2>7. InstantIn(q) = Body(q).at /\ SolarTimesIn(q) = Body(q).solar
    BY <1>3 DEF InstantIn, SolarTimesIn
  <2> HIDE DEF u, solar
  <2>8. SameSolar(q, solar)
    BY <2>4, <2>6, <2>7 DEF SameSolar
  <2> QED BY <2>3, <2>5, <2>7, <2>8 DEF TimesSaid, u, solar
<1>4. CASE q[1] = "personalize"
  <2> DEFINE a == PersonalizeAsks(asked.timeKnown)
             body == Body(q)
             frame == body.chronometry
             trace == body.trace
  <2>1. x = Personalize(Chosen, asked.timeKnown, q[2], e)
    BY <1>0, <1>4 DEF Said, PromptSaid, Chosen
  <2>2. /\ Traced(Chosen, a, e).error = "none" /\ trace = Traced(Chosen, a, e).value.trace
        /\ Framed(Chosen, a, Found(e, "frame")).error = "none"
        /\ frame = Framed(Chosen, a, Found(e, "frame")).value
    BY <1>0, <2>1, PersonalizeSays
  <2>3. a \in Requests
    BY <1>0, SettingsChecked
  <2>4. InstantIn(q) = frame.at /\ SolarTimesIn(q) = {trace.clock.solar} \cup frame.solar
    BY <1>4 DEF InstantIn, SolarTimesIn
  <2>5. BirthRead(q) = Chosen /\ Read(q) = a
    BY <1>4, AppReading
  <2> HIDE DEF a, frame, trace
  <2>6. trace.clock.solar = SolarOf(Chosen, a)
    BY <1>0, <2>2, <2>3, TraceSays
  <2>7. frame.at = InstantOf(Chosen, a) /\ frame.solar \subseteq {SolarOf(Chosen, a)}
    BY <2>2, FramedSays
  <2>8. SameSolar(q, SolarOf(Chosen, a))
    BY <2>4, <2>6, <2>7 DEF SameSolar
  <2> QED BY <2>4, <2>5, <2>7, <2>8 DEF TimesSaid
<1>5. CASE q[1] = "chart"
  <2> DEFINE a == PolicyOf(asked, q[2])
             time == Body(q).time
  <2>1. x = ChartEndpoint(Chosen, asked, q[2], q[3], e)
    BY <1>0, <1>5 DEF Said, ChartSaid, Chosen
  <2>2. time.at = Resolve(Chosen, a).value.at
        /\ time.solar = SolarTime(Chosen, Resolve(Chosen, a).value.at).solar
    BY <1>0, <2>1, ChartSays
  <2>3. InstantIn(q) = time.at /\ SolarTimesIn(q) = {time.solar}
    BY <1>5 DEF InstantIn, SolarTimesIn
  <2>4. BirthRead(q) = Chosen /\ Read(q) = a
    BY <1>5, ChartReading
  <2> HIDE DEF a, time
  <2> QED BY <2>2, <2>3, <2>4 DEF TimesSaid, SameSolar, InstantOf, SolarOf
<1>6. CASE q[1] = "tst"
  <2>1. x = Tst(Chosen, asked)
    BY <1>0, <1>6 DEF Said, ChartSaid, Chosen
  <2>2. Body(q).solar = SolarOf(Chosen, asked)
    BY <1>0, <2>1, TstSays DEF SolarOf, InstantOf
  <2>3. SolarTimesIn(q) = {Body(q).solar}
    BY <1>6 DEF SolarTimesIn
  <2> QED BY <1>6, <2>2, <2>3, OwnReading DEF TimesSaid, SameSolar
<1>7. CASE q[1] = "wuxing"
  <2>1. x = WuXingEndpoint(Chosen, asked, e)
    BY <1>0, <1>7 DEF Said, ChartSaid, Chosen
  <2>2. /\ WuXingOf(Chosen, asked, Found(e, "western")).error = "none"
        /\ Body(q) = WuXingOf(Chosen, asked, Found(e, "western")).value
    BY <1>0, <2>1, WuXingSays
  <2>3. Body(q).solar = SolarOf(Chosen, asked)
    BY <2>2, WuXingOfSays DEF SolarOf, InstantOf
  <2>4. SolarTimesIn(q) = {Body(q).solar}
    BY <1>7 DEF SolarTimesIn
  <2> QED BY <1>7, <2>3, <2>4, OwnReading DEF TimesSaid, SameSolar
<1> QED BY <1>0, <1>1, <1>2, <1>3, <1>4, <1>5, <1>6, <1>7

(* Two that read the time alike have one instant and one solar time.       *)
LEMMA SameTimes ==
  ASSUME NEW q, NEW r, SameTime(q, r)
  PROVE  /\ InstantOf(BirthRead(q), Read(q)) = InstantOf(BirthRead(r), Read(r))
         /\ SolarOf(BirthRead(q), Read(q)) = SolarOf(BirthRead(r), Read(r))
<1>1. Resolve(BirthRead(q), Read(q)) = Resolve(BirthRead(r), Read(r))
  <2>1. Resolve(BirthRead(q), Read(q)) = Resolve(BirthRead(q), Read(r))
    BY SameResolution DEF SameTime
  <2> QED BY <2>1 DEF SameTime
<1> QED BY <1>1 DEF SameTime, InstantOf, SolarOf

(* The term a month begins with is the term of the instant or the one      *)
(* before: months begin with every second term.                            *)
LEMMA TermBefore ==
  ASSUME NEW term \in 0 .. 23
  PROVE  (LiChunTerm + 2 * (((term - LiChunTerm) % 24) \div 2)) % 24 \in {term, (term - 1) % 24}
  BY DEF LiChunTerm

(* A set of equal things has one at most.                                  *)
LEMMA AtMostOne ==
  ASSUME NEW S, NEW s, \A t \in S : t = s
  PROVE  Cardinality(S) <= 1
<1>1. S = {} \/ S = {s}
  OBVIOUS
<1>2. Cardinality({}) = 0 /\ Cardinality({s}) = 1
  BY FS_EmptySet, FS_Singleton
<1>3. Cardinality(S) \in {0, 1}
  BY <1>1, <1>2
<1> QED BY <1>3

(* From the answers kept, the promise about instants.                      *)
LEMMA Simultaneous ==
  ASSUME Settings, AnswersSaid
  PROVE  OneInstant
<1>0. Chosen \in BirthType /\ asked \in Requests
  BY ClientAsks DEF Chosen
<1>1. ASSUME NEW q \in AnsweredBy({"bazi", "trace", "chronometry", "personalize", "chart"}),
             NEW r \in AnsweredBy({"bazi", "trace", "chronometry", "personalize", "chart"}),
             SameTime(q, r)
      PROVE  InstantIn(q) = InstantIn(r)
  <2>1. /\ TimesSaid(q) /\ q[1] # "tst" /\ q[1] # "wuxing"
        /\ TimesSaid(r) /\ r[1] # "tst" /\ r[1] # "wuxing"
    BY TimesOf DEF AnsweredBy
  <2>2. /\ InstantIn(q) = InstantOf(BirthRead(q), Read(q))
        /\ InstantIn(r) = InstantOf(BirthRead(r), Read(r))
    BY <2>1 DEF TimesSaid
  <2> QED BY <1>1, <2>2, SameTimes
<1>2. ASSUME NEW q \in AnsweredBy({"trace", "chronometry", "personalize", "chart", "tst", "wuxing"}),
             NEW r \in AnsweredBy({"trace", "chronometry", "personalize", "chart", "tst", "wuxing"}),
             SameTime(q, r)
      PROVE  Cardinality(SolarTimesIn(q) \cup SolarTimesIn(r)) <= 1
  <2>1. TimesSaid(q) /\ q[1] # "bazi" /\ TimesSaid(r) /\ r[1] # "bazi"
    BY TimesOf DEF AnsweredBy
  <2> DEFINE solar == SolarOf(BirthRead(q), Read(q))
  <2>2. solar = SolarOf(BirthRead(r), Read(r))
    BY <1>2, SameTimes
  <2>3. SameSolar(q, solar) /\ SameSolar(r, solar)
    BY <2>1, <2>2 DEF TimesSaid
  <2> HIDE DEF solar
  <2>4. \A s \in SolarTimesIn(q) \cup SolarTimesIn(r) : s = solar
    BY <2>3 DEF SameSolar
  <2> QED BY <2>4, AtMostOne
<1>3. ASSUME NEW q \in AnsweredBy({"trace"}), NEW r \in AnsweredBy({"chronometry"}),
             SameTime(q, r)
      PROVE  Body(q).trace.term \in {Body(r).term, (Body(r).term - 1) % 24}
  <2> DEFINE u == InstantOf(Chosen, asked)
             term == TermAt(Chosen, u)
  <2>1. /\ q[1] = "trace" /\ answers[q].answer.status = 200
        /\ answers[q].answer = BaziTrace(Chosen, asked, answers[q].eph)
        /\ Body(q) = answers[q].answer.body
    BY EntrySaid DEF Said, ChartSaid, Chosen
  <2>2. Body(q).trace.term = (LiChunTerm + 2 * MonthAt(Chosen, u)) % 24
    <3> DEFINE e == answers[q].eph
               trace == Body(q).trace
    <3>1. Traced(Chosen, asked, e).error = "none" /\ Body(q) = Traced(Chosen, asked, e).value
      BY <2>1, BaziTraceSays
    <3>2. trace = Traced(Chosen, asked, e).value.trace
      BY <3>1
    <3> HIDE DEF trace, u
    <3>3. trace.term = (LiChunTerm + 2 * MonthAt(Chosen, InstantOf(Chosen, asked))) % 24
      BY <1>0, <3>1, <3>2, TraceSays
    <3> QED BY <3>3 DEF trace, u
  <2>3. /\ answers[r].answer.status = 200 /\ Body(r) = answers[r].answer.body
        /\ r[2] \in BOOLEAN /\ r = <<"chronometry", r[2]>>
        /\ answers[r].answer = Chronometry(Chosen, asked, r[2], answers[r].eph)
    BY EntrySaid DEF Said, PromptSaid, Chosen
  <2>4. Given(Chosen, r[2]) = Chosen
    BY <1>3, <2>1, <2>3, OwnReading, FrameReading DEF SameTime
  <2>5. Body(r).term = term
    <3> DEFINE e == answers[r].eph
               d == r[2]
               body == Body(r)
    <3>1. /\ ResolveChronometry(Chosen, asked, d, Found(e, "frame")).error = "none"
          /\ body = ResolveChronometry(Chosen, asked, d, Found(e, "frame")).value
      BY <2>3, ChronometrySays
    <3> HIDE DEF body, d
    <3>2. body.term = TermAt(Given(Chosen, d), InstantOf(Given(Chosen, d), asked))
      BY <3>1, FrameTimes
    <3>3. Given(Chosen, d) = Chosen
      BY <2>4 DEF d
    <3> QED BY <3>2, <3>3 DEF body
  <2>6. term \in 0 .. 23
    <3> DEFINE sun == Chosen.sun
    <3>1. sun \in [term : 0 .. 23, turns : Int]
      BY <1>0, BirthFields
    <3>2. term = (IF u < sun.turns THEN sun.term ELSE sun.term + 1) % 24
      BY DEF TermAt
    <3>3. sun.term \in Int
      BY <3>1
    <3> HIDE DEF sun, u, term
    <3> QED BY <3>2, <3>3
  <2>7. MonthAt(Chosen, u) = ((term - LiChunTerm) % 24) \div 2
    BY DEF MonthAt
  <2> HIDE DEF term, u
  <2> QED BY <2>2, <2>5, <2>6, <2>7, TermBefore
<1> QED BY <1>1, <1>2, <1>3 DEF OneInstant

(* Every endpoint that shows the instant of a birth, its solar time or its *)
(* term shows the same (time_utils.py: resolve_local_iso, and the engine's *)
(* own reading of its result).                                             *)
THEOREM EverywhereOneInstant == Spec => []OneInstant
<1>1. IInv => OneInstant
  BY Simultaneous DEF IInv
<1> QED BY <1>1, InvAlways, PTL

-----------------------------------------------------------------------------
(* Two persons the other way round.                                        *)

(* The time counts as known.                                               *)
Certain == TRUE
(* A person of a pair, as its chart alone makes it.                        *)
Persona(chart, gender) == Individual(Normalize(chart, "natal", Certain), gender)
(* The warnings of a pair, each once.                                      *)
WarningsSaid(A, B) ==
    DedupeWarnings(WarningsOf("person_a", A.asked.timeKnown)
                   \o WarningsOf("person_b", B.asked.timeKnown))
(* The analysis of a pair of charts.                                       *)
PairOf(A, B, chartA, chartB) ==
    AnalyzePair(Persona(chartA, A.gender), Persona(chartB, B.gender))

(* And with what belongs to it.                                            *)
AnalysisOf(A, B, chartA, chartB) ==
    Analysis(chartA, chartB, <<A.asked.timeKnown, B.asked.timeKnown>>, <<A.gender, B.gender>>)

(* What is in a normalised chart.                                          *)
LEMMA NormalizeSays ==
  ASSUME NEW chart, NEW subject, NEW timeKnown, NEW n, n = Normalize(chart, subject, timeKnown)
  PROVE  /\ n.pillars = chart /\ n.dayMaster = chart[3].stem /\ n.ledger = StemLedger(chart)
         /\ n.vector = VectorOf(StemLedger(chart)) /\ n.warnings = WarningsOf(subject, timeKnown)
<1> DEFINE stem == chart[3].stem
           ledger == StemLedger(chart)
           vector == VectorOf(ledger)
           warnings == WarningsOf(subject, timeKnown)
<1>1. n = [pillars |-> chart, dayMaster |-> stem, ledger |-> ledger, vector |-> vector,
           warnings |-> warnings]
  BY DEF Normalize
<1> HIDE DEF stem, ledger, vector, warnings
<1>2. /\ n.pillars = chart /\ n.dayMaster = stem /\ n.ledger = ledger
      /\ n.vector = vector /\ n.warnings = warnings
  BY <1>1
<1> QED BY <1>2 DEF stem, ledger, vector, warnings

(* A person depends on pillars, day master, ledger and vector only.        *)
LEMMA SamePersona ==
  ASSUME NEW n, NEW m, NEW gender, n.pillars = m.pillars, n.dayMaster = m.dayMaster,
         n.ledger = m.ledger, n.vector = m.vector
  PROVE  Individual(n, gender) = Individual(m, gender)
<1>1. MonthCommand(n) = MonthCommand(m) /\ SpousePalace(n) = SpousePalace(m)
  BY DEF MonthCommand, SpousePalace
<1>2. Occurrences(n, gender) = Occurrences(m, gender)
  BY DEF Occurrences
<1>3. SpouseStar(n, gender) = SpouseStar(m, gender)
  BY <1>2 DEF SpouseStar
<1> QED BY <1>1, <1>3 DEF Individual

(* So neither the name nor the knowledge of the time matters to it.        *)
LEMMA IsPersona ==
  ASSUME NEW chart, NEW subject, NEW timeKnown, NEW gender
  PROVE  Individual(Normalize(chart, subject, timeKnown), gender) = Persona(chart, gender)
<1> DEFINE n == Normalize(chart, subject, timeKnown)
           m == Normalize(chart, "natal", Certain)
<1>1. /\ n = Normalize(chart, subject, timeKnown) /\ m = Normalize(chart, "natal", Certain)
  OBVIOUS
<1> HIDE DEF n, m
<1>2. /\ n.pillars = m.pillars /\ n.dayMaster = m.dayMaster /\ n.ledger = m.ledger
      /\ n.vector = m.vector
  BY <1>1, NormalizeSays
<1>3. Individual(n, gender) = Individual(m, gender)
  BY <1>2, SamePersona
<1> QED BY <1>1, <1>3 DEF Persona

(* What is in an analysis.                                                 *)
LEMMA AnalysisSays ==
  ASSUME NEW A, NEW B, NEW chartA, NEW chartB, NEW r, r = AnalysisOf(A, B, chartA, chartB)
  PROVE  /\ r.persons = <<Persona(chartA, A.gender), Persona(chartB, B.gender)>>
         /\ r.charts[1].ledger = StemLedger(chartA) /\ r.charts[2].ledger = StemLedger(chartB)
         /\ r.pair = PairOf(A, B, chartA, chartB) /\ r.warnings = WarningsSaid(A, B)
         /\ r.blocks = TextBlocks(r.pair, r.warnings)
         /\ r.evidence = EvidenceLedger(r.pair, r.warnings)
<1> DEFINE knownA == A.asked.timeKnown
           knownB == B.asked.timeKnown
           genderA == A.gender
           genderB == B.gender
           n == Normalize(chartA, "person_a", knownA)
           m == Normalize(chartB, "person_b", knownB)
           i == Individual(n, genderA)
           j == Individual(m, genderB)
           pair == AnalyzePair(i, j)
           warnings == DedupeWarnings(n.warnings \o m.warnings)
           blocks == TextBlocks(pair, warnings)
           evidence == EvidenceLedger(pair, warnings)
<1>1. r = [persons |-> <<i, j>>, charts |-> <<n, m>>, pair |-> pair, warnings |-> warnings,
           blocks |-> blocks, evidence |-> evidence]
  BY DEF Analysis, AnalysisOf
<1>2. i = Persona(chartA, genderA) /\ j = Persona(chartB, genderB)
  BY IsPersona
<1>3. n = Normalize(chartA, "person_a", knownA) /\ m = Normalize(chartB, "person_b", knownB)
  OBVIOUS
<1>4. /\ pair = AnalyzePair(i, j) /\ warnings = DedupeWarnings(n.warnings \o m.warnings)
      /\ blocks = TextBlocks(pair, warnings) /\ evidence = EvidenceLedger(pair, warnings)
  OBVIOUS
<1> HIDE DEF n, m, i, j, pair, warnings, blocks, evidence
<1>5. /\ n.ledger = StemLedger(chartA) /\ m.ledger = StemLedger(chartB)
      /\ n.warnings = WarningsOf("person_a", knownA) /\ m.warnings = WarningsOf("person_b", knownB)
  BY <1>3, NormalizeSays
<1>6. /\ r.persons = <<i, j>> /\ r.charts = <<n, m>> /\ r.pair = pair /\ r.warnings = warnings
      /\ r.blocks = blocks /\ r.evidence = evidence
  BY <1>1
<1>7. r.charts[1] = n /\ r.charts[2] = m
  BY <1>6
<1> QED BY <1>2, <1>4, <1>5, <1>6, <1>7 DEF PairOf, WarningsSaid

(* And in the answer made of it.                                           *)
LEMMA MatchBodySays ==
  ASSUME NEW A, NEW B, NEW chartA, NEW chartB, NEW e, NEW body,
         body = MatchBody(A, B, chartA, chartB, e)
  PROVE  /\ body.individual = <<Persona(chartA, A.gender), Persona(chartB, B.gender)>>
         /\ body.ledgers = <<StemLedger(chartA), StemLedger(chartB)>>
         /\ body.pair = PairOf(A, B, chartA, chartB) /\ body.warnings = WarningsSaid(A, B)
         /\ body.blocks = TextBlocks(body.pair, body.warnings)
         /\ body.evidence = EvidenceLedger(body.pair, body.warnings)
         /\ body.subjects = <<SubjectIdentity("person_a", A), SubjectIdentity("person_b", B)>>
         /\ body.pillars = <<Shown(chartA), Shown(chartB)>>
<1> DEFINE r == AnalysisOf(A, B, chartA, chartB)
           subjects == <<SubjectIdentity("person_a", A), SubjectIdentity("person_b", B)>>
           pillars == <<Shown(chartA), Shown(chartB)>>
           ledgers == <<r.charts[1].ledger, r.charts[2].ledger>>
           precision == <<Provisional(A.asked, {"hour"}), Provisional(B.asked, {"hour"})>>
           individual == r.persons
           pair == r.pair
           blocks == r.blocks
           warnings == r.warnings
           evidence == r.evidence
           made == [subjects |-> subjects, individual |-> individual, pillars |-> pillars,
                    ledgers |-> ledgers, pair |-> pair, blocks |-> blocks,
                    warnings |-> warnings, evidence |-> evidence, mode |-> e,
                    precision |-> precision]
<1>1. body = made
  BY DEF MatchBody, AnalysisOf
<1>2. /\ made.subjects = subjects /\ made.individual = individual /\ made.pillars = pillars
      /\ made.ledgers = ledgers /\ made.pair = pair /\ made.blocks = blocks
      /\ made.warnings = warnings /\ made.evidence = evidence
  <2> HIDE DEF subjects, individual, pillars, ledgers, pair, blocks, warnings, evidence, precision
  <2> QED OBVIOUS
<1> HIDE DEF made
<1>3. /\ r.persons = <<Persona(chartA, A.gender), Persona(chartB, B.gender)>>
      /\ r.charts[1].ledger = StemLedger(chartA) /\ r.charts[2].ledger = StemLedger(chartB)
      /\ r.pair = PairOf(A, B, chartA, chartB) /\ r.warnings = WarningsSaid(A, B)
      /\ r.blocks = TextBlocks(r.pair, r.warnings)
      /\ r.evidence = EvidenceLedger(r.pair, r.warnings)
  BY AnalysisSays
<1> HIDE DEF r
<1> QED BY <1>1, <1>2, <1>3

(* The chart of a person.                                                  *)
ChartOf(P, e) == ComputePersonChart(P, e).value.chart

(* A pair analysis that succeeded is made of two charts that worked.       *)
LEMMA HehunSays ==
  ASSUME NEW A, NEW B, NEW consent, NEW e, NEW x, x.status = 200,
         x = MatchBaziHehun(A, B, consent, e)
  PROVE  /\ ComputePersonChart(A, Found(e, "bazi")).error = "none"
         /\ ComputePersonChart(B, Found(e, "other")).error = "none"
         /\ x.body = MatchBody(A, B, ChartOf(A, Found(e, "bazi")), ChartOf(B, Found(e, "other")),
                               e.mode)
         /\ IsMatchResponse(x.body)
<1> DEFINE r == ComputePersonChart(A, Found(e, "bazi"))
           s == ComputePersonChart(B, Found(e, "other"))
           body == MatchBody(A, B, r.value.chart, s.value.chart, e.mode)
<1>1. x = IF ~consent THEN Refused(422, "consent_required")
          ELSE IF r.error # "none" THEN Failure(r)
          ELSE IF s.error # "none" THEN Failure(s)
          ELSE IF IsMatchResponse(body) THEN Answer(body)
          ELSE Refused(500, "ResponseValidationError")
  BY DEF MatchBaziHehun, Respond, Fails, ServedMatch
<1> HIDE DEF r, s, body
<1>2. r.error = "none" /\ s.error = "none" /\ IsMatchResponse(body) /\ x = Answer(body)
  BY <1>1, NeverSuccess DEF Refused
<1> QED BY <1>2, AnswerSays DEF r, s, body, ChartOf

(* What is in a person.                                                    *)
LEMMA PersonSays ==
  ASSUME NEW name, NEW b, NEW a, NEW gender
  PROVE  /\ Person(name, b, a, gender).birth = b /\ Person(name, b, a, gender).asked = a
         /\ Person(name, b, a, gender).gender = gender
  BY DEF Person

(* The chart of a person is that of the instant resolved.                  *)
LEMMA PersonChart ==
  ASSUME NEW P, P.birth \in BirthType, P.asked \in Requests, NEW e,
         ComputePersonChart(P, e).error = "none"
  PROVE  ChartOf(P, e) = Chart(P.birth, InstantOf(P.birth, P.asked), P.asked.standard,
                               P.asked.boundary)
<1> DEFINE b == P.birth
           a == P.asked
           r == BaziOf(b, a, a.boundary, e)
<1>1. b \in BirthType /\ a \in Requests /\ ComputePersonChart(P, e) = r
  BY DEF ComputePersonChart
<1> HIDE DEF b, a
<1>2. r.value.chart = Chart(b, InstantOf(b, a), a.standard, a.boundary)
  BY <1>1, BaziOfSays
<1> HIDE DEF r
<1> QED BY <1>1, <1>2 DEF ChartOf, b, a

(* The relation of two day masters is turned around with them.             *)
LEMMA RelationMirrored ==
  ASSUME NEW x \in Phases, NEW y \in Phases
  PROVE  DayMasterRelation(x, y) = FlipRelation(DayMasterRelation(y, x))
<1>1. x \in {0, 1, 2, 3, 4} /\ y \in {0, 1, 2, 3, 4}
  BY DEF Phases
<1>2. \/ x = y /\ DayMasterRelation(x, y) = "same_element"
      \/ Sheng(x) = y /\ DayMasterRelation(x, y) = "a_generates_b"
      \/ Sheng(y) = x /\ DayMasterRelation(x, y) = "b_generates_a"
      \/ Ke(x) = y /\ DayMasterRelation(x, y) = "a_controls_b"
      \/ Ke(y) = x /\ DayMasterRelation(x, y) = "b_controls_a"
  BY <1>1 DEF DayMasterRelation, Sheng, Ke
<1>3. \/ x = y /\ DayMasterRelation(y, x) = "same_element"
      \/ Sheng(y) = x /\ DayMasterRelation(y, x) = "a_generates_b"
      \/ Sheng(x) = y /\ DayMasterRelation(y, x) = "b_generates_a"
      \/ Ke(y) = x /\ DayMasterRelation(y, x) = "a_controls_b"
      \/ Ke(x) = y /\ DayMasterRelation(y, x) = "b_controls_a"
  BY <1>1 DEF DayMasterRelation, Sheng, Ke
<1>4. /\ x = y => Sheng(x) # y /\ Sheng(y) # x /\ Ke(x) # y /\ Ke(y) # x
      /\ Sheng(x) = y => Sheng(y) # x /\ Ke(x) # y /\ Ke(y) # x
      /\ Sheng(y) = x => Ke(x) # y /\ Ke(y) # x
      /\ Ke(x) = y => Ke(y) # x
  BY <1>1 DEF Sheng, Ke
<1> QED BY <1>2, <1>3, <1>4 DEF FlipRelation

(* The facts of a pair are facts of two persons.                           *)
LEMMA PairFacts ==
  ASSUME NEW a, NEW b, NEW pair, pair = AnalyzePair(a, b)
  PROVE  /\ pair[1].facts.relation = DayMasterRelation(a.phase, b.phase)
         /\ pair[1].facts.sameStem = (a.dayMaster = b.dayMaster)
         /\ pair[1].facts.sameElement = (a.phase = b.phase)
         /\ pair[2].facts.branches = <<a.spousePalace.branch, b.spousePalace.branch>>
         /\ pair[3].facts.vectors = <<a.vector, b.vector>>
<1> DEFINE one == DayMasterLayer(a, b)
           two == SpousePalaceLayer(a, b)
           three == VectorLayer(a, b)
           relation == DayMasterRelation(a.phase, b.phase)
           sameStem == a.dayMaster = b.dayMaster
           sameElement == a.phase = b.phase
           facts == [stems |-> <<a.dayMaster, b.dayMaster>>, phases |-> <<a.phase, b.phase>>,
                     sameStem |-> sameStem, sameElement |-> sameElement, relation |-> relation]
<1>1. pair = <<one, two, three>>
  BY DEF AnalyzePair
<1>2. one.facts = facts
  BY DEF DayMasterLayer, Layer
<1>3. /\ facts.relation = relation /\ facts.sameStem = sameStem
      /\ facts.sameElement = sameElement
  <2> HIDE DEF relation, sameStem, sameElement
  <2> QED OBVIOUS
<1>4. two.facts.branches = <<a.spousePalace.branch, b.spousePalace.branch>>
  BY DEF SpousePalaceLayer, Layer
<1>5. three.facts.vectors = <<a.vector, b.vector>>
  BY DEF VectorLayer, Layer
<1> HIDE DEF one, two, three, facts
<1>6. pair[1] = one /\ pair[2] = two /\ pair[3] = three
  BY <1>1
<1> QED BY <1>2, <1>3, <1>4, <1>5, <1>6

(* The analysis of two persons the other way round.                        *)
LEMMA MirroredBodies ==
  ASSUME NEW A, NEW B, NEW chartA, NEW chartB, NEW e, NEW f, NEW mine, NEW yours,
         mine = MatchBody(A, B, chartA, chartB, e), yours = MatchBody(B, A, chartB, chartA, f),
         IsMatchResponse(mine)
  PROVE  MirrorOf(mine, yours)
<1> DEFINE a == Persona(chartA, A.gender)
           b == Persona(chartB, B.gender)
           p == mine.pair
           q == yours.pair
<1>1. /\ mine.individual = <<a, b>> /\ yours.individual = <<b, a>>
      /\ mine.ledgers = <<StemLedger(chartA), StemLedger(chartB)>>
      /\ yours.ledgers = <<StemLedger(chartB), StemLedger(chartA)>>
      /\ p = AnalyzePair(a, b) /\ q = AnalyzePair(b, a)
  BY MatchBodySays DEF PairOf
<1>2. a.phase \in Phases /\ b.phase \in Phases
  <2>1. mine.individual[1] \in IndividualModel /\ mine.individual[2] \in IndividualModel
    BY DEF IsMatchResponse
  <2>2. mine.individual[1] = a /\ mine.individual[2] = b
    BY <1>1
  <2> HIDE DEF a, b
  <2>3. a \in IndividualModel /\ b \in IndividualModel
    BY <2>1, <2>2
  <2> QED BY <2>3, ZenonT(40) DEF IndividualModel
<1> HIDE DEF a, b, p, q
<1>3. /\ p[1].facts.relation = DayMasterRelation(a.phase, b.phase)
      /\ p[1].facts.sameStem = (a.dayMaster = b.dayMaster)
      /\ p[1].facts.sameElement = (a.phase = b.phase)
      /\ p[2].facts.branches = <<a.spousePalace.branch, b.spousePalace.branch>>
      /\ p[3].facts.vectors = <<a.vector, b.vector>>
  BY <1>1, PairFacts
<1>4. /\ q[1].facts.relation = DayMasterRelation(b.phase, a.phase)
      /\ q[1].facts.sameStem = (b.dayMaster = a.dayMaster)
      /\ q[1].facts.sameElement = (b.phase = a.phase)
      /\ q[2].facts.branches = <<b.spousePalace.branch, a.spousePalace.branch>>
      /\ q[3].facts.vectors = <<b.vector, a.vector>>
  BY <1>1, PairFacts
<1>5. p[1].facts.relation = FlipRelation(q[1].facts.relation)
  BY <1>2, <1>3, <1>4, RelationMirrored
<1>6. /\ p[1].facts.sameStem = q[1].facts.sameStem
      /\ p[1].facts.sameElement = q[1].facts.sameElement
  BY <1>3, <1>4
<1>7. /\ p[2].facts.branches = Flip(q[2].facts.branches)
      /\ p[3].facts.vectors = Flip(q[3].facts.vectors)
  BY <1>3, <1>4 DEF Flip
<1>8. /\ mine.individual = Flip(yours.individual) /\ mine.ledgers = Flip(yours.ledgers)
  BY <1>1 DEF Flip
<1> QED BY <1>5, <1>6, <1>7, <1>8 DEF MirrorOf, p, q

(* The same of what was answered, whichever ephemeris each found.          *)
LEMMA MatchesMirrored ==
  ASSUME Settings, AnswersSaid, NEW q \in AnsweredBy({"match"}), NEW r \in AnsweredBy({"match"}),
         q[2] = r[2], q[3] # r[3]
  PROVE  MirrorOf(Body(q), Body(r))
<1> DEFINE couple == q[2]
           me == Me(birth, asked, couple)
           you == You(couple)
           e == answers[q].eph
           f == answers[r].eph
<1>1. /\ answers[q].answer.status = 200 /\ Body(q) = answers[q].answer.body
      /\ q[2] \in Couples /\ q[3] \in BOOLEAN
      /\ answers[q].answer = Hehun(birth, asked, q[2], q[3], q[4], e)
  BY EntrySaid DEF Said, MatchSaid
<1>2. /\ answers[r].answer.status = 200 /\ Body(r) = answers[r].answer.body /\ r[3] \in BOOLEAN
      /\ answers[r].answer = Hehun(birth, asked, r[2], r[3], r[4], f)
  BY EntrySaid DEF Said, MatchSaid
<1>3. /\ Births[birth] \in BirthType /\ asked \in Requests /\ couple.other \in DOMAIN Births
      /\ couple.timeKnown \in BOOLEAN
  BY <1>1, ClientAsks, ReadingsAssumption
<1>4. /\ me.birth = Births[birth] /\ me.asked = asked
      /\ you.birth = Births[couple.other]
      /\ you.asked = [Defaults EXCEPT !.timeKnown = couple.timeKnown]
  BY PersonSays DEF Me, You
<1>5. /\ me.birth \in BirthType /\ me.asked \in Requests
      /\ you.birth \in BirthType /\ you.asked \in Requests
  <2>1. [Defaults EXCEPT !.timeKnown = couple.timeKnown] \in Requests
    BY <1>3 DEF Defaults, Requests
  <2> HIDE DEF me, you, couple
  <2> QED BY <1>3, <1>4, <2>1, BirthsAssumption
<1> HIDE DEF me, you
<1> DEFINE mine == Chart(me.birth, InstantOf(me.birth, me.asked), me.asked.standard,
                         me.asked.boundary)
           yours == Chart(you.birth, InstantOf(you.birth, you.asked), you.asked.standard,
                          you.asked.boundary)
<1>6. ASSUME NEW A, NEW B, NEW consent, NEW g, NEW x, A \in {me, you}, B \in {me, you},
             x.status = 200, x = MatchBaziHehun(A, B, consent, g)
      PROVE  /\ x.body = MatchBody(A, B, ChartOf(A, Found(g, "bazi")),
                                   ChartOf(B, Found(g, "other")), g.mode)
             /\ ComputePersonChart(A, Found(g, "bazi")).error = "none"
             /\ ComputePersonChart(B, Found(g, "other")).error = "none"
             /\ IsMatchResponse(x.body)
  BY <1>6, HehunSays
<1>7. ASSUME NEW g
      PROVE  /\ ComputePersonChart(me, g).error = "none" => ChartOf(me, g) = mine
             /\ ComputePersonChart(you, g).error = "none" => ChartOf(you, g) = yours
  BY <1>5, PersonChart
<1> HIDE DEF mine, yours
<1>8. CASE q[3]
  <2>1. ~r[3]
    BY <1>1, <1>2, <1>8
  <2>2. /\ answers[q].answer = MatchBaziHehun(you, me, q[4], e)
        /\ answers[r].answer = MatchBaziHehun(me, you, r[4], f)
    BY <1>1, <1>2, <1>8, <2>1 DEF Hehun, NamedFirst, NamedSecond, me, you
  <2>3. /\ Body(q) = MatchBody(you, me, yours, mine, e.mode) /\ IsMatchResponse(Body(q))
    BY <1>1, <1>6, <1>7, <2>2
  <2>4. /\ Body(r) = MatchBody(me, you, mine, yours, f.mode)
    BY <1>2, <1>6, <1>7, <2>2
  <2> QED BY <2>3, <2>4, MirroredBodies
<1>9. CASE ~q[3]
  <2>1. r[3]
    BY <1>1, <1>2, <1>9
  <2>2. /\ answers[q].answer = MatchBaziHehun(me, you, q[4], e)
        /\ answers[r].answer = MatchBaziHehun(you, me, r[4], f)
    BY <1>1, <1>2, <1>9, <2>1 DEF Hehun, NamedFirst, NamedSecond, me, you
  <2>3. /\ Body(q) = MatchBody(me, you, mine, yours, e.mode) /\ IsMatchResponse(Body(q))
    BY <1>1, <1>6, <1>7, <2>2
  <2>4. /\ Body(r) = MatchBody(you, me, yours, mine, f.mode)
    BY <1>2, <1>6, <1>7, <2>2
  <2> QED BY <2>3, <2>4, MirroredBodies
<1> QED BY <1>8, <1>9

-----------------------------------------------------------------------------
(* What is counted of the pairs analysed.                                  *)

(* A time resolves unless the clocks skipped it and the client would       *)
(* rather be refused.                                                      *)
LEMMA Resolves ==
  ASSUME NEW b \in BirthType, NEW a \in Requests
  PROVE  Resolve(b, a).error = "none" <=> ~Inexistent(b, a)
<1> DEFINE S == Instants(b.place, b.wall)
           t == Resolve(b, a)
<1>1. a.nonexistent \in {"error", "shift_forward"}
  BY DEF Requests
<1>2. CASE S = {}
  <2>1. Cardinality(S) = 0
    BY <1>2, FS_EmptySet
  <2>2. \E at, wall : t = IF a.nonexistent = "shift_forward"
                          THEN Resolution(wall, at, 0, "nonexistent_shifted")
                          ELSE Raised("LocalTimeError")
    BY <1>1, <1>2, <2>1 DEF Resolve
  <2> HIDE DEF t
  <2>3. t.error = "none" <=> a.nonexistent = "shift_forward"
    BY <2>2 DEF Resolution, Returned, Raised
  <2> QED BY <1>1, <1>2, <2>3 DEF Inexistent, t
<1>3. CASE Cardinality(S) = 1 \/ Cardinality(S) = 2
  <2>1. S # {}
    BY <1>3, FS_EmptySet
  <2>2. \E at, status : t = Resolution(b.wall, at, FoldAsked(a), status)
    BY <1>3, <2>1 DEF Resolve
  <2> HIDE DEF t
  <2>3. t.error = "none"
    BY <2>2 DEF Resolution, Returned
  <2> QED BY <2>1, <2>3 DEF Inexistent, t
<1> QED BY <1>2, <1>3, InstantsCount

(* And what then comes of the pillars hangs on the ephemeris alone.        *)
LEMMA PillarsUnless ==
  ASSUME NEW b \in BirthType, NEW a \in Requests, NEW boundary, NEW found
  PROVE  BaziOf(b, a, boundary, found).error = "none"
             <=> ~Inexistent(b, a) /\ found # "missing"
<1> DEFINE t == Resolve(b, a)
           r == BaziOf(b, a, boundary, found)
           lost == Raised("EphemerisUnavailableError")
<1>1. \E bazi : r = IF t.error # "none" THEN t
                    ELSE IF Instants(b.place, t.value.wall) = {} THEN Raised("LocalTimeError")
                    ELSE IF found = "missing" THEN lost ELSE Returned(bazi)
  BY DEF BaziOf, Then, Fails, ComputeBazi
<1>2. t.error = "none" => Instants(b.place, t.value.wall) # {}
  BY ReadAgain
<1>3. t.error = "none" <=> ~Inexistent(b, a)
  BY Resolves
<1>4. lost.error # "none" /\ \A bazi : Returned(bazi).error = "none"
  BY DEF Raised, Returned
<1> HIDE DEF t, r, lost
<1>5. r.error = "none" <=> t.error = "none" /\ found # "missing"
  BY <1>1, <1>2, <1>4
<1> QED BY <1>3, <1>5 DEF r

(* Both charts of a pair are there to be analysed when nothing is in its   *)
(* way.                                                                    *)
LEMMA ArrivedUnhindered ==
  ASSUME Settings, AnswersSaid, NEW q \in To("match")
  PROVE  Arrived(birth, asked, q[2], q[3], q[4], answers[q].eph) <=> Reasons(q) = {}
<1> DEFINE couple == q[2]
           e == answers[q].eph
           me == Me(birth, asked, couple)
           you == You(couple)
           theirs == [Defaults EXCEPT !.timeKnown = couple.timeKnown]
           blocked == Inexistent(Chosen, asked) \/ Inexistent(Births[couple.other], Defaults)
<1>1. /\ q \in Questions /\ q[1] = "match" /\ couple \in Couples
      /\ q[3] \in BOOLEAN /\ q[4] \in BOOLEAN
      /\ e \in Ephemerides(mode) /\ LostOf(q) \subseteq UsesOf(q)
  BY DEF To, AnswersSaid, Said, MatchSaid
<1>2. /\ Chosen \in BirthType /\ asked \in Requests /\ Births[couple.other] \in BirthType
      /\ couple.timeKnown \in BOOLEAN
  BY <1>1, ClientAsks, ReadingsAssumption, BirthsAssumption DEF Chosen
<1>3. theirs \in Requests /\ theirs.nonexistent = Defaults.nonexistent
  BY <1>2 DEF Defaults, Requests
<1>4. /\ me.birth = Chosen /\ me.asked = asked
      /\ you.birth = Births[couple.other] /\ you.asked = theirs
  BY PersonSays DEF Me, You, Chosen
<1>5. LostOf(q) = e.lost /\ e.lost \subseteq {"bazi", "other"}
  <2>1. UsesOf(q) = {"bazi", "other"}
    BY <1>1 DEF UsesOf, Sent
  <2> QED BY <1>1, <2>1 DEF LostOf
<1>6. ASSUME NEW use
      PROVE  Found(e, use) # "missing" <=> use \notin e.lost
  BY <1>1 DEF Ephemerides, Ephemeris, Found
<1> HIDE DEF me, you, theirs, e, couple
<1>7. ASSUME NEW use
      PROVE  /\ ~Fails(ComputePersonChart(me, Found(e, use)))
                    <=> ~Inexistent(Chosen, asked) /\ use \notin e.lost
             /\ ~Fails(ComputePersonChart(you, Found(e, use)))
                    <=> ~Inexistent(Births[couple.other], Defaults) /\ use \notin e.lost
  <2>1. Inexistent(Births[couple.other], theirs) <=> Inexistent(Births[couple.other], Defaults)
    BY <1>3 DEF Inexistent
  <2>2. ASSUME NEW b \in BirthType, NEW a \in Requests
        PROVE  BaziOf(b, a, a.boundary, Found(e, use)).error = "none"
                   <=> ~Inexistent(b, a) /\ use \notin e.lost
    BY <1>6, PillarsUnless
  <2>3. /\ ComputePersonChart(me, Found(e, use))
               = BaziOf(Chosen, asked, asked.boundary, Found(e, use))
        /\ ComputePersonChart(you, Found(e, use))
               = BaziOf(Births[couple.other], theirs, theirs.boundary, Found(e, use))
    BY <1>4 DEF ComputePersonChart
  <2> QED BY <1>2, <1>3, <2>1, <2>2, <2>3 DEF Fails
<1>8. Arrived(birth, asked, couple, q[3], q[4], e) <=> q[4] /\ ~blocked /\ e.lost = {}
  <2>1. CASE q[3]
    <3>1. Arrived(birth, asked, couple, q[3], q[4], e) <=> Analysed(you, me, q[4], e)
      BY <2>1 DEF Arrived, NamedFirst, NamedSecond, me, you
    <3> QED BY <1>5, <1>7, <3>1 DEF Analysed
  <2>2. CASE ~q[3]
    <3>1. Arrived(birth, asked, couple, q[3], q[4], e) <=> Analysed(me, you, q[4], e)
      BY <2>2 DEF Arrived, NamedFirst, NamedSecond, me, you
    <3> QED BY <1>5, <1>7, <3>1 DEF Analysed
  <2> QED BY <1>1, <2>1, <2>2
<1>9. Reasons(q) = {} <=> q[4] /\ ~blocked /\ e.lost = {}
  <2>1. NoInstant(q) <=> blocked
    BY <1>1, OwnReading DEF NoInstant, couple
  <2>2. Consented(q) <=> q[4]
    BY <1>1 DEF Consented
  <2>3. BlamedOnClient(q) = {} /\ PassedOverIn(q) = {} /\ q[1] \notin NeedsHouses /\ q[1] # "impact"
    BY <1>1 DEF BlamedOnClient, PassedOverIn, NeedsHouses
  <2> HIDE DEF blocked
  <2>4. Reasons(q) = {s \in {422, 500, 503} : \/ s = 422 /\ (~q[4] \/ blocked)
                                              \/ s = 503 /\ e.lost # {}}
    BY <1>5, <2>1, <2>2, <2>3 DEF Reasons
  <2> QED BY <2>4
<1> QED BY <1>8, <1>9 DEF couple, e

(* Nobody's pair is analysed without consent, every decision is logged,    *)
(* and the demand counts each analysis that had nothing in its way and no  *)
(* other (routers/match.py).                                               *)
THEOREM Accounted == Spec => []MatchAccounted
<1>1. ASSUME IInv PROVE MatchAccounted
  <2>1. ASSUME NEW q \in AnsweredBy({"match"}) PROVE q[4]
    <3>1. q[1] = "match" /\ Said(birth, asked, q, answers[q]) /\ answers[q].answer.status = 200
      BY <1>1, EntrySaid DEF IInv
    <3> QED BY <3>1, ConsentGiven
  <2>2. Arrivals = {q \in To("match") : Reasons(q) = {}}
    BY <1>1, ArrivedUnhindered DEF IInv, Arrivals
  <2> QED BY <1>1, <2>1, <2>2 DEF IInv, Counted, MatchAccounted
<1> QED BY <1>1, InvAlways, PTL

-----------------------------------------------------------------------------
-----------------------------------------------------------------------------
(* Sums, roots and vectors. The library chooses the function of a sum      *)
(* among those that satisfy its recursion, so that there is one must be    *)
(* shown before anything is known of a sum; and each is followed down the  *)
(* subsets of its domain.                                                  *)

(* What holds of a subset whenever it holds of all that lack one of its    *)
(* elements holds of every subset. The library's induction takes the       *)
(* property as an operator; here it is a set.                              *)
LEMMA SubsetInduction ==
  ASSUME NEW S, IsFiniteSet(S), NEW Good,
         \A s \in SUBSET S : (\A x \in s : s \ {x} \in Good) => s \in Good
  PROVE  \A s \in SUBSET S : s \in Good
<1> DEFINE Bad == {s \in SUBSET S : s \notin Good}
           Sizes == {Cardinality(s) : s \in Bad}
<1>1. \A s \in SUBSET S : IsFiniteSet(s) /\ Cardinality(s) \in Nat
  BY FS_Subset, FS_CardinalityType
<1>2. ASSUME Bad # {} PROVE FALSE
  <2>1. Sizes \in SUBSET Nat /\ Sizes # {}
    BY <1>1, <1>2
  <2>2. PICK m \in Sizes : \A k \in Sizes : m <= k
    BY <2>1, LeastNumber
  <2>3. PICK s \in Bad : m = Cardinality(s)
    BY <2>2
  <2>4. PICK x \in s : s \ {x} \notin Good
    BY <2>3
  <2>5. Cardinality(s \ {x}) = Cardinality(s) - 1
    BY <1>1, <2>3, <2>4, FS_RemoveElement
  <2>6. Cardinality(s \ {x}) \in Sizes
    BY <2>3, <2>4
  <2>7. m \in Nat
    BY <2>1
  <2> HIDE DEF Sizes
  <2> QED BY <2>2, <2>3, <2>5, <2>6, <2>7
<1> QED BY <1>2

(* g is what a fold computes that takes one picked element after another.  *)
Folds(g, S, pick, base, step) ==
    g = [s \in SUBSET S |-> IF s = {} THEN base ELSE step[pick[s]][g[s \ {pick[s]}]]]

(* There is such a function: the recursion is well founded.                *)
LEMMA FoldExists ==
  ASSUME NEW S, IsFiniteSet(S), NEW pick, \A s \in SUBSET S : s # {} => pick[s] \in s,
         NEW base, NEW step
  PROVE  \E g : Folds(g, S, pick, base, step)
<1> DEFINE Small(n) == {s \in SUBSET S : Cardinality(s) <= n}
           Rest(s) == s \ {pick[s]}
           Step(g, s) == IF s = {} THEN base ELSE step[pick[s]][g[Rest(s)]]
           Solves(g, n) == g = [s \in Small(n) |-> Step(g, s)]
           Bad == {n \in Nat : ~ \E g : Solves(g, n)}
<1>1. \A s \in SUBSET S : IsFiniteSet(s) /\ Cardinality(s) \in Nat
  BY FS_Subset, FS_CardinalityType
<1>2. \A s \in SUBSET S : s # {} => /\ Rest(s) \in SUBSET S
                                    /\ Cardinality(Rest(s)) = Cardinality(s) - 1
  BY <1>1, FS_RemoveElement
<1>3. \A s \in SUBSET S : Cardinality(s) = 0 <=> s = {}
  BY <1>1, FS_EmptySet
<1>4. Bad = {}
  <2> SUFFICES ASSUME Bad # {} PROVE FALSE
    OBVIOUS
  <2>1. PICK m \in Bad : \A k \in Bad : m <= k
    <3> HIDE DEF Solves
    <3> QED BY LeastNumber
  <2>2. m # 0
    <3>1. SUFFICES ASSUME m = 0 PROVE FALSE
      OBVIOUS
    <3> DEFINE g == [s \in Small(0) |-> base]
    <3>2. \A s \in Small(0) : s = {}
      BY <1>1, <1>3
    <3>3. Solves(g, 0)
      BY <3>2
    <3> QED BY <2>1, <3>1, <3>3
  <2>3. m - 1 \in Nat /\ m - 1 \notin Bad
    <3>1. m \in Nat
      BY <2>1
    <3>2. ~ (m <= m - 1)
      BY <3>1
    <3> HIDE DEF Solves, Bad
    <3> QED BY <2>1, <2>2, <3>1, <3>2
  <2>4. PICK g : Solves(g, m - 1)
    <3> HIDE DEF Solves
    <3> QED BY <2>3
  <2> DEFINE h == [s \in Small(m) |-> Step(g, s)]
  <2>5. \A s \in Small(m) : s # {} => Rest(s) \in Small(m - 1)
    BY <1>1, <1>2, <2>1
  <2>6. \A s \in Small(m - 1) : s \in Small(m) /\ g[s] = Step(g, s) /\ h[s] = Step(g, s)
    <3>1. \A s \in Small(m - 1) : s \in Small(m)
      BY <1>1, <2>1
    <3>2. \A s \in Small(m - 1) : g[s] = Step(g, s)
      <4> HIDE DEF Step
      <4> QED BY <2>4
    <3> HIDE DEF Step
    <3> QED BY <3>1, <3>2
  <2>7. \A s \in Small(m) : Step(h, s) = Step(g, s)
    <3> SUFFICES ASSUME NEW s \in Small(m), s # {} PROVE Step(h, s) = Step(g, s)
      OBVIOUS
    <3>1. h[Rest(s)] = g[Rest(s)]
      BY <2>5, <2>6
    <3> HIDE DEF h
    <3> QED BY <3>1
  <2>8. Solves(h, m)
    <3> HIDE DEF Step
    <3> QED BY <2>7
  <2> HIDE DEF h
  <2> QED BY <2>1, <2>8
<1>5. Cardinality(S) \in Nat /\ \A s \in SUBSET S : Cardinality(s) <= Cardinality(S)
  BY <1>1, FS_Subset
<1>6. Small(Cardinality(S)) = SUBSET S
  BY <1>5
<1>7. PICK g : Solves(g, Cardinality(S))
  BY <1>4, <1>5
<1>8. g = [s \in SUBSET S |-> Step(g, s)]
  <2> HIDE DEF Step
  <2> QED BY <1>6, <1>7
<1> QED BY <1>8 DEF Folds

(* The function that the library's sum is chosen from.                     *)
IsSum(g, f, S) == g = [s \in SUBSET S |-> IF s = {} THEN 0
                                          ELSE LET x == CHOOSE y \in s : TRUE
                                               IN  f[x] + g[s \ {x}]]

(* A function that satisfies the recursion of a sum, and gives the sum.    *)
Sums(g, f, S) == IsSum(g, f, S) /\ SumFunctionOnSet(f, S) = g[S]

(* There is one.                                                           *)
LEMMA SumExists ==
  ASSUME NEW S, IsFiniteSet(S), NEW f, \A x \in S : f[x] \in Nat
  PROVE  \E g : Sums(g, f, S)
<1> DEFINE pick == [s \in SUBSET S |-> CHOOSE y \in s : TRUE]
           step == [x \in S |-> [v \in Nat |-> f[x] + v]]
           sum == CHOOSE g : IsSum(g, f, S)
<1>1. \A s \in SUBSET S : s # {} => pick[s] \in s
  OBVIOUS
<1>2. PICK g : Folds(g, S, pick, 0, step)
  <2> HIDE DEF step, pick
  <2> QED BY <1>1, FoldExists
<1>3. \A s \in SUBSET S : g[s] = IF s = {} THEN 0 ELSE step[pick[s]][g[s \ {pick[s]}]]
  <2> HIDE DEF step, pick
  <2> QED BY <1>2 DEF Folds
<1>4. \A s \in SUBSET S : g[s] \in Nat
  <2> DEFINE Good == {s \in SUBSET S : g[s] \in Nat}
  <2>1. ASSUME NEW s \in SUBSET S, \A x \in s : s \ {x} \in Good
        PROVE  s \in Good
    <3>1. CASE s = {}
      <4> HIDE DEF step, pick
      <4>1. g[s] = 0
        BY <1>3, <3>1
      <4> QED BY <4>1
    <3>2. CASE s # {}
      <4>1. pick[s] \in s /\ g[s] = step[pick[s]][g[s \ {pick[s]}]]
        <5> HIDE DEF step, pick
        <5> QED BY <1>1, <1>3, <3>2
      <4>2. g[s \ {pick[s]}] \in Nat
        <5> HIDE DEF pick
        <5> QED BY <2>1, <4>1
      <4> HIDE DEF pick
      <4>3. step[pick[s]][g[s \ {pick[s]}]] = f[pick[s]] + g[s \ {pick[s]}]
        BY <4>1, <4>2
      <4> HIDE DEF step
      <4> QED BY <4>1, <4>2, <4>3
    <3> QED BY <3>1, <3>2
  <2> HIDE DEF Good
  <2>2. \A s \in SUBSET S : s \in Good
    BY <2>1, SubsetInduction
  <2> QED BY <2>2 DEF Good
<1>5. IsSum(g, f, S)
  <2>1. ASSUME NEW s \in SUBSET S, s # {}
        PROVE  g[s] = LET x == CHOOSE y \in s : TRUE IN f[x] + g[s \ {x}]
    <3>1. pick[s] \in s /\ g[s] = step[pick[s]][g[s \ {pick[s]}]]
      <4> HIDE DEF step, pick
      <4> QED BY <1>1, <1>3, <2>1
    <3>2. g[s \ {pick[s]}] \in Nat
      BY <1>4
    <3>3. step[pick[s]][g[s \ {pick[s]}]] = f[pick[s]] + g[s \ {pick[s]}]
      <4> HIDE DEF pick
      <4> QED BY <3>1, <3>2
    <3> HIDE DEF step
    <3> QED BY <3>1, <3>3
  <2> HIDE DEF step, pick
  <2> QED BY <1>2, <1>3, <2>1 DEF IsSum, Folds
<1>6. IsSum(sum, f, S)
  <2> HIDE DEF step, pick
  <2> QED BY <1>5
<1>7. SumFunctionOnSet(f, S) = sum[S]
  BY DEF SumFunctionOnSet, FoldFunctionOnSet, MapThenFoldSet, IsSum
<1> HIDE DEF sum
<1> QED BY <1>6, <1>7 DEF Sums

(* A sum of naturals is natural, and no less than any of them.             *)
LEMMA SumIsNatural ==
  ASSUME NEW S, IsFiniteSet(S), NEW f, \A x \in S : f[x] \in Nat
  PROVE  /\ SumFunctionOnSet(f, S) \in Nat
         /\ \A x \in S : f[x] <= SumFunctionOnSet(f, S)
<1>1. PICK sum : IsSum(sum, f, S) /\ SumFunctionOnSet(f, S) = sum[S]
  BY SumExists DEF Sums
<1>2. \A s \in SUBSET S : sum[s] \in Nat /\ \A y \in s : f[y] <= sum[s]
  <2> DEFINE Good == {s \in SUBSET S : sum[s] \in Nat /\ \A y \in s : f[y] <= sum[s]}
  <2>1. ASSUME NEW s \in SUBSET S, \A x \in s : s \ {x} \in Good
        PROVE  s \in Good
    <3>1. CASE s = {}
      <4>1. sum[s] = 0
        BY <1>1, <3>1 DEF IsSum
      <4> QED BY <3>1, <4>1
    <3>2. CASE s # {}
      <4>1. PICK x \in s : sum[s] = f[x] + sum[s \ {x}]
        BY <1>1, <3>2 DEF IsSum
      <4>2. s \ {x} \in Good /\ f[x] \in Nat
        BY <2>1, <4>1
      <4>3. \A y \in s : y = x \/ y \in s \ {x}
        OBVIOUS
      <4>4. \A y \in s : f[y] \in Nat
        OBVIOUS
      <4> QED BY <4>1, <4>2, <4>3, <4>4
    <3> QED BY <3>1, <3>2
  <2> HIDE DEF Good
  <2>2. \A s \in SUBSET S : s \in Good
    BY <2>1, SubsetInduction
  <2> QED BY <2>2 DEF Good
<1> QED BY <1>1, <1>2

(* There are sixteen bits.                                                 *)
LEMMA SixteenAreFinite == IsFiniteSet(1 .. 16)
<1>1. 1 \in Int /\ 16 \in Int
  OBVIOUS
<1> QED BY <1>1, FS_Interval

(* A set of indices contains its greatest.                                 *)
LEMMA GreatestIsIn ==
  ASSUME NEW n \in Nat, NEW s \in SUBSET (1 .. n), s # {}
  PROVE  Max(s) \in s /\ \A k \in s : Max(s) >= k
<1>1. {n - k : k \in s} \in SUBSET Nat /\ {n - k : k \in s} # {}
  <2>1. \A k \in s : n - k \in Nat
    OBVIOUS
  <2> QED BY <2>1
<1>2. PICK m \in {n - k : k \in s} : \A j \in {n - k : k \in s} : m <= j
  BY <1>1, LeastNumber
<1>3. PICK last \in s : m = n - last
  BY <1>2
<1>4. \A k \in s : last >= k
  <2>1. ASSUME NEW k \in s PROVE last >= k
    <3>1. n - last <= n - k
      BY <1>2, <1>3
    <3>2. last \in 1 .. n /\ k \in 1 .. n
      OBVIOUS
    <3> QED BY <3>1, <3>2
  <2> QED BY <2>1
<1> QED BY <1>3, <1>4 DEF Max

(* The same of the bits of a root.                                         *)
LEMMA LastIsIn ==
  ASSUME NEW s \in SUBSET (1 .. 16), s # {}
  PROVE  Max(s) \in s /\ \A k \in s : Max(s) >= k
<1>1. 16 \in Nat
  OBVIOUS
<1> QED BY <1>1, GreatestIsIn

(* One bit of a root: kept if the square stays below.                      *)
Raise(n, r, bit) == IF r + bit <= n \div (r + bit) THEN r + bit ELSE r
(* The function that a root is folded with.                                *)
IsRoot(g, n) == g = [s \in SUBSET (1 .. 16) |-> IF s = {} THEN 0
                                              ELSE LET x == Max(s)
                                                   IN  Raise(n, g[s \ {x}], Bits[x])]

(* The root of a positive number is positive.                              *)
LEMMA RootOfPositive ==
  ASSUME NEW n \in Nat, n > 0
  PROVE  Root(n) \in Nat \ {0}
<1> DEFINE S == 1 .. 16
           pick == [s \in SUBSET S |-> Max(s)]
           step == [x \in S |-> [v \in Nat |-> Raise(n, v, Bits[x])]]
           root == CHOOSE g : IsRoot(g, n)
<1>1. \A s \in SUBSET S : s # {} => pick[s] \in s
  BY LastIsIn
<1>2. \A x \in S : Bits[x] \in Nat \ {0}
  BY DEF Bits
<1>3. \A v \in Nat, x \in S : Raise(n, v, Bits[x]) \in Nat
  BY <1>2 DEF Raise
<1>4. PICK g : Folds(g, S, pick, 0, step)
  <2>1. IsFiniteSet(S)
    BY SixteenAreFinite
  <2> HIDE DEF step, pick, S
  <2> QED BY <1>1, <2>1, FoldExists
<1>5. \A s \in SUBSET S : g[s] = IF s = {} THEN 0 ELSE step[pick[s]][g[s \ {pick[s]}]]
  <2> HIDE DEF step, pick, S
  <2> QED BY <1>4 DEF Folds
<1>6. \A s \in SUBSET S : g[s] \in Nat
  <2> DEFINE Good == {s \in SUBSET S : g[s] \in Nat}
  <2>1. ASSUME NEW s \in SUBSET S, \A x \in s : s \ {x} \in Good
        PROVE  s \in Good
    <3>1. CASE s = {}
      <4> HIDE DEF step, pick
      <4>1. g[s] = 0
        BY <1>5, <3>1
      <4> QED BY <4>1
    <3>2. CASE s # {}
      <4>1. pick[s] \in s /\ g[s] = step[pick[s]][g[s \ {pick[s]}]]
        <5> HIDE DEF step, pick
        <5> QED BY <1>1, <1>5, <3>2
      <4>2. g[s \ {pick[s]}] \in Nat
        <5> HIDE DEF pick
        <5> QED BY <2>1, <4>1
      <4> HIDE DEF pick
      <4>3. step[pick[s]][g[s \ {pick[s]}]] \in Nat
        BY <1>3, <4>1, <4>2
      <4> HIDE DEF step
      <4> QED BY <4>1, <4>3
    <3> QED BY <3>1, <3>2
  <2> HIDE DEF Good
  <2>2. \A s \in SUBSET S : s \in Good
    <3>1. IsFiniteSet(S)
      BY SixteenAreFinite
    <3> HIDE DEF S
    <3> QED BY <2>1, <3>1, SubsetInduction
  <2> QED BY <2>2 DEF Good
<1>7. IsRoot(g, n)
  <2>1. ASSUME NEW s \in SUBSET S, s # {}
        PROVE  g[s] = LET x == Max(s) IN Raise(n, g[s \ {x}], Bits[x])
    <3>1. pick[s] \in s /\ g[s] = step[pick[s]][g[s \ {pick[s]}]]
      <4> HIDE DEF step, pick
      <4> QED BY <1>1, <1>5, <2>1
    <3>2. g[s \ {pick[s]}] \in Nat
      BY <1>6
    <3>3. step[pick[s]][g[s \ {pick[s]}]] = Raise(n, g[s \ {pick[s]}], Bits[pick[s]])
      <4> HIDE DEF pick
      <4> QED BY <3>1, <3>2
    <3>4. pick[s] = Max(s)
      OBVIOUS
    <3> HIDE DEF step, pick
    <3> QED BY <3>1, <3>3, <3>4
  <2> HIDE DEF step, pick
  <2> QED BY <1>4, <1>5, <2>1 DEF IsRoot, Folds
<1>8. IsRoot(root, n)
  <2> HIDE DEF step, pick
  <2> QED BY <1>7
<1>9. Root(n) = root[S]
  <2>1. DOMAIN Bits = 1 .. 16
    BY DEF Bits
  <2> QED BY <2>1 DEF Root, FoldLeft, MapThenFoldSet, IsRoot, Raise
<1> HIDE DEF root, step, pick
<1>10. \A s \in SUBSET S : s # {} => root[s] = Raise(n, root[s \ {Max(s)}], Bits[Max(s)])
  <2> HIDE DEF Raise
  <2> QED BY <1>8 DEF IsRoot
<1>11. \A s \in SUBSET S : root[s] \in Nat
  <2> DEFINE Good == {s \in SUBSET S : root[s] \in Nat}
  <2>1. ASSUME NEW s \in SUBSET S, \A x \in s : s \ {x} \in Good
        PROVE  s \in Good
    <3>1. CASE s = {}
      BY <1>8, <3>1 DEF IsRoot
    <3>2. CASE s # {}
      <4>1. Max(s) \in s
        BY <3>2, LastIsIn
      <4>2. root[s \ {Max(s)}] \in Nat
        BY <2>1, <4>1
      <4> QED BY <1>3, <1>10, <3>2, <4>1, <4>2
    <3> QED BY <3>1, <3>2
  <2> HIDE DEF Good
  <2>2. \A s \in SUBSET S : s \in Good
    <3>1. IsFiniteSet(S)
      BY SixteenAreFinite
    <3> HIDE DEF S
    <3> QED BY <2>1, <3>1, SubsetInduction
  <2> QED BY <2>2 DEF Good
<1>12. Max(S) = 16 /\ Bits[16] = 1
  BY LastIsIn DEF Bits
<1>13. root[S] = Raise(n, root[S \ {16}], 1)
  BY <1>10, <1>12
<1>14. root[S \ {16}] \in Nat
  BY <1>11
<1>15. n \div 1 = n
  OBVIOUS
<1> QED BY <1>9, <1>13, <1>14, <1>15 DEF Raise

-----------------------------------------------------------------------------
(* A pillar of the month, and of the hour, by the right table.             *)
MonthOf(s, m) == MonthPillar(TRUE, s, m)
(* The hour by the same.                                                   *)
HourOf(s, m) == HourPillar(TRUE, s, m)

(* Every day of the cycle of sixty is a pillar.                            *)
LEMMA DayIsPillar ==
  ASSUME NEW i \in 0 .. 59
  PROVE  PillarFromIndex60(i) \in Pillar /\ PillarFromIndex60(i).stem \in 0 .. 9
<1>1. i % 10 \in 0 .. 9 /\ i % 12 \in 0 .. 11
  OBVIOUS
<1> QED BY <1>1 DEF PillarFromIndex60, Pillar

(* So is every entry of the tables of months and hours.                    *)
LEMMA TablesHavePillars ==
  ASSUME NEW s \in 0 .. 9, NEW m \in 0 .. 11
  PROVE  MonthOf(s, m) \in Pillar /\ HourOf(s, m) \in Pillar
<1> DEFINE k == 1 + (s % 5)
           x == MonthStems[k][m + 1]
           y == HourStems[k][m + 1]
<1>1. k \in {1, 2, 3, 4, 5} /\ m \in {0, 1, 2, 3, 4, 5, 6, 7, 8, 9, 10, 11}
  OBVIOUS
<1>2. MonthOf(s, m) = [stem |-> x, branch |-> (2 + m) % 12]
  BY DEF MonthOf, MonthPillar, MonthStem
<1>3. HourOf(s, m) = [stem |-> y, branch |-> m]
  BY DEF HourOf, HourPillar, HourStem
<1> HIDE DEF k
<1>4. x \in 0 .. 9
  BY <1>1 DEF MonthStems
<1>5. y \in 0 .. 9
  BY <1>1 DEF HourStems
<1>6. (2 + m) % 12 \in 0 .. 11
  OBVIOUS
<1> HIDE DEF x, y
<1> QED BY <1>2, <1>3, <1>4, <1>5, <1>6 DEF Pillar

(* The four entries of a chart are pillars.                                *)
LEMMA ChartHasPillars ==
  ASSUME NEW b \in BirthType, NEW u \in Int, NEW standard \in {"CIVIL", "LMT", "TLST"},
         NEW boundary
  PROVE  /\ DOMAIN Chart(b, u, standard, boundary) = 1 .. 4
         /\ \A i \in 1 .. 4 : Chart(b, u, standard, boundary)[i] \in Pillar
<1> DEFINE year == YearPillar(SolarYear(b, u))
           month == MonthOf(year.stem, MonthAt(b, u))
           day == Engine(u, b.place, standard, boundary)!Day
           hour == Engine(u, b.place, standard, boundary)!HourOfBirth
<1>1. Chart(b, u, standard, boundary) = <<year, month, day, hour>>
  BY DEF Chart, MonthOf
<1>2. /\ b.civilYear \in Int /\ b.sun.turns \in Int /\ b.sun.term \in 0 .. 23
  BY BirthFields, PlaceFields
<1>7. /\ b.place.at \in Int /\ b.place.before \in Int /\ b.place.after \in Int
      /\ b.place.longitude \in Int /\ b.place.equation \in Int
  BY PlaceFields
<1>3. year \in Pillar /\ year.stem \in 0 .. 9
  <2>1. SolarYear(b, u) \in Int
    BY <1>2 DEF SolarYear
  <2>2. (SolarYear(b, u) - 1984) % 60 \in 0 .. 59
    BY <2>1
  <2> QED BY <2>2, DayIsPillar DEF YearPillar
<1>4. month \in Pillar
  <2>1. TermAt(b, u) \in 0 .. 23
    <3> DEFINE n == IF u < b.sun.turns THEN b.sun.term ELSE b.sun.term + 1
    <3>1. n \in Int
      BY <1>2
    <3>2. TermAt(b, u) = n % 24
      BY DEF TermAt
    <3> HIDE DEF n
    <3> QED BY <3>1, <3>2
  <2>2. MonthAt(b, u) \in 0 .. 11
    BY <2>1 DEF MonthAt, LiChunTerm
  <2> HIDE DEF year
  <2> QED BY <1>3, <2>2, TablesHavePillars
<1>5. day \in Pillar /\ day.stem \in 0 .. 9
  <2> DEFINE i == Engine(u, b.place, standard, boundary)!DayIndex60
  <2>1. day = PillarFromIndex60(i)
    BY DEF Engine!Day, PillarFromIndex60, Engine!PillarFromIndex60
  <2> DEFINE d == Engine(u, b.place, standard, boundary)!DateForDay
             k == Engine(u, b.place, standard, boundary)!DayOffset(TRUE)
  <2>2. i \in 0 .. 59
    <3>1. d \in Int
      BY <1>7, BirthsAssumption DEF Engine!DateForDay, Engine!SolarDate, Engine!Date,
         Engine!DayBoundary, Engine!DateRollover, Engine!Apparent, Engine!Civil, Engine!CivilAt,
         Engine!Chart, Engine!Mean, Engine!MinuteOfDay
    <3>2. k \in Int
      BY DEF Engine!DayOffset
    <3>3. i = (d + k) % 60
      BY DEF Engine!DayIndex60
    <3> HIDE DEF i, d, k
    <3> QED BY <3>1, <3>2, <3>3
  <2> HIDE DEF i
  <2> QED BY <2>1, <2>2, DayIsPillar
<1>6. hour \in Pillar
  <2> DEFINE h == Engine(u, b.place, standard, boundary)!HourBranch
  <2>1. hour = HourOf(day.stem, h)
    BY DEF Engine!HourOfBirth, Engine!HourPillar, Engine!HourStem, Engine!HourStems,
       HourOf, HourPillar, HourStem, HourStems
  <2>2. h \in 0 .. 11
    <3> DEFINE minute == Engine(u, b.place, standard, boundary)!MinuteOfDay(
                             Engine(u, b.place, standard, boundary)!Apparent)
               clock == Engine(u, b.place, standard, boundary)!Hour
    <3>1. minute \in Int /\ clock \in Int
      BY <1>7 DEF Engine!Hour, Engine!Apparent, Engine!Civil, Engine!CivilAt,
         Engine!Chart, Engine!Mean, Engine!MinuteOfDay
    <3>2. h = IF standard = "TLST" THEN (((minute + 60) % 1440) \div 120) % 12
              ELSE ((clock + 1) \div 2) % 12
      BY DEF Engine!HourBranch, Engine!BranchOfApparent, Engine!BranchOfHour
    <3> HIDE DEF h, minute, clock
    <3> QED BY <3>1, <3>2
  <2> HIDE DEF h, day
  <2> QED BY <1>5, <2>1, <2>2, TablesHavePillars
<1> HIDE DEF year, month, day, hour
<1> QED BY <1>1, <1>3, <1>4, <1>5, <1>6

(* The sum of a function of naturals, over its whole domain.               *)
LEMMA SumOfNaturals ==
  ASSUME NEW f, IsFiniteSet(DOMAIN f), \A x \in DOMAIN f : f[x] \in Nat
  PROVE  SumFunction(f) \in Nat /\ \A x \in DOMAIN f : f[x] <= SumFunction(f)
BY SumIsNatural DEF SumFunction

(* The small domains that are summed over.                                 *)
LEMMA SomeAreFinite == IsFiniteSet(Phases) /\ IsFiniteSet(1 .. 4) /\ IsFiniteSet(1 .. 3)
                       /\ IsFiniteSet(1 .. 2) /\ IsFiniteSet(1 .. 1)
<1>1. 0 \in Int /\ 1 \in Int /\ 2 \in Int /\ 3 \in Int /\ 4 \in Int
  OBVIOUS
<1> QED BY <1>1, FS_Interval DEF Phases

(* The rows of a branch have natural weights.                              *)
LEMMA RowsWeigh ==
  ASSUME NEW branch \in 0 .. 11
  PROVE  /\ IsFiniteSet(DOMAIN RowsOf(branch))
         /\ \A k \in DOMAIN RowsOf(branch) : RowsOf(branch)[k][2] \in Nat
<1>1. branch \in {0, 1, 2, 3, 4, 5, 6, 7, 8, 9, 10, 11}
  OBVIOUS
<1>2. RowsOf(branch) = HiddenRows[branch + 1]
  BY <1>1 DEF RowsOf, Listed, Unknown, Absent
<1>3. /\ DOMAIN HiddenRows[branch + 1] \in {1 .. 1, 1 .. 2, 1 .. 3}
      /\ \A k \in DOMAIN HiddenRows[branch + 1] : HiddenRows[branch + 1][k][2] \in Nat
  BY <1>1 DEF HiddenRows
<1> QED BY <1>2, <1>3, SomeAreFinite

(* The vector of a chart is natural in every phase.                        *)
LEMMA BaziIsNatural ==
  ASSUME NEW chart, DOMAIN chart = 1 .. 4, \A i \in 1 .. 4 : chart[i] \in Pillar
  PROVE  BaziVector(chart) \in [Phases -> Nat]
<1> DEFINE Weight(p, i, k) == IF RowsOf(chart[i].branch)[k][1] = p
                              THEN RowsOf(chart[i].branch)[k][2] ELSE 0
           rows(p, i) == [k \in DOMAIN RowsOf(chart[i].branch) |-> Weight(p, i, k)]
           Own(p, i) == IF Listed(chart[i].stem) /\ ElementOf(chart[i].stem) = p THEN 10 ELSE 0
           all(p) == [i \in DOMAIN chart |-> Own(p, i) + SumFunction(rows(p, i))]
<1>1. ASSUME NEW p \in Phases, NEW i \in 1 .. 4 PROVE SumFunction(rows(p, i)) \in Nat
  <2>1. chart[i].branch \in 0 .. 11
    BY DEF Pillar
  <2> DEFINE branch == chart[i].branch
  <2> HIDE DEF branch
  <2>2. /\ IsFiniteSet(DOMAIN RowsOf(branch))
        /\ \A k \in DOMAIN RowsOf(branch) : RowsOf(branch)[k][2] \in Nat
    BY <2>1, RowsWeigh DEF branch
  <2>3. \A k \in DOMAIN RowsOf(branch) : Weight(p, i, k) \in Nat
    BY <2>2 DEF branch
  <2>4. DOMAIN rows(p, i) = DOMAIN RowsOf(branch)
    BY DEF branch
  <2>5. \A k \in DOMAIN rows(p, i) : rows(p, i)[k] \in Nat
    <3> HIDE DEF Weight
    <3> QED BY <2>3, <2>4
  <2> HIDE DEF rows
  <2> QED BY <2>2, <2>4, <2>5, SumOfNaturals
<1>2. ASSUME NEW p \in Phases PROVE SumFunction(all(p)) \in Nat
  <2>1. \A i \in 1 .. 4 : Own(p, i) \in Nat
    OBVIOUS
  <2> HIDE DEF Own, rows
  <2>2. DOMAIN all(p) = 1 .. 4 /\ \A i \in 1 .. 4 : all(p)[i] \in Nat
    BY <1>1, <2>1
  <2> HIDE DEF all
  <2> QED BY <2>2, SomeAreFinite, SumOfNaturals
<1>3. BaziVector(chart) = [p \in Phases |-> SumFunction(all(p))]
  BY DEF BaziVector
<1> HIDE DEF all
<1> QED BY <1>2, <1>3

(* So is what a body adds to the western one.                              *)
LEMMA BodiesSpread ==
  ASSUME NEW body, NEW sign \in Int
  PROVE  WesternEntry(body, sign).distribution \in [Phases -> Nat]
<1> DEFINE tier == Tier(body)
           element == 1 + (sign % 4)
           spread == [p \in Phases |-> TierWeight[tier] * Shares[element][p + 1]]
<1>1. tier \in 1 .. 4 /\ element \in 1 .. 4
  BY DEF Tier
<1> HIDE DEF tier, element
<1>2. TierWeight[tier] \in Nat
  BY <1>1 DEF TierWeight
<1>3. \A p \in Phases : Shares[element][p + 1] \in Nat
  BY <1>1 DEF Shares, Phases
<1>4. \A p \in Phases : TierWeight[tier] * Shares[element][p + 1] \in Nat
  BY <1>2, <1>3
<1>5. spread \in [Phases -> Nat]
  BY <1>4
<1>6. WesternEntry(body, sign).distribution = spread
  BY DEF WesternEntry, Tabulated, tier, element
<1> QED BY <1>5, <1>6

(* And the western vector itself.                                          *)
LEMMA WesternIsNatural ==
  ASSUME NEW bodies, IsFiniteSet(DOMAIN bodies), \A x \in DOMAIN bodies : bodies[x] \in Int
  PROVE  WesternVector(WesternLedger(bodies, Failed)) \in [Phases -> Nat]
<1> DEFINE counted == Computed(bodies) \ Excluded
           entry == [x \in counted |-> WesternEntry(x, bodies[x])]
           ledger == WesternLedger(bodies, Failed)
           row(p) == [e \in ledger |-> e.distribution[p]]
<1>1. ledger = {WesternEntry(x, bodies[x]) : x \in counted}
  BY DEF WesternLedger
<1>2. counted \subseteq DOMAIN bodies
  BY DEF Computed
<1>3. IsFiniteSet(ledger)
  <2>1. IsFiniteSet(counted)
    BY <1>2, FS_Subset
  <2>2. ledger = {entry[x] : x \in counted}
    BY <1>1
  <2>3. entry \in Surjection(counted, ledger)
    <3> HIDE DEF counted, ledger
    <3> QED BY <1>1 DEF Surjection
  <2> HIDE DEF counted, ledger, entry
  <2> QED BY <2>1, <2>3, FS_Surjection
<1>4. \A e \in ledger : e.distribution \in [Phases -> Nat]
  <2> HIDE DEF counted, ledger
  <2> QED BY <1>1, <1>2, BodiesSpread
<1>5. ASSUME NEW p \in Phases PROVE SumFunction(row(p)) \in Nat
  <2> HIDE DEF ledger
  <2>1. DOMAIN row(p) = ledger /\ \A e \in ledger : row(p)[e] \in Nat
    BY <1>4
  <2> HIDE DEF row
  <2> QED BY <1>3, <2>1, SumOfNaturals
<1>6. WesternVector(ledger) = [p \in Phases |-> SumFunction(row(p))]
  BY DEF WesternVector, Tabulated
<1> HIDE DEF row, ledger
<1> QED BY <1>5, <1>6 DEF ledger

(* Rounding keeps a vector natural.                                        *)
LEMMA HundredthsAreNatural ==
  ASSUME NEW v \in [Phases -> Nat]
  PROVE  Hundredths(v) \in [Phases -> Nat]
<1>1. \A p \in Phases : v[p] \div 10000 \in Nat
  <2>1. ASSUME NEW n \in Nat PROVE n \div 10000 \in Nat
    OBVIOUS
  <2> QED BY <2>1
<1> QED BY <1>1 DEF Hundredths, Tabulated

(* Squares are natural, and positive of what is.                           *)
LEMMA SquareGrows ==
  ASSUME NEW n \in Nat
  PROVE  n * n \in Nat /\ (n > 0 => n * n > 0)
OBVIOUS

(* A vector scaled to length one is natural: its root is no zero.          *)
LEMMA UnitIsNatural ==
  ASSUME NEW v \in [Phases -> Nat]
  PROVE  Unit(v) \in [Phases -> Nat]
<1>1. CASE IsZero(v)
  BY <1>1 DEF Unit
<1>2. CASE ~IsZero(v)
  <2> DEFINE squares == [p \in Phases |-> v[p] * v[p]]
             length == LengthTimesHundred(v)
  <2>1. PICK p \in Phases : v[p] # 0
    BY <1>2 DEF IsZero
  <2>2. \A x \in Phases : v[x] * v[x] \in Nat
    BY SquareGrows
  <2>3. v[p] * v[p] > 0
    <3>1. v[p] \in Nat /\ v[p] > 0
      BY <2>1
    <3> QED BY <3>1, SquareGrows
  <2>4. /\ DOMAIN squares = Phases /\ \A x \in Phases : squares[x] \in Nat
        /\ squares[p] > 0
    BY <2>2, <2>3
  <2>5. Dot(v, v) = SumFunction(squares)
    BY DEF Dot
  <2> HIDE DEF squares
  <2>6. Dot(v, v) \in Nat /\ squares[p] <= Dot(v, v)
    BY <2>4, <2>5, SomeAreFinite, SumOfNaturals
  <2>7. 10000 * Dot(v, v) \in Nat /\ 10000 * Dot(v, v) > 0
    <3> DEFINE n == Dot(v, v)
    <3>1. n \in Nat /\ n > 0
      BY <2>4, <2>6
    <3> HIDE DEF n
    <3>2. 10000 * n \in Nat /\ 10000 * n > 0
      BY <3>1
    <3> QED BY <3>2 DEF n
  <2>8. length \in Nat \ {0}
    BY <2>7, RootOfPositive DEF LengthTimesHundred
  <2>9. Unit(v) = [x \in Phases |-> (10000 * v[x]) \div length]
    BY <1>2 DEF Unit, Tabulated
  <2> HIDE DEF length
  <2>10. ASSUME NEW x \in Phases PROVE (10000 * v[x]) \div length \in Nat
    <3> DEFINE n == 10000 * v[x]
    <3>1. n \in Nat
      OBVIOUS
    <3> HIDE DEF n
    <3>2. n \div length \in Nat
      BY <3>1, <2>8
    <3> QED BY <3>2 DEF n
  <2> QED BY <2>9, <2>10
<1> QED BY <1>1, <1>2

-----------------------------------------------------------------------------
(* A diagnosis the other way round.                                        *)

(* A zone is a matter of both vectors alike.                               *)
LEMMA ZonesMirrored ==
  ASSUME NEW w \in [Phases -> Int], NEW b \in [Phases -> Int]
  PROVE  ClassifyZones(w, b) = ClassifyZones(b, w)
<1>1. ASSUME NEW x \in Int, NEW y \in Int PROVE ZoneOf(x, y) = ZoneOf(y, x)
  <2>1. Magnitude(x - y) = Magnitude(y - x)
    BY DEF Magnitude
  <2> QED BY <2>1 DEF ZoneOf
<1>2. \A p \in Phases : ZoneOf(w[p], b[p]) = ZoneOf(b[p], w[p])
  BY <1>1
<1> QED BY <1>2 DEF ClassifyZones, Tabulated

(* The tension questions of a report.                                      *)
Tensions(w, b) == Report(w, b).questions.tension
(* There is one for each phase in tension.                                 *)
LEMMA TensionsAre ==
  ASSUME NEW w, NEW b
  PROVE  Tensions(w, b) = {TensionQuestion(p, w[p] - b[p]) :
                               p \in {q \in Phases : ClassifyZones(w, b)[q] = "TENSION"}}
<1> DEFINE zone == ClassifyZones(w, b)
           tension == {TensionQuestion(p, w[p] - b[p]) : p \in {q \in Phases : zone[q] = "TENSION"}}
           development == {DevelopmentQuestion(p) : p \in {q \in Phases : zone[q] = "DEVELOPMENT"}}
           questions == [tension |-> tension, development |-> development]
           In(z) == {p \in Phases : zone[p] = z}
           strong == In("STRENGTH")
           tense == In("TENSION")
           weak == In("DEVELOPMENT")
<1>1. Leitfragen(w, b) = questions
  BY DEF Leitfragen
<1>2. Report(w, b) = [strength |-> strong, tension |-> tense, development |-> weak,
                      questions |-> Leitfragen(w, b)]
  BY DEF Report
<1> HIDE DEF tension, development, strong, tense, weak
<1>3. questions.tension = tension
  OBVIOUS
<1>4. Report(w, b).questions = Leitfragen(w, b)
  BY <1>2
<1> HIDE DEF questions
<1> QED BY <1>1, <1>3, <1>4 DEF Tensions, tension

(* Which side each is about.                                               *)
QuestionSides(tensions) == {[phase |-> t.phase, side |-> t.side] : t \in tensions}
(* And the side across.                                                    *)
MirroredSides(tensions) == {[phase |-> t.phase, side |-> Other(t.side)] : t \in tensions}

(* Turned around, each question changes its side.                          *)
LEMMA TensionsMirrored ==
  ASSUME NEW w \in [Phases -> Int], NEW b \in [Phases -> Int]
  PROVE  QuestionSides(Tensions(w, b)) = MirroredSides(Tensions(b, w))
<1> DEFINE Tense == {q \in Phases : ClassifyZones(w, b)[q] = "TENSION"}
           Mine(p) == TensionQuestion(p, w[p] - b[p])
           Yours(p) == TensionQuestion(p, b[p] - w[p])
<1>1. Tensions(w, b) = {Mine(p) : p \in Tense}
  BY TensionsAre
<1>2. Tensions(b, w) = {Yours(p) : p \in Tense}
  BY TensionsAre, ZonesMirrored
<1>3. ASSUME NEW p \in Phases
      PROVE  Mine(p).phase = Yours(p).phase /\ Mine(p).side = Other(Yours(p).side)
  <2> DEFINE d == w[p] - b[p]
             e == b[p] - w[p]
             Side(x) == IF x > 0 THEN "west" ELSE IF x < 0 THEN "bazi" ELSE "even"
             Points(x) == IF x > 0 THEN {ShengInverse(p), Sheng(p)} ELSE {Sheng(p)}
  <2>1. d \in Int /\ e = -d
    OBVIOUS
  <2>2. \A x : TensionQuestion(p, x) = [phase |-> p, side |-> Side(x), points |-> Points(x)]
    BY DEF TensionQuestion
  <2> HIDE DEF d, e
  <2>3. Side(d) = Other(Side(e))
    BY <2>1 DEF Other
  <2> HIDE DEF Side, Points
  <2>4. \A x : TensionQuestion(p, x).phase = p /\ TensionQuestion(p, x).side = Side(x)
    BY <2>2
  <2> QED BY <2>3, <2>4 DEF d, e
<1> HIDE DEF Mine, Yours, Tense
<1>4. Tense \subseteq Phases
  BY DEF Tense
<1>5. QuestionSides(Tensions(w, b)) = {[phase |-> Mine(p).phase, side |-> Mine(p).side] : p \in Tense}
  BY <1>1 DEF QuestionSides
<1>6. MirroredSides(Tensions(b, w))
          = {[phase |-> Yours(p).phase, side |-> Other(Yours(p).side)] : p \in Tense}
  BY <1>2 DEF MirroredSides
<1>7. \A p \in Tense : [phase |-> Mine(p).phase, side |-> Mine(p).side]
                       = [phase |-> Yours(p).phase, side |-> Other(Yours(p).side)]
  BY <1>3, <1>4
<1> QED BY <1>5, <1>6, <1>7

(* So do the tensions across.                                              *)
LEMMA CrossMirrored ==
  ASSUME NEW w, NEW b
  PROVE  {<<Other(t[1]), t[2]>> : t \in CrossTensions(w, b)} = CrossTensions(b, w)
<1> DEFINE Here == {q \in Phases : Strong(w, q) /\ Strong(b, Ke(q))}
           There == {q \in Phases : Strong(b, q) /\ Strong(w, Ke(q))}
           Swap(t) == <<Other(t[1]), t[2]>>
<1>1. CrossTensions(w, b) = {<<"west", p>> : p \in Here} \cup {<<"bazi", p>> : p \in There}
  BY DEF CrossTensions
<1>2. CrossTensions(b, w) = {<<"west", p>> : p \in There} \cup {<<"bazi", p>> : p \in Here}
  BY DEF CrossTensions
<1>3. \A p : Swap(<<"west", p>>) = <<"bazi", p>> /\ Swap(<<"bazi", p>>) = <<"west", p>>
  BY DEF Other
<1> HIDE DEF Here, There, Swap
<1>4. {Swap(t) : t \in CrossTensions(w, b)} \subseteq CrossTensions(b, w)
  BY <1>1, <1>2, <1>3
<1>5. CrossTensions(b, w) \subseteq {Swap(t) : t \in CrossTensions(w, b)}
  <2>1. ASSUME NEW p \in There PROVE <<"west", p>> \in {Swap(t) : t \in CrossTensions(w, b)}
    BY <1>1, <1>3, <2>1
  <2>2. ASSUME NEW p \in Here PROVE <<"bazi", p>> \in {Swap(t) : t \in CrossTensions(w, b)}
    BY <1>1, <1>3, <2>2
  <2> QED BY <1>2, <2>1, <2>2
<1>6. {Swap(t) : t \in CrossTensions(w, b)} = CrossTensions(b, w)
  BY <1>4, <1>5
<1> QED BY <1>6 DEF Swap

(* What is in a diagnosis.                                                 *)
LEMMA DiagnosisIs ==
  ASSUME NEW bodies, NEW chart, NEW d, d = Diagnosis(bodies, chart),
         NEW w, w = Unit(Hundredths(WesternVector(WesternLedger(bodies, Failed)))),
         NEW b, b = Unit(BaziVector(chart))
  PROVE  d.west = w /\ d.bazi = b /\ d.zones = ClassifyZones(w, b) /\ d.report = Report(w, b)
<1> DEFINE west == WesternVector(WesternLedger(bodies, Failed))
           bazi == BaziVector(chart)
           dominantWest == Dominant(west)
           dominantBazi == Dominant(bazi)
           calibration == Calibrate(Cosine(west, bazi), bodies, chart, west, bazi)
           zones == ClassifyZones(w, b)
           report == Report(w, b)
           ke == KeSummary(Hundredths(west), bazi)
<1>1. d = [west |-> w, bazi |-> b, dominantWest |-> dominantWest, dominantBazi |-> dominantBazi,
           calibration |-> calibration, zones |-> zones, report |-> report, ke |-> ke]
  BY DEF Diagnosis
<1> HIDE DEF dominantWest, dominantBazi, calibration, zones, report, ke
<1>2. d.west = w /\ d.bazi = b /\ d.zones = zones /\ d.report = report
  BY <1>1
<1> QED BY <1>2 DEF zones, report

(* There are finitely many planets.                                        *)
LEMMA PlanetsAreFinite == IsFiniteSet(Planets)
<1> DEFINE all == {} \cup {"Sun"} \cup {"Moon"} \cup {"Mercury"} \cup {"Venus"} \cup {"Mars"}
               \cup {"Jupiter"} \cup {"Saturn"} \cup {"Uranus"} \cup {"Neptune"} \cup {"Pluto"}
               \cup {"Chiron"} \cup {"Lilith"} \cup {"NorthNode"} \cup {"TrueNorthNode"}
<1>1. ASSUME NEW S, IsFiniteSet(S), NEW x PROVE IsFiniteSet(S \cup {x})
  BY <1>1, FS_AddElement
<1>2. IsFiniteSet({})
  BY FS_EmptySet
<1>3. IsFiniteSet(all)
  BY <1>1, <1>2
<1> QED BY <1>3 DEF Planets

(* A diagnosis does not depend on which vector comes first.                *)
LEMMA DiagnosesMirrored ==
  ASSUME Settings, AnswersSaid, NEW q \in AnsweredBy({"diagnosis"})
  PROVE  DiagnosisMirrored(Body(q))
<1> DEFINE a == asked
           c == Births[birth]
           e == answers[q].eph
           r == WesternOf(c, a, Found(e, "western"))
           s == BaziOf(c, a, "midnight", Found(e, "bazi"))
           u == InstantOf(c, a)
           sky == BodiesAt(c, u)
           chart == Chart(c, u, a.standard, "midnight")
<1>1. c \in BirthType /\ a \in Requests
  BY ClientAsks
<1>2. /\ r.error = "none" /\ s.error = "none"
      /\ answers[q].answer = Answer(Diagnosis(r.value.bodies, s.value.chart))
      /\ Body(q) = answers[q].answer.body
  BY EntrySaid DEF Said, ChartSaid, Fails
<1> HIDE DEF a, c, e
<1>3. Resolve(c, a).error = "none" /\ r.value.bodies = sky
  BY <1>2, WesternOfSays
<1>4. s.value.chart = chart
  BY <1>1, <1>2, BaziOfSays
<1>5. u \in Int
  BY <1>1, <1>3, ReadAgain
<1> HIDE DEF r, s, u, sky, chart
<1> DEFINE d == Diagnosis(sky, chart)
<1>6. Body(q) = d
  BY <1>2, <1>3, <1>4, AnswerSays
<1>7. DOMAIN chart = 1 .. 4 /\ \A i \in 1 .. 4 : chart[i] \in Pillar
  <2>1. a.standard \in {"CIVIL", "LMT", "TLST"}
    BY <1>1 DEF Requests
  <2> QED BY <1>1, <1>5, <2>1, ChartHasPillars DEF chart
<1>8. IsFiniteSet(DOMAIN sky) /\ \A x \in DOMAIN sky : sky[x] \in Int
  <2>1. c.bodies \in BodiesType
    <3> HIDE DEF c, a, e, r, s, u, sky, chart
    <3> QED BY <1>1, BirthFields
  <2>2. ASSUME NEW x \in Planets PROVE SignAt(c.bodies[x], u) \in Int
    <3> HIDE DEF c, u
    <3>1. c.bodies[x].sign \in -1 .. 11
      BY <2>1, BodySign
    <3> DEFINE sign == c.bodies[x].sign
    <3>2. (sign + 1) % 12 \in Int
      BY <3>1
    <3> QED BY <3>1, <3>2 DEF SignAt
  <2>3. sky = [x \in Planets |-> SignAt(c.bodies[x], u)]
    <3> HIDE DEF c, u
    <3>1. DOMAIN c.bodies = Planets
      BY <2>1 DEF BodiesType
    <3>2. sky = [x \in DOMAIN c.bodies |-> SignAt(c.bodies[x], u)]
      BY DEF sky, BodiesAt, Tabulated
    <3> QED BY <3>1, <3>2
  <2>4. DOMAIN sky = Planets /\ \A x \in Planets : sky[x] \in Int
    BY <2>2, <2>3
  <2>5. IsFiniteSet(Planets)
    BY PlanetsAreFinite
  <2> QED BY <2>4, <2>5
<1> DEFINE w == Unit(Hundredths(WesternVector(WesternLedger(sky, Failed))))
           b == Unit(BaziVector(chart))
<1>9. w \in [Phases -> Nat] /\ b \in [Phases -> Nat]
  <2>1. BaziVector(chart) \in [Phases -> Nat]
    BY <1>7, BaziIsNatural
  <2>2. WesternVector(WesternLedger(sky, Failed)) \in [Phases -> Nat]
    BY <1>8, WesternIsNatural
  <2>3. Hundredths(WesternVector(WesternLedger(sky, Failed))) \in [Phases -> Nat]
    BY <2>2, HundredthsAreNatural
  <2> QED BY <2>1, <2>3, UnitIsNatural
<1>10. d.west = w /\ d.bazi = b /\ d.zones = ClassifyZones(w, b) /\ d.report = Report(w, b)
  BY DiagnosisIs
<1> HIDE DEF d, w, b
<1>11. w \in [Phases -> Int] /\ b \in [Phases -> Int]
  BY <1>9
<1>12. d.zones = ClassifyZones(b, w)
  BY <1>10, <1>11, ZonesMirrored
<1>13. QuestionSides(d.report.questions.tension)
           = MirroredSides(Report(b, w).questions.tension)
  BY <1>10, <1>11, TensionsMirrored DEF Tensions
<1>14. {<<Other(t[1]), t[2]>> : t \in CrossTensions(d.west, d.bazi)}
           = CrossTensions(d.bazi, d.west)
  BY CrossMirrored
<1> QED BY <1>6, <1>10, <1>12, <1>13, <1>14 DEF DiagnosisMirrored, QuestionSides, MirroredSides

(* Who is named first makes no difference but to the sides, of a pair      *)
(* analysis and of a diagnosis (match/pair.py and individual.py,           *)
(* wuxing/zones.py), whatever the ephemeris did between two questions.     *)
THEOREM PairsMirrored == Spec => []PairMirrored
<1>1. IInv => PairMirrored
  BY MatchesMirrored, DiagnosesMirrored DEF IInv, PairMirrored
<1> QED BY <1>1, InvAlways, PTL

-----------------------------------------------------------------------------
-----------------------------------------------------------------------------
(* The evidence of a pair analysis.                                        *)

(* A warning is noted unless it was.                                       *)
Noted(seen, w) == IF Contains(seen, w) THEN seen ELSE Append(seen, w)
(* The function that warnings are folded with.                             *)
Dedupes(g, ws) == g = [s \in SUBSET (DOMAIN ws) |->
                          IF s = {} THEN << >>
                          ELSE LET x == Max(s) IN Noted(g[s \ {x}], ws[x])]

(* Noting keeps the warnings apart.                                        *)
LEMMA NotedOnce ==
  ASSUME NEW W, NEW seen \in Seq(W), NEW w \in W, IsInjective(seen)
  PROVE  /\ Noted(seen, w) \in Seq(W) /\ IsInjective(Noted(seen, w))
         /\ Range(Noted(seen, w)) = Range(seen) \cup {w}
<1>1. CASE Contains(seen, w)
  <2>1. w \in Range(seen)
    BY <1>1 DEF Contains, Range
  <2> QED BY <1>1, <2>1 DEF Noted
<1>2. CASE ~Contains(seen, w)
  <2> DEFINE more == Append(seen, w)
  <2>1. /\ more \in Seq(W) /\ Len(more) = Len(seen) + 1
        /\ \A i \in 1 .. Len(seen) : more[i] = seen[i]
        /\ more[Len(seen) + 1] = w
    BY AppendProperties
  <2>2. /\ Len(seen) \in Nat /\ DOMAIN seen = 1 .. Len(seen)
        /\ DOMAIN more = 1 .. Len(seen) + 1
    BY <2>1
  <2>3. \A i \in 1 .. Len(seen) : seen[i] # w
    BY <1>2 DEF Contains
  <2> HIDE DEF more
  <2>4. IsInjective(more)
    <3>1. ASSUME NEW i \in DOMAIN more, NEW j \in DOMAIN more, more[i] = more[j] PROVE i = j
      <4>1. (i \in 1 .. Len(seen) \/ i = Len(seen) + 1) /\ (j \in 1 .. Len(seen) \/ j = Len(seen) + 1)
        BY <2>2
      <4> QED BY <2>1, <2>2, <2>3, <3>1, <4>1 DEF IsInjective
    <3> QED BY <3>1 DEF IsInjective
  <2>5. Range(more) = Range(seen) \cup {w}
    <3>1. \A i \in DOMAIN more : i \in DOMAIN seen \/ i = Len(seen) + 1
      BY <2>2
    <3>2. /\ \A i \in DOMAIN seen : i \in DOMAIN more /\ more[i] = seen[i]
          /\ Len(seen) + 1 \in DOMAIN more
      BY <2>1, <2>2
    <3> QED BY <2>1, <3>1, <3>2 DEF Range
  <2> QED BY <1>2, <2>1, <2>4, <2>5 DEF Noted, more
<1> QED BY <1>1, <1>2

(* Of all warnings each is left, once.                                     *)
LEMMA DedupeIs ==
  ASSUME NEW W, NEW ws \in Seq(W)
  PROVE  /\ DedupeWarnings(ws) \in Seq(W) /\ IsInjective(DedupeWarnings(ws))
         /\ Range(DedupeWarnings(ws)) = Range(ws)
<1> DEFINE S == DOMAIN ws
           pick == [s \in SUBSET S |-> Max(s)]
           step == [x \in S |-> [v \in Seq(W) |-> Noted(v, ws[x])]]
           Says(g, s) == /\ g[s] \in Seq(W) /\ IsInjective(g[s])
                         /\ Range(g[s]) = {ws[k] : k \in s}
           said == CHOOSE g : Dedupes(g, ws)
<1>1. Len(ws) \in Nat /\ S = 1 .. Len(ws) /\ \A x \in S : ws[x] \in W
  OBVIOUS
<1>2. IsFiniteSet(S)
  <2>1. 1 \in Int /\ Len(ws) \in Int
    BY <1>1
  <2> HIDE DEF S
  <2> QED BY <1>1, <2>1, FS_Interval
<1> HIDE DEF S
<1>3. \A s \in SUBSET S : s # {} => Max(s) \in s
  BY <1>1, GreatestIsIn
<1>4. \A s \in SUBSET S : s # {} => pick[s] \in s
  BY <1>3
<1>5. PICK g : Folds(g, S, pick, << >>, step)
  <2> HIDE DEF step, pick
  <2> QED BY <1>2, <1>4, FoldExists
<1>6. \A s \in SUBSET S : g[s] = IF s = {} THEN << >> ELSE step[pick[s]][g[s \ {pick[s]}]]
  <2> HIDE DEF step, pick
  <2> QED BY <1>5 DEF Folds
<1>7. /\ << >> \in Seq(W) /\ IsInjective(<< >>) /\ Range(<< >>) = {}
  BY DEF IsInjective, Range
<1>8. \A s \in SUBSET S : Says(g, s)
  <2> DEFINE Good == {s \in SUBSET S : Says(g, s)}
  <2>1. ASSUME NEW s \in SUBSET S, \A x \in s : s \ {x} \in Good
        PROVE  s \in Good
    <3>1. CASE s = {}
      <4> HIDE DEF step, pick
      <4>1. g[s] = << >>
        BY <1>6, <3>1
      <4> QED BY <1>7, <3>1, <4>1
    <3>2. CASE s # {}
      <4> DEFINE x == pick[s]
                 before == g[s \ {x}]
      <4>1. x \in s /\ g[s] = step[x][before]
        <5> HIDE DEF step, pick
        <5> QED BY <1>4, <1>6, <3>2
      <4> HIDE DEF x
      <4>2. Says(g, s \ {x})
        BY <2>1, <4>1
      <4> HIDE DEF before
      <4>3. before \in Seq(W) /\ IsInjective(before) /\ Range(before) = {ws[k] : k \in s \ {x}}
        BY <4>2 DEF before
      <4>4. x \in S /\ ws[x] \in W
        BY <1>1, <4>1
      <4>5. step[x][before] = Noted(before, ws[x])
        BY <4>3, <4>4
      <4> HIDE DEF step
      <4> DEFINE w == ws[x]
                 after == Noted(before, w)
      <4>6. after \in Seq(W) /\ IsInjective(after) /\ Range(after) = Range(before) \cup {w}
        <5> HIDE DEF w
        <5>1. w \in W
          BY <4>4 DEF w
        <5> QED BY <4>3, <5>1, NotedOnce
      <4>7. {ws[k] : k \in s \ {x}} \cup {ws[x]} = {ws[k] : k \in s}
        BY <4>1
      <4>8. g[s] = after
        BY <4>1, <4>5
      <4> HIDE DEF after
      <4> QED BY <4>3, <4>6, <4>7, <4>8
    <3> QED BY <3>1, <3>2
  <2> HIDE DEF Good
  <2>2. \A s \in SUBSET S : s \in Good
    BY <1>2, <2>1, SubsetInduction
  <2> HIDE DEF Says
  <2> QED BY <2>2 DEF Good
<1>9. Dedupes(g, ws)
  <2>1. ASSUME NEW s \in SUBSET S, s # {}
        PROVE  g[s] = LET x == Max(s) IN Noted(g[s \ {x}], ws[x])
    <3> DEFINE x == pick[s]
               before == g[s \ {x}]
    <3>1. x \in s /\ g[s] = step[x][before] /\ x = Max(s)
      <4>1. pick[s] = Max(s)
        OBVIOUS
      <4> HIDE DEF step, pick
      <4> QED BY <1>4, <1>6, <2>1, <4>1
    <3> HIDE DEF x
    <3>2. before \in Seq(W)
      BY <1>8
    <3>3. step[x][before] = Noted(before, ws[x])
      <4> HIDE DEF before
      <4> QED BY <3>1, <3>2
    <3> HIDE DEF step
    <3> QED BY <3>1, <3>3
  <2> HIDE DEF step, pick
  <2>2. g = [s \in SUBSET S |-> IF s = {} THEN << >> ELSE step[pick[s]][g[s \ {pick[s]}]]]
    BY <1>5 DEF Folds
  <2> QED BY <1>6, <2>1, <2>2 DEF Dedupes, S
<1>10. Dedupes(said, ws)
  <2> HIDE DEF step, pick, Says
  <2> QED BY <1>9
<1>11. DedupeWarnings(ws) = said[S]
  BY DEF DedupeWarnings, FoldLeft, MapThenFoldSet, Dedupes, Noted, S
<1> HIDE DEF said, step, pick
<1>12. \A s \in SUBSET S : Says(said, s)
  <2> DEFINE Good == {s \in SUBSET S : Says(said, s)}
  <2>1. ASSUME NEW s \in SUBSET S, \A x \in s : s \ {x} \in Good
        PROVE  s \in Good
    <3>1. CASE s = {}
      <4>1. said[s] = << >>
        BY <1>10, <3>1 DEF Dedupes, S
      <4> QED BY <1>7, <3>1, <4>1
    <3>2. CASE s # {}
      <4> DEFINE x == Max(s)
                 before == said[s \ {x}]
      <4>1. x \in s /\ said[s] = Noted(before, ws[x])
        BY <1>3, <1>10, <3>2 DEF Dedupes, S
      <4> HIDE DEF x
      <4>2. Says(said, s \ {x})
        BY <2>1, <4>1
      <4> HIDE DEF before
      <4>3. before \in Seq(W) /\ IsInjective(before) /\ Range(before) = {ws[k] : k \in s \ {x}}
        BY <4>2 DEF before
      <4>4. x \in S /\ ws[x] \in W
        BY <1>1, <4>1
      <4> DEFINE w == ws[x]
                 after == Noted(before, w)
      <4>5. after \in Seq(W) /\ IsInjective(after) /\ Range(after) = Range(before) \cup {w}
        <5> HIDE DEF w
        <5>1. w \in W
          BY <4>4 DEF w
        <5> QED BY <4>3, <5>1, NotedOnce
      <4>6. {ws[k] : k \in s \ {x}} \cup {ws[x]} = {ws[k] : k \in s}
        BY <4>1
      <4>7. said[s] = after
        BY <4>1
      <4> HIDE DEF after
      <4> QED BY <4>3, <4>5, <4>6, <4>7
    <3> QED BY <3>1, <3>2
  <2> HIDE DEF Good
  <2>2. \A s \in SUBSET S : s \in Good
    BY <1>2, <2>1, SubsetInduction
  <2> HIDE DEF Says
  <2> QED BY <2>2 DEF Good
<1>13. Says(said, S) /\ Range(ws) = {ws[k] : k \in S}
  BY <1>12 DEF Range, S
<1> QED BY <1>11, <1>13

(* A sequence followed by another.                                         *)
Joined(s, t) == s \o t

(* Three sequences in a row.                                               *)
LEMMA FlattenThree ==
  ASSUME NEW r, NEW s, NEW t
  PROVE  FlattenSeq(<<r, s, t>>) = Joined(Joined(r, s), t)
<1> DEFINE all == <<r, s, t>>
           two == r \o s
           three == two \o t
           Flattens(g) == g = [i \in 1 .. 3 |-> IF i = 1 THEN all[i] ELSE g[i - 1] \o all[i]]
           flat == CHOOSE g : Flattens(g)
           some == <<r, two, three>>
<1>1. Len(all) = 3 /\ all[1] = r /\ all[2] = s /\ all[3] = t
  OBVIOUS
<1>2. FlattenSeq(all) = flat[3]
  <2> HIDE DEF all
  <2> QED BY <1>1 DEF FlattenSeq
<1> HIDE DEF all
<1>3. Flattens(some)
  <2>1. some[1] = all[1] /\ some[2] = some[1] \o all[2] /\ some[3] = some[2] \o all[3]
    BY <1>1
  <2>2. some = [i \in 1 .. 3 |-> some[i]]
    <3> HIDE DEF two, three
    <3> QED OBVIOUS
  <2> HIDE DEF some
  <2>3. \A i \in 1 .. 3 : some[i] = IF i = 1 THEN all[i] ELSE some[i - 1] \o all[i]
    <3>1. \A i \in 1 .. 3 : i = 1 \/ i = 2 \/ i = 3
      OBVIOUS
    <3>2. 2 - 1 = 1 /\ 3 - 1 = 2 /\ 2 # 1 /\ 3 # 1
      OBVIOUS
    <3> QED BY <2>1, <3>1, <3>2
  <2> QED BY <2>2, <2>3
<1> HIDE DEF some
<1>4. Flattens(flat)
  <2> HIDE DEF Flattens
  <2> QED BY <1>3
<1> HIDE DEF flat
<1>5. flat[1] = all[1] /\ flat[2] = flat[1] \o all[2] /\ flat[3] = flat[2] \o all[3]
  <2>1. \A i \in 1 .. 3 : flat[i] = IF i = 1 THEN all[i] ELSE flat[i - 1] \o all[i]
    BY <1>4
  <2>2. flat[1] = all[1]
    BY <2>1
  <2>3. ASSUME NEW i \in 1 .. 3, NEW j, j = i - 1, i # 1 PROVE flat[i] = flat[j] \o all[i]
    BY <2>1, <2>3
  <2>4. 2 \in 1 .. 3 /\ 1 = 2 - 1 /\ 2 # 1 /\ 3 \in 1 .. 3 /\ 2 = 3 - 1 /\ 3 # 1
    OBVIOUS
  <2>5. flat[2] = flat[1] \o all[2]
    BY <2>3, <2>4, Zenon
  <2>6. flat[3] = flat[2] \o all[3]
    BY <2>3, <2>4, Zenon
  <2> QED BY <2>2, <2>5, <2>6
<1> QED BY <1>1, <1>2, <1>5 DEF all, Joined

(* What is in one sequence or the other is in both joined.                 *)
LEMMA ConcatRange ==
  ASSUME NEW S, NEW s \in Seq(S), NEW t \in Seq(S)
  PROVE  s \o t \in Seq(S) /\ Range(s \o t) = Range(s) \cup Range(t)
<1> DEFINE both == s \o t
<1>1. /\ both \in Seq(S) /\ Len(both) = Len(s) + Len(t)
      /\ \A i \in 1 .. Len(s) + Len(t) : both[i] = IF i <= Len(s) THEN s[i] ELSE t[i - Len(s)]
  BY ConcatProperties
<1>2. /\ Len(s) \in Nat /\ Len(t) \in Nat /\ DOMAIN s = 1 .. Len(s) /\ DOMAIN t = 1 .. Len(t)
      /\ DOMAIN both = 1 .. Len(s) + Len(t)
  BY <1>1
<1> HIDE DEF both
<1>3. ASSUME NEW i \in DOMAIN both PROVE both[i] \in Range(s) \cup Range(t)
  <2>1. CASE i <= Len(s)
    BY <1>1, <1>2, <2>1 DEF Range
  <2>2. CASE i > Len(s)
    <3>1. i - Len(s) \in DOMAIN t /\ both[i] = t[i - Len(s)]
      BY <1>1, <1>2, <2>2
    <3> QED BY <3>1 DEF Range
  <2> QED BY <1>2, <2>1, <2>2
<1>4. ASSUME NEW i \in DOMAIN s PROVE s[i] \in Range(both)
  <2>1. i \in DOMAIN both /\ both[i] = s[i]
    BY <1>1, <1>2
  <2> QED BY <2>1 DEF Range
<1>5. ASSUME NEW i \in DOMAIN t PROVE t[i] \in Range(both)
  <2>1. i + Len(s) \in DOMAIN both /\ both[i + Len(s)] = t[i]
    BY <1>1, <1>2
  <2> QED BY <2>1 DEF Range
<1>6. Range(both) = Range(s) \cup Range(t)
  BY <1>3, <1>4, <1>5 DEF Range
<1> QED BY <1>1, <1>6 DEF both

(* The warning every person gets.                                          *)
Unanchored == Warning("DAY_ANCHOR_UNVERIFIED", "ruleset")
(* And the one about an unknown time.                                      *)
TimeUnknown(subject) == Warning("BIRTH_TIME_UNKNOWN", subject)

(* What is in a warning.                                                   *)
LEMMA WarningSays ==
  ASSUME NEW code, NEW subject
  PROVE  Warning(code, subject).code = code /\ Warning(code, subject).subject = subject
BY DEF Warning

(* The warnings about one person.                                          *)
LEMMA WarningsOfSay ==
  ASSUME NEW subject \in Subjects, NEW timeKnown
  PROVE  /\ WarningsOf(subject, timeKnown) \in Seq(WarningModel)
         /\ Range(WarningsOf(subject, timeKnown))
                = {Unanchored} \cup (IF timeKnown THEN {} ELSE {TimeUnknown(subject)})
<1> DEFINE u == Unanchored
           t == TimeUnknown(subject)
<1>1. u \in WarningModel /\ t \in WarningModel
  BY DEF Unanchored, TimeUnknown, Warning, WarningModel, Subjects
<1>2. WarningsOf(subject, timeKnown) = <<u>> \o (IF timeKnown THEN << >> ELSE <<t>>)
  BY DEF WarningsOf, Unanchored, TimeUnknown
<1> HIDE DEF u, t
<1>3. /\ <<u>> \in Seq(WarningModel) /\ <<t>> \in Seq(WarningModel)
      /\ << >> \in Seq(WarningModel)
  BY <1>1
<1>4. /\ Range(<<u>>) = {u} /\ Range(<<t>>) = {t} /\ Range(<< >>) = {}
  <2>1. ASSUME NEW x PROVE Range(<<x>>) = {x}
    <3>1. DOMAIN <<x>> = {1} /\ <<x>>[1] = x
      OBVIOUS
    <3> QED BY <3>1 DEF Range
  <2>2. Range(<< >>) = {}
    BY DEF Range
  <2> QED BY <2>1, <2>2
<1> DEFINE first == <<u>>
           second == <<t>>
           none == << >>
<1> HIDE DEF first, second, none
<1>5. CASE timeKnown
  <2>1. WarningsOf(subject, timeKnown) = first \o none
    BY <1>2, <1>5 DEF first, none
  <2>2. first \in Seq(WarningModel) /\ none \in Seq(WarningModel)
    BY <1>3 DEF first, none
  <2>3. Range(first) = {u} /\ Range(none) = {}
    BY <1>4 DEF first, none
  <2>4. first \o none \in Seq(WarningModel) /\ Range(first \o none) = Range(first) \cup Range(none)
    BY <2>2, ConcatRange
  <2> QED BY <1>5, <2>1, <2>3, <2>4 DEF u
<1>6. CASE ~timeKnown
  <2>1. WarningsOf(subject, timeKnown) = first \o second
    BY <1>2, <1>6 DEF first, second
  <2>2. first \in Seq(WarningModel) /\ second \in Seq(WarningModel)
    BY <1>3 DEF first, second
  <2>3. Range(first) = {u} /\ Range(second) = {t}
    BY <1>4 DEF first, second
  <2>4. first \o second \in Seq(WarningModel) /\ Range(first \o second) = Range(first) \cup Range(second)
    BY <2>2, ConcatRange
  <2> QED BY <1>6, <2>1, <2>3, <2>4 DEF u, t
<1> QED BY <1>5, <1>6

(* And about a pair: each once.                                            *)
LEMMA WarningsAre ==
  ASSUME NEW A, NEW B, NEW ws, ws = WarningsSaid(A, B)
  PROVE  /\ ws \in Seq(WarningModel) /\ IsInjective(ws)
         /\ Range(ws) = {Unanchored}
                \cup (IF A.asked.timeKnown THEN {} ELSE {TimeUnknown("person_a")})
                \cup (IF B.asked.timeKnown THEN {} ELSE {TimeUnknown("person_b")})
<1> DEFINE s == WarningsOf("person_a", A.asked.timeKnown)
           t == WarningsOf("person_b", B.asked.timeKnown)
<1>1. "person_a" \in Subjects /\ "person_b" \in Subjects
  BY DEF Subjects
<1>2. /\ s \in Seq(WarningModel)
      /\ Range(s) = {Unanchored}
             \cup (IF A.asked.timeKnown THEN {} ELSE {TimeUnknown("person_a")})
  BY <1>1, WarningsOfSay
<1>3. /\ t \in Seq(WarningModel)
      /\ Range(t) = {Unanchored}
             \cup (IF B.asked.timeKnown THEN {} ELSE {TimeUnknown("person_b")})
  BY <1>1, WarningsOfSay
<1>4. ws = DedupeWarnings(s \o t)
  BY DEF WarningsSaid
<1> HIDE DEF s, t
<1>5. s \o t \in Seq(WarningModel) /\ Range(s \o t) = Range(s) \cup Range(t)
  BY <1>2, <1>3, ConcatRange
<1>6. ws \in Seq(WarningModel) /\ IsInjective(ws) /\ Range(ws) = Range(s \o t)
  BY <1>4, <1>5, DedupeIs
<1> QED BY <1>2, <1>3, <1>5, <1>6

(* What is in a text block.                                                *)
LEMMA BlockSays ==
  ASSUME NEW id, NEW type, NEW status, NEW cited
  PROVE  Block(id, type, status, cited).id = id /\ Block(id, type, status, cited).evidence = cited
BY DEF Block

(* The names of the five statements about a pair.                          *)
StatementIds == << <<Layers[1], 1>>, <<Layers[1], 2>>, <<Layers[2], 1>>, <<Layers[2], 2>>,
                   <<Layers[3], 1>> >>
(* The layer each belongs to.                                              *)
LayerOf(k) == <<1, 1, 2, 2, 3>>[k]
(* The name of the block of a warning.                                     *)
IdOf(w) == <<"warnings", w.subject, w.code>>

(* A layer rests on itself.                                                *)
LEMMA LayerSays ==
  ASSUME NEW name, NEW facts, NEW status
  PROVE  Layer(name, facts, status).name = name
         /\ Layer(name, facts, status).evidence = {<<"pair", name>>}
<1> DEFINE cited == {<<"pair", name>>}
<1>1. Layer(name, facts, status) = [name |-> name, facts |-> facts, status |-> status, evidence |-> cited]
  BY DEF Layer
<1> HIDE DEF cited
<1>2. Layer(name, facts, status).name = name /\ Layer(name, facts, status).evidence = cited
  BY <1>1
<1> QED BY <1>2 DEF cited

(* The three layers of an analysis.                                        *)
LEMMA PairLayers ==
  ASSUME NEW a, NEW b, NEW pair, pair = AnalyzePair(a, b)
  PROVE  /\ DOMAIN pair = 1 .. 3
         /\ \A k \in 1 .. 3 : /\ pair[k].name = Layers[k]
                              /\ pair[k].evidence = {<<"pair", Layers[k]>>}
<1> DEFINE one == DayMasterLayer(a, b)
           two == SpousePalaceLayer(a, b)
           three == VectorLayer(a, b)
<1>1. pair = <<one, two, three>>
  BY DEF AnalyzePair
<1>2. one.name = Layers[1] /\ one.evidence = {<<"pair", Layers[1]>>}
  BY LayerSays DEF DayMasterLayer
<1>3. two.name = Layers[2] /\ two.evidence = {<<"pair", Layers[2]>>}
  BY LayerSays DEF SpousePalaceLayer
<1>4. three.name = Layers[3] /\ three.evidence = {<<"pair", Layers[3]>>}
  BY LayerSays DEF VectorLayer
<1> HIDE DEF one, two, three
<1>5. DOMAIN pair = 1 .. 3 /\ pair[1] = one /\ pair[2] = two /\ pair[3] = three
  BY <1>1
<1>6. \A k \in 1 .. 3 : k = 1 \/ k = 2 \/ k = 3
  OBVIOUS
<1> QED BY <1>2, <1>3, <1>4, <1>5, <1>6

(* The statements of a layer rest on what the layer rests on.              *)
LEMMA StatementsSay ==
  ASSUME NEW layer, NEW k \in 1 .. 3, layer.name = Layers[k]
  PROVE  /\ DOMAIN StatementsOf(layer) = IF k = 3 THEN 1 .. 1 ELSE 1 .. 2
         /\ StatementsOf(layer) \in Seq(Range(StatementsOf(layer)))
         /\ \A i \in DOMAIN StatementsOf(layer) :
                /\ StatementsOf(layer)[i].id = <<Layers[k], i>>
                /\ StatementsOf(layer)[i].evidence = layer.evidence
<1> DEFINE name == layer.name
           cited == layer.evidence
           fact == Block(<<name, 1>>, "CALCULATED_FACT", "CALCULATED", cited)
           rule == Block(<<name, 2>>, "RULE_APPLICATION", "CALCULATED", cited)
           source == Block(<<name, 2>>, "SOURCE_STATUS", "NEEDS_DOMAIN_REVIEW", cited)
<1>1. /\ fact.id = <<name, 1>> /\ fact.evidence = cited
      /\ rule.id = <<name, 2>> /\ rule.evidence = cited
      /\ source.id = <<name, 2>> /\ source.evidence = cited
  BY BlockSays
<1>2. k \in {1, 2, 3} /\ Layers[1] # Layers[2] /\ Layers[1] # Layers[3] /\ Layers[2] # Layers[3]
  BY DEF Layers
<1>3. StatementsOf(layer) = IF k = 1 THEN <<fact, rule>>
                            ELSE IF k = 2 THEN <<fact, source>> ELSE <<fact>>
  <2> HIDE DEF fact, rule, source
  <2> USE DEF name
  <2>1. CASE k = 1
    BY <1>2, <2>1 DEF StatementsOf, fact, rule, source
  <2>2. CASE k = 2
    BY <1>2, <2>2 DEF StatementsOf, fact, rule, source
  <2>3. CASE k = 3
    BY <1>2, <2>3 DEF StatementsOf, fact, rule, source
  <2> QED BY <1>2, <2>1, <2>2, <2>3
<1>4. name = Layers[k]
  OBVIOUS
<1> HIDE DEF fact, rule, source, name, cited
<1>5. CASE k = 3
  <2>1. StatementsOf(layer) = <<fact>>
    BY <1>3, <1>5
  <2>2. DOMAIN <<fact>> = 1 .. 1 /\ <<fact>>[1] = fact
    OBVIOUS
  <2> QED BY <1>1, <1>4, <1>5, <2>1, <2>2 DEF cited, Range
<1>6. CASE k # 3
  <2>1. PICK other : /\ StatementsOf(layer) = <<fact, other>>
                     /\ other.id = <<name, 2>> /\ other.evidence = cited
    BY <1>1, <1>2, <1>3, <1>6
  <2>2. DOMAIN <<fact, other>> = 1 .. 2 /\ <<fact, other>>[1] = fact /\ <<fact, other>>[2] = other
    OBVIOUS
  <2>3. \A i \in 1 .. 2 : i = 1 \/ i = 2
    OBVIOUS
  <2> QED BY <1>1, <1>4, <1>6, <2>1, <2>2, <2>3 DEF cited, Range
<1> QED BY <1>5, <1>6

(* A sequence over its range is one over anything larger.                  *)
LEMMA OverMore ==
  ASSUME NEW s, s \in Seq(Range(s)), NEW V, Range(s) \subseteq V
  PROVE  s \in Seq(V)
<1> DEFINE R == Range(s)
<1>1. s \in Seq(R) /\ R \subseteq V
  OBVIOUS
<1> HIDE DEF R
<1> QED BY <1>1

(* A sequence is one over its range.                                       *)
LEMMA OverItsRange ==
  ASSUME NEW V, NEW s \in Seq(V)
  PROVE  s \in Seq(Range(s))
<1> DEFINE R == Range(s)
<1>1. Len(s) \in Nat /\ DOMAIN s = 1 .. Len(s) /\ s = [i \in 1 .. Len(s) |-> s[i]]
  OBVIOUS
<1>2. \A i \in 1 .. Len(s) : s[i] \in R
  BY <1>1 DEF Range
<1> HIDE DEF R
<1>3. s \in Seq(R)
  BY <1>1, <1>2
<1> QED BY <1>3 DEF R

(* A sequence over a set.                                                  *)
Over(s, V) == s \in Seq(V)

(* One sequence is two others in a row.                                    *)
Appends(whole, s, t) ==
    /\ Len(whole) = Len(s) + Len(t)
    /\ \A i \in 1 .. Len(s) : whole[i] = s[i]
    /\ \A i \in 1 .. Len(t) : whole[Len(s) + i] = t[i]

(* Joined sequences are that.                                              *)
LEMMA ConcatSays ==
  ASSUME NEW V, NEW s, NEW t, Over(s, V), Over(t, V)
  PROVE  Over(Joined(s, t), V) /\ Appends(Joined(s, t), s, t)
<1> DEFINE both == s \o t
<1> USE DEF Over
<1>1. /\ both \in Seq(V) /\ Len(both) = Len(s) + Len(t)
      /\ \A i \in 1 .. Len(s) + Len(t) : both[i] = IF i <= Len(s) THEN s[i] ELSE t[i - Len(s)]
  BY ConcatProperties
<1>2. Len(s) \in Nat /\ Len(t) \in Nat
  OBVIOUS
<1> HIDE DEF both
<1>3. \A i \in 1 .. Len(s) : both[i] = s[i]
  BY <1>1, <1>2
<1>4. ASSUME NEW i \in 1 .. Len(t) PROVE both[Len(s) + i] = t[i]
  <2>1. Len(s) + i \in 1 .. Len(s) + Len(t) /\ ~(Len(s) + i <= Len(s)) /\ (Len(s) + i) - Len(s) = i
    BY <1>2
  <2> QED BY <1>1, <2>1
<1> HIDE DEF Over
<1>5. Appends(both, s, t)
  BY <1>1, <1>3, <1>4 DEF Appends
<1>6. both = Joined(s, t) /\ Over(both, V)
  BY <1>1 DEF both, Joined, Over
<1> HIDE DEF both
<1> QED BY <1>5, <1>6

(* All statements about a pair.                                            *)
Statements(pair) == FlattenSeq([k \in DOMAIN pair |-> StatementsOf(pair[k])])

(* They are five, with these names, resting on these layers.               *)
LEMMA StatementsAre ==
  ASSUME NEW a, NEW b, NEW pair, pair = AnalyzePair(a, b),
         NEW all, all = Statements(pair)
  PROVE  /\ all \in Seq(Range(all)) /\ Len(all) = 5
         /\ \A i \in 1 .. 5 : /\ all[i].id = StatementIds[i]
                              /\ all[i].evidence = {<<"pair", Layers[LayerOf(i)]>>}
<1> DEFINE one == StatementsOf(pair[1])
           two == StatementsOf(pair[2])
           three == StatementsOf(pair[3])
           each == [k \in DOMAIN pair |-> StatementsOf(pair[k])]
           V == Range(one) \cup Range(two) \cup Range(three)
           early == Joined(one, two)
<1>1. /\ DOMAIN pair = 1 .. 3
      /\ \A k \in 1 .. 3 : /\ pair[k].name = Layers[k]
                           /\ pair[k].evidence = {<<"pair", Layers[k]>>}
  BY PairLayers
<1>2. /\ DOMAIN one = 1 .. 2 /\ one \in Seq(Range(one))
      /\ \A i \in 1 .. 2 : /\ one[i].id = <<Layers[1], i>>
                           /\ one[i].evidence = {<<"pair", Layers[1]>>}
  <2> DEFINE layer == pair[1]
             said == StatementsOf(layer)
  <2>1. layer.name = Layers[1] /\ layer.evidence = {<<"pair", Layers[1]>>}
    BY <1>1
  <2> HIDE DEF layer
  <2>2. /\ DOMAIN said = 1 .. 2 /\ said \in Seq(Range(said))
        /\ \A i \in 1 .. 2 : said[i].id = <<Layers[1], i>> /\ said[i].evidence = layer.evidence
    BY <2>1, StatementsSay
  <2> HIDE DEF said
  <2>3. said = one
    BY DEF said, layer
  <2> QED BY <2>1, <2>2, <2>3
<1>3. /\ DOMAIN two = 1 .. 2 /\ two \in Seq(Range(two))
      /\ \A i \in 1 .. 2 : /\ two[i].id = <<Layers[2], i>>
                           /\ two[i].evidence = {<<"pair", Layers[2]>>}
  <2> DEFINE layer == pair[2]
             said == StatementsOf(layer)
  <2>1. layer.name = Layers[2] /\ layer.evidence = {<<"pair", Layers[2]>>}
    BY <1>1
  <2> HIDE DEF layer
  <2>2. /\ DOMAIN said = 1 .. 2 /\ said \in Seq(Range(said))
        /\ \A i \in 1 .. 2 : said[i].id = <<Layers[2], i>> /\ said[i].evidence = layer.evidence
    BY <2>1, StatementsSay
  <2> HIDE DEF said
  <2>3. said = two
    BY DEF said, layer
  <2> QED BY <2>1, <2>2, <2>3
<1>4. /\ DOMAIN three = 1 .. 1 /\ three \in Seq(Range(three))
      /\ three[1].id = <<Layers[3], 1>> /\ three[1].evidence = {<<"pair", Layers[3]>>}
  <2> DEFINE layer == pair[3]
             said == StatementsOf(layer)
  <2>1. layer.name = Layers[3] /\ layer.evidence = {<<"pair", Layers[3]>>}
    BY <1>1
  <2> HIDE DEF layer
  <2>2. /\ DOMAIN said = 1 .. 1 /\ said \in Seq(Range(said))
        /\ said[1].id = <<Layers[3], 1>> /\ said[1].evidence = layer.evidence
    BY <2>1, StatementsSay
  <2> HIDE DEF said
  <2>3. said = three
    BY DEF said, layer
  <2> QED BY <2>1, <2>2, <2>3
<1>5. each = <<one, two, three>>
  BY <1>1
<1>6. all = FlattenSeq(each)
  BY DEF Statements
<1> HIDE DEF one, two, three, each, early
<1>7. Range(one) \subseteq V /\ Range(two) \subseteq V /\ Range(three) \subseteq V
  OBVIOUS
<1> HIDE DEF V
<1>8. Over(one, V) /\ Over(two, V) /\ Over(three, V)
  BY <1>2, <1>3, <1>4, <1>7, OverMore DEF Over
<1>9. Len(one) = 2 /\ Len(two) = 2 /\ Len(three) = 1
  BY <1>2, <1>3, <1>4
<1>10. FlattenSeq(<<one, two, three>>) = Joined(Joined(one, two), three)
  BY <1>8, FlattenThree
<1>11. all = Joined(early, three)
  BY <1>5, <1>6, <1>10 DEF early
<1>12. Over(early, V) /\ Appends(early, one, two)
  BY <1>8, ConcatSays DEF early
<1>13. Over(all, V) /\ Appends(all, early, three)
  BY <1>8, <1>11, <1>12, ConcatSays
<1>14. all \in Seq(Range(all))
  BY <1>13, OverItsRange DEF Over
<1>15. Len(early) = 4 /\ Len(all) = 5
  BY <1>9, <1>12, <1>13 DEF Appends
<1>16. /\ early[1] = one[1] /\ early[2] = one[2] /\ early[3] = two[1] /\ early[4] = two[2]
  <2>1. \A i \in 1 .. 2 : early[i] = one[i]
    BY <1>9, <1>12 DEF Appends
  <2>2. \A i \in 1 .. 2 : early[2 + i] = two[i]
    BY <1>9, <1>12 DEF Appends
  <2>3. 1 \in 1 .. 2 /\ 2 \in 1 .. 2 /\ 2 + 1 = 3 /\ 2 + 2 = 4
    OBVIOUS
  <2>4. early[2 + 1] = two[1] /\ early[2 + 2] = two[2]
    BY <2>2, <2>3, Zenon
  <2> QED BY <2>1, <2>3, <2>4
<1>17. /\ all[1] = one[1] /\ all[2] = one[2] /\ all[3] = two[1] /\ all[4] = two[2]
       /\ all[5] = three[1]
  <2>1. \A i \in 1 .. 4 : all[i] = early[i]
    BY <1>13, <1>15 DEF Appends
  <2>2. \A i \in 1 .. 1 : all[4 + i] = three[i]
    BY <1>9, <1>13, <1>15 DEF Appends
  <2>3. 1 \in 1 .. 1 /\ 4 + 1 = 5
    OBVIOUS
  <2>4. all[4 + 1] = three[1]
    BY <2>2, <2>3, Zenon
  <2>5. 1 \in 1 .. 4 /\ 2 \in 1 .. 4 /\ 3 \in 1 .. 4 /\ 4 \in 1 .. 4
    OBVIOUS
  <2>6. all[1] = early[1] /\ all[2] = early[2] /\ all[3] = early[3] /\ all[4] = early[4]
    BY <2>1, <2>5, Zenon
  <2> QED BY <1>16, <2>3, <2>4, <2>6
<1> DEFINE p == Layers[1]
           q == Layers[2]
           r == Layers[3]
<1>18. /\ StatementIds[1] = <<p, 1>> /\ StatementIds[2] = <<p, 2>>
       /\ StatementIds[3] = <<q, 1>> /\ StatementIds[4] = <<q, 2>>
       /\ StatementIds[5] = <<r, 1>>
  <2> HIDE DEF p, q, r
  <2>1. StatementIds = << <<p, 1>>, <<p, 2>>, <<q, 1>>, <<q, 2>>, <<r, 1>> >>
    BY DEF StatementIds, p, q, r
  <2> QED BY <2>1
<1>19. /\ LayerOf(1) = 1 /\ LayerOf(2) = 1 /\ LayerOf(3) = 2 /\ LayerOf(4) = 2 /\ LayerOf(5) = 3
  BY DEF LayerOf
<1>20. 1 \in 1 .. 2 /\ 2 \in 1 .. 2
  OBVIOUS
<1>21. /\ one[1].id = <<p, 1>> /\ one[2].id = <<p, 2>> /\ one[1].evidence = {<<"pair", p>>}
       /\ one[2].evidence = {<<"pair", p>>}
  BY <1>2, <1>20, Zenon
<1>22. /\ two[1].id = <<q, 1>> /\ two[2].id = <<q, 2>> /\ two[1].evidence = {<<"pair", q>>}
       /\ two[2].evidence = {<<"pair", q>>}
  BY <1>3, <1>20, Zenon
<1>23. /\ three[1].id = <<r, 1>> /\ three[1].evidence = {<<"pair", r>>}
  BY <1>4
<1> HIDE DEF p, q, r
<1>24. ASSUME NEW i \in 1 .. 5
       PROVE  all[i].id = StatementIds[i] /\ all[i].evidence = {<<"pair", Layers[LayerOf(i)]>>}
  <2>1. i = 1 \/ i = 2 \/ i = 3 \/ i = 4 \/ i = 5
    OBVIOUS
  <2>2. CASE i = 1 \/ i = 2
    BY <1>17, <1>18, <1>19, <1>21, <2>2, Zenon DEF p
  <2>3. CASE i = 3 \/ i = 4
    BY <1>17, <1>18, <1>19, <1>22, <2>3, Zenon DEF q
  <2>4. CASE i = 5
    BY <1>17, <1>18, <1>19, <1>23, <2>4, Zenon DEF r
  <2> QED BY <2>1, <2>2, <2>3, <2>4
<1> QED BY <1>14, <1>15, <1>24

(* The block of a warning.                                                 *)
WarningBlock(w) ==
    Block(IdOf(w), "WARNING", "CALCULATED", {WarningEvidence(w)})

(* The text: five statements, then a block for each warning.               *)
LEMMA BlocksAre ==
  ASSUME NEW a, NEW b, NEW pair, pair = AnalyzePair(a, b), NEW W, NEW ws \in Seq(W),
         NEW blocks, blocks = TextBlocks(pair, ws)
  PROVE  /\ DOMAIN blocks = 1 .. 5 + Len(ws)
         /\ \A i \in 1 .. 5 : /\ blocks[i].id = StatementIds[i]
                              /\ blocks[i].evidence = {<<"pair", Layers[LayerOf(i)]>>}
         /\ \A k \in DOMAIN ws : /\ blocks[5 + k].id = IdOf(ws[k])
                                 /\ blocks[5 + k].evidence = {WarningEvidence(ws[k])}
<1> DEFINE all == Statements(pair)
           more == [k \in DOMAIN ws |-> WarningBlock(ws[k])]
           V == Range(all) \cup Range(more)
<1>1. blocks = Joined(all, more)
  BY DEF TextBlocks, WarningBlock, IdOf, Joined, Statements
<1>2. /\ all \in Seq(Range(all)) /\ Len(all) = 5
      /\ \A i \in 1 .. 5 : /\ all[i].id = StatementIds[i]
                           /\ all[i].evidence = {<<"pair", Layers[LayerOf(i)]>>}
  BY StatementsAre
<1> HIDE DEF all
<1>3. /\ Len(ws) \in Nat /\ DOMAIN ws = 1 .. Len(ws)
  OBVIOUS
<1>4. /\ DOMAIN more = 1 .. Len(ws) /\ \A k \in DOMAIN ws : more[k] = WarningBlock(ws[k])
      /\ more \in Seq(Range(more)) /\ Len(more) = Len(ws)
  <2>1. DOMAIN more = 1 .. Len(ws) /\ \A k \in DOMAIN ws : more[k] = WarningBlock(ws[k])
    BY <1>3
  <2>2. more = [k \in 1 .. Len(ws) |-> WarningBlock(ws[k])]
    BY <1>3
  <2>3. \A k \in 1 .. Len(ws) : WarningBlock(ws[k]) \in Range(more)
    BY <1>3 DEF Range
  <2>4. more \in Seq(Range(more))
    <3> DEFINE R == Range(more)
    <3> HIDE DEF R
    <3> QED BY <1>3, <2>2, <2>3 DEF R
  <2> HIDE DEF more
  <2> QED BY <1>3, <2>1, <2>4
<1>5. \A k \in DOMAIN ws : /\ more[k].id = IdOf(ws[k])
                           /\ more[k].evidence = {WarningEvidence(ws[k])}
  BY <1>4, BlockSays DEF WarningBlock
<1> HIDE DEF more
<1>6. Over(all, V) /\ Over(more, V)
  <2>1. Range(all) \subseteq V /\ Range(more) \subseteq V
    OBVIOUS
  <2> HIDE DEF V
  <2> QED BY <1>2, <1>4, <2>1, OverMore DEF Over
<1> HIDE DEF V
<1>7. Over(blocks, V) /\ Appends(blocks, all, more)
  BY <1>1, <1>6, ConcatSays
<1>8. \A i \in 1 .. 5 : blocks[i] = all[i]
  BY <1>2, <1>7 DEF Appends
<1>9. \A k \in DOMAIN ws : blocks[5 + k] = more[k]
  BY <1>2, <1>3, <1>4, <1>7 DEF Appends
<1>10. DOMAIN blocks = 1 .. 5 + Len(ws)
  BY <1>2, <1>4, <1>7 DEF Over, Appends
<1> QED BY <1>2, <1>5, <1>8, <1>9, <1>10

(* The names of statements tell them apart.                                *)
LEMMA StatementIdsAre ==
  ASSUME NEW i \in 1 .. 5
  PROVE  /\ StatementIds[i][1] = Layers[LayerOf(i)] /\ LayerOf(i) \in 1 .. 3
         /\ StatementIds[i][1] # "warnings"
         /\ \A j \in 1 .. 5 : StatementIds[i] = StatementIds[j] => i = j
<1> DEFINE p == Layers[1]
           q == Layers[2]
           r == Layers[3]
<1>1. p # q /\ p # r /\ q # r /\ p # "warnings" /\ q # "warnings" /\ r # "warnings"
  BY DEF Layers
<1> HIDE DEF p, q, r
<1>2. StatementIds = << <<p, 1>>, <<p, 2>>, <<q, 1>>, <<q, 2>>, <<r, 1>> >>
  BY DEF StatementIds, p, q, r
<1>3. /\ StatementIds[1] = <<p, 1>> /\ StatementIds[2] = <<p, 2>>
      /\ StatementIds[3] = <<q, 1>> /\ StatementIds[4] = <<q, 2>>
      /\ StatementIds[5] = <<r, 1>>
  BY <1>2
<1>4. \A k \in 1 .. 5 : k = 1 \/ k = 2 \/ k = 3 \/ k = 4 \/ k = 5
  OBVIOUS
<1>5. LayerOf(1) = 1 /\ LayerOf(2) = 1 /\ LayerOf(3) = 2 /\ LayerOf(4) = 2 /\ LayerOf(5) = 3
  BY DEF LayerOf
<1>6. \A j \in 1 .. 5 : StatementIds[i] = StatementIds[j] => i = j
  BY <1>1, <1>3, <1>4
<1>7. StatementIds[i][1] = Layers[LayerOf(i)] /\ LayerOf(i) \in 1 .. 3
  BY <1>3, <1>4, <1>5 DEF p, q, r
<1>8. StatementIds[i][1] # "warnings"
  BY <1>1, <1>3, <1>4
<1> QED BY <1>6, <1>7, <1>8

(* So do those of warnings.                                                *)
LEMMA WarningIdsAre ==
  ASSUME NEW w \in WarningModel
  PROVE  /\ IdOf(w)[1] = "warnings"
         /\ \A v \in WarningModel : IdOf(w) = IdOf(v) => w = v
<1>1. ASSUME NEW v \in WarningModel, IdOf(w) = IdOf(v) PROVE w = v
  <2>1. IdOf(w)[2] = w.subject /\ IdOf(w)[3] = w.code /\ IdOf(v)[2] = v.subject /\ IdOf(v)[3] = v.code
    BY DEF IdOf
  <2>2. w.subject = v.subject /\ w.code = v.code
    BY <1>1, <2>1
  <2> QED BY <2>2 DEF WarningModel
<1> QED BY <1>1 DEF IdOf

(* So no two blocks have one name.                                         *)
LEMMA BlockIdsDiffer ==
  ASSUME NEW a, NEW b, NEW pair, pair = AnalyzePair(a, b),
         NEW ws \in Seq(WarningModel), IsInjective(ws),
         NEW blocks, blocks = TextBlocks(pair, ws)
  PROVE  IsInjective([k \in DOMAIN blocks |-> blocks[k].id])
<1>1. /\ DOMAIN blocks = 1 .. 5 + Len(ws)
      /\ \A i \in 1 .. 5 : blocks[i].id = StatementIds[i]
      /\ \A k \in DOMAIN ws : blocks[5 + k].id = IdOf(ws[k])
  BY BlocksAre
<1>2. Len(ws) \in Nat /\ DOMAIN ws = 1 .. Len(ws) /\ \A k \in DOMAIN ws : ws[k] \in WarningModel
  OBVIOUS
<1>3. ASSUME NEW i \in DOMAIN blocks, NEW j \in DOMAIN blocks, blocks[i].id = blocks[j].id
      PROVE  i = j
  <2>1. \A k \in DOMAIN blocks : k \in 1 .. 5 \/ (k - 5 \in DOMAIN ws /\ 5 + (k - 5) = k)
    BY <1>1, <1>2
  <2>2. CASE i \in 1 .. 5 /\ j \in 1 .. 5
    BY <1>1, <1>3, <2>2, StatementIdsAre
  <2>3. CASE i \in 1 .. 5 /\ j - 5 \in DOMAIN ws /\ 5 + (j - 5) = j
    BY <1>1, <1>2, <1>3, <2>3, StatementIdsAre, WarningIdsAre
  <2>4. CASE j \in 1 .. 5 /\ i - 5 \in DOMAIN ws /\ 5 + (i - 5) = i
    BY <1>1, <1>2, <1>3, <2>4, StatementIdsAre, WarningIdsAre
  <2>5. CASE /\ i - 5 \in DOMAIN ws /\ 5 + (i - 5) = i
             /\ j - 5 \in DOMAIN ws /\ 5 + (j - 5) = j
    <3> DEFINE k == i - 5
               l == j - 5
    <3>1. k \in DOMAIN ws /\ l \in DOMAIN ws /\ 5 + k = i /\ 5 + l = j
      BY <2>5
    <3> HIDE DEF k, l
    <3>2. IdOf(ws[k]) = IdOf(ws[l])
      BY <1>1, <1>3, <3>1
    <3>3. ws[k] = ws[l]
      BY <1>2, <3>1, <3>2, WarningIdsAre
    <3> QED BY <3>1, <3>3 DEF IsInjective
  <2> QED BY <2>1, <2>2, <2>3, <2>4, <2>5
<1> QED BY <1>3 DEF IsInjective

(* And together they cite the evidence listed, all of it.                  *)
LEMMA BlocksCiteAll ==
  ASSUME NEW a, NEW b, NEW pair, pair = AnalyzePair(a, b), NEW W, NEW ws \in Seq(W),
         NEW blocks, blocks = TextBlocks(pair, ws)
  PROVE  UNION {blocks[k].evidence : k \in DOMAIN blocks} = EvidenceLedger(pair, ws)
<1>1. /\ DOMAIN blocks = 1 .. 5 + Len(ws)
      /\ \A i \in 1 .. 5 : blocks[i].evidence = {<<"pair", Layers[LayerOf(i)]>>}
      /\ \A k \in DOMAIN ws : blocks[5 + k].evidence = {WarningEvidence(ws[k])}
  BY BlocksAre
<1>2. /\ DOMAIN pair = 1 .. 3
      /\ \A k \in 1 .. 3 : pair[k].evidence = {<<"pair", Layers[k]>>}
  BY PairLayers
<1> DEFINE Cited(k) == <<"pair", Layers[k]>>
           Noticed(k) == WarningEvidence(ws[k])
           ledger == EvidenceLedger(pair, ws)
<1>3. Len(ws) \in Nat /\ DOMAIN ws = 1 .. Len(ws)
  OBVIOUS
<1>4. ledger = {Cited(k) : k \in 1 .. 3} \cup {Noticed(k) : k \in DOMAIN ws}
  <2> DEFINE layered == UNION {pair[k].evidence : k \in 1 .. 3}
             cited == {Cited(k) : k \in 1 .. 3}
             noticed == {Noticed(k) : k \in DOMAIN ws}
  <2>1. ledger = layered \cup noticed
    <3> DEFINE all == {pair[k].evidence : k \in DOMAIN pair}
               three == {pair[k].evidence : k \in 1 .. 3}
    <3>1. ledger = (UNION all) \cup noticed /\ layered = UNION three
      BY DEF EvidenceLedger
    <3>2. all = three
      BY <1>2
    <3> HIDE DEF all, three, noticed, ledger, layered
    <3> QED BY <3>1, <3>2
  <2>2. \A k \in 1 .. 3 : pair[k].evidence = {Cited(k)}
    BY <1>2
  <2> HIDE DEF Cited, Noticed, ledger
  <2>3. layered = cited
    BY <2>2
  <2> HIDE DEF layered, cited, noticed
  <2>4. ledger = cited \cup noticed
    BY <2>1, <2>3
  <2> QED BY <2>4 DEF cited, noticed
<1>5. /\ \A i \in 1 .. 5 : blocks[i].evidence = {Cited(LayerOf(i))}
      /\ \A k \in DOMAIN ws : blocks[5 + k].evidence = {Noticed(k)}
  BY <1>1
<1> HIDE DEF Cited, Noticed, ledger
<1>6. ASSUME NEW k \in DOMAIN blocks, NEW x \in blocks[k].evidence PROVE x \in ledger
  <2>1. k \in 1 .. 5 \/ (k - 5 \in DOMAIN ws /\ 5 + (k - 5) = k)
    BY <1>1, <1>3
  <2>2. CASE k \in 1 .. 5
    BY <1>4, <1>5, <1>6, <2>2, StatementIdsAre
  <2>3. CASE k - 5 \in DOMAIN ws /\ 5 + (k - 5) = k
    BY <1>4, <1>5, <1>6, <2>3
  <2> QED BY <2>1, <2>2, <2>3
<1>7. ASSUME NEW x \in ledger PROVE \E k \in DOMAIN blocks : x \in blocks[k].evidence
  <2>1. CASE \E l \in 1 .. 3 : x = Cited(l)
    <3>1. PICK l \in 1 .. 3 : x = Cited(l)
      BY <2>1
    <3>2. LayerOf(1) = 1 /\ LayerOf(3) = 2 /\ LayerOf(5) = 3
      BY DEF LayerOf
    <3>3. PICK i \in 1 .. 5 : LayerOf(i) = l
      <4>1. l = 1 \/ l = 2 \/ l = 3
        OBVIOUS
      <4> QED BY <3>2, <4>1
    <3>4. i \in DOMAIN blocks /\ blocks[i].evidence = {Cited(l)}
      BY <1>1, <1>3, <1>5, <3>3
    <3> QED BY <3>1, <3>4
  <2>2. CASE \E l \in DOMAIN ws : x = Noticed(l)
    <3>1. PICK l \in DOMAIN ws : x = Noticed(l)
      BY <2>2
    <3>2. 5 + l \in DOMAIN blocks /\ blocks[5 + l].evidence = {Noticed(l)}
      BY <1>1, <1>3, <1>5
    <3> QED BY <3>1, <3>2
  <2> QED BY <1>4, <1>7, <2>1, <2>2
<1>8. UNION {blocks[k].evidence : k \in DOMAIN blocks} = ledger
  BY <1>6, <1>7
<1> QED BY <1>8 DEF ledger

(* What is promised of one pair analysis.                                  *)
Complete(body) ==
    LET blocks == body.blocks
        warned == [k \in DOMAIN body.warnings |-> body.warnings[k]]
        Unknowns == {i \in 1 .. 2 : body.subjects[i].timePrecision = "unknown"}
    IN  /\ UNION {blocks[k].evidence : k \in DOMAIN blocks} = body.evidence
        /\ IsInjective([k \in DOMAIN blocks |-> blocks[k].id])
        /\ IsInjective(warned)
        /\ {w.subject : w \in {x \in Range(warned) : x.code = "BIRTH_TIME_UNKNOWN"}}
               = {body.subjects[i].role : i \in Unknowns}

(* Every analysis keeps it.                                                *)
LEMMA MatchComplete ==
  ASSUME NEW A, NEW B, NEW chartA, NEW chartB, NEW e, NEW body,
         body = MatchBody(A, B, chartA, chartB, e)
  PROVE  Complete(body)
<1> DEFINE ws == body.warnings
           pair == body.pair
           blocks == body.blocks
           one == SubjectIdentity("person_a", A)
           two == SubjectIdentity("person_b", B)
           subjects == body.subjects
           warned == [k \in DOMAIN ws |-> ws[k]]
           Late == {x \in Range(warned) : x.code = "BIRTH_TIME_UNKNOWN"}
           Unknowns == {i \in 1 .. 2 : subjects[i].timePrecision = "unknown"}
<1>1. /\ pair = PairOf(A, B, chartA, chartB) /\ ws = WarningsSaid(A, B)
      /\ blocks = TextBlocks(pair, ws) /\ body.evidence = EvidenceLedger(pair, ws)
      /\ subjects = <<one, two>>
  BY MatchBodySays
<1>2. /\ one.role = "person_a" /\ two.role = "person_b"
      /\ one.timePrecision = (IF A.asked.timeKnown THEN "minute" ELSE "unknown")
      /\ two.timePrecision = (IF B.asked.timeKnown THEN "minute" ELSE "unknown")
  BY DEF SubjectIdentity
<1> HIDE DEF ws, pair, blocks, one, two, subjects
<1>3. /\ ws \in Seq(WarningModel) /\ IsInjective(ws)
      /\ Range(ws) = {Unanchored}
             \cup (IF A.asked.timeKnown THEN {} ELSE {TimeUnknown("person_a")})
             \cup (IF B.asked.timeKnown THEN {} ELSE {TimeUnknown("person_b")})
  BY <1>1, WarningsAre
<1>4. warned = ws
  BY <1>3
<1>5. /\ UNION {blocks[k].evidence : k \in DOMAIN blocks} = body.evidence
      /\ IsInjective([k \in DOMAIN blocks |-> blocks[k].id])
  <2>1. PICK a, b : pair = AnalyzePair(a, b)
    BY <1>1 DEF PairOf
  <2> QED BY <1>1, <1>3, <2>1, BlocksCiteAll, BlockIdsDiffer
<1>6. Range(warned) = Range(ws)
  BY <1>4
<1> HIDE DEF warned
<1>7. /\ Unanchored.code # "BIRTH_TIME_UNKNOWN"
      /\ TimeUnknown("person_a").code = "BIRTH_TIME_UNKNOWN"
      /\ TimeUnknown("person_a").subject = "person_a"
      /\ TimeUnknown("person_b").code = "BIRTH_TIME_UNKNOWN"
      /\ TimeUnknown("person_b").subject = "person_b"
  BY DEF Unanchored, TimeUnknown, Warning
<1>8. {w.subject : w \in Late}
          = (IF A.asked.timeKnown THEN {} ELSE {"person_a"})
            \cup (IF B.asked.timeKnown THEN {} ELSE {"person_b"})
  <2> DEFINE u == Unanchored
             s == TimeUnknown("person_a")
             t == TimeUnknown("person_b")
  <2>1. /\ u.code # "BIRTH_TIME_UNKNOWN"
        /\ s.code = "BIRTH_TIME_UNKNOWN" /\ s.subject = "person_a"
        /\ t.code = "BIRTH_TIME_UNKNOWN" /\ t.subject = "person_b"
    BY <1>7
  <2>2. Range(warned) = {u} \cup (IF A.asked.timeKnown THEN {} ELSE {s})
                           \cup (IF B.asked.timeKnown THEN {} ELSE {t})
    BY <1>3, <1>6
  <2> HIDE DEF u, s, t
  <2>3. Late = (IF A.asked.timeKnown THEN {} ELSE {s}) \cup (IF B.asked.timeKnown THEN {} ELSE {t})
    BY <2>1, <2>2
  <2> HIDE DEF Late
  <2> QED BY <2>1, <2>3
<1>9. {subjects[i].role : i \in Unknowns}
          = (IF A.asked.timeKnown THEN {} ELSE {"person_a"})
            \cup (IF B.asked.timeKnown THEN {} ELSE {"person_b"})
  <2>1. subjects[1] = one /\ subjects[2] = two /\ \A i \in 1 .. 2 : i = 1 \/ i = 2
    BY <1>1
  <2>2. Unknowns = (IF A.asked.timeKnown THEN {} ELSE {1}) \cup (IF B.asked.timeKnown THEN {} ELSE {2})
    BY <1>2, <2>1
  <2> HIDE DEF Unknowns
  <2> QED BY <1>2, <2>1, <2>2
<1>10. IsInjective(warned)
  BY <1>3, <1>4
<1> HIDE DEF Late, Unknowns
<1>11. {w.subject : w \in Late} = {subjects[i].role : i \in Unknowns}
  BY <1>8, <1>9
<1> QED BY <1>5, <1>10, <1>11 DEF Complete, ws, blocks, subjects, warned, Late, Unknowns

(* So does every one that was answered.                                    *)
LEMMA MatchesComplete ==
  ASSUME AnswersSaid
  PROVE  EvidenceComplete
<1>1. ASSUME NEW q \in AnsweredBy({"match"}) PROVE Complete(Body(q))
  <2>1. /\ answers[q].answer.status = 200 /\ Body(q) = answers[q].answer.body
        /\ answers[q].answer = Hehun(birth, asked, q[2], q[3], q[4], answers[q].eph)
    BY EntrySaid DEF Said, MatchSaid
  <2>2. PICK A, B : answers[q].answer = MatchBaziHehun(A, B, q[4], answers[q].eph)
    BY <2>1 DEF Hehun
  <2>3. PICK chartA, chartB, e : Body(q) = MatchBody(A, B, chartA, chartB, e)
    BY <2>1, <2>2, HehunSays
  <2> QED BY <2>3, MatchComplete
<1> QED BY <1>1 DEF EvidenceComplete, Complete

(* Every statement of a pair analysis rests on evidence listed, all        *)
(* evidence is used, no two statements share a name, and what is uncertain *)
(* about a person is said once (match/pair.py, textblocks.py and           *)
(* types.py).                                                              *)
THEOREM NothingUnsupported == Spec => []EvidenceComplete
<1>1. IInv => EvidenceComplete
  BY MatchesComplete DEF IInv
<1> QED BY <1>1, InvAlways, PTL

-----------------------------------------------------------------------------
(* Two names of one god.                                                   *)

(* What the two names of a relation have in common.                        *)
SameRelation ==
    {<<"same", "same_element">>, <<"resource", "produces_day_master">>,
     <<"output", "produced_by_day_master">>, <<"wealth", "controlled_by_day_master">>,
     <<"officer", "controls_day_master">>}

(* Both classifications of two phases name one relation.                   *)
LEMMA RelationsMatch ==
  ASSUME NEW x \in Phases, NEW y \in Phases
  PROVE  <<ElementRelation(x, y), ClassifyElementRelation(x, y)>> \in SameRelation
<1>1. x \in {0, 1, 2, 3, 4} /\ y \in {0, 1, 2, 3, 4}
  BY DEF Phases
<1>2. \/ y = x /\ ElementRelation(x, y) = "same"
      \/ ShengInverse(x) = y /\ ElementRelation(x, y) = "resource"
      \/ Sheng(x) = y /\ ElementRelation(x, y) = "output"
      \/ Ke(x) = y /\ ElementRelation(x, y) = "wealth"
      \/ Ke(y) = x /\ ElementRelation(x, y) = "officer"
  BY <1>1 DEF ElementRelation, Sheng, Ke, ShengInverse
<1>3. /\ y = x => ClassifyElementRelation(x, y) = "same_element"
      /\ ShengInverse(x) = y => ClassifyElementRelation(x, y) = "produces_day_master"
      /\ Sheng(x) = y => ClassifyElementRelation(x, y) = "produced_by_day_master"
      /\ Ke(x) = y => ClassifyElementRelation(x, y) = "controlled_by_day_master"
      /\ Ke(y) = x => ClassifyElementRelation(x, y) = "controls_day_master"
  BY <1>1 DEF ClassifyElementRelation, Sheng, Ke, ShengInverse
<1> QED BY <1>2, <1>3 DEF SameRelation

(* Every stem has a phase.                                                 *)
LEMMA StemHasPhase ==
  ASSUME NEW stem \in 0 .. 9
  PROVE  ElementOf(stem) \in Phases
BY DEF ElementOf, Phases

(* So both tables of gods name one god.                                    *)
LEMMA GodsMatch ==
  ASSUME NEW dayMaster \in 0 .. 9, NEW stem \in 0 .. 9
  PROVE  <<TenGod(dayMaster, stem), RelationToDayMaster(stem, dayMaster).god>> \in GodNames
<1> DEFINE x == ElementOf(dayMaster)
           y == ElementOf(stem)
           mine == ElementRelation(x, y)
           theirs == ClassifyElementRelation(x, y)
           i == IF dayMaster % 2 = stem % 2 THEN 1 ELSE 2
           j == IF stem % 2 = dayMaster % 2 THEN 1 ELSE 2
           god == PinyinOf[theirs][j]
<1>1. x \in Phases /\ y \in Phases
  BY StemHasPhase
<1>2. /\ TenGod(dayMaster, stem) = GodOf[mine][i]
      /\ RelationToDayMaster(stem, dayMaster) = [relation |-> theirs, god |-> god]
  BY DEF TenGod, RelationToDayMaster
<1>3. i = j /\ (i = 1 \/ i = 2)
  OBVIOUS
<1> HIDE DEF x, y, i, j
<1>4. <<mine, theirs>> \in SameRelation
  BY <1>1, RelationsMatch
<1> HIDE DEF mine, theirs
<1>5. [relation |-> theirs, god |-> god].god = god
  <2> HIDE DEF god
  <2> QED OBVIOUS
<1>6. god = PinyinOf[theirs][i]
  BY <1>3
<1> HIDE DEF god
<1>7. \/ mine = "same" /\ theirs = "same_element"
      \/ mine = "resource" /\ theirs = "produces_day_master"
      \/ mine = "output" /\ theirs = "produced_by_day_master"
      \/ mine = "wealth" /\ theirs = "controlled_by_day_master"
      \/ mine = "officer" /\ theirs = "controls_day_master"
  BY <1>4 DEF SameRelation
<1>8. /\ GodOf["same"][1] = "Friend" /\ GodOf["same"][2] = "RobWealth"
      /\ GodOf["resource"][1] = "IndirectRes" /\ GodOf["resource"][2] = "DirectRes"
      /\ GodOf["output"][1] = "EatingGod" /\ GodOf["output"][2] = "HurtingOfficer"
      /\ GodOf["wealth"][1] = "IndirectWealth" /\ GodOf["wealth"][2] = "DirectWealth"
      /\ GodOf["officer"][1] = "SevenKilling" /\ GodOf["officer"][2] = "DirectOfficer"
  BY DEF GodOf
<1>9. /\ PinyinOf["same_element"][1] = "Bi Jian" /\ PinyinOf["same_element"][2] = "Jie Cai"
      /\ PinyinOf["produces_day_master"][1] = "Pian Yin"
      /\ PinyinOf["produces_day_master"][2] = "Zheng Yin"
      /\ PinyinOf["produced_by_day_master"][1] = "Shi Shen"
      /\ PinyinOf["produced_by_day_master"][2] = "Shang Guan"
      /\ PinyinOf["controlled_by_day_master"][1] = "Pian Cai"
      /\ PinyinOf["controlled_by_day_master"][2] = "Zheng Cai"
      /\ PinyinOf["controls_day_master"][1] = "Qi Sha"
      /\ PinyinOf["controls_day_master"][2] = "Zheng Guan"
  BY DEF PinyinOf
<1> DEFINE a == GodOf[mine][i]
           b == PinyinOf[theirs][i]
<1>10. /\ \/ a = "Friend" /\ b = "Bi Jian"
          \/ a = "RobWealth" /\ b = "Jie Cai"
          \/ a = "EatingGod" /\ b = "Shi Shen"
          \/ a = "HurtingOfficer" /\ b = "Shang Guan"
          \/ a = "IndirectWealth" /\ b = "Pian Cai"
          \/ a = "DirectWealth" /\ b = "Zheng Cai"
          \/ a = "SevenKilling" /\ b = "Qi Sha"
          \/ a = "DirectOfficer" /\ b = "Zheng Guan"
          \/ a = "IndirectRes" /\ b = "Pian Yin"
          \/ a = "DirectRes" /\ b = "Zheng Yin"
  <2>1. CASE mine = "same" /\ theirs = "same_element"
    BY <1>3, <1>8, <1>9, <2>1, Zenon
  <2>2. CASE mine = "resource" /\ theirs = "produces_day_master"
    BY <1>3, <1>8, <1>9, <2>2, Zenon
  <2>3. CASE mine = "output" /\ theirs = "produced_by_day_master"
    BY <1>3, <1>8, <1>9, <2>3, Zenon
  <2>4. CASE mine = "wealth" /\ theirs = "controlled_by_day_master"
    BY <1>3, <1>8, <1>9, <2>4, Zenon
  <2>5. CASE mine = "officer" /\ theirs = "controls_day_master"
    BY <1>3, <1>8, <1>9, <2>5, Zenon
  <2> QED BY <1>7, <2>1, <2>2, <2>3, <2>4, <2>5, Zenon
<1> HIDE DEF a, b
<1>11. <<a, b>> \in GodNames
  BY <1>10, Zenon DEF GodNames
<1> QED BY <1>2, <1>5, <1>6, <1>11 DEF a, b

(* And so does a block that shows both names.                              *)
LEMMA BlockNames ==
  ASSUME NEW dayMaster \in 0 .. 9, NEW stem \in 0 .. 9, NEW god,
         god = TenGodBlock(dayMaster, stem)
  PROVE  <<god.name, god.pinyin>> \in GodNames
<1> DEFINE name == TenGod(dayMaster, stem)
           pinyin == RelationToDayMaster(stem, dayMaster).god
           relation == RelationToDayMaster(stem, dayMaster).relation
<1>1. god = [name |-> name, pinyin |-> pinyin, relation |-> relation]
  BY DEF TenGodBlock
<1>2. <<name, pinyin>> \in GodNames
  BY GodsMatch
<1> HIDE DEF name, pinyin, relation
<1>3. god.name = name /\ god.pinyin = pinyin
  BY <1>1
<1> QED BY <1>2, <1>3

(* The relation a day in the east shows is that of its stem to the day     *)
(* master.                                                                 *)
LEMMA DaysRelate ==
  ASSUME NEW b, NEW dayMaster \in 0 .. 9, NEW day \in Int, NEW e, Epoch \in Int,
         NEW east, east = EasternDaily(b, dayMaster, day, e)
  PROVE  RelationOfGod[east.relation]
             = RelationToDayMaster(east.pillar.stem, east.dayMaster).relation
<1> DEFINE pillar == DailyPillar(day)
           x == ElementOf(dayMaster)
           y == ElementOf(pillar.stem)
           relation == DetermineRelation(x, y)
           theirs == ClassifyElementRelation(x, y)
           themes == EasternThemes[relation]
           variant == Variant(b, day)
           term == Jieqi(b, day, e)
           weekday == (Epoch + day) % 7
<1>1. east = [dayMaster |-> dayMaster, pillar |-> pillar, relation |-> relation,
              themes |-> themes, variant |-> variant, jieqi |-> term, weekday |-> weekday]
  BY DEF EasternDaily
<1>2. pillar.stem \in 0 .. 9
  <2> DEFINE shift == DayOffset(FALSE)
             n == (Epoch + day + shift) % 60
  <2>1. shift \in Int
    BY DEF DayOffset
  <2> HIDE DEF shift
  <2>2. n \in 0 .. 59
    BY <2>1
  <2>3. pillar = PillarFromIndex60(n)
    BY DEF DailyPillar, shift
  <2> HIDE DEF n, pillar
  <2> QED BY <2>2, <2>3, DayIsPillar
<1> HIDE DEF pillar
<1>3. x \in Phases /\ y \in Phases
  BY <1>2, StemHasPhase
<1>4. RelationToDayMaster(pillar.stem, dayMaster).relation = theirs
  BY DEF RelationToDayMaster
<1> HIDE DEF x, y
<1>5. RelationOfGod[relation] = theirs
  <2>1. x \in {0, 1, 2, 3, 4} /\ y \in {0, 1, 2, 3, 4}
    BY <1>3 DEF Phases
  <2>2. \/ x = y /\ relation = "companion"
        \/ Sheng(x) = y /\ relation = "output"
        \/ Sheng(y) = x /\ relation = "resource"
        \/ Ke(x) = y /\ relation = "wealth"
        \/ Ke(y) = x /\ relation = "power"
    BY <2>1 DEF DetermineRelation, Sheng, Ke
  <2>3. /\ y = x => theirs = "same_element"
        /\ Sheng(y) = x => theirs = "produces_day_master"
        /\ Sheng(x) = y => theirs = "produced_by_day_master"
        /\ Ke(x) = y => theirs = "controlled_by_day_master"
        /\ Ke(y) = x => theirs = "controls_day_master"
    BY <2>1 DEF ClassifyElementRelation, Sheng, Ke
  <2> HIDE DEF relation, theirs
  <2> QED BY <2>2, <2>3 DEF RelationOfGod
<1> HIDE DEF relation, theirs, themes, variant, term, weekday
<1>6. east.relation = relation /\ east.pillar = pillar /\ east.dayMaster = dayMaster
  BY <1>1
<1> QED BY <1>4, <1>5, <1>6

(* A resonance is named after the relation.                                *)
LEMMA Resounds ==
  ASSUME NEW x \in Phases, NEW y \in Phases
  PROVE  ResonanceType(x, y) = ResonanceOf[DetermineRelation(x, y)]
<1> DEFINE relation == DetermineRelation(x, y)
<1>1. x \in {0, 1, 2, 3, 4} /\ y \in {0, 1, 2, 3, 4}
  BY DEF Phases
<1>2. \/ x = y /\ relation = "companion"
      \/ Sheng(x) = y /\ relation = "output"
      \/ Sheng(y) = x /\ relation = "resource"
      \/ Ke(x) = y /\ relation = "wealth"
      \/ Ke(y) = x /\ relation = "power"
  BY <1>1 DEF DetermineRelation, Sheng, Ke
<1>3. /\ x = y => ResonanceType(x, y) = "gleichklang"
      /\ Sheng(x) = y => ResonanceType(x, y) = "naehrung"
      /\ Sheng(y) = x => ResonanceType(x, y) = "naehrung"
      /\ Ke(x) = y => ResonanceType(x, y) = "kontrolle"
      /\ Ke(y) = x => ResonanceType(x, y) = "kontrolle"
  BY <1>1 DEF ResonanceType, Sheng, Ke
<1> HIDE DEF relation
<1>4. ResonanceType(x, y) = ResonanceOf[relation]
  BY <1>2, <1>3 DEF ResonanceOf
<1> QED BY <1>4 DEF relation

(* What is active on a day is one of ten planets.                          *)
LEMMA ActiveIsMover ==
  ASSUME NEW natal, NEW day, NEW cusps, NEW q \in ActivePlanets(natal, TransitOf(day), cusps)
  PROVE  q.planet \in Range(Movers)
<1> DEFINE transit == TransitOf(day)
           orbs == Tabulated([p \in DOMAIN transit |-> Orbs(transit[p].longitude, natal)])
<1>1. DOMAIN transit = Range(Movers)
  BY DEF TransitOf, Tabulated
<1>2. ActivePlanets(natal, transit, cusps) =
          {Active(p, transit[p], orbs[p], natal, cusps) :
               p \in {x \in DOMAIN transit : Matches(orbs[x]) # {}}}
  BY DEF ActivePlanets
<1> HIDE DEF orbs
<1>3. PICK p \in DOMAIN transit : q = Active(p, transit[p], orbs[p], natal, cusps)
  BY <1>2
<1> HIDE DEF transit
<1>4. q.planet = p
  <2>1. PICK info, body, orb : q = ActiveWith(p, info, body, orb, natal, cusps)
    BY <1>3 DEF Active
  <2> QED BY <2>1 DEF ActiveWith
<1> QED BY <1>1, <1>3, <1>4

(* Each of which has a phase.                                              *)
LEMMA MoversHavePhases ==
  ASSUME NEW p \in Range(Movers)
  PROVE  PlanetElement[p] \in Phases
<1>1. p \in {"Sun", "Moon", "Mercury", "Venus", "Mars", "Jupiter", "Saturn", "Uranus", "Neptune",
             "Pluto"}
  <2>1. PICK k \in DOMAIN Movers : p = Movers[k]
    BY DEF Range
  <2>2. DOMAIN Movers = 1 .. 10
    BY DEF Movers
  <2>3. k = 1 \/ k = 2 \/ k = 3 \/ k = 4 \/ k = 5 \/ k = 6 \/ k = 7 \/ k = 8 \/ k = 9 \/ k = 10
    BY <2>2
  <2>4. /\ Movers[1] = "Sun" /\ Movers[2] = "Moon" /\ Movers[3] = "Mercury"
        /\ Movers[4] = "Venus" /\ Movers[5] = "Mars" /\ Movers[6] = "Jupiter"
        /\ Movers[7] = "Saturn" /\ Movers[8] = "Uranus" /\ Movers[9] = "Neptune"
        /\ Movers[10] = "Pluto"
    BY DEF Movers
  <2> QED BY <2>1, <2>3, <2>4
<1>2. 0 \in Phases /\ 1 \in Phases /\ 2 \in Phases /\ 3 \in Phases /\ 4 \in Phases
  BY DEF Phases
<1>3. /\ PlanetElement["Sun"] = 1 /\ PlanetElement["Moon"] = 4 /\ PlanetElement["Mercury"] = 2
      /\ PlanetElement["Venus"] = 3 /\ PlanetElement["Mars"] = 1 /\ PlanetElement["Jupiter"] = 0
      /\ PlanetElement["Saturn"] = 2 /\ PlanetElement["Uranus"] = 0
      /\ PlanetElement["Neptune"] = 4 /\ PlanetElement["Pluto"] = 1
  BY DEF PlanetElement
<1> QED BY <1>1, <1>2, <1>3

(* So every active planet resounds as it relates to the day master.        *)
LEMMA ImpactResounds ==
  ASSUME NEW dayMaster \in 0 .. 9, NEW natal, NEW cusps, NEW day, NEW sectors, NEW weather,
         NEW impact, impact = ImpactOf(dayMaster, natal, cusps, day, sectors, weather),
         NEW p \in impact.active
  PROVE  p.resonance.type = ResonanceOf[DetermineRelation(impact.dayMaster, p.resonance.element)]
<1> DEFINE master == ElementOf(dayMaster)
           planets == ActivePlanets(natal, TransitOf(day), cusps)
           active == Enrich(planets, master)
           harmony == HarmonyOf(NatalVector(sectors), TransitVector(active))
<1>1. impact = ImpactWith(active, harmony, master, weather)
  BY DEF ImpactOf
<1> HIDE DEF harmony, active, master
<1>2. impact.active = active /\ impact.dayMaster = master
  BY <1>1 DEF ImpactWith
<1>3. PICK q \in planets : p = Enriched(q, master)
  BY <1>2 DEF active, Enrich
<1>4. q.planet \in Range(Movers)
  BY ActiveIsMover
<1> DEFINE element == PlanetElement[q.planet]
           type == ResonanceType(master, element)
           intensity == ResonanceIntensity(q.orb, q.weight)
<1>5. p.resonance = [element |-> element, type |-> type, intensity |-> intensity]
  BY <1>3 DEF Enriched, Resonance
<1>6. master \in Phases /\ element \in Phases
  BY <1>4, StemHasPhase, MoversHavePhases DEF master
<1> HIDE DEF element, intensity
<1>7. type = ResonanceOf[DetermineRelation(master, element)]
  BY <1>6, Resounds
<1> HIDE DEF type
<1>8. p.resonance.type = type /\ p.resonance.element = element
  BY <1>5
<1> QED BY <1>2, <1>7, <1>8

(* The day master of a profile is a stem.                                  *)
LEMMA ProfileMaster ==
  ASSUME NEW b \in BirthType, NEW e, BaziOfProfile(b, e).error = "none"
  PROVE  BaziOfProfile(b, e).value.chart[3].stem \in 0 .. 9
<1> DEFINE u == Reading(b.place, b.wall, 0)
           chart == Chart(b, u, "TLST", "midnight")
<1>1. /\ Instants(b.place, b.wall) # {} /\ BaziOfProfile(b, e).value.chart = chart
  BY ProfileReads
<1>2. /\ b.place \in [at : Int, before : Int, after : Int, longitude : Int, equation : Int]
      /\ b.wall \in Int
  BY BirthFields DEF PlaceType
<1>3. u \in Int
  BY <1>1, <1>2, ReadingIsInstant
<1> HIDE DEF u
<1>4. 3 \in 1 .. 4 /\ \A i \in 1 .. 4 : chart[i] \in Pillar
  <2>1. "TLST" \in {"CIVIL", "LMT", "TLST"}
    OBVIOUS
  <2> QED BY <1>3, <2>1, ChartHasPillars
<1> HIDE DEF chart
<1>5. chart[3] \in Pillar
  BY <1>4
<1> QED BY <1>1, <1>5 DEF Pillar

(* What a natal chart shows of a hidden stem.                              *)
EntryOf(dayMaster, e) ==
    [stem |-> e.stem, phase |-> ElementOf(e.stem), qi |-> e.source, weight |-> e.weight,
     tenGod |-> TenGodBlock(dayMaster, e.stem)]
(* One step along the ledger.                                              *)
Listing(entries, e, pillar, dayMaster) ==
    IF e.pillar = pillar /\ e.source # "visible" THEN Append(entries, EntryOf(dayMaster, e))
    ELSE entries
(* The function that hidden stems are folded with.                         *)
Lists(g, ledger, pillar, dayMaster) ==
    g = [s \in SUBSET (DOMAIN ledger) |->
            IF s = {} THEN << >>
            ELSE LET x == Max(s) IN Listing(g[s \ {x}], ledger[x], pillar, dayMaster)]

(* A step adds an entry of the ledger, or nothing.                         *)
LEMMA ListedOne ==
  ASSUME NEW W, NEW dayMaster, NEW entries \in Seq({EntryOf(dayMaster, e) : e \in W}),
         NEW w \in W, NEW pillar
  PROVE  Listing(entries, w, pillar, dayMaster) \in Seq({EntryOf(dayMaster, e) : e \in W})
<1> DEFINE V == {EntryOf(dayMaster, e) : e \in W}
           entry == EntryOf(dayMaster, w)
<1>1. entry \in V
  OBVIOUS
<1> HIDE DEF V, entry
<1>2. Append(entries, entry) \in Seq(V)
  BY <1>1 DEF V
<1>3. Listing(entries, w, pillar, dayMaster)
          = IF w.pillar = pillar /\ w.source # "visible" THEN Append(entries, entry) ELSE entries
  BY DEF Listing, entry
<1> QED BY <1>2, <1>3 DEF V

(* What HiddenStemEntries goes through, and where it ends.                 *)
HiddenListing(W, ws, chart, pillar) ==
    \E said : /\ Lists(said, ws, pillar, chart.dayMaster)
              /\ HiddenStemEntries(chart, pillar) = said[DOMAIN ws]
              /\ \A s \in SUBSET DOMAIN ws :
                     said[s] \in Seq({EntryOf(chart.dayMaster, e) : e \in W})

(* Going through a ledger keeps entries of the ledger only.                *)
LEMMA HiddenListed ==
  ASSUME NEW W, NEW ws \in Seq(W), NEW chart, chart.ledger = ws, NEW pillar
  PROVE  HiddenListing(W, ws, chart, pillar)
<1> DEFINE S == DOMAIN ws
           dayMaster == chart.dayMaster
           V == {EntryOf(dayMaster, e) : e \in W}
           pick == [s \in SUBSET S |-> Max(s)]
           step == [x \in S |-> [v \in Seq(V) |-> Listing(v, ws[x], pillar, dayMaster)]]
           Says(g, s) == g[s] \in Seq(V)
           said == CHOOSE g : Lists(g, ws, pillar, dayMaster)
<1>1. Len(ws) \in Nat /\ S = 1 .. Len(ws) /\ \A x \in S : ws[x] \in W
  OBVIOUS
<1>2. IsFiniteSet(S)
  <2>1. 1 \in Int /\ Len(ws) \in Int
    BY <1>1
  <2> HIDE DEF S
  <2> QED BY <1>1, <2>1, FS_Interval
<1> HIDE DEF S
<1>3. \A s \in SUBSET S : s # {} => Max(s) \in s
  BY <1>1, GreatestIsIn
<1>4. \A s \in SUBSET S : s # {} => pick[s] \in s
  BY <1>3
<1>5. PICK g : Folds(g, S, pick, << >>, step)
  <2> HIDE DEF step, pick
  <2> QED BY <1>2, <1>4, FoldExists
<1>6. \A s \in SUBSET S : g[s] = IF s = {} THEN << >> ELSE step[pick[s]][g[s \ {pick[s]}]]
  <2> HIDE DEF step, pick
  <2> QED BY <1>5 DEF Folds
<1> HIDE DEF V
<1>7. << >> \in Seq(V)
  OBVIOUS
<1>8. \A s \in SUBSET S : Says(g, s)
  <2> DEFINE Good == {s \in SUBSET S : Says(g, s)}
  <2>1. ASSUME NEW s \in SUBSET S, \A x \in s : s \ {x} \in Good
        PROVE  s \in Good
    <3>1. CASE s = {}
      <4> HIDE DEF step, pick
      <4>1. g[s] = << >>
        BY <1>6, <3>1
      <4> QED BY <1>7, <3>1, <4>1
    <3>2. CASE s # {}
      <4> DEFINE x == pick[s]
                 before == g[s \ {x}]
      <4>1. x \in s /\ g[s] = step[x][before]
        <5> HIDE DEF step, pick
        <5> QED BY <1>4, <1>6, <3>2
      <4> HIDE DEF x
      <4>2. Says(g, s \ {x})
        BY <2>1, <4>1
      <4> HIDE DEF before
      <4>3. before \in Seq(V)
        BY <4>2 DEF before
      <4>4. x \in S /\ ws[x] \in W
        BY <1>1, <4>1
      <4>5. step[x][before] = Listing(before, ws[x], pillar, dayMaster)
        BY <4>3, <4>4
      <4> HIDE DEF step
      <4> DEFINE w == ws[x]
                 after == Listing(before, w, pillar, dayMaster)
      <4>6. after \in Seq(V)
        <5> HIDE DEF w
        <5>1. w \in W
          BY <4>4 DEF w
        <5> QED BY <4>3, <5>1, ListedOne DEF V
      <4>8. g[s] = after
        BY <4>1, <4>5
      <4> HIDE DEF after
      <4> QED BY <4>6, <4>8
    <3> QED BY <3>1, <3>2
  <2> HIDE DEF Good
  <2>2. \A s \in SUBSET S : s \in Good
    BY <1>2, <2>1, SubsetInduction
  <2> HIDE DEF Says
  <2> QED BY <2>2 DEF Good
<1>9. Lists(g, ws, pillar, dayMaster)
  <2>1. ASSUME NEW s \in SUBSET S, s # {}
        PROVE  g[s] = LET x == Max(s) IN Listing(g[s \ {x}], ws[x], pillar, dayMaster)
    <3> DEFINE x == pick[s]
               before == g[s \ {x}]
    <3>1. x \in s /\ g[s] = step[x][before] /\ x = Max(s)
      <4>1. pick[s] = Max(s)
        OBVIOUS
      <4> HIDE DEF step, pick
      <4> QED BY <1>4, <1>6, <2>1, <4>1
    <3> HIDE DEF x
    <3>2. before \in Seq(V)
      BY <1>8
    <3>3. step[x][before] = Listing(before, ws[x], pillar, dayMaster)
      <4> HIDE DEF before
      <4> QED BY <3>1, <3>2
    <3> HIDE DEF step
    <3> QED BY <3>1, <3>3
  <2> HIDE DEF step, pick
  <2>2. g = [s \in SUBSET S |-> IF s = {} THEN << >> ELSE step[pick[s]][g[s \ {pick[s]}]]]
    BY <1>5 DEF Folds
  <2> QED BY <1>6, <2>1, <2>2 DEF Lists, S
<1>10. Lists(said, ws, pillar, dayMaster)
  <2> HIDE DEF step, pick, Says
  <2> QED BY <1>9
<1>11. HiddenStemEntries(chart, pillar) = said[S]
  BY DEF HiddenStemEntries, EntryOf, FoldLeft, MapThenFoldSet, Lists, Listing, S
<1> HIDE DEF said, step, pick
<1>12. \A s \in SUBSET S : Says(said, s)
  <2> DEFINE Good == {s \in SUBSET S : Says(said, s)}
  <2>1. ASSUME NEW s \in SUBSET S, \A x \in s : s \ {x} \in Good
        PROVE  s \in Good
    <3>1. CASE s = {}
      <4>1. said[s] = << >>
        BY <1>10, <3>1 DEF Lists, S
      <4> QED BY <1>7, <3>1, <4>1
    <3>2. CASE s # {}
      <4> DEFINE x == Max(s)
                 before == said[s \ {x}]
      <4>1. x \in s /\ said[s] = Listing(before, ws[x], pillar, dayMaster)
        BY <1>3, <1>10, <3>2 DEF Lists, S
      <4> HIDE DEF x
      <4>2. Says(said, s \ {x})
        BY <2>1, <4>1
      <4> HIDE DEF before
      <4>3. before \in Seq(V)
        BY <4>2 DEF before
      <4>4. x \in S /\ ws[x] \in W
        BY <1>1, <4>1
      <4> DEFINE w == ws[x]
                 after == Listing(before, w, pillar, dayMaster)
      <4>5. after \in Seq(V)
        <5> HIDE DEF w
        <5>1. w \in W
          BY <4>4 DEF w
        <5> QED BY <4>3, <5>1, ListedOne DEF V
      <4>7. said[s] = after
        BY <4>1
      <4> HIDE DEF after
      <4> QED BY <4>5, <4>7
    <3> QED BY <3>1, <3>2
  <2> HIDE DEF Good
  <2>2. \A s \in SUBSET S : s \in Good
    BY <1>2, <2>1, SubsetInduction
  <2> HIDE DEF Says
  <2> QED BY <2>2 DEF Good
<1> QED BY <1>10, <1>11, <1>12 DEF V, S, HiddenListing

(* So the hidden stems of a pillar are entries of the ledger.              *)
LEMMA HiddenAreEntries ==
  ASSUME NEW W, NEW ws \in Seq(W), NEW chart, chart.ledger = ws, NEW pillar
  PROVE  HiddenStemEntries(chart, pillar) \in Seq({EntryOf(chart.dayMaster, e) : e \in W})
<1>1. HiddenListing(W, ws, chart, pillar)
  BY HiddenListed
<1>2. PICK said : /\ HiddenStemEntries(chart, pillar) = said[DOMAIN ws]
                  /\ \A s \in SUBSET DOMAIN ws :
                         said[s] \in Seq({EntryOf(chart.dayMaster, e) : e \in W})
  BY <1>1 DEF HiddenListing
<1> QED BY <1>2

(* Four sequences in a row.                                                *)
LEMMA FlattenFour ==
  ASSUME NEW r, NEW s, NEW t, NEW u
  PROVE  FlattenSeq(<<r, s, t, u>>) = Joined(Joined(Joined(r, s), t), u)
<1> DEFINE all == <<r, s, t, u>>
           two == Joined(r, s)
           three == Joined(two, t)
           four == Joined(three, u)
           Flattens(g) == g = [i \in 1 .. 4 |-> IF i = 1 THEN all[i] ELSE g[i - 1] \o all[i]]
           flat == CHOOSE g : Flattens(g)
           some == <<r, two, three, four>>
<1>1. Len(all) = 4 /\ all[1] = r /\ all[2] = s /\ all[3] = t /\ all[4] = u
  OBVIOUS
<1>2. FlattenSeq(all) = flat[4]
  <2> HIDE DEF all
  <2> QED BY <1>1 DEF FlattenSeq
<1> HIDE DEF all
<1>3. Flattens(some)
  <2>1. /\ some[1] = all[1] /\ some[2] = some[1] \o all[2] /\ some[3] = some[2] \o all[3]
        /\ some[4] = some[3] \o all[4]
    BY <1>1 DEF Joined
  <2>2. some = [i \in 1 .. 4 |-> some[i]]
    <3> HIDE DEF two, three, four
    <3> QED OBVIOUS
  <2> HIDE DEF some
  <2>3. \A i \in 1 .. 4 : some[i] = IF i = 1 THEN all[i] ELSE some[i - 1] \o all[i]
    <3>1. \A i \in 1 .. 4 : i = 1 \/ i = 2 \/ i = 3 \/ i = 4
      OBVIOUS
    <3>2. 2 - 1 = 1 /\ 3 - 1 = 2 /\ 4 - 1 = 3 /\ 2 # 1 /\ 3 # 1 /\ 4 # 1
      OBVIOUS
    <3> QED BY <2>1, <3>1, <3>2
  <2> QED BY <2>2, <2>3
<1> HIDE DEF some
<1>4. Flattens(flat)
  <2> HIDE DEF Flattens
  <2> QED BY <1>3
<1> HIDE DEF flat
<1>5. /\ flat[1] = all[1] /\ flat[2] = flat[1] \o all[2] /\ flat[3] = flat[2] \o all[3]
      /\ flat[4] = flat[3] \o all[4]
  <2>1. \A i \in 1 .. 4 : flat[i] = IF i = 1 THEN all[i] ELSE flat[i - 1] \o all[i]
    BY <1>4
  <2>2. flat[1] = all[1]
    BY <2>1
  <2>3. ASSUME NEW i \in 1 .. 4, NEW j, j = i - 1, i # 1 PROVE flat[i] = flat[j] \o all[i]
    BY <2>1, <2>3
  <2>4. /\ 2 \in 1 .. 4 /\ 1 = 2 - 1 /\ 2 # 1 /\ 3 \in 1 .. 4 /\ 2 = 3 - 1 /\ 3 # 1
        /\ 4 \in 1 .. 4 /\ 3 = 4 - 1 /\ 4 # 1
    OBVIOUS
  <2>5. flat[2] = flat[1] \o all[2]
    BY <2>3, <2>4, Zenon
  <2>6. flat[3] = flat[2] \o all[3]
    BY <2>3, <2>4, Zenon
  <2>7. flat[4] = flat[3] \o all[4]
    BY <2>3, <2>4, Zenon
  <2> QED BY <2>2, <2>5, <2>6, <2>7
<1> QED BY <1>1, <1>2, <1>5 DEF all, Joined

(* A ledger that names stems only.                                         *)
WithStems(s) == s \in Seq(Range(s)) /\ \A x \in Range(s) : x.stem \in 0 .. 9

(* Two such ledgers joined are one.                                        *)
LEMMA JoinedWithStems ==
  ASSUME NEW s, NEW t, WithStems(s), WithStems(t)
  PROVE  WithStems(Joined(s, t))
<1> DEFINE V == Range(s) \cup Range(t)
           both == s \o t
<1>1. Range(s) \subseteq V /\ Range(t) \subseteq V
  OBVIOUS
<1>2. \A x \in V : x.stem \in 0 .. 9
  BY DEF WithStems
<1> HIDE DEF V
<1>3. s \in Seq(V) /\ t \in Seq(V)
  BY <1>1, OverMore DEF WithStems
<1>4. both \in Seq(V) /\ Range(both) = Range(s) \cup Range(t)
  BY <1>3, ConcatRange
<1> HIDE DEF both
<1>5. both \in Seq(Range(both))
  BY <1>4, OverItsRange
<1>6. \A x \in Range(both) : x.stem \in 0 .. 9
  BY <1>1, <1>2, <1>4
<1>7. WithStems(both)
  BY <1>5, <1>6 DEF WithStems
<1> QED BY <1>7 DEF both, Joined

(* The stem found for a row of a branch is one.                            *)
LEMMA RowsNameStems ==
  ASSUME NEW branch \in 0 .. 11, NEW k \in DOMAIN RowsOf(branch)
  PROVE  /\ StemInBranch(branch, RowsOf(branch)[k][1]) \in 0 .. 9
         /\ ElementOf(StemInBranch(branch, RowsOf(branch)[k][1])) = RowsOf(branch)[k][1]
         /\ DOMAIN RowsOf(branch) \in {1 .. 1, 1 .. 2, 1 .. 3}
<1> DEFINE stems == {HiddenOf(branch)[j] : j \in DOMAIN HiddenOf(branch)}
           phase == RowsOf(branch)[k][1]
<1>1. branch \in {0, 1, 2, 3, 4, 5, 6, 7, 8, 9, 10, 11}
  OBVIOUS
<1>2. RowsOf(branch) = HiddenRows[branch + 1] /\ HiddenOf(branch) = HiddenStems[branch + 1]
  BY <1>1 DEF RowsOf, Listed, Unknown, Absent, HiddenOf
<1>3. DOMAIN HiddenRows[branch + 1] \in {1 .. 1, 1 .. 2, 1 .. 3}
  BY <1>1 DEF HiddenRows
<1>4. stems \subseteq 0 .. 9
  BY <1>1, <1>2 DEF HiddenStems
<1>5. \E s \in stems : ElementOf(s) = phase
  <2>2. CASE branch = 0
    <3>1. HiddenOf(branch) = <<9>>
      BY <1>2, <2>2 DEF HiddenStems
    <3>2. RowsOf(branch) = << <<4, 10>> >>
      BY <1>2, <2>2 DEF HiddenRows
    <3>3. k = 1
      BY <3>2
    <3>4. /\ 1 \in DOMAIN HiddenOf(branch) /\ RowsOf(branch)[1][1] = 4 /\ HiddenOf(branch)[1] = 9
      BY <3>1, <3>2
    <3>5. 9 \div 2 = 4
      OBVIOUS
    <3> QED BY <3>3, <3>4, <3>5 DEF ElementOf
  <2>3. CASE branch = 1
    <3>1. HiddenOf(branch) = <<5, 9, 7>>
      BY <1>2, <2>3 DEF HiddenStems
    <3>2. RowsOf(branch) = << <<2, 10>>, <<4, 5>>, <<3, 3>> >>
      BY <1>2, <2>3 DEF HiddenRows
    <3>3. k = 1 \/ k = 2 \/ k = 3
      BY <3>2
    <3>4. /\ 1 \in DOMAIN HiddenOf(branch) /\ RowsOf(branch)[1][1] = 2 /\ HiddenOf(branch)[1] = 5
          /\ 2 \in DOMAIN HiddenOf(branch) /\ RowsOf(branch)[2][1] = 4 /\ HiddenOf(branch)[2] = 9
          /\ 3 \in DOMAIN HiddenOf(branch) /\ RowsOf(branch)[3][1] = 3 /\ HiddenOf(branch)[3] = 7
      BY <3>1, <3>2
    <3>5. 5 \div 2 = 2 /\ 9 \div 2 = 4 /\ 7 \div 2 = 3
      OBVIOUS
    <3> QED BY <3>3, <3>4, <3>5 DEF ElementOf
  <2>4. CASE branch = 2
    <3>1. HiddenOf(branch) = <<0, 2, 4>>
      BY <1>2, <2>4 DEF HiddenStems
    <3>2. RowsOf(branch) = << <<0, 10>>, <<1, 5>>, <<2, 3>> >>
      BY <1>2, <2>4 DEF HiddenRows
    <3>3. k = 1 \/ k = 2 \/ k = 3
      BY <3>2
    <3>4. /\ 1 \in DOMAIN HiddenOf(branch) /\ RowsOf(branch)[1][1] = 0 /\ HiddenOf(branch)[1] = 0
          /\ 2 \in DOMAIN HiddenOf(branch) /\ RowsOf(branch)[2][1] = 1 /\ HiddenOf(branch)[2] = 2
          /\ 3 \in DOMAIN HiddenOf(branch) /\ RowsOf(branch)[3][1] = 2 /\ HiddenOf(branch)[3] = 4
      BY <3>1, <3>2
    <3>5. 0 \div 2 = 0 /\ 2 \div 2 = 1 /\ 4 \div 2 = 2
      OBVIOUS
    <3> QED BY <3>3, <3>4, <3>5 DEF ElementOf
  <2>5. CASE branch = 3
    <3>1. HiddenOf(branch) = <<1>>
      BY <1>2, <2>5 DEF HiddenStems
    <3>2. RowsOf(branch) = << <<0, 10>> >>
      BY <1>2, <2>5 DEF HiddenRows
    <3>3. k = 1
      BY <3>2
    <3>4. /\ 1 \in DOMAIN HiddenOf(branch) /\ RowsOf(branch)[1][1] = 0 /\ HiddenOf(branch)[1] = 1
      BY <3>1, <3>2
    <3>5. 1 \div 2 = 0
      OBVIOUS
    <3> QED BY <3>3, <3>4, <3>5 DEF ElementOf
  <2>6. CASE branch = 4
    <3>1. HiddenOf(branch) = <<4, 1, 9>>
      BY <1>2, <2>6 DEF HiddenStems
    <3>2. RowsOf(branch) = << <<2, 10>>, <<0, 5>>, <<4, 3>> >>
      BY <1>2, <2>6 DEF HiddenRows
    <3>3. k = 1 \/ k = 2 \/ k = 3
      BY <3>2
    <3>4. /\ 1 \in DOMAIN HiddenOf(branch) /\ RowsOf(branch)[1][1] = 2 /\ HiddenOf(branch)[1] = 4
          /\ 2 \in DOMAIN HiddenOf(branch) /\ RowsOf(branch)[2][1] = 0 /\ HiddenOf(branch)[2] = 1
          /\ 3 \in DOMAIN HiddenOf(branch) /\ RowsOf(branch)[3][1] = 4 /\ HiddenOf(branch)[3] = 9
      BY <3>1, <3>2
    <3>5. 4 \div 2 = 2 /\ 1 \div 2 = 0 /\ 9 \div 2 = 4
      OBVIOUS
    <3> QED BY <3>3, <3>4, <3>5 DEF ElementOf
  <2>7. CASE branch = 5
    <3>1. HiddenOf(branch) = <<2, 6, 4>>
      BY <1>2, <2>7 DEF HiddenStems
    <3>2. RowsOf(branch) = << <<1, 10>>, <<3, 5>>, <<2, 3>> >>
      BY <1>2, <2>7 DEF HiddenRows
    <3>3. k = 1 \/ k = 2 \/ k = 3
      BY <3>2
    <3>4. /\ 1 \in DOMAIN HiddenOf(branch) /\ RowsOf(branch)[1][1] = 1 /\ HiddenOf(branch)[1] = 2
          /\ 2 \in DOMAIN HiddenOf(branch) /\ RowsOf(branch)[2][1] = 3 /\ HiddenOf(branch)[2] = 6
          /\ 3 \in DOMAIN HiddenOf(branch) /\ RowsOf(branch)[3][1] = 2 /\ HiddenOf(branch)[3] = 4
      BY <3>1, <3>2
    <3>5. 2 \div 2 = 1 /\ 6 \div 2 = 3 /\ 4 \div 2 = 2
      OBVIOUS
    <3> QED BY <3>3, <3>4, <3>5 DEF ElementOf
  <2>8. CASE branch = 6
    <3>1. HiddenOf(branch) = <<3, 5>>
      BY <1>2, <2>8 DEF HiddenStems
    <3>2. RowsOf(branch) = << <<1, 10>>, <<2, 5>> >>
      BY <1>2, <2>8 DEF HiddenRows
    <3>3. k = 1 \/ k = 2
      BY <3>2
    <3>4. /\ 1 \in DOMAIN HiddenOf(branch) /\ RowsOf(branch)[1][1] = 1 /\ HiddenOf(branch)[1] = 3
          /\ 2 \in DOMAIN HiddenOf(branch) /\ RowsOf(branch)[2][1] = 2 /\ HiddenOf(branch)[2] = 5
      BY <3>1, <3>2
    <3>5. 3 \div 2 = 1 /\ 5 \div 2 = 2
      OBVIOUS
    <3> QED BY <3>3, <3>4, <3>5 DEF ElementOf
  <2>9. CASE branch = 7
    <3>1. HiddenOf(branch) = <<5, 1, 3>>
      BY <1>2, <2>9 DEF HiddenStems
    <3>2. RowsOf(branch) = << <<2, 10>>, <<1, 5>>, <<0, 3>> >>
      BY <1>2, <2>9 DEF HiddenRows
    <3>3. k = 1 \/ k = 2 \/ k = 3
      BY <3>2
    <3>4. /\ 1 \in DOMAIN HiddenOf(branch) /\ RowsOf(branch)[1][1] = 2 /\ HiddenOf(branch)[1] = 5
          /\ 3 \in DOMAIN HiddenOf(branch) /\ RowsOf(branch)[2][1] = 1 /\ HiddenOf(branch)[3] = 3
          /\ 2 \in DOMAIN HiddenOf(branch) /\ RowsOf(branch)[3][1] = 0 /\ HiddenOf(branch)[2] = 1
      BY <3>1, <3>2
    <3>5. 5 \div 2 = 2 /\ 3 \div 2 = 1 /\ 1 \div 2 = 0
      OBVIOUS
    <3> QED BY <3>3, <3>4, <3>5 DEF ElementOf
  <2>10. CASE branch = 8
    <3>1. HiddenOf(branch) = <<6, 8, 4>>
      BY <1>2, <2>10 DEF HiddenStems
    <3>2. RowsOf(branch) = << <<3, 10>>, <<4, 5>>, <<2, 3>> >>
      BY <1>2, <2>10 DEF HiddenRows
    <3>3. k = 1 \/ k = 2 \/ k = 3
      BY <3>2
    <3>4. /\ 1 \in DOMAIN HiddenOf(branch) /\ RowsOf(branch)[1][1] = 3 /\ HiddenOf(branch)[1] = 6
          /\ 2 \in DOMAIN HiddenOf(branch) /\ RowsOf(branch)[2][1] = 4 /\ HiddenOf(branch)[2] = 8
          /\ 3 \in DOMAIN HiddenOf(branch) /\ RowsOf(branch)[3][1] = 2 /\ HiddenOf(branch)[3] = 4
      BY <3>1, <3>2
    <3>5. 6 \div 2 = 3 /\ 8 \div 2 = 4 /\ 4 \div 2 = 2
      OBVIOUS
    <3> QED BY <3>3, <3>4, <3>5 DEF ElementOf
  <2>11. CASE branch = 9
    <3>1. HiddenOf(branch) = <<7>>
      BY <1>2, <2>11 DEF HiddenStems
    <3>2. RowsOf(branch) = << <<3, 10>> >>
      BY <1>2, <2>11 DEF HiddenRows
    <3>3. k = 1
      BY <3>2
    <3>4. /\ 1 \in DOMAIN HiddenOf(branch) /\ RowsOf(branch)[1][1] = 3 /\ HiddenOf(branch)[1] = 7
      BY <3>1, <3>2
    <3>5. 7 \div 2 = 3
      OBVIOUS
    <3> QED BY <3>3, <3>4, <3>5 DEF ElementOf
  <2>12. CASE branch = 10
    <3>1. HiddenOf(branch) = <<4, 7, 3>>
      BY <1>2, <2>12 DEF HiddenStems
    <3>2. RowsOf(branch) = << <<2, 10>>, <<3, 5>>, <<1, 3>> >>
      BY <1>2, <2>12 DEF HiddenRows
    <3>3. k = 1 \/ k = 2 \/ k = 3
      BY <3>2
    <3>4. /\ 1 \in DOMAIN HiddenOf(branch) /\ RowsOf(branch)[1][1] = 2 /\ HiddenOf(branch)[1] = 4
          /\ 2 \in DOMAIN HiddenOf(branch) /\ RowsOf(branch)[2][1] = 3 /\ HiddenOf(branch)[2] = 7
          /\ 3 \in DOMAIN HiddenOf(branch) /\ RowsOf(branch)[3][1] = 1 /\ HiddenOf(branch)[3] = 3
      BY <3>1, <3>2
    <3>5. 4 \div 2 = 2 /\ 7 \div 2 = 3 /\ 3 \div 2 = 1
      OBVIOUS
    <3> QED BY <3>3, <3>4, <3>5 DEF ElementOf
  <2>13. CASE branch = 11
    <3>1. HiddenOf(branch) = <<8, 0>>
      BY <1>2, <2>13 DEF HiddenStems
    <3>2. RowsOf(branch) = << <<4, 10>>, <<0, 5>> >>
      BY <1>2, <2>13 DEF HiddenRows
    <3>3. k = 1 \/ k = 2
      BY <3>2
    <3>4. /\ 1 \in DOMAIN HiddenOf(branch) /\ RowsOf(branch)[1][1] = 4 /\ HiddenOf(branch)[1] = 8
          /\ 2 \in DOMAIN HiddenOf(branch) /\ RowsOf(branch)[2][1] = 0 /\ HiddenOf(branch)[2] = 0
      BY <3>1, <3>2
    <3>5. 8 \div 2 = 4 /\ 0 \div 2 = 0
      OBVIOUS
    <3> QED BY <3>3, <3>4, <3>5 DEF ElementOf
  <2> QED BY <1>1, <2>2, <2>3, <2>4, <2>5, <2>6, <2>7, <2>8, <2>9, <2>10, <2>11, <2>12, <2>13
<1>6. StemInBranch(branch, phase) = CHOOSE s \in stems : ElementOf(s) = phase
  BY DEF StemInBranch
<1> HIDE DEF stems, phase
<1>7. StemInBranch(branch, phase) \in stems /\ ElementOf(StemInBranch(branch, phase)) = phase
  BY <1>5, <1>6
<1> QED BY <1>2, <1>3, <1>4, <1>7 DEF phase

(* So the ledger of a chart names stems only.                              *)
LEMMA LedgerHasStems ==
  ASSUME NEW chart, DOMAIN chart = 1 .. 4, \A i \in 1 .. 4 : chart[i] \in Pillar
  PROVE  WithStems(StemLedger(chart))
<1> DEFINE First(i) == << StemEntry(i, chart[i].stem) >>
           Rest(i) == [k \in DOMAIN RowsOf(chart[i].branch) |-> HiddenEntry(i, chart[i].branch, k)]
           Part(i) == Joined(First(i), Rest(i))
<1>1. ASSUME NEW i \in 1 .. 4 PROVE WithStems(Part(i))
  <2>1. chart[i].stem \in 0 .. 9 /\ chart[i].branch \in 0 .. 11
    BY DEF Pillar
  <2>2. WithStems(First(i))
    <3> DEFINE e == StemEntry(i, chart[i].stem)
    <3>1. e.stem \in 0 .. 9
      BY <2>1 DEF StemEntry
    <3> HIDE DEF e
    <3>2. DOMAIN <<e>> = {1} /\ <<e>>[1] = e /\ <<e>> \in Seq({e})
      OBVIOUS
    <3>3. Range(<<e>>) = {e}
      BY <3>2 DEF Range
    <3>4. WithStems(<<e>>)
      BY <3>1, <3>2, <3>3 DEF WithStems
    <3> QED BY <3>4 DEF e
  <2>3. WithStems(Rest(i))
    <3> DEFINE branch == chart[i].branch
               rows == RowsOf(branch)
               rest == [k \in DOMAIN rows |-> HiddenEntry(i, branch, k)]
    <3>1. \A k \in DOMAIN rows : HiddenEntry(i, branch, k).stem \in 0 .. 9
      BY <2>1, RowsNameStems DEF HiddenEntry
    <3>2. DOMAIN rows = {} \/ DOMAIN rows \in {1 .. 1, 1 .. 2, 1 .. 3}
      BY <2>1, RowsNameStems
    <3> HIDE DEF rows, branch
    <3>3. DOMAIN rest = DOMAIN rows /\ \A k \in DOMAIN rows : rest[k] = HiddenEntry(i, branch, k)
      OBVIOUS
    <3>4. PICK n \in 0 .. 3 : DOMAIN rows = 1 .. n
      BY <3>2
    <3>5. rest = [k \in 1 .. n |-> rest[k]] /\ \A k \in 1 .. n : rest[k] \in Range(rest)
      BY <3>3, <3>4 DEF Range
    <3> HIDE DEF rest
    <3>6. rest \in Seq(Range(rest))
      <4> DEFINE R == Range(rest)
      <4> HIDE DEF R
      <4>1. rest = [k \in 1 .. n |-> rest[k]] /\ n \in Nat /\ \A k \in 1 .. n : rest[k] \in R
        BY <3>5 DEF R
      <4>2. rest \in Seq(R)
        BY <4>1
      <4> QED BY <4>2 DEF R
    <3>7. \A x \in Range(rest) : x.stem \in 0 .. 9
      BY <3>1, <3>3 DEF Range
    <3>8. WithStems(rest)
      BY <3>6, <3>7 DEF WithStems
    <3> QED BY <3>8 DEF rest, rows, branch
  <2> HIDE DEF First, Rest
  <2> QED BY <2>2, <2>3, JoinedWithStems
<1> DEFINE p == Part(1)
           q == Part(2)
           r == Part(3)
           s == Part(4)
<1>2. StemLedger(chart) = FlattenSeq([i \in 1 .. 4 |-> Part(i)])
  BY DEF StemLedger, Joined
<1>3. WithStems(p) /\ WithStems(q) /\ WithStems(r) /\ WithStems(s)
  BY <1>1
<1> HIDE DEF Part
<1>4. [i \in 1 .. 4 |-> Part(i)] = <<p, q, r, s>>
  OBVIOUS
<1> HIDE DEF p, q, r, s
<1>5. WithStems(Joined(Joined(Joined(p, q), r), s))
  BY <1>3, JoinedWithStems
<1>6. FlattenSeq(<<p, q, r, s>>) = Joined(Joined(Joined(p, q), r), s)
  BY FlattenFour
<1> QED BY <1>2, <1>4, <1>5, <1>6

(* The gods in a pillar's block are named alike.                           *)
LEMMA PillarNames ==
  ASSUME NEW pillars, DOMAIN pillars = 1 .. 4, \A i \in 1 .. 4 : pillars[i] \in Pillar,
         NEW chart, chart.pillars = pillars, chart.dayMaster = pillars[3].stem,
         chart.ledger = StemLedger(pillars), NEW i \in 1 .. 4,
         NEW god \in TenGodsIn(PillarBlock(chart, i))
  PROVE  <<god.name, god.pinyin>> \in GodNames
<1> DEFINE hidden == HiddenStemEntries(chart, i)
           m == chart.dayMaster
           ledger == chart.ledger
           stem == pillars[i].stem
           W == Range(ledger)
           block == PillarBlock(chart, i)
           own == IF i = 3 THEN {} ELSE {TenGodBlock(m, stem)}
<1>1. m \in 0 .. 9 /\ stem \in 0 .. 9
  BY DEF Pillar
<1>2. ledger \in Seq(W) /\ \A e \in W : e.stem \in 0 .. 9
  BY LedgerHasStems DEF WithStems
<1>3. hidden \in Seq({EntryOf(m, e) : e \in W})
  <2> HIDE DEF W
  <2> QED BY <1>2, HiddenAreEntries
<1>4. block.tenGod = own /\ block.hidden = hidden
  <2> HIDE DEF hidden
  <2> QED BY DEF PillarBlock, hidden
<1> HIDE DEF hidden, W, block
<1>5. god \in own \/ \E k \in DOMAIN hidden : god = hidden[k].tenGod
  BY <1>4 DEF TenGodsIn, block
<1>6. CASE god \in own
  BY <1>1, <1>6, BlockNames
<1>7. CASE \E k \in DOMAIN hidden : god = hidden[k].tenGod
  <2>1. PICK k \in DOMAIN hidden : god = hidden[k].tenGod
    BY <1>7
  <2>2. hidden[k] \in {EntryOf(m, e) : e \in W}
    BY <1>3
  <2>3. PICK e \in W : hidden[k] = EntryOf(m, e)
    BY <2>2
  <2>4. EntryOf(m, e).tenGod = TenGodBlock(m, e.stem)
    BY DEF EntryOf
  <2> QED BY <1>1, <1>2, <2>1, <2>3, <2>4, BlockNames
<1> QED BY <1>5, <1>6, <1>7

(* So are those in every natal chart answered.                             *)
LEMMA NatalNames ==
  ASSUME Settings, AnswersSaid, NEW q \in AnsweredBy({"natal"}), NEW i \in 1 .. 4,
         NEW god \in TenGodsIn(Body(q).pillars[i])
  PROVE  <<god.name, god.pinyin>> \in GodNames
<1> DEFINE b == Births[birth]
           x == answers[q].answer
           e == answers[q].eph
           pillars == BaziOf(b, asked, asked.boundary, Found(e, "bazi")).value.chart
           chart == Charted(b, asked, e)
<1>1. x.status = 200 /\ x = Natal(b, asked, e) /\ Body(q) = x.body
  BY EntrySaid DEF Said, ChartSaid
<1>2. b \in BirthType /\ asked \in Requests
  BY ClientAsks
<1>3. /\ BaziOf(b, asked, asked.boundary, Found(e, "bazi")).error = "none"
      /\ x.body.pillars = Blocks(chart)
  BY <1>1, NatalSays
<1>4. DOMAIN pillars = 1 .. 4 /\ \A k \in 1 .. 4 : pillars[k] \in Pillar
  <2> DEFINE u == InstantOf(b, asked)
  <2>1. pillars = Chart(b, u, asked.standard, asked.boundary)
    BY <1>2, <1>3, BaziOfSays
  <2>2. u \in Int
    BY <1>2, <1>3, BaziOfSays, ReadAgain
  <2>3. asked.standard \in {"CIVIL", "LMT", "TLST"}
    BY <1>2 DEF Requests
  <2> HIDE DEF u, pillars, b
  <2> QED BY <1>2, <2>1, <2>2, <2>3, ChartHasPillars
<1>5. chart.pillars = pillars /\ chart.dayMaster = pillars[3].stem
      /\ chart.ledger = StemLedger(pillars)
  BY NormalizeSays DEF Charted
<1>6. Blocks(chart)[i] = PillarBlock(chart, i)
  BY DEF Blocks
<1> HIDE DEF pillars, chart, b, x, e
<1>7. god \in TenGodsIn(PillarBlock(chart, i))
  BY <1>1, <1>3, <1>6
<1> QED BY <1>4, <1>5, <1>7, PillarNames

(* The profile names a stem as its day master.                             *)
LEMMA ProfileNamesMaster ==
  ASSUME NEW b \in BirthType, NEW e, Profile(b, e).error = "none"
  PROVE  Profile(b, e).value.dayMaster \in 0 .. 9
<1> DEFINE bazi == BaziOfProfile(b, Found(e, "bazi"))
           sky == Western(b, bazi.value.at, Found(e, "western"))
           fusion == Strictly(sky.value.bodies, sky.value.ascendant, bazi.value.chart)
<1>1. bazi.error = "none" /\ Profile(b, e).value = ProfileOf(bazi.value, sky.value, fusion.value)
  BY ProfileSays
<1>2. bazi.value.chart[3].stem \in 0 .. 9
  BY <1>1, ProfileMaster
<1> HIDE DEF bazi, sky, fusion
<1>3. ProfileOf(bazi.value, sky.value, fusion.value).dayMaster = bazi.value.chart[3].stem
  BY DEF ProfileOf
<1> QED BY <1>1, <1>2, <1>3

(* What is known of a day's reading that succeeded.                        *)
LEMMA DailyAnswered ==
  ASSUME Settings, AnswersSaid, NEW q \in AnsweredBy({"daily"})
  PROVE  LET b == Births[birth]
             profile == Profile(b, answers[q].eph).value
         IN  /\ b \in BirthType /\ q[2] \in Int /\ profile.dayMaster \in 0 .. 9
             /\ Body(q).eastern = EasternDaily(b, profile.dayMaster, q[2],
                                               Found(answers[q].eph, "term"))
             /\ \E soulprint :
                    Body(q).impact =
                        UNION {DailyImpact(b, profile, soulprint, Equal, q[2], w,
                                           Found(answers[q].eph, "impact")) : w \in q[3]}
<1> DEFINE b == Births[birth]
           e == answers[q].eph
           profile == Profile(b, e).value
<1>1. /\ q[2] \in DaysOf(b)
      /\ answers[q].answer.status = 200 /\ Body(q) = answers[q].answer.body
      /\ \E soulprint :
             answers[q].answer = Daily(b, asked.timeKnown, soulprint, Equal, q[2], q[3], e)
  BY EntrySaid DEF Said, AppSaid
<1>2. PICK soulprint :
          answers[q].answer = Daily(b, asked.timeKnown, soulprint, Equal, q[2], q[3], e)
  BY <1>1
<1>3. /\ Profile(b, e).error = "none"
      /\ Body(q).eastern = EasternDaily(b, profile.dayMaster, q[2], Found(e, "term"))
      /\ Body(q).impact =
             UNION {DailyImpact(b, profile, soulprint, Equal, q[2], w,
                                Found(e, "impact")) : w \in q[3]}
  BY <1>1, <1>2, DailySays
<1>4. b \in BirthType
  BY ClientAsks
<1>5. q[2] \in Int
  <2>1. b.wall \in Int
    <3> HIDE DEF b, e, profile
    <3> QED BY <1>4, BirthFields
  <2> HIDE DEF b
  <2>2. b.wall \div 1440 \in Int
    BY <2>1
  <2> QED BY <1>1, <2>2 DEF DaysOf
<1>6. profile.dayMaster \in 0 .. 9
  BY <1>3, <1>4, ProfileNamesMaster
<1> HIDE DEF b, profile, e
<1>7. \E s : Body(q).impact = UNION {DailyImpact(b, profile, s, Equal, q[2], w,
                                                Found(e, "impact")) : w \in q[3]}
  BY <1>3
<1> QED BY <1>3, <1>4, <1>5, <1>6, <1>7 DEF b, profile, e

(* A day in the east is drawn for the day asked about, whoever is asked.   *)
LEMMA EasternDrawn ==
  ASSUME Settings, AnswersSaid, NEW q \in AnsweredBy({"daily", "eastern"})
  PROVE  \E dayMaster \in 0 .. 9 :
            /\ q[2] \in Int
            /\ EasternIn(q) = EasternDaily(Births[birth], dayMaster, q[2],
                                           Found(answers[q].eph, "term"))
<1> DEFINE b == Births[birth]
           e == answers[q].eph
           east == EasternIn(q)
<1>1. CASE q[1] = "daily"
  <2>1. q \in AnsweredBy({"daily"})
    BY <1>1 DEF AnsweredBy
  <2>2. /\ q[2] \in Int /\ Profile(b, e).value.dayMaster \in 0 .. 9
        /\ Body(q).eastern = EasternDaily(b, Profile(b, e).value.dayMaster, q[2], Found(e, "term"))
    BY <2>1, DailyAnswered
  <2> QED BY <1>1, <2>2 DEF EasternIn
<1>2. CASE q[1] = "eastern"
  <2>1. /\ q[2] \in DaysOf(b) /\ q[3] \in 0 .. 9
        /\ answers[q].answer = Answer(EasternDaily(b, q[3], q[2], Found(e, "term")))
        /\ Body(q) = answers[q].answer.body
    BY <1>2, EntrySaid DEF Said, AppSaid
  <2>2. b.wall \in Int
    <3>1. b \in BirthType
      BY ClientAsks
    <3> HIDE DEF b
    <3> QED BY <3>1, BirthFields
  <2>3. Body(q) = EasternDaily(b, q[3], q[2], Found(e, "term"))
    BY <2>1, AnswerSays
  <2> HIDE DEF b
  <2>4. b.wall \div 1440 \in Int
    BY <2>2
  <2>5. q[2] \in Int
    BY <2>1, <2>4 DEF DaysOf
  <2>6. east = Body(q)
    BY <1>2 DEF EasternIn
  <2>7. q[3] \in 0 .. 9 /\ q[2] \in Int /\ east = EasternDaily(b, q[3], q[2], Found(e, "term"))
    BY <2>1, <2>3, <2>5, <2>6
  <2> HIDE DEF east, e
  <2>8. \E dayMaster \in 0 .. 9 :
            q[2] \in Int /\ east = EasternDaily(b, dayMaster, q[2], Found(e, "term"))
    BY <2>7
  <2> QED BY <2>8 DEF b, e, east
<1>3. q[1] = "daily" \/ q[1] = "eastern"
  BY EntrySaid
<1> QED BY <1>1, <1>2, <1>3

(* The relation of a day answered is that of its stem.                     *)
LEMMA EasternRelates ==
  ASSUME Settings, AnswersSaid, NEW q \in AnsweredBy({"daily", "eastern"})
  PROVE  RelationOfGod[EasternIn(q).relation] =
             RelationToDayMaster(EasternIn(q).pillar.stem, EasternIn(q).dayMaster).relation
<1> DEFINE b == Births[birth]
           e == Found(answers[q].eph, "term")
           east == EasternIn(q)
<1>1. \E dayMaster \in 0 .. 9 : q[2] \in Int /\ east = EasternDaily(b, dayMaster, q[2], e)
  BY EasternDrawn
<1>2. PICK dayMaster \in 0 .. 9 : q[2] \in Int /\ east = EasternDaily(b, dayMaster, q[2], e)
  BY <1>1
<1>3. Epoch \in Int
  BY BirthsAssumption
<1> HIDE DEF east, b, e
<1>4. RelationOfGod[east.relation] = RelationToDayMaster(east.pillar.stem, east.dayMaster).relation
  BY <1>2, <1>3, DaysRelate
<1> QED BY <1>4 DEF east

(* And so with every impact answered.                                      *)
LEMMA ImpactsResound ==
  ASSUME Settings, AnswersSaid, NEW q \in AnsweredBy({"daily", "impact"}),
         NEW impact \in ImpactsIn(q), NEW p \in impact.active
  PROVE  p.resonance.type =
             ResonanceOf[DetermineRelation(impact.dayMaster, p.resonance.element)]
<1> DEFINE b == Births[birth]
           e == answers[q].eph
<1>1. \E dayMaster \in 0 .. 9 : \E natal, cusps, sectors, weather :
          impact = ImpactOf(dayMaster, natal, cusps, q[2], sectors, weather)
  <2>1. CASE q[1] = "daily"
    <3> DEFINE profile == Profile(b, e).value
    <3>1. q \in AnsweredBy({"daily"})
      BY <2>1 DEF AnsweredBy
    <3>2. profile.dayMaster \in 0 .. 9
      BY <3>1, DailyAnswered
    <3>3. PICK soulprint : Body(q).impact =
              UNION {DailyImpact(b, profile, soulprint, Equal, q[2], w,
                                 Found(e, "impact")) : w \in q[3]}
      BY <3>1, DailyAnswered
    <3>4. impact \in Body(q).impact
      BY <2>1 DEF ImpactsIn
    <3> HIDE DEF profile, b
    <3>5. PICK w : impact \in DailyImpact(b, profile, soulprint, Equal, q[2], w,
                                         Found(e, "impact"))
      BY <3>3, <3>4
    <3>6. impact = ImpactOf(profile.dayMaster, Longitudes(b, profile.at), Cusps(b, profile.at),
                            q[2], <<SectorsToWuXing(soulprint), SectorsToWuXing(Equal)>>, w)
      BY <3>5 DEF DailyImpact
    <3> QED BY <3>2, <3>6
  <2>2. CASE q[1] = "impact"
    <3> DEFINE bazi == BaziOfProfile(b, Found(e, "bazi"))
    <3>1. /\ answers[q].answer.status = 200 /\ Body(q) = answers[q].answer.body
          /\ \E sectors : answers[q].answer = ImpactActive(b, q[2], sectors, q[3], e)
      BY <2>2, EntrySaid DEF Said, AppSaid
    <3>2. PICK sectors : answers[q].answer = ImpactActive(b, q[2], sectors, q[3], e)
      BY <3>1
    <3>3. /\ bazi.error = "none"
          /\ Body(q) = ImpactOf(bazi.value.chart[3].stem, Longitudes(b, bazi.value.at),
                                Cusps(b, bazi.value.at), q[2], sectors, q[3])
      BY <3>1, <3>2, ImpactSays
    <3>4. bazi.value.chart[3].stem \in 0 .. 9
      BY <3>3, ClientAsks, ProfileMaster
    <3>5. impact = Body(q)
      BY <2>2 DEF ImpactsIn
    <3> HIDE DEF bazi, b
    <3> QED BY <3>3, <3>4, <3>5
  <2>3. q[1] = "daily" \/ q[1] = "impact"
    BY EntrySaid
  <2> QED BY <2>1, <2>2, <2>3
<1>2. PICK dayMaster \in 0 .. 9 : \E natal, cusps, sectors, weather :
          impact = ImpactOf(dayMaster, natal, cusps, q[2], sectors, weather)
  BY <1>1
<1>3. PICK natal, cusps, sectors, weather :
          impact = ImpactOf(dayMaster, natal, cusps, q[2], sectors, weather)
  BY <1>2
<1> QED BY <1>2, <1>3, ImpactResounds

(* Of every stem of a natal chart, visible or hidden, both names mean the  *)
(* same god; so do the relation of a day in the east and the resonance of  *)
(* a planet (routers/natal.py, dayun/relation.py,                          *)
(* services/daily_eastern.py, impact_resonance.py, each by tables of its   *)
(* own).                                                                   *)
THEOREM GodsNamedAlike == Spec => []TenGodsAgree
<1>1. IInv => TenGodsAgree
  <2> SUFFICES ASSUME Settings, AnswersSaid PROVE TenGodsAgree
    BY DEF IInv
  <2> QED BY NatalNames, EasternRelates, ImpactsResound DEF TenGodsAgree
<1> QED BY <1>1, InvAlways, PTL

-----------------------------------------------------------------------------
(* Sums further: the ledgers and vectors of a chart. A vector sums up a    *)
(* ledger, and two ledgers are compared line by line.                      *)

(* The function that gives the sum over a set gives the sums over its      *)
(* subsets.                                                                *)
LEMMA SumOfPart ==
  ASSUME NEW S, IsFiniteSet(S), NEW f, \A x \in S : f[x] \in Nat, NEW g, IsSum(g, f, S),
         NEW T \in SUBSET S
  PROVE  SumFunctionOnSet(f, T) = g[T]
<1>1. IsFiniteSet(T) /\ \A x \in T : f[x] \in Nat
  BY FS_Subset
<1>2. PICK h : IsSum(h, f, T) /\ SumFunctionOnSet(f, T) = h[T]
  BY <1>1, SumExists DEF Sums
<1> DEFINE Good == {s \in SUBSET T : h[s] = g[s]}
<1>3. ASSUME NEW s \in SUBSET T, \A x \in s : s \ {x} \in Good
      PROVE  s \in Good
  <2>1. s \in SUBSET S
    OBVIOUS
  <2>2. CASE s = {}
    BY <1>2, <2>1, <2>2 DEF IsSum
  <2>3. CASE s # {}
    <3> DEFINE x == CHOOSE y \in s : TRUE
    <3>1. x \in s
      BY <2>3
    <3>2. g[s] = f[x] + g[s \ {x}] /\ h[s] = f[x] + h[s \ {x}]
      BY <1>2, <2>1, <2>3 DEF IsSum
    <3>3. s \ {x} \in Good
      BY <1>3, <3>1
    <3> HIDE DEF x
    <3> QED BY <3>2, <3>3
  <2> QED BY <2>2, <2>3
<1> HIDE DEF Good
<1>4. \A s \in SUBSET T : s \in Good
  BY <1>1, <1>3, SubsetInduction
<1> QED BY <1>2, <1>4 DEF Good

(* A sum over nothing is 0.                                                *)
LEMMA SumOfNone ==
  ASSUME NEW f
  PROVE  SumFunctionOnSet(f, {}) = 0
<1>1. IsFiniteSet({}) /\ \A x \in {} : f[x] \in Nat
  BY FS_EmptySet
<1>2. PICK g : IsSum(g, f, {}) /\ SumFunctionOnSet(f, {}) = g[{}]
  BY <1>1, SumExists DEF Sums
<1> QED BY <1>2 DEF IsSum

(* A sum begins with some element.                                         *)
LEMMA SumTakesFirst ==
  ASSUME NEW S, IsFiniteSet(S), NEW f, \A x \in S : f[x] \in Nat, S # {}
  PROVE  \E x \in S : SumFunctionOnSet(f, S) = f[x] + SumFunctionOnSet(f, S \ {x})
<1>1. PICK g : IsSum(g, f, S) /\ SumFunctionOnSet(f, S) = g[S]
  BY SumExists DEF Sums
<1>2. PICK x \in S : g[S] = f[x] + g[S \ {x}]
  <2> DEFINE x == CHOOSE y \in S : TRUE
  <2>1. x \in S
    OBVIOUS
  <2>2. g[S] = f[x] + g[S \ {x}]
    BY <1>1, Zenon DEF IsSum
  <2> HIDE DEF x
  <2> QED BY <2>1, <2>2
<1>3. SumFunctionOnSet(f, S \ {x}) = g[S \ {x}]
  BY <1>1, SumOfPart
<1> QED BY <1>1, <1>2, <1>3

(* It may as well begin with any other: the choice of the library does not *)
(* matter.                                                                 *)
LEMMA SumTakesAny ==
  ASSUME NEW S, IsFiniteSet(S), NEW f, \A x \in S : f[x] \in Nat, NEW x \in S
  PROVE  SumFunctionOnSet(f, S) = f[x] + SumFunctionOnSet(f, S \ {x})
<1> DEFINE Sum(s) == SumFunctionOnSet(f, s)
           Good == {s \in SUBSET S : \A y \in s : Sum(s) = f[y] + Sum(s \ {y})}
<1>1. \A s \in SUBSET S : Sum(s) \in Nat
  <2> TAKE s \in SUBSET S
  <2>1. IsFiniteSet(s) /\ \A y \in s : f[y] \in Nat
    BY FS_Subset
  <2> QED BY <2>1, SumIsNatural
<1>2. \A s \in SUBSET S : s # {} => \E y \in s : Sum(s) = f[y] + Sum(s \ {y})
  <2> TAKE s \in SUBSET S
  <2>1. IsFiniteSet(s) /\ \A y \in s : f[y] \in Nat
    BY FS_Subset
  <2> QED BY <2>1, SumTakesFirst
<1> HIDE DEF Sum
<1>3. ASSUME NEW s \in SUBSET S, \A y \in s : s \ {y} \in Good
      PROVE  s \in Good
  <2> SUFFICES ASSUME NEW y \in s PROVE Sum(s) = f[y] + Sum(s \ {y})
    OBVIOUS
  <2>1. PICK z \in s : Sum(s) = f[z] + Sum(s \ {z})
    BY <1>2
  <2>2. CASE y = z
    BY <2>1, <2>2
  <2>3. CASE y # z
    <3> DEFINE rest == s \ {y, z}
    <3>1. y \in s \ {z} /\ z \in s \ {y} /\ s \ {z} \in Good /\ s \ {y} \in Good
      BY <1>3, <2>3
    <3>2. (s \ {z}) \ {y} = rest /\ (s \ {y}) \ {z} = rest
      OBVIOUS
    <3>3. Sum(s \ {z}) = f[y] + Sum(rest) /\ Sum(s \ {y}) = f[z] + Sum(rest)
      BY <3>1, <3>2
    <3>4. f[y] \in Nat /\ f[z] \in Nat /\ Sum(rest) \in Nat
      BY <1>1
    <3> HIDE DEF rest
    <3> QED BY <2>1, <3>3, <3>4
  <2> QED BY <2>2, <2>3
<1> HIDE DEF Good
<1>4. \A s \in SUBSET S : s \in Good
  BY <1>3, SubsetInduction
<1>5. S \in Good
  BY <1>4
<1> QED BY <1>5 DEF Good, Sum

(* A sum does not change when its terms are given other places.            *)
LEMMA SumCarried ==
  ASSUME NEW S, IsFiniteSet(S), NEW f, \A x \in S : f[x] \in Nat, NEW h, NEW to,
         \A x \in S : h[to[x]] = f[x], \A x \in S : \A y \in S : to[x] = to[y] => x = y
  PROVE  SumFunctionOnSet(h, {to[x] : x \in S}) = SumFunctionOnSet(f, S)
<1> DEFINE Image(s) == {to[x] : x \in s}
           Good == {s \in SUBSET S : /\ IsFiniteSet(Image(s))
                             /\ SumFunctionOnSet(h, Image(s)) = SumFunctionOnSet(f, s)}
<1>1. ASSUME NEW s \in SUBSET S, \A x \in s : s \ {x} \in Good
      PROVE  s \in Good
  <2>1. CASE s = {}
    <3>1. Image(s) = {}
      BY <2>1
    <3>2. IsFiniteSet(Image(s))
      BY <3>1, FS_EmptySet
    <3> QED BY <2>1, <3>1, <3>2, SumOfNone
  <2>2. CASE s # {}
    <3>1. PICK x \in s : TRUE
      BY <2>2
    <3>2. IsFiniteSet(s)
      BY FS_Subset
    <3>3. SumFunctionOnSet(f, s) = f[x] + SumFunctionOnSet(f, s \ {x})
      BY <3>2, SumTakesAny
    <3>4. Image(s \ {x}) = Image(s) \ {to[x]} /\ to[x] \in Image(s)
      OBVIOUS
    <3>5. \A y \in Image(s) : h[y] \in Nat
      OBVIOUS
    <3>6. Image(s) = Image(s \ {x}) \cup {to[x]}
      BY <3>4
    <3>7. s \ {x} \in Good
      BY <1>1
    <3> HIDE DEF Image
    <3>8. IsFiniteSet(Image(s))
      <4>1. IsFiniteSet(Image(s \ {x}))
        BY <3>7
      <4>2. IsFiniteSet(Image(s \ {x}) \cup {to[x]})
        <5> DEFINE most == Image(s \ {x})
                   one == to[x]
        <5>1. IsFiniteSet(most)
          BY <4>1
        <5> HIDE DEF most, one
        <5>2. IsFiniteSet(most \cup {one})
          BY <5>1, FS_AddElement
        <5> QED BY <5>2 DEF most, one
      <4> QED BY <3>6, <4>2
    <3>9. SumFunctionOnSet(h, Image(s)) = h[to[x]] + SumFunctionOnSet(h, Image(s) \ {to[x]})
      BY <3>4, <3>5, <3>8, SumTakesAny
    <3> QED BY <3>3, <3>4, <3>7, <3>8, <3>9
  <2> QED BY <2>1, <2>2
<1> HIDE DEF Good
<1>2. \A s \in SUBSET S : s \in Good
  BY <1>1, SubsetInduction
<1>3. S \in Good
  BY <1>2
<1> QED BY <1>3 DEF Good

(* Nor does it when they are given by another function.                    *)
LEMMA SumAlike ==
  ASSUME NEW S, IsFiniteSet(S), NEW f, \A x \in S : f[x] \in Nat, NEW h,
         \A x \in S : h[x] = f[x]
  PROVE  SumFunctionOnSet(h, S) = SumFunctionOnSet(f, S)
<1> DEFINE to == [x \in S |-> x]
<1>1. \A x \in S : to[x] = x
  OBVIOUS
<1> HIDE DEF to
<1>2. {to[x] : x \in S} = S
  BY <1>1
<1>3. \A x \in S : h[to[x]] = f[x]
  BY <1>1
<1>4. \A x \in S : \A y \in S : to[x] = to[y] => x = y
  BY <1>1
<1>5. SumFunctionOnSet(h, {to[x] : x \in S}) = SumFunctionOnSet(f, S)
  BY <1>3, <1>4, SumCarried
<1> QED BY <1>2, <1>5

(* The sum over two sets apart is the sum of their sums.                   *)
LEMMA SumApart ==
  ASSUME NEW A, NEW B, IsFiniteSet(A \cup B), A \cap B = {}, NEW f,
         \A x \in A \cup B : f[x] \in Nat
  PROVE  SumFunctionOnSet(f, A \cup B) = SumFunctionOnSet(f, A) + SumFunctionOnSet(f, B)
<1> DEFINE Sum(s) == SumFunctionOnSet(f, s)
           Good == {s \in SUBSET B : Sum(A \cup s) = Sum(A) + Sum(s)}
<1>1. \A s \in SUBSET (A \cup B) : Sum(s) \in Nat
  <2> TAKE s \in SUBSET (A \cup B)
  <2>1. IsFiniteSet(s) /\ \A y \in s : f[y] \in Nat
    BY FS_Subset
  <2> QED BY <2>1, SumIsNatural
<1>2. \A s \in SUBSET (A \cup B) : \A x \in s : Sum(s) = f[x] + Sum(s \ {x})
  <2> TAKE s \in SUBSET (A \cup B)
  <2>1. IsFiniteSet(s) /\ \A y \in s : f[y] \in Nat
    BY FS_Subset
  <2> QED BY <2>1, SumTakesAny
<1>3. Sum({}) = 0
  BY SumOfNone
<1> HIDE DEF Sum
<1>4. ASSUME NEW s \in SUBSET B, \A x \in s : s \ {x} \in Good
      PROVE  s \in Good
  <2>1. CASE s = {}
    <3>1. A \cup s = A /\ Sum(A) \in Nat
      BY <1>1, <2>1
    <3>2. Sum(s) = 0
      BY <1>3, <2>1
    <3> QED BY <3>1, <3>2
  <2>2. CASE s # {}
    <3>1. PICK x \in s : TRUE
      BY <2>2
    <3>2. x \notin A /\ (A \cup s) \ {x} = A \cup (s \ {x}) /\ x \in A \cup s
      OBVIOUS
    <3>3. Sum(s) = f[x] + Sum(s \ {x}) /\ Sum(A \cup s) = f[x] + Sum(A \cup (s \ {x}))
      BY <1>2, <3>2
    <3>4. Sum(A \cup (s \ {x})) = Sum(A) + Sum(s \ {x})
      BY <1>4
    <3>5. f[x] \in Nat /\ Sum(A) \in Nat /\ Sum(s \ {x}) \in Nat
      BY <1>1
    <3> QED BY <3>3, <3>4, <3>5
  <2> QED BY <2>1, <2>2
<1>5. IsFiniteSet(B)
  BY FS_Subset
<1> HIDE DEF Good
<1>6. \A s \in SUBSET B : s \in Good
  BY <1>4, <1>5, SubsetInduction
<1>7. B \in Good
  BY <1>6
<1> QED BY <1>7 DEF Good, Sum

(* A sum of zeros is 0.                                                    *)
LEMMA SumOfNothing ==
  ASSUME NEW S, IsFiniteSet(S), NEW f, \A x \in S : f[x] = 0
  PROVE  SumFunctionOnSet(f, S) = 0
<1> DEFINE Good == {s \in SUBSET S : SumFunctionOnSet(f, s) = 0}
<1>1. ASSUME NEW s \in SUBSET S, \A x \in s : s \ {x} \in Good
      PROVE  s \in Good
  <2>1. CASE s = {}
    BY <2>1, SumOfNone
  <2>2. CASE s # {}
    <3>1. PICK x \in s : TRUE
      BY <2>2
    <3>2. IsFiniteSet(s) /\ \A y \in s : f[y] \in Nat
      BY FS_Subset
    <3>3. SumFunctionOnSet(f, s) = f[x] + SumFunctionOnSet(f, s \ {x})
      BY <3>2, SumTakesAny
    <3>4. SumFunctionOnSet(f, s \ {x}) = 0 /\ f[x] = 0
      BY <1>1
    <3> QED BY <3>3, <3>4
  <2> QED BY <2>1, <2>2
<1> HIDE DEF Good
<1>2. \A s \in SUBSET S : s \in Good
  BY <1>1, SubsetInduction
<1>3. S \in Good
  BY <1>2
<1> QED BY <1>3 DEF Good

(* Terms put to 0 are left out.                                            *)
LEMMA SumMasked ==
  ASSUME NEW S, IsFiniteSet(S), NEW f, \A x \in S : f[x] \in Nat, NEW A \in SUBSET S,
         NEW m, \A x \in S : m[x] = IF x \in A THEN f[x] ELSE 0
  PROVE  SumFunctionOnSet(m, S) = SumFunctionOnSet(f, A)
<1> DEFINE B == S \ A
<1>1. A \cup B = S /\ A \cap B = {} /\ \A x \in A \cup B : m[x] \in Nat
  OBVIOUS
<1>2. IsFiniteSet(A) /\ IsFiniteSet(B)
  BY FS_Subset
<1>3. \A x \in B : m[x] = 0
  OBVIOUS
<1>4. \A x \in A : m[x] = f[x] /\ f[x] \in Nat
  OBVIOUS
<1> HIDE DEF B
<1>5. SumFunctionOnSet(m, B) = 0
  BY <1>2, <1>3, SumOfNothing
<1>6. SumFunctionOnSet(m, A) = SumFunctionOnSet(f, A) /\ SumFunctionOnSet(f, A) \in Nat
  BY <1>2, <1>4, SumAlike, SumIsNatural
<1>7. SumFunctionOnSet(m, S) = SumFunctionOnSet(m, A) + SumFunctionOnSet(m, B)
  BY <1>1, SumApart
<1> QED BY <1>5, <1>6, <1>7

(* The sum of four.                                                        *)
LEMMA SumOfFour ==
  ASSUME NEW f, DOMAIN f = 1 .. 4, \A i \in 1 .. 4 : f[i] \in Nat
  PROVE  SumFunction(f) = f[1] + f[2] + f[3] + f[4]
<1> DEFINE Sum(s) == SumFunctionOnSet(f, s)
<1>1. \A s \in SUBSET (1 .. 4) : \A x \in s : Sum(s) = f[x] + Sum(s \ {x})
  <2> TAKE s \in SUBSET (1 .. 4)
  <2>1. IsFiniteSet(s) /\ \A y \in s : f[y] \in Nat
    BY FS_Subset, SomeAreFinite
  <2> QED BY <2>1, SumTakesAny
<1>2. Sum({}) = 0 /\ SumFunction(f) = Sum(1 .. 4)
  BY SumOfNone DEF SumFunction
<1> HIDE DEF Sum
<1>3. /\ 1 .. 4 = {1, 2, 3, 4} /\ {1, 2, 3, 4} \ {1} = {2, 3, 4}
      /\ {2, 3, 4} \ {2} = {3, 4} /\ {3, 4} \ {3} = {4} /\ {4} \ {4} = {}
  OBVIOUS
<1>4. Sum({1, 2, 3, 4}) = f[1] + Sum({2, 3, 4})
  <2>1. {1, 2, 3, 4} \in SUBSET (1 .. 4) /\ 1 \in {1, 2, 3, 4}
    OBVIOUS
  <2> QED BY <1>1, <1>3, <2>1
<1>5. Sum({2, 3, 4}) = f[2] + Sum({3, 4})
  <2>1. {2, 3, 4} \in SUBSET (1 .. 4) /\ 2 \in {2, 3, 4}
    OBVIOUS
  <2> QED BY <1>1, <1>3, <2>1
<1>6. Sum({3, 4}) = f[3] + Sum({4})
  <2>1. {3, 4} \in SUBSET (1 .. 4) /\ 3 \in {3, 4}
    OBVIOUS
  <2> QED BY <1>1, <1>3, <2>1
<1>7. Sum({4}) = f[4] + Sum({})
  <2>1. {4} \in SUBSET (1 .. 4) /\ 4 \in {4}
    OBVIOUS
  <2> QED BY <1>1, <1>3, <2>1
<1>8. f[1] \in Nat /\ f[2] \in Nat /\ f[3] \in Nat /\ f[4] \in Nat
  OBVIOUS
<1> QED BY <1>2, <1>3, <1>4, <1>5, <1>6, <1>7, <1>8

(* What a line of a ledger may come from: the names of two rulesets.       *)
Sources == {"stem", "visible", "hidden_main", "hidden_middle", "hidden_residual",
            "hidden_principal", "hidden_central"}
(* A line of the ledger with stems; its phase is that of its stem.         *)
StemLine == {e \in [pillar : 1 .. 4, stem : 0 .. 9, phase : Phases, source : Sources,
                    weight : Nat] : ElementOf(e.stem) = e.phase}
(* A line of the ledger of phases.                                         *)
BaziLine == [pillar : 1 .. 4, source : Sources, phase : Phases, weight : Nat]
(* Two lines that tell the same, each in the words of its ledger.          *)
SameLine(x, y) ==
    /\ x.pillar = y.pillar /\ x.phase = y.phase /\ x.weight = y.weight
    /\ x.source = "stem" <=> y.source = "visible"
(* Two ledgers that do, line by line.                                      *)
Alike(s, t) ==
    /\ Over(s, BaziLine) /\ Over(t, StemLine) /\ Len(s) = Len(t)
    /\ \A k \in 1 .. Len(s) : SameLine(s[k], t[k])

(* Ledgers put together from such are such.                                *)
LEMMA JoinedAlike ==
  ASSUME NEW s, NEW t, NEW u, NEW v, Alike(s, t), Alike(u, v)
  PROVE  Alike(Joined(s, u), Joined(t, v))
<1> DEFINE left == Joined(s, u)
           right == Joined(t, v)
<1>1. /\ Over(s, BaziLine) /\ Over(u, BaziLine) /\ Over(t, StemLine) /\ Over(v, StemLine)
      /\ Len(s) = Len(t) /\ Len(u) = Len(v)
      /\ \A k \in 1 .. Len(s) : SameLine(s[k], t[k])
      /\ \A k \in 1 .. Len(u) : SameLine(u[k], v[k])
  BY DEF Alike
<1>2. Len(s) \in Nat /\ Len(u) \in Nat
  BY <1>1 DEF Over
<1>3. Over(left, BaziLine) /\ Appends(left, s, u)
  BY <1>1, ConcatSays
<1>4. Over(right, StemLine) /\ Appends(right, t, v)
  BY <1>1, ConcatSays
<1> HIDE DEF left, right
<1>5. Len(left) = Len(s) + Len(u) /\ Len(right) = Len(s) + Len(u)
  BY <1>1, <1>3, <1>4 DEF Appends
<1>6. ASSUME NEW k \in 1 .. Len(left) PROVE SameLine(left[k], right[k])
  <2>1. CASE k <= Len(s)
    <3>1. k \in 1 .. Len(s)
      BY <1>2, <1>5, <2>1
    <3>2. left[k] = s[k] /\ right[k] = t[k]
      BY <1>1, <1>3, <1>4, <3>1 DEF Appends
    <3> QED BY <1>1, <3>1, <3>2
  <2>2. CASE ~(k <= Len(s))
    <3>1. PICK j \in 1 .. Len(u) : k = Len(s) + j
      <4>1. k - Len(s) \in 1 .. Len(u) /\ k = Len(s) + (k - Len(s))
        BY <1>2, <1>5, <2>2
      <4> QED BY <4>1
    <3>2. left[k] = u[j] /\ right[k] = v[j]
      BY <1>1, <1>3, <1>4, <3>1 DEF Appends
    <3> QED BY <1>1, <3>1, <3>2
  <2> QED BY <2>1, <2>2
<1>7. Alike(left, right)
  BY <1>3, <1>4, <1>5, <1>6 DEF Alike
<1> QED BY <1>7 DEF left, right

(* A branch has one, two or three rows of hidden stems.                    *)
LEMMA RowsAre ==
  ASSUME NEW branch \in 0 .. 11
  PROVE  \E n \in 1 .. 3 :
            /\ DOMAIN RowsOf(branch) = 1 .. n /\ Len(RowsOf(branch)) = n
            /\ \A k \in 1 .. n : RowsOf(branch)[k][1] \in Phases /\ RowsOf(branch)[k][2] \in {10, 5, 3}
<1>1. branch \in {0, 1, 2, 3, 4, 5, 6, 7, 8, 9, 10, 11}
  OBVIOUS
<1>2. RowsOf(branch) = HiddenRows[branch + 1]
  BY <1>1 DEF RowsOf, Listed, Unknown, Absent
<1>3. \/ DOMAIN HiddenRows[branch + 1] = 1 .. 1 /\ Len(HiddenRows[branch + 1]) = 1
      \/ DOMAIN HiddenRows[branch + 1] = 1 .. 2 /\ Len(HiddenRows[branch + 1]) = 2
      \/ DOMAIN HiddenRows[branch + 1] = 1 .. 3 /\ Len(HiddenRows[branch + 1]) = 3
  BY <1>1 DEF HiddenRows
<1>4. \A k \in DOMAIN HiddenRows[branch + 1] :
          HiddenRows[branch + 1][k][1] \in Phases /\ HiddenRows[branch + 1][k][2] \in {10, 5, 3}
  <2>1. CASE branch = 0
    BY <2>1 DEF HiddenRows, Phases
  <2>2. CASE branch = 1
    BY <2>2 DEF HiddenRows, Phases
  <2>3. CASE branch = 2
    BY <2>3 DEF HiddenRows, Phases
  <2>4. CASE branch = 3
    BY <2>4 DEF HiddenRows, Phases
  <2>5. CASE branch = 4
    BY <2>5 DEF HiddenRows, Phases
  <2>6. CASE branch = 5
    BY <2>6 DEF HiddenRows, Phases
  <2>7. CASE branch = 6
    BY <2>7 DEF HiddenRows, Phases
  <2>8. CASE branch = 7
    BY <2>8 DEF HiddenRows, Phases
  <2>9. CASE branch = 8
    BY <2>9 DEF HiddenRows, Phases
  <2>10. CASE branch = 9
    BY <2>10 DEF HiddenRows, Phases
  <2>11. CASE branch = 10
    BY <2>11 DEF HiddenRows, Phases
  <2>12. CASE branch = 11
    BY <2>12 DEF HiddenRows, Phases
  <2> QED BY <1>1, <2>1, <2>2, <2>3, <2>4, <2>5, <2>6, <2>7, <2>8, <2>9, <2>10, <2>11, <2>12
<1>5. 1 \in 1 .. 3 /\ 2 \in 1 .. 3 /\ 3 \in 1 .. 3
  OBVIOUS
<1> QED BY <1>2, <1>3, <1>4, <1>5

(* The line of the stem of a pillar, of phases.                            *)
BaziFirst(i, p) == << Contribution(i, "stem", ElementOf(p.stem), 10) >>
(* The lines of its branch.                                                *)
BaziRest(i, p) ==
    [k \in 1 .. Len(RowsOf(p.branch)) |->
        Contribution(i, QiLabel(RowsOf(p.branch)[k][2]), RowsOf(p.branch)[k][1],
                     RowsOf(p.branch)[k][2])]
(* The line of the stem of a pillar, with the stem.                        *)
StemFirst(i, p) == << StemEntry(i, p.stem) >>
(* The lines of its branch.                                                *)
StemRest(i, p) == [k \in DOMAIN RowsOf(p.branch) |-> HiddenEntry(i, p.branch, k)]
(* The lines of a pillar in the one ledger.                                *)
BaziPart(i, p) == Joined(BaziFirst(i, p), BaziRest(i, p))
(* And in the other.                                                       *)
StemPart(i, p) == Joined(StemFirst(i, p), StemRest(i, p))

(* A function on 1 .. n is a sequence of length n.                         *)
LEMMA IsSequence ==
  ASSUME NEW n \in Nat, NEW s, DOMAIN s = 1 .. n, s = [k \in 1 .. n |-> s[k]], NEW V,
         \A k \in 1 .. n : s[k] \in V
  PROVE  Over(s, V) /\ Len(s) = n
<1>1. s \in Seq(V)
  OBVIOUS
<1> QED BY <1>1 DEF Over

(* The two lines of a stem tell the same.                                  *)
LEMMA FirstAlike ==
  ASSUME NEW i \in 1 .. 4, NEW p \in Pillar
  PROVE  Alike(BaziFirst(i, p), StemFirst(i, p))
<1> DEFINE x == Contribution(i, "stem", ElementOf(p.stem), 10)
           y == StemEntry(i, p.stem)
<1>1. p.stem \in 0 .. 9
  BY DEF Pillar
<1>2. ElementOf(p.stem) \in Phases
  BY <1>1, StemHasPhase
<1>3. x \in BaziLine /\ y \in StemLine
  BY <1>1, <1>2 DEF Contribution, StemEntry, BaziLine, StemLine, Sources
<1>4. SameLine(x, y)
  BY DEF Contribution, StemEntry, SameLine
<1> HIDE DEF x, y
<1>5. Over(<<x>>, BaziLine) /\ Over(<<y>>, StemLine)
  BY <1>3 DEF Over
<1>6. Len(<<x>>) = 1 /\ Len(<<y>>) = 1 /\ <<x>>[1] = x /\ <<y>>[1] = y
  OBVIOUS
<1>7. \A k \in 1 .. Len(<<x>>) : SameLine(<<x>>[k], <<y>>[k])
  <2>1. ASSUME NEW k \in 1 .. 1 PROVE SameLine(<<x>>[k], <<y>>[k])
    <3>1. k = 1
      OBVIOUS
    <3> QED BY <1>4, <1>6, <3>1
  <2> QED BY <1>6, <2>1
<1>8. Alike(<<x>>, <<y>>)
  BY <1>5, <1>6, <1>7 DEF Alike
<1> QED BY <1>8 DEF x, y, BaziFirst, StemFirst

(* And so do those of a branch, though two tables give them.               *)
LEMMA RestAlike ==
  ASSUME NEW i \in 1 .. 4, NEW p \in Pillar
  PROVE  Alike(BaziRest(i, p), StemRest(i, p))
<1> DEFINE branch == p.branch
           rows == RowsOf(branch)
           left == BaziRest(i, p)
           right == StemRest(i, p)
           X(k) == Contribution(i, QiLabel(rows[k][2]), rows[k][1], rows[k][2])
           Y(k) == HiddenEntry(i, branch, k)
<1>1. branch \in 0 .. 11
  BY DEF Pillar
<1>2. PICK n \in 1 .. 3 :
          /\ DOMAIN rows = 1 .. n /\ Len(rows) = n
          /\ \A k \in 1 .. n : rows[k][1] \in Phases /\ rows[k][2] \in {10, 5, 3}
  <2> HIDE DEF branch
  <2> QED BY <1>1, RowsAre
<1>3. /\ left = [k \in 1 .. n |-> X(k)] /\ right = [k \in 1 .. n |-> Y(k)]
  BY <1>2 DEF BaziRest, StemRest
<1> HIDE DEF left, right
<1>4. ASSUME NEW k \in 1 .. n
      PROVE  X(k) \in BaziLine /\ Y(k) \in StemLine /\ SameLine(X(k), Y(k))
  <2> DEFINE phase == rows[k][1]
             weight == rows[k][2]
             stem == StemInBranch(branch, phase)
  <2>1. phase \in Phases /\ weight \in {10, 5, 3}
    BY <1>2
  <2>2. stem \in 0 .. 9 /\ ElementOf(stem) = phase
    <3> HIDE DEF branch
    <3> QED BY <1>1, <1>2, RowsNameStems
  <2>3. X(k) = Contribution(i, QiLabel(weight), phase, weight)
    OBVIOUS
  <2>4. Y(k) = [pillar |-> i, stem |-> stem, phase |-> phase, source |-> StemSource[k],
                weight |-> weight]
    BY DEF HiddenEntry
  <2> HIDE DEF stem, phase, weight, X, Y
  <2>5. QiLabel(weight) \in Sources /\ QiLabel(weight) # "stem"
    BY <2>1 DEF QiLabel, Sources
  <2>6. StemSource[k] \in Sources /\ StemSource[k] # "visible"
    <3>1. k = 1 \/ k = 2 \/ k = 3
      OBVIOUS
    <3> QED BY <3>1 DEF StemSource, Sources
  <2>7. weight \in Nat
    BY <2>1
  <2>8. X(k) \in BaziLine
    BY <2>1, <2>3, <2>5, <2>7 DEF Contribution, BaziLine
  <2>9. Y(k) \in StemLine
    BY <2>1, <2>2, <2>4, <2>6, <2>7 DEF StemLine
  <2>10. SameLine(X(k), Y(k))
    BY <2>3, <2>4, <2>5, <2>6 DEF Contribution, SameLine
  <2> QED BY <2>8, <2>9, <2>10
<1> HIDE DEF X, Y
<1>5. /\ DOMAIN left = 1 .. n /\ DOMAIN right = 1 .. n
      /\ \A k \in 1 .. n : left[k] = X(k) /\ right[k] = Y(k)
      /\ left = [k \in 1 .. n |-> left[k]] /\ right = [k \in 1 .. n |-> right[k]]
  BY <1>3
<1>6. Over(left, BaziLine) /\ Len(left) = n
  BY <1>4, <1>5, IsSequence
<1>7. Over(right, StemLine) /\ Len(right) = n
  BY <1>4, <1>5, IsSequence
<1>8. \A k \in 1 .. Len(left) : SameLine(left[k], right[k])
  BY <1>4, <1>5, <1>6
<1>9. Alike(left, right)
  BY <1>6, <1>7, <1>8 DEF Alike
<1> QED BY <1>9 DEF left, right

(* The two ledgers of a chart tell the same; the one of phases is put      *)
(* together pillar by pillar.                                              *)
LEMMA LedgersAlike ==
  ASSUME NEW chart, DOMAIN chart = 1 .. 4, \A i \in 1 .. 4 : chart[i] \in Pillar
  PROVE  /\ BaziLedger(chart) = Joined(Joined(Joined(BaziPart(1, chart[1]), BaziPart(2, chart[2])),
                                              BaziPart(3, chart[3])), BaziPart(4, chart[4]))
         /\ Alike(BaziLedger(chart), StemLedger(chart))
<1> DEFINE B(i) == BaziPart(i, chart[i])
           S(i) == StemPart(i, chart[i])
           bs == Joined(Joined(Joined(B(1), B(2)), B(3)), B(4))
           ss == Joined(Joined(Joined(S(1), S(2)), S(3)), S(4))
<1>1. ASSUME NEW i \in 1 .. 4 PROVE Alike(B(i), S(i)) /\ B(i) = PillarLedger(i, chart[i])
  <2> DEFINE p == chart[i]
  <2>1. p \in Pillar /\ p.stem \in 0 .. 9
    BY DEF Pillar
  <2> HIDE DEF p
  <2>2. Alike(BaziFirst(i, p), StemFirst(i, p)) /\ Alike(BaziRest(i, p), StemRest(i, p))
    BY <2>1, FirstAlike, RestAlike
  <2>3. Alike(BaziPart(i, p), StemPart(i, p))
    BY <2>2, JoinedAlike DEF BaziPart, StemPart
  <2>4. Listed(p.stem)
    BY <2>1 DEF Listed, Unknown, Absent
  <2>5. PillarLedger(i, p) = BaziPart(i, p)
    BY <2>4 DEF PillarLedger, BaziPart, BaziFirst, BaziRest, Joined
  <2> QED BY <2>3, <2>5 DEF p
<1>2. [i \in DOMAIN chart |-> PillarLedger(i, chart[i])] = [i \in 1 .. 4 |-> B(i)]
  <2> HIDE DEF B
  <2> QED BY <1>1
<1>3. BaziLedger(chart) = FlattenSeq([i \in 1 .. 4 |-> B(i)])
  BY <1>2 DEF BaziLedger
<1>4. StemLedger(chart) = FlattenSeq([i \in 1 .. 4 |-> S(i)])
  BY DEF StemLedger, StemPart, StemFirst, StemRest, Joined
<1> DEFINE b1 == B(1)
           b2 == B(2)
           b3 == B(3)
           b4 == B(4)
           s1 == S(1)
           s2 == S(2)
           s3 == S(3)
           s4 == S(4)
<1>5. [i \in 1 .. 4 |-> B(i)] = <<b1, b2, b3, b4>> /\ [i \in 1 .. 4 |-> S(i)] = <<s1, s2, s3, s4>>
  <2> HIDE DEF B, S
  <2> QED OBVIOUS
<1>6. Alike(b1, s1) /\ Alike(b2, s2) /\ Alike(b3, s3) /\ Alike(b4, s4)
  BY <1>1
<1>7. bs = Joined(Joined(Joined(b1, b2), b3), b4) /\ ss = Joined(Joined(Joined(s1, s2), s3), s4)
  OBVIOUS
<1> HIDE DEF b1, b2, b3, b4, s1, s2, s3, s4
<1>8. BaziLedger(chart) = bs /\ StemLedger(chart) = ss
  BY <1>3, <1>4, <1>5, <1>7, FlattenFour
<1>9. Alike(bs, ss)
  BY <1>6, <1>7, JoinedAlike
<1> QED BY <1>8, <1>9

(* The weights of the lines.                                               *)
WeightsOf(s) == [k \in DOMAIN s |-> s[k].weight]
(* The lines of a phase.                                                   *)
PlacesOf(s, p) == {k \in DOMAIN s : s[k].phase = p}
(* What they weigh together.                                               *)
Weigh(s, p) == SumFunctionOnSet(WeightsOf(s), PlacesOf(s, p))
(* A ledger of lines that have weights.                                    *)
Weighted(s) == \E V : Over(s, V) /\ \A x \in V : x.weight \in Nat

(* A vector shows what the lines of each phase weigh.                      *)
LEMMA VectorWeighs ==
  ASSUME NEW s
  PROVE  VectorOf(s) = [p \in Phases |-> Weigh(s, p)]
<1>1. VectorOf(s) = Tabulated([p \in Phases |-> Weigh(s, p)])
  BY DEF VectorOf, Weigh, WeightsOf, PlacesOf
<1> DEFINE v == [p \in Phases |-> Weigh(s, p)]
<1> HIDE DEF v
<1>2. Tabulated(v) = v
  BY DEF Tabulated
<1> QED BY <1>1, <1>2 DEF v

(* The weights and lines of a ledger.                                      *)
LEMMA WeightsSay ==
  ASSUME NEW s, Weighted(s)
  PROVE  /\ Len(s) \in Nat /\ DOMAIN s = 1 .. Len(s) /\ IsFiniteSet(DOMAIN s)
         /\ \A k \in 1 .. Len(s) : s[k].weight \in Nat /\ WeightsOf(s)[k] = s[k].weight
         /\ \A p : PlacesOf(s, p) \in SUBSET (1 .. Len(s)) /\ IsFiniteSet(PlacesOf(s, p))
<1>1. PICK V : s \in Seq(V) /\ \A x \in V : x.weight \in Nat
  BY DEF Weighted, Over
<1>2. /\ Len(s) \in Nat /\ DOMAIN s = 1 .. Len(s)
      /\ \A k \in 1 .. Len(s) : s[k] \in V
  BY <1>1
<1>3. IsFiniteSet(1 .. Len(s))
  <2>1. 1 \in Int /\ Len(s) \in Int
    BY <1>2
  <2> QED BY <2>1, FS_Interval
<1>4. \A p : PlacesOf(s, p) \in SUBSET (1 .. Len(s))
  BY <1>2 DEF PlacesOf
<1>5. \A p : IsFiniteSet(PlacesOf(s, p))
  BY <1>3, <1>4, FS_Subset
<1>6. \A k \in 1 .. Len(s) : s[k].weight \in Nat /\ WeightsOf(s)[k] = s[k].weight
  BY <1>1, <1>2 DEF WeightsOf
<1> QED BY <1>2, <1>3, <1>4, <1>5, <1>6

(* Ledgers put together weigh what they weigh apart.                       *)
LEMMA JoinedWeigh ==
  ASSUME NEW V, \A x \in V : x.weight \in Nat, NEW s, NEW t, Over(s, V), Over(t, V), NEW p
  PROVE  Weigh(Joined(s, t), p) = Weigh(s, p) + Weigh(t, p)
<1> DEFINE both == Joined(s, t)
           n == Len(s)
           to == [k \in 1 .. Len(t) |-> n + k]
           S == PlacesOf(s, p)
           T == PlacesOf(t, p)
           B == {to[k] : k \in T}
           f == WeightsOf(both)
<1>1. Over(both, V) /\ Appends(both, s, t)
  BY ConcatSays
<1>2. Weighted(both) /\ Weighted(s) /\ Weighted(t)
  BY <1>1 DEF Weighted
<1> HIDE DEF both
<1>3. /\ n \in Nat /\ Len(t) \in Nat /\ DOMAIN s = 1 .. n /\ DOMAIN t = 1 .. Len(t)
      /\ \A k \in 1 .. n : s[k].weight \in Nat /\ WeightsOf(s)[k] = s[k].weight
      /\ \A k \in 1 .. Len(t) : t[k].weight \in Nat /\ WeightsOf(t)[k] = t[k].weight
      /\ S \in SUBSET (1 .. n) /\ IsFiniteSet(S) /\ T \in SUBSET (1 .. Len(t)) /\ IsFiniteSet(T)
  BY <1>2, WeightsSay
<1>4. /\ DOMAIN both = 1 .. Len(both) /\ IsFiniteSet(PlacesOf(both, p))
      /\ \A k \in 1 .. Len(both) : both[k].weight \in Nat /\ f[k] = both[k].weight
  BY <1>2, WeightsSay
<1>5. /\ Len(both) = n + Len(t) /\ \A k \in 1 .. n : both[k] = s[k]
      /\ \A k \in 1 .. Len(t) : both[n + k] = t[k]
  BY <1>1 DEF Appends
<1> HIDE DEF f
<1>6. \A k \in 1 .. Len(t) : to[k] = n + k
  OBVIOUS
<1> HIDE DEF to
<1>7. S \cap B = {}
  BY <1>3, <1>6
<1>8. \A k \in S : f[k] = WeightsOf(s)[k] /\ WeightsOf(s)[k] \in Nat
  <2>1. \A k \in 1 .. n : k \in 1 .. Len(both)
    BY <1>3, <1>5
  <2> QED BY <1>3, <1>4, <1>5, <2>1
<1>9. \A k \in T : f[to[k]] = WeightsOf(t)[k] /\ WeightsOf(t)[k] \in Nat
  <2>1. \A k \in 1 .. Len(t) : n + k \in 1 .. Len(both)
    BY <1>3, <1>5
  <2> QED BY <1>3, <1>4, <1>5, <1>6, <2>1
<1>10. \A k \in T : \A j \in T : to[k] = to[j] => k = j
  BY <1>3, <1>6
<1>11. PlacesOf(both, p) = S \cup B
  <2>1. \A k \in S : k \in PlacesOf(both, p)
    BY <1>3, <1>4, <1>5 DEF PlacesOf
  <2>2. \A k \in T : to[k] \in PlacesOf(both, p)
    BY <1>3, <1>4, <1>5, <1>6 DEF PlacesOf
  <2>3. ASSUME NEW k \in PlacesOf(both, p) PROVE k \in S \cup B
    <3>1. k \in 1 .. n + Len(t) /\ both[k].phase = p
      BY <1>4, <1>5 DEF PlacesOf
    <3>2. CASE k <= n
      <4>1. k \in 1 .. n
        BY <1>3, <3>1, <3>2
      <4> QED BY <1>3, <1>5, <3>1, <4>1 DEF PlacesOf
    <3>3. CASE ~(k <= n)
      <4>1. k - n \in 1 .. Len(t) /\ k = n + (k - n)
        BY <1>3, <3>1, <3>3
      <4>2. k - n \in T
        BY <1>3, <1>5, <3>1, <4>1 DEF PlacesOf
      <4> QED BY <1>6, <4>1, <4>2
    <3> QED BY <3>2, <3>3
  <2> QED BY <2>1, <2>2, <2>3
<1>12. SumFunctionOnSet(f, S) = Weigh(s, p)
  <2> HIDE DEF S
  <2>1. SumFunctionOnSet(f, S) = SumFunctionOnSet(WeightsOf(s), S)
    BY <1>3, <1>8, SumAlike
  <2> QED BY <2>1 DEF Weigh, S
<1>13. SumFunctionOnSet(f, B) = Weigh(t, p)
  <2> DEFINE w == WeightsOf(t)
  <2>1. IsFiniteSet(T) /\ \A k \in T : w[k] \in Nat
    BY <1>3, <1>9
  <2>2. \A k \in T : f[to[k]] = w[k]
    BY <1>9
  <2> HIDE DEF T, w
  <2>3. SumFunctionOnSet(f, {to[k] : k \in T}) = SumFunctionOnSet(w, T)
    BY <1>10, <2>1, <2>2, SumCarried
  <2> QED BY <2>3 DEF Weigh, T, w
<1>14. SumFunctionOnSet(f, S \cup B) = SumFunctionOnSet(f, S) + SumFunctionOnSet(f, B)
  <2>1. IsFiniteSet(S \cup B)
    BY <1>4, <1>11
  <2>2. \A k \in S \cup B : f[k] \in Nat
    BY <1>8, <1>9
  <2> HIDE DEF S, B
  <2> QED BY <1>7, <2>1, <2>2, SumApart
<1>15. Weigh(both, p) = SumFunctionOnSet(f, S \cup B)
  BY <1>11 DEF Weigh, f
<1> QED BY <1>12, <1>13, <1>14, <1>15 DEF both

(* Ledgers that tell the same have one vector.                             *)
LEMMA AlikeWeigh ==
  ASSUME NEW s, NEW t, Alike(s, t)
  PROVE  VectorOf(s) = VectorOf(t)
<1>1. Weighted(s) /\ Weighted(t)
  <2>1. (\A x \in BaziLine : x.weight \in Nat) /\ (\A x \in StemLine : x.weight \in Nat)
    BY DEF BaziLine, StemLine
  <2> QED BY <2>1 DEF Weighted, Alike
<1>2. ASSUME NEW p \in Phases PROVE Weigh(s, p) = Weigh(t, p)
  <2>1. /\ DOMAIN s = 1 .. Len(s) /\ DOMAIN t = 1 .. Len(s)
        /\ \A k \in 1 .. Len(s) : s[k].weight \in Nat /\ WeightsOf(s)[k] = s[k].weight
        /\ \A k \in 1 .. Len(s) : WeightsOf(t)[k] = t[k].weight
        /\ \A k \in 1 .. Len(s) : s[k].phase = t[k].phase /\ s[k].weight = t[k].weight
        /\ IsFiniteSet(PlacesOf(s, p))
    BY <1>1, WeightsSay DEF Alike, SameLine
  <2>2. PlacesOf(s, p) = PlacesOf(t, p)
    BY <2>1 DEF PlacesOf
  <2>3. \A k \in PlacesOf(s, p) : k \in 1 .. Len(s)
    BY <2>1 DEF PlacesOf
  <2>4. SumFunctionOnSet(WeightsOf(t), PlacesOf(s, p)) = SumFunctionOnSet(WeightsOf(s), PlacesOf(s, p))
    <3>1. \A k \in PlacesOf(s, p) :
              WeightsOf(s)[k] \in Nat /\ WeightsOf(t)[k] = WeightsOf(s)[k]
      BY <2>1, <2>3
    <3> QED BY <2>1, <3>1, SumAlike
  <2> QED BY <2>2, <2>4 DEF Weigh
<1> QED BY <1>2, VectorWeighs

(* What the stem of a pillar adds to a phase without a ledger.             *)
OwnWeight(pillar, p) == IF Listed(pillar.stem) /\ ElementOf(pillar.stem) = p THEN 10 ELSE 0
(* What its branch adds.                                                   *)
HiddenWeight(pillar, p) ==
    SumFunction([k \in DOMAIN RowsOf(pillar.branch) |->
                    IF RowsOf(pillar.branch)[k][1] = p THEN RowsOf(pillar.branch)[k][2] ELSE 0])
(* And both.                                                               *)
PillarWeight(pillar, p) == OwnWeight(pillar, p) + HiddenWeight(pillar, p)

(* The line of a stem weighs as much.                                      *)
LEMMA FirstWeighs ==
  ASSUME NEW i \in 1 .. 4, NEW pillar \in Pillar, NEW p \in Phases
  PROVE  Weigh(BaziFirst(i, pillar), p) = OwnWeight(pillar, p)
<1> DEFINE x == Contribution(i, "stem", ElementOf(pillar.stem), 10)
           s == <<x>>
<1>1. x.phase = ElementOf(pillar.stem) /\ x.weight = 10 /\ Listed(pillar.stem)
  BY DEF Contribution, Pillar, Listed, Unknown, Absent
<1>2. BaziFirst(i, pillar) = s
  BY DEF BaziFirst
<1> HIDE DEF x
<1>3. DOMAIN s = {1} /\ s[1] = x
  OBVIOUS
<1> HIDE DEF s
<1>4. WeightsOf(s)[1] = 10
  BY <1>1, <1>3 DEF WeightsOf
<1>5. CASE ElementOf(pillar.stem) = p
  <2>1. PlacesOf(s, p) = {1} /\ OwnWeight(pillar, p) = 10
    BY <1>1, <1>3, <1>5 DEF PlacesOf, OwnWeight
  <2>2. IsFiniteSet({1}) /\ {1} \ {1} = {}
    BY FS_Singleton
  <2>3. SumFunctionOnSet(WeightsOf(s), {1}) = WeightsOf(s)[1] + SumFunctionOnSet(WeightsOf(s), {1} \ {1})
    <3> DEFINE f == WeightsOf(s)
               S == {1}
    <3>1. IsFiniteSet(S) /\ 1 \in S /\ \A k \in S : f[k] \in Nat
      BY <1>4, <2>2
    <3> HIDE DEF f, S
    <3>2. SumFunctionOnSet(f, S) = f[1] + SumFunctionOnSet(f, S \ {1})
      BY <3>1, SumTakesAny
    <3> QED BY <3>2 DEF f, S
  <2>4. SumFunctionOnSet(WeightsOf(s), {}) = 0
    BY SumOfNone
  <2> QED BY <1>2, <1>4, <2>1, <2>2, <2>3, <2>4 DEF Weigh
<1>6. CASE ElementOf(pillar.stem) # p
  <2>1. PlacesOf(s, p) = {} /\ OwnWeight(pillar, p) = 0
    BY <1>1, <1>3, <1>6 DEF PlacesOf, OwnWeight
  <2>2. SumFunctionOnSet(WeightsOf(s), {}) = 0
    BY SumOfNone
  <2> QED BY <1>2, <2>1, <2>2 DEF Weigh
<1> QED BY <1>5, <1>6

(* So do the lines of a branch.                                            *)
LEMMA RestWeighs ==
  ASSUME NEW i \in 1 .. 4, NEW pillar \in Pillar, NEW p \in Phases
  PROVE  /\ Weigh(BaziRest(i, pillar), p) = HiddenWeight(pillar, p)
         /\ HiddenWeight(pillar, p) \in Nat
<1> DEFINE branch == pillar.branch
           rows == RowsOf(branch)
           s == BaziRest(i, pillar)
           m == [k \in DOMAIN rows |-> IF rows[k][1] = p THEN rows[k][2] ELSE 0]
           f == WeightsOf(s)
           A == PlacesOf(s, p)
<1>1. branch \in 0 .. 11
  BY DEF Pillar
<1>2. PICK n \in 1 .. 3 :
          /\ DOMAIN rows = 1 .. n /\ Len(rows) = n
          /\ \A k \in 1 .. n : rows[k][1] \in Phases /\ rows[k][2] \in {10, 5, 3}
  <2> HIDE DEF branch
  <2> QED BY <1>1, RowsAre
<1>3. s = [k \in 1 .. n |-> Contribution(i, QiLabel(rows[k][2]), rows[k][1], rows[k][2])]
  BY <1>2 DEF BaziRest
<1>4. DOMAIN s = 1 .. n
      /\ \A k \in 1 .. n : s[k].phase = rows[k][1] /\ s[k].weight = rows[k][2]
  BY <1>3 DEF Contribution
<1>5. HiddenWeight(pillar, p) = SumFunctionOnSet(m, DOMAIN m)
  BY DEF HiddenWeight, SumFunction
<1> HIDE DEF s, rows
<1>6. DOMAIN m = 1 .. n /\ \A k \in 1 .. n : m[k] = IF rows[k][1] = p THEN rows[k][2] ELSE 0
  BY <1>2
<1> HIDE DEF m
<1>7. \A k \in 1 .. n : f[k] = rows[k][2] /\ f[k] \in Nat
  BY <1>2, <1>4 DEF WeightsOf
<1>8. A \in SUBSET (1 .. n) /\ \A k \in 1 .. n : k \in A <=> rows[k][1] = p
  BY <1>4 DEF PlacesOf
<1>9. Weigh(s, p) = SumFunctionOnSet(f, A)
  BY DEF Weigh
<1> HIDE DEF f, A
<1>10. \A k \in 1 .. n : m[k] = IF k \in A THEN f[k] ELSE 0
  BY <1>6, <1>7, <1>8
<1>11. IsFiniteSet(1 .. n)
  <2>1. 1 \in Int /\ n \in Int
    OBVIOUS
  <2> QED BY <2>1, FS_Interval
<1>12. SumFunctionOnSet(m, 1 .. n) = SumFunctionOnSet(f, A)
  <2> DEFINE S == 1 .. n
  <2>1. /\ IsFiniteSet(S) /\ A \in SUBSET S /\ \A k \in S : f[k] \in Nat
        /\ \A k \in S : m[k] = IF k \in A THEN f[k] ELSE 0
    BY <1>7, <1>8, <1>10, <1>11
  <2> HIDE DEF S
  <2>2. SumFunctionOnSet(m, S) = SumFunctionOnSet(f, A)
    BY <2>1, SumMasked
  <2> QED BY <2>2 DEF S
<1>13. SumFunctionOnSet(m, 1 .. n) \in Nat
  <2>1. \A k \in 1 .. n : m[k] \in Nat
    BY <1>7, <1>10
  <2> QED BY <1>11, <2>1, SumIsNatural
<1> QED BY <1>5, <1>6, <1>9, <1>12, <1>13 DEF s

(* And those of a pillar.                                                  *)
LEMMA PartWeighs ==
  ASSUME NEW i \in 1 .. 4, NEW pillar \in Pillar, NEW p \in Phases
  PROVE  /\ Weigh(BaziPart(i, pillar), p) = PillarWeight(pillar, p)
         /\ PillarWeight(pillar, p) \in Nat /\ Over(BaziPart(i, pillar), BaziLine)
<1> DEFINE first == BaziFirst(i, pillar)
           rest == BaziRest(i, pillar)
<1>1. Over(first, BaziLine) /\ Over(rest, BaziLine)
  BY FirstAlike, RestAlike DEF Alike
<1>2. \A x \in BaziLine : x.weight \in Nat
  BY DEF BaziLine
<1>3. Weigh(first, p) = OwnWeight(pillar, p) /\ Weigh(rest, p) = HiddenWeight(pillar, p)
      /\ HiddenWeight(pillar, p) \in Nat
  BY FirstWeighs, RestWeighs
<1>4. OwnWeight(pillar, p) \in Nat
  BY DEF OwnWeight
<1> HIDE DEF first, rest
<1>5. Weigh(Joined(first, rest), p) = Weigh(first, p) + Weigh(rest, p)
  BY <1>1, <1>2, JoinedWeigh
<1>6. Over(Joined(first, rest), BaziLine)
  BY <1>1, ConcatSays
<1>7. BaziPart(i, pillar) = Joined(first, rest)
  BY DEF BaziPart, first, rest
<1> QED BY <1>3, <1>4, <1>5, <1>6, <1>7 DEF PillarWeight

(* Summed up without a ledger, the vector is the same.                     *)
LEMMA OneVector ==
  ASSUME NEW chart, DOMAIN chart = 1 .. 4, \A i \in 1 .. 4 : chart[i] \in Pillar
  PROVE  VectorOf(BaziLedger(chart)) = BaziVector(chart)
<1>1. ASSUME NEW p \in Phases
      PROVE  Weigh(BaziLedger(chart), p) = SumFunction([i \in 1 .. 4 |-> PillarWeight(chart[i], p)])
  <2> DEFINE W(i) == PillarWeight(chart[i], p)
             f == [i \in 1 .. 4 |-> W(i)]
             b1 == BaziPart(1, chart[1])
             b2 == BaziPart(2, chart[2])
             b3 == BaziPart(3, chart[3])
             b4 == BaziPart(4, chart[4])
             two == Joined(b1, b2)
             three == Joined(two, b3)
             four == Joined(three, b4)
  <2>1. \A i \in 1 .. 4 : /\ Weigh(BaziPart(i, chart[i]), p) = W(i) /\ W(i) \in Nat
                          /\ Over(BaziPart(i, chart[i]), BaziLine)
    BY PartWeighs
  <2> HIDE DEF W
  <2>2. /\ Weigh(b1, p) = W(1) /\ Weigh(b2, p) = W(2) /\ Weigh(b3, p) = W(3) /\ Weigh(b4, p) = W(4)
        /\ Over(b1, BaziLine) /\ Over(b2, BaziLine) /\ Over(b3, BaziLine) /\ Over(b4, BaziLine)
        /\ W(1) \in Nat /\ W(2) \in Nat /\ W(3) \in Nat /\ W(4) \in Nat
    BY <2>1
  <2>3. BaziLedger(chart) = four
    BY LedgersAlike
  <2> HIDE DEF b1, b2, b3, b4
  <2>4. \A x \in BaziLine : x.weight \in Nat
    BY DEF BaziLine
  <2>5. Over(two, BaziLine) /\ Weigh(two, p) = W(1) + W(2)
    BY <2>2, <2>4, ConcatSays, JoinedWeigh
  <2> HIDE DEF two
  <2>6. Over(three, BaziLine) /\ Weigh(three, p) = W(1) + W(2) + W(3)
    BY <2>2, <2>4, <2>5, ConcatSays, JoinedWeigh
  <2> HIDE DEF three
  <2>7. Weigh(four, p) = W(1) + W(2) + W(3) + W(4)
    BY <2>2, <2>4, <2>6, JoinedWeigh
  <2> HIDE DEF four
  <2>8. /\ DOMAIN f = 1 .. 4 /\ \A i \in 1 .. 4 : f[i] = W(i) /\ f[i] \in Nat
    BY <2>1
  <2> HIDE DEF f
  <2>9. SumFunction(f) = f[1] + f[2] + f[3] + f[4]
    BY <2>8, SumOfFour
  <2>10. SumFunction(f) = W(1) + W(2) + W(3) + W(4)
    BY <2>8, <2>9
  <2> QED BY <2>3, <2>7, <2>10 DEF f, W
<1>2. BaziVector(chart) = [p \in Phases |-> SumFunction([i \in 1 .. 4 |-> PillarWeight(chart[i], p)])]
  BY DEF BaziVector, PillarWeight, OwnWeight, HiddenWeight
<1> QED BY <1>1, <1>2, VectorWeighs

(* A chart has one vector in three ways.                                   *)
LEMMA VectorsOf ==
  ASSUME NEW chart, DOMAIN chart = 1 .. 4, \A i \in 1 .. 4 : chart[i] \in Pillar
  PROVE  /\ VectorOf(BaziLedger(chart)) = BaziVector(chart)
         /\ VectorOf(StemLedger(chart)) = BaziVector(chart)
BY OneVector, LedgersAlike, AlikeWeigh

-----------------------------------------------------------------------------
(* One chart for all that show it.                                         *)

(* Four pillars of the sexagenary cycle.                                   *)
IsChart(chart) == DOMAIN chart = 1 .. 4 /\ \A i \in 1 .. 4 : chart[i] \in Pillar
(* The chart of a birth at the instant resolved.                           *)
DrawnAs(b, a, standard, boundary) == Chart(b, InstantOf(b, a), standard, boundary)
(* The chart a question is about.                                          *)
Drawn(q) == DrawnAs(BirthRead(q), Read(q), asked.standard, asked.boundary)

(* A chart drawn has four pillars.                                         *)
LEMMA DrawnIsChart ==
  ASSUME NEW b \in BirthType, NEW a \in Requests, Resolve(b, a).error = "none",
         NEW standard \in {"CIVIL", "LMT", "TLST"}, NEW boundary
  PROVE  IsChart(DrawnAs(b, a, standard, boundary))
<1> DEFINE u == InstantOf(b, a)
<1>1. u \in Int
  BY ReadAgain
<1> HIDE DEF u
<1>2. IsChart(Chart(b, u, standard, boundary))
  BY <1>1, ChartHasPillars DEF IsChart
<1> QED BY <1>2 DEF DrawnAs, u

(* What compute_bazi returns is the chart of that instant.                 *)
LEMMA BaziIsDrawn ==
  ASSUME NEW b \in BirthType, NEW a \in Requests, NEW boundary, NEW e,
         BaziOf(b, a, boundary, e).error = "none"
  PROVE  /\ BaziOf(b, a, boundary, e).value.chart = DrawnAs(b, a, a.standard, boundary)
         /\ BaziOf(b, a, boundary, e).value.at = InstantOf(b, a)
         /\ IsChart(DrawnAs(b, a, a.standard, boundary)) /\ Resolve(b, a).error = "none"
<1>1. /\ Resolve(b, a).error = "none" /\ BaziOf(b, a, boundary, e).value.at = InstantOf(b, a)
      /\ BaziOf(b, a, boundary, e).value.chart = Chart(b, InstantOf(b, a), a.standard, boundary)
  BY BaziOfSays
<1>2. a.standard \in {"CIVIL", "LMT", "TLST"}
  BY DEF Requests
<1> QED BY <1>1, <1>2, DrawnIsChart DEF DrawnAs

(* Showing a chart changes none of its pillars.                            *)
LEMMA ShownPlain ==
  ASSUME NEW chart, IsChart(chart)
  PROVE  Plain(Shown(chart)) = Plain(chart)
<1>1. \A i \in 1 .. 4 : /\ Shown(chart)[i].stem = chart[i].stem
                        /\ Shown(chart)[i].branch = chart[i].branch
  BY DEF IsChart, Shown, PillarShown
<1> QED BY <1>1 DEF Plain

(* Nor do the blocks of a natal chart.                                     *)
LEMMA BlocksPlain ==
  ASSUME NEW natal
  PROVE  Plain(Blocks(natal)) = Plain(natal.pillars)
<1>1. ASSUME NEW i \in 1 .. 4
      PROVE  /\ Blocks(natal)[i].stem = natal.pillars[i].stem
             /\ Blocks(natal)[i].branch = natal.pillars[i].branch
  <2>1. Blocks(natal)[i] = PillarBlock(natal, i)
    BY DEF Blocks
  <2> QED BY <2>1 DEF PillarBlock
<1> QED BY <1>1 DEF Plain

(* A person of a pair has the vector of the ledger with stems.             *)
LEMMA PersonaSays ==
  ASSUME NEW chart, NEW gender
  PROVE  Persona(chart, gender).vector = VectorOf(StemLedger(chart))
<1> DEFINE n == Normalize(chart, "natal", Certain)
<1>1. n.vector = VectorOf(StemLedger(chart))
  BY NormalizeSays
<1> HIDE DEF n
<1>2. Individual(n, gender).vector = n.vector
  BY DEF Individual
<1> QED BY <1>1, <1>2 DEF Persona, n

(* In a pair answered, the person who asks has the chart and the vector of *)
(* the birth.                                                              *)
LEMMA MatchedSays ==
  ASSUME Settings, AnswersSaid, NEW q \in AnsweredBy({"match"})
  PROVE  LET chart == DrawnAs(Chosen, asked, asked.standard, asked.boundary)
             i == IF q[3] THEN 2 ELSE 1
         IN  /\ Resolve(Chosen, asked).error = "none"
             /\ Body(q).pillars[i] = Shown(chart)
             /\ Body(q).individual[i].vector = VectorOf(StemLedger(chart))
<1> DEFINE couple == q[2]
           me == Me(birth, asked, couple)
           you == You(couple)
           e == answers[q].eph
           x == answers[q].answer
           chart == DrawnAs(Chosen, asked, asked.standard, asked.boundary)
           theirs == ChartOf(you, Found(e, IF q[3] THEN "bazi" ELSE "other"))
<1>1. /\ x.status = 200 /\ Body(q) = x.body /\ q[3] \in BOOLEAN
      /\ x = Hehun(birth, asked, couple, q[3], q[4], e)
  BY EntrySaid DEF Said, MatchSaid
<1>2. Chosen \in BirthType /\ asked \in Requests
  BY ClientAsks DEF Chosen
<1>3. me.birth = Chosen /\ me.asked = asked
  BY PersonSays DEF Me, Chosen
<1> HIDE DEF couple, me, you, e, x
<1>4. ASSUME NEW g, ComputePersonChart(me, g).error = "none"
      PROVE  ChartOf(me, g) = chart /\ Resolve(Chosen, asked).error = "none"
  <2>1. ComputePersonChart(me, g) = BaziOf(Chosen, asked, asked.boundary, g)
    BY <1>3 DEF ComputePersonChart
  <2> QED BY <1>2, <1>4, <2>1, BaziIsDrawn DEF ChartOf
<1> HIDE DEF chart, theirs
<1>5. CASE q[3]
  <2>1. x = MatchBaziHehun(you, me, q[4], e)
    BY <1>1, <1>5 DEF Hehun, NamedFirst, NamedSecond, me, you
  <2>2. /\ ComputePersonChart(me, Found(e, "other")).error = "none"
        /\ x.body = MatchBody(you, me, theirs, ChartOf(me, Found(e, "other")), e.mode)
    <3>1. theirs = ChartOf(you, Found(e, "bazi"))
      BY <1>5 DEF theirs
    <3> QED BY <1>1, <2>1, <3>1, HehunSays
  <2>3. x.body = MatchBody(you, me, theirs, chart, e.mode)
    BY <1>4, <2>2
  <2>4. /\ x.body.individual = <<Persona(theirs, you.gender), Persona(chart, me.gender)>>
        /\ x.body.pillars = <<Shown(theirs), Shown(chart)>>
    BY <2>3, MatchBodySays
  <2>5. /\ x.body.individual[2] = Persona(chart, me.gender)
        /\ x.body.pillars[2] = Shown(chart)
    BY <2>4
  <2>6. x.body.individual[2].vector = VectorOf(StemLedger(chart))
    BY <2>5, PersonaSays
  <2> QED BY <1>1, <1>4, <1>5, <2>2, <2>5, <2>6 DEF chart
<1>6. CASE ~q[3]
  <2>1. x = MatchBaziHehun(me, you, q[4], e)
    BY <1>1, <1>6 DEF Hehun, NamedFirst, NamedSecond, me, you
  <2>2. /\ ComputePersonChart(me, Found(e, "bazi")).error = "none"
        /\ x.body = MatchBody(me, you, ChartOf(me, Found(e, "bazi")), theirs, e.mode)
    <3>1. theirs = ChartOf(you, Found(e, "other"))
      BY <1>6 DEF theirs
    <3> QED BY <1>1, <2>1, <3>1, HehunSays
  <2>3. x.body = MatchBody(me, you, chart, theirs, e.mode)
    BY <1>4, <2>2
  <2>4. /\ x.body.individual = <<Persona(chart, me.gender), Persona(theirs, you.gender)>>
        /\ x.body.pillars = <<Shown(chart), Shown(theirs)>>
    BY <2>3, MatchBodySays
  <2> QED BY <1>1, <1>4, <1>6, <2>2, <2>4, PersonaSays DEF chart
<1> QED BY <1>1, <1>5, <1>6

(* What shows pillars shows those of the chart it is about.                *)
LEMMA PillarsSaid ==
  ASSUME Settings, AnswersSaid,
         NEW q \in AnsweredBy({"bazi", "trace", "bazi/wuxing", "natal", "chart", "match"})
  PROVE  IsChart(Drawn(q)) /\ PillarsIn(q) = Plain(Drawn(q))
<1> DEFINE e == answers[q].eph
           x == answers[q].answer
           own == DrawnAs(Chosen, asked, asked.standard, asked.boundary)
           bazi == BaziOf(Chosen, asked, asked.boundary, Found(e, "bazi"))
<1>0. /\ Chosen \in BirthType /\ asked \in Requests /\ x.status = 200 /\ Body(q) = x.body
      /\ Said(birth, asked, q, answers[q])
      /\ q[1] \in {"bazi", "trace", "bazi/wuxing", "natal", "chart", "match"}
  BY EntrySaid, ClientAsks DEF Chosen
<1>1. q[1] # "match" => PillarsIn(q) = Plain(x.body.pillars)
  BY <1>0 DEF PillarsIn
<1>2. q[1] # "chart" => Drawn(q) = own
  BY <1>0, OwnReading DEF Drawn
<1>3. bazi.error = "none" => IsChart(own) /\ bazi.value.chart = own
  BY <1>0, BaziIsDrawn
<1> HIDE DEF own, bazi
<1>4. ASSUME bazi.error = "none", x.body.pillars = Shown(bazi.value.chart), q[1] # "chart",
             q[1] # "match"
      PROVE  IsChart(Drawn(q)) /\ PillarsIn(q) = Plain(Drawn(q))
  BY <1>1, <1>2, <1>3, <1>4, ShownPlain
<1>5. CASE q[1] = "bazi"
  <2>1. x = Bazi(Chosen, asked, e)
    BY <1>0, <1>5 DEF Said, ChartSaid, Chosen
  <2>2. Untraced(Chosen, asked, e).error = "none" /\ x.body = Untraced(Chosen, asked, e).value
    BY <1>0, <2>1, BaziSays
  <2>3. bazi.error = "none" /\ x.body.pillars = Shown(bazi.value.chart)
    BY <2>2, BaziResponseSays DEF bazi
  <2> QED BY <1>4, <1>5, <2>3
<1>6. CASE q[1] = "trace"
  <2>1. x = BaziTrace(Chosen, asked, e)
    BY <1>0, <1>6 DEF Said, ChartSaid, Chosen
  <2>2. Traced(Chosen, asked, e).error = "none" /\ x.body = Traced(Chosen, asked, e).value
    BY <1>0, <2>1, BaziTraceSays
  <2>3. bazi.error = "none" /\ x.body.pillars = Shown(bazi.value.chart)
    BY <2>2, BaziResponseSays DEF bazi
  <2> QED BY <1>4, <1>6, <2>3
<1>7. CASE q[1] = "bazi/wuxing"
  <2>1. x = BaziWuXing(Chosen, asked, e)
    BY <1>0, <1>7 DEF Said, ChartSaid, Chosen
  <2>2. bazi.error = "none" /\ x.body.pillars = bazi.value.chart
    BY <1>0, <2>1, BaziWuXingSays DEF bazi
  <2> QED BY <1>1, <1>2, <1>3, <1>7, <2>2
<1>8. CASE q[1] = "natal"
  <2>1. x = Natal(Chosen, asked, e)
    BY <1>0, <1>8 DEF Said, ChartSaid, Chosen
  <2>2. bazi.error = "none" /\ x.body.pillars = Blocks(Charted(Chosen, asked, e))
    BY <1>0, <2>1, NatalSays DEF bazi
  <2>3. Charted(Chosen, asked, e).pillars = bazi.value.chart
    BY NormalizeSays DEF Charted, bazi
  <2>4. PillarsIn(q) = Plain(own)
    BY <1>1, <1>3, <1>8, <2>2, <2>3, BlocksPlain
  <2> QED BY <1>2, <1>3, <1>8, <2>2, <2>4
<1>9. CASE q[1] = "chart"
  <2> DEFINE a == PolicyOf(asked, q[2])
             r == BaziOf(Chosen, a, asked.boundary, Found(e, "bazi"))
  <2>1. x = ChartEndpoint(Chosen, asked, q[2], q[3], e)
    BY <1>0, <1>9 DEF Said, ChartSaid, Chosen
  <2>2. r.error = "none" /\ x.body.pillars = r.value.chart
    BY <1>0, <2>1, ChartSays
  <2>3. a \in Requests /\ a.standard = asked.standard
    <3>1. a \in Requests
      BY <1>0, SettingsChecked
    <3>2. a.standard = asked.standard
      BY <1>0 DEF PolicyOf, Requests
    <3> QED BY <3>1, <3>2
  <2>4. BirthRead(q) = Chosen /\ Read(q) = a
    BY <1>9, ChartReading
  <2> HIDE DEF a
  <2>5. IsChart(Drawn(q)) /\ r.value.chart = Drawn(q)
    BY <1>0, <2>2, <2>3, <2>4, BaziIsDrawn DEF Drawn
  <2> QED BY <1>1, <1>9, <2>2, <2>5
<1>10. CASE q[1] = "match"
  <2>1. q \in AnsweredBy({"match"})
    BY <1>10 DEF AnsweredBy
  <2>2. Resolve(Chosen, asked).error = "none"
        /\ Body(q).pillars[IF q[3] THEN 2 ELSE 1] = Shown(own)
    BY <2>1, MatchedSays DEF own
  <2>3. asked.standard \in {"CIVIL", "LMT", "TLST"}
    BY <1>0 DEF Requests
  <2>4. IsChart(own)
    BY <1>0, <2>2, <2>3, DrawnIsChart DEF own
  <2>5. PillarsIn(q) = Plain(Shown(own))
    BY <1>10, <2>2 DEF PillarsIn
  <2> QED BY <1>2, <1>10, <2>4, <2>5, ShownPlain
<1> QED BY <1>0, <1>5, <1>6, <1>7, <1>8, <1>9, <1>10

(* The vectors and the ledgers of a chart.                                 *)
LEMMA OneVectorOf ==
  ASSUME NEW chart, IsChart(chart)
  PROVE  /\ VectorOf(BaziLedger(chart)) = BaziVector(chart)
         /\ VectorOf(StemLedger(chart)) = BaziVector(chart)
         /\ Alike(BaziLedger(chart), StemLedger(chart))
BY VectorsOf, LedgersAlike DEF IsChart

(* Where no pillars are sent they are computed, by the civil rule.         *)
LEMMA OwnPillars ==
  ASSUME NEW b \in BirthType, NEW a \in Requests, a.boundary = "midnight", NEW e,
         PillarsOf(b, a, {}, e).error = "none"
  PROVE  /\ PillarsOf(b, a, {}, e).value.chart = DrawnAs(b, a, a.standard, a.boundary)
         /\ IsChart(DrawnAs(b, a, a.standard, a.boundary))
<1>1. PillarsOf(b, a, {}, e) = BaziOf(b, a, a.boundary, e)
  BY DEF PillarsOf
<1> QED BY <1>1, BaziIsDrawn

(* What shows a vector shows that of the chart it is about.                *)
LEMMA VectorsSaid ==
  ASSUME Settings, AnswersSaid,
         NEW q \in AnsweredBy({"bazi/wuxing", "chart", "fusion", "vector-map", "match"}),
         ~Sent(q), asked.boundary = "midnight" \/ q[1] \notin {"fusion", "vector-map"}
  PROVE  VectorIn(q) = BaziVector(Drawn(q))
<1> DEFINE e == answers[q].eph
           x == answers[q].answer
           own == DrawnAs(Chosen, asked, asked.standard, asked.boundary)
           pillars == PillarsOf(Chosen, asked, {}, Found(e, "bazi"))
<1>0. /\ Chosen \in BirthType /\ asked \in Requests /\ x.status = 200 /\ Body(q) = x.body
      /\ Said(birth, asked, q, answers[q])
      /\ q[1] \in {"bazi/wuxing", "chart", "fusion", "vector-map", "match"}
  BY EntrySaid, ClientAsks DEF Chosen
<1>1. q[1] # "chart" => Drawn(q) = own
  BY <1>0, OwnReading DEF Drawn
<1>2. pillars.error = "none" /\ asked.boundary = "midnight" =>
          IsChart(own) /\ pillars.value.chart = own
  BY <1>0, OwnPillars
<1> HIDE DEF own, pillars
<1>3. IsChart(own) => VectorOf(BaziLedger(own)) = BaziVector(own)
                      /\ VectorOf(StemLedger(own)) = BaziVector(own)
  BY OneVectorOf
<1>4. CASE q[1] = "bazi/wuxing"
  <2> DEFINE bazi == BaziOf(Chosen, asked, asked.boundary, Found(e, "bazi"))
  <2>1. x = BaziWuXing(Chosen, asked, e)
    BY <1>0, <1>4 DEF Said, ChartSaid, Chosen
  <2>2. bazi.error = "none" /\ x.body.vector = VectorOf(BaziLedger(bazi.value.chart))
    BY <1>0, <2>1, BaziWuXingSays
  <2>3. IsChart(own) /\ bazi.value.chart = own
    BY <1>0, <2>2, BaziIsDrawn DEF own
  <2>4. VectorIn(q) = x.body.vector
    BY <1>0, <1>4 DEF VectorIn
  <2> QED BY <1>1, <1>3, <1>4, <2>2, <2>3, <2>4
<1>5. CASE q[1] = "chart"
  <2> DEFINE a == PolicyOf(asked, q[2])
             r == BaziOf(Chosen, a, asked.boundary, Found(e, "bazi"))
  <2>1. x = ChartEndpoint(Chosen, asked, q[2], q[3], e)
    BY <1>0, <1>5 DEF Said, ChartSaid, Chosen
  <2>2. r.error = "none" /\ x.body.wuxing.bazi = BaziVector(r.value.chart)
    BY <1>0, <2>1, ChartSays
  <2>3. a \in Requests /\ a.standard = asked.standard
    <3>1. a \in Requests
      BY <1>0, SettingsChecked
    <3>2. a.standard = asked.standard
      BY <1>0 DEF PolicyOf, Requests
    <3> QED BY <3>1, <3>2
  <2>4. BirthRead(q) = Chosen /\ Read(q) = a
    BY <1>5, ChartReading
  <2> HIDE DEF a
  <2>5. r.value.chart = Drawn(q)
    BY <1>0, <2>2, <2>3, <2>4, BaziIsDrawn DEF Drawn
  <2>6. VectorIn(q) = x.body.wuxing.bazi
    BY <1>0, <1>5 DEF VectorIn
  <2> QED BY <2>2, <2>5, <2>6
<1>6. CASE q[1] = "fusion"
  <2> DEFINE sky == WesternOf(Chosen, asked, Found(e, "western"))
             bodies == sky.value.bodies
             ascendant == sky.value.ascendant
             chart == pillars.value.chart
             fusion == Strictly(bodies, ascendant, chart)
  <2>1. q[2] = {} /\ asked.boundary = "midnight"
    BY <1>6 DEF Sent
  <2>2. x = FusionEndpoint(Chosen, asked, {}, e)
    BY <1>0, <1>6, <2>1 DEF Said, ChartSaid, Chosen
  <2>0. x.status = 200
    BY <1>0
  <2>3. pillars.error = "none" /\ fusion.error = "none" /\ x.body.bazi = fusion.value.bazi
    BY <2>0, <2>2, FusionEndpointSays DEF pillars
  <2> HIDE DEF bodies, ascendant
  <2>4. fusion.value.bazi = VectorOf(BaziLedger(chart))
    BY <2>3, StrictSays
  <2>5. VectorIn(q) = x.body.bazi
    BY <1>0, <1>6 DEF VectorIn
  <2> QED BY <1>1, <1>2, <1>3, <1>6, <2>1, <2>3, <2>4, <2>5
<1>7. CASE q[1] = "vector-map"
  <2>1. q[2] = {} /\ asked.boundary = "midnight"
    BY <1>7 DEF Sent
  <2>2. x = VectorMapEndpoint(Chosen, asked, {}, e)
    BY <1>0, <1>7, <2>1 DEF Said, ChartSaid, Chosen
  <2>3. pillars.error = "none" /\ x.body.bazi = VectorOf(BaziLedger(pillars.value.chart))
    BY <1>0, <2>2, VectorMapSays DEF pillars
  <2>4. VectorIn(q) = x.body.bazi
    BY <1>0, <1>7 DEF VectorIn
  <2> QED BY <1>1, <1>2, <1>3, <1>7, <2>1, <2>3, <2>4
<1>8. CASE q[1] = "match"
  <2>1. q \in AnsweredBy({"match"})
    BY <1>8 DEF AnsweredBy
  <2>2. Resolve(Chosen, asked).error = "none"
        /\ Body(q).individual[IF q[3] THEN 2 ELSE 1].vector = VectorOf(StemLedger(own))
    BY <2>1, MatchedSays DEF own
  <2>3. asked.standard \in {"CIVIL", "LMT", "TLST"}
    BY <1>0 DEF Requests
  <2>4. IsChart(own)
    BY <1>0, <2>2, <2>3, DrawnIsChart DEF own
  <2>5. VectorIn(q) = Body(q).individual[IF q[3] THEN 2 ELSE 1].vector
    BY <1>8 DEF VectorIn
  <2> QED BY <1>1, <1>3, <1>8, <2>2, <2>4, <2>5
<1> QED BY <1>0, <1>4, <1>5, <1>6, <1>7, <1>8

(* Two that read the time alike are about one chart.                       *)
LEMMA SameDrawn ==
  ASSUME NEW q, NEW r, SameTime(q, r)
  PROVE  Drawn(q) = Drawn(r)
<1>1. /\ InstantOf(BirthRead(q), Read(q)) = InstantOf(BirthRead(r), Read(r))
      /\ BirthRead(q) = BirthRead(r)
  BY SameTimes DEF SameTime
<1> QED BY <1>1 DEF Drawn, DrawnAs

(* So they show the same pillars, and the same vectors.                    *)
LEMMA PillarsAgree ==
  ASSUME Settings, AnswersSaid
  PROVE  /\ \A q, r \in AnsweredBy({"bazi", "trace", "bazi/wuxing", "natal", "chart", "match"}) :
                SameTime(q, r) => PillarsIn(q) = PillarsIn(r)
         /\ \A q, r \in AnsweredBy({"bazi/wuxing", "chart", "fusion", "vector-map", "match"}) :
                SameChart(q, r) /\ ~Sent(q) /\ ~Sent(r) => VectorIn(q) = VectorIn(r)
<1>1. ASSUME NEW q \in AnsweredBy({"bazi", "trace", "bazi/wuxing", "natal", "chart", "match"}),
             NEW r \in AnsweredBy({"bazi", "trace", "bazi/wuxing", "natal", "chart", "match"}),
             SameTime(q, r)
      PROVE  PillarsIn(q) = PillarsIn(r)
  BY <1>1, PillarsSaid, SameDrawn
<1>2. ASSUME NEW q \in AnsweredBy({"bazi/wuxing", "chart", "fusion", "vector-map", "match"}),
             NEW r \in AnsweredBy({"bazi/wuxing", "chart", "fusion", "vector-map", "match"}),
             SameChart(q, r), ~Sent(q), ~Sent(r)
      PROVE  VectorIn(q) = VectorIn(r)
  <2>1. SameTime(q, r)
    BY <1>2 DEF SameChart
  <2>2. asked.boundary = "midnight"
        \/ (q[1] \notin {"fusion", "vector-map"} /\ r[1] \notin {"fusion", "vector-map"})
    BY <1>2 DEF SameChart
  <2>3. VectorIn(q) = BaziVector(Drawn(q)) /\ VectorIn(r) = BaziVector(Drawn(r))
    BY <1>2, <2>2, VectorsSaid
  <2> QED BY <2>1, <2>3, SameDrawn
<1> QED BY <1>1, <1>2

-----------------------------------------------------------------------------
(* The hidden stems of a natal chart.                                      *)

(* A line of a hidden stem of the pillar.                                  *)
Hides(e, pillar) == e.pillar = pillar /\ e.source # "visible"
(* The entries of such lines, out of some.                                 *)
HiddenAmong(ws, s, pillar, dayMaster) ==
    {EntryOf(dayMaster, ws[k]) : k \in {j \in s : Hides(ws[j], pillar)}}

(* What one more element adds to those of a sequence.                      *)
LEMMA AppendRange ==
  ASSUME NEW V, NEW entries \in Seq(V), NEW v \in V
  PROVE  Append(entries, v) \in Seq(V) /\ Range(Append(entries, v)) = Range(entries) \cup {v}
<1> DEFINE n == Len(entries)
           more == Append(entries, v)
<1>1. /\ n \in Nat /\ DOMAIN entries = 1 .. n /\ more \in Seq(V) /\ DOMAIN more = 1 .. (n + 1)
      /\ more[n + 1] = v /\ \A k \in 1 .. n : more[k] = entries[k]
  OBVIOUS
<1> HIDE DEF more, n
<1>2. \A k \in 1 .. (n + 1) : k \in 1 .. n \/ k = n + 1
  BY <1>1
<1>3. \A k \in 1 .. n : k \in 1 .. (n + 1)
  BY <1>1
<1>4. n + 1 \in 1 .. (n + 1)
  BY <1>1
<1>5. Range(more) = Range(entries) \cup {v}
  BY <1>1, <1>2, <1>3, <1>4 DEF Range
<1> QED BY <1>1, <1>5 DEF more

(* The hidden stems of a pillar are the entries of all its lines, and no   *)
(* others.                                                                 *)
LEMMA HiddenAre ==
  ASSUME NEW W, NEW ws \in Seq(W), NEW chart, chart.ledger = ws, NEW pillar
  PROVE  Range(HiddenStemEntries(chart, pillar))
             = HiddenAmong(ws, DOMAIN ws, pillar, chart.dayMaster)
<1>00. HiddenListing(W, ws, chart, pillar)
  BY HiddenListed
<1>0. PICK said : /\ Lists(said, ws, pillar, chart.dayMaster)
                  /\ HiddenStemEntries(chart, pillar) = said[DOMAIN ws]
                  /\ \A s \in SUBSET DOMAIN ws :
                         said[s] \in Seq({EntryOf(chart.dayMaster, e) : e \in W})
  BY <1>00 DEF HiddenListing
<1> DEFINE S == DOMAIN ws
           dayMaster == chart.dayMaster
           V == {EntryOf(dayMaster, e) : e \in W}
           Among(s) == HiddenAmong(ws, s, pillar, dayMaster)
<1>1. Len(ws) \in Nat /\ S = 1 .. Len(ws) /\ \A x \in S : ws[x] \in W
  OBVIOUS
<1>2. IsFiniteSet(S)
  <2>1. 1 \in Int /\ Len(ws) \in Int
    BY <1>1
  <2> HIDE DEF S
  <2> QED BY <1>1, <2>1, FS_Interval
<1>3. /\ Lists(said, ws, pillar, dayMaster)
      /\ HiddenStemEntries(chart, pillar) = said[S]
      /\ \A s \in SUBSET S : said[s] \in Seq(V)
  BY <1>0
<1>4. \A s \in SUBSET S :
          said[s] = IF s = {} THEN << >>
                    ELSE LET x == Max(s) IN Listing(said[s \ {x}], ws[x], pillar, dayMaster)
  BY <1>3 DEF Lists
<1> HIDE DEF S
<1>5. \A s \in SUBSET S : s # {} => Max(s) \in s
  BY <1>1, GreatestIsIn
<1> DEFINE Good == {s \in SUBSET S : Range(said[s]) = Among(s)}
<1>6. ASSUME NEW s \in SUBSET S, \A x \in s : s \ {x} \in Good
      PROVE  s \in Good
  <2>1. CASE s = {}
    <3>1. said[s] = << >>
      BY <1>4, <2>1
    <3>2. Range(<< >>) = {}
      BY DEF Range
    <3>3. Among(s) = {}
      BY <2>1 DEF HiddenAmong
    <3> QED BY <2>1, <3>1, <3>2, <3>3
  <2>2. CASE s # {}
    <3> DEFINE x == Max(s)
               rest == s \ {x}
               before == said[rest]
               entry == EntryOf(dayMaster, ws[x])
    <3>1. x \in s /\ said[s] = Listing(before, ws[x], pillar, dayMaster)
      BY <1>4, <1>5, <2>2
    <3> HIDE DEF x
    <3>2. rest \in SUBSET S /\ s = rest \cup {x} /\ x \notin rest
      BY <3>1
    <3>3. rest \in Good
      BY <1>6, <3>1
    <3> HIDE DEF rest
    <3>4. Range(before) = Among(rest) /\ before \in Seq(V)
      BY <1>3, <3>2, <3>3
    <3>5. entry \in V
      BY <1>1, <3>1
    <3> HIDE DEF before, Good, V
    <3>6. CASE Hides(ws[x], pillar)
      <4>1. said[s] = Append(before, entry)
        BY <3>1, <3>6 DEF Hides, Listing
      <4>2. Among(s) = Among(rest) \cup {entry}
        BY <3>2, <3>6 DEF HiddenAmong
      <4> HIDE DEF entry, Among
      <4>3. Range(said[s]) = Among(s)
        BY <3>4, <3>5, <4>1, <4>2, AppendRange
      <4> QED BY <4>3 DEF Good
    <3>7. CASE ~Hides(ws[x], pillar)
      <4>1. said[s] = before
        BY <3>1, <3>7 DEF Hides, Listing
      <4>2. Among(s) = Among(rest)
        BY <3>2, <3>7 DEF HiddenAmong
      <4> QED BY <3>4, <4>1, <4>2 DEF Good
    <3> QED BY <3>6, <3>7
  <2> QED BY <2>1, <2>2
<1> HIDE DEF Good
<1>7. \A s \in SUBSET S : s \in Good
  BY <1>2, <1>6, SubsetInduction
<1>8. S \in Good
  BY <1>7
<1> QED BY <1>3, <1>8 DEF Good, S

(* A hidden stem as a natal chart shows it.                                *)
HiddenLine(i, entry) == <<i, entry.phase, entry.weight>>
(* A line as a ledger does.                                                *)
LineOf(e) == <<e.pillar, e.phase, e.weight>>
(* The hidden stems of a natal chart with this ledger.                     *)
HiddenShown(ws, dayMaster) ==
    UNION {{HiddenLine(i, h) : h \in HiddenAmong(ws, DOMAIN ws, i, dayMaster)} : i \in 1 .. 4}
(* The hidden stems in a ledger of phases.                                 *)
HiddenLinesOf(vs) == {LineOf(vs[k]) : k \in {j \in DOMAIN vs : vs[j].source # "stem"}}

(* Where two ledgers tell the same, so do their hidden stems.              *)
LEMMA HiddenTold ==
  ASSUME NEW vs, NEW ws, Alike(vs, ws), NEW dayMaster
  PROVE  HiddenShown(ws, dayMaster) = HiddenLinesOf(vs)
<1> DEFINE Among(i) == HiddenAmong(ws, DOMAIN ws, i, dayMaster)
           told == UNION {{HiddenLine(i, h) : h \in Among(i)} : i \in 1 .. 4}
           listed == {LineOf(vs[k]) : k \in {j \in DOMAIN vs : vs[j].source # "stem"}}
<1>1. /\ DOMAIN vs = DOMAIN ws
      /\ \A k \in DOMAIN ws : SameLine(vs[k], ws[k]) /\ ws[k] \in StemLine
  BY DEF Alike, Over
<1>2. ASSUME NEW k \in DOMAIN ws
      PROVE  /\ ws[k].pillar \in 1 .. 4
             /\ HiddenLine(ws[k].pillar, EntryOf(dayMaster, ws[k])) = LineOf(vs[k])
             /\ ws[k].source # "visible" <=> vs[k].source # "stem"
  <2> DEFINE w == ws[k]
             v == vs[k]
             entry == EntryOf(dayMaster, w)
  <2>1. SameLine(v, w) /\ w \in StemLine
    BY <1>1
  <2> HIDE DEF w, v
  <2>2. entry.phase = ElementOf(w.stem) /\ entry.weight = w.weight
    BY DEF EntryOf
  <2>3. w.pillar \in 1 .. 4 /\ ElementOf(w.stem) = w.phase
    BY <2>1 DEF StemLine
  <2> HIDE DEF entry
  <2>4. HiddenLine(w.pillar, entry) = LineOf(v)
    BY <2>1, <2>2, <2>3 DEF HiddenLine, LineOf, SameLine
  <2>5. w.source # "visible" <=> v.source # "stem"
    BY <2>1 DEF SameLine
  <2> QED BY <2>3, <2>4, <2>5 DEF w, v, entry
<1>3. ASSUME NEW x \in told PROVE x \in listed
  <2>1. PICK i \in 1 .. 4 : \E h \in Among(i) : x = HiddenLine(i, h)
    OBVIOUS
  <2>2. PICK h \in Among(i) : x = HiddenLine(i, h)
    BY <2>1
  <2>3. PICK k \in DOMAIN ws : Hides(ws[k], i) /\ h = EntryOf(dayMaster, ws[k])
    BY <2>2 DEF HiddenAmong
  <2>4. ws[k].pillar = i /\ ws[k].source # "visible"
    BY <2>3 DEF Hides
  <2>5. x = LineOf(vs[k]) /\ k \in DOMAIN vs /\ vs[k].source # "stem"
    BY <1>1, <1>2, <2>2, <2>3, <2>4
  <2> QED BY <2>5
<1>4. ASSUME NEW x \in listed PROVE x \in told
  <2>1. PICK k \in DOMAIN vs : vs[k].source # "stem" /\ x = LineOf(vs[k])
    OBVIOUS
  <2> DEFINE i == ws[k].pillar
             h == EntryOf(dayMaster, ws[k])
  <2>2. k \in DOMAIN ws /\ i \in 1 .. 4 /\ x = HiddenLine(i, h) /\ ws[k].source # "visible"
    BY <1>1, <1>2, <2>1
  <2>3. h \in Among(i)
    BY <2>2 DEF HiddenAmong, Hides
  <2> HIDE DEF i, h, Among
  <2> QED BY <2>2, <2>3
<1> HIDE DEF told, listed
<1>5. told = listed
  BY <1>3, <1>4
<1> QED BY <1>5 DEF told, listed, HiddenShown, HiddenLinesOf

(* Those of a natal chart are those of the ledger of phases.               *)
LEMMA HiddenSaid ==
  ASSUME Settings, AnswersSaid, NEW q \in AnsweredBy({"natal"}), NEW r \in AnsweredBy({"bazi/wuxing"})
  PROVE  HiddenIn(q) = HiddenInLedger(r)
<1> DEFINE own == DrawnAs(Chosen, asked, asked.standard, asked.boundary)
           natal == Charted(Chosen, asked, answers[q].eph)
           vs == BaziLedger(own)
           ws == StemLedger(own)
<1>1. /\ Chosen \in BirthType /\ asked \in Requests
      /\ answers[q].answer.status = 200 /\ Body(q) = answers[q].answer.body
      /\ answers[r].answer.status = 200 /\ Body(r) = answers[r].answer.body
      /\ Said(birth, asked, q, answers[q]) /\ Said(birth, asked, r, answers[r])
      /\ q[1] = "natal" /\ r[1] = "bazi/wuxing"
  BY EntrySaid, ClientAsks DEF Chosen
<1>2. answers[q].answer = Natal(Chosen, asked, answers[q].eph)
  BY <1>1 DEF Said, ChartSaid, Chosen
<1>3. answers[r].answer = BaziWuXing(Chosen, asked, answers[r].eph)
  BY <1>1 DEF Said, ChartSaid, Chosen
<1>4. /\ BaziOf(Chosen, asked, asked.boundary, Found(answers[q].eph, "bazi")).error = "none"
      /\ Body(q).pillars = Blocks(natal)
  BY <1>1, <1>2, NatalSays
<1>5. /\ BaziOf(Chosen, asked, asked.boundary, Found(answers[r].eph, "bazi")).error = "none"
      /\ Body(r).ledger =
             BaziLedger(BaziOf(Chosen, asked, asked.boundary,
                               Found(answers[r].eph, "bazi")).value.chart)
  BY <1>1, <1>3, BaziWuXingSays
<1>6. /\ BaziOf(Chosen, asked, asked.boundary, Found(answers[q].eph, "bazi")).value.chart = own
      /\ BaziOf(Chosen, asked, asked.boundary, Found(answers[r].eph, "bazi")).value.chart = own
      /\ IsChart(own)
  BY <1>1, <1>4, <1>5, BaziIsDrawn
<1>7. natal.ledger = ws
  BY <1>6, NormalizeSays DEF Charted
<1>8. Body(r).ledger = vs
  BY <1>5, <1>6
<1> HIDE DEF own
<1>9. Alike(vs, ws)
  BY <1>6, OneVectorOf
<1> HIDE DEF vs, ws, natal
<1>10. ws \in Seq(StemLine)
  BY <1>9 DEF Alike, Over
<1>11. ASSUME NEW i \in 1 .. 4
       PROVE  Range(Body(q).pillars[i].hidden) = HiddenAmong(ws, DOMAIN ws, i, natal.dayMaster)
  <2>1. Body(q).pillars[i] = PillarBlock(natal, i)
    BY <1>4 DEF Blocks
  <2>2. Body(q).pillars[i].hidden = HiddenStemEntries(natal, i)
    BY <2>1 DEF PillarBlock
  <2>3. Range(HiddenStemEntries(natal, i)) = HiddenAmong(ws, DOMAIN ws, i, natal.dayMaster)
    BY <1>7, <1>10, HiddenAre
  <2> QED BY <2>2, <2>3
<1>12. HiddenIn(q) = HiddenShown(ws, natal.dayMaster)
  BY <1>11 DEF HiddenIn, HiddenShown, HiddenLine
<1>13. HiddenInLedger(r) = HiddenLinesOf(vs)
  BY <1>8 DEF HiddenInLedger, HiddenLinesOf, LineOf
<1> QED BY <1>9, <1>12, <1>13, HiddenTold

-----------------------------------------------------------------------------
(* The day of a birth and the day in the app.                              *)

(* The offset of the ruleset is that of the code.                          *)
LEMMA OffsetSame == (0 - 2419451) % 60 = 49
<1> DEFINE a == 0 - 2419451
           k == 0 - 40325
<1>1. a \in Int /\ k \in Int /\ a = 60 * k + 49
  BY SMT
<1> HIDE DEF a, k
<1>2. a % 60 = 49
  BY <1>1, SMT
<1> QED BY <1>2, SMT DEF a

(* By the clock of the sun, the day pillar is that of the date on that     *)
(* clock.                                                                  *)
LEMMA SunTurnsDay ==
  ASSUME NEW b \in BirthType, NEW u \in Int
  PROVE  Chart(b, u, "TLST", "midnight")[3]
             = DailyPillar(CivilAt(b.place, u) \div 1440 + SolarTime(b, u).rollover)
<1> DEFINE civil == CivilAt(b.place, u) \div 1440
           solar == (u + b.place.longitude + b.place.equation) \div 1440
           rollover == SolarTime(b, u).rollover
           dated == Engine(u, b.place, "TLST", "midnight")!DateForDay
           day == Engine(u, b.place, "TLST", "midnight")!Day
           early == Engine(u, b.place, "TLST", "midnight")!CivilAt(u)
<1>1. /\ b.place.at \in Int /\ b.place.before \in Int /\ b.place.after \in Int
      /\ b.place.longitude \in Int /\ b.place.equation \in Int /\ Epoch \in Int
  BY BirthsAssumption, PlaceFields
<1>2. civil \in Int /\ solar \in Int
  BY <1>1, SMT DEF CivilAt
<1>3. rollover = solar - civil
  BY SMT DEF SolarTime
<1>4. dated = Epoch + civil + rollover
  <2>1. dated = Epoch + civil + ((Epoch + solar) - (Epoch + civil))
    BY SMT DEF Engine!DateForDay, Engine!SolarDate, Engine!Date, Engine!DateRollover,
       Engine!Apparent, Engine!Civil, Engine!CivilAt, Engine!Chart, CivilAt
  <2> HIDE DEF civil, solar, rollover, dated
  <2> QED BY <1>1, <1>2, <1>3, <2>1
<1>5. day = PillarFromIndex60((dated + 49) % 60)
  <2> DEFINE index == Engine(u, b.place, "TLST", "midnight")!DayIndex60
             k == Engine(u, b.place, "TLST", "midnight")!DayOffset(TRUE)
  <2>1. k = 49
    BY OffsetSame, SMT DEF Engine!DayOffset
  <2>2. day = PillarFromIndex60(index)
    BY SMT DEF Engine!Day, PillarFromIndex60, Engine!PillarFromIndex60
  <2>3. index = (dated + k) % 60
    BY SMT DEF Engine!DayIndex60
  <2> HIDE DEF index, k, dated, day
  <2> QED BY <2>1, <2>2, <2>3
<1>6. DailyPillar(civil + rollover) = PillarFromIndex60((Epoch + (civil + rollover) + 49) % 60)
  BY SMT DEF DailyPillar, DayOffset
<1>7. Chart(b, u, "TLST", "midnight")[3] = day
  BY SMT DEF Chart
<1> HIDE DEF civil, solar, rollover, dated, day
<1>8. dated + 49 = Epoch + (civil + rollover) + 49
  BY <1>1, <1>2, <1>3, <1>4
<1> QED BY <1>5, <1>6, <1>7, <1>8 DEF civil, rollover

(* And a day in the east has the pillar of its date.                       *)
LEMMA EasternPillar ==
  ASSUME NEW b, NEW dayMaster, NEW day, NEW e
  PROVE  EasternDaily(b, dayMaster, day, e).pillar = DailyPillar(day)
<1> DEFINE pillar == DailyPillar(day)
           relation == DetermineRelation(ElementOf(dayMaster), ElementOf(pillar.stem))
           themes == EasternThemes[relation]
           variant == Variant(b, day)
           term == Jieqi(b, day, e)
           weekday == (Epoch + day) % 7
<1>1. EasternDaily(b, dayMaster, day, e)
          = [dayMaster |-> dayMaster, pillar |-> pillar, relation |-> relation,
             themes |-> themes, variant |-> variant, jieqi |-> term, weekday |-> weekday]
  BY DEF EasternDaily
<1> HIDE DEF pillar, relation, themes, variant, term, weekday
<1>2. EasternDaily(b, dayMaster, day, e).pillar = pillar
  BY <1>1
<1> QED BY <1>2 DEF pillar

(* So a birth has the pillar that its day has in the east.                 *)
LEMMA DayOfBirth ==
  ASSUME Settings, AnswersSaid,
         NEW q \in AnsweredBy({"bazi"}), NEW r \in AnsweredBy({"daily", "eastern"}),
         asked.standard = "TLST", asked.boundary = "midnight",
         CivilAt(Chosen.place, Body(q).at) \div 1440 + SolarTime(Chosen, Body(q).at).rollover = r[2]
  PROVE  Plain(Body(q).pillars)[3] =
             [stem |-> EasternIn(r).pillar.stem, branch |-> EasternIn(r).pillar.branch]
<1> DEFINE e == answers[q].eph
           x == answers[q].answer
           u == InstantOf(Chosen, asked)
           bazi == BaziOf(Chosen, asked, asked.boundary, Found(e, "bazi"))
           own == DrawnAs(Chosen, asked, asked.standard, asked.boundary)
<1>1. /\ Chosen \in BirthType /\ asked \in Requests /\ x.status = 200 /\ Body(q) = x.body
      /\ Said(birth, asked, q, answers[q]) /\ q[1] = "bazi"
  BY EntrySaid, ClientAsks DEF Chosen
<1>2. x = Bazi(Chosen, asked, e)
  BY <1>1 DEF Said, ChartSaid, Chosen
<1>3. Untraced(Chosen, asked, e).error = "none" /\ x.body = Untraced(Chosen, asked, e).value
  BY <1>1, <1>2, BaziSays
<1>4. /\ bazi.error = "none" /\ x.body.pillars = Shown(bazi.value.chart)
      /\ x.body.at = bazi.value.at
  <2> DEFINE made == Untraced(Chosen, asked, e)
  <2> HIDE DEF made
  <2>1. made.error = "none" /\ x.body = made.value
    BY <1>3 DEF made
  <2>2. /\ bazi.error = "none" /\ made.value.at = bazi.value.at
        /\ made.value.pillars = Shown(bazi.value.chart)
    BY <1>3, BaziResponseSays DEF bazi, made
  <2> QED BY <2>1, <2>2
<1>5. /\ bazi.value.chart = own /\ bazi.value.at = u /\ IsChart(own)
      /\ Resolve(Chosen, asked).error = "none"
  BY <1>1, <1>4, BaziIsDrawn
<1>6. Body(q).at = u /\ u \in Int
  BY <1>1, <1>4, <1>5, ReadAgain
<1> HIDE DEF bazi, u
<1>7. own[3] = Chart(Chosen, u, "TLST", "midnight")[3]
  BY DEF DrawnAs, u
<1>8. own[3] = DailyPillar(r[2])
  BY <1>1, <1>6, <1>7, SunTurnsDay
<1>9. EasternIn(r).pillar = DailyPillar(r[2])
  <2>1. PICK dayMaster, f : EasternIn(r) = EasternDaily(Births[birth], dayMaster, r[2], f)
    BY EasternDrawn
  <2> QED BY <2>1, EasternPillar
<1> HIDE DEF own
<1>10. Plain(Body(q).pillars) = Plain(own)
  BY <1>1, <1>4, <1>5, ShownPlain
<1>11. Plain(own)[3] = [stem |-> own[3].stem, branch |-> own[3].branch]
  BY DEF Plain
<1> QED BY <1>8, <1>9, <1>10, <1>11

(* From the answers kept, the promise about tables and ledgers.            *)
LEMMA LedgersMatch ==
  ASSUME Settings, AnswersSaid
  PROVE  LedgersAgree
<1>1. /\ \A q, r \in AnsweredBy({"bazi", "trace", "bazi/wuxing", "natal", "chart", "match"}) :
            SameTime(q, r) => PillarsIn(q) = PillarsIn(r)
      /\ \A q, r \in AnsweredBy({"bazi/wuxing", "chart", "fusion", "vector-map", "match"}) :
            SameChart(q, r) /\ ~Sent(q) /\ ~Sent(r) => VectorIn(q) = VectorIn(r)
  BY PillarsAgree
<1>2. \A q \in AnsweredBy({"natal"}), r \in AnsweredBy({"bazi/wuxing"}) :
          HiddenIn(q) = HiddenInLedger(r)
  BY HiddenSaid
<1>3. ASSUME NEW q \in AnsweredBy({"bazi"}), NEW r \in AnsweredBy({"daily", "eastern"}),
             asked.standard = "TLST", asked.boundary = "midnight",
             CivilAt(Chosen.place, Body(q).at) \div 1440
                 + SolarTime(Chosen, Body(q).at).rollover = r[2]
      PROVE  Plain(Body(q).pillars)[3] =
                 [stem |-> EasternIn(r).pillar.stem, branch |-> EasternIn(r).pillar.branch]
  BY <1>3, DayOfBirth
<1> QED BY <1>1, <1>2, <1>3 DEF LedgersAgree

(* Whatever shows the pillars of a birth, its vector or its hidden stems   *)
(* shows the same, each from a table of its own, and its day is the day    *)
(* the app shows (routers/natal.py, match/normalize.py,                    *)
(* wuxing/analysis.py: calculate_wuxing_from_bazi with and without a       *)
(* ledger, services/daily_eastern.py).                                     *)
THEOREM LedgersTellTheSame == Spec => []LedgersAgree
<1>1. IInv => LedgersAgree
  BY LedgersMatch DEF IInv
<1> QED BY <1>1, InvAlways, PTL

-----------------------------------------------------------------------------
(* What an app carries from one endpoint to the next.                      *)

(* The visual parameters of a signature that depend on its phases alone.   *)
LEMMA BlueprintSays ==
  ASSUME NEW sectors, NEW vector, NEW harmony
  PROVE  /\ Blueprint(sectors, vector, harmony).elements = vector
         /\ Blueprint(sectors, vector, harmony).visual.curvature
                = Within(100 * (vector[4] + vector[0]), 0, One)
         /\ "curvature" \in DOMAIN Blueprint(sectors, vector, harmony).visual
<1> DEFINE total == SumFunctionOnSet(sectors, Sectors)
           mean == total \div 12
           variance == SumFunction([i \in Sectors |-> (sectors[i] - mean) * (sectors[i] - mean)])
                           \div 12
           symmetry == Within(One - 10 * Root(variance), 0, One)
           curvature == Within(100 * (vector[4] + vector[0]), 0, One)
           angularity == Within(100 * (vector[3] + vector[1]), 0, One)
           density == Within((One * TopThree(sectors)) \div total, 0, One)
           contrast == Within(Max(Range(sectors)) - Min(Range(sectors)), 0, One)
           orbits == Within((5 * harmony + 999) \div 1000 + 1, 2, 5)
           visual == [symmetry |-> symmetry, curvature |-> curvature, angularity |-> angularity,
                      density |-> density, contrast |-> contrast, orbits |-> orbits]
           signature == [visual |-> visual, elements |-> vector]
<1>1. Blueprint(sectors, vector, harmony) = signature
  BY DEF Blueprint
<1> HIDE DEF symmetry, curvature, angularity, density, contrast, orbits
<1>2. visual.curvature = curvature /\ "curvature" \in DOMAIN visual
  OBVIOUS
<1> HIDE DEF visual
<1>3. signature.visual = visual /\ signature.elements = vector
  OBVIOUS
<1> HIDE DEF signature
<1>4. /\ Blueprint(sectors, vector, harmony).elements = vector
      /\ Blueprint(sectors, vector, harmony).visual.curvature = curvature
      /\ "curvature" \in DOMAIN Blueprint(sectors, vector, harmony).visual
  BY <1>1, <1>2, <1>3
<1> QED BY <1>4 DEF curvature

(* A question of the quiz with the signature: the phases go on, and the    *)
(* change is against the old parameters.                                   *)
LEMMA DeltaSays ==
  ASSUME NEW soulprint, NEW signature, NEW keyword, NEW x, x.status = 200,
         x = SignatureDelta(soulprint, {signature}, keyword)
  PROVE  /\ x.body.signature.elements = signature.elements
         /\ x.body.delta.curvature
                = Within(100 * (signature.elements[4] + signature.elements[0]), 0, One)
                      - signature.visual.curvature
<1> DEFINE quiz == ResolveQuizSectors(keyword)
           blended == Blended(soulprint, quiz)
           elements == signature.elements
           old == signature.visual
           new == Blueprint(blended, elements, 500)
           names == {"curvature", "contrast", "density"}
           visual == new.visual
           delta == [name \in names |-> visual[name] - old[name]]
           body == [quiz |-> quiz, delta |-> delta, signature |-> new]
<1>1. (CHOOSE t \in {signature} : TRUE) = signature
  OBVIOUS
<1>2. x = IF ~IsSectors(soulprint) THEN Refused(422, "validation_error")
          ELSE IF ~IsBlueprint(new) THEN Refused(500, "ValidationError") ELSE Answer(body)
  BY <1>1 DEF SignatureDelta, ElementsSent, Moved
<1>3. /\ new.elements = elements
      /\ visual.curvature = Within(100 * (elements[4] + elements[0]), 0, One)
  BY BlueprintSays
<1> HIDE DEF new, elements, old, quiz
<1>4. body.signature = new /\ body.delta = delta
  <2> HIDE DEF delta
  <2> QED OBVIOUS
<1> HIDE DEF visual
<1>5. delta.curvature = visual.curvature - old.curvature
  OBVIOUS
<1> HIDE DEF body, delta
<1>6. x = Answer(body)
  BY <1>2 DEF Refused
<1>7. x.body = body
  BY <1>6, AnswerSays
<1>8. /\ x.body.signature.elements = elements
      /\ x.body.delta.curvature = Within(100 * (elements[4] + elements[0]), 0, One) - old.curvature
  BY <1>3, <1>4, <1>5, <1>7
<1> QED BY <1>8 DEF elements, old

(* What an app was told of its signature hangs together.                   *)
LEMMA ToldSays ==
  ASSUME AnswersSaid, Bootstrapped
  PROVE  /\ Told.signature.visual.curvature \in Int
         /\ Told.signature.visual.curvature =
                Within(100 * (Told.signature.elements[4] + Told.signature.elements[0]), 0, One)
<1> DEFINE first == <<"bootstrap">>
           entry == answers[first]
<1>1. entry.answer.status = 200 /\ first \in Questions /\ Told = entry.answer.body
  BY DEF Bootstrapped, Told
<1>2. first[1] = "bootstrap"
  OBVIOUS
<1> HIDE DEF first
<1>3. entry.answer = Bootstrap(Births[birth], entry.eph)
  BY <1>1, <1>2 DEF AnswersSaid, Said, AppSaid
<1> HIDE DEF entry
<1>4. /\ IsBlueprint(Told.signature)
      /\ \E sectors, vector, harmony : Told.signature = Blueprint(sectors, vector, harmony)
  BY <1>1, <1>3, BootstrapSays
<1>5. PICK sectors, vector, harmony : Told.signature = Blueprint(sectors, vector, harmony)
  BY <1>4
<1> DEFINE signature == Blueprint(sectors, vector, harmony)
<1>6. /\ signature.elements = vector
      /\ signature.visual.curvature = Within(100 * (vector[4] + vector[0]), 0, One)
      /\ "curvature" \in DOMAIN signature.visual
  BY BlueprintSays
<1>7. Told.signature = signature
  BY <1>5
<1> HIDE DEF signature
<1>8. "curvature" \in DOMAIN signature.visual \ {"orbits"}
  BY <1>6
<1>9. signature.visual.curvature \in Int
  <2>1. signature.visual.curvature \in 0 .. One
    BY <1>4, <1>7, <1>8 DEF IsBlueprint
  <2> QED BY <2>1
<1> QED BY <1>6, <1>7, <1>9

(* What a day does to a birth depends on the sectors in its harmony, and   *)
(* in what follows from that, only.                                        *)
LEMMA ImpactApart ==
  ASSUME NEW master, NEW natal, NEW cusps, NEW day, NEW s, NEW t, NEW weather,
         NEW part \in {"active", "badges", "top", "dayMaster", "weather", "partial"}
  PROVE  ImpactOf(master, natal, cusps, day, s, weather)[part]
             = ImpactOf(master, natal, cusps, day, t, weather)[part]
<1> DEFINE element == ElementOf(master)
           active == Enrich(ActivePlanets(natal, TransitOf(day), cusps), element)
           score == WeatherScore(weather)
           crowd == Crowd(active)
           badges == Badges(active)
           top == TopSector(active)
           partial == weather.partial
           Harmony(v) == HarmonyOf(NatalVector(v), TransitVector(active))
           Intensity(v) == IntensityOf(Harmony(v), crowd, score)
           Mood(v) == DayMode(Harmony(v), Intensity(v))
           Cause(v) == Drivers(score, crowd, Harmony(v))
           Of(v) == [harmony |-> Harmony(v), mode |-> Mood(v), intensity |-> Intensity(v),
                     active |-> active, weather |-> score, drivers |-> Cause(v),
                     badges |-> badges, top |-> top, dayMaster |-> element, partial |-> partial]
<1>1. ASSUME NEW v PROVE ImpactOf(master, natal, cusps, day, v, weather) = Of(v)
  BY DEF ImpactOf, ImpactWith
<1>2. ASSUME NEW v PROVE /\ Of(v).active = active /\ Of(v).badges = badges /\ Of(v).top = top
                         /\ Of(v).dayMaster = element /\ Of(v).weather = score
                         /\ Of(v).partial = partial
  <2> DEFINE harmony == Harmony(v)
             intensity == Intensity(v)
             mood == Mood(v)
             cause == Cause(v)
             of == [harmony |-> harmony, mode |-> mood, intensity |-> intensity,
                    active |-> active, weather |-> score, drivers |-> cause,
                    badges |-> badges, top |-> top, dayMaster |-> element, partial |-> partial]
  <2>1. Of(v) = of
    OBVIOUS
  <2> HIDE DEF harmony, intensity, mood, cause, active, score, badges, top, element, partial
  <2>2. /\ of.active = active /\ of.badges = badges /\ of.top = top
        /\ of.dayMaster = element /\ of.weather = score /\ of.partial = partial
    OBVIOUS
  <2> HIDE DEF of, Of
  <2> QED BY <2>1, <2>2
<1> HIDE DEF Of, active, score, badges, top, element, partial
<1>3. Of(s)[part] = Of(t)[part]
  BY <1>2
<1> QED BY <1>1, <1>3

(* A profile is of the instant of the birth, with the master of that day.  *)
LEMMA ProfileHolds ==
  ASSUME NEW b, NEW e, Profile(b, e).error = "none"
  PROVE  LET u == Reading(b.place, b.wall, 0)
         IN  /\ Profile(b, e).value.at = u
             /\ Profile(b, e).value.dayMaster = Chart(b, u, "TLST", "midnight")[3].stem
<1> DEFINE bazi == BaziOfProfile(b, Found(e, "bazi"))
           sky == Western(b, bazi.value.at, Found(e, "western"))
           fusion == Strictly(sky.value.bodies, sky.value.ascendant, bazi.value.chart)
           u == Reading(b.place, b.wall, 0)
           chart == Chart(b, u, "TLST", "midnight")
<1>1. /\ bazi.error = "none"
      /\ Profile(b, e).value = ProfileOf(bazi.value, sky.value, fusion.value)
  BY ProfileSays
<1>2. bazi.value.at = u /\ bazi.value.chart = chart
  BY <1>1, ProfileReads
<1> HIDE DEF bazi, sky, fusion, u, chart
<1>3. /\ ProfileOf(bazi.value, sky.value, fusion.value).at = bazi.value.at
      /\ ProfileOf(bazi.value, sky.value, fusion.value).dayMaster = bazi.value.chart[3].stem
  BY DEF ProfileOf
<1>4. Profile(b, e).value.at = u /\ Profile(b, e).value.dayMaster = chart[3].stem
  BY <1>1, <1>2, <1>3
<1> QED BY <1>4 DEF u, chart

(* The day in the east repeats the day master it is asked about.           *)
LEMMA EasternMaster ==
  ASSUME NEW b, NEW dayMaster, NEW day, NEW e
  PROVE  EasternDaily(b, dayMaster, day, e).dayMaster = dayMaster
<1> DEFINE pillar == DailyPillar(day)
           relation == DetermineRelation(ElementOf(dayMaster), ElementOf(pillar.stem))
           themes == EasternThemes[relation]
           variant == Variant(b, day)
           term == Jieqi(b, day, e)
           weekday == (Epoch + day) % 7
<1>1. EasternDaily(b, dayMaster, day, e)
          = [dayMaster |-> dayMaster, pillar |-> pillar, relation |-> relation,
             themes |-> themes, variant |-> variant, jieqi |-> term, weekday |-> weekday]
  BY DEF EasternDaily
<1> HIDE DEF pillar, relation, themes, variant, term, weekday
<1> QED BY <1>1

(* A day's reading is of that master, and of the sky at that instant.      *)
LEMMA DailyHolds ==
  ASSUME Settings, AnswersSaid, NEW q \in AnsweredBy({"daily"})
  PROVE  LET b == Births[birth]
             u == Reading(b.place, b.wall, 0)
             master == Chart(b, u, "TLST", "midnight")[3].stem
         IN  /\ Body(q).eastern.dayMaster = master
             /\ \A impact \in Body(q).impact : \E sectors : \E weather \in q[3] :
                    impact = ImpactOf(master, Longitudes(b, u), Cusps(b, u), q[2], sectors, weather)
<1> DEFINE b == Births[birth]
           e == answers[q].eph
           u == Reading(b.place, b.wall, 0)
           master == Chart(b, u, "TLST", "midnight")[3].stem
           profile == Profile(b, e).value
<1>1. PICK soulprint :
          /\ answers[q].answer = Daily(b, asked.timeKnown, soulprint, Equal, q[2], q[3], e)
          /\ answers[q].answer.status = 200 /\ Body(q) = answers[q].answer.body
  BY EntrySaid DEF Said, AppSaid
<1>2. /\ Profile(b, e).error = "none"
      /\ Body(q).eastern = EasternDaily(b, profile.dayMaster, q[2], Found(e, "term"))
      /\ Body(q).impact =
             UNION {DailyImpact(b, profile, soulprint, Equal, q[2], w,
                                Found(e, "impact")) : w \in q[3]}
  BY <1>1, DailySays
<1>3. profile.at = u /\ profile.dayMaster = master
  BY <1>2, ProfileHolds
<1> HIDE DEF b, e, u, master, profile
<1>4. Body(q).eastern.dayMaster = master
  BY <1>2, <1>3, EasternMaster
<1>5. ASSUME NEW impact \in Body(q).impact
      PROVE  \E sectors : \E weather \in q[3] :
                 impact = ImpactOf(master, Longitudes(b, u), Cusps(b, u), q[2], sectors, weather)
  <2>1. PICK weather \in q[3] : impact \in DailyImpact(b, profile, soulprint, Equal, q[2],
                                                       weather, Found(e, "impact"))
    BY <1>2, <1>5
  <2> DEFINE sectors == <<SectorsToWuXing(soulprint), SectorsToWuXing(Equal)>>
  <2>2. impact = ImpactOf(profile.dayMaster, Longitudes(b, profile.at), Cusps(b, profile.at),
                          q[2], sectors, weather)
    BY <2>1 DEF DailyImpact
  <2> HIDE DEF sectors
  <2> QED BY <1>3, <2>2
<1> QED BY <1>4, <1>5 DEF b, u, master

(* From the answers kept, the promise about what an app is told.           *)
LEMMA AppTold ==
  ASSUME Settings, AnswersSaid, Carried
  PROVE  AppAgrees
<1>1. ASSUME NEW q \in AnsweredBy({"delta"}), q[3]
      PROVE  /\ Body(q).signature.elements = Told.signature.elements
             /\ Body(q).delta.curvature = 0
  <2>0. q \in Questions
    BY DEF AnsweredBy, Answered
  <2>1. q[1] = "delta" /\ answers[q].answer.status = 200 /\ Body(q) = answers[q].answer.body
    BY EntrySaid
  <2>2. /\ Bootstrapped
        /\ answers[q].answer = SignatureDelta(Told.soulprint, {Told.signature}, q[2])
    <3>1. DeltaSaid(q, answers[q].answer)
      BY <2>0 DEF Carried
    <3> QED BY <1>1, <2>1, <3>1 DEF DeltaSaid
  <2> DEFINE signature == Told.signature
             old == signature.visual.curvature
             now == Within(100 * (signature.elements[4] + signature.elements[0]), 0, One)
  <2>3. /\ Body(q).signature.elements = signature.elements
        /\ Body(q).delta.curvature = now - old
    <3> DEFINE x == answers[q].answer
               soulprint == Told.soulprint
    <3>1. x.status = 200 /\ x = SignatureDelta(soulprint, {signature}, q[2]) /\ Body(q) = x.body
      BY <2>1, <2>2
    <3> HIDE DEF x, soulprint, signature
    <3>2. /\ x.body.signature.elements = signature.elements
          /\ x.body.delta.curvature
                 = Within(100 * (signature.elements[4] + signature.elements[0]), 0, One)
                       - signature.visual.curvature
      BY <3>1, DeltaSays
    <3> QED BY <3>1, <3>2
  <2>4. old \in Int /\ old = now
    BY <2>2, ToldSays
  <2> HIDE DEF old, now
  <2>5. now - old = 0
    BY <2>4
  <2> QED BY <2>3, <2>5
<1> DEFINE b == Births[birth]
           u == Reading(b.place, b.wall, 0)
           master == Chart(b, u, "TLST", "midnight")[3].stem
<1>2. ASSUME NEW q \in AnsweredBy({"bootstrap"}), NEW r \in AnsweredBy({"daily"})
      PROVE  Body(q).dayMaster = Body(r).eastern.dayMaster
  <2>1. /\ answers[q].answer = Bootstrap(b, answers[q].eph)
        /\ answers[q].answer.status = 200 /\ Body(q) = answers[q].answer.body
    BY EntrySaid DEF Said, AppSaid
  <2>2. /\ Profile(b, answers[q].eph).error = "none"
        /\ Body(q).dayMaster = Profile(b, answers[q].eph).value.dayMaster
    BY <2>1, BootstrapSays
  <2>3. Body(q).dayMaster = master
    BY <2>2, ProfileHolds
  <2>4. Body(r).eastern.dayMaster = master
    BY DailyHolds
  <2> QED BY <2>3, <2>4
<1>3. ASSUME NEW q \in AnsweredBy({"daily"}), NEW r \in AnsweredBy({"impact"}),
             q[2] = r[2], q[3] = {r[3]}, NEW impact \in Body(q).impact,
             NEW part \in {"active", "badges", "top", "dayMaster", "weather", "partial"}
      PROVE  impact[part] = Body(r)[part]
  <2>1. PICK sectors :
            /\ answers[r].answer = ImpactActive(b, r[2], sectors, r[3], answers[r].eph)
            /\ answers[r].answer.status = 200 /\ Body(r) = answers[r].answer.body
    BY EntrySaid DEF Said, AppSaid
  <2> DEFINE bazi == BaziOfProfile(b, Found(answers[r].eph, "bazi"))
  <2>2. /\ bazi.error = "none"
        /\ Body(r) = ImpactOf(bazi.value.chart[3].stem, Longitudes(b, bazi.value.at),
                              Cusps(b, bazi.value.at), r[2], sectors, r[3])
    BY <2>1, ImpactSays
  <2>3. bazi.value.at = u /\ bazi.value.chart[3].stem = master
    BY <2>2, ProfileReads
  <2>4. \E others : \E weather \in q[3] :
            impact = ImpactOf(master, Longitudes(b, u), Cusps(b, u), q[2], others, weather)
    BY DailyHolds
  <2>5. PICK others : \E weather \in q[3] :
            impact = ImpactOf(master, Longitudes(b, u), Cusps(b, u), q[2], others, weather)
    BY <2>4
  <2> HIDE DEF b, u, master, bazi
  <2>6. impact = ImpactOf(master, Longitudes(b, u), Cusps(b, u), r[2], others, r[3])
    BY <1>3, <2>5
  <2>7. Body(r) = ImpactOf(master, Longitudes(b, u), Cusps(b, u), r[2], sectors, r[3])
    BY <2>2, <2>3
  <2> QED BY <2>6, <2>7, ImpactApart
<1> QED BY <1>1, <1>2, <1>3 DEF AppAgrees

(* What an app is told of a birth agrees, though it carries it itself from *)
(* one endpoint to the next: a question of the quiz leaves the phases      *)
(* alone, and the reading of a day is of the same master and shows the     *)
(* planets that their own endpoint shows (routers/experience.py,           *)
(* routers/impact.py).                                                     *)
THEOREM AppCarriesOn == Spec => []AppAgrees
<1>1. IInv => AppAgrees
  BY AppTold DEF IInv
<1> QED BY <1>1, InvAlways, PTL
=============================================================================
