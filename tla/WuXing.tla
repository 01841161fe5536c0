------------------------------- MODULE WuXing -------------------------------
(***************************************************************************)
(* The five phases (bazi_engine/wuxing/): what the pillars of a chart and  *)
(* the bodies of a western chart contribute to each phase, the two cycles, *)
(* and the zones in which two vectors are compared.                        *)
(*                                                                         *)
(* A phase is its place in WUXING_ORDER: Holz, Feuer, Erde, Metall,        *)
(* Wasser.  Weights of pillars count tenths, those of bodies millionths,   *)
(* in which the code's rounding to six places is exact.                    *)
(***************************************************************************)
EXTENDS Sexagenary, SequencesExt

Phases == 0 .. 4
Sheng(p) == (p + 1) % 5
ShengInverse(p) == (p + 4) % 5
Ke(p) == (p + 2) % 5

ElementOf(stem) == stem \div 2

(* The function f itself, of which TLC then computes each value once.      *)
Tabulated(f) == IF f = f THEN f ELSE f

(***************************************************************************)
(* Pillars.  The hidden rows of each branch, heaviest first.               *)
(***************************************************************************)
HiddenRows == << << <<4, 10>> >>,
                 << <<2, 10>>, <<4, 5>>, <<3, 3>> >>,
                 << <<0, 10>>, <<1, 5>>, <<2, 3>> >>,
                 << <<0, 10>> >>,
                 << <<2, 10>>, <<0, 5>>, <<4, 3>> >>,
                 << <<1, 10>>, <<3, 5>>, <<2, 3>> >>,
                 << <<1, 10>>, <<2, 5>> >>,
                 << <<2, 10>>, <<1, 5>>, <<0, 3>> >>,
                 << <<3, 10>>, <<4, 5>>, <<2, 3>> >>,
                 << <<3, 10>> >>,
                 << <<2, 10>>, <<3, 5>>, <<1, 3>> >>,
                 << <<4, 10>>, <<0, 5>> >> >>

(* Pillars that a client sends may name a stem or a branch that no table   *)
(* has, or none: neither weighs anything.                                  *)
Unknown == -1
Absent == -2
Listed(name) == name \notin {Unknown, Absent}
RowsOf(branch) == IF Listed(branch) THEN HiddenRows[branch + 1] ELSE << >>

Contribution(pillar, source, phase, weight) ==
    [pillar |-> pillar, source |-> source, phase |-> phase, weight |-> weight]
QiLabel(weight) ==
    CASE weight = 10 -> "hidden_main"
      [] weight = 5 -> "hidden_middle"
      [] weight = 3 -> "hidden_residual"
PillarLedger(name, p) ==
    (IF Listed(p.stem) THEN << Contribution(name, "stem", ElementOf(p.stem), 10) >>
     ELSE << >>)
    \o [k \in 1 .. Len(RowsOf(p.branch)) |->
            LET row == RowsOf(p.branch)[k]
            IN  Contribution(name, QiLabel(row[2]), row[1], row[2])]

(* A chart is the sequence of its pillars: year, month, day, hour.         *)
BaziLedger(chart) == FlattenSeq([i \in DOMAIN chart |-> PillarLedger(i, chart[i])])
VectorOf(ledger) ==
    LET weight == [i \in DOMAIN ledger |-> ledger[i].weight]
    IN  Tabulated([p \in Phases |->
            SumFunctionOnSet(weight, {i \in DOMAIN ledger : ledger[i].phase = p})])
(* The same sums without a ledger.                                         *)
BaziVector(chart) ==
    [p \in Phases |->
        SumFunction([i \in DOMAIN chart |->
            (IF Listed(chart[i].stem) /\ ElementOf(chart[i].stem) = p THEN 10 ELSE 0)
            + SumFunction([k \in DOMAIN RowsOf(chart[i].branch) |->
                  IF RowsOf(chart[i].branch)[k][1] = p THEN RowsOf(chart[i].branch)[k][2]
                  ELSE 0])])]

(***************************************************************************)
(* Bodies.  Each body spreads the weight of its tier over the phases of    *)
(* its sign's element; the true node is not counted next to the mean one.  *)
(***************************************************************************)
Tier(body) ==
    CASE body \in {"Sun", "Moon", "Ascendant"} -> 1
      [] body \in {"Mercury", "Venus", "Mars"} -> 2
      [] body \in {"Jupiter", "Saturn"} -> 3
      [] OTHER -> 4
TierWeight == <<1000, 300, 90, 27>>
Shares == << <<452, 548, 0, 0, 0>>, <<0, 0, 95, 699, 206>>,
             <<348, 252, 400, 0, 0>>, <<0, 0, 306, 101, 593>> >>
Excluded == {"TrueNorthNode"}

WesternEntry(body, sign) ==
    [planet |-> body, tier |-> Tier(body), sign |-> sign,
     distribution |-> Tabulated([p \in Phases |->
                          TierWeight[Tier(body)] * Shares[1 + (sign % 4)][p + 1]])]

(* Bodies map to their sign, or to Failed where the calculation of the     *)
(* body did; so does the ascendant where there are no houses.              *)
Failed == -1
Computed(bodies) == {b \in DOMAIN bodies : bodies[b] # Failed}
WesternLedger(bodies, ascendant) ==
    {WesternEntry(b, bodies[b]) : b \in Computed(bodies) \ Excluded}
    \cup (IF ascendant = Failed THEN {} ELSE {WesternEntry("Ascendant", ascendant)})
WesternVector(ledger) ==
    Tabulated([p \in Phases |-> SumFunction([e \in ledger |-> e.distribution[p]])])

Dominant(v) == CHOOSE p \in Phases : /\ \A q \in Phases : v[q] <= v[p]
                                     /\ \A q \in 0 .. p - 1 : v[q] < v[p]
IsZero(v) == \A p \in Phases : v[p] = 0

(***************************************************************************)
(* Tensions of the ke cycle: a phase and the phase it overcomes, each at   *)
(* least 0.15 of the length of its vector.                                 *)
(***************************************************************************)
Strong(v, p) == /\ ~IsZero(v)
                /\ 400 * v[p] * v[p] >= 9 * SumFunction([q \in Phases |-> v[q] * v[q]])
KeTensions(v) == {p \in Phases : Strong(v, p) /\ Strong(v, Ke(p))}
CrossTensions(west, bazi) ==
    {<<"west", p>> : p \in {q \in Phases : Strong(west, q) /\ Strong(bazi, Ke(q))}}
    \cup {<<"bazi", p>> : p \in {q \in Phases : Strong(bazi, q) /\ Strong(west, Ke(q))}}
KeSummary(west, bazi) ==
    LET inWest == KeTensions(west)
        inBazi == KeTensions(bazi)
        cross == CrossTensions(west, bazi)
    IN  [internalWestern |-> inWest, internalBazi |-> inBazi, cross |-> cross,
         dominant |-> inWest # {} \/ inBazi # {} \/ cross # {}]

(***************************************************************************)
(* Zones.  The two values of a phase are hundredths, for which the code's  *)
(* margin of 1e-12 makes its comparisons exact.                            *)
(***************************************************************************)
Magnitude(d) == IF d < 0 THEN -d ELSE d
ZoneOf(w, b) ==
    IF Magnitude(w - b) > 15 THEN "TENSION"
    ELSE IF w > 20 /\ b > 20 THEN "STRENGTH"
    ELSE IF w < 15 /\ b < 15 THEN "DEVELOPMENT" ELSE "NEUTRAL"
ClassifyZones(west, bazi) == Tabulated([p \in Phases |-> ZoneOf(west[p], bazi[p])])

(* A question about a phase, and the phases its second part points at.     *)
TensionQuestion(p, d) ==
    [phase |-> p,
     side |-> IF d > 0 THEN "west" ELSE IF d < 0 THEN "bazi" ELSE "even",
     points |-> IF d > 0 THEN {ShengInverse(p), Sheng(p)} ELSE {Sheng(p)}]
DevelopmentQuestion(p) == [phase |-> p, side |-> "both", points |-> {ShengInverse(p)}]
Leitfragen(west, bazi) ==
    LET zone == ClassifyZones(west, bazi)
    IN  [tension |-> {TensionQuestion(p, west[p] - bazi[p]) :
                          p \in {q \in Phases : zone[q] = "TENSION"}},
         development |-> {DevelopmentQuestion(p) :
                              p \in {q \in Phases : zone[q] = "DEVELOPMENT"}}]
Report(west, bazi) ==
    LET zone == ClassifyZones(west, bazi)
        In(z) == {p \in Phases : zone[p] = z}
    IN  [strength |-> In("STRENGTH"), tension |-> In("TENSION"),
         development |-> In("DEVELOPMENT"), questions |-> Leitfragen(west, bazi)]
=============================================================================
