------------------------------- MODULE Fusion -------------------------------
(***************************************************************************)
(* The fusion of a western and a BaZi chart (bazi_engine/fusion.py and     *)
(* wuxing/calibration.py): how near the two vectors of phases lie, and how *)
(* much that is above what chance would give for as many contributions.    *)
(*                                                                         *)
(* Coefficients count thousandths.  Lengths are rounded down.              *)
(***************************************************************************)
EXTENDS WuXing

Bits == <<32768, 16384, 8192, 4096, 2048, 1024, 512, 256, 128, 64, 32, 16, 8, 4, 2, 1>>
Root(n) == FoldLeft(LAMBDA r, bit : IF r + bit <= n \div (r + bit) THEN r + bit ELSE r,
                    0, Bits)
Dot(v, w) == SumFunction([p \in Phases |-> v[p] * w[p]])
Total(v) == SumFunctionOnSet(v, Phases)

(* The western vector in hundredths, the unit in which products fit.       *)
Hundredths(west) == Tabulated([p \in Phases |-> west[p] \div 10000])
LengthTimesHundred(v) == Root(10000 * Dot(v, v))
CosineUnclamped(v, w) ==
    (1000 * Dot(v, w)) \div ((LengthTimesHundred(v) * LengthTimesHundred(w)) \div 10000)
CosineOf(v, w) ==
    IF IsZero(v) \/ IsZero(w) THEN 0
    ELSE LET cosine == CosineUnclamped(v, w) IN IF cosine > 1000 THEN 1000 ELSE cosine
Cosine(west, bazi) == CosineOf(Hundredths(west), bazi)

(* The product of the two vectors scaled to sum 1.                         *)
Overlap(west, bazi) ==
    IF IsZero(Hundredths(west)) \/ IsZero(bazi) THEN 0
    ELSE (1000 * Dot(Hundredths(west), bazi)) \div (Total(Hundredths(west)) * Total(bazi))

(***************************************************************************)
(* Calibration.  The baseline, in ten thousandths, of vectors of as many   *)
(* bodies and as many contributions of pillars.                            *)
(***************************************************************************)
Bucket(n, sparse, medium) == IF n <= sparse THEN 1 ELSE IF n <= medium THEN 2 ELSE 3
Baseline == << <<4489, 5235, 5464>>, <<6088, 6904, 7274>>, <<6650, 7974, 7958>> >>
BaselineFor(west, bazi) == Baseline[Bucket(west, 3, 8)][Bucket(bazi, 8, 16)]

CountBodies(bodies) == Cardinality(Computed(bodies))
(* Any stem that is named counts as a contribution, listed or not.         *)
CountContributions(chart) ==
    SumFunction([i \in DOMAIN chart |-> (IF chart[i].stem = Absent THEN 0 ELSE 1)
                                         + Len(RowsOf(chart[i].branch))])

Contrast(h, baseline) == (1000 * (10 * h - baseline)) \div (10000 - baseline)
Calibrated(h, baseline) == IF Contrast(h, baseline) < 0 THEN 0 ELSE Contrast(h, baseline)
Band(quality, calibrated) ==
    IF quality = "degenerate" THEN "undefined"
    ELSE CASE calibrated >= 800 -> "strong"
           [] calibrated \in 550 .. 799 -> "above"
           [] calibrated \in 300 .. 549 -> "average"
           [] calibrated \in 100 .. 299 -> "below"
           [] calibrated < 100 -> "none"

Calibration(h, quality, calibrated, west, bazi) ==
    [raw |-> h, quality |-> quality, calibrated |-> calibrated,
     band |-> Band(quality, calibrated), west |-> west, bazi |-> bazi]
CalibrateByCounts(h, bodies, chart, west, bazi) ==
    LET m == CountBodies(bodies)
        n == CountContributions(chart)
    IN  Calibration(h, IF m < 3 \/ n < 8 THEN "sparse" ELSE "ok",
                    Calibrated(h, BaselineFor(m, n)), m, n)
Calibrate(h, bodies, chart, west, bazi) ==
    LET m == CountBodies(bodies)
        n == CountContributions(chart)
    IN  IF IsZero(west) \/ IsZero(bazi) THEN Calibration(h, "degenerate", 0, m, n)
        ELSE Calibration(h, IF m < 3 \/ n < 8 THEN "sparse" ELSE "ok",
                         Calibrated(h, BaselineFor(m, n)), m, n)

(***************************************************************************)
(* The analysis.  A strict caller refuses a chart without an ascendant.    *)
(* The text leaves the calibrated value out when there is none, and names  *)
(* the phase that is first among the strongest of each side.               *)
(***************************************************************************)
Interpretation(west, bazi, calibration) ==
    [coherence |-> IF calibration.quality = "degenerate" THEN "reduced" ELSE calibration.band,
     west |-> Dominant(west), bazi |-> Dominant(bazi)]

(* A vector of length 1, in hundredths.                                    *)
Unit(v) ==
    LET length == LengthTimesHundred(v)
    IN  IF IsZero(v) THEN v ELSE Tabulated([p \in Phases |-> (10000 * v[p]) \div length])
Comparison(west, bazi) ==
    LET w == Unit(Hundredths(west))
        b == Unit(bazi)
    IN  Tabulated([p \in Phases |-> w[p] - b[p]])

ValueError == "ValueError"
FusionOfVectors(bodies, ascendant, chart, west, bazi) ==
    LET harmony == Cosine(west, bazi)
        calibration == Calibrate(harmony, bodies, chart, west, bazi)
    IN  [west |-> west, bazi |-> bazi, harmony |-> harmony, calibration |-> calibration,
         comparison |-> Comparison(west, bazi), text |-> Interpretation(west, bazi, calibration),
         quality |-> IF ascendant = Failed THEN "assumed_day" ELSE "exact"]
FusionOf(bodies, ascendant, chart, strict) ==
    IF strict /\ ascendant = Failed THEN [error |-> ValueError]
    ELSE [error |-> "none",
          value |-> FusionOfVectors(bodies, ascendant, chart,
                                    WesternVector(WesternLedger(bodies, ascendant)),
                                    VectorOf(BaziLedger(chart)))]

(* What a program that imports the package makes of a chart and a sky      *)
(* without an ascendant: a sample of the statistics (research/), the ke    *)
(* tensions and the report on zones.                                       *)
Diagnosis(bodies, chart) ==
    LET Of(west, bazi, w, b) ==
            [west |-> w, bazi |-> b, dominantWest |-> Dominant(west),
             dominantBazi |-> Dominant(bazi),
             calibration |-> Calibrate(Cosine(west, bazi), bodies, chart, west, bazi),
             zones |-> ClassifyZones(w, b), report |-> Report(w, b),
             ke |-> KeSummary(Hundredths(west), bazi)]
        west == WesternVector(WesternLedger(bodies, Failed))
        bazi == BaziVector(chart)
    IN  Of(west, bazi, Unit(Hundredths(west)), Unit(bazi))

(* The vector map shows both vectors and two measures of their nearness.   *)
VectorMap(bodies, ascendant, chart) ==
    LET MapOf(f) ==
            IF f.error # "none" THEN f
            ELSE [error |-> "none",
                  value |-> [west |-> WesternVector(WesternLedger(bodies, ascendant)),
                             bazi |-> VectorOf(BaziLedger(chart)),
                             overlap |-> Overlap(f.value.west, f.value.bazi),
                             cosine |-> f.value.harmony]]
    IN  MapOf(FusionOf(bodies, ascendant, chart, TRUE))
=============================================================================
