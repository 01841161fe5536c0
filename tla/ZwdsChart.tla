------------------------------ MODULE ZwdsChart ------------------------------
(***************************************************************************)
(* The natal chart of Zi Wei Dou Shu (bazi_engine/zwds: palace.py,         *)
(* bureau.py, stars, transformations, relations.py, decadal.py and the     *)
(* assembly in engine.py), from a seed: effective lunar month and lunar    *)
(* day, stem and branch of the year, branch of the hour.                   *)
(***************************************************************************)
EXTENDS Sexagenary, FiniteSets

Yin == 2
Chen == 4
Xu == 10
Branch == 0 .. 11
Seed == [month : 1 .. 12, day : 1 .. 30, stem : 0 .. 9, branch : Branch, hour : Branch]

Role == << "MING", "XIONG_DI", "FU_QI", "ZI_NU", "CAI_BO", "JI_E", "QIAN_YI",
           "JIAO_YOU", "GUAN_LU", "TIAN_ZHAI", "FU_DE", "FU_MU" >>
MingBranch(s) == (Yin + s.month - 1 - s.hour) % 12
ShenBranch(s) == (Yin + s.month - 1 + s.hour) % 12
YinStem(s) == (2 * s.stem + 2) % 10
PalaceStem(b, s) == (YinStem(s) + ((b - Yin) % 12)) % 10
BuildPalaces(s) ==
    [i \in Branch |->
        LET b == (MingBranch(s) - i) % 12
        IN  [role |-> Role[i + 1], branch |-> b, stem |-> PalaceStem(b, s),
             ming |-> i = 0, shen |-> b = ShenBranch(s)]]
RoleOn(b, s) == (CHOOSE p \in {BuildPalaces(s)[i] : i \in Branch} : p.branch = b).role

(* The five elements bureau of a palace; the code raises an error where    *)
(* stem and branch are not of one parity.                                  *)
ValidParity(stem, branch) == (stem - branch) % 2 = 0
BureauV(stem, branch) == (((stem \div 2) + 1 + ((branch % 6) \div 2) + 1 - 1) % 5) + 1
BureauUngrouped(stem, branch) ==
    << [phase |-> "wood", number |-> 3], [phase |-> "metal", number |-> 4],
       [phase |-> "water", number |-> 2], [phase |-> "fire", number |-> 6],
       [phase |-> "earth", number |-> 5] >>[(((stem \div 2) + (branch \div 2)) % 5) + 1]
Bureau(stem, branch) ==
    << [phase |-> "wood", number |-> 3], [phase |-> "metal", number |-> 4],
       [phase |-> "water", number |-> 2], [phase |-> "fire", number |-> 6],
       [phase |-> "earth", number |-> 5] >>[BureauV(stem, branch)]
BureauOf(s) == Bureau(PalaceStem(MingBranch(s), s), MingBranch(s))

-----------------------------------------------------------------------------
(* ceil(day / B) rounds up; what is missing to a multiple of B is added if *)
(* even and subtracted if odd.                                             *)
ZiweiBranch(day, B) ==
    LET k == (day + B - 1) \div B
        delta == k * B - day
    IN  (Yin + (IF delta % 2 = 0 THEN k + delta ELSE k - delta) - 1) % 12
TianfuBranch(ziwei) == (4 - ziwei) % 12
ZiweiOffset == [ZI_WEI |-> 0, TIAN_JI |-> 1, TAI_YANG |-> 3, WU_QU |-> 4, TIAN_TONG |-> 5,
                LIAN_ZHEN |-> 8]      \* subtracted
TianfuOffset == [TIAN_FU |-> 0, TAI_YIN |-> 1, TAN_LANG |-> 2, JU_MEN |-> 3, TIAN_XIANG |-> 4,
                 TIAN_LIANG |-> 5, QI_SHA |-> 6, PO_JUN |-> 10]
Major == DOMAIN ZiweiOffset \cup DOMAIN TianfuOffset
MajorStars(s) ==
    LET ziwei == ZiweiBranch(s.day, BureauOf(s).number)
    IN  [x \in Major |->
            IF x \in DOMAIN ZiweiOffset THEN (ziwei - ZiweiOffset[x]) % 12
            ELSE (TianfuBranch(ziwei) + TianfuOffset[x]) % 12]
AuxiliaryStars(s) ==
    [ZUO_FU |-> (Chen + s.month - 1) % 12, YOU_BI |-> (Xu - (s.month - 1)) % 12,
     WEN_QU |-> (Chen + s.hour) % 12, WEN_CHANG |-> (Xu - s.hour) % 12]
Stars(s) ==
    LET major == MajorStars(s)
        auxiliary == AuxiliaryStars(s)
    IN  [x \in Major \cup DOMAIN auxiliary |-> IF x \in Major THEN major[x] ELSE auxiliary[x]]
Family(x) == IF x \in Major THEN "MAJOR_14" ELSE "GUIDE_AUX_4"
DeclaredFamilies == {"MAJOR_14", "GUIDE_AUX_4"}

(* LU, QUAN, KE and JI of the ten year stems (transformations.json).       *)
TransformationRows ==
    << <<"LIAN_ZHEN", "PO_JUN", "WU_QU", "TAI_YANG">>, <<"TIAN_JI", "TIAN_LIANG", "ZI_WEI", "TAI_YIN">>,
       <<"TIAN_TONG", "TIAN_JI", "WEN_CHANG", "LIAN_ZHEN">>, <<"TAI_YIN", "TIAN_TONG", "TIAN_JI", "JU_MEN">>,
       <<"TAN_LANG", "TAI_YIN", "YOU_BI", "TIAN_JI">>, <<"WU_QU", "TAN_LANG", "TIAN_LIANG", "WEN_QU">>,
       <<"TAI_YANG", "WU_QU", "TAI_YIN", "TIAN_TONG">>, <<"JU_MEN", "TAI_YANG", "WEN_QU", "WEN_CHANG">>,
       <<"TIAN_LIANG", "ZI_WEI", "ZUO_FU", "WU_QU">>, <<"PO_JUN", "JU_MEN", "TAI_YIN", "TAN_LANG">> >>
Transformed(s, x) == {h \in 1 .. 4 : TransformationRows[s.stem + 1][h] = x}

-----------------------------------------------------------------------------
Placements(s) ==
    [x \in DOMAIN Stars(s) |->
        [branch |-> Stars(s)[x], role |-> RoleOn(Stars(s)[x], s), family |-> Family(x),
         transformations |-> Transformed(s, x)]]
Chart(s) ==
    LET placements == Placements(s)
        emitted == {placements[x].family : x \in DOMAIN placements}
        palace(i) == BuildPalaces(s)[i]
    IN  [palaces |-> [i \in Branch |->
            [role |-> palace(i).role, branch |-> palace(i).branch, stem |-> palace(i).stem,
             ming |-> palace(i).ming, shen |-> palace(i).shen,
             stars |-> {x \in DOMAIN placements : placements[x].branch = palace(i).branch}]],
         placements |-> placements,
         bureau |-> BureauOf(s),
         emitted |-> DeclaredFamilies \cap emitted, missing |-> DeclaredFamilies \ emitted]

(* validate_chart_graph, without the repeated ids a function cannot have.  *)
ReferencesOK(c) ==
    /\ \A i \in DOMAIN c.palaces : c.palaces[i].stars \subseteq DOMAIN c.placements
    /\ \A i, j \in DOMAIN c.palaces : i # j => c.palaces[i].stars \cap c.palaces[j].stars = {}
AgreementOK(c) ==
    \A i \in DOMAIN c.palaces : \A x \in c.palaces[i].stars :
        /\ c.placements[x].role = c.palaces[i].role
        /\ c.placements[x].branch = c.palaces[i].branch
PalaceSetOK(c) ==
    /\ DOMAIN c.palaces = 0 .. 11
    /\ \A i, j \in DOMAIN c.palaces : i # j => c.palaces[i].branch # c.palaces[j].branch
CompletenessOK(c) ==
    LET present == {c.placements[x].family : x \in DOMAIN c.placements}
    IN  c.emitted = present /\ c.missing = DeclaredFamilies \ present
ValidGraph(c) == ReferencesOK(c) /\ AgreementOK(c) /\ PalaceSetOK(c) /\ CompletenessOK(c)

(* Harmonies and opposition of the palace on a branch.                     *)
Relation(p) == [harmony |-> {(p + 4) % 12, (p + 8) % 12}, opposition |-> (p + 6) % 12]

DecadalLimits(s, forward) ==
    [j \in Branch |->
        LET b == (MingBranch(s) + (IF forward THEN j ELSE 0 - j)) % 12
            start == BureauOf(s).number + 10 * j
        IN  [branch |-> b, role |-> RoleOn(b, s), from |-> start, to |-> start + 9]]
=============================================================================
