----------------------------- MODULE MCBaziChart -----------------------------
EXTENDS BaziChart

(* Minute 0 begins the year 1982; the cycle of years starts again in 1984. *)
MCBaseYear == 1981
MCNewYear(year) == 525600 * (year - 1982)
MCJie(i) == 49830 + 43830 * (i - 12) - 30 * (i \div 12)
MCEpoch == 2419451 + 60 - 30

(* A day and an hour to either side of a jie, LiChun and New Year.         *)
MCStep == 30
Around(u) == {u + MCStep * k : k \in -50 .. 50}
MCBirths == UNION {Around(u) : u \in {MCJie(15), MCNewYear(1984), MCJie(36)}}
MCJitter == {-30, 30}

(* East and west of its zone; a zone a day ahead of its sun; clocks put    *)
(* forward and back around a jie and around LiChun; a day left out.        *)
MCPlace == [at : {MCJie(15) + 30, MCJie(36) + 60}, before : {60}, after : {0, 120},
            longitude : {-75}, equation : {15}]
      \cup [at : {0}, before : {780}, after : {780}, longitude : {-690, -720}, equation : {0}]
      \cup [at : {MCJie(36)}, before : {-600}, after : {840}, longitude : {-690}, equation : {-15}]

(* A leap day at the far east; the decades across 1900; the end of a year  *)
(* at the far west; a birth at a solar term, with the longest way to both. *)
Birth(y, m, d, minute, offset, terms, stem, branch, yearStem) ==
    [y |-> y, m |-> m, d |-> d, minute |-> minute, offset |-> offset, terms |-> terms,
     month |-> [stem |-> stem, branch |-> branch], yearStem |-> yearStem]
MCCharts == {
    Birth(1896, 2, 29, 1439, 840, {-7, 21500}, 6, 2, 2),
    Birth(1897, 3, 1, 0, -720, {-21000, 900}, 9, 3, 3),
    Birth(1899, 12, 31, 1200, 60, {-22650, 0, 22650}, 2, 0, 5)}

Asks(method, flow, sex) == [method |-> method, flow |-> flow, sex |-> sex]
MCRequests == {
    Asks("explicit", "forward", "none"), Asks("explicit", "backward", "male"),
    Asks("explicit", "none", "male"),
    Asks("year_stem_yinyang_and_sex", "forward", "female"),
    Asks("year_stem_yinyang_and_sex", "forward", "none")}
=============================================================================
