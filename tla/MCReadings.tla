----------------------------- MODULE MCReadings -----------------------------
EXTENDS Readings

(* Minute 0 begins the year 1984; the sun enters LiChun on 4 February.     *)
MCEpoch == 2445701
At(day, hour, minute) == (day * 24 + hour) * 60 + minute
LiChun84 == At(34, 15, 19)

(* The bodies lie where the table says at first, and move on to the next   *)
(* sign at one moment; the ephemeris may fail on some of them.             *)
Degrees == [Sun |-> 23150, Moon |-> 12080, Mercury |-> 1000, Venus |-> 29900, Mars |-> 16400,
            Jupiter |-> 5600, Saturn |-> 10050, Uranus |-> 9750, Neptune |-> 29400, Pluto |-> 29300,
            Chiron |-> 7000, Lilith |-> 0, NorthNode |-> 4500, TrueNorthNode |-> 5200]
Sky(signs, failed, turns) ==
    [body \in Planets |-> [sign |-> IF body \in failed THEN -1 ELSE signs[body],
                           turns |-> turns, degree |-> Degrees[body]]]
Summer == [Sun |-> 3, Moon |-> 10, Mercury |-> 4, Venus |-> 3, Mars |-> 7, Jupiter |-> 9,
           Saturn |-> 7, Uranus |-> 8, Neptune |-> 8, Pluto |-> 6, Chiron |-> 2,
           Lilith |-> 1, NorthNode |-> 2, TrueNorthNode |-> 2]
Winter == [body \in Planets |-> IF body \in {"Sun", "Mercury", "Venus", "NorthNode"} THEN 9
                                ELSE Summer[body]]

(* One time like others; an hour that comes twice, with LiChun between; an *)
(* hour that the clock leaves out, at midnight; and a place at which no    *)
(* house system works, just before LiChun.                                 *)
MCBirths ==
    [plain |-> [wall |-> At(196, 14, 30), civilYear |-> 1984, newYear |-> 0, liChun |-> LiChun84,
                place |-> [at |-> 0, before |-> 60, after |-> 120, longitude |-> 54, equation |-> -6],
                sun |-> [term |-> 7, turns |-> At(203, 9, 58)],
                bodies |-> Sky(Summer, {}, At(197, 3, 0)),
                ascendant |-> [sign |-> 6, turns |-> At(196, 13, 10), degree |-> 14500], houses |-> "placidus"],
     twice |-> [wall |-> LiChun84 - 150, civilYear |-> 1984, newYear |-> 0, liChun |-> LiChun84,
                place |-> [at |-> LiChun84, before |-> -120, after |-> -180,
                           longitude |-> -187, equation |-> -14],
                sun |-> [term |-> 20, turns |-> LiChun84],
                bodies |-> [Sky(Winter, {"Chiron"}, LiChun84) EXCEPT
                               !["Lilith"] = [sign |-> 11, turns |-> LiChun84, degree |-> 29996]],
                ascendant |-> [sign |-> 2, turns |-> LiChun84 - 45, degree |-> 2100], houses |-> "porphyry"],
     never |-> [wall |-> At(90, 0, 30), civilYear |-> 1984, newYear |-> 0, liChun |-> LiChun84,
                place |-> [at |-> At(89, 22, 0), before |-> 120, after |-> 180,
                           longitude |-> 142, equation |-> -4],
                sun |-> [term |-> 0, turns |-> At(94, 22, 0)],
                bodies |-> Sky(Summer, {}, At(89, 22, 30)),
                ascendant |-> [sign |-> 8, turns |-> At(90, 1, 0), degree |-> 0], houses |-> "whole_sign"],
     polar |-> [wall |-> At(34, 23, 40), civilYear |-> 1984, newYear |-> 0, liChun |-> LiChun84,
                place |-> [at |-> 0, before |-> 540, after |-> 540, longitude |-> 620,
                           equation |-> -14],
                sun |-> [term |-> 20, turns |-> LiChun84],
                bodies |-> Sky(Winter, {"Chiron", "Lilith"}, LiChun84),
                ascendant |-> [sign |-> 0, turns |-> LiChun84, degree |-> 0], houses |-> "none"]]
MCBerlin == [at |-> 0, before |-> 60, after |-> 60, longitude |-> 54, equation |-> -14]

MCLater == [standard |-> "LMT", boundary |-> "zi", ambiguous |-> "later",
            nonexistent |-> "shift_forward", timeKnown |-> TRUE]
MCTimeless == [standard |-> "TLST", boundary |-> "zi", ambiguous |-> "later",
               nonexistent |-> "error", timeKnown |-> FALSE]
MCClients == {<<"plain", Defaults>>, <<"plain", MCTimeless>>,
              <<"twice", Defaults>>, <<"twice", MCLater>>, <<"twice", MCTimeless>>,
              <<"never", Defaults>>, <<"never", MCLater>>,
              <<"polar", Defaults>>, <<"polar", MCLater>>}

(* The planets of the days in question and how fast they move, in          *)
(* thousandths of a degree; the moon of one day ends the circle, another   *)
(* day brings it near the Lilith of a birth, which ends the circle too.    *)
Motion == [Sun |-> 1000, Moon |-> 13070, Mercury |-> 1600, Venus |-> 1250, Mars |-> 600,
           Jupiter |-> -120, Saturn |-> 20, Uranus |-> -10, Neptune |-> -20, Pluto |-> 10]
February == [Sun |-> 314700, Moon |-> 316930, Mercury |-> 293500, Venus |-> 291700, Mars |-> 222000,
             Jupiter |-> 272600, Saturn |-> 226000, Uranus |-> 253000, Neptune |-> 270600,
             Pluto |-> 212100]
April == [February EXCEPT !["Sun"] = 10750, !["Moon"] = 4200, !["Mercury"] = 28900, !["Venus"] = 350500,
                          !["Mars"] = 238100, !["Jupiter"] = 281000]
July == [February EXCEPT !["Sun"] = 113150, !["Moon"] = 346900, !["Mercury"] = 137100,
                         !["Venus"] = 121200, !["Mars"] = 223900, !["Jupiter"] = 277300,
                         !["Saturn"] = 219700, !["Uranus"] = 249900]
SkyOf(month, days) ==
    [p \in Range(Movers) |-> [longitude |-> (month[p] + days * Motion[p]) % Full,
                              retrograde |-> Motion[p] < 0]]
MCTransits == (34 :> SkyOf(February, 0)) @@ (35 :> SkyOf(February, 1)) @@ (90 :> SkyOf(April, 0))
              @@ (91 :> SkyOf(April, 1)) @@ (196 :> SkyOf(July, 0)) @@ (197 :> SkyOf(July, 1))
(* A request may miss the ephemeris in any one of its uses, or in the two  *)
(* that the reading of a day passes over.                                  *)
MCOutages == {{}} \cup {{use} : use \in Uses} \cup {{"term", "impact"}}
MCAffinity == [love |-> [s \in Sectors |-> CASE s = 1 -> 1000 [] s \in {3, 6, 7} -> 3000
                                              [] OTHER -> 0]]

(* Pillars that no table knows, and pillars of which it knows one.         *)
Nobody == [stem |-> Unknown, branch |-> Unknown]
Nothing == [stem |-> Absent, branch |-> Absent]
MCGivens == {{}, {<<Nobody, Nobody, Nobody, Nobody>>},
             {<<[stem |-> 4, branch |-> 7], Nobody, Nothing, Nothing>>}}
MCTeamKeys == {"team key"}
MCCouples ==
    {[other |-> "plain", timeKnown |-> FALSE, genders |-> <<"male", "female">>, key |-> "team key"],
     [other |-> "never", timeKnown |-> TRUE, genders |-> <<"divers", "none">>, key |-> NoKey]}
=============================================================================
