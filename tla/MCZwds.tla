------------------------------- MODULE MCZwds -------------------------------
EXTENDS Zwds, Sequences

(* New moons and terms from 2031 to 2036 by mean elements and their main   *)
(* periodic terms, to a few minutes; minute 0 begins 2032 in UTC.          *)
MCEpoch == 2463233
MoonList ==
    << -67850, -25374, 17047, 59424, 101785, 144160, 186576, 229052, 271602, 314232, 356937,
       399687, 442425, 485093, 527657, 570120, 612504, 654832, 697126, 739416, 781747, 824172,
       866740, 909460, 952288, 995139, 1037927, 1080602, 1123150, 1165575, 1207886, 1250113,
       1292306, 1334535, 1376873, 1419374, 1462053, 1504876, 1547775, 1590663, 1633462, 1676109,
       1718578, 1760884, 1803081, 1845239, 1887432, 1929719, 1972147, 2014739, 2057498, 2100391,
       2143337 >>
MCLastMoon == Len(MoonList) - 1
MCNewMoon == [k \in 0 .. MCLastMoon |-> MoonList[k + 1]]
TermList ==
    << -14285, 28115, 70719, 113849, 157698, 202276, 247386, 292679, 337750, 382259, 426033,
       469099, 511666, 554066, 596670, 639800, 683649, 728226, 773336, 818629, 863700,
       908210, 951984, 995050, 1037618, 1080018, 1122622, 1165751, 1209600, 1254177,
       1299286, 1344579, 1389650, 1434161, 1477936, 1521002, 1563570, 1605970, 1648573,
       1691702, 1735551, 1780127, 1825237, 1870530, 1915601, 1960112, 2003887, 2046953,
       2089521, 2131922, 2174525 >>
MCLastTerm == Len(TermList) - 1
MCTerm == [i \in 0 .. MCLastTerm |-> TermList[i + 1]]

(* China, UTC, and a place far west.                                       *)
MCOffsets == {480, 0, -600}
MCMinutes == {30, 210, 450, 690, 810, 1050, 1230, 1350, 1410}
=============================================================================
