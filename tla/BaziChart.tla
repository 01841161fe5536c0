------------------------------ MODULE BaziChart ------------------------------
(***************************************************************************)
(* A BaZi chart and the decades that start from its month pillar: the four *)
(* pillars (module FourPillars) and DaYun, which takes the pillars of a    *)
(* birth as given.  A behaviour goes through one of them and leaves the    *)
(* other as it starts.                                                     *)
(***************************************************************************)
EXTENDS FourPillars, DaYun

VARIABLE charting       \* which of the two goes on

bothVars == <<charting, allVars, dayunVars>>

(* The first birth of one of the two stands for all of them while the      *)
(* other goes on.                                                          *)
Some(S) == CHOOSE x \in S : TRUE
BaziInit ==
    /\ charting \in BOOLEAN
    /\ IF charting
          THEN birth = Some(Charts) /\ request = Some(Requests)
          ELSE /\ place = Some(Place) /\ instant = CHOOSE u \in Births : u - Step \notin Births
               /\ standard = "CIVIL" /\ boundary = "midnight" /\ ruleset = TRUE
               /\ jitter = Some(Jitter)
    /\ ChartInit /\ Ask

BaziNext ==
    \/ charting /\ ChartNext /\ UNCHANGED <<charting, dayunVars>>
    \/ ~charting /\ AskNextDay /\ UNCHANGED <<charting, allVars>>

BaziSpec == BaziInit /\ [][BaziNext]_bothVars

=============================================================================
