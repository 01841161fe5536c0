------------------------------ MODULE Services ------------------------------
(***************************************************************************)
(* The objects of one process that every request shares: the store of keys *)
(* (module KeyStore), the cache of the space weather (SpaceWeather) and    *)
(* the cache of places (GeocodeCache).  They have no state in common, so   *)
(* a behaviour exercises one of them and leaves the others as they start.  *)
(***************************************************************************)
EXTENDS KeyStore

CONSTANTS Task, Ttl,                                  \* of both caches
          Place, Language, Ranking, Unknown, Nobody, MaxEntries

VARIABLES
    exercised,                                        \* the object in use
    up, cached, life, age, weatherPc, got, weatherReply,
    cache, geoPc, caller, query, shown, geoReply

weatherVars == <<up, cached, life, age, weatherPc, got, weatherReply>>
geoVars == <<cache, geoPc, caller, query, shown, geoReply>>
allVars == <<exercised, vars, weatherVars, geoVars>>

Weather == INSTANCE SpaceWeather WITH pc <- weatherPc, reply <- weatherReply
Geo == INSTANCE GeocodeCache WITH pc <- geoPc, reply <- geoReply

ASSUME CachesAssumption == Weather!TtlOK /\ Geo!RankingOK /\ Geo!BoundOK

(* What a store that is not exercised is asked, and which endpoints are up *)
(* for a cache that is not, makes no difference.                           *)
ServicesInit ==
    /\ Init /\ Weather!Init /\ Geo!Init
    /\ exercised \in {"keys", "weather", "places"}
    /\ exercised # "keys" => \A t, u \in Thread : arg[t] = CHOOSE a \in [tier : Tier, jti : Jti] : TRUE
    /\ exercised # "weather" => \A s \in Weather!Source : up[s]
    /\ exercised # "places" => \A t, u \in Task : query[t] = query[u]

ServicesNext ==
    \/ exercised = "keys" /\ Next /\ UNCHANGED <<exercised, weatherVars, geoVars>>
    \/ exercised = "weather" /\ Weather!Next /\ UNCHANGED <<exercised, vars, geoVars>>
    \/ exercised = "places" /\ Geo!Next /\ UNCHANGED <<exercised, vars, weatherVars>>

ServicesSpec ==
    /\ ServicesInit /\ [][ServicesNext]_allVars
    /\ Weather!Fairness

-----------------------------------------------------------------------------
(* Both caches hold what their lifetimes allow, and no more of it.         *)
CachesOK == Weather!CacheOK /\ Geo!CacheOK

DefaultsAreFlagged == Weather!DefaultsAreFlagged
Recovers == Weather!Recovers
AnswerFromUpstream == Geo!AnswerFromUpstream
NeverOvershadowed == Geo!NeverOvershadowed
=============================================================================
