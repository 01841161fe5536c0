---------------------------- MODULE GeocodeCache ----------------------------
(***************************************************************************)
(* geocode_candidates and its callers (bazi_engine/services/geocoding.py,  *)
(* routers/geocode.py, routers/personalize.py, routers/webhooks.py): tasks *)
(* of one event loop around a plain dict with a TTL and a cap.  A task     *)
(* runs alone between awaits, and the only await is the upstream call.     *)
(*                                                                         *)
(* A candidate is its population.  A list remembers the query upstream     *)
(* gave it for, ranked and filtered by country; a list a caller altered,   *)
(* or that stands for a failure, belongs to no query.                      *)
(***************************************************************************)
EXTENDS Integers, FiniteSets, Sequences

CONSTANTS Task, Place, Language,
          Ranking,      \* candidate sequences upstream may answer
          Unknown,      \* a candidate without a population
          Nobody,
          Ttl,          \* life of an entry in ticks (24 h in the code)
          MaxEntries    \* _CACHE_MAX_ENTRIES (1024 in the code)

RankingOK ==
    /\ Unknown \notin Int
    /\ \A r \in Ranking : r \in Seq(Int \cup {Unknown})
    /\ <<>> \in Ranking
BoundOK == Ttl \in Nat \ {0} /\ MaxEntries \in Nat \ {0}

Query == Place \X Language
List == [of : Query \cup {Nobody}, ranked : Ranking]
Nothing == [of |-> Nobody, ranked |-> <<>>]
Caller == {"endpoint", "webhook"}

VARIABLES
    cache,   \* _geocode_cache: query -> [list, life, age], or NoEntry
    pc, caller, query,
    shown,   \* task -> the list its answer was made from
    reply

vars == <<cache, pc, caller, query, shown, reply>>

NoEntry == [list |-> Nothing, life |-> 0, age |-> 0 - 1]
Cached == {q \in DOMAIN cache : cache[q] # NoEntry}

(* _cache_key                                                              *)
PlaceKey(q) == <<q[1], CHOOSE l \in Language : TRUE>>   \* without the language
CacheKey(q) == q

(* What the cache keeps of a list a caller was given, too, and may alter.  *)
Shared(list, altered) == IF altered THEN Nothing ELSE list
DeepCopied(list, altered) == list

Init ==
    /\ cache = [q \in Query |-> NoEntry]
    /\ pc = [t \in Task |-> "idle"]
    /\ caller = [t \in Task |-> "endpoint"]
    /\ query \in [Task -> Query]
    /\ shown = [t \in Task |-> Nothing]
    /\ reply = [t \in Task |-> "none"]

-----------------------------------------------------------------------------
(* compute_confidence(ranked) >= AMBIGUITY_THRESHOLD, the ratio of the two   *)
(* top populations against 0.6.                                            *)
ConfidentUnclamped(ranked) ==     \* without the test of the total
    \/ Len(ranked) = 1
    \/ /\ ranked[1] # Unknown /\ ranked[2] # Unknown
       /\ LET total == ranked[1] + ranked[2]
          IN  IF total < 0 THEN 5 * ranked[1] <= 3 * total ELSE 5 * ranked[1] >= 3 * total

Confident(ranked) ==
    \/ Len(ranked) = 1
    \/ /\ ranked[1] # Unknown /\ ranked[2] # Unknown
       /\ LET total == ranked[1] + ranked[2]
          IN  total > 0 /\ 5 * ranked[1] >= 3 * total

(* geocode_endpoint and _resolve_location refuse an ambiguous place,       *)
(* geocode_place takes the first candidate.                                *)
Outcome(t, list) ==
    IF list.ranked = <<>> THEN IF caller[t] = "webhook" THEN "400" ELSE "404"
    ELSE IF caller[t] = "endpoint" /\ ~Confident(list.ranked) THEN "422"
    ELSE "ok"

Answer(t, list, code) ==
    /\ shown' = [shown EXCEPT ![t] = list]
    /\ reply' = [reply EXCEPT ![t] = code]
    /\ pc' = [pc EXCEPT ![t] = "idle"]

Tick ==
    /\ \E q \in Query : cache[q].life > 0
    /\ cache' = [q \in Query |->
          IF cache[q].life > 0
             THEN [cache[q] EXCEPT !.life = @ - 1, !.age = IF @ > Ttl THEN @ ELSE @ + 1]
             ELSE cache[q]]
    /\ UNCHANGED <<pc, caller, query, shown, reply>>

Arrive(t, c, q) ==
    /\ pc[t] = "idle"
    /\ pc' = [pc EXCEPT ![t] = "lookup"]
    /\ caller' = [caller EXCEPT ![t] = c]
    /\ query' = [query EXCEPT ![t] = q]
    /\ shown' = [shown EXCEPT ![t] = Nothing]
    /\ reply' = [reply EXCEPT ![t] = "none"]
    /\ UNCHANGED cache

Hit(t, altered) ==
    LET k == CacheKey(query[t])
    IN  /\ pc[t] = "lookup" /\ cache[k].life > 0
        /\ Answer(t, cache[k].list, Outcome(t, cache[k].list))
        /\ cache' = [cache EXCEPT ![k].list = DeepCopied(@, altered)]
        /\ UNCHANGED <<caller, query>>

Miss(t) ==             \* an expired entry is dropped; await client.get(url)
    LET k == CacheKey(query[t])
    IN  /\ pc[t] = "lookup" /\ cache[k].life = 0
        /\ cache' = [cache EXCEPT ![k] = NoEntry]
        /\ pc' = [pc EXCEPT ![t] = "fetch"]
        /\ UNCHANGED <<caller, query, shown, reply>>

RoomFor(entries) == IF Cardinality(entries) > MaxEntries THEN {} ELSE entries
Room(entries) == IF Cardinality(entries) >= MaxEntries THEN {} ELSE entries

(* Upstream answers: the cache is cleared at its cap, a copy is stored.    *)
Fetched(t, ranked, altered) ==
    LET list == [of |-> query[t], ranked |-> ranked]
        kept == Room(Cached)
        k == CacheKey(query[t])
    IN  /\ pc[t] = "fetch"
        /\ cache' = [q \in Query |->
              IF q = k THEN [list |-> DeepCopied(list, altered), life |-> Ttl, age |-> 0]
              ELSE IF q \in kept THEN cache[q] ELSE NoEntry]
        /\ Answer(t, list, Outcome(t, list))
        /\ UNCHANGED <<caller, query>>

FetchFails(t) ==       \* timeout, refused connection, error status, bad body
    /\ pc[t] = "fetch"
    /\ Answer(t, Nothing, IF caller[t] = "webhook" THEN "400" ELSE "503")
    /\ UNCHANGED <<cache, caller, query>>

Clear ==               \* clear_geocode_cache
    /\ cache' = [q \in Query |-> NoEntry]
    /\ UNCHANGED <<pc, caller, query, shown, reply>>

Next ==
    \/ Tick \/ Clear
    \/ \E t \in Task :
          \/ \E c \in Caller, q \in Query : Arrive(t, c, q)
          \/ \E altered \in BOOLEAN : \/ Hit(t, altered)
                                      \/ \E r \in Ranking : Fetched(t, r, altered)
          \/ Miss(t) \/ FetchFails(t)

Spec == Init /\ [][Next]_vars

-----------------------------------------------------------------------------
TypeOK ==
    /\ cache \in [Query -> [list : List, life : 0 .. Ttl, age : -1 .. Ttl]]
    /\ pc \in [Task -> {"idle", "lookup", "fetch"}]
    /\ caller \in [Task -> Caller] /\ query \in [Task -> Query]
    /\ shown \in [Task -> List]
    /\ reply \in [Task -> {"none", "ok", "400", "404", "422", "503"}]

(* A live entry was fetched less than one TTL ago, however often it was    *)
(* hit; and the cap holds although tasks that missed store after their     *)
(* await.                                                                  *)
CacheOK ==
    /\ TypeOK /\ \A q \in Cached : cache[q].age + cache[q].life = Ttl
    /\ Cardinality(Cached) <= MaxEntries

(* An answer rests on a list upstream gave for this very place and         *)
(* language: not for another language, not altered by an earlier caller,   *)
(* and "not found" is never a failure that was remembered.                 *)
AnswerFromUpstream ==
    \A t \in Task : reply[t] \in {"ok", "404", "422"} =>
        shown[t].of = query[t]

(* /geocode never picks a place over a larger or equally large runner-up,  *)
(* whatever populations upstream reports, negative ones included.          *)
NeverOvershadowed ==
    \A t \in Task : reply[t] = "ok" /\ caller[t] = "endpoint" =>
        LET r == shown[t].ranked
        IN  Len(r) = 1 \/ (Unknown \notin {r[1], r[2]} /\ r[1] > r[2])
=============================================================================
