---------------------------- MODULE SpaceWeather ----------------------------
(***************************************************************************)
(* fetch_space_weather (bazi_engine/services/space_weather.py): tasks of   *)
(* one event loop, with a TTLCache of one key.  A task runs alone between  *)
(* awaits; while it awaits the two NOAA endpoints any other task may miss  *)
(* the cache too, and whichever finishes last stays in it.                 *)
(*                                                                         *)
(* A fetched value is "real" or, when the endpoint failed, "default".      *)
(***************************************************************************)
EXTENDS Naturals

CONSTANTS Task,
          Ttl      \* life of an entry in ticks (900 s in the code)

TtlOK == Ttl \in Nat \ {0}

Source == {"kp", "wind"}
Result == {"pending", "real", "default"}

VARIABLES
    up,      \* Source -> the endpoint answers in time with a usable row
    cached,  \* (data, partial) of the entry
    life,    \* ticks until the entry expires, 0 if there is none
    age,     \* ticks since the data of the entry were fetched
    pc,      \* task -> "idle" or "gather"
    got,     \* task -> Source -> Result
    reply    \* task -> what it returned

vars == <<up, cached, life, age, pc, got, reply>>

Pending == [s \in Source |-> "pending"]
Default == [s \in Source |-> "default"]
SourceName(data, partial) == IF partial THEN "noaa_partial" ELSE "noaa"
Entry(data, partial) ==
    [data |-> data, partial |-> partial, source |-> SourceName(data, partial)]
NoReply == [data |-> Pending, partial |-> FALSE, source |-> "none"]

Init ==
    /\ up \in [Source -> BOOLEAN]
    /\ cached = Entry(Default, TRUE) /\ life = 0 /\ age = 0
    /\ pc = [k \in Task |-> "idle"]
    /\ got = [k \in Task |-> Pending]
    /\ reply = [k \in Task |-> NoReply]

EndpointChanges(s) ==
    /\ up' = [up EXCEPT ![s] = ~@]
    /\ UNCHANGED <<cached, life, age, pc, got, reply>>

Tick ==
    /\ life > 0
    /\ life' = life - 1
    /\ age' = IF life' = 0 THEN 0 ELSE IF age > Ttl THEN age ELSE age + 1
    /\ UNCHANGED <<up, cached, pc, got, reply>>

Return(k, answer) ==
    /\ reply' = [reply EXCEPT ![k] = answer]
    /\ pc' = [pc EXCEPT ![k] = "idle"]
    /\ got' = [got EXCEPT ![k] = Pending]

Miss(k) == pc' = [pc EXCEPT ![k] = "gather"] /\ UNCHANGED <<got, reply>>

CallSliding(k) ==      \* a hit that renews the entry
    /\ pc[k] = "idle"
    /\ IF life > 0 THEN Return(k, cached) /\ life' = Ttl
                   ELSE Miss(k) /\ UNCHANGED life
    /\ UNCHANGED <<up, cached, age>>

Call(k) ==             \* from the call to the answer or the first await
    /\ pc[k] = "idle"
    /\ IF life > 0 THEN Return(k, cached) ELSE Miss(k)
    /\ UNCHANGED <<up, cached, life, age>>

(* _fetch_kp_index, _fetch_solar_wind_pressure: every failure, a timeout   *)
(* after 5 s among them, becomes the default value.                        *)
Fetch(k, s) ==
    /\ pc[k] = "gather" /\ got[k][s] = "pending"
    /\ got' = [got EXCEPT ![k][s] = IF up[s] THEN "real" ELSE "default"]
    /\ UNCHANGED <<up, cached, life, age, pc, reply>>

BothFailed(data) == \A s \in Source : data[s] = "default"
AnyFailed(data) == \E s \in Source : data[s] = "default"

Finish(k) ==           \* after gather: store, even if partial, and return
    /\ pc[k] = "gather" /\ \A s \in Source : got[k][s] # "pending"
    /\ cached' = Entry(got[k], AnyFailed(got[k]))
    /\ life' = Ttl /\ age' = 0
    /\ Return(k, cached')
    /\ UNCHANGED up

(* The HTTP client cannot be opened or closed, or the values do not        *)
(* validate: the default is returned and nothing is cached.                *)
OrchestrationFails(k) ==
    /\ pc[k] = "gather"
    /\ Return(k, [data |-> Default, partial |-> TRUE, source |-> "default"])
    /\ UNCHANGED <<up, cached, life, age>>

Next ==
    \/ Tick
    \/ \E s \in Source : EndpointChanges(s)
    \/ \E k \in Task : \/ Call(k) \/ Finish(k) \/ OrchestrationFails(k)
                       \/ \E s \in Source : Fetch(k, s)

Spec == Init /\ [][Next]_vars

(* Time passes; a fetch ends, at the latest by its timeout; the event loop *)
(* resumes a task whose awaited fetches are done.                          *)
Fairness ==
    /\ WF_vars(Tick)
    /\ \A k \in Task : /\ WF_vars(Finish(k))
                       /\ \A s \in Source : WF_vars(Fetch(k, s))

-----------------------------------------------------------------------------
TypeOK ==
    /\ up \in [Source -> BOOLEAN]
    /\ cached \in [data : [Source -> {"real", "default"}], partial : BOOLEAN,
                   source : {"noaa", "noaa_partial"}]
    /\ life \in 0 .. Ttl /\ age \in Nat
    /\ pc \in [Task -> {"idle", "gather"}]
    /\ got \in [Task -> [Source -> Result]]
    /\ reply \in [Task -> [data : [Source -> Result], partial : BOOLEAN,
                           source : {"none", "noaa", "noaa_partial", "default"}]]

(* What the cache holds was fetched less than one TTL ago, however often   *)
(* it was hit.                                                             *)
CacheOK == TypeOK /\ (life > 0 => age + life = Ttl)

(* A default value never passes for a measured one: partial and source     *)
(* tell the truth of the response, fetched or from the cache, whichever    *)
(* task filled it.                                                         *)
DefaultsAreFlagged ==
    \A k \in Task :
        /\ reply[k].partial <=> AnyFailed(reply[k].data)
        /\ reply[k].source = "noaa" => \A s \in Source : reply[k].data[s] = "real"
        /\ reply[k].source = "default" => BothFailed(reply[k].data)

(* Once both endpoints work for good, degraded data leave the cache for    *)
(* good, although slow fetches from before the recovery may still store    *)
(* theirs.                                                                 *)
Healthy == \A s \in Source : up[s]
Recovers == <>[]Healthy => <>[](life > 0 => ~cached.partial)
=============================================================================
