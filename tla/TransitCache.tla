---------------------------- MODULE TransitCache ----------------------------
(***************************************************************************)
(* GET /transit/now and /transit/timeline and POST /transit/state          *)
(* (bazi_engine/transit.py, routers/transit.py): synchronous endpoints, so *)
(* threads of one pool share two TTLCaches without a lock.  Looking a key  *)
(* up is two steps (in, then []), and a snapshot is stored long after the  *)
(* lookup missed.                                                          *)
(*                                                                         *)
(* Time is scaled down: an hour is TicksPerHour ticks, a day HoursPerDay   *)
(* hours, and noon the middle hour.  A snapshot is the instant it was      *)
(* computed for, which fixes every planet's position.                      *)
(***************************************************************************)
EXTENDS Naturals, FiniteSets, Sequences

CONSTANTS Thread,
          Asked,        \* bound: kinds of request that arrive
          TicksPerHour, HoursPerDay,
          MaxClock,     \* bound: ticks the server runs
          MaxDays,      \* bound: days of a timeline
          CacheSize,    \* maxsize of the snapshot cache (64 in the code)
          TimelineCacheSize     \* and of the timeline cache (16)

ASSUME ScaleAssumption ==
    /\ TicksPerHour \in Nat \ {0} /\ HoursPerDay \in Nat \ {0}
    /\ MaxClock \in Nat /\ MaxDays \in Nat \ {0} /\ CacheSize \in Nat \ {0}
    /\ TimelineCacheSize \in Nat \ {0}

TicksPerDay == TicksPerHour * HoursPerDay
Kind == {"now", "state", "timeline"}
ASSUME AskedAssumption == Asked \subseteq Kind
Instant == 0 .. MaxClock + TicksPerDay * MaxDays

VARIABLES
    clock,
    files,      \* the ephemeris files are on disk
    snapshots,  \* _transit_cache: key -> [at, expires], or Absent
    timelines,  \* _timeline_cache: key -> [days, expires], or Absent
    pc, kind,   \* per thread
    start, days,\* first instant asked for, number of days
    soFar,      \* snapshots obtained so far
    outage,     \* files have been missing since the request arrived
    reply       \* [code, shots]: the snapshots the response shows

vars == <<clock, files, snapshots, timelines, pc, kind, start, days, soFar, outage, reply>>
world == <<clock, files>>
request == <<kind, start, days>>

Absent == [at |-> 0, expires |-> 0]            \* expires at once: never live
NoTimeline == [shots |-> <<>>, expires |-> 0]
NoReply == [code |-> "none", shots |-> <<>>]

HourOf(i) == i \div TicksPerHour
Hour == {HourOf(i) : i \in Instant}

DayKey(i) == (i \div TicksPerDay) * HoursPerDay   \* a key without its hour

(* _cache_key and _timeline_cache_key; the ephemeris context is one for    *)
(* the whole process.                                                      *)
CacheKey(i) == HourOf(i)
KeyWithoutDays(s, n) == <<s, 1>>
TimelineKey(s, n) == <<s, n>>

Noon(i) == (i \div TicksPerDay) * TicksPerDay + (HoursPerDay \div 2) * TicksPerHour

(* cachetools.TTLCache: an entry is seen until its expiry; storing drops   *)
(* expired entries, then evicts until the new one fits.                    *)
Live(entry) == clock < entry.expires
Purged(cache, none) == [k \in DOMAIN cache |-> IF Live(cache[k]) THEN cache[k] ELSE none]
LiveKeys(cache) == {k \in DOMAIN cache : Live(cache[k])}

Init ==
    /\ clock = 0 /\ files = TRUE
    /\ snapshots = [h \in Hour |-> Absent]
    /\ timelines = [k \in Instant \X (1 .. MaxDays) |-> NoTimeline]
    /\ pc = [t \in Thread |-> "idle"]
    /\ kind = [t \in Thread |-> "now"]
    /\ start = [t \in Thread |-> 0]
    /\ days = [t \in Thread |-> 1]
    /\ soFar = [t \in Thread |-> <<>>]
    /\ outage = [t \in Thread |-> FALSE]
    /\ reply = [t \in Thread |-> NoReply]

Goto(t, label) == pc' = [pc EXCEPT ![t] = label]
Answer(t, code, shots) ==
    /\ reply' = [reply EXCEPT ![t] = [code |-> code, shots |-> shots]]
    /\ soFar' = [soFar EXCEPT ![t] = <<>>]
    /\ Goto(t, "idle")

(* The instant of the snapshot being obtained.                             *)
Dt(t) == start[t] + Len(soFar[t]) * TicksPerDay

Tick ==
    /\ clock < MaxClock /\ clock' = clock + 1
    /\ UNCHANGED <<files, snapshots, timelines, pc, request, soFar, outage, reply>>

FilesChange ==
    /\ files' = ~files
    /\ outage' = [t \in Thread |-> outage[t] /\ ~files']
    /\ UNCHANGED <<clock, snapshots, timelines, pc, request, soFar, reply>>

-----------------------------------------------------------------------------
Arrive(t, k, n, first) ==
    /\ pc[t] = "idle" /\ k \in Asked
    /\ kind' = [kind EXCEPT ![t] = k]
    /\ days' = [days EXCEPT ![t] = n]
    /\ soFar' = [soFar EXCEPT ![t] = <<>>]
    /\ outage' = [outage EXCEPT ![t] = ~files]
    /\ reply' = [reply EXCEPT ![t] = NoReply]
    /\ start' = [start EXCEPT ![t] = first]
    /\ Goto(t, IF k = "timeline" THEN "tlContains" ELSE "contains")
    /\ UNCHANGED <<world, snapshots, timelines>>

ArriveNow(t) == Arrive(t, "now", 1, clock)              \* no datetime parameter
ArriveAt(t, i) == Arrive(t, "now", 1, i)                \* ?datetime=i
ArriveState(t) == Arrive(t, "state", 1, clock)
ArriveTimeline(t, n) == Arrive(t, "timeline", n, Noon(clock))

-----------------------------------------------------------------------------
(* compute_transit_now                                                     *)
Contains(t) ==         \* if key in _transit_cache
    /\ pc[t] = "contains"
    /\ Goto(t, IF Live(snapshots[CacheKey(Dt(t))]) THEN "get" ELSE "build")
    /\ UNCHANGED <<world, snapshots, timelines, request, soFar, outage, reply>>

(* The caller goes on with the snapshot of instant i.                      *)
NowWithoutMode(t, i) ==        \* /now with a literal ephemeris_mode
    \/ /\ kind[t] = "timeline"
       /\ soFar' = [soFar EXCEPT ![t] = Append(@, i)]
       /\ Goto(t, "tlNext")
       /\ UNCHANGED reply
    \/ kind[t] # "timeline" /\ Answer(t, "ok", <<i>>)

Deliver(t, i) ==
    \/ /\ kind[t] # "state"
       /\ soFar' = [soFar EXCEPT ![t] = Append(@, i)]
       /\ Goto(t, IF kind[t] = "now" THEN "quality" ELSE "tlNext")
       /\ UNCHANGED reply
    \/ kind[t] = "state" /\ Answer(t, "ok", <<i>>)

Get(t) ==              \* return _transit_cache[key], or KeyError
    /\ pc[t] = "get"
    /\ LET entry == snapshots[CacheKey(Dt(t))]
       IN  IF Live(entry) THEN Deliver(t, entry.at) ELSE Answer(t, "500", <<>>)
    /\ UNCHANGED <<world, snapshots, timelines, request, outage>>

Build(t) ==            \* SwissEphBackend(ephe_path)
    /\ pc[t] = "build"
    /\ IF files THEN /\ Goto(t, "store")
                     /\ UNCHANGED <<soFar, reply>>
                ELSE Answer(t, "503", <<>>)
    /\ UNCHANGED <<world, snapshots, timelines, request, outage>>

(* The files vanish before the positions are computed: calc_ut raises.     *)
ComputeFails(t) ==
    /\ pc[t] = "store" /\ ~files
    /\ Answer(t, "503", <<>>)
    /\ UNCHANGED <<world, snapshots, timelines, request, outage>>

Put(key, at) ==        \* _transit_cache[key] = ...
    LET kept == Purged(snapshots, Absent)
        new == [at |-> at, expires |-> clock + TicksPerHour]
    IN  IF key \in LiveKeys(snapshots) \/ Cardinality(LiveKeys(snapshots)) < CacheSize
           THEN snapshots' = [kept EXCEPT ![key] = new]
           ELSE \E victim \in LiveKeys(snapshots) :
                   snapshots' = [kept EXCEPT ![victim] = Absent, ![key] = new]

Store(t) ==            \* compute, then store under the key of the lookup
    /\ pc[t] = "store"
    /\ Put(CacheKey(Dt(t)), Dt(t))
    /\ Deliver(t, Dt(t))
    /\ UNCHANGED <<world, timelines, request, outage>>

(* TTLCache is not thread-safe: of two overlapping stores that both drop   *)
(* the same old entry, one raises KeyError.                                *)
StoreRace(t) ==
    /\ pc[t] = "store"
    /\ \E u \in Thread \ {t} : pc[u] = "store"
    /\ \/ \E h \in Hour : snapshots[h] # Absent /\ ~Live(snapshots[h])
       \/ Cardinality(LiveKeys(snapshots)) >= CacheSize
    /\ Answer(t, "500", <<>>)
    /\ UNCHANGED <<world, snapshots, timelines, request, outage>>

(* routers/transit.py:232, current_ephemeris_mode constructs a backend     *)
(* just to read its mode.                                                  *)
Quality(t) ==
    /\ pc[t] = "quality"
    /\ IF files THEN Answer(t, "ok", soFar[t]) ELSE Answer(t, "503", <<>>)
    /\ UNCHANGED <<world, snapshots, timelines, request, outage>>

-----------------------------------------------------------------------------
(* compute_transit_timeline                                                *)
TimelineContains(t) ==
    /\ pc[t] = "tlContains"
    /\ Goto(t, IF Live(timelines[TimelineKey(start[t], days[t])]) THEN "tlGet" ELSE "tlNext")
    /\ UNCHANGED <<world, snapshots, timelines, request, soFar, outage, reply>>

TimelineGet(t) ==
    /\ pc[t] = "tlGet"
    /\ LET entry == timelines[TimelineKey(start[t], days[t])]
       IN  IF Live(entry) THEN Answer(t, "ok", entry.shots) ELSE Answer(t, "500", <<>>)
    /\ UNCHANGED <<world, snapshots, timelines, request, outage>>

TimelineDay(t) ==      \* for i in range(days)
    /\ pc[t] = "tlNext" /\ Len(soFar[t]) < days[t]
    /\ Goto(t, "contains")
    /\ UNCHANGED <<world, snapshots, timelines, request, soFar, outage, reply>>

PutTimeline(key, shots) ==     \* _timeline_cache[cache_key] = result
    LET kept == Purged(timelines, NoTimeline)
        new == [shots |-> shots, expires |-> clock + TicksPerDay]
    IN  IF key \in LiveKeys(timelines)
           \/ Cardinality(LiveKeys(timelines)) < TimelineCacheSize
           THEN timelines' = [kept EXCEPT ![key] = new]
           ELSE \E victim \in LiveKeys(timelines) :
                   timelines' = [kept EXCEPT ![victim] = NoTimeline, ![key] = new]

Assembled(t) == pc[t] = "tlNext" /\ Len(soFar[t]) = days[t]
TimelineStore(t) ==
    /\ Assembled(t)
    /\ PutTimeline(TimelineKey(start[t], days[t]), soFar[t])
    /\ Answer(t, "ok", soFar[t])
    /\ UNCHANGED <<world, snapshots, request, outage>>

(* As StoreRace, of two timelines.                                         *)
TimelineStoreRace(t) ==
    /\ Assembled(t)
    /\ \E u \in Thread \ {t} : Assembled(u)
    /\ \/ \E k \in DOMAIN timelines : timelines[k] # NoTimeline /\ ~Live(timelines[k])
       \/ Cardinality(LiveKeys(timelines)) >= TimelineCacheSize
    /\ Answer(t, "500", <<>>)
    /\ UNCHANGED <<world, snapshots, timelines, request, outage>>

Next ==
    \/ Tick
    \/ FilesChange
    \/ \E t \in Thread :
          \/ ArriveNow(t) \/ ArriveState(t)
          \/ \E i \in 0 .. MaxClock : ArriveAt(t, i)
          \/ \E n \in 1 .. MaxDays : ArriveTimeline(t, n)
          \/ Contains(t) \/ Get(t) \/ Build(t) \/ ComputeFails(t)
          \/ Store(t) \/ StoreRace(t) \/ Quality(t)
          \/ TimelineContains(t) \/ TimelineGet(t) \/ TimelineDay(t) \/ TimelineStore(t)
          \/ TimelineStoreRace(t)

Spec == Init /\ [][Next]_vars

-----------------------------------------------------------------------------
Label == {"idle", "contains", "get", "build", "store", "quality",
          "tlContains", "tlGet", "tlNext"}

TypeOK ==
    /\ clock \in 0 .. MaxClock /\ files \in BOOLEAN
    /\ snapshots \in [Hour -> [at : Instant, expires : Nat]]
    /\ \A k \in DOMAIN timelines : /\ timelines[k].expires \in Nat
                                   /\ timelines[k].shots \in Seq(Instant)
    /\ pc \in [Thread -> Label] /\ kind \in [Thread -> Kind]
    /\ start \in [Thread -> Instant]
    /\ days \in [Thread -> 1 .. MaxDays]
    /\ \A t \in Thread : Len(soFar[t]) <= days[t] /\ soFar[t] \in Seq(Instant)
    /\ outage \in [Thread -> BOOLEAN]
    /\ \A t \in Thread : reply[t].code \in {"none", "ok", "500", "503"}

(* A cached entry belongs under its key, so that a slow writer who         *)
(* overwrites a faster one changes the minute and never the hour, and it   *)
(* lives no longer than one TTL from now.                                  *)
CacheOK ==
    /\ TypeOK
    /\ \A h \in Hour : snapshots[h].expires > 0 =>
          /\ HourOf(snapshots[h].at) = h
          /\ snapshots[h].expires <= clock + TicksPerHour

(* Whatever other requests store or evict meanwhile, /now and /state show  *)
(* the sky of the hour they were asked for.                                *)
SkyOfTheHour ==
    \A t \in Thread : reply[t].code = "ok" /\ kind[t] # "timeline" =>
        HourOf(reply[t].shots[1]) = HourOf(start[t])
SnapshotsOK == CacheOK /\ SkyOfTheHour

(* A timeline has the days asked for, each in the noon hour of its day,    *)
(* although its parts come from the cache the other endpoints fill and the *)
(* whole from the timeline cache.                                          *)
TimelineComplete ==
    \A t \in Thread : reply[t].code = "ok" /\ kind[t] = "timeline" =>
        /\ Len(reply[t].shots) = days[t]
        /\ \A i \in 1 .. days[t] :
              HourOf(reply[t].shots[i]) = HourOf(start[t] + (i - 1) * TicksPerDay)

(* /now never attests SWIEPH during an outage, not even on a cache hit.    *)
NowAttestsLiveFiles ==
    \A t \in Thread : kind[t] = "now" /\ outage[t] => reply[t].code # "ok"
=============================================================================
