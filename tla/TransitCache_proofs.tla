------------------------- MODULE TransitCache_proofs -------------------------
(***************************************************************************)
(* That the answers of the transit endpoints are of the hours asked for,   *)
(* that timelines are complete and that /now does not attest files that    *)
(* are missing: for any threads, any scale of time and any size of the     *)
(* cache.                                                                  *)
(*                                                                         *)
(* One relation carries the first two.  Complete(shots, s, n) is what a    *)
(* response must be, and it holds of what a thread has so far, of what a   *)
(* live timeline entry holds, and of every answer; a single transit is a   *)
(* timeline of one day.                                                    *)
(***************************************************************************)
EXTENDS TransitCache, SequenceTheorems, TLAPS

Shots == Seq(Instant)
Snapshot == [at : Instant, expires : Nat]
Timeline == [shots : Shots, expires : Nat]
Code == {"none", "ok", "500", "503"}
Obtaining == {"contains", "get", "build", "store"}

(* The shots of the days from the first on are each of the right hour.     *)
Matches(shots, first) ==
    \A i \in 1 .. Len(shots) : HourOf(shots[i]) = HourOf(first + (i - 1) * TicksPerDay)
Complete(shots, first, n) == Len(shots) = n /\ Matches(shots, first)

(* An entry may be overwritten by a slower writer, but only under its hour.*)
Caches ==
    /\ clock \in 0 .. MaxClock /\ files \in BOOLEAN
    /\ snapshots \in [Hour -> Snapshot]
    /\ timelines \in [Instant \X (1 .. MaxDays) -> Timeline]
    /\ \A h \in Hour : snapshots[h].expires > 0 =>
          HourOf(snapshots[h].at) = h /\ snapshots[h].expires <= clock + TicksPerHour
    /\ \A first \in Instant, n \in 1 .. MaxDays :
          timelines[<<first, n>>].expires > 0 => Complete(timelines[<<first, n>>].shots, first, n)

(* What a thread has on the way, and where it is.                          *)
Underway(t) ==
    /\ Len(soFar[t]) <= days[t] /\ Matches(soFar[t], start[t])
    /\ kind[t] # "timeline" => days[t] = 1
    /\ pc[t] \in Obtaining => Len(soFar[t]) < days[t]
    /\ pc[t] = "quality" => kind[t] = "now" /\ Len(soFar[t]) = 1
    /\ pc[t] \in {"tlContains", "tlGet", "tlNext"} => kind[t] = "timeline"
Answered(t) == reply[t].code = "ok" => Complete(reply[t].shots, start[t], days[t])

(* Missing files at the end of /now were missing all the time since.       *)
Attesting(t) ==
    /\ outage[t] => ~files
    /\ kind[t] = "now" /\ outage[t] => reply[t].code # "ok"

Request(t) == Underway(t) /\ Answered(t) /\ Attesting(t)

Requests ==
    /\ pc \in [Thread -> Label] /\ kind \in [Thread -> Kind]
    /\ start \in [Thread -> 0 .. MaxClock + TicksPerDay]
    /\ days \in [Thread -> 1 .. MaxDays]
    /\ soFar \in [Thread -> Shots]
    /\ outage \in [Thread -> BOOLEAN]
    /\ reply \in [Thread -> [code : Code, shots : Shots]]
    /\ \A t \in Thread : Request(t)

IInv == Caches /\ Requests

-----------------------------------------------------------------------------
(* The scale: a day is a positive number of ticks, and every instant a     *)
(* request can ask about has its hour in the caches.                       *)
LEMMA DayIsPositive == TicksPerDay \in Nat \ {0}
<1>1. \A a, b \in Nat \ {0} : a * b \in Nat \ {0}
  OBVIOUS
<1> QED  BY <1>1, ScaleAssumption DEF TicksPerDay

LEMMA DaysAhead ==
    ASSUME NEW s \in 0 .. MaxClock + TicksPerDay, NEW j \in 0 .. MaxDays - 1
    PROVE  s + j * TicksPerDay \in Instant
<1> DEFINE d == TicksPerDay
<1>1. d \in Nat /\ MaxClock \in Nat /\ MaxDays \in Nat
  BY DayIsPositive, ScaleAssumption
<1> HIDE DEF d
<1>2. \A k, m, n \in Nat : m + 1 <= n => m * k + k <= k * n /\ m * k \in Nat
  <2>1. \A k, m, n \in Nat : m <= n => m * k <= n * k
    OBVIOUS
  <2>2. \A k, m \in Nat : (m + 1) * k = m * k + k /\ m * k \in Nat /\ m * k = k * m
    OBVIOUS
  <2> QED  BY <2>1, <2>2
<1>3. j * d + d <= d * MaxDays /\ j * d \in Nat /\ d * MaxDays \in Nat
  BY <1>1, <1>2
<1>4. s \in 0 .. MaxClock + d
  BY DEF d
<1>5. s + j * d \in 0 .. MaxClock + d * MaxDays
  BY <1>1, <1>3, <1>4
<1> QED  BY <1>5 DEF d, Instant

LEMMA NoonIsNear == ASSUME NEW i \in 0 .. MaxClock PROVE Noon(i) \in 0 .. MaxClock + TicksPerDay
<1>1. \A a \in Nat, b \in Nat \ {0} : (a \div b) * b <= a /\ (a \div b) * b \in Nat
  OBVIOUS
<1>2. (HoursPerDay \div 2) * TicksPerHour \in 0 .. TicksPerDay
  <2>1. \A a, b, c \in Nat : a <= b => a * c <= c * b /\ a * c \in Nat
    OBVIOUS
  <2>2. HoursPerDay \div 2 \in Nat /\ HoursPerDay \div 2 <= HoursPerDay
    BY ScaleAssumption
  <2> QED  BY <2>1, <2>2, ScaleAssumption, DayIsPositive DEF TicksPerDay
<1> DEFINE d == TicksPerDay
           half == (HoursPerDay \div 2) * TicksPerHour
<1>3. d \in Nat \ {0} /\ half \in 0 .. d /\ Noon(i) = (i \div d) * d + half
  BY <1>2, DayIsPositive DEF Noon
<1> HIDE DEF d, half
<1>4. (i \div d) * d <= i /\ (i \div d) * d \in Nat /\ i \in Nat /\ i <= MaxClock
  BY <1>1, <1>3, ScaleAssumption
<1>5. Noon(i) \in 0 .. MaxClock + d
  BY <1>3, <1>4, ScaleAssumption
<1> QED  BY <1>5 DEF d

(* While a day is being obtained its instant has an hour in the cache.     *)
LEMMA DtIsInstant ==
    ASSUME Requests, NEW t \in Thread, pc[t] \in Obtaining
    PROVE  Dt(t) \in Instant /\ CacheKey(Dt(t)) \in Hour
<1>1. /\ start[t] \in 0 .. MaxClock + TicksPerDay /\ soFar[t] \in Shots /\ Len(soFar[t]) < days[t]
      /\ days[t] \in 1 .. MaxDays
  BY DEF Requests, Request, Underway
<1>2. Len(soFar[t]) \in 0 .. MaxDays - 1
  BY <1>1, ScaleAssumption DEF Shots
<1>3. Dt(t) \in Instant
  BY <1>1, <1>2, DaysAhead DEF Dt
<1> QED  BY <1>3 DEF CacheKey, Hour

LEMMA StartIsInstant ==
    ASSUME Requests, NEW t \in Thread
    PROVE  start[t] \in Instant /\ start[t] \in Int
<1>1. start[t] \in 0 .. MaxClock + TicksPerDay
  BY DEF Requests
<1>2. 0 \in 0 .. MaxDays - 1 /\ start[t] \in Int
  BY <1>1, DayIsPositive, ScaleAssumption
<1>3. start[t] + 0 * TicksPerDay \in Instant /\ start[t] + 0 * TicksPerDay = start[t]
  BY <1>1, <1>2, DaysAhead, DayIsPositive
<1> QED  BY <1>2, <1>3

LEMMA AppendMatches ==
    ASSUME NEW shots \in Shots, NEW first \in Int, NEW at \in Instant,
           Matches(shots, first), HourOf(at) = HourOf(first + Len(shots) * TicksPerDay)
    PROVE  /\ Append(shots, at) \in Shots /\ Len(Append(shots, at)) = Len(shots) + 1
           /\ Matches(Append(shots, at), first)
<1>1. /\ Append(shots, at) \in Shots /\ Len(Append(shots, at)) = Len(shots) + 1
      /\ Len(shots) \in Nat
      /\ \A i \in 1 .. Len(shots) : Append(shots, at)[i] = shots[i]
      /\ Append(shots, at)[Len(shots) + 1] = at
  BY AppendProperties, LenProperties DEF Shots
<1>2. ASSUME NEW i \in 1 .. Len(shots) + 1
      PROVE  HourOf(Append(shots, at)[i]) = HourOf(first + (i - 1) * TicksPerDay)
  <2>1. CASE i \in 1 .. Len(shots)
    BY <1>1, <2>1 DEF Matches
  <2>2. CASE i = Len(shots) + 1
    <3>1. i - 1 = Len(shots)
      BY <1>1, <2>2
    <3> QED  BY <1>1, <2>2, <3>1
  <2> QED  BY <1>1, <2>1, <2>2
<1> QED  BY <1>1, <1>2 DEF Matches

(* What every step of a thread t leaves alone: what was asked of it, and   *)
(* all of the other threads.                                               *)
Steps(t) ==
    /\ \E label \in Label : pc' = [pc EXCEPT ![t] = label]
    /\ UNCHANGED <<files, request, outage>>

LEMMA OthersKeep ==
    ASSUME Requests, NEW t \in Thread, Steps(t), NEW u \in Thread, u # t,
           soFar'[u] = soFar[u], reply'[u] = reply[u]
    PROVE  Request(u)'
<1>1. pc'[u] = pc[u] /\ Request(u)
  BY DEF Steps, Requests
<1> QED  BY <1>1 DEF Steps, request, Request, Underway, Answered, Attesting

(* The three ways a step of a thread may end: in an answer, further on in  *)
(* the code, with one more snapshot.                                       *)
LEMMA AnswerStep ==
    ASSUME Requests, NEW t \in Thread, NEW code \in Code, NEW shots \in Shots,
           Answer(t, code, shots), UNCHANGED <<files, request, outage>>,
           code = "ok" => /\ Complete(shots, start[t], days[t])
                          /\ kind[t] = "now" => ~outage[t]
    PROVE  Requests'
<1>1. Steps(t)
  BY DEF Answer, Goto, Steps, Label
<1>2. <<>> \in Shots /\ Len(<<>>) = 0
  BY DEF Shots
<1>3. /\ pc' \in [Thread -> Label] /\ pc'[t] = "idle"
      /\ soFar' \in [Thread -> Shots] /\ soFar'[t] = <<>>
      /\ reply' \in [Thread -> [code : Code, shots : Shots]]
      /\ reply'[t] = [code |-> code, shots |-> shots]
      /\ \A u \in Thread \ {t} : soFar'[u] = soFar[u] /\ reply'[u] = reply[u]
  BY <1>2 DEF Answer, Goto, Requests, Label
<1>4. Request(t)'
  <2>1. days[t] \in 1 .. MaxDays /\ (kind[t] # "timeline" => days[t] = 1)
    BY DEF Requests, Request, Underway
  <2>2. Underway(t)'
    BY <1>2, <1>3, <2>1, ScaleAssumption DEF Underway, Matches, request, Obtaining
  <2>3. Answered(t)'
    BY <1>3 DEF Answered, request, Complete, Matches, HourOf
  <2>4. Attesting(t)'
    BY <1>3 DEF Attesting, Requests, Request, request
  <2> QED  BY <2>2, <2>3, <2>4 DEF Request
<1>5. \A u \in Thread : Request(u)'
  BY <1>1, <1>3, <1>4, OthersKeep
<1> QED  BY <1>3, <1>5 DEF Requests, request

LEMMA GotoStep ==
    ASSUME Requests, NEW t \in Thread, NEW label \in Label,
           Goto(t, label), UNCHANGED <<files, request, soFar, outage, reply>>,
           label \in Obtaining => Len(soFar[t]) < days[t],
           label = "quality" => kind[t] = "now" /\ Len(soFar[t]) = 1,
           label \in {"tlContains", "tlGet", "tlNext"} => kind[t] = "timeline"
    PROVE  Requests'
<1>1. Steps(t)
  BY DEF Goto, Steps
<1>2. pc' \in [Thread -> Label] /\ pc'[t] = label
  BY DEF Goto, Requests
<1>3. Request(t)'
  BY <1>2 DEF Requests, Request, Underway, Answered, Attesting, request
<1>4. \A u \in Thread : Request(u)'
  BY <1>1, <1>3, OthersKeep
<1> QED  BY <1>2, <1>4 DEF Requests, request

LEMMA DeliverStep ==
    ASSUME Requests, NEW t \in Thread, pc[t] \in {"get", "store"}, NEW at \in Instant,
           HourOf(at) = HourOf(Dt(t)), Deliver(t, at), UNCHANGED <<files, request, outage>>
    PROVE  Requests'
<1>1. /\ soFar[t] \in Shots /\ start[t] \in Int /\ Matches(soFar[t], start[t])
      /\ Len(soFar[t]) < days[t] /\ days[t] \in 1 .. MaxDays /\ Len(soFar[t]) \in Nat
      /\ kind[t] # "timeline" => days[t] = 1
      /\ kind[t] \in Kind
  BY DayIsPositive, ScaleAssumption DEF Requests, Request, Underway, Obtaining, Shots
<1> DEFINE longer == Append(soFar[t], at)
<1>2. longer \in Shots /\ Len(longer) = Len(soFar[t]) + 1 /\ Matches(longer, start[t])
  BY <1>1, AppendMatches DEF Dt
<1> HIDE DEF longer
<1>3. CASE kind[t] = "state" /\ Answer(t, "ok", <<at>>)
  <2>1. <<at>> \in Shots /\ Len(<<at>>) = 1 /\ <<at>>[1] = at
    BY DEF Shots
  <2>2. days[t] = 1 /\ Len(soFar[t]) = 0
    BY <1>1, <1>3
  <2>3. HourOf(at) = HourOf(start[t] + (1 - 1) * TicksPerDay)
    BY <2>2 DEF Dt
  <2>4. Complete(<<at>>, start[t], days[t])
    BY <2>1, <2>2, <2>3 DEF Complete, Matches
  <2> QED  BY <1>3, <2>1, <2>4, AnswerStep DEF Code
<1>4. CASE /\ kind[t] # "state" /\ soFar' = [soFar EXCEPT ![t] = longer] /\ reply' = reply
           /\ Goto(t, IF kind[t] = "now" THEN "quality" ELSE "tlNext")
  <2>1. /\ pc' \in [Thread -> Label] /\ soFar' \in [Thread -> Shots] /\ soFar'[t] = longer
        /\ pc'[t] = IF kind[t] = "now" THEN "quality" ELSE "tlNext"
        /\ \A u \in Thread \ {t} : soFar'[u] = soFar[u]
    BY <1>2, <1>4 DEF Goto, Requests, Label
  <2>2. Steps(t)
    BY <1>4 DEF Goto, Steps, Label
  <2>3. Underway(t)'
    BY <1>1, <1>2, <1>4, <2>1 DEF Underway, Obtaining, request, Kind
  <2>4. Answered(t)' /\ Attesting(t)'
    BY <1>4 DEF Requests, Request, Answered, Attesting, request
  <2>5. \A u \in Thread : Request(u)'
    BY <1>4, <2>1, <2>2, <2>3, <2>4, OthersKeep DEF Request
  <2> QED  BY <1>4, <2>1, <2>5 DEF Requests, request
<1> QED  BY <1>3, <1>4 DEF Deliver, longer

-----------------------------------------------------------------------------
(* A snapshot stored under the hour it is of leaves the caches right,      *)
(* whatever it purges, evicts or overwrites.                               *)
LEMMA PutStep ==
    ASSUME Caches, NEW at \in Instant, CacheKey(at) \in Hour,
           Put(CacheKey(at), at), UNCHANGED <<world, timelines>>
    PROVE  Caches'
<1> DEFINE new == [at |-> at, expires |-> clock + TicksPerHour]
<1>1. new \in Snapshot /\ HourOf(new.at) = CacheKey(at) /\ new.expires = clock + TicksPerHour
  BY ScaleAssumption DEF Caches, Snapshot, CacheKey
<1>2. Absent \in Snapshot /\ Absent.expires = 0
  BY ScaleAssumption, DayIsPositive, DaysAhead DEF Absent, Snapshot, Instant
<1> HIDE DEF new
<1>3. /\ DOMAIN snapshots' = Hour
      /\ \A h \in Hour : snapshots'[h] \in {snapshots[h], Absent, new}
      /\ \A h \in Hour : snapshots'[h] = new => h = CacheKey(at) \/ snapshots[h] = new
  <2>1. DOMAIN snapshots = Hour
    BY DEF Caches
  <2>2. /\ DOMAIN Purged(snapshots, Absent) = Hour
        /\ \A h \in Hour : Purged(snapshots, Absent)[h] \in {snapshots[h], Absent}
    BY <2>1 DEF Purged
  <2>3. LiveKeys(snapshots) \subseteq Hour
    BY <2>1 DEF LiveKeys
  <2>4. CASE snapshots' = [Purged(snapshots, Absent) EXCEPT ![CacheKey(at)] = new]
    BY <1>1, <1>2, <2>2, <2>4, ScaleAssumption DEF Caches
  <2>5. CASE \E victim \in LiveKeys(snapshots) :
                snapshots' = [Purged(snapshots, Absent) EXCEPT ![victim] = Absent, ![CacheKey(at)] = new]
    BY <1>1, <1>2, <2>2, <2>3, <2>5, ScaleAssumption DEF Caches
  <2> QED  BY <2>4, <2>5 DEF Put, new
<1>4. snapshots' \in [Hour -> Snapshot]
  <2>1. \A h \in Hour : snapshots'[h] \in Snapshot
    BY <1>1, <1>2, <1>3 DEF Caches
  <2>2. snapshots' = [h \in Hour |-> snapshots'[h]]
    BY <1>3 DEF Put, Purged, Caches
  <2> QED  BY <2>1, <2>2
<1>5. ASSUME NEW h \in Hour, snapshots'[h].expires > 0
      PROVE  HourOf(snapshots'[h].at) = h /\ snapshots'[h].expires <= clock + TicksPerHour
  BY <1>1, <1>2, <1>3, <1>5, ScaleAssumption DEF Caches
<1> QED  BY <1>4, <1>5 DEF Caches, world

(* A timeline is stored complete, under the day and the length asked for.  *)
LEMMA TimelinePutStep ==
    ASSUME Caches, Requests, NEW t \in Thread, TimelineStore(t)
    PROVE  Caches'
<1> DEFINE new == [shots |-> soFar[t], expires |-> clock + TicksPerDay]
           key == <<start[t], days[t]>>
<1>1. /\ new \in Timeline /\ Complete(new.shots, start[t], days[t])
      /\ start[t] \in Instant /\ days[t] \in 1 .. MaxDays
  <2>1. soFar[t] \in Shots /\ start[t] \in 0 .. MaxClock + TicksPerDay /\ days[t] \in 1 .. MaxDays
        /\ Len(soFar[t]) = days[t] /\ Matches(soFar[t], start[t])
    BY DEF Requests, Request, Underway, TimelineStore, Assembled
  <2>2. start[t] \in Instant
    BY StartIsInstant
  <2>3. clock + TicksPerDay \in Nat
    BY DayIsPositive DEF Caches
  <2> QED  BY <2>1, <2>2, <2>3 DEF Timeline, Complete
<1>2. NoTimeline \in Timeline /\ NoTimeline.expires = 0
  BY DEF NoTimeline, Timeline, Shots
<1>3. \/ timelines' = [Purged(timelines, NoTimeline) EXCEPT ![key] = new]
      \/ \E victim \in LiveKeys(timelines) :
            timelines' = [Purged(timelines, NoTimeline) EXCEPT ![victim] = NoTimeline, ![key] = new]
  BY DEF TimelineStore, PutTimeline, TimelineKey
<1> HIDE DEF new
<1>4. /\ timelines' \in [Instant \X (1 .. MaxDays) -> Timeline]
      /\ \A k \in Instant \X (1 .. MaxDays) :
            timelines'[k] \in {timelines[k], NoTimeline} \/ (k = key /\ timelines'[k] = new)
  <2>1. /\ DOMAIN timelines = Instant \X (1 .. MaxDays)
        /\ \A k \in Instant \X (1 .. MaxDays) : timelines[k] \in Timeline
    BY DEF Caches
  <2>2. /\ Purged(timelines, NoTimeline) \in [Instant \X (1 .. MaxDays) -> Timeline]
        /\ \A k \in Instant \X (1 .. MaxDays) :
              Purged(timelines, NoTimeline)[k] \in {timelines[k], NoTimeline}
    BY <1>2, <2>1 DEF Purged
  <2> HIDE DEF key
  <2>3. CASE timelines' = [Purged(timelines, NoTimeline) EXCEPT ![key] = new]
    BY <1>1, <2>2, <2>3
  <2>4. CASE \E victim \in LiveKeys(timelines) :
                timelines' = [Purged(timelines, NoTimeline) EXCEPT ![victim] = NoTimeline, ![key] = new]
    BY <1>1, <1>2, <2>2, <2>4
  <2> QED  BY <1>3, <2>3, <2>4
<1>5. ASSUME NEW first \in Instant, NEW n \in 1 .. MaxDays, timelines'[<<first, n>>].expires > 0
      PROVE  Complete(timelines'[<<first, n>>].shots, first, n)
  <2>1. <<first, n>> \in Instant \X (1 .. MaxDays)
    OBVIOUS
  <2>2. CASE timelines'[<<first, n>>] = timelines[<<first, n>>]
    BY <1>5, <2>2 DEF Caches
  <2>3. CASE timelines'[<<first, n>>] = NoTimeline
    BY <1>2, <1>5, <2>3
  <2>4. CASE <<first, n>> = key /\ timelines'[<<first, n>>] = new
    <3>1. first = start[t] /\ n = days[t]
      BY <2>4
    <3> QED  BY <1>1, <2>4, <3>1
  <2> QED  BY <1>4, <2>1, <2>2, <2>3, <2>4
<1>6. UNCHANGED <<clock, files, snapshots>>
  BY DEF TimelineStore, world
<1>7. \A first \in Instant, n \in 1 .. MaxDays :
          timelines'[<<first, n>>].expires > 0 => Complete(timelines'[<<first, n>>].shots, first, n)
  BY <1>5
<1> QED  BY <1>4, <1>6, <1>7 DEF Caches, Complete, Matches, HourOf

-----------------------------------------------------------------------------
LEMMA InitIInv == Init => IInv
<1> SUFFICES ASSUME Init PROVE IInv
  OBVIOUS
<1>1. 0 \in Instant /\ 1 \in 1 .. MaxDays /\ <<>> \in Shots /\ 0 \in 0 .. MaxClock + TicksPerDay
      /\ Len(<<>>) = 0 /\ 0 \in 0 .. MaxClock
  <2>1. 0 \in 0 .. MaxClock + TicksPerDay /\ 0 \in 0 .. MaxDays - 1
    BY DayIsPositive, ScaleAssumption
  <2>2. 0 + 0 * TicksPerDay \in Instant
    BY <2>1, DaysAhead
  <2> QED  BY <2>1, <2>2, DayIsPositive, ScaleAssumption DEF Shots
<1>2. Absent \in Snapshot /\ Absent.expires = 0 /\ NoTimeline \in Timeline /\ NoTimeline.expires = 0
  BY <1>1 DEF Absent, Snapshot, NoTimeline, Timeline
<1>3. Caches
  BY <1>1, <1>2 DEF Init, Caches
<1>4. NoReply \in [code : Code, shots : Shots] /\ NoReply.code = "none"
  BY <1>1 DEF NoReply, Code
<1>5. \A t \in Thread : Request(t)
  BY <1>1, <1>4, ScaleAssumption
     DEF Init, Request, Underway, Matches, Answered, Attesting, Obtaining
<1>6. Requests
  BY <1>1, <1>4, <1>5 DEF Init, Requests, Label, Kind
<1> QED  BY <1>3, <1>6 DEF IInv

(* A request begins with nothing obtained and nothing answered.            *)
LEMMA ArriveStep ==
    ASSUME Caches, Requests, NEW t \in Thread, NEW k \in Kind, NEW n \in 1 .. MaxDays,
           NEW first \in 0 .. MaxClock + TicksPerDay, k # "timeline" => n = 1, Arrive(t, k, n, first)
    PROVE  Requests'
<1>1. NoReply \in [code : Code, shots : Shots] /\ NoReply.code = "none"
      /\ <<>> \in Shots /\ Len(<<>>) = 0
  BY DEF NoReply, Code, Shots
<1>2. /\ pc' \in [Thread -> Label] /\ kind' \in [Thread -> Kind] /\ days' \in [Thread -> 1 .. MaxDays]
      /\ start' \in [Thread -> 0 .. MaxClock + TicksPerDay] /\ soFar' \in [Thread -> Shots]
      /\ outage' \in [Thread -> BOOLEAN] /\ reply' \in [Thread -> [code : Code, shots : Shots]]
  <2>1. /\ kind' \in [Thread -> Kind] /\ days' \in [Thread -> 1 .. MaxDays]
        /\ start' \in [Thread -> 0 .. MaxClock + TicksPerDay] /\ soFar' \in [Thread -> Shots]
    BY <1>1 DEF Arrive, Requests
  <2>2. pc' \in [Thread -> Label] /\ reply' \in [Thread -> [code : Code, shots : Shots]]
    BY <1>1 DEF Arrive, Requests, Goto, Label
  <2>3. outage' \in [Thread -> BOOLEAN]
    BY DEF Arrive, Requests, Caches
  <2> QED  BY <2>1, <2>2, <2>3
<1>3. Request(t)'
  <2>1. /\ pc'[t] = IF k = "timeline" THEN "tlContains" ELSE "contains"
        /\ kind'[t] = k /\ days'[t] = n /\ soFar'[t] = <<>> /\ reply'[t].code = "none"
        /\ outage'[t] = ~files /\ files' = files
    BY <1>1 DEF Arrive, Requests, Goto, world
  <2>2. Underway(t)'
    BY <1>1, <2>1, ScaleAssumption DEF Underway, Matches, Obtaining
  <2> QED  BY <2>1, <2>2 DEF Request, Answered, Attesting
<1>4. ASSUME NEW u \in Thread, u # t PROVE Request(u)'
  <2>1. /\ pc'[u] = pc[u] /\ kind'[u] = kind[u] /\ days'[u] = days[u] /\ start'[u] = start[u]
        /\ soFar'[u] = soFar[u] /\ reply'[u] = reply[u] /\ outage'[u] = outage[u] /\ files' = files
    BY <1>4 DEF Arrive, Requests, Goto, world
  <2> QED  BY <2>1 DEF Requests, Request, Underway, Answered, Attesting
<1> QED  BY <1>2, <1>3, <1>4 DEF Requests

LEMMA StepIInv == IInv /\ [Next]_vars => IInv'
<1> SUFFICES ASSUME Caches, Requests, [Next]_vars PROVE Caches' /\ Requests'
  BY DEF IInv
<1>a. ASSUME UNCHANGED <<world, snapshots, timelines>> PROVE Caches'
  BY <1>a DEF Caches, world
<1>b. ASSUME NEW t \in Thread
      PROVE  /\ soFar[t] \in Shots /\ days[t] \in 1 .. MaxDays /\ kind[t] \in Kind
             /\ Underway(t) /\ Attesting(t) /\ <<>> \in Shots
  BY DEF Requests, Request, Shots
<1>1. CASE Tick
  <2>1. clock' \in 0 .. MaxClock /\ clock < clock'
    BY <1>1, ScaleAssumption DEF Tick, Caches
  <2>2. \A h \in Hour : snapshots[h].expires > 0 => snapshots[h].expires <= clock' + TicksPerHour
    <3>1. \A h \in Hour : snapshots[h].expires \in Nat
      BY DEF Caches, Snapshot
    <3>2. clock \in Nat /\ clock' \in Nat /\ TicksPerHour \in Nat
      BY <2>1, ScaleAssumption DEF Caches
    <3> QED  BY <2>1, <3>1, <3>2 DEF Caches
  <2>3. Caches'
    BY <1>1, <2>1, <2>2 DEF Tick, Caches
  <2>4. Requests'
    BY <1>1 DEF Tick, request, Requests, Request, Underway, Answered, Attesting
  <2> QED  BY <2>3, <2>4
<1>2. CASE FilesChange
  <2>1. Caches'
    BY <1>2 DEF FilesChange, Caches
  <2>2. ASSUME NEW t \in Thread PROVE Request(t)'
    <3>1. outage'[t] = FALSE
      BY <1>2 DEF FilesChange, Requests, Request, Attesting
    <3> QED  BY <1>2, <3>1
                DEF FilesChange, request, Requests, Request, Underway, Answered, Attesting
  <2>3. outage' \in [Thread -> BOOLEAN]
    BY <1>2 DEF FilesChange, Requests
  <2> QED  BY <1>2, <2>1, <2>2, <2>3 DEF FilesChange, request, Requests
<1>3. ASSUME NEW t \in Thread, ArriveNow(t) \/ ArriveState(t) \/ \E i \in 0 .. MaxClock : ArriveAt(t, i)
      PROVE  Caches' /\ Requests'
  <2>1. 1 \in 1 .. MaxDays /\ \A i \in 0 .. MaxClock : i \in 0 .. MaxClock + TicksPerDay
    BY ScaleAssumption, DayIsPositive
  <2>2. clock \in 0 .. MaxClock
    BY DEF Caches
  <2>3. PICK k \in {"now", "state"}, i \in 0 .. MaxClock : Arrive(t, k, 1, i)
    BY <1>3, <2>2 DEF ArriveNow, ArriveState, ArriveAt
  <2> QED  BY <1>a, <2>1, <2>3, ArriveStep DEF Kind, Arrive
<1>4. ASSUME NEW t \in Thread, NEW n \in 1 .. MaxDays, ArriveTimeline(t, n)
      PROVE  Caches' /\ Requests'
  <2>1. Noon(clock) \in 0 .. MaxClock + TicksPerDay
    BY NoonIsNear DEF Caches
  <2> QED  BY <1>4, <1>a, <2>1, ArriveStep DEF ArriveTimeline, Arrive, Kind
<1>5. ASSUME NEW t \in Thread, Contains(t) PROVE Caches' /\ Requests'
  <2>1. PICK label \in {"get", "build"} : Goto(t, label)
    BY <1>5 DEF Contains
  <2> QED  BY <1>5, <1>a, <1>b, <2>1, GotoStep DEF Contains, world, Label, Obtaining, Underway
<1>6. ASSUME NEW t \in Thread, Get(t) PROVE Caches' /\ Requests'
  <2> DEFINE entry == snapshots[CacheKey(Dt(t))]
  <2>1. CASE Live(entry) /\ Deliver(t, entry.at)
    <3>1. pc[t] \in Obtaining /\ pc[t] \in {"get", "store"}
      BY <1>6 DEF Get, Obtaining
    <3>2. CacheKey(Dt(t)) \in Hour
      BY <3>1, DtIsInstant
    <3>3. entry.at \in Instant /\ HourOf(entry.at) = HourOf(Dt(t))
      BY <2>1, <3>2 DEF Caches, Snapshot, Live, CacheKey
    <3> HIDE DEF entry
    <3> QED  BY <1>6, <1>a, <2>1, <3>1, <3>3, DeliverStep DEF Get, world
  <2>2. CASE Answer(t, "500", <<>>)
    BY <1>6, <1>a, <1>b, <2>2, AnswerStep DEF Get, world, Code
  <2> QED  BY <1>6, <2>1, <2>2 DEF Get
<1>7. ASSUME NEW t \in Thread, Build(t) PROVE Caches' /\ Requests'
  <2>1. CASE Goto(t, "store") /\ UNCHANGED <<soFar, reply>>
    BY <1>7, <1>a, <1>b, <2>1, GotoStep DEF Build, world, Label, Obtaining, Underway
  <2>2. CASE Answer(t, "503", <<>>)
    BY <1>7, <1>a, <1>b, <2>2, AnswerStep DEF Build, world, Code
  <2> QED  BY <1>7, <2>1, <2>2 DEF Build
<1>8. ASSUME NEW t \in Thread, ComputeFails(t) PROVE Caches' /\ Requests'
  BY <1>8, <1>a, <1>b, AnswerStep DEF ComputeFails, world, Code
<1>9. ASSUME NEW t \in Thread, Store(t) PROVE Caches' /\ Requests'
  <2>1. Dt(t) \in Instant /\ CacheKey(Dt(t)) \in Hour
    BY <1>9, DtIsInstant DEF Store, Obtaining
  <2>2. Caches'
    BY <1>9, <2>1, PutStep DEF Store
  <2>3. Requests'
    BY <1>9, <2>1, DeliverStep DEF Store, world
  <2> QED  BY <2>2, <2>3
<1>10. ASSUME NEW t \in Thread, StoreRace(t) PROVE Caches' /\ Requests'
  BY <1>10, <1>a, <1>b, AnswerStep DEF StoreRace, world, Code
<1>11. ASSUME NEW t \in Thread, Quality(t) PROVE Caches' /\ Requests'
  <2>1. CASE files /\ Answer(t, "ok", soFar[t])
    <3>1. Complete(soFar[t], start[t], days[t]) /\ ~outage[t]
      BY <1>11, <1>b, <2>1 DEF Quality, Underway, Attesting, Complete
    <3> QED  BY <1>11, <1>a, <1>b, <2>1, <3>1, AnswerStep DEF Quality, world, Code
  <2>2. CASE Answer(t, "503", <<>>)
    BY <1>11, <1>a, <1>b, <2>2, AnswerStep DEF Quality, world, Code
  <2> QED  BY <1>11, <2>1, <2>2 DEF Quality
<1>12. ASSUME NEW t \in Thread, TimelineContains(t) PROVE Caches' /\ Requests'
  <2>1. PICK label \in {"tlGet", "tlNext"} : Goto(t, label)
    BY <1>12 DEF TimelineContains
  <2>2. kind[t] = "timeline"
    BY <1>12, <1>b DEF TimelineContains, Underway
  <2> QED  BY <1>12, <1>a, <2>1, <2>2, GotoStep DEF TimelineContains, world, Label, Obtaining
<1>13. ASSUME NEW t \in Thread, TimelineGet(t) PROVE Caches' /\ Requests'
  <2> DEFINE entry == timelines[TimelineKey(start[t], days[t])]
  <2>1. CASE Live(entry) /\ Answer(t, "ok", entry.shots)
    <3>1. start[t] \in Instant /\ days[t] \in 1 .. MaxDays /\ kind[t] = "timeline"
      BY <1>13, <1>b, StartIsInstant DEF TimelineGet, Underway
    <3>2. entry.shots \in Shots /\ Complete(entry.shots, start[t], days[t])
      <4>1. <<start[t], days[t]>> \in Instant \X (1 .. MaxDays)
        BY <3>1
      <4>2. entry \in Timeline /\ entry.expires > 0
        BY <2>1, <4>1 DEF Caches, TimelineKey, Timeline, Live
      <4> QED  BY <3>1, <4>2 DEF Caches, TimelineKey, Timeline
    <3> HIDE DEF entry
    <3> QED  BY <1>13, <1>a, <2>1, <3>1, <3>2, AnswerStep DEF TimelineGet, world, Code
  <2>2. CASE Answer(t, "500", <<>>)
    BY <1>13, <1>a, <1>b, <2>2, AnswerStep DEF TimelineGet, world, Code
  <2> QED  BY <1>13, <2>1, <2>2 DEF TimelineGet
<1>14. ASSUME NEW t \in Thread, TimelineDay(t) PROVE Caches' /\ Requests'
  BY <1>14, <1>a, GotoStep DEF TimelineDay, world, Label
<1>15. ASSUME NEW t \in Thread, TimelineStore(t) PROVE Caches' /\ Requests'
  <2>1. Complete(soFar[t], start[t], days[t]) /\ kind[t] = "timeline"
    BY <1>15, <1>b DEF TimelineStore, Assembled, Underway, Complete
  <2>2. Requests'
    BY <1>15, <1>b, <2>1, AnswerStep DEF TimelineStore, world, Code
  <2> QED  BY <1>15, <2>2, TimelinePutStep
<1>16. ASSUME NEW t \in Thread, TimelineStoreRace(t) PROVE Caches' /\ Requests'
  BY <1>16, <1>a, <1>b, AnswerStep DEF TimelineStoreRace, world, Code
<1>17. CASE UNCHANGED vars
  BY <1>17 DEF vars, world, request, Caches, Requests, Request, Underway, Answered, Attesting
<1> QED  BY <1>1, <1>2, <1>3, <1>4, <1>5, <1>6, <1>7, <1>8, <1>9, <1>10, <1>11, <1>12,
            <1>13, <1>14, <1>15, <1>16, <1>17 DEF Next

-----------------------------------------------------------------------------
(* The types of the module, in its own words.                              *)
LEMMA Typing == IInv => TypeOK
<1> SUFFICES ASSUME IInv PROVE TypeOK
  OBVIOUS
<1>1. start \in [Thread -> Instant]
  BY StartIsInstant DEF IInv, Requests
<1>2. \A t \in Thread : Len(soFar[t]) <= days[t] /\ soFar[t] \in Seq(Instant)
  BY DEF IInv, Requests, Request, Underway, Shots
<1>3. \A k \in DOMAIN timelines : timelines[k].expires \in Nat /\ timelines[k].shots \in Seq(Instant)
  BY DEF IInv, Caches, Timeline, Shots
<1> QED  BY <1>1, <1>2, <1>3 DEF IInv, Caches, Requests, TypeOK, Snapshot, Code

(* Whatever other requests store or evict meanwhile, every cached snapshot *)
(* is of its hour and young enough, and /now and /state show the sky of    *)
(* the hour they were asked for.                                           *)
THEOREM RightHour == Spec => []SnapshotsOK
<1>1. IInv => SnapshotsOK
  <2> SUFFICES ASSUME IInv PROVE SnapshotsOK
    OBVIOUS
  <2>1. CacheOK
    BY Typing DEF CacheOK, IInv, Caches
  <2>2. ASSUME NEW t \in Thread, reply[t].code = "ok", kind[t] # "timeline"
        PROVE  HourOf(reply[t].shots[1]) = HourOf(start[t])
    <3>1. Len(reply[t].shots) = 1 /\ Matches(reply[t].shots, start[t]) /\ start[t] \in Int
      BY <2>2, StartIsInstant DEF IInv, Requests, Request, Underway, Answered, Complete
    <3>2. start[t] + (1 - 1) * TicksPerDay = start[t]
      BY <3>1, DayIsPositive
    <3> QED  BY <3>1, <3>2 DEF Matches
  <2> QED  BY <2>1, <2>2 DEF SnapshotsOK, SkyOfTheHour
<1> QED  BY InitIInv, StepIInv, <1>1, PTL DEF Spec

(* A timeline has the days asked for, each in the noon hour of its day,    *)
(* from whichever requests and entries its parts come.                     *)
THEOREM Timelines == Spec => []TimelineComplete
<1>1. IInv => TimelineComplete
  BY DEF IInv, Requests, Request, Answered, Complete, Matches, TimelineComplete
<1> QED  BY InitIInv, StepIInv, <1>1, PTL DEF Spec

(* /now never attests SWIEPH during an outage, not even on a cache hit.    *)
THEOREM LiveFiles == Spec => []NowAttestsLiveFiles
<1>1. IInv => NowAttestsLiveFiles
  BY DEF IInv, Requests, Request, Attesting, NowAttestsLiveFiles
<1> QED  BY InitIInv, StepIInv, <1>1, PTL DEF Spec
=============================================================================
