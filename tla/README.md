# FuFirE engine: a TLA+ verification project

The FuFirE engine (`bazi_engine`) is one FastAPI process that computes Chinese
and Western charts. Most of its endpoints are synchronous and run in a thread
pool, some are coroutines of one event loop, and they share module-level caches,
a key store, a memoised factory and the Swiss Ephemeris C library. The
calculators are pure functions of the request and the ephemeris, and consist of
calendar rules whose difficulty is all in the boundaries: solar terms, new moons,
day and hour boundaries, clock changes, leap days. The endpoints compose them,
each in its own way, and are asked about the same birth one after another.

The project has three parts accordingly: state machines of what is *shared*
(interleavings, crashes, expiry, failing upstreams); models of the *calculators*
that walk through births and days one after another and ask whether the answers
fit together; and a model of the *readings*, in which a client asks the endpoints
about one birth and what they say is held against each other. TLC checks all of
it on small instances; TLAPS proves the statements that matter most for every
value of the constants.

Contents: 1 inventory, 2 modules and how they correspond to the code, 3 runs and
bounds, 4 fairness, 5 theorems, 6 findings, 7 what is not modelled, 8 plan.

## 1. Inventory

Paths are relative to `src/bazi_engine`. "S" says where something is shared.

| component | state | operations | hard behaviour | what makes it correct |
|---|---|---|---|---|
| Key store `key_store.py` | S: `_by_key`, `_by_jti`, one lock | `issue`, and the unlocked readers `is_valid`, `tier_of`, `find_by_jti` | threads interleave between statements; readers see half an `issue`; unmintable tier raises inside the lock | one key per jti for ever; no valid key without its jti; linearizable |
| API key service `auth.py`, `routers/admin.py`, `config_guard.py` | S: the `lru_cache` of `get_key_store`; environment | `require_api_key`, `POST /v1/admin/keys`, start-up guard | first calls race through the memo; issuance on the loop beside authentication in threads; restart loses the store | an issued key is accepted; accepted keys are known; production never answers unauthenticated |
| Rate limiting `limiter.py` | counters of slowapi (Redis or memory) | per-key limit of a tier | Redis unreachable | the limit is that of the key's tier |
| Swiss Ephemeris access `ephemeris.py`, `western.py`, `jieqi.py` | S: library-wide path, open files, sidereal mode; one lock | construct backend, `calc_ut`, `houses`, `solcross_ut`, ayanamsa | files vanish after the check; another thread closes them; planets fail one by one; set/read/reset of the sidereal mode | no Moshier position passes for Swiss Ephemeris; outages are errors; nobody reads another's ayanamsa |
| Transit `transit.py`, `routers/transit.py` | S: `_transit_cache` (64, 1 h), `_timeline_cache` (16, 1 d), no lock | `/transit/now`, `/state`, `/timeline` | test-then-read of expiring entries; slow writers; TTLCache is not thread-safe; outage behind a cache hit | an answer is of its hour; a timeline has all its days; `/now` does not attest missing files |
| Space weather `services/space_weather.py` | S: TTLCache of one entry (15 min) | `fetch_space_weather`: two gathered HTTP calls | concurrent misses, half-failed gather, late results | defaults are flagged; the service recovers |
| Geocoding `services/geocoding.py`, `routers/geocode.py`, `personalize.py` | S: dictionary with expiry, at most 1024 entries | `geocode_candidates`, `geocode_place`, confidence gate | the cap is tested after an await; cached lists are mutable; populations unknown or negative | answers are what upstream said; failures are not cached; no resolution of an ambiguous name |
| Local time `time_utils.py` | none | `resolve_local_iso`, `resolve_local_instant`, `parse_local_iso` | gaps, repeated hours, zones that skip a day, ends of the calendar; time is parsed twice | the resolved time exists, honours the policy, and is the instant the engine computes for |
| Four pillars `bazi.py`, `jieqi.py`, `time_context.py`, `bazi_rules.py` | none | `compute_bazi`, derivation trace | three clocks, two day boundaries, ruleset or fallback, LiChun and jie found by searches | pillars follow the sun and the cycle; trace and fallback agree |
| Da-Yun `dayun/`, `routers/dayun.py` | none | decades, current decade | leap-day births, centuries, rounded ages against calendar dates | decades continue and meet; the current one moves on by one |
| Lunisolar calendar `zwds/calendar_provider.py`, `astro_moon.py` | none | `resolve` | new moons near midnight, leap months, years of thirteen months, month labels of another year | no day left out or counted twice; the leap rule |
| ZWDS chart `zwds/engine.py`, `seed.py`, `palace.py`, `bureau.py`, `decadal.py`, `stars/`, `transformations.py`, `relations.py`, `validation.py` | none | build and validate a chart | parity of stems and branches, late-zi hour, leap months, conditional request fields | charts are complete and valid; no request reaches the internal error |
| ZWDS ruleset `zwds/ruleset_repository.py` | read-only files | load and verify against a hash lock | components are read again after verification (`engine.py:137-158`) | what is used is what was verified |
| Lunar state `lunar_state.py`, `phases/`, `routers/lunar_state.py` | none | Newton search for the new moons around an instant and for a phase near one; classification, trend | the search may arrive on either side; two instants a second apart count as one; ends of the supported range | the new moons found are new moons, adjacent, and around the instant; phase, trend and age agree |
| Wu-Xing and fusion `wuxing/`, `fusion.py`, `routers/fusion.py` | none | ledgers, vectors, ke tensions, zones, calibration | zero vectors, negative cosines, missing bodies, two tables of hidden stems | totals agree between endpoints; nothing is calibrated that is not there |
| Pair analysis `match/`, `routers/match.py` | S: two counters under one lock | consent, two charts, individual and pair analyses, evidence ledger | directed relations asked either way; warnings of two persons merged; counted after the analysis | symmetry of the pair; every statement has its evidence; each delivered analysis is counted once |
| Natal, BaZi, chart, personalize, webhook (routers) | none | composition of the calculators | each resolves the time on its own; one part fails; response models | the same birth gives the same instant, pillars and vectors; a failure blames the right side |
| Chronometry `chronometry.py`, `solar_time.py` | none | time frame of a birth | unknown time of day | unknown stays visible; agreement with the chart's clocks |
| Impact `impact*.py`, `dignities.py`, `narrative.py` | uses the transits and the space weather | active planets, resonance, mood of a day | rounding at 360 degrees, dropped fields, degraded weather | what is shown of a planet follows from its aspect; degraded inputs are declared |
| Daily readings, experience `routers/experience.py`, `services/daily_*.py`, `soulprint.py`, … | none in the process; the client carries its signature | bootstrap, quiz delta, reading of a day | state that travels through the client; a part that fails is left out | one profile in every answer; a part is missing only where its endpoint fails |
| Western details `aspects.py`, `decanates_terms.py`, `fixed_stars.py` | none | angles and tables | wrap at 360 | symmetry, partition of the circle |
| BAFE validator `bafe/` | none | a second time model and validator | two implementations of one rule | agreement with the first |
| Superglue proxy, application, middleware, information, research, scripts | request-id context; none otherwise | wiring | – | – |

**Interactions.** Routers resolve the birth time (`time_utils`), build a backend
(`ephemeris`), compute a chart (`bazi`, `western`, `zwds`, `dayun`), analyse it
(`wuxing`, `fusion`, `match`, `impact`) and shape the response. Synchronous
routers run in threads and meet each other in the transit caches, the Swiss
Ephemeris library and the key store. Coroutines (geocoding, space weather,
issuance) meet in their caches at awaits only. The impact endpoints read the
transit caches *and* the space weather cache. Authentication runs as a dependency
before every protected endpoint. Only deployment configuration and the ephemeris
files outlive the process; only the client keeps what it was told.

The hazards found while reading — each with its line, and the property that
would catch it — are the 40 entries under `hazards` in `PROJECT.json`. One has no
property: a crossing of the sun (`ephemeris.py:139`) comes without flags, so the
code has nothing to check.

## 2. Modules

`MC…` modules only give constants their values. `…_proofs` modules only hold
theorems. A few operators in the modules are *broken variants* of the
definition after them (for example `LookupAlwaysMints` before `Lookup`): nothing
refers to them; `mutants` in `PROJECT.json` pairs each with the property that
fails when it takes the definition's place.

```
shared      KeyIssuance <-- refined by -- KeyStore <-- as one step -- KeyService
                                             ^
            SpaceWeather, GeocodeCache --> Services
            Ephemeris        TransitCache

calculators Sexagenary <-- GregorianDay <-- DaYun ------------+
                 ^               ^--- LunisolarCalendar <--+  v
                 +--- BaziDay <-- FourPillars ----------- BaziChart
                 +--- ZwdsChart <------------------ Zwds --+
            LocalTime, LunarState --> InstantOfMoon

readings    Sexagenary <-- WuXing <-- PairAnalysis, Fusion <-- Births (uses BaziDay)
            Births <-- Calculators <-- Prompts <-- Impact <-- Experience <-+
                            ^---- Match <----------------------------------+- Readings
```

### What is shared

**KeyIssuance** is the promise of the abstract class `KeyStore`: `issue` happens
at one instant, the first call for a jti decides its key, later ones get it back.
**KeyStore** is `InMemoryKeyStore.issue`, one action per statement (`Enter`,
`Lookup`, `Mint`, `PutKey`, `PutJti`, `Leave`, `Return`). The readers are one read
each, hence predicates (`IsValid`, `TierOf`, `FindByJti`) that must be right in
every state. `mint_key` is a choice of an unused key: 128 random bits do not
repeat.

**KeyService** is the process around the store: `Start` is `assert_runtime_config`,
`Crash` ends the process at any moment. `lru_cache` does not hold a lock while it
calls the function it wraps, so a first call has two halves, `Build` and `Built`,
and each request may get an instance no cache holds. A request's steps are the
calls it makes (`Decide`, `Check`; the two calls of the endpoint). `issue` is one
step here because of the refinement above. Outside this module: tier overrides,
the error for an unsupported backend, and the guard's checks on CORS, replicas,
Redis and the ephemeris.

**Ephemeris** models what threads share in the C library: which files are open,
the sidereal mode, and the lock in `western.py`. A backend's construction checks
the files and calls `set_ephe_path` (closing files others use); every calculation
returns flags; files vanish and come back. Positions are not modelled, only
whether they came from the files.

**TransitCache** has the three endpoints with `in` and `[]` as two steps, storing
long after the miss, expiry, eviction from both caches, and the `KeyError` that a
read after its test, or overlapping stores, can raise. A snapshot is the instant it was computed for, which fixes everything
in it.

**SpaceWeather** and **GeocodeCache** are tasks of one event loop: a task runs
alone between awaits, so an action is everything up to the next await. Callers of
the geocoder may alter the list they were given.

**Services** puts the key store and both caches side by side. They have no state
in common, so a behaviour exercises one and leaves the others as they start; their
properties are those of the three modules.

### Calculators

**LocalTime** runs the loops of `resolve_local_iso` and then the second parse, in
the ways the endpoints chain them (`caller`); `resolve_local_instant` is the
caller that stops at the resolution. A zone is one change of offset: in the IANA
data, over the 598 zones, no two changes lie closer together than their jumps
reach. `WallOffset` is `zoneinfo`'s rule, taken from how the code uses it.

**LunarState** has both searches of `lunar_state.py` round by round: the angle still
to go over the speed of the moment, until a correction is too small to be one. The
course of the Moon is a constant; `CourseOK` bounds how fast it runs. An instant is
a multiple of the second within which the code takes two for equal; in the instance
it is a fortieth of a day, which keeps the *relation* of tolerance to month coarse
on purpose (see bounds). The ephemeris may be missing (503), or the library may fail
at some instant, which `positions` turns into an error of the calculation (500).
**InstantOfMoon** is the endpoint: `LocalTime` resolves,
`LunarState` computes for the instant. The second knows nothing else of the first,
so here too a behaviour goes through one of them.

**Sexagenary** has the pillar formulas and the ruleset's tables. **GregorianDay**
has `jdn_gregorian` and a calendar that walks day by day; the Da-Yun and ZWDS
models walk on it. **BaziDay** has day and hour pillars over the civil, mean and
apparent clock for births one after another at a place whose clocks change once.
**FourPillars** adds year and month, with the jie as constants and `Jitter` for
the difference between two searches of one LiChun; `solarYear` and `monthIndex`
are what the engine answers. The equation of time is constant within a run of the
model. `ruleset` says whether the ruleset was loaded or is missing (or has another
name), where the engine falls back. A ruleset that is there but unreadable or no
JSON object raises `PackageResourceIntegrityError`, which `_load_ruleset_or_none`
(`bazi.py:67-71`) does not catch: the request ends in a 500 before it has a pillar,
so the model has no chart, hence no state, for it.

**DaYun** asks about one birth on every day of its life. Times are whole minutes;
ties of `round(age, 2)` and float effects below a minute are abstracted. Its
anchor is the nearest of all 24 solar terms, as in the code. **BaziChart** holds
the pillars of births and the decades that start from a month pillar.

**LunisolarCalendar** has every search and rule of `SwissephLunisolarCalendar`
over given new moons and solar terms, including its margins (0.02 days, a day
back, 30.5 days on). Only the bisection on the elongation is replaced by the
instant it converges to. The terms are a table in which every twelfth is a winter
solstice. **ZwdsChart** has the palaces, bureau, stars,
transformations, relations, decades and `validate_chart_graph`. **Zwds** composes
both: late-zi rule, calendar seed, request conditionals. The year stem here turns
with the lunar year, BaZi's with LiChun: that is the code's intention, not a
disagreement.

### Readings

A birth (**Births**, `BirthType`) is a wall time, a place whose clocks change
once, its LiChun, and where the sun, the other bodies and the ascendant stand
around it; a body may be one the ephemeris fails on, and a place may have no
houses. Every endpoint is an operator from a birth, the request and the ephemeris it
meets to a status and a body. A request constructs a backend for each of its parts, so
what it meets (`Ephemeris`) is the mode configured and the set of `Uses` for which the
files were gone: the pillars, those of the other person, the chart of the sky, the mode
that is shown, the frame of chronometry, the transits of the day, an impact, a solar
term. `Found(eph, use)` is what one backend found. Exceptions are values (`Raised`,
`Returned`), and `Then` and `Respond` are the order in which the code runs into
them: what is caught, what is turned into another status, and what reaches the
handlers of `error_handlers.py` (`StatusOf`). A response is held against its
response model (`Served`), because the framework does that and answers 500.

- **WuXing**: stems, hidden stems and bodies to ledgers and vectors; ke tensions;
  zones. Pillars count tenths, bodies millionths, in which the code's rounding is
  exact.
- **PairAnalysis**: `match/` from normalisation to blocks, warnings and evidence.
- **Fusion**: cosine, calibration against the baseline table, bands, text, vector
  map. Integer hundredths and thousandths; lengths are rounded down (`Root`).
- **Calculators**: `/calculate/bazi` with trace and Wu-Xing, `natal`, `wuxing`,
  `fusion`, vector map, `tst`, `/chart`; the ten gods of `dayun/relation.py`.
- **Prompts**: chronometry, personalize, the voice agent's webhook.
- **Impact**: the planets of a day against a birth, their weights, resonance, mood
  of the day. Longitudes are thousandths of a degree, so that what is rounded to
  hundredths when it is shown, or to tenths before it is used, can become 360.0; **Experience**: bootstrap, quiz delta, reading of a day.
- **Match**: consent, both charts, classes of callers.

**Readings** composes them. `answers` is what the client has been told, by
question; the questions of the quiz and of the day send back what bootstrap told.
Which files are lost to a request is chosen with each question (`Outages`), among the
uses that question has (`UsesOf`); so files may go and come back between two questions
and between two parts of one. `consents` and `counts` are what the pair analysis logs;
`counts` goes up when both charts are there, before the response is built, as in the
code. The module's properties read two answers at a time.

Operators that TLC asks again and again are wrapped in `Tabulated(f)`, which *is*
`f`: in deciding that, TLC computes each value, once.

## 3. Runs

| run | states | what it shows |
|---|---|---|
| `key_service` | 1 336 983 | one store is used by all, issued keys are accepted, accepted ones known; production authenticates |
| `ephemeris` | 254 092 | what a response shows is attested by its own results; own ayanamsa |
| `transit_cache` | 702 865 | answers of the right hour, complete timelines, no false attestation |
| `services` | 135 332 | no orphan keys and the refinement of the abstract issuer; both caches within their lifetimes and caps; defaults are flagged and leave for good; answers of the geocoder are upstream's, and never an overshadowed place |
| `instant_of_moon` | 540 286 | resolved times exist, keep the policy and are one instant throughout; new moons and phases are the right ones, and refused only right before a new moon |
| `bazi_chart` | 202 119 | pillars against sun, cycle, fallback and trace; decades run on and become current in turn; days run on |
| `zwds` | 19 710 | the lunar calendar runs on; the leap rule; charts are complete |
| `readings` | 67 270 | errors blame the right side; one instant, one chart, one set of vectors in every answer; ten gods by two codes; mirrored pairs; complete evidence; counted demand; honest fusion; unknown times visible; the app's own state agrees |
| `local_time_range` | violation | out-of-range birth times can end in a 500 |
| `new_moon_second` | violation | just before a new moon the Moon's state is a 500 |
| `four_pillars_fold` | violation | in a repeated hour the month may be the wrong one |
| `webhook` | violation | the voice agent's request ends in a 500 |

**What the properties of `readings` compare.** `ErrorsTruthful` says of *every*
answer which statuses have a reason and that an answer without a reason for
failure is a 200: 422 for what the client can mend, 503 for files missing in any part
of the request, 500 for a place without houses or a longitude, of the birth or of the
day, rounded up to 360. One exception is named (`BlamedOnClient`): `/impact/active`
answers 422 when the files are missing for the chart of the sky. And what is passed over
without a refusal (planets left out of a day, a solar term told without the ephemeris,
an unknown keyword) does little harm. `MatchAccounted` says that the pairs counted are
those nothing stood in the way of, and `ErrorsTruthful` that these are the ones
delivered: together, that nothing counted fails its response model. `OneInstant`,
`LedgersAgree` and `TenGodsAgree` compare computations the code does twice or
three times: the instant resolved by each router and again by the engine, hidden
stems from three tables, the ten gods from two codes, phases from three tables of
cycles. `PairMirrored` asks the same pair in both orders. `AppAgrees` compares
what bootstrap, the quiz, the day and `/impact/active` say, with the signature
going through the client.

**Bounds and why they are enough.**

- Two threads or tasks in every concurrent model. The hazards are pairwise: a
  lookup against a store, a first call against a first call. A third party only
  repeats one of the roles. For every concurrent model the proofs remove the
  bound.
- `key_service`: two authenticating requests beside one issuance, two process
  lives (`MaxBoots`), so that a key outlives the process that made it; all 64
  environments at each start. Symmetry over threads and over minted keys: both
  are used by equality alone, and no liveness is checked.
- `transit_cache`: an hour of two ticks and a day of two hours, so two instants of
  an hour, two hours of a day, and a second day are all different. The snapshot
  cache holds one entry, so every store of another hour evicts. `MaxClock` lets an
  hour and a snapshot's life pass during requests. It stops before a *timeline*
  entry expires, but the timeline cache holds one entry too (16 in the code), so a
  timeline found may be gone when it is read, and overlapping stores of two
  timelines may both evict.
- `services`: two jtis (independent and equal), two nonces, one tier that cannot
  be minted beside two that can. No bound on time or on the number of failures;
  `Ttl = 2` tells a fresh entry from an old one. A cache of one place in two
  languages with a cap of one entry (every second key is over the cap, and a key
  must have both parts), and rankings that reach every outcome of the confidence
  rule: none, exactly at 0.6, equal, unknown and negative populations. While one
  object is exercised the others keep the first of their initial states.
- `instant_of_moon`: every change of offset by up to eight units, against a minute
  of two units (so that a gap can end off the caller's grid) and a limit of two
  shifts (so that gaps exceed it), in a calendar hardly wider than the times asked
  for (so that every conversion overflows somewhere). Four courses of the Moon,
  each starting elsewhere on its anomaly, at every fortieth of a day of 32 days:
  more than a whole month, so every instant of a lunation and every phase is asked
  for. One unit is the tolerance; the real one, a second, is smaller against a
  month, so the instants at which it matters are rarer in the code than in the
  model, and of the same kind.
- `bazi_chart`: births every thirty minutes for 25 hours to either side of a jie,
  one LiChun and one New Year; clocks changed around them by up to a day; a zone
  thirteen hours from its sun. Then every day of 46 years containing 1900, for
  births on 29 February, at a solar term, and at both ends of the day at both ends
  of the world; three decades, so that one begins and one ends between others.
- `zwds`: nine times of every day of 2033 and 2034, through the leap month 11 of
  2033, a new moon 14 minutes after local midnight (2034-09-12 16:14 UTC in the
  frame of UTC+8), and three frames. Moon and Sun are mean-element series good to
  some minutes, constants of the model. In a place whose clocks change, two births
  are counted in two frames, and a lunar day may repeat or be skipped between
  them: the run keeps one frame, as each single request does.
- `readings`: four births (a plain time; an hour that comes twice with LiChun
  between; an hour left out at midnight; a place without houses just before
  LiChun and after 23:00), nine pairs of birth and request that cover the three
  standards, both boundaries, both policies and an unknown time; the ephemeris by
  configuration `SWIEPH` or `MOSEPH`. Some fifty questions, with parameters that
  reach each of an endpoint's branches. Two answers are kept (`MaxAnswers`),
  because every property relates at most two, and one of them (`MaxOutages`) may have
  met an outage, of any one use or of both that a day's reading can do without. Without
  any other use an endpoint fails, and a failure is not compared with another answer. A third could not see more: an endpoint keeps nothing, apart from
  the profile of bootstrap, which is one of the two. The validation block of
  `/chart` is asked for under one policy only; the validator gets no valid request
  whatever the policy.

`CHECK_DEADLOCK FALSE` stands where the system may really stop: a resolved
request, the last day of a walk, a process that has had its last start, a client
that asks nothing more.

## 4. Fairness

Only `SpaceWeather` has liveness (`Recovers`), and `ServicesSpec` uses its
`Fairness`: time passes (`Tick`), a fetch ends (`Fetch`: the HTTP client has a
timeout of five seconds, and every failure becomes a value), and the event loop
resumes a task whose awaited fetches are done (`Finish`). Nothing is assumed of
the endpoints, of calls arriving, or of the client library failing. The entry's
expiry is what removes degraded data; the property holds even if nobody calls
again, and vacuously where another object is exercised. The other components are
safety only: there is no background work in them.

## 5. Theorems

Some 15 600 obligations, all checked, under 43 listed theorems. They are about the
specifications the runs check: of every action property and invariant of
`key_service`, `ephemeris`, `transit_cache`, `bazi_chart` and `zwds`, of all but the
liveness of `services`, of all but `RefusalOK` in `instant_of_moon`, and of all but
`ErrorsTruthful` in `readings`.
**Calendar_proofs** holds what two of the modules share: the least number of a set,
the Gregorian calendar, the cycle of sixty.

- **KeyService_proofs.** `Honoured`, `Production`, for any threads, admin calls,
  keys and process lives. The argument is about the memo that holds no lock:
  nobody gets past a first call of `get_key_store` before the cache is filled, so
  what a *second* call returns is the cached store, and only second calls touch
  keys (`Memo`). The cached store then holds exactly what was handed out, and no
  other store holds more (`Ledger`); a crash empties both. Assumed: requests and
  issuances are different calls, "no key" is not a key.
- **TransitCache_proofs.** `RightHour`, `Timelines`, `LiveFiles`, for any threads,
  cache sizes, lengths of an hour and a day, and lives of entries. What is said of
  answers rests on what is said of both caches *and* of what a thread carries from
  its miss to its store: a snapshot it computed is stored under the hour of its own
  instant, however late, and a part of a timeline has the noon of its own day,
  whether it came from the snapshot cache or was computed. An entry is never
  changed, only replaced or dropped, so expiry and eviction between `in` and `[]`
  can only turn an answer into a `KeyError`. Assumed: an hour has at
  least one tick and a day at least one hour.
- **Services_proofs.** `Safety`, `Idempotence` and `Refinement` are about the key store, for any threads,
  jtis, nonces and tiers. `NoOrphanKey` is not inductive; `IInv` adds mutual
  exclusion, what a thread holds between minting and registering (`PendingOK`),
  the other direction of the dictionaries' agreement and what is about to be
  returned. The refinement maps a call to the moment it finds its jti or writes
  `_by_jti`. Assumed: `None` is no key and no record, the mintable tiers are tiers.
  `KeysAsPromised` carries this to the process with its other objects.
  `CachesBounded`, `DefaultsFlagged`, `UpstreamAnswers` and
  `NotOvershadowed` are for any tasks, names, languages, rankings, caps and lives of
  entries. What is said of the answers is not inductive: a hit answers from the
  entry, so the same must be true of the entry, whichever task stored it and with
  whatever default in it; and of what a task holds across its awaits. The cap holds
  although many tasks may have missed before one stores, because each tests it
  again when it stores, and a full cache is emptied. Assumed: entries live for a
  tick at least, the cap is one at least, a ranking is a list of numbers and
  `Unknown`.
- **InstantOfMoon_proofs.** `PolicyFollowed`, `InstantPreserved`,
  for any change of offset, wall time, policy and calendar. A wall time fails the
  round trip exactly in the gap; past the gap both folds read one offset, so it does
  not matter that a time resolved with fold 0 is parsed with the fold of the policy.
  Assumed: one change of offset near the birth.
  `LunationFound`, `PhaseNamed`, for any course of the Moon, instant and tolerance. A
  search has a goal: the turn of the circle the instant is in, or the next, or the
  nearest event. Its first guess and every correction divide by the speed of the moment,
  and the Moon is never faster than seven fifths of that speed nor slower than five
  sevenths; so each leads, from within a turn of the goal, to within half a turn of it
  (`Approach`), where the wrapped angle is the way still to go. That is the invariant
  (`MoonInv`), and a search that ends has hit its goal. The new moon of the
  instant's own turn then is never after it, so the code's search for an earlier one is
  never needed; the interval measured is one lunation, or two when the next new moon is
  within the tolerance, and two fail the test. `RefusedOnlyThere` is what is left of
  `RefusalOK` without convergence: a failure is that, or a search that ran out of rounds.
  Assumed (`CourseOK`): speeds between two bounds, the larger at most seven fifths of
  the smaller (the Moon gains 10.7 to 14.5 degrees a day on the Sun: a ratio of 1.36); a
  month is three quarters of a turn at the lower bound at least, five quarters at the
  upper at most; 20 days are less than a turn, and 40 days more than one and less than
  two; a hundredth of a turn takes an instant at least; and the course goes on for six
  months beyond the calendar. TLC evaluates all of it for the
  courses of the run.
- **BaziChart_proofs.** All eight properties of the run, for any place, clock change,
  longitude, equation of time, table of solar terms, birth, number of decades and
  span of years.
  `DayFollowsTheSun` and `HoursFollowOneAnother`: day and hour are both read off one
  number, the double hours a solar clock has counted.
  `MonthsBySun`: outside a repeated hour the order of wall times is that of
  instants (`ClockInOrder`), so the jie counted by the clock are those the sun has
  passed; LiChun is the one jie of its year (`LiChunOfYear`), and when a second
  search puts it elsewhere the month before goes on. `PillarsSound`: the tables of
  the ruleset are the fallback's formulas, row by row.
  `DayRunsOn`: a day number counts the days before a month in years that begin in
  March plus the leap days so far, so the first of a month follows the last of the
  one before whatever its length.
  `LifeRunsOn`, `DecadesFollow`: the current decade is chosen by ages rounded to
  hundredths, so a decade is counted off after whole minutes that can be named
  (`DecadeCountedOff`), in order and without a gap; its dates are ten birthdays
  apart, 3651 to 3653 days.
  `CurrentByItsDates`: between two birthdays the calendar's leap days and those of
  mean years differ by at most 2.2 (`LeapDrift`, over the 400 years of the
  calendar), and rounding, time of day and offset make it less than six days.
  Six is what the code allows: a birth on 1696-03-01 at the western end of the world
  reaches it (the 46 years of the run stay within three).
  Assumed, besides types: the jie are in order and more than a day apart, and the New
  Year lies between the last two of its twelve (`MonthAssumption`,
  `SpanAssumption`); clocks within a day of UTC, births inside the table; offsets of
  at most 14 hours, a solar term before and one after each birth, a month pillar of
  one polarity, and at most twelve decades, the endpoint's own limit
  (`LifeAssumption`).
- **Zwds_proofs.** All three properties of the run, for any frames, times of birth,
  range of years, and course of the Moon and the Sun within the assumptions.
  *Days and lunations* (`OwnerFound`, `DaysOfTheMonth`, `DaysRunOn`): the search's two
  inequalities enclose one lunation only; from the end of a day that is the owner or,
  because of the margin, the next lunation, and one step back is then enough, which
  is what the comment at the code's loop ("runs at most once") claims.
  *The span from one winter solstice to the next* (`TwelveOrThirteen`,
  `OneHasNoTerm`, `MonthsOfSpan`): it is 365 or 366 days, hence twelve or thirteen
  lunations. Thirteen cannot all have a term, since there are eleven between the
  solstices: look at the least lunation up to which there are fewer terms than
  lunations. So the leap month exists wherever the code looks for one, is not the
  last of its span, and with it the first month and all numbers are decided
  (`NumbersRunOn`). The first month begins after the solstice and at most ninety days
  on, which gives its year (`YearOfSpan`), and the date of a day can be written
  without a search (`LunarDateIn`, `ResolveIn`).
  `LeapRuleFollowed`, `LunarDatesRunOn`: inside a span a date follows from the one
  before by its numbers. Where two spans meet, the month of the solstice has days
  that are asked about in one span and days that are asked about in the other; both
  give it the number 11 and the same year (`SpansMeet`). The inductive invariant
  (`ZwdsInv`) is that a birth is in the years asked about and carries the calendar's
  dates; a step of the run is a step of the calendar when the double hour of the rat
  begins.
  `ChartsSound`: the palaces stand on the twelve branches, one on each, so what the
  code looks up by branch is found once; the stems have the parity of their
  branches, so the bureau's error cannot occur; and the element of a bureau, like
  that of the cycle, depends only on the pairs of stems and of branches the pillar is in.
  Assumed: lunations of 42 100 to 43 000 minutes (29.24 to 29.86 days); terms in
  order, every twelfth a winter solstice, 525 900 to 526 000 minutes (365.21 to 365.28
  days) after the one before and on a day from 15 to 28 December; new moons known
  around all of them; frames within a day of UTC; somebody born in the double hour
  of the rat and somebody born in another. TLC checks the assumptions for the Sun and the
  Moon of 2031 to 2036. That a solar term falls into each thirtieth of the year, or
  that a leap month comes in some years, is not assumed.
  The same module has `Attestation` and `Ayanamsa` of the ephemeris, for any threads, bodies
  and modes. Only the holder of the lock is in the critical section, which begins and
  ends with the default mode (`Section`). An attested backend has a result that was
  checked, and past the houses a request has an attested backend (`Attested`); a
  request in an outage of its own gets no further than the construction
  (`Outage`).
- **Readings_proofs.** All properties of `readings` but one, for any births, requests,
  couples, days, tables of transits and any number of answers kept, so also between
  answers the instance never holds together. The inductive invariant (`IInv`) says that
  every answer kept is what its endpoint answers to its question, with the ephemeris it
  met, which was missing at most for what that question uses it for (`AnswersSaid`); that a question of the quiz was about the signature the
  app was told, which is never rewritten (`Carried`); and that the counters follow
  (`Counted`): one decision for every pair asked about, one analysis for every pair both
  of whose charts were there (`Arrivals`). From it each property becomes a question about the endpoints, whose
  handlers are taken apart first (`BaziSays`, `FusionEndpointSays`, …): an answer that
  succeeded went past every early return.
  `Accounted`: both charts are there exactly when there was consent, either time can be
  resolved and no ephemeris was missing (`PillarsUnless`, `ArrivedUnhindered`), which is
  that nothing was in the way. `UnknownTimesFlagged`: every answer about an unknown
  time has a field that is provisional, and a chart that is fused is exact because one
  without an ascendant failed before. `EverywhereOneInstant`: what the endpoint resolved and
  the engine reads again is the same instant whatever the policies, because a time moved
  out of a gap exists, and one that comes twice is read with the fold it was resolved with
  (`ReadAgain`). `FusionKeepsHonest` bounds every row of the baseline table.
  `PairsMirrored`: relations, zones and tensions are the same pairs the other way round,
  and the nearness of two vectors does not depend on their order; both need that a vector
  is one of naturals (`UnitIsNatural`), hence that roots and sums are. `NothingUnsupported`
  follows the text through the layers it is put together from; a warning that is said of
  two persons is kept once by a fold over the first of each (`DedupeIs`).
  `GodsNamedAlike` compares the two tables for every stem. `LedgersTellTheSame` compares
  ledgers line by line (`Alike`) and sums of joined ledgers, and the pillar of a day with
  that of a birth on it, which is a question of when the day turns by the sun
  (`SunTurnsDay`). `AppCarriesOn`: the parts of a day's impact that the
  endpoint shows too do not depend on the sectors sent (`ImpactApart`).
  The library's sums and folds choose a function that satisfies their recursion;
  that there is one is shown first (`SumExists`, `FoldExists`), by following the function
  down the subsets of its domain (`SubsetInduction`). Assumed: births of the type of `Births`
  (`BirthsAssumption`), clients and couples among them; nothing of the sky.

Where a run composes modules, the theorem is about the composition: the proof first
shows that its behaviours are behaviours of the part (`ChartPart`, `LifePart`,
`HalfResolves`, …).

**Only model-checked.** Three properties. That the space weather recovers
(`Recovers`), which is liveness. That the Moon's searches converge (`RefusalOK`), which
is an induction over the rounds of Newton's method. And which failure each endpoint
reports (`ErrorsTruthful`): that an answer without a reason for failure *is* a 200 needs
every body to fit its response model, through all of the arithmetic; and that a term told by
the day of the year is at most one off is a fact about the real sun and not about every
table a birth may carry. The run checks it of
every endpoint, for births of every kind.

**Out of the prover's reach.** Liveness and ENABLED; what a recursive definition
computes for every input, such as that Newton's method converges within its
fifteen rounds; anything in a module with a RECURSIVE operator, of which this
project therefore has none. Induction is replaced where possible by an argument
about the least number that violates a claim (`LeastNumber`), which needs only that
the naturals are well-founded.

## 6. Findings

1. *`OutOfRangeIs422`* (`local_time_range`). `/calculate/bazi/dayun` hands the raw
   time to `parse_local_iso`, whose conversion at `time_utils.py:304` does not catch
   `OverflowError`; the comment at `time_utils.py:98-100` and
   `tests/test_time_range_and_skipped_day.py:4-8` say such input is a 422.
2. *`JieqiBoundMonths`* (`four_pillars_fold`). `bazi.py:136` compares aware
   datetimes of one zone, which Python orders by wall time: beside a jie in a
   repeated hour the month is the wrong one, although
   `docs/fusion/11_ground_truth_integrity.md:118-119` has the jie define the
   months. From 1900 to 2037 the IANA zones have 43 such jie; one is
   Australia/Sydney, 2009-04-05 02:10, fold 1. `MonthsFollowTheSun` shows the
   months are right everywhere else.
3. *`NeverFails`* (`new_moon_second`). In the last second before a new moon
   `_lunation_metrics` (`lunar_state.py:341`) takes the new moon ahead for one
   that has passed and looks for the next, but keeps the one before: the interval
   is 59 days and its own test refuses it, a 500, which `exc.py:71-72` says is
   never triggered by normal input. `RefusalOK` shows this is the only failure.
4. *`WebhookAnswers`* (`webhook`). `routers/webhooks.py:284` puts a number where
   its response model declares a string, and a string where it declares a mapping
   (lines 71, 77): no request that is in order is answered, although
   `ELEVENLABS_SETUP.md` shows the answer.

Two more of `/impact/active`, for which `ErrorsTruthful` (run `readings`) has exceptions
of their own, says exactly when they happen, and shows that they happen nowhere else:

- *Missing files are blamed on the client* (`BlamedOnClient`). `routers/impact.py:80-86`
  turns every failure of the western chart into a 422, a missing ephemeris too, when the
  files go between the pillars and the chart of one request. `exc.py:9-11` keeps 422 for
  bad data and 503 for missing files; `routers/experience.py:386-391` lets the error
  through after the same call, with the reason.
- *A longitude leaves the circle* (`Overrun`). `impact.py:221` rounds a natal longitude
  to two decimals, `transit.py:135` one of the day to one: from 359.995 and 359.95 on the
  result is 360.0, and the response model has `ge=0, lt=360` (`impact_types.py:119-124`).
  `/impact/active` then answers 500, while the reading of a day silently leaves the
  impact out.

Observations without a run:

- `impact_resonance.py:160-175` builds the enriched planet without its
  `dignity`, which `/impact/active` therefore never shows.
- `routers/experience.py:604` says which phases the sectors are turned into; lines
  637-650 do something else. Line 542 says old values come from the request, but
  the number of orbits is computed anew with 0.5.
- `routers/experience.py:79-89`: bootstrap shows an ascendant without a flag when
  the time of birth is unknown. Lines 351-354 turn failures of the BaZi engine
  outside its own error classes into a 422.
- `routers/match.py:105-111` echoes the gender as given, while
  `SpouseStarModel.gender_used` (375) holds another form.
- `routers/chart.py`: line 261 leaves out the ascendant, so the vectors of `/chart`
  can differ from those of `/calculate/wuxing` in Mercury; with
  `dst_policy="error"` an ambiguous time is resolved as the earlier one (174-176);
  a body that failed is shown at the beginning of Aries (198; also
  `routers/webhooks.py:198-199`).
- `routers/fusion.py`: the error `ascendant_unavailable` cannot occur, because a
  chart without houses fails before it. `wuxing/calibration.py` counts a body that
  the vector excludes (`TrueNorthNode`) and stems that no table knows.
- `services/daily_fusion.py` may name one pair of themes both shared and in
  tension; a summary in `daily_templates.py` reads the relation "power" the wrong
  way round.
- `lunar_state.py`: the Moon's light and size come from a library call without
  flags, so nothing there is attested.
- `ephemeris.py:133-144`: the bisection after `solcross_ut` is unreachable, since
  that function always returns a float; and the comment at 142-143 excludes a
  downgrade of a crossing that the model shows possible, when the file vanishes
  after the construction.
- `routers/bazi.py:283` explains the day with the default offset, which would
  contradict a request's own day anchor; no router sets one.
- `routers/shared.py:134-136` says the backend is built first; a transit cache hit
  skips it. `/transit/now` does attest, by `current_ephemeris_mode`.
- `docs/API_DOCUMENTATION.md:388-390` promises one answer per hour; two writers of
  one hour may alternate.
- `transit.py:188`: `generated_at` is from a second reading of the clock.
- `calendar_provider.py:278`: if a term falls within some 2.6 seconds before the
  midnight of day one, the nudge searches for that term again instead of the
  next, and the month is taken to have none.
- `docs/API_REFERENCE.md:72,1075` lists a daily limit that nothing enforces
  (`auth.py:8-13`), and 1084, 1119 a fall back to memory that `limiter.py:75`
  disables.
- `dayun/current_cycle.py:3-4`: the current decade is "consistent with the real
  decade dates" only up to some days (`CurrentNearDates` has the margin); birth
  1987-07-04T21:30 Europe/Berlin asked about on 1997-07-15 is an example.

## 7. Not modelled

`PROJECT.json` lists every component with its status. Not modelled are

- rate limiting, whose counters are those of libraries outside the repository;
- the ZWDS ruleset repository: read-only files, verified once a request;
- the details of western charts (decanates, terms, fixed stars): tables and
  angles without state;
- the BAFE validator, planned below;
- the superglue proxy, which keeps nothing;
- application, middleware and information, the research tools, scripts and
  schemas: wiring, statistics, tooling.

Partly modelled are chronometry (the equation of time is a constant of a place),
impact (aspects between the planets of one chart and the narrative), the lunar
state (light, size, and the phase by solar term of `phases/jieqi_phase.py`), and
personalize (the wording of its variables). Everywhere left out are the parsing
of strings, response layout, logging, wording and accuracy of the ephemeris.

Approximations of the readings: scores are integers in hundredths to millionths,
lengths of vectors are rounded down, house cusps are equal from the ascendant, and
the planets of a day are a table of the instance. Comparisons with thresholds in
code are comparisons of these integers.

## 8. Plan

Written so far, the most shared state first: `KeyStore` with its abstract
specification and proofs, `KeyService`, `Ephemeris`, `TransitCache`,
`SpaceWeather`, `GeocodeCache`, composed in `Services`; the calculators from
`LocalTime` and `LunarState` to `Zwds`; then the readings, from `WuXing` to the
endpoints that compose them.

What is left to model:

1. the BAFE time model against `LocalTime` and `BaziDay`: do two implementations
   give one clock?
2. rate limits with `KeyService`: which limit a key gets, what an unreachable
   Redis does;
3. the ruleset repository: a file that changes between verification and the second
   read.

What is left to prove: of `ErrorsTruthful`, that bodies fit their response models,
endpoint by endpoint.
