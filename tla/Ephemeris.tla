------------------------------ MODULE Ephemeris ------------------------------
(***************************************************************************)
(* Requests that compute with Swiss Ephemeris in the thread pool           *)
(* (bazi_engine/ephemeris.py, western.py, bazi.py, transit.py).  The       *)
(* library is one set of C globals: an ephemeris path, the SE1 files it    *)
(* has open, a sidereal mode.  Setting the path closes the files; a body   *)
(* whose file cannot be opened is computed with the lower-precision        *)
(* Moshier model and only a flag of the result says so.  SE1 files may     *)
(* vanish and reappear while the server runs.                              *)
(*                                                                         *)
(* Every call into the library holds the interpreter lock, so it is one    *)
(* step; threads interleave between calls.                                 *)
(***************************************************************************)
EXTENDS Naturals, FiniteSets

CONSTANTS Thread,
          Body,      \* bodies computed, each with an SE1 file of its own
          SidMode,   \* ayanamsa ids of the sidereal zodiac modes
          Tropical,  \* the other zodiac modes: no ayanamsa
          NoThread

ASSUME NoThreadAssumption == NoThread \notin Thread
ASSUME SidModeAssumption == SidMode \subseteq Nat /\ Tropical \notin SidMode

Job == {"transit", "western", "bazi"}
Precision == {"SWIEPH", "MOSEPH"}

VARIABLES
    mode, enforce,  \* EPHEMERIS_MODE, FUFIRE_MOSEPH_ATTESTATION_ENFORCE
    files,          \* bodies whose SE1 file is on disk
    open,           \* bodies whose SE1 file the library has open
    sid,            \* the library's sidereal mode, 0 by default
    lock,           \* _SWE_LOCK
    pc, job,        \* per thread: next step, kind of request
    todo,           \* bodies, or solar longitudes, still to compute
    attested,       \* _attested of the thread's backend instance
    checked,        \* precisions of the flag-checked results it uses
    want, got,      \* zodiac mode asked for, and the one corrected by
    outage,         \* files have been missing since the request arrived
    reply

vars == <<mode, enforce, files, open, sid, lock, pc, job, todo, attested, checked,
          want, got, outage, reply>>
library == <<open, sid, lock>>
request == <<job, todo, attested, checked, want, got>>
setting == <<mode, enforce>>

Init ==
    /\ mode \in Precision /\ enforce \in BOOLEAN
    /\ files = Body /\ open = {} /\ sid = 0 /\ lock = NoThread
    /\ pc = [t \in Thread |-> "idle"]
    /\ job = [t \in Thread |-> "transit"]
    /\ todo = [t \in Thread |-> {}]
    /\ attested = [t \in Thread |-> FALSE]
    /\ checked = [t \in Thread |-> {}]
    /\ want = [t \in Thread |-> Tropical]
    /\ got = [t \in Thread |-> Tropical]
    /\ outage = [t \in Thread |-> FALSE]
    /\ reply = [t \in Thread |-> "none"]

Goto(t, label) == pc' = [pc EXCEPT ![t] = label]
Answer(t, code) == reply' = [reply EXCEPT ![t] = code] /\ Goto(t, "idle")

(* The volume is unmounted, a file deleted, or put back.                   *)
FilesChange ==
    /\ \/ \E b \in files : files' = files \ {b}
       \/ files # Body /\ files' = Body
    /\ outage' = [t \in Thread |-> outage[t] /\ files' # Body]
    /\ UNCHANGED <<setting, library, pc, request, reply>>

(* z is the ayanamsa of a sidereal zodiac_mode.                            *)
Arrive(t, kind, z) ==
    /\ pc[t] = "idle"
    /\ kind # "western" => z = Tropical
    /\ Goto(t, "construct")
    /\ job' = [job EXCEPT ![t] = kind]
    /\ want' = [want EXCEPT ![t] = z]
    /\ got' = [got EXCEPT ![t] = z]
    /\ todo' = [todo EXCEPT ![t] = Body]
    /\ outage' = [outage EXCEPT ![t] = files # Body]
    /\ reply' = [reply EXCEPT ![t] = "none"]
    /\ checked' = [checked EXCEPT ![t] = {}]
    /\ UNCHANGED <<setting, files, library, attested>>

-----------------------------------------------------------------------------
(* SwissEphBackend(): ensure_ephemeris_files looks at the disk.            *)
Construct(t) ==
    /\ pc[t] = "construct"
    /\ attested' = [attested EXCEPT ![t] = FALSE]
    /\ IF mode = "SWIEPH" /\ files # Body
          THEN Answer(t, "503")
          ELSE Goto(t, IF mode = "MOSEPH" THEN "compute" ELSE "setPath") /\ UNCHANGED reply
    /\ UNCHANGED <<setting, files, library, job, todo, checked, want, got, outage>>

SetPath(t) ==                  \* swe.set_ephe_path closes every file
    /\ pc[t] = "setPath"
    /\ open' = {}
    /\ Goto(t, "compute")
    /\ UNCHANGED <<setting, files, sid, lock, request, outage, reply>>

(* What the library does for one body: the precision it can reach.         *)
Reach(b) == IF mode = "SWIEPH" /\ b \in open \cup files THEN "SWIEPH" ELSE "MOSEPH"
Opened(b) == IF mode = "SWIEPH" /\ b \in files THEN open \cup {b} ELSE open

Done(t, b) == todo' = [todo EXCEPT ![t] = @ \ {b}]

(* backend.calc_ut: the returned flags are compared with the requested.    *)
CalcUnchecked(t, b) ==         \* a direct swe.calc_ut
    /\ pc[t] = "compute" /\ job[t] # "bazi" /\ b \in todo[t]
    /\ open' = Opened(b)
    /\ checked' = [checked EXCEPT ![t] = @ \cup {Reach(b)}]
    /\ attested' = [attested EXCEPT ![t] = TRUE]
    /\ Done(t, b)
    /\ UNCHANGED <<setting, files, sid, lock, pc, job, want, got, outage, reply>>

Calc(t, b) ==
    /\ pc[t] = "compute" /\ job[t] # "bazi" /\ b \in todo[t]
    /\ open' = Opened(b)
    /\ IF Reach(b) = "MOSEPH" /\ mode # "MOSEPH" /\ enforce
          THEN /\ Answer(t, "503")
               /\ UNCHANGED <<todo, attested, checked>>
          ELSE /\ checked' = [checked EXCEPT ![t] = @ \cup {Reach(b)}]
               /\ attested' = [attested EXCEPT ![t] = TRUE]
               /\ Done(t, b)
               /\ UNCHANGED <<pc, reply>>
    /\ UNCHANGED <<setting, files, sid, lock, job, want, got, outage>>

(* swe.Error: the body is outside the range of the ephemeris.  The western *)
(* planet loop records an error entry and goes on; elsewhere it is a 500.  *)
CalcError(t, b) ==
    /\ pc[t] = "compute" /\ job[t] # "bazi" /\ b \in todo[t]
    /\ IF job[t] = "western" THEN Done(t, b) /\ UNCHANGED <<pc, reply>>
                             ELSE Answer(t, "500") /\ UNCHANGED todo
    /\ UNCHANGED <<setting, files, library, job, attested, checked,
                   want, got, outage>>

(* bazi.py finds its solar terms with solcross_ut, which returns no flags: *)
(* whatever precision was reached is used.                                 *)
Solcross(t, b) ==
    /\ pc[t] = "compute" /\ job[t] = "bazi" /\ b \in todo[t]
    /\ open' = Opened(b)
    /\ Done(t, b)
    /\ UNCHANGED <<setting, files, sid, lock, pc, job, attested, checked, want, got,
                   outage, reply>>

Computed(t) ==
    /\ pc[t] = "compute" /\ todo[t] = {}
    /\ IF job[t] = "western" THEN Goto(t, "houses") /\ UNCHANGED reply
                             ELSE Answer(t, "ok")
    /\ UNCHANGED <<setting, files, library, request, outage>>

(* backend.houses: refuses unless a calc_ut of this instance was attested. *)
Houses(t) ==
    /\ pc[t] = "houses"
    /\ IF ~attested[t] /\ enforce
          THEN Answer(t, "503")
          ELSE IF want[t] = Tropical THEN Answer(t, "ok") ELSE Goto(t, "lock") /\ UNCHANGED reply
    /\ UNCHANGED <<setting, files, library, request, outage>>

-----------------------------------------------------------------------------
(* western.py:148-151, the sidereal correction under _SWE_LOCK.            *)
LockDropped(t) ==
    /\ pc[t] = "lock"
    /\ lock' = t
    /\ Goto(t, "setSid")
    /\ UNCHANGED <<setting, files, open, sid, request, outage, reply>>

Lock(t) ==
    /\ pc[t] = "lock" /\ lock = NoThread
    /\ lock' = t
    /\ Goto(t, "setSid")
    /\ UNCHANGED <<setting, files, open, sid, request, outage, reply>>

SetSid(t) ==
    /\ pc[t] = "setSid"
    /\ sid' = want[t]
    /\ Goto(t, "ayanamsa")
    /\ UNCHANGED <<setting, files, open, lock, request, outage, reply>>

GetAyanamsa(t) ==
    /\ pc[t] = "ayanamsa"
    /\ got' = [got EXCEPT ![t] = sid]
    /\ Goto(t, "resetSid")
    /\ UNCHANGED <<setting, files, library, job, todo, attested, checked,
                   want, outage, reply>>

ResetSid(t) ==
    /\ pc[t] = "resetSid"
    /\ sid' = 0
    /\ Goto(t, "unlock")
    /\ UNCHANGED <<setting, files, open, lock, request, outage, reply>>

Unlock(t) ==
    /\ pc[t] = "unlock"
    /\ lock' = NoThread
    /\ Answer(t, "ok")
    /\ UNCHANGED <<setting, files, open, sid, request, outage>>

Next ==
    \/ FilesChange
    \/ \E t \in Thread :
          \/ \E kind \in Job, z \in SidMode \cup {Tropical} : Arrive(t, kind, z)
          \/ Construct(t) \/ SetPath(t)
          \/ \E b \in Body : Calc(t, b) \/ CalcError(t, b) \/ Solcross(t, b)
          \/ Computed(t) \/ Houses(t)
          \/ Lock(t) \/ SetSid(t) \/ GetAyanamsa(t) \/ ResetSid(t) \/ Unlock(t)

Spec == Init /\ [][Next]_vars

-----------------------------------------------------------------------------
Label == {"idle", "construct", "setPath", "compute", "houses",
          "lock", "setSid", "ayanamsa", "resetSid", "unlock"}
Guarded == {"setSid", "ayanamsa", "resetSid", "unlock"}

TypeOK ==
    /\ mode \in Precision /\ enforce \in BOOLEAN
    /\ files \subseteq Body /\ open \subseteq Body
    /\ sid \in SidMode \cup {0} /\ lock \in Thread \cup {NoThread}
    /\ pc \in [Thread -> Label] /\ job \in [Thread -> Job]
    /\ todo \in [Thread -> SUBSET Body]
    /\ attested \in [Thread -> BOOLEAN]
    /\ checked \in [Thread -> SUBSET Precision]
    /\ want \in [Thread -> SidMode \cup {Tropical}]
    /\ got \in [Thread -> SidMode \cup {Tropical}]
    /\ outage \in [Thread -> BOOLEAN]
    /\ reply \in [Thread -> {"none", "ok", "500", "503"}]

(* FQ-ATT-01: unless the staging escape hatch is open, no position in a    *)
(* response of a SWIEPH server was computed with the Moshier fallback,     *)
(* however files vanish and other threads close them meanwhile.            *)
NoSilentDowngrade ==
    enforce /\ mode = "SWIEPH" => \A t \in Thread : checked[t] \subseteq {"SWIEPH"}

(* House cusps and everything after them rest on at least one position of  *)
(* the same request that passed the flag check (not of another request's   *)
(* backend), even when every body failed with swe.Error.                   *)
HousesAttested ==
    enforce => \A t \in Thread :
        /\ pc[t] \in {"lock"} \cup Guarded => checked[t] # {}
        /\ job[t] = "western" /\ reply[t] = "ok" => checked[t] # {}

(* CONTRA-1, the presence of the files is never remembered: a request that *)
(* runs wholly inside an outage is refused, even if the library still has  *)
(* the files open from before.                                             *)
OutageIsVisible ==
    mode = "SWIEPH" => \A t \in Thread : outage[t] => reply[t] # "ok"

(* So whatever a response shows is attested by results of its own, and by  *)
(* files that were there.                                                  *)
ResultsAttested == NoSilentDowngrade /\ HousesAttested /\ OutageIsVisible

(* The ayanamsa a response is corrected by is that of its own zodiac mode, *)
(* not of a concurrent sidereal request; outside the critical section the  *)
(* library is in its default mode again.                                   *)
OwnAyanamsa ==
    /\ TypeOK
    /\ \A t \in Thread : got[t] = want[t]
    /\ lock = NoThread => sid = 0
=============================================================================
