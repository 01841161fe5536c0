--------------------------- MODULE Services_proofs ---------------------------
(***************************************************************************)
(* Proofs about the objects that all requests of a process share, for any  *)
(* threads, tasks and places, any life of an entry and any cap.  They have *)
(* no state in common: a step of one leaves the others alone, and what is  *)
(* proved of each on its own holds of the process.                         *)
(***************************************************************************)
EXTENDS Services, Sequences, FiniteSetTheorems, TLAPS

-----------------------------------------------------------------------------
(* The store of keys: a strengthened invariant (IInv), and the promise of  *)
(* the abstract issuer step by step.                                       *)

(* The strengthened invariant holds initially.                             *)
LEMMA InitIInv == Init => IInv
BY NoKeyAssumption, NoRecAssumption, NoThreadAssumption
   DEF Init, IInv, TypeOK, MutualExclusion, PendingOK, JtiKeyValid, NoOrphanKey,
       PrefixIsTier, ReturnedOK, Stage, Inside, IsValid, TierOf, FindByJti

(* Every statement of issue preserves the strengthened invariant.          *)
LEMMA StepIInv == IInv /\ [Next]_vars => IInv'
<1> SUFFICES ASSUME IInv, [Next]_vars PROVE IInv'
  OBVIOUS
<1> USE NoKeyAssumption, NoRecAssumption, NoThreadAssumption, MintableAssumption
    DEF IInv
<1>1. ASSUME NEW t \in Thread, NEW tier \in Tier, NEW j \in Jti, Call(t, tier, j) PROVE IInv'
  <2>1. TypeOK'
    BY <1>1 DEF Call, Goto, TypeOK, Stage, Rec, Key
  <2>2. MutualExclusion'
    BY <1>1 DEF Call, Goto, TypeOK, MutualExclusion, Inside, Stage
  <2>3. PendingOK'
    BY <1>1 DEF Call, Goto, TypeOK, MutualExclusion, Inside, PendingOK, Stage, Rec, Key
  <2>4. JtiKeyValid'
    BY <1>1 DEF Call, Goto, TypeOK, PendingOK, JtiKeyValid, IsValid, FindByJti, Rec, Key
  <2>5. NoOrphanKey'
    BY <1>1 DEF Call, Goto, TypeOK, PendingOK, NoOrphanKey, IsValid, Rec, Key
  <2>6. PrefixIsTier'
    BY <1>1 DEF Call, Goto, TypeOK, PendingOK, PrefixIsTier, IsValid, TierOf, Rec, Key
  <2>7. ReturnedOK'
    BY <1>1 DEF Call, Goto, TypeOK, PendingOK, ReturnedOK, Stage, Rec, Key
  <2>8. QED
    BY <2>1, <2>2, <2>3, <2>4, <2>5, <2>6, <2>7
<1>2. ASSUME NEW t \in Thread, Enter(t) PROVE IInv'
  <2>1. TypeOK'
    BY <1>2 DEF Enter, Goto, TypeOK, Stage, Rec, Key
  <2>2. MutualExclusion'
    BY <1>2 DEF Enter, Goto, TypeOK, MutualExclusion, Inside, Stage
  <2>3. PendingOK'
    BY <1>2 DEF Enter, Goto, TypeOK, MutualExclusion, Inside, PendingOK, Stage, Rec, Key
  <2>4. JtiKeyValid'
    BY <1>2 DEF Enter, Goto, TypeOK, PendingOK, JtiKeyValid, IsValid, FindByJti, Rec, Key
  <2>5. NoOrphanKey'
    BY <1>2 DEF Enter, Goto, TypeOK, PendingOK, NoOrphanKey, IsValid, Rec, Key
  <2>6. PrefixIsTier'
    BY <1>2 DEF Enter, Goto, TypeOK, PendingOK, PrefixIsTier, IsValid, TierOf, Rec, Key
  <2>7. ReturnedOK'
    BY <1>2 DEF Enter, Goto, TypeOK, PendingOK, ReturnedOK, Stage, Rec, Key
  <2>8. QED
    BY <2>1, <2>2, <2>3, <2>4, <2>5, <2>6, <2>7
<1>3. ASSUME NEW t \in Thread, Lookup(t) PROVE IInv'
  <2>1. TypeOK'
    BY <1>3 DEF Lookup, Goto, TypeOK, Stage, Rec, Key
  <2>2. MutualExclusion'
    BY <1>3 DEF Lookup, Goto, TypeOK, MutualExclusion, Inside, Stage
  <2>3. PendingOK'
    BY <1>3 DEF Lookup, Goto, TypeOK, MutualExclusion, Inside, PendingOK, Stage, Rec, Key
  <2>4. JtiKeyValid'
    BY <1>3 DEF Lookup, Goto, TypeOK, PendingOK, JtiKeyValid, IsValid, FindByJti, Rec, Key
  <2>5. NoOrphanKey'
    BY <1>3 DEF Lookup, Goto, TypeOK, PendingOK, NoOrphanKey, IsValid, Rec, Key
  <2>6. PrefixIsTier'
    BY <1>3 DEF Lookup, Goto, TypeOK, PendingOK, PrefixIsTier, IsValid, TierOf, Rec, Key
  <2>7. ReturnedOK'
    BY <1>3 DEF Lookup, Goto, TypeOK, PendingOK, ReturnedOK, Stage, Rec, Key
  <2>8. QED
    BY <2>1, <2>2, <2>3, <2>4, <2>5, <2>6, <2>7
<1>4. ASSUME NEW t \in Thread, Mint(t) PROVE IInv'
  <2>1. TypeOK'
    <3>1. /\ key' \in [Thread -> Key \cup {NoKey}]
          /\ \E stage \in {"putKey", "leave"} : pc' = [pc EXCEPT ![t] = stage]
          /\ UNCHANGED <<lock, byKey, byJti, arg, out>>
      BY <1>4 DEF Mint, Goto, TypeOK
    <3>2. pc' \in [Thread -> Stage]
      BY <3>1 DEF TypeOK, Stage
    <3>3. QED
      BY <3>1, <3>2 DEF TypeOK
  <2>2. MutualExclusion'
    BY <1>4 DEF Mint, Goto, TypeOK, MutualExclusion, Inside, Stage
  <2>3. PendingOK'
    BY <1>4 DEF Mint, Goto, TypeOK, MutualExclusion, Inside, PendingOK, Stage, Rec, Key
  <2>4. JtiKeyValid'
    BY <1>4 DEF Mint, Goto, TypeOK, PendingOK, JtiKeyValid, IsValid, FindByJti, Rec, Key
  <2>5. NoOrphanKey'
    BY <1>4 DEF Mint, Goto, TypeOK, PendingOK, NoOrphanKey, IsValid, Rec, Key
  <2>6. PrefixIsTier'
    BY <1>4 DEF Mint, Goto, TypeOK, PendingOK, PrefixIsTier, IsValid, TierOf, Rec, Key
  <2>7. ReturnedOK'
    BY <1>4 DEF Mint, Goto, TypeOK, PendingOK, ReturnedOK, Stage, Rec, Key
  <2>8. QED
    BY <2>1, <2>2, <2>3, <2>4, <2>5, <2>6, <2>7
<1>5. ASSUME NEW t \in Thread, PutKey(t) PROVE IInv'
  <2>a. /\ key[t] \in Key /\ byKey[key[t]] = NoRec
        /\ arg[t] \in Rec /\ arg[t] # NoRec
        /\ byKey' = [byKey EXCEPT ![key[t]] = arg[t]]
    BY <1>5 DEF PutKey, TypeOK, PendingOK, Rec, Key
  <2>1. TypeOK'
    BY <1>5, <2>a DEF PutKey, Goto, TypeOK, Stage, Rec, Key
  <2>2. MutualExclusion'
    BY <1>5 DEF PutKey, Goto, TypeOK, MutualExclusion, Inside, Stage
  <2>3. PendingOK'
    <3> SUFFICES ASSUME NEW u \in Thread
                 PROVE  /\ pc'[u] \in {"mint", "putKey", "putJti"} =>
                                byJti'[arg'[u].jti] = NoKey
                        /\ pc'[u] \in {"putKey", "putJti"} =>
                                key'[u] \in Key /\ key'[u].tier = arg'[u].tier
                        /\ pc'[u] = "putKey" => byKey'[key'[u]] = NoRec
                        /\ pc'[u] = "putJti" => byKey'[key'[u]] = arg'[u]
      BY DEF PendingOK
    <3>1. CASE u = t
      BY <1>5, <2>a, <3>1 DEF PutKey, Goto, TypeOK, PendingOK
    <3>2. CASE u # t
      <4>1. pc'[u] = pc[u] /\ pc[u] \notin {"mint", "putKey", "putJti"}
        BY <1>5, <3>2 DEF PutKey, Goto, TypeOK, MutualExclusion, Inside
      <4>2. QED
        BY <4>1
    <3>3. QED
      BY <3>1, <3>2
  <2>4. JtiKeyValid'
    <3> SUFFICES ASSUME NEW j \in Jti, byJti'[j] # NoKey
                 PROVE  byKey'[byJti'[j]] # NoRec /\ byKey'[byJti'[j]].jti = j
      BY DEF JtiKeyValid, IsValid, FindByJti
    <3>1. byJti'[j] = byJti[j] /\ byJti[j] \in Key
      BY <1>5 DEF PutKey, TypeOK
    <3>2. byKey[byJti[j]] # NoRec /\ byKey[byJti[j]].jti = j
      BY <3>1 DEF JtiKeyValid, IsValid, FindByJti
    <3>3. QED
      BY <2>a, <3>1, <3>2 DEF TypeOK
  <2>5. NoOrphanKey'
    BY <1>5 DEF PutKey, Goto, TypeOK, PendingOK, NoOrphanKey, IsValid, Rec, Key
  <2>6. PrefixIsTier'
    BY <1>5 DEF PutKey, Goto, TypeOK, PendingOK, PrefixIsTier, IsValid, TierOf, Rec, Key
  <2>7. ReturnedOK'
    BY <1>5 DEF PutKey, Goto, TypeOK, PendingOK, ReturnedOK, Stage, Rec, Key
  <2>8. QED
    BY <2>1, <2>2, <2>3, <2>4, <2>5, <2>6, <2>7
<1>6. ASSUME NEW t \in Thread, PutJti(t) PROVE IInv'
  <2>1. TypeOK'
    BY <1>6 DEF PutJti, Goto, TypeOK, Stage, Rec, Key
  <2>2. MutualExclusion'
    BY <1>6 DEF PutJti, Goto, TypeOK, MutualExclusion, Inside, Stage
  <2>3. PendingOK'
    BY <1>6 DEF PutJti, Goto, TypeOK, MutualExclusion, Inside, PendingOK, Stage, Rec, Key
  <2>4. JtiKeyValid'
    BY <1>6 DEF PutJti, Goto, TypeOK, PendingOK, JtiKeyValid, IsValid, FindByJti, Rec, Key
  <2>5. NoOrphanKey'
    <3> SUFFICES ASSUME NEW k \in Key, byKey'[k] # NoRec
                 PROVE  \/ byJti'[byKey'[k].jti] = k
                        \/ \E u \in Thread : pc'[u] = "putJti" /\ key'[u] = k
      BY DEF NoOrphanKey, IsValid
    <3>1. /\ byKey' = byKey /\ key' = key /\ arg[t].jti \in Jti
          /\ byJti' = [byJti EXCEPT ![arg[t].jti] = key[t]]
          /\ byJti[arg[t].jti] = NoKey /\ byKey[key[t]] = arg[t]
          /\ \A u \in Thread : u # t => pc'[u] = pc[u]
      BY <1>6 DEF PutJti, Goto, TypeOK, PendingOK, Rec
    <3>2. CASE k = key[t]
      BY <3>1, <3>2 DEF TypeOK
    <3>3. CASE k # key[t]
      <4>1. CASE \E u \in Thread : pc[u] = "putJti" /\ key[u] = k
        BY <3>1, <3>3, <4>1
      <4>2. CASE byJti[byKey[k].jti] = k
        <5>1. byKey[k].jti # arg[t].jti
          BY <3>1, <4>2, NoKeyAssumption
        <5>2. QED
          BY <3>1, <4>2, <5>1 DEF TypeOK
      <4>3. QED
        BY <3>1, <4>1, <4>2 DEF NoOrphanKey, IsValid
    <3>4. QED
      BY <3>2, <3>3
  <2>6. PrefixIsTier'
    BY <1>6 DEF PutJti, Goto, TypeOK, PendingOK, PrefixIsTier, IsValid, TierOf, Rec, Key
  <2>7. ReturnedOK'
    BY <1>6 DEF PutJti, Goto, TypeOK, PendingOK, ReturnedOK, Stage, Rec, Key
  <2>8. QED
    BY <2>1, <2>2, <2>3, <2>4, <2>5, <2>6, <2>7
<1>7. ASSUME NEW t \in Thread, Leave(t) PROVE IInv'
  <2>1. TypeOK'
    BY <1>7 DEF Leave, Goto, TypeOK, Stage, Rec, Key
  <2>2. MutualExclusion'
    BY <1>7 DEF Leave, Goto, TypeOK, MutualExclusion, Inside, Stage
  <2>3. PendingOK'
    BY <1>7 DEF Leave, Goto, TypeOK, MutualExclusion, Inside, PendingOK, Stage, Rec, Key
  <2>4. JtiKeyValid'
    BY <1>7 DEF Leave, Goto, TypeOK, PendingOK, JtiKeyValid, IsValid, FindByJti, Rec, Key
  <2>5. NoOrphanKey'
    BY <1>7 DEF Leave, Goto, TypeOK, PendingOK, NoOrphanKey, IsValid, Rec, Key
  <2>6. PrefixIsTier'
    BY <1>7 DEF Leave, Goto, TypeOK, PendingOK, PrefixIsTier, IsValid, TierOf, Rec, Key
  <2>7. ReturnedOK'
    BY <1>7 DEF Leave, Goto, TypeOK, PendingOK, ReturnedOK, Stage, Rec, Key
  <2>8. QED
    BY <2>1, <2>2, <2>3, <2>4, <2>5, <2>6, <2>7
<1>8. ASSUME NEW t \in Thread, Return(t) PROVE IInv'
  <2>1. TypeOK'
    BY <1>8 DEF Return, Goto, TypeOK, Stage, Rec, Key
  <2>2. MutualExclusion'
    BY <1>8 DEF Return, Goto, TypeOK, MutualExclusion, Inside, Stage
  <2>3. PendingOK'
    BY <1>8 DEF Return, Goto, TypeOK, MutualExclusion, Inside, PendingOK, Stage, Rec, Key
  <2>4. JtiKeyValid'
    BY <1>8 DEF Return, Goto, TypeOK, PendingOK, JtiKeyValid, IsValid, FindByJti, Rec, Key
  <2>5. NoOrphanKey'
    BY <1>8 DEF Return, Goto, TypeOK, PendingOK, NoOrphanKey, IsValid, Rec, Key
  <2>6. PrefixIsTier'
    BY <1>8 DEF Return, Goto, TypeOK, PendingOK, PrefixIsTier, IsValid, TierOf, Rec, Key
  <2>7. ReturnedOK'
    BY <1>8 DEF Return, Goto, TypeOK, PendingOK, ReturnedOK, Stage, Rec, Key
  <2>8. QED
    BY <2>1, <2>2, <2>3, <2>4, <2>5, <2>6, <2>7
<1>9. CASE UNCHANGED vars
  BY <1>9 DEF vars, TypeOK, MutualExclusion, PendingOK, JtiKeyValid, NoOrphanKey,
              PrefixIsTier, ReturnedOK, IsValid, TierOf, FindByJti
<1>10. QED
  BY <1>1, <1>2, <1>3, <1>4, <1>5, <1>6, <1>7, <1>8, <1>9 DEF Next

(* Both dictionaries agree at every moment, so a key issue has handed out  *)
(* is accepted; no key is valid beside the one its jti maps to; and the    *)
(* prefix shows the stored tier.                                           *)
THEOREM Safety ==
    Spec => [](TypeOK /\ MutualExclusion /\ JtiKeyValid /\ NoOrphanKey /\ PrefixIsTier)
<1>1. IInv => TypeOK /\ MutualExclusion /\ JtiKeyValid /\ NoOrphanKey /\ PrefixIsTier
  BY DEF IInv
<1>2. QED
  BY InitIInv, StepIInv, <1>1, PTL DEF Spec

(* A jti keeps its key and a key its record, whatever is called later.     *)
THEOREM Idempotence == Spec => NeverReissued
<1> DEFINE Kept == /\ \A j \in Jti : byJti[j] # NoKey => byJti'[j] = byJti[j]
                   /\ \A k \in Key : byKey[k] # NoRec => byKey'[k] = byKey[k]
<1>1. IInv /\ [Next]_vars => [Kept]_vars
  <2> SUFFICES ASSUME IInv, Next PROVE Kept
    BY DEF vars
  <2> USE DEF IInv, TypeOK
  <2>1. ASSUME NEW t \in Thread, PutKey(t) PROVE Kept
    BY <2>1 DEF PutKey, PendingOK
  <2>2. ASSUME NEW t \in Thread, PutJti(t) PROVE Kept
    BY <2>2 DEF PutJti, PendingOK
  <2>3. CASE UNCHANGED <<byKey, byJti>>
    BY <2>3
  <2>4. QED
    BY <2>1, <2>2, <2>3 DEF Next, Call, Enter, Lookup, Mint, Leave, Return
<1>2. QED
  BY InitIInv, StepIInv, <1>1, PTL DEF Spec, NeverReissued

(* The lock-and-two-dictionaries store implements the atomic, idempotent   *)
(* issuer: every call takes effect at one moment between its start and its *)
(* end.                                                                    *)
THEOREM Refinement == Spec => ImplementsPromise
<1>1. Init => Promise!Init
  BY DEF Init, Promise!Init, phaseOf
<1>2. IInv /\ IInv' /\ [Next]_vars => [Promise!Next]_Promise!vars
  <2> SUFFICES ASSUME IInv, IInv', [Next]_vars PROVE [Promise!Next]_Promise!vars
    OBVIOUS
  <2> USE NoKeyAssumption DEF IInv, TypeOK, Promise!Next, Promise!vars, Goto
  <2>a. ASSUME NEW t \in Thread, NEW stage \in Stage, Goto(t, stage)
        PROVE  phaseOf' = [phaseOf EXCEPT ![t] =
                   CASE stage = "idle" -> "idle"
                     [] stage \in {"enter", "lookup", "mint", "putKey", "putJti"} -> "asked"
                     [] OTHER -> "answered"]
    BY <2>a DEF phaseOf
  <2>1. ASSUME NEW t \in Thread, NEW tier \in Tier, NEW j \in Jti, Call(t, tier, j)
        PROVE  Promise!Next
    BY <2>1, <2>a DEF Call, Promise!Ask, phaseOf, Stage
  <2>2. ASSUME NEW t \in Thread, Enter(t) PROVE UNCHANGED Promise!vars
    <3>1. phaseOf' = [phaseOf EXCEPT ![t] = "asked"] /\ phaseOf[t] = "asked"
      BY <2>2, <2>a DEF Enter, phaseOf, Stage
    <3>2. phaseOf' = phaseOf
      BY <3>1 DEF phaseOf
    <3>3. QED
      BY <2>2, <3>2 DEF Enter
  <2>3. ASSUME NEW t \in Thread, Lookup(t) PROVE [Promise!Next]_Promise!vars
    <3>1. CASE byJti[arg[t].jti] # NoKey
      <4>1. Promise!AnswerExisting(t)
        BY <2>3, <2>a, <3>1 DEF Lookup, Promise!AnswerExisting, phaseOf, Stage
      <4>2. QED
        BY <4>1
    <3>2. CASE byJti[arg[t].jti] = NoKey
      BY <2>3, <2>a, <3>2 DEF Lookup, phaseOf, Stage
    <3>3. QED
      BY <3>1, <3>2
  <2>4. ASSUME NEW t \in Thread, Mint(t) PROVE [Promise!Next]_Promise!vars
    <3>1. CASE arg[t].tier \in Mintable
      BY <2>4, <2>a, <3>1 DEF Mint, phaseOf, Stage
    <3>2. CASE arg[t].tier \notin Mintable
      <4>1. Promise!Refuse(t)
        BY <2>4, <2>a, <3>2 DEF Mint, Promise!Refuse, PendingOK, phaseOf, Stage
      <4>2. QED
        BY <4>1
    <3>3. QED
      BY <3>1, <3>2
  <2>5. ASSUME NEW t \in Thread, PutKey(t) PROVE UNCHANGED Promise!vars
    <3>1. phaseOf' = [phaseOf EXCEPT ![t] = "asked"] /\ phaseOf[t] = "asked"
      BY <2>5, <2>a DEF PutKey, phaseOf, Stage
    <3>2. phaseOf' = phaseOf
      BY <3>1 DEF phaseOf
    <3>3. QED
      BY <2>5, <3>2 DEF PutKey
  <2>6. ASSUME NEW t \in Thread, PutJti(t) PROVE Promise!AnswerNew(t)
    <3>1. /\ key[t] \in Promise!Key /\ key[t].tier = arg[t].tier
          /\ byJti[arg[t].jti] = NoKey /\ byKey[key[t]] = arg[t]
      BY <2>6 DEF PutJti, PendingOK, Promise!Key, Key
    <3>2. ASSUME NEW j \in Jti PROVE byJti[j] # key[t]
      BY <3>1 DEF JtiKeyValid, FindByJti, IsValid, Promise!Key, Key
    <3>3. phaseOf[t] = "asked" /\ phaseOf' = [phaseOf EXCEPT ![t] = "answered"]
      BY <2>6, <2>a DEF PutJti, phaseOf, Stage
    <3>4. QED
      BY <2>6, <3>1, <3>2, <3>3 DEF PutJti, Promise!AnswerNew
  <2>7. ASSUME NEW t \in Thread, Leave(t) PROVE UNCHANGED Promise!vars
    BY <2>7, <2>a DEF Leave, phaseOf, Stage
  <2>8. ASSUME NEW t \in Thread, Return(t) PROVE Promise!Finish(t)
    BY <2>8, <2>a DEF Return, Promise!Finish, phaseOf, Stage
  <2>9. CASE UNCHANGED vars
    BY <2>9 DEF vars, phaseOf
  <2>10. QED
    BY <2>1, <2>2, <2>3, <2>4, <2>5, <2>6, <2>7, <2>8, <2>9 DEF Next
<1>3. QED
  BY InitIInv, StepIInv, <1>1, <1>2, PTL DEF Spec, ImplementsPromise, Promise!Spec

-----------------------------------------------------------------------------
(* The space weather.  DefaultsAreFlagged says nothing of the entry, from  *)
(* which the next caller is answered: Truthful also holds of it, and once  *)
(* a fetch is over its data are measured or defaults.                      *)
Truthful(answer) ==
    /\ answer.partial <=> Weather!AnyFailed(answer.data)
    /\ answer.source = "noaa" => \A s \in Weather!Source : answer.data[s] = "real"
    /\ answer.source = "default" => Weather!BothFailed(answer.data)

Honest == Truthful(cached) /\ \A k \in Task : Truthful(weatherReply[k])

WeatherInv == Weather!CacheOK /\ Honest

(* What a fetch brought makes a truthful entry, even with a default in it. *)
LEMMA EntryTruthful ==
    ASSUME NEW data \in [Weather!Source -> {"real", "default"}]
    PROVE  /\ Truthful(Weather!Entry(data, Weather!AnyFailed(data)))
           /\ Weather!Entry(data, Weather!AnyFailed(data)) \in
                 [data : [Weather!Source -> {"real", "default"}], partial : BOOLEAN,
                  source : {"noaa", "noaa_partial"}]
<1>1. CASE Weather!AnyFailed(data)
  BY <1>1 DEF Truthful, Weather!Entry, Weather!SourceName, Weather!AnyFailed,
     Weather!BothFailed, Weather!Source
<1>2. CASE ~Weather!AnyFailed(data)
  BY <1>2 DEF Truthful, Weather!Entry, Weather!SourceName, Weather!AnyFailed,
     Weather!BothFailed, Weather!Source
<1>3. QED
  BY <1>1, <1>2

(* A task that has returned is idle, and keeps an answer.                  *)
Said == [data : [Weather!Source -> Weather!Result], partial : BOOLEAN,
           source : {"none", "noaa", "noaa_partial", "default"}]

LEMMA ReturnTyped ==
    ASSUME Weather!TypeOK, NEW k \in Task, NEW answer \in Said, Weather!Return(k, answer)
    PROVE  /\ weatherPc' \in [Task -> {"idle", "gather"}]
           /\ got' \in [Task -> [Weather!Source -> Weather!Result]]
           /\ weatherReply' \in [Task -> Said]
<1>1. Weather!Pending \in [Weather!Source -> Weather!Result]
  BY DEF Weather!Pending, Weather!Result
<1>2. QED
  BY <1>1 DEF Weather!Return, Weather!TypeOK, Said

LEMMA EntryIsSaid ==
    ASSUME NEW entry \in [data : [Weather!Source -> {"real", "default"}], partial : BOOLEAN,
                           source : {"noaa", "noaa_partial"}]
    PROVE  entry \in Said
<1>1. entry.data \in [Weather!Source -> Weather!Result]
  BY DEF Weather!Result
<1>2. QED
  BY <1>1 DEF Said

(* An answer to one task leaves those of the others as they were.          *)
LEMMA ReturnHonest ==
    ASSUME Weather!TypeOK, Honest, NEW k \in Task, NEW answer,
           Weather!Return(k, answer), Truthful(answer)
    PROVE  \A j \in Task : Truthful(weatherReply'[j])
<1>1. \A j \in Task : weatherReply'[j] = IF j = k THEN answer ELSE weatherReply[j]
  BY DEF Weather!Return, Weather!TypeOK
<1>2. QED
  BY <1>1 DEF Honest

LEMMA WeatherInit == ASSUME Weather!TtlOK, Weather!Init PROVE WeatherInv
<1>1. /\ Weather!Default \in [Weather!Source -> {"real", "default"}]
      /\ Weather!Pending \in [Weather!Source -> Weather!Result]
  BY DEF Weather!Default, Weather!Pending, Weather!Result
<1>2. Weather!Entry(Weather!Default, TRUE) \in
          [data : [Weather!Source -> {"real", "default"}], partial : BOOLEAN, source : {"noaa", "noaa_partial"}]
  BY <1>1 DEF Weather!Entry, Weather!SourceName
<1>3. Weather!CacheOK
  <2>1. Weather!NoReply \in Said
    BY <1>1 DEF Weather!NoReply, Said
  <2>2. weatherReply \in [Task -> Said]
    BY <2>1 DEF Weather!Init
  <2>3. /\ got \in [Task -> [Weather!Source -> Weather!Result]]
        /\ weatherPc \in [Task -> {"idle", "gather"}]
    BY <1>1 DEF Weather!Init
  <2>4. /\ up \in [Weather!Source -> BOOLEAN] /\ life \in 0 .. Ttl /\ age \in Nat
        /\ cached \in [data : [Weather!Source -> {"real", "default"}], partial : BOOLEAN,
                       source : {"noaa", "noaa_partial"}]
    <3>1. /\ up \in [Weather!Source -> BOOLEAN] /\ life = 0 /\ age = 0
          /\ cached = Weather!Entry(Weather!Default, TRUE)
      BY Zenon DEF Weather!Init
    <3>2. 0 \in 0 .. Ttl /\ 0 \in Nat
      BY DEF Weather!TtlOK
    <3>3. QED
      BY <1>2, <3>1, <3>2, Zenon
  <2>5. ~(life > 0)
    BY DEF Weather!Init
  <2>6. Weather!TypeOK
    BY <2>2, <2>3, <2>4, Zenon DEF Weather!TypeOK, Said
  <2>7. QED
    BY <2>5, <2>6 DEF Weather!CacheOK
<1>4. Truthful(cached)
  <2>1. Weather!AnyFailed(Weather!Default)
    BY DEF Weather!AnyFailed, Weather!Default, Weather!Source
  <2>2. QED
    BY <1>1, <2>1, EntryTruthful DEF Weather!Init, Weather!Entry
<1>5. \A k \in Task : Truthful(weatherReply[k])
  BY DEF Weather!Init, Weather!NoReply, Truthful, Weather!AnyFailed, Weather!Pending,
     Weather!Source
<1>6. QED
  BY <1>3, <1>4, <1>5 DEF WeatherInv, Honest

(* Every step leaves the cache within its life and every answer truthful.  *)
LEMMA WeatherStep == ASSUME Weather!TtlOK, WeatherInv, [Weather!Next]_weatherVars
                     PROVE  WeatherInv'
<1> USE DEF WeatherInv
<1>1. CASE Weather!Tick
  <2>1. Weather!CacheOK'
    BY <1>1 DEF Weather!Tick, Weather!CacheOK, Weather!TypeOK, Weather!TtlOK
  <2>2. QED
    BY <1>1, <2>1 DEF Weather!Tick, Honest, Truthful, Weather!AnyFailed, Weather!BothFailed
<1>2. ASSUME NEW s \in Weather!Source, Weather!EndpointChanges(s) PROVE WeatherInv'
  BY <1>2 DEF Weather!EndpointChanges, Weather!CacheOK, Weather!TypeOK, Honest, Truthful,
     Weather!AnyFailed, Weather!BothFailed
<1>3. ASSUME NEW k \in Task, Weather!Call(k) PROVE WeatherInv'
  <2>1. Weather!CacheOK'
    <3>2. CASE life > 0
      <4>1. cached \in Said /\ Weather!Return(k, cached)
        BY <1>3, <3>2, EntryIsSaid DEF Weather!Call, Weather!CacheOK, Weather!TypeOK
      <4>2. QED
        BY <1>3, <4>1, ReturnTyped DEF Weather!Call, Weather!CacheOK, Weather!TypeOK, Said
    <3>3. CASE ~(life > 0)
      BY <1>3, <3>3 DEF Weather!Call, Weather!Miss, Weather!CacheOK, Weather!TypeOK
    <3>4. QED
      BY <3>2, <3>3
  <2>2. Truthful(cached)'
    BY <1>3 DEF Weather!Call, Honest, Truthful, Weather!AnyFailed, Weather!BothFailed
  <2>3. \A j \in Task : Truthful(weatherReply'[j])
    <3>1. CASE life > 0
      BY <1>3, <3>1, ReturnHonest DEF Weather!Call, Weather!CacheOK, Honest
    <3>2. CASE ~(life > 0)
      BY <1>3, <3>2 DEF Weather!Call, Weather!Miss, Honest
    <3>3. QED
      BY <3>1, <3>2
  <2>4. QED
    BY <2>1, <2>2, <2>3 DEF Honest, Truthful, Weather!AnyFailed, Weather!BothFailed
<1>4. ASSUME NEW k \in Task, NEW s \in Weather!Source, Weather!Fetch(k, s) PROVE WeatherInv'
  <2>1. Weather!CacheOK'
    BY <1>4 DEF Weather!Fetch, Weather!CacheOK, Weather!TypeOK, Weather!Result
  <2>2. QED
    BY <1>4, <2>1 DEF Weather!Fetch, Honest, Truthful, Weather!AnyFailed, Weather!BothFailed
<1>5. ASSUME NEW k \in Task, Weather!Finish(k) PROVE WeatherInv'
  <2>1. got[k] \in [Weather!Source -> {"real", "default"}]
    BY <1>5 DEF Weather!Finish, Weather!CacheOK, Weather!TypeOK, Weather!Result
  <2>2. /\ Truthful(cached')
        /\ cached' \in [data : [Weather!Source -> {"real", "default"}], partial : BOOLEAN,
                        source : {"noaa", "noaa_partial"}]
    BY <1>5, <2>1, EntryTruthful DEF Weather!Finish
  <2>3. Weather!CacheOK'
    <3>1. cached' \in Said /\ Weather!Return(k, cached')
      BY <1>5, <2>2, EntryIsSaid DEF Weather!Finish
    <3>2. QED
      BY <1>5, <2>2, <3>1, ReturnTyped
         DEF Weather!Finish, Weather!CacheOK, Weather!TypeOK, Weather!TtlOK, Said
  <2>4. \A j \in Task : Truthful(weatherReply'[j])
    BY <1>5, <2>2, ReturnHonest DEF Weather!Finish, Weather!CacheOK
  <2>5. QED
    BY <2>2, <2>3, <2>4 DEF Honest, Truthful, Weather!AnyFailed, Weather!BothFailed
<1>6. ASSUME NEW k \in Task, Weather!OrchestrationFails(k) PROVE WeatherInv'
  <2> DEFINE answer == [data |-> Weather!Default, partial |-> TRUE, source |-> "default"]
  <2>1. answer \in Said /\ Weather!Return(k, answer)
    BY <1>6 DEF Weather!OrchestrationFails, Said, Weather!Default, Weather!Result
  <2>2. Truthful(answer)
    BY DEF Truthful, Weather!AnyFailed, Weather!BothFailed, Weather!Default, Weather!Source
  <2> HIDE DEF answer
  <2>3. Weather!CacheOK'
    BY <1>6, <2>1, ReturnTyped
       DEF Weather!OrchestrationFails, Weather!CacheOK, Weather!TypeOK, Said
  <2>4. \A j \in Task : Truthful(weatherReply'[j])
    BY <2>1, <2>2, ReturnHonest DEF Weather!CacheOK
  <2>5. QED
    BY <1>6, <2>3, <2>4
       DEF Weather!OrchestrationFails, Honest, Truthful, Weather!AnyFailed, Weather!BothFailed
<1>7. CASE UNCHANGED weatherVars
  BY <1>7 DEF weatherVars, Weather!CacheOK, Weather!TypeOK, Honest, Truthful, Weather!AnyFailed,
     Weather!BothFailed
<1>8. QED
  BY <1>1, <1>2, <1>3, <1>4, <1>5, <1>6, <1>7 DEF Weather!Next

-----------------------------------------------------------------------------
(* The places.  A list in the cache is what upstream gave for the entry's  *)
(* key, and an entry that is there is as old as its life says; the answer  *)
(* "ok" of the endpoint was given in confidence.                           *)
Kept(q) ==
    /\ cache[q].age + cache[q].life = Ttl
    /\ cache[q].list.of = q

GeoCache ==
    /\ cache \in [Geo!Query -> [list : Geo!List, life : 0 .. Ttl, age : -1 .. Ttl]]
    /\ \A q \in Geo!Cached : Kept(q)
    /\ IsFiniteSet(Geo!Cached) /\ Cardinality(Geo!Cached) <= MaxEntries

Status == {"none", "ok", "400", "404", "422", "503"}
FromUpstream(t) ==
    /\ geoReply[t] \in {"ok", "404", "422"} => shown[t].of = query[t]
    /\ geoReply[t] = "ok" /\ caller[t] = "endpoint" =>
          shown[t].ranked # <<>> /\ Geo!Confident(shown[t].ranked)

GeoTasks ==
    /\ geoPc \in [Task -> {"idle", "lookup", "fetch"}]
    /\ caller \in [Task -> Geo!Caller] /\ query \in [Task -> Geo!Query]
    /\ shown \in [Task -> Geo!List] /\ geoReply \in [Task -> Status]
    /\ \A t \in Task : FromUpstream(t)

GeoInv == GeoCache /\ GeoTasks

(* Both modules count alike.                                               *)
LEMMA OneCardinality == \A S : Geo!Cardinality(S) = Cardinality(S)
BY DEF Geo!Cardinality, Cardinality

(* The endpoint's confidence: the first of several candidates is known to  *)
(* be larger than the second.                                              *)
LEMMA ConfidenceDecides ==
    ASSUME Geo!RankingOK, NEW ranked \in Ranking, ranked # <<>>, Geo!Confident(ranked)
    PROVE  Len(ranked) = 1 \/ (Unknown \notin {ranked[1], ranked[2]} /\ ranked[1] > ranked[2])
<1>1. CASE Len(ranked) = 1
  BY <1>1
<1>2. CASE Len(ranked) # 1
  <2>1. ranked \in Seq(Int \cup {Unknown}) /\ Len(ranked) \in Nat /\ Len(ranked) # 0
    BY DEF Geo!RankingOK
  <2>2. ranked[1] # Unknown /\ ranked[2] # Unknown
    BY <1>2 DEF Geo!Confident
  <2>3. 1 \in 1 .. Len(ranked) /\ 2 \in 1 .. Len(ranked)
    <3>1. \A n \in Nat : n # 0 /\ n # 1 => 1 \in 1 .. n /\ 2 \in 1 .. n
      OBVIOUS
    <3> QED  BY <1>2, <2>1, <3>1, Zenon
  <2>4. ranked[1] \in Int /\ ranked[2] \in Int
    BY <2>1, <2>2, <2>3
  <2>5. ranked[1] + ranked[2] > 0 /\ 5 * ranked[1] >= 3 * (ranked[1] + ranked[2])
    BY <1>2, <2>4 DEF Geo!Confident
  <2> QED  BY <2>2, <2>4, <2>5
<1> QED  BY <1>1, <1>2

(* An empty place of the cache is not counted, a filled one is.            *)
LEMMA NoEntryIsEmpty ==
    ASSUME Geo!RankingOK, Geo!BoundOK
    PROVE  /\ Geo!Nothing \in Geo!List
           /\ Geo!NoEntry \in [list : Geo!List, life : 0 .. Ttl, age : -1 .. Ttl]
           /\ Geo!NoEntry.life = 0 /\ Geo!NoEntry.age = -1
BY DEF Geo!RankingOK, Geo!BoundOK, Geo!Nothing, Geo!NoEntry, Geo!List

LEMMA GeoInit == ASSUME Geo!RankingOK, Geo!BoundOK, Geo!Init PROVE GeoInv
<1>1. Geo!Cached = {}
  BY DEF Geo!Init, Geo!Cached
<1>2. GeoCache
  BY <1>1, NoEntryIsEmpty, FS_EmptySet DEF Geo!Init, Geo!BoundOK, GeoCache
<1>3. GeoTasks
  BY NoEntryIsEmpty DEF Geo!Init, GeoTasks, FromUpstream, Status, Geo!Caller
<1> QED  BY <1>2, <1>3 DEF GeoInv

(* What a task is answered with, when it is a list given for its query.    *)
LEMMA GeoAnswer ==
    ASSUME GeoTasks, NEW t \in Task, NEW list \in Geo!List, NEW code \in Status,
           Geo!Answer(t, list, code), UNCHANGED <<caller, query>>,
           code \in {"ok", "404", "422"} => list.of = query[t] /\ code = Geo!Outcome(t, list)
    PROVE  GeoTasks'
<1>1. /\ geoPc' \in [Task -> {"idle", "lookup", "fetch"}]
      /\ shown' \in [Task -> Geo!List] /\ geoReply' \in [Task -> Status]
      /\ shown'[t] = list /\ geoReply'[t] = code
      /\ \A u \in Task \ {t} : shown'[u] = shown[u] /\ geoReply'[u] = geoReply[u]
  BY DEF Geo!Answer, GeoTasks
<1>2. code = "ok" /\ caller[t] = "endpoint" => list.ranked # <<>> /\ Geo!Confident(list.ranked)
  BY DEF Geo!Outcome
<1>3. \A u \in Task : FromUpstream(u)'
  BY <1>1, <1>2 DEF GeoTasks, FromUpstream, Geo!Confident
<1> QED  BY <1>1, <1>3 DEF GeoTasks

(* A cache each of whose places is as before or empty is no fuller.        *)
LEMMA GeoDrop ==
    ASSUME Geo!RankingOK, Geo!BoundOK, GeoCache,
           cache' \in [Geo!Query -> [list : Geo!List, life : 0 .. Ttl, age : -1 .. Ttl]],
           \A q \in Geo!Query : cache'[q] \in {cache[q], Geo!NoEntry}
    PROVE  GeoCache'
<1>1. Geo!Cached' \subseteq Geo!Cached /\ \A q \in Geo!Cached' : cache'[q] = cache[q]
  BY DEF Geo!Cached, GeoCache
<1>2. IsFiniteSet(Geo!Cached') /\ Cardinality(Geo!Cached') <= Cardinality(Geo!Cached)
      /\ Cardinality(Geo!Cached') \in Nat /\ Cardinality(Geo!Cached) \in Nat
  BY <1>1, FS_Subset, FS_CardinalityType DEF GeoCache
<1>3. \A q \in Geo!Cached' : Kept(q)'
  BY <1>1 DEF GeoCache, Kept
<1> QED  BY <1>2, <1>3 DEF GeoCache, Geo!BoundOK

LEMMA GeoStep == ASSUME Geo!RankingOK, Geo!BoundOK, GeoInv, [Geo!Next]_geoVars PROVE GeoInv'
<1> USE DEF GeoInv
<1>t. /\ \A q \in Geo!Query : cache[q] \in [list : Geo!List, life : 0 .. Ttl, age : -1 .. Ttl]
      /\ DOMAIN cache = Geo!Query
      /\ \A q \in Geo!Cached : q \in Geo!Query /\ Kept(q)
      /\ \A q \in Geo!Query \ Geo!Cached : cache[q] = Geo!NoEntry
  BY DEF GeoCache, Geo!Cached
<1>1. CASE Geo!Tick
  <2>1. ASSUME NEW q \in Geo!Query
        PROVE  /\ cache'[q] \in [list : Geo!List, life : 0 .. Ttl, age : -1 .. Ttl]
               /\ (q \in Geo!Cached') <=> (q \in Geo!Cached)
               /\ q \in Geo!Cached => Kept(q)'
    <3>1. CASE cache[q].life > 0
      <4>1. q \in Geo!Cached /\ cache[q].age + cache[q].life = Ttl /\ cache[q].list.of = q
        BY <1>t, <3>1, NoEntryIsEmpty DEF Kept
      <4>2. /\ cache[q].life \in 1 .. Ttl /\ cache[q].age \in Int /\ cache[q].list \in Geo!List
            /\ Ttl \in Nat
        BY <1>t, <3>1 DEF Geo!BoundOK
      <4>3. cache'[q] = [cache[q] EXCEPT !.life = @ - 1, !.age = IF @ > Ttl THEN @ ELSE @ + 1]
        BY <1>1, <3>1 DEF Geo!Tick
      <4>4. /\ cache'[q].life = cache[q].life - 1 /\ cache'[q].age = cache[q].age + 1
            /\ cache'[q].list = cache[q].list
            /\ cache'[q] \in [list : Geo!List, life : 0 .. Ttl, age : -1 .. Ttl]
        <5>1. cache[q].age < Ttl /\ cache[q].age + 1 \in -1 .. Ttl /\ cache[q].life - 1 \in 0 .. Ttl
          BY <4>1, <4>2
        <5>2. ~(cache[q].age > Ttl)
          BY <4>2, <5>1
        <5>3. cache'[q] = [cache[q] EXCEPT !.life = @ - 1, !.age = @ + 1]
          BY <4>3, <5>2
        <5> QED  BY <1>t, <4>2, <5>1, <5>3
      <4>5. cache'[q] # Geo!NoEntry
        BY <4>1, <4>2, <4>4, NoEntryIsEmpty
      <4>6. q \in Geo!Cached'
        BY <1>1, <4>5 DEF Geo!Cached, Geo!Tick
      <4> QED  BY <4>1, <4>2, <4>4, <4>6 DEF Kept
    <3>2. CASE ~(cache[q].life > 0)
      <4>1. cache'[q] = cache[q] /\ DOMAIN cache' = Geo!Query
        BY <1>1, <3>2 DEF Geo!Tick
      <4> QED  BY <1>t, <4>1 DEF Geo!Cached, Kept
    <3> QED  BY <3>1, <3>2
  <2>2. cache' = [q \in Geo!Query |-> cache'[q]]
    BY <1>1 DEF Geo!Tick
  <2>3. cache' \in [Geo!Query -> [list : Geo!List, life : 0 .. Ttl, age : -1 .. Ttl]]
    BY <2>1, <2>2
  <2>4. Geo!Cached' = Geo!Cached
    BY <2>1, <2>2 DEF Geo!Cached, GeoCache
  <2>5. GeoCache'
    BY <1>t, <2>1, <2>3, <2>4 DEF GeoCache
  <2>6. GeoTasks'
    BY <1>1 DEF Geo!Tick, GeoTasks, FromUpstream, Geo!Confident
  <2> QED  BY <2>5, <2>6
<1>2. CASE Geo!Clear
  <2>1. GeoCache'
    BY <1>2, <1>t, NoEntryIsEmpty, GeoDrop DEF Geo!Clear
  <2> QED  BY <1>2, <2>1 DEF Geo!Clear, GeoTasks, FromUpstream, Geo!Confident
<1>3. ASSUME NEW t \in Task, NEW c \in Geo!Caller, NEW q \in Geo!Query, Geo!Arrive(t, c, q)
      PROVE  GeoInv'
  <2>1. GeoCache'
    BY <1>3 DEF Geo!Arrive, GeoCache, Kept, Geo!Cached
  <2>2. /\ geoPc' \in [Task -> {"idle", "lookup", "fetch"}] /\ caller' \in [Task -> Geo!Caller]
        /\ query' \in [Task -> Geo!Query] /\ shown' \in [Task -> Geo!List]
        /\ geoReply' \in [Task -> Status]
    BY <1>3, NoEntryIsEmpty DEF Geo!Arrive, GeoTasks, Status
  <2>3. /\ geoReply'[t] = "none"
        /\ \A u \in Task \ {t} : /\ caller'[u] = caller[u] /\ query'[u] = query[u]
                                 /\ shown'[u] = shown[u] /\ geoReply'[u] = geoReply[u]
    BY <1>3 DEF Geo!Arrive, GeoTasks
  <2>4. \A u \in Task : FromUpstream(u)'
    BY <2>3 DEF GeoTasks, FromUpstream, Geo!Confident
  <2> QED  BY <2>1, <2>2, <2>4 DEF GeoTasks
<1>4. ASSUME NEW t \in Task, NEW altered \in BOOLEAN, Geo!Hit(t, altered) PROVE GeoInv'
  <2> DEFINE k == query[t]
  <2>1. k \in Geo!Query /\ k \in Geo!Cached /\ cache[k].list \in Geo!List /\ cache[k].list.of = k
    <3>1. k \in Geo!Query /\ cache[k].life > 0
      BY <1>4 DEF Geo!Hit, Geo!CacheKey, GeoTasks
    <3> QED  BY <1>t, <3>1, NoEntryIsEmpty DEF Kept
  <2>2. cache' = cache
    <3>1. cache' = [cache EXCEPT ![k].list = cache[k].list]
      BY <1>4 DEF Geo!Hit, Geo!CacheKey, Geo!DeepCopied
    <3>2. [cache[k] EXCEPT !.list = cache[k].list] = cache[k]
      BY <1>t, <2>1
    <3>3. cache' = [cache EXCEPT ![k] = cache[k]]
      BY <3>1, <3>2
    <3> QED  BY <2>1, <3>3 DEF GeoCache
  <2>3. GeoCache'
    BY <2>2 DEF GeoCache, Kept, Geo!Cached
  <2>4. Geo!Outcome(t, cache[k].list) \in Status
    BY DEF Geo!Outcome, Status
  <2>5. GeoTasks'
    BY <1>4, <2>1, <2>4, GeoAnswer DEF Geo!Hit, Geo!CacheKey
  <2> QED  BY <2>3, <2>5
<1>5. ASSUME NEW t \in Task, Geo!Miss(t) PROVE GeoInv'
  <2>1. GeoCache'
    BY <1>5, <1>t, NoEntryIsEmpty, GeoDrop DEF Geo!Miss, GeoCache
  <2>2. GeoTasks'
    BY <1>5 DEF Geo!Miss, GeoTasks, FromUpstream, Geo!Confident
  <2> QED  BY <2>1, <2>2
<1>6. ASSUME NEW t \in Task, NEW altered \in BOOLEAN, NEW ranked \in Ranking,
             Geo!Fetched(t, ranked, altered)
      PROVE  GeoInv'
  <2> DEFINE k == query[t]
             list == [of |-> k, ranked |-> ranked]
             kept == Geo!Room(Geo!Cached)
             new == [list |-> list, life |-> Ttl, age |-> 0]
  <2>1. k \in Geo!Query /\ list \in Geo!List /\ list.of = k
    BY DEF GeoTasks, Geo!List
  <2>2. new \in [list : Geo!List, life : 0 .. Ttl, age : -1 .. Ttl] /\ new # Geo!NoEntry
    BY <2>1, NoEntryIsEmpty DEF Geo!BoundOK
  <2>3. cache' = [q \in Geo!Query |->
                     IF q = k THEN new ELSE IF q \in kept THEN cache[q] ELSE Geo!NoEntry]
    BY <1>6 DEF Geo!Fetched, Geo!CacheKey, Geo!DeepCopied
  <2>4. /\ kept \subseteq Geo!Cached /\ IsFiniteSet(kept) /\ Cardinality(kept) \in Nat
        /\ Cardinality(kept) < MaxEntries
    <3>1. IsFiniteSet(Geo!Cached) /\ Cardinality(Geo!Cached) \in Nat
      BY FS_CardinalityType DEF GeoCache
    <3>2. MaxEntries \in Nat \ {0} /\ IsFiniteSet({}) /\ Cardinality({}) = 0
      BY FS_EmptySet DEF Geo!BoundOK
    <3>3. CASE Cardinality(Geo!Cached) >= MaxEntries
      BY <3>2, <3>3, OneCardinality DEF Geo!Room
    <3>4. CASE ~(Cardinality(Geo!Cached) >= MaxEntries)
      <4>1. kept = Geo!Cached
        BY <3>4, OneCardinality DEF Geo!Room
      <4> QED  BY <3>1, <3>2, <3>4, <4>1
    <3> QED  BY <3>3, <3>4
  <2> HIDE DEF new, kept
  <2>5. /\ Geo!Cached' \subseteq kept \cup {k}
        /\ \A q \in Geo!Cached' : q = k \/ (cache'[q] = cache[q] /\ q \in Geo!Cached)
    <3>1. /\ \A q \in Geo!Query : q # k /\ q \in kept => cache'[q] = cache[q]
          /\ \A q \in Geo!Query : q # k /\ q \notin kept => cache'[q] = Geo!NoEntry
          /\ DOMAIN cache' = Geo!Query
      BY <2>3
    <3>2. \A q \in Geo!Cached' : q \in Geo!Query /\ cache'[q] # Geo!NoEntry
      BY <3>1 DEF Geo!Cached
    <3> QED  BY <2>4, <3>1, <3>2
  <2>6. IsFiniteSet(Geo!Cached') /\ Cardinality(Geo!Cached') <= MaxEntries
    <3>1. /\ IsFiniteSet(kept \cup {k}) /\ Cardinality(kept \cup {k}) <= Cardinality(kept) + 1
          /\ Cardinality(kept \cup {k}) \in Nat
      <4>1. /\ IsFiniteSet(kept \cup {k})
            /\ Cardinality(kept \cup {k}) =
                  IF k \in kept THEN Cardinality(kept) ELSE Cardinality(kept) + 1
        BY <2>4, FS_AddElement
      <4> QED  BY <2>4, <4>1
    <3>2. IsFiniteSet(Geo!Cached') /\ Cardinality(Geo!Cached') <= Cardinality(kept \cup {k})
          /\ Cardinality(Geo!Cached') \in Nat
      BY <2>5, <3>1, FS_Subset, FS_CardinalityType
    <3> QED  BY <2>4, <3>1, <3>2 DEF Geo!BoundOK
  <2>7. \A q \in Geo!Cached' : Kept(q)'
    <3>1. cache'[k] = new /\ new.age + new.life = Ttl /\ new.list.of = k
      BY <2>1, <2>3 DEF new, Geo!BoundOK
    <3> QED  BY <1>t, <2>5, <3>1 DEF Kept
  <2>8. cache' \in [Geo!Query -> [list : Geo!List, life : 0 .. Ttl, age : -1 .. Ttl]]
    BY <1>t, <2>2, <2>3, NoEntryIsEmpty
  <2>9. GeoCache'
    BY <2>6, <2>7, <2>8 DEF GeoCache
  <2>10. Geo!Outcome(t, list) \in Status
    BY DEF Geo!Outcome, Status
  <2>11. GeoTasks'
    BY <1>6, <2>1, <2>10, GeoAnswer DEF Geo!Fetched
  <2> QED  BY <2>9, <2>11
<1>7. ASSUME NEW t \in Task, Geo!FetchFails(t) PROVE GeoInv'
  <2>1. GeoCache'
    BY <1>7 DEF Geo!FetchFails, GeoCache, Kept, Geo!Cached
  <2>2. GeoTasks'
    BY <1>7, NoEntryIsEmpty, GeoAnswer DEF Geo!FetchFails, Status
  <2> QED  BY <2>1, <2>2
<1>8. CASE UNCHANGED geoVars
  BY <1>8 DEF geoVars, GeoCache, GeoTasks, FromUpstream, Geo!Confident, Kept, Geo!Cached
<1> QED  BY <1>1, <1>2, <1>3, <1>4, <1>5, <1>6, <1>7, <1>8 DEF Geo!Next

-----------------------------------------------------------------------------
(* The process.                                                            *)
LEMMA ProcessInit == ServicesInit => WeatherInv /\ GeoInv /\ Init
BY WeatherInit, GeoInit, CachesAssumption DEF ServicesInit

LEMMA ProcessStep ==
    WeatherInv /\ GeoInv /\ [ServicesNext]_allVars => WeatherInv' /\ GeoInv' /\ [Next]_vars
<1> SUFFICES ASSUME WeatherInv, GeoInv, [ServicesNext]_allVars
             PROVE  WeatherInv' /\ GeoInv' /\ [Next]_vars
  OBVIOUS
<1>1. [Weather!Next]_weatherVars /\ [Geo!Next]_geoVars /\ [Next]_vars
  BY DEF ServicesNext, allVars
<1> QED  BY <1>1, WeatherStep, GeoStep, CachesAssumption

LEMMA ProcessInv == ServicesSpec => [](WeatherInv /\ GeoInv)
BY ProcessInit, ProcessStep, PTL DEF ServicesSpec

(* The keys of a process are those of its store alone: no key is valid     *)
(* without being its jti's, and every call of issue takes effect at one    *)
(* moment.                                                                 *)
THEOREM KeysAsPromised == ServicesSpec => []NoOrphanKey /\ ImplementsPromise
<1>1. ServicesSpec => Spec
  <2>1. ServicesSpec => [](WeatherInv /\ GeoInv) /\ ServicesInit /\ [][ServicesNext]_allVars
    BY ProcessInv, PTL DEF ServicesSpec
  <2>2. WeatherInv /\ GeoInv /\ [ServicesNext]_allVars => [Next]_vars
    BY ProcessStep
  <2>3. ServicesInit => Init
    BY DEF ServicesInit
  <2> QED  BY <2>1, <2>2, <2>3, PTL DEF Spec
<1> QED  BY <1>1, Safety, Refinement, PTL

(* Both caches hold what their lives and the cap allow: nothing older than *)
(* its life however often it was hit and however late a fetch stores, and  *)
(* no more places than MaxEntries although tasks that missed store after   *)
(* their await.                                                            *)
THEOREM CachesBounded == ServicesSpec => []CachesOK
<1>1. WeatherInv /\ GeoInv => CachesOK
  <2> SUFFICES ASSUME WeatherInv, GeoInv PROVE Weather!CacheOK /\ Geo!CacheOK
    BY DEF CachesOK
  <2>1. Geo!TypeOK
    BY DEF GeoInv, GeoCache, GeoTasks, Geo!TypeOK, Status
  <2>2. /\ \A q \in Geo!Cached : cache[q].age + cache[q].life = Ttl
        /\ Geo!Cardinality(Geo!Cached) <= MaxEntries
    BY OneCardinality DEF GeoInv, GeoCache, Kept
  <2> QED  BY <2>1, <2>2 DEF WeatherInv, Geo!CacheOK
<1> QED  BY <1>1, ProcessInv, PTL

(* A default value of the space weather never passes for a measured one,   *)
(* whichever task filled the cache.                                        *)
THEOREM DefaultsFlagged == ServicesSpec => []DefaultsAreFlagged
<1>1. WeatherInv => DefaultsAreFlagged
  BY DEF WeatherInv, Honest, Truthful, DefaultsAreFlagged, Weather!DefaultsAreFlagged
<1> QED  BY <1>1, ProcessInv, PTL

(* An answer about a place is a list that upstream gave for this very      *)
(* query, and never a remembered failure.                                  *)
THEOREM UpstreamAnswers == ServicesSpec => []AnswerFromUpstream
<1>1. GeoInv => AnswerFromUpstream
  BY DEF GeoInv, GeoTasks, FromUpstream, AnswerFromUpstream, Geo!AnswerFromUpstream
<1> QED  BY <1>1, ProcessInv, PTL

(* /geocode never picks a place over a larger or equally large one,        *)
(* whatever populations upstream reports.                                  *)
THEOREM NotOvershadowed == ServicesSpec => []NeverOvershadowed
<1>1. GeoInv => NeverOvershadowed
  <2> SUFFICES ASSUME GeoInv, NEW t \in Task, geoReply[t] = "ok", caller[t] = "endpoint"
               PROVE  LET r == shown[t].ranked
                      IN  Len(r) = 1 \/ (Unknown \notin {r[1], r[2]} /\ r[1] > r[2])
    BY DEF NeverOvershadowed, Geo!NeverOvershadowed
  <2>1. shown[t].ranked \in Ranking /\ shown[t].ranked # <<>> /\ Geo!Confident(shown[t].ranked)
    BY DEF GeoInv, GeoTasks, FromUpstream, Geo!List
  <2> QED  BY <2>1, ConfidenceDecides, CachesAssumption
<1> QED  BY <1>1, ProcessInv, PTL
=============================================================================
