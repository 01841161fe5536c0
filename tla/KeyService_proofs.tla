-------------------------- MODULE KeyService_proofs --------------------------
(***************************************************************************)
(* For any threads, calls, jtis, keys and numbers of process lives: the    *)
(* issuance endpoint and the requests agree on the keys, and a production  *)
(* process never answers as if it had no authentication.                   *)
(***************************************************************************)
EXTENDS KeyService, TLAPS

Store == [Jti -> Secret \cup {NoKey}]
ThreadLabel == {"idle", "configured", "decide", "validate", "check"}
CallLabel == {"idle", "verify", "gate", "fetch", "issue"}
First == {"configured", "verify"}
Later == {"decide", "validate", "check", "gate", "fetch", "issue"}

(* Nothing goes on in a process that is not there.                         *)
Down ==
    ~up => /\ cache = <<>> /\ stores = <<>> /\ building = {}
           /\ \A r \in Request : pc[r] = "idle" /\ reply[r] = "none" /\ promised[r] = FALSE

(* Only a first call of get_key_store is ever inside its body, and no      *)
(* request gets past its first call before the cache is filled: what a     *)
(* second call returns is the cached store.                                *)
Memo ==
    /\ cache # <<>> => (cache[1] = NoStore <=> ~env.memory)
    /\ \A t \in AuthThread : pc[t] \in ThreadLabel
    /\ \A a \in AdminCall : pc[a] \in CallLabel
    /\ \A r \in Request :
          /\ r \in building => pc[r] \in First
          /\ pc[r] \in Later => cache # <<>>
          /\ r \in building \/ pc[r] \in {"decide", "gate"} =>
                /\ mine[r] \in 0 .. Len(stores)
                /\ mine[r] = NoStore <=> ~env.memory
          /\ pc[r] \in {"check", "issue"} => cache = <<mine[r]>>
          /\ pc[r] \in {"fetch", "issue"} => env.memory

(* The cached store holds what was handed out, and no store holds more.    *)
Ledger ==
    /\ up => \A h \in handed :
                cache # <<>> /\ cache[1] # NoStore /\ stores[cache[1]][h[1]] = h[2]
    /\ \A s \in 1 .. Len(stores) : \A j \in Jti :
          stores[s][j] # NoKey => <<j, stores[s][j]>> \in handed

(* A promise is a key that was handed out; a key is looked up if one was   *)
(* presented, and issued for a jti; the process has passed its guard.      *)
RequestsOK ==
    /\ \A t \in AuthThread :
          /\ pc[t] \in {"validate", "check"} => arg[t] # NoKey
          /\ promised[t] => arg[t] \in HandedKeys
    /\ \A a \in AdminCall : pc[a] # "idle" => arg[a] \in Jti
    /\ up => RuntimeConfigOK(env)

IInv == /\ TypeOK /\ Down /\ Memo /\ Ledger /\ RequestsOK
        /\ IssuedKeyAccepted /\ AcceptedKeyIsKnown /\ ProductionAuthenticates

-----------------------------------------------------------------------------
LEMMA InitIInv == Init => IInv
<1> SUFFICES ASSUME Init PROVE IInv
  OBVIOUS
<1> USE DEF Init, Request
<1>1. stores = <<>> /\ stores \in Seq([Jti -> Secret \cup {NoKey}])
  OBVIOUS
<1>2. cache \in {<<>>} \cup {<<s>> : s \in 0 .. Len(stores)}
  OBVIOUS
<1>3. TypeOK
  BY <1>1, <1>2 DEF TypeOK, Env, Label, Code, Presented, NoStore
<1>4. Down /\ Memo /\ Ledger
  BY RequestAssumption DEF Down, Memo, Ledger, First, Later, ThreadLabel, CallLabel, NoStore
<1>5. RequestsOK /\ IssuedKeyAccepted /\ AcceptedKeyIsKnown /\ ProductionAuthenticates
  BY DEF RequestsOK, IssuedKeyAccepted, AcceptedKeyIsKnown, ProductionAuthenticates
<1>6. QED
  BY <1>3, <1>4, <1>5 DEF IInv

(* A request that has its second answer of get_key_store has a store that  *)
(* is the cached one.                                                      *)
LEMMA CachedStore ==
    ASSUME TypeOK, Memo, NEW r \in Request, pc[r] \in {"check", "issue"}
    PROVE  cache = <<mine[r]>> /\ mine[r] \in 0 .. Len(stores) /\ cache[1] = mine[r]
<1>1. cache = <<mine[r]>>
  BY DEF Memo
<1>2. PICK s \in 0 .. Len(stores) : cache = <<s>>
  BY <1>1 DEF TypeOK
<1>3. QED
  BY <1>1, <1>2

(* Building a store adds an empty one, or none.                            *)
LEMMA BuildStep ==
    ASSUME TypeOK, NEW r \in Request, Build(r)
    PROVE  /\ stores' \in Seq(Store) /\ Len(stores) <= Len(stores')
           /\ \A s \in 1 .. Len(stores) : stores'[s] = stores[s]
           /\ \A s \in 1 .. Len(stores') : s > Len(stores) => stores'[s] = Empty
           /\ mine' = [mine EXCEPT ![r] = mine'[r]]
           /\ mine'[r] \in 0 .. Len(stores')
           /\ mine'[r] = NoStore <=> ~env.memory
<1> USE DEF TypeOK, Store, Request
<1>1. Empty \in Store
  BY DEF Empty
<1> HIDE DEF Store
<1>2. stores \in Seq(Store)
  BY DEF Store
<1>3. CASE env.memory
  <2>1. stores' = Append(stores, Empty) /\ mine' = [mine EXCEPT ![r] = Len(stores) + 1]
    BY <1>3 DEF Build
  <2>2. mine'[r] = Len(stores) + 1 /\ Len(stores) \in Nat
    BY <1>2, <2>1
  <2>3. /\ stores' \in Seq(Store) /\ Len(stores') = Len(stores) + 1
        /\ \A s \in 1 .. Len(stores) : stores'[s] = stores[s]
        /\ stores'[Len(stores) + 1] = Empty
    BY <1>1, <1>2, <2>1
  <2>4. \A s \in 1 .. Len(stores') : s > Len(stores) => s = Len(stores) + 1
    BY <2>2, <2>3
  <2>5. mine' = [mine EXCEPT ![r] = mine'[r]]
    BY <2>1, <2>2
  <2>6. mine'[r] \in 0 .. Len(stores') /\ Len(stores) <= Len(stores') /\ mine'[r] # NoStore
    BY <2>2, <2>3 DEF NoStore
  <2>7. QED
    BY <1>3, <2>3, <2>4, <2>5, <2>6
<1>4. CASE ~env.memory
  BY <1>2, <1>4 DEF Build, NoStore
<1>5. QED
  BY <1>3, <1>4

(* Issuing writes one key, for the jti asked about, into the cached store. *)
LEMMA IssueStep ==
    ASSUME TypeOK, Memo, RequestsOK, NEW a \in AdminCall, Issue(a)
    PROVE  /\ cache = <<mine[a]>> /\ cache[1] = mine[a] /\ mine[a] \in 1 .. Len(stores)
           /\ arg[a] \in Jti
           /\ stores' \in Seq(Store) /\ Len(stores') = Len(stores) /\ minted' \subseteq Secret
           /\ \E k \in Secret :
                 /\ handed' = handed \cup {<<arg[a], k>>}
                 /\ stores[mine[a]][arg[a]] \in {NoKey, k}
                 /\ stores'[mine[a]] = [stores[mine[a]] EXCEPT ![arg[a]] = k]
                 /\ \A s \in 1 .. Len(stores) : s # mine[a] => stores'[s] = stores[s]
<1> DEFINE s == mine[a]
           j == arg[a]
<1>1. cache = <<s>> /\ cache[1] = s /\ s \in 1 .. Len(stores)
  <2>1. pc[a] = "issue" /\ a \in Request
    BY DEF Issue, Request
  <2>2. cache = <<s>> /\ cache[1] = s /\ s \in 0 .. Len(stores)
    BY <2>1, CachedStore
  <2>3. s # 0
    BY <2>1, <2>2 DEF Memo, NoStore
  <2>4. Len(stores) \in Nat
    BY DEF TypeOK
  <2>5. QED
    BY <2>2, <2>3, <2>4
<1>2. j \in Jti
  BY DEF Issue, RequestsOK
<1>3. stores \in Seq(Store) /\ minted \subseteq Secret
  BY DEF TypeOK, Store
<1>4. stores[s] \in Store
  BY <1>1, <1>3
<1>5. CASE stores[s][j] # NoKey
  <2>1. handed' = handed \cup {<<j, stores[s][j]>>} /\ stores' = stores /\ minted' = minted
    BY <1>5 DEF Issue
  <2>2. stores[s][j] \in Secret
    BY <1>2, <1>4, <1>5 DEF Store
  <2>3. stores[s] = [stores[s] EXCEPT ![j] = stores[s][j]]
    BY <1>2, <1>4 DEF Store
  <2>4. QED
    BY <1>1, <1>2, <1>3, <2>1, <2>2, <2>3
<1>6. CASE stores[s][j] = NoKey
  <2>1. PICK k \in Secret \ minted :
              /\ stores' = [stores EXCEPT ![s][j] = k]
              /\ minted' = minted \cup {k} /\ handed' = handed \cup {<<j, k>>}
    BY <1>6 DEF Issue
  <2>2. [stores[s] EXCEPT ![j] = k] \in Store
    BY <1>4 DEF Store
  <2>3. stores' \in Seq(Store) /\ Len(stores') = Len(stores)
    BY <1>1, <1>3, <2>1, <2>2
  <2>4. /\ stores'[s] = [stores[s] EXCEPT ![j] = k]
        /\ \A q \in 1 .. Len(stores) : q # s => stores'[q] = stores[q]
    BY <1>1, <1>3, <2>1
  <2>5. QED
    BY <1>1, <1>2, <1>3, <1>6, <2>1, <2>3, <2>4
<1>7. QED
  BY <1>5, <1>6

(* What was promised to a request is in the cached store.                  *)
LEMMA Promised ==
    ASSUME TypeOK, Memo, Ledger, RequestsOK, up, NEW t \in AuthThread, promised[t]
    PROVE  /\ arg[t] # NoKey /\ cache # <<>> /\ cache[1] # NoStore /\ env.memory
           /\ \E j \in Jti : stores[cache[1]][j] = arg[t]
<1>1. PICK h \in handed : h[2] = arg[t]
  BY DEF RequestsOK, HandedKeys
<1>2. h \in Jti \X Secret
  BY DEF TypeOK
<1>3. cache # <<>> /\ cache[1] # NoStore /\ stores[cache[1]][h[1]] = h[2]
  BY DEF Ledger
<1>4. QED
  BY <1>1, <1>2, <1>3, KeyAssumption DEF Memo

(* The type of the state is preserved.                                     *)
LEMMA TypeStep ==
    ASSUME TypeOK, Memo, Down, RequestsOK, [Next]_vars
    PROVE  TypeOK'
<1> USE RequestAssumption, KeyAssumption DEF TypeOK, Label, Code, Request, Presented
<1>1. ASSUME Start PROVE TypeOK'
  <2>1. Empty \in Store
    BY DEF Empty, Store
  <2>2. \/ stores' = <<Empty>> /\ cache' = <<1>>
        \/ stores' = <<>> /\ cache' = <<0>>
        \/ stores' = <<>> /\ cache' = <<>>
    BY <1>1 DEF Start, NoStore
  <2>3. stores' \in Seq(Store) /\ cache' \in {<<>>} \cup {<<s>> : s \in 0 .. Len(stores')}
    <3>1. CASE stores' = <<Empty>> /\ cache' = <<1>>
      <4>1. stores' \in Seq(Store) /\ Len(stores') = 1
        BY <2>1, <3>1
      <4>2. QED
        BY <3>1, <4>1
    <3>2. CASE stores' = <<>> /\ cache' \in {<<>>, <<0>>}
      BY <3>2
    <3>3. QED
      BY <2>2, <3>1, <3>2
  <2>4. env' \in Env /\ boots' \in Nat /\ up' \in BOOLEAN /\ handed' \subseteq Jti \X Secret
    BY <1>1 DEF Start
  <2>5. QED
    BY <1>1, <2>3, <2>4 DEF Start, Store
<1>2. ASSUME Crash PROVE TypeOK'
  <2>1. stores' \in Seq([Jti -> Secret \cup {NoKey}]) /\ cache' \in {<<>>} \cup {<<s>> : s \in 0 .. Len(stores')}
    BY <1>2 DEF Crash
  <2>2. QED
    BY <1>2, <2>1 DEF Crash, NoStore
<1>3. ASSUME NEW r \in Request, CacheHit(r) PROVE TypeOK'
  BY <1>3 DEF CacheHit, Goto, After
<1>4. ASSUME NEW r \in Request, Build(r) PROVE TypeOK'
  <2>1. cache' = <<>> /\ stores' \in Seq(Store)
    BY <1>4, BuildStep DEF Build
  <2>2. mine'[r] \in Nat /\ mine' = [mine EXCEPT ![r] = mine'[r]]
    BY <1>4, <2>1, BuildStep
  <2>3. mine' \in [Request -> Nat]
    BY <2>2
  <2>4. QED
    BY <1>4, <2>1, <2>3 DEF Build, Store
<1>5. ASSUME NEW r \in Request, Built(r) PROVE TypeOK'
  <2>1. mine[r] \in 0 .. Len(stores)
    BY <1>5 DEF Built, Memo
  <2>2. cache' \in {<<>>} \cup {<<s>> : s \in 0 .. Len(stores')}
    BY <1>5, <2>1 DEF Built
  <2>3. pc' \in [Request -> Label]
    BY <1>5 DEF Built, Goto, After, Memo, First
  <2>4. QED
    BY <1>5, <2>2, <2>3 DEF Built
<1>6. ASSUME NEW t \in AuthThread, NEW k \in Presented, Authenticate(t, k) PROVE TypeOK'
  BY <1>6 DEF Authenticate, Goto
<1>7. ASSUME NEW t \in AuthThread, Decide(t) PROVE TypeOK'
  BY <1>7 DEF Decide, Answer, Goto
<1>8. ASSUME NEW t \in AuthThread, Check(t) PROVE TypeOK'
  BY <1>8 DEF Check, Answer, Goto
<1>9. ASSUME NEW a \in AdminCall, NEW j \in Jti, RequestIssue(a, j) PROVE TypeOK'
  BY <1>9 DEF RequestIssue, Answer, Goto
<1>10. ASSUME NEW a \in AdminCall, Gate(a) PROVE TypeOK'
  BY <1>10 DEF Gate, Answer, Goto
<1>11. ASSUME NEW a \in AdminCall, Issue(a) PROVE TypeOK'
  <2>1. stores' \in Seq(Store) /\ cache' \in {<<>>} \cup {<<s>> : s \in 0 .. Len(stores')}
    BY <1>11, IssueStep DEF Issue
  <2>2. PICK k \in Secret : handed' = handed \cup {<<arg[a], k>>}
    BY <1>11, IssueStep
  <2>3. handed' \subseteq Jti \X Secret /\ minted' \subseteq Secret
    BY <1>11, <2>2, IssueStep
  <2>4. QED
    BY <1>11, <2>1, <2>3 DEF Issue, Answer, Goto, Store
<1>12. CASE UNCHANGED vars
  BY <1>12 DEF vars
<1>13. QED
  BY <1>1, <1>2, <1>3, <1>4, <1>5, <1>6, <1>7, <1>8, <1>9, <1>10, <1>11, <1>12 DEF Next

(* What a process held is gone with it.                                    *)
LEMMA DownStep ==
    ASSUME TypeOK, Memo, Down, [Next]_vars
    PROVE  Down'
<1> USE RequestAssumption, KeyAssumption DEF TypeOK, Down, Request
<1>1. ASSUME Start PROVE Down'
  BY <1>1 DEF Start, Empty
<1>2. ASSUME Crash PROVE Down'
  BY <1>2 DEF Crash
<1>3. ASSUME NEW r \in Request, CacheHit(r) PROVE Down'
  BY <1>3 DEF CacheHit, Goto, After
<1>4. ASSUME NEW r \in Request, Build(r) PROVE Down'
  BY <1>4 DEF Build, After
<1>5. ASSUME NEW r \in Request, Built(r) PROVE Down'
  BY <1>5 DEF Built, Goto, Memo, First
<1>6. ASSUME NEW t \in AuthThread, NEW k \in Presented, Authenticate(t, k) PROVE Down'
  BY <1>6 DEF Authenticate, Goto
<1>7. ASSUME NEW t \in AuthThread, Decide(t) PROVE Down'
  BY <1>7 DEF Decide, Answer, Goto
<1>8. ASSUME NEW t \in AuthThread, Check(t) PROVE Down'
  BY <1>8 DEF Check, Answer, Goto
<1>9. ASSUME NEW a \in AdminCall, NEW j \in Jti, RequestIssue(a, j) PROVE Down'
  BY <1>9 DEF RequestIssue, Answer, Goto
<1>10. ASSUME NEW a \in AdminCall, Gate(a) PROVE Down'
  BY <1>10 DEF Gate, Answer, Goto
<1>11. ASSUME NEW a \in AdminCall, Issue(a) PROVE Down'
  BY <1>11 DEF Issue, Answer, Goto
<1>12. CASE UNCHANGED vars
  BY <1>12 DEF vars
<1>13. QED
  BY <1>1, <1>2, <1>3, <1>4, <1>5, <1>6, <1>7, <1>8, <1>9, <1>10, <1>11, <1>12 DEF Next

(* The memo serves the second calls of all requests from one store.        *)
LEMMA MemoStep ==
    ASSUME TypeOK, Memo, Down, RequestsOK, [Next]_vars
    PROVE  Memo'
<1> USE RequestAssumption, KeyAssumption
        DEF TypeOK, Down, Memo, Request, ThreadLabel, CallLabel, First, Later, NoStore
<1>1. ASSUME Start PROVE Memo'
  BY <1>1 DEF Start, Empty
<1>2. ASSUME Crash PROVE Memo'
  BY <1>2 DEF Crash
<1>3. ASSUME NEW r \in Request, CacheHit(r) PROVE Memo'
  BY <1>3 DEF CacheHit, Goto, After
<1>4. ASSUME NEW r \in Request, Build(r) PROVE Memo'
  <2>1. /\ Len(stores) <= Len(stores') /\ Len(stores') \in Nat /\ Len(stores) \in Nat
        /\ mine'[r] \in 0 .. Len(stores') /\ (mine'[r] = 0 <=> ~env.memory)
        /\ mine' = [mine EXCEPT ![r] = mine'[r]]
    BY <1>4, BuildStep
  <2>2. /\ cache = <<>> /\ cache' = cache /\ env' = env /\ pc' = pc /\ building' = building \cup {r}
        /\ pc[r] \in First
    BY <1>4 DEF Build, After
  <2>3. QED
    BY <2>1, <2>2
<1>5. ASSUME NEW r \in Request, Built(r) PROVE Memo'
  BY <1>5 DEF Built, Goto, After
<1>6. ASSUME NEW t \in AuthThread, NEW k \in Presented, Authenticate(t, k) PROVE Memo'
  BY <1>6 DEF Authenticate, Goto
<1>7. ASSUME NEW t \in AuthThread, Decide(t) PROVE Memo'
  <2>1. t \in Request /\ t \notin building
    BY <1>7 DEF Decide
  <2>2. pc'[t] \in {"idle", "validate"} /\ \A q \in Request : q # t => pc'[q] = pc[q]
    BY <1>7 DEF Decide, Answer, Goto
  <2>3. UNCHANGED <<env, cache, stores, building, mine>>
    BY <1>7 DEF Decide
  <2>4. t \in AuthThread /\ pc'[t] \in ThreadLabel /\ pc[t] = "decide"
    BY <1>7, <2>2 DEF Decide
  <2> HIDE DEF TypeOK, Down
  <2>5. QED
    BY <2>1, <2>2, <2>3, <2>4
<1>8. ASSUME NEW t \in AuthThread, Check(t) PROVE Memo'
  BY <1>8 DEF Check, Answer, Goto
<1>9. ASSUME NEW a \in AdminCall, NEW j \in Jti, RequestIssue(a, j) PROVE Memo'
  <2>1. pc[a] = "idle" /\ a \notin building /\ a \in Request
    BY <1>9 DEF RequestIssue, LoopFree
  <2>2. pc'[a] \in {"verify", "idle"} /\ \A q \in Request : q # a => pc'[q] = pc[q]
    BY <1>9 DEF RequestIssue, Answer, Goto
  <2>3. UNCHANGED <<env, cache, stores, building, mine>>
    BY <1>9 DEF RequestIssue
  <2>4. QED
    BY <2>1, <2>2, <2>3, SMTT(30)
<1>10. ASSUME NEW a \in AdminCall, Gate(a) PROVE Memo'
  <2>1. a \in Request /\ a \notin building
    BY <1>10 DEF Gate
  <2>2. /\ pc'[a] \in {"idle", "fetch"} /\ (pc'[a] = "fetch" => env.memory)
        /\ \A q \in Request : q # a => pc'[q] = pc[q]
    <3>1. mine[a] = NoStore <=> ~env.memory
      BY <1>10 DEF Gate
    <3>2. QED
      BY <1>10, <3>1, <2>1 DEF Gate, Answer, Goto
  <2>3. UNCHANGED <<env, cache, stores, building, mine>>
    BY <1>10 DEF Gate
  <2>4. pc[a] = "gate" /\ cache # <<>> /\ a \in AdminCall
    BY <1>10 DEF Gate
  <2>5. \A t \in AuthThread : pc'[t] = pc[t]
    BY <2>2
  <2>6. \A c \in AdminCall : pc'[c] \in CallLabel
    BY <2>2
  <2> HIDE DEF TypeOK, Down, RequestAssumption, KeyAssumption
  <2>7. QED
    BY <2>1, <2>2, <2>3, <2>4, <2>5, <2>6
<1>11. ASSUME NEW a \in AdminCall, Issue(a) PROVE Memo'
  BY <1>11, IssueStep DEF Issue, Answer, Goto
<1>12. CASE UNCHANGED vars
  BY <1>12 DEF vars
<1>13. QED
  BY <1>1, <1>2, <1>3, <1>4, <1>5, <1>6, <1>7, <1>8, <1>9, <1>10, <1>11, <1>12 DEF Next

(* Keys are handed out from the cached store and written nowhere else.     *)
LEMMA LedgerStep ==
    ASSUME TypeOK, Memo, Down, Ledger, RequestsOK, [Next]_vars
    PROVE  Ledger'
<1> USE RequestAssumption, KeyAssumption DEF TypeOK, Ledger, Request, NoStore
<1>1. ASSUME Start PROVE Ledger'
  BY <1>1 DEF Start, Empty
<1>2. ASSUME Crash PROVE Ledger'
  BY <1>2 DEF Crash, Down
<1>3. ASSUME NEW r \in Request, CacheHit(r) PROVE Ledger'
  BY <1>3 DEF CacheHit, Goto
<1>4. ASSUME NEW r \in Request, Build(r) PROVE Ledger'
  <2>1. stores' \in Seq(Store)
    BY <1>4, BuildStep
  <2>2. ASSUME NEW s \in 1 .. Len(stores'), NEW j \in Jti, stores'[s][j] # NoKey
        PROVE  s \in 1 .. Len(stores) /\ stores'[s][j] = stores[s][j]
    <3>1. CASE s > Len(stores)
      BY <1>4, <2>2, <3>1, BuildStep DEF Empty
    <3>2. CASE s <= Len(stores)
      BY <1>4, <2>2, <3>2, BuildStep
    <3>3. QED
      BY <2>1, <3>1, <3>2
  <2>3. handed' = handed /\ cache' = cache /\ up' = up /\ cache = <<>>
    BY <1>4 DEF Build
  <2>4. QED
    BY <2>2, <2>3
<1>5. ASSUME NEW r \in Request, Built(r) PROVE Ledger'
  BY <1>5 DEF Built, Goto, Memo
<1>6. ASSUME NEW t \in AuthThread, NEW k \in Presented, Authenticate(t, k) PROVE Ledger'
  BY <1>6 DEF Authenticate, Goto
<1>7. ASSUME NEW t \in AuthThread, Decide(t) PROVE Ledger'
  BY <1>7 DEF Decide, Answer, Goto
<1>8. ASSUME NEW t \in AuthThread, Check(t) PROVE Ledger'
  BY <1>8 DEF Check, Answer, Goto
<1>9. ASSUME NEW a \in AdminCall, NEW j \in Jti, RequestIssue(a, j) PROVE Ledger'
  BY <1>9 DEF RequestIssue, Answer, Goto
<1>10. ASSUME NEW a \in AdminCall, Gate(a) PROVE Ledger'
  BY <1>10 DEF Gate, Answer, Goto
<1>11. ASSUME NEW a \in AdminCall, Issue(a) PROVE Ledger'
  <2>1. PICK k \in Secret :
              /\ handed' = handed \cup {<<arg[a], k>>}
              /\ stores[mine[a]][arg[a]] \in {NoKey, k}
              /\ stores'[mine[a]] = [stores[mine[a]] EXCEPT ![arg[a]] = k]
              /\ \A s \in 1 .. Len(stores) : s # mine[a] => stores'[s] = stores[s]
    BY <1>11, IssueStep
  <2>2. /\ cache[1] = mine[a] /\ mine[a] \in 1 .. Len(stores) /\ arg[a] \in Jti
        /\ Len(stores') = Len(stores) /\ cache # <<>> /\ stores[mine[a]] \in Store
    BY <1>11, IssueStep DEF Store
  <2>3. cache' = cache /\ up' = up
    BY <1>11 DEF Issue
  <2>4. ASSUME up, NEW h \in handed' PROVE stores'[mine[a]][h[1]] = h[2]
    <3>1. CASE h \in handed
      BY <2>1, <2>2, <2>4, <3>1 DEF Store
    <3>2. CASE h = <<arg[a], k>>
      BY <2>1, <2>2, <3>2 DEF Store
    <3>3. QED
      BY <2>1, <3>1, <3>2
  <2>5. ASSUME NEW s \in 1 .. Len(stores'), NEW j \in Jti, stores'[s][j] # NoKey
        PROVE  <<j, stores'[s][j]>> \in handed'
    <3>1. CASE s = mine[a] /\ j = arg[a]
      BY <2>1, <2>2, <3>1 DEF Store
    <3>2. CASE ~(s = mine[a] /\ j = arg[a])
      BY <2>1, <2>2, <2>5, <3>2 DEF Store
    <3>3. QED
      BY <3>1, <3>2
  <2>6. up' => \A h \in handed' : cache' # <<>> /\ cache'[1] # NoStore /\ stores'[cache'[1]][h[1]] = h[2]
    BY <2>2, <2>3, <2>4
  <2>7. QED
    BY <2>5, <2>6 DEF Ledger
<1>12. CASE UNCHANGED vars
  BY <1>12 DEF vars
<1>13. QED
  BY <1>1, <1>2, <1>3, <1>4, <1>5, <1>6, <1>7, <1>8, <1>9, <1>10, <1>11, <1>12 DEF Next

(* A promise stays a promise while the process lives.                      *)
LEMMA RequestsStep ==
    ASSUME TypeOK, Memo, Down, RequestsOK, [Next]_vars
    PROVE  RequestsOK'
<1> USE RequestAssumption, KeyAssumption DEF TypeOK, RequestsOK, Request, HandedKeys
<1>1. ASSUME Start PROVE RequestsOK'
  BY <1>1 DEF Start, Down
<1>2. ASSUME Crash PROVE RequestsOK'
  BY <1>2 DEF Crash
<1>3. ASSUME NEW r \in Request, CacheHit(r) PROVE RequestsOK'
  BY <1>3 DEF CacheHit, Goto, After
<1>4. ASSUME NEW r \in Request, Build(r) PROVE RequestsOK'
  BY <1>4 DEF Build
<1>5. ASSUME NEW r \in Request, Built(r) PROVE RequestsOK'
  BY <1>5 DEF Built, Goto, After, Memo, First
<1>6. ASSUME NEW t \in AuthThread, NEW k \in Presented, Authenticate(t, k) PROVE RequestsOK'
  BY <1>6 DEF Authenticate, Goto
<1>7. ASSUME NEW t \in AuthThread, Decide(t) PROVE RequestsOK'
  BY <1>7 DEF Decide, Answer, Goto
<1>8. ASSUME NEW t \in AuthThread, Check(t) PROVE RequestsOK'
  BY <1>8 DEF Check, Answer, Goto
<1>9. ASSUME NEW a \in AdminCall, NEW j \in Jti, RequestIssue(a, j) PROVE RequestsOK'
  BY <1>9 DEF RequestIssue, Answer, Goto
<1>10. ASSUME NEW a \in AdminCall, Gate(a) PROVE RequestsOK'
  BY <1>10 DEF Gate, Answer, Goto
<1>11. ASSUME NEW a \in AdminCall, Issue(a) PROVE RequestsOK'
  BY <1>11 DEF Issue, Answer, Goto
<1>12. CASE UNCHANGED vars
  BY <1>12 DEF vars
<1>13. QED
  BY <1>1, <1>2, <1>3, <1>4, <1>5, <1>6, <1>7, <1>8, <1>9, <1>10, <1>11, <1>12 DEF Next

(* An issued key is never refused.                                         *)
LEMMA IssuedStep ==
    ASSUME IInv, [Next]_vars
    PROVE  IssuedKeyAccepted'
<1> USE RequestAssumption, KeyAssumption DEF IInv, TypeOK, IssuedKeyAccepted, Request
<1>1. ASSUME Start PROVE IssuedKeyAccepted'
  BY <1>1 DEF Start, Down
<1>2. ASSUME Crash PROVE IssuedKeyAccepted'
  BY <1>2 DEF Crash
<1>3. ASSUME NEW r \in Request, CacheHit(r) PROVE IssuedKeyAccepted'
  BY <1>3 DEF CacheHit, Goto
<1>4. ASSUME NEW r \in Request, Build(r) PROVE IssuedKeyAccepted'
  BY <1>4 DEF Build
<1>5. ASSUME NEW r \in Request, Built(r) PROVE IssuedKeyAccepted'
  BY <1>5 DEF Built, Goto
<1>6. ASSUME NEW t \in AuthThread, NEW k \in Presented, Authenticate(t, k)
      PROVE  IssuedKeyAccepted'
  BY <1>6 DEF Authenticate, Goto
<1>7. ASSUME NEW t \in AuthThread, Decide(t) PROVE IssuedKeyAccepted'
  <2>1. up
    BY <1>7 DEF Decide, Down
  <2>2. ASSUME promised[t] PROVE arg[t] # NoKey /\ mine[t] # NoStore
    BY <1>7, <2>1, <2>2, Promised DEF Decide, Memo
  <2>3. QED
    BY <1>7, <2>2 DEF Decide, Answer, Goto
<1>8. ASSUME NEW t \in AuthThread, Check(t) PROVE IssuedKeyAccepted'
  <2>1. up
    BY <1>8 DEF Check, Down
  <2>2. cache[1] = mine[t]
    BY <1>8, CachedStore DEF Check
  <2>3. ASSUME promised[t] PROVE Holds(mine[t], arg[t])
    BY <2>1, <2>2, <2>3, Promised DEF Holds
  <2>4. QED
    BY <1>8, <2>3 DEF Check, Answer, Goto
<1>9. ASSUME NEW a \in AdminCall, NEW j \in Jti, RequestIssue(a, j) PROVE IssuedKeyAccepted'
  BY <1>9 DEF RequestIssue, Answer, Goto
<1>10. ASSUME NEW a \in AdminCall, Gate(a) PROVE IssuedKeyAccepted'
  BY <1>10 DEF Gate, Answer, Goto
<1>11. ASSUME NEW a \in AdminCall, Issue(a) PROVE IssuedKeyAccepted'
  BY <1>11 DEF Issue, Answer, Goto
<1>12. CASE UNCHANGED vars
  BY <1>12 DEF vars
<1>13. QED
  BY <1>1, <1>2, <1>3, <1>4, <1>5, <1>6, <1>7, <1>8, <1>9, <1>10, <1>11, <1>12 DEF Next

(* An unknown key is never accepted.                                       *)
LEMMA AcceptedStep ==
    ASSUME IInv, [Next]_vars
    PROVE  AcceptedKeyIsKnown'
<1> USE RequestAssumption, KeyAssumption DEF IInv, TypeOK, AcceptedKeyIsKnown, Request
<1>a. UNCHANGED handed => HandedKeys' = HandedKeys
  BY DEF HandedKeys
<1>1. ASSUME Start PROVE AcceptedKeyIsKnown'
  BY <1>1, <1>a DEF Start, Down
<1>2. ASSUME Crash PROVE AcceptedKeyIsKnown'
  BY <1>2, <1>a DEF Crash, HandedKeys
<1>3. ASSUME NEW r \in Request, CacheHit(r) PROVE AcceptedKeyIsKnown'
  BY <1>3, <1>a DEF CacheHit, Goto
<1>4. ASSUME NEW r \in Request, Build(r) PROVE AcceptedKeyIsKnown'
  BY <1>4, <1>a DEF Build
<1>5. ASSUME NEW r \in Request, Built(r) PROVE AcceptedKeyIsKnown'
  BY <1>5, <1>a DEF Built, Goto
<1>6. ASSUME NEW t \in AuthThread, NEW k \in Presented, Authenticate(t, k)
      PROVE  AcceptedKeyIsKnown'
  BY <1>6, <1>a DEF Authenticate, Goto
<1>7. ASSUME NEW t \in AuthThread, Decide(t) PROVE AcceptedKeyIsKnown'
  BY <1>7, <1>a DEF Decide, Answer, Goto, Memo
<1>8. ASSUME NEW t \in AuthThread, Check(t) PROVE AcceptedKeyIsKnown'
  <2>1. /\ mine[t] \in 0 .. Len(stores) /\ arg[t] # NoKey
    BY <1>8, CachedStore DEF Check, RequestsOK
  <2>2. ASSUME Holds(mine[t], arg[t]) PROVE arg[t] \in HandedKeys
    <3>1. PICK j \in Jti : stores[mine[t]][j] = arg[t]
      BY <2>2 DEF Holds
    <3>2. mine[t] \in 1 .. Len(stores)
      BY <2>1, <2>2 DEF Holds, NoStore
    <3>3. <<j, arg[t]>> \in handed
      BY <2>1, <3>1, <3>2 DEF Ledger
    <3>4. QED
      BY <3>3 DEF HandedKeys
  <2>3. QED
    BY <1>8, <1>a, <2>2 DEF Check, Answer, Goto
<1>9. ASSUME NEW a \in AdminCall, NEW j \in Jti, RequestIssue(a, j) PROVE AcceptedKeyIsKnown'
  BY <1>9, <1>a DEF RequestIssue, Answer, Goto
<1>10. ASSUME NEW a \in AdminCall, Gate(a) PROVE AcceptedKeyIsKnown'
  BY <1>10, <1>a DEF Gate, Answer, Goto
<1>11. ASSUME NEW a \in AdminCall, Issue(a) PROVE AcceptedKeyIsKnown'
  <2>1. HandedKeys \subseteq HandedKeys'
    BY <1>11 DEF Issue, HandedKeys
  <2>2. QED
    BY <1>11, <2>1 DEF Issue, Answer, Goto
<1>12. CASE UNCHANGED vars
  BY <1>12, <1>a DEF vars
<1>13. QED
  BY <1>1, <1>2, <1>3, <1>4, <1>5, <1>6, <1>7, <1>8, <1>9, <1>10, <1>11, <1>12 DEF Next

(* A process in production never answers as if it had no authentication.   *)
LEMMA ProductionStep ==
    ASSUME IInv, [Next]_vars
    PROVE  ProductionAuthenticates'
<1> USE RequestAssumption, KeyAssumption DEF IInv, TypeOK, ProductionAuthenticates, Request
<1>1. ASSUME Start PROVE ProductionAuthenticates'
  BY <1>1 DEF Start, Down
<1>2. ASSUME Crash PROVE ProductionAuthenticates'
  BY <1>2 DEF Crash
<1>3. ASSUME NEW r \in Request, CacheHit(r) PROVE ProductionAuthenticates'
  BY <1>3 DEF CacheHit, Goto
<1>4. ASSUME NEW r \in Request, Build(r) PROVE ProductionAuthenticates'
  BY <1>4 DEF Build
<1>5. ASSUME NEW r \in Request, Built(r) PROVE ProductionAuthenticates'
  BY <1>5 DEF Built, Goto
<1>6. ASSUME NEW t \in AuthThread, NEW k \in Presented, Authenticate(t, k)
      PROVE  ProductionAuthenticates'
  BY <1>6 DEF Authenticate, Goto
<1>7. ASSUME NEW t \in AuthThread, Decide(t) PROVE ProductionAuthenticates'
  <2>1. up
    BY <1>7 DEF Decide, Down
  <2>2. mine[t] = NoStore <=> ~env.memory
    BY <1>7 DEF Decide, Memo
  <2>3. env.production => env.keys # {} \/ mine[t] # NoStore
    BY <2>1, <2>2 DEF RequestsOK, RuntimeConfigOK
  <2>4. QED
    BY <1>7, <2>3 DEF Decide, Answer, Goto
<1>8. ASSUME NEW t \in AuthThread, Check(t) PROVE ProductionAuthenticates'
  BY <1>8 DEF Check, Answer, Goto
<1>9. ASSUME NEW a \in AdminCall, NEW j \in Jti, RequestIssue(a, j) PROVE ProductionAuthenticates'
  BY <1>9 DEF RequestIssue, Answer, Goto
<1>10. ASSUME NEW a \in AdminCall, Gate(a) PROVE ProductionAuthenticates'
  BY <1>10 DEF Gate, Answer, Goto
<1>11. ASSUME NEW a \in AdminCall, Issue(a) PROVE ProductionAuthenticates'
  BY <1>11 DEF Issue, Answer, Goto
<1>12. CASE UNCHANGED vars
  BY <1>12 DEF vars
<1>13. QED
  BY <1>1, <1>2, <1>3, <1>4, <1>5, <1>6, <1>7, <1>8, <1>9, <1>10, <1>11, <1>12 DEF Next

LEMMA StepIInv == IInv /\ [Next]_vars => IInv'
BY TypeStep, DownStep, MemoStep, LedgerStep, RequestsStep, IssuedStep, AcceptedStep,
   ProductionStep
   DEF IInv

LEMMA Invariance == Spec => []IInv
BY InitIInv, StepIInv, PTL DEF Spec

-----------------------------------------------------------------------------
(* However the first calls of get_key_store race, and whatever restarts:   *)
(* the endpoint issues from the store that the requests validate against,  *)
(* an issued key is accepted, and an accepted key is known (get_key_store, *)
(* issue_key, require_api_key).                                            *)
THEOREM Honoured == Spec => []KeysHonoured
<1>1. IInv => KeysHonoured
  BY DEF IInv, Memo, KeysHonoured, OneStoreUsed
<1>2. QED
  BY <1>1, Invariance, PTL

(* A production process that has passed its guard answers every request    *)
(* for a key by accepting or refusing it (assert_runtime_config,           *)
(* require_api_key).                                                       *)
THEOREM Production == Spec => []ProductionAuthenticates
<1>1. IInv => ProductionAuthenticates
  BY DEF IInv
<1>2. QED
  BY <1>1, Invariance, PTL
=============================================================================
