----------------------------- MODULE KeyService -----------------------------
(***************************************************************************)
(* One server process that issues API keys and authenticates requests with *)
(* them: the start-up guard (config_guard.py), the memoised get_key_store  *)
(* (key_store.py), POST /v1/admin/keys (routers/admin.py) on the event     *)
(* loop, and the dependency require_api_key (auth.py) in the thread pool.  *)
(*                                                                         *)
(* lru_cache calls the function it wraps outside any lock: two first calls *)
(* may both build an InMemoryKeyStore, and the slower one gets its own     *)
(* instance, which no cache holds.  A step here is one half of a call of   *)
(* get_key_store or one operation on a store; that issue may be taken as   *)
(* one step is what module KeyStore establishes.                           *)
(***************************************************************************)
EXTENDS Naturals, FiniteSets, Sequences

CONSTANTS AuthThread,    \* thread-pool requests, one at a time each
          AdminCall,     \* requests to the issuance endpoint
          Jti, Secret,   \* idempotency keys; keys mint_key can produce
          EnvKey,        \* keys a deployment may list in FUFIRE_API_KEYS
          NoKey,         \* None: no key registered, or no X-API-Key header
          MaxBoots       \* bound: process starts

Request == AuthThread \cup AdminCall
Presented == EnvKey \cup Secret \cup {NoKey}

ASSUME RequestAssumption == AuthThread \cap AdminCall = {}
ASSUME KeyAssumption == NoKey \notin EnvKey \cup Secret

VARIABLES
    env,       \* what the running process reads from its environment
    boots,     \* process starts so far
    up,        \* the process serves requests
    cache,     \* the lru_cache of get_key_store: <<>>, or <<its value>>
    stores,    \* the instances built so far, each a dictionary jti -> key
    pc, arg,   \* per request: its next step, its jti or the key it presents
    building,  \* requests inside the body of get_key_store
    mine,      \* what the request's last get_key_store returned
    reply,     \* its response
    handed,    \* <<jti, key>> pairs this process has returned to callers
    minted,    \* every key minted since the first boot
    promised   \* per request: the key had been handed out when it arrived

vars == <<env, boots, up, cache, stores, pc, arg, building, mine, reply,
          handed, minted, promised>>

(* What get_key_store returns: 0 for None, else an index into stores.      *)
NoStore == 0
Empty == [j \in Jti |-> NoKey]
Holds(s, k) == s # NoStore /\ \E j \in Jti : stores[s][j] = k   \* is_valid
HandedKeys == {h[2] : h \in handed}

Env == [production : BOOLEAN, keys : SUBSET EnvKey, memory : BOOLEAN,
        require : BOOLEAN, issuance : BOOLEAN, admin : BOOLEAN]

(* Without assert_production_auth_config.                                  *)
RuntimeConfigTrusting(e) == e.production => e.require /\ ~e.issuance

(* What assert_runtime_config demands of authentication and issuance; its  *)
(* checks on CORS, replicas, Redis and the ephemeris are taken to pass.    *)
RuntimeConfigOK(e) ==
    e.production => /\ e.keys # {} \/ e.memory
                    /\ e.require
                    /\ ~e.issuance

Init ==
    /\ env = [production |-> FALSE, keys |-> {}, memory |-> FALSE,
              require |-> FALSE, issuance |-> FALSE, admin |-> FALSE]
    /\ boots = 0 /\ up = FALSE
    /\ cache = <<>> /\ stores = <<>>
    /\ pc = [r \in Request |-> "idle"]
    /\ arg = [r \in Request |-> NoKey]
    /\ building = {}
    /\ mine = [r \in Request |-> NoStore]
    /\ reply = [r \in Request |-> "none"]
    /\ handed = {} /\ minted = {}
    /\ promised = [r \in Request |-> FALSE]

(* The guard asks for the store only in a production deployment without    *)
(* static keys; alone in the process, it then fills the cache.             *)
Start ==
    /\ ~up /\ boots < MaxBoots
    /\ \E e \in Env :
          /\ RuntimeConfigOK(e)
          /\ env' = e
          /\ IF e.production /\ e.keys = {}
                THEN IF e.memory THEN stores' = <<Empty>> /\ cache' = <<1>>
                                 ELSE stores' = <<>> /\ cache' = <<NoStore>>
                ELSE stores' = <<>> /\ cache' = <<>>
    /\ up' = TRUE /\ boots' = boots + 1
    /\ handed' = {}
    /\ UNCHANGED <<pc, arg, building, mine, reply, minted, promised>>

(* The process dies or is redeployed at any moment: the dictionaries and   *)
(* the requests in flight are lost, the keys clients hold are not.         *)
Crash ==
    /\ up /\ up' = FALSE
    /\ pc' = [r \in Request |-> "idle"]
    /\ building' = {}
    /\ cache' = <<>> /\ stores' = <<>>
    /\ mine' = [r \in Request |-> NoStore]
    /\ reply' = [r \in Request |-> "none"]
    /\ promised' = [r \in Request |-> FALSE]
    /\ UNCHANGED <<env, boots, arg, handed, minted>>

-----------------------------------------------------------------------------
Goto(r, label) == pc' = [pc EXCEPT ![r] = label]
Answer(r, code) == reply' = [reply EXCEPT ![r] = code] /\ Goto(r, "idle")

(* The four calls of get_key_store and where each returns to.              *)
After == [configured |-> "decide", validate |-> "check",   \* require_api_key
          verify |-> "gate", fetch |-> "issue"]            \* issue_key

CacheHit(r) ==
    /\ pc[r] \in DOMAIN After /\ r \notin building /\ cache # <<>>
    /\ mine' = [mine EXCEPT ![r] = cache[1]]
    /\ Goto(r, After[pc[r]])
    /\ UNCHANGED <<env, boots, up, cache, stores, arg, building, reply,
                   handed, minted, promised>>

Build(r) ==
    /\ pc[r] \in DOMAIN After /\ r \notin building /\ cache = <<>>
    /\ building' = building \cup {r}
    /\ IF env.memory
          THEN /\ stores' = Append(stores, Empty)
               /\ mine' = [mine EXCEPT ![r] = Len(stores) + 1]
          ELSE /\ mine' = [mine EXCEPT ![r] = NoStore]
               /\ UNCHANGED stores
    /\ UNCHANGED <<env, boots, up, cache, pc, arg, reply, handed, minted, promised>>

(* A memo without the second look: the last to come back is cached.        *)
BuiltOverwrites(r) ==
    /\ r \in building
    /\ building' = building \ {r}
    /\ cache' = <<mine[r]>>
    /\ Goto(r, After[pc[r]])
    /\ UNCHANGED <<env, boots, up, stores, arg, mine, reply, handed, minted, promised>>

(* Only the first to come back is cached; every caller keeps its own.      *)
Built(r) ==
    /\ r \in building
    /\ building' = building \ {r}
    /\ cache' = IF cache = <<>> THEN <<mine[r]>> ELSE cache
    /\ Goto(r, After[pc[r]])
    /\ UNCHANGED <<env, boots, up, stores, arg, mine, reply, handed, minted, promised>>

-----------------------------------------------------------------------------
(* require_api_key                                                         *)
Authenticate(t, k) ==
    /\ up /\ pc[t] = "idle"
    /\ Goto(t, "configured")
    /\ arg' = [arg EXCEPT ![t] = k]
    /\ reply' = [reply EXCEPT ![t] = "none"]
    /\ promised' = [promised EXCEPT ![t] = k \in HandedKeys]
    /\ UNCHANGED <<env, boots, up, cache, stores, building, mine, handed, minted>>

Decide(t) ==
    /\ pc[t] = "decide"
    /\ LET open == env.keys = {} /\ mine[t] = NoStore
       IN  \/ /\ open
              /\ Answer(t, IF env.require THEN "503" ELSE "dev")
           \/ /\ ~open /\ arg[t] \in env.keys
              /\ Answer(t, "200")
           \/ /\ ~open /\ arg[t] = NoKey
              /\ Answer(t, "401")
           \/ /\ ~open /\ arg[t] \notin env.keys \cup {NoKey}
              /\ Goto(t, "validate")
              /\ UNCHANGED reply
    /\ UNCHANGED <<env, boots, up, cache, stores, arg, building, mine, handed,
                   minted, promised>>

Check(t) ==
    /\ pc[t] = "check"
    /\ Answer(t, IF Holds(mine[t], arg[t]) THEN "200" ELSE "401")
    /\ UNCHANGED <<env, boots, up, cache, stores, arg, building, mine, handed,
                   minted, promised>>

-----------------------------------------------------------------------------
(* POST /v1/admin/keys: a coroutine that never awaits, so calls take turns *)
(* on the event loop while threads run beside it.                          *)
LoopFree == \A a \in AdminCall : pc[a] = "idle"

RequestIssue(a, j) ==
    /\ up /\ LoopFree
    /\ arg' = [arg EXCEPT ![a] = j]
    /\ IF env.issuance                            \* feature_dependency
          THEN /\ Goto(a, "verify")
               /\ reply' = [reply EXCEPT ![a] = "none"]
          ELSE Answer(a, "404")
    /\ UNCHANGED <<env, boots, up, cache, stores, building, mine, handed,
                   minted, promised>>

(* _verify_admin, then the allow-list: a server that cannot issue says so  *)
(* before it looks at the caller's token.                                  *)
Gate(a) ==
    /\ pc[a] = "gate"
    /\ \/ /\ ~env.admin \/ mine[a] = NoStore
          /\ Answer(a, "503")
       \/ /\ env.admin /\ mine[a] # NoStore
          /\ \/ Answer(a, "401")               \* missing or wrong token
             \/ Answer(a, "400")               \* a tier other than free
             \/ Goto(a, "fetch") /\ UNCHANGED reply
    /\ UNCHANGED <<env, boots, up, cache, stores, arg, building, mine, handed,
                   minted, promised>>

Issue(a) ==
    /\ pc[a] = "issue"
    /\ LET j == arg[a]
           s == mine[a]
       IN  IF stores[s][j] # NoKey
              THEN /\ handed' = handed \cup {<<j, stores[s][j]>>}
                   /\ UNCHANGED <<stores, minted>>
              ELSE \E k \in Secret \ minted :
                      /\ stores' = [stores EXCEPT ![s][j] = k]
                      /\ minted' = minted \cup {k}
                      /\ handed' = handed \cup {<<j, k>>}
    /\ Answer(a, "200")
    /\ UNCHANGED <<env, boots, up, cache, arg, building, mine, promised>>

Next ==
    \/ Start
    \/ Crash
    \/ \E r \in Request : CacheHit(r) \/ Build(r) \/ Built(r)
    \/ \E t \in AuthThread :
          \/ \E k \in Presented : Authenticate(t, k)
          \/ Decide(t)
          \/ Check(t)
    \/ \E a \in AdminCall :
          \/ \E j \in Jti : RequestIssue(a, j)
          \/ Gate(a)
          \/ Issue(a)

Spec == Init /\ [][Next]_vars

-----------------------------------------------------------------------------
Label == {"idle", "configured", "decide", "validate", "check",
          "verify", "gate", "fetch", "issue"}
Code == {"none", "dev", "200", "400", "401", "404", "503"}

(* The state is what the process can hold: one cached value at most, a     *)
(* store handle that exists, a response code the handlers raise.           *)
TypeOK ==
    /\ env \in Env /\ boots \in Nat /\ up \in BOOLEAN
    /\ stores \in Seq([Jti -> Secret \cup {NoKey}])
    /\ cache \in {<<>>} \cup {<<s>> : s \in 0 .. Len(stores)}
    /\ pc \in [Request -> Label]
    /\ arg \in [Request -> Presented \cup Jti]
    /\ building \subseteq Request
    /\ mine \in [Request -> Nat]
    /\ reply \in [Request -> Code]
    /\ handed \subseteq Jti \X Secret
    /\ minted \subseteq Secret
    /\ promised \in [Request -> BOOLEAN]

(* However the first calls of get_key_store race, the store that a request *)
(* issues from or validates against is the cached one: each request has    *)
(* asked for the store once before, so its second call finds the cache     *)
(* full.  (key_store.py: validator and issuer share one instance.)         *)
OneStoreUsed ==
    /\ TypeOK
    /\ \A r \in Request : pc[r] \in {"check", "issue"} => cache = <<mine[r]>>

(* "A real, immediately-valid key": a request that presents a key this     *)
(* process has already returned from the issuance endpoint is accepted.    *)
IssuedKeyAccepted ==
    \A t \in AuthThread : promised[t] => reply[t] \in {"none", "200"}

(* A request passes only with a static key of this deployment or a key     *)
(* this process issued; keys of an earlier process are refused.  The dev   *)
(* bypass needs both an empty list and no store.                           *)
AcceptedKeyIsKnown ==
    \A t \in AuthThread :
        /\ reply[t] = "200" => arg[t] \in env.keys \cup HandedKeys
        /\ reply[t] = "dev" => env.keys = {} /\ ~env.memory /\ ~env.require

(* The issuance endpoint and the requests agree on the keys, through every *)
(* race of first calls and every restart: what was issued is accepted, and *)
(* what is accepted was issued, because all of them use the one store.     *)
KeysHonoured == OneStoreUsed /\ IssuedKeyAccepted /\ AcceptedKeyIsKnown

(* A production process never answers as if authentication were disabled   *)
(* or misconfigured: every request is either accepted by key or 401.       *)
ProductionAuthenticates ==
    env.production => \A t \in AuthThread : reply[t] \in {"none", "200", "401"}
=============================================================================
