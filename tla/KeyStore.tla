------------------------------ MODULE KeyStore ------------------------------
(***************************************************************************)
(* InMemoryKeyStore (bazi_engine/key_store.py:92-125), statement by        *)
(* statement: threads that call issue take the store's lock, look the jti  *)
(* up, mint, write _by_key and then _by_jti, and leave the with block;     *)
(* is_valid, tier_of and find_by_jti are one read of one dictionary without*)
(* the lock, so what they answer is a predicate of the state, and it must  *)
(* be right between any two of those statements.                           *)
(***************************************************************************)
EXTENDS Naturals

CONSTANTS Thread, Jti, Nonce, Mintable, Tier,
          NoKey,    \* None where a key is expected
          NoRec,    \* None where a record is expected
          NoThread  \* the lock is free

Key == [tier : Mintable, nonce : Nonce]
Rec == [tier : Mintable, jti : Jti]      \* {"tier", "label", "jti", "active"}

ASSUME NoKeyAssumption == NoKey \notin Key
ASSUME NoRecAssumption == NoRec \notin Rec
ASSUME NoThreadAssumption == NoThread \notin Thread
ASSUME MintableAssumption == Mintable \subseteq Tier

VARIABLES
    lock,     \* _lock: its holder
    byKey,    \* _by_key
    byJti,    \* _by_jti
    pc,       \* where each thread is in issue
    arg,      \* tier and jti of the thread's call
    key,      \* the local key
    out       \* what issue is returning to the thread, NoKey if it raises

vars == <<lock, byKey, byJti, pc, arg, key, out>>

Stage == {"idle", "enter", "lookup", "mint", "putKey", "putJti", "leave", "return"}

Init ==
    /\ lock = NoThread
    /\ byKey = [k \in Key |-> NoRec]
    /\ byJti = [j \in Jti |-> NoKey]
    /\ pc = [t \in Thread |-> "idle"]
    /\ arg \in [Thread -> [tier : Tier, jti : Jti]]
    /\ key = [t \in Thread |-> NoKey]
    /\ out = [t \in Thread |-> NoKey]

Goto(t, stage) == pc' = [pc EXCEPT ![t] = stage]

-----------------------------------------------------------------------------
(* Broken variants of definitions below; PROJECT.json names, for each, the *)
(* property that exposes it.                                               *)
EnterWithoutLock(t) ==            \* the with statement is dropped
    /\ pc[t] = "enter"
    /\ lock' = t
    /\ Goto(t, "lookup")
    /\ UNCHANGED <<byKey, byJti, arg, key, out>>

LookupAlwaysMints(t) ==           \* the idempotency check is dropped
    /\ pc[t] = "lookup"
    /\ Goto(t, "mint")
    /\ UNCHANGED <<lock, byKey, byJti, arg, key, out>>

-----------------------------------------------------------------------------
Call(t, tier, j) ==
    /\ pc[t] = "idle"
    /\ Goto(t, "enter")
    /\ arg' = [arg EXCEPT ![t] = [tier |-> tier, jti |-> j]]
    /\ UNCHANGED <<lock, byKey, byJti, key, out>>

Enter(t) ==          \* with self._lock:
    /\ pc[t] = "enter"
    /\ lock = NoThread
    /\ lock' = t
    /\ Goto(t, "lookup")
    /\ UNCHANGED <<byKey, byJti, arg, key, out>>

Lookup(t) ==         \* existing = self._by_jti.get(jti)
    /\ pc[t] = "lookup"
    /\ IF byJti[arg[t].jti] # NoKey
          THEN /\ out' = [out EXCEPT ![t] = byJti[arg[t].jti]]
               /\ Goto(t, "leave")
          ELSE /\ Goto(t, "mint")
               /\ UNCHANGED out
    /\ UNCHANGED <<lock, byKey, byJti, arg, key>>

(* mint_key: 128 random bits, never seen before; ValueError on a bad tier. *)
Mint(t) ==
    /\ pc[t] = "mint"
    /\ IF arg[t].tier \in Mintable
          THEN /\ \E k \in Key :
                     /\ k.tier = arg[t].tier
                     /\ byKey[k] = NoRec
                     /\ key' = [key EXCEPT ![t] = k]
               /\ Goto(t, "putKey")
          ELSE /\ Goto(t, "leave")
               /\ UNCHANGED key
    /\ UNCHANGED <<lock, byKey, byJti, arg, out>>

PutKey(t) ==
    /\ pc[t] = "putKey"
    /\ byKey' = [byKey EXCEPT ![key[t]] = arg[t]]
    /\ Goto(t, "putJti")
    /\ UNCHANGED <<lock, byJti, arg, key, out>>

PutJti(t) ==
    /\ pc[t] = "putJti"
    /\ byJti' = [byJti EXCEPT ![arg[t].jti] = key[t]]
    /\ out' = [out EXCEPT ![t] = key[t]]
    /\ Goto(t, "leave")
    /\ UNCHANGED <<lock, byKey, arg, key>>

Leave(t) ==          \* the with block ends, by return or by exception
    /\ pc[t] = "leave"
    /\ lock' = NoThread
    /\ Goto(t, "return")
    /\ UNCHANGED <<byKey, byJti, arg, key, out>>

Return(t) ==
    /\ pc[t] = "return"
    /\ Goto(t, "idle")
    /\ key' = [key EXCEPT ![t] = NoKey]
    /\ out' = [out EXCEPT ![t] = NoKey]
    /\ UNCHANGED <<lock, byKey, byJti, arg>>

IsValid(k) == byKey[k] # NoRec                       \* active is never unset
TierOf(k) == IF byKey[k] = NoRec THEN NoRec ELSE byKey[k].tier
FindByJti(j) == byJti[j]

Next ==
    \E t \in Thread :
        \/ \E tier \in Tier, j \in Jti : Call(t, tier, j)
        \/ Enter(t) \/ Lookup(t) \/ Mint(t) \/ PutKey(t) \/ PutJti(t)
        \/ Leave(t) \/ Return(t)

Spec == Init /\ [][Next]_vars

-----------------------------------------------------------------------------
(* Every variable stays in the range the Python dictionaries, the lock and *)
(* the local variables of issue can hold.                                  *)
TypeOK ==
    /\ lock \in Thread \cup {NoThread}
    /\ byKey \in [Key -> Rec \cup {NoRec}]
    /\ byJti \in [Jti -> Key \cup {NoKey}]
    /\ pc \in [Thread -> Stage]
    /\ arg \in [Thread -> [tier : Tier, jti : Jti]]
    /\ key \in [Thread -> Key \cup {NoKey}]
    /\ out \in [Thread -> Key \cup {NoKey}]

Inside == {"lookup", "mint", "putKey", "putJti", "leave"}

(* No two calls of issue are inside the with block at once, and the block  *)
(* is never left with the lock still held or entered without it.           *)
MutualExclusion == \A t \in Thread : pc[t] \in Inside <=> lock = t

(* A thread between minting and registering carries a valid, still         *)
(* unregistered key for a jti that has none.                               *)
PendingOK ==
    \A t \in Thread :
        /\ pc[t] \in {"mint", "putKey", "putJti"} => byJti[arg[t].jti] = NoKey
        /\ pc[t] \in {"putKey", "putJti"} =>
              key[t] \in Key /\ key[t].tier = arg[t].tier
        /\ pc[t] = "putKey" => byKey[key[t]] = NoRec
        /\ pc[t] = "putJti" => byKey[key[t]] = arg[t]

(* Both dictionaries agree: the key registered for a jti is a valid key    *)
(* whose record names that jti.  So a key that find_by_jti or issue hands  *)
(* out is accepted by is_valid with its own tier from that moment on, in   *)
(* every interleaving with the unlocked readers.                           *)
JtiKeyValid ==
    \A j \in Jti : FindByJti(j) # NoKey =>
        /\ IsValid(FindByJti(j))
        /\ byKey[FindByJti(j)].jti = j

(* No orphan: a key that is_valid accepts belongs to a jti that maps back  *)
(* to it, except while its own issue call is between the two writes.  A    *)
(* lost update would leave a second key valid for the same jti.            *)
NoOrphanKey ==
    \A k \in Key : IsValid(k) =>
        \/ byJti[byKey[k].jti] = k
        \/ \E t \in Thread : pc[t] = "putJti" /\ key[t] = k

(* The tier the prefix of a key shows is the tier the store holds for it:  *)
(* resolve_key_info reads the prefix first and never asks the store.       *)
PrefixIsTier == \A k \in Key : IsValid(k) => TierOf(k) = k.tier

(* What issue is about to return is the key its jti maps to.               *)
ReturnedOK ==
    \A t \in Thread : out[t] # NoKey =>
        /\ pc[t] \in {"leave", "return"}
        /\ out[t] = byJti[arg[t].jti]

IInv ==
    /\ TypeOK /\ MutualExclusion /\ PendingOK /\ JtiKeyValid
    /\ NoOrphanKey /\ PrefixIsTier /\ ReturnedOK

(* Once registered, a jti keeps its key and a key keeps its record: no     *)
(* later call, whatever tier it asks for, changes what was issued.         *)
NeverReissued ==
    [][/\ \A j \in Jti : byJti[j] # NoKey => byJti'[j] = byJti[j]
       /\ \A k \in Key : byKey[k] # NoRec => byKey'[k] = byKey[k]]_vars

-----------------------------------------------------------------------------
(* The in-memory store implements the promise of the abstract class.  The  *)
(* call takes effect where it finds the jti or writes _by_jti.             *)
phaseOf == [t \in Thread |->
              CASE pc[t] = "idle" -> "idle"
                [] pc[t] \in {"enter", "lookup", "mint", "putKey", "putJti"} -> "asked"
                [] OTHER -> "answered"]

Promise == INSTANCE KeyIssuance
             WITH keyOf <- byJti, asked <- arg, phase <- phaseOf, answer <- out

(* issue is linearizable: every behaviour of the dictionary store is one   *)
(* of the atomic, idempotent issuer.                                       *)
ImplementsPromise == Promise!Spec
=============================================================================
