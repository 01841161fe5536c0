---------------------------- MODULE KeyIssuance ----------------------------
(***************************************************************************)
(* What the abstract class KeyStore promises its callers                   *)
(* (bazi_engine/key_store.py): issuing is one atomic step, idempotent on   *)
(* jti, and every key minted is new.  Nothing is said here about locks or  *)
(* about the two dictionaries; module KeyStore says how the in-memory      *)
(* backend does it and is shown to implement this module.                  *)
(***************************************************************************)
CONSTANTS Thread,   \* callers of issue
          Jti,      \* idempotency keys of issuance requests
          Nonce,    \* the values secrets.token_hex can return
          Mintable, \* _MINTABLE_TIERS
          Tier,     \* tiers a caller may ask for, mintable or not
          NoKey     \* None

Key == [tier : Mintable, nonce : Nonce]   \* ff_<tier>_<hex>

VARIABLES keyOf,    \* the key issued for each jti, or NoKey
          asked,    \* the call each thread is in: its tier and jti
          phase,    \* "idle", "asked" or "answered"
          answer    \* what the call returns: a key, or NoKey if it raises

vars == <<keyOf, asked, phase, answer>>

Init ==
    /\ keyOf = [j \in Jti |-> NoKey]
    /\ asked \in [Thread -> [tier : Tier, jti : Jti]]
    /\ phase = [t \in Thread |-> "idle"]
    /\ answer = [t \in Thread |-> NoKey]

Ask(t, tier, j) ==
    /\ phase[t] = "idle"
    /\ phase' = [phase EXCEPT ![t] = "asked"]
    /\ asked' = [asked EXCEPT ![t] = [tier |-> tier, jti |-> j]]
    /\ UNCHANGED <<keyOf, answer>>

(* Same jti, same key: nothing new is minted. *)
AnswerExisting(t) ==
    /\ phase[t] = "asked"
    /\ keyOf[asked[t].jti] # NoKey
    /\ answer' = [answer EXCEPT ![t] = keyOf[asked[t].jti]]
    /\ phase' = [phase EXCEPT ![t] = "answered"]
    /\ UNCHANGED <<keyOf, asked>>

AnswerNew(t) ==
    /\ phase[t] = "asked"
    /\ keyOf[asked[t].jti] = NoKey
    /\ \E k \in Key : 
          /\ k.tier = asked[t].tier
          /\ \A j \in Jti : keyOf[j] # k
          /\ keyOf' = [keyOf EXCEPT ![asked[t].jti] = k]
          /\ answer' = [answer EXCEPT ![t] = k]
    /\ phase' = [phase EXCEPT ![t] = "answered"]
    /\ UNCHANGED asked

Refuse(t) ==
    /\ phase[t] = "asked"
    /\ asked[t].tier \notin Mintable
    /\ keyOf[asked[t].jti] = NoKey
    /\ phase' = [phase EXCEPT ![t] = "answered"]
    /\ UNCHANGED <<keyOf, asked, answer>>

Finish(t) ==
    /\ phase[t] = "answered"
    /\ phase' = [phase EXCEPT ![t] = "idle"]
    /\ answer' = [answer EXCEPT ![t] = NoKey]
    /\ UNCHANGED <<keyOf, asked>>

Next ==
    \E t \in Thread :
        \/ \E tier \in Tier, j \in Jti : Ask(t, tier, j)
        \/ AnswerExisting(t)
        \/ AnswerNew(t)
        \/ Refuse(t)
        \/ Finish(t)

Spec == Init /\ [][Next]_vars
=============================================================================
