---------------------------- MODULE MCKeyService ----------------------------
(* Two authenticating threads beside the issuance endpoint, over up to two *)
(* process lives.  Threads and minted keys are interchangeable.      *)
EXTENDS KeyService, TLC

Symmetry == Permutations(AuthThread) \cup Permutations(Secret)
=============================================================================
