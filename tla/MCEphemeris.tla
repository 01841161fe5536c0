----------------------------- MODULE MCEphemeris -----------------------------
(* Two requests of any kind, two bodies with a file each, two ayanamsas.   *)
EXTENDS Ephemeris, TLC

Symmetry == Permutations(Thread) \cup Permutations(Body)
=============================================================================
