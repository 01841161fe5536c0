--------------------------- MODULE MCTransitCache ---------------------------
(* Two interchangeable request threads; an hour of two ticks and a day of  *)
(* two hours, so that two instants of an hour differ, and an hour and the  *)
(* life of a snapshot pass while requests are under way.  Either cache     *)
(* holds one entry, so that a second timeline evicts the first between the *)
(* test and the read of another request; the clock stops before an entry   *)
(* of the timeline cache, which lives a day, expires by itself.            *)
EXTENDS TransitCache, TLC

Symmetry == Permutations(Thread)
=============================================================================
