---------------------------- MODULE MCTaskSlots ----------------------------
(* TaskSlots for TLC: the configurations give the small sets of goroutines  *)
(* and users. Goroutines are interchangeable, but symmetry is not used, as  *)
(* the run checks liveness.                                                *)
EXTENDS TaskSlots
=============================================================================
