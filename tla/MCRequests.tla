----------------------------- MODULE MCRequests -----------------------------
(* Requests for TLC.                                                        *)
EXTENDS Requests, TLC

Symmetry == Permutations(Updates) \cup Permutations(Users)
=============================================================================
