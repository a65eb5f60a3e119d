--------------------------- MODULE MCRateLimiter ---------------------------
(* RateLimiter for TLC. The sets of interchangeable requests and objects    *)
(* are symmetric; no liveness is checked.                                  *)
EXTENDS RateLimiter, TLC

Symmetry == Permutations(Requests) \cup Permutations(Objects)
=============================================================================
