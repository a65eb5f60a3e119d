----------------------------- MODULE MCVolumes -----------------------------
(* Volumes and the archives made of them for TLC: every list of at most     *)
(* MaxFiles files whose sizes lie around the limit, every call of the file  *)
(* system failing or not.                                                  *)
EXTENDS Archive
=============================================================================
