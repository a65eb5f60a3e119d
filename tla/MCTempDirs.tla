----------------------------- MODULE MCTempDirs -----------------------------
(* TempDirs for TLC: two tasks, the database beside their directories, and  *)
(* a directory that is not a task's.                                        *)
EXTENDS TempDirs
=============================================================================
