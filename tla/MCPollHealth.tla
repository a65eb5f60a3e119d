---------------------------- MODULE MCPollHealth ----------------------------
(* PollHealth for TLC, with the code's own numbers in units of 5 seconds.   *)
EXTENDS PollHealth
=============================================================================
