--------------------------- MODULE MCSetDownload ---------------------------
(* SetDownload for TLC: the configurations give a few stickers, fewer       *)
(* slots than stickers, and a clock that runs for a little more than the    *)
(* throttle's window.                                                      *)
EXTENDS SetDownload
=============================================================================
