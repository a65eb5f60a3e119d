--------------------------- MODULE MCDownloadTask ---------------------------
(* Tasks and their conversions for TLC, with the code's own number of       *)
(* retries and a deadline that may be over in either program.              *)
EXTENDS Conversion
=============================================================================
