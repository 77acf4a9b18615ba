--------------------------- MODULE MCAutoHealer ---------------------------
(* AutoHealer for TLC.                                                      *)
EXTENDS AutoHealer
============================================================================
