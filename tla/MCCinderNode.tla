---------------------------- MODULE MCCinderNode ----------------------------
(* CinderNode for TLC.                                                       *)
EXTENDS CinderNode
=============================================================================
