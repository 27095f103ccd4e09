---------------------------- MODULE MCAutoRefLink ----------------------------
(* An instance of AutoRefLink for TLC.                                       *)
EXTENDS AutoRefLink
=============================================================================
