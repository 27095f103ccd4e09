------------------------------ MODULE MCAutoRef ------------------------------
(* An instance of AutoRefMatch for TLC.                                      *)
EXTENDS AutoRefMatch
============================================================================
