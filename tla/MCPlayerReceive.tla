--------------------------- MODULE MCPlayerReceive ---------------------------
(* An instance of PlayerReceive for TLC.                                     *)
EXTENDS PlayerReceive
=============================================================================
