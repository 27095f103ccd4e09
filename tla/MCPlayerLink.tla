----------------------------- MODULE MCPlayerLink -----------------------------
(* An instance of PlayerLink for TLC.                                         *)
EXTENDS PlayerLink
=============================================================================
