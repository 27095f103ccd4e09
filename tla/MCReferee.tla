------------------------------ MODULE MCReferee ------------------------------
(* An instance of RefereeMatch for TLC.                                      *)
EXTENDS RefereeMatch
============================================================================
