----------------------------- MODULE MCShootout -----------------------------
(* An instance of ShootoutByRule for TLC.                                    *)
EXTENDS ShootoutByRule
============================================================================
