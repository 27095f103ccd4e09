----------------------------- MODULE MCOperator -----------------------------
(* An instance of OperatorMatch for TLC.                                     *)
EXTENDS OperatorMatch
============================================================================
