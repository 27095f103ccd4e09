--------------------------- MODULE MCPlayerSensors ---------------------------
(* Instances of PlayerSensors for TLC: a gyro and two cameras.               *)
EXTENDS PlayerSensors, TLC

CONSTANTS gyro, left, right

MCPeriodsOf == gyro :> {0, 1, 2} @@ left :> {0, 1, 2} @@ right :> {0, 2, 4}
=============================================================================
