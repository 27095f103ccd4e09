--------------------------- MODULE MCPlayerServer ---------------------------
(* An instance of PlayerServer for TLC: a gyro and two cameras.              *)
EXTENDS PlayerServer, FiniteSetsExt, TLC

CONSTANTS gyro, left, right

MCPeriodsOf == gyro :> {0, 2} @@ left :> {0, 2, 4} @@ right :> {0, 1, 2}

\* Together is the sum of a table of renderings.
ASSUME TogetherIsSum ==
  \A r \in [Camera -> 0..(2 * FullRate)] : S!Together(r) = MapThenSumSet(LAMBDA c : r[c], Camera)
=============================================================================
