------------------------------- MODULE Match -------------------------------
(***************************************************************************)
(* What a football match is to its audience: periods in an order, a ball   *)
(* that is stopped, in play or done with, and goals.  The abstract         *)
(* specification that the GameController, driven by an automatic referee,  *)
(* implements (AutoRefMatch!ImplementsMatch).  Clocks, set pieces, sides,  *)
(* kick-offs and the order of commands are all below this level.           *)
(***************************************************************************)
EXTENDS Naturals

CONSTANTS Red, Blue, MaxScore

VARIABLES
  format,     \* NORMAL, KNOCKOUT or PENALTY
  period,     \* "first", "second", "extra1", "extra2" or "shootout"
  ball,       \* "stopped", "play" or "over"
  goals

vars == <<format, period, ball, goals>>

Init ==
  /\ format \in {"NORMAL", "KNOCKOUT", "PENALTY"}
  /\ period = IF format = "PENALTY" THEN "shootout" ELSE "first"
  /\ ball = "stopped"
  /\ goals = [t \in {Red, Blue} |-> 0]

KickIn ==
  /\ ball = "stopped" /\ ball' = "play"
  /\ UNCHANGED <<format, period, goals>>

Stop ==
  /\ ball = "play" /\ ball' = "stopped"
  /\ UNCHANGED <<format, period, goals>>

\* A goal stops play; in the shoot-out it ends the shot.
ScoreGoal(t) ==
  /\ ball = "play" /\ goals[t] < MaxScore
  /\ goals' = [goals EXCEPT ![t] = @ + 1]
  /\ ball' = IF period = "shootout" THEN "over" ELSE "stopped"
  /\ UNCHANGED <<format, period>>

\* The end of a period, or of a shot of the shoot-out.
End ==
  /\ ball # "over" /\ ball' = "over"
  /\ UNCHANGED <<format, period, goals>>

NextShot ==
  /\ period = "shootout" /\ ball = "over" /\ ball' = "stopped"
  /\ UNCHANGED <<format, period, goals>>

\* Extra time needs a knock-out match and a tie, the shoot-out a knock-out match.
NextPeriod ==
  /\ ball = "over" /\ ball' = "stopped"
  /\ \/ period = "first"  /\ period' = "second"
     \/ period = "second" /\ period' = "extra1" /\ format # "NORMAL" /\ goals[Red] = goals[Blue]
     \/ period = "extra1" /\ period' = "extra2"
     \/ period \in {"second", "extra2"} /\ period' = "shootout" /\ format # "NORMAL"
  /\ UNCHANGED <<format, goals>>

Next == KickIn \/ Stop \/ End \/ NextShot \/ NextPeriod \/ \E t \in {Red, Blue} : ScoreGoal(t)

Spec == Init /\ [][Next]_vars

============================================================================
