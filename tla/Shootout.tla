------------------------------ MODULE Shootout ------------------------------
(***************************************************************************)
(* A fair shoot-out: the teams take their shots in turn, each shot is at   *)
(* most one goal, and it is over as soon as, and not before, it is decided.*)
(* ShootoutByRule and RefereeMatch implement it.                           *)
(***************************************************************************)
EXTENDS StopRule

CONSTANTS Red, Blue

ASSUME TwoTeams == Red # Blue

VARIABLES
  phase,     \* "start", "shot", "taken", "counted" or "over"
  kicker,    \* the team whose turn it is
  shots,     \* shots of each team, the current one included
  goals

vars == <<phase, kicker, shots, goals>>

Team == {Red, Blue}
Rival(t) == IF t = Red THEN Blue ELSE Red
Total == shots[Red] + shots[Blue]

Init ==
  /\ phase = "start" /\ kicker \in Team
  /\ shots = [t \in Team |-> 0]
  /\ goals = [t \in Team |-> 0]

\* Before the first shot it may be settled which team begins.
Toss(t) ==
  /\ phase = "start" /\ kicker' = t
  /\ UNCHANGED <<phase, shots, goals>>

FirstShot ==
  /\ phase = "start" /\ phase' = "shot"
  /\ shots' = [shots EXCEPT ![kicker] = @ + 1]
  /\ UNCHANGED <<kicker, goals>>

Take(g) ==
  /\ phase = "shot" /\ phase' = "taken"
  /\ goals' = [goals EXCEPT ![kicker] = @ + g]
  /\ UNCHANGED <<kicker, shots>>

Verdict(stop) ==
  /\ phase = "taken"
  /\ phase' = IF stop THEN "over" ELSE "counted"
  /\ UNCHANGED <<kicker, shots, goals>>

\* Mutant of NextShot: there is no extended series.
NextShotRegular ==
  /\ phase = "counted" /\ phase' = "shot"
  /\ Total < 10
  /\ kicker' = Rival(kicker)
  /\ shots' = [shots EXCEPT ![Rival(kicker)] = @ + 1]
  /\ UNCHANGED goals

NextShot ==
  /\ phase = "counted" /\ phase' = "shot"
  /\ kicker' = Rival(kicker)
  /\ shots' = [shots EXCEPT ![Rival(kicker)] = @ + 1]
  /\ UNCHANGED goals

IsDecided == Decided(Total, shots[Red], goals[Red], shots[Blue], goals[Blue])

Play == FirstShot \/ NextShot \/ (\E t \in Team : Toss(t)) \/ \E g \in 0..1 : Take(g)

Next == Play \/ Verdict(IsDecided)

Spec == Init /\ [][Next]_vars

============================================================================
