----------------------------- MODULE Penalties -----------------------------
(***************************************************************************)
(* Penalties of robots in the GameController: who is penalised, since when *)
(* and whether the time runs (AdvancedData), the commands and buttons that *)
(* change it, and the copy that the Sender broadcasts.                     *)
(*                                                                         *)
(* data.team holds the teams by their place on the field, and the arrays   *)
(* isServingPenalty and whenPenalized are indexed by place.  A team has    *)
(* one robot here, no goalkeeper.  Time is counted from whenPenalized, up  *)
(* to PenaltyTime; a whenPenalized of 0 is long ago.  Of the match there   *)
(* are the game state, the half and the shoot-out; when the clock thread   *)
(* acts on them is left open.                                              *)
(***************************************************************************)
EXTENDS Integers

CONSTANTS
  Red, Blue,
  Robots,                \* the teams whose robot may be penalised
  Kinds,                 \* the penalties that are given
  PenaltyTime,
  ShootOuts              \* matches may have a shoot-out

ASSUME PenaltyConstants ==
  /\ Red # Blue
  /\ Robots \subseteq {Red, Blue} /\ Kinds \subseteq {"pickup", "pushing", "manipulation"}
  /\ PenaltyTime \in Nat \ {0}
  /\ ShootOuts \in BOOLEAN

VARIABLES
  gameState, firstHalf, shootOut,
  leftTeam,              \* data.team[0]
  penalty,               \* of the robot of a team: is there one
  serving, elapsed,      \* isServingPenalty, the time since whenPenalized; by place
  selected,              \* lastUIEvent, if it is the button of a penalty
  clone,                 \* the Sender's copy of the data
  shown,                 \* the robots that are penalised in the last broadcast
  owed                   \* the time that a robot still has to serve by the rules

matchVars == <<gameState, firstHalf, shootOut>>
timeVars  == <<serving, elapsed>>
dataVars  == <<matchVars, leftTeam, penalty, timeVars, owed>>
sendVars  == <<clone, shown>>

Team == {Red, Blue}
Place == {0, 1}
PlaceOf(t) == IF t = leftTeam THEN 0 ELSE 1
Other(t) == IF t = Red THEN Blue ELSE Red

AtMost(x) == IF x > PenaltyTime THEN PenaltyTime ELSE x
AtLeast(x) == IF x < 0 THEN 0 ELSE x

----------------------------------------------------------------------------
(* The Sender.                                                             *)

\* Sender.send, after the changes of an event.
Send ==
  clone' = [t \in Team |-> [penalty |-> penalty'[t], serving |-> serving'[PlaceOf(t)'],
                            elapsed |-> elapsed'[PlaceOf(t)'], owed |-> owed'[t]]]

\* getRemainingPenaltyTime is 0.
Served(robot) == robot.serving /\ robot.elapsed = PenaltyTime

\* updateTimes in Sender.run: only the copy learns that a penalty is over.
Broadcast ==
  /\ shown' = {t \in Team : clone[t].penalty /\ ~Served(clone[t])}
  /\ UNCHANGED <<dataVars, selected, clone>>

\* Time passes, for the data and for the copy.
TimePasses ==
  /\ elapsed' = [p \in Place |-> AtMost(elapsed[p] + 1)]
  /\ owed' = [t \in Team |-> IF serving[PlaceOf(t)] THEN AtLeast(owed[t] - 1) ELSE owed[t]]
  /\ clone' = [t \in Team |->
       [clone[t] EXCEPT !.elapsed = AtMost(@ + 1),
                        !.owed = IF clone[t].serving THEN AtLeast(@ - 1) ELSE @]]
  /\ UNCHANGED <<matchVars, leftTeam, penalty, serving, selected, shown>>

----------------------------------------------------------------------------
(* Pieces the events share.                                                *)

\* Mutant of PerformOn: the time of an earlier penalty goes on.
PerformOnAgain(t, served) ==
  /\ penalty' = [penalty EXCEPT ![t] = TRUE]
  /\ serving' = [serving EXCEPT ![PlaceOf(t)] = served]
  /\ owed' = [owed EXCEPT ![t] = PenaltyTime]
  /\ UNCHANGED elapsed

\* performOn of a penalty; a command starts its time at once (handleRobotPenalty).
PerformOn(t, served) ==
  /\ penalty' = [penalty EXCEPT ![t] = TRUE]
  /\ serving' = [serving EXCEPT ![PlaceOf(t)] = served]
  /\ elapsed' = [elapsed EXCEPT ![PlaceOf(t)] = 0]
  /\ owed' = [owed EXCEPT ![t] = PenaltyTime]

\* resetPenalties and resetPenaltyTimes; isServingPenalty is left as it is.
ResetPenalties ==
  /\ penalty' = [t \in Team |-> FALSE]
  /\ elapsed' = [p \in Place |-> PenaltyTime]
  /\ owed' = [t \in Team |-> 0]

Untouched == UNCHANGED <<penalty, elapsed, owed>>

\* changeSide: whenPenalized does not change places.
ChangeSide ==
  /\ leftTeam' = Other(leftTeam)
  /\ serving' = [p \in Place |-> serving[1 - p]]
  /\ IF shootOut THEN Untouched ELSE ResetPenalties

\* clearPenaltiesServed.
Cleared(t) == serving[PlaceOf(t)] /\ (penalty[t] => elapsed[PlaceOf(t)] = PenaltyTime)

ClearPenaltiesServed ==
  /\ penalty' = [t \in Team |-> penalty[t] /\ ~Cleared(t)]
  /\ serving' = [p \in Place |-> serving[p] /\ \A t \in Team : PlaceOf(t) = p => ~Cleared(t)]
  /\ UNCHANGED <<elapsed, owed>>

----------------------------------------------------------------------------
(* Changes of the match.                                                   *)

Legal(op) ==
  CASE op = "READY"  -> gameState = "READY" \/ (gameState = "INITIAL" /\ ~shootOut)
    [] op = "SET"    -> gameState \in {"READY", "SET"} \/ shootOut
    [] op = "PLAY"   -> gameState \in {"SET", "PLAYING"}
    [] op = "FINISH" -> gameState # "INITIAL"

\* perform of Ready, Set, Play and Finish.
Perform(op) ==
  /\ gameState' = [READY |-> "READY", SET |-> "SET", PLAY |-> "PLAYING", FINISH |-> "FINISHED"][op]
  /\ IF op = "SET" /\ shootOut /\ gameState \notin {"INITIAL", "SET"}
     THEN ChangeSide
     ELSE UNCHANGED <<leftTeam, penalty, timeVars, owed>>
  /\ UNCHANGED <<firstHalf, shootOut>>

SecondHalfLegal == ~shootOut /\ (gameState = "FINISHED" \/ ~firstHalf)

\* Nothing is left to do in the second half.
SecondHalf ==
  /\ IF firstHalf
     THEN firstHalf' = FALSE /\ gameState' = "INITIAL" /\ ChangeSide
     ELSE UNCHANGED <<firstHalf, gameState, leftTeam, penalty, timeVars, owed>>
  /\ UNCHANGED shootOut

PenaltyShootLegal == ShootOuts /\ (shootOut \/ (~firstHalf /\ gameState = "FINISHED"))

PenaltyShoot ==
  /\ IF shootOut THEN UNCHANGED <<shootOut, gameState>> /\ Untouched
     ELSE shootOut' = TRUE /\ gameState' = "INITIAL" /\ ResetPenalties
  /\ UNCHANGED <<firstHalf, leftTeam, serving>>

\* Goal.perform, with the READY or the FINISHED that follows it.
Goal ==
  /\ ClearPenaltiesServed
  /\ gameState' = IF shootOut THEN "FINISHED" ELSE "READY"
  /\ UNCHANGED <<firstHalf, shootOut, leftTeam>>

----------------------------------------------------------------------------
(* The clock thread and the operator: events that are registered with the  *)
(* EventHandler, which passes the data on to the Sender.                   *)

\* ClockTick.perform.
ClockTick ==
  /\ \/ UNCHANGED dataVars
     \/ gameState = "READY" /\ Perform("SET")
     \/ gameState = "FINISHED" /\ firstHalf /\ ~shootOut /\ SecondHalf
  /\ Send /\ UNCHANGED <<selected, shown>>

PenaltyLegal(k) ==
  \/ k = "pickup"
  \/ k = "pushing" /\ gameState \in {"READY", "PLAYING"}
  \/ k = "manipulation" /\ gameState = "PLAYING"

\* The buttons of the penalties: pressed again, one is no longer selected.
SelectPenalty(k) ==
  /\ PenaltyLegal(k)
  /\ selected' = IF selected = k THEN "none" ELSE k
  /\ UNCHANGED <<dataVars, shown>>
  /\ Send

RobotLegal(t) ==
  CASE selected = "none"   -> penalty[t]
    [] selected = "pickup" -> TRUE
    [] OTHER               -> ~penalty[t]

\* Robot.perform: a selected penalty; then the start of its time; then the same time once
\* more, or, when it is over, its end.
ClickRobot(t) ==
  LET p == PlaceOf(t)
  IN  /\ RobotLegal(t)
      /\ \/ selected # "none" /\ PerformOn(t, FALSE)
         \/ /\ selected = "none" /\ (serving[p] => elapsed[p] < PenaltyTime)
            /\ PerformOn(t, TRUE)
         \/ /\ selected = "none" /\ serving[p] /\ elapsed[p] = PenaltyTime
            /\ penalty' = [penalty EXCEPT ![t] = FALSE]
            /\ serving' = [serving EXCEPT ![p] = FALSE]
            /\ UNCHANGED <<elapsed, owed>>
      /\ selected' = "none"
      /\ UNCHANGED <<matchVars, leftTeam, shown>>
      /\ Send

\* The buttons of the game states.
PressState(op) ==
  /\ Legal(op)
  /\ Perform(op)
  /\ selected' = "none" /\ UNCHANGED shown
  /\ Send

Event ==
  \/ ClockTick
  \/ \E k \in Kinds : SelectPenalty(k)
  \/ \E t \in Robots : ClickRobot(t)
  \/ \E op \in {"READY", "SET", "PLAY", "FINISH"} : PressState(op)

----------------------------------------------------------------------------
Init ==
  /\ gameState \in {"INITIAL", "READY", "SET", "PLAYING", "FINISHED"}
  /\ firstHalf \in BOOLEAN /\ shootOut = FALSE
  /\ leftTeam = Red
  /\ penalty = [t \in Team |-> FALSE]
  /\ serving = [p \in Place |-> FALSE] /\ elapsed = [p \in Place |-> PenaltyTime]
  /\ selected = "none"
  /\ clone = [t \in Team |-> [penalty |-> FALSE, serving |-> FALSE, elapsed |-> PenaltyTime, owed |-> 0]]
  /\ shown = {} /\ owed = [t \in Team |-> 0]

=============================================================================
