---------------------------- MODULE GameControl ----------------------------
(***************************************************************************)
(* The match data of the GameController (data.states.AdvancedData with its *)
(* GameControlData part) and the actions of controller.action that change  *)
(* it, under the rules of the simulation league (data.hl.HLSim).           *)
(*                                                                         *)
(* An action here is the perform method of the Java action guarded by its  *)
(* isLegal method: EventHandler.register and SimulatorUpdateComponent both *)
(* call the first only after the second said yes.  PerformX stands for a   *)
(* perform method that other actions call without asking isLegal.          *)
(*                                                                         *)
(* Time.  The code keeps absolute timestamps.  Here inState is the time    *)
(* since the game state began (getTime() - whenCurrentGameStateBegan) and  *)
(* timeBefore is timeBeforeCurrentGameState; both saturate at HalfTime,    *)
(* since every use beyond it only says that the half is over.              *)
(* Penalties and cards of the robots are not part of this module.          *)
(***************************************************************************)
EXTENDS Integers, FiniteSets

CONSTANTS
  Red, Blue,       \* the two teams; red is team[0] when the program starts
  DROPBALL,        \* the value of kickOffTeam after a dropped ball
  None,            \* no team, no clock
  SetPiece,        \* the secondary states that are game interruptions
  HalfTime,        \* Rules.halfTime: where the time counters saturate
  ReadyTime,       \* Rules.readyTime: how long the ready state is
  PauseTime,       \* Rules.pauseTime and Rules.pauseOverTime
  PrepTime,        \* Rules.game_interruption_preparation_time
  MinReadyTime,    \* Rules.game_interruption_minimal_ready_time
  MaxScore,        \* bound: goals of one team
  MaxShots         \* bound: penalty shots of one team

ASSUME TeamsDiffer ==
  Red # Blue /\ DROPBALL \notin {Red, Blue} /\ None \notin {Red, Blue, DROPBALL}

ASSUME SetPiecesNamed ==
  SetPiece \subseteq {"DIRECT_FREEKICK", "INDIRECT_FREEKICK", "PENALTYKICK",
                      "CORNER_KICK", "GOAL_KICK", "THROW_IN"}

ASSUME TimesOrdered ==
  /\ HalfTime \in Nat /\ ReadyTime \in 0..HalfTime /\ PauseTime \in Nat
  /\ PrepTime \in Nat /\ MinReadyTime \in 0..PrepTime /\ None \notin Int

ASSUME BoundsOk == MaxScore \in Nat /\ MaxShots \in 1..15

VARIABLES
  matchType,       \* "type" of game.json: NORMAL, KNOCKOUT or PENALTY
  gameState, secGameState,
  previousSec,     \* previousSecGameState, the one-slot backup
  info,            \* secGameStateInfo: the team of the interruption and its sub mode
  firstHalf,       \* firstHalf = C_TRUE
  leftTeam,        \* team[0]: the team shown, and playing, on the left
  kickOffTeam, leftSideKickoff,
  score, penaltyShot, singleShots,
  timeOutActive, timeOutTaken, refereeTimeout,
  manPause, manPlay,
  inState, timeBefore, secondaryClock

secVars   == <<secGameState, previousSec, info>>
endVars   == <<firstHalf, leftTeam>>
kickVars  == <<kickOffTeam, leftSideKickoff>>
shotVars  == <<score, penaltyShot, singleShots>>
outVars   == <<timeOutActive, timeOutTaken, refereeTimeout>>
pauseVars == <<manPause, manPlay>>
stateVars == <<gameState, inState, timeBefore>>
gameVars  == <<matchType, secVars, endVars, kickVars, shotVars, outVars, pauseVars,
               stateVars, secondaryClock>>

----------------------------------------------------------------------------
Team == {Red, Blue}
Other(t) == IF t = Red THEN Blue ELSE Red

\* The index of a team in data.team, 0 on the left and 1 on the right.
Side(t) == IF t = leftTeam THEN 0 ELSE 1

\* data.team[kickOffTeam == data.team[0].teamNumber ? 0 : 1]: with a dropped
\* ball the code takes the right team for the one that kicks.
KickerOf(kick, left) == IF kick = left THEN left ELSE Other(left)

PlayOff == matchType \in {"KNOCKOUT", "PENALTY"}    \* gameType = PLAYOFF

Sat(x) == IF x > HalfTime THEN HalfTime ELSE x

\* addTimeInCurrentState
TimeWithState == Sat(timeBefore + inState)

\* What getRemainingGameTime subtracts from the length of the half.
TimePlayed ==
  IF \/ gameState \in {"INITIAL", "FINISHED"}
     \/ gameState \in {"READY", "SET"} /\ timeBefore = 0
  THEN timeBefore
  ELSE TimeWithState

NoInfo == [team |-> None, sub |-> 0]

\* The weight of a shot in the bit mask singleShots: 1 << (n - 1) in an int,
\* added to a short, where a shift by a negative number falls off.
ShotBit(n) ==
  IF n \in 1..15
  THEN <<1, 2, 4, 8, 16, 32, 64, 128, 256, 512, 1024, 2048, 4096, 8192, 16384>>[n]
  ELSE 0

Init ==
  /\ matchType \in {"NORMAL", "KNOCKOUT", "PENALTY"}
  /\ gameState = "INITIAL"
  /\ secGameState = IF matchType = "PENALTY" THEN "PENALTYSHOOT" ELSE "NORMAL"
  /\ previousSec = "NORMAL" /\ info = NoInfo
  /\ firstHalf = TRUE /\ leftTeam = Red
  /\ kickOffTeam = Red /\ leftSideKickoff = TRUE
  /\ score = [t \in Team |-> 0]
  /\ penaltyShot = [t \in Team |-> 0] /\ singleShots = [t \in Team |-> 0]
  /\ timeOutActive = [s \in {0, 1} |-> FALSE] /\ timeOutTaken = [s \in {0, 1} |-> FALSE]
  /\ refereeTimeout = FALSE
  /\ manPause = FALSE /\ manPlay = FALSE
  /\ inState = 0 /\ timeBefore = 0 /\ secondaryClock = None

----------------------------------------------------------------------------
(* Pieces the actions share.                                               *)

NoTimeOut == ~timeOutActive[0] /\ ~timeOutActive[1] /\ ~refereeTimeout

EnterState(state, before) ==
  /\ gameState' = state
  /\ inState' = 0
  /\ timeBefore' = before

\* Mutant of PerformReady: the time played is not added up when play stops.
ReadyForgetsTime ==
  IF gameState = "READY" THEN UNCHANGED stateVars ELSE EnterState("READY", timeBefore)

\* Ready.perform
PerformReady ==
  IF gameState = "READY" THEN UNCHANGED stateVars
  ELSE EnterState("READY", IF gameState = "PLAYING" THEN TimeWithState ELSE timeBefore)

\* Finish.perform
PerformFinish ==
  IF gameState = "FINISHED" THEN UNCHANGED stateVars
  ELSE EnterState("FINISHED", TimeWithState)

\* AdvancedData.changeSide, called in the secondary state sec: the teams swap the
\* two places of data.team, what the half counted is dropped, and outside the
\* shoot-out both teams may take a time-out again.
ChangeSide(sec) ==
  /\ leftTeam' = Other(leftTeam)
  /\ timeBefore' = 0
  /\ timeOutTaken' = [s \in {0, 1} |-> sec = "PENALTYSHOOT" /\ timeOutTaken[1 - s]]

\* Mutant of PerformSet: the kick changes hands and the ends do not.
SetKeepsEnds ==
  /\ gameState # "SET" /\ EnterState("SET", 0)
  /\ kickOffTeam' = IF secGameState = "PENALTYSHOOT" /\ gameState # "INITIAL"
                    THEN Other(KickerOf(kickOffTeam, leftTeam)) ELSE kickOffTeam
  /\ UNCHANGED <<penaltyShot, leftTeam, timeOutTaken>>

\* Set.perform: in the shoot-out every entry of SET but the first, and those after
\* a time-out, passes the kick to the other team and changes sides.
PerformSet ==
  LET shootOut == secGameState = "PENALTYSHOOT"
      swap     == shootOut /\ gameState # "INITIAL"
      counted  == shootOut /\ gameState # "PLAYING"
  IN  IF gameState = "SET"
      THEN UNCHANGED <<stateVars, kickOffTeam, leftTeam, penaltyShot, timeOutTaken>>
      ELSE /\ EnterState("SET", IF shootOut \/ timeBefore = 0 THEN 0 ELSE TimeWithState)
           /\ kickOffTeam' = IF swap THEN Other(KickerOf(kickOffTeam, leftTeam)) ELSE kickOffTeam
           /\ IF swap THEN ChangeSide(secGameState) ELSE UNCHANGED <<leftTeam, timeOutTaken>>
           /\ LET shooter == KickerOf(kickOffTeam', leftTeam')
              IN  /\ counted => penaltyShot[shooter] < MaxShots
                  /\ penaltyShot' = IF counted THEN [penaltyShot EXCEPT ![shooter] = @ + 1]
                                               ELSE penaltyShot

\* ClockTick.isClockRunning (playOffTimeStop is false in this league).
ClockRunning ==
  \/ manPlay
  \/ /\ gameState \in {"READY", "SET", "PLAYING"}
     /\ gameState # "PLAYING" => timeBefore # 0
     /\ ~manPause

\* ClockPause.perform is a toggle: it reverses what it finds the clock doing.
ClockPause ==
  /\ manPause' = (ClockRunning /\ (manPause \/ ~manPlay))
  /\ manPlay' = (~ClockRunning /\ ~manPause)

\* The common part of SecondHalf, FirstHalfOvertime and SecondHalfOvertime. The
\* time the state began is kept, to count the pause.
StartHalf(first, sec) ==
  /\ firstHalf' = first
  /\ secGameState' = sec
  /\ ChangeSide(sec)
  /\ kickOffTeam' = IF leftSideKickoff THEN leftTeam' ELSE Other(leftTeam')
  /\ gameState' = "INITIAL"
  /\ UNCHANGED <<matchType, previousSec, info, leftSideKickoff, shotVars, timeOutActive,
                 refereeTimeout, pauseVars, inState, secondaryClock>>

----------------------------------------------------------------------------
(* Changes of the game state.                                              *)

\* Mutant of Ready: a time-out does not keep the teams from READY.
ReadyInTimeOut ==
  /\ gameState \in {"INITIAL", "READY"} /\ secGameState # "PENALTYSHOOT"
  /\ PerformReady
  /\ UNCHANGED <<matchType, secVars, endVars, kickVars, shotVars, outVars, pauseVars, secondaryClock>>

ReadyLegal ==
  \/ gameState = "INITIAL" /\ NoTimeOut /\ secGameState # "PENALTYSHOOT"
  \/ gameState = "READY"

Ready ==
  /\ ReadyLegal
  /\ PerformReady
  /\ UNCHANGED <<matchType, secVars, endVars, kickVars, shotVars, outVars, pauseVars, secondaryClock>>

\* What Set.perform and the clock's call of it leave alone.
SetFrame == UNCHANGED <<matchType, secVars, firstHalf, leftSideKickoff, score, singleShots,
                        timeOutActive, refereeTimeout, pauseVars, secondaryClock>>

SetLegal ==
  \/ gameState \in {"READY", "SET"}
  \/ secGameState = "PENALTYSHOOT" /\ NoTimeOut      \* penaltyShotRetries: PLAYING too

Set ==
  /\ SetLegal
  /\ PerformSet
  /\ SetFrame

PlayLegal == gameState \in {"SET", "PLAYING"}

Play ==
  /\ PlayLegal
  /\ IF gameState = "PLAYING" THEN UNCHANGED stateVars
     ELSE EnterState("PLAYING", IF timeBefore = 0 THEN 0 ELSE TimeWithState)
  /\ UNCHANGED <<matchType, secVars, endVars, kickVars, shotVars, outVars, pauseVars, secondaryClock>>

FinishLegal == secGameState \notin SetPiece /\ gameState # "INITIAL"

Finish ==
  /\ FinishLegal
  /\ PerformFinish
  /\ UNCHANGED <<matchType, secVars, endVars, kickVars, shotVars, outVars, pauseVars, secondaryClock>>

----------------------------------------------------------------------------
(* Changes of the half.  Where perform does nothing the command is a       *)
(* stuttering step and has no action here.                                 *)

SecondHalf ==
  /\ secGameState = "NORMAL" /\ gameState = "FINISHED" /\ firstHalf
  /\ StartHalf(FALSE, "NORMAL")

\* Mutant of FirstHalfOvertime: extra time without a tie.
OvertimeAnyScore ==
  /\ PlayOff
  /\ secGameState = "NORMAL" /\ gameState = "FINISHED" /\ ~firstHalf
  /\ StartHalf(TRUE, "OVERTIME")

OvertimeLegal ==
  /\ PlayOff
  /\ secGameState = "NORMAL" /\ gameState = "FINISHED" /\ ~firstHalf
  /\ score[Red] = score[Blue]

FirstHalfOvertime ==
  /\ OvertimeLegal
  /\ StartHalf(TRUE, "OVERTIME")

SecondHalfOvertime ==
  /\ secGameState = "OVERTIME" /\ gameState = "FINISHED" /\ firstHalf
  /\ StartHalf(FALSE, "OVERTIME")

PenaltyShootLegal ==
  /\ PlayOff
  /\ secGameState # "PENALTYSHOOT"
  /\ previousSec = "PENALTYSHOOT" \/ (~firstHalf /\ gameState = "FINISHED")

PenaltyShoot ==
  /\ PenaltyShootLegal
  /\ secGameState' = "PENALTYSHOOT"
  /\ gameState' = "INITIAL"
  /\ timeBefore' = 0
  /\ timeOutTaken' = [s \in {0, 1} |-> FALSE]
  /\ UNCHANGED <<matchType, previousSec, info, endVars, kickVars, shotVars, timeOutActive,
                 refereeTimeout, pauseVars, inState, secondaryClock>>

----------------------------------------------------------------------------
(* Goals and dropped balls.                                                *)

\* Outside the shoot-out a goal gives the other team the kick-off and starts READY;
\* in it the goal is marked in the mask and the shot is finished.
GoalLegal(t) == gameState = "PLAYING" /\ (secGameState = "PENALTYSHOOT" => kickOffTeam = t)

Goal(t) ==
  LET shootOut == secGameState = "PENALTYSHOOT"
  IN  /\ GoalLegal(t)
      /\ score[t] < MaxScore
      /\ score' = [score EXCEPT ![t] = @ + 1]
      /\ singleShots' = IF shootOut THEN [singleShots EXCEPT ![t] = @ + ShotBit(penaltyShot[t])]
                                    ELSE singleShots
      /\ kickOffTeam' = IF shootOut THEN kickOffTeam ELSE Other(t)
      /\ IF shootOut THEN PerformFinish ELSE PerformReady
      /\ UNCHANGED <<matchType, secVars, endVars, leftSideKickoff, penaltyShot, outVars,
                     pauseVars, secondaryClock>>

DropBall ==
  /\ gameState = "PLAYING"
  /\ kickOffTeam' = DROPBALL
  /\ PerformReady
  /\ UNCHANGED <<matchType, secVars, endVars, leftSideKickoff, shotVars, outVars, pauseVars,
                 secondaryClock>>

----------------------------------------------------------------------------
(* Game interruptions (free kicks, penalty, corner and goal kicks, throw-  *)
(* ins): START puts the ball down (sub mode 0), READY lets the team place  *)
(* itself (1), PREPARE makes the robots stand still (2), EXECUTE ends it.  *)

Interrupted(k, t) == secGameState = k /\ info.team = t      \* GameInterruption.isActive

InterruptionLegal(k, t) ==
  \/ Interrupted(k, t) /\ info.sub # 1
  \/ /\ gameState = "PLAYING"
     /\ secGameState \in {"NORMAL", "OVERTIME"} \/ Interrupted(k, t)
     /\ \/ info.sub # 1
        \/ secGameState \notin SetPiece
        \/ secondaryClock # None /\ secondaryClock <= PrepTime - MinReadyTime

StartInterruption(k, t) ==
  /\ previousSec' = secGameState
  /\ secGameState' = k
  /\ info' = [team |-> t, sub |-> 0]
  /\ ClockPause
  /\ UNCHANGED secondaryClock

\* Mutant of EndInterruption: back to NORMAL, extra time or not.
EndToNormal ==
  /\ secGameState' = "NORMAL"
  /\ previousSec' = secGameState
  /\ info' = NoInfo
  /\ ClockPause

\* Back to the secondary state from before, with the clock toggled.
EndInterruption ==
  /\ secGameState' = previousSec
  /\ previousSec' = secGameState
  /\ info' = NoInfo
  /\ ClockPause

\* Mutant of AdvanceInterruption: EXECUTE counts on instead of ending.
AdvanceForever ==
  /\ info' = [info EXCEPT !.sub = @ + 1]
  /\ secondaryClock' = IF info.sub = 0 THEN PrepTime ELSE None
  /\ UNCHANGED <<secGameState, previousSec, pauseVars>>

AdvanceInterruption ==
  CASE info.sub = 0 -> /\ info' = [info EXCEPT !.sub = 1]
                       /\ secondaryClock' = PrepTime
                       /\ UNCHANGED <<secGameState, previousSec, pauseVars>>
    [] info.sub = 1 -> /\ info' = [info EXCEPT !.sub = 2]
                       /\ secondaryClock' = None
                       /\ UNCHANGED <<secGameState, previousSec, pauseVars>>
    [] info.sub = 2 -> EndInterruption /\ UNCHANGED secondaryClock

InterruptionFrame == UNCHANGED <<matchType, endVars, kickVars, shotVars, outVars, stateVars>>

GameInterruption(k, t) ==
  /\ InterruptionLegal(k, t)
  /\ IF Interrupted(k, t) THEN AdvanceInterruption ELSE StartInterruption(k, t)
  /\ InterruptionFrame

\* Mutant of Retake: it stops the clock like the start of an interruption.
RetakeToggles(t) ==
  /\ secGameState \in SetPiece /\ info.team = t
  /\ info' = [team |-> t, sub |-> 0]
  /\ secondaryClock' = None
  /\ ClockPause
  /\ UNCHANGED <<secGameState, previousSec>>
  /\ InterruptionFrame

\* RETAKE starts the interruption over, whatever its kind.
Retake(t) ==
  /\ secGameState \in SetPiece /\ info.team = t
  /\ info' = [team |-> t, sub |-> 0]
  /\ secondaryClock' = None
  /\ UNCHANGED <<secGameState, previousSec, pauseVars>>
  /\ InterruptionFrame

\* Mutant of Abort: the clock stays frozen.
AbortStaysPaused(t) ==
  /\ secGameState \in SetPiece /\ info.team = t
  /\ secGameState' = previousSec /\ previousSec' = secGameState /\ info' = NoInfo
  /\ secondaryClock' = None
  /\ UNCHANGED pauseVars
  /\ InterruptionFrame

Abort(t) ==
  /\ secGameState \in SetPiece /\ info.team = t
  /\ EndInterruption
  /\ secondaryClock' = None
  /\ InterruptionFrame

----------------------------------------------------------------------------
(* The clock thread and time.                                              *)

\* Mutant of AutoSet: only while the clock of the game runs.
AutoSetWhileRunning ==
  /\ gameState = "READY" /\ inState >= ReadyTime /\ ClockRunning
  /\ PerformSet
  /\ SetFrame

\* ClockTick.perform, READY: the robots have had their time to walk.
ReadyIsOver == gameState = "READY" /\ inState >= ReadyTime

AutoSet ==
  /\ ReadyIsOver
  /\ PerformSet
  /\ SetFrame

\* Mutant of AutoSecondHalf: extra time has no second half of its own accord.
AutoSecondHalfOnly ==
  /\ gameState = "FINISHED" /\ firstHalf /\ secGameState = "NORMAL"
  /\ PauseTime - inState <= PauseTime \div 2
  /\ StartHalf(FALSE, secGameState)

\* ClockTick.perform, FINISHED: half of the pause between two halves is over.  The
\* shoot-out never starts by itself: pausePenaltyShootOutTime is 0.
PauseIsOver ==
  /\ gameState = "FINISHED" /\ firstHalf
  /\ secGameState \in {"NORMAL", "OVERTIME"}
  /\ PauseTime - inState <= PauseTime \div 2

AutoSecondHalf ==
  /\ PauseIsOver
  /\ StartHalf(FALSE, secGameState)

ClockTick == AutoSet \/ AutoSecondHalf

\* A second passes. The game's clock stops in a manual pause; the secondary clock
\* reads the system clock and does not.
Tick ==
  /\ inState' = IF manPause THEN inState ELSE Sat(inState + 1)
  /\ secondaryClock' = IF secondaryClock \in Nat \ {0} THEN secondaryClock - 1 ELSE secondaryClock
  /\ UNCHANGED <<matchType, secVars, endVars, kickVars, shotVars, outVars, pauseVars,
                 gameState, timeBefore>>

============================================================================
