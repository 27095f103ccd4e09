---------------------------- MODULE OperatorProofs ----------------------------
(***************************************************************************)
(* Theorems about OperatorMatch, for every choice of the constants.        *)
(*                                                                         *)
(* OperatorInv is inductive under the commands, the clock thread and the   *)
(* buttons in any order.  The types come first, then what the other parts  *)
(* of the invariant need: one lemma for each group of actions.             *)
(***************************************************************************)
EXTENDS OperatorMatch, AutoRefProofs

USE DEF gameVars, secVars, endVars, kickVars, shotVars, outVars, pauseVars, stateVars,
        ReadyLegal, SetLegal, PlayLegal, FinishLegal, OvertimeLegal, PenaltyShootLegal, GoalLegal,
        ReadyIsOver, PauseIsOver

----------------------------------------------------------------------------
(* Types.                                                                  *)

\* The changes of the game state, goals and dropped balls, by command or by the clock.
LEMMA StateTypes ==
  ASSUME GameTypeOK, Ready \/ Play \/ Finish \/ DropBall \/ \E t \in Team : Goal(t)
  PROVE  GameTypeOK'
<1>1. CASE Ready
  <2>1. gameState' = "READY" /\ inState' \in 0..HalfTime /\ timeBefore' \in 0..HalfTime
    BY <1>1, ReadyType DEF Ready
  <2> QED
    BY <1>1, <2>1 DEF Ready, GameTypeOK
<1>2. CASE Play
  <2>1. gameState' = "PLAYING" /\ inState' \in 0..HalfTime /\ timeBefore' \in 0..HalfTime
    BY <1>2, TimeType, TimesOrdered DEF Play, EnterState, GameTypeOK
  <2> QED
    BY <1>2, <2>1 DEF Play, GameTypeOK
<1>3. CASE Finish
  <2>1. gameState' = "FINISHED" /\ inState' \in 0..HalfTime /\ timeBefore' \in 0..HalfTime
    BY <1>3, FinishType DEF Finish
  <2> QED
    BY <1>3, <2>1 DEF Finish, GameTypeOK
<1>4. CASE DropBall
  <2>1. gameState' = "READY" /\ inState' \in 0..HalfTime /\ timeBefore' \in 0..HalfTime
    BY <1>4, ReadyType DEF DropBall
  <2> QED
    BY <1>4, <2>1 DEF DropBall, GameTypeOK
<1>5. ASSUME NEW t \in Team, Goal(t) PROVE GameTypeOK'
  <2>1. /\ gameState' \in {"READY", "FINISHED"}
        /\ inState' \in 0..HalfTime /\ timeBefore' \in 0..HalfTime
    BY <1>5, ReadyType, FinishType DEF Goal
  <2>2. score' \in [Team -> 0..MaxScore] /\ singleShots' \in [Team -> Nat]
    BY <1>5, BoundsOk, ShotBitType DEF Goal, GameTypeOK
  <2>3. kickOffTeam' \in Team \cup {DROPBALL}
    BY <1>5, TeamFacts DEF Goal, GameTypeOK
  <2> QED
    BY <1>5, <2>1, <2>2, <2>3 DEF Goal, GameTypeOK
<1> QED
  BY <1>1, <1>2, <1>3, <1>4, <1>5

\* SET, and the commands and the tick that begin a half or the shoot-out.
LEMMA PeriodTypes ==
  ASSUME GameTypeOK,
         \/ Set \/ AutoSet \/ PenaltyShoot
         \/ SecondHalf \/ FirstHalfOvertime \/ SecondHalfOvertime \/ AutoSecondHalf
  PROVE  GameTypeOK'
<1>1. CASE Set \/ AutoSet
  BY <1>1, SetType DEF Set, AutoSet, SetFrame, GameTypeOK
<1>2. CASE PenaltyShoot
  <2>1. secGameState' \in SecStates
    BY <1>2 DEF PenaltyShoot, SecStates
  <2>2. timeBefore' \in 0..HalfTime /\ timeOutTaken' \in [{0, 1} -> BOOLEAN]
    BY <1>2, TimesOrdered DEF PenaltyShoot
  <2> QED
    BY <1>2, <2>1, <2>2 DEF PenaltyShoot, GameTypeOK
<1>3. ASSUME NEW first \in BOOLEAN, NEW sec \in SecStates, StartHalf(first, sec)
      PROVE  GameTypeOK'
  <2>1. leftTeam' \in Team /\ kickOffTeam' \in Team
    BY <1>3, TeamFacts DEF StartHalf, ChangeSide, GameTypeOK
  <2>2. timeBefore' \in 0..HalfTime /\ timeOutTaken' \in [{0, 1} -> BOOLEAN]
    BY <1>3, TimesOrdered DEF StartHalf, ChangeSide, GameTypeOK
  <2> QED
    BY <1>3, <2>1, <2>2 DEF StartHalf, GameTypeOK
<1>4. "NORMAL" \in SecStates /\ "OVERTIME" \in SecStates /\ secGameState \in SecStates
  BY DEF SecStates, GameTypeOK
<1>5. CASE SecondHalf \/ FirstHalfOvertime \/ SecondHalfOvertime \/ AutoSecondHalf
  BY <1>3, <1>4, <1>5 DEF SecondHalf, FirstHalfOvertime, SecondHalfOvertime, AutoSecondHalf
<1> QED
  BY <1>1, <1>2, <1>5

\* The set pieces: the sub mode never leaves its three values.
LEMMA InterruptionTypes ==
  ASSUME GameTypeOK,
         \/ \E k \in SetPiece, t \in Team : GameInterruption(k, t)
         \/ \E t \in Team : Retake(t) \/ Abort(t)
  PROVE  GameTypeOK'
<1> USE DEF GameTypeOK
<1>1. InterruptionFrame
  BY DEF GameInterruption, Retake, Abort
<1>2. ASSUME ClockPause PROVE manPause' \in BOOLEAN /\ manPlay' \in BOOLEAN
  BY <1>2 DEF ClockPause
<1>3. ASSUME EndInterruption, secondaryClock' \in {None} \cup 0..PrepTime PROVE GameTypeOK'
  <2>1. info' \in [team : Team \cup {None}, sub : 0..2]
    BY <1>3 DEF EndInterruption, NoInfo
  <2> QED
    BY <1>1, <1>2, <1>3, <2>1 DEF EndInterruption, InterruptionFrame
<1>4. ASSUME NEW k \in SetPiece, NEW t \in Team, StartInterruption(k, t) PROVE GameTypeOK'
  <2>1. info' \in [team : Team \cup {None}, sub : 0..2] /\ secGameState' \in SecStates
    BY <1>4 DEF StartInterruption, SecStates
  <2> QED
    BY <1>1, <1>2, <1>4, <2>1 DEF StartInterruption, InterruptionFrame
<1>5. ASSUME AdvanceInterruption PROVE GameTypeOK'
  <2>1. info.sub \in 0..2
    OBVIOUS
  <2>2. CASE info.sub = 2
    BY <1>3, <1>5, <2>2 DEF AdvanceInterruption
  <2>3. CASE info.sub \in {0, 1}
    <3>1. /\ info' = [info EXCEPT !.sub = info.sub + 1]
          /\ secondaryClock' \in {PrepTime, None}
          /\ UNCHANGED <<secGameState, previousSec, pauseVars>>
      <4>1. CASE info.sub = 0
        BY <1>5, <4>1 DEF AdvanceInterruption
      <4>2. CASE info.sub = 1
        BY <1>5, <4>2 DEF AdvanceInterruption
      <4> QED
        BY <2>3, <4>1, <4>2
    <3>2. info' \in [team : Team \cup {None}, sub : 0..2]
      BY <2>3, <3>1
    <3> QED
      BY <1>1, <3>1, <3>2, TimesOrdered DEF InterruptionFrame
  <2> QED
    BY <2>1, <2>2, <2>3
<1>6. ASSUME NEW t \in Team, Retake(t) PROVE GameTypeOK'
  <2>1. info' \in [team : Team \cup {None}, sub : 0..2]
    BY <1>6 DEF Retake
  <2> QED
    BY <1>6, <2>1 DEF Retake, InterruptionFrame
<1> QED
  BY <1>3, <1>4, <1>5, <1>6 DEF GameInterruption, Abort

\* The set-up commands and the passing of time.
LEMMA QuietTypes ==
  ASSUME GameTypeOK, Tick \/ \E t \in Team : SideLeft(t) \/ KickOffCommand(t)
  PROVE  GameTypeOK'
<1> USE DEF GameTypeOK
<1>1. CASE Tick
  <2>1. inState' \in 0..HalfTime /\ secondaryClock' \in {None} \cup 0..PrepTime
    BY <1>1, SatType, TimesOrdered DEF Tick
  <2> QED
    BY <1>1, <2>1 DEF Tick
<1>2. ASSUME NEW t \in Team, SideLeft(t) PROVE GameTypeOK'
  <2>1. /\ leftTeam' \in Team /\ timeBefore' \in 0..HalfTime
        /\ timeOutTaken' \in [{0, 1} -> BOOLEAN]
    <3>1. CASE t # leftTeam
      <4>1. leftTeam' \in Team /\ timeBefore' \in 0..HalfTime
        BY <1>2, <3>1, TeamFacts, TimesOrdered DEF SideLeft, ChangeSide
      <4>2. timeOutTaken' \in [{0, 1} -> BOOLEAN]
        BY <1>2, <3>1 DEF SideLeft, ChangeSide
      <4> QED
        BY <4>1, <4>2
    <3>2. CASE t = leftTeam
      BY <1>2, <3>2 DEF SideLeft
    <3> QED
      BY <3>1, <3>2
  <2> QED
    BY <1>2, <2>1 DEF SideLeft
<1>3. ASSUME NEW t \in Team, KickOffCommand(t) PROVE GameTypeOK'
  <2>1. kickOffTeam' \in Team /\ leftSideKickoff' \in BOOLEAN
    BY <1>3, TeamFacts DEF KickOffCommand
  <2> QED
    BY <1>3, <2>1 DEF KickOffCommand
<1> QED
  BY <1>1, <1>2, <1>3

\* The buttons of the operator.
LEMMA ButtonTypes ==
  ASSUME GameTypeOK, RefereeTimeout \/ \E t \in Team : TimeOut(t) \/ KickOffButton(t)
  PROVE  GameTypeOK'
<1> USE DEF GameTypeOK
<1>1. ASSUME EndTimeOut
      PROVE  /\ gameState' \in {"INITIAL", "READY", "SET", "PLAYING", "FINISHED"}
             /\ inState' \in 0..HalfTime /\ timeBefore' \in 0..HalfTime
             /\ secGameState' \in SecStates /\ previousSec' \in SecStates
             /\ penaltyShot' \in [Team -> Int]
  BY <1>1, ReadyType DEF EndTimeOut, SecStates
<1>2. CASE RefereeTimeout
  <2>1. CASE refereeTimeout
    BY <1>1, <1>2, <2>1 DEF RefereeTimeout, OutFrame
  <2>2. CASE ~refereeTimeout
    <3>1. penaltyShot' \in [Team -> Int]
      BY <1>2, <2>2 DEF RefereeTimeout
    <3>2. gameState' = "INITIAL" /\ inState' \in 0..HalfTime /\ timeBefore' \in 0..HalfTime
      BY <1>2, <2>2, TimeType, TimesOrdered DEF RefereeTimeout, EnterState
    <3>3. secGameState' \in SecStates /\ previousSec' \in SecStates
      BY <1>2, <2>2 DEF RefereeTimeout, SecStates
    <3> QED
      BY <1>2, <3>1, <3>2, <3>3 DEF RefereeTimeout, OutFrame
  <2> QED
    BY <2>1, <2>2
<1>3. ASSUME NEW t \in Team, TimeOut(t) PROVE GameTypeOK'
  <2>1. Side(t) \in {0, 1}
    BY DEF Side
  <2>2. CASE timeOutActive[Side(t)]
    BY <1>1, <1>3, <2>1, <2>2 DEF TimeOut, OutFrame
  <2>3. CASE ~timeOutActive[Side(t)]
    <3>1. gameState' = "INITIAL" /\ inState' \in 0..HalfTime /\ timeBefore' \in 0..HalfTime
      BY <1>3, <2>3, TimesOrdered DEF TimeOut, EnterState
    <3>2. secGameState' \in SecStates /\ previousSec' \in SecStates
      BY <1>3, <2>3 DEF TimeOut, SecStates
    <3>3. secondaryClock' \in 0..PrepTime
      BY <1>3, <2>3, TimesOrdered DEF TimeOut
    <3> QED
      BY <1>3, <2>3, <3>1, <3>2, <3>3 DEF TimeOut, OutFrame
  <2> QED
    BY <2>2, <2>3
<1>4. ASSUME NEW t \in Team, KickOffButton(t) PROVE GameTypeOK'
  BY <1>4 DEF KickOffButton
<1> QED
  BY <1>2, <1>3, <1>4

----------------------------------------------------------------------------
(* What the other parts of the invariant say, action by action.            *)

USE DEF OperatorInv, PauseFollowsInfo, TimeOutStopsPlay, InfoFollowsSetPiece, TimeOutsNest, TimeOutOn

\* The changes of the game state: with a time-out on none of them is possible.
LEMMA StateKeeps ==
  ASSUME OperatorInv, Ready \/ Play \/ Finish \/ DropBall \/ \E t \in Team : Goal(t)
  PROVE  OperatorInv'
<1>1. GameTypeOK'
  BY StateTypes
<1>2. UNCHANGED <<secVars, pauseVars, outVars>>
  BY DEF Ready, Play, Finish, DropBall, Goal
<1>3. ~TimeOutOn
  BY DEF Ready, NoTimeOut, Play, Finish, DropBall, Goal
<1>4. secGameState \in SetPiece => gameState' \notin {"INITIAL", "FINISHED"}
  BY NotSetPiece DEF Ready, Play, Finish, DropBall, Goal, PerformReady, EnterState
<1> QED
  BY <1>1, <1>2, <1>3, <1>4

\* SET is not legal in a time-out, and leaves a set piece on.
LEMMA SetKeeps ==
  ASSUME OperatorInv, Set \/ AutoSet
  PROVE  OperatorInv'
<1>1. GameTypeOK'
  BY PeriodTypes
<1>2. UNCHANGED <<secVars, pauseVars, timeOutActive, refereeTimeout>> /\ PerformSet
  BY DEF Set, AutoSet, SetFrame
<1>3. ~TimeOutOn
  BY DEF Set, AutoSet, NoTimeOut
<1>4. gameState' = "SET"
  BY <1>2, SetType
<1> QED
  BY <1>1, <1>2, <1>3, <1>4

\* A half starts from FINISHED, where neither a set piece nor a time-out is on.
LEMMA HalfKeeps ==
  ASSUME OperatorInv, SecondHalf \/ FirstHalfOvertime \/ SecondHalfOvertime \/ AutoSecondHalf
  PROVE  OperatorInv'
<1>1. GameTypeOK'
  BY PeriodTypes
<1>2. PICK first \in BOOLEAN, sec \in {"NORMAL", "OVERTIME"} :
        StartHalf(first, sec) /\ secGameState \in {"NORMAL", "OVERTIME"} /\ gameState = "FINISHED"
  BY DEF SecondHalf, FirstHalfOvertime, SecondHalfOvertime, AutoSecondHalf
<1>3. /\ secGameState' = sec /\ gameState' = "INITIAL"
      /\ UNCHANGED <<previousSec, info, pauseVars, timeOutActive, refereeTimeout>>
  BY <1>2 DEF StartHalf
<1>4. ~TimeOutOn /\ secGameState \notin SetPiece /\ sec \notin SetPiece
  BY <1>2, NotSetPiece
<1> QED
  BY <1>1, <1>3, <1>4

\* PENALTY-SHOOTOUT, the one command that gets through in a time-out: the one of the
\* shoot-out itself, which stays on behind it.
LEMMA PenaltyShootKeeps ==
  ASSUME OperatorInv, PenaltyShoot
  PROVE  OperatorInv'
<1>1. GameTypeOK'
  BY PeriodTypes
<1>2. /\ secGameState' = "PENALTYSHOOT" /\ gameState' = "INITIAL"
      /\ UNCHANGED <<previousSec, info, pauseVars, timeOutActive, refereeTimeout>>
  BY DEF PenaltyShoot
<1>3. "PENALTYSHOOT" \notin SetPiece /\ "TIMEOUT" \notin SetPiece
  BY NotSetPiece
<1>4. TimeOutOn => previousSec = "PENALTYSHOOT"
  BY DEF PenaltyShoot
<1>5. secGameState \notin SetPiece
  BY <1>3 DEF PenaltyShoot
<1> QED
  BY <1>1, <1>2, <1>3, <1>4, <1>5

\* A set piece that starts freezes the running clock, and its end releases it.
LEMMA InterruptionKeeps ==
  ASSUME OperatorInv,
         \/ \E k \in SetPiece, t \in Team : GameInterruption(k, t)
         \/ \E t \in Team : Retake(t) \/ Abort(t)
  PROVE  OperatorInv'
<1> DEFINE On == secGameState \in SetPiece
<1>1. GameTypeOK' /\ GameTypeOK
  BY InterruptionTypes
<1>2. UNCHANGED <<gameState, timeOutActive, refereeTimeout>>
  BY DEF GameInterruption, Retake, Abort, InterruptionFrame
<1>3. On => ~TimeOutOn
  BY NotSetPiece
<1>4. ASSUME On, EndInterruption PROVE OperatorInv'
  <2>1. manPause' = FALSE /\ manPlay' = FALSE
    BY <1>1, <1>3, <1>4, ClockPauseToggles DEF EndInterruption, GameTypeOK
  <2>2. info'.team = None /\ secGameState' = previousSec /\ secGameState' \notin SetPiece
    BY <1>4, NotSetPiece DEF EndInterruption, NoInfo
  <2> QED
    BY <1>1, <1>2, <1>3, <1>4, <2>1, <2>2
<1>5. ASSUME NEW k \in SetPiece, NEW t \in Team, GameInterruption(k, t), ~Interrupted(k, t)
      PROVE  OperatorInv'
  <2>1. gameState = "PLAYING" /\ secGameState \in {"NORMAL", "OVERTIME"} /\ StartInterruption(k, t)
    BY <1>5 DEF GameInterruption, InterruptionLegal
  <2>2. ~On /\ ~TimeOutOn /\ info.team = None
    BY <2>1, NotSetPiece
  <2>3. manPause' = TRUE /\ manPlay' = FALSE
    BY <1>1, <2>1, <2>2, ClockPauseToggles DEF StartInterruption, GameTypeOK
  <2>4. info'.team # None /\ secGameState' = k /\ previousSec' = secGameState
    BY <2>1, TeamFacts DEF StartInterruption
  <2> QED
    BY <1>1, <1>2, <2>1, <2>2, <2>3, <2>4
<1>6. ASSUME On, info'.team = info.team, UNCHANGED <<secGameState, previousSec, pauseVars>>
      PROVE  OperatorInv'
  BY <1>1, <1>2, <1>3, <1>6
<1>7. ASSUME NEW k \in SetPiece, NEW t \in Team, GameInterruption(k, t), Interrupted(k, t)
      PROVE  OperatorInv'
  <2>1. On /\ AdvanceInterruption /\ info.sub \in 0..2
    BY <1>1, <1>7 DEF GameInterruption, Interrupted, GameTypeOK
  <2>2. CASE info.sub = 2
    BY <1>4, <2>1, <2>2 DEF AdvanceInterruption
  <2>3. CASE info.sub = 0
    BY <1>1, <1>6, <2>1, <2>3 DEF AdvanceInterruption, GameTypeOK
  <2>4. CASE info.sub = 1
    BY <1>1, <1>6, <2>1, <2>4 DEF AdvanceInterruption, GameTypeOK
  <2> QED
    BY <2>1, <2>2, <2>3, <2>4
<1>8. ASSUME NEW t \in Team, Retake(t) PROVE OperatorInv'
  BY <1>6, <1>8 DEF Retake
<1>9. ASSUME NEW t \in Team, Abort(t) PROVE OperatorInv'
  BY <1>4, <1>9 DEF Abort
<1> QED
  BY <1>5, <1>7, <1>8, <1>9

\* The set-up commands, the kick-off button and time do not reach these parts.
LEMMA QuietKeeps ==
  ASSUME OperatorInv,
         Tick \/ \E t \in Team : SideLeft(t) \/ KickOffCommand(t) \/ KickOffButton(t)
  PROVE  OperatorInv'
<1>1. GameTypeOK'
  BY QuietTypes, ButtonTypes
<1>2. UNCHANGED <<secVars, pauseVars, timeOutActive, refereeTimeout, gameState>>
  BY DEF Tick, SideLeft, KickOffCommand, KickOffButton
<1> QED
  BY <1>1, <1>2

\* The end of a time-out brings a set piece back only into READY; with another time-out
\* on, which then is one of the shoot-out, the teams go on waiting in INITIAL.
LEMMA EndTimeOutKeeps ==
  ASSUME OperatorInv, TimeOutOn, EndTimeOut, GameTypeOK', UNCHANGED <<info, pauseVars>>,
         ~timeOutActive'[0], ~timeOutActive'[1],
         TimeOutOn' => refereeTimeout /\ (timeOutActive[0] \/ timeOutActive[1])
  PROVE  OperatorInv'
<1>1. secGameState' = previousSec /\ previousSec' = "TIMEOUT"
  BY DEF EndTimeOut
<1>2. previousSec # "PENALTYSHOOT" => gameState' = "READY"
  BY ReadyType DEF EndTimeOut
<1>3. TimeOutOn' => previousSec = "PENALTYSHOOT" /\ gameState' = "INITIAL"
  BY DEF EndTimeOut
<1>4. "PENALTYSHOOT" \notin SetPiece /\ "TIMEOUT" \notin SetPiece
  BY NotSetPiece
<1>5. info.team # None <=> previousSec \in SetPiece
  BY <1>4
<1>6. previousSec \in SetPiece => gameState' = "READY" /\ ~TimeOutOn'
  BY <1>2, <1>3, <1>4
<1>7. PauseFollowsInfo' /\ TimeOutStopsPlay'
  BY <1>3
<1>8. InfoFollowsSetPiece'
  BY <1>1, <1>4, <1>5
<1>9. TimeOutsNest'
  BY <1>1, <1>3, <1>4, <1>6
<1> QED
  BY <1>7, <1>8, <1>9

\* The referee's button, which does not ask whether the state is already TIMEOUT.
LEMMA RefereeTimeoutKeeps == ASSUME OperatorInv, RefereeTimeout PROVE OperatorInv'
<1>1. GameTypeOK' /\ refereeTimeout' = ~refereeTimeout
  BY ButtonTypes DEF RefereeTimeout
<1>2. ~timeOutActive[0] /\ ~timeOutActive[1] /\ UNCHANGED <<timeOutActive, info, pauseVars>>
  BY DEF RefereeTimeout, OutFrame
<1>3. CASE refereeTimeout
  BY <1>1, <1>2, <1>3, EndTimeOutKeeps DEF RefereeTimeout, GameTypeOK
<1>4. CASE ~refereeTimeout
  <2>1. /\ previousSec' = secGameState /\ secGameState' = "TIMEOUT"
        /\ gameState' = "INITIAL"
    BY <1>4 DEF RefereeTimeout, EnterState
  <2>2. "TIMEOUT" \notin SetPiece
    BY NotSetPiece
  <2> QED
    BY <1>1, <1>2, <1>4, <2>1, <2>2 DEF GameTypeOK
<1> QED
  BY <1>3, <1>4

\* The button of a team, which the flags of the two sides keep from meeting the other.
LEMMA TimeOutKeeps == ASSUME OperatorInv, NEW t \in Team, TimeOut(t) PROVE OperatorInv'
<1> DEFINE s == Side(t)
<1>1. s \in {0, 1} /\ timeOutActive \in [{0, 1} -> BOOLEAN] /\ refereeTimeout \in BOOLEAN
  BY DEF Side, GameTypeOK
<1>2. GameTypeOK' /\ UNCHANGED <<refereeTimeout, info, pauseVars>>
  BY ButtonTypes DEF TimeOut, OutFrame
<1>3. CASE timeOutActive[s]
  <2>1. timeOutActive' = [timeOutActive EXCEPT ![s] = FALSE] /\ EndTimeOut
    BY <1>3 DEF TimeOut
  <2>2. ~timeOutActive'[0] /\ ~timeOutActive'[1] /\ (timeOutActive[0] \/ timeOutActive[1])
    BY <1>1, <1>3, <2>1
  <2> QED
    BY <1>2, <2>1, <2>2, EndTimeOutKeeps
<1>4. CASE ~timeOutActive[s]
  <2>1. /\ gameState' = "INITIAL" /\ ~timeOutActive[1 - s] /\ secGameState # "TIMEOUT"
        /\ previousSec' = secGameState /\ secGameState' = "TIMEOUT"
        /\ timeOutActive' = [timeOutActive EXCEPT ![s] = TRUE]
    BY <1>4 DEF TimeOut, EnterState
  <2>2. ~(timeOutActive'[0] /\ timeOutActive'[1]) /\ (timeOutActive'[0] \/ timeOutActive'[1])
    BY <1>1, <2>1
  <2>3. TimeOutOn => secGameState = "PENALTYSHOOT"
    BY <2>1
  <2>4. "TIMEOUT" \notin SetPiece /\ "PENALTYSHOOT" \notin SetPiece
    BY NotSetPiece
  <2>5. info.team # None <=> secGameState \in SetPiece
    BY <2>1
  <2> QED
    BY <1>1, <1>2, <2>1, <2>2, <2>3, <2>4, <2>5
<1> QED
  BY <1>3, <1>4

----------------------------------------------------------------------------
(* The theorems.                                                           *)

\* The program starts with no set piece and no time-out on.
LEMMA OperatorStarts == AutoRefInit => OperatorInv
<1> SUFFICES ASSUME AutoRefInit PROVE OperatorInv
  OBVIOUS
<1>1. GameTypeOK
  BY Initially DEF MatchInv, TypeOK
<1> QED
  BY <1>1, NotSetPiece DEF AutoRefInit, Init, NoInfo

\* Every step keeps the invariant.
LEMMA OperatorKeeps == OperatorInv /\ [OperatorNext]_vars => OperatorInv'
<1> SUFFICES ASSUME OperatorInv, [OperatorNext]_vars PROVE OperatorInv'
  OBVIOUS
<1>1. CASE MatchCommand \/ ClockTick
  BY <1>1, StateKeeps, SetKeeps, HalfKeeps, PenaltyShootKeeps, InterruptionKeeps
     DEF MatchCommand, ClockTick, InterruptionCommand
<1>2. CASE SetUpCommand \/ Tick \/ \E t \in Team : KickOffButton(t)
  BY <1>2, QuietKeeps DEF SetUpCommand
<1>3. CASE RefereeTimeout \/ \E t \in Team : TimeOut(t)
  BY <1>3, RefereeTimeoutKeeps, TimeOutKeeps
<1>4. CASE UNCHANGED vars
  BY <1>4 DEF vars, GameTypeOK
<1> QED
  BY <1>1, <1>2, <1>3, <1>4 DEF OperatorNext, Next

HIDE DEF OperatorInv, PauseFollowsInfo, TimeOutStopsPlay, InfoFollowsSetPiece, TimeOutsNest, TimeOutOn

\* OperatorInv, the inductive invariant of the match data with a person at the buttons.
THEOREM OperatorInvariance == OperatorSpec => []OperatorInv
BY OperatorStarts, OperatorKeeps, PTL DEF OperatorSpec

\* The clock is frozen exactly while a team is recorded for a set piece, whatever
\* time-outs of the teams and the referee swap the backup of the state in between.
THEOREM PauseSafe == OperatorSpec => []PauseFollowsInfo
<1>1. OperatorInv => PauseFollowsInfo
  BY DEF OperatorInv
<1> QED
  BY <1>1, OperatorInvariance, PTL

\* Nobody plays while a time-out is on, and the teams take theirs one by one.
THEOREM TimeOutSafe == OperatorSpec => []TimeOutStopsPlay
<1>1. OperatorInv => TimeOutStopsPlay
  BY DEF OperatorInv
<1> QED
  BY <1>1, OperatorInvariance, PTL

\* A team is recorded for a set piece exactly while one is on or interrupted by a
\* time-out: no sequence of buttons and commands leaves it behind or loses it.
THEOREM InfoSafe == OperatorSpec => []InfoFollowsSetPiece
<1>1. OperatorInv => InfoFollowsSetPiece
  BY DEF OperatorInv
<1> QED
  BY <1>1, OperatorInvariance, PTL

============================================================================
