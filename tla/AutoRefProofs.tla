---------------------------- MODULE AutoRefProofs ----------------------------
(***************************************************************************)
(* Theorems about AutoRefMatch, for every choice of the constants.         *)
(*                                                                         *)
(* MatchInv is inductive: one lemma for each of its parts and each group   *)
(* of actions, then the invariance and what follows from it.               *)
(***************************************************************************)
EXTENDS AutoRefMatch, TLAPS

USE DEF ReadyLegal, SetLegal, PlayLegal, FinishLegal, OvertimeLegal, PenaltyShootLegal, GoalLegal,
        ReadyIsOver, PauseIsOver

\* The two teams, and what belongs to neither.
LEMMA TeamFacts ==
  /\ Red \in Team /\ Blue \in Team /\ Red # Blue
  /\ None \notin Team /\ DROPBALL \notin Team /\ None # DROPBALL
  /\ \A t \in Team : Other(t) \in Team /\ Other(t) # t /\ Other(Other(t)) = t
BY TeamsDiffer DEF Team, Other

\* The kicker is always one of the teams, even with a dropped ball.
LEMMA KickerType == \A kick : \A left \in Team : KickerOf(kick, left) \in Team
BY TeamFacts DEF KickerOf

\* The weight of a shot in the mask is a number, whatever the count of shots is.
LEMMA ShotBitType == \A n : ShotBit(n) \in Nat
<1> TAKE n
<1>1. CASE n \in 1..15
  <2> DEFINE w == <<1, 2, 4, 8, 16, 32, 64, 128, 256, 512, 1024, 2048, 4096, 8192, 16384>>
  <2>1. w \in [1..15 -> Nat]
    OBVIOUS
  <2>2. w[n] \in Nat
    BY <1>1, <2>1
  <2> QED
    BY <1>1, <2>2 DEF ShotBit
<1>2. CASE n \notin 1..15
  BY <1>2 DEF ShotBit
<1> QED
  BY <1>1, <1>2

\* Adding to a capped time keeps it within the cap.
LEMMA SatType == \A x \in Nat : Sat(x) \in 0..HalfTime
BY TimesOrdered DEF Sat

\* The time played, with the current state added, stays within the cap.
LEMMA TimeType ==
  ASSUME timeBefore \in 0..HalfTime, inState \in 0..HalfTime
  PROVE  TimeWithState \in 0..HalfTime
BY TimesOrdered DEF Sat, TimeWithState

----------------------------------------------------------------------------
(* The part of the invariant that speaks of the match data alone.          *)

GameInv == GameTypeOK /\ SetPieceFreezesClock /\ NoTimeOutSeen

USE DEF gameVars, secVars, endVars, kickVars, shotVars, outVars, pauseVars, stateVars

\* Entering a game state keeps the times typed.
LEMMA ReadyType ==
  ASSUME GameTypeOK, PerformReady
  PROVE  /\ gameState' = "READY"
         /\ inState' \in 0..HalfTime /\ timeBefore' \in 0..HalfTime
BY TimeType, TimesOrdered DEF GameTypeOK, PerformReady, EnterState

\* So does entering FINISHED.
LEMMA FinishType ==
  ASSUME GameTypeOK, PerformFinish
  PROVE  /\ gameState' = "FINISHED"
         /\ inState' \in 0..HalfTime /\ timeBefore' \in 0..HalfTime
BY TimeType, TimesOrdered DEF GameTypeOK, PerformFinish, EnterState

\* So does entering SET, and the kick, the ends and the shots stay typed.
LEMMA SetType ==
  ASSUME GameTypeOK, PerformSet
  PROVE  /\ gameState' = "SET"
         /\ inState' \in 0..HalfTime /\ timeBefore' \in 0..HalfTime
         /\ leftTeam' \in Team /\ kickOffTeam' \in Team \cup {DROPBALL}
         /\ timeOutTaken' \in [{0, 1} -> BOOLEAN]
         /\ penaltyShot' \in [Team -> Int]
<1> USE DEF GameTypeOK
<1>1. CASE gameState = "SET"
  BY <1>1 DEF PerformSet
<1>2. CASE gameState # "SET"
  <2>1. /\ gameState' = "SET"
        /\ inState' \in 0..HalfTime /\ timeBefore' \in 0..HalfTime
    BY <1>2, TimeType, TimesOrdered DEF PerformSet, EnterState
  <2>2. leftTeam' \in Team /\ kickOffTeam' \in Team \cup {DROPBALL}
    BY <1>2, TeamFacts, KickerType DEF PerformSet, ChangeSide
  <2>3. timeOutTaken' \in [{0, 1} -> BOOLEAN]
    BY <1>2 DEF PerformSet, ChangeSide
  <2>4. penaltyShot' \in [Team -> Int]
    BY <1>2, <2>2, KickerType DEF PerformSet
  <2> QED
    BY <2>1, <2>2, <2>3, <2>4
<1> QED
  BY <1>1, <1>2

\* The names of the set pieces are not those of the other secondary states.
LEMMA NotSetPiece ==
  \A sec \in {"NORMAL", "OVERTIME", "PENALTYSHOOT", "TIMEOUT"} : sec \notin SetPiece
BY SetPiecesNamed

\* The match data of a program that has just started.
LEMMA InitGameInv == AutoRefInit => GameInv
<1> SUFFICES ASSUME AutoRefInit PROVE GameInv
  OBVIOUS
<1> USE DEF AutoRefInit, Init
<1>1. GameTypeOK
  <2>1. /\ matchType \in {"NORMAL", "KNOCKOUT", "PENALTY"} /\ gameState = "INITIAL"
        /\ secGameState \in SecStates /\ previousSec \in SecStates
    BY DEF SecStates
  <2>2. /\ info \in [team : Team \cup {None}, sub : 0..2]
        /\ leftTeam \in Team /\ kickOffTeam \in Team
    BY TeamFacts DEF NoInfo
  <2>3. score \in [Team -> 0..MaxScore] /\ penaltyShot \in [Team -> Int] /\ singleShots \in [Team -> Nat]
    BY BoundsOk
  <2>4. timeOutActive \in [{0, 1} -> BOOLEAN] /\ timeOutTaken \in [{0, 1} -> BOOLEAN]
    OBVIOUS
  <2>5. inState \in 0..HalfTime /\ timeBefore \in 0..HalfTime
    BY TimesOrdered
  <2> QED
    BY <2>1, <2>2, <2>3, <2>4, <2>5 DEF GameTypeOK
<1>2. SetPieceFreezesClock
  BY NotSetPiece DEF SetPieceFreezesClock, NoInfo
<1>3. NoTimeOutSeen
  BY DEF NoTimeOutSeen, NoTimeOut
<1> QED
  BY <1>1, <1>2, <1>3 DEF GameInv

\* The conjuncts of the invariant that the changes of the game state disturb.
USE DEF GameInv, GameTypeOK, SetPieceFreezesClock, NoTimeOutSeen, NoTimeOut

\* READY touches the game state and the times only.
LEMMA ReadyStep == ASSUME GameInv, Ready PROVE GameInv'
<1>1. gameState' = "READY" /\ inState' \in 0..HalfTime /\ timeBefore' \in 0..HalfTime
  BY ReadyType DEF Ready
<1> QED
  BY <1>1 DEF Ready

\* PLAY touches the game state and the times only.
LEMMA PlayStep == ASSUME GameInv, Play PROVE GameInv'
<1>1. gameState' = "PLAYING" /\ inState' \in 0..HalfTime /\ timeBefore' \in 0..HalfTime
  BY TimeType, TimesOrdered DEF Play, EnterState
<1> QED
  BY <1>1 DEF Play

\* FINISH is refused during a set piece, so none is left on in FINISHED.
LEMMA FinishStep == ASSUME GameInv, Finish PROVE GameInv'
<1>1. gameState' = "FINISHED" /\ inState' \in 0..HalfTime /\ timeBefore' \in 0..HalfTime
  BY FinishType DEF Finish
<1> QED
  BY <1>1 DEF Finish

\* SET, by command or by the clock thread, leaves set pieces and pauses alone.
LEMMA SetStep == ASSUME GameInv, PerformSet, SetFrame PROVE GameInv'
BY SetType DEF SetFrame

\* A half starts from FINISHED, where no set piece is on.
LEMMA StartHalfStep ==
  ASSUME GameInv, NEW first \in BOOLEAN, NEW sec \in {"NORMAL", "OVERTIME"},
         secGameState \notin SetPiece, StartHalf(first, sec)
  PROVE  GameInv'
<1>1. leftTeam' \in Team /\ kickOffTeam' \in Team
  BY TeamFacts DEF StartHalf, ChangeSide
<1>2. timeBefore' \in 0..HalfTime /\ timeOutTaken' \in [{0, 1} -> BOOLEAN]
  BY TimesOrdered DEF StartHalf, ChangeSide
<1>3. secGameState' \in SecStates /\ secGameState' # "TIMEOUT" /\ secGameState' \notin SetPiece
  BY NotSetPiece DEF StartHalf, SecStates
<1> QED
  BY <1>1, <1>2, <1>3 DEF StartHalf

\* The shoot-out starts from FINISHED too: nothing has backed it up before.
LEMMA PenaltyShootStep == ASSUME GameInv, PenaltyShoot PROVE GameInv'
<1>1. secGameState' \in SecStates /\ secGameState' # "TIMEOUT" /\ secGameState' \notin SetPiece
  BY NotSetPiece DEF PenaltyShoot, SecStates
<1>2. timeBefore' \in 0..HalfTime /\ timeOutTaken' \in [{0, 1} -> BOOLEAN]
  BY TimesOrdered DEF PenaltyShoot
<1>3. secGameState \notin SetPiece
  BY NotSetPiece DEF PenaltyShoot
<1> QED
  BY <1>1, <1>2, <1>3 DEF PenaltyShoot

\* A goal during a set piece freezes nothing more and releases nothing.
LEMMA GoalStep == ASSUME GameInv, NEW t \in Team, Goal(t) PROVE GameInv'
<1>1. score' \in [Team -> 0..MaxScore]
  BY BoundsOk DEF Goal
<1>2. singleShots' \in [Team -> Nat]
  BY ShotBitType DEF Goal
<1>3. kickOffTeam' \in Team \cup {DROPBALL}
  BY TeamFacts DEF Goal
<1>4. /\ gameState' = IF secGameState = "PENALTYSHOOT" THEN "FINISHED" ELSE "READY"
      /\ inState' \in 0..HalfTime /\ timeBefore' \in 0..HalfTime
  BY ReadyType, FinishType DEF Goal
<1>5. secGameState \in SetPiece => gameState' = "READY"
  BY <1>4, NotSetPiece
<1> QED
  BY <1>1, <1>2, <1>3, <1>4, <1>5 DEF Goal

\* Nor does a dropped ball.
LEMMA DropBallStep == ASSUME GameInv, DropBall PROVE GameInv'
<1>1. gameState' = "READY" /\ inState' \in 0..HalfTime /\ timeBefore' \in 0..HalfTime
  BY ReadyType DEF DropBall
<1> QED
  BY <1>1 DEF DropBall

----------------------------------------------------------------------------
(* The set pieces.                                                         *)

\* With the clock never left running by hand, ClockPause freezes a running clock and
\* releases a frozen one.
LEMMA ClockPauseToggles ==
  ASSUME manPause \in BOOLEAN, ~manPlay, manPause \/ gameState = "PLAYING", ClockPause
  PROVE  manPause' = ~manPause /\ manPlay' = FALSE
BY DEF ClockPause, ClockRunning

\* A set piece starts in PLAYING with no set piece on.
LEMMA StartInterruptionStep ==
  ASSUME GameInv, NEW k \in SetPiece, NEW t \in Team,
         gameState = "PLAYING", secGameState \in {"NORMAL", "OVERTIME"},
         StartInterruption(k, t), InterruptionFrame
  PROVE  GameInv'
<1>1. secGameState \notin SetPiece /\ k # "TIMEOUT"
  BY NotSetPiece
<1>2. manPause' = TRUE /\ manPlay' = FALSE
  BY <1>1, ClockPauseToggles DEF StartInterruption
<1>3. info' \in [team : Team \cup {None}, sub : 0..2] /\ info'.team # None
  BY TeamFacts DEF StartInterruption
<1>4. secGameState' = k /\ secGameState' \in SecStates /\ previousSec' = secGameState
  BY DEF StartInterruption, SecStates
<1> QED
  BY <1>1, <1>2, <1>3, <1>4 DEF StartInterruption, InterruptionFrame

\* Its end, by EXECUTE or ABORT, releases the clock.
LEMMA EndInterruptionStep ==
  ASSUME GameInv, secGameState \in SetPiece, EndInterruption,
         secondaryClock' \in {None} \cup 0..PrepTime, InterruptionFrame
  PROVE  GameInv'
<1>1. manPause' = FALSE /\ manPlay' = FALSE
  BY ClockPauseToggles DEF EndInterruption
<1>2. info' \in [team : Team \cup {None}, sub : 0..2] /\ info'.team = None
  BY DEF EndInterruption, NoInfo
<1>3. secGameState' \in {"NORMAL", "OVERTIME"} /\ secGameState' \notin SetPiece
  BY NotSetPiece DEF EndInterruption
<1> QED
  BY <1>1, <1>2, <1>3 DEF EndInterruption, InterruptionFrame

\* The four steps of a set piece, in the order its sub mode asks for.
LEMMA InterruptionStep ==
  ASSUME GameInv, NEW k \in SetPiece, NEW t \in Team, GameInterruption(k, t)
  PROVE  GameInv'
<1>1. InterruptionFrame
  BY DEF GameInterruption
<1>2. CASE ~Interrupted(k, t)
  BY <1>1, <1>2, StartInterruptionStep DEF GameInterruption, InterruptionLegal
<1>3. CASE Interrupted(k, t)
  <2>1. secGameState \in SetPiece /\ info.sub \in 0..2 /\ AdvanceInterruption
    BY <1>3 DEF Interrupted, GameInterruption
  <2>2. CASE info.sub = 2
    BY <1>1, <2>1, <2>2, EndInterruptionStep DEF AdvanceInterruption
  <2>3. CASE info.sub \in {0, 1}
    <3>1. /\ info' = [info EXCEPT !.sub = info.sub + 1]
          /\ secondaryClock' = IF info.sub = 0 THEN PrepTime ELSE None
          /\ UNCHANGED <<secGameState, previousSec, pauseVars>>
      <4>1. CASE info.sub = 0
        BY <2>1, <4>1 DEF AdvanceInterruption
      <4>2. CASE info.sub = 1
        BY <2>1, <4>2 DEF AdvanceInterruption
      <4> QED
        BY <2>3, <4>1, <4>2
    <3>2. info' \in [team : Team \cup {None}, sub : 0..2] /\ info'.team = info.team
      BY <2>3, <3>1
    <3>3. secondaryClock' \in {None} \cup 0..PrepTime
      BY <3>1, TimesOrdered
    <3> QED
      BY <1>1, <3>1, <3>2, <3>3 DEF InterruptionFrame
  <2> QED
    BY <2>1, <2>2, <2>3
<1> QED
  BY <1>2, <1>3

\* RETAKE keeps the clock frozen.
LEMMA RetakeStep == ASSUME GameInv, NEW t \in Team, Retake(t) PROVE GameInv'
<1>1. info' \in [team : Team \cup {None}, sub : 0..2] /\ info'.team = info.team
  BY DEF Retake
<1> QED
  BY <1>1 DEF Retake, InterruptionFrame

\* ABORT releases the clock, as EXECUTE does.
LEMMA AbortStep == ASSUME GameInv, NEW t \in Team, Abort(t) PROVE GameInv'
BY EndInterruptionStep DEF Abort

----------------------------------------------------------------------------
(* The set-up commands and time, and every step of the match data.         *)

\* SIDE_LEFT and KICKOFF, legal or rejected, keep the match data typed.
LEMMA SetUpStep ==
  ASSUME GameInv, NEW t \in Team, SideLeft(t) \/ KickOffCommand(t)
  PROVE  GameInv'
<1>1. CASE SideLeft(t)
  <2>1. /\ leftTeam' \in Team /\ timeBefore' \in 0..HalfTime
        /\ timeOutTaken' \in [{0, 1} -> BOOLEAN]
    BY <1>1, TeamFacts, TimesOrdered DEF SideLeft, ChangeSide
  <2> QED
    BY <1>1, <2>1 DEF SideLeft
<1>2. CASE KickOffCommand(t)
  <2>1. kickOffTeam' \in Team /\ leftSideKickoff' \in BOOLEAN
    BY <1>2, TeamFacts DEF KickOffCommand
  <2> QED
    BY <1>2, <2>1 DEF KickOffCommand
<1> QED
  BY <1>1, <1>2

\* Time keeps the match data typed.
LEMMA TickStep == ASSUME GameInv, Tick PROVE GameInv'
<1>1. inState' \in 0..HalfTime
  BY SatType DEF Tick
<1>2. secondaryClock' \in {None} \cup 0..PrepTime
  BY TimesOrdered DEF Tick
<1> QED
  BY <1>1, <1>2 DEF Tick

----------------------------------------------------------------------------
(* What a command or the clock thread can do to the period and the         *)
(* kick-off: nothing, begin a half, or begin the shoot-out.                *)

SamePeriod ==
  /\ UNCHANGED <<Phase, firstHalf, leftSideKickoff>>
  /\ Phase # "PENALTYSHOOT" => leftTeam' = leftTeam
  /\ gameState # "INITIAL" => gameState' # "INITIAL"
  /\ gameState = "INITIAL" =>
       /\ Phase = "PENALTYSHOOT" \/ (kickOffTeam' = kickOffTeam /\ gameState' \in {"INITIAL", "READY"})
       /\ gameState' = "READY" => Phase # "PENALTYSHOOT"

NewHalf ==
  /\ gameState = "FINISHED" /\ gameState' = "INITIAL"
  /\ Phase \in {"NORMAL", "OVERTIME"} /\ Phase' \in {"NORMAL", "OVERTIME"}
  /\ Rank(Phase, firstHalf) < Rank(Phase', firstHalf')
  /\ UNCHANGED leftSideKickoff
  /\ leftTeam' = Other(leftTeam)
  /\ kickOffTeam' = IF leftSideKickoff THEN leftTeam' ELSE Other(leftTeam')

ToShootOut ==
  /\ gameState = "FINISHED" /\ gameState' = "INITIAL"
  /\ Phase # "PENALTYSHOOT" /\ Phase' = "PENALTYSHOOT"
  /\ Rank(Phase, firstHalf) < Rank(Phase', firstHalf')

PeriodStep == SamePeriod \/ NewHalf \/ ToShootOut

\* The period behind the set pieces.
LEMMA PhaseFacts ==
  ASSUME GameInv
  PROVE  /\ Phase \in {"NORMAL", "OVERTIME", "PENALTYSHOOT"}
         /\ secGameState \notin SetPiece => Phase = secGameState
         /\ secGameState \in SetPiece => Phase = previousSec
BY NotSetPiece DEF Phase, SecStates

\* The changes of the game state, goals and dropped balls stay in the period.
LEMMA StatePeriod ==
  ASSUME GameInv, Ready \/ Play \/ Finish \/ DropBall \/ \E t \in Team : Goal(t)
  PROVE  SamePeriod
<1>1. UNCHANGED <<secGameState, previousSec, firstHalf, leftSideKickoff, leftTeam>>
  BY DEF Ready, Play, Finish, DropBall, Goal
<1>2. UNCHANGED Phase
  BY <1>1 DEF Phase
<1>3. CASE Ready
  BY <1>1, <1>2, <1>3, ReadyType, NotSetPiece DEF Ready, SamePeriod, Phase
<1>4. CASE Play
  BY <1>1, <1>2, <1>4 DEF Play, SamePeriod, EnterState
<1>5. CASE Finish
  BY <1>1, <1>2, <1>5, FinishType DEF Finish, SamePeriod
<1>6. CASE DropBall
  BY <1>1, <1>2, <1>6, ReadyType DEF DropBall, SamePeriod
<1>7. CASE \E t \in Team : Goal(t)
  BY <1>1, <1>2, <1>7, ReadyType, FinishType DEF Goal, SamePeriod
<1> QED
  BY <1>3, <1>4, <1>5, <1>6, <1>7

\* So does SET.
LEMMA SetPeriod ==
  ASSUME GameInv, PerformSet, SetFrame, secGameState = "PENALTYSHOOT" \/ gameState # "INITIAL"
  PROVE  SamePeriod
<1>1. UNCHANGED <<secGameState, previousSec, firstHalf, leftSideKickoff>>
  BY DEF SetFrame
<1>2. UNCHANGED Phase
  BY <1>1 DEF Phase
<1>3. Phase # "PENALTYSHOOT" => secGameState # "PENALTYSHOOT"
  BY NotSetPiece DEF Phase
<1>4. gameState = "INITIAL" => Phase = "PENALTYSHOOT"
  BY NotSetPiece DEF Phase
<1>5. secGameState # "PENALTYSHOOT" => leftTeam' = leftTeam
  BY DEF PerformSet
<1> QED
  BY <1>1, <1>2, <1>3, <1>4, <1>5, SetType DEF SamePeriod

\* A half that starts from FINISHED is a new one, and the sides give its kick-off.
LEMMA StartHalfPeriod ==
  ASSUME GameInv, NEW first \in BOOLEAN, NEW sec \in {"NORMAL", "OVERTIME"},
         gameState = "FINISHED", secGameState \in {"NORMAL", "OVERTIME"},
         Rank(secGameState, firstHalf) < Rank(sec, first),
         StartHalf(first, sec)
  PROVE  NewHalf
<1>1. Phase = secGameState /\ Phase' = sec
  BY NotSetPiece DEF Phase, StartHalf
<1> QED
  BY <1>1 DEF NewHalf, StartHalf, ChangeSide

\* The commands that start a half, and the clock thread, start a later one.
LEMMA HalfPeriod ==
  ASSUME GameInv, SecondHalf \/ FirstHalfOvertime \/ SecondHalfOvertime \/ AutoSecondHalf
  PROVE  NewHalf /\ GameInv'
<1>1. /\ Rank("NORMAL", TRUE) < Rank("NORMAL", FALSE)
      /\ Rank("NORMAL", FALSE) < Rank("OVERTIME", TRUE)
      /\ Rank("OVERTIME", TRUE) < Rank("OVERTIME", FALSE)
  BY DEF Rank
<1>2. "NORMAL" \notin SetPiece /\ "OVERTIME" \notin SetPiece
  BY NotSetPiece
<1>3. CASE SecondHalf
  BY <1>1, <1>2, <1>3, StartHalfPeriod, StartHalfStep DEF SecondHalf
<1>4. CASE FirstHalfOvertime
  BY <1>1, <1>2, <1>4, StartHalfPeriod, StartHalfStep DEF FirstHalfOvertime
<1>5. CASE SecondHalfOvertime
  BY <1>1, <1>2, <1>5, StartHalfPeriod, StartHalfStep DEF SecondHalfOvertime
<1>6. CASE AutoSecondHalf
  BY <1>1, <1>2, <1>6, StartHalfPeriod, StartHalfStep DEF AutoSecondHalf
<1> QED
  BY <1>3, <1>4, <1>5, <1>6

\* The shoot-out is the last period.
LEMMA PenaltyShootPeriod == ASSUME GameInv, PenaltyShoot PROVE ToShootOut
<1>1. gameState = "FINISHED" /\ secGameState \notin SetPiece
  BY NotSetPiece DEF PenaltyShoot
<1>2. Phase = secGameState /\ Phase' = "PENALTYSHOOT" /\ firstHalf' = firstHalf /\ gameState' = "INITIAL"
  BY <1>1, NotSetPiece DEF Phase, PenaltyShoot
<1>3. secGameState \in {"NORMAL", "OVERTIME"}
  BY <1>1 DEF PenaltyShoot, SecStates
<1> QED
  BY <1>1, <1>2, <1>3 DEF ToShootOut, Rank, PenaltyShoot

\* A set piece comes back to the period it interrupted.
LEMMA InterruptionPeriod ==
  ASSUME GameInv,
         \/ \E k \in SetPiece, t \in Team : GameInterruption(k, t)
         \/ \E t \in Team : Retake(t) \/ Abort(t)
  PROVE  SamePeriod
<1>1. InterruptionFrame
  BY DEF GameInterruption, Retake, Abort
<1>2. UNCHANGED Phase
  <2>1. ASSUME NEW k \in SetPiece, NEW t \in Team, GameInterruption(k, t), ~Interrupted(k, t)
        PROVE  UNCHANGED Phase
    <3>1. secGameState \in {"NORMAL", "OVERTIME"} /\ StartInterruption(k, t)
      BY <2>1 DEF GameInterruption, InterruptionLegal
    <3> QED
      BY <3>1, NotSetPiece DEF StartInterruption, Phase
  <2>2. ASSUME secGameState \in SetPiece, EndInterruption PROVE UNCHANGED Phase
    BY <2>2, NotSetPiece DEF EndInterruption, Phase
  <2>3. ASSUME NEW k \in SetPiece, NEW t \in Team, GameInterruption(k, t), Interrupted(k, t)
        PROVE  UNCHANGED Phase
    <3>1. secGameState \in SetPiece /\ AdvanceInterruption /\ info.sub \in 0..2
      BY <2>3 DEF GameInterruption, Interrupted
    <3>2. CASE info.sub = 0
      BY <3>1, <3>2 DEF AdvanceInterruption, Phase
    <3>3. CASE info.sub = 1
      BY <3>1, <3>3 DEF AdvanceInterruption, Phase
    <3>4. CASE info.sub = 2
      BY <2>2, <3>1, <3>4 DEF AdvanceInterruption
    <3> QED
      BY <3>1, <3>2, <3>3, <3>4
  <2>4. ASSUME NEW t \in Team, Retake(t) PROVE UNCHANGED Phase
    BY <2>4 DEF Retake, Phase
  <2>5. ASSUME NEW t \in Team, Abort(t) PROVE UNCHANGED Phase
    BY <2>2, <2>5 DEF Abort
  <2> QED
    BY <2>1, <2>3, <2>4, <2>5
<1>3. gameState # "INITIAL"
  BY DEF GameInterruption, InterruptionLegal, Interrupted, Retake, Abort
<1> QED
  BY <1>1, <1>2, <1>3 DEF SamePeriod, InterruptionFrame

----------------------------------------------------------------------------
(* The theorems.                                                           *)

\* Every command and every tick of the clock thread.
LEMMA CommandStep ==
  ASSUME GameInv, MatchCommand \/ ClockTick
  PROVE  GameInv' /\ PeriodStep
<1>1. CASE Ready \/ Play \/ Finish \/ DropBall \/ \E t \in Team : Goal(t)
  BY <1>1, ReadyStep, PlayStep, FinishStep, DropBallStep, GoalStep, StatePeriod DEF PeriodStep
<1>2. CASE Set \/ AutoSet
  <2>1. PerformSet /\ SetFrame /\ (secGameState = "PENALTYSHOOT" \/ gameState # "INITIAL")
    BY <1>2 DEF Set, AutoSet
  <2> QED
    BY <2>1, SetStep, SetPeriod DEF PeriodStep
<1>3. CASE SecondHalf \/ FirstHalfOvertime \/ SecondHalfOvertime \/ AutoSecondHalf
  BY <1>3, HalfPeriod DEF PeriodStep
<1>4. CASE PenaltyShoot
  BY <1>4, PenaltyShootStep, PenaltyShootPeriod DEF PeriodStep
<1>5. CASE \/ \E k \in SetPiece, t \in Team : GameInterruption(k, t)
           \/ \E t \in Team : Retake(t) \/ Abort(t)
  BY <1>5, InterruptionStep, RetakeStep, AbortStep, InterruptionPeriod DEF PeriodStep
<1> QED
  BY <1>1, <1>2, <1>3, <1>4, <1>5 DEF MatchCommand, ClockTick, InterruptionCommand

\* The kick-off part of the invariant, and the type of the history, over such a step.
LEMMA KickOffStep ==
  ASSUME MatchInv, GameInv', PeriodStep, Run
  PROVE  MatchInv'
<1> USE DEF MatchInv, TypeOK, KickOffInv, Run, Record, KickOffSide
<1>1. setUp = "done" /\ setUp' = "done"
  OBVIOUS
<1>2. CASE SamePeriod
  <2>1. CASE gameState = "INITIAL" /\ gameState' = "READY"
    BY <1>1, <1>2, <2>1, TeamFacts DEF SamePeriod
  <2>2. CASE ~(gameState = "INITIAL" /\ gameState' = "READY")
    <3>1. halfKickOff' = halfKickOff
      BY <2>2
    <3>2. CASE gameState = "INITIAL"
      <4>1. gameState' = "INITIAL" \/ Phase = "PENALTYSHOOT"
        BY <1>1, <1>2, <2>2, <3>2 DEF SamePeriod
      <4> QED
        BY <1>1, <1>2, <3>1, <3>2, <4>1 DEF SamePeriod
    <3>3. CASE gameState # "INITIAL"
      BY <1>1, <1>2, <3>1, <3>3 DEF SamePeriod
    <3> QED
      BY <3>2, <3>3
  <2> QED
    BY <2>1, <2>2
<1>3. CASE NewHalf
  <2>1. halfKickOff' = halfKickOff /\ halfKickOff = KickOffSide
    BY <1>1, <1>3 DEF NewHalf
  <2>2. KickOffSide' = Other(KickOffSide) /\ KickOffSide = Other(KickOffSide')
    BY <1>3, TeamFacts DEF NewHalf
  <2> QED
    BY <1>1, <1>3, <2>1, <2>2 DEF NewHalf
<1>4. CASE ToShootOut
  BY <1>1, <1>4 DEF ToShootOut
<1> QED
  BY <1>2, <1>3, <1>4 DEF PeriodStep

\* The invariant holds when the program starts.
LEMMA Initially == AutoRefInit => MatchInv
<1>1. AutoRefInit => GameInv
  BY InitGameInv
<1> QED
  BY <1>1, NotSetPiece, TeamFacts, TimesOrdered
     DEF MatchInv, TypeOK, KickOffInv, KickOffSide, AutoRefInit, Init, Phase

\* SIDE_LEFT and KICKOFF leave the kick-off with the side that leftSideKickoff names.
LEMMA SetUpKeeps == ASSUME MatchInv, SetUpCommand, UNCHANGED halfKickOff PROVE MatchInv'
<1> USE DEF MatchInv, TypeOK, KickOffInv
<1>1. GameInv'
  BY SetUpStep DEF SetUpCommand
<1>2. CASE setUp = "side"
  <2>1. PICK t \in Team : SideLeft(t)
    BY <1>2 DEF SetUpCommand
  <2> QED
    BY <1>1, <1>2, <2>1 DEF SetUpCommand, SideLeft, ChangeSide
<1>3. CASE setUp = "kickoff"
  <2>1. PICK t \in Team : KickOffCommand(t)
    BY <1>3 DEF SetUpCommand
  <2>2. KickOffChoice
    BY <1>3 DEF KickOffChoice
  <2>3. secGameState = "NORMAL" => kickOffTeam' = KickOffSide'
    BY <2>1, <2>2, TeamFacts DEF KickOffCommand, KickOffSide, Team, Other
  <2>4. Phase' = secGameState
    BY <1>3, <2>1, NotSetPiece DEF KickOffCommand, Phase
  <2> QED
    BY <1>1, <1>3, <2>1, <2>3, <2>4 DEF SetUpCommand, KickOffCommand
<1> QED
  BY <1>2, <1>3 DEF SetUpCommand

\* Time keeps the invariant.
LEMMA TickKeeps ==
  ASSUME MatchInv, Tick, UNCHANGED <<setUp, halfKickOff>>
  PROVE  MatchInv' /\ UNCHANGED Phase
BY TickStep DEF MatchInv, TypeOK, KickOffInv, KickOffSide, Tick, Phase

\* Every step keeps the invariant.
LEMMA NextKeeps == MatchInv /\ [Next]_vars => MatchInv'
<1> SUFFICES ASSUME MatchInv, [Next]_vars PROVE MatchInv'
  OBVIOUS
<1>1. GameInv
  BY DEF MatchInv, TypeOK
<1>2. CASE SetUpCommand /\ UNCHANGED halfKickOff
  BY <1>2, SetUpKeeps
<1>3. CASE (MatchCommand \/ ClockTick) /\ Run
  BY <1>1, <1>3, CommandStep, KickOffStep
<1>4. CASE Tick /\ UNCHANGED <<setUp, halfKickOff>>
  BY <1>4, TickKeeps
<1>5. CASE UNCHANGED vars
  BY <1>5 DEF vars, MatchInv, TypeOK, KickOffInv, KickOffSide, Phase
<1> QED
  BY <1>2, <1>3, <1>4, <1>5 DEF Next

\* MatchInv, the inductive invariant of the match data under the AutoRef interface: the
\* types, the clock frozen with the set piece, no time-out and the kick-off of the sides.
THEOREM Invariance == AutoRefSpec => []MatchInv
<1>1. AutoRefInit => MatchInv
  BY Initially
<1>2. MatchInv /\ [Next]_vars => MatchInv'
  BY NextKeeps
<1> QED
  BY <1>1, <1>2, PTL DEF AutoRefSpec

\* Type correctness of the match data under every sequence of commands.
THEOREM TypeCorrect == AutoRefSpec => []TypeOK
<1>1. MatchInv => TypeOK
  BY DEF MatchInv
<1> QED
  BY <1>1, Invariance, PTL

\* The clock is frozen exactly while a set piece is on, for any kinds of set pieces.
THEOREM SetPieceSafe == AutoRefSpec => []SetPieceFreezesClock
<1>1. MatchInv => SetPieceFreezesClock
  BY DEF MatchInv
<1> QED
  BY <1>1, Invariance, PTL

\* Set-up and time leave the period and the game state alone.
LEMMA QuietStep ==
  ASSUME MatchInv, \/ SetUpCommand /\ UNCHANGED halfKickOff
                   \/ Tick /\ UNCHANGED <<setUp, halfKickOff>>
                   \/ UNCHANGED vars
  PROVE  UNCHANGED <<gameState, Phase, firstHalf>>
BY DEF SetUpCommand, SideLeft, KickOffCommand, Tick, vars, Phase

\* What a step does to the period, and who begins the half when READY ends INITIAL.
LEMMA PeriodOrKickOff ==
  ASSUME MatchInv, (MatchCommand \/ ClockTick) /\ Run
  PROVE  PeriodForward /\ OtherTeamBegins
<1> USE DEF PeriodForward, OtherTeamBegins
<1>1. GameInv /\ PeriodStep /\ setUp = "done"
  BY CommandStep DEF MatchInv, TypeOK, Run
<1>2. CASE SamePeriod
  <2>1. ASSUME gameState = "INITIAL", gameState' = "READY"
        PROVE  /\ kickOffTeam' = KickOffSide /\ KickOffSide \in Team
               /\ halfKickOff \in {None, Other(KickOffSide)}
    BY <1>1, <1>2, <2>1, TeamFacts DEF SamePeriod, MatchInv, KickOffInv, KickOffSide
  <2> QED
    BY <1>2, <2>1, TeamFacts DEF SamePeriod
<1>3. CASE NewHalf
  BY <1>3 DEF NewHalf
<1>4. CASE ToShootOut
  BY <1>4 DEF ToShootOut
<1> QED
  BY <1>1, <1>2, <1>3, <1>4 DEF PeriodStep

\* The periods of a match follow each other in order: no set piece, however it is
\* ended, brings an earlier one back.
THEOREM PeriodsOrdered == AutoRefSpec => PeriodsInOrder
<1>1. MatchInv /\ [Next]_vars => [PeriodForward]_vars
  BY QuietStep, PeriodOrKickOff DEF Next, PeriodForward
<1> QED
  BY <1>1, Invariance, PTL DEF AutoRefSpec, PeriodsInOrder

\* The teams begin the halves in turn, whatever scored or dropped balls in between.
THEOREM KickOffsAlternate == AutoRefSpec => KickOffAlternates
<1>1. MatchInv /\ [Next]_vars => [OtherTeamBegins]_vars
  BY QuietStep, PeriodOrKickOff DEF Next, OtherTeamBegins
<1> QED
  BY <1>1, Invariance, PTL DEF AutoRefSpec, KickOffAlternates

----------------------------------------------------------------------------
(* The clock of the game.                                                  *)

\* Nothing is lost where a state is entered: each case adds up what counted before.
LEMMA ClockEnters ==
  ASSUME GameInv,
         \/ PerformReady /\ gameState \in {"INITIAL", "READY", "PLAYING"}
         \/ PerformFinish
         \/ PerformSet /\ gameState \in {"READY", "SET"} /\ secGameState # "PENALTYSHOOT"
         \/ Play
  PROVE  TimePlayed' >= TimePlayed
<1> USE TimesOrdered DEF EnterState, TimePlayed, TimeWithState, Sat
<1>1. CASE PerformReady /\ gameState \in {"INITIAL", "READY", "PLAYING"}
  BY <1>1 DEF PerformReady
<1>2. CASE PerformFinish
  BY <1>2 DEF PerformFinish
<1>3. CASE PerformSet /\ gameState \in {"READY", "SET"} /\ secGameState # "PENALTYSHOOT"
  <2>1. CASE gameState = "SET"
    BY <1>3, <2>1 DEF PerformSet
  <2>2. CASE gameState = "READY"
    <3>1. /\ gameState' = "SET" /\ inState' = 0
          /\ timeBefore' = IF timeBefore = 0 THEN 0 ELSE Sat(timeBefore + inState)
      BY <1>3, <2>2 DEF PerformSet
    <3> QED
      BY <2>2, <3>1
  <2> QED
    BY <1>3, <2>1, <2>2
<1>4. CASE Play
  BY <1>4 DEF Play
<1> QED
  BY <1>1, <1>2, <1>3, <1>4

\* No command and no tick of the clock thread takes back time played.
LEMMA ClockCommand ==
  ASSUME GameInv, MatchCommand \/ ClockTick
  PROVE  ClockForward
<1> SUFFICES ASSUME Phase' = Phase, firstHalf' = firstHalf, Phase # "PENALTYSHOOT"
             PROVE  TimePlayed' >= TimePlayed
  BY DEF ClockForward
<1>1. secGameState # "PENALTYSHOOT"
  BY NotSetPiece DEF Phase
<1>2. TimePlayed \in Int
  BY TimesOrdered DEF TimePlayed, TimeWithState, Sat
<1>3. CASE Ready \/ Play \/ Finish \/ DropBall \/ \E t \in Team : Goal(t)
  BY <1>1, <1>3, ClockEnters DEF Ready, Finish, DropBall, Goal
<1>4. CASE Set \/ AutoSet
  BY <1>1, <1>4, ClockEnters DEF Set, AutoSet
<1>5. CASE SecondHalf \/ FirstHalfOvertime \/ SecondHalfOvertime \/ AutoSecondHalf
  <2>1. NewHalf
    BY <1>5, HalfPeriod
  <2>2. Rank(Phase, firstHalf) \in Int
    BY DEF Rank
  <2> QED
    BY <2>1, <2>2 DEF NewHalf
<1>6. CASE PenaltyShoot
  BY <1>6, PenaltyShootPeriod DEF ToShootOut
<1>7. CASE \/ \E k \in SetPiece, t \in Team : GameInterruption(k, t)
           \/ \E t \in Team : Retake(t) \/ Abort(t)
  <2>1. UNCHANGED stateVars
    BY <1>7 DEF GameInterruption, Retake, Abort, InterruptionFrame
  <2> QED
    BY <1>2, <2>1 DEF TimePlayed, TimeWithState
<1> QED
  BY <1>3, <1>4, <1>5, <1>6, <1>7 DEF MatchCommand, ClockTick, InterruptionCommand

\* Nor do the set-up, the passing of time and stuttering.
LEMMA ClockElse ==
  ASSUME MatchInv, \/ SetUpCommand /\ UNCHANGED halfKickOff
                   \/ Tick /\ UNCHANGED <<setUp, halfKickOff>>
  PROVE  TimePlayed' >= TimePlayed
<1> USE TimesOrdered DEF MatchInv, TypeOK, TimePlayed, TimeWithState, Sat
<1>1. CASE SetUpCommand
  BY <1>1 DEF SetUpCommand, SideLeft, ChangeSide, KickOffCommand, KickOffInv
<1>2. CASE Tick
  BY <1>2 DEF Tick
<1> QED
  BY <1>1, <1>2

\* The time played in a half never decreases, through every change of state and every
\* set piece, for all lengths of the half.
THEOREM ClockMonotone == AutoRefSpec => ClockNeverRunsBack
<1>1. MatchInv /\ [Next]_vars => [ClockForward]_vars
  BY ClockCommand, ClockElse DEF Next, ClockForward, MatchInv, TypeOK
<1> QED
  BY <1>1, Invariance, PTL DEF AutoRefSpec, ClockNeverRunsBack

----------------------------------------------------------------------------
(* The ends of the shoot-out.                                              *)

\* Whatever happens between two shots, the kick and the ends change hands together.
LEMMA EndsStep ==
  ASSUME GameInv, MatchCommand \/ ClockTick \/ Tick, {kickOffTeam, kickOffTeam'} \subseteq Team,
         secGameState = "PENALTYSHOOT", secGameState' = "PENALTYSHOOT"
  PROVE  kickOffTeam = leftTeam <=> kickOffTeam' = leftTeam'
<1>1. secGameState \notin SetPiece
  BY NotSetPiece
<1>2. CASE Set \/ AutoSet
  <2>1. PerformSet
    BY <1>2 DEF Set, AutoSet
  <2> QED
    BY <2>1, TeamFacts DEF PerformSet, ChangeSide, KickerOf, Team, Other
<1>3. CASE Ready \/ Play \/ Finish \/ DropBall \/ \E t \in Team : Goal(t)
  BY <1>3, TeamFacts DEF Ready, Play, Finish, DropBall, Goal
<1>4. CASE \/ \E k \in SetPiece, t \in Team : GameInterruption(k, t)
           \/ \E t \in Team : Retake(t) \/ Abort(t)
  BY <1>4 DEF GameInterruption, Retake, Abort, InterruptionFrame
<1>5. CASE Tick
  BY <1>5 DEF Tick
<1> QED
  BY <1>1, <1>2, <1>3, <1>4, <1>5
     DEF MatchCommand, ClockTick, InterruptionCommand, SecondHalf, FirstHalfOvertime,
         SecondHalfOvertime, AutoSecondHalf, PenaltyShoot

\* All shots of a shoot-out go to the end the first one went to, however often SET is
\* asked for and whoever scores.
THEOREM ShotsAtOneEnd == AutoRefSpec => AllShotsAtOneEnd
<1> DEFINE OneEnd == ( /\ setUp = "done" /\ {kickOffTeam, kickOffTeam'} \subseteq Team
                       /\ secGameState = "PENALTYSHOOT" /\ secGameState' = "PENALTYSHOOT")
                     => (kickOffTeam = leftTeam <=> kickOffTeam' = leftTeam')
<1>1. MatchInv /\ [Next]_vars => [OneEnd]_vars
  BY EndsStep DEF Next, SetUpCommand, MatchInv, TypeOK
<1> QED
  BY <1>1, Invariance, PTL DEF AutoRefSpec, AllShotsAtOneEnd

----------------------------------------------------------------------------
(* AutoRefMatch implements Match: the initial state maps to an initial     *)
(* state, and each action of the GameController to a step of the match or  *)
(* to none.  One lemma for each step of the match.                         *)

USE DEF Audience!vars

\* The program starts where the match does.
LEMMA InitRefines == AutoRefInit => Audience!Init
<1> SUFFICES ASSUME AutoRefInit PROVE Audience!Init
  OBVIOUS
<1>1. Phase = secGameState
  BY NotSetPiece DEF AutoRefInit, Init, Phase
<1> QED
  BY <1>1 DEF AutoRefInit, Init, Audience!Init, Period, Ball, Team

\* What the audience sees of a period follows from Phase and firstHalf.
LEMMA SamePeriodSeen ==
  ASSUME GameInv, UNCHANGED <<Phase, firstHalf>>
  PROVE  UNCHANGED Period
BY DEF Period

\* READY is invisible, PLAY kicks in, FINISH ends the period, a dropped ball stops play.
LEMMA StateRefines ==
  ASSUME GameInv, Ready \/ Play \/ Finish \/ DropBall
  PROVE  [Audience!Next]_(Audience!vars)
<1>1. UNCHANGED <<matchType, score, Period>>
  BY StatePeriod, SamePeriodSeen DEF SamePeriod, Ready, Play, Finish, DropBall
<1>2. CASE Ready
  BY <1>1, <1>2, ReadyType DEF Ready, Ball
<1>3. CASE Play
  BY <1>1, <1>3 DEF Play, EnterState, Ball, Audience!Next, Audience!KickIn
<1>4. CASE Finish
  BY <1>1, <1>4, FinishType DEF Finish, Ball, Audience!Next, Audience!End
<1>5. CASE DropBall
  BY <1>1, <1>5, ReadyType DEF DropBall, Ball, Audience!Next, Audience!Stop
<1> QED
  BY <1>2, <1>3, <1>4, <1>5

\* SET is invisible outside the shoot-out; in it, it stops play or prepares the next shot.
LEMMA SetRefines ==
  ASSUME GameInv, PerformSet, SetFrame,
         gameState \in {"READY", "SET"} \/ secGameState = "PENALTYSHOOT"
  PROVE  [Audience!Next]_(Audience!vars)
<1>1. UNCHANGED <<matchType, score, Period>> /\ gameState' = "SET"
  BY SetPeriod, SetType, SamePeriodSeen DEF SamePeriod, SetFrame
<1>2. secGameState = "PENALTYSHOOT" => Period = "shootout"
  BY NotSetPiece DEF Phase, Period
<1>3. CASE gameState \in {"INITIAL", "READY", "SET"}
  BY <1>1, <1>3 DEF Ball
<1>4. CASE gameState = "PLAYING"
  BY <1>1, <1>4 DEF Ball, Audience!Next, Audience!Stop
<1>5. CASE gameState = "FINISHED"
  BY <1>1, <1>2, <1>5 DEF Ball, Audience!Next, Audience!NextShot
<1> QED
  BY <1>3, <1>4, <1>5

\* A goal is the goal of the match, and stops or ends play as the period says.
LEMMA GoalRefines ==
  ASSUME GameInv, NEW t \in Team, Goal(t)
  PROVE  Audience!Next
<1>1. UNCHANGED <<matchType, Period>>
  BY StatePeriod, SamePeriodSeen DEF SamePeriod, Goal
<1>2. Ball = "play" /\ score[t] < MaxScore /\ score' = [score EXCEPT ![t] = @ + 1]
  BY DEF Goal, Ball
<1>3. Period = "shootout" <=> secGameState = "PENALTYSHOOT"
  BY NotSetPiece DEF Phase, Period
<1>4. Ball' = IF Period = "shootout" THEN "over" ELSE "stopped"
  BY <1>3, ReadyType, FinishType DEF Goal, Ball
<1> QED
  BY <1>1, <1>2, <1>4 DEF Audience!Next, Audience!ScoreGoal, Team

\* Each change of the half is the step of the match to the period after it.
LEMMA HalfRefines ==
  ASSUME GameInv, SecondHalf \/ FirstHalfOvertime \/ SecondHalfOvertime \/ AutoSecondHalf \/ PenaltyShoot
  PROVE  Audience!Next
<1> USE NotSetPiece DEF Phase, Period, Audience!Next, Audience!NextPeriod
<1>1. /\ gameState = "FINISHED" /\ gameState' = "INITIAL"
      /\ UNCHANGED <<matchType, score>>
  BY DEF SecondHalf, FirstHalfOvertime, SecondHalfOvertime, AutoSecondHalf, PenaltyShoot, StartHalf
<1>2. Ball = "over" /\ Ball' = "stopped"
  BY <1>1 DEF Ball
<1>3. CASE SecondHalf
  BY <1>1, <1>2, <1>3 DEF SecondHalf, StartHalf
<1>4. CASE FirstHalfOvertime
  BY <1>1, <1>2, <1>4 DEF FirstHalfOvertime, StartHalf, PlayOff
<1>5. CASE SecondHalfOvertime
  BY <1>1, <1>2, <1>5 DEF SecondHalfOvertime, StartHalf
<1>6. CASE AutoSecondHalf
  BY <1>1, <1>2, <1>6 DEF AutoSecondHalf, StartHalf
<1>7. CASE PenaltyShoot
  <2>1. secGameState \in {"NORMAL", "OVERTIME"} /\ ~firstHalf
    BY <1>1, <1>7 DEF PenaltyShoot, SecStates
  <2> QED
    BY <1>1, <1>2, <1>7, <2>1 DEF PenaltyShoot, PlayOff
<1> QED
  BY <1>3, <1>4, <1>5, <1>6, <1>7

\* The set pieces cannot be seen from here.
LEMMA InterruptionRefines ==
  ASSUME GameInv, \/ \E k \in SetPiece, t \in Team : GameInterruption(k, t)
                  \/ \E t \in Team : Retake(t) \/ Abort(t)
  PROVE  UNCHANGED Audience!vars
<1>1. UNCHANGED <<matchType, gameState, score>>
  BY DEF GameInterruption, Retake, Abort, InterruptionFrame
<1> QED
  BY <1>1, InterruptionPeriod, SamePeriodSeen DEF SamePeriod, Ball

\* Every step of the GameController is a step of the match or invisible.
LEMMA StepRefines ==
  ASSUME MatchInv, [Next]_vars
  PROVE  [Audience!Next]_(Audience!vars)
<1>1. GameInv
  BY DEF MatchInv, TypeOK
<1>2. CASE \/ SetUpCommand /\ UNCHANGED halfKickOff
           \/ Tick /\ UNCHANGED <<setUp, halfKickOff>>
           \/ UNCHANGED vars
  <2>1. UNCHANGED <<matchType, score, gameState, Period>>
    BY <1>1, <1>2, QuietStep, SamePeriodSeen DEF SetUpCommand, SideLeft, KickOffCommand, Tick, vars
  <2> QED
    BY <2>1 DEF Ball
<1>3. CASE Set \/ AutoSet
  BY <1>1, <1>3, SetRefines DEF Set, AutoSet
<1>4. CASE Ready \/ Play \/ Finish \/ DropBall
  BY <1>1, <1>4, StateRefines
<1>5. CASE \E t \in Team : Goal(t)
  BY <1>1, <1>5, GoalRefines
<1>6. CASE SecondHalf \/ FirstHalfOvertime \/ SecondHalfOvertime \/ AutoSecondHalf \/ PenaltyShoot
  BY <1>1, <1>6, HalfRefines
<1>7. CASE \/ \E k \in SetPiece, t \in Team : GameInterruption(k, t)
           \/ \E t \in Team : Retake(t) \/ Abort(t)
  BY <1>1, <1>7, InterruptionRefines
<1> QED
  BY <1>2, <1>3, <1>4, <1>5, <1>6, <1>7 DEF Next, MatchCommand, ClockTick, InterruptionCommand

\* Under every sequence of commands over the AutoRef interface the GameController plays
\* a match as the audience knows it.
THEOREM Refinement == AutoRefSpec => ImplementsMatch
<1>1. AutoRefInit => Audience!Init
  BY InitRefines
<1>2. MatchInv /\ [Next]_vars => [Audience!Next]_(Audience!vars)
  BY StepRefines
<1> QED
  BY <1>1, <1>2, Invariance, PTL DEF AutoRefSpec, ImplementsMatch, Audience!Spec

============================================================================
