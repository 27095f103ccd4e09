---------------------------- MODULE AutoRefMatch ----------------------------
(***************************************************************************)
(* A match driven over the AutoRef interface: the match data of GameControl*)
(* under the commands that SimulatorUpdateComponent.handleCommand takes,   *)
(* the clock thread and time.                                              *)
(*                                                                         *)
(* The referees of this repository choose the sides (SIDE_LEFT) and then   *)
(* the kick-off (KICKOFF), once, before anything else: setUp says how far  *)
(* they are, and Next allows any other command once they are done.  AnyNext*)
(* also allows the two commands later, which the interface does not forbid.*)
(* A command that is rejected, or accepted without an effect, is a         *)
(* stuttering step, with the one exception of KICKOFF.                     *)
(***************************************************************************)
EXTENDS GameControl

VARIABLES
  setUp,          \* "side", then "kickoff", then "done"
  halfKickOff     \* history: the team that began the current half, or None

vars == <<gameVars, setUp, halfKickOff>>

Phase == IF secGameState \in SetPiece \cup {"TIMEOUT"} THEN previousSec ELSE secGameState

AutoRefInit == Init /\ setUp = "side" /\ halfKickOff = None

----------------------------------------------------------------------------
(* The commands.                                                           *)

\* SIDE_LEFT: only a team that is not on the left yet changes sides.
SideLeft(t) ==
  /\ IF t # leftTeam THEN ChangeSide(secGameState)
     ELSE UNCHANGED <<leftTeam, timeBefore, timeOutTaken>>
  /\ UNCHANGED <<matchType, secVars, firstHalf, kickVars, shotVars, timeOutActive,
                 refereeTimeout, pauseVars, gameState, inState, secondaryClock>>

\* KickOff.isLegal once the handler has made the other team the kick-off team.
KickOffChoice == gameState = "INITIAL" /\ ((secGameState = "NORMAL" /\ firstHalf) \/ secGameState = "PENALTYSHOOT")

\* Mutant of KickOffCommand: KickOff.perform finds the team already set, and returns
\* before it notes the side.
KickOffUnnoted(t) ==
  /\ kickOffTeam' = t
  /\ UNCHANGED leftSideKickoff
  /\ UNCHANGED <<matchType, secVars, endVars, shotVars, outVars, pauseVars, stateVars, secondaryClock>>

\* KICKOFF: the handler hands the kick-off to the other team before it asks whether
\* the command is legal, so a rejected one has an effect too.
KickOffCommand(t) ==
  /\ kickOffTeam' = IF KickOffChoice THEN t ELSE Other(t)
  /\ leftSideKickoff' = IF KickOffChoice /\ secGameState = "NORMAL" THEN t = leftTeam
                                                                    ELSE leftSideKickoff
  /\ UNCHANGED <<matchType, secVars, endVars, shotVars, outVars, pauseVars, stateVars, secondaryClock>>

\* The step a set-piece command names has to be the one the sub mode asks for.
InterruptionCommand(k, t, step) ==
  /\ \/ step = "START"   /\ info.team = None
     \/ step = "READY"   /\ info.team # None /\ info.sub = 0
     \/ step = "PREPARE" /\ info.team # None /\ info.sub = 1
     \/ step = "EXECUTE" /\ info.team # None /\ info.sub = 2
  /\ GameInterruption(k, t)

Steps == {"START", "READY", "PREPARE", "EXECUTE"}

MatchCommand ==
  \/ Ready \/ Set \/ Play \/ Finish
  \/ SecondHalf \/ FirstHalfOvertime \/ SecondHalfOvertime \/ PenaltyShoot
  \/ DropBall
  \/ \E t \in Team : Goal(t) \/ Retake(t) \/ Abort(t)
  \/ \E k \in SetPiece, t \in Team, step \in Steps : InterruptionCommand(k, t, step)

----------------------------------------------------------------------------
(* The specification.                                                      *)

SetUpCommand ==
  \/ setUp = "side"    /\ (\E t \in Team : SideLeft(t))       /\ setUp' = "kickoff"
  \/ setUp = "kickoff" /\ (\E t \in Team : KickOffCommand(t)) /\ setUp' = "done"

Record == halfKickOff' = IF gameState = "INITIAL" /\ gameState' = "READY"
                         THEN kickOffTeam' ELSE halfKickOff

Run == setUp = "done" /\ UNCHANGED setUp /\ Record

Next ==
  \/ SetUpCommand /\ UNCHANGED halfKickOff
  \/ MatchCommand /\ Run
  \/ ClockTick /\ Run
  \/ Tick /\ UNCHANGED <<setUp, halfKickOff>>

\* SIDE_LEFT and KICKOFF at any time.
AnyNext ==
  \/ Next
  \/ (\E t \in Team : SideLeft(t) \/ KickOffCommand(t)) /\ UNCHANGED <<setUp, halfKickOff>>

\* The clock thread never stops and time passes; nobody has to send a command.
Fairness == WF_vars(AutoSet /\ Run) /\ WF_vars(AutoSecondHalf /\ Run)
            /\ WF_vars(Tick /\ UNCHANGED <<setUp, halfKickOff>>)

AutoRefSpec == AutoRefInit /\ [][Next]_vars /\ Fairness
AnySpec     == AutoRefInit /\ [][AnyNext]_vars

----------------------------------------------------------------------------
(* Properties.                                                             *)

SecStates == {"NORMAL", "PENALTYSHOOT", "OVERTIME", "TIMEOUT"} \cup SetPiece

\* The types of the match data, with the bounds of the model.
GameTypeOK ==
  /\ matchType \in {"NORMAL", "KNOCKOUT", "PENALTY"}
  /\ gameState \in {"INITIAL", "READY", "SET", "PLAYING", "FINISHED"}
  /\ secGameState \in SecStates /\ previousSec \in SecStates
  /\ info \in [team : Team \cup {None}, sub : 0..2]
  /\ firstHalf \in BOOLEAN /\ leftTeam \in Team
  /\ kickOffTeam \in Team \cup {DROPBALL} /\ leftSideKickoff \in BOOLEAN
  /\ score \in [Team -> 0..MaxScore]
  /\ penaltyShot \in [Team -> Int] /\ singleShots \in [Team -> Nat]
  /\ timeOutActive \in [{0, 1} -> BOOLEAN] /\ timeOutTaken \in [{0, 1} -> BOOLEAN]
  /\ refereeTimeout \in BOOLEAN
  /\ manPause \in BOOLEAN /\ manPlay \in BOOLEAN
  /\ inState \in 0..HalfTime /\ timeBefore \in 0..HalfTime
  /\ secondaryClock \in {None} \cup 0..PrepTime

TypeOK ==
  /\ GameTypeOK
  /\ setUp \in {"side", "kickoff", "done"}
  /\ halfKickOff \in Team \cup {None}

\* The clock is frozen exactly while a set piece is on: the toggle ClockPause is
\* called once when it starts and once when it ends, whatever goals, dropped balls,
\* retakes and state changes come in between, and never leaves the clock running by
\* hand; and only a match in play or a set piece carries a team in secGameStateInfo.
SetPieceFreezesClock ==
  /\ manPause <=> info.team # None
  /\ info.team # None <=> secGameState \in SetPiece
  /\ ~manPlay
  /\ secGameState \in SetPiece => gameState \notin {"INITIAL", "FINISHED"}
  /\ secGameState \in SetPiece => previousSec \in {"NORMAL", "OVERTIME"}

Rank(sec, first) ==
  CASE sec = "NORMAL"       -> IF first THEN 1 ELSE 2
    [] sec = "OVERTIME"     -> IF first THEN 3 ELSE 4
    [] sec = "PENALTYSHOOT" -> 5
    [] OTHER                -> 0

\* A period gives way only to a later one, only when it is finished, and the new one
\* waits in INITIAL: the backup previousSecGameState, shared by all set pieces, never
\* brings an earlier period back and no set piece is ended into the wrong one.
PeriodForward ==
  (Phase # Phase' \/ firstHalf # firstHalf') =>
     /\ gameState = "FINISHED" /\ gameState' = "INITIAL"
     /\ Rank(Phase, firstHalf) < Rank(Phase', firstHalf')

PeriodsInOrder == [][PeriodForward]_vars

\* The team that did not begin the half before begins this one, through the change
\* of sides and whatever goals and dropped balls did to kickOffTeam.
OtherTeamBegins ==
  (gameState = "INITIAL" /\ gameState' = "READY") =>
     /\ kickOffTeam' \in Team
     /\ halfKickOff # None => kickOffTeam' = Other(halfKickOff)

KickOffAlternates == [][OtherTeamBegins]_vars

\* Outside the shoot-out the time played in a half never decreases: no entry into
\* READY, SET, PLAYING or FINISHED, and no set piece, loses or rewinds time.
ClockForward ==
  (Phase' = Phase /\ firstHalf' = firstHalf /\ Phase # "PENALTYSHOOT")
     => TimePlayed' >= TimePlayed

ClockNeverRunsBack == [][ClockForward]_vars

\* All shots of a shoot-out are taken at the same end: the kick and the ends change
\* hands together (a dropped ball, which takes the kick from both, aside).
AllShotsAtOneEnd ==
  [][( /\ setUp = "done" /\ {kickOffTeam, kickOffTeam'} \subseteq Team
       /\ secGameState = "PENALTYSHOOT" /\ secGameState' = "PENALTYSHOOT")
        => (kickOffTeam = leftTeam <=> kickOffTeam' = leftTeam')]_vars

\* The mask singleShots has one bit for each goal of a shoot-out ("bits represent
\* penalty shot success", TeamInfo). Not with every AutoRef: a shot is not counted when SET
\* is entered again from PLAYING, and a goal then marks the bit of an earlier shot. But with
\* the referee of this league, which never does that (RefereeMatch).
Ones(mask) == Cardinality({n \in 1..15 : (mask \div ShotBit(n)) % 2 = 1})

MaskCountsGoals == matchType = "PENALTY" => \A t \in Team : Ones(singleShots[t]) = score[t]

\* Between goals, dropped balls and periods nobody else gets the kick-off: in READY and
\* SET, and in PLAYING, a command cannot move it. Refuted: a rejected KICKOFF does.
KickOffIsSettled ==
  [][(gameState \in {"READY", "SET", "PLAYING"} /\ gameState' = gameState)
        => kickOffTeam' = kickOffTeam]_vars

\* READY ends by itself unless a set piece froze the clock (ClockTick.perform).
ReadyEnds ==
  (gameState = "READY" /\ ~manPause /\ \A t \in Team : penaltyShot[t] < MaxShots)
     ~> (gameState # "READY" \/ manPause)

\* The second half of the game or of the overtime follows without any command.
SecondHalfComes ==
  \A sec \in {"NORMAL", "OVERTIME"} :
    (setUp = "done" /\ gameState = "FINISHED" /\ firstHalf /\ secGameState = sec)
       ~> (secGameState = sec /\ ~firstHalf)

\* The inductive invariant behind the first of these properties. Time-outs, which only
\* a person can call, are never on.
NoTimeOutSeen ==
  /\ NoTimeOut
  /\ secGameState # "TIMEOUT"
  /\ previousSec \in {"NORMAL", "OVERTIME"} \cup SetPiece

\* Whose kick-off the sides ask for, and who therefore began this half.
KickOffSide == IF leftSideKickoff THEN leftTeam ELSE Other(leftTeam)

KickOffInv ==
  /\ setUp # "done" =>
       /\ gameState = "INITIAL" /\ secGameState \in {"NORMAL", "PENALTYSHOOT"}
       /\ firstHalf /\ timeBefore = 0 /\ halfKickOff = None
  /\ setUp = "done" /\ Phase # "PENALTYSHOOT" =>
       IF gameState = "INITIAL"
       THEN kickOffTeam = KickOffSide /\ halfKickOff \in {None, Other(KickOffSide)}
       ELSE halfKickOff = KickOffSide

MatchInv == TypeOK /\ SetPieceFreezesClock /\ NoTimeOutSeen /\ KickOffInv

\* The match the audience sees.
Period ==
  CASE Phase = "PENALTYSHOOT" -> "shootout"
    [] Phase = "OVERTIME"     -> IF firstHalf THEN "extra1" ELSE "extra2"
    [] OTHER                  -> IF firstHalf THEN "first" ELSE "second"

Ball ==
  CASE gameState = "PLAYING"  -> "play"
    [] gameState = "FINISHED" -> "over"
    [] OTHER                  -> "stopped"

Audience == INSTANCE Match WITH format <- matchType, period <- Period, ball <- Ball, goals <- score

\* Every step of the GameController is a step of the match or invisible to it: goals
\* count only in play, a goal, a shot and a period end play, and the commands of the
\* referee reach a next period only the way the match allows, set pieces or not.
ImplementsMatch == Audience!Spec

============================================================================
