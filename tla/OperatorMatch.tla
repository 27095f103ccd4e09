---------------------------- MODULE OperatorMatch ----------------------------
(***************************************************************************)
(* A match of AutoRefMatch with a person at the GameController as well: the*)
(* buttons of HL_SimGui whose actions the AutoRef interface lacks are the  *)
(* time-outs of the teams and of the referee and the choice of the kick-off*)
(* team.  The other buttons register the same actions as the commands, and *)
(* EventHandler runs both in the one GUI thread.  The test mode and Undo   *)
(* are not modelled.                                                       *)
(***************************************************************************)
EXTENDS AutoRefMatch

OutFrame == UNCHANGED <<matchType, info, endVars, kickVars, score, singleShots, pauseVars>>

\* Mutant of EndTimeOut: the state from before is taken to be NORMAL.
EndTimeOutToNormal ==
  /\ secGameState' = "NORMAL"
  /\ previousSec' = "TIMEOUT"
  /\ PerformReady
  /\ UNCHANGED penaltyShot

\* The part that ends a time-out of either kind: back to the state from before and,
\* outside the shoot-out, on with READY.
EndTimeOut ==
  /\ secGameState' = previousSec
  /\ previousSec' = "TIMEOUT"
  /\ IF previousSec # "PENALTYSHOOT" THEN PerformReady ELSE UNCHANGED stateVars
  /\ UNCHANGED penaltyShot

\* TimeOut: the flags belong to the sides, not to the teams. timeOutTime is 0.
TimeOut(t) ==
  LET s == Side(t)
  IN  /\ IF timeOutActive[s]
         THEN /\ EndTimeOut
              /\ timeOutActive' = [timeOutActive EXCEPT ![s] = FALSE]
              /\ secondaryClock' = None
              /\ UNCHANGED timeOutTaken
         ELSE /\ gameState \in {"INITIAL", "READY", "SET"}
              /\ ~timeOutTaken[s] /\ ~timeOutActive[1 - s]
              /\ secGameState # "TIMEOUT"
              /\ previousSec' = secGameState
              /\ secGameState' = "TIMEOUT"
              /\ timeOutActive' = [timeOutActive EXCEPT ![s] = TRUE]
              /\ timeOutTaken' = [timeOutTaken EXCEPT ![s] = TRUE]
              /\ secondaryClock' = 0
              /\ EnterState("INITIAL", timeBefore)
              /\ UNCHANGED penaltyShot
      /\ OutFrame /\ UNCHANGED refereeTimeout

\* RefereeTimeout: a shot that was being prepared or taken is not counted.
RefereeTimeout ==
  LET shooter == KickerOf(kickOffTeam, leftTeam)
      taken   == secGameState = "PENALTYSHOOT" /\ gameState \in {"SET", "PLAYING"}
  IN  /\ gameState # "FINISHED" /\ ~timeOutActive[0] /\ ~timeOutActive[1]
      /\ refereeTimeout' = ~refereeTimeout
      /\ IF refereeTimeout THEN EndTimeOut
         ELSE /\ previousSec' = secGameState
              /\ secGameState' = "TIMEOUT"
              /\ taken => penaltyShot[shooter] > -MaxShots
              /\ penaltyShot' = IF taken THEN [penaltyShot EXCEPT ![shooter] = @ - 1] ELSE penaltyShot
              /\ EnterState("INITIAL", IF gameState = "PLAYING" THEN TimeWithState ELSE timeBefore)
      /\ OutFrame /\ UNCHANGED <<timeOutActive, timeOutTaken, secondaryClock>>

\* The kick-off button of a team. KickOff.isLegal without the handler's preparation.
KickOffButton(t) ==
  /\ kickOffTeam # t /\ KickOffChoice
  /\ kickOffTeam' = t
  /\ leftSideKickoff' = IF secGameState = "NORMAL" THEN t = leftTeam ELSE leftSideKickoff
  /\ UNCHANGED <<matchType, secVars, endVars, shotVars, outVars, pauseVars, stateVars, secondaryClock>>

OperatorNext ==
  \/ Next
  \/ RefereeTimeout /\ UNCHANGED <<setUp, halfKickOff>>
  \/ (\E t \in Team : TimeOut(t)) /\ UNCHANGED <<setUp, halfKickOff>>
  \/ (\E t \in Team : KickOffButton(t)) /\ UNCHANGED <<setUp, halfKickOff>>

OperatorSpec == AutoRefInit /\ [][OperatorNext]_vars

----------------------------------------------------------------------------
(* Properties.                                                             *)

TimeOutOn == timeOutActive[0] \/ timeOutActive[1] \/ refereeTimeout

\* The clock is frozen exactly while a team is recorded in secGameStateInfo, time-outs
\* during a set piece included, and it is never left running by hand.
PauseFollowsInfo == (manPause <=> info.team # None) /\ ~manPlay

\* While a time-out is on nobody plays, and the teams take their time-outs one by one.
TimeOutStopsPlay ==
  /\ TimeOutOn => gameState = "INITIAL"
  /\ ~(timeOutActive[0] /\ timeOutActive[1])

\* A set piece is on exactly while a team is recorded for it, or a time-out interrupts it.
InfoFollowsSetPiece ==
  info.team # None <=> \/ secGameState \in SetPiece
                       \/ TimeOutOn /\ secGameState = "TIMEOUT" /\ previousSec \in SetPiece

\* What keeps these three: a time-out, the kick-off of a shoot-out it interrupts aside,
\* shows TIMEOUT; the one of the referee and the one of a team meet only there; and a
\* set piece is never on where a half could begin.
TimeOutsNest ==
  /\ TimeOutOn => \/ secGameState = "TIMEOUT"
                  \/ secGameState = "PENALTYSHOOT" /\ previousSec \in {"PENALTYSHOOT", "TIMEOUT"}
  /\ refereeTimeout /\ (timeOutActive[0] \/ timeOutActive[1]) => previousSec = "PENALTYSHOOT"
  /\ secGameState \in SetPiece => /\ gameState \notin {"INITIAL", "FINISHED"}
                                  /\ previousSec \in {"NORMAL", "OVERTIME", "TIMEOUT"}

\* The inductive invariant.
OperatorInv ==
  GameTypeOK /\ PauseFollowsInfo /\ TimeOutStopsPlay /\ InfoFollowsSetPiece /\ TimeOutsNest

\* previousSecGameState brings back what a time-out interrupted ("Used to backup the
\* secondary game state during a timeout", AdvancedData): in a league match nothing but
\* a time-out in progress shows TIMEOUT. Refuted: a set piece shares the backup, and
\* one that ends after a time-out brings TIMEOUT back for good.
TimeOutIsOver == matchType = "NORMAL" /\ secGameState = "TIMEOUT" => TimeOutOn

============================================================================
