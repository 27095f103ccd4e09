---------------------------- MODULE RefereeMatch ----------------------------
(***************************************************************************)
(* The referee (referee.py) and the GameController in one match: commands  *)
(* and answers over TCP, snapshots of the match data over UDP.             *)
(*                                                                         *)
(* The referee keeps one command under way and decides on view, the last   *)
(* snapshot it took from its UDP queue, which may be several steps of the  *)
(* match behind and misses whatever began and ended between two broadcasts.*)
(* published is the clone of the match data that Sender broadcasts; the    *)
(* GameController renews it at each heartbeat, just before it handles a    *)
(* command, and after a STATE command that runs through actionPerformed.   *)
(*                                                                         *)
(* This referee sends no set-piece commands, so SetPiece is {} in the      *)
(* instances.  Penalties, the picture and the physics are left out: where  *)
(* the ball goes and how long a wait in real time is are free choices.     *)
(***************************************************************************)
EXTENDS AutoRefMatch, StopRule, Sequences

CONSTANTS
  MatchTypes,    \* the types of game.json that the instance plays
  MaxQueue       \* bound: datagrams waiting in the UDP socket

ASSUME RefereeConstants ==
  /\ MatchTypes \subseteq {"NORMAL", "KNOCKOUT", "PENALTY"} /\ MaxQueue \in Nat \ {0}
  /\ None \notin {"OK", "ILLEGAL", "INITIAL", "READY", "SET", "PLAYING", "FINISHED"}

VARIABLES
  published, udp,
  cmd, reply,    \* the command under way and its answer, or NoCommand and None
  pc,            \* where the referee is in its loop
  after,         \* where it goes on once a command is answered and its wait is over
  view,          \* game.state
  waitFor,       \* game.wait_for_state
  processed,     \* the states with game.<state>_state_processed = True
  timer,         \* a deadline of the current state in real time is set
  finishSent,    \* finish_just_sended
  shots,         \* game.penalty_shootout_count
  sideLeft       \* game.side_left

netVars  == <<published, udp>>
cmdVars  == <<cmd, reply, after>>
viewVars == <<view, waitFor>>
memVars  == <<processed, timer, finishSent, shots, sideLeft>>
refVars  == <<pc, cmdVars, viewVars, memVars>>
allVars  == <<vars, netVars, refVars>>

----------------------------------------------------------------------------
(* Snapshots.                                                              *)

\* What the referee reads of a packet of GameControlData; timeUp: in play with no
\* seconds remaining.
Snapshot ==
  [state |-> gameState, sec |-> secGameState, first |-> firstHalf, kick |-> kickOffTeam, left |-> leftTeam,
   score |-> score, timeUp |-> gameState = "PLAYING" /\ TimePlayed = HalfTime]

NoView == [state |-> "NONE", sec |-> "NORMAL", first |-> TRUE, kick |-> None, left |-> Red,
           score |-> [t \in Team |-> 0], timeUp |-> FALSE]

NoCommand == [op |-> "NONE", team |-> None]

\* The Sender thread sends its clone again and again: only a packet that differs from the
\* one before changes anything. A lost packet is one not sent.
Broadcast ==
  /\ Len(udp) < MaxQueue
  /\ published # (IF udp = <<>> THEN view ELSE udp[Len(udp)])
  /\ udp' = Append(udp, published)
  /\ UNCHANGED <<vars, published, refVars>>

\* game_controller_receive: a wait is over when the state changes to the awaited one.
TakeSnapshot ==
  /\ view' = Head(udp) /\ udp' = Tail(udp)
  /\ waitFor' = IF view.state # view'.state /\ view'.state = waitFor THEN None ELSE waitFor

----------------------------------------------------------------------------
(* The GameController.                                                     *)

TickDue == ReadyIsOver \/ PauseIsOver

\* A heartbeat: the clock thread's action, and the clone for the Sender renewed. One
\* that changes neither is left out.
Heartbeat ==
  /\ TickDue \/ published # Snapshot
  /\ IF TickDue THEN ClockTick /\ Run ELSE UNCHANGED vars
  /\ published' = Snapshot'
  /\ UNCHANGED <<udp, refVars>>

Legal(c) ==
  \/ c.op = "SIDE_LEFT"
  \/ c.op = "KICKOFF"             /\ KickOffChoice
  \/ c.op = "READY"               /\ ReadyLegal
  \/ c.op = "SET"                 /\ SetLegal
  \/ c.op = "PLAY"                /\ PlayLegal
  \/ c.op = "FINISH"              /\ FinishLegal
  \/ c.op = "OVERTIME-FIRST-HALF" /\ OvertimeLegal
  \/ c.op = "PENALTY-SHOOTOUT"    /\ PenaltyShootLegal
  \/ c.op = "SCORE"               /\ GoalLegal(c.team)

\* The commands that go through actionPerformed and renew the Sender's clone at once.
Renewing == {"READY", "SET", "PLAY", "FINISH"}

Obey(c) ==
  \/ c.op = "READY"  /\ Ready
  \/ c.op = "SET"    /\ Set
  \/ c.op = "PLAY"   /\ Play
  \/ c.op = "FINISH" /\ Finish
  \/ c.op = "OVERTIME-FIRST-HALF" /\ FirstHalfOvertime
  \/ c.op = "PENALTY-SHOOTOUT"    /\ PenaltyShoot
  \/ c.op = "SCORE"  /\ Goal(c.team)

\* A heartbeat also hands one command to the handler, right after the clock's action
\* and the new clone: so they are never due here.
Handle ==
  /\ cmd # NoCommand /\ reply = None
  /\ ~TickDue /\ published = Snapshot
  /\ reply' = IF Legal(cmd) THEN "OK" ELSE "ILLEGAL"
  /\ CASE cmd.op = "SIDE_LEFT" -> SideLeft(cmd.team) /\ setUp' = "kickoff" /\ UNCHANGED halfKickOff
       [] cmd.op = "KICKOFF"   -> KickOffCommand(cmd.team) /\ setUp' = "done" /\ UNCHANGED halfKickOff
       [] OTHER                -> IF Legal(cmd) THEN Obey(cmd) /\ Record /\ UNCHANGED setUp
                                                ELSE UNCHANGED vars
  /\ published' = IF cmd.op \in Renewing THEN Snapshot' ELSE published
  /\ UNCHANGED <<udp, pc, cmd, after, viewVars, memVars>>

----------------------------------------------------------------------------
(* The referee: game_controller_send and its waits.                        *)

Send(op, team, wait, next) ==
  /\ cmd' = [op |-> op, team |-> team]
  /\ waitFor' = wait
  /\ pc' = "answer" /\ after' = next
  /\ UNCHANGED <<vars, netVars, reply, view>>

\* error(fatal=True) ends the program. Otherwise it goes on, if it waits for nothing.
Answered ==
  /\ pc = "answer" /\ reply # None
  /\ IF reply = "ILLEGAL" THEN pc' = "fatal" /\ UNCHANGED <<cmd, reply>>
     ELSE /\ pc' = IF waitFor = None THEN after ELSE "wait"
          /\ cmd' = NoCommand /\ reply' = None
  /\ UNCHANGED <<vars, netVars, after, viewVars, memVars>>

Waiting ==
  /\ pc = "wait" /\ udp # <<>>
  /\ TakeSnapshot
  /\ pc' = IF waitFor' = None THEN after ELSE "wait"
  /\ UNCHANGED <<vars, published, cmdVars, memVars>>

\* Mutant of SendSide: the kick-off is chosen first.
SideSecond ==
  \/ /\ pc = "start"
     /\ \E t \in Team : Send("KICKOFF", t, waitFor, "kickoff")
     /\ UNCHANGED memVars
  \/ /\ pc = "kickoff" /\ Send("SIDE_LEFT", sideLeft, None, "top")
     /\ UNCHANGED memVars

SendSide ==
  /\ pc = "start" /\ Send("SIDE_LEFT", sideLeft, waitFor, "kickoff")
  /\ UNCHANGED memVars

SendKickOff ==
  /\ pc = "kickoff"
  /\ \E t \in Team : Send("KICKOFF", t, None, "top")
  /\ UNCHANGED memVars

----------------------------------------------------------------------------
(* The main loop.                                                          *)

\* A step of the simulation, of which the CLOCK command tells the GameController, and at
\* most one datagram. The GameController's time passes only here.
Top(tick) ==
  /\ pc = "top" /\ pc' = "branch"
  /\ IF tick THEN Tick /\ UNCHANGED <<setUp, halfKickOff>> ELSE UNCHANGED vars
  /\ IF udp = <<>> THEN UNCHANGED <<view, waitFor, udp>> ELSE TakeSnapshot
  /\ UNCHANGED <<published, cmdVars, memVars>>

\* The end of an iteration: what the states other than the present one had done is
\* forgotten.
Forget == processed' = processed \cap {view.state}

EndIteration ==
  /\ pc = "end" /\ pc' = "top"
  /\ Forget
  /\ UNCHANGED <<vars, netVars, cmdVars, viewVars, timer, finishSent, shots, sideLeft>>

Branch(state) == pc = "branch" /\ view.state = state

\* An iteration without a command.
Pass == pc' = "top" /\ UNCHANGED <<vars, netVars, cmdVars, viewVars>>

\* What each state does once, when it is new.
Enter(state) == state \notin processed /\ processed' = {state}

ShootOut == view.sec = "PENALTYSHOOT"

\* Mutant of FinishDue: FINISH is sent again until the state is seen to change.
FinishWhileUp == Branch("PLAYING") /\ view.timeUp

FinishDue == Branch("PLAYING") /\ view.timeUp /\ ~finishSent

PlayingTimeUp ==
  /\ FinishDue
  /\ Send("FINISH", None, waitFor, "ball")
  /\ finishSent' = TRUE
  /\ UNCHANGED <<processed, timer, shots, sideLeft>>

BallTurn == pc = "ball" \/ (Branch("PLAYING") /\ ~FinishDue)

\* Mutant of ScoreWait: READY follows a goal in the shoot-out as well.
ScoreWaitReady == "READY"

ScoreWait == IF ShootOut THEN "FINISHED" ELSE "READY"

\* The ball is in the goal at one end of the field.
BallInGoal(end) ==
  LET t == IF end = "right" THEN sideLeft ELSE Other(sideLeft)
  IN  /\ BallTurn
      /\ score[t] < MaxScore
      /\ Send("SCORE", t, ScoreWait, IF ShootOut THEN "touch" ELSE "end")
      /\ UNCHANGED memVars

\* Bound: the team to shoot next has shots left.
ShotLeft ==
  LET kicker == KickerOf(kickOffTeam, leftTeam)
  IN  penaltyShot[IF gameState = "INITIAL" THEN kicker ELSE Other(kicker)] < MaxShots

\* Mutant of BallOut: the next shot is prepared at once.
BallOutNextShot ==
  /\ BallTurn /\ ShootOut /\ ~finishSent /\ ShotLeft
  /\ Send("SET", None, "SET", "touch")
  /\ finishSent' = TRUE
  /\ UNCHANGED <<processed, timer, shots, sideLeft>>

\* The ball is elsewhere out of the field: in a shoot-out that ends the shot.
BallOut ==
  /\ BallTurn /\ ShootOut /\ ~finishSent
  /\ Send("FINISH", None, waitFor, "touch")
  /\ finishSent' = TRUE
  /\ UNCHANGED <<processed, timer, shots, sideLeft>>

\* In a shoot-out the attackers touch the ball after the defenders.
SecondTouch ==
  /\ pc = "touch" \/ BallTurn
  /\ ShootOut /\ ~finishSent
  /\ Send("FINISH", None, waitFor, "end")
  /\ finishSent' = TRUE
  /\ UNCHANGED <<processed, timer, shots, sideLeft>>

BallInPlay ==
  /\ pc = "touch" \/ BallTurn
  /\ Pass /\ Forget
  /\ UNCHANGED <<timer, finishSent, shots, sideLeft>>

\* READY, SET and INITIAL set a deadline and wait for it, iteration by iteration.
EnterReady ==
  /\ Branch("READY") /\ Enter("READY") /\ Pass
  /\ timer' = TRUE
  /\ UNCHANGED <<finishSent, shots, sideLeft>>

EnterSet ==
  /\ Branch("SET") /\ Enter("SET") /\ Pass
  /\ timer' = TRUE /\ finishSent' = FALSE
  /\ UNCHANGED <<shots, sideLeft>>

\* Mutant of Flips: the ends are changed for the second half of each match time only.
FlipsInSecondHalves == view.sec \in {"NORMAL", "OVERTIME"} /\ ~view.first

\* The GameController changes the sides by itself: the referee follows.
Flips == (view.sec = "NORMAL" /\ ~view.first) \/ view.sec = "OVERTIME"

\* Mutant of EnterInitial: the first shot of a shoot-out gets no deadline.
NoDeadlineInShootOut ==
  /\ Branch("INITIAL") /\ Enter("INITIAL") /\ Pass
  /\ timer' = ~ShootOut /\ finishSent' = FALSE
  /\ sideLeft' = IF Flips THEN Other(sideLeft) ELSE sideLeft
  /\ UNCHANGED shots

EnterInitial ==
  /\ Branch("INITIAL") /\ Enter("INITIAL") /\ Pass
  /\ timer' = TRUE /\ finishSent' = FALSE
  /\ sideLeft' = IF Flips THEN Other(sideLeft) ELSE sideLeft
  /\ UNCHANGED shots

StillWaiting ==
  /\ \E s \in {"READY", "SET", "INITIAL", "FINISHED"} : Branch(s) /\ s \in processed
  /\ Pass /\ Forget
  /\ UNCHANGED <<timer, finishSent, shots, sideLeft>>

\* Mutant of PlayState: the name of the command is awaited, which is no state.
PlayCommandName == "PLAY"

PlayState == "PLAYING"

DeadlinePassed ==
  /\ timer /\ timer' = FALSE
  /\ view.state \in processed
  /\ \/ Branch("READY") /\ Send("SET", None, "SET", "end")
     \/ Branch("SET")   /\ Send("PLAY", None, PlayState, "end")
     \/ Branch("INITIAL") /\ ~ShootOut /\ Send("READY", None, "READY", "end")
     \/ Branch("INITIAL") /\ ShootOut /\ ShotLeft /\ Send("SET", None, "SET", "end")
  /\ UNCHANGED <<processed, finishSent, shots, sideLeft>>

----------------------------------------------------------------------------
(* The end of a half, of a match and of a shot.                            *)

EnterFinished == Branch("FINISHED") /\ Enter("FINISHED") /\ UNCHANGED <<timer, finishSent, sideLeft>>

Tie == view.score[Red] = view.score[Blue]

Leave == pc' = "over" /\ UNCHANGED <<vars, netVars, cmdVars, viewVars>>    \* clean_exit

\* Mutant of FirstHalfOver: the team that leads at half time has won.
LeadAtHalfTime ==
  /\ EnterFinished /\ ~ShootOut /\ view.first
  /\ IF Tie THEN Pass ELSE Leave
  /\ UNCHANGED shots

\* The second half follows without a command.
FirstHalfOver ==
  /\ EnterFinished /\ ~ShootOut /\ view.first
  /\ Pass /\ UNCHANGED shots

SecondHalfOver ==
  /\ EnterFinished /\ ~ShootOut /\ ~view.first
  /\ IF ~Tie THEN Leave
     ELSE \/ view.sec = "NORMAL"   /\ Send("OVERTIME-FIRST-HALF", None, waitFor, "end")
          \/ view.sec = "OVERTIME" /\ Send("PENALTY-SHOOTOUT", None, "INITIAL", "end")
  /\ UNCHANGED shots

Stop ==
  LET kicker == KickerOf(view.kick, view.left)
  IN  NeedToStop(shots', view.score[kicker], view.score[Other(kicker)])

ShotOver ==
  /\ EnterFinished /\ ShootOut
  /\ shots' = shots + 1
  /\ IF Stop THEN Leave ELSE ShotLeft /\ Send("SET", None, "SET", "end")

----------------------------------------------------------------------------
(* The specification.                                                      *)

RefereeInit ==
  /\ AutoRefInit /\ matchType \in MatchTypes
  /\ published = Snapshot /\ udp = <<>>
  /\ cmd = NoCommand /\ reply = None
  /\ pc = "start" /\ after = "start"
  /\ view = NoView /\ waitFor = "INITIAL"
  /\ processed = {} /\ timer = FALSE /\ finishSent = FALSE /\ shots = 0
  /\ sideLeft \in Team

Iteration ==
  \/ Top(FALSE) \/ EndIteration
  \/ PlayingTimeUp \/ BallOut \/ SecondTouch \/ BallInPlay \/ (\E end \in {"left", "right"} : BallInGoal(end))
  \/ EnterReady \/ EnterSet \/ EnterInitial \/ StillWaiting
  \/ FirstHalfOver \/ SecondHalfOver \/ ShotOver

Referee == SendSide \/ SendKickOff \/ Answered \/ Waiting \/ Iteration

RefereeNext == Heartbeat \/ Handle \/ Broadcast \/ Referee \/ Top(TRUE) \/ DeadlinePassed

\* Both programs and the Sender keep running; simulated time and real time pass.
RefereeFairness ==
  /\ WF_allVars(Heartbeat) /\ WF_allVars(Handle) /\ WF_allVars(Broadcast) /\ WF_allVars(Referee)
  /\ SF_allVars(Top(TRUE)) /\ SF_allVars(DeadlinePassed)

RefereeSpec == RefereeInit /\ [][RefereeNext]_allVars /\ RefereeFairness

----------------------------------------------------------------------------
(* Properties.                                                             *)

States == {"INITIAL", "READY", "SET", "PLAYING", "FINISHED"}
Places == {"start", "kickoff", "top", "branch", "ball", "touch", "end", "answer", "wait",
           "over", "fatal"}

\* The types of the referee's variables, and the bounds.
RefereeTypeOK ==
  /\ TypeOK
  /\ Len(udp) <= MaxQueue /\ \A i \in 1..Len(udp) : udp[i].state \in States
  /\ reply \in {None, "OK", "ILLEGAL"} /\ cmd.team \in Team \cup {None}
  /\ pc \in Places /\ after \in Places
  /\ view.state \in States \cup {"NONE"} /\ waitFor \in States \cup {None}
  /\ processed \subseteq States
  /\ timer \in BOOLEAN /\ finishSent \in BOOLEAN
  /\ shots \in 0..(2 * MaxShots) /\ sideLeft \in Team

\* Under this referee the GameController goes through a match of AutoRefMatch: sides and
\* kick-off come first and once, and nothing but its clock, its commands and time moves it.
DrivesAutoRef == AutoRefInit /\ [][Next]_vars

\* The invariant behind it: how far the set-up is, command by command.
SetUpDone(command) ==
  CASE command = "SIDE_LEFT" -> "kickoff"
    [] OTHER                 -> "done"

SetUpBefore(command) ==
  CASE command = "SIDE_LEFT" -> "side"
    [] command = "KICKOFF"   -> "kickoff"
    [] OTHER                 -> "done"

SetUpAt(place) ==
  CASE place = "start"   -> "side"
    [] place = "kickoff" -> "kickoff"
    [] OTHER             -> "done"

SetUpInv ==
  /\ cmd = NoCommand <=> pc \notin {"answer", "fatal"}
  /\ pc = "answer" =>
       /\ setUp = IF reply = None THEN SetUpBefore(cmd.op) ELSE SetUpDone(cmd.op)
       /\ SetUpDone(cmd.op) = SetUpAt(after)
       /\ cmd.team \in Team \/ cmd.op \notin {"SIDE_LEFT", "KICKOFF", "SCORE"}
  /\ pc = "wait" => setUp = SetUpAt(after)
  /\ pc \notin {"answer", "wait", "fatal"} => setUp = SetUpAt(pc) /\ reply = None
  /\ pc = "fatal" => reply # None
  /\ pc = "wait" => reply = None
  /\ after \notin {"wait", "answer", "fatal"}
  /\ sideLeft \in Team

\* The referee, which changes the ends by itself when it sees INITIAL, and the
\* GameController, which changes them when a half begins, agree whenever a goal can be
\* given: it goes to the team that plays towards that end, snapshots missed or late.
SidesAgree ==
  (gameState = "PLAYING" /\ view.state = "PLAYING" /\ secGameState # "PENALTYSHOOT")
     => sideLeft = leftTeam

\* No command that the referee chose on a snapshot comes too late, but for goals: an
\* ILLEGAL answer, which ends the referee, is never one to READY, SET, PLAY, FINISH,
\* the overtime or the shoot-out, whatever the clock thread did in the meantime.
OnlyGoalsComeLate == reply = "ILLEGAL" => cmd.op = "SCORE"

\* The referee leaves when the match is over by the GameController's own data, not by a
\* snapshot, with a winner after a second half. (For the shoot-out see FairShootout.)
LeavesWhenOver ==
  pc = "over" =>
    /\ gameState = "FINISHED"
    /\ secGameState # "PENALTYSHOOT" => ~firstHalf /\ score[Red] # score[Blue]

\* The busy wait of the referee for a state always ends: the awaited state is not one that
\* was there before, and is not left before a snapshot of it arrives.
WaitEnds == pc = "wait" ~> pc # "wait"

\* Both programs by themselves bring a match to its end (or to the bound on shots, or
\* to the fatal error of a goal that comes too late).
MatchEnds == <>(pc \in {"over", "fatal"} \/ \E t \in Team : penaltyShot[t] = MaxShots)

\* A goal is a goal ("It's a goal!", referee.py). Refuted: after FINISH the referee waits
\* for no snapshot and goes on with the ball, and the SCORE is answered ILLEGAL.
GoalsAreTaken == ~(cmd.op = "SCORE" /\ reply = "ILLEGAL")

\* The GameController's view of it; ShootOut is the referee's.
InShootOut == secGameState = "PENALTYSHOOT"

\* The shoot-out that the two of them play, after an overtime or from the start, is the fair
\* one: shots in turn, one goal each, counted alike by both, and over exactly when it is decided.
ShootoutPhase ==
  IF ~InShootOut THEN "start" ELSE
  IF pc = "over" THEN "over" ELSE
  CASE gameState = "INITIAL"  -> "start"
    [] gameState = "FINISHED" -> IF shots = penaltyShot[Red] + penaltyShot[Blue]
                                 THEN "counted" ELSE "taken"
    [] OTHER                  -> "shot"

\* Its goals, without those of the match before it.
ShootoutGoals == [t \in Team |-> Ones(singleShots[t])]

Fair == INSTANCE Shootout WITH phase <- ShootoutPhase, kicker <- kickOffTeam,
                               shots <- penaltyShot, goals <- ShootoutGoals

FairShootout == Fair!Spec

----------------------------------------------------------------------------
(* The inductive invariant behind the safety properties: what the referee   *)
(* may still be looking at, and where it can be while the match moves on.   *)

\* The snapshot e is of the present period.
Same(e) == e.sec = secGameState /\ e.first = firstHalf

\* e is of the period that went before the present one.
Before(e) ==
  \/ e.sec = secGameState /\ e.sec # "PENALTYSHOOT" /\ e.first /\ ~firstHalf
  \/ e.sec = "NORMAL"   /\ secGameState = "OVERTIME"     /\ ~e.first /\ firstHalf
  \/ e.sec = "OVERTIME" /\ secGameState = "PENALTYSHOOT" /\ ~e.first /\ ~firstHalf

\* How far behind the match a snapshot can be.
Recent(e) ==
  \/ e.state = "INITIAL"  /\ Same(e) /\ gameState \in {"INITIAL", "READY", "SET"}
  \/ e.state = "READY"    /\ Same(e) /\ gameState \in {"READY", "SET"}
  \/ e.state = "SET"      /\ Same(e) /\ gameState \in {"SET", "PLAYING"}
  \/ e.state = "PLAYING"  /\ Same(e) /\ gameState \in {"PLAYING", "FINISHED"}
  \/ e.state = "PLAYING"  /\ Same(e) /\ gameState \in {"READY", "SET"} /\ ~InShootOut
  \/ e.state = "PLAYING"  /\ Before(e) /\ gameState = "INITIAL" /\ e.first
  \/ e.state = "FINISHED" /\ Same(e) /\ gameState = "FINISHED" /\ e.score = score
  \/ e.state = "FINISHED" /\ Same(e) /\ gameState = "SET" /\ InShootOut
  \/ e.state = "FINISHED" /\ Before(e) /\ gameState = "INITIAL"

\* Snapshot b may follow snapshot a: between them at most what the clock does by itself.
InOrder(a, b) ==
  \/ b.state \in {a.state, gameState}
  \/ <<a.state, b.state>> \in {<<"PLAYING", "FINISHED">>, <<"INITIAL", "READY">>, <<"PLAYING", "READY">>}

\* The packets.
SnapshotType ==
  [state : States, sec : SecStates, first : BOOLEAN, kick : Team \cup {DROPBALL}, left : Team,
   score : [Team -> 0..MaxScore], timeUp : BOOLEAN]

\* What the referee took, what is in the socket and what is broadcast, in this order.
Line ==
  /\ published \in SnapshotType /\ udp \in Seq(SnapshotType) /\ view \in SnapshotType \cup {NoView}
  /\ Recent(published) /\ InOrder(view, published)
  /\ \A i \in 1..Len(udp) : Recent(udp[i]) /\ InOrder(view, udp[i]) /\ InOrder(udp[i], published)
  /\ \A i, j \in 1..Len(udp) : i < j => InOrder(udp[i], udp[j])
  /\ IF view = NoView THEN setUp # "done" ELSE Recent(view)

Pending == {view, published} \cup {udp[i] : i \in 1..Len(udp)}

\* In the shoot-out: of a shot that is over, the referee reads whose it was.
ShooterSeen ==
  InShootOut /\ gameState = "FINISHED" => \A e \in Pending : e.state = "FINISHED" => e.kick = kickOffTeam

\* The periods a match played by these programs goes through.
Periods ==
  /\ secGameState \in {"NORMAL", "OVERTIME", "PENALTYSHOOT"} /\ previousSec = "NORMAL"
  /\ gameState = "READY" => ~InShootOut
  /\ matchType \in MatchTypes
  /\ secGameState # "NORMAL" => PlayOff

\* In the loop: what it sees is what the next snapshots can still overtake.
Idle ==
  /\ waitFor = None
  /\ \/ view.state = "INITIAL"  /\ gameState = "INITIAL"
     \/ view.state = "READY"
     \/ view.state = "SET"      /\ gameState = "SET"
     \/ view.state = "PLAYING"  /\ ~finishSent /\ gameState = "PLAYING"
     \/ view.state = "PLAYING"  /\ finishSent /\ gameState \in {"FINISHED", "INITIAL"}
     \/ view.state = "FINISHED" /\ gameState \in {"FINISHED", "INITIAL"}

\* In a wait: the match is in the awaited state, or was.
Waits ==
  \/ /\ waitFor = "READY" /\ view.state \in {"INITIAL", "PLAYING", "SET"}
     /\ gameState \in {"READY", "SET"} /\ ~InShootOut /\ (finishSent => "SET" \notin processed)
  \/ /\ waitFor = "SET" /\ view.state \in {"READY", "INITIAL", "FINISHED"}
     /\ gameState = "SET" /\ "SET" \notin processed
  \/ /\ waitFor = "PLAYING" /\ view.state = "SET"
     /\ gameState = "PLAYING" /\ ~finishSent /\ "SET" \in processed
  \/ waitFor = "FINISHED" /\ view.state = "PLAYING"  /\ gameState = "FINISHED" /\ InShootOut
  \/ waitFor = "INITIAL"  /\ view.state = "FINISHED" /\ gameState = "INITIAL"  /\ InShootOut
  \/ waitFor = "INITIAL"  /\ view = NoView

\* A command not yet handled is still legal, a goal excepted.
UnderWay ==
  \/ cmd.op = "SIDE_LEFT" /\ cmd.team = sideLeft /\ view = NoView /\ waitFor = "INITIAL"
  \/ cmd.op = "KICKOFF"   /\ view.state = "INITIAL" /\ waitFor = None
  \/ /\ cmd.op = "READY" /\ view.state = "INITIAL" /\ waitFor = "READY"
     /\ gameState = "INITIAL" /\ ~InShootOut /\ "INITIAL" \in processed
  \/ /\ cmd.op = "SET" /\ view.state = "READY" /\ waitFor = "SET"
     /\ gameState \in {"READY", "SET"} /\ "READY" \in processed
  \/ /\ cmd.op = "SET" /\ view.state \in {"INITIAL", "FINISHED"} /\ waitFor = "SET"
     /\ gameState = view.state /\ InShootOut /\ view.state \in processed
  \/ /\ cmd.op = "PLAY" /\ view.state = "SET" /\ waitFor = "PLAYING"
     /\ gameState = "SET" /\ ~finishSent /\ "SET" \in processed
  \/ /\ cmd.op = "FINISH" /\ waitFor = None /\ finishSent /\ gameState = view.state
     /\ view.state = "PLAYING" \/ (view.state = "FINISHED" /\ InShootOut)
  \/ /\ cmd.op = "OVERTIME-FIRST-HALF" /\ view.state = "FINISHED" /\ waitFor = None
     /\ gameState = "FINISHED" /\ secGameState = "NORMAL" /\ ~firstHalf
     /\ (PlayOff => OvertimeLegal) /\ "FINISHED" \in processed
  \/ /\ cmd.op = "PENALTY-SHOOTOUT" /\ view.state = "FINISHED" /\ waitFor = "INITIAL"
     /\ PenaltyShootLegal /\ secGameState = "OVERTIME" /\ "FINISHED" \in processed
     /\ score[Red] = score[Blue]
  \/ /\ cmd.op = "SCORE" /\ view.state = "PLAYING"
     /\ waitFor = IF view.sec = "PENALTYSHOOT" THEN "FINISHED" ELSE "READY"
     /\ IF finishSent THEN gameState \in {"FINISHED", "INITIAL"} ELSE gameState = "PLAYING"

\* The places without a command under way.
Loop == {"top", "branch", "ball", "touch", "end"}

\* Where it goes on after the command.
Resumes ==
  /\ after \in {"kickoff", "top", "ball", "touch", "end"}
  /\ after = "kickoff" => view = NoView
  /\ after = "top"     => processed = {}
  /\ after = "ball"    => view.state = "PLAYING" /\ finishSent /\ waitFor = None
  /\ after = "touch"   => waitFor = "FINISHED" \/ (finishSent /\ waitFor = None)

\* What holds at each place.
Place ==
  /\ pc = "start"   => view = NoView /\ waitFor = "INITIAL"
  /\ pc = "kickoff" => view.state = "INITIAL" /\ waitFor = None
  /\ pc \in Loop    => Idle
  /\ pc = "ball"    => view.state = "PLAYING" /\ finishSent
  /\ pc = "touch"   => finishSent \/ (view.state = "FINISHED" /\ gameState = "FINISHED" /\ InShootOut)
  /\ pc = "answer"  => Resumes /\ IF reply = None THEN UnderWay ELSE reply = "OK" => Idle \/ Waits
  /\ pc = "wait"    => Resumes /\ Waits

\* What is done once for a state has not been done for the next one, and is not lost
\* before the match leaves the state.
Once ==
  /\ \A s, t \in processed : s = t
  /\ pc = "top" => processed \subseteq {view.state}
  /\ setUp # "done" => processed = {}
  /\ view.state = "PLAYING" => "FINISHED" \notin processed
  /\ view.state = "SET" /\ "SET" \in processed => ~finishSent
  /\ view.state = "INITIAL" /\ gameState # "INITIAL" => "INITIAL" \in processed
  /\ view.state = "FINISHED" /\ (view.sec = "PENALTYSHOOT" \/ ~view.first) /\ gameState # "FINISHED"
       => "FINISHED" \in processed

\* The match has changed the ends and the referee not yet.
FlipPending ==
  \/ view # NoView /\ Before(view)
  \/ view.state = "INITIAL" /\ "INITIAL" \notin processed /\ Flips

\* The end of each team, as the referee has it, and as the GameController has it.
Sides == setUp # "side" /\ ~InShootOut => sideLeft = IF FlipPending THEN Other(leftTeam) ELSE leftTeam

\* The shot that the referee has not counted yet.
OpenShot == IF gameState = "FINISHED" /\ view.state = "FINISHED" /\ "FINISHED" \in processed THEN 0 ELSE 1

\* The referee's count of the shots and the GameController's.
Counted ==
  /\ penaltyShot \in [Team -> 0..MaxShots] /\ shots \in Nat
  /\ IF ~InShootOut \/ gameState = "INITIAL"
     THEN shots = 0 /\ \A t \in Team : penaltyShot[t] = 0
     ELSE penaltyShot[Red] + penaltyShot[Blue] = shots + OpenShot

\* Goals may come too late; and a NORMAL match that is tied has no extra time.
LateCommands ==
  reply = "ILLEGAL" => cmd.op = "SCORE" \/ (cmd.op = "OVERTIME-FIRST-HALF" /\ ~PlayOff)

\* The inductive invariant.
RefereeInv == RefereeTypeOK /\ Periods /\ Line /\ Place /\ Once /\ Sides /\ Counted
              /\ LateCommands /\ LeavesWhenOver

============================================================================
