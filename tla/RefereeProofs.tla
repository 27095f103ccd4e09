--------------------------- MODULE RefereeProofs ---------------------------
(***************************************************************************)
(* The referee keeps to the matches of AutoRefMatch: whatever it saw, each *)
(* step of the two programs is a step of AutoRefMatch or none, so that     *)
(* what AutoRefProofs proves of those holds with this referee. And the two *)
(* never lose each other (RefereeInv), late snapshots or not.              *)
(***************************************************************************)
EXTENDS RefereeMatch, AutoRefProofs, FiniteSetTheorems

USE DEF cmdVars, viewVars, memVars, refVars, netVars, allVars

DriveInv == MatchInv /\ SetUpInv

\* A command is sent from a place where the set-up is as far as the command needs.
LEMMA SendKeeps ==
  ASSUME SetUpInv, NEW op, NEW team, NEW wait, NEW next,
         Send(op, team, wait, next), sideLeft' \in Team,
         op # "NONE", next \notin {"wait", "answer", "fatal"},
         pc \notin {"answer", "wait", "fatal"},
         SetUpBefore(op) = SetUpAt(pc), SetUpDone(op) = SetUpAt(next),
         team \in Team \/ op \notin {"SIDE_LEFT", "KICKOFF", "SCORE"}
  PROVE  SetUpInv' /\ UNCHANGED vars
<1>1. cmd' # NoCommand
  BY DEF Send, NoCommand
<1>2. reply' = None /\ setUp' = setUp
  BY DEF Send, SetUpInv, vars
<1> QED
  BY <1>1, <1>2 DEF Send, SetUpInv

\* A step that stays within the loop and sends nothing.
LEMMA LoopKeeps ==
  ASSUME SetUpInv, pc \in {"top", "branch", "ball", "touch", "end"},
         pc' \in {"top", "branch", "ball", "touch", "end", "over"},
         UNCHANGED <<setUp, cmdVars>>, sideLeft' \in Team
  PROVE  SetUpInv'
BY DEF SetUpInv, SetUpAt

\* The set-up commands (referee.py, 1161-1177).
LEMMA SetUpKeepsDrive ==
  ASSUME SetUpInv, SendSide \/ SendKickOff
  PROVE  SetUpInv' /\ UNCHANGED vars
<1>1. CASE SendSide
  <2>1. Send("SIDE_LEFT", sideLeft, waitFor, "kickoff") /\ pc = "start" /\ sideLeft' \in Team
    BY <1>1 DEF SendSide, SetUpInv
  <2>2. /\ SetUpBefore("SIDE_LEFT") = SetUpAt("start") /\ SetUpDone("SIDE_LEFT") = SetUpAt("kickoff")
        /\ sideLeft \in Team
    BY DEF SetUpBefore, SetUpDone, SetUpAt, SetUpInv
  <2> QED
    BY <2>1, <2>2, SendKeeps
<1>2. CASE SendKickOff
  <2>1. PICK t \in Team : Send("KICKOFF", t, None, "top")
    BY <1>2 DEF SendKickOff
  <2>2. pc = "kickoff" /\ sideLeft' \in Team
    BY <1>2 DEF SendKickOff, SetUpInv
  <2>3. SetUpBefore("KICKOFF") = SetUpAt("kickoff") /\ SetUpDone("KICKOFF") = SetUpAt("top")
    BY DEF SetUpBefore, SetUpDone, SetUpAt
  <2> QED
    BY <2>1, <2>2, <2>3, SendKeeps
<1> QED
  BY <1>1, <1>2

\* Answers and waits (game_controller_send).
LEMMA AnswerKeeps ==
  ASSUME SetUpInv, Answered \/ Waiting
  PROVE  SetUpInv' /\ UNCHANGED vars
<1>1. CASE Answered
  <2>1. UNCHANGED <<setUp, after, sideLeft>> /\ setUp = SetUpAt(after) /\ reply # None
    BY <1>1 DEF Answered, SetUpInv, vars
  <2>2. CASE reply = "ILLEGAL"
    BY <1>1, <2>1, <2>2 DEF Answered, SetUpInv
  <2>3. CASE reply # "ILLEGAL"
    BY <1>1, <2>1, <2>3 DEF Answered, SetUpInv
  <2> QED
    BY <1>1, <2>2, <2>3 DEF Answered
<1>2. CASE Waiting
  <2>1. UNCHANGED <<setUp, cmdVars, sideLeft>> /\ UNCHANGED vars /\ pc' \in {after, "wait"}
    BY <1>2 DEF Waiting, vars
  <2> QED
    BY <1>2, <2>1 DEF Waiting, SetUpInv
<1> QED
  BY <1>1, <1>2

\* The commands of the main loop need a finished set-up, and leave it finished.
LEMMA LoopSends ==
  ASSUME SetUpInv, NEW op, NEW team, NEW wait, NEW next \in {"top", "ball", "touch", "end"},
         Send(op, team, wait, next), UNCHANGED sideLeft,
         pc \in {"top", "branch", "ball", "touch", "end"},
         op \in {"READY", "SET", "PLAY", "FINISH", "OVERTIME-FIRST-HALF", "PENALTY-SHOOTOUT", "SCORE"},
         team \in Team \/ op # "SCORE"
  PROVE  SetUpInv' /\ UNCHANGED vars
<1>1. SetUpBefore(op) = SetUpAt(pc) /\ SetUpDone(op) = SetUpAt(next)
  BY DEF SetUpBefore, SetUpDone, SetUpAt
<1>2. sideLeft' \in Team
  BY DEF SetUpInv
<1> QED
  BY <1>1, <1>2, SendKeeps

\* The main loop, in play.
LEMMA PlayKeeps ==
  ASSUME SetUpInv,
         \/ PlayingTimeUp \/ BallOut \/ SecondTouch \/ BallInPlay
         \/ \E end \in {"left", "right"} : BallInGoal(end)
  PROVE  SetUpInv' /\ UNCHANGED vars
<1> USE DEF Branch, BallTurn, Pass
<1>1. CASE PlayingTimeUp
  BY <1>1, LoopSends DEF PlayingTimeUp, FinishDue
<1>2. CASE BallOut
  BY <1>2, LoopSends DEF BallOut
<1>3. CASE SecondTouch
  BY <1>3, LoopSends DEF SecondTouch
<1>4. CASE BallInPlay
  <2>1. sideLeft' \in Team
    BY <1>4 DEF BallInPlay, SetUpInv
  <2> QED
    BY <1>4, <2>1, LoopKeeps DEF BallInPlay, vars
<1>5. ASSUME NEW end \in {"left", "right"}, BallInGoal(end)
      PROVE  SetUpInv' /\ UNCHANGED vars
  <2> DEFINE t == IF end = "right" THEN sideLeft ELSE Other(sideLeft)
             next == IF ShootOut THEN "touch" ELSE "end"
  <2>1. t \in Team /\ next \in {"top", "ball", "touch", "end"}
    BY TeamFacts DEF SetUpInv
  <2>2. Send("SCORE", t, ScoreWait, next) /\ UNCHANGED sideLeft
    BY <1>5 DEF BallInGoal
  <2>3. pc \in {"top", "branch", "ball", "touch", "end"}
    BY <1>5 DEF BallInGoal
  <2> QED
    BY <2>1, <2>2, <2>3, LoopSends
<1> QED
  BY <1>1, <1>2, <1>3, <1>4, <1>5

\* The main loop, in the other states.
LEMMA StopKeeps ==
  ASSUME SetUpInv,
         \/ EnterReady \/ EnterSet \/ EnterInitial \/ StillWaiting \/ EndIteration
         \/ DeadlinePassed \/ FirstHalfOver \/ SecondHalfOver \/ ShotOver
  PROVE  SetUpInv' /\ UNCHANGED vars
<1> USE DEF Branch, Pass, Leave, vars
<1>1. CASE EnterReady \/ EnterSet \/ EnterInitial \/ StillWaiting \/ EndIteration \/ FirstHalfOver
  <2>1. sideLeft' \in Team
    BY <1>1, TeamFacts DEF EnterReady, EnterSet, EnterInitial, StillWaiting, EndIteration,
                           FirstHalfOver, EnterFinished, SetUpInv
  <2> QED
    BY <1>1, <2>1, LoopKeeps DEF EnterReady, EnterSet, EnterInitial, StillWaiting, EndIteration,
                                 FirstHalfOver, EnterFinished
<1>2. CASE DeadlinePassed
  BY <1>2, LoopSends DEF DeadlinePassed
<1>3. CASE Leave /\ pc = "branch" /\ UNCHANGED sideLeft
  <2>1. sideLeft' \in Team
    BY <1>3 DEF SetUpInv
  <2> QED
    BY <1>3, <2>1, LoopKeeps
<1>4. CASE SecondHalfOver /\ ~Leave
  BY <1>4, LoopSends DEF SecondHalfOver, EnterFinished
<1>5. CASE ShotOver /\ ~Leave
  BY <1>5, LoopSends DEF ShotOver, EnterFinished
<1> QED
  BY <1>1, <1>2, <1>3, <1>4, <1>5 DEF SecondHalfOver, ShotOver, EnterFinished

\* Time passes for both programs at the top of the loop only.
LEMMA TopKeeps ==
  ASSUME SetUpInv, NEW tick \in BOOLEAN, Top(tick)
  PROVE  SetUpInv' /\ (UNCHANGED vars \/ (Tick /\ UNCHANGED <<setUp, halfKickOff>>))
<1>1. sideLeft' \in Team
  BY DEF Top, SetUpInv
<1>2. UNCHANGED setUp
  BY DEF Top, vars
<1> QED
  BY <1>1, <1>2, LoopKeeps DEF Top

----------------------------------------------------------------------------
\* The GameController: its clock acts only when the set-up is over.
LEMMA HeartbeatKeeps ==
  ASSUME DriveInv, Heartbeat
  PROVE  SetUpInv' /\ [Next]_vars
<1>1. CASE TickDue
  <2>1. ClockTick /\ Run
    BY <1>1 DEF Heartbeat
  <2> QED
    BY <2>1 DEF Heartbeat, Next, Run, DriveInv, SetUpInv
<1>2. CASE ~TickDue
  BY <1>2 DEF Heartbeat, DriveInv, SetUpInv, vars
<1> QED
  BY <1>1, <1>2

\* Every command it obeys is one of AutoRefMatch, the set-up commands first.
LEMMA HandleKeeps ==
  ASSUME DriveInv, Handle
  PROVE  SetUpInv' /\ [Next]_vars
<1>1. pc = "answer" /\ reply = None /\ reply' \in {"OK", "ILLEGAL"} /\ setUp = SetUpBefore(cmd.op)
  BY DEF Handle, DriveInv, SetUpInv
<1>2. UNCHANGED <<pc, cmd, after, sideLeft>> /\ reply' # None
  BY <1>1, RefereeConstants DEF Handle
<1>3. CASE cmd.op = "SIDE_LEFT"
  <2>1. setUp = "side" /\ setUp' = "kickoff" /\ UNCHANGED halfKickOff /\ SideLeft(cmd.team)
    BY <1>1, <1>3 DEF Handle, SetUpBefore
  <2>2. cmd.team \in Team /\ SetUpDone(cmd.op) = "kickoff"
    BY <1>1, <1>3 DEF DriveInv, SetUpInv, SetUpDone
  <2> QED
    BY <1>1, <1>2, <2>1, <2>2 DEF DriveInv, SetUpInv, Next, SetUpCommand
<1>4. CASE cmd.op = "KICKOFF"
  <2>1. setUp = "kickoff" /\ setUp' = "done" /\ UNCHANGED halfKickOff /\ KickOffCommand(cmd.team)
    BY <1>1, <1>4 DEF Handle, SetUpBefore
  <2>2. cmd.team \in Team /\ SetUpDone(cmd.op) = "done"
    BY <1>1, <1>4 DEF DriveInv, SetUpInv, SetUpDone
  <2> QED
    BY <1>1, <1>2, <2>1, <2>2 DEF DriveInv, SetUpInv, Next, SetUpCommand
<1>5. CASE cmd.op \notin {"SIDE_LEFT", "KICKOFF"}
  <2>1. setUp = "done" /\ UNCHANGED setUp /\ SetUpDone(cmd.op) = "done"
    BY <1>1, <1>5 DEF Handle, SetUpBefore, SetUpDone, vars
  <2>2. UNCHANGED vars \/ (Obey(cmd) /\ Record)
    BY <1>5 DEF Handle
  <2>3. cmd.team \in Team \/ cmd.op # "SCORE"
    BY <1>1 DEF DriveInv, SetUpInv
  <2>4. Obey(cmd) => MatchCommand
    BY <2>3 DEF Obey, MatchCommand
  <2>5. SetUpInv'
    BY <1>1, <1>2, <2>1 DEF DriveInv, SetUpInv
  <2> QED
    BY <2>1, <2>2, <2>4, <2>5 DEF Next, Run
<1> QED
  BY <1>3, <1>4, <1>5

\* Each step keeps the set-up in order and is a step of AutoRefMatch, or none of it.
LEMMA StepDrives ==
  ASSUME DriveInv, [RefereeNext]_allVars
  PROVE  DriveInv' /\ [Next]_vars
<1>1. SetUpInv' /\ [Next]_vars
  <2>1. CASE Heartbeat
    BY <2>1, HeartbeatKeeps
  <2>2. CASE Handle
    BY <2>2, HandleKeeps
  <2>3. CASE Broadcast \/ UNCHANGED allVars
    BY <2>3 DEF Broadcast, DriveInv, SetUpInv, vars
  <2>4. CASE SendSide \/ SendKickOff
    BY <2>4, SetUpKeepsDrive DEF DriveInv
  <2>5. CASE Answered \/ Waiting
    BY <2>5, AnswerKeeps DEF DriveInv
  <2>6. CASE \E tick \in BOOLEAN : Top(tick)
    BY <2>6, TopKeeps DEF DriveInv, Next
  <2>7. CASE \/ PlayingTimeUp \/ BallOut \/ SecondTouch \/ BallInPlay
             \/ \E end \in {"left", "right"} : BallInGoal(end)
    BY <2>7, PlayKeeps DEF DriveInv
  <2>8. CASE \/ EnterReady \/ EnterSet \/ EnterInitial \/ StillWaiting \/ EndIteration
             \/ DeadlinePassed \/ FirstHalfOver \/ SecondHalfOver \/ ShotOver
    BY <2>8, StopKeeps DEF DriveInv
  <2> QED
    BY <2>1, <2>2, <2>3, <2>4, <2>5, <2>6, <2>7, <2>8 DEF RefereeNext, Referee, Iteration
<1>2. MatchInv'
  BY <1>1, NextKeeps DEF DriveInv
<1> QED
  BY <1>1, <1>2 DEF DriveInv

\* The program starts with nothing sent.
LEMMA RefereeStarts == RefereeInit => DriveInv
<1>1. RefereeInit => MatchInv
  BY Initially DEF RefereeInit
<1>2. RefereeInit => SetUpInv
  BY DEF RefereeInit, AutoRefInit, SetUpInv, SetUpAt
<1> QED
  BY <1>1, <1>2 DEF DriveInv

\* With this referee the GameController plays a match of AutoRefMatch, sides and kick-off
\* first and once (referee.py 1161-1177): the property DrivesAutoRef.
THEOREM RefereeDrives == RefereeSpec => DrivesAutoRef
<1>1. DriveInv /\ [RefereeNext]_allVars => DriveInv' /\ [Next]_vars
  BY StepDrives
<1>2. RefereeInit => AutoRefInit
  BY DEF RefereeInit
<1> QED
  BY RefereeStarts, <1>1, <1>2, PTL DEF RefereeSpec, DrivesAutoRef

\* So the invariants of AutoRefMatch, among them SetPieceFreezesClock, hold with it.
THEOREM RefereeSafe == RefereeSpec => [](MatchInv /\ SetUpInv)
<1>1. DriveInv /\ [RefereeNext]_allVars => DriveInv'
  BY StepDrives
<1>2. DriveInv => MatchInv /\ SetUpInv
  BY DEF DriveInv
<1> QED
  BY RefereeStarts, <1>1, <1>2, PTL DEF RefereeSpec

----------------------------------------------------------------------------
(* The line of snapshots, from the match to the referee.                   *)

USE DEF gameVars, secVars, endVars, kickVars, shotVars, outVars, pauseVars, stateVars

\* A snapshot has a state of the match, which the referee's first view has not.
LEMMA SnapshotFacts ==
  ASSUME NEW e \in SnapshotType
  PROVE  e.state \in States /\ e.first \in BOOLEAN /\ e # NoView
BY DEF SnapshotType, States, NoView

\* The present data of the match make a snapshot, and a recent one.
LEMMA SnapshotNow ==
  ASSUME TypeOK, Periods
  PROVE  Snapshot \in SnapshotType /\ Recent(Snapshot) /\ Same(Snapshot) /\ Snapshot.state = gameState
<1>1. (gameState = "PLAYING" /\ TimePlayed = HalfTime) \in BOOLEAN
  OBVIOUS
<1>2. Snapshot \in SnapshotType
  BY <1>1 DEF TypeOK, GameTypeOK, Snapshot, SnapshotType, States
<1>3. Same(Snapshot) /\ Snapshot.state = gameState /\ Snapshot.score = score
  BY DEF Snapshot, Same
<1>4. Recent(Snapshot)
  BY <1>3 DEF TypeOK, GameTypeOK, Recent, Periods
<1> QED
  BY <1>2, <1>3, <1>4

\* What counts as recent and in order is a matter of the match alone.
LEMMA MatchStays ==
  ASSUME UNCHANGED <<gameState, secGameState, firstHalf, score>>
  PROVE  /\ \A e : Recent(e)' <=> Recent(e)
         /\ \A a, b : InOrder(a, b)' <=> InOrder(a, b)
BY DEF Recent, InOrder, Same, Before, InShootOut

\* Nothing of the line moves unless the match, the socket or the view does.
LEMMA LineStays ==
  ASSUME Line, UNCHANGED <<vars, netVars, view>>
  PROVE  Line'
<1>1. UNCHANGED <<gameState, secGameState, firstHalf, score, setUp, published, udp, view>>
  BY DEF vars
<1> QED
  BY <1>1, MatchStays DEF Line

\* One more packet in the socket.
LEMMA LineGrows ==
  ASSUME Line, Broadcast
  PROVE  Line'
<1>1. udp' = Append(udp, published) /\ UNCHANGED <<vars, published, view>>
  BY DEF Broadcast
<1>2. udp' \in Seq(SnapshotType) /\ Len(udp') = Len(udp) + 1 /\ Len(udp) \in Nat
  BY <1>1 DEF Line
<1>3. \A i \in 1..Len(udp') : udp'[i] = IF i = Len(udp') THEN published ELSE udp[i]
  BY <1>1, <1>2 DEF Line
<1>4. \A i \in 1..Len(udp') : Recent(udp'[i]) /\ InOrder(view, udp'[i]) /\ InOrder(udp'[i], published)
  BY <1>2, <1>3 DEF Line, InOrder
<1>5. \A i, j \in 1..Len(udp') : i < j => InOrder(udp'[i], udp'[j])
  BY <1>2, <1>3 DEF Line
<1> QED
  BY <1>1, <1>2, <1>4, <1>5, MatchStays DEF Line, vars

\* The next snapshot is taken.
LEMMA LineTaken ==
  ASSUME Line, udp # <<>>, TakeSnapshot, UNCHANGED <<published, gameState, secGameState, firstHalf, score>>
  PROVE  Line' /\ view' \in SnapshotType /\ view' # NoView /\ Recent(view') /\ InOrder(view, view')
<1>1. udp \in Seq(SnapshotType) /\ Len(udp) \in Nat \ {0}
  BY DEF Line
<1>2. view' = udp[1] /\ udp' \in Seq(SnapshotType) /\ Len(udp') = Len(udp) - 1
  BY <1>1 DEF TakeSnapshot
<1>3. \A i \in 1..Len(udp') : udp'[i] = udp[i + 1]
  BY <1>1 DEF TakeSnapshot
<1>4. view' \in SnapshotType /\ Recent(view') /\ InOrder(view, view') /\ InOrder(view', published)
  BY <1>1, <1>2 DEF Line
<1>5. view' # NoView
  BY <1>4, SnapshotFacts
<1>6. \A i \in 1..Len(udp') : Recent(udp'[i]) /\ InOrder(view', udp'[i]) /\ InOrder(udp'[i], published)
  BY <1>1, <1>2, <1>3 DEF Line
<1>7. \A i, j \in 1..Len(udp') : i < j => InOrder(udp'[i], udp'[j])
  <2> TAKE i, j \in 1..Len(udp')
  <2> HAVE i < j
  <2>1. i + 1 \in 1..Len(udp) /\ j + 1 \in 1..Len(udp) /\ i + 1 < j + 1
    BY <1>1, <1>2
  <2> QED
    BY <1>3, <2>1 DEF Line
<1> QED
  BY <1>2, <1>4, <1>5, <1>6, <1>7, MatchStays DEF Line

----------------------------------------------------------------------------
(* The steps of the referee that take no snapshot.                         *)

Core == Periods /\ Line /\ Place /\ Once /\ Sides /\ Counted

\* What the referee sees in its loop, and how far the match can be.
LEMMA LoopSees ==
  ASSUME DriveInv, Line, Place, pc \in Loop
  PROVE  /\ setUp = "done" /\ reply = None /\ cmd = NoCommand /\ waitFor = None /\ Idle
         /\ view \in SnapshotType /\ view # NoView /\ Recent(view)
         /\ view.state = "INITIAL"  => gameState = "INITIAL" /\ Same(view)
         /\ view.state = "READY"    => gameState \in {"READY", "SET"} /\ Same(view)
         /\ view.state = "SET"      => gameState = "SET" /\ Same(view)
         /\ view.state = "PLAYING"  => IF finishSent THEN gameState \in {"FINISHED", "INITIAL"}
                                                     ELSE gameState = "PLAYING" /\ Same(view)
         /\ view.state = "FINISHED" => \/ gameState = "FINISHED" /\ Same(view) /\ view.score = score
                                       \/ gameState = "INITIAL" /\ Before(view)
<1>1. setUp = "done" /\ reply = None /\ cmd = NoCommand /\ Idle
  BY DEF DriveInv, SetUpInv, SetUpAt, Loop, Place
<1>2. view \in SnapshotType /\ view # NoView /\ Recent(view)
  BY <1>1 DEF Line
<1> QED
  BY <1>1, <1>2 DEF Idle, Recent

\* What a step of the referee does with its memory of the states.
Remembers ==
  /\ \/ processed' \in {processed, processed \cap {view.state}}
     \/ processed' = {view.state} /\ setUp = "done"
  /\ pc' = "top" => processed' \subseteq {view.state}
  /\ view.state = "SET" =>
       ~finishSent' \/ (finishSent' = finishSent /\ ("SET" \in processed' => "SET" \in processed))

\* Then nothing is done twice or lost.
LEMMA OnceStays ==
  ASSUME Once, UNCHANGED <<vars, view>>, Remembers
  PROVE  Once'
BY DEF Once, Remembers, vars

\* The ends change hands only when INITIAL is entered.
LEMMA SidesStay ==
  ASSUME Sides, UNCHANGED <<vars, view, sideLeft>>,
         view.state = "INITIAL" => ("INITIAL" \in processed <=> "INITIAL" \in processed')
  PROVE  Sides'
BY DEF Sides, FlipPending, Flips, Before, InShootOut, vars

\* And shots are counted only when FINISHED is entered.
LEMMA CountedStays ==
  ASSUME Counted, UNCHANGED <<vars, view, shots>>,
         view.state = "FINISHED" => ("FINISHED" \in processed <=> "FINISHED" \in processed')
  PROVE  Counted'
BY DEF Counted, OpenShot, InShootOut, vars

\* The referee's side of a step that leaves the match and the view alone.
LEMMA CoreStays ==
  ASSUME Core, UNCHANGED <<vars, netVars, view, sideLeft, shots>>, Remembers, Place',
         view.state \in {"INITIAL", "FINISHED"} => (view.state \in processed <=> view.state \in processed')
  PROVE  Core'
<1>1. Periods'
  BY DEF Core, Periods, InShootOut, PlayOff, vars
<1> QED
  BY <1>1, LineStays, OnceStays, SidesStay, CountedStays DEF Core

\* Sending puts the referee where the answer comes in.
LEMMA PlaceSent ==
  ASSUME DriveInv, NEW op, NEW team, NEW wait, NEW next, Send(op, team, wait, next),
         pc \notin {"answer", "wait", "fatal"}, UnderWay', Resumes'
  PROVE  Place'
BY DEF DriveInv, SetUpInv, Send, Place, Loop

\* The next iteration.
LEMMA PlaceTop == ASSUME pc' = "top", Idle' PROVE Place'
BY DEF Place, Loop

\* The set-up commands.
LEMMA SetUpCore ==
  ASSUME DriveInv, Core, SendSide \/ SendKickOff
  PROVE  Core'
<1>1. UNCHANGED <<vars, netVars, view, sideLeft, shots, processed, finishSent>> /\ pc' = "answer"
  BY DEF SendSide, SendKickOff, Send
<1>2. Remembers
  BY <1>1 DEF Remembers
<1>3. Place'
  <2>1. CASE SendSide
    <3>1. Send("SIDE_LEFT", sideLeft, waitFor, "kickoff") /\ pc = "start"
      BY <2>1 DEF SendSide
    <3>2. view = NoView /\ waitFor = "INITIAL"
      BY <3>1 DEF Core, Place
    <3>3. UnderWay'
      BY <1>1, <3>1, <3>2 DEF UnderWay, Send, NoView
    <3>4. Resumes'
      BY <1>1, <3>1, <3>2 DEF Resumes, Send, NoView
    <3> QED
      BY <3>1, <3>3, <3>4, PlaceSent
  <2>2. CASE SendKickOff
    <3>1. PICK t \in Team : Send("KICKOFF", t, None, "top")
      BY <2>2 DEF SendKickOff
    <3>2. pc = "kickoff" /\ view.state = "INITIAL" /\ processed = {}
      BY <2>2 DEF SendKickOff, Core, Place, Once, DriveInv, SetUpInv, SetUpAt
    <3>3. UnderWay'
      BY <1>1, <3>1, <3>2 DEF UnderWay, Send
    <3>4. Resumes'
      BY <1>1, <3>1, <3>2 DEF Resumes, Send
    <3> QED
      BY <3>1, <3>2, <3>3, <3>4, PlaceSent
  <2> QED
    BY <2>1, <2>2
<1> QED
  BY <1>1, <1>2, <1>3, CoreStays

\* An answer lets the referee go on or wait.
LEMMA AnswerCore ==
  ASSUME DriveInv, RefereeTypeOK, Core, Answered
  PROVE  Core'
<1>1. UNCHANGED <<vars, netVars, view, sideLeft, shots, processed, finishSent, waitFor, after>>
      /\ pc = "answer" /\ reply # None
  BY DEF Answered
<1>2. Resumes /\ (reply = "OK" => Idle \/ Waits)
  BY <1>1 DEF Core, Place
<1>3. pc' = "top" => processed' \subseteq {view.state}
  BY <1>1, <1>2 DEF Answered, Resumes
<1>4. Remembers
  BY <1>1, <1>3 DEF Remembers
<1>5. Place'
  <2>1. CASE reply = "ILLEGAL"
    BY <2>1 DEF Answered, Place, Loop
  <2>2. CASE reply # "ILLEGAL"
    <3>1. Idle \/ Waits
      BY <1>1, <1>2, <2>2 DEF RefereeTypeOK
    <3>2. CASE Idle
      <4>1. pc' = after /\ Idle' /\ waitFor = None
        BY <1>1, <2>2, <3>2 DEF Answered, Idle, vars
      <4>2. after \in {"top", "ball", "touch", "end"}
        BY <1>2, <3>2 DEF Resumes, Idle, NoView
      <4>3. /\ after = "ball" => view'.state = "PLAYING" /\ finishSent'
            /\ after = "touch" => finishSent'
        BY <1>1, <1>2, <4>1, RefereeConstants DEF Resumes
      <4> QED
        BY <4>1, <4>2, <4>3 DEF Place, Loop
    <3>3. CASE Waits
      <4>1. waitFor # None
        BY <3>3, RefereeConstants DEF Waits
      <4>2. pc' = "wait" /\ Waits' /\ Resumes'
        BY <1>1, <1>2, <2>2, <3>3, <4>1 DEF Answered, Waits, Resumes, InShootOut, vars
      <4> QED
        BY <4>2 DEF Place, Loop
    <3> QED
      BY <3>1, <3>2, <3>3
  <2> QED
    BY <2>1, <2>2
<1> QED
  BY <1>1, <1>4, <1>5, CoreStays

\* In the loop: the ends of an iteration.
LEMMA QuietCore ==
  ASSUME DriveInv, Core,
         \/ EndIteration \/ BallInPlay \/ StillWaiting \/ EnterReady \/ EnterSet \/ FirstHalfOver
  PROVE  Core'
<1> USE DEF EndIteration, BallInPlay, StillWaiting, EnterReady, EnterSet, FirstHalfOver, EnterFinished,
            Pass, Forget, Enter, Branch, BallTurn
<1>1. /\ UNCHANGED <<vars, netVars, view, waitFor, sideLeft>> /\ pc \in Loop /\ pc' = "top"
      /\ finishSent' \in {finishSent, FALSE} /\ (finishSent' # finishSent => view.state = "SET")
  BY DEF Loop
<1>2. setUp = "done" /\ Idle /\ waitFor = None
  BY <1>1, LoopSees DEF Core
<1>3. processed' \in {processed \cap {view.state}, {view.state}}
  OBVIOUS
<1>4. Remembers
  BY <1>2, <1>3 DEF Remembers
<1>5. Idle'
  BY <1>1, <1>2 DEF Idle, vars
<1>6. Place'
  BY <1>1, <1>5, PlaceTop
<1>7. CASE ~FirstHalfOver
  <2>1. shots' = shots
    BY <1>7
  <2>2. view.state \in {"INITIAL", "FINISHED"} => (view.state \in processed <=> view.state \in processed')
    BY <1>7
  <2> QED
    BY <1>1, <1>4, <1>6, <2>1, <2>2, CoreStays
<1>8. CASE FirstHalfOver
  <2>1. view.state = "FINISHED" /\ ~ShootOut /\ shots' = shots
    BY <1>8
  <2>2. ~InShootOut \/ gameState = "INITIAL"
    BY <1>1, <2>1, LoopSees DEF Core, Same, ShootOut, InShootOut
  <2>3. Counted'
    BY <1>1, <2>1, <2>2 DEF Core, Counted, InShootOut, vars
  <2>4. Periods'
    BY <1>1 DEF Core, Periods, InShootOut, PlayOff, vars
  <2> QED
    BY <1>1, <1>4, <1>6, <2>1, <2>3, <2>4, LineStays, OnceStays, SidesStay DEF Core
<1> QED
  BY <1>7, <1>8

\* INITIAL: the referee follows the change of ends.
LEMMA InitialCore ==
  ASSUME DriveInv, Core, EnterInitial
  PROVE  Core'
<1> USE DEF EnterInitial, Pass, Enter, Branch
<1>1. /\ UNCHANGED <<vars, netVars, view, waitFor, shots>> /\ pc \in Loop /\ pc' = "top"
      /\ view.state = "INITIAL" /\ ~finishSent'
  BY DEF Loop
<1>2. setUp = "done" /\ Idle /\ gameState = "INITIAL" /\ Same(view) /\ view \in SnapshotType
  BY <1>1, LoopSees DEF Core
<1>3. Remembers
  BY <1>1, <1>2 DEF Remembers
<1>4. Place'
  <2>1. Idle'
    BY <1>1, <1>2 DEF Idle, vars
  <2> QED
    BY <1>1, <2>1, PlaceTop
<1>5. Sides'
  <2>1. ~Before(view) /\ ~Before(view)'
    BY <1>1, <1>2, SnapshotFacts DEF Same, Before, vars
  <2>2. FlipPending <=> Flips
    BY <1>1, <2>1 DEF FlipPending
  <2>3. ~FlipPending'
    BY <1>1, <2>1 DEF FlipPending
  <2>4. leftTeam \in Team
    BY DEF DriveInv, MatchInv, TypeOK, GameTypeOK
  <2> QED
    BY <1>1, <1>2, <2>2, <2>3, <2>4, TeamFacts DEF Core, Sides, InShootOut, vars
<1>6. Counted'
  BY <1>1, CountedStays DEF Core
<1>7. Periods'
  BY <1>1 DEF Core, Periods, InShootOut, PlayOff, vars
<1> QED
  BY <1>1, <1>3, <1>4, <1>5, <1>6, <1>7, LineStays, OnceStays DEF Core

\* The deadlines.
LEMMA DeadlineCore ==
  ASSUME DriveInv, Core, DeadlinePassed
  PROVE  Core'
<1> USE DEF DeadlinePassed, Branch
<1>1. /\ UNCHANGED <<vars, netVars, view, sideLeft, shots, processed, finishSent>>
      /\ pc \in Loop /\ pc' = "answer" /\ view.state \in processed
  BY DEF Send, Loop
<1>2. setUp = "done" /\ Idle /\ gameState \in {"INITIAL", "READY", "SET"} /\ Same(view)
  BY <1>1, LoopSees DEF Core
<1>3. Remembers
  BY <1>1 DEF Remembers
<1>4. Place'
  <2>1. PICK op \in {"SET", "PLAY", "READY"}, wait \in {"SET", "PLAYING", "READY"} :
               Send(op, None, wait, "end")
    BY DEF PlayState
  <2>2. Resumes'
    BY <2>1 DEF Send, Resumes
  <2>3. UnderWay'
    <3>1. CASE view.state = "READY"
      BY <1>1, <3>1, LoopSees DEF Core, Send, UnderWay, vars
    <3>2. CASE view.state = "SET"
      BY <1>1, <3>2, LoopSees DEF Core, Send, UnderWay, PlayState, Once, vars
    <3>3. CASE view.state = "INITIAL"
      BY <1>1, <1>2, <3>3, LoopSees DEF Core, Send, UnderWay, ShootOut, InShootOut, Same, vars
    <3> QED
      BY <3>1, <3>2, <3>3
  <2> QED
    BY <1>1, <2>1, <2>2, <2>3, PlaceSent DEF Loop
<1> QED
  BY <1>1, <1>3, <1>4, CoreStays

\* FINISH, at the end of a half or of a shot.
LEMMA FinishCore ==
  ASSUME DriveInv, Core, PlayingTimeUp \/ BallOut \/ SecondTouch
  PROVE  Core'
<1> USE DEF PlayingTimeUp, BallOut, SecondTouch, FinishDue, BallTurn, Branch
<1>1. /\ UNCHANGED <<vars, netVars, view, sideLeft, shots, processed>>
      /\ pc \in Loop /\ pc' = "answer" /\ finishSent' /\ ~finishSent
  BY DEF Send, Loop
<1>2. setUp = "done" /\ waitFor = None
  BY <1>1, LoopSees DEF Core
<1>3. PICK next \in {"ball", "touch", "end"} : Send("FINISH", None, waitFor, next)
  OBVIOUS
<1>4. next = "ball" => view.state = "PLAYING"
  BY <1>3 DEF Send
<1>5. gameState = view.state /\ (view.state = "PLAYING" \/ (view.state = "FINISHED" /\ InShootOut))
  <2>1. CASE pc = "touch"
    BY <1>1, <2>1 DEF Core, Place
  <2>2. CASE pc = "ball"
    BY <1>1, <2>2 DEF Core, Place
  <2>3. CASE Branch("PLAYING")
    BY <1>1, <2>3, LoopSees DEF Core
  <2> QED
    BY <2>1, <2>2, <2>3
<1>6. Remembers
  BY <1>1, <1>5 DEF Remembers
<1>7. Place'
  <2>1. UnderWay'
    BY <1>1, <1>2, <1>3, <1>5 DEF UnderWay, Send, InShootOut, vars
  <2>2. Resumes'
    BY <1>1, <1>2, <1>3, <1>4 DEF Resumes, Send
  <2> QED
    BY <1>1, <1>3, <2>1, <2>2, PlaceSent DEF Loop
<1> QED
  BY <1>1, <1>6, <1>7, CoreStays

\* A goal.
LEMMA GoalCore ==
  ASSUME DriveInv, Core, NEW end \in {"left", "right"}, BallInGoal(end)
  PROVE  Core'
<1> DEFINE t == IF end = "right" THEN sideLeft ELSE Other(sideLeft)
           next == IF ShootOut THEN "touch" ELSE "end"
<1> HIDE DEF t, next
<1>1. Send("SCORE", t, ScoreWait, next) /\ UNCHANGED memVars /\ BallTurn
  BY DEF BallInGoal, t, next
<1>2. /\ UNCHANGED <<vars, netVars, view, sideLeft, shots, processed, finishSent>>
      /\ pc \in Loop /\ pc' = "answer"
  BY <1>1 DEF Send, BallTurn, Branch, Loop
<1>3. view.state = "PLAYING" /\ IF finishSent THEN gameState \in {"FINISHED", "INITIAL"} ELSE gameState = "PLAYING"
  <2>1. view.state = "PLAYING"
    BY <1>1 DEF BallTurn, Branch, Core, Place
  <2> QED
    BY <1>2, <2>1, LoopSees DEF Core
<1>4. Remembers
  BY <1>2 DEF Remembers
<1>5. Place'
  <2>1. UnderWay'
    BY <1>1, <1>2, <1>3 DEF UnderWay, Send, ScoreWait, ShootOut, vars
  <2>2. Resumes'
    BY <1>1, <1>2, <1>3 DEF Resumes, Send, ScoreWait, next
  <2> QED
    BY <1>1, <1>2, <2>1, <2>2, PlaceSent DEF Loop
<1> QED
  BY <1>2, <1>3, <1>4, <1>5, CoreStays

\* The end of a match, or the next one of its long parts.
LEMMA SecondHalfCore ==
  ASSUME DriveInv, Core, SecondHalfOver
  PROVE  Core' /\ LeavesWhenOver'
<1> USE DEF SecondHalfOver, EnterFinished, Enter, Branch
<1>1. /\ UNCHANGED <<vars, netVars, view, sideLeft, shots, finishSent>> /\ pc \in Loop
      /\ view.state = "FINISHED" /\ "FINISHED" \notin processed /\ processed' = {"FINISHED"}
      /\ ~ShootOut /\ ~view.first /\ pc' \in {"answer", "over"}
  BY DEF Send, Leave, Loop
<1>2. /\ setUp = "done" /\ waitFor = None
      /\ gameState = "FINISHED" /\ Same(view) /\ view.score = score /\ ~InShootOut
  <2>1. gameState = "FINISHED"
    BY <1>1 DEF Core, Once
  <2> QED
    BY <1>1, <2>1, LoopSees DEF Core, Same, ShootOut, InShootOut
<1>3. Remembers
  BY <1>1, <1>2 DEF Remembers
<1>4. Place' /\ LeavesWhenOver'
  <2>1. CASE ~Tie
    BY <1>1, <1>2, <2>1 DEF Leave, Tie, Same, Place, Loop, LeavesWhenOver, vars
  <2>2. CASE Tie
    <3>1. CASE view.sec = "NORMAL" /\ Send("OVERTIME-FIRST-HALF", None, waitFor, "end")
      <4>1. (PlayOff => OvertimeLegal) /\ secGameState = "NORMAL" /\ ~firstHalf
        BY <1>2, <2>2, <3>1, <1>1 DEF Same, Tie, OvertimeLegal
      <4>2. UnderWay' /\ Resumes'
        BY <1>1, <1>2, <3>1, <4>1 DEF UnderWay, Resumes, Send, OvertimeLegal, PlayOff, vars
      <4> QED
        BY <1>1, <3>1, <4>2, PlaceSent DEF Send, LeavesWhenOver, Loop
    <3>2. CASE view.sec = "OVERTIME" /\ Send("PENALTY-SHOOTOUT", None, "INITIAL", "end")
      <4>1. PenaltyShootLegal /\ secGameState = "OVERTIME" /\ score[Red] = score[Blue]
        BY <1>2, <2>2, <3>2, <1>1 DEF Core, Periods, Same, PenaltyShootLegal, Tie
      <4>2. UnderWay' /\ Resumes'
        BY <1>1, <1>2, <3>2, <4>1 DEF UnderWay, Resumes, Send, PenaltyShootLegal, PlayOff, vars
      <4> QED
        BY <1>1, <3>2, <4>2, PlaceSent DEF Send, LeavesWhenOver, Loop
    <3> QED
      BY <2>2, <3>1, <3>2
  <2> QED
    BY <2>1, <2>2
<1>5. Counted' /\ Periods'
  BY <1>1, <1>2 DEF Core, Counted, Periods, InShootOut, PlayOff, vars
<1> QED
  BY <1>1, <1>3, <1>4, <1>5, LineStays, OnceStays, SidesStay DEF Core

\* The end of a shot: the referee counts it.
LEMMA ShotCore ==
  ASSUME DriveInv, Core, ShotOver
  PROVE  Core' /\ LeavesWhenOver'
<1> USE DEF ShotOver, EnterFinished, Enter, Branch
<1>1. /\ UNCHANGED <<vars, netVars, view, sideLeft, finishSent>> /\ pc \in Loop /\ shots' = shots + 1
      /\ view.state = "FINISHED" /\ "FINISHED" \notin processed /\ processed' = {"FINISHED"}
      /\ ShootOut /\ pc' \in {"answer", "over"}
  BY DEF Send, Leave, Loop
<1>2. /\ setUp = "done" /\ waitFor = None
      /\ gameState = "FINISHED" /\ InShootOut
  BY <1>1, LoopSees DEF Core, Same, Before, ShootOut, InShootOut
<1>3. Remembers
  BY <1>1, <1>2 DEF Remembers
<1>4. Place' /\ LeavesWhenOver'
  <2>1. CASE Leave
    BY <1>1, <1>2, <2>1 DEF Leave, Place, Loop, LeavesWhenOver, InShootOut, vars
  <2>2. CASE Send("SET", None, "SET", "end")
    <3>1. UnderWay' /\ Resumes'
      BY <1>1, <1>2, <2>2 DEF UnderWay, Resumes, Send, InShootOut, vars
    <3> QED
      BY <1>1, <2>2, <3>1, PlaceSent DEF Send, LeavesWhenOver, Loop
  <2> QED
    BY <2>1, <2>2
<1>5. Counted'
  <2>1. OpenShot = 1 /\ OpenShot' = 0
    BY <1>1, <1>2 DEF OpenShot, vars
  <2>2. \A t \in Team : penaltyShot[t] \in Nat
    BY BoundsOk DEF Core, Counted
  <2> QED
    BY <1>1, <1>2, <2>1, <2>2, TeamFacts DEF Core, Counted, InShootOut, vars
<1>6. Periods'
  BY <1>1 DEF Core, Periods, InShootOut, PlayOff, vars
<1> QED
  BY <1>1, <1>3, <1>4, <1>5, <1>6, LineStays, OnceStays, SidesStay DEF Core

----------------------------------------------------------------------------
(* The steps that take a snapshot.                                         *)

\* The data of the match that the invariant speaks of: time is not among them.
seenVars == <<matchType, gameState, secGameState, previousSec, firstHalf, leftTeam, score, penaltyShot, setUp>>

\* What the next snapshot can be for a referee in its loop.
LEMMA LoopTakes ==
  ASSUME DriveInv, Core, pc \in Loop, udp # <<>>, TakeSnapshot, UNCHANGED <<published, seenVars>>
  PROVE  /\ Line' /\ view' \in SnapshotType /\ view' # NoView /\ Recent(view') /\ waitFor' = None
         /\ \/ view'.state = view.state
            \/ view.state = "READY" /\ view'.state = "SET" /\ gameState = "SET"
            \/ view.state = "PLAYING" /\ view'.state = "FINISHED" /\ finishSent /\ gameState = "FINISHED"
            \/ view.state \in {"PLAYING", "FINISHED"} /\ view'.state \in {"FINISHED", "INITIAL"}
               /\ gameState = "INITIAL" /\ Before(view)
<1>1. Line' /\ view' \in SnapshotType /\ view' # NoView /\ Recent(view') /\ InOrder(view, view')
  BY LineTaken DEF Core, seenVars
<1>2. waitFor' = None
  BY LoopSees DEF Core, TakeSnapshot
<1>3. view.state \in States /\ view'.state \in States
  BY <1>1, LoopSees, SnapshotFacts DEF Core
<1> QED
  BY <1>1, <1>2, <1>3, LoopSees DEF Core, InOrder, Recent, States

\* There is one period before the present one.
LEMMA BeforeIsOne ==
  ASSUME NEW a, NEW b, a.first \in BOOLEAN, b.first \in BOOLEAN, Before(a)
  PROVE  /\ Before(b) => a.sec = b.sec /\ a.first = b.first
         /\ ~Same(a) /\ a.sec # "PENALTYSHOOT"
         /\ ~InShootOut => secGameState = "OVERTIME" \/ ~firstHalf
BY DEF Before, Same, InShootOut

\* The referee at the top of its loop; time may pass.
LEMMA TopCore ==
  ASSUME DriveInv, Core, NEW tick \in BOOLEAN, Top(tick)
  PROVE  Core'
<1>1. /\ pc = "top" /\ pc' = "branch" /\ UNCHANGED <<published, cmdVars, memVars, seenVars>>
      /\ IF udp = <<>> THEN UNCHANGED <<view, waitFor, udp>> ELSE TakeSnapshot
  BY DEF Top, Tick, seenVars, vars
<1>2. pc \in Loop /\ processed \subseteq {view.state}
  BY <1>1 DEF Loop, Core, Once
<1>3. Periods'
  BY <1>1 DEF Core, Periods, InShootOut, PlayOff, seenVars
<1>4. CASE udp = <<>>
  <2>1. Line'
    BY <1>1, <1>4, MatchStays DEF Core, Line, seenVars
  <2>2. Place'
    BY <1>1, <1>2, <1>4, LoopSees DEF Core, Place, Idle, seenVars, Loop
  <2>3. Once' /\ Sides' /\ Counted'
    BY <1>1, <1>4 DEF Core, Once, Sides, FlipPending, Flips, Before, InShootOut, Counted, OpenShot, seenVars
  <2> QED
    BY <1>3, <2>1, <2>2, <2>3 DEF Core
<1>5. CASE udp # <<>>
  <2>1. Line' /\ view' \in SnapshotType /\ view' # NoView /\ Recent(view') /\ waitFor' = None
    BY <1>1, <1>2, <1>5, LoopTakes
  <2>2. \/ view'.state = view.state
        \/ view.state = "READY" /\ view'.state = "SET" /\ gameState = "SET"
        \/ view.state = "PLAYING" /\ view'.state = "FINISHED" /\ finishSent /\ gameState = "FINISHED"
        \/ view.state \in {"PLAYING", "FINISHED"} /\ view'.state \in {"FINISHED", "INITIAL"}
           /\ gameState = "INITIAL" /\ Before(view)
    BY <1>1, <1>2, <1>5, LoopTakes
  <2>3. Idle /\ setUp = "done" /\ view # NoView
    BY <1>2, LoopSees DEF Core
  <2>4. Idle'
    BY <1>1, <2>1, <2>2, <2>3 DEF Idle, seenVars
  <2>5. Place'
    BY <1>1, <2>4 DEF Place, Loop
  <2>6. view.first \in BOOLEAN /\ view'.first \in BOOLEAN /\ Recent(view)
    BY <1>2, <2>1, LoopSees, SnapshotFacts DEF Core
  <2>7. Once'
    <3>1. ASSUME view'.state = "FINISHED", gameState # "FINISHED", view'.sec = "PENALTYSHOOT" \/ ~view'.first
          PROVE  "FINISHED" \in processed
      <4>1. gameState = "INITIAL" /\ Before(view) /\ Before(view')
        BY <1>2, <2>1, <2>2, <2>3, <3>1, LoopSees DEF Core, Idle, Recent, InShootOut
      <4>2. view'.sec = view.sec /\ view'.first = view.first
        BY <2>6, <4>1, BeforeIsOne
      <4>3. view.state = "FINISHED"
        BY <1>2, <2>1, <2>3, <2>6, <3>1, <4>1, <4>2, BeforeIsOne, LoopSees DEF Core, Idle, Recent
      <4> QED
        BY <3>1, <4>1, <4>2, <4>3 DEF Core, Once
    <3>2. \A s, t \in processed' : s = t
      BY <1>1 DEF Core, Once
    <3> QED
      BY <1>1, <1>2, <2>2, <2>3, <3>1, <3>2 DEF Core, Once, Idle, seenVars
  <2>8. ~InShootOut => (FlipPending <=> FlipPending')
    <3>1. Before(view)' <=> Before(view')
      BY <1>1 DEF Before, seenVars
    <3>2. CASE gameState # "INITIAL"
      <4>1. Same(view) /\ Same(view') /\ view.state # "INITIAL" /\ view'.state # "INITIAL"
        BY <1>2, <2>1, <2>2, <2>3, <2>6, <3>2, LoopSees DEF Core, Recent
      <4>2. ~Before(view) /\ ~Before(view')
        BY <2>6, <4>1, BeforeIsOne
      <4> QED
        BY <3>1, <4>1, <4>2 DEF FlipPending
    <3>3. CASE gameState = "INITIAL" /\ view.state = "INITIAL"
      <4>1. Same(view) /\ Same(view') /\ view'.state = "INITIAL"
        BY <2>1, <2>2, <2>6, <3>3 DEF Recent
      <4>2. ~Before(view) /\ ~Before(view')
        BY <2>6, <4>1, BeforeIsOne
      <4>3. UNCHANGED processed /\ (Flips <=> Flips')
        BY <1>1, <4>1 DEF Flips, Same
      <4> QED
        BY <3>1, <3>3, <4>1, <4>2, <4>3 DEF FlipPending
    <3>4. CASE gameState = "INITIAL" /\ view.state # "INITIAL"
      <4>1. Before(view) /\ FlipPending
        BY <2>3, <2>6, <3>4 DEF Recent, FlipPending
      <4>2. CASE view'.state = "INITIAL"
        <5>1. Same(view')
          BY <2>1, <4>2 DEF Recent
        <5>2. "INITIAL" \notin processed'
          BY <1>1, <1>2, <3>4
        <5>3. ~InShootOut => Flips'
          BY <1>3, <2>6, <4>1, <5>1, BeforeIsOne DEF Core, Periods, Flips, Same, InShootOut
        <5> QED
          BY <4>1, <4>2, <5>2, <5>3 DEF FlipPending
      <4>3. CASE view'.state # "INITIAL"
        BY <2>1, <3>1, <3>4, <4>1, <4>3 DEF Recent, FlipPending
      <4> QED
        BY <4>2, <4>3
    <3> QED
      BY <3>2, <3>3, <3>4
  <2>9. Sides'
    BY <1>1, <2>8 DEF Core, Sides, InShootOut, seenVars
  <2>10. Counted'
    BY <1>1, <1>2, <2>2, <2>3 DEF Core, Counted, OpenShot, InShootOut, Once, seenVars
  <2> QED
    BY <1>3, <2>1, <2>5, <2>7, <2>9, <2>10 DEF Core
<1> QED
  BY <1>4, <1>5

\* A referee that waits either sees the awaited state at last, or waits on.
LEMMA WaitCore ==
  ASSUME DriveInv, Core, Waiting
  PROVE  Core'
<1>1. /\ pc = "wait" /\ udp # <<>> /\ TakeSnapshot /\ UNCHANGED <<vars, published, cmdVars, memVars>>
      /\ pc' = IF waitFor' = None THEN after ELSE "wait"
  BY DEF Waiting
<1>2. UNCHANGED <<seenVars, kickOffTeam>>
  BY <1>1 DEF seenVars, vars
<1>3. Waits /\ Resumes /\ reply = None
  BY <1>1 DEF Core, Place, DriveInv, SetUpInv
<1>4. Line' /\ view' \in SnapshotType /\ view' # NoView /\ Recent(view') /\ InOrder(view, view')
  BY <1>1, <1>2, LineTaken DEF Core, seenVars
<1>5. view'.state \in States /\ view'.first \in BOOLEAN
  BY <1>4, SnapshotFacts
<1>6. waitFor' = IF view.state # view'.state /\ view'.state = waitFor THEN None ELSE waitFor
  BY <1>1 DEF TakeSnapshot
<1>7. Periods'
  BY <1>2 DEF Core, Periods, InShootOut, PlayOff, seenVars
<1>8. CASE view = NoView
  <2>1. setUp # "done" /\ gameState = "INITIAL" /\ firstHalf /\ secGameState \in {"NORMAL", "PENALTYSHOOT"}
    BY <1>8 DEF Core, Line, DriveInv, MatchInv, KickOffInv
  <2>2. waitFor = "INITIAL" /\ view.state = "NONE"
    BY <1>3, <1>8, <2>1 DEF Waits, NoView
  <2>3. view'.state = "INITIAL" /\ Same(view') /\ waitFor' = None /\ pc' = after
    BY <1>1, <1>4, <1>5, <1>6, <2>1, <2>2 DEF InOrder, Recent, States
  <2>4. Place'
    <3>1. Idle'
      BY <1>2, <2>1, <2>3 DEF Idle, seenVars
    <3>2. after \in {"kickoff", "top", "end"}
      BY <1>3, <2>2, RefereeConstants DEF Resumes
    <3> QED
      BY <2>3, <3>1, <3>2 DEF Place, Loop
  <2>5. Once'
    BY <1>1, <1>2, <2>1, <2>3 DEF Core, Once, seenVars
  <2>6. Sides'
    <3>1. ~FlipPending
      BY <1>8, <2>2 DEF FlipPending
    <3>2. ~FlipPending'
      BY <1>2, <1>5, <2>1, <2>3 DEF FlipPending, Flips, Before, Same, seenVars
    <3> QED
      BY <1>1, <1>2, <3>1, <3>2 DEF Core, Sides, InShootOut, seenVars
  <2>7. Counted'
    BY <1>1, <1>2, <2>1 DEF Core, Counted, InShootOut, seenVars
  <2> QED
    BY <1>4, <1>7, <2>4, <2>5, <2>6, <2>7 DEF Core
<1>9. CASE view # NoView
  <2>1. Recent(view) /\ view.first \in BOOLEAN
    BY <1>9, SnapshotFacts DEF Core, Line
  <2>2. waitFor # None
    BY <1>3, RefereeConstants DEF Waits
  <2>3. IF view'.state = waitFor THEN waitFor' = None /\ pc' = after ELSE waitFor' = waitFor /\ pc' = "wait"
    <3>1. view.state # waitFor
      BY <1>3, <1>9 DEF Waits
    <3> QED
      BY <1>1, <1>6, <2>2, <3>1
  \* In each wait, what the next snapshot can be.
  <2>4. \/ /\ waitFor = "READY" /\ gameState \in {"READY", "SET"} /\ ~InShootOut
           /\ view'.state \in {view.state, "READY", "SET"} /\ view.state \in {"INITIAL", "PLAYING", "SET"}
           /\ finishSent => "SET" \notin processed
        \/ /\ waitFor = "SET" /\ gameState = "SET" /\ "SET" \notin processed
           /\ view'.state \in {view.state, "READY", "SET"} /\ view.state \in {"READY", "INITIAL", "FINISHED"}
        \/ /\ waitFor = "PLAYING" /\ gameState = "PLAYING" /\ ~finishSent /\ "SET" \in processed
           /\ view.state = "SET" /\ view'.state \in {"SET", "PLAYING"}
        \/ /\ waitFor = "FINISHED" /\ gameState = "FINISHED" /\ InShootOut
           /\ view.state = "PLAYING" /\ view'.state \in {"PLAYING", "FINISHED"}
        \/ /\ waitFor = "INITIAL" /\ gameState = "INITIAL" /\ InShootOut
           /\ view.state = "FINISHED" /\ view'.state \in {"FINISHED", "INITIAL"}
    <3> HIDE DEF InShootOut
    <3> QED
      BY <1>3, <1>4, <1>5, <1>9, <2>1 DEF Waits, InOrder, Recent
  <2>5. view'.state = "SET" => gameState # "READY"
    BY <1>4 DEF Recent
  <2>6. Place'
    <3>1. CASE view'.state = waitFor
      <4>1. Idle'
        BY <1>1, <1>2, <2>3, <2>4, <2>5, <3>1 DEF Idle, seenVars
      <4>2. after \in {"top", "touch", "end"}
        BY <1>3, <1>9, <2>2, <3>1 DEF Resumes
      <4>3. after = "touch" => view'.state = "FINISHED" /\ gameState = "FINISHED" /\ InShootOut
        BY <1>3, <2>2, <2>4, <3>1 DEF Resumes
      <4> QED
        BY <1>2, <2>3, <3>1, <4>1, <4>2, <4>3 DEF Place, Loop, InShootOut, seenVars
    <3>2. CASE view'.state # waitFor
      <4>1. Waits'
        BY <1>1, <1>2, <2>3, <2>4, <3>2 DEF Waits, InShootOut, seenVars
      <4>2. Resumes'
        BY <1>1, <1>3, <1>9, <2>2, <2>3, <3>2 DEF Resumes
      <4> QED
        BY <2>3, <3>2, <4>1, <4>2 DEF Place, Loop
    <3> QED
      BY <3>1, <3>2
  <2>7. Once'
    <3>1. pc' = "top" => processed' \subseteq {view'.state}
      BY <1>1, <1>3, <2>3 DEF Resumes
    <3>2. ASSUME view'.state = "FINISHED", gameState # "FINISHED", view'.sec = "PENALTYSHOOT" \/ ~view'.first
          PROVE  "FINISHED" \in processed
      <4>1. view.state = "FINISHED" /\ InShootOut
        BY <1>4, <2>4, <3>2 DEF Recent
      <4>2. view.sec = "PENALTYSHOOT" \/ ~view.first
        BY <2>1, <4>1 DEF Recent, Same, Before, InShootOut
      <4> QED
        BY <3>2, <4>1, <4>2 DEF Core, Once
    <3>3. view'.state = "PLAYING" => "FINISHED" \notin processed
      BY <2>4 DEF Core, Once
    <3>4. view'.state = "SET" /\ "SET" \in processed => ~finishSent
      BY <2>4 DEF Core, Once
    <3>5. view'.state = "INITIAL" /\ gameState # "INITIAL" => "INITIAL" \in processed
      BY <2>4 DEF Core, Once
    <3> QED
      BY <1>1, <1>2, <3>1, <3>2, <3>3, <3>4, <3>5 DEF Core, Once, seenVars
  <2>8. Sides'
    <3>1. CASE gameState = "INITIAL"
      BY <1>2, <2>4, <3>1 DEF Sides, InShootOut, seenVars
    <3>2. CASE gameState # "INITIAL"
      <4>1. Same(view) /\ Same(view')
        BY <1>4, <2>1, <3>2 DEF Recent
      <4>2. ~Before(view) /\ ~Before(view')
        BY <1>5, <2>1, <4>1, BeforeIsOne
      <4>3. view.state = "INITIAL" => "INITIAL" \in processed
        BY <3>2 DEF Core, Once
      <4>4. view'.state = "INITIAL" => "INITIAL" \in processed
        BY <2>4, <3>2, <4>3
      <4>5. ~FlipPending /\ ~FlipPending'
        BY <1>1, <1>2, <4>2, <4>3, <4>4 DEF FlipPending, Before, seenVars
      <4> QED
        BY <1>1, <1>2, <4>5 DEF Core, Sides, InShootOut, seenVars
    <3> QED
      BY <3>1, <3>2
  <2>9. Counted'
    <3>1. gameState = "INITIAL" \/ (OpenShot = 1 /\ OpenShot' = 1) \/ ~InShootOut
      BY <1>1, <1>2, <2>4 DEF OpenShot, Core, Once, seenVars
    <3> QED
      BY <1>1, <1>2, <3>1 DEF Core, Counted, InShootOut, seenVars
  <2> QED
    BY <1>4, <1>7, <2>6, <2>7, <2>8, <2>9 DEF Core
<1> QED
  BY <1>8, <1>9

----------------------------------------------------------------------------
(* The steps of the GameController.                                        *)

\* The Sender's broadcasts.
LEMMA BroadcastCore ==
  ASSUME Core, Broadcast
  PROVE  Core'
<1>1. UNCHANGED <<vars, published, refVars>>
  BY DEF Broadcast
<1>2. Periods' /\ Place'
  BY <1>1 DEF Core, Periods, Place, Idle, Waits, UnderWay, Resumes, InShootOut, PlayOff, OvertimeLegal,
              PenaltyShootLegal, vars
<1>3. Once' /\ Sides' /\ Counted'
  BY <1>1 DEF Core, Once, Sides, FlipPending, Flips, Before, InShootOut, Counted, OpenShot, vars
<1> QED
  BY <1>2, <1>3, LineGrows DEF Core

\* The line is in order after a step of the match if each of its snapshots still is recent
\* and no two of them are out of order.
LEMMA LineMoves ==
  ASSUME Line, UNCHANGED <<udp, view>>, published' \in {published, Snapshot'}, TypeOK', Periods',
         \A e \in Pending : e # NoView => Recent(e)',
         \A a, b \in Pending : InOrder(a, b) => InOrder(a, b)',
         view = NoView => setUp' # "done"
  PROVE  Line'
<1>1. Snapshot' \in SnapshotType /\ Recent(Snapshot)' /\ Snapshot'.state = gameState'
  <2>1. (TypeOK /\ Periods => Snapshot \in SnapshotType /\ Recent(Snapshot) /\ Snapshot.state = gameState)'
    BY SnapshotNow, PTL
  <2> QED
    BY <2>1
<1>2. published # NoView /\ \A i \in 1..Len(udp) : udp[i] # NoView
  BY SnapshotFacts DEF Line
<1>3. published' \in SnapshotType /\ Recent(published)'
  <2>1. CASE published' = Snapshot'
    BY <1>1, <2>1
  <2>2. CASE published' = published
    BY <1>2, <2>2 DEF Line, Pending
  <2> QED
    BY <2>1, <2>2
<1>4. ASSUME NEW a \in Pending, InOrder(a, published)
      PROVE  InOrder(a, published)'
  <2>1. CASE published' = Snapshot'
    BY <1>1, <2>1 DEF InOrder
  <2>2. CASE published' = published
    BY <1>4, <2>2 DEF Pending
  <2> QED
    BY <2>1, <2>2
<1>5. InOrder(view, published)'
  BY <1>4 DEF Line, Pending
<1>6. \A i \in 1..Len(udp) : Recent(udp[i])' /\ InOrder(view, udp[i])' /\ InOrder(udp[i], published)'
  BY <1>2, <1>4 DEF Line, Pending
<1>7. \A i, j \in 1..Len(udp) : i < j => InOrder(udp[i], udp[j])'
  BY DEF Line, Pending
<1>8. IF view = NoView THEN setUp' # "done" ELSE Recent(view)'
  BY DEF Pending
<1> QED
  BY <1>3, <1>5, <1>6, <1>7, <1>8 DEF Line

\* Each snapshot of the line is recent and comes after the view.
LEMMA PendingFacts ==
  ASSUME Line, NEW e \in Pending
  PROVE  InOrder(view, e) /\ (e # NoView => e \in SnapshotType /\ Recent(e))
BY SnapshotFacts DEF Line, Pending, InOrder

\* A step after which the match looks the same.
LEMMA LineSame ==
  ASSUME Line, UNCHANGED <<udp, view, gameState, secGameState, firstHalf, score>>,
         published' \in {published, Snapshot'}, TypeOK', Periods', view = NoView => setUp' # "done"
  PROVE  Line'
<1>1. \A e \in Pending : e # NoView => Recent(e)'
  BY PendingFacts, MatchStays
<1>2. \A a, b \in Pending : InOrder(a, b) => InOrder(a, b)'
  BY MatchStays
<1> QED
  BY <1>1, <1>2, LineMoves

\* A view that is up to date is all there is in the line, in as far as states go.
LEMMA UpToDate ==
  ASSUME Line, view.state = gameState, TypeOK, NEW e \in Pending
  PROVE  /\ e.state = gameState /\ Same(e) /\ e \in SnapshotType
         /\ gameState = "FINISHED" => e.score = score
<1>1. view # NoView
  BY DEF NoView, TypeOK, GameTypeOK
<1>2. e # NoView
  BY <1>1, SnapshotFacts DEF Line, Pending
<1>3. Recent(e) /\ InOrder(view, e) /\ e \in SnapshotType
  BY <1>2, PendingFacts
<1> QED
  BY <1>3 DEF Recent, InOrder, Same, TypeOK, GameTypeOK

\* The next state of the match, as a command sets it.
StateFollows ==
  \/ /\ UNCHANGED <<secGameState, firstHalf>>
     /\ \/ gameState = "INITIAL"  /\ gameState' \in {"READY", "SET"}
        \/ gameState = "READY"    /\ gameState' = "SET"
        \/ gameState = "SET"      /\ gameState' = "PLAYING"
        \/ gameState = "PLAYING"  /\ gameState' = "FINISHED"
        \/ gameState = "PLAYING"  /\ gameState' = "READY" /\ ~InShootOut
        \/ gameState = "FINISHED" /\ gameState' = "SET" /\ InShootOut
  \/ /\ gameState = "FINISHED" /\ gameState' = "INITIAL"
     /\ \/ secGameState = "NORMAL" /\ ~firstHalf /\ secGameState' = "OVERTIME" /\ firstHalf'
        \/ secGameState = "OVERTIME" /\ ~firstHalf /\ secGameState' = "PENALTYSHOOT" /\ ~firstHalf'

\* Commands change the state when the referee is up to date.
LEMMA LineCommanded ==
  ASSUME Line, view.state = gameState, UNCHANGED <<udp, view>>, StateFollows,
         published' \in {published, Snapshot'}, TypeOK, TypeOK', Periods'
  PROVE  Line'
<1>1. \A e \in Pending : Recent(e)'
  BY UpToDate DEF StateFollows, Recent, Same, Before, InShootOut
<1>2. \A a, b \in Pending : InOrder(a, b)'
  BY UpToDate DEF InOrder
<1>3. view # NoView
  BY DEF NoView, TypeOK, GameTypeOK
<1> QED
  BY <1>1, <1>2, <1>3, LineMoves

\* The clock thread moves the match on whatever the referee has seen.
LEMMA LineTicks ==
  ASSUME Line, TypeOK, UNCHANGED <<udp, view, setUp, score>>, published' \in {published, Snapshot'},
         TypeOK', Periods', ~InShootOut, setUp = "done",
         \/ gameState = "READY" /\ gameState' = "SET" /\ UNCHANGED <<secGameState, firstHalf>>
         \/ /\ gameState = "FINISHED" /\ gameState' = "INITIAL"
            /\ UNCHANGED secGameState /\ firstHalf /\ ~firstHalf'
  PROVE  Line'
<1>1. ASSUME NEW e \in Pending, e # NoView
      PROVE  Recent(e)'
  <2>1. Recent(e) /\ e \in SnapshotType
    BY <1>1, PendingFacts
  <2>2. e.first \in BOOLEAN
    BY <2>1, SnapshotFacts
  <2> QED
    BY <2>1, <2>2 DEF Recent, Same, Before, InShootOut, TypeOK, GameTypeOK
<1>2. view # NoView
  BY DEF Line
<1>3. ASSUME NEW a \in Pending, NEW b \in Pending, InOrder(a, b)
      PROVE  InOrder(a, b)'
  <2>1. Recent(a)
    BY <1>2, PendingFacts, SnapshotFacts DEF Line, Pending
  <2> QED
    BY <1>3, <2>1 DEF Recent, InOrder
<1> QED
  BY <1>1, <1>2, <1>3, LineMoves

\* What the clock thread does, for the referee.
LEMMA TickSeen ==
  ASSUME ClockTick, Run, ~InShootOut
  PROVE  /\ UNCHANGED <<matchType, secGameState, previousSec, score, penaltyShot, setUp>>
         /\ \/ gameState = "READY" /\ gameState' = "SET" /\ UNCHANGED <<firstHalf, leftTeam>>
            \/ /\ gameState = "FINISHED" /\ gameState' = "INITIAL" /\ firstHalf /\ ~firstHalf'
               /\ leftTeam' = Other(leftTeam)
<1>1. CASE AutoSet
  BY <1>1 DEF AutoSet, ReadyIsOver, PerformSet, SetFrame, EnterState, InShootOut, Run
<1>2. CASE AutoSecondHalf
  BY <1>2 DEF AutoSecondHalf, PauseIsOver, StartHalf, ChangeSide, InShootOut, Run
<1> QED
  BY <1>1, <1>2 DEF ClockTick

\* A heartbeat.
LEMMA HeartbeatCore ==
  ASSUME DriveInv, Core, Heartbeat, TypeOK'
  PROVE  Core'
<1>1. published' = Snapshot' /\ UNCHANGED <<udp, refVars>>
  BY DEF Heartbeat
<1>2. TypeOK
  BY DEF DriveInv, MatchInv
<1>3. CASE ~TickDue
  <2>1. UNCHANGED vars
    BY <1>3 DEF Heartbeat
  <2>2. Periods'
    BY <2>1 DEF Core, Periods, InShootOut, PlayOff, vars
  <2>3. Line'
    BY <1>1, <2>1, <2>2, LineSame DEF Core, Line, vars
  <2>4. Place'
    BY <1>1, <2>1 DEF Core, Place, Idle, Waits, UnderWay, Resumes, InShootOut, PlayOff, OvertimeLegal,
              PenaltyShootLegal, vars
  <2>5. Once' /\ Sides' /\ Counted'
    BY <1>1, <2>1 DEF Core, Once, Sides, FlipPending, Flips, Before, InShootOut, Counted, OpenShot, vars
  <2> QED
    BY <2>2, <2>3, <2>4, <2>5 DEF Core
<1>4. CASE TickDue
  <2>1. ClockTick /\ Run /\ setUp = "done" /\ ~InShootOut
    BY <1>4 DEF Heartbeat, Run, TickDue, ReadyIsOver, PauseIsOver, InShootOut, Core, Periods
  <2>2. /\ UNCHANGED <<matchType, secGameState, previousSec, score, penaltyShot, setUp>>
        /\ \/ gameState = "READY" /\ gameState' = "SET" /\ UNCHANGED <<firstHalf, leftTeam>>
           \/ /\ gameState = "FINISHED" /\ gameState' = "INITIAL" /\ firstHalf /\ ~firstHalf'
              /\ leftTeam' = Other(leftTeam)
    BY <2>1, TickSeen
  <2>3. Periods'
    BY <2>1, <2>2 DEF Core, Periods, InShootOut, PlayOff
  <2>4. Line'
    BY <1>1, <1>2, <2>1, <2>2, <2>3, LineTicks DEF Core
  <2>5. view # NoView
    BY <2>1 DEF Core, Line
  <2>6. Place'
    <3>1. Idle => Idle'
      BY <1>1, <2>2 DEF Idle
    <3>2. Waits => Waits'
      BY <1>1, <2>1, <2>2 DEF Waits, InShootOut
    <3>3. UnderWay => UnderWay'
      BY <1>1, <2>1, <2>2 DEF UnderWay, InShootOut, PlayOff, OvertimeLegal, PenaltyShootLegal
    <3>4. Resumes => Resumes'
      BY <1>1 DEF Resumes
    <3> QED
      BY <1>1, <2>1, <2>2, <3>1, <3>2, <3>3, <3>4 DEF Core, Place
  <2>7. Recent(view) /\ view.first \in BOOLEAN /\ view.state \in States
    BY <2>5, SnapshotFacts DEF Core, Line
  <2>8. Once'
    <3>1. view.state = "FINISHED" /\ gameState = "FINISHED" /\ firstHalf => view.first /\ view.sec # "PENALTYSHOOT"
      BY <2>1, <2>7 DEF Recent, Same, InShootOut
    <3> QED
      BY <1>1, <2>2, <3>1 DEF Core, Once
  <2>9. Sides'
    <3>1. CASE UNCHANGED <<firstHalf, leftTeam>>
      BY <1>1, <2>2, <3>1 DEF Core, Sides, FlipPending, Flips, Before, InShootOut
    <3>2. CASE gameState = "FINISHED" /\ firstHalf /\ ~firstHalf' /\ leftTeam' = Other(leftTeam)
      <4>1. Same(view) /\ view.state # "INITIAL"
        BY <2>7, <3>2 DEF Recent
      <4>2. ~FlipPending
        BY <2>7, <4>1, BeforeIsOne DEF FlipPending
      <4>3. FlipPending'
        BY <1>1, <2>1, <2>2, <2>5, <3>2, <4>1 DEF FlipPending, Before, Same, InShootOut
      <4>4. leftTeam \in Team
        BY <1>2 DEF TypeOK, GameTypeOK
      <4> QED
        BY <1>1, <2>1, <2>2, <3>2, <4>2, <4>3, <4>4, TeamFacts DEF Core, Sides
    <3> QED
      BY <2>2, <3>1, <3>2
  <2>10. Counted'
    BY <2>1, <2>2, <1>1 DEF Core, Counted, InShootOut
  <2> QED
    BY <2>3, <2>4, <2>6, <2>8, <2>9, <2>10 DEF Core
<1> QED
  BY <1>3, <1>4

\* The handler answers the one command under way.
LEMMA HandleFacts ==
  ASSUME DriveInv, Core, Handle
  PROVE  /\ pc = "answer" /\ reply = None /\ UnderWay /\ TypeOK /\ setUp = SetUpBefore(cmd.op)
         /\ UNCHANGED <<udp, pc, cmd, after, viewVars, memVars>>
         /\ reply' = IF Legal(cmd) THEN "OK" ELSE "ILLEGAL"
         /\ published' \in {published, Snapshot'}
         /\ (reply' = "OK" => Idle' \/ Waits') => Place'
<1>1. pc = "answer" /\ reply = None /\ TypeOK /\ setUp = SetUpBefore(cmd.op)
  BY DEF Handle, DriveInv, SetUpInv, MatchInv
<1>2. UnderWay /\ Resumes
  BY <1>1 DEF Core, Place
<1>3. /\ UNCHANGED <<udp, pc, cmd, after, viewVars, memVars>> /\ published' \in {published, Snapshot'}
      /\ reply' = IF Legal(cmd) THEN "OK" ELSE "ILLEGAL"
  BY DEF Handle
<1>4. Resumes' /\ reply' # None
  BY <1>2, <1>3, RefereeConstants DEF Resumes
<1> QED
  BY <1>1, <1>2, <1>3, <1>4 DEF Place, Loop

\* A command after which the match looks the same.
LEMMA HandleSame ==
  ASSUME DriveInv, Core, Handle, TypeOK', UNCHANGED seenVars, reply' = "OK" => Idle' \/ Waits'
  PROVE  Core'
<1>1. Periods'
  BY DEF Core, Periods, InShootOut, PlayOff, seenVars
<1>2. Line'
  BY <1>1, HandleFacts, LineSame DEF Core, Line, seenVars
<1>3. Once' /\ Sides' /\ Counted'
  BY HandleFacts DEF Core, Once, Sides, FlipPending, Flips, Before, InShootOut, Counted, OpenShot, seenVars
<1> QED
  BY <1>1, <1>2, <1>3, HandleFacts DEF Core

\* The set-up commands.
LEMMA HandleSetUp ==
  ASSUME DriveInv, Core, Handle, TypeOK', cmd.op \in {"SIDE_LEFT", "KICKOFF"}
  PROVE  Core' /\ Legal(cmd)
<1>1. setUp # "done" /\ setUp = SetUpBefore(cmd.op)
  BY HandleFacts DEF SetUpBefore
<1>2. gameState = "INITIAL" /\ firstHalf /\ secGameState \in {"NORMAL", "PENALTYSHOOT"}
  BY <1>1 DEF DriveInv, MatchInv, KickOffInv
<1>3. CASE cmd.op = "SIDE_LEFT"
  <2>1. /\ SideLeft(cmd.team) /\ setUp' = "kickoff" /\ Legal(cmd)
        /\ cmd.team = sideLeft /\ view = NoView /\ waitFor = "INITIAL"
    BY <1>3, HandleFacts DEF Handle, UnderWay, Legal
  <2>2. UNCHANGED <<matchType, gameState, secGameState, previousSec, firstHalf, score, penaltyShot>>
    BY <2>1 DEF SideLeft
  <2>3. sideLeft' = leftTeam'
    <3>1. sideLeft \in Team /\ leftTeam \in Team
      BY HandleFacts DEF TypeOK, GameTypeOK, DriveInv, SetUpInv
    <3> QED
      BY <2>1, <3>1, HandleFacts DEF SideLeft, ChangeSide, Team, Other
  <2>4. Periods'
    BY <2>2 DEF Core, Periods, InShootOut, PlayOff
  <2>5. Line'
    BY <2>1, <2>2, <2>4, HandleFacts, LineSame DEF Core
  <2>6. Place'
    BY <2>1, HandleFacts DEF Waits
  <2>7. Once' /\ Counted'
    BY <1>1, <2>1, <2>2, HandleFacts DEF Core, Once, Counted, OpenShot, InShootOut
  <2>8. Sides'
    BY <2>1, <2>3, HandleFacts DEF Sides, FlipPending, NoView
  <2> QED
    BY <2>1, <2>4, <2>5, <2>6, <2>7, <2>8 DEF Core
<1>4. CASE cmd.op = "KICKOFF"
  <2>1. /\ KickOffCommand(cmd.team) /\ setUp' = "done" /\ setUp = "kickoff"
        /\ view.state = "INITIAL" /\ waitFor = None
    BY <1>1, <1>4, HandleFacts DEF Handle, UnderWay, SetUpBefore
  <2>2. Legal(cmd)
    BY <1>2, <1>4 DEF Legal, KickOffChoice
  <2>3. UNCHANGED <<matchType, gameState, secGameState, previousSec, firstHalf, leftTeam, score, penaltyShot>>
    BY <2>1 DEF KickOffCommand
  <2>4. Periods'
    BY <2>3 DEF Core, Periods, InShootOut, PlayOff
  <2>5. Line'
    BY <2>1, <2>3, <2>4, HandleFacts, LineSame DEF Core, NoView
  <2>6. Place'
    BY <1>2, <2>1, <2>3, HandleFacts DEF Idle
  <2>7. Once' /\ Counted'
    BY <1>1, <2>1, <2>3, HandleFacts DEF Core, Once, Counted, OpenShot, InShootOut
  <2>8. Sides'
    BY <2>1, <2>3, HandleFacts DEF Core, Sides, FlipPending, Flips, Before, InShootOut
  <2> QED
    BY <2>2, <2>4, <2>5, <2>6, <2>7, <2>8 DEF Core
<1> QED
  BY <1>3, <1>4

\* No command is late but a goal, and none refused but that and the extra time of a match
\* that is not a play-off.
LEMMA HandleLegal ==
  ASSUME DriveInv, Core, Handle
  PROVE  Legal(cmd) \/ cmd.op = "SCORE" \/ (cmd.op = "OVERTIME-FIRST-HALF" /\ ~PlayOff)
<1>1. NoTimeOut /\ UnderWay /\ secGameState \notin SetPiece
  BY HandleFacts, SetPiecesNamed DEF DriveInv, MatchInv, NoTimeOutSeen, Core, Periods
<1>2. CASE cmd.op \in {"SIDE_LEFT", "KICKOFF"}
  BY <1>2, HandleFacts DEF Legal, KickOffChoice, SetUpBefore, DriveInv, MatchInv, KickOffInv
<1>3. CASE cmd.op \in {"READY", "SET", "PLAY", "FINISH"}
  BY <1>1, <1>3 DEF UnderWay, Legal, ReadyLegal, SetLegal, PlayLegal, FinishLegal, InShootOut
<1>4. CASE cmd.op \in {"OVERTIME-FIRST-HALF", "PENALTY-SHOOTOUT"}
  BY <1>1, <1>4 DEF UnderWay, Legal
<1>5. cmd.op \in {"SIDE_LEFT", "KICKOFF", "READY", "SET", "PLAY", "FINISH", "OVERTIME-FIRST-HALF",
                  "PENALTY-SHOOTOUT", "SCORE"}
  BY <1>1 DEF UnderWay
<1> QED
  BY <1>2, <1>3, <1>4, <1>5

\* What a legal command of the main loop does to what the referee can see.
LEMMA HandleObeys ==
  ASSUME DriveInv, Core, Handle, Legal(cmd), cmd.op \notin {"SIDE_LEFT", "KICKOFF"}
  PROVE  Obey(cmd) /\ UNCHANGED setUp /\ setUp = "done"
BY HandleFacts DEF Handle, Run, SetUpBefore

\* A command that changes the state within the period.
LEMMA HandleMoves ==
  ASSUME DriveInv, Core, Handle, TypeOK', setUp = "done",
         UNCHANGED <<matchType, secGameState, previousSec, firstHalf, setUp>>,
         view.state = gameState, StateFollows, gameState' # gameState, Idle' \/ Waits', Counted',
         view.state \in {"INITIAL", "FINISHED"} => view.state \in processed,
         ~InShootOut => UNCHANGED leftTeam, InShootOut => gameState' # "READY"
  PROVE  Core'
<1>1. Periods'
  BY DEF Core, Periods, InShootOut, PlayOff
<1>2. Line'
  BY <1>1, HandleFacts, LineCommanded DEF Core
<1>3. Place'
  BY HandleFacts
<1>4. Once'
  BY HandleFacts DEF Core, Once
<1>5. Sides'
  BY HandleFacts DEF Core, Sides, FlipPending, Flips, Before, InShootOut
<1> QED
  BY <1>1, <1>2, <1>3, <1>4, <1>5 DEF Core

\* READY and PLAY.
LEMMA HandleReadyPlay ==
  ASSUME DriveInv, Core, Handle, TypeOK', Legal(cmd), cmd.op \in {"READY", "PLAY"}
  PROVE  Core'
<1>1. Obey(cmd) /\ UNCHANGED setUp /\ setUp = "done" /\ UnderWay
  BY HandleFacts, HandleObeys
<1>2. /\ UNCHANGED <<matchType, secGameState, previousSec, firstHalf, score, leftTeam, penaltyShot>>
      /\ view.state = gameState /\ view.state # "FINISHED"
      /\ view.state = "INITIAL" => "INITIAL" \in processed
      /\ \/ gameState = "INITIAL" /\ gameState' = "READY" /\ ~InShootOut /\ waitFor = "READY"
            /\ view.state = "INITIAL" /\ "INITIAL" \in processed
         \/ gameState = "SET" /\ gameState' = "PLAYING" /\ waitFor = "PLAYING" /\ ~finishSent
            /\ "SET" \in processed
  BY <1>1 DEF Obey, Ready, PerformReady, Play, EnterState, UnderWay
<1>3. StateFollows /\ gameState' # gameState
  BY <1>2 DEF StateFollows
<1>4. "SET" \notin processed \/ gameState = "SET"
  BY <1>2 DEF Core, Once
<1>5. Waits'
  BY <1>2, <1>4, HandleFacts DEF Waits, InShootOut
<1>6. Counted'
  BY <1>2, HandleFacts DEF Core, Counted, InShootOut, OpenShot
<1> QED
  BY <1>1, <1>2, <1>3, <1>5, <1>6, HandleMoves

\* FINISH.
LEMMA HandleFinish ==
  ASSUME DriveInv, Core, Handle, TypeOK', Legal(cmd), cmd.op = "FINISH"
  PROVE  Core'
<1>1. Obey(cmd) /\ UNCHANGED setUp /\ setUp = "done" /\ UnderWay
  BY HandleFacts, HandleObeys
<1>2. /\ UNCHANGED <<matchType, secGameState, previousSec, firstHalf, score, leftTeam, penaltyShot>>
      /\ gameState' = "FINISHED" /\ gameState = view.state /\ waitFor = None /\ finishSent
      /\ gameState = "PLAYING" \/ (gameState = "FINISHED" /\ InShootOut)
  BY <1>1 DEF Obey, Finish, PerformFinish, EnterState, UnderWay
<1>3. Idle'
  BY <1>2, HandleFacts DEF Idle
<1>4. CASE gameState = "FINISHED"
  BY <1>1, <1>2, <1>3, <1>4, HandleSame DEF seenVars
<1>5. CASE gameState = "PLAYING"
  <2>1. StateFollows /\ gameState' # gameState
    BY <1>2, <1>5 DEF StateFollows
  <2>2. Counted'
    BY <1>2, <1>5, HandleFacts DEF Core, Counted, InShootOut, OpenShot
  <2> QED
    BY <1>1, <1>2, <1>3, <1>5, <2>1, <2>2, HandleMoves
<1> QED
  BY <1>2, <1>4, <1>5

\* SET: in the shoot-out the next shot.
LEMMA HandleSet ==
  ASSUME DriveInv, Core, Handle, TypeOK', Legal(cmd), cmd.op = "SET"
  PROVE  Core'
<1>1. Obey(cmd) /\ UNCHANGED setUp /\ setUp = "done" /\ UnderWay /\ TypeOK
  BY HandleFacts, HandleObeys
<1>2. PerformSet /\ UNCHANGED <<matchType, secGameState, previousSec, firstHalf, score>>
  BY <1>1 DEF Obey, Set, SetFrame
<1>3. /\ waitFor = "SET" /\ view.state \in {"READY", "INITIAL", "FINISHED"} /\ view.state \in processed
      /\ \/ gameState = "SET" /\ view.state = "READY"
         \/ gameState = "READY" /\ view.state = "READY"
         \/ gameState = view.state /\ view.state \in {"INITIAL", "FINISHED"} /\ InShootOut
  BY <1>1 DEF UnderWay
<1>4. gameState' = "SET"
  BY <1>2 DEF PerformSet, EnterState
<1>5. "SET" \notin processed
  BY <1>3 DEF Core, Once
<1>6. Waits'
  BY <1>3, <1>4, <1>5, HandleFacts DEF Waits
<1>7. CASE gameState = "SET"
  <2>1. UNCHANGED <<gameState, leftTeam, penaltyShot>>
    BY <1>2, <1>4, <1>7 DEF PerformSet
  <2> QED
    BY <1>1, <1>2, <1>6, <2>1, HandleSame DEF seenVars
<1>8. CASE gameState = "READY"
  <2>1. ~InShootOut
    BY <1>8 DEF Core, Periods
  <2>2. UNCHANGED <<leftTeam, penaltyShot>>
    BY <1>2, <1>8, <2>1 DEF PerformSet, InShootOut
  <2>3. Counted'
    BY <1>2, <2>1, <2>2, HandleFacts DEF Core, Counted, InShootOut
  <2>4. StateFollows /\ gameState' # gameState
    BY <1>2, <1>4, <1>8 DEF StateFollows
  <2> QED
    BY <1>1, <1>2, <1>3, <1>4, <1>6, <1>8, <2>1, <2>2, <2>3, <2>4, HandleMoves
<1>9. CASE gameState = view.state /\ view.state \in {"INITIAL", "FINISHED"} /\ InShootOut
  <2>1. StateFollows /\ gameState' # gameState
    BY <1>2, <1>4, <1>9 DEF StateFollows
  <2>2. PICK t \in Team : penaltyShot[t] < MaxShots /\ penaltyShot' = [penaltyShot EXCEPT ![t] = @ + 1]
    <3> DEFINE shooter == KickerOf(kickOffTeam', leftTeam')
    <3>1. shooter \in Team
      BY KickerType DEF TypeOK, GameTypeOK
    <3> QED
      BY <1>2, <1>9, <3>1 DEF PerformSet, InShootOut
  <2>3. penaltyShot[Red] + penaltyShot[Blue] = shots
    BY <1>3, <1>9, TeamFacts, BoundsOk DEF Core, Counted, OpenShot
  <2>4. Counted'
    <3>1. penaltyShot \in [Team -> 0..MaxShots] /\ shots \in Nat
      BY DEF Core, Counted
    <3>2. penaltyShot' \in [Team -> 0..MaxShots]
      BY <2>2, <3>1, BoundsOk
    <3>3. penaltyShot'[Red] + penaltyShot'[Blue] = penaltyShot[Red] + penaltyShot[Blue] + 1
      BY <2>2, <3>1, TeamFacts, BoundsOk DEF Team
    <3>4. OpenShot' = 1
      BY <1>4 DEF OpenShot
    <3> QED
      BY <1>2, <1>4, <1>9, <2>3, <3>1, <3>2, <3>3, <3>4, HandleFacts DEF Counted, InShootOut
  <2> QED
    BY <1>1, <1>2, <1>3, <1>4, <1>6, <1>9, <2>1, <2>4, HandleMoves
<1> QED
  BY <1>3, <1>7, <1>8, <1>9

\* A goal that comes in time.
LEMMA HandleGoal ==
  ASSUME DriveInv, Core, Handle, TypeOK', Legal(cmd), cmd.op = "SCORE"
  PROVE  Core'
<1>1. Obey(cmd) /\ UNCHANGED setUp /\ setUp = "done" /\ UnderWay /\ gameState = "PLAYING"
  BY HandleFacts, HandleObeys DEF Legal, GoalLegal
<1>2. /\ UNCHANGED <<matchType, secGameState, previousSec, firstHalf, leftTeam, penaltyShot>>
      /\ gameState' = IF InShootOut THEN "FINISHED" ELSE "READY"
  BY <1>1 DEF Obey, Goal, PerformReady, PerformFinish, EnterState, InShootOut
<1>3. view.state = "PLAYING" /\ ~finishSent /\ waitFor = IF view.sec = "PENALTYSHOOT" THEN "FINISHED" ELSE "READY"
  BY <1>1 DEF UnderWay
<1>4. view.sec = secGameState
  BY <1>1, <1>3, UpToDate, HandleFacts DEF Core, Same, Pending
<1>5. StateFollows /\ gameState' # gameState
  BY <1>1, <1>2 DEF StateFollows
<1>6. Waits'
  BY <1>2, <1>3, <1>4, HandleFacts DEF Waits, InShootOut
<1>7. Counted'
  BY <1>1, <1>2, <1>3, HandleFacts DEF Core, Counted, InShootOut, OpenShot
<1> QED
  BY <1>1, <1>2, <1>3, <1>5, <1>6, <1>7, HandleMoves

\* Extra time: the ends are changed once more.
LEMMA HandleOvertime ==
  ASSUME DriveInv, Core, Handle, TypeOK', Legal(cmd), cmd.op = "OVERTIME-FIRST-HALF"
  PROVE  Core'
<1>1. Obey(cmd) /\ UNCHANGED setUp /\ setUp = "done" /\ UnderWay
  BY HandleFacts, HandleObeys
<1>2. /\ UNCHANGED <<matchType, previousSec, score, penaltyShot>> /\ gameState' = "INITIAL"
      /\ secGameState = "NORMAL" /\ secGameState' = "OVERTIME" /\ ~firstHalf /\ firstHalf'
      /\ gameState = "FINISHED" /\ PlayOff /\ leftTeam' = Other(leftTeam)
  BY <1>1 DEF Obey, FirstHalfOvertime, OvertimeLegal, StartHalf, ChangeSide
<1>3. view.state = "FINISHED" /\ waitFor = None /\ "FINISHED" \in processed
  BY <1>1 DEF UnderWay
<1>4. Periods'
  BY <1>2 DEF Core, Periods, InShootOut, PlayOff
<1>5. Line'
  <2>1. StateFollows
    BY <1>2 DEF StateFollows
  <2> QED
    BY <1>2, <1>3, <1>4, <2>1, HandleFacts, LineCommanded DEF Core
<1>6. Place'
  BY <1>2, <1>3, HandleFacts DEF Idle
<1>7. Once' /\ Counted'
  BY <1>1, <1>2, <1>3, HandleFacts DEF Core, Once, Counted, InShootOut
<1>8. Sides'
  <2>1. Same(view) /\ view \in SnapshotType
    BY <1>2, <1>3, UpToDate, HandleFacts DEF Core, Pending
  <2>2. ~FlipPending
    BY <1>3, <2>1, SnapshotFacts, BeforeIsOne DEF FlipPending
  <2>3. FlipPending'
    BY <1>2, <1>3, <2>1, SnapshotFacts, HandleFacts DEF FlipPending, Before, Same
  <2>4. leftTeam \in Team
    BY HandleFacts DEF TypeOK, GameTypeOK
  <2> QED
    BY <1>1, <1>2, <2>2, <2>3, <2>4, HandleFacts, TeamFacts DEF Core, Sides, InShootOut
<1> QED
  BY <1>4, <1>5, <1>6, <1>7, <1>8 DEF Core

\* The shoot-out after extra time.
LEMMA HandleShootOut ==
  ASSUME DriveInv, Core, Handle, TypeOK', Legal(cmd), cmd.op = "PENALTY-SHOOTOUT"
  PROVE  Core'
<1>1. Obey(cmd) /\ UNCHANGED setUp /\ setUp = "done" /\ UnderWay
  BY HandleFacts, HandleObeys
<1>2. /\ UNCHANGED <<matchType, previousSec, score, penaltyShot, firstHalf>> /\ gameState' = "INITIAL"
      /\ secGameState = "OVERTIME" /\ secGameState' = "PENALTYSHOOT" /\ PlayOff
      /\ gameState = "FINISHED" /\ ~firstHalf
  BY <1>1 DEF Obey, PenaltyShoot, PenaltyShootLegal, UnderWay, Core, Periods
<1>3. view.state = "FINISHED" /\ waitFor = "INITIAL" /\ "FINISHED" \in processed
  BY <1>1 DEF UnderWay
<1>4. Periods'
  BY <1>2 DEF Core, Periods, InShootOut, PlayOff
<1>5. Line'
  <2>1. StateFollows
    BY <1>2 DEF StateFollows
  <2> QED
    BY <1>2, <1>3, <1>4, <2>1, HandleFacts, LineCommanded DEF Core
<1>6. Place'
  BY <1>2, <1>3, HandleFacts DEF Waits, InShootOut
<1>7. Once' /\ Counted'
  BY <1>1, <1>2, <1>3, HandleFacts DEF Core, Once, Counted, InShootOut
<1>8. Sides'
  BY <1>2 DEF Sides, InShootOut
<1> QED
  BY <1>4, <1>5, <1>6, <1>7, <1>8 DEF Core

\* The handler keeps the invariant, whether it obeys or not.
LEMMA HandleCore ==
  ASSUME DriveInv, Core, Handle, TypeOK'
  PROVE  Core'
<1>1. UnderWay
  BY HandleFacts
<1>2. cmd.op \in {"SIDE_LEFT", "KICKOFF", "READY", "SET", "PLAY", "FINISH", "OVERTIME-FIRST-HALF",
                  "PENALTY-SHOOTOUT", "SCORE"}
  BY <1>1 DEF UnderWay
<1>3. CASE Legal(cmd)
  BY <1>2, <1>3, HandleSetUp, HandleReadyPlay, HandleFinish, HandleSet, HandleGoal, HandleOvertime,
     HandleShootOut
<1>4. CASE ~Legal(cmd)
  <2>1. cmd.op \notin {"SIDE_LEFT", "KICKOFF"}
    BY <1>4, HandleSetUp
  <2>2. UNCHANGED vars /\ reply' = "ILLEGAL"
    BY <1>4, <2>1 DEF Handle
  <2> QED
    BY <2>2, HandleSame DEF seenVars, vars
<1> QED
  BY <1>3, <1>4

----------------------------------------------------------------------------
(* All steps, and the theorems.                                            *)

\* Each step keeps the line, the places and what is done once.
LEMMA StepCore ==
  ASSUME DriveInv, RefereeTypeOK, Core, [RefereeNext]_allVars, TypeOK'
  PROVE  Core'
<1>1. CASE Heartbeat \/ Handle \/ Broadcast
  BY <1>1, HeartbeatCore, HandleCore, BroadcastCore
<1>2. CASE SendSide \/ SendKickOff \/ Answered \/ Waiting
  BY <1>2, SetUpCore, AnswerCore, WaitCore
<1>3. CASE \E tick \in BOOLEAN : Top(tick)
  BY <1>3, TopCore
<1>4. CASE PlayingTimeUp \/ BallOut \/ SecondTouch \/ (\E end \in {"left", "right"} : BallInGoal(end))
  BY <1>4, FinishCore, GoalCore
<1>5. CASE EndIteration \/ BallInPlay \/ StillWaiting \/ EnterReady \/ EnterSet \/ FirstHalfOver
  BY <1>5, QuietCore
<1>6. CASE EnterInitial \/ DeadlinePassed \/ SecondHalfOver \/ ShotOver
  BY <1>6, InitialCore, DeadlineCore, SecondHalfCore, ShotCore
<1>7. CASE UNCHANGED allVars
  <2>1. UNCHANGED <<vars, netVars, refVars>>
    BY <1>7
  <2>2. Periods' /\ Line'
    BY <2>1, LineStays DEF Core, Periods, InShootOut, PlayOff, vars
  <2>3. Place'
    BY <2>1 DEF Core, Place, Idle, Waits, UnderWay, Resumes, InShootOut, PlayOff, OvertimeLegal,
                PenaltyShootLegal, vars
  <2>4. Once' /\ Sides' /\ Counted'
    BY <2>1 DEF Core, Once, Sides, FlipPending, Flips, Before, InShootOut, Counted, OpenShot, vars
  <2> QED
    BY <2>2, <2>3, <2>4 DEF Core
<1> QED
  BY <1>1, <1>2, <1>3, <1>4, <1>5, <1>6, <1>7 DEF RefereeNext, Referee, Iteration

\* A refusal is one of the two that HandleLegal leaves.
LEMMA StepLate ==
  ASSUME DriveInv, Core, LateCommands, [RefereeNext]_allVars, TypeOK'
  PROVE  LateCommands'
<1> USE DEF LateCommands
<1>1. CASE Handle
  <2>1. ASSUME ~Legal(cmd)
        PROVE  UNCHANGED <<matchType, cmd>>
    BY <1>1, <2>1, HandleFacts, HandleSetUp DEF Handle, vars
  <2> QED
    BY <1>1, <2>1, HandleFacts, HandleLegal DEF PlayOff
<1>2. CASE Heartbeat \/ Broadcast \/ UNCHANGED allVars
  <2>1. UNCHANGED <<matchType, cmd, reply>>
    BY <1>2, TickSeen DEF Heartbeat, Broadcast, vars, ClockTick, AutoSet, SetFrame, AutoSecondHalf, StartHalf
  <2> QED
    BY <2>1 DEF PlayOff
<1>3. CASE Answered \/ Waiting \/ \E tick \in BOOLEAN : Top(tick)
  <2>1. UNCHANGED matchType /\ (UNCHANGED <<cmd, reply>> \/ reply' = None)
    BY <1>3 DEF Answered, Waiting, Top, Tick, vars
  <2> QED
    BY <2>1, RefereeConstants DEF PlayOff
<1>4. CASE pc \in {"start", "kickoff"} \cup Loop /\ UNCHANGED reply
  BY <1>4, RefereeConstants DEF DriveInv, SetUpInv, Loop
<1>5. CASE \/ SendSide \/ SendKickOff \/ PlayingTimeUp \/ BallOut \/ SecondTouch \/ BallInPlay
           \/ (\E end \in {"left", "right"} : BallInGoal(end))
  BY <1>4, <1>5 DEF SendSide, SendKickOff, PlayingTimeUp, BallOut, SecondTouch, BallInPlay, BallInGoal, Send,
                    Pass, FinishDue, BallTurn, Branch, Loop
<1>6. CASE \/ EndIteration \/ StillWaiting \/ EnterReady \/ EnterSet \/ EnterInitial \/ DeadlinePassed
           \/ FirstHalfOver \/ SecondHalfOver \/ ShotOver
  BY <1>4, <1>6 DEF EndIteration, StillWaiting, EnterReady, EnterSet, EnterInitial, DeadlinePassed,
                    FirstHalfOver, SecondHalfOver, ShotOver, EnterFinished, Send, Leave, Pass, Branch, Loop
<1> QED
  BY <1>1, <1>2, <1>3, <1>5, <1>6 DEF RefereeNext, Referee, Iteration

\* Nothing moves the match on when the referee has left.
LEMMA StepOver ==
  ASSUME DriveInv, Core, LeavesWhenOver, [RefereeNext]_allVars
  PROVE  LeavesWhenOver'
<1>1. CASE Heartbeat
  <2>1. pc = "over" => ~TickDue
    BY DEF LeavesWhenOver, TickDue, ReadyIsOver, PauseIsOver
  <2> QED
    BY <1>1, <2>1 DEF Heartbeat, LeavesWhenOver, vars
<1>2. CASE Handle
  BY <1>2, HandleFacts DEF LeavesWhenOver
<1>3. CASE Broadcast \/ UNCHANGED allVars
  BY <1>3 DEF Broadcast, LeavesWhenOver, vars
<1>4. CASE SecondHalfOver \/ ShotOver
  BY <1>4, SecondHalfCore, ShotCore
<1>5. CASE Answered \/ Waiting
  <2>1. pc \in {"answer", "wait"} /\ Resumes
    BY <1>5 DEF Answered, Waiting, Core, Place
  <2> QED
    BY <1>5, <2>1 DEF Answered, Waiting, Resumes, LeavesWhenOver
<1>6. CASE pc' # "over"
  BY <1>6 DEF LeavesWhenOver
<1>7. CASE \/ SendSide \/ SendKickOff \/ PlayingTimeUp \/ BallOut \/ SecondTouch
           \/ (\E end \in {"left", "right"} : BallInGoal(end)) \/ DeadlinePassed
  BY <1>6, <1>7 DEF SendSide, SendKickOff, PlayingTimeUp, BallOut, SecondTouch, BallInGoal, DeadlinePassed, Send
<1>8. CASE \/ EndIteration \/ BallInPlay \/ StillWaiting \/ EnterReady \/ EnterSet \/ EnterInitial
           \/ FirstHalfOver \/ \E tick \in BOOLEAN : Top(tick)
  BY <1>6, <1>8 DEF EndIteration, BallInPlay, StillWaiting, EnterReady, EnterSet, EnterInitial,
                    FirstHalfOver, Pass, Top
<1> QED
  BY <1>1, <1>2, <1>3, <1>4, <1>5, <1>7, <1>8 DEF RefereeNext, Referee, Iteration

\* The types of what the referee itself writes.
OwnTypes ==
  /\ reply \in {None, "OK", "ILLEGAL"} /\ cmd.team \in Team \cup {None}
  /\ pc \in Places /\ after \in Places
  /\ waitFor \in States \cup {None}
  /\ processed \subseteq States

\* A command sent is typed.
LEMMA SendTypes ==
  ASSUME OwnTypes, NEW op, NEW team \in Team \cup {None}, NEW wait \in States \cup {None}, NEW next \in Places,
         Send(op, team, wait, next), processed' \subseteq States
  PROVE  OwnTypes'
BY DEF OwnTypes, Send, Places

\* Each step keeps the types.
LEMMA StepOwnTypes ==
  ASSUME DriveInv, OwnTypes, view.state \in States \cup {"NONE"}, [RefereeNext]_allVars
  PROVE  OwnTypes'
<1> USE DEF States, Places
<1> /\ waitFor \in States \cup {None} /\ processed \subseteq States /\ sideLeft \in Team
  BY DEF OwnTypes, DriveInv, SetUpInv
<1>1. CASE Heartbeat \/ Broadcast \/ Handle \/ UNCHANGED allVars
  BY <1>1 DEF Heartbeat, Broadcast, Handle, OwnTypes
<1>2. CASE Answered
  <2>1. pc' \in {"fatal", after, "wait"} /\ processed' = processed /\ waitFor' = waitFor /\ after' = after
    BY <1>2 DEF Answered
  <2>2. reply' \in {reply, None} /\ cmd' \in {cmd, NoCommand}
    BY <1>2 DEF Answered
  <2> QED
    BY <2>1, <2>2 DEF NoCommand, OwnTypes
<1>3. CASE Waiting \/ \E tick \in BOOLEAN : Top(tick)
  <2>1. /\ waitFor' \in {waitFor, None} /\ processed' = processed
        /\ UNCHANGED cmdVars
    BY <1>3 DEF Waiting, Top, TakeSnapshot
  <2>2. pc' \in {after, "wait", "branch"}
    BY <1>3 DEF Waiting, Top
  <2> QED
    BY <2>1, <2>2 DEF OwnTypes
<1>4. CASE SendSide
  <2>1. Send("SIDE_LEFT", sideLeft, waitFor, "kickoff") /\ processed' = processed
    BY <1>4 DEF SendSide
  <2> QED
    BY <2>1, SendTypes
<1>5. CASE SendKickOff
  <2>1. PICK t \in Team : Send("KICKOFF", t, None, "top")
    BY <1>5 DEF SendKickOff
  <2>2. processed' = processed
    BY <1>5 DEF SendKickOff
  <2> QED
    BY <2>1, <2>2, SendTypes
<1>6. CASE PlayingTimeUp \/ BallOut \/ SecondTouch
  <2>1. PICK next \in {"ball", "touch", "end"} : Send("FINISH", None, waitFor, next)
    BY <1>6 DEF PlayingTimeUp, BallOut, SecondTouch
  <2> QED
    BY <1>6, <2>1, SendTypes DEF PlayingTimeUp, BallOut, SecondTouch
<1>7. ASSUME NEW end \in {"left", "right"}, BallInGoal(end)
      PROVE  OwnTypes'
  <2> DEFINE team == IF end = "right" THEN sideLeft ELSE Other(sideLeft)
             next == IF ShootOut THEN "touch" ELSE "end"
  <2>1. Send("SCORE", team, ScoreWait, next) /\ processed' = processed
    BY <1>7 DEF BallInGoal
  <2>2. team \in Team /\ ScoreWait \in States \cup {None} /\ next \in Places
    BY TeamFacts DEF ScoreWait
  <2> HIDE DEF team, next
  <2> QED
    BY <2>1, <2>2, SendTypes
<1>8. CASE DeadlinePassed
  <2>1. processed' = processed
    BY <1>8 DEF DeadlinePassed
  <2>2. CASE Send("SET", None, "SET", "end")
    BY <2>1, <2>2, SendTypes
  <2>3. CASE Send("PLAY", None, "PLAYING", "end")
    BY <2>1, <2>3, SendTypes
  <2>4. CASE Send("READY", None, "READY", "end")
    BY <2>1, <2>4, SendTypes
  <2> QED
    BY <1>8, <2>2, <2>3, <2>4 DEF DeadlinePassed, PlayState
<1>9. CASE BallInPlay \/ StillWaiting \/ EnterReady \/ EnterSet \/ EnterInitial \/ FirstHalfOver \/ EndIteration
  <2>1. processed' \subseteq States
    BY <1>9 DEF BallInPlay, StillWaiting, EnterReady, EnterSet, EnterInitial, FirstHalfOver, EndIteration,
                EnterFinished, Enter, Forget
  <2> QED
    BY <1>9, <2>1 DEF BallInPlay, StillWaiting, EnterReady, EnterSet, EnterInitial, FirstHalfOver, EndIteration,
                      Pass, OwnTypes
<1>10. CASE SecondHalfOver \/ ShotOver
  <2>1. processed' \subseteq States
    BY <1>10 DEF SecondHalfOver, ShotOver, EnterFinished, Enter
  <2>2. CASE Leave
    BY <2>1, <2>2 DEF Leave, OwnTypes
  <2>3. CASE Send("OVERTIME-FIRST-HALF", None, waitFor, "end")
    BY <2>1, <2>3, SendTypes
  <2>4. CASE Send("PENALTY-SHOOTOUT", None, "INITIAL", "end")
    BY <2>1, <2>4, SendTypes
  <2>5. CASE Send("SET", None, "SET", "end")
    BY <2>1, <2>5, SendTypes
  <2>6. CASE SecondHalfOver
    BY <2>2, <2>3, <2>4, <2>6 DEF SecondHalfOver
  <2>7. CASE ShotOver
    BY <2>2, <2>5, <2>7 DEF ShotOver
  <2> QED
    BY <1>10, <2>6, <2>7
<1> QED
  BY <1>1, <1>2, <1>3, <1>4, <1>5, <1>6, <1>7, <1>8, <1>9, <1>10 DEF RefereeNext, Referee, Iteration

\* The two flags stay Boolean.
Flags == timer \in BOOLEAN /\ finishSent \in BOOLEAN

LEMMA StepFlags ==
  ASSUME Flags, [RefereeNext]_allVars
  PROVE  Flags'
<1>1. CASE UNCHANGED <<timer, finishSent>>
  BY <1>1 DEF Flags
<1>2. CASE PlayingTimeUp \/ BallOut \/ SecondTouch
  BY <1>2, Zenon DEF PlayingTimeUp, BallOut, SecondTouch, Flags
<1>3. CASE EnterReady \/ EnterSet \/ EnterInitial
  BY <1>3, Zenon DEF EnterReady, EnterSet, EnterInitial, Flags
<1>4. CASE DeadlinePassed
  BY <1>4, Zenon DEF DeadlinePassed, Flags
<1>5. CASE \/ Heartbeat \/ Broadcast \/ Handle \/ UNCHANGED allVars \/ Answered \/ Waiting
           \/ (\E tick \in BOOLEAN : Top(tick)) \/ SendSide \/ SendKickOff
           \/ (\E end \in {"left", "right"} : BallInGoal(end))
  BY <1>1, <1>5 DEF Heartbeat, Broadcast, Handle, Answered, Waiting, Top, SendSide, SendKickOff, BallInGoal
<1>6. CASE BallInPlay \/ StillWaiting \/ FirstHalfOver \/ EndIteration \/ SecondHalfOver \/ ShotOver
  BY <1>1, <1>6 DEF BallInPlay, StillWaiting, FirstHalfOver, EndIteration, SecondHalfOver, ShotOver, EnterFinished
<1> QED
  BY <1>2, <1>3, <1>4, <1>5, <1>6 DEF RefereeNext, Referee, Iteration

\* The socket never holds more than MaxQueue packets.
LEMMA StepQueue ==
  ASSUME Line, Len(udp) <= MaxQueue, [RefereeNext]_allVars
  PROVE  Len(udp') <= MaxQueue
<1>1. udp \in Seq(SnapshotType) /\ MaxQueue \in Nat /\ Len(udp) \in Nat
  BY RefereeConstants DEF Line
<1>2. CASE Broadcast
  BY <1>1, <1>2 DEF Broadcast
<1>3. CASE udp # <<>> /\ udp' = Tail(udp)
  BY <1>1, <1>3
<1>4. CASE Waiting \/ \E tick \in BOOLEAN : Top(tick)
  BY <1>3, <1>4 DEF Waiting, Top, TakeSnapshot
<1>5. CASE UNCHANGED udp
  BY <1>5
<1>6. CASE \/ SendSide \/ SendKickOff \/ PlayingTimeUp \/ BallOut \/ SecondTouch \/ DeadlinePassed
           \/ (\E end \in {"left", "right"} : BallInGoal(end)) \/ Heartbeat \/ Handle \/ UNCHANGED allVars
  BY <1>5, <1>6 DEF SendSide, SendKickOff, PlayingTimeUp, BallOut, SecondTouch, DeadlinePassed, BallInGoal, Send,
                    Heartbeat, Handle
<1>7. CASE \/ EndIteration \/ BallInPlay \/ StillWaiting \/ EnterReady \/ EnterSet \/ EnterInitial
           \/ FirstHalfOver \/ SecondHalfOver \/ ShotOver \/ Answered
  BY <1>5, <1>7 DEF EndIteration, BallInPlay, StillWaiting, EnterReady, EnterSet, EnterInitial, FirstHalfOver,
                    SecondHalfOver, ShotOver, Answered, Send, Leave, Pass
<1> QED
  BY <1>2, <1>4, <1>6, <1>7 DEF RefereeNext, Referee, Iteration

\* The types.
LEMMA TypesInCore ==
  ASSUME TypeOK, Core, OwnTypes, Flags, Len(udp) <= MaxQueue, sideLeft \in Team
  PROVE  RefereeTypeOK
<1>1. \A i \in 1..Len(udp) : udp[i].state \in States
  BY SnapshotFacts DEF Core, Line
<1>2. view.state \in States \cup {"NONE"}
  BY SnapshotFacts DEF Core, Line, NoView
<1>3. shots \in 0..(2 * MaxShots)
  <2>1. /\ penaltyShot[Red] \in 0..MaxShots /\ penaltyShot[Blue] \in 0..MaxShots
        /\ shots \in Nat /\ MaxShots \in Nat
    BY BoundsOk, TeamFacts DEF Core, Counted
  <2> QED
    BY <2>1 DEF Core, Counted, OpenShot
<1>4. timer \in BOOLEAN /\ finishSent \in BOOLEAN
  BY DEF Flags
<1> QED
  BY <1>1, <1>2, <1>3, <1>4 DEF RefereeTypeOK, OwnTypes

\* Each step keeps the invariant.
LEMMA StepInv ==
  ASSUME DriveInv, RefereeInv, [RefereeNext]_allVars
  PROVE  DriveInv' /\ RefereeInv'
<1>1. DriveInv' /\ TypeOK' /\ sideLeft' \in Team
  BY StepDrives DEF DriveInv, MatchInv, SetUpInv
<1>2. Core /\ OwnTypes /\ Line /\ Len(udp) <= MaxQueue /\ view.state \in States \cup {"NONE"}
  BY DEF RefereeInv, Core, OwnTypes, RefereeTypeOK
<1>3. Flags'
  <2>1. Flags
    BY DEF RefereeInv, RefereeTypeOK, Flags
  <2> QED
    BY <2>1, StepFlags
<1>4. Core' /\ LateCommands' /\ LeavesWhenOver'
  BY <1>1, <1>2, StepCore, StepLate, StepOver DEF RefereeInv
<1>5. OwnTypes' /\ Len(udp') <= MaxQueue
  BY <1>2, StepOwnTypes, StepQueue
<1>6. RefereeTypeOK'
  <2>1. (TypeOK /\ Core /\ OwnTypes /\ Flags /\ Len(udp) <= MaxQueue /\ sideLeft \in Team => RefereeTypeOK)'
    BY TypesInCore, PTL
  <2> QED
    BY <1>1, <1>3, <1>4, <1>5, <2>1
<1> QED
  BY <1>1, <1>4, <1>6 DEF RefereeInv, Core

\* Nothing has been sent, taken or counted yet.
LEMMA InitInv == RefereeInit => RefereeInv
<1> SUFFICES ASSUME RefereeInit
             PROVE  RefereeInv
  OBVIOUS
<1>1. TypeOK /\ AutoRefInit
  BY RefereeStarts DEF DriveInv, MatchInv, RefereeInit
<1>2. Periods
  BY <1>1 DEF Periods, RefereeInit, AutoRefInit, Init, InShootOut, PlayOff
<1>3. Line
  <2>1. view = NoView /\ udp = <<>> /\ published = Snapshot /\ setUp # "done"
    BY <1>1 DEF RefereeInit, AutoRefInit
  <2>2. Snapshot \in SnapshotType /\ Recent(Snapshot) /\ Snapshot.state = gameState
    BY <1>1, <1>2, SnapshotNow
  <2> QED
    BY <2>1, <2>2 DEF Line, InOrder
<1>4. Place /\ Once /\ Sides /\ Counted
  <2>1. Place
    BY DEF RefereeInit, Place, Loop
  <2>2. Once
    BY DEF RefereeInit, Once, NoView
  <2>3. Sides
    BY <1>1 DEF AutoRefInit, Sides
  <2>4. Counted
    BY <1>1, BoundsOk DEF RefereeInit, AutoRefInit, Init, Counted
  <2> QED
    BY <2>1, <2>2, <2>3, <2>4
<1>5. OwnTypes /\ sideLeft \in Team
  BY DEF RefereeInit, OwnTypes, NoCommand, Places, States
<1>6. Len(udp) <= MaxQueue
  BY RefereeConstants DEF RefereeInit
<1>7. Flags
  BY DEF RefereeInit, Flags
<1>8. LateCommands /\ LeavesWhenOver
  BY RefereeConstants DEF RefereeInit, LateCommands, LeavesWhenOver
<1> QED
  BY <1>1, <1>2, <1>3, <1>4, <1>5, <1>6, <1>7, <1>8, TypesInCore DEF RefereeInv, Core

\* RefereeInv is inductive: what the referee may still be looking at (Line), where it is and
\* with which command under way (Place), what it remembers (Once), which way it thinks the
\* teams play (Sides) and how many shots it counted (Counted) fit the GameController's match
\* at all times, whatever snapshots were missed or late.
THEOREM RefereeInvariance == RefereeSpec => [](DriveInv /\ RefereeInv)
<1>1. DriveInv /\ RefereeInv /\ [RefereeNext]_allVars => (DriveInv /\ RefereeInv)'
  BY StepInv
<1> QED
  BY RefereeStarts, InitInv, <1>1, PTL DEF RefereeSpec

\* The variables of the referee are typed, the socket and the count of shots bounded.
THEOREM RefereeTypeCorrect == RefereeSpec => []RefereeTypeOK
<1>1. DriveInv /\ RefereeInv => RefereeTypeOK
  BY DEF RefereeInv
<1> QED
  BY RefereeInvariance, <1>1, PTL

\* Whenever a goal can be given the referee and the GameController agree on the ends, though
\* each changes them by itself (referee.py 1425-1445 and AdvancedData.changeSide).
THEOREM SidesSafe == RefereeSpec => []SidesAgree
<1>1. DriveInv /\ RefereeInv => SidesAgree
  <2> SUFFICES ASSUME DriveInv, RefereeInv, gameState = "PLAYING", view.state = "PLAYING", ~InShootOut
               PROVE  sideLeft = leftTeam
    BY DEF SidesAgree, InShootOut
  <2>1. setUp = "done"
    BY DEF DriveInv, MatchInv, KickOffInv, TypeOK
  <2>2. view \in SnapshotType /\ Recent(view)
    BY <2>1 DEF RefereeInv, Line
  <2>3. Same(view) /\ view.first \in BOOLEAN
    BY <2>2, SnapshotFacts DEF Recent
  <2>4. ~FlipPending
    BY <2>3, BeforeIsOne DEF FlipPending
  <2> QED
    BY <2>1, <2>4 DEF RefereeInv, Sides
<1> QED
  BY RefereeInvariance, <1>1, PTL

\* No command but a goal comes too late (game_controller_send, error(fatal=True)), when the
\* match is one of the types game.json offers to this league, KNOCKOUT and PENALTY.
THEOREM LateSafe ==
  ASSUME "NORMAL" \notin MatchTypes
  PROVE  RefereeSpec => []OnlyGoalsComeLate
<1>1. DriveInv /\ RefereeInv => OnlyGoalsComeLate
  BY DEF RefereeInv, Periods, PlayOff, LateCommands, OnlyGoalsComeLate, DriveInv, MatchInv, TypeOK, GameTypeOK
<1> QED
  BY RefereeInvariance, <1>1, PTL

\* The referee leaves (clean_exit) only when the GameController's own data say that the match
\* is over, not on the word of a snapshot.
THEOREM LeaveSafe == RefereeSpec => []LeavesWhenOver
<1>1. DriveInv /\ RefereeInv => LeavesWhenOver
  BY DEF RefereeInv
<1> QED
  BY RefereeInvariance, <1>1, PTL

----------------------------------------------------------------------------
(* What the referee waits for.                                             *)

\* Of the five states that are awaited, READY alone is left by the GameController itself,
\* at the end of the ready time, and the clock stands while the referee waits.
ReadyKept ==
  waitFor = "READY" /\ (pc = "wait" \/ (pc = "answer" /\ reply = "OK")) => gameState = "READY" /\ inState = 0

LEMMA ReadyKeeps ==
  ASSUME 0 < ReadyTime, DriveInv, RefereeInv, ReadyKept, [RefereeNext]_allVars
  PROVE  ReadyKept'
<1>1. Core
  BY DEF RefereeInv, Core
<1>2. CASE Heartbeat
  <2>1. SUFFICES ASSUME gameState = "READY", inState = 0
                 PROVE  UNCHANGED <<gameState, inState>>
    BY <1>2 DEF Heartbeat, ReadyKept
  <2>2. ~TickDue
    BY <2>1, TimesOrdered DEF TickDue, ReadyIsOver, PauseIsOver
  <2> QED
    BY <1>2, <2>2 DEF Heartbeat, vars
<1>3. CASE Handle
  <2>1. UnderWay /\ UNCHANGED <<pc, waitFor>> /\ pc = "answer" /\ reply' = IF Legal(cmd) THEN "OK" ELSE "ILLEGAL"
    BY <1>1, <1>3, HandleFacts
  <2>2. SUFFICES ASSUME waitFor = "READY", Legal(cmd)
                 PROVE  gameState' = "READY" /\ inState' = 0
    BY <2>1 DEF ReadyKept
  <2>3. cmd.op \in {"READY", "SCORE"}
    BY <2>1, <2>2, RefereeConstants DEF UnderWay
  <2>4. Obey(cmd)
    BY <1>1, <1>3, <2>2, <2>3, HandleObeys
  <2>5. CASE cmd.op = "READY"
    BY <2>1, <2>4, <2>5 DEF Obey, Ready, PerformReady, EnterState, UnderWay
  <2>6. CASE cmd.op = "SCORE"
    <3>1. gameState = "PLAYING" /\ view.state = "PLAYING" /\ view.sec # "PENALTYSHOOT"
      BY <2>1, <2>2, <2>6 DEF UnderWay, Legal, GoalLegal
    <3>2. view.sec = secGameState
      BY <1>1, <1>3, <3>1, UpToDate, HandleFacts DEF Core, Same, Pending
    <3> QED
      BY <2>4, <2>6, <3>1, <3>2 DEF Obey, Goal, PerformReady, EnterState
  <2> QED
    BY <2>3, <2>5, <2>6
<1>4. CASE Broadcast \/ UNCHANGED allVars
  BY <1>4 DEF Broadcast, ReadyKept, vars
<1>5. CASE Answered
  <2>1. UNCHANGED <<vars, waitFor>> /\ pc = "answer" /\ reply # None /\ reply \in {None, "OK", "ILLEGAL"}
    BY <1>5 DEF Answered, RefereeInv, RefereeTypeOK
  <2>2. pc' = "wait" => reply = "OK" /\ pc' # "answer"
    BY <1>5, <2>1 DEF Answered
  <2>3. pc' = "answer" => reply' # "OK"
    BY <1>1, <1>5, RefereeConstants DEF Answered, Core, Place, Resumes
  <2> QED
    BY <2>1, <2>2, <2>3 DEF ReadyKept, vars
<1>6. CASE Waiting
  <2>1. UNCHANGED vars /\ pc = "wait" /\ waitFor' \in {waitFor, None}
    BY <1>6 DEF Waiting, TakeSnapshot
  <2> QED
    BY <2>1, RefereeConstants DEF ReadyKept, vars
<1>7. CASE pc' \notin {"answer", "wait"}
  BY <1>7 DEF ReadyKept
<1>8. CASE pc \in {"start", "kickoff"} \cup Loop /\ UNCHANGED reply /\ pc' # "wait"
  <2>1. reply' = None
    BY <1>8 DEF DriveInv, SetUpInv, Loop
  <2> QED
    BY <1>8, <2>1, RefereeConstants DEF ReadyKept
<1>9. CASE \/ SendSide \/ SendKickOff \/ PlayingTimeUp \/ BallOut \/ SecondTouch \/ DeadlinePassed
           \/ (\E end \in {"left", "right"} : BallInGoal(end)) \/ SecondHalfOver \/ ShotOver
  BY <1>8, <1>9 DEF SendSide, SendKickOff, PlayingTimeUp, BallOut, SecondTouch, DeadlinePassed, BallInGoal,
                    SecondHalfOver, ShotOver, EnterFinished, Send, Leave, FinishDue, BallTurn, Branch, Loop
<1>10. CASE \/ EndIteration \/ BallInPlay \/ StillWaiting \/ EnterReady \/ EnterSet \/ EnterInitial
            \/ FirstHalfOver \/ \E tick \in BOOLEAN : Top(tick)
  BY <1>7, <1>10 DEF EndIteration, BallInPlay, StillWaiting, EnterReady, EnterSet, EnterInitial,
                     FirstHalfOver, Pass, Top
<1> QED
  BY <1>2, <1>3, <1>4, <1>5, <1>6, <1>9, <1>10 DEF RefereeNext, Referee, Iteration

\* The safety behind WaitEnds. While the referee waits (the loop on wait_for_state,
\* referee.py 589), the match is in the awaited state and its last snapshot is of another
\* one: the GameController does not leave the state before a packet of it is taken, and the
\* change by which the referee knows it has not been taken before.
AwaitedIsThere == pc = "wait" => gameState = waitFor /\ view.state # waitFor

\* For every length of the queue, if the ready time is not 0: else READY could be over before
\* it is broadcast.
THEOREM AwaitedStays ==
  ASSUME 0 < ReadyTime
  PROVE  RefereeSpec => []AwaitedIsThere
<1>1. RefereeInit => ReadyKept
  BY DEF RefereeInit, ReadyKept
<1>2. DriveInv /\ RefereeInv /\ ReadyKept /\ [RefereeNext]_allVars => ReadyKept'
  BY ReadyKeeps
<1>3. DriveInv /\ RefereeInv /\ ReadyKept => AwaitedIsThere
  <2> SUFFICES ASSUME DriveInv, RefereeInv, ReadyKept, pc = "wait"
               PROVE  gameState = waitFor /\ view.state # waitFor
    BY DEF AwaitedIsThere
  <2>1. Waits
    BY DEF RefereeInv, Place
  <2>2. view = NoView => gameState = "INITIAL" /\ view.state = "NONE"
    BY DEF RefereeInv, Line, DriveInv, MatchInv, KickOffInv, NoView
  <2> QED
    BY <2>1, <2>2 DEF Waits, ReadyKept
<1> QED
  BY RefereeInvariance, <1>1, <1>2, <1>3, PTL DEF RefereeSpec

----------------------------------------------------------------------------
(* The masks of the shots.                                                *)

\* The weights of the 15 shots, and how one doubles the other.
LEMMA Bits ==
  /\ ShotBit(1) = 1 /\ ShotBit(2) = 2 /\ ShotBit(3) = 4 /\ ShotBit(4) = 8 /\ ShotBit(5) = 16
  /\ ShotBit(6) = 32 /\ ShotBit(7) = 64 /\ ShotBit(8) = 128 /\ ShotBit(9) = 256 /\ ShotBit(10) = 512
  /\ ShotBit(11) = 1024 /\ ShotBit(12) = 2048 /\ ShotBit(13) = 4096 /\ ShotBit(14) = 8192 /\ ShotBit(15) = 16384
BY DEF ShotBit

LEMMA Weights ==
  ASSUME NEW k \in 1..15
  PROVE  ShotBit(k) \in {1, 2, 4, 8, 16, 32, 64, 128, 256, 512, 1024, 2048, 4096, 8192, 16384}
BY Bits

LEMMA WeightStep ==
  ASSUME NEW k \in 1..14
  PROVE  ShotBit(k + 1) = 2 * ShotBit(k)
BY Bits

\* A heavier weight is an even multiple of a lighter one.
LEMMA WeightsDivide ==
  ASSUME NEW k \in 1..15, NEW n \in 1..15, k < n
  PROVE  ShotBit(n) = ShotBit(k) * (2 * ShotBit(n - k))
BY Bits, SMTT(60)

\* Division by a weight.
LEMMA DivideWeight ==
  ASSUME NEW b \in {1, 2, 4, 8, 16, 32, 64, 128, 256, 512, 1024, 2048, 4096, 8192, 16384},
         NEW a \in Nat, NEW c \in Nat
  PROVE  /\ (a + b * c) \div b = a \div b + c
         /\ a < b => a \div b = 0
BY SMTT(30)

\* The bit of shot n leaves the lighter ones alone, and above it there was none.
LEMMA DivideHeavier ==
  ASSUME NEW k \in 1..15, NEW n \in 1..15, NEW a \in Nat
  PROVE /\ k < n => ((a + ShotBit(n)) \div ShotBit(k)) % 2 = (a \div ShotBit(k)) % 2
        /\ k = n /\ a < ShotBit(n) => (a \div ShotBit(k)) % 2 = 0 /\ ((a + ShotBit(n)) \div ShotBit(k)) % 2 = 1
        /\ k > n /\ a < ShotBit(n) => (a \div ShotBit(k)) % 2 = 0 /\ ((a + ShotBit(n)) \div ShotBit(k)) % 2 = 0
<1>1. ShotBit(k) \in Nat \ {0} /\ ShotBit(n) \in Nat \ {0}
  BY Bits
<1>2. /\ \A c \in Nat : (a + ShotBit(k) * c) \div ShotBit(k) = a \div ShotBit(k) + c
      /\ \A d \in Nat : d < ShotBit(k) => d \div ShotBit(k) = 0
  BY Weights, DivideWeight
<1>3. a \div ShotBit(k) \in Nat
  BY <1>1
<1>4. CASE k < n
  <2>1. ShotBit(n - k) \in Nat
    BY <1>4, Bits
  <2> DEFINE m == ShotBit(n - k)
             q == a \div ShotBit(k)
  <2>2. (a + ShotBit(n)) \div ShotBit(k) = q + 2 * m
    BY <1>2, <1>4, <2>1, WeightsDivide
  <2> HIDE DEF m, q
  <2>3. (q + 2 * m) % 2 = q % 2
    BY <1>3, <2>1 DEF m, q
  <2> QED
    BY <1>4, <2>2, <2>3 DEF q
<1>5. CASE k = n
  <2>1. ASSUME a < ShotBit(n) PROVE (a \div ShotBit(k)) % 2 = 0 /\ ((a + ShotBit(n)) \div ShotBit(k)) % 2 = 1
    <3>1. a \div ShotBit(k) = 0
      BY <1>2, <1>5, <2>1
    <3>2. (a + ShotBit(k) * 1) \div ShotBit(k) = a \div ShotBit(k) + 1
      BY <1>2
    <3>3. ShotBit(k) * 1 = ShotBit(n)
      BY <1>1, <1>5
    <3> QED
      BY <3>1, <3>2, <3>3
  <2> QED
    BY <1>5, <2>1
<1>6. CASE k > n
  <2>1. ASSUME a < ShotBit(n) PROVE (a \div ShotBit(k)) % 2 = 0 /\ ((a + ShotBit(n)) \div ShotBit(k)) % 2 = 0
    <3>1. 2 * ShotBit(n) <= ShotBit(k)
      BY <1>6, Bits
    <3>2. a < ShotBit(k) /\ a + ShotBit(n) < ShotBit(k) /\ a + ShotBit(n) \in Nat
      BY <1>1, <2>1, <3>1
    <3> QED
      BY <1>2, <3>2
  <2> QED
    BY <1>6, <2>1
<1> QED
  BY <1>4, <1>5, <1>6

LEMMA OnesType == ASSUME NEW a PROVE Ones(a) \in Nat
<1> DEFINE S == {k \in 1..15 : (a \div ShotBit(k)) % 2 = 1}
<1>1. IsFiniteSet(1..15)
  <2>1. 1 \in Int /\ 15 \in Int
    OBVIOUS
  <2> QED
    BY <2>1, FS_Interval, Zenon
<1>2. S \subseteq 1..15
  OBVIOUS
<1>3. Ones(a) = Cardinality(S)
  BY DEF Ones
<1> HIDE DEF S
<1> QED
  BY <1>1, <1>2, <1>3, FS_Subset, FS_CardinalityType

\* The mask of a team's shots gains one bit.
LEMMA OneMore ==
  ASSUME NEW n \in 1..15, NEW a \in Nat, a < ShotBit(n)
  PROVE  Ones(a + ShotBit(n)) = Ones(a) + 1 /\ Ones(a) \in Nat
<1> DEFINE S == {k \in 1..15 : (a \div ShotBit(k)) % 2 = 1}
           T == {k \in 1..15 : ((a + ShotBit(n)) \div ShotBit(k)) % 2 = 1}
<1>1. T = S \cup {n} /\ n \notin S
  <2>1. ASSUME NEW k \in 1..15 PROVE (k \in T <=> k \in S \/ k = n) /\ (k = n => k \notin S)
    BY DivideHeavier
  <2> QED
    BY <2>1
<1>2. IsFiniteSet(S)
  <2>1. IsFiniteSet(1..15)
    <3>1. 1 \in Int /\ 15 \in Int
      OBVIOUS
    <3> QED
      BY <3>1, FS_Interval, Zenon
  <2>2. S \subseteq 1..15
    OBVIOUS
  <2> HIDE DEF S
  <2> QED
    BY <2>1, <2>2, FS_Subset
<1> QED
  BY <1>1, <1>2, FS_AddElement, FS_CardinalityType DEF Ones

\* And a team that took none has none.
LEMMA NoOnes == Ones(0) = 0
<1>1. {k \in 1..15 : (0 \div ShotBit(k)) % 2 = 1} = {}
  <2>1. ASSUME NEW k \in 1..15 PROVE (0 \div ShotBit(k)) % 2 = 0
    <3>1. ShotBit(k) \in Nat \ {0}
      BY Bits
    <3>2. 0 \div ShotBit(k) = 0
      BY <3>1, Weights, DivideWeight
    <3> QED
      BY <3>2
  <2> QED
    BY <2>1
<1> QED
  BY <1>1, FS_EmptySet DEF Ones

\* What a mask is below after n shots.
Full(n) == IF n = 0 THEN 1 ELSE 2 * ShotBit(n)

LEMMA FullStep ==
  ASSUME NEW n \in 1..15
  PROVE  /\ Full(n - 1) = ShotBit(n) /\ Full(n) = 2 * ShotBit(n)
         /\ \A a \in Nat : a < Full(n - 1) => a < Full(n)
<1>1. CASE n = 1
  BY <1>1, Bits DEF Full
<1>2. CASE n # 1
  <2>1. n - 1 \in 1..14 /\ ShotBit(n) = 2 * ShotBit(n - 1)
    BY <1>2, WeightStep
  <2>2. ShotBit(n - 1) \in Nat
    BY <2>1, ShotBitType
  <2> QED
    BY <2>1, <2>2 DEF Full
<1> QED
  BY <1>1, <1>2

----------------------------------------------------------------------------
(* The shoot-out of the two programs is the one of ShootoutByRule.         *)

Rules == INSTANCE ShootoutProofs WITH phase <- ShootoutPhase, kicker <- kickOffTeam,
                                      shots <- penaltyShot, goals <- ShootoutGoals

\* A mask has no bit of a shot to come, nor of the one being taken, and what it counts are
\* the goals of the shoot-out, which begins level: all of them if the match is one.
MaskInv ==
  /\ \A t \in Team : singleShots[t] < Full(penaltyShot[t])
  /\ InShootOut /\ gameState \in {"SET", "PLAYING"}
       => penaltyShot[kickOffTeam] > 0 /\ singleShots[kickOffTeam] < Full(penaltyShot[kickOffTeam] - 1)
  /\ InShootOut => score[Red] - Ones(singleShots[Red]) = score[Blue] - Ones(singleShots[Blue])
  /\ matchType = "PENALTY" => InShootOut /\ \A t \in Team : Ones(singleShots[t]) = score[t]

\* The invariant of the shoot-out, which before it says that no shot was taken.
ShotInv == ShooterSeen /\ MaskInv /\ Rules!RuleInv

turnVars == <<gameState, kickOffTeam, penaltyShot, score, singleShots>>

\* The names of the two specifications stand for the same.
LEMMA SameTeams ==
  /\ Rules!Team = Team /\ \A t \in Team : Rules!Rival(t) = Other(t)
  /\ Rules!RuleInv => kickOffTeam \in Team
BY DEF Rules!Team, Team, Rules!Rival, Other, Rules!RuleInv, Rules!CountsOK

LEMMA SameTable == \A count, own, other : Rules!NeedToStop(count, own, other) <=> NeedToStop(count, own, other)
BY DEF Rules!NeedToStop, NeedToStop, Rules!Abs, Abs

\* The table asks for the lead only, so goals from before the shoot-out that are the same
\* for both do not matter.
LEMMA TableByLead ==
  ASSUME NEW count, NEW a \in Int, NEW b \in Int, NEW c \in Int, NEW d \in Int, a - b = c - d
  PROVE  NeedToStop(count, a, b) <=> NeedToStop(count, c, d)
<1>1. Abs(a - b) = Abs(c - d) /\ (a >= b <=> c >= d)
  BY DEF Abs
<1> HIDE DEF Abs
<1> QED
  BY <1>1, Zenon DEF NeedToStop

\* Two counts of the goals: a lead is the same in both.
LEMMA SameLead ==
  ASSUME TypeOK, MaskInv, InShootOut, NEW t \in Team
  PROVE  /\ score[t] \in Int /\ score[Other(t)] \in Int
         /\ ShootoutGoals[t] \in Int /\ ShootoutGoals[Other(t)] \in Int
         /\ score[t] - score[Other(t)] = ShootoutGoals[t] - ShootoutGoals[Other(t)]
<1>1. \A u \in Team : score[u] \in Int /\ Ones(singleShots[u]) \in Int /\ ShootoutGoals[u] = Ones(singleShots[u])
  BY BoundsOk, OnesType DEF TypeOK, GameTypeOK, ShootoutGoals
<1>2. score[Red] - Ones(singleShots[Red]) = score[Blue] - Ones(singleShots[Blue]) /\ Red \in Team /\ Blue \in Team
  BY DEF MaskInv, Team
<1>3. CASE t = Red
  BY <1>1, <1>2, <1>3 DEF Other
<1>4. CASE t = Blue
  <2>1. Other(t) = Red
    BY <1>4, TeamsDiffer DEF Other
  <2> QED
    BY <1>1, <1>2, <1>4, <2>1
<1> QED
  BY <1>3, <1>4 DEF Team

LEMMA SameSpec ==
  /\ Rules!Init <=> Fair!Init
  /\ [Rules!Next]_(Rules!vars) => [Fair!Next]_(Fair!vars)
BY DEF Fair!Init, Rules!Init, Fair!Next, Rules!Next, Fair!vars, Rules!vars, Fair!Play, Rules!Play, Fair!Verdict,
       Rules!Verdict, Fair!IsDecided, Rules!IsDecided, Fair!FirstShot, Rules!FirstShot, Fair!NextShot,
       Rules!NextShot, Fair!Toss, Rules!Toss, Fair!Take, Rules!Take, Fair!Rival, Rules!Rival, Fair!Team,
       Rules!Team, Fair!Total, Rules!Total, Fair!Decided, Rules!Decided, Fair!Behind, Rules!Behind

\* A shoot-out is the last period.
LEMMA StaysShootOut ==
  ASSUME DriveInv, DriveInv', InShootOut, [Next]_vars
  PROVE  InShootOut'
<1>1. [PeriodForward]_vars
  BY QuietStep, PeriodOrKickOff DEF Next, PeriodForward, DriveInv
<1>2. secGameState \notin SetPiece /\ Phase = "PENALTYSHOOT" /\ Rank(Phase, firstHalf) = 5
  BY SetPiecesNamed DEF InShootOut, Phase, Rank
<1>3. Rank(Phase', firstHalf') <= 5
  BY DEF Rank
<1>4. Phase' = "PENALTYSHOOT"
  <2>1. CASE UNCHANGED vars
    BY <1>2, <2>1 DEF Phase, vars
  <2>2. CASE PeriodForward
    <3>1. Rank("PENALTYSHOOT", firstHalf) = 5 /\ Rank(Phase', firstHalf') \in Int
      BY DEF Rank
    <3>2. ~(Rank(Phase, firstHalf) < Rank(Phase', firstHalf'))
      BY <1>2, <1>3, <3>1
    <3> QED
      BY <1>2, <2>2, <3>2 DEF PeriodForward
  <2> QED
    BY <1>1, <2>1, <2>2
<1>5. secGameState' # "TIMEOUT" /\ previousSec' \in {"NORMAL", "OVERTIME"} \cup SetPiece
  BY DEF DriveInv, MatchInv, NoTimeOutSeen
<1> QED
  BY <1>4, <1>5, SetPiecesNamed DEF Phase, InShootOut

\* What the commands do to a shoot-out.
LEMMA HandleShot ==
  ASSUME DriveInv, Core, InShootOut, kickOffTeam \in Team, Handle
  PROVE  /\ UNCHANGED <<pc, shots, udp, view>> /\ pc = "answer" /\ published' \in {published, Snapshot'}
         /\ \/ UNCHANGED turnVars
            \/ /\ gameState = "INITIAL" /\ kickOffTeam' \in Team
               /\ UNCHANGED <<gameState, penaltyShot, score, singleShots>>
            \/ gameState = "SET" /\ gameState' = "PLAYING" /\ UNCHANGED <<kickOffTeam, penaltyShot, score, singleShots>>
            \/ /\ gameState = "PLAYING" /\ gameState' = "FINISHED" /\ UNCHANGED <<kickOffTeam, penaltyShot>>
               /\ \/ UNCHANGED <<score, singleShots>>
                  \/ /\ score' = [score EXCEPT ![kickOffTeam] = @ + 1]
                     /\ singleShots' = [singleShots EXCEPT ![kickOffTeam] = @ + ShotBit(penaltyShot[kickOffTeam])]
            \/ /\ gameState = "INITIAL" /\ gameState' = "SET" /\ UNCHANGED <<kickOffTeam, score, singleShots>>
               /\ penaltyShot' = [penaltyShot EXCEPT ![kickOffTeam] = @ + 1]
            \/ /\ gameState = "FINISHED" /\ view.state = "FINISHED" /\ "FINISHED" \in processed
               /\ gameState' = "SET" /\ kickOffTeam' = Other(kickOffTeam) /\ UNCHANGED <<score, singleShots>>
               /\ penaltyShot' = [penaltyShot EXCEPT ![Other(kickOffTeam)] = @ + 1]
<1>1. /\ pc = "answer" /\ UnderWay /\ TypeOK /\ setUp = SetUpBefore(cmd.op) /\ published' \in {published, Snapshot'}
      /\ UNCHANGED <<pc, shots, udp, view>>
  BY HandleFacts
<1>2. leftTeam \in Team /\ KickerOf(kickOffTeam, leftTeam) = kickOffTeam
  BY <1>1 DEF TypeOK, GameTypeOK, KickerOf, Team, Other
<1>3. CASE ~Legal(cmd)
  <2>1. cmd.op \notin {"SIDE_LEFT", "KICKOFF"}
    BY <1>3, <1>1 DEF SetUpBefore, DriveInv, MatchInv, KickOffInv, Legal, KickOffChoice, InShootOut
  <2> QED
    BY <1>1, <1>3, <2>1 DEF Handle, vars, turnVars
<1>4. CASE cmd.op = "SIDE_LEFT"
  BY <1>1, <1>4 DEF Handle, SideLeft, turnVars
<1>5. CASE cmd.op = "KICKOFF"
  <2>1. KickOffCommand(cmd.team) /\ gameState = "INITIAL" /\ cmd.team \in Team
    BY <1>1, <1>5 DEF Handle, SetUpBefore, DriveInv, MatchInv, KickOffInv, SetUpInv
  <2> QED
    BY <1>1, <2>1, TeamFacts DEF KickOffCommand
<1>6. CASE Legal(cmd) /\ cmd.op \in {"READY", "OVERTIME-FIRST-HALF", "PENALTY-SHOOTOUT"}
  BY <1>1, <1>6 DEF UnderWay, InShootOut
<1>7. CASE Legal(cmd) /\ cmd.op \in {"PLAY", "FINISH"}
  <2>1. Obey(cmd)
    BY <1>7, HandleObeys
  <2> QED
    BY <1>1, <1>7, <2>1 DEF Obey, Play, Finish, PerformFinish, EnterState, UnderWay, turnVars
<1>8. CASE Legal(cmd) /\ cmd.op = "SET"
  <2>1. Obey(cmd)
    BY <1>8, HandleObeys
  <2>2. PerformSet /\ UNCHANGED <<score, singleShots>>
    BY <1>8, <2>1 DEF Obey, Set, SetFrame
  <2>3. CASE gameState = "SET"
    BY <1>1, <2>2, <2>3 DEF PerformSet, turnVars
  <2>4. CASE gameState = "INITIAL"
    <3>1. gameState' = "SET" /\ UNCHANGED <<kickOffTeam, leftTeam>>
      BY <2>2, <2>4 DEF PerformSet, EnterState
    <3>2. penaltyShot' = [penaltyShot EXCEPT ![KickerOf(kickOffTeam, leftTeam)] = @ + 1]
      BY <2>2, <2>4, <3>1 DEF PerformSet, InShootOut
    <3> QED
      BY <1>1, <1>2, <2>2, <2>4, <3>1, <3>2
  <2>5. CASE gameState = "FINISHED"
    <3>1. gameState' = "SET" /\ kickOffTeam' = Other(kickOffTeam) /\ leftTeam' = Other(leftTeam)
      BY <1>2, <2>2, <2>5 DEF PerformSet, EnterState, ChangeSide, InShootOut
    <3>2. KickerOf(kickOffTeam', leftTeam') = Other(kickOffTeam)
      BY <1>2, <3>1 DEF KickerOf, Team, Other
    <3>3. penaltyShot' = [penaltyShot EXCEPT ![KickerOf(kickOffTeam', leftTeam')] = @ + 1]
      BY <2>2, <2>5 DEF PerformSet, InShootOut
    <3>4. view.state = "FINISHED" /\ "FINISHED" \in processed
      BY <1>1, <1>8, <2>5 DEF UnderWay
    <3> QED
      BY <1>1, <2>2, <2>5, <3>1, <3>2, <3>3, <3>4
  <2>6. gameState \in {"SET", "INITIAL", "FINISHED"}
    BY <1>1, <1>8 DEF UnderWay, Core, Periods
  <2> QED
    BY <2>3, <2>4, <2>5, <2>6
<1>9. CASE Legal(cmd) /\ cmd.op = "SCORE"
  <2>1. Goal(cmd.team) /\ cmd.team = kickOffTeam
    BY <1>9, HandleObeys DEF Obey, Legal, GoalLegal, InShootOut
  <2> QED
    BY <1>1, <2>1 DEF Goal, GoalLegal, PerformFinish, EnterState, InShootOut
<1> QED
  BY <1>1, <1>3, <1>4, <1>5, <1>6, <1>7, <1>8, <1>9 DEF UnderWay

\* The referee by itself, the network and time change nothing of it.
LEMMA ElseQuiet ==
  ASSUME [RefereeNext]_allVars, ~Handle, ~Heartbeat
  PROVE  UNCHANGED <<turnVars, secGameState, matchType>>
<1>1. CASE Broadcast \/ Answered \/ Waiting \/ UNCHANGED allVars
  BY <1>1 DEF Broadcast, Answered, Waiting, vars, turnVars
<1>2. CASE \/ SendSide \/ SendKickOff \/ PlayingTimeUp \/ BallOut \/ SecondTouch \/ SecondHalfOver \/ ShotOver
           \/ (\E end \in {"left", "right"} : BallInGoal(end)) \/ DeadlinePassed
  BY <1>2 DEF SendSide, SendKickOff, PlayingTimeUp, BallOut, SecondTouch, BallInGoal, DeadlinePassed, Send,
              SecondHalfOver, ShotOver, Leave, vars, turnVars
<1>3. CASE \/ EndIteration \/ BallInPlay \/ StillWaiting \/ EnterReady \/ EnterSet \/ EnterInitial
           \/ FirstHalfOver \/ \E tick \in BOOLEAN : Top(tick)
  BY <1>3 DEF EndIteration, BallInPlay, StillWaiting, EnterReady, EnterSet, EnterInitial, FirstHalfOver,
              Pass, Top, Tick, vars, turnVars
<1> QED
  BY <1>1, <1>2, <1>3 DEF RefereeNext, Referee, Iteration

\* And it leaves, within a shoot-out, only with the count of a shot.
LEMMA ElseShot ==
  ASSUME DriveInv, Core, InShootOut, [RefereeNext]_allVars, ~Handle, ~ShotOver
  PROVE  UNCHANGED <<turnVars, shots>> /\ (pc = "over" <=> pc' = "over")
<1>1. CASE Heartbeat
  <2>1. ~TickDue
    BY DEF TickDue, ReadyIsOver, PauseIsOver, Core, Periods, InShootOut
  <2> QED
    BY <1>1, <2>1 DEF Heartbeat, vars, turnVars
<1>2. CASE Broadcast \/ UNCHANGED allVars
  BY <1>2 DEF Broadcast, vars, turnVars
<1>3. CASE SecondHalfOver
  <2>1. view.state = "FINISHED" /\ ~view.first /\ "FINISHED" \notin processed /\ ~ShootOut /\ pc \in Loop
    BY <1>3 DEF SecondHalfOver, EnterFinished, Enter, Branch, Loop
  <2>2. gameState = "FINISHED"
    BY <2>1 DEF Core, Once
  <2> QED
    BY <2>1, <2>2, LoopSees DEF Core, Same, ShootOut, InShootOut
<1>4. CASE Answered \/ Waiting
  <2>1. pc \in {"answer", "wait"} /\ Resumes
    BY <1>4 DEF Answered, Waiting, Core, Place
  <2> QED
    BY <1>4, <2>1 DEF Answered, Waiting, Resumes, vars, turnVars
<1>5. CASE \/ SendSide \/ SendKickOff \/ PlayingTimeUp \/ BallOut \/ SecondTouch
           \/ (\E end \in {"left", "right"} : BallInGoal(end)) \/ DeadlinePassed
  BY <1>5 DEF SendSide, SendKickOff, PlayingTimeUp, BallOut, SecondTouch, BallInGoal, DeadlinePassed, Send,
              FinishDue, BallTurn, Branch, vars, turnVars
<1>6. CASE \/ EndIteration \/ BallInPlay \/ StillWaiting \/ EnterReady \/ EnterSet \/ EnterInitial
           \/ FirstHalfOver \/ \E tick \in BOOLEAN : Top(tick)
  BY <1>6 DEF EndIteration, BallInPlay, StillWaiting, EnterReady, EnterSet, EnterInitial, FirstHalfOver,
              EnterFinished, Pass, Top, Tick, BallTurn, Branch, vars, turnVars
<1> QED
  BY <1>1, <1>2, <1>3, <1>4, <1>5, <1>6 DEF RefereeNext, Referee, Iteration

\* Before the shoot-out the teams have the kick-off in turn and take no shots; only the
\* command that starts it does, after a draw.
LEMMA BeforeShootOut ==
  ASSUME DriveInv, Core, ~InShootOut, kickOffTeam \in Team, TypeOK', [RefereeNext]_allVars
  PROVE  /\ kickOffTeam' \in Team /\ UNCHANGED <<penaltyShot, singleShots, matchType>>
         /\ InShootOut' => gameState' = "INITIAL" /\ score'[Red] = score'[Blue] /\ pc' # "over"
<1>1. leftTeam' \in Team /\ \A t \in Team : Other(t) \in Team
  BY DEF TypeOK, GameTypeOK, Team, Other
<1>2. CASE Heartbeat
  <2>1. CASE AutoSet
    BY <2>1 DEF AutoSet, PerformSet, SetFrame, InShootOut
  <2>2. CASE AutoSecondHalf
    BY <1>1, <2>2 DEF AutoSecondHalf, StartHalf, InShootOut, shotVars
  <2> QED
    BY <1>2, <2>1, <2>2 DEF Heartbeat, ClockTick, vars, gameVars, shotVars, kickVars, secVars, InShootOut
<1>3. CASE Handle
  <2>1. UnderWay /\ setUp = SetUpBefore(cmd.op) /\ pc' = "answer"
    BY <1>3, HandleFacts
  <2>2. CASE cmd.op = "SIDE_LEFT"
    BY <1>3, <2>2 DEF Handle, SideLeft, kickVars, shotVars, secVars, InShootOut
  <2>3. CASE cmd.op = "KICKOFF"
    <3>1. KickOffCommand(cmd.team) /\ cmd.team \in Team
      BY <1>3, <2>1, <2>3, HandleFacts DEF Handle, DriveInv, SetUpInv
    <3> QED
      BY <1>1, <3>1 DEF KickOffCommand, shotVars, secVars, InShootOut
  <2>4. CASE ~Legal(cmd) /\ cmd.op \notin {"SIDE_LEFT", "KICKOFF"}
    BY <1>3, <2>4 DEF Handle, vars, gameVars, shotVars, kickVars, secVars, InShootOut
  <2>5. CASE Legal(cmd) /\ cmd.op \notin {"SIDE_LEFT", "KICKOFF"}
    <3>1. Obey(cmd)
      BY <1>3, <2>5, HandleObeys
    <3>2. CASE cmd.op \in {"READY", "PLAY", "FINISH"}
      BY <3>1, <3>2 DEF Obey, Ready, Play, Finish, kickVars, shotVars, secVars, InShootOut
    <3>3. CASE cmd.op = "SET"
      BY <3>1, <3>3 DEF Obey, Set, PerformSet, SetFrame, secVars, InShootOut
    <3>4. CASE cmd.op = "OVERTIME-FIRST-HALF"
      BY <1>1, <3>1, <3>4 DEF Obey, FirstHalfOvertime, StartHalf, shotVars, InShootOut
    <3>5. CASE cmd.op = "PENALTY-SHOOTOUT"
      <4>1. score[Red] = score[Blue]
        BY <2>1, <3>5 DEF UnderWay
      <4> QED
        BY <2>1, <3>1, <3>5, <4>1 DEF Obey, PenaltyShoot, kickVars, shotVars
    <3>6. CASE cmd.op = "SCORE"
      <4>1. cmd.team \in Team /\ Goal(cmd.team)
        BY <1>3, <3>1, <3>6, HandleFacts DEF Obey, DriveInv, SetUpInv
      <4> QED
        BY <1>1, <4>1 DEF Goal, secVars, InShootOut
    <3> QED
      BY <2>1, <2>5, <3>2, <3>3, <3>4, <3>5, <3>6 DEF UnderWay
  <2> QED
    BY <2>2, <2>3, <2>4, <2>5
<1>4. CASE ~Handle /\ ~Heartbeat
  BY <1>4, ElseQuiet DEF turnVars, InShootOut
<1> QED
  BY <1>2, <1>3, <1>4

\* Whose goal and whose shot it was is what the last snapshots of the shot say.
LEMMA SeenKeeps ==
  ASSUME DriveInv, Core, ShotInv, InShootOut, [RefereeNext]_allVars
  PROVE  ShooterSeen'
<1> SUFFICES ASSUME gameState' = "FINISHED", NEW e \in Pending', e.state = "FINISHED"
             PROVE  e.kick = kickOffTeam'
  BY DEF ShooterSeen
<1>1. e \in Pending \/ e = Snapshot'
  <2>1. CASE udp' \in {udp, Tail(udp)} /\ view' \in {view, Head(udp)} /\ published' \in {published, Snapshot'}
             /\ (udp = <<>> => UNCHANGED <<udp, view>>)
    <3>1. udp \in Seq(SnapshotType)
      BY DEF Core, Line
    <3>2. CASE udp = <<>>
      BY <2>1, <3>2 DEF Pending
    <3>3. CASE udp # <<>>
      <4>1. Head(udp) = udp[1] /\ Len(udp) \in Nat \ {0} /\ Len(Tail(udp)) = Len(udp) - 1
            /\ \A i \in 1..Len(Tail(udp)) : Tail(udp)[i] = udp[i + 1]
        BY <3>1, <3>3
      <4> QED
        BY <2>1, <4>1 DEF Pending
    <3> QED
      BY <3>2, <3>3
  <2>2. CASE Broadcast
    <3>1. udp \in Seq(SnapshotType)
      BY DEF Core, Line
    <3>2. /\ Len(udp') = Len(udp) + 1 /\ Len(udp) \in Nat /\ UNCHANGED <<view, published>>
          /\ \A i \in 1..Len(udp') : udp'[i] = IF i = Len(udp') THEN published ELSE udp[i]
      BY <2>2, <3>1 DEF Broadcast
    <3> QED
      BY <3>2 DEF Pending
  <2>3. CASE Heartbeat \/ Handle \/ UNCHANGED allVars
    BY <2>1, <2>3, HandleFacts DEF Heartbeat
  <2>4. CASE Waiting \/ \E tick \in BOOLEAN : Top(tick)
    BY <2>1, <2>4 DEF Waiting, Top, TakeSnapshot
  <2>5. CASE UNCHANGED <<udp, view, published>>
    BY <2>1, <2>5
  <2>6. CASE \/ SendSide \/ SendKickOff \/ PlayingTimeUp \/ BallOut \/ SecondTouch \/ DeadlinePassed
             \/ (\E end \in {"left", "right"} : BallInGoal(end)) \/ Answered
    BY <2>5, <2>6 DEF SendSide, SendKickOff, PlayingTimeUp, BallOut, SecondTouch, DeadlinePassed, BallInGoal, Send,
                      Answered
  <2>7. CASE \/ EndIteration \/ BallInPlay \/ StillWaiting \/ EnterReady \/ EnterSet \/ EnterInitial
             \/ FirstHalfOver \/ SecondHalfOver \/ ShotOver
    BY <2>5, <2>7 DEF EndIteration, BallInPlay, StillWaiting, EnterReady, EnterSet, EnterInitial, FirstHalfOver,
                      SecondHalfOver, ShotOver, Send, Leave, Pass
  <2> QED
    BY <2>2, <2>3, <2>4, <2>6, <2>7 DEF RefereeNext, Referee, Iteration
<1>2. \/ gameState = "FINISHED" /\ kickOffTeam' = kickOffTeam
      \/ gameState = "PLAYING"
  <2>1. CASE Handle
    BY <2>1, HandleShot, SameTeams DEF ShotInv, turnVars
  <2>2. CASE ~Handle
    <3>1. CASE ShotOver
      BY <3>1, ShotCore DEF ShotOver, EnterFinished, Leave, Send, vars
    <3>2. CASE ~ShotOver
      BY <2>2, <3>2, ElseShot DEF ShotInv, turnVars
    <3> QED
      BY <3>1, <3>2
  <2> QED
    BY <2>1, <2>2
<1>3. CASE e = Snapshot'
  BY <1>3 DEF Snapshot
<1>4. CASE e \in Pending
  <2>1. e # NoView
    BY DEF NoView
  <2>2. Recent(e)
    BY <1>4, <2>1, PendingFacts DEF Core
  <2>3. gameState = "FINISHED"
    BY <1>2, <2>2 DEF Recent
  <2> QED
    BY <1>2, <1>4, <2>3 DEF ShotInv, ShooterSeen
<1> QED
  BY <1>1, <1>3, <1>4

\* A team that comes to its next shot.
LEMMA MaskNextShot ==
  ASSUME TypeOK, MaskInv, InShootOut, InShootOut', NEW t \in Team, penaltyShot \in [Team -> 0..MaxShots],
         penaltyShot' \in [Team -> 0..MaxShots], gameState' = "SET", kickOffTeam' = t,
         penaltyShot' = [penaltyShot EXCEPT ![t] = @ + 1], UNCHANGED <<score, singleShots, matchType>>
  PROVE  MaskInv'
<1>1. penaltyShot'[t] \in 1..15 /\ penaltyShot[t] = penaltyShot'[t] - 1
  BY BoundsOk
<1>2. singleShots[t] \in Nat
  BY DEF TypeOK, GameTypeOK
<1>3. singleShots'[t] < Full(penaltyShot'[t] - 1) /\ singleShots'[t] < Full(penaltyShot'[t])
  BY <1>1, <1>2, FullStep DEF MaskInv
<1>4. ASSUME NEW u \in Team PROVE singleShots'[u] < Full(penaltyShot'[u])
  BY <1>3 DEF MaskInv
<1> QED
  BY <1>1, <1>3, <1>4 DEF MaskInv

\* A goal is the bit of the shot being taken.
LEMMA MaskGoal ==
  ASSUME TypeOK, MaskInv, InShootOut, kickOffTeam \in Team, penaltyShot \in [Team -> 0..MaxShots],
         gameState = "PLAYING", gameState' = "FINISHED", UNCHANGED <<kickOffTeam, penaltyShot>>,
         score' = [score EXCEPT ![kickOffTeam] = @ + 1],
         singleShots' = [singleShots EXCEPT ![kickOffTeam] = @ + ShotBit(penaltyShot[kickOffTeam])]
  PROVE  /\ ShootoutGoals' = [ShootoutGoals EXCEPT ![kickOffTeam] = @ + 1]
         /\ InShootOut' /\ UNCHANGED matchType => MaskInv'
<1> DEFINE t == kickOffTeam
           n == penaltyShot[t]
<1>1. n \in 1..15
  BY BoundsOk DEF MaskInv
<1>2. singleShots[t] \in Nat /\ singleShots[t] < ShotBit(n) /\ ShotBit(n) \in Nat
  BY <1>1, FullStep, ShotBitType DEF TypeOK, GameTypeOK, MaskInv
<1>3. singleShots'[t] = singleShots[t] + ShotBit(n) /\ score'[t] = score[t] + 1
  BY DEF TypeOK, GameTypeOK
<1>4. Ones(singleShots'[t]) = Ones(singleShots[t]) + 1
  BY <1>1, <1>2, <1>3, OneMore
<1>5. singleShots'[t] < Full(penaltyShot'[t])
  BY <1>1, <1>2, <1>3, FullStep
<1>6. ASSUME NEW u \in Team, u # t
      PROVE  singleShots'[u] = singleShots[u] /\ score'[u] = score[u] /\ singleShots'[u] < Full(penaltyShot'[u])
  BY <1>6 DEF MaskInv, TypeOK, GameTypeOK
<1>7. \A u \in Team : Ones(singleShots[u]) \in Int /\ score[u] \in Int
  BY BoundsOk, OnesType DEF TypeOK, GameTypeOK
<1>8. ShootoutGoals' = [ShootoutGoals EXCEPT ![t] = @ + 1]
  <2>1. ASSUME NEW u \in Team
        PROVE  Ones(singleShots'[u]) = IF u = t THEN Ones(singleShots[u]) + 1 ELSE Ones(singleShots[u])
    BY <1>4, <1>6
  <2> HIDE DEF t
  <2> QED
    BY <2>1 DEF ShootoutGoals
<1>9. \A u \in Team : score'[u] - Ones(singleShots'[u]) = score[u] - Ones(singleShots[u])
  BY <1>3, <1>4, <1>6, <1>7
<1>10. score'[Red] - Ones(singleShots'[Red]) = score'[Blue] - Ones(singleShots'[Blue])
  <2>1. score[Red] - Ones(singleShots[Red]) = score[Blue] - Ones(singleShots[Blue]) /\ Red \in Team /\ Blue \in Team
    BY DEF MaskInv, Team
  <2> QED
    BY <1>9, <2>1
<1>11. matchType = "PENALTY" => \A u \in Team : Ones(singleShots'[u]) = score'[u]
  BY <1>3, <1>4, <1>6 DEF MaskInv
<1>12. \A u \in Team : singleShots'[u] < Full(penaltyShot'[u])
  BY <1>5, <1>6
<1> QED
  BY <1>8, <1>10, <1>11, <1>12 DEF MaskInv

\* The referee's verdict is the table's, on the score that it saw.
LEMMA VerdictByRule ==
  ASSUME DriveInv, Core, ShotInv, InShootOut, ShotOver
  PROVE  Rules!Verdict(Rules!RuleSays)
<1>1. /\ UNCHANGED <<vars, view>> /\ pc \in Loop /\ shots' = shots + 1 /\ processed' = {"FINISHED"}
      /\ view.state = "FINISHED" /\ "FINISHED" \notin processed /\ ShootOut
  BY DEF ShotOver, EnterFinished, Enter, Branch, Send, Leave, Loop
<1>2. gameState = "FINISHED" /\ Same(view) /\ view.score = score /\ view \in SnapshotType
  BY <1>1, LoopSees DEF Core, Same, Before, ShootOut, InShootOut
<1>3. view.kick = kickOffTeam /\ kickOffTeam \in Team /\ view.left \in Team
  BY <1>1, <1>2, SameTeams DEF ShotInv, ShooterSeen, Pending, SnapshotType
<1>4. KickerOf(view.kick, view.left) = kickOffTeam
  BY <1>3 DEF KickerOf, Team, Other
<1>5. penaltyShot[Red] + penaltyShot[Blue] = shots + 1 /\ shots \in Nat
  BY <1>1, <1>2 DEF Core, Counted, OpenShot, ShotInv
<1>6. Rules!RuleSays <=> Stop
  <2>1. /\ Rules!Total = shots' /\ Rules!Rival(kickOffTeam) = Other(kickOffTeam)
        /\ Stop <=> NeedToStop(shots', score[kickOffTeam], score[Other(kickOffTeam)])
    BY <1>1, <1>2, <1>3, <1>4, <1>5, SameTeams DEF Rules!Total, Stop
  <2>2. Rules!RuleSays <=> NeedToStop(shots', ShootoutGoals[kickOffTeam], ShootoutGoals[Other(kickOffTeam)])
    BY <2>1, SameTable DEF Rules!RuleSays
  <2>3. TypeOK /\ MaskInv
    BY DEF DriveInv, MatchInv, ShotInv
  <2> QED
    BY <1>3, <2>1, <2>2, <2>3, SameLead, TableByLead
<1>7. ShootoutPhase = "taken"
  BY <1>1, <1>2, <1>5 DEF ShootoutPhase, Loop
<1>8. ShootoutPhase' = IF Stop THEN "over" ELSE "counted"
  <2>1. pc' = "over" <=> Stop
    BY DEF ShotOver, Leave, Send
  <2>2. gameState' = "FINISHED" /\ shots' = penaltyShot'[Red] + penaltyShot'[Blue] /\ InShootOut'
    BY <1>1, <1>2, <1>5 DEF vars, InShootOut
  <2>3. CASE Stop
    BY <2>1, <2>2, <2>3 DEF ShootoutPhase
  <2>4. CASE ~Stop
    BY <2>1, <2>2, <2>4 DEF ShootoutPhase
  <2> QED
    BY <2>3, <2>4
<1> QED
  BY <1>1, <1>6, <1>7, <1>8 DEF Rules!Verdict, ShootoutGoals, vars

\* The commands play the shoot-out by its rules.
LEMMA PlayByRule ==
  ASSUME DriveInv, Core, Core', ShotInv, InShootOut, InShootOut', Handle
  PROVE  [Rules!ByRuleNext]_(Rules!vars)
<1> DEFINE total == penaltyShot[Red] + penaltyShot[Blue]
<1>1. kickOffTeam \in Team /\ Rules!Team = Team /\ Rules!Rival(kickOffTeam) = Other(kickOffTeam)
  BY SameTeams DEF ShotInv
<1>2. /\ UNCHANGED <<pc, shots, view>> /\ pc # "over"
      /\ UNCHANGED processed
  BY <1>1, HandleFacts
<1>3. /\ gameState # "INITIAL" => total = shots + OpenShot
      /\ gameState' # "INITIAL" => total' = shots + OpenShot'
      /\ shots \in Nat
  BY <1>2 DEF Core, Counted
<1>4. UNCHANGED penaltyShot => total' = total
  OBVIOUS
<1> HIDE DEF total
<1>5. ShootoutPhase = CASE gameState = "INITIAL"  -> "start"
                        [] gameState = "FINISHED" -> IF OpenShot = 0 THEN "counted" ELSE "taken"
                        [] OTHER -> "shot"
  BY <1>2, <1>3 DEF ShootoutPhase, OpenShot, total
<1>6. ShootoutPhase' = CASE gameState' = "INITIAL"  -> "start"
                         [] gameState' = "FINISHED" -> IF OpenShot' = 0 THEN "counted" ELSE "taken"
                         [] OTHER -> "shot"
  BY <1>2, <1>3 DEF ShootoutPhase, OpenShot, total
<1>7. CASE UNCHANGED turnVars
  <2>1. OpenShot' = OpenShot
    BY <1>2, <1>7 DEF OpenShot, turnVars
  <2> QED
    BY <1>5, <1>6, <1>7, <2>1 DEF Rules!vars, ShootoutGoals, turnVars
<1>8. CASE gameState = "INITIAL" /\ kickOffTeam' \in Team /\ UNCHANGED <<gameState, penaltyShot, singleShots>>
  BY <1>1, <1>5, <1>6, <1>8 DEF Rules!ByRuleNext, Rules!Play, Rules!Toss, ShootoutGoals
<1>9. CASE gameState = "SET" /\ gameState' = "PLAYING" /\ UNCHANGED <<kickOffTeam, penaltyShot, singleShots>>
  BY <1>5, <1>6, <1>9 DEF Rules!vars, ShootoutGoals
<1>10. CASE /\ gameState = "PLAYING" /\ gameState' = "FINISHED" /\ UNCHANGED <<kickOffTeam, penaltyShot>>
            /\ \/ UNCHANGED <<score, singleShots>>
               \/ /\ score' = [score EXCEPT ![kickOffTeam] = @ + 1]
                  /\ singleShots' = [singleShots EXCEPT ![kickOffTeam] = @ + ShotBit(penaltyShot[kickOffTeam])]
  <2>1. OpenShot' = 1
    BY <1>3, <1>4, <1>10 DEF OpenShot
  <2>2. \E g \in 0..1 : ShootoutGoals' = [ShootoutGoals EXCEPT ![kickOffTeam] = @ + g]
    <3>1. CASE UNCHANGED singleShots
      <4>1. ShootoutGoals[kickOffTeam] \in Int /\ UNCHANGED ShootoutGoals
        BY <1>1, <3>1, OnesType DEF ShootoutGoals
      <4>2. ShootoutGoals' = [ShootoutGoals EXCEPT ![kickOffTeam] = @ + 0]
        BY <1>1, <4>1 DEF ShootoutGoals
      <4> QED
        BY <4>2
    <3>2. CASE ~UNCHANGED singleShots
      <4>1. ShootoutGoals' = [ShootoutGoals EXCEPT ![kickOffTeam] = @ + 1]
        BY <1>1, <1>10, <3>2, MaskGoal DEF ShotInv, Core, Counted, DriveInv, MatchInv
      <4> QED
        BY <4>1
    <3> QED
      BY <3>1, <3>2
  <2>3. PICK g \in 0..1 : ShootoutGoals' = [ShootoutGoals EXCEPT ![kickOffTeam] = @ + g]
    BY <2>2
  <2>4. Rules!Take(g)
    BY <1>5, <1>6, <1>10, <2>1, <2>3 DEF Rules!Take
  <2> QED
    BY <2>4 DEF Rules!ByRuleNext, Rules!Play
<1>11. CASE /\ gameState = "INITIAL" /\ gameState' = "SET" /\ UNCHANGED <<kickOffTeam, singleShots>>
            /\ penaltyShot' = [penaltyShot EXCEPT ![kickOffTeam] = @ + 1]
  BY <1>5, <1>6, <1>11 DEF Rules!ByRuleNext, Rules!Play, Rules!FirstShot, ShootoutGoals
<1>12. CASE /\ gameState = "FINISHED" /\ view.state = "FINISHED" /\ "FINISHED" \in processed
            /\ gameState' = "SET" /\ kickOffTeam' = Other(kickOffTeam) /\ UNCHANGED singleShots
            /\ penaltyShot' = [penaltyShot EXCEPT ![Other(kickOffTeam)] = @ + 1]
  <2>1. OpenShot = 0
    BY <1>12 DEF OpenShot
  <2> QED
    BY <1>1, <1>5, <1>6, <1>12, <2>1 DEF Rules!ByRuleNext, Rules!Play, Rules!NextShot, ShootoutGoals
<1> QED
  BY <1>1, <1>7, <1>8, <1>9, <1>10, <1>11, <1>12, HandleShot

LEMMA SameFormat ==
  ASSUME DriveInv, [RefereeNext]_allVars
  PROVE  matchType' = matchType
<1>1. [Audience!Next]_(Audience!vars)
  BY StepDrives, StepRefines DEF DriveInv
<1> QED
  BY <1>1 DEF Audience!Next, Audience!vars, Audience!KickIn, Audience!Stop, Audience!End,
              Audience!NextShot, Audience!NextPeriod, Audience!ScoreGoal

LEMMA MaskStep ==
  ASSUME DriveInv, RefereeInv, RefereeInv', ShotInv, InShootOut, InShootOut', [RefereeNext]_allVars
  PROVE  MaskInv'
<1>1. Core /\ TypeOK /\ kickOffTeam \in Team /\ MaskInv /\ UNCHANGED matchType
  BY SameTeams, SameFormat DEF RefereeInv, Core, DriveInv, MatchInv, ShotInv
<1>2. penaltyShot \in [Team -> 0..MaxShots] /\ penaltyShot' \in [Team -> 0..MaxShots]
  BY DEF RefereeInv, Counted
<1>3. CASE UNCHANGED turnVars
  BY <1>1, <1>3 DEF MaskInv, turnVars
<1>4. CASE gameState = "INITIAL" /\ UNCHANGED <<gameState, penaltyShot, score, singleShots>>
  BY <1>1, <1>4 DEF MaskInv
<1>5. CASE gameState = "SET" /\ gameState' = "PLAYING" /\ UNCHANGED <<kickOffTeam, penaltyShot, score, singleShots>>
  BY <1>1, <1>5 DEF MaskInv
<1>6. CASE /\ gameState = "PLAYING" /\ gameState' = "FINISHED" /\ UNCHANGED <<kickOffTeam, penaltyShot>>
           /\ \/ UNCHANGED <<score, singleShots>>
              \/ /\ score' = [score EXCEPT ![kickOffTeam] = @ + 1]
                 /\ singleShots' = [singleShots EXCEPT ![kickOffTeam] = @ + ShotBit(penaltyShot[kickOffTeam])]
  <2>1. CASE UNCHANGED <<score, singleShots>>
    BY <1>1, <1>6, <2>1 DEF MaskInv
  <2> QED
    BY <1>1, <1>2, <1>6, <2>1, MaskGoal
<1>7. CASE /\ gameState = "INITIAL" /\ gameState' = "SET" /\ UNCHANGED <<kickOffTeam, score, singleShots>>
           /\ penaltyShot' = [penaltyShot EXCEPT ![kickOffTeam] = @ + 1]
  BY <1>1, <1>2, <1>7, MaskNextShot
<1>8. CASE /\ gameState = "FINISHED" /\ gameState' = "SET" /\ kickOffTeam' = Other(kickOffTeam)
           /\ UNCHANGED <<score, singleShots>>
           /\ penaltyShot' = [penaltyShot EXCEPT ![Other(kickOffTeam)] = @ + 1]
  BY <1>1, <1>2, <1>8, MaskNextShot DEF Other, Team
<1>9. CASE ~Handle
  <2>1. CASE ShotOver
    BY <1>3, <2>1 DEF ShotOver, EnterFinished, Leave, Send, vars, turnVars
  <2> QED
    BY <1>1, <1>3, <1>9, <2>1, ElseShot
<1>10. CASE Handle
  BY <1>1, <1>3, <1>4, <1>5, <1>6, <1>7, <1>8, <1>10, HandleShot
<1> QED
  BY <1>9, <1>10

\* Until the shoot-out begins it is one that has not begun, and it begins as one.
LEMMA ShotWaits ==
  ASSUME DriveInv, DriveInv', Core, ShotInv, ~InShootOut, [RefereeNext]_allVars
  PROVE  ShotInv' /\ [Fair!Next]_(Fair!vars)
<1>1. kickOffTeam \in Team /\ TypeOK /\ TypeOK' /\ Rules!Team = Team
  BY SameTeams DEF ShotInv, DriveInv, MatchInv
<1>2. /\ kickOffTeam' \in Team /\ UNCHANGED <<penaltyShot, singleShots, matchType>>
      /\ InShootOut' => gameState' = "INITIAL" /\ score'[Red] = score'[Blue] /\ pc' # "over"
  BY <1>1, BeforeShootOut
<1>3. ShootoutPhase = "start" /\ ShootoutPhase' = "start"
  BY <1>2 DEF ShootoutPhase
<1>4. Rules!Toss(kickOffTeam')
  BY <1>2, <1>3 DEF Rules!Toss, ShootoutGoals
<1>5. Rules!ByRuleNext
  BY <1>1, <1>2, <1>4 DEF Rules!ByRuleNext, Rules!Play
<1>6. Rules!RuleInv' /\ [Rules!Next]_(Rules!vars)
  BY <1>5, TeamsDiffer, Rules!RuleStep DEF ShotInv
<1>7. MaskInv'
  <2>1. \A t \in Team : penaltyShot[t] = 0 /\ singleShots[t] \in Nat /\ singleShots[t] < 1
    BY <1>1 DEF Core, Counted, ShotInv, MaskInv, Full, TypeOK, GameTypeOK
  <2>2. Ones(singleShots[Red]) = 0 /\ Ones(singleShots[Blue]) = 0
    <3>1. singleShots[Red] = 0 /\ singleShots[Blue] = 0
      BY <2>1 DEF Team
    <3> QED
      BY <3>1, NoOnes
  <2>3. InShootOut' => score'[Red] - Ones(singleShots'[Red]) = score'[Blue] - Ones(singleShots'[Blue])
    BY <1>2, <2>2
  <2> QED
    BY <1>2, <2>3 DEF MaskInv, ShotInv
<1>8. ShooterSeen'
  BY <1>2 DEF ShooterSeen
<1> QED
  BY <1>6, <1>7, <1>8, SameSpec DEF ShotInv

\* Each step is one of a shoot-out by the rules, and so of a fair one.
LEMMA ShotStep ==
  ASSUME DriveInv, DriveInv', RefereeInv, RefereeInv', ShotInv, [RefereeNext]_allVars
  PROVE  ShotInv' /\ [Fair!Next]_(Fair!vars)
<1>1. Core /\ Core'
  BY DEF RefereeInv, Core
<1>2. CASE ~InShootOut
  BY <1>1, <1>2, ShotWaits
<1>3. CASE InShootOut
  <2>1. InShootOut'
    BY <1>3, StepDrives, StaysShootOut
  <2>2. [Rules!ByRuleNext]_(Rules!vars)
    <3>1. CASE Handle
      BY <1>1, <1>3, <2>1, <3>1, PlayByRule
    <3>2. CASE ShotOver
      BY <1>1, <1>3, <3>2, VerdictByRule DEF Rules!ByRuleNext
    <3>3. CASE ~Handle /\ ~ShotOver
      <4>1. UNCHANGED <<turnVars, shots>> /\ (pc = "over" <=> pc' = "over")
        BY <1>1, <1>3, <3>3, ElseShot
      <4>2. ShootoutPhase' = ShootoutPhase /\ ShootoutGoals' = ShootoutGoals
        BY <1>3, <2>1, <4>1 DEF ShootoutPhase, ShootoutGoals, turnVars
      <4> QED
        BY <4>1, <4>2 DEF Rules!vars, turnVars
    <3> QED
      BY <3>1, <3>2, <3>3
  <2>3. Rules!RuleInv' /\ [Rules!Next]_(Rules!vars)
    BY <2>2, TeamsDiffer, Rules!RuleStep DEF ShotInv
  <2> QED
    BY <1>1, <1>3, <2>1, <2>3, SeenKeeps, MaskStep, SameSpec DEF ShotInv
<1> QED
  BY <1>2, <1>3

LEMMA ShotStarts == RefereeInit => ShotInv /\ Fair!Init
<1> SUFFICES ASSUME RefereeInit PROVE ShotInv /\ Fair!Init
  OBVIOUS
<1>1. /\ gameState = "INITIAL" /\ pc = "start" /\ kickOffTeam \in Team /\ (matchType = "PENALTY" => InShootOut)
      /\ penaltyShot = [t \in Team |-> 0] /\ singleShots = [t \in Team |-> 0] /\ score = [t \in Team |-> 0]
  BY DEF RefereeInit, AutoRefInit, Init, InShootOut, Team
<1>2. ShootoutPhase = "start" /\ ShootoutGoals = [t \in Team |-> 0]
  BY <1>1, NoOnes DEF ShootoutPhase, ShootoutGoals
<1>3. Rules!Init
  BY <1>1, <1>2, SameTeams DEF Rules!Init
<1>4. Rules!RuleInv
  BY <1>3, TeamsDiffer, Rules!InitInv
<1>5. MaskInv
  <2>1. \A t \in Team : Ones(singleShots[t]) = 0 /\ score[t] = 0 /\ singleShots[t] < Full(penaltyShot[t])
    BY <1>1, NoOnes DEF Full
  <2>2. Red \in Team /\ Blue \in Team
    BY DEF Team
  <2> QED
    BY <1>1, <2>1, <2>2 DEF MaskInv
<1> QED
  BY <1>1, <1>3, <1>4, <1>5, SameSpec DEF ShotInv, ShooterSeen

THEOREM ShotInvariance == RefereeSpec => []ShotInv /\ FairShootout
<1>1. /\ DriveInv /\ RefereeInv /\ (DriveInv /\ RefereeInv)' /\ ShotInv /\ [RefereeNext]_allVars
      => ShotInv' /\ [Fair!Next]_(Fair!vars)
  BY ShotStep
<1> QED
  BY <1>1, ShotStarts, RefereeInvariance, PTL DEF RefereeSpec, FairShootout, Fair!Spec

\* The shoot-out that the two programs play, after an overtime or from the start, is the
\* fair one (FairShootout), for every number of shots and goals: shots in turn, at most one
\* goal each, counted alike by both whatever the referee sees late, and over exactly when it
\* is decided, with goals of the match before it on the score.
THEOREM ShootoutFair == RefereeSpec => FairShootout
BY ShotInvariance, PTL

\* In a match that is a shoot-out from the start the mask singleShots has one bit for each
\* goal (TeamInfo: "bits represent penalty shot success"): the referee never does what
\* breaks that for the AutoRef's interface, SET in the middle of a shot.
THEOREM MaskSafe == RefereeSpec => []MaskCountsGoals
<1>1. ShotInv => MaskCountsGoals
  BY DEF ShotInv, MaskInv, MaskCountsGoals
<1> QED
  BY <1>1, ShotInvariance, PTL

----------------------------------------------------------------------------
\* What the audience sees with this referee is a match (ImplementsMatch).
THEOREM RefereeShowsMatch == RefereeSpec => ImplementsMatch
<1>1. AutoRefInit => Audience!Init
  BY InitRefines
<1>2. MatchInv /\ [Next]_vars => [Audience!Next]_(Audience!vars)
  BY StepRefines
<1> QED
  BY <1>1, <1>2, RefereeDrives, RefereeSafe, PTL DEF DrivesAutoRef, ImplementsMatch, Audience!Spec

============================================================================
