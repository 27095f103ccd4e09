# Elsiros in TLA+

A verification development for Elsiros, the robot-soccer simulation league: TLA+
modules translated from the source, TLC runs that check them on small instances and
TLAPS proofs of their main properties for all values of the constants.

## The system

| Part | State it keeps | Operations | Talks to |
|---|---|---|---|
| **GameController: match data and rules** (`data/states/AdvancedData.java`, `data/hl/HLSim.java`, `controller/action/ui/**`) | game state, secondary state and its one-slot backup, half, the two teams by side, kick-off team, score, penalty shots and their mask, time-outs, manual pause, time stamps, penalties and cards of each robot | one action class per button: READY, SET, PLAY, FINISH, the halves, goals, dropped balls, six kinds of game interruption with retake and abort, time-outs, penalties, cards; each has `isLegal` and `perform` | called by the command handler, the buttons and the clock thread |
| **GameController: AutoRef command handler** (`SimulatorUpdateComponent.java`, `EventHandler.java`) | the queue of commands, the last UI event | `handleCommand` for each line of the AutoRef interface (`AutoRefAPI.md`), replies OK / ILLEGAL / INVALID | AutoRef server (queues), match data |
| **GameController: AutoRef server** (`AutoRefServer.java`) | the TCP connection, two queues | accept, read a line, CLOCK at once, others to the queue, flush replies | referee (TCP) |
| **GameController: clock thread** (`Clock.java`, `ClockTick.java`, `GameClock.java`, `ExtraClock.java`) | none of its own | READY to SET, the second half after half of the pause | event handler |
| **GameController: operator's buttons** (`HL_SimGui.java`) | none | all actions, and those AutoRef lacks: time-outs, choice of the kick-off, Undo | event handler |
| **GameController: sender, return data, robot watcher** (`Sender.java`, `GameControlReturnDataReceiver.java`, `RobotWatcher.java`) | a clone of the match data, packet number, last sign of life of each robot | broadcast over UDP, removal of served penalties on the clone | referee, robots, bouncer (UDP) |
| **GameController: log and undo** (`Log.java`, `Undo.java`) | a time line of clones | restore an earlier clone | match data |
| **GameController: monitor and analyzer** (`teamcomm`, `analyzer`) | copies | display | – |
| **Referee** (`controllers/referee/referee.py`) and its copy for FIRA | its view of the match from UDP snapshots, unanswered commands, awaited state, positions, fouls, shoot-out count | set-up, main loop by game state, goals, penalties, stop rule of the shoot-out | GameController (TCP out, UDP in), simulator |
| **UDP bouncer, team starter** (`udp_bouncer.py`, `start_teams.py`) | a queue of packets, lists of hosts | forward snapshots and team messages, start processes | GameController, robots |
| **Player server** (`controllers/player/player.cpp`) | the connection of a client, the partly received message, sensors and motors, enabled flags | accept, reassemble messages, act on them, send sensor data, penalties and red cards by `customData` | clients (TCP), simulator, referee |
| **Player clients** (`robot_client.*`, `communication_manager_robokit.py`, `message_manager.py`) | sensor history, pending servo message | two threads over one connection | player server |
| **Blurrer and model** (`blurrer.py`, `model_robokit.py`) | consistency value | noise on positions | clients |
| **Robofest team** (`Robofest_TEAM`) | last snapshot, strategy | react to the game state | snapshots (UDP), clients |
| **Sprint, marathon, basketball** | times and positions | stand-alone referees | simulator |

A match works like this: the referee chooses the sides and the kick-off over TCP, asks for
state changes, reports goals, and follows the game through UDP snapshots. The
GameController decides which command is legal and what it does; its clock thread ends
READY and starts the second half on its own; a person may press buttons meanwhile.
Commands, buttons and the clock run in one thread (the Swing event queue and the
synchronized `EventHandler.register`), so that one action is one step; what interleaves
is the order of actions of three independent actors.

What makes each part correct, and what is hard:

* *Match data*: a clock that is stopped by toggling it, a backup slot that two
  features share, sides and teams swapped in an array while other fields name teams or
  sides, time spread over two counters, a bit mask that is added to. The hazards
  are long sequences of legal calls, several actors' calls interleaved, boundary values.
* *Command handler*: commands that are rejected after half of their effect, nested handling.
* *Clock thread*: things that must happen by themselves.
* *Referee*: decisions on stale snapshots, waiting for a state it may never see.
* *Penalties*: times kept by place while teams change places, an expiry that only a copy learns of, several
  writers (commands, buttons, the clock thread).
* *AutoRef server and command handler*: replies that wait for the next line, commands handled within commands.
* *Player server*: messages in pieces, disconnection in the middle of one, penalties written by another
  process at any moment, tables that must agree, and a simulation that stands still while the server waits.

`PROJECT.json` lists each hazard at its line with the properties that cover it.

## The modules

**GameController and referee**

| Module | Models |
|---|---|
| `GameControl` | the match data, one operator per action: `perform` guarded by `isLegal`; the clock thread's two actions; time |
| `AutoRefMatch` | `GameControl` under the commands of `SimulatorUpdateComponent.handleCommand`, the clock thread and time; set-up commands; the properties, the inductive invariant and the refinement mapping |
| `OperatorMatch` | `AutoRefMatch` with a person who calls time-outs and chooses the kick-off |
| `Match` | abstract specification: periods, ball and goals as the audience sees them |
| `Penalties` | who is penalised, since when and whether the time runs; the commands, buttons and match events that change it; the copy that the Sender broadcasts |
| `AutoRefLink` | `Penalties` under commands on their way: the thread of `AutoRefServer`, the two queues, the event thread with its nested updates, the AutoRef that sends and may leave |
| `StopRule` | the table by which the referee ends a shoot-out (`need_to_stop_penalty_shootout`), and its definition: `Decided` |
| `Shootout` | abstract specification: shots in turn, one goal each at most, over exactly when decided |
| `ShootoutByRule` | a shoot-out ended by the table, its invariant |
| `RefereeMatch` | the main loop of `referee.py` composed with `AutoRefMatch`, with commands over TCP and snapshots over UDP; extends `AutoRefMatch` and `StopRule`, mapped on `Shootout` |

**Player server and its clients**

| Module | Models |
|---|---|
| `RequestStream` | abstract specification: the requests of a connection are acted on whole, in order, each once |
| `PlayerReceive` | connections, and how the server reads requests from a stream of bytes (`receiveMessages`, `receiveData`); implements `RequestStream` |
| `PlayerMotors` | the motors under requests, penalties and red cards (`processBuffer`, `stopMotors`, `resumeMotors`, `step`) |
| `PlayerSensors` | the two tables of sensors, the devices, the quota of the cameras, recognition (`processBuffer`, `prepareSensorMessage`, `updateDevices`) |
| `PlayerServer` | `PlayerMotors` and an instance of `PlayerSensors` in one step of the controller |
| `PlayerLink` | who waits for whom: the server in lockstep with the simulation (`send_all`), a client that blocks, two bounded buffers |

**Instances for TLC**: `MCAutoRef`, `MCOperator`, `MCAutoRefLink`, `MCShootout`, `MCReferee`, `MCPlayerReceive`,
`MCPlayerServer`, `MCPlayerSensors`, `MCPlayerLink`.

**Proofs**: `AutoRefProofs`, `OperatorProofs`, `ShootoutProofs`, `RefereeProofs` (which uses an instance of `ShootoutProofs`),
`AutoRefLinkProofs`, `PlayerReceiveProofs`, `PlayerServerProofs`, `PlayerLinkProofs`.

### How state and actions correspond to the code

`gameState`, `secGameState`, `previousSec`, `info`, `firstHalf`, `kickOffTeam`,
`leftSideKickoff`, `timeOutActive`, `timeOutTaken`, `refereeTimeout`, `manPause` and
`manPlay` are the fields of the same (or nearly the same) names. `leftTeam` is the team in
`team[0]`; `score`, `penaltyShot` and `singleShots` are kept per team, as the code keeps them
in the `TeamInfo` that moves with the team. `matchType` is the type in `game.json`, from
which `gameType` and `startWithPenalty` follow.

*Time.* The code keeps absolute time stamps in milliseconds. `inState` is
`getTime() - whenCurrentGameStateBegan` and `timeBefore` is `timeBeforeCurrentGameState`.
Both saturate at `HalfTime`: everything the code asks of them beyond it is that the time
has run out, and clocks of READY and of the pause are shorter (`TimesOrdered`).
`secondaryClock` is the countdown `GameClock.secondaryClock`, which stops at 0 here and goes
below in the code; it is only compared with a bound above 0. `manPause` stops `getTime()`,
and with it `inState`, but not the secondary clock, which asks the system clock.

*Commands that do nothing.* A rejected command, or one whose `perform` returns at once, is a
stuttering step. The exception is KICKOFF (`KickOffCommand`), whose handler changes
`kickOffTeam` before it asks.

*Set-up.* The referees of the repository send SIDE_LEFT and KICKOFF once, first
(`referee.py:1161-1177`). `Next` allows other commands only then (`setUp`). `AnyNext` allows
these two at any time, as the interface does.

*Referee.* `view` is `game.state`, `waitFor` is `game.wait_for_state` (first `INITIAL`), `processed` is the set of
states whose `<state>_state_processed` flag is set, `finishSent` is `finish_just_sended`, `shots` is
`penalty_shootout_count`, `sideLeft` is `game.side_left`. READY, SET and INITIAL each have a deadline of
their own in real time; as each is set on entry to its state and read only there, one flag `timer` stands
for the three. `pc` is the place in the loop: a command is sent, answered (`answer`), and then the
referee takes snapshots until the awaited state comes (`wait`). The command of the interface's clock is part of `Top`, so
the GameController's time passes only with a step of the simulation. An `ILLEGAL` answer is fatal
(`error(fatal=True)`). Where the ball goes, and when a deadline passes, are free choices.

*Sender.* `published` is the clone that `Sender` broadcasts. The GameController renews it in
`EventHandler.update` at each heartbeat, before one command is handled. STATE commands go through
`actionPerformed`, which renews it at once; SCORE, OVERTIME and PENALTY-SHOOTOUT call `perform`, and show
only with the next heartbeat (`Renewing`). `udp` is the queue of the referee's socket: in order, with
losses. A loss is a packet that `Broadcast` did not send; packets that repeat the one before are left out, because
they change nothing in the referee.

*Penalties.* A team has one robot. `penalty` is the robot's `PlayerInfo.penalty`, kept per team as it moves with
the `TeamInfo`; `serving` and `elapsed` are the arrays `isServingPenalty` and the time since `whenPenalized`, indexed by
the place of the team on the field, as in `AdvancedData`. `clone` is the copy that `Sender` keeps, and `shown` who is
penalised in its last broadcast: `Sender.run` removes served penalties from the copy, the stored data keep them
(`Broadcast`). `owed` is no variable of the code: it counts, per robot, what the rules say it has still to serve, from
its penalty and the start of its time. Of the match, `Penalties` keeps the state, the half and the shoot-out; when
the clock thread acts on them is left open, so it allows every order that `GameControl` does.
`selected` is `lastUIEvent` as far as the button of a robot asks for it.

*Commands on their way.* Commands are numbered. `commandQueue` and `returnQueue` are the two queues of
`AutoRefServer`; `thread` is where its loop is: it writes what is in the return queue, then waits for a line. CLOCK is
carried out and answered at once. READY, SET, PLAY and FINISH go through `actionPerformed` and
`EventHandler.update`, which updates the interface, which handles the next command, before the first has returned
(`SimulatorUpdateComponent.java:342`): `open` is this stack of calls, and `Resume` the rest of a call, with the reset
of all penalties after PLAY and FINISH. `settled` remembers, for each penalty, which commands had been answered when
it was sent. An answer reaches the AutoRef when it is written.

*Stream.* A byte is its position in the stream of the connection, so that what the server has in its buffer can be
compared with what was written. `contentSize`, `recvIndex` and `buffer` are `content_size`, `recv_index` and
`recv_buffer`; `received` is the count of one `receiveData`, whose pointer does not advance between two calls of
`recv`. A header of two bytes stands for the four of the code; a byte of a body that is read as part of a header
may have any value. `pc = "undefined"` is the `size_t` of a negative length. Three constants say what the network and
clients may do: `SplitHeader`, `ArriveDuring`, `CutShort`.

*Motors and sensors.* A step of the controller is `BeginStep` (`accept_client`, or the start of
`receiveMessages`), any number of entries of requests, and `EndStep`, the rest of `step`: the look at `customData`, the
message, `updateDevices`. `customData` is written by the referee at any moment. `known` and `command` are
`motor_commands`; a motor of the simulator is what the simulator's API makes of it: it is driven by a position until it is given a
force or a torque. `sensors` and `newSensors` are the two tables of the code; `sampling` and `age` belong to the
device. `wish` and `asked` are what the client wants, kept by the model for the properties. In `PlayerServer` both
share the connection, the step and `customData` (`redCard <- customData = "red_card"`).

*Link.* Requests are counted, and answers in pieces, because the Python client takes 1024 bytes at a time and may
speak after each piece. `rest` is what `send_all` has still to send.

*Left out of the match modules*: cards of robots, `kickOffReason`, log
messages, the test mode, Undo, drop-in games (not a type that `game.json` can ask for), the FIRST HALF
and INITIAL buttons (no effect outside the test mode; INITIAL's `perform` is in the
time-outs), buttons that `HL_SimGui` does not have.

## Runs

| Run | Question | Result |
|---|---|---|
| `match_autoref` | any sequence of commands, the clock thread and time: do clock, set pieces, periods, kick-offs and ends agree with the rules; do READY and the first half end; is it a match? | holds, 239,108 states |
| `match_operator` | the same with time-outs called by a person at any moment | holds, about 2.0 million states |
| `rejected_kickoff` | is the kick-off settled once READY has begun? | violated |
| `timeout_backup` | in a league match, is a time-out on whenever the secondary state is TIMEOUT? | violated |
| `shootout_rule` | does the referee's table end a shoot-out exactly when it is decided, and always? | holds, every score of all 20 shots |
| `referee_match` | referee and GameController in a knock-out match: do they agree on the ends, is every state command in time, does every wait end, does the match end, and only when it is over? | holds, about 144,000 states |
| `referee_shootout` | is the shoot-out that the two play, after an overtime or from the start, the fair one, and is the mask right under this referee? | holds, 2,247,038 states |
| `late_goal` | is every goal that the referee sees taken? | violated |
| `autoref_link` | penalties under commands that nest, buttons, the clock thread and the Sender: does a broadcast show exactly those who owe time, is an AutoRef that waits safe, do all answers come while the server's thread lives? Without shoot-outs | holds, 287,290 states |
| `player_receive` | with headers in one piece, no bytes arriving inside a `receiveData` and connections that end between requests: is each request acted on whole, once, in order, and at last? | holds, 4,380 states |
| `player_server` | does a penalised robot sleep, one that plays move as commanded, a penalty that lasts take effect; are reports fresh and only of what is enabled, and the cameras within their quota? Without forces and torques | holds, 1,139,616 states |
| `player_link` | do server and client never wait for one another; do steps end, clients go on, requests get read, but for red cards? | holds, 1,266 states |

*Bounds.* Two kinds of set piece (`SetPiece`): kinds are only compared for equality, so a
second one shows what a wrong kind does, a third nothing new. `MaxScore = 1`: the guard
of `Goal`; scores matter by tie or no tie, and 1-0, 0-1, 1-1 occur. `MaxShots = 2`
(the guard of `PerformSet`): both teams shoot, retry, and go past a shot that was not counted.
`HalfTime = 3, ReadyTime = 2, PrepTime = 2, MinReadyTime = 1`: READY can be left
before and at its end, a half can run out in PLAYING or through stoppages, the
secondary clock passes through the moment from which PREPARE is legal. `match_operator`
keeps all times at 1, because none of its properties is about time. `PauseTime = 0`
is what HLSim has. The models of the match start in the three match types.

`shootout_rule` has no bound: a shoot-out ends at 20 shots. The referee's runs have no set pieces (it never asks for
one) and the types that the comment in `game.json` allows, `KNOCKOUT` and `PENALTY` (`MatchTypes`). `MaxQueue = 3`, in
`Broadcast`, lets the referee be three changes of state behind, with further ones lost; it sends at most two commands
in an iteration. `MaxScore` bounds `BallInGoal`, `MaxShots` bounds the SET of a shoot-out through `ShotLeft`. In `referee_match`
`HalfTime = ReadyTime = 2`, so that READY may end by the clock thread or by the referee, and a goal may fall before, at and after the
end of time; two goals give a drawn and a decided match, overtime and a shoot-out of up to four shots.
`referee_shootout` plays the regular series of ten shots, in a match that is a shoot-out from the start and after the overtime of
a knock-out match, with up to three goals of each team in all: it can be decided after six
shots at the earliest (3-0), at every later shot, or remain open, where the run stops, and it may begin at 0-0, 1-1, 2-2 or 3-3;
the extended series is covered by `shootout_rule` and `TableIsFair`, and by `ShootoutFair` for these two programs.

`autoref_link`: one robot may be penalised (times and flags of two robots meet only through the change of places, which moves
the one robot's just as well; `AutoRefLinkProofs` covers both, and the account behind the property was model-checked with two as well). `PenaltyTime = 2`: begun, under way, over. Two
commands besides any number of CLOCKs: one nested in another, one queued behind another, a penalty before, within and
after the other command; READY and SET are sent by the operator and the clock thread. Two kinds of penalty: one that is always
legal and one that is legal only in PLAYING. No shoot-outs: see the further configurations.

`player_receive`: bodies of one and three bytes, so that a body comes whole, in two and in three pieces, and three requests on a
connection, so that one is behind, one under way and one arriving; any number of connections. The three constants are FALSE, and the code fails when any of them is TRUE (below): the run is about bodies in pieces, and `PlayerReceiveProofs` about all the rest. `player_server`: one motor,
because what happens to one depends on no other (the proofs are for all); three sensors, as the quota needs two
cameras and the reports a sensor that is none; one position to go to, so that "commanded" and "not commanded" differ, without
forces (see `MCPlayerEffort.cfg`); a period of two steps for the gyro; for one camera two valid periods, 2 and 4, between which it may
change while it is in use, for the other 2, and 1, which is faster than `FastestCamera` and refused: of the quota of 3 a camera at
period 2 takes 2 and one at period 4 takes 1, so that both fit together in one way only. A change of period leaves
the table stale, from which the quota is computed (`MCPlayerPeriod.cfg` below); `CamerasInQuota` excepts such cameras,
and only them. `player_link`: buffers of three
requests and four pieces and answers of one to three pieces, so that an answer fits, fits in part, or finds the buffer full.

*Fairness* (`AutoRefMatch!Fairness`). Weak fairness of the two actions of the clock
thread, which runs `ClockTick` every heartbeat for ever (`Clock.start`), and of time. Nothing is assumed
of the referee or of a person. `ReadyEnds` excepts a frozen clock (a goal during a set
piece; the clock does not run then) and a team at the bound on shots.
The referee's fairness (`RefereeMatch!RefereeFairness`) is weak for heartbeats, command handling, the Sender's thread and the
referee's loop, which all run for ever without waiting for one another, except where
the referee waits for an answer or a state. It is strong for `Top(TRUE)` and `DeadlinePassed`: an iteration that finds no
step of simulated time to report, or a deadline not yet passed, is one among many, while simulated and real time
go on. That a wait ends is therefore a matter of what is sent and awaited. The fairness of `Broadcast` says
that not all packets with a state are lost for ever: the Sender repeats them every 500 ms. It does not say that
a state that the GameController has left is ever seen.

A goal that comes too late (`late_goal`) ends the referee: `MatchEnds` excepts it, and a team at the bound on
shots. `ShootoutEnds` assumes that shots are taken.

`CHECK_DEADLOCK` is on for `AutoRefMatch` and `OperatorMatch`, which never stop. It is off for the shoot-out, which ends,
and for the referee, which leaves (`over`, `fatal`), after which the GameController has nothing left to do.

*Fairness of the link* (`AutoRefLink!Fairness`). While the referee waits for an answer it sends CLOCK every 0.2 s
(`referee.py:579-588`), and the server's thread goes on: so `ReadClock \/ Flush`. The clock thread ticks for ever, and
the event thread ends what it has begun. Without CLOCK the answer to a last command is never written: the thread
waits for a line first. `AnswersCome` excepts a thread that has ended (`AutoRefServer.java:57`).

*Fairness of the player server*. The simulation goes on, so steps begin and end (`PlayerServer`, `PlayerMotors`); the network delivers (strongly, since the server
is "idle" only between its steps) and the server reads (`PlayerReceive`); a client takes what has come, and its `receive`
returns when the answer is whole (`PlayerLink`). Nothing is assumed of what clients send, nor of the referee.

`CHECK_DEADLOCK` is off for `player_link`, where the simulator may be closed.

*The three violations.*

1. `rejected_kickoff`. In READY, KICKOFF is answered ILLEGAL, yet line 88 of
   the handler has already handed the kick-off to the other team. `AutoRefAPI.md:94` describes ILLEGAL as
   a rejected operation.
2. `timeout_backup`. A free kick starts in PLAYING (`previousSecGameState` = NORMAL); the referee's time-out button puts
   the free kick into the backup; its end restores the free kick but leaves TIMEOUT in the
   backup; ABORT, or EXECUTE, then restores TIMEOUT, with no time-out on.
3. `late_goal`. The referee sees that time is up, sends FINISH and awaits no state; the same iteration goes on with
   the ball, and so do the next ones while the snapshot is still one of PLAYING. A ball in the goal becomes a SCORE that the
   GameController, already in FINISHED, rejects, which ends the referee in the middle of the match.
   `OnlyGoalsComeLate` shows that goals are the only such commands.

### Further configurations

Each of these violates the one property it checks. They show why an assumption of a run or a proof is needed. Run as
`tlc -config <cfg> <module>`.

| Configuration | Module | Violates | What happens |
|---|---|---|---|
| `MCAutoRefMask.cfg` | `MCAutoRef` | `MaskCountsGoals` | SET, PLAY, SET again in the shoot-out: the kick goes to the other team but its shot is not counted (`Set.java:38`); its goal adds `1 << (0 - 1)` to a short, which is nothing. This referee never does so (`referee_shootout`) |
| `MCAutoRefShootout.cfg` | `MCAutoRefLink` | `ShownAsOwed` | in a shoot-out penalties outlive a change of ends, and `changeSide` swaps `isServingPenalty` but not `whenPenalized` (`AdvancedData.java:541`): the robot's time is that of the other team |
| `MCPlayerHeader.cfg` | `MCPlayerReceive` | `ActsOnRequests` | half of a header arrives, and is taken for all of it (`player.cpp:526`); `robot_client.cpp:171` sends the header on its own |
| `MCPlayerArrive.cfg` | `MCPlayerReceive` | `ActsOnRequests` | bytes arrive between two calls of `recv` in one `receiveData`, which puts them over the first ones (`player.cpp:547`) |
| `MCPlayerCut.cfg` | `MCPlayerReceive` | `ActsOnRequests` | a client dies in the middle of a request; `recv_index` stays (`player.cpp:1289`), and the next client is read out of step, with a negative length if its request is shorter |
| `MCPlayerEffort.cfg` | `PlayerMotors` | `AwakeAsCommanded` | `resumeMotors` applies position, velocity and force in this order: after a penalty, a motor last given a position is driven by an earlier force |
| `MCPlayerRedCard.cfg` | `PlayerMotors` | `RedCardDisables` | a red card disables the sensors and further requests, but the actuators stay as they are, although the comment in `step` says both |
| `MCPlayerPeriod.cfg` | `MCPlayerSensors` | `SamplesAsAsked` | a period is changed on the device, the table keeps the old one (`std::map::insert`): asking for the old one again does nothing |
| `MCPlayerRender.cfg` | `MCPlayerSensors` | `RenderingInQuota` | a camera that is disabled leaves the table but goes on rendering, and another one takes its share |
| `MCPlayerRecognition.cfg` | `MCPlayerSensors` | `Survives` | a recognition period of 0, which `messages.proto` says disables it, is a divisor (`player.cpp:860`) |
| `MCPlayerRepeat.cfg` | `MCPlayerSensors` | `Silent` | a sensor enabled and disabled within a step is in the new table only, and is enabled all the same |
| `MCPlayerFrozen.cfg` | `MCPlayerLink` | `StepsAlwaysEnd` | after a red card requests are not read any more; the C++ client blocks in `send`, then the server in `send_all`, and with it the simulation |
| `MCPlayerClosed.cfg` | `MCPlayerLink` | `ClientNotices` | the simulator is closed; the client's `recv` returns 0, which is no error to it, for ever (`robot_client.cpp:242`) |

Other disagreements met: `AutoRefAPI.md:77-78` promises an AutoRef whose connection ends a new one, but the
thread of `AutoRefServer` ends with the first. Nothing in the repository writes `red_card` to `customData`; the server handles it,
so the models let it come. After the team time-out button of `HL_SimGui` the other team does not get the next
kick-off, which `src/GameController/README.md:135` says; the shoot-out button stays legal in
a time-out of the shoot-out, so that two time-outs can be on at once; a team time-out
called in SET of the shoot-out keeps the shot counted, a referee time-out does not. An own goal
in a shoot-out is answered ILLEGAL too, and so ends the referee. In a match of type NORMAL, which the comment in `game.json`
does not offer, a draw after the second half makes the referee ask for an overtime that the GameController rejects.

## Proofs

`AutoRefProofs` proves, for all teams, kinds of set piece, times and bounds that satisfy the
ASSUMEs of `GameControl`:

* `Invariance`: `MatchInv` is an invariant. `SetPieceFreezesClock` alone is not inductive: the
  interruption guard `InterruptionLegal` starts a set piece in PLAYING of NORMAL or OVERTIME only, but
  its end returns to `previousSec`, so the invariant must know that the backup is one of
  these (`SetPieceFreezesClock`'s last conjunct) and that no time-out interferes (`NoTimeOutSeen`). `KickOffInv` ties
  `kickOffTeam`, `leftSideKickoff`, `leftTeam` and the history variable `halfKickOff` together,
  which `KickOffAlternates` needs.
* `TypeCorrect`, `SetPieceSafe`: its two conjuncts that the run checks.
* `PeriodsOrdered`, `KickOffsAlternate`, `ClockMonotone`, `ShotsAtOneEnd`: the action properties. The
  argument is one lemma per action about what it does to the period (`SamePeriod`, `NewHalf`, `ToShootOut`), to
  the time played, and to kick and ends together.
* `Refinement`: under the mapping `Audience` every step of `AutoRefMatch` is a step of `Match` or a stutter, from the same invariant.

`OperatorProofs` proves, for the same constants, that time-outs called by a person at any moment leave three things intact:
`PauseSafe`, `TimeOutSafe` and `InfoSafe`, from `OperatorInvariance`. None of the three is inductive, and `MatchInv` does not hold here:
the backup slot may hold TIMEOUT or a set piece. `TimeOutsNest` says what it can hold: a time-out shows TIMEOUT (or PENALTYSHOOT,
as that button stays legal in a time-out), the referee's and a team's meet only in a shoot-out, and a set piece is never on in INITIAL or
FINISHED, where a half could begin. That a set piece may restore TIMEOUT is part of it: this is the violation `timeout_backup`.

`ShootoutProofs` proves, for any two teams:

* `RuleInvariant`: `RuleInv` is an invariant of a shoot-out ended by the table. It must say more than the counts: the table
  looks only at the shots and the two scores and is right only for scores that an undecided shoot-out can reach. So the invariant
  carries `Open`: before the current shot nothing was decided, and in the extended series, which begins level, a lead is at
  most the shots taken in it.
* `TableIsFair`: from it, `ShootoutByRule` implements `Shootout`: one case for each number of shots (`SameVerdict`).

`RefereeProofs` proves, for every length of the queue and all times:

* `RefereeDrives`: `RefereeMatch` implements `AutoRefMatch`'s `[Next]_vars`. `Next` allows KICKOFF and SIDE_LEFT only in the
  set-up and the others only after it, and the referee's order is spread over `pc`, `after`, `cmd` and `reply`: `SetUpInv` says
  for each place how far the set-up is.
* `RefereeSafe`: so `MatchInv` holds under this referee, with type correctness and the clock of set pieces; and
  `RefereeShowsMatch`: what the audience sees is a match.
* `RefereeInvariance`: `RefereeInv` is an invariant. The properties below are about one snapshot and the match at
  one moment; what makes them true is the chain between the two. `Line` says that `view`, each packet of `udp`, `published` and
  the data of the match follow one another (`Recent`, `InOrder`): a snapshot differs from the match by what the clock thread or the one
  command under way can have done, and no more. `Place` ties this to where the referee is: in the loop (`Idle`), sending a
  command that is still legal (`UnderWay`), or waiting for a state that the match is in and that none of the snapshots taken so far
  showed (`Waits`); `Once` that the `<state>_state_processed` flags let each state be entered once; `Sides` that the referee and the
  GameController differ about the ends exactly while a change of ends is still on its way (`FlipPending`); `Counted` that its
  count of shots lags by the shot being taken. TLC evaluated `RefereeInv` in the model of `referee_match` and
  in a shoot-out of four shots before it was proved; it can be added to the INVARIANTS of `MCReferee.cfg`.
* `RefereeTypeCorrect`, `SidesSafe`, `LeaveSafe`: its consequences. `LateSafe` (no command but a goal comes too late) needs
  that no match has the type NORMAL: in a tied one the referee asks for an overtime that is rejected, as said above. `game.json`
  offers KNOCKOUT and PENALTY.
* `AwaitedStays`: the safety behind `WaitEnds`, for every length of the queue. While the referee waits, the match is in the awaited
  state, and the last snapshot showed another one; so the change that ends the wait is still to come and is not lost. `Waits` leaves one
  thing open: READY ends by the clock. `ReadyKept` says that it has not, as simulated time stands while the referee waits. The
  assumption is `0 < ReadyTime`: else READY could be over before it is broadcast, and the wait for it would never end.
* `ShootoutFair`: a shoot-out, after an overtime or from the start, implements `Shootout`. `ShootoutProofs` is
  instantiated under the mapping of `RefereeMatch`: each command of the referee is a step of `ShootoutByRule` (`PlayByRule`), its verdict is
  the table's on the true score although it reads a snapshot (`VerdictByRule`), and the rest stutters (`ElseShot`). `ShotInvariance` proves `ShotInv`, the
  invariant for it. `ShooterSeen`: every snapshot of the end of a shot names the team that took it. `MaskInv`: no bit of the current or a
  later shot is set, so a goal sets a new one, and the scores differ by what the two masks differ. The score from which the referee
  decides has the goals of the match in it; the table asks for the lead only (`TableByLead`, `SameLead`), and the command that starts a
  shoot-out comes after a draw (`UnderWay`, `BeforeShootOut`), so that they cancel out. Until then the masks and the counts of
  shots are 0 and the shoot-out of the mapping is one that has not begun (`ShotWaits`).
* `MaskSafe`: with this referee `MaskCountsGoals` holds, by `MaskInv`;
  the arithmetic of the 15 weights is `DivideHeavier` and `OneMore`.

The proof of `VerdictByRule` met one mistake of the model: two guards of the CASE in `ShootoutPhase` overlapped once the
referee had left, so that the mapping had no defined value there; TLC took the first one.

`RefereeConstants` (the match types, a queue of at least one place, and None distinct from the names of states and answers)
and `TwoTeams` are the assumptions that these add.

`AutoRefLinkProofs` proves, for every AutoRef, any robots, kinds and lengths of a penalty, and queues of any length:

* `CommandsInOrder`: `Awaited`. Numbers rise along the stack of calls and then the queue (`InOrder`), so no command is in two
  places; what waits or is being carried out is unanswered, and what was answered when a command was sent stays so.
* `AnsweredIsSafe`: therefore the command at the top of the stack, whose end wipes penalties, was not answered when any
  penalty in force was sent (`WaitingIsSafe`).
* `AccountsBreak`: the time a robot owes is what its flags and the times of its place say (`Due`), in the data and in
  the copy (`Account`), and no step changes that but one: in a shoot-out the sides change with a shot while a robot is penalised
  (`SwapsPenalized`), as `changeSide` leaves the times in their places and the penalties on. The expiry on the copy alone is no part of it: the data keep a served penalty with nothing left to serve.
* `AccountsAgree`: so `Account` holds until the shoot-out, and always in matches without one; `ShownBeforeShootOut`: until then a broadcast
  shows exactly those who owe time; `ShownRightly`: `ShownAsOwed`, for matches without a shoot-out (`~ShootOuts`).
  `MCAutoRefShootout.cfg` shows that it fails in one.

`PlayerReceiveProofs` proves, for every set of sizes, any number of requests and connections and all values of the three constants,
that is, whatever the network and the clients do:

* `ReceiveTypeCorrect`: `ReceiveTypeOK` holds exactly as long as no connection ends with a `recv_index` that is not 0
  (`KeepsIndex`). So headers in parts and bytes that come inside a `receiveData` garble requests, but they do not take the server
  out of its buffer. The invariant behind it is `PlaceInv`: a `receiveData` under way stays within what it fills.
* `StreamInvariant`: the server is at its place in the stream (`StreamInv`) exactly as long as it takes no step of three kinds
  (`LosesPlace`): `KeepsIndex`, a part of a header taken for all of it (`PartHeader`), a second `recv` of one `receiveData`
  (`Overwrites`). Nothing else that can happen loses the place: bodies in any pieces, bytes that come between two calls of `receiveData`, a client that
  dies before the first byte of a body or within a header, a send that fails, red cards. And each of the three does lose it: the further
  configurations above show one run each, the theorem says so of every such step. `ReceiveTypeOK` and `InStep` are not inductive: between two pieces
  of a body the buffer must be known to hold its bytes up to `recvIndex + received`, each in its place, and the number of bytes taken to
  agree with it (`BodyInv`); while a header is read the same for its bytes (`HeaderInv`).
* `ActsRightly`: a step that is taken at the right place, even one that loses it, acts on nothing but the next request;
  `ReceivesInOrder`: it is a step of `RequestStream`, so that a behaviour without steps of the three kinds implements it;
  `InStepUntilLost`: and is always `InStep`. After `PartHeader` or `Overwrites` only `ReceiveTypeOK` is left, after `KeepsIndex` not even that.
* `QuietNetworks` (no more than the link to the run): with the constants as `player_receive` has them, no step of the three kinds can be taken.

`PlayerServerProofs` proves, for any motors and commands, `MotorsTypeCorrect`, `PenalizedAsleep` (`Asleep`: motors that were never
used rest, those with an entry are at position 0 since `stopMotors`, and nothing moves them), and `PenaltySparesPositions` (`AwakeUnforced`: a motor that has been given no force or torque, whatever the
others were given, is as commanded when the robot plays; an entry of `motor_commands` holds what the client wants of the motor, also
while it sleeps). `PenaltyLeavesNoTrace` (`AwakeAsCommanded`) follows for clients that command no forces and torques; `MCPlayerEffort.cfg`
shows why without. They are about `PlayerMotors`; `ServerMovesMotors` shows that `PlayerServer`
takes only its steps, and `ServerAsleep` and `ServerAwake` that the two hold in the whole server. Of its sensors it proves, for any sensors,
cameras, periods and quota: `OnlyReadValues` (`NoUnreadValues`: what is in the table was enabled when the step began, because
a new sensor enters only at the end of a step) and, if no client names a sensor twice in a step, `OnlyWantedValues`
(`Silent`; `MCPlayerRepeat.cfg` shows why). `CamerasShareQuota` (`CamerasInQuota`): what the cameras render together is stated as a number of
units of rendering (`Together`, which TLC compares with the sum, `TogetherIsSum`), so that it grows with its terms
(`TogetherMonotone`) and a camera can be taken out of it (`TogetherSplits`). The property is about the periods at which the
devices sample; what is inductive, `QuotaInv`, is about the periods in the two tables, which the code adds up, and says that a camera in
`newSensors` samples at the period that is counted for it.

`PlayerLinkProofs` proves, for buffers of any size, `LinkTypeCorrect` (neither buffer overflows) and `NeverBothWait`, from an account (`Paid`): after the server has
read all requests, each request in its buffer was paid for by a piece that the client took from the other. The assumption is
`LinkConstants`: the buffer of the server holds as many requests as an answer has pieces.

The assumptions of the modules of the match are the four ASSUMEs of `GameControl` (distinct teams, names of the
set pieces, order of the times, bounds); each of the other modules states the types of its constants in one ASSUME. TLC evaluates them in the runs. TLC also checked `MatchInv` as an
invariant of `match_autoref` before it was proved.

*Only model-checked*: liveness (`ReadyEnds`, `SecondHalfComes`, `ShootoutEnds`, `WaitEnds`, `MatchEnds`, `AnswersCome`, `EachActedOn`,
`PenaltyObeyed`, `StepsEnd`, `ClientGoesOn`, `RequestsRead`), which the prover
cannot do under fairness. Of `WaitEnds` the safety part is a theorem (`AwaitedStays`). All other properties of the
runs that hold are theorems.

## Not modelled

* *Cards, ejections, substitutions, the goalkeeper of a shoot-out, the number of penalties of a robot.* A card is a counter
  (`CardIncrease`: two warnings are a yellow card, two of these a red one) that no other action reads; only an ejected robot cannot be
  penalised (`Robot.java:102`), and nothing in the program ever sets `ejected`. `Penalties` has one robot per team.
* *Undo and the log.* A button of last resort that AutoRef lacks; its states are pairs of states of a match. The test mode and drop-in games.
* *Return data, robot watcher, team communication monitor, log analyzer.* Displays; what robots return is not used by this referee.
* *The referee's penalties* (`update_team_penalized_from_gamecontroller`), its placing of robots and its geometry: real numbers.
  What it writes to `customData` comes at any moment in `PlayerServer`.
* *The referee of FIRA*: a near copy of `referee.py`, of the same loop.
* *The player server's* check of a client's host, warnings, exposure of cameras, measurements and images: formats.
* *Clients*: their two threads over one connection (`communication_manager_robokit.py`), which only replace the last request and
  the last message, and what they do with measurements.
* *UDP bouncer*: it keeps no state on which it acts; to a receiver it is part of the network. *Robofest team, blurrer, the sprint,
  marathon and basketball referees*: real-number control and single loops.
* *Vendored code*: the library of protocol buffers with its generated tests (`controllers/player/protobuf`, most lines of
  the repository), the simulator's protos and worlds.

## Plan

1. (done) The match: `GameControl`, `AutoRefMatch`, `OperatorMatch`, `Match`, their proofs.
2. (done) The referee: `StopRule`, `Shootout`, `ShootoutByRule`, `RefereeMatch`, their proofs.
3. (done) `Penalties` and `AutoRefLink`, their proofs.
4. (done) The player server: `PlayerReceive` and `RequestStream`, `PlayerMotors`, `PlayerSensors`, `PlayerServer`, `PlayerLink`, their proofs.
5. (done) The invariants of `OperatorMatch`, `RefereeMatch` and `PlayerServer`, their proofs; the referee's shoot-out as an instance of `ShootoutProofs`.
6. (done) The proofs about the shoot-out after an overtime, the quota of the cameras, motors one by one, the referee's waits, and penalties up to
   and in a shoot-out.
