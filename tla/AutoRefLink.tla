---------------------------- MODULE AutoRefLink ----------------------------
(***************************************************************************)
(* The way of a command of the AutoRef through the GameController: the     *)
(* thread of AutoRefServer that reads lines and writes answers, the queues *)
(* between it and the event thread, and SimulatorUpdateComponent, which    *)
(* handles one command in every update of the user interface.  READY, SET, *)
(* PLAY and FINISH are registered as events of their own: the update at    *)
(* the end of the event handles the next command, before the first one is  *)
(* finished and answered.                                                  *)
(*                                                                         *)
(* Commands are numbered as they are sent, and the AutoRef may send before *)
(* it has an answer.  An answer reaches it when it is written: later only  *)
(* lets it wait longer.                                                    *)
(***************************************************************************)
EXTENDS Penalties, Sequences, SequencesExt

CONSTANTS
  Commands,              \* the commands without arguments that the AutoRef sends
  MaxCommands,           \* bound: commands of a run, but for CLOCK
  Leaves                 \* the AutoRef may close the connection

States == {"READY", "SET", "PLAY", "FINISH"}
Others == {"SECOND-HALF", "PENALTY-SHOOTOUT", "SCORE"}

ASSUME LinkConstants ==
  Commands \subseteq States \cup Others /\ MaxCommands \in Nat /\ Leaves \in BOOLEAN

VARIABLES
  thread,                \* AutoRefServer: "flush", "read", or "dead"
  sent, unanswered,      \* the AutoRef: commands sent, and which of them await an answer
  commandQueue,
  returnQueue,           \* returnCommunicationQueue: the numbers of answered commands
  event,                 \* the event thread: "update" before gui.update, "return" after it
  open,                  \* commands whose actionPerformed has not returned, the outermost first
  settled                \* for each penalty, the commands that were answered before it was sent

linkVars == <<thread, sent, unanswered, commandQueue, returnQueue>>
callVars == <<event, open>>
vars == <<dataVars, selected, sendVars, linkVars, callVars, settled>>

----------------------------------------------------------------------------
(* The AutoRef and the thread of AutoRefServer.                            *)

Line ==
  [op : Commands] \cup [op : {"PENALTY"}, team : Robots, kind : Kinds]

\* readLine returns a command.
ReadCommand ==
  /\ thread = "read" /\ thread' = "flush"
  /\ sent < MaxCommands
  /\ sent' = sent + 1
  /\ \E line \in Line :
       commandQueue' = Append(commandQueue,
         [id |-> sent + 1, line |-> line, settled |-> (1..sent) \ unanswered])
  /\ unanswered' = unanswered \cup {sent + 1}
  /\ UNCHANGED <<dataVars, selected, sendVars, returnQueue, callVars, settled>>

\* Mutant of ReadClock: after a CLOCK the next line is waited for at once.
ReadClocks ==
  /\ thread = "read"
  /\ \/ TimePasses
     \/ UNCHANGED <<dataVars, selected, sendVars>>
  /\ UNCHANGED <<linkVars, callVars, settled>>

\* readLine returns a CLOCK, which is carried out and answered at once.
ReadClock ==
  /\ thread = "read" /\ thread' = "flush"
  /\ \/ TimePasses
     \/ UNCHANGED <<dataVars, selected, sendVars>>
  /\ UNCHANGED <<sent, unanswered, commandQueue, returnQueue, callVars, settled>>

\* readLine returns null, which ends the thread.
ReadEnd ==
  /\ Leaves
  /\ thread = "read" /\ thread' = "dead"
  /\ UNCHANGED <<dataVars, selected, sendVars, sent, unanswered, commandQueue, returnQueue,
                 callVars, settled>>

\* The answers are written only before the next line is waited for.
Flush ==
  /\ thread = "flush" /\ thread' = "read"
  /\ unanswered' = unanswered \ ToSet(returnQueue)
  /\ returnQueue' = <<>>
  /\ UNCHANGED <<dataVars, selected, sendVars, sent, commandQueue, callVars, settled>>

----------------------------------------------------------------------------
(* The event thread.                                                       *)

Idle == event = "return" /\ open = <<>>

\* An event of the clock or the operator; the update of the interface follows.
BeginEvent ==
  /\ Idle /\ event' = "update"
  /\ Event
  /\ UNCHANGED <<linkVars, open, settled>>

Answer(c) == returnQueue' = Append(returnQueue, c.id)

Return(c) == event' = "return" /\ open' = open /\ Answer(c)

\* The rest of the events update of EventHandler, with the update of the interface to come.
Nested(c) ==
  /\ Perform(c.line.op)
  /\ selected' = "none" /\ Send
  /\ event' = "update" /\ open' = Append(open, c)
  /\ UNCHANGED <<returnQueue, settled>>

\* Mutant of StateCommand: it is answered before it is carried out.
StateAnsweredFirst(c) ==
  IF Legal(c.line.op)
  THEN /\ Perform(c.line.op)
       /\ selected' = "none" /\ Send
       /\ event' = "update" /\ open' = Append(open, c)
       /\ Answer(c) /\ UNCHANGED settled
  ELSE Return(c) /\ UNCHANGED <<dataVars, selected, clone, settled>>

\* handleStateChanged: READY, SET, PLAY and FINISH.
StateCommand(c) ==
  IF Legal(c.line.op) THEN Nested(c)
  ELSE Return(c) /\ UNCHANGED <<dataVars, selected, clone, settled>>

\* The commands that are carried out directly; the Sender learns of it at the next event.
OtherCommand(c) ==
  /\ CASE c.line.op = "SECOND-HALF" /\ SecondHalfLegal        -> SecondHalf
       [] c.line.op = "PENALTY-SHOOTOUT" /\ PenaltyShootLegal -> PenaltyShoot
       [] c.line.op = "SCORE" /\ gameState = "PLAYING"        -> Goal
       [] OTHER                                               -> UNCHANGED dataVars
  /\ Return(c)
  /\ UNCHANGED <<selected, clone, settled>>

\* handleRobotPenalty.
PenaltyCommand(c) ==
  /\ IF PenaltyLegal(c.line.kind)
     THEN /\ PerformOn(c.line.team, TRUE)
          /\ settled' = [settled EXCEPT ![c.line.team] = c.settled]
     ELSE UNCHANGED <<penalty, timeVars, owed, settled>>
  /\ Return(c)
  /\ UNCHANGED <<matchVars, leftTeam, selected, clone>>

\* update of SimulatorUpdateComponent: one command, if there is one.
Handle ==
  /\ event = "update" /\ commandQueue # <<>>
  /\ commandQueue' = Tail(commandQueue)
  /\ LET c == Head(commandQueue)
     IN  \/ c.line.op \in States /\ StateCommand(c)
         \/ c.line.op \in Others /\ OtherCommand(c)
         \/ c.line.op = "PENALTY" /\ PenaltyCommand(c)
  /\ UNCHANGED <<thread, sent, unanswered, shown>>

NothingToHandle ==
  /\ event = "update" /\ commandQueue = <<>>
  /\ event' = "return"
  /\ UNCHANGED <<dataVars, selected, sendVars, linkVars, open, settled>>

\* PLAY, outside the shoot-out, and FINISH end with all penalties.
Resets(op) == (op = "PLAY" /\ ~shootOut) \/ op = "FINISH"

\* actionPerformed returns to the handler.
Resume ==
  /\ event = "return" /\ open # <<>>
  /\ IF Resets(Last(open).line.op)
     THEN ResetPenalties
     ELSE Untouched
  /\ Answer(Last(open))
  /\ open' = Front(open)
  /\ UNCHANGED <<matchVars, leftTeam, serving, selected, sendVars, thread, sent, unanswered,
                 commandQueue, event, settled>>

Sender == Broadcast /\ UNCHANGED <<linkVars, callVars, settled>>

----------------------------------------------------------------------------
(* The specification.                                                      *)

LinkInit ==
  /\ Init
  /\ thread = "flush" /\ sent = 0 /\ unanswered = {}
  /\ commandQueue = <<>> /\ returnQueue = <<>>
  /\ event = "return" /\ open = <<>>
  /\ settled = [t \in Team |-> {}]

Next ==
  \/ ReadCommand \/ ReadClock \/ ReadEnd \/ Flush
  \/ BeginEvent \/ Handle \/ NothingToHandle \/ Resume
  \/ Sender

\* The AutoRef sends CLOCK while it waits, and the thread of the server goes on; the clock
\* thread ticks, and the event thread ends what it has begun.
Fairness ==
  /\ WF_vars(ReadClock \/ Flush)
  /\ WF_vars(BeginEvent /\ ClockTick)
  /\ WF_vars(Handle \/ NothingToHandle \/ Resume)

LinkSpec == LinkInit /\ [][Next]_vars /\ Fairness

----------------------------------------------------------------------------
(* Properties.                                                             *)

\* "a robot is removed from the field suffering a 30 sec removal penalty" (AutoRefAPI.md): a
\* broadcast shows a robot as penalised exactly as long as it owes its time by the rules,
\* counted per robot from its penalty and the start of its time, though the program keeps
\* the times by place, lets them run out on a copy only and never forgets who was serving.
ShownAsOwed ==
  [][Sender => \A t \in Team : t \in shown' <=> clone[t].owed > 0]_vars

\* A penalty is not wiped by a command that was answered before it was sent: an AutoRef
\* that waits for its answers is safe from the nesting of commands.
WaitingIsSafe ==
  [][\A t \in Team : penalty[t] /\ ~penalty'[t] /\ Resume => Last(open).id \notin settled[t]]_vars

\* "For every message received, the GameController will send a response message"
\* (AutoRefAPI.md), as long as the AutoRef stays and sends CLOCK: again and again, after
\* whatever commands, none awaits its answer.
AnswersCome == []<>(unanswered = {} \/ thread = "dead")

----------------------------------------------------------------------------
(* The inductive invariants behind ShownAsOwed and WaitingIsSafe.          *)

\* What a robot owes, told from the data: all of the time until it begins, none when it is
\* not penalised.
Due(p, s, e) == IF p THEN IF s THEN PenaltyTime - e ELSE PenaltyTime ELSE 0

DataTypeOK ==
  /\ leftTeam \in Team
  /\ penalty \in [Team -> BOOLEAN] /\ owed \in [Team -> 0..PenaltyTime]
  /\ serving \in [Place -> BOOLEAN] /\ elapsed \in [Place -> 0..PenaltyTime]

\* Places change only when all penalties are reset, but in a shoot-out.
DataAccount ==
  /\ DataTypeOK
  /\ \A t \in Team : owed[t] = Due(penalty[t], serving[PlaceOf(t)], elapsed[PlaceOf(t)])

CloneAccount ==
  /\ clone \in [Team -> [penalty : BOOLEAN, serving : BOOLEAN, elapsed : 0..PenaltyTime, owed : 0..PenaltyTime]]
  /\ \A t \in Team : clone[t].owed = Due(clone[t].penalty, clone[t].serving, clone[t].elapsed)

Account == DataAccount /\ CloneAccount

\* A shot of a shoot-out begins at the other end while a robot is penalised.
SwapsPenalized == shootOut /\ leftTeam' # leftTeam /\ \E t \in Team : penalty[t]

Answered == (1..sent) \ unanswered

Commanded == [id : Nat, line : Line, settled : SUBSET Nat]

QueuesTypeOK ==
  /\ sent \in Nat /\ unanswered \subseteq 1..sent
  /\ commandQueue \in Seq(Commanded) /\ open \in Seq(Commanded) /\ returnQueue \in Seq(Nat)
  /\ settled \in [Team -> SUBSET Nat]

\* Commands are carried out in the order in which they were sent, the nested ones too, and
\* answers are of commands before those that wait.
Rising(s) == \A i, j \in 1..Len(s) : i < j => s[i].id < s[j].id

InOrder ==
  /\ Rising(commandQueue) /\ Rising(open)
  /\ \A i \in 1..Len(open), j \in 1..Len(commandQueue) : open[i].id < commandQueue[j].id
  /\ \A i \in 1..Len(returnQueue), j \in 1..Len(commandQueue) : returnQueue[i] < commandQueue[j].id
  /\ \A i \in 1..Len(returnQueue), j \in 1..Len(open) : returnQueue[i] # open[j].id

\* A command that waits or is being carried out awaits its answer; what was answered before
\* a command was sent stays answered.
Awaited ==
  /\ QueuesTypeOK /\ InOrder
  /\ \A i \in 1..Len(commandQueue) :
       commandQueue[i].id \in unanswered /\ commandQueue[i].settled \subseteq Answered
  /\ \A i \in 1..Len(open) : open[i].id \in unanswered
  /\ \A i \in 1..Len(returnQueue) : returnQueue[i] \in unanswered
  /\ \A t \in Team : settled[t] \subseteq Answered

=============================================================================
