---------------------------- MODULE PlayerMotors ----------------------------
(***************************************************************************)
(* The motors of a robot in the player server (player.cpp): the commands   *)
(* of its client, penalties and red cards, which the referee writes to the *)
(* robot's customData while the two programs run.                          *)
(*                                                                         *)
(* motor is what the simulator's motors are set to; wish is what they      *)
(* would be set to if the robot had never been penalised.                  *)
(***************************************************************************)
CONSTANTS
  Motor,
  Position, Velocity, Effort,       \* what clients command; an effort is a force or a torque
  Zero,                             \* position 0
  DefaultVelocity, NaN,
  Data                              \* what the referee writes to customData

ASSUME MotorConstants ==
  /\ NaN \notin Position \cup Velocity \cup Effort \cup {Zero, DefaultVelocity}
  /\ Data \subseteq {"", "penalized", "red_card"}

VARIABLES
  connected, pc,                    \* "idle" between two steps, "receive" within one
  customData,
  actuatorsEnabled, devicesEnabled,
  known,                            \* motors with an entry in motor_commands
  command,                          \* motor_commands
  motor,                            \* the motors
  wish

vars == <<connected, pc, customData, actuatorsEnabled, devicesEnabled, known, command, motor, wish>>
motorVars == <<known, command, motor, wish>>

----------------------------------------------------------------------------
(* A motor of the simulator: a position drives it until an effort does.    *)

Resting == [mode |-> "position", position |-> Zero, velocity |-> DefaultVelocity, effort |-> NaN]

SetPosition(d, p) == IF p = NaN THEN d ELSE [d EXCEPT !.mode = "position", !.position = p]
SetVelocity(d, v) == IF v = NaN THEN d ELSE [d EXCEPT !.velocity = v]
SetEffort(d, e)   == IF e = NaN THEN d ELSE [d EXCEPT !.mode = "effort", !.effort = e]

\* The order of processBuffer and of resumeMotors.
Drive(d, c) == SetEffort(SetVelocity(SetPosition(d, c.position), c.velocity), c.effort)

----------------------------------------------------------------------------
(* A step of the controller.                                               *)

\* What a request or motor_commands say of a motor; NaN where they say nothing.
Command ==
  [position : Position \cup {NaN}, velocity : Velocity \cup {DefaultVelocity, NaN}, effort : Effort \cup {NaN}]

Unsaid == [position |-> NaN, velocity |-> NaN, effort |-> NaN]

BeginStep ==
  /\ pc = "idle"
  /\ \/ connected /\ pc' = "receive" /\ UNCHANGED connected
     \/ ~connected /\ connected' = TRUE /\ UNCHANGED pc        \* accept_client
  /\ UNCHANGED <<customData, actuatorsEnabled, devicesEnabled, motorVars>>

\* getMotorCommand.
Entry(m) == IF m \in known THEN command[m] ELSE [Unsaid EXCEPT !.velocity = motor[m].velocity]

Merge(old, new) == [x \in DOMAIN old |-> IF new[x] = NaN THEN old[x] ELSE new[x]]

\* Mutant of Heard: a command during a penalty is forgotten.
HeardWhenEnabled(m, c) == IF actuatorsEnabled THEN Merge(Entry(m), c) ELSE Entry(m)

Heard(m, c) == Merge(Entry(m), c)

\* Mutant of Obeyed: a command moves a penalised robot.
ObeyedAlways(m, c) == Drive(motor[m], c)

Obeyed(m, c) == IF actuatorsEnabled THEN Drive(motor[m], c) ELSE motor[m]

\* processBuffer. A motor that is given a PID has an entry of its own.
ProcessBuffer ==
  /\ pc = "receive" /\ connected /\ devicesEnabled
  /\ \E said \in [Motor -> [position : Position \cup {NaN}, velocity : Velocity \cup {NaN},
                            effort : Effort \cup {NaN}]] :
     \E tuned \in SUBSET {m \in Motor : said[m] = Unsaid} :
       LET named == {m \in Motor : said[m] # Unsaid} \cup tuned
       IN  /\ known' = known \cup named
           /\ command' = [m \in Motor |-> IF m \in named THEN Heard(m, said[m]) ELSE command[m]]
           /\ motor' = [m \in Motor |-> Obeyed(m, said[m])]
           /\ wish' = [m \in Motor |-> Drive(wish[m], said[m])]
  /\ UNCHANGED <<connected, pc, customData, actuatorsEnabled, devicesEnabled>>

\* recv finds the client gone; the step goes on.
ClientGone ==
  /\ pc = "receive" /\ connected
  /\ connected' = FALSE
  /\ UNCHANGED <<pc, customData, actuatorsEnabled, devicesEnabled, motorVars>>

StopMotors ==
  /\ motor' = [m \in Motor |-> IF m \in known THEN SetPosition(motor[m], Zero) ELSE motor[m]]
  /\ UNCHANGED command

ResumeMotors ==
  /\ motor' = [m \in Motor |-> IF m \in known THEN Drive(motor[m], command[m]) ELSE motor[m]]
  /\ UNCHANGED command

\* Mutant of Penalize: a robot that has a red card by now is let go.
PenalizeWithDevices == customData = "penalized" /\ actuatorsEnabled /\ devicesEnabled

Penalize == customData = "penalized" /\ actuatorsEnabled

Resume == customData = "" /\ ~actuatorsEnabled

\* The rest of the step.
EndStep ==
  /\ pc = "receive" /\ pc' = "idle"
  /\ \/ Resume /\ ResumeMotors /\ actuatorsEnabled' = TRUE /\ UNCHANGED devicesEnabled
     \/ Penalize /\ StopMotors /\ actuatorsEnabled' = FALSE /\ UNCHANGED devicesEnabled
     \/ /\ ~Resume /\ ~Penalize
        /\ devicesEnabled' = (devicesEnabled /\ customData # "red_card")
        /\ UNCHANGED <<actuatorsEnabled, motor, command>>
  /\ UNCHANGED <<connected, customData, known, wish>>

\* The referee.
Write(data) ==
  /\ customData' = data /\ data # customData
  /\ UNCHANGED <<connected, pc, actuatorsEnabled, devicesEnabled, motorVars>>

----------------------------------------------------------------------------
(* The specification.                                                      *)

\* A motor that was given nothing rests at position 0, as the simulator starts it.
Init ==
  /\ connected = FALSE /\ pc = "idle"
  /\ customData = ""
  /\ actuatorsEnabled = TRUE /\ devicesEnabled = TRUE
  /\ known = {} /\ command = [m \in Motor |-> Unsaid]
  /\ motor = [m \in Motor |-> Resting] /\ wish = motor

Next ==
  \/ BeginStep \/ ProcessBuffer \/ ClientGone \/ EndStep
  \/ \E data \in Data : Write(data)

\* The simulation goes on: steps of the controller begin and end.
Fairness == WF_vars(BeginStep) /\ WF_vars(EndStep)

Spec == Init /\ [][Next]_vars /\ Fairness

----------------------------------------------------------------------------
(* Properties.                                                             *)

Device ==
  [mode : {"position", "effort"}, position : Position \cup {Zero},
   velocity : Velocity \cup {DefaultVelocity}, effort : Effort \cup {NaN}]

MotorsTypeOK ==
  /\ connected \in BOOLEAN /\ pc \in {"idle", "receive"}
  /\ customData \in Data \cup {""}
  /\ actuatorsEnabled \in BOOLEAN /\ devicesEnabled \in BOOLEAN
  /\ known \subseteq Motor /\ command \in [Motor -> Command]
  /\ motor \in [Motor -> Device] /\ wish \in [Motor -> Device]

\* "penalized robots gets only their actuators disabled so that they become asleep"
\* (step): all motors of a penalised robot hold position 0, whatever its client sends and
\* whichever motors it used before.
Asleep ==
  ~actuatorsEnabled => \A m \in Motor : motor[m].mode = "position" /\ motor[m].position = Zero

Drives(d) == IF d.mode = "position" THEN d.position ELSE d.effort

\* A robot that plays has its motors as its client last commanded, also what it commanded
\* during a penalty: a penalty leaves no trace.
AwakeAsCommanded ==
  actuatorsEnabled =>
    \A m \in Motor : /\ motor[m].mode = wish[m].mode /\ Drives(motor[m]) = Drives(wish[m])
                     /\ motor[m].velocity = wish[m].velocity

\* A penalty that lasts puts the robot to sleep, unless it never has a client again.
PenaltyObeyed ==
  (customData = "penalized" /\ pc = "receive") ~> (customData # "penalized" \/ ~actuatorsEnabled)

\* "robots with a red card get both sensors and actuators disabled" (step).
RedCardDisables == ~devicesEnabled => ~actuatorsEnabled

=============================================================================
