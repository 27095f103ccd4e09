-------------------------- MODULE PlayerServerProofs --------------------------
(***************************************************************************)
(* Proofs about PlayerMotors for any motors and commands: a penalised      *)
(* robot is asleep, and a robot whose client commands positions and        *)
(* velocities only finds no trace of a penalty afterwards.                 *)
(*                                                                         *)
(* Then about PlayerServer, for any sensors and periods: its motors behave *)
(* as PlayerMotors says, sensors and red cards or not, and what it reports *)
(* was measured and is wanted.                                             *)
(***************************************************************************)
EXTENDS PlayerServer, Integers, FiniteSetTheorems, TLAPS

----------------------------------------------------------------------------
(* Motors.                                                                 *)

Request == [position : Position \cup {NaN}, velocity : Velocity \cup {NaN}, effort : Effort \cup {NaN}]

LEMMA DriveType ==
  ASSUME NEW d \in Device, NEW c \in Command PROVE Drive(d, c) \in Device
<1>1. SetPosition(d, c.position) \in Device
  BY DEF SetPosition, Device, Command
<1>2. ASSUME NEW e \in Device PROVE SetVelocity(e, c.velocity) \in Device
  BY DEF SetVelocity, Device, Command
<1>3. ASSUME NEW e \in Device PROVE SetEffort(e, c.effort) \in Device
  BY DEF SetEffort, Device, Command
<1> QED BY <1>1, <1>2, <1>3 DEF Drive

LEMMA RequestIsCommand == Request \subseteq Command
BY DEF Request, Command

\* What is not said changes nothing.
LEMMA DriveUnsaid ==
  ASSUME NEW d, NEW c, c.position = NaN, c.velocity = NaN, c.effort = NaN PROVE Drive(d, c) = d
BY DEF Drive, SetPosition, SetVelocity, SetEffort

\* Without efforts a motor stays driven by positions.
LEMMA DriveByPosition ==
  ASSUME NEW d \in Device, NEW c \in Command, c.effort = NaN, d.mode = "position"
  PROVE  /\ Drive(d, c).mode = "position"
         /\ Drive(d, c).position = (IF c.position = NaN THEN d.position ELSE c.position)
         /\ Drive(d, c).velocity = (IF c.velocity = NaN THEN d.velocity ELSE c.velocity)
<1> DEFINE p == SetPosition(d, c.position)
           v == SetVelocity(p, c.velocity)
<1>1. /\ p \in Device /\ p.mode = "position" /\ p.velocity = d.velocity
      /\ p.position = (IF c.position = NaN THEN d.position ELSE c.position)
  BY DEF SetPosition, Device, Command
<1> HIDE DEF p
<1>2. /\ v.mode = "position" /\ v.position = p.position
      /\ v.velocity = (IF c.velocity = NaN THEN p.velocity ELSE c.velocity)
  BY <1>1 DEF SetVelocity, Device, Command
<1>3. Drive(d, c) = v
  BY DEF Drive, SetEffort, p
<1> QED BY <1>1, <1>2, <1>3

----------------------------------------------------------------------------
(* Types.                                                                  *)

LEMMA MotorsTyped == Init => MotorsTypeOK
<1> SUFFICES ASSUME Init PROVE MotorsTypeOK
  OBVIOUS
<1>1. Unsaid \in Command /\ Resting \in Device
  BY DEF Unsaid, Command, Resting, Device
<1>2. command \in [Motor -> Command] /\ motor \in [Motor -> Device] /\ wish \in [Motor -> Device]
  BY <1>1 DEF Init
<1> QED BY <1>2 DEF Init, MotorsTypeOK

LEMMA HeardType ==
  ASSUME MotorsTypeOK, NEW m \in Motor, NEW c \in Request PROVE Heard(m, c) \in Command
<1>1. Entry(m) \in Command
  BY DEF Entry, MotorsTypeOK, Command, Unsaid, Device
<1>2. DOMAIN Entry(m) = {"position", "velocity", "effort"}
  BY <1>1 DEF Command
<1> QED BY <1>1, <1>2 DEF Heard, Merge, Command, Request

\* What a request does, motor by motor.
LEMMA ProcessBufferDoes ==
  ASSUME MotorsTypeOK, ProcessBuffer
  PROVE  \E said \in [Motor -> Request] :
         \E named \in SUBSET Motor :
           /\ \A m \in Motor : m \notin named => said[m] = Unsaid
           /\ known' = known \cup named
           /\ command' = [m \in Motor |-> IF m \in named THEN Heard(m, said[m]) ELSE command[m]]
           /\ motor' = [m \in Motor |-> Obeyed(m, said[m])]
           /\ wish' = [m \in Motor |-> Drive(wish[m], said[m])]
           /\ UNCHANGED <<connected, pc, customData, actuatorsEnabled, devicesEnabled>>
<1>0. PICK said \in [Motor -> Request] :
        \E tuned \in SUBSET {m \in Motor : said[m] = Unsaid} :
          LET named == {m \in Motor : said[m] # Unsaid} \cup tuned
          IN  /\ known' = known \cup named
              /\ command' = [m \in Motor |-> IF m \in named THEN Heard(m, said[m]) ELSE command[m]]
              /\ motor' = [m \in Motor |-> Obeyed(m, said[m])]
              /\ wish' = [m \in Motor |-> Drive(wish[m], said[m])]
  BY DEF ProcessBuffer, Request
<1>1. PICK tuned \in SUBSET {m \in Motor : said[m] = Unsaid} :
        LET named == {m \in Motor : said[m] # Unsaid} \cup tuned
        IN  /\ known' = known \cup named
            /\ command' = [m \in Motor |-> IF m \in named THEN Heard(m, said[m]) ELSE command[m]]
            /\ motor' = [m \in Motor |-> Obeyed(m, said[m])]
            /\ wish' = [m \in Motor |-> Drive(wish[m], said[m])]
  BY <1>0
<1> DEFINE named == {m \in Motor : said[m] # Unsaid} \cup tuned
<1>2. named \in SUBSET Motor /\ \A m \in Motor : m \notin named => said[m] = Unsaid
  OBVIOUS
<1>3. UNCHANGED <<connected, pc, customData, actuatorsEnabled, devicesEnabled>>
  BY DEF ProcessBuffer
<1> WITNESS said \in [Motor -> Request]
<1> WITNESS named \in SUBSET Motor
<1> QED BY <1>1, <1>2, <1>3

LEMMA MotorsTypedNext == ASSUME MotorsTypeOK, [Next]_vars PROVE MotorsTypeOK'
<1>1. CASE ProcessBuffer
  <2>1. PICK said \in [Motor -> Request], named \in SUBSET Motor :
           /\ known' = known \cup named
           /\ command' = [m \in Motor |-> IF m \in named THEN Heard(m, said[m]) ELSE command[m]]
           /\ motor' = [m \in Motor |-> Obeyed(m, said[m])]
           /\ wish' = [m \in Motor |-> Drive(wish[m], said[m])]
           /\ UNCHANGED <<connected, pc, customData, actuatorsEnabled, devicesEnabled>>
    BY <1>1, ProcessBufferDoes
  <2>2. command' \in [Motor -> Command]
    <3>1. \A m \in Motor : Heard(m, said[m]) \in Command
      BY HeardType
    <3> QED BY <2>1, <3>1 DEF MotorsTypeOK
  <2>3. motor' \in [Motor -> Device] /\ wish' \in [Motor -> Device]
    <3>1. \A m \in Motor : Drive(motor[m], said[m]) \in Device /\ Drive(wish[m], said[m]) \in Device
      BY DriveType, RequestIsCommand DEF MotorsTypeOK
    <3>2. \A m \in Motor : Obeyed(m, said[m]) \in Device
      BY <3>1 DEF Obeyed, MotorsTypeOK
    <3> QED BY <2>1, <3>1, <3>2
  <2> QED BY <2>1, <2>2, <2>3 DEF MotorsTypeOK
<1>2. CASE EndStep
  <2>1. motor' \in [Motor -> Device] /\ UNCHANGED command
    <3>1. \A m \in Motor : SetPosition(motor[m], Zero) \in Device /\ Drive(motor[m], command[m]) \in Device
      <4> SUFFICES ASSUME NEW m \in Motor
                   PROVE  SetPosition(motor[m], Zero) \in Device /\ Drive(motor[m], command[m]) \in Device
        OBVIOUS
      <4>1. motor[m] \in Device /\ command[m] \in Command
        BY DEF MotorsTypeOK
      <4>2. SetPosition(motor[m], Zero) \in Device
        BY <4>1 DEF SetPosition, Device
      <4> QED BY <4>1, <4>2, DriveType
    <3> QED BY <1>2, <3>1 DEF EndStep, StopMotors, ResumeMotors, MotorsTypeOK
  <2> QED BY <1>2, <2>1 DEF EndStep, MotorsTypeOK
<1>3. CASE ~ProcessBuffer /\ ~EndStep
  BY <1>3 DEF Next, BeginStep, ClientGone, Write, vars, motorVars, MotorsTypeOK
<1> QED BY <1>1, <1>2, <1>3

\* Types (the state of PlayerServer and the motors it sets).
THEOREM MotorsTypeCorrect == Spec => []MotorsTypeOK
<1>1. Init => MotorsTypeOK
  BY MotorsTyped
<1>2. MotorsTypeOK /\ [Next]_vars => MotorsTypeOK'
  BY MotorsTypedNext
<1> QED BY <1>1, <1>2, PTL DEF Spec

----------------------------------------------------------------------------
(* Asleep.                                                                 *)

\* The inductive invariant: so are the motors that were never named in a request.
SleepInv ==
  \A m \in Motor : m \notin known \/ ~actuatorsEnabled
                    => motor[m].mode = "position" /\ motor[m].position = Zero

LEMMA SleepNext == ASSUME MotorsTypeOK, SleepInv, [Next]_vars PROVE SleepInv'
<1>1. CASE ProcessBuffer
  <2>1. PICK said \in [Motor -> Request], named \in SUBSET Motor :
           /\ \A m \in Motor : m \notin named => said[m] = Unsaid
           /\ known' = known \cup named
           /\ motor' = [m \in Motor |-> Obeyed(m, said[m])]
           /\ UNCHANGED actuatorsEnabled
    BY <1>1, ProcessBufferDoes
  <2>2. ASSUME NEW m \in Motor, m \notin known' \/ ~actuatorsEnabled' PROVE motor'[m] = motor[m]
    <3>1. CASE actuatorsEnabled
      <4>1. said[m] = Unsaid
        BY <2>1, <2>2, <3>1
      <4> QED BY <2>1, <3>1, <4>1, DriveUnsaid DEF Obeyed, Unsaid
    <3>2. CASE ~actuatorsEnabled
      BY <2>1, <3>2 DEF Obeyed
    <3> QED BY <3>1, <3>2
  <2>3. \A m \in Motor : m \notin known' => m \notin known
    BY <2>1
  <2> QED BY <2>1, <2>2, <2>3 DEF SleepInv
<1>2. CASE EndStep
  <2>1. CASE Resume
    <3>1. ResumeMotors /\ actuatorsEnabled' = TRUE /\ UNCHANGED known
      BY <1>2, <2>1 DEF EndStep, Resume, Penalize
    <3>2. \A m \in Motor : m \notin known => motor'[m] = motor[m]
      BY <3>1 DEF ResumeMotors
    <3> QED BY <3>1, <3>2 DEF SleepInv
  <2>2. CASE Penalize
    <3>1. ASSUME NEW m \in Motor, m \in known
          PROVE  motor'[m].mode = "position" /\ motor'[m].position = Zero
      <4>1. motor'[m] = SetPosition(motor[m], Zero)
        BY <1>2, <2>2, <3>1 DEF EndStep, Resume, Penalize, StopMotors
      <4>2. Zero # NaN /\ motor[m] \in Device
        BY MotorConstants DEF MotorsTypeOK
      <4> QED BY <4>1, <4>2 DEF SetPosition, Device
    <3>2. ASSUME NEW m \in Motor, m \notin known PROVE motor'[m] = motor[m]
      BY <1>2, <2>2, <3>2 DEF EndStep, Resume, Penalize, StopMotors
    <3> QED BY <1>2, <3>1, <3>2 DEF EndStep, SleepInv
  <2>3. CASE ~Resume /\ ~Penalize
    BY <1>2, <2>3 DEF EndStep, SleepInv
  <2> QED BY <2>1, <2>2, <2>3
<1>3. CASE ~ProcessBuffer /\ ~EndStep
  BY <1>3 DEF Next, BeginStep, ClientGone, Write, vars, motorVars, SleepInv
<1> QED BY <1>1, <1>2, <1>3

LEMMA SleepInit == Init => SleepInv
<1>1. Resting.mode = "position" /\ Resting.position = Zero
  BY DEF Resting
<1> QED BY <1>1 DEF Init, SleepInv

\* stopMotors stops the motors it knows; the others never moved. A penalised robot is
\* asleep whatever it is sent, forces and torques included.
THEOREM PenalizedAsleep == Spec => []Asleep
<1>1. Init => SleepInv
  BY SleepInit
<1>2. MotorsTypeOK /\ SleepInv /\ [Next]_vars => SleepInv'
  BY SleepNext
<1>3. SleepInv => Asleep
  BY DEF SleepInv, Asleep
<1> QED BY <1>1, <1>2, <1>3, MotorsTypeCorrect, PTL DEF Spec

----------------------------------------------------------------------------
(* Awake.                                                                  *)

\* What motor_commands say of a motor is what its client wants of it.
Remembers(m) ==
  /\ command[m].velocity # NaN /\ wish[m].velocity = command[m].velocity
  /\ wish[m].position = (IF command[m].position = NaN THEN Zero ELSE command[m].position)

Same(d, e) == d.position = e.position /\ d.velocity = e.velocity

\* A motor that is driven by positions, awake or asleep.
Unforced(m) ==
  /\ motor[m].mode = "position" /\ wish[m].mode = "position"
  /\ m \in known => Remembers(m)
  /\ m \notin known => motor[m] = Resting /\ wish[m] = Resting
  /\ actuatorsEnabled => Same(motor[m], wish[m])
  /\ ~actuatorsEnabled => motor[m].position = Zero

\* The inductive invariant: motor_commands never forgets an effort, so a motor of which it
\* has none was given none.
WakeInv ==
  \A m \in Motor :
    /\ m \notin known => command[m].effort = NaN
    /\ command[m].effort = NaN => Unforced(m)

\* A robot that plays has each motor as last commanded, if that motor was given no effort.
AwakeUnforced ==
  actuatorsEnabled =>
    \A m \in Motor : command[m].effort = NaN =>
      /\ motor[m].mode = wish[m].mode /\ Drives(motor[m]) = Drives(wish[m])
      /\ motor[m].velocity = wish[m].velocity

LEMMA WakeProcess ==
  ASSUME MotorsTypeOK, WakeInv, ProcessBuffer PROVE WakeInv'
<1>1. PICK said \in [Motor -> Request], named \in SUBSET Motor :
           /\ \A m \in Motor : m \notin named => said[m] = Unsaid
           /\ known' = known \cup named
           /\ command' = [m \in Motor |-> IF m \in named THEN Heard(m, said[m]) ELSE command[m]]
           /\ motor' = [m \in Motor |-> Obeyed(m, said[m])]
           /\ wish' = [m \in Motor |-> Drive(wish[m], said[m])]
           /\ UNCHANGED <<connected, pc, customData, actuatorsEnabled, devicesEnabled>>
  BY ProcessBufferDoes
<1>0. \A m \in Motor : m \notin known' => command'[m].effort = NaN
  BY <1>1 DEF WakeInv
<1> SUFFICES ASSUME NEW m \in Motor, command'[m].effort = NaN
             PROVE  Unforced(m)'
  BY <1>0 DEF WakeInv
<1> DEFINE c == said[m]
<1>2. c \in Request /\ c \in Command
  BY RequestIsCommand DEF Request
<1>3. motor[m] \in Device /\ wish[m] \in Device /\ command[m] \in Command
  BY DEF MotorsTypeOK
<1>4. c.effort = NaN /\ command[m].effort = NaN
  <2>1. CASE m \notin named
    BY <1>1, <2>1 DEF Unsaid
  <2>2. CASE m \in named
    <3>1. Heard(m, c).effort = NaN
      BY <1>1, <2>2
    <3>2. Entry(m) \in Command
      BY <1>3 DEF Entry, Unsaid, Command, Device
    <3>3. DOMAIN Entry(m) = {"position", "velocity", "effort"}
      BY <3>2 DEF Command
    <3> HIDE DEF c
    <3>4. Heard(m, c).effort = IF c.effort = NaN THEN Entry(m).effort ELSE c.effort
      BY <3>3 DEF Heard, Merge
    <3>5. c.effort = NaN /\ Entry(m).effort = NaN
      BY <3>1, <3>4
    <3> QED BY <3>5 DEF Entry, WakeInv
  <2> QED BY <2>1, <2>2
<1>U. Unforced(m)
  BY <1>4 DEF WakeInv
<1>5. CASE m \notin named
  <2>1. Drive(motor[m], c) = motor[m] /\ Drive(wish[m], c) = wish[m]
    BY <1>1, <1>5, DriveUnsaid DEF Unsaid
  <2>2. motor'[m] = motor[m] /\ wish'[m] = wish[m] /\ command'[m] = command[m]
    BY <1>1, <1>5, <2>1 DEF Obeyed
  <2>3. m \in known' <=> m \in known
    BY <1>1, <1>5
  <2> QED BY <1>1, <1>U, <2>2, <2>3 DEF Unforced, Remembers, Same
<1>6. CASE m \in named
  <2>1. m \in known' /\ command'[m] = Heard(m, c) /\ wish'[m] = Drive(wish[m], c)
    BY <1>1, <1>6
  <2>2. /\ Entry(m) \in Command /\ Entry(m).effort = NaN
        /\ Entry(m).velocity # NaN /\ wish[m].velocity = Entry(m).velocity
        /\ wish[m].position = (IF Entry(m).position = NaN THEN Zero ELSE Entry(m).position)
    <3>1. CASE m \in known
      BY <1>3, <1>4, <1>U, <3>1 DEF Entry, Unforced, Remembers
    <3>2. CASE m \notin known
      <4>1. motor[m] = Resting /\ wish[m] = Resting
        BY <1>U, <3>2 DEF Unforced
      <4>2. Entry(m) = [position |-> NaN, velocity |-> DefaultVelocity, effort |-> NaN]
        BY <3>2, <4>1 DEF Entry, Unsaid, Resting
      <4>3. DefaultVelocity # NaN
        BY MotorConstants
      <4> QED BY <4>1, <4>2, <4>3 DEF Command, Resting
    <3> QED BY <3>1, <3>2
  <2>3. /\ Heard(m, c).effort = NaN
        /\ Heard(m, c).velocity = (IF c.velocity = NaN THEN Entry(m).velocity ELSE c.velocity)
        /\ Heard(m, c).position = (IF c.position = NaN THEN Entry(m).position ELSE c.position)
    <3>1. DOMAIN Entry(m) = {"position", "velocity", "effort"}
      BY <2>2 DEF Command
    <3> HIDE DEF c
    <3> QED BY <1>2, <1>4, <2>2, <3>1 DEF Heard, Merge
  <2>4. /\ Drive(wish[m], c).mode = "position"
        /\ Drive(wish[m], c).position = (IF c.position = NaN THEN wish[m].position ELSE c.position)
        /\ Drive(wish[m], c).velocity = (IF c.velocity = NaN THEN wish[m].velocity ELSE c.velocity)
    BY <1>2, <1>3, <1>4, <1>U, DriveByPosition DEF Unforced
  <2>5. /\ Drive(motor[m], c).mode = "position"
        /\ Drive(motor[m], c).position = (IF c.position = NaN THEN motor[m].position ELSE c.position)
        /\ Drive(motor[m], c).velocity = (IF c.velocity = NaN THEN motor[m].velocity ELSE c.velocity)
    BY <1>2, <1>3, <1>4, <1>U, DriveByPosition DEF Unforced
  <2>6. Remembers(m)'
    BY <2>1, <2>2, <2>3, <2>4 DEF Remembers
  <2>7. CASE actuatorsEnabled
    <3>1. motor'[m] = Drive(motor[m], c) /\ Same(motor[m], wish[m])
      BY <1>1, <1>U, <2>7 DEF Obeyed, Unforced
    <3> QED BY <1>1, <2>1, <2>4, <2>5, <2>6, <2>7, <3>1 DEF Same, Unforced
  <2>8. CASE ~actuatorsEnabled
    <3>1. motor'[m] = motor[m] /\ motor[m].position = Zero
      BY <1>1, <1>U, <2>8 DEF Obeyed, Unforced
    <3> QED BY <1>1, <1>U, <2>1, <2>4, <2>6, <2>8, <3>1 DEF Unforced
  <2> QED BY <2>7, <2>8
<1> QED BY <1>5, <1>6

LEMMA WakeEndStep ==
  ASSUME MotorsTypeOK, WakeInv, EndStep PROVE WakeInv'
<1>1. UNCHANGED <<known, wish, command>>
  BY DEF EndStep, StopMotors, ResumeMotors
<1> SUFFICES ASSUME NEW m \in Motor, command[m].effort = NaN
             PROVE  Unforced(m)'
  BY <1>1 DEF WakeInv
<1>U. Unforced(m)
  BY DEF WakeInv
<1>2. motor[m] \in Device /\ wish[m] \in Device /\ command[m] \in Command /\ motor[m].mode = "position"
  BY <1>U DEF MotorsTypeOK, Unforced
<1>3. CASE Resume
  <2>1. /\ motor'[m] = (IF m \in known THEN Drive(motor[m], command[m]) ELSE motor[m])
        /\ actuatorsEnabled' = TRUE /\ ~actuatorsEnabled
    BY <1>3 DEF EndStep, Resume, Penalize, ResumeMotors
  <2>2. CASE m \in known
    <3>1. /\ motor'[m].mode = "position"
          /\ motor'[m].position = (IF command[m].position = NaN THEN motor[m].position ELSE command[m].position)
          /\ motor'[m].velocity = (IF command[m].velocity = NaN THEN motor[m].velocity ELSE command[m].velocity)
      BY <1>2, <2>1, <2>2, DriveByPosition
    <3> QED BY <1>1, <1>U, <2>1, <2>2, <3>1 DEF Unforced, Remembers, Same
  <2>3. CASE m \notin known
    BY <1>1, <1>U, <2>1, <2>3 DEF Unforced, Same
  <2> QED BY <2>2, <2>3
<1>4. CASE Penalize
  <2>1. /\ motor'[m] = (IF m \in known THEN SetPosition(motor[m], Zero) ELSE motor[m])
        /\ actuatorsEnabled' = FALSE
    BY <1>4 DEF EndStep, Resume, Penalize, StopMotors
  <2>2. Zero # NaN
    BY MotorConstants
  <2>3. CASE m \in known
    <3>1. motor'[m].mode = "position" /\ motor'[m].position = Zero
      BY <1>2, <2>1, <2>2, <2>3 DEF SetPosition, Device
    <3> QED BY <1>1, <1>U, <2>1, <2>3, <3>1 DEF Unforced, Remembers
  <2>4. CASE m \notin known
    BY <1>1, <1>U, <2>1, <2>4 DEF Unforced, Resting
  <2> QED BY <2>3, <2>4
<1>5. CASE ~Resume /\ ~Penalize
  <2>1. motor'[m] = motor[m] /\ actuatorsEnabled' = actuatorsEnabled
    BY <1>5 DEF EndStep
  <2> QED BY <1>1, <1>U, <2>1 DEF Unforced, Remembers, Same
<1> QED BY <1>3, <1>4, <1>5

LEMMA WakeInit == Init => WakeInv
<1>1. Resting.mode = "position" /\ Unsaid.effort = NaN
  BY DEF Resting, Unsaid
<1> QED BY <1>1 DEF Init, WakeInv, Unforced, Same

LEMMA WakeNext == ASSUME MotorsTypeOK, WakeInv, [Next]_vars PROVE WakeInv'
<1>1. CASE ~ProcessBuffer /\ ~EndStep
  <2>1. UNCHANGED <<known, command, motor, wish, actuatorsEnabled>>
    BY <1>1 DEF Next, BeginStep, ClientGone, Write, vars, motorVars
  <2> QED BY <2>1 DEF WakeInv, Unforced, Remembers
<1> QED BY <1>1, WakeProcess, WakeEndStep

LEMMA WakeKept ==
  /\ WakeInv => AwakeUnforced
  /\ Effort = {} /\ MotorsTypeOK /\ WakeInv => AwakeAsCommanded
<1>1. ASSUME NEW m \in Motor, Unforced(m), actuatorsEnabled
      PROVE  /\ motor[m].mode = wish[m].mode /\ Drives(motor[m]) = Drives(wish[m])
             /\ motor[m].velocity = wish[m].velocity
  BY <1>1 DEF Unforced, Same, Drives
<1>2. Effort = {} /\ MotorsTypeOK => \A m \in Motor : command[m].effort = NaN
  BY DEF MotorsTypeOK, Command
<1> QED BY <1>1, <1>2 DEF WakeInv, AwakeUnforced, AwakeAsCommanded

\* resumeMotors: a penalty leaves no trace on a motor that was given no force or torque,
\* whatever the other motors were given,
THEOREM PenaltySparesPositions == Spec => []AwakeUnforced
<1>1. Init => WakeInv
  BY WakeInit
<1>2. MotorsTypeOK /\ WakeInv /\ [Next]_vars => WakeInv'
  BY WakeNext
<1> QED BY <1>1, <1>2, WakeKept, MotorsTypeCorrect, PTL DEF Spec

\* nor on a robot commanded by positions and velocities.
THEOREM PenaltyLeavesNoTrace == ASSUME Effort = {} PROVE Spec => []AwakeAsCommanded
<1>1. Init => WakeInv
  BY WakeInit
<1>2. MotorsTypeOK /\ WakeInv /\ [Next]_vars => WakeInv'
  BY WakeNext
<1>3. MotorsTypeOK /\ WakeInv => AwakeAsCommanded
  BY WakeKept
<1> QED BY <1>1, <1>2, <1>3, MotorsTypeCorrect, PTL DEF Spec

----------------------------------------------------------------------------
(* The server: its motors.                                                 *)

USE DEF serverVars, sensorVars, motorOnlyVars

\* Requests about sensors, and the steps they make longer, are nothing to the motors.
LEMMA ServerStepMoves == ASSUME [ServerNext]_serverVars PROVE [Next]_vars
<1>1. CASE StepBegins \/ Motors \/ Disconnect \/ StepEnds \/ \E data \in Data : Referee(data)
  BY <1>1 DEF StepBegins, Motors, Disconnect, StepEnds, Referee, Next
<1>2. CASE RecognitionTime \/ \E d \in Sensor : SensorPeriod(d)
  <2>1. UNCHANGED <<pc, connected, devicesEnabled>>
    BY <1>2 DEF RecognitionTime, SensorPeriod, S!Request, S!Recognize, S!linkVars
  <2> QED BY <1>2, <2>1 DEF RecognitionTime, SensorPeriod, vars, motorVars
<1> QED BY <1>1, <1>2 DEF ServerNext

\* The motors of the server behave as PlayerMotors says, whatever its sensors do: each of
\* its steps is one of PlayerMotors or leaves the motors alone.
THEOREM ServerMovesMotors == ServerSpec => Init /\ [][Next]_vars
<1>1. ServerInit => Init
  BY DEF ServerInit
<1>2. [ServerNext]_serverVars => [Next]_vars
  BY ServerStepMoves
<1> QED BY <1>1, <1>2, PTL DEF ServerSpec

\* So a penalised robot is asleep in the whole server, red cards taken back included.
THEOREM ServerAsleep == ServerSpec => []Asleep
<1>1. Init => MotorsTypeOK /\ SleepInv
  BY MotorsTyped, SleepInit
<1>2. MotorsTypeOK /\ SleepInv /\ [Next]_vars => MotorsTypeOK' /\ SleepInv'
  BY MotorsTypedNext, SleepNext
<1>3. SleepInv => Asleep
  BY DEF SleepInv, Asleep
<1> QED BY <1>1, <1>2, <1>3, ServerMovesMotors, PTL

\* And a penalty leaves no trace in it.
THEOREM ServerAwake ==
  /\ ServerSpec => []AwakeUnforced
  /\ Effort = {} => (ServerSpec => []AwakeAsCommanded)
<1>1. Init => MotorsTypeOK /\ WakeInv
  BY MotorsTyped, WakeInit
<1>2. MotorsTypeOK /\ WakeInv /\ [Next]_vars => MotorsTypeOK' /\ WakeInv'
  BY MotorsTypedNext, WakeNext
<1>3. ServerSpec => []AwakeUnforced
  BY <1>1, <1>2, WakeKept, ServerMovesMotors, PTL
<1>4. ASSUME Effort = {} PROVE ServerSpec => []AwakeAsCommanded
  <2>1. MotorsTypeOK /\ WakeInv => AwakeAsCommanded
    BY <1>4, WakeKept
  <2> QED BY <1>1, <1>2, <2>1, ServerMovesMotors, PTL
<1> QED BY <1>3, <1>4

----------------------------------------------------------------------------
(* The server: its sensors.                                                *)

USE DEF S!vars, S!linkVars, S!deviceVars, S!tableVars

\* The tables and the devices. A sensor that is in a table samples; one waits in
\* newSensors only if it is not in sensors yet.
SensorInv ==
  /\ pc \in {"idle", "receive"} /\ Camera \subseteq Sensor
  /\ sensors \in [Sensor -> Nat] /\ newSensors \in [Sensor -> Nat]
  /\ sampling \in [Sensor -> Nat] /\ asked \in [Sensor -> Nat]
  /\ \A d \in Sensor : /\ newSensors[d] # 0 => sensors[d] = 0
                       /\ sensors[d] # 0 \/ newSensors[d] # 0 => sampling[d] # 0

\* What the server knew when the step began was sampled in it.
SampledInv ==
  /\ pc = "receive" => \A d \in Sensor : sensors[d] # 0 => d \in sampled
  /\ pc = "idle" => reported \subseteq sampled

\* With a sensor named once in a step, the tables hold what the client wants.
WantedInv ==
  /\ \A d \in Sensor : /\ sensors[d] # 0 => asked[d] # 0
                       /\ newSensors[d] # 0 => asked[d] # 0 /\ d \in spoken
  /\ pc = "idle" => \A d \in Sensor : newSensors[d] = 0
  /\ pc = "idle" => \A d \in reported : d \in Sensor /\ asked[d] # 0

\* What a request does to the entry of its sensor, and to no other.
LEMMA RequestDoes ==
  ASSUME SensorInv, NEW d \in Sensor, S!Request(d)
  PROVE  /\ pc = "receive" /\ UNCHANGED <<pc, sampled, reported>> /\ spoken' = spoken \cup {d}
         /\ \A e \in Sensor \ {d} : /\ sensors'[e] = sensors[e] /\ newSensors'[e] = newSensors[e]
                                    /\ sampling'[e] = sampling[e] /\ asked'[e] = asked[e]
         /\ SensorInv'
         /\ sensors'[d] # 0 => sensors[d] # 0 /\ (asked[d] # 0 => asked'[d] # 0)
         /\ newSensors'[d] # 0 => newSensors[d] # 0 \/ asked'[d] # 0
<1>1. pc = "receive" /\ UNCHANGED <<pc, sampled, reported>> /\ spoken' = spoken \cup {d}
  BY DEF S!Request, S!Listens
<1>2. PICK p \in PeriodsOf[d] :
        \/ p = 0 /\ S!Disable(d)
        \/ p # 0 /\ S!Refuse
        \/ p # 0 /\ S!AddSensor(d, p)
  BY DEF S!Request
<1>3. p \in Nat
  BY ServerConstants DEF S!SensorConstants
<1>4. CASE p = 0 /\ S!Disable(d)
  BY <1>1, <1>4 DEF S!Disable, S!Accepted, SensorInv
<1>5. CASE S!Refuse
  BY <1>1, <1>5 DEF S!Refuse, SensorInv
<1>6. CASE p # 0 /\ S!AddSensor(d, p)
  <2>1. asked' = [asked EXCEPT ![d] = p] /\ UNCHANGED sensors
    BY <1>6 DEF S!AddSensor, S!Accepted
  <2>2. CASE sensors[d] = 0 /\ newSensors' = [newSensors EXCEPT ![d] = p] /\ S!Enable(d, p)
    BY <1>1, <1>3, <1>6, <2>1, <2>2 DEF S!Enable, SensorInv
  <2>3. CASE sensors[d] = p /\ UNCHANGED <<newSensors, S!deviceVars>>
    BY <1>1, <1>3, <1>6, <2>1, <2>3 DEF SensorInv
  <2>4. CASE S!Enable(d, p) /\ UNCHANGED newSensors
    BY <1>1, <1>3, <1>6, <2>1, <2>4 DEF S!Enable, SensorInv
  <2> QED BY <1>6, <2>2, <2>3, <2>4 DEF S!AddSensor
<1> QED BY <1>2, <1>4, <1>5, <1>6

\* The end of a step sends what is in the table and due, and only then takes in what is
\* new; a red card empties the table before both.
LEMMA StepEndDoes ==
  ASSUME SensorInv, StepEnds
  PROVE  /\ pc = "receive" /\ pc' = "idle" /\ UNCHANGED <<asked, sampled, spoken>>
         /\ SensorInv' /\ \A d \in Sensor : newSensors'[d] = 0
         /\ \A d \in Sensor : sensors'[d] # 0 => sensors[d] # 0 \/ newSensors[d] # 0
         /\ \A d \in reported' : d \in Sensor /\ sensors[d] # 0
<1> DEFINE red == customData = "red_card"
<1>1. pc = "receive" /\ pc' = "idle"
  BY DEF StepEnds, EndStep
<1>2. UNCHANGED <<asked, sampled, spoken>> /\ S!PrepareSensorMessage /\ S!UpdateDevices /\ S!DisableAll
  BY <1>1 DEF StepEnds, S!EndStep
<1>3. \A d \in Sensor : S!Kept(sensors)[d] = IF red THEN 0 ELSE sensors[d]
  BY DEF S!Kept, S!None
<1>4. sensors' = [d \in Sensor |-> IF ~red /\ sensors[d] # 0 THEN sensors[d] ELSE newSensors[d]]
  BY <1>2, <1>3 DEF S!UpdateDevices
<1>5. newSensors' = [d \in Sensor |-> 0]
  BY <1>2 DEF S!UpdateDevices, S!None
<1>6. \A d \in reported' : d \in Sensor /\ sensors[d] # 0
  BY <1>2, <1>3 DEF S!PrepareSensorMessage
<1>7. sampling' = [d \in Sensor |-> IF red /\ sensors[d] # 0 THEN 0 ELSE sampling[d]]
  <2>1. CASE red
    BY <1>2, <2>1 DEF S!DisableAll
  <2>2. CASE ~red
    BY <1>2, <2>2 DEF S!DisableAll, SensorInv
  <2> QED BY <2>1, <2>2
<1>8. SensorInv'
  BY <1>1, <1>2, <1>4, <1>5, <1>7 DEF SensorInv
<1> QED BY <1>1, <1>2, <1>4, <1>5, <1>6, <1>8

\* The tables never hold a sensor that does not sample.
LEMMA SensorNext == ASSUME SensorInv, [ServerNext]_serverVars PROVE SensorInv'
<1>1. CASE \E d \in Sensor : SensorPeriod(d)
  BY <1>1, RequestDoes DEF SensorPeriod
<1>2. CASE StepEnds
  BY <1>2, StepEndDoes
<1>3. CASE StepBegins \/ Disconnect \/ RecognitionTime
  <2>1. UNCHANGED <<sensors, newSensors, sampling, asked>> /\ pc' \in {"idle", "receive"}
    BY <1>3 DEF StepBegins, S!BeginStep, Disconnect, S!ClientGone, RecognitionTime, S!Recognize, SensorInv
  <2> QED BY <2>1 DEF SensorInv
<1>4. CASE Motors \/ (\E data \in Data : Referee(data)) \/ UNCHANGED serverVars
  <2>1. UNCHANGED <<sensors, newSensors, sampling, asked, pc>>
    BY <1>4 DEF Motors, ProcessBuffer, Referee, Write, vars
  <2> QED BY <2>1 DEF SensorInv
<1> QED BY <1>1, <1>2, <1>3, <1>4 DEF ServerNext

LEMMA SampledNext == ASSUME SensorInv, SampledInv, [ServerNext]_serverVars PROVE SampledInv'
<1>1. ASSUME NEW d \in Sensor, SensorPeriod(d) PROVE SampledInv'
  <2>1. S!Request(d)
    BY <1>1 DEF SensorPeriod
  <2>2. pc = "receive" /\ UNCHANGED <<pc, sampled, reported>>
    BY <2>1, RequestDoes
  <2>3. \A e \in Sensor : sensors'[e] # 0 => sensors[e] # 0
    BY <2>1, RequestDoes
  <2> QED BY <2>2, <2>3 DEF SampledInv
<1>2. CASE StepEnds
  BY <1>2, StepEndDoes DEF SampledInv
<1>3. CASE StepBegins
  <2>1. UNCHANGED sensors /\ sampled' = {d \in Sensor : sampling[d] # 0}
    BY <1>3 DEF StepBegins, S!BeginStep
  <2>2. pc' = "receive" \/ reported' = {}
    BY <1>3 DEF StepBegins, S!BeginStep
  <2>3. pc' = "receive" \/ pc' = "idle"
    BY <1>3 DEF StepBegins, S!BeginStep
  <2> QED BY <2>1, <2>2, <2>3 DEF SampledInv, SensorInv
<1>4. CASE Disconnect \/ RecognitionTime
  <2>1. UNCHANGED <<sensors, sampled, reported, pc>>
    BY <1>4 DEF Disconnect, S!ClientGone, RecognitionTime, S!Recognize
  <2> QED BY <2>1 DEF SampledInv
<1>5. CASE Motors \/ (\E data \in Data : Referee(data)) \/ UNCHANGED serverVars
  <2>1. UNCHANGED <<sensors, sampled, reported, pc>>
    BY <1>5 DEF Motors, ProcessBuffer, Referee, Write, vars
  <2> QED BY <2>1 DEF SampledInv
<1> QED BY <1>1, <1>2, <1>3, <1>4, <1>5 DEF ServerNext

LEMMA WantedNext ==
  ASSUME ~Repeat, SensorInv, WantedInv, [ServerNext]_serverVars PROVE WantedInv'
<1>1. ASSUME NEW d \in Sensor, SensorPeriod(d) PROVE WantedInv'
  <2>1. S!Request(d) /\ d \notin spoken
    BY <1>1 DEF SensorPeriod, S!Request
  <2>2. pc' = "receive" /\ spoken' = spoken \cup {d}
    BY <2>1, RequestDoes
  <2>3. newSensors[d] = 0
    BY <2>1 DEF WantedInv
  <2>4. sensors'[d] # 0 => asked'[d] # 0
    BY <2>1, RequestDoes DEF WantedInv
  <2>5. newSensors'[d] # 0 => asked'[d] # 0
    BY <2>1, <2>3, RequestDoes
  <2>6. \A e \in Sensor \ {d} : /\ sensors'[e] = sensors[e] /\ newSensors'[e] = newSensors[e]
                               /\ asked'[e] = asked[e]
    BY <2>1, RequestDoes
  <2> QED BY <2>2, <2>4, <2>5, <2>6 DEF WantedInv
<1>2. CASE StepEnds
  BY <1>2, StepEndDoes DEF WantedInv
<1>3. CASE StepBegins
  <2>1. UNCHANGED <<sensors, newSensors, asked>> /\ pc = "idle"
    BY <1>3 DEF StepBegins, S!BeginStep
  <2>2. pc' = "receive" \/ reported' = {}
    BY <1>3 DEF StepBegins, S!BeginStep
  <2> QED BY <2>1, <2>2 DEF WantedInv
<1>4. CASE Disconnect \/ RecognitionTime
  <2>1. UNCHANGED <<sensors, newSensors, asked, spoken, reported, pc>>
    BY <1>4 DEF Disconnect, S!ClientGone, RecognitionTime, S!Recognize
  <2> QED BY <2>1 DEF WantedInv
<1>5. CASE Motors \/ (\E data \in Data : Referee(data)) \/ UNCHANGED serverVars
  <2>1. UNCHANGED <<sensors, newSensors, asked, spoken, reported, pc>>
    BY <1>5 DEF Motors, ProcessBuffer, Referee, Write, vars
  <2> QED BY <2>1 DEF WantedInv
<1> QED BY <1>1, <1>2, <1>3, <1>4, <1>5 DEF ServerNext

LEMMA SensorsStart == ServerInit => SensorInv /\ SampledInv /\ WantedInv
<1> SUFFICES ASSUME ServerInit PROVE SensorInv /\ SampledInv /\ WantedInv
  OBVIOUS
<1>1. pc = "idle" /\ Camera \subseteq Sensor
  BY ServerConstants DEF ServerInit, Init, S!SensorConstants
<1> QED BY <1>1 DEF ServerInit, S!Init, S!None, SensorInv, SampledInv, WantedInv

\* No value is read from a device that has had no step to measure it ("to avoid sending
\* values for disabled sensors", processBuffer), with requests twice in a step, periods
\* changed at will and red cards that come and go.
THEOREM OnlyReadValues == ServerSpec => []NoUnreadValues
<1>1. SensorInv /\ SampledInv /\ [ServerNext]_serverVars => SensorInv' /\ SampledInv'
  BY SensorNext, SampledNext
<1>2. SampledInv => NoUnreadValues
  BY DEF SampledInv, NoUnreadValues, S!NoUnreadValues
<1> QED BY <1>1, <1>2, SensorsStart, PTL DEF ServerSpec

\* A disabled sensor stays silent, for clients that name a sensor once in a step.
THEOREM OnlyWantedValues == ASSUME ~Repeat PROVE ServerSpec => []Silent
<1>1. SensorInv /\ WantedInv /\ [ServerNext]_serverVars => SensorInv' /\ WantedInv'
  BY SensorNext, WantedNext
<1>2. WantedInv => Silent
  BY DEF WantedInv, Silent, S!Silent
<1> QED BY <1>1, <1>2, SensorsStart, PTL DEF ServerSpec

----------------------------------------------------------------------------
(* The server: the quota of its cameras.                                   *)

Units(r) == {u \in (DOMAIN r) \X (1..(2 * FullRate)) : u[2] <= r[u[1]]}

LEMMA RateUnits == FullRate \in Nat /\ 2 * FullRate \in Int /\ IsFiniteSet(1..(2 * FullRate))
<1>1. FullRate \in Nat
  BY ServerConstants DEF S!SensorConstants
<1>2. 1 \in Int /\ 2 * FullRate \in Int
  BY <1>1
<1>3. IsFiniteSet(1..(2 * FullRate))
  BY <1>2, FS_Interval, Zenon
<1> QED BY <1>1, <1>2, <1>3

LEMMA UnitsFinite ==
  ASSUME NEW r, IsFiniteSet(DOMAIN r)
  PROVE  IsFiniteSet(Units(r)) /\ S!Together(r) = Cardinality(Units(r)) /\ S!Together(r) \in Nat
<1>1. IsFiniteSet((DOMAIN r) \X (1..(2 * FullRate)))
  BY RateUnits, FS_Product
<1>2. Units(r) \in SUBSET ((DOMAIN r) \X (1..(2 * FullRate)))
  BY DEF Units
<1>3. IsFiniteSet(Units(r))
  BY <1>1, <1>2, FS_Subset
<1>4. S!Together(r) = Cardinality(Units(r))
  BY DEF S!Together, Units, S!Cardinality, Cardinality
<1> QED BY <1>3, <1>4, FS_CardinalityType

\* A camera that renders less takes less of the sum.
LEMMA TogetherMonotone ==
  ASSUME NEW C, IsFiniteSet(C), NEW r \in [C -> Nat], NEW s \in [C -> Nat], \A c \in C : r[c] <= s[c]
  PROVE  S!Together(r) <= S!Together(s)
<1>1. ASSUME NEW u \in Units(r) PROVE u \in Units(s)
  <2>1. u[1] \in C /\ u[2] \in 1..(2 * FullRate) /\ u[2] <= r[u[1]]
    BY DEF Units
  <2>2. u[2] \in Int /\ r[u[1]] \in Int /\ s[u[1]] \in Int /\ r[u[1]] <= s[u[1]]
    BY <2>1, RateUnits
  <2>3. u[2] <= s[u[1]]
    BY <2>1, <2>2
  <2> QED BY <2>3 DEF Units
<1>2. Units(r) \in SUBSET Units(s)
  BY <1>1
<1> QED BY <1>2, UnitsFinite, FS_Subset

\* The sum is at most what one camera renders and what the others render together.
LEMMA TogetherSplits ==
  ASSUME NEW C, IsFiniteSet(C), NEW r \in [C -> Nat], NEW d \in C
  PROVE  S!Together(r) <= r[d] + S!Together([c \in C \ {d} |-> r[c]])
<1> DEFINE o == [c \in C \ {d} |-> r[c]]
           mine == {u \in Units(r) : u[1] = d}
           all == {d} \X (1..r[d])
<1>1. IsFiniteSet(C \ {d}) /\ DOMAIN o = C \ {d}
  BY FS_RemoveElement
<1>2. IsFiniteSet(Units(o)) /\ S!Together(o) = Cardinality(Units(o)) /\ Cardinality(Units(o)) \in Nat
  BY <1>1, UnitsFinite
<1>3. IsFiniteSet(all) /\ Cardinality(all) = r[d]
  <2>1. 1 \in Int /\ r[d] \in Int /\ r[d] >= 0
    OBVIOUS
  <2>2. IsFiniteSet(1..r[d]) /\ Cardinality(1..r[d]) = IF 1 > r[d] THEN 0 ELSE r[d] - 1 + 1
    BY <2>1, FS_Interval, Zenon
  <2>3. Cardinality(1..r[d]) = r[d]
    BY <2>1, <2>2
  <2>4. IsFiniteSet({d}) /\ Cardinality({d}) = 1
    BY FS_Singleton
  <2>5. IsFiniteSet(all) /\ Cardinality(all) = 1 * r[d]
    BY <2>2, <2>3, <2>4, FS_Product
  <2> QED BY <2>1, <2>5
<1>4. mine \in SUBSET all
  <2> SUFFICES ASSUME NEW u \in mine PROVE u \in all
    OBVIOUS
  <2>1. u \in C \X (1..(2 * FullRate)) /\ u[1] = d /\ u[2] <= r[d]
    BY DEF Units
  <2>2. u[2] \in 1..r[d]
    BY <2>1, RateUnits
  <2> QED BY <2>1, <2>2
<1>5. IsFiniteSet(mine) /\ Cardinality(mine) <= r[d]
  BY <1>3, <1>4, FS_Subset
<1>6. Units(r) \subseteq mine \cup Units(o)
  BY DEF Units
<1>7. mine \cup Units(o) \subseteq Units(r)
  <2>1. ASSUME NEW u \in Units(o) PROVE u \in Units(r)
    BY <1>1, <2>1 DEF Units
  <2> QED BY <2>1
<1>8. Units(r) = mine \cup Units(o)
  BY <1>6, <1>7
<1>9. /\ Cardinality(mine \cup Units(o)) =
           Cardinality(mine) + Cardinality(Units(o)) - Cardinality(mine \cap Units(o))
      /\ IsFiniteSet(mine \cap Units(o))
  <2>1. IsFiniteSet(mine \cap Units(o))
    BY <1>5, FS_Subset
  <2> QED BY <1>2, <1>5, <2>1, FS_Union
<1>10. Cardinality(mine) \in Nat /\ Cardinality(mine \cap Units(o)) \in Nat
  BY <1>5, <1>9, FS_CardinalityType
<1>11. S!Together(r) = Cardinality(Units(r))
  BY UnitsFinite
<1> HIDE DEF mine, o
<1>12. Cardinality(Units(r)) <= r[d] + Cardinality(Units(o))
  BY <1>2, <1>5, <1>8, <1>9, <1>10
<1> QED BY <1>2, <1>11, <1>12 DEF o

LEMMA RenderingType == \A p \in Nat : S!Rendering(p) \in Nat
<1> SUFFICES ASSUME NEW p \in Nat PROVE S!Rendering(p) \in Nat
  OBVIOUS
<1>1. CASE p = 0
  BY <1>1 DEF S!Rendering
<1>2. CASE p # 0
  <2>1. FullRate \div p \in Nat
    BY <1>2, RateUnits
  <2> QED BY <1>2, <2>1 DEF S!Rendering
<1> QED BY <1>1, <1>2

LEMMA QuotaConstants == Camera \subseteq Sensor /\ IsFiniteSet(Camera) /\ Quota \in Nat
<1>1. S!IsFiniteSet(Camera) /\ Camera \subseteq Sensor /\ Quota \in Nat
  BY ServerConstants DEF S!SensorConstants
<1> QED BY <1>1 DEF S!IsFiniteSet, IsFiniteSet

\* What the tables count for the cameras.
Counted == [c \in Camera |-> S!Rendering(sensors[c]) + S!Rendering(newSensors[c])]

\* The inductive invariant: the tables keep to the quota, whatever their devices sample; a
\* camera that is new samples at the period that is counted.
QuotaInv ==
  /\ S!Together(Counted) <= Quota
  /\ \A d \in Sensor : newSensors[d] # 0 => sampling[d] = newSensors[d]

LEMMA CountedType ==
  ASSUME SensorInv
  PROVE  /\ Counted \in [Camera -> Nat]
         /\ \A c \in Camera : S!Rendering(sensors[c]) \in Nat /\ S!Rendering(newSensors[c]) \in Nat
<1>1. \A c \in Camera : S!Rendering(sensors[c]) \in Nat /\ S!Rendering(newSensors[c]) \in Nat
  BY RenderingType DEF SensorInv
<1> QED BY <1>1 DEF Counted

\* A step that adds nothing to what is counted keeps to the quota.
LEMMA CountedLess ==
  ASSUME SensorInv, SensorInv', S!Together(Counted) <= Quota, \A c \in Camera : Counted'[c] <= Counted[c]
  PROVE  S!Together(Counted') <= Quota
<1>1. Counted \in [Camera -> Nat]
  BY CountedType
<1>2. Counted' \in [Camera -> Nat]
  <2>1. \A c \in Camera : S!Rendering(sensors'[c]) \in Nat /\ S!Rendering(newSensors'[c]) \in Nat
    BY RenderingType DEF SensorInv
  <2> QED BY <2>1 DEF Counted
<1>3. S!Together(Counted') <= S!Together(Counted)
  BY <1>1, <1>2, QuotaConstants, TogetherMonotone
<1>4. S!Together(Counted) \in Nat /\ S!Together(Counted') \in Nat
  <2>1. IsFiniteSet(DOMAIN Counted) /\ IsFiniteSet(DOMAIN Counted')
    BY <1>1, <1>2, QuotaConstants
  <2>2. \A r : IsFiniteSet(DOMAIN r) => S!Together(r) \in Nat
    BY UnitsFinite
  <2> QED BY <2>1, <2>2
<1> QED BY <1>3, <1>4, QuotaConstants

LEMMA QuotaRequest ==
  ASSUME SensorInv, QuotaInv, NEW d \in Sensor, S!Request(d)
  PROVE  QuotaInv'
<1>1. SensorInv'
  BY RequestDoes
<1>2. \A e \in Sensor \ {d} : /\ sensors'[e] = sensors[e] /\ newSensors'[e] = newSensors[e]
                             /\ sampling'[e] = sampling[e]
  BY RequestDoes
<1>3. PICK p \in PeriodsOf[d] :
        \/ p = 0 /\ S!Disable(d)
        \/ p # 0 /\ S!Refuse
        \/ p # 0 /\ S!Fits(d, p) /\ S!AddSensor(d, p)
  BY DEF S!Request
<1>4. p \in Nat
  BY ServerConstants DEF S!SensorConstants
<1>5. S!Rendering(0) = 0
  BY DEF S!Rendering
<1>6. SUFFICES /\ S!Together(Counted') <= Quota
               /\ newSensors'[d] # 0 => sampling'[d] = newSensors'[d]
  BY <1>2 DEF QuotaInv
<1>7. CASE p = 0 /\ S!Disable(d)
  <2>1. sensors'[d] = 0 /\ newSensors'[d] = newSensors[d] /\ sampling'[d] = sampling[d]
    BY <1>7 DEF S!Disable, SensorInv
  <2>2. \A c \in Camera : Counted'[c] <= Counted[c]
    <3> SUFFICES ASSUME NEW c \in Camera PROVE Counted'[c] <= Counted[c]
      OBVIOUS
    <3>1. S!Rendering(sensors[c]) \in Nat /\ S!Rendering(newSensors[c]) \in Nat
      BY CountedType
    <3>2. newSensors'[c] = newSensors[c] /\ sensors'[c] \in {0, sensors[c]}
      BY <1>2, <2>1, QuotaConstants
    <3>3. S!Rendering(sensors'[c]) <= S!Rendering(sensors[c])
      BY <1>5, <3>1, <3>2
    <3> QED BY <3>1, <3>2, <3>3, <1>5 DEF Counted
  <2> QED BY <1>1, <2>1, <2>2, CountedLess DEF QuotaInv
<1>8. CASE UNCHANGED <<sensors, newSensors>>
  <2>1. S!Together(Counted') = S!Together(Counted)
    BY <1>8 DEF Counted
  <2>2. newSensors[d] # 0 => sampling'[d] = sampling[d]
    <3>1. newSensors[d] # 0 => sensors[d] = 0
      BY DEF SensorInv
    <3> QED BY <1>3, <1>4, <1>8, <3>1 DEF S!AddSensor, S!Enable, S!Disable, S!Refuse, SensorInv, QuotaInv
  <2> QED BY <1>8, <2>1, <2>2 DEF QuotaInv
<1>9. CASE /\ p # 0 /\ S!Fits(d, p) /\ UNCHANGED sensors
           /\ sensors[d] = 0 /\ newSensors' = [newSensors EXCEPT ![d] = p] /\ S!Enable(d, p)
  <2>1. newSensors'[d] = p /\ sampling'[d] = p /\ sensors'[d] = 0
    BY <1>9 DEF S!Enable, SensorInv
  <2>2. CASE d \in Camera
    <3> DEFINE others == [c \in Camera \ {d} |-> S!Rendering(sensors[c]) + S!Rendering(newSensors[c])]
    <3>1. S!Rendering(p) + S!Together(others) <= Quota
      BY <1>9, <2>2 DEF S!Fits
    <3>2. Counted' \in [Camera -> Nat]
      <4>1. \A c \in Camera : S!Rendering(sensors'[c]) \in Nat /\ S!Rendering(newSensors'[c]) \in Nat
        BY <1>1, RenderingType DEF SensorInv
      <4> QED BY <4>1 DEF Counted
    <3>3. [c \in Camera \ {d} |-> Counted'[c]] = others
      <4>1. \A c \in Camera \ {d} : Counted'[c] = others[c]
        BY <1>2, QuotaConstants DEF Counted
      <4> QED BY <4>1
    <3>4. Counted'[d] = S!Rendering(p)
      <4>1. S!Rendering(p) \in Nat
        BY <1>4, RenderingType
      <4>2. Counted'[d] = 0 + S!Rendering(p)
        BY <1>5, <2>1, <2>2 DEF Counted
      <4> QED BY <4>1, <4>2
    <3> HIDE DEF others
    <3>5. S!Together(Counted') <= Counted'[d] + S!Together(others)
      <4>1. S!Together(Counted') <= Counted'[d] + S!Together([c \in Camera \ {d} |-> Counted'[c]])
        BY <2>2, <3>2, QuotaConstants, TogetherSplits
      <4> QED BY <3>3, <4>1
    <3>6. S!Together(others) \in Nat /\ S!Together(Counted') \in Nat
      <4>1. IsFiniteSet(DOMAIN others) /\ IsFiniteSet(DOMAIN Counted')
        BY <3>2, QuotaConstants, FS_RemoveElement DEF others
      <4>2. \A r : IsFiniteSet(DOMAIN r) => S!Together(r) \in Nat
        BY UnitsFinite
      <4> QED BY <4>1, <4>2
    <3>7. S!Rendering(p) \in Nat /\ Quota \in Nat
      BY <1>4, RenderingType, QuotaConstants
    <3>8. S!Together(Counted') <= Quota
      BY <3>1, <3>4, <3>5, <3>6, <3>7
    <3> QED BY <2>1, <3>8
  <2>3. CASE d \notin Camera
    <3>1. Counted' = Counted
      BY <1>2, <2>3, QuotaConstants DEF Counted
    <3> QED BY <2>1, <3>1 DEF QuotaInv
  <2> QED BY <2>2, <2>3
<1> QED BY <1>3, <1>7, <1>8, <1>9 DEF S!Refuse, S!AddSensor, S!tableVars

LEMMA QuotaNext == ASSUME SensorInv, QuotaInv, [ServerNext]_serverVars PROVE QuotaInv'
<1>1. CASE \E d \in Sensor : SensorPeriod(d)
  BY <1>1, QuotaRequest DEF SensorPeriod
<1>2. CASE StepEnds
  <2>1. SensorInv' /\ \A d \in Sensor : newSensors'[d] = 0
    BY <1>2, StepEndDoes
  <2>2. pc' = "idle" /\ S!UpdateDevices
    BY <1>2 DEF StepEnds, EndStep, S!EndStep
  <2>3. \A c \in Camera : Counted'[c] <= Counted[c]
    <3> SUFFICES ASSUME NEW c \in Camera PROVE Counted'[c] <= Counted[c]
      OBVIOUS
    <3>1. S!Rendering(sensors[c]) \in Nat /\ S!Rendering(newSensors[c]) \in Nat /\ S!Rendering(0) = 0
      BY CountedType DEF S!Rendering
    <3>2. sensors'[c] \in {sensors[c], newSensors[c]} /\ newSensors'[c] = 0
      BY <2>1, <2>2, QuotaConstants DEF S!UpdateDevices, S!Kept, S!None
    <3> QED BY <3>1, <3>2 DEF Counted
  <2> QED BY <2>1, <2>3, CountedLess DEF QuotaInv
<1>3. CASE StepBegins \/ Disconnect \/ RecognitionTime
  <2>1. UNCHANGED <<sensors, newSensors, sampling>>
    BY <1>3 DEF StepBegins, S!BeginStep, Disconnect, S!ClientGone, RecognitionTime, S!Recognize
  <2> QED BY <2>1 DEF QuotaInv, Counted
<1>4. CASE Motors \/ (\E data \in Data : Referee(data)) \/ UNCHANGED serverVars
  <2>1. UNCHANGED <<sensors, newSensors, sampling>>
    BY <1>4 DEF Motors, Referee
  <2> QED BY <2>1 DEF QuotaInv, Counted
<1> QED BY <1>1, <1>2, <1>3, <1>4 DEF ServerNext

LEMMA QuotaStart == ServerInit => QuotaInv
<1> SUFFICES ASSUME ServerInit PROVE QuotaInv
  OBVIOUS
<1>1. sensors = [d \in Sensor |-> 0] /\ newSensors = [d \in Sensor |-> 0]
  BY DEF ServerInit, S!Init, S!None
<1>2. \A c \in Camera : Counted[c] = 0
  BY <1>1, QuotaConstants DEF Counted, S!Rendering
<1>3. Units(Counted) = {}
  <2> SUFFICES ASSUME NEW u \in Units(Counted) PROVE FALSE
    OBVIOUS
  <2>1. u[1] \in Camera /\ u[2] \in 1..(2 * FullRate) /\ u[2] <= Counted[u[1]]
    BY DEF Units, Counted
  <2> QED BY <1>2, <2>1, RateUnits
<1>4. S!Together(Counted) = Cardinality(Units(Counted))
  <2>1. IsFiniteSet(DOMAIN Counted)
    BY QuotaConstants DEF Counted
  <2> QED BY <2>1, UnitsFinite
<1>5. S!Together(Counted) <= Quota
  BY <1>3, <1>4, FS_EmptySet, QuotaConstants
<1> QED BY <1>1, <1>5 DEF QuotaInv

LEMMA QuotaKept == SensorInv /\ QuotaInv => CamerasInQuota
<1> SUFFICES ASSUME SensorInv, QuotaInv, \A c \in Camera : sensors[c] # 0 => sampling[c] = sensors[c]
             PROVE  S!Together([c \in Camera |-> IF sensors[c] # 0 \/ newSensors[c] # 0
                                                 THEN S!Rendering(sampling[c]) ELSE 0]) <= Quota
  BY DEF CamerasInQuota, S!CamerasInQuota
<1> DEFINE now == [c \in Camera |-> IF sensors[c] # 0 \/ newSensors[c] # 0
                                    THEN S!Rendering(sampling[c]) ELSE 0]
<1>1. \A c \in Camera : now[c] \in Nat /\ now[c] <= Counted[c]
  <2> SUFFICES ASSUME NEW c \in Camera PROVE now[c] \in Nat /\ now[c] <= Counted[c]
    OBVIOUS
  <2>1. S!Rendering(sensors[c]) \in Nat /\ S!Rendering(newSensors[c]) \in Nat
    BY CountedType
  <2>2. now[c] \in {0, S!Rendering(sensors[c]), S!Rendering(newSensors[c])}
    BY QuotaConstants DEF QuotaInv
  <2> QED BY <2>1, <2>2 DEF Counted
<1>2. now \in [Camera -> Nat] /\ Counted \in [Camera -> Nat]
  BY <1>1, CountedType
<1> HIDE DEF now
<1>3. S!Together(now) <= S!Together(Counted)
  BY <1>1, <1>2, QuotaConstants, TogetherMonotone
<1>4. S!Together(now) \in Nat /\ S!Together(Counted) \in Nat
  BY <1>2, QuotaConstants, UnitsFinite
<1>5. S!Together(now) <= Quota
  BY <1>3, <1>4, QuotaConstants DEF QuotaInv
<1> QED BY <1>5 DEF now

\* "Only allowing to set time_step if the rendering bandwidth is not exceeded" (processBuffer):
\* for any cameras, periods and quota, the sensors that wait in newSensors included.
THEOREM CamerasShareQuota == ServerSpec => []CamerasInQuota
<1>1. SensorInv /\ QuotaInv /\ [ServerNext]_serverVars => SensorInv' /\ QuotaInv'
  BY SensorNext, QuotaNext
<1> QED BY <1>1, SensorsStart, QuotaStart, QuotaKept, PTL DEF ServerSpec

=============================================================================
