---------------------------- MODULE PlayerSensors ----------------------------
(***************************************************************************)
(* The sensors of a robot in the player server (player.cpp): the client    *)
(* asks for a time between measurements, the server keeps a table of what  *)
(* it has enabled and reports a sensor when its time has come.             *)
(*                                                                         *)
(* Time is counted in steps of the controller and periods in the same      *)
(* unit; 0 is no period.  Two constants say what clients do: they may ask  *)
(* twice for a sensor within a step, and may change a period without       *)
(* disabling the sensor first.                                             *)
(***************************************************************************)
EXTENDS Integers, FiniteSets

CONSTANTS
  Sensor, Camera,
  PeriodsOf,           \* the periods that clients ask for, by sensor
  FastestCamera,       \* camera_min_time_step
  FullRate, Quota,     \* rendering of a camera at period 1; what a robot may render
  Recognition,         \* periods asked for recognition
  Cycle,               \* a multiple of the periods of recognition
  Repeat, ChangePeriod

Period == UNION {PeriodsOf[d] : d \in Sensor} \ {0}

SensorConstants ==
  /\ Camera \subseteq Sensor /\ IsFiniteSet(Camera) /\ PeriodsOf \in [Sensor -> SUBSET Nat]
  /\ FastestCamera \in Nat /\ FullRate \in Nat /\ Quota \in Nat
  /\ \A p \in Period : FullRate % p = 0
  /\ Cycle \in Nat \ {0} /\ \A p \in Recognition \ {0} : Cycle % p = 0
  /\ Repeat \in BOOLEAN /\ ChangePeriod \in BOOLEAN

VARIABLES
  connected, pc,            \* "idle", "receive" or "crashed"
  redCard, devicesEnabled,
  time,                     \* controller_time, up to Cycle
  sensors, newSensors,      \* the two tables: the period of each sensor, 0 if it is not there
  sampling, age,            \* of the device: its period, and the steps since start_sensoring_time, up to it
  recognition,              \* the period of recognition; -1 if it was not requested
  reported,                 \* the sensors in the last message
  asked,                    \* the last period that the client asked for and was not refused
  sampled,                  \* the devices that were enabled when the step began
  spoken                    \* the sensors that the client named in this step

linkVars   == <<connected, redCard, devicesEnabled>>
deviceVars == <<sampling, age>>
tableVars  == <<sensors, newSensors>>
vars == <<linkVars, pc, time, tableVars, deviceVars, recognition, reported, asked, sampled, spoken>>

----------------------------------------------------------------------------
(* A step of the controller.                                               *)

None == [d \in Sensor |-> 0]

\* Time passes whether there is a client or not.
BeginStep ==
  /\ pc = "idle"
  /\ time' = (time + 1) % Cycle
  /\ age' = [d \in Sensor |-> IF sampling[d] = 0 THEN 0 ELSE (age[d] + 1) % sampling[d]]
  /\ sampled' = {d \in Sensor : sampling[d] # 0}
  /\ spoken' = {}
  /\ \/ connected /\ pc' = "receive" /\ UNCHANGED <<connected, reported>>
     \/ ~connected /\ connected' \in BOOLEAN /\ reported' = {} /\ UNCHANGED pc
  /\ UNCHANGED <<redCard, devicesEnabled, tableVars, sampling, recognition, asked>>

Rendering(p) == IF p = 0 THEN 0 ELSE FullRate \div p    \* getRenderingBandwidth

\* The sum of what the cameras render, as a count of units; no entry exceeds 2 * FullRate.
Together(rendering) ==
  Cardinality({u \in (DOMAIN rendering) \X (1..(2 * FullRate)) : u[2] <= rendering[u[1]]})

\* Mutant of Fits: the other cameras are not counted.
FitsAlone(d, p) == d \in Camera => Rendering(p) <= Quota

Fits(d, p) ==
  d \in Camera =>
    Rendering(p) + Together([c \in Camera \ {d} |-> Rendering(sensors[c]) + Rendering(newSensors[c])])
      <= Quota

TooFast(d, p) == d \in Camera /\ p < FastestCamera

Enable(d, p) == sampling' = [sampling EXCEPT ![d] = p] /\ age' = [age EXCEPT ![d] = 0]    \* enableSensor

Accepted(d, p) == asked' = [asked EXCEPT ![d] = p]

\* Mutant of Disable: it looks in the other table.
DisableLater(d) ==
  /\ Accepted(d, 0)
  /\ newSensors' = [newSensors EXCEPT ![d] = 0]
  /\ UNCHANGED <<sensors, deviceVars>>

Disable(d) ==
  /\ Accepted(d, 0)
  /\ sensors' = [sensors EXCEPT ![d] = 0]
  /\ UNCHANGED <<newSensors, deviceVars>>

Refuse == UNCHANGED <<asked, tableVars, deviceVars>>

\* Mutant of AddSensor: a new sensor is entered in the table at once.
AddSensorAtOnce(d, p) ==
  /\ Accepted(d, p) /\ Enable(d, p)
  /\ sensors' = [sensors EXCEPT ![d] = p] /\ UNCHANGED newSensors

AddSensor(d, p) ==
  /\ Accepted(d, p)
  /\ \/ sensors[d] = 0 /\ newSensors' = [newSensors EXCEPT ![d] = p] /\ Enable(d, p)
     \/ sensors[d] = p /\ UNCHANGED <<newSensors, deviceVars>>
     \/ sensors[d] \notin {0, p} /\ Enable(d, p) /\ UNCHANGED newSensors
  /\ UNCHANGED sensors

Listens == pc = "receive" /\ connected /\ devicesEnabled

\* An entry of sensor_time_steps (processBuffer).
Request(d) ==
  /\ Listens
  /\ Repeat \/ d \notin spoken
  /\ \E p \in PeriodsOf[d] :
       /\ ChangePeriod \/ asked[d] = 0 \/ p \in {0, asked[d]}
       /\ \/ p = 0 /\ Disable(d)
          \/ p # 0 /\ (TooFast(d, p) \/ ~Fits(d, p)) /\ Refuse
          \/ p # 0 /\ ~TooFast(d, p) /\ Fits(d, p) /\ AddSensor(d, p)
  /\ spoken' = spoken \cup {d}
  /\ UNCHANGED <<linkVars, pc, time, recognition, reported, sampled>>

\* The entry named "recognition".
Recognize ==
  /\ Listens
  /\ \E p \in Recognition : recognition' = p
  /\ UNCHANGED <<linkVars, pc, time, tableVars, deviceVars, reported, asked, sampled, spoken>>

\* recv finds the client gone; the step goes on.
ClientGone ==
  /\ pc = "receive" /\ connected
  /\ connected' = FALSE
  /\ UNCHANGED <<redCard, devicesEnabled, pc, time, tableVars, deviceVars, recognition, reported,
                 asked, sampled, spoken>>

\* A red card disables what is in the table (step).
Kept(table) == IF redCard THEN None ELSE table

DisableAll ==
  IF redCard
  THEN /\ sampling' = [d \in Sensor |-> IF sensors[d] # 0 THEN 0 ELSE sampling[d]]
       /\ age' = [d \in Sensor |-> IF sensors[d] # 0 THEN 0 ELSE age[d]]
  ELSE UNCHANGED deviceVars

Due(d) == age[d] = 0

\* prepareSensorMessage divides the time by the period of recognition.
Divides == ~(devicesEnabled' /\ recognition = 0)

\* A camera is sampled, but its image is not sent.
PrepareSensorMessage ==
  reported' = {d \in Sensor \ Camera : devicesEnabled' /\ Kept(sensors)[d] # 0 /\ Due(d)}

\* updateDevices: std::map::insert keeps an entry that is there.
UpdateDevices ==
  /\ sensors' = [d \in Sensor |-> IF Kept(sensors)[d] # 0 THEN Kept(sensors)[d] ELSE newSensors[d]]
  /\ newSensors' = None

EndStep ==
  /\ pc = "receive"
  /\ devicesEnabled' = (devicesEnabled /\ ~redCard)
  /\ DisableAll
  /\ IF Divides
     THEN PrepareSensorMessage /\ UpdateDevices /\ pc' = "idle"
     ELSE pc' = "crashed" /\ UNCHANGED <<reported, tableVars>>
  /\ UNCHANGED <<connected, redCard, time, recognition, asked, sampled, spoken>>

RedCard ==
  /\ pc # "crashed" /\ ~redCard
  /\ redCard' = TRUE
  /\ UNCHANGED <<connected, devicesEnabled, pc, time, tableVars, deviceVars, recognition, reported,
                 asked, sampled, spoken>>

----------------------------------------------------------------------------
(* The specification.                                                      *)

Init ==
  /\ connected = FALSE /\ redCard = FALSE /\ devicesEnabled = TRUE
  /\ pc = "idle" /\ time = 0
  /\ sensors = None /\ newSensors = None
  /\ sampling = None /\ age = None
  /\ recognition = -1
  /\ reported = {} /\ asked = None /\ sampled = {} /\ spoken = {}

Next ==
  \/ BeginStep \/ Recognize \/ ClientGone \/ EndStep \/ RedCard
  \/ \E d \in Sensor : Request(d)

\* The simulation goes on.
Fairness == WF_vars(BeginStep) /\ WF_vars(EndStep)

Spec == Init /\ [][Next]_vars /\ Fairness

----------------------------------------------------------------------------
(* Properties.                                                             *)

\* "we need to enable the sensors after we sent the sensor value to avoid sending values
\* for disabled sensors" (processBuffer): no value is read from a device that has had no
\* step to measure it.
NoUnreadValues == pc = "idle" => reported \subseteq sampled

\* The cameras that the server knows as enabled keep to the quota, unless the period of one
\* is changed while it is in use: the table goes on counting the old one (SamplesAsAsked).
CamerasInQuota ==
  (\A c \in Camera : sensors[c] # 0 => sampling[c] = sensors[c]) =>
    Together([c \in Camera |-> IF sensors[c] # 0 \/ newSensors[c] # 0 THEN Rendering(sampling[c]) ELSE 0])
      <= Quota

\* A sensor that the client has disabled is not reported.
Silent == pc = "idle" => \A d \in reported : asked[d] # 0

\* "time between two measurements expressed in [ms]" (SensorTimeStep, messages.proto).
SamplesAsAsked == \A d \in Sensor : asked[d] # 0 /\ ~redCard => sampling[d] = asked[d]

\* "Only allowing to set time_step if the rendering bandwidth is not exceeded" (processBuffer).
RenderingInQuota == Together([c \in Camera |-> Rendering(sampling[c])]) <= Quota

\* "disabled if 0" (SensorTimeStep, messages.proto): also recognition may be disabled.
Survives == pc # "crashed"

=============================================================================
