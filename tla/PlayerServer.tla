---------------------------- MODULE PlayerServer ----------------------------
(***************************************************************************)
(* The player server (player.cpp) between two steps of the simulation: its *)
(* motors (PlayerMotors) and its sensors (PlayerSensors) under the same    *)
(* requests, penalties, red cards and comings and goings of a client.      *)
(*                                                                         *)
(* The two share the connection, the step and what the referee has written *)
(* to customData; every action here is one of theirs or one of both.       *)
(***************************************************************************)
EXTENDS PlayerMotors

CONSTANTS
  Sensor, Camera, PeriodsOf, FastestCamera, FullRate, Quota, Recognition, Cycle,
  Repeat, ChangePeriod              \* see PlayerSensors

VARIABLES
  time, sensors, newSensors, sampling, age, recognition, reported, asked, sampled, spoken

S == INSTANCE PlayerSensors WITH redCard <- customData = "red_card"

ASSUME ServerConstants == S!SensorConstants

sensorVars == <<time, sensors, newSensors, sampling, age, recognition, reported, asked, sampled, spoken>>
motorOnlyVars == <<customData, actuatorsEnabled, motorVars>>
serverVars == <<vars, sensorVars>>

----------------------------------------------------------------------------
\* Without a client a step only lets time pass.
StepBegins == [BeginStep]_vars /\ S!BeginStep

\* The entries of one request, one by one or all motors together (processBuffer).
Motors          == ProcessBuffer /\ UNCHANGED sensorVars
SensorPeriod(d) == UNCHANGED motorOnlyVars /\ S!Request(d)
RecognitionTime == UNCHANGED motorOnlyVars /\ S!Recognize

Disconnect == ClientGone /\ S!ClientGone

StepEnds == EndStep /\ S!EndStep

Referee(data) == Write(data) /\ UNCHANGED sensorVars

ServerInit == Init /\ S!Init

ServerNext ==
  \/ StepBegins \/ Motors \/ RecognitionTime \/ Disconnect \/ StepEnds
  \/ \E d \in Sensor : SensorPeriod(d)
  \/ \E data \in Data : Referee(data)

\* The simulation goes on, with or without a client.
ServerFairness == WF_serverVars(StepBegins) /\ WF_serverVars(StepEnds)

ServerSpec == ServerInit /\ [][ServerNext]_serverVars /\ ServerFairness

----------------------------------------------------------------------------
\* "enable the sensors after we sent the sensor value": no reported value was read from a
\* device before it had a step to measure it, whatever the motors are told in the same step.
NoUnreadValues == S!NoUnreadValues

\* "Only allowing to set time_step if the rendering bandwidth is not exceeded": the cameras
\* known as enabled, in either table, keep to the quota of their robot, as long as none of
\* them has been given another period while in use.
CamerasInQuota == S!CamerasInQuota

\* A sensor that the client has disabled is not reported, before or after penalties and red
\* cards (processBuffer, prepareSensorMessage).
Silent == S!Silent
=============================================================================
