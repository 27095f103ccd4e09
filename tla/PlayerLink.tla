----------------------------- MODULE PlayerLink -----------------------------
(***************************************************************************)
(* Who waits for whom between a player server (player.cpp), in lockstep    *)
(* with the simulation, and its client (client.cpp and robot_client.cpp,   *)
(* or communication_manager_robokit.py).                                   *)
(*                                                                         *)
(* Each direction of the connection is a buffer of bounded size.  The      *)
(* server reads without waiting, but waits in send_all for room; the       *)
(* client waits in both directions.  Requests are counted, and answers in  *)
(* pieces: the Python client takes an answer in pieces of 1024 bytes and   *)
(* may speak after each; the C++ client always speaks, after whole answers.*)
(***************************************************************************)
EXTENDS Integers

CONSTANTS
  ToServer, ToClient,   \* what the two buffers hold, in requests and in pieces
  AnswerSize,           \* pieces of an answer
  RedCards,             \* robots may get a red card
  Ends                  \* the simulator may be closed

ASSUME LinkConstants ==
  /\ ToServer \in Nat /\ ToClient \in Nat \ {0}
  /\ AnswerSize \subseteq Nat \ {0}
  /\ \A k \in AnswerSize : k <= ToServer
  /\ RedCards \in BOOLEAN /\ Ends \in BOOLEAN

VARIABLES
  server,               \* "idle" between two steps, "send" in send_all, "ended"
  client,               \* "send", "receive" or "gone"
  connected,            \* client_fd # -1
  toServer, toClient,   \* what is in the buffers
  rest,                 \* pieces that send_all has yet to send
  redCard, devicesEnabled,
  held                  \* after a red card, a request is in recv_buffer for good

vars == <<server, client, connected, toServer, toClient, rest, redCard, devicesEnabled, held>>
cardVars == <<redCard, devicesEnabled, held>>

----------------------------------------------------------------------------
(* The server.                                                             *)

\* accept_client, and set_blocking. Connections after a red card are left out: they are
\* read out of step (PlayerReceive).
Accept ==
  /\ server = "idle" /\ ~connected /\ devicesEnabled
  /\ connected' = TRUE /\ client' = "send"
  /\ toServer' = 0 /\ toClient' = 0
  /\ UNCHANGED <<server, rest, cardVars>>

\* Mutant of Read: one request in a step.
ReadOne ==
  /\ toServer' = IF toServer = 0 THEN 0 ELSE toServer - 1
  /\ UNCHANGED held

\* receiveMessages. A request that is complete but not acted on ends the loop.
Read ==
  IF devicesEnabled
  THEN toServer' = 0 /\ UNCHANGED held
  ELSE IF toServer # 0 /\ ~held
       THEN toServer' = toServer - 1 /\ held' = TRUE
       ELSE UNCHANGED <<toServer, held>>

\* Mutant of Answers: a step without a request has no answer.
AnswersRequests == toServer # 0

Answers == TRUE

\* recv finds out that the client has gone, when there is nothing left to read.
FindsEnd == client = "gone" /\ (devicesEnabled \/ (toServer = 0 /\ ~held))

\* The beginning of a step, up to sendSensorMessage.
Step ==
  /\ server = "idle" /\ connected /\ ~FindsEnd
  /\ Read
  /\ devicesEnabled' = (devicesEnabled /\ ~redCard)
  /\ IF Answers THEN rest' \in AnswerSize /\ server' = "send" ELSE UNCHANGED <<rest, server>>
  /\ UNCHANGED <<client, connected, toClient, redCard>>

StepWithoutClient ==
  /\ server = "idle" /\ connected /\ FindsEnd
  /\ connected' = FALSE
  /\ devicesEnabled' = (devicesEnabled /\ ~redCard)
  /\ UNCHANGED <<server, client, toServer, toClient, rest, redCard, held>>

Sent(length) == length = 0

\* send in send_all takes what there is room for.
SendAll ==
  /\ server = "send" /\ client # "gone" /\ toClient < ToClient
  /\ \E n \in 1..rest :
       /\ toClient + n <= ToClient
       /\ toClient' = toClient + n /\ rest' = rest - n
  /\ server' = IF Sent(rest') THEN "idle" ELSE "send"
  /\ UNCHANGED <<client, connected, toServer, cardVars>>

\* Mutant of Broken: a broken connection is taken for a full buffer.
BrokenIsFull == client = "gone" /\ toClient < ToClient

Broken == client = "gone"

\* send fails, and closeClientSocket forgets the request under way.
SendFails ==
  /\ server = "send" /\ Broken
  /\ server' = "idle" /\ connected' = FALSE /\ rest' = 0 /\ held' = FALSE
  /\ UNCHANGED <<client, toServer, toClient, redCard, devicesEnabled>>

RedCard ==
  /\ RedCards /\ ~redCard /\ redCard' = TRUE
  /\ UNCHANGED <<server, client, connected, toServer, toClient, rest, devicesEnabled, held>>

SimulatorEnds ==
  /\ Ends /\ server = "idle"
  /\ server' = "ended"
  /\ UNCHANGED <<client, connected, toServer, toClient, rest, cardVars>>

----------------------------------------------------------------------------
(* The client.                                                             *)

\* sendRequest. To write to a server that is closed is an error.
SendRequest ==
  /\ connected /\ client = "send" /\ server # "ended" /\ toServer < ToServer
  /\ toServer' = toServer + 1 /\ client' = "receive"
  /\ UNCHANGED <<server, connected, toClient, rest, cardVars>>

\* The Python client has nothing to say.
SaysNothing ==
  /\ connected /\ client = "send"
  /\ client' = "receive"
  /\ UNCHANGED <<server, connected, toServer, toClient, rest, cardVars>>

\* sendRequest of robot_client.cpp closes its socket; robot_client.py only logs the error.
SendError ==
  /\ connected /\ client = "send" /\ server = "ended"
  /\ client' = "gone"
  /\ UNCHANGED <<server, connected, toServer, toClient, rest, cardVars>>

\* receive. The end of the stream is nothing received, and tried again.
Receive ==
  /\ connected /\ client = "receive" /\ toClient # 0
  /\ \E n \in 1..toClient : toClient' = toClient - n
  /\ client' \in {"receive", "send"}
  /\ UNCHANGED <<server, connected, toServer, rest, cardVars>>

Dies ==
  /\ connected /\ client # "gone"
  /\ client' = "gone"
  /\ UNCHANGED <<server, connected, toServer, toClient, rest, cardVars>>

----------------------------------------------------------------------------
(* The specification.                                                      *)

Init ==
  /\ server = "idle" /\ client = "gone" /\ connected = FALSE
  /\ toServer = 0 /\ toClient = 0 /\ rest = 0
  /\ redCard = FALSE /\ devicesEnabled = TRUE /\ held = FALSE

Server == Step \/ StepWithoutClient \/ SendAll \/ SendFails
Client == SendRequest \/ SendError \/ Receive

Next == Accept \/ Server \/ RedCard \/ SimulatorEnds \/ Client \/ SaysNothing \/ Dies

\* The simulation goes on while the server does not hold it up; a client reads what has
\* come and goes on with its loop when an answer is whole.
Fairness ==
  /\ WF_vars(Server) /\ WF_vars(Client)
  /\ SF_vars(Receive /\ client' = "send")

Spec == Init /\ [][Next]_vars /\ Fairness

----------------------------------------------------------------------------
(* Properties.                                                             *)

LinkTypeOK ==
  /\ server \in {"idle", "send", "ended"} /\ client \in {"send", "receive", "gone"}
  /\ connected \in BOOLEAN
  /\ toServer \in 0..ToServer /\ toClient \in 0..ToClient
  /\ rest \in 0..ToServer
  /\ redCard \in BOOLEAN /\ devicesEnabled \in BOOLEAN /\ held \in BOOLEAN
  /\ server = "send" => connected /\ rest # 0

ServerWaits == server = "send" /\ client # "gone" /\ toClient = ToClient
ClientWaits == connected /\ client = "send" /\ toServer = ToServer

\* Server and client never wait for one another, however slow the client reads and however
\* small the other buffer: all requests are read before an answer is sent, and a client
\* takes a piece of an answer before it speaks again.
NotBothWait == devicesEnabled => ~(ServerWaits /\ ClientWaits)

\* "Independently from if we received a message or not, send a message to the Controller"
\* (step): each step of the server comes to its end, and the simulation goes on.
StepsAlwaysEnd == server = "send" ~> server # "send"

\* It does so for robots without a red card.
StepsEnd == server = "send" ~> (server # "send" \/ redCard)

\* A client that waits for an answer gets one, whether it has asked or not.
ClientGoesOn == (connected /\ client = "receive") ~> (client # "receive" \/ server = "ended")

\* What the client sends is read.
RequestsRead == (connected /\ toServer # 0) ~>
                  (toServer = 0 \/ redCard \/ ~connected \/ server = "ended")

\* "Simulator interrupted the connection" (RobotClient::receiveData).
ClientNotices == server = "ended" ~> (~connected \/ client = "gone")

=============================================================================
