-------------------------- MODULE PlayerLinkProofs --------------------------
(***************************************************************************)
(* Server and client never wait for one another, for buffers of any size   *)
(* and answers of any length.                                              *)
(*                                                                         *)
(* While the server sends an answer, each request in its buffer was paid   *)
(* for by a piece that the client took: requests, pieces, what is still to *)
(* be sent and the client's turn to speak are together no more than they   *)
(* were when the server had just read all requests.                        *)
(***************************************************************************)
EXTENDS PlayerLink, TLAPS

Turn == IF client = "send" THEN 1 ELSE 0

Paid ==
  (server = "send" /\ devicesEnabled) =>
     toServer + toClient + rest + Turn <= ToServer + ToClient + 1

LinkInv == LinkTypeOK /\ Paid

\* The invariant holds at first.
LEMMA InitLink == ASSUME Init PROVE LinkInv
<1>1. ToServer \in Nat /\ ToClient \in Nat /\ 0 \in 0..ToServer /\ 0 \in 0..ToClient
  BY LinkConstants
<1> QED
  BY <1>1 DEF Init, LinkInv, LinkTypeOK, Paid

\* Accepting a client keeps the invariant: no answer is under way.
LEMMA AcceptLink == ASSUME LinkInv, Accept PROVE LinkInv'
  BY LinkConstants DEF Accept, LinkInv, LinkTypeOK, Paid, Turn, cardVars

\* The beginning of a step reads all requests, and so the account starts anew.
LEMMA StepLink == ASSUME LinkInv, Step PROVE LinkInv'
<1>0. /\ ToServer \in Nat /\ ToClient \in Nat /\ AnswerSize \subseteq Nat \ {0}
      /\ \A k \in AnswerSize : k <= ToServer
  BY LinkConstants
<1>1. LinkTypeOK
  BY DEF LinkInv
<1>2. rest' \in AnswerSize /\ server' = "send"
  BY DEF Step, Answers
<1>3. rest' \in 0..ToServer /\ rest' # 0
  BY <1>0, <1>2
<1>4. toServer' \in 0..ToServer /\ held' \in BOOLEAN
  <2>1. /\ held' \in BOOLEAN
        /\ \/ toServer' \in {0, toServer}
           \/ toServer # 0 /\ toServer' = toServer - 1
    BY <1>1 DEF Step, Read, LinkTypeOK
  <2>2. toServer \in 0..ToServer
    BY <1>1 DEF LinkTypeOK
  <2> QED
    BY <1>0, <2>1, <2>2
<1>5. LinkTypeOK'
  BY <1>0, <1>1, <1>2, <1>3, <1>4 DEF Step, LinkTypeOK
<1>6. devicesEnabled' => toServer' = 0
  BY <1>1 DEF Step, Read, LinkTypeOK
<1>7. PICK t \in {0, 1}, c \in 0..ToClient, r \in 0..ToServer : Turn' = t /\ toClient' = c /\ rest' = r
  BY <1>5 DEF LinkTypeOK, Turn
<1>8. Paid'
  <2>1. SUFFICES ASSUME devicesEnabled'
                 PROVE  (toServer + toClient + rest + Turn <= ToServer + ToClient + 1)'
    BY DEF Paid
  <2>2. toServer' = 0
    BY <1>6, <2>1
  <2>3. \A u \in {0, 1}, v \in 0..ToClient, w \in 0..ToServer : 0 + v + w + u <= ToServer + ToClient + 1
    BY <1>0
  <2> QED
    BY <1>7, <2>2, <2>3
<1> QED
  BY <1>5, <1>8 DEF LinkInv

\* What send_all moves from one term of the account to another leaves the sum.
LEMMA SendLink == ASSUME LinkInv, SendAll PROVE LinkInv'
<1>0. ToServer \in Nat /\ ToClient \in Nat
  BY LinkConstants
<1>1. LinkTypeOK /\ Paid
  BY DEF LinkInv
<1>2. rest \in Nat /\ toClient \in Nat /\ rest <= ToServer
  BY <1>0, <1>1 DEF LinkTypeOK
<1>3. PICK n \in 1..rest :
        toClient + n <= ToClient /\ toClient' = toClient + n /\ rest' = rest - n
  BY DEF SendAll
<1>4. toClient' \in 0..ToClient /\ rest' \in 0..ToServer /\ toClient' + rest' = toClient + rest
  BY <1>0, <1>2, <1>3
<1>5. LinkTypeOK'
  BY <1>0, <1>1, <1>4 DEF SendAll, Sent, LinkTypeOK, cardVars
<1>6. Paid'
  <2>1. server = "send" /\ toServer' = toServer /\ Turn' = Turn /\ devicesEnabled' = devicesEnabled
    BY DEF SendAll, Turn, cardVars
  <2>2. toServer \in Nat /\ Turn \in Nat
    BY <1>1 DEF LinkTypeOK, Turn
  <2>3. SUFFICES ASSUME toServer + toClient + rest + Turn <= ToServer + ToClient + 1
                 PROVE  toServer' + toClient' + rest' + Turn' <= ToServer + ToClient + 1
    BY <1>1, <2>1 DEF Paid
  <2>4. PICK t \in Nat, s \in Nat : Turn = t /\ Turn' = t /\ toServer = s /\ toServer' = s
    BY <2>1, <2>2
  <2>5. toServer' + toClient' + rest' + Turn' = toServer + toClient + rest + Turn
    BY <1>2, <1>3, <2>4
  <2> QED
    BY <2>3, <2>5
<1> QED
  BY <1>5, <1>6 DEF LinkInv

\* When the connection or the simulation ends, no answer is under way.
LEMMA EndLink ==
  ASSUME LinkInv, StepWithoutClient \/ SendFails \/ SimulatorEnds PROVE LinkInv'
<1>0. 0 \in 0..ToServer
  BY LinkConstants
<1>1. server' # "send" /\ server' \in {"idle", "ended"}
  BY DEF StepWithoutClient, SendFails, SimulatorEnds, LinkInv, LinkTypeOK
<1>2. LinkTypeOK'
  BY <1>0, <1>1 DEF StepWithoutClient, SendFails, SimulatorEnds, LinkInv, LinkTypeOK, cardVars
<1>3. Paid'
  BY <1>1 DEF Paid
<1> QED
  BY <1>2, <1>3 DEF LinkInv

\* A red card changes nothing before the next step.
LEMMA CardLink == ASSUME LinkInv, RedCard PROVE LinkInv'
  BY DEF RedCard, LinkInv, LinkTypeOK, Paid, Turn

\* A request is paid for with the turn to speak.
LEMMA RequestLink == ASSUME LinkInv, SendRequest PROVE LinkInv'
<1>0. ToServer \in Nat /\ ToClient \in Nat /\ rest \in Nat /\ toClient \in Nat /\ toServer \in Nat
  BY LinkConstants DEF LinkInv, LinkTypeOK
<1>1. LinkTypeOK'
  BY <1>0 DEF SendRequest, LinkInv, LinkTypeOK, cardVars
<1>2. Turn = 1 /\ Turn' = 0 /\ toServer' = toServer + 1
  BY DEF SendRequest, Turn
<1>3. Paid'
  BY <1>0, <1>2 DEF SendRequest, LinkInv, Paid, cardVars
<1> QED
  BY <1>1, <1>3 DEF LinkInv

\* A client that says nothing, or goes, gives its turn away.
LEMMA SilentLink == ASSUME LinkInv, SaysNothing \/ SendError \/ Dies PROVE LinkInv'
<1>0. ToServer \in Nat /\ ToClient \in Nat /\ rest \in Nat /\ toClient \in Nat /\ toServer \in Nat
  BY LinkConstants DEF LinkInv, LinkTypeOK
<1>1. LinkTypeOK'
  BY DEF SaysNothing, SendError, Dies, LinkInv, LinkTypeOK, cardVars
<1>2. Turn' = 0 /\ Turn \in {0, 1}
  BY DEF SaysNothing, SendError, Dies, Turn
<1>3. UNCHANGED <<server, devicesEnabled, toServer, toClient, rest>>
  BY DEF SaysNothing, SendError, Dies, cardVars
<1>4. Paid'
  BY <1>0, <1>2, <1>3 DEF LinkInv, Paid
<1> QED
  BY <1>1, <1>4 DEF LinkInv

\* The turn to speak is paid for with at least one piece of an answer.
LEMMA ReceiveLink == ASSUME LinkInv, Receive PROVE LinkInv'
<1>0. ToServer \in Nat /\ ToClient \in Nat /\ rest \in Nat /\ toClient \in Nat /\ toServer \in Nat
  BY LinkConstants DEF LinkInv, LinkTypeOK
<1>1. PICK n \in 1..toClient : toClient' = toClient - n
  BY DEF Receive
<1>2. toClient' \in 0..ToClient
  BY <1>0, <1>1 DEF LinkInv, LinkTypeOK
<1>3. LinkTypeOK'
  BY <1>2 DEF Receive, LinkInv, LinkTypeOK, cardVars
<1>4. PICK t \in {0, 1} : Turn = 0 /\ Turn' = t
  BY DEF Receive, Turn
<1>5. Paid'
  <2>1. UNCHANGED <<server, devicesEnabled, toServer, rest>>
    BY DEF Receive, cardVars
  <2>2. SUFFICES ASSUME toServer + toClient + rest + Turn <= ToServer + ToClient + 1
                 PROVE  toServer' + toClient' + rest' + Turn' <= ToServer + ToClient + 1
    BY <2>1 DEF LinkInv, Paid
  <2> QED
    BY <1>0, <1>1, <1>4, <2>1, <2>2
<1> QED
  BY <1>3, <1>5 DEF LinkInv

\* Every step keeps the invariant.
LEMMA NextLink == ASSUME LinkInv, [Next]_vars PROVE LinkInv'
<1>1. CASE Next
  BY <1>1, AcceptLink, StepLink, SendLink, EndLink, CardLink, RequestLink, SilentLink, ReceiveLink
     DEF Next, Server, Client
<1>2. CASE UNCHANGED vars
  BY <1>2 DEF vars, cardVars, LinkInv, LinkTypeOK, Paid, Turn
<1> QED
  BY <1>1, <1>2

\* The account of requests and pieces is an invariant, for buffers of any size.
THEOREM LinkInvariant == Spec => []LinkInv
  BY InitLink, NextLink, PTL DEF Spec

\* Type correctness (LinkTypeOK): neither buffer overflows, and send_all has something to send.
THEOREM LinkTypeCorrect == Spec => []LinkTypeOK
<1>1. LinkInv => LinkTypeOK
  BY DEF LinkInv
<1> QED
  BY <1>1, LinkInvariant, PTL

\* Server and client never wait for one another (NotBothWait).
THEOREM NeverBothWait == Spec => []NotBothWait
<1>1. ASSUME LinkInv PROVE NotBothWait
  <2>0. ToServer \in Nat /\ ToClient \in Nat /\ rest \in Nat /\ toClient \in Nat /\ toServer \in Nat
    BY <1>1, LinkConstants DEF LinkInv, LinkTypeOK
  <2>1. SUFFICES ASSUME devicesEnabled, ServerWaits, ClientWaits PROVE FALSE
    BY DEF NotBothWait
  <2>2. toServer = ToServer /\ toClient = ToClient /\ Turn = 1
    BY <2>1 DEF ServerWaits, ClientWaits, Turn
  <2>3. rest >= 1
    BY <1>1, <2>0, <2>1 DEF LinkInv, LinkTypeOK, ServerWaits
  <2>4. toServer + toClient + rest + Turn <= ToServer + ToClient + 1
    BY <1>1, <2>1 DEF LinkInv, Paid, ServerWaits
  <2> QED
    BY <2>0, <2>2, <2>3, <2>4
<1> QED
  BY <1>1, LinkInvariant, PTL

=============================================================================
