---------------------------- MODULE PlayerReceive ----------------------------
(***************************************************************************)
(* How the player server (player.cpp) reads the requests of its client     *)
(* from a stream of bytes: receiveMessages, receiveData, processBuffer.    *)
(*                                                                         *)
(* A byte is its position in the stream of the connection.  ends says      *)
(* where each request ends, so all that the server has read can be         *)
(* compared with what was written.  A header of two bytes of W values      *)
(* stands for the four of the code, the most significant one first.        *)
(*                                                                         *)
(* recv takes what has arrived, and the stream goes on arriving meanwhile. *)
(* Three constants say what the network and the client may do. All of it   *)
(* happens; with any of them TRUE the code fails, so an instance for TLC   *)
(* sets them FALSE to check what holds apart from that. The proofs assume  *)
(* none of them FALSE: they name the steps at which the server fails.      *)
(***************************************************************************)
EXTENDS Integers, Sequences

CONSTANTS
  Size,           \* sizes of the requests without their headers; the server skips an empty one
  W,              \* values of a byte
  MaxRequests,    \* bound: requests written on a connection
  SplitHeader,    \* the bytes of a header may arrive apart
  ArriveDuring,   \* bytes may arrive between two calls of recv in one receiveData
  CutShort        \* a connection may end while the server is in the middle of a request

ASSUME StreamConstants ==
  /\ W \in Nat \ {0} /\ Size \subseteq 1..(W * W - 1)
  /\ MaxRequests \in Nat
  /\ SplitHeader \in BOOLEAN /\ ArriveDuring \in BOOLEAN /\ CutShort \in BOOLEAN

VARIABLES
  ends,            \* where each request written on this connection ends
  arrived, taken,  \* bytes that have arrived, and that recv has returned
  open,            \* the client has not closed its end
  connected,       \* client_fd # -1
  pc,              \* "idle", or the receiveData under way: "header" or "body"
  received,        \* of this receiveData
  field,           \* the bytes of content_size while a header is read; 0 for none
  contentSize, recvIndex,
  buffer,          \* recv_buffer: the byte at each place; 0 for none
  devicesEnabled,
  handled,         \* requests of this connection acted on
  garbled          \* something was acted on that is not the next request

netVars  == <<ends, arrived, open>>
msgVars  == <<contentSize, recvIndex, buffer>>
doneVars == <<handled, garbled>>
vars == <<netVars, taken, connected, pc, received, field, msgVars, devicesEnabled, doneVars>>

----------------------------------------------------------------------------
(* The stream.                                                             *)

HeaderLen == 2

Start(m) == IF m = 1 THEN 0 ELSE ends[m - 1]
Total == Start(Len(ends) + 1)
SizeOf(m) == ends[m] - Start(m) - HeaderLen
Body(m) == [i \in 1..SizeOf(m) |-> Start(m) + HeaderLen + i]

InHeader(p) == \E m \in DOMAIN ends : Start(m) < p /\ p < Start(m) + HeaderLen

\* What a byte of a header may be read as: a byte of a body may be any.
HeaderByte(p) ==
  {SizeOf(m) \div W : m \in {k \in DOMAIN ends : p = Start(k) + 1}}
    \cup {SizeOf(m) % W : m \in {k \in DOMAIN ends : p = Start(k) + 2}}

ByteAt(p) == IF p = 0 THEN {0} ELSE IF HeaderByte(p) # {} THEN HeaderByte(p) ELSE 0..(W - 1)

Sizes(f) == {W * high + low : high \in ByteAt(f[1]), low \in ByteAt(f[2])}    \* ntohl

----------------------------------------------------------------------------
(* The client and the network.                                             *)

\* sendRequest.
Write ==
  /\ connected /\ open /\ Len(ends) < MaxRequests
  /\ \E s \in Size : ends' = Append(ends, Total + HeaderLen + s)
  /\ UNCHANGED <<arrived, open, taken, connected, pc, received, field, msgVars, devicesEnabled, doneVars>>

MayArrive == ArriveDuring \/ pc = "idle"

Arrive ==
  /\ connected /\ open /\ MayArrive
  /\ \E n \in (arrived + 1)..Total : arrived' = n /\ (SplitHeader \/ ~InHeader(n))
  /\ UNCHANGED <<ends, open, taken, connected, pc, received, field, msgVars, devicesEnabled, doneVars>>

\* The client closes its end or dies; what it has written still arrives, or part of it.
Close ==
  /\ connected /\ open /\ MayArrive
  /\ open' = FALSE
  /\ arrived' \in (IF CutShort THEN arrived..Total ELSE {Total})
  /\ SplitHeader \/ ~InHeader(arrived')
  /\ UNCHANGED <<ends, taken, connected, pc, received, field, msgVars, devicesEnabled, doneVars>>

----------------------------------------------------------------------------
(* The server.                                                             *)

\* accept_client. The client writes only after the welcome message.
Accept ==
  /\ pc = "idle" /\ ~connected
  /\ connected' = TRUE /\ open' = TRUE
  /\ ends' = <<>> /\ arrived' = 0 /\ taken' = 0 /\ handled' = 0
  /\ UNCHANGED <<pc, received, field, msgVars, devicesEnabled, garbled>>

\* A red card, which disables the devices for good.
RedCard ==
  /\ pc = "idle" /\ connected /\ devicesEnabled
  /\ devicesEnabled' = FALSE
  /\ UNCHANGED <<netVars, taken, connected, pc, received, field, msgVars, doneVars>>

\* The loop of receiveMessages calls receiveData. Its length is the difference of two
\* ints, as a size_t: below 0 nothing can be said of what follows.
Turn(size, index) ==
  IF size = 0 THEN "header" ELSE IF size < index THEN "undefined" ELSE "body"

Begin(size, index) == pc' = Turn(size, index) /\ received' = 0 /\ field' = <<0, 0>>

ReceiveMessages ==
  /\ pc = "idle" /\ connected
  /\ Begin(contentSize, recvIndex)
  /\ UNCHANGED <<netVars, taken, connected, msgVars, devicesEnabled, doneVars>>

\* Mutant of Wanted: room is kept for the zero at the end of a string.
WantedAsString == IF pc = "header" THEN HeaderLen ELSE contentSize - recvIndex - 1

Wanted == IF pc = "header" THEN HeaderLen ELSE contentSize - recvIndex

Least(a, b) == IF a < b THEN a ELSE b

\* recv writes to the same place each time: receiveData does not advance its pointer.
Recv ==
  /\ pc \in {"header", "body"} /\ received < Wanted /\ taken < arrived
  /\ LET n == Least(arrived - taken, Wanted - received)
     IN  /\ received' = received + n /\ taken' = taken + n
         /\ IF pc = "header"
            THEN /\ field' = [i \in 1..HeaderLen |-> IF i <= n THEN taken + i ELSE field[i]]
                 /\ UNCHANGED buffer
            ELSE /\ buffer' = [i \in DOMAIN buffer |->
                                 IF i - recvIndex \in 1..n THEN taken + i - recvIndex ELSE buffer[i]]
                 /\ UNCHANGED field
  /\ UNCHANGED <<netVars, connected, pc, contentSize, recvIndex, devicesEnabled, doneVars>>

\* receiveData returns: it has all, or recv has nothing for now, or nothing any more.
Returns == received = Wanted \/ taken = arrived
Gone == received # Wanted /\ ~open

\* closeClientSocket, and the end of the loop or its next turn.
Continue ==
  /\ connected' = ~Gone
  /\ IF received = 0 \/ Gone THEN pc' = "idle" /\ UNCHANGED <<received, field>>
                             ELSE Begin(contentSize', recvIndex')

EndHeader ==
  /\ pc = "header" /\ Returns
  /\ contentSize' \in (IF Gone THEN {0} ELSE Sizes(field))
  /\ buffer' = [i \in 1..contentSize' |-> 0]
  /\ UNCHANGED <<netVars, taken, recvIndex, devicesEnabled, doneVars>>
  /\ Continue

\* What a request of n bytes is parsed from. Nothing is an empty request, of no effect.
ActOn(read) ==
  IF handled < Len(ends) /\ read = Body(handled + 1)
  THEN handled' = handled + 1 /\ UNCHANGED garbled
  ELSE garbled' = (garbled \/ read # <<>>) /\ UNCHANGED handled

\* Mutant of ProcessBuffer: the place in the buffer is not reset.
ProcessBufferKeepsIndex(n) ==
  /\ recvIndex' = n /\ contentSize' = 0 /\ buffer' = <<>>
  /\ ActOn([i \in 1..n |-> buffer[i]])

ProcessBuffer(n) ==
  /\ recvIndex' = 0 /\ contentSize' = 0 /\ buffer' = <<>>
  /\ ActOn([i \in 1..n |-> buffer[i]])

\* Mutant of BodySize: the rest of a body that comes in pieces is taken for all of it.
BodyTaken == received

BodySize == IF Gone THEN 0 ELSE contentSize

EndBody ==
  /\ pc = "body" /\ Returns
  /\ IF recvIndex + received = BodySize /\ devicesEnabled
     THEN ProcessBuffer(recvIndex + received)
     ELSE /\ recvIndex' = recvIndex + received /\ contentSize' = BodySize
          /\ buffer' = IF Gone THEN <<>> ELSE buffer
          /\ UNCHANGED doneVars
  /\ Continue
  /\ UNCHANGED <<netVars, taken, devicesEnabled>>

\* sendSensorMessage finds the connection broken, and calls closeClientSocket.
SendFails ==
  /\ pc = "idle" /\ connected /\ ~open
  /\ CutShort \/ contentSize = 0
  /\ connected' = FALSE /\ contentSize' = 0 /\ buffer' = <<>>
  /\ UNCHANGED <<netVars, taken, pc, received, field, recvIndex, devicesEnabled, doneVars>>

----------------------------------------------------------------------------
(* The specification.                                                      *)

Init ==
  /\ ends = <<>> /\ arrived = 0 /\ taken = 0 /\ open = FALSE /\ connected = FALSE
  /\ pc = "idle" /\ received = 0 /\ field = <<0, 0>>
  /\ contentSize = 0 /\ recvIndex = 0 /\ buffer = <<>>
  /\ devicesEnabled = TRUE /\ handled = 0 /\ garbled = FALSE

Receive == ReceiveMessages \/ Recv \/ EndHeader \/ EndBody

Next == Write \/ Arrive \/ Close \/ Accept \/ RedCard \/ Receive \/ SendFails

\* The server runs with the simulation, and TCP delivers: bytes that are left for ever
\* are delivered at last, when the server comes to rest between two steps.
Fairness == WF_vars(Receive) /\ SF_vars(Arrive)

Spec == Init /\ [][Next]_vars /\ Fairness

----------------------------------------------------------------------------
(* Properties.                                                             *)

\* Types. The place in the buffer never passes the end of the message.
ReceiveTypeOK ==
  /\ ends \in Seq(Nat) /\ open \in BOOLEAN /\ connected \in BOOLEAN
  /\ taken \in Nat /\ arrived \in taken..Total
  /\ pc \in {"idle", "header", "body"} /\ received \in Nat /\ field \in [1..HeaderLen -> Nat]
  /\ contentSize \in Nat /\ recvIndex \in 0..contentSize /\ buffer \in [1..contentSize -> Nat]
  /\ devicesEnabled \in BOOLEAN /\ handled \in 0..Len(ends) /\ garbled \in BOOLEAN

\* "Attempts to read up-to length from the client_fd, if data is missing, stops reading"
\* (receiveData): what is acted on is a request of this client, whole and in its turn.
ActsOnRequests == ~garbled /\ pc # "undefined"

\* When headers come in one piece, nothing arrives inside a receiveData and connections
\* end between requests, the server implements RequestStream, with bodies in any pieces.
Stream == INSTANCE RequestStream WITH
            written <- Len(ends),
            done    <- IF ActsOnRequests THEN handled ELSE -1

ActsInOrder == Stream!Spec

\* The stream is never out of step: when the server waits for a header, a header is next.
InStep ==
  (pc = "idle" /\ connected /\ contentSize = 0)
     => recvIndex = 0 /\ taken = Start(handled + 1)

\* Each request that was written is acted on, unless the connection ends or the robot
\* gets a red card.
EachActedOn ==
  \A n \in 1..MaxRequests :
    (connected /\ Len(ends) >= n) ~> (handled >= n \/ ~open \/ ~devicesEnabled)

=============================================================================
