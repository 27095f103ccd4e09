------------------------- MODULE PlayerReceiveProofs -------------------------
(***************************************************************************)
(* Proofs about PlayerReceive for every set of sizes, every number of      *)
(* requests and of connections, and whatever the network and the clients   *)
(* do (no value of the three constants is assumed): the server loses its   *)
(* place in the stream at three kinds of steps and at no other, and until  *)
(* the first of them it implements RequestStream.                          *)
(***************************************************************************)
EXTENDS PlayerReceive, TLAPS

----------------------------------------------------------------------------
(* The steps at which the server loses its place.                          *)

\* closeClientSocket resets content_size and leaves recv_index (player.cpp:1287-1291).
KeepsIndex == connected /\ ~connected' /\ recvIndex' # 0

\* receiveMessages takes a part of a header for the whole (player.cpp:526-527).
PartHeader == EndHeader /\ received \in 1..(HeaderLen - 1) /\ ~Gone

\* receiveData calls recv again and writes over what it has read (player.cpp:547).
Overwrites == Recv /\ received > 0

LosesPlace == KeepsIndex \/ PartHeader \/ Overwrites

----------------------------------------------------------------------------
(* The invariants.                                                         *)

\* The requests written lie in the stream one after the other.
EndsOK ==
  /\ ends \in Seq(Nat)
  /\ \A m \in 1..Len(ends) : SizeOf(m) \in Size
  /\ \A k, m \in 1..Len(ends) : k < m => ends[k] =< Start(m)

\* A receiveData under way fits what is read, and stays within it.
TurnOK ==
  /\ contentSize = 0 => pc # "body"
  /\ pc = "header" => contentSize = 0 /\ received =< HeaderLen
  /\ pc = "body" => recvIndex + received =< contentSize
  /\ ~connected => pc = "idle" /\ contentSize = 0

\* The server writes within recv_buffer. This is inductive but for KeepsIndex.
PlaceInv == EndsOK /\ ReceiveTypeOK /\ TurnOK

\* The bytes of the present body that are in the buffer.
Stored == recvIndex + (IF pc = "body" THEN received ELSE 0)

\* The buffer holds the first bytes of the next request, and recv stands behind them.
BodyInv ==
  contentSize > 0 =>
    /\ handled < Len(ends)
    /\ contentSize = SizeOf(handled + 1)
    /\ \A i \in 1..Stored : buffer[i] = Start(handled + 1) + HeaderLen + i
    /\ taken = Start(handled + 1) + HeaderLen + Stored

\* Between requests recv stands before a header, or within the one being read.
HeaderInv ==
  contentSize = 0 =>
    /\ (connected /\ pc = "idle") => taken = Start(handled + 1)
    /\ pc = "header" =>
         /\ taken = Start(handled + 1) + received
         /\ \A i \in 1..HeaderLen : field[i] = IF i =< received THEN Start(handled + 1) + i ELSE 0

\* The server is at its place in the stream. This is inductive but for LosesPlace.
StreamInv == PlaceInv /\ BodyInv /\ HeaderInv /\ ~garbled

USE DEF HeaderLen

----------------------------------------------------------------------------
(* The stream.                                                             *)

\* No request is empty.
LEMMA SizesPositive == Size \subseteq Nat \ {0}
<1> DEFINE top == W * W - 1
<1>1. top \in Int /\ Size \subseteq 1..top
  BY StreamConstants
<1> HIDE DEF top
<1> QED BY <1>1

\* Where requests start and end.
LEMMA Layout ==
  ASSUME EndsOK
  PROVE  /\ Len(ends) \in Nat /\ Total \in Nat
         /\ \A m \in 1..(Len(ends) + 1) : Start(m) \in Nat /\ Start(m) =< Total
         /\ \A m \in 1..Len(ends) :
              /\ ends[m] \in Nat /\ ends[m] =< Total /\ SizeOf(m) \in Nat \ {0}
              /\ ends[m] = Start(m) + HeaderLen + SizeOf(m) /\ Start(m + 1) = ends[m]
<1>1. Len(ends) \in Nat /\ \A m \in 1..Len(ends) : ends[m] \in Nat
  BY DEF EndsOK
<1>2. \A m \in 1..(Len(ends) + 1) : Start(m) \in Nat
  BY <1>1 DEF Start
<1>3. Total \in Nat
  BY <1>1, <1>2 DEF Total
<1>4. ASSUME NEW m \in 1..Len(ends)
      PROVE  /\ ends[m] =< Total /\ SizeOf(m) \in Nat \ {0}
             /\ ends[m] = Start(m) + HeaderLen + SizeOf(m) /\ Start(m + 1) = ends[m]
  <2>1. SizeOf(m) \in Nat \ {0}
    BY SizesPositive DEF EndsOK
  <2>2. ends[m] = Start(m) + HeaderLen + SizeOf(m)
    <3>1. ends[m] \in Nat /\ Start(m) \in Nat
      BY <1>1, <1>2
    <3> QED BY <3>1 DEF SizeOf
  <2>3. Start(m + 1) = ends[m]
    BY <1>1 DEF Start
  <2>4. Total = ends[Len(ends)]
    BY <1>1 DEF Total, Start
  <2>5. ends[m] =< Total
    <3>1. CASE m = Len(ends)
      BY <1>1, <2>4, <3>1
    <3>2. CASE m < Len(ends)
      <4>1. Len(ends) \in 1..Len(ends) /\ ends[m] =< Start(Len(ends))
        BY <1>1, <3>2 DEF EndsOK
      <4>2. SizeOf(Len(ends)) \in Nat \ {0}
        BY <4>1, SizesPositive DEF EndsOK
      <4>3. Start(Len(ends)) + HeaderLen =< ends[Len(ends)]
        BY <1>1, <1>2, <4>1, <4>2 DEF SizeOf
      <4> QED BY <1>1, <1>2, <1>3, <2>4, <4>1, <4>3
    <3> QED BY <1>1, <3>1, <3>2
  <2> QED BY <2>1, <2>2, <2>3, <2>5
<1>5. \A m \in 1..(Len(ends) + 1) : Start(m) =< Total
  <2>1. ASSUME NEW m \in 1..Len(ends) PROVE Start(m) =< Total
    <3>1. Start(m) \in Nat /\ ends[m] \in Nat /\ SizeOf(m) \in Nat
      BY <1>1, <1>2, <1>4
    <3>2. ends[m] = Start(m) + HeaderLen + SizeOf(m) /\ ends[m] =< Total
      BY <1>4
    <3> QED BY <1>3, <3>1, <3>2
  <2> QED BY <1>1, <1>3, <2>1 DEF Total
<1> QED BY <1>1, <1>2, <1>3, <1>4, <1>5

\* A header that is read in its place says the size of its request.
LEMMA HeaderSays ==
  ASSUME EndsOK, NEW m \in 1..Len(ends),
         field[1] = Start(m) + 1, field[2] = Start(m) + 2
  PROVE  Sizes(field) = {SizeOf(m)}
<1>1. Start(m) \in Nat /\ SizeOf(m) \in Nat
  BY Layout
<1>2. DOMAIN ends = 1..Len(ends)
  BY DEF EndsOK
<1>3. ASSUME NEW k \in 1..Len(ends), k # m
      PROVE  Start(k) \in Nat /\ (Start(k) > Start(m) + 2 \/ Start(m) > Start(k) + 2)
  <2>1. Start(k) \in Nat /\ SizeOf(k) \in Nat \ {0} /\ ends[k] = Start(k) + 2 + SizeOf(k)
    BY Layout
  <2>2. SizeOf(m) \in Nat \ {0} /\ ends[m] = Start(m) + 2 + SizeOf(m)
    BY Layout
  <2>3. ends[k] =< Start(m) \/ ends[m] =< Start(k)
    <3>1. k < m \/ m < k
      BY <1>3, Layout
    <3> QED BY <3>1 DEF EndsOK
  <2> QED BY <1>1, <2>1, <2>2, <2>3
<1>4. ByteAt(field[1]) = {SizeOf(m) \div W}
  <2>1. {k \in DOMAIN ends : field[1] = Start(k) + 1} = {m}
    BY <1>1, <1>2, <1>3
  <2>2. {k \in DOMAIN ends : field[1] = Start(k) + 2} = {}
    BY <1>1, <1>2, <1>3
  <2>3. HeaderByte(field[1]) = {SizeOf(m) \div W}
    BY <2>1, <2>2 DEF HeaderByte
  <2>4. field[1] # 0
    BY <1>1
  <2> QED BY <2>3, <2>4 DEF ByteAt
<1>5. ByteAt(field[2]) = {SizeOf(m) % W}
  <2>1. {k \in DOMAIN ends : field[2] = Start(k) + 2} = {m}
    BY <1>1, <1>2, <1>3
  <2>2. {k \in DOMAIN ends : field[2] = Start(k) + 1} = {}
    BY <1>1, <1>2, <1>3
  <2>3. HeaderByte(field[2]) = {SizeOf(m) % W}
    BY <2>1, <2>2 DEF HeaderByte
  <2>4. field[2] # 0
    BY <1>1
  <2> QED BY <2>3, <2>4 DEF ByteAt
<1>6. W * (SizeOf(m) \div W) + (SizeOf(m) % W) = SizeOf(m)
  <2>1. W \in Nat \ {0}
    BY StreamConstants
  <2> DEFINE s == SizeOf(m)
  <2>2. s \in Nat
    BY <1>1
  <2> HIDE DEF s
  <2>3. W * (s \div W) + (s % W) = s
    BY <2>1, <2>2
  <2> QED BY <2>3 DEF s
<1> QED BY <1>4, <1>5, <1>6 DEF Sizes

\* What does not write leaves the stream as it is.
LEMMA SameStream ==
  ASSUME UNCHANGED ends
  PROVE  /\ EndsOK => EndsOK'
         /\ Len(ends)' = Len(ends) /\ Total' = Total
         /\ \A m : Start(m)' = Start(m) /\ SizeOf(m)' = SizeOf(m)
         /\ \A p : InHeader(p)' = InHeader(p)
BY DEF EndsOK, Total, Start, SizeOf, InHeader

\* What writes adds a request at the end.
LEMMA OneMore ==
  ASSUME EndsOK, NEW s \in Size, ends' = Append(ends, Total + HeaderLen + s)
  PROVE  /\ EndsOK' /\ Len(ends)' = Len(ends) + 1 /\ Total' = Total + HeaderLen + s
         /\ \A m \in 1..(Len(ends) + 1) : Start(m)' = Start(m)
         /\ \A m \in 1..Len(ends) : SizeOf(m)' = SizeOf(m)
         /\ \A p \in Nat : p =< Total => InHeader(p)' = InHeader(p)
<1>1. s \in Nat \ {0} /\ Total \in Nat /\ Len(ends) \in Nat /\ ends \in Seq(Nat)
  BY SizesPositive, Layout DEF EndsOK
<1> DEFINE last == Total + HeaderLen + s
<1>2. PICK n \in Nat : n = Len(ends)
  BY <1>1
<1>3. PICK t \in Nat : t = Total
  BY <1>1
<1>4. /\ ends' \in Seq(Nat) /\ Len(ends)' = n + 1
      /\ ends'[n + 1] = t + HeaderLen + s
      /\ \A m \in 1..n : ends'[m] = ends[m]
  <2>1. last \in Nat
    BY <1>1
  <2> HIDE DEF last
  <2>2. /\ Append(ends, last) \in Seq(Nat) /\ Len(Append(ends, last)) = n + 1
        /\ Append(ends, last)[n + 1] = last
        /\ \A m \in 1..n : Append(ends, last)[m] = ends[m]
    BY <1>1, <1>2, <2>1
  <2>3. ends' = Append(ends, last) /\ last = t + HeaderLen + s
    BY <1>3 DEF last
  <2> QED BY <2>2, <2>3
<1>5. \A m \in 1..(n + 1) : Start(m)' = Start(m)
  BY <1>4 DEF Start
<1>6. \A m \in 1..n : SizeOf(m)' = SizeOf(m)
  BY <1>4, <1>5 DEF SizeOf
<1>7. Start(n + 1)' = t
  BY <1>2, <1>3, <1>5 DEF Total
<1>8. SizeOf(n + 1)' = s
  BY <1>1, <1>4, <1>7 DEF SizeOf
<1>9. Total' = t + HeaderLen + s
  BY <1>4 DEF Total, Start
<1>10. EndsOK'
  <2>1. \A m \in 1..(n + 1) : SizeOf(m)' \in Size
    BY <1>2, <1>6, <1>8 DEF EndsOK
  <2>2. ASSUME NEW k \in 1..(n + 1), NEW m \in 1..(n + 1), k < m
        PROVE  ends'[k] =< Start(m)'
    <3>1. k \in 1..n /\ ends'[k] = ends[k] /\ Start(m)' = Start(m)
      BY <1>4, <1>5, <2>2
    <3>2. CASE m = n + 1
      <4>1. ends[k] =< Total
        BY <1>2, <3>1, Layout
      <4> QED BY <1>3, <1>7, <3>1, <3>2, <4>1
    <3>3. CASE m \in 1..n
      BY <1>2, <2>2, <3>1, <3>3 DEF EndsOK
    <3> QED BY <1>2, <3>2, <3>3
  <2> QED BY <1>4, <2>1, <2>2 DEF EndsOK
<1>11. ASSUME NEW p \in Nat, p =< Total
       PROVE  InHeader(p)' = InHeader(p)
  <2>1. DOMAIN ends = 1..n /\ DOMAIN ends' = 1..(n + 1)
    BY <1>1, <1>2, <1>4
  <2>2. ~(Start(n + 1)' < p)
    BY <1>3, <1>7, <1>11
  <2>3. (\E m \in 1..(n + 1) : Start(m)' < p /\ p < Start(m)' + HeaderLen)
          <=> (\E m \in 1..n : Start(m) < p /\ p < Start(m) + HeaderLen)
    BY <1>5, <2>2
  <2> QED BY <2>1, <2>3 DEF InHeader
<1> QED BY <1>2, <1>3, <1>4, <1>5, <1>6, <1>9, <1>10, <1>11

\* The size that is read is a size, whatever the bytes of the header are.
LEMMA SizesNat == ASSUME EndsOK PROVE Sizes(field) \subseteq Nat
<1>1. W \in Nat \ {0}
  BY StreamConstants
<1>2. ASSUME NEW m \in DOMAIN ends
      PROVE  SizeOf(m) \div W \in Nat /\ SizeOf(m) % W \in Nat
  <2>1. m \in 1..Len(ends)
    BY DEF EndsOK
  <2>2. SizeOf(m) \in Nat
    BY <2>1, Layout
  <2> QED BY <1>1, <2>2
<1>3. \A p : ByteAt(p) \subseteq Nat
  <2>1. \A p : HeaderByte(p) \subseteq Nat
    BY <1>2 DEF HeaderByte
  <2>2. 0..(W - 1) \subseteq Nat
    BY <1>1
  <2> QED BY <2>1, <2>2 DEF ByteAt
<1>4. ASSUME NEW high \in ByteAt(field[1]), NEW low \in ByteAt(field[2])
      PROVE  W * high + low \in Nat
  <2>1. high \in Nat /\ low \in Nat
    BY <1>3
  <2> QED BY <1>1, <2>1
<1> QED BY <1>4 DEF Sizes

----------------------------------------------------------------------------
(* The place in the buffer.                                                *)

LEMMA PlaceStarts == Init => PlaceInv
<1> SUFFICES ASSUME Init PROVE PlaceInv
  OBVIOUS
<1> USE DEF Init
<1>1. EndsOK
  BY DEF EndsOK
<1>2. Total = 0
  BY DEF Total, Start
<1>3. ReceiveTypeOK
  <2>1. field \in [1..2 -> Nat] /\ buffer \in [1..contentSize -> Nat]
    OBVIOUS
  <2>2. ends \in Seq(Nat) /\ handled \in 0..Len(ends)
    OBVIOUS
  <2>3. arrived \in taken..Total /\ recvIndex \in 0..contentSize
    BY <1>2
  <2> QED BY <2>1, <2>2, <2>3 DEF ReceiveTypeOK
<1> QED BY <1>1, <1>3 DEF PlaceInv, TurnOK

\* What each step may take for granted.
LEMMA Known ==
  ASSUME PlaceInv
  PROVE  /\ taken \in Nat /\ arrived \in Nat /\ taken =< arrived /\ arrived =< Total
         /\ Total \in Nat /\ Len(ends) \in Nat
         /\ received \in Nat /\ contentSize \in Nat /\ recvIndex \in Nat /\ handled \in Nat
         /\ handled =< Len(ends) /\ recvIndex =< contentSize
         /\ Start(handled + 1) \in Nat /\ Start(handled + 1) =< Total
         /\ handled < Len(ends) =>
              /\ SizeOf(handled + 1) \in Nat \ {0}
              /\ Start(handled + 1) + HeaderLen + SizeOf(handled + 1) =< Total
              /\ Start(handled + 1 + 1) = Start(handled + 1) + HeaderLen + SizeOf(handled + 1)
              /\ handled + 1 \in 1..Len(ends)
         /\ handled = Len(ends) => Start(handled + 1) = Total
<1>1. EndsOK /\ ReceiveTypeOK
  BY DEF PlaceInv
<1>2. Total \in Nat /\ Len(ends) \in Nat /\ handled \in Nat /\ handled =< Len(ends)
  BY <1>1, Layout DEF ReceiveTypeOK
<1>3. handled < Len(ends) =>
              /\ SizeOf(handled + 1) \in Nat \ {0}
              /\ Start(handled + 1) + HeaderLen + SizeOf(handled + 1) =< Total
              /\ Start(handled + 1 + 1) = Start(handled + 1) + HeaderLen + SizeOf(handled + 1)
              /\ handled + 1 \in 1..Len(ends)
  <2> SUFFICES ASSUME handled < Len(ends) PROVE handled + 1 \in 1..Len(ends)
    BY <1>1, Layout
  <2> QED BY <1>2
<1>4. Start(handled + 1) \in Nat /\ Start(handled + 1) =< Total
  BY <1>1, <1>2, Layout
<1> QED BY <1>1, <1>2, <1>3, <1>4 DEF ReceiveTypeOK, Total

LEMMA WriteKeepsPlace == ASSUME PlaceInv, Write PROVE PlaceInv'
<1>1. PICK s \in Size : ends' = Append(ends, Total + HeaderLen + s)
  BY DEF Write
<1>2. UNCHANGED <<arrived, open, taken, connected, pc, received, field, contentSize,
                  recvIndex, buffer, devicesEnabled, handled, garbled>>
  BY DEF Write, msgVars, doneVars
<1>3. EndsOK' /\ Len(ends)' = Len(ends) + 1 /\ Total' = Total + HeaderLen + s /\ s \in Nat
  BY <1>1, OneMore, SizesPositive DEF PlaceInv
<1>4. handled' \in 0..Len(ends)' /\ arrived' \in taken'..Total' /\ ends' \in Seq(Nat)
  <2>1. /\ taken \in Nat /\ arrived \in Nat /\ taken =< arrived /\ arrived =< Total /\ Total \in Nat
        /\ handled \in Nat /\ handled =< Len(ends) /\ Len(ends) \in Nat
    BY Known
  <2>2. handled' \in 0..Len(ends)'
    BY <1>2, <1>3, <2>1
  <2>3. arrived' \in taken'..Total'
    BY <1>2, <1>3, <2>1
  <2> QED BY <1>3, <2>2, <2>3 DEF EndsOK
<1>5. ReceiveTypeOK' /\ TurnOK'
  BY <1>2, <1>4 DEF PlaceInv, ReceiveTypeOK, TurnOK
<1> QED BY <1>3, <1>5 DEF PlaceInv

LEMMA NetworkKeepsPlace ==
  ASSUME PlaceInv, Arrive \/ Close \/ RedCard \/ UNCHANGED vars PROVE PlaceInv'
<1>1. /\ UNCHANGED <<ends, taken, connected, pc, received, field, contentSize,
                      recvIndex, buffer, handled, garbled>>
      /\ devicesEnabled' \in {FALSE, devicesEnabled} /\ open' \in {FALSE, open}
  BY DEF Arrive, Close, RedCard, vars, netVars, msgVars, doneVars
<1>2. EndsOK' /\ Len(ends)' = Len(ends) /\ Total' = Total
  BY <1>1, SameStream DEF PlaceInv
<1>3. arrived' \in taken'..Total'
  <2>1. arrived' \in arrived..Total
    BY Known DEF Arrive, Close, RedCard, vars, netVars
  <2> QED BY <1>1, <1>2, <2>1, Known
<1>4. ReceiveTypeOK' /\ TurnOK'
  BY <1>1, <1>2, <1>3 DEF PlaceInv, ReceiveTypeOK, TurnOK
<1> QED BY <1>2, <1>4 DEF PlaceInv

LEMMA AcceptKeepsPlace == ASSUME PlaceInv, Accept PROVE PlaceInv'
<1>1. /\ pc = "idle" /\ ends' = <<>> /\ arrived' = 0 /\ taken' = 0 /\ handled' = 0
      /\ open' = TRUE /\ connected' = TRUE
      /\ UNCHANGED <<pc, received, field, contentSize, recvIndex, buffer, devicesEnabled, garbled>>
  BY DEF Accept, msgVars
<1>2. EndsOK' /\ Total' = 0 /\ Len(ends)' = 0
  BY <1>1 DEF EndsOK, Total, Start
<1>3. ends' \in Seq(Nat) /\ handled' \in 0..Len(ends)' /\ arrived' \in taken'..Total'
  BY <1>1, <1>2
<1>4. ReceiveTypeOK' /\ TurnOK'
  BY <1>1, <1>3 DEF PlaceInv, ReceiveTypeOK, TurnOK
<1> QED BY <1>2, <1>4 DEF PlaceInv

\* What a receiveData begins with.
LEMMA Begins ==
  ASSUME NEW size \in Nat, NEW index \in Nat, index =< size, Begin(size, index)
  PROVE  /\ pc' = IF size = 0 THEN "header" ELSE "body"
         /\ received' = 0 /\ field' \in [1..HeaderLen -> Nat] /\ field'[1] = 0 /\ field'[2] = 0
<1>1. pc' = (IF size = 0 THEN "header" ELSE "body") /\ received' = 0 /\ field' = <<0, 0>>
  BY DEF Begin, Turn
<1> QED BY <1>1

LEMMA ReceiveMessagesKeepsPlace == ASSUME PlaceInv, ReceiveMessages PROVE PlaceInv'
<1>1. /\ UNCHANGED <<ends, arrived, open, taken, connected, contentSize, recvIndex, buffer,
                      devicesEnabled, handled, garbled>>
      /\ pc = "idle" /\ connected /\ Begin(contentSize, recvIndex)
  BY DEF ReceiveMessages, netVars, msgVars, doneVars
<1>2. EndsOK' /\ Len(ends)' = Len(ends) /\ Total' = Total
  BY <1>1, SameStream DEF PlaceInv
<1>3. /\ pc' = (IF contentSize = 0 THEN "header" ELSE "body")
      /\ received' = 0 /\ field' \in [1..HeaderLen -> Nat]
  BY <1>1, Known, Begins
<1>4. ReceiveTypeOK'
  BY <1>1, <1>2, <1>3 DEF PlaceInv, ReceiveTypeOK
<1>5. TurnOK'
  BY <1>1, <1>3, Known DEF TurnOK
<1> QED BY <1>2, <1>4, <1>5 DEF PlaceInv

\* A recv that returns k bytes.
LEMMA RecvTakes ==
  ASSUME PlaceInv, Recv
  PROVE  \E k \in Nat \ {0} :
           /\ k =< arrived - taken /\ k =< Wanted - received /\ Wanted \in Nat
           /\ k = arrived - taken \/ k = Wanted - received
           /\ received' = received + k /\ taken' = taken + k
           /\ IF pc = "header"
              THEN /\ field' = [i \in 1..HeaderLen |-> IF i <= k THEN taken + i ELSE field[i]]
                   /\ UNCHANGED buffer
              ELSE /\ buffer' = [i \in DOMAIN buffer |->
                                   IF i - recvIndex \in 1..k THEN taken + i - recvIndex ELSE buffer[i]]
                   /\ UNCHANGED field
<1> DEFINE n == Least(arrived - taken, Wanted - received)
<1>1. Wanted \in Nat
  BY Known DEF Wanted
<1>2. arrived - taken \in Nat \ {0} /\ Wanted - received \in Nat \ {0}
  <2>1. taken \in Nat /\ arrived \in Nat /\ received \in Nat
    BY Known
  <2> QED BY <1>1, <2>1 DEF Recv
<1>3. /\ n \in Nat \ {0} /\ n =< arrived - taken /\ n =< Wanted - received
      /\ n = arrived - taken \/ n = Wanted - received
  <2>1. \A a, b \in Nat \ {0} : LET m == Least(a, b)
                                IN  m \in Nat \ {0} /\ m =< a /\ m =< b /\ (m = a \/ m = b)
    BY DEF Least
  <2> QED BY <1>2, <2>1
<1>4. /\ received' = received + n /\ taken' = taken + n
      /\ IF pc = "header"
         THEN /\ field' = [i \in 1..HeaderLen |-> IF i <= n THEN taken + i ELSE field[i]]
              /\ UNCHANGED buffer
         ELSE /\ buffer' = [i \in DOMAIN buffer |->
                              IF i - recvIndex \in 1..n THEN taken + i - recvIndex ELSE buffer[i]]
              /\ UNCHANGED field
  BY DEF Recv
<1> HIDE DEF n
<1> QED BY <1>1, <1>3, <1>4

\* What is read next to the index stays in the message.
LEMMA Fits ==
  \A size, index, n \in Nat : n =< size - index \/ (n = 0 /\ index =< size) => index + n =< size
OBVIOUS

LEMMA RecvKeepsPlace == ASSUME PlaceInv, Recv PROVE PlaceInv'
<1>0. /\ taken \in Nat /\ arrived \in Nat /\ taken =< arrived /\ arrived =< Total /\ Total \in Nat
      /\ received \in Nat /\ contentSize \in Nat /\ recvIndex \in Nat /\ recvIndex =< contentSize
  BY Known
<1>1. /\ pc \in {"header", "body"} /\ connected
      /\ UNCHANGED <<ends, arrived, open, connected, pc, contentSize, recvIndex, devicesEnabled, handled, garbled>>
  BY DEF Recv, netVars, doneVars, PlaceInv, TurnOK
<1>2. EndsOK' /\ Len(ends)' = Len(ends) /\ Total' = Total
  BY <1>1, SameStream DEF PlaceInv
<1>3. PICK k \in Nat \ {0} :
        /\ k =< arrived - taken /\ k =< Wanted - received
        /\ received' = received + k /\ taken' = taken + k
        /\ IF pc = "header"
           THEN /\ field' = [i \in 1..HeaderLen |-> IF i <= k THEN taken + i ELSE field[i]]
                /\ UNCHANGED buffer
           ELSE /\ buffer' = [i \in DOMAIN buffer |->
                                IF i - recvIndex \in 1..k THEN taken + i - recvIndex ELSE buffer[i]]
                /\ UNCHANGED field
  BY RecvTakes
<1>4. field \in [1..HeaderLen -> Nat] /\ buffer \in [1..contentSize -> Nat]
  BY DEF PlaceInv, ReceiveTypeOK
<1>5. field' \in [1..HeaderLen -> Nat]
  <2>1. \A i \in 1..HeaderLen : (IF i <= k THEN taken + i ELSE field[i]) \in Nat
    BY <1>4, Known
  <2> QED BY <1>3, <1>4, <2>1
<1>6. buffer' \in [1..contentSize -> Nat]
  <2>1. \A i \in 1..contentSize :
          (IF i - recvIndex \in 1..k THEN taken + i - recvIndex ELSE buffer[i]) \in Nat
    BY <1>0, <1>4
  <2> QED BY <1>3, <1>4, <2>1
<1>7. taken' \in Nat /\ arrived' \in taken'..Total' /\ received' \in Nat
  BY <1>0, <1>1, <1>2, <1>3
<1>8. ReceiveTypeOK'
  BY <1>1, <1>2, <1>5, <1>6, <1>7 DEF PlaceInv, ReceiveTypeOK
<1>9. TurnOK'
  <2>1. received' =< Wanted /\ Wanted = IF pc = "header" THEN HeaderLen ELSE contentSize - recvIndex
    BY <1>0, <1>3 DEF Wanted
  <2>2. CASE pc = "header"
    BY <1>1, <2>1, <2>2 DEF PlaceInv, TurnOK
  <2>3. CASE pc = "body"
    <3>1. received' =< contentSize - recvIndex
      BY <2>1, <2>3
    <3>2. recvIndex + received' =< contentSize
      <4>1. received' \in Nat /\ contentSize \in Nat /\ recvIndex \in Nat
        BY <1>0, <1>7
      <4> QED BY <3>1, <4>1, Fits
    <3>3. contentSize # 0
      BY <2>3 DEF PlaceInv, TurnOK
    <3> QED BY <1>1, <2>3, <3>2, <3>3 DEF TurnOK
  <2> QED BY <1>1, <2>2, <2>3
<1> QED BY <1>2, <1>8, <1>9 DEF PlaceInv

\* How EndHeader and EndBody go on.
LEMMA Continues ==
  ASSUME PlaceInv, Continue, pc \in {"header", "body"},
         contentSize' \in Nat, recvIndex' \in Nat, ~Gone => recvIndex' =< contentSize'
  PROVE  /\ connected' \in BOOLEAN /\ (connected' <=> ~Gone)
         /\ received' \in Nat /\ field' \in [1..HeaderLen -> Nat]
         /\ received = 0 \/ Gone => pc' = "idle" /\ UNCHANGED <<received, field>>
         /\ received # 0 /\ ~Gone =>
              /\ pc' = IF contentSize' = 0 THEN "header" ELSE "body"
              /\ received' = 0 /\ field'[1] = 0 /\ field'[2] = 0
<1>1. CASE received = 0 \/ Gone
  BY <1>1 DEF Continue, PlaceInv, ReceiveTypeOK
<1>2. CASE received # 0 /\ ~Gone
  <2>1. connected' = ~Gone /\ Begin(contentSize', recvIndex') /\ recvIndex' =< contentSize'
    BY <1>2 DEF Continue
  <2>2. /\ pc' = (IF contentSize' = 0 THEN "header" ELSE "body")
        /\ received' = 0 /\ field' \in [1..HeaderLen -> Nat] /\ field'[1] = 0 /\ field'[2] = 0
    BY <2>1, Begins
  <2>3. connected' \in BOOLEAN /\ (connected' <=> ~Gone)
    BY <2>1
  <2> QED BY <1>2, <2>2, <2>3
<1> QED BY <1>1, <1>2

LEMMA EndHeaderKeepsPlace == ASSUME PlaceInv, EndHeader PROVE PlaceInv'
<1>1. /\ pc = "header" /\ contentSize = 0 /\ recvIndex = 0 /\ connected
      /\ contentSize' \in (IF Gone THEN {0} ELSE Sizes(field))
      /\ buffer' = [i \in 1..contentSize' |-> 0]
      /\ UNCHANGED <<ends, arrived, open, taken, recvIndex, devicesEnabled, handled, garbled>>
      /\ Continue
  BY Known DEF EndHeader, netVars, doneVars, PlaceInv, TurnOK
<1>2. EndsOK' /\ Len(ends)' = Len(ends) /\ Total' = Total
  BY <1>1, SameStream DEF PlaceInv
<1>3. contentSize' \in Nat /\ recvIndex' = 0 /\ (Gone => contentSize' = 0)
  BY <1>1, SizesNat DEF PlaceInv
<1>4. /\ connected' \in BOOLEAN /\ (connected' <=> ~Gone)
      /\ received' \in Nat /\ field' \in [1..HeaderLen -> Nat]
      /\ received = 0 \/ Gone => pc' = "idle"
      /\ received # 0 /\ ~Gone => pc' = (IF contentSize' = 0 THEN "header" ELSE "body") /\ received' = 0
  BY <1>1, <1>3, Continues
<1>5. buffer' \in [1..contentSize' -> Nat] /\ recvIndex' \in 0..contentSize' /\ pc' \in {"idle", "header", "body"}
  BY <1>1, <1>3, <1>4
<1>6. ReceiveTypeOK'
  <2>1. connected' \in BOOLEAN
    BY <1>4
  <2> QED BY <1>1, <1>2, <1>3, <1>4, <1>5, <2>1 DEF PlaceInv, ReceiveTypeOK
<1>7. TurnOK'
  <2>1. CASE received = 0 \/ Gone
    BY <1>3, <1>4, <2>1 DEF TurnOK
  <2>2. CASE received # 0 /\ ~Gone
    <3>1. connected' /\ received' = 0 /\ pc' = (IF contentSize' = 0 THEN "header" ELSE "body")
      BY <1>4, <2>2
    <3>2. recvIndex' + received' =< contentSize'
      BY <1>3, <3>1
    <3> QED BY <3>1, <3>2 DEF TurnOK
  <2> QED BY <2>1, <2>2
<1> QED BY <1>2, <1>6, <1>7 DEF PlaceInv

\* A body that is read to the end is acted on; a connection that ends leaves no size.
LEMMA EndBodyDoes ==
  ASSUME PlaceInv, EndBody
  PROVE  /\ pc = "body" /\ connected /\ contentSize > 0 /\ (received = Wanted \/ taken = arrived)
         /\ UNCHANGED <<ends, arrived, open, taken, devicesEnabled>> /\ Continue
         /\ Gone => contentSize' = 0 /\ UNCHANGED <<handled, garbled>>
         /\ IF ~Gone /\ recvIndex + received = contentSize /\ devicesEnabled
            THEN ProcessBuffer(contentSize)
            ELSE /\ UNCHANGED <<handled, garbled>>
                 /\ recvIndex' = recvIndex + received
                 /\ contentSize' = (IF Gone THEN 0 ELSE contentSize)
                 /\ buffer' = (IF contentSize' = 0 THEN <<>> ELSE buffer)
<1>1. /\ pc = "body" /\ connected /\ contentSize > 0 /\ (received = Wanted \/ taken = arrived)
      /\ UNCHANGED <<ends, arrived, open, taken, devicesEnabled>> /\ Continue
  BY Known DEF EndBody, Returns, netVars, PlaceInv, TurnOK
<1>2. CASE recvIndex + received = BodySize /\ devicesEnabled
  <2>1. ProcessBuffer(recvIndex + received)
    BY <1>2 DEF EndBody
  <2>2. CASE Gone
    <3>1. BodySize = 0 /\ recvIndex + received = 0
      BY <1>2, <2>2 DEF BodySize
    <3>2. ActOn([i \in 1..0 |-> buffer[i]]) /\ contentSize' = 0 /\ recvIndex' = 0 /\ buffer' = <<>>
      BY <2>1, <3>1 DEF ProcessBuffer
    <3>3. [i \in 1..0 |-> buffer[i]] = <<>>
      OBVIOUS
    <3>4. handled < Len(ends) => <<>> # Body(handled + 1)
      <4>1. SUFFICES ASSUME handled < Len(ends), <<>> = Body(handled + 1) PROVE FALSE
        OBVIOUS
      <4>2. SizeOf(handled + 1) \in Nat \ {0}
        BY <4>1, Known
      <4>3. DOMAIN Body(handled + 1) = 1..SizeOf(handled + 1)
        BY DEF Body
      <4>4. DOMAIN <<>> = {}
        OBVIOUS
      <4> QED BY <4>1, <4>2, <4>3, <4>4
    <3>5. UNCHANGED handled /\ garbled' = (garbled \/ FALSE)
      BY <3>2, <3>3, <3>4 DEF ActOn
    <3>6. UNCHANGED garbled
      BY <3>5 DEF PlaceInv, ReceiveTypeOK
    <3> QED BY <1>1, <2>2, <3>1, <3>2, <3>5, <3>6
  <2>3. CASE ~Gone
    BY <1>1, <1>2, <2>1, <2>3 DEF BodySize
  <2> QED BY <2>2, <2>3
<1>3. CASE ~(recvIndex + received = BodySize /\ devicesEnabled)
  <2>1. /\ recvIndex' = recvIndex + received /\ contentSize' = BodySize
        /\ buffer' = (IF Gone THEN <<>> ELSE buffer) /\ UNCHANGED <<handled, garbled>>
    BY <1>3 DEF EndBody, doneVars
  <2> QED BY <1>1, <1>3, <2>1 DEF BodySize
<1> QED BY <1>2, <1>3

LEMMA EndBodyKeepsPlace == ASSUME PlaceInv, EndBody, ~KeepsIndex PROVE PlaceInv'
<1>0. /\ received \in Nat /\ contentSize \in Nat /\ recvIndex \in Nat
      /\ handled \in Nat /\ handled =< Len(ends) /\ Len(ends) \in Nat
  BY Known
<1>1. /\ pc = "body" /\ connected /\ contentSize > 0 /\ UNCHANGED <<ends, arrived, open, taken, devicesEnabled>>
      /\ Continue /\ recvIndex + received =< contentSize
  BY EndBodyDoes DEF PlaceInv, TurnOK
<1>2. EndsOK' /\ Len(ends)' = Len(ends) /\ Total' = Total
  BY <1>1, SameStream DEF PlaceInv
<1>3. /\ contentSize' \in Nat /\ recvIndex' \in Nat /\ (~Gone => recvIndex' =< contentSize')
      /\ Gone => contentSize' = 0
      /\ buffer' \in [1..contentSize' -> Nat]
      /\ handled' \in 0..Len(ends) /\ garbled' \in BOOLEAN
  <2>1. CASE ~Gone /\ recvIndex + received = contentSize /\ devicesEnabled
    <3>1. /\ recvIndex' = 0 /\ contentSize' = 0 /\ buffer' = <<>>
          /\ ActOn([i \in 1..contentSize |-> buffer[i]])
      BY <2>1, EndBodyDoes DEF ProcessBuffer
    <3>2. handled' \in 0..Len(ends)
      BY <1>0, <3>1 DEF ActOn
    <3>3. garbled' \in BOOLEAN
      BY <3>1 DEF ActOn, PlaceInv, ReceiveTypeOK
    <3> QED BY <2>1, <3>1, <3>2, <3>3
  <2>2. CASE ~(~Gone /\ recvIndex + received = contentSize /\ devicesEnabled)
    <3>1. /\ UNCHANGED <<handled, garbled>> /\ recvIndex' = recvIndex + received
          /\ contentSize' = (IF Gone THEN 0 ELSE contentSize)
          /\ buffer' = (IF contentSize' = 0 THEN <<>> ELSE buffer)
      BY <2>2, EndBodyDoes
    <3>2. buffer' \in [1..contentSize' -> Nat]
      BY <1>1, <3>1 DEF PlaceInv, ReceiveTypeOK
    <3>3. handled' \in 0..Len(ends) /\ garbled' \in BOOLEAN
      BY <3>1 DEF PlaceInv, ReceiveTypeOK
    <3> QED BY <1>0, <1>1, <3>1, <3>2, <3>3
  <2> QED BY <2>1, <2>2
<1>4. /\ connected' \in BOOLEAN /\ (connected' <=> ~Gone)
      /\ received' \in Nat /\ field' \in [1..HeaderLen -> Nat]
      /\ received = 0 \/ Gone => pc' = "idle"
      /\ received # 0 /\ ~Gone => pc' = (IF contentSize' = 0 THEN "header" ELSE "body") /\ received' = 0
  BY <1>1, <1>3, Continues
<1>5. recvIndex' \in 0..contentSize'
  <2>1. CASE Gone
    <3>1. recvIndex' = 0
      BY <1>1, <1>4, <2>1 DEF KeepsIndex
    <3> QED BY <1>3, <3>1
  <2> QED BY <1>3, <2>1
<1>6. ReceiveTypeOK'
  <2>1. connected' \in BOOLEAN /\ pc' \in {"idle", "header", "body"}
    BY <1>4
  <2> QED BY <1>1, <1>2, <1>3, <1>4, <1>5, <2>1 DEF PlaceInv, ReceiveTypeOK
<1>7. TurnOK'
  <2>1. CASE received = 0 \/ Gone
    BY <1>3, <1>4, <2>1 DEF TurnOK
  <2>2. CASE received # 0 /\ ~Gone
    <3>1. connected' /\ received' = 0 /\ pc' = (IF contentSize' = 0 THEN "header" ELSE "body")
      BY <1>4, <2>2
    <3>2. recvIndex' \in Nat /\ contentSize' \in Nat /\ recvIndex' =< contentSize'
      BY <1>3, <2>2
    <3>3. recvIndex' + received' =< contentSize'
      BY <3>1, <3>2, Fits
    <3> QED BY <3>1, <3>3 DEF TurnOK
  <2> QED BY <2>1, <2>2
<1> QED BY <1>2, <1>6, <1>7 DEF PlaceInv

LEMMA SendFailsKeepsPlace == ASSUME PlaceInv, SendFails, ~KeepsIndex PROVE PlaceInv'
<1>1. /\ pc = "idle" /\ connected /\ connected' = FALSE /\ contentSize' = 0 /\ buffer' = <<>>
      /\ UNCHANGED <<ends, arrived, open, taken, pc, received, field, recvIndex, devicesEnabled, handled, garbled>>
  BY DEF SendFails, netVars, doneVars
<1>2. EndsOK' /\ Len(ends)' = Len(ends) /\ Total' = Total
  BY <1>1, SameStream DEF PlaceInv
<1>3. recvIndex' \in 0..contentSize' /\ contentSize' \in Nat /\ buffer' \in [1..contentSize' -> Nat]
  <2>1. recvIndex' = 0
    BY <1>1 DEF KeepsIndex
  <2> QED BY <1>1, <2>1
<1>4. ReceiveTypeOK'
  BY <1>1, <1>2, <1>3 DEF PlaceInv, ReceiveTypeOK
<1>5. TurnOK'
  BY <1>1 DEF TurnOK
<1> QED BY <1>2, <1>4, <1>5 DEF PlaceInv

\* A connection that ends with an index leaves it without a message.
LEMMA IndexKept == ASSUME PlaceInv, [Next]_vars, KeepsIndex PROVE ~ReceiveTypeOK'
<1>1. /\ connected /\ ~connected' /\ recvIndex' # 0
  BY DEF KeepsIndex
<1>2. EndHeader \/ EndBody \/ SendFails
  BY <1>1 DEF Next, Receive, Write, Arrive, Close, Accept, RedCard, ReceiveMessages, Recv, vars
<1>3. contentSize' = 0
  <2>1. CASE EndHeader
    <3>1. Gone
      BY <1>1, <2>1 DEF EndHeader, Continue
    <3> QED BY <2>1, <3>1 DEF EndHeader
  <2>2. CASE EndBody
    <3>1. Gone
      BY <1>1, <2>2 DEF EndBody, Continue
    <3> QED BY <2>2, <3>1, EndBodyDoes
  <2>3. CASE SendFails
    BY <2>3 DEF SendFails
  <2> QED BY <1>2, <2>1, <2>2, <2>3
<1> QED BY <1>1, <1>3 DEF ReceiveTypeOK

LEMMA PlaceStep ==
  ASSUME PlaceInv, [Next]_vars
  PROVE  (PlaceInv' <=> ~KeepsIndex) /\ (ReceiveTypeOK' <=> ~KeepsIndex)
<1>1. ~KeepsIndex => PlaceInv'
  BY WriteKeepsPlace, NetworkKeepsPlace, AcceptKeepsPlace, ReceiveMessagesKeepsPlace, RecvKeepsPlace,
     EndHeaderKeepsPlace, EndBodyKeepsPlace, SendFailsKeepsPlace DEF Next, Receive
<1>2. KeepsIndex => ~ReceiveTypeOK'
  BY IndexKept
<1> QED BY <1>1, <1>2 DEF PlaceInv

\* The place in recv_buffer never passes the end of the message (receiveMessages), in
\* whatever pieces bytes arrive, exactly as long as no connection ends with an index.
THEOREM ReceiveTypeCorrect == Spec => ([]ReceiveTypeOK <=> [][~KeepsIndex]_vars)
<1>1. Init => PlaceInv
  BY PlaceStarts
<1>2. PlaceInv /\ [Next]_vars => (PlaceInv' <=> [~KeepsIndex]_vars)
  <2>1. KeepsIndex => ~UNCHANGED vars
    <3>1. UNCHANGED vars => UNCHANGED connected
      BY DEF vars
    <3> QED BY <3>1, Zenon DEF KeepsIndex
  <2> QED BY <2>1, PlaceStep
<1>3. PlaceInv /\ [Next]_vars => (ReceiveTypeOK' <=> PlaceInv')
  BY PlaceStep
<1>4. PlaceInv => ReceiveTypeOK
  BY DEF PlaceInv
<1> QED BY <1>1, <1>2, <1>3, <1>4, PTL DEF Spec

----------------------------------------------------------------------------
(* The place in the stream.                                                *)

LEMMA StreamStarts == Init => StreamInv
BY PlaceStarts DEF Init, StreamInv, BodyInv, HeaderInv

\* The next request stays where it is.
LEMMA SameNext ==
  ASSUME UNCHANGED <<ends, handled>>
  PROVE  /\ Len(ends)' = Len(ends) /\ Start(handled + 1)' = Start(handled + 1)
         /\ SizeOf(handled + 1)' = SizeOf(handled + 1)
BY DEF Start, SizeOf

LEMMA WriteKeeps == ASSUME StreamInv, Write PROVE StreamInv'
<1>0. PlaceInv /\ PlaceInv'
  BY WriteKeepsPlace DEF StreamInv
<1>1. PICK s \in Size : ends' = Append(ends, Total + HeaderLen + s)
  BY DEF Write
<1>2. UNCHANGED <<taken, connected, pc, received, field, contentSize, recvIndex, buffer, handled, garbled>>
  BY DEF Write, msgVars, doneVars
<1>3. PICK n \in Nat : n = Len(ends)
  BY <1>0, Known
<1>4. /\ Len(ends)' = n + 1 /\ \A m \in 1..(n + 1) : Start(m)' = Start(m)
      /\ \A m \in 1..n : SizeOf(m)' = SizeOf(m)
  BY <1>0, <1>1, <1>3, OneMore DEF PlaceInv
<1>5. PICK h \in 0..n : h = handled
  BY <1>0, <1>3, Known
<1>6. Start(h + 1)' = Start(h + 1) /\ (h < n => SizeOf(h + 1)' = SizeOf(h + 1))
  BY <1>4, <1>5
<1>7. BodyInv'
  BY <1>2, <1>3, <1>4, <1>5, <1>6 DEF StreamInv, BodyInv, Stored
<1>8. HeaderInv'
  BY <1>2, <1>3, <1>5, <1>6 DEF StreamInv, HeaderInv
<1> QED BY <1>0, <1>2, <1>7, <1>8 DEF StreamInv

LEMMA NetworkKeeps ==
  ASSUME StreamInv, Arrive \/ Close \/ RedCard \/ UNCHANGED vars PROVE StreamInv'
<1>1. UNCHANGED <<ends, taken, connected, pc, received, field, contentSize, recvIndex, buffer, handled, garbled>>
  BY DEF Arrive, Close, RedCard, vars, netVars, msgVars, doneVars
<1>2. BodyInv' /\ HeaderInv'
  BY <1>1, SameNext DEF StreamInv, BodyInv, HeaderInv, Stored
<1> QED BY <1>1, <1>2, NetworkKeepsPlace DEF StreamInv

LEMMA AcceptKeeps == ASSUME StreamInv, Accept PROVE StreamInv'
<1>1. contentSize = 0
  BY DEF StreamInv, PlaceInv, TurnOK, Accept
<1>2. /\ pc = "idle" /\ ends' = <<>> /\ taken' = 0 /\ handled' = 0
      /\ UNCHANGED <<pc, contentSize, garbled>>
  BY DEF Accept, msgVars
<1>3. Start(handled + 1)' = 0
  BY <1>2 DEF Start
<1>4. BodyInv' /\ HeaderInv'
  BY <1>1, <1>2, <1>3 DEF BodyInv, HeaderInv
<1> QED BY <1>2, <1>4, AcceptKeepsPlace DEF StreamInv

LEMMA ReceiveMessagesKeeps == ASSUME StreamInv, ReceiveMessages PROVE StreamInv'
<1>0. PlaceInv /\ contentSize \in Nat /\ recvIndex \in Nat /\ Start(handled + 1) \in Nat
  BY Known DEF StreamInv
<1>1. /\ UNCHANGED <<ends, taken, connected, contentSize, recvIndex, buffer, handled, garbled>>
      /\ pc = "idle" /\ connected /\ Begin(contentSize, recvIndex)
  BY DEF ReceiveMessages, netVars, msgVars, doneVars
<1>2. /\ pc' = (IF contentSize = 0 THEN "header" ELSE "body")
      /\ received' = 0 /\ field'[1] = 0 /\ field'[2] = 0
  BY <1>0, <1>1, Known, Begins
<1>3. Stored' = recvIndex /\ Stored = recvIndex
  BY <1>0, <1>1, <1>2 DEF Stored
<1>4. BodyInv'
  BY <1>1, <1>3, SameNext DEF StreamInv, BodyInv
<1>5. HeaderInv'
  <2>1. SUFFICES ASSUME contentSize = 0 PROVE HeaderInv'
    BY <1>1 DEF HeaderInv
  <2>2. taken = Start(handled + 1) /\ pc' = "header"
    BY <1>1, <1>2, <2>1 DEF StreamInv, HeaderInv
  <2>3. taken' = Start(handled + 1)' + received'
    BY <1>0, <1>1, <1>2, <2>2, SameNext
  <2>4. \A i \in 1..HeaderLen : field'[i] = 0 /\ ~(i =< received')
    BY <1>2
  <2> QED BY <2>2, <2>3, <2>4 DEF HeaderInv
<1> QED BY <1>1, <1>4, <1>5, ReceiveMessagesKeepsPlace DEF StreamInv

LEMMA RecvKeeps == ASSUME StreamInv, Recv, ~Overwrites PROVE StreamInv'
<1>0. /\ PlaceInv /\ PlaceInv' /\ taken \in Nat /\ arrived \in Nat
      /\ contentSize \in Nat /\ recvIndex \in Nat /\ recvIndex =< contentSize
      /\ Start(handled + 1) \in Nat
  BY Known, RecvKeepsPlace DEF StreamInv
<1>1. /\ received = 0 /\ pc \in {"header", "body"}
      /\ UNCHANGED <<ends, connected, pc, contentSize, recvIndex, handled, garbled>>
  BY <1>0, Known DEF Overwrites, Recv, netVars, doneVars
<1>2. PICK k \in Nat \ {0} :
        /\ k =< Wanted - received /\ received' = received + k /\ taken' = taken + k
        /\ IF pc = "header"
           THEN /\ field' = [i \in 1..HeaderLen |-> IF i <= k THEN taken + i ELSE field[i]]
                /\ UNCHANGED buffer
           ELSE /\ buffer' = [i \in DOMAIN buffer |->
                                IF i - recvIndex \in 1..k THEN taken + i - recvIndex ELSE buffer[i]]
                /\ UNCHANGED field
  BY <1>0, RecvTakes
<1>3. received' = k
  BY <1>1, <1>2
<1>4. CASE pc = "header"
  <2>1. /\ contentSize = 0 /\ taken = Start(handled + 1)
        /\ \A i \in 1..HeaderLen : field[i] = 0
    BY <1>0, <1>1, <1>4 DEF StreamInv, PlaceInv, TurnOK, HeaderInv
  <2>2. \A i \in 1..HeaderLen : field'[i] = IF i =< k THEN Start(handled + 1) + i ELSE 0
    BY <1>2, <1>4, <2>1
  <2>3. taken' = Start(handled + 1) + k
    BY <1>2, <2>1
  <2>4. BodyInv' /\ HeaderInv'
    BY <1>1, <1>3, <1>4, <2>1, <2>2, <2>3, SameNext DEF BodyInv, HeaderInv
  <2> QED BY <1>0, <1>1, <2>4 DEF StreamInv
<1>5. CASE pc = "body"
  <2>1. contentSize > 0 /\ Stored = recvIndex
    BY <1>0, <1>1, <1>5 DEF PlaceInv, TurnOK, Stored
  <2>2. /\ handled < Len(ends) /\ contentSize = SizeOf(handled + 1)
        /\ \A i \in 1..recvIndex : buffer[i] = Start(handled + 1) + HeaderLen + i
        /\ taken = Start(handled + 1) + HeaderLen + recvIndex
    BY <2>1 DEF StreamInv, BodyInv
  <2>3. recvIndex + k =< contentSize
    BY <1>0, <1>1, <1>2, <1>5 DEF Wanted
  <2>4. DOMAIN buffer = 1..contentSize
    BY <1>0 DEF PlaceInv, ReceiveTypeOK
  <2>5. ASSUME NEW i \in 1..(recvIndex + k)
        PROVE  buffer'[i] = Start(handled + 1) + HeaderLen + i
    <3>1. buffer'[i] = IF i - recvIndex \in 1..k THEN taken + i - recvIndex ELSE buffer[i]
      BY <1>0, <1>2, <1>5, <2>3, <2>4
    <3>2. CASE i =< recvIndex
      <4>1. ~(i - recvIndex \in 1..k) /\ i \in 1..recvIndex
        BY <1>0, <3>2
      <4> QED BY <2>2, <3>1, <4>1
    <3>3. CASE i > recvIndex
      <4>1. i - recvIndex \in 1..k
        BY <1>0, <3>3
      <4> QED BY <1>0, <2>2, <3>1, <4>1
    <3> QED BY <1>0, <3>2, <3>3
  <2>6. Stored' = recvIndex + k
    BY <1>0, <1>1, <1>3, <1>5 DEF Stored
  <2>7. taken' = Start(handled + 1) + HeaderLen + (recvIndex + k)
    BY <1>0, <1>2, <2>2
  <2>8. BodyInv'
    BY <1>1, <2>2, <2>5, <2>6, <2>7, SameNext DEF BodyInv
  <2>9. HeaderInv'
    BY <1>1, <2>1 DEF HeaderInv
  <2> QED BY <1>0, <1>1, <2>8, <2>9 DEF StreamInv
<1> QED BY <1>1, <1>4, <1>5

LEMMA EndHeaderKeeps == ASSUME StreamInv, EndHeader, ~PartHeader PROVE StreamInv'
<1>0. PlaceInv /\ PlaceInv' /\ taken \in Nat /\ received \in Nat /\ Start(handled + 1) \in Nat
  BY Known, EndHeaderKeepsPlace DEF StreamInv
<1>1. /\ pc = "header" /\ contentSize = 0 /\ recvIndex = 0 /\ connected /\ Wanted = HeaderLen
      /\ contentSize' \in (IF Gone THEN {0} ELSE Sizes(field))
      /\ UNCHANGED <<ends, taken, recvIndex, handled, garbled>>
      /\ Continue
  BY <1>0, Known DEF EndHeader, netVars, doneVars, PlaceInv, TurnOK, Wanted
<1>2. /\ received =< HeaderLen /\ taken = Start(handled + 1) + received
      /\ \A i \in 1..HeaderLen : field[i] = IF i =< received THEN Start(handled + 1) + i ELSE 0
  BY <1>0, <1>1 DEF StreamInv, PlaceInv, TurnOK, HeaderInv
<1>3. contentSize' \in Nat /\ recvIndex' \in Nat /\ (~Gone => recvIndex' =< contentSize')
  BY <1>0, <1>1, Known, SizesNat DEF PlaceInv
<1>4. /\ connected' <=> ~Gone
      /\ received = 0 \/ Gone => pc' = "idle"
      /\ received # 0 /\ ~Gone =>
           /\ pc' = (IF contentSize' = 0 THEN "header" ELSE "body")
           /\ received' = 0
  BY <1>0, <1>1, <1>3, Continues
<1>5. CASE Gone
  <2>1. contentSize' = 0 /\ ~connected' /\ pc' = "idle"
    BY <1>1, <1>4, <1>5
  <2>2. BodyInv' /\ HeaderInv'
    BY <2>1 DEF BodyInv, HeaderInv
  <2> QED BY <1>0, <1>1, <2>2 DEF StreamInv
<1>6. CASE ~Gone /\ received = 0
  <2>1. field[1] = 0 /\ field[2] = 0 /\ taken = Start(handled + 1)
    BY <1>0, <1>2, <1>6
  <2>2. W * 0 + 0 = 0
    BY StreamConstants
  <2>3. Sizes(field) = {0}
    BY <2>1, <2>2 DEF Sizes, ByteAt
  <2>4. contentSize' = 0 /\ pc' = "idle" /\ taken' = Start(handled + 1)'
    BY <1>1, <1>4, <1>6, <2>1, <2>3, SameNext
  <2>5. BodyInv' /\ HeaderInv'
    BY <2>4 DEF BodyInv, HeaderInv
  <2> QED BY <1>0, <1>1, <2>5 DEF StreamInv
<1>7. CASE ~Gone /\ received # 0
  <2>1. received = HeaderLen
    BY <1>0, <1>2, <1>7 DEF PartHeader
  <2>2. /\ field[1] = Start(handled + 1) + 1 /\ field[2] = Start(handled + 1) + 2
        /\ taken = Start(handled + 1) + HeaderLen
    BY <1>2, <2>1
  <2>3. handled < Len(ends)
    <3>1. Start(handled + 1) + HeaderLen =< Total
      BY <1>0, <2>2, Known
    <3> QED BY <1>0, <3>1, Known
  <2>4. handled + 1 \in 1..Len(ends) /\ SizeOf(handled + 1) \in Nat \ {0}
    BY <1>0, <2>3, Known
  <2>5. contentSize' = SizeOf(handled + 1)
    BY <1>0, <1>1, <1>7, <2>2, <2>4, HeaderSays DEF PlaceInv
  <2>6. pc' = "body" /\ received' = 0 /\ recvIndex' = 0
    BY <1>1, <1>4, <1>7, <2>4, <2>5
  <2>7. Stored' = 0
    BY <2>6 DEF Stored
  <2>8. BodyInv'
    BY <1>1, <2>2, <2>3, <2>5, <2>7, <1>0, SameNext DEF BodyInv
  <2>9. HeaderInv'
    BY <2>4, <2>5 DEF HeaderInv
  <2> QED BY <1>0, <1>1, <2>8, <2>9 DEF StreamInv
<1> QED BY <1>5, <1>6, <1>7

\* A body that is read to the end is the next request.
LEMMA EndBodyActs ==
  ASSUME StreamInv, EndBody
  PROVE  /\ UNCHANGED garbled /\ handled < Len(ends)
         /\ IF ~Gone /\ recvIndex + received = contentSize /\ devicesEnabled
            THEN /\ recvIndex' = 0 /\ contentSize' = 0 /\ handled' = handled + 1
                 /\ taken = Start(handled + 1 + 1)
            ELSE /\ recvIndex' = recvIndex + received /\ UNCHANGED handled
                 /\ contentSize' = (IF Gone THEN 0 ELSE contentSize)
                 /\ buffer' = (IF contentSize' = 0 THEN <<>> ELSE buffer)
<1>0. PlaceInv /\ received \in Nat /\ contentSize \in Nat /\ recvIndex \in Nat
  BY Known DEF StreamInv
<1>1. pc = "body" /\ contentSize > 0
  BY <1>0, EndBodyDoes
<1>2. /\ Stored = recvIndex + received
      /\ handled < Len(ends) /\ contentSize = SizeOf(handled + 1)
      /\ \A i \in 1..Stored : buffer[i] = Start(handled + 1) + HeaderLen + i
      /\ taken = Start(handled + 1) + HeaderLen + Stored
  BY <1>1 DEF StreamInv, BodyInv, Stored
<1>3. CASE ~Gone /\ recvIndex + received = contentSize /\ devicesEnabled
  <2>1. ProcessBuffer(contentSize)
    BY <1>0, <1>3, EndBodyDoes
  <2>2. [i \in 1..contentSize |-> buffer[i]] = Body(handled + 1)
    BY <1>2, <1>3 DEF Body
  <2>3. taken = Start(handled + 1 + 1)
    BY <1>0, <1>2, <1>3, Known
  <2> QED BY <1>2, <1>3, <2>1, <2>2, <2>3 DEF ProcessBuffer, ActOn
<1>4. CASE ~(~Gone /\ recvIndex + received = contentSize /\ devicesEnabled)
  BY <1>0, <1>2, <1>4, EndBodyDoes
<1> QED BY <1>3, <1>4

LEMMA EndBodyKeeps == ASSUME StreamInv, EndBody, ~KeepsIndex PROVE StreamInv'
<1>0. /\ PlaceInv /\ PlaceInv' /\ taken \in Nat /\ received \in Nat /\ contentSize \in Nat /\ recvIndex \in Nat
      /\ Start(handled + 1) \in Nat /\ handled \in Nat
  BY Known, EndBodyKeepsPlace DEF StreamInv
<1>1. /\ pc = "body" /\ contentSize > 0 /\ UNCHANGED <<ends, taken>> /\ Continue
      /\ handled < Len(ends) /\ UNCHANGED garbled
  BY <1>0, EndBodyDoes, EndBodyActs
<1>2. /\ Stored = recvIndex + received /\ contentSize = SizeOf(handled + 1)
      /\ \A i \in 1..Stored : buffer[i] = Start(handled + 1) + HeaderLen + i
      /\ taken = Start(handled + 1) + HeaderLen + Stored
  BY <1>1 DEF StreamInv, BodyInv, Stored
<1>3. contentSize' \in Nat /\ recvIndex' \in Nat /\ recvIndex' =< contentSize'
  BY <1>0, Known DEF PlaceInv, ReceiveTypeOK
<1>4. /\ connected' <=> ~Gone
      /\ received = 0 \/ Gone => pc' = "idle" /\ UNCHANGED received
      /\ received # 0 /\ ~Gone =>
           /\ pc' = (IF contentSize' = 0 THEN "header" ELSE "body")
           /\ received' = 0 /\ field'[1] = 0 /\ field'[2] = 0
  BY <1>0, <1>1, <1>3, Continues
<1>5. CASE Gone
  <2>1. contentSize' = 0 /\ ~connected' /\ pc' = "idle"
    BY <1>0, <1>4, <1>5, EndBodyDoes
  <2>2. BodyInv' /\ HeaderInv'
    BY <2>1 DEF BodyInv, HeaderInv
  <2> QED BY <1>0, <1>1, <2>2 DEF StreamInv
<1>6. CASE ~Gone /\ recvIndex + received = contentSize /\ devicesEnabled
  <2>1. recvIndex' = 0 /\ contentSize' = 0 /\ handled' = handled + 1 /\ taken = Start(handled + 1 + 1)
    BY <1>6, EndBodyActs
  <2>2. Start(handled + 1)' = Start(handled + 1 + 1)
    BY <1>1, <2>1 DEF Start
  <2>3. taken' = Start(handled + 1)'
    BY <1>1, <2>1, <2>2
  <2>4. BodyInv'
    BY <2>1 DEF BodyInv
  <2>5. HeaderInv'
    <3>1. CASE received = 0
      BY <1>4, <2>3, <3>1 DEF HeaderInv
    <3>2. CASE received # 0
      <4>1. pc' = "header" /\ received' = 0 /\ field'[1] = 0 /\ field'[2] = 0
        BY <1>4, <1>6, <2>1, <3>2
      <4>2. taken' = Start(handled + 1)' + received'
        BY <1>0, <1>1, <2>3, <4>1
      <4>3. \A i \in 1..HeaderLen : field'[i] = 0 /\ ~(i =< received')
        BY <4>1
      <4> QED BY <4>1, <4>2, <4>3 DEF HeaderInv
    <3> QED BY <3>1, <3>2
  <2> QED BY <1>0, <1>1, <2>4, <2>5 DEF StreamInv
<1>7. CASE ~Gone /\ ~(recvIndex + received = contentSize /\ devicesEnabled)
  <2>1. /\ recvIndex' = recvIndex + received /\ contentSize' = contentSize
        /\ UNCHANGED <<buffer, handled>>
    BY <1>1, <1>7, EndBodyActs
  <2>2. Stored' = Stored
    <3>1. CASE received = 0
      BY <1>0, <1>2, <1>4, <2>1, <3>1 DEF Stored
    <3>2. CASE received # 0
      BY <1>0, <1>1, <1>2, <1>4, <1>7, <2>1, <3>2 DEF Stored
    <3> QED BY <3>1, <3>2
  <2>3. BodyInv'
    BY <1>1, <1>2, <2>1, <2>2, SameNext DEF BodyInv
  <2>4. HeaderInv'
    BY <1>1, <2>1 DEF HeaderInv
  <2> QED BY <1>0, <1>1, <2>3, <2>4 DEF StreamInv
<1> QED BY <1>5, <1>6, <1>7

LEMMA SendFailsKeeps == ASSUME StreamInv, SendFails, ~KeepsIndex PROVE StreamInv'
<1>1. PlaceInv' /\ contentSize' = 0 /\ pc' = "idle" /\ ~connected' /\ UNCHANGED garbled
  BY SendFailsKeepsPlace DEF StreamInv, SendFails, doneVars
<1>2. BodyInv' /\ HeaderInv'
  BY <1>1 DEF BodyInv, HeaderInv
<1> QED BY <1>1, <1>2 DEF StreamInv

\* What recv writes over another byte is not what belongs there.
LEMMA OverwritesLoses == ASSUME StreamInv, Overwrites PROVE ~StreamInv'
<1>0. /\ PlaceInv /\ taken \in Nat /\ received \in Nat /\ contentSize \in Nat /\ recvIndex \in Nat
      /\ Start(handled + 1) \in Nat /\ arrived \in Nat
  BY Known DEF StreamInv
<1>1. /\ Recv /\ received > 0 /\ pc \in {"header", "body"}
      /\ UNCHANGED <<ends, pc, contentSize, recvIndex, handled>>
  BY DEF Overwrites, Recv, netVars, doneVars
<1>2. PICK k \in Nat \ {0} :
        /\ k =< Wanted - received /\ received' = received + k
        /\ IF pc = "header"
           THEN field' = [i \in 1..HeaderLen |-> IF i <= k THEN taken + i ELSE field[i]]
           ELSE buffer' = [i \in DOMAIN buffer |->
                             IF i - recvIndex \in 1..k THEN taken + i - recvIndex ELSE buffer[i]]
  BY <1>0, <1>1, RecvTakes
<1>3. CASE pc = "header"
  <2>1. contentSize = 0 /\ taken = Start(handled + 1) + received
    BY <1>0, <1>3 DEF StreamInv, PlaceInv, TurnOK, HeaderInv
  <2>2. field'[1] = taken + 1
    BY <1>2, <1>3
  <2>3. field'[1] # Start(handled + 1) + 1 /\ 1 =< received + k
    BY <1>0, <1>1, <1>2, <2>1, <2>2
  <2>4. ~HeaderInv'
    <3>1. HeaderInv' => field'[1] = IF 1 =< received' THEN Start(handled + 1)' + 1 ELSE 0
      BY <1>1, <1>3, <2>1 DEF HeaderInv
    <3>2. Start(handled + 1)' = Start(handled + 1)
      BY <1>1, SameNext
    <3> QED BY <1>2, <2>3, <3>1, <3>2
  <2> QED BY <2>4 DEF StreamInv
<1>4. CASE pc = "body"
  <2>1. contentSize > 0 /\ Stored = recvIndex + received
    BY <1>0, <1>4 DEF PlaceInv, TurnOK, Stored
  <2>2. taken = Start(handled + 1) + HeaderLen + (recvIndex + received)
    BY <2>1 DEF StreamInv, BodyInv
  <2>3. recvIndex + 1 \in DOMAIN buffer
    <3>1. Wanted = contentSize - recvIndex
      BY <1>4 DEF Wanted
    <3>2. recvIndex + 1 \in 1..contentSize
      BY <1>0, <1>1, <1>2, <3>1
    <3> QED BY <1>0, <3>2 DEF PlaceInv, ReceiveTypeOK
  <2>4. buffer'[recvIndex + 1] = taken + 1
    <3>1. (recvIndex + 1) - recvIndex = 1 /\ 1 \in 1..k /\ taken + (recvIndex + 1) - recvIndex = taken + 1
      BY <1>0
    <3> QED BY <1>2, <1>4, <2>3, <3>1
  <2>5. buffer'[recvIndex + 1] # Start(handled + 1) + HeaderLen + (recvIndex + 1)
    BY <1>0, <1>1, <2>2, <2>4
  <2>6. Stored' = recvIndex + (received + k)
    BY <1>1, <1>2, <1>4 DEF Stored
  <2>7. recvIndex + 1 \in 1..(recvIndex + (received + k))
    BY <1>0
  <2>8. ~BodyInv'
    <3>1. Start(handled + 1)' = Start(handled + 1)
      BY <1>1, SameNext
    <3>2. BodyInv' => buffer'[recvIndex + 1] = Start(handled + 1)' + HeaderLen + (recvIndex + 1)
      BY <1>1, <2>1, <2>6, <2>7 DEF BodyInv
    <3> QED BY <2>5, <3>1, <3>2
  <2> QED BY <2>8 DEF StreamInv
<1> QED BY <1>1, <1>3, <1>4

\* After a part of a header the rest of it is taken for a body, or for a header.
LEMMA PartHeaderLoses == ASSUME StreamInv, PartHeader PROVE ~StreamInv'
<1>0. PlaceInv /\ Start(handled + 1) \in Nat
  BY Known DEF StreamInv
<1>1. /\ received = 1 /\ ~Gone /\ pc = "header" /\ contentSize = 0 /\ recvIndex = 0
      /\ contentSize' \in Sizes(field) /\ UNCHANGED <<ends, taken, recvIndex, handled>> /\ Continue
  BY <1>0, Known DEF PartHeader, EndHeader, netVars, doneVars, PlaceInv, TurnOK
<1>2. taken' = Start(handled + 1) + 1
  BY <1>1 DEF StreamInv, HeaderInv
<1>3. contentSize' \in Nat /\ recvIndex' = 0
  BY <1>0, <1>1, SizesNat DEF PlaceInv
<1>4. /\ connected' /\ received' = 0
      /\ pc' = (IF contentSize' = 0 THEN "header" ELSE "body")
  BY <1>0, <1>1, <1>3, Continues
<1>5. Start(handled + 1)' = Start(handled + 1)
  BY <1>1, SameNext
<1>6. CASE contentSize' = 0
  <2>1. HeaderInv' => taken' = Start(handled + 1)' + 0
    BY <1>4, <1>6 DEF HeaderInv
  <2> QED BY <1>0, <1>2, <1>5, <2>1 DEF StreamInv
<1>7. CASE contentSize' # 0
  <2>1. Stored' = 0
    BY <1>3, <1>4 DEF Stored
  <2>2. BodyInv' => taken' = Start(handled + 1)' + HeaderLen + 0
    BY <1>3, <1>7, <2>1 DEF BodyInv
  <2> QED BY <1>0, <1>2, <1>5, <2>2 DEF StreamInv
<1> QED BY <1>6, <1>7

LEMMA StreamStep == ASSUME StreamInv, [Next]_vars PROVE StreamInv' <=> ~LosesPlace
<1>1. ~LosesPlace => StreamInv'
  BY WriteKeeps, NetworkKeeps, AcceptKeeps, ReceiveMessagesKeeps, RecvKeeps, EndHeaderKeeps,
     EndBodyKeeps, SendFailsKeeps DEF LosesPlace, Next, Receive
<1>2. KeepsIndex => ~StreamInv'
  BY PlaceStep DEF StreamInv
<1>3. PartHeader \/ Overwrites => ~StreamInv'
  BY PartHeaderLoses, OverwritesLoses
<1> QED BY <1>1, <1>2, <1>3 DEF LosesPlace

\* The server is at its place in the stream (receiveMessages and receiveData) exactly as
\* long as it takes no step of the three kinds, whatever the network and its clients do:
\* each of them loses the place, and nothing else does.
THEOREM StreamInvariant == Spec => ([]StreamInv <=> [][~LosesPlace]_vars)
<1>1. Init => StreamInv
  BY StreamStarts
<1>2. StreamInv /\ [Next]_vars => (StreamInv' <=> [~LosesPlace]_vars)
  <2>1. SUFFICES ASSUME StreamInv, UNCHANGED vars PROVE StreamInv'
    BY StreamStep
  <2> QED BY <2>1, NetworkKeeps
<1> QED BY <1>1, <1>2, PTL DEF Spec

\* As long as it takes no such step, the server that waits for a header has a header next.
THEOREM InStepUntilLost == Spec /\ [][~LosesPlace]_vars => []InStep
<1>1. StreamInv => InStep
  BY DEF StreamInv, PlaceInv, ReceiveTypeOK, HeaderInv, InStep
<1> QED BY <1>1, StreamInvariant, PTL

LEMMA ActsStep == ASSUME StreamInv, [Next]_vars PROVE ActsOnRequests /\ ActsOnRequests'
<1>1. UNCHANGED garbled
  BY EndBodyActs DEF Next, Receive, Write, Arrive, Close, Accept, RedCard, ReceiveMessages, Recv, EndHeader,
                     SendFails, vars, doneVars
<1>2. pc' # "undefined"
  <2>1. CASE KeepsIndex
    <3>1. connected /\ ~connected'
      BY <2>1 DEF KeepsIndex
    <3>2. EndHeader \/ EndBody \/ SendFails
      BY <3>1 DEF Next, Receive, Write, Arrive, Close, Accept, RedCard, ReceiveMessages, Recv, vars
    <3>3. CASE EndHeader \/ EndBody
      <4>1. Gone /\ Continue
        BY <3>1, <3>3 DEF EndHeader, EndBody, Continue
      <4> QED BY <4>1 DEF Continue
    <3>4. CASE SendFails
      BY <3>4 DEF SendFails
    <3> QED BY <3>2, <3>3, <3>4
  <2>2. CASE ~KeepsIndex
    BY <2>2, PlaceStep DEF StreamInv, PlaceInv, ReceiveTypeOK
  <2> QED BY <2>1, <2>2
<1> QED BY <1>1, <1>2 DEF StreamInv, PlaceInv, ReceiveTypeOK, ActsOnRequests

\* A step taken at the right place, even one that loses it, never has processBuffer act on
\* anything but the next request of this client, whole.
THEOREM ActsRightly == Spec => [][StreamInv => ActsOnRequests']_vars
<1>1. [Next]_vars => (StreamInv => ActsOnRequests')
  BY ActsStep
<1> QED BY <1>1, PTL DEF Spec

----------------------------------------------------------------------------
(* The refinement.                                                         *)

LEMMA StepMaps ==
  ASSUME StreamInv, [Next]_vars PROVE [Stream!Next]_Stream!vars
<1>1. ActsOnRequests /\ ActsOnRequests'
  BY ActsStep
<1> USE DEF Stream!vars, Stream!Next, Stream!Connect, Stream!Write, Stream!Act
<1>2. CASE Write
  <2>1. Len(ends') = Len(ends) + 1
    BY <1>2, OneMore, SizesPositive DEF Write, StreamInv, PlaceInv
  <2> QED BY <1>1, <1>2, <2>1 DEF Write, doneVars
<1>3. CASE Accept
  BY <1>1, <1>3 DEF Accept
<1>4. CASE EndBody
  <2>1. UNCHANGED ends /\ handled' \in {handled, handled + 1} /\ handled < Len(ends)
    BY <1>4, EndBodyActs DEF EndBody, netVars
  <2> QED BY <1>1, <2>1
<1>5. CASE ~(Write \/ Accept \/ EndBody)
  <2>1. UNCHANGED <<ends, handled>>
    BY <1>5 DEF Next, Receive, Arrive, Close, RedCard, ReceiveMessages, Recv, EndHeader, SendFails,
                vars, netVars, doneVars
  <2> QED BY <1>1, <2>1
<1> QED BY <1>2, <1>3, <1>4, <1>5

\* The requests of a connection are acted on in order, each once and whole, up to and
\* with the first step that loses the place, and for ever if there is none.
THEOREM ReceivesInOrder ==
  Spec => /\ [][StreamInv => [Stream!Next]_Stream!vars]_vars
          /\ [][~LosesPlace]_vars => ActsInOrder
<1>1. Init => Stream!Init
  BY StreamStarts DEF Init, Stream!Init, ActsOnRequests
<1>2. StreamInv /\ [Next]_vars => [Stream!Next]_Stream!vars
  BY StepMaps
<1>3. Spec => [][StreamInv => [Stream!Next]_Stream!vars]_vars
  BY <1>2, PTL DEF Spec
<1>4. Spec /\ [][~LosesPlace]_vars => ActsInOrder
  BY <1>1, <1>2, StreamInvariant, PTL DEF Spec, ActsInOrder, Stream!Spec
<1> QED BY <1>3, <1>4, PTL

----------------------------------------------------------------------------
(* A network and clients that never make the server lose its place.        *)

\* What the constants of an instance may promise.
Quiet == ~SplitHeader /\ ~ArriveDuring /\ ~CutShort

\* Headers have arrived whole, and one recv has taken all there is.
QuietInv ==
  /\ ~InHeader(arrived)
  /\ ~open => arrived = Total
  /\ (pc \in {"header", "body"} /\ received > 0) => (received = Wanted \/ taken = arrived)

LEMMA QuietStep ==
  ASSUME Quiet, StreamInv, QuietInv, [Next]_vars, ~LosesPlace PROVE QuietInv'
<1>0. /\ EndsOK /\ PlaceInv /\ Total \in Nat /\ arrived \in Nat /\ arrived =< Total
      /\ received \in Nat /\ contentSize \in Nat /\ recvIndex \in Nat
  BY Known DEF StreamInv, PlaceInv
<1>1. CASE Write
  <2>1. /\ open /\ UNCHANGED <<arrived, open, pc, received, contentSize, recvIndex, taken>>
        /\ \E s \in Size : ends' = Append(ends, Total + HeaderLen + s)
    BY <1>1 DEF Write, msgVars
  <2>2. InHeader(arrived)' = InHeader(arrived)
    <3>1. \A p \in Nat : p =< Total => InHeader(p)' = InHeader(p)
      BY <1>0, <2>1, OneMore
    <3> QED BY <1>0, <2>1, <3>1 DEF InHeader
  <2> QED BY <2>1, <2>2 DEF QuietInv, Wanted
<1>2. CASE Arrive \/ Close
  <2>1. pc = "idle" /\ UNCHANGED <<ends, pc>>
    BY <1>2 DEF Arrive, Close, MayArrive, Quiet
  <2>2. ~InHeader(arrived') /\ (~open' => arrived' = Total)
    BY <1>2 DEF Arrive, Close, Quiet
  <2>3. InHeader(arrived)' = InHeader(arrived') /\ Total' = Total
    BY <2>1 DEF InHeader, Start, Total
  <2> QED BY <2>1, <2>2, <2>3 DEF QuietInv
<1>3. CASE Accept
  <2>1. pc' = "idle" /\ open' = TRUE /\ ends' = <<>>
    BY <1>3 DEF Accept
  <2> QED BY <2>1 DEF QuietInv, InHeader
<1>4. CASE RedCard \/ Receive \/ SendFails \/ UNCHANGED vars
  <2>1. UNCHANGED <<ends, arrived, open>>
    BY <1>4 DEF RedCard, Receive, ReceiveMessages, Recv, EndHeader, EndBody, SendFails, vars, netVars
  <2>2. ~InHeader(arrived)' /\ (~open' => arrived' = Total')
    BY <2>1 DEF QuietInv, InHeader, Start, Total
  <2>3. (pc' \in {"header", "body"} /\ received' > 0) => (received' = Wanted' \/ taken' = arrived')
    <3>1. CASE Recv
      <4>1. received = 0 /\ UNCHANGED <<pc, contentSize, recvIndex, arrived>>
        BY <1>0, <3>1 DEF LosesPlace, Overwrites, Recv, netVars
      <4>2. received' = Wanted \/ taken' = arrived
        BY <1>0, <3>1, <4>1, RecvTakes, Known
      <4> QED BY <4>1, <4>2 DEF Wanted
    <3>2. CASE ReceiveMessages
      BY <3>2 DEF ReceiveMessages, Begin
    <3>3. CASE EndHeader \/ EndBody
      BY <3>3 DEF EndHeader, EndBody, Continue, Begin
    <3>4. CASE RedCard \/ SendFails
      BY <3>4 DEF RedCard, SendFails
    <3>5. CASE UNCHANGED vars
      BY <3>5 DEF QuietInv, Wanted, vars, netVars, msgVars
    <3> QED BY <1>4, <3>1, <3>2, <3>3, <3>4, <3>5 DEF Receive
  <2> QED BY <2>2, <2>3 DEF QuietInv
<1> QED BY <1>1, <1>2, <1>3, <1>4 DEF Next

LEMMA QuietKeepsPlace ==
  ASSUME Quiet, StreamInv, QuietInv, [Next]_vars PROVE ~LosesPlace
<1>0. /\ PlaceInv /\ Total \in Nat /\ arrived \in Nat /\ taken \in Nat /\ taken =< arrived /\ arrived =< Total
      /\ received \in Nat /\ contentSize \in Nat /\ recvIndex \in Nat /\ Start(handled + 1) \in Nat
  BY Known DEF StreamInv
<1>1. ~Overwrites
  <2>1. SUFFICES ASSUME Overwrites PROVE FALSE
    OBVIOUS
  <2>2. pc \in {"header", "body"} /\ received > 0 /\ received < Wanted /\ taken < arrived
    BY <2>1 DEF Overwrites, Recv
  <2>3. Wanted \in Nat
    BY <1>0, Known DEF Wanted
  <2> QED BY <1>0, <2>2, <2>3 DEF QuietInv
<1>2. ~PartHeader
  <2>1. SUFFICES ASSUME PartHeader PROVE FALSE
    OBVIOUS
  <2>2. pc = "header" /\ received = 1 /\ Wanted = HeaderLen
    BY <2>1 DEF PartHeader, EndHeader, Wanted
  <2>3. contentSize = 0 /\ taken = Start(handled + 1) + 1
    BY <2>2 DEF StreamInv, PlaceInv, TurnOK, HeaderInv
  <2>4. arrived = Start(handled + 1) + 1
    BY <2>2, <2>3 DEF QuietInv
  <2>5. handled < Len(ends)
    <3>1. Start(handled + 1) # Total
      BY <1>0, <2>4
    <3> QED BY <1>0, <3>1, Known
  <2>6. handled + 1 \in DOMAIN ends
    BY <1>0, <2>5, Known DEF PlaceInv, EndsOK
  <2>7. InHeader(arrived)
    BY <1>0, <2>4, <2>6 DEF InHeader
  <2> QED BY <2>7 DEF QuietInv
<1>3. ~KeepsIndex
  <2>1. SUFFICES ASSUME connected, ~connected', recvIndex' # 0 PROVE FALSE
    BY DEF KeepsIndex
  <2>2. EndHeader \/ EndBody \/ SendFails
    BY <2>1 DEF Next, Receive, Write, Arrive, Close, Accept, RedCard, ReceiveMessages, Recv, vars
  <2>3. CASE EndHeader \/ SendFails
    <3>1. contentSize = 0 /\ UNCHANGED recvIndex
      BY <2>3 DEF EndHeader, SendFails, Quiet, StreamInv, PlaceInv, TurnOK
    <3> QED BY <1>0, <2>1, <3>1, Known
  <2>4. CASE EndBody
    <3>1. Gone
      BY <2>1, <2>4 DEF EndBody, Continue
    <3>2. /\ pc = "body" /\ contentSize > 0 /\ taken = arrived /\ arrived = Total
          /\ received # contentSize - recvIndex /\ recvIndex + received =< contentSize
      BY <1>0, <2>4, <3>1, EndBodyDoes DEF Gone, QuietInv, Wanted, PlaceInv, TurnOK
    <3>3. /\ handled < Len(ends) /\ contentSize = SizeOf(handled + 1)
          /\ taken = Start(handled + 1) + HeaderLen + (recvIndex + received)
      BY <3>2 DEF StreamInv, BodyInv, Stored
    <3>4. Start(handled + 1) + HeaderLen + contentSize =< Total
      BY <1>0, <3>3, Known
    <3> QED BY <1>0, <3>2, <3>3, <3>4
  <2> QED BY <2>2, <2>3, <2>4
<1> QED BY <1>1, <1>2, <1>3 DEF LosesPlace

\* When headers come whole, nothing arrives inside a receiveData and connections end
\* between requests, the server takes no step that loses its place.
THEOREM QuietNetworks == ASSUME Quiet PROVE Spec => [][~LosesPlace]_vars
<1>1. Init => StreamInv /\ QuietInv
  BY StreamStarts DEF Init, QuietInv, InHeader, Total, Start
<1>2. StreamInv /\ QuietInv /\ [Next]_vars => StreamInv' /\ QuietInv' /\ [~LosesPlace]_vars
  BY StreamStep, QuietStep, QuietKeepsPlace
<1> QED BY <1>1, <1>2, PTL DEF Spec

=============================================================================
