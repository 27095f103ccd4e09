------------------------- MODULE AutoRefLinkProofs -------------------------
(***************************************************************************)
(* Proofs about AutoRefLink: until the shoot-out robots are shown as       *)
(* penalised exactly while they owe time (ShownAsOwed), and no answered    *)
(* command wipes a later penalty (WaitingIsSafe).                          *)
(***************************************************************************)
EXTENDS AutoRefLink, SequenceTheorems, TLAPS

----------------------------------------------------------------------------
(* The account of a robot's time.                                          *)

LEMMA PlacesApart ==
  ASSUME leftTeam \in Team
  PROVE  /\ \A t \in Team : PlaceOf(t) \in Place
         /\ \A t, u \in Team : t # u => PlaceOf(t) # PlaceOf(u)
         /\ Other(leftTeam) \in Team
BY PenaltyConstants DEF Team, PlaceOf, Place, Other

\* An event that changes no penalty and not the sides.
LEMMA UntouchedAccount ==
  ASSUME DataAccount, Untouched, UNCHANGED <<leftTeam, serving>>
  PROVE  DataAccount'
BY DEF DataAccount, DataTypeOK, Untouched, PlaceOf, Due

LEMMA PerformOnAccount ==
  ASSUME DataAccount, NEW t \in Team, NEW served \in BOOLEAN, PerformOn(t, served),
         UNCHANGED leftTeam
  PROVE  DataAccount'
<1>1. leftTeam \in Team /\ PenaltyTime \in Nat /\ 0 \in 0..PenaltyTime /\ PenaltyTime \in 0..PenaltyTime
  BY PenaltyConstants DEF DataAccount, DataTypeOK
<1>2. DataTypeOK'
  BY <1>1, PlacesApart DEF DataAccount, DataTypeOK, PerformOn
<1>3. ASSUME NEW u \in Team
      PROVE  owed'[u] = Due(penalty'[u], serving'[PlaceOf(u)'], elapsed'[PlaceOf(u)'])
  <2>1. PlaceOf(u)' = PlaceOf(u)
    BY DEF PlaceOf
  <2>2. CASE u = t
    BY <1>1, <2>1, <2>2, PlacesApart DEF DataAccount, DataTypeOK, PerformOn, Due
  <2>3. CASE u # t
    <3>1. PlaceOf(u) # PlaceOf(t) /\ PlaceOf(u) \in Place
      BY <1>1, <2>3, PlacesApart
    <3>2. /\ owed'[u] = owed[u] /\ penalty'[u] = penalty[u]
          /\ serving'[PlaceOf(u)] = serving[PlaceOf(u)] /\ elapsed'[PlaceOf(u)] = elapsed[PlaceOf(u)]
      BY <2>3, <3>1 DEF DataAccount, DataTypeOK, PerformOn
    <3> QED
      BY <2>1, <3>2 DEF DataAccount, Due
  <2> QED
    BY <2>2, <2>3
<1> QED
  BY <1>2, <1>3 DEF DataAccount

LEMMA ResetAccount ==
  ASSUME DataAccount, ResetPenalties, leftTeam' \in Team, serving' \in [Place -> BOOLEAN]
  PROVE  DataAccount'
<1>1. PenaltyTime \in Nat /\ 0 \in 0..PenaltyTime /\ PenaltyTime \in 0..PenaltyTime
  BY PenaltyConstants
<1> QED
  BY <1>1 DEF DataAccount, DataTypeOK, ResetPenalties, Due

\* The times stay in their places: that is right when there are none.
LEMMA ChangeSideAccount ==
  ASSUME DataAccount, ChangeSide, ~SwapsPenalized
  PROVE  DataAccount'
<1>1. leftTeam \in Team /\ leftTeam' \in Team /\ leftTeam' # leftTeam
  BY PlacesApart, PenaltyConstants DEF DataAccount, DataTypeOK, ChangeSide, Other, Team
<1>2. serving' \in [Place -> BOOLEAN]
  BY DEF DataAccount, DataTypeOK, ChangeSide, Place
<1>3. CASE ~shootOut
  BY <1>1, <1>2, <1>3, ResetAccount DEF ChangeSide
<1>4. CASE shootOut
  <2>1. UNCHANGED <<penalty, elapsed, owed>> /\ \A t \in Team : ~penalty[t]
    BY <1>1, <1>4 DEF ChangeSide, Untouched, SwapsPenalized
  <2> QED
    BY <1>1, <1>2, <2>1 DEF DataAccount, DataTypeOK, Due
<1> QED
  BY <1>3, <1>4

LEMMA ClearAccount ==
  ASSUME DataAccount, ClearPenaltiesServed, UNCHANGED leftTeam
  PROVE  DataAccount'
<1>1. leftTeam \in Team /\ PenaltyTime \in Nat
  BY PenaltyConstants DEF DataAccount, DataTypeOK
<1>2. DataTypeOK'
  BY DEF DataAccount, DataTypeOK, ClearPenaltiesServed
<1>3. ASSUME NEW u \in Team
      PROVE  owed'[u] = Due(penalty'[u], serving'[PlaceOf(u)'], elapsed'[PlaceOf(u)'])
  <2>1. PlaceOf(u)' = PlaceOf(u) /\ PlaceOf(u) \in Place
    BY <1>1, PlacesApart DEF PlaceOf
  <2>2. CASE Cleared(u)
    BY <1>1, <2>1, <2>2 DEF DataAccount, DataTypeOK, ClearPenaltiesServed, Cleared, Due
  <2>3. CASE ~Cleared(u)
    <3>1. serving'[PlaceOf(u)] = serving[PlaceOf(u)]
      BY <1>1, <2>1, <2>3, PlacesApart DEF DataAccount, DataTypeOK, ClearPenaltiesServed
    <3> QED
      BY <2>1, <2>3, <3>1 DEF DataAccount, ClearPenaltiesServed, Due
  <2> QED
    BY <2>2, <2>3
<1> QED
  BY <1>2, <1>3 DEF DataAccount

LEMMA PerformAccount ==
  ASSUME DataAccount, NEW op, Perform(op), ~SwapsPenalized
  PROVE  DataAccount'
<1>1. CASE ChangeSide
  BY <1>1, ChangeSideAccount DEF Perform
<1>2. CASE UNCHANGED <<leftTeam, penalty, timeVars, owed>>
  BY <1>2, UntouchedAccount DEF Perform, Untouched, timeVars
<1> QED
  BY <1>1, <1>2 DEF Perform

LEMMA SecondHalfAccount == ASSUME DataAccount, SecondHalf, ~SwapsPenalized PROVE DataAccount'
<1>1. CASE firstHalf
  BY <1>1, ChangeSideAccount DEF SecondHalf
<1>2. CASE ~firstHalf
  BY <1>2, UntouchedAccount DEF SecondHalf, Untouched, timeVars
<1> QED
  BY <1>1, <1>2

LEMMA SameDataAccount == ASSUME DataAccount, UNCHANGED dataVars PROVE DataAccount'
BY UntouchedAccount DEF dataVars, matchVars, timeVars, Untouched

----------------------------------------------------------------------------
(* The copy of the Sender.                                                 *)

LEMMA SendAccount == ASSUME DataAccount', Send PROVE CloneAccount'
<1>1. leftTeam' \in Team
  BY DEF DataAccount, DataTypeOK
<1>2. \A t \in Team : PlaceOf(t)' \in Place
  BY <1>1 DEF PlaceOf, Place
<1>3. ASSUME NEW t \in Team
      PROVE  /\ clone'[t] \in [penalty : BOOLEAN, serving : BOOLEAN, elapsed : 0..PenaltyTime, owed : 0..PenaltyTime]
             /\ clone'[t].owed = Due(clone'[t].penalty, clone'[t].serving, clone'[t].elapsed)
  BY <1>2 DEF Send, DataAccount, DataTypeOK
<1> QED
  BY <1>3 DEF CloneAccount, Send

LEMMA SameClone == ASSUME CloneAccount, UNCHANGED clone PROVE CloneAccount'
BY DEF CloneAccount, Due

\* Time is paid by who serves, until nothing is owed.
LEMMA Payment ==
  ASSUME NEW p \in BOOLEAN, NEW s \in BOOLEAN, NEW e \in 0..PenaltyTime
  PROVE  /\ AtMost(e + 1) \in 0..PenaltyTime
         /\ Due(p, s, e) \in 0..PenaltyTime
         /\ Due(p, s, AtMost(e + 1)) = IF s THEN AtLeast(Due(p, s, e) - 1) ELSE Due(p, s, e)
BY PenaltyConstants DEF AtMost, AtLeast, Due

LEMMA TimeAccount == ASSUME Account, TimePasses PROVE Account'
<1>1. leftTeam \in Team /\ DataAccount /\ CloneAccount
  BY DEF Account, DataAccount, DataTypeOK
<1>2. UNCHANGED <<leftTeam, penalty, serving, shootOut>>
  BY DEF TimePasses, matchVars
<1>3. ASSUME NEW t \in Team
      PROVE  /\ PlaceOf(t)' = PlaceOf(t) /\ PlaceOf(t) \in Place
             /\ elapsed'[PlaceOf(t)] = AtMost(elapsed[PlaceOf(t)] + 1)
             /\ owed'[t] = IF serving[PlaceOf(t)] THEN AtLeast(owed[t] - 1) ELSE owed[t]
  BY <1>1, <1>2, PlacesApart DEF TimePasses, PlaceOf
<1>4. \A p \in Place : elapsed[p] \in 0..PenaltyTime /\ serving[p] \in BOOLEAN
  BY <1>1 DEF DataAccount, DataTypeOK
<1>5. \A t \in Team : owed'[t] = Due(penalty'[t], serving'[PlaceOf(t)'], elapsed'[PlaceOf(t)'])
  <2> TAKE t \in Team
  <2>1. penalty[t] \in BOOLEAN /\ owed[t] = Due(penalty[t], serving[PlaceOf(t)], elapsed[PlaceOf(t)])
    BY <1>1 DEF DataAccount, DataTypeOK
  <2> QED
    BY <1>2, <1>3, <1>4, <2>1, Payment
<1>6. \A p \in Place : AtMost(elapsed[p] + 1) \in 0..PenaltyTime
  BY <1>4, Payment
<1>7. \A t \in Team : owed'[t] \in 0..PenaltyTime
  <2> TAKE t \in Team
  <2>1. penalty'[t] \in BOOLEAN /\ serving'[PlaceOf(t)'] \in BOOLEAN /\ elapsed'[PlaceOf(t)'] \in 0..PenaltyTime
    BY <1>1, <1>2, <1>3, <1>4, <1>6 DEF DataAccount, DataTypeOK
  <2> QED
    BY <1>5, <2>1, Payment
<1>8. owed' \in [Team -> 0..PenaltyTime] /\ elapsed' \in [Place -> 0..PenaltyTime]
  BY <1>6, <1>7 DEF TimePasses
<1>9. DataAccount'
  BY <1>1, <1>2, <1>5, <1>8 DEF DataAccount, DataTypeOK
<1>10. ASSUME NEW t \in Team
       PROVE  /\ clone'[t] \in [penalty : BOOLEAN, serving : BOOLEAN, elapsed : 0..PenaltyTime, owed : 0..PenaltyTime]
              /\ clone'[t].owed = Due(clone'[t].penalty, clone'[t].serving, clone'[t].elapsed)
  <2>1. /\ clone[t] \in [penalty : BOOLEAN, serving : BOOLEAN, elapsed : 0..PenaltyTime, owed : 0..PenaltyTime]
        /\ clone[t].owed = Due(clone[t].penalty, clone[t].serving, clone[t].elapsed)
    BY <1>1 DEF CloneAccount
  <2>2. clone'[t] = [clone[t] EXCEPT !.elapsed = AtMost(clone[t].elapsed + 1),
                                     !.owed = IF clone[t].serving THEN AtLeast(clone[t].owed - 1) ELSE clone[t].owed]
    BY DEF TimePasses
  <2>3. /\ clone'[t].penalty = clone[t].penalty /\ clone'[t].serving = clone[t].serving
        /\ clone'[t].elapsed = AtMost(clone[t].elapsed + 1)
        /\ clone'[t].owed = IF clone[t].serving THEN AtLeast(clone[t].owed - 1) ELSE clone[t].owed
    BY <2>1, <2>2
  <2>4. clone'[t].owed = Due(clone'[t].penalty, clone'[t].serving, clone'[t].elapsed)
    BY <2>1, <2>3, Payment
  <2>5. clone'[t].elapsed \in 0..PenaltyTime /\ clone'[t].owed \in 0..PenaltyTime
    BY <2>1, <2>3, <2>4, Payment
  <2> QED
    BY <2>1, <2>2, <2>3, <2>4, <2>5
<1>11. CloneAccount'
  BY <1>10 DEF CloneAccount, TimePasses
<1> QED
  BY <1>9, <1>11 DEF Account

----------------------------------------------------------------------------
(* The account through the steps of the program.                           *)

LEMMA EventAccount ==
  ASSUME DataAccount, Event, ~SwapsPenalized
  PROVE  DataAccount' /\ CloneAccount'
<1>1. CASE ClockTick
  <2>1. DataAccount'
    BY <1>1, SameDataAccount, PerformAccount, SecondHalfAccount DEF ClockTick
  <2> QED
    BY <1>1, <2>1, SendAccount DEF ClockTick
<1>2. ASSUME NEW k \in Kinds, SelectPenalty(k) PROVE DataAccount' /\ CloneAccount'
  BY <1>2, SameDataAccount, SendAccount DEF SelectPenalty
<1>3. ASSUME NEW t \in Robots, ClickRobot(t) PROVE DataAccount' /\ CloneAccount'
  <2>1. t \in Team /\ UNCHANGED leftTeam /\ leftTeam \in Team
    BY <1>3, PenaltyConstants DEF ClickRobot, Team, matchVars, DataAccount, DataTypeOK
  <2>2. ASSUME NEW served \in BOOLEAN, PerformOn(t, served) PROVE DataAccount'
    BY <2>1, <2>2, PerformOnAccount
  <2>3. ASSUME serving[PlaceOf(t)], elapsed[PlaceOf(t)] = PenaltyTime,
               penalty' = [penalty EXCEPT ![t] = FALSE],
               serving' = [serving EXCEPT ![PlaceOf(t)] = FALSE],
               UNCHANGED <<elapsed, owed>>
        PROVE  DataAccount'
    <3>1. PenaltyTime \in Nat
      BY PenaltyConstants
    <3>2. owed[t] = 0
      BY <2>1, <2>3, <3>1 DEF DataAccount, DataTypeOK, Due
    <3>3. \A u \in Team : PlaceOf(u)' = PlaceOf(u) /\ PlaceOf(u) \in Place
                          /\ (u # t => PlaceOf(u) # PlaceOf(t))
      BY <2>1, PlacesApart DEF PlaceOf
    <3>4. DataTypeOK'
      BY <2>1, <2>3 DEF DataAccount, DataTypeOK
    <3>5. ASSUME NEW u \in Team
          PROVE  owed'[u] = Due(penalty'[u], serving'[PlaceOf(u)'], elapsed'[PlaceOf(u)'])
      BY <2>3, <3>2, <3>3 DEF DataAccount, DataTypeOK, Due
    <3> QED
      BY <2>1, <3>4, <3>5 DEF DataAccount
  <2>4. DataAccount'
    BY <1>3, <2>2, <2>3 DEF ClickRobot
  <2> QED
    BY <1>3, <2>4, SendAccount DEF ClickRobot
<1>4. ASSUME NEW op \in {"READY", "SET", "PLAY", "FINISH"}, PressState(op)
      PROVE  DataAccount' /\ CloneAccount'
  BY <1>4, PerformAccount, SendAccount DEF PressState
<1> QED
  BY <1>1, <1>2, <1>3, <1>4 DEF Event

----------------------------------------------------------------------------
(* The queues.                                                             *)

LEMMA TailFacts ==
  ASSUME NEW S, NEW s \in Seq(S), s # <<>>
  PROVE  /\ Head(s) = s[1] /\ Head(s) \in S /\ 1 \in 1..Len(s)
         /\ Tail(s) \in Seq(S)
         /\ \A i \in 1..Len(Tail(s)) : i + 1 \in 1..Len(s) /\ Tail(s)[i] = s[i + 1]
OBVIOUS

LEMMA FrontFacts ==
  ASSUME NEW S, NEW s \in Seq(S), s # <<>>
  PROVE  /\ Last(s) = s[Len(s)] /\ Last(s) \in S /\ Len(s) \in 1..Len(s)
         /\ Front(s) \in Seq(S) /\ Len(Front(s)) = Len(s) - 1
         /\ \A i \in 1..Len(Front(s)) : i \in 1..Len(s) /\ i < Len(s) /\ Front(s)[i] = s[i]
<1>1. Len(s) \in Nat \ {0} /\ s[Len(s)] \in S /\ \A i \in 1..(Len(s) - 1) : s[i] \in S
  OBVIOUS
<1>2. PICK n \in Nat : n = Len(s) - 1
  BY <1>1
<1>3. Front(s) = SubSeq(s, 1, n) /\ \A i \in 1..n : s[i] \in S
  BY <1>1, <1>2 DEF Front
<1>4. /\ SubSeq(s, 1, n) \in Seq(S) /\ Len(SubSeq(s, 1, n)) = IF 1 <= n THEN n - 1 + 1 ELSE 0
      /\ \A i \in 1..(n - 1 + 1) : SubSeq(s, 1, n)[i] = s[1 + i - 1]
  BY <1>3, 1 \in Int, n \in Int, SubSeqProperties
<1>5. /\ Front(s) \in Seq(S) /\ Len(Front(s)) = n /\ \A i \in 1..n : Front(s)[i] = s[i]
  BY <1>3, <1>4
<1> QED
  BY <1>1, <1>2, <1>5 DEF Last

LEMMA AppendFacts ==
  ASSUME NEW S, NEW s \in Seq(S), NEW e \in S
  PROVE  /\ Append(s, e) \in Seq(S)
         /\ \A i \in 1..Len(Append(s, e)) :
              \/ i \in 1..Len(s) /\ i < Len(Append(s, e)) /\ Append(s, e)[i] = s[i]
              \/ i = Len(Append(s, e)) /\ Append(s, e)[i] = e
OBVIOUS

queues == <<sent, unanswered, commandQueue, returnQueue, open, settled>>

LEMMA SameQueues == ASSUME Awaited, UNCHANGED queues PROVE Awaited'
BY DEF Awaited, queues, QueuesTypeOK, InOrder, Rising, Answered, Commanded, Line

\* A command on the way is none of those that were answered or sent before.
LEMMA ReadKeeps == ASSUME Awaited, ReadCommand PROVE Awaited'
<1>1. PICK line \in Line :
        commandQueue' = Append(commandQueue, [id |-> sent + 1, line |-> line, settled |-> Answered])
  BY DEF ReadCommand, Answered
<1> DEFINE c == [id |-> sent + 1, line |-> line, settled |-> Answered]
<1>2. /\ sent \in Nat /\ unanswered \subseteq 1..sent /\ sent' = sent + 1
      /\ unanswered' = unanswered \cup {sent + 1}
      /\ UNCHANGED <<returnQueue, open, settled>>
  BY DEF Awaited, QueuesTypeOK, ReadCommand, callVars
<1>3. Answered' = Answered /\ Answered \subseteq 1..sent
  BY <1>2 DEF Answered
<1>4. c \in Commanded /\ c.id = sent + 1 /\ c.settled = Answered
  BY <1>2 DEF Commanded, Answered
<1>5. commandQueue \in Seq(Commanded) /\ commandQueue' = Append(commandQueue, c)
  BY <1>1 DEF Awaited, QueuesTypeOK
<1>6. \A n \in unanswered : n < sent + 1
  BY <1>2
<1> HIDE DEF c
<1>7. /\ commandQueue' \in Seq(Commanded)
      /\ \A i \in 1..Len(commandQueue') :
           \/ i \in 1..Len(commandQueue) /\ i < Len(commandQueue') /\ commandQueue'[i] = commandQueue[i]
           \/ i = Len(commandQueue') /\ commandQueue'[i] = c
  BY <1>4, <1>5, AppendFacts
<1>8. QueuesTypeOK'
  BY <1>2, <1>7 DEF Awaited, QueuesTypeOK, Commanded, Line
<1>9. \A i \in 1..Len(commandQueue) : commandQueue[i].id < sent + 1
  BY <1>6 DEF Awaited
<1>10. Rising(commandQueue)'
  <2>1. Rising(commandQueue)
    BY DEF Awaited, InOrder
  <2>2. ASSUME NEW i \in 1..Len(commandQueue'), NEW j \in 1..Len(commandQueue'), i < j
        PROVE  commandQueue'[i].id < commandQueue'[j].id
    <3>1. Len(commandQueue') \in Nat
      BY <1>7
    <3>2. i \in 1..Len(commandQueue) /\ commandQueue'[i] = commandQueue[i]
      BY <1>7, <2>2, <3>1
    <3> QED
      BY <1>4, <1>7, <1>9, <2>1, <2>2, <3>2 DEF Rising
  <2> QED
    BY <2>2 DEF Rising
<1>11. \A i \in 1..Len(commandQueue') :
         /\ commandQueue'[i].id \in unanswered' /\ commandQueue'[i].settled \subseteq Answered'
         /\ \A j \in 1..Len(open) : open[j].id < commandQueue'[i].id
         /\ \A j \in 1..Len(returnQueue) : returnQueue[j] < commandQueue'[i].id
  BY <1>2, <1>3, <1>4, <1>6, <1>7 DEF Awaited, InOrder
<1>12. InOrder'
  BY <1>2, <1>10, <1>11 DEF Awaited, InOrder, Rising
<1> QED
  BY <1>2, <1>3, <1>8, <1>11, <1>12 DEF Awaited

LEMMA FlushKeeps == ASSUME Awaited, Flush PROVE Awaited'
<1>1. /\ returnQueue' = <<>> /\ unanswered' = unanswered \ ToSet(returnQueue)
      /\ UNCHANGED <<sent, commandQueue, open, settled>>
  BY DEF Flush, callVars
<1>2. Answered \subseteq Answered'
  BY <1>1 DEF Answered
<1>3. \A n \in ToSet(returnQueue) : \E k \in 1..Len(returnQueue) : n = returnQueue[k]
  BY DEF ToSet, Awaited, QueuesTypeOK
<1>4. QueuesTypeOK'
  <2>1. <<>> \in Seq(Nat)
    OBVIOUS
  <2>2. QueuesTypeOK
    BY DEF Awaited
  <2>3. unanswered' \subseteq 1..sent
    BY <1>1, <2>2 DEF QueuesTypeOK
  <2> QED
    BY <1>1, <2>1, <2>2, <2>3 DEF QueuesTypeOK, Commanded, Line
<1>5. \A i \in 1..Len(commandQueue) : commandQueue[i].id \in Nat
  <2> SUFFICES ASSUME NEW i \in 1..Len(commandQueue) PROVE commandQueue[i].id \in Nat
    OBVIOUS
  <2>1. commandQueue[i].id \in unanswered /\ unanswered \subseteq 1..sent /\ sent \in Nat
    BY DEF Awaited, QueuesTypeOK
  <2>2. \A n \in 1..sent : n \in Nat
    BY <2>1
  <2> QED
    BY <2>1, <2>2, Zenon
<1>6. \A i \in 1..Len(commandQueue) : commandQueue[i].id \in unanswered'
  BY <1>1, <1>3, <1>5 DEF Awaited, InOrder
<1>7. \A i \in 1..Len(open) : open[i].id \in unanswered'
  BY <1>1, <1>3 DEF Awaited, InOrder
<1>8. InOrder'
  BY <1>1 DEF Awaited, InOrder, Rising
<1> QED
  BY <1>1, <1>2, <1>4, <1>6, <1>7, <1>8 DEF Awaited

\* The first of the queue is either answered or, not yet answered, the innermost of those that
\* are being carried out.
LEMMA TakeKeeps ==
  ASSUME Awaited, commandQueue # <<>>, commandQueue' = Tail(commandQueue),
         UNCHANGED <<sent, unanswered>>,
         settled' \in [Team -> SUBSET Nat], \A t \in Team : settled'[t] \subseteq Answered,
         \/ open' = open /\ returnQueue' = Append(returnQueue, Head(commandQueue).id)
         \/ open' = Append(open, Head(commandQueue)) /\ returnQueue' = returnQueue
  PROVE  Awaited'
<1>1. QueuesTypeOK /\ InOrder
  BY DEF Awaited
<1>2. /\ Head(commandQueue) = commandQueue[1] /\ 1 \in 1..Len(commandQueue)
      /\ Head(commandQueue) \in Commanded /\ commandQueue' \in Seq(Commanded)
      /\ \A i \in 1..Len(commandQueue') :
           i + 1 \in 1..Len(commandQueue) /\ commandQueue'[i] = commandQueue[i + 1]
  BY <1>1, TailFacts DEF QueuesTypeOK
<1>3. PICK c \in Commanded : c = Head(commandQueue)
  BY <1>2
<1>4. c.id \in Nat /\ c.id \in unanswered
  BY <1>2, <1>3 DEF Awaited, Commanded
<1>5. /\ \A i \in 1..Len(open) : open[i].id < c.id
      /\ \A i \in 1..Len(returnQueue) : returnQueue[i] < c.id
      /\ \A i \in 1..Len(commandQueue') : c.id < commandQueue'[i].id
  <2>1. \A i \in 1..Len(commandQueue') : 1 < i + 1
    BY <1>2
  <2> QED
    BY <1>1, <1>2, <1>3, <2>1 DEF InOrder, Rising
<1>6. \A i \in 1..Len(commandQueue') :
        /\ commandQueue'[i].id \in unanswered /\ commandQueue'[i].settled \subseteq Answered
        /\ \A j \in 1..Len(open) : open[j].id < commandQueue'[i].id
        /\ \A j \in 1..Len(returnQueue) : returnQueue[j] < commandQueue'[i].id
  BY <1>2 DEF Awaited, InOrder
<1>7. Rising(commandQueue)'
  <2>1. ASSUME NEW i \in 1..Len(commandQueue'), NEW j \in 1..Len(commandQueue'), i < j
        PROVE  commandQueue'[i].id < commandQueue'[j].id
    <3>1. i + 1 < j + 1
      BY <2>1
    <3> QED
      BY <1>1, <1>2, <3>1 DEF InOrder, Rising
  <2> QED
    BY <2>1 DEF Rising
<1>8. /\ Answered' = Answered
      /\ \A i \in 1..Len(open) : open[i].id # c.id
      /\ \A i \in 1..Len(returnQueue) : returnQueue[i] # c.id
  BY <1>4, <1>5 DEF Answered
<1>9. CASE open' = open /\ returnQueue' = Append(returnQueue, c.id)
  <2>1. /\ returnQueue' \in Seq(Nat)
        /\ \A i \in 1..Len(returnQueue') :
             \/ i \in 1..Len(returnQueue) /\ returnQueue'[i] = returnQueue[i]
             \/ returnQueue'[i] = c.id
    BY <1>1, <1>4, <1>9, AppendFacts DEF QueuesTypeOK
  <2>2. QueuesTypeOK'
    BY <1>1, <1>2, <1>9, <2>1 DEF QueuesTypeOK, Commanded, Line
  <2>3. \A i \in 1..Len(returnQueue') :
          /\ returnQueue'[i] \in unanswered
          /\ \A j \in 1..Len(commandQueue') : returnQueue'[i] < commandQueue'[j].id
          /\ \A j \in 1..Len(open) : returnQueue'[i] # open[j].id
    <3> TAKE i \in 1..Len(returnQueue')
    <3>1. CASE i \in 1..Len(returnQueue) /\ returnQueue'[i] = returnQueue[i]
      BY <1>1, <1>6, <3>1 DEF Awaited, InOrder
    <3>2. CASE returnQueue'[i] = c.id
      BY <1>4, <1>5, <1>8, <3>2
    <3> QED
      BY <2>1, <3>1, <3>2
  <2>4. InOrder'
    BY <1>1, <1>6, <1>7, <1>9, <2>3 DEF InOrder, Rising
  <2> QED
    BY <1>6, <1>8, <1>9, <2>2, <2>3, <2>4 DEF Awaited
<1>10. CASE open' = Append(open, c) /\ returnQueue' = returnQueue
  <2>1. /\ open' \in Seq(Commanded) /\ Len(open') \in Nat
        /\ \A i \in 1..Len(open') :
             \/ i \in 1..Len(open) /\ i < Len(open') /\ open'[i] = open[i]
             \/ i = Len(open') /\ open'[i] = c
    BY <1>1, <1>10, AppendFacts DEF QueuesTypeOK
  <2>2. QueuesTypeOK'
    BY <1>1, <1>2, <1>10, <2>1 DEF QueuesTypeOK, Commanded, Line
  <2>3. \A i \in 1..Len(open') :
          /\ open'[i].id \in unanswered
          /\ \A j \in 1..Len(commandQueue') : open'[i].id < commandQueue'[j].id
          /\ \A j \in 1..Len(returnQueue) : returnQueue[j] # open'[i].id
    <3> TAKE i \in 1..Len(open')
    <3>1. CASE i \in 1..Len(open) /\ open'[i] = open[i]
      BY <1>1, <1>6, <3>1 DEF Awaited, InOrder
    <3>2. CASE open'[i] = c
      BY <1>4, <1>5, <1>8, <3>2
    <3> QED
      BY <2>1, <3>1, <3>2
  <2>4. Rising(open)'
    <3>1. ASSUME NEW i \in 1..Len(open'), NEW j \in 1..Len(open'), i < j
          PROVE  open'[i].id < open'[j].id
      <4>1. i \in 1..Len(open) /\ open'[i] = open[i]
        BY <2>1, <3>1
      <4> QED
        BY <1>1, <1>5, <2>1, <3>1, <4>1 DEF InOrder, Rising
    <3> QED
      BY <3>1 DEF Rising
  <2>5. InOrder'
    BY <1>1, <1>6, <1>7, <1>10, <2>3, <2>4 DEF InOrder
  <2> QED
    BY <1>6, <1>8, <1>10, <2>2, <2>3, <2>5 DEF Awaited
<1> QED
  BY <1>3, <1>9, <1>10

LEMMA HandleKeeps == ASSUME Awaited, Handle PROVE Awaited'
<1>1. PICK c : c = Head(commandQueue)
  OBVIOUS
<1>2. /\ commandQueue # <<>> /\ commandQueue' = Tail(commandQueue) /\ UNCHANGED <<sent, unanswered>>
      /\ StateCommand(c) \/ OtherCommand(c) \/ (c.line.op = "PENALTY" /\ PenaltyCommand(c))
  BY <1>1 DEF Handle
<1>3. /\ settled \in [Team -> SUBSET Nat] /\ \A t \in Team : settled[t] \subseteq Answered
  BY DEF Awaited, QueuesTypeOK
<1>4. c \in Commanded /\ c.settled \subseteq Answered
  <2>1. c = commandQueue[1] /\ 1 \in 1..Len(commandQueue) /\ c \in Commanded
    BY <1>1, <1>2, TailFacts DEF Awaited, QueuesTypeOK
  <2> QED
    BY <2>1 DEF Awaited
<1>5. CASE StateCommand(c)
  BY <1>1, <1>2, <1>3, <1>5, TakeKeeps DEF StateCommand, Nested, Return, Answer
<1>6. CASE OtherCommand(c)
  BY <1>1, <1>2, <1>3, <1>6, TakeKeeps DEF OtherCommand, Return, Answer
<1>7. CASE PenaltyCommand(c)
  <2>1. settled' \in [Team -> SUBSET Nat] /\ \A t \in Team : settled'[t] \subseteq Answered
    <3>1. c.settled \in SUBSET Nat
      BY <1>4 DEF Commanded
    <3> QED
      BY <1>3, <1>4, <1>7, <3>1 DEF PenaltyCommand
  <2> QED
    BY <1>1, <1>2, <1>7, <2>1, TakeKeeps DEF PenaltyCommand, Return, Answer
<1> QED
  BY <1>2, <1>5, <1>6, <1>7

LEMMA ResumeKeeps == ASSUME Awaited, Resume PROVE Awaited'
<1>1. /\ open # <<>> /\ open' = Front(open) /\ returnQueue' = Append(returnQueue, Last(open).id)
      /\ UNCHANGED <<sent, unanswered, commandQueue, settled>>
  BY DEF Resume, Answer
<1>2. QueuesTypeOK /\ InOrder
  BY DEF Awaited
<1>3. /\ Last(open) = open[Len(open)] /\ Len(open) \in 1..Len(open) /\ Last(open) \in Commanded
      /\ open' \in Seq(Commanded)
      /\ \A i \in 1..Len(open') : i \in 1..Len(open) /\ i < Len(open) /\ open'[i] = open[i]
  BY <1>1, <1>2, FrontFacts DEF QueuesTypeOK
<1>4. PICK n : n = Last(open).id
  OBVIOUS
<1>5. n \in Nat /\ n \in unanswered
  <2>1. Last(open).id \in Nat
    BY <1>3 DEF Commanded
  <2>2. Last(open).id \in unanswered
    BY <1>3 DEF Awaited
  <2> QED
    BY <1>4, <2>1, <2>2
<1>6. /\ \A i \in 1..Len(open') : open'[i].id < n
      /\ \A i \in 1..Len(commandQueue) : n < commandQueue[i].id
  BY <1>2, <1>3, <1>4 DEF InOrder, Rising
<1>7. /\ returnQueue' \in Seq(Nat)
      /\ \A i \in 1..Len(returnQueue') :
           \/ i \in 1..Len(returnQueue) /\ returnQueue'[i] = returnQueue[i]
           \/ returnQueue'[i] = n
  BY <1>1, <1>2, <1>4, <1>5, AppendFacts DEF QueuesTypeOK
<1>8. QueuesTypeOK'
  BY <1>1, <1>2, <1>3, <1>7 DEF QueuesTypeOK, Commanded, Line
<1>9. \A i \in 1..Len(open') : open'[i].id \in Nat
  <2>1. \A i \in 1..Len(open') : open'[i] \in Commanded
    BY <1>3
  <2>2. \A e \in Commanded : e.id \in Nat
    BY DEF Commanded
  <2> QED
    BY <2>1, <2>2
<1>10. \A i \in 1..Len(returnQueue') :
         /\ returnQueue'[i] \in unanswered
         /\ \A j \in 1..Len(commandQueue) : returnQueue'[i] < commandQueue[j].id
         /\ \A j \in 1..Len(open') : returnQueue'[i] # open'[j].id
  <2>1. /\ \A j \in 1..Len(commandQueue) : n < commandQueue[j].id
        /\ \A j \in 1..Len(open') : n # open'[j].id
    BY <1>5, <1>6, <1>9
  <2>2. \A i \in 1..Len(returnQueue) :
          /\ returnQueue[i] \in unanswered
          /\ \A j \in 1..Len(commandQueue) : returnQueue[i] < commandQueue[j].id
          /\ \A j \in 1..Len(open') : returnQueue[i] # open'[j].id
    BY <1>2, <1>3 DEF Awaited, InOrder
  <2> QED
    BY <1>5, <1>7, <2>1, <2>2
<1>11. Rising(open)'
  BY <1>2, <1>3 DEF InOrder, Rising
<1>12. InOrder'
  BY <1>1, <1>2, <1>3, <1>10, <1>11 DEF InOrder, Rising
<1>13. \A i \in 1..Len(open') : open'[i].id \in unanswered
  BY <1>3 DEF Awaited
<1> QED
  BY <1>1, <1>8, <1>10, <1>12, <1>13 DEF Awaited, Answered

\* A command on its way awaits its answer, and commands are carried out in the order in which
\* they were sent, however their handling nests (EventHandler.update).
THEOREM CommandsInOrder == LinkSpec => []Awaited
<1>1. LinkInit => Awaited
  <2> SUFFICES ASSUME LinkInit PROVE Awaited
    OBVIOUS
  <2>1. /\ sent = 0 /\ unanswered = {} /\ settled = [t \in Team |-> {}]
        /\ commandQueue = <<>> /\ returnQueue = <<>> /\ open = <<>>
    BY DEF LinkInit
  <2>2. <<>> \in Seq(Commanded) /\ <<>> \in Seq(Nat) /\ Len(<<>>) = 0 /\ 1..0 = {}
    OBVIOUS
  <2> QED
    BY <2>1, <2>2 DEF Awaited, QueuesTypeOK, InOrder, Rising
<1>2. Awaited /\ [Next]_vars => Awaited'
  <2> SUFFICES ASSUME Awaited, [Next]_vars PROVE Awaited'
    OBVIOUS
  <2>1. CASE ReadCommand \/ Flush \/ Handle \/ Resume
    BY <2>1, ReadKeeps, FlushKeeps, HandleKeeps, ResumeKeeps
  <2>2. CASE ReadClock \/ ReadEnd \/ BeginEvent \/ NothingToHandle \/ Sender \/ UNCHANGED vars
    BY <2>2, SameQueues
    DEF ReadClock, ReadEnd, BeginEvent, NothingToHandle, Sender, vars, linkVars, callVars, queues
  <2> QED
    BY <2>1, <2>2 DEF Next
<1> QED
  BY <1>1, <1>2, PTL DEF LinkSpec

\* A penalty is never wiped by a command that had been answered before it was sent
\* (handleStateChanged, which resets the penalties after the nested update).
THEOREM AnsweredIsSafe == LinkSpec => WaitingIsSafe
<1>1. Awaited /\ [Next]_vars =>
        [\A t \in Team : penalty[t] /\ ~penalty'[t] /\ Resume => Last(open).id \notin settled[t]]_vars
  <2> SUFFICES ASSUME Awaited, NEW t \in Team, Resume PROVE Last(open).id \notin settled[t]
    OBVIOUS
  <2>1. Last(open) = open[Len(open)] /\ Len(open) \in 1..Len(open)
    BY FrontFacts DEF Resume, Awaited, QueuesTypeOK
  <2>2. Last(open).id \in unanswered /\ settled[t] \subseteq Answered
    BY <2>1 DEF Awaited
  <2> QED
    BY <2>2 DEF Answered
<1> QED
  BY <1>1, CommandsInOrder, PTL DEF LinkSpec, WaitingIsSafe

----------------------------------------------------------------------------
(* The account through commands.                                           *)

LEMMA OtherAccount ==
  ASSUME Account, NEW c, OtherCommand(c), ~SwapsPenalized
  PROVE  DataAccount'
<1>1. DataAccount
  BY DEF Account
<1>2. CASE SecondHalf
  BY <1>1, <1>2, SecondHalfAccount
<1>3. CASE Goal
  BY <1>1, <1>3, ClearAccount DEF Goal
<1>4. CASE UNCHANGED dataVars
  BY <1>1, <1>4, SameDataAccount
<1>5. CASE PenaltyShoot
  <2>1. leftTeam' \in Team /\ serving' \in [Place -> BOOLEAN] /\ UNCHANGED <<leftTeam, serving>>
    BY <1>1, <1>5 DEF PenaltyShoot, DataAccount, DataTypeOK
  <2> QED
    BY <1>1, <1>5, <2>1, ResetAccount, UntouchedAccount DEF PenaltyShoot
<1> QED
  BY <1>2, <1>3, <1>4, <1>5 DEF OtherCommand

LEMMA PenaltyAccount ==
  ASSUME Account, NEW c \in Commanded, c.line.op = "PENALTY", PenaltyCommand(c)
  PROVE  DataAccount'
<1>1. DataAccount /\ UNCHANGED leftTeam
  BY DEF Account, PenaltyCommand, matchVars
<1>2. c.line.team \in Team
  <2>1. c.line \in Line
    BY DEF Commanded
  <2>2. "PENALTY" \notin Commands
    BY LinkConstants DEF States, Others
  <2> QED
    BY <2>1, <2>2, PenaltyConstants DEF Line, Team
<1>3. CASE PenaltyLegal(c.line.kind)
  BY <1>1, <1>2, <1>3, PerformOnAccount DEF PenaltyCommand
<1>4. CASE ~PenaltyLegal(c.line.kind)
  BY <1>1, <1>4, UntouchedAccount DEF PenaltyCommand, Untouched, timeVars
<1> QED
  BY <1>3, <1>4

LEMMA HandleAccount == ASSUME Account, Awaited, Handle, ~SwapsPenalized PROVE Account'
<1>1. PICK c : c = Head(commandQueue)
  OBVIOUS
<1>2. c \in Commanded
  BY <1>1, TailFacts DEF Handle, Awaited, QueuesTypeOK
<1>3. DataAccount /\ CloneAccount
  BY DEF Account
<1>4. CASE StateCommand(c)
  <2>1. CASE Legal(c.line.op)
    BY <1>3, <1>4, <2>1, PerformAccount, SendAccount DEF StateCommand, Nested, Account
  <2>2. CASE ~Legal(c.line.op)
    BY <1>3, <1>4, <2>2, SameDataAccount, SameClone DEF StateCommand, Account
  <2> QED
    BY <2>1, <2>2
<1>5. CASE OtherCommand(c)
  <2>1. UNCHANGED clone
    BY <1>5 DEF OtherCommand
  <2> QED
    BY <1>3, <1>5, <2>1, OtherAccount, SameClone DEF Account
<1>6. CASE c.line.op = "PENALTY" /\ PenaltyCommand(c)
  <2>1. UNCHANGED clone
    BY <1>6 DEF PenaltyCommand
  <2> QED
    BY <1>2, <1>3, <1>6, <2>1, PenaltyAccount, SameClone DEF Account
<1> QED
  BY <1>1, <1>4, <1>5, <1>6 DEF Handle

LEMMA ResumeAccount == ASSUME Account, Resume PROVE Account'
<1>1. DataAccount /\ CloneAccount /\ UNCHANGED <<leftTeam, serving, clone>>
  BY DEF Account, Resume, matchVars, sendVars
<1>2. leftTeam' \in Team /\ serving' \in [Place -> BOOLEAN]
  BY <1>1 DEF DataAccount, DataTypeOK
<1>3. DataAccount'
  BY <1>1, <1>2, ResetAccount, UntouchedAccount DEF Resume
<1> QED
  BY <1>1, <1>3, SameClone DEF Account

\* At first nobody is penalised.
LEMMA InitAccount == LinkInit => Account
<1> SUFFICES ASSUME LinkInit PROVE Account
  OBVIOUS
<1>1. DataAccount
  BY PenaltyConstants DEF LinkInit, Init, DataAccount, DataTypeOK, Due, Team
<1>2. CloneAccount
  BY PenaltyConstants DEF LinkInit, Init, CloneAccount, Due
<1> QED
  BY <1>1, <1>2 DEF Account

LEMMA StepAccount == ASSUME Account, Awaited, [Next]_vars, ~SwapsPenalized PROVE Account'
<1>1. DataAccount /\ CloneAccount
  BY DEF Account
<1>2. CASE UNCHANGED <<dataVars, clone>>
  BY <1>1, <1>2, SameDataAccount, SameClone DEF Account
<1>3. CASE ReadCommand \/ ReadEnd \/ Flush \/ NothingToHandle \/ Sender \/ UNCHANGED vars
  BY <1>2, <1>3 DEF ReadCommand, ReadEnd, Flush, NothingToHandle, Sender, Broadcast, sendVars, vars
<1>4. CASE ReadClock
  BY <1>2, <1>4, TimeAccount DEF ReadClock, sendVars
<1>5. CASE BeginEvent
  BY <1>1, <1>5, EventAccount DEF BeginEvent, Account
<1>6. CASE Handle \/ Resume
  BY <1>6, HandleAccount, ResumeAccount
<1> QED
  BY <1>3, <1>4, <1>5, <1>6 DEF Next

\* What a robot owes by the rules is what the data, and the Sender's copy, say of it, until a
\* shot of a shoot-out begins with a robot penalised: nothing but that change of sides
\* (AdvancedData.changeSide, which leaves whenPenalized in its place) breaks the account.
THEOREM AccountsBreak == LinkSpec => Account /\ [][Account => Account' \/ SwapsPenalized]_vars
<1>1. Awaited /\ [Next]_vars => [Account => Account' \/ SwapsPenalized]_vars
  BY StepAccount
<1> QED
  BY <1>1, InitAccount, CommandsInOrder, PTL DEF LinkSpec

\* A shoot-out begins with the command for it and does not end.
LEMMA ShootOutStep ==
  ASSUME [Next]_vars
  PROVE  /\ shootOut => shootOut'
         /\ ~ShootOuts => (shootOut' <=> shootOut)
<1>1. CASE UNCHANGED matchVars
  BY <1>1 DEF matchVars
<1>2. CASE \/ ReadCommand \/ ReadClock \/ ReadEnd \/ Flush \/ NothingToHandle \/ Resume
           \/ Sender \/ UNCHANGED vars
  BY <1>1, <1>2 DEF ReadCommand, ReadClock, TimePasses, ReadEnd, Flush, NothingToHandle, Resume,
                    Sender, Broadcast, dataVars, vars
<1>3. CASE BeginEvent
  <2>1. CASE ClockTick
    BY <1>1, <2>1 DEF ClockTick, Perform, SecondHalf, dataVars
  <2>2. ASSUME NEW k \in Kinds, SelectPenalty(k) PROVE UNCHANGED matchVars
    BY <2>2 DEF SelectPenalty, dataVars
  <2>3. ASSUME NEW t \in Robots, ClickRobot(t) PROVE UNCHANGED matchVars
    BY <2>3 DEF ClickRobot
  <2>4. ASSUME NEW op \in {"READY", "SET", "PLAY", "FINISH"}, PressState(op) PROVE UNCHANGED shootOut
    BY <2>4 DEF PressState, Perform
  <2> QED
    BY <1>1, <1>3, <2>1, <2>2, <2>3, <2>4 DEF BeginEvent, Event
<1>4. CASE Handle
  <2>1. PICK c : StateCommand(c) \/ OtherCommand(c) \/ PenaltyCommand(c)
    BY <1>4 DEF Handle
  <2>2. CASE StateCommand(c) \/ PenaltyCommand(c)
    BY <1>1, <2>2 DEF StateCommand, Nested, Perform, PenaltyCommand, dataVars
  <2>3. CASE OtherCommand(c)
    BY <1>1, <2>3 DEF OtherCommand, SecondHalf, PenaltyShoot, PenaltyShootLegal, Goal, dataVars
  <2> QED
    BY <2>1, <2>2, <2>3
<1> QED
  BY <1>2, <1>3, <1>4 DEF Next

\* Therefore the account is right until the shoot-out, and always in a match without one.
THEOREM AccountsAgree == /\ LinkSpec => [](shootOut \/ Account)
                         /\ ~ShootOuts => (LinkSpec => []Account)
<1>1. (shootOut \/ Account) /\ Awaited /\ [Next]_vars => (shootOut \/ Account)'
  BY StepAccount, ShootOutStep DEF SwapsPenalized
<1>2. LinkSpec => [](shootOut \/ Account)
  BY <1>1, InitAccount, CommandsInOrder, PTL DEF LinkSpec
<1>3. ASSUME ~ShootOuts PROVE LinkSpec => []Account
  <2>1. LinkInit => ~shootOut
    BY DEF LinkInit, Init
  <2>2. ~shootOut /\ [Next]_vars => ~shootOut'
    BY <1>3, ShootOutStep
  <2> QED
    BY <1>2, <2>1, <2>2, PTL DEF LinkSpec
<1> QED
  BY <1>2, <1>3

LEMMA ShownByAccount ==
  ASSUME Account, Sender, NEW t \in Team
  PROVE  t \in shown' <=> clone[t].owed > 0
<1>1. /\ clone[t] \in [penalty : BOOLEAN, serving : BOOLEAN, elapsed : 0..PenaltyTime, owed : 0..PenaltyTime]
      /\ clone[t].owed = Due(clone[t].penalty, clone[t].serving, clone[t].elapsed)
  BY DEF Account, CloneAccount
<1>2. t \in shown' <=> clone[t].penalty /\ ~(clone[t].serving /\ clone[t].elapsed = PenaltyTime)
  BY DEF Sender, Broadcast, Served
<1>3. \A p, s \in BOOLEAN, e \in 0..PenaltyTime :
        Due(p, s, e) > 0 <=> p /\ ~(s /\ e = PenaltyTime)
  BY PenaltyConstants DEF Due
<1>4. clone[t].penalty \in BOOLEAN /\ clone[t].serving \in BOOLEAN /\ clone[t].elapsed \in 0..PenaltyTime
  BY <1>1
<1> QED
  BY <1>1, <1>2, <1>3, <1>4

\* Until the shoot-out a broadcast shows a robot as penalised exactly while it owes its time,
\* for all penalties, all times and any number of commands.
THEOREM ShownBeforeShootOut ==
  LinkSpec => [][Sender /\ ~shootOut => \A t \in Team : t \in shown' <=> clone[t].owed > 0]_vars
<1>1. (shootOut \/ Account) /\ [Next]_vars =>
        [Sender /\ ~shootOut => \A t \in Team : t \in shown' <=> clone[t].owed > 0]_vars
  BY ShownByAccount
<1> QED
  BY <1>1, AccountsAgree, PTL DEF LinkSpec

\* And in matches without a shoot-out always.
THEOREM ShownRightly == ASSUME ~ShootOuts PROVE LinkSpec => ShownAsOwed
<1>1. Account /\ [Next]_vars =>
        [Sender => \A t \in Team : t \in shown' <=> clone[t].owed > 0]_vars
  BY ShownByAccount
<1>2. LinkSpec => []Account
  BY AccountsAgree
<1> QED
  BY <1>1, <1>2, PTL DEF LinkSpec, ShownAsOwed
=============================================================================
