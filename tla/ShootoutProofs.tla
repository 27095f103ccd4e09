--------------------------- MODULE ShootoutProofs ---------------------------
(***************************************************************************)
(* The table of the referee is the rule: ShootoutByRule implements         *)
(* Shootout, for every pair of teams and all 20 shots.                     *)
(***************************************************************************)
EXTENDS ShootoutByRule, TLAPS

\* The number of a shot within its series of ten.
LEMMA ShotOfSeries ==
  ASSUME NEW c \in 1..20
  PROVE  c % 10 = IF c < 10 THEN c ELSE IF c < 20 THEN c - 10 ELSE 0
BY SMT

\* The table agrees with the rule after a shot, when nothing was decided before it:
\* n and m are the shots of the kicker and of the other team, p and h their goals
\* before it and g the goal of this shot (need_to_stop_penalty_shootout).
LEMMA RuleIsTable ==
  ASSUME NEW n \in Nat, NEW m \in Nat, NEW p \in Nat, NEW h \in Nat, NEW g \in 0..1,
         n + m \in 1..20, n - m \in {0, 1}, p < n, h <= m,
         ~Decided(n - 1 + m, n - 1, p, m, h),
         n - 1 + m >= 10 => p - h <= n - 6 /\ h - p <= m - 5
  PROVE  NeedToStop(n + m, p + g, h) <=> Decided(n + m, n, p + g, m, h)
<1> DEFINE c == n + m
           shot == IF c < 10 THEN c ELSE IF c < 20 THEN c - 10 ELSE 0
           diff == Abs(p + g - h)
           table == \/ c = 20
                    \/ c = 10 /\ diff > 0
                    \/ shot = 6 /\ diff = 3
                    \/ shot = 7 /\ (diff = 3 \/ (diff = 2 /\ ~(p + g >= h)))
                    \/ shot = 8 /\ diff = 2
                    \/ shot = 9 /\ (diff = 2 \/ (diff = 1 /\ ~(p + g >= h)))
<1>1. NeedToStop(n + m, p + g, h) <=> table
  BY ShotOfSeries DEF NeedToStop
<1>2. table <=> Decided(n + m, n, p + g, m, h)
  BY SMTT(60) DEF Decided, Behind, Abs
<1> QED
  BY <1>1, <1>2

\* Decided does not ask which team is named first.
LEMMA DecidedSymmetric ==
  ASSUME NEW c \in Int, NEW n \in Int, NEW g \in Int, NEW m \in Int, NEW h \in Int
  PROVE  Decided(c, n, g, m, h) <=> Decided(c, m, h, n, g)
BY Zenon DEF Decided

\* The two teams by their turn: the kicker and its rival.
LEMMA Rivals ==
  ASSUME NEW t \in Team
  PROVE  /\ Rival(t) \in Team /\ Rival(t) # t /\ Rival(Rival(t)) = t
         /\ Team = {t, Rival(t)}
BY TwoTeams DEF Team, Rival

\* In phase taken the table of the referee and the rule of the game agree.
LEMMA SameVerdict ==
  ASSUME RuleInv, phase = "taken"
  PROVE  /\ RuleSays <=> IsDecided
         /\ ~RuleSays => Open(shots[kicker], goals[kicker], goals[Rival(kicker)])
<1> DEFINE n == shots[kicker]  m == shots[Rival(kicker)]
           own == goals[kicker]  other == goals[Rival(kicker)]
<1>1. /\ kicker \in Team /\ Rival(kicker) \in Team
      /\ n \in Nat /\ m \in Nat /\ own \in Nat /\ other \in Nat
      /\ own <= n /\ other <= m /\ n - m \in {0, 1}
  BY Rivals DEF RuleInv, CountsOK
<1>2. Total = n + m /\ n + m \in 1..20
  <2>1. Red \in Team /\ Blue \in Team /\ shots[Red] \in Nat /\ shots[Blue] \in Nat
    BY DEF Team, RuleInv, CountsOK
  <2>2. Total = n + m
    BY <1>1, <2>1 DEF Total, Team, Rival
  <2> QED
    BY <2>2 DEF RuleInv, CountsOK
<1>3. PICK g \in 0..1 : /\ own - g \in Nat /\ own - g < n
                        /\ Open(n - 1, own - g, other)
  <2>1. \/ own < n /\ Open(n - 1, own, other)
        \/ own > 0 /\ Open(n - 1, own - 1, other)
    BY DEF RuleInv
  <2>2. CASE own < n /\ Open(n - 1, own, other)
    <3>1. own - 0 = own
      BY <1>1
    <3> QED
      BY <1>1, <2>2, <3>1
  <2>3. CASE own > 0 /\ Open(n - 1, own - 1, other)
    <3>1. own - 1 \in Nat /\ own - 1 < n
      BY <1>1, <2>3
    <3> QED
      BY <2>3, <3>1
  <2> QED
    BY <2>1, <2>2, <2>3
<1>4. NeedToStop(n + m, own, other) <=> Decided(n + m, n, own, m, other)
  <2>1. /\ ~Decided(n - 1 + m, n - 1, own - g, m, other)
        /\ n - 1 + m >= 10 => own - g - other <= n - 6 /\ other - (own - g) <= m - 5
    <3>1. n - 1 - 5 = n - 6
      BY <1>1
    <3> QED
      BY <1>3, <3>1 DEF Open, Undecided, LeadOK
  <2>2. own - g + g = own
    BY <1>1
  <2> HIDE DEF n, m, own, other
  <2>3. NeedToStop(n + m, own - g + g, other) <=> Decided(n + m, n, own - g + g, m, other)
    BY <1>1, <1>2, <1>3, <2>1, RuleIsTable
  <2> QED
    BY <2>2, <2>3
<1>5. RuleSays <=> IsDecided
  <2>1. CASE kicker = Red
    BY <2>1, <1>2, <1>4 DEF RuleSays, IsDecided, Rival
  <2>2. CASE kicker = Blue
    <3>1. Rival(kicker) = Red
      BY <2>2, TwoTeams DEF Rival
    <3>2. Decided(n + m, n, own, m, other) <=> Decided(n + m, m, other, n, own)
      BY <1>1, DecidedSymmetric
    <3> QED
      BY <2>2, <3>1, <3>2, <1>2, <1>4 DEF RuleSays, IsDecided
  <2> QED
    BY <1>1, <2>1, <2>2 DEF Team
<1>6. ASSUME ~RuleSays PROVE Open(n, own, other)
  <2>1. ~Decided(n + m, n, own, m, other)
    BY <1>2, <1>4, <1>6 DEF RuleSays
  <2>2. n + m >= 10 => own - other <= n - 5 /\ other - own <= m - 5
    <3>1. n - 1 + m >= 10 => own - g - other <= n - 6 /\ other - (own - g) <= m - 5
      <4>1. n - 1 - 5 = n - 6
        BY <1>1
      <4> QED
        BY <1>3, <4>1 DEF Open, LeadOK
    <3>2. CASE n - 1 + m >= 10
      <4>1. ~(other > own + (10 - n)) /\ ~(own > other + (10 - m)) 
        BY <2>1, <3>2, <1>1 DEF Decided, Behind
      <4> HIDE DEF n, m, own, other
      <4> QED
        BY <1>1, <1>3, <3>1, <3>2
    <3>3. CASE n + m = 10
      <4>1. n = 5 /\ m = 5
        BY <1>1, <3>3
      <4>2. own = other
        BY <1>1, <2>1, <3>3, <4>1 DEF Decided, Behind
      <4> QED
        BY <1>1, <4>1, <4>2
    <3> QED
      BY <1>1, <3>2, <3>3
  <2> QED
    BY <2>1, <2>2 DEF Open, Undecided, LeadOK
<1> QED
  BY <1>5, <1>6

----------------------------------------------------------------------------
\* The invariant, action by action.
LEMMA InitInv == Init => RuleInv
<1> SUFFICES ASSUME Init PROVE RuleInv
  OBVIOUS
<1> QED
  BY Rivals DEF Init, RuleInv, CountsOK

LEMMA TossInv == ASSUME RuleInv, NEW t \in Team, Toss(t) PROVE RuleInv'
<1>1. /\ shots[t] = 0 /\ shots[Rival(t)] = 0
      /\ goals[t] = 0 /\ goals[Rival(t)] = 0
  <2>1. kicker \in Team /\ {t, Rival(t)} = {kicker, Rival(kicker)}
    BY Rivals DEF RuleInv, CountsOK
  <2>2. /\ shots[kicker] = 0 /\ shots[Rival(kicker)] = 0
        /\ goals[kicker] = 0 /\ goals[Rival(kicker)] = 0
    BY <2>1, Rivals DEF RuleInv, CountsOK, Toss
  <2> QED
    BY <2>1, <2>2
<1> QED
  BY <1>1, Rivals DEF RuleInv, CountsOK, Toss

LEMMA FirstShotInv == ASSUME RuleInv, FirstShot PROVE RuleInv'
<1>1. /\ kicker \in Team /\ Rival(kicker) \in Team /\ Rival(kicker) # kicker
      /\ shots[kicker] = 0 /\ shots[Rival(kicker)] = 0
      /\ goals[kicker] = 0 /\ goals[Rival(kicker)] = 0
  BY Rivals DEF RuleInv, CountsOK, FirstShot
<1>2. /\ shots'[kicker] = 1 /\ shots'[Rival(kicker)] = 0
      /\ shots' \in [Team -> Nat] /\ kicker' = kicker /\ goals' = goals /\ phase' = "shot"
  BY <1>1 DEF RuleInv, CountsOK, FirstShot
<1>3. Total' = 1
  BY <1>1, <1>2, TwoTeams DEF Total, Team, Rival
<1>4. CountsOK'
  BY <1>1, <1>2, <1>3 DEF RuleInv, CountsOK
<1>5. Open(0, 0, 0)'
  BY <1>1, <1>2 DEF Open, Undecided, LeadOK, Decided, Behind
<1> QED
  BY <1>1, <1>2, <1>4, <1>5 DEF RuleInv

LEMMA TakeInv == ASSUME RuleInv, NEW g \in 0..1, Take(g) PROVE RuleInv'
<1> DEFINE n == shots[kicker]  own == goals[kicker]  other == goals[Rival(kicker)]
<1>1. /\ kicker \in Team /\ Rival(kicker) \in Team /\ Rival(kicker) # kicker
      /\ n \in Nat /\ own \in Nat /\ other \in Nat
      /\ own < n /\ Open(n - 1, own, other)
  BY Rivals DEF RuleInv, CountsOK, Take
<1>2. /\ goals'[kicker] = own + g /\ goals'[Rival(kicker)] = other
      /\ goals' \in [Team -> Nat] /\ kicker' = kicker /\ shots' = shots /\ phase' = "taken"
  BY <1>1 DEF RuleInv, CountsOK, Take
<1>3. CountsOK'
  <2>1. own + g <= n
    BY <1>1
  <2>2. Total' = Total
    BY <1>2 DEF Total
  <2> QED
    BY <1>1, <1>2, <2>1, <2>2 DEF RuleInv, CountsOK, Take
<1>4. /\ ~Decided(n - 1 + shots[Rival(kicker)], n - 1, own, shots[Rival(kicker)], other)
      /\ n - 1 + shots[Rival(kicker)] >= 10 =>
           own - other <= n - 1 - 5 /\ other - own <= shots[Rival(kicker)] - 5
  BY <1>1 DEF Open, Undecided, LeadOK
<1>5. CASE g = 0
  <2>1. own + g = own
    BY <1>1, <1>5
  <2> QED
    BY <1>1, <1>2, <1>3, <1>4, <2>1 DEF RuleInv, Open, Undecided, LeadOK
<1>6. CASE g = 1
  <2>1. own + g - 1 = own /\ own + g > 0
    BY <1>1, <1>6
  <2> QED
    BY <1>1, <1>2, <1>3, <1>4, <2>1 DEF RuleInv, Open, Undecided, LeadOK
<1> QED
  BY <1>5, <1>6

LEMMA VerdictInv == ASSUME RuleInv, Verdict(RuleSays) PROVE RuleInv'
<1>1. CountsOK'
  <2>1. Total' = Total
    BY DEF Total, Verdict
  <2> QED
    BY <2>1 DEF RuleInv, CountsOK, Verdict
<1>2. ~RuleSays => Open(shots[kicker], goals[kicker], goals[Rival(kicker)])
  BY SameVerdict DEF Verdict
<1> QED
  BY <1>1, <1>2 DEF RuleInv, Verdict, Open, Undecided, LeadOK

LEMMA NextShotInv == ASSUME RuleInv, NextShot PROVE RuleInv'
<1> DEFINE r == Rival(kicker)
           n == shots[kicker]  m == shots[r]  own == goals[kicker]  other == goals[r]
<1>1. /\ kicker \in Team /\ r \in Team /\ r # kicker /\ Rival(r) = kicker
      /\ n \in Nat /\ m \in Nat /\ own \in Nat /\ other \in Nat
      /\ own <= n /\ other <= m /\ n - m \in {0, 1}
      /\ Open(n, own, other) /\ Total \in 1..20
  BY Rivals DEF RuleInv, CountsOK, NextShot
<1>2. /\ kicker' = r /\ Rival(kicker') = kicker
      /\ shots'[r] = m + 1 /\ shots'[kicker] = n /\ shots' \in [Team -> Nat]
      /\ goals' = goals /\ phase' = "shot"
  BY <1>1 DEF RuleInv, CountsOK, NextShot
<1>3. Total = n + m /\ Total' = n + m + 1
  BY <1>1, <1>2, TwoTeams DEF Total, Team, Rival
<1>4. n + m # 20
  BY <1>1 DEF Open, Undecided, Decided
<1>5. CountsOK'
  BY <1>1, <1>2, <1>3, <1>4 DEF RuleInv, CountsOK
<1>6. ~Decided(m + n, m, other, n, own) /\ (m + n >= 10 => other - own <= m - 5 /\ own - other <= n - 5)
  <2>1. Decided(m + n, m, other, n, own) <=> Decided(n + m, n, own, m, other)
    <3>1. m + n = n + m
      BY <1>1
    <3> QED
      BY <1>1, <3>1, DecidedSymmetric
  <2> QED
    BY <1>1, <2>1 DEF Open, Undecided, LeadOK
<1>7. m + 1 - 1 = m /\ other < m + 1
  BY <1>1
<1>8. /\ shots'[kicker'] = m + 1 /\ shots'[kicker'] - 1 = m /\ shots'[Rival(kicker')] = n
      /\ goals'[kicker'] = other /\ goals'[Rival(kicker')] = own
  BY <1>1, <1>2
<1> HIDE DEF n, m, own, other
<1>9. other < shots'[kicker'] /\ Open(shots[kicker] - 1, goals[kicker], goals[Rival(kicker)])'
  <2>1. Undecided(shots[kicker] - 1, goals[kicker], goals[Rival(kicker)])'
    BY <1>6, <1>8 DEF Undecided
  <2>2. LeadOK(shots[kicker] - 1, goals[kicker], goals[Rival(kicker)])'
    BY <1>6, <1>8 DEF LeadOK
  <2> QED
    BY <1>7, <1>8, <2>1, <2>2 DEF Open
<1> QED
  BY <1>2, <1>5, <1>8, <1>9 DEF RuleInv

\* And step by step: the table's verdict is the rule's.
LEMMA RuleStep ==
  ASSUME RuleInv, [ByRuleNext]_vars
  PROVE  RuleInv' /\ [Next]_vars
<1>1. CASE FirstShot
  BY <1>1, FirstShotInv DEF Next, Play
<1>2. CASE NextShot
  BY <1>2, NextShotInv DEF Next, Play
<1>3. ASSUME NEW t \in Team, Toss(t) PROVE RuleInv' /\ Next
  BY <1>3, TossInv DEF Next, Play
<1>4. ASSUME NEW g \in 0..1, Take(g) PROVE RuleInv' /\ Next
  BY <1>4, TakeInv DEF Next, Play
<1>5. CASE Verdict(RuleSays)
  <2>1. RuleSays <=> IsDecided
    BY <1>5, SameVerdict DEF Verdict
  <2> QED
    BY <1>5, <2>1, VerdictInv DEF Next, Verdict
<1>6. CASE UNCHANGED vars
  BY <1>6 DEF vars, RuleInv, CountsOK, Open, Undecided, LeadOK, Total
<1> QED
  BY <1>1, <1>2, <1>3, <1>4, <1>5, <1>6 DEF ByRuleNext, Play

\* RuleInv is an invariant: the verdicts and shots keep the counts of the two teams
\* together (referee.py, the branch of STATE_FINISHED).
THEOREM RuleInvariant == ByRuleSpec => []RuleInv
<1>1. RuleInv /\ [ByRuleNext]_vars => RuleInv'
  BY RuleStep
<1> QED
  BY InitInv, <1>1, PTL DEF ByRuleSpec

\* The referee's table ends the shoot-out exactly when it is decided: the property
\* StopsWhenDecided, for any two teams (need_to_stop_penalty_shootout).
THEOREM TableIsFair == ByRuleSpec => StopsWhenDecided
<1>1. RuleInv /\ [ByRuleNext]_vars => [Next]_vars
  BY RuleStep
<1> QED
  BY RuleInvariant, <1>1, PTL DEF ByRuleSpec, StopsWhenDecided, Spec

============================================================================
