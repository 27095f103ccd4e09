--------------------------- MODULE ShootoutByRule ---------------------------
(***************************************************************************)
(* A shoot-out that the table of the referee ends, for all 20 shots.       *)
(***************************************************************************)
EXTENDS Shootout

RuleSays == NeedToStop(Total, goals[kicker], goals[Rival(kicker)])

\* The shoot-out of the referee: NextShot follows a verdict to go on.
ByRuleNext == Play \/ Verdict(RuleSays)

ByRuleSpec == Init /\ [][ByRuleNext]_vars /\ WF_vars(ByRuleNext /\ phase # "start") /\ WF_vars(FirstShot)

\* The rule stops the shoot-out exactly when it is decided: never while the team
\* behind could still draw level in the series, never later (need_to_stop_penalty_shootout).
StopsWhenDecided == Spec

\* The inductive invariant behind it: the kicker is level with the other team or one
\* shot ahead, and before the current shot nothing was decided.
Undecided(n, own, other) ==
  ~Decided(n + shots[Rival(kicker)], n, own, shots[Rival(kicker)], other)

CountsOK ==
  /\ shots \in [Team -> Nat] /\ goals \in [Team -> Nat]
  /\ kicker \in Team
  /\ phase \in {"start", "shot", "taken", "counted", "over"}
  /\ goals[kicker] <= shots[kicker] /\ goals[Rival(kicker)] <= shots[Rival(kicker)]
  /\ IF phase = "start" THEN shots[kicker] = 0 /\ shots[Rival(kicker)] = 0
     ELSE /\ shots[kicker] - shots[Rival(kicker)] \in {0, 1}
          /\ Total \in 1..20

\* In the extended series, which begins level, a lead is at most its shots.
LeadOK(n, own, other) ==
  LET m == shots[Rival(kicker)]
  IN  n + m >= 10 => own - other <= n - 5 /\ other - own <= m - 5

Open(n, own, other) == Undecided(n, own, other) /\ LeadOK(n, own, other)

RuleInv ==
  LET own == goals[kicker]  other == goals[Rival(kicker)]  n == shots[kicker]
  IN  /\ CountsOK
      /\ phase = "shot"    => own < n /\ Open(n - 1, own, other)
      /\ phase = "taken"   => \/ own < n /\ Open(n - 1, own, other)
                              \/ own > 0 /\ Open(n - 1, own - 1, other)
      /\ phase = "counted" => Open(n, own, other)

\* Every shoot-out ends, at 20 shots at the latest.
ShootoutEnds == <>(phase = "over" /\ Total <= 20)

============================================================================
