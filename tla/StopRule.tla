------------------------------ MODULE StopRule ------------------------------
(***************************************************************************)
(* When the shoot-out is over: the rule of the referee, a table by the     *)
(* number of shots taken, and what it is a table of.  A shoot-out has      *)
(* series of five shots for each team, the regular and the extended one.   *)
(***************************************************************************)
EXTENDS Integers

Abs(n) == IF n < 0 THEN -n ELSE n

\* Mutant of NeedToStop: after seven shots a lead of two ends it, whoever leads.
StopWhoeverLeads(count, kicker, other) ==
  LET diff  == Abs(kicker - other)
      shot  == count % 10
      leads == kicker >= other
  IN  \/ count = 20
      \/ count = 10 /\ diff > 0
      \/ shot = 6 /\ diff = 3
      \/ shot = 7 /\ diff \in {2, 3}
      \/ shot = 8 /\ diff = 2
      \/ shot = 9 /\ (diff = 2 \/ (diff = 1 /\ ~leads))

\* need_to_stop_penalty_shootout: count shots have been taken, the team that took the
\* last one has kicker goals and the other team has other.
NeedToStop(count, kicker, other) ==
  LET diff  == Abs(kicker - other)
      shot  == count % 10
      leads == kicker >= other
  IN  \/ count = 20
      \/ count = 10 /\ diff > 0
      \/ shot = 6 /\ diff = 3
      \/ shot = 7 /\ (diff = 3 \/ (diff = 2 /\ ~leads))
      \/ shot = 8 /\ diff = 2
      \/ shot = 9 /\ (diff = 2 \/ (diff = 1 /\ ~leads))

\* The team that has taken n of count shots and scored own goals cannot draw level
\* within this series any more; or both series are over.
Behind(count, n, own, other) ==
  own + ((IF count <= 10 THEN 5 ELSE 10) - n) < other

Decided(count, n1, goals1, n2, goals2) ==
  \/ count = 20
  \/ Behind(count, n1, goals1, goals2)
  \/ Behind(count, n2, goals2, goals1)

============================================================================
