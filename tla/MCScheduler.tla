---------------------------- MODULE MCScheduler ----------------------------
(* Instances of Scheduler for TLC.                                         *)
EXTENDS Scheduler

CONSTANTS t1, t2, t3, j1, j2, j3, g1

\* Every task uses one credential; j1 and j2 disagree on its rate.
OneGroup == [j \in Job |-> g1]
NoInterval == [j \in Job |-> 0]
TwoRates == [j \in Job |-> IF j = j1 THEN 1 ELSE 2]

=============================================================================
