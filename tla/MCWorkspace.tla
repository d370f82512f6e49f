---------------------------- MODULE MCWorkspace ----------------------------
(* Instances of Workspace for TLC.                                         *)
EXTENDS Workspace, TLC

CONSTANTS t1, t2, x, y, f, g

Symmetry == Permutations(Tab) \cup Permutations(Text) \cup Permutations(Conf)

\* No task is started while a clear waits to hear of the job locks: the longer way
\* to a stale copy, without that race.
Quiet == clearing # None => holder' = holder
QuietSpec == Init /\ [][Next /\ Quiet]_vars
=============================================================================
