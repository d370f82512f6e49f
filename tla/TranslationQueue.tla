-------------------------- MODULE TranslationQueue --------------------------
(***************************************************************************)
(* What the multi-tab scheduler promises its users, with no tabs, locks,   *)
(* registry or storage: tasks wait in the order in which they asked, one   *)
(* task runs at a time, and a model request is outstanding only while its  *)
(* task runs.  Scheduler implements this module.                           *)
(***************************************************************************)
CONSTANT Job

VARIABLES
    stage,      \* what each task is doing
    before      \* before[j]: the tasks still waiting that asked before j

vars == <<stage, before>>

Stage == {"idle", "waiting", "running", "calling"}
Waiting == {j \in Job : stage[j] = "waiting"}
Busy == {j \in Job : stage[j] \in {"running", "calling"}}

Init ==
    /\ stage = [j \in Job |-> "idle"]
    /\ before = [j \in Job |-> {}]

Join(j) ==
    /\ stage[j] = "idle"
    /\ stage' = [stage EXCEPT ![j] = "waiting"]
    /\ before' = [before EXCEPT ![j] = Waiting]

\* The task at the head of the line starts when nothing is running.
Admit(j) ==
    /\ stage[j] = "waiting" /\ before[j] = {} /\ Busy = {}
    /\ stage' = [stage EXCEPT ![j] = "running"]
    /\ before' = [i \in Job |-> before[i] \ {j}]

Call(j) ==
    /\ stage[j] = "running"
    /\ stage' = [stage EXCEPT ![j] = "calling"]
    /\ UNCHANGED before

Return(j) ==
    /\ stage[j] = "calling"
    /\ stage' = [stage EXCEPT ![j] = "running"]
    /\ UNCHANGED before

\* Tasks leave at any point, several at once when the tab they are in closes.
Leave(S) ==
    /\ stage' = [j \in Job |-> IF j \in S THEN "idle" ELSE stage[j]]
    /\ before' = [j \in Job |-> IF j \in S THEN {} ELSE before[j] \ S]

Next ==
    \/ \E j \in Job : Join(j) \/ Admit(j) \/ Call(j) \/ Return(j)
    \/ \E S \in SUBSET Job : Leave(S)

Spec == Init /\ [][Next]_vars

=============================================================================
