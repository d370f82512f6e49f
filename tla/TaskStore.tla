----------------------------- MODULE TaskStore -----------------------------
(***************************************************************************)
(* What the tabs together promise about one stored task, as if there were  *)
(* a single copy of it: blocks are added one at a time at the end, a       *)
(* correction changes one finished block, the settings change alone, and   *)
(* nothing that was stored is changed by anything else.                    *)
(*                                                                         *)
(* Workspace implements this with a copy in every tab.                     *)
(***************************************************************************)
EXTENDS Naturals

CONSTANTS Blocks, Text, Conf, None

VARIABLES
    task,       \* None, or [done, text, conf]
    changes     \* what the user has changed by hand so far

vars == <<task, changes>>

Init ==
    /\ changes = 0
    /\ task \in {None} \cup [done : {0}, text : {[c \in 1 .. Blocks |-> None]}, conf : Conf]

Present == task # None

\* A task is created, or comes back from a backup with what it had by then.
Add ==
    /\ ~Present
    /\ \E d \in 0 .. Blocks, f \in Conf : \E x \in [1 .. d -> Text] :
          task' = [done |-> d, conf |-> f,
                   text |-> [c \in 1 .. Blocks |-> IF c <= d THEN x[c] ELSE None]]
    /\ UNCHANGED changes

\* A checkpoint adds the next block, and touches nothing else.
Extend ==
    /\ Present /\ task.done < Blocks
    /\ \E v \in Text : task' = [task EXCEPT !.done = @ + 1, !.text[task.done + 1] = v]
    /\ UNCHANGED changes

Correct ==
    /\ Present
    /\ \E c \in 1 .. task.done, v \in Text : task' = [task EXCEPT !.text[c] = v]
    /\ changes' = changes + 1

Configure ==
    /\ Present
    /\ \E f \in Conf : task' = [task EXCEPT !.conf = f]
    /\ changes' = changes + 1

Remove == Present /\ task' = None /\ UNCHANGED changes

Next == Add \/ Extend \/ Correct \/ Configure \/ Remove

Spec == Init /\ [][Next]_vars

=============================================================================
