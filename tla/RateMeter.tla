----------------------------- MODULE RateMeter -----------------------------
(***************************************************************************)
(* What the server's limiter promises of each identity it counts, whatever *)
(* it remembers or forgets: a debt that grows by one token per admission,  *)
(* drains at a fixed rate and never exceeds the burst, and a bound on the  *)
(* live requests.  The identities of one admission are charged together or *)
(* not at all; a refusal is no step.                                       *)
(***************************************************************************)
EXTENDS Integers

CONSTANTS
    Key,        \* identities
    Bundle,     \* the sets of identities one admission may charge
    Rate,       \* Rate[k]: what drains from the debt of k per unit of time
    Capacity,   \* Capacity[k]: the burst of k
    Token,      \* the debt of one admission
    Limit       \* Limit[k]: live requests k may have

VARIABLES
    debt,       \* debt[k]: 0 when the bucket of k is full
    live        \* live[k]: requests admitted for k and not over

Init ==
    /\ debt = [k \in Key |-> 0]
    /\ live = [k \in Key |-> 0]

Admit(S) ==
    /\ \A k \in S : debt[k] + Token <= Capacity[k] /\ live[k] < Limit[k]
    /\ debt' = [k \in Key |-> IF k \in S THEN debt[k] + Token ELSE debt[k]]
    /\ live' = [k \in Key |-> IF k \in S THEN live[k] + 1 ELSE live[k]]

Leave(S) ==
    /\ \A k \in S : live[k] > 0
    /\ live' = [k \in Key |-> IF k \in S THEN live[k] - 1 ELSE live[k]]
    /\ UNCHANGED debt

Drain ==
    /\ debt' = [k \in Key |-> IF debt[k] > Rate[k] THEN debt[k] - Rate[k] ELSE 0]
    /\ UNCHANGED live

Next == (\E S \in Bundle : Admit(S) \/ Leave(S)) \/ Drain

Spec == Init /\ [][Next]_<<debt, live>>

=============================================================================
