---------------------------- MODULE Coordinator ----------------------------
(***************************************************************************)
(* The registry that the tabs of one browser share in localStorage         *)
(* (src/web/src/coordinator.ts): one entry per registered run, one rate    *)
(* record per endpoint-and-credential group, and a legacy global cooldown. *)
(*                                                                         *)
(* Every operation goes through Coordinator.change, which runs under the   *)
(* short WRITE_LOCK and ends in a single setItem, so each operation is one *)
(* atomic step here.  change() first prunes the entries whose job lock     *)
(* nobody holds and the rate records that are old and unused; "held" is    *)
(* the answer of navigator.locks.query.  An operation that throws writes   *)
(* nothing, pruning included.                                              *)
(***************************************************************************)
EXTENDS Integers

CONSTANTS
    Tab,        \* browser tabs; a tab is the "owner" UUID it draws when loaded
    Job,        \* translation tasks
    Group,      \* digests of endpoint + API key
    None,       \* no tab, no job
    GroupOf,    \* GroupOf[j]: the group job j registers under
    Interval,   \* Interval[j]: ceil(60000 / rpm) of job j
    RateTTL,    \* how long an unused rate record is kept (one day)
    Legacy      \* the cooldowns an old workspace may have left behind

ASSUME CoordinatorAssumption ==
    /\ None \notin Tab \cup Job
    /\ GroupOf \in [Job -> Group]
    /\ Interval \in [Job -> Nat]
    /\ RateTTL \in Nat
    \* rpm is at least 1, so an interval is at most a minute: less than a day
    /\ \A j \in Job : Interval[j] <= RateTTL
    /\ Legacy \subseteq Nat

VARIABLES
    runs,           \* state.runs: Job -> entry, NoRun when absent
    rates,          \* state.rates: Group -> [lastAt, nextAt], Unused when absent
    cooldownUntil,  \* state.cooldownUntil: set once, by the v1 migration
    now             \* Date.now()

registry == <<runs, rates, cooldownUntil>>

Phase == {"queued", "idle", "waiting", "requesting", "pausing"}
Run == [owner : Tab, phase : Phase, pauseRequested : BOOLEAN]
NoRun == [owner |-> None, phase |-> "none", pauseRequested |-> FALSE]
Unused == [lastAt |-> 0, nextAt |-> 0]

RegistryTypeOK ==
    /\ runs \in [Job -> Run \cup {NoRun}]
    /\ rates \in [Group -> [lastAt : Nat, nextAt : Nat]]
    /\ cooldownUntil \in Nat
    /\ now \in Nat

RegistryInit ==
    /\ runs = [j \in Job |-> NoRun]
    /\ rates = [g \in Group |-> Unused]
    /\ cooldownUntil \in Legacy
    /\ now = 1

-----------------------------------------------------------------------------
(* Coordinator.change: what every operation does before its own action.    *)

\* Fault: entries that only wait are taken for leftovers.
PrunedWaiting(held) ==
    [j \in Job |-> IF j \in held /\ runs[j].phase # "queued" THEN runs[j] ELSE NoRun]

\* Entries whose job lock nobody holds are dropped.
Pruned(held) == [j \in Job |-> IF j \in held THEN runs[j] ELSE NoRun]

\* Fault: the age of a record is counted from its last slot, not its deadline.
PrunedRatesByAge(held) ==
    [g \in Group |->
        IF /\ rates[g].lastAt < now - RateTTL
           /\ \A j \in held : GroupOf[j] = g => runs[j] = NoRun
        THEN Unused ELSE rates[g]]

\* A rate record is forgotten once it is older than a day and no remaining
\* entry uses its group.
PrunedRates(held) ==
    [g \in Group |->
        IF /\ rates[g].nextAt < now - RateTTL
           /\ \A j \in held : GroupOf[j] = g => runs[j] = NoRun
        THEN Unused ELSE rates[g]]

Owns(j, t) == runs[j].owner = t

Latest(a, b) == IF a >= b THEN a ELSE b

-----------------------------------------------------------------------------
(* The operations.                                                         *)

Snapshot(held) ==
    /\ runs' = Pruned(held)
    /\ rates' = PrunedRates(held)
    /\ UNCHANGED cooldownUntil

Register(j, t, paused, held) ==
    /\ runs' = [Pruned(held) EXCEPT
                  ![j] = [owner |-> t, phase |-> "queued", pauseRequested |-> paused]]
    /\ rates' = PrunedRates(held)
    /\ UNCHANGED cooldownUntil

\* activate: the entry is still the caller's, nobody asked it to pause, and no
\* other surviving entry is past the queue.
Overlap(j, held) == \E i \in held \ {j} : runs[i].phase \notin {"none", "queued"}
MayActivate(j, t, held) ==
    Owns(j, t) /\ ~runs[j].pauseRequested /\ ~Overlap(j, held)
Activate(j, t, held) ==
    /\ MayActivate(j, t, held)
    /\ runs' = [Pruned(held) EXCEPT ![j].phase = "idle"]
    /\ rates' = PrunedRates(held)
    /\ UNCHANGED cooldownUntil

\* Fault: publish writes the runtime's flag over the one on record.
PublishedOver(j, paused) == paused

\* publish: the runtime's phase and pause flag are merged into the entry; a
\* pause that either side knows of wins, and is the result.
Published(j, paused) == runs[j].pauseRequested \/ paused
PublishedPhase(p, paused) == IF p = "requesting" /\ paused THEN "pausing" ELSE p
Publish(j, t, p, paused, held) ==
    /\ Owns(j, t)
    /\ runs' = [Pruned(held) EXCEPT
                  ![j] = [owner |-> t,
                          phase |-> PublishedPhase(p, Published(j, paused)),
                          pauseRequested |-> Published(j, paused)]]
    /\ rates' = PrunedRates(held)
    /\ UNCHANGED cooldownUntil

\* Fault: pause sets the flag and leaves the phase.
PauseFlagOnly(j, held) ==
    /\ runs' = [i \in Job |->
                  IF i = j /\ Pruned(held)[j] # NoRun
                  THEN [runs[j] EXCEPT !.pauseRequested = TRUE]
                  ELSE Pruned(held)[i]]
    /\ rates' = PrunedRates(held)
    /\ UNCHANGED cooldownUntil

Pause(j, held) ==
    /\ runs' = [i \in Job |->
                  IF i = j /\ Pruned(held)[j] # NoRun
                  THEN [runs[j] EXCEPT !.pauseRequested = TRUE,
                                       !.phase = PublishedPhase(@, TRUE)]
                  ELSE Pruned(held)[i]]
    /\ rates' = PrunedRates(held)
    /\ UNCHANGED cooldownUntil

Release(j, t, held) ==
    /\ runs' = [i \in Job |-> IF i = j /\ Owns(j, t) THEN NoRun ELSE Pruned(held)[i]]
    /\ rates' = PrunedRates(held)
    /\ UNCHANGED cooldownUntil

\* Fault: the gap of the task that asks is forgotten.
DueByRecord(j) == Latest(rates[GroupOf[j]].nextAt, cooldownUntil)

\* reserve: the earliest time at which j may send.  A paused entry is never
\* granted a slot.
Due(j) ==
    LET rate == rates[GroupOf[j]]
    IN  Latest(rate.nextAt,
               Latest(IF rate.lastAt = 0 THEN 0 ELSE rate.lastAt + Interval[j], cooldownUntil))
MayReserve(j, t) == Owns(j, t) /\ runs[j].phase # "queued"
Granted(j, t) == MayReserve(j, t) /\ ~runs[j].pauseRequested /\ Due(j) <= now
Reserve(j, t, held) ==
    /\ Granted(j, t)
    /\ runs' = Pruned(held)
    /\ rates' = [PrunedRates(held) EXCEPT
                   ![GroupOf[j]] = [lastAt |-> now, nextAt |-> now + Interval[j]]]
    /\ UNCHANGED cooldownUntil

\* cooldown: ignored without a word when the entry is no longer the caller's.
Cooldown(j, t, until, held) ==
    /\ runs' = Pruned(held)
    /\ rates' = IF Owns(j, t)
                THEN [PrunedRates(held) EXCEPT ![GroupOf[j]].nextAt = Latest(@, until)]
                ELSE PrunedRates(held)
    /\ UNCHANGED cooldownUntil

=============================================================================
