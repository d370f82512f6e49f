----------------------------- MODULE Scheduler -----------------------------
(***************************************************************************)
(* Starting, queueing, running and pausing tasks from several tabs:        *)
(* startJob, pauseJob and reconcile of src/web/src/workspace.ts over the   *)
(* registry of Coordinator and two kinds of Web Locks.                     *)
(*                                                                         *)
(*  - muyu-translation-job:<id> is taken with ifAvailable and held for the *)
(*    whole of startJob, so a task has at most one worker: the state of    *)
(*    that worker is indexed by the task, holder says which tab it is in.  *)
(*  - muyu-translation-execution is granted in the order of the requests   *)
(*    and held while the task's chunks are sent.                           *)
(*                                                                         *)
(* The chunk loop is reduced to what the other tabs can see of it (module  *)
(* Runner has the rest): wait for a slot, publish, send, note Retry-After. *)
(***************************************************************************)
EXTENDS Coordinator

CONSTANTS
    MaxTime,    \* bound on the clock
    MaxWork,    \* blocks left to translate in a new task
    RetryAfter, \* the Retry-After delays a provider may answer with
    Faults      \* the tasks whose writes localStorage may refuse

ASSUME SchedulerAssumption ==
    /\ MaxTime \in Nat \ {0}
    /\ MaxWork \in Nat
    /\ RetryAfter \subseteq Nat \ {0}
    /\ Faults \subseteq Job

VARIABLES
    open,       \* tabs the user has not closed
    holder,     \* who holds each job lock
    pc,         \* where the worker of each task is
    paused,     \* runtime.pauseRequested of that worker (queueAbort with it)
    until,      \* the Retry-After deadline the worker has still to record
    work,       \* blocks left in the saved task
    execLock,   \* the task holding the execution lock
    ahead,      \* ahead[j]: the requests for it made before j's and still queued
    clearing,   \* the tab that clears: it holds the write lock meanwhile
    quiet,      \* history: the latest deadline recorded for each group
    grant       \* history: the last slot granted in each group

locks == <<holder, execLock, ahead, clearing>>
history == <<quiet, grant>>
vars == <<registry, now, open, locks, pc, paused, until, work, history>>

-----------------------------------------------------------------------------
Editing == {"editing"}
\* startJob up to the request for the execution lock, and its tail
Outside == {"claimed", "loaded", "enrolled", "closing"}
\* the callback that runs under the execution lock
Running == {"granted", "active", "loop", "waiting", "slot", "ready", "inflight", "failed", "ending", "released"}
\* between register and the first release
Registered == {"enrolled", "queued", "granted", "active", "loop", "waiting",
               "slot", "ready", "inflight", "failed", "ending"}
PC == {"off", "queued"} \cup Editing \cup Outside \cup Running

Held == {j \in Job : holder[j] # None}
HasWorker(j) == pc[j] \notin {"off", "editing"}

TypeOK ==
    /\ RegistryTypeOK
    /\ open \subseteq Tab
    /\ holder \in [Job -> Tab \cup {None}]
    /\ pc \in [Job -> PC]
    /\ paused \in [Job -> BOOLEAN]
    /\ until \in [Job -> Nat]
    /\ work \in [Job -> Nat]
    /\ execLock \in Job \cup {None}
    /\ ahead \in [Job -> SUBSET Job]
    /\ clearing \in Tab \cup {None}
    /\ quiet \in [Group -> Nat]
    /\ grant \in [Group -> [at : Nat, gap : Nat]]

Init ==
    /\ RegistryInit
    /\ open = Tab
    /\ holder = [j \in Job |-> None]
    /\ pc = [j \in Job |-> "off"]
    /\ paused = [j \in Job |-> FALSE]
    /\ until = [j \in Job |-> 0]
    /\ work = [j \in Job |-> MaxWork]
    /\ execLock = None
    /\ ahead = [j \in Job |-> {}]
    /\ clearing = None
    /\ quiet = [g \in Group |-> 0]
    /\ grant = [g \in Group |-> [at |-> 0, gap |-> 0]]

-----------------------------------------------------------------------------
(* Helpers.                                                                *)

Goto(j, l) == pc' = [pc EXCEPT ![j] = l]

\* The requests of the tasks in S leave the queue of the execution lock.
Dequeued(S) == [i \in Job |-> IF i \in S THEN {} ELSE ahead[i] \ S]

\* What a step of the worker leaves alone unless it says otherwise.
Quietly == UNCHANGED <<now, open, holder, clearing, work, quiet, grant>>

\* Leaving the execution-lock callback hands the lock back.
LeaveCallback(j) ==
    /\ Goto(j, "closing")
    /\ execLock' = None
    /\ UNCHANGED ahead

-----------------------------------------------------------------------------
(* startJob: from the click to the execution lock.                         *)

\* The worker is entered into workers and gets the job lock; a task that is
\* locked already is refused.
Start(t, j) ==
    /\ t \in open /\ holder[j] = None
    /\ holder' = [holder EXCEPT ![j] = t]
    /\ Goto(j, "claimed")
    /\ paused' = [paused EXCEPT ![j] = FALSE]
    /\ UNCHANGED <<registry, now, open, execLock, ahead, clearing, until, work, history>>

\* The stored task is read, and the key it will be sent with.
Load(j) ==
    /\ pc[j] = "claimed" /\ work[j] > 0
    /\ Goto(j, "loaded")
    /\ Quietly /\ UNCHANGED <<registry, execLock, ahead, paused, until>>

\* The worker, its flag and its job lock go together.
Dismiss(j) ==
    /\ Goto(j, "off")
    /\ holder' = [holder EXCEPT ![j] = None]
    /\ paused' = [paused EXCEPT ![j] = FALSE]

\* Deleted or complete task, missing key, failed save: the lock is let go
\* before anything is registered.
GiveUp(j) ==
    /\ pc[j] \in {"claimed", "loaded"}
    /\ Dismiss(j)
    /\ UNCHANGED <<registry, now, open, execLock, ahead, clearing, until, work, history>>

\* register, and the save that follows it: the save throws when another tab
\* cleared the browser since the task was read.
Enroll(j) ==
    /\ pc[j] = "loaded" /\ clearing = None
    /\ Register(j, holder[j], paused[j], Held)
    /\ Goto(j, IF work[j] > 0 THEN "enrolled" ELSE "closing")
    /\ Quietly /\ UNCHANGED <<execLock, ahead, paused, until>>

\* locks.request(EXECUTION_LOCK, { signal }); an aborted signal rejects it.
Enqueue(j) ==
    /\ pc[j] = "enrolled"
    /\ IF paused[j]
       THEN Goto(j, "closing") /\ UNCHANGED ahead
       ELSE /\ Goto(j, "queued")
            /\ ahead' = [ahead EXCEPT ![j] = {i \in Job : pc[i] = "queued"}]
    /\ Quietly /\ UNCHANGED <<registry, execLock, paused, until>>

\* The abort signal takes a queued request back.
AbortQueued(j) ==
    /\ pc[j] = "queued" /\ paused[j]
    /\ Goto(j, "closing")
    /\ ahead' = Dequeued({j})
    /\ Quietly /\ UNCHANGED <<registry, execLock, paused, until>>

\* Fault: the run begins as on a page that knows no execution lock.
GrantUnlocked(j) ==
    /\ pc[j] = "queued" /\ ~paused[j]
    /\ ahead' = Dequeued({j})
    /\ Goto(j, "active")
    /\ runs' = [runs EXCEPT ![j].phase = "idle"]
    /\ Quietly /\ UNCHANGED <<rates, cooldownUntil, execLock, paused, until>>

\* Fault: whoever asks first when the lock is free gets it.
GrantUnordered(j) ==
    /\ pc[j] = "queued" /\ execLock = None
    /\ ahead' = Dequeued({j})
    /\ Goto(j, "granted") /\ execLock' = j
    /\ Quietly /\ UNCHANGED <<registry, paused, until>>

\* The browser grants the lock; a pause seen by then ends the callback at once.
GrantLock(j) ==
    /\ pc[j] = "queued" /\ ahead[j] = {} /\ execLock = None
    /\ ahead' = Dequeued({j})
    /\ IF paused[j]
       THEN Goto(j, "closing") /\ UNCHANGED execLock
       ELSE Goto(j, "granted") /\ execLock' = j
    /\ Quietly /\ UNCHANGED <<registry, paused, until>>

ActivateRun(j) ==
    /\ pc[j] = "granted"
    /\ Activate(j, holder[j], Held)
    /\ Goto(j, "active")
    /\ Quietly /\ UNCHANGED <<execLock, ahead, paused, until>>

\* Fault: activate waits for a paused entry to be resumed instead of failing.
ActivateWaits(j) ==
    /\ pc[j] = "granted"
    /\ ~Owns(j, holder[j]) \/ Overlap(j, Held)
    /\ LeaveCallback(j)
    /\ Quietly /\ UNCHANGED <<registry, paused, until>>

ActivateRefused(j) ==
    /\ pc[j] = "granted"
    /\ ~MayActivate(j, holder[j], Held)
    /\ LeaveCallback(j)
    /\ Quietly /\ UNCHANGED <<registry, paused, until>>

-----------------------------------------------------------------------------
(* Under the execution lock.                                               *)

\* After the reconcile that follows activate.
BeginRun(j) ==
    /\ pc[j] = "active"
    /\ Goto(j, IF paused[j] THEN "ending" ELSE "loop")
    /\ Quietly /\ UNCHANGED <<registry, execLock, ahead, paused, until>>

\* Fault: a pause leaves the sleep until the slot alone.
InterruptAwake(j) ==
    /\ pc[j] \in {"loop", "slot", "ready"} /\ paused[j]
    /\ Goto(j, "ending")
    /\ Quietly /\ UNCHANGED <<registry, execLock, ahead, paused, until>>

\* The checks of pauseRequested: at the top of the loop, after the slot is
\* granted, and right before the request goes out; a sleep is aborted by it.
Interrupt(j) ==
    /\ pc[j] \in {"loop", "waiting", "slot", "ready"} /\ paused[j]
    /\ Goto(j, "ending")
    /\ Quietly /\ UNCHANGED <<registry, execLock, ahead, paused, until>>

\* reserve answers with a later time: the worker publishes that it waits, and
\* takes over a pause that is on record.
Defer(j) ==
    /\ pc[j] = "loop" /\ MayReserve(j, holder[j]) /\ ~Granted(j, holder[j])
    /\ Publish(j, holder[j], "waiting", paused[j], Held)
    /\ paused' = [paused EXCEPT ![j] = Published(j, paused[j])]
    /\ Goto(j, "waiting")
    /\ Quietly /\ UNCHANGED <<execLock, ahead, until>>

WakeUp(j) ==
    /\ pc[j] = "waiting" /\ ~paused[j] /\ Due(j) <= now
    /\ Goto(j, "loop")
    /\ Quietly /\ UNCHANGED <<registry, execLock, ahead, paused, until>>

ReserveSlot(j) ==
    /\ pc[j] = "loop"
    /\ Reserve(j, holder[j], Held)
    /\ Goto(j, "slot")
    /\ grant' = [grant EXCEPT ![GroupOf[j]] = [at |-> now, gap |-> Interval[j]]]
    /\ UNCHANGED <<now, open, locks, paused, until, work, quiet>>

PublishRequest(j) ==
    /\ pc[j] = "slot"
    /\ Publish(j, holder[j], "requesting", paused[j], Held)
    /\ paused' = [paused EXCEPT ![j] = Published(j, paused[j])]
    /\ Goto(j, "ready")
    /\ Quietly /\ UNCHANGED <<execLock, ahead, until>>

Send(j) ==
    /\ pc[j] = "ready" /\ ~paused[j]
    /\ Goto(j, "inflight")
    /\ Quietly /\ UNCHANGED <<registry, execLock, ahead, paused, until>>

\* A block came back and was saved; the last one ends the run.
AnswerBlock(j) ==
    /\ pc[j] = "inflight"
    /\ work' = [work EXCEPT ![j] = @ - 1]
    /\ Goto(j, IF work[j] > 1 THEN "loop" ELSE "ending")
    /\ UNCHANGED <<registry, now, open, locks, paused, until, history>>

\* The request failed: a retry, or the end of the run.
AnswerError(j) ==
    /\ pc[j] = "inflight"
    /\ \/ Goto(j, "loop") /\ UNCHANGED until
       \/ Goto(j, "ending") /\ UNCHANGED until
       \/ \E ra \in RetryAfter : Goto(j, "failed") /\ until' = [until EXCEPT ![j] = now + ra]
    /\ Quietly /\ UNCHANGED <<registry, execLock, ahead, paused>>

RecordCooldown(j) ==
    /\ pc[j] = "failed"
    /\ Cooldown(j, holder[j], until[j], Held)
    /\ quiet' = [quiet EXCEPT ![GroupOf[j]] = Latest(@, until[j])]
    /\ until' = [until EXCEPT ![j] = 0]
    /\ Goto(j, "loop") \/ Goto(j, "ending")
    /\ UNCHANGED <<now, open, locks, paused, work, grant>>

\* The release inside the callback, before the lock is handed back.
ReleaseRun(j) ==
    /\ pc[j] = "ending"
    /\ Release(j, holder[j], Held)
    /\ Goto(j, "released")
    /\ Quietly /\ UNCHANGED <<execLock, ahead, paused, until>>

UnlockExecution(j) ==
    /\ pc[j] = "released"
    /\ LeaveCallback(j)
    /\ Quietly /\ UNCHANGED <<registry, paused, until>>

\* The outer release, and the end of startJob: the job lock is let go.
Finish(j) ==
    /\ pc[j] = "closing"
    /\ Release(j, holder[j], Held)
    /\ Dismiss(j)
    /\ UNCHANGED <<now, open, execLock, ahead, clearing, until, work, history>>

\* localStorage refuses a write the worker was waiting for: a save or an
\* operation of the registry throws, and nothing of it is written.
StorageFails(j) ==
    /\ j \in Faults
    /\ \/ /\ pc[j] \in {"loaded", "enrolled"} /\ clearing = None
          /\ Goto(j, "closing") /\ UNCHANGED <<execLock, ahead, holder, paused>>
       \/ /\ pc[j] = "granted"
          /\ LeaveCallback(j) /\ UNCHANGED <<holder, paused>>
       \/ /\ pc[j] \in {"loop", "waiting", "slot", "failed"}
          /\ Goto(j, "ending") /\ UNCHANGED <<execLock, ahead, holder, paused>>
       \/ /\ pc[j] = "ending"
          /\ LeaveCallback(j) /\ UNCHANGED <<holder, paused>>
       \/ /\ pc[j] = "closing"
          /\ Dismiss(j)
          /\ UNCHANGED <<execLock, ahead>>
    /\ until' = [until EXCEPT ![j] = 0]
    /\ UNCHANGED <<registry, now, open, clearing, work, history>>

-----------------------------------------------------------------------------
(* Any tab, at any time.                                                   *)

\* reconcile: a snapshot, and the pauses on record reach this tab's workers.
Reconcile(t) ==
    /\ t \in open /\ clearing = None
    /\ Snapshot(Held)
    /\ paused' = [j \in Job |->
                    \/ paused[j]
                    \/ holder[j] = t /\ HasWorker(j) /\ runs[j].pauseRequested]
    /\ Quietly /\ UNCHANGED <<pc, execLock, ahead, until>>

\* reconcile cannot write: every worker of the tab is paused.
ReconcileFails(t) ==
    /\ Faults # {} /\ t \in open /\ clearing = None
    /\ paused' = [j \in Job |-> paused[j] \/ (holder[j] = t /\ HasWorker(j))]
    /\ Quietly /\ UNCHANGED <<registry, pc, execLock, ahead, until>>

\* A pause that the registry has and its worker has not: the storage event (in
\* the tab that asked, the end of pauseJob) calls reconcile, and when that falls
\* together with a reconcile under way, the timer of busy tabs does.
HearPause(t) ==
    /\ \E j \in Job : holder[j] = t /\ HasWorker(j) /\ runs[j].pauseRequested /\ ~paused[j]
    /\ Reconcile(t) \/ ReconcileFails(t)

\* pauseJob in the worker's own tab, before its write to the registry; also the
\* stop of a worker whose task another tab has cleared.  An answered reserve and
\* a request in flight are left to the worker's checks.
PauseWorker(j) ==
    /\ HasWorker(j)
    /\ paused' = [paused EXCEPT ![j] = TRUE]
    /\ Quietly /\ UNCHANGED <<registry, pc, execLock, ahead, until>>

\* pauseJob of any tab reaches the registry.
PauseOnRecord(j) ==
    /\ open # {} /\ clearing = None
    /\ Pause(j, Held)
    /\ Quietly /\ UNCHANGED <<pc, execLock, ahead, paused, until>>

\* updateJob, deleteJob and saveProfile hold the job lock for a moment.
Edit(t, j) ==
    /\ t \in open /\ holder[j] = None
    /\ holder' = [holder EXCEPT ![j] = t]
    /\ Goto(j, "editing")
    /\ UNCHANGED <<registry, now, open, execLock, ahead, clearing, paused, until, work, history>>

EndEdit(j) ==
    /\ pc[j] = "editing"
    /\ Goto(j, "off")
    /\ holder' = [holder EXCEPT ![j] = None]
    /\ UNCHANGED <<registry, now, open, execLock, ahead, clearing, paused, until, work, history>>

\* A tab is closed or crashes: the browser releases its locks and takes back
\* its requests; what it had registered stays behind.
Close(t) ==
    LET gone == {j \in Job : holder[j] = t}
    IN  /\ t \in open
        /\ open' = open \ {t}
        /\ holder' = [j \in Job |-> IF j \in gone THEN None ELSE holder[j]]
        /\ pc' = [j \in Job |-> IF j \in gone THEN "off" ELSE pc[j]]
        /\ paused' = [j \in Job |-> j \notin gone /\ paused[j]]
        /\ until' = [j \in Job |-> IF j \in gone THEN 0 ELSE until[j]]
        /\ execLock' = IF execLock \in gone THEN None ELSE execLock
        /\ ahead' = Dequeued(gone)
        /\ clearing' = IF clearing = t THEN None ELSE clearing
        /\ UNCHANGED <<registry, now, work, history>>

\* clearWorkspace, under the write lock, asks for the job locks that are held.
\* The answer takes time: a task may be started before the removal, though not
\* registered, since that needs the write lock.
AskHeld(t) ==
    /\ t \in open /\ clearing = None /\ Held = {}
    /\ clearing' = t
    /\ UNCHANGED <<registry, now, open, holder, execLock, ahead, pc, paused, until, work, history>>

\* Nobody held a lock and this tab is not busy: the registry goes with everything
\* else, and the rate records with it.
ClearWorkspace(t) ==
    /\ clearing = t
    /\ \A j \in Job : holder[j] = t => ~HasWorker(j)
    /\ clearing' = None
    /\ runs' = [j \in Job |-> NoRun]
    /\ rates' = [g \in Group |-> Unused]
    /\ cooldownUntil' = 0
    /\ work' = [j \in Job |-> 0]
    /\ quiet' = [g \in Group |-> 0]
    /\ grant' = [g \in Group |-> [at |-> 0, gap |-> 0]]
    /\ UNCHANGED <<now, open, holder, execLock, ahead, pc, paused, until>>

\* The tab is busy by then, or the storage fails.
ForgoClear(t) ==
    /\ clearing = t
    /\ clearing' = None
    /\ UNCHANGED <<registry, now, open, holder, execLock, ahead, pc, paused, until, work, history>>

Tick ==
    /\ now < MaxTime
    /\ now' = now + 1
    /\ UNCHANGED <<registry, open, locks, pc, paused, until, work, history>>

-----------------------------------------------------------------------------
Worker(j) ==
    \/ GiveUp(j) \/ Load(j) \/ Enroll(j) \/ Enqueue(j) \/ AbortQueued(j)
    \/ ActivateRun(j) \/ ActivateRefused(j) \/ BeginRun(j) \/ Interrupt(j)
    \/ Defer(j) \/ ReserveSlot(j) \/ PublishRequest(j) \/ Send(j)
    \/ RecordCooldown(j) \/ ReleaseRun(j) \/ UnlockExecution(j) \/ Finish(j)
Answer(j) == AnswerBlock(j) \/ AnswerError(j)

Next ==
    \/ \E j \in Job : \/ Worker(j) \/ WakeUp(j) \/ GrantLock(j) \/ Answer(j) \/ StorageFails(j)
                      \/ PauseWorker(j) \/ PauseOnRecord(j) \/ EndEdit(j)
    \/ \E t \in Tab, j \in Job : Start(t, j) \/ Edit(t, j)
    \/ \E t \in Tab : \/ Reconcile(t) \/ ReconcileFails(t) \/ Close(t)
                      \/ AskHeld(t) \/ ClearWorkspace(t) \/ ForgoClear(t)
    \/ Tick

Spec == Init /\ [][Next]_vars

\* Workers take their steps, the browser grants a free lock, a request comes
\* back (translate gives up on it after timeoutSeconds) and a pause on record is
\* heard.  Nothing is assumed of users, of the clock and the sleeps it ends, or
\* of what a request brings back.
Fairness ==
    /\ \A j \in Job : WF_vars(Worker(j) \/ GrantLock(j) \/ Answer(j))
    /\ \A t \in Tab : WF_vars(HearPause(t))
FairSpec == Spec /\ Fairness

\* No sleep until a slot lasts for ever.
WaitsEnd == \A j \in Job : []<>(pc[j] # "waiting")

\* The provider does not refuse for ever: of the requests of a task that never
\* stop, some bring a block back.
ProviderAnswers == \A j \in Job : SF_vars(AnswerBlock(j))

-----------------------------------------------------------------------------
(* Safety.                                                                 *)

\* What the invariants below rest on: a task has a worker, or is being edited,
\* exactly while its job lock is held by an open tab; the code under the
\* execution lock runs for its holder alone; only requests still queued are ahead
\* of a queued request; nothing is registered while a tab clears; a run has blocks
\* left to send.
LocksAgree ==
    \A j \in Job : /\ pc[j] = "off" <=> holder[j] = None
                   /\ pc[j] # "off" => holder[j] \in open
                   /\ pc[j] \in Running <=> execLock = j
                   /\ pc[j] # "queued" => ahead[j] = {}
                   /\ \A i \in ahead[j] : pc[i] = "queued"
                   /\ clearing # None => pc[j] \in {"off", "editing", "claimed", "loaded"}
WorkLeft ==
    \A j \in Job : pc[j] \in Registered \ {"ending"} => work[j] > 0

\* At most one model request is outstanding in the whole browser, whatever
\* tabs start, crash, pause and fail (EXECUTION_LOCK around runner.run).
OneRequest == \A i, j \in Job : pc[i] = "inflight" /\ pc[j] = "inflight" => i = j

\* The entry of a live worker is its own and is never pruned from under it, so
\* publish, reserve and cooldown of a running task are never refused; its phase
\* tells the other tabs whether it still queues.
RegistryTruth ==
    \A j \in Job : pc[j] \in Registered =>
        /\ Owns(j, holder[j])
        /\ runs[j].phase = "queued" <=> pc[j] \in {"enrolled", "queued", "granted"}

\* Inductive together (SchedulerProofs): an entry survives pruning because its
\* lock is held, and the lock is held because the worker is alive.
IInv == TypeOK /\ LocksAgree /\ WorkLeft /\ RegistryTruth

\* While a request is out, the phase shown in every tab is "requesting", or
\* "pausing" exactly when a pause is on record.
PhaseTruth ==
    \A j \in Job : pc[j] \in {"ready", "inflight"} =>
        runs[j].phase = IF runs[j].pauseRequested THEN "pausing" ELSE "requesting"

\* What coordinator.ts:125 says of the overlap check of activate: it is there for
\* older pages, which use no execution lock, so it turns no task of these pages
\* away.  It does: see MCSchedulerOverlap.
OverlapIsOld == \A j \in Job : pc[j] = "granted" => ~Overlap(j, Held)

\* Slots of one credential are spaced by the longer of the two intervals
\* concerned, and none is granted before a Retry-After deadline on record: not
\* to another task, not from another tab, not after old records are dropped.
SlotsSpaced ==
    [][\A j \in Job : pc[j] = "loop" /\ pc'[j] = "slot" =>
          LET g == GroupOf[j]
          IN  /\ now >= quiet[g]
              /\ grant[g].at # 0 => now >= grant[g].at + Latest(Interval[j], grant[g].gap)]_vars

\* Why that is so: a rate record stands for the last slot and the latest deadline
\* of its group until both are over.
StandsFor(rate, deadline, slot, time) ==
    /\ deadline <= Latest(time, rate.nextAt)
    /\ \/ slot.at = 0
       \/ rate.lastAt = slot.at /\ slot.at + slot.gap <= rate.nextAt
       \/ slot.at + Latest(slot.gap, RateTTL) <= time
RatesRecorded == \A g \in Group : StandsFor(rates[g], quiet[g], grant[g], now)

\* A pause on record stays on record until its run is released, whatever the
\* worker publishes afterwards; a new run starts clean.
PauseKept ==
    [][\A j \in Job : runs[j].pauseRequested /\ ~runs'[j].pauseRequested =>
          runs'[j] = NoRun \/ pc[j] = "loaded"]_vars

-----------------------------------------------------------------------------
(* Liveness.                                                               *)

\* A running task that is asked to pause, from any tab, leaves the execution
\* lock: also while it sleeps until its slot or a Retry-After deadline, however
\* far that is, and although no request ever succeeds.
PauseTakesEffect ==
    \A j \in Job : (pc[j] \in Running /\ runs[j].pauseRequested) ~> (pc[j] \notin Running)

\* A queued task gets its turn or leaves the queue, if the provider answers and
\* waits end.
QueueMoves == ProviderAnswers /\ WaitsEnd => \A j \in Job : (pc[j] = "queued") ~> (pc[j] # "queued")

-----------------------------------------------------------------------------
(* Refinement.                                                             *)

StageOf(j) ==
    CASE pc[j] = "queued" -> "waiting"
      [] pc[j] = "inflight" -> "calling"
      [] pc[j] \in Running \ {"inflight"} -> "running"
      [] OTHER -> "idle"

Queue == INSTANCE TranslationQueue WITH
    stage <- [j \in Job |-> StageOf(j)],
    before <- ahead

\* The tabs together behave as one queue that runs one task at a time.
ImplementsQueue == Queue!Spec

=============================================================================
