-------------------------- MODULE SchedulerProofs --------------------------
(***************************************************************************)
(* Theorems about Scheduler, for any tabs, tasks, credentials, intervals   *)
(* and bounds.                                                             *)
(***************************************************************************)
EXTENDS Scheduler, TLAPS

USE CoordinatorAssumption, SchedulerAssumption

-----------------------------------------------------------------------------
(* Lemmas about the registry.                                              *)

\* Pruning keeps the registry well typed, and keeps the entries whose job lock
\* is held (coordinator.ts 80-90).
LEMMA PruneFacts ==
    ASSUME RegistryTypeOK, NEW held \in SUBSET Job
    PROVE  /\ Pruned(held) \in [Job -> Run \cup {NoRun}]
           /\ PrunedRates(held) \in [Group -> [lastAt : Nat, nextAt : Nat]]
           /\ \A j \in held : Pruned(held)[j] = runs[j]
           /\ \A j \in Job \ held : Pruned(held)[j] = NoRun
BY DEF RegistryTypeOK, Pruned, PrunedRates, Unused

\* Every operation of the registry leaves it well typed.
LEMMA SnapshotTypes ==
    ASSUME RegistryTypeOK, UNCHANGED now, NEW held \in SUBSET Job, Snapshot(held)
    PROVE  RegistryTypeOK'
BY PruneFacts DEF Snapshot, RegistryTypeOK

LEMMA RegisterTypes ==
    ASSUME RegistryTypeOK, UNCHANGED now, NEW held \in SUBSET Job,
           NEW j \in Job, NEW t \in Tab, NEW b \in BOOLEAN, Register(j, t, b, held)
    PROVE  RegistryTypeOK'
<1>1. [owner |-> t, phase |-> "queued", pauseRequested |-> b] \in Run
  BY DEF Run, Phase
<1> QED BY <1>1, PruneFacts DEF Register, RegistryTypeOK

LEMMA ActivateTypes ==
    ASSUME RegistryTypeOK, UNCHANGED now, NEW held \in SUBSET Job,
           NEW j \in held, NEW t \in Tab, Activate(j, t, held)
    PROVE  RegistryTypeOK'
<1>1. runs[j] \in Run /\ Pruned(held)[j] = runs[j]
  BY PruneFacts DEF Activate, MayActivate, Owns, RegistryTypeOK, NoRun
<1>2. [Pruned(held) EXCEPT ![j].phase = "idle"] \in [Job -> Run \cup {NoRun}]
  BY <1>1, PruneFacts DEF Run, Phase
<1> QED BY <1>2, PruneFacts DEF Activate, RegistryTypeOK

LEMMA PublishTypes ==
    ASSUME RegistryTypeOK, UNCHANGED now, NEW held \in SUBSET Job, NEW j \in Job,
           NEW t \in Tab, NEW p \in Phase, NEW b \in BOOLEAN, Publish(j, t, p, b, held)
    PROVE  RegistryTypeOK' /\ Published(j, b) \in BOOLEAN
<1>1. Published(j, b) \in BOOLEAN
  BY DEF Published
<1>2. [owner |-> t, phase |-> PublishedPhase(p, Published(j, b)),
       pauseRequested |-> Published(j, b)] \in Run
  BY <1>1 DEF Run, Phase, PublishedPhase
<1> QED BY <1>1, <1>2, PruneFacts DEF Publish, RegistryTypeOK

LEMMA PauseTypes ==
    ASSUME RegistryTypeOK, UNCHANGED now, NEW held \in SUBSET Job,
           NEW j \in Job, Pause(j, held)
    PROVE  RegistryTypeOK'
<1>1. Pruned(held)[j] # NoRun => runs[j] \in Run
  BY PruneFacts DEF RegistryTypeOK, Pruned
<1>2. runs[j] \in Run => [runs[j] EXCEPT !.pauseRequested = TRUE,
                                         !.phase = PublishedPhase(@, TRUE)] \in Run
  BY DEF Run, Phase, PublishedPhase
<1> QED BY <1>1, <1>2, PruneFacts DEF Pause, RegistryTypeOK

LEMMA ReleaseTypes ==
    ASSUME RegistryTypeOK, UNCHANGED now, NEW held \in SUBSET Job,
           NEW j \in Job, NEW t \in Tab, Release(j, t, held)
    PROVE  RegistryTypeOK'
BY PruneFacts DEF Release, RegistryTypeOK

LEMMA ReserveTypes ==
    ASSUME RegistryTypeOK, UNCHANGED now, NEW held \in SUBSET Job,
           NEW j \in Job, NEW t \in Tab, Reserve(j, t, held)
    PROVE  RegistryTypeOK'
BY PruneFacts DEF Reserve, RegistryTypeOK

LEMMA CooldownTypes ==
    ASSUME RegistryTypeOK, UNCHANGED now, NEW held \in SUBSET Job,
           NEW j \in Job, NEW t \in Tab, NEW u \in Nat, Cooldown(j, t, u, held)
    PROVE  RegistryTypeOK'
BY PruneFacts DEF Cooldown, RegistryTypeOK, Latest

\* Locks are handed over as LocksAgree says by every step.
LEMMA LocksStep == IInv /\ [Next]_vars => LocksAgree'
<1> SUFFICES ASSUME IInv, [Next]_vars PROVE LocksAgree'
  OBVIOUS
<1> USE DEF IInv
<1>1. ASSUME NEW j \in Job, GiveUp(j) PROVE LocksAgree'
  BY <1>1 DEF GiveUp, Dismiss, LocksAgree, TypeOK, Goto, Running, Quietly
<1>2. ASSUME NEW j \in Job, Enroll(j) PROVE LocksAgree'
  BY <1>2 DEF Enroll, LocksAgree, TypeOK, Goto, Running, Quietly
<1>3. ASSUME NEW j \in Job, Enqueue(j) PROVE LocksAgree'
  BY <1>3 DEF Enqueue, LocksAgree, TypeOK, Goto, Running, Quietly
<1>4. ASSUME NEW j \in Job, AbortQueued(j) PROVE LocksAgree'
  BY <1>4 DEF AbortQueued, LocksAgree, TypeOK, Goto, Running, Dequeued, Quietly
<1>5. ASSUME NEW j \in Job, GrantLock(j) PROVE LocksAgree'
  BY <1>5 DEF GrantLock, LocksAgree, TypeOK, Goto, Running, Dequeued, Quietly
<1>6. ASSUME NEW j \in Job, ActivateRun(j) PROVE LocksAgree'
  BY <1>6 DEF ActivateRun, LocksAgree, TypeOK, Goto, Running, Quietly
<1>7. ASSUME NEW j \in Job, ActivateRefused(j) PROVE LocksAgree'
  BY <1>7 DEF ActivateRefused, LocksAgree, TypeOK, Goto, Running, LeaveCallback, Quietly
<1>8. ASSUME NEW j \in Job, BeginRun(j) PROVE LocksAgree'
  BY <1>8 DEF BeginRun, LocksAgree, TypeOK, Goto, Running, Quietly
<1>9. ASSUME NEW j \in Job, Interrupt(j) PROVE LocksAgree'
  BY <1>9 DEF Interrupt, LocksAgree, TypeOK, Goto, Running, Quietly
<1>10. ASSUME NEW j \in Job, Defer(j) PROVE LocksAgree'
  BY <1>10 DEF Defer, LocksAgree, TypeOK, Goto, Running, Quietly
<1>11. ASSUME NEW j \in Job, WakeUp(j) PROVE LocksAgree'
  BY <1>11 DEF WakeUp, LocksAgree, TypeOK, Goto, Running, Quietly
<1>12. ASSUME NEW j \in Job, ReserveSlot(j) PROVE LocksAgree'
  BY <1>12 DEF ReserveSlot, LocksAgree, TypeOK, Goto, Running, Quietly, locks
<1>13. ASSUME NEW j \in Job, PublishRequest(j) PROVE LocksAgree'
  BY <1>13 DEF PublishRequest, LocksAgree, TypeOK, Goto, Running, Quietly
<1>14. ASSUME NEW j \in Job, Send(j) PROVE LocksAgree'
  BY <1>14 DEF Send, LocksAgree, TypeOK, Goto, Running, Quietly
<1>15. ASSUME NEW j \in Job, AnswerBlock(j) PROVE LocksAgree'
  BY <1>15 DEF AnswerBlock, LocksAgree, TypeOK, Goto, Running, Quietly, locks
<1>16. ASSUME NEW j \in Job, AnswerError(j) PROVE LocksAgree'
  BY <1>16 DEF AnswerError, LocksAgree, TypeOK, Goto, Running, Quietly
<1>17. ASSUME NEW j \in Job, RecordCooldown(j) PROVE LocksAgree'
  BY <1>17 DEF RecordCooldown, LocksAgree, TypeOK, Goto, Running, Quietly, locks
<1>18. ASSUME NEW j \in Job, ReleaseRun(j) PROVE LocksAgree'
  BY <1>18 DEF ReleaseRun, LocksAgree, TypeOK, Goto, Running, Quietly
<1>19. ASSUME NEW j \in Job, UnlockExecution(j) PROVE LocksAgree'
  BY <1>19 DEF UnlockExecution, LocksAgree, TypeOK, Goto, Running, LeaveCallback, Quietly
<1>20. ASSUME NEW j \in Job, Finish(j) PROVE LocksAgree'
  BY <1>20 DEF Finish, Dismiss, LocksAgree, TypeOK, Goto, Running, Quietly
<1>21. ASSUME NEW j \in Job, StorageFails(j) PROVE LocksAgree'
  <2>1. /\ ahead' = ahead /\ open' = open /\ clearing' = clearing
        /\ pc \in [Job -> PC] /\ holder \in [Job -> Tab \cup {None}]
    BY <1>21 DEF StorageFails, Dismiss, LeaveCallback, TypeOK
  <2>2. CASE /\ pc[j] \in {"granted", "ending"}
             /\ pc' = [pc EXCEPT ![j] = "closing"] /\ execLock' = None /\ holder' = holder
    BY <2>1, <2>2 DEF LocksAgree, TypeOK, Running
  <2>3. ASSUME NEW l \in {"closing", "ending"}, pc' = [pc EXCEPT ![j] = l],
               execLock' = execLock, holder' = holder, pc[j] \notin {"off", "queued"},
               pc[j] \in Running <=> l \in Running,
               pc[j] \in {"off", "editing", "claimed", "loaded"} => clearing = None
        PROVE  LocksAgree'
    BY <2>1, <2>3 DEF LocksAgree, TypeOK
  <2>4. CASE /\ pc[j] = "closing" /\ pc' = [pc EXCEPT ![j] = "off"]
             /\ holder' = [holder EXCEPT ![j] = None] /\ execLock' = execLock
    BY <2>1, <2>4 DEF LocksAgree, TypeOK, Running
  <2>5. \/ /\ pc[j] \in {"granted", "ending"}
           /\ pc' = [pc EXCEPT ![j] = "closing"] /\ execLock' = None /\ holder' = holder
        \/ /\ pc[j] \in {"loaded", "enrolled"} /\ clearing = None
           /\ pc' = [pc EXCEPT ![j] = "closing"] /\ execLock' = execLock /\ holder' = holder
        \/ /\ pc[j] \in {"loop", "waiting", "slot", "failed"}
           /\ pc' = [pc EXCEPT ![j] = "ending"] /\ execLock' = execLock /\ holder' = holder
        \/ /\ pc[j] = "closing" /\ pc' = [pc EXCEPT ![j] = "off"]
           /\ holder' = [holder EXCEPT ![j] = None] /\ execLock' = execLock
    BY <1>21 DEF StorageFails, Dismiss, Goto, LeaveCallback
  <2>6. CASE /\ pc[j] \in {"loaded", "enrolled"} /\ clearing = None
             /\ pc' = [pc EXCEPT ![j] = "closing"] /\ execLock' = execLock /\ holder' = holder
    BY <2>6, <2>3 DEF Running
  <2>7. CASE /\ pc[j] \in {"loop", "waiting", "slot", "failed"}
             /\ pc' = [pc EXCEPT ![j] = "ending"] /\ execLock' = execLock /\ holder' = holder
    BY <2>7, <2>3 DEF Running
  <2> QED BY <2>2, <2>4, <2>5, <2>6, <2>7
<1>22. ASSUME NEW j \in Job, PauseWorker(j) PROVE LocksAgree'
  BY <1>22 DEF PauseWorker, LocksAgree, TypeOK, Goto, Running, Quietly
<1>23. ASSUME NEW j \in Job, PauseOnRecord(j) PROVE LocksAgree'
  BY <1>23 DEF PauseOnRecord, LocksAgree, TypeOK, Goto, Running, Quietly
<1>24. ASSUME NEW j \in Job, EndEdit(j) PROVE LocksAgree'
  BY <1>24 DEF EndEdit, LocksAgree, TypeOK, Goto, Running, Quietly
<1>25. ASSUME NEW t \in Tab, NEW j \in Job, Start(t, j) PROVE LocksAgree'
  BY <1>25 DEF Start, LocksAgree, TypeOK, Goto, Running, Quietly
<1>26. ASSUME NEW t \in Tab, NEW j \in Job, Edit(t, j) PROVE LocksAgree'
  BY <1>26 DEF Edit, LocksAgree, TypeOK, Goto, Running, Quietly
<1>27. ASSUME NEW t \in Tab, Reconcile(t) PROVE LocksAgree'
  BY <1>27 DEF Reconcile, LocksAgree, TypeOK, Goto, Running, Quietly
<1>28. ASSUME NEW t \in Tab, ReconcileFails(t) PROVE LocksAgree'
  BY <1>28 DEF ReconcileFails, LocksAgree, TypeOK, Goto, Running, Quietly
<1>29. ASSUME NEW t \in Tab, Close(t) PROVE LocksAgree'
  BY <1>29 DEF Close, LocksAgree, TypeOK, Goto, Running, Dequeued, Quietly, Editing
<1>30. ASSUME NEW t \in Tab, ClearWorkspace(t) PROVE LocksAgree'
  BY <1>30 DEF ClearWorkspace, LocksAgree, TypeOK, Goto, Running, Quietly, locks
<1>31. CASE Tick
  BY <1>31 DEF Tick, LocksAgree, TypeOK, Goto, Running, Quietly, locks
<1>32. CASE UNCHANGED vars
  BY <1>32 DEF vars, registry, locks, history, LocksAgree, TypeOK, Goto, Running, Quietly
<1>33. ASSUME NEW j \in Job, Load(j) PROVE LocksAgree'
  BY <1>33 DEF Load, LocksAgree, TypeOK, Goto, Running, Quietly
<1>34. ASSUME NEW t \in Tab, AskHeld(t) PROVE LocksAgree'
  BY <1>34 DEF AskHeld, LocksAgree, TypeOK, Held
<1>35. ASSUME NEW t \in Tab, ForgoClear(t) PROVE LocksAgree'
  BY <1>35 DEF ForgoClear, LocksAgree, TypeOK, history
<1> QED BY <1>1, <1>2, <1>3, <1>4, <1>5, <1>6, <1>7, <1>8, <1>9, <1>10, <1>11,
       <1>12, <1>13, <1>14, <1>15, <1>16, <1>17, <1>18, <1>19, <1>20, <1>21,
       <1>22, <1>23, <1>24, <1>25, <1>26, <1>27, <1>28, <1>29, <1>30, <1>31,
       <1>32, <1>33, <1>34, <1>35 DEF Next, Worker, Answer

\* A run never reaches a request with no block left.
LEMMA WorkStep == IInv /\ [Next]_vars => WorkLeft'
<1> SUFFICES ASSUME IInv, [Next]_vars PROVE WorkLeft'
  OBVIOUS
<1> USE DEF IInv
<1>1. ASSUME NEW j \in Job, GiveUp(j) PROVE WorkLeft'
  BY <1>1 DEF GiveUp, Dismiss, WorkLeft, TypeOK, Goto, Registered, Quietly
<1>2. ASSUME NEW j \in Job, Enroll(j) PROVE WorkLeft'
  <2>1. /\ work' = work /\ pc \in [Job -> PC]
        /\ pc' = [pc EXCEPT ![j] = IF work[j] > 0 THEN "enrolled" ELSE "closing"]
    BY <1>2 DEF Enroll, Goto, Quietly, TypeOK
  <2> QED BY <2>1 DEF WorkLeft, Registered
<1>3. ASSUME NEW j \in Job, Enqueue(j) PROVE WorkLeft'
  BY <1>3, SMTT(20) DEF Enqueue, WorkLeft, TypeOK, Goto, Registered, Quietly
<1>4. ASSUME NEW j \in Job, AbortQueued(j) PROVE WorkLeft'
  BY <1>4 DEF AbortQueued, WorkLeft, TypeOK, Goto, Registered, Quietly
<1>5. ASSUME NEW j \in Job, GrantLock(j) PROVE WorkLeft'
  BY <1>5 DEF GrantLock, WorkLeft, TypeOK, Goto, Registered, Quietly
<1>6. ASSUME NEW j \in Job, ActivateRun(j) PROVE WorkLeft'
  BY <1>6 DEF ActivateRun, WorkLeft, TypeOK, Goto, Registered, Quietly
<1>7. ASSUME NEW j \in Job, ActivateRefused(j) PROVE WorkLeft'
  BY <1>7 DEF ActivateRefused, WorkLeft, TypeOK, Goto, Registered, LeaveCallback, Quietly
<1>8. ASSUME NEW j \in Job, BeginRun(j) PROVE WorkLeft'
  BY <1>8 DEF BeginRun, WorkLeft, TypeOK, Goto, Registered, Quietly
<1>9. ASSUME NEW j \in Job, Interrupt(j) PROVE WorkLeft'
  BY <1>9 DEF Interrupt, WorkLeft, TypeOK, Goto, Registered, Quietly
<1>10. ASSUME NEW j \in Job, Defer(j) PROVE WorkLeft'
  BY <1>10 DEF Defer, WorkLeft, TypeOK, Goto, Registered, Quietly
<1>11. ASSUME NEW j \in Job, WakeUp(j) PROVE WorkLeft'
  BY <1>11 DEF WakeUp, WorkLeft, TypeOK, Goto, Registered, Quietly
<1>12. ASSUME NEW j \in Job, ReserveSlot(j) PROVE WorkLeft'
  BY <1>12 DEF ReserveSlot, WorkLeft, TypeOK, Goto, Registered, Quietly
<1>13. ASSUME NEW j \in Job, PublishRequest(j) PROVE WorkLeft'
  BY <1>13 DEF PublishRequest, WorkLeft, TypeOK, Goto, Registered, Quietly
<1>14. ASSUME NEW j \in Job, Send(j) PROVE WorkLeft'
  BY <1>14 DEF Send, WorkLeft, TypeOK, Goto, Registered, Quietly
<1>15. ASSUME NEW j \in Job, AnswerBlock(j) PROVE WorkLeft'
  BY <1>15 DEF AnswerBlock, WorkLeft, TypeOK, Goto, Registered, Quietly
<1>16. ASSUME NEW j \in Job, AnswerError(j) PROVE WorkLeft'
  BY <1>16 DEF AnswerError, WorkLeft, TypeOK, Goto, Registered, Quietly
<1>17. ASSUME NEW j \in Job, RecordCooldown(j) PROVE WorkLeft'
  BY <1>17 DEF RecordCooldown, WorkLeft, TypeOK, Goto, Registered, Quietly
<1>18. ASSUME NEW j \in Job, ReleaseRun(j) PROVE WorkLeft'
  BY <1>18 DEF ReleaseRun, WorkLeft, TypeOK, Goto, Registered, Quietly
<1>19. ASSUME NEW j \in Job, UnlockExecution(j) PROVE WorkLeft'
  BY <1>19 DEF UnlockExecution, WorkLeft, TypeOK, Goto, Registered, LeaveCallback, Quietly
<1>20. ASSUME NEW j \in Job, Finish(j) PROVE WorkLeft'
  BY <1>20 DEF Finish, Dismiss, WorkLeft, TypeOK, Goto, Registered, Quietly
<1>21. ASSUME NEW j \in Job, StorageFails(j) PROVE WorkLeft'
  BY <1>21 DEF StorageFails, Dismiss, WorkLeft, TypeOK, Goto, Registered, LeaveCallback, Quietly
<1>22. ASSUME NEW j \in Job, PauseWorker(j) PROVE WorkLeft'
  BY <1>22 DEF PauseWorker, WorkLeft, TypeOK, Goto, Registered, Quietly
<1>23. ASSUME NEW j \in Job, PauseOnRecord(j) PROVE WorkLeft'
  BY <1>23 DEF PauseOnRecord, WorkLeft, TypeOK, Goto, Registered, Quietly
<1>24. ASSUME NEW j \in Job, EndEdit(j) PROVE WorkLeft'
  BY <1>24 DEF EndEdit, WorkLeft, TypeOK, Goto, Registered, Quietly
<1>25. ASSUME NEW t \in Tab, NEW j \in Job, Start(t, j) PROVE WorkLeft'
  BY <1>25 DEF Start, WorkLeft, TypeOK, Goto, Registered, Quietly
<1>26. ASSUME NEW t \in Tab, NEW j \in Job, Edit(t, j) PROVE WorkLeft'
  BY <1>26 DEF Edit, WorkLeft, TypeOK, Goto, Registered, Quietly
<1>27. ASSUME NEW t \in Tab, Reconcile(t) PROVE WorkLeft'
  BY <1>27 DEF Reconcile, WorkLeft, TypeOK, Goto, Registered, Quietly
<1>28. ASSUME NEW t \in Tab, ReconcileFails(t) PROVE WorkLeft'
  BY <1>28 DEF ReconcileFails, WorkLeft, TypeOK, Goto, Registered, Quietly
<1>29. ASSUME NEW t \in Tab, Close(t) PROVE WorkLeft'
  BY <1>29 DEF Close, WorkLeft, TypeOK, Registered
<1>30. ASSUME NEW t \in Tab, ClearWorkspace(t) PROVE WorkLeft'
  BY <1>30 DEF ClearWorkspace, WorkLeft, LocksAgree, TypeOK, Registered
<1>31. CASE Tick
  BY <1>31 DEF Tick, WorkLeft, TypeOK, Goto, Registered, Quietly
<1>32. CASE UNCHANGED vars
  BY <1>32 DEF vars, locks, WorkLeft, TypeOK, Goto, Registered, Quietly
<1>33. ASSUME NEW j \in Job, Load(j) PROVE WorkLeft'
  BY <1>33 DEF Load, WorkLeft, TypeOK, Goto, Registered, Quietly
<1>34. ASSUME NEW t \in Tab, AskHeld(t) PROVE WorkLeft'
  BY <1>34 DEF AskHeld, WorkLeft
<1>35. ASSUME NEW t \in Tab, ForgoClear(t) PROVE WorkLeft'
  BY <1>35 DEF ForgoClear, WorkLeft
<1> QED BY <1>1, <1>2, <1>3, <1>4, <1>5, <1>6, <1>7, <1>8, <1>9, <1>10, <1>11,
       <1>12, <1>13, <1>14, <1>15, <1>16, <1>17, <1>18, <1>19, <1>20, <1>21,
       <1>22, <1>23, <1>24, <1>25, <1>26, <1>27, <1>28, <1>29, <1>30, <1>31,
       <1>32, <1>33, <1>34, <1>35 DEF Next, Worker, Answer

\* The entries of live workers stay their own, and tell whether they queue.
LEMMA RegistryStep == IInv /\ [Next]_vars => RegistryTruth'
<1> SUFFICES ASSUME IInv, [Next]_vars PROVE RegistryTruth'
  OBVIOUS
<1> USE DEF IInv
<1>1. ASSUME NEW j \in Job, GiveUp(j) PROVE RegistryTruth'
  BY <1>1 DEF GiveUp, Dismiss, RegistryTruth, LocksAgree, Registered, Goto, Quietly,
       Owns, TypeOK, RegistryTypeOK, registry
<1>2. ASSUME NEW j \in Job, Enroll(j) PROVE RegistryTruth'
  BY <1>2, SMTT(20) DEF Enroll, RegistryTruth, LocksAgree, Registered, Goto, Quietly,
       Owns, TypeOK, RegistryTypeOK, Register, Pruned, Held, NoRun
<1>3. ASSUME NEW j \in Job, Enqueue(j) PROVE RegistryTruth'
  BY <1>3 DEF Enqueue, RegistryTruth, LocksAgree, Registered, Goto, Quietly,
       Owns, TypeOK, RegistryTypeOK, registry
<1>4. ASSUME NEW j \in Job, AbortQueued(j) PROVE RegistryTruth'
  BY <1>4 DEF AbortQueued, RegistryTruth, LocksAgree, Registered, Goto,
       Quietly, Owns, TypeOK, RegistryTypeOK, registry
<1>5. ASSUME NEW j \in Job, GrantLock(j) PROVE RegistryTruth'
  BY <1>5 DEF GrantLock, RegistryTruth, LocksAgree, Registered, Goto, Quietly,
       Owns, TypeOK, RegistryTypeOK, registry
<1>6. ASSUME NEW j \in Job, ActivateRun(j) PROVE RegistryTruth'
  BY <1>6 DEF ActivateRun, RegistryTruth, LocksAgree, Registered, Goto,
       Quietly, Owns, TypeOK, RegistryTypeOK, Activate, MayActivate, Pruned,
       Held, NoRun
<1>7. ASSUME NEW j \in Job, ActivateRefused(j) PROVE RegistryTruth'
  BY <1>7 DEF ActivateRefused, RegistryTruth, LocksAgree, Registered, Goto,
       LeaveCallback, Quietly, Owns, TypeOK, RegistryTypeOK, registry
<1>8. ASSUME NEW j \in Job, BeginRun(j) PROVE RegistryTruth'
  BY <1>8 DEF BeginRun, RegistryTruth, LocksAgree, Registered, Goto, Quietly,
       Owns, TypeOK, RegistryTypeOK, registry
<1>9. ASSUME NEW j \in Job, Interrupt(j) PROVE RegistryTruth'
  BY <1>9 DEF Interrupt, RegistryTruth, LocksAgree, Registered, Goto, Quietly,
       Owns, TypeOK, RegistryTypeOK, registry
<1>10. ASSUME NEW j \in Job, Defer(j) PROVE RegistryTruth'
  <2>1. /\ pc[j] = "loop" /\ pc \in [Job -> PC]
        /\ pc' = [pc EXCEPT ![j] = "waiting"] /\ holder' = holder
    BY <1>10 DEF Defer, Goto, Quietly, TypeOK
  <2>2. runs' = [Pruned(Held) EXCEPT
                   ![j] = [owner |-> holder[j],
                           phase |-> PublishedPhase("waiting", Published(j, paused[j])),
                           pauseRequested |-> Published(j, paused[j])]]
    BY <1>10 DEF Defer, Publish
  <2>3. runs'[j].owner = holder[j] /\ runs'[j].phase # "queued"
    <3>1. j \in DOMAIN Pruned(Held) BY DEF Pruned
    <3> QED BY ONLY <2>2, <3>1 DEF PublishedPhase
  <2>4. \A i \in Job \ {j} : i \in Held => runs'[i] = runs[i]
    <3>1. \A i \in Job : i \in Held => Pruned(Held)[i] = runs[i] BY ONLY DEF Pruned
    <3> QED BY ONLY <2>2, <3>1
  <2>5. \A i \in Job : pc[i] \in Registered => i \in Held
    BY DEF LocksAgree, Held, Registered
  <2> QED BY <2>1, <2>3, <2>4, <2>5 DEF RegistryTruth, Owns, Registered
<1>11. ASSUME NEW j \in Job, WakeUp(j) PROVE RegistryTruth'
  BY <1>11 DEF WakeUp, RegistryTruth, LocksAgree, Registered, Goto, Quietly,
       Owns, TypeOK, RegistryTypeOK, registry
<1>12. ASSUME NEW j \in Job, ReserveSlot(j) PROVE RegistryTruth'
  BY <1>12 DEF ReserveSlot, RegistryTruth, LocksAgree, Registered, Goto,
       Quietly, Owns, TypeOK, RegistryTypeOK, Reserve, Pruned, Held, NoRun,
       locks
<1>13. ASSUME NEW j \in Job, PublishRequest(j) PROVE RegistryTruth'
  <2>1. /\ pc[j] = "slot" /\ pc \in [Job -> PC]
        /\ pc' = [pc EXCEPT ![j] = "ready"] /\ holder' = holder
    BY <1>13 DEF PublishRequest, Goto, Quietly, TypeOK
  <2>2. runs' = [Pruned(Held) EXCEPT
                   ![j] = [owner |-> holder[j],
                           phase |-> PublishedPhase("requesting", Published(j, paused[j])),
                           pauseRequested |-> Published(j, paused[j])]]
    BY <1>13 DEF PublishRequest, Publish
  <2>3. runs'[j].owner = holder[j] /\ runs'[j].phase # "queued"
    <3>1. j \in DOMAIN Pruned(Held) BY DEF Pruned
    <3> QED BY ONLY <2>2, <3>1 DEF PublishedPhase
  <2>4. \A i \in Job \ {j} : i \in Held => runs'[i] = runs[i]
    <3>1. \A i \in Job : i \in Held => Pruned(Held)[i] = runs[i] BY ONLY DEF Pruned
    <3> QED BY ONLY <2>2, <3>1
  <2>5. \A i \in Job : pc[i] \in Registered => i \in Held
    BY DEF LocksAgree, Held, Registered
  <2> QED BY <2>1, <2>3, <2>4, <2>5 DEF RegistryTruth, Owns, Registered
<1>14. ASSUME NEW j \in Job, Send(j) PROVE RegistryTruth'
  BY <1>14 DEF Send, RegistryTruth, LocksAgree, Registered, Goto, Quietly,
       Owns, TypeOK, RegistryTypeOK, registry
<1>15. ASSUME NEW j \in Job, AnswerBlock(j) PROVE RegistryTruth'
  BY <1>15 DEF AnswerBlock, RegistryTruth, LocksAgree, Registered, Goto,
       Quietly, Owns, TypeOK, RegistryTypeOK, registry, locks
<1>16. ASSUME NEW j \in Job, AnswerError(j) PROVE RegistryTruth'
  BY <1>16 DEF AnswerError, RegistryTruth, LocksAgree, Registered, Goto,
       Quietly, Owns, TypeOK, RegistryTypeOK, registry
<1>17. ASSUME NEW j \in Job, RecordCooldown(j) PROVE RegistryTruth'
  <2>1. /\ pc[j] = "failed" /\ holder' = holder /\ runs' = Pruned(Held)
        /\ Goto(j, "loop") \/ Goto(j, "ending")
    BY <1>17 DEF RecordCooldown, Cooldown, locks
  <2>2. \A i \in Job : pc[i] \in Registered => runs'[i] = runs[i]
    BY <2>1 DEF Pruned, Held, LocksAgree, Registered, TypeOK
  <2> QED BY <2>1, <2>2 DEF RegistryTruth, Registered, Owns, Goto, TypeOK
<1>18. ASSUME NEW j \in Job, ReleaseRun(j) PROVE RegistryTruth'
  BY <1>18 DEF ReleaseRun, RegistryTruth, LocksAgree, Registered, Goto,
       Quietly, Owns, TypeOK, RegistryTypeOK, Release, Pruned, Held, NoRun
<1>19. ASSUME NEW j \in Job, UnlockExecution(j) PROVE RegistryTruth'
  BY <1>19 DEF UnlockExecution, RegistryTruth, LocksAgree, Registered, Goto,
       LeaveCallback, Quietly, Owns, TypeOK, RegistryTypeOK, registry
<1>20. ASSUME NEW j \in Job, Finish(j) PROVE RegistryTruth'
  BY <1>20 DEF Finish, Dismiss, RegistryTruth, LocksAgree, Registered, Goto, Quietly,
       Owns, TypeOK, RegistryTypeOK, Release, Pruned, Held, NoRun
<1>21. ASSUME NEW j \in Job, StorageFails(j) PROVE RegistryTruth'
  <2>1. /\ runs' = runs /\ pc \in [Job -> PC]
        /\ \/ pc' = [pc EXCEPT ![j] = "closing"] /\ holder' = holder
           \/ /\ pc[j] \in {"loop", "waiting", "slot", "failed"}
              /\ pc' = [pc EXCEPT ![j] = "ending"] /\ holder' = holder
           \/ /\ pc' = [pc EXCEPT ![j] = "off"]
              /\ holder' = [holder EXCEPT ![j] = None]
    BY <1>21 DEF StorageFails, Dismiss, Goto, LeaveCallback, TypeOK, registry
  <2>2. ASSUME NEW i \in Job, pc'[i] \in Registered
        PROVE  /\ pc[i] \in Registered /\ holder'[i] = holder[i]
               /\ pc'[i] \in {"enrolled", "queued", "granted"} <=> pc[i] \in {"enrolled", "queued", "granted"}
    BY <2>1, <2>2 DEF Registered, TypeOK
  <2> QED BY <2>1, <2>2 DEF RegistryTruth, Owns
<1>22. ASSUME NEW j \in Job, PauseWorker(j) PROVE RegistryTruth'
  BY <1>22 DEF PauseWorker, RegistryTruth, LocksAgree, Registered, Goto,
       Quietly, Owns, TypeOK, RegistryTypeOK, registry
<1>23. ASSUME NEW j \in Job, PauseOnRecord(j) PROVE RegistryTruth'
  BY <1>23 DEF PauseOnRecord, RegistryTruth, LocksAgree, Registered, Goto,
       Quietly, Owns, TypeOK, RegistryTypeOK, Pause, PublishedPhase, Pruned,
       Held, NoRun
<1>24. ASSUME NEW j \in Job, EndEdit(j) PROVE RegistryTruth'
  BY <1>24 DEF EndEdit, RegistryTruth, LocksAgree, Registered, Goto, Quietly,
       Owns, TypeOK, RegistryTypeOK, registry
<1>25. ASSUME NEW t \in Tab, NEW j \in Job, Start(t, j) PROVE RegistryTruth'
  BY <1>25 DEF Start, RegistryTruth, LocksAgree, Registered, Goto, Quietly,
       Owns, TypeOK, RegistryTypeOK, registry
<1>26. ASSUME NEW t \in Tab, NEW j \in Job, Edit(t, j) PROVE RegistryTruth'
  BY <1>26 DEF Edit, RegistryTruth, LocksAgree, Registered, Goto, Quietly,
       Owns, TypeOK, RegistryTypeOK, registry
<1>27. ASSUME NEW t \in Tab, Reconcile(t) PROVE RegistryTruth'
  BY <1>27 DEF Reconcile, RegistryTruth, LocksAgree, Registered, Goto, Quietly,
       Owns, TypeOK, RegistryTypeOK, Snapshot, Pruned, Held, NoRun
<1>28. ASSUME NEW t \in Tab, ReconcileFails(t) PROVE RegistryTruth'
  BY <1>28 DEF ReconcileFails, RegistryTruth, LocksAgree, Registered, Goto,
       Quietly, Owns, TypeOK, RegistryTypeOK, registry
<1>29. ASSUME NEW t \in Tab, Close(t) PROVE RegistryTruth'
  BY <1>29 DEF Close, RegistryTruth, LocksAgree, Registered, Goto, Quietly,
       Owns, TypeOK, RegistryTypeOK, registry
<1>30. ASSUME NEW t \in Tab, ClearWorkspace(t) PROVE RegistryTruth'
  BY <1>30 DEF ClearWorkspace, RegistryTruth, LocksAgree, TypeOK, Registered
<1>31. CASE Tick
  BY <1>31 DEF Tick, RegistryTruth, LocksAgree, Registered, Goto, Quietly,
       Owns, TypeOK, RegistryTypeOK, registry, locks
<1>32. CASE UNCHANGED vars
  BY <1>32 DEF vars, registry, locks, history, RegistryTruth, LocksAgree,
       Registered, Goto, Quietly, Owns, TypeOK, RegistryTypeOK, registry
<1>33. ASSUME NEW j \in Job, Load(j) PROVE RegistryTruth'
  BY <1>33 DEF Load, RegistryTruth, LocksAgree, Registered, Goto, Quietly,
       Owns, TypeOK, RegistryTypeOK, registry
<1>34. ASSUME NEW t \in Tab, AskHeld(t) PROVE RegistryTruth'
  BY <1>34 DEF AskHeld, RegistryTruth, Owns, registry
<1>35. ASSUME NEW t \in Tab, ForgoClear(t) PROVE RegistryTruth'
  BY <1>35 DEF ForgoClear, RegistryTruth, Owns, registry
<1> QED BY <1>1, <1>2, <1>3, <1>4, <1>5, <1>6, <1>7, <1>8, <1>9, <1>10, <1>11,
       <1>12, <1>13, <1>14, <1>15, <1>16, <1>17, <1>18, <1>19, <1>20, <1>21,
       <1>22, <1>23, <1>24, <1>25, <1>26, <1>27, <1>28, <1>29, <1>30, <1>31,
       <1>32, <1>33, <1>34, <1>35 DEF Next, Worker, Answer

\* Every step keeps the types.
LEMMA TypeStep == IInv /\ [Next]_vars => TypeOK'
<1> SUFFICES ASSUME IInv, [Next]_vars PROVE TypeOK'
  OBVIOUS
<1> USE DEF IInv
<1>1. ASSUME NEW j \in Job, GiveUp(j) PROVE TypeOK'
  BY <1>1 DEF GiveUp, Dismiss, TypeOK, PC, Outside, Running, Editing, Goto, Quietly,
       RegistryTypeOK, registry, history
<1>2. ASSUME NEW j \in Job, Enroll(j) PROVE TypeOK'
  <2>1. Held \in SUBSET Job /\ j \in Held /\ holder[j] \in Tab
    BY <1>2 DEF Enroll, LocksAgree, TypeOK, Held
  <2>2. RegistryTypeOK'
    BY <1>2, <2>1, RegisterTypes DEF Enroll, TypeOK, Quietly
  <2> QED
    BY <1>2, <2>2 DEF Enroll, Goto, Quietly, TypeOK, PC, Outside, Running,
       Editing
<1>3. ASSUME NEW j \in Job, Enqueue(j) PROVE TypeOK'
  <2>1. ahead' \in [Job -> SUBSET Job] /\ pc' \in [Job -> PC]
    <3>1. CASE paused[j]
      BY <1>3, <3>1 DEF Enqueue, TypeOK, Goto, PC, Outside
    <3>2. CASE ~paused[j]
      <4> DEFINE inLine == {i \in Job : pc[i] = "queued"}
      <4>1. inLine \in SUBSET Job
        OBVIOUS
      <4>2. pc' = [pc EXCEPT ![j] = "queued"] /\ ahead' = [ahead EXCEPT ![j] = inLine]
        BY <1>3, <3>2 DEF Enqueue, Goto
      <4> HIDE DEF inLine
      <4> QED BY <4>1, <4>2 DEF TypeOK, PC
    <3> QED BY <3>1, <3>2
  <2> QED BY <1>3, <2>1 DEF Enqueue, TypeOK, RegistryTypeOK, registry, Quietly
<1>4. ASSUME NEW j \in Job, AbortQueued(j) PROVE TypeOK'
  BY <1>4 DEF AbortQueued, TypeOK, PC, Outside, Running, Editing, Goto,
       Dequeued, Quietly, RegistryTypeOK, registry
<1>5. ASSUME NEW j \in Job, GrantLock(j) PROVE TypeOK'
  BY <1>5 DEF GrantLock, TypeOK, PC, Outside, Running, Editing, Goto, Dequeued,
       Quietly, RegistryTypeOK, registry
<1>6. ASSUME NEW j \in Job, ActivateRun(j) PROVE TypeOK'
  <2>1. Held \in SUBSET Job /\ j \in Held /\ holder[j] \in Tab
    BY <1>6 DEF ActivateRun, LocksAgree, TypeOK, Held
  <2>2. RegistryTypeOK'
    BY <1>6, <2>1, ActivateTypes DEF ActivateRun, TypeOK, Quietly
  <2> QED
    BY <1>6, <2>2 DEF ActivateRun, Goto, Quietly, TypeOK, PC, Outside,
       Running, Editing
<1>7. ASSUME NEW j \in Job, ActivateRefused(j) PROVE TypeOK'
  BY <1>7 DEF ActivateRefused, TypeOK, PC, Outside, Running, Editing, Goto,
       LeaveCallback, Quietly, RegistryTypeOK, registry
<1>8. ASSUME NEW j \in Job, BeginRun(j) PROVE TypeOK'
  BY <1>8 DEF BeginRun, TypeOK, PC, Outside, Running, Editing, Goto, Quietly,
       RegistryTypeOK, registry
<1>9. ASSUME NEW j \in Job, Interrupt(j) PROVE TypeOK'
  BY <1>9 DEF Interrupt, TypeOK, PC, Outside, Running, Editing, Goto, Quietly,
       RegistryTypeOK, registry
<1>10. ASSUME NEW j \in Job, Defer(j) PROVE TypeOK'
  <2>1. Held \in SUBSET Job /\ j \in Held /\ holder[j] \in Tab
    BY <1>10 DEF Defer, LocksAgree, TypeOK, Held
  <2>2. paused[j] \in BOOLEAN /\ "waiting" \in Phase
    BY DEF TypeOK, Phase
  <2>3. RegistryTypeOK' /\ Published(j, paused[j]) \in BOOLEAN
    BY <1>10, <2>1, <2>2, PublishTypes DEF Defer, TypeOK, Quietly
  <2> QED
    BY <1>10, <2>3 DEF Defer, Goto, Quietly, TypeOK, PC, Outside, Running,
       Editing
<1>11. ASSUME NEW j \in Job, WakeUp(j) PROVE TypeOK'
  BY <1>11 DEF WakeUp, TypeOK, PC, Outside, Running, Editing, Goto, Quietly,
       RegistryTypeOK, registry
<1>12. ASSUME NEW j \in Job, ReserveSlot(j) PROVE TypeOK'
  <2>1. Held \in SUBSET Job /\ j \in Held /\ holder[j] \in Tab
    BY <1>12 DEF ReserveSlot, LocksAgree, TypeOK, Held
  <2>2. RegistryTypeOK'
    BY <1>12, <2>1, ReserveTypes DEF ReserveSlot, TypeOK, Quietly
  <2> QED
    BY <1>12, <2>2 DEF ReserveSlot, Goto, Quietly, TypeOK, PC, Outside,
       Running, Editing, locks, RegistryTypeOK
<1>13. ASSUME NEW j \in Job, PublishRequest(j) PROVE TypeOK'
  <2>1. Held \in SUBSET Job /\ j \in Held /\ holder[j] \in Tab
    BY <1>13 DEF PublishRequest, LocksAgree, TypeOK, Held
  <2>2. paused[j] \in BOOLEAN /\ "requesting" \in Phase
    BY DEF TypeOK, Phase
  <2>3. RegistryTypeOK' /\ Published(j, paused[j]) \in BOOLEAN
    BY <1>13, <2>1, <2>2, PublishTypes DEF PublishRequest, TypeOK, Quietly
  <2> QED
    BY <1>13, <2>3 DEF PublishRequest, Goto, Quietly, TypeOK, PC, Outside,
       Running, Editing
<1>14. ASSUME NEW j \in Job, Send(j) PROVE TypeOK'
  BY <1>14 DEF Send, TypeOK, PC, Outside, Running, Editing, Goto, Quietly,
       RegistryTypeOK, registry
<1>15. ASSUME NEW j \in Job, AnswerBlock(j) PROVE TypeOK'
  BY <1>15 DEF AnswerBlock, TypeOK, PC, Outside, Running, Editing, Goto,
       Quietly, RegistryTypeOK, registry, locks, history, WorkLeft, Registered
<1>16. ASSUME NEW j \in Job, AnswerError(j) PROVE TypeOK'
  <2>1. RegistryTypeOK' /\ holder' = holder /\ now' = now
    BY <1>16 DEF AnswerError, TypeOK, RegistryTypeOK, registry, Quietly
  <2>2. pc' \in [Job -> PC]
    BY <1>16 DEF AnswerError, TypeOK, Goto, PC, Outside, Running, Editing
  <2>3. until' \in [Job -> Nat]
    <3>1. ASSUME NEW ra \in RetryAfter PROVE now + ra \in Nat
      BY DEF TypeOK, RegistryTypeOK
    <3> QED BY <1>16, <3>1 DEF AnswerError, TypeOK
  <2> QED BY <1>16, <2>1, <2>2, <2>3 DEF AnswerError, TypeOK, Quietly
<1>17. ASSUME NEW j \in Job, RecordCooldown(j) PROVE TypeOK'
  <2>1. Held \in SUBSET Job /\ j \in Held /\ holder[j] \in Tab
    BY <1>17 DEF RecordCooldown, LocksAgree, TypeOK, Held
  <2>2. RegistryTypeOK'
    BY <1>17, <2>1, CooldownTypes DEF RecordCooldown, TypeOK, Quietly
  <2>3. pc' \in [Job -> PC]
    BY <1>17 DEF RecordCooldown, Goto, TypeOK, PC, Outside, Running, Editing
  <2>4. quiet' \in [Group -> Nat] /\ until' \in [Job -> Nat]
    <3>1. /\ quiet' = [quiet EXCEPT ![GroupOf[j]] = Latest(@, until[j])]
          /\ until' = [until EXCEPT ![j] = 0]
          /\ quiet \in [Group -> Nat] /\ until \in [Job -> Nat]
      BY <1>17 DEF RecordCooldown, TypeOK
    <3> QED BY <3>1 DEF Latest
  <2> QED BY <1>17, <2>2, <2>3, <2>4 DEF RecordCooldown, TypeOK, locks
<1>18. ASSUME NEW j \in Job, ReleaseRun(j) PROVE TypeOK'
  <2>1. Held \in SUBSET Job /\ j \in Held /\ holder[j] \in Tab
    BY <1>18 DEF ReleaseRun, LocksAgree, TypeOK, Held
  <2>2. RegistryTypeOK'
    BY <1>18, <2>1, ReleaseTypes DEF ReleaseRun, TypeOK, Quietly
  <2> QED
    BY <1>18, <2>2 DEF ReleaseRun, Goto, Quietly, TypeOK, PC, Outside, Running,
       Editing
<1>19. ASSUME NEW j \in Job, UnlockExecution(j) PROVE TypeOK'
  BY <1>19 DEF UnlockExecution, TypeOK, PC, Outside, Running, Editing, Goto,
       LeaveCallback, Quietly, RegistryTypeOK, registry
<1>20. ASSUME NEW j \in Job, Finish(j) PROVE TypeOK'
  <2>1. Held \in SUBSET Job /\ j \in Held /\ holder[j] \in Tab
    BY <1>20 DEF Finish, Dismiss, LocksAgree, TypeOK, Held
  <2>2. RegistryTypeOK'
    BY <1>20, <2>1, ReleaseTypes DEF Finish, Dismiss, TypeOK, Quietly
  <2>3. pc' \in [Job -> PC] /\ holder' \in [Job -> Tab \cup {None}]
    BY <1>20 DEF Finish, Dismiss, Goto, TypeOK, PC, Outside
  <2>4. /\ open' \subseteq Tab /\ paused' \in [Job -> BOOLEAN] /\ until' \in [Job -> Nat]
        /\ work' \in [Job -> Nat] /\ execLock' \in Job \cup {None}
        /\ ahead' \in [Job -> SUBSET Job]
        /\ quiet' \in [Group -> Nat] /\ grant' \in [Group -> [at : Nat, gap : Nat]]
        /\ clearing' \in Tab \cup {None}
    <3>1. /\ UNCHANGED <<open, execLock, ahead, clearing, until, work, quiet, grant>>
          /\ paused' = [paused EXCEPT ![j] = FALSE]
      BY <1>20 DEF Finish, Dismiss, history
    <3> QED BY <3>1 DEF TypeOK
  <2> QED BY ONLY <2>2, <2>3, <2>4 DEF TypeOK
<1>21. ASSUME NEW j \in Job, StorageFails(j) PROVE TypeOK'
  <2>1. /\ pc' \in [Job -> PC] /\ holder' \in [Job -> Tab \cup {None}]
        /\ paused' \in [Job -> BOOLEAN]
    <3>1. \E l \in {"off", "closing", "ending"} : pc' = [pc EXCEPT ![j] = l]
      BY <1>21 DEF StorageFails, Dismiss, Goto, LeaveCallback
    <3>2. \/ holder' = holder /\ paused' = paused
          \/ holder' = [holder EXCEPT ![j] = None] /\ paused' = [paused EXCEPT ![j] = FALSE]
      BY <1>21 DEF StorageFails, Dismiss
    <3>3. /\ pc \in [Job -> PC] /\ holder \in [Job -> Tab \cup {None}]
          /\ paused \in [Job -> BOOLEAN]
      BY DEF TypeOK
    <3>4. "off" \in PC /\ "closing" \in PC /\ "ending" \in PC BY DEF PC, Outside, Running
    <3>5. pc' \in [Job -> PC] BY ONLY <3>1, <3>3, <3>4
    <3> QED BY <3>2, <3>3, <3>5
  <2>2. execLock' \in Job \cup {None} /\ ahead' = ahead
    BY <1>21 DEF StorageFails, Dismiss, TypeOK, LeaveCallback
  <2> QED BY <1>21, <2>1, <2>2 DEF StorageFails, Dismiss, TypeOK, RegistryTypeOK, registry, history
<1>22. ASSUME NEW j \in Job, PauseWorker(j) PROVE TypeOK'
  BY <1>22 DEF PauseWorker, TypeOK, PC, Outside, Running, Editing, Goto,
       Quietly, RegistryTypeOK, registry
<1>23. ASSUME NEW j \in Job, PauseOnRecord(j) PROVE TypeOK'
  <2>1. Held \in SUBSET Job
    BY DEF Held
  <2>2. RegistryTypeOK'
    BY <1>23, <2>1, PauseTypes DEF PauseOnRecord, TypeOK, Quietly
  <2> QED
    BY <1>23, <2>2 DEF PauseOnRecord, Goto, Quietly, TypeOK, PC, Outside,
       Running, Editing
<1>24. ASSUME NEW j \in Job, EndEdit(j) PROVE TypeOK'
  BY <1>24 DEF EndEdit, TypeOK, PC, Outside, Running, Editing, Goto, Quietly,
       RegistryTypeOK, registry, history
<1>25. ASSUME NEW t \in Tab, NEW j \in Job, Start(t, j) PROVE TypeOK'
  BY <1>25 DEF Start, TypeOK, PC, Outside, Running, Editing, Goto, Quietly,
       RegistryTypeOK, registry, history
<1>26. ASSUME NEW t \in Tab, NEW j \in Job, Edit(t, j) PROVE TypeOK'
  BY <1>26 DEF Edit, TypeOK, PC, Outside, Running, Editing, Goto, Quietly,
       RegistryTypeOK, registry, history
<1>27. ASSUME NEW t \in Tab, Reconcile(t) PROVE TypeOK'
  <2>1. Held \in SUBSET Job
    BY DEF Held
  <2>2. RegistryTypeOK'
    BY <1>27, <2>1, SnapshotTypes DEF Reconcile, TypeOK, Quietly
  <2> QED
    BY <1>27, <2>2 DEF Reconcile, Goto, Quietly, TypeOK, PC, Outside, Running,
       Editing, HasWorker
<1>28. ASSUME NEW t \in Tab, ReconcileFails(t) PROVE TypeOK'
  <2>1. paused' \in [Job -> BOOLEAN]
    BY <1>28 DEF ReconcileFails, TypeOK, HasWorker
  <2> QED BY <1>28, <2>1 DEF ReconcileFails, TypeOK, RegistryTypeOK, registry, Quietly
<1>29. ASSUME NEW t \in Tab, Close(t) PROVE TypeOK'
  <2>1. ahead' \in [Job -> SUBSET Job] /\ open' \subseteq Tab
    BY <1>29 DEF Close, Dequeued, TypeOK
  <2>2. /\ pc' \in [Job -> PC]
        /\ holder' \in [Job -> Tab \cup {None}]
        /\ until' \in [Job -> Nat]
        /\ execLock' \in Job \cup {None}
        /\ clearing' \in Tab \cup {None}
        /\ paused' \in [Job -> BOOLEAN]
    BY <1>29 DEF Close, TypeOK, PC
  <2> QED BY <1>29, <2>1, <2>2 DEF Close, TypeOK, RegistryTypeOK, registry, history
<1>30. ASSUME NEW t \in Tab, ClearWorkspace(t) PROVE TypeOK'
  BY <1>30 DEF ClearWorkspace, TypeOK, PC, Outside, Running, Editing, Goto,
       Quietly, RegistryTypeOK, registry, locks, history, Unused
<1>31. CASE Tick
  BY <1>31 DEF Tick, TypeOK, PC, Outside, Running, Editing, Goto, Quietly,
       RegistryTypeOK, registry, locks, history
<1>32. CASE UNCHANGED vars
  BY <1>32 DEF vars, registry, locks, history, TypeOK, PC, Outside, Running,
       Editing, Goto, Quietly, RegistryTypeOK, registry
<1>33. ASSUME NEW j \in Job, Load(j) PROVE TypeOK'
  BY <1>33 DEF Load, TypeOK, PC, Outside, Running, Editing, Goto, Quietly,
       RegistryTypeOK, registry
<1>34. ASSUME NEW t \in Tab, AskHeld(t) PROVE TypeOK'
  BY <1>34 DEF AskHeld, TypeOK, RegistryTypeOK, registry, history
<1>35. ASSUME NEW t \in Tab, ForgoClear(t) PROVE TypeOK'
  BY <1>35 DEF ForgoClear, TypeOK, RegistryTypeOK, registry, history
<1> QED BY <1>1, <1>2, <1>3, <1>4, <1>5, <1>6, <1>7, <1>8, <1>9, <1>10, <1>11,
       <1>12, <1>13, <1>14, <1>15, <1>16, <1>17, <1>18, <1>19, <1>20, <1>21,
       <1>22, <1>23, <1>24, <1>25, <1>26, <1>27, <1>28, <1>29, <1>30, <1>31,
       <1>32, <1>33, <1>34, <1>35 DEF Next, Worker, Answer

-----------------------------------------------------------------------------
(* The invariant, and what follows from it.                                *)

\* The initial state satisfies the inductive invariant.
LEMMA InitInvariant == Init => IInv
<1> SUFFICES ASSUME Init PROVE IInv
  OBVIOUS
<1>1. TypeOK
  <2>1. RegistryTypeOK
    BY DEF Init, RegistryInit, RegistryTypeOK, Unused
  <2> QED BY <2>1 DEF Init, TypeOK, PC
<1>2. LocksAgree
  BY DEF Init, LocksAgree, Running
<1>3. WorkLeft /\ RegistryTruth
  BY DEF Init, WorkLeft, RegistryTruth, Registered
<1> QED BY <1>1, <1>2, <1>3 DEF IInv

\* The inductive invariant holds in every state of every behaviour: types, the
\* bookkeeping of locks and workers, and the registry's view of live workers.
THEOREM Invariant == Spec => []IInv
<1>1. IInv /\ [Next]_vars => IInv'
  BY TypeStep, LocksStep, WorkStep, RegistryStep DEF IInv
<1> QED BY InitInvariant, <1>1, PTL DEF Spec

\* Type correctness of the scheduler and the registry.
THEOREM Typing == Spec => []TypeOK
BY Invariant, PTL DEF IInv

\* However many tabs and tasks there are, at most one model request is
\* outstanding: the execution lock names the only task that runs.
THEOREM OneRequestAtATime == Spec => []OneRequest
<1>1. IInv => OneRequest
  BY DEF IInv, LocksAgree, OneRequest, Running
<1> QED BY <1>1, Invariant, PTL

\* The entry of a live worker is its own until the worker releases it, whatever
\* other tabs prune, pause or leave behind.
THEOREM EntriesAreTrue == Spec => []RegistryTruth
BY Invariant, PTL DEF IInv

-----------------------------------------------------------------------------
(* Pauses.                                                                 *)

\* A worker at a request holds its job lock.
LEMMA LiveIsHeld ==
    ASSUME LocksAgree
    PROVE  \A j \in Job : pc[j] # "off" => j \in Held
BY DEF LocksAgree, Held

\* Held entries survive pruning.
LEMMA PruneHeld == \A i \in Held : Pruned(Held)[i] = runs[i]
BY DEF Held, Pruned

\* The phase of a live request is told truly by every step.
LEMMA PhaseStep == IInv /\ PhaseTruth /\ [Next]_vars => PhaseTruth'
<1> SUFFICES ASSUME IInv, PhaseTruth, [Next]_vars PROVE PhaseTruth'
  OBVIOUS
<1> USE DEF IInv
<1>1. ASSUME NEW j \in Job, GiveUp(j) PROVE PhaseTruth'
  <2>1. runs' = runs /\ \A i \in Job : pc'[i] \in {"ready", "inflight"} => pc[i] \in {"ready", "inflight"}
    BY <1>1 DEF GiveUp, Dismiss, registry, Goto, TypeOK
  <2> QED BY <2>1 DEF PhaseTruth
<1>2. ASSUME NEW j \in Job, Enroll(j) PROVE PhaseTruth'
  <2>1. /\ pc'[j] \notin {"ready", "inflight"}
        /\ \A i \in Job \ {j} : pc'[i] = pc[i]
    BY <1>2 DEF Enroll, Goto, TypeOK
  <2>2. \A i \in Held \ {j} : runs'[i] = runs[i]
    BY <1>2, PruneHeld DEF Enroll, Register, Held, TypeOK, RegistryTypeOK
  <2> QED BY <2>1, <2>2, LiveIsHeld DEF PhaseTruth
<1>3. ASSUME NEW j \in Job, Enqueue(j) PROVE PhaseTruth'
  <2>1. runs' = runs /\ \A i \in Job : pc'[i] \in {"ready", "inflight"} => pc[i] \in {"ready", "inflight"}
    BY <1>3 DEF Enqueue, registry, Goto, TypeOK
  <2> QED BY <2>1 DEF PhaseTruth
<1>4. ASSUME NEW j \in Job, AbortQueued(j) PROVE PhaseTruth'
  <2>1. runs' = runs /\ \A i \in Job : pc'[i] \in {"ready", "inflight"} => pc[i] \in {"ready", "inflight"}
    BY <1>4 DEF AbortQueued, registry, Goto, TypeOK
  <2> QED BY <2>1 DEF PhaseTruth
<1>5. ASSUME NEW j \in Job, GrantLock(j) PROVE PhaseTruth'
  <2>1. runs' = runs /\ \A i \in Job : pc'[i] \in {"ready", "inflight"} => pc[i] \in {"ready", "inflight"}
    BY <1>5 DEF GrantLock, registry, Goto, TypeOK
  <2> QED BY <2>1 DEF PhaseTruth
<1>6. ASSUME NEW j \in Job, ActivateRun(j) PROVE PhaseTruth'
  <2>1. /\ pc'[j] \notin {"ready", "inflight"}
        /\ \A i \in Job \ {j} : pc'[i] = pc[i]
    BY <1>6 DEF ActivateRun, Goto, TypeOK
  <2>2. \A i \in Held \ {j} : runs'[i] = runs[i]
    BY <1>6, PruneHeld DEF ActivateRun, Activate, Held, TypeOK, RegistryTypeOK
  <2> QED BY <2>1, <2>2, LiveIsHeld DEF PhaseTruth
<1>7. ASSUME NEW j \in Job, ActivateRefused(j) PROVE PhaseTruth'
  <2>1. runs' = runs /\ \A i \in Job : pc'[i] \in {"ready", "inflight"} => pc[i] \in {"ready", "inflight"}
    BY <1>7 DEF ActivateRefused, registry, Goto, TypeOK, LeaveCallback
  <2> QED BY <2>1 DEF PhaseTruth
<1>8. ASSUME NEW j \in Job, BeginRun(j) PROVE PhaseTruth'
  <2>1. runs' = runs /\ \A i \in Job : pc'[i] \in {"ready", "inflight"} => pc[i] \in {"ready", "inflight"}
    BY <1>8 DEF BeginRun, registry, Goto, TypeOK
  <2> QED BY <2>1 DEF PhaseTruth
<1>9. ASSUME NEW j \in Job, Interrupt(j) PROVE PhaseTruth'
  <2>1. runs' = runs /\ \A i \in Job : pc'[i] \in {"ready", "inflight"} => pc[i] \in {"ready", "inflight"}
    BY <1>9 DEF Interrupt, registry, Goto, TypeOK
  <2> QED BY <2>1 DEF PhaseTruth
<1>10. ASSUME NEW j \in Job, Defer(j) PROVE PhaseTruth'
  <2>1. /\ pc'[j] \notin {"ready", "inflight"}
        /\ \A i \in Job \ {j} : pc'[i] = pc[i]
    BY <1>10 DEF Defer, Goto, TypeOK
  <2>2. \A i \in Held \ {j} : runs'[i] = runs[i]
    BY <1>10, PruneHeld DEF Defer, Publish, Held, TypeOK, RegistryTypeOK
  <2> QED BY <2>1, <2>2, LiveIsHeld DEF PhaseTruth
<1>11. ASSUME NEW j \in Job, WakeUp(j) PROVE PhaseTruth'
  <2>1. runs' = runs /\ \A i \in Job : pc'[i] \in {"ready", "inflight"} => pc[i] \in {"ready", "inflight"}
    BY <1>11 DEF WakeUp, registry, Goto, TypeOK
  <2> QED BY <2>1 DEF PhaseTruth
<1>12. ASSUME NEW j \in Job, ReserveSlot(j) PROVE PhaseTruth'
  <2>1. /\ pc'[j] \notin {"ready", "inflight"}
        /\ \A i \in Job \ {j} : pc'[i] = pc[i]
    BY <1>12 DEF ReserveSlot, Goto, TypeOK
  <2>2. \A i \in Held \ {j} : runs'[i] = runs[i]
    BY <1>12, PruneHeld DEF ReserveSlot, Reserve, Held, TypeOK, RegistryTypeOK
  <2> QED BY <2>1, <2>2, LiveIsHeld DEF PhaseTruth
<1>13. ASSUME NEW j \in Job, PublishRequest(j) PROVE PhaseTruth'
  <2>1. runs'[j].phase = IF runs'[j].pauseRequested THEN "pausing" ELSE "requesting"
    BY <1>13 DEF PublishRequest, Publish, PublishedPhase, Pruned
  <2>2. \A i \in Held \ {j} : runs'[i] = runs[i]
    BY <1>13, PruneHeld DEF PublishRequest, Publish, Held, TypeOK, Pruned
  <2>3. \A i \in Job \ {j} : pc'[i] = pc[i]
    BY <1>13 DEF PublishRequest, Goto, TypeOK
  <2> QED BY <2>1, <2>2, <2>3, LiveIsHeld DEF PhaseTruth
<1>14. ASSUME NEW j \in Job, Send(j) PROVE PhaseTruth'
  <2>1. runs' = runs /\ \A i \in Job : pc'[i] \in {"ready", "inflight"} => pc[i] \in {"ready", "inflight"}
    BY <1>14 DEF Send, registry, Goto, TypeOK
  <2> QED BY <2>1 DEF PhaseTruth
<1>15. ASSUME NEW j \in Job, AnswerBlock(j) PROVE PhaseTruth'
  <2>1. runs' = runs /\ \A i \in Job : pc'[i] \in {"ready", "inflight"} => pc[i] \in {"ready", "inflight"}
    BY <1>15 DEF AnswerBlock, registry, Goto, TypeOK
  <2> QED BY <2>1 DEF PhaseTruth
<1>16. ASSUME NEW j \in Job, AnswerError(j) PROVE PhaseTruth'
  <2>1. runs' = runs /\ \A i \in Job : pc'[i] \in {"ready", "inflight"} => pc[i] \in {"ready", "inflight"}
    BY <1>16 DEF AnswerError, registry, Goto, TypeOK
  <2> QED BY <2>1 DEF PhaseTruth
<1>17. ASSUME NEW j \in Job, RecordCooldown(j) PROVE PhaseTruth'
  <2>1. /\ pc'[j] \notin {"ready", "inflight"}
        /\ \A i \in Job \ {j} : pc'[i] = pc[i]
    BY <1>17 DEF RecordCooldown, Goto, TypeOK
  <2>2. \A i \in Held \ {j} : runs'[i] = runs[i]
    BY <1>17, PruneHeld DEF RecordCooldown, Cooldown, Held, TypeOK, RegistryTypeOK
  <2> QED BY <2>1, <2>2, LiveIsHeld DEF PhaseTruth
<1>18. ASSUME NEW j \in Job, ReleaseRun(j) PROVE PhaseTruth'
  <2>1. /\ pc'[j] \notin {"ready", "inflight"}
        /\ \A i \in Job \ {j} : pc'[i] = pc[i]
    BY <1>18 DEF ReleaseRun, Goto, TypeOK
  <2>2. \A i \in Held \ {j} : runs'[i] = runs[i]
    BY <1>18, PruneHeld DEF ReleaseRun, Release, Held, TypeOK, RegistryTypeOK
  <2> QED BY <2>1, <2>2, LiveIsHeld DEF PhaseTruth
<1>19. ASSUME NEW j \in Job, UnlockExecution(j) PROVE PhaseTruth'
  <2>1. runs' = runs /\ \A i \in Job : pc'[i] \in {"ready", "inflight"} => pc[i] \in {"ready", "inflight"}
    BY <1>19 DEF UnlockExecution, registry, Goto, TypeOK, LeaveCallback
  <2> QED BY <2>1 DEF PhaseTruth
<1>20. ASSUME NEW j \in Job, Finish(j) PROVE PhaseTruth'
  <2>1. /\ pc'[j] \notin {"ready", "inflight"}
        /\ \A i \in Job \ {j} : pc'[i] = pc[i]
    BY <1>20 DEF Finish, Dismiss, Goto, TypeOK
  <2>2. \A i \in Held \ {j} : runs'[i] = runs[i]
    BY <1>20, PruneHeld DEF Finish, Dismiss, Release, Held, TypeOK, RegistryTypeOK
  <2> QED BY <2>1, <2>2, LiveIsHeld DEF PhaseTruth
<1>21. ASSUME NEW j \in Job, StorageFails(j) PROVE PhaseTruth'
  <2>1. runs' = runs /\ \A i \in Job : pc'[i] \in {"ready", "inflight"} => pc[i] \in {"ready", "inflight"}
    BY <1>21 DEF StorageFails, Dismiss, registry, Goto, TypeOK, LeaveCallback
  <2> QED BY <2>1 DEF PhaseTruth
<1>22. ASSUME NEW j \in Job, PauseWorker(j) PROVE PhaseTruth'
  <2>1. runs' = runs /\ \A i \in Job : pc'[i] \in {"ready", "inflight"} => pc[i] \in {"ready", "inflight"}
    BY <1>22 DEF PauseWorker, registry, Goto, TypeOK
  <2> QED BY <2>1 DEF PhaseTruth
<1>23. ASSUME NEW j \in Job, PauseOnRecord(j) PROVE PhaseTruth'
  <2>1. pc' = pc /\ \A i \in Held \ {j} : runs'[i] = runs[i]
    BY <1>23, PruneHeld DEF PauseOnRecord, Pause, Held
  <2>2. ASSUME pc[j] \in {"ready", "inflight"}
        PROVE  runs'[j].phase = "pausing" /\ runs'[j].pauseRequested
    <3>1. j \in Held /\ Pruned(Held)[j] = runs[j] /\ runs[j] \in Run
      BY <2>2, LiveIsHeld, PruneHeld
      DEF TypeOK, RegistryTypeOK, RegistryTruth, LocksAgree, Registered, Owns, NoRun, Held
    <3>2. runs'[j] = [runs[j] EXCEPT !.pauseRequested = TRUE, !.phase = PublishedPhase(@, TRUE)]
      BY <1>23, <3>1 DEF PauseOnRecord, Pause, NoRun, Run, RegistryTruth, TypeOK
    <3> QED BY <2>2, <3>1, <3>2 DEF PhaseTruth, PublishedPhase, Run
  <2> QED BY <2>1, <2>2, LiveIsHeld DEF PhaseTruth
<1>24. ASSUME NEW j \in Job, EndEdit(j) PROVE PhaseTruth'
  <2>1. runs' = runs /\ \A i \in Job : pc'[i] \in {"ready", "inflight"} => pc[i] \in {"ready", "inflight"}
    BY <1>24 DEF EndEdit, registry, Goto, TypeOK
  <2> QED BY <2>1 DEF PhaseTruth
<1>25. ASSUME NEW t \in Tab, NEW j \in Job, Start(t, j) PROVE PhaseTruth'
  <2>1. runs' = runs /\ \A i \in Job : pc'[i] \in {"ready", "inflight"} => pc[i] \in {"ready", "inflight"}
    BY <1>25 DEF Start, registry, Goto, TypeOK
  <2> QED BY <2>1 DEF PhaseTruth
<1>26. ASSUME NEW t \in Tab, NEW j \in Job, Edit(t, j) PROVE PhaseTruth'
  <2>1. runs' = runs /\ \A i \in Job : pc'[i] \in {"ready", "inflight"} => pc[i] \in {"ready", "inflight"}
    BY <1>26 DEF Edit, registry, Goto, TypeOK
  <2> QED BY <2>1 DEF PhaseTruth
<1>27. ASSUME NEW t \in Tab, Reconcile(t) PROVE PhaseTruth'
  <2>1. pc' = pc /\ \A i \in Held : runs'[i] = runs[i]
    BY <1>27, PruneHeld DEF Reconcile, Snapshot
  <2> QED BY <2>1, LiveIsHeld DEF PhaseTruth
<1>28. ASSUME NEW t \in Tab, ReconcileFails(t) PROVE PhaseTruth'
  <2>1. runs' = runs /\ \A i \in Job : pc'[i] \in {"ready", "inflight"} => pc[i] \in {"ready", "inflight"}
    BY <1>28 DEF ReconcileFails, registry, Goto, TypeOK
  <2> QED BY <2>1 DEF PhaseTruth
<1>29. ASSUME NEW t \in Tab, Close(t) PROVE PhaseTruth'
  <2>1. runs' = runs /\ \A i \in Job : pc'[i] \in {"ready", "inflight"} => pc[i] \in {"ready", "inflight"}
    BY <1>29 DEF Close, registry, Goto, TypeOK
  <2> QED BY <2>1 DEF PhaseTruth
<1>30. ASSUME NEW t \in Tab, ClearWorkspace(t) PROVE PhaseTruth'
  <2>1. pc' = pc /\ \A i \in Job : pc[i] \notin {"ready", "inflight"}
    BY <1>30 DEF ClearWorkspace, LocksAgree, TypeOK
  <2> QED BY <2>1 DEF PhaseTruth
<1>31. CASE Tick
  <2>1. runs' = runs /\ \A i \in Job : pc'[i] \in {"ready", "inflight"} => pc[i] \in {"ready", "inflight"}
    BY <1>31 DEF Tick, registry, Goto, TypeOK
  <2> QED BY <2>1 DEF PhaseTruth
<1>32. CASE UNCHANGED vars
  <2>1. runs' = runs /\ \A i \in Job : pc'[i] \in {"ready", "inflight"} => pc[i] \in {"ready", "inflight"}
    BY <1>32 DEF vars, locks, history, registry, Goto, TypeOK
  <2> QED BY <2>1 DEF PhaseTruth
<1>33. ASSUME NEW j \in Job, Load(j) PROVE PhaseTruth'
  <2>1. runs' = runs /\ \A i \in Job : pc'[i] \in {"ready", "inflight"} => pc[i] \in {"ready", "inflight"}
    BY <1>33 DEF Load, registry, Goto, TypeOK
  <2> QED BY <2>1 DEF PhaseTruth
<1>34. ASSUME NEW t \in Tab, AskHeld(t) PROVE PhaseTruth'
  BY <1>34 DEF AskHeld, PhaseTruth, registry
<1>35. ASSUME NEW t \in Tab, ForgoClear(t) PROVE PhaseTruth'
  BY <1>35 DEF ForgoClear, PhaseTruth, registry
<1> QED BY <1>1, <1>2, <1>3, <1>4, <1>5, <1>6, <1>7, <1>8, <1>9, <1>10, <1>11,
       <1>12, <1>13, <1>14, <1>15, <1>16, <1>17, <1>18, <1>19, <1>20, <1>21,
       <1>22, <1>23, <1>24, <1>25, <1>26, <1>27, <1>28, <1>29, <1>30, <1>31,
       <1>32, <1>33, <1>34, <1>35 DEF Next, Worker, Answer

\* While a request is out, every tab is shown "requesting", or "pausing" exactly
\* when a pause is on record.
THEOREM PhasesAreTrue == Spec => []PhaseTruth
<1>1. Init => PhaseTruth
  BY DEF Init, PhaseTruth
<1> QED BY <1>1, PhaseStep, Invariant, PTL DEF Spec

\* Pruning keeps an entry as it is or removes it.
LEMMA HeldOrGone == \A i \in Job : Pruned(Held)[i] \in {runs[i], NoRun}
BY DEF Pruned

\* No step takes a pause off the record of a run that goes on.
LEMMA PauseStep ==
    IInv /\ [Next]_vars =>
        \A j \in Job : runs[j].pauseRequested /\ ~runs'[j].pauseRequested =>
            runs'[j] = NoRun \/ pc[j] = "loaded"
<1> DEFINE Kept == \A i \in Job : runs[i].pauseRequested /\ ~runs'[i].pauseRequested =>
                       runs'[i] = NoRun \/ pc[i] = "loaded"
<1> SUFFICES ASSUME IInv, [Next]_vars PROVE Kept
  OBVIOUS
<1> USE DEF IInv
<1>1. ASSUME NEW j \in Job, GiveUp(j) PROVE Kept
  <2>1. runs' = runs
    BY <1>1 DEF GiveUp, Dismiss, registry
  <2> QED BY <2>1
<1>2. ASSUME NEW j \in Job, Enroll(j) PROVE Kept
  <2>1. pc[j] = "loaded" /\ \A i \in Job \ {j} : runs'[i] = Pruned(Held)[i]
    BY <1>2, PruneFacts DEF Enroll, Register, Held, TypeOK
  <2> QED BY <2>1, HeldOrGone
<1>3. ASSUME NEW j \in Job, Enqueue(j) PROVE Kept
  <2>1. runs' = runs
    BY <1>3 DEF Enqueue, registry
  <2> QED BY <2>1
<1>4. ASSUME NEW j \in Job, AbortQueued(j) PROVE Kept
  <2>1. runs' = runs
    BY <1>4 DEF AbortQueued, registry
  <2> QED BY <2>1
<1>5. ASSUME NEW j \in Job, GrantLock(j) PROVE Kept
  <2>1. runs' = runs
    BY <1>5 DEF GrantLock, registry
  <2> QED BY <2>1
<1>6. ASSUME NEW j \in Job, ActivateRun(j) PROVE Kept
  <2>1. runs[j].pauseRequested = FALSE
    BY <1>6, PruneFacts DEF ActivateRun, Activate, MayActivate, Published, Held, TypeOK, RegistryTypeOK, Run, NoRun
  <2>2. \A i \in Job \ {j} : runs'[i] = Pruned(Held)[i]
    BY <1>6, PruneFacts DEF ActivateRun, Activate, Held, TypeOK
  <2> QED BY <2>1, <2>2, HeldOrGone
<1>7. ASSUME NEW j \in Job, ActivateRefused(j) PROVE Kept
  <2>1. runs' = runs
    BY <1>7 DEF ActivateRefused, registry
  <2> QED BY <2>1
<1>8. ASSUME NEW j \in Job, BeginRun(j) PROVE Kept
  <2>1. runs' = runs
    BY <1>8 DEF BeginRun, registry
  <2> QED BY <2>1
<1>9. ASSUME NEW j \in Job, Interrupt(j) PROVE Kept
  <2>1. runs' = runs
    BY <1>9 DEF Interrupt, registry
  <2> QED BY <2>1
<1>10. ASSUME NEW j \in Job, Defer(j) PROVE Kept
  <2>1. runs[j].pauseRequested => runs'[j].pauseRequested
    BY <1>10, PruneFacts DEF Defer, Publish, Published, Held, TypeOK, RegistryTypeOK, Run, NoRun
  <2>2. \A i \in Job \ {j} : runs'[i] = Pruned(Held)[i]
    BY <1>10, PruneFacts DEF Defer, Publish, Held, TypeOK
  <2> QED BY <2>1, <2>2, HeldOrGone
<1>11. ASSUME NEW j \in Job, WakeUp(j) PROVE Kept
  <2>1. runs' = runs
    BY <1>11 DEF WakeUp, registry
  <2> QED BY <2>1
<1>12. ASSUME NEW j \in Job, ReserveSlot(j) PROVE Kept
  <2>1. runs' = Pruned(Held)
    BY <1>12 DEF ReserveSlot, Reserve
  <2> QED BY <2>1, HeldOrGone
<1>13. ASSUME NEW j \in Job, PublishRequest(j) PROVE Kept
  <2>1. runs[j].pauseRequested => runs'[j].pauseRequested
    <3>1. Pruned(Held) \in [Job -> Run \cup {NoRun}]
      BY PruneFacts DEF TypeOK, Held
    <3>2. runs'[j].pauseRequested = (runs[j].pauseRequested \/ paused[j])
      BY <1>13, <3>1 DEF PublishRequest, Publish, Published
    <3> QED BY <3>2
  <2>2. \A i \in Job \ {j} : runs'[i] = Pruned(Held)[i]
    BY <1>13, PruneFacts DEF PublishRequest, Publish, Held, TypeOK
  <2> QED BY <2>1, <2>2, HeldOrGone
<1>14. ASSUME NEW j \in Job, Send(j) PROVE Kept
  <2>1. runs' = runs
    BY <1>14 DEF Send, registry
  <2> QED BY <2>1
<1>15. ASSUME NEW j \in Job, AnswerBlock(j) PROVE Kept
  <2>1. runs' = runs
    BY <1>15 DEF AnswerBlock, registry
  <2> QED BY <2>1
<1>16. ASSUME NEW j \in Job, AnswerError(j) PROVE Kept
  <2>1. runs' = runs
    BY <1>16 DEF AnswerError, registry
  <2> QED BY <2>1
<1>17. ASSUME NEW j \in Job, RecordCooldown(j) PROVE Kept
  <2>1. runs' = Pruned(Held)
    BY <1>17 DEF RecordCooldown, Cooldown
  <2> QED BY <2>1, HeldOrGone
<1>18. ASSUME NEW j \in Job, ReleaseRun(j) PROVE Kept
  <2>1. \A i \in Job : runs'[i] \in {NoRun, Pruned(Held)[i]}
    BY <1>18 DEF ReleaseRun, Release
  <2> QED BY <2>1, HeldOrGone
<1>19. ASSUME NEW j \in Job, UnlockExecution(j) PROVE Kept
  <2>1. runs' = runs
    BY <1>19 DEF UnlockExecution, registry
  <2> QED BY <2>1
<1>20. ASSUME NEW j \in Job, Finish(j) PROVE Kept
  <2>1. \A i \in Job : runs'[i] \in {NoRun, Pruned(Held)[i]}
    BY <1>20 DEF Finish, Dismiss, Release
  <2> QED BY <2>1, HeldOrGone
<1>21. ASSUME NEW j \in Job, StorageFails(j) PROVE Kept
  <2>1. runs' = runs
    BY <1>21 DEF StorageFails, Dismiss, registry
  <2> QED BY <2>1
<1>22. ASSUME NEW j \in Job, PauseWorker(j) PROVE Kept
  <2>1. runs' = runs
    BY <1>22 DEF PauseWorker, registry
  <2> QED BY <2>1
<1>23. ASSUME NEW j \in Job, PauseOnRecord(j) PROVE Kept
  <2>1. \A i \in Job \ {j} : runs'[i] = Pruned(Held)[i]
    BY <1>23 DEF PauseOnRecord, Pause
  <2>2. runs'[j] = NoRun \/ runs'[j].pauseRequested
    <3>1. runs[j] \in Run \cup {NoRun} /\ Pruned(Held)[j] \in {runs[j], NoRun}
      BY DEF TypeOK, RegistryTypeOK, Pruned
    <3>2. CASE Pruned(Held)[j] # NoRun
      <4>1. runs'[j] = [runs[j] EXCEPT !.pauseRequested = TRUE, !.phase = PublishedPhase(@, TRUE)]
        BY <1>23, <3>2 DEF PauseOnRecord, Pause
      <4> QED BY <3>1, <3>2, <4>1 DEF Run
    <3>3. CASE Pruned(Held)[j] = NoRun
      BY <1>23, <3>3 DEF PauseOnRecord, Pause
    <3> QED BY <3>2, <3>3
  <2> QED BY <2>1, <2>2, HeldOrGone
<1>24. ASSUME NEW j \in Job, EndEdit(j) PROVE Kept
  <2>1. runs' = runs
    BY <1>24 DEF EndEdit, registry
  <2> QED BY <2>1
<1>25. ASSUME NEW t \in Tab, NEW j \in Job, Start(t, j) PROVE Kept
  <2>1. runs' = runs
    BY <1>25 DEF Start, registry
  <2> QED BY <2>1
<1>26. ASSUME NEW t \in Tab, NEW j \in Job, Edit(t, j) PROVE Kept
  <2>1. runs' = runs
    BY <1>26 DEF Edit, registry
  <2> QED BY <2>1
<1>27. ASSUME NEW t \in Tab, Reconcile(t) PROVE Kept
  <2>1. runs' = Pruned(Held)
    BY <1>27 DEF Reconcile, Snapshot
  <2> QED BY <2>1, HeldOrGone
<1>28. ASSUME NEW t \in Tab, ReconcileFails(t) PROVE Kept
  <2>1. runs' = runs
    BY <1>28 DEF ReconcileFails, registry
  <2> QED BY <2>1
<1>29. ASSUME NEW t \in Tab, Close(t) PROVE Kept
  <2>1. runs' = runs
    BY <1>29 DEF Close, registry
  <2> QED BY <2>1
<1>30. ASSUME NEW t \in Tab, ClearWorkspace(t) PROVE Kept
  BY <1>30 DEF ClearWorkspace, Kept
<1>31. CASE Tick
  <2>1. runs' = runs
    BY <1>31 DEF Tick, registry
  <2> QED BY <2>1
<1>32. CASE UNCHANGED vars
  <2>1. runs' = runs
    BY <1>32 DEF vars, locks, history, registry
  <2> QED BY <2>1
<1>33. ASSUME NEW j \in Job, Load(j) PROVE Kept
  <2>1. runs' = runs
    BY <1>33 DEF Load, registry
  <2> QED BY <2>1
<1>34. ASSUME NEW t \in Tab, AskHeld(t) PROVE Kept
  <2>1. runs' = runs
    BY <1>34 DEF AskHeld, registry
  <2> QED BY <2>1
<1>35. ASSUME NEW t \in Tab, ForgoClear(t) PROVE Kept
  <2>1. runs' = runs
    BY <1>35 DEF ForgoClear, registry
  <2> QED BY <2>1
<1> QED BY <1>1, <1>2, <1>3, <1>4, <1>5, <1>6, <1>7, <1>8, <1>9, <1>10, <1>11,
       <1>12, <1>13, <1>14, <1>15, <1>16, <1>17, <1>18, <1>19, <1>20, <1>21,
       <1>22, <1>23, <1>24, <1>25, <1>26, <1>27, <1>28, <1>29, <1>30, <1>31,
       <1>32, <1>33, <1>34, <1>35 DEF Next, Worker, Answer

\* A recorded pause outlives whatever the worker publishes (publish takes over
\* the stored flag); only the end of the run removes it.
THEOREM PausesAreKept == Spec => PauseKept
<1>1. IInv /\ [Next]_vars =>
        [\A j \in Job : runs[j].pauseRequested /\ ~runs'[j].pauseRequested =>
            runs'[j] = NoRun \/ pc[j] = "loaded"]_vars
  BY PauseStep
<1> QED BY <1>1, Invariant, PTL DEF Spec, PauseKept

-----------------------------------------------------------------------------
(* What may happen to one record.                                          *)

\* The types of a group's record, deadline and slot.
LEMMA RecordTypes ==
    ASSUME TypeOK, NEW g \in Group
    PROVE  /\ rates[g] \in [lastAt : Nat, nextAt : Nat]
           /\ quiet[g] \in Nat
           /\ grant[g] \in [at : Nat, gap : Nat]
           /\ now \in Nat /\ cooldownUntil \in Nat /\ RateTTL \in Nat
BY DEF TypeOK, RegistryTypeOK

\* Forgetting an old record loses nothing that still matters.
LEMMA PruneStands ==
    ASSUME TypeOK, RatesRecorded, NEW held \in SUBSET Job, NEW g \in Group
    PROVE  StandsFor(PrunedRates(held)[g], quiet[g], grant[g], now)
<1>1. StandsFor(rates[g], quiet[g], grant[g], now)
  BY DEF RatesRecorded
<1>2. ASSUME rates[g].nextAt < now - RateTTL
      PROVE  StandsFor(Unused, quiet[g], grant[g], now)
  BY <1>1, <1>2, RecordTypes DEF StandsFor, Latest, Unused
<1> QED BY <1>1, <1>2 DEF PrunedRates

\* A slot granted now, with no deadline ahead.
LEMMA SlotStands ==
    ASSUME NEW t \in Nat, NEW i \in Nat, NEW q \in Nat, q <= t
    PROVE  StandsFor([lastAt |-> t, nextAt |-> t + i], q, [at |-> t, gap |-> i], t)
BY DEF StandsFor, Latest

\* A deadline recorded on top of what was there.
LEMMA DeadlineStands ==
    ASSUME NEW r \in [lastAt : Nat, nextAt : Nat], NEW q \in Nat, NEW t \in Nat,
           NEW s \in [at : Nat, gap : Nat], NEW u \in Nat, StandsFor(r, q, s, t)
    PROVE  StandsFor([r EXCEPT !.nextAt = Latest(@, u)], Latest(q, u), s, t)
BY DEF StandsFor, Latest

\* Time only makes things over.
LEMMA TimeStands ==
    ASSUME TypeOK, NEW g \in Group, StandsFor(rates[g], quiet[g], grant[g], now)
    PROVE  StandsFor(rates[g], quiet[g], grant[g], now + 1)
BY RecordTypes DEF StandsFor, Latest

\* What Due says when it has passed.
LEMMA DueIsOver ==
    ASSUME TypeOK, NEW j \in Job, Due(j) <= now
    PROVE  /\ rates[GroupOf[j]].nextAt <= now
           /\ rates[GroupOf[j]].lastAt # 0 => rates[GroupOf[j]].lastAt + Interval[j] <= now
<1>1. GroupOf[j] \in Group /\ Interval[j] \in Nat
  OBVIOUS
<1> QED BY <1>1, RecordTypes DEF Due, Latest

LEMMA QuietIsOver ==
    ASSUME TypeOK, RatesRecorded, NEW j \in Job, Due(j) <= now
    PROVE  quiet[GroupOf[j]] <= now
<1>1. GroupOf[j] \in Group
  OBVIOUS
<1> QED BY <1>1, DueIsOver, RecordTypes DEF RatesRecorded, StandsFor, Latest

-----------------------------------------------------------------------------
\* Every step keeps the records true.
LEMMA RatesStep == IInv /\ RatesRecorded /\ [Next]_vars => RatesRecorded'
<1> SUFFICES ASSUME IInv, RatesRecorded, [Next]_vars PROVE RatesRecorded'
  OBVIOUS
<1> USE DEF IInv
<1>1. ASSUME NEW j \in Job, GiveUp(j) PROVE RatesRecorded'
  <2>1. UNCHANGED <<rates, now, quiet, grant>>
    BY <1>1 DEF GiveUp, Dismiss, registry, history, Quietly
  <2> QED BY <2>1 DEF RatesRecorded
<1>2. ASSUME NEW j \in Job, Enroll(j) PROVE RatesRecorded'
  <2>1. /\ Held \in SUBSET Job /\ now' = now
        /\ rates' = PrunedRates(Held) /\ quiet' = quiet /\ grant' = grant
    BY <1>2 DEF Enroll, Register, Quietly, history, Held
  <2> QED BY <2>1, PruneStands DEF RatesRecorded
<1>3. ASSUME NEW j \in Job, Enqueue(j) PROVE RatesRecorded'
  <2>1. UNCHANGED <<rates, now, quiet, grant>>
    BY <1>3 DEF Enqueue, registry, history, Quietly
  <2> QED BY <2>1 DEF RatesRecorded
<1>4. ASSUME NEW j \in Job, AbortQueued(j) PROVE RatesRecorded'
  <2>1. UNCHANGED <<rates, now, quiet, grant>>
    BY <1>4 DEF AbortQueued, registry, history, Quietly
  <2> QED BY <2>1 DEF RatesRecorded
<1>5. ASSUME NEW j \in Job, GrantLock(j) PROVE RatesRecorded'
  <2>1. UNCHANGED <<rates, now, quiet, grant>>
    BY <1>5 DEF GrantLock, registry, history, Quietly
  <2> QED BY <2>1 DEF RatesRecorded
<1>6. ASSUME NEW j \in Job, ActivateRun(j) PROVE RatesRecorded'
  <2>1. /\ Held \in SUBSET Job /\ now' = now
        /\ rates' = PrunedRates(Held) /\ quiet' = quiet /\ grant' = grant
    BY <1>6 DEF ActivateRun, Activate, Quietly, history, Held
  <2> QED BY <2>1, PruneStands DEF RatesRecorded
<1>7. ASSUME NEW j \in Job, ActivateRefused(j) PROVE RatesRecorded'
  <2>1. UNCHANGED <<rates, now, quiet, grant>>
    BY <1>7 DEF ActivateRefused, registry, history, Quietly
  <2> QED BY <2>1 DEF RatesRecorded
<1>8. ASSUME NEW j \in Job, BeginRun(j) PROVE RatesRecorded'
  <2>1. UNCHANGED <<rates, now, quiet, grant>>
    BY <1>8 DEF BeginRun, registry, history, Quietly
  <2> QED BY <2>1 DEF RatesRecorded
<1>9. ASSUME NEW j \in Job, Interrupt(j) PROVE RatesRecorded'
  <2>1. UNCHANGED <<rates, now, quiet, grant>>
    BY <1>9 DEF Interrupt, registry, history, Quietly
  <2> QED BY <2>1 DEF RatesRecorded
<1>10. ASSUME NEW j \in Job, Defer(j) PROVE RatesRecorded'
  <2>1. /\ Held \in SUBSET Job /\ now' = now
        /\ rates' = PrunedRates(Held) /\ quiet' = quiet /\ grant' = grant
    BY <1>10 DEF Defer, Publish, Quietly, history, Held
  <2> QED BY <2>1, PruneStands DEF RatesRecorded
<1>11. ASSUME NEW j \in Job, WakeUp(j) PROVE RatesRecorded'
  <2>1. UNCHANGED <<rates, now, quiet, grant>>
    BY <1>11 DEF WakeUp, registry, history, Quietly
  <2> QED BY <2>1 DEF RatesRecorded
<1>12. ASSUME NEW j \in Job, ReserveSlot(j) PROVE RatesRecorded'
  <2>1. /\ holder[j] \in Tab /\ j \in Held /\ Held \in SUBSET Job /\ GroupOf[j] \in Group
        /\ Interval[j] \in Nat /\ Due(j) <= now /\ now' = now /\ quiet' = quiet
        /\ rates' = [PrunedRates(Held) EXCEPT
                       ![GroupOf[j]] = [lastAt |-> now, nextAt |-> now + Interval[j]]]
        /\ grant' = [grant EXCEPT ![GroupOf[j]] = [at |-> now, gap |-> Interval[j]]]
    BY <1>12 DEF ReserveSlot, Reserve, Granted, LocksAgree, TypeOK, RegistryTypeOK, Held
  <2>2. ASSUME NEW g \in Group PROVE StandsFor(rates'[g], quiet[g], grant'[g], now)
    <3>1. CASE g = GroupOf[j]
      <4>1. quiet[g] <= now
        BY <2>1, <3>1, QuietIsOver
      <4>2. /\ rates'[g] = [lastAt |-> now, nextAt |-> now + Interval[j]]
            /\ grant'[g] = [at |-> now, gap |-> Interval[j]]
        BY <2>1, <3>1, PruneFacts DEF TypeOK
      <4>3. now \in Nat /\ Interval[j] \in Nat /\ quiet[g] \in Nat
        BY <2>1 DEF TypeOK, RegistryTypeOK
      <4> QED BY ONLY <4>1, <4>2, <4>3, SlotStands
    <3>2. CASE g # GroupOf[j]
      BY <2>1, <3>2, PruneStands, PruneFacts DEF TypeOK
    <3> QED BY <3>1, <3>2
  <2> QED BY <2>1, <2>2 DEF RatesRecorded
<1>13. ASSUME NEW j \in Job, PublishRequest(j) PROVE RatesRecorded'
  <2>1. /\ Held \in SUBSET Job /\ now' = now
        /\ rates' = PrunedRates(Held) /\ quiet' = quiet /\ grant' = grant
    BY <1>13 DEF PublishRequest, Publish, Quietly, history, Held
  <2> QED BY <2>1, PruneStands DEF RatesRecorded
<1>14. ASSUME NEW j \in Job, Send(j) PROVE RatesRecorded'
  <2>1. UNCHANGED <<rates, now, quiet, grant>>
    BY <1>14 DEF Send, registry, history, Quietly
  <2> QED BY <2>1 DEF RatesRecorded
<1>15. ASSUME NEW j \in Job, AnswerBlock(j) PROVE RatesRecorded'
  <2>1. UNCHANGED <<rates, now, quiet, grant>>
    BY <1>15 DEF AnswerBlock, registry, history, Quietly
  <2> QED BY <2>1 DEF RatesRecorded
<1>16. ASSUME NEW j \in Job, AnswerError(j) PROVE RatesRecorded'
  <2>1. UNCHANGED <<rates, now, quiet, grant>>
    BY <1>16 DEF AnswerError, registry, history, Quietly
  <2> QED BY <2>1 DEF RatesRecorded
<1>17. ASSUME NEW j \in Job, RecordCooldown(j) PROVE RatesRecorded'
  <2>1. /\ j \in Held /\ Held \in SUBSET Job /\ GroupOf[j] \in Group
        /\ until[j] \in Nat /\ now' = now /\ grant' = grant
        /\ rates' = [PrunedRates(Held) EXCEPT ![GroupOf[j]].nextAt = Latest(@, until[j])]
        /\ quiet' = [quiet EXCEPT ![GroupOf[j]] = Latest(@, until[j])]
    BY <1>17 DEF RecordCooldown, Cooldown, LocksAgree, RegistryTruth, Registered, TypeOK, Held
  <2>2. ASSUME NEW g \in Group PROVE StandsFor(rates'[g], quiet'[g], grant[g], now)
    <3>1. StandsFor(PrunedRates(Held)[g], quiet[g], grant[g], now)
      BY <2>1, PruneStands
    <3>2. CASE g = GroupOf[j]
      <4>1. /\ rates'[g] = [PrunedRates(Held)[g] EXCEPT !.nextAt = Latest(@, until[j])]
            /\ quiet'[g] = Latest(quiet[g], until[j])
        BY <2>1, <3>2, PruneFacts DEF TypeOK
      <4>2. PrunedRates(Held)[g] \in [lastAt : Nat, nextAt : Nat]
        BY <2>1, PruneFacts DEF TypeOK
      <4>3. StandsFor([PrunedRates(Held)[g] EXCEPT !.nextAt = Latest(@, until[j])],
                      Latest(quiet[g], until[j]), grant[g], now)
        BY <2>1, <3>1, <4>2, RecordTypes, DeadlineStands
      <4> QED BY <4>1, <4>3
    <3>3. CASE g # GroupOf[j]
      BY <2>1, <3>1, <3>3, PruneFacts DEF TypeOK
    <3> QED BY <3>2, <3>3
  <2> QED BY <2>1, <2>2 DEF RatesRecorded
<1>18. ASSUME NEW j \in Job, ReleaseRun(j) PROVE RatesRecorded'
  <2>1. /\ Held \in SUBSET Job /\ now' = now
        /\ rates' = PrunedRates(Held) /\ quiet' = quiet /\ grant' = grant
    BY <1>18 DEF ReleaseRun, Release, Quietly, history, Held
  <2> QED BY <2>1, PruneStands DEF RatesRecorded
<1>19. ASSUME NEW j \in Job, UnlockExecution(j) PROVE RatesRecorded'
  <2>1. UNCHANGED <<rates, now, quiet, grant>>
    BY <1>19 DEF UnlockExecution, registry, history, Quietly
  <2> QED BY <2>1 DEF RatesRecorded
<1>20. ASSUME NEW j \in Job, Finish(j) PROVE RatesRecorded'
  <2>1. /\ Held \in SUBSET Job /\ now' = now
        /\ rates' = PrunedRates(Held) /\ quiet' = quiet /\ grant' = grant
    BY <1>20 DEF Finish, Dismiss, Release, Quietly, history, Held
  <2> QED BY <2>1, PruneStands DEF RatesRecorded
<1>21. ASSUME NEW j \in Job, StorageFails(j) PROVE RatesRecorded'
  <2>1. UNCHANGED <<rates, now, quiet, grant>>
    BY <1>21 DEF StorageFails, Dismiss, registry, history, Quietly
  <2> QED BY <2>1 DEF RatesRecorded
<1>22. ASSUME NEW j \in Job, PauseWorker(j) PROVE RatesRecorded'
  <2>1. UNCHANGED <<rates, now, quiet, grant>>
    BY <1>22 DEF PauseWorker, registry, history, Quietly
  <2> QED BY <2>1 DEF RatesRecorded
<1>23. ASSUME NEW j \in Job, PauseOnRecord(j) PROVE RatesRecorded'
  <2>1. /\ Held \in SUBSET Job /\ now' = now
        /\ rates' = PrunedRates(Held) /\ quiet' = quiet /\ grant' = grant
    BY <1>23 DEF PauseOnRecord, Pause, Quietly, history, Held
  <2> QED BY <2>1, PruneStands DEF RatesRecorded
<1>24. ASSUME NEW j \in Job, EndEdit(j) PROVE RatesRecorded'
  <2>1. UNCHANGED <<rates, now, quiet, grant>>
    BY <1>24 DEF EndEdit, registry, history, Quietly
  <2> QED BY <2>1 DEF RatesRecorded
<1>25. ASSUME NEW t \in Tab, NEW j \in Job, Start(t, j) PROVE RatesRecorded'
  <2>1. UNCHANGED <<rates, now, quiet, grant>>
    BY <1>25 DEF Start, registry, history, Quietly
  <2> QED BY <2>1 DEF RatesRecorded
<1>26. ASSUME NEW t \in Tab, NEW j \in Job, Edit(t, j) PROVE RatesRecorded'
  <2>1. UNCHANGED <<rates, now, quiet, grant>>
    BY <1>26 DEF Edit, registry, history, Quietly
  <2> QED BY <2>1 DEF RatesRecorded
<1>27. ASSUME NEW t \in Tab, Reconcile(t) PROVE RatesRecorded'
  <2>1. /\ Held \in SUBSET Job /\ now' = now
        /\ rates' = PrunedRates(Held) /\ quiet' = quiet /\ grant' = grant
    BY <1>27 DEF Reconcile, Snapshot, Quietly, history, Held
  <2> QED BY <2>1, PruneStands DEF RatesRecorded
<1>28. ASSUME NEW t \in Tab, ReconcileFails(t) PROVE RatesRecorded'
  <2>1. UNCHANGED <<rates, now, quiet, grant>>
    BY <1>28 DEF ReconcileFails, registry, history, Quietly
  <2> QED BY <2>1 DEF RatesRecorded
<1>29. ASSUME NEW t \in Tab, Close(t) PROVE RatesRecorded'
  <2>1. UNCHANGED <<rates, now, quiet, grant>>
    BY <1>29 DEF Close, registry, history, Quietly
  <2> QED BY <2>1 DEF RatesRecorded
<1>30. ASSUME NEW t \in Tab, ClearWorkspace(t) PROVE RatesRecorded'
  <2>1. ASSUME NEW g \in Group PROVE StandsFor(rates'[g], quiet'[g], grant'[g], now')
    BY <1>30 DEF ClearWorkspace, StandsFor, Latest, Unused, TypeOK, RegistryTypeOK
  <2> QED BY <2>1 DEF RatesRecorded
<1>31. CASE Tick
  <2>1. /\ now' = now + 1 /\ rates' = rates /\ quiet' = quiet /\ grant' = grant
    BY <1>31 DEF Tick, registry, history
  <2> QED BY <2>1, TimeStands DEF RatesRecorded
<1>32. CASE UNCHANGED vars
  <2>1. UNCHANGED <<rates, now, quiet, grant>>
    BY <1>32 DEF vars, registry, history
  <2> QED BY <2>1 DEF RatesRecorded
<1>33. ASSUME NEW j \in Job, Load(j) PROVE RatesRecorded'
  <2>1. UNCHANGED <<rates, now, quiet, grant>>
    BY <1>33 DEF Load, registry, history, Quietly
  <2> QED BY <2>1 DEF RatesRecorded
<1>34. ASSUME NEW t \in Tab, AskHeld(t) PROVE RatesRecorded'
  <2>1. UNCHANGED <<rates, now, quiet, grant>>
    BY <1>34 DEF AskHeld, registry, history
  <2> QED BY <2>1 DEF RatesRecorded
<1>35. ASSUME NEW t \in Tab, ForgoClear(t) PROVE RatesRecorded'
  <2>1. UNCHANGED <<rates, now, quiet, grant>>
    BY <1>35 DEF ForgoClear, registry, history
  <2> QED BY <2>1 DEF RatesRecorded
<1> QED BY <1>1, <1>2, <1>3, <1>4, <1>5, <1>6, <1>7, <1>8, <1>9, <1>10, <1>11,
       <1>12, <1>13, <1>14, <1>15, <1>16, <1>17, <1>18, <1>19, <1>20, <1>21,
       <1>22, <1>23, <1>24, <1>25, <1>26, <1>27, <1>28, <1>29, <1>30, <1>31,
       <1>32, <1>33, <1>34, <1>35 DEF Next, Worker, Answer

\* A step from "loop" to "slot" is a grant: reserve has checked the record.
LEMMA GrantIsSpaced ==
    ASSUME IInv, RatesRecorded, [Next]_vars, NEW j \in Job,
           pc[j] = "loop", pc'[j] = "slot"
    PROVE  /\ now >= quiet[GroupOf[j]]
           /\ grant[GroupOf[j]].at # 0 =>
                 now >= grant[GroupOf[j]].at + Latest(Interval[j], grant[GroupOf[j]].gap)
<1> DEFINE g == GroupOf[j]
<1>1. ReserveSlot(j)
  <2>1. pc \in [Job -> PC]
    BY DEF IInv, TypeOK
  <2>2. ASSUME NEW i \in Job, Worker(i) PROVE ReserveSlot(i) /\ i = j
    BY <2>1, <2>2 DEF Worker, GiveUp, Load, Enroll, Enqueue, AbortQueued, ActivateRun,
       ActivateRefused, BeginRun, Interrupt, Defer, ReserveSlot, PublishRequest, Send,
       RecordCooldown, ReleaseRun, UnlockExecution, Finish, Goto, Dismiss, LeaveCallback
  <2>3. ASSUME NEW i \in Job,
               WakeUp(i) \/ GrantLock(i) \/ Answer(i) \/ StorageFails(i)
                  \/ PauseWorker(i) \/ PauseOnRecord(i) \/ EndEdit(i)
        PROVE  FALSE
    BY <2>1, <2>3 DEF WakeUp, GrantLock, Answer, AnswerBlock, AnswerError, StorageFails, PauseWorker,
       PauseOnRecord, EndEdit, Goto, Dismiss, LeaveCallback, Quietly
  <2>4. ASSUME NEW t \in Tab, NEW i \in Job, Start(t, i) \/ Edit(t, i) PROVE FALSE
    BY <2>1, <2>4 DEF Start, Edit, Goto, Quietly
  <2>5. ASSUME NEW t \in Tab, Reconcile(t) \/ ReconcileFails(t) \/ Close(t) PROVE FALSE
    BY <2>1, <2>5 DEF Reconcile, ReconcileFails, Close, Quietly
  <2>6. ASSUME NEW t \in Tab, AskHeld(t) \/ ClearWorkspace(t) \/ ForgoClear(t) PROVE FALSE
    BY <2>1, <2>6 DEF AskHeld, ClearWorkspace, ForgoClear
  <2>7. CASE Tick \/ UNCHANGED vars
    BY <2>1, <2>7 DEF Tick, vars
  <2> QED BY <2>2, <2>3, <2>4, <2>5, <2>6, <2>7 DEF Next
<1>2. g \in Group /\ Interval[j] \in Nat /\ Interval[j] <= RateTTL
  OBVIOUS
<1>3. TypeOK /\ Due(j) <= now
  BY <1>1 DEF IInv, ReserveSlot, Reserve, Granted
<1>4. /\ rates[g].nextAt <= now
      /\ rates[g].lastAt # 0 => rates[g].lastAt + Interval[j] <= now
  BY <1>3, DueIsOver
<1>5. now >= quiet[g]
  BY <1>2, <1>3, QuietIsOver, RecordTypes
<1>6. ASSUME grant[g].at # 0 PROVE now >= grant[g].at + Latest(Interval[j], grant[g].gap)
  BY <1>2, <1>3, <1>4, <1>6, RecordTypes DEF RatesRecorded, StandsFor, Latest
<1> QED BY <1>5, <1>6

\* The records are true in every state.
THEOREM RecordsAreTrue == Spec => []RatesRecorded
<1>1. Init => RatesRecorded
  BY DEF Init, RegistryInit, RatesRecorded, StandsFor, Latest, Unused
<1>2. IInv /\ RatesRecorded /\ [Next]_vars => RatesRecorded'
  BY RatesStep
<1> QED BY <1>1, <1>2, Invariant, PTL DEF Spec

\* No two slots of one credential are closer than either task's interval, and no
\* slot precedes a recorded Retry-After deadline.
THEOREM SlotsAreSpaced == Spec => SlotsSpaced
<1>1. IInv /\ RatesRecorded /\ [Next]_vars =>
        [\A j \in Job : pc[j] = "loop" /\ pc'[j] = "slot" =>
          LET g == GroupOf[j]
          IN  /\ now >= quiet[g]
              /\ grant[g].at # 0 => now >= grant[g].at + Latest(Interval[j], grant[g].gap)]_vars
  BY GrantIsSpaced
<1> QED BY <1>1, Invariant, RecordsAreTrue, PTL DEF Spec, SlotsSpaced

-----------------------------------------------------------------------------
(* The tabs of a browser, with their locks, registry, crashes and failing  *)
(* storage, implement one queue that runs one task at a time.              *)

\* A step that neither moves a task between stages nor touches the line.
LEMMA Stutters ==
    ASSUME \A j \in Job : StageOf(j)' = StageOf(j), ahead' = ahead
    PROVE  UNCHANGED Queue!vars
BY DEF Queue!vars

\* A move of one task's worker moves that task alone.
LEMMA OneMoves ==
    ASSUME TypeOK, NEW j \in Job, NEW l \in PC, Goto(j, l)
    PROVE  \A i \in Job \ {j} : StageOf(i)' = StageOf(i)
BY DEF TypeOK, Goto, StageOf, Running

\* The worker of j moves within a stage.
LEMMA Within ==
    ASSUME TypeOK, NEW j \in Job, NEW l \in PC, Goto(j, l), ahead' = ahead,
           StageOf(j)' = StageOf(j)
    PROVE  UNCHANGED Queue!vars
BY OneMoves, Stutters

\* Task j leaves, and nobody waits behind it any more.
LEMMA Leaves ==
    ASSUME TypeOK, NEW j \in Job, NEW l \in PC, Goto(j, l),
           StageOf(j)' = "idle", ahead' = Dequeued({j})
    PROVE  Queue!Leave({j})
BY OneMoves DEF Queue!Leave, Dequeued

\* The line is as it was when a task leaves that does not wait.
LEMMA NotInLine ==
    ASSUME LocksAgree, TypeOK, NEW j \in Job, pc[j] # "queued"
    PROVE  Dequeued({j}) = ahead
<1>1. ASSUME NEW i \in Job PROVE (IF i \in {j} THEN {} ELSE ahead[i] \ {j}) = ahead[i]
  BY DEF LocksAgree, TypeOK
<1> QED BY <1>1 DEF Dequeued, TypeOK

\* A task that loses the execution lock leaves; it was not in line.
LEMMA Drops ==
    ASSUME TypeOK, LocksAgree, NEW j \in Job, pc[j] \in Running, LeaveCallback(j)
    PROVE  Queue!Next
<1>1. Goto(j, "closing") /\ "closing" \in PC /\ ahead' = Dequeued({j})
  BY NotInLine DEF LeaveCallback, PC, Outside, Running
<1>2. StageOf(j)' = "idle"
  BY <1>1 DEF Goto, TypeOK, StageOf, Running
<1> QED BY <1>1, <1>2, Leaves DEF Queue!Next

\* Every step of the tabs is a step of the queue, or none.
LEMMA StepImplements == IInv /\ [Next]_vars => [Queue!Next]_(Queue!vars)
<1> SUFFICES ASSUME IInv, [Next]_vars PROVE [Queue!Next]_(Queue!vars)
  OBVIOUS
<1> USE DEF IInv
<1>1. ASSUME NEW j \in Job, GiveUp(j) PROVE [Queue!Next]_(Queue!vars)
  <2>1. Goto(j, "off") /\ "off" \in PC /\ ahead' = ahead
    BY <1>1 DEF GiveUp, Dismiss, PC, Outside, Running
  <2>2. StageOf(j)' = StageOf(j)
    BY <1>1, <2>1 DEF GiveUp, Dismiss, Goto, TypeOK, StageOf, Running
  <2> QED BY <2>1, <2>2, Within
<1>2. ASSUME NEW j \in Job, Enroll(j) PROVE [Queue!Next]_(Queue!vars)
  <2>1. ASSUME NEW l \in {"enrolled", "closing"}, Goto(j, l) PROVE UNCHANGED Queue!vars
    <3>1. l \in PC /\ ahead' = ahead
      BY <1>2 DEF Enroll, PC, Outside
    <3>2. StageOf(j)' = StageOf(j)
      BY <1>2, <2>1 DEF Enroll, Goto, TypeOK, StageOf, Running
    <3> QED BY <2>1, <3>1, <3>2, Within
  <2> QED BY <1>2, <2>1 DEF Enroll
<1>3. ASSUME NEW j \in Job, Enqueue(j) PROVE [Queue!Next]_(Queue!vars)
  <2>1. CASE paused[j]
    <3>1. Goto(j, "closing") /\ "closing" \in PC /\ ahead' = ahead
      BY <1>3, <2>1 DEF Enqueue, PC, Outside
    <3>2. StageOf(j)' = StageOf(j)
      BY <1>3, <3>1 DEF Enqueue, Goto, TypeOK, StageOf, Running
    <3> QED BY <3>1, <3>2, Within
  <2>2. CASE ~paused[j]
    <3> DEFINE inLine == {i \in Job : pc[i] = "queued"}
    <3>1. Goto(j, "queued") /\ "queued" \in PC /\ ahead' = [ahead EXCEPT ![j] = inLine]
      BY <1>3, <2>2 DEF Enqueue, PC
    <3>2. inLine = {i \in Job : StageOf(i) = "waiting"}
      BY DEF StageOf, Running
    <3>3. StageOf(j) = "idle" /\ StageOf(j)' = "waiting"
      BY <1>3, <3>1 DEF Enqueue, Goto, TypeOK, StageOf, Running
    <3>4. [i \in Job |-> StageOf(i)]' = [[i \in Job |-> StageOf(i)] EXCEPT ![j] = "waiting"]
      BY <3>1, <3>3, OneMoves
    <3>5. Queue!Waiting = inLine
      BY <3>2 DEF Queue!Waiting
    <3>6. Queue!Join(j)
      BY <3>1, <3>3, <3>4, <3>5 DEF Queue!Join
    <3> QED BY <3>6 DEF Queue!Next
  <2> QED BY <2>1, <2>2
<1>4. ASSUME NEW j \in Job, AbortQueued(j) PROVE [Queue!Next]_(Queue!vars)
  <2>1. Goto(j, "closing") /\ "closing" \in PC /\ ahead' = Dequeued({j})
    BY <1>4 DEF AbortQueued, PC, Outside
  <2>2. StageOf(j)' = "idle"
    BY <2>1 DEF Goto, TypeOK, StageOf, Running
  <2> QED BY <2>1, <2>2, Leaves DEF Queue!Next
<1>5. ASSUME NEW j \in Job, GrantLock(j) PROVE [Queue!Next]_(Queue!vars)
  <2>1. CASE paused[j]
    <3>1. Goto(j, "closing") /\ "closing" \in PC /\ ahead' = Dequeued({j})
      BY <1>5, <2>1 DEF GrantLock, PC, Outside
    <3>2. StageOf(j)' = "idle"
      BY <3>1 DEF Goto, TypeOK, StageOf, Running
    <3> QED BY <3>1, <3>2, Leaves DEF Queue!Next
  <2>2. CASE ~paused[j]
    <3>1. Goto(j, "granted") /\ "granted" \in PC /\ ahead' = Dequeued({j})
      BY <1>5, <2>2 DEF GrantLock, PC, Running
    <3>2. StageOf(j) = "waiting" /\ StageOf(j)' = "running"
      BY <1>5, <3>1 DEF GrantLock, Goto, TypeOK, StageOf, Running
    <3>3. [i \in Job |-> StageOf(i)]' = [[i \in Job |-> StageOf(i)] EXCEPT ![j] = "running"]
      BY <3>1, <3>2, OneMoves
    <3>4. Queue!Busy = {}
      BY <1>5 DEF GrantLock, Queue!Busy, LocksAgree, StageOf, Running
    <3>5. ahead' = [i \in Job |-> ahead[i] \ {j}] /\ ahead[j] = {}
      BY <1>5, <3>1 DEF Dequeued, GrantLock
    <3>6. Queue!Admit(j)
      BY <3>2, <3>3, <3>4, <3>5 DEF Queue!Admit
    <3> QED BY <3>6 DEF Queue!Next
  <2> QED BY <2>1, <2>2
<1>6. ASSUME NEW j \in Job, ActivateRun(j) PROVE [Queue!Next]_(Queue!vars)
  <2>1. Goto(j, "active") /\ "active" \in PC /\ ahead' = ahead
    BY <1>6 DEF ActivateRun, PC, Outside, Running
  <2>2. StageOf(j)' = StageOf(j)
    BY <1>6, <2>1 DEF ActivateRun, Goto, TypeOK, StageOf, Running
  <2> QED BY <2>1, <2>2, Within
<1>7. ASSUME NEW j \in Job, ActivateRefused(j) PROVE [Queue!Next]_(Queue!vars)
  <2>1. pc[j] \in Running /\ LeaveCallback(j)
    BY <1>7 DEF ActivateRefused, Running
  <2> QED BY <2>1, Drops
<1>8. ASSUME NEW j \in Job, BeginRun(j) PROVE [Queue!Next]_(Queue!vars)
  <2>1. ASSUME NEW l \in {"ending", "loop"}, Goto(j, l) PROVE UNCHANGED Queue!vars
    <3>1. l \in PC /\ ahead' = ahead
      BY <1>8 DEF BeginRun, PC, Running
    <3>2. StageOf(j)' = StageOf(j)
      BY <1>8, <2>1 DEF BeginRun, Goto, TypeOK, StageOf, Running
    <3> QED BY <2>1, <3>1, <3>2, Within
  <2> QED BY <1>8, <2>1 DEF BeginRun
<1>9. ASSUME NEW j \in Job, Interrupt(j) PROVE [Queue!Next]_(Queue!vars)
  <2>1. Goto(j, "ending") /\ "ending" \in PC /\ ahead' = ahead
    BY <1>9 DEF Interrupt, PC, Outside, Running
  <2>2. StageOf(j)' = StageOf(j)
    BY <1>9, <2>1 DEF Interrupt, Goto, TypeOK, StageOf, Running
  <2> QED BY <2>1, <2>2, Within
<1>10. ASSUME NEW j \in Job, Defer(j) PROVE [Queue!Next]_(Queue!vars)
  <2>1. Goto(j, "waiting") /\ "waiting" \in PC /\ ahead' = ahead
    BY <1>10 DEF Defer, PC, Outside, Running
  <2>2. StageOf(j)' = StageOf(j)
    BY <1>10, <2>1 DEF Defer, Goto, TypeOK, StageOf, Running
  <2> QED BY <2>1, <2>2, Within
<1>11. ASSUME NEW j \in Job, WakeUp(j) PROVE [Queue!Next]_(Queue!vars)
  <2>1. Goto(j, "loop") /\ "loop" \in PC /\ ahead' = ahead
    BY <1>11 DEF WakeUp, PC, Outside, Running
  <2>2. StageOf(j)' = StageOf(j)
    BY <1>11, <2>1 DEF WakeUp, Goto, TypeOK, StageOf, Running
  <2> QED BY <2>1, <2>2, Within
<1>12. ASSUME NEW j \in Job, ReserveSlot(j) PROVE [Queue!Next]_(Queue!vars)
  <2>1. Goto(j, "slot") /\ "slot" \in PC /\ ahead' = ahead
    BY <1>12 DEF ReserveSlot, PC, Outside, Running, locks
  <2>2. StageOf(j)' = StageOf(j)
    BY <1>12, <2>1 DEF ReserveSlot, Goto, TypeOK, StageOf, Running
  <2> QED BY <2>1, <2>2, Within
<1>13. ASSUME NEW j \in Job, PublishRequest(j) PROVE [Queue!Next]_(Queue!vars)
  <2>1. Goto(j, "ready") /\ "ready" \in PC /\ ahead' = ahead
    BY <1>13 DEF PublishRequest, PC, Outside, Running
  <2>2. StageOf(j)' = StageOf(j)
    BY <1>13, <2>1 DEF PublishRequest, Goto, TypeOK, StageOf, Running
  <2> QED BY <2>1, <2>2, Within
<1>14. ASSUME NEW j \in Job, Send(j) PROVE [Queue!Next]_(Queue!vars)
  <2>1. Goto(j, "inflight") /\ "inflight" \in PC /\ ahead' = ahead
    BY <1>14 DEF Send, PC, Running
  <2>2. StageOf(j) = "running" /\ StageOf(j)' = "calling"
    BY <1>14, <2>1 DEF Send, Goto, TypeOK, StageOf, Running
  <2>3. [i \in Job |-> StageOf(i)]' = [[i \in Job |-> StageOf(i)] EXCEPT ![j] = "calling"]
    BY <2>1, <2>2, OneMoves
  <2>4. Queue!Call(j)
    BY <2>1, <2>2, <2>3 DEF Queue!Call
  <2> QED BY <2>4 DEF Queue!Next
<1>15. ASSUME NEW j \in Job, AnswerBlock(j) PROVE [Queue!Next]_(Queue!vars)
  <2>1. ASSUME NEW l \in {"loop", "ending", "failed"}, Goto(j, l) PROVE Queue!Return(j)
    <3>1. l \in PC /\ ahead' = ahead
      BY <1>15 DEF AnswerBlock, PC, Running, locks
    <3>2. StageOf(j) = "calling" /\ StageOf(j)' = "running"
      BY <1>15, <2>1 DEF AnswerBlock, Goto, TypeOK, StageOf, Running
    <3>3. [i \in Job |-> StageOf(i)]' = [[i \in Job |-> StageOf(i)] EXCEPT ![j] = "running"]
      BY <2>1, <3>1, <3>2, OneMoves
    <3> QED BY <3>1, <3>2, <3>3 DEF Queue!Return
  <2> QED BY <1>15, <2>1 DEF AnswerBlock, Queue!Next
<1>16. ASSUME NEW j \in Job, AnswerError(j) PROVE [Queue!Next]_(Queue!vars)
  <2>1. ASSUME NEW l \in {"loop", "ending", "failed"}, Goto(j, l) PROVE Queue!Return(j)
    <3>1. l \in PC /\ ahead' = ahead
      BY <1>16 DEF AnswerError, PC, Running, locks
    <3>2. StageOf(j) = "calling" /\ StageOf(j)' = "running"
      BY <1>16, <2>1 DEF AnswerError, Goto, TypeOK, StageOf, Running
    <3>3. [i \in Job |-> StageOf(i)]' = [[i \in Job |-> StageOf(i)] EXCEPT ![j] = "running"]
      BY <2>1, <3>1, <3>2, OneMoves
    <3> QED BY <3>1, <3>2, <3>3 DEF Queue!Return
  <2> QED BY <1>16, <2>1 DEF AnswerError, Queue!Next
<1>17. ASSUME NEW j \in Job, RecordCooldown(j) PROVE [Queue!Next]_(Queue!vars)
  <2>1. ASSUME NEW l \in {"ending", "loop"}, Goto(j, l) PROVE UNCHANGED Queue!vars
    <3>1. l \in PC /\ ahead' = ahead
      BY <1>17 DEF RecordCooldown, PC, Running, locks
    <3>2. StageOf(j)' = StageOf(j)
      BY <1>17, <2>1 DEF RecordCooldown, Goto, TypeOK, StageOf, Running
    <3> QED BY <2>1, <3>1, <3>2, Within
  <2> QED BY <1>17, <2>1 DEF RecordCooldown
<1>18. ASSUME NEW j \in Job, ReleaseRun(j) PROVE [Queue!Next]_(Queue!vars)
  <2>1. Goto(j, "released") /\ "released" \in PC /\ ahead' = ahead
    BY <1>18 DEF ReleaseRun, PC, Outside, Running
  <2>2. StageOf(j)' = StageOf(j)
    BY <1>18, <2>1 DEF ReleaseRun, Goto, TypeOK, StageOf, Running
  <2> QED BY <2>1, <2>2, Within
<1>19. ASSUME NEW j \in Job, UnlockExecution(j) PROVE [Queue!Next]_(Queue!vars)
  <2>1. pc[j] \in Running /\ LeaveCallback(j)
    BY <1>19 DEF UnlockExecution, Running
  <2> QED BY <2>1, Drops
<1>20. ASSUME NEW j \in Job, Finish(j) PROVE [Queue!Next]_(Queue!vars)
  <2>1. Goto(j, "off") /\ "off" \in PC /\ ahead' = ahead
    BY <1>20 DEF Finish, Dismiss, PC, Outside, Running
  <2>2. StageOf(j)' = StageOf(j)
    BY <1>20, <2>1 DEF Finish, Dismiss, Goto, TypeOK, StageOf, Running
  <2> QED BY <2>1, <2>2, Within
<1>21. ASSUME NEW j \in Job, StorageFails(j) PROVE [Queue!Next]_(Queue!vars)
  <2>1. CASE pc[j] \in {"granted", "ending"} /\ LeaveCallback(j)
    BY <2>1, Drops DEF Running
  <2>2. ASSUME NEW l \in {"closing", "ending", "off"}, Goto(j, l), ahead' = ahead,
               pc[j] \in {"loaded", "enrolled", "closing"} => l \in {"closing", "off"},
               pc[j] \in {"loop", "waiting", "slot", "failed"} => l = "ending",
               pc[j] \in {"loaded", "enrolled", "closing", "loop", "waiting", "slot", "failed"}
        PROVE  UNCHANGED Queue!vars
    <3>1. l \in PC
      BY DEF PC, Outside, Running
    <3>2. StageOf(j)' = StageOf(j)
      BY <2>2 DEF Goto, TypeOK, StageOf, Running
    <3> QED BY <2>2, <3>1, <3>2, Within
  <2>3. \/ pc[j] \in {"granted", "ending"} /\ LeaveCallback(j)
        \/ pc[j] \in {"loaded", "enrolled"} /\ Goto(j, "closing") /\ ahead' = ahead
        \/ pc[j] = "closing" /\ Goto(j, "off") /\ ahead' = ahead
        \/ /\ pc[j] \in {"loop", "waiting", "slot", "failed"}
           /\ Goto(j, "ending") /\ ahead' = ahead
    BY <1>21 DEF StorageFails, Dismiss
  <2> QED BY <2>1, <2>2, <2>3
<1>22. ASSUME NEW j \in Job, PauseWorker(j) PROVE [Queue!Next]_(Queue!vars)
  <2>1. pc' = pc /\ ahead' = ahead
    BY <1>22 DEF PauseWorker, locks
  <2> QED BY <2>1, Stutters DEF StageOf
<1>23. ASSUME NEW j \in Job, PauseOnRecord(j) PROVE [Queue!Next]_(Queue!vars)
  <2>1. pc' = pc /\ ahead' = ahead
    BY <1>23 DEF PauseOnRecord, locks
  <2> QED BY <2>1, Stutters DEF StageOf
<1>24. ASSUME NEW j \in Job, EndEdit(j) PROVE [Queue!Next]_(Queue!vars)
  <2>1. Goto(j, "off") /\ "off" \in PC /\ ahead' = ahead
    BY <1>24 DEF EndEdit, PC, Outside, Running
  <2>2. StageOf(j)' = StageOf(j)
    BY <1>24, <2>1 DEF EndEdit, Goto, TypeOK, StageOf, Running
  <2> QED BY <2>1, <2>2, Within
<1>25. ASSUME NEW t \in Tab, NEW j \in Job, Start(t, j) PROVE [Queue!Next]_(Queue!vars)
  <2>1. Goto(j, "claimed") /\ "claimed" \in PC /\ ahead' = ahead
    BY <1>25 DEF Start, PC, Outside, Editing
  <2>2. StageOf(j)' = StageOf(j)
    BY <1>25, <2>1 DEF Start, Goto, LocksAgree, TypeOK, StageOf, Running
  <2> QED BY <2>1, <2>2, Within
<1>26. ASSUME NEW t \in Tab, NEW j \in Job, Edit(t, j) PROVE [Queue!Next]_(Queue!vars)
  <2>1. Goto(j, "editing") /\ "editing" \in PC /\ ahead' = ahead
    BY <1>26 DEF Edit, PC, Outside, Editing
  <2>2. StageOf(j)' = StageOf(j)
    BY <1>26, <2>1 DEF Edit, Goto, LocksAgree, TypeOK, StageOf, Running
  <2> QED BY <2>1, <2>2, Within
<1>27. ASSUME NEW t \in Tab, Reconcile(t) PROVE [Queue!Next]_(Queue!vars)
  <2>1. pc' = pc /\ ahead' = ahead
    BY <1>27 DEF Reconcile, locks
  <2> QED BY <2>1, Stutters DEF StageOf
<1>28. ASSUME NEW t \in Tab, ReconcileFails(t) PROVE [Queue!Next]_(Queue!vars)
  <2>1. pc' = pc /\ ahead' = ahead
    BY <1>28 DEF ReconcileFails, locks
  <2> QED BY <2>1, Stutters DEF StageOf
<1>29. ASSUME NEW t \in Tab, Close(t) PROVE [Queue!Next]_(Queue!vars)
  <2> DEFINE gone == {j \in Job : holder[j] = t}
  <2>1. \A j \in Job : StageOf(j)' = IF j \in gone THEN "idle" ELSE StageOf(j)
    BY <1>29 DEF Close, StageOf, Running
  <2>2. ahead' = [j \in Job |-> IF j \in gone THEN {} ELSE ahead[j] \ gone]
    BY <1>29 DEF Close, Dequeued
  <2>3. Queue!Leave(gone)
    BY <2>1, <2>2 DEF Queue!Leave
  <2> QED BY <2>3 DEF Queue!Next
<1>30. ASSUME NEW t \in Tab, ClearWorkspace(t) PROVE [Queue!Next]_(Queue!vars)
  <2>1. pc' = pc /\ ahead' = ahead
    BY <1>30 DEF ClearWorkspace, locks
  <2> QED BY <2>1, Stutters DEF StageOf
<1>31. CASE Tick
  <2>1. pc' = pc /\ ahead' = ahead
    BY <1>31 DEF Tick, locks
  <2> QED BY <2>1, Stutters DEF StageOf
<1>32. CASE UNCHANGED vars
  <2>1. pc' = pc /\ ahead' = ahead
    BY <1>32 DEF vars, locks
  <2> QED BY <2>1, Stutters DEF StageOf
<1>33. ASSUME NEW j \in Job, Load(j) PROVE [Queue!Next]_(Queue!vars)
  <2>1. Goto(j, "loaded") /\ "loaded" \in PC /\ ahead' = ahead
    BY <1>33 DEF Load, PC, Outside, Running
  <2>2. StageOf(j)' = StageOf(j)
    BY <1>33, <2>1 DEF Load, Goto, TypeOK, StageOf, Running
  <2> QED BY <2>1, <2>2, Within
<1>34. ASSUME NEW t \in Tab, AskHeld(t) PROVE [Queue!Next]_(Queue!vars)
  <2>1. pc' = pc /\ ahead' = ahead
    BY <1>34 DEF AskHeld
  <2> QED BY <2>1, Stutters DEF StageOf
<1>35. ASSUME NEW t \in Tab, ForgoClear(t) PROVE [Queue!Next]_(Queue!vars)
  <2>1. pc' = pc /\ ahead' = ahead
    BY <1>35 DEF ForgoClear
  <2> QED BY <2>1, Stutters DEF StageOf
<1> QED BY <1>1, <1>2, <1>3, <1>4, <1>5, <1>6, <1>7, <1>8, <1>9, <1>10, <1>11,
       <1>12, <1>13, <1>14, <1>15, <1>16, <1>17, <1>18, <1>19, <1>20, <1>21,
       <1>22, <1>23, <1>24, <1>25, <1>26, <1>27, <1>28, <1>29, <1>30, <1>31,
       <1>32, <1>33, <1>34, <1>35 DEF Next, Worker, Answer

\* Scheduler implements TranslationQueue: tasks are admitted in the order in
\* which they asked, one at a time, in every browser and through every failure.
THEOREM SchedulerImplementsQueue == Spec => ImplementsQueue
<1>1. ASSUME Init
      PROVE  Queue!Init
  <2>1. pc = [j \in Job |-> "off"] /\ ahead = [j \in Job |-> {}]
    BY <1>1 DEF Init
  <2>2. \A j \in Job : pc[j] = "off"
    BY <2>1
  <2>3. \A j \in Job : StageOf(j) = "idle"
    BY <2>2 DEF StageOf, Running
  <2> QED BY <2>1, <2>3 DEF Queue!Init
<1> QED BY <1>1, StepImplements, Invariant, PTL DEF Spec, ImplementsQueue, Queue!Spec

=============================================================================
