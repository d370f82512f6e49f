------------------------------- MODULE Runner -------------------------------
(***************************************************************************)
(* One task's run in one tab: Runner of src/web/src/runner.ts with the     *)
(* part of startJob and persistJob (src/web/src/workspace.ts) that lets it *)
(* start again after a pause, a failed save or a crash.                    *)
(*                                                                         *)
(* A block is a half-open interval of cue positions.  A save is two steps, *)
(* as the code awaits it: the tab may be paused, stopped or killed between *)
(* asking for the write and its end.  What a request brings back is one of *)
(* the courses of Protocol; how long anything takes is left open.          *)
(***************************************************************************)
EXTENDS Protocol

CONSTANTS
    Cues,       \* number of cues of the document
    Blockings,  \* the block lists buildChunks may have cut it into
    MaxRetries, \* job.settings.maxRetries
    MaxBusy,    \* bound on the rate-limited answers
    MaxRuns,    \* bound on how often the user starts the task
    Faults      \* whether a write to localStorage may fail

\* Blocks follow one another without gap and cover every cue.
Tiles(chunks) ==
    /\ chunks # <<>>
    /\ chunks[1].start = 0 /\ chunks[Len(chunks)].end = Cues
    /\ \A i \in 1 .. Len(chunks) : chunks[i].start < chunks[i].end
    /\ \A i \in 1 .. Len(chunks) - 1 : chunks[i].end = chunks[i + 1].start

Block == [start : 0 .. Cues, end : 0 .. Cues]
CuesOf(c) == c.start .. c.end - 1

ASSUME RunnerAssumption ==
    /\ Cues \in Nat \ {0}
    /\ Blockings \subseteq Seq(Block)
    /\ \A b \in Blockings : Tiles(b)
    /\ MaxRetries \in Nat /\ MaxBusy \in Nat /\ MaxRuns \in Nat
    /\ Faults \in BOOLEAN

VARIABLES
    job,        \* the task in this tab's memory
    saved,      \* the task in localStorage
    dirty,      \* the last save failed (workspace.ts dirty)
    pc,         \* where the run is
    next,       \* where it goes on after a save
    paused,     \* runtime.pauseRequested
    discarded,  \* stop() was called
    attempt,    \* attempts used up on the current block
    transport,  \* "direct" or "server"
    failure,    \* the exchange that failed and is being handled
    runsLeft,   \* starts the user still has
    busyLeft,   \* rate-limited answers the provider still has
    sent,       \* history: requests that went out
    received,   \* history: cues of the blocks that came back and may be kept
    failures,   \* history: failures an attempt is charged for, on the current block
    arrived,    \* history: failed requests that got to the provider, on the current block
    cooling,    \* the registry has a cooldown that is not over
    owed        \* history: a wait the page was asked for is not over

progress == <<job, saved, dirty>>
control == <<paused, discarded, attempt, transport, failure>>
history == <<sent, received, failures, arrived>>
cooldown == <<cooling, owed>>
bounds == <<runsLeft, busyLeft>>
vars == <<progress, pc, next, control, bounds, history, cooldown>>

PC == {"off", "top", "wait", "reserve", "publish", "inflight", "failed", "saving", "ended"}
Live == PC \ {"off", "ended"}

\* What an exchange ends with: the page's view of it, and the truth.
Exchange(route, block, c) ==
    [route |-> route, block |-> block, verdict |-> Translate(route, CuesOf(block), c),
     end |-> c.end, cut |-> c.cut, reached |-> c.reached,
     charged |-> Charged(route, c), asked |-> Asked(c)]
Exchanges ==
    UNION {{Exchange(route, block, c) : c \in Courses(route, CuesOf(block))} :
              route \in {"direct", "server"}, block \in {b \in Block : b.start < b.end}}
None == [verdict |-> Fatal, end |-> "invalid", cut |-> "no", asked |-> 0]

Task == [chunks : Seq(Block), completedChunks : Nat, translated : SUBSET (0 .. Cues - 1),
         requests : Nat, status : {"ready", "paused", "completed", "error"}]

RunTypes ==
    /\ job \in Task /\ saved \in Task
    /\ dirty \in BOOLEAN /\ paused \in BOOLEAN /\ discarded \in BOOLEAN
    /\ pc \in PC
    /\ next \in {"top", "wait", "publish", "ended"}
    /\ attempt \in 0 .. MaxRetries
    /\ transport \in {"direct", "server"}
    /\ failure.verdict \in Failure
    /\ runsLeft \in 0 .. MaxRuns /\ busyLeft \in 0 .. MaxBusy
    /\ sent \in Nat /\ failures \in Nat
    /\ received \subseteq 0 .. Cues - 1
ProviderTypes == arrived \in Nat /\ cooling \in BOOLEAN /\ owed \in BOOLEAN
TypeOK == RunTypes /\ ProviderTypes

NewTask(b) == [chunks |-> b, completedChunks |-> 0, translated |-> {}, requests |-> 0,
               status |-> "ready"]

Init ==
    /\ \E b \in Blockings : job = NewTask(b)
    /\ saved = job /\ dirty = FALSE
    /\ pc = "off" /\ next = "top"
    /\ paused = FALSE /\ discarded = FALSE
    /\ attempt = 0 /\ transport = "direct" /\ failure = None
    /\ runsLeft = MaxRuns /\ busyLeft = MaxBusy
    /\ sent = 0 /\ received = {} /\ failures = 0 /\ arrived = 0
    /\ cooling = FALSE /\ owed = FALSE

-----------------------------------------------------------------------------
(* Helpers.                                                                *)

AllDone(t) == t.completedChunks = Len(t.chunks)
Current == job.chunks[job.completedChunks + 1]

\* Ask for a save of t, and go on at l when it is written.
Save(t, l) == job' = t /\ pc' = "saving" /\ next' = l /\ UNCHANGED <<saved, dirty>>

\* The catch of run: the task t gets its final status, s if it is not done, and is
\* saved once more, unless the run was discarded.
Throw(t, s) ==
    IF discarded THEN job' = t /\ pc' = "ended" /\ UNCHANGED <<saved, dirty, next>>
    ELSE Save([t EXCEPT !.status = IF AllDone(t) THEN "completed" ELSE s], "ended")

Goto(l) == pc' = l /\ UNCHANGED <<progress, next>>

-----------------------------------------------------------------------------
(* Starting.                                                               *)

\* startJob: unsaved progress is written first (its failure ends the start),
\* then the task is taken from storage; run resets the runtime and saves.
Start ==
    /\ pc \in {"off", "ended"} /\ runsLeft > 0 /\ ~dirty /\ ~AllDone(saved)
    /\ runsLeft' = runsLeft - 1
    /\ Save([saved EXCEPT !.status = "paused"], "top")
    /\ paused' = FALSE /\ discarded' = FALSE
    /\ attempt' = 0 /\ transport' = "direct" /\ failure' = None
    /\ failures' = 0 /\ arrived' = 0
    /\ UNCHANGED <<busyLeft, sent, received, cooldown>>

PersistDirty ==
    /\ pc = "ended" /\ dirty
    /\ saved' = job /\ dirty' = FALSE
    /\ UNCHANGED <<job, pc, next, control, bounds, history, cooldown>>

-----------------------------------------------------------------------------
(* The loop over blocks.                                                   *)

LoopTop ==
    /\ pc = "top"
    /\ \/ AllDone(job) /\ Goto("ended")
       \/ ~AllDone(job) /\ paused /\ Throw(job, "paused")
       \/ ~AllDone(job) /\ ~paused /\ Goto("wait")
    /\ attempt' = 0 /\ failure' = None /\ failures' = 0 /\ arrived' = 0
    /\ UNCHANGED <<paused, discarded, transport, bounds, sent, received, cooldown>>

\* Fault: only the timer ends a wait.
WaitDeaf ==
    /\ pc = "wait" /\ ~paused
    /\ Goto("reserve")
    /\ UNCHANGED <<control, bounds, history, cooldown>>

\* wait(retryAt): a pause interrupts it.
Wait ==
    /\ pc = "wait"
    /\ IF paused THEN Throw(job, "paused") ELSE Goto("reserve")
    /\ UNCHANGED <<control, bounds, history, cooldown>>

\* Fault: the request is counted in memory and saved with its answer.
ReserveUnsaved ==
    /\ pc = "reserve"
    /\ \/ paused /\ Throw(job, "paused")
       \/ /\ ~paused /\ ~cooling
          /\ job' = [job EXCEPT !.requests = @ + 1]
          /\ pc' = "publish" /\ UNCHANGED <<saved, dirty, next>>
    /\ UNCHANGED <<control, bounds, history, cooldown>>

\* reserve answers "later" as often as it likes, and while a cooldown lasts.  A pause
\* is seen after every answer; a slot that was granted is then spent for nothing.
ReserveSlot ==
    /\ pc = "reserve"
    /\ \/ paused /\ Throw(job, "paused")
       \/ ~paused /\ ~cooling /\ Save([job EXCEPT !.requests = @ + 1], "publish")
    /\ UNCHANGED <<control, bounds, history, cooldown>>

\* After publish and reconcile: the last look at the pause flag, then the
\* request goes out.
Send ==
    /\ pc = "publish"
    /\ IF paused
       THEN Throw([job EXCEPT !.requests = @ - 1], "paused") /\ UNCHANGED sent
       ELSE Goto("inflight") /\ sent' = sent + 1
    /\ UNCHANGED <<control, bounds, received, failures, arrived, cooldown>>

-----------------------------------------------------------------------------
(* Answers.                                                                *)

\* The whole block, its translations and its progress, in one save; a stopped
\* run drops it.
Committed(ids) ==
    LET t == [job EXCEPT !.translated = @ \cup ids, !.completedChunks = @ + 1]
    IN  [t EXCEPT !.status = IF AllDone(t) THEN "completed" ELSE @]

\* Fault: a pause asked for while the request was out drops its answer.
AnswerDropped(x) ==
    /\ pc = "inflight" /\ Accepted(x.verdict)
    /\ IF paused THEN Throw(job, "paused")
       ELSE Save(Committed(x.verdict.translated), "top")
    /\ received' = received \cup x.verdict.translated
    /\ UNCHANGED <<control, bounds, sent, failures, arrived, cooldown>>

\* Fault: a stopped run commits what it was waiting for.
AnswerAfterStop(x) ==
    /\ pc = "inflight" /\ Accepted(x.verdict)
    /\ Save(Committed(x.verdict.translated), "top")
    /\ received' = received \cup x.verdict.translated
    /\ UNCHANGED <<control, bounds, sent, failures, arrived, cooldown>>

AnswerBlock(x) ==
    /\ pc = "inflight" /\ Accepted(x.verdict)
    /\ IF discarded THEN Throw(job, "paused") /\ UNCHANGED received
       ELSE /\ Save(Committed(x.verdict.translated), "top")
            /\ received' = received \cup x.verdict.translated
    /\ UNCHANGED <<control, bounds, sent, failures, arrived, cooldown>>

\* Only stop() aborts a request.  The limiter is busy MaxBusy times at most.
AnswerError(x) ==
    /\ pc = "inflight" /\ ~Accepted(x.verdict)
    /\ x.cut = "abort" => discarded
    /\ x.verdict.rateLimited => busyLeft > 0
    /\ busyLeft' = IF x.verdict.rateLimited THEN busyLeft - 1 ELSE busyLeft
    /\ IF discarded THEN Throw(job, "paused") /\ UNCHANGED <<failure, failures, arrived, owed>>
       ELSE /\ Goto("failed") /\ failure' = x
            /\ failures' = IF x.charged THEN failures + 1 ELSE failures
            /\ arrived' = IF x.reached THEN arrived + 1 ELSE arrived
            /\ owed' = (owed \/ (x.end # "masked" /\ x.asked > 0))
    /\ UNCHANGED <<paused, discarded, attempt, transport, runsLeft, sent, received, cooling>>

\* The block at index completedChunks is replaced by its halves, the left one
\* the longer.
Middle(c) == c.start + (c.end - c.start + 1) \div 2

\* Fault: the right half starts one cue late.
HalvesApart(c) ==
    <<[start |-> c.start, end |-> Middle(c)], [start |-> Middle(c) + 1, end |-> c.end]>>

Halves(c) == <<[start |-> c.start, end |-> Middle(c)], [start |-> Middle(c), end |-> c.end]>>

\* The element after the first n is replaced by those of h.
Splice(q, n, h) == SubSeq(q, 1, n) \o h \o SubSeq(q, n + 2, Len(q))

\* Fault: the block before is cut away with the one that is split.
SplitTwo(t) ==
    SubSeq(t.chunks, 1, t.completedChunks - 1)
        \o Halves(t.chunks[t.completedChunks + 1])
        \o SubSeq(t.chunks, t.completedChunks + 2, Len(t.chunks))

SplitChunks(t) ==
    Splice(t.chunks, t.completedChunks, Halves(t.chunks[t.completedChunks + 1]))

Error == failure.verdict
FallsBack == Error.unreachable /\ transport = "direct"
Splittable == Error.structure /\ Current.end - Current.start > 1

\* Fault: off by one.
LastAttemptLate == attempt > MaxRetries

LastAttempt == attempt = MaxRetries

\* Fault: the server route is tried at once, on the slot of the direct request.
FallBackAtOnce ==
    /\ FallsBack /\ transport' = "server"
    /\ Save(job, "publish") /\ UNCHANGED attempt

FallBack ==
    /\ FallsBack /\ transport' = "server"
    /\ Save(job, "wait") /\ UNCHANGED attempt

\* Fault: a paused task records no cooldown.
CoolUnlessPaused == cooling' = (cooling \/ (Error.wait > 0 /\ ~paused))

\* The wait is on the credential's record before anything else is done.
Cool == cooling' = (cooling \/ Error.wait > 0)

\* The rest of the catch: the first of these that fits.  A refusal by the relay's own
\* limiter costs no attempt.
HandleFailure ==
    /\ pc = "failed" /\ Cool
    /\ \/ paused /\ Throw(job, "paused") /\ UNCHANGED <<attempt, transport>>
       \/ ~paused /\ FallBack
       \/ /\ ~paused /\ ~FallsBack /\ Error.rateLimited
          /\ Save(job, "wait") /\ UNCHANGED <<attempt, transport>>
       \/ /\ ~paused /\ ~FallsBack /\ ~Error.rateLimited /\ Splittable
          /\ Save([job EXCEPT !.chunks = SplitChunks(job)], "top")
          /\ UNCHANGED <<attempt, transport>>
       \/ /\ ~paused /\ ~FallsBack /\ ~Error.rateLimited /\ ~Splittable
          /\ ~Error.retryable \/ LastAttempt
          /\ Throw(job, "error") /\ UNCHANGED <<attempt, transport>>
       \/ /\ ~paused /\ ~FallsBack /\ ~Error.rateLimited /\ ~Splittable
          /\ Error.retryable /\ ~LastAttempt
          /\ Save(job, "wait")
          /\ attempt' = attempt + 1 /\ UNCHANGED transport
    /\ failure' = None
    /\ UNCHANGED <<paused, discarded, bounds, history, owed>>

\* Time passes until every wait is over.
Elapse ==
    /\ cooling /\ pc # "failed"
    /\ cooling' = FALSE /\ owed' = FALSE
    /\ UNCHANGED <<progress, pc, next, control, bounds, history>>

-----------------------------------------------------------------------------
(* Saves, and what can go wrong.                                           *)

SaveDone ==
    /\ pc = "saving"
    /\ saved' = job /\ dirty' = FALSE
    /\ pc' = next
    /\ UNCHANGED <<job, next, control, bounds, history, cooldown>>

\* A failed save pauses the run and is tried once more by the catch; the second
\* failure is kept for the user to export.
SaveFails ==
    /\ Faults /\ pc = "saving"
    /\ dirty' = TRUE
    /\ IF next = "ended" \/ discarded
       THEN pc' = "ended" /\ UNCHANGED <<job, next>>
       ELSE /\ job' = [job EXCEPT !.status = IF AllDone(job) THEN "completed" ELSE "paused"]
            /\ pc' = "saving" /\ next' = "ended"
    /\ UNCHANGED <<saved, control, bounds, history, cooldown>>

\* publish, reserve or cooldown cannot write: the same end.  Only a Retry-After is
\* recorded after a failure; it is then forgotten.
RegistryFails ==
    /\ Faults /\ pc \in {"wait", "reserve", "publish", "failed"}
    /\ pc = "failed" => Error.wait > 0
    /\ Throw(job, "paused")
    /\ owed' = (owed /\ pc # "failed")
    /\ UNCHANGED <<control, bounds, history, cooling>>

Pause ==
    /\ pc \in Live
    /\ paused' = TRUE
    /\ UNCHANGED <<progress, pc, next, discarded, attempt, transport, failure, bounds, history, cooldown>>

\* Storage was cleared, or the page is being left.
Stop ==
    /\ pc \in Live
    /\ paused' = TRUE /\ discarded' = TRUE
    /\ UNCHANGED <<progress, pc, next, attempt, transport, failure, bounds, history, cooldown>>

\* The tab dies and is opened again: memory is what storage says.
Crash ==
    /\ pc # "off"
    /\ pc' = "off"
    /\ job' = saved /\ dirty' = FALSE
    /\ received' = saved.translated
    /\ owed' = (owed /\ pc # "failed")
    /\ UNCHANGED <<saved, next, control, bounds, sent, failures, arrived, cooling>>

-----------------------------------------------------------------------------
Answered ==
    /\ pc = "inflight"
    /\ \E x \in {e \in Exchanges : e.route = transport /\ e.block = Current} :
          AnswerBlock(x) \/ AnswerError(x)
Step == LoopTop \/ Wait \/ ReserveSlot \/ Send \/ Answered \/ HandleFailure \/ SaveDone
Next ==
    \/ Start \/ PersistDirty \/ Step \/ Elapse
    \/ SaveFails \/ RegistryFails \/ Pause \/ Stop \/ Crash

Spec == Init /\ [][Next]_vars
\* The run goes on by itself: time passes, a slot comes up, a request is answered
\* (translate has a timeout), a save ends.
FairSpec == Spec /\ WF_vars(Step) /\ WF_vars(Elapse)

-----------------------------------------------------------------------------
(* Safety.                                                                 *)

\* In memory and in storage, at every moment: types are right, the blocks tile the
\* document and the translated cues are exactly those of the finished blocks, so no
\* crash, split, failed save or answer with odd lines leaves part of a block behind.
Checkpoint(t) ==
    /\ Tiles(t.chunks)
    /\ t.completedChunks <= Len(t.chunks)
    /\ t.translated = UNION {CuesOf(t.chunks[i]) : i \in 1 .. t.completedChunks}
WholeBlocks == TypeOK /\ Checkpoint(job) /\ Checkpoint(saved)

\* A block that came back is kept: when the run ends the task in memory has it,
\* and storage too unless the tab knows its copy is unsaved, even if the task
\* was paused while the request was out.
BlockKept ==
    pc = "ended" => /\ received \subseteq job.translated
                    /\ dirty \/ discarded \/ received \subseteq saved.translated

\* A request is on the saved task's account before it goes out, so no crash
\* hides a request that was sent, and none goes out on the slot of another: a
\* block that is sent again over the server route gets a slot of its own.
CountedFirst == sent <= saved.requests

\* A block is given up after MaxRetries + 1 failures an attempt is charged for, and no
\* attempt is charged without one: not when the relay's limiter refuses (the promise
\* of runner.ts:197) nor when the browser turns to the server.  A failure that the page
\* cannot place, as a proxy's answer or a lost connection to the server, is charged even
\* if the request never reached the provider; and as a direct request that fails may have
\* reached it, the provider is asked once more than it has attempts, at most.
RetryBudget ==
    /\ attempt <= failures /\ failures <= MaxRetries + 1
    /\ arrived <= MaxRetries + 2

\* A Retry-After is heard, whichever route it comes by and whether the provider or the
\* limiter asks for it, unless a provider does not show it to browsers; and no
\* request goes out before it is over, also if the task was paused when it came.  It is
\* forgotten only if the tab dies, or cannot write, before it is on record.
RetryAfterHeard ==
    /\ pc = "failed" /\ failure.end # "masked" => Error.wait = failure.asked
    /\ pc = "inflight" => ~owed

\* A request that was aborted or ran into the timeout is not sent again over the server
\* (the promise of translation.ts:423), nor is one that was answered.  One that the
\* browser reports as failed is, though it may have reached the provider.
FallbackOnlyBlocked ==
    [][transport' = "server" /\ transport # transport' => failure.cut = "no" /\ failure.end = "lost"]_vars

\* After stop() no save is begun; at most the one under way still ends.
NothingAfterStop ==
    [][discarded' /\ pc' = "saving" => pc = "saving" /\ next' = next]_vars

\* Finished blocks stand: storage never goes back, and no split touches them.
FinishedStand ==
    [][/\ saved.completedChunks <= saved'.completedChunks
       /\ \A i \in 1 .. saved.completedChunks : saved'.chunks[i] = saved.chunks[i]]_vars

-----------------------------------------------------------------------------
(* Liveness.                                                               *)

\* A run ends: retries, route changes and splits run out, and a pause is seen
\* wherever the run waits.
RunEnds == (pc \in Live) ~> (pc \notin Live)

=============================================================================
