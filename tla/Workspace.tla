----------------------------- MODULE Workspace -----------------------------
(***************************************************************************)
(* One task in localStorage and its copies in the memory of the tabs:      *)
(* src/web/src/workspace.ts over the merge rules of src/web/src/storage.ts.*)
(*                                                                         *)
(* Every write reloads the stored workspace under WRITE_LOCK, changes it   *)
(* and stores it again (mutateWorkspace): one atomic step here.  What a    *)
(* tab carries into such a step is older: a checkpoint is taken when       *)
(* persistJob is called, the text an editor started from when it opened.   *)
(* Requests for WRITE_LOCK are granted in their order, so those that carry *)
(* something or follow a check wait in a queue.  A worker and an editor of *)
(* the same tab may be under way together.                                 *)
(*                                                                         *)
(* A block is one cue here, and everything that updateJob may change of a  *)
(* task is one value, conf; counters, events and wording are left out.     *)
(***************************************************************************)
EXTENDS Integers, Sequences

CONSTANTS
    Tab,            \* browser tabs
    Text,           \* translations
    Conf,           \* what settings, profile and glossary may be
    Blocks,         \* blocks of the task
    None,           \* no task, no text, no tab, no draft
    Clean,          \* no entry in the map dirty
    MaxRevision,    \* bound on the writes
    MaxClears,      \* bound on how often the user clears all data
    MaxImports,     \* bound on how often the task comes back from a backup
    MaxFaults       \* bound on the writes that localStorage refuses

Cue == 1 .. Blocks
Task == [revision : Nat, done : 0 .. Blocks, text : [Cue -> Text \cup {None}], conf : Conf]
\* What is stored of a task, without its revision.
Content == [done : 0 .. Blocks, text : [Cue -> Text \cup {None}], conf : Conf]
Stage == {"open", "retry", "commit", "failed"}
Draft == [stage : Stage, cue : Cue, value : Text, previous : Text]

ASSUME WorkspaceAssumption ==
    /\ Blocks \in Nat \ {0}
    /\ MaxRevision \in Nat /\ MaxClears \in Nat /\ MaxImports \in Nat
    /\ MaxFaults \in Nat
    /\ None \notin Tab \cup Text \cup Conf \cup Task \cup Content \cup Draft
    /\ Clean \notin Nat

VARIABLES
    disk,       \* STORAGE_KEY: the workspace's revision and the task
    mem,        \* mem[t]: the task in workspace.jobs of tab t
    seen,       \* seen[t]: workspace.revision of tab t
    dirty,      \* dirty[t]: the revision its unsaved copy is based on
    holder,     \* the tab that holds the job lock
    main,       \* main[t]: what it does with the lock
    queue,      \* the requests for WRITE_LOCK
    draft,      \* draft[t]: the open editor of a translation
    hand,       \* hand[t]: a worker's task that is no longer in workspace.jobs
    clearing,   \* the tab that clears all data, which holds WRITE_LOCK meanwhile
    cleared,    \* tabs whose storage event of a clear is still to come
    missed,     \* tabs that lost such an event
    clears,     \* clears so far
    imports,    \* imports so far
    faults,     \* refused writes so far
    others,     \* history, others[t]: the revision last written by another tab
    changes     \* history: corrections and changes of the settings stored so far

vars == <<disk, mem, seen, dirty, holder, main, queue, draft, hand, clearing, cleared, missed,
          clears, imports, faults, others, changes>>

\* validateJob: exactly the cues of the finished blocks are translated.
Valid(m) == \A c \in Cue : m.text[c] # None <=> c <= m.done

\* startJob
Working == {"retry", "run", "saving", "sent", "keeping", "last", "closing"}
\* updateJob and deleteJob
Fixing == {"fixRetry", "fix", "delete", "unlock"}
\* A request of persistJob carries a checkpoint; the others carry none.
Request == [tab : Tab, by : {"main", "editor"}, copy : Task \cup {None}, base : Nat]

TypeOK ==
    /\ disk \in [revision : Nat, task : Task \cup {None}]
    /\ disk.task # None => Valid(disk.task) /\ disk.task.revision <= disk.revision
    /\ mem \in [Tab -> Task \cup {None}]
    /\ seen \in [Tab -> Nat]
    /\ dirty \in [Tab -> Nat \cup {Clean}]
    /\ holder \in Tab \cup {None}
    /\ main \in [Tab -> Working \cup Fixing \cup {"off"}]
    /\ \A t \in Tab : main[t] # "off" <=> holder = t
    /\ queue \in Seq(Request)
    /\ draft \in [Tab -> Draft \cup {None}]
    /\ hand \in [Tab -> Task \cup {None}]
    /\ clearing \in Tab \cup {None}
    /\ cleared \subseteq Tab /\ missed \subseteq Tab
    /\ clears \in 0 .. MaxClears /\ imports \in 0 .. MaxImports /\ faults \in 0 .. MaxFaults
    /\ others \in [Tab -> Nat] /\ changes \in Nat

NewTask(r, f) == [revision |-> r, done |-> 0, text |-> [c \in Cue |-> None], conf |-> f]

Init ==
    /\ \E f \in Conf : disk = [revision |-> 1, task |-> NewTask(1, f)]
    /\ mem = [t \in Tab |-> disk.task] /\ seen = [t \in Tab |-> 1]
    /\ dirty = [t \in Tab |-> Clean]
    /\ holder = None /\ main = [t \in Tab |-> "off"]
    /\ queue = <<>>
    /\ draft = [t \in Tab |-> None]
    /\ hand = [t \in Tab |-> None]
    /\ clearing = None /\ cleared = {} /\ missed = {}
    /\ clears = 0 /\ imports = 0 /\ faults = 0
    /\ others = [t \in Tab |-> 0] /\ changes = 0

-----------------------------------------------------------------------------
(* Helpers.                                                                *)

Unsaved(t) == dirty[t] # Clean

\* The task that the worker of tab t works on.
Held(t) == IF hand[t] # None THEN hand[t] ELSE mem[t]

Overlay(below, above) == [c \in Cue |-> IF above[c] # None THEN above[c] ELSE below[c]]

\* Fault: a worker's copy takes over the revision without the corrections.
AppliedBlind(m, d, since, works, unsaved) ==
    IF d.revision < since \/ (unsaved /\ m # None) THEN m
    ELSE IF d.task # None /\ m # None /\ works
    THEN [m EXCEPT !.revision = d.task.revision]
    ELSE d.task

\* Fault: an unsaved copy goes with the stored one.
AppliedGone(m, d, since, works, unsaved) ==
    IF d.revision < since \/ (unsaved /\ m # None /\ d.task # None) THEN m
    ELSE IF d.task # None /\ m # None /\ works
    THEN [m EXCEPT !.text = Overlay(@, d.task.text), !.revision = d.task.revision]
    ELSE d.task

\* applyLatest: what a tab's copy m becomes when it meets the workspace d.  An
\* unsaved copy stays as it is, a worker's copy takes over what was corrected.
Applied(m, d, since, works, unsaved) ==
    IF d.revision < since \/ (unsaved /\ m # None) THEN m
    ELSE IF d.task # None /\ m # None /\ works
    THEN [m EXCEPT !.text = Overlay(@, d.task.text), !.revision = d.task.revision]
    ELSE d.task

Since(s, d) == IF d.revision < s THEN s ELSE d.revision

\* Tab t, which knows of revision since, applies the workspace d; works and
\* unsaved say how it treats its copy.  A worker whose task goes keeps it in hand.
ApplySince(t, d, since, works, unsaved) ==
    /\ mem' = [mem EXCEPT ![t] = Applied(@, d, since, works, unsaved)]
    /\ seen' = [seen EXCEPT ![t] = Since(since, d)]
    /\ hand' = [hand EXCEPT ![t] = IF works /\ @ = None /\ mem'[t] = None THEN mem[t] ELSE @]

Apply(t, d, works, unsaved) == ApplySince(t, d, seen[t], works, unsaved)

\* saveWorkspace by tab t, leaving the task k; n changes of the user's with it.
Write(t, k, n) ==
    /\ changes' = changes + n
    /\ disk.revision < MaxRevision
    /\ disk' = [revision |-> disk.revision + 1, task |-> k]
    /\ others' = [u \in Tab |-> IF u = t \/ k = None THEN others[u] ELSE k.revision]

Unwritten == UNCHANGED <<disk, others, changes>>
\* Nothing is cleared and no write refused.
Calm == UNCHANGED <<clearing, cleared, missed, clears, imports, faults>>

\* localStorage refuses a write; why says that it fails for a reason of its own.
Refused(why) ==
    /\ \/ why /\ UNCHANGED faults
       \/ ~why /\ faults < MaxFaults /\ faults' = faults + 1
    /\ UNCHANGED <<clearing, cleared, missed, clears, imports>> /\ Unwritten

\* persistJob up to the request for WRITE_LOCK; base says what d = dirty[t] says.
Checkpoint(t, by, m, d) ==
    [tab |-> t, by |-> by, copy |-> m, base |-> IF d # Clean THEN d ELSE m.revision]
Plain(t, by) == [tab |-> t, by |-> by, copy |-> None, base |-> 0]

\* Fault: the checkpoint's cues win.
MergedOver(k, copy) ==
    [copy EXCEPT !.revision = k.revision + 1, !.text = Overlay(k.text, copy.text)]

\* mergeJobCheckpoint: saved cues win, everything else is the checkpoint's.
Merged(k, copy) ==
    [copy EXCEPT !.revision = k.revision + 1, !.text = Overlay(copy.text, k.text)]

-----------------------------------------------------------------------------
(* startJob: the worker.                                                   *)

\* The worker's copy becomes m.
Hold(t, m) ==
    IF hand[t] # None THEN hand' = [hand EXCEPT ![t] = m] /\ UNCHANGED mem
    ELSE mem' = [mem EXCEPT ![t] = m] /\ UNCHANGED hand

\* It becomes m and is handed to persistJob; a copy that validateJob rejects ends
\* what the tab was doing.
SaveCopy(t, m, l, rejected) ==
    IF Valid(m)
    THEN /\ Hold(t, m)
         /\ queue' = Append(queue, Checkpoint(t, "main", m, dirty[t]))
         /\ main' = [main EXCEPT ![t] = l]
    ELSE main' = [main EXCEPT ![t] = rejected] /\ UNCHANGED <<mem, hand, queue>>

\* Where the run goes on with the task k just loaded from storage.
Begin(k) == IF k # None /\ k.done < Blocks THEN "run" ELSE "closing"

\* The lock is taken.  Progress that could not be saved before is saved first;
\* without any, the stored task replaces the copy at once.
Start(t) ==
    /\ holder = None /\ mem[t] # None
    /\ holder' = t
    /\ IF Unsaved(t) THEN SaveCopy(t, mem[t], "retry", "closing") /\ UNCHANGED seen
       ELSE /\ mem' = [mem EXCEPT ![t] = IF disk.task # None THEN disk.task
                                         ELSE Applied(@, disk, seen[t], TRUE, FALSE)]
            /\ seen' = [seen EXCEPT ![t] = Since(@, disk)]
            /\ main' = [main EXCEPT ![t] = Begin(disk.task)]
            /\ UNCHANGED <<queue, hand>>
    /\ UNCHANGED <<dirty, draft>> /\ Unwritten /\ Calm

\* A status or a request is saved before a block is sent.
RunSave(t) ==
    /\ main[t] \in {"run", "sent"} /\ Held(t).done < Blocks
    /\ SaveCopy(t, Held(t), "saving", "closing")
    /\ UNCHANGED <<seen, dirty, holder, draft>> /\ Unwritten /\ Calm

AnswerBlock(t) ==
    /\ main[t] = "sent"
    /\ \E v \in Text :
          SaveCopy(t, [Held(t) EXCEPT !.done = @ + 1, !.text[Held(t).done + 1] = v],
                   "keeping", "closing")
    /\ UNCHANGED <<seen, dirty, holder, draft>> /\ Unwritten /\ Calm

\* A pause or an error is saved and ends the run, as does the last block.
RunEnd(t) ==
    /\ main[t] \in {"run", "sent"}
    /\ IF Held(t).done < Blocks THEN SaveCopy(t, Held(t), "last", "closing")
       ELSE main' = [main EXCEPT ![t] = "closing"] /\ UNCHANGED <<mem, hand, queue>>
    /\ UNCHANGED <<seen, dirty, holder, draft>> /\ Unwritten /\ Calm

\* The lock is let go, the worker removed, and the tab refreshes.
Finish(t) ==
    /\ main[t] = "closing"
    /\ holder' = None
    /\ main' = [main EXCEPT ![t] = "off"]
    /\ mem' = [mem EXCEPT ![t] = Applied(@, disk, seen[t], FALSE, Unsaved(t))]
    /\ seen' = [seen EXCEPT ![t] = Since(@, disk)]
    /\ hand' = [hand EXCEPT ![t] = None]
    /\ UNCHANGED <<dirty, queue, draft>> /\ Unwritten /\ Calm

-----------------------------------------------------------------------------
(* persistJob under WRITE_LOCK.                                            *)

\* The caller goes on at l, and asks for what is in ask.
Follow(t, l, ask) == main' = [main EXCEPT ![t] = l] /\ queue' = Tail(queue) \o ask

\* The save went through.
Saved(t, by, k) ==
    IF by = "editor"
    THEN /\ draft' = [draft EXCEPT ![t].stage = "commit"]
         /\ queue' = Append(Tail(queue), Plain(t, "editor")) /\ UNCHANGED main
    ELSE /\ CASE main[t] = "retry"    -> Follow(t, Begin(k), <<>>)
              [] main[t] = "saving"   -> Follow(t, "sent", <<>>)
              [] main[t] = "keeping"  -> Follow(t, "run", <<>>)
              [] main[t] = "last"     -> Follow(t, "closing", <<>>)
              [] main[t] = "fixRetry" -> Follow(t, "fix", <<Plain(t, "main")>>)
         /\ UNCHANGED draft

\* It did not: the catch in the worker tries once more.
NotSaved(t, by, base) ==
    IF by = "editor"
    THEN /\ draft' = [draft EXCEPT ![t].stage = "failed"]
         /\ queue' = Tail(queue) /\ UNCHANGED main
    ELSE /\ CASE main[t] \in {"saving", "keeping"} /\ Valid(Held(t)) ->
                    Follow(t, "last", <<Checkpoint(t, "main", Held(t), base)>>)
              [] main[t] = "fixRetry" -> Follow(t, "unlock", <<>>)
              [] OTHER -> Follow(t, "closing", <<>>)
         /\ UNCHANGED draft

\* The stored task is there, has no more blocks than the checkpoint, and if the
\* copy is unsaved it is still the one the copy was based on.
MayMerge(t, p) ==
    /\ disk.task # None
    /\ Unsaved(t) => disk.task.revision = p.base
    /\ disk.task.done <= p.copy.done

\* Tab t's request is the next to get the lock, for a save or for something else.
Granted(t, by, save) ==
    /\ clearing = None /\ queue # <<>>
    /\ Head(queue).tab = t /\ Head(queue).by = by /\ (Head(queue).copy # None) = save

SaveMerged(t, by) ==
    /\ Granted(t, by, TRUE) /\ MayMerge(t, Head(queue))
    /\ LET k == Merged(disk.task, Head(queue).copy) IN
       /\ Write(t, k, 0)
       /\ LET m == Applied(mem[t], disk', seen[t], main[t] \in Working, Unsaved(t))
              taken == by = "main" /\ hand[t] # None
              loaded == by = "main" /\ main[t] = "retry"
          IN  /\ mem' = [mem EXCEPT ![t] = IF loaded /\ ~taken THEN k
                                            ELSE IF m = None \/ taken THEN m
                                            ELSE [m EXCEPT !.revision = k.revision]]
              /\ hand' = [hand EXCEPT ![t] = IF ~taken THEN @ ELSE IF loaded THEN k
                                              ELSE [@ EXCEPT !.revision = k.revision]]
       /\ Saved(t, by, k)
    /\ seen' = [seen EXCEPT ![t] = Since(@, disk')]
    /\ dirty' = [dirty EXCEPT ![t] = Clean]
    /\ UNCHANGED holder /\ Calm

\* The copy is marked unsaved, with the revision it is based on.
SaveFails(t, by) ==
    /\ Granted(t, by, TRUE) /\ Refused(~MayMerge(t, Head(queue)))
    /\ dirty' = [dirty EXCEPT ![t] = Head(queue).base]
    /\ NotSaved(t, by, Head(queue).base)
    /\ UNCHANGED <<mem, hand, seen, holder>>

-----------------------------------------------------------------------------
(* Editing a translation: the draft, and saveTranslation.                  *)

Type(t, c, v) ==
    /\ draft[t] = None /\ mem[t] # None /\ mem[t].text[c] \notin {None, v}
    /\ draft' = [draft EXCEPT ![t] = [stage |-> "open", cue |-> c, value |-> v,
                                      previous |-> mem[t].text[c]]]
    /\ UNCHANGED <<mem, hand, seen, dirty, holder, main, queue>> /\ Unwritten /\ Calm

\* An unsaved copy is persisted first, without the job lock.
SaveDraft(t) ==
    /\ draft[t] # None /\ draft[t].stage = "open"
    /\ IF mem[t] = None \/ ~Unsaved(t)
       THEN /\ draft' = [draft EXCEPT ![t].stage = "commit"]
            /\ queue' = Append(queue, Plain(t, "editor"))
       ELSE IF Valid(mem[t])
            THEN /\ draft' = [draft EXCEPT ![t].stage = "retry"]
                 /\ queue' = Append(queue, Checkpoint(t, "editor", mem[t], dirty[t]))
            ELSE draft' = [draft EXCEPT ![t].stage = "failed"] /\ UNCHANGED queue
    /\ UNCHANGED <<mem, hand, seen, dirty, holder, main>> /\ Unwritten /\ Calm

\* applyTranslationEdit: the cue is finished, and what is stored is what the
\* editor started from, or the very text it wants.
MayCorrect(d) ==
    /\ disk.task # None
    /\ d.cue <= disk.task.done
    /\ disk.task.text[d.cue] \in {d.previous, d.value}

CommitDraft(t) ==
    /\ Granted(t, "editor", FALSE) /\ MayCorrect(draft[t])
    /\ Write(t, [disk.task EXCEPT !.text[draft[t].cue] = draft[t].value, !.revision = @ + 1], 1)
    /\ Apply(t, disk', main[t] \in Working, Unsaved(t))
    /\ draft' = [draft EXCEPT ![t] = None]
    /\ queue' = Tail(queue)
    /\ UNCHANGED <<dirty, holder, main>> /\ Calm

\* The tab refreshes and the draft stays.
RejectDraft(t) ==
    /\ Granted(t, "editor", FALSE)
    /\ Refused(~MayCorrect(draft[t]))
    /\ Apply(t, disk, main[t] \in Working, Unsaved(t))
    /\ draft' = [draft EXCEPT ![t].stage = "failed"]
    /\ queue' = Tail(queue)
    /\ UNCHANGED <<dirty, holder, main>>

\* keepMine: the user has seen the other text and insists.
KeepMine(t) ==
    /\ draft[t] # None /\ draft[t].stage = "failed"
    /\ draft' = [draft EXCEPT ![t].stage = "open",
                              ![t].previous = IF mem[t] # None /\ mem[t].text[draft[t].cue] # None
                                              THEN mem[t].text[draft[t].cue] ELSE @]
    /\ UNCHANGED <<mem, hand, seen, dirty, holder, main, queue>> /\ Unwritten /\ Calm

\* restore, and retain when the task has gone.
DropDraft(t) ==
    /\ draft[t] # None /\ draft[t].stage \in {"open", "failed"}
    /\ draft' = [draft EXCEPT ![t] = None]
    /\ UNCHANGED <<mem, hand, seen, dirty, holder, main, queue>> /\ Unwritten /\ Calm

-----------------------------------------------------------------------------
(* The other writers.                                                      *)

\* updateJob, and saveProfile of a task: under the job lock, on the stored task.
StartFix(t) ==
    /\ holder = None /\ mem[t] # None
    /\ holder' = t
    /\ IF Unsaved(t) THEN SaveCopy(t, mem[t], "fixRetry", "unlock")
       ELSE /\ main' = [main EXCEPT ![t] = "fix"]
            /\ queue' = Append(queue, Plain(t, "main")) /\ UNCHANGED <<mem, hand>>
    /\ UNCHANGED <<seen, dirty, draft>> /\ Unwritten /\ Calm

Fix(t) ==
    /\ Granted(t, "main", FALSE) /\ main[t] = "fix" /\ disk.task # None
    /\ \E f \in Conf : Write(t, [disk.task EXCEPT !.conf = f, !.revision = @ + 1], 1)
    /\ Apply(t, disk', FALSE, Unsaved(t))
    /\ Follow(t, "unlock", <<>>)
    /\ UNCHANGED <<dirty, holder, draft>> /\ Calm

\* deleteJob: the tab's own unsaved copy goes too.
StartDelete(t) ==
    /\ holder = None /\ mem[t] # None
    /\ holder' = t
    /\ main' = [main EXCEPT ![t] = "delete"]
    /\ queue' = Append(queue, Plain(t, "main"))
    /\ UNCHANGED <<mem, hand, seen, dirty, draft>> /\ Unwritten /\ Calm

Delete(t) ==
    /\ Granted(t, "main", FALSE) /\ main[t] = "delete"
    /\ Write(t, None, 0)
    /\ mem' = [mem EXCEPT ![t] = None]
    /\ seen' = [seen EXCEPT ![t] = Since(@, disk')]
    /\ dirty' = [dirty EXCEPT ![t] = Clean]
    /\ Follow(t, "unlock", <<>>)
    /\ UNCHANGED <<hand, holder, draft>> /\ Calm

\* Either may find that the task is gone or the storage full.
ChangeFails(t) ==
    /\ Granted(t, "main", FALSE) /\ Refused(main[t] = "fix" /\ disk.task = None)
    /\ Follow(t, "unlock", <<>>)
    /\ UNCHANGED <<mem, hand, seen, dirty, holder, draft>>

Unlock(t) ==
    /\ main[t] = "unlock"
    /\ holder' = None
    /\ main' = [main EXCEPT ![t] = "off"]
    /\ UNCHANGED <<mem, hand, seen, dirty, queue, draft>> /\ Unwritten /\ Calm

\* importBackup of a task that is not there.
Import(t) ==
    /\ clearing = None /\ disk.task = None /\ imports < MaxImports
    /\ imports' = imports + 1
    /\ \E d \in 0 .. Blocks, f \in Conf : \E x \in [1 .. d -> Text] :
          Write(t, [revision |-> disk.revision + 1, done |-> d, conf |-> f,
                    text |-> [c \in Cue |-> IF c <= d THEN x[c] ELSE None]], 0)
    /\ Apply(t, disk', main[t] \in Working, Unsaved(t))
    /\ UNCHANGED <<dirty, holder, main, queue, draft, clearing, cleared, missed, clears, faults>>

\* A write that concerns something else: preferences, other tasks.
WriteOther(t) ==
    /\ clearing = None /\ disk.revision < MaxRevision
    /\ disk' = [disk EXCEPT !.revision = @ + 1]
    /\ Apply(t, disk', main[t] \in Working, Unsaved(t))
    /\ UNCHANGED <<dirty, holder, main, queue, draft, others, changes>> /\ Calm

\* clearWorkspace, up to heldJobs: WRITE_LOCK is taken and nobody holds a job lock.
AskHeld(t) ==
    /\ clearing = None /\ clears < MaxClears /\ holder = None
    /\ clearing' = t
    /\ UNCHANGED <<mem, hand, seen, dirty, holder, main, queue, draft, cleared, missed, clears,
                   imports, faults>> /\ Unwritten

\* The answer has come, and by now another tab may hold the job lock; only its own
\* workers stop the tab (busy).  The other tabs hear of it later.
Clear(t) ==
    /\ clearing = t /\ main[t] \notin Working /\ clears < MaxClears
    /\ clearing' = None
    /\ clears' = clears + 1
    /\ disk' = [revision |-> 1, task |-> None]
    /\ mem' = [mem EXCEPT ![t] = None]
    /\ seen' = [seen EXCEPT ![t] = 1]
    /\ dirty' = [dirty EXCEPT ![t] = Clean]
    /\ cleared' = Tab \ {t} /\ missed' = missed \ {t}
    /\ UNCHANGED <<hand, holder, main, queue, draft, imports, faults, others, changes>>

\* busy: a worker of its own, or one that the registry showed it (runs).
ForgoClear(t) ==
    /\ clearing = t
    /\ clearing' = None
    /\ UNCHANGED <<mem, hand, seen, dirty, holder, main, queue, draft, cleared, missed, clears,
                   imports, faults>> /\ Unwritten

-----------------------------------------------------------------------------
(* What a tab hears of the others.                                         *)

\* runner.stop: what is under way is the last that is done.
Stopped(l) == IF l \in {"run", "sent"} THEN "closing"
              ELSE IF l \in {"saving", "keeping"} THEN "last" ELSE l

\* A worker that runs is stopped.  One that waits in the queue is let out of it
\* and saves once more (RunEnd).
StopWorker(t) == main' = [main EXCEPT ![t] = Stopped(@)] \/ UNCHANGED main

\* Fault: the revision seen before the clear still counts.
HearAhead(t) ==
    /\ t \in cleared
    /\ ApplySince(t, disk, seen[t], main[t] \in Working, Unsaved(t))
    /\ StopWorker(t)
    /\ cleared' = cleared \ {t} /\ missed' = missed \ {t}
    /\ UNCHANGED <<dirty, holder, queue, draft, clearing, clears, imports, faults>> /\ Unwritten

\* The storage event of a clear: revision 0, and a refresh.
HearOfClear(t) ==
    /\ t \in cleared
    /\ ApplySince(t, disk, 0, main[t] \in Working, Unsaved(t))
    /\ StopWorker(t)
    /\ cleared' = cleared \ {t} /\ missed' = missed \ {t}
    /\ UNCHANGED <<dirty, holder, queue, draft, clearing, clears, imports, faults>> /\ Unwritten

\* A page that the browser keeps for the back button does nothing and gets no events.
MissEvent(t) ==
    /\ t \in cleared /\ main[t] = "off"
    /\ cleared' = cleared \ {t} /\ missed' = missed \cup {t}
    /\ UNCHANGED <<mem, hand, seen, dirty, holder, main, queue, draft, clearing, clears, imports,
                   faults>> /\ Unwritten

\* pageshow, or the storage event of a write: a refresh alone.
Refresh(t) ==
    /\ Apply(t, disk, main[t] \in Working, Unsaved(t))
    /\ UNCHANGED <<dirty, holder, main, queue, draft>> /\ Unwritten /\ Calm

\* The request of what a page does goes with the page; there is one at most.
Withdrawn(q, t, by) ==
    LET mine == {i \in 1 .. Len(q) : q[i].tab = t /\ q[i].by = by}
        i == CHOOSE i \in mine : TRUE
    IN  IF mine = {} THEN q ELSE SubSeq(q, 1, i - 1) \o SubSeq(q, i + 1, Len(q))

\* The tab is closed or dies, and is opened again.
Reload(t) ==
    /\ mem' = [mem EXCEPT ![t] = disk.task]
    /\ seen' = [seen EXCEPT ![t] = disk.revision]
    /\ dirty' = [dirty EXCEPT ![t] = Clean]
    /\ holder' = IF holder = t THEN None ELSE holder
    /\ main' = [main EXCEPT ![t] = "off"]
    /\ queue' = Withdrawn(Withdrawn(queue, t, "main"), t, "editor")
    /\ draft' = [draft EXCEPT ![t] = None]
    /\ hand' = [hand EXCEPT ![t] = None]
    /\ clearing' = IF clearing = t THEN None ELSE clearing
    /\ cleared' = cleared \ {t} /\ missed' = missed \ {t}
    /\ UNCHANGED <<clears, imports, faults>> /\ Unwritten

-----------------------------------------------------------------------------
Work(t) == Start(t) \/ RunSave(t) \/ AnswerBlock(t) \/ RunEnd(t) \/ Finish(t)
Persist(t) == \E by \in {"main", "editor"} : SaveMerged(t, by) \/ SaveFails(t, by)
Edit(t) ==
    \/ \E c \in Cue, v \in Text : Type(t, c, v)
    \/ SaveDraft(t) \/ CommitDraft(t) \/ RejectDraft(t) \/ KeepMine(t) \/ DropDraft(t)
Administer(t) ==
    \/ StartFix(t) \/ Fix(t) \/ StartDelete(t) \/ Delete(t) \/ ChangeFails(t) \/ Unlock(t)
    \/ Import(t) \/ WriteOther(t) \/ AskHeld(t) \/ Clear(t) \/ ForgoClear(t)
Hear(t) == HearOfClear(t) \/ MissEvent(t) \/ Refresh(t)

Next == \E t \in Tab : Work(t) \/ Persist(t) \/ Edit(t) \/ Administer(t) \/ Hear(t) \/ Reload(t)

Spec == Init /\ [][Next]_vars

-----------------------------------------------------------------------------
(* Safety.                                                                 *)

\* Types are right, and a revision names one content: a copy that is not marked unsaved and has the
\* stored revision shows the stored translations and settings.  The base check
\* of persistJob rests on it.
SameRevision ==
    TypeOK /\ \A t \in Tab :
        (mem[t] # None /\ disk.task # None /\ ~Unsaved(t) /\ mem[t].revision = disk.task.revision)
            => /\ mem[t].conf = disk.task.conf
               /\ \A c \in 1 .. disk.task.done : mem[t].text[c] = disk.task.text[c]

\* Results that could not be saved stay in the tab's memory as they are, whatever
\* the other tabs store, delete or clear.
UnsavedKept ==
    [][\A t \in Tab : (Unsaved(t) /\ dirty'[t] # Clean /\ mem[t] # None)
          => /\ mem'[t] # None /\ mem'[t].done >= mem[t].done
             /\ \A c \in 1 .. mem[t].done : mem'[t].text[c] = mem[t].text[c]]_vars

\* A tab that has heard of every clear is not ahead of the storage, so it is not deaf
\* to what is written (applyLatest returns when the revision is below its own).  Only
\* a tab that lost the event may stay so: pageshow does not set the revision back.
NeverAhead == \A t \in Tab : t \notin cleared \cup missed => seen[t] <= disk.revision

\* Only updateJob changes the settings of a stored task: no checkpoint brings
\* back those of an older copy.
OnlyFixed ==
    [][(disk.task # None /\ disk'.task # None /\ disk'.task.conf # disk.task.conf)
          => \E t \in Tab : main[t] = "fix"]_vars

\* A save is refused because another tab has written the task only if one has.
OtherTabWrote ==
    \A t \in Tab : (Unsaved(t) /\ disk.task # None /\ disk.task.revision # dirty[t])
                       => others[t] > dirty[t]

-----------------------------------------------------------------------------
(* Refinement.                                                             *)

Store == INSTANCE TaskStore WITH
    task <- IF disk.task = None THEN None
            ELSE [done |-> disk.task.done, text |-> disk.task.text, conf |-> disk.task.conf]

\* The copies, the merges and the failures come to a single task: a checkpoint
\* adds its block and nothing else, no correction and no change of the settings
\* is lost to an older copy.
ImplementsStore == Store!Spec

=============================================================================
