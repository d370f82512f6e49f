# Muyu: a verification development

Muyu translates subtitle files with a language model.  The program is a web page
(`src/web/src`, TypeScript and Vue) that keeps its tasks in `localStorage`, sends
their blocks to a model endpoint one request at a time whatever number of tabs is
open, and a small Go server (`src/internal`, `src/cmd`) that serves the page and
relays requests for endpoints the browser cannot reach.

This directory holds TLA+ models of the parts in which state is shared, lost,
copied or waited for, TLC configurations that check them on small instances, and
proofs that TLAPS checks for every value of the constants.

## 1. The system

| part | state it keeps | operations | talks to |
|---|---|---|---|
| run registry, `coordinator.ts` | `muyu.runner.v2` in localStorage: one entry per registered run (owner, phase, pause flag), one rate record per credential, a legacy cooldown | snapshot, register, activate, publish, pause, release, reserve, cooldown; each prunes first | called by `workspace.ts` under `WRITE_LOCK`; asks Web Locks which job locks are held |
| scheduling, `workspace.ts` (startJob, pauseJob, reconcile) | `workers` of the tab; job locks; the execution lock and its queue | start, pause, reconcile, the way in and out of the execution lock | registry, runner, Web Locks |
| runner, `runner.ts` | the task being translated, attempt, route, pause and stop flags | run, wait, pause, stop | persistJob, reserve, publish, translate |
| copies and merges, `workspace.ts` (the rest), `storage.ts` | `muyu.workspace.v1` in localStorage; in each tab a copy, its revision and the map `dirty` of copies that could not be saved | commit, persistJob, applyLatest, refresh, updateJob, saveTranslation, saveProfile, deleteJob, clearWorkspace, importBackup, createJob | storage events between the tabs |
| editors, `textEdits.ts` with `translationEdits.ts`, `memoryEdits.ts` | a draft, a timer and a pending save per field | begin, change, composition, blur, save, keepMine, restore, flush, retain | saveTranslation, updateJob |
| limiter, `limits.go` | token buckets and live counts: process, visitor addresses, upstream hosts | acquireRequest, acquireHost, their releases, cleanup | handlers of `server.go` |
| handlers, `server.go` | one goroutine per request | middleware, relay | limiter, relay client |
| chunking, `chunking.ts`, `types.ts` | the blocks and settings of a task | chunkCues, updateJobSettings | createJob, updateJob, runner |
| protocol, `translation.ts`, `transport.ts`, `server.go`, `relay/client.go` | none, one request | translate, post; relay, Forward | called by the runner |
| glossary, `glossary.ts`, `storage.ts`, `memoryEdits.ts` | the terms of a task | selectGlossary, the terms of an answer, applyMemoryEdit | translate, editors |
| records, `storage.ts`, `migrations.ts`, `workspace.ts` | all stored tasks and what could not be read | loadWorkspace, restoreJobs, parseBackup, makeBackup, createJob, deleteJob, deleteRecovery, exportRecovery, importBackup | every commit of `workspace.ts` |
| subtitles, `subtitle.ts`, `files.ts` | none: files are read into documents and documents written as files | parseSubtitle, renderSubtitle, assertAlignment, mergeSubtitles | createJob, chunking, the export and merge pages |
| visitor's address, `proxy.go` | none: what the header X-Forwarded-For of one request holds | clientIP | called by middleware for the limiter |
| dialling, static files, configuration, pages, wording | I/O and presentation | | |

What is hard about it:

* *Tabs are processes.*  They share storage and locks, are killed at any time, and
  their timers stop in the background.  Starting, pausing and dying interleave.
* *Everything awaits.*  A worker publishes, saves and reconciles between any two
  decisions; pauses and other tabs' writes come in between.
* *Copies.*  Every tab has its own copy of every task and writes it back by rules
  of merging; a copy may be unsaved, older, or of a task that is gone.
* *Writes fail.*  localStorage fills up; results must not be lost, and the run must
  stop rather than go on unsaved.
* *Data of any age.*  What is stored may be of an older version, damaged or named
  twice; backups are imported next to what they were made of.  All of it must be
  readable or be kept aside, and nothing may be written that the next load refuses.
* *Two routes.*  A failure may come from the network, the relay's limiter, the relay,
  a proxy before it or the provider; what counts, what is tried again, when and over
  which route depends on telling them apart.
* *Exports are text.*  A translation is free text of the user or the model between the
  lines of a format in which an empty line ends a cue.
* *The limiter forgets.*  Records are dropped and made again without anyone gaining
  or losing by it.

What makes each part correct is stated with its module below.  The list of hazards,
each at its line, with the properties that cover it, is in `PROJECT.json`.

## 2. The modules

| module | models | checked by | proved in |
|---|---|---|---|
| `Coordinator` | the registry's operations | as part of `Scheduler` | |
| `Scheduler` | startJob, pauseJob, reconcile, locks, crashes, time | `MCScheduler`, 3 configurations | `SchedulerProofs` |
| `TranslationQueue` | abstract: one queue, one running task | refinement of `Scheduler` | `SchedulerProofs` |
| `Protocol` | what one request comes to, over either route | as part of `Runner` | `RunnerProofs` |
| `Runner` | one task's run over `Protocol` | `MCRunner` | `RunnerProofs` |
| `Workspace` | one stored task and its copies | `MCWorkspace`, 4 configurations | `WorkspaceProofs` |
| `TaskStore` | abstract: one stored task | refinement of `Workspace` | `WorkspaceProofs` |
| `TextEdits` | one field's editor | `MCTextEdits` | `TextEditsProofs` |
| `Glossary` | the terms of a task: names, selection, learning, editing | as part of `Records` | `RecordsProofs` |
| `Records` | all tasks, records and backups, over `Glossary` | `MCRecords` | `RecordsProofs` |
| `Subtitle` | subtitle files: reading, writing, merging | as part of `Chunking` | |
| `Chunking` | a document from its file to its exports: how it is cut, and cut again | `MCChunking` | `ChunkingProofs` |
| `Lists` | what the models of lists share: Array.filter | as part of `Glossary` and `Subtitle` | `ListTheorems` |
| `ListTheorems` | nothing of the code: lemmas by induction along lists, recursive functions and the places of a sort | used by `ChunkingProofs` and `RecordsProofs` | `ListTheorems` |
| `Limiter`, `Server` | the limiter, the handlers over it | `MCServer` | `ServerProofs` |
| `RateMeter` | abstract: a meter that forgets nobody | refinement of `Server` | `ServerProofs` |
| `ClientAddress` | whose quota a request is charged to, behind proxies | `MCServer` | `ServerProofs` |

In each model a few operators follow the comment `Fault:`.  No action uses them:
each is a definition with a plausible mistake in it, put in the place of the right
one to see that a property notices (`mutants` in `PROJECT.json`).

### Coordinator and Scheduler

`Coordinator.change` runs under `WRITE_LOCK`, queries the held locks and ends in one
`setItem`, so every operation is one step: `Pruned` and `PrunedRates` are what
change() does before the operation's own action.  An operation that throws writes
nothing, so a refused operation is a disabled action here and `Scheduler` says what
the caller does about it (`ActivateRefused`, `StorageFails`).

A task's job lock is taken with `ifAvailable` and held for the whole of startJob.  A
task therefore has at most one worker in the browser, and the worker's state is
indexed by the task: `pc[j]` is where it is in startJob or, in short form, in the
runner; `paused[j]` is `runtime.pauseRequested`; `holder[j]` is the tab.  The
execution lock's queue is kept as `ahead[j]`, the requests made before j's and still
waiting.  `Close` is a closed or crashed tab: the browser releases its locks and
withdraws its requests; its registry entries stay.  clearWorkspace holds `WRITE_LOCK`
while it asks for the held job locks (`AskHeld`), and removes everything when the answer
is there (`ClearWorkspace`) or gives up (`ForgoClear`).  In between a task may take its
job lock and be loaded; its register waits for `WRITE_LOCK`, and its first save then
finds the task gone.

* `OneRequest`: one model request outstanding in the browser.
* `RegistryTruth`: a live worker's entry is its own, survives every pruning, and says
  truly whether it still queues.  With it reserve, publish and cooldown of a running
  task are never refused.
* `PhaseTruth`, `PauseKept`, `PauseTakesEffect`: what other tabs see of a request, and
  that a pause from any of them is neither lost nor ignored, also by a worker that sleeps
  until its slot or a Retry-After deadline: the pause itself wakes it, however far the
  deadline is and whether the clock goes on or not.
* `SlotsSpaced`: pacing of one credential across tasks and tabs; it rests on
  `RatesRecorded`, which is proved with it.
* `ImplementsQueue`, `QueueMoves`: the whole is a fair first-come first-served queue, as
  far as the provider answers and sleeps end.

### Protocol and Runner

`Protocol` has no state.  A *course* says what really happened to a request: refused
before it was sent (`Invalid`), lost, cut off by an abort or the timeout, refused by
the relay's limiter, refused or not answered by the relay, answered by a proxy before
it, or answered by the provider with a status, a wait and a body.  `reached` says whether
the request got to the provider, which in many courses is open: fetch rejects alike when
there is no connection, when it drops after the request has left, and when the browser
withholds the response or refuses a redirect.  On the direct route Retry-After is "masked"
if the provider does not expose it to other origins.  `Translate` is what
the page makes of it: `Relay` and `Relayed` are the server's side of it, `Read` and
`ServerError` the page's, `ParseTranslation` decides on the lines of a reply, each of
which names a cue and has a text that is good, blank or has other tags.  `Courses` is
every course for a set of cues, all replies of the right length included.

In `Runner` an action is what happens between two awaits.  A save is two steps (`Save`,
then `SaveDone` or `SaveFails`), since pauses, stops and crashes come in between.  A
request ends with any `Exchange` its route and block allow, which holds the page's
view (`verdict`) beside the truth (`end`, `cut`, `reached`, `asked`, and `charged`: all
failures but those that show that the model was not asked, and those by which the browser
turns to the server); the code sees the first only, the properties compare the two.
`cooling` is a cooldown in the registry, `owed` a wait that was asked for and shown and is
not over.

* `WholeBlocks`: the promise of `runner.ts:254`, "never save a partial block", for
  memory and storage at once, whatever lines a reply has and however blocks are split.
* `BlockKept`: answers that arrive while a pause is pending.
* `CountedFirst`: a request is on the account before it goes out, on a slot of its own.
* `RetryBudget`: a block is given up after the failures its attempts are charged for, one
  attempt each; a refusal of the limiter (`runner.ts:197`) and the change of routes cost
  none.  A failure the page cannot place is charged, also if the request never got to the
  provider; the provider gets at most one request more than the block has attempts, as a
  direct request that failed may have reached it.
* `RetryAfterHeard`: a wait reaches the runner by either route unless the provider hides
  it, and nothing is sent before it is over, also if the task was paused when it came.
* `FallbackOnlyBlocked`: the promise of `translation.ts:423`: what was aborted, timed out or
  answered is not sent again over the server.
* `FinishedStand`, `NothingAfterStop`: what may not be touched any more.
* `RunEnds`: liveness.

### Workspace

Every write reloads the stored workspace, changes it and stores it under `WRITE_LOCK`:
one step.  What a tab brings to that step is older, and is modelled as such: the
checkpoint of persistJob (taken with `base` when the lock is asked for), the
`previous` text of an editor.  Requests for `WRITE_LOCK` that carry something or
follow a check wait in `queue`, first in, first out.  A worker (`main`) and an editor
(`draft`) of one tab may be under way at once, as in the page.

clearWorkspace is `AskHeld`, up to the answer of heldJobs, and `Clear` or `ForgoClear`
after it; a tab may start its task in between.  Such a worker keeps the task in `hand`
when it hears of the clear and workspace.jobs loses it.  The storage event of a clear
comes later (`HearOfClear`: the worker is stopped, the known revision reset) or is lost to
a page the browser keeps for the back button (`MissEvent`); the refresh of pageshow and of
other events resets nothing (`Refresh`).

* `ImplementsStore`: seen from storage, all copies, merges, failures, reloads and
  deletions amount to `TaskStore`: blocks are added one at a time, corrections and
  settings change by the user's own act, and nothing else changes anything.
  `TaskStore` counts the changes by hand, so an older copy that brought back an older
  text would be a step of neither kind.
* `SameRevision`: copies with the stored revision are equal to it; persistJob's check
  rests on it.
* `UnsavedKept`: results that could not be saved survive whatever others do.
* `NeverAhead`: a tab that has heard of the clears, however late, is not deaf to what is
  stored after them.  One that lost the event may be; see section 4.
* `OnlyFixed`: settings change only in updateJob.

### TextEdits

One field in one tab, with other tabs as the environment.  `Loop` is the loop of
save() between two awaits of hooks.save.  `InputOnItsWay`: unsaved input always has
a timer, a save, an open composition or a visible error.  `LastInputStored`: the
stored text is the last input, not one that was overtaken.  `DraftKept` and
`KnownReplaced`: no draft disappears unsaved, and no text the user has not seen is
overwritten.  `InputSettles` is liveness.

### Subtitle and Chunking

`Subtitle` has no state.  A file is its lines; a line is of one of the kinds the code
looks for: blank (tabs and spaces, which end a block), other white space (which does
not, but is trimmed), U+FEFF (which String.trim trims and trimSpace does not), a VTT
heading, an opening of metadata, a number, a timing, words; a line may begin with white
space of the last two kinds (`margin`).  Lengths of texts and files are numbers of lines,
with a limit for each that the code has (`SourceLimit`, `TranslationLimit`, `FileLimit`,
`CueLimit`).  A timing in the place of words stands for any text with an arrow in it.  `Readable` and
`ParseSubtitle` are parseSubtitle, the refusals and the result; `RenderSubtitle` is
renderSubtitle.

In `Chunking` a file is read (`Init`: readSubtitle and createJob), and `ChunkCues` is
chunkCues by its meaning: how far a block may reach, where it may end, which of those
places scores best.  `Commit` and `Split` are what the runner does to the blocks,
`UpdateSettings` is updateJobSettings.  For the cut a cue is its length, the pause after
it and the languages in whose rules it ends a sentence; of the remaining cues these are
taken to be what they are in the whole document, though the code decides them again on
the remaining text.  Scores are exact quotients, where ties of the code may fall to the
last bit of a float.

* `BlocksFit`: after any mix of changes, finished blocks and splits, the blocks hold
  every cue once, and those still to be sent keep the limits in force *now*.
* `CutsAtBreaks`: a block ends in mid-sentence only where a limit forces it to and no
  better place was in reach.
* `ExportReadsBack`: an export is the same document again, in either format, whatever
  lines its texts have, and merging it with the original is exporting both
  (`subtitle.test.ts` shows it for two files).  Four kinds of export are excepted
  (`Unreadable`), which the code cannot read again as they were; see section 4.

### Glossary and Records

`Glossary` has no state: how terms get names (`Identified`), which go with a request
(`Selected`), what an answer adds (`Learned`), when a field may be edited (`MayEdit`)
and what the edit does (`Edited`).  Two sources are two keys of termKey, so `Blank`
stands for every text normalizeMemory refuses, and whether a term stands in a text is
an input (`now`, `near`).

`Records` is the whole stored workspace.  Every operation loads it, changes it and
stores it under `WRITE_LOCK`: one step, which starts from `Loaded`, what restoreJobs
makes of the stored data.  A stored task is its name, a content that tells it from the
others, its terms, its form (of this version, of the first, or a draft in the place of
a task) and its damage, if any: of the history, which restoreJob repairs, or of the
essence, which makes it a recovery record.  Names are numbered by their maker and
lengthened as the code lengthens them, so that clashes of made, repaired and imported
names are possible exactly as in the code.  The history variables `owned` and `told`
are the contents the user has, and which of them each record's name was shown for.

* `ReadsBack`: the next load refuses or alters nothing that an operation wrote.
* `NothingLost`: what the user has is a task or a record until the user deletes that
  very thing, whatever is damaged, shares a name or is imported.
* `BackupComplete`: a backup holds all tasks, records and drafts, and no draft makes
  its task unreadable.  With drafts that need records of their own the file may hold
  more than importBackup takes; see section 4.
* `LearnStorable`: no answer brings terms that would make its block unreadable.
* `SentFirst`: a term is left out of a request only for terms that matter as much.

### Limiter and Server

The limiter's operations hold its mutex and are one step each.  A token is `Minute`
units and buckets gain `Rpm` units per unit of time, so all arithmetic is exact.
`Server` is the life of a POST: admitted by `acquireRequest`, forwarded under
`acquireHost`, both given back by defer.  `CountsAgree`: live counts are the number of
requests holding them.  `RateKept`: over any window (`from` is chosen freely) no
identity exceeds burst plus rate, although records are dropped ("reconnecting cannot
reset a quota", `limits.go:56`).  `WaitExact`: Retry-After is the first second with a
token.  `ImplementsMeter`: forgetting is invisible.

### ClientAddress

The limiter counts by an identity, which clientIP reads off a request.  The module follows
one request from the machine that sends it to the server (`Enter`).  A machine is an
address or something that is not read as one; a trusted proxy (`Pass`) appends the address
it was connected from to the header, which is what makes it worth trusting; any other
machine (`Detour`) sends on what it likes.  `room` stands for the bytes left of the 2048
that clientIP reads, counted in addresses; `source` is history, the last machine that is
not trusted, or the first one of all.

* `ChargedToSource`: whatever is in the header, the request is charged to `source`: not to
  a made-up address before it nor to a proxy after it.  A header that cannot be read is not
  used at all, and the request is charged to the proxy that connected; such a header is one
  that somebody made so or that went over too many proxies.

## 3. The runs

All configurations but `chunking` set `CHECK_DEADLOCK FALSE`: the user may close every
tab or start nothing more, and clocks, revisions, keystrokes, operations and runs are
bounded.

| run | bounds | shows |
|---|---|---|
| `scheduler` | 2 tabs, 2 tasks of 1 block, refused writes of one of them, a cooldown until 2, clock to 2 | OneRequest, RegistryTruth, PhaseTruth, PauseKept, ImplementsQueue, PauseTakesEffect, QueueMoves |
| `scheduler_rates` | 1 tab, 2 tasks with intervals 1 and 2, records kept 2, clock to 5 | SlotsSpaced |
| `scheduler_overlap` | 2 tabs, 2 tasks | *violated*: finding 1 |
| `runner` | 3 cues in 1 or 2 blocks, statuses 400, 429 and 502, waits 0 and 4000 s, 1 retry, 1 busy answer, 2 runs, faults | all of Runner; a refused or an answered wait may be over at any time |
| `workspace` | 2 tabs, 2 blocks, 2 texts, 2 settings, 5 revisions, 1 refused write | ImplementsStore, SameRevision |
| `workspace_clear` | 2 tabs, 1 block, 3 revisions, a clear, an import, 2 refused writes | NeverAhead, UnsavedKept |
| `workspace_blame` | 1 tab, 1 refused write | *violated*: finding 2 |
| `workspace_stale` | 2 tabs, 5 revisions, a clear, an import, 2 refused writes; nothing is started while a clear waits for heldJobs | *violated*: finding 3 |
| `text_edits` | 4 keystrokes of 4 inputs (two that normalize alike, one invalid), 2 writes of others | all of TextEdits |
| `chunking` | all files of 5 cues of 5 kinds (short, ends a sentence in both or in one language, before a pause, too long for a block), 147 files of 2 out of 7 odd pieces in each format (a third of them readable), one of 3 cues whose bilingual export is too long, 8 texts for translations, three of them with U+FEFF at an end, 5 settings | all of Chunking |
| `records` | up to 2 tasks of version 1 or 3, each whole, repairable or not, of one name or two, perhaps a record kept from before, 3 seeds, replies of up to 2 terms, room for 2, 4 operations | all of Records |
| `server` | first a way: 2 visitors, 2 trusted proxies, 1 machine whose address cannot be read, up to 3 machines after the first, headers of up to 2 made-up parts, 3 parts read; then 2 identities, 2 hosts, 2 connections, room for 1 record of each, clock to 5 | ChargedToSource and all of Server |

Why the bounds suffice to make the hard cases happen: two tasks are enough for one to
wait behind the other and to overtake it; two tabs for a crash beside a survivor.  A
task of one block may still make any number of requests, as they fail and are tried
again; safety of the scheduler is proved for blocks of any number.  A cooldown taken over from
an older version (`Legacy`) is there when the first workers come for their slots, so they
sleep; nothing says that the clock reaches it, so that a pause has to end the sleep.  The
writes of one task are refused and those of the other are not, which lets one go wrong
beside one that does not.  In
`scheduler_rates` the rate records expire within the clock.  Three cues give a split
of a split, and every reply of up to three lines; a status of each class (fatal,
retryable, retryable with a wait that is cut to an hour) takes every branch.  Five revisions allow a correction and a change of settings to fall
between a checkpoint and its write.  Four operations make a backup of damaged tasks,
import it next to what it was made of and delete a record of it.  The odd pieces and texts hold
every kind of line in every place where the code looks at it.  One record in each table makes the tables full
with the second visitor, and `Idle = Minute` lets records expire while requests live.
Three machines after the first allow two trusted proxies behind one that is not, or a header
that grows past what is read; one visitor and one proxy have IPv6 addresses, so that
addresses and identities differ.  `MCServer` takes the way of a request and the work of the
server one after the other and follows one of the ways further, as the server sees no more
of a way than the identity it ends with.
What the proofs cover does not depend on any of these bounds.  Type
invariants are part of the invariants that are proved, and no run repeats them.

In `workspace` nothing is cleared and nothing imported, because finding 3 breaks
`OnlyFixed` (which the refinement covers otherwise) and the refinement once a task comes
back.  The proofs draw the line where it is: `SameRevision`, `OnlyFixed` and the
refinement hold for every number of refused writes, deletions and clears until the first
import, and for none beyond it (section 5).

Symmetry is used for visitors and connections (`server`) and for tabs, texts and
settings (`Workspace`), which no definition tells apart, and never in a run with a
liveness property.

### Fairness

* Scheduler: weak fairness of each worker's own steps, of granting a free lock, of an
  answer of some kind (translate gives up after `timeoutSeconds`), and of hearing of a
  pause (`HearPause`): its write to the registry is a storage event in the other tabs,
  which calls reconcile, and pauseJob calls it in its own; if that falls together with a
  reconcile under way, the timer of a busy tab does it later.  None for users, for
  closing, for time, or for the sleep until a slot (`WakeUp`), since timers stop in the
  background.  `QueueMoves` assumes in addition that such sleeps end (`WaitsEnd`) and that
  the provider answers some requests of a task that never stops asking, since the code
  retries a busy provider for ever.
* Runner: weak fairness of the run's steps and of time, which ends a cooldown; a slot
  comes up in the end, and a request ends, by the timeout if nothing else.
* TextEdits: a timer fires and a save ends.  Nothing is expected of the user.

## 4. Findings

1. `scheduler_overlap`.  activate's check for older pages (`coordinator.ts:125`) also
   hits a current page: after a crash, the dead tab's entry outlives it if its task is
   started again at once, because the job lock is held again before register replaces
   the entry.  A queued task that is granted the execution lock in that interval is
   turned away with the message about an old page.
2. `workspace_blame`.  saveTranslation looks at `dirty` and then queues for
   `WRITE_LOCK`.  If a save ahead of it in the queue is refused by localStorage, the
   correction moves the stored revision past the base of the unsaved copy, and every
   later save of it is refused as if another tab had written, with one tab open.
3. `workspace_stale`.  Clearing restarts the revisions, so an unsaved copy of before
   may match the revision of a task imported afterwards and overwrite it.  The run leaves
   out starts between the check of the locks and the removal, by which the same overwrite
   comes about in fewer steps.

Observations no run states, met while modelling and proving:

* Finding 3 needs no clear.  A tab with an unsaved copy asks to delete its task and then
  saves an edited translation, so that the save of the copy waits behind the deletion.
  The deletion forgets that the copy is unsaved, another tab imports the task again, and
  the waiting save, which is no longer checked against its base (`workspace.ts:174`),
  stores the copy's settings over the imported ones.  It takes two refused writes.
* clearWorkspace awaits heldJobs before it removes anything (`workspace.ts:344`), and
  another tab may start a task meanwhile.  Its worker goes on with a task that is no
  longer in workspace.jobs, so that what it cannot save is not among what the page shows
  and exports, contrary to `workspace.ts:131`.
* A tab that lost the storage event of a clear, as a page kept for the back button may,
  stays deaf to the storage until the stored revision reaches the one it has seen:
  pageshow refreshes without resetting it (`workspace.ts:609-612`, `:117`), and its own
  page shows what was cleared.
* A direct request that fetch reports as failed may have reached the provider
  (`transport.ts:15`), and goes out again over the server: a block may be paid for twice.
  A Retry-After that the provider does not expose to other origins is not heard
  (`translation.ts:303`).
* A backup of a full workspace with drafts that cannot be put into their tasks has
  more entries than importBackup takes (`workspace.ts:409`), even into an empty
  workspace.  `BackupComplete` excepts it.
* A term without a name is named after its place (`storage.ts:98`), so a name is used
  again when the last term is deleted and another one learned; a draft of the deleted
  term that could not be saved then belongs to the new one.
* exportRecovery writes version 3 around data of any version (`workspace.ts:383`): a
  task of the first version that was repaired by hand is not migrated when imported,
  and comes back as a record.
* An identifier of a VTT cue that opens metadata, as `NOTE 1`, but was read with white
  space before it (`subtitle.ts:31` looks at the untrimmed line, `:38` trims it), is
  written without it: the exported cue is metadata to whoever reads it.
* A cue of more than 16000 bytes is refused when it is read (`subtitle.ts:63`), a
  translation may have 32000 and a bilingual cue both: such an export cannot be read
  again, by the merge page for one.  Nor can one of more than 2 MB (`subtitle.ts:17`),
  which the bilingual export of a large file may be.
* cleanText leaves U+FEFF at the ends of a translation, as `\p{White_Space}` does not hold
  it (`text.ts:6`), and the reader's String.trim takes it away (`subtitle.ts:62`): the
  export is read without it.
* The relay refuses more than 32768 output tokens (`relay/client.go:59`), the page
  allows 128000 (`types.ts:201`): such a task ends in an error when it falls back.

## 5. The proofs

Constants are assumed to be what the `ASSUME`s of the modules say: sets of any size
(finite for the limiter), rates and limits of at least 1, and for the registry that
an interval is no longer than a rate record is kept (`rpm >= 1` makes it a minute at
most, against a day).

**Scheduler.**  `RegistryTruth` is not inductive: an entry survives pruning because
its job lock is held, which is so because the worker is alive, and no other worker
can touch the entry because there is only one.  `IInv` therefore adds `LocksAgree`
(a worker exists exactly while its lock is held by an open tab; code under the
execution lock runs for its holder) and `WorkLeft`.  Each conjunct has a lemma with a
case per action.  `OneRequest` follows from `LocksAgree`, `PhaseTruth` and `PauseKept`
are proved on top of `IInv`.  For `SlotsSpaced`, `RatesRecorded` says in which sense a
rate record stands for the history until it no longer matters, which is what makes
forgetting it harmless.  `SchedulerImplementsQueue` maps every action to a step of
`TranslationQueue` or to none; the order of the queue rests on `LocksAgree`.

**Server.**  `IInv` joins types, `RecordsFit` (no bucket above its burst, no record
newer than the clock), `HandlersFit` and `CountsAgree`; the clean-up keeps
`CountsAgree` because a record with a live request is not expired.  `RateKept` needs
the strengthening `RateInv`: what was admitted in the window is covered by the present debt and
what has drained.  The refinement maps a bucket to its debt, what it lacks *now*; a
record that expires has been idle for `Idle >= Minute`, by which time its debt is 0.
Products of variables are beyond the SMT solver, so the few facts about them are
lemmas of their own.  `WaitExact` follows from `IInv` by what rounding up a quotient
means (`CeilDivFacts`): one second less would leave the bucket short of a token.

**ClientAddress.**  `ChargedToSource` speaks of the end of the way; `Traced` is what holds on
it: either the machine that has the request is `source` itself, and has made no header up if
it is trusted, or it is trusted and `source` stands in the header with nothing but trusted
addresses after it (`Stands`).  A trusted proxy that appends an address keeps that, whatever
was in front.  The walk is a recursive function: `VouchedUnfolds` shows that it is what its
definition says (`Recursion`), `VouchedStands` follows it from the right to that very part
(`Along`).  Nothing is assumed of how many parts or bytes are read.

**Protocol.**  `TranslateSound` holds for every course of a request over both routes,
any set of statuses between 300 and 599, any waits and any finite set of cues:
translate returns exactly the cues asked for, or a failure.  Its wait is the one asked for
unless it is masked; if it may be tried again it is charged, except where the limiter
refuses; it turns the run to the server only if fetch reports a direct request as failed
that was neither aborted nor timed out; and a request that reached the provider and failed
is charged or turns the run.  The proof goes by cases on the courses, with a lemma
for each reader (`Read`, `ServerError`, `ParseTranslation`).

**Runner.**  No property is inductive alone.  `IInv` joins types, `Checkpoint` (memory
and storage each hold blocks that tile the document, translated exactly as far as they
are finished), `Within` (where a run can be and with what), `Ahead` (storage has
finished no block that memory has not), `Kept` (what came back is in memory, and in
storage unless a save is under way or was refused), `Counted` and `Budgeted` (the counters
are what the history says), `Heard` (the failure at hand means what was
true of the exchange, which rests on `TranslateSound`) and `Stopped`.  There is one
lemma per action, over three helpers that most actions end in (giving up, throwing,
saving) and two facts about data: a block's answer extends the translated part
(`CommitGood`), a split keeps the tiling (`SplitGood`, over `Splice`).  All safety
properties of `Runner` follow, the action properties from `IInv` in the first state
of a step.  What concerns the provider is a second invariant on top of it, `PInv`: `Owing`
(a wait that is owed is cooling, or its failure is at hand) and `Asking` (how many requests
the provider has had, by route).

**TextEdits.**  `InputOnItsWay` is inductive as it stands.  `LastInputStored` needs
`Live` (a draft that differs from what was saved, or that a save is under way for, holds
the last input) and `Based` (without other tabs, what is stored is what was saved last);
`KnownReplaced` needs `Seen` (what a save compares with is a text the user has had) and
`Orphan` (a save whose draft has gone works for a task that is gone, and is refused).
`Looped` says what one turn of the loop of save() leaves behind; all actions that save
go through it.  Normalization is assumed to be idempotent, as trimSpace and cleanText
are.

**Workspace.**  The invariant has two parts.  `Fitting` holds whatever happens: types;
`QueueFits`, by which a request in the queue is one its tab waits for at that very step,
and no tab has two of a kind; `RunFits`, by which a run has its task, in memory or in hand,
and in storage as long as nothing was cleared; and `NeverAhead`.  They hold together only:
that a task is not deleted under a run rests on the job lock, that an answer finds its
request on the queue.  A clear may come under a run, as the check of the locks is awaited;
the run then goes on with the task in hand.  `UnsavedKept`
follows from them and from `KeptByNext`, one case per action.

`Agreeing` says what the copies and the requests under way have to do with what is stored,
and speaks of the original task only, the one there was before any import.  Of such a
task nobody is ahead: nothing was cleared, and no copy or request has a later revision
than the stored task (`Young`, `Behind`).  The rest is what each of persistJob's ways to
store a copy relies on:

* an unsaved copy is stored if its base is still the stored revision.  `CopiesAgree` says
  that it then has the stored settings and texts and at most one block more, and `Based`
  that a checkpoint in the queue with such a base is still what its tab has in memory;
* a copy that is not marked unsaved is stored without any look at revisions.  Under the
  job lock that is right because nobody else adds blocks or changes settings meanwhile:
  `RunAgrees` follows the worker from the answer (exactly as many blocks as stored) to its
  save (exactly one more), and says that while a block is out no tab's unsaved copy
  can still be stored.  An editor's retry without the lock may have lost its mark to a
  save of the same tab's worker ahead of it; `Unbased` says that it then has no block of
  its own left to add;
* the last case rests on the order of the queue: `InOrder` says that two checkpoints of
  one tab are of one copy, and that no change of the settings is ahead of an editor's
  checkpoint whose base is no longer looked at.

`IInv` is `Fitting` and `Agreeing`; TLC checked it on small instances before it was
proved.  Each action has a lemma for `Fitting` and one for `Agreeing`;
what `SaveMerged` does is proved by kind of request and step of the worker (`WorkerSaves`,
`EditorSaves`), over `Merges` and `TakesOver`, which describe the two ways of merging
once.  The refinement maps `SaveMerged` to the
store's `Extend` or to no step, `CommitDraft` to `Correct`, `Fix` to `Configure`, `Delete`
and `Clear` to `Remove`, and everything else to no step.  `StoreUntilImport` states it up to the
first import, `WorkspaceImplementsStore` for a workspace in which nothing is imported;
`SettingsOnlyFixed` follows in the same way.  The hypothesis is needed: with one import
`workspace_stale` breaks `OnlyFixed`, and so does the first observation of section 4.

**Chunking.**  Reading a file, the cut and its sums are recursive functions of positions.  The
library's induction theorems take an operator and are out of reach, so `ListTheorems` has
its own: a set of numbers has a least element (`LeastNumber`), so a set that holds 0 and with
every number the next one holds them all (`UpTo`, `Along`); and a function that begins
with a value and goes on by steps exists (`Recursion`), so that the function a model
defines by recursion is what its definition says.  Sums over different starts are compared
as differences of one sum (`CharactersSum`).

`InitMeasured` shows that the cues of what is read have numbers for lengths (`DocumentRead`
below).  `HardEnd` exists because a block of one cue
is allowed and one past the end is not (`HardEndFits`, by `Turns`), and a block that ends
earlier keeps the limits too (`ShorterFits`).  `Best` exists because finitely many scores
have a greatest, and those that have it a first (`BestPlace`).  So each block ends after it
begins and within the limits (`BlockEndFits`), and the blocks from any position on tile the
rest (`CutTiles`).  The rest of a task is such a cut, moved (`RestCut`); a split leaves two
blocks shorter than the one it halves (`Halves`).  `IInv` joins the types, the tiling of the
whole and the limits of the blocks still to be sent, the last for the settings as they are.
`CutsAtBreaks` then needs no history: a block that ends at its limit has no better place
between its minimum and it.

`ExportReadsBack` relates a printer and a parser, for any file the task was made of and any
translations.  Its invariant `DocumentInv` says what a document that was read is like:
`Sound`, its cues have times a timestamp can show and texts with no white space around them,
its metadata stands in the order of the cues, its identifiers are those a file of its format
can have; and `Ended`, metadata after the last cue does not end in a line of white space.  `DocumentRead` proves both of whatever `ParseSubtitle` does not refuse, block by
block (`BlockRead`, `ReadsGo`): a block is never empty and begins with no white space
(`BlocksShape`, `FileBlocks`).  The way back has four parts:

* times: what a stamp shows is read as the time it was made of, up to the last hour
  (`TimeReadBack`), by division with remainder;
* lines: the blocks that were joined by blank lines are the blocks the file falls into
  (`BlocksJoined`, `BlocksWritten`), and nothing of them is lost when white space around the
  file is (`BlocksReadBack`);
* cues: the block written of a cue is read as that cue with the text shown (`CueWritten`,
  `CueRendered`), in the other format without its settings and with its number, if any;
* order: metadata is written before the cue it stood before and read there again, so that what
  is read after the first *n* cues is the document up to cue *n* (`MetadataRead`,
  `InsideReads`).

`FileReadBack` puts them together for a file in which no identifier opens metadata
(`Misread`), no text is too long or `Marked`, and which is not too long itself: the four
exceptions `Unreadable` names.  A text that cleanText has been over is `Tidy`, begins and ends
with what trimSpace leaves, and String.trim leaves it alone too unless it is `Marked`
(`TidyTrimmed`).  `ExportsFine` concludes, as a file holds nothing of a translation but its normal form
(`RenderSame`), and that is the text the export is read with.

**Records.**  Everything holds for any seeds, limits, terms, drafts and answers, and for any
sequence of operations on any stored data.  What is stored goes through folds: names are
given one task after the other (`Identified`), the tasks of a load are taken one by one
(`Taken`), so are the terms of an answer (`Learned`).  The model has them as recursive
functions of the number of elements taken, and each has one fact that says what the fold
keeps, proved along the list by `ListTheorems`:

* `FreeIDFacts`, `IdentifiedFacts`: a name that is given is free, of the kind and number asked
  for, and that very name if it was free; terms that get names stay valid;
* `RestoreKeeps`: whatever is stored, each of its contents is a task or a record of the
  load, and the load is *clean*: no damage, no name twice, terms that read as themselves;
* `ReadBack`: what is clean is read as it is;
* `WriteKeeps`: an operation that writes clean tasks, and of the records only old ones
  under their own names or new ones under new names, loses nothing;
* `LearnedFacts`, `CopiedFacts`: an answer adds only terms the next load accepts, an
  import only copies of what the file has.

`IInv` is what `NothingLost` needs to be inductive: names are of a maker and numbered below
`made` (`NameUpTo`), `told` gives one content per name, and only of names made before
(`Shown`), so that a deletion removes what the user was shown and a record made later never
takes an old name.  `ReadsBack` comes out of the same lemma for each operation.

`BackupComplete` needs one invariant more, `Drafted`: a draft's task is there, and no field
has two drafts.  Then a draft that is put into the copy of its task, or into a record because
the task would not be valid with it, stays there when the next one is put in (`PutFacts`,
`WithDraftsFacts`, `SnapshotFacts`).  The copies are clean, so the tasks are read back as they
are, and records that follow clean data keep their contents (`ReadBackMore`).

`SentFirst` holds of any list of terms: `RanksNumber` says that ranks number a strict total order
without gaps, so `Sorted` has each term once and in order (`SortedFacts`), and a term that is
left out had no room beside those taken before it, all of which matter as much
(`FilledFacts`).

Model-checked only: all liveness (TLAPS does not handle it under fairness).

## 6. What is left out

* localStorage: one `setItem` is atomic; the two keys are written separately, as in the
  code.  Web Locks: first come, first served, released when a page dies.
* A worker's `Reconcile` after it publishes is not forced to follow: any tab may
  reconcile at any time, which includes it.
* Rates change only between runs (a run registers its rpm); cooldowns of the v1
  migration are the constant `Legacy`.
* Limiter: buckets are exact where the code has float64; a restart of the server,
  which forgets everything, is outside the promise.
* TextEdits: a deleted task does not come back while a save of it is under way.
* Workspace: a page has at most one request of a worker and one of an editor in the queue
  (`QueueFits` proves it), which is what `Withdrawn` takes away with the page; keys and
  profiles, and all tasks but one.
* Protocol: the prompt, usage counters and warnings; at what time of the client's
  timeout the relay's own deadline ends a request (either may come first).
* Records: keys and profiles with their redaction; drafts of translations in a backup
  (those of terms are modelled).
* Subtitle: decoding; bytes (a text or a file is as long as its lines are many, so that
  its limits are there but not where exactly they lie); white space after what a line
  says, but for a text's end; the checks of stored documents by validateDocument.
* Scheduler and Workspace: what a worker does after its task was cleared under it is
  followed in one of them each, its locks in the first, its copies in the second.
* ClientAddress: how an address is written, how TRUSTED_PROXIES is read; a trusted proxy that
  does not append the address it was connected from.
* The parts listed as `not_modelled` in `PROJECT.json`: wording and navigation, start-up,
  scripts.

## 7. Plan

Done, in this order: `Coordinator` and `Scheduler` with its queue, `Limiter` and
`Server` with its meter and `ClientAddress`, `Workspace` with its store, `TextEdits`, `Chunking`,
`Protocol` under `Runner`, `Glossary` under `Records`, `Subtitle` under `Chunking`; and
the proofs of the scheduler, the server, the protocol, the runner, the editors, the
workspace, the cut of a document and its exports, and the records.

Next, modelling: `Runner` over block lists of `Chunking` in place of any tiling; the
drafts of translations in backups.
